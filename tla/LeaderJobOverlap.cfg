SPECIFICATION Spec
CONSTANTS
    i1 = i1
    i2 = i2
    Instances <- TwoInstances
    MaxFaults = 0
    MaxStops = 1
SYMMETRY InstanceSymmetry
INVARIANT
    OneJob
