SPECIFICATION Spec
CONSTANTS
    k1 = k1
    k2 = k2
    k3 = k3
    Keys = {k1, k2, k3}
    Values <- TwoValues
    OffsetSpace = 32
    PoolSize = 8
    NumBuckets = 2
    ItemsPerBucket = 2
    TagSpace = 4
    Configs <- FifoCrowded
PROPERTY EvictsOldest
