SPECIFICATION Spec
CONSTANTS
    k1 = k1
    k2 = k2
    k3 = k3
    Keys = {k1, k2, k3}
    Values <- TwoValues
    OffsetSpace = 16
    PoolSize = 4
    NumBuckets = 2
    ItemsPerBucket = 2
    TagSpace = 4
    Configs <- FifoOrLru
INVARIANTS
    TypeOK
    LogIsRowOfItems
    ValidWordsAreIntact
    TagsUnique
PROPERTIES
    StoredIsFound
    LostForCause
