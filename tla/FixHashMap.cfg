SPECIFICATION Spec
CONSTANTS
    Keys <- CollidingKeys
    Values = {v1, v2}
    NumBuckets = 4
    Null = Null
PROPERTY DeleteKeepsOthers
