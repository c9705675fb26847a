SPECIFICATION Spec
CONSTANTS
    Keys = {k1, k2, k3, k4}
    Values <- ValueSet
    Addrs = {a1, a2, a3, a4}
    MaxEntries = 3
    Null = Null
INVARIANTS
    TypeOK
    NoNullDereference
    NoLeak
    ListSound
PROPERTY IsLruCache
SYMMETRY Symmetry
