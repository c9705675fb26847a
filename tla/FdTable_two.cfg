SPECIFICATION Spec
CONSTANTS
    Threads = {t1, t2}
    Fds <- ThreeFds
    Names = {a, r}
    OuterNames = {}
    RingNames = {r}
    OtherNames = {}
    Ops <- FileOps
    None = None
INVARIANTS
    ContainersOwned
PROPERTY StrandedByPassedClose
SYMMETRY ThreadSymmetry
