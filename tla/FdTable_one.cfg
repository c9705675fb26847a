SPECIFICATION Spec
CONSTANTS
    Threads = {t1}
    Fds <- FourFds
    Names = {b, o}
    OuterNames = {b}
    RingNames = {}
    OtherNames = {o}
    Ops <- AllOps
    None = None
INVARIANTS
    TypeOK
    LinksLive
    KernelBacked
    NothingLeft
PROPERTY HeldUntouched
