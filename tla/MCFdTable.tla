----------------------------- MODULE MCFdTable -----------------------------
(* Small instances of the handler table. *)
EXTENDS FdTable, TLC

ThreeFds == 3..5
FourFds == 3..6
FileOps == {"open", "map", "close", "dup3"}

\* Threads differ in nothing but their names.
ThreadSymmetry == Permutations(Threads)
=============================================================================
