-------------------------- MODULE MCPosAsyncCkpt --------------------------
(* An instance of PosAsyncCkpt for TLC. *)
EXTENDS PosAsyncCkpt

CONSTANTS h1, h2
TwoHandles == {h1, h2}

===========================================================================
