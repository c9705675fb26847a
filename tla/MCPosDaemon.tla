---------------------------- MODULE MCPosDaemon ----------------------------
(* An instance of PosDaemon for TLC. *)
EXTENDS PosDaemon

TwoHandles == 0..1

============================================================================
