------------------------- MODULE MCPerfEventBuffer -------------------------
(* Instances of PerfEventBuffer.  Records of 3, 4 and 8 bytes in a ring of *)
(* 8: they wrap, leave one byte free, and the last one never fits.         *)
EXTENDS PerfEventBuffer

PayloadSizes == {1, 2, 6}
=============================================================================
