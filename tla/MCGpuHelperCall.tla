-------------------------- MODULE MCGpuHelperCall --------------------------
(* Small instances of GpuHelperCall for TLC: GPU threads and contents are  *)
(* model values, map ids are numbers.                                      *)
EXTENDS GpuHelperCall
=============================================================================
