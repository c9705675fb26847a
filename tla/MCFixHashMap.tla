---------------------------- MODULE MCFixHashMap ----------------------------
(* Instances of FixHashMap: two-byte keys, three of which share a bucket.  *)
EXTENDS FixHashMap

CollidingKeys == {<<0, 1>>, <<0, 2>>, <<0, 7>>, <<1, 1>>}
=============================================================================
