---------------------------- MODULE MCLruHashMap ----------------------------
(* A small instance of the LRU hash map. *)
EXTENDS LruHashMap, TLC

ValueSet == {"u", "v"}

\* Nothing depends on which address an entry has.
Symmetry == Permutations(Addrs)
=============================================================================
