----------------------------- MODULE FixHashMap -----------------------------
(***************************************************************************)
(* bpftime_hash_map: the open-addressing table behind BPF_MAP_TYPE_HASH    *)
(* (fix_size_hash_map_impl).  The map handler runs every operation under   *)
(* its lock, so each is one action.                                        *)
(***************************************************************************)
EXTENDS Naturals, FiniteSetsExt, SequencesExt

CONSTANTS
    Keys,          \* byte strings of one length
    Values,
    NumBuckets,    \* num_buckets, the max_entries of the map, at least 1
    Null

VARIABLES
    data_buffer,   \* each bucket: empty, or a key and its value
    count          \* _count

vars == <<data_buffer, count>>

is_prime(n) == n > 1 /\ \A d \in 2..(n - 1) : n % d # 0
next_prime(n) == CHOOSE p \in n..(2 * n + 2) :
                    is_prime(p) /\ \A q \in n..(p - 1) : ~ is_prime(q)

Buckets == next_prime(NumBuckets)      \* _num_buckets
Empty == [key |-> Null, value |-> Null]

TypeOK ==
    /\ data_buffer \in [0..(Buckets - 1) ->
                          [key : Keys, value : Values] \cup {Empty}]
    /\ count \in 0..NumBuckets

Init ==
    /\ data_buffer = [i \in 0..(Buckets - 1) |-> Empty]
    /\ count = 0

\* The keys of the model are short: size_t does not overflow.
hash_func(key) == FoldLeft(LAMBDA hash, byte : hash * 31 + byte, 0, key)

\* The buckets in the order an operation on k probes them.
Probe(k, n) == (hash_func(k) + n) % Buckets

\* How far the probing goes: to the first bucket that is empty or holds k.
Stops(k) == {n \in 0..(Buckets - 1) :
               data_buffer[Probe(k, n)].key \in {Null, k}}
Stop(k) == Probe(k, Min(Stops(k)))
Found(k) == Stops(k) # {} /\ data_buffer[Stop(k)].key = k

elem_lookup(k) == IF Found(k) THEN data_buffer[Stop(k)].value ELSE Null

\* A full table is left as it is; the caller is told 0 all the same.
elem_update(k, v) ==
    \/ /\ Found(k)
       /\ data_buffer' = [data_buffer EXCEPT ![Stop(k)].value = v]
       /\ UNCHANGED count
    \/ /\ ~ Found(k) /\ Stops(k) # {} /\ count < NumBuckets
       /\ data_buffer' = [data_buffer EXCEPT
                            ![Stop(k)] = [key |-> k, value |-> v]]
       /\ count' = count + 1
    \/ /\ ~ Found(k) /\ (Stops(k) = {} \/ count >= NumBuckets)
       /\ UNCHANGED vars

elem_delete(k) ==
    \/ /\ Found(k)
       /\ data_buffer' = [data_buffer EXCEPT ![Stop(k)] = Empty]
       /\ count' = count - 1
    \/ ~ Found(k) /\ UNCHANGED vars

Next == \E k \in Keys :
           \/ \E v \in Values : elem_update(k, v)
           \/ elem_delete(k)

Spec == Init /\ [][Next]_vars

----------------------------------------------------------------------------
(* Properties *)

\* Deleting a key leaves what elem_lookup answers for every other key as it
\* was, as the unit test of bpftime_hash_map expects after elem_delete.
DeleteKeepsOthers ==
    [][\A k \in Keys : elem_delete(k) =>
          \A x \in Keys \ {k} : elem_lookup(x)' = elem_lookup(x)]_vars
=============================================================================
