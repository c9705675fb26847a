------------------------------ MODULE LruCache ------------------------------
(***************************************************************************)
(* What an LRU hash map promises: a bounded map whose keys are ordered by  *)
(* use, where a lookup or an update makes a key the most recent, and an    *)
(* insertion into a full map drops the least recent key and no other.  A   *)
(* map of capacity 0 answers no insertion.                                 *)
(***************************************************************************)
EXTENDS Naturals, Sequences

CONSTANTS Keys, Values, MaxEntries

VARIABLES
    max_entries,
    order,   \* the keys, most recently used first
    val,     \* the value of each of them
    ret      \* what the last call returned

Flags == {"BPF_ANY", "BPF_NOEXIST", "BPF_EXIST", "other"}
Present == {order[i] : i \in DOMAIN order}
Without(s, k) == SelectSeq(s, LAMBDA x : x # k)
Touch(k) == order' = <<k>> \o Without(order, k)

Init == /\ max_entries \in 0..MaxEntries
        /\ order = <<>> /\ val = [k \in {} |-> k] /\ ret = "ok"

Lookup(k) ==
    \/ /\ k \in Present
       /\ Touch(k) /\ ret' = val[k] /\ UNCHANGED val
    \/ k \notin Present /\ ret' = "ENOENT" /\ UNCHANGED <<order, val>>

Insert(k, v) ==
    LET kept == IF Len(order) = max_entries
                  THEN SubSeq(order, 1, max_entries - 1) ELSE order
        keys == {kept[i] : i \in DOMAIN kept} \cup {k}
    IN  /\ max_entries > 0
        /\ order' = <<k>> \o kept
        /\ val' = [x \in keys |-> IF x = k THEN v ELSE val[x]]
        /\ ret' = "ok"

Update(k, v, f) ==
    \/ f = "other" /\ ret' = "EINVAL" /\ UNCHANGED <<order, val>>
    \/ /\ k \in Present /\ f = "BPF_NOEXIST"
       /\ ret' = "EEXIST" /\ UNCHANGED <<order, val>>
    \/ /\ k \notin Present /\ f = "BPF_EXIST"
       /\ ret' = "ENOENT" /\ UNCHANGED <<order, val>>
    \/ /\ k \in Present /\ f \in {"BPF_ANY", "BPF_EXIST"}
       /\ Touch(k) /\ val' = [val EXCEPT ![k] = v] /\ ret' = "ok"
    \/ k \notin Present /\ f \in {"BPF_ANY", "BPF_NOEXIST"} /\ Insert(k, v)

Delete(k) ==
    \/ /\ k \in Present
       /\ order' = Without(order, k)
       /\ val' = [x \in Present \ {k} |-> val[x]]
       /\ ret' = "ok"
    \/ k \notin Present /\ ret' = "ENOENT" /\ UNCHANGED <<order, val>>

Next == /\ UNCHANGED max_entries
        /\ \E k \in Keys :
              \/ Lookup(k)
              \/ \E v \in Values, f \in Flags : Update(k, v, f)
              \/ Delete(k)

Spec == Init /\ [][Next]_<<max_entries, order, val, ret>>
=============================================================================
