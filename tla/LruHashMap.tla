----------------------------- MODULE LruHashMap -----------------------------
(***************************************************************************)
(* lru_var_hash_map_impl: a hash map whose nodes own the entries of a      *)
(* doubly linked list in order of use.  Shared pointers (map node, head,   *)
(* tail, next_entry) keep an entry alive, weak ones (previous_entry) yield *)
(* null once it is gone.  The map handler runs every operation under its   *)
(* lock, so each is one action.                                            *)
(***************************************************************************)
EXTENDS Naturals, FiniteSets, Sequences

CONSTANTS
    Keys, Values,
    Addrs,        \* where list entries may be constructed
    MaxEntries,   \* bound on max_entries
    Null

ASSUME MaxEntriesAssumption == MaxEntries \in Nat
ASSUME AddrsAssumption ==
    IsFiniteSet(Addrs) /\ Null \notin Addrs /\ Null # "fault"

VARIABLES
    max_entries,  \* as the map was created; nothing rules 0 out
    map_impl,     \* key -> its value and list entry
    mem,          \* the list entries; mem[Null] is what a null pointer meets
    head, tail,   \* lru_link_list_head, lru_link_list_tail
    ret           \* what the last call returned

vars == <<max_entries, map_impl, mem, head, tail, ret>>

Pointers == Addrs \cup {Null}
GoodFlags == {"BPF_ANY", "BPF_NOEXIST", "BPF_EXIST"}
Flags == GoodFlags \cup {"other"}
Entry == [key : Keys \cup {Null, "fault"}, next : Pointers, prev : Pointers]
Blank == [key |-> Null, next |-> Null, prev |-> Null]
Fault == [Blank EXCEPT !.key = "fault"]

TypeOK ==
    /\ max_entries \in 0..MaxEntries
    /\ DOMAIN map_impl \subseteq Keys
    /\ Cardinality(DOMAIN map_impl) <= max_entries
    /\ \A k \in DOMAIN map_impl :
          map_impl[k] \in [value : Values, entry : Addrs]
    /\ mem \in [Pointers -> Entry]
    /\ head \in Pointers /\ tail \in Pointers
    /\ ret \in Values \cup {"ok", "ENOENT", "EEXIST", "EINVAL"}

Init ==
    /\ max_entries \in 0..MaxEntries
    /\ map_impl = [k \in {} |-> k]
    /\ mem = [a \in Pointers |-> Blank]
    /\ head = Null /\ tail = Null /\ ret = "ok"

----------------------------------------------------------------------------
(* Reference counts *)

\* S holds the roots and whatever a next_entry in S points to.
Closed(m, roots, S) ==
    /\ roots \ {Null} \subseteq S
    /\ \A a \in S : m[a].next \in S \cup {Null}

\* Everything reachable from the roots: what is in every closed set.
Closure(m, roots) ==
    {a \in Addrs : \A S \in SUBSET Addrs : Closed(m, roots, S) => a \in S}

Owned(map, l) == Closure(l.mem, {map[k].entry : k \in DOMAIN map}
                                   \cup {l.head, l.tail})

List == [mem |-> mem, head |-> head, tail |-> tail]
Live == Owned(map_impl, List)

\* weak_ptr::lock
lock(a) == IF a \in Live THEN a ELSE Null

\* When an operation ends, entries without an owner are destroyed and give
\* up the pointers in them.
Released(map, l) ==
    LET live == Owned(map, l)
    IN  [a \in Pointers |->
           IF a \notin live /\ a # Null THEN Blank
           ELSE [l.mem[a] EXCEPT !.prev = IF @ \in live THEN @ ELSE Null]]

----------------------------------------------------------------------------
(* The list *)

\* A write through a pointer; through the null one it is a fault.
Write(l, a, entry) == [l EXCEPT !.mem[a] = IF a = Null THEN Fault ELSE entry]

\* a->next_entry = p and a->previous_entry = p
SetNext(l, a, p) == Write(l, a, [l.mem[a] EXCEPT !.next = p])
SetPrev(l, a, p) == Write(l, a, [l.mem[a] EXCEPT !.prev = p])

\* The part of move_to_head that takes the entry out of its place.
UnlinkedKeepingTail(l, entry) ==
    LET prev == lock(l.mem[entry].prev)
        next == l.mem[entry].next
        l1 == SetNext(l, prev, next)
    IN  IF next # Null THEN SetPrev(l1, next, prev) ELSE l1

Unlinked(l, entry) ==
    LET prev == lock(l.mem[entry].prev)
        next == l.mem[entry].next
        l1 == SetNext(l, prev, next)
    IN  IF next # Null THEN SetPrev(l1, next, prev)
                       ELSE [l1 EXCEPT !.tail = prev]

move_to_headAlways(l, entry) ==
    LET l1 == SetNext(Unlinked(l, entry), entry, l.head)
        l2 == SetPrev(l1, entry, Null)
        l3 == SetPrev(l2, l.head, entry)
    IN  [l3 EXCEPT !.head = entry]

move_to_head(l, entry) ==
    IF entry = l.head THEN l
    ELSE LET l1 == SetNext(Unlinked(l, entry), entry, l.head)
             l2 == SetPrev(l1, entry, Null)
             l3 == SetPrev(l2, l.head, entry)
         IN  [l3 EXCEPT !.head = entry]

insert_new_entry(l, a, k) ==
    LET l1 == Write(l, a, [key |-> k, next |-> l.head, prev |-> Null])
    IN  IF l.head = Null THEN [l1 EXCEPT !.head = a, !.tail = a]
        ELSE [SetPrev(l1, l.head, a) EXCEPT !.head = a]

evict_entryKeepingHead(l, entry) ==
    LET prev == lock(l.mem[entry].prev)
        next == l.mem[entry].next
    IN  CASE entry = l.tail /\ entry = l.head ->
               [l EXCEPT !.head = Null, !.tail = Null]
          [] entry = l.tail /\ entry # l.head ->
               [SetNext(l, prev, Null) EXCEPT !.tail = prev]
          [] entry # l.tail /\ entry = l.head -> SetPrev(l, next, Null)
          [] entry # l.tail /\ entry # l.head ->
               SetPrev(SetNext(l, prev, next), next, prev)

evict_entry(l, entry) ==
    LET prev == lock(l.mem[entry].prev)
        next == l.mem[entry].next
    IN  CASE entry = l.tail /\ entry = l.head ->
               [l EXCEPT !.head = Null, !.tail = Null]
          [] entry = l.tail /\ entry # l.head ->
               [SetNext(l, prev, Null) EXCEPT !.tail = prev]
          [] entry # l.tail /\ entry = l.head ->
               [SetPrev(l, next, Null) EXCEPT !.head = next]
          [] entry # l.tail /\ entry # l.head ->
               SetPrev(SetNext(l, prev, next), next, prev)

----------------------------------------------------------------------------
(* The operations *)

Finish(l, map, result) ==
    /\ map_impl' = map
    /\ head' = l.head /\ tail' = l.tail
    /\ mem' = Released(map, l)
    /\ ret' = result
    /\ UNCHANGED max_entries

Fail(error) ==
    ret' = error /\ UNCHANGED <<max_entries, map_impl, mem, head, tail>>

Erased(map, k) == [x \in DOMAIN map \ {k} |-> map[x]]

elem_lookupUntouched(k) ==
    \/ /\ k \in DOMAIN map_impl
       /\ Finish(List, map_impl, map_impl[k].value)
    \/ k \notin DOMAIN map_impl /\ Fail("ENOENT")

elem_lookup(k) ==
    \/ /\ k \in DOMAIN map_impl
       /\ Finish(move_to_head(List, map_impl[k].entry), map_impl,
                 map_impl[k].value)
    \/ k \notin DOMAIN map_impl /\ Fail("ENOENT")

\* The list and the map once there is room for one more entry.
FullTooLate == Cardinality(DOMAIN map_impl) > max_entries
Full == Cardinality(DOMAIN map_impl) = max_entries
RoomList == IF Full THEN evict_entry(List, tail) ELSE List
RoomMap == IF Full THEN Erased(map_impl, mem[tail].key) ELSE map_impl

\* A full map without a tail: the key to evict is read through null.
NullTail ==
    /\ Full /\ tail = Null
    /\ mem' = [mem EXCEPT ![Null] = Fault]
    /\ UNCHANGED <<max_entries, map_impl, head, tail, ret>>

elem_update(k, v, flags) ==
    \/ flags \notin GoodFlags /\ Fail("EINVAL")
    \/ k \in DOMAIN map_impl /\ flags = "BPF_NOEXIST" /\ Fail("EEXIST")
    \/ k \notin DOMAIN map_impl /\ flags = "BPF_EXIST" /\ Fail("ENOENT")
    \/ /\ k \in DOMAIN map_impl /\ flags \in {"BPF_ANY", "BPF_EXIST"}
       /\ Finish(move_to_head(List, map_impl[k].entry),
                 [map_impl EXCEPT ![k].value = v], "ok")
    \/ /\ k \notin DOMAIN map_impl /\ flags \in {"BPF_ANY", "BPF_NOEXIST"}
       /\ NullTail
    \/ /\ k \notin DOMAIN map_impl /\ flags \in {"BPF_ANY", "BPF_NOEXIST"}
       /\ ~(Full /\ tail = Null)
       /\ \E a \in Addrs \ Owned(RoomMap, RoomList) :
            Finish(insert_new_entry(RoomList, a, k),
                   [x \in DOMAIN RoomMap \cup {k} |->
                      IF x = k THEN [value |-> v, entry |-> a]
                               ELSE RoomMap[x]], "ok")

elem_delete(k) ==
    \/ /\ k \in DOMAIN map_impl
       /\ Finish(evict_entry(List, map_impl[k].entry), Erased(map_impl, k), "ok")
    \/ k \notin DOMAIN map_impl /\ Fail("ENOENT")

Step == \E k \in Keys :
           \/ elem_lookup(k)
           \/ \E v \in Values, flags \in Flags : elem_update(k, v, flags)
           \/ elem_delete(k)

\* A process that went through a null pointer is gone.
Gone == mem[Null] # Blank
Next == (~Gone /\ Step) \/ (Gone /\ UNCHANGED vars)

Spec == Init /\ [][Next]_vars

----------------------------------------------------------------------------
(* Properties *)

\* No operation goes through a null pointer, such as a previous_entry whose
\* entry is gone, but the first insertion into a map of capacity 0, which is
\* full and has no least recently used entry.
NoNullDereference == Gone => max_entries = 0

\* The entries of the map are exactly those alive, each with its key: nothing
\* evicted or deleted is kept by the list, and nothing alive was destroyed.
NoLeak ==
    /\ Live = {map_impl[k].entry : k \in DOMAIN map_impl}
    /\ \A k \in DOMAIN map_impl : mem[map_impl[k].entry].key = k

\* The list reads the same from both ends: following next_entry from head
\* ends at tail, and every previous_entry undoes the next_entry before it.
ListSound ==
    /\ (head = Null) = (tail = Null)
    /\ head # Null => mem[head].prev = Null /\ mem[tail].next = Null
    /\ \A a \in Live : mem[a].next # Null => mem[mem[a].next].prev = a
    /\ Live = Closure(mem, {head})

\* The keys in list order.
Order ==
    LET walk[n \in 0..Cardinality(Addrs)] ==
          IF n = 0 THEN <<<<>>, head>>
          ELSE LET s == walk[n - 1][1]
                   a == walk[n - 1][2]
               IN  IF a = Null THEN <<s, a>>
                   ELSE <<Append(s, mem[a].key), mem[a].next>>
    IN  walk[Cardinality(Addrs)][1]

\* The map and its list implement an LRU cache: every call answers as the
\* cache does, and what is evicted is what the cache would drop.
Cache == INSTANCE LruCache WITH
    order <- Order, val <- [k \in DOMAIN map_impl |-> map_impl[k].value]
IsLruCache == Cache!Spec
=============================================================================
