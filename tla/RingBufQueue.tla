--------------------------- MODULE RingBufQueue ---------------------------
(***************************************************************************)
(* What a BPF ring buffer promises its users: a first-in first-out queue   *)
(* of records that are reserved in order, settled in any order (ready to   *)
(* be read, or dropped), and taken in the order of their reservation,      *)
(* each ready one once, never past a record that is still being written.   *)
(***************************************************************************)
EXTENDS Naturals, Sequences

CONSTANTS MaxRecords

VARIABLES
    queue,      \* the unread records [rec, st], oldest first
    delivered   \* the names of the records read, in order

vars == <<queue, delivered>>

Names == {queue[i].rec : i \in DOMAIN queue}
            \cup {delivered[i] : i \in DOMAIN delivered}

Init == queue = <<>> /\ delivered = <<>>

Reserve ==
    \E rec \in 1 .. MaxRecords :
       /\ \A n \in Names : n < rec
       /\ queue' = Append(queue, [rec |-> rec, st |-> "busy"])
       /\ UNCHANGED delivered

Settle ==
    \E i \in DOMAIN queue, st \in {"ready", "dropped"} :
       /\ queue[i].st = "busy"
       /\ queue' = [queue EXCEPT ![i].st = st]
       /\ UNCHANGED delivered

Take ==
    /\ queue # <<>> /\ Head(queue).st # "busy"
    /\ queue' = Tail(queue)
    /\ delivered' = IF Head(queue).st = "ready"
                      THEN Append(delivered, Head(queue).rec) ELSE delivered

Next == Reserve \/ Settle \/ Take

Spec == Init /\ [][Next]_vars
=============================================================================
