--------------------------- MODULE RingBufProofs ---------------------------
(***************************************************************************)
(* For every size of the ring and every set of record sizes, with a single *)
(* producer: the ring is never overrun, the records tile it and their      *)
(* headers survive until the consumer has released them; the callback is   *)
(* given what was written, because no two live records share a word, on    *)
(* either side of the end of the ring; and the ring implements the queue   *)
(* of RingBufQueue.  For the latter: the names of the unread records are   *)
(* consecutive numbers in the order of their positions, so that the queue  *)
(* the mapping sees is indexed by them; each step of the ring then         *)
(* appends, settles or takes one record of the queue, or leaves it alone.  *)
(***************************************************************************)
EXTENDS RingBuf, WellFoundedInduction, TLAPS

(* Arithmetic of Offset, which is pos & mask() *)

\* An offset lies in the first half of the data area.
LEMMA OffsetRange ==
    ASSUME NEW a \in Nat
    PROVE  Offset(a) \in 0 .. Words - 1
BY WordsAssumption DEF Offset

\* A position is a number of rounds and an offset.
LEMMA OffsetSplit ==
    ASSUME NEW a \in Nat
    PROVE  \E q \in Nat : a = Words * q + Offset(a)
<1>1. a \div Words \in Nat
  BY WordsAssumption
<1>2. a = Words * (a \div Words) + (a % Words)
  BY WordsAssumption
<1> QED BY <1>1, <1>2 DEF Offset

\* That decomposition is unique.
LEMMA OffsetUnique ==
    ASSUME NEW a \in Nat, NEW q \in Int, NEW r \in 0 .. Words - 1,
           a = Words * q + r
    PROVE  Offset(a) = r
BY WordsAssumption DEF Offset

\* Two positions with the same offset are a whole ring apart.
LEMMA OffsetApart ==
    ASSUME NEW a \in Nat, NEW b \in Nat, Offset(a) = Offset(b), a < b
    PROVE  b - a >= Words
<1>1. PICK q \in Nat : a = Words * q + Offset(a)
  BY OffsetSplit
<1>2. PICK s \in Nat : b = Words * s + Offset(b)
  BY OffsetSplit
<1>3. Words * (s - q) = Words * s - Words * q
  BY WordsAssumption
<1>4. b - a = Words * (s - q)
  BY <1>1, <1>2, <1>3, OffsetRange, WordsAssumption
<1>5. s - q >= 1
  <2>1. CASE s - q <= 0
    <3>1. Words * (s - q) <= 0
      BY <2>1, WordsAssumption
    <3> QED BY <3>1, <1>4
  <2> QED BY <2>1
<1>6. Words * (s - q) >= Words
  BY <1>5, WordsAssumption
<1> QED BY <1>4, <1>6

\* Within a round, offsets grow with positions.
LEMMA OffsetForward ==
    ASSUME NEW a \in Nat, NEW k \in Nat, Offset(a) + k < Words
    PROVE  Offset(a + k) = Offset(a) + k
<1>1. PICK q \in Nat : a = Words * q + Offset(a)
  BY OffsetSplit
<1>2. Offset(a) + k \in 0 .. Words - 1
  BY OffsetRange, WordsAssumption
<1>3. a + k = Words * q + (Offset(a) + k)
  BY <1>1, <1>2, OffsetRange, WordsAssumption
<1> QED BY <1>2, <1>3, OffsetUnique

\* submit finds the header again from the pointer reserve returned.
LEMMA HeaderFound ==
    ASSUME NEW a \in Nat
    PROVE  HeaderOf(Offset(a + 1)) = Offset(a)
<1>1. PICK q \in Nat : a = Words * q + Offset(a)
  BY OffsetSplit
<1>2. Offset(a) \in 0 .. Words - 1
  BY OffsetRange
<1>3. CASE Offset(a) + 1 < Words
  <2>1. Offset(a + 1) = Offset(a) + 1
    BY <1>3, OffsetForward
  <2>2. Words + Offset(a + 1) - 1 = Words * 1 + Offset(a)
    BY <2>1, <1>2, WordsAssumption
  <2>3. Words + Offset(a + 1) - 1 \in Nat
    BY <2>1, <1>2, WordsAssumption
  <2> QED BY <2>2, <2>3, <1>2, OffsetUnique DEF HeaderOf
<1>4. CASE Offset(a) = Words - 1
  <2>0. Words * (q + 1) = Words * q + Words
    BY WordsAssumption
  <2>1. a + 1 = Words * (q + 1) + 0
    BY <1>1, <1>4, <2>0, WordsAssumption
  <2>2. Offset(a + 1) = 0
    <3>1. a + 1 \in Nat /\ q + 1 \in Int /\ 0 \in 0 .. Words - 1
      BY WordsAssumption
    <3> QED BY <3>1, <2>1, OffsetUnique
  <2>3. Words + Offset(a + 1) - 1 = Words * 0 + (Words - 1)
    BY <2>2, WordsAssumption
  <2>4. Words + Offset(a + 1) - 1 \in Nat
    BY <2>2, WordsAssumption
  <2> QED BY <2>3, <2>4, <1>4, <1>2, OffsetUnique DEF HeaderOf
<1> QED BY <1>2, <1>3, <1>4, WordsAssumption

\* A record takes at least its header.
LEMMA SizePositive ==
    ASSUME NEW size \in Nat
    PROVE  /\ total_size(size) \in Nat \ {0}
           /\ roundup_len(size) = total_size(size)
BY DEF total_size, roundup_len

----------------------------------------------------------------------------
(* The inductive invariant *)

End(r) == r.pos + total_size(r.size)
RecordOf(p) == [pos |-> prod[p].ppos, size |-> prod[p].size,
                rec |-> prod[p].rec]

\* The live records lie between the positions, disjoint from each other.
LiveInv ==
  /\ \A r \in live : consumer_pos <= r.pos /\ End(r) <= producer_pos
  /\ \A r, s \in live : r = s \/ End(r) <= s.pos \/ End(s) <= r.pos

\* What a producer has read of the positions still bounds them, and the
\* record it holds is live and busy.
ProducerInv ==
  \A p \in Producers :
    LET l == prod[p] IN
    /\ l.pc = "test" => l.cpos <= consumer_pos /\ producer_pos <= l.cpos + Words
    /\ l.pc \in {"header", "publish"} =>
         /\ l.ppos = producer_pos
         /\ producer_pos + total_size(l.size) <= consumer_pos + Words
    /\ l.pc = "publish" => data[Offset(l.ppos)] = Header(l.size, l.rec)
    /\ l.pc \in {"fill", "submit"} =>
         /\ l.ptr = Offset(l.ppos + 1)
         /\ RecordOf(p) \in live
         /\ data[Offset(l.ppos)].busy

\* The consumer's position is the shared one until it passes a settled
\* record, which stays live until the new position is stored.
ConsumerInv ==
  /\ cons.pc \in {"outer", "inner"} => cons.cpos = consumer_pos
  /\ cons.pc # "idle" => cons.ppos <= producer_pos
  /\ cons.pc \in {"call", "store"} =>
       /\ cons.at = consumer_pos
       /\ ~data[Offset(cons.at)].busy
       /\ \E r \in live : r.pos = cons.at /\ cons.cpos = End(r)

Inv == /\ TypeOK /\ NeverOverrun /\ RecordsTile /\ HeadersIntact
       /\ LiveInv /\ ProducerInv /\ ConsumerInv

\* Two positions less than a ring apart have different offsets.
LEMMA OffsetInjective ==
    ASSUME NEW lo \in Nat, NEW a \in Nat, NEW b \in Nat,
           lo <= a, lo <= b, a < lo + Words, b < lo + Words,
           Offset(a) = Offset(b)
    PROVE  a = b
<1>1. ~(a < b)
  BY OffsetApart, WordsAssumption
<1>2. ~(b < a)
  BY OffsetApart, WordsAssumption
<1> QED BY <1>1, <1>2

\* Sizes are numbers.
LEMMA SizesNat == \A size \in Sizes \cup {0} : size \in Nat
BY SizesAssumption

\* The fields of well typed locals, records and words.
LEMMA Fields ==
    ASSUME TypeOK
    PROVE  /\ \A p \in Producers :
                /\ prod[p] \in ProducerLocals
                /\ prod[p].size \in Sizes \cup {0} /\ prod[p].size \in Nat
                /\ prod[p].cpos \in Nat /\ prod[p].ppos \in Nat
                /\ prod[p].ptr \in 0 .. Words - 1 /\ prod[p].rec \in Nat
           /\ cons.cpos \in Nat /\ cons.ppos \in Nat /\ cons.at \in Nat
           /\ \A r \in live : r.pos \in Nat /\ r.size \in Nat /\ r.rec \in Nat
           /\ consumer_pos \in Nat /\ producer_pos \in Nat /\ nrec \in Nat
<1>1. ASSUME NEW p \in Producers
      PROVE  /\ prod[p] \in ProducerLocals
             /\ prod[p].size \in Sizes \cup {0} /\ prod[p].size \in Nat
             /\ prod[p].cpos \in Nat /\ prod[p].ppos \in Nat
             /\ prod[p].ptr \in 0 .. Words - 1 /\ prod[p].rec \in Nat
  <2>1. prod[p] \in ProducerLocals
    BY DEF TypeOK
  <2> QED BY <2>1, SizesNat DEF ProducerLocals
<1>2. cons.cpos \in Nat /\ cons.ppos \in Nat /\ cons.at \in Nat
  BY DEF TypeOK, ConsumerLocals
<1>3. ASSUME NEW r \in live
      PROVE  r.pos \in Nat /\ r.size \in Nat /\ r.rec \in Nat
  <2>1. r \in Record
    BY DEF TypeOK
  <2> QED BY <2>1, SizesNat DEF Record
<1>4. consumer_pos \in Nat /\ producer_pos \in Nat /\ nrec \in Nat
  BY DEF TypeOK
<1> QED BY <1>1, <1>2, <1>3, <1>4

\* The sizes and positions of a live record are numbers within the ring.
LEMMA LiveRecord ==
    ASSUME TypeOK, NeverOverrun, LiveInv, NEW r \in live
    PROVE  /\ r.pos \in Nat /\ r.size \in Nat /\ End(r) \in Nat
           /\ total_size(r.size) \in Nat \ {0}
           /\ roundup_len(r.size) = total_size(r.size)
           /\ consumer_pos <= r.pos /\ r.pos < consumer_pos + Words
           /\ End(r) <= producer_pos
           /\ total_size(r.size) <= Words
<1>1. r.pos \in Nat /\ r.size \in Nat /\ consumer_pos \in Nat
      /\ producer_pos \in Nat
  BY Fields
<1>2. /\ total_size(r.size) \in Nat \ {0}
      /\ roundup_len(r.size) = total_size(r.size)
  BY <1>1, SizePositive
<1> QED BY <1>1, <1>2, WordsAssumption DEF LiveInv, NeverOverrun, End

\* Distinct live records have their headers at distinct offsets.
LEMMA HeadersApart ==
    ASSUME TypeOK, NeverOverrun, LiveInv, NEW r \in live, NEW s \in live,
           Offset(r.pos) = Offset(s.pos)
    PROVE  r = s
<1>1. r.pos = s.pos
  <2> HIDE DEF LiveInv
  <2> QED BY LiveRecord, OffsetInjective DEF TypeOK
<1> QED BY <1>1, LiveRecord DEF LiveInv, End

\* The type invariant, NeverOverrun, RecordsTile, HeadersIntact, LiveInv and
\* ConsumerInv only speak of these variables.
LEMMA SharedUnchanged ==
    ASSUME Inv, UNCHANGED <<consumer_pos, producer_pos, data, cons, live>>
    PROVE  NeverOverrun' /\ RecordsTile' /\ HeadersIntact' /\ LiveInv'
           /\ ConsumerInv'
<1>1. NeverOverrun' /\ RecordsTile'
  BY DEF Inv, NeverOverrun, RecordsTile
<1>2. HeadersIntact' /\ LiveInv'
  BY DEF Inv, HeadersIntact, LiveInv, End
<1>3. ConsumerInv'
  BY DEF Inv, ConsumerInv, End
<1> QED BY <1>1, <1>2, <1>3

\* ProducerInv, of the locals of one producer.
ProducerInvOf(l) ==
    /\ l.pc = "test" => l.cpos <= consumer_pos /\ producer_pos <= l.cpos + Words
    /\ l.pc \in {"header", "publish"} =>
         /\ l.ppos = producer_pos
         /\ producer_pos + total_size(l.size) <= consumer_pos + Words
    /\ l.pc = "publish" => data[Offset(l.ppos)] = Header(l.size, l.rec)
    /\ l.pc \in {"fill", "submit"} =>
         /\ l.ptr = Offset(l.ppos + 1)
         /\ [pos |-> l.ppos, size |-> l.size, rec |-> l.rec] \in live
         /\ data[Offset(l.ppos)].busy

\* A step of producer p that leaves everything shared alone keeps the
\* invariant if p's new locals are well typed and satisfy ProducerInvOf.
LEMMA LocalStep ==
    ASSUME Inv, NEW p \in Producers, NEW l \in ProducerLocals,
           prod' = [prod EXCEPT ![p] = l], ProducerInvOf(l), nrec' \in Nat,
           UNCHANGED <<consumer_pos, producer_pos, data, cons, live, delivered>>
    PROVE  Inv'
<1>1. TypeOK'
  BY DEF Inv, TypeOK
<1>2. ProducerInv'
  <2> SUFFICES ASSUME NEW q \in Producers PROVE ProducerInvOf(prod[q])'
    BY DEF ProducerInv, ProducerInvOf, RecordOf
  <2>1. prod'[q] = IF q = p THEN l ELSE prod[q]
    BY DEF Inv, TypeOK
  <2>2. ProducerInvOf(prod[q])
    BY DEF Inv, ProducerInv, ProducerInvOf, RecordOf
  <2> QED BY <2>1, <2>2 DEF ProducerInvOf
<1> QED BY <1>1, <1>2, SharedUnchanged DEF Inv

----------------------------------------------------------------------------
(* One lemma per action *)

\* The locals of an idle producer are well typed.
LEMMA IdleTyped ==
    IdleProducer \in ProducerLocals /\ ProducerInvOf(IdleProducer)
BY WordsAssumption DEF IdleProducer, ProducerLocals, ProducerInvOf

\* A reservation begins: nothing shared changes.
LEMMA ReserveBeginStep ==
    ASSUME Inv, NEW p \in Producers, ReserveBegin(p)
    PROVE  Inv'
<1>1. PICK size \in Sizes, helper \in Helpers :
         prod' = [prod EXCEPT ![p] = [IdleProducer EXCEPT !.pc = "load",
                                        !.size = size, !.helper = helper]]
  BY Zenon DEF ReserveBegin
<1> DEFINE l == [IdleProducer EXCEPT !.pc = "load", !.size = size,
                                     !.helper = helper]
<1>2. l \in ProducerLocals
  BY Zenon, HelpersAssumption, IdleTyped DEF ProducerLocals
<1>3. l.pc = "load"
  BY DEF IdleProducer
<1>4. ProducerInvOf(l)
  BY <1>3 DEF ProducerInvOf
<1> QED BY Zenon, <1>1, <1>2, <1>4, LocalStep DEF ReserveBegin, Inv, TypeOK

\* The load of consumer_pos: the ring is no fuller than the loads say.
LEMMA LoadConsumerPosStep ==
    ASSUME Inv, NEW p \in Producers, LoadConsumerPos(p)
    PROVE  Inv'
<1> DEFINE l == [prod[p] EXCEPT !.pc = "test", !.cpos = consumer_pos]
<1>1. prod' = [prod EXCEPT ![p] = l]
  BY DEF LoadConsumerPos
<1>2. l \in ProducerLocals /\ l.pc = "test" /\ l.cpos = consumer_pos
  BY Zenon, Fields DEF Inv, ProducerLocals
<1> HIDE DEF l
<1>3. ProducerInvOf(l)
  BY <1>2, Fields, WordsAssumption DEF ProducerInvOf, Inv, NeverOverrun
<1> QED BY Zenon, <1>1, <1>2, <1>3, LocalStep DEF LoadConsumerPos, Inv, TypeOK

\* The load of producer_pos and the test: the space tested for is there.
LEMMA LoadProducerPosStep ==
    ASSUME Inv, NEW p \in Producers, LoadProducerPos(p)
    PROVE  Inv'
<1>1. CASE prod' = [prod EXCEPT ![p] = IdleProducer] /\ UNCHANGED nrec
  BY Zenon, <1>1, IdleTyped, LocalStep DEF LoadProducerPos, Inv, TypeOK
<1> DEFINE l == [prod[p] EXCEPT !.pc = "header", !.ppos = producer_pos,
                                !.rec = nrec + 1]
<1>2. /\ l \in ProducerLocals /\ l.pc = "header" /\ l.ppos = producer_pos
      /\ l.size = prod[p].size
  <2>1. prod[p] \in ProducerLocals /\ producer_pos \in Nat /\ nrec + 1 \in Nat
    BY Fields DEF Inv
  <2> QED BY Zenon, <2>1 DEF ProducerLocals
<1>3. \/ prod' = [prod EXCEPT ![p] = IdleProducer] /\ UNCHANGED nrec
      \/ /\ prod' = [prod EXCEPT ![p] = l] /\ nrec' = nrec + 1
         /\ ~NoSpace(producer_pos, prod[p].cpos, prod[p].size)
  BY DEF LoadProducerPos
<1>4. UNCHANGED <<consumer_pos, producer_pos, data, cons, live, delivered>>
  BY DEF LoadProducerPos
<1> HIDE DEF l
<1>5. CASE /\ prod' = [prod EXCEPT ![p] = l] /\ nrec' = nrec + 1
           /\ ~NoSpace(producer_pos, prod[p].cpos, prod[p].size)
  <2>1. prod[p].cpos <= consumer_pos /\ producer_pos <= prod[p].cpos + Words
    BY DEF Inv, ProducerInv, LoadProducerPos
  <2>2. total_size(prod[p].size) \in Nat
    BY Fields, SizePositive DEF Inv
  <2>3. producer_pos + total_size(l.size) <= consumer_pos + Words
    BY <1>2, <1>5, <2>1, <2>2, Fields, WordsAssumption DEF NoSpace, Inv
  <2>4. ProducerInvOf(l)
    BY <1>2, <2>3 DEF ProducerInvOf
  <2>5. nrec' \in Nat
    BY <1>5, Fields DEF Inv
  <2> QED BY Zenon, <1>2, <1>4, <1>5, <2>4, <2>5, LocalStep
<1> QED BY <1>1, <1>3, <1>5

\* The header is written into words no live record lies on.
LEMMA WriteHeaderStep ==
    ASSUME SingleProducer, Inv, NEW p \in Producers, WriteHeader(p)
    PROVE  Inv'
<1> DEFINE h == Offset(prod[p].ppos)
           l == [prod[p] EXCEPT !.pc = "publish"]
           hdr == Header(prod[p].size, prod[p].rec)
<1>1. /\ prod' = [prod EXCEPT ![p] = l] /\ data' = [data EXCEPT ![h] = hdr]
      /\ UNCHANGED <<consumer_pos, producer_pos, cons, nrec, live, delivered>>
  BY DEF WriteHeader
<1>2. /\ l \in ProducerLocals /\ l.pc = "publish" /\ l.ppos = prod[p].ppos
      /\ l.size = prod[p].size /\ l.rec = prod[p].rec
  BY Fields DEF Inv, ProducerLocals
<1>3. /\ prod[p].ppos = producer_pos
      /\ producer_pos + total_size(prod[p].size) <= consumer_pos + Words
  BY DEF Inv, ProducerInv, WriteHeader
<1>4. total_size(prod[p].size) \in Nat \ {0}
  BY Fields, SizePositive DEF Inv
<1>5. h \in 0 .. Words - 1 /\ h \in DataArea
  BY OffsetRange, Fields, WordsAssumption DEF Inv, DataArea
<1>6. hdr \in Word
  BY Fields DEF Inv, Header, Word
<1>7. ASSUME NEW r \in live PROVE Offset(r.pos) # h
  <2>1. r.pos < producer_pos
    BY LiveRecord, Fields DEF Inv, End
  <2> QED BY SMTT(30), <2>1, <1>3, <1>4, LiveRecord, OffsetInjective, Fields,
             WordsAssumption DEF Inv
<1>8. \A w \in DataArea : w # h => data'[w] = data[w]
  BY <1>1 DEF Inv, TypeOK
<1>9. \A r \in live : Offset(r.pos) \in DataArea
  BY Fields, OffsetRange, WordsAssumption DEF Inv, DataArea
<1>10. \A r \in live : data'[Offset(r.pos)] = data[Offset(r.pos)]
  BY <1>7, <1>8, <1>9
<1> HIDE DEF l, hdr, h
<1>11. TypeOK'
  BY <1>1, <1>2, <1>5, <1>6 DEF Inv, TypeOK
<1>12. ProducerInv'
  <2> SUFFICES ASSUME NEW q \in Producers PROVE ProducerInvOf(prod[q])'
    BY Zenon DEF ProducerInv, ProducerInvOf, RecordOf
  <2>1. prod'[q] = l
    BY <1>1 DEF SingleProducer, Inv, TypeOK
  <2>2. data'[h] = hdr
    BY <1>1, <1>5 DEF Inv, TypeOK
  <2> QED BY <2>1, <2>2, <1>1, <1>2, <1>3 DEF ProducerInvOf, h, hdr
<1>13. NeverOverrun' /\ RecordsTile' /\ LiveInv'
  BY <1>1 DEF Inv, NeverOverrun, RecordsTile, LiveInv, End
<1>14. HeadersIntact'
  BY <1>1, <1>10 DEF Inv, HeadersIntact
<1>15. ConsumerInv'
  BY <1>1, <1>10 DEF Inv, ConsumerInv, End
<1> QED BY <1>11, <1>12, <1>13, <1>14, <1>15 DEF Inv

\* The record is appended to the live ones.
LEMMA PublishStep ==
    ASSUME SingleProducer, Inv, NEW p \in Producers, Publish(p)
    PROVE  Inv'
<1> DEFINE l == [prod[p] EXCEPT !.pc = "fill", !.ptr = Offset(prod[p].ppos + 1)]
           new == RecordOf(p)
           t == total_size(prod[p].size)
<1>1. /\ prod' = [prod EXCEPT ![p] = l] /\ live' = live \cup {new}
      /\ producer_pos' = prod[p].ppos + t
      /\ UNCHANGED <<consumer_pos, data, cons, nrec, delivered>>
  BY DEF Publish, RecordOf
<1>2. /\ prod[p].ppos = producer_pos
      /\ producer_pos + t <= consumer_pos + Words
      /\ data[Offset(producer_pos)] = Header(prod[p].size, prod[p].rec)
  BY DEF Inv, ProducerInv, Publish
<1>3. t \in Nat \ {0}
  BY Fields, SizePositive DEF Inv
<1>4. Offset(prod[p].ppos + 1) \in 0 .. Words - 1
  BY OffsetRange, Fields DEF Inv
<1>5. /\ l \in ProducerLocals /\ l.pc = "fill" /\ l.ppos = prod[p].ppos
      /\ l.size = prod[p].size /\ l.rec = prod[p].rec
      /\ l.ptr = Offset(prod[p].ppos + 1)
  BY Zenon, Fields, <1>4 DEF Inv, ProducerLocals
<1>6. /\ new \in Record /\ new.pos = producer_pos /\ new.size = prod[p].size
      /\ new.rec = prod[p].rec
  BY <1>2, Fields DEF Inv, RecordOf, Record
<1>7. new = [pos |-> l.ppos, size |-> l.size, rec |-> l.rec]
  BY <1>5 DEF RecordOf
<1> HIDE DEF l, new, t
<1>8. TypeOK'
  BY SMTT(30), <1>1, <1>3, <1>5, <1>6, Fields DEF Inv, TypeOK
<1>9. ProducerInv'
  <2> SUFFICES ASSUME NEW q \in Producers PROVE ProducerInvOf(prod[q])'
    BY Zenon DEF ProducerInv, ProducerInvOf, RecordOf
  <2>1. prod'[q] = l
    BY <1>1 DEF SingleProducer, Inv, TypeOK
  <2>2. data[Offset(producer_pos)].busy
    BY <1>2 DEF Header
  <2> QED BY <2>1, <2>2, <1>1, <1>2, <1>5, <1>7 DEF ProducerInvOf
<1>10. End(new) = producer_pos' /\ producer_pos' = producer_pos + t
  BY SMTT(30), <1>1, <1>2, <1>6 DEF End, t
<1>11. NeverOverrun'
  BY <1>1, <1>2, <1>3, Fields, WordsAssumption DEF Inv, NeverOverrun
<1>12. LiveInv'
  <2>1. \A r \in live : End(r) <= new.pos /\ End(r) <= producer_pos'
                        /\ consumer_pos <= r.pos
    BY <1>3, <1>6, <1>10, LiveRecord, Fields DEF Inv
  <2>2. consumer_pos <= new.pos /\ End(new) <= producer_pos'
    BY SMTT(30), <1>3, <1>6, <1>10, Fields DEF Inv, NeverOverrun
  <2> QED BY <1>1, <2>1, <2>2 DEF Inv, LiveInv, End
<1>13. RecordsTile'
  <2>1. consumer_pos \in {r.pos : r \in live'} \cup {producer_pos'}
    BY <1>1, <1>6 DEF Inv, RecordsTile
  <2>2. ASSUME NEW r \in live'
        PROVE  End(r) \in {s.pos : s \in live'} \cup {producer_pos'}
    <3>1. CASE r = new
      BY <3>1, <1>10
    <3>2. CASE r \in live
      BY SMTT(30), <3>2, <1>1, <1>6 DEF Inv, RecordsTile, End
    <3> QED BY <3>1, <3>2, <1>1
  <2> QED BY <2>1, <2>2, <1>1 DEF RecordsTile, End
<1>14. HeadersIntact'
  BY SMTT(30), <1>1, <1>2, <1>6 DEF Inv, HeadersIntact, Header
<1>15. ConsumerInv'
  BY <1>1, <1>3, <1>10, Fields DEF Inv, ConsumerInv, End
<1> QED BY <1>8, <1>9, <1>11, <1>12, <1>13, <1>14, <1>15 DEF Inv

\* The payload lies between the record's header and its end, modulo the ring,
\* so it covers no header.
LEMMA PayloadApart ==
    ASSUME Inv, NEW r \in live, NEW s \in live
    PROVE  Offset(s.pos) \notin PayloadArea(Offset(r.pos + 1), r.size)
<1> SUFFICES ASSUME Offset(s.pos) \in PayloadArea(Offset(r.pos + 1), r.size)
             PROVE  FALSE
  OBVIOUS
<1>1. /\ r.pos \in Nat /\ s.pos \in Nat /\ total_size(r.size) \in Nat
      /\ consumer_pos \in Nat /\ producer_pos \in Nat
      /\ consumer_pos <= r.pos /\ consumer_pos <= s.pos
      /\ s.pos < consumer_pos + Words /\ End(r) <= producer_pos
      /\ producer_pos <= consumer_pos + Words /\ End(r) \in Nat
      /\ total_size(s.size) \in Nat \ {0}
  BY LiveRecord, Fields, WordsAssumption DEF Inv, NeverOverrun
<1>2. Offset(r.pos + 1) \in 0 .. Words - 1 /\ Offset(s.pos) \in 0 .. Words - 1
  BY <1>1, OffsetRange
<1> DEFINE k == Offset(s.pos) - Offset(r.pos + 1)
<1>3. k \in Nat /\ k <= total_size(r.size) - 2
      /\ Offset(r.pos + 1) + k = Offset(s.pos)
  BY <1>1, <1>2 DEF PayloadArea
<1>4. Offset((r.pos + 1) + k) = Offset(s.pos)
  BY <1>1, <1>2, <1>3, OffsetForward, WordsAssumption
<1> HIDE DEF k
<1>5. (r.pos + 1) + k \in Nat /\ (r.pos + 1) + k < End(r)
  BY <1>1, <1>3 DEF End
<1>6. s.pos = (r.pos + 1) + k
  <2>1. /\ consumer_pos <= (r.pos + 1) + k
        /\ (r.pos + 1) + k < consumer_pos + Words
    BY <1>1, <1>3, <1>5, WordsAssumption
  <2> QED BY <1>1, <1>4, <1>5, <2>1, OffsetInjective
<1>7. r.pos < s.pos /\ s.pos < End(r)
  BY <1>1, <1>3, <1>5, <1>6
<1> QED BY <1>1, <1>7 DEF Inv, LiveInv, End

\* The payload is written: no header changes.
LEMMA FillStep ==
    ASSUME SingleProducer, Inv, NEW p \in Producers, Fill(p)
    PROVE  Inv'
<1> DEFINE l == [prod[p] EXCEPT !.pc = "submit"]
           mine == RecordOf(p)
           area == PayloadArea(prod[p].ptr, prod[p].size)
<1>1. /\ prod' = [prod EXCEPT ![p] = l]
      /\ data' = [w \in DataArea |-> IF w \in area THEN Payload(prod[p].rec)
                                                   ELSE data[w]]
      /\ UNCHANGED <<consumer_pos, producer_pos, cons, nrec, live, delivered>>
  BY DEF Fill
<1>2. /\ prod[p].ptr = Offset(prod[p].ppos + 1) /\ mine \in live
      /\ data[Offset(prod[p].ppos)].busy
  BY DEF Inv, ProducerInv, Fill
<1>3. mine.pos = prod[p].ppos /\ mine.size = prod[p].size
  BY DEF RecordOf
<1>4. /\ l \in ProducerLocals /\ l.pc = "submit" /\ l.ppos = prod[p].ppos
      /\ l.size = prod[p].size /\ l.rec = prod[p].rec /\ l.ptr = prod[p].ptr
  BY Fields DEF Inv, ProducerLocals
<1>5. Payload(prod[p].rec) \in Word
  BY Fields DEF Inv, Payload, Word
<1>6. mine = [pos |-> l.ppos, size |-> l.size, rec |-> l.rec]
  BY <1>4 DEF RecordOf
<1>7. ASSUME NEW r \in live
      PROVE  data'[Offset(r.pos)] = data[Offset(r.pos)]
  <2>1. Offset(r.pos) \notin area
    BY <1>2, <1>3, PayloadApart
  <2>2. Offset(r.pos) \in DataArea
    BY Fields, OffsetRange, WordsAssumption DEF Inv, DataArea
  <2> QED BY <2>1, <2>2, <1>1
<1> HIDE DEF l, mine, area
<1>8. TypeOK'
  BY <1>1, <1>4, <1>5 DEF Inv, TypeOK
<1>9. ProducerInv'
  <2> SUFFICES ASSUME NEW q \in Producers PROVE ProducerInvOf(prod[q])'
    BY Zenon DEF ProducerInv, ProducerInvOf, RecordOf
  <2>1. prod'[q] = l
    BY <1>1 DEF SingleProducer, Inv, TypeOK
  <2>2. data'[Offset(prod[p].ppos)].busy
    BY <1>2, <1>3, <1>7
  <2> QED BY Zenon, <2>1, <2>2, <1>1, <1>2, <1>4, <1>6 DEF ProducerInvOf
<1>10. NeverOverrun' /\ RecordsTile' /\ LiveInv'
  BY <1>1 DEF Inv, NeverOverrun, RecordsTile, LiveInv, End
<1>11. HeadersIntact'
  BY <1>1, <1>7 DEF Inv, HeadersIntact
<1>12. ConsumerInv'
  BY <1>1, <1>7 DEF Inv, ConsumerInv, End
<1> QED BY <1>8, <1>9, <1>10, <1>11, <1>12 DEF Inv

\* The record is settled, or its submit is lost: lengths stay as they are.
LEMMA SubmitStep ==
    ASSUME SingleProducer, Inv, NEW p \in Producers, Submit(p)
    PROVE  Inv'
<1> DEFINE h == Offset(prod[p].ppos)
<1>1. /\ prod' = [prod EXCEPT ![p] = IdleProducer]
      /\ UNCHANGED <<consumer_pos, producer_pos, cons, nrec, live, delivered>>
  BY DEF Submit
<1>2. PICK discard \in BOOLEAN :
         data' = data \/ data' = Settle(prod[p].ptr, discard)
  BY DEF Submit
<1>3. prod[p].ptr = Offset(prod[p].ppos + 1) /\ prod[p].ppos \in Nat
  BY Fields DEF Inv, ProducerInv, Submit
<1>4. HeaderOf(prod[p].ptr) = h
  BY <1>3, HeaderFound
<1>5. h \in DataArea
  BY <1>3, OffsetRange, WordsAssumption DEF DataArea
<1> DEFINE new == [data[h] EXCEPT !.busy = FALSE,
                              !.discard = data[h].discard \/ discard]
<1>6. data' = data \/ data' = [data EXCEPT ![h] = new]
  <2>1. Settle(prod[p].ptr, discard) = [data EXCEPT ![h] = new]
    BY <1>4 DEF Settle
  <2> QED BY <1>2, <2>1
<1>7. /\ data[h] \in Word /\ new \in Word /\ new.kind = data[h].kind
      /\ new.len = data[h].len /\ new.rec = data[h].rec /\ new.busy = FALSE
  <2>1. data[h] \in Word
    BY <1>5 DEF Inv, TypeOK
  <2>2. (data[h].discard \/ discard) \in BOOLEAN
    OBVIOUS
  <2> QED BY Zenon, <2>1, <2>2 DEF Word
<1> HIDE DEF new, h
<1>8. TypeOK'
  BY <1>1, <1>5, <1>6, <1>7, IdleTyped DEF Inv, TypeOK
<1>9. \A w \in DataArea : data'[w] = data[w] \/ (w = h /\ data'[w] = new)
  BY <1>6, <1>5 DEF Inv, TypeOK
<1>10. \A r \in live : Offset(r.pos) \in DataArea
  BY SMTT(30), Fields, OffsetRange, WordsAssumption DEF Inv, DataArea
<1>11. ProducerInv'
  <2> SUFFICES ASSUME NEW q \in Producers PROVE ProducerInvOf(prod[q])'
    BY Zenon DEF ProducerInv, ProducerInvOf, RecordOf
  <2>1. prod'[q] = IdleProducer
    BY <1>1 DEF SingleProducer, Inv, TypeOK
  <2> QED BY <2>1 DEF ProducerInvOf, IdleProducer
<1>12. NeverOverrun' /\ RecordsTile' /\ LiveInv'
  BY ZenonT(30), <1>1 DEF Inv, NeverOverrun, RecordsTile, LiveInv, End
<1>13. HeadersIntact'
  BY <1>1, <1>7, <1>9, <1>10 DEF Inv, HeadersIntact
<1>14. ConsumerInv'
  <2>1. cons.pc \in {"call", "store"} => ~data'[Offset(cons.at)].busy
    BY <1>7, <1>9, <1>10 DEF Inv, ConsumerInv
  <2> QED BY <2>1, <1>1 DEF Inv, ConsumerInv, End
<1> QED BY <1>8, <1>11, <1>12, <1>13, <1>14 DEF Inv

\* Steps of the consumer that only change its locals.
LEMMA ConsumerLocalStep ==
    ASSUME Inv, cons' \in ConsumerLocals, ConsumerInv',
           delivered' \in Seq(Sample),
           UNCHANGED <<consumer_pos, producer_pos, data, prod, nrec, live>>
    PROVE  Inv'
<1>1. TypeOK'
  BY DEF Inv, TypeOK
<1>2. NeverOverrun' /\ RecordsTile' /\ HeadersIntact' /\ LiveInv'
  BY DEF Inv, NeverOverrun, RecordsTile, HeadersIntact, LiveInv, End
<1>3. ProducerInv'
  BY Zenon DEF Inv, ProducerInv, RecordOf
<1> QED BY <1>1, <1>2, <1>3 DEF Inv

\* fetch_data starts from the shared position.
LEMMA FetchBeginStep == Inv /\ FetchBegin => Inv'
<1> SUFFICES ASSUME Inv, FetchBegin PROVE Inv'
  OBVIOUS
<1>1. /\ cons' \in ConsumerLocals /\ cons'.pc = "outer"
      /\ cons'.cpos = consumer_pos /\ cons'.ppos = 0
  BY Zenon, Fields DEF Inv, FetchBegin, IdleConsumer, ConsumerLocals
<1>2. ConsumerInv'
  BY <1>1, Fields DEF Inv, ConsumerInv, FetchBegin
<1> QED BY <1>1, <1>2, ConsumerLocalStep DEF FetchBegin, Inv, TypeOK

\* It loads producer_pos, which only grows afterwards.
LEMMA FetchOuterStep == Inv /\ FetchOuter => Inv'
<1> SUFFICES ASSUME Inv, FetchOuter PROVE Inv'
  OBVIOUS
<1>0. cons \in ConsumerLocals
  BY DEF Inv, TypeOK
<1>1. /\ cons' \in ConsumerLocals /\ cons'.pc = "inner"
      /\ cons'.cpos = cons.cpos /\ cons'.ppos = producer_pos
  BY Zenon, <1>0, Fields DEF Inv, FetchOuter, ConsumerLocals
<1>2. ConsumerInv'
  BY <1>1, Fields DEF Inv, ConsumerInv, FetchOuter
<1> QED BY <1>1, <1>2, ConsumerLocalStep DEF FetchOuter, Inv, TypeOK

\* The header at the shared position is that of a live record.
LEMMA FetchInnerStep == Inv /\ FetchInner => Inv'
<1> SUFFICES ASSUME Inv, FetchInner PROVE Inv'
  OBVIOUS
<1> DEFINE hdr == data[Offset(cons.cpos)]
<1>0. cons \in ConsumerLocals
  BY DEF Inv, TypeOK
<1>s. /\ cons.pc = "inner"
      /\ delivered' \in Seq(Sample)
      /\ UNCHANGED <<consumer_pos, producer_pos, data, prod, nrec, live>>
  BY DEF FetchInner, Inv, TypeOK
<1>c. cons.cpos = consumer_pos /\ cons.ppos <= producer_pos
  BY <1>s DEF Inv, ConsumerInv
<1>1. CASE cons' = IdleConsumer
  <2>1. cons' \in ConsumerLocals /\ cons'.pc = "idle"
    BY <1>1 DEF IdleConsumer, ConsumerLocals
  <2>2. ConsumerInv'
    BY <2>1 DEF ConsumerInv
  <2> QED BY <2>1, <2>2, <1>s, ConsumerLocalStep
<1>2. CASE cons' = [cons EXCEPT !.pc = "outer"]
  <2>1. /\ cons' \in ConsumerLocals /\ cons'.pc = "outer"
        /\ cons'.cpos = cons.cpos /\ cons'.ppos = cons.ppos
    BY <1>0, <1>2 DEF ConsumerLocals
  <2>2. ConsumerInv'
    BY <2>1, <1>s, <1>c DEF ConsumerInv
  <2> QED BY <2>1, <2>2, <1>s, ConsumerLocalStep
<1>3. CASE /\ cons.cpos < cons.ppos /\ ~hdr.busy
           /\ \E pc \in {"store", "call"} :
                cons' = [cons EXCEPT !.pc = pc, !.got = TRUE, !.at = cons.cpos,
                                     !.cpos = cons.cpos + roundup_len(hdr.len)]
  <2>1. PICK r \in live : r.pos = consumer_pos
    BY <1>3, <1>c, Fields DEF Inv, RecordsTile
  <2>2. hdr.len = r.size
    BY <2>1, <1>c DEF Inv, HeadersIntact
  <2>3. roundup_len(hdr.len) = total_size(r.size) /\ End(r) \in Nat
    BY <2>2, LiveRecord DEF Inv
  <2>4. cons.cpos + roundup_len(hdr.len) = End(r)
    BY <2>1, <2>3, <1>c DEF End
  <2>5. /\ cons' \in ConsumerLocals /\ cons'.pc \in {"store", "call"}
        /\ cons'.at = cons.cpos /\ cons'.cpos = End(r)
        /\ cons'.ppos = cons.ppos
    <3>1. PICK pc \in {"store", "call"} :
             cons' = [cons EXCEPT !.pc = pc, !.got = TRUE, !.at = cons.cpos,
                                  !.cpos = End(r)]
      BY Zenon, <1>3, <2>4
    <3> QED BY Zenon, <1>0, <2>3, <3>1 DEF ConsumerLocals
  <2>6. ConsumerInv'
    BY <1>3, <2>1, <2>5, <1>s, <1>c DEF ConsumerInv, End
  <2> QED BY <2>5, <2>6, <1>s, ConsumerLocalStep
<1>4. \/ cons.cpos >= cons.ppos
      \/ cons.cpos < cons.ppos
  BY Fields DEF Inv
<1> QED BY Zenon, <1>1, <1>2, <1>3, <1>4, Fields
        DEF FetchInner, NotCommitted, Inv

\* The callback reads the record inside the data area.
LEMMA FetchCallStep == Inv /\ FetchCall => Inv'
<1> SUFFICES ASSUME Inv, FetchCall PROVE Inv'
  OBVIOUS
<1> DEFINE h == Offset(cons.at)
           sample == [rec |-> data[h].rec,
                      from |-> {data[w].rec :
                                  w \in PayloadArea(h + 1, data[h].len)}]
<1>1. PICK err \in BOOLEAN : cons' = [cons EXCEPT !.pc = "store", !.stop = err]
  BY Zenon DEF FetchCall
<1>2. /\ cons.pc = "call" /\ delivered' = Append(delivered, sample)
      /\ UNCHANGED <<consumer_pos, producer_pos, data, prod, nrec, live>>
  BY DEF FetchCall
<1>3. PICK r \in live : r.pos = cons.at /\ cons.cpos = End(r)
  BY <1>2 DEF Inv, ConsumerInv
<1>4. data[h].len = r.size
  BY <1>3 DEF Inv, HeadersIntact
<1>5. h \in 0 .. Words - 1 /\ total_size(r.size) \in Nat
      /\ total_size(r.size) <= Words
  BY LiveRecord, Fields, OffsetRange DEF Inv
<1>6. \A w \in PayloadArea(h + 1, data[h].len) \cup {h} : w \in DataArea
  BY <1>4, <1>5, WordsAssumption DEF PayloadArea, DataArea
<1>7. \A w \in DataArea : data[w].rec \in Nat
  <2>1. \A w \in DataArea : data[w] \in Word
    BY DEF Inv, TypeOK
  <2> QED BY <2>1 DEF Word
<1>8. sample \in Sample
  BY <1>6, <1>7 DEF Sample
<1> HIDE DEF sample
<1>9. delivered' \in Seq(Sample)
  BY <1>2, <1>8 DEF Inv, TypeOK
<1>10. cons \in ConsumerLocals
  BY DEF Inv, TypeOK
<1>11. /\ cons' \in ConsumerLocals /\ cons'.pc = "store" /\ cons'.at = cons.at
       /\ cons'.cpos = cons.cpos /\ cons'.ppos = cons.ppos
  BY Zenon, <1>1, <1>10 DEF ConsumerLocals
<1>12. ConsumerInv'
  BY <1>2, <1>11 DEF Inv, ConsumerInv, End
<1> QED BY <1>2, <1>9, <1>11, <1>12, ConsumerLocalStep

\* The oldest record is released, and the next one is at the new position.
LEMMA FetchStoreStep == Inv /\ FetchStore => Inv'
<1> SUFFICES ASSUME Inv, FetchStore PROVE Inv'
  OBVIOUS
<1>1. /\ cons.pc = "store" /\ consumer_pos' = cons.cpos
      /\ live' = {r \in live : r.pos >= cons.cpos}
      /\ UNCHANGED <<producer_pos, data, prod, nrec, delivered>>
  BY DEF FetchStore
<1>2. /\ cons.at = consumer_pos /\ ~data[Offset(cons.at)].busy
      /\ cons.ppos <= producer_pos
  BY <1>1 DEF Inv, ConsumerInv
<1>3. PICK old \in live : old.pos = cons.at /\ cons.cpos = End(old)
  BY <1>1 DEF Inv, ConsumerInv
<1>4. /\ End(old) \in Nat /\ consumer_pos < End(old) /\ End(old) <= producer_pos
  BY <1>2, <1>3, LiveRecord, Fields DEF Inv, End
<1>5. live' = live \ {old}
  <2>1. ASSUME NEW r \in live, r # old PROVE r.pos >= cons.cpos
    <3>1. End(old) <= r.pos \/ End(r) <= old.pos
      BY <2>1 DEF Inv, LiveInv
    <3> QED BY <3>1, <1>2, <1>3, LiveRecord, Fields DEF Inv, End
  <2>2. ~(old.pos >= cons.cpos)
    BY <1>2, <1>3, <1>4, Fields DEF Inv
  <2> QED BY <1>1, <2>1, <2>2
<1>6. TypeOK'
  <2>1. cons \in ConsumerLocals
    BY DEF Inv, TypeOK
  <2>2. IdleConsumer \in ConsumerLocals
    BY DEF IdleConsumer, ConsumerLocals
  <2>3. cons' \in ConsumerLocals
    BY <2>1, <2>2 DEF FetchStore, ConsumerLocals
  <2> QED BY <1>1, <1>3, <1>4, <2>3 DEF Inv, TypeOK
<1>7. NeverOverrun'
  BY <1>1, <1>3, <1>4, Fields, WordsAssumption DEF Inv, NeverOverrun
<1>8. LiveInv'
  BY Zenon, <1>1, Fields, LiveRecord DEF Inv, LiveInv, End
<1>9. HeadersIntact'
  BY <1>1 DEF Inv, HeadersIntact
<1>10. RecordsTile'
  <2>1. ASSUME NEW r \in live
        PROVE  End(r) \in {s.pos : s \in live'} \cup {producer_pos}
    <3>1. End(r) \in {s.pos : s \in live} \cup {producer_pos}
      BY DEF Inv, RecordsTile, End
    <3>2. End(r) # old.pos
      BY SMTT(30), <1>2, <1>3, LiveRecord, Fields DEF Inv, End
    <3> QED BY <3>1, <3>2, <1>5
  <2> QED BY <2>1, <1>1, <1>3 DEF RecordsTile, End
<1>11. ProducerInv'
  <2> SUFFICES ASSUME NEW q \in Producers PROVE ProducerInvOf(prod[q])'
    BY Zenon DEF ProducerInv, ProducerInvOf, RecordOf
  <2>1. ProducerInvOf(prod[q])
    BY Zenon DEF Inv, ProducerInv, ProducerInvOf, RecordOf
  <2>2. prod[q].pc \in {"fill", "submit"} => RecordOf(q) # old
    BY <2>1, <1>2, <1>3 DEF ProducerInvOf, RecordOf
  <2>3. total_size(prod[q].size) \in Nat
    BY Fields, SizePositive DEF Inv
  <2> QED BY <2>1, <2>2, <2>3, <1>1, <1>3, <1>4, <1>5, Fields, WordsAssumption
          DEF Inv, ProducerInvOf, RecordOf
<1>12. ConsumerInv'
  <2>1. \/ cons' = IdleConsumer
        \/ cons' = [cons EXCEPT !.pc = "inner"]
    BY DEF FetchStore
  <2>2. CASE cons' = IdleConsumer
    BY <2>2 DEF ConsumerInv, IdleConsumer
  <2>3. CASE cons' = [cons EXCEPT !.pc = "inner"]
    <3>1. cons'.pc = "inner" /\ cons'.cpos = cons.cpos /\ cons'.ppos = cons.ppos
      BY <2>3 DEF Inv, TypeOK, ConsumerLocals
    <3> QED BY <3>1, <1>1, <1>2 DEF ConsumerInv
  <2> QED BY <2>1, <2>2, <2>3
<1> QED BY <1>6, <1>7, <1>8, <1>9, <1>10, <1>11, <1>12 DEF Inv

----------------------------------------------------------------------------
(* The theorems *)

\* The empty ring satisfies the invariant.
LEMMA InvInit == Init => Inv
<1> SUFFICES ASSUME Init PROVE Inv
  OBVIOUS
<1>1. TypeOK
  <2>1. Zero \in Word /\ IdleConsumer \in ConsumerLocals /\ <<>> \in Seq(Sample)
    BY DEF Zero, Word, IdleConsumer, ConsumerLocals
  <2> QED BY <2>1, IdleTyped DEF Init, TypeOK
<1>2. NeverOverrun /\ RecordsTile /\ HeadersIntact /\ LiveInv
  BY WordsAssumption DEF Init, NeverOverrun, RecordsTile, HeadersIntact, LiveInv
<1>3. ProducerInv /\ ConsumerInv
  BY Zenon DEF Init, ProducerInv, ConsumerInv, IdleProducer, IdleConsumer
<1> QED BY <1>1, <1>2, <1>3 DEF Inv

\* Every step of the producer and of the consumer keeps the invariant.
LEMMA InvStep ==
    ASSUME SingleProducer
    PROVE  Inv /\ [Next]_vars => Inv'
<1> SUFFICES ASSUME Inv, [Next]_vars PROVE Inv'
  OBVIOUS
<1>1. ASSUME NEW p \in Producers, Produce(p) PROVE Inv'
  BY <1>1, ReserveBeginStep, LoadConsumerPosStep, LoadProducerPosStep,
     WriteHeaderStep, PublishStep, FillStep, SubmitStep DEF Produce
<1>2. CASE Consume
  BY <1>2, FetchBeginStep, FetchOuterStep, FetchInnerStep, FetchCallStep,
     FetchStoreStep DEF Consume
<1>3. CASE UNCHANGED vars
  BY Zenon, <1>3 DEF vars, Inv, TypeOK, NeverOverrun, RecordsTile,
     HeadersIntact, LiveInv, ProducerInv, ConsumerInv, End, RecordOf
<1> QED BY <1>1, <1>2, <1>3 DEF Next

\* With one producer the inductive invariant always holds.
THEOREM Invariance ==
    ASSUME SingleProducer
    PROVE  Spec => []Inv
BY InvInit, InvStep, PTL DEF Spec

\* With one producer, positions, headers and the locals of reserve and
\* fetch_data keep their types: every offset computed is inside the ring.
THEOREM RingTypes ==
    ASSUME SingleProducer
    PROVE  Spec => []TypeOK
<1>1. Inv => TypeOK
  BY Zenon DEF Inv
<1> QED BY <1>1, Invariance, PTL

\* With one producer, reserve never hands out space the consumer has not
\* released, whatever the interleaving with fetch_data.
THEOREM RingNeverOverrun ==
    ASSUME SingleProducer
    PROVE  Spec => []NeverOverrun
<1>1. Inv => NeverOverrun
  BY Zenon DEF Inv
<1> QED BY <1>1, Invariance, PTL

\* With one producer, fetch_data finds every record at the end of the one
\* before, under the header reserve wrote for it, for every ring size and
\* every record size.
THEOREM BoundariesPreserved ==
    ASSUME SingleProducer
    PROVE  Spec => []BoundariesIntact
<1>1. Inv => BoundariesIntact
  BY DEF Inv, BoundariesIntact
<1> QED BY <1>1, Invariance, PTL


\* Neither a header nor a payload is ever written over the header of a live
\* record.
LEMMA HeaderKept ==
    ASSUME SingleProducer, Inv, NEW r \in live, NEW p \in Producers,
           WriteHeader(p) \/ Fill(p)
    PROVE  data'[Offset(r.pos)] = data[Offset(r.pos)]
<1> DEFINE o == Offset(r.pos)
<1>o. o \in DataArea
  BY Fields, OffsetRange, WordsAssumption DEF Inv, DataArea
<1>1. ASSUME WriteHeader(p) PROVE data'[o] = data[o]
  <2>1. /\ prod[p].ppos = producer_pos
        /\ producer_pos + total_size(prod[p].size) <= consumer_pos + Words
    BY <1>1 DEF Inv, ProducerInv, WriteHeader
  <2>2. total_size(prod[p].size) \in Nat \ {0}
    BY Fields, SizePositive DEF Inv
  <2>3. r.pos < producer_pos
    BY LiveRecord, Fields DEF Inv, End
  <2>4. o # Offset(prod[p].ppos)
    BY <2>1, <2>2, <2>3, LiveRecord, OffsetInjective, Fields, WordsAssumption
       DEF Inv
  <2> QED BY <1>1, <1>o, <2>4 DEF WriteHeader, Inv, TypeOK
<1>2. ASSUME Fill(p) PROVE data'[o] = data[o]
  <2>1. /\ RecordOf(p) \in live /\ RecordOf(p).size = prod[p].size
        /\ prod[p].ptr = Offset(RecordOf(p).pos + 1)
    BY <1>2 DEF Inv, ProducerInv, Fill, RecordOf
  <2>2. o \notin PayloadArea(prod[p].ptr, prod[p].size)
    BY <2>1, PayloadApart
  <2> QED BY <1>2, <1>o, <2>2 DEF Fill
<1> QED BY Zenon, <1>1, <1>2

\* Settling one record leaves the others alone: a ready one stays ready.
LEMMA ReadyHeaderKept ==
    ASSUME SingleProducer, Inv, [Next]_vars, NEW r \in live,
           ~data[Offset(r.pos)].busy
    PROVE  ~data'[Offset(r.pos)].busy
<1> DEFINE o == Offset(r.pos)
<1>o. o \in DataArea
  BY Fields, OffsetRange, WordsAssumption DEF Inv, DataArea
<1>1. ASSUME NEW p \in Producers, WriteHeader(p) \/ Fill(p)
      PROVE  data'[o] = data[o]
  BY Zenon, <1>1, HeaderKept
<1>3. ASSUME NEW p \in Producers, Submit(p) PROVE ~data'[o].busy
  <2>1. PICK discard \in BOOLEAN :
           data' = data \/ data' = Settle(prod[p].ptr, discard)
    BY <1>3 DEF Submit
  <2>2. data[o] \in Word
    BY <1>o DEF Inv, TypeOK
  <2>3. CASE data' = Settle(prod[p].ptr, discard)
    <3> DEFINE h == HeaderOf(prod[p].ptr)
    <3>1. data' = [data EXCEPT ![h] =
                     [data[h] EXCEPT !.busy = FALSE,
                                     !.discard = data[h].discard \/ discard]]
      BY <2>3 DEF Settle
    <3> HIDE DEF h
    <3>2. CASE o = h
      BY <3>1, <3>2, <1>o, <2>2 DEF Inv, TypeOK, Word
    <3>3. CASE o # h
      BY <3>1, <3>3, <1>o DEF Inv, TypeOK
    <3> QED BY <3>2, <3>3
  <2> QED BY <2>1, <2>3
<1>4. \/ UNCHANGED data
      \/ \E p \in Producers : WriteHeader(p) \/ Fill(p) \/ Submit(p)
  BY Zenon DEF Next, Produce, Consume, ReserveBegin, LoadConsumerPos,
     LoadProducerPos, Publish, FetchBegin, FetchOuter, FetchInner, FetchCall,
     FetchStore, vars
<1> QED BY <1>1, <1>3, <1>4

\* With one producer, a record that has_data reports stays readable until
\* the consumer moves on, so an epoll_wait that reported it told the truth.
THEOREM ReadyStaysReady ==
    ASSUME SingleProducer
    PROVE  Spec => HasDataStable
<1>1. Inv /\ [Next]_vars
        => [has_data /\ consumer_pos' = consumer_pos => has_data']_vars
  <2> SUFFICES ASSUME Inv, [Next]_vars, has_data, consumer_pos' = consumer_pos
               PROVE  has_data'
    OBVIOUS
  <2>1. PICK r \in live : r.pos = consumer_pos
    BY Fields DEF Inv, RecordsTile, has_data
  <2>2. ~data'[Offset(consumer_pos)].busy
    BY <2>1, ReadyHeaderKept DEF has_data
  <2>3. producer_pos' >= producer_pos
    <3>1. ASSUME NEW p \in Producers, Publish(p)
          PROVE  producer_pos' >= producer_pos
      <4>1. prod[p].ppos = producer_pos /\ total_size(prod[p].size) \in Nat
        BY <3>1, Fields, SizePositive DEF Inv, ProducerInv, Publish
      <4> QED BY <3>1, <4>1, Fields DEF Publish, Inv
    <3>2. UNCHANGED producer_pos \/ \E p \in Producers : Publish(p)
      BY Zenon DEF Next, Produce, Consume, ReserveBegin, LoadConsumerPos,
         LoadProducerPos, WriteHeader, Fill, Submit, FetchBegin, FetchOuter,
         FetchInner, FetchCall, FetchStore, vars
    <3> QED BY <3>1, <3>2, Fields DEF Inv
  <2>4. producer_pos' \in Nat /\ producer_pos \in Nat /\ consumer_pos \in Nat
    <3>1. Inv'
      BY InvStep
    <3> QED BY <3>1 DEF Inv, TypeOK
  <2> QED BY <2>2, <2>3, <2>4 DEF has_data
<1> QED BY <1>1, Invariance, PTL DEF Spec, HasDataStable

----------------------------------------------------------------------------
(* What the callback reads *)

\* A record's payload is complete once its producer is about to settle it.
Filled(r) ==
    \/ ~data[Offset(r.pos)].busy
    \/ \E p \in Producers : prod[p].pc = "submit" /\ prod[p].ppos = r.pos

\* A complete record holds what was written into it, also where it runs past
\* the end of the ring into the second half of the data area.
Intact(r) ==
    Filled(r) /\ ~OnLastWord(r.pos) =>
       \A w \in PayloadArea(Offset(r.pos) + 1, r.size) : data[w].rec = r.rec
PayloadIntact == \A r \in live : Intact(r)

\* The word k behind a position has the offset of the position k further on,
\* in either half of the data area.
LEMMA OffsetShift ==
    ASSUME NEW a \in Nat, NEW k \in Nat
    PROVE  Offset(Offset(a) + k) = Offset(a + k)
<1>1. Offset(a) \in Nat /\ Offset(a) + k \in Nat
  BY OffsetRange, WordsAssumption
<1>2. PICK q \in Nat : a = Words * q + Offset(a)
  BY OffsetSplit
<1>3. PICK s \in Nat : Offset(a) + k = Words * s + Offset(Offset(a) + k)
  BY <1>1, OffsetSplit
<1>4. Offset(Offset(a) + k) \in 0 .. Words - 1
  BY <1>1, OffsetRange
<1>5. Words * (q + s) = Words * q + Words * s
  BY WordsAssumption
<1>6. a + k = Words * (q + s) + Offset(Offset(a) + k)
  <2>1. Words * q \in Nat /\ Words * s \in Nat
    BY WordsAssumption
  <2> QED BY <1>1, <1>2, <1>3, <1>4, <1>5, <2>1
<1> QED BY <1>4, <1>6, OffsetUnique

\* The words behind the header of a record whose header is not on the last
\* word are those behind the pointer that reserve returned.
LEMMA PointerBehind ==
    ASSUME NEW a \in Nat, ~OnLastWord(a)
    PROVE  Offset(a + 1) = Offset(a) + 1
<1>1. Offset(a) \in 0 .. Words - 1
  BY OffsetRange
<1>2. CASE Offset(a) + 1 < Words
  BY <1>2, OffsetForward
<1>3. CASE Offset(a) + 1 = Words
  <2>1. Offset(a + 1) = Offset(Words)
    BY <1>3, OffsetShift
  <2>2. Offset(Words) = 0
    <3>1. Words = Words * 1 + 0 /\ Words \in Nat /\ 0 \in 0 .. Words - 1
      BY WordsAssumption
    <3> QED BY <3>1, OffsetUnique
  <2> QED BY <2>1, <2>2 DEF OnLastWord
<1> QED BY <1>1, <1>2, <1>3, WordsAssumption

\* A payload word belongs to a position inside its record.
LEMMA PayloadPosition ==
    ASSUME Inv, NEW r \in live, NEW w \in PayloadArea(Offset(r.pos + 1), r.size)
    PROVE  /\ w \in DataArea
           /\ \E a \in Nat : /\ r.pos < a /\ a < End(r)
                             /\ Offset(w) = Offset(a)
<1>1. /\ r.pos \in Nat /\ r.size \in Nat /\ total_size(r.size) \in Nat \ {0}
      /\ total_size(r.size) <= Words
  BY LiveRecord DEF Inv
<1>2. Offset(r.pos + 1) \in 0 .. Words - 1
  BY <1>1, OffsetRange
<1>3. PICK k \in Nat : /\ w = Offset(r.pos + 1) + k
                       /\ k <= total_size(r.size) - 2
  <2>1. w - Offset(r.pos + 1) \in Nat
    BY <1>1, <1>2 DEF PayloadArea
  <2> QED BY <1>1, <1>2, <2>1 DEF PayloadArea
<1>4. w \in DataArea
  BY <1>1, <1>2, <1>3, WordsAssumption DEF DataArea
<1>5. Offset(w) = Offset((r.pos + 1) + k)
  <2>1. r.pos + 1 \in Nat
    BY <1>1
  <2> QED BY Zenon, <1>3, <2>1, OffsetShift
<1>6. /\ (r.pos + 1) + k \in Nat /\ r.pos < (r.pos + 1) + k
      /\ (r.pos + 1) + k < End(r)
  BY <1>1, <1>3 DEF End
<1> QED BY <1>4, <1>5, <1>6

\* No two records share a payload word, not even behind the end of the ring:
\* at most one of them runs over it.
LEMMA PayloadsApart ==
    ASSUME Inv, NEW r \in live, NEW s \in live, r # s,
           NEW w \in PayloadArea(Offset(r.pos + 1), r.size)
    PROVE  w \notin PayloadArea(Offset(s.pos + 1), s.size)
<1> SUFFICES ASSUME w \in PayloadArea(Offset(s.pos + 1), s.size) PROVE FALSE
  OBVIOUS
<1>1. PICK a \in Nat : r.pos < a /\ a < End(r) /\ Offset(w) = Offset(a)
  BY PayloadPosition
<1>2. PICK b \in Nat : s.pos < b /\ b < End(s) /\ Offset(w) = Offset(b)
  BY PayloadPosition
<1>3. /\ r.pos \in Nat /\ s.pos \in Nat /\ End(r) \in Nat /\ End(s) \in Nat
      /\ consumer_pos <= r.pos /\ consumer_pos <= s.pos
      /\ End(r) <= producer_pos /\ End(s) <= producer_pos
  BY LiveRecord DEF Inv
<1>4. /\ consumer_pos \in Nat /\ producer_pos \in Nat
      /\ producer_pos <= consumer_pos + Words
  BY Fields, WordsAssumption DEF Inv, NeverOverrun
<1>5. a = b
  <2>1. /\ consumer_pos <= a /\ a < consumer_pos + Words
        /\ consumer_pos <= b /\ b < consumer_pos + Words
    BY <1>1, <1>2, <1>3, <1>4, WordsAssumption
  <2>2. Offset(a) = Offset(b)
    BY <1>1, <1>2
  <2> QED BY <1>4, <2>1, <2>2, OffsetInjective
<1>6. End(r) <= s.pos \/ End(s) <= r.pos
  BY DEF Inv, LiveInv
<1> QED BY <1>1, <1>2, <1>3, <1>5, <1>6

\* A header that is being written lies behind all live records.
LEMMA HeaderBehind ==
    ASSUME Inv, NEW p \in Producers, WriteHeader(p), NEW r \in live,
           NEW w \in PayloadArea(Offset(r.pos + 1), r.size)
    PROVE  data'[w] = data[w]
<1>1. PICK a \in Nat : r.pos < a /\ a < End(r) /\ Offset(w) = Offset(a)
  BY PayloadPosition
<1>2. /\ r.pos \in Nat /\ End(r) \in Nat /\ consumer_pos <= r.pos
      /\ End(r) <= producer_pos
  BY LiveRecord DEF Inv
<1>3. /\ prod[p].ppos = producer_pos
      /\ producer_pos + total_size(prod[p].size) <= consumer_pos + Words
  BY DEF Inv, ProducerInv, WriteHeader
<1>4. /\ total_size(prod[p].size) \in Nat \ {0}
      /\ consumer_pos \in Nat /\ producer_pos \in Nat
  BY Fields, SizePositive DEF Inv
<1>5. a # producer_pos
  BY <1>1, <1>2, <1>4
<1>6. /\ consumer_pos <= a /\ a < consumer_pos + Words
      /\ consumer_pos <= producer_pos /\ producer_pos < consumer_pos + Words
  BY <1>1, <1>2, <1>3, <1>4, WordsAssumption
<1>7. Offset(a) # Offset(producer_pos)
  BY <1>4, <1>5, <1>6, OffsetInjective
<1>8. Offset(Offset(producer_pos)) = Offset(producer_pos)
  <2>1. Offset(Offset(producer_pos) + 0) = Offset(producer_pos + 0)
    BY <1>4, OffsetShift
  <2>2. Offset(producer_pos) \in 0 .. Words - 1
    BY <1>4, OffsetRange
  <2> QED BY <1>4, <2>1, <2>2
<1>9. w # Offset(producer_pos) /\ w \in DataArea
  BY <1>1, <1>7, <1>8, PayloadPosition
<1> QED BY <1>3, <1>9 DEF WriteHeader, Inv, TypeOK

\* A record that is not touched stays complete.
LEMMA IntactKept ==
    ASSUME Inv, PayloadIntact, NEW r \in live, Filled(r)' => Filled(r),
           \A w \in PayloadArea(Offset(r.pos + 1), r.size) :
              data'[w].rec = data[w].rec
    PROVE  Intact(r)'
<1> SUFFICES ASSUME Filled(r), ~OnLastWord(r.pos),
                    NEW w \in PayloadArea(Offset(r.pos) + 1, r.size)
             PROVE  data'[w].rec = r.rec
  BY Zenon DEF Intact
<1>1. Offset(r.pos + 1) = Offset(r.pos) + 1
  BY LiveRecord, PointerBehind DEF Inv
<1>2. data[w].rec = r.rec
  BY Zenon DEF PayloadIntact, Intact
<1> QED BY Zenon, <1>1, <1>2

\* A new header disturbs no payload.
LEMMA WriteHeaderPayload ==
    ASSUME SingleProducer, Inv, PayloadIntact, NEW p \in Producers,
           WriteHeader(p), NEW r \in live
    PROVE  Intact(r)'
<1>1. \A q \in Producers : prod'[q].pc = "publish"
  BY DEF WriteHeader, SingleProducer, Inv, TypeOK, ProducerLocals
<1>2. data'[Offset(r.pos)] = data[Offset(r.pos)]
  BY Zenon, HeaderKept
<1>3. Filled(r)' => Filled(r)
  BY <1>1, <1>2 DEF Filled
<1>4. \A w \in PayloadArea(Offset(r.pos + 1), r.size) :
         data'[w].rec = data[w].rec
  BY Zenon, HeaderBehind
<1> QED BY Zenon, <1>3, <1>4, IntactKept

\* A record that reserve has just published is still to be filled.
LEMMA PublishPayload ==
    ASSUME SingleProducer, Inv, PayloadIntact, NEW p \in Producers,
           Publish(p), NEW r \in live'
    PROVE  Intact(r)'
<1>1. \A q \in Producers : prod'[q].pc = "fill"
  BY DEF Publish, SingleProducer, Inv, TypeOK, ProducerLocals
<1>2. data' = data
  BY DEF Publish
<1>3. CASE r \in live
  <2>1. Filled(r)' => Filled(r)
    BY <1>1, <1>2 DEF Filled
  <2> QED BY Zenon, <1>2, <1>3, <2>1, IntactKept
<1>4. CASE r = [pos |-> prod[p].ppos, size |-> prod[p].size,
                rec |-> prod[p].rec]
  <2>1. data[Offset(prod[p].ppos)].busy /\ r.pos = prod[p].ppos
    <3>1. data[Offset(prod[p].ppos)] = Header(prod[p].size, prod[p].rec)
      BY Zenon DEF Publish, Inv, ProducerInv
    <3> QED BY <1>4, <3>1 DEF Header
  <2>2. ~Filled(r)'
    BY <1>1, <1>2, <2>1 DEF Filled
  <2> QED BY Zenon, <2>2 DEF Intact
<1> QED BY Zenon, <1>3, <1>4 DEF Publish

\* The producer fills its own record and no word of another one.
LEMMA FillPayload ==
    ASSUME SingleProducer, Inv, PayloadIntact, NEW p \in Producers,
           Fill(p), NEW r \in live
    PROVE  Intact(r)'
<1> DEFINE mine == RecordOf(p)
<1>1. /\ mine \in live /\ mine.pos = prod[p].ppos /\ mine.size = prod[p].size
      /\ mine.rec = prod[p].rec /\ prod[p].ptr = Offset(mine.pos + 1)
  BY DEF Fill, Inv, ProducerInv, RecordOf
<1>2. \A q \in Producers : prod'[q].ppos = prod[p].ppos
  BY DEF Fill, SingleProducer, Inv, TypeOK, ProducerLocals
<1>3. data' = [w \in DataArea |->
                 IF w \in PayloadArea(Offset(mine.pos + 1), mine.size)
                 THEN Payload(mine.rec) ELSE data[w]]
  BY Zenon, <1>1 DEF Fill
<1> HIDE DEF mine
<1>4. CASE r = mine
  <2> SUFFICES ASSUME ~OnLastWord(r.pos),
                      NEW w \in PayloadArea(Offset(r.pos) + 1, r.size)
               PROVE  data'[w].rec = r.rec
    BY Zenon DEF Intact
  <2>1. w \in PayloadArea(Offset(r.pos + 1), r.size)
    BY LiveRecord, PointerBehind DEF Inv
  <2>2. w \in DataArea
    BY Zenon, <2>1, PayloadPosition
  <2>3. data'[w] = Payload(r.rec)
    BY Zenon, <1>3, <1>4, <2>1, <2>2
  <2> QED BY <2>3 DEF Payload
<1>5. CASE r # mine
  <2>1. r.pos # mine.pos
    BY <1>1, <1>5, HeadersApart DEF Inv
  <2>2. data'[Offset(r.pos)] = data[Offset(r.pos)]
    BY Zenon, HeaderKept
  <2>3. Filled(r)' => Filled(r)
    BY Zenon, <1>1, <1>2, <2>1, <2>2 DEF Filled
  <2>4. ASSUME NEW w \in PayloadArea(Offset(r.pos + 1), r.size)
        PROVE  data'[w].rec = data[w].rec
    <3>1. w \notin PayloadArea(Offset(mine.pos + 1), mine.size)
      BY Zenon, <1>1, <1>5, PayloadsApart
    <3>2. w \in DataArea
      BY Zenon, PayloadPosition
    <3> QED BY Zenon, <1>3, <3>1, <3>2
  <2> QED BY Zenon, <2>3, <2>4, IntactKept
<1> QED BY Zenon, <1>4, <1>5

\* submit settles a record that is complete.
LEMMA SubmitPayload ==
    ASSUME SingleProducer, Inv, PayloadIntact, NEW p \in Producers,
           Submit(p), NEW r \in live
    PROVE  Intact(r)'
<1>1. \A q \in Producers : prod'[q].pc = "idle"
  BY DEF Submit, SingleProducer, Inv, TypeOK, IdleProducer
<1>2. PICK discard \in BOOLEAN :
         data' = data \/ data' = Settle(prod[p].ptr, discard)
  BY Zenon DEF Submit
<1>3. HeaderOf(prod[p].ptr) = Offset(prod[p].ppos)
  BY Fields, HeaderFound DEF Inv, ProducerInv, Submit
<1> DEFINE h == Offset(prod[p].ppos)
           new == [data[h] EXCEPT !.busy = FALSE,
                                  !.discard = data[h].discard \/ discard]
<1>4. data' = data \/ data' = [data EXCEPT ![h] = new]
  BY Zenon, <1>2, <1>3 DEF Settle
<1>5. h \in DataArea
  BY Fields, OffsetRange, WordsAssumption DEF Inv, DataArea
<1>6. new.rec = data[h].rec
  <2>1. data[h] \in Word
    BY <1>5 DEF Inv, TypeOK
  <2> QED BY Zenon, <2>1 DEF Word
<1> HIDE DEF new, h
<1>7. \A w \in DataArea : data'[w] = data[w] \/ (w = h /\ data'[w] = new)
  BY <1>4, <1>5 DEF Inv, TypeOK
<1>8. \A w \in DataArea : data'[w].rec = data[w].rec
  BY Zenon, <1>6, <1>7
<1>9. Filled(r)' => Filled(r)
  <2>1. Offset(r.pos) \in DataArea
    BY Fields, OffsetRange, WordsAssumption DEF Inv, DataArea
  <2>2. CASE Offset(r.pos) = h
    <3>1. RecordOf(p) \in live /\ RecordOf(p).pos = prod[p].ppos
      BY DEF Submit, Inv, ProducerInv, RecordOf
    <3>2. r = RecordOf(p)
      BY Zenon, <2>2, <3>1, HeadersApart DEF Inv, h
    <3> QED BY ZenonT(30), <3>1, <3>2 DEF Filled, Submit
  <2>3. CASE Offset(r.pos) # h
    BY <1>1, <1>7, <2>1, <2>3 DEF Filled
  <2> QED BY SMTT(30), <2>2, <2>3
<1>10. \A w \in PayloadArea(Offset(r.pos + 1), r.size) :
          data'[w].rec = data[w].rec
  BY Zenon, <1>8, PayloadPosition
<1> QED BY Zenon, <1>9, <1>10, IntactKept

\* The other steps write nothing, and add no record.
LEMMA QuietPayload ==
    ASSUME PayloadIntact, Inv, data' = data, live' \subseteq live,
           \A q \in Producers : prod'[q].pc = "submit" => prod'[q] = prod[q]
    PROVE  PayloadIntact'
<1> SUFFICES ASSUME NEW r \in live' PROVE Intact(r)'
  BY Zenon DEF PayloadIntact
<1>1. Filled(r)' => Filled(r)
  BY Zenon DEF Filled
<1> QED BY Zenon, <1>1, IntactKept

\* Every step keeps the payloads of complete records.
LEMMA PayloadStep ==
    ASSUME SingleProducer
    PROVE  Inv /\ PayloadIntact /\ [Next]_vars => PayloadIntact'
<1> SUFFICES ASSUME Inv, PayloadIntact, [Next]_vars PROVE PayloadIntact'
  OBVIOUS
<1>1. ASSUME NEW p \in Producers,
             WriteHeader(p) \/ Publish(p) \/ Fill(p) \/ Submit(p)
      PROVE  PayloadIntact'
  <2> SUFFICES ASSUME NEW r \in live' PROVE Intact(r)'
    BY Zenon DEF PayloadIntact
  <2>1. r \in live \/ Publish(p)
    BY Zenon, <1>1 DEF WriteHeader, Fill, Submit
  <2> QED BY Zenon, <1>1, <2>1, WriteHeaderPayload, PublishPayload,
             FillPayload, SubmitPayload
<1>2. ASSUME NEW p \in Producers,
             ReserveBegin(p) \/ LoadConsumerPos(p) \/ LoadProducerPos(p)
      PROVE  PayloadIntact'
  <2>1. data' = data /\ live' = live
    BY Zenon, <1>2 DEF ReserveBegin, LoadConsumerPos, LoadProducerPos
  <2>2. \A q \in Producers : prod'[q].pc # "submit"
    <3>1. /\ prod \in [Producers -> ProducerLocals]
          /\ \A q \in Producers : q = p
      BY Zenon DEF SingleProducer, Inv, TypeOK
    <3>2. CASE ReserveBegin(p)
      BY <3>1, <3>2 DEF ReserveBegin, IdleProducer
    <3>3. CASE LoadConsumerPos(p)
      BY <3>1, <3>3 DEF LoadConsumerPos, ProducerLocals
    <3>4. CASE LoadProducerPos(p)
      <4> DEFINE l == [prod[p] EXCEPT !.pc = "header", !.ppos = producer_pos,
                                      !.rec = nrec + 1]
      <4>1. \/ prod' = [prod EXCEPT ![p] = IdleProducer]
            \/ prod' = [prod EXCEPT ![p] = l]
        BY <3>4 DEF LoadProducerPos
      <4>2. l.pc = "header" /\ IdleProducer.pc = "idle"
        BY Zenon, <3>1 DEF ProducerLocals, IdleProducer
      <4> HIDE DEF l
      <4> QED BY <3>1, <4>1, <4>2
    <3> QED BY Zenon, <1>2, <3>2, <3>3, <3>4
  <2> QED BY Zenon, <2>1, <2>2, QuietPayload
<1>3. CASE Consume \/ UNCHANGED vars
  <2>1. data' = data /\ prod' = prod /\ live' \subseteq live
    BY Zenon, <1>3 DEF Consume, FetchBegin, FetchOuter, FetchInner, FetchCall,
       FetchStore, vars
  <2> QED BY Zenon, <2>1, QuietPayload
<1> QED BY Zenon, <1>1, <1>2, <1>3 DEF Next, Produce

\* With one producer, fetch_data gives the callback exactly what was written
\* into the record it calls it for, whatever the sizes and however often the
\* ring has wrapped, unless the record's header is on the last word.
THEOREM SamplesIntact ==
    ASSUME SingleProducer
    PROVE  Spec => DeliveredIntact
<1> DEFINE A == delivered' # delivered /\ ~OnLastWord(cons.at) =>
                  LET sample == delivered'[Len(delivered')]
                  IN  sample.from \subseteq {sample.rec}
<1>1. Init => PayloadIntact
  BY DEF Init, PayloadIntact
<1>2. Inv /\ PayloadIntact /\ [Next]_vars => [A]_vars
  <2> SUFFICES ASSUME Inv, PayloadIntact, Next, delivered' # delivered,
                      ~OnLastWord(cons.at)
               PROVE  A
    BY Zenon
  <2>1. FetchCall
    BY Zenon DEF Next, Produce, Consume, ReserveBegin, LoadConsumerPos,
       LoadProducerPos, WriteHeader, Publish, Fill, Submit, FetchBegin,
       FetchOuter, FetchInner, FetchStore
  <2>2. PICK r \in live : r.pos = cons.at
    BY <2>1 DEF FetchCall, Inv, ConsumerInv
  <2> DEFINE h == Offset(cons.at)
             got == {data[w].rec : w \in PayloadArea(h + 1, data[h].len)}
             sample == [rec |-> data[h].rec, from |-> got]
  <2>3. /\ ~data[h].busy /\ data[h].len = r.size /\ data[h].rec = r.rec
    BY <2>1, <2>2 DEF FetchCall, Inv, ConsumerInv, HeadersIntact
  <2>4. \A w \in PayloadArea(h + 1, data[h].len) : data[w].rec = data[h].rec
    BY Zenon, <2>2, <2>3 DEF PayloadIntact, Intact, Filled
  <2>5. got \subseteq {data[h].rec}
    BY Zenon, <2>4
  <2>6. delivered' = Append(delivered, sample)
    BY Zenon, <2>1 DEF FetchCall
  <2>7. sample.from = got /\ sample.rec = data[h].rec
    OBVIOUS
  <2> HIDE DEF sample, got
  <2>8. delivered'[Len(delivered')] = sample
    BY <2>6 DEF Inv, TypeOK
  <2> QED BY Zenon, <2>5, <2>7, <2>8
<1>3. Spec => [][A]_vars
  BY <1>1, <1>2, InvInit, InvStep, PayloadStep, PTL DEF Spec
<1> QED BY <1>3 DEF DeliveredIntact

----------------------------------------------------------------------------
(* Sorting records with consecutive names *)

\* The order of the natural numbers as a relation.
NatLess == {x \in Nat \X Nat : x[1] < x[2]}

\* A set of natural numbers that is not empty has a least element.
LEMMA Least ==
    ASSUME NEW T, T \subseteq Nat, T # {}
    PROVE  \E x \in T : \A y \in T : x <= y
<1>1. IsWellFoundedOn(NatLess, Nat)
  BY Zenon, NatLessThanWellFounded DEF OpToRel, NatLess
<1>2. PICK x \in T : \A y \in T : <<y, x>> \notin NatLess
  BY Zenon, <1>1, WFMin
<1>3. ASSUME NEW y \in T PROVE x <= y
  <2>1. <<y, x>> \notin NatLess
    BY Zenon, <1>2
  <2>2. ~(y < x)
    BY <2>1 DEF NatLess
  <2> QED BY <2>2
<1> QED BY Zenon, <1>3

\* The records of S have the names lo + 1 .. hi, in the order of positions.
Consecutive(S, lo, hi) ==
    /\ lo \in Nat /\ hi \in Nat /\ lo <= hi
    /\ \A r \in S : r.pos \in Nat /\ r.rec \in Nat /\ lo < r.rec /\ r.rec <= hi
    /\ \A n \in Nat : lo < n /\ n <= hi => \E r \in S : r.rec = n
    /\ \A r, s \in S : r.rec < s.rec => r.pos < s.pos
    /\ \A r, s \in S : r.rec = s.rec => r = s

\* What Sorted chooses.
IsSorted(q, S) ==
    /\ q \in UNION {[1 .. n -> S] : n \in 0 .. MaxRecords}
    /\ \A r \in S : \E i \in DOMAIN q : q[i] = r
    /\ \A i, j \in DOMAIN q : i < j => q[i].pos < q[j].pos

\* There is a sequence to choose.
LEMMA SortedExists ==
    ASSUME NEW S, NEW lo, NEW hi, Consecutive(S, lo, hi), hi <= MaxRecords
    PROVE  IsSorted(Sorted(S), S)
<1>0. /\ lo \in Nat /\ hi \in Nat /\ lo <= hi
      /\ \A r \in S : /\ r.pos \in Nat /\ r.rec \in Nat
                      /\ lo < r.rec /\ r.rec <= hi
      /\ \A n \in Nat : lo < n /\ n <= hi => \E r \in S : r.rec = n
      /\ \A r, s \in S : r.rec < s.rec => r.pos < s.pos
      /\ \A r, s \in S : r.rec = s.rec => r = s
  BY Zenon DEF Consecutive
<1>1. PICK n \in Nat : n = hi - lo
  BY <1>0
<1>2. PICK q : q = [i \in 1 .. n |-> CHOOSE r \in S : r.rec = lo + i]
  BY Zenon
<1>3. ASSUME NEW i \in 1 .. n PROVE q[i] \in S /\ q[i].rec = lo + i
  <2>1. \E r \in S : r.rec = lo + i
    BY <1>0, <1>1
  <2>2. q[i] = CHOOSE r \in S : r.rec = lo + i
    BY Zenon, <1>2
  <2> QED BY Zenon, <2>1, <2>2
<1>4. DOMAIN q = 1 .. n /\ q \in [1 .. n -> S]
  BY Zenon, <1>2, <1>3
<1>5. ASSUME NEW r \in S PROVE \E i \in DOMAIN q : q[i] = r
  <2>1. PICK i : i = r.rec - lo /\ i \in 1 .. n
    BY <1>0, <1>1
  <2>2. q[i] \in S /\ q[i].rec = r.rec
    BY <1>0, <1>3, <2>1
  <2> QED BY Zenon, <1>0, <1>4, <2>1, <2>2
<1>6. ASSUME NEW i \in DOMAIN q, NEW j \in DOMAIN q, i < j
      PROVE  q[i].pos < q[j].pos
  <2>1. q[i] \in S /\ q[j] \in S /\ q[i].rec = lo + i /\ q[j].rec = lo + j
    BY Zenon, <1>3, <1>4
  <2>2. q[i].rec < q[j].rec
    BY <2>1, <1>0, <1>4, <1>6
  <2> QED BY Zenon, <2>1, <2>2, <1>0
<1>7. n \in 0 .. MaxRecords
  BY <1>0, <1>1, MaxRecordsAssumption
<1>8. IsSorted(q, S)
  BY Zenon, <1>4, <1>5, <1>6, <1>7 DEF IsSorted
<1> QED BY Zenon, <1>8 DEF IsSorted, Sorted

\* The i-th record of q is the one named lo + i.
Numbered(q, S, lo, hi) ==
    /\ DOMAIN q = 1 .. (hi - lo)
    /\ \A i \in DOMAIN q : q[i] \in S /\ q[i].rec = lo + i

\* It is indexed by the names.
LEMMA SortedNames ==
    ASSUME NEW S, NEW lo, NEW hi, Consecutive(S, lo, hi), NEW q, IsSorted(q, S)
    PROVE  Numbered(q, S, lo, hi)
<1>0. /\ lo \in Nat /\ hi \in Nat /\ lo <= hi
      /\ \A r \in S : /\ r.pos \in Nat /\ r.rec \in Nat
                      /\ lo < r.rec /\ r.rec <= hi
      /\ \A n \in Nat : lo < n /\ n <= hi => \E r \in S : r.rec = n
      /\ \A r, s \in S : r.rec < s.rec => r.pos < s.pos
      /\ \A r, s \in S : r.rec = s.rec => r = s
  BY Zenon DEF Consecutive
<1>1. PICK n \in 0 .. MaxRecords : q \in [1 .. n -> S]
  BY Zenon DEF IsSorted
<1>2. DOMAIN q = 1 .. n /\ n \in Nat /\ \A i \in 1 .. n : q[i] \in S
  BY <1>1, MaxRecordsAssumption
<1>3. /\ \A r \in S : \E i \in 1 .. n : q[i] = r
      /\ \A i, j \in 1 .. n : i < j => q[i].pos < q[j].pos
  BY Zenon, <1>2 DEF IsSorted
<1>4. ASSUME NEW i \in 1 .. n, NEW j \in 1 .. n, i < j
      PROVE  q[i].rec < q[j].rec
  <2>1. PICK r \in S, s \in S : r = q[i] /\ s = q[j]
    BY Zenon, <1>2
  <2>2. r.pos < s.pos
    BY Zenon, <2>1, <1>3, <1>4
  <2>3. ~(s.rec < r.rec) /\ r # s
    BY <2>2, <1>0
  <2>4. r.rec # s.rec
    BY Zenon, <2>3, <1>0
  <2> QED BY <2>1, <2>3, <2>4, <1>0
<1>5. \A i \in 1 .. n : q[i].rec = lo + i
  <2> SUFFICES ASSUME NEW k \in 1 .. n, q[k].rec # lo + k PROVE FALSE
    BY Zenon
  <2>1. PICK T : T = {i \in 1 .. n : q[i].rec # lo + i}
    BY Zenon
  <2>2. T \subseteq Nat /\ T # {}
    BY <2>1, <1>2
  <2>3. PICK i \in T : \A j \in T : i <= j
    BY Zenon, <2>2, Least
  <2>4. i \in 1 .. n /\ q[i].rec # lo + i
    BY Zenon, <2>1
  <2>5. ASSUME NEW j \in 1 .. n, j < i PROVE q[j].rec = lo + j
    <3>1. j \notin T
      BY <2>3, <2>4, <2>5, <1>2
    <3> QED BY Zenon, <3>1, <2>1
  <2>6. PICK m \in Nat : m = q[i].rec /\ lo < m /\ m <= hi
    BY Zenon, <2>4, <1>0, <1>2
  <2>7. m > lo + i
    <3>1. CASE i = 1
      BY <3>1, <2>4, <2>6, <1>0
    <3>2. CASE i # 1
      <4>1. i - 1 \in 1 .. n /\ i - 1 < i
        BY <3>2, <2>4, <1>2
      <4>2. q[i - 1].rec = lo + (i - 1) /\ q[i - 1].rec < q[i].rec
        BY Zenon, <4>1, <2>4, <2>5, <1>4
      <4>3. lo + (i - 1) < m /\ m # lo + i
        BY Zenon, <4>2, <2>4, <2>6
      <4>4. lo \in Nat /\ i \in Nat
        BY SMTT(30), <2>4, <1>0, <1>2
      <4> QED BY <4>3, <4>4
    <3> QED BY Zenon, <3>1, <3>2
  <2>8. lo + i \in Nat /\ lo < lo + i /\ lo + i <= hi
    BY <2>4, <2>6, <2>7, <1>0, <1>2
  <2>9. PICK j \in 1 .. n : q[j].rec = lo + i
    <3>1. PICK r \in S : r.rec = lo + i
      BY Zenon, <2>8, <1>0
    <3> QED BY Zenon, <3>1, <1>3
  <2>10. CASE j < i
    BY SMTT(30), <2>10, <2>5, <2>9, <2>4, <1>0, <1>2
  <2>11. CASE i < j
    <3>1. q[i].rec < q[j].rec
      BY Zenon, <2>11, <2>4, <1>4
    <3> QED BY <3>1, <2>6, <2>7, <2>8, <2>9
  <2>12. j # i
    BY Zenon, <2>4, <2>9
  <2> QED BY <2>4, <2>10, <2>11, <2>12, <1>2
<1>6. n = hi - lo
  <2>1. n <= hi - lo
    <3>1. CASE n = 0
      BY <3>1, <1>0
    <3>2. CASE n # 0
      <4>1. n \in 1 .. n
        BY <3>2, <1>2
      <4>2. q[n].rec = lo + n /\ q[n].rec <= hi
        BY Zenon, <4>1, <1>0, <1>2, <1>5
      <4> QED BY <4>2, <1>0, <1>2
    <3> QED BY Zenon, <3>1, <3>2
  <2>2. hi - lo <= n
    <3>1. CASE hi = lo
      BY SMTT(30), <3>1, <1>0, <1>2
    <3>2. CASE lo < hi
      <4>1. PICK j \in 1 .. n : q[j].rec = hi
        BY <3>2, <1>0, <1>3
      <4>2. lo + j = hi
        BY Zenon, <4>1, <1>5
      <4> QED BY SMTT(30), <4>2, <1>0, <1>2
    <3> QED BY <3>1, <3>2, <1>0
  <2> QED BY <2>1, <2>2, <1>0, <1>2
<1> QED BY Zenon, <1>2, <1>5, <1>6 DEF Numbered

\* The queue of records with consecutive names: what it holds at each index.
Item(r, d) == [rec |-> r.rec, st |-> Status(r, d)]
Items == [rec : Nat, st : {"busy", "ready", "dropped"}]

Indexed(q, S, d, lo, hi) ==
    /\ DOMAIN q = 1 .. (hi - lo)
    /\ \A i \in 1 .. (hi - lo) :
          \E r \in S : r.rec = lo + i /\ q[i] = Item(r, d)

\* Unread records with consecutive names are listed in the order of names.
LEMMA QueueItems ==
    ASSUME NEW S, NEW d, NEW lo, NEW hi, Consecutive(S, lo, hi),
           hi <= MaxRecords
    PROVE  Indexed(QueueOf(S, d), S, d, lo, hi)
<1>1. PICK q : q = Sorted(S) /\ IsSorted(q, S)
  BY Zenon, SortedExists
<1>2. /\ DOMAIN q = 1 .. (hi - lo)
      /\ \A i \in DOMAIN q : q[i] \in S /\ q[i].rec = lo + i
  <2>1. Numbered(q, S, lo, hi)
    BY Zenon, <1>1, SortedNames
  <2> QED BY Zenon, <2>1 DEF Numbered
<1>3. QueueOf(S, d) = [i \in DOMAIN q |-> Item(q[i], d)]
  <2>1. QueueOf(S, d) = [i \in DOMAIN Sorted(S) |-> Item(Sorted(S)[i], d)]
    BY Zenon DEF QueueOf, Item
  <2> QED BY Zenon, <1>1, <2>1
<1>4. ASSUME NEW i \in 1 .. (hi - lo)
      PROVE  \E r \in S : r.rec = lo + i /\ QueueOf(S, d)[i] = Item(r, d)
  <2>1. i \in DOMAIN q
    BY Zenon, <1>2
  <2> QED BY Zenon, <2>1, <1>2, <1>3
<1>5. DOMAIN QueueOf(S, d) = 1 .. (hi - lo)
  BY Zenon, <1>2, <1>3
<1> QED BY Zenon, <1>4, <1>5 DEF Indexed

\* It is a sequence of items, and the record named lo + i is the i-th.
Queued(q, S, d, lo, hi) ==
    /\ q \in Seq(Items) /\ Len(q) = hi - lo
    /\ \A r \in S : /\ r.rec - lo \in 1 .. (hi - lo)
                    /\ q[r.rec - lo] = Item(r, d)
    /\ \A i \in 1 .. (hi - lo) :
          \E r \in S : r.rec = lo + i /\ q[i] = Item(r, d)

\* The list is a sequence, indexed by the names.
LEMMA QueueSeq ==
    ASSUME NEW S, NEW d, NEW lo, NEW hi, Consecutive(S, lo, hi),
           hi <= MaxRecords
    PROVE  Queued(QueueOf(S, d), S, d, lo, hi)
<1>0. /\ lo \in Nat /\ hi \in Nat /\ lo <= hi
      /\ \A r \in S : /\ r.pos \in Nat /\ r.rec \in Nat
                      /\ lo < r.rec /\ r.rec <= hi
      /\ \A r, s \in S : r.rec = s.rec => r = s
  BY Zenon DEF Consecutive
<1>a. PICK n \in Nat : n = hi - lo
  BY <1>0
<1>1. PICK q : q = QueueOf(S, d) /\ n = hi - lo
  BY Zenon, <1>a
<1>2. /\ DOMAIN q = 1 .. n
      /\ \A i \in 1 .. n : \E r \in S : r.rec = lo + i /\ q[i] = Item(r, d)
  <2>1. Indexed(q, S, d, lo, hi)
    BY Zenon, <1>1, QueueItems
  <2> QED BY Zenon, <1>1, <2>1 DEF Indexed
<1>3. ASSUME NEW r \in S PROVE Item(r, d) \in Items
  <2>1. Status(r, d) \in {"busy", "ready", "dropped"}
    BY Zenon DEF Status
  <2> QED BY <2>1, <1>0 DEF Item, Items
<1>4. q = [i \in 1 .. n |-> q[i]]
  <2>1. q = [i \in DOMAIN q |-> q[i]]
    BY Zenon, <1>1 DEF QueueOf
  <2> QED BY Zenon, <2>1, <1>2
<1>5. \A i \in 1 .. n : q[i] \in Items
  BY Zenon, <1>2, <1>3
<1>6. q \in Seq(Items) /\ Len(q) = n
  BY <1>4, <1>5
<1>7. ASSUME NEW r \in S
      PROVE  r.rec - lo \in 1 .. n /\ q[r.rec - lo] = Item(r, d)
  <2>1. PICK i : i = r.rec - lo /\ i \in 1 .. n /\ lo + i = r.rec
    BY <1>0, <1>1
  <2>2. PICK s \in S : s.rec = lo + i /\ q[i] = Item(s, d)
    BY Zenon, <2>1, <1>2
  <2>3. s = r
    BY Zenon, <2>1, <2>2, <1>0
  <2> QED BY Zenon, <2>1, <2>2, <2>3
<1> QED BY Zenon, <1>1, <1>2, <1>6, <1>7 DEF Queued

----------------------------------------------------------------------------
(* How the queue changes with the set of records and with the headers *)

\* Two sequences of items with the same items are equal.
LEMMA SameItems ==
    ASSUME NEW s \in Seq(Items), NEW t \in Seq(Items), Len(s) = Len(t),
           \A i \in 1 .. Len(s) : s[i] = t[i]
    PROVE  s = t
OBVIOUS

\* The queue depends on the headers only through the status of its records.
LEMMA QueueKept ==
    ASSUME NEW S, NEW d, NEW e, NEW lo, NEW hi, Consecutive(S, lo, hi),
           hi <= MaxRecords, \A r \in S : Status(r, d) = Status(r, e)
    PROVE  QueueOf(S, d) = QueueOf(S, e)
<1>1. PICK q, p : /\ q = QueueOf(S, d) /\ p = QueueOf(S, e)
                  /\ Queued(q, S, d, lo, hi) /\ Queued(p, S, e, lo, hi)
  BY Zenon, QueueSeq
<1>2. /\ q \in Seq(Items) /\ p \in Seq(Items) /\ Len(q) = Len(p)
      /\ Len(q) = hi - lo
  BY Zenon, <1>1 DEF Queued
<1>3. ASSUME NEW i \in 1 .. (hi - lo) PROVE q[i] = p[i]
  <2>1. PICK r \in S : r.rec = lo + i /\ q[i] = Item(r, d)
    BY Zenon, <1>1 DEF Queued
  <2>2. i = r.rec - lo
    BY <2>1 DEF Consecutive
  <2>3. p[i] = Item(r, e)
    BY Zenon, <1>1, <2>2 DEF Queued
  <2> QED BY Zenon, <2>1, <2>3 DEF Item
<1> QED BY Zenon, <1>1, <1>2, <1>3, SameItems

\* reserve: a record with the next name and the highest position.
Reserving(S, d, hi, r, e) ==
    /\ r.pos \in Nat /\ r.rec = hi + 1 /\ Status(r, e) = "busy"
    /\ \A s \in S : s.pos < r.pos /\ Status(s, d) = Status(s, e)

\* A reserved record takes the next name.
LEMMA ReserveRecord ==
    ASSUME NEW S, NEW d, NEW lo, NEW hi, Consecutive(S, lo, hi), NEW r, NEW e,
           Reserving(S, d, hi, r, e)
    PROVE  Consecutive(S \cup {r}, lo, hi + 1)
<1>0. /\ lo \in Nat /\ hi \in Nat /\ lo <= hi
      /\ \A x \in S : /\ x.pos \in Nat /\ x.rec \in Nat
                      /\ lo < x.rec /\ x.rec <= hi
      /\ \A n \in Nat : lo < n /\ n <= hi => \E x \in S : x.rec = n
      /\ \A x, s \in S : x.rec < s.rec => x.pos < s.pos
      /\ \A x, s \in S : x.rec = s.rec => x = s
  BY Zenon DEF Consecutive
<1>1. r.pos \in Nat /\ r.rec = hi + 1 /\ \A s \in S : s.pos < r.pos
  BY Zenon DEF Reserving
<1>2. PICK T, h : T = S \cup {r} /\ h = hi + 1
  BY Zenon
<1>3. lo \in Nat /\ h \in Nat /\ lo <= h
  BY <1>0, <1>2
<1>4. ASSUME NEW x \in T
      PROVE  x.pos \in Nat /\ x.rec \in Nat /\ lo < x.rec /\ x.rec <= h
  BY <1>0, <1>1, <1>2
<1>5. ASSUME NEW n \in Nat, lo < n, n <= h PROVE \E x \in T : x.rec = n
  <2>1. n <= hi \/ n = r.rec
    BY SMTT(30), <1>5, <1>0, <1>1, <1>2
  <2> QED BY Zenon, <2>1, <1>0, <1>2, <1>5
<1>6. ASSUME NEW x \in T, NEW s \in T, x.rec < s.rec PROVE x.pos < s.pos
  BY SMTT(30), <1>0, <1>1, <1>2, <1>6
<1>7. ASSUME NEW x \in T, NEW s \in T, x.rec = s.rec PROVE x = s
  BY <1>0, <1>1, <1>2, <1>7
<1>8. Consecutive(T, lo, h)
  BY Zenon, <1>3, <1>4, <1>5, <1>6, <1>7 DEF Consecutive
<1> QED BY Zenon, <1>2, <1>8

Appended(q, p, n) == p = Append(q, [rec |-> n, st |-> "busy"])

\* It is appended to the list.
LEMMA ReserveQueue ==
    ASSUME NEW S, NEW d, NEW lo, NEW hi, Consecutive(S, lo, hi), NEW r, NEW e,
           Reserving(S, d, hi, r, e), hi + 1 <= MaxRecords
    PROVE  Appended(QueueOf(S, d), QueueOf(S \cup {r}, e), hi + 1)
<1>0. /\ lo \in Nat /\ hi \in Nat /\ lo <= hi
      /\ \A x \in S : x.rec \in Nat
  BY Zenon DEF Consecutive
<1>1. PICK T, h : T = S \cup {r} /\ h = hi + 1
  BY Zenon
<1>2. Consecutive(T, lo, h) /\ h <= MaxRecords /\ hi <= MaxRecords
  <2>1. Consecutive(S \cup {r}, lo, hi + 1)
    BY Zenon, ReserveRecord
  <2>2. h <= MaxRecords /\ hi <= MaxRecords
    BY <1>0, <1>1, MaxRecordsAssumption
  <2> QED BY Zenon, <2>1, <2>2, <1>1
<1>3. PICK q, p : /\ q = QueueOf(S, d) /\ p = QueueOf(T, e)
                  /\ Queued(q, S, d, lo, hi) /\ Queued(p, T, e, lo, h)
  <2>1. Queued(QueueOf(S, d), S, d, lo, hi)
    BY Zenon, <1>2, QueueSeq
  <2>2. Queued(QueueOf(T, e), T, e, lo, h)
    BY Zenon, <1>2, QueueSeq
  <2> QED BY Zenon, <2>1, <2>2
<1>a. PICK i : i = [rec |-> hi + 1, st |-> "busy"]
  BY Zenon
<1>4. PICK a : a = Append(q, i) /\ i = [rec |-> hi + 1, st |-> "busy"]
  BY Zenon, <1>a
<1>5. i \in Items /\ i = Item(r, e)
  <2>1. r.rec = hi + 1 /\ Status(r, e) = "busy"
    BY Zenon DEF Reserving
  <2>2. i = Item(r, e)
    BY Zenon, <1>4, <2>1 DEF Item
  <2> QED BY <1>0, <1>4, <2>2 DEF Items
<1>6. /\ q \in Seq(Items) /\ Len(q) = hi - lo
      /\ p \in Seq(Items) /\ Len(p) = h - lo
  BY Zenon, <1>3 DEF Queued
<1>7. /\ a \in Seq(Items) /\ Len(a) = h - lo /\ a[h - lo] = i
      /\ \A k \in 1 .. (hi - lo) : a[k] = q[k]
  <2>1. PICK n \in Nat : n = hi - lo /\ h - lo = n + 1
    BY <1>0, <1>1
  <2>2. a = Append(q, i) /\ i \in Items /\ q \in Seq(Items) /\ Len(q) = n
    BY Zenon, <2>1, <1>4, <1>5, <1>6
  <2>3. /\ a \in Seq(Items) /\ Len(a) = n + 1 /\ a[n + 1] = i
        /\ \A k \in 1 .. n : a[k] = q[k]
    BY <2>2
  <2> QED BY Zenon, <2>1, <2>3
<1>8. p[h - lo] = i
  <2>1. r \in T /\ r.rec = h
    BY Zenon, <1>1 DEF Reserving
  <2> QED BY Zenon, <2>1, <1>3, <1>5 DEF Queued
<1>9. ASSUME NEW k \in 1 .. (hi - lo) PROVE p[k] = q[k]
  <2>1. PICK s \in S : s.rec = lo + k /\ q[k] = Item(s, d)
    BY Zenon, <1>3 DEF Queued
  <2>2. s.rec - lo = k
    BY <2>1, <1>0
  <2>3. p[k] = Item(s, e)
    BY Zenon, <2>2, <1>1, <1>3 DEF Queued
  <2> QED BY Zenon, <2>1, <2>3 DEF Item, Reserving
<1>10. ASSUME NEW k \in 1 .. Len(p) PROVE p[k] = a[k]
  <2>1. k = h - lo \/ k \in 1 .. (hi - lo)
    BY <1>0, <1>1, <1>6
  <2> QED BY Zenon, <2>1, <1>7, <1>8, <1>9
<1>11. p = a
  BY Zenon, <1>6, <1>7, <1>10, SameItems
<1> QED BY Zenon, <1>1, <1>3, <1>4, <1>11 DEF Appended

\* fetch_data passes the oldest record.
LEMMA TakeRecord ==
    ASSUME NEW S, NEW lo, NEW hi, Consecutive(S, lo, hi), NEW r \in S,
           r.rec = lo + 1
    PROVE  Consecutive(S \ {r}, lo + 1, hi)
<1>0. /\ lo \in Nat /\ hi \in Nat /\ lo <= hi
      /\ \A x \in S : /\ x.pos \in Nat /\ x.rec \in Nat
                      /\ lo < x.rec /\ x.rec <= hi
      /\ \A n \in Nat : lo < n /\ n <= hi => \E x \in S : x.rec = n
      /\ \A x, s \in S : x.rec < s.rec => x.pos < s.pos
      /\ \A x, s \in S : x.rec = s.rec => x = s
  BY Zenon DEF Consecutive
<1>1. PICK T, l : T = S \ {r} /\ l = lo + 1
  BY Zenon
<1>2. l \in Nat /\ hi \in Nat /\ l <= hi
  BY <1>0, <1>1
<1>3. ASSUME NEW x \in T
      PROVE  x.pos \in Nat /\ x.rec \in Nat /\ l < x.rec /\ x.rec <= hi
  <2>1. x \in S /\ x.rec # r.rec
    BY Zenon, <1>0, <1>1
  <2> QED BY <2>1, <1>0, <1>1
<1>4. ASSUME NEW n \in Nat, l < n, n <= hi PROVE \E x \in T : x.rec = n
  <2>1. lo < n /\ n # r.rec
    BY <1>0, <1>1, <1>4
  <2> QED BY Zenon, <2>1, <1>0, <1>1, <1>4
<1>5. \A x, s \in T : /\ x.rec < s.rec => x.pos < s.pos
                      /\ x.rec = s.rec => x = s
  BY Zenon, <1>0, <1>1
<1>6. Consecutive(T, l, hi)
  BY Zenon, <1>2, <1>3, <1>4, <1>5 DEF Consecutive
<1> QED BY Zenon, <1>1, <1>6

Taken(q, p, item) == q # <<>> /\ Head(q) = item /\ p = Tail(q)

\* The record with the first name is taken from the front of the list.
LEMMA TakeQueue ==
    ASSUME NEW S, NEW d, NEW lo, NEW hi, Consecutive(S, lo, hi), NEW r \in S,
           r.rec = lo + 1, hi <= MaxRecords
    PROVE  Taken(QueueOf(S, d), QueueOf(S \ {r}, d), Item(r, d))
<1>0. /\ lo \in Nat /\ hi \in Nat /\ lo < hi
      /\ \A x \in S : x.rec \in Nat
  BY DEF Consecutive
<1>1. PICK T, l : T = S \ {r} /\ l = lo + 1
  BY Zenon
<1>2. Consecutive(T, l, hi)
  BY Zenon, <1>1, TakeRecord
<1>3. PICK q, p : /\ q = QueueOf(S, d) /\ p = QueueOf(T, d)
                  /\ Queued(q, S, d, lo, hi) /\ Queued(p, T, d, l, hi)
  <2>1. Queued(QueueOf(S, d), S, d, lo, hi)
    BY Zenon, QueueSeq
  <2>2. Queued(QueueOf(T, d), T, d, l, hi)
    BY Zenon, <1>2, QueueSeq
  <2> QED BY Zenon, <2>1, <2>2
<1>4. /\ q \in Seq(Items) /\ Len(q) = hi - lo
      /\ p \in Seq(Items) /\ Len(p) = hi - l
  BY Zenon, <1>3 DEF Queued
<1>5. PICK a : a = Tail(q)
  BY Zenon
<1>6. q # <<>> /\ Head(q) = q[1]
  BY SMTT(30), <1>0, <1>4
<1>7. /\ a \in Seq(Items) /\ Len(a) = hi - l
      /\ \A k \in 1 .. (hi - l) : a[k] = q[k + 1]
  BY SMTT(30), <1>0, <1>1, <1>4, <1>5, <1>6
<1>8. q[1] = Item(r, d)
  <2>1. r.rec - lo = 1
    BY <1>0
  <2> QED BY Zenon, <2>1, <1>3 DEF Queued
<1>9. ASSUME NEW k \in 1 .. (hi - l) PROVE p[k] = q[k + 1]
  <2>1. PICK s \in T : s.rec = l + k /\ p[k] = Item(s, d)
    BY Zenon, <1>3 DEF Queued
  <2>2. s.rec - lo = k + 1 /\ s \in S
    BY <2>1, <1>0, <1>1
  <2>3. q[k + 1] = Item(s, d)
    BY Zenon, <2>2, <1>3 DEF Queued
  <2> QED BY Zenon, <2>1, <2>3
<1>10. p = a
  BY Zenon, <1>4, <1>7, <1>9, SameItems
<1> QED BY Zenon, <1>1, <1>3, <1>5, <1>6, <1>8, <1>10 DEF Taken

\* submit and discard: the status of one busy record.
Settling(S, d, r, e, st) ==
    /\ Status(r, d) = "busy" /\ Status(r, e) = st
    /\ \A s \in S : s # r => Status(s, d) = Status(s, e)

Settled(q, p, st) ==
    \E i \in DOMAIN q : q[i].st = "busy" /\ p = [q EXCEPT ![i].st = st]

\* A record that is submitted or discarded keeps its place.
LEMMA SettleQueue ==
    ASSUME NEW S, NEW d, NEW lo, NEW hi, Consecutive(S, lo, hi), NEW r \in S,
           hi <= MaxRecords, NEW e, NEW st, Settling(S, d, r, e, st)
    PROVE  Settled(QueueOf(S, d), QueueOf(S, e), st)
<1>0. /\ lo \in Nat /\ hi \in Nat /\ lo <= hi
      /\ \A x \in S : x.rec \in Nat
      /\ \A x, s \in S : x.rec = s.rec => x = s
  BY Zenon DEF Consecutive
<1>1. PICK q, p : /\ q = QueueOf(S, d) /\ p = QueueOf(S, e)
                  /\ Queued(q, S, d, lo, hi) /\ Queued(p, S, e, lo, hi)
  BY Zenon, QueueSeq
<1>2. /\ q \in Seq(Items) /\ Len(q) = hi - lo
      /\ p \in Seq(Items) /\ Len(p) = hi - lo
  BY Zenon, <1>1 DEF Queued
<1>3. PICK n \in Nat : /\ n = hi - lo
                       /\ q \in [1 .. n -> Items] /\ p \in [1 .. n -> Items]
  BY <1>0, <1>2
<1>4. PICK i \in 1 .. n : i = r.rec - lo
  BY Zenon, <1>1, <1>3 DEF Queued
<1>5. q[i] = Item(r, d) /\ p[i] = Item(r, e)
  BY Zenon, <1>1, <1>4 DEF Queued
<1>6. q[i].st = "busy" /\ p[i] = [q[i] EXCEPT !.st = st]
  <2>1. Status(r, d) = "busy" /\ Status(r, e) = st
    BY Zenon DEF Settling
  <2> QED BY <1>5, <2>1 DEF Item
<1>7. ASSUME NEW k \in 1 .. n, k # i PROVE p[k] = q[k]
  <2>1. PICK s \in S : s.rec = lo + k /\ q[k] = Item(s, d)
    BY Zenon, <1>1, <1>3 DEF Queued
  <2>2. s.rec - lo = k /\ s # r
    BY <2>1, <1>0, <1>3, <1>4, <1>7
  <2>3. p[k] = Item(s, e)
    BY Zenon, <2>2, <1>1 DEF Queued
  <2> QED BY Zenon, <2>1, <2>2, <2>3 DEF Item, Settling
<1>8. p = [q EXCEPT ![i].st = st]
  BY SMTT(30), <1>3, <1>4, <1>6, <1>7
<1>9. i \in DOMAIN q
  BY <1>3, <1>4
<1> QED BY Zenon, <1>1, <1>6, <1>8, <1>9 DEF Settled

----------------------------------------------------------------------------
(* The invariant: the names of the unread records *)

\* The last name a record was published under.
Naming == {"header", "publish"}
Published ==
    IF \E p \in Producers : prod[p].pc \in Naming THEN nrec - 1 ELSE nrec

LocalOk(l, n) ==
    /\ n <= MaxRecords
    /\ l.pc \in {"load", "test"} => n < MaxRecords
    /\ l.pc \in Naming => l.rec = n /\ n > 0

DeliveredUpTo(lo) == \A i \in DOMAIN delivered : delivered[i].rec <= lo

\* The producer's record has the last name, fetch_data calls the callback for
\* no discarded record, and the unread records have consecutive names that
\* follow the names of those delivered.
NamesInv ==
    /\ nrec <= MaxRecords
    /\ \A p \in Producers : LocalOk(prod[p], nrec)
    /\ cons.pc = "call" => ~data[Offset(cons.at)].discard
    /\ \E lo \in Nat : Consecutive(Unread, lo, Published) /\ DeliveredUpTo(lo)

\* The names of the one producer.
LEMMA OneProducer ==
    ASSUME SingleProducer, NEW p \in Producers
    PROVE  /\ Published = IF prod[p].pc \in Naming THEN nrec - 1 ELSE nrec
           /\ Published' = IF prod'[p].pc \in Naming THEN nrec' - 1 ELSE nrec'
           /\ \A q \in Producers : q = p
BY Zenon DEF Published, SingleProducer

\* What the producer's steps do to its program counter and to the names.
LEMMA ProducerNames ==
    ASSUME SingleProducer, Inv, NamesInv, NEW p \in Producers, Produce(p)
    PROVE  /\ nrec' <= MaxRecords
           /\ \A q \in Producers : LocalOk(prod'[q], nrec')
           /\ ~Publish(p) => Published' = Published
           /\ Publish(p) => /\ Published' = Published + 1
                            /\ prod[p].rec = Published + 1
<1>1. PICK l, m : /\ l = prod[p] /\ m = prod'[p] /\ LocalOk(l, nrec)
                  /\ l \in ProducerLocals /\ nrec \in Nat
  BY Zenon, Fields DEF NamesInv, Inv
<1>2. /\ Published = IF l.pc \in Naming THEN nrec - 1 ELSE nrec
      /\ Published' = IF m.pc \in Naming THEN nrec' - 1 ELSE nrec'
      /\ \A q \in Producers : prod'[q] = m
  BY Zenon, <1>1, OneProducer
<1>3. prod \in [Producers -> ProducerLocals]
  BY Zenon DEF Inv, TypeOK
<1>4. CASE ReserveBegin(p)
  <2>1. l.pc = "idle" /\ nrec < MaxRecords /\ nrec' = nrec
    BY Zenon, <1>1, <1>4 DEF ReserveBegin
  <2>2. m.pc = "load"
    <3>1. PICK size \in Sizes, helper \in Helpers :
             m = [IdleProducer EXCEPT !.pc = "load", !.size = size,
                                      !.helper = helper]
      BY Zenon, <1>1, <1>3, <1>4 DEF ReserveBegin
    <3> QED BY <3>1 DEF IdleProducer
  <2>3. LocalOk(m, nrec') /\ Published' = Published
    BY SMTT(30), <2>1, <2>2, <1>1, <1>2, MaxRecordsAssumption
       DEF LocalOk, Naming
  <2>4. ~Publish(p)
    BY SMTT(30), <2>1, <1>1 DEF Publish
  <2> QED BY Zenon, <2>3, <2>4, <1>2 DEF LocalOk
<1>5. CASE LoadConsumerPos(p)
  <2>1. l.pc = "load" /\ nrec' = nrec
    BY Zenon, <1>1, <1>5 DEF LoadConsumerPos
  <2>2. m = [l EXCEPT !.pc = "test", !.cpos = consumer_pos]
    BY Zenon, <1>1, <1>3, <1>5 DEF LoadConsumerPos
  <2>3. m.pc = "test"
    BY SMTT(30), <2>2, <1>1 DEF ProducerLocals
  <2>4. LocalOk(m, nrec') /\ Published' = Published
    BY SMTT(30), <2>1, <2>3, <1>1, <1>2, MaxRecordsAssumption
       DEF LocalOk, Naming
  <2>5. ~Publish(p)
    BY SMTT(30), <2>1, <1>1 DEF Publish
  <2> QED BY Zenon, <2>4, <2>5, <1>2 DEF LocalOk
<1>6. CASE LoadProducerPos(p)
  <2>1. /\ l.pc = "test" /\ nrec < MaxRecords
        /\ \/ m = IdleProducer /\ nrec' = nrec
           \/ /\ m = [l EXCEPT !.pc = "header", !.ppos = producer_pos,
                               !.rec = nrec + 1]
              /\ nrec' = nrec + 1
    BY Zenon, <1>1, <1>3, <1>6 DEF LoadProducerPos, LocalOk
  <2>2. \/ m.pc = "idle" /\ nrec' = nrec
        \/ m.pc = "header" /\ m.rec = nrec + 1 /\ nrec' = nrec + 1
    <3>1. CASE m = IdleProducer /\ nrec' = nrec
      BY <3>1 DEF IdleProducer
    <3>2. CASE /\ m = [l EXCEPT !.pc = "header", !.ppos = producer_pos,
                                !.rec = nrec + 1]
               /\ nrec' = nrec + 1
      BY <3>2, <1>1 DEF ProducerLocals
    <3> QED BY ZenonT(30), <2>1, <3>1, <3>2
  <2>3. LocalOk(m, nrec') /\ Published' = Published
    BY SMTT(30), <2>1, <2>2, <1>1, <1>2, MaxRecordsAssumption
       DEF LocalOk, Naming
  <2>4. ~Publish(p)
    BY SMTT(30), <2>1, <1>1 DEF Publish
  <2> QED BY Zenon, <2>3, <2>4, <1>2 DEF LocalOk
<1>7. CASE WriteHeader(p)
  <2>1. l.pc = "header" /\ nrec' = nrec /\ m = [l EXCEPT !.pc = "publish"]
    BY Zenon, <1>1, <1>3, <1>7 DEF WriteHeader
  <2>2. m.pc = "publish" /\ m.rec = l.rec
    BY <2>1, <1>1 DEF ProducerLocals
  <2>3. LocalOk(m, nrec') /\ Published' = Published
    <3>1. l.pc \in Naming /\ m.pc \in Naming /\ m.pc \notin {"load", "test"}
      BY <2>1, <2>2 DEF Naming
    <3>2. LocalOk(m, nrec')
      BY Zenon, <3>1, <2>1, <2>2, <1>1 DEF LocalOk
    <3> QED BY Zenon, <3>1, <3>2, <2>1, <1>2
  <2>4. ~Publish(p)
    BY <2>1, <1>1 DEF Publish
  <2> QED BY Zenon, <2>3, <2>4, <1>2 DEF LocalOk
<1>8. CASE Publish(p)
  <2>1. /\ l.pc = "publish" /\ nrec' = nrec
        /\ m = [l EXCEPT !.pc = "fill", !.ptr = Offset(l.ppos + 1)]
    BY Zenon, <1>1, <1>3, <1>8 DEF Publish
  <2>2. m.pc = "fill"
    BY <2>1, <1>1 DEF ProducerLocals
  <2>3. /\ LocalOk(m, nrec') /\ Published' = Published + 1
        /\ l.rec = Published + 1
    <3>1. Published = nrec - 1 /\ Published' = nrec
      BY <2>1, <2>2, <1>2 DEF Naming
    <3>2. l.rec = nrec /\ nrec <= MaxRecords
      BY <2>1, <1>1 DEF LocalOk, Naming
    <3>3. LocalOk(m, nrec')
      BY SMTT(30), <2>1, <2>2, <3>2 DEF LocalOk, Naming
    <3> QED BY <3>1, <3>2, <3>3, <1>1
  <2> QED BY Zenon, <2>3, <1>1, <1>2, <1>8 DEF LocalOk
<1>9. CASE Fill(p) \/ Submit(p)
  <2>1. /\ l.pc \in {"fill", "submit"} /\ nrec' = nrec
        /\ m = [l EXCEPT !.pc = "submit"] \/ m = IdleProducer
    BY Zenon, <1>1, <1>3, <1>9 DEF Fill, Submit
  <2>2. m.pc \in {"idle", "submit"}
    BY <2>1, <1>1 DEF ProducerLocals, IdleProducer
  <2>3. LocalOk(m, nrec') /\ Published' = Published
    BY SMTT(30), <2>1, <2>2, <1>1, <1>2, MaxRecordsAssumption
       DEF LocalOk, Naming
  <2>4. ~Publish(p)
    BY <2>1, <1>1 DEF Publish
  <2> QED BY Zenon, <2>3, <2>4, <1>2 DEF LocalOk
<1> QED BY Zenon, <1>4, <1>5, <1>6, <1>7, <1>8, <1>9 DEF Produce

----------------------------------------------------------------------------
(* Each step of the ring is a step of the queue *)

\* What is proved of every step.
Implements == NamesInv' /\ (Queue!Next \/ UNCHANGED Queue!vars)

\* The unread records, their names and the bound on them.
LEMMA UnreadNames ==
    ASSUME Inv, NamesInv
    PROVE  \E lo \in Nat :
              /\ Consecutive(Unread, lo, Published) /\ DeliveredUpTo(lo)
              /\ Published \in Nat /\ Published <= MaxRecords
<1>1. PICK lo \in Nat : Consecutive(Unread, lo, Published) /\ DeliveredUpTo(lo)
  BY Zenon DEF NamesInv
<1>2. Published \in Nat
  BY Zenon, <1>1 DEF Consecutive
<1>3. nrec \in Nat /\ nrec <= MaxRecords
  BY Zenon, Fields DEF NamesInv, Inv
<1>4. Published <= MaxRecords
  BY <1>2, <1>3, MaxRecordsAssumption DEF Published
<1> QED BY Zenon, <1>1, <1>2, <1>4

\* A step that changes neither the unread records, nor what their headers say,
\* nor what was delivered, nor the names, is a stutter of the queue.
LEMMA QuietStep ==
    ASSUME Inv, NamesInv, Unread' = Unread,
           \A r \in Unread : Status(r, data') = Status(r, data),
           delivered' = delivered, Published' = Published
    PROVE  /\ (\E lo \in Nat :
                 Consecutive(Unread, lo, Published) /\ DeliveredUpTo(lo))'
           /\ UNCHANGED Queue!vars
<1>1. PICK lo \in Nat :
         /\ Consecutive(Unread, lo, Published) /\ DeliveredUpTo(lo)
         /\ Published \in Nat /\ Published <= MaxRecords
  BY Zenon, UnreadNames
<1>2. (Consecutive(Unread, lo, Published) /\ DeliveredUpTo(lo))'
  BY Zenon, <1>1 DEF DeliveredUpTo
<1>3. PICK S, d, e, hi : S = Unread /\ d = data /\ e = data' /\ hi = Published
  BY Zenon
<1>4. QueueOf(S, e) = QueueOf(S, d)
  BY Zenon, <1>1, <1>3, QueueKept
<1>5. QueueOf(Unread, data)' = QueueOf(Unread, data)
  BY Zenon, <1>3, <1>4
<1>6. UNCHANGED Queue!vars
  BY Zenon, <1>5 DEF Queue!vars
<1> QED BY Zenon, <1>2, <1>6

\* The record fetch_data has passed is at consumer_pos.
LEMMA PassedRecord ==
    ASSUME Inv, cons.pc \in {"call", "store"}
    PROVE  \E r \in live : r.pos = cons.at /\ cons.cpos = End(r)
BY Zenon DEF Inv, ConsumerInv

\* The steps of the producer that neither publish nor settle.
LEMMA ProducerQuiet ==
    ASSUME SingleProducer, Inv, NamesInv, NEW p \in Producers, Produce(p),
           ~Publish(p), ~Submit(p)
    PROVE  Implements
<1>1. /\ nrec' <= MaxRecords /\ Published' = Published
      /\ \A q \in Producers : LocalOk(prod'[q], nrec')
  BY Zenon, ProducerNames
<1>2. UNCHANGED <<consumer_pos, live, cons, delivered>>
  BY Zenon DEF Produce, ReserveBegin, LoadConsumerPos, LoadProducerPos,
     WriteHeader, Fill
<1>3. ASSUME NEW r \in live PROVE data'[Offset(r.pos)] = data[Offset(r.pos)]
  <2>1. data' = data \/ WriteHeader(p) \/ Fill(p)
    BY Zenon DEF Produce, ReserveBegin, LoadConsumerPos, LoadProducerPos
  <2> QED BY Zenon, <2>1, HeaderKept
<1>4. Unread' = Unread /\ \A r \in Unread : r \in live
  BY Zenon, <1>2 DEF Unread
<1>5. \A r \in Unread : Status(r, data') = Status(r, data)
  BY Zenon, <1>3, <1>4 DEF Status
<1>6. cons'.pc = "call" => ~data'[Offset(cons'.at)].discard
  <2> SUFFICES ASSUME cons.pc = "call" PROVE ~data'[Offset(cons.at)].discard
    BY Zenon, <1>2
  <2>1. PICK r \in live : r.pos = cons.at
    BY Zenon, PassedRecord
  <2> QED BY Zenon, <2>1, <1>3 DEF NamesInv
<1> QED BY Zenon, <1>1, <1>2, <1>4, <1>5, <1>6, QuietStep
        DEF Implements, NamesInv

\* The position fetch_data has come to is no later than producer_pos.
LEMMA FetchBound ==
    ASSUME Inv
    PROVE  (IF cons.pc = "store" THEN cons.cpos ELSE consumer_pos)
              <= producer_pos
<1>1. CASE cons.pc = "store"
  <2>1. PICK r \in live : cons.cpos = End(r)
    BY Zenon, <1>1, PassedRecord
  <2> QED BY <1>1, <2>1, LiveRecord DEF Inv
<1>2. CASE cons.pc # "store"
  BY <1>2 DEF Inv, NeverOverrun
<1> QED BY Zenon, <1>1, <1>2

\* Storing producer_pos puts the record at the end of the queue.
LEMMA PublishImplements ==
    ASSUME SingleProducer, Inv, NamesInv, NEW p \in Producers, Publish(p)
    PROVE  Implements
<1>1. PICK lo \in Nat :
         /\ Consecutive(Unread, lo, Published) /\ DeliveredUpTo(lo)
         /\ Published \in Nat /\ Published <= MaxRecords
  BY Zenon, UnreadNames
<1>2. PICK S, d, hi : S = Unread /\ d = data /\ hi = Published
  BY Zenon
<1>3. PICK r : r = [pos |-> prod[p].ppos, size |-> prod[p].size,
                    rec |-> prod[p].rec]
  BY Zenon
<1>4. /\ r.pos = prod[p].ppos /\ r.rec = prod[p].rec
      /\ prod[p].ppos \in Nat /\ prod[p].ppos = producer_pos
      /\ data[Offset(prod[p].ppos)].busy
  <2>1. /\ prod[p].ppos = producer_pos
        /\ data[Offset(prod[p].ppos)] = Header(prod[p].size, prod[p].rec)
    BY Zenon DEF Inv, ProducerInv, Publish
  <2>2. prod[p].ppos \in Nat
    BY ZenonT(30), Fields DEF Inv
  <2>3. data[Offset(prod[p].ppos)].busy
    BY <2>1 DEF Header
  <2>4. r.pos = prod[p].ppos /\ r.rec = prod[p].rec
    BY <1>3
  <2> QED BY Zenon, <2>1, <2>2, <2>3, <2>4
<1>5. /\ nrec' <= MaxRecords /\ Published' = hi + 1 /\ r.rec = hi + 1
      /\ \A q \in Producers : LocalOk(prod'[q], nrec')
  <2>1. Produce(p)
    BY Zenon DEF Produce
  <2> QED BY Zenon, <2>1, <1>2, <1>4, ProducerNames
<1>6. hi + 1 <= MaxRecords
  <2>1. prod[p].rec = nrec /\ nrec <= MaxRecords
    BY Zenon DEF NamesInv, LocalOk, Naming, Publish
  <2> QED BY <2>1, <1>4, <1>5
<1>7. /\ live' = live \cup {r} /\ data' = data
      /\ UNCHANGED <<consumer_pos, cons, delivered>>
  BY Zenon, <1>3 DEF Publish
<1>8. Unread' = S \cup {r}
  <2>1. r.pos >= IF cons.pc = "store" THEN cons.cpos ELSE consumer_pos
    BY <1>4, FetchBound, Fields DEF Inv
  <2> QED BY ZenonT(30), <2>1, <1>2, <1>7 DEF Unread
<1>9. Reserving(S, d, hi, r, d)
  <2>1. Status(r, d) = "busy"
    BY ZenonT(30), <1>2, <1>4 DEF Status
  <2>2. ASSUME NEW s \in S PROVE s.pos < r.pos
    <3>1. s \in live
      BY Zenon, <1>2 DEF Unread
    <3> QED BY <3>1, <1>4, LiveRecord, Fields DEF Inv, End
  <2> QED BY Zenon, <2>1, <2>2, <1>4, <1>5 DEF Reserving
<1>10. Consecutive(S \cup {r}, lo, hi + 1)
  BY Zenon, <1>1, <1>2, <1>9, ReserveRecord
<1>11. Appended(QueueOf(S, d), QueueOf(S \cup {r}, d), hi + 1)
  BY Zenon, <1>1, <1>2, <1>6, <1>9, ReserveQueue
<1>12. NamesInv'
  <2>1. (Consecutive(Unread, lo, Published) /\ DeliveredUpTo(lo))'
    BY Zenon, <1>1, <1>5, <1>7, <1>8, <1>10 DEF DeliveredUpTo
  <2>2. cons'.pc = "call" => ~data'[Offset(cons'.at)].discard
    BY Zenon, <1>7 DEF NamesInv
  <2> QED BY Zenon, <2>1, <2>2, <1>5 DEF NamesInv
<1>13. ASSUME NEW n \in Queue!Names PROVE n < hi + 1
  <2>1. CASE \E i \in DOMAIN QueueOf(S, d) : n = QueueOf(S, d)[i].rec
    <3>1. PICK q : q = QueueOf(S, d) /\ Queued(q, S, d, lo, hi)
      BY Zenon, <1>1, <1>2, QueueSeq
    <3>2. PICK i \in DOMAIN q : n = q[i].rec
      BY Zenon, <2>1, <3>1
    <3>3. i \in 1 .. (hi - lo)
      <4>1. q \in Seq(Items) /\ Len(q) = hi - lo
        BY Zenon, <3>1 DEF Queued
      <4> QED BY <4>1
    <3>4. PICK x \in S : x.rec = lo + i /\ q[i] = Item(x, d)
      BY ZenonT(30), <3>1, <3>3 DEF Queued
    <3>5. n = lo + i
      BY <3>2, <3>4 DEF Item
    <3> QED BY <3>3, <3>5, <1>1, <1>2
  <2>2. CASE \E i \in DOMAIN delivered : n = delivered[i].rec
    <3>1. PICK i \in DOMAIN delivered : n = delivered[i].rec
      BY Zenon, <2>2
    <3>2. n <= lo /\ n \in Nat
      <4>1. delivered[i] \in Sample
        BY DEF Inv, TypeOK
      <4> QED BY Zenon, <3>1, <4>1, <1>1 DEF DeliveredUpTo, Sample
    <3>3. lo <= hi
      BY Zenon, <1>1, <1>2 DEF Consecutive
    <3> QED BY <3>2, <3>3, <1>1, <1>2
  <2> QED BY Zenon, <2>1, <2>2, <1>2 DEF Queue!Names
<1>14. Queue!Reserve
  <2>1. hi + 1 \in 1 .. MaxRecords
    BY <1>1, <1>2, <1>6, MaxRecordsAssumption
  <2>2. QueueOf(Unread, data)' =
          Append(QueueOf(Unread, data), [rec |-> hi + 1, st |-> "busy"])
    BY Zenon, <1>2, <1>7, <1>8, <1>11 DEF Appended
  <2> QED BY Zenon, <2>1, <2>2, <1>7, <1>13 DEF Queue!Reserve
<1> QED BY Zenon, <1>12, <1>14 DEF Implements, Queue!Next

\* Submit and discard settle the record; a call that finds no fd does nothing.
LEMMA SubmitImplements ==
    ASSUME SingleProducer, Inv, NamesInv, NEW p \in Producers, Submit(p)
    PROVE  Implements
<1>1. PICK lo \in Nat :
         /\ Consecutive(Unread, lo, Published) /\ DeliveredUpTo(lo)
         /\ Published \in Nat /\ Published <= MaxRecords
  BY Zenon, UnreadNames
<1>2. PICK S, d, e, hi : S = Unread /\ d = data /\ e = data' /\ hi = Published
  BY Zenon
<1>3. /\ nrec' <= MaxRecords /\ Published' = Published
      /\ \A q \in Producers : LocalOk(prod'[q], nrec')
  <2>1. Produce(p) /\ ~Publish(p)
    BY DEF Produce, Publish, Submit
  <2> QED BY Zenon, <2>1, ProducerNames
<1>4. Unread' = Unread /\ UNCHANGED <<consumer_pos, live, cons, delivered>>
  BY Zenon DEF Unread, Submit
<1>5. PICK r \in live, o \in DataArea :
         /\ o = Offset(r.pos) /\ data[o].busy /\ HeaderOf(prod[p].ptr) = o
  <2>1. /\ prod[p].ptr = Offset(prod[p].ppos + 1) /\ RecordOf(p) \in live
        /\ data[Offset(prod[p].ppos)].busy
    BY ZenonT(30) DEF Inv, ProducerInv, Submit
  <2>2. RecordOf(p).pos = prod[p].ppos /\ prod[p].ppos \in Nat
    BY Fields DEF RecordOf, Inv
  <2>3. HeaderOf(prod[p].ptr) = Offset(prod[p].ppos)
    BY ZenonT(30), <2>1, <2>2, HeaderFound
  <2>4. Offset(prod[p].ppos) \in DataArea
    BY <2>2, OffsetRange, WordsAssumption DEF DataArea
  <2> QED BY Zenon, <2>1, <2>2, <2>3, <2>4
<1>6. PICK discard \in BOOLEAN :
         e = d \/ e = [d EXCEPT ![o] = [d[o] EXCEPT !.busy = FALSE,
                                         !.discard = d[o].discard \/ discard]]
  <2>1. PICK discard \in BOOLEAN :
           data' = data \/ data' = Settle(prod[p].ptr, discard)
    BY Zenon DEF Submit
  <2> QED BY Zenon, <2>1, <1>2, <1>5 DEF Settle
<1>7. CASE e = d
  <2>1. data' = data
    BY Zenon, <1>2, <1>7
  <2>2. cons'.pc = "call" => ~data'[Offset(cons'.at)].discard
    BY Zenon, <2>1, <1>4 DEF NamesInv
  <2> QED BY Zenon, <2>1, <2>2, <1>3, <1>4, QuietStep DEF Implements, NamesInv
<1>8. CASE e = [d EXCEPT ![o] = [d[o] EXCEPT !.busy = FALSE,
                                  !.discard = d[o].discard \/ discard]]
  <2>1. d \in [DataArea -> Word] /\ d[o] \in Word
    BY Zenon, <1>2 DEF Inv, TypeOK
  <2>2. ~e[o].busy /\ \A w \in DataArea : w # o => e[w] = d[w]
    BY SMTT(30), <2>1, <1>8 DEF Word
  <2>3. ASSUME NEW s \in live, s # r
        PROVE  Offset(s.pos) \in DataArea /\ Offset(s.pos) # o
    <3>1. Offset(s.pos) # o
      BY Zenon, <2>3, <1>5, HeadersApart DEF Inv
    <3> QED BY <3>1, Fields, OffsetRange, WordsAssumption DEF DataArea, Inv
  <2>4. PICK st \in {"ready", "dropped"} : Status(r, e) = st
    BY Zenon, <2>2, <1>5 DEF Status
  <2>5. Settling(S, d, r, e, st)
    <3>1. Status(r, d) = "busy"
      BY Zenon, <1>2, <1>5 DEF Status
    <3>2. ASSUME NEW s \in S, s # r PROVE Status(s, d) = Status(s, e)
      <4>1. s \in live
        BY Zenon, <1>2 DEF Unread
      <4>2. e[Offset(s.pos)] = d[Offset(s.pos)]
        BY Zenon, <4>1, <3>2, <2>2, <2>3
      <4> QED BY Zenon, <4>2 DEF Status
    <3> QED BY Zenon, <3>1, <3>2, <2>4 DEF Settling
  <2>6. r \in S
    <3>1. CASE cons.pc = "store"
      <4>1. PICK s \in live : s.pos = cons.at /\ cons.cpos = End(s)
        BY Zenon, <3>1, PassedRecord
      <4>2. ~data[Offset(s.pos)].busy /\ s.pos = consumer_pos
        BY Zenon, <3>1, <4>1 DEF Inv, ConsumerInv
      <4>3. r # s
        BY Zenon, <4>2, <1>5
      <4>4. End(s) <= r.pos \/ End(r) <= s.pos
        BY Zenon, <4>3 DEF Inv, LiveInv
      <4>5. r.pos >= cons.cpos
        BY <4>1, <4>2, <4>4, LiveRecord DEF Inv, End
      <4> QED BY Zenon, <3>1, <4>5, <1>2 DEF Unread
    <3>2. CASE cons.pc # "store"
      <4>1. r.pos >= consumer_pos
        BY LiveRecord, Fields DEF Inv
      <4> QED BY ZenonT(30), <3>2, <4>1, <1>2 DEF Unread
    <3> QED BY Zenon, <3>1, <3>2
  <2>7. Settled(QueueOf(S, d), QueueOf(S, e), st)
    BY Zenon, <2>5, <2>6, <1>1, <1>2, SettleQueue
  <2>8. Queue!Settle
    <3>1. QueueOf(Unread, data)' = QueueOf(S, e)
      BY Zenon, <1>2, <1>4
    <3> QED BY Zenon, <3>1, <2>4, <2>7, <1>2, <1>4 DEF Queue!Settle, Settled
  <2>9. cons'.pc = "call" => ~data'[Offset(cons'.at)].discard
    <3> SUFFICES ASSUME cons.pc = "call" PROVE ~e[Offset(cons.at)].discard
      BY Zenon, <1>2, <1>4
    <3>1. PICK s \in live : s.pos = cons.at
      BY Zenon, PassedRecord
    <3>2. ~data[Offset(s.pos)].busy
      BY Zenon, <3>1 DEF Inv, ConsumerInv
    <3>3. s # r
      BY Zenon, <3>2, <1>5
    <3>4. e[Offset(s.pos)] = d[Offset(s.pos)]
      BY Zenon, <3>3, <2>2, <2>3
    <3> QED BY Zenon, <3>1, <3>4, <1>2 DEF NamesInv
  <2>10. (Consecutive(Unread, lo, Published) /\ DeliveredUpTo(lo))'
    BY Zenon, <1>1, <1>3, <1>4 DEF DeliveredUpTo
  <2> QED BY Zenon, <2>8, <2>9, <2>10, <1>3 DEF Implements, NamesInv, Queue!Next
<1> QED BY Zenon, <1>6, <1>7, <1>8

\* The record at consumer_pos is the oldest one, and the only one before its
\* end.
LEMMA FirstRecord ==
    ASSUME Inv, cons.pc # "store", NEW r \in live, r.pos = consumer_pos
    PROVE  /\ r \in Unread /\ {s \in live : s.pos >= End(r)} = Unread \ {r}
           /\ \A lo, hi : Consecutive(Unread, lo, hi) => r.rec = lo + 1
<1>1. Unread = live
  <2>1. \A s \in live : s.pos >= consumer_pos
    BY SMTT(30), LiveRecord, Fields DEF Inv
  <2> QED BY ZenonT(30), <2>1 DEF Unread
<1>2. ASSUME NEW s \in live, s # r PROVE s.pos >= End(r)
  <2>1. End(r) <= s.pos \/ End(s) <= r.pos
    BY Zenon, <1>2 DEF Inv, LiveInv
  <2> QED BY <2>1, LiveRecord, Fields DEF Inv, End
<1>3. ~(r.pos >= End(r))
  BY LiveRecord DEF Inv, End
<1>4. ASSUME NEW lo, NEW hi, Consecutive(Unread, lo, hi) PROVE r.rec = lo + 1
  <2>1. /\ lo \in Nat /\ hi \in Nat /\ r.rec \in Nat /\ lo < r.rec
        /\ r.rec <= hi
    BY Zenon, <1>1, <1>4 DEF Consecutive
  <2>2. PICK s \in live : s.rec = lo + 1
    <3>1. lo + 1 \in Nat /\ lo < lo + 1 /\ lo + 1 <= hi
      BY <2>1
    <3> QED BY Zenon, <3>1, <1>1, <1>4 DEF Consecutive
  <2>3. s.rec < r.rec => s.pos < r.pos
    BY Zenon, <1>1, <1>4 DEF Consecutive
  <2>4. ~(s.pos < r.pos)
    BY LiveRecord, Fields DEF Inv
  <2> QED BY <2>1, <2>2, <2>3, <2>4
<1>5. {s \in live : s.pos >= End(r)} = live \ {r}
  BY Zenon, <1>2, <1>3
<1> QED BY Zenon, <1>1, <1>4, <1>5

\* What fetch_data delivers when it passes the record r.
Deliver(r, old, new) ==
    \/ Status(r, data) = "dropped" /\ new = old
    \/ /\ Status(r, data) = "ready"
       /\ \E x \in Sample : x.rec = r.rec /\ new = Append(old, x)

\* The names of the samples, after one more.
RecsOf(s) == [i \in DOMAIN s |-> s[i].rec]

\* The records of the samples delivered, with one more.
LEMMA RecsAppend ==
    ASSUME NEW s \in Seq(Sample), NEW x \in Sample
    PROVE  RecsOf(Append(s, x)) = Append(RecsOf(s), x.rec)
<1>a. Len(s) \in Nat /\ DOMAIN s = 1 .. Len(s)
  OBVIOUS
<1>1. PICK n \in Nat : Len(s) = n /\ DOMAIN s = 1 .. n
  BY Zenon, <1>a
<1>b. PICK t : t = Append(s, x)
  BY Zenon
<1>2. t \in Seq(Sample) /\ Len(t) = n + 1
  BY <1>1, <1>b
<1>c. DOMAIN t = 1 .. (n + 1)
  BY <1>2
<1>3. t[n + 1] = x /\ \A i \in 1 .. n : t[i] = s[i]
  <2>1. Len(s) = n
    BY Zenon, <1>1
  <2>2. t[n + 1] = x
    BY <2>1, <1>b
  <2>3. \A i \in 1 .. n : t[i] = s[i]
    BY <2>1, <1>b
  <2> QED BY Zenon, <2>2, <2>3
<1>4. x.rec \in Nat /\ \A i \in 1 .. n : s[i].rec \in Nat
  <2>1. \A i \in 1 .. n : s[i] \in Sample
    BY <1>1
  <2> QED BY Zenon, <2>1 DEF Sample
<1>5. PICK a : a = RecsOf(s)
  BY Zenon
<1>6. a \in Seq(Nat) /\ Len(a) = n /\ \A i \in 1 .. n : a[i] = s[i].rec
  BY <1>1, <1>4, <1>5 DEF RecsOf
<1>7. PICK b : b = RecsOf(t)
  BY Zenon
<1>8. /\ b \in Seq(Nat) /\ Len(b) = n + 1
      /\ b[n + 1] = x.rec /\ \A i \in 1 .. n : b[i] = s[i].rec
  <2>1. \A i \in 1 .. (n + 1) : t[i].rec \in Nat
    <3>1. \A i \in 1 .. (n + 1) : t[i] \in Sample
      BY <1>2
    <3> QED BY Zenon, <3>1 DEF Sample
  <2>2. b = [i \in 1 .. (n + 1) |-> t[i].rec]
    BY Zenon, <1>7, <1>c DEF RecsOf
  <2>3. n + 1 \in 1 .. (n + 1) /\ \A i \in 1 .. n : i \in 1 .. (n + 1)
    OBVIOUS
  <2>4. b[n + 1] = x.rec /\ \A i \in 1 .. n : b[i] = s[i].rec
    BY Zenon, <2>2, <2>3, <1>3
  <2>5. b \in Seq(Nat) /\ Len(b) = n + 1
    BY <2>1, <2>2
  <2> QED BY Zenon, <2>4, <2>5
<1>9. b = Append(a, x.rec)
  <2>1. PICK v \in Nat : v = x.rec
    BY Zenon, <1>4
  <2>2. b[n + 1] = v /\ \A i \in 1 .. n : b[i] = a[i]
    BY Zenon, <2>1, <1>6, <1>8
  <2>3. PICK c : c = Append(a, v)
    BY Zenon
  <2>4. /\ c \in Seq(Nat) /\ Len(c) = n + 1 /\ c[n + 1] = v
        /\ \A i \in 1 .. n : c[i] = a[i]
    BY <2>3, <1>6
  <2>5. \A i \in 1 .. (n + 1) : b[i] = c[i]
    <3>1. \A i \in 1 .. (n + 1) : i \in 1 .. n \/ i = n + 1
      OBVIOUS
    <3> QED BY Zenon, <3>1, <2>2, <2>4
  <2>6. b = c
    BY <2>4, <2>5, <1>8
  <2> QED BY Zenon, <2>1, <2>3, <2>6
<1> QED BY Zenon, <1>b, <1>5, <1>7, <1>9

\* Passing the record at consumer_pos takes it from the queue.
LEMMA TakeStep ==
    ASSUME Inv, NamesInv, cons.pc # "store", NEW r \in live,
           r.pos = consumer_pos, Deliver(r, delivered, delivered'),
           data' = data, Unread' = Unread \ {r}, Published' = Published
    PROVE  /\ (\E lo \in Nat :
                 Consecutive(Unread, lo, Published) /\ DeliveredUpTo(lo))'
           /\ Queue!Take
<1>1. PICK lo \in Nat :
         /\ Consecutive(Unread, lo, Published) /\ DeliveredUpTo(lo)
         /\ Published \in Nat /\ Published <= MaxRecords
  BY Zenon, UnreadNames
<1>2. PICK S, d, hi : S = Unread /\ d = data /\ hi = Published
  BY Zenon
<1>3. r \in S /\ r.rec = lo + 1 /\ r.rec \in Nat
  BY Zenon, <1>1, <1>2, FirstRecord, Fields DEF Inv
<1>4. Consecutive(S \ {r}, lo + 1, hi)
  BY Zenon, <1>1, <1>2, <1>3, TakeRecord
<1>5. /\ QueueOf(S, d) # <<>> /\ Head(QueueOf(S, d)) = Item(r, d)
      /\ QueueOf(S \ {r}, d) = Tail(QueueOf(S, d))
  <2>1. Taken(QueueOf(S, d), QueueOf(S \ {r}, d), Item(r, d))
    BY Zenon, <1>1, <1>2, <1>3, TakeQueue
  <2> QED BY Zenon, <2>1 DEF Taken
<1>6. PICK old, new : old = delivered /\ new = delivered'
  BY Zenon
<1>7. /\ old \in Seq(Sample)
      /\ \A i \in DOMAIN old : old[i].rec <= lo /\ old[i].rec \in Nat
  <2>1. old \in Seq(Sample)
    BY Zenon, <1>6 DEF Inv, TypeOK
  <2>2. \A i \in DOMAIN old : old[i] \in Sample
    BY <2>1
  <2> QED BY Zenon, <2>1, <2>2, <1>1, <1>6 DEF DeliveredUpTo, Sample
<1>8. /\ \A i \in DOMAIN new : new[i].rec <= lo + 1
      /\ \/ Status(r, d) = "dropped" /\ RecsOf(new) = RecsOf(old)
         \/ Status(r, d) = "ready" /\ RecsOf(new) = Append(RecsOf(old), r.rec)
  <2>1. CASE Status(r, d) = "dropped" /\ new = old
    <3>1. \A i \in DOMAIN new : new[i].rec <= lo + 1
      BY <2>1, <1>1, <1>7
    <3> QED BY Zenon, <3>1, <2>1
  <2>2. ASSUME Status(r, d) = "ready", NEW x \in Sample, x.rec = r.rec,
               new = Append(old, x)
        PROVE  /\ \A i \in DOMAIN new : new[i].rec <= lo + 1
               /\ RecsOf(new) = Append(RecsOf(old), r.rec)
    <3>1. RecsOf(new) = Append(RecsOf(old), r.rec)
      BY ZenonT(30), <2>2, <1>7, RecsAppend
    <3>2. ASSUME NEW i \in DOMAIN new PROVE new[i].rec <= lo + 1
      <4>1. (i \in DOMAIN old /\ new[i] = old[i]) \/ new[i] = x
        BY <2>2, <1>7
      <4> QED BY SMTT(30), <4>1, <2>2, <1>1, <1>3, <1>7
    <3> QED BY Zenon, <3>1, <3>2
  <2> QED BY Zenon, <2>1, <2>2, <1>2, <1>6 DEF Deliver
<1>9. (Consecutive(Unread, lo + 1, Published) /\ DeliveredUpTo(lo + 1))'
  BY Zenon, <1>2, <1>4, <1>6, <1>8 DEF DeliveredUpTo
<1>10. lo + 1 \in Nat
  BY <1>1
<1>11. Queue!Take
  <2>1. QueueOf(Unread, data)' = QueueOf(S \ {r}, d)
    BY ZenonT(30), <1>2
  <2>2. Head(QueueOf(S, d)).st = Status(r, d) /\ Head(QueueOf(S, d)).rec = r.rec
    BY SMTT(30), <1>5 DEF Item
  <2>3. /\ "dropped" # "busy" /\ "ready" # "busy" /\ "dropped" # "ready"
        /\ Status(r, d) # "busy"
        /\ RecsOf(new) = IF Status(r, d) = "ready"
                           THEN Append(RecsOf(old), r.rec) ELSE RecsOf(old)
    BY <1>8
  <2> QED BY ZenonT(30), <2>1, <2>2, <2>3, <1>2, <1>5, <1>6
             DEF Queue!Take, RecsOf
<1> QED BY Zenon, <1>9, <1>10, <1>11

\* The consumer gives no names.
LEMMA ConsumerNames ==
    ASSUME NamesInv, UNCHANGED <<prod, nrec>>
    PROVE  /\ nrec' <= MaxRecords /\ Published' = Published
           /\ \A q \in Producers : LocalOk(prod'[q], nrec')
<1>1. prod' = prod /\ nrec' = nrec
  BY Zenon
<1> QED BY Zenon, <1>1 DEF NamesInv, Published

\* A consumer's step that leaves the set of unread records alone.
LEMMA ConsumerQuiet ==
    ASSUME Inv, NamesInv, UNCHANGED <<prod, nrec, data, delivered>>,
           Unread' = Unread,
           cons'.pc = "call" => ~data'[Offset(cons'.at)].discard
    PROVE  Implements
<1>1. /\ data' = data /\ delivered' = delivered
      /\ nrec' <= MaxRecords /\ Published' = Published
      /\ \A q \in Producers : LocalOk(prod'[q], nrec')
  BY Zenon, ConsumerNames
<1>2. \A r \in Unread : Status(r, data') = Status(r, data)
  BY Zenon, <1>1
<1> QED BY Zenon, <1>1, <1>2, QuietStep DEF Implements, NamesInv

\* fetch_data is called, and loads the positions.
LEMMA LoadImplements ==
    ASSUME Inv, NamesInv, FetchBegin \/ FetchOuter
    PROVE  Implements
<1>1. UNCHANGED <<consumer_pos, live, prod, nrec, data, delivered>>
  BY Zenon DEF FetchBegin, FetchOuter
<1>2. cons.pc # "store" /\ cons'.pc \in {"outer", "inner"}
  <2>1. cons \in ConsumerLocals
    BY Zenon DEF Inv, TypeOK
  <2>2. ASSUME FetchBegin PROVE cons.pc = "idle" /\ cons'.pc = "outer"
    BY <2>2 DEF FetchBegin, IdleConsumer
  <2>3. ASSUME FetchOuter PROVE cons.pc = "outer" /\ cons'.pc = "inner"
    BY <2>1, <2>3 DEF FetchOuter, ConsumerLocals
  <2> QED BY <2>2, <2>3
<1>3. cons'.pc # "store" /\ cons'.pc # "call"
  BY <1>2
<1>4. Unread' = Unread
  BY Zenon, <1>1, <1>2, <1>3 DEF Unread
<1> QED BY Zenon, <1>1, <1>3, <1>4, ConsumerQuiet

\* fetch_data looks at the record at its position.
LEMMA InnerImplements ==
    ASSUME Inv, NamesInv, Inv', FetchInner
    PROVE  Implements
<1>1. /\ UNCHANGED <<consumer_pos, live, prod, nrec, data, delivered>>
      /\ cons.pc = "inner" /\ cons.pc # "store" /\ cons \in ConsumerLocals
      /\ cons.cpos = consumer_pos
  <2>1. cons.pc = "inner"
    BY Zenon DEF FetchInner
  <2>2. cons.pc # "store"
    BY <2>1
  <2> QED BY Zenon, <2>1, <2>2 DEF FetchInner, Inv, ConsumerInv, TypeOK
<1>2. PICK hdr : hdr = data[Offset(consumer_pos)]
  BY Zenon
<1>3. \/ cons'.pc \in {"idle", "outer"}
      \/ cons'.pc = "call" /\ ~hdr.discard
      \/ cons'.pc = "store" /\ hdr.discard
  <2>1. \/ cons' = IdleConsumer
        \/ cons' = [cons EXCEPT !.pc = "outer"]
        \/ cons' = [cons EXCEPT !.pc = IF hdr.discard THEN "store" ELSE "call",
                        !.got = TRUE, !.at = cons.cpos,
                        !.cpos = cons.cpos + roundup_len(hdr.len)]
    BY Zenon, <1>1, <1>2 DEF FetchInner
  <2>2. CASE cons' = IdleConsumer
    BY <2>2 DEF IdleConsumer
  <2>3. CASE cons' = [cons EXCEPT !.pc = "outer"]
    BY <2>3, <1>1 DEF ConsumerLocals
  <2>4. CASE cons' = [cons EXCEPT
                        !.pc = IF hdr.discard THEN "store" ELSE "call",
                        !.got = TRUE, !.at = cons.cpos,
                        !.cpos = cons.cpos + roundup_len(hdr.len)]
    <3>1. cons'.pc = IF hdr.discard THEN "store" ELSE "call"
      BY <2>4, <1>1 DEF ConsumerLocals
    <3> QED BY Zenon, <3>1
  <2> QED BY Zenon, <2>1, <2>2, <2>3, <2>4
<1>4. CASE cons'.pc # "store"
  <2>1. Unread' = Unread
    BY Zenon, <1>1, <1>4 DEF Unread
  <2>2. ASSUME cons'.pc = "call" PROVE ~data'[Offset(cons'.at)].discard
    <3>1. cons'.at = consumer_pos'
      BY Zenon, <2>2 DEF Inv, ConsumerInv
    <3>2. ~hdr.discard
      BY <2>2, <1>3
    <3> QED BY Zenon, <3>1, <3>2, <1>1, <1>2
  <2> QED BY Zenon, <2>1, <2>2, <1>1, ConsumerQuiet
<1>5. CASE cons'.pc = "store"
  <2>1. PICK r \in live : r.pos = consumer_pos /\ cons'.cpos = End(r)
    <3>1. cons'.at = consumer_pos' /\ \E r \in live' :
             r.pos = cons'.at /\ cons'.cpos = End(r)
      BY Zenon, <1>5 DEF Inv, ConsumerInv, End
    <3> QED BY Zenon, <3>1, <1>1
  <2>2. ~hdr.busy /\ hdr.discard
    <3>1. cons'.at = consumer_pos' /\ ~data'[Offset(cons'.at)].busy
      BY Zenon, <1>5 DEF Inv, ConsumerInv
    <3>2. hdr.discard
      BY <1>3, <1>5
    <3> QED BY Zenon, <3>1, <3>2, <1>1, <1>2
  <2>3. Status(r, data) = "dropped"
    BY Zenon, <2>1, <2>2, <1>2 DEF Status
  <2>4. Unread' = Unread \ {r}
    <3>1. Unread' = {s \in live : s.pos >= End(r)}
      BY Zenon, <2>1, <1>1, <1>5 DEF Unread
    <3> QED BY Zenon, <3>1, <2>1, <1>1, FirstRecord
  <2>5. /\ nrec' <= MaxRecords /\ Published' = Published
        /\ \A q \in Producers : LocalOk(prod'[q], nrec')
    BY Zenon, <1>1, ConsumerNames
  <2>6. Deliver(r, delivered, delivered')
    BY Zenon, <2>3, <1>1 DEF Deliver
  <2>7. /\ Queue!Take
        /\ (\E lo \in Nat :
              Consecutive(Unread, lo, Published) /\ DeliveredUpTo(lo))'
    BY Zenon, <2>1, <2>4, <2>5, <2>6, <1>1, TakeStep
  <2>8. cons'.pc # "call"
    BY SMTT(30), <1>5
  <2> QED BY Zenon, <2>5, <2>7, <2>8 DEF Implements, NamesInv, Queue!Next
<1> QED BY Zenon, <1>4, <1>5

\* The callback is given the record.
LEMMA CallImplements ==
    ASSUME Inv, NamesInv, Inv', FetchCall
    PROVE  Implements
<1>1. /\ UNCHANGED <<consumer_pos, live, prod, nrec, data>>
      /\ cons.pc = "call" /\ cons.pc # "store" /\ cons.at = consumer_pos
  <2>1. cons.pc = "call"
    BY Zenon DEF FetchCall
  <2>2. cons.pc # "store"
    BY <2>1
  <2> QED BY Zenon, <2>1, <2>2 DEF FetchCall, Inv, ConsumerInv
<1>2. cons'.pc = "store" /\ cons'.cpos = cons.cpos
  <2>1. cons \in ConsumerLocals
    BY Zenon DEF Inv, TypeOK
  <2>2. PICK err \in BOOLEAN :
          cons' = [cons EXCEPT !.pc = "store", !.stop = err]
    BY Zenon DEF FetchCall
  <2> QED BY <2>1, <2>2 DEF ConsumerLocals
<1>3. PICK r \in live : r.pos = consumer_pos /\ cons.cpos = End(r)
  BY Zenon, <1>1, PassedRecord
<1>4. Status(r, data) = "ready"
  <2>1. ~data[Offset(r.pos)].busy /\ ~data[Offset(r.pos)].discard
    BY Zenon, <1>1, <1>3 DEF Inv, ConsumerInv, NamesInv
  <2> QED BY Zenon, <2>1 DEF Status
<1>5. PICK x : x.rec = r.rec /\ delivered' = Append(delivered, x)
  <2>1. PICK h, f : /\ h = Offset(cons.at)
                    /\ f = {data[w].rec : w \in PayloadArea(h + 1, data[h].len)}
    BY Zenon
  <2>2. PICK d, x : d = data[h].rec /\ x = [rec |-> d, from |-> f]
    BY Zenon
  <2>3. delivered' = Append(delivered, x)
    BY Zenon, <2>1, <2>2 DEF FetchCall
  <2>4. x.rec = r.rec
    <3>1. data[h].rec = r.rec
      BY ZenonT(30), <2>1, <1>1, <1>3 DEF Inv, HeadersIntact
    <3>2. x.rec = d
      BY <2>2
    <3> QED BY Zenon, <3>1, <3>2, <2>2
  <2> QED BY Zenon, <2>3, <2>4
<1>6. x \in Sample
  <2>1. PICK s, t : s = delivered /\ t = delivered'
    BY Zenon
  <2>2. s \in Seq(Sample) /\ t \in Seq(Sample) /\ t = Append(s, x)
    BY Zenon, <2>1, <1>5 DEF Inv, TypeOK
  <2>3. Len(t) = Len(s) + 1 /\ t[Len(s) + 1] = x
    BY <2>2
  <2> QED BY <2>2, <2>3
<1>7. Deliver(r, delivered, delivered')
  BY Zenon, <1>4, <1>5, <1>6 DEF Deliver
<1>8. Unread' = Unread \ {r}
  <2>1. Unread' = {s \in live : s.pos >= End(r)}
    BY Zenon, <1>1, <1>2, <1>3 DEF Unread
  <2> QED BY Zenon, <2>1, <1>1, <1>3, FirstRecord
<1>9. /\ nrec' <= MaxRecords /\ Published' = Published
      /\ \A q \in Producers : LocalOk(prod'[q], nrec')
  BY Zenon, <1>1, ConsumerNames
<1>10. /\ Queue!Take
       /\ (\E lo \in Nat :
             Consecutive(Unread, lo, Published) /\ DeliveredUpTo(lo))'
  BY ZenonT(30), <1>1, <1>3, <1>7, <1>8, <1>9, TakeStep
<1>11. cons'.pc # "call"
  BY <1>2
<1> QED BY Zenon, <1>9, <1>10, <1>11 DEF Implements, NamesInv, Queue!Next

\* Storing consumer_pos releases what the queue no longer holds.
LEMMA StoreImplements ==
    ASSUME Inv, NamesInv, FetchStore
    PROVE  Implements
<1>1. /\ UNCHANGED <<prod, nrec, data, delivered>> /\ cons.pc = "store"
      /\ consumer_pos' = cons.cpos /\ live' = {r \in live : r.pos >= cons.cpos}
  BY Zenon DEF FetchStore
<1>2. cons'.pc # "store" /\ cons'.pc # "call"
  <2>1. cons \in ConsumerLocals
    BY Zenon DEF Inv, TypeOK
  <2>2. cons' = IdleConsumer \/ cons' = [cons EXCEPT !.pc = "inner"]
    BY Zenon DEF FetchStore
  <2>3. CASE cons' = IdleConsumer
    BY <2>3 DEF IdleConsumer
  <2>4. CASE cons' = [cons EXCEPT !.pc = "inner"]
    BY <2>1, <2>4 DEF ConsumerLocals
  <2> QED BY Zenon, <2>2, <2>3, <2>4
<1>3. Unread' = Unread
  BY Zenon, <1>1, <1>2 DEF Unread
<1> QED BY Zenon, <1>1, <1>2, <1>3, ConsumerQuiet

----------------------------------------------------------------------------
(* The theorem *)

\* The empty ring is the empty queue.
LEMMA InitImplements == Init => NamesInv /\ Queue!Init
<1> SUFFICES ASSUME Init PROVE NamesInv /\ Queue!Init
  BY Zenon
<1>1. /\ live = {} /\ nrec = 0 /\ delivered = <<>> /\ Unread = {}
      /\ \A p \in Producers : prod[p] = IdleProducer
  BY ZenonT(30) DEF Init, Unread
<1>2. IdleProducer.pc = "idle" /\ cons.pc = "idle"
  BY DEF IdleProducer, IdleConsumer, Init
<1>3. Published = 0
  BY <1>1, <1>2 DEF Published, Naming
<1>4. Consecutive(Unread, 0, Published) /\ DeliveredUpTo(0)
  BY <1>1, <1>3 DEF Consecutive, DeliveredUpTo
<1>5. NamesInv
  <2>1. nrec <= MaxRecords /\ \A p \in Producers : LocalOk(prod[p], nrec)
    BY <1>1, <1>2, MaxRecordsAssumption DEF LocalOk, Naming
  <2>2. cons.pc # "call" /\ 0 \in Nat
    BY <1>2
  <2> QED BY Zenon, <1>4, <2>1, <2>2 DEF NamesInv
<1>6. QueueOf(Unread, data) = <<>>
  <2>1. PICK q, d : q = QueueOf({}, d) /\ d = data
    BY Zenon
  <2>2. Consecutive({}, 0, 0) /\ 0 <= MaxRecords
    BY SMTT(30), <1>1, <1>3, <1>4, MaxRecordsAssumption
  <2>3. Queued(q, {}, d, 0, 0)
    BY Zenon, <2>1, <2>2, QueueSeq
  <2>4. q \in Seq(Items) /\ Len(q) = 0
    BY <2>3 DEF Queued
  <2>5. q = <<>>
    BY <2>4
  <2> QED BY Zenon, <2>1, <2>5, <1>1
<1>7. [i \in DOMAIN delivered |-> delivered[i].rec] = <<>>
  BY <1>1
<1> QED BY Zenon, <1>5, <1>6, <1>7 DEF Queue!Init

\* Every step of the ring is a step of the queue or leaves it alone.
LEMMA StepImplements ==
    ASSUME SingleProducer
    PROVE  Inv /\ NamesInv /\ [Next]_vars => Implements
<1> SUFFICES ASSUME Inv, NamesInv, [Next]_vars PROVE Implements
  BY Zenon
<1>1. Inv'
  BY Zenon, InvStep
<1>2. ASSUME NEW p \in Producers, Produce(p) PROVE Implements
  BY Zenon, <1>2, ProducerQuiet, PublishImplements, SubmitImplements
<1>3. CASE Consume
  BY Zenon, <1>1, <1>3, LoadImplements, InnerImplements, CallImplements,
     StoreImplements DEF Consume
<1>4. CASE UNCHANGED vars
  <2>1. UNCHANGED <<consumer_pos, live, cons, prod, nrec, data, delivered>>
    BY Zenon, <1>4 DEF vars
  <2>2. Unread' = Unread
    BY Zenon, <2>1 DEF Unread
  <2>3. cons'.pc = "call" => ~data'[Offset(cons'.at)].discard
    BY Zenon, <2>1 DEF NamesInv
  <2> QED BY Zenon, <2>1, <2>2, <2>3, ConsumerQuiet
<1> QED BY Zenon, <1>2, <1>3, <1>4 DEF Next

\* With one producer, ringbuf::reserve, submit and fetch_data implement the
\* first-in first-out queue of records, for every size of ring and of record.
THEOREM RingIsQueue ==
    ASSUME SingleProducer
    PROVE  Spec => IsQueue
<1>1. Inv /\ NamesInv /\ [Next]_vars
        => NamesInv' /\ [Queue!Next]_(Queue!vars)
  BY Zenon, StepImplements DEF Implements
<1> QED BY <1>1, InitImplements, Invariance, PTL DEF Spec, IsQueue, Queue!Spec
=============================================================================
