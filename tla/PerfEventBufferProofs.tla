----------------------- MODULE PerfEventBufferProofs -----------------------
(***************************************************************************)
(* Proofs about PerfEventBuffer, for every ring size, header size and set  *)
(* of payload sizes.  Type correctness holds for any number of writers.    *)
(* With one writer the unread bytes never fill the ring, and the loader    *)
(* gets exactly the records published, whole and in order.                 *)
(*                                                                         *)
(* The inductive invariant says that the published records tile the        *)
(* positions: record k runs from pos[k] to pos[k + 1], the next one to be  *)
(* read starts at the reader's tail, the last one ends at data_head, and   *)
(* every record not yet read lies whole in the ring.                       *)
(***************************************************************************)
EXTENDS PerfEventBuffer, TLAPS

\* The first byte the loader has not read yet.
ReadTail == IF reader.pc = "walk" THEN reader.tail ELSE data_tail

\* The n bytes of record r lie in the ring from position p on.
RecordAt(p, n, r) ==
    \A i \in 0..(n - 1) :
       data[Slot(p + i)] = [rec |-> r, size |-> n, off |-> i]

\* What a writer holds: its data_head is current, the room it found is still
\* there, the staging buffer is its own, and its record is in the ring.
WriterInvOf(l) ==
    /\ l.pc # "idle" => /\ l.head = data_head /\ l.size \in Totals
                        /\ l.rec \in 1..MaxRecords
    /\ l.pc \in {"room", "staged", "copied"} =>
          l.head + l.size < data_tail + DataSize
    /\ l.pc \in {"staged", "copied"} =>
          copy_buffer = [rec |-> l.rec, size |-> l.size]
    /\ l.pc = "copied" => RecordAt(l.head, l.size, l.rec)

WriterInv == \A w \in Writers : WriterInvOf(writer[w])

TailInv == data_tail <= ReadTail /\ ReadTail <= data_head

\* pos holds the first byte of every published record, and the end.
Tiles(pos) ==
    /\ pos[Len(got) + 1] = ReadTail
    /\ pos[Len(sent) + 1] = data_head
    /\ \A j, k \in 1..(Len(sent) + 1) : j < k => pos[j] < pos[k]
    /\ \A k \in (Len(got) + 1)..Len(sent) :
          /\ pos[k + 1] - pos[k] \in Totals
          /\ RecordAt(pos[k], pos[k + 1] - pos[k], sent[k])
    /\ reader.pc = "walk" =>
          \E j \in (Len(got) + 1)..(Len(sent) + 1) : reader.head = pos[j]

Tiled == \E pos \in [1..(Len(sent) + 1) -> 0..data_head] : Tiles(pos)

Inv ==
    /\ TypeOK /\ TailInv /\ NeverFull /\ WriterInv /\ DeliveredInOrder
    /\ Tiled

----------------------------------------------------------------------------
(* Positions and the bytes they fall on *)

\* A record has at least its header.
LEMMA TotalsPositive == \A n \in Totals : n \in Nat /\ n > 0
BY HeaderSizeAssumption, SizesAssumption DEF Totals

\* A remainder below the divisor is the modulus, of negative numbers too.
LEMMA ModUnique ==
    ASSUME NEW x \in Int, NEW m \in Int, NEW r \in 0..(DataSize - 1),
           x = DataSize * m + r
    PROVE  x % DataSize = r
<1>1. PICK d \in Nat \ {0} : d = DataSize
  BY DataSizeAssumption
<1>2. x = d * (x \div d) + (x % d) /\ x % d \in 0..(d - 1) /\ x \div d \in Int
  BY <1>1
<1>3. PICK q \in Int : q = x \div d
  BY <1>2
<1>4. PICK y \in 0..(d - 1) : y = x % d
  BY <1>2
<1>5. d * q + y = d * m + r
  BY <1>1, <1>2, <1>3, <1>4
<1>6. q = m
  <2>1. d * (q - m) = r - y
    BY <1>1, <1>5
  <2>2. CASE q - m >= 1
    <3>1. d * (q - m) >= d
      BY <2>2
    <3> QED BY <3>1, <2>1, <1>1
  <2>3. CASE q - m <= -1
    <3>1. d * (q - m) <= -d
      BY <2>3
    <3> QED BY <3>1, <2>1, <1>1
  <2> QED BY <2>2, <2>3
<1> QED BY <1>1, <1>4, <1>5, <1>6

\* Slot maps a position to a byte of the ring.
LEMMA SlotRange ==
    ASSUME NEW p \in Nat
    PROVE  /\ Slot(p) \in 0..(DataSize - 1) /\ p \div DataSize \in Int
           /\ p = DataSize * (p \div DataSize) + Slot(p)
BY DataSizeAssumption DEF Slot

\* The distance of two bytes, as the copy computes it, is the distance of
\* their positions, or what is left of the ring when the first one is behind.
LEMMA SlotDistance ==
    ASSUME NEW q \in Nat, NEW h \in Nat, NEW k \in 0..(DataSize - 1),
           q = h + k \/ q + DataSize = h + k
    PROVE  (Slot(q) - Slot(h)) % DataSize = k
<1>1. PICK d \in Nat \ {0} : d = DataSize
  BY DataSizeAssumption
<1>2. PICK a \in Int, s \in 0..(d - 1) : s = Slot(q) /\ q = d * a + s
  BY Zenon, <1>1, SlotRange
<1>3. PICK b \in Int, t \in 0..(d - 1) : t = Slot(h) /\ h = d * b + t
  BY Zenon, <1>1, SlotRange
<1>4. PICK m \in Int : s - t = d * m + k
  <2>1. CASE q = h + k
    <3>1. d * (b - a) = d * b - d * a
      BY <1>1
    <3>2. s - t = d * (b - a) + k
      BY <2>1, <3>1, <1>2, <1>3
    <3> QED BY <3>2
  <2>2. CASE q + DataSize = h + k
    <3>1. d * (b - a - 1) = d * b - d * a - d
      BY <1>1
    <3>2. s - t = d * (b - a - 1) + k
      BY <2>2, <3>1, <1>1, <1>2, <1>3
    <3> QED BY <3>2
  <2> QED BY <2>1, <2>2
<1>5. s - t \in Int
  BY <1>2, <1>3
<1>6. (s - t) % DataSize = k
  BY <1>1, <1>4, <1>5, ModUnique
<1> QED BY <1>2, <1>3, <1>6

\* The copy puts byte i of the staged record at position h + i ...
LEMMA CopyWrites ==
    ASSUME NEW h \in Nat, NEW n \in Nat, n < DataSize, NEW i \in 0..(n - 1)
    PROVE  CopiedTo(h, n)[Slot(h + i)] =
             [rec |-> copy_buffer.rec, size |-> copy_buffer.size, off |-> i]
<1>1. h + i \in Nat /\ i \in 0..(DataSize - 1)
  BY DataSizeAssumption
<1>2. (Slot(h + i) - Slot(h)) % DataSize = i
  BY <1>1, SlotDistance
<1>3. Slot(h + i) \in 0..(DataSize - 1)
  BY <1>1, SlotRange
<1> QED BY <1>2, <1>3 DEF CopiedTo

\* ... and leaves a byte before h alone, unless the record reaches round it.
LEMMA CopyLeaves ==
    ASSUME NEW h \in Nat, NEW n \in Nat, NEW q \in Nat, q < h,
           h + n <= q + DataSize
    PROVE  CopiedTo(h, n)[Slot(q)] = data[Slot(q)]
<1>1. PICK k \in Int : k = q + DataSize - h
  BY DataSizeAssumption
<1>2. k \in 0..(DataSize - 1) /\ ~(k < n) /\ q + DataSize = h + k
  BY <1>1, DataSizeAssumption
<1>3. (Slot(q) - Slot(h)) % DataSize = k
  BY <1>2, SlotDistance
<1>4. Slot(q) \in 0..(DataSize - 1)
  BY SlotRange
<1> QED BY <1>2, <1>3, <1>4 DEF CopiedTo

----------------------------------------------------------------------------
(* Type correctness, for any number of writers *)

\* A call under way has a record; TypeOK alone does not say so.
TypeInv ==
    TypeOK /\ \A w \in Writers : writer[w].pc # "idle" => writer[w].rec # 0

\* Record 0 is a record name, for a writer that is idle.
LEMMA IdleType == Idle \in Local
BY MaxRecordsAssumption DEF Idle, Records, Local

\* What a change of one writer's locals has to show.
LEMMA LocalsChange ==
    ASSUME TypeInv, NEW w \in Writers, NEW l \in Local,
           l.pc # "idle" => l.rec # 0, writer' = [writer EXCEPT ![w] = l]
    PROVE  /\ writer' \in [Writers -> Local]
           /\ \A u \in Writers : writer'[u].pc # "idle" => writer'[u].rec # 0
<1>1. writer \in [Writers -> Local]
  BY Zenon DEF TypeInv, TypeOK
<1>2. ASSUME NEW u \in Writers
      PROVE  writer'[u] = l \/ writer'[u] = writer[u]
  BY <1>1
<1>3. writer' \in [Writers -> Local]
  BY <1>1
<1> QED BY Zenon, <1>2, <1>3 DEF TypeInv

\* The fields of a writer's locals.
LEMMA LocalFields ==
    ASSUME TypeOK, NEW w \in Writers
    PROVE  /\ writer[w] \in Local /\ writer[w].rec \in Records
           /\ writer[w].size \in Totals \cup {0} /\ writer[w].head \in Nat
<1>1. writer \in [Writers -> Local]
  BY Zenon DEF TypeOK
<1> QED BY <1>1 DEF Local

\* A change of pc alone leaves the other locals.
LEMMA Locals ==
    ASSUME TypeOK, NEW w \in Writers,
           NEW c \in {"idle", "loaded", "room", "staged", "copied"},
           NEW m, m = [writer[w] EXCEPT !.pc = c]
    PROVE  /\ m.pc = c /\ m.head = writer[w].head /\ m.size = writer[w].size
           /\ m.rec = writer[w].rec /\ m \in Local /\ writer[w].rec \in Records
           /\ writer[w].head \in Nat /\ writer[w].size \in Nat
<1> QED BY LocalFields, TotalsPositive DEF Local

\* Every operation keeps the types.
LEMMA TypeStep == TypeInv /\ [Next]_vars => TypeInv'
<1> SUFFICES ASSUME TypeInv, [Next]_vars PROVE TypeInv'
  OBVIOUS
<1>0. /\ TypeOK /\ data_head \in Nat /\ nrec \in Records
      /\ writer \in [Writers -> Local]
      /\ sent \in Seq(1..MaxRecords) /\ got \in Seq(Records)
      /\ data_tail \in Nat /\ data \in [0..(DataSize - 1) -> Byte]
      /\ reader \in [pc : {"poll", "walk"}, head : Nat, tail : Nat]
  BY Zenon DEF TypeInv, TypeOK
<1>1. CASE ensure_mmap_buffer
  <2>1. mmap_size' \in {0, DataSize}
    BY <1>1 DEF ensure_mmap_buffer
  <2> QED BY Zenon, <1>1, <2>1 DEF TypeInv, TypeOK, ensure_mmap_buffer
<1>2. ASSUME NEW w \in Writers, NEW n \in Sizes, LoadHead(w, n)
      PROVE  TypeInv'
  <2>1. PICK l : l = [pc |-> "loaded", rec |-> nrec + 1,
                      size |-> HeaderSize + n, head |-> data_head]
    BY Zenon
  <2>2. nrec + 1 \in Records /\ nrec + 1 # 0
    BY <1>0, <1>2, MaxRecordsAssumption DEF LoadHead, Records
  <2>3. l \in Local /\ l.rec # 0
    BY <2>1, <2>2, <1>0 DEF Local, Totals
  <2>4. writer' = [writer EXCEPT ![w] = l] /\ nrec' \in Records
    BY Zenon, <1>2, <2>1, <2>2 DEF LoadHead
  <2> QED BY ZenonT(30), <1>2, <2>3, <2>4, LocalsChange
          DEF TypeInv, TypeOK, LoadHead
<1>3. ASSUME NEW w \in Writers, LoadTail(w) PROVE TypeInv'
  <2>1. PICK m : m = [writer[w] EXCEPT !.pc = "room"]
    BY Zenon
  <2>2. /\ m \in Local /\ m.rec = writer[w].rec /\ Idle \in Local
        /\ Idle.pc = "idle"
    BY <2>1, <1>0, Locals, IdleType DEF Idle
  <2>3. PICK l \in {Idle, m} : writer' = [writer EXCEPT ![w] = l]
    BY Zenon, <1>0, <1>3, <2>1 DEF LoadTail
  <2>4. writer[w].rec # 0
    BY <1>3 DEF TypeInv, LoadTail
  <2>5. l \in Local /\ (l.pc # "idle" => l.rec # 0)
    BY <2>2, <2>3, <2>4
  <2> QED BY Zenon, <1>3, <2>3, <2>5, LocalsChange
          DEF TypeInv, TypeOK, LoadTail, Shared
<1>4. ASSUME NEW w \in Writers, Stage(w) PROVE TypeInv'
  <2>1. PICK m : /\ m = [writer[w] EXCEPT !.pc = "staged"]
                 /\ writer' = [writer EXCEPT ![w] = m]
    BY Zenon, <1>0, <1>4 DEF Stage
  <2>2. m \in Local /\ m.rec = writer[w].rec
    BY <2>1, <1>0, Locals
  <2>3. writer[w].rec # 0
    BY <1>4 DEF TypeInv, Stage
  <2>4. copy_buffer' \in [rec : Records, size : Totals \cup {0}]
    BY <1>0, <1>4 DEF Stage, Local
  <2> QED BY Zenon, <1>4, <2>1, <2>2, <2>3, <2>4, LocalsChange
          DEF TypeInv, TypeOK, Stage
<1>5. ASSUME NEW w \in Writers, Copy(w) PROVE TypeInv'
  <2>1. PICK m : /\ m = [writer[w] EXCEPT !.pc = "copied"]
                 /\ writer' = [writer EXCEPT ![w] = m]
    BY Zenon, <1>0, <1>5 DEF Copy
  <2>2. m \in Local /\ m.rec = writer[w].rec
    BY <2>1, <1>0, Locals
  <2>3. writer[w].rec # 0
    BY <1>5 DEF TypeInv, Copy
  <2>4. PICK h \in Nat, n \in Totals \cup {0} : data' = CopiedTo(h, n)
    BY Zenon, <1>0, <1>5, LocalFields DEF Copy
  <2>5. ASSUME NEW i \in 0..(DataSize - 1) PROVE CopiedTo(h, n)[i] \in Byte
    <3>1. Slot(h) \in Int /\ i \in Int
      BY SlotRange
    <3>2. (i - Slot(h)) % DataSize \in Nat
      BY <3>1, DataSizeAssumption
    <3>3. /\ data \in [0..(DataSize - 1) -> Byte]
          /\ copy_buffer \in [rec : Records, size : Totals \cup {0}]
      BY Zenon, <1>0 DEF TypeOK
    <3> QED BY <3>2, <3>3 DEF CopiedTo, Byte
  <2>6. data' \in [0..(DataSize - 1) -> Byte]
    BY <2>4, <2>5 DEF CopiedTo
  <2> QED BY Zenon, <1>5, <2>1, <2>2, <2>3, <2>6, LocalsChange
          DEF TypeInv, TypeOK, Copy
<1>6. ASSUME NEW w \in Writers, StoreHead(w) PROVE TypeInv'
  <2>1. writer[w].rec \in Records /\ writer[w].rec # 0
    BY <1>0, <1>6, LocalFields DEF TypeInv, StoreHead
  <2>2. writer[w].rec \in 1..MaxRecords
    BY <2>1, MaxRecordsAssumption DEF Records
  <2>3. writer[w].head + writer[w].size \in Nat
    <3>1. /\ writer[w].head \in Nat
          /\ writer[w].size \in Totals \/ writer[w].size = 0
      BY Zenon, <1>0, LocalFields
    <3> QED BY <3>1, TotalsPositive
  <2>4. sent' \in Seq(1..MaxRecords)
    BY <1>0, <1>6, <2>2 DEF StoreHead
  <2>5. data_head' \in Nat
    BY Zenon, <1>6, <2>3 DEF StoreHead
  <2>6. Idle \in Local /\ (Idle.pc # "idle" => Idle.rec # 0)
    BY IdleType DEF Idle
  <2>7. writer' = [writer EXCEPT ![w] = Idle]
    BY Zenon, <1>6 DEF StoreHead
  <2> QED BY Zenon, <1>6, <2>4, <2>5, <2>6, <2>7, LocalsChange
          DEF TypeInv, TypeOK, StoreHead
<1>7. CASE Poll
  <2>1. reader' \in [pc : {"poll", "walk"}, head : Nat, tail : Nat]
    BY <1>0, <1>7 DEF Poll
  <2> QED BY Zenon, <1>7, <2>1 DEF TypeInv, TypeOK, Poll
<1>8. CASE ReadRecord
  <2>1. data[Slot(reader.tail)] \in Byte
    BY <1>0, SlotRange
  <2>2. PICK n \in Totals \cup {0}, r \in Records :
           got' = Append(got, r) /\ reader' = [reader EXCEPT !.tail = @ + n]
    <3> DEFINE f == data[Slot(reader.tail)]
               N == IF f.off = 0 /\ f.rec # 0 THEN {f.size} ELSE Totals
    <3>1. PICK n \in N :
             /\ got' = Append(got, IF Whole(reader.tail, n) THEN f.rec ELSE 0)
             /\ reader' = [reader EXCEPT !.tail = @ + n]
      BY Zenon, <1>8 DEF ReadRecord
    <3>2. f.rec \in Records /\ f.size \in Totals \cup {0} /\ 0 \in Records
      BY <2>1, MaxRecordsAssumption DEF Byte, Records
    <3>3. n \in Totals \cup {0}
      BY <3>2
    <3> HIDE DEF f, N
    <3> QED BY <3>1, <3>2, <3>3
  <2>3. reader.tail + n \in Nat
    BY <1>0, TotalsPositive
  <2>4. reader' \in [pc : {"poll", "walk"}, head : Nat, tail : Nat]
    BY SMTT(30), <1>0, <2>2, <2>3
  <2>5. got' \in Seq(Records)
    BY <1>0, <2>2
  <2> QED BY Zenon, <1>8, <2>4, <2>5 DEF TypeInv, TypeOK, ReadRecord
<1>9. CASE StoreTail
  <2>1. /\ reader' \in [pc : {"poll", "walk"}, head : Nat, tail : Nat]
        /\ data_tail' \in Nat
    BY <1>0, <1>9 DEF StoreTail
  <2> QED BY Zenon, <1>9, <2>1 DEF TypeInv, TypeOK, StoreTail
<1>10. CASE UNCHANGED vars
  BY Zenon, <1>10 DEF TypeInv, TypeOK, vars
<1> QED BY Zenon, <1>1, <1>2, <1>3, <1>4, <1>5, <1>6, <1>7, <1>8, <1>9,
           <1>10 DEF Next

\* The ring starts zeroed and no call is under way.
LEMMA InitType == Init => TypeInv
<1> SUFFICES ASSUME Init PROVE TypeInv
  OBVIOUS
<1>1. Zero \in Byte
  BY MaxRecordsAssumption DEF Zero, Byte, Records
<1>2. 0 \in Records
  BY MaxRecordsAssumption DEF Records
<1> QED BY <1>1, <1>2, IdleType DEF Init, TypeInv, TypeOK, Idle

\* The state has its types whatever the writers and the loader do.
THEOREM PerfEventTypes == Spec => []TypeOK
<1>1. TypeInv => TypeOK
  BY DEF TypeInv
<1> QED BY <1>1, InitType, TypeStep, PTL DEF Spec

----------------------------------------------------------------------------
(* One writer: frames *)

\* A record stays in the ring as long as its bytes do.
LEMMA RecordKept ==
    ASSUME UNCHANGED data, NEW p, NEW n, NEW r
    PROVE  RecordAt(p, n, r) <=> RecordAt(p, n, r)'
BY Zenon DEF RecordAt

\* A step that moves neither end, the reader nor a byte keeps the tiling.
LEMMA TiledKept ==
    ASSUME Tiled, UNCHANGED <<data, data_head, data_tail, reader, sent, got>>
    PROVE  Tiled'
<1>1. PICK pos \in [1..(Len(sent) + 1) -> 0..data_head] : Tiles(pos)
  BY Zenon DEF Tiled
<1>2. Tiles(pos)'
  BY Zenon, <1>1 DEF Tiles, ReadTail, RecordAt
<1> QED BY Zenon, <1>1, <1>2 DEF Tiled

\* The only writer's new locals decide WriterInv.
LEMMA WriterChanges ==
    ASSUME SingleWriter, TypeOK, NEW w \in Writers, NEW l,
           writer' = [writer EXCEPT ![w] = l], WriterInvOf(l)'
    PROVE  WriterInv'
<1>1. ASSUME NEW u \in Writers PROVE writer'[u] = l
  <2>1. writer \in [Writers -> Local] /\ u = w
    BY Zenon DEF SingleWriter, TypeOK
  <2> QED BY <2>1
<1>2. ASSUME NEW u \in Writers PROVE WriterInvOf(writer[u])'
  BY Zenon, <1>1 DEF WriterInvOf, RecordAt
<1> QED BY Zenon, <1>2 DEF WriterInv

\* The loader's steps leave the writers the room they found.
LEMMA WriterKept ==
    ASSUME TypeOK, WriterInv, data_tail' \in Nat, data_tail <= data_tail',
           UNCHANGED <<writer, data, data_head, copy_buffer>>
    PROVE  WriterInv'
<1> SUFFICES ASSUME NEW w \in Writers PROVE WriterInvOf(writer[w])'
  BY Zenon DEF WriterInv
<1>1. PICK l : l = writer[w]
  BY Zenon
<1>2. l.head \in Nat /\ l.size \in Nat
  <2>1. l.head \in Nat /\ (l.size \in Totals \/ l.size = 0)
    BY Zenon, <1>1, LocalFields
  <2> QED BY <2>1, TotalsPositive
<1>3. WriterInvOf(l)
  BY Zenon, <1>1 DEF WriterInv
<1>4. l.head + l.size < data_tail + DataSize
        => l.head + l.size < data_tail' + DataSize
  BY SMTT(30), <1>2, DataSizeAssumption DEF TypeOK
<1>5. WriterInvOf(l)'
  BY Zenon, <1>3, <1>4 DEF WriterInvOf, RecordAt
<1> QED BY Zenon, <1>1, <1>5 DEF WriterInvOf, RecordAt

\* An element of a sequence over S is in S.
LEMMA ElementOf ==
    ASSUME NEW S, NEW s \in Seq(S), NEW i \in 1..Len(s)
    PROVE  s[i] \in S
OBVIOUS

\* What the invariant says of the two ends and the histories.
LEMMA Ends ==
    ASSUME Inv
    PROVE  /\ data_head \in Nat /\ data_tail \in Nat /\ ReadTail \in Nat
           /\ data_tail <= ReadTail /\ ReadTail <= data_head
           /\ data_head < data_tail + DataSize
           /\ Len(sent) \in Nat /\ Len(got) \in Nat /\ Len(got) <= Len(sent)
<1>1. data_head \in Nat /\ data_tail \in Nat /\ ReadTail \in Nat
  BY DEF Inv, TypeOK, ReadTail
<1>2. sent \in Seq(1..MaxRecords) /\ got \in Seq(Records)
  BY Zenon DEF Inv, TypeOK
<1>3. data_tail <= ReadTail /\ ReadTail <= data_head /\ Len(got) <= Len(sent)
      /\ data_head - data_tail < DataSize
  BY Zenon DEF Inv, TailInv, NeverFull, DeliveredInOrder
<1>4. data_head < data_tail + DataSize
  BY <1>1, <1>3, DataSizeAssumption
<1> QED BY <1>1, <1>2, <1>3, <1>4

----------------------------------------------------------------------------
(* One writer: the steps of output_data *)

\* The writer loads data_head, which no other writer moves.
LEMMA LoadHeadStep ==
    ASSUME SingleWriter, Inv, TypeOK', NEW w \in Writers, NEW n \in Sizes,
           LoadHead(w, n)
    PROVE  Inv'
<1>1. PICK l : l = [pc |-> "loaded", rec |-> nrec + 1,
                    size |-> HeaderSize + n, head |-> data_head]
  BY Zenon
<1>2. WriterInvOf(l)'
  <2>1. l.rec \in 1..MaxRecords
    BY <1>1, MaxRecordsAssumption DEF LoadHead, Inv, TypeOK, Records
  <2>2. l.size \in Totals /\ l.head = data_head' /\ l.pc = "loaded"
    BY <1>1 DEF LoadHead, Totals
  <2> QED BY Zenon, <2>1, <2>2 DEF WriterInvOf
<1>3. WriterInv'
  BY Zenon, <1>1, <1>2, WriterChanges DEF LoadHead, Inv
<1>4. Tiled'
  BY TiledKept DEF LoadHead, Inv
<1>5. TailInv' /\ NeverFull' /\ DeliveredInOrder'
  BY Zenon DEF LoadHead, Inv, TailInv, ReadTail, NeverFull, DeliveredInOrder
<1> QED BY Zenon, <1>3, <1>4, <1>5 DEF Inv

\* The writer finds room: the free bytes are counted from data_tail, which
\* only grows, and an unmapped ring has none.
LEMMA LoadTailStep ==
    ASSUME SingleWriter, Inv, TypeOK', NEW w \in Writers, LoadTail(w)
    PROVE  Inv'
<1>1. PICK l : l = writer[w]
  BY Zenon
<1>2. PICK m : /\ writer' = [writer EXCEPT ![w] = m]
               /\ \/ m = Idle
                  \/ /\ Fits(l.size, available_size(l.head, data_tail))
                     /\ m = [l EXCEPT !.pc = "room"]
  BY Zenon, <1>1 DEF LoadTail, Inv, TypeOK
<1>3. /\ l.pc = "loaded" /\ l.head = data_head
      /\ l.size \in Totals /\ l.rec \in 1..MaxRecords
  BY <1>1 DEF LoadTail, Inv, WriterInv, WriterInvOf
<1>4. WriterInvOf(m)'
  <2>1. CASE m = Idle
    BY <2>1 DEF Idle, WriterInvOf
  <2>2. CASE /\ Fits(l.size, available_size(l.head, data_tail))
             /\ m = [l EXCEPT !.pc = "room"]
    <3>1. l.size < available_size(data_head, data_tail) /\ l.size \in Nat
      BY <2>2, <1>3, TotalsPositive DEF Fits
    <3>2. mmap_size \in {0, DataSize}
      BY Zenon DEF Inv, TypeOK
    <3>3. data_head + l.size < data_tail + DataSize
      BY SMTT(30), <3>1, <3>2, Ends, DataSizeAssumption DEF available_size
    <3>4. /\ m.pc = "room" /\ m.head = l.head /\ m.size = l.size
          /\ m.rec = l.rec
      BY <2>2, <1>1, Locals DEF Inv
    <3>5. UNCHANGED <<data_head, data_tail>>
      BY DEF LoadTail, Shared
    <3> QED BY Zenon, <3>3, <3>4, <3>5, <1>3 DEF WriterInvOf
  <2> QED BY <2>1, <2>2, <1>2
<1>5. WriterInv'
  BY Zenon, <1>2, <1>4, WriterChanges DEF Inv
<1>6. Tiled'
  BY TiledKept DEF LoadTail, Shared, Inv
<1>7. TailInv' /\ NeverFull' /\ DeliveredInOrder'
  BY Zenon DEF LoadTail, Shared, Inv, TailInv, ReadTail, NeverFull,
     DeliveredInOrder
<1> QED BY Zenon, <1>5, <1>6, <1>7 DEF Inv

\* The staging buffer holds the only writer's record.
LEMMA StageStep ==
    ASSUME SingleWriter, Inv, TypeOK', NEW w \in Writers, Stage(w)
    PROVE  Inv'
<1>1. PICK l : l = writer[w]
  BY Zenon
<1>2. PICK m : /\ m = [l EXCEPT !.pc = "staged"]
               /\ writer' = [writer EXCEPT ![w] = m]
  BY Zenon, <1>1 DEF Stage, Inv, TypeOK
<1>3. WriterInvOf(m)'
  <2>1. /\ m.pc = "staged" /\ m.head = l.head /\ m.size = l.size
        /\ m.rec = l.rec
    BY <1>1, <1>2, Locals DEF Inv
  <2>2. l.pc = "room" /\ WriterInvOf(l)
    BY Zenon, <1>1 DEF Stage, Inv, WriterInv
  <2>3. /\ copy_buffer' = [rec |-> m.rec, size |-> m.size]
        /\ UNCHANGED <<data_head, data_tail>>
    BY Zenon, <2>1, <1>1 DEF Stage
  <2>4. /\ l.pc # "idle" /\ l.pc \in {"room", "staged", "copied"}
        /\ m.pc # "copied"
    BY <2>1, <2>2
  <2> QED BY Zenon, <2>1, <2>2, <2>3, <2>4 DEF WriterInvOf
<1>4. WriterInv'
  BY Zenon, <1>2, <1>3, WriterChanges DEF Inv
<1>5. Tiled'
  BY TiledKept DEF Stage, Inv
<1>6. TailInv' /\ NeverFull' /\ DeliveredInOrder'
  BY Zenon DEF Stage, Inv, TailInv, ReadTail, NeverFull, DeliveredInOrder
<1> QED BY Zenon, <1>4, <1>5, <1>6 DEF Inv

\* A record not read yet lies between data_tail and data_head.
LEMMA UnreadBounds ==
    ASSUME Inv, NEW pos \in [1..(Len(sent) + 1) -> 0..data_head], Tiles(pos),
           NEW k \in (Len(got) + 1)..Len(sent)
    PROVE  /\ pos[k] \in Nat /\ pos[k + 1] \in Nat
           /\ data_tail <= pos[k] /\ pos[k] < pos[k + 1]
           /\ pos[k + 1] <= data_head
<1>1. PICK L \in Nat, g \in Nat : L = Len(sent) /\ g = Len(got) /\ g <= L
  BY Ends
<1>2. /\ k \in 1..(L + 1) /\ k + 1 \in 1..(L + 1) /\ g + 1 \in 1..(L + 1)
      /\ k < k + 1 /\ (g + 1 = k \/ g + 1 < k)
  BY <1>1
<1>3. pos[k] \in 0..data_head /\ pos[k + 1] \in 0..data_head
  BY SMTT(30), <1>1, <1>2
<1>4. pos[k] < pos[k + 1]
  BY Zenon, <1>1, <1>2 DEF Tiles
<1>5. pos[g + 1] = pos[k] \/ pos[g + 1] < pos[k]
  BY Zenon, <1>1, <1>2 DEF Tiles
<1>6. pos[g + 1] = ReadTail
  BY Zenon, <1>1 DEF Tiles
<1> QED BY SMTT(30), <1>3, <1>4, <1>5, <1>6, Ends

\* The record is copied over bytes that no unread record has.
LEMMA CopyStep ==
    ASSUME SingleWriter, Inv, TypeOK', NEW w \in Writers, Copy(w)
    PROVE  Inv'
<1>1. PICK l : l = writer[w]
  BY Zenon
<1>2. PICK m : /\ m = [l EXCEPT !.pc = "copied"]
               /\ writer' = [writer EXCEPT ![w] = m]
  BY Zenon, <1>1 DEF Copy, Inv, TypeOK
<1>3. /\ m.pc = "copied" /\ m.head = l.head /\ m.size = l.size /\ m.rec = l.rec
      /\ l.head \in Nat /\ l.size \in Nat
  BY <1>1, <1>2, Locals DEF Inv
<1>4. /\ l.head = data_head /\ l.size \in Totals /\ l.rec \in 1..MaxRecords
      /\ l.head + l.size < data_tail + DataSize
      /\ copy_buffer = [rec |-> l.rec, size |-> l.size]
  BY <1>1 DEF Copy, Inv, WriterInv, WriterInvOf
<1>5. /\ data' = CopiedTo(l.head, l.size)
      /\ UNCHANGED <<mmap_size, data_head, data_tail, copy_buffer, reader,
                     nrec, sent, got>>
  BY Zenon, <1>1 DEF Copy
<1>6. /\ data_head \in Nat /\ data_tail \in Nat /\ data_tail <= data_head
      /\ l.size < DataSize
  BY <1>3, <1>4, Ends, DataSizeAssumption
<1>7. RecordAt(l.head, l.size, l.rec)'
  <2> SUFFICES ASSUME NEW i \in 0..(l.size - 1)
               PROVE  data'[Slot(l.head + i)] =
                        [rec |-> l.rec, size |-> l.size, off |-> i]
    BY Zenon DEF RecordAt, Slot
  <2>1. CopiedTo(l.head, l.size)[Slot(l.head + i)] =
          [rec |-> copy_buffer.rec, size |-> copy_buffer.size, off |-> i]
    BY <1>3, <1>6, CopyWrites
  <2> QED BY <2>1, <1>4, <1>5
<1>8. WriterInvOf(m)'
  BY Zenon, <1>3, <1>4, <1>5, <1>7 DEF WriterInvOf
<1>9. WriterInv'
  BY Zenon, <1>2, <1>8, WriterChanges DEF Inv
<1>10. ASSUME NEW q \in Nat, data_tail <= q, q < data_head
       PROVE  data'[Slot(q)] = data[Slot(q)]
  <2>1. q < l.head /\ l.head + l.size <= q + DataSize
    BY <1>10, <1>3, <1>4, <1>6, DataSizeAssumption
  <2>2. CopiedTo(l.head, l.size)[Slot(q)] = data[Slot(q)]
    BY <2>1, <1>3, CopyLeaves
  <2> QED BY <2>2, <1>5
<1>11. Tiled'
  <2>1. PICK pos \in [1..(Len(sent) + 1) -> 0..data_head] : Tiles(pos)
    BY Zenon DEF Inv, Tiled
  <2>2. ASSUME NEW k \in (Len(got) + 1)..Len(sent)
        PROVE  RecordAt(pos[k], pos[k + 1] - pos[k], sent[k])'
    <3>1. PICK n : n = pos[k + 1] - pos[k]
      OBVIOUS
    <3>2. /\ pos[k] \in Nat /\ n \in Nat /\ data_tail <= pos[k]
          /\ pos[k] + n <= data_head
      BY SMTT(30), <3>1, <2>1, <1>6, UnreadBounds
    <3>3. RecordAt(pos[k], n, sent[k])
      BY Zenon, <2>1, <2>2, <3>1 DEF Tiles
    <3>4. ASSUME NEW i \in 0..(n - 1)
          PROVE  data'[Slot(pos[k] + i)] = data[Slot(pos[k] + i)]
      <4>1. /\ pos[k] + i \in Nat /\ data_tail <= pos[k] + i
            /\ pos[k] + i < data_head
        BY <3>2, <1>6
      <4> QED BY <4>1, <1>10
    <3> QED BY Zenon, <3>1, <3>3, <3>4, <1>5 DEF RecordAt, Slot
  <2>3. Tiles(pos)'
    BY Zenon, <2>1, <2>2, <1>5 DEF Tiles, ReadTail
  <2> QED BY Zenon, <2>1, <2>3, <1>5 DEF Tiled
<1>12. TailInv' /\ NeverFull' /\ DeliveredInOrder'
  BY Zenon, <1>5 DEF Inv, TailInv, ReadTail, NeverFull, DeliveredInOrder
<1> QED BY Zenon, <1>9, <1>11, <1>12 DEF Inv

\* The record is published: one more tile, which lies whole in the ring.
LEMMA StoreHeadStep ==
    ASSUME SingleWriter, Inv, TypeOK', NEW w \in Writers, StoreHead(w)
    PROVE  Inv'
<1>1. PICK l : l = writer[w]
  BY Zenon
<1>2. /\ l.head = data_head /\ l.size \in Totals
      /\ l.head + l.size < data_tail + DataSize
      /\ RecordAt(l.head, l.size, l.rec)
  BY <1>1 DEF StoreHead, Inv, WriterInv, WriterInvOf
<1>3. /\ data_head' = data_head + l.size /\ sent' = Append(sent, l.rec)
      /\ writer' = [writer EXCEPT ![w] = Idle]
      /\ UNCHANGED <<data, data_tail, reader, got>>
  BY Zenon, <1>1, <1>2 DEF StoreHead
<1>4. l.size \in Nat /\ l.size > 0
  BY <1>2, TotalsPositive
<1>5. PICK L \in Nat : L = Len(sent)
  BY Ends
<1>6. /\ Len(sent') = L + 1 /\ sent'[L + 1] = l.rec
      /\ \A k \in 1..L : sent'[k] = sent[k]
  <2>1. sent \in Seq(1..MaxRecords)
    BY Zenon DEF Inv, TypeOK
  <2> QED BY <2>1, <1>3, <1>5
<1>7. PICK g \in 0..L : g = Len(got) /\ g = Len(got')
  BY <1>3, <1>5, Ends
<1>8. PICK old \in [1..(L + 1) -> 0..data_head] : Tiles(old)
  BY Zenon, <1>5 DEF Inv, Tiled
<1>9. PICK pos : pos = [k \in 1..(L + 2) |->
                          IF k = L + 2 THEN data_head + l.size ELSE old[k]]
  BY Zenon
<1>10. /\ pos[L + 2] = data_head + l.size
       /\ \A k \in 1..(L + 1) : pos[k] = old[k] /\ old[k] \in 0..data_head
  BY <1>9, <1>5
<1>11. pos \in [1..(L + 2) -> 0..(data_head + l.size)]
  BY SMTT(30), <1>9, <1>4, Ends
<1>12. /\ old[g + 1] = ReadTail /\ old[L + 1] = data_head
       /\ \A j, k \in 1..(L + 1) : j < k => old[j] < old[k]
  BY Zenon, <1>8, <1>5, <1>7 DEF Tiles
<1>13. pos[g + 1] = ReadTail' /\ pos[L + 1] = data_head
  <2>1. g + 1 \in 1..(L + 1) /\ L + 1 \in 1..(L + 1)
    BY <1>7
  <2> QED BY Zenon, <2>1, <1>10, <1>12, <1>3 DEF ReadTail
<1>14. ASSUME NEW j \in 1..(L + 2), NEW k \in 1..(L + 2), j < k
       PROVE  pos[j] < pos[k]
  <2>1. j \in 1..(L + 1) /\ old[j] \in 0..data_head /\ pos[j] = old[j]
    BY <1>10, <1>14
  <2>2. CASE k = L + 2
    BY SMTT(30), <2>1, <2>2, <1>10, <1>4, Ends
  <2>3. CASE k \in 1..(L + 1)
    BY Zenon, <2>1, <2>3, <1>10, <1>12, <1>14
  <2> QED BY <2>2, <2>3
<1>15. ASSUME NEW k \in (g + 1)..(L + 1)
       PROVE  /\ pos[k + 1] - pos[k] \in Totals
              /\ RecordAt(pos[k], pos[k + 1] - pos[k], sent[k])'
  <2>1. CASE k = L + 1
    <3>1. k + 1 = L + 2
      BY <2>1
    <3>2. pos[k + 1] - pos[k] = l.size
      BY SMTT(30), <2>1, <3>1, <1>10, <1>13, <1>4, Ends
    <3>3. pos[k] = l.head /\ sent'[k] = l.rec
      BY Zenon, <2>1, <1>2, <1>13, <1>6
    <3> QED BY Zenon, <3>2, <3>3, <1>2, <1>3 DEF RecordAt
  <2>2. CASE k \in (g + 1)..L
    <3>1. k \in 1..(L + 1) /\ k + 1 \in 1..(L + 1) /\ k \in 1..L
      BY <2>2, <1>7
    <3>2. pos[k] = old[k] /\ pos[k + 1] = old[k + 1] /\ sent'[k] = sent[k]
      BY Zenon, <3>1, <1>10, <1>6
    <3>3. /\ old[k + 1] - old[k] \in Totals
          /\ RecordAt(old[k], old[k + 1] - old[k], sent[k])
      BY Zenon, <2>2, <1>8, <1>5, <1>7 DEF Tiles
    <3> QED BY Zenon, <3>2, <3>3, <1>3 DEF RecordAt
  <2> QED BY <2>1, <2>2, <1>7
<1>16. ASSUME reader.pc = "walk"
       PROVE  \E j \in (g + 1)..(L + 2) : reader.head = pos[j]
  <2>1. PICK j \in (g + 1)..(L + 1) : reader.head = old[j]
    BY Zenon, <1>16, <1>8, <1>5, <1>7 DEF Tiles
  <2>2. j \in 1..(L + 1) /\ j \in (g + 1)..(L + 2)
    BY <1>7
  <2> QED BY Zenon, <2>1, <2>2, <1>10
<1>17. L + 1 + 1 = L + 2
  OBVIOUS
<1>18. Tiles(pos)'
  BY Zenon, <1>17, <1>3, <1>6, <1>7, <1>10, <1>13, <1>14, <1>15, <1>16
     DEF Tiles, ReadTail
<1>19. Tiled'
  BY Zenon, <1>17, <1>18, <1>11, <1>3, <1>6 DEF Tiled
<1>20. DeliveredInOrder'
  <2>1. \A k \in DOMAIN got : k \in 1..L /\ got[k] = sent[k]
    <3>1. got \in Seq(Records)
      BY Zenon DEF Inv, TypeOK
    <3>2. DOMAIN got = 1..Len(got)
      BY <3>1
    <3>3. \A k \in 1..g : k \in 1..L
      OBVIOUS
    <3> QED BY Zenon, <3>2, <3>3, <1>7 DEF Inv, DeliveredInOrder
  <2>2. Len(got') <= Len(sent')
    BY <1>6, <1>7
  <2> QED BY <2>1, <2>2, <1>3, <1>6 DEF DeliveredInOrder
<1>21. TailInv' /\ NeverFull'
  <2>1. ReadTail' = ReadTail
    BY Zenon, <1>3 DEF ReadTail
  <2>2. PICK n \in Nat : n = l.size /\ data_head' = data_head + n
    BY Zenon, <1>3, <1>4
  <2>3. data_head + n < data_tail + DataSize /\ data_tail' = data_tail
    BY Zenon, <2>2, <1>2, <1>3
  <2>4. PICK t \in Nat, r \in Nat, h \in Nat :
           /\ t = data_tail /\ r = ReadTail /\ h = data_head
           /\ t <= r /\ r <= h
    BY Zenon, Ends
  <2>5. t <= r /\ r <= h + n /\ t <= h + n /\ h + n - t < DataSize
    BY SMTT(30), <2>2, <2>3, <2>4, DataSizeAssumption
  <2>6. data_tail' = t /\ ReadTail' = r /\ data_head' = h + n
    BY Zenon, <2>1, <2>2, <2>3, <2>4
  <2>7. data_tail' <= ReadTail' /\ ReadTail' <= data_head'
    BY Zenon, <2>5, <2>6
  <2>8. data_tail' <= data_head' /\ data_head' - data_tail' < DataSize
    BY <2>5, <2>6
  <2> QED BY Zenon, <2>7, <2>8 DEF TailInv, NeverFull
<1>22. WriterInv'
  <2>1. PICK i : i = Idle
    OBVIOUS
  <2>2. WriterInvOf(i)'
    BY <2>1 DEF WriterInvOf, Idle
  <2> QED BY Zenon, <2>1, <2>2, <1>3, WriterChanges DEF Inv
<1> QED BY Zenon, <1>19, <1>20, <1>21, <1>22 DEF Inv

----------------------------------------------------------------------------
(* One writer: the steps of the loader *)

\* Mapping the ring moves nothing.
LEMMA MmapStep ==
    ASSUME Inv, TypeOK', ensure_mmap_buffer
    PROVE  Inv'
<1>1. UNCHANGED <<data, data_head, data_tail, copy_buffer, writer, reader,
                  nrec, sent, got>>
  BY Zenon DEF ensure_mmap_buffer
<1>2. Tiled'
  BY <1>1, TiledKept DEF Inv
<1>3. WriterInv'
  BY Zenon, <1>1 DEF Inv, WriterInv, WriterInvOf, RecordAt
<1>4. TailInv' /\ NeverFull' /\ DeliveredInOrder'
  BY Zenon, <1>1 DEF Inv, TailInv, ReadTail, NeverFull, DeliveredInOrder
<1> QED BY Zenon, <1>2, <1>3, <1>4 DEF Inv

\* The walk ends where the last record did.
LEMMA PollStep ==
    ASSUME Inv, TypeOK', Poll
    PROVE  Inv'
<1>1. /\ reader.pc = "poll"
      /\ reader' = [pc |-> "walk", head |-> data_head, tail |-> data_tail]
      /\ UNCHANGED <<mmap_size, data, data_head, data_tail, copy_buffer,
                     writer, nrec, sent, got>>
  BY Zenon DEF Poll
<1>2. /\ reader'.pc = "walk" /\ reader'.head = data_head
      /\ reader'.tail = data_tail /\ reader.pc # "walk"
  BY <1>1
<1>3. ReadTail' = ReadTail
  BY Zenon, <1>1, <1>2 DEF ReadTail
<1>4. Tiled'
  <2>1. PICK pos \in [1..(Len(sent) + 1) -> 0..data_head] : Tiles(pos)
    BY Zenon DEF Inv, Tiled
  <2>2. Len(sent) + 1 \in (Len(got) + 1)..(Len(sent) + 1)
    BY Ends
  <2>3. reader'.head = pos[Len(sent) + 1]
    BY Zenon, <2>1, <1>2 DEF Tiles
  <2>4. Tiles(pos)'
    BY Zenon, <2>1, <2>2, <2>3, <1>1, <1>3 DEF Tiles, RecordAt
  <2> QED BY Zenon, <2>1, <2>4, <1>1 DEF Tiled
<1>5. WriterInv'
  BY Zenon, <1>1 DEF Inv, WriterInv, WriterInvOf, RecordAt
<1>6. TailInv' /\ NeverFull' /\ DeliveredInOrder'
  BY Zenon, <1>1, <1>3 DEF Inv, TailInv, NeverFull, DeliveredInOrder
<1> QED BY Zenon, <1>4, <1>5, <1>6 DEF Inv

\* The loader reads the next tile: its header tells its size, its bytes are
\* those of the record published at that place.
LEMMA ReadRecordStep ==
    ASSUME Inv, TypeOK', ReadRecord
    PROVE  Inv'
<1>1. /\ reader.pc = "walk" /\ reader.tail # reader.head
      /\ UNCHANGED <<mmap_size, data, data_head, data_tail, copy_buffer,
                     writer, nrec, sent>>
  BY Zenon DEF ReadRecord
<1>2. PICK L \in Nat, g \in Nat : L = Len(sent) /\ g = Len(got) /\ g <= L
  BY Ends
<1>3. PICK pos \in [1..(L + 1) -> 0..data_head] : Tiles(pos)
  BY Zenon, <1>2 DEF Inv, Tiled
<1>4. reader.tail = ReadTail
  BY Zenon, <1>1 DEF ReadTail
<1>5. pos[g + 1] = reader.tail
  BY Zenon, <1>2, <1>3, <1>4 DEF Tiles
<1>6. PICK j \in (g + 1)..(L + 1) : reader.head = pos[j]
  BY Zenon, <1>1, <1>2, <1>3 DEF Tiles
<1>7. j # g + 1
  BY Zenon, <1>1, <1>5, <1>6
<1>8. /\ g + 1 \in (g + 1)..L /\ g + 1 \in 1..L /\ j \in (g + 2)..(L + 1)
      /\ g + 1 + 1 = g + 2 /\ g + 2 \in 1..(L + 1)
  BY <1>7
<1>9. PICK n : n = pos[g + 2] - pos[g + 1]
  OBVIOUS
<1>10. n \in Totals /\ RecordAt(pos[g + 1], n, sent[g + 1])
  BY Zenon, <1>2, <1>3, <1>8, <1>9 DEF Tiles
<1>11. /\ pos[g + 1] \in Nat /\ pos[g + 2] \in Nat /\ pos[g + 2] <= data_head
       /\ pos[g + 1] < pos[g + 2] /\ pos[g + 2] = pos[g + 1] + n
       /\ n \in Nat /\ n > 0
  <2>1. pos[g + 1] \in 0..data_head /\ pos[g + 2] \in 0..data_head
    BY <1>8
  <2>2. n \in Nat /\ n > 0
    BY Zenon, <1>10, TotalsPositive
  <2>3. PICK p \in 0..data_head, q \in 0..data_head :
           p = pos[g + 1] /\ q = pos[g + 2]
    BY Zenon, <2>1
  <2>4. n = q - p /\ data_head \in Nat
    BY Zenon, <2>3, <1>9, Ends
  <2>5. p \in Nat /\ q \in Nat /\ q <= data_head /\ p < q /\ q = p + n
    BY <2>2, <2>4
  <2> QED BY Zenon, <2>2, <2>3, <2>5
<1>12. sent[g + 1] # 0
  <2>1. sent \in Seq(1..MaxRecords)
    BY Zenon DEF Inv, TypeOK
  <2>2. sent[g + 1] \in 1..MaxRecords
    BY Zenon, <2>1, <1>2, <1>8, ElementOf
  <2> QED BY <2>2, MaxRecordsAssumption
<1>13. \A i \in 0..(n - 1) : data[Slot(reader.tail + i)] =
                               [rec |-> sent[g + 1], size |-> n, off |-> i]
  BY Zenon, <1>5, <1>10 DEF RecordAt
<1>14. data[Slot(reader.tail)] = [rec |-> sent[g + 1], size |-> n, off |-> 0]
  <2>1. 0 \in 0..(n - 1) /\ reader.tail + 0 = reader.tail
    BY <1>5, <1>11
  <2> QED BY <2>1, <1>13
<1>15. Whole(reader.tail, n)
  BY <1>12, <1>13, <1>14 DEF Whole
<1>16. /\ got' = Append(got, sent[g + 1])
       /\ reader' = [reader EXCEPT !.tail = @ + n]
  <2>1. PICK f : f = data[Slot(reader.tail)]
    OBVIOUS
  <2>2. f.off = 0 /\ f.rec = sent[g + 1] /\ f.size = n
    BY <2>1, <1>14
  <2>3. PICK m \in {f.size} :
           /\ got' = Append(got, IF Whole(reader.tail, m) THEN f.rec ELSE 0)
           /\ reader' = [reader EXCEPT !.tail = @ + m]
    BY Zenon, <2>1, <2>2, <1>12 DEF ReadRecord
  <2>4. m = n
    BY <2>2
  <2> QED BY Zenon, <2>2, <2>3, <2>4, <1>15
<1>17. /\ Len(got') = g + 1 /\ got'[g + 1] = sent[g + 1]
       /\ \A k \in 1..g : got'[k] = got[k]
       /\ DOMAIN got' = 1..(g + 1) /\ DOMAIN got = 1..g
  <2>1. got \in Seq(Records)
    BY Zenon DEF Inv, TypeOK
  <2> QED BY <2>1, <1>2, <1>16
<1>18. DeliveredInOrder'
  <2>1. ASSUME NEW k \in 1..(g + 1) PROVE got'[k] = sent[k]
    <3>1. CASE k = g + 1
      BY <3>1, <1>17
    <3>2. CASE k \in 1..g
      BY Zenon, <3>2, <1>17 DEF Inv, DeliveredInOrder
    <3> QED BY <3>1, <3>2
  <2>2. g + 1 <= L
    BY <1>8
  <2> QED BY Zenon, <2>1, <2>2, <1>1, <1>2, <1>17 DEF DeliveredInOrder
<1>19. /\ reader'.pc = "walk" /\ reader'.head = reader.head
       /\ reader'.tail = pos[g + 2]
  BY <1>1, <1>5, <1>11, <1>16 DEF Inv, TypeOK
<1>20. ReadTail' = pos[g + 2]
  BY Zenon, <1>19 DEF ReadTail
<1>21. Tiles(pos)'
  <2>1. \A k \in (g + 2)..L : k \in (g + 1)..L
    OBVIOUS
  <2> QED BY Zenon, <2>1, <1>1, <1>2, <1>3, <1>6, <1>8, <1>17, <1>19, <1>20
          DEF Tiles, RecordAt
<1>22. Tiled'
  BY Zenon, <1>21, <1>1, <1>2 DEF Tiled
<1>23. TailInv' /\ NeverFull'
  <2>1. data_tail <= pos[g + 2] /\ pos[g + 2] <= data_head
    BY <1>4, <1>5, <1>11, Ends
  <2> QED BY Zenon, <2>1, <1>1, <1>20 DEF Inv, TailInv, NeverFull
<1>24. WriterInv'
  BY Zenon, <1>1 DEF Inv, WriterInv, WriterInvOf, RecordAt
<1> QED BY Zenon, <1>18, <1>22, <1>23, <1>24 DEF Inv

\* The loader gives back what it has read, and nothing else.
LEMMA StoreTailStep ==
    ASSUME Inv, TypeOK', StoreTail
    PROVE  Inv'
<1>1. /\ reader.pc = "walk" /\ data_tail' = reader.tail
      /\ reader' = [reader EXCEPT !.pc = "poll"]
      /\ UNCHANGED <<mmap_size, data, data_head, copy_buffer, writer, nrec,
                     sent, got>>
  BY Zenon DEF StoreTail
<1>2. reader'.pc = "poll" /\ reader'.pc # "walk"
  BY <1>1 DEF Inv, TypeOK
<1>3. ReadTail' = ReadTail /\ data_tail' = ReadTail
  BY Zenon, <1>1, <1>2 DEF ReadTail
<1>4. Tiled'
  <2>1. PICK pos \in [1..(Len(sent) + 1) -> 0..data_head] : Tiles(pos)
    BY Zenon DEF Inv, Tiled
  <2>2. Tiles(pos)'
    BY Zenon, <2>1, <1>1, <1>2, <1>3 DEF Tiles, RecordAt
  <2> QED BY Zenon, <2>1, <2>2, <1>1 DEF Tiled
<1>5. WriterInv'
  BY <1>1, <1>3, Ends, WriterKept DEF Inv
<1>6. TailInv' /\ NeverFull'
  BY <1>1, <1>3, Ends, DataSizeAssumption DEF TailInv, NeverFull
<1>7. DeliveredInOrder'
  BY Zenon, <1>1 DEF Inv, DeliveredInOrder
<1> QED BY Zenon, <1>4, <1>5, <1>6, <1>7 DEF Inv

----------------------------------------------------------------------------
(* One writer: the theorems *)

\* An empty ring is tiled by no record.
LEMMA InitInv == Init => Inv
<1> SUFFICES ASSUME Init PROVE Inv
  OBVIOUS
<1>1. TypeOK
  BY InitType DEF TypeInv
<1>2. /\ data_head = 0 /\ data_tail = 0 /\ sent = <<>> /\ got = <<>>
      /\ reader.pc = "poll" /\ ReadTail = 0
  BY DEF Init, ReadTail
<1>3. TailInv /\ NeverFull /\ DeliveredInOrder
  BY <1>2, DataSizeAssumption DEF TailInv, NeverFull, DeliveredInOrder
<1>4. WriterInv
  BY Zenon DEF Init, Idle, WriterInv, WriterInvOf
<1>5. Tiled
  <2>1. PICK pos : pos = [k \in 1..1 |-> 0]
    BY Zenon
  <2>2. Len(sent) = 0 /\ Len(got) = 0 /\ pos[1] = 0 /\ pos \in [1..1 -> 0..0]
    BY <1>2, <2>1
  <2>3. Tiles(pos)
    BY <1>2, <2>2 DEF Tiles
  <2> QED BY <1>2, <2>2, <2>3 DEF Tiled
<1> QED BY Zenon, <1>1, <1>3, <1>4, <1>5 DEF Inv

\* With one writer every step keeps the invariant.
LEMMA InvStep ==
    ASSUME SingleWriter, Inv, TypeOK', [Next]_vars
    PROVE  Inv'
<1>1. CASE UNCHANGED vars
  <2>1. UNCHANGED <<data, data_head, data_tail, reader, sent, got>>
    BY Zenon, <1>1 DEF vars
  <2>2. Tiled'
    BY <2>1, TiledKept DEF Inv
  <2>3. WriterInv'
    BY Zenon, <1>1 DEF vars, Inv, WriterInv, WriterInvOf, RecordAt
  <2>4. TailInv' /\ NeverFull' /\ DeliveredInOrder'
    BY Zenon, <2>1 DEF Inv, TailInv, ReadTail, NeverFull, DeliveredInOrder
  <2> QED BY Zenon, <2>2, <2>3, <2>4 DEF Inv
<1> QED BY Zenon, <1>1, MmapStep, LoadHeadStep, LoadTailStep, StageStep,
           CopyStep, StoreHeadStep, PollStep, ReadRecordStep, StoreTailStep
        DEF Next

\* With one writer the records not yet read tile the ring up to data_head.
THEOREM RecordsTileRing ==
    ASSUME SingleWriter
    PROVE  Spec => []Inv
<1>1. Inv /\ TypeOK' /\ [Next]_vars => Inv'
  BY Zenon, InvStep
<1> QED BY <1>1, InitInv, PerfEventTypes, PTL DEF Spec

\* With one writer the unread bytes never fill the ring, so that output_data
\* may take equal offsets for an empty one.
THEOREM RingNeverFull ==
    ASSUME SingleWriter
    PROVE  Spec => []NeverFull
<1>1. Inv => NeverFull
  BY DEF Inv
<1> QED BY <1>1, RecordsTileRing, PTL

\* With one writer the loader gets the published records, whole, once each
\* and in order, whatever the ring's size and the records' sizes.
THEOREM LoaderGetsRecordsInOrder ==
    ASSUME SingleWriter
    PROVE  Spec => []DeliveredInOrder
<1>1. Inv => DeliveredInOrder
  BY DEF Inv
<1> QED BY <1>1, RecordsTileRing, PTL
=============================================================================
