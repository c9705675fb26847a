-------------------------- MODULE PerfEventBuffer --------------------------
(***************************************************************************)
(* software_perf_event_data: the ring a software perf event shares with    *)
(* the loader.  Threads that run eBPF programs call output_data; the       *)
(* loader maps the ring and reads it as libbpf does: it loads data_head    *)
(* once, walks the records up to it and stores data_tail at the end.       *)
(***************************************************************************)
EXTENDS Integers, Sequences

CONSTANTS
    Writers,      \* threads that output to this event
    DataSize,     \* the data bytes the loader maps, a power of two
    HeaderSize,   \* sizeof(perf_sample_raw)
    Sizes,        \* payload sizes; with the header they fit in 16 bits
    MaxRecords    \* bound on the calls of output_data

ASSUME DataSizeAssumption == DataSize \in Nat \ {0}
ASSUME HeaderSizeAssumption == HeaderSize \in Nat \ {0}
ASSUME SizesAssumption == \A n \in Sizes : n \in Nat /\ HeaderSize + n < 2^16
ASSUME MaxRecordsAssumption == MaxRecords \in Nat

VARIABLES
    mmap_size,    \* mmap_size(): 0 until the loader maps the ring
    data,         \* the data bytes
    data_head, data_tail,
    copy_buffer,  \* the staging buffer, one for all writers
    writer,       \* each writer's locals in output_data
    reader,       \* the loader's locals
    nrec,         \* calls so far: a record's name is its number
    sent, got     \* history: records published, and records delivered

vars == <<mmap_size, data, data_head, data_tail, copy_buffer, writer, reader,
          nrec, sent, got>>

Totals == {HeaderSize + n : n \in Sizes}
Records == 0..MaxRecords

\* Byte `off' of a record; the header tells the size.  Record 0 is no record.
Byte == [rec : Records, size : Totals \cup {0}, off : Nat]
Zero == [rec |-> 0, size |-> 0, off |-> 0]
Local == [pc : {"idle", "loaded", "room", "staged", "copied"}, rec : Records,
          size : Totals \cup {0}, head : Nat]
Idle == [pc |-> "idle", rec |-> 0, size |-> 0, head |-> 0]

TypeOK ==
    /\ mmap_size \in {0, DataSize}
    /\ data \in [0..(DataSize - 1) -> Byte]
    /\ data_head \in Nat /\ data_tail \in Nat
    /\ copy_buffer \in [rec : Records, size : Totals \cup {0}]
    /\ writer \in [Writers -> Local]
    /\ reader \in [pc : {"poll", "walk"}, head : Nat, tail : Nat]
    /\ nrec \in Records
    /\ sent \in Seq(1..MaxRecords) /\ got \in Seq(Records)

Init ==
    /\ mmap_size = 0 /\ data_head = 0 /\ data_tail = 0
    /\ data = [i \in 0..(DataSize - 1) |-> Zero]
    /\ copy_buffer = [rec |-> 0, size |-> 0]
    /\ writer = [w \in Writers |-> Idle]
    /\ reader = [pc |-> "poll", head |-> 0, tail |-> 0]
    /\ nrec = 0 /\ sent = <<>> /\ got = <<>>

Slot(pos) == pos % DataSize

----------------------------------------------------------------------------
(* The loader maps the ring. *)

ensure_mmap_buffer ==
    /\ mmap_size = 0
    /\ mmap_size' = DataSize
    /\ UNCHANGED <<data, data_head, data_tail, copy_buffer, writer, reader,
                   nrec, sent, got>>

----------------------------------------------------------------------------
(* output_data *)

Shared == <<mmap_size, data, data_head, data_tail, copy_buffer, reader, nrec,
            sent, got>>

LoadHeadBare(w, n) ==
    /\ writer[w].pc = "idle" /\ nrec < MaxRecords
    /\ nrec' = nrec + 1
    /\ writer' = [writer EXCEPT ![w] = [pc |-> "loaded", rec |-> nrec + 1,
                     size |-> n, head |-> data_head]]
    /\ UNCHANGED <<mmap_size, data, data_head, data_tail, copy_buffer, reader,
                   sent, got>>

LoadHead(w, n) ==
    /\ writer[w].pc = "idle" /\ nrec < MaxRecords
    /\ nrec' = nrec + 1
    /\ writer' = [writer EXCEPT ![w] = [pc |-> "loaded", rec |-> nrec + 1,
                     size |-> HeaderSize + n, head |-> data_head]]
    /\ UNCHANGED <<mmap_size, data, data_head, data_tail, copy_buffer, reader,
                   sent, got>>

\* The free bytes; a full ring counts as an empty one.
available_size(head, tail) ==
    LET free == mmap_size - (head - tail)
    IN  IF free = 0 THEN mmap_size ELSE free

FitsExactly(size, available) == size <= available
Fits(size, available) == size < available

LoadTail(w) ==
    /\ writer[w].pc = "loaded"
    /\ writer' = [writer EXCEPT ![w] =
          IF Fits(@.size, available_size(@.head, data_tail))
            THEN [@ EXCEPT !.pc = "room"] ELSE Idle]
    /\ UNCHANGED Shared

Stage(w) ==
    /\ writer[w].pc = "room"
    /\ copy_buffer' = [rec |-> writer[w].rec, size |-> writer[w].size]
    /\ writer' = [writer EXCEPT ![w].pc = "staged"]
    /\ UNCHANGED <<mmap_size, data, data_head, data_tail, reader, nrec, sent,
                   got>>

\* The bytes of the ring once the record is in it, in two parts when it
\* runs over the end; CopiedToEnd leaves the second part out.
CopiedToEnd(head, size) ==
    [i \in 0..(DataSize - 1) |->
       LET off == i - Slot(head)
       IN  IF off \in 0..(size - 1)
             THEN [rec |-> copy_buffer.rec, size |-> copy_buffer.size,
                   off |-> off]
             ELSE data[i]]

CopiedTo(head, size) ==
    [i \in 0..(DataSize - 1) |->
       LET off == (i - Slot(head)) % DataSize
       IN  IF off < size
             THEN [rec |-> copy_buffer.rec, size |-> copy_buffer.size,
                   off |-> off]
             ELSE data[i]]

Copy(w) ==
    /\ writer[w].pc = "staged"
    /\ data' = CopiedTo(writer[w].head, writer[w].size)
    /\ writer' = [writer EXCEPT ![w].pc = "copied"]
    /\ UNCHANGED <<mmap_size, data_head, data_tail, copy_buffer, reader, nrec,
                   sent, got>>

StoreHead(w) ==
    /\ writer[w].pc = "copied"
    /\ data_head' = writer[w].head + writer[w].size
    /\ sent' = Append(sent, writer[w].rec)
    /\ writer' = [writer EXCEPT ![w] = Idle]
    /\ UNCHANGED <<mmap_size, data, data_tail, copy_buffer, reader, nrec, got>>

----------------------------------------------------------------------------
(* The loader *)

has_dataAhead == Slot(data_head) > Slot(data_tail)
has_data == data_tail # data_head

\* epoll_wait reports the event and the loader loads data_head.
Poll ==
    /\ reader.pc = "poll" /\ mmap_size # 0 /\ has_data
    /\ reader' = [pc |-> "walk", head |-> data_head, tail |-> data_tail]
    /\ UNCHANGED <<mmap_size, data, data_head, data_tail, copy_buffer, writer,
                   nrec, sent, got>>

\* The bytes of the record at pos, where its header says n bytes.
Whole(pos, n) ==
    LET first == data[Slot(pos)]
    IN  first.rec # 0 /\ first.size = n
        /\ \A i \in 0..(n - 1) :
              data[Slot(pos + i)] = [first EXCEPT !.off = i]

\* Read the record at tail; a header that is not one holds any size.
ReadRecord ==
    /\ reader.pc = "walk" /\ reader.tail # reader.head
    /\ \E n \in LET first == data[Slot(reader.tail)]
                IN  IF first.off = 0 /\ first.rec # 0 THEN {first.size}
                                                      ELSE Totals :
          /\ got' = Append(got, IF Whole(reader.tail, n)
                                  THEN data[Slot(reader.tail)].rec ELSE 0)
          /\ reader' = [reader EXCEPT !.tail = @ + n]
    /\ UNCHANGED <<mmap_size, data, data_head, data_tail, copy_buffer, writer,
                   nrec, sent>>

StoreTail ==
    /\ reader.pc = "walk" /\ reader.tail = reader.head
    /\ data_tail' = reader.tail
    /\ reader' = [reader EXCEPT !.pc = "poll"]
    /\ UNCHANGED <<mmap_size, data, data_head, copy_buffer, writer, nrec, sent,
                   got>>

Next ==
    \/ ensure_mmap_buffer
    \/ \E w \in Writers :
          \/ \E n \in Sizes : LoadHead(w, n)
          \/ LoadTail(w) \/ Stage(w) \/ Copy(w) \/ StoreHead(w)
    \/ Poll \/ ReadRecord \/ StoreTail

Spec == Init /\ [][Next]_vars

\* The loader keeps polling and walking.
FairSpec == Spec /\ WF_vars(Poll) /\ WF_vars(ReadRecord) /\ WF_vars(StoreTail)

----------------------------------------------------------------------------
(* Properties *)

\* At most one thread outputs to the event: output_data takes no lock.
SingleWriter == \A u, v \in Writers : u = v

\* Unread bytes never fill the ring, so that data_head equal to data_tail
\* modulo its size means an empty one, as output_data's comment says.
NeverFull == data_tail <= data_head /\ data_head - data_tail < DataSize

\* The loader gets the published records, whole, once each and in order,
\* while writers copy further records into the ring.
DeliveredInOrder ==
    Len(got) <= Len(sent) /\ \A k \in DOMAIN got : got[k] = sent[k]

\* Every record published reaches the loader.
EventuallyDelivered ==
    \A n \in 1..MaxRecords : Len(sent) >= n ~> Len(got) >= n
=============================================================================
