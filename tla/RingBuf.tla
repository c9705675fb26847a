------------------------------ MODULE RingBuf ------------------------------
(***************************************************************************)
(* The user space BPF_MAP_TYPE_RINGBUF of the runtime (ringbuf_map.cpp)    *)
(* and the helpers eBPF programs drive it with (bpf_helper.cpp).           *)
(* Producers run ringbuf::reserve, fill the record and settle it;          *)
(* one consumer runs ringbuf::fetch_data.  Memory is counted in words of   *)
(* BPF_RINGBUF_HDR_SZ = 8 bytes, the unit every position is a multiple of. *)
(* The data area is 2 * max_ent bytes of PLAIN memory: unlike the kernel's *)
(* ring, its second half is not an alias of the first one.                 *)
(***************************************************************************)
EXTENDS Integers, FiniteSets, Sequences

CONSTANTS
    Producers,   \* threads (of any process) that run eBPF programs
    Words,       \* max_ent / 8
    Sizes,       \* the record sizes, in bytes, the programs ask for
    Helpers,     \* "output": bpf_ringbuf_output; "reserve": reserve + submit
    MaxRecords   \* bound on the records reserved in a behaviour

ASSUME WordsAssumption == Words \in Nat \ {0}
ASSUME SizesAssumption == Sizes \subseteq Nat
ASSUME HelpersAssumption == Helpers \subseteq {"output", "reserve"}
ASSUME MaxRecordsAssumption == MaxRecords \in Nat

VARIABLES
    consumer_pos, producer_pos,   \* the two shared positions
    data,    \* the words of the data area, 0 .. 2 * Words - 1
    prod,    \* each producer's locals
    cons,    \* the consumer's locals in fetch_data
    nrec,    \* records named so far: a record's name is its number
    live,    \* history: the records reserved and not yet released
    delivered   \* history: what the callback saw, in order

vars == <<consumer_pos, producer_pos, data, prod, cons, nrec, live, delivered>>

----------------------------------------------------------------------------
\* The words a record of `size' bytes takes, its header included.
total_size(size) == (size + 8 + 7) \div 8

\* The same number as fetch_data computes it from the header's len; the
\* mutant forgets the header.
roundup_lenBare(len) == (len + 7) \div 8

roundup_len(len) == (len + 8 + 7) \div 8

\* pos & mask(); the mutant masks with max_ent.
OffsetWide(pos) == pos % (Words + 1)

Offset(pos) == pos % Words

\* A word is untouched, a header {len, flags} or payload; `rec' names the
\* record it was written for (for a header that is a history value).
Zero == [kind |-> "zero", len |-> 0, busy |-> FALSE, discard |-> FALSE,
         rec |-> 0]
Header(size, rec) == [kind |-> "header", len |-> size, busy |-> TRUE,
                      discard |-> FALSE, rec |-> rec]
Payload(rec) == [kind |-> "payload", len |-> 0, busy |-> FALSE,
                 discard |-> FALSE, rec |-> rec]
Word == [kind : {"zero", "header", "payload"}, len : Sizes \cup {0},
         busy : BOOLEAN, discard : BOOLEAN, rec : Nat]

DataArea == 0 .. 2 * Words - 1

IdleProducer == [pc |-> "idle", size |-> 0, helper |-> "output", cpos |-> 0,
                 ppos |-> 0, ptr |-> 0, rec |-> 0]
IdleConsumer == [pc |-> "idle", cpos |-> 0, ppos |-> 0, got |-> FALSE,
                 at |-> 0, stop |-> FALSE]

ProducerLocals ==
    [pc : {"idle", "load", "test", "header", "publish", "fill", "submit"},
     size : Sizes \cup {0}, helper : {"output", "reserve"},
     cpos : Nat, ppos : Nat, ptr : 0 .. Words - 1, rec : Nat]
ConsumerLocals ==
    [pc : {"idle", "outer", "inner", "call", "store"}, cpos : Nat,
     ppos : Nat, got : BOOLEAN, at : Nat, stop : BOOLEAN]
Record == [pos : Nat, size : Sizes \cup {0}, rec : Nat]
Sample == [rec : Nat, from : SUBSET Nat]

TypeOK ==
    /\ consumer_pos \in Nat /\ producer_pos \in Nat
    /\ data \in [DataArea -> Word]
    /\ prod \in [Producers -> ProducerLocals]
    /\ cons \in ConsumerLocals
    /\ nrec \in Nat
    /\ live \subseteq Record
    /\ delivered \in Seq(Sample)

Init ==
    /\ consumer_pos = 0 /\ producer_pos = 0
    /\ data = [w \in DataArea |-> Zero]
    /\ prod = [p \in Producers |-> IdleProducer]
    /\ cons = IdleConsumer
    /\ nrec = 0
    /\ live = {}
    /\ delivered = <<>>

----------------------------------------------------------------------------
(* ringbuf::reserve.  reserve_mutex is taken with sharable_lock and never  *)
(* exclusively, so taking it excludes nobody: it needs no variable.        *)

ReserveBegin(p) ==
    /\ prod[p].pc = "idle" /\ nrec < MaxRecords
    /\ \E size \in Sizes, helper \in Helpers :
          prod' = [prod EXCEPT ![p] =
                     [IdleProducer EXCEPT !.pc = "load", !.size = size,
                                          !.helper = helper]]
    /\ UNCHANGED <<consumer_pos, producer_pos, data, cons, nrec, live,
                   delivered>>

LoadConsumerPos(p) ==
    /\ prod[p].pc = "load"
    /\ prod' = [prod EXCEPT ![p] = [@ EXCEPT !.pc = "test",
                                            !.cpos = consumer_pos]]
    /\ UNCHANGED <<consumer_pos, producer_pos, data, cons, nrec, live,
                   delivered>>

\* A mutant of NoSpace that leaves the header out of the size.
NoSpaceOffByHeader(ppos, cpos, size) ==
    /\ ppos - cpos <= Words
    /\ Words - (ppos - cpos) < total_size(size) - 1

\* max_ent - (prod_pos - cons_pos) < total_size in unsigned arithmetic: once
\* more than max_ent words seem taken the difference wraps to a huge number.
NoSpace(ppos, cpos, size) ==
    /\ ppos - cpos <= Words
    /\ Words - (ppos - cpos) < total_size(size)

\* A mutant that publishes the record before its header is written.
LoadProducerPosPublishing(p) ==
    LET size == prod[p].size IN
    /\ prod[p].pc = "test"
    /\ ~ (total_size(size) > Words)
    /\ ~ NoSpace(producer_pos, prod[p].cpos, size)
    /\ prod' = [prod EXCEPT ![p] = [@ EXCEPT !.pc = "header",
                              !.ppos = producer_pos, !.rec = nrec + 1]]
    /\ nrec' = nrec + 1
    /\ producer_pos' = producer_pos + total_size(size)
    /\ UNCHANGED <<consumer_pos, data, cons, live, delivered>>

\* Loads producer_pos; E2BIG and ENOSPC return null, otherwise go on.
LoadProducerPos(p) ==
    LET size == prod[p].size IN
    /\ prod[p].pc = "test"
    /\ IF \/ total_size(size) > Words
          \/ NoSpace(producer_pos, prod[p].cpos, size)
         THEN /\ prod' = [prod EXCEPT ![p] = IdleProducer]
              /\ UNCHANGED nrec
         ELSE /\ prod' = [prod EXCEPT ![p] = [@ EXCEPT !.pc = "header",
                                !.ppos = producer_pos, !.rec = nrec + 1]]
              /\ nrec' = nrec + 1
    /\ UNCHANGED <<consumer_pos, producer_pos, data, cons, live, delivered>>

WriteHeader(p) ==
    /\ prod[p].pc = "header"
    /\ data' = [data EXCEPT ![Offset(prod[p].ppos)] =
                               Header(prod[p].size, prod[p].rec)]
    /\ prod' = [prod EXCEPT ![p] = [@ EXCEPT !.pc = "publish"]]
    /\ UNCHANGED <<consumer_pos, producer_pos, cons, nrec, live, delivered>>

\* Stores producer_pos and returns the pointer behind the header.
Publish(p) ==
    LET l == prod[p] IN
    /\ l.pc = "publish"
    /\ producer_pos' = l.ppos + total_size(l.size)
    /\ live' = live \cup {[pos |-> l.ppos, size |-> l.size, rec |-> l.rec]}
    /\ prod' = [prod EXCEPT ![p] = [@ EXCEPT !.pc = "fill",
                                             !.ptr = Offset(l.ppos + 1)]]
    /\ UNCHANGED <<consumer_pos, data, cons, nrec, delivered>>

\* The program (or bpf_ringbuf_output's memcpy) writes the record through
\* the pointer, linearly: it may run into the second half of the data area.
PayloadAreaLong(first, size) == first .. first + total_size(size) - 1

PayloadArea(first, size) == first .. first + total_size(size) - 2

Fill(p) ==
    LET l == prod[p] IN
    /\ l.pc = "fill"
    /\ data' = [w \in DataArea |->
                  IF w \in PayloadArea(l.ptr, l.size) THEN Payload(l.rec)
                                                      ELSE data[w]]
    /\ prod' = [prod EXCEPT ![p] = [@ EXCEPT !.pc = "submit"]]
    /\ UNCHANGED <<consumer_pos, producer_pos, cons, nrec, live, delivered>>

\* ringbuf::submit: the header's words in front of the sample, modulo the mask.
HeaderOf(ptr) == Offset(Words + ptr - 1)

SettleNextWord(ptr, discard) ==
    LET hdr == data[Offset(ptr)] IN
    [data EXCEPT ![Offset(ptr)] =
        [hdr EXCEPT !.busy = FALSE, !.discard = hdr.discard \/ discard]]

Settle(ptr, discard) ==
    LET hdr == data[HeaderOf(ptr)] IN
    [data EXCEPT ![HeaderOf(ptr)] =
        [hdr EXCEPT !.busy = FALSE, !.discard = hdr.discard \/ discard]]

\* bpf_ringbuf_submit and bpf_ringbuf_discard read the map's fd from the
\* word in front of the sample.  In front of offset 0 lies the end of the
\* producer page, which is zero: fd 0 is no ring buffer and the call is lost.
\* bpf_ringbuf_output already knows the fd.
FdFound(l) == l.helper = "output" \/ l.ptr > 0

Submit(p) ==
    LET l == prod[p] IN
    /\ l.pc = "submit"
    /\ \E discard \in BOOLEAN :
          /\ l.helper = "output" => ~discard
          /\ data' = IF FdFound(l) THEN Settle(l.ptr, discard) ELSE data
    /\ prod' = [prod EXCEPT ![p] = IdleProducer]
    /\ UNCHANGED <<consumer_pos, producer_pos, cons, nrec, live, delivered>>

----------------------------------------------------------------------------
(* ringbuf::fetch_data *)

\* "sample not committed yet, bail out for now"
NotCommittedNever(hdr) == FALSE

NotCommitted(hdr) == hdr.busy

FetchBegin ==
    /\ cons.pc = "idle"
    /\ cons' = [IdleConsumer EXCEPT !.pc = "outer", !.cpos = consumer_pos]
    /\ UNCHANGED <<consumer_pos, producer_pos, data, prod, nrec, live,
                   delivered>>

FetchOuter ==
    /\ cons.pc = "outer"
    /\ cons' = [cons EXCEPT !.pc = "inner", !.got = FALSE,
                            !.ppos = producer_pos]
    /\ UNCHANGED <<consumer_pos, producer_pos, data, prod, nrec, live,
                   delivered>>

\* The callback runs before the position that frees its record is stored;
\* the mutant stores first.
FetchInnerReleasing ==
    LET hdr == data[Offset(cons.cpos)] IN
    /\ cons.pc = "inner"
    /\ IF cons.cpos < cons.ppos /\ ~NotCommitted(hdr)
         THEN /\ consumer_pos' = cons.cpos + roundup_len(hdr.len)
              /\ live' = {r \in live : r.pos >= consumer_pos'}
         ELSE UNCHANGED <<consumer_pos, live>>
    /\ cons' =
         IF cons.cpos >= cons.ppos
         THEN IF cons.got THEN [cons EXCEPT !.pc = "outer"] ELSE IdleConsumer
         ELSE IF NotCommitted(hdr)
         THEN IdleConsumer
         ELSE [cons EXCEPT !.pc = IF hdr.discard THEN "store" ELSE "call",
                           !.got = TRUE, !.at = cons.cpos,
                           !.cpos = cons.cpos + roundup_len(hdr.len)]
    /\ UNCHANGED <<producer_pos, data, prod, nrec, delivered>>

\* while (cons_pos < prod_pos): a busy record ends the call, another one is
\* passed over locally and, unless discarded, handed to the callback.
FetchInner ==
    LET hdr == data[Offset(cons.cpos)] IN
    /\ cons.pc = "inner"
    /\ cons' =
         IF cons.cpos >= cons.ppos
         THEN IF cons.got THEN [cons EXCEPT !.pc = "outer"] ELSE IdleConsumer
         ELSE IF NotCommitted(hdr)
         THEN IdleConsumer
         ELSE [cons EXCEPT !.pc = IF hdr.discard THEN "store" ELSE "call",
                           !.got = TRUE, !.at = cons.cpos,
                           !.cpos = cons.cpos + roundup_len(hdr.len)]
    /\ UNCHANGED <<consumer_pos, producer_pos, data, prod, nrec, live,
                   delivered>>

\* The callback reads the sample behind the header, linearly; when it
\* fails, fetch_data releases the record and returns.
FetchCall ==
    LET h == Offset(cons.at) IN
    /\ cons.pc = "call"
    /\ delivered' = Append(delivered,
           [rec |-> data[h].rec,
            from |-> {data[w].rec : w \in PayloadArea(h + 1, data[h].len)}])
    /\ \E err \in BOOLEAN : cons' = [cons EXCEPT !.pc = "store", !.stop = err]
    /\ UNCHANGED <<consumer_pos, producer_pos, data, prod, nrec, live>>

FetchStore ==
    /\ cons.pc = "store"
    /\ consumer_pos' = cons.cpos
    /\ live' = {r \in live : r.pos >= cons.cpos}
    /\ cons' = IF cons.stop THEN IdleConsumer ELSE [cons EXCEPT !.pc = "inner"]
    /\ UNCHANGED <<producer_pos, data, prod, nrec, delivered>>

----------------------------------------------------------------------------
Produce(p) ==
    \/ ReserveBegin(p) \/ LoadConsumerPos(p) \/ LoadProducerPos(p)
    \/ WriteHeader(p) \/ Publish(p) \/ Fill(p) \/ Submit(p)

Consume == FetchBegin \/ FetchOuter \/ FetchInner \/ FetchCall \/ FetchStore

Next == Consume \/ \E p \in Producers : Produce(p)

Spec == Init /\ [][Next]_vars

\* The consumer keeps polling; a producer that holds a record settles it
\* (programs are verified to, and do not block) but need not reserve more.
FairSpec ==
    /\ Spec
    /\ WF_vars(Consume)
    /\ \A p \in Producers : WF_vars(prod[p].pc # "idle" /\ Produce(p))

\* At most one thread at a time runs programs that reserve in this ring.
SingleProducer == \A p, q \in Producers : p = q

----------------------------------------------------------------------------
\* ringbuf::has_data, what epoll_wait asks before it reports the map.
has_data ==
    /\ consumer_pos < producer_pos
    /\ ~data[Offset(consumer_pos)].busy

\* The producers never run over unread data: at most max_ent bytes lie
\* between the two positions (reserve's test, made on positions that may be
\* stale by the time producer_pos is stored).
NeverOverrun ==
    /\ consumer_pos <= producer_pos
    /\ producer_pos - consumer_pos <= Words

\* Until the consumer releases a record, its header stays the header of this
\* record: no other header and no payload is written over it, so fetch_data
\* finds every record boundary where reserve put it.
HeadersIntact ==
    \A r \in live :
       LET hdr == data[Offset(r.pos)] IN
       hdr.kind = "header" /\ hdr.len = r.size /\ hdr.rec = r.rec

\* The records lie back to back from consumer_pos to producer_pos: there is
\* one at consumer_pos unless the ring is empty, and each ends where the
\* next one, or producer_pos, is.
RecordsTile ==
    LET starts == {r.pos : r \in live} \cup {producer_pos} IN
    /\ consumer_pos \in starts
    /\ \A r \in live : r.pos + total_size(r.size) \in starts

\* fetch_data can walk the ring: from consumer_pos each header it reads is
\* one that reserve wrote, and leads to the next, up to producer_pos.
BoundariesIntact == RecordsTile /\ HeadersIntact

\* What reserve returned to two producers never overlaps ("Guard for
\* reserving memory").
Holding(p) == prod[p].pc \in {"fill", "submit"}
Reserved(p) == prod[p].ppos .. prod[p].ppos + total_size(prod[p].size) - 1
ReservationsDisjoint ==
    \A p, q \in Producers :
       p # q /\ Holding(p) /\ Holding(q) => Reserved(p) \cap Reserved(q) = {}

\* A header on the last word before max_ent: reserve's pointer behind it wraps
\* to offset 0, where submit finds no fd and from where fetch_data, which does
\* not wrap, does not read.
OnLastWord(pos) == Offset(pos + 1) = 0

\* The callback is given the bytes that were written into the record it is
\* called for, and nothing of another record or of the untouched memory,
\* unless the record's header is on the last word.
DeliveredIntact ==
    [][delivered' # delivered /\ ~OnLastWord(cons.at) =>
         LET sample == delivered'[Len(delivered')]
         IN  sample.from \subseteq {sample.rec}]_vars

\* Once has_data has said that a record is ready, it says so until
\* fetch_data moves on: an epoll_wait that reported the map did not lie.
HasDataStable ==
    [][has_data /\ consumer_pos' = consumer_pos => has_data']_vars

\* Every record that was reserved is released again: submitted ones are
\* read, discarded ones skipped, and nothing blocks the ring but a record
\* whose header is on the last word.
RecordsReleased ==
    \A n \in 1 .. MaxRecords :
       (\E r \in live : r.rec = n)
         ~> \/ ~(\E r \in live : r.rec = n)
            \/ \E r \in live : OnLastWord(r.pos)

----------------------------------------------------------------------------
\* The records of S in the order of their positions.
Sorted(S) ==
    CHOOSE q \in UNION {[1 .. n -> S] : n \in 0 .. MaxRecords} :
       /\ \A r \in S : \E i \in DOMAIN q : q[i] = r
       /\ \A i, j \in DOMAIN q : i < j => q[i].pos < q[j].pos

\* What the headers in d say of the records of S, oldest first.
Status(r, d) ==
    LET hdr == d[Offset(r.pos)]
    IN  IF hdr.busy THEN "busy" ELSE IF hdr.discard THEN "dropped" ELSE "ready"
QueueOf(S, d) ==
    LET q == Sorted(S)
    IN  [i \in DOMAIN q |-> [rec |-> q[i].rec, st |-> Status(q[i], d)]]

\* The records fetch_data has not passed.
Unread ==
    {r \in live : r.pos >= IF cons.pc = "store" THEN cons.cpos
                                                ELSE consumer_pos}

\* The ring implements a queue of records with a settled state: a record
\* leaves it when the callback has run (or it is passed over as discarded).
Queue == INSTANCE RingBufQueue WITH
    queue <- QueueOf(Unread, data),
    delivered <- [i \in DOMAIN delivered |-> delivered[i].rec]

\* reserve, submit and fetch_data together behave as that queue.
IsQueue == Queue!Spec
=============================================================================
