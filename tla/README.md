# A formal model of the eGPU runtime

The repository is a catalogue of paper artifacts. Its largest program is the
eGPU artifact (`src/papers/egpu/artifact`): bpftime, a user-space eBPF runtime,
extended to run eBPF programs on GPUs, with POS, a daemon that checkpoints and
restores GPU processes. These modules model the parts of that
runtime where several threads, processes or devices share state, and the data
structures under them. Paths below are relative to the artifact.

## The system

- The **syscall server** is preloaded into an application that loads eBPF
  programs. It answers `bpf`, `perf_event_open`, `ioctl`, `close` and `dup3`
  itself and keeps what they create in a **handler table** in shared memory.
- **Maps** live in the same shared memory: hash, LRU, arrays, ring buffers.
- **Agents** are loaded into the traced processes. They read the table,
  instantiate programs and links, and run the programs.
- **Programs on the GPU** reach the maps through a block of memory shared with
  a **watcher thread** of the host.
- Programs send data to the loader through **ring buffers** and **software
  perf events**, which the loader polls with `epoll_wait`.
- **POS** (`runtime/pos`) executes the GPU calls of a client process on its
  behalf. An RPC thread takes a call in, the client's **parser** thread finds
  its handles, the **worker** thread runs it on the device; an asynchronous
  call returns at once, a synchronous one polls for its completion. An
  **out-of-band** thread sends dump, pre-dump and restore commands down the
  same path. Threads share queues and flags without a lock: before a dump the
  worker raises `offline_counter` to 1 and the RPC thread confirms with 2,
  unless it is in a synchronous call, to which the worker gives way.
  Built with `CkptOptLevel` 1, the default, the worker stops to copy the
  handles; with 2 a **top-half** thread copies them while calls go on, and the
  worker completes the dump in a **bottom half**.

## Modules

| Module | Code | State and actions |
|---|---|---|
| `GpuHelperCall` | `attach/nv_attach_impl/examples/default_trampoline/default_trampoline.cu`, `runtime/src/attach/bpf_attach_ctx_cuda.cpp` | The shared block field by field, each GPU thread's place in `make_helper_call`, the watcher's place in its loop, and the destructor that stops it. |
| `RingBuf` | `runtime/src/bpf_map/userspace/ringbuf_map.cpp`, ring buffer helpers of `bpf_helper.cpp` | The data area in 8-byte words, the two positions, each producer's locals in `reserve` and `submit`, the consumer's in `fetch_data`. |
| `RingBufQueue` | what a ring buffer promises | A FIFO queue of records; `RingBuf` refines it. |
| `FdTable` | `handler_manager.cpp`, `bpftime_shm_internal.cpp`, `syscall_context.cpp`, `map_handler.cpp` | The table, the containers in the segment, the kernel's open descriptors, those the application holds, the flag `enable_mock`, and each thread's place in its call. Map names are of four kinds: plain maps, arrays of maps, which `map_free` leaves alone, ring buffers, whose size `map_init` may refuse, and types it does not know. |
| `LruHashMap` | `lru_var_hash_map.cpp` | The capacity, the map, the list entries with their shared and weak pointers, head and tail; one action per operation, as each runs under the handler's lock. |
| `LruCache` | what an LRU map promises | Keys in order of use with their values; `LruHashMap` refines it. |
| `FixHashMap` | `bpftime_hash_map.hpp`, `fix_hash_map.cpp` | The buckets and the count; update and delete by linear probing. |
| `PerfEventBuffer` | `perf_event_handler.cpp`, polling in `bpftime_shm.cpp` | The ring's bytes, its positions, each writer's place in `output_data`, and the loader's walk over the records. |
| `PosDaemon` | `pos/src/workspace.cpp`, `parser.cpp`, `worker.cpp`, `client.cpp`, `oob/ckpt_dump.cpp`, `oob/ckpt_predump.cpp`, `oob/restore.cpp` | Level 1. The eight queues, the shared command objects, `offline_counter` and `is_under_sync_call`, each thread's place in its loop, the handles with the calls that wrote to them, the directory of each dump. Failures of calls, handles, files and the device; `crashed` where the code asserts or `POS_ERROR` throws. The client has made no call yet or has made some; the names of saved calls are compared by their decimal digits. |
| `PosAsyncCkpt` | the `ckpt_async` half of `pos/src/worker.cpp`, `handle.cpp` | Level 2 with the pipeline. `async_ckpt_cxt`, the preserve counter and the on-device copy of each handle, one persist thread per handle, the top half, the calls that the parser answers without the worker (`skipped`), and the worker's place in a call, in copy-on-write and in the bottom half. |

`MC*` modules give the constants their values for TLC, `*Proofs` modules and
`PosAsyncCkptDump` hold the TLAPS proofs, `PosAsyncCkptInv` the invariants that
the proofs about `PosAsyncCkpt` share. Operators whose names extend another
one's (`UnlinkedKeepingTail`, `FitsExactly`) are altered versions that break a
property; no specification uses them.

Four things come from outside the repository and are modelled by how the code
uses them: the kernel's choice of the lowest free descriptor, shared and weak
pointers of Boost, libbpf's reader of a perf ring, and the application of a POS
client, which passes only addresses it was given. The reader loads
`data_head` once, walks the records and stores `data_tail` at the end.

## Runs

| Run | Instance | What it shows |
|---|---|---|
| `gpu_helper_two` | 2 GPU threads, all 6 helpers, 2 maps | Types; responses reach their caller; signals are never stale; a request does not change while it is served; a caller inside the lock returns. |
| `gpu_helper_arguments` | 2 threads | **Violated:** arguments are copied before the lock is taken, so another thread replaces them. |
| `ringbuf_single` | 1 producer, ring of 4 words, 4 records | Types; no overrun; headers survive and tile the ring; `has_data` stays true until the record is fetched; the ring is a queue. Unless a header is on the ring's last word, callbacks see what was written and every record is released. |
| `ringbuf_shared` | 2 producers | **Violated:** the reserve lock is only ever taken shared, and two producers get the same words. |
| `fdtable_one` | 1 thread, 4 descriptors, all calls, an array of maps, a map of unknown type | Links live, handlers at open descriptors, an empty table once all is closed, held handlers untouched. |
| `fdtable_two` | 2 threads, 3 descriptors, a plain map, a ring buffer | Containers belong to a map, and to one each but for ring buffers, though calls slip through to the kernel; nothing but a close that slips through leaves a handler at a free number. |
| `lru_cache` | 4 keys, capacity 0 to 3, 2 values | The list is sound, nothing leaks, no null pointer is used unless the capacity is 0, and the map is an LRU cache. |
| `hash_delete` | 4 keys, 3 of them colliding, 5 buckets | **Violated:** deleting a key hides a key that was probed past it. |
| `perf_event_ring` | 1 writer, ring of 8 bytes, 5 calls | The ring never fills up; records arrive whole and in order; all published ones arrive. |
| `pos_dump` | 2 handles, 2 calls, 2 requests or failures | No launch is lost, doubled or reordered over dumps and restores; no caller is inside while the worker confirms or the client is removed; failed launches are reported by the next copy; callers and dumps are answered but for the cases named below. |
| `pos_async` | 2 handles, 2 calls, 2 requests or failures | With copy-on-write the snapshot is the memory at the start; dumps are complete unless a launch ran between two attempts of the bottom half; requests are answered but for one case named below. |
| `pos_missed` | as `pos_async` | **Violated:** the bottom half disables the top half, gives way to a synchronous call, and a launch before that call is in no file. |

The four violated properties restate a comment, a document or a unit test of
the repository; `PROJECT.json` quotes each under `findings`.

**Bounds.** Rings are small enough that records wrap at every offset, fill the
ring but for one unit, and include one that never fits. Four or five records
bring the positions around at least once. `ringbuf_single` has records of one
and of three words and one that does not fit; with two-word records added it
passes too (272,915 states, five minutes). `gpu_helper_two` tells maps apart and
not contents, which only the violated property is about. In `FdTable` four
descriptors hold a program, a perf event, and the two links that
`BPF_LINK_CREATE` makes; then the table is full, which is a case of its own.
The kinds of map names are spread over the two runs, two names in each; the
proofs take any names of any kind.
Four keys over three LRU entries give every position of the list an eviction, a
move and a deletion; one address more than there are entries lets an address be
reused. `MaxRecords` is the only bound on a counter. The properties of
`RingBuf`, `FdTable` and `PerfEventBuffer` that hold for one producer, thread or
writer only are checked for one; what two of them do is a violated run above or
a hazard with a note.

In the POS modules two calls let a launch be queued behind or before a
synchronous call, and two events let a dump fail and be repeated, or follow a
pre-dump. `PosDaemon` starts with a client that has made no call, where call 0
is the first and `api_inst_pc - 1` wraps, or with one that has made call 8, so
that call 10 meets the order of file names. `PosAsyncCkpt` starts with a client
whose call 0 made the handles. `MaxReplies` bounds the replies a failed dump
goes on sending.

The properties name their exceptions, each a behaviour of the code:

- `SyncCallReturns`: the daemon dies, of an assertion or because the handle of a
  call cannot be restored. `__restore_broken_handles` throws then, and the
  branch of its caller that would skip the call is never taken.
- `DumpAnswered`, in both modules: the drain waits for ever for a last call that
  never reaches the worker (`LastSkipped`). The parser answered it, there is
  none, or it ran before a restore. In `PosAsyncCkpt` runs with a failure are
  excepted too, since a dump that cannot drain the device ends without a reply.
- `CallsKept`: handles created after the parser collected them are not in the
  dump.
- `ContainersOwned`: `set_handler` ignores that `map_init` refused a ring
  buffer. Closing the handler that is left frees the container of its name, which
  may belong to another ring buffer.
- `NoNullDereference`: the first insertion into an LRU map of capacity 0 reads
  the key of an entry that does not exist.

**Symmetry** is used for application threads and list addresses. No liveness
property is checked under it.

**Deadlock** is not checked where the system may stop: a watcher told to stop
leaves GPU threads spinning, the writers of `perf_event_ring` end at their
bound, and a POS client ends when it was dumped or its daemon aborted.

**Fairness.** The watcher and the consumers poll in a loop, so their steps are
weakly fair. A GPU thread or a producer inside a call goes on, because an eBPF
program cannot block; it need not start another call. For GPU threads this holds
if they are of different warps: where the threads of a warp run in lockstep, one
that spins for the lock can keep the holder from going on, and `HelperReturns`
claims nothing for them. The POS threads poll in loops and never block on one
another except by polling, so each is weakly fair; nothing makes the application
call or the user ask for a dump. The RPC thread confirms when it looks at the
client again (`try_lock_client`), which the remoting framework is taken to do
for a client that is connected.

## Proofs

Each holds for every value of the constants under the named assumptions.

`GpuHelperCallProofs`: types; responses belong to their caller
(`ResponseBelongsToCaller`); no stale signal (`SignalsNeverStale`); stable
requests (`RequestIsStable`); and, for a single thread, its own arguments
(`OneThreadOwnArguments`, the property that fails for two).
`AnswersOwnRequest` alone is not inductive, since nothing in it says who may
raise a flag. The invariant adds that the lock holder
is the thread inside the call (`LockInv`), that at most one of "raised",
"served" and "replied" holds and only while the holder spins (`SignalInv`), and
that the request id travels unchanged (`RequestInv`).

`RingBufProofs`, for one producer: types (`RingTypes`), the positions are never
more than a ring apart (`RingNeverOverrun`), headers are intact until released
(`BoundariesPreserved`), a reported record stays readable (`ReadyStaysReady`),
and the callback is given what was written into its record (`SamplesIntact`).
The argument needs that live records are disjoint and lie between the positions
(`LiveInv`), that what the producer read still bounds the positions
(`ProducerInv`), and that positions less than a ring apart have different
offsets (`OffsetInjective`, from the division lemmas before it). For the samples
it adds that a record whose producer has filled it holds nothing else
(`PayloadIntact`). Records are written linearly, into the second half of the
data area if they run past the end of the ring, but a word of either half stands
for one position between the two shared ones (`OffsetShift`), so no two live
records have a word in common (`PayloadsApart`). The same module
shows that the ring implements `RingBufQueue` (`RingIsQueue`). The mapping sorts
the unread records by position, with `CHOOSE`; the proof rests on the names of
the unread records being consecutive numbers in the order of positions
(`NamesInv`), so that the sorted sequence exists, is unique and is indexed by
those names. Existence is an induction over the number of records, done as a
least counterexample with `WFMin`.

`PerfEventBufferProofs`, types for any number of writers, and for one writer:
the unread bytes never fill the ring (`RingNeverFull`), and the loader gets the
published records whole, once each and in order (`LoaderGetsRecordsInOrder`).
The invariant says that there are positions at which the records published so
far begin, one after the other up to `data_head`, and that from the place where
the loader reads on each of them is whole in the ring (`Tiled`); that what the
writer loaded still bounds the free bytes, and what it has staged and copied is
its own record (`WriterInv`).

`LruHashMapProofs`, for any keys, values and capacity: no use of a null pointer
unless the capacity is 0 (`NoOperationOnNull`), nothing leaks and nothing alive
is destroyed (`NothingLeaks`), the list reads the same from both ends
(`ListIsSound`), the size stays in its bound (`LruTypes`). The invariant: the
entries of the map are a chain (`Chain`), that is, `next_entry` and
`previous_entry` undo each other between head and tail, and no smaller set holds
the head and is closed under `next_entry`. The last part stands for reachability
without recursion, and the shared pointers that keep entries alive are the same
kind of closure, so each operation on the list is shown to turn a chain over
some entries into a chain over the entries it should leave.

`FdTableProofs`, for any number of threads: types (`TableTypes`), every
container belongs to a map, and containers and initialised maps are one to one
but for ring buffers (`ContainersAlwaysOwned`), and held handlers stay
(`HeldAlwaysUntouched`). Both rest on `Invariance`: every open descriptor has
one owner, the application or one call in progress. A handler other than a
duplicate is stranded only by a close that went past the table
(`OnlyPassedCloseStrands`): between the two halves of a close through the table
only a duplicate can come to sit at the number (`Emptied`), since the number is
the closing thread's own until the kernel has it back. For one thread: links
never dangle (`LinksAlwaysLive`), handlers sit at open descriptors
(`AlwaysKernelBacked`) and nothing is left (`NothingEverLeft`), from the second
invariant `Single`. The proofs assume finitely many descriptors, all inside the
table, and end where the process dies.

`PosDaemonProofs`, for any number of calls, handles, requests, failures and
restores: the assertion in the worker's second attempt to stop the client never
fails (`NeverSyncWhileConfirming`) and the client is never removed under a
caller (`NeverRemovedUnderCaller`). Neither is inductive: a second command that
reached the worker could start an attempt of its own. The invariant adds that
the flag is up exactly while the caller waits and that a confirmed client has
no caller (`Rpc`); that at most one command is underway while the client is
online, and completions are then of pre-dumps (`Online`); and that while the
worker asks for the confirmation the dump is the only command and the RPC
thread can only finish the call that made the worker give way (`Stopping`).
After the confirmation there may be several commands, since a failed dump is
taken up again, and the invariant says nothing of them.

The same module shows that launches on a handle take effect in the order the
application issued them (`LaunchesInOrder`). This uses the types of the whole
daemon (`DaemonTypes`, which needs that the calls of a directory can be listed
in the order of their file names) and the handshake above. The
invariant `Order` has four parts. The three queues hold increasing ranges of
calls, apart from the calls of a restored client, which may be in another order
but are polled together (`Queues`). What took effect comes before what is
queued; among polled calls that are out of order, the worker's assertion stops
the daemon before an early one runs (`Effects`). The worker is at a command only
between calls, and a client that is stopped with no dump active has nothing left
to run (`Stopped`). A directory that can be restored holds handles whose calls
come before its unexecuted calls, and those before its `api_inst_pc`; a
directory of a command still underway is on the way to that, and once a call was
saved to it nothing else takes effect (`Directories`). The last part needs every
place a command may still be in (`Live`), since a failed dump is taken up again.
Call 0 has to be set apart in these orders (`Pending`, `Counter`): the worker's
ids start at 0, so that a drain takes call 0 for executed while it is queued.
The theorem says nothing of a daemon that has crashed.

On top of these, a copy that returns success hides no failed launch
(`FailuresAlwaysReported`). The worker returns calls in the order it runs them,
which is the order of their numbers (`Returned`, from `Order`), and a call still
to run has no result (`Unfinished`). So when the call underway finds its own
completion, those of the launches before it have been in the same queue, and
each was polled in this round or an earlier one, whose error is kept
(`Noticed`); a completion from the parser is itself a failure
(`ParserReturned`). A restore breaks this, since the old completions are gone,
and the invariant `FailInv` claims nothing after one.

`PosAsyncCkptProofs`, for any number of handles, calls and requests: what a
checkpoint with copy-on-write has preserved of a handle is its memory when the
checkpoint began (`SnapshotAlwaysConsistent`). The top half and the worker
settle who copies a handle by a counter alone, so the invariant says what each
of its values means for the two threads (`CowInv`): 0, nobody has begun and the
memory is untouched; 1, one thread copies; 2, one copies and the other waits;
3, the handle is preserved, and only then a call is launched on it. This needs
that one command is underway at a time (`OneCommand`), that the worker joins in
for as long as the top half copies (`ActiveInv`), and that no persist thread is
left from before and none has failed (`PersistInv`, without which collecting
them could fail with no fault). After a fault commands may overlap, and
the theorem, like the property, claims nothing.

The same module shows the types of `PosAsyncCkpt`, whatever has failed
(`CkptTypes`), and that a client is removed only once its dump is complete
(`DumpAlwaysComplete`): the states on disk, with the logged calls run again on
them and the queued calls after those, are all the calls issued on each handle,
in order. `DumpComplete` speaks of the end alone; its invariant `DumpInv` (in
`PosAsyncCkptInv`) says where each call is before that. The calls are in order
through the two queues, with gaps where the parser answered one (`NumberInv`),
and exactly those that the worker is still to see (`Due`) are queued or saved
(`CountInv`); no caller is inside from the confirmation on (`OfflineInv`). The
memory of a handle is what the calls run so far wrote to it (`MemInv`). While a
dump is underway, a handle that is not dirty is as it was at the start and its
preserved copy agrees (`CleanInv`), and with copy-on-write the log has all the
calls run since (`RedoInv`, `LoggedInv`); this needs that a call is logged and
its handle dirty before it is launched (`ActiveDump`). The top half hands on
every handle as preserved (`PersistDump`). So once the bottom half has saved the
dirty handles, or the log, each directory has a state and a log that are
together the calls run so far (`SavedState`), whether its persist thread has
finished or not. Except the saved calls, a directory is empty until then
(`DirInv`). `PosAsyncCkptDump` has one lemma per handler. Dropping `missed = {}`
is what `pos_missed` refutes; the invariant needs it for the handles that are
not dirty (`CleanDump`) and for what is saved of them (`SavedDump`).

**Only model-checked:** liveness (`HelperReturns`, `RecordsReleased`,
`EventuallyDelivered`, `SyncCallReturns`, `DumpAnswered`), which is outside the
prover; the refinement `IsLruCache`, whose mapping walks the list recursively;
that stop-the-world dumps lose nothing (`CallsKept`), whose invariant would have
to count each call over queues, directories and handles, through restores; and
`FixHashMap`.

## Not modelled

`PROJECT.json` lists every part with its reason. In short: PTX rewriting, JIT
compilation, hooks and virtual machines are text, machine code and library
calls; maps shared with the kernel are system calls; the daemon, tools and
catalogue scripts are sequential. Iteration over maps changes no state.
Exhaustion of shared memory, payloads of 64 KiB and more, and a ring mapped
twice are left out, as is `run_with_kernel`. Of POS, the registration of
clients, tracing, migration, the client-side agent, the metrics and the CUDA
wrappers of each kind of handle are left out; handles are memory areas that are
never freed, and the on-demand restore of level 2 is not followed. The other
artifacts (XProf, Neutrino, ProfInfer, EInfer) are separate programs.

## Plan

1. The per-CPU hash map, whose operations share buffers without a lock, and
   programs that hold a pointer into a map while another thread evicts.
2. The agent and the attach context, composed with `FdTable`: instantiation of
   a table that changes, detach by signal, failure half way.
3. The GPU state manager: pause, checkpoint, restore and replacement.
4. Start-up of the syscall server, before `FdTable` begins.
5. Proofs: `CallsKept`, on top of the invariant `Order` of `PosDaemonProofs`, and
   `IsLruCache`, on top of the chain of `LruHashMapProofs`.
6. POS: handles that are created and freed during a concurrent checkpoint, and
   the on-demand restore of level 2.
