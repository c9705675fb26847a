--------------------------- MODULE PosAsyncCkpt ---------------------------
(***************************************************************************)
(* Concurrent checkpointing in the POS worker, built with CkptOptLevel 2   *)
(* and the pipeline: the top half, a thread that copies the handles while  *)
(* the worker goes on running calls, and the bottom half, which the worker *)
(* runs to complete a dump.                                                *)
(*                                                                         *)
(* The handles are GPU memory, active from the start; their state is the   *)
(* sequence of calls that wrote to it.  A launch writes to one handle, a   *)
(* copy to none, and the RPC thread waits for it.  The parser has no queue *)
(* of its own here: it passes a call on to the worker when it is issued,   *)
(* unless it answers the call itself.  Call 0, which created the handles,  *)
(* has run.                                                                *)
(***************************************************************************)
EXTENDS Integers, Sequences, FiniteSetsExt

CONSTANTS
    Handles,
    NoHandle,     \* what a copy writes to
    MaxCalls,     \* bound on the calls
    MaxEvents,    \* bound on the requests and the failures together
    MaxReplies    \* bound on the replies to one request

ASSUME HandlesAssumption == NoHandle \notin Handles
ASSUME BoundsAssumption ==
    MaxCalls \in Nat /\ MaxEvents \in Nat /\ MaxReplies \in Nat \ {0}

VARIABLES
    rpc,              \* the RPC thread; "waiting" is is_under_sync_call
    offline_counter, api_inst_pc,
    call,             \* the calls, by id
    skipped,          \* those the parser answered and the worker never sees
    parser2worker_wq, ckptdag_wq,
    mem,              \* the device memory of each handle
    state_preserve_counter, slot,   \* of each handle; the on-device copy
    persist_thread,   \* of each handle, with the state it writes
    worker, wqes, max_wqe_id,       \* the worker thread
    th,               \* the top-half thread
    TH_actve, BH_active, async_cmd, dirty_handles, persist_handles,
                      \* async_ckpt_cxt
    cmd, cmd_wq, replies, oob,      \* the commands and the OOB thread
    files,            \* the checkpoint directory of each command
    faults,           \* failures so far
    start, missed     \* history: the memory when the checkpoint began; the
                      \* launches run between two attempts of the bottom half

client == <<rpc, offline_counter, api_inst_pc, call, skipped>>
handles == <<mem, state_preserve_counter, slot, persist_thread>>
ckpt_cxt == <<TH_actve, BH_active, async_cmd, dirty_handles, persist_handles>>
oob_vars == <<cmd, cmd_wq, replies, oob>>
history == <<start, missed>>
vars == <<client, parser2worker_wq, ckptdag_wq, handles, worker, wqes,
          max_wqe_id, th, ckpt_cxt, oob_vars, files, faults, history>>

Calls == 1..MaxCalls
Cmds == 1..MaxEvents
State == Seq(Calls)
Torn == <<0>>      \* a copy of memory that was written to meanwhile

Thread == [status : {"none", "running", "ok", "failed"}, cmd : 0..MaxEvents,
           state : Seq(0..MaxCalls)]
Attempt == [dump : BOOLEAN, do_cow : BOOLEAN, force_recompute : BOOLEAN,
            retval : {"success", "failed"}]
IsDirectory(f) ==
    /\ DOMAIN f = {"state", "ra", "ua"}
    /\ DOMAIN f.state \subseteq Handles
    /\ \A h \in DOMAIN f.state : f.state[h] \in Seq(0..MaxCalls)
    /\ f.ra \subseteq Calls /\ f.ua \subseteq Calls

TypeOK ==
    /\ rpc \in {"idle", "locked", "waiting"} /\ offline_counter \in 0..2
    /\ api_inst_pc \in 1..(MaxCalls + 1)
    /\ call \in [Calls -> Handles \cup {NoHandle}] /\ skipped \subseteq Calls
    /\ parser2worker_wq \in Seq(Calls) /\ ckptdag_wq \in Seq(Calls)
    /\ mem \in [Handles -> State] /\ slot \in [Handles -> Seq(0..MaxCalls)]
    /\ state_preserve_counter \in [Handles -> 0..3]
    /\ persist_thread \in [Handles -> Thread]
    /\ worker \in [pc : {"loop", "copy", "wait", "launch", "raise", "first",
                         "again", "stopped", "drain", "sync_persist"},
                   max : 0..MaxCalls]
    /\ wqes \in Seq(Calls) /\ max_wqe_id \in 0..MaxCalls
    /\ th \in [pc : {"add", "copy", "wait", "persisted", "reply", "exit"},
               todo : SUBSET Handles, handle : Handles \cup {NoHandle},
               seen : State, cmd : 0..MaxEvents, retval : {"success", "failed"}]
    /\ TH_actve \in BOOLEAN /\ BH_active \in BOOLEAN
    /\ async_cmd \in 0..MaxEvents
    /\ dirty_handles \subseteq Handles /\ persist_handles \subseteq Handles
    /\ cmd \in Seq(Attempt) /\ cmd_wq \in Seq(Cmds)
    /\ replies \in Seq(Cmds) /\ Len(replies) <= MaxReplies
    /\ oob \in {"idle", "waiting", "removed"}
    /\ DOMAIN files = Cmds /\ \A c \in Cmds : IsDirectory(files[c])
    /\ faults \in 0..MaxEvents
    /\ start \in [Handles -> State] /\ missed \subseteq Calls

NoThread == [status |-> "none", cmd |-> 0, state |-> <<>>]
Exited == [pc |-> "exit", todo |-> {}, handle |-> NoHandle, seen |-> <<>>,
           cmd |-> 0, retval |-> "success"]
Polling == [pc |-> "loop", max |-> 0]
NoFiles == [state |-> <<>>, ra |-> {}, ua |-> {}]

Init ==
    /\ rpc = "idle" /\ offline_counter = 0 /\ api_inst_pc = 1
    /\ call = [i \in Calls |-> NoHandle] /\ skipped = {}
    /\ parser2worker_wq = <<>> /\ ckptdag_wq = <<>>
    /\ mem = [h \in Handles |-> <<>>] /\ slot = [h \in Handles |-> <<>>]
    /\ state_preserve_counter = [h \in Handles |-> 0]
    /\ persist_thread = [h \in Handles |-> NoThread]
    /\ worker = Polling /\ wqes = <<>> /\ max_wqe_id = 0 /\ th = Exited
    /\ TH_actve = FALSE /\ BH_active = FALSE /\ async_cmd = 0
    /\ dirty_handles = {} /\ persist_handles = {}
    /\ cmd = <<>> /\ cmd_wq = <<>> /\ replies = <<>> /\ oob = "idle"
    /\ files = [c \in Cmds |-> NoFiles] /\ faults = 0
    /\ start = mem /\ missed = {}

Fail == faults + Len(cmd) < MaxEvents /\ faults' = faults + 1

----------------------------------------------------------------------------
(* The RPC thread and the OOB thread *)

try_lock_client ==
    /\ rpc = "idle" /\ offline_counter = 0 /\ api_inst_pc <= MaxCalls
    /\ rpc' = "locked"
    /\ UNCHANGED <<offline_counter, api_inst_pc, call, skipped,
                   parser2worker_wq, ckptdag_wq, handles, worker, wqes,
                   max_wqe_id, th, ckpt_cxt, oob_vars, files, faults, history>>

Issue(h) ==
    /\ rpc = "locked"
    /\ rpc' = IF h = NoHandle THEN "waiting" ELSE "idle"
    /\ call' = [call EXCEPT ![api_inst_pc] = h]
    /\ api_inst_pc' = api_inst_pc + 1
    /\ parser2worker_wq' = Append(parser2worker_wq, api_inst_pc)
    /\ UNCHANGED <<offline_counter, skipped, ckptdag_wq, handles, worker, wqes,
                   max_wqe_id, th, ckpt_cxt, oob_vars, files, faults, history>>

\* A query, which the parser answers, or a call that fails in the parser.
Skip(sync) ==
    /\ rpc = "locked"
    /\ rpc' = IF sync THEN "waiting" ELSE "idle"
    /\ skipped' = skipped \cup {api_inst_pc}
    /\ api_inst_pc' = api_inst_pc + 1
    /\ UNCHANGED <<offline_counter, call, parser2worker_wq, ckptdag_wq, handles,
                   worker, wqes, max_wqe_id, th, ckpt_cxt, oob_vars, files,
                   faults, history>>

LastSkipped == api_inst_pc - 1 \in skipped

ParserReturns ==
    /\ rpc = "waiting" /\ LastSkipped
    /\ rpc' = "idle"
    /\ UNCHANGED <<offline_counter, api_inst_pc, call, skipped,
                   parser2worker_wq, ckptdag_wq, handles, worker, wqes,
                   max_wqe_id, th, ckpt_cxt, oob_vars, files, faults, history>>

ConfirmOffline ==
    /\ rpc = "idle" /\ offline_counter = 1
    /\ offline_counter' = 2
    /\ UNCHANGED <<rpc, api_inst_pc, call, skipped, parser2worker_wq,
                   ckptdag_wq, handles, worker, wqes, max_wqe_id, th, ckpt_cxt,
                   oob_vars, files, faults, history>>

\* do_cow of a pre-dump is not initialised; force_recompute needs do_cow.
Request(dump, do_cow, force) ==
    /\ oob = "idle" /\ faults + Len(cmd) < MaxEvents
    /\ force => dump /\ do_cow
    /\ oob' = "waiting"
    /\ cmd' = Append(cmd, [dump |-> dump, do_cow |-> do_cow,
                           force_recompute |-> force, retval |-> "success"])
    /\ cmd_wq' = Append(cmd_wq, Len(cmd) + 1)
    /\ UNCHANGED <<client, parser2worker_wq, ckptdag_wq, handles, worker, wqes,
                   max_wqe_id, th, ckpt_cxt, replies, files, faults, history>>

\* The OOB thread answers the user and removes a client that was dumped.
TakeReply ==
    /\ oob = "waiting" /\ replies # <<>>
    /\ oob' = IF /\ cmd[Head(replies)].dump
                 /\ cmd[Head(replies)].retval = "success"
                THEN "removed" ELSE "idle"
    /\ replies' = <<>>
    /\ UNCHANGED <<client, parser2worker_wq, ckptdag_wq, handles, worker, wqes,
                   max_wqe_id, th, ckpt_cxt, cmd, cmd_wq, files, faults,
                   history>>

reply_parser(c, r) ==
    /\ Len(replies) < MaxReplies
    /\ cmd' = [cmd EXCEPT ![c].retval = r]
    /\ replies' = Append(replies, c)

----------------------------------------------------------------------------
(* The top-half thread: add, commit and persist every handle *)

done(h) == [th EXCEPT !.pc = "add", !.todo = @ \ {h}, !.handle = NoHandle,
                      !.seen = <<>>]

\* checkpoint_add with the counter at n: the first thread copies the memory,
\* the second waits, and then there is nothing to do.  The test and the
\* fetch_add are one step: a copy that ends between them only makes the count
\* 4, which is read like 3.
AddCountAlways(n) == n + 1
AddCount(n) == IF n < 2 THEN n + 1 ELSE n

AddRoleEager(n) == IF n = 0 THEN "copy" ELSE "done"
AddRole(n) == CASE n = 0 -> "copy" [] n = 1 -> "wait" [] OTHER -> "done"

ThAdd(h) ==
    LET n == state_preserve_counter[h]
    IN  /\ th.pc = "add" /\ h \in th.todo
        /\ state_preserve_counter' =
             [state_preserve_counter EXCEPT ![h] = AddCount(n)]
        /\ th' = IF AddRole(n) = "done" THEN done(h)
                   ELSE [th EXCEPT !.pc = AddRole(n), !.handle = h,
                                   !.seen = mem[h]]
        /\ UNCHANGED <<client, parser2worker_wq, ckptdag_wq, mem, slot,
                       persist_thread, worker, wqes, max_wqe_id, ckpt_cxt,
                       oob_vars, files, faults, history>>

ThCopied ==
    LET h == th.handle
    IN  /\ th.pc = "copy"
        /\ slot' = [slot EXCEPT ![h] = IF mem[h] = th.seen THEN th.seen
                                         ELSE Torn]
        /\ state_preserve_counter' = [state_preserve_counter EXCEPT ![h] = 3]
        /\ th' = done(h)
        /\ UNCHANGED <<client, parser2worker_wq, ckptdag_wq, mem,
                       persist_thread, worker, wqes, max_wqe_id, ckpt_cxt,
                       oob_vars, files, faults, history>>

ThWaited ==
    /\ th.pc = "wait" /\ state_preserve_counter[th.handle] = 3
    /\ th' = done(th.handle)
    /\ UNCHANGED <<client, parser2worker_wq, ckptdag_wq, handles, worker, wqes,
                   max_wqe_id, ckpt_cxt, oob_vars, files, faults, history>>

Running(h) == persist_thread[h].status = "running"

\* checkpoint_persist_async of the handles in S, each with the state given.
Persist(c, S, state) ==
    /\ \A h \in S : ~Running(h)
    /\ persist_thread' = [h \in Handles |-> IF h \in S
         THEN [status |-> "running", cmd |-> c, state |-> state[h]]
         ELSE persist_thread[h]]
    /\ persist_handles' = persist_handles \cup S

\* The commits are done.  A handle whose commit failed has no file.
ThPersist(S) ==
    /\ th.pc = "add" /\ th.todo = {}
    /\ IF S = Handles THEN UNCHANGED faults ELSE Fail
    /\ Persist(th.cmd, S, slot)
    /\ th' = [th EXCEPT !.pc = "persisted",
                        !.retval = IF S = Handles THEN @ ELSE "failed"]
    /\ UNCHANGED <<client, parser2worker_wq, ckptdag_wq, mem,
                   state_preserve_counter, slot, worker, wqes, max_wqe_id,
                   TH_actve, BH_active, async_cmd, dirty_handles, oob_vars,
                   files, history>>

\* A dump goes on with the bottom half; a pre-dump ends here.
ThFinish ==
    LET dump == cmd[th.cmd].dump
    IN  /\ th.pc = "persisted"
        /\ TH_actve' = (TH_actve /\ dump) /\ BH_active' = (BH_active \/ dump)
        /\ th' = [th EXCEPT !.pc = IF dump THEN "exit" ELSE "reply"]
        /\ UNCHANGED <<client, parser2worker_wq, ckptdag_wq, handles, worker,
                       wqes, max_wqe_id, async_cmd, dirty_handles,
                       persist_handles, oob_vars, files, faults, history>>

ThReply ==
    /\ th.pc = "reply" /\ \A h \in persist_handles : ~Running(h)
    /\ persist_thread' = [h \in Handles |-> IF h \in persist_handles
                            THEN NoThread ELSE persist_thread[h]]
    /\ reply_parser(th.cmd,
         IF \A h \in persist_handles : persist_thread[h].status = "ok"
           THEN th.retval ELSE "failed")
    /\ UNCHANGED <<cmd_wq, oob>>
    /\ th' = Exited
    /\ UNCHANGED <<client, parser2worker_wq, ckptdag_wq, mem,
                   state_preserve_counter, slot, worker, wqes, max_wqe_id,
                   ckpt_cxt, files, faults, history>>

\* A directory's states with the file of handle h written.
Written(state, h, s) ==
    [g \in DOMAIN state \cup {h} |-> IF g = h THEN s ELSE state[g]]

\* The persist thread of handle h.
Persisted(h, ok) ==
    /\ Running(h)
    /\ IF ok THEN UNCHANGED faults ELSE Fail
    /\ persist_thread' = [persist_thread EXCEPT ![h] =
                  [NoThread EXCEPT !.status = IF ok THEN "ok" ELSE "failed"]]
    /\ files' = IF ok THEN [files EXCEPT ![persist_thread[h].cmd].state =
                              Written(@, h, persist_thread[h].state)] ELSE files
    /\ UNCHANGED <<client, parser2worker_wq, ckptdag_wq, mem,
                   state_preserve_counter, slot, worker, wqes, max_wqe_id, th,
                   ckpt_cxt, oob_vars, history>>

----------------------------------------------------------------------------
(* The worker thread: commands *)

\* TH_actve stands for the previous checkpoint thread still running.
Refuse ==
    /\ worker.pc = "loop" /\ wqes = <<>> /\ cmd_wq # <<>> /\ TH_actve
    /\ reply_parser(Head(cmd_wq), "failed")
    /\ cmd_wq' = Tail(cmd_wq)
    /\ UNCHANGED <<client, parser2worker_wq, ckptdag_wq, handles, worker, wqes,
                   max_wqe_id, th, ckpt_cxt, oob, files, faults, history>>

\* The worker joins the previous thread, resets the context and drains the
\* device.  If that fails it returns without a reply.
process_cmd(ok) ==
    /\ worker.pc = "loop" /\ wqes = <<>> /\ cmd_wq # <<>> /\ ~TH_actve
    /\ th.pc = "exit"
    /\ IF ok THEN UNCHANGED faults ELSE Fail
    /\ cmd_wq' = Tail(cmd_wq) /\ async_cmd' = Head(cmd_wq)
    /\ dirty_handles' = {} /\ persist_handles' = {} /\ ckptdag_wq' = <<>>
    /\ state_preserve_counter' = [h \in Handles |-> 0]
    /\ start' = mem /\ missed' = {}
    /\ th' = IF ok THEN [Exited EXCEPT !.pc = "add", !.todo = Handles,
                                       !.cmd = Head(cmd_wq)] ELSE th
    /\ worker' = IF ok THEN [worker EXCEPT !.pc = "raise"] ELSE worker
    /\ UNCHANGED <<client, parser2worker_wq, mem, slot, persist_thread, wqes,
                   max_wqe_id, TH_actve, BH_active, cmd, replies, oob, files>>

\* The flag is set after the thread was started.
SetActive ==
    /\ worker.pc = "raise"
    /\ TH_actve' = TRUE /\ worker' = Polling
    /\ UNCHANGED <<client, parser2worker_wq, ckptdag_wq, handles, wqes,
                   max_wqe_id, th, BH_active, async_cmd, dirty_handles,
                   persist_handles, oob_vars, files, faults, history>>

----------------------------------------------------------------------------
(* The worker thread: calls *)

PollCalls ==
    /\ worker.pc = "loop" /\ wqes = <<>> /\ parser2worker_wq # <<>>
    /\ ~BH_active \/ rpc = "waiting"
    /\ wqes' = parser2worker_wq /\ parser2worker_wq' = <<>>
    /\ UNCHANGED <<client, ckptdag_wq, handles, worker, max_wqe_id, th,
                   ckpt_cxt, oob_vars, files, faults, history>>

\* A handle written to while the top half is active becomes dirty.
DirtiedByCow(h) ==
    IF TH_actve /\ cmd[async_cmd].do_cow THEN dirty_handles \cup {h}
      ELSE dirty_handles

Dirtied(h) == IF TH_actve THEN dirty_handles \cup {h} ELSE dirty_handles

\* Before a launch during a checkpoint the handle it writes to is preserved
\* by checkpoint_add, if the checkpoint copies on write and has not yet.
Prepare ==
    LET h == call[Head(wqes)]
        n == state_preserve_counter[h]
        cow == TH_actve /\ cmd[async_cmd].do_cow
    IN  /\ worker.pc = "loop" /\ wqes # <<>>
        /\ ckptdag_wq' = IF cow THEN Append(ckptdag_wq, Head(wqes))
                           ELSE ckptdag_wq
        /\ IF h # NoHandle /\ cow /\ h \notin dirty_handles
             THEN /\ worker' = [worker EXCEPT !.pc =
                       IF AddRole(n) = "done" THEN "launch" ELSE AddRole(n)]
                  /\ state_preserve_counter' =
                       [state_preserve_counter EXCEPT ![h] = AddCount(n)]
             ELSE /\ worker' = [worker EXCEPT !.pc = "launch"]
                  /\ UNCHANGED state_preserve_counter
        /\ dirty_handles' = IF h = NoHandle THEN dirty_handles ELSE Dirtied(h)
        /\ UNCHANGED <<client, parser2worker_wq, mem, slot, persist_thread,
                       wqes, max_wqe_id, th, TH_actve, BH_active, async_cmd,
                       persist_handles, oob_vars, files, faults, history>>

\* The worker's own copy is done, or the copy it waited for.
Preserved ==
    LET h == call[Head(wqes)]
    IN  /\ \/ /\ worker.pc = "copy"
              /\ slot' = [slot EXCEPT ![h] = mem[h]]
              /\ state_preserve_counter' =
                   [state_preserve_counter EXCEPT ![h] = 3]
           \/ /\ worker.pc = "wait" /\ state_preserve_counter[h] = 3
              /\ UNCHANGED <<slot, state_preserve_counter>>
        /\ worker' = [worker EXCEPT !.pc = "launch"]
        /\ UNCHANGED <<client, parser2worker_wq, ckptdag_wq, mem,
                       persist_thread, wqes, max_wqe_id, th, ckpt_cxt, oob_vars,
                       files, faults, history>>

\* The call is launched; a copy is waited for and returned.
Launch ==
    LET i == Head(wqes)
        h == call[i]
    IN  /\ worker.pc = "launch"
        /\ IF h = NoHandle THEN rpc' = "idle" /\ UNCHANGED <<mem, missed>>
             ELSE /\ mem' = [mem EXCEPT ![h] = Append(@, i)]
                  /\ missed' = IF BH_active /\ ~TH_actve THEN missed \cup {i}
                                 ELSE missed
                  /\ UNCHANGED rpc
        /\ wqes' = Tail(wqes) /\ max_wqe_id' = i
        /\ worker' = Polling
        /\ UNCHANGED <<offline_counter, api_inst_pc, call, skipped,
                       parser2worker_wq, ckptdag_wq, state_preserve_counter,
                       slot, persist_thread, th, ckpt_cxt, oob_vars, files,
                       faults, start>>

----------------------------------------------------------------------------
(* The worker thread: the bottom half *)

BhStart ==
    /\ worker.pc = "loop" /\ wqes = <<>>
    /\ BH_active /\ rpc # "waiting" /\ Len(replies) < MaxReplies
    /\ TH_actve' = FALSE
    /\ worker' = [pc |-> CASE offline_counter = 0 -> "first"
                           [] offline_counter = 1 -> "again"
                           [] OTHER -> "stopped", max |-> 0]
    /\ offline_counter' = IF offline_counter = 0 THEN 1 ELSE offline_counter
    /\ UNCHANGED <<rpc, api_inst_pc, call, skipped, parser2worker_wq,
                   ckptdag_wq, handles, wqes, max_wqe_id, th, BH_active,
                   async_cmd, dirty_handles, persist_handles, oob_vars, files,
                   faults, history>>

StoppedOnly ==
    /\ worker.pc \in {"first", "again"} /\ offline_counter = 2
    /\ worker' = [worker EXCEPT !.pc = "stopped"]
    /\ UNCHANGED <<client, parser2worker_wq, ckptdag_wq, handles, wqes,
                   max_wqe_id, th, ckpt_cxt, oob_vars, files, faults, history>>

\* The RPC thread confirms, or a caller waits and its call comes first.
Stopped ==
    /\ worker.pc \in {"first", "again"}
    /\ \/ /\ offline_counter = 2
          /\ worker' = [worker EXCEPT !.pc = "stopped"]
       \/ /\ worker.pc = "first" /\ offline_counter # 2 /\ rpc = "waiting"
          /\ worker' = Polling
    /\ UNCHANGED <<client, parser2worker_wq, ckptdag_wq, handles, wqes,
                   max_wqe_id, th, ckpt_cxt, oob_vars, files, faults, history>>

\* The device cannot be synchronised, or a stateless handle persisted.
BhFails ==
    /\ worker.pc = "stopped" /\ Fail
    /\ worker' = [worker EXCEPT !.pc = "sync_persist"]
    /\ UNCHANGED <<client, parser2worker_wq, ckptdag_wq, handles, wqes,
                   max_wqe_id, th, ckpt_cxt, oob_vars, files, history>>

\* Dirty copy: the handles written since the checkpoint began are committed
\* and persisted again.  A failure, after some of them, skips the rest.
DirtyCopy(D) ==
    /\ worker.pc = "stopped" /\ ~cmd[async_cmd].force_recompute
    /\ IF D = dirty_handles THEN UNCHANGED faults ELSE Fail
    /\ Persist(async_cmd, D, mem)
    /\ worker' = [worker EXCEPT !.pc = IF D = dirty_handles THEN "drain"
                                         ELSE "sync_persist"]
    /\ UNCHANGED <<client, parser2worker_wq, ckptdag_wq, mem,
                   state_preserve_counter, slot, wqes, max_wqe_id, th, TH_actve,
                   BH_active, async_cmd, dirty_handles, oob_vars, files,
                   history>>

\* Recomputation, on demand or when the dirty handles are too large: the
\* calls since the checkpoint began are saved, n of them before a failure.
Recompute(n) ==
    /\ worker.pc = "stopped" /\ cmd[async_cmd].do_cow
    /\ IF n = Len(ckptdag_wq) THEN UNCHANGED faults ELSE Fail
    /\ files' = [files EXCEPT ![async_cmd].ra =
                   @ \cup Range(SubSeq(ckptdag_wq, 1, n))]
    /\ ckptdag_wq' = <<>>
    /\ worker' = [worker EXCEPT !.pc = IF n = Len(ckptdag_wq) THEN "drain"
                                         ELSE "sync_persist"]
    /\ UNCHANGED <<client, parser2worker_wq, handles, wqes, max_wqe_id, th,
                   ckpt_cxt, oob_vars, history>>

Undrained == worker.max < api_inst_pc - 1 /\ max_wqe_id < api_inst_pc - 1

\* The unexecuted calls are saved, n of those that arrived before a failure.
Drain(n) ==
    LET saved == Range(SubSeq(parser2worker_wq, 1, n))
        all == n = Len(parser2worker_wq)
    IN  /\ worker.pc = "drain" /\ Undrained /\ parser2worker_wq # <<>>
        /\ IF all THEN UNCHANGED faults ELSE Fail
        /\ files' = [files EXCEPT ![async_cmd].ua = @ \cup saved]
        /\ parser2worker_wq' = <<>>
        /\ worker' = IF all THEN [worker EXCEPT !.max = Max(saved \cup {@})]
                       ELSE [worker EXCEPT !.pc = "sync_persist"]
        /\ UNCHANGED <<client, ckptdag_wq, handles, wqes, max_wqe_id, th,
                       ckpt_cxt, oob_vars, history>>

Drained ==
    /\ worker.pc = "drain" /\ ~Undrained
    /\ worker' = [worker EXCEPT !.pc = "sync_persist"]
    /\ UNCHANGED <<client, parser2worker_wq, ckptdag_wq, handles, wqes,
                   max_wqe_id, th, ckpt_cxt, oob_vars, files, faults, history>>

\* The persist threads have finished.  Whatever failed before, the dump is
\* a success unless one of them failed or the handles cannot be torn down.
SyncPersist ==
    /\ worker.pc = "sync_persist"
    /\ \A h \in persist_handles : persist_thread[h].status = "ok"
    /\ persist_thread' = [h \in Handles |-> IF h \in persist_handles
                            THEN NoThread ELSE persist_thread[h]]
    /\ BH_active' = FALSE
    /\ \/ reply_parser(async_cmd, "success") /\ UNCHANGED faults
       \/ reply_parser(async_cmd, "failed") /\ Fail
    /\ worker' = Polling
    /\ UNCHANGED <<client, parser2worker_wq, ckptdag_wq, mem,
                   state_preserve_counter, slot, wqes, max_wqe_id, th, TH_actve,
                   async_cmd, dirty_handles, persist_handles, cmd_wq, oob,
                   files, history>>

\* The thread of f failed, or was collected before: the bottom half replies
\* and stays active.  The handles before f have been collected.
SyncPersistFails(f, S) ==
    /\ worker.pc = "sync_persist"
    /\ f \in persist_handles /\ persist_thread[f].status \in {"failed", "none"}
    /\ S \subseteq {h \in persist_handles : persist_thread[h].status = "ok"}
    /\ persist_thread' = [h \in Handles |-> IF h \in S \cup {f}
                            THEN NoThread ELSE persist_thread[h]]
    /\ reply_parser(async_cmd, "failed")
    /\ worker' = Polling
    /\ UNCHANGED <<client, parser2worker_wq, ckptdag_wq, mem,
                   state_preserve_counter, slot, wqes, max_wqe_id, th, ckpt_cxt,
                   cmd_wq, oob, files, faults, history>>

----------------------------------------------------------------------------
IssueAny == \/ \E h \in Handles \cup {NoHandle} : Issue(h)
            \/ \E sync \in BOOLEAN : Skip(sync)
RpcStep == try_lock_client \/ ConfirmOffline \/ IssueAny \/ ParserReturns
OobStep == TakeReply
           \/ \E dump, do_cow, force \in BOOLEAN : Request(dump, do_cow, force)
ThStep == \/ \E h \in Handles : ThAdd(h)
          \/ ThCopied \/ ThWaited \/ ThFinish \/ ThReply
          \/ \E S \in SUBSET Handles : ThPersist(S)
PersistStep(h) == \E ok \in BOOLEAN : Persisted(h, ok)
WorkerStep ==
    \/ Refuse \/ (\E ok \in BOOLEAN : process_cmd(ok)) \/ SetActive
    \/ PollCalls \/ Prepare \/ Preserved \/ Launch
    \/ BhStart \/ Stopped \/ BhFails
    \/ (\E D \in SUBSET dirty_handles : DirtyCopy(D))
    \/ (\E n \in 0..Len(ckptdag_wq) : Recompute(n))
    \/ (\E n \in 0..Len(parser2worker_wq) : Drain(n))
    \/ Drained \/ SyncPersist
    \/ \E f \in Handles, S \in SUBSET Handles : SyncPersistFails(f, S)

Next == \/ RpcStep \/ OobStep \/ ThStep \/ WorkerStep
        \/ \E h \in Handles : PersistStep(h)

Spec == Init /\ [][Next]_vars

\* Every thread is scheduled.  The application need not call and the user
\* need not ask for a dump, but a request that was let in is served.
FairSpec ==
    /\ Spec
    /\ WF_vars(IssueAny) /\ WF_vars(ParserReturns)
    /\ WF_vars(ConfirmOffline) /\ WF_vars(TakeReply)
    /\ WF_vars(ThStep) /\ WF_vars(WorkerStep)
    /\ \A h \in Handles : WF_vars(PersistStep(h))

----------------------------------------------------------------------------
(* Properties *)

\* With copy-on-write, what the top half preserves of a handle is its memory
\* at the time the checkpoint began, whichever of the two threads copied it
\* and however many calls have run since.
SnapshotConsistent ==
    async_cmd # 0 /\ faults = 0 /\ cmd[async_cmd].do_cow =>
      \A h \in Handles : state_preserve_counter[h] = 3 => slot[h] = start[h]

Increasing(s) == \A j, k \in DOMAIN s : j < k => s[j] < s[k]

\* The calls of S that write to handle h, in the order they were issued in.
Ascending(S, h) ==
    CHOOSE s \in UNION {[1..n -> S] : n \in 0..MaxCalls} :
        Range(s) = {i \in S : call[i] = h} /\ Increasing(s)

\* What a restore from directory f makes of handle h.
Restored(f, h) == f.state[h] \o Ascending(f.ra, h) \o Ascending(f.ua, h)

\* A successful dump, by dirty copy or by recomputation, has every launch the
\* application issued exactly once: in the state of its handle, to be
\* recomputed, or unexecuted.
Complete == \A h \in Handles :
    /\ h \in DOMAIN files[Len(cmd)].state
    /\ Restored(files[Len(cmd)], h) = Ascending(1..(api_inst_pc - 1), h)

\* Dumps are complete unless something failed or a launch ran between two
\* attempts of the bottom half, which disabled the top half in the first.
DumpComplete == oob = "removed" /\ faults = 0 /\ missed = {} => Complete

\* The bottom half disables the top half "to avoid missed dirty handles".
NothingMissed == oob = "removed" /\ faults = 0 => Complete

\* A dump or pre-dump is answered, unless a failure ends it silently.  There
\* is one other way for it to hang: the drain waits for the worker to see the
\* last call, and the parser answered that call.
DumpAnswered ==
    oob = "waiting" ~> \/ oob # "waiting" \/ faults > 0
                       \/ [](worker.pc = "drain" /\ LastSkipped)

====
