------------------------ MODULE PosAsyncCkptProofs ------------------------
(***************************************************************************)
(* Proofs about PosAsyncCkpt, for any number of handles, calls and         *)
(* requests.  What the threads share is always well-formed.  With          *)
(* copy-on-write a checkpoint is the memory of the moment it began: the    *)
(* top half and the worker agree on who copies a handle by its counter     *)
(* alone.  And a client is removed only once its dump is complete.         *)
(***************************************************************************)
EXTENDS PosAsyncCkptDump

\* The values of a preserve counter are different.
LEMMA Digits == 0 # 1 /\ 0 # 2 /\ 0 # 3 /\ 1 # 2 /\ 1 # 3 /\ 2 # 3
OBVIOUS

\* What adding to a counter gives, whatever it holds.
LEMMA AddTypes ==
    \A n \in 0..3 : /\ n = 0 \/ n = 1 \/ n = 2 \/ n = 3
                    /\ AddCount(n) \in 0..3
                    /\ AddRole(n) \in {"copy", "wait", "done"}
<1> SUFFICES ASSUME NEW n \in 0..3
             PROVE  /\ n = 0 \/ n = 1 \/ n = 2 \/ n = 3
                    /\ AddCount(n) \in 0..3
                    /\ AddRole(n) \in {"copy", "wait", "done"}
  OBVIOUS
<1>1. n = 0 \/ n = 1 \/ n = 2 \/ n = 3
  OBVIOUS
<1>2. {0, 1, 2, 3} \subseteq 0..3
  OBVIOUS
<1> QED BY Zenon, <1>1, <1>2, AddCases

\* The checkpoint of handle h is untouched by a step that changes neither the
\* handle nor the place of the two threads on it.
LEMMA CowKept ==
    ASSUME NEW h \in Handles, CowInv(h),
           mem'[h] = mem[h], start'[h] = start[h], slot'[h] = slot[h],
           state_preserve_counter'[h] = state_preserve_counter[h],
           state_preserve_counter[h] # 3 => h \in th'.todo,
           h \in dirty_handles' => h \in dirty_handles,
           ThAt("copy", h) => th'.seen = th.seen,
           \A pc \in {"copy", "wait"} : ThAt(pc, h)' <=> ThAt(pc, h),
           \A pc \in {"copy", "wait", "launch"} :
               WorkerAt(pc, h)' <=> WorkerAt(pc, h)
    PROVE  CowInv(h)'
<1>1. /\ ThAt("copy", h)' <=> ThAt("copy", h)
      /\ ThAt("wait", h)' <=> ThAt("wait", h)
  OBVIOUS
<1>2. /\ WorkerAt("copy", h)' <=> WorkerAt("copy", h)
      /\ WorkerAt("wait", h)' <=> WorkerAt("wait", h)
      /\ WorkerAt("launch", h)' <=> WorkerAt("launch", h)
  OBVIOUS
<1> QED BY <1>1, <1>2 DEF CowInv

\* The checkpoint of each handle is untouched by a step that changes neither
\* the handles nor the place of the two threads.
LEMMA SnapshotKept ==
    ASSUME Snapshot, do_cow' => do_cow,
           UNCHANGED <<mem, start, slot, state_preserve_counter,
                       dirty_handles, th, Target>>,
           \A pc \in {"copy", "wait", "launch"} :
               worker.pc = pc <=> worker'.pc = pc
    PROVE  Snapshot'
<1> SUFFICES ASSUME do_cow', NEW h \in Handles PROVE CowInv(h)'
  BY DEF Snapshot
<1>1. CowInv(h)
  BY DEF Snapshot
<1>2. \A pc \in {"copy", "wait", "launch"} :
         WorkerAt(pc, h)' <=> WorkerAt(pc, h)
  BY DEF WorkerAt
<1>3. \A pc \in {"copy", "wait"} : ThAt(pc, h)' <=> ThAt(pc, h)
  BY DEF ThAt
<1>4. state_preserve_counter[h] # 3 => h \in th'.todo
  BY <1>1 DEF CowInv
<1> QED BY Zenon, <1>1, <1>2, <1>3, <1>4, CowKept

\* So is it by a step of the top half that has every handle preserved.
LEMMA SnapshotIdle ==
    ASSUME Inv, do_cow' => do_cow, th.todo = {}, th'.pc \notin {"copy", "wait"},
           UNCHANGED <<mem, start, slot, state_preserve_counter,
                       dirty_handles, worker, Target>>
    PROVE  Snapshot'
<1> SUFFICES ASSUME do_cow', NEW h \in Handles PROVE CowInv(h)'
  BY DEF Snapshot
<1>1. CowInv(h) /\ th.pc \notin {"copy", "wait"}
  BY DEF Inv, Types, ThreadType, Safe, Snapshot
<1>2. state_preserve_counter[h] = 3
  BY <1>1 DEF CowInv
<1>3. \A pc : WorkerAt(pc, h)' <=> WorkerAt(pc, h)
  BY DEF WorkerAt
<1>4. ~ThAt("copy", h)' /\ ~ThAt("wait", h)'
  BY DEF ThAt
<1> QED BY <1>1, <1>2, <1>3, <1>4 DEF CowInv

\* A reply changes the result of a command and nothing else of it.
LEMMA ReplyKept ==
    ASSUME CmdType, NEW c, NEW r \in {"success", "failed"},
           reply_parser(c, r)
    PROVE  /\ cmd' \in Seq(Attempt) /\ Len(cmd') = Len(cmd)
           /\ \A i \in 1..Len(cmd) : cmd'[i].do_cow = cmd[i].do_cow
           /\ replies' # <<>>
<1>1. /\ cmd' \in Seq(Attempt) /\ Len(cmd') = Len(cmd)
      /\ \A i \in 1..Len(cmd) : cmd'[i].do_cow = cmd[i].do_cow
  <2>1. /\ cmd' \in [1..Len(cmd) -> Range(cmd')]
        /\ \A i \in 1..Len(cmd) :
             cmd'[i] = IF i = c THEN [cmd[i] EXCEPT !.retval = r] ELSE cmd[i]
    <3>1. DOMAIN cmd = 1..Len(cmd)
      BY DEF CmdType
    <3>2. DOMAIN cmd' = DOMAIN cmd
      BY DEF reply_parser
    <3>3. \A i \in DOMAIN cmd :
            cmd'[i] = IF i = c THEN [cmd[i] EXCEPT !.retval = r] ELSE cmd[i]
      BY DEF reply_parser
    <3>4. cmd' = [i \in DOMAIN cmd |-> cmd'[i]]
      BY Zenon DEF reply_parser
    <3> QED BY <3>1, <3>2, <3>3, <3>4 DEF Range
  <2>2. \A i \in 1..Len(cmd) : /\ [cmd[i] EXCEPT !.retval = r] \in Attempt
                               /\ [cmd[i] EXCEPT !.retval = r].do_cow
                                    = cmd[i].do_cow
                               /\ cmd[i] \in Attempt
    <3> TAKE i \in 1..Len(cmd)
    <3>1. cmd[i] \in Attempt
      BY DEF CmdType
    <3> QED BY <3>1 DEF Attempt
  <2>3. cmd' \in [1..Len(cmd) -> Attempt] /\ Len(cmd) \in Nat
    BY <2>1, <2>2 DEF CmdType
  <2>4. cmd' \in Seq(Attempt) /\ Len(cmd') = Len(cmd)
    BY <2>3
  <2> QED BY Zenon, <2>1, <2>2, <2>4
<1>2. replies' # <<>>
  BY DEF reply_parser
<1> QED BY <1>1, <1>2

---------------------------------------------------------------------------
(* The top half *)

\* What a step of the top half leaves alone.
LEMMA ThFrame ==
    ASSUME Inv, UNCHANGED <<rpc, call, api_inst_pc, parser2worker_wq, wqes,
                            worker>>
    PROVE  CallInv' /\ Target' = Target
BY DEF Inv, Types, CallInv, Target, Issued

\* The top half takes up a handle: it copies it if it is the first to come,
\* waits for the worker's copy if that is underway, or finds it preserved.
LEMMA ThAddInv == ASSUME Inv, NEW g \in Handles, ThAdd(g) PROVE Inv'
<1>1. UNCHANGED <<rpc, call, api_inst_pc, parser2worker_wq, wqes, worker, mem,
                  slot, persist_thread, ckpt_cxt, oob_vars, start>>
  BY DEF ThAdd, history, client
<1>2. PICK n \in 0..3 : n = state_preserve_counter[g]
  BY DEF Inv, Types, HandleType
<1>3. /\ th.pc = "add" /\ g \in th.todo
      /\ state_preserve_counter' =
           [state_preserve_counter EXCEPT ![g] = AddCount(n)]
  BY <1>2 DEF ThAdd
<1>4. /\ DOMAIN th' = DOMAIN th /\ th'.retval = th.retval
      /\ \/ /\ AddRole(n) = "done" /\ th'.pc = "add"
            /\ th'.todo = th.todo \ {g}
         \/ /\ AddRole(n) # "done" /\ th'.pc = AddRole(n)
            /\ th'.todo = th.todo /\ th'.handle = g /\ th'.seen = mem[g]
  BY <1>2 DEF ThAdd, done, Inv, Types, ThreadType
<1>5. ThreadType' /\ th'.pc \in {"add", "copy", "wait"}
  BY SMTT(20), <1>2, <1>1, <1>3, <1>4, AddCases DEF Inv, Types, ThreadType
<1>6. HandleType' /\ CmdType'
  BY SMTT(20), <1>1, <1>2, <1>3, AddCases
     DEF Inv, Types, HandleType, CmdType, ckpt_cxt,
     oob_vars
<1>7. CallInv' /\ UNCHANGED Target
  BY Zenon, <1>1, ThFrame
<1>8. OneCommand' /\ PersistInv' /\ ActiveInv'
  BY Zenon, <1>1, <1>3, <1>5 DEF Inv, Safe, OneCommand, PersistInv, ActiveInv,
     ckpt_cxt, oob_vars
<1>9. ASSUME do_cow', NEW h \in Handles PROVE CowInv(h)'
  <2>1. CowInv(h)
    BY <1>1, <1>9 DEF Inv, Safe, Snapshot, do_cow, ckpt_cxt, oob_vars
  <2>2. /\ WorkerAt("copy", h)' <=> WorkerAt("copy", h)
        /\ WorkerAt("wait", h)' <=> WorkerAt("wait", h)
        /\ WorkerAt("launch", h)' <=> WorkerAt("launch", h)
    BY <1>1, <1>7 DEF WorkerAt
  <2>3. ~ThAt("copy", h) /\ ~ThAt("wait", h)
    BY <1>3 DEF ThAt
  <2>4. mem'[h] = mem[h] /\ slot'[h] = slot[h] /\ start'[h] = start[h]
        /\ (h \in dirty_handles' <=> h \in dirty_handles)
    BY <1>1 DEF ckpt_cxt
  <2>5. CASE h # g
    <3>1. /\ state_preserve_counter'[h] = state_preserve_counter[h]
          /\ h \in th.todo => h \in th'.todo
          /\ ~ThAt("copy", h)' /\ ~ThAt("wait", h)'
      BY Zenon, <1>3, <1>4, <2>5 DEF ThAt, Inv, Types, HandleType
    <3> QED BY Zenon, <2>1, <2>2, <2>3, <2>4, <3>1 DEF CowInv
  <2>6. CASE h = g
    <3>1. /\ state_preserve_counter[h] = n
          /\ state_preserve_counter'[h] = AddCount(n)
      BY Zenon, <1>2, <1>3, <2>6 DEF Inv, Types, HandleType
    <3>2. n # 2
      BY Zenon, <2>1, <2>3, <3>1 DEF CowInv
    <3>3. \/ /\ n = 3 /\ ~ThAt("copy", h)' /\ ~ThAt("wait", h)'
          \/ /\ n = 0 /\ ThAt("copy", h)' /\ ~ThAt("wait", h)'
             /\ th'.seen = mem[h] /\ h \in th'.todo
          \/ /\ n = 1 /\ ThAt("wait", h)' /\ ~ThAt("copy", h)'
             /\ h \in th'.todo
      BY <1>2, <1>3, <1>4, <2>6, <3>2, AddCases DEF ThAt
    <3> QED BY SMTT(20), <2>1, <2>2, <2>3, <2>4, <3>1, <3>3, AddCases DEF CowInv
  <2> QED BY <2>5, <2>6
<1> QED BY Zenon, <1>5, <1>6, <1>7, <1>8, <1>9 DEF Inv, Types, Safe, Snapshot

\* The top half has copied its handle, or the worker has: the copy was made
\* of memory nobody wrote to.
LEMMA ThDoneInv == ASSUME Inv, ThCopied \/ ThWaited PROVE Inv'
<1>1. UNCHANGED <<rpc, call, api_inst_pc, parser2worker_wq, wqes, worker, mem,
                  persist_thread, ckpt_cxt, oob_vars, start>>
  BY Zenon DEF ThCopied, ThWaited, history, client, handles
<1>2. PICK g \in Handles : g = th.handle /\ g \in th.todo
  BY DEF ThCopied, ThWaited, Inv, Types, ThreadType
<1>3. /\ th.pc \in {"copy", "wait"}
      /\ th'.pc = "add" /\ th'.todo = th.todo \ {g}
      /\ DOMAIN th' = DOMAIN th /\ th'.retval = th.retval
  BY Zenon, <1>2 DEF ThCopied, ThWaited, done, Inv, Types, ThreadType
<1>4. /\ state_preserve_counter' = [state_preserve_counter EXCEPT ![g] = 3]
      /\ DOMAIN slot' = DOMAIN slot
      /\ \A h \in Handles \ {g} : slot'[h] = slot[h]
      /\ \/ /\ th.pc = "copy"
            /\ slot'[g] = IF mem[g] = th.seen THEN th.seen ELSE Torn
         \/ /\ th.pc = "wait" /\ slot'[g] = slot[g]
            /\ state_preserve_counter[g] = 3
  <2>1. CASE ThCopied
    BY Zenon, <2>1, <1>2 DEF ThCopied, Inv, Types, HandleType
  <2>2. CASE ThWaited
    BY Zenon, <2>2, <1>2 DEF ThWaited, handles, Inv, Types, HandleType
  <2> QED BY Zenon, <2>1, <2>2
<1>5. ThreadType' /\ HandleType'
  BY <1>1, <1>3, <1>4 DEF Inv, Types, ThreadType, HandleType, ckpt_cxt
<1>6. CallInv' /\ UNCHANGED Target
  BY Zenon, <1>1, ThFrame
<1>7. CmdType' /\ OneCommand'
  BY Zenon, <1>1, <1>3
     DEF Inv, Types, CmdType, Safe, OneCommand, ckpt_cxt, oob_vars
<1>8. PersistInv' /\ ActiveInv'
  BY <1>1, <1>3 DEF Inv, Safe, OneCommand, PersistInv, ActiveInv, ckpt_cxt
<1>9. ASSUME do_cow', NEW h \in Handles PROVE CowInv(h)'
  <2>1. CowInv(h)
    BY <1>1, <1>9 DEF Inv, Safe, Snapshot, do_cow, ckpt_cxt, oob_vars
  <2>2. /\ WorkerAt("copy", h)' <=> WorkerAt("copy", h)
        /\ WorkerAt("wait", h)' <=> WorkerAt("wait", h)
        /\ WorkerAt("launch", h)' <=> WorkerAt("launch", h)
    BY <1>1, <1>6 DEF WorkerAt
  <2>3. ~ThAt("copy", h)' /\ ~ThAt("wait", h)'
    BY <1>3 DEF ThAt
  <2>4. mem'[h] = mem[h] /\ start'[h] = start[h]
        /\ (h \in dirty_handles' <=> h \in dirty_handles)
    BY Zenon, <1>1 DEF ckpt_cxt
  <2>5. CASE h = g
    <3>1. state_preserve_counter'[h] = 3
      BY Zenon, <1>4, <2>5 DEF Inv, Types, HandleType
    <3>2. slot'[h] = start[h] /\ ~WorkerAt("copy", h)
      BY SMTT(20), <1>2, <1>3, <1>4, <2>1, <2>5 DEF CowInv, ThAt
    <3> QED BY Zenon, <2>2, <2>3, <2>4, <3>1, <3>2, Digits DEF CowInv
  <2>6. CASE h # g
    <3>1. /\ state_preserve_counter'[h] = state_preserve_counter[h]
          /\ slot'[h] = slot[h] /\ (h \in th.todo => h \in th'.todo)
          /\ ~ThAt("copy", h) /\ ~ThAt("wait", h)
      BY Zenon, <1>2, <1>3, <1>4, <2>6 DEF Inv, Types, HandleType, ThAt
    <3> QED BY Zenon, <2>1, <2>2, <2>3, <2>4, <3>1 DEF CowInv
  <2> QED BY <2>5, <2>6
<1> QED BY Zenon, <1>5, <1>6, <1>7, <1>8, <1>9 DEF Inv, Types, Safe, Snapshot

\* Every handle is preserved and handed to its persist thread.
LEMMA ThPersistInv ==
    ASSUME Inv, UNCHANGED faults, faults = 0, NEW S \in SUBSET Handles,
           ThPersist(S)
    PROVE  Inv'
<1>1. UNCHANGED <<rpc, call, api_inst_pc, parser2worker_wq, wqes, worker, mem,
                  slot, state_preserve_counter, TH_actve, BH_active, async_cmd,
                  dirty_handles, oob_vars, start>>
  BY DEF ThPersist, history, client
<1>2. /\ th.pc = "add" /\ th.todo = {}
      /\ th'.pc = "persisted" /\ th'.todo = {} /\ DOMAIN th' = DOMAIN th
      /\ th'.retval \in {"success", "failed"}
  BY DEF ThPersist, Inv, Types, ThreadType
<1>3. /\ DOMAIN persist_thread' = Handles /\ persist_handles' = S
      /\ \A h \in S : persist_thread'[h].status = "running"
  <2>1. persist_handles = {}
    BY <1>2 DEF Inv, Safe, PersistInv
  <2> QED BY <2>1 DEF ThPersist, Persist
<1>4. ThreadType' /\ HandleType'
  BY Zenon, <1>1, <1>2, <1>3 DEF Inv, Types, ThreadType, HandleType
<1>5. CallInv' /\ UNCHANGED Target
  BY Zenon, <1>1, ThFrame
<1>6. CmdType' /\ OneCommand'
  BY <1>1, <1>2 DEF Inv, Types, CmdType, Safe, OneCommand, oob_vars
<1>7. PersistInv' /\ ActiveInv'
  BY Zenon, <1>1, <1>2, <1>3 DEF PersistInv, ActiveInv
<1>8. Snapshot'
  BY Zenon, <1>1, <1>2, <1>5, SnapshotIdle DEF do_cow, oob_vars
<1> QED BY Zenon, <1>4, <1>5, <1>6, <1>7, <1>8 DEF Inv, Types, Safe

\* The top half ends: a dump is handed to the bottom half, a pre-dump is
\* answered.
LEMMA ThFinishInv == ASSUME Inv, ThFinish PROVE Inv'
<1>1. UNCHANGED <<rpc, call, api_inst_pc, parser2worker_wq, wqes, worker,
                  handles, async_cmd, dirty_handles, persist_handles,
                  oob_vars, start>>
  BY DEF ThFinish, history, client
<1>2. /\ th.pc = "persisted" /\ th.todo = {}
      /\ th'.todo = {} /\ DOMAIN th' = DOMAIN th /\ th'.retval = th.retval
      /\ \/ th'.pc = "exit" /\ BH_active' = TRUE
         \/ th'.pc = "reply" /\ BH_active' = BH_active
      /\ TH_actve' \in BOOLEAN
  <2>1. th.pc = "persisted" /\ th.todo = {}
    BY DEF ThFinish, Inv, Types, ThreadType
  <2>2. CASE cmd[th.cmd].dump
    BY Zenon, <2>1, <2>2 DEF ThFinish, Inv, Types, ThreadType
  <2>3. CASE ~cmd[th.cmd].dump
    BY Zenon, <2>1, <2>3 DEF ThFinish, Inv, Types, ThreadType, CmdType
  <2> QED BY Zenon, <2>1, <2>2, <2>3
<1>3. ThreadType'
  BY <1>1, <1>2 DEF Inv, Types, ThreadType
<1>4. BH_active' \in BOOLEAN
  BY Zenon, <1>2 DEF Inv, Types, CmdType
<1>5. CmdType' /\ HandleType'
  BY Zenon, <1>1, <1>2, <1>4
     DEF Inv, Types, CmdType, HandleType, handles, oob_vars
<1>6. CallInv' /\ UNCHANGED Target
  BY Zenon, <1>1, ThFrame
<1>7. OneCommand'
  BY <1>1, <1>2 DEF Inv, Safe, OneCommand, oob_vars
<1>8. PersistInv' /\ ActiveInv'
  BY Zenon, <1>1, <1>2 DEF Inv, Safe, PersistInv, ActiveInv, handles
<1>9. Snapshot'
  BY Zenon, <1>1, <1>2, <1>6, SnapshotIdle DEF do_cow, handles, oob_vars
<1> QED BY Zenon, <1>3, <1>5, <1>6, <1>7, <1>8, <1>9 DEF Inv, Types, Safe

\* The answer to a pre-dump: nothing of it is left underway.
LEMMA ThReplyInv == ASSUME Inv, ThReply PROVE Inv'
<1>1. UNCHANGED <<rpc, call, api_inst_pc, parser2worker_wq, wqes, worker, mem,
                  state_preserve_counter, slot, ckpt_cxt, cmd_wq, oob, start>>
  BY Zenon DEF ThReply, history, client
<1>2. /\ th.pc = "reply" /\ th.todo = {}
      /\ th'.pc = "exit" /\ th'.todo = {} /\ DOMAIN th' = DOMAIN th
      /\ th'.retval = "success"
      /\ DOMAIN persist_thread' = Handles
  BY Zenon DEF ThReply, Exited, Inv, Types, ThreadType
<1>3. PICK r \in {"success", "failed"} : reply_parser(th.cmd, r)
  BY DEF ThReply, Inv, Types, ThreadType
<1>4. /\ cmd' \in Seq(Attempt) /\ Len(cmd') = Len(cmd)
      /\ \A i \in 1..Len(cmd) : cmd'[i].do_cow = cmd[i].do_cow
      /\ replies' # <<>>
  BY <1>3, ReplyKept DEF Inv, Types
<1>5. ThreadType' /\ HandleType'
  BY Zenon, <1>1, <1>2 DEF Inv, Types, ThreadType, HandleType, ckpt_cxt
<1>6. CallInv' /\ UNCHANGED Target
  BY Zenon, <1>1, ThFrame
<1>7. CmdType' /\ (do_cow' => do_cow)
  BY <1>1, <1>4 DEF Inv, Types, CmdType, do_cow, ckpt_cxt
<1>8. OneCommand' /\ PersistInv' /\ ActiveInv'
  <2>1. oob = "waiting" /\ cmd_wq = <<>> /\ ~BH_active
    BY <1>2 DEF Inv, Safe, OneCommand
  <2> QED BY Zenon, <1>1, <1>2, <2>1 DEF Inv, Safe, OneCommand, PersistInv,
             ActiveInv, ckpt_cxt
<1>9. Snapshot'
  BY Zenon, <1>1, <1>2, <1>6, <1>7, SnapshotIdle DEF ckpt_cxt
<1> QED BY Zenon, <1>5, <1>6, <1>7, <1>8, <1>9 DEF Inv, Types, Safe

\* A persist thread that does not fail leaves its result to be collected.
LEMMA PersistedInv ==
    ASSUME Inv, faults = 0, UNCHANGED faults, NEW g \in Handles,
           NEW ok \in BOOLEAN, Persisted(g, ok)
    PROVE  Inv'
<1>1. UNCHANGED <<rpc, call, api_inst_pc, parser2worker_wq, wqes, worker, th,
                  mem, state_preserve_counter, slot, ckpt_cxt, oob_vars,
                  start>>
  BY DEF Persisted, history, client
<1>2. ok
  BY DEF Persisted, Fail
<1>3. /\ DOMAIN persist_thread' = Handles
      /\ \A h \in Handles : persist_thread'[h].status =
           IF h = g THEN "ok" ELSE persist_thread[h].status
  BY Zenon, <1>2 DEF Persisted, NoThread, Inv, Types, HandleType
<1>4. Types'
  BY <1>1, <1>3, ThFrame DEF Inv, Types, ThreadType, HandleType, CmdType,
     ckpt_cxt, oob_vars
<1>5. OneCommand' /\ ActiveInv'
  BY Zenon, <1>1 DEF Inv, Safe, OneCommand, ActiveInv, ckpt_cxt, oob_vars
<1>6. PersistInv'
  BY Zenon, <1>1, <1>3 DEF Inv, Safe, PersistInv, Types, HandleType, ckpt_cxt
<1>7. Snapshot'
  BY Zenon, <1>1, SnapshotKept DEF Inv, Safe, Target, do_cow, ckpt_cxt, oob_vars
<1> QED BY Zenon, <1>4, <1>5, <1>6, <1>7 DEF Inv, Safe

---------------------------------------------------------------------------
(* The RPC thread and the OOB thread *)

\* The client is let in, gets an answer or confirms, or nothing happens: the
\* invariant reads nothing that changes.
LEMMA IdleInv ==
    ASSUME Inv, \/ rpc' = rpc \/ rpc' = "idle"
                \/ rpc' = "locked" /\ api_inst_pc <= MaxCalls,
           UNCHANGED <<call, api_inst_pc, parser2worker_wq, wqes, worker, th,
                       handles, ckpt_cxt, oob_vars, start>>
    PROVE  Inv'
<1>1. CallInv' /\ ThreadType' /\ UNCHANGED Target
  BY ZenonT(30) DEF Inv, Types, CallInv, ThreadType, Target, Issued
<1>2. HandleType' /\ CmdType'
  BY DEF Inv, Types, HandleType, CmdType, handles, ckpt_cxt, oob_vars
<1>3. OneCommand' /\ PersistInv' /\ ActiveInv'
  BY DEF Inv, Safe, OneCommand, PersistInv, ActiveInv, handles, ckpt_cxt,
     oob_vars
<1>4. Snapshot'
  BY <1>1, SnapshotKept DEF Inv, Safe, do_cow, handles, ckpt_cxt, oob_vars
<1> QED BY Zenon, <1>1, <1>2, <1>3, <1>4 DEF Inv, Types, Safe

\* The steps of the client that issue no call.
LEMMA ClientInv ==
    ASSUME Inv, try_lock_client \/ ConfirmOffline \/ ParserReturns PROVE Inv'
<1>1. UNCHANGED <<call, api_inst_pc, parser2worker_wq, wqes, worker, th,
                  handles, ckpt_cxt, oob_vars, start>>
  BY DEF try_lock_client, ConfirmOffline, ParserReturns, history
<1>2. \/ rpc' = rpc \/ rpc' = "idle"
      \/ rpc' = "locked" /\ api_inst_pc <= MaxCalls
  BY DEF try_lock_client, ConfirmOffline, ParserReturns
<1> QED BY Zenon, <1>1, <1>2, IdleInv

\* A call is issued under a number no call underway has.
LEMMA IssueInv ==
    ASSUME Inv, NEW g \in Handles \cup {NoHandle},
           Issue(g) \/ \E sync \in BOOLEAN : Skip(sync)
    PROVE  Inv'
<1>1. UNCHANGED <<wqes, worker, th, handles, ckpt_cxt, oob_vars, faults,
                  start>>
  BY DEF Issue, Skip, history
<1>2. /\ api_inst_pc \in Calls /\ api_inst_pc' = api_inst_pc + 1
      /\ api_inst_pc \in Nat
  BY BoundsAssumption DEF Issue, Skip, Inv, Types, CallInv, Calls
<1>3. Issued \subseteq Issued' /\ api_inst_pc \in Issued'
      /\ api_inst_pc \notin Issued
  BY <1>2, BoundsAssumption DEF Issued, Calls
<1>4. /\ call' \in [Calls -> Handles \cup {NoHandle}]
      /\ \A i \in Issued : call'[i] = call[i]
  BY Zenon, <1>3 DEF Issue, Skip, Inv, Types, CallInv, Issued
<1>5. Target' = Target
  <2>1. wqes # <<>> => Head(wqes) \in Issued
    BY DEF Inv, Types, CallInv
  <2>2. wqes # <<>> => call'[Head(wqes)] = call[Head(wqes)]
    BY Zenon, <2>1, <1>4
  <2>3. worker.pc \in {"copy", "wait", "launch"} => wqes # <<>>
    BY DEF Inv, Types, CallInv
  <2> QED BY Zenon, <2>2, <2>3, <1>1 DEF Target
<1>6. parser2worker_wq' \in Seq(Issued') /\ wqes' \in Seq(Issued')
  <2>1. parser2worker_wq \in Seq(Issued') /\ wqes \in Seq(Issued')
    BY Zenon, <1>3, SeqMonotone DEF Inv, Types, CallInv
  <2>2. \/ parser2worker_wq' = parser2worker_wq
        \/ parser2worker_wq' = Append(parser2worker_wq, api_inst_pc)
    BY Zenon DEF Issue, Skip
  <2> QED BY <2>1, <2>2, <1>1, <1>3
<1>7. Types'
  <2>1. CallInv'
    <3>1. rpc' # "locked"
      BY DEF Issue, Skip
    <3> QED BY SMTT(20), <1>1, <1>2, <1>4, <1>5, <1>6, <3>1
            DEF Inv, Types, CallInv
  <2>2. ThreadType' /\ HandleType'
    BY ZenonT(30), <1>1
       DEF Inv, Types, ThreadType, HandleType, handles, ckpt_cxt
  <2>3. CmdType'
    BY ZenonT(30), <1>1 DEF Inv, Types, CmdType, ckpt_cxt, oob_vars
  <2> QED BY Zenon, <2>1, <2>2, <2>3 DEF Types
<1>8. Safe'
  <2>1. Safe
    BY DEF Inv
  <2>2. OneCommand' /\ PersistInv' /\ ActiveInv'
    BY Zenon, <1>1, <2>1 DEF Safe, OneCommand, PersistInv, ActiveInv, handles,
       ckpt_cxt, oob_vars
  <2>3. Snapshot'
    BY Zenon, <1>1, <1>5, <2>1, SnapshotKept
       DEF Safe, do_cow, handles, ckpt_cxt,
       oob_vars
  <2> QED BY <2>2, <2>3 DEF Safe
<1> QED BY Zenon, <1>7, <1>8 DEF Inv

\* A request comes when none is underway.
LEMMA RequestInv ==
    ASSUME Inv, NEW dump \in BOOLEAN, NEW cow \in BOOLEAN,
           NEW force \in BOOLEAN, Request(dump, cow, force)
    PROVE  Inv'
<1>1. UNCHANGED <<rpc, call, api_inst_pc, parser2worker_wq, wqes, worker, th,
                  handles, ckpt_cxt, replies, faults, start>>
  BY Zenon DEF Request, history, client
<1>2. /\ cmd' \in Seq(Attempt) /\ Len(cmd') = Len(cmd) + 1
      /\ \A i \in 1..Len(cmd) : cmd'[i] = cmd[i]
      /\ Len(cmd) \in Nat
  BY DEF Request, Inv, Types, CmdType, Attempt
<1>3. /\ Safe /\ oob = "idle" /\ oob' = "waiting" /\ cmd_wq = <<>>
      /\ replies = <<>> /\ th.pc = "exit" /\ ~BH_active
  BY Zenon DEF Request, Inv, Safe, OneCommand
<1>4. cmd_wq' = <<Len(cmd')>> /\ Len(cmd') \in 1..Len(cmd')
  BY <1>2, <1>3 DEF Request
<1>5. Types'
  <2>1. CmdType'
    BY <1>1, <1>2, <1>4 DEF Inv, Types, CmdType, ckpt_cxt
  <2> QED BY ZenonT(30), <2>1, <1>1
       DEF Inv, Types, CallInv, ThreadType, HandleType,
             Target, Issued, handles, ckpt_cxt
<1>6. OneCommand' /\ PersistInv' /\ ActiveInv'
  BY Zenon, <1>1, <1>3
     DEF Safe, OneCommand, PersistInv, ActiveInv, handles, ckpt_cxt
<1>7. do_cow' => do_cow
  BY <1>1, <1>2 DEF do_cow, ckpt_cxt, Inv, Types, CmdType
<1>8. Snapshot'
  BY Zenon, <1>1, <1>3, <1>7, SnapshotKept DEF Safe, Target, handles, ckpt_cxt
<1> QED BY Zenon, <1>5, <1>6, <1>8 DEF Inv, Safe

\* The reply was the only thing underway.
LEMMA TakeReplyInv == ASSUME Inv, TakeReply PROVE Inv'
<1>1. UNCHANGED <<rpc, call, api_inst_pc, parser2worker_wq, wqes, worker, th,
                  handles, ckpt_cxt, cmd, cmd_wq, start>>
  BY Zenon DEF TakeReply, history, client
<1>2. replies # <<>> /\ replies' = <<>>
  BY Zenon DEF TakeReply
<1>3. Types'
  <2>1. CallInv' /\ ThreadType'
    BY ZenonT(30), <1>1 DEF Inv, Types, CallInv, ThreadType, Target, Issued
  <2>2. HandleType' /\ CmdType'
    BY Zenon, <1>1 DEF Inv, Types, HandleType, CmdType, handles, ckpt_cxt
  <2> QED BY Zenon, <2>1, <2>2 DEF Types
<1>4. OneCommand' /\ PersistInv' /\ ActiveInv'
  BY Zenon, <1>1, <1>2
     DEF Inv, Safe, OneCommand, PersistInv, ActiveInv, handles,
     ckpt_cxt
<1>5. Snapshot'
  BY Zenon, <1>1, SnapshotKept DEF Inv, Safe, Target, do_cow, handles, ckpt_cxt
<1> QED BY <1>3, <1>4, <1>5 DEF Inv, Safe

----------------------------------------------------------------------------

(* The worker: calls *)

\* Before a launch the worker preserves the handle it writes to, unless the
\* top half has, or waits for the top half's copy.  It knows that it must:
\* as long as a handle is not preserved TH_actve is up, and a handle marked
\* dirty has been preserved.
LEMMA PrepareInv == ASSUME Inv, Prepare PROVE Inv'
<1>1. UNCHANGED <<rpc, call, api_inst_pc, parser2worker_wq, mem, slot,
                  persist_thread, wqes, th, TH_actve, BH_active, async_cmd,
                  persist_handles, oob_vars, start>>
  BY DEF Prepare, history, client
<1>2. PICK g \in Handles \cup {NoHandle} : g = call[Head(wqes)]
  BY DEF Prepare, Inv, Types, CallInv, Issued
<1>3. PICK n : n = state_preserve_counter[g]
  OBVIOUS
<1>4. PICK preserve \in BOOLEAN :
        preserve <=> /\ g # NoHandle /\ TH_actve /\ cmd[async_cmd].do_cow
                     /\ g \notin dirty_handles
  BY Zenon
<1>5. /\ worker.pc = "loop" /\ wqes # <<>> /\ DOMAIN worker' = DOMAIN worker
      /\ \/ /\ preserve
            /\ worker'.pc = IF AddRole(n) = "done" THEN "launch" ELSE AddRole(n)
            /\ state_preserve_counter' =
                 [state_preserve_counter EXCEPT ![g] = AddCount(n)]
         \/ /\ ~preserve /\ worker'.pc = "launch"
            /\ UNCHANGED state_preserve_counter
  <2>1. DOMAIN worker = {"pc", "max"}
    BY Zenon DEF Inv, Types, ThreadType
  <2> QED BY Zenon, <2>1, <1>2, <1>3, <1>4 DEF Prepare
<1>6. preserve => g \in Handles /\ n \in 0..3
  BY Zenon, <1>2, <1>3, <1>4 DEF Inv, Types, HandleType
<1>7. worker'.pc \in Busy /\ (worker'.pc # "launch" => g \in Handles)
  BY Zenon, <1>5, <1>6, AddTypes DEF Busy
<1>8. Target = NoHandle /\ Target' = g
  BY Zenon, <1>1, <1>2, <1>5, <1>7 DEF Target, Busy
<1>9. /\ dirty_handles' \subseteq Handles
      /\ \A h \in Handles \ {g} : h \in dirty_handles' => h \in dirty_handles
      /\ ~TH_actve => dirty_handles' = dirty_handles
  BY Zenon, <1>2 DEF Prepare, Dirtied, Inv, Types, HandleType
<1>10. CallInv' /\ ThreadType'
  BY ZenonT(30), <1>1, <1>5, <1>7, <1>8
     DEF Inv, Types, CallInv, Issued, ThreadType, Busy
<1>11. HandleType'
  <2>1. state_preserve_counter' \in [Handles -> 0..3]
    BY Zenon, <1>5, <1>6, AddTypes DEF Inv, Types, HandleType
  <2> QED BY Zenon, <1>1, <1>9, <2>1 DEF Inv, Types, HandleType
<1>12. CmdType' /\ OneCommand' /\ PersistInv' /\ ActiveInv'
  BY ZenonT(30), <1>1, <1>5, <1>7
     DEF Inv, Types, CmdType, Safe, OneCommand, PersistInv,
     ActiveInv, oob_vars, Busy
<1>13. ASSUME do_cow', NEW h \in Handles PROVE CowInv(h)'
  <2>1. CowInv(h) /\ do_cow
    BY Zenon, <1>1, <1>13 DEF Inv, Safe, Snapshot, do_cow, oob_vars
  <2>2. /\ ThAt("copy", h)' <=> ThAt("copy", h)
        /\ ThAt("wait", h)' <=> ThAt("wait", h)
    BY Zenon, <1>1 DEF ThAt
  <2>3. \A pc \in Busy : ~WorkerAt(pc, h)
    BY Zenon, <1>5 DEF WorkerAt, Busy
  <2>4. mem'[h] = mem[h] /\ slot'[h] = slot[h] /\ start'[h] = start[h]
        /\ th' = th
    BY <1>1
  <2>5. CASE h # g
    <3>1. \A pc \in Busy : ~WorkerAt(pc, h)'
      BY Zenon, <1>8, <2>5 DEF WorkerAt
    <3>2. /\ state_preserve_counter'[h] = state_preserve_counter[h]
          /\ h \in dirty_handles' => h \in dirty_handles
      BY Zenon, <1>5, <1>9, <2>5 DEF Inv, Types, HandleType
    <3> QED BY Zenon, <2>1, <2>2, <2>3, <2>4, <3>1, <3>2 DEF CowInv, Busy
  <2>6. CASE h = g
    <3>1. state_preserve_counter[h] = n /\ n \in 0..3 /\ n # 2
      BY Zenon, <1>3, <2>1, <2>3, <2>6 DEF CowInv, Busy, Inv, Types, HandleType
    <3>2. n # 3 => th.pc \in {"add", "copy", "wait"} /\ h \notin dirty_handles
      BY Zenon, <2>1, <2>3, <3>1 DEF CowInv, Busy, Inv, Types, ThreadType
    <3>3. n # 3 => preserve
      BY ZenonT(30), <1>4, <1>5, <2>1, <2>6, <3>2, HandlesAssumption
         DEF do_cow, Inv, Safe,
         ActiveInv
    <3>4. \/ n = 3 /\ worker'.pc = "launch" /\ state_preserve_counter'[h] = 3
          \/ n = 0 /\ worker'.pc = "copy" /\ state_preserve_counter'[h] = 1
          \/ n = 1 /\ worker'.pc = "wait" /\ state_preserve_counter'[h] = 2
      <4>1. n = 0 \/ n = 1 \/ n = 3
        BY Zenon, <3>1, AddTypes
      <4>2. n # 3 => state_preserve_counter'[h] = AddCount(n)
        BY Zenon, <1>5, <2>6, <3>3 DEF Inv, Types, HandleType
      <4>3. n = 3 => state_preserve_counter'[h] = 3
        BY ZenonT(30), <1>5, <2>6, <3>1, AddCases DEF Inv, Types, HandleType
      <4> QED BY ZenonT(30), <1>5, <3>3, <4>1, <4>2, <4>3, AddCases, Digits
    <3>5. /\ WorkerAt("copy", h)' <=> worker'.pc = "copy"
          /\ WorkerAt("wait", h)' <=> worker'.pc = "wait"
          /\ WorkerAt("launch", h)' <=> worker'.pc = "launch"
      BY Zenon, <1>8, <2>6 DEF WorkerAt
    <3>6. CASE n = 3
      <4>1. /\ state_preserve_counter'[h] = 3 /\ WorkerAt("launch", h)'
            /\ ~WorkerAt("copy", h)' /\ ~WorkerAt("wait", h)'
        BY Zenon, <3>4, <3>5, <3>6, Digits
      <4>2. slot[h] = start[h] /\ ~ThAt("copy", h)
        BY Zenon, <2>1, <3>1, <3>6, Digits DEF CowInv
      <4> QED BY Zenon, <2>2, <2>4, <4>1, <4>2, Digits DEF CowInv
    <3>7. CASE n = 0
      <4>1. /\ state_preserve_counter'[h] = 1 /\ WorkerAt("copy", h)'
            /\ ~WorkerAt("launch", h)' /\ ~WorkerAt("wait", h)'
        BY Zenon, <3>4, <3>5, <3>7, Digits
      <4>2. /\ mem[h] = start[h] /\ h \in th.todo
            /\ ~ThAt("copy", h) /\ ~ThAt("wait", h)
        BY Zenon, <2>1, <3>1, <3>7, Digits DEF CowInv
      <4> QED BY Zenon, <2>2, <2>4, <4>1, <4>2, Digits DEF CowInv
    <3>8. CASE n = 1
      <4>1. /\ state_preserve_counter'[h] = 2 /\ WorkerAt("wait", h)'
            /\ ~WorkerAt("launch", h)' /\ ~WorkerAt("copy", h)'
        BY Zenon, <3>4, <3>5, <3>8, Digits
      <4>2. ~WorkerAt("copy", h)
        BY Zenon, <2>3 DEF Busy
      <4>3. /\ mem[h] = start[h] /\ h \in th.todo /\ th.seen = start[h]
            /\ ThAt("copy", h) /\ ~ThAt("wait", h)
        BY ZenonT(30), <2>1, <3>1, <3>8, <4>2, Digits DEF CowInv
      <4> QED BY Zenon, <2>2, <2>4, <4>1, <4>3, Digits DEF CowInv
    <3> QED BY Zenon, <3>4, <3>6, <3>7, <3>8
  <2> QED BY Zenon, <2>5, <2>6
<1> QED BY Zenon, <1>10, <1>11, <1>12, <1>13 DEF Inv, Types, Safe, Snapshot

\* The copy is complete, the worker's own or the one it waited for: the
\* handle is preserved as it was.
LEMMA PreservedInv == ASSUME Inv, Preserved PROVE Inv'
<1>1. UNCHANGED <<rpc, call, api_inst_pc, parser2worker_wq, mem,
                  persist_thread, wqes, th, ckpt_cxt, oob_vars, start>>
  BY DEF Preserved, history, client
<1>2. /\ worker.pc \in {"copy", "wait"} /\ worker'.pc = "launch"
      /\ DOMAIN worker' = DOMAIN worker
  BY Zenon DEF Preserved, Inv, Types, ThreadType
<1>3. PICK g \in Handles : g = call[Head(wqes)] /\ Target = g /\ Target' = g
  BY Zenon, <1>1, <1>2 DEF Target, Inv, Types, CallInv
<1>4. /\ state_preserve_counter' = [state_preserve_counter EXCEPT ![g] = 3]
      /\ DOMAIN slot' = DOMAIN slot
      /\ \A h \in Handles \ {g} : slot'[h] = slot[h]
      /\ \/ worker.pc = "copy" /\ slot'[g] = mem[g]
         \/ /\ worker.pc = "wait" /\ slot'[g] = slot[g]
            /\ state_preserve_counter[g] = 3
  BY Zenon, <1>3 DEF Preserved, Inv, Types, HandleType
<1>5. CallInv' /\ ThreadType'
  BY Zenon, <1>1, <1>2, <1>3 DEF Inv, Types, CallInv, Issued, ThreadType
<1>6. HandleType' /\ CmdType'
  <2>1. HandleType'
    <3>1. 3 \in 0..3
      OBVIOUS
    <3> QED BY Zenon, <1>1, <1>3, <1>4, <3>1
         DEF Inv, Types, HandleType, ckpt_cxt
  <2>2. CmdType'
    BY Zenon, <1>1 DEF Inv, Types, CmdType, ckpt_cxt, oob_vars
  <2> QED BY Zenon, <2>1, <2>2
<1>7. OneCommand' /\ PersistInv' /\ ActiveInv'
  BY Zenon, <1>1, <1>2
     DEF Inv, Safe, OneCommand, PersistInv, ActiveInv, ckpt_cxt,
     oob_vars
<1>8. ASSUME do_cow', NEW h \in Handles PROVE CowInv(h)'
  <2>1. CowInv(h)
    BY Zenon, <1>1, <1>8 DEF Inv, Safe, Snapshot, do_cow, ckpt_cxt, oob_vars
  <2>2. /\ ThAt("copy", h)' <=> ThAt("copy", h)
        /\ ThAt("wait", h)' <=> ThAt("wait", h)
    BY Zenon, <1>1 DEF ThAt
  <2>3. mem'[h] = mem[h] /\ start'[h] = start[h] /\ th' = th
        /\ (h \in dirty_handles' <=> h \in dirty_handles)
    BY <1>1 DEF ckpt_cxt
  <2>4. CASE h # g
    <3>1. \A pc \in Busy : ~WorkerAt(pc, h) /\ ~WorkerAt(pc, h)'
      BY Zenon, <1>3, <2>4 DEF WorkerAt
    <3>2. /\ state_preserve_counter'[h] = state_preserve_counter[h]
          /\ slot'[h] = slot[h]
      BY Zenon, <1>4, <2>4 DEF Inv, Types, HandleType
    <3> QED BY Zenon, <2>1, <2>2, <2>3, <3>1, <3>2 DEF CowInv, Busy
  <2>5. CASE h = g
    <3>1. /\ \A pc : WorkerAt(pc, h) <=> worker.pc = pc
          /\ ~WorkerAt("copy", h)' /\ ~WorkerAt("wait", h)'
          /\ WorkerAt("launch", h)'
      BY ZenonT(30), <1>2, <1>3, <2>5 DEF WorkerAt
    <3>2. state_preserve_counter'[h] = 3
      BY Zenon, <1>4, <2>5 DEF Inv, Types, HandleType
    <3>3. slot'[h] = start[h] /\ ~ThAt("copy", h)
      <4>1. 3 \notin {1, 2}
        OBVIOUS
      <4>2. CASE worker.pc = "copy" /\ slot'[g] = mem[g]
        BY Zenon, <2>1, <2>5, <3>1, <4>1, <4>2 DEF CowInv
      <4>3. CASE slot'[g] = slot[g] /\ state_preserve_counter[g] = 3
        BY Zenon, <2>1, <2>5, <4>1, <4>3 DEF CowInv
      <4> QED BY Zenon, <1>4, <4>2, <4>3
    <3>4. ~ThAt("copy", h)'
      BY Zenon, <2>2, <3>3
    <3> QED BY Zenon, <2>3, <3>1, <3>2, <3>3, <3>4, Digits DEF CowInv
  <2> QED BY Zenon, <2>4, <2>5
<1> QED BY Zenon, <1>5, <1>6, <1>7, <1>8 DEF Inv, Types, Safe, Snapshot

\* A launch writes to a handle that is preserved.
LEMMA LaunchInv == ASSUME Inv, Launch PROVE Inv'
<1>1. UNCHANGED <<call, api_inst_pc, parser2worker_wq, state_preserve_counter,
                  slot, persist_thread, th, ckpt_cxt, oob_vars, start>>
  BY DEF Launch
<1>2. /\ worker.pc = "launch" /\ worker'.pc = "loop"
      /\ DOMAIN worker' = DOMAIN worker
  BY Zenon DEF Launch, Polling, Inv, Types, ThreadType
<1>3. Target = call[Head(wqes)] /\ Target' = NoHandle /\ wqes # <<>>
  BY <1>2 DEF Target, Inv, Types, CallInv
<1>4. /\ DOMAIN mem' = DOMAIN mem
      /\ \A h \in Handles : h = Target \/ mem'[h] = mem[h]
  BY Zenon, <1>3 DEF Launch, Inv, Types, HandleType
<1>5. wqes' \in Seq(Issued) /\ (rpc' = rpc \/ rpc' = "idle")
  <2>1. wqes \in Seq(Issued) /\ wqes' = Tail(wqes)
        /\ (rpc' = rpc \/ rpc' = "idle")
    BY Zenon DEF Launch, Inv, Types, CallInv
  <2> QED BY <1>3, <2>1
<1>6. CallInv' /\ ThreadType'
  BY ZenonT(30), <1>1, <1>2, <1>3, <1>5
     DEF Inv, Types, CallInv, Issued, ThreadType
<1>7. HandleType' /\ CmdType'
  BY Zenon, <1>1, <1>4 DEF Inv, Types, HandleType, CmdType, ckpt_cxt, oob_vars
<1>8. OneCommand' /\ PersistInv' /\ ActiveInv'
  BY Zenon, <1>1, <1>2
     DEF Inv, Safe, OneCommand, PersistInv, ActiveInv, ckpt_cxt,
     oob_vars
<1>9. ASSUME do_cow', NEW h \in Handles PROVE CowInv(h)'
  <2>1. CowInv(h)
    BY Zenon, <1>1, <1>9 DEF Inv, Safe, Snapshot, do_cow, ckpt_cxt, oob_vars
  <2>2. /\ ThAt("copy", h)' <=> ThAt("copy", h)
        /\ ThAt("wait", h)' <=> ThAt("wait", h)
    BY Zenon, <1>1 DEF ThAt
  <2>3. /\ \A pc \in Busy : ~WorkerAt(pc, h)'
        /\ ~WorkerAt("copy", h) /\ ~WorkerAt("wait", h)
    BY <1>2 DEF WorkerAt, Busy
  <2>4. state_preserve_counter[h] # 3 => mem'[h] = mem[h]
    BY Zenon, <1>2, <1>4, <2>1 DEF CowInv, WorkerAt
  <2>5. slot'[h] = slot[h] /\ start'[h] = start[h] /\ th' = th
        /\ state_preserve_counter'[h] = state_preserve_counter[h]
        /\ (h \in dirty_handles' <=> h \in dirty_handles)
    BY Zenon, <1>1 DEF ckpt_cxt
  <2> QED BY Zenon, <2>1, <2>2, <2>3, <2>4, <2>5 DEF CowInv, Busy
<1> QED BY ZenonT(30), <1>6, <1>7, <1>8, <1>9 DEF Inv, Types, Safe, Snapshot

---------------------------------------------------------------------------
(* The worker: commands, and the queue of calls *)

\* A step of the worker that handles no call.
LEMMA WorkerFrame ==
    ASSUME Inv, UNCHANGED <<rpc, call, api_inst_pc>>,
           parser2worker_wq' \in Seq(Issued), wqes' \in Seq(Issued),
           worker.pc \notin Busy, worker'.pc \notin Busy
    PROVE  CallInv' /\ Target = NoHandle /\ Target' = NoHandle
BY DEF Inv, Types, CallInv, Target, Issued, Busy

\* Nor does such a step touch the checkpoint, if it leaves the handles alone.
LEMMA WorkerSnapshot ==
    ASSUME Inv, worker.pc \notin Busy, worker'.pc \notin Busy,
           UNCHANGED <<mem, start, slot, state_preserve_counter,
                       dirty_handles, th>>,
           do_cow' => do_cow
    PROVE  Snapshot'
<1>1. UNCHANGED Target
  BY Zenon DEF Target, Busy
<1> QED BY Zenon, <1>1, SnapshotKept DEF Inv, Safe, Busy

\* A command that comes while TH_actve is stuck is refused.
LEMMA RefuseInv == ASSUME Inv, Refuse PROVE Inv'
<1>1. UNCHANGED <<rpc, call, api_inst_pc, parser2worker_wq, wqes, worker, th,
                  handles, ckpt_cxt, oob, start>>
  BY Zenon DEF Refuse, history, client
<1>2. /\ cmd_wq # <<>> /\ worker.pc = "loop"
      /\ reply_parser(Head(cmd_wq), "failed")
  BY Zenon DEF Refuse
<1>3. /\ cmd' \in Seq(Attempt) /\ Len(cmd') = Len(cmd)
      /\ \A i \in 1..Len(cmd) : cmd'[i].do_cow = cmd[i].do_cow
      /\ replies' # <<>>
  BY Zenon, <1>2, ReplyKept DEF Inv, Types
<1>4. cmd_wq' = <<>>
  <2>1. PICK c \in 1..Len(cmd) : cmd_wq = <<c>>
    BY Zenon, <1>2 DEF Inv, Types, CmdType
  <2> QED BY <2>1 DEF Refuse
<1>5. Types'
  <2>1. CallInv'
    BY Zenon, <1>1, ThFrame
  <2>2. ThreadType' /\ HandleType'
    BY ZenonT(30), <1>1
       DEF Inv, Types, ThreadType, HandleType, handles, ckpt_cxt
  <2>3. CmdType'
    BY ZenonT(30), <1>1, <1>3, <1>4 DEF Inv, Types, CmdType, ckpt_cxt
  <2> QED BY Zenon, <2>1, <2>2, <2>3 DEF Types
<1>6. OneCommand' /\ PersistInv' /\ ActiveInv'
  <2>1. oob = "waiting" /\ th.pc = "exit" /\ ~BH_active
    BY ZenonT(30), <1>2 DEF Inv, Safe, OneCommand
  <2> QED BY ZenonT(30), <1>1, <1>2, <1>4, <2>1
             DEF OneCommand, PersistInv, ActiveInv,
             handles, ckpt_cxt
<1>7. do_cow' => do_cow
  BY SMTT(20), <1>1, <1>3 DEF do_cow, ckpt_cxt, Inv, Types, CmdType
<1>8. Snapshot'
  BY Zenon, <1>1, <1>2, <1>7, WorkerSnapshot DEF Busy, handles, ckpt_cxt
<1> QED BY <1>5, <1>6, <1>8 DEF Inv, Safe

\* A checkpoint begins: no handle is preserved, and none has changed.
LEMMA ProcessCmdInv ==
    ASSUME Inv, faults = 0, UNCHANGED faults, NEW ok \in BOOLEAN,
           process_cmd(ok)
    PROVE  Inv'
<1>1. UNCHANGED <<rpc, call, api_inst_pc, parser2worker_wq, wqes, mem, slot,
                  persist_thread, TH_actve, BH_active, cmd, replies, oob>>
  BY DEF process_cmd, client
<1>2. ok
  BY DEF process_cmd, Fail
<1>3. /\ worker.pc = "loop" /\ th.pc = "exit" /\ cmd_wq # <<>>
      /\ worker'.pc = "raise" /\ DOMAIN worker' = DOMAIN worker
      /\ DOMAIN th' = DOMAIN th /\ th'.pc = "add" /\ th'.todo = Handles
      /\ th'.retval = "success"
      /\ dirty_handles' = {} /\ persist_handles' = {} /\ start' = mem
      /\ state_preserve_counter' = [h \in Handles |-> 0]
  BY <1>2 DEF process_cmd, Exited, Inv, Types, ThreadType
<1>4. cmd_wq' = <<>> /\ async_cmd' \in 1..Len(cmd)
  <2>1. PICK c \in 1..Len(cmd) : cmd_wq = <<c>>
    BY Zenon, <1>3 DEF Inv, Types, CmdType
  <2> QED BY SMTT(20), <2>1 DEF process_cmd
<1>5. oob = "waiting" /\ replies = <<>> /\ ~BH_active
  BY <1>3 DEF Inv, Safe, OneCommand
<1>6. CallInv' /\ Target' = NoHandle
  BY ZenonT(30), <1>1, <1>3, WorkerFrame DEF Busy, Inv, Types, CallInv
<1>7. Types'
  <2>1. ThreadType'
    BY ZenonT(30), <1>3 DEF Inv, Types, ThreadType
  <2>2. HandleType'
    BY SMTT(20), <1>1, <1>3 DEF Inv, Types, HandleType
  <2>3. CmdType'
    <3>1. \A n \in 1..Len(cmd) : n \in 0..Len(cmd)
      OBVIOUS
    <3> QED BY ZenonT(30), <1>1, <1>4, <3>1 DEF Inv, Types, CmdType
  <2> QED BY Zenon, <1>6, <2>1, <2>2, <2>3 DEF Types
<1>8. OneCommand' /\ PersistInv' /\ ActiveInv'
  BY ZenonT(30), <1>1, <1>3, <1>4, <1>5 DEF OneCommand, PersistInv, ActiveInv
<1>9. ASSUME NEW h \in Handles PROVE CowInv(h)'
  <2>1. state_preserve_counter'[h] = 0 /\ mem'[h] = start'[h]
    BY Zenon, <1>1, <1>3
  <2>2. \A pc \in Busy : ~WorkerAt(pc, h)'
    BY Zenon, <1>3 DEF WorkerAt, Busy
  <2>3. \A pc \in {"copy", "wait"} : ~ThAt(pc, h)'
    BY <1>3 DEF ThAt
  <2>4. h \in th'.todo /\ h \notin dirty_handles'
    BY Zenon, <1>3
  <2>5. /\ ~WorkerAt("copy", h)' /\ ~WorkerAt("wait", h)'
        /\ ~WorkerAt("launch", h)' /\ ~ThAt("copy", h)' /\ ~ThAt("wait", h)'
    BY Zenon, <2>2, <2>3 DEF Busy
  <2>6. 0 # 1 /\ 0 # 2 /\ 0 # 3
    OBVIOUS
  <2> QED BY Zenon, <2>1, <2>4, <2>5, <2>6 DEF CowInv
<1> QED BY Zenon, <1>7, <1>8, <1>9 DEF Inv, Safe, Snapshot

\* The flag goes up after the thread was started.
LEMMA SetActiveInv == ASSUME Inv, SetActive PROVE Inv'
<1>1. UNCHANGED <<rpc, call, api_inst_pc, parser2worker_wq, wqes, th, handles,
                  BH_active, async_cmd, dirty_handles, persist_handles,
                  oob_vars, start>>
  BY Zenon DEF SetActive, history, client
<1>2. /\ worker.pc = "raise" /\ worker'.pc = "loop" /\ TH_actve' = TRUE
      /\ DOMAIN worker' = DOMAIN worker
  BY Zenon DEF SetActive, Polling, Inv, Types, ThreadType
<1>3. Types'
  <2>1. CallInv'
    BY ZenonT(30), <1>1, <1>2, WorkerFrame DEF Busy, Inv, Types, CallInv
  <2>2. ThreadType' /\ HandleType'
    BY ZenonT(30), <1>1, <1>2 DEF Inv, Types, ThreadType, HandleType, handles
  <2>3. CmdType'
    BY ZenonT(30), <1>1, <1>2 DEF Inv, Types, CmdType, oob_vars
  <2> QED BY Zenon, <2>1, <2>2, <2>3 DEF Types
<1>4. OneCommand' /\ PersistInv' /\ ActiveInv'
  BY ZenonT(30), <1>1, <1>2
     DEF Inv, Safe, OneCommand, PersistInv, ActiveInv, handles,
     oob_vars
<1>5. Snapshot'
  BY Zenon, <1>1, <1>2, WorkerSnapshot DEF Busy, do_cow, handles, oob_vars
<1> QED BY <1>3, <1>4, <1>5 DEF Inv, Safe

\* The worker takes over the queue of calls.
LEMMA PollCallsInv == ASSUME Inv, PollCalls PROVE Inv'
<1>1. UNCHANGED <<rpc, call, api_inst_pc, worker, th, handles, ckpt_cxt,
                  oob_vars, start>>
  BY Zenon DEF PollCalls, history, client
<1>2. /\ worker.pc = "loop" /\ wqes' \in Seq(Issued)
      /\ parser2worker_wq' \in Seq(Issued)
  BY Zenon DEF PollCalls, Inv, Types, CallInv
<1>3. Types'
  <2>1. CallInv'
    BY Zenon, <1>1, <1>2, WorkerFrame DEF Busy
  <2>2. ThreadType' /\ HandleType'
    BY ZenonT(30), <1>1
       DEF Inv, Types, ThreadType, HandleType, handles, ckpt_cxt
  <2>3. CmdType'
    BY ZenonT(30), <1>1 DEF Inv, Types, CmdType, ckpt_cxt, oob_vars
  <2> QED BY Zenon, <2>1, <2>2, <2>3 DEF Types
<1>4. OneCommand' /\ PersistInv' /\ ActiveInv'
  BY Zenon, <1>1
     DEF Inv, Safe, OneCommand, PersistInv, ActiveInv, handles, ckpt_cxt,
     oob_vars
<1>5. Snapshot'
  BY ZenonT(30), <1>1, <1>2, WorkerSnapshot
     DEF Busy, do_cow, handles, ckpt_cxt, oob_vars
<1> QED BY <1>3, <1>4, <1>5 DEF Inv, Safe

---------------------------------------------------------------------------
(* The worker: the bottom half, which begins when every handle is preserved *)

\* The first attempt lowers the flag; the top half has ended.
LEMMA BhStartInv == ASSUME Inv, BhStart PROVE Inv'
<1>1. UNCHANGED <<rpc, call, api_inst_pc, parser2worker_wq, wqes, th, handles,
                  BH_active, async_cmd, dirty_handles, persist_handles,
                  oob_vars, start>>
  BY DEF BhStart, history
<1>2. /\ worker.pc = "loop" /\ worker'.pc \in {"first", "again", "stopped"}
      /\ DOMAIN worker' = {"pc", "max"} /\ BH_active = TRUE
      /\ TH_actve' = FALSE
  <2>1. worker'.pc \in {"first", "again", "stopped"}
    BY DEF BhStart
  <2> QED BY <2>1 DEF BhStart, Inv, Types, CmdType
<1>3. Types'
  <2>1. CallInv'
    BY Zenon, <1>1, <1>2, WorkerFrame DEF Busy, Inv, Types, CallInv
  <2> QED BY ZenonT(30), <1>1, <1>2, <2>1
             DEF Inv, Types, ThreadType, HandleType,
             CmdType, handles, oob_vars
<1>4. OneCommand' /\ PersistInv' /\ ActiveInv'
  BY ZenonT(30), <1>1, <1>2
     DEF Inv, Safe, OneCommand, PersistInv, ActiveInv, handles,
     oob_vars
<1>5. Snapshot'
  BY Zenon, <1>1, <1>2, WorkerSnapshot DEF Busy, do_cow, handles, oob_vars
<1> QED BY <1>3, <1>4, <1>5 DEF Inv, Safe

\* The stop handshake, recomputation and the drain move the worker on and
\* touch no handle.
LEMMA BhMoveInv ==
    ASSUME Inv,
           \/ Stopped \/ Drained
           \/ \E n \in 0..Len(ckptdag_wq) : Recompute(n)
           \/ \E n \in 0..Len(parser2worker_wq) : Drain(n)
    PROVE  Inv'
<1>1. UNCHANGED <<rpc, call, api_inst_pc, wqes, th, handles, ckpt_cxt,
                  oob_vars, start>>
  BY Zenon DEF Stopped, Drained, Recompute, Drain, history, client
<1>2. parser2worker_wq' = parser2worker_wq \/ parser2worker_wq' = <<>>
  BY Zenon DEF Stopped, Drained, Recompute, Drain
<1>3. /\ worker.pc \in {"first", "again", "stopped", "drain"}
      /\ worker'.pc \in {"loop", "stopped", "drain", "sync_persist"}
      /\ DOMAIN worker' = DOMAIN worker
  <2>1. CASE Stopped
    BY SMTT(20), <2>1 DEF Stopped, Polling, Inv, Types, ThreadType
  <2>2. CASE Drained
    BY Zenon, <2>2 DEF Drained, Inv, Types, ThreadType
  <2>3. ASSUME NEW n \in 0..Len(ckptdag_wq), Recompute(n)
        PROVE  /\ worker.pc = "stopped" /\ DOMAIN worker' = DOMAIN worker
               /\ worker'.pc \in {"drain", "sync_persist"}
    BY Zenon, <2>3 DEF Recompute, Inv, Types, ThreadType
  <2>4. ASSUME NEW n \in 0..Len(parser2worker_wq), Drain(n)
        PROVE  /\ worker.pc = "drain" /\ DOMAIN worker' = DOMAIN worker
               /\ worker'.pc \in {"drain", "sync_persist"}
    BY Zenon, <2>4 DEF Drain, Inv, Types, ThreadType
  <2> QED BY Zenon, <2>1, <2>2, <2>3, <2>4
<1>4. CallInv'
  <2>1. parser2worker_wq \in Seq(Issued) /\ wqes \in Seq(Issued)
    BY DEF Inv, Types, CallInv
  <2>2. <<>> \in Seq(Issued)
    OBVIOUS
  <2>3. parser2worker_wq' \in Seq(Issued) /\ wqes' \in Seq(Issued)
    BY Zenon, <1>1, <1>2, <2>1, <2>2
  <2> QED BY Zenon, <1>1, <1>3, <2>3, WorkerFrame DEF Busy
<1>5. ThreadType' /\ HandleType' /\ CmdType'
  <2>1. ThreadType'
    BY Zenon, <1>1, <1>3 DEF Inv, Types, ThreadType
  <2> QED BY ZenonT(30), <1>1, <2>1
       DEF Inv, Types, HandleType, CmdType, handles,
             ckpt_cxt, oob_vars
<1>6. OneCommand' /\ PersistInv' /\ ActiveInv'
  <2>1. oob = "waiting" /\ th.pc = "exit" /\ BH_active
        /\ cmd_wq = <<>> /\ replies = <<>>
    BY <1>3 DEF Inv, Safe, OneCommand
  <2> QED BY ZenonT(30), <1>1, <2>1
       DEF Inv, Safe, OneCommand, PersistInv, ActiveInv,
             handles, ckpt_cxt, oob_vars
<1>7. Snapshot'
  BY Zenon, <1>1, <1>3, WorkerSnapshot DEF Busy, do_cow, handles, ckpt_cxt,
     oob_vars
<1> QED BY ZenonT(30), <1>4, <1>5, <1>6, <1>7 DEF Inv, Types, Safe

\* The dirty handles are handed to their persist threads again.
LEMMA DirtyCopyInv ==
    ASSUME Inv, NEW D \in SUBSET dirty_handles, DirtyCopy(D) PROVE Inv'
<1>1. UNCHANGED <<rpc, call, api_inst_pc, parser2worker_wq, wqes, th, mem,
                  state_preserve_counter, slot, TH_actve, BH_active, async_cmd,
                  dirty_handles, oob_vars, start>>
  BY Zenon DEF DirtyCopy, history, client
<1>2. /\ worker.pc = "stopped" /\ worker'.pc \in {"drain", "sync_persist"}
      /\ DOMAIN worker' = DOMAIN worker
  BY Zenon DEF DirtyCopy, Inv, Types, ThreadType
<1>3. /\ DOMAIN persist_thread' = Handles /\ persist_handles' \subseteq Handles
      /\ \A h \in persist_handles' :
           \/ persist_thread'[h].status = "running"
           \/ h \in persist_handles /\ persist_thread'[h] = persist_thread[h]
  BY Zenon DEF DirtyCopy, Persist, Inv, Types, HandleType
<1>4. Types'
  <2>1. CallInv'
    BY ZenonT(30), <1>1, <1>2, WorkerFrame DEF Busy, Inv, Types, CallInv
  <2> QED BY ZenonT(30), <1>1, <1>2, <1>3, <2>1
       DEF Inv, Types, ThreadType, HandleType,
             CmdType, oob_vars
<1>5. OneCommand' /\ ActiveInv'
  BY Zenon, <1>1, <1>2 DEF Inv, Safe, OneCommand, ActiveInv, oob_vars
<1>6. PersistInv'
  <2>1. BH_active /\ th.pc = "exit"
    BY Zenon, <1>2 DEF Inv, Safe, OneCommand
  <2> QED BY ZenonT(30), <1>1, <1>3, <2>1 DEF Inv, Safe, PersistInv
<1>7. Snapshot'
  BY Zenon, <1>1, <1>2, WorkerSnapshot DEF Busy, do_cow, oob_vars
<1> QED BY Zenon, <1>4, <1>5, <1>6, <1>7 DEF Inv, Safe

\* The bottom half ends with its reply.
LEMMA SyncPersistInv == ASSUME Inv, SyncPersist PROVE Inv'
<1>1. UNCHANGED <<rpc, call, api_inst_pc, parser2worker_wq, wqes, th, mem,
                  state_preserve_counter, slot, TH_actve, async_cmd,
                  dirty_handles, persist_handles, cmd_wq, oob, start>>
  BY Zenon DEF SyncPersist, history, client
<1>2. /\ worker.pc = "sync_persist" /\ worker'.pc = "loop"
      /\ DOMAIN worker' = DOMAIN worker /\ BH_active' = FALSE
      /\ DOMAIN persist_thread' = Handles
  BY Zenon DEF SyncPersist, Polling, Inv, Types, ThreadType
<1>3. PICK r \in {"success", "failed"} : reply_parser(async_cmd, r)
  BY Zenon DEF SyncPersist
<1>4. /\ cmd' \in Seq(Attempt) /\ Len(cmd') = Len(cmd)
      /\ \A i \in 1..Len(cmd) : cmd'[i].do_cow = cmd[i].do_cow
      /\ replies' # <<>>
  BY Zenon, <1>3, ReplyKept DEF Inv, Types
<1>5. Types'
  <2>1. CallInv'
    BY ZenonT(30), <1>1, <1>2, WorkerFrame DEF Busy, Inv, Types, CallInv
  <2> QED BY ZenonT(30), <1>1, <1>2, <1>4, <2>1 DEF Inv, Types, ThreadType,
             HandleType, CmdType
<1>6. OneCommand' /\ PersistInv' /\ ActiveInv'
  BY ZenonT(30), <1>1, <1>2, <1>4
     DEF Inv, Safe, OneCommand, PersistInv, ActiveInv
<1>7. do_cow' => do_cow
  BY <1>1, <1>4 DEF do_cow, Inv, Types, CmdType
<1>8. Snapshot'
  BY Zenon, <1>1, <1>2, <1>7, WorkerSnapshot DEF Busy
<1> QED BY Zenon, <1>5, <1>6, <1>8 DEF Inv, Safe

---------------------------------------------------------------------------
(* The theorems *)

\* The invariant holds at first.
LEMMA InitInv == Init => IInv
<1> SUFFICES ASSUME Init PROVE faults = 0 /\ Inv
  BY DEF IInv
<1>1. worker.pc = "loop" /\ th.pc = "exit" /\ th.todo = {}
      /\ th.retval = "success" /\ DOMAIN worker = {"pc", "max"}
      /\ DOMAIN th = {"pc", "todo", "handle", "seen", "cmd", "retval"}
  BY Zenon DEF Init, Polling, Exited
<1>2. CallInv
  <2>1. <<>> \in Seq(Issued)
    OBVIOUS
  <2>2. call \in [Calls -> Handles \cup {NoHandle}]
    BY Zenon DEF Init
  <2>3. rpc = "idle" /\ api_inst_pc = 1 /\ parser2worker_wq = <<>>
        /\ wqes = <<>>
    BY Zenon DEF Init
  <2>4. 1 \in Nat \ {0}
    OBVIOUS
  <2> QED BY Zenon, <1>1, <2>1, <2>2, <2>3, <2>4 DEF CallInv
<1>3. ThreadType
  BY Zenon, <1>1 DEF ThreadType
<1>4. HandleType
  BY DEF Init, HandleType
<1>5. CmdType
  <2>1. cmd = <<>> /\ cmd \in Seq(Attempt) /\ async_cmd = 0 /\ cmd_wq = <<>>
    BY DEF Init
  <2>2. TH_actve \in BOOLEAN /\ BH_active \in BOOLEAN
    BY Zenon DEF Init
  <2>3. async_cmd \in 0..Len(cmd)
    BY <2>1
  <2> QED BY Zenon, <2>1, <2>2, <2>3 DEF CmdType
<1>6. OneCommand /\ PersistInv /\ ActiveInv
  BY Zenon, <1>1 DEF Init, OneCommand, PersistInv, ActiveInv
<1>7. Snapshot
  BY Zenon, SMTT(30) DEF Init, Snapshot, do_cow
<1> QED BY ZenonT(30), <1>2, <1>3, <1>4, <1>5, <1>6, <1>7
     DEF Inv, Types, Safe, Init

\* Failures are counted and never forgotten.
LEMMA FaultsGrow ==
    ASSUME faults \in Nat, [Next]_vars
    PROVE  faults' = faults \/ faults' = faults + 1
BY Zenon DEF Next, vars, RpcStep, OobStep, ThStep, WorkerStep, PersistStep,
   Fail, try_lock_client, ConfirmOffline, IssueAny, Issue, Skip,
   ParserReturns, TakeReply, Request, ThAdd, ThCopied, ThWaited, ThFinish, ThReply, ThPersist, Persisted, Refuse,
   process_cmd, SetActive, PollCalls, Prepare, Preserved, Launch, BhStart,
   Stopped, BhFails, DirtyCopy, Recompute, Drain, Drained, SyncPersist,
   SyncPersistFails

\* Every step keeps it.
LEMMA NextInv == IInv /\ [Next]_vars => IInv'
<1> SUFFICES ASSUME IInv, [Next]_vars PROVE IInv'
  OBVIOUS
<1>1. faults' \in Nat /\ (faults' = 0 => faults = 0)
  BY FaultsGrow DEF IInv
<1> SUFFICES ASSUME faults' = 0, faults = 0, Inv PROVE Inv'
  BY <1>1 DEF IInv
<1>2. CASE RpcStep
  BY Zenon, <1>2, ClientInv, IssueInv DEF RpcStep, IssueAny
<1>3. CASE OobStep
  BY Zenon, <1>3, TakeReplyInv, RequestInv DEF OobStep
<1>4. CASE ThStep
  BY Zenon, <1>4, ThAddInv, ThDoneInv, ThPersistInv, ThFinishInv, ThReplyInv
     DEF ThStep
<1>5. ASSUME NEW h \in Handles, PersistStep(h) PROVE Inv'
  BY Zenon, <1>5, PersistedInv DEF PersistStep
<1>6. CASE WorkerStep
  <2>1. ~BhFails
    BY DEF BhFails, Fail
  <2> QED BY ZenonT(30), <1>6, <2>1, RefuseInv, ProcessCmdInv, SetActiveInv,
     PollCallsInv,
             PrepareInv, PreservedInv, LaunchInv, BhStartInv, BhMoveInv,
             DirtyCopyInv, SyncPersistInv, NoSyncPersistFails DEF WorkerStep
<1>7. CASE UNCHANGED vars
  <2>1. UNCHANGED <<rpc, call, api_inst_pc, parser2worker_wq, wqes, worker,
                    th, handles, ckpt_cxt, oob_vars, start>>
    BY <1>7 DEF vars, client, history
  <2> QED BY Zenon, <2>1, IdleInv
<1> QED BY Zenon, <1>2, <1>3, <1>4, <1>5, <1>6, <1>7 DEF Next

\* The invariant holds of every execution.
THEOREM Invariance == Spec => []IInv
BY InitInv, NextInv, PTL DEF Spec

\* Copy-on-write preserves the memory of every handle as it was when the
\* checkpoint began, for any number of handles, calls and requests, until
\* something fails.
THEOREM SnapshotAlwaysConsistent == Spec => []SnapshotConsistent
<1>1. IInv => SnapshotConsistent
  BY Zenon DEF IInv, Inv, Safe, Snapshot, CowInv, do_cow, SnapshotConsistent
<1> QED BY <1>1, Invariance, PTL

---------------------------------------------------------------------------
(* Types, whatever has failed *)

\* From here on, a leaf that does not say otherwise is Zenon's.
USE Zenon

\* TypeInv says more than TypeOK.
LEMMA AllTypes == TypeInv => TypeOK
<1> SUFFICES ASSUME TypeInv PROVE TypeOK
  OBVIOUS
<1>1. 1..Len(cmd) \subseteq Cmds /\ Len(cmd) \in Nat
  BY GivenCmds DEF TypeInv
<1>2. cmd_wq \in Seq(Cmds) /\ replies \in Seq(Cmds)
  BY <1>1, SeqMonotone DEF TypeInv, GivenTypes
<1>3. async_cmd \in 0..MaxEvents /\ faults \in 0..MaxEvents
  BY SMTT(20), <1>1, BoundsAssumption DEF TypeInv, CmdTypes, GivenTypes
<1> QED BY <1>2, <1>3 DEF TypeInv, CallTypes, QueueTypes, MemTypes,
     PersistTypes, WorkerTypes, CmdTypes, GivenTypes, FileTypes, WorkerRec,
     WorkerPc, ThRec, ThPc, TypeOK

\* The empty queue.
LEMMA EmptyQueue == \A S : <<>> \in Seq(S)
BY SMT

\* The worker polls.
LEMMA PollingTypes == Polling \in WorkerRec /\ Polling.pc = "loop"
<1>1. "loop" \in WorkerPc /\ 0 \in 0..MaxCalls
  BY SMT, BoundsAssumption DEF WorkerPc
<1> QED BY <1>1 DEF Polling, WorkerRec

\* The top half that is not running.
LEMMA ExitedTypes == Exited \in ThRec /\ Exited.pc = "exit"
<1>1. 0 \in 0..MaxEvents
  BY SMT, BoundsAssumption
<1> QED BY <1>1, EmptyQueue DEF Exited, ThRec, ThPc, State

\* The daemon starts with its queues empty.
LEMMA InitTypes == Init => TypeInv
<1> SUFFICES ASSUME Init PROVE TypeInv
  BY ZenonT(30)
<1>1. worker.pc = "loop" /\ worker \in WorkerRec /\ th \in ThRec
      /\ th.pc = "exit"
  BY PollingTypes, ExitedTypes DEF Init
<1>2. /\ 1 \in 1..(MaxCalls + 1) /\ 0 \in 0..MaxCalls /\ 0 \in 0..2
      /\ 0 \in 0..3 /\ 0 \in 0..MaxEvents
  BY SMT, BoundsAssumption
<1>3. /\ Len(<<>>) = 0 /\ 0 \in 0..Len(<<>>) /\ 0 + Len(<<>>) <= MaxEvents
      /\ 0 \in Nat /\ Len(<<>>) <= MaxReplies
  BY SMT, BoundsAssumption
<1>4. CallTypes /\ QueueTypes
  BY <1>2, EmptyQueue DEF Init, CallTypes, QueueTypes
<1>5. MemTypes
  BY <1>2, EmptyQueue DEF Init, MemTypes, State
<1>6. PersistTypes
  <2>1. NoThread \in Thread
    BY Zenon, <1>2, EmptyQueue DEF NoThread, Thread
  <2> QED BY ZenonT(30), <2>1 DEF Init, PersistTypes
<1>7. WorkerTypes
  <2>1. "loop" \notin Busy
    BY DEF Busy
  <2> QED BY <1>1, <2>1 DEF WorkerTypes
<1>8. CmdTypes
  BY <1>3, EmptyQueue DEF Init, CmdTypes
<1>9. GivenTypes
  <2>1. worker.pc \notin Bottom
    BY <1>1 DEF Bottom
  <2> QED BY <1>1, <1>3, <2>1, EmptyQueue DEF Init, GivenTypes
<1>10. FileTypes
  <2>1. IsDirectory(NoFiles)
    BY SMT DEF IsDirectory, NoFiles
  <2>2. DOMAIN files = Cmds /\ \A c \in Cmds : files[c] = NoFiles
    BY DEF Init
  <2> QED BY <2>1, <2>2 DEF FileTypes
<1> QED BY <1>4, <1>5, <1>6, <1>7, <1>8, <1>9, <1>10 DEF TypeInv

\* A failure counts, and the bound allows for it.
LEMMA FailTypes ==
    ASSUME CmdTypes, UNCHANGED faults \/ Fail
    PROVE  faults' \in Nat /\ faults' + Len(cmd) <= MaxEvents
<1>1. Len(cmd) \in Nat /\ faults \in Nat /\ faults + Len(cmd) <= MaxEvents
  BY GivenCmds DEF CmdTypes
<1>2. CASE UNCHANGED faults
  BY <1>1, <1>2
<1>3. CASE Fail
  BY SMTT(20), <1>1, <1>3, BoundsAssumption DEF Fail
<1> QED BY <1>2, <1>3

---------------------------------------------------------------------------
(* The RPC thread and the OOB thread *)

\* The RPC thread.
LEMMA RpcTypes == ASSUME TypeInv, RpcStep PROVE TypeInv'
<1>1. CASE try_lock_client \/ ConfirmOffline \/ ParserReturns
  <2>1. /\ UNCHANGED <<api_inst_pc, call, skipped, parser2worker_wq, ckptdag_wq,
                       handles, worker, wqes, max_wqe_id, th, ckpt_cxt,
                       oob_vars, files, faults, history>>
        /\ rpc' \in {rpc, "locked", "idle"}
        /\ offline_counter' \in {offline_counter, 2}
        /\ rpc' = "locked" => rpc = "locked" \/ api_inst_pc <= MaxCalls
    BY <1>1 DEF try_lock_client, ConfirmOffline, ParserReturns
  <2>2. CallTypes'
    BY SMT, <2>1, BoundsAssumption DEF TypeInv, CallTypes, Calls, history
  <2> QED BY <2>1, <2>2 DEF TypeInv, QueueTypes, MemTypes, PersistTypes,
       WorkerTypes, CmdTypes, GivenTypes, FileTypes, handles, ckpt_cxt,
       oob_vars, history
<1>2. ASSUME NEW h \in Handles \cup {NoHandle},
             Issue(h) \/ \E sync \in BOOLEAN : Skip(sync)
      PROVE  TypeInv'
  <2>1. /\ UNCHANGED <<offline_counter, ckptdag_wq, handles, worker, wqes,
                       max_wqe_id, th, ckpt_cxt, oob_vars, files, faults,
                       history>>
        /\ rpc = "locked" /\ rpc' \in {"idle", "waiting"}
        /\ call' = call \/ call' = [call EXCEPT ![api_inst_pc] = h]
        /\ api_inst_pc' = api_inst_pc + 1
        /\ \/ parser2worker_wq' = parser2worker_wq
           \/ parser2worker_wq' = Append(parser2worker_wq, api_inst_pc)
        /\ skipped' = skipped \/ skipped' = skipped \cup {api_inst_pc}
    BY <1>2 DEF Issue, Skip
  <2>2. api_inst_pc \in Calls
    BY <2>1 DEF TypeInv, CallTypes
  <2>3. api_inst_pc' \in 1..(MaxCalls + 1) /\ rpc' # "locked"
    BY SMT, <2>1, <2>2, BoundsAssumption DEF Calls
  <2>4. call' \in [Calls -> Handles \cup {NoHandle}] /\ skipped' \subseteq Calls
    BY <2>1, <2>2 DEF TypeInv, CallTypes
  <2>5. parser2worker_wq' \in Seq(Calls)
    BY SMTT(30), <2>1, <2>2 DEF TypeInv, QueueTypes
  <2>6. CallTypes' /\ QueueTypes'
    BY <2>1, <2>3, <2>4, <2>5 DEF TypeInv, CallTypes, QueueTypes, history
  <2> QED BY <2>1, <2>6 DEF TypeInv, MemTypes, PersistTypes,
       WorkerTypes, CmdTypes, GivenTypes, FileTypes, handles, ckpt_cxt,
       oob_vars, history
<1> QED BY <1>1, <1>2 DEF RpcStep, IssueAny

\* What a command is told changes nothing of its type.
LEMMA ReplyTypes ==
    ASSUME TypeInv, NEW c \in 1..Len(cmd), NEW r \in {"success", "failed"},
           reply_parser(c, r)
    PROVE  /\ cmd' \in Seq(Attempt) /\ Len(cmd') = Len(cmd)
           /\ replies' \in Seq(1..Len(cmd)) /\ Len(replies') <= MaxReplies
<1>1. PICK n \in Nat : n = Len(cmd)
  BY GivenCmds DEF TypeInv
<1>2. cmd \in [1..n -> Attempt]
  BY SMT, <1>1 DEF TypeInv, CmdTypes
<1>3. cmd' = [cmd EXCEPT ![c].retval = r]
  BY DEF reply_parser
<1>4. cmd' \in [1..n -> Attempt]
  <2>1. [cmd[c] EXCEPT !.retval = r] \in Attempt
    <3>1. cmd[c] \in Attempt
      BY <1>1, <1>2
    <3> QED BY Zenon, <3>1 DEF Attempt
  <2> QED BY <1>1, <1>2, <1>3, <2>1
<1>5. cmd' \in Seq(Attempt) /\ Len(cmd') = n
  BY SMT, <1>4
<1>6. replies' \in Seq(1..Len(cmd)) /\ Len(replies') <= MaxReplies
  BY SMT, BoundsAssumption DEF reply_parser, TypeInv, GivenTypes
<1> QED BY <1>1, <1>5, <1>6

\* The OOB thread.
LEMMA OobTypes == ASSUME TypeInv, OobStep PROVE TypeInv'
<1>1. CASE TakeReply
  <2>1. /\ UNCHANGED <<client, parser2worker_wq, ckptdag_wq, handles, worker,
                       wqes, max_wqe_id, th, ckpt_cxt, cmd, cmd_wq, files,
                       faults, history>>
        /\ oob' \in {"removed", "idle"} /\ replies' = <<>>
    BY <1>1 DEF TakeReply
  <2>2. Len(<<>>) <= MaxReplies
    BY SMT, BoundsAssumption
  <2>3. CmdTypes' /\ GivenTypes'
    BY <2>1, <2>2, EmptyQueue DEF TypeInv, CmdTypes, GivenTypes, ckpt_cxt
  <2> QED BY <2>1, <2>3 DEF TypeInv, CallTypes, QueueTypes, MemTypes,
       PersistTypes, WorkerTypes, FileTypes, client, handles, ckpt_cxt, history
<1>2. ASSUME NEW dump \in BOOLEAN, NEW cow \in BOOLEAN, NEW force \in BOOLEAN,
             Request(dump, cow, force)
      PROVE  TypeInv'
  <2>1. /\ UNCHANGED <<client, parser2worker_wq, ckptdag_wq, handles, worker,
                       wqes, max_wqe_id, th, ckpt_cxt, replies, files, faults,
                       history>>
        /\ faults + Len(cmd) < MaxEvents /\ oob' = "waiting"
    BY <1>2 DEF Request
  <2>2. PICK a \in Attempt : cmd' = Append(cmd, a)
    <3>1. [dump |-> dump, do_cow |-> cow, force_recompute |-> force,
           retval |-> "success"] \in Attempt
      BY DEF Attempt
    <3> QED BY <1>2, <3>1 DEF Request
  <2>3. PICK n \in Nat : n = Len(cmd)
    BY GivenCmds DEF TypeInv
  <2>4. cmd' \in Seq(Attempt) /\ Len(cmd') = n + 1
    BY SMTT(20), <2>2, <2>3 DEF TypeInv, CmdTypes
  <2>5. faults' + Len(cmd') <= MaxEvents
    BY SMTT(20), <2>1, <2>3, <2>4, BoundsAssumption DEF TypeInv, CmdTypes
  <2>6. 1..n \subseteq 1..(n + 1) /\ 0..n \subseteq 0..(n + 1)
        /\ n + 1 \in 1..(n + 1)
    BY SMT
  <2>7. cmd_wq' \in Seq(1..(n + 1))
    <3>1. cmd_wq \in Seq(1..(n + 1))
      <4>1. cmd_wq \in Seq(1..n)
        BY <2>3 DEF TypeInv, GivenTypes
      <4> QED BY <2>6, <4>1, SeqMonotone
    <3>2. cmd_wq' = Append(cmd_wq, n + 1)
      BY <1>2, <2>3 DEF Request
    <3> QED BY SMT, <2>6, <3>1, <3>2
  <2>8. replies' \in Seq(1..(n + 1))
    <3>1. replies' \in Seq(1..n)
      BY <2>1, <2>3 DEF TypeInv, GivenTypes
    <3> QED BY <2>6, <3>1, SeqMonotone
  <2>9. GivenTypes'
    BY <2>1, <2>3, <2>4, <2>6, <2>7, <2>8 DEF TypeInv, GivenTypes, ckpt_cxt
  <2>10. CmdTypes'
    BY <2>1, <2>4, <2>5 DEF TypeInv, CmdTypes, ckpt_cxt
  <2> QED BY <2>1, <2>9, <2>10 DEF TypeInv, CallTypes, QueueTypes, MemTypes,
       PersistTypes, WorkerTypes, FileTypes, client, handles, ckpt_cxt, history
<1> QED BY <1>1, <1>2 DEF OobStep

---------------------------------------------------------------------------
(* The top half and the persist threads *)

\* The top half turns to a handle, or away from it, or goes on.
LEMMA ThMoves ==
    ASSUME NEW t \in ThRec, NEW p \in ThPc, NEW T \in SUBSET Handles,
           NEW h \in Handles \cup {NoHandle}, NEW s \in State,
           NEW r \in {"success", "failed"}
    PROVE  /\ [t EXCEPT !.pc = p, !.todo = T, !.handle = h, !.seen = s]
                \in ThRec
           /\ [t EXCEPT !.pc = p, !.handle = h, !.seen = s] \in ThRec
           /\ [t EXCEPT !.pc = p, !.retval = r] \in ThRec
           /\ [t EXCEPT !.pc = p] \in ThRec
BY DEF ThRec

\* The top half is done with a handle.
LEMMA ThDone ==
    ASSUME NEW h, th \in ThRec
    PROVE  done(h) \in ThRec /\ done(h).cmd = th.cmd
<1>1. <<>> \in State /\ "add" \in ThPc
  BY EmptyQueue DEF State, ThPc
<1>2. PICK T \in SUBSET Handles : T = th.todo \ {h}
  BY DEF ThRec
<1>3. done(h) = [th EXCEPT !.pc = "add", !.todo = T, !.handle = NoHandle,
                           !.seen = <<>>]
  BY <1>2 DEF done
<1>4. done(h) \in ThRec
  BY <1>1, <1>2, <1>3 DEF ThRec
<1>5. done(h).cmd = th.cmd
  BY <1>3 DEF ThRec
<1> QED BY <1>4, <1>5

\* A command of the top half stays underway.
LEMMA ThGiven ==
    ASSUME TypeInv, th' \in ThRec, th'.cmd = th.cmd, th.pc # "exit",
           UNCHANGED <<worker, BH_active, async_cmd, oob_vars>>
    PROVE  GivenTypes'
BY DEF TypeInv, GivenTypes, oob_vars

\* Copying a handle.
LEMMA ThCopyTypes ==
    ASSUME TypeInv, ThCopied \/ ThWaited \/ \E h \in Handles : ThAdd(h)
    PROVE  TypeInv'
<1>1. UNCHANGED <<client, parser2worker_wq, ckptdag_wq, mem, persist_thread,
                  worker, wqes, max_wqe_id, ckpt_cxt, oob_vars, files, faults,
                  history>>
  BY DEF ThCopied, ThWaited, ThAdd, handles
<1>2. th \in ThRec /\ mem \in [Handles -> State]
  BY DEF TypeInv, GivenTypes, MemTypes
<1>3. /\ th' \in ThRec /\ th'.cmd = th.cmd /\ th.pc # "exit"
      /\ slot' \in [Handles -> Seq(0..MaxCalls)]
      /\ state_preserve_counter' \in [Handles -> 0..3]
  <2>1. /\ slot \in [Handles -> Seq(0..MaxCalls)]
        /\ state_preserve_counter \in [Handles -> 0..3]
    BY DEF TypeInv, MemTypes
  <2>2. ASSUME NEW h \in Handles, ThAdd(h) PROVE <1>3
    <3>1. PICK n \in 0..3 : n = state_preserve_counter[h]
      BY <2>1
    <3>2. /\ th.pc = "add" /\ slot' = slot
          /\ state_preserve_counter' =
               [state_preserve_counter EXCEPT ![h] = AddCount(n)]
          /\ th' = IF AddRole(n) = "done" THEN done(h)
                     ELSE [th EXCEPT !.pc = AddRole(n), !.handle = h,
                                     !.seen = mem[h]]
      BY <2>2, <3>1 DEF ThAdd
    <3>3. AddCount(n) \in 0..3 /\ (AddRole(n) # "done" => AddRole(n) \in ThPc)
      BY <3>1, AddTypes DEF ThPc
    <3>4. state_preserve_counter' \in [Handles -> 0..3]
      BY <2>1, <3>2, <3>3
    <3>5. mem[h] \in State
      BY <1>2
    <3>6. th' \in ThRec /\ th'.cmd = th.cmd
      <4>1. CASE AddRole(n) = "done"
        BY <1>2, <3>2, <4>1, ThDone
      <4>2. CASE AddRole(n) # "done"
        <5>1. th' = [th EXCEPT !.pc = AddRole(n), !.handle = h, !.seen = mem[h]]
          BY <3>2, <4>2
        <5>2. th' \in ThRec
          BY <1>2, <3>3, <3>5, <4>2, <5>1, ThMoves
        <5> QED BY <1>2, <5>1, <5>2 DEF ThRec
      <4> QED BY <4>1, <4>2
    <3>7. "add" # "exit"
      OBVIOUS
    <3> QED BY <2>1, <3>2, <3>4, <3>6, <3>7
  <2>3. CASE ThCopied
    <3>1. PICK h : h = th.handle
      OBVIOUS
    <3>2. /\ th.pc = "copy" /\ th' = done(h)
          /\ slot' = [slot EXCEPT ![h] = IF mem[h] = th.seen THEN th.seen
                                           ELSE Torn]
          /\ state_preserve_counter' = [state_preserve_counter EXCEPT ![h] = 3]
      BY <2>3, <3>1 DEF ThCopied
    <3>3. th.seen \in Seq(0..MaxCalls) /\ Torn \in Seq(0..MaxCalls)
      <4>1. Calls \subseteq 0..MaxCalls /\ th.seen \in Seq(Calls)
        BY SMTT(30), <1>2, BoundsAssumption DEF ThRec, State, Calls
      <4>2. Torn \in Seq(0..MaxCalls)
        BY SMT, BoundsAssumption DEF Torn
      <4> QED BY <4>1, <4>2, SeqMonotone
    <3>4. slot' \in [Handles -> Seq(0..MaxCalls)]
      BY <2>1, <3>2, <3>3
    <3>5. 3 \in 0..3
      BY SMT
    <3>6. state_preserve_counter' \in [Handles -> 0..3]
      BY <2>1, <3>2, <3>5
    <3>7. th' \in ThRec /\ th'.cmd = th.cmd
      BY <1>2, <3>2, ThDone
    <3>8. "copy" # "exit"
      OBVIOUS
    <3> QED BY <3>2, <3>4, <3>6, <3>7, <3>8
  <2>4. CASE ThWaited
    <3>1. th.pc = "wait" /\ th' = done(th.handle)
          /\ UNCHANGED <<slot, state_preserve_counter>>
      BY <2>4 DEF ThWaited, handles
    <3>2. th' \in ThRec /\ th'.cmd = th.cmd
      BY <1>2, <3>1, ThDone
    <3>3. "wait" # "exit"
      OBVIOUS
    <3> QED BY <2>1, <3>1, <3>2, <3>3
  <2> QED BY <2>2, <2>3, <2>4
<1>4. GivenTypes'
  BY <1>1, <1>3, ThGiven DEF ckpt_cxt
<1>5. MemTypes'
  BY <1>1, <1>3 DEF TypeInv, MemTypes, history
<1> QED BY <1>1, <1>4, <1>5 DEF TypeInv, CallTypes, QueueTypes, PersistTypes,
     WorkerTypes, CmdTypes, FileTypes, client, ckpt_cxt, oob_vars, history

\* A persist thread is started for some handles.
LEMMA PersistStarts ==
    ASSUME PersistTypes, NEW c \in 0..MaxEvents, NEW S \in SUBSET Handles,
           NEW state \in [Handles -> Seq(0..MaxCalls)], Persist(c, S, state)
    PROVE  /\ persist_thread' \in [Handles -> Thread]
           /\ persist_handles' \subseteq Handles
<1>1. \A h \in Handles :
        [status |-> "running", cmd |-> c, state |-> state[h]] \in Thread
  BY DEF Thread
<1> QED BY <1>1 DEF Persist, PersistTypes

\* ... and collected.
LEMMA ThreadsCollected ==
    ASSUME PersistTypes, NEW S,
           persist_thread' = [h \in Handles |-> IF h \in S THEN NoThread
                                                  ELSE persist_thread[h]]
    PROVE  persist_thread' \in [Handles -> Thread]
<1>1. NoThread \in Thread
  <2>1. 0 \in 0..MaxEvents
    BY SMT, BoundsAssumption
  <2> QED BY <2>1, EmptyQueue DEF NoThread, Thread
<1> QED BY <1>1 DEF PersistTypes

\* The top half hands the handles on.
LEMMA ThPersistTypes ==
    ASSUME TypeInv, NEW S \in SUBSET Handles, ThPersist(S) PROVE TypeInv'
<1>1. /\ UNCHANGED <<client, parser2worker_wq, ckptdag_wq, mem,
                     state_preserve_counter, slot, worker, wqes, max_wqe_id,
                     TH_actve, BH_active, async_cmd, dirty_handles, oob_vars,
                     files, history>>
      /\ th.pc = "add" /\ (UNCHANGED faults \/ Fail)
      /\ Persist(th.cmd, S, slot)
      /\ th' = [th EXCEPT !.pc = "persisted",
                          !.retval = IF S = Handles THEN @ ELSE "failed"]
  BY DEF ThPersist
<1>2. th \in ThRec /\ th.cmd \in 0..MaxEvents
  BY DEF TypeInv, GivenTypes, ThRec
<1>3. th' \in ThRec /\ th'.cmd = th.cmd
  <2>1. PICK r \in {"success", "failed"} :
          th' = [th EXCEPT !.pc = "persisted", !.retval = r]
    BY <1>1, <1>2 DEF ThRec
  <2>2. "persisted" \in ThPc
    BY DEF ThPc
  <2> QED BY <1>2, <2>1, <2>2 DEF ThRec
<1>4. PersistTypes'
  BY <1>1, <1>2, PersistStarts DEF TypeInv, PersistTypes, MemTypes
<1>5. CmdTypes'
  BY <1>1, FailTypes DEF TypeInv, CmdTypes, oob_vars
<1>6. GivenTypes'
  <2>1. "add" # "exit"
    OBVIOUS
  <2> QED BY <1>1, <1>3, <2>1, ThGiven
<1> QED BY <1>1, <1>4, <1>5, <1>6 DEF TypeInv, CallTypes, QueueTypes, MemTypes,
     WorkerTypes, FileTypes, client, history

\* The top half ends, and answers a pre-dump.
LEMMA ThEndTypes == ASSUME TypeInv, ThFinish \/ ThReply PROVE TypeInv'
<1>1. CASE ThFinish
  <2>1. /\ UNCHANGED <<client, parser2worker_wq, ckptdag_wq, handles, worker,
                       wqes, max_wqe_id, async_cmd, dirty_handles,
                       persist_handles, oob_vars, files, faults, history>>
        /\ th.pc = "persisted"
        /\ TH_actve' = (TH_actve /\ cmd[th.cmd].dump)
        /\ BH_active' = (BH_active \/ cmd[th.cmd].dump)
        /\ \E p \in {"exit", "reply"} : th' = [th EXCEPT !.pc = p]
    BY <1>1 DEF ThFinish
  <2>2. th.cmd \in 1..Len(cmd) /\ async_cmd # 0
    <3>1. "persisted" # "exit"
      OBVIOUS
    <3> QED BY <2>1, <3>1 DEF TypeInv, GivenTypes
  <2>3. cmd[th.cmd].dump \in BOOLEAN
    <3>1. cmd[th.cmd] \in Attempt
      BY SMT, <2>2 DEF TypeInv, CmdTypes
    <3> QED BY <3>1 DEF Attempt
  <2>4. TH_actve' \in BOOLEAN /\ BH_active' \in BOOLEAN
    BY <2>1, <2>3 DEF TypeInv, CmdTypes
  <2>5. th' \in ThRec /\ th'.cmd = th.cmd
    <3>1. th \in ThRec /\ {"exit", "reply"} \subseteq ThPc
      BY DEF TypeInv, GivenTypes, ThPc
    <3> QED BY ZenonT(30), <2>1, <3>1 DEF ThRec
  <2>6. GivenTypes'
    BY <2>1, <2>2, <2>5 DEF TypeInv, GivenTypes, oob_vars
  <2>7. CmdTypes'
    BY <2>1, <2>4 DEF TypeInv, CmdTypes, oob_vars
  <2> QED BY <2>1, <2>6, <2>7 DEF TypeInv, CallTypes, QueueTypes, MemTypes,
       PersistTypes, WorkerTypes, FileTypes, client, handles, history
<1>2. CASE ThReply
  <2>1. /\ UNCHANGED <<client, parser2worker_wq, ckptdag_wq, mem,
                       state_preserve_counter, slot, worker, wqes, max_wqe_id,
                       ckpt_cxt, files, faults, history, cmd_wq, oob>>
        /\ th.pc = "reply" /\ th' = Exited
        /\ persist_thread' = [h \in Handles |-> IF h \in persist_handles
                                THEN NoThread ELSE persist_thread[h]]
    BY <1>2 DEF ThReply
  <2>2. PICK r \in {"success", "failed"} : reply_parser(th.cmd, r)
    <3>1. th.retval \in {"success", "failed"}
      BY DEF TypeInv, GivenTypes, ThRec
    <3> QED BY <1>2, <3>1 DEF ThReply
  <2>3. th.cmd \in 1..Len(cmd)
    <3>1. "reply" # "exit"
      OBVIOUS
    <3> QED BY <2>1, <3>1 DEF TypeInv, GivenTypes
  <2>4. /\ cmd' \in Seq(Attempt) /\ Len(cmd') = Len(cmd)
        /\ replies' \in Seq(1..Len(cmd)) /\ Len(replies') <= MaxReplies
    BY <2>2, <2>3, ReplyTypes
  <2>5. th' \in ThRec /\ th'.pc = "exit"
    BY <2>1, ExitedTypes
  <2>6. GivenTypes' /\ CmdTypes'
    BY <2>1, <2>4, <2>5 DEF TypeInv, GivenTypes, CmdTypes, ckpt_cxt
  <2>7. PersistTypes'
    BY <2>1, ThreadsCollected DEF TypeInv, PersistTypes, ckpt_cxt
  <2> QED BY <2>1, <2>6, <2>7 DEF TypeInv, CallTypes, QueueTypes, MemTypes,
       WorkerTypes, FileTypes, client, history
<1> QED BY <1>1, <1>2

\* A persist thread writes its file or fails.
LEMMA PersistedTypes ==
    ASSUME TypeInv, NEW h \in Handles, NEW ok \in BOOLEAN, Persisted(h, ok)
    PROVE  TypeInv'
<1>1. /\ UNCHANGED <<client, parser2worker_wq, ckptdag_wq, mem,
                     state_preserve_counter, slot, worker, wqes, max_wqe_id, th,
                     ckpt_cxt, oob_vars, history>>
      /\ UNCHANGED faults \/ Fail
      /\ \E s \in {"ok", "failed"} : persist_thread' =
            [persist_thread EXCEPT ![h] = [NoThread EXCEPT !.status = s]]
      /\ files' = files \/
         files' = [files EXCEPT ![persist_thread[h].cmd].state =
                     Written(@, h, persist_thread[h].state)]
  BY DEF Persisted
<1>2. PersistTypes'
  <2>1. \A s \in {"ok", "failed"} : [NoThread EXCEPT !.status = s] \in Thread
    <3>1. 0 \in 0..MaxEvents
      BY SMT, BoundsAssumption
    <3> QED BY <3>1, EmptyQueue DEF NoThread, Thread
  <2> QED BY <1>1, <2>1 DEF TypeInv, PersistTypes, ckpt_cxt
<1>3. FileTypes'
  <2>1. PICK x \in Seq(0..MaxCalls), c \in 0..MaxEvents :
          x = persist_thread[h].state /\ c = persist_thread[h].cmd
    BY DEF TypeInv, PersistTypes, Thread
  <2>2. ASSUME NEW f, IsDirectory(f)
        PROVE  IsDirectory([f EXCEPT !.state = Written(f.state, h, x)])
    <3>1. PICK g : g = Written(f.state, h, x)
      OBVIOUS
    <3>2. /\ DOMAIN g = {h} \cup DOMAIN f.state
          /\ \A k \in DOMAIN g : g[k] = IF k = h THEN x ELSE f.state[k]
      BY <3>1 DEF Written
    <3>3. PICK e : e = [f EXCEPT !.state = g]
      OBVIOUS
    <3>4. /\ DOMAIN e = {"state", "ra", "ua"} /\ e.state = g /\ e.ra = f.ra
          /\ e.ua = f.ua
      BY <2>2, <3>3 DEF IsDirectory
    <3>5. IsDirectory(e)
      BY <2>1, <2>2, <3>2, <3>4 DEF IsDirectory
    <3> QED BY <3>1, <3>3, <3>5
  <2>3. CASE files' = files
    BY <2>3 DEF TypeInv, FileTypes
  <2>4. CASE files' = [files EXCEPT ![c].state = Written(@, h, x)]
    <3>1. \A d \in Cmds : files'[d] = IF d = c
            THEN [files[d] EXCEPT !.state = Written(files[d].state, h, x)]
            ELSE files[d]
      BY <2>4 DEF TypeInv, FileTypes
    <3> QED BY <2>2, <2>4, <3>1 DEF TypeInv, FileTypes
  <2> QED BY <1>1, <2>1, <2>3, <2>4
<1>4. CmdTypes'
  BY <1>1, FailTypes DEF TypeInv, CmdTypes, ckpt_cxt, oob_vars
<1> QED BY ZenonT(30), <1>1, <1>2, <1>3, <1>4
           DEF TypeInv, CallTypes, QueueTypes, MemTypes,
     WorkerTypes, GivenTypes, client, ckpt_cxt, oob_vars, history

---------------------------------------------------------------------------
(* The worker *)

\* The worker moves on, between calls.
LEMMA WorkerMoves ==
    ASSUME worker \in WorkerRec, NEW p \in WorkerPc
    PROVE  LET w == [worker EXCEPT !.pc = p]
           IN  w \in WorkerRec /\ w.pc = p /\ w.max = worker.max
BY DEF WorkerRec

\* The commands: refused, or taken up by starting the top half.
LEMMA CommandTypes ==
    ASSUME TypeInv, Refuse \/ SetActive \/ \E ok \in BOOLEAN : process_cmd(ok)
    PROVE  TypeInv'
<1>1. CASE Refuse
  <2>1. /\ UNCHANGED <<client, parser2worker_wq, ckptdag_wq, handles, worker,
                       wqes, max_wqe_id, th, ckpt_cxt, oob, files, faults,
                       history>>
        /\ cmd_wq # <<>> /\ cmd_wq' = Tail(cmd_wq)
        /\ reply_parser(Head(cmd_wq), "failed")
    BY <1>1 DEF Refuse
  <2>2. Head(cmd_wq) \in 1..Len(cmd) /\ Tail(cmd_wq) \in Seq(1..Len(cmd))
    BY SMT, <2>1 DEF TypeInv, GivenTypes
  <2>3. /\ cmd' \in Seq(Attempt) /\ Len(cmd') = Len(cmd)
        /\ replies' \in Seq(1..Len(cmd)) /\ Len(replies') <= MaxReplies
    BY <2>1, <2>2, ReplyTypes
  <2>4. GivenTypes' /\ CmdTypes'
    BY <2>1, <2>2, <2>3 DEF TypeInv, GivenTypes, CmdTypes, ckpt_cxt
  <2> QED BY <2>1, <2>4 DEF TypeInv, CallTypes, QueueTypes, MemTypes,
       PersistTypes, WorkerTypes, FileTypes, client, handles, ckpt_cxt, history
<1>2. CASE SetActive
  <2>1. /\ UNCHANGED <<client, parser2worker_wq, ckptdag_wq, handles, wqes,
                       max_wqe_id, th, BH_active, async_cmd, dirty_handles,
                       persist_handles, oob_vars, files, faults, history>>
        /\ TH_actve' = TRUE /\ worker' = Polling
    BY <1>2 DEF SetActive
  <2>2. worker' \in WorkerRec /\ worker'.pc \notin Busy
        /\ worker'.pc \notin Bottom
    BY <2>1, PollingTypes DEF Busy, Bottom
  <2> QED BY <2>1, <2>2 DEF TypeInv, CallTypes, QueueTypes, MemTypes,
       PersistTypes, WorkerTypes, CmdTypes, GivenTypes, FileTypes, client,
       handles, oob_vars, history
<1>3. ASSUME NEW ok \in BOOLEAN, process_cmd(ok) PROVE TypeInv'
  <2>1. /\ UNCHANGED <<client, parser2worker_wq, mem, slot, persist_thread,
                       wqes, max_wqe_id, TH_actve, BH_active, cmd, replies, oob,
                       files>>
        /\ worker.pc = "loop" /\ th.pc = "exit" /\ (UNCHANGED faults \/ Fail)
        /\ cmd_wq # <<>> /\ cmd_wq' = Tail(cmd_wq) /\ async_cmd' = Head(cmd_wq)
        /\ dirty_handles' = {} /\ persist_handles' = {} /\ ckptdag_wq' = <<>>
        /\ state_preserve_counter' = [h \in Handles |-> 0]
        /\ start' = mem /\ missed' = {}
        /\ \/ th' = th
           \/ th' = [Exited EXCEPT !.pc = "add", !.todo = Handles,
                                   !.cmd = Head(cmd_wq)]
        /\ worker' \in {worker, [worker EXCEPT !.pc = "raise"]}
    BY <1>3 DEF process_cmd
  <2>2. Head(cmd_wq) \in 1..Len(cmd) /\ Tail(cmd_wq) \in Seq(1..Len(cmd))
    BY SMTT(20), <2>1 DEF TypeInv, GivenTypes
  <2>3. /\ Head(cmd_wq) \in 0..Len(cmd) /\ Head(cmd_wq) # 0
        /\ Head(cmd_wq) \in 0..MaxEvents /\ 0 \in 0..3
    BY SMTT(20), <2>2, BoundsAssumption, GivenCmds DEF TypeInv, CmdTypes
  <2>4. worker' \in WorkerRec /\ worker'.pc \notin Busy
        /\ worker'.pc \notin Bottom
    <3>1. worker \in WorkerRec /\ "raise" \in WorkerPc
      BY DEF TypeInv, WorkerTypes, WorkerPc
    <3>2. worker' \in WorkerRec /\ worker'.pc \in {"loop", "raise"}
      BY ZenonT(30), <2>1, <3>1, WorkerMoves
    <3> QED BY <3>2 DEF Busy, Bottom
  <2>5. /\ th' \in ThRec
        /\ th'.pc # "exit" => th'.cmd \in 1..Len(cmd)
    <3>1. CASE th' = th
      BY <2>1, <3>1 DEF TypeInv, GivenTypes
    <3>2. CASE th' = [Exited EXCEPT !.pc = "add", !.todo = Handles,
                                    !.cmd = Head(cmd_wq)]
      BY <2>2, <2>3, <3>2, EmptyQueue DEF Exited, ThRec, ThPc, State
    <3> QED BY <2>1, <3>1, <3>2
  <2>6. CallTypes' /\ QueueTypes' /\ MemTypes' /\ PersistTypes' /\ WorkerTypes'
    BY <2>1, <2>3, <2>4, EmptyQueue DEF TypeInv, CallTypes, QueueTypes,
       MemTypes, PersistTypes, WorkerTypes, client
  <2>7. CmdTypes' /\ GivenTypes'
    BY ZenonT(30), <2>1, <2>2, <2>3, <2>4, <2>5, FailTypes
       DEF TypeInv, CmdTypes, GivenTypes
  <2> QED BY <2>1, <2>6, <2>7 DEF TypeInv, FileTypes
<1> QED BY <1>1, <1>2, <1>3

\* The calls: polled, prepared, preserved and launched.
LEMMA PollTypes == ASSUME TypeInv, PollCalls PROVE TypeInv'
<1>1. /\ UNCHANGED <<client, ckptdag_wq, handles, worker, max_wqe_id, th,
                     ckpt_cxt, oob_vars, files, faults, history>>
      /\ worker.pc = "loop" /\ wqes' = parser2worker_wq
      /\ parser2worker_wq' = <<>>
  BY DEF PollCalls
<1>2. worker'.pc \notin Busy
  BY <1>1 DEF Busy
<1> QED BY ZenonT(30), <1>1, <1>2, EmptyQueue
           DEF TypeInv, CallTypes, QueueTypes, MemTypes,
     PersistTypes, WorkerTypes, CmdTypes, GivenTypes, FileTypes, client,
     handles, ckpt_cxt, oob_vars, history

\* The call the worker is at.
LEMMA HeadTypes ==
    ASSUME CallTypes, QueueTypes, wqes # <<>>
    PROVE  /\ Head(wqes) \in Calls /\ Tail(wqes) \in Seq(Calls)
           /\ call[Head(wqes)] \in Handles \cup {NoHandle}
<1>1. Head(wqes) \in Calls /\ Tail(wqes) \in Seq(Calls)
  BY SMT DEF QueueTypes
<1> QED BY <1>1 DEF CallTypes

\* The worker prepares a call.
LEMMA PrepareTypes == ASSUME TypeInv, Prepare PROVE TypeInv'
<1>1. /\ UNCHANGED <<client, parser2worker_wq, mem, slot, persist_thread, wqes,
                     max_wqe_id, th, TH_actve, BH_active, async_cmd,
                     persist_handles, oob_vars, files, faults, history>>
      /\ worker.pc = "loop" /\ wqes # <<>>
      /\ ckptdag_wq' \in {ckptdag_wq, Append(ckptdag_wq, Head(wqes))}
  BY DEF Prepare
<1>2. PICK h \in Handles \cup {NoHandle}, i \in Calls :
        i = Head(wqes) /\ h = call[i]
  BY <1>1, HeadTypes DEF TypeInv
<1>3. QueueTypes'
  <2>1. Append(ckptdag_wq, i) \in Seq(Calls)
    BY SMT DEF TypeInv, QueueTypes
  <2> QED BY <1>1, <1>2, <2>1 DEF TypeInv, QueueTypes
<1>4. dirty_handles' \subseteq Handles
  BY <1>2 DEF Prepare, Dirtied, TypeInv, PersistTypes
<1>5. /\ state_preserve_counter' \in [Handles -> 0..3]
      /\ \E p \in Busy : worker' = [worker EXCEPT !.pc = p]
  <2>1. state_preserve_counter \in [Handles -> 0..3]
    BY DEF TypeInv, MemTypes
  <2>2. \/ /\ h # NoHandle
           /\ LET n == state_preserve_counter[h]
              IN  /\ worker' = [worker EXCEPT !.pc =
                       IF AddRole(n) = "done" THEN "launch" ELSE AddRole(n)]
                  /\ state_preserve_counter' =
                       [state_preserve_counter EXCEPT ![h] = AddCount(n)]
        \/ /\ worker' = [worker EXCEPT !.pc = "launch"]
           /\ UNCHANGED state_preserve_counter
    BY <1>2 DEF Prepare
  <2>3. h # NoHandle => /\ AddCount(state_preserve_counter[h]) \in 0..3
                        /\ AddRole(state_preserve_counter[h])
                             \in {"copy", "wait", "done"}
    BY <2>1, AddTypes
  <2> QED BY <2>1, <2>2, <2>3 DEF Busy
<1>6. worker' \in WorkerRec /\ worker'.pc \in Busy
  <2>1. Busy \subseteq WorkerPc
    BY DEF Busy, WorkerPc
  <2> QED BY <1>5, <2>1, WorkerMoves DEF TypeInv, WorkerTypes
<1>7. MemTypes' /\ PersistTypes' /\ WorkerTypes'
  BY ZenonT(30), <1>1, <1>4, <1>5, <1>6
     DEF TypeInv, MemTypes, PersistTypes, WorkerTypes,
     history
<1>8. GivenTypes'
  <2>1. worker'.pc \notin Bottom
    BY <1>6 DEF Busy, Bottom
  <2> QED BY <1>1, <2>1 DEF TypeInv, GivenTypes, oob_vars
<1> QED BY <1>1, <1>3, <1>7, <1>8 DEF TypeInv, CallTypes, CmdTypes, FileTypes,
     client, oob_vars, history

\* It has copied the handle, or waited for the copy.
LEMMA PreservedTypes == ASSUME TypeInv, Preserved PROVE TypeInv'
<1>1. /\ UNCHANGED <<client, parser2worker_wq, ckptdag_wq, mem, persist_thread,
                     wqes, max_wqe_id, th, ckpt_cxt, oob_vars, files, faults,
                     history>>
      /\ worker.pc \in {"copy", "wait"}
      /\ worker' = [worker EXCEPT !.pc = "launch"]
  BY DEF Preserved
<1>2. worker' \in WorkerRec /\ worker'.pc = "launch" /\ wqes # <<>>
  <2>1. "launch" \in WorkerPc /\ {"copy", "wait"} \subseteq Busy
    BY DEF WorkerPc, Busy
  <2> QED BY <1>1, <2>1, WorkerMoves DEF TypeInv, WorkerTypes
<1>3. /\ slot' \in [Handles -> Seq(0..MaxCalls)]
      /\ state_preserve_counter' \in [Handles -> 0..3]
  <2>1. /\ slot \in [Handles -> Seq(0..MaxCalls)] /\ 3 \in 0..3
        /\ state_preserve_counter \in [Handles -> 0..3]
    BY SMT DEF TypeInv, MemTypes
  <2>2. \A h \in Handles : mem[h] \in Seq(0..MaxCalls)
    <3>1. Calls \subseteq 0..MaxCalls
      BY SMT, BoundsAssumption DEF Calls
    <3> QED BY <3>1, SeqMonotone DEF TypeInv, MemTypes, State
  <2>3. \/ UNCHANGED <<slot, state_preserve_counter>>
        \/ \E h : /\ slot' = [slot EXCEPT ![h] = mem[h]]
                  /\ state_preserve_counter' =
                       [state_preserve_counter EXCEPT ![h] = 3]
    BY DEF Preserved
  <2> QED BY <2>1, <2>2, <2>3
<1>4. GivenTypes' /\ WorkerTypes'
  <2>1. worker'.pc \notin Bottom
    BY <1>2 DEF Bottom
  <2> QED BY <1>1, <1>2, <2>1 DEF TypeInv, GivenTypes, WorkerTypes, ckpt_cxt,
       oob_vars
<1> QED BY ZenonT(30), <1>1, <1>3, <1>4
           DEF TypeInv, CallTypes, QueueTypes, MemTypes,
     PersistTypes, CmdTypes, FileTypes, client, ckpt_cxt, oob_vars, history

\* It launches the call.
LEMMA LaunchTypes == ASSUME TypeInv, Launch PROVE TypeInv'
<1>1. /\ UNCHANGED <<offline_counter, api_inst_pc, call, skipped,
                     parser2worker_wq, ckptdag_wq, state_preserve_counter, slot,
                     persist_thread, th, ckpt_cxt, oob_vars, files, faults,
                     start>>
      /\ worker.pc = "launch" /\ wqes' = Tail(wqes) /\ worker' = Polling
      /\ max_wqe_id' = Head(wqes) /\ rpc' \in {rpc, "idle"}
      /\ missed' \in {missed, missed \cup {Head(wqes)}}
      /\ \/ mem' = mem
         \/ \E h : mem' = [mem EXCEPT ![h] = Append(@, Head(wqes))]
  BY DEF Launch
<1>2. wqes # <<>>
  <2>1. "launch" \in Busy
    BY DEF Busy
  <2> QED BY <1>1, <2>1 DEF TypeInv, WorkerTypes
<1>3. PICK i \in Calls : i = Head(wqes) /\ Tail(wqes) \in Seq(Calls)
  BY <1>2, HeadTypes DEF TypeInv
<1>4. mem' \in [Handles -> State]
  <2>1. \A s \in State : Append(s, i) \in State
    BY SMT DEF State
  <2> QED BY ZenonT(30), <1>1, <1>3, <2>1 DEF TypeInv, MemTypes
<1>5. max_wqe_id' \in 0..MaxCalls
  BY SMT, <1>1, <1>3, BoundsAssumption DEF Calls
<1>6. CallTypes' /\ QueueTypes'
  <2>1. rpc' = "locked" => rpc = "locked"
    BY <1>1
  <2>2. rpc' \in {"idle", "locked", "waiting"}
    BY <1>1 DEF TypeInv, CallTypes
  <2> QED BY <1>1, <1>3, <1>5, <2>1, <2>2 DEF TypeInv, CallTypes, QueueTypes
<1>7. /\ worker' \in WorkerRec
      /\ worker'.pc \notin Busy /\ worker'.pc \notin Bottom
  BY <1>1, PollingTypes DEF Busy, Bottom
<1>8. GivenTypes' /\ WorkerTypes'
  BY <1>1, <1>7 DEF TypeInv, GivenTypes, WorkerTypes, ckpt_cxt, oob_vars
<1> QED BY <1>1, <1>4, <1>6, <1>8 DEF TypeInv, MemTypes, PersistTypes,
     CmdTypes, FileTypes, ckpt_cxt, oob_vars

---------------------------------------------------------------------------
(* The bottom half *)

\* The members of the head of a queue.
LEMMA SubRange ==
    ASSUME NEW S, NEW s \in Seq(S), NEW n \in 0..Len(s)
    PROVE  /\ Range(SubSeq(s, 1, n)) = {s[j] : j \in 1..n}
           /\ Range(SubSeq(s, 1, n)) \subseteq S
<1>1. PICK t : t = SubSeq(s, 1, n)
  OBVIOUS
<1>2. DOMAIN t = 1..n /\ \A j \in 1..n : t[j] = s[j] /\ s[j] \in S
  BY SMT, <1>1
<1> QED BY <1>1, <1>2 DEF Range

\* More calls in a directory.
LEMMA DirectoryGrows ==
    ASSUME FileTypes, NEW c, NEW C \in SUBSET Calls,
           \/ files' = [files EXCEPT ![c].ra = @ \cup C]
           \/ files' = [files EXCEPT ![c].ua = @ \cup C]
    PROVE  FileTypes'
<1>1. CASE files' = [files EXCEPT ![c].ra = @ \cup C]
  <2>1. \A d \in Cmds : IsDirectory([files[d] EXCEPT !.ra = @ \cup C])
    BY DEF FileTypes, IsDirectory
  <2> QED BY <1>1, <2>1 DEF FileTypes
<1>2. CASE files' = [files EXCEPT ![c].ua = @ \cup C]
  <2>1. \A d \in Cmds : IsDirectory([files[d] EXCEPT !.ua = @ \cup C])
    BY DEF FileTypes, IsDirectory
  <2> QED BY <1>2, <2>1 DEF FileTypes
<1> QED BY <1>1, <1>2

\* The bottom half begins, stops the RPC thread, fails or finds the queue
\* drained.
LEMMA StopTypes ==
    ASSUME TypeInv, BhStart \/ Stopped \/ BhFails \/ Drained PROVE TypeInv'
<1>1. UNCHANGED <<rpc, api_inst_pc, call, skipped, parser2worker_wq, ckptdag_wq,
                  handles, wqes, max_wqe_id, th, BH_active, async_cmd,
                  dirty_handles, persist_handles, oob_vars, files, history>>
  BY DEF BhStart, Stopped, BhFails, Drained, client, ckpt_cxt
<1>2. /\ UNCHANGED faults \/ Fail
      /\ TH_actve' \in {TH_actve, FALSE}
      /\ offline_counter' \in {offline_counter, 1}
  BY DEF BhStart, Stopped, BhFails, Drained, client, ckpt_cxt
<1>3. worker' \in WorkerRec /\ worker'.pc \notin Busy
      /\ (worker'.pc \in Bottom => async_cmd # 0)
  <2>1. worker \in WorkerRec /\ {"stopped", "sync_persist"} \subseteq WorkerPc
    BY DEF TypeInv, WorkerTypes, WorkerPc
  <2>2. {"stopped", "sync_persist", "loop"} \cap Busy = {}
    BY DEF Busy
  <2>3. CASE BhStart
    <3>1. PICK p \in {"first", "again", "stopped"} :
            worker' = [pc |-> p, max |-> 0]
      BY SMT, <2>3 DEF BhStart
    <3>2. BH_active
      BY <2>3 DEF BhStart
    <3>3. 0 \in 0..MaxCalls
      BY SMT, BoundsAssumption
    <3> QED BY <3>1, <3>2, <3>3 DEF TypeInv, GivenTypes, WorkerRec, WorkerPc,
         Busy
  <2>4. CASE Stopped
    <3>1. worker.pc \in Bottom
      BY <2>4 DEF Stopped, Bottom
    <3>2. worker' = Polling \/ worker' = [worker EXCEPT !.pc = "stopped"]
      BY <2>4 DEF Stopped
    <3> QED BY ZenonT(30), <2>1, <2>2, <3>1, <3>2, WorkerMoves, PollingTypes
               DEF TypeInv,
         GivenTypes
  <2>5. CASE BhFails \/ Drained
    <3>1. worker.pc \in Bottom
      BY <2>5 DEF BhFails, Drained, Bottom
    <3>2. worker' = [worker EXCEPT !.pc = "sync_persist"]
      BY <2>5 DEF BhFails, Drained
    <3> QED BY <2>1, <2>2, <3>1, <3>2, WorkerMoves DEF TypeInv, GivenTypes
  <2> QED BY <2>3, <2>4, <2>5
<1>4. CallTypes'
  <2>1. 1 \in 0..2
    BY SMT
  <2> QED BY <1>1, <1>2, <2>1 DEF TypeInv, CallTypes, history
<1>5. CmdTypes' /\ GivenTypes' /\ WorkerTypes'
  BY ZenonT(30), <1>1, <1>2, <1>3, FailTypes DEF TypeInv, CmdTypes, GivenTypes,
     WorkerTypes, oob_vars
<1> QED BY <1>1, <1>4, <1>5 DEF TypeInv, QueueTypes, MemTypes, PersistTypes,
     FileTypes, handles, history

\* The bottom half saves the handles, or the calls to be recomputed.
LEMMA SaveTypes ==
    ASSUME TypeInv,
           \/ \E D \in SUBSET dirty_handles : DirtyCopy(D)
           \/ \E n \in 0..Len(ckptdag_wq) : Recompute(n)
    PROVE  TypeInv'
<1>1. /\ UNCHANGED <<client, parser2worker_wq, mem, state_preserve_counter,
                     slot, wqes, max_wqe_id, th, TH_actve, BH_active, async_cmd,
                     dirty_handles, oob_vars, history>>
      /\ UNCHANGED faults \/ Fail
      /\ worker.pc = "stopped"
      /\ \E p \in {"drain", "sync_persist"} : worker' = [worker EXCEPT !.pc = p]
  BY DEF DirtyCopy, Recompute, handles, ckpt_cxt
<1>2. PersistTypes' /\ QueueTypes' /\ FileTypes'
  <2>1. ASSUME NEW D \in SUBSET dirty_handles, DirtyCopy(D) PROVE <1>2
    <3>1. UNCHANGED <<ckptdag_wq, files>> /\ Persist(async_cmd, D, mem)
      BY <2>1 DEF DirtyCopy
    <3>2. async_cmd \in 0..MaxEvents
      BY SMTT(20), GivenCmds, BoundsAssumption DEF TypeInv, CmdTypes, GivenTypes
    <3>3. mem \in [Handles -> Seq(0..MaxCalls)]
      <4>1. Calls \subseteq 0..MaxCalls
        BY SMT, BoundsAssumption DEF Calls
      <4> QED BY <4>1, SeqMonotone DEF TypeInv, MemTypes, State
    <3>4. D \in SUBSET Handles
      BY DEF TypeInv, PersistTypes
    <3> QED BY ZenonT(30), <1>1, <3>1, <3>2, <3>3, <3>4, PersistStarts
               DEF TypeInv,
         PersistTypes, QueueTypes, FileTypes
  <2>2. ASSUME NEW n \in 0..Len(ckptdag_wq), Recompute(n) PROVE <1>2
    <3>1. PICK C : C = Range(SubSeq(ckptdag_wq, 1, n))
      OBVIOUS
    <3>2. /\ UNCHANGED <<persist_thread, persist_handles>>
          /\ files' = [files EXCEPT ![async_cmd].ra = @ \cup C]
          /\ ckptdag_wq' = <<>>
      BY <2>2, <3>1 DEF Recompute, handles, ckpt_cxt
    <3>3. C \in SUBSET Calls
      BY <3>1, SubRange DEF TypeInv, QueueTypes
    <3>4. FileTypes'
      BY <3>2, <3>3, DirectoryGrows DEF TypeInv
    <3> QED BY <1>1, <3>2, <3>4, EmptyQueue DEF TypeInv, PersistTypes,
         QueueTypes
  <2> QED BY <2>1, <2>2
<1>3. worker' \in WorkerRec /\ worker'.pc \notin Busy /\ async_cmd # 0
  <2>1. {"drain", "sync_persist"} \subseteq WorkerPc \ Busy
        /\ "stopped" \in Bottom
    BY DEF WorkerPc, Busy, Bottom
  <2> QED BY ZenonT(30), <1>1, <2>1, WorkerMoves
       DEF TypeInv, WorkerTypes, GivenTypes
<1>4. CmdTypes' /\ GivenTypes' /\ WorkerTypes'
  BY ZenonT(30), <1>1, <1>3, FailTypes
     DEF TypeInv, CmdTypes, GivenTypes, WorkerTypes,
     oob_vars
<1> QED BY <1>1, <1>2, <1>4 DEF TypeInv, CallTypes, MemTypes, client, history

\* The unexecuted calls are saved.
LEMMA DrainTypes ==
    ASSUME TypeInv, NEW n \in 0..Len(parser2worker_wq), Drain(n) PROVE TypeInv'
<1>1. PICK C : C = Range(SubSeq(parser2worker_wq, 1, n))
  OBVIOUS
<1>2. /\ UNCHANGED <<client, ckptdag_wq, handles, wqes, max_wqe_id, th,
                     ckpt_cxt, oob_vars, history>>
      /\ UNCHANGED faults \/ Fail
      /\ files' = [files EXCEPT ![async_cmd].ua = @ \cup C]
      /\ worker.pc = "drain" /\ parser2worker_wq' = <<>>
      /\ \/ worker' = [worker EXCEPT !.max = Max(C \cup {@})]
         \/ worker' = [worker EXCEPT !.pc = "sync_persist"]
  BY <1>1 DEF Drain
<1>3. C \in SUBSET Calls
  BY <1>1, SubRange DEF TypeInv, QueueTypes
<1>4. worker \in WorkerRec /\ async_cmd # 0
  BY <1>2 DEF TypeInv, WorkerTypes, GivenTypes, Bottom
<1>5. worker' \in WorkerRec /\ worker'.pc \notin Busy
  <2>1. CASE worker' = [worker EXCEPT !.max = Max(C \cup {@})]
    <3>1. PICK T : T = C \cup {worker.max}
      OBVIOUS
    <3>2. T \subseteq 0..MaxCalls /\ T # {} /\ MaxCalls \in Nat
      <4>1. Calls \subseteq 0..MaxCalls /\ MaxCalls \in Nat
        BY SMT, BoundsAssumption DEF Calls
      <4> QED BY <1>3, <1>4, <3>1, <4>1 DEF WorkerRec
    <3>3. Max(T) \in 0..MaxCalls
      BY <3>2, MaxOf
    <3>4. worker' = [worker EXCEPT !.max = Max(T)]
      BY <2>1, <3>1
    <3>5. worker' \in WorkerRec /\ worker'.pc = "drain"
      BY <1>2, <1>4, <3>3, <3>4 DEF WorkerRec
    <3> QED BY <3>5 DEF Busy
  <2>2. CASE worker' = [worker EXCEPT !.pc = "sync_persist"]
    <3>1. "sync_persist" \in WorkerPc \ Busy
      BY DEF WorkerPc, Busy
    <3> QED BY <1>4, <2>2, <3>1, WorkerMoves
  <2> QED BY <1>2, <2>1, <2>2
<1>6. FileTypes'
  BY <1>2, <1>3, DirectoryGrows DEF TypeInv
<1>7. CmdTypes' /\ GivenTypes' /\ WorkerTypes'
  BY ZenonT(30), <1>2, <1>4, <1>5, FailTypes
     DEF TypeInv, CmdTypes, GivenTypes, WorkerTypes,
     ckpt_cxt, oob_vars
<1> QED BY ZenonT(30), <1>2, <1>6, <1>7, EmptyQueue
           DEF TypeInv, CallTypes, QueueTypes,
     MemTypes, PersistTypes, client, handles, ckpt_cxt, history

\* The bottom half collects its threads and replies.
LEMMA SyncTypes ==
    ASSUME TypeInv,
           \/ SyncPersist
           \/ \E f \in Handles, S \in SUBSET Handles : SyncPersistFails(f, S)
    PROVE  TypeInv'
<1>1. /\ UNCHANGED <<client, parser2worker_wq, ckptdag_wq, mem,
                     state_preserve_counter, slot, wqes, max_wqe_id, th,
                     TH_actve, async_cmd, dirty_handles, persist_handles,
                     cmd_wq, oob, files, history>>
      /\ worker.pc = "sync_persist" /\ worker' = Polling
      /\ BH_active' \in {BH_active, FALSE}
      /\ UNCHANGED faults \/ Fail
      /\ \E r \in {"success", "failed"} : reply_parser(async_cmd, r)
      /\ \E S : persist_thread' = [h \in Handles |-> IF h \in S THEN NoThread
                                                       ELSE persist_thread[h]]
  BY DEF SyncPersist, SyncPersistFails, ckpt_cxt
<1>2. async_cmd \in 1..Len(cmd)
  <2>1. async_cmd \in 0..Len(cmd) /\ async_cmd # 0
    BY <1>1 DEF TypeInv, GivenTypes, Bottom
  <2> QED BY SMTT(20), <2>1, GivenCmds DEF TypeInv
<1>3. /\ cmd' \in Seq(Attempt) /\ Len(cmd') = Len(cmd)
      /\ replies' \in Seq(1..Len(cmd)) /\ Len(replies') <= MaxReplies
  BY <1>1, <1>2, ReplyTypes
<1>4. /\ worker' \in WorkerRec
      /\ worker'.pc \notin Busy /\ worker'.pc \notin Bottom
  BY <1>1, PollingTypes DEF Busy, Bottom
<1>5. PersistTypes'
  BY <1>1, ThreadsCollected DEF TypeInv, PersistTypes
<1>6. CmdTypes' /\ GivenTypes' /\ WorkerTypes'
  <2>1. faults' \in Nat /\ faults' + Len(cmd') <= MaxEvents
    BY <1>1, <1>3, FailTypes DEF TypeInv
  <2>2. BH_active' \in BOOLEAN /\ (BH_active' => async_cmd # 0)
    <3>1. CASE BH_active' = BH_active
      BY <3>1 DEF TypeInv, CmdTypes, GivenTypes
    <3>2. CASE BH_active' = FALSE
      BY <3>2
    <3> QED BY <1>1, <3>1, <3>2
  <2> QED BY ZenonT(30), <1>1, <1>3, <1>4, <2>1, <2>2
             DEF TypeInv, CmdTypes, GivenTypes,
       WorkerTypes
<1> QED BY <1>1, <1>5, <1>6 DEF TypeInv, CallTypes, QueueTypes, MemTypes,
     FileTypes, client, history

---------------------------------------------------------------------------
\* Every step keeps the types.
LEMMA StepTypes == TypeInv /\ [Next]_vars => TypeInv'
<1> SUFFICES ASSUME TypeInv, [Next]_vars PROVE TypeInv'
  OBVIOUS
<1>1. CASE ThStep
  BY <1>1, ThCopyTypes, ThPersistTypes, ThEndTypes DEF ThStep
<1>2. CASE WorkerStep
  BY ZenonT(30), <1>2, CommandTypes, PollTypes, PrepareTypes, PreservedTypes,
     LaunchTypes,
     StopTypes, SaveTypes, DrainTypes, SyncTypes DEF WorkerStep
<1>3. CASE \E h \in Handles : PersistStep(h)
  BY <1>3, PersistedTypes DEF PersistStep
<1>4. CASE UNCHANGED vars
  BY <1>4 DEF vars, TypeInv, CallTypes, QueueTypes, MemTypes, PersistTypes,
     WorkerTypes, CmdTypes, GivenTypes, FileTypes, client, handles, ckpt_cxt,
     oob_vars, history
<1> QED BY ZenonT(30), <1>1, <1>2, <1>3, <1>4, RpcTypes, OobTypes DEF Next

\* TypeInv holds in every state, whatever has failed.
THEOREM TypeInvariance == Spec => []TypeInv
BY InitTypes, StepTypes, PTL DEF Spec

\* Every thread finds the queues, the commands, the handles and the
\* directories well-formed, whatever has failed before: the commands a thread
\* works on have been given, and the worker is at a call it has.
THEOREM CkptTypes == Spec => []TypeOK
BY AllTypes, TypeInvariance, PTL

---------------------------------------------------------------------------
(* What a dump contains *)

\* Every step keeps it.
LEMMA NextDump == TypeInv /\ IInv /\ DumpIInv /\ [Next]_vars => DumpIInv'
<1> SUFFICES ASSUME TypeInv, IInv, DumpIInv, [Next]_vars, faults' = 0
             PROVE  DumpInv'
  BY DEF DumpIInv
<1>1. faults = 0 /\ ~Fail
  <2>1. faults \in Nat
    BY DEF IInv
  <2>2. faults' = faults \/ faults' = faults + 1
    BY <2>1, FaultsGrow
  <2>3. faults = 0 /\ faults' # faults + 1
    BY SMT, <2>1, <2>2
  <2> QED BY <2>3 DEF Fail
<1>2. Known
  BY <1>1 DEF Known, IInv, DumpIInv
<1> QED BY <1>1, <1>2, StepDump

\* The directory, the queues and the memory belong together in every state,
\* until something fails.
THEOREM DumpInvariance == Spec => []DumpIInv
<1>1. Init => DumpIInv
  BY InitDump DEF DumpIInv
<1> QED BY <1>1, NextDump, TypeInvariance, Invariance, PTL DEF Spec

\* A client is removed only once its dump is complete: as long as nothing has
\* failed and no call was launched between two attempts of the bottom half, the
\* directory has the state of every handle, the calls to be run again on it and
\* those that were never run, each once and in the order they were issued in;
\* for any number of handles, calls, requests and interleavings.
THEOREM DumpAlwaysComplete == Spec => []DumpComplete
<1>1. TypeInv /\ IInv /\ DumpIInv => DumpComplete
  BY DumpIsComplete DEF IInv, DumpIInv, Known, DumpComplete
<1> QED BY <1>1, TypeInvariance, Invariance, DumpInvariance, PTL
===========================================================================
