------------------------- MODULE PosAsyncCkptInv --------------------------
(***************************************************************************)
(* What holds in every state of PosAsyncCkpt: the inductive invariants of  *)
(* its proofs.  TypeInv says that the threads find well-formed what the    *)
(* others have left; it holds whatever has failed.  Inv says that one      *)
(* command is underway at a time and what the counter of a handle means    *)
(* for the two threads that may copy it.  DumpInv says where every call    *)
(* that was issued is, and what of it the directory of the dump already    *)
(* has.  Inv and DumpInv hold until something fails.                       *)
(***************************************************************************)
EXTENDS PosAsyncCkpt

\* The handle the worker prepares or launches a call for.
Target == IF worker.pc \in {"copy", "wait", "launch"} THEN call[Head(wqes)]
            ELSE NoHandle

Issued == {i \in Calls : i < api_inst_pc}

\* The calls: those underway have been issued, so their handle is settled.
CallInv ==
    /\ api_inst_pc \in Nat \ {0} /\ (rpc = "locked" => api_inst_pc <= MaxCalls)
    /\ call \in [Calls -> Handles \cup {NoHandle}]
    /\ parser2worker_wq \in Seq(Issued) /\ wqes \in Seq(Issued)
    /\ worker.pc \in {"copy", "wait", "launch"} => wqes # <<>>
    /\ worker.pc \in {"copy", "wait"} => Target \in Handles

\* The types of what the argument reads.
ThreadType ==
    /\ DOMAIN worker = {"pc", "max"}
    /\ worker.pc \in {"loop", "copy", "wait", "launch", "raise", "first",
                      "again", "stopped", "drain", "sync_persist"}
    /\ DOMAIN th = {"pc", "todo", "handle", "seen", "cmd", "retval"}
    /\ th.pc \in {"add", "copy", "wait", "persisted", "reply", "exit"}
    /\ th.todo \subseteq Handles /\ th.retval \in {"success", "failed"}
    /\ th.pc \in {"copy", "wait"} => th.handle \in th.todo
    /\ th.pc \in {"persisted", "reply", "exit"} => th.todo = {}

HandleType ==
    /\ DOMAIN mem = Handles /\ DOMAIN slot = Handles /\ DOMAIN start = Handles
    /\ state_preserve_counter \in [Handles -> 0..3]
    /\ DOMAIN persist_thread = Handles /\ persist_handles \subseteq Handles
    /\ dirty_handles \subseteq Handles

CmdType ==
    /\ cmd \in Seq(Attempt) /\ async_cmd \in 0..Len(cmd)
    /\ cmd_wq = <<>> \/ \E c \in 1..Len(cmd) : cmd_wq = <<c>>
    /\ TH_actve \in BOOLEAN /\ BH_active \in BOOLEAN

\* Until something fails one command is underway at a time: in the queue, or
\* with the top half, or with the bottom half, or answered.
OneCommand ==
    /\ cmd_wq # <<>> => /\ oob = "waiting" /\ replies = <<>>
                        /\ th.pc = "exit" /\ ~BH_active
    /\ replies # <<>> => oob = "waiting" /\ th.pc = "exit" /\ ~BH_active
    /\ th.pc # "exit" \/ BH_active => oob = "waiting"
    /\ BH_active => th.pc = "exit"
    /\ worker.pc \in {"first", "again", "stopped", "drain", "sync_persist"}
         => BH_active

\* No persist thread is left from before while the top half copies, and none
\* of those it starts then has failed.
PersistInv ==
    /\ th.pc \in {"add", "copy", "wait"} => persist_handles = {}
    /\ th.pc \in {"persisted", "reply"} \/ BH_active =>
         \A h \in persist_handles : persist_thread[h].status \in
                                      {"running", "ok"}

\* The worker knows of the top half as long as that has handles to copy.
ActiveInv ==
    th.pc \in {"add", "copy", "wait"} => TH_actve \/ worker.pc = "raise"

do_cow == async_cmd # 0 /\ cmd[async_cmd].do_cow

ThAt(pc, h) == th.pc = pc /\ th.handle = h
WorkerAt(pc, h) == worker.pc = pc /\ Target = h

\* What the counter of handle h says: nobody has begun to copy it; one thread
\* copies it; one copies it and the other waits; it is preserved.  Until then
\* its memory is as it was, and only then a call is launched on it.
CowInv(h) ==
    LET n == state_preserve_counter[h]
    IN  /\ n # 3 => mem[h] = start[h] /\ h \in th.todo
        /\ n = 3 => slot[h] = start[h]
        /\ ThAt("copy", h) => n \in {1, 2} /\ th.seen = start[h]
        /\ WorkerAt("copy", h) => n \in {1, 2}
        /\ ~(ThAt("copy", h) /\ WorkerAt("copy", h))
        /\ n = 1 => ThAt("copy", h) \/ WorkerAt("copy", h)
        /\ n = 2 => \/ ThAt("copy", h) /\ WorkerAt("wait", h)
                    \/ ThAt("wait", h) /\ WorkerAt("copy", h)
        /\ ThAt("wait", h) \/ WorkerAt("wait", h) => n \in {2, 3}
        /\ WorkerAt("launch", h) => n = 3
        /\ h \in dirty_handles =>
             n = 3 \/ WorkerAt("copy", h) \/ WorkerAt("wait", h)

Snapshot == do_cow => \A h \in Handles : CowInv(h)

Types == CallInv /\ ThreadType /\ HandleType /\ CmdType

Safe == OneCommand /\ PersistInv /\ ActiveInv /\ Snapshot

Inv == Types /\ Safe

\* After a failure commands may overlap and nothing is claimed.
IInv == faults \in Nat /\ (faults = 0 => Inv)

Busy == {"copy", "wait", "launch"}

---------------------------------------------------------------------------
(* Types *)

WorkerPc == {"loop", "copy", "wait", "launch", "raise", "first", "again",
             "stopped", "drain", "sync_persist"}
WorkerRec == [pc : WorkerPc, max : 0..MaxCalls]
ThPc == {"add", "copy", "wait", "persisted", "reply", "exit"}
ThRec == [pc : ThPc, todo : SUBSET Handles, handle : Handles \cup {NoHandle},
          seen : State, cmd : 0..MaxEvents, retval : {"success", "failed"}]
Bottom == {"first", "again", "stopped", "drain", "sync_persist"}

CallTypes ==
    /\ rpc \in {"idle", "locked", "waiting"} /\ offline_counter \in 0..2
    /\ api_inst_pc \in 1..(MaxCalls + 1)
    /\ rpc = "locked" => api_inst_pc \in Calls
    /\ call \in [Calls -> Handles \cup {NoHandle}] /\ missed \subseteq Calls
    /\ max_wqe_id \in 0..MaxCalls /\ skipped \subseteq Calls

QueueTypes ==
    /\ parser2worker_wq \in Seq(Calls) /\ ckptdag_wq \in Seq(Calls)
    /\ wqes \in Seq(Calls)

MemTypes ==
    /\ mem \in [Handles -> State] /\ slot \in [Handles -> Seq(0..MaxCalls)]
    /\ state_preserve_counter \in [Handles -> 0..3]
    /\ start \in [Handles -> State]

PersistTypes ==
    /\ persist_thread \in [Handles -> Thread]
    /\ dirty_handles \subseteq Handles /\ persist_handles \subseteq Handles

\* A worker that prepares or launches a call has it.
WorkerTypes == worker \in WorkerRec /\ (worker.pc \in Busy => wqes # <<>>)

CmdTypes ==
    /\ TH_actve \in BOOLEAN /\ BH_active \in BOOLEAN
    /\ cmd \in Seq(Attempt) /\ oob \in {"idle", "waiting", "removed"}
    /\ faults \in Nat /\ faults + Len(cmd) <= MaxEvents

\* A command that is underway has been given.
GivenTypes ==
    /\ th \in ThRec /\ async_cmd \in 0..Len(cmd)
    /\ cmd_wq \in Seq(1..Len(cmd))
    /\ replies \in Seq(1..Len(cmd)) /\ Len(replies) <= MaxReplies
    /\ th.pc # "exit" => th.cmd \in 1..Len(cmd) /\ async_cmd # 0
    /\ BH_active \/ worker.pc \in Bottom => async_cmd # 0

FileTypes == DOMAIN files = Cmds /\ \A c \in Cmds : IsDirectory(files[c])

TypeInv == /\ CallTypes /\ QueueTypes /\ MemTypes /\ PersistTypes
           /\ WorkerTypes /\ CmdTypes /\ GivenTypes /\ FileTypes

---------------------------------------------------------------------------
(* What a dump contains *)

Before(A, B) == \A x \in A, y \in B : x < y

Saving == {"drain", "sync_persist"}
Last == cmd[Len(cmd)]
Dir == files[Len(cmd)]
CallsOf(S, h) == {i \in S : call[i] = h}
control == <<cmd, cmd_wq, replies, oob, BH_active, async_cmd>>

\* The command underway is the last one given.
LastInv ==
    /\ cmd_wq # <<>> => cmd_wq = <<Len(cmd)>>
    /\ replies # <<>> => replies = <<Len(cmd)>>
    /\ th.pc # "exit" \/ BH_active => async_cmd = Len(cmd)
    /\ th.pc # "exit" => th.cmd = Len(cmd)
    /\ BH_active => Last.dump
    /\ th.pc = "reply" => ~Last.dump
    /\ oob = "removed" => Len(cmd) # 0

\* Its directory has no calls until the bottom half saves them.
Untouched(c) ==
    \/ c > Len(cmd)
    \/ /\ c = Len(cmd)
       /\ \/ cmd_wq # <<>> \/ th.pc # "exit"
          \/ BH_active /\ worker.pc \notin Saving
DirInv == \A c \in Cmds : Untouched(c) => files[c].ra = {} /\ files[c].ua = {}

\* The last command was a dump and it has succeeded.
Answered ==
    \/ oob = "removed"
    \/ replies # <<>> /\ Last.dump /\ Last.retval = "success"

\* The calls in the worker's two queues, and those it has yet to see.
Queued == Range(wqes) \cup Range(parser2worker_wq)
Due == {i \in Issued : max_wqe_id < i} \ skipped

\* The calls are numbered in the order they were issued in, those that were
\* run before those in the queues.  What was skipped writes to no handle.
NumberInv ==
    /\ max_wqe_id < api_inst_pc
    /\ Increasing(wqes) /\ Increasing(parser2worker_wq)
    /\ Before({max_wqe_id}, Queued)
    /\ Before(Range(wqes), Range(parser2worker_wq))
    /\ skipped \subseteq Issued
    /\ \A i \in Calls : i \in skipped \/ i >= api_inst_pc => call[i] = NoHandle

\* The client is offline before its calls are saved.
OfflineInv ==
    /\ offline_counter = 2 => rpc = "idle"
    /\ worker.pc \notin {"loop"} \cup Busy => wqes = <<>>
    /\ worker.pc \in {"stopped"} \cup Saving => offline_counter = 2
    /\ worker.pc \in {"first", "again", "stopped"} => worker.max = 0

\* No call is lost: those that were not run are in the queues, or saved.
Unsaved == Queued = Due
SavedAll == /\ wqes = <<>> /\ parser2worker_wq = <<>> /\ offline_counter = 2
            /\ Dir.ua = Due
CountInv ==
    /\ worker.pc \notin Saving /\ ~Answered => Unsaved
    /\ worker.pc = "drain" => \/ Unsaved /\ Dir.ua = {} /\ worker.max = 0
                              \/ SavedAll
    /\ worker.pc = "sync_persist" => SavedAll
    /\ Answered => /\ SavedAll /\ worker.pc = "loop"
                   /\ \A h \in Handles : ~Running(h)

\* The memory of a handle is what the calls that were run wrote to it.
MemInv == \A h \in Handles :
    Increasing(mem[h]) /\ Range(mem[h]) = CallsOf(1..max_wqe_id, h)

\* A dump is underway.
Dumping == (th.pc # "exit" /\ Last.dump) \/ BH_active

\* While the top half is active, a call is logged and its handle dirty before
\* the call is launched.
ActiveDump ==
    /\ TH_actve \/ worker.pc = "raise" => async_cmd # 0
    /\ worker.pc \in {"copy", "wait"} => do_cow
    /\ Dumping => TH_actve \/ worker.pc = "raise" \/ BH_active
    /\ Dumping /\ TH_actve /\ worker.pc \in Busy =>
          /\ Target \in Handles => Target \in dirty_handles
          /\ do_cow => Head(wqes) \in Range(ckptdag_wq)

\* What the directory of the dump has of handle h, or will have once its
\* persist thread has finished.
Content(h) == IF Running(h) THEN persist_thread[h].state ELSE Dir.state[h]
Held(h) == IF Running(h) THEN persist_thread[h].cmd = Len(cmd)
             ELSE h \in DOMAIN Dir.state

\* The top half hands on every handle as it was preserved.
HandedOn == (th.pc = "persisted" /\ Last.dump) \/ BH_active
PersistDump ==
    HandedOn => /\ persist_handles = Handles
                /\ worker.pc \notin Saving =>
                     \A h \in Handles : Held(h) /\ Content(h) = slot[h]

\* A handle that is not dirty has not been written to since the dump began,
\* and is preserved or will be.
CleanInv(h) ==
    LET n == state_preserve_counter[h]
    IN  h \notin dirty_handles =>
          /\ mem[h] = start[h]
          /\ \/ n = 0 /\ h \in th.todo /\ ~ThAt("copy", h)
             \/ n = 1 /\ ThAt("copy", h) /\ th.seen = mem[h]
             \/ n = 3 /\ slot[h] = mem[h] /\ ~ThAt("copy", h)

\* With copy-on-write, the calls run since the dump began are logged.
RedoInv(h) ==
    do_cow =>
      /\ Increasing(start[h]) /\ Before(Range(start[h]), Range(ckptdag_wq))
      /\ Range(mem[h]) = Range(start[h]) \cup
           {i \in CallsOf(Range(ckptdag_wq), h) : i <= max_wqe_id}
LoggedInv ==
    do_cow => \A i \in Range(ckptdag_wq) :
                \/ i <= max_wqe_id
                \/ worker.pc \in Busy /\ i = Head(wqes)

CleanDump ==
    Dumping /\ missed = {} /\ worker.pc \notin Saving =>
      LoggedInv /\ \A h \in Handles : CleanInv(h) /\ RedoInv(h)

\* The state and the calls to be recomputed are together all that was run.
SavedState(h) ==
    LET ra == CallsOf(Dir.ra, h)
    IN  /\ Held(h) /\ Increasing(Content(h)) /\ Before(Range(Content(h)), ra)
        /\ Range(Content(h)) \cup ra = CallsOf(1..max_wqe_id, h)
SavedDump ==
    missed = {} /\ (worker.pc \in Saving \/ Answered) =>
      \A h \in Handles : SavedState(h)

DumpInv == /\ LastInv /\ DirInv /\ NumberInv /\ OfflineInv /\ CountInv
           /\ MemInv /\ ActiveDump /\ PersistDump /\ CleanDump /\ SavedDump

\* After a failure nothing is claimed.
DumpIInv == faults = 0 => DumpInv

Known == TypeInv /\ Inv /\ DumpInv
===========================================================================
