----------------------------- MODULE PosDaemon -----------------------------
(***************************************************************************)
(* The POS daemon for one client, built with CkptOptLevel 1: the RPC       *)
(* thread that takes the application's GPU calls, the parser and the       *)
(* worker threads behind it, and the out-of-band (OOB) thread that dumps   *)
(* and restores the client.  The threads share queues, a few flags and     *)
(* the command objects, without a lock.                                    *)
(*                                                                         *)
(* The client is a new one, which has made no call, or an old one, whose   *)
(* last call was FirstCall, the allocation of handle 0; its calls before   *)
(* that are of kind "none".  A handle's contents are the calls that wrote  *)
(* to it, in order.                                                        *)
(***************************************************************************)
EXTENDS Integers, Sequences, FiniteSetsExt

CONSTANTS
    MaxCalls,     \* bound on the calls of the new client or after FirstCall
    MaxEvents,    \* bound on the dump requests and the failures together
    Handles,      \* handle ids, 0 .. n
    MaxReplies,   \* bound on the commands and replies in the queues
    FirstCall     \* the last call of the old client

ASSUME BoundsAssumption ==
    /\ FirstCall \in Nat /\ MaxCalls \in Nat
    /\ MaxEvents \in Nat /\ MaxReplies \in Nat \ {0}
ASSUME HandlesAssumption == Handles \subseteq Nat /\ 0 \in Handles

VARIABLES
    registered,      \* the workspace knows the client, which is active
    offline_counter, is_under_sync_call, api_inst_pc,
    call,            \* the call contexts, by id
    rpc, cqes, has_prev_error, retval,  \* the RPC thread and its locals
    rpc2parser_wq, rpc2parser_cq, parser2worker_wq, rpc2worker_cq,
    oob2parser_cmd_wq, oob2parser_cmd_cq,
    parser2worker_cmd_wq, parser2worker_cmd_cq,
    cmd,             \* the command objects, which the queues point to
    handle_status, contents,
    worker, wqes, max_wqe_id, ckpt_active, ckpt_cmd,
    oob,             \* the request the OOB thread waits for
    files,           \* the checkpoint directory of each command
    faults,          \* failures so far
    crashed          \* an assertion failed or POS_ERROR was raised

client == <<registered, offline_counter, is_under_sync_call, api_inst_pc>>
rpc_vars == <<rpc, cqes, has_prev_error, retval>>
api_queues == <<rpc2parser_wq, rpc2parser_cq, parser2worker_wq, rpc2worker_cq>>
cmd_queues == <<oob2parser_cmd_wq, oob2parser_cmd_cq, parser2worker_cmd_wq,
                parser2worker_cmd_cq>>
handles == <<handle_status, contents>>
worker_vars == <<worker, wqes, max_wqe_id, ckpt_active, ckpt_cmd>>
vars == <<client, call, rpc_vars, api_queues, cmd_queues, cmd, handles,
          worker_vars, oob, files, faults, crashed>>

LastCall == FirstCall + MaxCalls
Calls == 0..LastCall
Cmds == 1..MaxEvents
NoHandle == -1
NotSaved == -1

\* launch: asynchronous; copy: the worker returns it; malloc: the parser
\* returns it and passes it on; query: the parser returns it and that is all.
Kinds == {"launch", "copy", "malloc", "query"}
is_sync(i) == call[i].kind # "launch"

Call == [kind : Kinds \cup {"none"}, handle : Handles \cup {NoHandle},
         status : {"init", "after_parse", "without_worker", "parser_failed",
                   "worker_failed"},
         has_return : BOOLEAN]
Cmd == [type : {"none", "oob2parser_dump", "oob2parser_predump",
                "parser2worker_dump", "parser2worker_predump"},
        handles : SUBSET Handles, retval : {"success", "failed"}]
IsCkpt(f) ==
    /\ DOMAIN f = {"state", "ua", "pc", "call"}
    /\ DOMAIN f.state \subseteq Handles
    /\ \A h \in DOMAIN f.state : f.state[h] \in Seq(Calls)
    /\ f.ua \subseteq Calls /\ f.pc \in NotSaved..(LastCall + 1)
    /\ f.call \in [Calls -> Call]

TypeOK ==
    /\ registered \in BOOLEAN /\ offline_counter \in 0..2
    /\ is_under_sync_call \in BOOLEAN
    /\ api_inst_pc \in 0..(LastCall + 1)
    /\ call \in [Calls -> Call]
    /\ rpc \in {"idle", "locked", "pushed", "waiting", "polled"}
    /\ cqes \in Seq(Calls) /\ has_prev_error \in BOOLEAN
    /\ retval \in {"success", "failed"}
    /\ rpc2parser_wq \in Seq(Calls) /\ rpc2parser_cq \in Seq(Calls)
    /\ parser2worker_wq \in Seq(Calls) /\ rpc2worker_cq \in Seq(Calls)
    /\ oob2parser_cmd_wq \in Seq(Cmds) /\ oob2parser_cmd_cq \in Seq(Cmds)
    /\ parser2worker_cmd_wq \in Seq(Cmds)
    /\ parser2worker_cmd_cq \in Seq(Cmds)
    /\ cmd \in [Cmds -> Cmd]
    /\ handle_status \in [Handles -> {"none", "pending", "active", "unmapped"}]
    /\ contents \in [Handles -> Seq(Calls)]
    /\ worker \in [pc : {"loop", "first", "again", "handles", "drain"},
                   cmd : 0..MaxEvents, max : 0..LastCall]
    /\ wqes \in Seq(Calls) /\ max_wqe_id \in 0..LastCall
    /\ ckpt_active \in BOOLEAN /\ ckpt_cmd \in 0..MaxEvents
    /\ oob \in [cmd : 0..MaxEvents, dump : BOOLEAN]
    /\ DOMAIN files = Cmds /\ \A c \in Cmds : IsCkpt(files[c])
    /\ faults \in 0..MaxEvents /\ crashed \in BOOLEAN

NoCall == [kind |-> "none", handle |-> NoHandle, status |-> "init",
           has_return |-> FALSE]
Polling == [pc |-> "loop", cmd |-> 0, max |-> 0]
NoRequest == [cmd |-> 0, dump |-> FALSE]
NoFiles == [state |-> <<>>, ua |-> {}, pc |-> NotSaved,
            call |-> [i \in Calls |-> NoCall]]

NewClient ==
    /\ api_inst_pc = 0 /\ max_wqe_id = 0
    /\ call = [i \in Calls |-> NoCall]
    /\ handle_status = [h \in Handles |-> "none"]

OldClient ==
    /\ api_inst_pc = FirstCall + 1 /\ max_wqe_id = FirstCall
    /\ call = [i \in Calls |->
         IF i = FirstCall THEN [kind |-> "malloc", handle |-> 0,
           status |-> "after_parse", has_return |-> TRUE] ELSE NoCall]
    /\ handle_status = [h \in Handles |-> IF h = 0 THEN "active" ELSE "none"]

Init ==
    /\ NewClient \/ OldClient
    /\ registered = TRUE /\ offline_counter = 0
    /\ is_under_sync_call = FALSE
    /\ rpc = "idle" /\ cqes = <<>> /\ has_prev_error = FALSE
    /\ retval = "success"
    /\ rpc2parser_wq = <<>> /\ rpc2parser_cq = <<>>
    /\ parser2worker_wq = <<>> /\ rpc2worker_cq = <<>>
    /\ oob2parser_cmd_wq = <<>> /\ oob2parser_cmd_cq = <<>>
    /\ parser2worker_cmd_wq = <<>> /\ parser2worker_cmd_cq = <<>>
    /\ cmd = [c \in Cmds |-> [type |-> "none", handles |-> {},
                              retval |-> "success"]]
    /\ contents = [h \in Handles |-> <<>>]
    /\ worker = Polling /\ wqes = <<>>
    /\ ckpt_active = FALSE /\ ckpt_cmd = 0
    /\ oob = NoRequest /\ files = [c \in Cmds |-> NoFiles]
    /\ faults = 0 /\ crashed = FALSE

\* A call, the device or the file system fails.
Requested == {c \in Cmds : cmd[c].type # "none"}
Fail == /\ \E n \in 0..MaxEvents : Requested = 1..n /\ faults + n < MaxEvents
        /\ faults' = faults + 1

----------------------------------------------------------------------------
(* The RPC thread.  The remoting framework asks try_lock_client before it  *)
(* takes each request.                                                     *)

try_lock_client ==
    /\ ~crashed /\ rpc = "idle" /\ registered /\ offline_counter = 0
    /\ api_inst_pc < MaxCalls \/ api_inst_pc \in (FirstCall + 1)..LastCall
    /\ rpc' = "locked"
    /\ UNCHANGED <<client, call, cqes, has_prev_error, retval, api_queues,
                   cmd_queues, cmd, handles, worker_vars, oob, files, faults,
                   crashed>>

ConfirmOfflineLater ==
    /\ ~crashed /\ registered /\ offline_counter = 1
    /\ offline_counter' = 2
    /\ UNCHANGED <<registered, is_under_sync_call, api_inst_pc, call, rpc_vars,
                   api_queues, cmd_queues, cmd, handles, worker_vars, oob,
                   files, faults, crashed>>

ConfirmOfflineAgain ==
    /\ ~crashed /\ rpc = "idle" /\ registered /\ offline_counter # 0
    /\ offline_counter' = offline_counter + 1
    /\ UNCHANGED <<registered, is_under_sync_call, api_inst_pc, call, rpc_vars,
                   api_queues, cmd_queues, cmd, handles, worker_vars, oob,
                   files, faults, crashed>>

ConfirmOffline ==
    /\ ~crashed /\ rpc = "idle" /\ registered /\ offline_counter = 1
    /\ offline_counter' = 2
    /\ UNCHANGED <<registered, is_under_sync_call, api_inst_pc, call, rpc_vars,
                   api_queues, cmd_queues, cmd, handles, worker_vars, oob,
                   files, faults, crashed>>

\* The handles whose addresses the application has been given.
Known == {call[i].handle : i \in 0..(api_inst_pc - 1)} \ {NoHandle}

\* pos_process up to the push of the new call.
Issue(kind, h) ==
    /\ ~crashed /\ rpc = "locked"
    /\ h \in IF kind \in {"launch", "copy"} THEN Known ELSE {NoHandle}
    /\ call' = [call EXCEPT ![api_inst_pc] =
                  [NoCall EXCEPT !.kind = kind, !.handle = h]]
    /\ api_inst_pc' = api_inst_pc + 1
    /\ rpc2parser_wq' = Append(rpc2parser_wq, api_inst_pc)
    /\ rpc' = IF kind = "launch" THEN "idle" ELSE "pushed"
    /\ UNCHANGED <<registered, offline_counter, is_under_sync_call, cqes,
                   has_prev_error, retval, rpc2parser_cq, parser2worker_wq,
                   rpc2worker_cq, cmd_queues, cmd, handles, worker_vars, oob,
                   files, faults, crashed>>

MarkSync ==
    /\ ~crashed /\ rpc = "pushed"
    /\ is_under_sync_call' = TRUE
    /\ rpc' = "waiting" /\ cqes' = <<>> /\ has_prev_error' = FALSE
    /\ UNCHANGED <<registered, offline_counter, api_inst_pc, call, retval,
                   api_queues, cmd_queues, cmd, handles, worker_vars, oob,
                   files, faults, crashed>>

PollParser ==
    /\ ~crashed /\ rpc = "waiting"
    /\ cqes' = cqes \o rpc2parser_cq /\ rpc2parser_cq' = <<>>
    /\ rpc' = "polled"
    /\ UNCHANGED <<client, call, has_prev_error, retval, rpc2parser_wq,
                   parser2worker_wq, rpc2worker_cq, cmd_queues, cmd, handles,
                   worker_vars, oob, files, faults, crashed>>

Failed(i) == call[i].status \in {"parser_failed", "worker_failed"}

\* Whether a call among the completions has failed.
SomeFailed(completions) == \E i \in Range(completions) : Failed(i)

\* Whether one of them up to that of the call own has.
FailedUpTo(completions, own) ==
    \E k \in DOMAIN completions :
        Failed(completions[k]) /\ \A j \in 1..(k - 1) : completions[j] # own

\* The rest of the round: the worker's completions, then the search for the
\* call's own.  Completions behind it are dropped; PollForgetting also drops
\* the errors of earlier rounds.
PollForgetting ==
    LET all == cqes \o rpc2worker_cq
        own == api_inst_pc - 1
    IN  /\ ~crashed /\ rpc = "polled"
        /\ rpc2worker_cq' = <<>> /\ cqes' = <<>>
        /\ has_prev_error' = SomeFailed(all)
        /\ IF own \in Range(all)
             THEN /\ is_under_sync_call' = FALSE /\ rpc' = "idle"
                  /\ retval' = IF FailedUpTo(all, own)
                                 THEN "failed" ELSE "success"
             ELSE rpc' = "waiting" /\ UNCHANGED <<is_under_sync_call, retval>>
        /\ UNCHANGED <<registered, offline_counter, api_inst_pc, call,
                       rpc2parser_wq, rpc2parser_cq, parser2worker_wq,
                       cmd_queues, cmd, handles, worker_vars, oob, files,
                       faults, crashed>>

PollWorker ==
    LET all == cqes \o rpc2worker_cq
        own == api_inst_pc - 1
    IN  /\ ~crashed /\ rpc = "polled"
        /\ rpc2worker_cq' = <<>> /\ cqes' = <<>>
        /\ has_prev_error' = (has_prev_error \/ SomeFailed(all))
        /\ IF own \in Range(all)
             THEN /\ is_under_sync_call' = FALSE /\ rpc' = "idle"
                  /\ retval' = IF has_prev_error \/ FailedUpTo(all, own)
                                 THEN "failed" ELSE "success"
             ELSE rpc' = "waiting" /\ UNCHANGED <<is_under_sync_call, retval>>
        /\ UNCHANGED <<registered, offline_counter, api_inst_pc, call,
                       rpc2parser_wq, rpc2parser_cq, parser2worker_wq,
                       cmd_queues, cmd, handles, worker_vars, oob, files,
                       faults, crashed>>

----------------------------------------------------------------------------
(* The parser thread *)

\* The id of the next handle: the manager's vector grows by one.
NextHandle == LET known == {h \in Handles : handle_status[h] # "none"}
              IN  IF known = {} THEN 0 ELSE Max(known) + 1

\* The manager knows the call's handle, or has room for a new one.
Parsable(i) ==
    CASE call[i].kind = "malloc" -> NextHandle \in Handles
      [] call[i].kind = "query" -> TRUE
      [] OTHER -> handle_status[call[i].handle] # "none"

ParseFails ==
    LET i == Head(rpc2parser_wq)
    IN  /\ ~crashed /\ registered /\ rpc2parser_wq # <<>>
        /\ IF Parsable(i) THEN Fail ELSE UNCHANGED faults
        /\ rpc2parser_wq' = Tail(rpc2parser_wq)
        /\ call' = [call EXCEPT ![i].status = "parser_failed"]
        /\ rpc2parser_cq' = Append(rpc2parser_cq, i)
        /\ UNCHANGED <<client, rpc_vars, parser2worker_wq, rpc2worker_cq,
                       cmd_queues, cmd, handles, worker_vars, oob, files,
                       crashed>>

Parse ==
    LET i == Head(rpc2parser_wq)
        kind == call[i].kind
        h == IF kind = "malloc" THEN NextHandle ELSE call[i].handle
    IN  /\ ~crashed /\ registered /\ rpc2parser_wq # <<>> /\ Parsable(i)
        /\ rpc2parser_wq' = Tail(rpc2parser_wq)
        /\ call' = [call EXCEPT ![i] = [kind |-> kind, handle |-> h,
              status |-> CASE kind = "malloc" -> "after_parse"
                           [] kind = "query" -> "without_worker"
                           [] OTHER -> "init",
              has_return |-> kind \in {"malloc", "query"}]]
        /\ handle_status' = IF kind = "malloc"
             THEN [handle_status EXCEPT ![h] = "pending"] ELSE handle_status
        /\ rpc2parser_cq' = IF kind \in {"malloc", "query"}
             THEN Append(rpc2parser_cq, i) ELSE rpc2parser_cq
        /\ parser2worker_wq' = IF kind = "query" THEN parser2worker_wq
                                 ELSE Append(parser2worker_wq, i)
        /\ UNCHANGED <<client, rpc_vars, rpc2worker_cq, cmd_queues, cmd,
                       contents, worker_vars, oob, files, faults, crashed>>

\* POSParser::__process_cmd for command c.  It goes by the type that it finds
\* in the shared object, whichever queue the command came from.
parser_process_cmd(c) ==
    LET predump == cmd[c].type \in {"oob2parser_predump",
                                    "parser2worker_predump"}
    IN  IF cmd[c].type \in {"oob2parser_dump", "oob2parser_predump"}
          THEN /\ cmd' = [cmd EXCEPT ![c].type = IF predump
                      THEN "parser2worker_predump" ELSE "parser2worker_dump",
                    ![c].handles = @ \cup {h \in Handles :
                                             handle_status[h] # "none"}]
               /\ parser2worker_cmd_wq' = Append(parser2worker_cmd_wq, c)
               /\ UNCHANGED oob2parser_cmd_cq
          ELSE /\ cmd' = [cmd EXCEPT ![c].type = IF predump
                      THEN "oob2parser_predump" ELSE "oob2parser_dump"]
               /\ oob2parser_cmd_cq' = Append(oob2parser_cmd_cq, c)
               /\ UNCHANGED parser2worker_cmd_wq

ParserRequest ==
    /\ ~crashed /\ registered /\ oob2parser_cmd_wq # <<>>
    /\ parser_process_cmd(Head(oob2parser_cmd_wq))
    /\ oob2parser_cmd_wq' = Tail(oob2parser_cmd_wq)
    /\ UNCHANGED <<client, call, rpc_vars, api_queues, parser2worker_cmd_cq,
                   handles, worker_vars, oob, files, faults, crashed>>

ParserReply ==
    /\ ~crashed /\ registered /\ parser2worker_cmd_cq # <<>>
    /\ parser_process_cmd(Head(parser2worker_cmd_cq))
    /\ parser2worker_cmd_cq' = Tail(parser2worker_cmd_cq)
    /\ UNCHANGED <<client, call, rpc_vars, api_queues, oob2parser_cmd_wq,
                   handles, worker_vars, oob, files, faults, crashed>>

----------------------------------------------------------------------------
(* The worker thread: calls *)

\* The worker polls calls unless a dump is active and no caller waits.
PollCalls ==
    /\ ~crashed /\ registered /\ worker.pc = "loop" /\ wqes = <<>>
    /\ parser2worker_wq # <<>>
    /\ ~(ckpt_active /\ ~is_under_sync_call)
    /\ wqes' = parser2worker_wq /\ parser2worker_wq' = <<>>
    /\ UNCHANGED <<client, call, rpc_vars, rpc2parser_wq, rpc2parser_cq,
                   rpc2worker_cq, cmd_queues, cmd, handles, worker, max_wqe_id,
                   ckpt_active, ckpt_cmd, oob, files, faults, crashed>>

\* What running call i does to its handle.  A handle that is not active is
\* restored first, unless the call is to create it.
Run(i, ok) ==
    LET h == call[i].handle
    IN  /\ handle_status' = IF call[i].kind = "malloc" /\ ~ok
             THEN handle_status ELSE [handle_status EXCEPT ![h] = "active"]
        /\ contents' = IF call[i].kind = "launch" /\ ok
             THEN [contents EXCEPT ![h] = Append(@, i)] ELSE contents

ExecuteUnchecked(ok) ==
    LET i == Head(wqes)
    IN  /\ ~crashed /\ wqes # <<>>
        /\ wqes' = Tail(wqes)
        /\ Run(i, ok)
        /\ IF ok THEN UNCHANGED faults ELSE Fail
        /\ call' = [call EXCEPT ![i].status = IF ok THEN @ ELSE "worker_failed",
                                ![i].has_return = TRUE]
        /\ rpc2worker_cq' = IF call[i].has_return THEN rpc2worker_cq
                              ELSE Append(rpc2worker_cq, i)
        /\ max_wqe_id' = i
        /\ UNCHANGED <<client, rpc_vars, rpc2parser_wq, rpc2parser_cq,
                       parser2worker_wq, cmd_queues, cmd, worker, ckpt_active,
                       ckpt_cmd, oob, files, crashed>>

Execute(ok) ==
    LET i == Head(wqes)
    IN  /\ ~crashed /\ wqes # <<>>
        /\ wqes' = Tail(wqes)
        /\ Run(i, ok)
        /\ IF ok THEN UNCHANGED faults ELSE Fail
        /\ call' = [call EXCEPT ![i].status = IF ok THEN @ ELSE "worker_failed",
                                ![i].has_return = TRUE]
        /\ rpc2worker_cq' = IF call[i].has_return THEN rpc2worker_cq
                              ELSE Append(rpc2worker_cq, i)
        /\ max_wqe_id' = i
        /\ crashed' = (i < max_wqe_id)
        /\ UNCHANGED <<client, rpc_vars, rpc2parser_wq, rpc2parser_cq,
                       parser2worker_wq, cmd_queues, cmd, worker, ckpt_active,
                       ckpt_cmd, oob, files>>

\* The handle of a call is not active and cannot be restored: POS_ERROR_C
\* throws, and the daemon is gone.
RestoreBrokenFails ==
    LET i == Head(wqes)
    IN  /\ ~crashed /\ wqes # <<>> /\ call[i].kind # "malloc"
        /\ handle_status[call[i].handle] = "pending"
        /\ Fail
        /\ crashed' = TRUE
        /\ UNCHANGED <<client, call, rpc_vars, api_queues, cmd_queues, cmd,
                       handles, worker_vars, oob, files>>

----------------------------------------------------------------------------
(* The worker thread: POSWorker::__process_cmd *)

worker_process_cmd(c) ==
    LET dump == cmd[c].type = "parser2worker_dump"
        known == dump \/ cmd[c].type = "parser2worker_predump"
    IN  /\ crashed' = ~known
        /\ worker' = [pc |-> CASE ~known -> "loop"
                               [] dump /\ offline_counter = 0 -> "first"
                               [] dump /\ offline_counter = 1 -> "again"
                               [] OTHER -> "handles",
                      cmd |-> c, max |-> 0]
        /\ offline_counter' = IF dump /\ offline_counter = 0 THEN 1
                                ELSE offline_counter
        /\ ckpt_active' = (ckpt_active \/ dump)
        /\ ckpt_cmd' = IF dump THEN c ELSE ckpt_cmd

WorkerRequest ==
    /\ ~crashed /\ registered /\ worker.pc = "loop" /\ wqes = <<>>
    /\ parser2worker_cmd_wq # <<>>
    /\ worker_process_cmd(Head(parser2worker_cmd_wq))
    /\ parser2worker_cmd_wq' = Tail(parser2worker_cmd_wq)
    /\ UNCHANGED <<registered, is_under_sync_call, api_inst_pc, call, rpc_vars,
                   api_queues, oob2parser_cmd_wq, oob2parser_cmd_cq,
                   parser2worker_cmd_cq, cmd, handles, wqes, max_wqe_id, oob,
                   files, faults>>

\* The commands in the queues.
Underway == Len(oob2parser_cmd_wq) + Len(oob2parser_cmd_cq)
              + Len(parser2worker_cmd_wq) + Len(parser2worker_cmd_cq)

WorkerResumeEarly ==
    /\ ~crashed /\ registered /\ worker.pc = "loop" /\ wqes = <<>>
    /\ ckpt_active
    /\ Underway < MaxReplies
    /\ worker_process_cmd(ckpt_cmd)
    /\ UNCHANGED <<registered, is_under_sync_call, api_inst_pc, call, rpc_vars,
                   api_queues, cmd_queues, cmd, handles, wqes, max_wqe_id, oob,
                   files, faults>>

\* The worker takes up an active dump again as soon as no caller waits.
WorkerResume ==
    /\ ~crashed /\ registered /\ worker.pc = "loop" /\ wqes = <<>>
    /\ ckpt_active /\ ~is_under_sync_call
    /\ Underway < MaxReplies
    /\ worker_process_cmd(ckpt_cmd)
    /\ UNCHANGED <<registered, is_under_sync_call, api_inst_pc, call, rpc_vars,
                   api_queues, cmd_queues, cmd, handles, wqes, max_wqe_id, oob,
                   files, faults>>

\* The RPC thread has confirmed.
Confirmed ==
    /\ ~crashed /\ worker.pc \in {"first", "again"} /\ offline_counter = 2
    /\ worker' = [worker EXCEPT !.pc = "handles"]
    /\ UNCHANGED <<client, call, rpc_vars, api_queues, cmd_queues, cmd,
                   handles, wqes, max_wqe_id, ckpt_active, ckpt_cmd, oob,
                   files, faults, crashed>>

AbandonConfirmed ==
    /\ ~crashed /\ worker.pc = "first" /\ offline_counter = 2
    /\ is_under_sync_call
    /\ worker' = Polling
    /\ UNCHANGED <<client, call, rpc_vars, api_queues, cmd_queues, cmd,
                   handles, wqes, max_wqe_id, ckpt_active, ckpt_cmd, oob,
                   files, faults, crashed>>

\* A caller waits: its call comes first.
Abandon ==
    /\ ~crashed /\ worker.pc = "first" /\ offline_counter # 2
    /\ is_under_sync_call
    /\ worker' = Polling
    /\ UNCHANGED <<client, call, rpc_vars, api_queues, cmd_queues, cmd,
                   handles, wqes, max_wqe_id, ckpt_active, ckpt_cmd, oob,
                   files, faults, crashed>>

reply_parser(r) ==
    /\ cmd' = [cmd EXCEPT ![worker.cmd].retval = r]
    /\ parser2worker_cmd_cq' = Append(parser2worker_cmd_cq, worker.cmd)
    /\ worker' = Polling

Persist(S) == [files EXCEPT ![worker.cmd].state =
                 [h \in S \cup DOMAIN @ |->
                    IF h \in S THEN contents[h] ELSE @[h]]]

\* __checkpoint_handle_sync skips handles that are not active.
Active == {h \in cmd[worker.cmd].handles : handle_status[h] = "active"}

\* tear_down leaves the status alone but the memory is gone.
TornDown == \E h \in cmd[worker.cmd].handles : handle_status[h] = "unmapped"

CheckpointHandles ==
    /\ ~crashed /\ worker.pc = "handles" /\ ~TornDown
    /\ files' = Persist(Active)
    /\ IF cmd[worker.cmd].type = "parser2worker_predump"
         THEN reply_parser("success")
         ELSE /\ worker' = [worker EXCEPT !.pc = "drain"]
              /\ UNCHANGED <<cmd, parser2worker_cmd_cq>>
    /\ UNCHANGED <<client, call, rpc_vars, api_queues, oob2parser_cmd_wq,
                   oob2parser_cmd_cq, parser2worker_cmd_wq, handles, wqes,
                   max_wqe_id, ckpt_active, ckpt_cmd, oob, faults, crashed>>

CheckpointFails ==
    /\ ~crashed /\ worker.pc = "handles"
    /\ (TornDown /\ UNCHANGED faults) \/ Fail
    /\ \E S \in SUBSET Active : files' = Persist(S)
    /\ reply_parser("failed")
    /\ UNCHANGED <<client, call, rpc_vars, api_queues, oob2parser_cmd_wq,
                   oob2parser_cmd_cq, parser2worker_cmd_wq, handles, wqes,
                   max_wqe_id, ckpt_active, ckpt_cmd, oob, crashed>>

UndrainedShort == worker.max < api_inst_pc - 2 /\ max_wqe_id < api_inst_pc - 2
UndrainedPast == worker.max <= api_inst_pc - 1 /\ max_wqe_id <= api_inst_pc - 1

\* The ids are unsigned: api_inst_pc - 1 is 2^64 - 1 for a client without
\* calls.
Undrained ==
    \/ api_inst_pc = 0
    \/ worker.max < api_inst_pc - 1 /\ max_wqe_id < api_inst_pc - 1

\* The unexecuted calls that have arrived go to their files.
Drain ==
    LET arrived == Range(parser2worker_wq)
    IN  /\ ~crashed /\ worker.pc = "drain" /\ Undrained
        /\ parser2worker_wq # <<>>
        /\ parser2worker_wq' = <<>>
        /\ files' = [files EXCEPT ![worker.cmd].ua = @ \cup arrived]
        /\ worker' = [worker EXCEPT !.max = Max(arrived \cup {@})]
        /\ UNCHANGED <<client, call, rpc_vars, rpc2parser_wq, rpc2parser_cq,
                       rpc2worker_cq, cmd_queues, cmd, handles, wqes,
                       max_wqe_id, ckpt_active, ckpt_cmd, oob, faults, crashed>>

\* The k-th of them fails; it and those after it are lost with the vector.
DrainFails ==
    /\ ~crashed /\ worker.pc = "drain" /\ Undrained
    /\ Fail
    /\ \E k \in 1..Len(parser2worker_wq) :
         files' = [files EXCEPT ![worker.cmd].ua =
                     @ \cup {parser2worker_wq[j] : j \in 1..(k - 1)}]
    /\ parser2worker_wq' = <<>>
    /\ reply_parser("failed")
    /\ UNCHANGED <<client, call, rpc_vars, rpc2parser_wq, rpc2parser_cq,
                   rpc2worker_cq, oob2parser_cmd_wq, oob2parser_cmd_cq,
                   parser2worker_cmd_wq, handles, wqes, max_wqe_id,
                   ckpt_active, ckpt_cmd, oob, crashed>>

tear_down_all_handles ==
    [h \in Handles |-> IF handle_status[h] = "active" THEN "unmapped"
                         ELSE handle_status[h]]

\* The handles are torn down, which may fail, and the dump is over.
FinishDump ==
    /\ ~crashed /\ worker.pc = "drain" /\ ~Undrained
    /\ handle_status' = tear_down_all_handles
    /\ ckpt_active' = FALSE /\ ckpt_cmd' = 0
    /\ \/ reply_parser("success") /\ UNCHANGED faults
       \/ reply_parser("failed") /\ Fail
    /\ UNCHANGED <<client, call, rpc_vars, api_queues, oob2parser_cmd_wq,
                   oob2parser_cmd_cq, parser2worker_cmd_wq, contents, wqes,
                   max_wqe_id, oob, files, crashed>>

----------------------------------------------------------------------------
(* The OOB thread *)

Request(dump) ==
    \E c \in Cmds :
        /\ ~crashed /\ oob.cmd = 0 /\ registered
        /\ Requested = 1..(c - 1) /\ faults + c <= MaxEvents
        /\ cmd' = [cmd EXCEPT ![c].type = IF dump THEN "oob2parser_dump"
                                            ELSE "oob2parser_predump"]
        /\ oob2parser_cmd_wq' = Append(oob2parser_cmd_wq, c)
        /\ oob' = [cmd |-> c, dump |-> dump]
        /\ UNCHANGED <<client, call, rpc_vars, api_queues, oob2parser_cmd_cq,
                       parser2worker_cmd_wq, parser2worker_cmd_cq, handles,
                       worker_vars, files, faults, crashed>>

\* The reply the OOB thread reads, which it asserts to be one and its own.
Reply == cmd[Head(oob2parser_cmd_cq)]
Expected == /\ Len(oob2parser_cmd_cq) = 1
            /\ Reply.type = IF oob.dump THEN "oob2parser_dump"
                              ELSE "oob2parser_predump"

\* A failed dump, or a pre-dump, ends with the answer to the user.
Answer ==
    /\ ~crashed /\ oob.cmd # 0 /\ oob2parser_cmd_cq # <<>>
    /\ ~Expected \/ ~oob.dump \/ Reply.retval = "failed"
    /\ crashed' = ~Expected
    /\ oob2parser_cmd_cq' = <<>> /\ oob' = NoRequest
    /\ UNCHANGED <<client, call, rpc_vars, api_queues, oob2parser_cmd_wq,
                   parser2worker_cmd_wq, parser2worker_cmd_cq, cmd, handles,
                   worker_vars, files, faults>>

\* A dump that succeeded: the client is persisted, which may fail, and
\* removed.  Its queues are freed under the worker if that is still at work.
\* The application's calls so far belong to the checkpoint.
AnswerAndRemove ==
    /\ ~crashed /\ oob.cmd # 0 /\ oob2parser_cmd_cq # <<>>
    /\ Expected /\ oob.dump /\ Reply.retval = "success"
    /\ \/ /\ files' = [files EXCEPT ![oob.cmd] =
                         [@ EXCEPT !.pc = api_inst_pc, !.call = call]]
          /\ UNCHANGED faults
       \/ Fail /\ UNCHANGED files
    /\ oob2parser_cmd_cq' = <<>> /\ oob' = NoRequest
    /\ registered' = FALSE
    /\ crashed' = (worker.pc # "loop" \/ wqes # <<>>)
    /\ UNCHANGED <<offline_counter, is_under_sync_call, api_inst_pc, call,
                   rpc_vars, api_queues, oob2parser_cmd_wq,
                   parser2worker_cmd_wq, parser2worker_cmd_cq, cmd, handles,
                   worker_vars>>

\* The decimal digits of a number, in which std::set compares the names
\* ua-<id>.bin: "ua-10.bin" comes before "ua-9.bin", and "ua-1.bin" before
\* both, as '.' is less than a digit.
Digits[i \in Nat] == IF i < 10 THEN <<i>>
                       ELSE Append(Digits[i \div 10], i % 10)
PathBefore(i, j) ==
    LET a == Digits[i]
        b == Digits[j]
    IN  \E k \in DOMAIN b :
          /\ k <= Len(a) + 1 /\ \A m \in 1..(k - 1) : a[m] = b[m]
          /\ k > Len(a) \/ a[k] < b[k]

\* The order in which restore_apicxts reloads the unexecuted calls.
Sorted(s) == \A j, k \in DOMAIN s : j < k => PathBefore(s[j], s[k])

\* __reload_apicxt asserts that it finds the handle of every unexecuted call.
AllFound(ckpt) ==
    \A i \in ckpt.ua : ckpt.call[i].handle \in DOMAIN ckpt.state

\* restore_handles makes the handles that have a file, with their state.
RestoredStatus(ckpt) ==
    [h \in Handles |-> IF h \in DOMAIN ckpt.state THEN "active" ELSE "none"]
RestoredContents(ckpt) ==
    [h \in Handles |-> IF h \in DOMAIN ckpt.state THEN ckpt.state[h] ELSE <<>>]

\* A new client with what the directory holds; the conflict checks of
\* restore_client see to it that the old one is gone.  The status of a
\* reloaded call is not initialised: it may read as a failure.
Restore(c) ==
    LET ckpt == files[c]
    IN  /\ ~crashed /\ oob.cmd = 0 /\ ~registered /\ ckpt.pc # NotSaved
        /\ crashed' = ~AllFound(ckpt)
        /\ registered' = TRUE /\ offline_counter' = 0
        /\ is_under_sync_call' = FALSE /\ api_inst_pc' = ckpt.pc
        /\ handle_status' = RestoredStatus(ckpt)
        /\ contents' = RestoredContents(ckpt)
        /\ \E s \in Bijection(1..Cardinality(ckpt.ua), ckpt.ua) :
             Sorted(s) /\ parser2worker_wq' = s
        /\ rpc2parser_wq' = <<>> /\ rpc2parser_cq' = <<>>
        /\ rpc2worker_cq' = <<>>
        /\ oob2parser_cmd_wq' = <<>> /\ oob2parser_cmd_cq' = <<>>
        /\ parser2worker_cmd_wq' = <<>> /\ parser2worker_cmd_cq' = <<>>
        /\ worker' = Polling /\ wqes' = <<>> /\ max_wqe_id' = 0
        /\ ckpt_active' = FALSE /\ ckpt_cmd' = 0
        /\ \E garbage \in SUBSET ckpt.ua :
             call' = [i \in Calls |-> IF i \in garbage
               THEN [ckpt.call[i] EXCEPT !.status = "worker_failed"]
               ELSE ckpt.call[i]]
        /\ UNCHANGED <<rpc_vars, cmd, oob, files, faults>>

----------------------------------------------------------------------------
Serve == \/ MarkSync \/ PollParser \/ PollWorker
         \/ \E kind \in Kinds, h \in Handles \cup {NoHandle} : Issue(kind, h)
RpcStep == try_lock_client \/ ConfirmOffline \/ Serve
ParserStep == Parse \/ ParseFails \/ ParserRequest \/ ParserReply
WorkerStep == \/ PollCalls \/ (\E ok \in BOOLEAN : Execute(ok))
              \/ RestoreBrokenFails
              \/ WorkerRequest \/ WorkerResume \/ Confirmed \/ Abandon
              \/ CheckpointHandles \/ CheckpointFails
              \/ Drain \/ DrainFails \/ FinishDump
OobStep == \/ (\E dump \in BOOLEAN : Request(dump))
           \/ Answer \/ AnswerAndRemove
           \/ (\E c \in Cmds : Restore(c))

Next == RpcStep \/ ParserStep \/ WorkerStep \/ OobStep

Spec == Init /\ [][Next]_vars

\* The four threads poll in loops and are scheduled.  Nothing makes the
\* application issue a call or the user request a dump.
FairSpec ==
    /\ Spec
    /\ WF_vars(Serve) /\ WF_vars(ConfirmOffline)
    /\ WF_vars(Parse \/ ParseFails) /\ WF_vars(ParserRequest \/ ParserReply)
    /\ WF_vars(WorkerStep)
    /\ WF_vars(Answer \/ AnswerAndRemove)

----------------------------------------------------------------------------
(* Properties *)

Increasing(s) == \A j, k \in DOMAIN s : j < k => s[j] < s[k]

\* No launch is lost or runs twice, whether it was queued, saved by a dump
\* or restored: as long as nothing failed, each one sits in one queue, or in
\* the directory of the dump underway, or has run once.  A handle the dump
\* did not collect is gone after a restore, with what was launched on it, and
\* its id is given out again.
CallsKept ==
    LET Saved == IF oob.cmd = 0 THEN {} ELSE files[oob.cmd].ua
        Copies(i) == rpc2parser_wq \o parser2worker_wq \o wqes
                       \o contents[call[i].handle]
    IN  registered /\ ~crashed /\ faults = 0 =>
          \A i \in 0..(api_inst_pc - 1) :
            /\ call[i].kind = "launch" /\ ~Failed(i)
            /\ handle_status[call[i].handle] # "none"
            /\ \A j \in (i + 1)..(api_inst_pc - 1) :
                 ~(call[j].kind = "malloc" /\ call[j].handle = call[i].handle)
            => Cardinality({k \in DOMAIN Copies(i) : Copies(i)[k] = i})
                 = IF i \in Saved THEN 0 ELSE 1

\* Launches on a handle take effect in the order the application issued
\* them, over dumps and restores; the worker's assertion stops the daemon
\* where restored calls come in another order.
InOrder == ~crashed => \A h \in Handles : Increasing(contents[h])

\* The worker's assertion in its second attempt to stop the client: while it
\* waits for the confirmation no caller is in a synchronous call.
NoSyncWhileConfirming ==
    worker.pc = "again" /\ offline_counter # 2 => ~is_under_sync_call

\* pos_process's check that the client does not disappear while a caller
\* waits: from the confirmation on no request is underway.
NoCallerAtRemoval == ~registered \/ offline_counter = 2 => rpc = "idle"

\* One of the launches between the last two synchronous calls has failed.
LaunchFailed(own) ==
    \E i \in 0..(own - 1) :
        /\ \A j \in i..(own - 1) : ~is_sync(j)
        /\ call[i].status = "worker_failed"

\* A copy that returns success hides no failure: none of the launches since
\* the previous synchronous call failed in the worker.  The exception is a
\* restored client: the completions its old queues held are gone.
FailuresReported ==
    [][/\ rpc = "polled" /\ rpc' = "idle"
       /\ call[api_inst_pc - 1].kind = "copy"
       /\ LaunchFailed(api_inst_pc - 1)
       /\ \A c \in Cmds : files[c].pc = NotSaved
       => retval' = "failed"]_vars

\* The worker hands a synchronous call its result even when it is asked to
\* dump in the meantime (the note in pos_process), unless the daemon dies.
SyncCallReturns == rpc = "waiting" ~> rpc = "idle" \/ crashed

\* The last call has not come to this worker and never will: there is none,
\* the parser answered it, it ran before the restore, or a drain that failed
\* has lost it.
LastSkipped ==
    LET last == api_inst_pc - 1
    IN  \/ api_inst_pc = 0
        \/ call[last].kind = "query" \/ call[last].status = "parser_failed"
        \/ max_wqe_id = 0 /\ parser2worker_wq = <<>>
        \/ faults > 0 /\ last \notin Range(parser2worker_wq)

\* A dump or pre-dump request is answered.  The exception: the worker drains
\* its queue until it has seen the last call, for ever if that was skipped.
DumpAnswered ==
    oob.cmd # 0 ~> \/ oob.cmd = 0 \/ crashed
                   \/ [](worker.pc = "drain" /\ LastSkipped)

====
