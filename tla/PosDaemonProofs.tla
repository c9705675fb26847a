-------------------------- MODULE PosDaemonProofs --------------------------
(***************************************************************************)
(* Proofs about PosDaemon: the handshake by which the worker stops the RPC *)
(* thread for a dump, for any number of calls, requests, failures, handles *)
(* and restores.  Nothing locks the counter or the flag, so the argument   *)
(* needs to know that one request at a time is underway until the RPC      *)
(* thread has confirmed; after that there may be several, because a dump   *)
(* that failed is taken up again.  Then the facts about queues of calls,   *)
(* and the types of the whole state, which rest on the handshake.  Last,   *)
(* launches take effect in the order in which the application issued them, *)
(* and a launch that failed is reported to the caller's next synchronous   *)
(* call.                                                                   *)
(***************************************************************************)
EXTENDS PosDaemon, FiniteSetTheorems, TLAPS

\* The types of what the handshake is about.
QType ==
    /\ oob2parser_cmd_wq \in Seq(Cmds) /\ oob2parser_cmd_cq \in Seq(Cmds)
    /\ parser2worker_cmd_wq \in Seq(Cmds)
    /\ parser2worker_cmd_cq \in Seq(Cmds)
    /\ cmd \in [Cmds -> Cmd]

WType ==
    /\ DOMAIN worker = {"pc", "cmd", "max"}
    /\ worker.pc \in {"loop", "first", "again", "handles", "drain"}
    /\ worker.pc # "loop" => worker.cmd \in Cmds
    /\ ckpt_active \in BOOLEAN /\ (ckpt_active => ckpt_cmd \in Cmds)

CType ==
    /\ registered \in BOOLEAN /\ offline_counter \in 0..2
    /\ is_under_sync_call \in BOOLEAN
    /\ rpc \in {"idle", "locked", "pushed", "waiting", "polled"}
    /\ oob \in [cmd : 0..MaxEvents, dump : BOOLEAN]

HType == QType /\ WType /\ CType

\* What the flag, the counter and the removal of the client mean for the RPC
\* thread.
Rpc ==
    /\ is_under_sync_call <=> rpc \in {"waiting", "polled"}
    /\ offline_counter = 2 \/ ~registered => rpc = "idle"

\* Before a dump has reached the worker: at most one command is underway,
\* while the OOB thread waits for it, and the completions are of pre-dumps.
Online ==
    offline_counter = 0 =>
      /\ ~ckpt_active /\ worker.pc \in {"loop", "handles"}
      /\ Underway + (IF worker.pc = "loop" THEN 0 ELSE 1)
           <= IF oob.cmd = 0 THEN 0 ELSE 1
      /\ worker.pc = "handles" =>
           cmd[worker.cmd].type = "parser2worker_predump"
      /\ oob2parser_cmd_wq # <<>> => cmd[Head(oob2parser_cmd_wq)].type
           \in {"oob2parser_dump", "oob2parser_predump"}
      /\ parser2worker_cmd_cq # <<>> =>
           cmd[Head(parser2worker_cmd_cq)].type = "parser2worker_predump"
      /\ oob2parser_cmd_cq # <<>> =>
           cmd[Head(oob2parser_cmd_cq)].type = "oob2parser_predump"

\* While the worker waits for the confirmation: the dump is the only command,
\* and after the first attempt the RPC thread can at most finish the call
\* that made the worker give way.
Stopping ==
    offline_counter = 1 =>
      /\ ckpt_active /\ oob.cmd # 0 /\ Underway = 0
      /\ cmd[ckpt_cmd].type = "parser2worker_dump"
      /\ worker.pc \in {"loop", "first", "again"}
      /\ worker.pc = "loop" => rpc \in {"idle", "waiting", "polled"}
      /\ worker.pc = "again" => rpc = "idle"

Inv == HType /\ Rpc /\ Online /\ Stopping

\* What the invariant reads.
hvars == <<registered, offline_counter, is_under_sync_call, ckpt_active,
           ckpt_cmd, rpc, cmd_queues, cmd, worker, oob>>

-----------------------------------------------------------------------------
\* The client starts online, with empty queues and idle threads.
LEMMA InitInv == Init => Inv
<1> SUFFICES ASSUME Init PROVE Inv
  OBVIOUS
<1>1. cmd \in [Cmds -> Cmd]
  BY DEF Init, Cmd
<1>2. /\ DOMAIN worker = {"pc", "cmd", "max"} /\ worker.pc = "loop"
      /\ oob \in [cmd : 0..MaxEvents, dump : BOOLEAN]
  BY BoundsAssumption DEF Init, Polling, NoRequest
<1>3. QType /\ WType /\ CType
  <2>1. QType
    BY <1>1 DEF Init, QType
  <2>2. WType
    BY Zenon, <1>2 DEF Init, WType
  <2>3. CType
    <3>1. /\ registered = TRUE /\ offline_counter = 0 /\ rpc = "idle"
          /\ is_under_sync_call = FALSE
      BY DEF Init
    <3>2. 0 \in 0..2
      OBVIOUS
    <3> QED BY Zenon, <1>2, <3>1, <3>2 DEF CType
  <2> QED BY <2>1, <2>2, <2>3
<1>4. Rpc /\ Online /\ Stopping
  BY DEF Init, Rpc, Online, Stopping, Underway, Polling, NoRequest
<1> QED BY <1>3, <1>4 DEF Inv, HType

\* A step that leaves these variables alone keeps the invariant.
LEMMA SameInv == Inv /\ UNCHANGED hvars => Inv'
BY DEF hvars, cmd_queues, Inv, HType, QType, WType, CType, Rpc, Online,
   Stopping, Underway

-----------------------------------------------------------------------------
(* The RPC thread *)

\* try_lock_client lets a request in only while the client is online.
LEMMA LockInv == Inv /\ try_lock_client => Inv'
BY DEF try_lock_client, client, cmd_queues, worker_vars, Inv, HType, QType,
   WType, CType, Rpc, Online, Stopping, Underway

\* The confirmation: the RPC thread is idle and lets nothing more in.
LEMMA ConfirmInv == Inv /\ ConfirmOffline => Inv'
BY DEF ConfirmOffline, rpc_vars, cmd_queues, worker_vars, Inv, HType, QType,
   WType, CType, Rpc, Online, Stopping, Underway

\* A request underway was let in before the worker asked to stop, so the
\* client is not confirmed; a second attempt of the worker excludes it.
LEMMA ServeInv == Inv /\ Serve => Inv'
<1> SUFFICES ASSUME Inv, Serve PROVE Inv'
  OBVIOUS
<1>1. ASSUME NEW kind \in Kinds, NEW h \in Handles \cup {NoHandle},
             Issue(kind, h)
      PROVE  Inv'
  BY <1>1 DEF Issue, cmd_queues, worker_vars, Inv, HType, QType, WType, CType,
     Rpc, Online, Stopping, Underway
<1>2. CASE MarkSync
  BY <1>2 DEF MarkSync, cmd_queues, worker_vars, Inv, HType, QType, WType,
     CType, Rpc, Online, Stopping, Underway
<1>3. CASE PollParser
  BY <1>3 DEF PollParser, client, cmd_queues, worker_vars, Inv, HType, QType,
     WType, CType, Rpc, Online, Stopping, Underway
<1>4. CASE PollWorker
  <2>1. /\ rpc = "polled"
        /\ \/ rpc' = "idle" /\ is_under_sync_call' = FALSE
           \/ rpc' = "waiting" /\ UNCHANGED is_under_sync_call
        /\ UNCHANGED <<registered, offline_counter, cmd_queues, cmd,
                       worker_vars, oob>>
    BY <1>4 DEF PollWorker
  <2> QED BY Zenon, <2>1 DEF cmd_queues, worker_vars, Inv, HType, QType,
     WType, CType, Rpc, Online, Stopping, Underway
<1> QED BY <1>1, <1>2, <1>3, <1>4 DEF Serve

-----------------------------------------------------------------------------
(* The parser thread *)

\* Calls pass through the parser without touching the handshake.
LEMMA ParseInv == Inv /\ (Parse \/ ParseFails) => Inv'
<1>1. Parse \/ ParseFails => UNCHANGED hvars
  BY DEF Parse, ParseFails, hvars, client, rpc_vars, worker_vars
<1> QED BY <1>1, SameInv

\* What __process_cmd does to command c: it gets its other type and goes to
\* the worker or to the OOB thread.
LEMMA ParserCommand ==
  ASSUME HType, NEW c \in Cmds, parser_process_cmd(c)
  PROVE  /\ cmd' \in [Cmds -> Cmd]
         /\ \/ /\ cmd[c].type \in {"oob2parser_dump", "oob2parser_predump"}
               /\ parser2worker_cmd_wq' = Append(parser2worker_cmd_wq, c)
               /\ UNCHANGED oob2parser_cmd_cq
            \/ /\ cmd[c].type \notin {"oob2parser_dump", "oob2parser_predump"}
               /\ cmd[c].type = "parser2worker_predump" =>
                    cmd'[c].type = "oob2parser_predump"
               /\ oob2parser_cmd_cq' = Append(oob2parser_cmd_cq, c)
               /\ UNCHANGED parser2worker_cmd_wq
<1> DEFINE S == {h \in Handles : handle_status[h] # "none"}
<1>1. cmd \in [Cmds -> Cmd] /\ cmd[c] \in Cmd /\ S \subseteq Handles
  BY DEF HType, QType
<1>2. CASE cmd[c].type \in {"oob2parser_dump", "oob2parser_predump"}
  BY <1>1, <1>2 DEF parser_process_cmd, Cmd
<1>3. CASE cmd[c].type \notin {"oob2parser_dump", "oob2parser_predump"}
  BY <1>1, <1>3 DEF parser_process_cmd, Cmd
<1> QED BY <1>2, <1>3

\* Before the confirmation the command that the parser moves on is the only
\* one; while the worker waits for the confirmation there is none.
LEMMA ParserRequestInv == Inv /\ ParserRequest => Inv'
<1> SUFFICES ASSUME Inv, ParserRequest PROVE Inv'
  OBVIOUS
<1> DEFINE c == Head(oob2parser_cmd_wq)
<1>1. /\ c \in Cmds /\ oob2parser_cmd_wq # <<>>
      /\ oob2parser_cmd_wq' = Tail(oob2parser_cmd_wq)
      /\ parser_process_cmd(c)
  BY DEF ParserRequest, Inv, HType, QType
<1>2. UNCHANGED <<registered, offline_counter, is_under_sync_call, rpc,
                  parser2worker_cmd_cq, worker, ckpt_active, ckpt_cmd, oob>>
  BY DEF ParserRequest, client, rpc_vars, worker_vars
<1>3. HType'
  <2>0. \A s \in Seq(Cmds) : Append(s, c) \in Seq(Cmds)
    BY <1>1
  <2>1. QType'
    <3>1. HType /\ QType
      BY DEF Inv, HType
    <3>2. oob2parser_cmd_wq' \in Seq(Cmds)
      BY <1>1, <3>1 DEF QType
    <3>3. cmd' \in [Cmds -> Cmd]
      BY <1>1, <3>1, ParserCommand
    <3>4. /\ parser2worker_cmd_wq' \in Seq(Cmds)
          /\ oob2parser_cmd_cq' \in Seq(Cmds)
      BY ZenonT(30), <1>1, <2>0, <3>1, ParserCommand DEF QType
    <3> QED BY SMTT(30), <1>2, <3>1, <3>2, <3>3, <3>4 DEF QType
  <2>2. WType' /\ CType'
    BY <1>2 DEF Inv, HType, WType, CType
  <2> QED BY <2>1, <2>2 DEF HType
<1>4. Rpc'
  BY <1>2 DEF Inv, Rpc
<1>5. Online' /\ Stopping'
  BY SMTT(30), <1>1, <1>2, ParserCommand DEF Inv, HType, QType, WType, CType,
     Online, Stopping, Underway
<1> QED BY <1>3, <1>4, <1>5 DEF Inv

\* The same for a completion on its way back to the OOB thread.
LEMMA ParserReplyInv == Inv /\ ParserReply => Inv'
<1> SUFFICES ASSUME Inv, ParserReply PROVE Inv'
  OBVIOUS
<1> DEFINE c == Head(parser2worker_cmd_cq)
<1>1. /\ c \in Cmds /\ parser2worker_cmd_cq # <<>>
      /\ parser2worker_cmd_cq' = Tail(parser2worker_cmd_cq)
      /\ parser_process_cmd(c)
  BY DEF ParserReply, Inv, HType, QType
<1>2. UNCHANGED <<registered, offline_counter, is_under_sync_call, rpc,
                  oob2parser_cmd_wq, worker, ckpt_active, ckpt_cmd, oob>>
  BY DEF ParserReply, client, rpc_vars, worker_vars
<1>3. HType'
  <2>0. \A s \in Seq(Cmds) : Append(s, c) \in Seq(Cmds)
    BY <1>1
  <2>1. QType'
    <3>1. HType /\ QType
      BY DEF Inv, HType
    <3>2. parser2worker_cmd_cq' \in Seq(Cmds)
      BY SMTT(30), <1>1, <3>1 DEF QType
    <3>3. cmd' \in [Cmds -> Cmd]
      BY <1>1, <3>1, ParserCommand
    <3>4. /\ parser2worker_cmd_wq' \in Seq(Cmds)
          /\ oob2parser_cmd_cq' \in Seq(Cmds)
      BY ZenonT(30), <1>1, <2>0, <3>1, ParserCommand DEF QType
    <3> QED BY SMTT(30), <1>2, <3>1, <3>2, <3>3, <3>4 DEF QType
  <2>2. WType' /\ CType'
    BY <1>2 DEF Inv, HType, WType, CType
  <2> QED BY <2>1, <2>2 DEF HType
<1>4. Rpc'
  BY <1>2 DEF Inv, Rpc
<1>5. Online' /\ Stopping'
  BY SMTT(30), <1>1, <1>2, ParserCommand DEF Inv, HType, QType, WType, CType,
     Online, Stopping, Underway
<1> QED BY <1>3, <1>4, <1>5 DEF Inv

-----------------------------------------------------------------------------
(* The worker thread *)

\* Running calls does not touch the handshake.
LEMMA CallsInv ==
  ASSUME Inv, PollCalls \/ RestoreBrokenFails \/ \E ok \in BOOLEAN : Execute(ok)
  PROVE  Inv'
<1>1. UNCHANGED hvars
  BY Zenon DEF PollCalls, RestoreBrokenFails, Execute, hvars, client, rpc_vars,
     worker_vars
<1> QED BY <1>1, SameInv

\* A queue of no length is empty.
LEMMA EmptyQueue ==
  ASSUME NEW s \in Seq(Cmds)
  PROVE  /\ Len(s) = 0 => s = <<>>
         /\ s # <<>> => Len(s) >= 1 /\ Len(Tail(s)) = Len(s) - 1
         /\ s # <<>> /\ Len(s) = 1 => Tail(s) = <<>>
<1>1. \A t \in Seq(Cmds) : Len(t) = 0 => t = <<>>
  OBVIOUS
<1>2. ASSUME s # <<>>
      PROVE  /\ Len(s) >= 1 /\ Len(Tail(s)) = Len(s) - 1
             /\ Len(Tail(s)) = 0 => Tail(s) = <<>>
  <2>1. Tail(s) \in Seq(Cmds) /\ Len(Tail(s)) = Len(s) - 1
    BY <1>2
  <2>2. Len(s) \in Nat \ {0}
    BY <1>2
  <2>3. Len(Tail(s)) = 0 => Tail(s) = <<>>
    BY Zenon, <2>1, <1>1
  <2> QED BY SMTT(30), <2>1, <2>2, <2>3
<1> QED BY <1>1, <1>2

\* A command that comes from the parser.  A dump finds the client online, or
\* confirmed: in between there is no other command.
LEMMA WorkerRequestInv == Inv /\ WorkerRequest => Inv'
<1> SUFFICES ASSUME Inv, WorkerRequest PROVE Inv'
  OBVIOUS
<1> DEFINE c == Head(parser2worker_cmd_wq)
<1>1. /\ c \in Cmds /\ parser2worker_cmd_wq # <<>>
      /\ parser2worker_cmd_wq' = Tail(parser2worker_cmd_wq)
      /\ parser2worker_cmd_wq' \in Seq(Cmds)
      /\ worker.pc = "loop" /\ worker_process_cmd(c)
  BY DEF WorkerRequest, Inv, HType, QType
<1>2. UNCHANGED <<registered, is_under_sync_call, rpc, oob2parser_cmd_wq,
                  oob2parser_cmd_cq, parser2worker_cmd_cq, cmd, oob>>
  BY DEF WorkerRequest, rpc_vars
<1>3. HType'
  BY <1>1, <1>2 DEF worker_process_cmd, Inv, HType, QType, WType, CType
<1>4. offline_counter # 1 /\ (offline_counter = 0 => oob.cmd # 0)
  BY <1>1 DEF Inv, HType, QType, CType, Online, Stopping, Underway
<1>5. Rpc'
  BY SMTT(30), <1>1, <1>2, <1>4 DEF worker_process_cmd, Inv, HType, CType, Rpc
<1>6. Online' /\ Stopping'
  <2>1. CASE offline_counter = 2
    BY <1>1, <2>1 DEF worker_process_cmd, Online, Stopping
  <2>2. CASE offline_counter = 0
    <3>1. /\ Len(parser2worker_cmd_wq) = 1 /\ Len(oob2parser_cmd_wq) = 0
          /\ Len(oob2parser_cmd_cq) = 0 /\ Len(parser2worker_cmd_cq) = 0
      <4>1. /\ Len(oob2parser_cmd_wq) \in Nat /\ Len(oob2parser_cmd_cq) \in Nat
            /\ Len(parser2worker_cmd_wq) \in Nat
            /\ Len(parser2worker_cmd_cq) \in Nat
        BY DEF Inv, HType, QType
      <4>2. Len(parser2worker_cmd_wq) >= 1
        BY <1>1, EmptyQueue DEF Inv, HType, QType
      <4>3. /\ worker.pc = "loop"
            /\ Underway + (IF worker.pc = "loop" THEN 0 ELSE 1)
                 <= IF oob.cmd = 0 THEN 0 ELSE 1
        BY <1>1, <2>2 DEF Inv, Online
      <4>4. Len(oob2parser_cmd_wq) + Len(oob2parser_cmd_cq)
              + Len(parser2worker_cmd_wq) + Len(parser2worker_cmd_cq) <= 1
        BY <4>1, <4>3 DEF Underway
      <4> QED BY SMTT(30), <4>1, <4>2, <4>4
    <3>2. /\ oob2parser_cmd_wq' = <<>> /\ oob2parser_cmd_cq' = <<>>
          /\ parser2worker_cmd_cq' = <<>> /\ parser2worker_cmd_wq' = <<>>
      BY SMTT(30), <1>1, <1>2, <3>1, EmptyQueue DEF Inv, HType, QType
    <3>3. Underway' = 0 /\ oob'.cmd # 0
      BY SMTT(30), <1>2, <1>4, <2>2, <3>2 DEF Underway
    <3>4. CASE cmd[c].type = "parser2worker_dump"
      <4>1. worker'.pc = "first"
        BY SMTT(30), <1>1, <2>2, <3>4 DEF worker_process_cmd
      <4>2. offline_counter' = 1 /\ ckpt_active' /\ ckpt_cmd' = c
        BY ZenonT(30), <1>1, <2>2, <3>4 DEF worker_process_cmd
      <4> QED BY SMTT(30), <1>2, <3>3, <3>4, <4>1, <4>2 DEF Online, Stopping
    <3>5. CASE cmd[c].type # "parser2worker_dump"
      <4>1. /\ \/ worker'.pc = "loop"
               \/ /\ worker'.pc = "handles" /\ worker'.cmd = c
                  /\ cmd[c].type = "parser2worker_predump"
            /\ offline_counter' = 0 /\ ~ckpt_active'
            /\ cmd' = cmd
        BY ZenonT(30), <1>1, <1>2, <2>2, <3>5 DEF worker_process_cmd, Inv,
           Online
      <4> QED BY SMTT(30), <3>2, <3>3, <4>1 DEF Online, Stopping
    <3> QED BY <3>4, <3>5
  <2> QED BY SMTT(30), <1>4, <2>1, <2>2 DEF Inv, HType, CType
<1> QED BY <1>3, <1>5, <1>6 DEF Inv

\* The second attempt begins when no caller waits: the RPC thread is idle.
LEMMA WorkerResumeInv == Inv /\ WorkerResume => Inv'
<1> SUFFICES ASSUME Inv, WorkerResume PROVE Inv'
  OBVIOUS
<1>1. /\ ckpt_cmd \in Cmds /\ ckpt_active /\ ~is_under_sync_call
      /\ worker.pc = "loop" /\ worker_process_cmd(ckpt_cmd)
  BY DEF WorkerResume, Inv, HType, WType
<1>2. UNCHANGED <<registered, is_under_sync_call, rpc, cmd_queues, cmd, oob>>
  BY DEF WorkerResume, rpc_vars
<1>3. HType'
  BY <1>1, <1>2 DEF worker_process_cmd, cmd_queues, Inv, HType, QType, WType,
     CType
<1>4. offline_counter # 0
  BY <1>1 DEF Inv, Online
<1>5. Rpc'
  BY <1>1, <1>2, <1>4 DEF worker_process_cmd, Inv, HType, CType, Rpc
<1>6. Online' /\ Stopping'
  BY Zenon, <1>1, <1>2, <1>4 DEF worker_process_cmd, cmd_queues, Inv, HType,
     QType, CType, WType, Rpc, Online, Stopping, Underway
<1> QED BY <1>3, <1>5, <1>6 DEF Inv

\* The end of an attempt: the confirmation, or a caller that comes first.
LEMMA AttemptInv == Inv /\ (Confirmed \/ Abandon) => Inv'
<1> SUFFICES ASSUME Inv, Confirmed \/ Abandon PROVE Inv'
  OBVIOUS
<1>1. /\ UNCHANGED <<registered, offline_counter, is_under_sync_call, rpc, cmd,
                     ckpt_active, ckpt_cmd, oob>>
      /\ UNCHANGED <<oob2parser_cmd_wq, oob2parser_cmd_cq,
                     parser2worker_cmd_wq, parser2worker_cmd_cq>>
  BY DEF Confirmed, Abandon, client, rpc_vars, cmd_queues
<1>2. CASE Confirmed
  <2>1. /\ offline_counter = 2 /\ worker.pc # "loop"
        /\ worker' = [worker EXCEPT !.pc = "handles"]
    BY <1>2 DEF Confirmed
  <2>2. WType'
    BY <1>1, <2>1 DEF Inv, HType, WType
  <2> QED
    BY <1>1, <2>1, <2>2 DEF Inv, HType, QType, CType, Rpc, Online, Stopping
<1>3. CASE Abandon
  <2>1. /\ offline_counter = 1 /\ is_under_sync_call
        /\ worker'.pc = "loop" /\ DOMAIN worker' = {"pc", "cmd", "max"}
    BY <1>3 DEF Abandon, Polling, Inv, HType, CType, Online
  <2>2. WType'
    BY SMTT(30), <1>1, <2>1 DEF Inv, HType, WType
  <2>3. Online' /\ Stopping'
    BY Zenon, <1>1, <2>1 DEF Inv, Rpc, Online, Stopping, Underway
  <2> QED BY <1>1, <2>2, <2>3 DEF Inv, HType, QType, CType, Rpc
<1> QED BY <1>2, <1>3

\* The reply to the command at hand.  Only that of a pre-dump goes out while
\* the client is online, and none while the worker waits.
LEMMA ReplyInv ==
  ASSUME Inv, NEW r \in {"success", "failed"}, reply_parser(r),
         worker.pc \in {"handles", "drain"},
         ckpt_active' \in BOOLEAN, ckpt_active' => ckpt_active,
         ckpt_active' => UNCHANGED ckpt_cmd,
         UNCHANGED <<client, rpc, oob2parser_cmd_wq, oob2parser_cmd_cq,
                     parser2worker_cmd_wq, oob>>
  PROVE  Inv'
<1>1. /\ worker.cmd \in Cmds /\ cmd \in [Cmds -> Cmd] /\ worker' = Polling
      /\ cmd' = [cmd EXCEPT ![worker.cmd].retval = r]
      /\ parser2worker_cmd_cq \in Seq(Cmds)
      /\ parser2worker_cmd_cq' = Append(parser2worker_cmd_cq, worker.cmd)
  BY DEF reply_parser, Inv, HType, WType, QType
<1>2. cmd' \in [Cmds -> Cmd] /\ \A c \in Cmds : cmd'[c].type = cmd[c].type
  BY ZenonT(30), <1>1 DEF Cmd
<1>3. HType'
  <2>1. QType'
    BY <1>1, <1>2 DEF Inv, HType, QType
  <2>2. WType' /\ CType'
    BY <1>1 DEF client, Polling, Inv, HType, WType, CType
  <2> QED BY <2>1, <2>2 DEF HType
<1>4. Rpc'
  BY DEF client, Inv, Rpc
<1>5. Online' /\ Stopping'
  BY <1>1, <1>2 DEF client, Polling, Inv, HType, QType, WType, CType, Online,
     Stopping, Underway
<1> QED BY SMTT(30), <1>3, <1>4, <1>5 DEF Inv

\* Checkpointing and draining.  The reply of a pre-dump ends its command; a
\* dump gets as far as this only after the confirmation.
LEMMA CheckpointInv ==
  ASSUME Inv, \/ CheckpointHandles \/ CheckpointFails
              \/ Drain \/ DrainFails \/ FinishDump
  PROVE  Inv'
<1>1. CASE CheckpointHandles
  <2>1. CASE cmd[worker.cmd].type = "parser2worker_predump"
    BY SMTT(30), <1>1, <2>1, ReplyInv DEF CheckpointHandles, rpc_vars, Inv,
       HType, WType
  <2>2. CASE cmd[worker.cmd].type # "parser2worker_predump"
    <3>1. /\ worker.pc = "handles" /\ worker' = [worker EXCEPT !.pc = "drain"]
          /\ UNCHANGED <<registered, offline_counter, is_under_sync_call, rpc,
                         cmd, ckpt_active, ckpt_cmd, oob, oob2parser_cmd_wq,
                         oob2parser_cmd_cq, parser2worker_cmd_wq,
                         parser2worker_cmd_cq>>
      BY <1>1, <2>2 DEF CheckpointHandles, client, rpc_vars
    <3>2. offline_counter = 2
      BY <2>2, <3>1 DEF Inv, HType, CType, Online, Stopping
    <3>3. WType'
      BY SMTT(30), <3>1 DEF Inv, HType, WType
    <3> QED
      BY SMTT(30), <3>1, <3>2, <3>3 DEF Inv, HType, QType, CType, Rpc, Online,
         Stopping
  <2> QED BY SMTT(30), <2>1, <2>2
<1>2. CASE CheckpointFails
  BY Zenon, <1>2, ReplyInv DEF CheckpointFails, rpc_vars, Inv, HType, WType
<1>3. CASE Drain
  <2>1. /\ worker'.pc = "drain" /\ worker'.cmd = worker.cmd
        /\ worker.pc = "drain" /\ DOMAIN worker' = {"pc", "cmd", "max"}
        /\ UNCHANGED <<registered, offline_counter, is_under_sync_call, rpc,
                       cmd, ckpt_active, ckpt_cmd, oob, oob2parser_cmd_wq,
                       oob2parser_cmd_cq, parser2worker_cmd_wq,
                       parser2worker_cmd_cq>>
    BY SMTT(30), <1>3 DEF Drain, client, rpc_vars, cmd_queues, Inv, HType, WType
  <2> QED BY <2>1 DEF Inv, HType, QType, WType, CType, Rpc, Online, Stopping
<1>4. CASE DrainFails
  BY Zenon, <1>4, ReplyInv DEF DrainFails, rpc_vars, Inv, HType, WType
<1>5. CASE FinishDump
  BY Zenon, <1>5, ReplyInv DEF FinishDump, rpc_vars, Inv, HType, WType
<1> QED BY SMTT(30), <1>1, <1>2, <1>3, <1>4, <1>5

-----------------------------------------------------------------------------
(* The OOB thread *)

\* A new request: the OOB thread has been answered, so before the
\* confirmation nothing is underway, and the worker is not waiting for it.
LEMMA RequestInv == ASSUME Inv, NEW dump \in BOOLEAN, Request(dump) PROVE Inv'
<1>1. PICK c \in Cmds :
        /\ oob.cmd = 0
        /\ cmd' = [cmd EXCEPT ![c].type = IF dump THEN "oob2parser_dump"
                                            ELSE "oob2parser_predump"]
        /\ oob2parser_cmd_wq' = Append(oob2parser_cmd_wq, c)
        /\ oob' = [cmd |-> c, dump |-> dump]
        /\ UNCHANGED <<registered, offline_counter, is_under_sync_call, rpc,
                       ckpt_active, ckpt_cmd, worker, oob2parser_cmd_cq,
                       parser2worker_cmd_wq, parser2worker_cmd_cq>>
  BY Zenon DEF Request, client, rpc_vars, worker_vars
<1>2. /\ cmd' \in [Cmds -> Cmd]
      /\ cmd'[c].type \in {"oob2parser_dump", "oob2parser_predump"}
  BY Zenon, <1>1 DEF Inv, HType, QType, Cmd
<1>3. QType'
  BY <1>1, <1>2 DEF Inv, HType, QType
<1>4. oob' \in [cmd : 0..MaxEvents, dump : BOOLEAN] /\ oob'.cmd = c /\ c # 0
  BY <1>1, BoundsAssumption DEF Cmds
<1>5. WType' /\ CType' /\ Rpc'
  BY <1>1, <1>4 DEF Inv, HType, WType, CType, Rpc
<1>6. Stopping' /\ offline_counter # 1
  BY <1>1 DEF Inv, Stopping
<1>7. Online'
  <2> SUFFICES ASSUME offline_counter = 0 PROVE Online'
    BY Zenon, <1>1 DEF Online
  <2>1. /\ Len(oob2parser_cmd_wq) \in Nat /\ Len(oob2parser_cmd_cq) \in Nat
        /\ Len(parser2worker_cmd_wq) \in Nat
        /\ Len(parser2worker_cmd_cq) \in Nat
    BY DEF Inv, HType, QType
  <2>2. /\ ~ckpt_active /\ worker.pc \in {"loop", "handles"}
        /\ Underway + (IF worker.pc = "loop" THEN 0 ELSE 1) <= 0
    BY <1>1 DEF Inv, Online
  <2>3. /\ worker.pc = "loop"
        /\ Len(oob2parser_cmd_wq) = 0 /\ Len(oob2parser_cmd_cq) = 0
        /\ Len(parser2worker_cmd_wq) = 0 /\ Len(parser2worker_cmd_cq) = 0
    BY <2>1, <2>2 DEF Underway
  <2>4. /\ oob2parser_cmd_wq = <<>> /\ oob2parser_cmd_cq = <<>>
        /\ parser2worker_cmd_wq = <<>> /\ parser2worker_cmd_cq = <<>>
    BY <2>3, EmptyQueue DEF Inv, HType, QType
  <2>5. oob2parser_cmd_wq' = <<c>> /\ Underway' = 1
    BY SMTT(30), <1>1, <2>4 DEF Underway
  <2> QED BY SMTT(30), <1>1, <1>2, <1>4, <2>2, <2>3, <2>4, <2>5 DEF Online
<1> QED BY SMTT(30), <1>3, <1>5, <1>6, <1>7 DEF Inv, HType

\* The answer takes the completions out; before the confirmation that was
\* the only command underway.
LEMMA AnswerInv == Inv /\ Answer => Inv'
<1> SUFFICES ASSUME Inv, Answer PROVE Inv'
  OBVIOUS
<1>1. /\ oob2parser_cmd_cq # <<>> /\ oob2parser_cmd_cq' = <<>>
      /\ oob' = NoRequest
      /\ UNCHANGED <<registered, offline_counter, is_under_sync_call, rpc, cmd,
                     ckpt_active, ckpt_cmd, worker, oob2parser_cmd_wq,
                     parser2worker_cmd_wq, parser2worker_cmd_cq>>
  BY DEF Answer, client, rpc_vars, worker_vars
<1>2. /\ Len(oob2parser_cmd_wq) \in Nat /\ Len(oob2parser_cmd_cq) \in Nat
      /\ Len(parser2worker_cmd_wq) \in Nat
      /\ Len(parser2worker_cmd_cq) \in Nat /\ Len(oob2parser_cmd_cq) >= 1
  BY SMTT(30), <1>1, EmptyQueue DEF Inv, HType, QType
<1>3. QType' /\ WType' /\ Rpc'
  BY <1>1 DEF Inv, HType, QType, WType, Rpc
<1>4. CType' /\ oob'.cmd = 0
  BY SMTT(30), <1>1, BoundsAssumption DEF Inv, HType, CType, NoRequest
<1>5. offline_counter # 1
  BY <1>2 DEF Inv, Stopping, Underway
<1>6. Online'
  <2> SUFFICES ASSUME offline_counter = 0 PROVE Online'
    BY Zenon, <1>1 DEF Online
  <2>0. /\ ~ckpt_active /\ worker.pc \in {"loop", "handles"}
        /\ Underway + (IF worker.pc = "loop" THEN 0 ELSE 1)
             <= IF oob.cmd = 0 THEN 0 ELSE 1
    BY DEF Inv, Online
  <2>1. /\ worker.pc \in {"loop", "handles"}
        /\ Len(oob2parser_cmd_wq) + Len(oob2parser_cmd_cq)
             + Len(parser2worker_cmd_wq) + Len(parser2worker_cmd_cq)
             + (IF worker.pc = "loop" THEN 0 ELSE 1) <= 1
    BY SMTT(30), <1>2, <2>0 DEF Underway
  <2>2. /\ worker.pc = "loop" /\ Len(oob2parser_cmd_wq) = 0
        /\ Len(parser2worker_cmd_wq) = 0 /\ Len(parser2worker_cmd_cq) = 0
    BY <1>2, <2>1
  <2>3. /\ oob2parser_cmd_wq = <<>> /\ parser2worker_cmd_wq = <<>>
        /\ parser2worker_cmd_cq = <<>>
    BY <2>2, EmptyQueue DEF Inv, HType, QType
  <2>4. Underway' = 0
    BY <1>1, <2>3 DEF Underway
  <2> QED BY <1>1, <1>4, <2>0, <2>2, <2>3, <2>4 DEF Online
<1> QED BY SMTT(30), <1>1, <1>3, <1>4, <1>5, <1>6 DEF Inv, HType, Stopping

\* A client is removed only after the confirmation: before it the completions
\* are of pre-dumps.  The RPC thread is idle.
LEMMA RemoveInv == Inv /\ AnswerAndRemove => Inv'
<1> SUFFICES ASSUME Inv, AnswerAndRemove PROVE Inv'
  OBVIOUS
<1>1. /\ oob2parser_cmd_cq # <<>> /\ oob2parser_cmd_cq' = <<>>
      /\ oob' = NoRequest /\ registered' = FALSE
      /\ cmd[Head(oob2parser_cmd_cq)].type = "oob2parser_dump"
      /\ UNCHANGED <<offline_counter, is_under_sync_call, rpc, cmd,
                     ckpt_active, ckpt_cmd, worker, oob2parser_cmd_wq,
                     parser2worker_cmd_wq, parser2worker_cmd_cq>>
  BY DEF AnswerAndRemove, Expected, Reply, rpc_vars, worker_vars
<1>2. offline_counter = 2
  <2>1. offline_counter # 0
    BY Zenon, <1>1 DEF Inv, Online
  <2>2. /\ Len(oob2parser_cmd_wq) \in Nat /\ Len(oob2parser_cmd_cq) >= 1
        /\ Len(parser2worker_cmd_wq) \in Nat
        /\ Len(parser2worker_cmd_cq) \in Nat
    BY SMTT(30), <1>1, EmptyQueue DEF Inv, HType, QType
  <2>3. offline_counter # 1
    BY <2>2 DEF Inv, Stopping, Underway
  <2> QED BY SMTT(30), <2>1, <2>3 DEF Inv, HType, CType
<1>3. QType' /\ WType'
  BY <1>1 DEF Inv, HType, QType, WType
<1>4. CType'
  <2>1. NoRequest \in [cmd : 0..MaxEvents, dump : BOOLEAN]
    BY SMTT(30), BoundsAssumption DEF NoRequest
  <2> QED BY ZenonT(30), <1>1, <2>1 DEF Inv, HType, CType
<1>5. Rpc' /\ Online' /\ Stopping'
  BY <1>1, <1>2 DEF Inv, Rpc, Online, Stopping
<1> QED BY SMTT(30), <1>3, <1>4, <1>5 DEF Inv, HType

\* A restored client starts online; the RPC thread has been idle since the
\* removal.
LEMMA RestoreInv == ASSUME Inv, NEW c \in Cmds, Restore(c) PROVE Inv'
<1>1. /\ oob.cmd = 0 /\ ~registered /\ registered' = TRUE
      /\ offline_counter' = 0 /\ is_under_sync_call' = FALSE
      /\ oob2parser_cmd_wq' = <<>> /\ oob2parser_cmd_cq' = <<>>
      /\ parser2worker_cmd_wq' = <<>> /\ parser2worker_cmd_cq' = <<>>
      /\ worker' = Polling /\ ckpt_active' = FALSE
      /\ UNCHANGED <<rpc, cmd, oob>>
  BY DEF Restore, rpc_vars
<1>2. /\ worker'.pc = "loop" /\ DOMAIN worker' = {"pc", "cmd", "max"}
      /\ Underway' = 0
  BY <1>1 DEF Polling, Underway
<1>3. QType'
  BY <1>1 DEF Inv, HType, QType
<1>4. WType'
  BY ZenonT(30), <1>1, <1>2 DEF WType
<1>5. CType' /\ Rpc'
  <2>1. rpc = "idle" /\ 0 \in 0..2
    BY <1>1 DEF Inv, Rpc
  <2>2. CType'
    BY ZenonT(30), <1>1, <2>1 DEF Inv, HType, CType
  <2>3. Rpc'
    BY SMTT(30), <1>1, <2>1 DEF Rpc
  <2> QED BY <2>2, <2>3
<1>6. Online' /\ Stopping'
  BY <1>1, <1>2 DEF Online, Stopping
<1> QED BY SMTT(30), <1>3, <1>4, <1>5, <1>6 DEF Inv, HType

-----------------------------------------------------------------------------
\* Every step of the four threads keeps the invariant.
LEMMA NextInv == Inv /\ [Next]_vars => Inv'
<1> SUFFICES ASSUME Inv, [Next]_vars PROVE Inv'
  OBVIOUS
<1>1. CASE RpcStep
  BY <1>1, LockInv, ConfirmInv, ServeInv DEF RpcStep
<1>2. CASE ParserStep
  BY SMTT(30), <1>2, ParseInv, ParserRequestInv, ParserReplyInv DEF ParserStep
<1>3. CASE WorkerStep
  BY SMTT(30), <1>3, CallsInv, WorkerRequestInv, WorkerResumeInv, AttemptInv,
     CheckpointInv DEF WorkerStep
<1>4. CASE OobStep
  BY <1>4, RequestInv, AnswerInv, RemoveInv, RestoreInv DEF OobStep
<1>5. CASE UNCHANGED vars
  <2>1. UNCHANGED hvars
    BY <1>5 DEF vars, client, rpc_vars, cmd_queues, worker_vars, hvars
  <2> QED BY <2>1, SameInv
<1> QED BY SMTT(30), <1>1, <1>2, <1>3, <1>4, <1>5 DEF Next

\* The handshake invariant holds in every reachable state.
THEOREM Invariance == Spec => []Inv
BY InitInv, NextInv, PTL DEF Spec

\* The worker's assertion never fails: in its second attempt to stop the
\* client no caller is in a synchronous call, whatever the application does.
THEOREM NeverSyncWhileConfirming == Spec => []NoSyncWhileConfirming
<1>1. Inv => NoSyncWhileConfirming
  BY DEF Inv, HType, CType, Rpc, Online, Stopping, NoSyncWhileConfirming
<1> QED BY <1>1, Invariance, PTL

\* The client never disappears under a caller: from the confirmation on, and
\* as long as the client is removed, the RPC thread is idle.
THEOREM NeverRemovedUnderCaller == Spec => []NoCallerAtRemoval
<1>1. Inv => NoCallerAtRemoval
  BY DEF Inv, Rpc, NoCallerAtRemoval
<1> QED BY <1>1, Invariance, PTL

----------------------------------------------------------------------------
(* Sequences of calls *)

\* From here on, a leaf that does not say otherwise is Zenon's.
USE Zenon

Before(A, B) == \A x \in A, y \in B : x < y
Distinct(s) == \A j, k \in DOMAIN s : j # k => s[j] # s[k]

\* The empty queue.
LEMMA EmptyRange == Range(<<>>) = {} /\ Increasing(<<>>) /\ Distinct(<<>>)
BY SMT DEF Range, Increasing, Distinct

\* The members of a queue.
LEMMA SeqRange ==
    ASSUME NEW S, NEW s \in Seq(S)
    PROVE  Range(s) \subseteq S /\ (Range(s) = {} => s = <<>>)
<1>1. DOMAIN s = 1 .. Len(s) /\ Len(s) \in Nat
  BY SMT
<1>2. \A i \in DOMAIN s : s[i] \in S
  BY SMT
<1>3. ASSUME Range(s) = {} PROVE s = <<>>
  <2>1. 1 \notin DOMAIN s
    BY <1>3 DEF Range
  <2>2. Len(s) = 0
    BY SMT, <2>1, <1>1
  <2> QED BY SMT, <2>2
<1> QED BY <1>2, <1>3 DEF Range

\* Taking the head.
LEMMA TailOf ==
    ASSUME NEW S, NEW s \in Seq(S), s # <<>>
    PROVE  /\ Head(s) \in S /\ Tail(s) \in Seq(S)
           /\ Range(s) = {Head(s)} \cup Range(Tail(s))
<1>1. /\ Head(s) \in S /\ Tail(s) \in Seq(S) /\ Len(Tail(s)) = Len(s) - 1
      /\ Len(s) \in Nat /\ Len(s) > 0
      /\ \A i \in 1 .. Len(Tail(s)) : Tail(s)[i] = s[i + 1]
      /\ Head(s) = s[1]
  BY SMT
<1>2. PICK n \in Nat : n = Len(s) /\ n > 0
  BY <1>1
<1>3. PICK t : t = Tail(s)
  OBVIOUS
<1>4. /\ DOMAIN s = 1 .. n /\ DOMAIN t = 1 .. (n - 1)
      /\ \A i \in 1 .. (n - 1) : t[i] = s[i + 1]
  BY SMT, <1>1, <1>2, <1>3
<1>5. ASSUME NEW i \in 1 .. n PROVE s[i] \in {s[1]} \cup Range(t)
  <2>1. CASE i = 1
    BY <2>1
  <2>2. CASE i # 1
    <3>1. i - 1 \in 1 .. (n - 1) /\ (i - 1) + 1 = i
      BY SMT, <2>2, <1>2
    <3>2. t[i - 1] = s[i]
      BY SMT, <3>1, <1>4
    <3>3. t[i - 1] \in Range(t)
      BY <3>1, <1>4 DEF Range
    <3> QED BY <3>2, <3>3
  <2> QED BY <2>1, <2>2
<1>6. ASSUME NEW i \in 1 .. (n - 1) PROVE t[i] \in Range(s)
  <2>1. i + 1 \in 1 .. n
    BY SMT, <1>2
  <2> QED BY <2>1, <1>4 DEF Range
<1>7. s[1] \in Range(s)
  <2>1. 1 \in 1 .. n
    BY SMT, <1>2
  <2> QED BY <2>1, <1>4 DEF Range
<1>8. Range(s) \subseteq {s[1]} \cup Range(t)
  BY <1>4, <1>5 DEF Range
<1>9. Range(t) \subseteq Range(s)
  BY <1>4, <1>6 DEF Range
<1> QED BY <1>1, <1>3, <1>7, <1>8, <1>9

\* The head of an increasing queue comes before the rest.
LEMMA IncreasingTail ==
    ASSUME NEW s \in Seq(Calls), s # <<>>, Increasing(s)
    PROVE  Increasing(Tail(s)) /\ Before({Head(s)}, Range(Tail(s)))
<1>1. /\ Len(Tail(s)) = Len(s) - 1 /\ Len(s) \in Nat /\ Len(s) > 0
      /\ \A i \in 1 .. Len(Tail(s)) : Tail(s)[i] = s[i + 1]
      /\ Head(s) = s[1] /\ Tail(s) \in Seq(Calls)
  BY SMT
<1>2. PICK n \in Nat, t \in Seq(Calls) : n = Len(s) /\ n > 0 /\ t = Tail(s)
  BY <1>1
<1>3. /\ DOMAIN s = 1 .. n /\ DOMAIN t = 1 .. (n - 1)
      /\ \A i \in 1 .. (n - 1) : t[i] = s[i + 1]
  BY SMT, <1>1, <1>2
<1>4. \A j, k \in 1 .. n : j < k => s[j] < s[k]
  BY <1>3 DEF Increasing
<1>5. ASSUME NEW j \in 1 .. (n - 1), NEW k \in 1 .. (n - 1), j < k
      PROVE  t[j] < t[k]
  <2>1. j + 1 \in 1 .. n /\ k + 1 \in 1 .. n /\ j + 1 < k + 1
    BY SMT, <1>5, <1>2
  <2> QED BY <2>1, <1>3, <1>4
<1>6. ASSUME NEW k \in 1 .. (n - 1) PROVE s[1] < t[k]
  <2>1. 1 \in 1 .. n /\ k + 1 \in 1 .. n /\ 1 < k + 1
    BY SMT, <1>2
  <2> QED BY <2>1, <1>3, <1>4
<1> QED BY <1>1, <1>2, <1>3, <1>5, <1>6 DEF Increasing, Before, Range

\* The head of a queue without repetition is not in the rest.
LEMMA DistinctTail ==
    ASSUME NEW s \in Seq(Calls), s # <<>>, Distinct(s)
    PROVE  Distinct(Tail(s)) /\ Head(s) \notin Range(Tail(s))
<1>1. /\ Len(Tail(s)) = Len(s) - 1 /\ Len(s) \in Nat /\ Len(s) > 0
      /\ \A i \in 1 .. Len(Tail(s)) : Tail(s)[i] = s[i + 1]
      /\ Head(s) = s[1] /\ Tail(s) \in Seq(Calls)
  BY SMT
<1>2. PICK n \in Nat, t \in Seq(Calls) : n = Len(s) /\ n > 0 /\ t = Tail(s)
  BY <1>1
<1>3. /\ DOMAIN s = 1 .. n /\ DOMAIN t = 1 .. (n - 1)
      /\ \A i \in 1 .. (n - 1) : t[i] = s[i + 1]
  BY SMT, <1>1, <1>2
<1>4. \A j, k \in 1 .. n : j # k => s[j] # s[k]
  BY <1>3 DEF Distinct
<1>5. ASSUME NEW j \in 1 .. (n - 1), NEW k \in 1 .. (n - 1), j # k
      PROVE  t[j] # t[k]
  <2>1. j + 1 \in 1 .. n /\ k + 1 \in 1 .. n /\ j + 1 # k + 1
    BY SMT, <1>5, <1>2
  <2> QED BY <2>1, <1>3, <1>4
<1>6. ASSUME NEW k \in 1 .. (n - 1) PROVE s[1] # t[k]
  <2>1. 1 \in 1 .. n /\ k + 1 \in 1 .. n /\ 1 # k + 1
    BY SMT, <1>2
  <2> QED BY <2>1, <1>3, <1>4
<1>7. Distinct(t)
  BY <1>3, <1>5 DEF Distinct
<1>8. s[1] \notin Range(t)
  BY <1>3, <1>6 DEF Range
<1> QED BY <1>1, <1>2, <1>7, <1>8

\* Appending.
LEMMA AppendOf ==
    ASSUME NEW S, NEW s \in Seq(S), NEW x \in S
    PROVE  Append(s, x) \in Seq(S) /\ Range(Append(s, x)) = Range(s) \cup {x}
<1>1. PICK n \in Nat : n = Len(s)
  BY SMT
<1>2. PICK t : t = Append(s, x)
  OBVIOUS
<1>3. /\ t \in Seq(S) /\ DOMAIN s = 1 .. n /\ DOMAIN t = 1 .. (n + 1)
      /\ \A i \in 1 .. n : t[i] = s[i]
      /\ t[n + 1] = x
  BY SMT, <1>1, <1>2
<1>4. \A i : i \in 1 .. (n + 1) <=> i \in 1 .. n \/ i = n + 1
  BY SMT
<1> QED BY <1>2, <1>3, <1>4 DEF Range

\* Appending a later call keeps the order.
LEMMA IncreasingAppend ==
    ASSUME NEW s \in Seq(Calls), NEW x \in Calls, Increasing(s),
           Before(Range(s), {x})
    PROVE  Increasing(Append(s, x))
<1>1. PICK n \in Nat : n = Len(s)
  BY SMT
<1>2. PICK t : t = Append(s, x)
  OBVIOUS
<1>3. /\ DOMAIN s = 1 .. n /\ DOMAIN t = 1 .. (n + 1)
      /\ \A i \in 1 .. n : t[i] = s[i]
      /\ t[n + 1] = x
  BY SMT, <1>1, <1>2
<1>4. \A i \in 1 .. n : s[i] < x
  BY <1>3 DEF Before, Range
<1>5. ASSUME NEW j \in 1 .. (n + 1), NEW k \in 1 .. (n + 1), j < k
      PROVE  t[j] < t[k]
  <2>1. j \in 1 .. n
    BY SMT, <1>5
  <2>2. CASE k = n + 1
    BY <2>1, <2>2, <1>3, <1>4
  <2>3. CASE k \in 1 .. n
    BY <2>1, <2>3, <1>3, <1>5 DEF Increasing
  <2>4. k = n + 1 \/ k \in 1 .. n
    BY SMT
  <2> QED BY <2>2, <2>3, <2>4
<1> QED BY <1>2, <1>3, <1>5 DEF Increasing

\* Appending a call that is not in the queue.
LEMMA DistinctAppend ==
    ASSUME NEW s \in Seq(Calls), NEW x \in Calls, Distinct(s), x \notin Range(s)
    PROVE  Distinct(Append(s, x))
<1>1. PICK n \in Nat : n = Len(s)
  BY SMT
<1>2. PICK t : t = Append(s, x)
  OBVIOUS
<1>3. /\ DOMAIN s = 1 .. n /\ DOMAIN t = 1 .. (n + 1)
      /\ \A i \in 1 .. n : t[i] = s[i]
      /\ t[n + 1] = x
  BY SMT, <1>1, <1>2
<1>4. \A i \in 1 .. n : s[i] # x
  BY <1>3 DEF Range
<1>5. \A i \in 1 .. (n + 1) : i \in 1 .. n \/ i = n + 1
  BY SMT
<1>6. ASSUME NEW j \in 1 .. (n + 1), NEW k \in 1 .. (n + 1), j # k
      PROVE  t[j] # t[k]
  <2>1. CASE j \in 1 .. n /\ k \in 1 .. n
    BY <2>1, <1>3, <1>6 DEF Distinct
  <2>2. CASE j = n + 1 /\ k \in 1 .. n
    BY <2>2, <1>3, <1>4
  <2>3. CASE j \in 1 .. n /\ k = n + 1
    BY <2>3, <1>3, <1>4
  <2> QED BY <2>1, <2>2, <2>3, <1>5, <1>6
<1> QED BY <1>2, <1>3, <1>6 DEF Distinct

----------------------------------------------------------------------------
(* The numbers of calls *)

NatLess == {x \in Nat \X Nat : x[1] < x[2]}

\* A set of naturals that is not empty has a least element.
LEMMA Least ==
    ASSUME NEW T, T \subseteq Nat, T # {}
    PROVE  \E x \in T : \A y \in T : x <= y
<1>1. IsWellFoundedOn(NatLess, Nat)
  BY NatLessThanWellFounded DEF OpToRel, NatLess
<1>2. PICK x \in T : \A y \in T : <<y, x>> \notin NatLess
  BY <1>1, WFMin
<1>3. ASSUME NEW y \in T PROVE x <= y
  <2>1. <<y, x>> \notin NatLess
    BY <1>2
  <2>2. ~(y < x)
    BY SMT, <2>1 DEF NatLess
  <2> QED BY SMT, <2>2
<1> QED BY <1>3

\* ... and one with a bound has a greatest.
LEMMA Greatest ==
    ASSUME NEW T, T \subseteq Nat, T # {}, NEW n \in Nat, \A x \in T : x <= n
    PROVE  \E x \in T : \A y \in T : y <= x
<1>1. PICK D : D = {n - x : x \in T}
  OBVIOUS
<1>2. D \subseteq Nat /\ D # {}
  <2>1. \A x \in T : n - x \in Nat
    BY SMT
  <2> QED BY <2>1, <1>1
<1>3. PICK d \in D : \A e \in D : d <= e
  BY <1>2, Least
<1>4. PICK x \in T : d = n - x
  BY <1>1
<1>5. ASSUME NEW y \in T PROVE y <= x
  <2>1. n - y \in D
    BY <1>1
  <2>2. d <= n - y
    BY <2>1, <1>3
  <2> QED BY SMT, <2>2, <1>4
<1> QED BY <1>5

\* Calls are numbers.
LEMMA CallNumbers ==
    /\ FirstCall \in Nat /\ LastCall \in Nat /\ MaxCalls \in Nat
    /\ FirstCall <= LastCall /\ MaxCalls <= LastCall
    /\ \A i \in Calls : i \in Nat /\ i <= LastCall
    /\ FirstCall \in Calls /\ 0 \in Calls
BY SMT, BoundsAssumption DEF Calls, LastCall

\* restore_apicxts pushes the calls of the directory, none of them twice.
LEMMA BijectionOf ==
    ASSUME NEW S \in SUBSET Calls, NEW s \in Bijection(1..Cardinality(S), S)
    PROVE  s \in Seq(Calls) /\ Range(s) = S /\ Distinct(s)
<1>1. Cardinality(S) \in Nat
  <2>1. IsFiniteSet(Calls)
    <3>1. 0 \in Int /\ LastCall \in Int
      BY SMT, CallNumbers
    <3> QED BY Zenon, <3>1, FS_Interval DEF Calls
  <2>2. IsFiniteSet(S)
    BY <2>1, FS_Subset
  <2> QED BY <2>2, FS_CardinalityType
<1>2. PICK n \in Nat : n = Cardinality(S)
  BY <1>1
<1>3. /\ s \in [1..n -> S]
      /\ \A j, k \in 1..n : s[j] = s[k] => j = k
      /\ \A x \in S : \E j \in 1..n : s[j] = x
  BY <1>2 DEF Bijection, Injection, Surjection, IsInjective
<1>4. s \in Seq(Calls)
  BY SMT, <1>3
<1>5. DOMAIN s = 1..n /\ \A j \in 1..n : s[j] \in S
  BY <1>3
<1>6. Range(s) = S
  <2>1. Range(s) \subseteq S
    BY Zenon, <1>5 DEF Range
  <2>2. \A x \in S : x \in Range(s)
    BY Zenon, <1>3, <1>5 DEF Range
  <2> QED BY <2>1, <2>2
<1>7. Distinct(s)
  BY Zenon, <1>3, <1>5 DEF Distinct
<1> QED BY <1>4, <1>6, <1>7

----------------------------------------------------------------------------
(* Types *)

\* There is no handle to launch anything on when call 0 is issued.
CallTypes ==
    /\ api_inst_pc \in 0..(LastCall + 1)
    /\ rpc = "locked" => api_inst_pc <= LastCall
    /\ call \in [Calls -> Call] /\ call[0].kind # "launch"
    /\ cqes \in Seq(Calls) /\ has_prev_error \in BOOLEAN
    /\ retval \in {"success", "failed"}
QueueTypes ==
    /\ rpc2parser_wq \in Seq(Calls) /\ rpc2parser_cq \in Seq(Calls)
    /\ parser2worker_wq \in Seq(Calls) /\ rpc2worker_cq \in Seq(Calls)
    /\ wqes \in Seq(Calls) /\ max_wqe_id \in 0..LastCall
HandleTypes ==
    /\ handle_status \in [Handles -> {"none", "pending", "active", "unmapped"}]
    /\ contents \in [Handles -> Seq(Calls)]
WorkerTypes ==
    /\ worker \in [pc : {"loop", "first", "again", "handles", "drain"},
                   cmd : 0..MaxEvents, max : 0..LastCall]
    /\ ckpt_cmd \in 0..MaxEvents
FileTypes ==
    /\ DOMAIN files = Cmds
    /\ \A c \in Cmds : IsCkpt(files[c]) /\ files[c].call[0].kind # "launch"
FaultTypes == faults \in 0..MaxEvents /\ crashed \in BOOLEAN

Types == /\ CallTypes /\ QueueTypes /\ HandleTypes /\ WorkerTypes
         /\ FileTypes /\ FaultTypes

\* Together with the handshake, the types are those of the model.
LEMMA AllTypes == Inv /\ Types => TypeOK
BY DEF Inv, HType, QType, WType, CType, Types, CallTypes, QueueTypes,
   HandleTypes, WorkerTypes, FileTypes, FaultTypes, TypeOK

\* What the queues and counters are reset to.
LEMMA EmptyCalls == <<>> \in Seq(Calls) /\ 0 \in 0..LastCall
BY SMT, CallNumbers

\* The types hold at the start.
LEMMA InitTypes == Init => Types
<1> SUFFICES ASSUME Init PROVE Types
  OBVIOUS
<1>1. CallTypes
  <2>1. api_inst_pc \in 0..(LastCall + 1) /\ rpc # "locked"
    BY SMT, CallNumbers DEF Init, NewClient, OldClient
  <2>2. NoCall \in Call /\ NoCall.kind # "launch"
    BY SMT DEF Call, Kinds, NoCall
  <2>3. PICK first : first = [kind |-> "malloc", handle |-> 0,
                              status |-> "after_parse", has_return |-> TRUE]
    OBVIOUS
  <2>4. first \in Call /\ first.kind # "launch"
    BY SMT, <2>3, HandlesAssumption DEF Call, Kinds
  <2>5. \/ call = [i \in Calls |-> NoCall]
        \/ call = [i \in Calls |-> IF i = FirstCall THEN first ELSE NoCall]
    BY <2>3 DEF Init, NewClient, OldClient
  <2>6. call \in [Calls -> Call] /\ call[0].kind # "launch"
    BY <2>2, <2>4, <2>5, CallNumbers
  <2> QED BY <2>1, <2>6, EmptyCalls DEF Init, CallTypes
<1>2. QueueTypes
  BY SMT, EmptyCalls, CallNumbers DEF Init, NewClient, OldClient, QueueTypes
<1>3. HandleTypes
  BY SMTT(30), EmptyCalls DEF Init, NewClient, OldClient, HandleTypes
<1>4. WorkerTypes
  BY SMT, EmptyCalls, BoundsAssumption DEF Init, WorkerTypes, Polling
<1>5. FileTypes
  <2>1. IsCkpt(NoFiles) /\ NoFiles.call[0].kind # "launch"
    BY SMT, CallNumbers DEF IsCkpt, NoFiles, NotSaved, NoCall, Call
  <2>2. DOMAIN files = Cmds /\ \A c \in Cmds : files[c] = NoFiles
    BY DEF Init
  <2> QED BY <2>1, <2>2 DEF FileTypes
<1>6. FaultTypes
  <2>1. 0 \in 0..MaxEvents
    BY SMT, BoundsAssumption
  <2> QED BY <2>1 DEF Init, FaultTypes
<1> QED BY <1>1, <1>2, <1>3, <1>4, <1>5, <1>6 DEF Types

\* A failure is one of the events of the bound.
LEMMA FailTypes ==
    ASSUME Inv, faults \in 0..MaxEvents, Fail PROVE faults' \in 0..MaxEvents
<1>1. PICK n \in 0..MaxEvents : faults + n < MaxEvents /\ faults' = faults + 1
  BY DEF Fail
<1> QED BY SMT, <1>1, BoundsAssumption

\* The RPC thread: try_lock_client sees to it that there is a next number.
LEMMA RpcTypes == ASSUME Inv, Types, RpcStep PROVE Types'
<1>1. CASE try_lock_client
  <2>1. /\ UNCHANGED <<api_inst_pc, call, cqes, has_prev_error, retval,
                       api_queues, handles, worker_vars, files, faults, crashed>>
        /\ api_inst_pc < MaxCalls \/ api_inst_pc \in (FirstCall + 1)..LastCall
    BY <1>1 DEF try_lock_client, client
  <2>2. api_inst_pc <= LastCall
    BY SMT, <2>1, CallNumbers DEF Types, CallTypes
  <2> QED BY <2>1, <2>2 DEF api_queues, handles, worker_vars,
     Types, CallTypes, QueueTypes, HandleTypes, WorkerTypes, FileTypes,
     FaultTypes
<1>2. CASE ConfirmOffline
  BY <1>2 DEF ConfirmOffline, rpc_vars, api_queues, handles, worker_vars,
     Types, CallTypes, QueueTypes, HandleTypes, WorkerTypes, FileTypes,
     FaultTypes
<1>3. CASE MarkSync \/ PollParser \/ PollWorker
  <2>1. UNCHANGED <<api_inst_pc, call, rpc2parser_wq, parser2worker_wq, handles,
                    worker_vars, files, faults, crashed>>
    BY <1>3 DEF MarkSync, PollParser, PollWorker, client, api_queues
  <2>2. /\ rpc' # "locked"
        /\ cqes' \in {<<>>, cqes \o rpc2parser_cq}
        /\ rpc2parser_cq' \in {<<>>, rpc2parser_cq}
        /\ rpc2worker_cq' \in {<<>>, rpc2worker_cq}
        /\ has_prev_error' \in BOOLEAN
        /\ retval' \in {"success", "failed"}
    <3>1. has_prev_error \in BOOLEAN /\ retval \in {"success", "failed"}
      BY DEF Types, CallTypes
    <3>2. CASE MarkSync
      BY <3>1, <3>2 DEF MarkSync, api_queues
    <3>3. CASE PollParser
      BY SMT, <3>1, <3>3 DEF PollParser
    <3>4. CASE PollWorker
      <4>1. rpc' \in {"idle", "waiting"}
        BY <3>4 DEF PollWorker
      <4>2. /\ cqes' = <<>> /\ rpc2parser_cq' = rpc2parser_cq
            /\ rpc2worker_cq' = <<>>
        BY <3>4 DEF PollWorker
      <4>3. has_prev_error' \in BOOLEAN /\ retval' \in {"success", "failed"}
        BY <3>1, <3>4 DEF PollWorker
      <4>4. rpc' # "locked"
        BY SMT, <4>1
      <4> QED BY <4>2, <4>3, <4>4
    <3> QED BY <1>3, <3>2, <3>3, <3>4
  <2>3. cqes \o rpc2parser_cq \in Seq(Calls)
    <3>1. cqes \in Seq(Calls) /\ rpc2parser_cq \in Seq(Calls)
      BY DEF Types, CallTypes, QueueTypes
    <3> QED BY SMT, <3>1
  <2> QED BY <2>1, <2>2, <2>3, EmptyCalls DEF handles, worker_vars,
     Types, CallTypes, QueueTypes, HandleTypes, WorkerTypes, FileTypes,
     FaultTypes
<1>4. ASSUME NEW kind \in Kinds, NEW h \in Handles \cup {NoHandle},
             Issue(kind, h)
      PROVE  Types'
  <2>1. /\ UNCHANGED <<cqes, has_prev_error, retval, rpc2parser_cq,
                    parser2worker_wq, rpc2worker_cq, handles, worker_vars,
                    files, faults, crashed>>
        /\ rpc = "locked" /\ api_inst_pc' = api_inst_pc + 1
        /\ rpc2parser_wq' = Append(rpc2parser_wq, api_inst_pc)
    BY <1>4 DEF Issue
  <2>2. api_inst_pc \in Calls
    BY SMT, <2>1, CallNumbers DEF Types, CallTypes, Calls
  <2>3. call' \in [Calls -> Call]
    <3>1. [NoCall EXCEPT !.kind = kind, !.handle = h] \in Call
      BY DEF NoCall, Call
    <3>2. call \in [Calls -> Call]
      BY DEF Types, CallTypes
    <3>3. call' = [call EXCEPT ![api_inst_pc] =
                     [NoCall EXCEPT !.kind = kind, !.handle = h]]
      BY <1>4 DEF Issue
    <3> QED BY <3>1, <3>2, <3>3
  <2>4. rpc' # "locked"
    BY SMT, <1>4 DEF Issue
  <2>5. api_inst_pc' \in 0..(LastCall + 1)
    BY SMT, <2>1, <2>2, CallNumbers DEF Calls
  <2>7. call'[0].kind # "launch"
    <3>1. CASE api_inst_pc = 0
      <4>1. Known = {}
        BY SMT, <3>1 DEF Known
      <4>2. kind # "launch"
        BY SMT, <4>1, <1>4 DEF Issue
      <4>3. call'[0] = [NoCall EXCEPT !.kind = kind, !.handle = h]
        BY <3>1, <1>4, CallNumbers DEF Issue, Types, CallTypes
      <4> QED BY <4>2, <4>3 DEF NoCall
    <3>2. CASE api_inst_pc # 0
      BY <3>2, <1>4, CallNumbers DEF Issue, Types, CallTypes
    <3> QED BY <3>1, <3>2
  <2>6. rpc2parser_wq' \in Seq(Calls)
    BY <2>1, <2>2, AppendOf DEF Types, QueueTypes
  <2> QED BY <2>1, <2>3, <2>4, <2>5, <2>6, <2>7 DEF handles, worker_vars,
     Types, CallTypes, QueueTypes, HandleTypes, WorkerTypes, FileTypes,
     FaultTypes
<1> QED BY <1>1, <1>2, <1>3, <1>4 DEF RpcStep, Serve

\* What the parser makes of a call, and of a handle.
LEMMA CallParsed ==
    ASSUME Inv, Types, Parse \/ ParseFails
    PROVE  /\ call' \in [Calls -> Call] /\ call'[0].kind # "launch"
           /\ HandleTypes'
<1>1. PICK i : i = Head(rpc2parser_wq)
  OBVIOUS
<1>2. /\ i \in Calls /\ call \in [Calls -> Call] /\ call[i] \in Call
      /\ handle_status \in
            [Handles -> {"none", "pending", "active", "unmapped"}]
  <2>1. rpc2parser_wq \in Seq(Calls) /\ rpc2parser_wq # <<>>
    BY DEF Parse, ParseFails, Types, QueueTypes
  <2> QED BY <2>1, <1>1, TailOf DEF Types, CallTypes, HandleTypes
<1>3. CASE ParseFails
  <2>1. call' = [call EXCEPT ![i].status = "parser_failed"]
    BY <1>1, <1>3 DEF ParseFails
  <2>2. /\ call' \in [Calls -> Call]
        /\ \A j \in Calls : call'[j].kind = call[j].kind
    BY SMT, <2>1, <1>2 DEF Call
  <2>3. call'[0].kind # "launch"
    BY <2>2, CallNumbers DEF Types, CallTypes
  <2> QED BY <1>3, <2>2, <2>3 DEF ParseFails, Types, HandleTypes, handles
<1>4. CASE Parse
  <2>1. PICK kind, h : /\ kind = call[i].kind
                       /\ h = IF kind = "malloc" THEN NextHandle
                                ELSE call[i].handle
    OBVIOUS
  <2>2. /\ call' = [call EXCEPT ![i] = [kind |-> kind, handle |-> h,
              status |-> CASE kind = "malloc" -> "after_parse"
                           [] kind = "query" -> "without_worker"
                           [] OTHER -> "init",
              has_return |-> kind \in {"malloc", "query"}]]
        /\ handle_status' = IF kind = "malloc"
             THEN [handle_status EXCEPT ![h] = "pending"] ELSE handle_status
        /\ contents' = contents /\ Parsable(i)
    BY <1>1, <1>4, <2>1 DEF Parse
  <2>3. kind \in Kinds \cup {"none"} /\ h \in Handles \cup {NoHandle}
    BY SMT, <2>1, <2>2, <1>2 DEF Parsable, Call
  <2>4. PICK st : st = CASE kind = "malloc" -> "after_parse"
                         [] kind = "query" -> "without_worker"
                         [] OTHER -> "init"
    OBVIOUS
  <2>5. st \in {"after_parse", "without_worker", "init"}
    BY SMT, <2>4
  <2>6. PICK r \in BOOLEAN : r = (kind \in {"malloc", "query"})
    <3>1. (kind \in {"malloc", "query"}) \in BOOLEAN
      BY SMT
    <3> QED BY <3>1
  <2>7. PICK new : new = [kind |-> kind, handle |-> h, status |-> st,
                          has_return |-> r]
    OBVIOUS
  <2>8. new \in Call
    BY SMT, <2>3, <2>5, <2>6, <2>7 DEF Call
  <2>9. call' = [call EXCEPT ![i] = new]
    BY <2>2, <2>4, <2>6, <2>7
  <2>10. call' \in [Calls -> Call]
    BY <2>8, <2>9, <1>2
  <2>12. call'[0].kind # "launch"
    <3>1. call'[0] = IF i = 0 THEN new ELSE call[0]
      BY <2>9, <1>2, CallNumbers
    <3>2. new.kind = call[i].kind
      BY SMT, <2>1, <2>7
    <3> QED BY <3>1, <3>2 DEF Types, CallTypes
  <2>11. handle_status' \in
            [Handles -> {"none", "pending", "active", "unmapped"}]
    BY <2>2, <1>2
  <2> QED BY <2>2, <2>10, <2>11, <2>12 DEF Types, HandleTypes
<1> QED BY <1>3, <1>4

\* The parser thread.
LEMMA ParserTypes == ASSUME Inv, Types, ParserStep PROVE Types'
<1>1. CASE Parse \/ ParseFails
  <2>1. /\ UNCHANGED <<api_inst_pc, rpc_vars, rpc2worker_cq, worker_vars, files,
                       crashed>>
        /\ rpc2parser_wq # <<>> /\ rpc2parser_wq' = Tail(rpc2parser_wq)
        /\ rpc2parser_cq' \in
              {rpc2parser_cq, Append(rpc2parser_cq, Head(rpc2parser_wq))}
        /\ parser2worker_wq' \in
              {parser2worker_wq, Append(parser2worker_wq, Head(rpc2parser_wq))}
        /\ faults' = faults \/ Fail
    BY <1>1 DEF Parse, ParseFails, client
  <2>2. Head(rpc2parser_wq) \in Calls /\ Tail(rpc2parser_wq) \in Seq(Calls)
    BY <2>1, TailOf DEF Types, QueueTypes
  <2>3. \A s \in Seq(Calls) : Append(s, Head(rpc2parser_wq)) \in Seq(Calls)
    BY <2>2, AppendOf
  <2>4. QueueTypes'
    BY <2>1, <2>2, <2>3 DEF worker_vars, Types, QueueTypes
  <2>5. faults' \in 0..MaxEvents
    BY <2>1, FailTypes DEF Types, FaultTypes
  <2> QED BY <2>1, <2>4, <2>5, <1>1, CallParsed DEF rpc_vars,
     worker_vars, Types, CallTypes, WorkerTypes, FileTypes, FaultTypes
<1>2. CASE ParserRequest \/ ParserReply
  BY <1>2 DEF ParserRequest, ParserReply, client, rpc_vars, api_queues,
     handles, worker_vars, Types, CallTypes, QueueTypes, HandleTypes,
     WorkerTypes, FileTypes, FaultTypes
<1> QED BY <1>1, <1>2 DEF ParserStep

\* What running a call makes of it, and of its handle.
LEMMA CallRun ==
    ASSUME Inv, Types, NEW ok \in BOOLEAN, Execute(ok)
    PROVE  /\ call' \in [Calls -> Call] /\ call'[0].kind # "launch"
           /\ HandleTypes'
<1>1. PICK i : i = Head(wqes)
  OBVIOUS
<1>2. /\ i \in Calls /\ call \in [Calls -> Call] /\ call[i] \in Call
      /\ handle_status \in
            [Handles -> {"none", "pending", "active", "unmapped"}]
      /\ contents \in [Handles -> Seq(Calls)]
  <2>1. wqes \in Seq(Calls) /\ wqes # <<>>
    BY DEF Execute, Types, QueueTypes
  <2> QED BY <2>1, <1>1, TailOf DEF Types, CallTypes, HandleTypes
<1>3. /\ call' = [call EXCEPT
                    ![i].status = IF ok THEN @ ELSE "worker_failed",
                    ![i].has_return = TRUE]
      /\ Run(i, ok)
  BY <1>1 DEF Execute
<1>4. call' \in [Calls -> Call] /\ call'[0].kind # "launch"
  <2>1. /\ call' \in [Calls -> Call]
        /\ \A j \in Calls : call'[j].kind = call[j].kind
    BY <1>2, <1>3 DEF Call
  <2> QED BY <2>1, CallNumbers DEF Types, CallTypes
<1>5. handle_status' \in [Handles -> {"none", "pending", "active", "unmapped"}]
  BY <1>2, <1>3 DEF Run
<1>6. contents' \in [Handles -> Seq(Calls)]
  <2>1. \A s \in Seq(Calls) : Append(s, i) \in Seq(Calls)
    BY <1>2, AppendOf
  <2>2. PICK h : contents' \in {contents,
                                [contents EXCEPT ![h] = Append(@, i)]}
    BY <1>3 DEF Run
  <2>3. DOMAIN contents' = Handles
    BY <2>2, <1>2
  <2>4. ASSUME NEW x \in Handles PROVE contents'[x] \in Seq(Calls)
    <3>1. contents[x] \in Seq(Calls) /\ Append(contents[x], i) \in Seq(Calls)
      BY <2>1, <1>2
    <3>2. contents'[x] = contents[x] \/ contents'[x] = Append(contents[x], i)
      BY <2>2, <1>2
    <3> QED BY <3>1, <3>2
  <2>5. contents' = [x \in Handles |-> contents'[x]]
    BY <2>2, <2>3, <1>2
  <2> QED BY <2>4, <2>5
<1> QED BY <1>4, <1>5, <1>6 DEF HandleTypes

\* A directory gets new contents.
LEMMA FilesUpdated ==
    ASSUME FileTypes, NEW c \in Cmds, NEW f,
           IsCkpt(f), f.call[0].kind # "launch",
           files' = [files EXCEPT ![c] = f]
    PROVE  FileTypes'
<1>1. DOMAIN files' = Cmds
  BY DEF FileTypes
<1>2. ASSUME NEW d \in Cmds
      PROVE  files'[d] = IF d = c THEN f ELSE files[d]
  BY DEF FileTypes
<1> QED BY <1>1, <1>2 DEF FileTypes

\* The fields of a directory that is changed.
LEMMA CkptFields ==
    ASSUME NEW f, IsCkpt(f)
    PROVE  /\ \A s : /\ [f EXCEPT !.state = s].state = s
                     /\ [f EXCEPT !.state = s].ua = f.ua
                     /\ [f EXCEPT !.state = s].pc = f.pc
                     /\ [f EXCEPT !.state = s].call = f.call
                     /\ DOMAIN [f EXCEPT !.state = s] = DOMAIN f
           /\ \A u : /\ [f EXCEPT !.ua = u].state = f.state
                     /\ [f EXCEPT !.ua = u].ua = u
                     /\ [f EXCEPT !.ua = u].pc = f.pc
                     /\ [f EXCEPT !.ua = u].call = f.call
                     /\ DOMAIN [f EXCEPT !.ua = u] = DOMAIN f
BY SMT DEF IsCkpt

\* The handles of a command that are active are saved.
SavedState(S, c) == [h \in S \cup DOMAIN files[c].state |->
                       IF h \in S THEN contents[h] ELSE files[c].state[h]]

\* A directory to which contents were saved.
LEMMA StateTypes ==
    ASSUME Types, NEW c \in Cmds, NEW S \in SUBSET Handles
    PROVE  IsCkpt([files[c] EXCEPT !.state = SavedState(S, c)])
<1>1. PICK f, s : f = files[c] /\ s = SavedState(S, c)
  OBVIOUS
<1>2. IsCkpt(f) /\ contents \in [Handles -> Seq(Calls)]
  BY <1>1 DEF Types, FileTypes, HandleTypes
<1>3. /\ DOMAIN s = S \cup DOMAIN f.state
      /\ \A h \in DOMAIN s : s[h] = IF h \in S THEN contents[h] ELSE f.state[h]
  BY <1>1 DEF SavedState
<1>4. DOMAIN s \subseteq Handles /\ \A h \in DOMAIN s : s[h] \in Seq(Calls)
  BY <1>2, <1>3 DEF IsCkpt
<1>5. IsCkpt([f EXCEPT !.state = s])
  BY <1>2, <1>4, CkptFields DEF IsCkpt
<1> QED BY <1>1, <1>5

\* A directory to which calls were saved.
LEMMA UaTypes ==
    ASSUME Types, NEW c \in Cmds, NEW U \in SUBSET Calls
    PROVE  IsCkpt([files[c] EXCEPT !.ua = U])
<1>1. PICK f : f = files[c]
  OBVIOUS
<1>2. IsCkpt(f)
  BY <1>1 DEF Types, FileTypes
<1>3. IsCkpt([f EXCEPT !.ua = U])
  BY <1>2, CkptFields DEF IsCkpt
<1> QED BY <1>1, <1>3

\* The worker is at a command that exists.
LEMMA WorkerCmd ==
    ASSUME Inv, worker.pc \in {"handles", "drain"}
    PROVE  worker.cmd \in Cmds
<1>1. worker.pc # "loop"
  BY SMT
<1> QED BY <1>1 DEF Inv, HType, WType

\* Saving the contents of some active handles.
LEMMA PersistTypes ==
    ASSUME Inv, Types, worker.pc = "handles",
           NEW S \in SUBSET Active, files' = Persist(S)
    PROVE  FileTypes' /\ files' = [files EXCEPT ![worker.cmd] =
             [files[worker.cmd] EXCEPT !.state = SavedState(S, worker.cmd)]]
<1>1. PICK c \in Cmds : c = worker.cmd
  BY WorkerCmd
<1>2. S \in SUBSET Handles
  <2>1. cmd[c].handles \subseteq Handles
    <3>1. cmd[c] \in Cmd
      BY <1>1 DEF Inv, HType, QType
    <3> QED BY SMT, <3>1 DEF Cmd
  <2> QED BY <2>1, <1>1 DEF Active
<1>3. files' = [files EXCEPT ![c] =
                  [files[c] EXCEPT !.state = SavedState(S, c)]]
  BY <1>1 DEF Persist, SavedState
<1>4. IsCkpt([files[c] EXCEPT !.state = SavedState(S, c)])
  BY <1>2, StateTypes
<1>5. PICK f : f = [files[c] EXCEPT !.state = SavedState(S, c)]
  OBVIOUS
<1>6. f.call[0].kind # "launch"
  <2>1. PICK g : g = files[c] /\ IsCkpt(g) /\ g.call[0].kind # "launch"
    BY <1>1 DEF Types, FileTypes
  <2>2. f.call = g.call
    BY SMT, <2>1, <1>5 DEF IsCkpt
  <2> QED BY <2>1, <2>2
<1>7. FileTypes'
  BY <1>3, <1>4, <1>5, <1>6, FilesUpdated DEF Types
<1> QED BY <1>1, <1>3, <1>7

\* The greatest of the calls that have arrived and of those before.
LEMMA MaxOf ==
    ASSUME NEW A \in SUBSET Calls, NEW m \in 0..LastCall
    PROVE  /\ Max(A \cup {m}) \in A \cup {m}
           /\ \A y \in A \cup {m} : y <= Max(A \cup {m})
           /\ Max(A \cup {m}) \in 0..LastCall
<1>1. PICK T : T = A \cup {m}
  OBVIOUS
<1>2. T \subseteq Nat /\ \A x \in T : x <= LastCall
  BY SMT, <1>1, CallNumbers
<1>3. PICK x \in T : \A y \in T : y <= x
  <2>1. T # {} /\ LastCall \in Nat
    BY <1>1, CallNumbers
  <2> QED BY <1>2, <2>1, Greatest
<1>4. \A y \in T : x >= y
  BY SMT, <1>2, <1>3
<1>5. Max(T) \in T /\ \A y \in T : Max(T) >= y
  BY <1>3, <1>4 DEF Max
<1>6. PICK M : M = Max(T)
  OBVIOUS
<1>7. M \in T /\ \A y \in T : M >= y
  BY <1>5, <1>6
<1>8. M \in 0..LastCall /\ \A y \in T : y <= M
  BY SMTT(30), <1>2, <1>7, CallNumbers
<1> QED BY <1>1, <1>6, <1>7, <1>8

\* The worker goes back to its loop with a reply.
LEMMA PollingTypes ==
    /\ Polling \in [pc : {"loop", "first", "again", "handles", "drain"},
                    cmd : 0..MaxEvents, max : 0..LastCall]
    /\ Polling.pc = "loop"
BY SMT, CallNumbers, BoundsAssumption DEF Polling

\* The worker takes up a command.
LEMMA ProcessTypes ==
    ASSUME Inv, Types, NEW c \in Cmds, worker_process_cmd(c)
    PROVE  /\ WorkerTypes' /\ crashed' \in BOOLEAN
           /\ worker'.cmd = c /\ worker'.pc # "drain"
<1>1. c \in 0..MaxEvents /\ 0 \in 0..LastCall
  BY SMT, CallNumbers, BoundsAssumption DEF Cmds
<1>2. PICK pc : worker' = [pc |-> pc, cmd |-> c, max |-> 0]
                 /\ pc \in {"loop", "first", "again", "handles"}
  <2>1. PICK dump, known : /\ dump = (cmd[c].type = "parser2worker_dump")
           /\ known = (dump \/ cmd[c].type = "parser2worker_predump")
    OBVIOUS
  <2>2. PICK pc : pc = CASE ~known -> "loop"
                         [] dump /\ offline_counter = 0 -> "first"
                         [] dump /\ offline_counter = 1 -> "again"
                         [] OTHER -> "handles"
    OBVIOUS
  <2>3. pc \in {"loop", "first", "again", "handles"}
    BY SMT, <2>2
  <2>4. worker' = [pc |-> pc, cmd |-> c, max |-> 0]
    BY <2>1, <2>2 DEF worker_process_cmd
  <2> QED BY <2>3, <2>4
<1>3. worker' \in [pc : {"loop", "first", "again", "handles", "drain"},
                   cmd : 0..MaxEvents, max : 0..LastCall]
  BY SMT, <1>1, <1>2
<1>4. worker'.cmd = c /\ worker'.pc # "drain"
  BY SMT, <1>2
<1>5. ckpt_cmd' \in 0..MaxEvents
  BY <1>1 DEF worker_process_cmd, Types, WorkerTypes
<1>6. crashed' \in BOOLEAN
  BY DEF worker_process_cmd
<1> QED BY <1>3, <1>4, <1>5, <1>6 DEF WorkerTypes

\* The worker between commands.
LEMMA LoopTypes ==
    ASSUME Inv, Types,
           \/ PollCalls \/ RestoreBrokenFails
           \/ \E ok \in BOOLEAN : Execute(ok)
    PROVE  Types'
<1>1. CASE PollCalls
  BY <1>1, EmptyCalls DEF PollCalls, client, rpc_vars, handles, Types,
     CallTypes, QueueTypes, HandleTypes, WorkerTypes, FileTypes, FaultTypes
<1>2. CASE RestoreBrokenFails
  <2>1. /\ UNCHANGED <<client, call, rpc_vars, api_queues, handles,
                       worker_vars, files>>
        /\ crashed' = TRUE /\ Fail
    BY <1>2 DEF RestoreBrokenFails
  <2>2. faults' \in 0..MaxEvents
    BY <2>1, FailTypes DEF Types, FaultTypes
  <2> QED BY <2>1, <2>2 DEF client, rpc_vars, api_queues, handles,
     worker_vars, Types, CallTypes, QueueTypes, HandleTypes, WorkerTypes,
     FileTypes, FaultTypes
<1>3. ASSUME NEW ok \in BOOLEAN, Execute(ok) PROVE Types'
  <2>1. PICK i : i = Head(wqes)
    OBVIOUS
  <2>2. /\ UNCHANGED <<client, rpc_vars, rpc2parser_wq, rpc2parser_cq,
                       parser2worker_wq, worker, ckpt_cmd, files>>
        /\ wqes # <<>> /\ wqes' = Tail(wqes) /\ (faults' = faults \/ Fail)
        /\ max_wqe_id' = i
        /\ rpc2worker_cq' \in {rpc2worker_cq, Append(rpc2worker_cq, i)}
        /\ crashed' = (i < max_wqe_id)
    BY <1>3, <2>1 DEF Execute
  <2>3. i \in Calls /\ Tail(wqes) \in Seq(Calls)
    BY <2>1, <2>2, TailOf DEF Types, QueueTypes
  <2>4. i \in 0..LastCall
    BY SMT, <2>3, CallNumbers
  <2>5. \A s \in Seq(Calls) : Append(s, i) \in Seq(Calls)
    BY <2>3, AppendOf
  <2>6. QueueTypes'
    BY <2>2, <2>3, <2>4, <2>5 DEF Types, QueueTypes
  <2>7. faults' \in 0..MaxEvents
    BY <2>2, FailTypes DEF Types, FaultTypes
  <2>8. crashed' \in BOOLEAN
    <3>1. (i < max_wqe_id) \in BOOLEAN
      BY SMT
    <3> QED BY <2>2, <3>1
  <2> QED BY <2>2, <2>6, <2>7, <2>8, <1>3, CallRun DEF client, rpc_vars,
     Types, CallTypes, WorkerTypes, FileTypes, FaultTypes
<1> QED BY <1>1, <1>2, <1>3

\* The worker stops the client.
LEMMA StopTypes ==
    ASSUME Inv, Types, WorkerRequest \/ WorkerResume \/ Confirmed \/ Abandon
    PROVE  Types'
<1>1. UNCHANGED <<api_inst_pc, call, rpc_vars, api_queues, handles, wqes,
                  max_wqe_id, files, faults>>
  BY DEF WorkerRequest, WorkerResume, Confirmed, Abandon, client
<1>2. WorkerTypes' /\ crashed' \in BOOLEAN
  <2>1. CASE WorkerRequest
    <3>1. /\ parser2worker_cmd_wq # <<>>
          /\ worker_process_cmd(Head(parser2worker_cmd_wq))
      BY <2>1 DEF WorkerRequest
    <3>2. Head(parser2worker_cmd_wq) \in Cmds
      BY <3>1, TailOf DEF Inv, HType, QType
    <3> QED BY <3>1, <3>2, ProcessTypes
  <2>2. CASE WorkerResume
    <3>1. ckpt_active /\ worker_process_cmd(ckpt_cmd)
      BY <2>2 DEF WorkerResume
    <3>2. ckpt_cmd \in Cmds
      BY <3>1 DEF Inv, HType, WType
    <3> QED BY <3>1, <3>2, ProcessTypes
  <2>3. CASE Confirmed
    <3>1. /\ worker' = [worker EXCEPT !.pc = "handles"]
          /\ ckpt_cmd' = ckpt_cmd /\ crashed' = crashed
      BY <2>3 DEF Confirmed
    <3>2. worker' \in [pc : {"loop", "first", "again", "handles", "drain"},
                       cmd : 0..MaxEvents, max : 0..LastCall]
      BY SMT, <3>1 DEF Types, WorkerTypes
    <3> QED BY <3>1, <3>2 DEF Types, WorkerTypes, FaultTypes
  <2>4. CASE Abandon
    BY <2>4, PollingTypes DEF Abandon, Types, WorkerTypes, FaultTypes
  <2> QED BY <2>1, <2>2, <2>3, <2>4
<1> QED BY <1>1, <1>2 DEF rpc_vars, api_queues, handles, Types,
   CallTypes, QueueTypes, HandleTypes, FileTypes, FaultTypes

\* Calls that wait for the worker are saved.
LEMMA DrainFiles ==
    ASSUME Types, Drain \/ DrainFails
    PROVE  worker.pc = "drain" /\ \E U \in SUBSET Range(parser2worker_wq) :
             files' = [files EXCEPT ![worker.cmd].ua = @ \cup U]
<1>1. CASE Drain
  BY <1>1 DEF Drain
<1>2. CASE DrainFails
  <2>1. PICK k \in 1..Len(parser2worker_wq) : files' =
          [files EXCEPT ![worker.cmd].ua =
             @ \cup {parser2worker_wq[j] : j \in 1..(k - 1)}]
    BY <1>2 DEF DrainFails
  <2>2. PICK n \in Nat : n = Len(parser2worker_wq)
           /\ DOMAIN parser2worker_wq = 1..n
    BY SMT DEF Types, QueueTypes
  <2>3. \A j \in 1..(k - 1) : j \in 1..n
    BY SMT, <2>1, <2>2
  <2>4. {parser2worker_wq[j] : j \in 1..(k - 1)}
           \in SUBSET Range(parser2worker_wq)
    BY <2>2, <2>3 DEF Range
  <2> QED BY <2>1, <2>4, <1>2 DEF DrainFails
<1> QED BY <1>1, <1>2

\* The worker writes the checkpoint.
LEMMA CkptTypes ==
    ASSUME Inv, Types,
           CheckpointHandles \/ CheckpointFails \/ Drain \/ DrainFails
             \/ FinishDump
    PROVE  Types'
<1>1. /\ UNCHANGED <<api_inst_pc, call, rpc_vars, rpc2parser_wq,
                     rpc2parser_cq, rpc2worker_cq, contents, wqes, max_wqe_id,
                     crashed>>
      /\ parser2worker_wq' \in {parser2worker_wq, <<>>}
      /\ faults' = faults \/ Fail
  BY DEF CheckpointHandles, CheckpointFails, Drain, DrainFails,
     FinishDump, client, api_queues, handles
<1>2. WorkerTypes'
  <2>1. /\ ckpt_cmd' \in {ckpt_cmd, 0}
        /\ \/ worker' = Polling
           \/ worker' = [worker EXCEPT !.pc = "drain"]
           \/ /\ worker' = [worker EXCEPT !.max =
                              Max(Range(parser2worker_wq) \cup {@})]
    BY DEF CheckpointHandles, CheckpointFails, Drain, DrainFails,
       FinishDump, reply_parser
  <2>2. ckpt_cmd' \in 0..MaxEvents
    <3>1. 0 \in 0..MaxEvents
      BY SMT, BoundsAssumption
    <3> QED BY <2>1, <3>1 DEF Types, WorkerTypes
  <2>3. worker \in [pc : {"loop", "first", "again", "handles", "drain"},
                    cmd : 0..MaxEvents, max : 0..LastCall]
    BY DEF Types, WorkerTypes
  <2>4. PICK m : m = Max(Range(parser2worker_wq) \cup {worker.max})
    OBVIOUS
  <2>5. m \in 0..LastCall
    <3>1. Range(parser2worker_wq) \in SUBSET Calls
      BY SeqRange DEF Types, QueueTypes
    <3>2. worker.max \in 0..LastCall
      BY SMT, <2>3
    <3> QED BY <2>4, <3>1, <3>2, MaxOf
  <2>6. CASE worker' = [worker EXCEPT !.pc = "drain"]
    <3>1. worker' \in [pc : {"loop", "first", "again", "handles", "drain"},
                       cmd : 0..MaxEvents, max : 0..LastCall]
      BY SMT, <2>3, <2>6
    <3> QED BY <3>1, <2>2 DEF WorkerTypes
  <2>7. CASE worker' = [worker EXCEPT !.max =
                          Max(Range(parser2worker_wq) \cup {@})]
    <3>1. worker' = [worker EXCEPT !.max = m]
      BY <2>4, <2>7
    <3>2. worker' \in [pc : {"loop", "first", "again", "handles", "drain"},
                       cmd : 0..MaxEvents, max : 0..LastCall]
      BY SMT, <2>3, <2>5, <3>1
    <3> QED BY <3>2, <2>2 DEF WorkerTypes
  <2> QED BY <2>1, <2>2, <2>6, <2>7, PollingTypes DEF WorkerTypes
<1>3. handle_status' \in [Handles -> {"none", "pending", "active", "unmapped"}]
  <2>1. handle_status' \in {handle_status, tear_down_all_handles}
    BY DEF CheckpointHandles, CheckpointFails, Drain, DrainFails,
       FinishDump, handles
  <2>2. handle_status \in [Handles -> {"none", "pending", "active", "unmapped"}]
    BY DEF Types, HandleTypes
  <2>3. tear_down_all_handles \in
           [Handles -> {"none", "pending", "active", "unmapped"}]
    BY SMT, <2>2 DEF tear_down_all_handles
  <2> QED BY <2>1, <2>2, <2>3
<1>4. FileTypes'
  <2>1. CASE CheckpointHandles \/ CheckpointFails
    <3>1. PICK S \in SUBSET Active :
            worker.pc = "handles" /\ files' = Persist(S)
      BY <2>1 DEF CheckpointHandles, CheckpointFails
    <3> QED BY <3>1, PersistTypes
  <2>2. CASE Drain \/ DrainFails
    <3>1. worker.pc = "drain"
      BY <2>2, DrainFiles
    <3>2. PICK U \in SUBSET Range(parser2worker_wq) :
            files' = [files EXCEPT ![worker.cmd].ua = @ \cup U]
      BY <2>2, DrainFiles
    <3>3. PICK c \in Cmds : c = worker.cmd
      BY <3>1, WorkerCmd
    <3>4. PICK V \in SUBSET Calls : V = files[c].ua \cup U
      <4>1. Range(parser2worker_wq) \subseteq Calls
        BY SeqRange DEF Types, QueueTypes
      <4>2. files[c].ua \subseteq Calls
        BY DEF Types, FileTypes, IsCkpt
      <4> QED BY <4>1, <4>2
    <3>5. PICK f : f = [files[c] EXCEPT !.ua = V]
      OBVIOUS
    <3>6. files' = [files EXCEPT ![c] = f]
      BY <3>2, <3>3, <3>4, <3>5
    <3>7. IsCkpt(f)
      BY <3>5, UaTypes
    <3>8. f.call[0].kind # "launch"
      <4>1. PICK g : g = files[c]
        OBVIOUS
      <4>2. IsCkpt(g) /\ g.call[0].kind # "launch"
        BY <4>1 DEF Types, FileTypes
      <4>3. f.call = g.call
        BY SMT, <4>1, <4>2, <3>5 DEF IsCkpt
      <4> QED BY <4>2, <4>3
    <3> QED BY <3>6, <3>7, <3>8, FilesUpdated DEF Types
  <2>3. CASE FinishDump
    BY <2>3 DEF FinishDump, Types, FileTypes
  <2> QED BY <2>1, <2>2, <2>3
<1>5. faults' \in 0..MaxEvents
  BY <1>1, FailTypes DEF Types, FaultTypes
<1> QED BY <1>1, <1>2, <1>3, <1>4, <1>5, EmptyCalls DEF rpc_vars, Types,
   CallTypes, QueueTypes, HandleTypes, FaultTypes

\* The OOB thread.
LEMMA OobTypes == ASSUME Inv, Types, OobStep PROVE Types'
<1>1. CASE (\E dump \in BOOLEAN : Request(dump)) \/ Answer
  <2>1. /\ UNCHANGED <<client, call, rpc_vars, api_queues, handles,
                       worker_vars, files, faults>>
        /\ crashed' = crashed \/ crashed' = ~Expected
    BY <1>1 DEF Request, Answer
  <2> QED BY <2>1 DEF client, rpc_vars, api_queues, handles,
     worker_vars, Types, CallTypes, QueueTypes, HandleTypes, WorkerTypes,
     FileTypes, FaultTypes
<1>2. CASE AnswerAndRemove
  <2>1. /\ UNCHANGED <<api_inst_pc, call, rpc_vars, api_queues, handles,
                       worker_vars>>
        /\ crashed' = (worker.pc # "loop" \/ wqes # <<>>)
        /\ faults' = faults \/ Fail
        /\ \/ files' = [files EXCEPT ![oob.cmd] =
                           [@ EXCEPT !.pc = api_inst_pc, !.call = call]]
           \/ files' = files
        /\ oob.cmd # 0
    BY <1>2 DEF AnswerAndRemove
  <2>2. faults' \in 0..MaxEvents
    BY <2>1, FailTypes DEF Types, FaultTypes
  <2>3. crashed' \in BOOLEAN
    <3>1. (worker.pc # "loop" \/ wqes # <<>>) \in BOOLEAN
      BY SMT
    <3> QED BY <2>1, <3>1
  <2>4. CASE files' = files
    BY <2>1, <2>2, <2>3, <2>4 DEF rpc_vars, api_queues, handles,
       worker_vars, Types, CallTypes, QueueTypes, HandleTypes, WorkerTypes,
       FileTypes, FaultTypes
  <2>5. CASE files' = [files EXCEPT ![oob.cmd] =
                         [@ EXCEPT !.pc = api_inst_pc, !.call = call]]
    <3>1. PICK c \in Cmds : c = oob.cmd
      <4>1. oob.cmd \in 0..MaxEvents
        BY SMT DEF Inv, HType, CType
      <4>2. oob.cmd \in Cmds
        BY SMT, <4>1, <2>1, BoundsAssumption DEF Cmds
      <4> QED BY <4>2
    <3>2. PICK n, k : n = api_inst_pc /\ k = call
      OBVIOUS
    <3>3. /\ n \in NotSaved..(LastCall + 1)
          /\ k \in [Calls -> Call] /\ k[0].kind # "launch"
      <4>1. n \in 0..(LastCall + 1)
        BY <3>2 DEF Types, CallTypes
      <4>2. n \in NotSaved..(LastCall + 1)
        BY SMT, <4>1, CallNumbers DEF NotSaved
      <4> QED BY <4>2, <3>2 DEF Types, CallTypes
    <3>4. PICK f : f = [files[c] EXCEPT !.pc = n, !.call = k]
      OBVIOUS
    <3>5. IsCkpt(f) /\ f.call[0].kind # "launch"
      <4>1. PICK g : g = files[c]
        OBVIOUS
      <4>2. IsCkpt(g)
        BY <4>1 DEF Types, FileTypes
      <4>3. /\ f.state = g.state /\ f.ua = g.ua /\ f.pc = n /\ f.call = k
            /\ DOMAIN f = DOMAIN g
        BY SMT, <4>1, <4>2, <3>4 DEF IsCkpt
      <4> QED BY <4>2, <4>3, <3>3 DEF IsCkpt
    <3>6. files' = [files EXCEPT ![c] = f]
      BY <3>1, <3>2, <3>4, <2>5
    <3>7. FileTypes'
      BY <3>3, <3>5, <3>6, FilesUpdated DEF Types
    <3> QED BY <2>1, <2>2, <2>3, <3>7 DEF rpc_vars, api_queues, handles,
       worker_vars, Types, CallTypes, QueueTypes, HandleTypes, WorkerTypes,
       FaultTypes
  <2> QED BY <2>1, <2>4, <2>5
<1>3. ASSUME NEW c \in Cmds, Restore(c) PROVE Types'
  <2>1. PICK f : f = files[c]
    OBVIOUS
  <2>2. IsCkpt(f) /\ f.pc # NotSaved /\ f.call[0].kind # "launch"
    <3>1. f.pc # NotSaved
      BY <1>3, <2>1 DEF Restore
    <3> QED BY <2>1, <3>1 DEF Types, FileTypes
  <2>3. /\ api_inst_pc' = f.pc /\ UNCHANGED <<rpc_vars, files, faults>>
        /\ handle_status' = RestoredStatus(f)
        /\ contents' = RestoredContents(f)
        /\ parser2worker_wq' \in Bijection(1..Cardinality(f.ua), f.ua)
        /\ rpc2parser_wq' = <<>> /\ rpc2parser_cq' = <<>>
        /\ rpc2worker_cq' = <<>>
        /\ worker' = Polling /\ wqes' = <<>> /\ max_wqe_id' = 0
        /\ ckpt_cmd' = 0 /\ ~registered
        /\ crashed' = ~AllFound(f)
        /\ \E garbage \in SUBSET f.ua :
             call' = [i \in Calls |-> IF i \in garbage
               THEN [f.call[i] EXCEPT !.status = "worker_failed"]
               ELSE f.call[i]]
    BY ZenonT(30), <1>3, <2>1 DEF Restore
  <2>4. CallTypes'
    <3>1. f.pc \in NotSaved..(LastCall + 1)
      BY <2>2 DEF IsCkpt
    <3>2. f.pc \in 0..(LastCall + 1)
      BY SMT, <3>1, <2>2, CallNumbers DEF NotSaved
    <3>3. rpc # "locked"
      <4>1. rpc = "idle"
        BY <2>3 DEF Inv, Rpc
      <4> QED BY SMT, <4>1
    <3>4. call' \in [Calls -> Call] /\ call'[0].kind # "launch"
      <4>1. PICK G : call' = [i \in Calls |-> IF i \in G
               THEN [f.call[i] EXCEPT !.status = "worker_failed"]
               ELSE f.call[i]]
        BY <2>3
      <4>2. \A i \in Calls : f.call[i] \in Call
        BY <2>2 DEF IsCkpt
      <4>3. \A d \in Call :
               /\ [d EXCEPT !.status = "worker_failed"] \in Call
               /\ [d EXCEPT !.status = "worker_failed"].kind = d.kind
        BY SMT DEF Call
      <4> QED BY <4>1, <4>2, <4>3, <2>2, CallNumbers
    <3> QED BY <2>3, <3>2, <3>3, <3>4 DEF rpc_vars, Types, CallTypes
  <2>5. QueueTypes'
    <3>1. f.ua \in SUBSET Calls
      BY <2>2 DEF IsCkpt
    <3>2. parser2worker_wq' \in Seq(Calls)
      BY <2>3, <3>1, BijectionOf
    <3> QED BY <2>3, <3>2, EmptyCalls DEF QueueTypes
  <2>6. HandleTypes'
    <3>1. \A h \in DOMAIN f.state : f.state[h] \in Seq(Calls)
      BY <2>2 DEF IsCkpt
    <3>2. RestoredContents(f) \in [Handles -> Seq(Calls)]
      BY <3>1, EmptyCalls DEF RestoredContents
    <3>3. RestoredStatus(f) \in
            [Handles -> {"none", "pending", "active", "unmapped"}]
      BY SMT DEF RestoredStatus
    <3> QED BY <2>3, <3>2, <3>3 DEF HandleTypes
  <2>7. WorkerTypes'
    <3>1. 0 \in 0..MaxEvents
      BY SMT, BoundsAssumption
    <3> QED BY <2>3, <3>1, PollingTypes DEF WorkerTypes
  <2> QED BY <2>3, <2>4, <2>5, <2>6, <2>7 DEF Types, FileTypes,
     FaultTypes
<1> QED BY <1>1, <1>2, <1>3 DEF OobStep

\* Every step keeps the types.
LEMMA StepTypes == Inv /\ Types /\ [Next]_vars => Types'
<1> SUFFICES ASSUME Inv, Types, [Next]_vars PROVE Types'
  OBVIOUS
<1>1. CASE WorkerStep
  BY <1>1, LoopTypes, StopTypes, CkptTypes DEF WorkerStep
<1>2. CASE UNCHANGED vars
  BY <1>2 DEF vars, client, rpc_vars, api_queues, handles, worker_vars,
     Types, CallTypes, QueueTypes, HandleTypes, WorkerTypes, FileTypes,
     FaultTypes
<1> QED BY <1>1, <1>2, RpcTypes, ParserTypes, OobTypes DEF Next

\* The types of all variables of the daemon, in every reachable state.
THEOREM TypesInvariance == Spec => []Types
BY InitTypes, StepTypes, Invariance, PTL DEF Spec

\* Whatever is called, requested, restored and fails: the queues hold calls
\* and commands, each handle its launches, and call numbers and counters stay
\* in their ranges.
THEOREM DaemonTypes == Spec => []TypeOK
BY AllTypes, TypesInvariance, Invariance, PTL

---------------------------------------------------------------------------
(* The order of launches *)

\* From here on, unless a leaf says otherwise, it is Zenon's.
USE Zenon

Elements(F) == UNION {Range(F[h]) : h \in DOMAIN F}
AllIncreasing(F) == \A h \in DOMAIN F : Increasing(F[h])

\* The calls the worker has not polled, and what comes after them.
Waiting == Range(parser2worker_wq) \cup Range(rpc2parser_wq)
Coming == Waiting \cup {api_inst_pc}

\* The same without call 0: the worker's counters start from its number, and
\* it is no launch.
Pending == Waiting \ {0}
Later == Pending \cup {api_inst_pc}

\* The worker counts up to n.
Counter(n) == n <= api_inst_pc /\ Before({n}, Later \ {0})

\* The queues: the RPC thread, the parser and the worker hand the calls on in
\* order.  Only the calls of a restored client may come in another order, and
\* those are polled together.
Queues ==
    /\ Before(Waiting, {api_inst_pc})
    /\ Before(Range(parser2worker_wq), Range(rpc2parser_wq))
    /\ Before(Range(wqes), Coming) /\ Counter(max_wqe_id)
    /\ Increasing(rpc2parser_wq) /\ Distinct(parser2worker_wq)
    /\ Distinct(wqes)

\* What the worker may still run comes after what took effect, unless the
\* worker's assertion will stop it.
Ran(F, ids, max) ==
    \A x \in Elements(F), w \in ids : x # w /\ (x < w \/ x <= max)
Effects ==
    /\ AllIncreasing(contents) /\ Before(Elements(contents), Later)
    /\ Ran(contents, Range(wqes) \ {0}, max_wqe_id)

\* The worker is at a command only between calls; a client that is stopped and
\* not about to be dumped has no launch left to run.
Stopped ==
    /\ worker.pc # "loop" => wqes = <<>>
    /\ worker.pc # "loop" => Counter(worker.max)
    /\ ~registered => worker.pc = "loop" /\ wqes = <<>> /\ oob.cmd = 0
    /\ offline_counter = 2 =>
         ckpt_active \/ (Pending = {} /\ Range(wqes) \subseteq {0})

\* A directory that can be restored.
Complete(f) ==
    /\ Before(f.ua, {f.pc}) /\ AllIncreasing(f.state)
    /\ Before(Elements(f.state), (f.ua \ {0}) \cup {f.pc})

\* A directory that is being written, when the calls in ran took effect, those
\* in later may follow and pc is the next: the calls saved in it are later than
\* what took effect, and from the first of them on nothing else does.
Written(f, ran, later, pc, still) ==
    /\ f.pc = NotSaved /\ Before(f.ua, {pc}) /\ Before(ran, f.ua \ {0})
    /\ AllIncreasing(f.state)
    /\ Before(Elements(f.state), (f.ua \ {0}) \cup later)
    /\ f.ua # {} => still
Still == offline_counter = 2 /\ Range(wqes) \subseteq {0}

\* The commands whose directory may still be written to.
Live == Range(oob2parser_cmd_wq) \cup Range(parser2worker_cmd_wq)
          \cup Range(parser2worker_cmd_cq)
          \cup {c \in Cmds : \/ c = oob.cmd
                             \/ ckpt_active /\ c = ckpt_cmd
                             \/ worker.pc # "loop" /\ c = worker.cmd}

WrittenNow(f) == Written(f, Elements(contents), Later, api_inst_pc, Still)

Directories ==
    /\ \A c \in Cmds : files[c].pc # NotSaved => Complete(files[c])
    /\ \A c \in Cmds : cmd[c].type = "none" => files[c] = NoFiles
    /\ registered => \A c \in Live :
          cmd[c].type # "none" /\ WrittenNow(files[c])

Order == Queues /\ Effects /\ Stopped /\ Directories

\* The daemon's assertions stop it where calls would run out of order.
OrderInv == crashed \/ Order

----------------------------------------------------------------------------
(* What the steps keep *)

\* A directory stays well written when nothing else takes effect.
LEMMA WrittenKept ==
    ASSUME NEW f, NEW ran, NEW later, NEW pc, NEW still,
           NEW ran2, NEW later2, NEW still2,
           Written(f, ran, later, pc, still), later2 \subseteq later,
           still => still2 /\ ran2 \subseteq ran
    PROVE  Written(f, ran2, later2, pc, still2)
<1>1. CASE f.ua = {}
  BY <1>1 DEF Written, Before
<1>2. CASE f.ua # {}
  BY <1>2 DEF Written, Before
<1> QED BY <1>1, <1>2

\* A step that writes no file, lets nothing new take effect once calls were
\* saved, and makes no command live.
LEMMA DirectoriesKept ==
    ASSUME Directories, UNCHANGED <<files, api_inst_pc>>,
           Live' \subseteq Live, Later' \subseteq Later,
           registered' => registered,
           Still => Still' /\ Elements(contents') \subseteq Elements(contents),
           \A c \in Cmds : cmd[c].type # "none" => cmd'[c].type # "none",
           Live \subseteq Cmds
    PROVE  Directories'
<1>1. files' = files /\ api_inst_pc' = api_inst_pc
  OBVIOUS
<1>2. \A c \in Cmds : cmd'[c].type = "none" => cmd[c].type = "none"
  OBVIOUS
<1>3. ASSUME registered', NEW c \in Live'
      PROVE  cmd'[c].type # "none" /\ WrittenNow(files[c])'
  <2>1. cmd[c].type # "none" /\ WrittenNow(files[c]) /\ c \in Cmds
    BY <1>3 DEF Directories
  <2>2. PICK f, ran, later, pc, still :
          /\ f = files[c] /\ ran = Elements(contents) /\ later = Later
          /\ pc = api_inst_pc /\ still = Still
    OBVIOUS
  <2>3. PICK ran2, later2, still2 :
          /\ ran2 = Elements(contents') /\ later2 = Later' /\ still2 = Still'
    OBVIOUS
  <2>4. Written(f, ran, later, pc, still)
    BY <2>1, <2>2 DEF WrittenNow
  <2>5. Written(f, ran2, later2, pc, still2)
    <3>1. later2 \subseteq later /\ (still => still2 /\ ran2 \subseteq ran)
      BY <2>2, <2>3
    <3>2. \A ff, r, l, p, s, r2, l2, s2 :
            /\ Written(ff, r, l, p, s) /\ l2 \subseteq l
            /\ s => s2 /\ r2 \subseteq r
            => Written(ff, r2, l2, p, s2)
      BY ZenonT(30), WrittenKept
    <3> HIDE DEF Still
    <3> QED BY <2>4, <3>1, <3>2
  <2>6. WrittenNow(files[c])'
    BY <2>2, <2>3, <2>5, <1>1 DEF WrittenNow, Written
  <2> QED BY <2>1, <2>6
<1> QED BY <1>1, <1>2, <1>3 DEF Directories

\* What is live is a command.
LEMMA LiveCmds == Inv => Live \subseteq Cmds
<1> SUFFICES ASSUME Inv PROVE Live \subseteq Cmds
  OBVIOUS
<1>1. /\ oob2parser_cmd_wq \in Seq(Cmds) /\ parser2worker_cmd_wq \in Seq(Cmds)
      /\ parser2worker_cmd_cq \in Seq(Cmds)
  BY DEF Inv, HType, QType
<1>2. /\ Range(oob2parser_cmd_wq) \subseteq Cmds
      /\ Range(parser2worker_cmd_wq) \subseteq Cmds
      /\ Range(parser2worker_cmd_cq) \subseteq Cmds
  BY <1>1, SeqRange
<1> QED BY <1>2 DEF Live

\* A step that leaves the queues of calls and the contents alone.
QueueVars == <<parser2worker_wq, rpc2parser_wq, wqes, api_inst_pc, max_wqe_id,
               contents>>

\* Such a step keeps the order of the queues and of what took effect.
LEMMA CallsQuiet ==
    ASSUME Order, UNCHANGED QueueVars
    PROVE  /\ Queues' /\ Effects' /\ Later' = Later /\ Pending' = Pending
           /\ Elements(contents') = Elements(contents)
<1>1. /\ parser2worker_wq' = parser2worker_wq /\ rpc2parser_wq' = rpc2parser_wq
      /\ wqes' = wqes /\ api_inst_pc' = api_inst_pc
      /\ max_wqe_id' = max_wqe_id /\ contents' = contents
  BY DEF QueueVars
<1>2. /\ Waiting' = Waiting /\ Coming' = Coming
      /\ Pending' = Pending /\ Later' = Later
  BY <1>1 DEF Waiting, Coming, Pending, Later
<1> QED BY <1>1, <1>2 DEF Order, Queues, Effects, Counter

\* The RPC thread, but for a new call.
LEMMA RpcQuiet ==
    ASSUME Inv, Types, Order,
           try_lock_client \/ ConfirmOffline \/ MarkSync \/ PollParser
             \/ PollWorker
    PROVE  Order'
<1>1. UNCHANGED <<registered, parser2worker_wq, rpc2parser_wq, wqes,
                  api_inst_pc, max_wqe_id, contents, cmd_queues, cmd, worker,
                  ckpt_active, ckpt_cmd, oob, files>>
  BY DEF try_lock_client, ConfirmOffline, MarkSync, PollParser,
     PollWorker, client, api_queues, handles, worker_vars
<1>2. /\ offline_counter = 2 => offline_counter' = 2
      /\ offline_counter' = 2 => ckpt_active \/ offline_counter = 2
  <2>1. CASE ConfirmOffline
    BY <2>1 DEF ConfirmOffline, Inv, Stopping
  <2>2. CASE ~ConfirmOffline
    <3>1. offline_counter' = offline_counter
      BY <2>2 DEF try_lock_client, MarkSync, PollParser, PollWorker,
         client
    <3> QED BY <3>1
  <2> QED BY <2>1, <2>2
<1>3. /\ Queues' /\ Effects' /\ Later' = Later /\ Pending' = Pending
      /\ Elements(contents') = Elements(contents)
  BY <1>1, CallsQuiet DEF QueueVars
<1>4. Stopped'
  BY <1>1, <1>2, <1>3 DEF Order, Stopped, Counter
<1>5. Live' = Live
  BY <1>1 DEF Live, cmd_queues
<1>6. Directories'
  <2>1. Still => Still'
    BY <1>1, <1>2 DEF Still
  <2> QED BY <2>1, <1>1, <1>3, <1>5, LiveCmds, DirectoriesKept DEF Order
<1> QED BY <1>3, <1>4, <1>6 DEF Order

\* The parser hands a command on, or its answer.
LEMMA ParserCmdOrder ==
    ASSUME Inv, Types, Order, ParserRequest \/ ParserReply
    PROVE  Order'
<1>1. UNCHANGED <<registered, offline_counter, parser2worker_wq, rpc2parser_wq,
                  wqes, api_inst_pc, max_wqe_id, contents, worker, ckpt_active,
                  ckpt_cmd, oob, files>>
  BY DEF ParserRequest, ParserReply, client, api_queues, handles,
     worker_vars
<1>2. /\ Queues' /\ Effects' /\ Later' = Later /\ Pending' = Pending
      /\ Elements(contents') = Elements(contents)
  BY <1>1, CallsQuiet DEF QueueVars
<1>3. Stopped'
  BY <1>1, <1>2 DEF Order, Stopped, Counter
<1>4. PICK c \in Cmds :
        /\ parser_process_cmd(c) /\ c \in Live
        /\ Range(oob2parser_cmd_wq') \subseteq Range(oob2parser_cmd_wq)
        /\ Range(parser2worker_cmd_cq') \subseteq Range(parser2worker_cmd_cq)
  <2>1. CASE ParserRequest
    <3>1. /\ oob2parser_cmd_wq # <<>>
          /\ parser_process_cmd(Head(oob2parser_cmd_wq))
          /\ oob2parser_cmd_wq' = Tail(oob2parser_cmd_wq)
          /\ parser2worker_cmd_cq' = parser2worker_cmd_cq
      BY <2>1 DEF ParserRequest
    <3>2. oob2parser_cmd_wq \in Seq(Cmds)
      BY DEF Inv, HType, QType
    <3>3. PICK c : c = Head(oob2parser_cmd_wq)
      OBVIOUS
    <3>4. /\ c \in Cmds /\ c \in Range(oob2parser_cmd_wq)
          /\ Range(Tail(oob2parser_cmd_wq)) \subseteq Range(oob2parser_cmd_wq)
      BY <3>1, <3>2, <3>3, TailOf
    <3>5. c \in Live /\ parser_process_cmd(c)
      BY <3>1, <3>3, <3>4 DEF Live
    <3> QED BY <3>1, <3>4, <3>5
  <2>2. CASE ParserReply
    <3>1. /\ parser2worker_cmd_cq # <<>>
          /\ parser_process_cmd(Head(parser2worker_cmd_cq))
          /\ parser2worker_cmd_cq' = Tail(parser2worker_cmd_cq)
          /\ oob2parser_cmd_wq' = oob2parser_cmd_wq
      BY <2>2 DEF ParserReply
    <3>2. parser2worker_cmd_cq \in Seq(Cmds)
      BY DEF Inv, HType, QType
    <3>3. PICK c : c = Head(parser2worker_cmd_cq)
      OBVIOUS
    <3>4. /\ c \in Cmds /\ c \in Range(parser2worker_cmd_cq)
          /\ Range(Tail(parser2worker_cmd_cq))
               \subseteq Range(parser2worker_cmd_cq)
      BY <3>1, <3>2, <3>3, TailOf
    <3>5. c \in Live /\ parser_process_cmd(c)
      BY <3>1, <3>3, <3>4 DEF Live
    <3> QED BY <3>1, <3>4, <3>5
  <2> QED BY <2>1, <2>2
<1>5. Range(parser2worker_cmd_wq') \subseteq Range(parser2worker_cmd_wq)
                                               \cup {c}
  <2>1. \/ parser2worker_cmd_wq' = Append(parser2worker_cmd_wq, c)
        \/ parser2worker_cmd_wq' = parser2worker_cmd_wq
    BY <1>4 DEF parser_process_cmd
  <2>2. parser2worker_cmd_wq \in Seq(Cmds)
    BY DEF Inv, HType, QType
  <2>3. Range(Append(parser2worker_cmd_wq, c))
          = Range(parser2worker_cmd_wq) \cup {c}
    BY SMT, <2>2, AppendOf
  <2> QED BY <2>1, <2>3
<1>6. Live' \subseteq Live
  BY <1>1, <1>4, <1>5 DEF Live
<1>7. \A d \in Cmds : cmd[d].type # "none" => cmd'[d].type # "none"
  <2>1. cmd \in [Cmds -> Cmd]
    BY DEF Inv, HType, QType
  <2>2. \E H : \E t \in {"oob2parser_dump", "oob2parser_predump",
                         "parser2worker_dump", "parser2worker_predump"} :
           \/ cmd' = [cmd EXCEPT ![c].type = t, ![c].handles = H]
           \/ cmd' = [cmd EXCEPT ![c].type = t]
    BY <1>4 DEF parser_process_cmd
  <2> QED BY SMT, <2>1, <2>2 DEF Cmd
<1>8. Directories'
  <2>1. Still => Still'
    BY <1>1 DEF Still
  <2> QED BY <2>1, <1>1, <1>2, <1>6, <1>7, LiveCmds, DirectoriesKept
     DEF Order
<1> QED BY <1>2, <1>3, <1>8 DEF Order

\* The calls that wait are numbers.
LEMMA LaterNat ==
    ASSUME Types
    PROVE  /\ Waiting \subseteq Calls /\ Coming \subseteq Nat
           /\ Pending \subseteq Calls /\ Later \subseteq Nat
           /\ api_inst_pc \in Nat /\ Range(wqes) \subseteq Calls
           /\ Calls \subseteq Nat
<1>1. api_inst_pc \in Nat /\ Calls \subseteq Nat
  BY SMT, CallNumbers DEF Types, CallTypes
<1>2. Waiting \subseteq Calls /\ Range(wqes) \subseteq Calls
  BY SeqRange DEF Types, QueueTypes, Waiting
<1>3. Pending \subseteq Calls
  BY <1>2 DEF Pending
<1> QED BY <1>1, <1>2, <1>3 DEF Coming, Later

\* The worker's counters may start from 0.
LEMMA CounterZero ==
    ASSUME NEW pc \in Nat, NEW L, L \subseteq Nat
    PROVE  0 <= pc /\ Before({0}, L \ {0})
<1>1. 0 <= pc /\ \A y \in Nat : y # 0 => 0 < y
  BY SMT
<1> QED BY <1>1 DEF Before

\* The worker begins with a command.
LEMMA ProcessOrder ==
    ASSUME Inv, Types, Order, registered, wqes = <<>>,
           NEW c \in Cmds, c \in Live, worker_process_cmd(c),
           parser2worker_cmd_wq' \in
              {parser2worker_cmd_wq, Tail(parser2worker_cmd_wq)},
           parser2worker_cmd_wq' # parser2worker_cmd_wq
              => parser2worker_cmd_wq # <<>>,
           UNCHANGED <<registered, api_inst_pc, api_queues, oob2parser_cmd_wq,
                       parser2worker_cmd_cq, cmd, handles, wqes, max_wqe_id,
                       oob, files>>
    PROVE  Order'
<1>1. UNCHANGED QueueVars
  BY DEF QueueVars, api_queues, handles
<1>2. /\ Queues' /\ Effects' /\ Later' = Later /\ Pending' = Pending
      /\ Elements(contents') = Elements(contents)
  BY <1>1, CallsQuiet
<1>3. /\ worker'.max = 0 /\ worker'.cmd = c
      /\ offline_counter' = 2 <=> offline_counter = 2
      /\ ckpt_active => ckpt_active'
      /\ ckpt_active' /\ ckpt_cmd' # c
           => ckpt_active /\ ckpt_cmd' = ckpt_cmd
  <2>1. worker'.max = 0 /\ worker'.cmd = c
    BY SMT DEF worker_process_cmd
  <2>2. offline_counter' = 2 <=> offline_counter = 2
    BY SMT DEF worker_process_cmd
  <2> QED BY <2>1, <2>2 DEF worker_process_cmd
<1>4. Stopped'
  <2>1. 0 <= api_inst_pc /\ Before({0}, Later \ {0})
    BY CounterZero, LaterNat
  <2>2. Counter(worker.max)'
    BY <2>1, <1>2, <1>3 DEF Counter
  <2> QED BY <2>2, <1>2, <1>3 DEF Order, Stopped
<1>5. Live' \subseteq Live
  <2>1. Range(parser2worker_cmd_wq') \subseteq Range(parser2worker_cmd_wq)
    BY TailOf DEF Inv, HType, QType
  <2> QED BY <2>1, <1>3 DEF Live
<1>6. Directories'
  <2>1. Still => Still'
    BY <1>3 DEF Still
  <2> QED BY <2>1, <1>2, <1>5, LiveCmds, DirectoriesKept DEF Order
<1> QED BY <1>2, <1>4, <1>6 DEF Order

\* The worker takes a command up, stops the client for it, or gives way to a
\* caller: it holds no call then.
LEMMA StopOrder ==
    ASSUME Inv, Types, Order,
           WorkerRequest \/ WorkerResume \/ Confirmed \/ Abandon
    PROVE  Order'
<1>1. CASE WorkerRequest
  <2>1. PICK c : c = Head(parser2worker_cmd_wq)
    OBVIOUS
  <2>2. parser2worker_cmd_wq # <<>> /\ worker_process_cmd(c)
    BY <1>1, <2>1 DEF WorkerRequest
  <2>3. c \in Cmds /\ c \in Live
    <3>1. parser2worker_cmd_wq \in Seq(Cmds)
      BY DEF Inv, HType, QType
    <3>2. c \in Cmds /\ c \in Range(parser2worker_cmd_wq)
      BY <2>1, <2>2, <3>1, TailOf
    <3> QED BY <3>2 DEF Live
  <2> QED BY <1>1, <2>2, <2>3, ProcessOrder DEF WorkerRequest
<1>2. CASE WorkerResume
  <2>1. PICK c : c = ckpt_cmd
    OBVIOUS
  <2>2. ckpt_active /\ worker_process_cmd(c)
    BY <1>2, <2>1 DEF WorkerResume
  <2>3. c \in Cmds /\ c \in Live
    BY <2>1, <2>2 DEF Inv, HType, WType, Live
  <2> QED BY <1>2, <2>2, <2>3, ProcessOrder DEF WorkerResume, cmd_queues
<1>3. CASE Confirmed \/ Abandon
  <2>1. UNCHANGED <<registered, offline_counter, parser2worker_wq,
                    rpc2parser_wq, wqes, api_inst_pc, max_wqe_id, contents,
                    cmd_queues, cmd, ckpt_active, ckpt_cmd, oob, files>>
    BY <1>3 DEF Confirmed, Abandon, client, api_queues, handles
  <2>2. worker.pc # "loop"
    BY SMT, <1>3 DEF Confirmed, Abandon
  <2>3. /\ Queues' /\ Effects' /\ Later' = Later /\ Pending' = Pending
        /\ Elements(contents') = Elements(contents)
    BY <2>1, CallsQuiet DEF QueueVars
  <2>4. \/ worker'.pc = "loop"
        \/ worker'.cmd = worker.cmd /\ worker'.max = worker.max
    BY SMT, <1>3 DEF Confirmed, Abandon, Polling, Inv, HType, WType
  <2>5. Stopped'
    BY <2>1, <2>2, <2>3, <2>4 DEF Order, Stopped, Counter
  <2>6. Live' \subseteq Live
    BY <2>1, <2>2, <2>4 DEF Live, cmd_queues
  <2>7. Still => Still'
    BY <2>1 DEF Still
  <2>8. Directories'
    BY <2>1, <2>3, <2>6, <2>7, LiveCmds, DirectoriesKept DEF Order
  <2> QED BY <2>3, <2>5, <2>8 DEF Order
<1> QED BY <1>1, <1>2, <1>3

----------------------------------------------------------------------------
(* The calls *)

\* What a function from handles to sequences of calls holds.
LEMMA ElementsCalls ==
    ASSUME NEW F, \A h \in DOMAIN F : F[h] \in Seq(Calls)
    PROVE  Elements(F) \subseteq Calls
<1>1. \A h \in DOMAIN F : Range(F[h]) \subseteq Calls
  BY SeqRange
<1> QED BY <1>1 DEF Elements

\* What took effect are calls.
LEMMA ContentsCalls == Types => Elements(contents) \subseteq Calls
BY ElementsCalls DEF Types, HandleTypes

\* The next number comes after what the last one comes after.
LEMMA BeforeNext ==
    ASSUME NEW X \in SUBSET Nat, NEW L, NEW p \in Nat, p \in L, Before(X, L)
    PROVE  Before(X, L \cup {p + 1})
<1>1. \A x \in Nat : x < p => x < p + 1
  BY SMT
<1> QED BY <1>1 DEF Before

\* A new call comes after what is in a directory to which no call was saved.
LEMMA IssueWritten ==
    ASSUME NEW f, IsCkpt(f), NEW ran, NEW later, NEW p \in Nat, NEW still,
           Written(f, ran, later, p, still), ~still, p \in later,
           NEW later2, later2 \subseteq later \cup {p + 1}
    PROVE  Written(f, ran, later2, p + 1, still)
<1>1. f.ua = {}
  BY DEF Written
<1>2. Before(Elements(f.state), later \cup {p + 1})
  <2>1. Elements(f.state) \in SUBSET Nat
    <3>1. Elements(f.state) \subseteq Calls
      BY ElementsCalls DEF IsCkpt
    <3> QED BY <3>1, CallNumbers
  <2>2. Before(Elements(f.state), later)
    BY DEF Written, Before
  <2> QED BY <2>1, <2>2, BeforeNext
<1> QED BY <1>1, <1>2 DEF Written, Before

\* A new call is let in only while the client is not stopped.
LEMMA IssueOrder ==
    ASSUME Inv, Types, Order,
           NEW kind \in Kinds, NEW h \in Handles \cup {NoHandle},
           Issue(kind, h)
    PROVE  Order'
<1>1. PICK p : p = api_inst_pc
  OBVIOUS
<1>2. /\ rpc = "locked" /\ api_inst_pc' = p + 1
      /\ rpc2parser_wq' = Append(rpc2parser_wq, p)
      /\ UNCHANGED <<registered, offline_counter, parser2worker_wq, wqes,
                     max_wqe_id, contents, cmd_queues, cmd, worker,
                     ckpt_active, ckpt_cmd, oob, files>>
  BY <1>1 DEF Issue, handles, worker_vars
<1>3. p \in Calls /\ p \in Nat /\ p < p + 1 /\ \A x \in Nat : x < p => x < p + 1
  BY SMTT(30), <1>1, <1>2, CallNumbers DEF Types, CallTypes, Calls
<1>4. registered /\ offline_counter # 2
  BY SMT, <1>2 DEF Inv, Rpc, HType, CType
<1>5. Range(rpc2parser_wq') = Range(rpc2parser_wq) \cup {p}
  <2>1. rpc2parser_wq \in Seq(Calls)
    BY DEF Types, QueueTypes
  <2>2. Range(Append(rpc2parser_wq, p)) = Range(rpc2parser_wq) \cup {p}
    BY SMT, <2>1, <1>3, AppendOf
  <2> QED BY <2>2, <1>2
<1>6. /\ Waiting' = Waiting \cup {p} /\ Coming' = Coming \cup {p + 1}
      /\ Later' \subseteq Later \cup {p + 1} /\ p \in Later /\ p \in Coming
  BY <1>5, <1>1, <1>2 DEF Waiting, Coming, Pending, Later
<1>7. \A X \in SUBSET Nat : /\ Before(X, Later) => Before(X, Later')
                            /\ Before(X, Coming) => Before(X, Coming')
  <2>1. \A X \in SUBSET Nat :
          /\ Before(X, Later) => Before(X, Later \cup {p + 1})
          /\ Before(X, Coming) => Before(X, Coming \cup {p + 1})
    BY <1>3, <1>6, BeforeNext
  <2> QED BY <2>1, <1>6 DEF Before
<1>8. ASSUME NEW n \in Nat, Counter(n)
      PROVE  n <= api_inst_pc' /\ Before({n}, Later' \ {0})
  <2>1. n <= p /\ Before({n}, Later \ {0})
    BY <1>1, <1>8 DEF Counter
  <2>2. n <= p + 1 /\ n < p + 1
    BY SMT, <2>1, <1>3
  <2> QED BY <2>1, <2>2, <1>2, <1>6 DEF Before
<1>9. /\ Waiting \in SUBSET Nat /\ max_wqe_id \in Nat /\ worker.max \in Nat
      /\ Range(wqes) \in SUBSET Nat /\ Elements(contents) \in SUBSET Nat
  <2>1. max_wqe_id \in Nat /\ worker.max \in Nat
    BY SMT, CallNumbers DEF Types, QueueTypes, WorkerTypes
  <2> QED BY <2>1, LaterNat, ContentsCalls, CallNumbers
<1>10. Queues'
  <2>1. Before(Waiting', {api_inst_pc'})
    BY <1>1, <1>2, <1>3, <1>6, <1>9 DEF Order, Queues, Before
  <2>2. Counter(max_wqe_id)'
    BY <1>2, <1>8, <1>9 DEF Order, Queues, Counter
  <2>3. Before(Range(wqes'), Coming')
    <3>1. Before(Range(wqes), Coming)
      BY DEF Order, Queues
    <3>2. Before(Range(wqes), Coming')
      BY <3>1, <1>7, <1>9
    <3> QED BY <3>2, <1>2
  <2>4. Before(Range(parser2worker_wq'), Range(rpc2parser_wq'))
    BY <1>5, <1>1, <1>2 DEF Order, Queues, Before, Waiting
  <2>5. Increasing(rpc2parser_wq')
    <3>1. Before(Range(rpc2parser_wq), {p})
      BY <1>1 DEF Order, Queues, Before, Waiting
    <3> QED BY <3>1, <1>2, <1>3, IncreasingAppend
       DEF Types, QueueTypes, Order, Queues
  <2> QED BY <2>1, <2>2, <2>3, <2>4, <2>5, <1>2 DEF Order, Queues
<1>11. Effects'
  <2>1. Before(Elements(contents), Later)
    BY DEF Order, Effects
  <2>2. Before(Elements(contents), Later')
    BY <2>1, <1>7, <1>9
  <2> QED BY <2>2, <1>2 DEF Order, Effects
<1>12. Stopped'
  <2>1. worker.pc # "loop" => Counter(worker.max)'
    BY <1>2, <1>8, <1>9 DEF Order, Stopped, Counter
  <2> QED BY <2>1, <1>2, <1>4 DEF Order, Stopped
<1>13. Directories'
  <2>1. ASSUME NEW c \in Live
        PROVE  cmd'[c].type # "none" /\ WrittenNow(files[c])'
    <3>1. c \in Cmds /\ cmd[c].type # "none" /\ WrittenNow(files[c])
      BY <1>4, LiveCmds DEF Order, Directories
    <3>2. PICK f, ran, later, later2, still :
            /\ f = files[c] /\ ran = Elements(contents) /\ later = Later
            /\ later2 = Later' /\ still = Still
      OBVIOUS
    <3>3. Written(f, ran, later, p, still) /\ IsCkpt(f) /\ ~still
      BY <3>1, <3>2, <1>1, <1>4 DEF WrittenNow, Still, Types, FileTypes
    <3>4. Written(f, ran, later2, p + 1, still)
      <4>1. later2 \subseteq later \cup {p + 1} /\ p \in later
        BY <3>2, <1>6
      <4> QED BY <3>3, <4>1, <1>3, IssueWritten
    <3>5. Still' = Still
      BY <1>2 DEF Still
    <3>6. WrittenNow(files[c])'
      BY <3>2, <3>4, <3>5, <1>2 DEF WrittenNow, Written
    <3> QED BY <3>1, <3>6, <1>2
  <2>2. Live' = Live
    BY <1>2 DEF Live, cmd_queues
  <2> QED BY <2>1, <2>2, <1>2 DEF Order, Directories
<1> QED BY <1>10, <1>11, <1>12, <1>13 DEF Order

\* The parser takes a call and may pass it on.
LEMMA ParseOrder ==
    ASSUME Inv, Types, Order, Parse \/ ParseFails
    PROVE  Order'
<1>1. PICK i : i = Head(rpc2parser_wq)
  OBVIOUS
<1>2. /\ rpc2parser_wq # <<>> /\ rpc2parser_wq' = Tail(rpc2parser_wq)
      /\ \/ parser2worker_wq' = parser2worker_wq
         \/ parser2worker_wq' = Append(parser2worker_wq, i)
      /\ UNCHANGED <<registered, offline_counter, api_inst_pc, wqes,
                     max_wqe_id, contents, cmd_queues, cmd, worker,
                     ckpt_active, ckpt_cmd, oob, files>>
  BY <1>1 DEF Parse, ParseFails, client, handles, worker_vars
<1>3. /\ i \in Calls /\ Range(rpc2parser_wq) = {i} \cup Range(rpc2parser_wq')
      /\ Before({i}, Range(rpc2parser_wq')) /\ Increasing(rpc2parser_wq')
  BY <1>1, <1>2, TailOf, IncreasingTail
     DEF Types, QueueTypes, Order, Queues
<1>4. i \notin Range(parser2worker_wq)
  <2>1. ~(i < i)
    BY SMT, <1>3, CallNumbers
  <2> QED BY <2>1, <1>3 DEF Order, Queues, Before
<1>5. /\ Range(parser2worker_wq') \subseteq Range(parser2worker_wq) \cup {i}
      /\ Distinct(parser2worker_wq')
  <2>1. parser2worker_wq \in Seq(Calls) /\ Distinct(parser2worker_wq)
    BY DEF Types, QueueTypes, Order, Queues
  <2>2. Range(Append(parser2worker_wq, i)) = Range(parser2worker_wq) \cup {i}
    BY SMT, <2>1, <1>3, AppendOf
  <2>3. Distinct(Append(parser2worker_wq, i))
    BY <2>1, <1>3, <1>4, DistinctAppend
  <2> QED BY <1>2, <2>1, <2>2, <2>3
<1>6. /\ Waiting' \subseteq Waiting /\ Coming' \subseteq Coming
      /\ Pending' \subseteq Pending /\ Later' \subseteq Later
  BY <1>2, <1>3, <1>5 DEF Waiting, Coming, Pending, Later
<1>7. Queues'
  <2>1. Counter(max_wqe_id)'
    BY <1>2, <1>6 DEF Order, Queues, Counter, Before
  <2> QED BY <2>1, <1>2, <1>3, <1>5, <1>6 DEF Order, Queues, Before
<1>8. Effects'
  BY <1>2, <1>6 DEF Order, Effects, Before
<1>9. Stopped'
  BY <1>2, <1>6 DEF Order, Stopped, Counter, Before
<1>10. Directories'
  <2>1. (Still => Still') /\ Live' = Live
    BY <1>2 DEF Still, Live, cmd_queues
  <2> QED BY <2>1, <1>2, <1>6, LiveCmds, DirectoriesKept DEF Order
<1> QED BY <1>7, <1>8, <1>9, <1>10 DEF Order

\* The worker polls only while the client runs, or a caller waits; what may
\* be left behind a finished dump is call 0.
LEMMA PollOrder ==
    ASSUME Inv, Types, Order, PollCalls
    PROVE  Order'
<1>1. /\ registered /\ worker.pc = "loop" /\ wqes = <<>>
      /\ parser2worker_wq # <<>> /\ ~(ckpt_active /\ ~is_under_sync_call)
      /\ wqes' = parser2worker_wq /\ parser2worker_wq' = <<>>
      /\ UNCHANGED <<registered, offline_counter, api_inst_pc, rpc2parser_wq,
                     max_wqe_id, contents, cmd_queues, cmd, worker,
                     ckpt_active, ckpt_cmd, oob, files>>
  BY DEF PollCalls, client, handles
<1>2. offline_counter = 2 => ~ckpt_active /\ Pending = {}
  <2>1. offline_counter = 2 => ~is_under_sync_call
    BY SMT DEF Inv, Rpc
  <2> QED BY <2>1, <1>1 DEF Order, Stopped
<1>3. /\ Range(parser2worker_wq') = {} /\ Waiting' = Range(rpc2parser_wq)
      /\ Waiting' \subseteq Waiting /\ Pending' \subseteq Pending
      /\ Later' \subseteq Later /\ Range(wqes') \subseteq Waiting
      /\ Range(wqes') \ {0} \subseteq Pending /\ Distinct(parser2worker_wq')
  BY <1>1, EmptyRange DEF Waiting, Pending, Later
<1>4. Queues'
  <2>1. Before(Range(wqes'), Coming')
    <3>1. Coming' = Range(rpc2parser_wq) \cup {api_inst_pc}
      BY <1>1, <1>3 DEF Coming
    <3>2. /\ Before(Range(parser2worker_wq), Range(rpc2parser_wq))
          /\ Before(Range(parser2worker_wq), {api_inst_pc})
      BY DEF Order, Queues, Before, Waiting
    <3> QED BY <1>1, <3>1, <3>2 DEF Before
  <2>2. Counter(max_wqe_id)'
    BY <1>1, <1>3 DEF Order, Queues, Counter, Before
  <2> QED BY <2>1, <2>2, <1>1, <1>3 DEF Order, Queues, Before
<1>5. Effects'
  <2>1. ASSUME NEW x \in Elements(contents), NEW w \in Range(wqes') \ {0}
        PROVE  x # w /\ x < w
    <3>1. x < w
      BY <1>3 DEF Order, Effects, Before, Later
    <3>2. x \in Nat
      BY ContentsCalls, LaterNat
    <3> QED BY SMT, <3>1, <3>2
  <2>2. Ran(contents, Range(wqes') \ {0}, max_wqe_id)
    BY <2>1 DEF Ran
  <2> QED BY <2>2, <1>1, <1>3 DEF Order, Effects, Before
<1>6. offline_counter = 2 => Pending' = {} /\ Range(wqes') \subseteq {0}
  BY <1>2, <1>3
<1>7. Stopped'
  BY <1>1, <1>6 DEF Order, Stopped
<1>8. Directories'
  <2>1. (Still => Still') /\ Live' = Live
    BY <1>1, <1>6 DEF Still, Live, cmd_queues
  <2> QED BY <2>1, <1>1, <1>3, LiveCmds, DirectoriesKept DEF Order
<1> QED BY <1>4, <1>5, <1>7, <1>8 DEF Order

\* The worker takes the next of the calls it polled: the client is not stopped,
\* or the dump waits for the worker, or the call is no launch.
LEMMA NextCall ==
    ASSUME Inv, Types, Order, wqes # <<>>, wqes' = Tail(wqes),
           UNCHANGED <<registered, offline_counter, api_inst_pc,
                       rpc2parser_wq, parser2worker_wq, cmd_queues, cmd,
                       worker, ckpt_active, ckpt_cmd, oob, files>>,
           Head(wqes) = 0 => contents' = contents
    PROVE  /\ Head(wqes) \in Calls
           /\ Range(wqes) = {Head(wqes)} \cup Range(wqes')
           /\ Head(wqes) \notin Range(wqes') /\ Distinct(wqes')
           /\ Waiting' = Waiting /\ Coming' = Coming
           /\ Pending' = Pending /\ Later' = Later
           /\ Stopped' /\ Directories'
<1>1. wqes \in Seq(Calls) /\ Distinct(wqes)
  BY DEF Types, QueueTypes, Order, Queues
<1>2. /\ Head(wqes) \in Calls /\ Range(wqes) = {Head(wqes)} \cup Range(wqes')
      /\ Head(wqes) \notin Range(wqes') /\ Distinct(wqes')
  BY <1>1, TailOf, DistinctTail
<1>3. /\ Waiting' = Waiting /\ Coming' = Coming
      /\ Pending' = Pending /\ Later' = Later
  BY DEF Waiting, Coming, Pending, Later
<1>4. Stopped'
  BY <1>2, <1>3 DEF Order, Stopped, Counter
<1>5. Directories'
  <2>1. (Still => Still' /\ contents' = contents) /\ Live' = Live
    BY <1>2 DEF Still, Live, cmd_queues
  <2> QED BY <2>1, <1>3, LiveCmds, DirectoriesKept DEF Order
<1> QED BY <1>2, <1>3, <1>4, <1>5

\* A call that is later than what took effect does so itself.
LEMMA CallAppended ==
    ASSUME Types, AllIncreasing(contents), NEW i \in Calls,
           Before(Elements(contents), {i}), NEW h,
           contents' = [contents EXCEPT ![h] = Append(@, i)]
    PROVE  /\ AllIncreasing(contents')
           /\ Elements(contents') \subseteq Elements(contents) \cup {i}
<1>1. DOMAIN contents = Handles /\ DOMAIN contents' = Handles
  BY DEF Types, HandleTypes
<1>2. \A g \in Handles : contents[g] \in Seq(Calls)
  BY DEF Types, HandleTypes
<1>3. ASSUME NEW g \in Handles
      PROVE  /\ Increasing(contents'[g])
             /\ Range(contents'[g]) \subseteq Elements(contents) \cup {i}
  <2>1. /\ contents[g] \in Seq(Calls) /\ Increasing(contents[g])
        /\ Range(contents[g]) \subseteq Elements(contents)
    BY <1>1, <1>2 DEF AllIncreasing, Elements
  <2>2. Before(Range(contents[g]), {i})
    BY <2>1 DEF Before
  <2>3. /\ Increasing(Append(contents[g], i))
        /\ Range(Append(contents[g], i)) = Range(contents[g]) \cup {i}
    <3>1. Increasing(Append(contents[g], i))
      BY <2>1, <2>2, IncreasingAppend
    <3>2. Range(Append(contents[g], i)) = Range(contents[g]) \cup {i}
      BY SMT, <2>1, AppendOf
    <3> QED BY <3>1, <3>2
  <2>4. contents'[g] = contents[g] \/ contents'[g] = Append(contents[g], i)
    BY <1>1
  <2> QED BY <2>1, <2>3, <2>4
<1>4. AllIncreasing(contents')
  BY <1>1, <1>3 DEF AllIncreasing
<1>5. ASSUME NEW x \in Elements(contents')
      PROVE  x \in Elements(contents) \cup {i}
  <2>1. PICK g \in Handles : x \in Range(contents'[g])
    BY <1>1 DEF Elements
  <2> QED BY <2>1, <1>3
<1> QED BY <1>4, <1>5

\* The worker runs a call, unless its assertion stops the daemon.
LEMMA ExecuteOrder ==
    ASSUME Inv, Types, Order, NEW ok \in BOOLEAN, Execute(ok), ~crashed'
    PROVE  Order'
<1>1. PICK i : i = Head(wqes)
  OBVIOUS
<1>2. /\ wqes # <<>> /\ wqes' = Tail(wqes) /\ max_wqe_id' = i
      /\ ~(i < max_wqe_id)
      /\ UNCHANGED <<registered, offline_counter, api_inst_pc, rpc2parser_wq,
                     parser2worker_wq, cmd_queues, cmd, worker, ckpt_active,
                     ckpt_cmd, oob, files>>
  BY <1>1 DEF Execute, client
<1>3. i = 0 => contents' = contents
  <2>1. i = 0 => call[i].kind # "launch"
    BY DEF Types, CallTypes
  <2> QED BY <2>1, <1>1 DEF Execute, Run
<1>4. /\ i \in Calls /\ Range(wqes) = {i} \cup Range(wqes')
      /\ i \notin Range(wqes') /\ Distinct(wqes')
      /\ Waiting' = Waiting /\ Coming' = Coming
      /\ Pending' = Pending /\ Later' = Later
      /\ Stopped' /\ Directories'
  BY <1>1, <1>2, <1>3, NextCall
<1>5. i # 0 => \A x \in Elements(contents) : x < i /\ x <= i
  <2>1. ASSUME i # 0, NEW x \in Elements(contents) PROVE x < i /\ x <= i
    <3>1. x # i /\ (x < i \/ x <= max_wqe_id)
      BY <2>1, <1>4 DEF Order, Effects, Ran
    <3>2. x \in Nat /\ i \in Nat
      BY <1>4, ContentsCalls, LaterNat
    <3>3. max_wqe_id \in Nat
      BY SMT, CallNumbers DEF Types, QueueTypes
    <3> QED BY SMTT(30), <3>1, <3>2, <3>3, <1>2
  <2> QED BY <2>1
<1>6. i # 0 => Before(Elements(contents), {i})
  BY <1>5 DEF Before
<1>7. /\ AllIncreasing(contents')
      /\ Elements(contents') \subseteq Elements(contents) \cup {i}
  <2>1. \/ contents' = contents
        \/ \E h : contents' = [contents EXCEPT ![h] = Append(@, i)]
    BY <1>1 DEF Execute, Run
  <2> QED BY <2>1, <1>4, <1>6, <1>3, CallAppended DEF Order, Effects
<1>8. Queues'
  <2>1. Before({i}, Coming) /\ Later \ {0} \subseteq Coming
    BY <1>4 DEF Order, Queues, Before, Later, Pending, Coming
  <2>2. i <= api_inst_pc
    <3>1. i < api_inst_pc /\ i \in Nat /\ api_inst_pc \in Nat
      BY <2>1, <1>4, LaterNat DEF Before, Coming
    <3> QED BY SMT, <3>1
  <2>3. Counter(max_wqe_id)'
    BY <2>1, <2>2, <1>2, <1>4 DEF Counter, Before
  <2> QED BY <2>3, <1>2, <1>4 DEF Order, Queues, Before
<1>9. Before(Elements(contents'), Later')
  <2>1. Before({i}, Later)
    BY <1>4 DEF Order, Queues, Before, Later, Pending, Coming
  <2> QED BY <2>1, <1>4, <1>7 DEF Order, Effects, Before
<1>10. Ran(contents', Range(wqes') \ {0}, i)
  <2>1. i <= i
    BY SMT, <1>4, CallNumbers
  <2>2. \A x \in Elements(contents), w \in Range(wqes') \ {0} : x # w
    BY <1>4 DEF Order, Effects, Ran
  <2>3. CASE i # 0
    BY <2>1, <2>2, <2>3, <1>4, <1>5, <1>7 DEF Ran
  <2>4. CASE i = 0
    <3>1. max_wqe_id = 0
      BY SMT, <2>4, <1>2, CallNumbers DEF Types, QueueTypes
    <3> QED BY <3>1, <2>4, <1>4, <1>3 DEF Order, Effects, Ran
  <2> QED BY <2>3, <2>4
<1>11. Effects'
  BY <1>2, <1>7, <1>9, <1>10 DEF Effects, Ran
<1> QED BY <1>4, <1>8, <1>11 DEF Order

----------------------------------------------------------------------------
(* The checkpoint *)

\* The worker writes to the directory of a command that is underway.
LEMMA DirectoriesWritten ==
    ASSUME Directories, registered, NEW c \in Cmds, c \in Live, NEW f,
           DOMAIN files = Cmds, files' = [files EXCEPT ![c] = f],
           UNCHANGED <<registered, api_inst_pc, contents, wqes,
                       offline_counter>>,
           Live' \subseteq Live, Later' \subseteq Later, Live \subseteq Cmds,
           \A d \in Cmds : cmd[d].type # "none" => cmd'[d].type # "none",
           Written(f, Elements(contents), Later', api_inst_pc, Still)
    PROVE  Directories'
<1>1. files'[c] = f /\ \A d \in Cmds : d # c => files'[d] = files[d]
  OBVIOUS
<1>2. f.pc = NotSaved
  BY DEF Written
<1>3. Still' = Still
  BY DEF Still
<1>4. ASSUME NEW d \in Live'
      PROVE  cmd'[d].type # "none" /\ WrittenNow(files[d])'
  <2>1. cmd[d].type # "none" /\ WrittenNow(files[d]) /\ d \in Cmds
    BY <1>4 DEF Directories
  <2>2. PICK g, ran, later, later2, still :
          /\ g = files[d] /\ ran = Elements(contents) /\ later = Later
          /\ later2 = Later' /\ still = Still
    OBVIOUS
  <2>3. Written(g, ran, later2, api_inst_pc, still)
    <3>1. Written(g, ran, later, api_inst_pc, still)
      BY <2>1, <2>2 DEF WrittenNow
    <3>2. later2 \subseteq later
      BY <2>2
    <3> QED BY <3>1, <3>2 DEF Written, Before
  <2>4. CASE d = c
    BY <2>1, <2>4, <1>1, <1>3 DEF WrittenNow, Written
  <2>5. CASE d # c
    <3>1. files'[d] = g
      BY <2>1, <2>2, <2>5, <1>1
    <3>2. WrittenNow(files[d])'
      BY <3>1, <2>2, <2>3, <1>3 DEF WrittenNow, Written
    <3> QED BY <3>2, <2>1
  <2> QED BY <2>4, <2>5
<1>5. cmd[c].type # "none"
  BY DEF Directories
<1>6. ASSUME NEW d \in Cmds
      PROVE  /\ files'[d].pc # NotSaved => Complete(files'[d])
             /\ cmd'[d].type = "none" => files'[d] = NoFiles
  BY <1>1, <1>2, <1>5 DEF Directories
<1> QED BY <1>4, <1>6 DEF Directories, Complete

\* While the worker is at a command, the command is underway and answering it
\* keeps it so.
LEMMA WorkerLive ==
    ASSUME Inv, Types, Order, worker.pc # "loop"
    PROVE  worker.cmd \in Cmds /\ worker.cmd \in Live /\ registered
<1>1. worker.cmd \in Cmds
  BY DEF Inv, HType, WType
<1> QED BY <1>1 DEF Order, Stopped, Live

\* The worker answers its command.
LEMMA ReplyLive ==
    ASSUME Inv, Types, Order, worker.pc # "loop", NEW r, reply_parser(r),
           UNCHANGED <<oob2parser_cmd_wq, parser2worker_cmd_wq, oob>>,
           ckpt_active' => ckpt_active /\ ckpt_cmd' = ckpt_cmd
    PROVE  /\ Live' \subseteq Live /\ worker'.pc = "loop"
           /\ \A d \in Cmds : cmd[d].type # "none" => cmd'[d].type # "none"
<1>1. /\ cmd' = [cmd EXCEPT ![worker.cmd].retval = r] /\ worker'.pc = "loop"
      /\ parser2worker_cmd_cq' = Append(parser2worker_cmd_cq, worker.cmd)
  BY SMT DEF reply_parser, Polling
<1>2. worker.cmd \in Cmds /\ worker.cmd \in Live
  BY WorkerLive
<1>3. Range(parser2worker_cmd_cq') = Range(parser2worker_cmd_cq)
                                       \cup {worker.cmd}
  <2>1. parser2worker_cmd_cq \in Seq(Cmds)
    BY DEF Inv, HType, QType
  <2> QED BY SMTT(30), <2>1, <1>1, <1>2, AppendOf
<1>4. Live' \subseteq Live
  BY <1>1, <1>2, <1>3 DEF Live
<1>5. \A d \in Cmds : cmd'[d].type = cmd[d].type
  <2>1. cmd \in [Cmds -> Cmd]
    BY DEF Inv, HType, QType
  <2> QED BY SMT, <2>1, <1>1 DEF Cmd
<1> QED BY <1>1, <1>4, <1>5

\* The contents of handles are saved over those of an earlier attempt.
LEMMA SavedOrder ==
    ASSUME Types, NEW S \in SUBSET Handles, NEW c \in Cmds,
           AllIncreasing(contents), AllIncreasing(files[c].state)
    PROVE  /\ AllIncreasing(SavedState(S, c))
           /\ Elements(SavedState(S, c)) \subseteq
                Elements(contents) \cup Elements(files[c].state)
<1>1. PICK s : s = SavedState(S, c)
  OBVIOUS
<1>2. /\ DOMAIN contents = Handles
      /\ DOMAIN s = S \cup DOMAIN files[c].state
      /\ \A h \in DOMAIN s :
           IF h \in S THEN s[h] = contents[h] ELSE s[h] = files[c].state[h]
  BY <1>1 DEF Types, HandleTypes, SavedState
<1>3. ASSUME NEW h \in DOMAIN s
      PROVE  /\ Increasing(s[h])
             /\ Range(s[h]) \subseteq
                  Elements(contents) \cup Elements(files[c].state)
  <2>1. CASE h \in S
    BY <2>1, <1>2 DEF AllIncreasing, Elements
  <2>2. CASE h \notin S
    BY <2>2, <1>2 DEF AllIncreasing, Elements
  <2> QED BY <2>1, <2>2
<1>4. AllIncreasing(s)
  BY <1>3 DEF AllIncreasing
<1>5. ASSUME NEW x \in Elements(s)
      PROVE  x \in Elements(contents) \cup Elements(files[c].state)
  <2>1. PICK h \in DOMAIN s : x \in Range(s[h])
    BY DEF Elements
  <2> QED BY <2>1, <1>3
<1> QED BY <1>1, <1>4, <1>5

\* The worker saves the contents of the handles, or some of them.
LEMMA CheckpointOrder ==
    ASSUME Inv, Types, Order, CheckpointHandles \/ CheckpointFails
    PROVE  Order'
<1>1. /\ worker.pc = "handles" /\ worker.pc # "loop"
      /\ UNCHANGED <<registered, offline_counter, api_inst_pc, rpc2parser_wq,
                     parser2worker_wq, wqes, max_wqe_id, contents,
                     oob2parser_cmd_wq, parser2worker_cmd_wq, ckpt_active,
                     ckpt_cmd, oob>>
  <2>1. worker.pc = "handles"
    BY DEF CheckpointHandles, CheckpointFails
  <2>2. worker.pc # "loop"
    BY SMT, <2>1
  <2> QED BY <2>1, <2>2 DEF CheckpointHandles, CheckpointFails, client,
     api_queues, handles
<1>2. PICK c \in Cmds : c = worker.cmd /\ c \in Live /\ registered
  BY <1>1, WorkerLive
<1>3. /\ Queues' /\ Effects' /\ Later' = Later /\ Pending' = Pending
      /\ Elements(contents') = Elements(contents)
  BY <1>1, CallsQuiet DEF QueueVars
<1>4. /\ Live' \subseteq Live
      /\ \A d \in Cmds : cmd[d].type # "none" => cmd'[d].type # "none"
      /\ worker'.pc # "loop" => worker'.max = worker.max
  <2>1. CASE \E r : reply_parser(r)
    BY <2>1, <1>1, ReplyLive
  <2>2. CASE /\ worker' = [worker EXCEPT !.pc = "drain"]
             /\ UNCHANGED <<cmd, parser2worker_cmd_cq>>
    <3>1. worker'.cmd = worker.cmd /\ worker'.max = worker.max
      BY SMT, <2>2 DEF Inv, HType, WType
    <3> QED BY <3>1, <2>2, <1>1 DEF Live
  <2> QED BY <2>1, <2>2 DEF CheckpointHandles, CheckpointFails
<1>5. Stopped'
  BY <1>1, <1>2, <1>3, <1>4 DEF Order, Stopped, Counter
<1>6. PICK S \in SUBSET Active : files' = Persist(S)
  BY DEF CheckpointHandles, CheckpointFails
<1>7. PICK f : f = [files[c] EXCEPT !.state = SavedState(S, c)]
  OBVIOUS
<1>8. files' = [files EXCEPT ![c] = f]
  BY <1>1, <1>2, <1>6, <1>7, PersistTypes
<1>9. S \in SUBSET Handles
  <2>1. cmd[c].handles \subseteq Handles
    <3>1. cmd[c] \in Cmd
      BY DEF Inv, HType, QType
    <3> QED BY SMT, <3>1 DEF Cmd
  <2> QED BY <2>1, <1>2, <1>6 DEF Active
<1>10. Written(f, Elements(contents), Later', api_inst_pc, Still)
  <2>1. Written(files[c], Elements(contents), Later, api_inst_pc, Still)
    BY <1>2 DEF Order, Directories, WrittenNow
  <2>2. /\ f.state = SavedState(S, c) /\ f.ua = files[c].ua
        /\ f.pc = files[c].pc
    <3>1. IsCkpt(files[c])
      BY DEF Types, FileTypes
    <3> QED BY SMTT(30), <3>1, <1>7 DEF IsCkpt
  <2>3. /\ AllIncreasing(f.state)
        /\ Elements(f.state) \subseteq
             Elements(contents) \cup Elements(files[c].state)
    BY <2>1, <2>2, <1>9, SavedOrder DEF Order, Effects, Written
  <2>4. Before(Elements(contents), (files[c].ua \ {0}) \cup Later)
    BY <2>1 DEF Order, Effects, Written, Before
  <2>5. Before(Elements(f.state), (f.ua \ {0}) \cup Later)
    BY <2>1, <2>2, <2>3, <2>4 DEF Written, Before
  <2> QED BY <2>1, <2>2, <2>3, <2>5, <1>3 DEF Written
<1>11. Directories'
  <2>1. DOMAIN files = Cmds
    BY DEF Types, FileTypes
  <2> QED BY ZenonT(30), <2>1, <1>1, <1>2, <1>3, <1>4, <1>8, <1>10, LiveCmds,
     DirectoriesWritten DEF Order
<1> QED BY <1>3, <1>5, <1>11 DEF Order

\* From the drain on the client is stopped.
LEMMA DrainStill ==
    ASSUME Inv, Types, Order, worker.pc = "drain"
    PROVE  Still /\ worker.pc # "loop"
<1>1. worker.pc # "loop" /\ worker.pc \notin {"loop", "handles"}
      /\ worker.pc \notin {"loop", "first", "again"}
  BY SMT
<1>2. offline_counter # 0 /\ offline_counter # 1
  BY <1>1 DEF Inv, Online, Stopping
<1>3. offline_counter = 2
  BY SMT, <1>2 DEF Inv, HType, CType
<1>4. Range(wqes) = {}
  BY <1>1, EmptyRange DEF Order, Stopped
<1> QED BY <1>1, <1>3, <1>4 DEF Still

\* The worker saves the calls that wait, or some of them; the rest is lost
\* with the queue.
LEMMA DrainOrder ==
    ASSUME Inv, Types, Order, Drain \/ DrainFails
    PROVE  Order'
<1>1. /\ worker.pc = "drain" /\ parser2worker_wq' = <<>>
      /\ UNCHANGED <<registered, offline_counter, api_inst_pc, rpc2parser_wq,
                     wqes, max_wqe_id, contents, oob2parser_cmd_wq,
                     parser2worker_cmd_wq, ckpt_active, ckpt_cmd, oob>>
  BY DEF Drain, DrainFails, client, handles, cmd_queues
<1>2. Still /\ worker.pc # "loop"
  BY <1>1, DrainStill
<1>3. PICK c \in Cmds : c = worker.cmd /\ c \in Live /\ registered
  BY <1>2, WorkerLive
<1>4. /\ Waiting' = Range(rpc2parser_wq)
      /\ Coming' = Range(rpc2parser_wq) \cup {api_inst_pc}
      /\ Waiting' \subseteq Waiting /\ Coming' \subseteq Coming
      /\ Pending' \subseteq Pending /\ Later' \subseteq Later
      /\ Later' \subseteq Coming'
      /\ Range(parser2worker_wq') = {} /\ Distinct(parser2worker_wq')
  BY <1>1, EmptyRange DEF Waiting, Coming, Pending, Later
<1>5. Queues'
  <2>1. Counter(max_wqe_id)'
    BY <1>1, <1>4 DEF Order, Queues, Counter, Before
  <2> QED BY <2>1, <1>1, <1>4 DEF Order, Queues, Before
<1>6. Effects'
  BY <1>1, <1>4 DEF Order, Effects, Before
<1>7. /\ Live' \subseteq Live
      /\ \A d \in Cmds : cmd[d].type # "none" => cmd'[d].type # "none"
      /\ worker'.pc # "loop" => Counter(worker.max)'
  <2>1. CASE \E r : reply_parser(r)
    BY <2>1, <1>1, <1>2, ReplyLive
  <2>2. CASE Drain
    <3>1. PICK m : m = Max(Range(parser2worker_wq) \cup {worker.max})
      OBVIOUS
    <3>2. /\ worker' = [worker EXCEPT !.max = m]
          /\ UNCHANGED <<cmd, cmd_queues>>
      BY <2>2, <3>1 DEF Drain
    <3>3. /\ worker'.cmd = worker.cmd /\ worker'.pc = worker.pc
          /\ worker'.max = m
      BY SMT, <3>2 DEF Inv, HType, WType
    <3>4. m \in Range(parser2worker_wq) \cup {worker.max}
      <4>1. Range(parser2worker_wq) \in SUBSET Calls
        BY SeqRange DEF Types, QueueTypes
      <4>2. worker.max \in 0..LastCall
        BY SMT DEF Types, WorkerTypes
      <4> QED BY <3>1, <4>1, <4>2, MaxOf
    <3>5. Before({m}, Later' \ {0}) /\ m <= api_inst_pc
      <4>1. Before({worker.max}, Later \ {0}) /\ worker.max <= api_inst_pc
        BY <1>2 DEF Order, Stopped, Counter
      <4>2. /\ Before(Range(parser2worker_wq), Range(rpc2parser_wq))
            /\ Before(Range(parser2worker_wq), {api_inst_pc})
        BY DEF Order, Queues, Before, Waiting
      <4>3. \A x \in Range(parser2worker_wq) : x <= api_inst_pc
        <5>1. ASSUME NEW x \in Range(parser2worker_wq)
              PROVE  x < api_inst_pc /\ x \in Nat /\ api_inst_pc \in Nat
          BY <4>2, LaterNat DEF Before, Waiting
        <5>2. \A x, y \in Nat : x < y => x <= y
          BY SMT
        <5> QED BY <5>1, <5>2
      <4> QED BY <3>4, <4>1, <4>2, <4>3, <1>4 DEF Before
    <3>6. Live' \subseteq Live
      BY <3>2, <3>3, <1>1 DEF Live, cmd_queues
    <3>7. Counter(worker.max)'
      BY <3>3, <3>5, <1>1 DEF Counter
    <3> QED BY <3>2, <3>6, <3>7
  <2> QED BY <2>1, <2>2 DEF DrainFails
<1>8. Stopped'
  BY <1>1, <1>2, <1>3, <1>4, <1>7 DEF Order, Stopped
<1>9. PICK U \in SUBSET Range(parser2worker_wq) :
        files' = [files EXCEPT ![worker.cmd].ua = @ \cup U]
  BY DrainFiles
<1>10. PICK f : f = [files[c] EXCEPT !.ua = files[c].ua \cup U]
  OBVIOUS
<1>11. files' = [files EXCEPT ![c] = f]
  BY <1>3, <1>9, <1>10
<1>12. Written(f, Elements(contents), Later', api_inst_pc, Still)
  <2>1. Written(files[c], Elements(contents), Later, api_inst_pc, Still)
    BY <1>3 DEF Order, Directories, WrittenNow
  <2>2. /\ f.state = files[c].state /\ f.ua = files[c].ua \cup U
        /\ f.pc = files[c].pc
    <3>1. IsCkpt(files[c])
      BY DEF Types, FileTypes
    <3> QED BY SMT, <3>1, <1>10 DEF IsCkpt
  <2>3. U \subseteq Waiting /\ U \ {0} \subseteq Later
    BY DEF Waiting, Pending, Later
  <2>4. Before(U, {api_inst_pc}) /\ Before(Elements(contents), U \ {0})
    BY <2>3 DEF Order, Queues, Effects, Before
  <2>5. Before(f.ua, {api_inst_pc}) /\ Before(Elements(contents), f.ua \ {0})
    BY <2>1, <2>2, <2>4 DEF Written, Before
  <2>6. Before(Elements(f.state), (f.ua \ {0}) \cup Later')
    BY <2>1, <2>2, <2>3, <1>4 DEF Written, Before
  <2> QED BY <2>1, <2>2, <2>5, <2>6, <1>2 DEF Written
<1>13. Directories'
  <2>1. DOMAIN files = Cmds
    BY DEF Types, FileTypes
  <2> QED BY ZenonT(30), <2>1, <1>1, <1>3, <1>4, <1>7, <1>11, <1>12, LiveCmds,
     DirectoriesWritten DEF Order
<1> QED BY <1>5, <1>6, <1>8, <1>13 DEF Order

\* The dump ends when the worker has seen the last call: nothing is left.
LEMMA FinishOrder ==
    ASSUME Inv, Types, Order, FinishDump
    PROVE  Order'
<1>1. /\ worker.pc = "drain" /\ ~Undrained /\ ckpt_active' = FALSE
      /\ \E r : reply_parser(r)
      /\ UNCHANGED <<registered, offline_counter, api_inst_pc, rpc2parser_wq,
                     parser2worker_wq, wqes, max_wqe_id, contents,
                     oob2parser_cmd_wq, parser2worker_cmd_wq, oob, files>>
  BY DEF FinishDump, client, api_queues
<1>2. Still /\ worker.pc # "loop"
  BY <1>1, DrainStill
<1>3. /\ Queues' /\ Effects' /\ Later' = Later /\ Pending' = Pending
      /\ Elements(contents') = Elements(contents)
  BY <1>1, CallsQuiet DEF QueueVars
<1>4. /\ Live' \subseteq Live /\ worker'.pc = "loop"
      /\ \A d \in Cmds : cmd[d].type # "none" => cmd'[d].type # "none"
  BY <1>1, <1>2, ReplyLive
<1>5. Pending = {}
  <2> SUFFICES ASSUME NEW x \in Pending PROVE FALSE
    OBVIOUS
  <2>1. worker.max < x /\ max_wqe_id < x /\ x < api_inst_pc
    BY <1>2 DEF Order, Stopped, Queues, Counter, Before, Pending, Later
  <2>2. /\ worker.max \in Nat /\ max_wqe_id \in Nat /\ x \in Nat
        /\ api_inst_pc \in Nat
    <3>1. worker.max \in Nat /\ max_wqe_id \in Nat
      BY SMT, CallNumbers DEF Types, QueueTypes, WorkerTypes
    <3> QED BY <3>1, LaterNat
  <2> QED BY SMT, <2>1, <2>2, <1>1 DEF Undrained
<1>6. Stopped'
  <2>1. registered
    BY <1>2, WorkerLive
  <2> QED BY <2>1, <1>1, <1>2, <1>3, <1>4, <1>5 DEF Stopped, Still
<1>7. Directories'
  <2>1. Still => Still'
    BY <1>1 DEF Still
  <2> QED BY <2>1, <1>1, <1>3, <1>4, LiveCmds, DirectoriesKept DEF Order
<1> QED BY <1>3, <1>6, <1>7 DEF Order

----------------------------------------------------------------------------
(* The OOB thread *)

\* 0 stands for no command.
LEMMA ZeroCmd == 0 \notin Cmds
BY SMT DEF Cmds

\* A new request has an empty directory.
LEMMA EmptyDirectory ==
    ASSUME NEW ran, NEW later, NEW pc, NEW still
    PROVE  Written(NoFiles, ran, later, pc, still)
<1>1. /\ NoFiles.pc = NotSaved /\ NoFiles.ua = {} /\ NoFiles.state = <<>>
      /\ DOMAIN <<>> = {}
  BY SMT DEF NoFiles
<1> QED BY <1>1 DEF Written, Before, AllIncreasing, Elements

\* The user asks for a dump or a pre-dump.
LEMMA RequestOrder ==
    ASSUME Inv, Types, Order, NEW dump \in BOOLEAN, Request(dump)
    PROVE  Order'
<1>1. PICK c \in Cmds :
        /\ registered /\ Requested = 1..(c - 1)
        /\ cmd' = [cmd EXCEPT ![c].type = IF dump THEN "oob2parser_dump"
                                            ELSE "oob2parser_predump"]
        /\ oob2parser_cmd_wq' = Append(oob2parser_cmd_wq, c)
        /\ oob' = [cmd |-> c, dump |-> dump]
        /\ UNCHANGED <<registered, offline_counter, api_inst_pc, rpc2parser_wq,
                       parser2worker_wq, wqes, max_wqe_id, contents,
                       parser2worker_cmd_wq, parser2worker_cmd_cq, worker,
                       ckpt_active, ckpt_cmd, files>>
  BY DEF Request, client, api_queues, handles, worker_vars
<1>2. /\ Queues' /\ Effects' /\ Later' = Later /\ Pending' = Pending
      /\ Elements(contents') = Elements(contents)
  BY <1>1, CallsQuiet DEF QueueVars
<1>3. Stopped'
  BY <1>1, <1>2 DEF Order, Stopped, Counter
<1>4. Live' \subseteq Live \cup {c}
  <2>1. Range(oob2parser_cmd_wq') = Range(oob2parser_cmd_wq) \cup {c}
    <3>1. oob2parser_cmd_wq \in Seq(Cmds)
      BY DEF Inv, HType, QType
    <3> QED BY SMTT(30), <3>1, <1>1, AppendOf
  <2>2. oob'.cmd = c
    BY SMT, <1>1
  <2> QED BY <2>1, <2>2, <1>1 DEF Live
<1>5. cmd[c].type = "none"
  <2>1. c \notin Requested
    BY SMT, <1>1 DEF Cmds
  <2> QED BY <2>1 DEF Requested
<1>6. /\ cmd'[c].type # "none"
      /\ \A d \in Cmds : d # c => cmd'[d] = cmd[d]
  <2>1. cmd \in [Cmds -> Cmd]
    BY DEF Inv, HType, QType
  <2> QED BY SMT, <2>1, <1>1 DEF Cmd
<1>7. files[c] = NoFiles
  BY <1>5 DEF Order, Directories
<1>8. ASSUME NEW d \in Live'
      PROVE  cmd'[d].type # "none" /\ WrittenNow(files[d])'
  <2>1. Still' = Still
    BY <1>1 DEF Still
  <2>2. CASE d = c
    <3>1. PICK ran, later, pc, still :
            /\ ran = Elements(contents') /\ later = Later' /\ pc = api_inst_pc'
            /\ still = Still'
      OBVIOUS
    <3>2. Written(NoFiles, ran, later, pc, still)
      BY EmptyDirectory
    <3>3. files'[d] = NoFiles
      BY <2>2, <1>1, <1>7
    <3>4. WrittenNow(files[d])'
      BY <3>1, <3>2, <3>3 DEF WrittenNow, Written
    <3> QED BY <3>4, <2>2, <1>6
  <2>3. CASE d # c
    <3>1. d \in Live /\ d \in Cmds
      BY <2>3, <1>4, <1>8, LiveCmds
    <3>2. cmd[d].type # "none" /\ WrittenNow(files[d])
      BY <3>1, <1>1 DEF Order, Directories
    <3>3. WrittenNow(files[d])'
      BY <3>2, <2>1, <1>1, <1>2 DEF WrittenNow, Written
    <3> QED BY <3>1, <3>2, <3>3, <2>3, <1>6
  <2> QED BY <2>2, <2>3
<1>9. Directories'
  <2>1. \A d \in Cmds : cmd'[d].type = "none" => cmd[d].type = "none"
    BY <1>6
  <2> QED BY <2>1, <1>1, <1>8 DEF Order, Directories
<1> QED BY <1>2, <1>3, <1>9 DEF Order

\* The user is answered.
LEMMA AnswerOrder ==
    ASSUME Inv, Types, Order, Answer
    PROVE  Order'
<1>1. /\ oob.cmd # 0 /\ oob' = NoRequest
      /\ UNCHANGED <<registered, offline_counter, api_inst_pc, rpc2parser_wq,
                     parser2worker_wq, wqes, max_wqe_id, contents,
                     oob2parser_cmd_wq, parser2worker_cmd_wq,
                     parser2worker_cmd_cq, cmd, worker, ckpt_active, ckpt_cmd,
                     files>>
  BY DEF Answer, client, api_queues, handles, worker_vars
<1>2. oob'.cmd = 0
  BY SMT, <1>1 DEF NoRequest
<1>3. /\ Queues' /\ Effects' /\ Later' = Later /\ Pending' = Pending
      /\ Elements(contents') = Elements(contents)
  BY <1>1, CallsQuiet DEF QueueVars
<1>4. Stopped'
  BY <1>1, <1>2, <1>3 DEF Order, Stopped, Counter
<1>5. (Still => Still') /\ Live' \subseteq Live
  BY <1>1, <1>2, ZeroCmd DEF Still, Live
<1>6. Directories'
  BY <1>1, <1>3, <1>5, LiveCmds, DirectoriesKept DEF Order
<1> QED BY <1>3, <1>4, <1>6 DEF Order

\* The directory of a dump that succeeded can be restored.
LEMMA RemoveOrder ==
    ASSUME Inv, Types, Order, AnswerAndRemove, ~crashed'
    PROVE  Order'
<1>1. /\ oob.cmd # 0 /\ oob' = NoRequest /\ registered' = FALSE
      /\ worker.pc = "loop" /\ wqes = <<>>
      /\ \/ files' = [files EXCEPT ![oob.cmd] =
                         [@ EXCEPT !.pc = api_inst_pc, !.call = call]]
         \/ files' = files
      /\ UNCHANGED <<offline_counter, api_inst_pc, rpc2parser_wq,
                     parser2worker_wq, wqes, max_wqe_id, contents,
                     oob2parser_cmd_wq, parser2worker_cmd_wq,
                     parser2worker_cmd_cq, cmd, worker, ckpt_active, ckpt_cmd>>
  BY DEF AnswerAndRemove, api_queues, handles, worker_vars
<1>2. oob'.cmd = 0
  BY SMT, <1>1 DEF NoRequest
<1>3. /\ Queues' /\ Effects' /\ Later' = Later /\ Pending' = Pending
  BY <1>1, CallsQuiet DEF QueueVars
<1>4. Stopped'
  BY <1>1, <1>2, <1>3 DEF Order, Stopped, Counter
<1>5. PICK c \in Cmds : c = oob.cmd /\ c \in Live
  <2>1. oob.cmd \in Cmds
    BY SMT, <1>1, BoundsAssumption DEF Inv, HType, CType, Cmds
  <2> QED BY <2>1 DEF Live
<1>6. registered /\ cmd[c].type # "none" /\ WrittenNow(files[c])
  BY <1>1, <1>5 DEF Order, Stopped, Directories
<1>7. PICK f : f = [files[c] EXCEPT !.pc = api_inst_pc, !.call = call]
  OBVIOUS
<1>8. /\ f.pc = api_inst_pc /\ f.ua = files[c].ua /\ f.state = files[c].state
  <2>1. IsCkpt(files[c])
    BY DEF Types, FileTypes
  <2> QED BY SMT, <2>1, <1>7 DEF IsCkpt
<1>9. Complete(f)
  <2>1. Before(Elements(files[c].state),
               (files[c].ua \ {0}) \cup {api_inst_pc})
    BY <1>6 DEF WrittenNow, Written, Before, Later
  <2> QED BY <2>1, <1>6, <1>8 DEF WrittenNow, Written, Complete
<1>10. \A d \in Cmds : files'[d] = files[d] \/ (d = c /\ files'[d] = f)
  <2>1. DOMAIN files = Cmds
    BY DEF Types, FileTypes
  <2> QED BY <2>1, <1>1, <1>5, <1>7
<1>11. Directories'
  <2>1. ASSUME NEW d \in Cmds
        PROVE  /\ files'[d].pc # NotSaved => Complete(files'[d])
               /\ cmd'[d].type = "none" => files'[d] = NoFiles
    BY <1>1, <1>6, <1>9, <1>10 DEF Order, Directories
  <2> QED BY <2>1, <1>1 DEF Directories, Complete
<1> QED BY <1>3, <1>4, <1>11 DEF Order

\* Restore: the calls of the directory come after what its handles hold.
LEMMA RestoreOrder ==
    ASSUME Inv, Types, Order, NEW c \in Cmds, Restore(c)
    PROVE  Order'
<1>1. PICK f : f = files[c]
  OBVIOUS
<1>2. /\ oob.cmd = 0 /\ f.pc # NotSaved
      /\ registered' = TRUE /\ offline_counter' = 0 /\ api_inst_pc' = f.pc
      /\ contents' = RestoredContents(f)
      /\ parser2worker_wq' \in Bijection(1..Cardinality(f.ua), f.ua)
      /\ rpc2parser_wq' = <<>> /\ oob2parser_cmd_wq' = <<>>
      /\ parser2worker_cmd_wq' = <<>> /\ parser2worker_cmd_cq' = <<>>
      /\ worker' = Polling /\ wqes' = <<>> /\ max_wqe_id' = 0
      /\ ckpt_active' = FALSE /\ UNCHANGED <<cmd, oob, files>>
  BY <1>1 DEF Restore
<1>3. Complete(f) /\ IsCkpt(f)
  BY <1>1, <1>2 DEF Order, Directories, Types, FileTypes
<1>4. /\ Range(parser2worker_wq') \subseteq f.ua /\ Distinct(parser2worker_wq')
      /\ f.ua \subseteq Calls /\ f.ua \subseteq Nat
  BY <1>2, <1>3, BijectionOf, CallNumbers DEF IsCkpt
<1>5. /\ Range(rpc2parser_wq') = {} /\ Range(wqes') = {}
      /\ Increasing(rpc2parser_wq') /\ Distinct(wqes')
      /\ Range(oob2parser_cmd_wq') = {} /\ Range(parser2worker_cmd_wq') = {}
      /\ Range(parser2worker_cmd_cq') = {} /\ Range(<<>>) = {}
      /\ Increasing(<<>>)
  BY <1>2, EmptyRange
<1>6. /\ Waiting' \subseteq f.ua /\ Later' \subseteq (f.ua \ {0}) \cup {f.pc}
  BY <1>2, <1>4, <1>5 DEF Waiting, Pending, Later
<1>7. Queues'
  <2>1. f.pc \in Nat
    BY SMTT(30), <1>2, <1>3, CallNumbers DEF IsCkpt, NotSaved
  <2>2. 0 <= f.pc /\ Before({0}, Later' \ {0})
    BY <2>1, <1>4, <1>6, CounterZero
  <2>3. Counter(max_wqe_id)'
    BY <2>2, <1>2 DEF Counter
  <2>4. Before(Waiting', {api_inst_pc'})
    BY <1>2, <1>3, <1>6 DEF Complete, Before
  <2> QED BY ZenonT(30), <2>3, <2>4, <1>2, <1>4, <1>5 DEF Queues, Before
<1>8. Effects'
  <2>1. /\ DOMAIN contents' = Handles
        /\ \A h \in Handles : contents'[h] =
             IF h \in DOMAIN f.state THEN f.state[h] ELSE <<>>
    BY <1>2 DEF RestoredContents
  <2>2. AllIncreasing(contents')
    BY <2>1, <1>3, <1>5 DEF AllIncreasing, Complete
  <2>3. Elements(contents') \subseteq Elements(f.state)
    <3> SUFFICES ASSUME NEW x \in Elements(contents')
                 PROVE  x \in Elements(f.state)
      OBVIOUS
    <3>1. PICK h \in Handles : x \in Range(contents'[h])
      BY <2>1 DEF Elements
    <3> QED BY <3>1, <2>1, <1>5 DEF Elements
  <2>4. Before(Elements(contents'), Later')
    BY <2>3, <1>3, <1>6 DEF Complete, Before
  <2> QED BY <2>2, <2>4, <1>5 DEF Effects, Ran
<1>9. worker'.pc = "loop" /\ offline_counter' # 2
  BY SMT, <1>2 DEF Polling
<1>10. Stopped'
  BY <1>2, <1>9 DEF Stopped
<1>11. Live' = {}
  BY <1>2, <1>5, <1>9, ZeroCmd DEF Live
<1>12. Directories'
  BY <1>2, <1>11 DEF Order, Directories
<1> QED BY <1>7, <1>8, <1>10, <1>12 DEF Order

----------------------------------------------------------------------------
\* The client starts with no call, or with nothing but FirstCall behind it.
LEMMA InitOrder == Init => Order
<1> SUFFICES ASSUME Init PROVE Order
  OBVIOUS
<1>1. /\ registered = TRUE /\ offline_counter = 0
      /\ parser2worker_wq = <<>> /\ rpc2parser_wq = <<>> /\ wqes = <<>>
      /\ oob2parser_cmd_wq = <<>> /\ parser2worker_cmd_wq = <<>>
      /\ parser2worker_cmd_cq = <<>> /\ ckpt_active = FALSE
      /\ files = [c \in Cmds |-> NoFiles] /\ contents = [h \in Handles |-> <<>>]
  BY DEF Init
<1>2. worker.pc = "loop" /\ oob.cmd = 0
  BY SMT DEF Init, Polling, NoRequest
<1>3. offline_counter # 2
  BY SMT, <1>1
<1>4. Range(<<>>) = {} /\ Increasing(<<>>) /\ Distinct(<<>>)
  BY EmptyRange
<1>5. /\ Waiting = {} /\ Pending = {} /\ Later = {api_inst_pc}
      /\ Range(wqes) = {}
  BY <1>1, <1>4 DEF Waiting, Pending, Later
<1>6. Queues
  <2>1. /\ max_wqe_id <= api_inst_pc
        /\ api_inst_pc # 0 => max_wqe_id < api_inst_pc
    <3>1. CASE NewClient
      BY SMTT(30), <3>1 DEF NewClient
    <3>2. CASE OldClient
      BY SMT, <3>2, CallNumbers DEF OldClient
    <3> QED BY <3>1, <3>2 DEF Init
  <2>2. Counter(max_wqe_id)
    BY <2>1, <1>5 DEF Counter, Before
  <2> QED BY <2>2, <1>1, <1>4, <1>5 DEF Queues, Before
<1>7. Effects
  <2>1. DOMAIN contents = Handles /\ \A h \in Handles : contents[h] = <<>>
    BY <1>1
  <2>2. Elements(contents) = {} /\ AllIncreasing(contents)
    BY <2>1, <1>4 DEF Elements, AllIncreasing
  <2> QED BY <2>2 DEF Effects, Before, Ran
<1>8. Stopped
  BY <1>1, <1>2, <1>3 DEF Stopped
<1>9. Live = {}
  BY <1>1, <1>2, <1>4, ZeroCmd DEF Live
<1>10. NoFiles.pc = NotSaved
  BY SMT DEF NoFiles
<1>11. Directories
  BY <1>1, <1>9, <1>10 DEF Directories
<1> QED BY <1>6, <1>7, <1>8, <1>11 DEF Order

\* Nothing changes.
LEMMA SameOrder == OrderInv /\ UNCHANGED vars => OrderInv'
<1> SUFFICES ASSUME OrderInv, UNCHANGED vars PROVE OrderInv'
  OBVIOUS
<1>1. UNCHANGED <<registered, offline_counter, parser2worker_wq, rpc2parser_wq,
                  wqes, api_inst_pc, max_wqe_id, contents, cmd_queues, cmd,
                  worker, ckpt_active, ckpt_cmd, oob, files, crashed>>
  BY DEF vars, client, api_queues, handles, worker_vars
<1>2. Pending' = Pending /\ Later' = Later /\ Live' = Live /\ Still' = Still
  BY <1>1 DEF Waiting, Pending, Later, Live, Still, cmd_queues
<1>3. CASE crashed
  BY <1>3, <1>1 DEF OrderInv
<1>4. CASE Order
  <2>1. Queues' /\ Effects'
    BY <1>1, <1>4, CallsQuiet DEF QueueVars
  <2>2. Stopped'
    BY <1>1, <1>2, <1>4 DEF Order, Stopped, Counter
  <2>3. Directories'
    BY <1>1, <1>2, <1>4 DEF Order, Directories, WrittenNow, Written,
       Complete
  <2> QED BY <2>1, <2>2, <2>3 DEF OrderInv, Order
<1> QED BY <1>3, <1>4 DEF OrderInv

\* A daemon that has crashed does nothing more.
LEMMA NextRuns == Next => ~crashed
BY DEF Next, RpcStep, Serve, ParserStep, WorkerStep, OobStep,
   try_lock_client, ConfirmOffline, Issue, MarkSync, PollParser, PollWorker,
   Parse, ParseFails, ParserRequest, ParserReply, PollCalls, Execute,
   RestoreBrokenFails, WorkerRequest, WorkerResume, Confirmed, Abandon,
   CheckpointHandles, CheckpointFails, Drain, DrainFails, FinishDump, Request,
   Answer, AnswerAndRemove, Restore

\* Every step of a thread keeps the order.
LEMMA StepOrder == Inv /\ Types /\ OrderInv /\ [Next]_vars => OrderInv'
<1> SUFFICES ASSUME Inv, Types, OrderInv, [Next]_vars PROVE OrderInv'
  OBVIOUS
<1>1. CASE UNCHANGED vars
  BY <1>1, SameOrder
<1>2. CASE Next /\ crashed'
  BY <1>2 DEF OrderInv
<1>3. CASE Next /\ ~crashed'
  <2>1. Order
    BY <1>3, NextRuns DEF OrderInv
  <2>2. CASE RpcStep
    BY <2>1, <2>2, RpcQuiet, IssueOrder DEF RpcStep, Serve, OrderInv
  <2>3. CASE ParserStep
    BY <2>1, <2>3, ParseOrder, ParserCmdOrder DEF ParserStep, OrderInv
  <2>4. CASE WorkerStep
    <3>1. ~RestoreBrokenFails
      BY <1>3 DEF RestoreBrokenFails
    <3> QED BY ZenonT(30), <1>3, <2>1, <2>4, <3>1, PollOrder, ExecuteOrder,
       StopOrder, CheckpointOrder, DrainOrder, FinishOrder
       DEF WorkerStep, OrderInv
  <2>5. CASE OobStep
    BY <1>3, <2>1, <2>5, RequestOrder, AnswerOrder, RemoveOrder,
       RestoreOrder DEF OobStep, OrderInv
  <2> QED BY <1>3, <2>2, <2>3, <2>4, <2>5 DEF Next
<1> QED BY <1>1, <1>2, <1>3

\* The queues, the directories and the contents of the handles keep the order
\* of the calls as long as the daemon has not crashed.
THEOREM OrderInvariance == Spec => []OrderInv
<1>1. Init => OrderInv
  BY InitOrder DEF OrderInv
<1>2. Inv /\ Types /\ OrderInv /\ [Next]_vars => OrderInv'
  BY SMT, StepOrder
<1> QED BY <1>1, <1>2, Invariance, TypesInvariance, PTL DEF Spec

\* Launches on a handle take effect in the order in which the application
\* issued them, through every dump, failed dump and restore; the daemon stops
\* where the restored calls come in another order.
THEOREM LaunchesInOrder == Spec => []InOrder
<1>1. Types /\ OrderInv => InOrder
  BY DEF Types, HandleTypes, OrderInv, Order, Effects, AllIncreasing,
     InOrder
<1> QED BY <1>1, OrderInvariance, TypesInvariance, PTL

----------------------------------------------------------------------------
(* Failures reach the caller *)

\* No client was dumped for good, so none was restored.
NoRestore == \A c \in Cmds : files[c].pc = NotSaved

\* The worker returns the calls in order, before what it has still to run.
Returned ==
    /\ Increasing(parser2worker_wq) /\ Increasing(wqes)
    /\ Increasing(rpc2worker_cq)
    /\ Before(Range(rpc2worker_cq), Coming \cup Range(wqes))

\* The calls whose handle the parser looks up and which the worker returns.
OnHandle(i) == call[i].kind \in {"launch", "copy"}

\* One that is still to run has not been returned.
Unfinished ==
    \A i \in Waiting \cup Range(wqes) :
        OnHandle(i) => call[i].status = "init" /\ ~call[i].has_return

\* One that the parser returned has failed.
ParserReturned ==
    /\ Before(Range(cqes) \cup Range(rpc2parser_cq), {api_inst_pc})
    /\ \A i \in Range(cqes) \cup Range(rpc2parser_cq) :
         OnHandle(i) => call[i].status = "parser_failed"

\* The last call that can be a launch, and the launches that no synchronous
\* call has followed, apart from the one that is underway.
Recent(i) ==
    \A j \in i..(api_inst_pc - IF rpc \in {"idle", "locked"} THEN 1 ELSE 2) :
        ~is_sync(j)

\* A launch that failed since the last synchronous call is among the worker's
\* completions, or the call underway has noticed the failure.
Noticed ==
    /\ rpc \in {"pushed", "waiting", "polled"} =>
         api_inst_pc # 0 /\ is_sync(api_inst_pc - 1)
    /\ \A i \in 0..(api_inst_pc - 1) :
         Recent(i) /\ call[i].status = "worker_failed" =>
           \/ i \in Range(rpc2worker_cq) \/ is_sync(i)
           \/ has_prev_error /\ rpc \in {"waiting", "polled"}

Failures == Returned /\ Unfinished /\ ParserReturned /\ Noticed

\* The calls of a restored client have lost their completions, and may come in
\* another order.
FailInv == crashed \/ ~NoRestore \/ Failures

\* Putting two queues together.
LEMMA ConcatRange ==
    ASSUME NEW s \in Seq(Calls), NEW t \in Seq(Calls)
    PROVE  /\ Range(s \o t) = Range(s) \cup Range(t)
           /\ DOMAIN (s \o t) = 1..(Len(s) + Len(t))
           /\ \A k \in 1..Len(s) : (s \o t)[k] = s[k]
           /\ \A k \in 1..Len(t) : (s \o t)[Len(s) + k] = t[k]
<1>1. PICK m \in Nat, n \in Nat : m = Len(s) /\ n = Len(t)
  BY SMT
<1>2. PICK u : u = s \o t
  OBVIOUS
<1>3. /\ DOMAIN s = 1..m /\ DOMAIN t = 1..n /\ DOMAIN u = 1..(m + n)
      /\ \A k \in 1..m : u[k] = s[k]
      /\ \A k \in 1..n : u[m + k] = t[k]
  BY SMTT(30), <1>1, <1>2
<1>4. \A k \in 1..(m + n) :
        k \in 1..m \/ (k - m \in 1..n /\ m + (k - m) = k)
  BY SMT
<1>5. \A k \in 1..m : k \in 1..(m + n)
  BY SMT
<1>6. \A k \in 1..n : m + k \in 1..(m + n)
  BY SMT
<1>7. Range(u) = Range(s) \cup Range(t)
  <2>1. Range(u) \subseteq Range(s) \cup Range(t)
    <3>1. ASSUME NEW k \in 1..(m + n) PROVE u[k] \in Range(s) \cup Range(t)
      BY <1>3, <1>4 DEF Range
    <3> QED BY <3>1, <1>3 DEF Range
  <2>2. Range(s) \subseteq Range(u)
    BY <1>3, <1>5 DEF Range
  <2>3. Range(t) \subseteq Range(u)
    BY <1>3, <1>6 DEF Range
  <2> QED BY <2>1, <2>2, <2>3
<1> QED BY <1>1, <1>2, <1>3, <1>7

\* What these are about.
FailVars == <<call, api_inst_pc, rpc, has_prev_error, cqes, rpc2parser_wq,
              rpc2parser_cq, parser2worker_wq, rpc2worker_cq, wqes>>

\* A step that leaves the calls and their queues alone.
LEMMA FailQuiet == ASSUME Failures, UNCHANGED FailVars PROVE Failures'
<1>1. /\ call' = call /\ api_inst_pc' = api_inst_pc /\ rpc' = rpc
      /\ has_prev_error' = has_prev_error /\ cqes' = cqes
      /\ rpc2parser_wq' = rpc2parser_wq /\ rpc2parser_cq' = rpc2parser_cq
      /\ parser2worker_wq' = parser2worker_wq
      /\ rpc2worker_cq' = rpc2worker_cq /\ wqes' = wqes
  BY DEF FailVars
<1>2. Waiting' = Waiting /\ Coming' = Coming
  BY <1>1 DEF Waiting, Coming
<1>3. Returned' /\ Unfinished' /\ ParserReturned'
  BY <1>1, <1>2 DEF Failures, Returned, Unfinished, ParserReturned, OnHandle
<1>4. Noticed'
  BY <1>1 DEF Failures, Noticed, Recent, is_sync
<1> QED BY <1>3, <1>4 DEF Failures

\* A queue of calls is one of numbers.
LEMMA CallsNat ==
    ASSUME Types
    PROVE  /\ api_inst_pc \in Nat /\ Calls \subseteq Nat
           /\ 0..(api_inst_pc - 1) \subseteq Calls
           /\ \A i \in Calls :
                i < api_inst_pc => i \in 0..(api_inst_pc - 1)
           /\ \A i \in 0..(api_inst_pc - 1) :
                i <= api_inst_pc - 1 /\ i # api_inst_pc
BY SMT, CallNumbers DEF Types, CallTypes, Calls

\* A new call: the ones before it are as they were.
LEMMA IssueFail ==
    ASSUME Inv, Types, Order, Failures,
           NEW kind \in Kinds, NEW h \in Handles \cup {NoHandle},
           Issue(kind, h)
    PROVE  Failures'
<1>1. PICK p : p = api_inst_pc
  OBVIOUS
<1>2. /\ rpc = "locked" /\ api_inst_pc' = p + 1
      /\ rpc2parser_wq' = Append(rpc2parser_wq, p)
      /\ call' = [call EXCEPT ![p] =
                    [NoCall EXCEPT !.kind = kind, !.handle = h]]
      /\ rpc' = IF kind = "launch" THEN "idle" ELSE "pushed"
      /\ UNCHANGED <<cqes, has_prev_error, rpc2parser_cq, parser2worker_wq,
                     rpc2worker_cq, wqes>>
  BY <1>1 DEF Issue, worker_vars
<1>3. /\ p \in Calls /\ p \in Nat /\ p < p + 1
      /\ \A x \in Nat : x < p => x < p + 1
      /\ ~(p < p) /\ p + 1 - 1 = p /\ p + 1 - 2 = p - 1
      /\ \A i \in 0..p : i = p \/ i \in 0..(p - 1)
  BY SMTT(30), <1>1, <1>2, CallNumbers DEF Types, CallTypes, Calls
<1>4. /\ call \in [Calls -> Call]
      /\ \A j \in Calls : j # p => call'[j] = call[j]
      /\ call'[p].kind = kind /\ call'[p].status = "init"
      /\ call'[p].has_return = FALSE
  BY SMTT(30), <1>2, <1>3 DEF Types, CallTypes, NoCall
<1>5. /\ Range(rpc2parser_wq') = Range(rpc2parser_wq) \cup {p}
      /\ Range(rpc2worker_cq) \subseteq Calls /\ Range(wqes) \subseteq Calls
      /\ Waiting \subseteq Calls /\ Range(cqes) \subseteq Calls
      /\ Range(rpc2parser_cq) \subseteq Calls
  <2>1. /\ rpc2parser_wq \in Seq(Calls) /\ rpc2parser_cq \in Seq(Calls)
        /\ parser2worker_wq \in Seq(Calls) /\ rpc2worker_cq \in Seq(Calls)
        /\ wqes \in Seq(Calls) /\ cqes \in Seq(Calls)
    BY DEF Types, QueueTypes, CallTypes
  <2>2. Range(Append(rpc2parser_wq, p)) = Range(rpc2parser_wq) \cup {p}
    BY SMTT(30), <2>1, <1>3, AppendOf
  <2> QED BY <2>1, <2>2, <1>2, SeqRange DEF Waiting
<1>6. /\ Waiting' = Waiting \cup {p} /\ Coming' = Coming \cup {p + 1}
      /\ p \in Coming
  BY <1>5, <1>1, <1>2 DEF Waiting, Coming
<1>7. Returned'
  <2>1. Before(Range(rpc2worker_cq), Coming')
    <3>1. Range(rpc2worker_cq) \in SUBSET Nat
      BY <1>5, CallsNat
    <3>2. Before(Range(rpc2worker_cq), Coming)
      BY DEF Failures, Returned, Before
    <3> QED BY <3>1, <3>2, <1>3, <1>6, BeforeNext
  <2> QED BY <2>1, <1>2 DEF Failures, Returned, Before
<1>8. Unfinished'
  <2>1. \A i \in Waiting \cup Range(wqes) : i \in Calls /\ i # p
    BY <1>1, <1>3, <1>5 DEF Order, Queues, Before, Coming
  <2> QED BY <2>1, <1>2, <1>4, <1>6 DEF Failures, Unfinished, OnHandle
<1>9. ParserReturned'
  <2>1. \A i \in Range(cqes) \cup Range(rpc2parser_cq) :
          i \in Calls /\ i \in Nat /\ i # p /\ i < p + 1
    BY <1>1, <1>3, <1>5, CallsNat DEF Failures, ParserReturned, Before
  <2> QED BY <2>1, <1>2, <1>4 DEF Failures, ParserReturned, OnHandle, Before
<1>10. Noticed'
  <2>1. api_inst_pc' # 0 /\ (kind # "launch" => is_sync(api_inst_pc - 1)')
    BY SMTT(30), <1>2, <1>3, <1>4 DEF is_sync
  <2>2. ASSUME NEW i \in 0..p, Recent(i)',
               call'[i].status = "worker_failed"
        PROVE  i \in Range(rpc2worker_cq) \/ call'[i].kind # "launch"
    <3>1. i # p /\ i \in 0..(p - 1) /\ i \in Calls
      BY <2>2, <1>1, <1>3, <1>4, CallsNat
    <3>2. call'[i] = call[i]
      BY <3>1, <1>4
    <3>3. ASSUME NEW j \in i..(p - 1) PROVE ~is_sync(j)
      <4>1. j \in Calls /\ j # p
        BY SMTT(30), <3>1, <1>3, CallNumbers DEF Calls
      <4>2. j \in i..(api_inst_pc' - IF rpc' \in {"idle", "locked"}
                                       THEN 1 ELSE 2)
        BY SMTT(30), <1>2, <1>3, <3>1
      <4>3. ~is_sync(j)'
        BY <4>2, <2>2 DEF Recent
      <4>4. call'[j].kind = "launch"
        BY <4>3 DEF is_sync
      <4> QED BY <4>1, <4>4, <1>4 DEF is_sync
    <3>4. Recent(i)
      <4>1. (IF rpc \in {"idle", "locked"} THEN 1 ELSE 2) = 1
        BY <1>2
      <4> QED BY <4>1, <3>3, <1>1 DEF Recent
    <3> QED BY <2>2, <3>1, <3>2, <3>4, <1>1, <1>2 DEF Failures, Noticed, is_sync
  <2>3. api_inst_pc' - 1 = p
    BY SMT, <1>2, <1>3
  <2>4. \A i \in 0..(api_inst_pc' - 1) :
          Recent(i)' /\ call'[i].status = "worker_failed" =>
            i \in Range(rpc2worker_cq') \/ is_sync(i)'
    BY <2>2, <2>3, <1>2 DEF is_sync
  <2>5. rpc' \in {"pushed", "waiting", "polled"} => kind # "launch"
    BY SMT, <1>2
  <2> QED BY <2>1, <2>4, <2>5 DEF Noticed
<1> QED BY <1>7, <1>8, <1>9, <1>10 DEF Failures

\* The RPC thread between calls and up to the worker's completions.
LEMMA WaitFail ==
    ASSUME Inv, Types, Order, Failures,
           try_lock_client \/ MarkSync \/ PollParser
    PROVE  Failures'
<1>1. /\ UNCHANGED <<call, api_inst_pc, rpc2parser_wq, parser2worker_wq,
                     rpc2worker_cq, wqes>>
      /\ \/ rpc = "idle" /\ rpc' = "locked"
         \/ rpc = "pushed" /\ rpc' = "waiting"
         \/ rpc = "waiting" /\ rpc' = "polled" /\ UNCHANGED has_prev_error
  BY DEF try_lock_client, MarkSync, PollParser, client, api_queues, worker_vars
<1>2. Waiting' = Waiting /\ Coming' = Coming
  BY <1>1 DEF Waiting, Coming
<1>3. Range(cqes') \cup Range(rpc2parser_cq')
        \subseteq Range(cqes) \cup Range(rpc2parser_cq)
  <2>1. CASE try_lock_client
    BY <2>1 DEF try_lock_client, api_queues
  <2>2. CASE MarkSync
    BY <2>2, EmptyRange DEF MarkSync, api_queues
  <2>3. CASE PollParser
    BY ZenonT(30), <2>3, EmptyRange, ConcatRange
       DEF PollParser, Types, CallTypes,
       QueueTypes
  <2> QED BY <2>1, <2>2, <2>3
<1>4. Returned' /\ Unfinished' /\ ParserReturned'
  BY <1>1, <1>2, <1>3 DEF Failures, Returned, Unfinished, ParserReturned,
     OnHandle, Before
<1>5. Noticed'
  <2>1. rpc' \in {"idle", "locked"} <=> rpc \in {"idle", "locked"}
    BY <1>1
  <2>2. \A i : (Recent(i)' <=> Recent(i)) /\ (is_sync(i)' <=> is_sync(i))
    BY <2>1, <1>1 DEF Recent, is_sync
  <2>3. CASE rpc = "idle" /\ rpc' = "locked"
    BY <2>2, <2>3, <1>1 DEF Failures, Noticed
  <2>4. CASE rpc = "pushed" /\ rpc' = "waiting"
    BY <2>2, <2>4, <1>1 DEF Failures, Noticed
  <2>5. CASE rpc = "waiting" /\ rpc' = "polled" /\ UNCHANGED has_prev_error
    BY <2>2, <2>5, <1>1 DEF Failures, Noticed
  <2> QED BY <2>3, <2>4, <2>5, <1>1
<1> QED BY <1>4, <1>5 DEF Failures

\* The end of a round: the call takes notice of the failures, or returns and
\* is itself the last synchronous call.
LEMMA PollFail ==
    ASSUME Inv, Types, Order, Failures, PollWorker
    PROVE  Failures'
<1>1. PICK all : all = cqes \o rpc2worker_cq
  OBVIOUS
<1>2. /\ rpc = "polled" /\ rpc2worker_cq' = <<>> /\ cqes' = <<>>
      /\ has_prev_error' = (has_prev_error \/ SomeFailed(all))
      /\ rpc' = "idle" \/ rpc' = "waiting"
      /\ UNCHANGED <<call, api_inst_pc, rpc2parser_wq, rpc2parser_cq,
                     parser2worker_wq, wqes>>
  BY <1>1 DEF PollWorker, worker_vars
<1>3. Waiting' = Waiting /\ Coming' = Coming
  BY <1>2 DEF Waiting, Coming
<1>4. Returned' /\ Unfinished' /\ ParserReturned'
  BY <1>2, <1>3, EmptyRange DEF Failures, Returned, Unfinished,
     ParserReturned, OnHandle, Before
<1>5. api_inst_pc # 0 /\ is_sync(api_inst_pc - 1)
  BY <1>2 DEF Failures, Noticed
<1>6. ASSUME NEW i \in 0..(api_inst_pc - 1), Recent(i)',
             call[i].status = "worker_failed", ~is_sync(i)
      PROVE  has_prev_error' /\ rpc' = "waiting"
  <2>1. rpc' = "waiting"
    <3>1. api_inst_pc - 1 \in i..(api_inst_pc - 1)
      BY SMT, CallsNat
    <3>2. rpc' = "idle" => ~is_sync(api_inst_pc - 1)
      BY <3>1, <1>2, <1>6 DEF Recent, is_sync
    <3> QED BY <3>2, <1>2, <1>5
  <2>2. Recent(i)
    BY <2>1, <1>2, <1>6 DEF Recent, is_sync
  <2>3. i \in Range(rpc2worker_cq) \/ has_prev_error
    BY <2>2, <1>6 DEF Failures, Noticed
  <2>4. i \in Range(rpc2worker_cq) => SomeFailed(all)
    <3>1. Range(all) = Range(cqes) \cup Range(rpc2worker_cq)
      BY <1>1, ConcatRange DEF Types, CallTypes, QueueTypes
    <3> QED BY <3>1, <1>6 DEF SomeFailed, Failed
  <2> QED BY <2>1, <2>3, <2>4, <1>2
<1>7. Noticed'
  BY <1>2, <1>5, <1>6 DEF Noticed, is_sync
<1> QED BY <1>4, <1>7 DEF Failures

\* What the parser does with the next call.
LEMMA NextParsed ==
    ASSUME Inv, Types, Parse \/ ParseFails, NEW i, i = Head(rpc2parser_wq)
    PROVE  /\ i \in Calls /\ call'[i].status # "worker_failed"
           /\ \A j \in Calls : /\ call'[j].kind = call[j].kind
                               /\ j # i => call'[j] = call[j]
           /\ rpc2parser_cq' \in {rpc2parser_cq, Append(rpc2parser_cq, i)}
           /\ parser2worker_wq' \in {parser2worker_wq,
                                     Append(parser2worker_wq, i)}
           /\ OnHandle(i) =>
                \/ /\ call'[i].status = "parser_failed"
                   /\ parser2worker_wq' = parser2worker_wq
                \/ /\ call'[i].status = "init" /\ ~call'[i].has_return
                   /\ rpc2parser_cq' = rpc2parser_cq
<1>1. i \in Calls /\ call \in [Calls -> Call] /\ call[i] \in Call
  <2>1. rpc2parser_wq \in Seq(Calls) /\ rpc2parser_wq # <<>>
    BY DEF Parse, ParseFails, Types, QueueTypes
  <2> QED BY <2>1, TailOf DEF Types, CallTypes
<1>2. CASE ParseFails
  <2>1. /\ call' = [call EXCEPT ![i].status = "parser_failed"]
        /\ rpc2parser_cq' = Append(rpc2parser_cq, i)
        /\ parser2worker_wq' = parser2worker_wq
    BY <1>2 DEF ParseFails
  <2>2. /\ call'[i].status = "parser_failed"
        /\ \A j \in Calls : /\ call'[j].kind = call[j].kind
                            /\ j # i => call'[j] = call[j]
    BY SMT, <2>1, <1>1 DEF Call
  <2> QED BY <2>1, <2>2, <1>1
<1>3. CASE Parse
  <2>1. PICK kind, h : /\ kind = call[i].kind
                       /\ h = IF kind = "malloc" THEN NextHandle
                                ELSE call[i].handle
    OBVIOUS
  <2>2. PICK st, new :
          /\ st = CASE kind = "malloc" -> "after_parse"
                    [] kind = "query" -> "without_worker"
                    [] OTHER -> "init"
          /\ new = [kind |-> kind, handle |-> h, status |-> st,
                    has_return |-> kind \in {"malloc", "query"}]
    OBVIOUS
  <2>3. /\ call' = [call EXCEPT ![i] = new]
        /\ rpc2parser_cq' = IF kind \in {"malloc", "query"}
             THEN Append(rpc2parser_cq, i) ELSE rpc2parser_cq
        /\ parser2worker_wq' = IF kind = "query" THEN parser2worker_wq
                                 ELSE Append(parser2worker_wq, i)
    BY <2>1, <2>2, <1>3 DEF Parse
  <2>4. /\ new.kind = kind /\ new.status # "worker_failed"
        /\ kind \in {"launch", "copy"} =>
             new.status = "init" /\ ~new.has_return
    <3>1. CASE kind = "malloc"
      BY SMT, <2>2, <3>1
    <3>2. CASE kind = "query"
      BY SMT, <2>2, <3>2
    <3>3. CASE kind \notin {"malloc", "query"}
      <4>1. st = "init"
        BY SMT, <2>2, <3>3
      <4> QED BY <2>2, <3>3, <4>1
    <3> QED BY <3>1, <3>2, <3>3
  <2>5. call'[i] = new /\ \A j \in Calls : j # i => call'[j] = call[j]
    BY <2>3, <1>1
  <2>6. kind \in {"launch", "copy"} => rpc2parser_cq' = rpc2parser_cq
    BY SMT, <2>3
  <2> QED BY <2>1, <2>3, <2>4, <2>5, <2>6, <1>1 DEF OnHandle
<1> QED BY <1>2, <1>3

\* The failures noticed are the same when the calls keep their kind and no
\* other one fails in the worker.
LEMMA NoticedKept ==
    ASSUME Types, Noticed, UNCHANGED <<api_inst_pc, rpc, has_prev_error>>,
           \A j \in Calls : call'[j].kind = call[j].kind,
           Range(rpc2worker_cq) \subseteq Range(rpc2worker_cq'),
           \A j \in Calls : call'[j].status = "worker_failed" =>
              \/ call[j].status = "worker_failed"
              \/ is_sync(j) \/ j \in Range(rpc2worker_cq')
    PROVE  Noticed'
<1>1. \A j \in Calls : is_sync(j)' <=> is_sync(j)
  BY DEF is_sync
<1>2. api_inst_pc # 0 => api_inst_pc - 1 \in Calls
  BY SMT, CallNumbers DEF Types, CallTypes, Calls
<1>3. ASSUME NEW i \in 0..(api_inst_pc - 1), Recent(i)'
      PROVE  Recent(i)
  <2>1. PICK top : /\ top = api_inst_pc - IF rpc \in {"idle", "locked"}
                                            THEN 1 ELSE 2
                   /\ top <= api_inst_pc - 1 /\ top \in Int
    <3>1. api_inst_pc - 1 <= api_inst_pc - 1 /\ api_inst_pc - 1 \in Int
          /\ api_inst_pc - 2 <= api_inst_pc - 1 /\ api_inst_pc - 2 \in Int
      BY SMTT(30), CallsNat
    <3> QED BY <3>1
  <2>2. i..top \subseteq Calls
    BY SMTT(30), <2>1, CallNumbers DEF Types, CallTypes, Calls
  <2>3. \A j \in i..top : ~is_sync(j)'
    BY <2>1, <1>3 DEF Recent
  <2> QED BY <2>1, <2>2, <2>3, <1>1 DEF Recent
<1>4. \A i \in 0..(api_inst_pc - 1) : i \in Calls
  BY CallsNat
<1>5. ASSUME NEW i \in 0..(api_inst_pc - 1), Recent(i)',
             call'[i].status = "worker_failed"
      PROVE  \/ i \in Range(rpc2worker_cq') \/ is_sync(i)'
             \/ has_prev_error /\ rpc \in {"waiting", "polled"}
  BY <1>1, <1>3, <1>4, <1>5 DEF Noticed
<1> QED BY <1>1, <1>2, <1>5 DEF Noticed

\* The parser returns what has failed and passes the rest on.
LEMMA ParseFail ==
    ASSUME Inv, Types, Order, Failures, Parse \/ ParseFails
    PROVE  Failures'
<1>1. PICK i : i = Head(rpc2parser_wq)
  OBVIOUS
<1>2. /\ rpc2parser_wq # <<>> /\ rpc2parser_wq' = Tail(rpc2parser_wq)
      /\ UNCHANGED <<api_inst_pc, rpc, has_prev_error, cqes, rpc2worker_cq,
                     wqes>>
  BY DEF Parse, ParseFails, client, rpc_vars, worker_vars
<1>3. /\ i \in Calls /\ Range(rpc2parser_wq) = {i} \cup Range(rpc2parser_wq')
      /\ Before({i}, Range(rpc2parser_wq'))
  BY <1>1, <1>2, TailOf, IncreasingTail
     DEF Types, QueueTypes, Order, Queues
<1>4. /\ call'[i].status # "worker_failed"
      /\ \A j \in Calls : /\ call'[j].kind = call[j].kind
                          /\ j # i => call'[j] = call[j]
      /\ rpc2parser_cq' \in {rpc2parser_cq, Append(rpc2parser_cq, i)}
      /\ parser2worker_wq' \in {parser2worker_wq, Append(parser2worker_wq, i)}
      /\ OnHandle(i) =>
           \/ /\ call'[i].status = "parser_failed"
              /\ parser2worker_wq' = parser2worker_wq
           \/ /\ call'[i].status = "init" /\ ~call'[i].has_return
              /\ rpc2parser_cq' = rpc2parser_cq
  BY <1>1, NextParsed
<1>5. /\ parser2worker_wq \in Seq(Calls) /\ rpc2parser_cq \in Seq(Calls)
      /\ Range(parser2worker_wq) \subseteq Calls /\ Range(wqes) \subseteq Calls
      /\ Range(rpc2parser_cq) \subseteq Calls /\ Range(cqes) \subseteq Calls
      /\ Range(rpc2parser_wq) \subseteq Calls
  BY SeqRange DEF Types, QueueTypes, CallTypes
<1>6. /\ Range(Append(parser2worker_wq, i)) = Range(parser2worker_wq) \cup {i}
      /\ Range(Append(rpc2parser_cq, i)) = Range(rpc2parser_cq) \cup {i}
  BY SMTT(30), <1>3, <1>5, AppendOf
<1>7. ~(i < i) /\ i \in Waiting
  BY SMTT(30), <1>3, CallNumbers DEF Waiting
<1>8. /\ i \notin Range(parser2worker_wq) /\ i \notin Range(rpc2parser_wq')
      /\ i \notin Range(wqes) /\ i < api_inst_pc
  BY <1>3, <1>7 DEF Order, Queues, Before, Coming
<1>9. Waiting' \subseteq Waiting /\ Coming' \subseteq Coming
  BY <1>2, <1>3, <1>4, <1>6 DEF Waiting, Coming
<1>10. Returned'
  <2>1. Increasing(Append(parser2worker_wq, i))
    <3>1. Before(Range(parser2worker_wq), {i})
      BY <1>3 DEF Order, Queues, Before
    <3> QED BY <3>1, <1>3, <1>5, IncreasingAppend DEF Failures, Returned
  <2> QED BY <2>1, <1>2, <1>4, <1>9 DEF Failures, Returned, Before
<1>11. Unfinished'
  <2>1. ASSUME NEW j \in Waiting' \cup Range(wqes), j # i, OnHandle(j)'
        PROVE  call'[j].status = "init" /\ ~call'[j].has_return
    <3>1. j \in Waiting \cup Range(wqes) /\ j \in Calls /\ call'[j] = call[j]
      BY <2>1, <1>4, <1>5, <1>9 DEF Waiting
    <3> QED BY <2>1, <3>1 DEF OnHandle, Failures, Unfinished
  <2>2. ASSUME i \in Waiting' \cup Range(wqes), OnHandle(i)'
        PROVE  call'[i].status = "init" /\ ~call'[i].has_return
    <3>1. parser2worker_wq' # parser2worker_wq
      BY <2>2, <1>8 DEF Waiting
    <3> QED BY <2>2, <3>1, <1>3, <1>4 DEF OnHandle
  <2> QED BY <2>1, <2>2, <1>2 DEF Unfinished
<1>12. ParserReturned'
  <2>1. ASSUME NEW j \in Range(cqes) \cup Range(rpc2parser_cq), j # i,
               OnHandle(j)'
        PROVE  call'[j].status = "parser_failed"
    BY <2>1, <1>4, <1>5 DEF OnHandle, Failures, ParserReturned
  <2>2. ASSUME OnHandle(i)' PROVE i \notin Range(cqes) \cup Range(rpc2parser_cq)
    <3>1. call[i].status = "init" /\ OnHandle(i)
      BY <2>2, <1>3, <1>4, <1>7 DEF OnHandle, Failures, Unfinished
    <3> QED BY <3>1 DEF Failures, ParserReturned
  <2>3. ASSUME i \in Range(cqes') \cup Range(rpc2parser_cq'), OnHandle(i)'
        PROVE  call'[i].status = "parser_failed"
    <3>1. rpc2parser_cq' # rpc2parser_cq
      BY <2>2, <2>3, <1>2
    <3> QED BY <2>3, <3>1, <1>3, <1>4 DEF OnHandle
  <2>4. Range(cqes') \cup Range(rpc2parser_cq')
          \subseteq Range(cqes) \cup Range(rpc2parser_cq) \cup {i}
    BY <1>2, <1>4, <1>6
  <2>5. Before(Range(cqes') \cup Range(rpc2parser_cq'), {api_inst_pc'})
    BY <2>4, <1>2, <1>8 DEF Before, Failures, ParserReturned
  <2> QED BY <2>1, <2>3, <2>4, <2>5 DEF ParserReturned
<1>13. Noticed'
  BY <1>2, <1>3, <1>4, NoticedKept DEF Failures
<1> QED BY <1>10, <1>11, <1>12, <1>13 DEF Failures

\* The worker takes the calls that have arrived, or a dump saves them.
LEMMA TakeFail ==
    ASSUME Inv, Types, Order, Failures, PollCalls \/ Drain \/ DrainFails
    PROVE  Failures'
<1>1. /\ parser2worker_wq' = <<>>
      /\ wqes' = wqes \/ wqes' = parser2worker_wq
      /\ UNCHANGED <<call, api_inst_pc, rpc, has_prev_error, cqes,
                     rpc2parser_wq, rpc2parser_cq, rpc2worker_cq>>
  BY DEF PollCalls, Drain, DrainFails, client, rpc_vars
<1>2. /\ Range(parser2worker_wq') = {} /\ Increasing(parser2worker_wq')
      /\ Waiting' \subseteq Waiting /\ Coming' \subseteq Coming
      /\ Range(wqes') \subseteq Waiting \cup Range(wqes)
  BY <1>1, EmptyRange DEF Waiting, Coming
<1>3. Returned'
  <2>1. Before(Range(rpc2worker_cq), Coming' \cup Range(wqes'))
    BY <1>2 DEF Failures, Returned, Before, Coming
  <2> QED BY <2>1, <1>1, <1>2 DEF Failures, Returned
<1>4. Unfinished' /\ ParserReturned'
  BY <1>1, <1>2 DEF Failures, Unfinished, ParserReturned, OnHandle
<1>5. Noticed'
  BY <1>1, NoticedKept DEF Failures
<1> QED BY <1>3, <1>4, <1>5 DEF Failures

\* The worker runs a call and returns it, failed or not.
LEMMA ExecuteFail ==
    ASSUME Inv, Types, Order, Failures, NEW ok \in BOOLEAN, Execute(ok)
    PROVE  Failures'
<1>1. PICK i : i = Head(wqes)
  OBVIOUS
<1>2. /\ wqes # <<>> /\ wqes' = Tail(wqes)
      /\ call' = [call EXCEPT
                    ![i].status = IF ok THEN @ ELSE "worker_failed",
                    ![i].has_return = TRUE]
      /\ rpc2worker_cq' = IF call[i].has_return THEN rpc2worker_cq
                            ELSE Append(rpc2worker_cq, i)
      /\ UNCHANGED <<api_inst_pc, rpc, has_prev_error, cqes, rpc2parser_wq,
                     rpc2parser_cq, parser2worker_wq>>
  BY <1>1 DEF Execute, client, rpc_vars
<1>3. /\ i \in Calls /\ Range(wqes) = {i} \cup Range(wqes')
      /\ Before({i}, Range(wqes')) /\ Increasing(wqes')
      /\ call \in [Calls -> Call] /\ call[i] \in Call
  BY <1>1, <1>2, TailOf, IncreasingTail
     DEF Types, QueueTypes, CallTypes, Failures, Returned
<1>4. \A j \in Calls : /\ call'[j].kind = call[j].kind
                       /\ j # i => call'[j] = call[j]
  BY <1>2, <1>3 DEF Call
<1>5. /\ rpc2worker_cq \in Seq(Calls) /\ Range(wqes) \subseteq Calls
      /\ Range(parser2worker_wq) \subseteq Calls
      /\ Range(rpc2parser_cq) \subseteq Calls /\ Range(cqes) \subseteq Calls
      /\ Range(rpc2parser_wq) \subseteq Calls
  BY SeqRange DEF Types, QueueTypes, CallTypes
<1>6. Range(Append(rpc2worker_cq, i)) = Range(rpc2worker_cq) \cup {i}
  BY SMTT(30), <1>3, <1>5, AppendOf
<1>7. ~(i < i)
  BY SMTT(30), <1>3, CallNumbers
<1>8. Waiting' = Waiting /\ Coming' = Coming
  BY <1>2 DEF Waiting, Coming
<1>9. i \notin Range(wqes') /\ i \notin Waiting /\ Before({i}, Coming)
  BY <1>3, <1>7 DEF Order, Queues, Before, Coming
<1>10. Returned'
  <2>1. Increasing(Append(rpc2worker_cq, i))
    <3>1. Before(Range(rpc2worker_cq), {i})
      BY <1>3 DEF Failures, Returned, Before
    <3> QED BY <3>1, <1>3, <1>5, IncreasingAppend DEF Failures, Returned
  <2>2. Before(Range(rpc2worker_cq) \cup {i}, Coming \cup Range(wqes'))
    BY <1>3, <1>9 DEF Failures, Returned, Before
  <2>3. /\ Range(rpc2worker_cq') \subseteq Range(rpc2worker_cq) \cup {i}
        /\ Increasing(rpc2worker_cq')
    BY <2>1, <1>2, <1>6 DEF Failures, Returned
  <2> QED BY <2>2, <2>3, <1>2, <1>3, <1>8 DEF Failures, Returned, Before
<1>11. Unfinished'
  <2>1. \A j \in Waiting \cup Range(wqes') :
          /\ j \in Waiting \cup Range(wqes) /\ j # i /\ j \in Calls
    BY <1>3, <1>5, <1>9 DEF Waiting
  <2> QED BY <2>1, <1>4, <1>8 DEF Failures, Unfinished, OnHandle
<1>12. OnHandle(i) => call[i].status = "init" /\ ~call[i].has_return
  BY <1>3 DEF Failures, Unfinished
<1>13. ParserReturned'
  <2>1. ASSUME NEW j \in Range(cqes) \cup Range(rpc2parser_cq), OnHandle(j)'
        PROVE  call'[j].status = "parser_failed"
    <3>1. OnHandle(j) /\ call[j].status = "parser_failed" /\ j \in Calls
      BY <2>1, <1>4, <1>5 DEF OnHandle, Failures, ParserReturned
    <3>2. j # i
      BY <3>1, <1>12
    <3> QED BY <3>1, <3>2, <1>4
  <2> QED BY <2>1, <1>2 DEF Failures, ParserReturned
<1>14. Noticed'
  <2>1. is_sync(i) \/ i \in Range(rpc2worker_cq')
    BY <1>2, <1>6, <1>12 DEF is_sync, OnHandle
  <2>2. Range(rpc2worker_cq) \subseteq Range(rpc2worker_cq')
    BY <1>2, <1>6
  <2> QED BY <2>1, <2>2, <1>2, <1>4, NoticedKept DEF Failures
<1> QED BY <1>10, <1>11, <1>13, <1>14 DEF Failures

\* A directory with a pc keeps it; only the answer to a dump gives it one.
LEMMA NoRestoreBefore ==
    ASSUME Inv, Types, Next, NoRestore' PROVE NoRestore
<1>1. DOMAIN files = Cmds /\ \A c \in Cmds : "pc" \in DOMAIN files[c]
  BY DEF Types, FileTypes, IsCkpt
<1>2. CASE UNCHANGED files
  BY <1>2 DEF NoRestore
<1>3. CASE CheckpointHandles \/ CheckpointFails
  <2>1. PICK S : files' = Persist(S)
    BY <1>3 DEF CheckpointHandles, CheckpointFails
  <2>2. PICK T : files' = [files EXCEPT ![worker.cmd].state = T]
    BY <2>1 DEF Persist
  <2>3. \A c \in Cmds : files'[c].pc = files[c].pc
    BY SMTT(30), <2>2, <1>1
  <2> QED BY <2>3 DEF NoRestore
<1>4. CASE Drain \/ DrainFails
  <2>1. PICK T : files' = [files EXCEPT ![worker.cmd].ua = T]
    BY <1>4 DEF Drain, DrainFails
  <2>2. \A c \in Cmds : files'[c].pc = files[c].pc
    BY SMT, <2>1, <1>1
  <2> QED BY <2>2 DEF NoRestore
<1>5. CASE /\ AnswerAndRemove
           /\ files' = [files EXCEPT ![oob.cmd] =
                          [@ EXCEPT !.pc = api_inst_pc, !.call = call]]
  <2>1. oob.cmd \in Cmds /\ api_inst_pc # NotSaved
    BY SMTT(30), <1>5, CallNumbers, BoundsAssumption DEF AnswerAndRemove, Inv,
       HType, CType, Cmds, Types, CallTypes, NotSaved
  <2>2. files'[oob.cmd].pc = api_inst_pc
    BY <2>1, <1>1, <1>5
  <2> QED BY <2>1, <2>2 DEF NoRestore
<1>6. \/ UNCHANGED files
      \/ CheckpointHandles \/ CheckpointFails \/ Drain \/ DrainFails
      \/ /\ AnswerAndRemove
         /\ files' = [files EXCEPT ![oob.cmd] =
                        [@ EXCEPT !.pc = api_inst_pc, !.call = call]]
  BY DEF Next, RpcStep, Serve, ParserStep, WorkerStep, OobStep,
     try_lock_client, ConfirmOffline, Issue, MarkSync, PollParser, PollWorker,
     Parse, ParseFails, ParserRequest, ParserReply, PollCalls, Execute,
     RestoreBrokenFails, WorkerRequest, WorkerResume, Confirmed, Abandon,
     FinishDump, Request, Answer, AnswerAndRemove, Restore
<1> QED BY <1>2, <1>3, <1>4, <1>5, <1>6

\* Steps that are about commands.
LEMMA CommandFail ==
    ASSUME Failures,
           \/ ConfirmOffline \/ ParserRequest \/ ParserReply
           \/ WorkerRequest \/ WorkerResume \/ Confirmed \/ Abandon
           \/ CheckpointHandles \/ CheckpointFails \/ FinishDump
           \/ (\E dump \in BOOLEAN : Request(dump)) \/ Answer
           \/ AnswerAndRemove
    PROVE  Failures'
<1>1. UNCHANGED FailVars
  BY DEF FailVars, ConfirmOffline, ParserRequest, ParserReply, WorkerRequest,
     WorkerResume, Confirmed, Abandon, CheckpointHandles, CheckpointFails,
     FinishDump, Request, Answer, AnswerAndRemove, client, rpc_vars,
     api_queues, worker_vars
<1> QED BY <1>1, FailQuiet

\* Every step keeps what is known of the failures.
LEMMA StepFail == Inv /\ Types /\ OrderInv /\ FailInv /\ [Next]_vars => FailInv'
<1> SUFFICES ASSUME Inv, Types, OrderInv, FailInv, [Next]_vars PROVE FailInv'
  OBVIOUS
<1>1. CASE UNCHANGED vars
  <2>1. UNCHANGED <<files, crashed>> /\ UNCHANGED FailVars
    BY <1>1 DEF vars, FailVars, client, rpc_vars, api_queues, worker_vars
  <2>2. CASE Failures
    BY <2>1, <2>2, FailQuiet DEF FailInv
  <2>3. CASE crashed \/ ~NoRestore
    BY <2>1, <2>3 DEF FailInv, NoRestore
  <2> QED BY <2>2, <2>3 DEF FailInv
<1>2. CASE Next /\ ~NoRestore'
  BY <1>2 DEF FailInv
<1>3. CASE Next /\ crashed'
  BY <1>3 DEF FailInv
<1>4. CASE Next /\ NoRestore' /\ ~crashed'
  <2>1. Order /\ Failures /\ NoRestore
    BY <1>4, NextRuns, NoRestoreBefore DEF OrderInv, FailInv
  <2>2. CASE RpcStep
    <3>1. Failures'
      BY ZenonT(30), <2>1, <2>2, WaitFail, PollFail, IssueFail, CommandFail
         DEF RpcStep, Serve
    <3> QED BY <3>1 DEF FailInv
  <2>3. CASE ParserStep
    <3>1. Failures'
      BY <2>1, <2>3, ParseFail, CommandFail DEF ParserStep
    <3> QED BY <3>1 DEF FailInv
  <2>4. CASE WorkerStep
    <3>1. Failures'
      <4>1. ~RestoreBrokenFails
        BY <1>4 DEF RestoreBrokenFails
      <4> QED BY <2>1, <2>4, <4>1, TakeFail, ExecuteFail, CommandFail
         DEF WorkerStep
    <3> QED BY <3>1 DEF FailInv
  <2>5. CASE OobStep
    <3>1. ASSUME NEW c \in Cmds, Restore(c) PROVE FALSE
      BY <3>1, <2>1 DEF Restore, NoRestore
    <3>2. Failures'
      BY <2>1, <2>5, <3>1, CommandFail DEF OobStep
    <3> QED BY <3>2 DEF FailInv
  <2> QED BY <1>4, <2>2, <2>3, <2>4, <2>5 DEF Next
<1> QED BY <1>1, <1>2, <1>3, <1>4

\* At the start there is nothing to return.
LEMMA InitFail == Init => Failures
<1> SUFFICES ASSUME Init PROVE Failures
  OBVIOUS
<1>1. /\ parser2worker_wq = <<>> /\ rpc2parser_wq = <<>> /\ wqes = <<>>
      /\ rpc2worker_cq = <<>> /\ rpc2parser_cq = <<>> /\ cqes = <<>>
      /\ rpc = "idle"
  BY DEF Init
<1>2. Returned /\ Unfinished /\ ParserReturned
  BY <1>1, EmptyRange DEF Returned, Unfinished, ParserReturned, Before, Waiting
<1>3. \A i \in Calls : is_sync(i)
  <2>1. CASE NewClient
    BY SMTT(30), <2>1 DEF NewClient, NoCall, is_sync
  <2>2. CASE OldClient
    BY SMT, <2>2 DEF OldClient, NoCall, is_sync
  <2> QED BY <2>1, <2>2 DEF Init
<1>4. \A i \in 0..(api_inst_pc - 1) : i \in Calls
  <2>1. api_inst_pc \in 0..(LastCall + 1)
    BY InitTypes DEF Types, CallTypes
  <2> QED BY SMTT(30), <2>1, CallNumbers DEF Calls
<1>5. Noticed
  BY <1>1, <1>3, <1>4 DEF Noticed
<1> QED BY <1>2, <1>5 DEF Failures

\* Completions in which a failure comes before the call's own, or is it.
LEMMA FailedFirst ==
    ASSUME NEW s \in Seq(Calls), NEW own \in Calls, Failed(own),
           own \in Range(s)
    PROVE  FailedUpTo(s, own)
<1>1. DOMAIN s \subseteq Nat /\ DOMAIN s = 1..Len(s) /\ Len(s) \in Nat
  BY SMT
<1>2. PICK T : T = {k \in DOMAIN s : s[k] = own}
  OBVIOUS
<1>3. T \subseteq Nat /\ T # {}
  BY <1>1, <1>2 DEF Range
<1>4. PICK k \in T : \A y \in T : k <= y
  BY <1>3, Least
<1>5. k \in DOMAIN s /\ s[k] = own
  BY <1>2, <1>4
<1>6. ASSUME NEW j \in 1..(k - 1) PROVE s[j] # own
  <2>1. j \in DOMAIN s /\ ~(k <= j)
    BY SMT, <1>1, <1>5
  <2> QED BY <2>1, <1>2, <1>4
<1> QED BY <1>5, <1>6 DEF FailedUpTo

\* A failed launch among the worker's completions is seen before the call's
\* own, which comes after it, unless the parser has returned that one.
LEMMA FailedEarlier ==
    ASSUME NEW s \in Seq(Calls), NEW t \in Seq(Calls), Increasing(t),
           NEW own \in Calls, own \notin Range(s),
           NEW i \in Range(t), Failed(i), i < own
    PROVE  FailedUpTo(s \o t, own)
<1>1. PICK m \in Nat, n \in Nat : m = Len(s) /\ n = Len(t)
  BY SMT
<1>2. PICK u : u = s \o t
  OBVIOUS
<1>3. /\ DOMAIN u = 1..(m + n)
      /\ \A k \in 1..m : u[k] = s[k]
      /\ \A k \in 1..n : u[m + k] = t[k]
  BY <1>1, <1>2, ConcatRange
<1>4. DOMAIN s = 1..m /\ DOMAIN t = 1..n
  BY SMT, <1>1
<1>5. PICK k \in 1..n : t[k] = i
  BY <1>4 DEF Range
<1>6. PICK q \in 1..(m + n) : q = m + k
  BY SMT
<1>7. ASSUME NEW j \in 1..(q - 1) PROVE u[j] # own
  <2>1. CASE j \in 1..m
    BY <2>1, <1>3, <1>4 DEF Range
  <2>2. CASE j \notin 1..m
    <3>1. j - m \in 1..n /\ j - m < k /\ m + (j - m) = j
      BY SMTT(30), <2>2, <1>6
    <3>2. u[j] = t[j - m] /\ t[j - m] < t[k]
      BY <3>1, <1>3, <1>4 DEF Increasing
    <3>3. t[j - m] \in Calls
      BY SMTT(30), <3>1, <1>1
    <3>4. u[j] < i /\ u[j] \in Nat /\ i \in Nat /\ own \in Nat
      BY ZenonT(30), <3>2, <3>3, <1>5, SeqRange, CallNumbers
    <3> QED BY SMTT(30), <3>4
  <2> QED BY <2>1, <2>2
<1>8. Failed(u[q])
  BY <1>3, <1>5, <1>6
<1>9. FailedUpTo(u, own)
  BY <1>3, <1>7, <1>8 DEF FailedUpTo
<1> QED BY <1>2, <1>9

\* The call that returns reports the failure.
LEMMA PollReports ==
    ASSUME Inv, Types, Order, Failures, PollWorker, rpc' = "idle",
           call[api_inst_pc - 1].kind = "copy", LaunchFailed(api_inst_pc - 1)
    PROVE  retval' = "failed"
<1>1. PICK all, own : all = cqes \o rpc2worker_cq /\ own = api_inst_pc - 1
  OBVIOUS
<1>2. /\ rpc = "polled" /\ own \in Range(all)
      /\ retval' = IF has_prev_error \/ FailedUpTo(all, own)
                     THEN "failed" ELSE "success"
  BY <1>1 DEF PollWorker
<1>3. own \in Calls /\ api_inst_pc - 2 = own - 1
  <2>1. api_inst_pc # 0
    BY <1>2 DEF Failures, Noticed
  <2> QED BY SMTT(30), <2>1, <1>1, CallNumbers DEF Types, CallTypes, Calls
<1>4. PICK i \in 0..(own - 1) :
        /\ \A j \in i..(own - 1) : ~is_sync(j)
        /\ call[i].status = "worker_failed"
  BY <1>1 DEF LaunchFailed
<1>5. i \in 0..(api_inst_pc - 1) /\ i < own /\ i \in i..(own - 1)
  BY SMTT(30), <1>1, <1>3, CallsNat
<1>6. Recent(i) /\ ~is_sync(i)
  <2>1. (IF rpc \in {"idle", "locked"} THEN 1 ELSE 2) = 2
    BY <1>2
  <2> QED BY <2>1, <1>3, <1>4, <1>5 DEF Recent
<1>7. i \in Range(rpc2worker_cq) \/ has_prev_error
  BY <1>4, <1>5, <1>6 DEF Failures, Noticed
<1>8. ASSUME i \in Range(rpc2worker_cq) PROVE FailedUpTo(all, own)
  <2>1. cqes \in Seq(Calls) /\ rpc2worker_cq \in Seq(Calls)
    BY DEF Types, CallTypes, QueueTypes
  <2>2. CASE own \in Range(cqes)
    <3>1. Failed(own)
      BY <2>2, <1>1 DEF Failures, ParserReturned, OnHandle, Failed
    <3>2. all \in Seq(Calls)
      BY SMTT(30), <2>1, <1>1
    <3> QED BY ZenonT(30), <3>1, <3>2, <1>2, <1>3, FailedFirst
  <2>3. CASE own \notin Range(cqes)
    <3>1. Failed(i) /\ Increasing(rpc2worker_cq)
      BY <1>4 DEF Failed, Failures, Returned
    <3> QED BY ZenonT(30), <3>1, <2>1, <2>3, <1>1, <1>3, <1>5, <1>8,
               FailedEarlier
  <2> QED BY <2>2, <2>3
<1> QED BY <1>2, <1>7, <1>8

\* What the completions tell of the failed calls, in every reachable state.
THEOREM FailInvariance == Spec => []FailInv
<1>1. Init => FailInv
  BY InitFail DEF FailInv
<1>2. Inv /\ Types /\ OrderInv /\ FailInv /\ [Next]_vars => FailInv'
  BY SMT, StepFail
<1> QED
  BY <1>1, <1>2, Invariance, TypesInvariance, OrderInvariance, PTL DEF Spec

\* A copy that returns success hides no failure of the launches before it: the
\* rounds of pos_process keep the error of an earlier round, and the worker's
\* completions come in the order of the calls.
THEOREM FailuresAlwaysReported == Spec => FailuresReported
<1> DEFINE A == /\ rpc = "polled" /\ rpc' = "idle"
                /\ call[api_inst_pc - 1].kind = "copy"
                /\ LaunchFailed(api_inst_pc - 1)
                /\ \A c \in Cmds : files[c].pc = NotSaved
                => retval' = "failed"
<1>1. Inv /\ Types /\ OrderInv /\ FailInv /\ [Next]_vars => [A]_vars
  <2> SUFFICES ASSUME Inv, Types, OrderInv, FailInv, Next,
                      rpc = "polled", rpc' = "idle",
                      call[api_inst_pc - 1].kind = "copy",
                      LaunchFailed(api_inst_pc - 1), NoRestore
               PROVE  retval' = "failed"
    BY DEF NoRestore
  <2>1. Order /\ Failures
    BY ZenonT(30), NextRuns DEF OrderInv, FailInv
  <2>2. PollWorker
    BY DEF Next, RpcStep, Serve, ParserStep, WorkerStep, OobStep,
       try_lock_client, ConfirmOffline, Issue, MarkSync, PollParser, Parse,
       ParseFails, ParserRequest, ParserReply, PollCalls, Execute,
       RestoreBrokenFails, WorkerRequest, WorkerResume, Confirmed, Abandon,
       CheckpointHandles, CheckpointFails, Drain, DrainFails, FinishDump,
       Request, Answer, AnswerAndRemove, Restore, rpc_vars
  <2> QED BY <2>1, <2>2, PollReports
<1>2. Spec => [][A]_vars
  BY <1>1, Invariance, TypesInvariance, OrderInvariance, FailInvariance, PTL
     DEF Spec
<1> QED BY <1>2 DEF FailuresReported
=============================================================================
