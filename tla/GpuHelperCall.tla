--------------------------- MODULE GpuHelperCall ---------------------------
(***************************************************************************)
(* Helper calls from GPU threads to the host.  A GPU thread that runs an   *)
(* eBPF program reaches the maps of the runtime through one CommSharedMem  *)
(* block: it copies its arguments into req, takes the spin lock            *)
(* occupy_flag, writes request_id and map_id, raises flag1, spins on       *)
(* flag2, reads resp and releases the lock (make_helper_call and the       *)
(* _bpf_helper_ext_* functions of default_trampoline.cu).  The CUDA        *)
(* watcher thread of the host polls flag1, executes the request and raises *)
(* flag2 (start_cuda_watcher_thread).                                      *)
(*                                                                         *)
(* The copy into req is made before the lock is taken: that is how the     *)
(* device code is written, and it is kept.                                 *)
(***************************************************************************)
EXTENDS Integers, FiniteSets

CONSTANTS Threads,   \* GPU threads
          Maps,      \* map ids a map helper is called with
          Data,      \* contents of a key, a value or a message
          Ops,       \* the helpers that the loaded programs use
          NoThread   \* nobody: the value of a lock that is free

ASSUME ThreadsAssumption == NoThread \notin Threads

(***************************************************************************)
(* The helpers that go through the block.  "pid" copies nothing, "update"  *)
(* copies two buffers (key, then value), the others one buffer, at offset  *)
(* 0 of the union in every case.                                           *)
(***************************************************************************)
HelperOperation == {"lookup", "update", "delete", "printk", "pid", "puts"}
ASSUME OpsAssumption == Ops \subseteq HelperOperation
MapOps == {"lookup", "update", "delete"}
CopiesKey == HelperOperation \ {"pid"}
CopiesValue == {"update"}

VARIABLES
  pc,           \* where each GPU thread is in its helper call
  call,         \* the arguments of the helper call of each thread
  answer,       \* the HelperCallResponse each thread copied out last
  occupy_flag,  \* holder of the device side spin lock, or NoThread
  flag1, flag2, \* device -> host and host -> device signals
  request_id, map_id, req, resp,  \* the rest of CommSharedMem
  hpc,          \* where the watcher thread is
  hop, hmap,    \* req_id and map_fd, read by the watcher at the start
  should_stop   \* cuda_watcher_should_stop

device == <<pc, call, answer>>
shm == <<occupy_flag, flag1, flag2, request_id, map_id, req, resp>>
host == <<hpc, hop, hmap, should_stop>>
vars == <<device, shm, host>>

\* An argument that is never read: the value of unused fields.
Unused == "unused"

ArgsFor(op) ==
  [op : {op},
   map : IF op \in MapOps THEN Maps ELSE {0},
   key : IF op \in CopiesKey THEN Data ELSE {Unused},
   val : IF op \in CopiesValue THEN Data ELSE {Unused}]

Calls == UNION {ArgsFor(op) : op \in Ops}

\* A response carries what was executed: the fields of the request the
\* watcher used to compute the result.
Responses == [op : HelperOperation \cup {Unused},
              map : Maps \cup {0},
              key : Data \cup {Unused},
              val : Data \cup {Unused}]
Blank == [op |-> Unused, map |-> 0, key |-> Unused, val |-> Unused]

\* create_cuda_context clears the block, the watcher is started.
Init ==
  /\ pc = [t \in Threads |-> "idle"]
  /\ call = [t \in Threads |-> Blank]
  /\ answer = [t \in Threads |-> Blank]
  /\ occupy_flag = NoThread
  /\ flag1 = 0 /\ flag2 = 0
  /\ request_id = Unused /\ map_id = 0
  /\ req = [key |-> Unused, val |-> Unused]
  /\ resp = Blank
  /\ hpc = "poll" /\ hop = Unused /\ hmap = 0
  /\ should_stop = FALSE

-----------------------------------------------------------------------------
Goto(t, l) == pc' = [pc EXCEPT ![t] = l]

\* The next copy or, when there is none left, the spin lock.
AfterKey(op) == IF op \in CopiesValue THEN "copyval" ELSE "lock"

\* _bpf_helper_ext_xxxx is entered with its arguments in registers.
BeginCall(t) ==
  /\ pc[t] = "idle"
  /\ \E c \in Calls :
       /\ call' = [call EXCEPT ![t] = c]
       /\ Goto(t, IF c.op \in CopiesKey THEN "copykey" ELSE "lock")
  /\ UNCHANGED <<answer, shm, host>>

\* simple_memcpy of the key (or message) into the shared request.
CopyKey(t) ==
  /\ pc[t] = "copykey"
  /\ req' = [req EXCEPT !.key = call[t].key]
  /\ Goto(t, AfterKey(call[t].op))
  /\ UNCHANGED <<call, answer, occupy_flag, flag1, flag2, request_id, map_id,
                 resp, host>>

\* simple_memcpy of the value, and the flags, of a map update.
CopyValue(t) ==
  /\ pc[t] = "copyval"
  /\ req' = [req EXCEPT !.val = call[t].val]
  /\ Goto(t, "lock")
  /\ UNCHANGED <<call, answer, occupy_flag, flag1, flag2, request_id, map_id,
                 resp, host>>

\* Mutant of SpinLock: the lock is stored to without the compare.
SpinLockBlind(t) ==
  /\ pc[t] = "lock"
  /\ occupy_flag' = t
  /\ Goto(t, "fill")
  /\ UNCHANGED <<call, answer, flag1, flag2, request_id, map_id, req, resp,
                 host>>

\* spin_lock: the atomicCAS that succeeds.  One that fails changes nothing.
SpinLock(t) ==
  /\ pc[t] = "lock"
  /\ occupy_flag = NoThread
  /\ occupy_flag' = t
  /\ Goto(t, "fill")
  /\ UNCHANGED <<call, answer, flag1, flag2, request_id, map_id, req,
                 resp, host>>

\* request_id and map_id, made visible by the membar before flag1.
FillRequest(t) ==
  /\ pc[t] = "fill"
  /\ request_id' = call[t].op
  /\ map_id' = call[t].map
  /\ Goto(t, "ring")
  /\ UNCHANGED <<call, answer, occupy_flag, flag1, flag2, req, resp,
                 host>>

\* st.global.u32 [flag1], 1
RaiseFlag1(t) ==
  /\ pc[t] = "ring"
  /\ flag1' = 1
  /\ Goto(t, "spin")
  /\ UNCHANGED <<call, answer, occupy_flag, flag2, request_id, map_id,
                 req, resp, host>>

\* Mutants of SeeFlag2: flag2 is not reset; the loop does not wait.
SeeFlag2Keeps(t) ==
  /\ pc[t] = "spin" /\ flag2 # 0
  /\ Goto(t, "read")
  /\ UNCHANGED <<call, answer, shm, host>>

SeeFlag2Counts(t) ==
  /\ pc[t] = "spin"
  /\ flag2' = flag2 - 1
  /\ Goto(t, "read")
  /\ UNCHANGED <<call, answer, occupy_flag, flag1, request_id, map_id, req,
                 resp, host>>

\* The spin loop leaves when flag2 is not 0, and resets it.
SeeFlag2(t) ==
  /\ pc[t] = "spin"
  /\ flag2 # 0
  /\ flag2' = 0
  /\ Goto(t, "read")
  /\ UNCHANGED <<call, answer, occupy_flag, flag1, request_id, map_id,
                 req, resp, host>>

\* HelperCallResponse resp = g_data->resp
ReadResponse(t) ==
  /\ pc[t] = "read"
  /\ answer' = [answer EXCEPT ![t] = resp]
  /\ Goto(t, "unlock")
  /\ UNCHANGED <<call, shm, host>>

\* spin_unlock: atomicExch(lock, 0), and the helper returns: its arguments
\* and its copy of the response go out of scope.
SpinUnlock(t) ==
  /\ pc[t] = "unlock"
  /\ occupy_flag' = NoThread
  /\ call' = [call EXCEPT ![t] = Blank]
  /\ answer' = [answer EXCEPT ![t] = Blank]
  /\ Goto(t, "idle")
  /\ UNCHANGED <<flag1, flag2, request_id, map_id, req,
                 resp, host>>
-----------------------------------------------------------------------------
\* One turn of the loop that finds flag1 = 1: clear it, then read the request
\* id and the map id.  The stop flag is tested at the head of the loop only.
HostTake ==
  /\ hpc = "poll" /\ ~should_stop
  /\ flag1 = 1
  /\ flag1' = 0
  /\ hop' = request_id /\ hmap' = map_id
  /\ hpc' = "serve"
  /\ UNCHANGED <<device, occupy_flag, flag2, request_id, map_id, req, resp,
                 should_stop>>

\* The map operation, print or pid query, computed from req as it is now.
\* An unknown request id would leave resp alone.
HostServe ==
  /\ hpc = "serve"
  /\ resp' = IF hop \in HelperOperation
               THEN [op |-> hop,
                     map |-> hmap,
                     key |-> IF hop \in CopiesKey THEN req.key ELSE Unused,
                     val |-> IF hop \in CopiesValue THEN req.val ELSE Unused]
               ELSE resp
  /\ hpc' = "reply"
  /\ UNCHANGED <<device, occupy_flag, flag1, flag2, request_id, map_id, req,
                 hop, hmap, should_stop>>

\* Mutant of HostReply: the turn ends without raising flag2.
HostReplySilent ==
  /\ hpc = "reply"
  /\ hpc' = "poll"
  /\ hop' = Unused /\ hmap' = 0
  /\ UNCHANGED <<device, shm, should_stop>>

\* flag2 = 1 and the fence, then the 1 ms sleep and the next turn: req_id and
\* map_fd are locals of the turn.
HostReply ==
  /\ hpc = "reply"
  /\ flag2' = 1
  /\ hpc' = "poll"
  /\ hop' = Unused /\ hmap' = 0
  /\ UNCHANGED <<device, occupy_flag, flag1, request_id, map_id, req, resp,
                 should_stop>>

\* The head of the loop sees the stop flag: the watcher thread ends.
HostExit ==
  /\ hpc = "poll" /\ should_stop
  /\ hpc' = "exited"
  /\ UNCHANGED <<device, shm, hop, hmap, should_stop>>

\* ~bpf_attach_ctx
StopWatcher ==
  /\ ~should_stop
  /\ should_stop' = TRUE
  /\ UNCHANGED <<device, shm, hpc, hop, hmap>>

DeviceStep(t) ==
  \/ BeginCall(t) \/ CopyKey(t) \/ CopyValue(t) \/ SpinLock(t)
  \/ FillRequest(t) \/ RaiseFlag1(t) \/ SeeFlag2(t)
  \/ ReadResponse(t) \/ SpinUnlock(t)

HostStep == HostTake \/ HostServe \/ HostReply \/ HostExit

Next == (\E t \in Threads : DeviceStep(t)) \/ HostStep \/ StopWatcher

(***************************************************************************)
(* Fairness: the watcher thread is an ordinary host thread, and the GPU    *)
(* scheduler runs every thread that can take a step (threads of different  *)
(* warps).  Nothing is assumed about who wins the atomicCAS, and no thread *)
(* has to begin a call.                                                    *)
(***************************************************************************)
Fairness ==
  /\ WF_vars(HostStep)
  /\ \A t \in Threads : WF_vars(DeviceStep(t) /\ pc[t] # "idle")

Spec == Init /\ [][Next]_vars
FairSpec == Spec /\ Fairness
-----------------------------------------------------------------------------
TypeOK ==
  /\ pc \in [Threads -> {"idle", "copykey", "copyval", "lock", "fill", "ring",
                        "spin", "read", "unlock"}]
  /\ call \in [Threads -> Responses]
  /\ answer \in [Threads -> Responses]
  /\ occupy_flag \in Threads \cup {NoThread}
  /\ flag1 \in {0, 1} /\ flag2 \in {0, 1}
  /\ request_id \in HelperOperation \cup {Unused}
  /\ map_id \in Maps \cup {0}
  /\ req \in [key : Data \cup {Unused}, val : Data \cup {Unused}]
  /\ resp \in Responses
  /\ hpc \in {"poll", "serve", "reply", "exited"}
  /\ hop \in HelperOperation \cup {Unused}
  /\ hmap \in Maps \cup {0}
  /\ should_stop \in BOOLEAN

\* t is between its spin_lock and its spin_unlock.
InCall(t) == pc[t] \in {"fill", "ring", "spin", "read", "unlock"}

\* The request ids that were answered: what the lock really protects.
SameRequest(r, c) == r.op = c.op /\ r.map = c.map

\* Every response a GPU thread takes out of the block was computed for the
\* helper and the map that this thread asked for, whatever the other threads
\* do: a caller is never handed the response of an earlier call.
AnswersOwnRequest ==
  \A t \in Threads : pc[t] = "unlock" => SameRequest(answer[t], call[t])

\* A signal is never left over: flag1 or flag2 is up only while the thread
\* that holds occupy_flag is spinning, and never both, so no call can start
\* with the reply to another one pending.
NoStaleSignal ==
  /\ ~(flag1 = 1 /\ flag2 = 1)
  /\ flag1 = 1 \/ flag2 = 1 \/ hpc \in {"serve", "reply"}
       => \E t \in Threads : occupy_flag = t /\ pc[t] = "spin"

\* While the watcher executes a request no GPU thread changes the request id,
\* the map id or the lock under it.
RequestStable ==
  [][(hpc \in {"serve", "reply"})
       => UNCHANGED <<request_id, map_id, occupy_flag>>]_vars

\* The watcher executes the request with the arguments of the thread that
\* made it: the arguments, like the request id, belong to the holder of
\* occupy_flag ("Lock mechanism", examples/ptx/README.md).
AnswersOwnArguments ==
  \A t \in Threads : pc[t] = "unlock" => answer[t] = call[t]

\* A thread that got the lock returns from its helper call unless the
\* watcher is told to stop: the two signals cannot miss each other.
HelperReturns ==
  \A t \in Threads : InCall(t) ~> (pc[t] = "idle" \/ should_stop)
=============================================================================
