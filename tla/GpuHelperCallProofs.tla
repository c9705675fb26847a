------------------------ MODULE GpuHelperCallProofs ------------------------
(***************************************************************************)
(* Proofs about GpuHelperCall, for any set of GPU threads, maps, contents  *)
(* and helpers in use.  The lock, the two flags and the position of the    *)
(* watcher have to be related to each other before anything can be said    *)
(* about responses; Inv collects these relations and is inductive.         *)
(***************************************************************************)
EXTENDS GpuHelperCall, TLAPS

Serving == hpc \in {"serve", "reply"}
Signalled == flag1 = 1 \/ flag2 = 1 \/ Serving

\* The lock is held exactly by the thread that is inside make_helper_call.
LockInv == \A t \in Threads : InCall(t) <=> occupy_flag = t

\* At most one of: request raised, request being served, reply raised; and
\* only while the holder of the lock spins.
SignalInv ==
  /\ ~(flag1 = 1 /\ flag2 = 1)
  /\ Serving => flag1 = 0 /\ flag2 = 0
  /\ Signalled => \E t \in Threads : occupy_flag = t /\ pc[t] = "spin"

\* The request id travels unchanged from the caller to the response.
RequestInv ==
  /\ \A t \in Threads : pc[t] # "idle" => call[t].op \in HelperOperation
  /\ \A t \in Threads :
       pc[t] \in {"ring", "spin"}
         => request_id = call[t].op /\ map_id = call[t].map
  /\ Serving => hop = request_id /\ hmap = map_id
  /\ hpc = "reply" \/ flag2 = 1 => resp.op = request_id /\ resp.map = map_id
  /\ \A t \in Threads : pc[t] = "read" => SameRequest(resp, call[t])
  /\ \A t \in Threads : pc[t] = "unlock" => SameRequest(answer[t], call[t])

Inv == TypeOK /\ LockInv /\ SignalInv /\ RequestInv

\* The arguments of a call are well typed, and its helper is a known one.
LEMMA CallsTyped == \A c \in Calls : c \in Responses /\ c.op \in HelperOperation
BY OpsAssumption DEF Calls, ArgsFor, Responses, HelperOperation, MapOps,
   CopiesKey, CopiesValue, Unused

\* The cleared block and idle threads are well typed.
LEMMA TypeInit == Init => TypeOK
<1>1. Blank \in Responses
  BY DEF Blank, Responses
<1>2. [key |-> Unused, val |-> Unused]
        \in [key : Data \cup {Unused}, val : Data \cup {Unused}]
  OBVIOUS
<1> QED BY ZenonT(30), <1>1, <1>2 DEF Init, TypeOK

\* Every step of the GPU threads, the watcher and the destructor keeps types.
LEMMA TypeStep == TypeOK /\ [Next]_vars => TypeOK'
<1> SUFFICES ASSUME TypeOK, [Next]_vars PROVE TypeOK'
  OBVIOUS
<1>b. Blank \in Responses
  BY DEF Blank, Responses
<1>1. ASSUME NEW t \in Threads, BeginCall(t) PROVE TypeOK'
  BY <1>1, CallsTyped DEF BeginCall, Goto, TypeOK, shm, host
<1>2. ASSUME NEW t \in Threads, CopyKey(t) PROVE TypeOK'
  BY <1>2 DEF CopyKey, Goto, AfterKey, TypeOK, host, Responses
<1>3. ASSUME NEW t \in Threads, CopyValue(t) PROVE TypeOK'
  BY <1>3 DEF CopyValue, Goto, TypeOK, host, Responses
<1>4. ASSUME NEW t \in Threads, SpinLock(t) PROVE TypeOK'
  BY <1>4 DEF SpinLock, Goto, TypeOK, host
<1>5. ASSUME NEW t \in Threads, FillRequest(t) PROVE TypeOK'
  BY <1>5 DEF FillRequest, Goto, TypeOK, host, Responses
<1>6. ASSUME NEW t \in Threads, RaiseFlag1(t) PROVE TypeOK'
  BY <1>6 DEF RaiseFlag1, Goto, TypeOK, host
<1>7. ASSUME NEW t \in Threads, SeeFlag2(t) PROVE TypeOK'
  BY <1>7 DEF SeeFlag2, Goto, TypeOK, host
<1>8. ASSUME NEW t \in Threads, ReadResponse(t) PROVE TypeOK'
  BY <1>8 DEF ReadResponse, Goto, TypeOK, shm, host
<1>9. ASSUME NEW t \in Threads, SpinUnlock(t) PROVE TypeOK'
  BY <1>9, <1>b DEF SpinUnlock, Goto, TypeOK, host
<1>10. CASE HostTake
  BY <1>10 DEF HostTake, TypeOK, device
<1>11. CASE HostServe
  BY <1>11 DEF HostServe, TypeOK, device, Responses
<1>12. CASE HostReply
  BY <1>12 DEF HostReply, TypeOK, device
<1>13. CASE HostExit
  BY <1>13 DEF HostExit, TypeOK, device, shm
<1>14. CASE StopWatcher
  BY <1>14 DEF StopWatcher, TypeOK, device, shm
<1>15. CASE UNCHANGED vars
  BY <1>15 DEF TypeOK, vars, device, shm, host
<1> QED
  BY <1>1, <1>2, <1>3, <1>4, <1>5, <1>6, <1>7, <1>8, <1>9, <1>10, <1>11,
     <1>12, <1>13, <1>14, <1>15 DEF Next, DeviceStep, HostStep

\* Every variable always has its type.
THEOREM TypeCorrect == Spec => []TypeOK
BY TypeInit, TypeStep, PTL DEF Spec

-----------------------------------------------------------------------------
\* One step preserves Inv, given that types are preserved.
LEMMA InvStep == Inv /\ TypeOK' /\ [Next]_vars => Inv'
<1> SUFFICES ASSUME Inv, TypeOK', [Next]_vars
             PROVE  LockInv' /\ SignalInv' /\ RequestInv'
  BY DEF Inv
<1> USE ThreadsAssumption
<1>1. ASSUME NEW t \in Threads, BeginCall(t)
      PROVE  LockInv' /\ SignalInv' /\ RequestInv'
  <2>1. PICK c \in Calls : call' = [call EXCEPT ![t] = c] /\
              Goto(t, IF c.op \in CopiesKey THEN "copykey" ELSE "lock")
    BY Zenon, <1>1 DEF BeginCall
  <2>2. c.op \in HelperOperation
    BY CallsTyped
  <2>3. pc[t] = "idle" /\ pc'[t] \in {"copykey", "lock"} /\ call'[t] = c
        /\ \A u \in Threads : u # t => pc'[u] = pc[u] /\ call'[u] = call[u]
    BY <1>1, <2>1 DEF BeginCall, Goto, Inv, TypeOK
  <2>4. LockInv'
    BY <1>1, <2>3 DEF BeginCall, Inv, LockInv, InCall, shm
  <2>5. SignalInv'
    BY <1>1, <2>3 DEF BeginCall, Inv, SignalInv, Signalled, Serving, shm, host
  <2>6. RequestInv'
    BY <1>1, <2>2, <2>3 DEF BeginCall, Inv, RequestInv, SameRequest, Serving,
       shm, host
  <2> QED BY <2>4, <2>5, <2>6
<1>2. ASSUME NEW t \in Threads, CopyKey(t) \/ CopyValue(t)
      PROVE  LockInv' /\ SignalInv' /\ RequestInv'
  BY <1>2 DEF CopyKey, CopyValue, Goto, AfterKey, Inv, TypeOK, LockInv, InCall,
     SignalInv, Signalled, Serving, RequestInv, SameRequest, host
<1>3. ASSUME NEW t \in Threads, SpinLock(t)
      PROVE  LockInv' /\ SignalInv' /\ RequestInv'
  BY <1>3 DEF SpinLock, Goto, Inv, TypeOK, LockInv, InCall,
     SignalInv, Signalled, Serving, RequestInv, SameRequest, host
<1>4. ASSUME NEW t \in Threads, FillRequest(t)
      PROVE  LockInv' /\ SignalInv' /\ RequestInv'
  BY <1>4 DEF FillRequest, Goto, Inv, TypeOK, LockInv, InCall,
     SignalInv, Signalled, Serving, RequestInv, SameRequest, host
<1>5. ASSUME NEW t \in Threads, RaiseFlag1(t)
      PROVE  LockInv' /\ SignalInv' /\ RequestInv'
  BY <1>5 DEF RaiseFlag1, Goto, Inv, TypeOK, LockInv, InCall,
     SignalInv, Signalled, Serving, RequestInv, SameRequest, host
<1>6. ASSUME NEW t \in Threads, SeeFlag2(t)
      PROVE  LockInv' /\ SignalInv' /\ RequestInv'
  BY <1>6 DEF SeeFlag2, Goto, Inv, TypeOK, LockInv, InCall,
     SignalInv, Signalled, Serving, RequestInv, SameRequest, host
<1>7. ASSUME NEW t \in Threads, ReadResponse(t)
      PROVE  LockInv' /\ SignalInv' /\ RequestInv'
  BY <1>7 DEF ReadResponse, Goto, Inv, TypeOK, LockInv, InCall,
     SignalInv, Signalled, Serving, RequestInv, SameRequest, shm, host
<1>8. ASSUME NEW t \in Threads, SpinUnlock(t)
      PROVE  LockInv' /\ SignalInv' /\ RequestInv'
  BY <1>8 DEF SpinUnlock, Goto, Inv, TypeOK, LockInv, InCall,
     SignalInv, Signalled, Serving, RequestInv, SameRequest, host
<1>9. CASE HostTake
  BY <1>9 DEF HostTake, Inv, TypeOK, LockInv, InCall,
     SignalInv, Signalled, Serving, RequestInv, SameRequest, device
<1>10. CASE HostServe
  BY <1>10 DEF HostServe, Inv, TypeOK, LockInv, InCall, Responses,
     SignalInv, Signalled, Serving, RequestInv, SameRequest, device
<1>11. CASE HostReply
  BY <1>11 DEF HostReply, Inv, TypeOK, LockInv, InCall,
     SignalInv, Signalled, Serving, RequestInv, SameRequest, device
<1>12. CASE HostExit \/ StopWatcher
  BY <1>12 DEF HostExit, StopWatcher, Inv, TypeOK, LockInv, InCall,
     SignalInv, Signalled, Serving, RequestInv, SameRequest, device, shm
<1>13. CASE UNCHANGED vars
  BY <1>13 DEF vars, Inv, TypeOK, LockInv, InCall,
     SignalInv, Signalled, Serving, RequestInv, SameRequest, device, shm, host
<1> QED
  BY <1>1, <1>2, <1>3, <1>4, <1>5, <1>6, <1>7, <1>8, <1>9, <1>10, <1>11,
     <1>12, <1>13 DEF Next, DeviceStep, HostStep

\* Nobody holds the lock and no signal is up when the watcher is started.
LEMMA InvInit == Init => Inv
BY ThreadsAssumption, TypeInit
   DEF Init, Inv, LockInv, InCall, SignalInv, Signalled, Serving, RequestInv

\* Inv holds in every reachable state: the lock, the signals and the request
\* ids agree.
THEOREM Invariance == Spec => []Inv
BY InvInit, InvStep, TypeStep, PTL DEF Spec, Inv

\* make_helper_call hands every GPU thread the response to its own request id
\* and map id, for any number of threads.
THEOREM ResponseBelongsToCaller == Spec => []AnswersOwnRequest
<1>1. Inv => AnswersOwnRequest
  BY DEF Inv, RequestInv, AnswersOwnRequest
<1> QED BY <1>1, Invariance, PTL

\* flag1 and flag2 are up only for the thread that holds occupy_flag and
\* spins, and never both: no reply is left for a later caller.
THEOREM SignalsNeverStale == Spec => []NoStaleSignal
<1>1. Inv => NoStaleSignal
  BY DEF Inv, SignalInv, Signalled, Serving, NoStaleSignal
<1> QED BY <1>1, Invariance, PTL

\* The request id, the map id and the lock stay put while the watcher works
\* on a request.
THEOREM RequestIsStable == Spec => RequestStable
<1>1. ASSUME Inv, [Next]_vars, hpc \in {"serve", "reply"}
      PROVE  UNCHANGED <<request_id, map_id, occupy_flag>>
  <2>1. PICK h \in Threads : occupy_flag = h /\ pc[h] = "spin" /\ flag2 = 0
    BY <1>1 DEF Inv, SignalInv, Signalled, Serving
  <2>2. \A t \in Threads : InCall(t) => t = h
    BY <1>1, <2>1 DEF Inv, LockInv
  <2> QED
    BY <1>1, <2>1, <2>2, ThreadsAssumption
       DEF Next, DeviceStep, HostStep, BeginCall, CopyKey, CopyValue, SpinLock,
           FillRequest, RaiseFlag1, SeeFlag2, ReadResponse, SpinUnlock,
           HostTake, HostServe, HostReply, HostExit, StopWatcher, InCall,
           vars, device, shm, host
<1>2. Inv /\ [Next]_vars
        => [(hpc \in {"serve", "reply"})
              => UNCHANGED <<request_id, map_id, occupy_flag>>]_vars
  BY <1>1
<1> QED BY <1>2, Invariance, PTL DEF Spec, RequestStable

-----------------------------------------------------------------------------
(* A single GPU thread.  Nobody writes to req between its copies and the   *)
(* watcher's reads, so the arguments reach the response as well.           *)

\* The arguments the helper passes, as far as they have been copied; then
\* what the watcher made of them.
ArgsInv ==
  \A t \in Threads :
    /\ pc[t] # "idle" =>
         /\ call[t].op \notin CopiesKey => call[t].key = Unused
         /\ call[t].op \notin CopiesValue => call[t].val = Unused
    /\ pc[t] = "copyval" => call[t].op \in CopiesValue
    /\ pc[t] \in {"copyval", "lock", "fill", "ring", "spin"} =>
         (call[t].op \in CopiesKey => req.key = call[t].key)
    /\ pc[t] \in {"lock", "fill", "ring", "spin"} =>
         (call[t].op \in CopiesValue => req.val = call[t].val)
    /\ pc[t] = "spin" /\ (hpc = "reply" \/ flag2 = 1) => resp = call[t]
    /\ pc[t] = "read" => resp = call[t]
    /\ pc[t] = "unlock" => answer[t] = call[t]

\* An argument a helper does not pass is the unused one.
LEMMA CallsShaped ==
  \A c \in Calls : /\ c.op \notin CopiesKey => c.key = Unused
                   /\ c.op \notin CopiesValue => c.val = Unused
BY DEF Calls, ArgsFor

\* What the watcher computes for the thread that spins is its own call.
LEMMA ServedOwn ==
  ASSUME Inv, ArgsInv, HostServe, NEW t \in Threads, pc[t] = "spin"
  PROVE  resp' = call[t]
<1>1. /\ hop = call[t].op /\ hmap = call[t].map /\ hop \in HelperOperation
      /\ call[t] \in Responses
  BY DEF Inv, TypeOK, RequestInv, Serving, HostServe
<1>2. resp' = [op |-> hop, map |-> hmap,
               key |-> IF hop \in CopiesKey THEN req.key ELSE Unused,
               val |-> IF hop \in CopiesValue THEN req.val ELSE Unused]
  BY <1>1 DEF HostServe
<1>3. /\ (IF hop \in CopiesKey THEN req.key ELSE Unused) = call[t].key
      /\ (IF hop \in CopiesValue THEN req.val ELSE Unused) = call[t].val
  BY <1>1 DEF ArgsInv
<1> QED BY <1>1, <1>2, <1>3 DEF Responses

\* One step of the only thread, or of the watcher, keeps ArgsInv.
LEMMA ArgsStep ==
  ASSUME \A t, u \in Threads : t = u, Inv, ArgsInv, [Next]_vars
  PROVE  ArgsInv'
<1>1. ASSUME NEW t \in Threads, BeginCall(t) PROVE ArgsInv'
  <2>1. PICK c \in Calls : call' = [call EXCEPT ![t] = c] /\
              Goto(t, IF c.op \in CopiesKey THEN "copykey" ELSE "lock")
    BY Zenon, <1>1 DEF BeginCall
  <2>2. /\ call'[t] = c /\ \A u \in Threads : u = t
        /\ pc'[t] = IF c.op \in CopiesKey THEN "copykey" ELSE "lock"
    BY <2>1 DEF Goto, Inv, TypeOK
  <2>3. c.op \notin CopiesKey => c.op \notin CopiesValue
    BY DEF CopiesKey, CopiesValue, HelperOperation
  <2> QED BY <2>2, <2>3, CallsShaped DEF ArgsInv
<1>2. ASSUME NEW t \in Threads, CopyKey(t) PROVE ArgsInv'
  <2>1. /\ pc'[t] = AfterKey(call[t].op) /\ call' = call
        /\ req'.key = call[t].key /\ \A u \in Threads : u = t
    BY <1>2 DEF CopyKey, Goto, Inv, TypeOK
  <2> QED BY <1>2, <2>1 DEF CopyKey, ArgsInv, AfterKey
<1>3. ASSUME NEW t \in Threads, CopyValue(t) PROVE ArgsInv'
  <2>1. /\ pc'[t] = "lock" /\ call' = call /\ req'.val = call[t].val
        /\ req'.key = req.key /\ \A u \in Threads : u = t
    BY <1>3 DEF CopyValue, Goto, Inv, TypeOK
  <2> QED BY <1>3, <2>1 DEF CopyValue, ArgsInv
<1>4. ASSUME NEW t \in Threads, SpinLock(t) PROVE ArgsInv'
  BY <1>4 DEF SpinLock, Goto, ArgsInv, Inv, TypeOK
<1>5. ASSUME NEW t \in Threads, FillRequest(t) PROVE ArgsInv'
  BY <1>5 DEF FillRequest, Goto, ArgsInv, Inv, TypeOK
<1>6. ASSUME NEW t \in Threads, RaiseFlag1(t) PROVE ArgsInv'
  <2>1. flag2 = 0 /\ hpc # "reply"
    BY <1>6, ThreadsAssumption DEF RaiseFlag1, Inv, TypeOK, SignalInv,
       Signalled, Serving
  <2> QED BY <1>6, <2>1 DEF RaiseFlag1, Goto, ArgsInv, Inv, TypeOK, host
<1>7. ASSUME NEW t \in Threads, SeeFlag2(t) PROVE ArgsInv'
  BY <1>7 DEF SeeFlag2, Goto, ArgsInv, Inv, TypeOK
<1>8. ASSUME NEW t \in Threads, ReadResponse(t) PROVE ArgsInv'
  BY <1>8 DEF ReadResponse, Goto, ArgsInv, Inv, TypeOK, shm
<1>9. ASSUME NEW t \in Threads, SpinUnlock(t) PROVE ArgsInv'
  BY <1>9 DEF SpinUnlock, Goto, ArgsInv, Inv, TypeOK
<1>10. CASE HostTake
  BY SMTT(30), <1>10 DEF HostTake, ArgsInv, device
<1>11. CASE HostServe
  <2>1. \A t \in Threads : pc[t] # "read"
    BY <1>11 DEF HostServe, Inv, SignalInv, Signalled, Serving
  <2> QED BY <1>11, <2>1, ServedOwn DEF HostServe, ArgsInv, device
<1>12. CASE HostReply
  BY <1>12 DEF HostReply, ArgsInv, device
<1>13. CASE HostExit \/ StopWatcher
  BY <1>13 DEF HostExit, StopWatcher, ArgsInv, device, shm
<1>14. CASE UNCHANGED vars
  BY <1>14 DEF vars, ArgsInv, device, shm, host
<1> QED
  BY <1>1, <1>2, <1>3, <1>4, <1>5, <1>6, <1>7, <1>8, <1>9, <1>10, <1>11,
     <1>12, <1>13, <1>14 DEF Next, DeviceStep, HostStep

\* With one GPU thread the watcher executes each request with the key and
\* the value of its caller: what fails with two threads is the copy into req
\* outside the lock, nothing else.
THEOREM OneThreadOwnArguments ==
  ASSUME \A t, u \in Threads : t = u
  PROVE  Spec => []AnswersOwnArguments
<1>1. Init => ArgsInv
  BY DEF Init, ArgsInv
<1>2. Inv /\ ArgsInv /\ [Next]_vars => ArgsInv'
  BY ArgsStep
<1>3. ArgsInv => AnswersOwnArguments
  BY DEF ArgsInv, AnswersOwnArguments
<1> QED BY <1>1, <1>2, <1>3, Invariance, PTL DEF Spec
=============================================================================
