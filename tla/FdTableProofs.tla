--------------------------- MODULE FdTableProofs ---------------------------
(***************************************************************************)
(* Proofs about the handler table, for every set of threads, descriptors,  *)
(* map names and calls.                                                    *)
(***************************************************************************)
EXTENDS FdTable, TLAPS

\* The descriptor that a thread's close has taken from the application, and
\* the number its BPF_LINK_CREATE has opened and not yet returned.
Closing(t) == call[t].pc \in {"startup", "body", "orig_close"}
                 /\ call[t].op = "close"
Private(t, fd) == (Closing(t) /\ call[t].fd = fd) \/ call[t].id = fd

\* What the arguments of a call in progress are.
CallOK(c) ==
    /\ c.pc = "app" => c = NoCall
    /\ c.pc # "app" /\ c.op = "map" => c.name \in MapNames
    /\ c.pc # "app" /\ c.op \in {"ioctl", "link", "close", "dup3"}
          => c.fd \in Fds
    /\ c.pc # "app" /\ c.op \in {"ioctl", "link", "dup3"} => c.arg \in Fds
    /\ c.pc = "store" => c.id \in Fds
    /\ c.pc \in {"store", "cookie"} => c.op = "link"
    /\ c.pc = "attach" => c.op \in {"ioctl", "link"}
    /\ c.pc = "orig_close" => c.op = "close"
    /\ c.pc \in {"startup", "body", "orig_close"} => c.id = None

\* A map handler has a name, and a container unless the process stopped or
\* map_init may refuse maps of its type.
MayFail(name) == IsA(OtherNames \cup RingNames, name)
MapsOK == \A fd \in Fds : Is("map", fd) =>
             /\ handlers[fd].name \in MapNames
             /\ stopped \/ handlers[fd].impl \/ MayFail(handlers[fd].name)

\* Descriptors are owned by the application or by one call.
Ownership ==
    /\ held \subseteq kernel_fds
    /\ \A t \in Threads : \A fd \in Fds :
          Private(t, fd) => /\ fd \in kernel_fds \ held
                            /\ \A u \in Threads : Private(u, fd) => t = u

Calls == \A t \in Threads : CallOK(call[t])
Inv == TypeOK /\ Calls /\ MapsOK /\ ContainersOwned /\ Ownership

----------------------------------------------------------------------------
\* The handlers the calls store are handlers.
LEMMA HandlerTypes ==
    /\ unused \in Handler /\ ProgHandler \in Handler /\ PerfHandler \in Handler
    /\ \A name \in MapNames, impl \in BOOLEAN : MapHandler(name, impl) \in Handler
    /\ \A prog, target \in Fds \cup {None}, born \in {"ioctl", "link", "cookie"} :
          LinkHandler(prog, target, born) \in Handler
BY Zenon DEF unused, ProgHandler, PerfHandler, MapHandler, LinkHandler, Handler

\* What they hold.
LEMMA HandlerFields ==
    /\ unused.kind = "unused" /\ ProgHandler.kind = "prog"
    /\ PerfHandler.kind = "perf"
    /\ \A name, impl : /\ MapHandler(name, impl).kind = "map"
                       /\ MapHandler(name, impl).name = name
                       /\ MapHandler(name, impl).impl = impl
    /\ \A prog, target, born : /\ LinkHandler(prog, target, born).kind = "link"
                               /\ LinkHandler(prog, target, born).prog = prog
                               /\ LinkHandler(prog, target, born).target = target
                               /\ LinkHandler(prog, target, born).born = born
BY DEF unused, ProgHandler, PerfHandler, MapHandler, LinkHandler

\* The state of a thread outside every call.
LEMMA NoCallFields == NoCall.pc = "app" /\ NoCall.id = None
BY DEF NoCall

\* No number is the own of a thread outside every call.
LEMMA NoCallOwns ==
    ASSUME NEW t \in Threads, call[t] = NoCall, NEW fd \in Fds
    PROVE  ~Private(t, fd)
BY NoneAssumption, NoCallFields DEF Private, Closing

\* map_init stores a handler of a map, whatever becomes of the container.
LEMMA StoreMapStores ==
    ASSUME NEW fd, NEW name, NEW ok, StoreMap(fd, name, ok)
    PROVE  \E h : Store(fd, h) /\ h.kind = "map" /\ h.born = "none"
<1>1. PICK impl : Store(fd, MapHandler(name, impl))
  BY Zenon DEF StoreMap
<1>2. /\ MapHandler(name, impl).kind = "map"
      /\ MapHandler(name, impl).born = "none"
  BY DEF MapHandler, unused
<1>3. QED
  BY Zenon, <1>1, <1>2

\* What the record of a call holds.
LEMMA CallFields ==
    ASSUME NEW c \in Call
    PROVE  /\ c.pc \in {"app", "startup", "body", "store", "cookie", "attach",
                        "orig_close"}
           /\ c.op \in AllOps /\ c.fd \in Fds \cup {None}
           /\ c.arg \in Fds \cup {None} /\ c.name \in MapNames \cup {<<>>}
           /\ c.id \in Fds \cup {None}
BY DEF Call

\* A thread outside every call.
LEMMA NoCallOK == NoCall \in Call /\ CallOK(NoCall)
<1>1. NoCall \in Call
  BY DEF NoCall, Call, AllOps
<1>2. QED
  BY <1>1 DEF CallOK, NoCall

\* Only a single name is duplicated.
LEMMA DupName ==
    ASSUME NEW name \in MapNames, Len(name) # 2
    PROVE  /\ dup_(name) \in MapNames
           /\ MayFail(name) => MayFail(dup_(name))
<1>1. PICK n \in Names : name = <<n>> \/ name = <<"dup", n>>
  BY DEF MapNames
<1>2. name = <<n>>
  BY <1>1
<1>3. QED
  BY <1>2 DEF MapNames, dup_, MayFail, IsA

\* set_handler of a map keeps the table's types and the relation of map
\* handlers and containers.
LEMMA StoreMapOK ==
    ASSUME TypeOK, MapsOK, ContainersOwned, ~stopped,
           NEW fd \in Fds, NEW name \in MapNames, NEW ok \in BOOLEAN,
           ok \/ MayFail(name), StoreMap(fd, name, ok)
    PROVE  /\ handlers' \in [Fds -> Handler]
           /\ segment' \in [MapNames -> {"none", "made"}]
           /\ stopped' \in BOOLEAN
           /\ MapsOK' /\ ContainersOwned'
<1> DEFINE free == segment[name] = "none"
           made == ok /\ free
           m == MapHandler(name, made)
<1>0. made \in BOOLEAN
  OBVIOUS
<1> HIDE DEF made
<1>1. /\ m \in Handler /\ m.kind = "map" /\ m.name = name /\ m.impl = made
  BY <1>0, HandlerTypes, HandlerFields
<1> USE DEF made
<1>2. CASE is_allocated(fd)
  <2>1. handlers' = handlers /\ segment' = segment /\ stopped' = FALSE
    BY Zenon, <1>2 DEF StoreMap, Store
  <2>2. ContainersOwned'
    BY <2>1 DEF ContainersOwned, Owns, Is
  <2>3. MapsOK'
    BY <2>1 DEF MapsOK, Is
  <2>4. QED
    BY Zenon, <2>1, <2>2, <2>3 DEF TypeOK
<1>3. CASE ~is_allocated(fd)
  <2>1. /\ handlers' = [handlers EXCEPT ![fd] = m]
        /\ segment' = IF made THEN [segment EXCEPT ![name] = "made"] ELSE segment
        /\ stopped' = (ok /\ ~free)
    BY Zenon, <1>3 DEF StoreMap, Store
  <2> HIDE DEF m
  <2>2. /\ handlers' \in [Fds -> Handler]
        /\ segment' \in [MapNames -> {"none", "made"}]
        /\ stopped' \in BOOLEAN
        /\ MapsOK'
    BY Zenon, <1>1, <2>1 DEF TypeOK, MapsOK, Is
  <2>3. \A f \in Fds, n \in MapNames :
           Owns(f, n)' <=> IF f = fd THEN n = name /\ made ELSE Owns(f, n)
    BY Zenon, <1>1, <2>1 DEF TypeOK, Owns, Is
  <2>4. \A n \in MapNames : ~Owns(fd, n)
    BY <1>3 DEF Owns, Is, is_allocated
  <2>5. ContainersOwned'
    <3>1. CASE made
      BY <2>1, <2>3, <2>4, <3>1 DEF ContainersOwned, TypeOK
    <3>2. CASE ~made
      BY <2>1, <2>3, <2>4, <3>2 DEF ContainersOwned, TypeOK
    <3>3. QED
      BY <3>1, <3>2
  <2>6. QED
    BY <2>2, <2>5
<1>4. QED
  BY <1>2, <1>3

\* So do set_handler of anything else and clear_id_at.
LEMMA StoreOK ==
    ASSUME TypeOK, MapsOK, ContainersOwned, UNCHANGED <<segment, stopped>>,
           NEW fd \in Fds, NEW h \in Handler, h.kind # "map", Store(fd, h)
    PROVE  handlers' \in [Fds -> Handler] /\ MapsOK' /\ ContainersOwned'
<1>1. handlers' \in [Fds -> Handler]
  BY DEF Store, TypeOK
<1>2. \A f \in Fds : /\ Is("map", f)' <=> Is("map", f)
                     /\ Is("map", f) => handlers'[f] = handlers[f]
  BY DEF Store, TypeOK, Is, is_allocated
<1>3. \A f \in Fds, n \in MapNames : Owns(f, n)' <=> Owns(f, n)
  BY <1>2 DEF Owns
<1>4. MapsOK'
  BY <1>2 DEF MapsOK
<1>5. ContainersOwned'
  BY <1>3 DEF ContainersOwned
<1>6. QED
  BY <1>1, <1>4, <1>5

\* clear_id_at frees a number, with the links to it or the map's container.
LEMMA ClearOK ==
    ASSUME TypeOK, MapsOK, ContainersOwned, UNCHANGED stopped, ~stopped,
           NEW fd \in Fds, clear_id_at(fd)
    PROVE  /\ handlers' \in [Fds -> Handler]
           /\ segment' \in [MapNames -> {"none", "made"}]
           /\ MapsOK' /\ ContainersOwned'
<1>1. \A f \in Fds : handlers'[f] = unused \/ (f # fd /\ handlers'[f] = handlers[f])
  BY DEF clear_id_at
<1>2. handlers' \in [Fds -> Handler]
  BY HandlerTypes DEF clear_id_at, TypeOK
<1>3. segment' \in [MapNames -> {"none", "made"}]
  BY DEF clear_id_at, map_free, TypeOK, MapsOK
<1>4. \A f \in Fds : /\ Is("map", f)' <=> Is("map", f) /\ f # fd
                     /\ Is("map", f)' => handlers'[f] = handlers[f]
  BY HandlerFields DEF clear_id_at, Is, Refers, TypeOK
<1>5. MapsOK'
  BY <1>4 DEF MapsOK
<1>6. \A f \in Fds, n \in MapNames : Owns(f, n)' <=> Owns(f, n) /\ f # fd
  BY <1>4 DEF Owns
<1>7. ContainersOwned'
  <2>1. CASE ~Is("map", fd)
    <3>1. \A n \in MapNames : ~Owns(fd, n)
      BY <2>1 DEF Owns
    <3>2. segment' = segment
      BY <2>1 DEF clear_id_at, map_free
    <3>3. QED
      BY <1>6, <3>1, <3>2 DEF ContainersOwned
  <2>2. CASE Is("map", fd)
    <3> DEFINE name == handlers[fd].name
    <3>1. /\ name \in MapNames /\ \A n \in MapNames : Owns(fd, n) => n = name
          /\ Owns(fd, name) \/ MayFail(name)
      BY <2>2 DEF MapsOK, Owns
    <3>2. segment' = IF IsKept(name) THEN segment
                                     ELSE [segment EXCEPT ![name] = "none"]
      BY <2>2 DEF clear_id_at, map_free
    <3>3. MayFail(name) /\ ~IsKept(name) => IsA(RingNames, name)
      BY DEF MayFail, IsKept, IsA
    <3> HIDE DEF name
    <3>4. QED
      BY <1>6, <3>1, <3>2, <3>3 DEF ContainersOwned, TypeOK
  <2>3. QED
    BY <2>1, <2>2
<1>8. QED
  BY <1>2, <1>3, <1>5, <1>7
----------------------------------------------------------------------------
(* One lemma for what a step does to the caller's record and to the         *)
(* ownership of descriptors.                                                *)

\* A thread gets ahead with its call.
LEMMA CallStep ==
    ASSUME TypeOK, Calls, NEW t \in Threads, NEW c \in Call, CallOK(c),
           call' = [call EXCEPT ![t] = c]
    PROVE  call' \in [Threads -> Call] /\ Calls'
BY DEF TypeOK, Calls

\* It goes on to another place of the same call.
LEMMA GotoStep ==
    ASSUME TypeOK, Calls, NEW t \in Threads,
           NEW pc \in {"body", "cookie", "attach", "orig_close"}, Goto(t, pc),
           CallOK([call[t] EXCEPT !.pc = pc])
    PROVE  /\ call' \in [Threads -> Call] /\ Calls'
           /\ call' = [call EXCEPT ![t] = [call[t] EXCEPT !.pc = pc]]
<1>1. call' = [call EXCEPT ![t] = [call[t] EXCEPT !.pc = pc]]
  BY DEF Goto, TypeOK
<1>2. [call[t] EXCEPT !.pc = pc] \in Call
  BY DEF TypeOK, Call
<1>3. QED
  BY Zenon, <1>1, <1>2, CallStep

\* It returns, and has no descriptor of its own any more.
LEMMA ReturnStep ==
    ASSUME TypeOK, Calls, NEW t \in Threads, Return(t)
    PROVE  /\ call' \in [Threads -> Call] /\ Calls'
           /\ \A fd \in Fds : ~Private(t, fd)'
           /\ call' = [call EXCEPT ![t] = NoCall]
<1>1. call' \in [Threads -> Call] /\ Calls'
  BY Zenon, NoCallOK, CallStep DEF Return
<1>2. call'[t] = NoCall
  BY DEF Return, TypeOK
<1>3. QED
  BY <1>1, <1>2, NoneAssumption DEF Private, Closing, NoCall, Return

\* Every open descriptor keeps one owner when a thread gives up its own, or
\* takes one that was free or held by the application.
LEMMA OwnershipStep ==
    ASSUME TypeOK, Ownership, NEW t \in Threads, NEW c,
           call' = [call EXCEPT ![t] = c],
           held' \subseteq kernel_fds',
           \A fd \in Fds : Private(t, fd)' =>
               /\ fd \in kernel_fds' \ held'
               /\ Private(t, fd) \/ fd \notin kernel_fds \/ fd \in held,
           \A fd \in kernel_fds \ held :
               Private(t, fd) \/ fd \in kernel_fds' \ held'
    PROVE  Ownership'
<1>1. \A u \in Threads : u # t => \A fd \in Fds : Private(u, fd)' <=> Private(u, fd)
  BY DEF TypeOK, Private, Closing
<1>2. QED
  BY <1>1 DEF Ownership

\* A step that leaves the table and the segment alone.
LEMMA TableSame ==
    ASSUME MapsOK, ContainersOwned, ~stopped, UNCHANGED <<handlers, segment>>
    PROVE  MapsOK' /\ ContainersOwned'
<1>1. MapsOK'
  BY DEF MapsOK, Is
<1>2. ContainersOwned'
  BY DEF ContainersOwned, Owns, Is
<1>3. QED
  BY <1>1, <1>2
----------------------------------------------------------------------------
\* The table starts empty.
LEMMA InitInv == Init => Inv
<1> SUFFICES ASSUME Init PROVE Inv
  OBVIOUS
<1>1. \A fd \in Fds : handlers[fd] = unused /\ unused.kind = "unused"
  BY HandlerFields DEF Init
<1>2. TypeOK
  BY Zenon, HandlerTypes, NoCallOK DEF Init, TypeOK
<1>3. MapsOK /\ ContainersOwned
  BY <1>1 DEF MapsOK, ContainersOwned, Owns, Is, Init
<1>4. \A t \in Threads : \A fd \in Fds : ~Private(t, fd)
  BY NoneAssumption DEF Init, Private, Closing, NoCall
<1>5. Calls /\ Ownership
  BY <1>4, NoCallOK DEF Init, Calls, Ownership
<1>6. QED
  BY <1>2, <1>3, <1>5 DEF Inv

\* The application makes a call.
LEMMA EnterInv == ASSUME Inv, NEW t \in Threads, Enter(t) PROVE Inv'
<1> USE DEF Inv
<1>1. PICK op \in Ops : \E c \in Arguments(op) :
          /\ call' = [call EXCEPT ![t] = c]
          /\ held' = IF op = "close" THEN held \ {c.fd} ELSE held
  BY Zenon DEF Enter
<1>2. PICK c \in Arguments(op) :
          /\ call' = [call EXCEPT ![t] = c]
          /\ held' = IF op = "close" THEN held \ {c.fd} ELSE held
  BY Zenon, <1>1
<1>3. op \in AllOps
  BY OpsAssumption
<1>4. /\ c.pc = "startup" /\ c.op = op /\ c.id = None
      /\ op = "map" => c.name \in MapNames
      /\ op \in {"ioctl", "link", "close", "dup3"} => c.fd \in held
      /\ op \in {"ioctl", "link", "dup3"} => c.arg \in held
  BY DEF Arguments, MapNames
<1>5. c \in Call
  BY <1>3 DEF Arguments, Call, MapNames, TypeOK
<1>6. CallOK(c)
  BY <1>4 DEF CallOK, TypeOK
<1>7. call' \in [Threads -> Call] /\ Calls'
  BY Zenon, <1>2, <1>5, <1>6, CallStep
<1>8. TypeOK'
  BY Zenon, <1>2, <1>7 DEF Enter, TypeOK
<1>9. MapsOK' /\ ContainersOwned'
  BY TableSame DEF Enter
<1>10. call'[t] = c
  BY <1>2 DEF TypeOK
<1>11. \A fd \in Fds : Private(t, fd)' <=> op = "close" /\ fd = c.fd
  BY <1>4, <1>10, NoneAssumption DEF Private, Closing
<1>12. kernel_fds' = kernel_fds /\ held \subseteq kernel_fds /\ kernel_fds \subseteq Fds
  BY DEF Enter, Ownership, TypeOK
<1>13. Ownership'
  BY Zenon, <1>2, <1>4, <1>11, <1>12, OwnershipStep
<1>14. QED
  BY <1>7, <1>8, <1>9, <1>13

\* The call finds the syscall server started.
LEMMA StartedInv == ASSUME Inv, NEW t \in Threads, Started(t) PROVE Inv'
<1> USE DEF Inv
<1>1. CallOK([call[t] EXCEPT !.pc = "body"])
  BY DEF Started, Calls, CallOK, TypeOK, Call
<1>2. /\ call' \in [Threads -> Call] /\ Calls'
      /\ call' = [call EXCEPT ![t] = [call[t] EXCEPT !.pc = "body"]]
  BY Zenon, <1>1, GotoStep DEF Started
<1>3. TypeOK'
  BY <1>2 DEF Started, TypeOK
<1>4. MapsOK' /\ ContainersOwned'
  BY TableSame DEF Started
<1>5. \A fd \in Fds : Private(t, fd)' <=> Private(t, fd)
  BY <1>2 DEF Started, Private, Closing, TypeOK, Call
<1>6. held' = held /\ kernel_fds' = kernel_fds
  BY DEF Started
<1>7. Ownership'
  BY Zenon, <1>2, <1>5, <1>6, OwnershipStep DEF Ownership
<1>8. QED
  BY <1>2, <1>3, <1>4, <1>7

\* A call that is not intercepted goes to the kernel.
LEMMA PassThroughInv == ASSUME Inv, NEW t \in Threads, PassThrough(t) PROVE Inv'
<1> USE DEF Inv
<1>1. TypeOK'
  BY DEF PassThrough, TypeOK, LowestFree, FreeFds
<1>2. MapsOK' /\ ContainersOwned'
  BY TableSame DEF PassThrough
<1>3. call' = call /\ call' = [call EXCEPT ![t] = call[t]]
  BY DEF PassThrough, TypeOK
<1>4. Calls'
  BY <1>3 DEF Calls
<1>5. \A fd \in Fds : Private(t, fd)' <=> Private(t, fd)
  BY <1>3 DEF Private, Closing
<1>6. \/ \E fd \in held : kernel_fds' = kernel_fds \ {fd} /\ held' = held \ {fd}
      \/ \E fd \in Fds \ kernel_fds : /\ kernel_fds' = kernel_fds \cup {fd}
                                      /\ held' = held \cup {fd}
  BY DEF PassThrough, LowestFree, FreeFds
<1>7. Ownership'
  <2>1. \A fd \in Fds : Private(t, fd) => fd \in kernel_fds \ held
    BY DEF Ownership
  <2>2. held \subseteq kernel_fds /\ kernel_fds \subseteq Fds
    BY DEF Ownership, TypeOK
  <2>3. /\ held' \subseteq kernel_fds'
        /\ \A fd \in kernel_fds \ held : fd \in kernel_fds' \ held'
    BY <1>6, <2>2
  <2>4. QED
    BY Zenon, <1>3, <1>5, <2>1, <2>3, OwnershipStep
<1>8. QED
  BY <1>1, <1>2, <1>4, <1>7

\* The calls that open a number for the application and return.
LEMMA OpenedOwnership ==
    ASSUME Inv, NEW t \in Threads, Return(t), NEW fd \in Fds \ kernel_fds,
           kernel_fds' = kernel_fds \cup {fd}, held' \in {held, held \cup {fd}},
           \A f \in Fds : ~Private(t, f)
    PROVE  Ownership'
BY ReturnStep, OwnershipStep DEF Inv, Ownership, TypeOK

\* BPF_MAP_CREATE, BPF_PROG_LOAD and perf_event_open.
LEMMA CreateInv == ASSUME Inv, NEW t \in Threads, Create(t) PROVE Inv'
<1> USE DEF Inv
<1> DEFINE c == call[t]
<1>1. /\ c.pc = "body" /\ c.op \in {"map", "prog", "perf"} /\ ~stopped
      /\ Return(t) /\ CallOK(c)
  BY DEF Create, Calls
<1>2. PICK fd \in Fds :
         /\ open_fake_fd(fd)
         /\ kernel_fds' = kernel_fds \cup {fd}
         /\ held' = IF is_allocated(fd) THEN held ELSE held \cup {fd}
         /\ \/ c.op = "map" /\ \E ok \in Sizings(c.name) :
                                 StoreMap(fd, c.name, ok)
            \/ c.op = "prog" /\ Store(fd, ProgHandler)
                             /\ UNCHANGED <<segment, stopped>>
            \/ c.op = "perf" /\ Store(fd, PerfHandler)
                             /\ UNCHANGED <<segment, stopped>>
  BY Zenon DEF Create
<1>3. \A f \in Fds : ~Private(t, f)
  BY <1>1, NoneAssumption DEF Private, Closing, CallOK
<1>4. fd \notin kernel_fds
  BY <1>2 DEF open_fake_fd, LowestFree, FreeFds
<1>5. Ownership'
  BY <1>1, <1>2, <1>3, <1>4, OpenedOwnership
<1>6. c.op = "map" => c.name \in MapNames
  BY SMTT(30), <1>1 DEF CallOK
<1>7. /\ handlers' \in [Fds -> Handler]
      /\ segment' \in [MapNames -> {"none", "made"}]
      /\ stopped' \in BOOLEAN /\ MapsOK' /\ ContainersOwned'
  <2>1. CASE c.op = "map" /\ \E ok \in Sizings(c.name) :
                                StoreMap(fd, c.name, ok)
    <3>1. PICK ok \in Sizings(c.name) : StoreMap(fd, c.name, ok)
      BY <2>1
    <3>2. ok \in BOOLEAN /\ (ok \/ MayFail(c.name))
      BY Zenon DEF Sizings, MayFail
    <3>3. QED
      BY Zenon, <1>1, <1>6, <2>1, <3>1, <3>2, StoreMapOK
  <2>2. CASE c.op = "prog" /\ Store(fd, ProgHandler) /\ UNCHANGED <<segment, stopped>>
    BY <2>2, StoreOK, HandlerTypes, HandlerFields DEF TypeOK
  <2>3. CASE c.op = "perf" /\ Store(fd, PerfHandler) /\ UNCHANGED <<segment, stopped>>
    BY <2>3, StoreOK, HandlerTypes, HandlerFields DEF TypeOK
  <2>4. QED
    BY SMTT(30), <1>2, <2>1, <2>2, <2>3
<1>8. call' \in [Threads -> Call] /\ Calls'
  BY <1>1, ReturnStep
<1>9. TypeOK'
  BY <1>2, <1>7, <1>8 DEF TypeOK, Create
<1>10. QED
  BY SMTT(30), <1>5, <1>7, <1>8, <1>9

\* A file that is none of bpftime's is opened.
LEMMA OpenFileInv == ASSUME Inv, NEW t \in Threads, OpenFile(t) PROVE Inv'
<1> USE DEF Inv
<1>1. PICK fd \in Fds : /\ LowestFree(fd)
                       /\ kernel_fds' = kernel_fds \cup {fd}
                       /\ held' = held \cup {fd}
  BY DEF OpenFile
<1>2. \A f \in Fds : ~Private(t, f)
  BY NoneAssumption DEF OpenFile, Private, Closing, CallOK, Calls
<1>3. Ownership'
  BY <1>1, <1>2, OpenedOwnership DEF OpenFile, LowestFree, FreeFds
<1>4. call' \in [Threads -> Call] /\ Calls'
  BY ReturnStep DEF OpenFile
<1>5. TypeOK'
  BY <1>1, <1>4 DEF OpenFile, TypeOK
<1>6. MapsOK' /\ ContainersOwned'
  BY TableSame DEF OpenFile
<1>7. QED
  BY <1>3, <1>4, <1>5, <1>6

\* The kernel has no descriptor left.
LEMMA NoFdLeftInv == ASSUME Inv, NEW t \in Threads, NoFdLeft(t) PROVE Inv'
<1> USE DEF Inv
<1> DEFINE c == call[t]
<1>1. /\ CallOK(c) /\ c \in Call /\ ~stopped
      /\ \/ c.pc = "body" /\ c.op \in {"open", "map", "prog", "perf", "link"}
         \/ c.pc = "attach"
      /\ held' = Learned(t)
      /\ UNCHANGED <<handlers, segment, kernel_fds, enable_mock>>
  BY DEF NoFdLeft, Calls, TypeOK
<1>2. \A fd \in Fds : Private(t, fd) <=> fd = c.id
  BY <1>1 DEF Private, Closing
<1>3. held' = held \cup ({c.id} \ {None}) /\ c.id \in Fds \cup {None}
  BY <1>1, CallFields DEF Learned
<1>4. \A fd \in held' \ held : Private(t, fd) /\ fd \in kernel_fds
  BY <1>2, <1>3 DEF Ownership
<1>5. held' \subseteq kernel_fds /\ held' \subseteq Fds
  BY <1>4 DEF Ownership, TypeOK
<1>6. call' \in [Threads -> Call] /\ Calls' /\ Ownership'
  <2>1. CASE c.pc = "body" /\ c.op = "link"
    <3>1. Goto(t, "cookie") /\ c.id = None
      BY <1>1, <2>1 DEF NoFdLeft, CallOK
    <3>2. CallOK([c EXCEPT !.pc = "cookie"])
      BY <1>1, <2>1 DEF CallOK, Call
    <3>3. /\ call' \in [Threads -> Call] /\ Calls'
          /\ call' = [call EXCEPT ![t] = [c EXCEPT !.pc = "cookie"]]
      BY Zenon, <3>1, <3>2, GotoStep
    <3>4. call'[t].id = None /\ call'[t].pc = "cookie" /\ held' = held
      BY <1>1, <1>3, <3>1, <3>3 DEF TypeOK, Call
    <3>5. \A fd \in Fds : ~Private(t, fd)'
      BY <3>4, NoneAssumption DEF Private, Closing
    <3>6. QED
      BY Zenon, <1>1, <3>3, <3>4, <3>5, OwnershipStep DEF Ownership
  <2>2. CASE ~(c.pc = "body" /\ c.op = "link")
    <3>1. Return(t)
      BY <2>2 DEF NoFdLeft
    <3>2. /\ call' \in [Threads -> Call] /\ Calls'
          /\ \A fd \in Fds : ~Private(t, fd)'
          /\ call' = [call EXCEPT ![t] = NoCall]
      BY <3>1, ReturnStep
    <3>3. QED
      BY Zenon, <1>1, <1>4, <1>5, <3>2, OwnershipStep
  <2>3. QED
    BY <2>1, <2>2
<1>7. stopped' \in BOOLEAN
  BY DEF NoFdLeft
<1>8. TypeOK'
  BY <1>1, <1>5, <1>6, <1>7 DEF TypeOK
<1>9. MapsOK' /\ ContainersOwned'
  BY <1>1, TableSame
<1>10. QED
  BY <1>6, <1>8, <1>9

\* A call that returns a number it alone knew gives it to the application.
LEMMA LearnedOwnership ==
    ASSUME Inv, NEW t \in Threads, Return(t), ~Closing(t),
           kernel_fds \subseteq kernel_fds', held' = Learned(t)
    PROVE  Ownership' /\ held' \subseteq Fds
<1> USE DEF Inv
<1>1. call[t] \in Call
  BY DEF TypeOK
<1>2. call[t].id \in Fds \cup {None}
  BY <1>1, CallFields
<1>3. \A fd \in held' \ held : Private(t, fd) /\ fd \in kernel_fds
  BY <1>2 DEF Learned, Private, Ownership
<1>4. held' \subseteq kernel_fds /\ held' \subseteq Fds
  BY <1>3 DEF Ownership, TypeOK
<1>5. QED
  BY <1>3, <1>4, ReturnStep, OwnershipStep

\* An attach checks the perf event and the program.
LEMMA CheckAttachInv == ASSUME Inv, NEW t \in Threads, CheckAttach(t) PROVE Inv'
<1> USE DEF Inv
<1> DEFINE c == call[t]
<1>1. /\ CallOK(c) /\ c \in Call /\ ~stopped /\ ~Closing(t)
      /\ (c.pc = "body" /\ c.op = "ioctl") \/ c.pc = "cookie"
      /\ UNCHANGED <<handlers, segment, kernel_fds, enable_mock, stopped>>
  BY DEF CheckAttach, Calls, TypeOK, Closing
<1>2. call' \in [Threads -> Call] /\ Calls' /\ Ownership' /\ held' \subseteq Fds
  <2>1. CASE IsAttachable(c.fd, c.arg)
    <3>1. Goto(t, "attach") /\ held' = held
      BY <2>1 DEF CheckAttach
    <3>2. CallOK([c EXCEPT !.pc = "attach"])
      BY <1>1 DEF CallOK, Call
    <3>3. /\ call' \in [Threads -> Call] /\ Calls'
          /\ call' = [call EXCEPT ![t] = [c EXCEPT !.pc = "attach"]]
      BY Zenon, <3>1, <3>2, GotoStep
    <3>4. \A fd \in Fds : Private(t, fd)' <=> Private(t, fd)
      BY <1>1, <3>3 DEF Private, Closing, TypeOK, Call
    <3>5. QED
      BY Zenon, <1>1, <3>1, <3>3, <3>4, OwnershipStep DEF Ownership, TypeOK
  <2>2. CASE ~IsAttachable(c.fd, c.arg)
    <3>1. Return(t) /\ held' = Learned(t)
      BY <2>2 DEF CheckAttach
    <3>2. QED
      BY Zenon, <1>1, <3>1, ReturnStep, LearnedOwnership
  <2>3. QED
    BY <2>1, <2>2
<1>3. TypeOK'
  BY <1>1, <1>2 DEF TypeOK
<1>4. MapsOK' /\ ContainersOwned'
  BY <1>1, TableSame
<1>5. QED
  BY <1>2, <1>3, <1>4

\* It stores a link under a new number.
LEMMA StoreAttachInv == ASSUME Inv, NEW t \in Threads, StoreAttach(t) PROVE Inv'
<1> USE DEF Inv
<1> DEFINE c == call[t]
           h == LinkHandler(c.arg, c.fd, IF c.op = "ioctl" THEN "ioctl" ELSE "cookie")
<1>1. /\ c \in Call /\ ~Closing(t) /\ Return(t) /\ held' = Learned(t)
      /\ UNCHANGED <<segment, enable_mock, stopped>>
  BY DEF StoreAttach, TypeOK, Closing
<1>2. PICK fd \in Fds : /\ kernel_fds' = kernel_fds \cup {fd}
                       /\ Store(fd, h)
  BY DEF StoreAttach
<1>3. h \in Handler /\ h.kind # "map"
  BY Zenon, <1>1, CallFields, HandlerTypes, HandlerFields
<1> HIDE DEF h
<1>4. handlers' \in [Fds -> Handler] /\ MapsOK' /\ ContainersOwned'
  BY <1>1, <1>2, <1>3, StoreOK
<1>5. Ownership' /\ held' \subseteq Fds
  BY <1>1, <1>2, LearnedOwnership
<1>6. call' \in [Threads -> Call] /\ Calls'
  BY <1>1, ReturnStep
<1>7. TypeOK'
  BY <1>1, <1>2, <1>4, <1>5, <1>6 DEF TypeOK
<1>8. QED
  BY <1>4, <1>5, <1>6, <1>7

\* BPF_LINK_CREATE opens a number and checks the program.
LEMMA LinkCreateInv == ASSUME Inv, NEW t \in Threads, LinkCreate(t) PROVE Inv'
<1> USE DEF Inv
<1> DEFINE c == call[t]
<1>1. /\ CallOK(c) /\ c \in Call /\ ~stopped /\ c.pc = "body" /\ c.op = "link"
      /\ UNCHANGED <<handlers, segment, held, enable_mock, stopped>>
  BY DEF LinkCreate, Calls, TypeOK
<1>2. PICK fd \in Fds :
         /\ open_fake_fd(fd)
         /\ kernel_fds' = kernel_fds \cup {fd}
         /\ call' = [call EXCEPT
               ![t] = IF Is("prog", c.arg)
                        THEN [c EXCEPT !.pc = "store", !.id = fd]
                        ELSE [c EXCEPT !.pc = "cookie"]]
  BY Zenon DEF LinkCreate
<1> DEFINE d == IF Is("prog", c.arg) THEN [c EXCEPT !.pc = "store", !.id = fd]
                                     ELSE [c EXCEPT !.pc = "cookie"]
<1>3. fd \notin kernel_fds
  BY <1>2 DEF open_fake_fd, LowestFree, FreeFds
<1>4. d \in Call /\ CallOK(d) /\ ~(d.pc \in {"startup", "body", "orig_close"})
      /\ d.id \in {fd, None}
  BY Zenon, <1>1 DEF CallOK, Call
<1>5. call' = [call EXCEPT ![t] = d]
  BY <1>2
<1> HIDE DEF d
<1>6. call' \in [Threads -> Call] /\ Calls'
  BY Zenon, <1>4, <1>5, CallStep
<1>7. call'[t] = d
  BY <1>5 DEF TypeOK
<1>8. \A f \in Fds : Private(t, f)' => f = fd
  BY <1>4, <1>7, NoneAssumption DEF Private, Closing
<1>9. Ownership'
  BY ZenonT(30), <1>1, <1>2, <1>3, <1>5, <1>8, OwnershipStep DEF Ownership
<1>10. TypeOK'
  BY <1>1, <1>2, <1>6 DEF TypeOK
<1>11. MapsOK' /\ ContainersOwned'
  BY <1>1, TableSame
<1>12. QED
  BY <1>6, <1>9, <1>10, <1>11

\* It stores the link there.
LEMMA LinkStoreInv == ASSUME Inv, NEW t \in Threads, LinkStore(t) PROVE Inv'
<1> USE DEF Inv
<1> DEFINE c == call[t]
           h == LinkHandler(c.arg, c.fd, "link")
           d == [c EXCEPT !.pc = "cookie",
                          !.id = IF is_allocated(c.id) THEN None ELSE c.id]
<1>1. /\ CallOK(c) /\ c \in Call /\ ~stopped /\ c.pc = "store"
      /\ Store(c.id, h) /\ call' = [call EXCEPT ![t] = d]
      /\ UNCHANGED <<segment, kernel_fds, held, enable_mock, stopped>>
  BY DEF LinkStore, Calls, TypeOK
<1>2. h \in Handler /\ h.kind # "map" /\ c.id \in Fds
  BY <1>1, CallFields, HandlerTypes, HandlerFields DEF CallOK
<1>3. d \in Call /\ CallOK(d) /\ d.pc = "cookie" /\ d.id \in {c.id, None}
  BY Zenon, <1>1, <1>2 DEF CallOK, Call
<1> HIDE DEF h, d
<1>4. handlers' \in [Fds -> Handler] /\ MapsOK' /\ ContainersOwned'
  BY <1>1, <1>2, StoreOK
<1>5. call' \in [Threads -> Call] /\ Calls'
  BY Zenon, <1>1, <1>3, CallStep
<1>6. call'[t] = d
  BY <1>1 DEF TypeOK
<1>7. \A f \in Fds : Private(t, f)' => Private(t, f)
  BY <1>3, <1>6, NoneAssumption DEF Private, Closing
<1>8. Ownership'
  BY Zenon, <1>1, <1>7, OwnershipStep DEF Ownership
<1>9. TypeOK'
  BY <1>1, <1>4, <1>5 DEF TypeOK
<1>10. QED
  BY <1>4, <1>5, <1>8, <1>9

\* close clears the handler and the links that refer to it.
LEMMA CloseInv == ASSUME Inv, NEW t \in Threads, Close(t) PROVE Inv'
<1> USE DEF Inv
<1> DEFINE c == call[t]
<1>1. /\ CallOK(c) /\ c \in Call /\ ~stopped /\ c.pc = "body" /\ c.op = "close"
      /\ clear_id_at(c.fd) /\ Goto(t, "orig_close")
      /\ UNCHANGED <<kernel_fds, held, enable_mock, stopped>>
  BY DEF Close, Calls, TypeOK
<1>2. c.fd \in Fds
  BY SMTT(30), <1>1 DEF CallOK
<1>3. /\ handlers' \in [Fds -> Handler]
      /\ segment' \in [MapNames -> {"none", "made"}]
      /\ MapsOK' /\ ContainersOwned'
  BY <1>1, <1>2, ClearOK
<1>4. CallOK([c EXCEPT !.pc = "orig_close"])
  BY <1>1 DEF CallOK, Call
<1>5. /\ call' \in [Threads -> Call] /\ Calls'
      /\ call' = [call EXCEPT ![t] = [c EXCEPT !.pc = "orig_close"]]
  BY Zenon, <1>1, <1>4, GotoStep
<1>6. \A f \in Fds : Private(t, f)' <=> Private(t, f)
  BY <1>1, <1>5 DEF Private, Closing, TypeOK, Call
<1>7. Ownership'
  BY Zenon, <1>1, <1>5, <1>6, OwnershipStep DEF Ownership
<1>8. TypeOK'
  BY <1>1, <1>3, <1>5 DEF TypeOK
<1>9. QED
  BY <1>3, <1>5, <1>7, <1>8

\* Then the kernel closes the descriptor.
LEMMA OrigCloseInv == ASSUME Inv, NEW t \in Threads, OrigClose(t) PROVE Inv'
<1> USE DEF Inv
<1> DEFINE c == call[t]
<1>1. /\ CallOK(c) /\ ~stopped /\ c.pc = "orig_close" /\ Return(t)
      /\ kernel_fds' = kernel_fds \ {c.fd}
      /\ UNCHANGED <<handlers, segment, held, enable_mock, stopped>>
  BY DEF OrigClose, Calls
<1>2. c.fd \in Fds /\ Private(t, c.fd)
  BY SMTT(30), <1>1 DEF CallOK, Private, Closing
<1>3. Ownership'
  BY <1>1, <1>2, ReturnStep, OwnershipStep DEF Ownership
<1>4. call' \in [Threads -> Call] /\ Calls'
  BY <1>1, ReturnStep
<1>5. TypeOK'
  BY <1>1, <1>4 DEF TypeOK
<1>6. MapsOK' /\ ContainersOwned'
  BY <1>1, TableSame
<1>7. QED
  BY <1>3, <1>4, <1>5, <1>6

\* The calls that leave descriptors alone.
LEMMA SameOwnership ==
    ASSUME Inv, NEW t \in Threads, Return(t), UNCHANGED <<kernel_fds, held>>
    PROVE  Ownership'
BY Zenon, ReturnStep, OwnershipStep DEF Inv, Ownership

\* dup3 duplicates a map under a new number.
LEMMA Dup3Inv == ASSUME Inv, NEW t \in Threads, Dup3(t) PROVE Inv'
<1> USE DEF Inv
<1> DEFINE c == call[t]
<1>1. /\ CallOK(c) /\ ~stopped /\ c.pc = "body" /\ c.op = "dup3" /\ Return(t)
      /\ Len(handlers[c.fd].name) # 2
      /\ UNCHANGED <<kernel_fds, held, enable_mock>>
  BY DEF Dup3, Calls
<1>2. c.fd \in Fds /\ c.arg \in Fds
  BY <1>1 DEF CallOK
<1>3. /\ handlers' \in [Fds -> Handler]
      /\ segment' \in [MapNames -> {"none", "made"}]
      /\ stopped' \in BOOLEAN /\ MapsOK' /\ ContainersOwned'
  <2>1. CASE Is("map", c.fd)
    <3> DEFINE h == handlers[c.fd]
    <3>1. StoreMap(c.arg, dup_(h.name), h.impl)
      BY Zenon, <2>1 DEF Dup3
    <3>2. h.name \in MapNames /\ (h.impl \/ MayFail(h.name))
      BY Zenon, <1>1, <1>2, <2>1 DEF MapsOK
    <3>3. h.impl \in BOOLEAN
      BY <1>2 DEF TypeOK, Handler
    <3>4. dup_(h.name) \in MapNames /\ (MayFail(h.name) => MayFail(dup_(h.name)))
      BY Zenon, <1>1, <3>2, DupName
    <3>5. QED
      BY Zenon, <1>1, <1>2, <3>1, <3>2, <3>3, <3>4, StoreMapOK
  <2>2. CASE ~Is("map", c.fd)
    BY <1>1, <2>2, TableSame DEF Dup3, TypeOK
  <2>3. QED
    BY <2>1, <2>2
<1>4. call' \in [Threads -> Call] /\ Calls' /\ Ownership'
  BY <1>1, ReturnStep, SameOwnership
<1>5. TypeOK'
  BY <1>1, <1>3, <1>4 DEF TypeOK
<1>6. QED
  BY <1>3, <1>4, <1>5

\* A step that changes nothing.
LEMMA StutterInv == Inv /\ UNCHANGED vars => Inv'
<1> SUFFICES ASSUME Inv, UNCHANGED vars PROVE Inv'
  OBVIOUS
<1> USE DEF Inv, vars
<1>1. TypeOK' /\ Calls' /\ MapsOK'
  BY SMTT(30) DEF TypeOK, Calls, MapsOK, Is
<1>2. ContainersOwned'
  BY DEF ContainersOwned, Owns, Is
<1>3. Ownership'
  BY DEF Ownership, Private, Closing
<1>4. QED
  BY <1>1, <1>2, <1>3

\* Every step of a thread keeps the invariant.
LEMMA StepInv == ASSUME Inv, NEW t \in Threads, Step(t) PROVE Inv'
BY EnterInv, StartedInv, PassThroughInv, CreateInv, OpenFileInv, NoFdLeftInv,
   CheckAttachInv, StoreAttachInv, LinkCreateInv, LinkStoreInv, CloseInv,
   OrigCloseInv, Dup3Inv DEF Step

\* So does every step.
LEMMA NextInv == Inv /\ [Next]_vars => Inv'
BY StepInv, StutterInv DEF Next, Dead

\* The inductive invariant of the table, with any number of threads: the types
\* of its variables, the one-to-one relation of maps and containers, and that
\* each open number has one owner.
THEOREM Invariance == Spec => []Inv
BY InitInv, NextInv, PTL DEF Spec

\* For any number of threads: each slot of the table is free or holds a
\* map, a program, a perf event or a link, and each thread's call its locals.
THEOREM TableTypes == Spec => []TypeOK
<1>1. Inv => TypeOK
  BY Zenon DEF Inv
<1>2. QED
  BY <1>1, Invariance, PTL

\* Whatever the threads of the application do, a container in shared memory has
\* one map handler and an initialised map handler has its container.
THEOREM ContainersAlwaysOwned == Spec => []ContainersOwned
<1>1. Inv => ContainersOwned
  BY DEF Inv
<1>2. QED
  BY <1>1, Invariance, PTL

----------------------------------------------------------------------------
(* Descriptors in the application's hands *)

\* set_handler fills empty slots only.
LEMMA StoreTouches ==
    ASSUME TypeOK, NEW fd \in Fds, NEW h, Store(fd, h)
    PROVE  \A f \in Fds : handlers[f] # handlers'[f] => handlers[f].kind = "unused"
BY DEF Store, TypeOK, is_allocated

\* One step of any thread leaves maps, programs and perf events at held
\* descriptors alone.
LEMMA StepTouches ==
    ASSUME Inv, NEW t \in Threads, Step(t), NEW fd \in held \cap held',
           handlers[fd] # handlers'[fd]
    PROVE  handlers[fd].kind \in {"unused", "link"}
<1> USE DEF Inv
<1> DEFINE c == call[t]
<1>1. fd \in Fds /\ CallOK(c)
  BY DEF TypeOK, Calls
<1>2. CASE Create(t)
  <2>1. \E f \in Fds : \E h : Store(f, h)
    BY <1>2 DEF Create, StoreMap
  <2>2. QED
    BY SMTT(30), <1>1, <2>1, StoreTouches
<1>3. CASE StoreAttach(t)
  <2>1. \E f \in Fds : \E h : Store(f, h)
    BY Zenon, <1>3 DEF StoreAttach
  <2>2. QED
    BY <1>1, <2>1, StoreTouches
<1>4. CASE LinkStore(t)
  <2>1. c.id \in Fds /\ \E h : Store(c.id, h)
    BY <1>1, <1>4 DEF LinkStore, CallOK
  <2>2. QED
    BY <1>1, <2>1, StoreTouches
<1>5. CASE Dup3(t)
  <2>1. c.arg \in Fds /\ \E h : Store(c.arg, h)
    BY Zenon, <1>1, <1>5 DEF Dup3, StoreMap, CallOK
  <2>2. QED
    BY <1>1, <2>1, StoreTouches
<1>6. CASE Close(t)
  <2>1. c.fd \in Fds /\ Private(t, c.fd)
    BY Zenon, <1>1, <1>6 DEF Close, CallOK, Private, Closing
  <2>2. fd # c.fd
    BY <2>1 DEF Ownership
  <2>3. Refers(handlers[fd], c.fd)
    BY <1>1, <1>6, <2>2 DEF Close, clear_id_at
  <2>4. QED
    BY <2>3 DEF Refers
<1>7. CASE handlers' = handlers
  BY <1>7
<1>8. QED
  BY Zenon, <1>2, <1>3, <1>4, <1>5, <1>6, <1>7
     DEF Step, Enter, Started, PassThrough, OpenFile, NoFdLeft, CheckAttach,
         LinkCreate, OrigClose

\* For any number of threads: while the application holds a descriptor, no
\* call of any thread removes or replaces the map, program or perf event there.
THEOREM HeldAlwaysUntouched == Spec => HeldUntouched
<1> DEFINE Untouched == \A fd \in held \cap held' :
              handlers[fd] # handlers'[fd] => handlers[fd].kind \in {"unused", "link"}
<1>1. Inv /\ [Next]_vars => [Untouched]_vars
  BY StepTouches DEF Next, Dead, vars
<1>2. QED
  BY <1>1, Invariance, PTL DEF Spec, HeldUntouched

----------------------------------------------------------------------------
(* Numbers that are closed under a handler *)

\* Between the two halves of a close nothing but a duplicate can come to sit
\* at the number.
Emptied ==
    \A t \in Threads : call[t].pc = "orig_close" =>
       LET h == handlers[call[t].fd]
       IN  h.kind = "unused" \/ Len(h.name) = 2

\* What thread t may have made of the slot fd: it is as it was or empty, holds
\* a duplicate, or belongs to a number that t has just opened.
SlotAfter(t, fd) ==
    \/ handlers'[fd] = handlers[fd] \/ handlers'[fd].kind = "unused"
    \/ Len(handlers'[fd].name) = 2
    \/ fd \in kernel_fds' /\ (fd \notin kernel_fds \/ call[t].id = fd)

\* set_handler changes one slot.
LEMMA StoreOne ==
    ASSUME TypeOK, NEW fd \in Fds, NEW h, Store(fd, h)
    PROVE  \A f \in Fds : handlers'[f] = handlers[f] \/ (f = fd /\ handlers'[f] = h)
BY DEF Store, TypeOK

\* What one step of a thread makes of the table.
LEMMA StepSlots ==
    ASSUME Inv, NEW t \in Threads, Step(t), NEW fd \in Fds
    PROVE  SlotAfter(t, fd)
<1> USE DEF Inv
<1> DEFINE c == call[t]
<1>1. CallOK(c)
  BY DEF Calls
<1>2. CASE Create(t)
  <2>1. PICK f \in Fds : /\ open_fake_fd(f) /\ kernel_fds' = kernel_fds \cup {f}
                         /\ \E h : Store(f, h)
    <3>1. PICK f \in Fds : /\ open_fake_fd(f)
                           /\ kernel_fds' = kernel_fds \cup {f}
                           /\ \/ \E ok : StoreMap(f, c.name, ok)
                              \/ Store(f, ProgHandler)
                              \/ Store(f, PerfHandler)
      BY Zenon, <1>2 DEF Create
    <3>2. \E h : Store(f, h)
      BY Zenon, <3>1, StoreMapStores
    <3>3. QED
      BY Zenon, <3>1, <3>2
  <2>2. f \notin kernel_fds /\ f \in kernel_fds'
    BY <2>1 DEF open_fake_fd, LowestFree, FreeFds
  <2>3. QED
    BY SMTT(30), <2>1, <2>2, StoreOne DEF SlotAfter
<1>3. CASE StoreAttach(t)
  <2>1. PICK f \in Fds : /\ open_fake_fd(f) /\ kernel_fds' = kernel_fds \cup {f}
                         /\ \E h : Store(f, h)
    BY Zenon, <1>3 DEF StoreAttach
  <2>2. f \notin kernel_fds /\ f \in kernel_fds'
    BY <2>1 DEF open_fake_fd, LowestFree, FreeFds
  <2>3. QED
    BY <2>1, <2>2, StoreOne DEF SlotAfter
<1>4. CASE LinkStore(t)
  <2>1. /\ c.id \in Fds /\ kernel_fds' = kernel_fds /\ \E h : Store(c.id, h)
    BY <1>1, <1>4 DEF LinkStore, CallOK
  <2>2. c.id \in kernel_fds'
    BY <2>1 DEF Ownership, Private
  <2>3. QED
    BY <2>1, <2>2, StoreOne DEF SlotAfter
<1>5. CASE Dup3(t) /\ Is("map", c.fd)
  <2>1. PICK name, impl :
          Store(c.arg, MapHandler(dup_(name), impl)) /\ c.arg \in Fds
    BY Zenon, <1>1, <1>5 DEF Dup3, StoreMap, CallOK
  <2>2. Len(MapHandler(dup_(name), impl).name) = 2
    BY HandlerFields DEF dup_
  <2>3. QED
    BY ZenonT(30), <2>1, <2>2, StoreOne DEF SlotAfter
<1>6. CASE Close(t)
  BY <1>6, HandlerFields DEF Close, clear_id_at, SlotAfter
<1>7. CASE handlers' = handlers
  BY <1>7 DEF SlotAfter
<1>8. QED
  BY Zenon, <1>2, <1>3, <1>4, <1>5, <1>6, <1>7
     DEF Step, Enter, Started, PassThrough, OpenFile, NoFdLeft, CheckAttach,
         LinkCreate, OrigClose, Dup3

\* How a number is given back to the kernel.
LEMMA StepCloses ==
    ASSUME NEW t \in Threads, Step(t), ~PassThrough(t),
           NEW fd \in kernel_fds \ kernel_fds'
    PROVE  call[t].pc = "orig_close" /\ fd = call[t].fd
<1>1. CASE OrigClose(t)
  BY <1>1 DEF OrigClose
<1>2. CASE kernel_fds \subseteq kernel_fds'
  BY SMTT(30), <1>2
<1>3. QED
  BY Zenon, <1>1, <1>2
     DEF Step, Enter, Started, Create, OpenFile, NoFdLeft, CheckAttach,
         StoreAttach, LinkCreate, LinkStore, Close, Dup3

\* A thread gets to the second half of its close through the first, and the
\* calls of the others stay as they are.
LEMMA StepEmpties ==
    ASSUME Inv, NEW t \in Threads, Step(t), NEW u \in Threads,
           call'[u].pc = "orig_close"
    PROVE  \/ u # t /\ call'[u] = call[u]
           \/ /\ u = t /\ call'[u].fd = call[u].fd
              /\ handlers'[call[u].fd].kind = "unused"
<1>1. call \in [Threads -> Call]
  BY DEF Inv, TypeOK
<1>2. \E c : call' = [call EXCEPT ![t] = c] \/ call' = call
  BY Zenon DEF Step, Enter, Started, PassThrough, Create, OpenFile, NoFdLeft,
     CheckAttach, StoreAttach, LinkCreate, LinkStore, Close, OrigClose, Dup3,
     Goto, Return
<1>3. u # t => call'[u] = call[u]
  BY SMTT(30), <1>1, <1>2
<1>4. CASE u = t /\ Close(t)
  <2>1. call'[t].fd = call[t].fd
    BY SMTT(30), <1>1, <1>4 DEF Close, Goto
  <2>2. call[t].fd \in Fds
    BY SMTT(30), <1>4 DEF Close, Inv, Calls, CallOK
  <2>3. handlers'[call[t].fd] = unused
    BY <2>2, <1>4 DEF Close, clear_id_at
  <2>4. QED
    BY <1>4, <2>1, <2>3, HandlerFields
<1>5. CASE u = t /\ ~Close(t)
  <2>1. call'[t].pc # "orig_close"
    <3>1. CASE Enter(t)
      BY <1>1, <3>1 DEF Enter, Arguments
    <3>2. CASE Started(t)
      BY <1>1, <3>2 DEF Started, Goto
    <3>3. CASE PassThrough(t)
      BY <3>3 DEF PassThrough
    <3>4. CASE Create(t) \/ OpenFile(t) \/ StoreAttach(t) \/ OrigClose(t)
               \/ Dup3(t)
      <4>1. call' = [call EXCEPT ![t] = NoCall]
        BY Zenon, <3>4
           DEF Create, OpenFile, StoreAttach, OrigClose, Dup3, Return
      <4>2. QED
        BY <1>1, <4>1 DEF NoCall
    <3>5. CASE NoFdLeft(t) \/ CheckAttach(t)
      <4>1. \/ call' = [call EXCEPT ![t] = NoCall]
            \/ call' = [call EXCEPT ![t].pc = "cookie"]
            \/ call' = [call EXCEPT ![t].pc = "attach"]
        BY Zenon, <3>5 DEF NoFdLeft, CheckAttach, Return, Goto
      <4>2. QED
        BY <1>1, <4>1 DEF NoCall, Call
    <3>6. CASE LinkCreate(t)
      BY <1>1, <3>6 DEF LinkCreate, Call
    <3>7. CASE LinkStore(t)
      BY <1>1, <3>7 DEF LinkStore, Call
    <3>8. QED
      BY ZenonT(30), <1>5, <3>1, <3>2, <3>3, <3>4, <3>5, <3>6, <3>7 DEF Step
  <2>2. QED
    BY <1>5, <2>1
<1>6. QED
  BY <1>3, <1>4, <1>5

\* The slot of a close in progress stays empty: the number is the closing
\* thread's own, so that no other thread opens it or stores a link there.
LEMMA StepEmptied ==
    ASSUME Inv, Emptied, NEW t \in Threads, Step(t) PROVE Emptied'
<1> SUFFICES ASSUME NEW u \in Threads, call'[u].pc = "orig_close"
             PROVE  \/ handlers'[call'[u].fd].kind = "unused"
                    \/ Len(handlers'[call'[u].fd].name) = 2
  BY Zenon DEF Emptied
<1>1. CASE u = t
  <2>1. /\ call'[u].fd = call[u].fd
        /\ handlers'[call[u].fd].kind = "unused"
    BY Zenon, <1>1, StepEmpties
  <2>2. QED
    BY Zenon, <2>1
<1>2. CASE u # t
  <2>1. call'[u] = call[u] /\ call[u].pc = "orig_close"
    BY Zenon, <1>2, StepEmpties
  <2>2. PICK fd \in Fds : fd = call[u].fd
    BY SMTT(30), <2>1 DEF Inv, Calls, CallOK
  <2>3. Private(u, fd)
    BY SMTT(30), <2>1, <2>2 DEF Inv, Calls, CallOK, Private, Closing
  <2>4. fd \in kernel_fds /\ ~Private(t, fd)
    BY <1>2, <2>3 DEF Inv, Ownership
  <2>5. \/ handlers'[fd] = handlers[fd] \/ handlers'[fd].kind = "unused"
        \/ Len(handlers'[fd].name) = 2
    BY <2>4, StepSlots DEF SlotAfter, Private
  <2>6. handlers[fd].kind = "unused" \/ Len(handlers[fd].name) = 2
    BY <2>1, <2>2 DEF Emptied
  <2>7. QED
    BY Zenon, <2>1, <2>2, <2>5, <2>6
<1>3. QED
  BY <1>1, <1>2

\* Whatever the threads do, a handler other than a duplicate comes to sit at a
\* number that is not open only by a close that went past the table.
THEOREM OnlyPassedCloseStrands == Spec => StrandedByPassedClose
<1> DEFINE A == Stranded' \subseteq Stranded \/ \E t \in Threads : PassThrough(t)
<1>1. Init => Emptied
  BY DEF Init, Emptied, NoCall
<1>2. Inv /\ Emptied /\ [Next]_vars => Emptied'
  <2>1. UNCHANGED vars /\ Emptied => Emptied'
    BY Zenon DEF vars, Emptied
  <2>2. QED
    BY Zenon, <2>1, StepEmptied DEF Next, Dead
<1>3. Inv /\ Emptied /\ [Next]_vars => [A]_vars
  <2> SUFFICES ASSUME Inv, Emptied, NEW t \in Threads, Step(t), ~PassThrough(t),
                      NEW fd \in Stranded'
               PROVE  fd \in Stranded
    BY Zenon DEF Next, Dead
  <2>1. /\ fd \in Fds /\ fd \notin kernel_fds'
        /\ handlers'[fd].kind # "unused" /\ Len(handlers'[fd].name) # 2
    BY DEF Stranded, is_allocated
  <2>2. handlers'[fd] = handlers[fd]
    BY <2>1, StepSlots DEF SlotAfter
  <2>3. fd \notin kernel_fds
    BY <2>1, <2>2, StepCloses DEF Emptied
  <2>4. QED
    BY <2>1, <2>2, <2>3 DEF Stranded, is_allocated
<1>4. Spec => [][A]_vars
  BY <1>1, <1>2, <1>3, Invariance, PTL DEF Spec
<1>5. QED
  BY <1>4 DEF StrandedByPassedClose

----------------------------------------------------------------------------
(* One thread.  What the thread has checked stays true until it uses it, so *)
(* links point at live handlers and handlers sit at open numbers.           *)

\* What the thread knows at each point of a call.
Known(t) ==
    LET c == call[t] IN
    /\ c.pc = "store" => Is("prog", c.arg) /\ ~is_allocated(c.id)
    /\ c.pc = "attach" => IsAttachable(c.fd, c.arg)
    /\ c.pc = "orig_close" => ~is_allocated(c.fd)
    /\ c.pc \in {"startup", "body"} /\ c.op = "dup3" => c.arg \in held
    /\ enable_mock \/ c.pc = "startup"

Told(h) == h.born \in {"none", "link"}

\* Whatever the application was told of, it still holds or is closing.
Accounted ==
    /\ \A fd \in Fds : is_allocated(fd) /\ Told(handlers[fd]) =>
          fd \in held \/ \E t \in Threads : Private(t, fd)
    /\ \A fd \in Fds : ~Is("link", fd) => handlers[fd].born = "none"

Single == /\ LinksLive /\ KernelBacked /\ Accounted
          /\ \A t \in Threads : Known(t)

\* Only links record the call that made them.
LEMMA HandlerBorn ==
    /\ unused.born = "none" /\ ProgHandler.born = "none"
    /\ PerfHandler.born = "none"
    /\ \A name, impl : MapHandler(name, impl).born = "none"
BY DEF unused, ProgHandler, PerfHandler, MapHandler

\* One thread: the empty table.
LEMMA InitSingle == Init => Single
<1> SUFFICES ASSUME Init PROVE Single
  OBVIOUS
<1>1. \A fd \in Fds : /\ handlers[fd] = unused /\ unused.kind = "unused"
                      /\ unused.born = "none"
  BY HandlerFields, HandlerBorn DEF Init
<1>2. \A t \in Threads : Known(t)
  BY DEF Init, Known, NoCall
<1>3. QED
  BY <1>1, <1>2 DEF Single, LinksLive, KernelBacked, Accounted, Is, is_allocated

\* A step that stores no handler and closes none keeps the table's part.
LEMMA SameTableSingle ==
    ASSUME Inv, Single, handlers' = handlers, kernel_fds \subseteq kernel_fds',
           \A fd \in Fds : fd \in held \/ (\E t \in Threads : Private(t, fd)) =>
              fd \in held' \/ (\E t \in Threads : Private(t, fd)')
    PROVE  LinksLive' /\ KernelBacked' /\ Accounted'
<1>1. LinksLive'
  BY SMTT(30) DEF Single, LinksLive, Is
<1>2. KernelBacked'
  BY DEF Single, KernelBacked, is_allocated
<1>3. Accounted'
  BY DEF Single, Accounted, is_allocated, Is, Told
<1>4. QED
  BY SMTT(30), <1>1, <1>2, <1>3

\* So does one that stores a handler in an empty slot, at an open number, if a
\* link stored there points at live handlers and the number is accounted for.
LEMMA StoreSingle ==
    ASSUME Inv, Single, kernel_fds \subseteq kernel_fds',
           NEW fd \in Fds, NEW h, Store(fd, h), h.kind # "unused",
           ~is_allocated(fd), fd \in kernel_fds',
           h.kind = "link" => /\ Is("prog", h.prog)
                              /\ h.born # "link" => Is("perf", h.target),
           h.kind # "link" => h.born = "none",
           Told(h) => fd \in held' \/ \E t \in Threads : Private(t, fd)',
           \A f \in Fds : f \in held \/ (\E t \in Threads : Private(t, f)) =>
              f \in held' \/ (\E t \in Threads : Private(t, f)')
    PROVE  LinksLive' /\ KernelBacked' /\ Accounted'
<1>1. /\ \A f \in Fds : handlers'[f] = IF f = fd THEN h ELSE handlers[f]
  BY Zenon DEF Store, Inv, TypeOK
<1>2. \A f, k : k # "unused" /\ Is(k, f) => Is(k, f)'
  BY SMTT(30), <1>1 DEF Is, is_allocated
<1>3. LinksLive'
  <2> SUFFICES ASSUME NEW f \in Fds, Is("link", f)'
               PROVE  (/\ Is("prog", handlers[f].prog)
                       /\ handlers[f].born # "link" => Is("perf", handlers[f].target))'
    BY ZenonT(30) DEF LinksLive
  <2>1. CASE f = fd
    BY SMTT(30), <1>1, <1>2, <2>1 DEF Is
  <2>2. CASE f # fd
    <3>1. handlers'[f] = handlers[f] /\ Is("link", f)
      BY <1>1, <2>2 DEF Is
    <3>2. QED
      BY SMTT(30), <1>2, <3>1 DEF Single, LinksLive
  <2>3. QED
    BY <2>1, <2>2
<1>4. KernelBacked'
  BY Zenon, <1>1 DEF Single, KernelBacked, is_allocated
<1>5. Accounted'
  BY Zenon, <1>1 DEF Single, Accounted, is_allocated, Is, Told
<1>6. QED
  BY <1>3, <1>4, <1>5

\* One thread makes a call.
LEMMA EnterSingle ==
    ASSUME SingleThread, Inv, Single, NEW t \in Threads, Enter(t) PROVE Single'
<1>1. PICK op \in Ops : \E c \in Arguments(op) :
          /\ call' = [call EXCEPT ![t] = c]
          /\ held' = IF op = "close" THEN held \ {c.fd} ELSE held
  BY Zenon DEF Enter
<1>2. PICK c \in Arguments(op) :
          /\ call' = [call EXCEPT ![t] = c]
          /\ held' = IF op = "close" THEN held \ {c.fd} ELSE held
  BY Zenon, <1>1
<1>3. /\ c.pc = "startup" /\ c.op = op /\ c.id = None
      /\ op = "dup3" => c.arg \in held
  BY DEF Arguments
<1>4. call'[t] = c /\ call[t] = NoCall
  BY ZenonT(30), <1>2 DEF Enter, Inv, TypeOK, Calls, CallOK
<1>5. \A fd \in Fds : ~Private(t, fd)
  BY Zenon, <1>4, NoCallOwns
<1>6. \A fd \in Fds : op = "close" /\ fd = c.fd => Private(t, fd)'
  BY <1>3, <1>4 DEF Private, Closing
<1>7. LinksLive' /\ KernelBacked' /\ Accounted'
  BY ZenonT(30), <1>2, <1>5, <1>6, SameTableSingle DEF Enter, SingleThread
<1>8. Known(t)'
  BY <1>2, <1>3, <1>4 DEF Known
<1>9. QED
  BY <1>7, <1>8 DEF Single, SingleThread

\* It finds the syscall server started.
LEMMA StartedSingle ==
    ASSUME SingleThread, Inv, Single, NEW t \in Threads, Started(t) PROVE Single'
<1>1. call[t] \in Call /\ call'[t] = [call[t] EXCEPT !.pc = "body"]
  BY DEF Started, Goto, Inv, TypeOK
<1>2. /\ call'[t].pc = "body" /\ call'[t].op = call[t].op
      /\ call'[t].fd = call[t].fd /\ call'[t].arg = call[t].arg
      /\ call'[t].id = call[t].id
  BY <1>1 DEF Call
<1>3. \A fd \in Fds : Private(t, fd) => Private(t, fd)'
  BY Zenon, <1>2 DEF Started, Private, Closing
<1>4. LinksLive' /\ KernelBacked' /\ Accounted'
  BY Zenon, <1>3, SameTableSingle DEF Started, SingleThread
<1>5. Known(t)'
  BY Zenon, <1>2 DEF Known, Started, Single
<1>6. QED
  BY <1>4, <1>5 DEF Single, SingleThread

\* A thread that returns knows nothing, and may have given up nothing.
LEMMA ReturnKnown ==
    ASSUME SingleThread, Inv, Single, NEW t \in Threads, Return(t),
           call[t].pc # "startup", UNCHANGED enable_mock
    PROVE  \A u \in Threads : Known(u)'
<1>1. call'[t] = NoCall
  BY SMTT(30) DEF Return, Inv, TypeOK
<1>2. call'[t].pc = "app"
  BY Zenon, <1>1, NoCallFields
<1>3. enable_mock \/ call[t].pc = "startup"
  BY DEF Single, Known
<1>4. Known(t)'
  BY Zenon, <1>2, <1>3 DEF Known
<1>5. QED
  BY <1>4 DEF SingleThread

\* It makes a map, a program or a perf event.
LEMMA CreateSingle ==
    ASSUME SingleThread, Inv, Single, NEW t \in Threads, Create(t) PROVE Single'
<1> DEFINE c == call[t]
<1>1. /\ c.pc = "body" /\ c.op \in {"map", "prog", "perf"} /\ CallOK(c) /\ Return(t)
  BY Zenon DEF Create, Inv, Calls
<1>2. PICK fd \in Fds :
         /\ open_fake_fd(fd)
         /\ kernel_fds' = kernel_fds \cup {fd}
         /\ held' = IF is_allocated(fd) THEN held ELSE held \cup {fd}
         /\ \/ c.op = "map" /\ \E ok \in Sizings(c.name) :
                                 StoreMap(fd, c.name, ok)
            \/ c.op = "prog" /\ Store(fd, ProgHandler)
            \/ c.op = "perf" /\ Store(fd, PerfHandler)
  BY Zenon DEF Create
<1>3. ~is_allocated(fd)
  BY ZenonT(30), <1>2
     DEF open_fake_fd, LowestFree, FreeFds, Single, KernelBacked
<1>4. PICK h : Store(fd, h) /\ h.kind \notin {"unused", "link"} /\ h.born = "none"
  <2>1. \E h : /\ Store(fd, h) /\ h.kind \in {"map", "prog", "perf"}
               /\ h.born = "none"
    <3>1. CASE \E ok : StoreMap(fd, c.name, ok)
      BY Zenon, <3>1, StoreMapStores
    <3>2. CASE Store(fd, ProgHandler)
      BY Zenon, <3>2, HandlerFields, HandlerBorn
    <3>3. CASE Store(fd, PerfHandler)
      BY Zenon, <3>3, HandlerFields, HandlerBorn
    <3>4. QED
      BY Zenon, <1>2, <3>1, <3>2, <3>3
  <2>2. QED
    BY Zenon, <2>1
<1>5. \A f \in Fds : ~Private(t, f)
  BY Zenon, <1>1, NoneAssumption DEF Private, Closing, CallOK
<1>6. LinksLive' /\ KernelBacked' /\ Accounted'
  BY Zenon, <1>2, <1>3, <1>4, <1>5, StoreSingle DEF SingleThread
<1>7. \A u \in Threads : Known(u)'
  BY Zenon, <1>1, ReturnKnown DEF Create
<1>8. QED
  BY <1>6, <1>7 DEF Single

\* It opens a file that is none of bpftime's.
LEMMA OpenFileSingle ==
    ASSUME SingleThread, Inv, Single, NEW t \in Threads, OpenFile(t) PROVE Single'
<1>1. \A f \in Fds : ~Private(t, f)
  BY Zenon, NoneAssumption DEF OpenFile, Inv, Calls, Private, Closing, CallOK
<1>2. kernel_fds \subseteq kernel_fds' /\ held \subseteq held'
  BY SMTT(30) DEF OpenFile
<1>3. LinksLive' /\ KernelBacked' /\ Accounted'
  BY <1>1, <1>2, SameTableSingle DEF OpenFile, SingleThread
<1>4. \A u \in Threads : Known(u)'
  BY ReturnKnown DEF OpenFile
<1>5. QED
  BY <1>3, <1>4 DEF Single

\* The number that a call alone knew becomes the application's.
LEMMA LearnedKeeps ==
    ASSUME SingleThread, Inv, NEW t \in Threads, ~Closing(t), held' = Learned(t)
    PROVE  \A fd \in Fds : fd \in held \/ (\E u \in Threads : Private(u, fd)) =>
              fd \in held'
BY NoneAssumption DEF SingleThread, Private, Learned

\* The kernel has no descriptor left for it.
LEMMA NoFdLeftSingle ==
    ASSUME SingleThread, Inv, Single, NEW t \in Threads, NoFdLeft(t) PROVE Single'
<1> DEFINE c == call[t]
<1>1. /\ c \in Call /\ c.pc \in {"body", "attach"} /\ ~Closing(t)
      /\ UNCHANGED <<handlers, kernel_fds, enable_mock>> /\ held' = Learned(t)
  BY SMTT(30) DEF NoFdLeft, Inv, TypeOK, Closing
<1>2. LinksLive' /\ KernelBacked' /\ Accounted'
  BY SMTT(30), <1>1, LearnedKeeps, SameTableSingle
<1>3. \A u \in Threads : Known(u)'
  <2>1. CASE Return(t)
    BY <1>1, <2>1, ReturnKnown
  <2>2. CASE Goto(t, "cookie")
    <3>1. call'[t].pc = "cookie"
      BY <1>1, <2>2 DEF Goto, Inv, TypeOK, Call
    <3>2. QED
      BY Zenon, <1>1, <3>1 DEF Known, Single, SingleThread
  <2>3. QED
    BY <2>1, <2>2 DEF NoFdLeft
<1>4. QED
  BY <1>2, <1>3 DEF Single

\* It checks what it is to attach.
LEMMA CheckAttachSingle ==
    ASSUME SingleThread, Inv, Single, NEW t \in Threads, CheckAttach(t) PROVE Single'
<1> DEFINE c == call[t]
<1>1. /\ c \in Call /\ c.pc \in {"body", "cookie"} /\ ~Closing(t)
      /\ UNCHANGED <<handlers, kernel_fds, enable_mock>>
  BY DEF CheckAttach, Inv, TypeOK, Closing
<1>2. CASE IsAttachable(c.fd, c.arg)
  <2>1. call'[t] = [c EXCEPT !.pc = "attach"] /\ held' = held
    BY <1>2 DEF CheckAttach, Goto, Inv, TypeOK
  <2>2. /\ call'[t].pc = "attach" /\ call'[t].fd = c.fd /\ call'[t].arg = c.arg
        /\ call'[t].id = c.id /\ call'[t].op = c.op
    BY SMTT(30), <1>1, <2>1 DEF Call
  <2>3. \A fd \in Fds : Private(t, fd) => Private(t, fd)'
    BY <1>1, <2>2 DEF Private
  <2>4. LinksLive' /\ KernelBacked' /\ Accounted'
    BY <1>1, <2>1, <2>3, SameTableSingle DEF SingleThread
  <2>5. Known(t)'
    BY Zenon, <1>1, <1>2, <2>2 DEF Known, Single, IsAttachable, Is
  <2>6. QED
    BY <2>4, <2>5 DEF Single, SingleThread
<1>3. CASE ~IsAttachable(c.fd, c.arg)
  <2>1. Return(t) /\ held' = Learned(t)
    BY SMTT(30), <1>3 DEF CheckAttach
  <2>2. LinksLive' /\ KernelBacked' /\ Accounted'
    BY SMTT(30), <1>1, <2>1, LearnedKeeps, SameTableSingle
  <2>3. QED
    BY Zenon, <1>1, <2>1, <2>2, ReturnKnown DEF Single
<1>4. QED
  BY <1>2, <1>3

\* It stores a link under a new number.
LEMMA StoreAttachSingle ==
    ASSUME SingleThread, Inv, Single, NEW t \in Threads, StoreAttach(t) PROVE Single'
<1> DEFINE c == call[t]
           born == IF c.op = "ioctl" THEN "ioctl" ELSE "cookie"
           h == LinkHandler(c.arg, c.fd, born)
<1>1. /\ c.pc = "attach" /\ Return(t) /\ ~Closing(t) /\ held' = Learned(t)
      /\ UNCHANGED enable_mock
  BY SMTT(30) DEF StoreAttach, Closing
<1>2. PICK fd \in Fds : /\ fd \notin kernel_fds
                       /\ kernel_fds' = kernel_fds \cup {fd} /\ Store(fd, h)
  BY SMTT(30) DEF StoreAttach, open_fake_fd, LowestFree, FreeFds
<1>3. /\ h.kind = "link" /\ h.prog = c.arg /\ h.target = c.fd /\ h.born = born
      /\ born \in {"ioctl", "cookie"}
  BY HandlerFields
<1>4. Is("perf", c.fd) /\ Is("prog", c.arg)
  BY Zenon, <1>1 DEF Single, Known, IsAttachable
<1>5. ~is_allocated(fd)
  BY <1>2 DEF Single, KernelBacked
<1> HIDE DEF h, born
<1>6. ~Told(h)
  BY <1>3 DEF Told
<1>7. LinksLive' /\ KernelBacked' /\ Accounted'
  BY Zenon, <1>1, <1>2, <1>3, <1>4, <1>5, <1>6, LearnedKeeps, StoreSingle
<1>8. QED
  BY SMTT(30), <1>1, <1>7, ReturnKnown DEF Single

\* It opens a number for a link and checks the program.
LEMMA LinkCreateSingle ==
    ASSUME SingleThread, Inv, Single, NEW t \in Threads, LinkCreate(t) PROVE Single'
<1> DEFINE c == call[t]
<1>1. /\ CallOK(c) /\ c \in Call /\ c.pc = "body" /\ c.op = "link"
      /\ UNCHANGED <<handlers, held, enable_mock>>
  BY DEF LinkCreate, Inv, Calls, TypeOK
<1>2. PICK fd \in Fds :
         /\ fd \notin kernel_fds
         /\ kernel_fds' = kernel_fds \cup {fd}
         /\ call' = [call EXCEPT
               ![t] = IF Is("prog", c.arg)
                        THEN [c EXCEPT !.pc = "store", !.id = fd]
                        ELSE [c EXCEPT !.pc = "cookie"]]
  BY Zenon DEF LinkCreate, open_fake_fd, LowestFree, FreeFds
<1>3. \A f \in Fds : ~Private(t, f)
  BY <1>1, NoneAssumption DEF Private, Closing, CallOK
<1>4. LinksLive' /\ KernelBacked' /\ Accounted'
  BY <1>1, <1>2, <1>3, SameTableSingle DEF SingleThread
<1>5. call'[t] = IF Is("prog", c.arg) THEN [c EXCEPT !.pc = "store", !.id = fd]
                                      ELSE [c EXCEPT !.pc = "cookie"]
  BY <1>2 DEF Inv, TypeOK
<1>6. /\ call'[t].arg = c.arg /\ call'[t].pc \in {"store", "cookie"}
      /\ call'[t].pc = "store" => Is("prog", c.arg) /\ call'[t].id = fd
  BY SMTT(30), <1>1, <1>5 DEF Call
<1>7. Known(t)'
  BY <1>1, <1>2, <1>6 DEF Known, Single, Is, KernelBacked, is_allocated
<1>8. QED
  BY <1>4, <1>7 DEF Single, SingleThread

\* It stores the link there.
LEMMA LinkStoreSingle ==
    ASSUME SingleThread, Inv, Single, NEW t \in Threads, LinkStore(t) PROVE Single'
<1> DEFINE c == call[t]
           h == LinkHandler(c.arg, c.fd, "link")
<1>1. /\ CallOK(c) /\ c \in Call /\ c.pc = "store" /\ Store(c.id, h)
      /\ call' = [call EXCEPT
            ![t] = [c EXCEPT !.pc = "cookie",
                             !.id = IF is_allocated(c.id) THEN None ELSE c.id]]
      /\ UNCHANGED <<kernel_fds, held, enable_mock>>
  BY DEF LinkStore, Inv, Calls, TypeOK
<1>2. c.id \in Fds /\ Private(t, c.id) /\ c.id \in kernel_fds \ held
  BY <1>1 DEF CallOK, Private, Inv, Ownership
<1>3. ~is_allocated(c.id) /\ Is("prog", c.arg) /\ enable_mock
  BY <1>1 DEF Single, Known
<1>4. call'[t] = [c EXCEPT !.pc = "cookie", !.id = c.id]
  BY <1>1, <1>3 DEF Inv, TypeOK
<1>5. call'[t].pc = "cookie" /\ call'[t].id = c.id
  <2>1. c \in Call
    BY <1>1
  <2>2. QED
    BY <1>4, <2>1 DEF Call
<1>6. Known(t)'
  BY SMTT(30), <1>1, <1>3, <1>5 DEF Known
<1>7. h.kind = "link" /\ h.prog = c.arg /\ h.born = "link"
  BY HandlerFields
<1> HIDE DEF h
<1>8. \A f \in Fds : Private(t, f) => Private(t, f)'
  BY <1>1, <1>5 DEF Private, Closing
<1>9. LinksLive' /\ KernelBacked' /\ Accounted'
  BY <1>1, <1>2, <1>3, <1>7, <1>8, StoreSingle DEF SingleThread
<1>10. QED
  BY <1>6, <1>9 DEF Single, SingleThread

\* It clears a handler and the links that refer to it.
LEMMA CloseSingle ==
    ASSUME SingleThread, Inv, Single, NEW t \in Threads, Close(t) PROVE Single'
<1> DEFINE c == call[t]
<1>1. /\ CallOK(c) /\ c \in Call /\ c.pc = "body" /\ c.op = "close"
      /\ clear_id_at(c.fd) /\ Goto(t, "orig_close")
      /\ UNCHANGED <<kernel_fds, held, enable_mock>>
  BY SMTT(30) DEF Close, Inv, Calls, TypeOK
<1>2. c.fd \in Fds
  BY SMTT(30), <1>1 DEF CallOK
<1>3. \A f \in Fds : handlers'[f] = IF f = c.fd \/ Refers(handlers[f], c.fd)
                                      THEN unused ELSE handlers[f]
  BY <1>1 DEF clear_id_at
<1>4. unused.kind = "unused" /\ unused.born = "none"
  BY HandlerFields, HandlerBorn
<1>5. call'[t] = [c EXCEPT !.pc = "orig_close"]
  BY <1>1 DEF Goto, Inv, TypeOK
<1>6. /\ call'[t].pc = "orig_close" /\ call'[t].fd = c.fd /\ call'[t].op = c.op
      /\ call'[t].id = c.id
  BY <1>1, <1>5 DEF Call
<1>7. Known(t)'
  BY Zenon, <1>1, <1>2, <1>3, <1>4, <1>6 DEF Known, Single, is_allocated
<1>8. \A f \in Fds : Private(t, f)' <=> Private(t, f)
  BY Zenon, <1>1, <1>6 DEF Private, Closing
<1>9. KernelBacked'
  BY Zenon, <1>1, <1>3, <1>4 DEF Single, KernelBacked, is_allocated
<1>10. Accounted'
  BY ZenonT(30), <1>1, <1>3, <1>4, <1>8
     DEF Single, Accounted, is_allocated, Is, Told, SingleThread
<1>11. LinksLive'
  <2> SUFFICES ASSUME NEW f \in Fds, Is("link", f)'
               PROVE  (/\ Is("prog", handlers[f].prog)
                       /\ handlers[f].born # "link" => Is("perf", handlers[f].target))'
    BY DEF LinksLive
  <2>1. /\ handlers'[f] = handlers[f] /\ f # c.fd /\ handlers[f].kind = "link"
        /\ ~Refers(handlers[f], c.fd)
    BY Zenon, <1>3, <1>4 DEF Is
  <2>2. /\ Is("prog", handlers[f].prog)
        /\ handlers[f].born # "link" => Is("perf", handlers[f].target)
    BY Zenon, <2>1 DEF Single, LinksLive, Is
  <2>3. \A g \in Fds, k \in {"prog", "perf"} :
           Is(k, g) /\ g # c.fd => Is(k, g)'
    BY SMTT(30), <1>3 DEF Is, Refers
  <2>4. Is("prog", handlers[f].prog) => handlers[f].prog # c.fd
    BY <2>1 DEF Refers
  <2>5. handlers[f].born # "link" => handlers[f].target # c.fd
    BY Zenon, <2>1, <2>2 DEF Refers
  <2>6. QED
    BY Zenon, <2>1, <2>2, <2>3, <2>4, <2>5 DEF Is
<1>12. QED
  BY SMTT(30), <1>7, <1>9, <1>10, <1>11 DEF Single, SingleThread

\* The kernel closes the descriptor.
LEMMA OrigCloseSingle ==
    ASSUME SingleThread, Inv, Single, NEW t \in Threads, OrigClose(t) PROVE Single'
<1> DEFINE c == call[t]
<1>1. /\ CallOK(c) /\ c.pc = "orig_close" /\ Return(t)
      /\ kernel_fds' = kernel_fds \ {c.fd}
      /\ UNCHANGED <<handlers, held, enable_mock>>
  BY DEF OrigClose, Inv, Calls
<1>2. ~is_allocated(c.fd)
  BY Zenon, <1>1 DEF Single, Known
<1>3. \A f \in Fds : Private(t, f) => f = c.fd
  BY Zenon, <1>1, NoneAssumption DEF Private, Closing, CallOK
<1>4. LinksLive'
  BY Zenon, <1>1 DEF Single, LinksLive, Is
<1>5. KernelBacked'
  BY SMTT(30), <1>1, <1>2 DEF Single, KernelBacked, is_allocated
<1>6. Accounted'
  BY <1>1, <1>2, <1>3
     DEF Single, Accounted, is_allocated, Is, Told, SingleThread
<1>7. QED
  BY SMTT(30), <1>1, <1>4, <1>5, <1>6, ReturnKnown DEF Single

\* It duplicates a map.
LEMMA Dup3Single ==
    ASSUME SingleThread, Inv, Single, NEW t \in Threads, Dup3(t) PROVE Single'
<1> DEFINE c == call[t]
<1>1. /\ CallOK(c) /\ c.pc = "body" /\ c.op = "dup3" /\ Return(t)
      /\ UNCHANGED <<kernel_fds, held, enable_mock>>
  BY DEF Dup3, Inv, Calls
<1>2. c.arg \in held /\ c.arg \in Fds /\ c.arg \in kernel_fds
  BY Zenon, <1>1 DEF CallOK, Single, Known, Inv, Ownership
<1>3. \A f \in Fds : ~Private(t, f)
  BY Zenon, <1>1, NoneAssumption DEF Private, Closing, CallOK
<1>4. LinksLive' /\ KernelBacked' /\ Accounted'
  <2>1. CASE handlers' = handlers
    BY Zenon, <1>1, <1>3, <2>1, SameTableSingle DEF SingleThread
  <2>2. CASE ~is_allocated(c.arg) /\ \E name, impl : Store(c.arg, MapHandler(name, impl))
    <3>1. PICK h : Store(c.arg, h) /\ h.kind = "map" /\ h.born = "none"
      BY <2>2, HandlerFields, HandlerBorn
    <3>2. QED
      BY Zenon, <1>1, <1>2, <1>3, <2>2, <3>1, StoreSingle DEF SingleThread
  <2>3. \/ handlers' = handlers
        \/ \E name, impl : Store(c.arg, MapHandler(name, impl))
    BY Zenon DEF Dup3, StoreMap
  <2>4. (\E h : Store(c.arg, h)) /\ is_allocated(c.arg) => handlers' = handlers
    BY DEF Store
  <2>5. QED
    BY <2>1, <2>2, <2>3, <2>4
<1>5. QED
  BY ZenonT(30), <1>1, <1>4, ReturnKnown DEF Single

\* Every step of the one thread keeps the second invariant.
LEMMA StepSingle ==
    ASSUME SingleThread, Inv, Single, NEW t \in Threads, Step(t) PROVE Single'
<1>1. ~PassThrough(t)
  BY Zenon DEF PassThrough, Single, Known
<1>2. QED
  BY <1>1, EnterSingle, StartedSingle, CreateSingle, OpenFileSingle,
     NoFdLeftSingle, CheckAttachSingle, StoreAttachSingle, LinkCreateSingle,
     LinkStoreSingle, CloseSingle, OrigCloseSingle, Dup3Single
     DEF Step

\* A step that changes nothing.
LEMMA StutterSingle == Inv /\ Single /\ UNCHANGED vars => Single'
<1> SUFFICES ASSUME Inv, Single, UNCHANGED vars PROVE Single'
  OBVIOUS
<1>1. \A t \in Threads, f \in Fds : Private(t, f)' <=> Private(t, f)
  BY DEF vars, Private, Closing
<1>2. LinksLive' /\ KernelBacked' /\ Accounted'
  BY <1>1, SameTableSingle DEF vars
<1>3. \A t \in Threads : Known(t)'
  BY Zenon DEF vars, Single, Known, Is, is_allocated, IsAttachable
<1>4. QED
  BY <1>2, <1>3 DEF Single

\* So does every step.
LEMMA NextSingle == ASSUME SingleThread PROVE Inv /\ Single /\ [Next]_vars => Single'
BY StepSingle, StutterSingle DEF Next, Dead

\* An application of one thread: a link in the table always names a program,
\* and a link made by an attach also a perf event, that are in the table.
THEOREM LinksAlwaysLive == ASSUME SingleThread PROVE Spec => []LinksLive
<1>1. Inv /\ Single /\ [Next]_vars => Single'
  BY NextSingle
<1>2. Single => LinksLive
  BY DEF Single
<1>3. QED
  BY <1>1, <1>2, InitSingle, Invariance, PTL DEF Spec

\* An application of one thread: no handler sits at a number the kernel could
\* hand out again, so set_handler never answers -EEXIST to a creation.
THEOREM AlwaysKernelBacked == ASSUME SingleThread PROVE Spec => []KernelBacked
<1>1. Inv /\ Single /\ [Next]_vars => Single'
  BY NextSingle
<1>2. Single => KernelBacked
  BY DEF Single
<1>3. QED
  BY <1>1, <1>2, InitSingle, Invariance, PTL DEF Spec

\* An application of one thread that has closed all it was given leaves an
\* empty table.
THEOREM NothingEverLeft == ASSUME SingleThread PROVE Spec => []NothingLeft
<1>1. Inv /\ Single /\ [Next]_vars => Single'
  BY NextSingle
<1>2. Inv /\ Single => NothingLeft
  <2> SUFFICES ASSUME Inv, Single, held = {}, Idle, NEW fd \in Fds, is_allocated(fd)
               PROVE  FALSE
    BY SMTT(30) DEF NothingLeft
  <2>1. \A t \in Threads, f \in Fds : ~Private(t, f)
    BY Zenon, NoCallOwns DEF Inv, Calls, CallOK, Idle
  <2>2. \A f \in Fds : is_allocated(f) => Is("link", f) /\ ~Told(handlers[f])
    BY ZenonT(30), <2>1 DEF Single, Accounted, Told
  <2>3. Is("prog", handlers[fd].prog)
    BY <2>2 DEF Single, LinksLive
  <2>4. QED
    BY <2>2, <2>3 DEF Is, is_allocated
<1>3. QED
  BY <1>1, <1>2, InitSingle, Invariance, PTL DEF Spec
=============================================================================
