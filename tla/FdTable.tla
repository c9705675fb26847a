------------------------------ MODULE FdTable ------------------------------
(***************************************************************************)
(* The table of handlers in shared memory (handler_manager.cpp), the       *)
(* operations of bpftime_shm that fill and clear it, and the system calls  *)
(* of an application that loads eBPF programs under the syscall server     *)
(* (syscall_context.cpp, not run_with_kernel).  A handler lives at the     *)
(* number of a kernel file descriptor: open_fake_fd opens /dev/null to get *)
(* one.  Each mocked call first runs try_startup, which switches mocking   *)
(* off and on again; a call of another thread in between goes to the       *)
(* kernel.                                                                 *)
(***************************************************************************)
EXTENDS Integers, FiniteSets, Sequences

CONSTANTS
    Threads,   \* of the application
    Fds,       \* file descriptor numbers, all within the table
    Names,     \* map names in the application's programs
    OuterNames,\* those of type BPF_MAP_TYPE_ARRAY_OF_MAPS,
    RingNames, \* of type BPF_MAP_TYPE_RINGBUF,
    OtherNames,\* and of a type that map_init does not know
    Ops,       \* the system calls the application makes, a subset of AllOps
    None

AllOps == {"open", "map", "prog", "perf", "ioctl", "link", "close", "dup3"}

ASSUME FdsAssumption == Fds \subseteq Nat /\ IsFiniteSet(Fds)
ASSUME OpsAssumption ==
    /\ Ops \subseteq AllOps
    /\ OuterNames \subseteq Names /\ RingNames \subseteq Names
    /\ OtherNames \subseteq Names
ASSUME NoneAssumption == None \notin Fds

VARIABLES
    handlers,     \* the table, in shared memory
    segment,      \* map containers in shared memory, by container name
    kernel_fds,   \* the open descriptors of the process
    held,         \* those the application knows and has not closed
    enable_mock,  \* syscall_context::enable_mock
    call,         \* each thread: the call it is in and how far it is
    stopped       \* the process died of an exception that left a system
                  \* call, or wrote outside the table (undefined)

vars == <<handlers, segment, kernel_fds, held, enable_mock, call, stopped>>

----------------------------------------------------------------------------
unused == [kind |-> "unused", name |-> <<>>, impl |-> FALSE, prog |-> None,
           target |-> None, born |-> "none"]
MapHandler(name, impl) == [unused EXCEPT !.kind = "map", !.name = name,
                                         !.impl = impl]
ProgHandler == [unused EXCEPT !.kind = "prog"]
PerfHandler == [unused EXCEPT !.kind = "perf"]
LinkHandler(prog, target, born) ==
    [unused EXCEPT !.kind = "link", !.prog = prog, !.target = target,
                   !.born = born]

\* The name of a map, and of a duplicate of a map.
MapNames == {<<n>> : n \in Names} \cup {<<"dup", n>> : n \in Names}
dup_(name) == <<"dup", name[1]>>

Handler == [kind : {"unused", "map", "prog", "perf", "link"},
            name : MapNames \cup {<<>>}, impl : BOOLEAN,
            prog : Fds \cup {None}, target : Fds \cup {None},
            born : {"none", "ioctl", "link", "cookie"}]

NoCall == [pc |-> "app", op |-> "open", fd |-> None, arg |-> None,
           name |-> <<>>, id |-> None]

Call == [pc : {"app", "startup", "body", "store", "cookie", "attach",
               "orig_close"},
         op : AllOps, fd : Fds \cup {None}, arg : Fds \cup {None},
         name : MapNames \cup {<<>>}, id : Fds \cup {None}]

TypeOK ==
    /\ handlers \in [Fds -> Handler]
    /\ segment \in [MapNames -> {"none", "made"}]
    /\ kernel_fds \subseteq Fds /\ held \subseteq Fds
    /\ enable_mock \in BOOLEAN /\ stopped \in BOOLEAN
    /\ call \in [Threads -> Call]

Init ==
    /\ handlers = [fd \in Fds |-> unused]
    /\ segment = [n \in MapNames |-> "none"]
    /\ kernel_fds = {} /\ held = {}
    /\ enable_mock = TRUE /\ stopped = FALSE
    /\ call = [t \in Threads |-> NoCall]

is_allocated(fd) == handlers[fd].kind # "unused"
Is(kind, fd) == fd \in Fds /\ handlers[fd].kind = kind

\* open("/dev/null"): the kernel hands out the lowest free number.
FreeFds == Fds \ kernel_fds
LowestFree(fd) == fd \in FreeFds /\ \A f \in FreeFds : fd <= f

open_fake_fd(fd) == LowestFree(fd)

Goto(t, pc) == call' = [call EXCEPT ![t].pc = pc]
Return(t) == call' = [call EXCEPT ![t] = NoCall]

\* What the application holds once a call that made the link id has returned.
\* (LearnedFailure and other such variants of a definition are mutations that
\* break the properties below.)
LearnedFailure(t) == held \cup {call[t].id}

Learned(t) == held \cup ({call[t].id} \ {None})

----------------------------------------------------------------------------
(* The way into a mocked call *)

\* What the application passes: descriptors it holds, names of its maps.  A
\* duplicate is not duplicated again, which bounds the names.
Arguments(op) ==
    [pc : {"startup"}, op : {op},
     fd : IF op \in {"ioctl", "link", "close", "dup3"}
            THEN {fd \in held : op = "dup3" => Len(handlers[fd].name) # 2}
            ELSE {None},
     arg : IF op \in {"ioctl", "link", "dup3"} THEN held ELSE {None},
     name : IF op = "map" THEN {<<n>> : n \in Names} ELSE {<<>>},
     id : {None}]

\* try_startup switches mocking off ...  A descriptor that the application
\* closes is no longer its own from the call on.
Enter(t) ==
    /\ call[t].pc = "app" /\ enable_mock /\ ~stopped
    /\ \E op \in Ops : \E c \in Arguments(op) :
          /\ call' = [call EXCEPT ![t] = c]
          /\ held' = IF op = "close" THEN held \ {c.fd} ELSE held
    /\ enable_mock' = FALSE
    /\ UNCHANGED <<handlers, segment, kernel_fds, stopped>>

\* ... and on again.
Started(t) ==
    /\ call[t].pc = "startup" /\ ~stopped
    /\ enable_mock' = TRUE
    /\ Goto(t, "body")
    /\ UNCHANGED <<handlers, segment, kernel_fds, held, stopped>>

\* A call that finds enable_mock false is the kernel's: it closes, or makes
\* a descriptor the table knows nothing of, or fails.
PassThrough(t) ==
    /\ call[t].pc = "app" /\ ~enable_mock /\ ~stopped
    /\ \/ /\ "close" \in Ops
          /\ \E fd \in held : /\ kernel_fds' = kernel_fds \ {fd}
                              /\ held' = held \ {fd}
       \/ /\ Ops \cap {"open", "map", "prog", "perf"} # {}
          /\ \E fd \in Fds : /\ LowestFree(fd)
                             /\ kernel_fds' = kernel_fds \cup {fd}
                             /\ held' = held \cup {fd}
    /\ UNCHANGED <<handlers, segment, enable_mock, call, stopped>>

----------------------------------------------------------------------------
(* bpftime_shm and handler_manager *)

StoreAlways(fd, handler) == handlers' = [handlers EXCEPT ![fd] = handler]

\* set_handler refuses an occupied slot ...
Store(fd, handler) ==
    handlers' = IF is_allocated(fd) THEN handlers
                                    ELSE [handlers EXCEPT ![fd] = handler]

\* ... and for a map lets map_init construct a container under the map's
\* name, which throws when the name is taken; the handler stays.  Before it
\* comes to that map_init returns -1 for a ring buffer whose size is not a
\* power of two and for a type it does not know (ok is false): set_handler
\* does not look at the result, so the handler stays too.
IsA(types, name) == name[Len(name)] \in types

Sizings(name) == {ok \in BOOLEAN :
    /\ IsA(OtherNames, name) => ~ok
    /\ ~IsA(OtherNames \cup RingNames, name) => ok}

StoreMapReusing(fd, name, ok) ==
    /\ Store(fd, MapHandler(name, TRUE))
    /\ segment' = [segment EXCEPT ![name] = "made"]
    /\ UNCHANGED stopped

StoreMap(fd, name, ok) ==
    LET free == segment[name] = "none" IN
    /\ Store(fd, MapHandler(name, ok /\ free))
    /\ segment' = IF ~is_allocated(fd) /\ ok /\ free
                    THEN [segment EXCEPT ![name] = "made"] ELSE segment
    /\ stopped' = (~is_allocated(fd) /\ ok /\ ~free)

\* bpf(BPF_MAP_CREATE), bpf(BPF_PROG_LOAD), perf_event_open.  When the slot
\* is occupied the new number stays open and nobody learns of it.
Create(t) ==
    LET c == call[t] IN
    /\ c.pc = "body" /\ c.op \in {"map", "prog", "perf"} /\ ~stopped
    /\ \E fd \in Fds :
         /\ open_fake_fd(fd)
         /\ kernel_fds' = kernel_fds \cup {fd}
         /\ held' = IF is_allocated(fd) THEN held ELSE held \cup {fd}
         /\ \/ c.op = "map" /\ \E ok \in Sizings(c.name) :
                                 StoreMap(fd, c.name, ok)
            \/ c.op = "prog" /\ Store(fd, ProgHandler)
                             /\ UNCHANGED <<segment, stopped>>
            \/ c.op = "perf" /\ Store(fd, PerfHandler)
                             /\ UNCHANGED <<segment, stopped>>
    /\ Return(t)
    /\ UNCHANGED enable_mock

\* A file of the application: the real call, behind the mocked one.
OpenFile(t) ==
    /\ call[t].pc = "body" /\ call[t].op = "open" /\ ~stopped
    /\ \E fd \in Fds : /\ LowestFree(fd)
                       /\ kernel_fds' = kernel_fds \cup {fd}
                       /\ held' = held \cup {fd}
    /\ Return(t)
    /\ UNCHANGED <<handlers, segment, enable_mock, stopped>>

\* With no number left open_fake_fd is -1: open and the attach fail, the
\* others write handlers[-1].
NoFdLeft(t) ==
    LET c == call[t] IN
    /\ FreeFds = {} /\ ~stopped
    /\ \/ c.pc = "body" /\ c.op \in {"open", "map", "prog", "perf", "link"}
       \/ c.pc = "attach"
    /\ IF c.pc = "body" /\ c.op = "link" THEN Goto(t, "cookie") ELSE Return(t)
    /\ stopped' = (c.pc = "body" /\ (c.op = "link" => Is("prog", c.arg))
                                 /\ c.op # "open")
    /\ held' = Learned(t)
    /\ UNCHANGED <<handlers, segment, kernel_fds, enable_mock>>

\* attach_perf_to_bpf checks both descriptors ...
IsAttachable(perf_fd, bpf_fd) == Is("perf", perf_fd) /\ Is("prog", bpf_fd)

\* ... for ioctl(perf, PERF_EVENT_IOC_SET_BPF, prog), and again for the
\* cookie of a BPF_LINK_CREATE ...
CheckAttach(t) ==
    LET c == call[t] IN
    /\ (c.pc = "body" /\ c.op = "ioctl") \/ c.pc = "cookie"
    /\ ~stopped
    /\ IF IsAttachable(c.fd, c.arg)
         THEN Goto(t, "attach") /\ UNCHANGED held
         ELSE Return(t) /\ held' = Learned(t)
    /\ UNCHANGED <<handlers, segment, kernel_fds, enable_mock, stopped>>

\* ... then puts a link under a new number, which the application does not
\* learn of as one it should close.
StoreAttach(t) ==
    LET c == call[t] IN
    /\ c.pc = "attach" /\ ~stopped
    /\ \E fd \in Fds : /\ open_fake_fd(fd)
                       /\ kernel_fds' = kernel_fds \cup {fd}
                       /\ Store(fd, LinkHandler(c.arg, c.fd,
                            IF c.op = "ioctl" THEN "ioctl" ELSE "cookie"))
    /\ Return(t)
    /\ held' = Learned(t)
    /\ UNCHANGED <<segment, enable_mock, stopped>>

\* bpf(BPF_LINK_CREATE): add_bpf_link opens a number, checks the program
\* (not the target) ...
LinkCreate(t) ==
    LET c == call[t] IN
    /\ c.pc = "body" /\ c.op = "link" /\ ~stopped
    /\ \E fd \in Fds :
         /\ open_fake_fd(fd)
         /\ kernel_fds' = kernel_fds \cup {fd}
         /\ call' = [call EXCEPT
               ![t] = IF Is("prog", c.arg)
                        THEN [c EXCEPT !.pc = "store", !.id = fd]
                        ELSE [c EXCEPT !.pc = "cookie"]]
    /\ UNCHANGED <<handlers, segment, held, enable_mock, stopped>>

\* ... and stores the link, whose number the call will return.
LinkStore(t) ==
    LET c == call[t] IN
    /\ c.pc = "store" /\ ~stopped
    /\ Store(c.id, LinkHandler(c.arg, c.fd, "link"))
    /\ call' = [call EXCEPT
          ![t] = [c EXCEPT !.pc = "cookie",
                           !.id = IF is_allocated(c.id) THEN None ELSE c.id]]
    /\ UNCHANGED <<segment, kernel_fds, held, enable_mock, stopped>>

RefersToEvent(h, fd) == h.kind = "link" /\ Is("perf", fd) /\ h.target = fd

\* clear_id_at: a closed perf event or program takes its links with it, a
\* closed map the container of its name, whoever constructed it, unless it
\* is an array of maps or of a type that map_free does not know.
Refers(h, fd) ==
    /\ h.kind = "link"
    /\ \/ Is("perf", fd) /\ h.target = fd
       \/ Is("prog", fd) /\ h.prog = fd

IsKept(name) == IsA(OuterNames \cup OtherNames, name)

map_freeNone(fd) == UNCHANGED segment

map_free(fd) ==
    segment' = IF Is("map", fd) /\ ~IsKept(handlers[fd].name)
                 THEN [segment EXCEPT ![handlers[fd].name] = "none"]
                 ELSE segment

clear_id_atSkipped(fd) == UNCHANGED <<handlers, segment>>
clear_id_atAlone(fd) == /\ handlers' = [handlers EXCEPT ![fd] = unused]
                        /\ map_free(fd)

clear_id_at(fd) ==
    /\ handlers' = [i \in Fds |-> IF i = fd \/ Refers(handlers[i], fd)
                                    THEN unused ELSE handlers[i]]
    /\ map_free(fd)

\* close: the table first, then the kernel.
Close(t) ==
    /\ call[t].pc = "body" /\ call[t].op = "close" /\ ~stopped
    /\ clear_id_at(call[t].fd)
    /\ Goto(t, "orig_close")
    /\ UNCHANGED <<kernel_fds, held, enable_mock, stopped>>

OrigClose(t) ==
    /\ call[t].pc = "orig_close" /\ ~stopped
    /\ kernel_fds' = kernel_fds \ {call[t].fd}
    /\ Return(t)
    /\ UNCHANGED <<handlers, segment, held, enable_mock, stopped>>

\* dup3(map, newfd): a map of the same shape under the new number, for which
\* map_init fails as it did for the first; any other dup3 is the kernel's,
\* and newfd is open before and after it.
Dup3(t) ==
    LET c == call[t] IN
    /\ c.pc = "body" /\ c.op = "dup3" /\ ~stopped
    /\ Len(handlers[c.fd].name) # 2
    /\ IF Is("map", c.fd)
         THEN StoreMap(c.arg, dup_(handlers[c.fd].name), handlers[c.fd].impl)
         ELSE UNCHANGED <<handlers, segment, stopped>>
    /\ Return(t)
    /\ UNCHANGED <<kernel_fds, held, enable_mock>>

----------------------------------------------------------------------------
Step(t) ==
    \/ Enter(t) \/ Started(t) \/ PassThrough(t)
    \/ Create(t) \/ OpenFile(t) \/ NoFdLeft(t) \/ CheckAttach(t)
    \/ StoreAttach(t) \/ LinkCreate(t) \/ LinkStore(t) \/ Close(t)
    \/ OrigClose(t) \/ Dup3(t)

\* Nothing is said of the process once it has stopped.
Dead == stopped /\ UNCHANGED vars

Next == Dead \/ \E t \in Threads : Step(t)

Spec == Init /\ [][Next]_vars

\* An application whose calls all come from one thread.
SingleThread == \A t, u \in Threads : t = u

----------------------------------------------------------------------------
(* Properties *)

Idle == \A t \in Threads : call[t].pc = "app"

\* A link in the table names a program that is in the table, and one made by
\* attach_perf_to_bpf also a perf event that is: clear_id_at removes the
\* links of what it removes, so that the agent never instantiates a link to a
\* closed, or meanwhile reused, number.
LinksLive ==
    \A fd \in Fds : Is("link", fd) =>
       /\ Is("prog", handlers[fd].prog)
       /\ handlers[fd].born # "link" => Is("perf", handlers[fd].target)

\* A handler sits at a number the process has open: otherwise the kernel
\* gives the number to the next open_fake_fd, set_handler answers -EEXIST
\* and a creation fails that should not.
KernelBacked == \A fd \in Fds : is_allocated(fd) => fd \in kernel_fds

\* With several threads a handler comes to sit at a number that is not open
\* only when the application's close of that number went past the table, to
\* the kernel, while another thread was in try_startup: close takes the
\* handler out before it gives the number back.  (The duplicates of dup3 are
\* left out: the application may close their number while dup3 runs.)
Stranded == {fd \in Fds : /\ is_allocated(fd) /\ fd \notin kernel_fds
                          /\ Len(handlers[fd].name) # 2}

StrandedByPassedClose ==
    [][Stranded' \subseteq Stranded \/ \E t \in Threads : PassThrough(t)]_vars

\* A container of shared memory belongs to a map handler: map_free runs on
\* every way a map handler goes (arrays of maps, which it leaves alone,
\* aside).  It belongs to exactly one, which has it as long as it lives, but
\* for ring buffers: closing one that map_init refused frees, by its name, the
\* container of another.
Owns(fd, name) ==
    Is("map", fd) /\ handlers[fd].impl /\ handlers[fd].name = name

ContainersOwned ==
    \A name \in MapNames :
       /\ ~IsA(RingNames, name) =>
            /\ \A f, g \in Fds : Owns(f, name) /\ Owns(g, name) => f = g
            /\ \A f \in Fds : Owns(f, name) => segment[name] # "none"
       /\ ~IsKept(name) /\ segment[name] # "none" =>
             \E f \in Fds : Owns(f, name)

\* When the application has closed everything it ever got, the table is
\* empty: also the links it was never told of are gone.
NothingLeft == (held = {} /\ Idle) => \A fd \in Fds : ~is_allocated(fd)

\* No call changes the handler at a descriptor the application holds, but for
\* a link, which goes with its program or perf event, and the descriptor that
\* dup3 turns into a map.
HeldUntouched ==
    [][\A fd \in held \cap held' :
          handlers[fd] # handlers'[fd] => handlers[fd].kind \in {"unused", "link"}]_vars
=============================================================================
