------------------------------ MODULE ForkFds ------------------------------
(***************************************************************************)
(* What a worker inherits (sandtrap/process/sandbox.py): the control pipe, *)
(* the registry of the host's ends, close_fds, and what _worker_entry lets *)
(* go of before it serves.                                                 *)
(*                                                                         *)
(* A process is its descriptor table, a function from numbers to what they *)
(* name; fork copies it, and a new descriptor takes the lowest free number.*)
(* Every start runs on a thread of its own, as those of two sandboxes do   *)
(* under aexec(), and other threads of the host open and close files.  The *)
(* bootstrap descriptors multiprocessing adds inside start() are like the  *)
(* pipe's, taken after the snapshot, and are left out.                     *)
(***************************************************************************)
EXTENDS Integers, FiniteSets

CONSTANTS MaxWorkers,  \* bound: the workers started
          Ambient,     \* files the host's other code opens, each once
          Fds          \* bound: descriptor numbers above the standard streams

(* Numbered in the order their starts begin.                               *)
Workers == 1..MaxWorkers

ASSUME ForkFdsAssumption ==
    /\ MaxWorkers \in Nat /\ IsFiniteSet(Ambient)
    /\ Fds \subseteq Nat /\ IsFiniteSet(Fds)
    /\ Cardinality(Fds) > 2 * MaxWorkers + Cardinality(Ambient)

Free  == <<>>
Null  == <<"null">>                 \* /dev/null
File(a)      == <<"file", a>>
ParentEnd(w) == <<"parent", w>>
ChildEnd(w)  == <<"child", w>>
Ends    == {ParentEnd(w) : w \in Workers} \cup {ChildEnd(w) : w \in Workers}
Files   == {File(a) : a \in Ambient}
Objects == {Free, Null} \cup Ends \cup Files
Empty   == [n \in Fds |-> Free]
NoPlan  == [forking |-> FALSE, closes |-> FALSE]

Open(t)       == {n \in Fds : t[n] # Free}
Named(t, objs) == {n \in Fds : t[n] \in objs}
Close(t, ns)  == [n \in Fds |-> IF n \in ns THEN Free ELSE t[n]]
Lowest(t)     == CHOOSE n \in Fds \ Open(t) : \A m \in Fds \ Open(t) : n <= m
Holds(t, obj) == \E n \in Fds : t[n] = obj

VARIABLES
    host,      \* the host's table
    up,        \* whether the host runs
    made,      \* the files the host has opened
    registry,  \* _PARENT_CONNECTIONS
    step,      \* per worker: how far the host is with its start
    plan,      \* per worker: [forking, closes], start_method and close_fds
    fds,       \* per worker: inherited_fds
    conns,     \* per worker: parent_connections
    table,     \* per worker: its table
    child,     \* per worker: where the worker is
    known,     \* per worker: the numbers of parent_connections open at the fork
    wrappers,  \* per worker: numbers the copied file objects remember
    opened,    \* ghost, per worker: another thread opened descriptors, or had
               \* a pipe unregistered, between this start's snapshot and fork
    closed     \* ghost, per worker: another thread closed one between them

hostside  == <<host, up, made, registry, step, plan, fds, conns>>
childside == <<table, child, known, wrappers>>
ghosts    == <<opened, closed>>
vars      == <<hostside, childside, ghosts>>

Steps  == {"off", "snapped", "piped", "registered", "listed", "forked", "on",
           "dropping", "gone"}
Stages == {"none", "born", "closed", "idle", "busy", "dead"}

ForkFdsTypeOK ==
    /\ host \in [Fds -> Objects] /\ up \in BOOLEAN /\ made \subseteq Ambient
    /\ registry \subseteq Workers /\ step \in [Workers -> Steps]
    /\ plan \in [Workers -> [forking : BOOLEAN, closes : BOOLEAN]]
    /\ fds \in [Workers -> SUBSET Fds] /\ conns \in [Workers -> SUBSET Workers]
    /\ table \in [Workers -> [Fds -> Objects]] /\ child \in [Workers -> Stages]
    /\ known \in [Workers -> SUBSET Fds] /\ wrappers \in [Workers -> SUBSET Fds]
    /\ opened \in [Workers -> BOOLEAN] /\ closed \in [Workers -> BOOLEAN]

Init ==
    /\ host = Empty /\ up = TRUE /\ made = {} /\ registry = {}
    /\ step = [w \in Workers |-> "off"]
    /\ plan = [w \in Workers |-> NoPlan]
    /\ fds = [w \in Workers |-> {}] /\ conns = [w \in Workers |-> {}]
    /\ table = [w \in Workers |-> Empty] /\ child = [w \in Workers |-> "none"]
    /\ known = [w \in Workers |-> {}] /\ wrappers = [w \in Workers |-> {}]
    /\ opened = [w \in Workers |-> FALSE] /\ closed = [w \in Workers |-> FALSE]

(* A start's window runs from its snapshot to its fork.                    *)
InWindow(w)   == step[w] \in {"snapped", "piped", "registered", "listed"}
Unfinished(w) == step[w] \in {"piped", "registered", "listed", "forked"}
Note(g, w)    == [v \in Workers |-> g[v] \/ (InWindow(v) /\ v # w)]

---------------------------------------------------------------------------
(* The host's other code.                                                  *)

AmbientOpens(a) ==
    /\ up /\ a \notin made
    /\ made' = made \cup {a}
    /\ host' = [host EXCEPT ![Lowest(host)] = File(a)]
    /\ opened' = [v \in Workers |-> opened[v] \/ InWindow(v)]
    /\ UNCHANGED <<up, registry, step, plan, fds, conns, childside, closed>>

AmbientCloses(n) ==
    /\ up /\ host[n] \in Files
    /\ host' = Close(host, {n})
    /\ closed' = [v \in Workers |-> closed[v] \/ InWindow(v)]
    /\ UNCHANGED <<up, made, registry, step, plan, fds, conns, childside, opened>>

(* The host dies, its memory goes and the kernel closes what it had.       *)
HostDies ==
    /\ up /\ up' = FALSE /\ host' = Empty
    /\ made' = {} /\ registry' = {} /\ conns' = [w \in Workers |-> {}]
    /\ step' = [w \in Workers |-> "gone"]
    /\ UNCHANGED <<plan, fds, childside, ghosts>>

---------------------------------------------------------------------------
(* _ensure_worker, from the snapshot to the parent's close of child_conn.  *)

Advance(w, s) == step' = [step EXCEPT ![w] = s]

(* Mutant of Snapshot: taken whatever the start method.                    *)
SnapshotAnyMethod(p) == IF p.closes THEN Open(host) ELSE {}

(* inherited_fds: every open number above the standard streams, if they    *)
(* are to be closed and the worker is forked.                              *)
Snapshot(p) == IF p.closes /\ p.forking THEN Open(host) ELSE {}

Snap(w, p) ==
    /\ up /\ step[w] = "off" /\ \A v \in 1..(w - 1) : step[v] # "off"
    /\ plan' = [plan EXCEPT ![w] = p]
    /\ fds' = [fds EXCEPT ![w] = Snapshot(p)]
    /\ opened' = [opened EXCEPT ![w] = \E v \in Workers \ {w} : Unfinished(v)]
    /\ Advance(w, "snapped")
    /\ UNCHANGED <<host, up, made, registry, conns, childside, closed>>

MakePipe(w) ==
    /\ up /\ step[w] = "snapped"
    /\ LET p == Lowest(host)
           c == Lowest([host EXCEPT ![p] = ParentEnd(w)])
       IN  host' = [host EXCEPT ![p] = ParentEnd(w), ![c] = ChildEnd(w)]
    /\ opened' = Note(opened, w)
    /\ Advance(w, "piped")
    /\ UNCHANGED <<up, made, registry, plan, fds, conns, childside, closed>>

(* Mutant of Registers: only a forked worker's connection is.              *)
RegistersForked(w) == plan[w].forking

(* Every connection is registered, whatever its worker's start method.     *)
Registers(w) == TRUE

Register(w) ==
    /\ up /\ step[w] = "piped"
    /\ registry' = IF Registers(w) THEN registry \cup {w} ELSE registry
    /\ Advance(w, "registered")
    /\ UNCHANGED <<host, up, made, plan, fds, conns, childside, ghosts>>

(* Mutant of List: taken before its own connection was added.              *)
ListSiblings(w) ==
    /\ up /\ step[w] = "registered"
    /\ conns' = [conns EXCEPT ![w] = IF plan[w].forking THEN registry \ {w} ELSE {}]
    /\ Advance(w, "listed")
    /\ UNCHANGED <<host, up, made, registry, plan, fds, childside, ghosts>>

List(w) ==
    /\ up /\ step[w] = "registered"
    /\ conns' = [conns EXCEPT ![w] = IF plan[w].forking THEN registry ELSE {}]
    /\ Advance(w, "listed")
    /\ UNCHANGED <<host, up, made, registry, plan, fds, childside, ghosts>>

(* The numbers of connections; one this process has closed has none.       *)
NumbersOf(vs) == Named(host, {ParentEnd(v) : v \in vs})

(* start(): a forked child gets the whole table, less the files at-fork    *)
(* hooks close; a worker of the broker gets its end of the pipe only.      *)
Start(w, hooked) ==
    /\ up /\ step[w] = "listed"
    /\ hooked \subseteq Named(host, Files)
    /\ IF plan[w].forking
       THEN /\ table' = [table EXCEPT ![w] = Close(host, hooked)]
            /\ known' = [known EXCEPT ![w] = NumbersOf(conns[w])]
            /\ wrappers' = [wrappers EXCEPT ![w] = Named(host, Files) \ hooked]
       ELSE /\ hooked = {}
            /\ table' = [table EXCEPT ![w][Lowest(Empty)] = ChildEnd(w)]
            /\ UNCHANGED <<known, wrappers>>
    /\ child' = [child EXCEPT ![w] = "born"]
    /\ conns' = [conns EXCEPT ![w] = {}]
    /\ Advance(w, "forked")
    /\ UNCHANGED <<host, up, made, registry, plan, fds, ghosts>>

(* start() raises: the connection leaves the registry and both ends close. *)
StartFails(w) ==
    /\ up /\ step[w] = "listed"
    /\ registry' = registry \ {w}
    /\ host' = Close(host, Named(host, {ParentEnd(w), ChildEnd(w)}))
    /\ closed' = Note(closed, w)
    /\ fds' = [fds EXCEPT ![w] = {}] /\ conns' = [conns EXCEPT ![w] = {}]
    /\ Advance(w, "gone")
    /\ UNCHANGED <<up, made, plan, childside, opened>>

ClosesChildEnd(w) ==
    /\ up /\ step[w] = "forked"
    /\ host' = Close(host, Named(host, {ChildEnd(w)}))
    /\ closed' = Note(closed, w)
    /\ Advance(w, "on")
    /\ UNCHANGED <<up, made, registry, plan, fds, conns, childside, opened>>

(* _cleanup of a worker that is dead, or that _kill() has just killed.     *)
ClosesConn(w) ==
    /\ up /\ step[w] = "on" /\ child[w] = "dead"
    /\ host' = Close(host, Named(host, {ParentEnd(w)}))
    /\ closed' = Note(closed, w)
    /\ Advance(w, "dropping")
    /\ UNCHANGED <<up, made, registry, plan, fds, conns, childside, opened>>

Unregister(w) ==
    /\ up /\ step[w] = "dropping"
    /\ registry' = registry \ {w}
    /\ Advance(w, "gone")
    /\ UNCHANGED <<host, up, made, plan, fds, conns, childside, ghosts>>

---------------------------------------------------------------------------
(* The worker: _worker_entry, then the message loop.                       *)

Becomes(w, s) == child' = [child EXCEPT ![w] = s]

(* Closes its copies of the host's ends, its own pipe's included.          *)
ClosesCopies(w) ==
    /\ child[w] = "born"
    /\ table' = [table EXCEPT ![w] = Close(table[w], known[w])]
    /\ known' = [known EXCEPT ![w] = {}]
    /\ Becomes(w, "closed")
    /\ UNCHANGED <<hostside, wrappers, ghosts>>

(* Mutants of Neutralized: closed instead; given up when /dev/null takes   *)
(* one of the numbers.                                                     *)
NeutralizedCloses(t, ns) == Close(t, ns)
NeutralizedUnlessTaken(t, ns) ==
    IF Lowest(t) \in ns THEN t ELSE [n \in Fds |-> IF n \in ns THEN Null ELSE t[n]]

(* _neutralize_inherited_fds(ns) on table t: /dev/null is put over all of  *)
(* ns.  The number it was opened with is one of them, or given back.       *)
Neutralized(t, ns) == [n \in Fds |-> IF n \in ns THEN Null ELSE t[n]]

Neutralizes(w) ==
    /\ child[w] = "closed"
    /\ table' = [table EXCEPT ![w] = Neutralized(table[w], fds[w])]
    /\ fds' = [fds EXCEPT ![w] = {}]
    /\ Becomes(w, "idle")
    /\ UNCHANGED <<host, up, made, registry, step, plan, conns, known, wrappers, ghosts>>

Serving(w) == child[w] \in {"idle", "busy"}

(* A file object copied by the fork is collected and closes its number.    *)
WrapperDies(w, n) ==
    /\ Serving(w) /\ n \in wrappers[w]
    /\ wrappers' = [wrappers EXCEPT ![w] = @ \ {n}]
    /\ table' = [table EXCEPT ![w] = Close(table[w], {n})]
    /\ UNCHANGED <<hostside, child, known, ghosts>>

(* An ExecMsg sets it to work, for as long as the code takes.              *)
Works(w) ==
    /\ up /\ step[w] = "on" /\ child[w] = "idle"
    /\ Becomes(w, "busy")
    /\ UNCHANGED <<hostside, table, known, wrappers, ghosts>>

Done(w) ==
    /\ child[w] = "busy"
    /\ Becomes(w, "idle")
    /\ UNCHANGED <<hostside, table, known, wrappers, ghosts>>

(* The worker's end: its table and all its memory go.                      *)
Exits(w) ==
    /\ Becomes(w, "dead") /\ table' = [table EXCEPT ![w] = Empty]
    /\ wrappers' = [wrappers EXCEPT ![w] = {}] /\ known' = [known EXCEPT ![w] = {}]
    /\ fds' = [fds EXCEPT ![w] = {}] /\ plan' = [plan EXCEPT ![w] = NoPlan]
    /\ opened' = [opened EXCEPT ![w] = FALSE] /\ closed' = [closed EXCEPT ![w] = FALSE]
    /\ UNCHANGED <<host, up, made, registry, step, conns>>

HasChannel(w) == Holds(table[w], ChildEnd(w))

(* recv() meets end of file: nobody has the other end of its pipe, or the  *)
(* number names something else.                                            *)
SeesEof(w) ==
    /\ child[w] = "idle"
    /\ HasChannel(w) => /\ ~Holds(host, ParentEnd(w))
                        /\ \A v \in Workers : ~Holds(table[v], ParentEnd(w))
    /\ Exits(w)

(* A crash, a kill by the host, or a failure of _worker_entry.             *)
Dies(w) == child[w] \notin {"none", "dead"} /\ Exits(w)

Next ==
    \/ \E a \in Ambient : AmbientOpens(a)
    \/ \E n \in Fds : AmbientCloses(n)
    \/ HostDies
    \/ \E w \in Workers :
          \/ \E p \in [forking : BOOLEAN, closes : BOOLEAN] : Snap(w, p)
          \/ MakePipe(w) \/ Register(w) \/ List(w) \/ StartFails(w)
          \/ \E hooked \in SUBSET Fds : Start(w, hooked)
          \/ ClosesChildEnd(w) \/ ClosesConn(w) \/ Unregister(w)
          \/ ClosesCopies(w) \/ Neutralizes(w)
          \/ \E n \in Fds : WrapperDies(w, n)
          \/ Works(w) \/ Done(w) \/ SeesEof(w) \/ Dies(w)

Spec == Init /\ [][Next]_vars

(* A worker's entry and its read of an ended pipe need nobody else; code   *)
(* it runs may take for ever.                                              *)
FairSpec ==
    /\ Spec
    /\ \A w \in Workers : WF_vars(ClosesCopies(w)) /\ WF_vars(Neutralizes(w))
                          /\ WF_vars(SeesEof(w))

---------------------------------------------------------------------------
(* A worker that serves has its own end of its pipe, whatever happened to  *)
(* the numbers since the snapshot, unless another thread closed a          *)
(* descriptor between the snapshot and the fork.                           *)
ChannelKept == \A w \in Workers : Serving(w) /\ ~closed[w] => HasChannel(w)

(* A worker that serves has nothing of the host's: no end of any pipe but  *)
(* its own child end, neither of a sibling's, started before or after it,  *)
(* nor the host's end of its own; and under close_fds no open file.  But   *)
(* for what another thread opened during its start.                        *)
NothingOfHosts ==
    \A w \in Workers : Serving(w) /\ ~opened[w] =>
        /\ Named(table[w], Ends \ {ChildEnd(w)}) = {}
        /\ plan[w].closes => Named(table[w], Files) = {}

(* A file object the fork copied can never close anything of the worker's  *)
(* own: as long as it lives its number is taken, by the file it was or by  *)
(* /dev/null, and no other descriptor gets that number.                    *)
StaleCloseHarmless ==
    \A w \in Workers : Serving(w) =>
        \A n \in wrappers[w] : table[w][n] \in {Null} \cup Files

(* When the host dies every worker that is not running code ends, busy     *)
(* siblings or not, if no start overlapped another thread's opens.         *)
IdleOrphanEnds ==
    \A w \in Workers :
        ~up /\ child[w] \in {"born", "closed", "idle"} /\ (\A v \in Workers : ~opened[v])
            ~> child[w] = "dead"
=============================================================================
