------------------------------- MODULE Broker -------------------------------
(***************************************************************************)
(* The forkserver broker behind start_method="forkserver": the preload     *)
(* list a ProcessSandbox adds to, the record of what the broker loaded,    *)
(* and the recovery of a process forked from one that had a broker         *)
(* (sandtrap/process/sandbox.py).  The list, the broker's pid and its lock *)
(* belong to multiprocessing.forkserver, one set per process, copied by    *)
(* fork; what start() does with them is modelled from that use.            *)
(*                                                                         *)
(* A thread starts workers, one after the other, each for a sandbox with   *)
(* its own grants, and other code of the process starts some of its own.   *)
(* The host process may fork one child, and any start may raise.           *)
(***************************************************************************)
EXTENDS Integers, FiniteSets, Sequences

CONSTANTS HostThreads, ChildThreads,  \* the threads that start workers
          Grants,      \* modules sandboxes may ask to preload
          MaxStarts,   \* bound: workers asked for altogether
          Crashes,     \* whether a broker may die
          ForksAnytime \* whether the host may fork inside a broker operation

ASSUME BrokerAssumption ==
    /\ HostThreads \cap ChildThreads = {}
    /\ {"free", "orphan", "other"} \cap (HostThreads \cup ChildThreads) = {}
    /\ MaxStarts \in Nat
    /\ Crashes \in BOOLEAN /\ ForksAnytime \in BOOLEAN

Threads == HostThreads \cup ChildThreads
Procs   == {"host", "child"}
Modules == {"__main__", "embedder", "sandtrap"} \cup Grants
NoRecord == [owner |-> "none", broker |-> 0, names |-> {}]

VARIABLES
    procs,    \* the processes there are
    list,     \* _forkserver._preload_modules, per process
    server,   \* _forkserver._forkserver_pid, per process, 0 for None
    lock,     \* _forkserver._lock: "free", a thread, "other" for other code
              \* of the process, or "orphan", held by nobody it has
    record,   \* _BROKER_PRELOAD, per process
    brokers,  \* per broker: who started it, whether sandtrap did, whether
              \* that start came to record it, what it loaded, if it runs
    held,     \* the brokers whose alive descriptor each process has
    asked,    \* every name on a process's list, or asked for there
    starts,   \* workers asked for so far
    pc, read, want, warned, via   \* per thread

brokerVars == <<procs, list, server, lock, record, brokers, held, asked,
          pc, read, want, warned, via, starts>>
shared == <<procs, list, server, lock, record, brokers, held, asked>>

Proc(t) == IF t \in HostThreads THEN "host" ELSE "child"

BrokerTypeOK ==
    /\ procs \subseteq Procs
    /\ list \in [Procs -> SUBSET Modules]
    /\ server \in [Procs -> 0..Len(brokers)]
    /\ lock \in [Procs -> Threads \cup {"free", "orphan", "other"}]
    /\ record \in [Procs -> [owner : Procs \cup {"none"}, broker : 0..Len(brokers),
                             names : SUBSET Modules]]
    /\ brokers \in Seq([parent : Procs, ours : BOOLEAN, vouched : BOOLEAN,
                        up : BOOLEAN, loaded : SUBSET Modules])
    /\ held \in [Procs -> SUBSET (1..Len(brokers))]
    /\ asked \in [Procs -> SUBSET Modules]
    /\ pc \in [Threads -> {"idle", "apply", "start", "broker", "reset",
                           "retry", "again", "refused", "record"}]
    /\ read \in [Threads -> SUBSET Modules]
    /\ want \in [Threads -> SUBSET Modules]
    /\ warned \in [Threads -> SUBSET Modules]
    /\ via \in [Threads -> 0..Len(brokers)] /\ starts \in 0..MaxStarts

(* The host's list has multiprocessing's default and, perhaps, a preload   *)
(* of the embedder's own.                                                  *)
BrokerInit ==
    /\ procs = {"host"}
    /\ list \in {[p \in Procs |-> l] : l \in {{"__main__"}, {"__main__", "embedder"}}}
    /\ server = [p \in Procs |-> 0] /\ lock = [p \in Procs |-> "free"]
    /\ record = [p \in Procs |-> NoRecord]
    /\ brokers = <<>> /\ held = [p \in Procs |-> {}] /\ asked = list
    /\ pc = [t \in Threads |-> "idle"] /\ starts = 0
    /\ read = [t \in Threads |-> {}] /\ want = [t \in Threads |-> {}]
    /\ warned = [t \in Threads |-> {}] /\ via = [t \in Threads |-> 0]

Goto(t, l) == pc' = [pc EXCEPT ![t] = l]

-----------------------------------------------------------------------------
(* Mutant of ActivePreload: a record inherited through fork is believed.   *)
ActivePreloadInherited(p) ==
    {record[p].names : x \in {b \in {server[p]} : b # 0}}

(* _active_broker_preload(): what the broker loaded, as the one element of *)
(* a set, or nothing when this process cannot vouch for the broker it has. *)
ActivePreload(p) ==
    {r.names : r \in {r \in {record[p]} : r.owner = p /\ r.broker = server[p]}}

(* _forkserver_preload_names(): sandtrap always and, when the sandbox      *)
(* opted in, its grants under their real names.                            *)
PreloadNames(g) == {"sandtrap"} \cup g

(* A worker is needed: the names it wants preloaded, and the list as it    *)
(* stands.                                                                 *)
ReadList(t) ==
    /\ pc[t] \in {"idle", "refused"} /\ starts < MaxStarts /\ Proc(t) \in procs
    /\ \E g \in SUBSET Grants : want' = [want EXCEPT ![t] = PreloadNames(g)]
    /\ read' = [read EXCEPT ![t] = list[Proc(t)]]
    /\ starts' = starts + 1
    /\ via' = [via EXCEPT ![t] = 0] /\ warned' = [warned EXCEPT ![t] = {}]
    /\ Goto(t, "apply")
    /\ UNCHANGED shared

(* Mutant of Merged: this sandbox's names replace the list.                *)
MergedOwn(t) == want[t]

(* The list that was read and the names wanted.                            *)
Merged(t) == read[t] \cup want[t]

(* Mutant of Missing: what this call would add to the list.                *)
MissingFromList(t) ==
    UNION {want[t] \ read[t] : loaded \in ActivePreload(Proc(t))}

(* What a worker of the running broker will have to import itself.         *)
Missing(t) == UNION {want[t] \ loaded : loaded \in ActivePreload(Proc(t))}

(* _apply_forkserver_preload(): warn of what the running broker lacks, and *)
(* add the names to the list that was read.                                *)
Apply(t) ==
    LET p == Proc(t) IN
    /\ pc[t] = "apply"
    /\ warned' = [warned EXCEPT ![t] = Missing(t)]
    /\ list' = IF Merged(t) # read[t] THEN [list EXCEPT ![p] = Merged(t)] ELSE list
    /\ asked' = [asked EXCEPT ![p] = @ \cup want[t]]
    /\ read' = [read EXCEPT ![t] = {}]
    /\ Goto(t, "start")
    /\ UNCHANGED <<procs, server, lock, record, brokers, held,
                   want, via, starts>>

(* start() takes the broker's lock...                                      *)
StartLocks(t) ==
    /\ pc[t] \in {"start", "retry"} /\ lock[Proc(t)] = "free"
    /\ lock' = [lock EXCEPT ![Proc(t)] = t]
    /\ Goto(t, IF pc[t] = "retry" THEN "again" ELSE "broker")
    /\ UNCHANGED <<procs, list, server, record, brokers, held, asked,
                   read, want, warned, via, starts>>

InBroker(t) == pc[t] \in {"broker", "again"}

(* Mutant of Released: the lock is left as it is.                          *)
ReleasedNever(t) == lock

(* The lock as it is when a thread lets go of the one it took, which       *)
(* _reset_inherited_forkserver may have replaced.                          *)
Released(t) ==
    IF lock[Proc(t)] = t THEN [lock EXCEPT ![Proc(t)] = "free"] ELSE lock

IsOwn(p) == server[p] # 0 /\ brokers[server[p]].parent = p

(* A broker is started: it loads the list as it stands.                    *)
NewBroker(p, ours) ==
    /\ server[p] = 0 \/ (IsOwn(p) /\ ~brokers[server[p]].up)
    /\ brokers' = Append(brokers, [parent |-> p, ours |-> ours, vouched |-> ours,
                                   up |-> TRUE, loaded |-> list[p]])
    /\ server' = [server EXCEPT ![p] = Len(brokers')]
    /\ held' = [held EXCEPT ![p] = (@ \ {server[p]}) \cup {Len(brokers')}]

(* ...and starts a broker, if there is none or it is dead...               *)
StartsBroker(t) ==
    /\ InBroker(t) /\ NewBroker(Proc(t), TRUE)
    /\ via' = [via EXCEPT ![t] = Len(brokers')]
    /\ lock' = Released(t) /\ Goto(t, "record")
    /\ UNCHANGED <<procs, list, record, asked, read, want, warned, starts>>

(* ...or forks the worker from the one this process runs...                *)
ReusesBroker(t) ==
    LET p == Proc(t) IN
    /\ InBroker(t) /\ IsOwn(p) /\ brokers[server[p]].up
    /\ via' = [via EXCEPT ![t] = server[p]]
    /\ lock' = Released(t) /\ Goto(t, "record")
    /\ UNCHANGED <<procs, list, server, record, brokers, held, asked,
                   read, want, warned, starts>>

(* Mutant of Inherited: a broker nothing is recorded of is taken for one.  *)
InheritedUnrecorded(p) == server[p] # 0 /\ record[p].owner # p

Inherited(p) == server[p] # 0 /\ ~IsOwn(p)

(* ...or raises ChildProcessError: the broker is another process's child.  *)
(* A second one is let out.                                                *)
RefusesBroker(t) ==
    /\ InBroker(t) /\ Inherited(Proc(t))
    /\ lock' = Released(t)
    /\ Goto(t, IF pc[t] = "again" THEN "refused" ELSE "reset")
    /\ UNCHANGED <<procs, list, server, record, brokers, held, asked,
                   read, want, warned, via, starts>>

(* Mutant of ResetState: the inherited pid stays.                          *)
ResetStateKeepsPid(p) ==
    /\ record' = [record EXCEPT ![p] = NoRecord]
    /\ held' = [held EXCEPT ![p] = @ \ {server[p]}]
    /\ UNCHANGED server
    /\ lock' = [lock EXCEPT ![p] = "free"]

(* What _reset_inherited_forkserver() drops, lock included.                *)
ResetState(p) ==
    /\ record' = [record EXCEPT ![p] = NoRecord]
    /\ held' = [held EXCEPT ![p] = @ \ {server[p]}]
    /\ server' = [server EXCEPT ![p] = 0]
    /\ lock' = [lock EXCEPT ![p] = "free"]

(* The inherited state is dropped and start() called again.                *)
Resets(t) ==
    /\ pc[t] = "reset" /\ ResetState(Proc(t))
    /\ Goto(t, "retry")
    /\ UNCHANGED <<procs, list, brokers, asked, read, want, warned, via, starts>>

(* Mutant of Recorded: every worker start records the list of the moment.  *)
RecordedAgain(p) ==
    [owner |-> p, broker |-> server[p], names |-> list[p]]

(* _record_broker_preload(): once per broker, the list as it stands.       *)
Recorded(p) ==
    IF server[p] = 0 \/ (record[p].owner = p /\ record[p].broker = server[p])
    THEN record[p]
    ELSE [owner |-> p, broker |-> server[p], names |-> list[p]]

(* The worker is started.                                                  *)
Records(t) ==
    /\ pc[t] = "record"
    /\ record' = [record EXCEPT ![Proc(t)] = Recorded(Proc(t))]
    /\ Goto(t, "idle")
    /\ UNCHANGED <<procs, list, server, lock, brokers, held, asked,
                   read, want, warned, via, starts>>

Unrecorded(p) ==
    server[p] # 0 /\ ~(record[p].owner = p /\ record[p].broker = server[p])

(* The start raises something else: the warning, made an error; pickling   *)
(* the worker's arguments, before the lock; starting a broker, under it;   *)
(* or reaching the broker that came up, which is then not recorded.        *)
Raises(t) ==
    LET p == Proc(t) IN
    /\ pc[t] \in {"apply", "start", "retry", "broker", "again", "record"}
    /\ lock' = Released(t) /\ Goto(t, "idle")
    /\ brokers' = IF pc[t] = "record" /\ Unrecorded(p)
                  THEN [brokers EXCEPT ![server[p]].vouched = FALSE] ELSE brokers
    /\ read' = [read EXCEPT ![t] = {}] /\ via' = [via EXCEPT ![t] = 0]
    /\ UNCHANGED <<procs, list, server, record, held, asked, want, warned, starts>>

-----------------------------------------------------------------------------
(* The host forks: the child has its memory, its descriptors, and only the *)
(* thread that forked.                                                     *)
Fork ==
    /\ procs = {"host"} /\ ChildThreads # {}
    /\ ForksAnytime \/ lock["host"] = "free"
    /\ procs' = Procs
    /\ list' = [list EXCEPT !["child"] = list["host"]]
    /\ asked' = [asked EXCEPT !["child"] = asked["host"]]
    /\ server' = [server EXCEPT !["child"] = server["host"]]
    /\ record' = [record EXCEPT !["child"] = record["host"]]
    /\ held' = [held EXCEPT !["child"] = held["host"]]
    /\ lock' = [lock EXCEPT !["child"] =
                   IF lock["host"] = "free" THEN "free" ELSE "orphan"]
    /\ UNCHANGED <<brokers, pc, read, want, warned, via, starts>>

(* Other code of a process starts a forkserver worker of its own: it takes *)
(* the lock...                                                             *)
ForeignLocks(p) ==
    /\ p \in procs /\ lock[p] = "free" /\ starts < MaxStarts
    /\ lock' = [lock EXCEPT ![p] = "other"] /\ starts' = starts + 1
    /\ UNCHANGED <<procs, list, server, record, brokers, held, asked,
                   pc, read, want, warned, via>>

ForeignReleases(p) ==
    lock' = IF lock[p] = "other" THEN [lock EXCEPT ![p] = "free"] ELSE lock

(* ...starts a broker if it must...                                        *)
ForeignStart(p) ==
    /\ p \in procs /\ lock[p] = "other"
    /\ NewBroker(p, FALSE) /\ ForeignReleases(p)
    /\ UNCHANGED <<procs, list, record, asked,
                   pc, read, want, warned, via, starts>>

(* ...or only lets go of the lock: the broker runs, or is refused.         *)
ForeignEnds(p) ==
    /\ lock[p] = "other" /\ ForeignReleases(p)
    /\ UNCHANGED <<procs, list, server, record, brokers, held, asked,
                   pc, read, want, warned, via, starts>>

BrokerDies(b) ==
    /\ Crashes /\ brokers[b].up
    /\ brokers' = [brokers EXCEPT ![b].up = FALSE]
    /\ UNCHANGED <<procs, list, server, lock, record, held, asked,
                   pc, read, want, warned, via, starts>>

StartStep(t) ==
    \/ StartLocks(t) \/ StartsBroker(t) \/ ReusesBroker(t) \/ RefusesBroker(t)
    \/ Resets(t) \/ Records(t)

BrokerNext ==
    \/ \E t \in Threads : ReadList(t) \/ Apply(t) \/ StartStep(t) \/ Raises(t)
    \/ Fork
    \/ \E p \in Procs : ForeignLocks(p) \/ ForeignStart(p) \/ ForeignEnds(p)
    \/ \E b \in DOMAIN brokers : BrokerDies(b)

BrokerSpec == BrokerInit /\ [][BrokerNext]_brokerVars

(* A thread inside start() is scheduled until it is through, other code's  *)
(* too.                                                                    *)
BrokerFairSpec ==
    /\ BrokerSpec
    /\ \A t \in Threads : WF_brokerVars(StartStep(t))
    /\ \A p \in Procs : WF_brokerVars(ForeignEnds(p))

-----------------------------------------------------------------------------
Started(t) == pc[t] = "idle" /\ via[t] # 0

(* The list only grows: neither the embedder's own preload nor what any    *)
(* sandbox of the process asked for is dropped (_apply_forkserver_preload: *)
(* "never let one sandbox shrink another's").                              *)
NeverShrinks == \A p \in procs : asked[p] \subseteq list[p]

(* A record this process believes says exactly what its broker loaded, if  *)
(* a sandbox's start brought that broker up and came to record it          *)
(* (_record_broker_preload).                                               *)
RecordTrue ==
    \A p \in procs : \A names \in ActivePreload(p) :
        server[p] # 0 /\ brokers[server[p]].vouched
            => names = brokers[server[p]].loaded

(* The same for every broker a sandbox's start brought up ("for a broker   *)
(* we just started that is exactly what it imported",                      *)
(* _record_broker_preload).  Not so after a start that raised.             *)
RecordExact ==
    \A p \in procs : \A names \in ActivePreload(p) :
        server[p] # 0 /\ brokers[server[p]].ours
            => names = brokers[server[p]].loaded

Died(p) == \E b \in DOMAIN brokers : brokers[b].parent = p /\ ~brokers[b].up

(* A sandbox is warned of a module only when the broker its worker came    *)
(* from really lacks it, unless a broker of the process has died: a record *)
(* outlives its broker until the next start.  And it is warned of every    *)
(* module it asked for that the broker lacks, unless other code started    *)
(* the broker, or a sandbox's start that then raised.                      *)
WarningsRight ==
    \A t \in Threads : Started(t) =>
        /\ warned[t] \cap brokers[via[t]].loaded = {} \/ Died(Proc(t))
        /\ brokers[via[t]].vouched => want[t] \subseteq brokers[via[t]].loaded \cup warned[t]

(* The recovery lets go of inherited copies only: a process keeps the      *)
(* alive descriptor of a broker it started for as long as that runs.       *)
OwnBrokerKept ==
    \A b \in DOMAIN brokers :
        brokers[b].up => b \in held[brokers[b].parent]

(* A worker start ends, and not by refusing the broker a second time,      *)
(* whoever else uses or dies with the broker; unless this process was      *)
(* forked inside a broker operation and so has the lock with no thread to  *)
(* release it.                                                             *)
StartEnds ==
    \A t \in Threads :
        pc[t] = "start" ~> (pc[t] = "idle" \/ lock[Proc(t)] = "orphan")

(* The same without the exception ("The lock is replaced rather than       *)
(* acquired", _reset_inherited_forkserver).  Not so: start() takes the     *)
(* lock before it can fail and lead there.                                 *)
StartEndsAnyway == \A t \in Threads : pc[t] = "start" ~> pc[t] = "idle"
=============================================================================
