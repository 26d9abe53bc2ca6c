------------------------------- MODULE Spool --------------------------------
(***************************************************************************)
(* Results spooled to files (sandtrap/process/spool.py): the worker writes *)
(* each large value to a file of its own in the sandbox's directory, sends *)
(* the names, and the parent reads a value when it is first asked for.     *)
(* The directory is made when a worker is started and removed by           *)
(* shutdown() (sandtrap/process/sandbox.py); a result outlives both.       *)
(*                                                                         *)
(* Every result has the same set of names; a file is the execution it      *)
(* belongs to and the name, since no two files get the same random name.   *)
(* Small values ride the pipe and are never on disk: they are left out.    *)
(***************************************************************************)
EXTENDS Naturals, FiniteSets

CONSTANTS Values,  \* the names an execution binds to large values
          MaxTurn, \* bound: executions
          MaxDir   \* bound: directories, one per time the sandbox is entered

ASSUME SpoolAssumption == MaxTurn \in Nat /\ MaxDir \in Nat

Turns == 1..MaxTurn
Entry == Turns \X Values

VARIABLES
    entered,  \* _started
    dir,      \* _spool_dir: 0 for None, else its number
    dirs,     \* directories made so far
    disk,     \* the files there are, with the directory each is in
    turn,     \* executions so far; the number of the latest
    worker,   \* "none", "idle", "spooling" or "sent"
    entries,  \* what the running execution has spooled so far
    dropped,  \* and which of its values it could not
    home,     \* per result: its _directory, 0 for none
    names,    \* per result: _entries
    held,     \* per result: whether the embedder still has it
    unread,   \* per result: _files
    values,   \* per result: the names in _values
    refused   \* the reads that raised SpoolClosedError

vars == <<entered, dir, dirs, disk, turn, worker, entries, dropped, home, names,
          held, unread, values, refused>>
resultVars == <<home, names, held, unread, values, refused>>

SpoolTypeOK ==
    /\ entered \in BOOLEAN /\ dir \in 0..MaxDir /\ dirs \in 0..MaxDir
    /\ disk \subseteq (1..MaxDir) \X Turns \X Values
    /\ turn \in 0..MaxTurn /\ worker \in {"none", "idle", "spooling", "sent"}
    /\ entries \subseteq Values /\ dropped \subseteq Values
    /\ home \in [Turns -> 0..MaxDir] /\ held \in [Turns -> BOOLEAN]
    /\ unread \in [Turns -> SUBSET Values] /\ values \in [Turns -> SUBSET Values]
    /\ names \in [Turns -> SUBSET Values]
    /\ refused \subseteq Entry

Init ==
    /\ entered = FALSE /\ dir = 0 /\ dirs = 0 /\ disk = {}
    /\ turn = 0 /\ worker = "none" /\ entries = {} /\ dropped = {}
    /\ home = [t \in Turns |-> 0] /\ held = [t \in Turns |-> FALSE]
    /\ unread = [t \in Turns |-> {}] /\ values = [t \in Turns |-> {}]
    /\ names = [t \in Turns |-> {}] /\ refused = {}

-----------------------------------------------------------------------------
(* A worker is started, and with it the directory, if there is none.       *)
StartWorker ==
    /\ worker = "none"
    /\ dir = 0 => dirs < MaxDir
    /\ entered' = TRUE /\ worker' = "idle"
    /\ dir' = IF dir = 0 THEN dirs + 1 ELSE dir
    /\ dirs' = IF dir = 0 THEN dirs + 1 ELSE dirs
    /\ UNCHANGED <<disk, turn, entries, dropped, resultVars>>

Exec ==
    /\ entered /\ worker = "idle" /\ turn < MaxTurn
    /\ turn' = turn + 1 /\ worker' = "spooling"
    /\ entries' = {} /\ dropped' = {}
    /\ UNCHANGED <<entered, dir, dirs, disk, resultVars>>

Unspooled == Values \ (entries \cup dropped)

(* spool_namespace: a value goes to a file of its own, through finish.     *)
Spools(v) ==
    /\ worker = "spooling" /\ v \in Unspooled
    /\ disk' = disk \cup {<<dir, turn, v>>}
    /\ entries' = entries \cup {v}
    /\ UNCHANGED <<entered, dir, dirs, turn, worker, dropped, resultVars>>

(* Mutant of Discard: the file begun for it stays.                         *)
DiscardNot(v) == disk' = disk \cup {<<dir, turn, v>>}

(* discard: the file begun for it is unlinked.                             *)
Discard(v) == disk' = disk

(* A value that cannot be pickled is dropped.                              *)
Drops(v) ==
    /\ worker = "spooling" /\ v \in Unspooled
    /\ Discard(v)
    /\ dropped' = dropped \cup {v}
    /\ UNCHANGED <<entered, dir, dirs, turn, worker, entries, resultVars>>

(* discard raises itself, when closing the file does: the execution fails, *)
(* what it spooled stays in the directory, and the worker lives.           *)
DiscardRaises(v) ==
    /\ worker = "spooling" /\ v \in Unspooled
    /\ disk' = disk \cup {<<dir, turn, v>>}
    /\ worker' = "idle" /\ entries' = {} /\ dropped' = {}
    /\ UNCHANGED <<entered, dir, dirs, turn, resultVars>>

Sends ==
    /\ worker = "spooling" /\ Unspooled = {}
    /\ worker' = "sent"
    /\ UNCHANGED <<entered, dir, dirs, disk, turn, entries, dropped, resultVars>>

(* _await_result: the embedder gets a SpooledNamespace, from a worker that *)
(* has died since, too.                                                    *)
Receives ==
    /\ worker = "sent"
    /\ worker' \in {"idle", "none"}
    /\ names' = [names EXCEPT ![turn] = entries]
    /\ home' = [home EXCEPT ![turn] = dir]
    /\ held' = [held EXCEPT ![turn] = TRUE]
    /\ unread' = [unread EXCEPT ![turn] = entries]
    /\ entries' = {} /\ dropped' = {}
    /\ UNCHANGED <<entered, dir, dirs, disk, turn, values, refused>>

(* The worker dies, or is killed as unresponsive with its result unread:   *)
(* what it spooled for this execution, or was half through with, stays in  *)
(* the directory.                                                          *)
Dies(v) ==
    /\ worker \in {"idle", "spooling", "sent"}
    /\ disk' = IF worker = "spooling" /\ v \in Unspooled
               THEN disk \cup {<<dir, turn, v>>} ELSE disk
    /\ worker' = "none" /\ entries' = {} /\ dropped' = {}
    /\ UNCHANGED <<entered, dir, dirs, turn, resultVars>>

-----------------------------------------------------------------------------
(* Mutant of Kept: a value that was read is not kept.                      *)
KeptNot(t, v) == UNCHANGED values

(* A value read once is kept.                                              *)
Kept(t, v) == values' = [values EXCEPT ![t] = @ \cup {v}]

Reads(t, v) == held[t] /\ v \in names[t] /\ v \notin values[t]

(* __getitem__, under its lock: the file is read, and removed; one that is *)
(* gone raises SpoolClosedError, again each time.                          *)
Read(t, v) ==
    /\ Reads(t, v) /\ <<home[t], t, v>> \in disk
    /\ Kept(t, v)
    /\ unread' = [unread EXCEPT ![t] = @ \ {v}]
    /\ disk' = disk \ {<<home[t], t, v>>}
    /\ UNCHANGED <<entered, dir, dirs, turn, worker, entries, dropped, home,
                   names, held, refused>>

ReadRefused(t, v) ==
    /\ Reads(t, v) /\ <<home[t], t, v>> \notin disk
    /\ refused' = refused \cup {<<t, v>>}
    /\ UNCHANGED <<entered, dir, dirs, disk, turn, worker, entries, dropped,
                   home, names, held, unread, values>>

(* The files of values never read.                                         *)
Removed(t) == {<<home[t], t, v>> : v \in unread[t]}

(* The mapping is let go: its finalizer removes them.                      *)
LetGo(t) ==
    /\ held[t]
    /\ held' = [held EXCEPT ![t] = FALSE]
    /\ disk' = disk \ Removed(t)
    /\ unread' = [unread EXCEPT ![t] = {}]
    /\ UNCHANGED <<entered, dir, dirs, turn, worker, entries, dropped, home,
                   names, values, refused>>

(* Mutant of Emptied: only the files of results still held go.             *)
EmptiedHeld(d) == {f \in disk : f[1] = d /\ held[f[2]]}

(* rmtree of the directory: everything in it.                              *)
Emptied(d) == {f \in disk : f[1] = d}

(* shutdown(): the worker is gone, and then the directory.                 *)
Shutdown ==
    /\ worker \in {"none", "idle"} /\ entered
    /\ entered' = FALSE /\ worker' = "none"
    /\ disk' = disk \ Emptied(dir)
    /\ dir' = 0
    /\ UNCHANGED <<dirs, turn, entries, dropped, resultVars>>

Next ==
    \/ StartWorker \/ Exec \/ Sends \/ Receives \/ Shutdown
    \/ \E v \in Values : Spools(v) \/ Drops(v) \/ DiscardRaises(v) \/ Dies(v)
    \/ \E t \in Turns : LetGo(t)
    \/ \E t \in Turns, v \in Values : Read(t, v) \/ ReadRefused(t, v)

Spec == Init /\ [][Next]_vars

-----------------------------------------------------------------------------
(* A value stays readable for as long as its result is held and the        *)
(* sandbox it came from stays open, whichever workers come and go: a read  *)
(* is refused only once that sandbox has closed.                           *)
RefusedOnlyClosed == [][\A e \in refused' \ refused : home[e[1]] # dir]_vars

(* No file outlives its use.  Closing a sandbox leaves none, those of a    *)
(* crashed worker and of results still held included; and of an execution  *)
(* whose result was received, the file of a value that was read, dropped,  *)
(* or let go unread is gone before that.  (What a worker left that died,   *)
(* or that failed in discarding a file, stays until the sandbox closes.)   *)
NoFileOutlives ==
    /\ \A f \in disk : f[1] = dir
    /\ \A t \in Turns : home[t] # 0 =>
          {f \in disk : f[2] = t} \subseteq {<<home[t], t, v>> : v \in unread[t]}

(* "A value that fails part-way leaves no file behind" (spool_namespace):  *)
(* a file a live worker leaves is a value's.  Not so if closing it fails.  *)
NoPartWayFile ==
    [][worker # "none" /\ worker' # "none" => \A f \in disk' \ disk : f[3] \in entries']_vars
=============================================================================
