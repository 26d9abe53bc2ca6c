----------------------------- MODULE LostWrites -----------------------------
(***************************************************************************)
(* Files written by sandboxed code and what becomes of their content: the  *)
(* buffered file of sandtrap/fs/remote.py (_PushOnClose), whose content    *)
(* reaches the parent's filesystem on flush, close or, for a file left to  *)
(* the garbage collector, from its finalizer; and sandtrap/lost_writes.py, *)
(* which charges a save that fails in a finalizer to an execution.         *)
(*                                                                         *)
(* Content is abstracted to a version: how often the buffer has changed.   *)
(* A push may fail for whatever reason the parent has (a quota, a removed  *)
(* directory, content that cannot be encoded).                             *)
(***************************************************************************)
EXTENDS Naturals, FiniteSets

CONSTANTS Execs,      \* executions, sequential or concurrent
          Files,      \* writable files they open
          MaxVersion  \* bound: changes of one buffer

ASSUME LostWritesAssumption ==
    "nobody" \notin Execs /\ MaxVersion \in Nat \ {0}

VARIABLES
    state,    \* per execution: "new", "running" or "done"
    lost,     \* per execution: its collector's LostWrites._lost
    error,    \* per execution: the error of its result
    hooked,   \* losses that went on to the hook installed before
    file,     \* per file: "none", "open", "cycle" (unreachable) or "closed"
    owner,    \* per file: the execution whose code opened it
    version,  \* per file: the buffer's content
    saved,    \* per file: the version the parent's filesystem has, 0 for none
    raised,   \* per file: _save_raised
    seen,     \* per file: the latest version whose failed save the code saw
    channel   \* _channel["open"], and the interpreter is not finalizing

vars == <<state, lost, error, hooked, file, owner, version, saved, raised,
          seen, channel>>
execVars == <<state, error>>

LostWritesTypeOK ==
    /\ state \in [Execs -> {"new", "running", "done"}]
    /\ lost \in [Execs -> SUBSET Files] /\ hooked \subseteq Files
    /\ error \in [Execs -> {"none", "own", "lost"}]
    /\ file \in [Files -> {"none", "open", "cycle", "closed"}]
    /\ owner \in [Files -> Execs \cup {"nobody"}]
    /\ version \in [Files -> 1..MaxVersion] /\ saved \in [Files -> 0..MaxVersion]
    /\ raised \in [Files -> BOOLEAN] /\ seen \in [Files -> 0..MaxVersion]
    /\ channel \in BOOLEAN

Init ==
    /\ state = [e \in Execs |-> "new"]
    /\ lost = [e \in Execs |-> {}] /\ hooked = {}
    /\ error = [e \in Execs |-> "none"]
    /\ file = [f \in Files |-> "none"] /\ owner = [f \in Files |-> "nobody"]
    /\ version = [f \in Files |-> 1] /\ saved = [f \in Files |-> 0]
    /\ raised = [f \in Files |-> FALSE] /\ seen = [f \in Files |-> 0]
    /\ channel = TRUE

-----------------------------------------------------------------------------
(* collecting(): the hook is in front, and a collector is open.            *)
Begin(e) ==
    /\ channel /\ state[e] = "new"
    /\ state' = [state EXCEPT ![e] = "running"]
    /\ UNCHANGED <<lost, error, hooked, file, owner, version, saved, raised,
                   seen, channel>>

(* RemoteFS.open for writing, once _can_write agreed: the buffer holds     *)
(* content (nothing, or what was read) the parent has yet to be sent.      *)
Open(e, f) ==
    /\ state[e] = "running" /\ file[f] = "none"
    /\ file' = [file EXCEPT ![f] = "open"]
    /\ owner' = [owner EXCEPT ![f] = e]
    /\ UNCHANGED <<execVars, lost, hooked, version, saved, raised, seen, channel>>

Uses(e, f) == state[e] = "running" /\ owner[f] = e /\ file[f] = "open"

(* Mutant of Changed: a change leaves the mark of a failed save in place.  *)
ChangedKeepsMark(f) == UNCHANGED raised

(* _changed: content no failed save has reported yet.                      *)
Changed(f) == raised' = [raised EXCEPT ![f] = FALSE]

(* write, writelines and a truncate that changes the length.               *)
Write(e, f) ==
    /\ Uses(e, f) /\ version[f] < MaxVersion
    /\ version' = [version EXCEPT ![f] = @ + 1]
    /\ Changed(f)
    /\ UNCHANGED <<execVars, lost, hooked, file, owner, saved, seen, channel>>

(* _push: the whole buffer is written to the parent, or it is not.         *)
Push(f, ok) == saved' = IF ok THEN [saved EXCEPT ![f] = version[f]] ELSE saved

(* flush and close, through _save: a push that fails marks the buffer and  *)
(* raises into the code, and a close that fails leaves the file open.      *)
Save(e, f, ok, closing) ==
    /\ Uses(e, f)
    /\ Push(f, ok)
    /\ raised' = [raised EXCEPT ![f] = @ \/ ~ok]
    /\ seen' = IF ok THEN seen ELSE [seen EXCEPT ![f] = version[f]]
    /\ file' = IF ok /\ closing THEN [file EXCEPT ![f] = "closed"] ELSE file
    /\ UNCHANGED <<execVars, lost, hooked, owner, version, channel>>

(* sys.unraisablehook: the collector of the context c the finalizer ran in *)
(* takes the loss while its execution runs; otherwise the previous hook    *)
(* gets it.                                                                *)
Charge(f, c) ==
    IF c \in Execs /\ state[c] = "running"
    THEN lost' = [lost EXCEPT ![c] = @ \cup {f}] /\ UNCHANGED hooked
    ELSE hooked' = hooked \cup {f} /\ UNCHANGED lost

(* Mutant of Pushes: content whose failed save the code saw is pushed, and *)
(* lost, again.                                                            *)
PushesAlways(f) == TRUE

(* The finalizer pushes content no failed save has been raised for.        *)
Pushes(f) == ~raised[f]

(* __del__, run in context c.  Quiet once the channel is closed.           *)
Finalize(f, c, ok) ==
    /\ file' = [file EXCEPT ![f] = "closed"]
    /\ IF ~Pushes(f) THEN UNCHANGED <<saved, lost, hooked>>
       ELSE /\ Push(f, ok /\ channel)
            /\ IF ok \/ ~channel THEN UNCHANGED <<lost, hooked>> ELSE Charge(f, c)
    /\ UNCHANGED <<execVars, owner, version, raised, seen, channel>>

(* The code drops its last reference: the finalizer runs at once, in the   *)
(* execution's own context.                                                *)
Drop(e, f, ok) == Uses(e, f) /\ Finalize(f, e, ok)

(* The last reference goes in a cycle, or with a module or a result kept   *)
(* past the execution: the file waits for the collector.                   *)
Leave(f) ==
    /\ file[f] = "open"
    /\ file' = [file EXCEPT ![f] = "cycle"]
    /\ UNCHANGED <<execVars, lost, hooked, owner, version, saved, raised, seen,
                   channel>>

(* The collector runs on whichever thread allocates, in its context: any   *)
(* running execution's, or no execution's at all.                          *)
Collect(f, c, ok) ==
    /\ file[f] = "cycle"
    /\ c \in Execs => state[c] = "running"
    /\ Finalize(f, c, ok)

(* settle: an execution that lost a write fails.                           *)
Settled(own, losses) ==
    IF own THEN "own" ELSE IF losses # {} THEN "lost" ELSE "none"

(* The code ends, with an error of its own or without; the collector is    *)
(* closed and the losses settled.                                          *)
End(e, own) ==
    /\ state[e] = "running"
    /\ state' = [state EXCEPT ![e] = "done"]
    /\ error' = [error EXCEPT ![e] = Settled(own, lost[e])]
    /\ UNCHANGED <<lost, hooked, file, owner, version, saved, raised, seen,
                   channel>>

(* The worker's loop has ended, or the interpreter is finalizing.          *)
ShutDown ==
    /\ channel /\ \A e \in Execs : state[e] # "running"
    /\ channel' = FALSE
    /\ UNCHANGED <<execVars, lost, hooked, file, owner, version, saved, raised,
                   seen>>

Next ==
    \/ ShutDown
    \/ \E e \in Execs : Begin(e) \/ \E own \in BOOLEAN : End(e, own)
    \/ \E e \in Execs, f \in Files :
          \/ Open(e, f) \/ Write(e, f)
          \/ \E ok, closing \in BOOLEAN : Save(e, f, ok, closing)
          \/ \E ok \in BOOLEAN : Drop(e, f, ok)
    \/ \E f \in Files :
          \/ Leave(f)
          \/ \E c \in Execs \cup {"nobody"}, ok \in BOOLEAN : Collect(f, c, ok)

Spec == Init /\ [][Next]_vars

-----------------------------------------------------------------------------
(* The executions whose result says the file's content was lost.           *)
ChargedTo(f) == {e \in Execs : f \in lost[e]}

(* Content that never reached the parent is never lost in silence: the     *)
(* code saw the save of that very content fail, an execution is charged    *)
(* and does not end as a success, or the previous hook was told.  Only a   *)
(* shutdown is quiet.                                                      *)
NoSilentLoss ==
    \A f \in Files : file[f] = "closed" /\ saved[f] # version[f] =>
        \/ seen[f] = version[f] \/ f \in hooked \/ ~channel
        \/ \E e \in ChargedTo(f) : state[e] = "done" => error[e] # "none"

(* A failure is reported once: what the code saw fail is not charged to an *)
(* execution too, and no loss is charged to two, or to one and the hook.   *)
ReportedOnce ==
    \A f \in Files :
        /\ ChargedTo(f) # {} \/ f \in hooked => seen[f] # version[f]
        /\ Cardinality(ChargedTo(f)) + (IF f \in hooked THEN 1 ELSE 0) <= 1

(* An execution is charged with the writes of its own files only.          *)
OwnLosses == \A e \in Execs, f \in Files : f \in lost[e] => owner[f] = e
=============================================================================
