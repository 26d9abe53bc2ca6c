---------------------------- MODULE NetworkGate ----------------------------
(***************************************************************************)
(* Network denial in the host process (sandtrap/net): the gates put over   *)
(* the socket methods once, by whichever execution first needs them, and   *)
(* network_allowed, the context variable they read.  Executions, granted   *)
(* host functions and captured callbacks set it and put it back; threads   *)
(* and work items started through the patched methods copy it.             *)
(*                                                                         *)
(* frames is each thread's stack of calls that set the variable, with the  *)
(* token that puts it back.  A frame's duty is what the code in it may do, *)
(* kept apart from the variable so that the two can be compared.  The body *)
(* of a generator runs after its call has put the variable back: its duty  *)
(* is that of the code that iterates it.                                   *)
(***************************************************************************)
EXTENDS Integers, Sequences, FiniteSets

CONSTANTS HostThreads,  \* threads there are before any execution
          NewThreads,   \* threads that may be started
          Methods,      \* the socket functions gated
          Filesystem,   \* whether the sandboxes have a filesystem
          MaxFrames,    \* bound: nesting of calls in a thread
          MaxItems,     \* bound: work items queued in a pool
          MaxSkipped    \* bound: patches an exception leaves half installed

ASSUME NetworkAssumption ==
    /\ HostThreads \cap NewThreads = {} /\ "free" \notin HostThreads \cup NewThreads
    /\ Methods # {} /\ {"none", "start", "submit"} \cap Methods = {}
    /\ Filesystem \in BOOLEAN
    /\ MaxFrames \in Nat /\ MaxItems \in Nat /\ MaxSkipped \in Nat

Threads == HostThreads \cup NewThreads
Hooks   == {"start", "submit"}  \* Thread.start, ThreadPoolExecutor.submit
Names   == Methods \cup Hooks

VARIABLES
    lock,       \* net.patch._lock: "free" or the thread in it
    original,   \* net.socket._originals and the threading originals: what
                \* each patch falls through to
    bound,      \* what socket.socket, Thread and the executor have
    pending,    \* what has been saved and not yet replaced
    installed,  \* net.patch._installed
    skipped,    \* ghost: what an exception left saved and not replaced
    live,       \* the threads started so far
    allowed,    \* network_allowed in each thread's current context
    frames,     \* each thread's calls
    base,       \* the duty each thread was started with
    pc,         \* where each thread is in _enter_sandbox_context
    captured,   \* the functions defined: what each captured, and its duty
    items       \* the pool's queue: each item's context and duty

gates == <<original, bound, pending, installed, skipped>>
vars == <<lock, gates, live, allowed, frames,
          base, pc, captured, items>>

(* Whose code a frame runs: a granted host function's, an execution's (or  *)
(* a work item's), or that of a generator which denied code defined.       *)
Kinds == {"grant", "code", "stray"}

NetworkTypeOK ==
    /\ lock \in Threads \cup {"free"}
    /\ installed \in BOOLEAN
    /\ captured \subseteq [value : BOOLEAN, duty : BOOLEAN]
    /\ original \in [Names -> {"none", "real", "gated"}]
    /\ bound \in [Names -> {"real", "gated"}]
    /\ pending \in Names \cup {"none"} /\ skipped \subseteq Names
    /\ live \subseteq Threads
    /\ allowed \in [Threads -> BOOLEAN] /\ base \in [Threads -> BOOLEAN]
    /\ frames \in [Threads -> Seq([kind : Kinds, token : BOOLEAN, duty : BOOLEAN])]
    /\ pc \in [Threads -> {"run", "threading", "hooking", "open", "opening",
                           "sockets", "saving", "deny"}]
    /\ items \in Seq([context : BOOLEAN, duty : BOOLEAN])

Init ==
    /\ lock = "free" /\ installed = FALSE
    /\ original = [m \in Names |-> "none"] /\ bound = [m \in Names |-> "real"]
    /\ pending = "none" /\ skipped = {}
    /\ live = HostThreads
    /\ allowed = [t \in Threads |-> TRUE] /\ base = [t \in Threads |-> TRUE]
    /\ frames = [t \in Threads |-> <<>>] /\ pc = [t \in Threads |-> "run"]
    /\ captured = {} /\ items = <<>>

Running(t) == t \in live /\ pc[t] = "run"
Goto(t, l) == pc' = [pc EXCEPT ![t] = l]

(* Whether the code a thread is in may use the network.                    *)
Duty(t) == IF frames[t] = <<>> THEN base[t] ELSE frames[t][1].duty

(* Whether a thread is in the code of an execution, or what it started.    *)
InCode(t) == IF frames[t] = <<>> THEN ~base[t] ELSE frames[t][1].kind # "grant"

-----------------------------------------------------------------------------
(* The variable is set for a call, and its token kept.                     *)
Push(t, kind, value) ==
    /\ frames' = [frames EXCEPT ![t] =
                     <<[kind |-> kind, token |-> allowed[t], duty |-> value]>> \o @]
    /\ allowed' = [allowed EXCEPT ![t] = value]

(* Mutant of Restored: the variable goes back to its default.              *)
RestoredDefault(t) == TRUE

Restored(t) == frames[t][1].token

(* A call ends, returning or raising: the variable is put back.            *)
Leave(t) ==
    /\ Running(t) /\ frames[t] # <<>>
    /\ allowed' = [allowed EXCEPT ![t] = Restored(t)]
    /\ frames' = [frames EXCEPT ![t] = Tail(@)]
    /\ UNCHANGED <<lock, gates, live, base, pc,
                   captured, items>>

(* An execution begins, in a host thread or inside a host function that    *)
(* another one called.  One whose policy allows the network only needs the *)
(* threading patches.                                                      *)
Enter(t) ==
    /\ Running(t) /\ Len(frames[t]) < MaxFrames
    /\ \E l \in {"threading", "open"} : Goto(t, l)
    /\ UNCHANGED <<lock, gates, live, allowed,
                   frames, base, captured, items>>

LockFree == lock = "free"

(* install_threading() takes the lock...                                   *)
ThreadingLocks(t) ==
    /\ pc[t] \in {"threading", "open"} /\ LockFree
    /\ lock' = t /\ Goto(t, IF pc[t] = "threading" THEN "hooking" ELSE "opening")
    /\ UNCHANGED <<gates, live, allowed, frames, base, captured, items>>

(* ...and lets it go with Thread.start and submit patched...               *)
ThreadingInstalled(t) ==
    /\ pc[t] \in {"hooking", "opening"} /\ pending = "none"
    /\ \A h \in Hooks : original[h] # "none"
    /\ lock' = "free"
    /\ IF pc[t] = "hooking"
       THEN Goto(t, "sockets") /\ UNCHANGED frames
       ELSE /\ Goto(t, "run")
            /\ frames' = [frames EXCEPT ![t] =
                  <<[kind |-> "code", token |-> allowed[t], duty |-> Duty(t)]>> \o @]
    /\ UNCHANGED <<gates, live, allowed, base, captured, items>>

(* ...and install() takes it again, unless the gates are in place...       *)
InstallLocks(t) ==
    /\ pc[t] = "sockets" /\ LockFree /\ ~installed
    /\ lock' = t /\ Goto(t, "saving")
    /\ UNCHANGED <<gates, live, allowed, frames,
                   base, captured, items>>

(* Mutant of InPlace: some gate is.                                        *)
InPlaceSome == \E m \in Methods : bound[m] = "gated"

InPlace == LockFree /\ installed

AlreadyInstalled(t) ==
    /\ pc[t] = "sockets" /\ InPlace
    /\ Goto(t, "deny")
    /\ UNCHANGED <<lock, gates, live, allowed,
                   frames, base, captured, items>>

(* What the thread in the lock is patching: submit after Thread.start.     *)
Patches(t) ==
    CASE pc[t] = "saving" -> Methods
      [] pc[t] \in {"hooking", "opening"} ->
            {h \in Hooks : h = "submit" => original["start"] # "none"}
      [] OTHER -> {}

(* Mutant of SavesOriginal: the method is read after the gate is in place. *)
SavesOriginalLate(t, m) ==
    /\ m \in Patches(t) /\ pending = "none" /\ original[m] = "none"
    /\ bound' = [bound EXCEPT ![m] = "gated"]
    /\ original' = [original EXCEPT ![m] = bound'[m]]
    /\ UNCHANGED <<lock, pending, installed, skipped, live, allowed,
                   frames, base, pc, captured, items>>

(* What has not been yet is saved...                                       *)
SavesOriginal(t, m) ==
    /\ m \in Patches(t) /\ pending = "none" /\ original[m] = "none"
    /\ original' = [original EXCEPT ![m] = bound[m]]
    /\ pending' = m
    /\ UNCHANGED <<lock, bound, installed, skipped, live, allowed,
                   frames, base, pc, captured, items>>

(* ...and then replaced...                                                 *)
BindsGate(t) ==
    /\ lock = t /\ pending # "none"
    /\ bound' = [bound EXCEPT ![pending] = "gated"]
    /\ pending' = "none"
    /\ UNCHANGED <<lock, original, installed, skipped, live, allowed,
                   frames, base, pc, captured, items>>

(* ...until all are...                                                     *)
Installed(t) ==
    /\ pc[t] = "saving" /\ pending = "none"
    /\ \A m \in Methods : original[m] # "none"
    /\ installed' = TRUE /\ lock' = "free" /\ Goto(t, "deny")
    /\ UNCHANGED <<original, bound, pending, skipped, live, allowed,
                   frames, base, captured, items>>

(* ...or Ctrl-C lands in either: the lock is let go, what was saved stays  *)
(* so, and the execution does not begin.                                   *)
Interrupted(t) ==
    /\ lock = t /\ Cardinality(skipped) < MaxSkipped
    /\ lock' = "free" /\ Goto(t, "run")
    /\ skipped' = skipped \cup ({pending} \cap Names) /\ pending' = "none"
    /\ UNCHANGED <<original, bound, installed, live, allowed, frames,
                   base, captured, items>>

(* deny_network(): the code runs.                                          *)
Denies(t) ==
    /\ pc[t] = "deny"
    /\ Push(t, "code", FALSE) /\ Goto(t, "run")
    /\ UNCHANGED <<lock, gates, live, base,
                   captured, items>>

-----------------------------------------------------------------------------
(* The code calls a host function registered with network_access (whose    *)
(* generators, too, run as the code that iterates them)...                 *)
CallGranted(t) ==
    /\ Running(t) /\ frames[t] # <<>> /\ InCode(t) /\ Len(frames[t]) < MaxFrames
    /\ Push(t, "grant", TRUE)
    /\ UNCHANGED <<lock, gates, live, base, pc,
                   captured, items>>

(* ...or defines a function, which captures the variable when it denies    *)
(* or when there is a filesystem to capture with it...                     *)
Define(t) ==
    /\ Running(t) /\ InCode(t) /\ (allowed[t] => Filesystem)
    /\ captured' = captured \cup {[value |-> allowed[t], duty |-> Duty(t)]}
    /\ UNCHANGED <<lock, gates, live, allowed,
                   frames, base, pc, items>>

(* ...which anyone may call: the host long after, or a granted function.   *)
Callback(t) ==
    /\ Running(t) /\ Len(frames[t]) < MaxFrames
    /\ \E c \in captured :
          /\ frames' = [frames EXCEPT ![t] =
                <<[kind |-> "code", token |-> allowed[t], duty |-> c.duty]>> \o @]
          /\ allowed' = [allowed EXCEPT ![t] = c.value]
    /\ UNCHANGED <<lock, gates, live, base, pc,
                   captured, items>>

(* A generator function's body is not in that call: it runs in whatever    *)
(* context it is iterated in.                                              *)
Iterate(t) ==
    /\ Running(t) /\ Len(frames[t]) < MaxFrames
    /\ \E c \in captured :
          frames' = [frames EXCEPT ![t] =
                <<[kind |-> IF c.duty THEN "code" ELSE "stray",
                   token |-> allowed[t], duty |-> Duty(t)]>> \o @]
    /\ UNCHANGED <<lock, gates, live, allowed, base, pc, captured, items>>

(* The variable in a context made for a new thread or a work item.         *)
Copied(t, hook) == IF bound[hook] = "gated" THEN allowed[t] ELSE TRUE

(* Thread.start().                                                         *)
StartThread(t, s) ==
    /\ Running(t) /\ s \notin live
    /\ live' = live \cup {s}
    /\ allowed' = [allowed EXCEPT ![s] = Copied(t, "start")]
    /\ base' = [base EXCEPT ![s] = Duty(t)]
    /\ UNCHANGED <<lock, gates, frames, pc,
                   captured, items>>

(* ThreadPoolExecutor.submit(), once it is patched, by host or by code...  *)
Submit(t) ==
    /\ Running(t) /\ bound["submit"] = "gated" /\ Len(items) < MaxItems
    /\ items' = Append(items, [context |-> Copied(t, "submit"), duty |-> Duty(t)])
    /\ UNCHANGED <<lock, gates, live, allowed,
                   frames, base, pc, captured>>

(* ...and the item run by an idle thread, whoever started that.            *)
TakeItem(t) ==
    /\ Running(t) /\ frames[t] = <<>> /\ items # <<>> /\ MaxFrames > 0
    /\ frames' = [frames EXCEPT ![t] =
          <<[kind |-> "code", token |-> allowed[t], duty |-> Head(items).duty]>>]
    /\ allowed' = [allowed EXCEPT ![t] = Head(items).context]
    /\ items' = Tail(items)
    /\ UNCHANGED <<lock, gates, live, base, pc,
                   captured>>

(* Whether a call of a socket function gets through: the gate looks at the *)
(* variable in its caller's context (_check_network).                      *)
Reaches(t, m) == bound[m] = "gated" => allowed[t]

Next ==
    \E t \in Threads :
        \/ Leave(t) \/ Enter(t) \/ ThreadingLocks(t) \/ ThreadingInstalled(t)
        \/ InstallLocks(t) \/ AlreadyInstalled(t) \/ Installed(t) \/ Denies(t)
        \/ \E m \in Names : SavesOriginal(t, m)
        \/ BindsGate(t) \/ Interrupted(t)
        \/ CallGranted(t) \/ Define(t) \/ Callback(t) \/ Iterate(t)
        \/ \E s \in NewThreads : StartThread(t, s)
        \/ Submit(t) \/ TakeItem(t)

Spec == Init /\ [][Next]_vars

-----------------------------------------------------------------------------
(* A patch always has the real function to fall through to, whichever      *)
(* thread calls it while another is installing: never nothing, and never   *)
(* a patch, which would call itself (net.patch.install_threading, install).*)
GateHasOriginal == \A m \in Names : bound[m] = "gated" => original[m] = "real"

(* No exception left Thread.start or submit saved and not replaced.        *)
Propagates == Hooks \cap skipped = {}

(* The variable says what the code in a thread may do, however executions, *)
(* grants, callbacks, threads and work items nest: the code of a denied    *)
(* execution is denied whoever calls it and on whichever thread, a granted *)
(* function is not, and host code never is for the sake of another thread. *)
(* Generators are the exception: a body runs as whoever iterates it may.   *)
(* And an exception that leaves Thread.start or submit unpatched for good  *)
(* ends it.                                                                *)
GateFollowsCode == Propagates => \A t \in live : allowed[t] = Duty(t)

(* No socket function gets through for code that is denied, even while     *)
(* another thread's first execution is still putting the gates in place or *)
(* after it was cut short, but for one that an exception caught between    *)
(* its saving and its replacement: a later install() passes over that, and *)
(* over a Thread.start or submit left that way.                            *)
DeniedMeetsGates ==
    Propagates =>
        \A t \in live, m \in Methods \ skipped : ~Duty(t) => ~Reaches(t, m)

(* The body of a generator that denied code defined is denied, whoever     *)
(* iterates it ("ensure that callbacks ... retain filesystem and network   *)
(* isolation", __st_capture_context__).  Not so.                           *)
GeneratorDenied ==
    \A t \in live :
        frames[t] # <<>> /\ frames[t][1].kind = "stray" => ~allowed[t]

(* When no sandbox is executing, every call falls through to the original  *)
(* (docs/security.md, Process-global patches).                             *)
FallsThrough ==
    (\A t \in live : frames[t] = <<>>)
        => \A t \in live, m \in Methods : Reaches(t, m)
=============================================================================
