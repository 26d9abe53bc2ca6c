----------------------------- MODULE HostCalls ------------------------------
(***************************************************************************)
(* Calls from a worker to its parent, as the threads of the worker really  *)
(* make them: RpcProxy._call and _round_trip (sandtrap/process/worker.py), *)
(* HostClock.enter and exit around them (sandtrap/clock.py), the clock     *)
(* messages _tell_parent relays, the worker's own loop, which reads the    *)
(* same pipe, and the parent's _await_result at its other end.             *)
(*                                                                         *)
(* A thread makes a call from the code, or from the finalizer of a remote  *)
(* file (_PushOnClose.__del__ in sandtrap/fs/remote.py), which the garbage *)
(* collector may run between any two bytecodes: a call is therefore a      *)
(* frame on the thread's stack, and a finalizer pushes another one on top  *)
(* of whatever the thread was doing.  Locks are not reentrant.             *)
(***************************************************************************)
EXTENDS Naturals, Sequences, FiniteSets

CONSTANTS Others,    \* threads the code may start, besides "main"
          MaxTurn,   \* bound: executions
          MaxCall,   \* bound: calls to the host, finalizers' included
          MaxGarbage \* bound: files left to the garbage collector

ASSUME HostCallsAssumption ==
    /\ "main" \notin Others /\ "none" \notin Others
    /\ MaxTurn \in Nat /\ MaxCall \in Nat /\ MaxGarbage \in Nat

Threads == Others \cup {"main"}
Turns   == 1..MaxTurn

VARIABLES
    hpc,       \* the parent: "idle", "await", or "killed" the worker
    turn,      \* executions sent so far
    paused,    \* paused_at is not None
    toWorker, toParent, \* the pipe
    mpc,       \* where worker_main is
    scope,     \* running["scope"]: the execution, 0 for None
    told,      \* running["paused"]
    depth,     \* per execution: its HostClock._depth
    clockLock, \* per execution: who holds its HostClock._lock
    sendLock,  \* who holds _send_lock
    born,      \* per other thread: the execution that started it, 0 for none
    stack,     \* per thread: the host calls it is in
    calls,     \* calls made so far; the number of the latest
    made,      \* files left to the collector so far
    garbage,   \* those it has not finalized yet
    crossed    \* what was read by a reader it was not meant for

parentVars == <<hpc, turn, paused>>
mainVars   == <<mpc, scope, born>>
hostCallsVars ==
    <<hpc, turn, paused, toWorker, toParent, mpc, scope, told, depth,
      clockLock, sendLock, born, stack, calls, made, garbage, crossed>>

Msg(type, s, call) == [type |-> type, turn |-> s, call |-> call]
Frame(pc, s, call) == [pc |-> pc, clock |-> s, call |-> call]

PCs == {"enter", "entering", "pausing", "call", "sending", "recv",
        "exit", "exiting", "resuming"}

HostCallsTypeOK ==
    /\ hpc \in {"idle", "await", "killed"} /\ turn \in 0..MaxTurn
    /\ paused \in BOOLEAN /\ told \in BOOLEAN
    /\ mpc \in {"loop", "code", "ending", "closing", "result", "replying"}
    /\ scope \in 0..MaxTurn
    /\ depth \in [Turns -> 0..MaxCall]
    /\ clockLock \in [Turns -> Threads \cup {"none"}]
    /\ sendLock \in Threads \cup {"none"}
    /\ born \in [Others -> 0..MaxTurn]
    /\ calls \in 0..MaxCall /\ made \in 0..MaxGarbage /\ garbage \in 0..made
    /\ \A t \in Threads : \A i \in DOMAIN stack[t] :
          stack[t][i].pc \in PCs /\ stack[t][i].clock \in 0..MaxTurn
    /\ crossed \subseteq {"Exec", "RpcReturn"}

HostCallsInit ==
    /\ hpc = "idle" /\ turn = 0 /\ paused = FALSE
    /\ toWorker = <<>> /\ toParent = <<>>
    /\ mpc = "loop" /\ scope = 0 /\ told = FALSE
    /\ depth = [s \in Turns |-> 0]
    /\ clockLock = [s \in Turns |-> "none"] /\ sendLock = "none"
    /\ born = [t \in Others |-> 0]
    /\ stack = [t \in Threads |-> <<>>]
    /\ calls = 0 /\ made = 0 /\ garbage = 0 /\ crossed = {}

-----------------------------------------------------------------------------
(* The parent: exec() and _await_result.                                   *)

ParentExec ==
    /\ hpc = "idle" /\ turn < MaxTurn
    /\ hpc' = "await" /\ turn' = turn + 1 /\ paused' = FALSE
    /\ toWorker' = Append(toWorker, Msg("Exec", turn + 1, 0))
    /\ UNCHANGED <<toParent, mainVars, told, depth, clockLock, sendLock, stack,
                   calls, made, garbage, crossed>>

(* Mutants of Reply: an answer that does not say which call it answers; a  *)
(* handler that raised goes unanswered.                                    *)
ReplyUnmatched(m) == <<Msg("RpcReturn", m.turn, 0)>>
ReplyLost(m) == <<>>

(* _send_rpc_return: one answer, with the id of the call, however the      *)
(* handler ended.                                                          *)
Reply(m) == <<Msg("RpcReturn", m.turn, m.call)>>

ParentRecv ==
    /\ hpc = "await" /\ toParent # <<>>
    /\ toParent' = Tail(toParent)
    /\ LET m == Head(toParent)
       IN  \/ /\ m.type = "Result"
              /\ hpc' = "idle" /\ UNCHANGED <<paused, toWorker>>
           \/ /\ m.type \in {"HostTimeOn", "HostTimeOff"}
              /\ paused' = (m.type = "HostTimeOn") /\ UNCHANGED <<hpc, toWorker>>
           \/ /\ m.type = "RpcCall"
              /\ toWorker' = toWorker \o Reply(m) /\ UNCHANGED <<hpc, paused>>
    /\ UNCHANGED <<turn, mainVars, told, depth, clockLock, sendLock, stack,
                   calls, made, garbage, crossed>>

(* The deadline, which is held while the worker's clock is stopped.        *)
Unresponsive ==
    /\ hpc = "await" /\ ~paused
    /\ hpc' = "killed"
    /\ UNCHANGED <<turn, paused, toWorker, toParent, mainVars, told, depth,
                   clockLock, sendLock, stack, calls, made, garbage, crossed>>

-----------------------------------------------------------------------------
(* The worker's loop, on its main thread, when no call is on its stack.    *)

Working   == hpc # "killed"
MainReady == Working /\ stack["main"] = <<>>

(* _send_lock can be taken.                                                *)
SendFree == sendLock = "none"

(* conn.recv(): an ExecMsg starts an execution and its clock scope; an     *)
(* answer nobody waits for here is dropped.                                *)
LoopRecv ==
    /\ MainReady /\ mpc = "loop" /\ toWorker # <<>>
    /\ toWorker' = Tail(toWorker)
    /\ LET m == Head(toWorker)
       IN  \/ /\ m.type = "Exec"
              /\ mpc' = "code" /\ scope' = m.turn /\ UNCHANGED crossed
           \/ /\ m.type = "RpcReturn"
              /\ crossed' = crossed \cup {m.type} /\ UNCHANGED <<mpc, scope>>
    /\ UNCHANGED <<parentVars, toParent, told, depth, clockLock, sendLock, born,
                   stack, calls, made, garbage>>

StartThread(t) ==
    /\ MainReady /\ mpc = "code" /\ born[t] = 0
    /\ born' = [born EXCEPT ![t] = scope]
    /\ UNCHANGED <<parentVars, toWorker, toParent, mpc, scope, told, depth,
                   clockLock, sendLock, stack, calls, made, garbage, crossed>>

(* The code drops the last reference to an open remote file, in a cycle.   *)
LeaveFile ==
    /\ MainReady /\ mpc = "code" /\ made < MaxGarbage
    /\ made' = made + 1 /\ garbage' = garbage + 1
    /\ UNCHANGED <<parentVars, toWorker, toParent, mainVars, told, depth,
                   clockLock, sendLock, stack, calls, crossed>>

CodeEnds ==
    /\ MainReady /\ mpc = "code"
    /\ mpc' = "ending"
    /\ UNCHANGED <<parentVars, toWorker, toParent, scope, told, depth, born,
                   clockLock, sendLock, stack, calls, made, garbage, crossed>>

(* What _execution's exit sends: the end of a pause that is still open.    *)
CloseClock == IF told THEN <<Msg("HostTimeOff", scope, 0)>> ELSE <<>>

(* _execution's exit, and then the result: each under _send_lock.          *)
MainTakes(from, to) ==
    /\ MainReady /\ mpc = from /\ SendFree
    /\ mpc' = to /\ sendLock' = "main"
    /\ UNCHANGED <<parentVars, toWorker, toParent, scope, told, depth, born,
                   clockLock, stack, calls, made, garbage, crossed>>

ExecutionEnds ==
    /\ MainReady /\ mpc = "closing"
    /\ scope' = 0 /\ told' = FALSE
    /\ toParent' = toParent \o CloseClock
    /\ mpc' = "result" /\ sendLock' = "none"
    /\ UNCHANGED <<parentVars, toWorker, depth, born, clockLock, stack, calls,
                   made, garbage, crossed>>

SendsResult ==
    /\ MainReady /\ mpc = "replying"
    /\ toParent' = Append(toParent, Msg("Result", 0, 0))
    /\ mpc' = "loop" /\ sendLock' = "none"
    /\ UNCHANGED <<parentVars, toWorker, scope, told, depth, born, clockLock,
                   stack, calls, made, garbage, crossed>>

MainNext == LoopRecv \/ MainTakes("ending", "closing") \/ ExecutionEnds
            \/ MainTakes("result", "replying") \/ SendsResult

-----------------------------------------------------------------------------
(* A host call, on any thread.                                             *)

(* The clock in a thread's context: the execution's that started it; for   *)
(* the main thread, none between executions.                               *)
ClockOf(t) == IF t # "main" THEN born[t] ELSE IF mpc = "code" THEN scope ELSE 0

PushCall(t) ==
    /\ calls < MaxCall
    /\ calls' = calls + 1
    /\ stack' = [stack EXCEPT ![t] = Append(@, Frame(
                    IF ClockOf(t) = 0 THEN "call" ELSE "enter", ClockOf(t), calls + 1))]
    /\ UNCHANGED <<parentVars, toWorker, toParent, mainVars, told, depth,
                   clockLock, sendLock, crossed>>

(* The code calls a host object, or a method of the remote filesystem.     *)
Call(t) ==
    /\ Working /\ stack[t] = <<>> /\ ClockOf(t) # 0
    /\ PushCall(t) /\ UNCHANGED <<made, garbage>>

(* The collector finalizes an unclosed remote file on this thread.         *)
FinalizeFile(t) ==
    /\ Working /\ garbage > 0
    /\ t \in Others => born[t] # 0
    /\ garbage' = garbage - 1 /\ UNCHANGED made
    /\ PushCall(t)

Top(t) == stack[t][Len(stack[t])]
At(t, pc) == Working /\ stack[t] # <<>> /\ Top(t).pc = pc
Goto(t, pc) == stack' = [stack EXCEPT ![t][Len(stack[t])].pc = pc]
Pop(t) == stack' = [stack EXCEPT ![t] = SubSeq(@, 1, Len(@) - 1)]

(* HostClock.enter and exit: "with self._lock".                            *)
TakesClock(t, from, to) ==
    /\ At(t, from) /\ clockLock[Top(t).clock] = "none"
    /\ clockLock' = [clockLock EXCEPT ![Top(t).clock] = t]
    /\ Goto(t, to)
    /\ UNCHANGED <<parentVars, toWorker, toParent, mainVars, told, depth,
                   sendLock, calls, made, garbage, crossed>>

(* The first call in, or the last one out, tells the observer, which takes *)
(* _send_lock; any other moves the depth and is done with the clock.       *)
Entering(t) ==
    /\ At(t, "entering")
    /\ LET s == Top(t).clock
       IN  \/ /\ depth[s] = 0 /\ SendFree
              /\ sendLock' = t /\ Goto(t, "pausing")
              /\ UNCHANGED <<depth, clockLock>>
           \/ /\ depth[s] > 0
              /\ depth' = [depth EXCEPT ![s] = @ + 1]
              /\ clockLock' = [clockLock EXCEPT ![s] = "none"]
              /\ Goto(t, "call") /\ UNCHANGED sendLock
    /\ UNCHANGED <<parentVars, toWorker, toParent, mainVars, told, calls,
                   made, garbage, crossed>>

(* A call out of the clock.                                                *)
DepthOut(s) == [depth EXCEPT ![s] = @ - 1]

Exiting(t) ==
    /\ At(t, "exiting")
    /\ LET s == Top(t).clock
       IN  \/ /\ depth[s] = 1 /\ SendFree
              /\ sendLock' = t /\ Goto(t, "resuming")
              /\ UNCHANGED <<depth, clockLock>>
           \/ /\ depth[s] > 1
              /\ depth' = DepthOut(s)
              /\ clockLock' = [clockLock EXCEPT ![s] = "none"]
              /\ Pop(t) /\ UNCHANGED sendLock
    /\ UNCHANGED <<parentVars, toWorker, toParent, mainVars, told, calls,
                   made, garbage, crossed>>

(* Mutant of TellsParent: whose clock it is, is not asked.                 *)
TellsParentAlways(s) == TRUE

(* _tell_parent: only the running execution's clock reaches the parent.    *)
TellsParent(s) == s = scope

(* The observer's message is sent, and both locks are released.            *)
Pausing(t) ==
    /\ At(t, "pausing")
    /\ LET s == Top(t).clock
       IN  /\ depth' = [depth EXCEPT ![s] = @ + 1]
           /\ clockLock' = [clockLock EXCEPT ![s] = "none"]
           /\ IF TellsParent(s)
              THEN /\ toParent' = Append(toParent, Msg("HostTimeOn", s, 0))
                   /\ told' = TRUE
              ELSE UNCHANGED <<toParent, told>>
    /\ sendLock' = "none"
    /\ Goto(t, "call")
    /\ UNCHANGED <<parentVars, toWorker, mainVars, calls, made, garbage, crossed>>

Resuming(t) ==
    /\ At(t, "resuming")
    /\ LET s == Top(t).clock
       IN  /\ depth' = DepthOut(s)
           /\ clockLock' = [clockLock EXCEPT ![s] = "none"]
           /\ IF TellsParent(s)
              THEN /\ toParent' = Append(toParent, Msg("HostTimeOff", s, 0))
                   /\ told' = FALSE
              ELSE UNCHANGED <<toParent, told>>
    /\ sendLock' = "none"
    /\ Pop(t)
    /\ UNCHANGED <<parentVars, toWorker, mainVars, calls, made, garbage, crossed>>

(* _round_trip: the call is sent under _send_lock; reading the answer is   *)
(* under no lock at all.                                                   *)
TakesSend(t) ==
    /\ At(t, "call") /\ SendFree
    /\ sendLock' = t
    /\ Goto(t, "sending")
    /\ UNCHANGED <<parentVars, toWorker, toParent, mainVars, told, depth,
                   clockLock, calls, made, garbage, crossed>>

Sends(t) ==
    /\ At(t, "sending")
    /\ toParent' = Append(toParent, Msg("RpcCall", Top(t).clock, Top(t).call))
    /\ sendLock' = "none"
    /\ Goto(t, "recv")
    /\ UNCHANGED <<parentVars, toWorker, mainVars, told, depth, clockLock, calls,
                   made, garbage, crossed>>

(* Whatever is next in the pipe is read.  Its own answer returns to the    *)
(* caller; anything else is gone, and an error raised there.               *)
Recv(t) ==
    /\ At(t, "recv") /\ toWorker # <<>>
    /\ toWorker' = Tail(toWorker)
    /\ crossed' = IF Head(toWorker).type = "RpcReturn"
                     /\ Head(toWorker).call = Top(t).call
                  THEN crossed ELSE crossed \cup {Head(toWorker).type}
    /\ IF Top(t).clock = 0 THEN Pop(t) ELSE Goto(t, "exit")
    /\ UNCHANGED <<parentVars, toParent, mainVars, told, depth, clockLock,
                   sendLock, calls, made, garbage>>

CallStep(t) ==
    \/ TakesClock(t, "enter", "entering") \/ Entering(t) \/ Pausing(t)
    \/ TakesSend(t) \/ Sends(t) \/ Recv(t)
    \/ TakesClock(t, "exit", "exiting") \/ Exiting(t) \/ Resuming(t)

-----------------------------------------------------------------------------
HostCallsNext ==
    \/ ParentExec \/ ParentRecv \/ Unresponsive
    \/ MainNext \/ LeaveFile \/ CodeEnds
    \/ \E t \in Others : StartThread(t)
    \/ \E t \in Threads : Call(t) \/ FinalizeFile(t) \/ CallStep(t)

HostCallsSpec == HostCallsInit /\ [][HostCallsNext]_hostCallsVars

(* The parent reads what arrives and its deadline passes; a thread that    *)
(* can go on does.  The code need not end.                                 *)
HostCallsFairSpec ==
    /\ HostCallsSpec
    /\ WF_hostCallsVars(ParentRecv) /\ WF_hostCallsVars(Unresponsive)
    /\ WF_hostCallsVars(MainNext)
    /\ \A t \in Threads : WF_hostCallsVars(CallStep(t))

-----------------------------------------------------------------------------
ClockTypes == {"HostTimeOn", "HostTimeOff"}
NoClockMessage(q) == \A i \in DOMAIN q : q[i].type \notin ClockTypes

(* Whenever the pipe holds no clock message and no lock is held, the       *)
(* parent's deadline is held exactly while the clock of the execution it   *)
(* waits for is stopped: the clock of an earlier execution, kept by a      *)
(* thread or a finalizer, never holds the wait for a later one.            *)
PauseFollowsClock ==
    /\ hpc = "await" /\ sendLock = "none" /\ NoClockMessage(toParent)
    /\ \A s \in Turns : clockLock[s] = "none"
    => paused = (scope = turn /\ scope # 0 /\ depth[scope] > 0)

(* Every message the worker reads is read by the reader it was meant for,  *)
(* an ExecMsg by the loop and an answer by the call it answers, as long as *)
(* the code starts no thread and leaves no file to the collector.          *)
OneReader == (\A t \in Others : born[t] = 0) /\ made = 0 => crossed = {}

(* The same whatever the code does: "single reader on the pipe, no race    *)
(* conditions" (worker_main).                                              *)
SingleReader == crossed = {}

(* A finalizer waits for a lock that its own thread holds further down.    *)
WaitsForItself(t) ==
    /\ stack[t] # <<>>
    /\ \/ /\ sendLock = t
          /\ \/ Top(t).pc = "call"
             \/ Top(t).pc = "entering" /\ depth[Top(t).clock] = 0
             \/ Top(t).pc = "exiting" /\ depth[Top(t).clock] = 1
       \/ Top(t).pc \in {"enter", "exit"} /\ clockLock[Top(t).clock] = t

(* exec() returns, with a result or with a worker found unresponsive,      *)
(* unless a message went to the wrong reader or a finalizer waits for its  *)
(* own thread: threads, locks and a stopped clock alone never keep it.     *)
AwaitEnds ==
    hpc = "await" ~> \/ hpc # "await" \/ crossed # {}
                     \/ \E t \in Threads : WaitsForItself(t)
=============================================================================
