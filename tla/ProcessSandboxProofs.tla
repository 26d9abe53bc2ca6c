------------------------ MODULE ProcessSandboxProofs ------------------------
(***************************************************************************)
(* Proofs about ProcessSandbox, for every value of its constants: type     *)
(* correctness, that a live worker is never lost, that results belong to   *)
(* the execution they are returned for and nothing executes on an          *)
(* unverified or unprepared worker, until an exception cuts a wait short   *)
(* and again from the next worker on, and that the sandbox implements      *)
(* ExecService.                                                            *)
(***************************************************************************)
EXTENDS ProcessSandbox, SequenceTheorems, TLAPS

-----------------------------------------------------------------------------
(* The inductive invariants.                                               *)

(* The counters stay within the bounds: a worker is counted at most once,  *)
(* and an exec() that has begun has an execution left to use.              *)
CounterInv ==
    /\ generation <= spawned
    /\ hpc = "ready" => generation < spawned /\ ~hook /\ ~disturbed
    /\ ~started => hpc \in {"idle", "join", "gone"}
    /\ hpc = "join" => ~started
    /\ hpc = "hook" => hook
    /\ hpc \in {"idle", "join"} => ~hook
    /\ hpc \in {"ready", "hook", "await", "rpc"} /\ caller = "exec"
           /\ (hpc \in {"await", "rpc"} => hook) => turn < MaxTurn
    /\ hpc = "send" => turn + (IF hook /\ caller = "exec" THEN 1 ELSE 0) < MaxTurn
    /\ hpc \in {"await", "rpc"} => turn >= 1
    /\ hpc = "rpc" => toParent # <<>> /\ Head(toParent).type = "RpcCall"
    /\ Executing => wturn >= 1

(* The handles: both name the latest worker or nothing, and a live worker  *)
(* is named by both.                                                       *)
HandleInv ==
    /\ hpc # "gone" => conn = process
    /\ conn # 0 => conn = spawned
    /\ Alive => spawned > 0 /\ (hpc # "gone" => process = spawned)

TypeInv == TypeOK /\ CounterInv /\ HandleInv

(* TypeOK in two halves: the Boolean variables, and the others.            *)
FlagOK == /\ started \in BOOLEAN /\ hook \in BOOLEAN /\ paused \in BOOLEAN
          /\ wflag \in BOOLEAN /\ prepared \in BOOLEAN /\ disturbed \in BOOLEAN

DataOK ==
    /\ hpc \in HostPoints /\ caller \in {"enter", "exec"}
    /\ process \in 0..MaxSpawn /\ conn \in 0..MaxSpawn
    /\ generation \in 0..MaxSpawn /\ spawned \in 0..MaxSpawn
    /\ turn \in 0..MaxTurn /\ wturn \in 0..MaxTurn
    /\ last \in [turn : 0..MaxTurn, kind : Endings, of : 0..MaxTurn]
    /\ wpc \in WorkerPoints /\ wstatus \in Statuses /\ calls \in 0..MaxCall
    /\ toWorker \in Seq(ParentMsgs) /\ toParent \in Seq(WorkerMsgs)
    /\ cpc \in {"off", "some", "alive"} /\ cancels \in 0..MaxCancel
    /\ cancelled \in SUBSET (1..MaxTurn)
    /\ fault \in {"none", "cancelRaised", "cancelKilled"}
    /\ interrupts \in 0..MaxInterrupt

(* A message that ends an execution, or a start.                           *)
IsEnd(m) == m.type \in {"Result", "WorkerError"}

(* Between executions a live worker is idle and the pipe is empty.         *)
QuietInv ==
    /\ hpc \in {"idle", "hook", "send"} /\ Alive =>
          wpc = "loop" /\ toWorker = <<>> /\ toParent = <<>>
    /\ hpc = "ready" =>
          /\ toWorker = <<>> /\ conn = spawned
          /\ wpc \in {"init", "loop", "dead"}
          /\ wpc = "init" => toParent = <<>>
          /\ wpc = "loop" => Len(toParent) = 1 /\ toParent[1].type = "Ready"

(* While an execution is out, everything in the pipe is its own; a call to *)
(* the host is the last thing sent by a worker that waits for its answer,  *)
(* and an end is the last thing sent by a worker back in its loop.         *)
PendingInv == hpc \in {"await", "rpc"} =>
    /\ conn = spawned
    /\ Executing => wturn = turn
    /\ wpc \notin {"init", "closing"}
    /\ wpc \in {"setup", "code", "result"} => toWorker = <<>>
    /\ Len(toWorker) <= 1
    /\ \A i \in 1..Len(toWorker) : toWorker[i].turn = turn
    /\ \A i \in 1..Len(toParent) : toParent[i].turn = turn
    /\ \A i \in 1..Len(toParent) : IsEnd(toParent[i]) =>
          i = Len(toParent) /\ (Alive => wpc = "loop" /\ toWorker = <<>>)
    /\ \A i \in 1..Len(toParent) : toParent[i].type = "RpcCall" /\ Alive =>
          i = Len(toParent) /\ wpc = "rpc" /\ toWorker = <<>>

(* The worker that has, or is about to have, an execution was verified and *)
(* is prepared or being prepared; outside a start every live worker is.    *)
Verified == Isolation # "auto" \/ AllowDegraded \/ wstatus = "applied"

ServedInv ==
    /\ Alive /\ (Executing \/ toWorker # <<>>) => Verified /\ (prepared \/ hook)
    /\ Alive /\ hpc \notin {"ready", "gone"} => Verified /\ (prepared \/ hook)
    /\ hpc = "idle" /\ ~started => ~Alive

(* All of this until an exception cuts a wait short, and again from the    *)
(* next worker on.                                                         *)
CalmInv == QuietInv /\ PendingInv /\ ServedInv

IInv == TypeInv /\ (~disturbed => CalmInv)

(* The steps that disturb a worker.                                        *)
Disturbs == InterruptReady \/ InterruptAwait \/ InterruptJoin

(* The worker's steps that touch neither pipe.                             *)
WorkerMoves == WorkerEof \/ WorkerSetup \/ WorkerRejects \/ CodeEnds \/ RpcEof
               \/ WorkerExits \/ WorkerCrashes

-----------------------------------------------------------------------------
(* Messages and pipes.                                                     *)

(* What each side writes is a message the other side expects.              *)
LEMMA MsgTypes ==
  /\ \A t \in 1..MaxTurn : Msg("Exec", t, 0) \in ParentMsgs
  /\ \A t \in 1..MaxTurn, c \in 1..MaxCall : Msg("RpcReturn", t, c) \in ParentMsgs
  /\ Msg("Shutdown", 0, 0) \in ParentMsgs
  /\ Msg("Ready", 0, 0) \in WorkerMsgs
  /\ \A t \in 0..MaxTurn : /\ Msg("Result", t, 0) \in WorkerMsgs
                           /\ Msg("WorkerError", t, 0) \in WorkerMsgs
  /\ \A t \in 1..MaxTurn : /\ Msg("HostTimeOn", t, 0) \in WorkerMsgs
                           /\ Msg("HostTimeOff", t, 0) \in WorkerMsgs
  /\ \A t \in 1..MaxTurn, c \in 1..MaxCall : Msg("RpcCall", t, c) \in WorkerMsgs
  BY ConstantsAssumption DEF Msg, ParentMsgs, WorkerMsgs

(* What the fields of a message can be.                                    *)
LEMMA MsgFields ==
  /\ \A m \in ParentMsgs : m.type = "Shutdown" => m.turn = 0
  /\ \A m \in ParentMsgs : m.type = "Exec" => m.turn \in 1..MaxTurn
  /\ \A m \in ParentMsgs : m.turn \in 0..MaxTurn
  /\ \A m \in ParentMsgs : m.type \in {"Exec", "RpcReturn", "Shutdown"}
  /\ \A m \in WorkerMsgs : m.turn \in 0..MaxTurn
  /\ \A m \in WorkerMsgs : m.type = "RpcCall" => m.turn \in 1..MaxTurn /\ m.call \in 1..MaxCall
  BY ConstantsAssumption DEF ParentMsgs, WorkerMsgs

(* Reading a pipe takes its first message off.                             *)
LEMMA PipeHeads ==
  ASSUME TypeOK
  PROVE  /\ toWorker # <<>> => Head(toWorker) \in ParentMsgs /\ Tail(toWorker) \in Seq(ParentMsgs)
         /\ toParent # <<>> => Head(toParent) \in WorkerMsgs /\ Tail(toParent) \in Seq(WorkerMsgs)
  BY HeadTailProperties DEF TypeOK

(* The first message of a pipe, and what is left when it is read.          *)
LEMMA PipeTails ==
  ASSUME TypeOK
  PROVE  /\ toWorker # <<>> => /\ Len(Tail(toWorker)) = Len(toWorker) - 1
                              /\ Head(toWorker) = toWorker[1]
                              /\ \A i \in 1..Len(Tail(toWorker)) : Tail(toWorker)[i] = toWorker[i + 1]
         /\ toParent # <<>> => /\ Len(Tail(toParent)) = Len(toParent) - 1
                              /\ Head(toParent) = toParent[1]
                              /\ \A i \in 1..Len(Tail(toParent)) : Tail(toParent)[i] = toParent[i + 1]
  BY HeadTailProperties DEF TypeOK

(* Writing to the parent leaves what is in the pipe as it was.             *)
LEMMA SentOne ==
  ASSUME TypeOK, NEW m \in WorkerMsgs
  PROVE  LET q == toParent \o <<m>>
         IN  /\ Len(q) = Len(toParent) + 1
             /\ \A i \in 1..Len(toParent) : q[i] = toParent[i]
             /\ q[Len(toParent) + 1] = m
  BY ConcatProperties DEF TypeOK

(* The same for a pause of the clock followed by a call.                   *)
LEMMA SentTwo ==
  ASSUME TypeOK, NEW m \in WorkerMsgs, NEW n \in WorkerMsgs
  PROVE  LET q == toParent \o <<m, n>>
         IN  /\ Len(q) = Len(toParent) + 2
             /\ \A i \in 1..Len(toParent) : q[i] = toParent[i]
             /\ q[Len(toParent) + 1] = m /\ q[Len(toParent) + 2] = n
  BY ConcatProperties DEF TypeOK

-----------------------------------------------------------------------------
(* The worker and a cancelling thread leave the embedder's thread alone.   *)

(* The worker's steps change nothing of the embedder's thread.             *)
LEMMA WorkerKeepsHost == WorkerNext => UNCHANGED <<hostVars, disturbed>>
  BY DEF cancelVars, WorkerNext, WorkerRuns, WorkerReady, WorkerInitFails, WorkerRecv, WorkerEof,
     WorkerSetup, WorkerRejects, CodeEnds, CodeCalls, RpcReturns, RpcEof,
     WorkerSends, WorkerExits, WorkerCrashes

(* A cancelling thread changes nothing of the embedder's.                  *)
LEMMA CancelKeepsHost == CancelNext => UNCHANGED <<hostVars, disturbed>>
  BY DEF CancelNext, CancelLooks, CancelTests, CancelSignals

-----------------------------------------------------------------------------
(* What _kill and a failed start leave behind.                             *)

(* _kill keeps the types of what it sets.                                  *)
LEMMA KillOK ==
  ASSUME TypeOK, Kill
  PROVE  wpc' \in WorkerPoints /\ process' \in 0..MaxSpawn /\ conn' \in 0..MaxSpawn
  BY ConstantsAssumption DEF TypeOK, Kill, Cleanup, WorkerPoints

(* A failed start keeps the types of what it sets.                         *)
LEMMA StartRaisesOK ==
  ASSUME TypeOK, StartRaises
  PROVE  /\ hpc' \in HostPoints
         /\ last' \in [turn : 0..MaxTurn, kind : Endings, of : 0..MaxTurn]
  BY DEF TypeOK, StartRaises, HostPoints, Endings

(* _kill leaves no live worker and no handle, wherever it is called.       *)
LEMMA KillEnds ==
  ASSUME TypeInv, hpc # "gone", Kill
  PROVE  ~Alive' /\ conn' = 0 /\ process' = 0
  BY DEF TypeInv, TypeOK, HandleInv, Kill, Cleanup, IsAlive, Alive

(* A failed start returns to the embedder; an exec() it fails has raised.  *)
LEMMA StartRaisesEnds ==
  ASSUME StartRaises
  PROVE  hpc' = "idle" /\ (last' = last \/ last'.kind = "raised")
  BY DEF StartRaises

-----------------------------------------------------------------------------
(* Type correctness, whatever lands in the embedder's thread.              *)

(* The typing invariant holds at the start.                                *)
LEMMA InitTypeInv == Init => TypeInv
<1>1. Init => FlagOK
  BY Zenon DEF Init, FlagOK
<1>2. Init => DataOK
  BY ConstantsAssumption DEF Init, DataOK, HostPoints, WorkerPoints, Endings, Statuses
<1>3. Init => CounterInv /\ HandleInv
  BY DEF Init, CounterInv, HandleInv, Alive, Executing
<1>4. QED
  BY <1>1, <1>2, <1>3 DEF TypeInv, TypeOK, FlagOK, DataOK

(* Every step keeps the Boolean variables Boolean.                         *)
LEMMA FlagStep == TypeInv /\ [Next]_vars => FlagOK'
<1> SUFFICES ASSUME TypeInv, [Next]_vars PROVE FlagOK'
  OBVIOUS
<1> USE ConstantsAssumption DEF TypeInv, TypeOK, FlagOK, Alive, hostVars,
        workerVars, pipeVars, cancelVars
<1>1. CASE Enter
  BY <1>1, Zenon DEF Enter, Spawn, SpawnFails, Cleanup, IsAlive
<1>2. CASE Exec
  BY <1>2, Zenon DEF Exec, Spawn, SpawnFails, Cleanup, IsAlive
<1>3. CASE SendExec
  BY <1>3, Zenon DEF SendExec, IsAlive
<1>4. CASE ReadyFails
  BY <1>4, Zenon DEF ReadyFails, Kill, Cleanup, StartRaises, IsAlive
<1>5. CASE RecvReady
  BY <1>5, Zenon DEF RecvReady, Kill, Cleanup, StartRaises, IsAlive,
     NextGeneration
<1>6. CASE HookExec
  BY <1>6, Zenon DEF HookExec, IsAlive
<1>7. CASE HookReturns
  BY <1>7, Zenon DEF HookReturns, Kill, Cleanup, StartRaises, IsAlive
<1>8. CASE HookRaises
  BY <1>8, Zenon DEF HookRaises, Kill, Cleanup, StartRaises, IsAlive
<1>9. CASE Unresponsive
  BY <1>9, Zenon DEF Unresponsive, Kill, Cleanup, Return, IsAlive
<1>10. CASE WorkerDied
  BY <1>10, Zenon DEF WorkerDied, Cleanup, Return, IsAlive
<1>11. CASE AwaitRecv
  BY <1>11, Zenon DEF AwaitRecv, Return
<1>12. CASE AwaitRpc
  BY <1>12, Zenon DEF AwaitRpc
<1>13. CASE DispatchRpc
  BY <1>13, Zenon DEF DispatchRpc, RpcAnswer
<1>14. CASE InterruptReady
  BY <1>14, Zenon DEF InterruptReady, Interrupt, StartRaises
<1>15. CASE InterruptAwait
  BY <1>15, Zenon DEF InterruptAwait, Interrupt, Return
<1>16. CASE Shutdown
  BY <1>16, Zenon DEF Shutdown
<1>17. CASE Joined
  BY <1>17, Zenon DEF Joined, Kill, Cleanup, IsAlive
<1>18. CASE HostDies
  BY <1>18, Zenon DEF HostDies
<1>19. CASE WorkerReady
  BY <1>19, Zenon DEF WorkerReady, SendParent, Connected
<1>20. CASE WorkerInitFails
  BY <1>20, Zenon DEF WorkerInitFails, SendParent, Connected
<1>21. CASE WorkerRecv
  BY <1>21, Zenon DEF WorkerRecv
<1>22. CASE CodeCalls
  BY <1>22, Zenon DEF CodeCalls, SendParent, Connected
<1>23. CASE RpcReturns
  BY <1>23, Zenon DEF RpcReturns, SendParent, Connected
<1>24. CASE WorkerSends
  BY <1>24, Zenon DEF WorkerSends, SendParent, Connected
<1>25. CASE WorkerMoves
  BY <1>25, Zenon DEF WorkerMoves, WorkerEof, WorkerSetup, WorkerRejects,
     CodeEnds, RpcEof, WorkerExits, WorkerCrashes, Connected
<1>26. CASE CancelNext
  BY <1>26, Zenon DEF CancelNext, CancelLooks, CancelTests, CancelSignals,
     IsAlive
<1>27. CASE UNCHANGED vars
  BY <1>27 DEF vars
<1>28. CASE InterruptJoin
  BY <1>28, Zenon DEF InterruptJoin, Interrupt
<1>29. QED
  BY <1>1, <1>2, <1>3, <1>4, <1>5, <1>6, <1>7, <1>8, <1>9, <1>10, <1>11, <1>12,
     <1>13, <1>14, <1>15, <1>16, <1>17, <1>18, <1>19, <1>20, <1>21, <1>22,
     <1>23, <1>24, <1>25, <1>26, <1>27, <1>28 DEF Next, HostNext, HostWaits,
     HookSteps, WorkerNext, WorkerRuns, WorkerMoves

(* Every step keeps the types of the other variables.                      *)
LEMMA DataStep == TypeInv /\ [Next]_vars => DataOK'
<1> SUFFICES ASSUME TypeInv, [Next]_vars PROVE DataOK'
  OBVIOUS
<1> USE ConstantsAssumption DEF TypeInv, TypeOK, DataOK, CounterInv, HandleInv,
        Alive, Executing, HostPoints, WorkerPoints, Endings, Statuses,
        hostVars, workerVars, pipeVars, cancelVars
<1>1. CASE Enter
  <2>1. CASE IsAlive /\ started' = TRUE
              /\ UNCHANGED <<hpc, caller, process, conn, generation, hook, paused,
                             turn, last, workerVars, pipeVars, disturbed>>
    BY <1>1, <2>1 DEF Enter, IsAlive
  <2>2. CASE ~IsAlive /\ started' = TRUE /\ Spawn("enter")
    BY <1>1, <2>2 DEF Enter, Spawn, IsAlive
  <2>3. CASE ~IsAlive /\ SpawnFails("enter")
    BY <1>1, <2>3 DEF Enter, SpawnFails, Cleanup, IsAlive
  <2>4. QED
    BY <1>1, <2>1, <2>2, <2>3 DEF Enter
<1>2. CASE Exec
  <2>1. CASE IsAlive /\ hpc' = "send"
              /\ UNCHANGED <<caller, started, process, conn, generation, hook,
                             paused, turn, last, workerVars, pipeVars, disturbed>>
    BY <1>2, <2>1 DEF Exec, IsAlive
  <2>2. CASE ~IsAlive /\ started' = started /\ Spawn("exec")
    BY <1>2, <2>2 DEF Exec, Spawn, IsAlive
  <2>3. CASE ~IsAlive /\ SpawnFails("exec")
    BY <1>2, <2>3 DEF Exec, SpawnFails, Cleanup, IsAlive
  <2>4. QED
    BY <1>2, <2>1, <2>2, <2>3 DEF Exec
<1>3. CASE SendExec
  <2>1. CASE IsAlive
    BY <1>3, <2>1, MsgTypes, SMTT(30) DEF SendExec, IsAlive
  <2>2. CASE ~IsAlive
    BY <1>3, <2>2, MsgTypes, SMTT(30) DEF SendExec, IsAlive
  <2>3. QED
    BY <1>3, <2>1, <2>2
<1>4. CASE ReadyFails
  BY <1>4, KillOK, StartRaisesOK DEF ReadyFails
<1>5. CASE RecvReady
  <2>1. CASE Head(toParent).type = "Ready" /\ VerifyIsolation
    BY <1>5, <2>1, PipeHeads, KillOK, StartRaisesOK DEF RecvReady,
       NextGeneration, AfterStart
  <2>2. CASE ~(Head(toParent).type = "Ready" /\ VerifyIsolation)
    BY <1>5, <2>2, PipeHeads, KillOK, StartRaisesOK DEF RecvReady
  <2>3. QED
    BY <1>5, <2>1, <2>2
<1>6. CASE HookExec
  BY <1>6 DEF HookExec, IsAlive
<1>7. CASE HookReturns
  <2>1. CASE IsAlive
    BY <1>7, <2>1, KillOK, StartRaisesOK DEF HookReturns, AfterStart
  <2>2. CASE ~IsAlive
    BY <1>7, <2>2, KillOK, StartRaisesOK DEF HookReturns
  <2>3. QED
    BY <1>7, <2>1, <2>2
<1>8. CASE HookRaises
  BY <1>8, KillOK, StartRaisesOK DEF HookRaises
<1>9. CASE Unresponsive
  BY <1>9, KillOK DEF Unresponsive, Return
<1>10. CASE WorkerDied
  BY <1>10 DEF WorkerDied, Cleanup, Return, IsAlive
<1>11. CASE AwaitRecv
  BY <1>11, MsgFields, PipeHeads DEF AwaitRecv, Return
<1>12. CASE AwaitRpc
  BY <1>12 DEF AwaitRpc
<1>13. CASE DispatchRpc
  BY <1>13, MsgTypes, MsgFields, PipeHeads DEF DispatchRpc, RpcAnswer
<1>14. CASE InterruptReady
  BY <1>14, StartRaisesOK DEF InterruptReady, Interrupt
<1>15. CASE InterruptAwait
  BY <1>15 DEF InterruptAwait, Interrupt, Return
<1>16. CASE Shutdown
  BY <1>16, MsgTypes, SMTT(30) DEF Shutdown
<1>17. CASE Joined
  BY <1>17, KillOK DEF Joined
<1>18. CASE HostDies
  BY <1>18 DEF HostDies
<1>19. CASE WorkerReady
  BY <1>19, MsgTypes, SMTT(30) DEF WorkerReady, SendParent, Connected
<1>20. CASE WorkerInitFails
  BY <1>20, MsgTypes, SMTT(30) DEF WorkerInitFails, SendParent, Connected
<1>21. CASE WorkerRecv
  <2>1. CASE Head(toWorker).type = "Exec"
    BY <1>21, <2>1, MsgFields, PipeHeads DEF WorkerRecv
  <2>2. CASE Head(toWorker).type = "Shutdown"
    BY <1>21, <2>2, MsgFields, PipeHeads DEF WorkerRecv
  <2>3. CASE Head(toWorker).type = "RpcReturn"
    BY <1>21, <2>3, MsgFields, PipeHeads DEF WorkerRecv
  <2>4. QED
    BY <1>21, <2>1, <2>2, <2>3, MsgFields DEF WorkerRecv
<1>22. CASE CodeCalls
  BY <1>22, MsgTypes, SMTT(30) DEF CodeCalls, SendParent, Connected
<1>23. CASE RpcReturns
  BY <1>23, MsgTypes, SMTT(30) DEF RpcReturns, SendParent, Connected
<1>24. CASE WorkerSends
  BY <1>24, MsgTypes, SMTT(30) DEF WorkerSends, SendParent, Connected
<1>25. CASE WorkerMoves
  <2>1. CASE WorkerEof
    BY <1>25, <2>1 DEF WorkerEof, Connected
  <2>2. CASE WorkerSetup
    BY <1>25, <2>2 DEF WorkerSetup
  <2>3. CASE WorkerRejects
    BY <1>25, <2>3 DEF WorkerRejects
  <2>4. CASE CodeEnds
    BY <1>25, <2>4 DEF CodeEnds
  <2>5. CASE RpcEof
    BY <1>25, <2>5 DEF RpcEof, Connected
  <2>6. CASE WorkerExits
    BY <1>25, <2>6 DEF WorkerExits
  <2>7. CASE WorkerCrashes
    BY <1>25, <2>7 DEF WorkerCrashes
  <2>8. QED
    BY <1>25, <2>1, <2>2, <2>3, <2>4, <2>5, <2>6, <2>7 DEF WorkerMoves
<1>26. CASE CancelNext
  <2>1. CASE CancelLooks
    BY <1>26, <2>1, SMTT(30) DEF CancelLooks
  <2>2. CASE CancelTests
    BY <1>26, <2>2, SMTT(30) DEF CancelTests, IsAlive
  <2>3. CASE CancelSignals
    BY <1>26, <2>3, SMTT(30) DEF CancelSignals, IsAlive
  <2>4. QED
    BY <1>26, <2>1, <2>2, <2>3 DEF CancelNext
<1>27. CASE UNCHANGED vars
  BY <1>27 DEF vars
<1>28. CASE InterruptJoin
  BY <1>28 DEF InterruptJoin, Interrupt
<1>29. QED
  BY <1>1, <1>2, <1>3, <1>4, <1>5, <1>6, <1>7, <1>8, <1>9, <1>10, <1>11, <1>12,
     <1>13, <1>14, <1>15, <1>16, <1>17, <1>18, <1>19, <1>20, <1>21, <1>22,
     <1>23, <1>24, <1>25, <1>26, <1>27, <1>28 DEF Next, HostNext, HostWaits,
     HookSteps, WorkerNext, WorkerRuns, WorkerMoves

(* Every step keeps the counters within their bounds.                      *)
LEMMA CounterStep == TypeInv /\ [Next]_vars => CounterInv'
<1> SUFFICES ASSUME TypeInv, [Next]_vars PROVE CounterInv'
  OBVIOUS
<1> USE ConstantsAssumption DEF TypeInv, TypeOK, CounterInv, HandleInv, Alive,
        Executing, hostVars, workerVars, pipeVars, cancelVars
<1>1. CASE Enter
  <2>1. CASE IsAlive /\ started' = TRUE
              /\ UNCHANGED <<hpc, caller, process, conn, generation, hook, paused,
                             turn, last, workerVars, pipeVars, disturbed>>
    BY <1>1, <2>1 DEF Enter, IsAlive
  <2>2. CASE ~IsAlive /\ started' = TRUE /\ Spawn("enter")
    BY <1>1, <2>2 DEF Enter, Spawn, IsAlive
  <2>3. CASE ~IsAlive /\ SpawnFails("enter")
    BY <1>1, <2>3 DEF Enter, SpawnFails, Cleanup, IsAlive
  <2>4. QED
    BY <1>1, <2>1, <2>2, <2>3 DEF Enter
<1>2. CASE Exec
  <2>1. CASE IsAlive /\ hpc' = "send"
              /\ UNCHANGED <<caller, started, process, conn, generation, hook,
                             paused, turn, last, workerVars, pipeVars, disturbed>>
    BY <1>2, <2>1 DEF Exec, IsAlive
  <2>2. CASE ~IsAlive /\ started' = started /\ Spawn("exec")
    BY <1>2, <2>2 DEF Exec, Spawn, IsAlive
  <2>3. CASE ~IsAlive /\ SpawnFails("exec")
    BY <1>2, <2>3 DEF Exec, SpawnFails, Cleanup, IsAlive
  <2>4. QED
    BY <1>2, <2>1, <2>2, <2>3 DEF Exec
<1>3. CASE SendExec
  BY <1>3 DEF SendExec, IsAlive
<1>4. CASE ReadyFails
  BY <1>4 DEF ReadyFails, Kill, Cleanup, StartRaises, IsAlive
<1>5. CASE RecvReady
  <2>1. CASE Head(toParent).type = "Ready" /\ VerifyIsolation
    BY <1>5, <2>1 DEF RecvReady, NextGeneration, AfterStart
  <2>2. CASE ~(Head(toParent).type = "Ready" /\ VerifyIsolation)
    BY <1>5, <2>2 DEF RecvReady, Kill, Cleanup, StartRaises, IsAlive
  <2>3. QED
    BY <1>5, <2>1, <2>2
<1>6. CASE HookExec
  BY <1>6 DEF HookExec, IsAlive
<1>7. CASE HookReturns
  <2>1. CASE IsAlive
    BY <1>7, <2>1 DEF HookReturns, IsAlive, AfterStart
  <2>2. CASE ~IsAlive
    BY <1>7, <2>2 DEF HookReturns, Kill, Cleanup, StartRaises, IsAlive
  <2>3. QED
    BY <1>7, <2>1, <2>2
<1>8. CASE HookRaises
  BY <1>8 DEF HookRaises, Kill, Cleanup, StartRaises, IsAlive
<1>9. CASE Unresponsive
  BY <1>9 DEF Unresponsive, Kill, Cleanup, Return, IsAlive
<1>10. CASE WorkerDied
  BY <1>10 DEF WorkerDied, Cleanup, Return, IsAlive
<1>11. CASE AwaitRecv
  BY <1>11, MsgFields DEF AwaitRecv, Return
<1>12. CASE AwaitRpc
  BY <1>12 DEF AwaitRpc
<1>13. CASE DispatchRpc
  BY <1>13, MsgFields DEF DispatchRpc, RpcAnswer
<1>14. CASE InterruptReady
  BY <1>14 DEF InterruptReady, Interrupt, StartRaises
<1>15. CASE InterruptAwait
  BY <1>15 DEF InterruptAwait, Interrupt, Return
<1>16. CASE Shutdown
  BY <1>16 DEF Shutdown
<1>17. CASE Joined
  BY <1>17 DEF Joined, Kill, Cleanup, IsAlive
<1>18. CASE HostDies
  BY <1>18 DEF HostDies
<1>19. CASE WorkerReady
  BY <1>19 DEF WorkerReady, SendParent, Connected
<1>20. CASE WorkerInitFails
  BY <1>20 DEF WorkerInitFails, SendParent, Connected
<1>21. CASE WorkerRecv
  <2>1. CASE Head(toWorker).type = "Exec"
    BY <1>21, <2>1, MsgFields DEF WorkerRecv
  <2>2. CASE Head(toWorker).type = "Shutdown"
    BY <1>21, <2>2, MsgFields DEF WorkerRecv
  <2>3. CASE Head(toWorker).type = "RpcReturn"
    BY <1>21, <2>3, MsgFields DEF WorkerRecv
  <2>4. QED
    BY <1>21, <2>1, <2>2, <2>3, MsgFields DEF WorkerRecv
<1>22. CASE CodeCalls
  BY <1>22 DEF CodeCalls, SendParent, Connected
<1>23. CASE RpcReturns
  BY <1>23 DEF RpcReturns, SendParent, Connected
<1>24. CASE WorkerSends
  BY <1>24 DEF WorkerSends, SendParent, Connected
<1>25. CASE WorkerMoves
  <2>1. CASE WorkerEof
    BY <1>25, <2>1 DEF WorkerEof, Connected
  <2>2. CASE WorkerSetup
    BY <1>25, <2>2 DEF WorkerSetup
  <2>3. CASE WorkerRejects
    BY <1>25, <2>3 DEF WorkerRejects
  <2>4. CASE CodeEnds
    BY <1>25, <2>4 DEF CodeEnds
  <2>5. CASE RpcEof
    BY <1>25, <2>5 DEF RpcEof, Connected
  <2>6. CASE WorkerExits
    BY <1>25, <2>6 DEF WorkerExits
  <2>7. CASE WorkerCrashes
    BY <1>25, <2>7 DEF WorkerCrashes
  <2>8. QED
    BY <1>25, <2>1, <2>2, <2>3, <2>4, <2>5, <2>6, <2>7 DEF WorkerMoves
<1>26. CASE CancelNext
  <2>1. CASE CancelLooks
    BY <1>26, <2>1 DEF CancelLooks
  <2>2. CASE CancelTests
    BY <1>26, <2>2 DEF CancelTests, IsAlive
  <2>3. CASE CancelSignals
    BY <1>26, <2>3 DEF CancelSignals, IsAlive
  <2>4. QED
    BY <1>26, <2>1, <2>2, <2>3 DEF CancelNext
<1>27. CASE UNCHANGED vars
  BY <1>27 DEF vars
<1>28. CASE InterruptJoin
  BY <1>28 DEF InterruptJoin, Interrupt
<1>29. QED
  BY <1>1, <1>2, <1>3, <1>4, <1>5, <1>6, <1>7, <1>8, <1>9, <1>10, <1>11, <1>12,
     <1>13, <1>14, <1>15, <1>16, <1>17, <1>18, <1>19, <1>20, <1>21, <1>22,
     <1>23, <1>24, <1>25, <1>26, <1>27, <1>28 DEF Next, HostNext, HostWaits,
     HookSteps, WorkerNext, WorkerRuns, WorkerMoves

(* Every step keeps the handles in agreement with the worker.              *)
LEMMA HandleStep == TypeInv /\ [Next]_vars => HandleInv'
<1> SUFFICES ASSUME TypeInv, [Next]_vars PROVE HandleInv'
  OBVIOUS
<1> USE ConstantsAssumption DEF TypeInv, TypeOK, CounterInv, HandleInv, Alive,
        Executing, hostVars, workerVars, pipeVars, cancelVars
<1>1. CASE Enter
  <2>1. CASE IsAlive /\ started' = TRUE
              /\ UNCHANGED <<hpc, caller, process, conn, generation, hook, paused,
                             turn, last, workerVars, pipeVars, disturbed>>
    BY <1>1, <2>1 DEF Enter, IsAlive
  <2>2. CASE ~IsAlive /\ started' = TRUE /\ Spawn("enter")
    BY <1>1, <2>2 DEF Enter, Spawn, IsAlive
  <2>3. CASE ~IsAlive /\ SpawnFails("enter")
    BY <1>1, <2>3 DEF Enter, SpawnFails, Cleanup, IsAlive
  <2>4. QED
    BY <1>1, <2>1, <2>2, <2>3 DEF Enter
<1>2. CASE Exec
  <2>1. CASE IsAlive /\ hpc' = "send"
              /\ UNCHANGED <<caller, started, process, conn, generation, hook,
                             paused, turn, last, workerVars, pipeVars, disturbed>>
    BY <1>2, <2>1 DEF Exec, IsAlive
  <2>2. CASE ~IsAlive /\ started' = started /\ Spawn("exec")
    BY <1>2, <2>2 DEF Exec, Spawn, IsAlive
  <2>3. CASE ~IsAlive /\ SpawnFails("exec")
    BY <1>2, <2>3 DEF Exec, SpawnFails, Cleanup, IsAlive
  <2>4. QED
    BY <1>2, <2>1, <2>2, <2>3 DEF Exec
<1>3. CASE SendExec
  BY <1>3 DEF SendExec, IsAlive
<1>4. CASE ReadyFails
  BY <1>4 DEF ReadyFails, Kill, Cleanup, StartRaises, IsAlive
<1>5. CASE RecvReady
  BY <1>5 DEF RecvReady, Kill, Cleanup, StartRaises, IsAlive, NextGeneration
<1>6. CASE HookExec
  BY <1>6 DEF HookExec, IsAlive
<1>7. CASE HookReturns
  <2>1. CASE IsAlive
    BY <1>7, <2>1 DEF HookReturns, IsAlive, AfterStart
  <2>2. CASE ~IsAlive
    BY <1>7, <2>2 DEF HookReturns, Kill, Cleanup, StartRaises, IsAlive
  <2>3. QED
    BY <1>7, <2>1, <2>2
<1>8. CASE HookRaises
  BY <1>8 DEF HookRaises, Kill, Cleanup, StartRaises, IsAlive
<1>9. CASE Unresponsive
  BY <1>9 DEF Unresponsive, Kill, Cleanup, Return, IsAlive
<1>10. CASE WorkerDied
  BY <1>10 DEF WorkerDied, Cleanup, Return, IsAlive
<1>11. CASE AwaitRecv
  BY <1>11 DEF AwaitRecv, Return
<1>12. CASE AwaitRpc
  BY <1>12 DEF AwaitRpc
<1>13. CASE DispatchRpc
  BY <1>13 DEF DispatchRpc, RpcAnswer
<1>14. CASE InterruptReady
  BY <1>14 DEF InterruptReady, Interrupt, StartRaises
<1>15. CASE InterruptAwait
  BY <1>15 DEF InterruptAwait, Interrupt, Return
<1>16. CASE Shutdown
  BY <1>16 DEF Shutdown
<1>17. CASE Joined
  BY <1>17 DEF Joined, Kill, Cleanup, IsAlive
<1>18. CASE HostDies
  BY <1>18 DEF HostDies
<1>19. CASE WorkerReady
  BY <1>19 DEF WorkerReady, SendParent, Connected
<1>20. CASE WorkerInitFails
  BY <1>20 DEF WorkerInitFails, SendParent, Connected
<1>21. CASE WorkerRecv
  BY <1>21 DEF WorkerRecv
<1>22. CASE CodeCalls
  BY <1>22 DEF CodeCalls, SendParent, Connected
<1>23. CASE RpcReturns
  BY <1>23 DEF RpcReturns, SendParent, Connected
<1>24. CASE WorkerSends
  BY <1>24 DEF WorkerSends, SendParent, Connected
<1>25. CASE WorkerMoves
  BY <1>25 DEF WorkerMoves, WorkerEof, WorkerSetup, WorkerRejects, CodeEnds,
     RpcEof, WorkerExits, WorkerCrashes, Connected
<1>26. CASE CancelNext
  BY <1>26 DEF CancelNext, CancelLooks, CancelTests, CancelSignals, IsAlive
<1>27. CASE UNCHANGED vars
  BY <1>27 DEF vars
<1>28. CASE InterruptJoin
  BY <1>28 DEF InterruptJoin, Interrupt
<1>29. QED
  BY <1>1, <1>2, <1>3, <1>4, <1>5, <1>6, <1>7, <1>8, <1>9, <1>10, <1>11, <1>12,
     <1>13, <1>14, <1>15, <1>16, <1>17, <1>18, <1>19, <1>20, <1>21, <1>22,
     <1>23, <1>24, <1>25, <1>26, <1>27, <1>28 DEF Next, HostNext, HostWaits,
     HookSteps, WorkerNext, WorkerRuns, WorkerMoves

(* The typing invariant is inductive.                                      *)
LEMMA TypeInvStep == TypeInv /\ [Next]_vars => TypeInv'
  BY FlagStep, DataStep, CounterStep, HandleStep DEF TypeInv, TypeOK, FlagOK, DataOK

(* Type correctness: every variable keeps its type through every           *)
(* interleaving of the embedder, the worker, its crashes and cancel().     *)
THEOREM TypeCorrect == Spec => []TypeOK
<1>1. TypeInv => TypeOK
  BY DEF TypeInv
<1>2. QED
  BY InitTypeInv, TypeInvStep, <1>1, PTL DEF Spec

(* A live worker is always the one the sandbox holds: no path, interrupted *)
(* or not, drops the handle on a worker it has not seen dead.              *)
THEOREM NeverLosesWorker == Spec => []WorkerHeld
<1>1. TypeInv => WorkerHeld
  BY DEF TypeInv, TypeOK, HandleInv, WorkerHeld
<1>2. QED
  BY InitTypeInv, TypeInvStep, <1>1, PTL DEF Spec

(* shutdown() leaves no worker, whatever it interrupted.                   *)
THEOREM ShutdownKills == Spec => ShutdownEndsWorker
<1>1. TypeInv /\ [Next]_vars => [hpc = "join" /\ hpc' = "idle" /\ process' = 0 => ~Alive']_vars
  <2> SUFFICES ASSUME TypeInv, Next, hpc = "join", hpc' = "idle",
                      process' = 0
               PROVE  ~Alive'
    OBVIOUS
  <2>1. Joined \/ InterruptJoin
    BY DEF Next, HostNext, HostWaits, HookSteps, WorkerNext, WorkerRuns, CancelNext,
       Enter, Exec, SendExec, ReadyFails, RecvReady, HookExec, HookReturns, HookRaises,
       Unresponsive, WorkerDied, AwaitRecv, AwaitRpc, DispatchRpc, InterruptReady,
       InterruptAwait, Interrupt, Shutdown, HostDies, WorkerReady, WorkerInitFails, WorkerRecv,
       WorkerEof, WorkerSetup, WorkerRejects, CodeEnds, CodeCalls, RpcReturns, RpcEof,
       WorkerSends, WorkerExits, WorkerCrashes, CancelLooks, CancelTests,
       CancelSignals, hostVars
  <2>2. CASE Joined
    BY <2>2, KillEnds DEF Joined
  <2>3. CASE InterruptJoin
    BY <2>3 DEF InterruptJoin, Interrupt, TypeInv, TypeOK, HandleInv, Alive, workerVars
  <2>4. QED
    BY <2>1, <2>2, <2>3
<1>2. QED
  BY InitTypeInv, TypeInvStep, <1>1, PTL DEF Spec, ShutdownEndsWorker

-----------------------------------------------------------------------------
(* The invariant of an undisturbed sandbox.                                *)

(* Every step keeps an idle worker and its pipe quiet.                     *)
LEMMA QuietStep ==
  ASSUME TypeInv, CalmInv, [Next]_vars, ~Disturbs
  PROVE  QuietInv'
<1> USE ConstantsAssumption DEF CalmInv, Disturbs, TypeInv, TypeOK, CounterInv, HandleInv,
        QuietInv, Alive, Executing, WorkerPoints, HostPoints, hostVars,
        workerVars, pipeVars, cancelVars, PendingInv, IsEnd, Msg
<1>1. CASE Enter
  <2>1. CASE IsAlive /\ started' = TRUE
              /\ UNCHANGED <<hpc, caller, process, conn, generation, hook, paused,
                             turn, last, workerVars, pipeVars, disturbed>>
    BY <1>1, <2>1 DEF Enter, IsAlive
  <2>2. CASE ~IsAlive /\ started' = TRUE /\ Spawn("enter")
    BY <1>1, <2>2 DEF Enter, Spawn, IsAlive
  <2>3. CASE ~IsAlive /\ SpawnFails("enter")
    BY <1>1, <2>3 DEF Enter, SpawnFails, Cleanup, IsAlive
  <2>4. QED
    BY <1>1, <2>1, <2>2, <2>3 DEF Enter
<1>2. CASE Exec
  <2>1. CASE IsAlive /\ hpc' = "send"
              /\ UNCHANGED <<caller, started, process, conn, generation, hook,
                             paused, turn, last, workerVars, pipeVars, disturbed>>
    BY <1>2, <2>1 DEF Exec, IsAlive
  <2>2. CASE ~IsAlive /\ started' = started /\ Spawn("exec")
    BY <1>2, <2>2 DEF Exec, Spawn, IsAlive
  <2>3. CASE ~IsAlive /\ SpawnFails("exec")
    BY <1>2, <2>3 DEF Exec, SpawnFails, Cleanup, IsAlive
  <2>4. QED
    BY <1>2, <2>1, <2>2, <2>3 DEF Exec
<1>3. CASE SendExec
  BY <1>3 DEF SendExec, IsAlive
<1>4. CASE ReadyFails
  BY <1>4, KillEnds, StartRaisesEnds DEF ReadyFails, IsAlive
<1>5. CASE RecvReady
  <2>1. CASE Head(toParent).type = "Ready" /\ VerifyIsolation
    BY <1>5, <2>1, KillEnds, StartRaisesEnds, PipeTails, PipeHeads DEF
       RecvReady, NextGeneration, AfterStart
  <2>2. CASE ~(Head(toParent).type = "Ready" /\ VerifyIsolation)
    BY <1>5, <2>2, KillEnds, StartRaisesEnds, PipeTails, PipeHeads DEF
       RecvReady, IsAlive
  <2>3. QED
    BY <1>5, <2>1, <2>2
<1>6. CASE HookExec
  BY <1>6 DEF HookExec, IsAlive
<1>7. CASE HookReturns
  <2>1. CASE IsAlive
    BY <1>7, <2>1, KillEnds, StartRaisesEnds DEF HookReturns, IsAlive,
       AfterStart
  <2>2. CASE ~IsAlive
    BY <1>7, <2>2, KillEnds, StartRaisesEnds DEF HookReturns, IsAlive
  <2>3. QED
    BY <1>7, <2>1, <2>2
<1>8. CASE HookRaises
  BY <1>8, KillEnds, StartRaisesEnds DEF HookRaises, IsAlive
<1>9. CASE Unresponsive
  BY <1>9 DEF Unresponsive, Kill, Cleanup, Return, IsAlive
<1>10. CASE WorkerDied
  BY <1>10 DEF WorkerDied, Cleanup, Return, IsAlive
<1>11. CASE AwaitRecv
  BY <1>11, PipeTails, PipeHeads DEF AwaitRecv, Return
<1>12. CASE AwaitRpc
  BY <1>12 DEF AwaitRpc
<1>13. CASE DispatchRpc
  BY <1>13, PipeTails, PipeHeads DEF DispatchRpc, RpcAnswer
<1>14. CASE InterruptReady
  BY <1>14 DEF InterruptReady, Interrupt, StartRaises
<1>15. CASE InterruptAwait
  BY <1>15 DEF InterruptAwait, Interrupt, Return
<1>16. CASE Shutdown
  BY <1>16 DEF Shutdown
<1>17. CASE Joined
  BY <1>17 DEF Joined, Kill, Cleanup, IsAlive
<1>18. CASE HostDies
  BY <1>18 DEF HostDies
<1>19. CASE WorkerReady
  BY <1>19 DEF WorkerReady, SendParent, Connected
<1>20. CASE WorkerInitFails
  BY <1>20 DEF WorkerInitFails, SendParent, Connected
<1>21. CASE WorkerRecv
  BY <1>21, PipeTails, PipeHeads DEF WorkerRecv
<1>22. CASE CodeCalls
  BY <1>22 DEF CodeCalls, SendParent, Connected
<1>23. CASE RpcReturns
  BY <1>23, PipeTails, PipeHeads DEF RpcReturns, SendParent, Connected
<1>24. CASE WorkerSends
  BY <1>24 DEF WorkerSends, SendParent, Connected
<1>25. CASE WorkerMoves
  BY <1>25 DEF WorkerMoves, WorkerEof, WorkerSetup, WorkerRejects, CodeEnds,
     RpcEof, WorkerExits, WorkerCrashes, Connected
<1>26. CASE CancelNext
  BY <1>26 DEF CancelNext, CancelLooks, CancelTests, CancelSignals, IsAlive
<1>27. CASE UNCHANGED vars
  BY <1>27 DEF vars
<1>28. CASE InterruptJoin
  BY <1>28 DEF InterruptJoin, Interrupt
<1>29. QED
  BY <1>1, <1>2, <1>3, <1>4, <1>5, <1>6, <1>7, <1>8, <1>9, <1>10, <1>11, <1>12,
     <1>13, <1>14, <1>15, <1>16, <1>17, <1>18, <1>19, <1>20, <1>21, <1>22,
     <1>23, <1>24, <1>25, <1>26, <1>27, <1>28 DEF Next, HostNext, HostWaits,
     HookSteps, WorkerNext, WorkerRuns, WorkerMoves

(* Every step keeps the pipe of an outstanding execution its own.          *)
LEMMA PendingStep ==
  ASSUME TypeInv, CalmInv, [Next]_vars, ~Disturbs
  PROVE  PendingInv'
<1> USE ConstantsAssumption DEF CalmInv, Disturbs, TypeInv, TypeOK, CounterInv, HandleInv,
        QuietInv, Alive, Executing, WorkerPoints, HostPoints, hostVars,
        workerVars, pipeVars, cancelVars, PendingInv, IsEnd
<1>1. CASE Enter
  <2>1. CASE IsAlive /\ started' = TRUE
              /\ UNCHANGED <<hpc, caller, process, conn, generation, hook, paused,
                             turn, last, workerVars, pipeVars, disturbed>>
    BY <1>1, <2>1 DEF Enter, IsAlive
  <2>2. CASE ~IsAlive /\ started' = TRUE /\ Spawn("enter")
    BY <1>1, <2>2 DEF Enter, Spawn, IsAlive
  <2>3. CASE ~IsAlive /\ SpawnFails("enter")
    BY <1>1, <2>3 DEF Enter, SpawnFails, Cleanup, IsAlive
  <2>4. QED
    BY <1>1, <2>1, <2>2, <2>3 DEF Enter
<1>2. CASE Exec
  <2>1. CASE IsAlive /\ hpc' = "send"
              /\ UNCHANGED <<caller, started, process, conn, generation, hook,
                             paused, turn, last, workerVars, pipeVars, disturbed>>
    BY <1>2, <2>1 DEF Exec, IsAlive
  <2>2. CASE ~IsAlive /\ started' = started /\ Spawn("exec")
    BY <1>2, <2>2 DEF Exec, Spawn, IsAlive
  <2>3. CASE ~IsAlive /\ SpawnFails("exec")
    BY <1>2, <2>3 DEF Exec, SpawnFails, Cleanup, IsAlive
  <2>4. QED
    BY <1>2, <2>1, <2>2, <2>3 DEF Exec
<1>3. CASE SendExec
  <2>1. CASE IsAlive
    <3>1. /\ toParent' = <<>> /\ turn' = turn + 1
          /\ toWorker' = <<Msg("Exec", turn + 1, 0)>>
          /\ wpc' = "loop" /\ conn' = spawned'
      BY <1>3, <2>1 DEF SendExec, IsAlive
    <3>2. QED
      BY <3>1 DEF Msg
  <2>2. CASE ~IsAlive
    BY <1>3, <2>2 DEF SendExec, IsAlive
  <2>3. QED
    BY <2>1, <2>2
<1>4. CASE ReadyFails
  BY <1>4, KillEnds, StartRaisesEnds DEF ReadyFails, IsAlive
<1>5. CASE RecvReady
  <2>1. CASE Head(toParent).type = "Ready" /\ VerifyIsolation
    BY <1>5, <2>1, KillEnds, StartRaisesEnds, PipeTails, PipeHeads DEF
       RecvReady, NextGeneration, AfterStart
  <2>2. CASE ~(Head(toParent).type = "Ready" /\ VerifyIsolation)
    BY <1>5, <2>2, KillEnds, StartRaisesEnds, PipeTails, PipeHeads DEF
       RecvReady, IsAlive
  <2>3. QED
    BY <1>5, <2>1, <2>2
<1>6. CASE HookExec
  BY <1>6 DEF HookExec, IsAlive
<1>7. CASE HookReturns
  <2>1. CASE IsAlive
    BY <1>7, <2>1, KillEnds, StartRaisesEnds DEF HookReturns, IsAlive,
       AfterStart
  <2>2. CASE ~IsAlive
    BY <1>7, <2>2, KillEnds, StartRaisesEnds DEF HookReturns, IsAlive
  <2>3. QED
    BY <1>7, <2>1, <2>2
<1>8. CASE HookRaises
  BY <1>8, KillEnds, StartRaisesEnds DEF HookRaises, IsAlive
<1>9. CASE Unresponsive
  BY <1>9 DEF Unresponsive, Kill, Cleanup, Return, IsAlive
<1>10. CASE WorkerDied
  BY <1>10 DEF WorkerDied, Cleanup, Return, IsAlive
<1>11. CASE AwaitRecv
  BY <1>11, PipeTails, PipeHeads, MsgFields DEF AwaitRecv, Return
<1>12. CASE AwaitRpc
  BY <1>12 DEF AwaitRpc
<1>13. CASE DispatchRpc
  BY <1>13, PipeTails, PipeHeads, MsgFields, SMTT(30) DEF DispatchRpc, RpcAnswer, Msg
<1>14. CASE InterruptReady
  BY <1>14 DEF InterruptReady, Interrupt, StartRaises
<1>15. CASE InterruptAwait
  BY <1>15 DEF InterruptAwait, Interrupt, Return
<1>16. CASE Shutdown
  BY <1>16 DEF Shutdown, Msg
<1>17. CASE Joined
  BY <1>17 DEF Joined, Kill, Cleanup, IsAlive
<1>18. CASE HostDies
  BY <1>18 DEF HostDies
<1>19. CASE WorkerReady
  BY <1>19 DEF WorkerReady, SendParent, Connected
<1>20. CASE WorkerInitFails
  BY <1>20 DEF WorkerInitFails, SendParent, Connected
<1>21. CASE WorkerRecv
  <2>1. CASE Head(toWorker).type = "Exec"
    BY <1>21, <2>1, PipeTails, PipeHeads, MsgFields DEF WorkerRecv
  <2>2. CASE Head(toWorker).type = "Shutdown"
    BY <1>21, <2>2, PipeTails, PipeHeads, MsgFields DEF WorkerRecv
  <2>3. CASE Head(toWorker).type = "RpcReturn"
    BY <1>21, <2>3, PipeTails, PipeHeads, MsgFields DEF WorkerRecv
  <2>4. QED
    BY <1>21, <2>1, <2>2, <2>3, MsgFields DEF WorkerRecv
<1>22. CASE CodeCalls
  <2>1. CASE hpc \notin {"await", "rpc"}
    BY <1>22, <2>1 DEF CodeCalls
  <2>2. CASE hpc \in {"await", "rpc"}
    <3> DEFINE on == Msg("HostTimeOn", wturn, 0)
               rpc == Msg("RpcCall", wturn, calls + 1)
    <3>1. wturn \in 1..MaxTurn /\ calls + 1 \in 1..MaxCall /\ wturn = turn
      BY <1>22, <2>2 DEF CodeCalls
    <3>2. on \in WorkerMsgs /\ rpc \in WorkerMsgs
      BY <3>1, MsgTypes
    <3>3. /\ on.type = "HostTimeOn" /\ rpc.type = "RpcCall"
          /\ on.turn = wturn /\ rpc.turn = wturn
      BY DEF Msg
    <3>4. toParent' = toParent \o <<on, rpc>> /\ wpc' = "rpc"
      BY <1>22, <2>2, SMTT(30) DEF CodeCalls, SendParent, Connected
    <3> HIDE DEF on, rpc
    <3>5. /\ Len(toParent') = Len(toParent) + 2
          /\ \A i \in 1..Len(toParent) : toParent'[i] = toParent[i]
          /\ toParent'[Len(toParent) + 1] = on /\ toParent'[Len(toParent) + 2] = rpc
      BY <3>2, <3>4, SentTwo
    <3>6. /\ UNCHANGED <<hpc, conn, spawned, turn, toWorker, wturn>>
          /\ toWorker = <<>>
      BY <1>22, <2>2 DEF CodeCalls
    <3>7. \A i \in 1..Len(toParent) :
             /\ ~IsEnd(toParent[i]) /\ toParent[i].type # "RpcCall"
             /\ toParent[i].turn = turn
      BY <1>22, <2>2 DEF CodeCalls
    <3>8. \A i \in 1..Len(toParent') :
             /\ ~IsEnd(toParent'[i]) /\ toParent'[i].turn = turn
             /\ toParent'[i].type = "RpcCall" => i = Len(toParent')
      <4> TAKE i \in 1..Len(toParent')
      <4>1. CASE i \in 1..Len(toParent)
        BY <3>5, <3>7, <4>1
      <4>2. CASE i = Len(toParent) + 1
        BY <3>1, <3>3, <3>5, <4>2
      <4>3. CASE i = Len(toParent) + 2
        BY <3>1, <3>3, <3>5, <4>3
      <4>4. QED
        BY <3>5, <4>1, <4>2, <4>3
    <3>9. QED
      BY <2>2, <3>1, <3>4, <3>6, <3>8
  <2>3. QED
    BY <2>1, <2>2
<1>23. CASE RpcReturns
  <2>1. CASE hpc \notin {"await", "rpc"}
    BY <1>23, <2>1 DEF RpcReturns
  <2>2. CASE hpc \in {"await", "rpc"}
    <3>0. Connected
      BY <1>23, <2>2 DEF RpcReturns, Connected
    <3>1. PICK type \in {"HostTimeOff"} :
             toParent' = toParent \o <<Msg(type, wturn, 0)>>
      BY <1>23, <3>0, SMTT(30) DEF RpcReturns, SendParent
    <3> DEFINE sent == Msg(type, wturn, 0)
    <3>2. wturn \in 1..MaxTurn /\ wturn = turn /\ wpc' = "code"
      BY <1>23, <2>2 DEF RpcReturns, Connected
    <3>3. sent \in WorkerMsgs
      BY <3>2, MsgTypes, ConstantsAssumption
    <3>4. sent.type = type /\ sent.turn = wturn
      BY DEF Msg
    <3> HIDE DEF sent
    <3>5. /\ Len(toParent') = Len(toParent) + 1
          /\ \A i \in 1..Len(toParent) : toParent'[i] = toParent[i]
          /\ toParent'[Len(toParent) + 1] = sent
      BY <3>1, <3>3, SentOne DEF sent
    <3>6. /\ UNCHANGED <<hpc, conn, spawned, turn, wturn>>
          /\ toWorker' = <<>>
      BY <1>23, <2>2, PipeTails, PipeHeads DEF RpcReturns
    <3>7. \A i \in 1..Len(toParent) :
             /\ ~IsEnd(toParent[i]) /\ toParent[i].type # "RpcCall"
             /\ toParent[i].turn = turn
      BY <1>23, <2>2 DEF RpcReturns
    <3>8. \A i \in 1..Len(toParent') :
             /\ IsEnd(toParent'[i]) => i = Len(toParent') /\ wpc' = "loop"
             /\ toParent'[i].turn = turn /\ toParent'[i].type # "RpcCall"
      BY <3>2, <3>4, <3>5, <3>7, SMTT(30)
    <3>9. /\ (hpc \in {"await", "rpc"})' /\ conn' = spawned' /\ wturn' = turn'
          /\ wpc' = "code" /\ toWorker' = <<>> /\ Len(toWorker') = 0
      BY <2>2, <3>2, <3>6
    <3>10. \A i \in 1..Len(toParent') :
              /\ toParent'[i].turn = turn' /\ toParent'[i].type # "RpcCall"
              /\ IsEnd(toParent'[i]) => i = Len(toParent') /\ wpc' = "loop"
      BY <3>6, <3>8
    <3>11. QED
      BY <3>9, <3>10, SMTT(30)
  <2>3. QED
    BY <2>1, <2>2
<1>24. CASE WorkerSends
  <2>1. CASE hpc \notin {"await", "rpc"}
    BY <1>24, <2>1 DEF WorkerSends
  <2>2. CASE hpc \in {"await", "rpc"}
    <3>0. Connected
      BY <1>24, <2>2 DEF WorkerSends, Connected
    <3>1. PICK type \in {"Result", "WorkerError"} :
             toParent' = toParent \o <<Msg(type, wturn, 0)>>
      BY <1>24, <3>0, SMTT(30) DEF WorkerSends, SendParent
    <3> DEFINE sent == Msg(type, wturn, 0)
    <3>2. wturn \in 1..MaxTurn /\ wturn = turn /\ wpc' = "loop"
      BY <1>24, <2>2 DEF WorkerSends, Connected
    <3>3. sent \in WorkerMsgs
      BY <3>2, MsgTypes, ConstantsAssumption
    <3>4. sent.type = type /\ sent.turn = wturn
      BY DEF Msg
    <3> HIDE DEF sent
    <3>5. /\ Len(toParent') = Len(toParent) + 1
          /\ \A i \in 1..Len(toParent) : toParent'[i] = toParent[i]
          /\ toParent'[Len(toParent) + 1] = sent
      BY <3>1, <3>3, SentOne DEF sent
    <3>6. /\ UNCHANGED <<hpc, conn, spawned, turn, wturn>>
          /\ toWorker' = <<>>
      BY <1>24, <2>2 DEF WorkerSends
    <3>7. \A i \in 1..Len(toParent) :
             /\ ~IsEnd(toParent[i]) /\ toParent[i].type # "RpcCall"
             /\ toParent[i].turn = turn
      BY <1>24, <2>2 DEF WorkerSends
    <3>8. \A i \in 1..Len(toParent') :
             /\ IsEnd(toParent'[i]) => i = Len(toParent') /\ wpc' = "loop"
             /\ toParent'[i].turn = turn /\ toParent'[i].type # "RpcCall"
      BY <3>2, <3>4, <3>5, <3>7, SMTT(30)
    <3>9. /\ (hpc \in {"await", "rpc"})' /\ conn' = spawned' /\ wturn' = turn'
          /\ wpc' = "loop" /\ toWorker' = <<>> /\ Len(toWorker') = 0
      BY <2>2, <3>2, <3>6
    <3>10. \A i \in 1..Len(toParent') :
              /\ toParent'[i].turn = turn' /\ toParent'[i].type # "RpcCall"
              /\ IsEnd(toParent'[i]) => i = Len(toParent') /\ wpc' = "loop"
      BY <3>6, <3>8
    <3>11. QED
      BY <3>9, <3>10, SMTT(30)
  <2>3. QED
    BY <2>1, <2>2
<1>25. CASE WorkerMoves
  <2>1. CASE WorkerEof
    BY <1>25, <2>1 DEF WorkerEof, Connected
  <2>2. CASE WorkerSetup
    BY <1>25, <2>2 DEF WorkerSetup
  <2>3. CASE WorkerRejects
    BY <1>25, <2>3 DEF WorkerRejects
  <2>4. CASE CodeEnds
    BY <1>25, <2>4 DEF CodeEnds
  <2>5. CASE RpcEof
    BY <1>25, <2>5 DEF RpcEof, Connected
  <2>6. CASE WorkerExits
    BY <1>25, <2>6 DEF WorkerExits
  <2>7. CASE WorkerCrashes
    BY <1>25, <2>7 DEF WorkerCrashes
  <2>8. QED
    BY <1>25, <2>1, <2>2, <2>3, <2>4, <2>5, <2>6, <2>7 DEF WorkerMoves
<1>26. CASE CancelNext
  <2>1. CASE CancelLooks
    BY <1>26, <2>1 DEF CancelLooks
  <2>2. CASE CancelTests
    BY <1>26, <2>2 DEF CancelTests, IsAlive
  <2>3. CASE CancelSignals
    BY <1>26, <2>3 DEF CancelSignals, IsAlive
  <2>4. QED
    BY <1>26, <2>1, <2>2, <2>3 DEF CancelNext
<1>27. CASE UNCHANGED vars
  BY <1>27 DEF vars
<1>28. CASE InterruptJoin
  BY <1>28 DEF InterruptJoin, Interrupt
<1>29. QED
  BY <1>1, <1>2, <1>3, <1>4, <1>5, <1>6, <1>7, <1>8, <1>9, <1>10, <1>11, <1>12,
     <1>13, <1>14, <1>15, <1>16, <1>17, <1>18, <1>19, <1>20, <1>21, <1>22,
     <1>23, <1>24, <1>25, <1>26, <1>27, <1>28 DEF Next, HostNext, HostWaits,
     HookSteps, WorkerNext, WorkerRuns, WorkerMoves

(* Every step keeps served workers verified and prepared.                  *)
LEMMA ServedStep ==
  ASSUME TypeInv, CalmInv, [Next]_vars, ~Disturbs
  PROVE  ServedInv'
<1> USE DEF CalmInv, Disturbs, TypeInv, TypeOK, CounterInv, HandleInv, QuietInv, Alive,
        Executing, WorkerPoints, HostPoints, hostVars, workerVars, pipeVars,
        cancelVars, PendingInv, ServedInv, Verified, VerifyIsolation
<1>1. CASE Enter
  <2>1. CASE IsAlive /\ started' = TRUE
              /\ UNCHANGED <<hpc, caller, process, conn, generation, hook, paused,
                             turn, last, workerVars, pipeVars, disturbed>>
    BY <1>1, <2>1 DEF Enter, IsAlive
  <2>2. CASE ~IsAlive /\ started' = TRUE /\ Spawn("enter")
    BY <1>1, <2>2 DEF Enter, Spawn, IsAlive
  <2>3. CASE ~IsAlive /\ SpawnFails("enter")
    BY <1>1, <2>3 DEF Enter, SpawnFails, Cleanup, IsAlive
  <2>4. QED
    BY <1>1, <2>1, <2>2, <2>3 DEF Enter
<1>2. CASE Exec
  <2>1. CASE IsAlive /\ hpc' = "send"
              /\ UNCHANGED <<caller, started, process, conn, generation, hook,
                             paused, turn, last, workerVars, pipeVars, disturbed>>
    BY <1>2, <2>1 DEF Exec, IsAlive
  <2>2. CASE ~IsAlive /\ started' = started /\ Spawn("exec")
    BY <1>2, <2>2 DEF Exec, Spawn, IsAlive
  <2>3. CASE ~IsAlive /\ SpawnFails("exec")
    BY <1>2, <2>3 DEF Exec, SpawnFails, Cleanup, IsAlive
  <2>4. QED
    BY <1>2, <2>1, <2>2, <2>3 DEF Exec
<1>3. CASE SendExec
  BY <1>3 DEF SendExec, IsAlive
<1>4. CASE ReadyFails
  BY <1>4, KillEnds, StartRaisesEnds DEF ReadyFails, IsAlive
<1>5. CASE RecvReady
  <2>1. CASE Head(toParent).type = "Ready" /\ VerifyIsolation
    BY <1>5, <2>1, KillEnds, StartRaisesEnds, PipeTails, PipeHeads DEF
       RecvReady, NextGeneration, AfterStart
  <2>2. CASE ~(Head(toParent).type = "Ready" /\ VerifyIsolation)
    BY <1>5, <2>2, KillEnds, StartRaisesEnds, PipeTails, PipeHeads DEF
       RecvReady, IsAlive
  <2>3. QED
    BY <1>5, <2>1, <2>2
<1>6. CASE HookExec
  BY <1>6 DEF HookExec, IsAlive
<1>7. CASE HookReturns
  <2>1. CASE IsAlive
    BY <1>7, <2>1, KillEnds, StartRaisesEnds DEF HookReturns, IsAlive,
       AfterStart
  <2>2. CASE ~IsAlive
    BY <1>7, <2>2, KillEnds, StartRaisesEnds DEF HookReturns, IsAlive
  <2>3. QED
    BY <1>7, <2>1, <2>2
<1>8. CASE HookRaises
  BY <1>8, KillEnds, StartRaisesEnds DEF HookRaises, IsAlive
<1>9. CASE Unresponsive
  BY <1>9 DEF Unresponsive, Kill, Cleanup, Return, IsAlive
<1>10. CASE WorkerDied
  BY <1>10 DEF WorkerDied, Cleanup, Return, IsAlive
<1>11. CASE AwaitRecv
  BY <1>11, PipeTails, PipeHeads DEF AwaitRecv, Return
<1>12. CASE AwaitRpc
  BY <1>12 DEF AwaitRpc
<1>13. CASE DispatchRpc
  BY <1>13, PipeTails, PipeHeads DEF DispatchRpc, RpcAnswer
<1>14. CASE InterruptReady
  BY <1>14 DEF InterruptReady, Interrupt, StartRaises
<1>15. CASE InterruptAwait
  BY <1>15 DEF InterruptAwait, Interrupt, Return
<1>16. CASE Shutdown
  BY <1>16 DEF Shutdown
<1>17. CASE Joined
  BY <1>17 DEF Joined, Kill, Cleanup, IsAlive
<1>18. CASE HostDies
  BY <1>18 DEF HostDies
<1>19. CASE WorkerReady
  BY <1>19 DEF WorkerReady, SendParent, Connected
<1>20. CASE WorkerInitFails
  BY <1>20 DEF WorkerInitFails, SendParent, Connected
<1>21. CASE WorkerRecv
  BY <1>21, PipeTails, PipeHeads DEF WorkerRecv
<1>22. CASE CodeCalls
  BY <1>22 DEF CodeCalls, SendParent, Connected
<1>23. CASE RpcReturns
  BY <1>23, PipeTails, PipeHeads DEF RpcReturns, SendParent, Connected
<1>24. CASE WorkerSends
  BY <1>24 DEF WorkerSends, SendParent, Connected
<1>25. CASE WorkerMoves
  BY <1>25 DEF WorkerMoves, WorkerEof, WorkerSetup, WorkerRejects, CodeEnds,
     RpcEof, WorkerExits, WorkerCrashes, Connected
<1>26. CASE CancelNext
  BY <1>26 DEF CancelNext, CancelLooks, CancelTests, CancelSignals, IsAlive
<1>27. CASE UNCHANGED vars
  BY <1>27 DEF vars
<1>28. CASE InterruptJoin
  BY <1>28 DEF InterruptJoin, Interrupt
<1>29. QED
  BY <1>1, <1>2, <1>3, <1>4, <1>5, <1>6, <1>7, <1>8, <1>9, <1>10, <1>11, <1>12,
     <1>13, <1>14, <1>15, <1>16, <1>17, <1>18, <1>19, <1>20, <1>21, <1>22,
     <1>23, <1>24, <1>25, <1>26, <1>27, <1>28 DEF Next, HostNext, HostWaits,
     HookSteps, WorkerNext, WorkerRuns, WorkerMoves

(* Every step that returns a result returns that of the execution out.     *)
LEMMA ResultStep ==
  ASSUME IInv, [Next]_vars, ~disturbed, last' # last,
         last'.kind \in {"Result", "WorkerError"}
  PROVE  last'.of = last'.turn
<1> USE DEF CalmInv, Disturbs, TypeInv, TypeOK, CounterInv, HandleInv, QuietInv, Alive,
        Executing, WorkerPoints, HostPoints, hostVars, workerVars, pipeVars,
        cancelVars, PendingInv, IsEnd, IInv
<1>1. CASE Enter
  BY <1>1 DEF Enter, Spawn, SpawnFails, Cleanup, IsAlive
<1>2. CASE Exec
  <2>1. CASE IsAlive /\ hpc' = "send"
              /\ UNCHANGED <<caller, started, process, conn, generation, hook,
                             paused, turn, last, workerVars, pipeVars, disturbed>>
    BY <1>2, <2>1 DEF Exec, IsAlive
  <2>2. CASE ~IsAlive /\ started' = started /\ Spawn("exec")
    BY <1>2, <2>2 DEF Exec, Spawn, IsAlive
  <2>3. CASE ~IsAlive /\ SpawnFails("exec")
    BY <1>2, <2>3 DEF Exec, SpawnFails, Cleanup, IsAlive
  <2>4. QED
    BY <1>2, <2>1, <2>2, <2>3 DEF Exec
<1>3. CASE SendExec
  BY <1>3 DEF SendExec, IsAlive
<1>4. CASE ReadyFails
  BY <1>4, KillEnds, StartRaisesEnds DEF ReadyFails, IsAlive
<1>5. CASE RecvReady
  <2>1. CASE Head(toParent).type = "Ready" /\ VerifyIsolation
    BY <1>5, <2>1, KillEnds, StartRaisesEnds, PipeTails, PipeHeads DEF
       RecvReady, NextGeneration, AfterStart
  <2>2. CASE ~(Head(toParent).type = "Ready" /\ VerifyIsolation)
    BY <1>5, <2>2, KillEnds, StartRaisesEnds, PipeTails, PipeHeads DEF
       RecvReady, IsAlive
  <2>3. QED
    BY <1>5, <2>1, <2>2
<1>6. CASE HookExec
  BY <1>6 DEF HookExec, IsAlive
<1>7. CASE HookReturns
  <2>1. CASE IsAlive
    BY <1>7, <2>1, KillEnds, StartRaisesEnds DEF HookReturns, IsAlive,
       AfterStart
  <2>2. CASE ~IsAlive
    BY <1>7, <2>2, KillEnds, StartRaisesEnds DEF HookReturns, IsAlive
  <2>3. QED
    BY <1>7, <2>1, <2>2
<1>8. CASE HookRaises
  BY <1>8, KillEnds, StartRaisesEnds DEF HookRaises, IsAlive
<1>9. CASE Unresponsive
  BY <1>9 DEF Unresponsive, Kill, Cleanup, Return, IsAlive
<1>10. CASE WorkerDied
  BY <1>10 DEF WorkerDied, Cleanup, Return, IsAlive
<1>11. CASE AwaitRecv
  BY <1>11, PipeTails, PipeHeads DEF AwaitRecv, Return
<1>12. CASE AwaitRpc
  BY <1>12 DEF AwaitRpc
<1>13. CASE DispatchRpc
  BY <1>13 DEF DispatchRpc, RpcAnswer
<1>14. CASE InterruptReady
  BY <1>14 DEF InterruptReady, Interrupt, StartRaises
<1>15. CASE InterruptAwait
  BY <1>15 DEF InterruptAwait, Interrupt, Return
<1>16. CASE Shutdown
  BY <1>16 DEF Shutdown
<1>17. CASE Joined
  BY <1>17 DEF Joined, Kill, Cleanup, IsAlive
<1>18. CASE HostDies
  BY <1>18 DEF HostDies
<1>19. CASE WorkerNext
  BY <1>19, WorkerKeepsHost DEF WorkerNext
<1>20. CASE CancelNext
  BY <1>20, CancelKeepsHost DEF CancelNext
<1>21. CASE UNCHANGED vars
  BY <1>21 DEF vars
<1>22. CASE InterruptJoin
  BY <1>22 DEF InterruptJoin, Interrupt
<1>23. QED
  BY <1>1, <1>2, <1>3, <1>4, <1>5, <1>6, <1>7, <1>8, <1>9, <1>10, <1>11, <1>12,
     <1>13, <1>14, <1>15, <1>16, <1>17, <1>18, <1>19, <1>20, <1>21, <1>22 DEF Next,
     HostNext, HostWaits, HookSteps

(* A worker just started is undisturbed, whatever became of the one before.*)
LEMMA FreshWorker ==
  ASSUME TypeInv, hpc = "idle", Spawn("enter") \/ Spawn("exec"), started'
  PROVE  CalmInv'
<1> USE DEF TypeInv, TypeOK, CounterInv, HandleInv, Spawn, Alive, Executing
<1>1. QuietInv'
  BY DEF QuietInv
<1>2. PendingInv'
  BY DEF PendingInv
<1>3. ServedInv'
  BY DEF ServedInv
<1>4. QED
  BY <1>1, <1>2, <1>3 DEF CalmInv

(* The only steps that end a disturbance start a worker.                   *)
LEMMA CalmedByStart ==
  ASSUME [Next]_vars, disturbed, ~disturbed'
  PROVE  /\ hpc = "idle" /\ started'
         /\ Spawn("enter") \/ Spawn("exec")
<1> USE DEF cancelVars
<1>1. ~(CancelNext \/ WorkerNext \/ UNCHANGED vars)
  BY WorkerKeepsHost, CancelKeepsHost DEF vars
<1>2. ~(HostWaits \/ HookSteps \/ Shutdown \/ HostDies)
  BY DEF HostWaits, HookSteps, SendExec, ReadyFails, RecvReady, HookExec,
     HookReturns, HookRaises, Unresponsive, WorkerDied, AwaitRecv, AwaitRpc,
     DispatchRpc, Shutdown, Joined, HostDies
<1>3. ~Disturbs
  BY DEF Disturbs, InterruptReady, InterruptAwait, InterruptJoin, Interrupt
<1>4. Enter \/ Exec
  BY <1>1, <1>2, <1>3 DEF Next, HostNext, Disturbs
<1>5. QED
  BY <1>4 DEF Enter, Exec, SpawnFails

(* The invariant holds at the start.                                       *)
LEMMA InitIInv == Init => IInv
<1>1. Init => CalmInv
  BY DEF Init, CalmInv, QuietInv, PendingInv, ServedInv, Alive, Executing
<1>2. QED
  BY <1>1, InitTypeInv DEF IInv

(* The invariant is inductive: a disturbed worker keeps only the types and *)
(* the handles, and the next worker has all of it again.                   *)
LEMMA IInvStep == IInv /\ [Next]_vars => IInv'
<1> SUFFICES ASSUME IInv, [Next]_vars PROVE IInv'
  OBVIOUS
<1>1. TypeInv'
  BY TypeInvStep DEF IInv
<1>2. ASSUME ~disturbed', ~disturbed PROVE CalmInv'
  <2>1. ~Disturbs
    BY <1>2 DEF Disturbs, InterruptReady, InterruptAwait, InterruptJoin, Interrupt
  <2>2. QED
    BY <1>2, <2>1, QuietStep, PendingStep, ServedStep DEF IInv, CalmInv
<1>3. ASSUME ~disturbed', disturbed PROVE CalmInv'
  BY <1>3, CalmedByStart, FreshWorker DEF IInv
<1>4. QED
  BY <1>1, <1>2, <1>3 DEF IInv

(* The invariant holds throughout.                                         *)
LEMMA Invariance == Spec => []IInv
  BY InitIInv, IInvStep, PTL DEF Spec

(* What exec() returns is the outcome of the execution it sent, across     *)
(* crashes, kills, replacements, the start hook and cancel(), until an     *)
(* exception cuts a wait short, and again from the next worker on.         *)
THEOREM ResultsAreOwn == Spec => ResultOfOwnTurn
<1>1. IInv /\ [Next]_vars
         => [last' # last /\ last'.kind \in {"Result", "WorkerError"} /\ ~disturbed
                => last'.of = last'.turn]_vars
  BY ResultStep
<1>2. QED
  BY <1>1, Invariance, PTL DEF Spec, ResultOfOwnTurn

(* Under the same proviso a call to the host is served for the execution   *)
(* that made it ...                                                        *)
THEOREM RpcsAreOwn == Spec => []RpcOfOwnTurn
<1>1. IInv => RpcOfOwnTurn
  BY PipeTails, PipeHeads DEF IInv, CalmInv, TypeInv, TypeOK, CounterInv,
     PendingInv, RpcOfOwnTurn
<1>2. QED
  BY <1>1, Invariance, PTL

(* ... nothing but the start hook's own executions reaches a worker whose  *)
(* start has not completed ...                                             *)
THEOREM StartCompletes == Spec => []PreparedBeforeServed
<1>1. IInv => PreparedBeforeServed
  BY DEF IInv, CalmInv, ServedInv, PreparedBeforeServed, Executing, Alive
<1>2. QED
  BY <1>1, Invariance, PTL

(* ... and nothing at all one whose isolation was refused or not checked.  *)
THEOREM FailsClosed == Spec => []NoDegradedExec
<1>1. IInv => NoDegradedExec
  BY DEF IInv, CalmInv, ServedInv, Verified, NoDegradedExec, Executing, Alive
<1>2. QED
  BY <1>1, Invariance, PTL

(* ... and a sandbox that is not entered keeps no worker.                  *)
THEOREM ClosedIsEmpty == Spec => []NoWorkerOutside
<1>1. IInv => NoWorkerOutside
  BY DEF IInv, CalmInv, ServedInv, NoWorkerOutside
<1>2. QED
  BY <1>1, Invariance, PTL

(* Outcomes and host calls are those of the execution that was sent.       *)
THEOREM TurnsAreOwn == Spec => OwnTurn
BY ResultsAreOwn, RpcsAreOwn, PTL DEF OwnTurn

(* Nothing runs in a worker that is not complete, or not isolated as asked.*)
THEOREM ServesWhenFit == Spec => []FitToServe
BY StartCompletes, FailsClosed, PTL DEF FitToServe

(* A live worker is held, and a sandbox that was left has none.            *)
THEOREM WorkersAccounted == Spec => []WorkerAccounted
BY NeverLosesWorker, ClosedIsEmpty, PTL DEF WorkerAccounted

-----------------------------------------------------------------------------
(* The sandbox implements ExecService.                                     *)

(* A failed start is an entry that failed or an exec() that is refused.    *)
LEMMA StartFailsIsAStep ==
  ASSUME IInv, hpc \in {"ready", "hook"}, StartRaises,
         UNCHANGED <<turn, generation, disturbed>>
  PROVE  Service!EnterOrLeave \/ Service!Refuse
<1>1. started
  BY DEF IInv, TypeInv, CounterInv
<1>2. CASE caller = "enter"
  BY <1>2 DEF StartRaises, Service!EnterOrLeave
<1>3. CASE caller # "enter"
  BY <1>1, <1>3 DEF StartRaises, Service!Refuse, Service!Raised
<1>4. QED
  BY <1>2, <1>3

(* Every step is a step of ExecService, or leaves it unchanged.            *)
LEMMA ServiceStep == IInv /\ [Next]_vars => [Service!SNext]_(Service!svars)
<1> SUFFICES ASSUME IInv, [Next]_vars PROVE [Service!SNext]_(Service!svars)
  OBVIOUS
<1> USE DEF Service!SNext, Service!svars, hostVars, workerVars, pipeVars,
        cancelVars
<1>1. CASE Enter
  <2>1. CASE IsAlive /\ started' = TRUE
              /\ UNCHANGED <<hpc, caller, process, conn, generation, hook, paused,
                             turn, last, workerVars, pipeVars, disturbed>>
    BY <1>1, <2>1 DEF Enter, IsAlive, Service!EnterOrLeave
  <2>2. CASE ~IsAlive /\ started' = TRUE /\ Spawn("enter")
    <3>1. started' \in BOOLEAN /\ disturbed' = FALSE
      BY <2>2, Zenon DEF Spawn
    <3>2. Service!EnterOrLeave
      BY <1>1, <2>2, <3>1 DEF Enter, Spawn, Service!EnterOrLeave
    <3>3. QED
      BY <3>2
  <2>3. CASE ~IsAlive /\ SpawnFails("enter")
    BY <1>1, <2>3 DEF Enter, SpawnFails, Cleanup, IsAlive, Service!EnterOrLeave
  <2>4. QED
    BY <1>1, <2>1, <2>2, <2>3 DEF Enter
<1>2. CASE Exec
  <2>1. CASE IsAlive /\ hpc' = "send"
              /\ UNCHANGED <<caller, started, process, conn, generation, hook,
                             paused, turn, last, workerVars, pipeVars, disturbed>>
    BY <1>2, <2>1 DEF Exec, IsAlive, Service!Refuse
  <2>2. CASE ~IsAlive /\ started' = started /\ Spawn("exec")
    BY <1>2, <2>2 DEF Exec, Spawn, IsAlive, Service!EnterOrLeave
  <2>3. CASE ~IsAlive /\ SpawnFails("exec")
    BY <1>2, <2>3 DEF Exec, SpawnFails, Cleanup, IsAlive, Service!Refuse, Service!Raised
  <2>4. QED
    BY <1>2, <2>1, <2>2, <2>3 DEF Exec
<1>3. CASE SendExec
  <2>1. CASE IsAlive
    BY <1>3, <2>1 DEF SendExec, IsAlive, Service!Call, Service!Refuse,
       Service!Raised, IInv, TypeInv, CounterInv
  <2>2. CASE ~IsAlive
    BY <1>3, <2>2 DEF SendExec, IsAlive, Service!Call, Service!Refuse,
       Service!Raised, IInv, TypeInv, CounterInv
  <2>3. QED
    BY <1>3, <2>1, <2>2
<1>4. CASE ReadyFails
  BY <1>4, StartFailsIsAStep DEF ReadyFails
<1>5. CASE RecvReady
  <2>1. CASE Head(toParent).type = "Ready" /\ VerifyIsolation
    <3>1. started /\ ~disturbed
      BY <1>5 DEF RecvReady, IInv, TypeInv, CounterInv
    <3>2. hpc' \in {"hook", "idle", "send"}
      BY <1>5, <2>1 DEF RecvReady, AfterStart
    <3>3. Service!NewWorker
      BY <1>5, <2>1, <3>1, <3>2 DEF RecvReady, NextGeneration, Service!NewWorker
    <3>4. QED
      BY <3>3
  <2>2. CASE ~(Head(toParent).type = "Ready" /\ VerifyIsolation)
    BY <1>5, <2>2, StartFailsIsAStep DEF RecvReady
  <2>3. QED
    BY <2>1, <2>2
<1>6. CASE HookExec
  BY <1>6 DEF HookExec, IsAlive
<1>7. CASE HookReturns
  <2>1. CASE IsAlive
    BY <1>7, <2>1, StartFailsIsAStep DEF HookReturns, AfterStart
  <2>2. CASE ~IsAlive
    BY <1>7, <2>2, StartFailsIsAStep DEF HookReturns
  <2>3. QED
    BY <1>7, <2>1, <2>2
<1>8. CASE HookRaises
  BY <1>8, StartFailsIsAStep DEF HookRaises
<1>9. CASE Unresponsive
  <2>1. turn \in Nat
    BY DEF IInv, TypeInv, TypeOK
  <2>2. hpc' \in {"hook", "idle"}
        /\ last' = [turn |-> turn, kind |-> "unresponsive", of |-> turn]
    BY <1>9 DEF Unresponsive, Return
  <2>3. QED
    BY <1>9, <2>1, <2>2 DEF Unresponsive, Service!Answer
<1>10. CASE WorkerDied
  <2>1. turn \in Nat
    BY DEF IInv, TypeInv, TypeOK
  <2>2. hpc' \in {"hook", "idle"}
        /\ last' = [turn |-> turn, kind |-> "died", of |-> turn]
    BY <1>10 DEF WorkerDied, Return
  <2>3. QED
    BY <1>10, <2>1, <2>2 DEF WorkerDied, Service!Answer
<1>11. CASE AwaitRecv
  <2>1. CASE Head(toParent).type \in {"Result", "WorkerError"}
    <3>1. Head(toParent).turn \in Nat /\ (~disturbed => Head(toParent).turn = turn)
      BY <1>11, <2>1, PipeTails, PipeHeads, MsgFields, SMTT(30) DEF AwaitRecv, IInv, CalmInv,
         TypeInv, TypeOK, PendingInv
    <3>2. hpc' \in {"hook", "idle"}
          /\ last' = [turn |-> turn, kind |-> Head(toParent).type,
                      of |-> Head(toParent).turn]
      BY <1>11, <2>1 DEF AwaitRecv, Return
    <3>3. Service!Answer
      BY <1>11, <2>1, <3>1, <3>2 DEF AwaitRecv, Service!Answer
    <3>4. QED
      BY <3>3
  <2>2. CASE Head(toParent).type \notin {"Result", "WorkerError"}
    BY <1>11, <2>2 DEF AwaitRecv
  <2>3. QED
    BY <2>1, <2>2
<1>12. CASE AwaitRpc
  BY <1>12 DEF AwaitRpc
<1>13. CASE DispatchRpc
  BY <1>13 DEF DispatchRpc, RpcAnswer
<1>14. CASE InterruptReady
  <2>1. started
    BY <1>14 DEF InterruptReady, IInv, TypeInv, CounterInv
  <2>2. QED
    BY <1>14, <2>1 DEF InterruptReady, Interrupt, StartRaises, Service!Interrupt,
       Service!Raised
<1>15. CASE InterruptAwait
  <2>1. started
    BY <1>15 DEF InterruptAwait, IInv, TypeInv, CounterInv
  <2>2. QED
    BY <1>15, <2>1 DEF InterruptAwait, Interrupt, Return, Service!Interrupt,
       Service!Raised
<1>16. CASE Shutdown
  <2>1. started' \in BOOLEAN
    BY <1>16, Zenon DEF Shutdown
  <2>2. QED
    BY <1>16, <2>1 DEF Shutdown, Service!EnterOrLeave
<1>17. CASE Joined
  BY <1>17 DEF Joined, Kill, Cleanup, IsAlive
<1>18. CASE HostDies
  BY <1>18 DEF HostDies, Service!Die
<1>19. CASE WorkerNext
  BY <1>19, WorkerKeepsHost DEF WorkerNext
<1>20. CASE CancelNext
  BY <1>20, CancelKeepsHost DEF CancelNext
<1>21. CASE UNCHANGED vars
  BY <1>21 DEF vars
<1>22. CASE InterruptJoin
  <2>1. started' = FALSE /\ disturbed' = TRUE
    <3>1. started \in BOOLEAN /\ ~started /\ started' = started
      BY <1>22 DEF InterruptJoin, IInv, TypeInv, TypeOK, CounterInv
    <3>2. disturbed' = TRUE
      BY <1>22 DEF InterruptJoin, Interrupt
    <3>3. QED
      BY <3>1, <3>2, Zenon
  <2>2. Service!Interrupt
    BY <1>22, <2>1 DEF InterruptJoin, Interrupt, Service!Interrupt
  <2>3. QED
    BY <2>2
<1>23. QED
  BY <1>1, <1>2, <1>3, <1>4, <1>5, <1>6, <1>7, <1>8, <1>9, <1>10, <1>11, <1>12,
     <1>13, <1>14, <1>15, <1>16, <1>17, <1>18, <1>19, <1>20, <1>21, <1>22 DEF Next,
     HostNext, HostWaits, HookSteps

(* The sandbox, its worker and its hook together do only what ExecService  *)
(* allows: the refinement an embedder relies on.                           *)
THEOREM Refinement == Spec => ImplementsService
<1>1. Init => Service!SInit
  BY DEF Init, Service!SInit
<1>2. IInv /\ [Next]_vars => [Service!SNext]_(Service!svars)
  BY ServiceStep
<1>3. QED
  BY <1>1, <1>2, Invariance, PTL DEF Spec, ImplementsService, Service!SSpec
=============================================================================
