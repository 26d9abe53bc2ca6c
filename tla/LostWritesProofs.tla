-------------------------- MODULE LostWritesProofs --------------------------
(***************************************************************************)
(* Proofs about LostWrites, for any executions, files and number of        *)
(* changes: content that did not reach the parent is never lost in         *)
(* silence, and a failure is reported once; and about HostCalls, for any   *)
(* threads, executions and calls: the deadline follows the clock, and a    *)
(* pipe with one reader delivers every answer to its call.                 *)
(***************************************************************************)
EXTENDS LostWrites, HostCalls, FiniteSetTheorems, SequenceTheorems, TLAPS

-----------------------------------------------------------------------------
(* The inductive invariant.                                                *)

(* The mark _save_raised says exactly that the code saw the save of the    *)
(* buffer's present content fail.                                          *)
MarkInv == \A f \in Files :
    /\ seen[f] <= version[f]
    /\ raised[f] <=> seen[f] = version[f]

(* A loss is that of a finalized file without the mark, and has one        *)
(* reporter.                                                               *)
LossInv == \A f \in Files :
    /\ f \in hooked => file[f] = "closed" /\ ~raised[f]
    /\ \A e \in Execs : f \in lost[e] =>
          /\ file[f] = "closed" /\ ~raised[f] /\ f \notin hooked
          /\ \A d \in Execs : f \in lost[d] => d = e

(* An execution is charged once it runs, and fails if it was.              *)
ChargeInv == \A e \in Execs : lost[e] # {} =>
    /\ state[e] # "new"
    /\ state[e] = "done" => error[e] # "none"

LostInv == LostWritesTypeOK /\ MarkInv /\ LossInv /\ ChargeInv /\ NoSilentLoss

-----------------------------------------------------------------------------
(* A save settles what the mark says of the file, and touches no loss: a   *)
(* file that is still open has none.                                       *)
LEMMA SaveKeeps ==
  ASSUME NEW e \in Execs, NEW f \in Files, NEW ok \in BOOLEAN,
         NEW closing \in BOOLEAN, LostInv, Save(e, f, ok, closing)
  PROVE  LostInv'
<1> USE DEF Save, Uses, Push, execVars
<1>1. LostWritesTypeOK'
  BY DEF LostInv, LostWritesTypeOK
<1>2. MarkInv'
  <2>1. \A g \in Files : version[g] \in Nat /\ seen[g] \in Nat
    BY LostWritesAssumption DEF LostInv, LostWritesTypeOK
  <2>2. \A g \in Files : g # f => raised'[g] = raised[g] /\ seen'[g] = seen[g]
    BY DEF LostInv, LostWritesTypeOK
  <2>3. CASE ok
    <3>1. raised' = raised
      BY <2>3, ZenonT(30) DEF LostInv, LostWritesTypeOK
    <3> QED  BY <2>3, <3>1 DEF LostInv, MarkInv
  <2>4. CASE ~ok
    <3>1. raised'[f] /\ seen'[f] = version[f]
      BY <2>4 DEF LostInv, LostWritesTypeOK
    <3> QED  BY <2>1, <2>2, <3>1 DEF LostInv, MarkInv
  <2> QED  BY <2>3, <2>4
<1>3. LossInv'
  BY DEF LostInv, LostWritesTypeOK, LossInv
<1>4. ChargeInv'
  BY DEF LostInv, ChargeInv
<1>5. NoSilentLoss'
  BY DEF LostInv, LostWritesTypeOK, NoSilentLoss, ChargedTo
<1> QED  BY <1>1, <1>2, <1>3, <1>4, <1>5 DEF LostInv

(* A finalizer runs in a context c, on a file that is not closed: either   *)
(* the content is saved, or its failed save was seen, or the loss is       *)
(* charged.                                                                *)
LEMMA FinalizeKeeps ==
  ASSUME NEW f \in Files, NEW c \in Execs \cup {"nobody"}, NEW ok \in BOOLEAN,
         LostInv, file[f] \in {"open", "cycle"}, Finalize(f, c, ok)
  PROVE  LostInv'
<1> USE DEF Finalize, Pushes, Push, execVars
<1>1. CASE (raised[f] \/ ok \/ ~channel) /\ UNCHANGED <<lost, hooked>>
  <2>1. LostWritesTypeOK'
    BY <1>1 DEF LostInv, LostWritesTypeOK
  <2>2. MarkInv' /\ ChargeInv'
    BY <1>1 DEF LostInv, MarkInv, ChargeInv
  <2>3. LossInv'
    BY <1>1 DEF LostInv, LostWritesTypeOK, LossInv
  <2>4. NoSilentLoss'
    <3>1. \A g \in Files : g # f => file'[g] = file[g] /\ saved'[g] = saved[g]
      BY DEF LostInv, LostWritesTypeOK
    <3>2. saved'[f] = version[f] \/ seen[f] = version[f] \/ ~channel
      BY <1>1 DEF LostInv, LostWritesTypeOK, MarkInv
    <3> QED  BY <1>1, <3>1, <3>2 DEF LostInv, NoSilentLoss, ChargedTo
  <2> QED  BY <2>1, <2>2, <2>3, <2>4 DEF LostInv
<1>2. CASE ~raised[f] /\ Charge(f, c)
  <2> USE <1>2 DEF Charge
  <2>1. LostWritesTypeOK'
    BY DEF LostInv, LostWritesTypeOK
  <2>2. MarkInv'
    BY DEF LostInv, MarkInv
  <2>3. LossInv'
    BY DEF LostInv, LostWritesTypeOK, LossInv
  <2>4. ChargeInv'
    BY DEF LostInv, LostWritesTypeOK, ChargeInv
  <2>5. NoSilentLoss'
    BY DEF LostInv, LostWritesTypeOK, NoSilentLoss, ChargedTo
  <2> QED  BY <2>1, <2>2, <2>3, <2>4, <2>5 DEF LostInv
<1> QED  BY <1>1, <1>2

(* A change takes the mark off.                                            *)
LEMMA WriteKeeps ==
  ASSUME NEW e \in Execs, NEW f \in Files, LostInv, Write(e, f)
  PROVE  LostInv'
<1> USE DEF Write, Uses, Changed, execVars
<1>1. LostWritesTypeOK'
  BY LostWritesAssumption DEF LostInv, LostWritesTypeOK
<1>2. MarkInv'
  BY DEF LostInv, LostWritesTypeOK, MarkInv
<1>3. LossInv'
  BY DEF LostInv, LostWritesTypeOK, LossInv
<1>4. ChargeInv'
  BY DEF LostInv, ChargeInv
<1>5. NoSilentLoss'
  BY DEF LostInv, LostWritesTypeOK, NoSilentLoss, ChargedTo
<1> QED  BY <1>1, <1>2, <1>3, <1>4, <1>5 DEF LostInv

(* An execution ends: the losses it was charged with make it fail.         *)
LEMMA EndKeeps ==
  ASSUME NEW e \in Execs, NEW own \in BOOLEAN, LostInv, End(e, own)
  PROVE  LostInv'
<1> USE DEF End, Settled
<1>1. LostWritesTypeOK'
  BY DEF LostInv, LostWritesTypeOK
<1>2. MarkInv' /\ LossInv'
  BY DEF LostInv, MarkInv, LossInv
<1>3. ChargeInv'
  BY DEF LostInv, LostWritesTypeOK, ChargeInv
<1>4. NoSilentLoss'
  <2>1. \A d \in Execs : lost'[d] # {} => (state'[d] = "done" => error'[d] # "none")
    BY <1>3 DEF ChargeInv
  <2> QED  BY <2>1 DEF LostInv, NoSilentLoss, ChargedTo
<1> QED  BY <1>1, <1>2, <1>3, <1>4 DEF LostInv

(* The other steps: an execution begins, a file is opened or left to the   *)
(* collector, the worker shuts down.                                       *)
LEMMA OthersKeep ==
  ASSUME LostInv,
         \/ ShutDown \/ \E e \in Execs : Begin(e)
         \/ \E f \in Files : Leave(f) \/ \E e \in Execs : Open(e, f)
  PROVE  LostInv'
<1> USE DEF Begin, Open, Leave, ShutDown, execVars
<1>1. LostWritesTypeOK'
  <2>1. channel' \in BOOLEAN
    BY DEF LostInv, LostWritesTypeOK
  <2> QED  BY <2>1 DEF LostInv, LostWritesTypeOK
<1>2. MarkInv'
  BY DEF LostInv, MarkInv
<1>3. LossInv'
  BY DEF LostInv, LostWritesTypeOK, LossInv
<1>4. ChargeInv'
  BY DEF LostInv, LostWritesTypeOK, ChargeInv
<1>5. NoSilentLoss'
  BY DEF LostInv, LostWritesTypeOK, NoSilentLoss, ChargedTo
<1> QED  BY <1>1, <1>2, <1>3, <1>4, <1>5 DEF LostInv

-----------------------------------------------------------------------------
(* The invariant holds throughout.                                         *)
LEMMA Invariant == Spec => []LostInv
<1>1. Init => LostInv
  <2> SUFFICES ASSUME Init PROVE LostInv
    OBVIOUS
  <2>1. raised \in [Files -> BOOLEAN] /\ channel \in BOOLEAN
    BY DEF Init
  <2>2. LostWritesTypeOK
    BY <2>1, LostWritesAssumption DEF Init, LostWritesTypeOK
  <2>3. MarkInv /\ LossInv /\ ChargeInv /\ NoSilentLoss
    BY DEF Init, MarkInv, LossInv, ChargeInv, NoSilentLoss
  <2> QED  BY <2>2, <2>3 DEF LostInv
<1>2. LostInv /\ [Next]_vars => LostInv'
  <2> SUFFICES ASSUME LostInv, [Next]_vars PROVE LostInv'
    OBVIOUS
  <2>1. CASE \/ ShutDown \/ \E e \in Execs : Begin(e)
             \/ \E f \in Files : Leave(f) \/ \E e \in Execs : Open(e, f)
    BY <2>1, OthersKeep
  <2>2. ASSUME NEW e \in Execs, NEW own \in BOOLEAN, End(e, own)
        PROVE  LostInv'
    BY <2>2, EndKeeps
  <2>3. ASSUME NEW e \in Execs, NEW f \in Files, Write(e, f)
        PROVE  LostInv'
    BY <2>3, WriteKeeps
  <2>4. ASSUME NEW e \in Execs, NEW f \in Files, NEW ok \in BOOLEAN,
               NEW closing \in BOOLEAN, Save(e, f, ok, closing)
        PROVE  LostInv'
    BY <2>4, SaveKeeps
  <2>5. ASSUME NEW e \in Execs, NEW f \in Files, NEW ok \in BOOLEAN, Drop(e, f, ok)
        PROVE  LostInv'
    BY <2>5, FinalizeKeeps DEF Drop, Uses
  <2>6. ASSUME NEW f \in Files, NEW c \in Execs \cup {"nobody"}, NEW ok \in BOOLEAN,
               Collect(f, c, ok)
        PROVE  LostInv'
    BY <2>6, FinalizeKeeps DEF Collect
  <2>7. CASE UNCHANGED vars
    BY <2>7 DEF vars, LostInv, LostWritesTypeOK, MarkInv, LossInv, ChargeInv,
                NoSilentLoss, ChargedTo
  <2> QED  BY <2>1, <2>2, <2>3, <2>4, <2>5, <2>6, <2>7 DEF Next
<1> QED  BY <1>1, <1>2, PTL DEF Spec

(* The variables keep their types.                                         *)
THEOREM TypeCorrect == Spec => []LostWritesTypeOK
  BY Invariant, PTL DEF LostInv

(* Content that never reached the parent is never lost in silence: the     *)
(* code saw its save fail, an execution fails for it, the previous hook    *)
(* was told, or the worker was shutting down.                              *)
THEOREM NoSilentLossHolds == Spec => []NoSilentLoss
  BY Invariant, PTL DEF LostInv

(* A failure is reported once: not to the code and an execution both, not  *)
(* to two executions, not to an execution and the hook.                    *)
THEOREM ReportedOnceHolds == Spec => []ReportedOnce
<1>1. LostInv => ReportedOnce
  <2> SUFFICES ASSUME LostInv, NEW f \in Files
               PROVE  /\ ChargedTo(f) # {} \/ f \in hooked => seen[f] # version[f]
                      /\ Cardinality(ChargedTo(f)) + (IF f \in hooked THEN 1 ELSE 0) <= 1
    BY DEF ReportedOnce
  <2>1. ChargedTo(f) # {} \/ f \in hooked => seen[f] # version[f]
    BY DEF LostInv, LossInv, MarkInv, ChargedTo
  <2>2. CASE ChargedTo(f) = {}
    <3>1. Cardinality(ChargedTo(f)) = 0
      BY <2>2, FS_EmptySet
    <3> QED  BY <2>1, <3>1
  <2>3. ASSUME NEW e \in ChargedTo(f)
        PROVE  Cardinality(ChargedTo(f)) + (IF f \in hooked THEN 1 ELSE 0) <= 1
    <3>1. ChargedTo(f) = {e} /\ f \notin hooked
      BY DEF LostInv, LossInv, ChargedTo
    <3>2. Cardinality(ChargedTo(f)) = 1
      BY <3>1, FS_Singleton
    <3> QED  BY <3>1, <3>2
  <2> QED  BY <2>1, <2>2, <2>3
<1> QED  BY <1>1, Invariant, PTL

-----------------------------------------------------------------------------
(***************************************************************************)
(* Calls from a worker to its parent (module HostCalls), for any threads,  *)
(* executions, calls and unclosed files.                                   *)
(***************************************************************************)
Calling  == [pc : PCs, clock : 0..MaxTurn, call : Nat]
Messages(types) == [type : types, turn : 0..MaxTurn, call : Nat]
ToWorker == Messages({"Exec", "RpcReturn"})
ToParent == Messages({"Result", "RpcCall"} \cup ClockTypes)

CallsShape ==
    /\ hpc \in {"idle", "await", "killed"} /\ turn \in 0..MaxTurn
    /\ paused \in BOOLEAN /\ told \in BOOLEAN
    /\ mpc \in {"loop", "code", "ending", "closing", "result", "replying"}
    /\ scope \in 0..MaxTurn
    /\ toWorker \in Seq(ToWorker) /\ toParent \in Seq(ToParent)
    /\ depth \in [Turns -> Nat]
    /\ clockLock \in [Turns -> Threads \cup {"none"}]
    /\ born \in [Others -> 0..MaxTurn]
    /\ stack \in [Threads -> Seq(Calling)]
    /\ calls \in Nat /\ made \in Nat /\ garbage \in Nat /\ garbage <= made

(* An execution is in one place: on its way, in the worker, or its result  *)
(* on its way back.  An idle parent has none out.                          *)
ExecPending   == \E i \in 1..Len(toWorker) : toWorker[i].type = "Exec"
ResultPending == \E i \in 1..Len(toParent) : toParent[i].type = "Result"

TurnInv ==
    /\ hpc = "idle" => ~ExecPending /\ ~ResultPending /\ mpc = "loop"
    /\ mpc # "loop" => ~ExecPending /\ ~ResultPending
    /\ ~(ExecPending /\ ResultPending)
    /\ \A i \in 1..Len(toWorker) : toWorker[i].type = "Exec"
          => /\ toWorker[i].turn = turn /\ turn # 0
             /\ \A j \in 1..Len(toWorker) : toWorker[j].type = "Exec" => i = j
    /\ \A i, j \in 1..Len(toParent) :
          toParent[i].type = "Result" /\ toParent[j].type = "Result" => i = j
    /\ scope = IF mpc \in {"code", "ending", "closing"} THEN turn ELSE 0
    /\ mpc = "code" => turn # 0

(* Nothing runs under the clock of an execution that has not begun.        *)
Unused(s) ==
    /\ depth[s] = 0
    /\ \A t \in Others : born[t] # s
    /\ \A t \in Threads : \A i \in 1..Len(stack[t]) : stack[t][i].clock # s

FreshInv ==
    \A s \in Turns : s > turn \/ (s = turn /\ ExecPending) => Unused(s)

(* A call in the middle of HostClock.enter or exit holds its clock's lock, *)
(* alone, so the last one out still finds itself alone when it is told.    *)
InClock(f) == f.pc \in {"entering", "pausing", "exiting", "resuming"}

ClockInv ==
    \A t \in Threads : \A i \in 1..Len(stack[t]) :
        LET f == stack[t][i] IN
        /\ f.pc \notin {"call", "sending", "recv"} => f.clock \in Turns
        /\ InClock(f)
              => /\ clockLock[f.clock] = t
                 /\ \A j \in 1..Len(stack[t]) :
                       InClock(stack[t][j]) /\ stack[t][j].clock = f.clock => i = j
        /\ f.pc = "resuming" => depth[f.clock] = 1

(* running["paused"] is whether the running execution's clock is stopped;  *)
(* the parent knows, or the last clock message on its way says so, ahead   *)
(* of the result.                                                          *)
PauseInv ==
    /\ told = (scope # 0 /\ depth[scope] > 0)
    /\ hpc = "idle" => NoClockMessage(toParent)
    /\ hpc = "await" /\ NoClockMessage(toParent) => paused = told
    /\ \A i \in 1..Len(toParent) :
          toParent[i].type \in ClockTypes
          /\ (\A j \in 1..Len(toParent) : j > i => toParent[j].type \notin ClockTypes)
             => told = (toParent[i].type = "HostTimeOn")
    /\ \A i, j \in 1..Len(toParent) :
          toParent[i].type = "Result" /\ j > i => toParent[j].type \notin ClockTypes

CallsInv == CallsShape /\ TurnInv /\ FreshInv /\ ClockInv /\ PauseInv

(* The code starts no thread and leaves no file to the collector.          *)
Quiet == (\A t \in Others : born[t] = 0) /\ made = 0

(* A call that reads the pipe for its answer.                              *)
Awaits(c) == \E i \in 1..Len(stack["main"]) :
                stack["main"][i].pc = "recv" /\ stack["main"][i].call = c

(* Then calls are made one at a time, by the main thread: a call on its    *)
(* way, or else its answer, is the only one, and its caller is reading.    *)
ReaderInv ==
    Quiet =>
        /\ \A t \in Others : stack[t] = <<>>
        /\ Len(stack["main"]) <= 1 /\ (stack["main"] # <<>> => mpc = "code")
        /\ \A i \in 1..Len(toParent) : toParent[i].type = "RpcCall"
              => /\ Awaits(toParent[i].call) /\ toWorker = <<>>
                 /\ \A j \in 1..Len(toParent) : toParent[j].type = "RpcCall" => i = j
        /\ \A i \in 1..Len(toWorker) : toWorker[i].type = "RpcReturn"
              => /\ Awaits(toWorker[i].call) /\ Len(toWorker) = 1
                 /\ \A j \in 1..Len(toParent) : toParent[j].type # "RpcCall"
        /\ crossed = {}

-----------------------------------------------------------------------------
(* What a queue holds once a message is added to it, or taken from it.     *)
LEMMA Queued ==
  ASSUME NEW S, NEW q \in Seq(S), NEW m \in S
  PROVE  /\ Append(q, m) \in Seq(S) /\ Len(q) \in Nat
         /\ Len(Append(q, m)) = Len(q) + 1
         /\ \A i \in 1..Len(q) : Append(q, m)[i] = q[i]
         /\ Append(q, m)[Len(q) + 1] = m
BY AppendProperties

LEMMA Taken ==
  ASSUME NEW S, NEW q \in Seq(S), q # <<>>
  PROVE  /\ Tail(q) \in Seq(S) /\ Len(q) \in Nat /\ 1 <= Len(q)
         /\ Len(Tail(q)) = Len(q) - 1
         /\ \A i \in 1..Len(Tail(q)) : i + 1 \in 1..Len(q) /\ Tail(q)[i] = q[i + 1]
         /\ Head(q) = q[1] /\ q[1] \in S
BY HeadTailProperties

(* The threads are not the holder of a free lock.                          *)
LEMMA ThreadsNamed == "none" \notin Threads /\ "main" \in Threads /\ Others \subseteq Threads
BY HostCallsAssumption DEF Threads

LEMMA TurnsShape == Turns = 1..MaxTurn /\ MaxTurn \in Nat
BY HostCallsAssumption DEF Turns

(* A thread's innermost call.                                              *)
LEMMA TopFrame ==
  ASSUME CallsShape, NEW t \in Threads, stack[t] # <<>>
  PROVE  /\ Len(stack[t]) \in Nat /\ Len(stack[t]) \in 1..Len(stack[t])
         /\ Top(t) = stack[t][Len(stack[t])] /\ Top(t) \in Calling
<1>1. stack[t] \in Seq(Calling)
  BY DEF CallsShape
<1>2. Len(stack[t]) \in Nat /\ Len(stack[t]) # 0
  BY <1>1
<1> QED  BY <1>1, <1>2 DEF Top

(* It moves on...                                                          *)
LEMMA GotoFrames ==
  ASSUME CallsShape, NEW t \in Threads, stack[t] # <<>>, NEW l \in PCs, Goto(t, l)
  PROVE  /\ stack' \in [Threads -> Seq(Calling)]
         /\ \A u \in Threads : Len(stack'[u]) = Len(stack[u])
         /\ \A u \in Threads : u # t => stack'[u] = stack[u]
         /\ \A i \in 1..Len(stack[t]) : i # Len(stack[t]) => stack'[t][i] = stack[t][i]
         /\ stack'[t][Len(stack[t])]
               = [pc |-> l, clock |-> Top(t).clock, call |-> Top(t).call]
<1> DEFINE n == Len(stack[t])
           f == [stack[t][n] EXCEPT !.pc = l]
<1>1. n \in Nat /\ n \in 1..n /\ Top(t) = stack[t][n] /\ stack[t][n] \in Calling
  BY TopFrame
<1>2. f = [pc |-> l, clock |-> Top(t).clock, call |-> Top(t).call] /\ f \in Calling
  BY <1>1 DEF Calling
<1>3. stack \in [Threads -> Seq(Calling)] /\ stack[t] \in Seq(Calling)
  BY DEF CallsShape
<1>4. stack' = [stack EXCEPT ![t] = [stack[t] EXCEPT ![n] = f]]
  BY DEF Goto
<1> HIDE DEF f, n
<1>5. /\ [stack[t] EXCEPT ![n] = f] \in Seq(Calling)
      /\ Len([stack[t] EXCEPT ![n] = f]) = Len(stack[t])
      /\ \A i \in 1..Len(stack[t]) :
            [stack[t] EXCEPT ![n] = f][i] = IF i = n THEN f ELSE stack[t][i]
  BY <1>1, <1>2, <1>3, ExceptSeq DEF n
<1>6. /\ stack'[t] = [stack[t] EXCEPT ![n] = f]
      /\ \A u \in Threads : u # t => stack'[u] = stack[u]
  BY <1>3, <1>4
<1>7. stack' \in [Threads -> Seq(Calling)]
  BY <1>3, <1>4, <1>5
<1> QED  BY <1>1, <1>2, <1>5, <1>6, <1>7 DEF n

(* ...or returns...                                                        *)
LEMMA PopFrames ==
  ASSUME CallsShape, NEW t \in Threads, stack[t] # <<>>, Pop(t)
  PROVE  /\ stack' \in [Threads -> Seq(Calling)]
         /\ \A u \in Threads : u # t => stack'[u] = stack[u]
         /\ Len(stack'[t]) = Len(stack[t]) - 1
         /\ \A i \in 1..Len(stack'[t]) : /\ i \in 1..Len(stack[t]) /\ i # Len(stack[t])
                                         /\ stack'[t][i] = stack[t][i]
<1> DEFINE n == Len(stack[t])
           r == SubSeq(stack[t], 1, n - 1)
<1>1. n \in Nat /\ n \in 1..n
  BY TopFrame
<1>2. stack \in [Threads -> Seq(Calling)] /\ stack[t] \in Seq(Calling)
  BY DEF CallsShape
<1>3. r \in Seq(Calling) /\ Len(r) = n - 1 /\ \A i \in 1..(n - 1) : r[i] = stack[t][i]
  <2>1. n - 1 \in Int /\ \A i \in 1..(n - 1) : i \in 1..n /\ stack[t][i] \in Calling
    BY <1>1, <1>2, ElementOfSeq
  <2>2. r \in Seq(Calling) /\ Len(r) = IF 1 <= n - 1 THEN n - 1 - 1 + 1 ELSE 0
    BY <2>1, SubSeqProperties
  <2>3. \A i \in 1..(n - 1 - 1 + 1) : r[i] = stack[t][1 + i - 1]
    BY <2>1, SubSeqProperties
  <2> HIDE DEF r, n
  <2> QED  BY <1>1, <2>2, <2>3
<1>4. stack' = [stack EXCEPT ![t] = r]
  BY DEF Pop
<1> HIDE DEF r, n
<1>5. stack'[t] = r /\ \A u \in Threads : u # t => stack'[u] = stack[u]
  BY <1>2, <1>4
<1>6. stack' \in [Threads -> Seq(Calling)]
  BY <1>2, <1>3, <1>4
<1> QED  BY <1>1, <1>3, <1>5, <1>6 DEF n

(* ...or another one starts on top of it.                                  *)
LEMMA PushFrames ==
  ASSUME CallsShape, NEW t \in Threads, ClockOf(t) \in 0..MaxTurn, PushCall(t)
  PROVE  /\ stack' \in [Threads -> Seq(Calling)]
         /\ \A u \in Threads : u # t => stack'[u] = stack[u]
         /\ Len(stack'[t]) = Len(stack[t]) + 1 /\ Len(stack[t]) \in Nat
         /\ \A i \in 1..Len(stack[t]) : stack'[t][i] = stack[t][i]
         /\ stack'[t][Len(stack[t]) + 1]
               = Frame(IF ClockOf(t) = 0 THEN "call" ELSE "enter", ClockOf(t), calls + 1)
<1> DEFINE f == Frame(IF ClockOf(t) = 0 THEN "call" ELSE "enter", ClockOf(t), calls + 1)
<1>1. stack \in [Threads -> Seq(Calling)] /\ stack[t] \in Seq(Calling) /\ calls \in Nat
  BY DEF CallsShape
<1>2. f \in Calling
  BY <1>1 DEF Frame, Calling, PCs
<1>3. stack' = [stack EXCEPT ![t] = Append(stack[t], f)]
  BY DEF PushCall
<1> HIDE DEF f
<1>4. stack'[t] = Append(stack[t], f) /\ \A u \in Threads : u # t => stack'[u] = stack[u]
  BY <1>1, <1>3
<1>5. stack' \in [Threads -> Seq(Calling)]
  BY <1>1, <1>2, <1>3, Queued
<1>6. /\ Len(Append(stack[t], f)) = Len(stack[t]) + 1 /\ Len(stack[t]) \in Nat
      /\ \A i \in 1..Len(stack[t]) : Append(stack[t], f)[i] = stack[t][i]
      /\ Append(stack[t], f)[Len(stack[t]) + 1] = f
  BY <1>1, <1>2, Queued
<1> QED  BY <1>4, <1>5, <1>6 DEF f

-----------------------------------------------------------------------------
(* A step that starts no execution, and moves only clocks in use, leaves   *)
(* the clocks to come untouched.                                           *)
LEMMA FreshKept ==
  ASSUME CallsInv, turn' = turn, born' = born, ExecPending' => ExecPending,
         \A s \in Turns : depth'[s] # depth[s]
            => \E u \in Threads : \E j \in 1..Len(stack[u]) : stack[u][j].clock = s,
         \A u \in Threads : \A i \in 1..Len(stack'[u]) :
            \/ stack'[u][i].clock = 0 \/ stack'[u][i].clock = scope
            \/ u \in Others /\ stack'[u][i].clock = born[u]
            \/ \E j \in 1..Len(stack[u]) : stack'[u][i].clock = stack[u][j].clock
  PROVE  FreshInv'
<1> SUFFICES ASSUME NEW s \in Turns, s > turn \/ (s = turn /\ ExecPending)
             PROVE  Unused(s)'
  BY DEF FreshInv
<1>1. Unused(s)
  BY DEF CallsInv, FreshInv
<1>2. s # scope /\ s # 0
  <2>1. s \in Int /\ turn \in Int /\ s >= 1 /\ s >= turn
    BY TurnsShape DEF CallsInv, CallsShape
  <2>2. scope = 0 \/ (scope = turn /\ ~ExecPending)
    BY DEF CallsInv, TurnInv
  <2> QED  BY <2>1, <2>2
<1> QED  BY <1>1, <1>2 DEF Unused

(* Only a thread in the middle of entering or leaving a clock is there.    *)
LEMMA ClockAlone ==
  ASSUME CallsInv, NEW t \in Threads, stack[t] # <<>>, NEW s \in Turns,
         (InClock(Top(t)) /\ Top(t).clock = s) \/ clockLock[s] = "none"
  PROVE  \A u \in Threads : \A i \in 1..Len(stack[u]) :
            InClock(stack[u][i]) /\ stack[u][i].clock = s
               => u = t /\ i = Len(stack[t])
<1>1. Len(stack[t]) \in 1..Len(stack[t]) /\ Top(t) = stack[t][Len(stack[t])]
  BY TopFrame DEF CallsInv
<1> QED  BY <1>1, ThreadsNamed DEF CallsInv, ClockInv

(* A call that moves on leaves the others what they have of the clocks, if *)
(* it has, or takes, the lock of the clock it changes.                     *)
LEMMA ClockGoto ==
  ASSUME CallsInv, NEW t \in Threads, stack[t] # <<>>, NEW l \in PCs, Goto(t, l),
         NEW s, s = Top(t).clock,
         \/ UNCHANGED <<clockLock, depth>>
         \/ /\ s \in Turns /\ (InClock(Top(t)) \/ clockLock[s] = "none")
            /\ \A r \in Turns : r # s => clockLock'[r] = clockLock[r] /\ depth'[r] = depth[r],
         l \notin {"call", "sending", "recv"} => s \in Turns,
         l \in {"entering", "pausing", "exiting", "resuming"}
            => clockLock'[s] = t /\ (InClock(Top(t)) \/ clockLock[s] = "none"),
         l = "resuming" => depth'[s] = 1
  PROVE  ClockInv'
<1> DEFINE n == Len(stack[t])
<1>1. n \in 1..n /\ Top(t) = stack[t][n]
  BY TopFrame DEF CallsInv
<1>2. /\ \A u \in Threads : Len(stack'[u]) = Len(stack[u])
      /\ \A u \in Threads : \A i \in 1..Len(stack[u]) :
            ~(u = t /\ i = n) => stack'[u][i] = stack[u][i]
      /\ stack'[t][n].pc = l /\ stack'[t][n].clock = s
  <2>1. /\ \A u \in Threads : Len(stack'[u]) = Len(stack[u])
        /\ \A u \in Threads : u # t => stack'[u] = stack[u]
        /\ \A i \in 1..Len(stack[t]) : i # Len(stack[t]) => stack'[t][i] = stack[t][i]
        /\ stack'[t][Len(stack[t])]
              = [pc |-> l, clock |-> Top(t).clock, call |-> Top(t).call]
    BY GotoFrames DEF CallsInv
  <2> QED  BY <2>1
<1> HIDE DEF n
<1>3. ASSUME NEW u \in Threads, NEW i \in 1..Len(stack[u]), ~(u = t /\ i = n)
      PROVE  LET f == stack[u][i] IN
             /\ f.pc \notin {"call", "sending", "recv"} => f.clock \in Turns
             /\ InClock(f)
                   => /\ clockLock'[f.clock] = u
                      /\ \A j \in 1..Len(stack[u]) :
                            InClock(stack'[u][j]) /\ stack'[u][j].clock = f.clock => i = j
             /\ f.pc = "resuming" => depth'[f.clock] = 1
  <2> DEFINE f == stack[u][i]
  <2>1. f.pc \notin {"call", "sending", "recv"} => f.clock \in Turns
    BY DEF CallsInv, ClockInv
  <2>2. InClock(f) => f.clock \in Turns
    BY <2>1 DEF InClock
  <2>3. ASSUME InClock(f), f.clock = s
        PROVE  /\ UNCHANGED <<clockLock, depth>>
               /\ l \notin {"entering", "pausing", "exiting", "resuming"}
    BY <1>3, <2>2, <2>3, ClockAlone DEF n
  <2>4. InClock(f) => clockLock'[f.clock] = clockLock[f.clock] /\ depth'[f.clock] = depth[f.clock]
    BY <2>2, <2>3
  <2>5. InClock(f) => clockLock[f.clock] = u
    BY DEF CallsInv, ClockInv
  <2>6. f.pc = "resuming" => depth[f.clock] = 1 /\ InClock(f)
    BY DEF CallsInv, ClockInv, InClock
  <2>7. ASSUME InClock(f), NEW j \in 1..Len(stack[u]),
               InClock(stack'[u][j]), stack'[u][j].clock = f.clock
        PROVE  i = j
    <3>1. CASE u = t /\ j = n
      BY <1>2, <2>3, <2>7, <3>1 DEF InClock
    <3>2. CASE ~(u = t /\ j = n)
      BY <1>2, <2>7, <3>2 DEF CallsInv, ClockInv
    <3> QED  BY <3>1, <3>2
  <2> QED  BY <2>1, <2>4, <2>5, <2>6, <2>7
<1>4. LET f == stack'[t][n] IN
      /\ f.pc \notin {"call", "sending", "recv"} => f.clock \in Turns
      /\ InClock(f)
            => /\ clockLock'[f.clock] = t
               /\ \A j \in 1..Len(stack[t]) :
                     InClock(stack'[t][j]) /\ stack'[t][j].clock = f.clock => n = j
      /\ f.pc = "resuming" => depth'[f.clock] = 1
  <2>1. ASSUME InClock(stack'[t][n]), NEW j \in 1..Len(stack[t]),
               InClock(stack'[t][j]), stack'[t][j].clock = s
        PROVE  n = j
    <3>1. s \in Turns /\ (InClock(Top(t)) \/ clockLock[s] = "none")
      BY <1>2, <2>1 DEF InClock
    <3> QED  BY <1>2, <2>1, <3>1, ClockAlone DEF n
  <2> QED  BY <1>2, <2>1 DEF InClock
<1> QED  BY <1>1, <1>2, <1>3, <1>4 DEF ClockInv, InClock

LEMMA ClockPop ==
  ASSUME CallsInv, NEW t \in Threads, stack[t] # <<>>, Pop(t),
         NEW s, s = Top(t).clock,
         \/ UNCHANGED <<clockLock, depth>>
         \/ /\ s \in Turns /\ InClock(Top(t))
            /\ \A r \in Turns : r # s => clockLock'[r] = clockLock[r] /\ depth'[r] = depth[r]
  PROVE  ClockInv'
<1>1. \A u \in Threads : \A i \in 1..Len(stack'[u]) :
         i \in 1..Len(stack[u]) /\ stack'[u][i] = stack[u][i]
         /\ ~(u = t /\ i = Len(stack[t]))
  BY PopFrames DEF CallsInv
<1>2. ASSUME NEW u \in Threads, NEW i \in 1..Len(stack'[u])
      PROVE  LET f == stack[u][i] IN
             InClock(f) => /\ f.clock \in Turns /\ clockLock'[f.clock] = clockLock[f.clock]
                           /\ depth'[f.clock] = depth[f.clock]
  <2> DEFINE f == stack[u][i]
  <2>1. InClock(f) => f.clock \in Turns
    BY <1>1 DEF CallsInv, ClockInv, InClock
  <2> QED  BY <1>1, <2>1, ClockAlone
<1> QED  BY <1>1, <1>2 DEF CallsInv, ClockInv, InClock

-----------------------------------------------------------------------------
(* What the parent knows of the clock stays right when the worker says     *)
(* nothing and its clock neither stops nor starts...                       *)
LEMMA PauseKept ==
  ASSUME CallsInv, UNCHANGED <<hpc, paused, toParent, told>>,
         told = (scope' # 0 /\ depth'[scope'] > 0)
  PROVE  PauseInv'
<1> USE DEF CallsInv, PauseInv, NoClockMessage
<1>1. told' = (scope' # 0 /\ depth'[scope'] > 0)
  OBVIOUS
<1> QED  BY <1>1

(* ...and when it says so as it does, while the parent waits.              *)
LEMMA PauseAppend ==
  ASSUME CallsInv, NEW m \in ToParent, toParent' = Append(toParent, m),
         UNCHANGED <<hpc, paused>>,
         told' = (scope' # 0 /\ depth'[scope'] > 0),
         m.type \in ClockTypes
            => hpc # "idle" /\ ~ResultPending /\ told' = (m.type = "HostTimeOn"),
         m.type \notin ClockTypes => told' = told
  PROVE  PauseInv'
<1>1. /\ toParent \in Seq(ToParent) /\ toParent' \in Seq(ToParent)
      /\ Len(toParent) \in Nat /\ Len(toParent') = Len(toParent) + 1
      /\ \A i \in 1..Len(toParent) : toParent'[i] = toParent[i]
      /\ toParent'[Len(toParent) + 1] = m
  BY Queued DEF CallsInv, CallsShape
<1>2. \A i \in 1..Len(toParent') : i \in 1..Len(toParent) \/ i = Len(toParent) + 1
  BY <1>1
<1>3. \A i \in 1..Len(toParent) : i \in 1..Len(toParent') /\ Len(toParent) + 1 > i
  BY <1>1
<1>4. DOMAIN toParent = 1..Len(toParent) /\ DOMAIN toParent' = 1..Len(toParent')
  BY <1>1
<1>5. Len(toParent) + 1 \in 1..Len(toParent')
  BY <1>1
<1>6. NoClockMessage(toParent)' => NoClockMessage(toParent) /\ m.type \notin ClockTypes
  BY <1>1, <1>3, <1>4, <1>5 DEF NoClockMessage
<1>7. hpc' = "idle" => NoClockMessage(toParent)'
  BY <1>1, <1>2, <1>4 DEF CallsInv, PauseInv, NoClockMessage
<1>8. hpc' = "await" /\ NoClockMessage(toParent)' => paused' = told'
  BY <1>6 DEF CallsInv, PauseInv
<1>9. ASSUME NEW i \in 1..Len(toParent'), toParent'[i].type \in ClockTypes,
             \A j \in 1..Len(toParent') : j > i => toParent'[j].type \notin ClockTypes
      PROVE  told' = (toParent'[i].type = "HostTimeOn")
  <2>1. CASE i = Len(toParent) + 1
    BY <1>1, <1>9, <2>1
  <2>2. CASE i \in 1..Len(toParent)
    <3>1. m.type \notin ClockTypes /\ told' = told
      BY <1>1, <1>3, <1>5, <1>9, <2>2
    <3>2. \A j \in 1..Len(toParent) : j > i => toParent[j].type \notin ClockTypes
      BY <1>1, <1>3, <1>9
    <3>3. toParent[i].type \in ClockTypes /\ toParent'[i] = toParent[i]
      BY <1>1, <1>9, <2>2
    <3> QED  BY <2>2, <3>1, <3>2, <3>3 DEF CallsInv, PauseInv
  <2> QED  BY <1>2, <2>1, <2>2
<1>10. ASSUME NEW i \in 1..Len(toParent'), NEW j \in 1..Len(toParent'),
              toParent'[i].type = "Result", j > i
       PROVE  toParent'[j].type \notin ClockTypes
  <2>1. i \in 1..Len(toParent) /\ toParent[i].type = "Result"
    BY <1>1, <1>2, <1>10
  <2>2. ResultPending
    BY <2>1 DEF ResultPending
  <2>3. CASE j \in 1..Len(toParent)
    BY <1>1, <1>10, <2>1, <2>3 DEF CallsInv, PauseInv
  <2>4. CASE j = Len(toParent) + 1
    BY <1>1, <2>2, <2>4
  <2> QED  BY <1>2, <2>3, <2>4
<1> QED  BY <1>7, <1>8, <1>9, <1>10 DEF PauseInv

(* A message that is no result leaves every execution where it is.         *)
LEMMA TurnAppend ==
  ASSUME CallsInv, NEW m \in ToParent, toParent' = Append(toParent, m),
         m.type # "Result", UNCHANGED <<hpc, turn, toWorker, mpc, scope>>
  PROVE  TurnInv'
<1>1. /\ Len(toParent) \in Nat /\ Len(toParent') = Len(toParent) + 1
      /\ \A i \in 1..Len(toParent) : toParent'[i] = toParent[i]
      /\ toParent'[Len(toParent) + 1] = m
  BY Queued DEF CallsInv, CallsShape
<1>2. \A i \in 1..Len(toParent') : toParent'[i].type = "Result"
         => i \in 1..Len(toParent) /\ toParent[i].type = "Result"
  <2>1. \A i \in 1..Len(toParent') : i \in 1..Len(toParent) \/ i = Len(toParent) + 1
    BY <1>1
  <2> QED  BY <1>1, <2>1
<1>3. ResultPending' => ResultPending
  BY <1>2 DEF ResultPending
<1>4. ExecPending' = ExecPending
  BY DEF ExecPending
<1> QED  BY <1>2, <1>3, <1>4 DEF CallsInv, TurnInv

LEMMA TurnKept ==
  ASSUME CallsInv, UNCHANGED <<hpc, turn, toWorker, toParent, mpc, scope>>
  PROVE  TurnInv'
BY DEF CallsInv, TurnInv, ExecPending, ResultPending

(* The clocks and the calls are as they were.                              *)
LEMMA ClocksKept ==
  ASSUME CallsInv, UNCHANGED <<depth, clockLock, born, stack>>
  PROVE  /\ ClockInv'
         /\ turn' = turn /\ (ExecPending' => ExecPending) => FreshInv'
BY DEF CallsInv, ClockInv, FreshInv, Unused

-----------------------------------------------------------------------------
LEMMA ParentExecStep ==
  ASSUME CallsInv, ParentExec
  PROVE  CallsInv'
<1> DEFINE m == Msg("Exec", turn + 1, 0)
<1>1. /\ hpc = "idle" /\ turn < MaxTurn /\ hpc' = "await" /\ turn' = turn + 1
      /\ paused' = FALSE /\ toWorker' = Append(toWorker, m)
      /\ UNCHANGED <<toParent, mpc, scope, born, told, depth, clockLock, stack,
                     calls, made, garbage>>
  BY DEF ParentExec, mainVars
<1>2. turn \in 0..MaxTurn /\ turn + 1 \in 0..MaxTurn /\ MaxTurn \in Nat
  BY <1>1, TurnsShape DEF CallsInv, CallsShape
<1>3. m \in ToWorker /\ m.type = "Exec" /\ m.turn = turn + 1
  BY <1>2 DEF Msg, ToWorker, Messages
<1> HIDE DEF m
<1>4. /\ toWorker' \in Seq(ToWorker) /\ Len(toWorker) \in Nat
      /\ Len(toWorker') = Len(toWorker) + 1
      /\ \A i \in 1..Len(toWorker) : toWorker'[i] = toWorker[i]
      /\ toWorker'[Len(toWorker) + 1] = m
  BY <1>1, <1>3, Queued DEF CallsInv, CallsShape
<1>5. CallsShape'
  BY <1>1, <1>2, <1>4 DEF CallsInv, CallsShape
<1>6. ~ExecPending /\ ~ResultPending /\ mpc = "loop" /\ scope = 0
  BY <1>1 DEF CallsInv, TurnInv
<1>7. TurnInv'
  <2>1. ~ResultPending'
    BY <1>1, <1>6 DEF ResultPending
  <2>2. \A i \in 1..Len(toWorker') : toWorker'[i].type = "Exec" => i = Len(toWorker) + 1
    <3>1. \A i \in 1..Len(toWorker') : i \in 1..Len(toWorker) \/ i = Len(toWorker) + 1
      BY <1>4
    <3> QED  BY <1>4, <1>6, <3>1 DEF ExecPending
  <2>3. \A i \in 1..Len(toParent) : toParent[i].type # "Result"
    BY <1>6 DEF ResultPending
  <2> QED  BY <1>1, <1>2, <1>3, <1>4, <1>6, <2>1, <2>2, <2>3 DEF TurnInv
<1>8. FreshInv'
  <2> SUFFICES ASSUME NEW s \in Turns, s > turn
               PROVE  Unused(s)'
    BY <1>1, <1>2, TurnsShape DEF FreshInv
  <2>1. Unused(s)
    BY DEF CallsInv, FreshInv
  <2> QED  BY <1>1, <2>1 DEF Unused
<1>9. ClockInv'
  BY <1>1, ClocksKept
<1>10. PauseInv'
  <2>1. told = FALSE /\ NoClockMessage(toParent)
    BY <1>1, <1>6 DEF CallsInv, PauseInv
  <2>2. \A i \in 1..Len(toParent) : toParent[i].type \notin ClockTypes
    BY <2>1 DEF CallsInv, CallsShape, NoClockMessage
  <2> QED  BY <1>1, <1>6, <2>1, <2>2 DEF PauseInv
<1> QED  BY <1>5, <1>7, <1>8, <1>9, <1>10 DEF CallsInv

LEMMA UnresponsiveStep ==
  ASSUME CallsInv, Unresponsive
  PROVE  CallsInv'
<1>1. /\ hpc = "await" /\ hpc' = "killed"
      /\ UNCHANGED <<turn, paused, toWorker, toParent, mpc, scope, born, told, depth,
                     clockLock, stack, calls, made, garbage>>
  BY DEF Unresponsive, mainVars
<1>2. CallsShape'
  BY <1>1 DEF CallsInv, CallsShape
<1>3. TurnInv'
  BY <1>1 DEF CallsInv, TurnInv, ExecPending, ResultPending
<1>4. FreshInv' /\ ClockInv'
  BY <1>1, ClocksKept DEF ExecPending
<1>5. PauseInv'
  BY <1>1 DEF CallsInv, PauseInv, NoClockMessage
<1> QED  BY <1>2, <1>3, <1>4, <1>5 DEF CallsInv

(* What is left in the pipe to the parent once it has read a message.      *)
LEMMA ParentReads ==
  ASSUME CallsInv, toParent # <<>>, toParent' = Tail(toParent)
  PROVE  /\ toParent' \in Seq(ToParent) /\ Len(toParent') \in Nat
         /\ \A i \in 1..Len(toParent') : /\ i + 1 \in 1..Len(toParent)
                                         /\ toParent'[i] = toParent[i + 1]
         /\ 1 \in 1..Len(toParent) /\ Head(toParent) = toParent[1]
         /\ \A i \in 1..Len(toParent) : i = 1 \/ i - 1 \in 1..Len(toParent')
         /\ toParent[1] \in ToParent
         /\ DOMAIN toParent = 1..Len(toParent) /\ DOMAIN toParent' = 1..Len(toParent')
<1>1. toParent \in Seq(ToParent)
  BY DEF CallsInv, CallsShape
<1>2. /\ toParent' \in Seq(ToParent) /\ Len(toParent) \in Nat /\ 1 <= Len(toParent)
      /\ Len(toParent') = Len(toParent) - 1
      /\ \A i \in 1..Len(toParent') : /\ i + 1 \in 1..Len(toParent)
                                      /\ toParent'[i] = toParent[i + 1]
      /\ Head(toParent) = toParent[1] /\ toParent[1] \in ToParent
  BY <1>1, Taken
<1> QED  BY <1>1, <1>2

LEMMA ParentRecvStep ==
  ASSUME CallsInv, ParentRecv
  PROVE  CallsInv'
<1> DEFINE m == toParent[1]
<1>1. /\ hpc = "await" /\ toParent # <<>> /\ toParent' = Tail(toParent)
      /\ UNCHANGED <<turn, mpc, scope, born, told, depth, clockLock, stack,
                     calls, made, garbage>>
  BY DEF ParentRecv, mainVars
<1>2. /\ toParent' \in Seq(ToParent) /\ Len(toParent') \in Nat
      /\ \A i \in 1..Len(toParent') : /\ i + 1 \in 1..Len(toParent)
                                      /\ toParent'[i] = toParent[i + 1]
      /\ 1 \in 1..Len(toParent) /\ Head(toParent) = m
      /\ \A i \in 1..Len(toParent) : i = 1 \/ i - 1 \in 1..Len(toParent')
      /\ m \in ToParent
      /\ DOMAIN toParent = 1..Len(toParent) /\ DOMAIN toParent' = 1..Len(toParent')
  BY <1>1, ParentReads
<1>3. \/ m.type = "Result" /\ hpc' = "idle" /\ UNCHANGED <<paused, toWorker>>
      \/ /\ m.type \in ClockTypes /\ paused' = (m.type = "HostTimeOn")
         /\ UNCHANGED <<hpc, toWorker>>
      \/ /\ m.type = "RpcCall" /\ UNCHANGED <<hpc, paused>>
         /\ toWorker' = toWorker \o <<Msg("RpcReturn", m.turn, m.call)>>
  BY <1>2 DEF ParentRecv, Reply, ClockTypes
<1> HIDE DEF m
<1>4. /\ toWorker' \in Seq(ToWorker)
      /\ \A i \in 1..Len(toWorker') : toWorker'[i].type = "Exec"
            => i \in 1..Len(toWorker) /\ toWorker'[i] = toWorker[i]
  <2>1. toWorker \in Seq(ToWorker)
    BY DEF CallsInv, CallsShape
  <2>2. CASE UNCHANGED toWorker
    BY <2>1, <2>2
  <2>3. CASE /\ toWorker' = toWorker \o <<Msg("RpcReturn", m.turn, m.call)>>
    <3> DEFINE r == Msg("RpcReturn", m.turn, m.call)
    <3>1. r \in ToWorker /\ r.type = "RpcReturn"
      BY <1>2 DEF Msg, ToWorker, ToParent, Messages
    <3> HIDE DEF r
    <3>2. toWorker' = Append(toWorker, r)
      BY <2>1, <2>3, <3>1, AppendIsConcat DEF r
    <3>3. /\ toWorker' \in Seq(ToWorker) /\ Len(toWorker) \in Nat
          /\ Len(toWorker') = Len(toWorker) + 1
          /\ \A i \in 1..Len(toWorker) : toWorker'[i] = toWorker[i]
          /\ toWorker'[Len(toWorker) + 1] = r
      BY <2>1, <3>1, <3>2, Queued
    <3>4. \A i \in 1..Len(toWorker') : i \in 1..Len(toWorker) \/ i = Len(toWorker) + 1
      BY <3>3
    <3> QED  BY <3>1, <3>3, <3>4
  <2> QED  BY <1>3, <2>2, <2>3
<1>5. CallsShape'
  <2>1. paused' \in BOOLEAN
    BY <1>3 DEF CallsInv, CallsShape
  <2> QED  BY <1>1, <1>2, <1>3, <1>4, <2>1 DEF CallsInv, CallsShape
<1>6. ExecPending' => ExecPending
  BY <1>4 DEF ExecPending
<1>7. ResultPending' => ResultPending
  BY <1>2 DEF ResultPending
<1>8. TurnInv'
  <2>1. m.type = "Result" => ResultPending /\ ~ResultPending'
    <3>1. ASSUME m.type = "Result", ResultPending'
          PROVE  FALSE
      <4>1. PICK i \in 1..Len(toParent') : toParent'[i].type = "Result"
        BY <3>1 DEF ResultPending
      <4>2. i + 1 = 1
        BY <1>2, <3>1, <4>1 DEF CallsInv, TurnInv, m
      <4> QED  BY <1>2, <4>1, <4>2
    <3> QED  BY <1>2, <3>1 DEF ResultPending, m
  <2>2. hpc' = "idle" => m.type = "Result"
    BY <1>1, <1>3
  <2>3. hpc' = "idle" => ~ExecPending' /\ ~ResultPending' /\ mpc' = "loop"
    BY <1>1, <1>6, <2>1, <2>2 DEF CallsInv, TurnInv
  <2>4. \A i, j \in 1..Len(toParent') :
           toParent'[i].type = "Result" /\ toParent'[j].type = "Result" => i = j
    <3> SUFFICES ASSUME NEW i \in 1..Len(toParent'), NEW j \in 1..Len(toParent'),
                        toParent'[i].type = "Result", toParent'[j].type = "Result"
                 PROVE  i = j
      OBVIOUS
    <3>1. i + 1 = j + 1
      BY <1>2 DEF CallsInv, TurnInv
    <3> QED  BY <1>2, <3>1
  <2>5. \A i \in 1..Len(toWorker') : toWorker'[i].type = "Exec"
           => /\ toWorker'[i].turn = turn' /\ turn' # 0
              /\ \A j \in 1..Len(toWorker') : toWorker'[j].type = "Exec" => i = j
    BY <1>1, <1>4 DEF CallsInv, TurnInv
  <2> QED  BY <1>1, <1>6, <1>7, <2>3, <2>4, <2>5 DEF CallsInv, TurnInv
<1>9. FreshInv' /\ ClockInv'
  BY <1>1, <1>6, ClocksKept
<1>10. PauseInv'
  <2>0. m.type \in {"Result", "RpcCall"} \cup ClockTypes
    BY <1>2 DEF ToParent, Messages
  <2>1. m.type \notin ClockTypes /\ NoClockMessage(toParent)' => NoClockMessage(toParent)
    <3> SUFFICES ASSUME m.type \notin ClockTypes, NoClockMessage(toParent)',
                        NEW i \in 1..Len(toParent)
                 PROVE  toParent[i].type \notin ClockTypes
      BY <1>2 DEF NoClockMessage
    <3>1. CASE i = 1
      BY <3>1 DEF m
    <3>2. CASE i - 1 \in 1..Len(toParent')
      <4>1. toParent'[i - 1] = toParent[i - 1 + 1] /\ i - 1 + 1 = i
        BY <1>2, <3>2
      <4> QED  BY <1>2, <3>2, <4>1 DEF NoClockMessage
    <3> QED  BY <1>2, <3>1, <3>2
  <2>2. hpc' = "idle" => NoClockMessage(toParent)'
    <3> SUFFICES ASSUME m.type = "Result", NEW i \in 1..Len(toParent')
                 PROVE  toParent'[i].type \notin ClockTypes
      BY <1>1, <1>2, <1>3 DEF NoClockMessage
    <3>1. i + 1 > 1
      BY <1>2
    <3> QED  BY <1>2, <3>1 DEF CallsInv, PauseInv, m
  <2>3. hpc' = "await" /\ NoClockMessage(toParent)' => paused' = told'
    <3> SUFFICES ASSUME hpc' = "await", NoClockMessage(toParent)'
                 PROVE  paused' = told
      BY <1>1
    <3>1. CASE m.type \notin ClockTypes
      BY <1>1, <1>3, <2>1, <3>1 DEF CallsInv, PauseInv
    <3>2. CASE m.type \in ClockTypes
      <4>1. paused' = (m.type = "HostTimeOn")
        BY <1>3, <3>2 DEF ClockTypes
      <4>2. \A j \in 1..Len(toParent) : j > 1 => toParent[j].type \notin ClockTypes
        <5> SUFFICES ASSUME NEW j \in 1..Len(toParent), j > 1
                     PROVE  toParent[j].type \notin ClockTypes
          OBVIOUS
        <5>1. j - 1 \in 1..Len(toParent') /\ j - 1 + 1 = j
          BY <1>2
        <5>2. toParent'[j - 1] = toParent[j]
          BY <1>2, <5>1
        <5> QED  BY <1>2, <5>1, <5>2 DEF NoClockMessage
      <4>3. told = (toParent[1].type = "HostTimeOn")
        BY <1>2, <3>2, <4>2 DEF CallsInv, PauseInv, m
      <4> QED  BY <4>1, <4>3 DEF m
    <3> QED  BY <3>1, <3>2
  <2>4. ASSUME NEW i \in 1..Len(toParent'), toParent'[i].type \in ClockTypes,
               \A j \in 1..Len(toParent') : j > i => toParent'[j].type \notin ClockTypes
        PROVE  told' = (toParent'[i].type = "HostTimeOn")
    <3>1. i + 1 \in 1..Len(toParent) /\ toParent'[i] = toParent[i + 1]
      BY <1>2
    <3>2. ASSUME NEW j \in 1..Len(toParent), j > i + 1
          PROVE  toParent[j].type \notin ClockTypes
      <4>1. j - 1 \in 1..Len(toParent') /\ j - 1 + 1 = j /\ j - 1 > i
        BY <1>2, <3>2
      <4>2. toParent'[j - 1] = toParent[j]
        BY <1>2, <4>1
      <4> QED  BY <2>4, <4>1, <4>2
    <3> QED  BY <1>1, <2>4, <3>1, <3>2 DEF CallsInv, PauseInv
  <2>5. ASSUME NEW i \in 1..Len(toParent'), NEW j \in 1..Len(toParent'),
               toParent'[i].type = "Result", j > i
        PROVE  toParent'[j].type \notin ClockTypes
    <3>1. i + 1 \in 1..Len(toParent) /\ j + 1 \in 1..Len(toParent) /\ j + 1 > i + 1
      BY <1>2, <2>5
    <3> QED  BY <1>2, <2>5, <3>1 DEF CallsInv, PauseInv
  <2>6. told' = (scope' # 0 /\ depth'[scope'] > 0)
    BY <1>1 DEF CallsInv, PauseInv
  <2> QED  BY <2>2, <2>3, <2>4, <2>5, <2>6 DEF PauseInv
<1> QED  BY <1>5, <1>8, <1>9, <1>10 DEF CallsInv

-----------------------------------------------------------------------------
(* What is left in the pipe to the worker once it has read a message.      *)
LEMMA WorkerReads ==
  ASSUME CallsInv, toWorker # <<>>, toWorker' = Tail(toWorker)
  PROVE  /\ toWorker' \in Seq(ToWorker) /\ Len(toWorker') \in Nat
         /\ \A i \in 1..Len(toWorker') : /\ i + 1 \in 1..Len(toWorker)
                                         /\ toWorker'[i] = toWorker[i + 1]
         /\ 1 \in 1..Len(toWorker) /\ Head(toWorker) = toWorker[1]
         /\ Len(toWorker') = Len(toWorker) - 1
         /\ toWorker[1] \in ToWorker
         /\ ExecPending' => ExecPending
         /\ toWorker[1].type = "Exec" => ~ExecPending'
<1>1. toWorker \in Seq(ToWorker)
  BY DEF CallsInv, CallsShape
<1>2. /\ toWorker' \in Seq(ToWorker) /\ Len(toWorker) \in Nat /\ 1 <= Len(toWorker)
      /\ Len(toWorker') = Len(toWorker) - 1
      /\ \A i \in 1..Len(toWorker') : /\ i + 1 \in 1..Len(toWorker)
                                      /\ toWorker'[i] = toWorker[i + 1]
      /\ Head(toWorker) = toWorker[1] /\ toWorker[1] \in ToWorker
  BY <1>1, Taken
<1>3. ExecPending' => ExecPending
  BY <1>2 DEF ExecPending
<1>4. ASSUME toWorker[1].type = "Exec", ExecPending'
      PROVE  FALSE
  <2>1. PICK i \in 1..Len(toWorker') : toWorker'[i].type = "Exec"
    BY <1>4 DEF ExecPending
  <2>2. 1 \in 1..Len(toWorker) /\ i + 1 \in 1..Len(toWorker) /\ toWorker[i + 1].type = "Exec"
    BY <1>2, <2>1
  <2>3. 1 = i + 1
    BY <1>4, <2>2 DEF CallsInv, TurnInv
  <2> QED  BY <1>2, <2>1, <2>3
<1> QED  BY <1>2, <1>3, <1>4

(* Whoever reads it, the executions still on their way are as they were.   *)
LEMMA TurnReads ==
  ASSUME CallsInv, toWorker # <<>>, toWorker' = Tail(toWorker),
         UNCHANGED <<hpc, turn, toParent, mpc, scope>>
  PROVE  TurnInv'
<1>1. /\ Len(toWorker') \in Nat
      /\ \A i \in 1..Len(toWorker') : /\ i + 1 \in 1..Len(toWorker)
                                      /\ toWorker'[i] = toWorker[i + 1]
      /\ ExecPending' => ExecPending
  BY WorkerReads
<1>2. ASSUME NEW i \in 1..Len(toWorker'), toWorker'[i].type = "Exec"
      PROVE  /\ toWorker'[i].turn = turn' /\ turn' # 0
             /\ \A j \in 1..Len(toWorker') : toWorker'[j].type = "Exec" => i = j
  <2>1. toWorker'[i].turn = turn' /\ turn' # 0
    BY <1>1, <1>2 DEF CallsInv, TurnInv
  <2>2. ASSUME NEW j \in 1..Len(toWorker'), toWorker'[j].type = "Exec"
        PROVE  i = j
    <3>1. i + 1 = j + 1
      BY <1>1, <1>2, <2>2 DEF CallsInv, TurnInv
    <3> QED  BY <1>1, <3>1
  <2> QED  BY <2>1, <2>2
<1>3. ResultPending' = ResultPending
  BY DEF ResultPending
<1> QED  BY <1>1, <1>2, <1>3 DEF CallsInv, TurnInv

LEMMA LoopRecvStep ==
  ASSUME CallsInv, LoopRecv
  PROVE  CallsInv'
<1>1. /\ mpc = "loop" /\ toWorker # <<>> /\ toWorker' = Tail(toWorker)
      /\ UNCHANGED <<hpc, turn, paused, toParent, told, depth, clockLock, born,
                     stack, calls, made, garbage>>
  BY DEF LoopRecv, parentVars
<1>2. /\ toWorker' \in Seq(ToWorker) /\ Head(toWorker) = toWorker[1]
      /\ 1 \in 1..Len(toWorker) /\ (ExecPending' => ExecPending)
      /\ toWorker[1].type = "Exec" => ~ExecPending'
  BY <1>1, WorkerReads
<1>3. \/ toWorker[1].type = "Exec" /\ mpc' = "code" /\ scope' = toWorker[1].turn
      \/ UNCHANGED <<mpc, scope>>
  BY <1>2 DEF LoopRecv
<1>4. scope = 0 /\ told = FALSE
  BY <1>1 DEF CallsInv, TurnInv, PauseInv
<1>5. FreshInv' /\ ClockInv'
  BY <1>1, <1>2, ClocksKept
<1>6. CASE toWorker[1].type = "Exec" /\ mpc' = "code" /\ scope' = toWorker[1].turn
  <2>1. ExecPending /\ ~ExecPending' /\ scope' = turn /\ turn # 0
    BY <1>2, <1>6 DEF CallsInv, TurnInv, ExecPending
  <2>2. turn \in Turns /\ turn \in 0..MaxTurn
    BY <2>1, TurnsShape DEF CallsInv, CallsShape
  <2>3. depth[turn] = 0
    BY <2>1, <2>2 DEF CallsInv, FreshInv, Unused
  <2>4. CallsShape'
    BY <1>1, <1>2, <1>6, <2>1, <2>2 DEF CallsInv, CallsShape
  <2>5. TurnInv'
    <3>1. ~ResultPending /\ ResultPending' = ResultPending
      BY <1>1, <2>1 DEF CallsInv, TurnInv, ResultPending
    <3>2. hpc # "idle"
      BY <2>1 DEF CallsInv, TurnInv
    <3>3. \A i \in 1..Len(toWorker') : toWorker'[i].type # "Exec"
      BY <2>1 DEF ExecPending
    <3>4. \A i \in 1..Len(toParent) : toParent[i].type # "Result"
      BY <3>1 DEF ResultPending
    <3> QED  BY <1>1, <1>6, <2>1, <3>1, <3>2, <3>3, <3>4 DEF TurnInv
  <2>6. PauseInv'
    <3>1. UNCHANGED <<hpc, paused, toParent, told>>
      BY <1>1
    <3>2. ~(depth'[scope'] > 0)
      BY <1>1, <2>1, <2>3
    <3>3. told = (scope' # 0 /\ depth'[scope'] > 0)
      BY <1>4, <3>2
    <3> QED  BY <3>1, <3>3, PauseKept
  <2> QED  BY <1>5, <2>4, <2>5, <2>6 DEF CallsInv
<1>7. CASE UNCHANGED <<mpc, scope>>
  <2>1. CallsShape'
    BY <1>1, <1>2, <1>7 DEF CallsInv, CallsShape
  <2>2. TurnInv'
    BY <1>1, <1>7, TurnReads
  <2>3. PauseInv'
    BY <1>1, <1>4, <1>7, PauseKept
  <2> QED  BY <1>5, <2>1, <2>2, <2>3 DEF CallsInv
<1> QED  BY <1>3, <1>6, <1>7

(* Steps of the main thread that neither send nor read.                    *)
LEMMA MainMoves ==
  ASSUME CallsInv,
         \/ mpc = "code" /\ mpc' \in {"code", "ending"}
         \/ mpc = "ending" /\ mpc' = "closing"
         \/ mpc = "result" /\ mpc' = "replying",
         born' = born \/ \E t \in Others : born' = [born EXCEPT ![t] = scope] /\ mpc = "code",
         made' \in Nat /\ garbage' \in Nat /\ garbage' <= made',
         UNCHANGED <<hpc, turn, paused, toWorker, toParent, scope, told, depth,
                     clockLock, stack, calls>>
  PROVE  CallsInv'
<1>1. ExecPending' = ExecPending /\ ResultPending' = ResultPending
  BY DEF ExecPending, ResultPending
<1>2. /\ \A t \in Others : born'[t] \in {born[t], scope}
      /\ born' \in [Others -> 0..MaxTurn]
  BY DEF CallsInv, CallsShape
<1>3. CallsShape'
  BY <1>2 DEF CallsInv, CallsShape
<1>4. TurnInv'
  BY <1>1 DEF CallsInv, TurnInv
<1>5. FreshInv'
  <2> SUFFICES ASSUME NEW s \in Turns, s > turn \/ (s = turn /\ ExecPending)
               PROVE  Unused(s)'
    BY <1>1 DEF FreshInv
  <2>1. Unused(s)
    BY DEF CallsInv, FreshInv
  <2>2. s # scope
    <3>1. s \in Int /\ turn \in Int /\ s >= 1 /\ s >= turn
      BY TurnsShape DEF CallsInv, CallsShape
    <3>2. scope = 0 \/ (scope = turn /\ ~ExecPending)
      BY DEF CallsInv, TurnInv
    <3> QED  BY <3>1, <3>2
  <2> QED  BY <1>2, <2>1, <2>2 DEF Unused
<1>6. ClockInv'
  BY DEF CallsInv, ClockInv
<1>7. PauseInv'
  BY PauseKept DEF CallsInv, PauseInv
<1> QED  BY <1>3, <1>4, <1>5, <1>6, <1>7 DEF CallsInv

LEMMA ExecutionEndsStep ==
  ASSUME CallsInv, ExecutionEnds
  PROVE  CallsInv'
<1> DEFINE m == Msg("HostTimeOff", scope, 0)
<1>1. /\ mpc = "closing" /\ mpc' = "result" /\ scope' = 0 /\ told' = FALSE
      /\ toParent' = IF told THEN toParent \o <<m>> ELSE toParent \o <<>>
      /\ UNCHANGED <<hpc, turn, paused, toWorker, depth, born, clockLock, stack,
                     calls, made, garbage>>
  BY DEF ExecutionEnds, parentVars, CloseClock
<1>2. m \in ToParent /\ m.type = "HostTimeOff"
  BY DEF CallsInv, CallsShape, Msg, ToParent, Messages, ClockTypes
<1> HIDE DEF m
<1>3. toParent \in Seq(ToParent)
  BY DEF CallsInv, CallsShape
<1>4. toParent' = IF told THEN Append(toParent, m) ELSE toParent
  <2>1. Append(toParent, m) = toParent \o <<m>>
    BY <1>2, <1>3, AppendIsConcat
  <2>2. toParent \o <<>> = toParent
    BY <1>3, ConcatEmptySeq
  <2> QED  BY <1>1, <2>1, <2>2
<1>5. toParent' \in Seq(ToParent)
  BY <1>2, <1>3, <1>4, Queued
<1>6. CallsShape'
  <2>1. scope' \in 0..MaxTurn
    BY <1>1, TurnsShape
  <2>2. told' \in BOOLEAN
    BY <1>1, Zenon
  <2> QED  BY <1>1, <1>5, <2>1, <2>2 DEF CallsInv, CallsShape
<1>7. ~ExecPending /\ ~ResultPending /\ hpc # "idle"
  BY <1>1 DEF CallsInv, TurnInv
<1>8. TurnInv'
  <2>1. \A i \in 1..Len(toParent') : toParent'[i].type # "Result"
    <3>1. \A i \in 1..Len(toParent) : toParent[i].type # "Result"
      BY <1>7 DEF ResultPending
    <3>2. CASE ~told
      BY <1>4, <3>1, <3>2
    <3>3. CASE told
      <4>1. /\ Len(toParent) \in Nat /\ Len(toParent') = Len(toParent) + 1
            /\ \A i \in 1..Len(toParent) : toParent'[i] = toParent[i]
            /\ toParent'[Len(toParent) + 1] = m
        BY <1>2, <1>3, <1>4, <3>3, Queued
      <4>2. \A i \in 1..Len(toParent') : i \in 1..Len(toParent) \/ i = Len(toParent) + 1
        BY <4>1
      <4> QED  BY <1>2, <3>1, <4>1, <4>2
    <3> QED  BY <3>2, <3>3
  <2>2. ~ResultPending'
    BY <2>1 DEF ResultPending
  <2>3. ~ExecPending'
    BY <1>1, <1>7 DEF ExecPending
  <2>4. \A i \in 1..Len(toWorker') : toWorker'[i].type # "Exec"
    BY <2>3 DEF ExecPending
  <2> QED  BY <1>1, <1>7, <2>1, <2>2, <2>3, <2>4 DEF TurnInv
<1>9. FreshInv' /\ ClockInv'
  BY <1>1, ClocksKept DEF ExecPending
<1>10. PauseInv'
  <2>1. CASE ~told
    <3>1. told = FALSE /\ UNCHANGED <<hpc, paused, toParent, told>>
      BY <1>1, <1>4, <2>1 DEF CallsInv, CallsShape
    <3>2. told = (scope' # 0 /\ depth'[scope'] > 0)
      BY <1>1, <3>1
    <3> QED  BY <3>1, <3>2, PauseKept
  <2>2. CASE told
    <3>1. toParent' = Append(toParent, m) /\ UNCHANGED <<hpc, paused>>
      BY <1>1, <1>4, <2>2
    <3>2. told' = (scope' # 0 /\ depth'[scope'] > 0) /\ told' = (m.type = "HostTimeOn")
      BY <1>1, <1>2
    <3>3. m.type \in ClockTypes
      BY <1>2 DEF ClockTypes
    <3> QED  BY <1>2, <1>7, <3>1, <3>2, <3>3, PauseAppend
  <2> QED  BY <2>1, <2>2
<1> QED  BY <1>6, <1>8, <1>9, <1>10 DEF CallsInv

LEMMA SendsResultStep ==
  ASSUME CallsInv, SendsResult
  PROVE  CallsInv'
<1> DEFINE m == Msg("Result", 0, 0)
<1>1. /\ mpc = "replying" /\ mpc' = "loop" /\ toParent' = Append(toParent, m)
      /\ UNCHANGED <<hpc, turn, paused, toWorker, scope, told, depth, born,
                     clockLock, stack, calls, made, garbage>>
  BY DEF SendsResult, parentVars
<1>2. m \in ToParent /\ m.type = "Result" /\ m.type \notin ClockTypes
  BY TurnsShape DEF Msg, ToParent, Messages, ClockTypes
<1> HIDE DEF m
<1>3. /\ toParent' \in Seq(ToParent) /\ Len(toParent) \in Nat
      /\ Len(toParent') = Len(toParent) + 1
      /\ \A i \in 1..Len(toParent) : toParent'[i] = toParent[i]
      /\ toParent'[Len(toParent) + 1] = m
  BY <1>1, <1>2, Queued DEF CallsInv, CallsShape
<1>4. CallsShape'
  BY <1>1, <1>3 DEF CallsInv, CallsShape
<1>5. ~ExecPending /\ ~ResultPending /\ hpc # "idle" /\ scope = 0
  BY <1>1 DEF CallsInv, TurnInv
<1>6. TurnInv'
  <2>1. \A i \in 1..Len(toParent') : toParent'[i].type = "Result" => i = Len(toParent) + 1
    <3>1. \A i \in 1..Len(toParent') : i \in 1..Len(toParent) \/ i = Len(toParent) + 1
      BY <1>3
    <3> QED  BY <1>3, <1>5, <3>1 DEF ResultPending
  <2>2. ~ExecPending'
    BY <1>1, <1>5 DEF ExecPending
  <2>3. \A i \in 1..Len(toWorker') : toWorker'[i].type # "Exec"
    BY <2>2 DEF ExecPending
  <2> QED  BY <1>1, <1>5, <2>1, <2>2, <2>3 DEF TurnInv
<1>7. FreshInv' /\ ClockInv'
  BY <1>1, ClocksKept DEF ExecPending
<1>8. PauseInv'
  <2>1. told' = (scope' # 0 /\ depth'[scope'] > 0)
    BY <1>1 DEF CallsInv, PauseInv
  <2> QED  BY <1>1, <1>2, <2>1, PauseAppend
<1> QED  BY <1>4, <1>6, <1>7, <1>8 DEF CallsInv

-----------------------------------------------------------------------------
(* A call starts, on top of what its thread was doing.                     *)
LEMMA PushStep ==
  ASSUME CallsInv, NEW t \in Threads, PushCall(t),
         made' = made, garbage' \in Nat, garbage' <= garbage
  PROVE  CallsInv'
<1>1. UNCHANGED <<hpc, turn, paused, toWorker, toParent, mpc, scope, born, told,
                  depth, clockLock>> /\ calls' = calls + 1
  BY DEF PushCall, parentVars, mainVars
<1>2. ClockOf(t) \in 0..MaxTurn
      /\ (ClockOf(t) \in {0, scope} \/ (t \in Others /\ ClockOf(t) = born[t]))
  BY TurnsShape DEF ClockOf, Threads, CallsInv, CallsShape
<1> DEFINE f == Frame(IF ClockOf(t) = 0 THEN "call" ELSE "enter", ClockOf(t), calls + 1)
<1>3. /\ stack' \in [Threads -> Seq(Calling)]
      /\ \A u \in Threads : u # t => stack'[u] = stack[u]
      /\ Len(stack'[t]) = Len(stack[t]) + 1 /\ Len(stack[t]) \in Nat
      /\ \A i \in 1..Len(stack[t]) : stack'[t][i] = stack[t][i]
      /\ stack'[t][Len(stack[t]) + 1] = f
  BY <1>2, PushFrames DEF CallsInv
<1>4. f.clock = ClockOf(t) /\ ~InClock(f) /\ f.pc # "resuming"
      /\ (f.pc \notin {"call", "sending", "recv"} => f.clock \in Turns)
  BY <1>2, TurnsShape DEF Frame, InClock
<1> HIDE DEF f
<1>5. \A u \in Threads : \A i \in 1..Len(stack'[u]) :
         \/ i \in 1..Len(stack[u]) /\ stack'[u][i] = stack[u][i]
         \/ u = t /\ i = Len(stack[t]) + 1 /\ stack'[u][i] = f
  <2>1. \A i \in 1..Len(stack'[t]) : i \in 1..Len(stack[t]) \/ i = Len(stack[t]) + 1
    BY <1>3
  <2> QED  BY <1>3, <2>1
<1>6. CallsShape'
  <2>1. calls' \in Nat /\ garbage' <= made'
    BY <1>1 DEF CallsInv, CallsShape
  <2> QED  BY <1>1, <1>3, <2>1 DEF CallsInv, CallsShape
<1>7. TurnInv'
  BY <1>1, TurnKept
<1>8. FreshInv'
  <2>1. ExecPending' => ExecPending
    BY <1>1 DEF ExecPending
  <2>2. \A u \in Threads : \A i \in 1..Len(stack'[u]) :
            \/ stack'[u][i].clock = 0 \/ stack'[u][i].clock = scope
            \/ u \in Others /\ stack'[u][i].clock = born[u]
            \/ \E j \in 1..Len(stack[u]) : stack'[u][i].clock = stack[u][j].clock
    BY <1>2, <1>4, <1>5
  <2> QED  BY <1>1, <2>1, <2>2, FreshKept
<1>9. ClockInv'
  <2> SUFFICES ASSUME NEW u \in Threads, NEW i \in 1..Len(stack'[u])
               PROVE  LET g == stack'[u][i] IN
                      /\ g.pc \notin {"call", "sending", "recv"} => g.clock \in Turns
                      /\ InClock(g)
                            => /\ clockLock[g.clock] = u
                               /\ \A j \in 1..Len(stack'[u]) :
                                     InClock(stack'[u][j]) /\ stack'[u][j].clock = g.clock
                                        => i = j
                      /\ g.pc = "resuming" => depth[g.clock] = 1
    BY <1>1 DEF ClockInv, InClock
  <2>1. CASE u = t /\ i = Len(stack[t]) + 1 /\ stack'[u][i] = f
    BY <1>4, <2>1
  <2>2. CASE i \in 1..Len(stack[u]) /\ stack'[u][i] = stack[u][i]
    <3>1. \A j \in 1..Len(stack'[u]) : InClock(stack'[u][j])
             => j \in 1..Len(stack[u]) /\ stack'[u][j] = stack[u][j]
      BY <1>4, <1>5
    <3>2. LET g == stack[u][i] IN
          /\ g.pc \notin {"call", "sending", "recv"} => g.clock \in Turns
          /\ InClock(g)
                => /\ clockLock[g.clock] = u
                   /\ \A j \in 1..Len(stack[u]) :
                         InClock(stack[u][j]) /\ stack[u][j].clock = g.clock => i = j
          /\ g.pc = "resuming" => depth[g.clock] = 1
      BY <2>2 DEF CallsInv, ClockInv
    <3>3. ASSUME InClock(stack[u][i]), NEW j \in 1..Len(stack'[u]),
                 InClock(stack'[u][j]), stack'[u][j].clock = stack[u][i].clock
          PROVE  i = j
      BY <3>1, <3>2, <3>3
    <3> QED  BY <2>2, <3>2, <3>3
  <2> QED  BY <1>5, <2>1, <2>2
<1>10. PauseInv'
  BY <1>1, PauseKept DEF CallsInv, PauseInv
<1> QED  BY <1>6, <1>7, <1>8, <1>9, <1>10 DEF CallsInv

(* A call moves on or returns: what is the same for every step of it.      *)
LEMMA CallMoves ==
  ASSUME CallsInv, NEW t \in Threads, stack[t] # <<>>,
         Pop(t) \/ \E l \in PCs : Goto(t, l),
         UNCHANGED <<hpc, turn, paused, mpc, scope, born, calls, made, garbage>>,
         toWorker' \in Seq(ToWorker), toParent' \in Seq(ToParent), told' \in BOOLEAN,
         depth' \in [Turns -> Nat], clockLock' \in [Turns -> Threads \cup {"none"}],
         ExecPending' => ExecPending,
         \A s \in Turns : depth'[s] # depth[s] => s = Top(t).clock,
         TurnInv', ClockInv', PauseInv'
  PROVE  CallsInv'
<1>1. Len(stack[t]) \in 1..Len(stack[t]) /\ Top(t) = stack[t][Len(stack[t])]
  BY TopFrame DEF CallsInv
<1>2. /\ stack' \in [Threads -> Seq(Calling)]
      /\ \A u \in Threads : \A i \in 1..Len(stack'[u]) :
            \E j \in 1..Len(stack[u]) : stack'[u][i].clock = stack[u][j].clock
  <2>1. CASE Pop(t)
    <3>1. /\ stack' \in [Threads -> Seq(Calling)]
          /\ \A u \in Threads : u # t => stack'[u] = stack[u]
          /\ \A i \in 1..Len(stack'[t]) : i \in 1..Len(stack[t])
                                          /\ stack'[t][i] = stack[t][i]
      BY <2>1, PopFrames DEF CallsInv
    <3> QED  BY <3>1
  <2>2. ASSUME NEW l \in PCs, Goto(t, l)
        PROVE  /\ stack' \in [Threads -> Seq(Calling)]
               /\ \A u \in Threads : \A i \in 1..Len(stack'[u]) :
                  i \in 1..Len(stack[u]) /\ stack'[u][i].clock = stack[u][i].clock
    <3>1. /\ stack' \in [Threads -> Seq(Calling)]
          /\ \A u \in Threads : Len(stack'[u]) = Len(stack[u])
          /\ \A u \in Threads : u # t => stack'[u] = stack[u]
          /\ \A i \in 1..Len(stack[t]) : i # Len(stack[t]) => stack'[t][i] = stack[t][i]
          /\ stack'[t][Len(stack[t])]
                = [pc |-> l, clock |-> Top(t).clock, call |-> Top(t).call]
      BY <2>2, GotoFrames DEF CallsInv
    <3>2. \A i \in 1..Len(stack[t]) : stack'[t][i].clock = stack[t][i].clock
      BY <1>1, <3>1
    <3> QED  BY <3>1, <3>2, ZenonT(30)
  <2> QED  BY <2>1, <2>2
<1>3. CallsShape'
  BY <1>2 DEF CallsInv, CallsShape
<1>4. FreshInv'
  <2>1. \A s \in Turns : depth'[s] # depth[s]
            => \E u \in Threads : \E j \in 1..Len(stack[u]) : stack[u][j].clock = s
    BY <1>1
  <2> QED  BY <1>2, <2>1, FreshKept
<1> QED  BY <1>3, <1>4 DEF CallsInv

(* What is known of a call by where it is.                                 *)
LEMMA AtFrame ==
  ASSUME CallsInv, NEW t \in Threads, NEW l, At(t, l)
  PROVE  /\ stack[t] # <<>> /\ Top(t).pc = l
         /\ l \notin {"call", "sending", "recv"} => Top(t).clock \in Turns
         /\ InClock(Top(t)) => Top(t).clock \in Turns /\ clockLock[Top(t).clock] = t
         /\ l = "resuming" => depth[Top(t).clock] = 1
<1>1. stack[t] # <<>> /\ Top(t).pc = l
  BY DEF At
<1>2. Len(stack[t]) \in 1..Len(stack[t]) /\ Top(t) = stack[t][Len(stack[t])]
  BY <1>1, TopFrame DEF CallsInv
<1>3. /\ l \notin {"call", "sending", "recv"} => Top(t).clock \in Turns
      /\ InClock(Top(t)) => clockLock[Top(t).clock] = t
      /\ l = "resuming" => depth[Top(t).clock] = 1
  BY <1>1, <1>2 DEF CallsInv, ClockInv
<1> QED  BY <1>1, <1>3 DEF InClock

LEMMA TakesClockStep ==
  ASSUME CallsInv, NEW t \in Threads, NEW from, NEW to,
         <<from, to>> \in {<<"enter", "entering">>, <<"exit", "exiting">>},
         TakesClock(t, from, to)
  PROVE  CallsInv'
<1> DEFINE s == Top(t).clock
<1>1. /\ At(t, from) /\ clockLock[s] = "none" /\ Goto(t, to)
      /\ clockLock' = [clockLock EXCEPT ![s] = t]
      /\ UNCHANGED <<hpc, turn, paused, toWorker, toParent, mpc, scope, born, told,
                     depth, calls, made, garbage>>
  BY DEF TakesClock, parentVars, mainVars
<1>2. stack[t] # <<>> /\ s \in Turns /\ to \in PCs /\ to # "resuming"
  BY <1>1, AtFrame DEF PCs
<1> HIDE DEF s
<1>3. /\ clockLock' \in [Turns -> Threads \cup {"none"}] /\ clockLock'[s] = t
      /\ \A r \in Turns : r # s => clockLock'[r] = clockLock[r]
  BY <1>1, <1>2 DEF CallsInv, CallsShape
<1>4. ClockInv'
  <2>1. s = Top(t).clock
    BY DEF s
  <2>2. \A r \in Turns : r # s => clockLock'[r] = clockLock[r] /\ depth'[r] = depth[r]
    BY <1>1, <1>3
  <2> QED  BY <1>1, <1>2, <1>3, <2>1, <2>2, ClockGoto
<1>5. TurnInv'
  BY <1>1, TurnKept
<1>6. PauseInv'
  BY <1>1, PauseKept DEF CallsInv, PauseInv
<1>7. (ExecPending' => ExecPending) /\ depth' = depth
  BY <1>1 DEF ExecPending
<1>8. /\ toWorker' \in Seq(ToWorker) /\ toParent' \in Seq(ToParent)
      /\ told' \in BOOLEAN /\ depth' \in [Turns -> Nat]
  BY <1>1 DEF CallsInv, CallsShape
<1> QED  BY <1>1, <1>2, <1>3, <1>4, <1>5, <1>6, <1>7, <1>8, CallMoves

(* The clock is the thread's, and its change of depth neither stops nor    *)
(* starts it.                                                              *)
LEMMA EnteringStep ==
  ASSUME CallsInv, NEW t \in Threads, Entering(t)
  PROVE  CallsInv'
<1> DEFINE s == Top(t).clock
<1>1. /\ At(t, "entering")
      /\ UNCHANGED <<hpc, turn, paused, toWorker, toParent, mpc, scope, born, told,
                     calls, made, garbage>>
      /\ \/ depth[s] = 0 /\ Goto(t, "pausing") /\ UNCHANGED <<depth, clockLock>>
         \/ /\ depth[s] > 0 /\ depth' = [depth EXCEPT ![s] = @ + 1]
            /\ clockLock' = [clockLock EXCEPT ![s] = "none"] /\ Goto(t, "call")
  BY DEF Entering, parentVars, mainVars
<1>2. stack[t] # <<>> /\ s \in Turns /\ InClock(Top(t)) /\ clockLock[s] = t
  <2>1. stack[t] # <<>> /\ Top(t).pc = "entering"
    BY <1>1, AtFrame
  <2> QED  BY <1>1, <2>1, AtFrame DEF InClock
<1>3. s = Top(t).clock
  OBVIOUS
<1> HIDE DEF s
<1>4. /\ depth \in [Turns -> Nat] /\ depth' \in [Turns -> Nat]
      /\ clockLock' \in [Turns -> Threads \cup {"none"}]
      /\ \A r \in Turns : r # s => clockLock'[r] = clockLock[r] /\ depth'[r] = depth[r]
      /\ depth'[s] = depth[s] \/ (depth[s] > 0 /\ depth'[s] = depth[s] + 1)
  <2>1. /\ depth \in [Turns -> Nat] /\ clockLock \in [Turns -> Threads \cup {"none"}]
        /\ depth[s] \in Nat
    BY <1>2 DEF CallsInv, CallsShape
  <2>2. CASE UNCHANGED <<depth, clockLock>>
    BY <2>1, <2>2
  <2>3. CASE /\ depth[s] > 0 /\ depth' = [depth EXCEPT ![s] = @ + 1]
             /\ clockLock' = [clockLock EXCEPT ![s] = "none"]
    BY <1>2, <2>1, <2>3
  <2> QED  BY <1>1, <2>2, <2>3
<1>5. PICK l \in {"pausing", "call"} : Goto(t, l) /\ (l = "pausing" => clockLock' = clockLock)
  BY <1>1
<1>6. l \in PCs
  BY <1>5 DEF PCs
<1>7. ClockInv'
  BY <1>2, <1>3, <1>4, <1>5, <1>6, ClockGoto
<1>8. TurnInv'
  BY <1>1, TurnKept
<1>9. PauseInv'
  <2>1. told = (scope # 0 /\ depth[scope] > 0)
    BY DEF CallsInv, PauseInv
  <2>2. scope # 0 => scope \in Turns
    BY TurnsShape DEF CallsInv, CallsShape
  <2>3. scope # 0 => ((depth'[scope] > 0) <=> (depth[scope] > 0))
    BY <1>2, <1>4, <2>2
  <2>4. told = (scope' # 0 /\ depth'[scope'] > 0)
    BY <1>1, <2>1, <2>3
  <2> QED  BY <1>1, <2>4, PauseKept
<1>10. /\ toWorker' \in Seq(ToWorker) /\ toParent' \in Seq(ToParent) /\ told' \in BOOLEAN
  BY <1>1 DEF CallsInv, CallsShape
<1>11. ExecPending' => ExecPending
  BY <1>1 DEF ExecPending
<1>12. \A r \in Turns : depth'[r] # depth[r] => r = Top(t).clock
  BY <1>3, <1>4
<1> QED  BY <1>1, <1>2, <1>4, <1>5, <1>6, <1>7, <1>8, <1>9, <1>10, <1>11, <1>12, CallMoves

LEMMA ExitingStep ==
  ASSUME CallsInv, NEW t \in Threads, Exiting(t)
  PROVE  CallsInv'
<1> DEFINE s == Top(t).clock
<1>1. /\ At(t, "exiting")
      /\ UNCHANGED <<hpc, turn, paused, toWorker, toParent, mpc, scope, born, told,
                     calls, made, garbage>>
      /\ \/ depth[s] = 1 /\ Goto(t, "resuming") /\ UNCHANGED <<depth, clockLock>>
         \/ /\ depth[s] > 1 /\ depth' = [depth EXCEPT ![s] = @ - 1]
            /\ clockLock' = [clockLock EXCEPT ![s] = "none"] /\ Pop(t)
  BY DEF Exiting, DepthOut, parentVars, mainVars
<1>2. stack[t] # <<>> /\ s \in Turns /\ InClock(Top(t)) /\ clockLock[s] = t
  <2>1. stack[t] # <<>> /\ Top(t).pc = "exiting"
    BY <1>1, AtFrame
  <2> QED  BY <1>1, <2>1, AtFrame DEF InClock
<1>3. s = Top(t).clock
  OBVIOUS
<1> HIDE DEF s
<1>4. /\ depth \in [Turns -> Nat] /\ depth' \in [Turns -> Nat]
      /\ clockLock' \in [Turns -> Threads \cup {"none"}]
      /\ \A r \in Turns : r # s => clockLock'[r] = clockLock[r] /\ depth'[r] = depth[r]
      /\ depth'[s] = depth[s] \/ (depth[s] > 1 /\ depth'[s] = depth[s] - 1)
  <2>1. /\ depth \in [Turns -> Nat] /\ clockLock \in [Turns -> Threads \cup {"none"}]
        /\ depth[s] \in Nat
    BY <1>2 DEF CallsInv, CallsShape
  <2>2. CASE UNCHANGED <<depth, clockLock>>
    BY <2>1, <2>2
  <2>3. CASE /\ depth[s] > 1 /\ depth' = [depth EXCEPT ![s] = @ - 1]
             /\ clockLock' = [clockLock EXCEPT ![s] = "none"]
    <3>1. depth[s] - 1 \in Nat
      BY <2>1, <2>3
    <3> QED  BY <1>2, <2>1, <2>3, <3>1
  <2> QED  BY <1>1, <2>2, <2>3
<1>5. ClockInv'
  <2>1. CASE depth[s] = 1 /\ Goto(t, "resuming") /\ UNCHANGED <<depth, clockLock>>
    <3>1. "resuming" \in PCs
      BY DEF PCs
    <3> QED  BY <1>2, <1>3, <1>4, <2>1, <3>1, ClockGoto
  <2>2. CASE Pop(t)
    BY <1>2, <1>3, <1>4, <2>2, ClockPop
  <2> QED  BY <1>1, <2>1, <2>2
<1>6. Pop(t) \/ \E l \in PCs : Goto(t, l)
  BY <1>1 DEF PCs
<1>7. TurnInv'
  BY <1>1, TurnKept
<1>8. PauseInv'
  <2>1. told = (scope # 0 /\ depth[scope] > 0)
    BY DEF CallsInv, PauseInv
  <2>2. scope # 0 => scope \in Turns
    BY TurnsShape DEF CallsInv, CallsShape
  <2>3. scope # 0 => ((depth'[scope] > 0) <=> (depth[scope] > 0))
    BY <1>2, <1>4, <2>2
  <2>4. told = (scope' # 0 /\ depth'[scope'] > 0)
    BY <1>1, <2>1, <2>3
  <2> QED  BY <1>1, <2>4, PauseKept
<1>9. /\ toWorker' \in Seq(ToWorker) /\ toParent' \in Seq(ToParent) /\ told' \in BOOLEAN
  BY <1>1 DEF CallsInv, CallsShape
<1>10. ExecPending' => ExecPending
  BY <1>1 DEF ExecPending
<1>11. \A r \in Turns : depth'[r] # depth[r] => r = Top(t).clock
  BY <1>3, <1>4
<1> QED  BY <1>1, <1>2, <1>4, <1>5, <1>6, <1>7, <1>8, <1>9, <1>10, <1>11, CallMoves

(* The observer's message: what _tell_parent says, and to whom.            *)
LEMMA TellsStep ==
  ASSUME CallsInv, NEW t \in Threads, NEW s \in Turns, NEW on \in BOOLEAN,
         stack[t] # <<>>, s = Top(t).clock, InClock(Top(t)),
         Pop(t) \/ \E l \in PCs : Goto(t, l),
         ClockInv',
         depth' \in [Turns -> Nat], on = (depth'[s] > 0),
         \A r \in Turns : r # s => depth'[r] = depth[r],
         clockLock' \in [Turns -> Threads \cup {"none"}],
         IF s = scope
         THEN /\ toParent' = Append(toParent,
                                Msg(IF on THEN "HostTimeOn" ELSE "HostTimeOff", s, 0))
              /\ told' = on
         ELSE UNCHANGED <<toParent, told>>,
         UNCHANGED <<hpc, turn, paused, toWorker, mpc, scope, born, calls, made, garbage>>
  PROVE  CallsInv'
<1> DEFINE m == Msg(IF on THEN "HostTimeOn" ELSE "HostTimeOff", s, 0)
<1>1. /\ m \in ToParent /\ m.type \in ClockTypes /\ m.type # "Result"
      /\ on = (m.type = "HostTimeOn")
  <2>1. m.type = IF on THEN "HostTimeOn" ELSE "HostTimeOff"
    BY DEF Msg
  <2>2. m.type \in ClockTypes /\ m.type # "Result" /\ on = (m.type = "HostTimeOn")
    BY <2>1 DEF ClockTypes
  <2>3. m \in ToParent
    BY <2>1, TurnsShape DEF Msg, ToParent, Messages, ClockTypes
  <2> QED  BY <2>2, <2>3
<1>2. toParent \in Seq(ToParent) /\ toWorker \in Seq(ToWorker) /\ told \in BOOLEAN
  BY DEF CallsInv, CallsShape
<1>3. told = (scope # 0 /\ depth[scope] > 0) /\ s # 0
  BY TurnsShape DEF CallsInv, PauseInv
<1>4. (ExecPending' => ExecPending) /\ \A r \in Turns : depth'[r] # depth[r] => r = Top(t).clock
  BY DEF ExecPending
<1> HIDE DEF m
<1>5. CASE s = scope
  <2>1. toParent' = Append(toParent, m) /\ told' = on
    BY <1>5 DEF m
  <2>2. ~ResultPending /\ hpc # "idle"
    BY <1>3, <1>5 DEF CallsInv, TurnInv
  <2>3. TurnInv'
    BY <1>1, <2>1, TurnAppend
  <2>4. told' = (scope' # 0 /\ depth'[scope'] > 0)
    BY <1>3, <1>5, <2>1
  <2>5. PauseInv'
    BY <1>1, <2>1, <2>2, <2>4, PauseAppend
  <2>6. toParent' \in Seq(ToParent)
    BY <1>1, <1>2, <2>1, Queued
  <2> QED  BY <1>2, <1>4, <2>1, <2>3, <2>5, <2>6, CallMoves
<1>6. CASE s # scope
  <2>1. UNCHANGED <<toParent, told>>
    BY <1>6
  <2>2. TurnInv'
    BY <2>1, TurnKept
  <2>3. scope # 0 => scope \in Turns
    BY TurnsShape DEF CallsInv, CallsShape
  <2>4. scope # 0 => depth'[scope] = depth[scope]
    BY <1>6, <2>3
  <2>5. told = (scope' # 0 /\ depth'[scope'] > 0)
    BY <1>3, <2>4
  <2>6. PauseInv'
    BY <2>1, <2>5, PauseKept
  <2> QED  BY <1>2, <1>4, <2>1, <2>2, <2>6, CallMoves
<1> QED  BY <1>5, <1>6

LEMMA PausingStep ==
  ASSUME CallsInv, NEW t \in Threads, Pausing(t)
  PROVE  CallsInv'
<1> DEFINE s == Top(t).clock
<1>1. /\ At(t, "pausing") /\ Goto(t, "call")
      /\ depth' = [depth EXCEPT ![s] = @ + 1]
      /\ clockLock' = [clockLock EXCEPT ![s] = "none"]
      /\ IF s = scope
         THEN toParent' = Append(toParent, Msg("HostTimeOn", s, 0)) /\ told' = TRUE
         ELSE UNCHANGED <<toParent, told>>
      /\ UNCHANGED <<hpc, turn, paused, toWorker, mpc, scope, born, calls, made, garbage>>
  BY DEF Pausing, TellsParent, parentVars, mainVars
<1>2. stack[t] # <<>> /\ s \in Turns /\ InClock(Top(t)) /\ "call" \in PCs
  <2>1. stack[t] # <<>> /\ Top(t).pc = "pausing"
    BY <1>1, AtFrame
  <2> QED  BY <1>1, <2>1, AtFrame DEF InClock, PCs
<1>3. s = Top(t).clock
  OBVIOUS
<1> HIDE DEF s
<1>4. /\ depth' \in [Turns -> Nat] /\ depth'[s] > 0
      /\ \A r \in Turns : r # s => depth'[r] = depth[r] /\ clockLock'[r] = clockLock[r]
      /\ clockLock' \in [Turns -> Threads \cup {"none"}]
  <2>1. /\ depth \in [Turns -> Nat] /\ clockLock \in [Turns -> Threads \cup {"none"}]
        /\ depth[s] \in Nat
    BY <1>2 DEF CallsInv, CallsShape
  <2> QED  BY <1>1, <1>2, <2>1
<1>5. ClockInv'
  BY <1>1, <1>2, <1>3, <1>4, ClockGoto
<1>6. /\ TRUE \in BOOLEAN /\ TRUE = (depth'[s] > 0)
      /\ (IF TRUE THEN "HostTimeOn" ELSE "HostTimeOff") = "HostTimeOn"
  BY <1>4
<1> QED  BY <1>1, <1>2, <1>3, <1>4, <1>5, <1>6, TellsStep

LEMMA ResumingStep ==
  ASSUME CallsInv, NEW t \in Threads, Resuming(t)
  PROVE  CallsInv'
<1> DEFINE s == Top(t).clock
<1>1. /\ At(t, "resuming") /\ Pop(t)
      /\ depth' = [depth EXCEPT ![s] = @ - 1]
      /\ clockLock' = [clockLock EXCEPT ![s] = "none"]
      /\ IF s = scope
         THEN toParent' = Append(toParent, Msg("HostTimeOff", s, 0)) /\ told' = FALSE
         ELSE UNCHANGED <<toParent, told>>
      /\ UNCHANGED <<hpc, turn, paused, toWorker, mpc, scope, born, calls, made, garbage>>
  BY DEF Resuming, DepthOut, TellsParent, parentVars, mainVars
<1>2. stack[t] # <<>> /\ s \in Turns /\ InClock(Top(t)) /\ depth[s] = 1
  <2>1. stack[t] # <<>> /\ Top(t).pc = "resuming"
    BY <1>1, AtFrame
  <2> QED  BY <1>1, <2>1, AtFrame DEF InClock
<1>3. s = Top(t).clock
  OBVIOUS
<1> HIDE DEF s
<1>4. /\ depth' \in [Turns -> Nat] /\ depth'[s] = 0
      /\ \A r \in Turns : r # s => depth'[r] = depth[r] /\ clockLock'[r] = clockLock[r]
      /\ clockLock' \in [Turns -> Threads \cup {"none"}]
  <2>1. /\ depth \in [Turns -> Nat] /\ clockLock \in [Turns -> Threads \cup {"none"}]
    BY DEF CallsInv, CallsShape
  <2> QED  BY <1>1, <1>2, <2>1
<1>5. ClockInv'
  BY <1>1, <1>2, <1>3, <1>4, ClockPop
<1>6. /\ FALSE \in BOOLEAN /\ FALSE = (depth'[s] > 0)
      /\ (IF FALSE THEN "HostTimeOn" ELSE "HostTimeOff") = "HostTimeOff"
  BY <1>4
<1> QED  BY <1>1, <1>2, <1>3, <1>4, <1>5, <1>6, TellsStep

(* The call is sent and its answer read: the clocks stay as they are.      *)
LEMMA TakesSendStep ==
  ASSUME CallsInv, NEW t \in Threads, TakesSend(t)
  PROVE  CallsInv'
<1>1. /\ At(t, "call") /\ Goto(t, "sending")
      /\ UNCHANGED <<hpc, turn, paused, toWorker, toParent, mpc, scope, born, told,
                     depth, clockLock, calls, made, garbage>>
  BY DEF TakesSend, parentVars, mainVars
<1>2. stack[t] # <<>> /\ "sending" \in PCs
  BY <1>1, AtFrame DEF PCs
<1>3. ClockInv'
  BY <1>1, <1>2, ClockGoto
<1>4. TurnInv'
  BY <1>1, TurnKept
<1>5. PauseInv'
  BY <1>1, PauseKept DEF CallsInv, PauseInv
<1>6. /\ toWorker' \in Seq(ToWorker) /\ toParent' \in Seq(ToParent) /\ told' \in BOOLEAN
      /\ depth' \in [Turns -> Nat] /\ clockLock' \in [Turns -> Threads \cup {"none"}]
  BY <1>1 DEF CallsInv, CallsShape
<1>7. (ExecPending' => ExecPending) /\ depth' = depth
  BY <1>1 DEF ExecPending
<1> QED  BY <1>1, <1>2, <1>3, <1>4, <1>5, <1>6, <1>7, CallMoves

LEMMA SendsStep ==
  ASSUME CallsInv, NEW t \in Threads, Sends(t)
  PROVE  CallsInv'
<1> DEFINE m == Msg("RpcCall", Top(t).clock, Top(t).call)
<1>1. /\ At(t, "sending") /\ Goto(t, "recv") /\ toParent' = Append(toParent, m)
      /\ UNCHANGED <<hpc, turn, paused, toWorker, mpc, scope, born, told, depth,
                     clockLock, calls, made, garbage>>
  BY DEF Sends, parentVars, mainVars
<1>2. stack[t] # <<>> /\ "recv" \in PCs /\ Top(t) \in Calling
  BY <1>1, AtFrame, TopFrame DEF PCs, CallsInv
<1>3. m \in ToParent /\ m.type # "Result" /\ m.type \notin ClockTypes
  BY <1>2 DEF Msg, ToParent, Messages, ClockTypes, Calling
<1> HIDE DEF m
<1>4. ClockInv'
  BY <1>1, <1>2, ClockGoto
<1>5. TurnInv'
  BY <1>1, <1>3, TurnAppend
<1>6. PauseInv'
  <2>1. told' = (scope' # 0 /\ depth'[scope'] > 0)
    BY <1>1 DEF CallsInv, PauseInv
  <2> QED  BY <1>1, <1>3, <2>1, PauseAppend
<1>7. /\ toWorker' \in Seq(ToWorker) /\ toParent \in Seq(ToParent) /\ told' \in BOOLEAN
      /\ depth' \in [Turns -> Nat] /\ clockLock' \in [Turns -> Threads \cup {"none"}]
  BY <1>1 DEF CallsInv, CallsShape
<1>8. toParent' \in Seq(ToParent)
  BY <1>1, <1>3, <1>7, Queued
<1>9. (ExecPending' => ExecPending) /\ depth' = depth
  BY <1>1 DEF ExecPending
<1> QED  BY <1>1, <1>2, <1>4, <1>5, <1>6, <1>7, <1>8, <1>9, CallMoves

LEMMA RecvStep ==
  ASSUME CallsInv, NEW t \in Threads, Recv(t)
  PROVE  CallsInv'
<1>1. /\ At(t, "recv") /\ toWorker # <<>> /\ toWorker' = Tail(toWorker)
      /\ IF Top(t).clock = 0 THEN Pop(t) ELSE Goto(t, "exit")
      /\ UNCHANGED <<hpc, turn, paused, toParent, mpc, scope, born, told, depth,
                     clockLock, calls, made, garbage>>
  BY DEF Recv, parentVars, mainVars
<1>2. stack[t] # <<>> /\ "exit" \in PCs /\ Top(t).clock \in 0..MaxTurn
  BY <1>1, AtFrame, TopFrame DEF PCs, CallsInv, Calling
<1>3. ClockInv'
  <2>1. CASE Pop(t)
    BY <1>1, <1>2, <2>1, ClockPop
  <2>2. CASE Top(t).clock # 0 /\ Goto(t, "exit")
    <3>1. Top(t).clock \in Turns
      BY <1>2, <2>2, TurnsShape
    <3> QED  BY <1>1, <1>2, <2>2, <3>1, ClockGoto
  <2> QED  BY <1>1, <2>1, <2>2
<1>4. TurnInv'
  BY <1>1, TurnReads
<1>5. PauseInv'
  BY <1>1, PauseKept DEF CallsInv, PauseInv
<1>6. toWorker' \in Seq(ToWorker) /\ (ExecPending' => ExecPending)
  BY <1>1, WorkerReads
<1>7. /\ toParent' \in Seq(ToParent) /\ told' \in BOOLEAN /\ depth' = depth
      /\ depth' \in [Turns -> Nat] /\ clockLock' \in [Turns -> Threads \cup {"none"}]
  BY <1>1 DEF CallsInv, CallsShape
<1>8. Pop(t) \/ \E l \in PCs : Goto(t, l)
  BY <1>1, <1>2
<1> QED  BY <1>1, <1>2, <1>3, <1>4, <1>5, <1>6, <1>7, <1>8, CallMoves

-----------------------------------------------------------------------------
LEMMA CallsStep ==
  ASSUME CallsInv, [HostCallsNext]_hostCallsVars
  PROVE  CallsInv'
<1>1. CASE UNCHANGED hostCallsVars
  <2>1. UNCHANGED <<hpc, turn, paused, toWorker, toParent, mpc, scope, told, depth,
                    clockLock, born, stack, calls, made, garbage>>
    BY <1>1 DEF hostCallsVars
  <2>2. CallsShape'
    BY <2>1 DEF CallsInv, CallsShape
  <2>3. FreshInv' /\ ClockInv'
    BY <2>1, ClocksKept DEF ExecPending
  <2>4. PauseInv'
    BY <2>1, PauseKept DEF CallsInv, PauseInv
  <2> QED  BY <2>1, <2>2, <2>3, <2>4, TurnKept DEF CallsInv
<1>2. CASE MainNext
  <2>1. ASSUME MainTakes("ending", "closing") \/ MainTakes("result", "replying")
        PROVE  CallsInv'
    BY <2>1, MainMoves DEF MainTakes, parentVars, CallsInv, CallsShape
  <2> QED  BY <1>2, <2>1, LoopRecvStep, ExecutionEndsStep, SendsResultStep DEF MainNext
<1>3. CASE LeaveFile
  <2>1. /\ mpc = "code" /\ made' \in Nat /\ garbage' \in Nat /\ garbage' <= made'
    BY <1>3 DEF LeaveFile, CallsInv, CallsShape
  <2> QED  BY <1>3, <2>1, MainMoves DEF LeaveFile, parentVars, mainVars
<1>4. CASE CodeEnds
  BY <1>4, MainMoves DEF CodeEnds, parentVars, CallsInv, CallsShape
<1>5. ASSUME NEW t \in Others, StartThread(t)
      PROVE  CallsInv'
  <2>1. /\ mpc = "code" /\ mpc' = "code" /\ born' = [born EXCEPT ![t] = scope]
        /\ UNCHANGED <<hpc, turn, paused, toWorker, toParent, scope, told, depth,
                       clockLock, stack, calls, made, garbage>>
    BY <1>5 DEF StartThread, parentVars
  <2>2. made' \in Nat /\ garbage' \in Nat /\ garbage' <= made'
    BY <2>1 DEF CallsInv, CallsShape
  <2>3. \E u \in Others : born' = [born EXCEPT ![u] = scope] /\ mpc = "code"
    BY <2>1
  <2> QED  BY <2>1, <2>2, <2>3, MainMoves
<1>6. ASSUME NEW t \in Threads, Call(t) \/ FinalizeFile(t)
      PROVE  CallsInv'
  <2>1. PushCall(t)
    BY <1>6 DEF Call, FinalizeFile
  <2>2. made' = made /\ garbage' \in Nat /\ garbage' <= garbage
    BY <1>6 DEF Call, FinalizeFile, CallsInv, CallsShape
  <2> QED  BY <2>1, <2>2, PushStep
<1>7. ASSUME NEW t \in Threads, CallStep(t)
      PROVE  CallsInv'
  BY <1>7, TakesClockStep, EnteringStep, PausingStep, TakesSendStep, SendsStep,
     RecvStep, ExitingStep, ResumingStep DEF CallStep
<1> QED  BY <1>1, <1>2, <1>3, <1>4, <1>5, <1>6, <1>7, ParentExecStep,
            ParentRecvStep, UnresponsiveStep DEF HostCallsNext

LEMMA CallsBegin ==
  ASSUME HostCallsInit
  PROVE  CallsInv
<1> USE DEF HostCallsInit
<1>1. toWorker \in Seq(ToWorker) /\ toParent \in Seq(ToParent)
      /\ Len(toWorker) = 0 /\ Len(toParent) = 0
  OBVIOUS
<1>2. stack \in [Threads -> Seq(Calling)] /\ \A t \in Threads : Len(stack[t]) = 0
  OBVIOUS
<1>3. CallsShape
  <2>1. 0 \in 0..MaxTurn
    BY TurnsShape
  <2>2. born \in [Others -> 0..MaxTurn]
    BY <2>1
  <2>3. depth \in [Turns -> Nat] /\ clockLock \in [Turns -> Threads \cup {"none"}]
    OBVIOUS
  <2>4. paused \in BOOLEAN /\ told \in BOOLEAN
    BY Zenon
  <2> QED  BY <1>1, <1>2, <2>1, <2>2, <2>3, <2>4 DEF CallsShape
<1>4. TurnInv
  BY <1>1 DEF TurnInv, ExecPending, ResultPending
<1>5. FreshInv
  <2>1. ~ExecPending
    BY <1>1 DEF ExecPending
  <2>2. \A t \in Threads : \A i \in 1..Len(stack[t]) : FALSE
    BY <1>2
  <2>3. \A s \in Turns : s # 0
    BY TurnsShape
  <2> QED  BY <2>1, <2>2, <2>3 DEF FreshInv, Unused
<1>6. ClockInv
  BY <1>2 DEF ClockInv
<1>7. PauseInv
  <2>1. told = (scope # 0 /\ depth[scope] > 0) /\ paused = told
    OBVIOUS
  <2>2. \A i \in 1..Len(toParent) : FALSE
    BY <1>1
  <2>3. NoClockMessage(toParent)
    BY <1>1, <2>2 DEF NoClockMessage
  <2> QED  BY <2>1, <2>2, <2>3 DEF PauseInv
<1> QED  BY <1>3, <1>4, <1>5, <1>6, <1>7 DEF CallsInv

LEMMA CallsInvariant == HostCallsSpec => []CallsInv
<1>1. CallsInv /\ [HostCallsNext]_hostCallsVars => CallsInv'
  BY CallsStep
<1> QED  BY <1>1, CallsBegin, PTL DEF HostCallsSpec

(* Whatever threads and finalizers do with the clocks of this execution or *)
(* of earlier ones, the parent's deadline is held exactly while the clock  *)
(* of the execution it waits for is stopped, once it has read what the     *)
(* worker said.                                                            *)
THEOREM PauseFollowsClockHolds == HostCallsSpec => []PauseFollowsClock
<1>1. CallsInv => PauseFollowsClock
  <2> SUFFICES ASSUME CallsInv, hpc = "await", NoClockMessage(toParent)
               PROVE  paused = (scope = turn /\ scope # 0 /\ depth[scope] > 0)
    BY DEF PauseFollowsClock
  <2>1. paused = told /\ told = (scope # 0 /\ depth[scope] > 0)
    BY DEF CallsInv, PauseInv
  <2>2. scope # 0 => scope = turn
    BY DEF CallsInv, TurnInv
  <2> QED  BY <2>1, <2>2
<1> QED  BY <1>1, CallsInvariant, PTL

-----------------------------------------------------------------------------
(* No call is out unless the main thread reads for its answer.             *)
NoCallOut ==
    /\ \A i \in 1..Len(toParent) : toParent[i].type # "RpcCall"
    /\ \A i \in 1..Len(toWorker) : toWorker[i].type # "RpcReturn"

LEMMA NothingOut ==
  ASSUME CallsInv, ReaderInv, Quiet,
         \A i \in 1..Len(stack["main"]) : stack["main"][i].pc # "recv"
  PROVE  NoCallOut
BY DEF ReaderInv, NoCallOut, Awaits

(* Under Quiet only the main thread makes calls, one at a time.            *)
LEMMA OneCaller ==
  ASSUME CallsInv, ReaderInv, Quiet, NEW t \in Threads, stack[t] # <<>>
  PROVE  /\ t = "main" /\ Len(stack[t]) = 1 /\ mpc = "code"
         /\ Top(t) = stack["main"][1]
         /\ \A i \in 1..Len(toWorker) : toWorker[i].type = "RpcReturn"
<1>1. t = "main" /\ Len(stack[t]) <= 1 /\ mpc = "code"
  BY DEF ReaderInv, Threads
<1>2. Len(stack[t]) \in Nat /\ 1 <= Len(stack[t]) /\ Top(t) = stack[t][Len(stack[t])]
  <2>1. Len(stack[t]) \in Nat /\ Len(stack[t]) \in 1..Len(stack[t])
        /\ Top(t) = stack[t][Len(stack[t])]
    BY TopFrame DEF CallsInv
  <2> QED  BY <2>1
<1>3. ~ExecPending
  BY <1>1 DEF CallsInv, TurnInv
<1>4. \A i \in 1..Len(toWorker) : toWorker[i] \in ToWorker
  BY DEF CallsInv, CallsShape
<1>5. \A i \in 1..Len(toWorker) : toWorker[i].type = "RpcReturn"
  BY <1>3, <1>4 DEF ExecPending, ToWorker, Messages
<1>6. Len(stack[t]) = 1
  <2>1. Len(stack[t]) <= 1 /\ Len(stack[t]) \in Nat /\ 1 <= Len(stack[t])
    BY <1>1, <1>2, Zenon
  <2>2. \A n \in Nat : n <= 1 /\ 1 <= n => n = 1
    OBVIOUS
  <2> QED  BY <2>1, <2>2, Zenon
<1>7. Top(t) = stack["main"][1]
  BY <1>1, <1>2, <1>6
<1> QED  BY <1>1, <1>5, <1>6, <1>7

(* The stacks once a call has moved on or returned, when it is the only    *)
(* one.                                                                    *)
LEMMA OneCallMoves ==
  ASSUME CallsInv, ReaderInv, Quiet, NEW t \in Threads, stack[t] # <<>>,
         NEW l \in PCs, Pop(t) \/ Goto(t, l)
  PROVE  /\ \A u \in Others : stack'[u] = <<>>
         /\ stack'["main"] \in Seq(Calling) /\ Len(stack'["main"]) <= 1
         /\ Goto(t, l) => Len(stack'["main"]) = 1
         /\ Goto(t, l) => \A i \in 1..Len(stack'["main"]) :
               /\ stack'["main"][i].pc = l
               /\ stack'["main"][i].call = Top(t).call
         /\ Pop(t) => Len(stack'["main"]) = 0
<1>1. t = "main" /\ Len(stack[t]) = 1
  BY OneCaller
<1>2. \A u \in Others : u \in Threads /\ u # t /\ stack[u] = <<>>
  BY <1>1, HostCallsAssumption DEF ReaderInv, Threads
<1>3. CASE Pop(t)
  <2>1. /\ stack' \in [Threads -> Seq(Calling)]
        /\ \A u \in Threads : u # t => stack'[u] = stack[u]
        /\ Len(stack'[t]) = Len(stack[t]) - 1
    BY <1>3, PopFrames DEF CallsInv
  <2>2. ~Goto(t, l)
    <3>1. Goto(t, l) => Len(stack'[t]) = Len(stack[t])
      BY GotoFrames DEF CallsInv
    <3> QED  BY <1>1, <2>1, <3>1
  <2>3. stack'["main"] \in Seq(Calling) /\ Len(stack'["main"]) = 0
    BY <1>1, <2>1, ThreadsNamed
  <2>4. \A u \in Others : stack'[u] = <<>>
    BY <1>2, <2>1
  <2> QED  BY <2>2, <2>3, <2>4
<1>4. CASE Goto(t, l) /\ ~Pop(t)
  <2>1. /\ stack' \in [Threads -> Seq(Calling)]
        /\ Len(stack'[t]) = Len(stack[t])
        /\ \A u \in Threads : u # t => stack'[u] = stack[u]
        /\ stack'[t][Len(stack[t])]
              = [pc |-> l, clock |-> Top(t).clock, call |-> Top(t).call]
    BY <1>4, GotoFrames DEF CallsInv
  <2>2. stack'["main"][1].pc = l /\ stack'["main"][1].call = Top(t).call
    BY <1>1, <2>1
  <2>3. stack'["main"] \in Seq(Calling) /\ Len(stack'["main"]) = 1
    BY <1>1, <2>1, ThreadsNamed
  <2>4. \A u \in Others : stack'[u] = <<>>
    BY <1>2, <2>1
  <2>5. \A i \in 1..Len(stack'["main"]) : i = 1
    BY <2>3
  <2> QED  BY <1>4, <2>2, <2>3, <2>4, <2>5
<1> QED  BY <1>3, <1>4

-----------------------------------------------------------------------------
(* With nothing out, nothing can cross.                                    *)
LEMMA ReaderIdle ==
  ASSUME \A u \in Others : stack'[u] = <<>>, Len(stack'["main"]) <= 1,
         stack'["main"] # <<>> => mpc' = "code", NoCallOut', crossed' = {}
  PROVE  ReaderInv'
BY DEF ReaderInv, NoCallOut

(* A message that is no call, if any, leaves nothing out.                  *)
LEMMA StillNothingOut ==
  ASSUME CallsInv, NoCallOut, toWorker' = toWorker,
         \/ toParent' = toParent
         \/ \E m \in ToParent : m.type # "RpcCall" /\ toParent' = Append(toParent, m)
  PROVE  NoCallOut'
<1>1. CASE toParent' = toParent
  BY <1>1 DEF NoCallOut
<1>2. ASSUME NEW m \in ToParent, m.type # "RpcCall", toParent' = Append(toParent, m)
      PROVE  NoCallOut'
  <2>1. toParent \in Seq(ToParent)
    BY DEF CallsInv, CallsShape
  <2>2. /\ Len(toParent) \in Nat /\ Len(toParent') = Len(toParent) + 1
        /\ \A i \in 1..Len(toParent) : toParent'[i] = toParent[i]
        /\ toParent'[Len(toParent) + 1] = m
    BY <1>2, <2>1, Queued
  <2>3. \A i \in 1..Len(toParent') : i \in 1..Len(toParent) \/ i = Len(toParent) + 1
    BY <2>2
  <2> QED  BY <1>2, <2>2, <2>3 DEF NoCallOut
<1> QED  BY <1>1, <1>2

(* A step of the only call, other than sending it or reading its answer.   *)
LEMMA ReaderMoves ==
  ASSUME CallsInv, ReaderInv, Quiet, NEW t \in Threads, stack[t] # <<>>,
         Top(t).pc # "recv", NEW l \in PCs, Pop(t) \/ Goto(t, l),
         UNCHANGED <<mpc, toWorker, crossed>>,
         \/ toParent' = toParent
         \/ \E m \in ToParent : m.type # "RpcCall" /\ toParent' = Append(toParent, m)
  PROVE  ReaderInv'
<1>1. t = "main" /\ Len(stack[t]) = 1 /\ mpc = "code" /\ Top(t) = stack["main"][1]
  BY OneCaller
<1>2. \A i \in 1..Len(stack["main"]) : stack["main"][i].pc # "recv"
  BY <1>1
<1>3. NoCallOut
  BY <1>2, NothingOut
<1>4. NoCallOut'
  BY <1>3, StillNothingOut
<1>5. (\A u \in Others : stack'[u] = <<>>) /\ Len(stack'["main"]) <= 1
  BY OneCallMoves
<1>6. mpc' = "code" /\ crossed' = {}
  BY <1>1 DEF ReaderInv
<1> QED  BY <1>4, <1>5, <1>6, ReaderIdle

(* A step while the main thread makes no call.                             *)
LEMMA IdleNothingOut ==
  ASSUME CallsInv, ReaderInv, Quiet, stack["main"] = <<>>
  PROVE  NoCallOut /\ crossed = {} /\ (\A u \in Others : stack[u] = <<>>)
         /\ Len(stack["main"]) <= 1
<1>1. Len(stack["main"]) = 0
  OBVIOUS
<1>2. NoCallOut
  BY <1>1, NothingOut
<1> QED  BY <1>1, <1>2 DEF ReaderInv

LEMMA ReaderMain ==
  ASSUME CallsInv, ReaderInv, Quiet, stack["main"] = <<>>,
         UNCHANGED <<stack, crossed>>, NoCallOut'
  PROVE  ReaderInv'
<1>1. /\ crossed = {} /\ (\A u \in Others : stack[u] = <<>>)
      /\ Len(stack["main"]) <= 1
  BY IdleNothingOut
<1> QED  BY <1>1, ReaderIdle

LEMMA ReaderMainSays ==
  ASSUME CallsInv, ReaderInv, Quiet, stack["main"] = <<>>,
         UNCHANGED <<stack, crossed, toWorker>>,
         \/ toParent' = toParent
         \/ \E m \in ToParent : m.type # "RpcCall" /\ toParent' = Append(toParent, m)
  PROVE  ReaderInv'
<1>1. NoCallOut
  BY IdleNothingOut
<1>2. NoCallOut'
  BY <1>1, StillNothingOut
<1> QED  BY <1>2, ReaderMain

LEMMA ReaderSame ==
  ASSUME ReaderInv, Quiet, UNCHANGED <<stack, crossed, toWorker, toParent, mpc>>
  PROVE  ReaderInv'
<1>1. \A c : Awaits(c)' = Awaits(c)
  BY DEF Awaits
<1> QED  BY <1>1 DEF ReaderInv

-----------------------------------------------------------------------------
(* The parent sends an execution to a worker that is in its loop.          *)
LEMMA ReaderParentExec ==
  ASSUME CallsInv, ReaderInv, Quiet, ParentExec
  PROVE  ReaderInv'
<1>1. mpc = "loop" /\ stack["main"] = <<>>
  BY DEF ParentExec, CallsInv, TurnInv, ReaderInv
<1>2. NoCallOut
  BY <1>1, IdleNothingOut
<1>3. toWorker \in Seq(ToWorker) /\ Msg("Exec", turn + 1, 0) \in ToWorker
  <2>1. turn + 1 \in 0..MaxTurn
    BY HostCallsAssumption DEF ParentExec, CallsInv, CallsShape
  <2> QED  BY <2>1 DEF CallsInv, CallsShape, Msg, ToWorker, Messages
<1>4. /\ Len(toWorker) \in Nat /\ Len(toWorker') = Len(toWorker) + 1
      /\ \A i \in 1..Len(toWorker) : toWorker'[i] = toWorker[i]
      /\ toWorker'[Len(toWorker) + 1] = Msg("Exec", turn + 1, 0)
  BY <1>3, Queued DEF ParentExec
<1>5. \A i \in 1..Len(toWorker') : i \in 1..Len(toWorker) \/ i = Len(toWorker) + 1
  BY <1>4
<1>6. toParent' = toParent /\ UNCHANGED <<stack, crossed>>
  BY DEF ParentExec
<1>7. NoCallOut'
  BY <1>2, <1>4, <1>5, <1>6 DEF NoCallOut, Msg
<1> QED  BY <1>1, <1>6, <1>7, ReaderMain

(* It reads a call, and answers it, or something else.                     *)
LEMMA ReaderParentRecv ==
  ASSUME CallsInv, ReaderInv, Quiet, ParentRecv
  PROVE  ReaderInv'
<1>1. toParent \in Seq(ToParent) /\ toParent # <<>> /\ toWorker \in Seq(ToWorker)
      /\ UNCHANGED <<stack, crossed, mpc>> /\ toParent' = Tail(toParent)
  BY DEF ParentRecv, CallsInv, CallsShape, mainVars
<1>2. /\ Len(toParent) \in Nat /\ 1 <= Len(toParent)
      /\ Len(toParent') = Len(toParent) - 1
      /\ \A i \in 1..Len(toParent') : i + 1 \in 1..Len(toParent)
                                      /\ toParent'[i] = toParent[i + 1]
      /\ Head(toParent) = toParent[1] /\ toParent[1] \in ToParent
  BY <1>1, Taken
<1>3. \A c : Awaits(c)' = Awaits(c)
  BY <1>1 DEF Awaits
<1>4. 1 \in 1..Len(toParent)
  BY <1>2
<1>5. CASE Head(toParent).type # "RpcCall"
  <2>1. toWorker' = toWorker
    BY <1>5 DEF ParentRecv
  <2>2. ASSUME NEW i \in 1..Len(toParent'), toParent'[i].type = "RpcCall"
        PROVE  /\ Awaits(toParent'[i].call) /\ toWorker = <<>>
               /\ \A j \in 1..Len(toParent') : toParent'[j].type = "RpcCall" => i = j
    <3>1. /\ i + 1 \in 1..Len(toParent) /\ toParent'[i] = toParent[i + 1]
          /\ toParent[i + 1].type = "RpcCall"
      BY <1>2, <2>2
    <3>2. /\ Awaits(toParent[i + 1].call) /\ toWorker = <<>>
          /\ \A j \in 1..Len(toParent) : toParent[j].type = "RpcCall" => i + 1 = j
      BY <3>1 DEF ReaderInv
    <3>3. ASSUME NEW j \in 1..Len(toParent'), toParent'[j].type = "RpcCall"
          PROVE  i = j
      <4>1. j + 1 \in 1..Len(toParent) /\ toParent[j + 1].type = "RpcCall"
        BY <1>2, <3>3
      <4>2. i + 1 = j + 1
        BY <3>2, <4>1
      <4> QED  BY <4>2
    <3> QED  BY <3>1, <3>2, <3>3
  <2>3. ASSUME NEW i \in 1..Len(toWorker), toWorker[i].type = "RpcReturn"
        PROVE  /\ Awaits(toWorker[i].call) /\ Len(toWorker) = 1
               /\ \A j \in 1..Len(toParent') : toParent'[j].type # "RpcCall"
    BY <1>2, <2>3 DEF ReaderInv
  <2>4. /\ \A t \in Others : stack'[t] = <<>>
        /\ Len(stack'["main"]) <= 1 /\ (stack'["main"] # <<>> => mpc' = "code")
        /\ crossed' = {}
    BY <1>1 DEF ReaderInv
  <2> QED  BY <1>3, <2>1, <2>2, <2>3, <2>4 DEF ReaderInv
<1>6. CASE Head(toParent).type = "RpcCall"
  <2>1. /\ Awaits(toParent[1].call) /\ toWorker = <<>>
        /\ \A j \in 1..Len(toParent) : toParent[j].type = "RpcCall" => 1 = j
    BY <1>2, <1>4, <1>6 DEF ReaderInv
  <2>2. toWorker' = toWorker \o <<Msg("RpcReturn", Head(toParent).turn, Head(toParent).call)>>
    BY <1>6 DEF ParentRecv, Reply
  <2>3. toWorker' = <<Msg("RpcReturn", Head(toParent).turn, Head(toParent).call)>>
    <3>1. Head(toParent).turn \in 0..MaxTurn /\ Head(toParent).call \in Nat
      BY <1>2 DEF ToParent, Messages
    <3>2. Msg("RpcReturn", Head(toParent).turn, Head(toParent).call) \in ToWorker
      BY <3>1 DEF Msg, ToWorker, Messages
    <3> HIDE DEF Msg
    <3> QED  BY <2>1, <2>2, <3>2, ConcatEmptySeq
  <2>4. /\ Len(toWorker') = 1 /\ toWorker'[1].call = toParent[1].call
    BY <1>2, <2>3 DEF Msg
  <2>5. \A j \in 1..Len(toParent') : toParent'[j].type # "RpcCall"
    <3> SUFFICES ASSUME NEW j \in 1..Len(toParent'), toParent'[j].type = "RpcCall"
                 PROVE  FALSE
      OBVIOUS
    <3>1. j + 1 \in 1..Len(toParent) /\ toParent[j + 1].type = "RpcCall"
      BY <1>2
    <3>2. 1 = j + 1
      BY <2>1, <3>1
    <3> QED  BY <1>2, <3>2
  <2>6. ASSUME NEW i \in 1..Len(toWorker')
        PROVE  \E k \in 1..Len(stack'["main"]) :
                  stack'["main"][k].pc = "recv" /\ stack'["main"][k].call = toWorker'[i].call
    <3>1. i = 1
      BY <2>4
    <3>2. toWorker'[i].call = toParent[1].call
      BY <2>4, <3>1
    <3> QED  BY <1>1, <2>1, <3>2 DEF Awaits
  <2>7. /\ \A t \in Others : stack'[t] = <<>>
        /\ Len(stack'["main"]) <= 1 /\ (stack'["main"] # <<>> => mpc' = "code")
        /\ crossed' = {}
    BY <1>1 DEF ReaderInv
  <2> QED  BY <2>4, <2>5, <2>6, <2>7 DEF ReaderInv, Awaits
<1> QED  BY <1>5, <1>6

(* The worker's loop finds no answer there.                                *)
LEMMA ReaderLoopRecv ==
  ASSUME CallsInv, ReaderInv, Quiet, LoopRecv
  PROVE  ReaderInv'
<1>1. stack["main"] = <<>> /\ toWorker # <<>> /\ toWorker' = Tail(toWorker)
      /\ UNCHANGED <<stack, toParent>>
  BY DEF LoopRecv, MainReady
<1>2. NoCallOut
  BY <1>1, IdleNothingOut
<1>3. /\ Len(toWorker) \in Nat /\ 1 <= Len(toWorker)
      /\ \A i \in 1..Len(toWorker') : i + 1 \in 1..Len(toWorker)
                                      /\ toWorker'[i] = toWorker[i + 1]
      /\ Head(toWorker) = toWorker[1]
  BY <1>1, Taken DEF CallsInv, CallsShape
<1>4. 1 \in 1..Len(toWorker)
  BY <1>3
<1>5. crossed' = crossed
  BY <1>2, <1>3, <1>4 DEF LoopRecv, NoCallOut
<1>6. NoCallOut'
  BY <1>1, <1>2, <1>3 DEF NoCallOut
<1> QED  BY <1>1, <1>5, <1>6, ReaderMain

-----------------------------------------------------------------------------
(* The main thread sends its call: it is the only message on its way to a  *)
(* worker whose side of the pipe is empty.                                 *)
LEMMA ReaderSends ==
  ASSUME CallsInv, ReaderInv, Quiet, NEW t \in Threads, Sends(t)
  PROVE  ReaderInv'
<1>1. /\ stack[t] # <<>> /\ Top(t).pc = "sending" /\ Goto(t, "recv")
      /\ toParent' = Append(toParent, Msg("RpcCall", Top(t).clock, Top(t).call))
      /\ UNCHANGED <<toWorker, mpc, crossed>> /\ "recv" \in PCs
  BY DEF Sends, At, mainVars, PCs
<1>2. /\ t = "main" /\ Len(stack[t]) = 1 /\ mpc = "code" /\ Top(t) = stack["main"][1]
      /\ \A i \in 1..Len(toWorker) : toWorker[i].type = "RpcReturn"
  BY <1>1, OneCaller
<1>3. NoCallOut
  BY <1>1, <1>2, NothingOut
<1>4. toWorker = <<>>
  <2>1. toWorker \in Seq(ToWorker)
    BY DEF CallsInv, CallsShape
  <2>2. toWorker # <<>> => Len(toWorker) \in Nat /\ 1 <= Len(toWorker)
    BY <2>1, Taken
  <2>3. toWorker # <<>> => 1 \in 1..Len(toWorker)
    BY <2>2
  <2> QED  BY <1>2, <1>3, <2>3 DEF NoCallOut
<1>5. /\ \A u \in Others : stack'[u] = <<>>
      /\ Len(stack'["main"]) = 1
      /\ \A i \in 1..Len(stack'["main"]) :
            stack'["main"][i].pc = "recv" /\ stack'["main"][i].call = Top(t).call
  BY <1>1, OneCallMoves
<1>6. /\ Len(toParent) \in Nat /\ Len(toParent') = Len(toParent) + 1
      /\ \A i \in 1..Len(toParent) : toParent'[i] = toParent[i]
      /\ toParent'[Len(toParent) + 1] = Msg("RpcCall", Top(t).clock, Top(t).call)
  <2>1. Top(t) \in Calling /\ toParent \in Seq(ToParent)
    BY <1>1, TopFrame DEF CallsInv, CallsShape
  <2>2. Msg("RpcCall", Top(t).clock, Top(t).call) \in ToParent
    BY <2>1 DEF Calling, Msg, ToParent, Messages
  <2> QED  BY <1>1, <2>1, <2>2, Queued
<1>7. \A i \in 1..Len(toParent') : toParent'[i].type = "RpcCall"
         => i = Len(toParent) + 1 /\ toParent'[i].call = Top(t).call
  <2>1. \A i \in 1..Len(toParent') : i \in 1..Len(toParent) \/ i = Len(toParent) + 1
    BY <1>6
  <2>2. \A i \in 1..Len(toParent) : toParent'[i].type # "RpcCall"
    BY <1>3, <1>6 DEF NoCallOut
  <2>3. toParent'[Len(toParent) + 1].call = Top(t).call
    BY <1>6 DEF Msg
  <2> QED  BY <2>1, <2>2, <2>3
<1>8. 1 \in 1..Len(stack'["main"]) /\ Len(stack'["main"]) <= 1
  BY <1>5
<1>9. \A i \in 1..Len(toParent') : toParent'[i].type = "RpcCall"
         => \E k \in 1..Len(stack'["main"]) :
               stack'["main"][k].pc = "recv" /\ stack'["main"][k].call = toParent'[i].call
  BY <1>5, <1>7, <1>8
<1>10. toWorker' = <<>> /\ Len(toWorker') = 0 /\ mpc' = "code" /\ crossed' = {}
  BY <1>1, <1>2, <1>4 DEF ReaderInv
<1> QED  BY <1>5, <1>7, <1>8, <1>9, <1>10 DEF ReaderInv, Awaits

(* What it reads is the answer to its call.                                *)
LEMMA ReaderRecv ==
  ASSUME CallsInv, ReaderInv, Quiet, NEW t \in Threads, Recv(t)
  PROVE  ReaderInv'
<1>1. /\ stack[t] # <<>> /\ toWorker # <<>> /\ toWorker' = Tail(toWorker)
      /\ Pop(t) \/ Goto(t, "exit")
      /\ UNCHANGED <<toParent, mpc>> /\ "exit" \in PCs
  BY DEF Recv, At, mainVars, PCs
<1>2. /\ t = "main" /\ Len(stack[t]) = 1 /\ mpc = "code" /\ Top(t) = stack["main"][1]
      /\ \A i \in 1..Len(toWorker) : toWorker[i].type = "RpcReturn"
  BY <1>1, OneCaller
<1>3. /\ Len(toWorker) \in Nat /\ 1 <= Len(toWorker)
      /\ Len(toWorker') = Len(toWorker) - 1 /\ Head(toWorker) = toWorker[1]
  BY <1>1, Taken DEF CallsInv, CallsShape
<1>4. 1 \in 1..Len(toWorker) /\ toWorker[1].type = "RpcReturn"
  BY <1>2, <1>3
<1>5. /\ Awaits(toWorker[1].call) /\ Len(toWorker) = 1
      /\ \A j \in 1..Len(toParent) : toParent[j].type # "RpcCall"
  BY <1>4 DEF ReaderInv
<1>6. toWorker[1].call = Top(t).call
  BY <1>2, <1>5 DEF Awaits
<1>7. crossed' = crossed
  BY <1>3, <1>4, <1>6 DEF Recv
<1>8. Len(toWorker') = 0
  BY <1>3, <1>5
<1>9. NoCallOut'
  <2>1. toParent' = toParent
    BY <1>1
  <2>2. \A i \in 1..Len(toWorker') : FALSE
    BY <1>8
  <2> QED  BY <1>5, <2>1, <2>2 DEF NoCallOut
<1>10. (\A u \in Others : stack'[u] = <<>>) /\ Len(stack'["main"]) <= 1
  BY <1>1, OneCallMoves
<1>11. mpc' = "code" /\ crossed' = {}
  BY <1>1, <1>2, <1>7 DEF ReaderInv
<1> QED  BY <1>9, <1>10, <1>11, ReaderIdle

(* The code makes a call.                                                  *)
LEMMA ReaderCall ==
  ASSUME CallsInv, ReaderInv, Quiet, NEW t \in Threads, Call(t)
  PROVE  ReaderInv'
<1>1. t = "main" /\ mpc = "code"
  BY DEF Call, ClockOf, Quiet, Threads
<1>2. stack["main"] = <<>> /\ PushCall(t) /\ UNCHANGED <<toWorker, toParent, mpc, crossed>>
  BY <1>1 DEF Call, PushCall, mainVars
<1>3. NoCallOut /\ crossed = {} /\ (\A u \in Others : stack[u] = <<>>)
  BY <1>2, IdleNothingOut
<1>4. NoCallOut'
  BY <1>2, <1>3, StillNothingOut
<1>5. ClockOf(t) \in 0..MaxTurn
  BY <1>1 DEF ClockOf, CallsInv, CallsShape
<1>6. /\ \A u \in Threads : u # t => stack'[u] = stack[u]
      /\ Len(stack'[t]) = Len(stack[t]) + 1
  BY <1>2, <1>5, PushFrames DEF CallsInv
<1>7. \A u \in Others : u \in Threads /\ u # t
  BY <1>1, HostCallsAssumption DEF Threads
<1>8. \A u \in Others : stack'[u] = <<>>
  BY <1>3, <1>6, <1>7
<1>9. Len(stack'["main"]) <= 1
  <2>1. Len(stack["main"]) = 0
    BY <1>2
  <2> QED  BY <1>1, <1>6, <2>1
<1> QED  BY <1>1, <1>2, <1>3, <1>4, <1>8, <1>9, ReaderIdle

(* The other steps of a call: none sends one or reads an answer.           *)
LEMMA ReaderClock ==
  ASSUME CallsInv, ReaderInv, Quiet, NEW t \in Threads, CallStep(t),
         ~Sends(t), ~Recv(t)
  PROVE  ReaderInv'
<1> DEFINE Said == \/ toParent' = toParent
                   \/ \E m \in ToParent : m.type # "RpcCall" /\ toParent' = Append(toParent, m)
<1>1. ASSUME NEW from, NEW to, TakesClock(t, from, to), from # "recv", to \in PCs
      PROVE  ReaderInv'
  <2>1. /\ stack[t] # <<>> /\ Top(t).pc # "recv" /\ Goto(t, to)
        /\ UNCHANGED <<mpc, toWorker, crossed>> /\ toParent' = toParent
    BY <1>1 DEF TakesClock, At, mainVars
  <2> QED  BY <1>1, <2>1, ReaderMoves
<1>2. ASSUME Entering(t)
      PROVE  ReaderInv'
  <2>1. /\ stack[t] # <<>> /\ Top(t).pc # "recv"
        /\ Goto(t, "pausing") \/ Goto(t, "call")
        /\ UNCHANGED <<mpc, toWorker, crossed>> /\ toParent' = toParent
    BY <1>2 DEF Entering, At, mainVars
  <2>2. "pausing" \in PCs /\ "call" \in PCs
    BY DEF PCs
  <2> QED  BY <2>1, <2>2, ReaderMoves
<1>3. ASSUME Exiting(t)
      PROVE  ReaderInv'
  <2>1. /\ stack[t] # <<>> /\ Top(t).pc # "recv"
        /\ Goto(t, "resuming") \/ Pop(t)
        /\ UNCHANGED <<mpc, toWorker, crossed>> /\ toParent' = toParent
    BY <1>3 DEF Exiting, At, mainVars
  <2>2. "resuming" \in PCs
    BY DEF PCs
  <2> QED  BY <2>1, <2>2, ReaderMoves
<1>4. ASSUME stack[t] # <<>>
      PROVE  Msg("HostTimeOn", Top(t).clock, 0) \in ToParent
             /\ Msg("HostTimeOff", Top(t).clock, 0) \in ToParent
  <2>1. Top(t) \in Calling
    BY <1>4, TopFrame DEF CallsInv
  <2> QED  BY <2>1 DEF Calling, Msg, ToParent, Messages, ClockTypes
<1>5. ASSUME Pausing(t)
      PROVE  ReaderInv'
  <2>1. /\ stack[t] # <<>> /\ Top(t).pc # "recv" /\ Goto(t, "call")
        /\ UNCHANGED <<mpc, toWorker, crossed>>
        /\ \/ toParent' = toParent
           \/ toParent' = Append(toParent, Msg("HostTimeOn", Top(t).clock, 0))
    BY <1>5 DEF Pausing, At, mainVars
  <2>2. Said
    BY <1>4, <2>1 DEF Msg
  <2>3. "call" \in PCs
    BY DEF PCs
  <2> QED  BY <2>1, <2>2, <2>3, ReaderMoves
<1>6. ASSUME Resuming(t)
      PROVE  ReaderInv'
  <2>1. /\ stack[t] # <<>> /\ Top(t).pc # "recv" /\ Pop(t)
        /\ UNCHANGED <<mpc, toWorker, crossed>>
        /\ \/ toParent' = toParent
           \/ toParent' = Append(toParent, Msg("HostTimeOff", Top(t).clock, 0))
    BY <1>6 DEF Resuming, At, mainVars
  <2>2. Said
    BY <1>4, <2>1 DEF Msg
  <2>3. "call" \in PCs
    BY DEF PCs
  <2> QED  BY <2>1, <2>2, <2>3, ReaderMoves
<1>7. ASSUME TakesSend(t)
      PROVE  ReaderInv'
  <2>1. /\ stack[t] # <<>> /\ Top(t).pc # "recv" /\ Goto(t, "sending")
        /\ UNCHANGED <<mpc, toWorker, crossed>> /\ toParent' = toParent
        /\ "sending" \in PCs
    BY <1>7 DEF TakesSend, At, mainVars, PCs
  <2> QED  BY <2>1, ReaderMoves
<1>8. "entering" \in PCs /\ "exiting" \in PCs
  BY DEF PCs
<1> QED  BY <1>1, <1>2, <1>3, <1>5, <1>6, <1>7, <1>8 DEF CallStep

-----------------------------------------------------------------------------
(* Code that has been quiet all along...                                   *)
LEMMA QuietBefore ==
  ASSUME CallsInv, [HostCallsNext]_hostCallsVars, Quiet'
  PROVE  Quiet
<1>1. ASSUME NEW t \in Others, StartThread(t)
      PROVE  FALSE
  <2>1. born' = [born EXCEPT ![t] = scope] /\ mpc = "code"
    BY <1>1 DEF StartThread
  <2>2. scope # 0 /\ born \in [Others -> 0..MaxTurn]
    BY <2>1 DEF CallsInv, CallsShape, TurnInv
  <2>3. born'[t] # 0
    BY <2>1, <2>2
  <2> QED  BY <2>3 DEF Quiet
<1>2. ASSUME LeaveFile
      PROVE  FALSE
  BY <1>2 DEF LeaveFile, Quiet, CallsInv, CallsShape
<1>3. ASSUME UNCHANGED <<born, made>>
      PROVE  Quiet
  BY <1>3 DEF Quiet
<1>4. ASSUME MainNext
      PROVE  UNCHANGED <<born, made>>
  BY <1>4 DEF MainNext, LoopRecv, MainTakes, ExecutionEnds, SendsResult
<1>5. ASSUME NEW t \in Threads, CallStep(t)
      PROVE  UNCHANGED <<born, made>>
  BY <1>5 DEF CallStep, TakesClock, Entering, Pausing, TakesSend, Sends, Recv,
     Exiting, Resuming, mainVars
<1>6. ASSUME NEW t \in Threads, Call(t) \/ FinalizeFile(t)
      PROVE  UNCHANGED <<born, made>>
  BY <1>6 DEF Call, FinalizeFile, PushCall, mainVars
<1>7. ASSUME ParentExec \/ ParentRecv \/ Unresponsive \/ CodeEnds
             \/ UNCHANGED hostCallsVars
      PROVE  UNCHANGED <<born, made>>
  BY <1>7 DEF ParentExec, ParentRecv, Unresponsive, CodeEnds, mainVars, hostCallsVars
<1> QED  BY <1>1, <1>2, <1>3, <1>4, <1>5, <1>6, <1>7 DEF HostCallsNext

(* ...has one call out at a time.                                          *)
LEMMA ReaderStep ==
  ASSUME CallsInv, ReaderInv, [HostCallsNext]_hostCallsVars
  PROVE  ReaderInv'
<1> SUFFICES ASSUME Quiet'
             PROVE  ReaderInv'
  BY DEF ReaderInv
<1>1. Quiet
  BY QuietBefore
<1>2. CASE UNCHANGED hostCallsVars
  BY <1>1, <1>2, ReaderSame DEF hostCallsVars
<1>3. CASE Unresponsive
  BY <1>1, <1>3, ReaderSame DEF Unresponsive, mainVars
<1>4. CASE CodeEnds \/ LeaveFile
  BY <1>1, <1>4, ReaderMainSays DEF CodeEnds, LeaveFile, MainReady
<1>5. CASE MainTakes("ending", "closing") \/ MainTakes("result", "replying")
  BY <1>1, <1>5, ReaderMainSays DEF MainTakes, MainReady
<1>6. CASE ExecutionEnds
  <2>1. Msg("HostTimeOff", scope, 0) \in ToParent
        /\ Msg("HostTimeOff", scope, 0).type # "RpcCall"
    BY DEF CallsInv, CallsShape, Msg, ToParent, Messages, ClockTypes
  <2>2. stack["main"] = <<>> /\ UNCHANGED <<stack, crossed, toWorker>>
        /\ toParent' = toParent \o CloseClock
    BY <1>6 DEF ExecutionEnds, MainReady
  <2>3. toParent' = toParent \/ toParent' = Append(toParent, Msg("HostTimeOff", scope, 0))
    <3>1. toParent \in Seq(ToParent)
      BY DEF CallsInv, CallsShape
    <3>2. toParent \o <<>> = toParent
      BY <3>1, ConcatEmptySeq
    <3>3. toParent \o <<Msg("HostTimeOff", scope, 0)>>
             = Append(toParent, Msg("HostTimeOff", scope, 0))
      BY <2>1, <3>1, AppendIsConcat
    <3> QED  BY <2>2, <3>2, <3>3 DEF CloseClock
  <2> QED  BY <1>1, <2>1, <2>2, <2>3, ReaderMainSays
<1>7. CASE SendsResult
  <2>1. Msg("Result", 0, 0) \in ToParent /\ Msg("Result", 0, 0).type # "RpcCall"
    BY TurnsShape DEF Msg, ToParent, Messages
  <2>2. stack["main"] = <<>> /\ UNCHANGED <<stack, crossed, toWorker>>
        /\ toParent' = Append(toParent, Msg("Result", 0, 0))
    BY <1>7 DEF SendsResult, MainReady
  <2> QED  BY <1>1, <2>1, <2>2, ReaderMainSays
<1>8. ASSUME NEW t \in Others, StartThread(t)
      PROVE  ReaderInv'
  BY <1>1, <1>8, ReaderMainSays DEF StartThread, MainReady
<1>9. ASSUME NEW t \in Threads, FinalizeFile(t)
      PROVE  FALSE
  BY <1>1, <1>9 DEF FinalizeFile, Quiet, CallsInv, CallsShape
<1>10. ASSUME NEW t \in Threads, Call(t) \/ CallStep(t)
       PROVE  ReaderInv'
  BY <1>1, <1>10, ReaderCall, ReaderSends, ReaderRecv, ReaderClock
<1> QED  BY <1>1, <1>2, <1>3, <1>4, <1>5, <1>6, <1>7, <1>8, <1>9, <1>10,
            ReaderParentExec, ReaderParentRecv, ReaderLoopRecv DEF HostCallsNext, MainNext

(* Code that starts no thread and leaves no file to the collector has a    *)
(* single reader on the pipe: every answer reaches its call, and every     *)
(* execution the worker's loop.                                            *)
THEOREM OneReaderHolds == HostCallsSpec => []OneReader
<1>1. HostCallsInit => ReaderInv
  <2> SUFFICES ASSUME HostCallsInit
               PROVE  ReaderInv
    OBVIOUS
  <2>1. Len(stack["main"]) = 0 /\ Len(toParent) = 0 /\ Len(toWorker) = 0
        /\ \A u \in Others : stack[u] = <<>>
    BY ThreadsNamed DEF HostCallsInit
  <2> QED  BY <2>1 DEF HostCallsInit, ReaderInv
<1>2. CallsInv /\ ReaderInv /\ [HostCallsNext]_hostCallsVars => ReaderInv'
  BY ReaderStep
<1>3. ReaderInv => OneReader
  BY DEF ReaderInv, Quiet, OneReader
<1>4. HostCallsSpec => []ReaderInv
  BY <1>1, <1>2, CallsInvariant, PTL DEF HostCallsSpec
<1> QED  BY <1>3, <1>4, PTL
=============================================================================
