---------------------------- MODULE SpoolProofs -----------------------------
(***************************************************************************)
(* Proofs about Spool, for any set of values and any number of executions  *)
(* and of directories: no file outlives its use, and a read is refused     *)
(* only once the sandbox it came from has closed; and about Isolation, on  *)
(* any machine: a worker serves as asked, and its status is true.          *)
(***************************************************************************)
EXTENDS Spool, Isolation, TLAPS

-----------------------------------------------------------------------------
(* The inductive invariant.                                                *)

(* An execution has begun and its result is still the worker's.            *)
Out == worker \in {"spooling", "sent"}

(* There is a directory exactly while the sandbox is entered, it is the    *)
(* latest one made, a worker needs it, and an execution has a number.      *)
DirInv ==
    /\ entered <=> dir # 0
    /\ dir # 0 => dir = dirs
    /\ worker # "none" => dir # 0
    /\ Out => turn # 0

(* A result has a directory once it was received, one made before it, and  *)
(* a result the embedder holds has one.                                    *)
HomeInv == \A t \in Turns :
    /\ home[t] # 0 => t <= turn /\ home[t] <= dirs /\ ~(Out /\ t = turn)
    /\ held[t] => home[t] # 0

(* Every file is in the directory there is, and belongs to a result that   *)
(* has not read it, or to one that was never received.                     *)
FileInv == \A d \in 1..MaxDir, t \in Turns, v \in Values :
    <<d, t, v>> \in disk =>
        /\ d = dir /\ t <= turn
        /\ home[t] # 0 => home[t] = d /\ v \in unread[t]
        /\ Out /\ t = turn => v \in entries

(* What the running execution has spooled is on disk, and so is what a     *)
(* held result of this directory has not read.                             *)
ReadableInv ==
    /\ Out => \A v \in entries : <<dir, turn, v>> \in disk
    /\ \A t \in Turns : held[t] /\ home[t] = dir =>
          \A v \in names[t] \ values[t] : <<dir, t, v>> \in disk

SpoolInv == SpoolTypeOK /\ DirInv /\ HomeInv /\ FileInv /\ ReadableInv

-----------------------------------------------------------------------------
(* A worker is started: a directory is made only when there is none, hence *)
(* no file either, and no result of an earlier directory is in the new one. *)
LEMMA StartWorkerKeeps == SpoolInv /\ StartWorker => SpoolInv'
<1> SUFFICES ASSUME SpoolInv, StartWorker PROVE SpoolInv'
  OBVIOUS
<1> USE SpoolAssumption DEF StartWorker, resultVars, Out
<1>1. SpoolTypeOK'
  BY DEF SpoolInv, SpoolTypeOK
<1>2. DirInv'
  BY DEF SpoolInv, SpoolTypeOK, DirInv
<1>3. HomeInv'
  BY DEF SpoolInv, SpoolTypeOK, DirInv, HomeInv
<1>4. FileInv'
  <2>1. ASSUME NEW d \in 1..MaxDir, NEW t \in Turns, NEW v \in Values,
               <<d, t, v>> \in disk
        PROVE  dir # 0
    BY <2>1 DEF SpoolInv, FileInv
  <2> QED  BY <2>1 DEF SpoolInv, SpoolTypeOK, DirInv, FileInv
<1>5. ReadableInv'
  <2>1. ASSUME NEW t \in Turns, held[t], home[t] = dir'
        PROVE  dir' = dir
    BY <2>1 DEF SpoolInv, SpoolTypeOK, DirInv, HomeInv
  <2> QED  BY <2>1 DEF SpoolInv, SpoolTypeOK, ReadableInv
<1> QED  BY <1>1, <1>2, <1>3, <1>4, <1>5 DEF SpoolInv

(* An execution begins: nothing carries its number yet.                    *)
LEMMA ExecKeeps == SpoolInv /\ Exec => SpoolInv'
<1> SUFFICES ASSUME SpoolInv, Exec PROVE SpoolInv'
  OBVIOUS
<1> USE SpoolAssumption DEF Exec, resultVars, Out
<1>1. SpoolTypeOK'
  BY DEF SpoolInv, SpoolTypeOK
<1>2. DirInv'
  BY DEF SpoolInv, SpoolTypeOK, DirInv
<1>3. HomeInv'
  BY DEF SpoolInv, SpoolTypeOK, HomeInv, Turns
<1>4. FileInv'
  BY DEF SpoolInv, SpoolTypeOK, FileInv, Turns
<1>5. ReadableInv'
  BY DEF SpoolInv, SpoolTypeOK, ReadableInv
<1> QED  BY <1>1, <1>2, <1>3, <1>4, <1>5 DEF SpoolInv

(* A value of the running execution goes to a file of its own.             *)
LEMMA SpoolsKeeps ==
  ASSUME NEW v \in Values, SpoolInv, Spools(v) PROVE SpoolInv'
<1> USE SpoolAssumption DEF Spools, resultVars, Out
<1>1. turn \in Turns /\ dir \in 1..MaxDir
  BY DEF SpoolInv, SpoolTypeOK, DirInv, Turns
<1>2. SpoolTypeOK'
  BY <1>1 DEF SpoolInv, SpoolTypeOK
<1>3. DirInv' /\ HomeInv'
  BY DEF SpoolInv, DirInv, HomeInv
<1>4. FileInv'
  BY <1>1 DEF SpoolInv, SpoolTypeOK, HomeInv, FileInv
<1>5. ReadableInv'
  BY DEF SpoolInv, ReadableInv
<1> QED  BY <1>2, <1>3, <1>4, <1>5 DEF SpoolInv

(* A value is dropped and its file discarded, or all of it is sent.        *)
LEMMA DropsKeeps ==
  ASSUME NEW v \in Values, SpoolInv, Drops(v) PROVE SpoolInv'
  BY SpoolAssumption
     DEF Drops, Discard, resultVars, Out, SpoolInv, SpoolTypeOK, DirInv, HomeInv,
         FileInv, ReadableInv

LEMMA SendsKeeps == SpoolInv /\ Sends => SpoolInv'
  BY SpoolAssumption
     DEF Sends, resultVars, Out, SpoolInv, SpoolTypeOK, DirInv, HomeInv, FileInv,
         ReadableInv

(* The result is received: its files are those the execution spooled.      *)
LEMMA ReceivesKeeps == SpoolInv /\ Receives => SpoolInv'
<1> SUFFICES ASSUME SpoolInv, Receives PROVE SpoolInv'
  OBVIOUS
<1> USE SpoolAssumption DEF Receives, Out
<1>1. turn \in Turns /\ dir \in 1..MaxDir
  BY DEF SpoolInv, SpoolTypeOK, DirInv, Turns
<1>2. SpoolTypeOK'
  BY <1>1 DEF SpoolInv, SpoolTypeOK
<1>3. DirInv'
  BY DEF SpoolInv, DirInv
<1>4. HomeInv'
  BY <1>1 DEF SpoolInv, SpoolTypeOK, DirInv, HomeInv
<1>5. FileInv'
  BY <1>1 DEF SpoolInv, SpoolTypeOK, FileInv
<1>6. ReadableInv'
  <2> SUFFICES ASSUME NEW t \in Turns, held'[t], home'[t] = dir,
                      NEW v \in names'[t] \ values[t]
               PROVE  <<dir, t, v>> \in disk
    BY DEF ReadableInv
  <2>1. CASE t = turn
    BY <1>1, <2>1 DEF SpoolInv, SpoolTypeOK, ReadableInv
  <2>2. CASE t # turn
    BY <1>1, <2>2 DEF SpoolInv, SpoolTypeOK, ReadableInv
  <2> QED  BY <2>1, <2>2
<1> QED  BY <1>2, <1>3, <1>4, <1>5, <1>6 DEF SpoolInv

(* The worker dies, or fails in discarding a file: what it was writing     *)
(* belongs to a result that will never be received.                        *)
LEMMA DiesKeeps ==
  ASSUME NEW v \in Values, SpoolInv, Dies(v) \/ DiscardRaises(v) PROVE SpoolInv'
<1> USE SpoolAssumption DEF Dies, DiscardRaises, resultVars, Out
<1>1. worker = "spooling" => turn \in Turns /\ dir \in 1..MaxDir /\ home[turn] = 0
  BY DEF SpoolInv, SpoolTypeOK, DirInv, HomeInv, Turns
<1>2. SpoolTypeOK'
  BY <1>1 DEF SpoolInv, SpoolTypeOK
<1>3. DirInv' /\ HomeInv'
  BY DEF SpoolInv, DirInv, HomeInv
<1>4. FileInv'
  BY <1>1 DEF SpoolInv, SpoolTypeOK, FileInv
<1>5. ReadableInv'
  BY DEF SpoolInv, ReadableInv
<1> QED  BY <1>2, <1>3, <1>4, <1>5 DEF SpoolInv

-----------------------------------------------------------------------------
(* A value is read, and its file removed.                                  *)
LEMMA ReadKeeps ==
  ASSUME NEW t \in Turns, NEW v \in Values, SpoolInv, Read(t, v) PROVE SpoolInv'
<1> USE SpoolAssumption DEF Read, Reads, Kept, Out
<1>1. SpoolTypeOK'
  BY DEF SpoolInv, SpoolTypeOK
<1>2. DirInv' /\ HomeInv'
  BY DEF SpoolInv, DirInv, HomeInv
<1>3. FileInv'
  BY DEF SpoolInv, SpoolTypeOK, FileInv
<1>4. ReadableInv'
  <2>1. Out => t # turn
    BY DEF SpoolInv, HomeInv
  <2>2. Out => \A w \in entries : <<dir, turn, w>> \in disk'
    BY <2>1 DEF SpoolInv, ReadableInv
  <2>3. ASSUME NEW u \in Turns, held[u], home[u] = dir, NEW w \in names[u] \ values'[u]
        PROVE  <<dir, u, w>> \in disk'
    BY <2>3 DEF SpoolInv, SpoolTypeOK, ReadableInv
  <2> QED  BY <2>2, <2>3 DEF ReadableInv
<1> QED  BY <1>1, <1>2, <1>3, <1>4 DEF SpoolInv

(* A refused read changes nothing but the record of it.                    *)
LEMMA ReadRefusedKeeps ==
  ASSUME NEW t \in Turns, NEW v \in Values, SpoolInv, ReadRefused(t, v)
  PROVE  SpoolInv'
  BY DEF ReadRefused, Out, Entry, SpoolInv, SpoolTypeOK, DirInv, HomeInv, FileInv,
         ReadableInv

(* A result is let go, and the files it has not read with it.              *)
LEMMA LetGoKeeps ==
  ASSUME NEW t \in Turns, SpoolInv, LetGo(t) PROVE SpoolInv'
<1> USE SpoolAssumption DEF LetGo, Removed, Out
<1>1. SpoolTypeOK'
  BY DEF SpoolInv, SpoolTypeOK
<1>2. DirInv'
  BY DEF SpoolInv, DirInv
<1>3. HomeInv'
  BY DEF SpoolInv, SpoolTypeOK, HomeInv
<1>4. FileInv'
  BY DEF SpoolInv, SpoolTypeOK, HomeInv, FileInv
<1>5. ReadableInv'
  <2>1. Out => t # turn
    BY DEF SpoolInv, HomeInv
  <2> QED  BY <2>1 DEF SpoolInv, SpoolTypeOK, ReadableInv
<1> QED  BY <1>1, <1>2, <1>3, <1>4, <1>5 DEF SpoolInv

(* The sandbox closes, and every file goes with its directory.             *)
LEMMA ShutdownKeeps == SpoolInv /\ Shutdown => SpoolInv'
<1> SUFFICES ASSUME SpoolInv, Shutdown PROVE SpoolInv'
  OBVIOUS
<1> USE SpoolAssumption DEF Shutdown, resultVars, Out
<1>1. disk' = {}
  BY DEF SpoolInv, SpoolTypeOK, FileInv, Emptied
<1>2. SpoolTypeOK'
  <2>1. disk' \subseteq (1..MaxDir) \X Turns \X Values
    BY <1>1
  <2>2. entered' \in BOOLEAN
    OBVIOUS
  <2>3. dir' \in 0..MaxDir
    OBVIOUS
  <2> QED  BY <2>1, <2>2, <2>3 DEF SpoolInv, SpoolTypeOK
<1>3. DirInv' /\ HomeInv'
  BY DEF SpoolInv, DirInv, HomeInv
<1>4. FileInv'
  BY <1>1 DEF FileInv
<1>5. ReadableInv'
  BY DEF SpoolInv, SpoolTypeOK, HomeInv, ReadableInv
<1> QED  BY <1>2, <1>3, <1>4, <1>5 DEF SpoolInv

-----------------------------------------------------------------------------
(* The invariant holds throughout.                                         *)
LEMMA Invariant == Spec => []SpoolInv
<1>1. Init => SpoolInv
  <2> SUFFICES ASSUME Init PROVE SpoolInv
    OBVIOUS
  <2>1. disk \subseteq (1..MaxDir) \X Turns \X Values
    BY DEF Init
  <2>2. SpoolTypeOK
    <3>1. entered \in BOOLEAN /\ held \in [Turns -> BOOLEAN]
      BY DEF Init
    <3> QED  BY <2>1, <3>1, SpoolAssumption DEF Init, SpoolTypeOK
  <2>3. DirInv /\ HomeInv /\ FileInv /\ ReadableInv
    BY DEF Init, DirInv, HomeInv, FileInv, ReadableInv, Out
  <2> QED  BY <2>2, <2>3 DEF SpoolInv
<1>2. SpoolInv /\ [Next]_vars => SpoolInv'
  <2> SUFFICES ASSUME SpoolInv, [Next]_vars PROVE SpoolInv'
    OBVIOUS
  <2>1. CASE Next
    BY <2>1, StartWorkerKeeps, ExecKeeps, SpoolsKeeps, DropsKeeps, SendsKeeps,
       ReceivesKeeps, DiesKeeps, ReadKeeps, ReadRefusedKeeps, LetGoKeeps,
       ShutdownKeeps DEF Next
  <2>2. CASE UNCHANGED vars
    BY <2>2 DEF vars, Out, Entry, SpoolInv, SpoolTypeOK, DirInv, HomeInv, FileInv,
                ReadableInv
  <2> QED  BY <2>1, <2>2
<1> QED  BY <1>1, <1>2, PTL DEF Spec

(* The variables keep their types: in particular every file belongs to one *)
(* of the directories made and to one of the executions run.               *)
THEOREM TypeCorrect == Spec => []SpoolTypeOK
  BY Invariant, PTL DEF SpoolInv

(* No file outlives its use: a closed sandbox leaves none, whatever the    *)
(* workers left in it, and while it is open a file of a received result is *)
(* one it has not read.                                                    *)
THEOREM NoFileOutlivesHolds == Spec => []NoFileOutlives
<1>1. SpoolInv => NoFileOutlives
  <2> SUFFICES ASSUME SpoolInv PROVE NoFileOutlives
    OBVIOUS
  <2>1. ASSUME NEW f \in disk
        PROVE  /\ f[1] = dir
               /\ f[2] \in Turns
               /\ home[f[2]] # 0 => /\ f = <<home[f[2]], f[2], f[3]>>
                                    /\ f[3] \in unread[f[2]]
    <3>1. PICK d \in 1..MaxDir, t \in Turns, v \in Values : f = <<d, t, v>>
      BY DEF SpoolInv, SpoolTypeOK
    <3> QED  BY <3>1 DEF SpoolInv, FileInv
  <2> QED  BY <2>1 DEF NoFileOutlives
<1> QED  BY <1>1, Invariant, PTL

(* A read is refused only once the sandbox the result came from has        *)
(* closed.                                                                 *)
THEOREM RefusedOnlyClosedHolds == Spec => RefusedOnlyClosed
<1>1. SpoolInv /\ [Next]_vars =>
         [\A e \in refused' \ refused : home[e[1]] # dir]_vars
  <2> SUFFICES ASSUME SpoolInv, Next, NEW e \in refused' \ refused
               PROVE  home[e[1]] # dir
    BY DEF vars
  <2>1. PICK t \in Turns, v \in Values : ReadRefused(t, v)
    BY DEF Next, StartWorker, Exec, Spools, Drops, Sends, Receives, Dies, Read, DiscardRaises,
           LetGo, Shutdown, resultVars
  <2>2. e = <<t, v>>
    BY <2>1 DEF ReadRefused
  <2> QED  BY <2>1, <2>2 DEF SpoolInv, ReadableInv, ReadRefused, Reads
<1> QED  BY <1>1, Invariant, PTL DEF Spec, RefusedOnlyClosed

-----------------------------------------------------------------------------
(***************************************************************************)
(* A worker's kernel isolation (module Isolation), on any machine.         *)
(***************************************************************************)

Nothing(ms) == \A m \in ms : status[m] = "none"
Unfiltered == ~filtered /\ ~offline /\ status["seccomp"] = "none"

(* Whether a Linux mechanism is there and works.                           *)
Works(m) == m \in machine.packages \cap machine.kernel

(* What Landlock has left behind once it had its turn.                     *)
LandlockDone ==
    /\ confined = (RestrictsFs /\ Works("landlock"))
    /\ status["landlock"] = IF RestrictsFs THEN Applied("landlock") ELSE "none"

(* What is in force, and reported, once nothing is left to apply.          *)
LinuxOutcome ==
    /\ LandlockDone /\ status["seatbelt"] = "none"
    /\ filtered = Works("seccomp") /\ offline = (filtered /\ ~NeedsNetwork)
    /\ status["seccomp"] = Applied("seccomp")

DarwinOutcome ==
    /\ Nothing({"landlock", "seccomp"})
    /\ filtered = ("seatbelt" \in machine.kernel)
    /\ confined = (filtered /\ RestrictsFs) /\ offline = (filtered /\ ~NeedsNetwork)
    /\ status["seatbelt"] = IF filtered THEN "yes" ELSE "no"

Outcome ==
    IF request.mode = "none" \/ machine.platform = "other"
    THEN Nothing(Mechanisms) /\ ~confined /\ ~filtered /\ ~offline
    ELSE IF machine.platform = "linux" THEN LinuxOutcome ELSE DarwinOutcome

(* What each step finds: the backend is loaded, and nothing filtered, when *)
(* Landlock takes the files away.                                          *)
StepInv ==
    /\ pc # "warm" => Deferred \in loaded
    /\ pc \in {"warm", "apply", "preload", "landlock", "seatbelt"}
          => Unfiltered /\ ~confined /\ Nothing(Mechanisms)
    /\ pc \in {"preload", "landlock", "seccomp"}
          => machine.platform = "linux" /\ request.mode = "auto"
    /\ pc \in {"landlock", "seccomp"}
          => ("seccomp" \in machine.packages => "seccomp" \in loaded)
    /\ pc = "seccomp" => Unfiltered /\ LandlockDone /\ status["seatbelt"] = "none"
    /\ pc = "seatbelt" => machine.platform = "darwin" /\ request.mode = "auto"
    /\ pc \in {"ready", "serving", "refused"} => Outcome
    /\ pc = "serving" => ~Refuses
    /\ pc # "failed"

IsolationInv == IsolationTypeOK /\ StepInv

(* The order of the steps on Linux.                                        *)
LEMMA LinuxOrder ==
  /\ LinuxSteps[1] = "preload"
  /\ After("preload") = "landlock"
  /\ After("landlock") = "seccomp"
  /\ After("seccomp") = "ready"
<1>1. /\ DOMAIN LinuxSteps = {1, 2, 3} /\ Len(LinuxSteps) = 3
      /\ LinuxSteps[1] = "preload" /\ LinuxSteps[2] = "landlock"
      /\ LinuxSteps[3] = "seccomp"
  BY DEF LinuxSteps
<1>2. /\ (CHOOSE i \in DOMAIN LinuxSteps : LinuxSteps[i] = "preload") = 1
      /\ (CHOOSE i \in DOMAIN LinuxSteps : LinuxSteps[i] = "landlock") = 2
      /\ (CHOOSE i \in DOMAIN LinuxSteps : LinuxSteps[i] = "seccomp") = 3
  BY <1>1
<1> QED  BY <1>1, <1>2 DEF After

LEMMA MembershipType ==
  \A b, x, S : b = (x \in S) => b \in BOOLEAN
BY SMT

LEMMA IsolationTyped ==
  ASSUME IsolationInv, IsolationNext
  PROVE  IsolationTypeOK'
<1> USE DEF IsolationInv, IsolationTypeOK, StepInv, Mechanisms, Deferred
<1>1. machine' = machine /\ request' = request
  BY DEF IsolationNext, Warm, Dispatch, Preload, Landlock, Seccomp, Seatbelt, Verify
<1>2. machine.packages \subseteq {"landlock", "seccomp"}
  BY DEF Machines
<1>3. CASE Warm
  BY <1>3 DEF Warm
<1>4. CASE Dispatch
  BY <1>4, LinuxOrder DEF Dispatch, Route
<1>5. CASE Preload
  BY <1>2, <1>5, LinuxOrder DEF Preload
<1>6. CASE Landlock
  <2>1. Applied("landlock") \in {"yes", "no"}
    BY DEF Applied
  <2>2. loaded' \subseteq {"landlock", "seccomp", Deferred}
    BY <1>2, <1>6 DEF Landlock
  <2>3. confined' = confined \/ confined' = ("landlock" \in machine.packages \cap machine.kernel)
    BY <1>6, Zenon DEF Landlock
  <2>4. confined' \in BOOLEAN
    BY <2>3, MembershipType, Zenon
  <2> QED  BY <1>1, <1>6, <2>1, <2>2, <2>4, LinuxOrder DEF Landlock
<1>7. CASE Seccomp
  <2>1. Applied("seccomp") \in {"yes", "no"}
    BY DEF Applied
  <2>2. loaded' \subseteq {"landlock", "seccomp", Deferred}
    BY <1>2, <1>7 DEF Seccomp
  <2>3. filtered' = filtered \/ filtered' = ("seccomp" \in machine.packages \cap machine.kernel)
    BY <1>7, Zenon DEF Seccomp
  <2>5. filtered' \in BOOLEAN
    BY <2>3, MembershipType, Zenon
  <2>4. offline' \in BOOLEAN
    BY <1>7, Zenon DEF Seccomp
  <2> QED  BY <1>1, <1>7, <2>1, <2>2, <2>4, <2>5, LinuxOrder DEF Seccomp
<1>8. CASE Seatbelt
  BY <1>8 DEF Seatbelt
<1>9. CASE Verify
  BY <1>9 DEF Verify
<1> QED  BY <1>3, <1>4, <1>5, <1>6, <1>7, <1>8, <1>9 DEF IsolationNext

LEMMA IsolationSteps ==
  ASSUME IsolationInv, IsolationNext
  PROVE  StepInv'
<1> USE DEF IsolationInv, IsolationTypeOK, StepInv, Mechanisms, Deferred,
            Nothing, Unfiltered
<1>1. machine' = machine /\ request' = request
  BY DEF IsolationNext, Warm, Dispatch, Preload, Landlock, Seccomp, Seatbelt, Verify
<1>3. CASE Warm
  BY <1>3 DEF Warm
<1>4. CASE Dispatch
  BY <1>4, LinuxOrder DEF Dispatch, Route, Outcome, Machines, Requests
<1>5. CASE Preload
  BY <1>5, LinuxOrder DEF Preload, Unreadable
<1>6. CASE Landlock
  BY <1>6, LinuxOrder DEF Landlock, LandlockDone, Works, Applied, RestrictsFs,
     NeedsHostFs
<1>7. CASE Seccomp
  BY <1>7, LinuxOrder DEF Seccomp, Unreadable, Outcome, LinuxOutcome, LandlockDone,
     Works, Applied, RestrictsFs, NeedsHostFs, NeedsNetwork
<1>8. CASE Seatbelt
  BY <1>8 DEF Seatbelt, Outcome, DarwinOutcome, RestrictsFs, NeedsHostFs, NeedsNetwork
<1>9. CASE Verify
  BY <1>9 DEF Verify, Refuses, Degraded, Outcome, LinuxOutcome, DarwinOutcome,
     LandlockDone, Works, Applied, RestrictsFs, NeedsHostFs, NeedsNetwork
<1> QED  BY <1>3, <1>4, <1>5, <1>6, <1>7, <1>8, <1>9 DEF IsolationNext

LEMMA IsolationInvariant == IsolationSpec => []IsolationInv
<1>1. IsolationInit => IsolationInv
  BY DEF IsolationInit, IsolationInv, IsolationTypeOK, StepInv, Machines, Mechanisms,
     Nothing, Unfiltered, Deferred
<1>2. IsolationInv /\ [IsolationNext]_isolationVars => IsolationInv'
  <2>1. CASE IsolationNext
    BY <2>1, IsolationTyped, IsolationSteps DEF IsolationInv
  <2>2. CASE UNCHANGED isolationVars
    BY <2>2 DEF isolationVars, IsolationInv, IsolationTypeOK, StepInv, Nothing,
       Unfiltered, LandlockDone, Outcome, LinuxOutcome, DarwinOutcome, Works,
       Applied, RestrictsFs, NeedsHostFs, NeedsNetwork, Refuses, Degraded
  <2> QED  BY <2>1, <2>2
<1> QED  BY <1>1, <1>2, PTL DEF IsolationSpec

(* Whatever is installed, what the kernel offers and what is inherited, no *)
(* step of a worker's setup needs what an earlier one took away.           *)
THEOREM NeverLocksItselfOutHolds == IsolationSpec => []NeverLocksItselfOut
<1>1. IsolationInv => NeverLocksItselfOut
  BY DEF IsolationInv, StepInv, NeverLocksItselfOut
<1> QED  BY <1>1, IsolationInvariant, PTL

(* The status says what is in force, and degraded exactly when that falls  *)
(* short of the request.                                                   *)
THEOREM StatusTrueHolds == IsolationSpec => []StatusTrue
<1>1. IsolationInv => StatusTrue
  BY DEF IsolationInv, IsolationTypeOK, StepInv, StatusTrue, Degraded, Outcome,
     LinuxOutcome, DarwinOutcome, LandlockDone, Nothing, Works, Applied, Mechanisms,
     Machines, Requests
<1> QED  BY <1>1, IsolationInvariant, PTL

(* A worker serves with all that was asked for in force, unless the        *)
(* embedder accepted less, and without what would defeat a grant.          *)
THEOREM ServesAsAskedHolds == IsolationSpec => []ServesAsAsked
<1>1. IsolationInv => ServesAsAsked
  BY DEF IsolationInv, IsolationTypeOK, StepInv, ServesAsAsked, Refuses, Degraded,
     Outcome, LinuxOutcome, DarwinOutcome, LandlockDone, Nothing, Works, Applied,
     Mechanisms, Machines, Requests, RestrictsFs, NeedsHostFs, NeedsNetwork
<1> QED  BY <1>1, IsolationInvariant, PTL
=============================================================================
