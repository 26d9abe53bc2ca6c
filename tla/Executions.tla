----------------------------- MODULE Executions -----------------------------
(***************************************************************************)
(* The executions of one in-process Sandbox (sandtrap/sandbox.py) and what *)
(* they share: its cancel flag, module_name, and the module each runs in,  *)
(* registered in sys.modules under a name of its own (sandtrap/home.py)    *)
(* for the latest HOMES executions.  A name is its execution's number.     *)
(*                                                                         *)
(* Mode says how the host runs them: "one" after the other, as "tasks" of  *)
(* an event loop (aexec, or an exec a host function makes), where nothing  *)
(* runs between the lines of a setup, or on "threads", which may switch    *)
(* between any two reads or writes of shared state.                        *)
(***************************************************************************)
EXTENDS Integers, FiniteSets, SequencesExt

CONSTANTS Execs,       \* the calls of exec() and aexec()
          Homes,       \* HOMES
          Mode,        \* "one", "tasks" or "threads"
          Interrupts   \* whether Ctrl-C may reach the host while code runs

ASSUME ExecutionsAssumption ==
    /\ IsFiniteSet(Execs) /\ "none" \notin Execs
    /\ Homes \in Nat \ {0}
    /\ Mode \in {"one", "tasks", "threads"}
    /\ Interrupts \in BOOLEAN

VARIABLES
    cancelFlag, \* the CancelFlag
    name,      \* self.module_name: a number, 0 before the first execution
    count,     \* numbers self._executions has handed out
    homes,     \* self._homes
    modules,   \* sys.modules: the execution whose module each name finds
    pc,        \* the next line of each call
    own,       \* the __name__ of each call's module, 0 one the host chose
    provided,  \* the calls whose gates hold modules the host provided
    result,    \* what each call returned
    asked,     \* where cancel() found each call
    exitedAt   \* count at the latest __exit__

executionsVars == <<cancelFlag, name, count, homes, modules, pc, own, provided,
                    result, asked, exitedAt>>

Names == 1..Cardinality(Execs)
Setup == {"clear", "name", "make", "check", "register", "keep", "provide"}
Over  == {"done", "interrupted"}
UnderWay(e) == pc[e] \in Setup \cup {"run"}

ExecutionsTypeOK ==
    /\ cancelFlag \in BOOLEAN
    /\ count \in 0..Cardinality(Execs) /\ name \in 0..count
    /\ exitedAt \in 0..count
    /\ homes \in Seq(1..count)
    /\ modules \in [Names -> Execs \cup {"none"}]
    /\ pc \in [Execs -> Setup \cup Over \cup {"idle", "run"}]
    /\ own \in [Execs -> 0..count]
    /\ provided \subseteq Execs
    /\ result \in [Execs -> {"none", "ok", "error", "memory", "cancelled"}]
    /\ asked \in [Execs -> {"no", "setup", "run"}]

ExecutionsInit ==
    /\ cancelFlag = FALSE /\ name = 0 /\ count = 0 /\ exitedAt = 0
    /\ homes = <<>> /\ modules = [n \in Names |-> "none"]
    /\ pc = [e \in Execs |-> "idle"] /\ own = [e \in Execs |-> 0]
    /\ provided = {} /\ result = [e \in Execs |-> "none"]
    /\ asked = [e \in Execs |-> "no"]

(* Whether the mode lets a call take its next step now.                    *)
MayBegin == Mode = "one" => \A f \in Execs : ~UnderWay(f)
MayStep(e) == Mode # "threads" => \A f \in Execs \ {e} : pc[f] \notin Setup

Goto(e, l) == pc' = [pc EXCEPT ![e] = l]

-----------------------------------------------------------------------------
(* exec() parses, rewrites and compiles the source...                      *)
Begin(e) ==
    /\ pc[e] = "idle" /\ MayBegin /\ MayStep(e)
    /\ Goto(e, "clear")
    /\ UNCHANGED <<cancelFlag, name, count, homes, modules, own, provided,
                   result, asked, exitedAt>>

(* ...which refuses it before anything shared is touched...                *)
Rejects(e) ==
    /\ pc[e] = "clear"
    /\ Goto(e, "done") /\ result' = [result EXCEPT ![e] = "error"]
    /\ UNCHANGED <<cancelFlag, name, count, homes, modules, own, provided,
                   asked, exitedAt>>

(* Mutant of Cleared: a setup keeps the flag it finds.                     *)
ClearedNot == cancelFlag

Cleared == FALSE

(* ...or clears the flag...                                                *)
ClearsFlag(e) ==
    /\ pc[e] = "clear" /\ MayStep(e)
    /\ cancelFlag' = Cleared /\ Goto(e, "name")
    /\ UNCHANGED <<name, count, homes, modules, own, provided, result, asked,
                   exitedAt>>

(* Mutant of NextNumber: the counter stays put.                            *)
NextNumberStays == IF count = 0 THEN 1 ELSE count

NextNumber == count + 1

(* ...numbers the execution...                                             *)
NamesModule(e) ==
    /\ pc[e] = "name" /\ MayStep(e)
    /\ count' = NextNumber /\ name' = NextNumber
    /\ Goto(e, "make")
    /\ UNCHANGED <<cancelFlag, homes, modules, own, provided, result, asked,
                   exitedAt>>

(* ...makes the module, under module_name as it now stands or, when the    *)
(* host's namespace has a __name__, under that...                          *)
MakesModule(e) ==
    /\ pc[e] = "make" /\ MayStep(e)
    /\ \E n \in {name, 0} : own' = [own EXCEPT ![e] = n]
    /\ Goto(e, "check")
    /\ UNCHANGED <<cancelFlag, name, count, homes, modules, provided, result,
                   asked, exitedAt>>

(* ...and registers it if it is called module_name, as that now stands...  *)
ChecksName(e) ==
    /\ pc[e] = "check" /\ MayStep(e)
    /\ Goto(e, IF own[e] = name THEN "register" ELSE "provide")
    /\ UNCHANGED <<cancelFlag, name, count, homes, modules, own, provided,
                   result, asked, exitedAt>>

(* ...in sys.modules...                                                    *)
RegistersModule(e) ==
    /\ pc[e] = "register" /\ MayStep(e)
    /\ modules' = [modules EXCEPT ![name] = e]
    /\ Goto(e, "keep")
    /\ UNCHANGED <<cancelFlag, name, count, homes, own, provided, result,
                   asked, exitedAt>>

(* Mutants of Trimmed: the deque keeps one more than HOMES; it is the      *)
(* newest that makes room.                                                 *)
TrimmedLate(hs, ms) ==
    IF Len(hs) <= Homes + 1
    THEN <<hs, ms>>
    ELSE <<Tail(hs), [ms EXCEPT ![Head(hs)] = "none"]>>
TrimmedNewest(hs, ms) ==
    IF Len(hs) <= Homes
    THEN <<hs, ms>>
    ELSE <<Front(hs), [ms EXCEPT ![Last(hs)] = "none"]>>

(* The names kept and what is registered once the oldest make room.        *)
Trimmed(hs, ms) ==
    LET over == SubSeq(hs, 1, Len(hs) - Homes)
    IN  <<SubSeq(hs, Len(over) + 1, Len(hs)),
          [n \in Names |-> IF n \in Range(over) THEN "none" ELSE ms[n]]>>

(* ...and among this sandbox's homes, the oldest making room.              *)
KeepsHome(e) ==
    /\ pc[e] = "keep" /\ MayStep(e)
    /\ LET kept == Trimmed(Append(homes, name), modules)
       IN  homes' = kept[1] /\ modules' = kept[2]
    /\ Goto(e, "provide")
    /\ UNCHANGED <<cancelFlag, name, count, own, provided, result, asked,
                   exitedAt>>

(* The modules the host hands the call are put on its gates, and it runs.  *)
Provides(e) ==
    /\ pc[e] = "provide" /\ MayStep(e)
    /\ provided' \in {provided, provided \cup {e}}
    /\ Goto(e, "run")
    /\ UNCHANGED <<cancelFlag, name, count, homes, modules, own, result, asked,
                   exitedAt>>

-----------------------------------------------------------------------------
(* _forget_home(): nothing, unless the name is one of the homes.           *)
ForgetHome(n) ==
    IF n \notin Range(homes)
    THEN UNCHANGED <<homes, modules>>
    ELSE LET at == CHOOSE i \in DOMAIN homes :
                      homes[i] = n /\ \A j \in 1..(i - 1) : homes[j] # n
         IN  /\ homes' = RemoveAt(homes, at)
             /\ modules' = [modules EXCEPT ![n] = "none"]

(* _build_result(): what the host provided goes, and a MemoryError takes   *)
(* the call's module with it.                                              *)
BuildResult(e, r) ==
    /\ provided' = provided \ {e}
    /\ IF r = "memory" THEN ForgetHome(own[e]) ELSE UNCHANGED <<homes, modules>>

CallEnds(e, r) ==
    /\ BuildResult(e, r)
    /\ Goto(e, "done") /\ result' = [result EXCEPT ![e] = r]
    /\ UNCHANGED <<cancelFlag, name, count, own, asked, exitedAt>>

(* The code ends by itself.                                                *)
CodeEnds(e) ==
    /\ pc[e] = "run"
    /\ \E r \in {"ok", "error", "memory"} : CallEnds(e, r)

(* The code reaches a checkpoint with the flag set: StCancelled.           *)
CheckpointStops(e) ==
    /\ pc[e] = "run" /\ cancelFlag
    /\ CallEnds(e, "cancelled")

(* Ctrl-C lands in the code: exec() raises it as it is, before its result. *)
Interrupted(e) ==
    /\ Interrupts /\ pc[e] = "run"
    /\ Goto(e, "interrupted")
    /\ UNCHANGED <<cancelFlag, name, count, homes, modules, own, provided,
                   result, asked, exitedAt>>

Raised == TRUE

(* Sandbox.cancel(), from any thread.                                      *)
SandboxCancel ==
    /\ cancelFlag' = Raised
    /\ asked' = [e \in Execs |-> IF pc[e] = "run" THEN "run"
                                 ELSE IF UnderWay(e) THEN "setup"
                                 ELSE asked[e]]
    /\ UNCHANGED <<name, count, homes, modules, pc, own, provided, result,
                   exitedAt>>

(* What sys.modules holds once forget() has taken the homes out of it.     *)
Forgotten == [n \in Names |-> IF n \in Range(homes) THEN "none" ELSE modules[n]]

(* __exit__(): the with block ends once its calls have.  The sandbox can   *)
(* be used again.                                                          *)
Exit ==
    /\ \A e \in Execs : ~UnderWay(e)
    /\ exitedAt < count
    /\ cancelFlag' = FALSE /\ exitedAt' = count
    /\ homes' = <<>> /\ modules' = Forgotten
    /\ UNCHANGED <<name, count, pc, own, provided, result, asked>>

ExecutionsNext ==
    \/ \E e \in Execs :
          \/ Begin(e) \/ Rejects(e) \/ ClearsFlag(e) \/ NamesModule(e)
          \/ MakesModule(e) \/ ChecksName(e) \/ RegistersModule(e)
          \/ KeepsHome(e) \/ Provides(e)
          \/ CodeEnds(e) \/ CheckpointStops(e) \/ Interrupted(e)
    \/ SandboxCancel \/ Exit

ExecutionsSpec == ExecutionsInit /\ [][ExecutionsNext]_executionsVars

-----------------------------------------------------------------------------
(* What sys.modules finds under the name of a call's module is that module *)
(* or nothing, never the module of another call (home.py: "a class never   *)
(* resolves against another execution's names").                           *)
NeverOthers ==
    \A e \in Execs :
        own[e] # 0 /\ pc[e] \notin Setup
            => modules[own[e]] \in {e, "none"}

(* A module is in sys.modules only while the sandbox knows to take it out: *)
(* at most HOMES stay registered, and none after __exit__.  And never one  *)
(* too few: a class finds its home, the module of each of the latest HOMES *)
(* calls stays registered until __exit__, unless memory ran out in it.     *)
HomesKept ==
    /\ (\A e \in Execs : pc[e] # "keep")
        => /\ {n \in Names : modules[n] # "none"} \subseteq Range(homes)
           /\ Len(homes) <= Homes
           /\ \A i \in DOMAIN homes : homes[i] > exitedAt
    /\ \A e \in Execs :
        (/\ own[e] # 0 /\ pc[e] \notin Setup /\ result[e] # "memory"
         /\ own[e] > count - Homes /\ own[e] > exitedAt)
            => modules[own[e]] = e

(* What a host provides lasts exactly as long as the call it is for, so a  *)
(* callback that outlives the call cannot import it (_build_result).  It   *)
(* holds unless Ctrl-C ends the call.                                      *)
ProvidedDropped == \A e \in provided : pc[e] = "run"

(* Only a call that was under way when cancel() was called is cancelled: a *)
(* request made between calls never stops a later one.                     *)
OnlyAskedCancelled == \A e \in Execs : result[e] = "cancelled" => asked[e] # "no"

(* A call whose code was running when cancel() was called meets the flag   *)
(* at its next checkpoint, whatever happens before (Sandbox.cancel: "The   *)
(* sandbox will raise StCancelled at the next checkpoint").                *)
CancelStands == \A e \in Execs : asked[e] = "run" /\ pc[e] = "run" => cancelFlag
=============================================================================
