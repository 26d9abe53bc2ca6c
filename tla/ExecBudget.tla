----------------------------- MODULE ExecBudget -----------------------------
(***************************************************************************)
(* The budget of one execution: the boxes make_gates (sandtrap/gates.py)   *)
(* closes over, the HostClock of sandtrap/clock.py that pauses it, and the *)
(* tasks that spend it.  "main" is the code exec() or aexec() runs; the    *)
(* others are threads or asyncio tasks: work the code left running, and    *)
(* callbacks the host fires, during the execution or long after it.        *)
(*                                                                         *)
(* now counts whole units of time.monotonic(); it may advance between any  *)
(* two steps.  The clock's lock keeps enter and exit apart from each other *)
(* only: a checkpoint, _within_timeout and a callback that sets the budget *)
(* again take no lock, so they read and write between the steps of both.   *)
(* One read or write of a box is atomic, and so is counting one up.        *)
(***************************************************************************)
EXTENDS Integers, FiniteSets

CONSTANTS Others,      \* the tasks besides "main"
          Timeout,     \* the execution's wall-clock budget
          TickLimit,   \* policy.tick_limit
          MaxTime,     \* bound: how far the clock runs
          MaxTicks,    \* bound: checkpoints counted
          Spawns       \* whether the code starts tasks of its own

ASSUME BudgetAssumption ==
    /\ IsFiniteSet(Others) /\ "main" \notin Others /\ "none" \notin Others
    /\ Timeout \in Nat /\ TickLimit \in Nat
    /\ MaxTime \in Nat /\ MaxTicks \in Nat
    /\ Spawns \in BOOLEAN

Tasks == Others \cup {"main"}

VARIABLES
    now,      \* time.monotonic()
    start,    \* _start_time_box[0]
    ticks,    \* _tick_counter[0]
    flag,     \* the sandbox's CancelFlag
    inExec,   \* _in_exec_box[0]
    cbDepth,  \* _callback_depth[0]
    depth,    \* HostClock._depth
    entered,  \* HostClock._entered
    holder,   \* who holds HostClock._lock to stop or start the clock, or "none"
    phase,    \* where it is: "entering" the first host call, "left" the last
              \* one, or "read" the start to refund; "free" when nobody is
    sum,      \* what exit has added up and not stored yet
    role,     \* what each task is: "off", "main", "work", "callback", or
              \* "calling": a callback between reading the time and setting it
    inHost,   \* the tasks inside a host call
    look,     \* "none", or a task that found the clock running, or read the
              \* time, and has yet to act on it: "clear" while the clock was
              \* neither stopped nor started since, else "stale"
    awaits,   \* whether it is _within_timeout that looks for "main"
    ran,      \* time since the budget was last set, with no host call out
    torn,     \* whether the budget was set from a clock since moved
    began,    \* when each callback called after the execution began, else 0
    stop      \* what stopped the latest task to end

clock == <<start, depth, entered, holder, phase, sum, inHost>>
vars == <<now, ticks, flag, inExec, cbDepth, clock, role, look, awaits, ran,
          torn, began, stop>>

Running == {t \in Tasks : role[t] # "off"}
InCode  == {t \in Running \ inHost : t # holder /\ look[t] = "none"}
Paused  == depth > 0

BudgetTypeOK ==
    /\ now \in 0..MaxTime /\ start \in Int /\ entered \in 0..MaxTime
    /\ holder \in Tasks \cup {"none"} /\ sum \in Int
    /\ phase \in {"free", "entering", "left", "read"}
    /\ ticks \in 0..MaxTicks
    /\ flag \in BOOLEAN /\ inExec \in BOOLEAN
    /\ cbDepth \in 0..Cardinality(Others) /\ depth \in 0..Cardinality(Tasks)
    /\ role \in [Tasks -> {"off", "main", "work", "calling", "callback"}]
    /\ inHost \subseteq Running
    /\ look \in [Tasks -> {"none", "clear", "stale"}]
    /\ awaits \in BOOLEAN /\ torn \in BOOLEAN
    /\ ran \in 0..MaxTime /\ began \in [Tasks -> 0..MaxTime]
    /\ stop \in {"nothing", "cancelled", "ticks", "timeout", "memory"}

(* The gates are made and the code starts: the flag was just cleared.      *)
Init ==
    /\ now = 0 /\ start = 0 /\ ticks = 0 /\ flag = FALSE
    /\ inExec = TRUE /\ cbDepth = 0 /\ depth = 0 /\ entered = 0
    /\ holder = "none" /\ phase = "free" /\ sum = 0
    /\ role = [t \in Tasks |-> IF t = "main" THEN "main" ELSE "off"]
    /\ inHost = {} /\ look = [t \in Tasks |-> "none"] /\ awaits = FALSE
    /\ ran = 0 /\ torn = FALSE
    /\ began = [t \in Tasks |-> 0] /\ stop = "nothing"

-----------------------------------------------------------------------------
(* A pause lasts from when enter reads the time until exit does.           *)
Stopped == Paused \/ phase \in {"entering", "left"}

Tick ==
    /\ now < MaxTime
    /\ now' = now + 1
    /\ ran' = IF Stopped THEN ran ELSE ran + 1
    /\ UNCHANGED <<ticks, flag, inExec, cbDepth, clock, role, look, awaits,
                   torn, began, stop>>

(* Sandbox.cancel().                                                       *)
Cancel ==
    /\ flag' = TRUE
    /\ UNCHANGED <<now, ticks, inExec, cbDepth, clock, role, look, awaits, ran,
                   torn, began, stop>>

(* Mutant of Ends: the wrapper of a callback that raises keeps its depth.  *)
EndsUnbalanced(t) ==
    /\ role' = [role EXCEPT ![t] = "off"]
    /\ UNCHANGED cbDepth
    /\ inExec' = (inExec /\ t # "main")
    /\ began' = [began EXCEPT ![t] = 0]

(* A task ends, with its code's result or exception: a callback's wrapper  *)
(* takes its depth back, and exec() marks itself over.                     *)
Ends(t) ==
    /\ role' = [role EXCEPT ![t] = "off"]
    /\ cbDepth' = IF role[t] = "callback" THEN cbDepth - 1 ELSE cbDepth
    /\ inExec' = (inExec /\ t # "main")
    /\ began' = [began EXCEPT ![t] = 0]

(* The code of a task finishes.  What it started may outlive it.           *)
Finish(t) ==
    /\ t \in InCode
    /\ Ends(t) /\ stop' = "nothing"
    /\ UNCHANGED <<now, ticks, flag, clock, look, awaits, ran, torn>>

(* Ctrl-C in the thread of exec(), which lets it out without marking       *)
(* itself over.  A host call still leaves the clock; an interrupt that     *)
(* lands in enter or exit itself releases the lock with their work undone. *)
Interrupt ==
    /\ "main" \in Running \ inHost
    /\ role' = [role EXCEPT !["main"] = "off"]
    /\ look' = [look EXCEPT !["main"] = "none"]
    /\ awaits' = FALSE /\ stop' = "nothing"
    /\ IF holder = "main"
       THEN holder' = "none" /\ phase' = "free" /\ sum' = 0 /\ torn' = TRUE
       ELSE UNCHANGED <<holder, phase, sum, torn>>
    /\ UNCHANGED <<now, start, ticks, flag, inExec, cbDepth, depth, entered,
                   inHost, ran, began>>

(* The code starts a thread or a task, which copies its context, the clock *)
(* included.                                                               *)
StartWork(t) ==
    /\ Spawns /\ t \in Others /\ role[t] = "off"
    /\ "main" \in InCode
    /\ role' = [role EXCEPT ![t] = "work"]
    /\ UNCHANGED <<now, ticks, flag, inExec, cbDepth, clock, look, awaits, ran,
                   torn, began, stop>>

(* What a task that looks at the clock now will go by.                     *)
Looks(t) == look' = [look EXCEPT ![t] = IF phase = "free" THEN "clear" ELSE "stale"]

(* A callback gets a budget of its own when the execution is over and no   *)
(* other callback is out.                                                  *)
BudgetIsFresh == ~inExec /\ cbDepth = 0

(* __st_capture_context__'s wrapper, called by the host.                   *)
CallBack(t) ==
    /\ t \in Others /\ role[t] = "off"
    /\ began' = [began EXCEPT ![t] = IF inExec THEN 0 ELSE now]
    /\ IF BudgetIsFresh
       THEN /\ ticks' = 0 /\ Looks(t)
            /\ role' = [role EXCEPT ![t] = "calling"] /\ UNCHANGED cbDepth
       ELSE /\ cbDepth' = cbDepth + 1
            /\ role' = [role EXCEPT ![t] = "callback"]
            /\ UNCHANGED <<ticks, look>>
    /\ UNCHANGED <<now, flag, inExec, clock, awaits, ran, torn, stop>>

(* It sets the start to the time it read, whatever the clock did since.    *)
SetBudget(t) ==
    /\ role[t] = "calling"
    /\ start' = began[t]
    /\ ran' = IF Paused THEN 0 ELSE now - began[t]
    /\ torn' = (look[t] = "stale")
    /\ cbDepth' = cbDepth + 1
    /\ role' = [role EXCEPT ![t] = "callback"]
    /\ look' = [look EXCEPT ![t] = "none"]
    /\ UNCHANGED <<now, ticks, flag, inExec, depth, entered, holder, phase, sum,
                   inHost, awaits, began, stop>>

-----------------------------------------------------------------------------
(* The clock stops or starts: what a task has looked at is out of date.    *)
Moves == look' = [t \in Tasks |-> IF look[t] = "none" THEN "none" ELSE "stale"]

Inert == <<now, ticks, flag, inExec, cbDepth, role, awaits, ran, torn, began, stop>>

(* HostClock.enter: the first host call reads the time, tells the          *)
(* observer, and only then counts; a later one only counts.                *)
EnterHost(t) ==
    /\ t \in InCode /\ phase = "free"
    /\ IF depth = 0
       THEN /\ entered' = now /\ holder' = t /\ phase' = "entering" /\ Moves
            /\ UNCHANGED <<depth, inHost>>
       ELSE /\ depth' = depth + 1 /\ inHost' = inHost \cup {t}
            /\ UNCHANGED <<entered, holder, phase, look>>
    /\ UNCHANGED <<Inert, start, sum>>

StopsClock ==
    /\ phase = "entering"
    /\ depth' = depth + 1 /\ inHost' = inHost \cup {holder}
    /\ holder' = "none" /\ phase' = "free" /\ Moves
    /\ UNCHANGED <<Inert, start, entered, sum>>

(* Mutant of LastOut: every host call that ends is refunded.               *)
EveryOut == TRUE

(* The refund is due when the depth is back at 0.                          *)
LastOut == depth = 1

(* HostClock.exit: the depth drops, the last one out adds the pause to the *)
(* start it reads, and then stores the sum.                                *)
ExitHost(t) ==
    /\ t \in inHost /\ phase = "free"
    /\ inHost' = inHost \ {t} /\ depth' = depth - 1
    /\ IF LastOut
       THEN holder' = t /\ phase' = "left" /\ Moves
       ELSE UNCHANGED <<holder, phase, look>>
    /\ UNCHANGED <<Inert, start, entered, sum>>

AddsUp ==
    /\ phase = "left"
    /\ sum' = start + (now - entered)
    /\ phase' = "read" /\ Moves
    /\ UNCHANGED <<Inert, start, depth, entered, holder, inHost>>

Refunds ==
    /\ phase = "read"
    /\ start' = sum
    /\ holder' = "none" /\ phase' = "free" /\ sum' = 0 /\ Moves
    /\ UNCHANGED <<Inert, depth, entered, inHost>>

-----------------------------------------------------------------------------
(* Mutant of ClockRuns: the pause is not consulted.                        *)
AlwaysRuns == TRUE

(* The wall clock is consulted only while no host call is out.             *)
ClockRuns == ~Paused

(* __st_checkpoint__: cancellation, ticks, time and memory, in that order. *)
(* "fits" is whether the process is within its memory limit.               *)
Checkpoint(t, fits) ==
    /\ t \in InCode /\ ticks < MaxTicks
    /\ LET why == IF flag THEN "cancelled"
                  ELSE IF ticks + 1 > TickLimit THEN "ticks"
                  ELSE IF ~ClockRuns /\ ~fits THEN "memory" ELSE "nothing"
       IN  /\ ticks' = IF flag THEN ticks ELSE ticks + 1
           /\ IF why = "nothing"
              THEN UNCHANGED <<role, cbDepth, inExec, began, stop>>
              ELSE Ends(t) /\ stop' = why
           /\ IF why = "nothing" /\ ClockRuns THEN Looks(t) ELSE UNCHANGED look
    /\ UNCHANGED <<now, flag, clock, awaits, ran, torn>>

(* The rest of it: the clock was running when it looked.                   *)
ComparesTime(t, fits) ==
    /\ look[t] # "none" /\ role[t] # "calling" /\ ~(t = "main" /\ awaits)
    /\ look' = [look EXCEPT ![t] = "none"]
    /\ LET why == IF now - start > Timeout THEN "timeout"
                  ELSE IF ~fits THEN "memory" ELSE "nothing"
       IN  IF why = "nothing"
           THEN UNCHANGED <<role, cbDepth, inExec, began, stop>>
           ELSE Ends(t) /\ stop' = why
    /\ UNCHANGED <<now, ticks, flag, clock, awaits, ran, torn>>

(* _within_timeout, while aexec's code awaits: HostClock.remaining looks   *)
(* at the clock, and then finds the budget used up or some of it left.     *)
AwaitLooks ==
    /\ "main" \in InCode /\ ClockRuns
    /\ Looks("main") /\ awaits' = TRUE
    /\ UNCHANGED <<now, ticks, flag, inExec, cbDepth, clock, role, ran, torn,
                   began, stop>>

AwaitRemaining ==
    /\ awaits /\ awaits' = FALSE
    /\ look' = [look EXCEPT !["main"] = "none"]
    /\ IF start + Timeout - now <= 0
       THEN Ends("main") /\ stop' = "timeout"
       ELSE UNCHANGED <<role, cbDepth, inExec, began, stop>>
    /\ UNCHANGED <<now, ticks, flag, clock, ran, torn>>

Next ==
    \/ Tick \/ Cancel \/ Interrupt \/ AwaitLooks \/ AwaitRemaining
    \/ StopsClock \/ AddsUp \/ Refunds
    \/ \E t \in Tasks : \/ Finish(t) \/ EnterHost(t) \/ ExitHost(t)
                        \/ \E fits \in BOOLEAN : \/ Checkpoint(t, fits)
                                                 \/ ComparesTime(t, fits)
    \/ \E t \in Others : StartWork(t) \/ CallBack(t) \/ SetBudget(t)

Spec == Init /\ [][Next]_vars

-----------------------------------------------------------------------------
(* Every wrapper and every host call that began is still counted, and none *)
(* that ended is, whichever way it ended.                                  *)
Balanced ==
    /\ cbDepth = Cardinality({t \in Tasks : role[t] = "callback"})
    /\ depth = Cardinality(inHost)

(* The time charged to the budget so far, once a refund under way is made. *)
Charged ==
    CASE phase = "read" -> now - sum
      [] phase # "read" /\ Stopped -> entered - start
      [] phase # "read" /\ ~Stopped -> now - start

(* While exec() runs, the wall clock charges exactly the time no host call *)
(* was out, however the host calls of several tasks overlap and their      *)
(* enters and exits interleave with the readers that take no lock.  Nor    *)
(* does any callback later pay for more than that, whatever the code left  *)
(* behind in a host call, unless its budget is torn: set while the clock   *)
(* was being stopped or started, so that a refund read before it           *)
(* overwrites it.  The counters this rests on stay balanced throughout.    *)
RefundExact ==
    /\ Balanced
    /\ ~torn => Charged <= ran /\ (inExec => Charged = ran)

(* "the refund is the time from the first call in to the last call out"    *)
(* (HostClock), also of a call the code left out when a callback set the   *)
(* budget again.  It is not: the callback is refunded time from before it. *)
RefundOnce == Charged = ran

(* "each callback gets a fresh budget" (__st_capture_context__).  Not when *)
(* exit of a call the code left out reads the start before the callback    *)
(* sets it and stores the sum after: the callback pays for the old budget. *)
BudgetKept == ~inExec /\ phase = "free" /\ ~Paused => Charged <= ran

(* A step that ends a task for the time it took.                           *)
TimesOut(t) == role[t] # "off" /\ role'[t] = "off" /\ stop' = "timeout"

(* A timeout stops a task only after the budget ran, unpaused, for at      *)
(* least the timeout, unless the clock was being stopped or started by     *)
(* another thread between the task's look at it and its comparison, or     *)
(* the budget is torn.                                                     *)
NoEarlyTimeout ==
    [][\A t \in Tasks : TimesOut(t) => \/ ran >= Timeout
                                       \/ look[t] = "stale" \/ torn]_vars

(* "time inside a host call counts against neither" (_within_timeout, of   *)
(* itself and the checkpoint).  It does for one that looks at the clock    *)
(* after exit has dropped the depth and before it stores the refund.       *)
NoTimeoutEver == [][\A t \in Tasks : TimesOut(t) => ran >= Timeout]_vars

(* A callback the host calls after the execution has a budget of its own:  *)
(* it is not stopped for time before it has run that long itself.          *)
FreshBudget == [][\A t \in Others : TimesOut(t) => now - began[t] >= Timeout]_vars
=============================================================================
