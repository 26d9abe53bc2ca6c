-------------------------- MODULE ExecBudgetProofs --------------------------
(***************************************************************************)
(* Proofs about ExecBudget, for any number of tasks, any timeout and any   *)
(* length of time: the refund is exact however host calls overlap, and no  *)
(* task is stopped for time before the budget ran that long.  The second   *)
(* half is about the executions whose budgets these are (Executions).      *)
(***************************************************************************)
EXTENDS ExecBudget, Executions, FiniteSetTheorems, SequenceTheorems, TLAPS

-----------------------------------------------------------------------------
(* The inductive invariant.                                                *)

Callbacks == {t \in Tasks : role[t] = "callback"}

Reasons == {"nothing", "cancelled", "ticks", "timeout", "memory"}
Roles == {"off", "main", "work", "calling", "callback"}

(* Types of what the clock does not touch, with counters that are not yet  *)
(* bounded by what they count.                                             *)
ShapeInv ==
    /\ ticks \in 0..MaxTicks
    /\ flag \in BOOLEAN /\ inExec \in BOOLEAN
    /\ awaits \in BOOLEAN /\ torn \in BOOLEAN
    /\ cbDepth \in Nat
    /\ role \in [Tasks -> Roles]
    /\ role["main"] # "callback"
    /\ stop \in Reasons

(* Types of the clock.                                                     *)
TimeInv ==
    /\ now \in 0..MaxTime /\ start \in Int /\ entered \in 0..MaxTime
    /\ sum \in Int /\ depth \in Nat /\ ran \in 0..MaxTime
    /\ entered <= now /\ ran <= now
    /\ phase \in {"free", "entering", "left", "read"}
    /\ (phase = "free" <=> holder = "none")
    /\ (phase # "free" => depth = 0)

(* Where the tasks are: who holds the lock is in no host call, and who     *)
(* looks at the clock is doing nothing else.                               *)
PlaceInv ==
    /\ holder \in Tasks \cup {"none"}
    /\ inHost \subseteq Running
    /\ (holder # "none" => holder \in Running \ inHost)
    /\ look \in [Tasks -> {"none", "clear", "stale"}]
    /\ \A t \in Tasks : look[t] # "none" => t \in Running \ inHost /\ t # holder
    /\ \A t \in Tasks : role[t] = "calling" => look[t] # "none" /\ ~inExec
    /\ (awaits => look["main"] # "none" /\ role["main"] # "calling")

(* Who has looked and found nothing moved since: no lock is held; a        *)
(* checkpoint's clock still runs, and a budget about to be set from the    *)
(* time read is set in a pause that began before it, or in none.           *)
LookInv ==
    /\ \A t \in Tasks : look[t] = "clear" => phase = "free"
    /\ \A t \in Tasks : look[t] = "clear" /\ role[t] # "calling" => depth = 0
    /\ \A t \in Tasks : look[t] = "clear" /\ role[t] = "calling" /\ depth > 0
                        => entered <= began[t]

BeganInv == began \in [Tasks -> 0..MaxTime] /\ \A t \in Tasks : began[t] <= now

(* The account itself, without the counters.                               *)
AccountInv == ~torn => Charged <= ran /\ (inExec => Charged = ran)

BudgetInv == /\ ShapeInv /\ TimeInv /\ PlaceInv /\ LookInv /\ BeganInv
             /\ Balanced /\ AccountInv

-----------------------------------------------------------------------------
(* Finite sets of tasks and their sizes.                                   *)
LEMMA TasksFinite ==
  /\ IsFiniteSet(Tasks) /\ Cardinality(Tasks) = Cardinality(Others) + 1
  /\ \A S \in SUBSET Tasks : IsFiniteSet(S) /\ Cardinality(S) \in Nat
                             /\ Cardinality(S) <= Cardinality(Tasks)
<1>1. IsFiniteSet(Tasks) /\ Cardinality(Tasks) = Cardinality(Others) + 1
  BY FS_AddElement, BudgetAssumption DEF Tasks
<1>2. \A S \in SUBSET Tasks : IsFiniteSet(S) /\ Cardinality(S) <= Cardinality(Tasks)
  BY <1>1, FS_Subset
<1> QED  BY <1>1, <1>2, FS_CardinalityType

LEMMA CountUp ==
  ASSUME NEW S \in SUBSET Tasks, NEW t \in Tasks, t \notin S
  PROVE  Cardinality(S \cup {t}) = Cardinality(S) + 1
BY TasksFinite, FS_AddElement

LEMMA CountDown ==
  ASSUME NEW S \in SUBSET Tasks, NEW t \in S
  PROVE  Cardinality(S \ {t}) = Cardinality(S) - 1 /\ Cardinality(S) >= 1
<1>1. IsFiniteSet(S) /\ Cardinality(S) \in Nat
  BY TasksFinite
<1>2. Cardinality(S \ {t}) = Cardinality(S) - 1
  BY <1>1, FS_RemoveElement
<1>3. Cardinality(S \ {t}) \in Nat
  BY TasksFinite
<1> QED  BY <1>1, <1>2, <1>3

(* A task that is in no host call and holds no lock ends: the counters     *)
(* follow, and the clock is not touched.                                   *)
LEMMA EndsKeeps ==
  ASSUME NEW t \in Running \ inHost, t # holder, role[t] # "calling",
         BudgetInv, Ends(t),
         look' = [look EXCEPT ![t] = "none"],
         awaits' \in BOOLEAN, awaits' => awaits /\ t # "main",
         ticks' \in 0..MaxTicks, stop' \in Reasons,
         UNCHANGED <<now, flag, clock, ran, torn>>
  PROVE  BudgetInv'
<1> USE DEF Ends, Running, clock
<1>1. t \in Tasks /\ role' = [role EXCEPT ![t] = "off"] /\ role \in [Tasks -> Roles]
  BY DEF BudgetInv, ShapeInv
<1>2. \A u \in Tasks : role'[u] = IF u = t THEN "off" ELSE role[u]
  BY <1>1
<1>3. cbDepth' = Cardinality(Callbacks') /\ cbDepth' \in Nat
  <2>1. cbDepth = Cardinality(Callbacks) /\ Callbacks \in SUBSET Tasks
    BY DEF BudgetInv, Balanced, Callbacks
  <2>2. CASE role[t] = "callback"
    <3>1. Callbacks' = Callbacks \ {t} /\ t \in Callbacks
      BY <1>1, <1>2, <2>2 DEF Callbacks
    <3>2. Cardinality(Callbacks \ {t}) = Cardinality(Callbacks) - 1 /\ Cardinality(Callbacks) >= 1
      BY <2>1, <3>1, CountDown
    <3> QED  BY <2>1, <2>2, <3>1, <3>2 DEF BudgetInv, ShapeInv
  <2>3. CASE role[t] # "callback"
    <3>1. Callbacks' = Callbacks
      BY <1>1, <1>2, <2>3 DEF Callbacks
    <3> QED  BY <2>1, <2>3, <3>1 DEF BudgetInv, ShapeInv
  <2> QED  BY <2>2, <2>3
<1>4. Balanced'
  BY <1>3 DEF BudgetInv, Balanced, Callbacks
<1>5. ShapeInv'
  <2>1. inExec' \in BOOLEAN
    OBVIOUS
  <2>2. role' \in [Tasks -> Roles] /\ role'["main"] # "callback"
    BY <1>1 DEF BudgetInv, ShapeInv, Tasks, Roles
  <2>3. (flag \in BOOLEAN /\ torn \in BOOLEAN)'
    BY DEF BudgetInv, ShapeInv
  <2> QED  BY <1>3, <2>1, <2>2, <2>3 DEF BudgetInv, ShapeInv
<1>6. TimeInv'
  BY DEF BudgetInv, TimeInv
<1>7. look \in [Tasks -> {"none", "clear", "stale"}]
      /\ \A u \in Tasks : look'[u] = IF u = t THEN "none" ELSE look[u]
  BY <1>1 DEF BudgetInv, PlaceInv
<1>8. PlaceInv'
  <2>1. (look \in [Tasks -> {"none", "clear", "stale"}])'
    BY <1>1, <1>7
  <2>2. (inHost \subseteq Running /\ (holder # "none" => holder \in Running \ inHost))'
    BY <1>1, <1>2 DEF BudgetInv, PlaceInv
  <2>3. (\A u \in Tasks : look[u] # "none" => u \in Running \ inHost /\ u # holder)'
    BY <1>1, <1>2, <1>7 DEF BudgetInv, PlaceInv
  <2>4. (\A u \in Tasks : role[u] = "calling" => look[u] # "none" /\ ~inExec)'
    BY <1>1, <1>2, <1>7 DEF BudgetInv, PlaceInv
  <2>5. (awaits => look["main"] # "none" /\ role["main"] # "calling")'
    BY <1>1, <1>2, <1>7 DEF BudgetInv, PlaceInv, Tasks
  <2> QED  BY <2>1, <2>2, <2>3, <2>4, <2>5 DEF BudgetInv, PlaceInv
<1>9. LookInv'
  BY <1>1, <1>2, <1>7 DEF BudgetInv, LookInv, BeganInv
<1>10. BeganInv'
  BY <1>1, BudgetAssumption DEF BudgetInv, BeganInv, TimeInv
<1>11. AccountInv'
  BY DEF BudgetInv, AccountInv, Charged, Stopped, Paused
<1> QED  BY <1>4, <1>5, <1>6, <1>8, <1>9, <1>10, <1>11 DEF BudgetInv

(* A task ends where it neither looked nor holds the lock.                 *)
LEMMA EndsInCode ==
  ASSUME NEW t \in InCode, BudgetInv, Ends(t),
         ticks' \in 0..MaxTicks, stop' \in Reasons,
         UNCHANGED <<now, flag, clock, look, awaits, ran, torn>>
  PROVE  BudgetInv'
<1>1. t \in Running \ inHost /\ t # holder /\ look[t] = "none"
  BY DEF InCode
<1>2. t \in Tasks /\ role[t] # "calling"
  BY <1>1 DEF BudgetInv, PlaceInv, Running
<1>3. look' = [look EXCEPT ![t] = "none"]
  BY <1>1, <1>2 DEF BudgetInv, PlaceInv
<1>4. awaits' \in BOOLEAN
  BY DEF BudgetInv, ShapeInv
<1>5. awaits' => awaits /\ t # "main"
  BY <1>1 DEF BudgetInv, PlaceInv
<1> QED  BY <1>1, <1>2, <1>3, <1>4, <1>5, EndsKeeps

(* Nothing but the flag, the ticks, who looks and the latest stop changes. *)
LEMMA LooksKeep ==
  ASSUME BudgetInv, ticks' \in 0..MaxTicks, flag' \in BOOLEAN, awaits' \in BOOLEAN,
         PlaceInv', LookInv',
         UNCHANGED <<now, inExec, cbDepth, clock, role, ran, torn, began, stop>>
  PROVE  BudgetInv'
<1> USE DEF clock
<1>1. ShapeInv'
  <2>1. inExec' \in BOOLEAN /\ torn' \in BOOLEAN
    BY DEF BudgetInv, ShapeInv
  <2> QED  BY <2>1 DEF BudgetInv, ShapeInv
<1>2. TimeInv' /\ BeganInv' /\ Balanced'
  BY DEF BudgetInv, TimeInv, BeganInv, Balanced
<1>3. AccountInv'
  BY DEF BudgetInv, AccountInv, Charged, Stopped, Paused
<1> QED  BY <1>1, <1>2, <1>3 DEF BudgetInv

(* A task of the code's looks at a clock that runs.                        *)
LEMMA LooksPlaced ==
  ASSUME NEW t \in InCode, BudgetInv, Looks(t), depth = 0,
         awaits' => awaits \/ t = "main",
         UNCHANGED <<inExec, clock, role, began>>
  PROVE  PlaceInv' /\ LookInv'
<1> USE DEF Looks, clock
<1>1. t \in Running \ inHost /\ t # holder /\ look[t] = "none" /\ t \in Tasks
  BY DEF InCode, Running
<1>2. role[t] # "calling" /\ look \in [Tasks -> {"none", "clear", "stale"}]
  BY <1>1 DEF BudgetInv, PlaceInv
<1>3. \A u \in Tasks : look'[u] = IF u # t THEN look[u]
                                  ELSE IF phase = "free" THEN "clear" ELSE "stale"
  BY <1>1, <1>2
<1>4. (look \in [Tasks -> {"none", "clear", "stale"}])'
  BY <1>1, <1>2
<1>5. PlaceInv'
  <2>1. (\A u \in Tasks : look[u] # "none" => u \in Running \ inHost /\ u # holder)'
    BY <1>1, <1>3 DEF BudgetInv, PlaceInv, Running
  <2>2. (\A u \in Tasks : role[u] = "calling" => look[u] # "none" /\ ~inExec)'
    BY <1>2, <1>3 DEF BudgetInv, PlaceInv
  <2>3. (awaits => look["main"] # "none" /\ role["main"] # "calling")'
    BY <1>1, <1>2, <1>3 DEF BudgetInv, PlaceInv, Tasks
  <2> QED  BY <1>4, <2>1, <2>2, <2>3 DEF BudgetInv, PlaceInv, Running
<1>6. LookInv'
  BY <1>1, <1>2, <1>3 DEF BudgetInv, LookInv
<1> QED  BY <1>5, <1>6

(* A task that looked is done with it, and goes on.                        *)
LEMMA LooksDone ==
  ASSUME NEW t \in Tasks, BudgetInv, role[t] # "calling",
         look' = [look EXCEPT ![t] = "none"],
         awaits' \in BOOLEAN, awaits' => awaits /\ t # "main",
         UNCHANGED <<now, ticks, flag, inExec, cbDepth, clock, role, ran, torn, began, stop>>
  PROVE  BudgetInv'
<1> USE DEF clock
<1>1. \A u \in Tasks : look'[u] = IF u = t THEN "none" ELSE look[u]
  BY DEF BudgetInv, PlaceInv
<1>2. PlaceInv'
  <2>1. (look \in [Tasks -> {"none", "clear", "stale"}])'
    BY DEF BudgetInv, PlaceInv
  <2>2. (\A u \in Tasks : look[u] # "none" => u \in Running \ inHost /\ u # holder)'
    BY <1>1 DEF BudgetInv, PlaceInv, Running
  <2>3. (\A u \in Tasks : role[u] = "calling" => look[u] # "none" /\ ~inExec)'
    BY <1>1 DEF BudgetInv, PlaceInv
  <2>4. (awaits => look["main"] # "none" /\ role["main"] # "calling")'
    BY <1>1 DEF BudgetInv, PlaceInv, Tasks
  <2> QED  BY <2>1, <2>2, <2>3, <2>4 DEF BudgetInv, PlaceInv, Running
<1>3. LookInv'
  BY <1>1 DEF BudgetInv, LookInv
<1>4. ticks' \in 0..MaxTicks /\ flag' \in BOOLEAN
  BY DEF BudgetInv, ShapeInv
<1> QED  BY <1>2, <1>3, <1>4, LooksKeep

(* Time passes: it is charged exactly when no host call is out.            *)
LEMMA TickKeeps == BudgetInv /\ Tick => BudgetInv'
<1> SUFFICES ASSUME BudgetInv, Tick PROVE BudgetInv'
  OBVIOUS
<1> USE DEF Tick, clock
<1>1. ShapeInv'
  <2>1. (flag \in BOOLEAN /\ inExec \in BOOLEAN /\ awaits \in BOOLEAN /\ torn \in BOOLEAN)'
    BY DEF BudgetInv, ShapeInv
  <2> QED  BY <2>1 DEF BudgetInv, ShapeInv
<1>2. TimeInv'
  BY BudgetAssumption DEF BudgetInv, TimeInv
<1>3. PlaceInv'
  BY DEF BudgetInv, PlaceInv, Running
<1>4. LookInv'
  BY DEF BudgetInv, LookInv
<1>5. BeganInv'
  BY BudgetAssumption DEF BudgetInv, BeganInv, TimeInv
<1>6. Balanced'
  BY DEF BudgetInv, Balanced
<1>7. AccountInv'
  BY BudgetAssumption DEF BudgetInv, TimeInv, AccountInv, Charged, Stopped, Paused
<1> QED  BY <1>1, <1>2, <1>3, <1>4, <1>5, <1>6, <1>7 DEF BudgetInv

(* A task starts, as work of the code's or as a callback.                  *)
LEMMA StartsKeep ==
  ASSUME NEW t \in Others, NEW r \in {"work", "calling", "callback"}, BudgetInv,
         role[t] = "off", role' = [role EXCEPT ![t] = r],
         cbDepth' = IF r = "callback" THEN cbDepth + 1 ELSE cbDepth,
         IF r = "calling" THEN Looks(t) /\ began' = [began EXCEPT ![t] = now] /\ ~inExec
         ELSE UNCHANGED look /\ \E n \in {0, now} : began' = [began EXCEPT ![t] = n] \/ began' = began,
         ticks' \in 0..MaxTicks,
         UNCHANGED <<now, flag, inExec, clock, awaits, ran, torn, stop>>
  PROVE  BudgetInv'
<1> USE DEF clock
<1>1. t \in Tasks /\ t # "main" /\ role \in [Tasks -> Roles]
  BY BudgetAssumption DEF BudgetInv, ShapeInv, Tasks
<1>2. \A u \in Tasks : role'[u] = IF u = t THEN r ELSE role[u]
  BY <1>1
<1>3. look[t] = "none" /\ look \in [Tasks -> {"none", "clear", "stale"}]
      /\ t # holder /\ t \notin inHost
  BY <1>1, BudgetAssumption DEF BudgetInv, PlaceInv, Running
<1>4. began \in [Tasks -> 0..MaxTime] /\ now \in 0..MaxTime /\ 0 \in 0..MaxTime
  BY BudgetAssumption DEF BudgetInv, BeganInv, TimeInv
<1>5. BeganInv'
  <2>1. CASE r = "calling"
    BY <1>1, <1>4, <2>1 DEF BudgetInv, BeganInv
  <2>2. CASE r # "calling"
    <3>1. PICK n \in {0, now} : began' = [began EXCEPT ![t] = n] \/ began' = began
      BY <2>2
    <3>2. n \in 0..MaxTime /\ n <= now
      BY <1>4, BudgetAssumption
    <3> QED  BY <1>1, <1>4, <3>1, <3>2 DEF BudgetInv, BeganInv
  <2> QED  BY <2>1, <2>2
<1>6. /\ (look \in [Tasks -> {"none", "clear", "stale"}])'
      /\ \A u \in Tasks : u # t => look'[u] = look[u]
      /\ r = "calling" => look'[t] = (IF phase = "free" THEN "clear" ELSE "stale")
      /\ r # "calling" => look'[t] = "none"
  BY <1>1, <1>3 DEF Looks
<1>7. ShapeInv'
  <2>1. (flag \in BOOLEAN /\ inExec \in BOOLEAN /\ awaits \in BOOLEAN /\ torn \in BOOLEAN)'
    BY DEF BudgetInv, ShapeInv
  <2>2. role' \in [Tasks -> Roles] /\ role'["main"] # "callback"
    BY <1>1 DEF BudgetInv, ShapeInv, Tasks, Roles
  <2>3. cbDepth' \in Nat
    BY DEF BudgetInv, ShapeInv
  <2> QED  BY <2>1, <2>2, <2>3 DEF BudgetInv, ShapeInv
<1>8. Balanced'
  <2>1. Callbacks \in SUBSET Tasks /\ t \notin Callbacks
    BY <1>1 DEF Callbacks
  <2>2. CASE r = "callback"
    <3>1. Callbacks' = Callbacks \cup {t}
      BY <1>1, <1>2, <2>2 DEF Callbacks
    <3>2. Cardinality(Callbacks \cup {t}) = Cardinality(Callbacks) + 1
      BY <1>1, <2>1, CountUp
    <3> QED  BY <2>2, <3>1, <3>2 DEF BudgetInv, Balanced, Callbacks
  <2>3. CASE r # "callback"
    <3>1. Callbacks' = Callbacks
      BY <1>1, <1>2, <2>3 DEF Callbacks
    <3> QED  BY <2>3, <3>1 DEF BudgetInv, Balanced, Callbacks
  <2> QED  BY <2>2, <2>3
<1>9. PlaceInv'
  <2>1. (inHost \subseteq Running /\ (holder # "none" => holder \in Running \ inHost))'
    BY <1>1, <1>2 DEF BudgetInv, PlaceInv, Running
  <2>2. (\A u \in Tasks : look[u] # "none" => u \in Running \ inHost /\ u # holder)'
    BY <1>1, <1>2, <1>3, <1>6 DEF BudgetInv, PlaceInv, Running
  <2>3. (\A u \in Tasks : role[u] = "calling" => look[u] # "none" /\ ~inExec)'
    BY <1>1, <1>2, <1>3, <1>6 DEF BudgetInv, PlaceInv
  <2>4. (awaits => look["main"] # "none" /\ role["main"] # "calling")'
    BY <1>1, <1>2, <1>6 DEF BudgetInv, PlaceInv, Tasks
  <2> QED  BY <1>6, <2>1, <2>2, <2>3, <2>4 DEF BudgetInv, PlaceInv
<1>10. TimeInv'
  BY DEF BudgetInv, TimeInv
<1>11. LookInv'
  <2>1. (\A u \in Tasks : look[u] = "clear" => phase = "free")'
    BY <1>6 DEF BudgetInv, LookInv
  <2>2. (\A u \in Tasks : look[u] = "clear" /\ role[u] # "calling" => depth = 0)'
    BY <1>1, <1>2, <1>6 DEF BudgetInv, LookInv
  <2>3. ASSUME NEW u \in Tasks, look'[u] = "clear", role'[u] = "calling", depth > 0
        PROVE  entered <= began'[u]
    <3>1. CASE u = t
      <4>1. began'[t] = now
        BY <1>1, <1>2, <1>4, <2>3, <3>1
      <4> QED  BY <3>1, <4>1 DEF BudgetInv, TimeInv
    <3>2. CASE u # t
      <4>1. began'[u] = began[u] /\ role'[u] = role[u] /\ look'[u] = look[u]
        BY <1>1, <1>2, <1>4, <1>6, <3>2
      <4> QED  BY <2>3, <4>1 DEF BudgetInv, LookInv
    <3> QED  BY <3>1, <3>2
  <2> QED  BY <2>1, <2>2, <2>3 DEF LookInv
<1>12. AccountInv'
  BY DEF BudgetInv, AccountInv, Charged, Stopped, Paused
<1> QED  BY <1>5, <1>7, <1>8, <1>9, <1>10, <1>11, <1>12 DEF BudgetInv

LEMMA StartWorkKeeps ==
  ASSUME NEW t \in Others, BudgetInv, StartWork(t)
  PROVE  BudgetInv'
<1>1. \E n \in {0, now} : began' = [began EXCEPT ![t] = n] \/ began' = began
  BY DEF StartWork
<1>2. ticks' \in 0..MaxTicks
  BY DEF StartWork, BudgetInv, ShapeInv
<1> QED  BY <1>1, <1>2, StartsKeep DEF StartWork

LEMMA CallBackKeeps ==
  ASSUME NEW t \in Others, BudgetInv, CallBack(t)
  PROVE  BudgetInv'
<1> USE DEF CallBack, BudgetIsFresh
<1>1. ticks' \in 0..MaxTicks
  BY BudgetAssumption DEF BudgetInv, ShapeInv
<1>2. CASE BudgetIsFresh
  <2>1. ~inExec /\ began' = [began EXCEPT ![t] = now] /\ Looks(t)
        /\ role' = [role EXCEPT ![t] = "calling"]
        /\ role[t] = "off" /\ cbDepth' = cbDepth
        /\ UNCHANGED <<now, flag, inExec, clock, awaits, ran, torn, stop>>
    BY <1>2
  <2> QED  BY <1>1, <2>1, StartsKeep
<1>3. CASE ~BudgetIsFresh
  <2>1. \E n \in {0, now} : began' = [began EXCEPT ![t] = n] \/ began' = began
    OBVIOUS
  <2>2. role' = [role EXCEPT ![t] = "callback"] /\ cbDepth' = cbDepth + 1 /\ UNCHANGED look
        /\ role[t] = "off"
        /\ UNCHANGED <<now, flag, inExec, clock, awaits, ran, torn, stop>>
    BY <1>3
  <2> QED  BY <1>1, <2>1, <2>2, StartsKeep
<1> QED  BY <1>2, <1>3

(* A callback sets the budget again from the time it read.  If the clock   *)
(* was neither stopped nor started since, it is charged what ran since, or *)
(* less than nothing in a pause that began before.                         *)
LEMMA SetBudgetKeeps ==
  ASSUME NEW t \in Others, BudgetInv, SetBudget(t)
  PROVE  BudgetInv'
<1> USE DEF SetBudget
<1>1. t \in Tasks /\ t # "main" /\ role \in [Tasks -> Roles]
  BY BudgetAssumption DEF BudgetInv, ShapeInv, Tasks
<1>2. \A u \in Tasks : role'[u] = IF u = t THEN "callback" ELSE role[u]
  BY <1>1
<1>3. look[t] # "none" /\ ~inExec /\ t \notin inHost /\ t # holder
      /\ look \in [Tasks -> {"none", "clear", "stale"}]
  BY <1>1 DEF BudgetInv, PlaceInv
<1>4. \A u \in Tasks : look'[u] = IF u = t THEN "none" ELSE look[u]
  BY <1>1, <1>3
<1>5. began[t] \in 0..MaxTime /\ began[t] <= now /\ now \in 0..MaxTime
  BY <1>1 DEF BudgetInv, BeganInv, TimeInv
<1>6. TimeInv'
  BY <1>5, BudgetAssumption DEF BudgetInv, TimeInv
<1>7. ShapeInv'
  <2>1. (flag \in BOOLEAN /\ inExec \in BOOLEAN /\ awaits \in BOOLEAN)'
    BY DEF BudgetInv, ShapeInv
  <2>2. torn' \in BOOLEAN
    BY ZenonT(20)
  <2>3. role' \in [Tasks -> Roles] /\ role'["main"] # "callback"
    BY <1>1 DEF BudgetInv, ShapeInv, Tasks, Roles
  <2>4. cbDepth' \in Nat
    BY DEF BudgetInv, ShapeInv
  <2> QED  BY <2>1, <2>2, <2>3, <2>4 DEF BudgetInv, ShapeInv
<1>8. Balanced'
  <2>1. Callbacks' = Callbacks \cup {t} /\ t \notin Callbacks /\ Callbacks \in SUBSET Tasks
    BY <1>1, <1>2 DEF Callbacks
  <2>2. Cardinality(Callbacks \cup {t}) = Cardinality(Callbacks) + 1
    BY <1>1, <2>1, CountUp
  <2> QED  BY <2>1, <2>2 DEF BudgetInv, Balanced, Callbacks
<1>9. PlaceInv'
  <2>1. (look \in [Tasks -> {"none", "clear", "stale"}])'
    BY <1>1, <1>3
  <2>2. (inHost \subseteq Running /\ (holder # "none" => holder \in Running \ inHost))'
    BY <1>1, <1>2 DEF BudgetInv, PlaceInv, Running
  <2>3. (\A u \in Tasks : look[u] # "none" => u \in Running \ inHost /\ u # holder)'
    BY <1>1, <1>2, <1>4 DEF BudgetInv, PlaceInv, Running
  <2>4. (\A u \in Tasks : role[u] = "calling" => look[u] # "none" /\ ~inExec)'
    BY <1>1, <1>2, <1>4 DEF BudgetInv, PlaceInv
  <2>5. (awaits => look["main"] # "none" /\ role["main"] # "calling")'
    BY <1>1, <1>2, <1>4 DEF BudgetInv, PlaceInv, Tasks
  <2> QED  BY <2>1, <2>2, <2>3, <2>4, <2>5 DEF BudgetInv, PlaceInv
<1>10. LookInv'
  BY <1>1, <1>2, <1>4 DEF BudgetInv, LookInv
<1>11. BeganInv'
  BY DEF BudgetInv, BeganInv
<1>12. AccountInv'
  <2>1. SUFFICES ASSUME ~torn' PROVE Charged' <= ran'
    BY <1>3 DEF AccountInv
  <2>2. look[t] = "clear"
    BY <1>1, <1>3, <2>1
  <2>3. phase = "free" /\ (depth > 0 => entered <= began[t])
    BY <1>1, <2>2 DEF BudgetInv, LookInv
  <2> QED  BY <1>5, <2>3, BudgetAssumption DEF Charged, Stopped, Paused, BudgetInv, TimeInv
<1> QED  BY <1>6, <1>7, <1>8, <1>9, <1>10, <1>11, <1>12 DEF BudgetInv

(* The clock moves: who looked before goes by something out of date.       *)
LEMMA MovesLook ==
  ASSUME BudgetInv, Moves
  PROVE  /\ (look \in [Tasks -> {"none", "clear", "stale"}])'
         /\ \A t \in Tasks : look'[t] # "clear" /\ (look'[t] = "none" <=> look[t] = "none")
BY DEF Moves, BudgetInv, PlaceInv

(* A step of enter or exit: what is neither the clock nor a look stays.    *)
LEMMA ClockKeeps ==
  ASSUME BudgetInv, UNCHANGED Inert, TimeInv', PlaceInv', LookInv', AccountInv',
         depth' = Cardinality(inHost')
  PROVE  BudgetInv'
<1> USE DEF Inert
<1>1. ShapeInv'
  <2>1. (flag \in BOOLEAN /\ inExec \in BOOLEAN /\ awaits \in BOOLEAN /\ torn \in BOOLEAN)'
    BY DEF BudgetInv, ShapeInv
  <2> QED  BY <2>1 DEF BudgetInv, ShapeInv
<1>2. BeganInv' /\ Balanced'
  BY DEF BudgetInv, BeganInv, Balanced
<1> QED  BY <1>1, <1>2 DEF BudgetInv

(* A host call begins: the first one stops the clock at what is charged.   *)
LEMMA EnterHostKeeps ==
  ASSUME NEW t \in Tasks, BudgetInv, EnterHost(t)
  PROVE  BudgetInv'
<1> USE DEF EnterHost, Inert
<1>1. t \in Running \ inHost /\ t # holder /\ look[t] = "none" /\ phase = "free"
  BY DEF InCode
<1>2. inHost \in SUBSET Tasks /\ holder = "none" /\ t # "none"
  BY BudgetAssumption DEF BudgetInv, PlaceInv, TimeInv, Running, Tasks
<1>3. CASE depth = 0
  <2>1. TimeInv'
    BY <1>1, <1>2, <1>3 DEF BudgetInv, TimeInv
  <2>2. PlaceInv'
    <3>1. (look \in [Tasks -> {"none", "clear", "stale"}])'
          /\ \A u \in Tasks : look'[u] # "clear" /\ (look'[u] = "none" <=> look[u] = "none")
      BY <1>3, MovesLook
    <3>2. (holder \in Tasks \cup {"none"} /\ inHost \subseteq Running
           /\ (holder # "none" => holder \in Running \ inHost))'
      BY <1>1, <1>3 DEF BudgetInv, PlaceInv, Running
    <3>3. (\A u \in Tasks : look[u] # "none" => u \in Running \ inHost /\ u # holder)'
      BY <1>1, <1>2, <1>3, <3>1 DEF BudgetInv, PlaceInv, Running
    <3>4. (\A u \in Tasks : role[u] = "calling" => look[u] # "none" /\ ~inExec)'
      BY <3>1 DEF BudgetInv, PlaceInv
    <3>5. (awaits => look["main"] # "none" /\ role["main"] # "calling")'
      BY <3>1 DEF BudgetInv, PlaceInv, Tasks
    <3> QED  BY <3>1, <3>2, <3>3, <3>4, <3>5 DEF PlaceInv
  <2>3. LookInv'
    BY <1>3, MovesLook DEF LookInv
  <2>4. AccountInv'
    BY <1>1, <1>3, BudgetAssumption DEF BudgetInv, TimeInv, AccountInv, Charged, Stopped, Paused
  <2>5. depth' = Cardinality(inHost')
    BY <1>3 DEF BudgetInv, Balanced
  <2> QED  BY <2>1, <2>2, <2>3, <2>4, <2>5, ClockKeeps
<1>4. CASE depth # 0
  <2>1. TimeInv'
    BY <1>1, <1>4 DEF BudgetInv, TimeInv
  <2>2. PlaceInv'
    BY <1>1, <1>4 DEF BudgetInv, PlaceInv, Running
  <2>3. LookInv'
    BY <1>4 DEF BudgetInv, LookInv, TimeInv
  <2>4. AccountInv'
    BY <1>1, <1>4, BudgetAssumption DEF BudgetInv, TimeInv, AccountInv, Charged, Stopped, Paused
  <2>5. Cardinality(inHost \cup {t}) = Cardinality(inHost) + 1
    BY <1>1, <1>2, CountUp
  <2>6. depth' = Cardinality(inHost')
    BY <1>4, <2>5 DEF BudgetInv, Balanced
  <2> QED  BY <2>1, <2>2, <2>3, <2>4, <2>6, ClockKeeps
<1> QED  BY <1>3, <1>4

LEMMA StopsClockKeeps == BudgetInv /\ StopsClock => BudgetInv'
<1> SUFFICES ASSUME BudgetInv, StopsClock PROVE BudgetInv'
  OBVIOUS
<1> USE DEF StopsClock, Inert
<1>1. holder # "none" /\ depth = 0
  BY DEF BudgetInv, TimeInv
<1>2. holder \in Running \ inHost /\ inHost \in SUBSET Tasks /\ holder \in Tasks
  BY <1>1 DEF BudgetInv, PlaceInv, Running
<1>3. TimeInv'
  BY <1>1 DEF BudgetInv, TimeInv
<1>4. /\ (look \in [Tasks -> {"none", "clear", "stale"}])'
      /\ \A u \in Tasks : look'[u] # "clear" /\ (look'[u] = "none" <=> look[u] = "none")
  BY MovesLook
<1>5. PlaceInv'
  <2>1. (inHost \subseteq Running)'
    BY <1>2 DEF BudgetInv, PlaceInv, Running
  <2>2. (\A u \in Tasks : look[u] # "none" => u \in Running \ inHost /\ u # holder)'
    BY <1>1, <1>2, <1>4, BudgetAssumption DEF BudgetInv, PlaceInv, Running, Tasks
  <2>3. (\A u \in Tasks : role[u] = "calling" => look[u] # "none" /\ ~inExec)'
    BY <1>4 DEF BudgetInv, PlaceInv
  <2>4. (awaits => look["main"] # "none" /\ role["main"] # "calling")'
    BY <1>4 DEF BudgetInv, PlaceInv, Tasks
  <2> QED  BY <1>4, <2>1, <2>2, <2>3, <2>4 DEF PlaceInv
<1>6. LookInv'
  BY <1>4 DEF LookInv
<1>7. AccountInv'
  BY <1>1, BudgetAssumption DEF BudgetInv, TimeInv, AccountInv, Charged, Stopped, Paused
<1>8. Cardinality(inHost \cup {holder}) = Cardinality(inHost) + 1
  BY <1>2, CountUp
<1>9. depth' = Cardinality(inHost')
  BY <1>8 DEF BudgetInv, Balanced
<1> QED  BY <1>3, <1>5, <1>6, <1>7, <1>9, ClockKeeps

(* A host call ends: with the last one the clock starts at what it was     *)
(* stopped at, once the sum is stored.                                     *)
LEMMA ExitHostKeeps ==
  ASSUME NEW t \in Tasks, BudgetInv, ExitHost(t)
  PROVE  BudgetInv'
<1> USE DEF ExitHost, LastOut, Inert
<1>1. inHost \in SUBSET Tasks /\ t \in inHost /\ phase = "free" /\ t \in Running /\ t # "none"
  BY BudgetAssumption DEF BudgetInv, PlaceInv, Running, Tasks
<1>2. Cardinality(inHost \ {t}) = Cardinality(inHost) - 1 /\ Cardinality(inHost) >= 1
  BY <1>1, CountDown
<1>3. depth >= 1 /\ depth \in Nat
  BY <1>2 DEF BudgetInv, Balanced, TimeInv
<1>4. depth' = Cardinality(inHost')
  BY <1>2 DEF BudgetInv, Balanced
<1>5. holder = "none" /\ look[t] = "none"
  BY <1>1 DEF BudgetInv, TimeInv, PlaceInv
<1>6. CASE depth = 1
  <2>1. TimeInv'
    BY <1>1, <1>3, <1>6 DEF BudgetInv, TimeInv
  <2>2. /\ (look \in [Tasks -> {"none", "clear", "stale"}])'
        /\ \A u \in Tasks : look'[u] # "clear" /\ (look'[u] = "none" <=> look[u] = "none")
    BY <1>6, MovesLook
  <2>3. PlaceInv'
    <3>1. (holder \in Tasks \cup {"none"} /\ inHost \subseteq Running
           /\ (holder # "none" => holder \in Running \ inHost))'
      BY <1>1, <1>6 DEF BudgetInv, PlaceInv, Running
    <3>2. (\A u \in Tasks : look[u] # "none" => u \in Running \ inHost /\ u # holder)'
      BY <1>1, <1>5, <1>6, <2>2 DEF BudgetInv, PlaceInv, Running
    <3>3. (\A u \in Tasks : role[u] = "calling" => look[u] # "none" /\ ~inExec)'
      BY <2>2 DEF BudgetInv, PlaceInv
    <3>4. (awaits => look["main"] # "none" /\ role["main"] # "calling")'
      BY <2>2 DEF BudgetInv, PlaceInv, Tasks
    <3> QED  BY <2>2, <3>1, <3>2, <3>3, <3>4 DEF PlaceInv
  <2>4. LookInv'
    BY <2>2 DEF LookInv
  <2>5. AccountInv'
    BY <1>1, <1>6, BudgetAssumption DEF BudgetInv, TimeInv, AccountInv, Charged, Stopped, Paused
  <2> QED  BY <1>4, <2>1, <2>3, <2>4, <2>5, ClockKeeps
<1>7. CASE depth # 1
  <2>1. TimeInv'
    BY <1>1, <1>3, <1>7 DEF BudgetInv, TimeInv
  <2>2. PlaceInv'
    BY <1>1, <1>7 DEF BudgetInv, PlaceInv, Running
  <2>3. LookInv'
    BY <1>3, <1>7 DEF BudgetInv, LookInv
  <2>4. AccountInv'
    BY <1>1, <1>3, <1>7, BudgetAssumption DEF BudgetInv, TimeInv, AccountInv, Charged, Stopped, Paused
  <2> QED  BY <1>4, <2>1, <2>2, <2>3, <2>4, ClockKeeps
<1> QED  BY <1>6, <1>7

LEMMA AddsUpKeeps == BudgetInv /\ AddsUp => BudgetInv'
<1> SUFFICES ASSUME BudgetInv, AddsUp PROVE BudgetInv'
  OBVIOUS
<1> USE DEF AddsUp, Inert
<1>1. TimeInv'
  BY BudgetAssumption DEF BudgetInv, TimeInv
<1>2. /\ (look \in [Tasks -> {"none", "clear", "stale"}])'
      /\ \A u \in Tasks : look'[u] # "clear" /\ (look'[u] = "none" <=> look[u] = "none")
  BY MovesLook
<1>3. PlaceInv'
  BY <1>2 DEF BudgetInv, PlaceInv, Running, Tasks
<1>4. LookInv'
  BY <1>2 DEF LookInv
<1>5. AccountInv'
  BY BudgetAssumption DEF BudgetInv, TimeInv, AccountInv, Charged, Stopped, Paused
<1>6. depth' = Cardinality(inHost')
  BY DEF BudgetInv, Balanced
<1> QED  BY <1>1, <1>3, <1>4, <1>5, <1>6, ClockKeeps

LEMMA RefundsKeep == BudgetInv /\ Refunds => BudgetInv'
<1> SUFFICES ASSUME BudgetInv, Refunds PROVE BudgetInv'
  OBVIOUS
<1> USE DEF Refunds, Inert
<1>1. TimeInv'
  BY DEF BudgetInv, TimeInv
<1>2. /\ (look \in [Tasks -> {"none", "clear", "stale"}])'
      /\ \A u \in Tasks : look'[u] # "clear" /\ (look'[u] = "none" <=> look[u] = "none")
  BY MovesLook
<1>3. PlaceInv'
  BY <1>2, BudgetAssumption DEF BudgetInv, PlaceInv, Running, Tasks
<1>4. LookInv'
  BY <1>2 DEF LookInv
<1>5. AccountInv'
  BY BudgetAssumption DEF BudgetInv, TimeInv, AccountInv, Charged, Stopped, Paused
<1>6. depth' = Cardinality(inHost')
  BY DEF BudgetInv, Balanced
<1> QED  BY <1>1, <1>3, <1>4, <1>5, <1>6, ClockKeeps

(* Ctrl-C: the execution's thread is gone, and its lock with it.           *)
LEMMA InterruptKeeps == BudgetInv /\ Interrupt => BudgetInv'
<1> SUFFICES ASSUME BudgetInv, Interrupt PROVE BudgetInv'
  OBVIOUS
<1> USE DEF Interrupt
<1>1. "main" \in Tasks /\ role \in [Tasks -> Roles] /\ look \in [Tasks -> {"none", "clear", "stale"}]
  BY DEF BudgetInv, ShapeInv, PlaceInv, Tasks
<1>2. \A u \in Tasks : role'[u] = IF u = "main" THEN "off" ELSE role[u]
  BY <1>1
<1>3. \A u \in Tasks : look'[u] = IF u = "main" THEN "none" ELSE look[u]
  BY <1>1
<1>4. ShapeInv'
  <2>1. (flag \in BOOLEAN /\ inExec \in BOOLEAN)'
    BY DEF BudgetInv, ShapeInv
  <2>2. awaits' \in BOOLEAN
    BY Zenon
  <2>3. torn' \in BOOLEAN
    <3>1. torn \in BOOLEAN
      BY DEF BudgetInv, ShapeInv
    <3>2. torn' = TRUE \/ torn' = torn
      OBVIOUS
    <3> QED  BY <3>1, <3>2, Zenon
  <2>4. role' \in [Tasks -> Roles] /\ role'["main"] # "callback"
    BY <1>1 DEF Roles
  <2>5. stop' \in Reasons
    BY DEF Reasons
  <2> QED  BY <2>1, <2>2, <2>3, <2>4, <2>5 DEF BudgetInv, ShapeInv
<1>5. TimeInv'
  BY DEF BudgetInv, TimeInv
<1>6. PlaceInv'
  <2>1. (look \in [Tasks -> {"none", "clear", "stale"}])'
    BY <1>1
  <2>2. (holder \in Tasks \cup {"none"} /\ inHost \subseteq Running
         /\ (holder # "none" => holder \in Running \ inHost))'
    BY <1>1, <1>2 DEF BudgetInv, PlaceInv, Running
  <2>3. (\A u \in Tasks : look[u] # "none" => u \in Running \ inHost /\ u # holder)'
    BY <1>1, <1>2, <1>3, BudgetAssumption DEF BudgetInv, PlaceInv, Running, Tasks
  <2>4. (\A u \in Tasks : role[u] = "calling" => look[u] # "none" /\ ~inExec)'
    BY <1>2, <1>3 DEF BudgetInv, PlaceInv
  <2> QED  BY <2>1, <2>2, <2>3, <2>4 DEF PlaceInv
<1>7. LookInv'
  <2>1. (\A u \in Tasks : look[u] = "clear" => phase = "free")'
    BY <1>3 DEF BudgetInv, LookInv
  <2> QED  BY <1>2, <1>3, <2>1 DEF BudgetInv, LookInv
<1>8. BeganInv'
  BY DEF BudgetInv, BeganInv
<1>9. Balanced'
  <2>1. Callbacks' = Callbacks
    BY <1>1, <1>2 DEF Callbacks, BudgetInv, ShapeInv
  <2> QED  BY <2>1 DEF BudgetInv, Balanced, Callbacks
<1>10. AccountInv'
  <2>1. CASE holder = "main"
    BY <2>1 DEF AccountInv
  <2>2. CASE holder # "main"
    BY <2>2 DEF BudgetInv, AccountInv, Charged, Stopped, Paused
  <2> QED  BY <2>1, <2>2
<1> QED  BY <1>4, <1>5, <1>6, <1>7, <1>8, <1>9, <1>10 DEF BudgetInv

(* A checkpoint counts a tick, and stops its task or looks at the clock.   *)
LEMMA CheckpointKeeps ==
  ASSUME NEW t \in Tasks, NEW fits \in BOOLEAN, BudgetInv, Checkpoint(t, fits)
  PROVE  BudgetInv'
<1> USE DEF Checkpoint
<1>1. ticks' \in 0..MaxTicks
  BY BudgetAssumption DEF BudgetInv, ShapeInv
<1>2. t \in InCode /\ UNCHANGED <<now, flag, clock, awaits, ran, torn>>
  OBVIOUS
<1>3. CASE Ends(t) /\ stop' \in Reasons /\ UNCHANGED look
  BY <1>1, <1>2, <1>3, EndsInCode
<1>4. CASE UNCHANGED <<role, cbDepth, inExec, began, stop>>
           /\ (UNCHANGED look \/ (Looks(t) /\ depth = 0))
  <2>1. flag' \in BOOLEAN /\ awaits' \in BOOLEAN
    BY <1>2 DEF BudgetInv, ShapeInv
  <2>2. PlaceInv' /\ LookInv'
    <3>1. CASE UNCHANGED look
      BY <1>2, <1>4, <3>1 DEF BudgetInv, PlaceInv, LookInv, Running, clock
    <3>2. CASE Looks(t) /\ depth = 0
      <4>1. UNCHANGED <<inExec, clock, role, began>> /\ (awaits' => awaits \/ t = "main")
        BY <1>2, <1>4
      <4> QED  BY <1>2, <3>2, <4>1, LooksPlaced
    <3> QED  BY <1>4, <3>1, <3>2
  <2> QED  BY <1>1, <1>2, <1>4, <2>1, <2>2, LooksKeep
<1>5. ClockRuns => depth = 0
  BY DEF ClockRuns, Paused, BudgetInv, TimeInv
<1> QED  BY <1>3, <1>4, <1>5 DEF Reasons

LEMMA ComparesTimeKeeps ==
  ASSUME NEW t \in Tasks, NEW fits \in BOOLEAN, BudgetInv, ComparesTime(t, fits)
  PROVE  BudgetInv'
<1> USE DEF ComparesTime
<1>1. t \in Running \ inHost /\ t # holder /\ role[t] # "calling"
  BY DEF BudgetInv, PlaceInv
<1>2. awaits' \in BOOLEAN /\ (awaits' => awaits /\ t # "main")
  BY DEF BudgetInv, ShapeInv
<1>3. ticks' \in 0..MaxTicks
  BY DEF BudgetInv, ShapeInv
<1>4. /\ look' = [look EXCEPT ![t] = "none"]
      /\ UNCHANGED <<now, ticks, flag, clock, ran, torn>>
  OBVIOUS
<1>5. CASE Ends(t) /\ stop' \in Reasons
  BY <1>1, <1>2, <1>3, <1>4, <1>5, EndsKeeps
<1>6. CASE UNCHANGED <<role, cbDepth, inExec, began, stop>>
  BY <1>1, <1>2, <1>4, <1>6, LooksDone
<1> QED  BY <1>5, <1>6 DEF Reasons

LEMMA AwaitLooksKeeps == BudgetInv /\ AwaitLooks => BudgetInv'
<1> SUFFICES ASSUME BudgetInv, AwaitLooks PROVE BudgetInv'
  OBVIOUS
<1> USE DEF AwaitLooks
<1>1. "main" \in InCode /\ Looks("main") /\ UNCHANGED <<inExec, clock, role, began>>
  OBVIOUS
<1>2. depth = 0
  BY DEF ClockRuns, Paused, BudgetInv, TimeInv
<1>3. PlaceInv' /\ LookInv'
  BY <1>1, <1>2, LooksPlaced
<1>4. awaits' \in BOOLEAN
  BY Zenon
<1>5. ticks' \in 0..MaxTicks /\ flag' \in BOOLEAN
  BY DEF BudgetInv, ShapeInv
<1> QED  BY <1>3, <1>4, <1>5, LooksKeep

LEMMA AwaitRemainingKeeps == BudgetInv /\ AwaitRemaining => BudgetInv'
<1> SUFFICES ASSUME BudgetInv, AwaitRemaining PROVE BudgetInv'
  OBVIOUS
<1> USE DEF AwaitRemaining
<1>1. "main" \in Running \ inHost /\ "main" # holder /\ role["main"] # "calling"
      /\ "main" \in Tasks
  BY DEF BudgetInv, PlaceInv, Tasks
<1>2. awaits' \in BOOLEAN
  BY Zenon
<1>3. ~awaits'
  OBVIOUS
<1>4. /\ look' = [look EXCEPT !["main"] = "none"]
      /\ UNCHANGED <<now, ticks, flag, clock, ran, torn>>
  OBVIOUS
<1>5. ticks' \in 0..MaxTicks
  BY DEF BudgetInv, ShapeInv
<1>6. CASE Ends("main") /\ stop' = "timeout"
  <2>1. stop' \in Reasons
    BY <1>6 DEF Reasons
  <2> QED  BY <1>1, <1>2, <1>3, <1>4, <1>5, <1>6, <2>1, EndsKeeps
<1>7. CASE UNCHANGED <<role, cbDepth, inExec, began, stop>>
  BY <1>1, <1>2, <1>3, <1>4, <1>7, LooksDone
<1> QED  BY <1>6, <1>7

LEMMA InitEstablishes == Init => BudgetInv
<1> SUFFICES ASSUME Init PROVE BudgetInv
  OBVIOUS
<1> USE DEF Init
<1>1. ShapeInv
  <2>1. flag \in BOOLEAN /\ inExec \in BOOLEAN /\ awaits \in BOOLEAN /\ torn \in BOOLEAN
    OBVIOUS
  <2>2. role \in [Tasks -> Roles] /\ role["main"] # "callback"
    BY DEF Tasks, Roles
  <2> QED  BY <2>1, <2>2, BudgetAssumption DEF ShapeInv, Reasons
<1>2. TimeInv /\ BeganInv
  BY BudgetAssumption DEF TimeInv, BeganInv
<1>3. PlaceInv /\ LookInv
  BY DEF PlaceInv, LookInv, Running, Tasks
<1>4. Balanced
  <2>1. {t \in Tasks : role[t] = "callback"} = {}
    OBVIOUS
  <2> QED  BY <2>1, FS_EmptySet DEF Balanced
<1>5. AccountInv
  BY DEF AccountInv, Charged, Stopped, Paused
<1> QED  BY <1>1, <1>2, <1>3, <1>4, <1>5 DEF BudgetInv

LEMMA StepKeeps == BudgetInv /\ [Next]_vars => BudgetInv'
<1> SUFFICES ASSUME BudgetInv, [Next]_vars PROVE BudgetInv'
  OBVIOUS
<1>1. CASE Tick \/ Interrupt \/ AwaitLooks \/ AwaitRemaining
  BY <1>1, TickKeeps, InterruptKeeps, AwaitLooksKeeps, AwaitRemainingKeeps
<1>2. CASE StopsClock \/ AddsUp \/ Refunds
  BY <1>2, StopsClockKeeps, AddsUpKeeps, RefundsKeep
<1>3. CASE Cancel
  <2> USE <1>3 DEF Cancel
  <2>1. flag' \in BOOLEAN
    BY Zenon
  <2>2. ticks' \in 0..MaxTicks /\ awaits' \in BOOLEAN
    BY DEF BudgetInv, ShapeInv
  <2>3. PlaceInv' /\ LookInv'
    BY DEF BudgetInv, PlaceInv, LookInv, Running, clock
  <2> QED  BY <2>1, <2>2, <2>3, LooksKeep
<1>4. CASE \E t \in Tasks : Finish(t)
  <2>1. PICK t \in Tasks : Finish(t)
    BY <1>4
  <2>2. ticks' \in 0..MaxTicks /\ stop' \in Reasons
    BY <2>1 DEF Finish, BudgetInv, ShapeInv, Reasons
  <2> QED  BY <2>1, <2>2, EndsInCode DEF Finish
<1>5. CASE \E t \in Tasks : EnterHost(t) \/ ExitHost(t)
  BY <1>5, EnterHostKeeps, ExitHostKeeps
<1>6. CASE \E t \in Tasks : \E fits \in BOOLEAN : Checkpoint(t, fits) \/ ComparesTime(t, fits)
  BY <1>6, CheckpointKeeps, ComparesTimeKeeps
<1>7. CASE \E t \in Others : StartWork(t) \/ CallBack(t) \/ SetBudget(t)
  BY <1>7, StartWorkKeeps, CallBackKeeps, SetBudgetKeeps
<1>8. CASE UNCHANGED vars
  <2> USE <1>8 DEF vars
  <2>1. ticks' \in 0..MaxTicks /\ awaits' \in BOOLEAN /\ flag' \in BOOLEAN
    BY DEF BudgetInv, ShapeInv
  <2>2. PlaceInv' /\ LookInv'
    BY DEF BudgetInv, PlaceInv, LookInv, Running, clock
  <2> QED  BY <2>1, <2>2, LooksKeep
<1> QED  BY <1>1, <1>2, <1>3, <1>4, <1>5, <1>6, <1>7, <1>8 DEF Next

LEMMA BudgetInvHolds == Spec => []BudgetInv
BY InitEstablishes, StepKeeps, PTL DEF Spec

-----------------------------------------------------------------------------
(* The boxes, the clock and the counters of make_gates have their types:   *)
(* no more wrappers or host calls are counted than there are tasks.        *)
THEOREM TypeCorrect == Spec => []BudgetTypeOK
<1>1. BudgetInv => BudgetTypeOK
  <2> SUFFICES ASSUME BudgetInv PROVE BudgetTypeOK
    OBVIOUS
  <2>1. depth \in 0..Cardinality(Tasks)
    <3>1. inHost \in SUBSET Tasks
      BY DEF BudgetInv, PlaceInv, Running
    <3> QED  BY <3>1, TasksFinite DEF BudgetInv, TimeInv, Balanced
  <2>2. cbDepth \in 0..Cardinality(Others)
    <3>1. Callbacks \subseteq Others
      BY DEF Callbacks, Tasks, BudgetInv, ShapeInv
    <3>2. Cardinality(Callbacks) <= Cardinality(Others) /\ Cardinality(Others) \in Nat
      BY <3>1, FS_Subset, FS_CardinalityType, BudgetAssumption
    <3> QED  BY <3>2 DEF BudgetInv, ShapeInv, Balanced, Callbacks
  <2>3. now \in 0..MaxTime /\ start \in Int /\ entered \in 0..MaxTime /\ sum \in Int
        /\ phase \in {"free", "entering", "left", "read"} /\ ran \in 0..MaxTime
    BY DEF BudgetInv, TimeInv
  <2>4. holder \in Tasks \cup {"none"} /\ inHost \subseteq Running
        /\ look \in [Tasks -> {"none", "clear", "stale"}]
    BY DEF BudgetInv, PlaceInv
  <2>5. /\ ticks \in 0..MaxTicks /\ flag \in BOOLEAN /\ inExec \in BOOLEAN
        /\ awaits \in BOOLEAN /\ torn \in BOOLEAN
        /\ role \in [Tasks -> {"off", "main", "work", "calling", "callback"}]
        /\ stop \in {"nothing", "cancelled", "ticks", "timeout", "memory"}
    BY DEF BudgetInv, ShapeInv, Roles, Reasons
  <2>6. began \in [Tasks -> 0..MaxTime]
    BY DEF BudgetInv, BeganInv
  <2> QED  BY <2>1, <2>2, <2>3, <2>4, <2>5, <2>6 DEF BudgetTypeOK
<1> QED  BY <1>1, BudgetInvHolds, PTL

(* HostClock's refund is exact: while exec() runs the wall clock charges   *)
(* exactly the time no host call was out, and no callback later pays for   *)
(* more unless its budget is torn, however the host calls of any number of *)
(* tasks overlap and whatever comes between the steps of enter and exit.   *)
THEOREM RefundExactHolds == Spec => []RefundExact
<1>1. BudgetInv => RefundExact
  BY DEF BudgetInv, AccountInv, RefundExact
<1> QED  BY <1>1, BudgetInvHolds, PTL

(* Neither __st_checkpoint__ nor _within_timeout stops a task for time     *)
(* before the budget ran, unpaused, for the whole timeout, unless the      *)
(* clock moved between its look and its comparison or the budget is torn.  *)
THEOREM NoEarlyTimeoutHolds == Spec => NoEarlyTimeout
<1>1. BudgetInv /\ [Next]_vars
      => [\A t \in Tasks : TimesOut(t) => \/ ran >= Timeout
                                          \/ look[t] = "stale" \/ torn]_vars
  <2> SUFFICES ASSUME BudgetInv, Next, NEW t \in Tasks, TimesOut(t),
                      look[t] # "stale", ~torn
               PROVE  ran >= Timeout
    BY DEF vars
  <2>1. role'[t] # role[t] /\ role'[t] = "off" /\ stop' = "timeout"
        /\ role \in [Tasks -> Roles]
    BY DEF TimesOut, BudgetInv, ShapeInv
  <2>2. ASSUME look[t] # "none", role[t] # "calling", now - start >= Timeout
        PROVE  ran >= Timeout
    <3>1. look[t] = "clear"
      BY <2>2 DEF BudgetInv, PlaceInv
    <3>2. phase = "free" /\ depth = 0
      BY <2>2, <3>1 DEF BudgetInv, LookInv
    <3>3. now - start <= ran
      BY <3>2 DEF BudgetInv, AccountInv, Charged, Stopped, Paused
    <3> QED  BY <2>2, <3>3, BudgetAssumption DEF BudgetInv, TimeInv
  <2>3. CASE \E u \in Tasks : \E fits \in BOOLEAN : ComparesTime(u, fits)
    <3>1. PICK u \in Tasks : \E fits \in BOOLEAN : ComparesTime(u, fits)
      BY <2>3
    <3>2. u = t /\ now - start > Timeout
      BY <2>1, <3>1 DEF ComparesTime, Ends
    <3>3. now - start >= Timeout
      BY <3>2, BudgetAssumption DEF BudgetInv, TimeInv
    <3> QED  BY <2>2, <3>1, <3>2, <3>3 DEF ComparesTime
  <2>4. CASE AwaitRemaining
    <3>1. t = "main" /\ start + Timeout - now <= 0 /\ awaits
      BY <2>1, <2>4 DEF AwaitRemaining, Ends
    <3>2. look["main"] # "none" /\ role["main"] # "calling"
      BY <3>1 DEF BudgetInv, PlaceInv
    <3>3. now - start >= Timeout
      BY <3>1, BudgetAssumption DEF BudgetInv, TimeInv
    <3> QED  BY <2>2, <3>1, <3>2, <3>3
  <2>5. CASE \E u \in Tasks : Finish(u)
    BY <2>1, <2>5 DEF Finish
  <2>6. CASE \E u \in Tasks : \E fits \in BOOLEAN : Checkpoint(u, fits)
    BY <2>1, <2>6 DEF Checkpoint
  <2>7. CASE Interrupt
    BY <2>1, <2>7 DEF Interrupt
  <2>8. CASE Tick \/ Cancel \/ AwaitLooks
    BY <2>1, <2>8 DEF Tick, Cancel, AwaitLooks
  <2>9. CASE StopsClock \/ AddsUp \/ Refunds \/ \E u \in Tasks : (EnterHost(u) \/ ExitHost(u))
    BY <2>1, <2>9 DEF StopsClock, AddsUp, Refunds, EnterHost, ExitHost, Inert
  <2>10. CASE \E u \in Others : (StartWork(u) \/ CallBack(u) \/ SetBudget(u))
    BY <2>1, <2>10 DEF StartWork, CallBack, SetBudget, Tasks
  <2> QED  BY <2>3, <2>4, <2>5, <2>6, <2>7, <2>8, <2>9, <2>10 DEF Next
<1> QED  BY <1>1, BudgetInvHolds, PTL DEF Spec, NoEarlyTimeout

-----------------------------------------------------------------------------
(***************************************************************************)
(* The executions of one sandbox (module Executions), for any number of    *)
(* calls and any HOMES.  What they share stays apart when no two of them   *)
(* are set up at once, one after the other or as tasks of an event loop;   *)
(* on threads the code does not promise it, and it does not hold.          *)
(***************************************************************************)

(* While the flag is set, every call past its own reset of it was found by *)
(* cancel(): what makes OnlyAskedCancelled inductive, in every mode.       *)
AskedInv ==
    /\ pc \in [Execs -> Setup \cup Over \cup {"idle", "run"}]
    /\ result \in [Execs -> {"none", "ok", "error", "memory", "cancelled"}]
    /\ asked \in [Execs -> {"no", "setup", "run"}]
    /\ cancelFlag => \A e \in Execs :
          pc[e] \in (Setup \ {"clear"}) \cup {"run"} => asked[e] # "no"
    /\ OnlyAskedCancelled

(* The calls that may have been given a number.                            *)
Numbered == {e \in Execs : pc[e] \notin {"idle", "clear", "name"}}

(* Numbers are handed out once, and there are enough of them.              *)
NumberInv ==
    /\ count \in Nat /\ name = count /\ exitedAt \in 0..count
    /\ count <= Cardinality(Numbered)
    /\ modules \in [Names -> Execs \cup {"none"}]
    /\ pc \in [Execs -> Setup \cup Over \cup {"idle", "run"}]
    /\ result \in [Execs -> {"none", "ok", "error", "memory", "cancelled"}]
    /\ own \in [Execs -> Nat] /\ \A e \in Execs : own[e] <= count
    /\ \A e \in Execs : pc[e] \notin Over => result[e] = "none"

(* One call is set up at a time, under the newest number.                  *)
SetupInv ==
    /\ \A e, f \in Execs : pc[e] \in Setup /\ pc[f] \in Setup => e = f
    /\ \A e \in Execs :
        /\ pc[e] \in {"idle", "clear", "name", "make"} => own[e] = 0
        /\ pc[e] \in {"make", "check", "register", "keep"}
              => /\ 1 <= count /\ exitedAt < count
                 /\ \A i \in 1..Len(homes) : homes[i] < count
        /\ pc[e] = "make" => \A f \in Execs : own[f] < count
        /\ pc[e] = "check" => own[e] \in {0, count}
        /\ pc[e] \in {"register", "keep"} => own[e] = count
        /\ pc[e] = "keep" => modules[count] = e

(* No two modules have a name in common, and a name finds its module.      *)
OwnerInv ==
    /\ \A e, f \in Execs : own[e] # 0 /\ own[e] = own[f] => e = f
    /\ \A n \in Names : modules[n] # "none" => own[modules[n]] = n

(* The homes are in order and at least their distance in the deque apart,  *)
(* so the oldest of more than HOMES is not among the latest HOMES calls;   *)
(* and every registered module is one, or about to be.                     *)
HomesInv ==
    /\ homes \in Seq(Nat) /\ Len(homes) <= Homes
    /\ \A i \in 1..Len(homes) : exitedAt < homes[i] /\ homes[i] <= count
    /\ \A i, j \in 1..Len(homes) : i <= j => homes[j] - homes[i] >= j - i
    /\ \A n \in Names : modules[n] # "none"
          => \/ \E i \in 1..Len(homes) : homes[i] = n
             \/ pc[modules[n]] = "keep"

(* HomesKept's second half, from the moment a module is a home.            *)
KeptInv ==
    \A e \in Execs :
        (/\ own[e] # 0 /\ pc[e] \notin Setup \ {"provide"}
         /\ result[e] # "memory"
         /\ own[e] > count - Homes /\ own[e] > exitedAt)
            => modules[own[e]] = e

ExecutionsInv ==
    NumberInv /\ SetupInv /\ OwnerInv /\ HomesInv /\ KeptInv

-----------------------------------------------------------------------------
LEMMA AskedStep == AskedInv /\ [ExecutionsNext]_executionsVars => AskedInv'
<1> SUFFICES ASSUME AskedInv, [ExecutionsNext]_executionsVars PROVE AskedInv'
  OBVIOUS
<1>1. CASE UNCHANGED executionsVars
  BY <1>1 DEF AskedInv, executionsVars, OnlyAskedCancelled
<1>2. ASSUME NEW e \in Execs,
             \/ Begin(e) \/ Rejects(e) \/ NamesModule(e)
             \/ MakesModule(e) \/ ChecksName(e) \/ RegistersModule(e)
             \/ KeepsHome(e) \/ Provides(e) \/ Interrupted(e)
      PROVE  AskedInv'
  <2>1. /\ UNCHANGED <<cancelFlag, asked>>
        /\ \E l \in Setup \cup Over \cup {"idle", "run"} :
              /\ pc' = [pc EXCEPT ![e] = l]
              /\ l \in (Setup \ {"clear"}) \cup {"run"}
                    => pc[e] \in (Setup \ {"clear"}) \cup {"run"}
        /\ result' \in {result, [result EXCEPT ![e] = "error"]}
    BY <1>2 DEF AskedInv, Begin, Rejects, NamesModule, MakesModule,
                ChecksName, RegistersModule, KeepsHome, Provides,
                Interrupted, Goto, Setup, Over
  <2> QED  BY <2>1 DEF AskedInv, OnlyAskedCancelled
<1>3. ASSUME NEW e \in Execs, ClearsFlag(e)
      PROVE  AskedInv'
  BY <1>3 DEF AskedInv, ClearsFlag, Cleared, Goto, Setup, Over,
              OnlyAskedCancelled
<1>4. ASSUME NEW e \in Execs, CodeEnds(e)
      PROVE  AskedInv'
  BY <1>4 DEF AskedInv, CodeEnds, CallEnds, Goto, Setup, Over,
              OnlyAskedCancelled
<1>5. ASSUME NEW e \in Execs, CheckpointStops(e)
      PROVE  AskedInv'
  BY <1>5 DEF AskedInv, CheckpointStops, CallEnds, Goto, Setup, Over,
              OnlyAskedCancelled
<1>6. CASE SandboxCancel
  BY <1>6 DEF AskedInv, SandboxCancel, UnderWay, Setup, Over,
              OnlyAskedCancelled
<1>7. CASE Exit
  BY <1>7 DEF AskedInv, Exit, OnlyAskedCancelled
<1> QED  BY <1>1, <1>2, <1>3, <1>4, <1>5, <1>6, <1>7 DEF ExecutionsNext

(* A request to cancel made between calls stops no later one: only a call  *)
(* cancel() found under way is ever cancelled, whatever the host does with *)
(* its threads.                                                            *)
THEOREM OnlyAskedCancelledHolds == ExecutionsSpec => []OnlyAskedCancelled
<1>1. ExecutionsInit => AskedInv
  BY DEF ExecutionsInit, AskedInv, OnlyAskedCancelled
<1>2. AskedInv => OnlyAskedCancelled
  BY DEF AskedInv
<1> QED  BY <1>1, <1>2, AskedStep, PTL DEF ExecutionsSpec

-----------------------------------------------------------------------------
(* A sequence without its element k.                                       *)
LEMMA RemovedAt ==
  ASSUME NEW s \in Seq(Nat), NEW k \in 1..Len(s)
  PROVE  /\ RemoveAt(s, k) \in Seq(Nat)
         /\ Len(RemoveAt(s, k)) = Len(s) - 1
         /\ \A i \in 1..(Len(s) - 1) :
               RemoveAt(s, k)[i] = IF i < k THEN s[i] ELSE s[i + 1]
<1> DEFINE a == SubSeq(s, 1, k - 1)
           b == SubSeq(s, k + 1, Len(s))
<1>1. a \in Seq(Nat) /\ Len(a) = k - 1 /\ \A i \in 1..(k - 1) : a[i] = s[i]
  OBVIOUS
<1>2. b \in Seq(Nat) /\ Len(b) = Len(s) - k
      /\ \A i \in 1..(Len(s) - k) : b[i] = s[i + k]
  OBVIOUS
<1>3. RemoveAt(s, k) = a \o b
  BY DEF RemoveAt
<1> HIDE DEF a, b
<1>4. /\ a \o b \in Seq(Nat) /\ Len(a \o b) = Len(a) + Len(b)
      /\ \A i \in 1..(Len(a) + Len(b)) :
            (a \o b)[i] = IF i <= Len(a) THEN a[i] ELSE b[i - Len(a)]
  BY <1>1, <1>2, ConcatProperties
<1>5. ASSUME NEW i \in 1..(Len(s) - 1)
      PROVE  (a \o b)[i] = IF i < k THEN s[i] ELSE s[i + 1]
  <2>0. /\ Len(s) \in Nat /\ k \in Nat /\ i \in Nat /\ 1 <= i /\ i <= Len(s) - 1
        /\ i \in 1..(Len(a) + Len(b))
    BY <1>1, <1>2
  <2>4. (a \o b)[i] = IF i <= k - 1 THEN a[i] ELSE b[i - (k - 1)]
    BY <2>0, <1>1, <1>4
  <2>1. CASE i < k
    <3>1. (a \o b)[i] = a[i] /\ i \in 1..(k - 1)
      BY <2>0, <2>1, <2>4
    <3> QED  BY <3>1, <2>1, <1>1
  <2>2. CASE i >= k
    <3>1. (a \o b)[i] = b[i - (k - 1)] /\ i - (k - 1) \in 1..(Len(s) - k)
      BY <2>0, <2>2, <2>4
    <3>2. b[i - (k - 1)] = s[(i - (k - 1)) + k]
      BY <3>1, <1>2
    <3>3. (i - (k - 1)) + k = i + 1 /\ ~(i < k)
      BY <2>0, <2>2
    <3> QED  BY <3>1, <3>2, <3>3
  <2> QED  BY <2>0, <2>1, <2>2
<1> QED  BY <1>1, <1>2, <1>3, <1>4, <1>5

(* A deque one too long loses its oldest, and sys.modules that module.     *)
LEMMA TrimmedHomes ==
  ASSUME NEW hs \in Seq(Nat), Len(hs) <= Homes + 1,
         NEW ms \in [Names -> Execs \cup {"none"}]
  PROVE  /\ Len(hs) <= Homes => Trimmed(hs, ms) = <<hs, ms>>
         /\ Len(hs) = Homes + 1
            => /\ Trimmed(hs, ms)[1] = Tail(hs)
               /\ Trimmed(hs, ms)[2]
                    = [n \in Names |-> IF n = hs[1] THEN "none" ELSE ms[n]]
<1> USE ExecutionsAssumption
<1> DEFINE over == SubSeq(hs, 1, Len(hs) - Homes)
<1> HIDE DEF over
<1>0. Trimmed(hs, ms) = <<SubSeq(hs, Len(over) + 1, Len(hs)),
          [n \in Names |-> IF n \in Range(over) THEN "none" ELSE ms[n]]>>
  BY DEF Trimmed, over
<1>1. ASSUME Len(hs) <= Homes
      PROVE  Trimmed(hs, ms) = <<hs, ms>>
  <2>1. over = <<>>
    BY <1>1, SubSeqEmpty DEF over
  <2>2. Len(over) = 0 /\ Range(over) = {}
    BY <2>1 DEF Range
  <2>3. SubSeq(hs, 1, Len(hs)) = hs
    BY SubSeqFull
  <2>4. SubSeq(hs, Len(over) + 1, Len(hs)) = hs
    BY <2>2, <2>3
  <2>5. [n \in Names |-> IF n \in Range(over) THEN "none" ELSE ms[n]] = ms
    BY <2>2
  <2> QED  BY <1>0, <2>4, <2>5
<1>2. ASSUME Len(hs) = Homes + 1
      PROVE  /\ Trimmed(hs, ms)[1] = Tail(hs)
             /\ Trimmed(hs, ms)[2]
                    = [n \in Names |-> IF n = hs[1] THEN "none" ELSE ms[n]]
  <2>1. Len(over) = 1 /\ over[1] = hs[1] /\ DOMAIN over = {1}
    BY <1>2 DEF over
  <2>2. Range(over) = {hs[1]}
    BY <2>1 DEF Range
  <2>3. SubSeq(hs, 2, Len(hs)) = Tail(hs)
    BY <1>2, TailIsSubSeq
  <2>4. Trimmed(hs, ms)[1] = Tail(hs)
    BY <1>0, <2>1, <2>3
  <2>5. Trimmed(hs, ms)[2]
          = [n \in Names |-> IF n \in Range(over) THEN "none" ELSE ms[n]]
    BY <1>0
  <2> QED  BY <2>2, <2>4, <2>5
<1> QED  BY <1>1, <1>2

-----------------------------------------------------------------------------
LEMMA NumberedSize ==
         /\ Cardinality(Execs) \in Nat /\ Names = 1..Cardinality(Execs)
         /\ \A S \in SUBSET Execs : /\ IsFiniteSet(S) /\ Cardinality(S) \in Nat
                                    /\ Cardinality(S) <= Cardinality(Execs)
<1>1. IsFiniteSet(Execs)
  BY ExecutionsAssumption
<1>2. Cardinality(Execs) \in Nat
  BY <1>1, FS_CardinalityType
<1>3. Names = 1..Cardinality(Execs)
  BY DEF Names
<1>4. \A S \in SUBSET Execs : IsFiniteSet(S) /\ Cardinality(S) <= Cardinality(Execs)
  BY <1>1, FS_Subset
<1> QED  BY <1>2, <1>3, <1>4, FS_CardinalityType

(* A call that moves on keeps its number.                                  *)
LEMMA NumberedKept ==
  ASSUME NEW e \in Execs, NEW l,
         pc \in [Execs -> Setup \cup Over \cup {"idle", "run"}],
         pc' = [pc EXCEPT ![e] = l],
         l \in {"idle", "clear", "name"} => pc[e] \in {"idle", "clear", "name"}
  PROVE  Cardinality(Numbered) <= Cardinality(Numbered')
<1>1. Numbered \subseteq Numbered' /\ Numbered' \subseteq Execs
  BY DEF Numbered
<1>2. IsFiniteSet(Numbered')
  BY <1>1, NumberedSize
<1> QED  BY <1>1, <1>2, FS_Subset

LEMMA NumbersAreNames ==
  ASSUME NumberInv, NEW n \in Nat, 1 <= n, n <= count
  PROVE  n \in Names
<1>1. Cardinality(Numbered) \in Nat /\ Cardinality(Numbered) <= Cardinality(Execs)
  BY NumberedSize DEF Numbered
<1>2. count \in Nat /\ count <= Cardinality(Numbered)
  BY DEF NumberInv
<1>3. n <= Cardinality(Execs) /\ Cardinality(Execs) \in Nat
  BY <1>1, <1>2, NumberedSize
<1> QED  BY <1>3, NumberedSize

LEMMA HomeNumber ==
  ASSUME HomesInv, NumberInv, NEW i \in 1..Len(homes)
  PROVE  homes[i] \in Nat /\ exitedAt < homes[i] /\ homes[i] <= count
BY ElementOfSeq DEF HomesInv

LEMMA HomesApart ==
  ASSUME HomesInv, NumberInv, NEW i \in 1..Len(homes), NEW j \in 1..Len(homes), i <= j
  PROVE  homes[j] - homes[i] >= j - i
BY DEF HomesInv

(* A step of a call that changes nothing shared, nor what it is called.    *)
LEMMA QuietStep ==
  ASSUME Mode # "threads", ExecutionsInv, NEW e \in Execs, NEW l,
         l \in Setup \cup Over \cup {"idle", "run"},
         pc' = [pc EXCEPT ![e] = l],
         UNCHANGED <<name, count, homes, modules, own, exitedAt>>,
         \/ result' = result
         \/ l \in Over /\ \E r \in {"ok", "error", "memory", "cancelled"} :
                               result' = [result EXCEPT ![e] = r],
         \/ pc[e] = "idle" /\ l = "clear"
            /\ \A f \in Execs : pc[f] \notin Setup
         \/ pc[e] = "clear" /\ l \in {"name", "done"}
         \/ pc[e] = "check" /\ l = "register" /\ own[e] = name
         \/ pc[e] = "check" /\ l = "provide" /\ own[e] # name
         \/ pc[e] = "provide" /\ l = "run"
         \/ pc[e] = "run" /\ l \in Over
  PROVE  ExecutionsInv'
<1> USE DEF ExecutionsInv
<1>1. NumberInv'
  <2>1. Cardinality(Numbered) <= Cardinality(Numbered')
    BY NumberedKept DEF NumberInv, Setup, Over
  <2>2. Cardinality(Numbered) \in Nat /\ Cardinality(Numbered') \in Nat
    BY NumberedSize DEF Numbered
  <2>3. pc' \in [Execs -> Setup \cup Over \cup {"idle", "run"}]
    BY DEF NumberInv
  <2>4. result' \in [Execs -> {"none", "ok", "error", "memory", "cancelled"}]
    BY DEF NumberInv
  <2>5. count' <= Cardinality(Numbered')
    BY <2>1, <2>2 DEF NumberInv
  <2>6. \A f \in Execs : pc'[f] \notin Over => result'[f] = "none"
    BY DEF NumberInv, Over, Setup
  <2> QED  BY <2>3, <2>4, <2>5, <2>6 DEF NumberInv, Names
<1>2. SetupInv'
  BY DEF SetupInv, NumberInv, Setup, Over
<1>3. OwnerInv'
  BY DEF OwnerInv, Names
<1>4. HomesInv'
  BY DEF HomesInv, NumberInv, Names, Setup, Over
<1>5. KeptInv'
  BY DEF KeptInv, SetupInv, NumberInv, Setup, Over
<1> QED  BY <1>1, <1>2, <1>3, <1>4, <1>5

-----------------------------------------------------------------------------
LEMMA NamesModuleStep ==
  ASSUME Mode # "threads", ExecutionsInv, NEW e \in Execs,
         NamesModule(e)
  PROVE  ExecutionsInv'
<1> USE DEF ExecutionsInv, NamesModule, NextNumber, Goto
<1>1. NumberInv'
  <2>1. Numbered' = Numbered \cup {e} /\ e \notin Numbered
    BY DEF Numbered, NumberInv
  <2>2. IsFiniteSet(Numbered) /\ Cardinality(Numbered) \in Nat
    BY NumberedSize DEF Numbered
  <2>3. Cardinality(Numbered') = Cardinality(Numbered) + 1
    BY <2>1, <2>2, FS_AddElement
  <2>4. count' <= Cardinality(Numbered')
    BY <2>2, <2>3 DEF NumberInv
  <2> QED  BY <2>4 DEF NumberInv, Setup, Names, Over
<1>2. SetupInv'
  BY DEF SetupInv, NumberInv, HomesInv, Setup, Over
<1>3. OwnerInv'
  BY DEF OwnerInv, Names
<1>4. HomesInv'
  BY SMTT(30) DEF HomesInv, NumberInv, Names
<1>5. KeptInv'
  BY ExecutionsAssumption DEF KeptInv, NumberInv, SetupInv, Setup
<1> QED  BY <1>1, <1>2, <1>3, <1>4, <1>5

LEMMA MakesModuleStep ==
  ASSUME Mode # "threads", ExecutionsInv, NEW e \in Execs,
         MakesModule(e)
  PROVE  ExecutionsInv'
<1> USE DEF ExecutionsInv, MakesModule, Goto
<1>1. NumberInv'
  <2>1. Cardinality(Numbered) <= Cardinality(Numbered')
    BY NumberedKept DEF NumberInv
  <2>2. Cardinality(Numbered) \in Nat /\ Cardinality(Numbered') \in Nat
    BY NumberedSize DEF Numbered
  <2>3. count' <= Cardinality(Numbered')
    BY <2>1, <2>2 DEF NumberInv
  <2> QED  BY <2>3 DEF NumberInv, Setup, Names, Over
<1>2. SetupInv'
  BY DEF SetupInv, NumberInv, Setup, Over
<1>3. OwnerInv'
  <2>1. PICK n \in {count, 0} : own' = [own EXCEPT ![e] = n]
    BY DEF NumberInv
  <2>2. /\ own \in [Execs -> Nat] /\ count \in Nat /\ own[e] = 0
        /\ \A f \in Execs : own[f] < count
    BY DEF NumberInv, SetupInv
  <2>3. \A f, g \in Execs : own'[f] # 0 /\ own'[f] = own'[g] => f = g
    BY <2>1, <2>2 DEF OwnerInv
  <2>4. \A m \in Names : modules[m] # "none" => modules[m] \in Execs /\ m # 0
    BY NumberedSize DEF NumberInv
  <2>5. \A m \in Names : modules[m] # "none" => own'[modules[m]] = m
    BY <2>1, <2>2, <2>4 DEF OwnerInv
  <2> QED  BY <2>3, <2>5 DEF OwnerInv, Names
<1>4. HomesInv'
  BY DEF HomesInv, NumberInv, Names, Setup
<1>5. KeptInv'
  BY DEF KeptInv, NumberInv, SetupInv, Setup
<1> QED  BY <1>1, <1>2, <1>3, <1>4, <1>5

LEMMA RegistersModuleStep ==
  ASSUME Mode # "threads", ExecutionsInv, NEW e \in Execs,
         RegistersModule(e)
  PROVE  ExecutionsInv'
<1> USE DEF ExecutionsInv, RegistersModule, Goto
<1>0. name = count /\ count \in Names /\ own[e] = count
  <2>1. name = count /\ own[e] = count /\ count \in Nat /\ 1 <= count
    BY DEF NumberInv, SetupInv
  <2> QED  BY <2>1, NumbersAreNames
<1>1. NumberInv'
  <2>1. Cardinality(Numbered) <= Cardinality(Numbered')
    BY NumberedKept DEF NumberInv
  <2>2. Cardinality(Numbered) \in Nat /\ Cardinality(Numbered') \in Nat
    BY NumberedSize DEF Numbered
  <2>3. count' <= Cardinality(Numbered')
    BY <2>1, <2>2 DEF NumberInv
  <2>4. modules' \in [Names -> Execs \cup {"none"}]
    BY <1>0 DEF NumberInv
  <2>5. pc' \in [Execs -> Setup \cup Over \cup {"idle", "run"}]
    BY DEF NumberInv, Setup
  <2>6. \A f \in Execs : pc'[f] \notin Over => result[f] = "none"
    BY DEF NumberInv, Over
  <2> QED  BY <2>3, <2>4, <2>5, <2>6 DEF NumberInv, Names
<1>2. SetupInv'
  BY <1>0 DEF SetupInv, NumberInv, Setup, Over
<1>3. OwnerInv'
  BY <1>0 DEF OwnerInv, NumberInv, Names
<1>4. HomesInv'
  BY <1>0, ExecutionsAssumption DEF HomesInv, NumberInv, SetupInv, Names, Setup
<1>5. KeptInv'
  BY <1>0 DEF KeptInv, NumberInv, SetupInv, OwnerInv, Setup
<1> QED  BY <1>1, <1>2, <1>3, <1>4, <1>5

(* What keeping a home makes of the homes and of what is registered.       *)
LEMMA KeptHomes ==
  ASSUME ExecutionsInv, NEW e \in Execs, KeepsHome(e)
  PROVE  /\ homes' \in Seq(Nat)
         /\ Len(homes) < Homes
            => /\ Len(homes') = Len(homes) + 1 /\ homes'[Len(homes) + 1] = count
               /\ \A i \in 1..Len(homes) : homes'[i] = homes[i]
               /\ modules' = modules
         /\ Len(homes) = Homes
            => /\ Len(homes') = Homes /\ homes'[Homes] = count
               /\ \A i \in 1..(Homes - 1) : homes'[i] = homes[i + 1]
               /\ modules' = [n \in Names |->
                                IF n = homes[1] THEN "none" ELSE modules[n]]
<1> DEFINE hs == Append(homes, count)
<1>1. homes \in Seq(Nat) /\ count \in Nat /\ name = count /\ Homes \in Nat
      /\ Homes >= 1 /\ Len(homes) <= Homes
      /\ modules \in [Names -> Execs \cup {"none"}]
  BY ExecutionsAssumption DEF ExecutionsInv, NumberInv, HomesInv
<1>2. /\ hs \in Seq(Nat) /\ Len(hs) = Len(homes) + 1 /\ hs[Len(homes) + 1] = count
      /\ \A i \in 1..Len(homes) : hs[i] = homes[i]
  BY <1>1, AppendProperties
<1>3. /\ homes' = Trimmed(hs, modules)[1]
      /\ modules' = Trimmed(hs, modules)[2]
  BY <1>1 DEF KeepsHome
<1> HIDE DEF hs
<1>4. ASSUME Len(homes) < Homes
      PROVE  homes' = hs /\ modules' = modules
  <2>1. Len(hs) <= Homes
    BY <1>1, <1>2, <1>4
  <2>2. Trimmed(hs, modules) = <<hs, modules>>
    <3>1. hs \in Seq(Nat) /\ Len(hs) <= Homes + 1
      BY <1>1, <1>2
    <3> QED  BY <1>1, <3>1, <2>1, TrimmedHomes
  <2> QED  BY <2>2, <1>3
<1>5. ASSUME Len(homes) = Homes
      PROVE  /\ homes' = Tail(hs)
             /\ modules' = [n \in Names |->
                                IF n = homes[1] THEN "none" ELSE modules[n]]
  <2>1. Len(hs) = Homes + 1 /\ hs[1] = homes[1]
    BY <1>1, <1>2, <1>5
  <2>2. hs \in Seq(Nat) /\ Len(hs) <= Homes + 1
    BY <1>1, <1>2, <2>1
  <2>3. /\ Trimmed(hs, modules)[1] = Tail(hs)
        /\ Trimmed(hs, modules)[2]
             = [n \in Names |-> IF n = hs[1] THEN "none" ELSE modules[n]]
    BY <1>1, <2>1, <2>2, TrimmedHomes
  <2> QED  BY <1>3, <2>1, <2>3
<1>6. ASSUME Len(homes) = Homes
      PROVE  /\ Tail(hs) \in Seq(Nat) /\ Len(Tail(hs)) = Homes
             /\ Tail(hs)[Homes] = count
             /\ \A i \in 1..(Homes - 1) : Tail(hs)[i] = homes[i + 1]
  <2>1. hs # <<>>
    BY <1>1, <1>2
  <2>2. /\ Tail(hs) \in Seq(Nat) /\ Len(Tail(hs)) = Len(hs) - 1
        /\ \A i \in 1..Len(Tail(hs)) : Tail(hs)[i] = hs[i + 1]
    BY <1>2, <2>1, HeadTailProperties
  <2>3. Len(Tail(hs)) = Homes
    BY <1>1, <1>2, <1>6, <2>2
  <2>4. Tail(hs)[Homes] = hs[Homes + 1]
    BY <1>1, <2>2, <2>3
  <2>5. \A i \in 1..(Homes - 1) : Tail(hs)[i] = hs[i + 1] /\ i + 1 \in 1..Len(homes)
    BY <1>1, <1>6, <2>2, <2>3
  <2> QED  BY <2>2, <2>3, <2>4, <2>5, <1>2, <1>6
<1>7. CASE Len(homes) < Homes
  BY <1>1, <1>2, <1>4, <1>7
<1>8. CASE Len(homes) = Homes
  <2>1. homes' = Tail(hs)
    BY <1>5, <1>8
  <2>2. /\ homes' \in Seq(Nat) /\ Len(homes') = Homes /\ homes'[Homes] = count
        /\ \A i \in 1..(Homes - 1) : homes'[i] = homes[i + 1]
    BY <2>1, <1>6, <1>8
  <2> QED  BY <2>2, <1>1, <1>5, <1>8
<1> QED  BY <1>1, <1>7, <1>8

LEMMA KeepsHomeStep ==
  ASSUME Mode # "threads", ExecutionsInv, NEW e \in Execs,
         KeepsHome(e)
  PROVE  ExecutionsInv'
<1> USE DEF ExecutionsInv
<1>0. /\ pc[e] = "keep" /\ pc' = [pc EXCEPT ![e] = "provide"]
      /\ UNCHANGED <<name, count, own, result, exitedAt>>
      /\ own[e] = count /\ modules[count] = e /\ count \in Nat /\ count >= 1
      /\ exitedAt < count
      /\ \A i \in 1..Len(homes) : homes[i] < count
      /\ Homes \in Nat /\ Homes >= 1 /\ Len(homes) \in Nat /\ Len(homes) <= Homes
      /\ homes \in Seq(Nat)
  BY ExecutionsAssumption DEF KeepsHome, Goto, SetupInv, NumberInv, HomesInv
<1>1. count \in Names
  BY <1>0, NumbersAreNames
<1>2. /\ modules' \in [Names -> Execs \cup {"none"}]
      /\ \A n \in Names : modules'[n] # "none" => modules'[n] = modules[n]
  BY <1>0, KeptHomes DEF NumberInv
<1>3. modules'[count] = e
  <2>1. CASE Len(homes) < Homes
    BY <1>0, <2>1, KeptHomes
  <2>2. CASE Len(homes) = Homes
    <3>1. 1 \in 1..Len(homes)
      BY <1>0, <2>2
    <3>2. homes[1] # count
      BY <1>0, <3>1, HomeNumber
    <3> QED  BY <1>0, <1>1, <2>2, <3>2, KeptHomes
  <2> QED  BY <1>0, <2>1, <2>2
<1>4. NumberInv'
  <2>1. Cardinality(Numbered) <= Cardinality(Numbered')
    BY <1>0, NumberedKept DEF NumberInv
  <2>2. Cardinality(Numbered) \in Nat /\ Cardinality(Numbered') \in Nat
    BY NumberedSize DEF Numbered
  <2>3. count' <= Cardinality(Numbered')
    BY <1>0, <2>1, <2>2 DEF NumberInv
  <2>5. pc' \in [Execs -> Setup \cup Over \cup {"idle", "run"}]
    BY <1>0 DEF NumberInv, Setup
  <2>6. \A f \in Execs : pc'[f] \notin Over => result[f] = "none"
    BY <1>0 DEF NumberInv, Over
  <2> QED  BY <1>0, <1>2, <2>3, <2>5, <2>6 DEF NumberInv, Names
<1>5. SetupInv'
  BY <1>0 DEF SetupInv, NumberInv, Setup, Over
<1>6. OwnerInv'
  BY <1>0, <1>2 DEF OwnerInv, Names
<1>7. HomesInv'
  <2>1. homes' \in Seq(Nat) /\ Len(homes') <= Homes
    BY <1>0, KeptHomes
  <2>2. CASE Len(homes) < Homes
    <3>1. /\ Len(homes') = Len(homes) + 1 /\ homes'[Len(homes) + 1] = count
          /\ \A i \in 1..Len(homes) : homes'[i] = homes[i]
          /\ modules' = modules
      BY <2>2, KeptHomes
    <3>2. \A i \in 1..Len(homes') : exitedAt < homes'[i] /\ homes'[i] <= count
      <4> SUFFICES ASSUME NEW i \in 1..Len(homes')
                   PROVE  exitedAt < homes'[i] /\ homes'[i] <= count
        OBVIOUS
      <4>1. CASE i \in 1..Len(homes)
        BY <3>1, <4>1, HomeNumber
      <4>2. CASE i = Len(homes) + 1
        BY <1>0, <3>1, <4>2
      <4> QED  BY <1>0, <3>1, <4>1, <4>2
    <3>3. ASSUME NEW i \in 1..Len(homes'), NEW j \in 1..Len(homes'), i <= j
          PROVE  homes'[j] - homes'[i] >= j - i
      <4>1. CASE j \in 1..Len(homes)
        <5>1. i \in 1..Len(homes)
          BY <1>0, <3>1, <3>3, <4>1
        <5> QED  BY <3>1, <3>3, <4>1, <5>1, HomesApart
      <4>2. CASE j = Len(homes) + 1 /\ i \in 1..Len(homes)
        <5>1. Len(homes) \in 1..Len(homes) /\ i <= Len(homes)
          BY <1>0, <4>2
        <5>2. /\ homes[Len(homes)] - homes[i] >= Len(homes) - i
              /\ homes[Len(homes)] < count
          BY <1>0, <4>2, <5>1 DEF HomesInv
        <5>3. homes[Len(homes)] \in Nat /\ homes[i] \in Nat
          BY <1>0, <4>2, <5>1, ElementOfSeq
        <5>4. homes'[j] = count /\ homes'[i] = homes[i] /\ i \in Nat
          BY <1>0, <3>1, <4>2
        <5> QED  BY <1>0, <4>2, <5>2, <5>3, <5>4, SMTT(30)
      <4>3. CASE j = Len(homes) + 1 /\ i = j
        BY <1>0, <3>1, <4>3
      <4> QED  BY <1>0, <3>1, <3>3, <4>1, <4>2, <4>3
    <3>4. ASSUME NEW n \in Names, modules'[n] # "none"
          PROVE  \E i \in 1..Len(homes') : homes'[i] = n
      <4>1. CASE \E i \in 1..Len(homes) : homes[i] = n
        BY <1>0, <3>1, <4>1
      <4>2. CASE pc[modules[n]] = "keep"
        <5>1. modules[n] = e
          BY <1>0, <3>1, <3>4, <4>2 DEF SetupInv, NumberInv, Setup
        <5>2. n = count
          BY <1>0, <3>1, <3>4, <5>1 DEF OwnerInv
        <5> QED  BY <1>0, <3>1, <5>2
      <4> QED  BY <3>1, <3>4, <4>1, <4>2 DEF HomesInv
    <3> QED  BY <1>0, <2>1, <3>2, <3>3, <3>4 DEF HomesInv, Names
  <2>3. CASE Len(homes) = Homes
    <3>1. /\ Len(homes') = Homes /\ homes'[Homes] = count
          /\ \A i \in 1..(Homes - 1) : homes'[i] = homes[i + 1]
          /\ modules' = [n \in Names |->
                           IF n = homes[1] THEN "none" ELSE modules[n]]
      BY <2>3, KeptHomes
    <3>2. \A i \in 1..Len(homes') : exitedAt < homes'[i] /\ homes'[i] <= count
      <4> SUFFICES ASSUME NEW i \in 1..Len(homes')
                   PROVE  exitedAt < homes'[i] /\ homes'[i] <= count
        OBVIOUS
      <4>1. CASE i \in 1..(Homes - 1)
        <5>1. i + 1 \in 1..Len(homes)
          BY <1>0, <2>3, <4>1
        <5> QED  BY <3>1, <4>1, <5>1, HomeNumber
      <4>2. CASE i = Homes
        BY <1>0, <3>1, <4>2
      <4> QED  BY <1>0, <3>1, <4>1, <4>2
    <3>3. ASSUME NEW i \in 1..Len(homes'), NEW j \in 1..Len(homes'), i <= j
          PROVE  homes'[j] - homes'[i] >= j - i
      <4>1. CASE j \in 1..(Homes - 1)
        <5>1. /\ homes'[j] = homes[j + 1] /\ homes'[i] = homes[i + 1]
              /\ j + 1 \in 1..Len(homes) /\ i + 1 \in 1..Len(homes)
              /\ i + 1 <= j + 1
          BY <1>0, <2>3, <3>1, <3>3, <4>1
        <5>2. homes[j + 1] - homes[i + 1] >= (j + 1) - (i + 1)
          BY <5>1 DEF HomesInv
        <5> QED  BY <5>1, <5>2
      <4>2. CASE j = Homes /\ i \in 1..(Homes - 1)
        <5>1. Homes \in 1..Len(homes) /\ i + 1 \in 1..Len(homes) /\ i + 1 <= Homes
          BY <1>0, <2>3, <4>2
        <5>2. homes[Homes] - homes[i + 1] >= Homes - (i + 1) /\ homes[Homes] < count
          BY <1>0, <5>1 DEF HomesInv
        <5>3. homes[Homes] \in Nat /\ homes[i + 1] \in Nat
          BY <1>0, <5>1, ElementOfSeq
        <5>4. homes'[j] = count /\ homes'[i] = homes[i + 1] /\ i \in Nat
          BY <1>0, <3>1, <4>2
        <5> QED  BY <1>0, <4>2, <5>2, <5>3, <5>4, SMTT(30)
      <4>3. CASE j = Homes /\ i = j
        BY <1>0, <3>1, <4>3
      <4> QED  BY <1>0, <3>1, <3>3, <4>1, <4>2, <4>3
    <3>4. ASSUME NEW n \in Names, modules'[n] # "none"
          PROVE  \E i \in 1..Len(homes') : homes'[i] = n
      <4>0. n # homes[1] /\ modules'[n] = modules[n]
        BY <3>1, <3>4
      <4>1. ASSUME NEW i \in 1..Len(homes), homes[i] = n
            PROVE  \E k \in 1..Len(homes') : homes'[k] = n
        <5>1. i - 1 \in 1..(Homes - 1) /\ (i - 1) + 1 = i
          BY <1>0, <2>3, <4>0, <4>1
        <5>2. homes'[i - 1] = n
          BY <3>1, <4>1, <5>1
        <5> QED  BY <1>0, <3>1, <5>1, <5>2
      <4>2. CASE pc[modules[n]] = "keep"
        <5>1. modules[n] = e
          BY <1>0, <4>0, <3>4, <4>2 DEF SetupInv, NumberInv, Setup
        <5>2. n = count
          BY <1>0, <4>0, <3>4, <5>1 DEF OwnerInv
        <5> QED  BY <1>0, <3>1, <5>2
      <4> QED  BY <4>0, <3>4, <4>1, <4>2 DEF HomesInv
    <3> QED  BY <1>0, <2>1, <3>2, <3>3, <3>4 DEF HomesInv, Names
  <2> QED  BY <1>0, <2>2, <2>3
<1>8. KeptInv'
  <2> SUFFICES ASSUME NEW f \in Execs,
                      own[f] # 0, pc'[f] \notin Setup \ {"provide"},
                      result[f] # "memory", own[f] > count - Homes,
                      own[f] > exitedAt
               PROVE  modules'[own[f]] = f
    BY <1>0 DEF KeptInv
  <2>1. CASE f = e
    BY <1>0, <1>3, <2>1
  <2>2. CASE f # e
    <3>1. modules[own[f]] = f
      BY <1>0, <2>2 DEF KeptInv, NumberInv
    <3>2. own[f] \in Names
      <4>1. own[f] \in Nat /\ 1 <= own[f] /\ own[f] <= count
        BY DEF NumberInv
      <4> QED  BY <4>1, NumbersAreNames
    <3>3. CASE Len(homes) < Homes
      BY <3>1, <3>3, KeptHomes
    <3>4. CASE Len(homes) = Homes
      <4>1. 1 \in 1..Len(homes) /\ Homes \in 1..Len(homes) /\ 1 <= Homes
        BY <1>0, <3>4
      <4>2. homes[Homes] - homes[1] >= Homes - 1 /\ homes[Homes] < count
        BY <1>0, <4>1 DEF HomesInv
      <4>3. homes[1] \in Nat /\ homes[Homes] \in Nat /\ own[f] \in Nat
        BY <1>0, <4>1, ElementOfSeq DEF NumberInv
      <4>4. own[f] # homes[1]
        BY <1>0, <4>2, <4>3
      <4> QED  BY <3>1, <3>2, <3>4, <4>4, KeptHomes
    <3> QED  BY <1>0, <3>3, <3>4
  <2> QED  BY <2>1, <2>2
<1> QED  BY <1>4, <1>5, <1>6, <1>7, <1>8

(* What forgetting a home makes of the homes and of what is registered.    *)
LEMMA ForgottenHome ==
  ASSUME NumberInv, HomesInv, NEW n \in Nat, ForgetHome(n)
  PROVE  \/ UNCHANGED <<homes, modules>>
         \/ \E k \in 1..Len(homes) :
               /\ homes[k] = n /\ modules' = [modules EXCEPT ![n] = "none"]
               /\ homes' \in Seq(Nat) /\ Len(homes') = Len(homes) - 1
               /\ \A i \in 1..(Len(homes) - 1) :
                     homes'[i] = IF i < k THEN homes[i] ELSE homes[i + 1]
<1>0. homes \in Seq(Nat) /\ DOMAIN homes = 1..Len(homes) /\ Len(homes) \in Nat
  BY DEF HomesInv
<1>1. CASE n \notin Range(homes)
  BY <1>1 DEF ForgetHome
<1>2. CASE n \in Range(homes)
  <2> DEFINE First(i) == homes[i] = n /\ \A j \in 1..(i - 1) : homes[j] # n
             at == CHOOSE i \in DOMAIN homes : First(i)
  <2>1. homes' = RemoveAt(homes, at) /\ modules' = [modules EXCEPT ![n] = "none"]
    BY <1>2 DEF ForgetHome
  <2>2. PICK k \in 1..Len(homes) : homes[k] = n
    BY <1>0, <1>2 DEF Range
  <2>3. ASSUME NEW j \in 1..(k - 1)
        PROVE  homes[j] # n
    <3>1. j \in 1..Len(homes) /\ j <= k /\ j < k /\ j \in Int /\ k \in Int
      BY <1>0, <2>2
    <3>2. homes[k] - homes[j] >= k - j
      BY <3>1, HomesApart
    <3>3. homes[j] \in Nat
      BY <3>1, HomeNumber
    <3> QED  BY <2>2, <3>1, <3>2, <3>3
  <2>4. at \in DOMAIN homes /\ First(at)
    <3>1. First(k) /\ k \in DOMAIN homes
      BY <1>0, <2>2, <2>3
    <3> HIDE DEF First
    <3> QED  BY <3>1
  <2> HIDE DEF at
  <2>5. at \in 1..Len(homes) /\ homes[at] = n
    BY <1>0, <2>4
  <2>6. /\ homes' \in Seq(Nat) /\ Len(homes') = Len(homes) - 1
        /\ \A i \in 1..(Len(homes) - 1) :
              homes'[i] = IF i < at THEN homes[i] ELSE homes[i + 1]
    BY <1>0, <2>1, <2>5, RemovedAt
  <2> QED  BY <2>1, <2>5, <2>6
<1> QED  BY <1>1, <1>2

LEMMA ForgetsStep ==
  ASSUME Mode # "threads", ExecutionsInv, NEW e \in Execs,
         pc[e] = "run", pc' = [pc EXCEPT ![e] = "done"],
         result' = [result EXCEPT ![e] = "memory"],
         UNCHANGED <<name, count, own, exitedAt>>,
         ForgetHome(own[e])
  PROVE  ExecutionsInv'
<1> USE DEF ExecutionsInv
<1>1. CASE UNCHANGED <<homes, modules>>
  BY <1>1, QuietStep DEF Over
<1>2. ASSUME NEW k \in 1..Len(homes),
             homes[k] = own[e], modules' = [modules EXCEPT ![own[e]] = "none"],
             homes' \in Seq(Nat), Len(homes') = Len(homes) - 1,
             \A i \in 1..(Len(homes) - 1) :
                homes'[i] = IF i < k THEN homes[i] ELSE homes[i + 1]
      PROVE  ExecutionsInv'
  <2>0. /\ own[e] \in Nat /\ 1 <= own[e] /\ own[e] <= count
        /\ Len(homes) \in Nat /\ Homes \in Nat /\ Len(homes) <= Homes
    BY <1>2, HomeNumber, ExecutionsAssumption DEF NumberInv, HomesInv
  <2>1. own[e] \in Names
    BY <2>0, NumbersAreNames
  <2>2. /\ modules' \in [Names -> Execs \cup {"none"}]
        /\ \A n \in Names :
              modules'[n] = IF n = own[e] THEN "none" ELSE modules[n]
    BY <1>2, <2>1 DEF NumberInv
  <2>3. ASSUME NEW i \in 1..Len(homes')
        PROVE  \E h \in 1..Len(homes) :
                  homes'[i] = homes[h] /\ h = IF i < k THEN i ELSE i + 1
    <3>1. i \in 1..(Len(homes) - 1) /\ i \in 1..Len(homes) /\ i + 1 \in 1..Len(homes)
      BY <1>2, <2>0
    <3>2. CASE i < k
      BY <1>2, <3>1, <3>2
    <3>3. CASE ~(i < k)
      BY <1>2, <3>1, <3>3
    <3> QED  BY <3>2, <3>3
  <2>4. NumberInv'
    <3>1. Cardinality(Numbered) <= Cardinality(Numbered')
      BY NumberedKept DEF NumberInv
    <3>2. Cardinality(Numbered) \in Nat /\ Cardinality(Numbered') \in Nat
      BY NumberedSize DEF Numbered
    <3>3. count' <= Cardinality(Numbered')
      BY <3>1, <3>2 DEF NumberInv
    <3>5. pc' \in [Execs -> Setup \cup Over \cup {"idle", "run"}]
      BY DEF NumberInv, Over
    <3>6. \A f \in Execs : pc'[f] \notin Over => result'[f] = "none"
      BY DEF NumberInv, Over
    <3>7. result' \in [Execs -> {"none", "ok", "error", "memory", "cancelled"}]
      BY DEF NumberInv
    <3> QED  BY <2>2, <3>3, <3>5, <3>6, <3>7 DEF NumberInv, Names
  <2>5. SetupInv'
    <3>1. \A f \in Execs : pc'[f] \in Setup => pc[f] = pc'[f]
      BY DEF Setup, NumberInv
    <3>2. ASSUME NEW f \in Execs, pc[f] \in {"make", "check", "register", "keep"}
          PROVE  \A i \in 1..Len(homes') : homes'[i] < count
      BY <2>3, <3>2 DEF SetupInv
    <3>3. ASSUME NEW f \in Execs, pc[f] = "keep"
          PROVE  modules'[count] = f
      <4>1. own[f] = count /\ modules[count] = f /\ f # e /\ 1 <= count
            /\ count \in Nat
        BY <3>3 DEF SetupInv, NumberInv
      <4>2. own[e] # count
        BY <2>0, <4>1 DEF OwnerInv
      <4>3. count \in Names
        BY <4>1, NumbersAreNames
      <4> QED  BY <2>2, <4>1, <4>2, <4>3
    <3>4. \A f \in Execs : pc'[f] \in {"idle", "clear", "name", "make", "check",
                                       "register", "keep"} => pc'[f] = pc[f]
      BY DEF NumberInv
    <3> QED  BY <3>1, <3>2, <3>3, <3>4 DEF SetupInv
  <2>6. OwnerInv'
    BY <2>2 DEF OwnerInv, Names
  <2>7. HomesInv'
    <3>1. Len(homes') <= Homes
      BY <1>2, <2>0
    <3>2. ASSUME NEW i \in 1..Len(homes')
          PROVE  exitedAt < homes'[i] /\ homes'[i] <= count
      BY <2>3, HomeNumber
    <3>3. ASSUME NEW i \in 1..Len(homes'), NEW j \in 1..Len(homes'), i <= j
          PROVE  homes'[j] - homes'[i] >= j - i
      <4> DEFINE hi == IF i < k THEN i ELSE i + 1
                 hj == IF j < k THEN j ELSE j + 1
      <4>1. /\ hi \in 1..Len(homes) /\ homes'[i] = homes[hi]
            /\ hj \in 1..Len(homes) /\ homes'[j] = homes[hj]
        BY <2>3
      <4>2. hi <= hj /\ hj - hi >= j - i
        BY <3>3, <2>0
      <4>3. hi \in Int /\ hj \in Int
        BY <4>1
      <4> HIDE DEF hi, hj
      <4>4. homes[hj] - homes[hi] >= hj - hi
        BY <4>1, <4>2, HomesApart
      <4>5. homes[hj] \in Nat /\ homes[hi] \in Nat
        BY <4>1, HomeNumber
      <4> QED  BY <4>1, <4>2, <4>3, <4>4, <4>5
    <3>4. ASSUME NEW n \in Names, modules'[n] # "none"
          PROVE  \/ \E i \in 1..Len(homes') : homes'[i] = n
                 \/ pc'[modules'[n]] = "keep"
      <4>0. n # own[e] /\ modules'[n] = modules[n] /\ modules[n] \in Execs
        BY <2>2, <3>4 DEF NumberInv
      <4>1. ASSUME NEW i \in 1..Len(homes), homes[i] = n
            PROVE  \E h \in 1..Len(homes') : homes'[h] = n
        <5>1. CASE i < k
          <6>1. i \in 1..(Len(homes) - 1)
            BY <5>1, <2>0
          <6> QED  BY <1>2, <4>1, <5>1, <6>1
        <5>2. CASE i > k
          <6>1. i - 1 \in 1..(Len(homes) - 1) /\ ~(i - 1 < k) /\ (i - 1) + 1 = i
            BY <5>2, <2>0
          <6> QED  BY <1>2, <4>1, <6>1
        <5> QED  BY <1>2, <4>0, <4>1, <5>1, <5>2
      <4>2. CASE pc[modules[n]] = "keep"
        BY <4>0, <4>2 DEF NumberInv
      <4> QED  BY <3>4, <4>0, <4>1, <4>2 DEF HomesInv
    <3> QED  BY <1>2, <3>1, <3>2, <3>3, <3>4 DEF HomesInv, Names
  <2>8. KeptInv'
    <3> SUFFICES ASSUME NEW f \in Execs,
                        own[f] # 0, pc'[f] \notin Setup \ {"provide"},
                        result'[f] # "memory", own[f] > count - Homes,
                        own[f] > exitedAt
                 PROVE  modules'[own[f]] = f
      BY DEF KeptInv
    <3>1. f # e
      BY DEF NumberInv
    <3>2. modules[own[f]] = f
      BY <3>1 DEF KeptInv, NumberInv
    <3>3. own[f] # own[e]
      BY <3>1 DEF OwnerInv
    <3>4. own[f] \in Nat /\ 1 <= own[f] /\ own[f] <= count
      BY DEF NumberInv
    <3>5. own[f] \in Names
      BY <3>4, NumbersAreNames
    <3> QED  BY <2>2, <3>2, <3>3, <3>5
  <2> QED  BY <2>4, <2>5, <2>6, <2>7, <2>8
<1> QED
  <2>1. own[e] \in Nat
    BY DEF NumberInv
  <2>2. \/ UNCHANGED <<homes, modules>>
        \/ \E k \in 1..Len(homes) :
               /\ homes[k] = own[e] /\ modules' = [modules EXCEPT ![own[e]] = "none"]
               /\ homes' \in Seq(Nat) /\ Len(homes') = Len(homes) - 1
               /\ \A i \in 1..(Len(homes) - 1) :
                     homes'[i] = IF i < k THEN homes[i] ELSE homes[i + 1]
    BY <2>1, ForgottenHome
  <2> QED  BY <1>1, <1>2, <2>2

LEMMA ExitStep ==
  ASSUME Mode # "threads", ExecutionsInv, Exit
  PROVE  ExecutionsInv'
<1> USE DEF ExecutionsInv, Exit
<1>1. \A n \in Names : modules'[n] = "none"
  <2> SUFFICES ASSUME NEW n \in Names, modules[n] # "none",
                      \A i \in 1..Len(homes) : homes[i] # n
               PROVE  FALSE
    BY DEF Forgotten, Range, HomesInv
  <2>1. pc[modules[n]] = "keep" /\ modules[n] \in Execs
    BY DEF HomesInv, NumberInv
  <2> QED  BY <2>1 DEF UnderWay, Setup
<1>2. modules' \in [Names -> Execs \cup {"none"}]
  BY <1>1 DEF Forgotten
<1>3. Numbered' = Numbered
  BY DEF Numbered
<1>4. NumberInv'
  BY <1>2, <1>3 DEF NumberInv, Names
<1>5. homes' \in Seq(Nat) /\ Len(homes') = 0
  OBVIOUS
<1>6. SetupInv'
  BY <1>5 DEF SetupInv, UnderWay, Setup, NumberInv
<1>7. OwnerInv' /\ HomesInv'
  BY <1>1, <1>5, ExecutionsAssumption DEF OwnerInv, HomesInv, Names
<1>8. KeptInv'
  BY DEF KeptInv, NumberInv
<1> QED  BY <1>4, <1>6, <1>7, <1>8

-----------------------------------------------------------------------------
LEMMA EndsStep ==
  ASSUME Mode # "threads", ExecutionsInv, NEW e \in Execs,
         pc[e] = "run", NEW r \in {"ok", "error", "memory", "cancelled"},
         CallEnds(e, r)
  PROVE  ExecutionsInv'
<1>1. CASE r = "memory"
  <2>1. ForgetHome(own[e]) /\ result' = [result EXCEPT ![e] = "memory"]
    BY <1>1 DEF CallEnds, BuildResult
  <2> QED  BY <2>1, ForgetsStep DEF CallEnds, Goto
<1>2. CASE r # "memory"
  BY <1>2, QuietStep DEF CallEnds, BuildResult, Goto, Over
<1> QED  BY <1>1, <1>2

LEMMA ExecutionsStep ==
  ASSUME Mode # "threads", ExecutionsInv, [ExecutionsNext]_executionsVars
  PROVE  ExecutionsInv'
<1>1. CASE UNCHANGED executionsVars \/ SandboxCancel
  <2>1. UNCHANGED <<name, count, homes, modules, pc, own, result, exitedAt>>
    BY <1>1 DEF executionsVars, SandboxCancel
  <2> QED  BY <2>1 DEF ExecutionsInv, NumberInv, SetupInv, OwnerInv, HomesInv,
                       KeptInv, Numbered, Names
<1>2. ASSUME NEW e \in Execs, Begin(e)
      PROVE  ExecutionsInv'
  <2>1. \A f \in Execs : pc[f] \notin Setup
    BY <1>2 DEF Begin, MayStep, Setup
  <2> QED  BY <1>2, <2>1, QuietStep DEF Begin, Goto, Setup
<1>3. ASSUME NEW e \in Execs, Rejects(e)
      PROVE  ExecutionsInv'
  BY <1>3, QuietStep DEF Rejects, Goto, Over
<1>4. ASSUME NEW e \in Execs, ClearsFlag(e)
      PROVE  ExecutionsInv'
  BY <1>4, QuietStep DEF ClearsFlag, Goto, Setup
<1>5. ASSUME NEW e \in Execs, ChecksName(e)
      PROVE  ExecutionsInv'
  BY <1>5, QuietStep DEF ChecksName, Goto, Setup
<1>6. ASSUME NEW e \in Execs, Provides(e)
      PROVE  ExecutionsInv'
  BY <1>6, QuietStep DEF Provides, Goto
<1>7. ASSUME NEW e \in Execs, Interrupted(e)
      PROVE  ExecutionsInv'
  BY <1>7, QuietStep DEF Interrupted, Goto, Over
<1>8. ASSUME NEW e \in Execs, CodeEnds(e) \/ CheckpointStops(e)
      PROVE  ExecutionsInv'
  BY <1>8, EndsStep DEF CodeEnds, CheckpointStops
<1> QED  BY <1>1, <1>2, <1>3, <1>4, <1>5, <1>6, <1>7, <1>8, NamesModuleStep,
            MakesModuleStep, RegistersModuleStep, KeepsHomeStep, ExitStep
         DEF ExecutionsNext

LEMMA ExecutionsBegin ==
  ASSUME ExecutionsInit
  PROVE  ExecutionsInv
<1> USE DEF ExecutionsInit
<1>1. NumberInv
  <2>1. Numbered = {}
    BY DEF Numbered
  <2>2. Cardinality(Numbered) = 0
    BY <2>1, FS_EmptySet
  <2> QED  BY <2>2 DEF NumberInv
<1>2. SetupInv /\ OwnerInv /\ KeptInv
  BY DEF SetupInv, OwnerInv, KeptInv, Setup
<1>3. homes \in Seq(Nat) /\ Len(homes) = 0
  OBVIOUS
<1>4. HomesInv
  BY <1>3, ExecutionsAssumption DEF HomesInv
<1> QED  BY <1>1, <1>2, <1>4 DEF ExecutionsInv

LEMMA ExecutionsInvariant ==
  ASSUME Mode # "threads"
  PROVE  ExecutionsSpec => []ExecutionsInv
<1>1. ExecutionsInit => ExecutionsInv
  BY ExecutionsBegin
<1>2. ExecutionsInv /\ [ExecutionsNext]_executionsVars => ExecutionsInv'
  BY ExecutionsStep
<1> QED  BY <1>1, <1>2, PTL DEF ExecutionsSpec

(* When calls are made one at a time or as tasks of one event loop,        *)
(* sys.modules never finds the module of another call under the name of a  *)
(* call's module.                                                          *)
THEOREM NeverOthersHolds ==
  ASSUME Mode # "threads"
  PROVE  ExecutionsSpec => []NeverOthers
<1>1. ASSUME ExecutionsInv
      PROVE  NeverOthers
  <2> SUFFICES ASSUME NEW e \in Execs, own[e] # 0
               PROVE  modules[own[e]] \in {e, "none"}
    BY DEF NeverOthers
  <2>1. own[e] \in Nat /\ 1 <= own[e] /\ own[e] <= count
    BY <1>1 DEF ExecutionsInv, NumberInv
  <2>2. own[e] \in Names
    BY <1>1, <2>1, NumbersAreNames DEF ExecutionsInv
  <2> QED  BY <1>1, <2>2 DEF ExecutionsInv, NumberInv, OwnerInv
<1> QED  BY <1>1, ExecutionsInvariant, PTL

(* Under the same proviso the sandbox has at most HOMES modules in         *)
(* sys.modules, all of which __exit__ takes out, and has those of the      *)
(* latest HOMES calls unless memory ran out in one.                        *)
THEOREM HomesKeptHolds ==
  ASSUME Mode # "threads"
  PROVE  ExecutionsSpec => []HomesKept
<1>1. ASSUME ExecutionsInv
      PROVE  HomesKept
  <2>1. ASSUME \A e \in Execs : pc[e] # "keep"
        PROVE  /\ {n \in Names : modules[n] # "none"} \subseteq Range(homes)
               /\ Len(homes) <= Homes
               /\ \A i \in DOMAIN homes : homes[i] > exitedAt
    <3>1. DOMAIN homes = 1..Len(homes)
      BY <1>1 DEF ExecutionsInv, HomesInv
    <3>2. \A n \in Names : modules[n] # "none"
             => \E i \in 1..Len(homes) : homes[i] = n
      BY <1>1, <2>1 DEF ExecutionsInv, HomesInv, NumberInv
    <3>3. \A i \in DOMAIN homes : homes[i] > exitedAt
      BY <1>1, <3>1, HomeNumber DEF ExecutionsInv, NumberInv
    <3> QED  BY <1>1, <3>1, <3>2, <3>3 DEF ExecutionsInv, HomesInv, Range
  <2>2. KeptInv
    BY <1>1 DEF ExecutionsInv
  <2> QED  BY <2>1, <2>2 DEF HomesKept, KeptInv
<1> QED  BY <1>1, ExecutionsInvariant, PTL
=============================================================================
