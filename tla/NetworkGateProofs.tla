------------------------- MODULE NetworkGateProofs --------------------------
(***************************************************************************)
(* Proofs about NetworkGate, for any threads, socket functions and depth   *)
(* of calls: a gate always has its original, the context variable says     *)
(* what the code in a thread may do, and denied code meets a gate.         *)
(***************************************************************************)
EXTENDS NetworkGate, SequenceTheorems, TLAPS

-----------------------------------------------------------------------------
(* The inductive invariant.                                                *)

(* What the thread in the lock may be doing.                               *)
Locked == {"hooking", "opening", "saving"}

(* The patches, under the lock and cut short or not.                       *)
InstallInv ==
    /\ \A t \in Threads : lock = t <=> pc[t] \in Locked
    /\ \A m \in Names :
          /\ original[m] # "gated"
          /\ bound[m] = "gated" => original[m] = "real"
          /\ original[m] = "real" /\ bound[m] = "real" => m = pending \/ m \in skipped
    /\ pending # "none" => original[pending] = "real" /\ lock # "free"
    /\ installed => \A m \in Methods : original[m] = "real" /\ m # pending

(* Thread.start and submit have been patched, or passed over...            *)
Hooked == (\A h \in Hooks : original[h] = "real") /\ pending \notin Hooks

(* ...and the socket functions too.                                        *)
Ready == installed /\ Hooked

(* How far a thread is in beginning an execution, and who can be there.    *)
ReadyInv ==
    \A t \in Threads :
        /\ pc[t] \in {"sockets", "saving", "deny"} => Hooked
        /\ pc[t] = "deny" => installed
        /\ t \notin live => pc[t] = "run" /\ frames[t] = <<>>

(* Nothing denied exists before everything is in place.                    *)
DeniedInv ==
    ~Ready =>
        /\ \A t \in Threads : base[t] /\ \A i \in DOMAIN frames[t] : frames[t][i].duty
        /\ \A c \in captured : c.duty
        /\ \A i \in DOMAIN items : items[i].duty

(* The variable and every saved copy of it agree with the duty of the code *)
(* they are for, a frame's token with the code below it, unless threads    *)
(* and items may have started in a context of their own.                   *)
Below(t, i) == IF i = Len(frames[t]) THEN base[t] ELSE frames[t][i + 1].duty
StackOf(t) == /\ allowed[t] = Duty(t)
              /\ \A i \in DOMAIN frames[t] : frames[t][i].token = Below(t, i)
CopiesInv ==
    Propagates =>
        /\ \A t \in live : StackOf(t)
        /\ \A c \in captured : c.value = c.duty
        /\ \A i \in DOMAIN items : items[i].context = items[i].duty

GateInv == NetworkTypeOK /\ InstallInv /\ ReadyInv /\ DeniedInv /\ CopiesInv

-----------------------------------------------------------------------------
(* Sequences as stacks, the top first.                                     *)

Frame == [kind : Kinds, token : BOOLEAN, duty : BOOLEAN]
Item  == [context : BOOLEAN, duty : BOOLEAN]

LEMMA Pushed ==
  ASSUME NEW S, NEW x \in S, NEW f \in Seq(S)
  PROVE  /\ <<x>> \o f \in Seq(S) /\ <<x>> \o f # <<>> /\ Len(<<x>> \o f) = Len(f) + 1
         /\ (<<x>> \o f)[1] = x /\ \A i \in 1..Len(f) : (<<x>> \o f)[i + 1] = f[i]
  OBVIOUS

LEMMA Popped ==
  ASSUME NEW S, NEW f \in Seq(S), f # <<>>
  PROVE  /\ f[1] \in S /\ Len(f) \in Nat \ {0} /\ Head(f) = f[1]
         /\ Tail(f) \in Seq(S) /\ Len(Tail(f)) = Len(f) - 1
         /\ \A i \in 1..(Len(f) - 1) : Tail(f)[i] = f[i + 1]
         /\ Tail(f) = <<>> <=> Len(f) = 1
<1>1. Len(f) \in Nat \ {0} /\ f[1] \in S /\ Head(f) = f[1]
  OBVIOUS
<1>2. /\ Tail(f) \in Seq(S) /\ Len(Tail(f)) = Len(f) - 1
      /\ \A i \in 1..(Len(f) - 1) : Tail(f)[i] = f[i + 1]
  OBVIOUS
<1>3. Tail(f) = <<>> <=> Len(Tail(f)) = 0
  BY <1>2, SMTT(30)
<1> QED  BY <1>1, <1>2, <1>3

(* A thread that is running a call begins another: the duties there are... *)
LEMMA PushDuties ==
  ASSUME GateInv, NEW t \in live, NEW f, f \in Frame,
         frames' \in [Threads -> Seq(Frame)], frames'[t] = <<f>> \o frames[t],
         \A s \in Threads \ {t} : frames'[s] = frames[s]
  PROVE  \A s \in Threads : \A i \in DOMAIN frames'[s] :
            \/ frames'[s][i].duty = f.duty
            \/ \E j \in DOMAIN frames[s] : frames'[s][i].duty = frames[s][j].duty
<1>0. t \in Threads /\ live \subseteq Threads /\ frames \in [Threads -> Seq(Frame)]
  BY DEF GateInv, NetworkTypeOK, Frame
<1> DEFINE g == frames[t]
           h == <<f>> \o g
<1>1. g \in Seq(Frame)
  BY <1>0
<1>2. /\ h \in Seq(Frame) /\ h # <<>> /\ Len(h) = Len(g) + 1
      /\ h[1] = f /\ \A i \in 1..Len(g) : h[i + 1] = g[i]
  BY <1>1, Pushed
<1> HIDE DEF h
<1>3. frames'[t] = h /\ \A s \in Threads \ {t} : frames'[s] = frames[s]
  BY <1>0 DEF h
<1>6. \A i \in 1..Len(h) : i = 1 \/ (i - 1 \in 1..Len(g) /\ h[i] = g[i - 1])
  <2> SUFFICES ASSUME NEW i \in 1..Len(h), i # 1
               PROVE  i - 1 \in 1..Len(g) /\ h[i] = g[i - 1]
    OBVIOUS
  <2>1. Len(g) \in Nat
    BY <1>1
  <2>2. i - 1 \in 1..Len(g) /\ (i - 1) + 1 = i
    BY <1>2, <2>1
  <2>3. h[(i - 1) + 1] = g[i - 1]
    BY <1>2, <2>2
  <2> QED  BY <2>2, <2>3
<1>7. DOMAIN h = 1..Len(h) /\ DOMAIN g = 1..Len(g) /\ Len(g) \in Nat
  BY <1>1, <1>2
<1>10. \A s \in Threads : \A i \in DOMAIN frames'[s] :
          \/ frames'[s][i].duty = f.duty
          \/ \E j \in DOMAIN frames[s] : frames'[s][i].duty = frames[s][j].duty
  <2> SUFFICES ASSUME NEW s \in Threads, NEW i \in DOMAIN frames'[s]
               PROVE  \/ frames'[s][i].duty = f.duty
                      \/ \E j \in DOMAIN frames[s] : frames'[s][i].duty = frames[s][j].duty
    OBVIOUS
  <2>1. CASE s # t
    BY <1>3, <2>1
  <2>2. CASE s = t
    <3>1. frames'[s] = h /\ i \in 1..Len(h) /\ frames[s] = g
      BY <1>3, <1>7, <2>2
    <3>2. h[i] = f \/ \E j \in DOMAIN g : h[i] = g[j]
      BY <1>2, <1>6, <1>7, <3>1
    <3> QED  BY <3>1, <3>2
  <2> QED  BY <2>1, <2>2
<1> QED  BY <1>10

(* ...and the variable set for it.                                         *)
LEMMA PushKeeps ==
  ASSUME GateInv, NEW t \in live, NEW f, f \in Frame, Propagates, f.token = allowed[t],
         frames' \in [Threads -> Seq(Frame)], frames'[t] = <<f>> \o frames[t],
         \A s \in Threads \ {t} : frames'[s] = frames[s],
         allowed' \in [Threads -> BOOLEAN], allowed'[t] = f.duty,
         \A s \in Threads \ {t} : allowed'[s] = allowed[s],
         base' = base
  PROVE  \A s \in live : (StackOf(s))'
<1>0. t \in Threads /\ live \subseteq Threads /\ frames \in [Threads -> Seq(Frame)]
  BY DEF GateInv, NetworkTypeOK, Frame
<1> DEFINE g == frames[t]
           h == <<f>> \o g
<1>1. g \in Seq(Frame)
  BY <1>0
<1>2. /\ h \in Seq(Frame) /\ h # <<>> /\ Len(h) = Len(g) + 1
      /\ h[1] = f /\ \A i \in 1..Len(g) : h[i + 1] = g[i]
  BY <1>1, Pushed
<1> HIDE DEF h
<1>3. frames'[t] = h /\ \A s \in Threads \ {t} : frames'[s] = frames[s]
  BY <1>0 DEF h
<1>5. StackOf(t)
  BY DEF GateInv, CopiesInv
<1>6. \A i \in 1..Len(h) : i = 1 \/ (i - 1 \in 1..Len(g) /\ h[i] = g[i - 1])
  <2> SUFFICES ASSUME NEW i \in 1..Len(h), i # 1
               PROVE  i - 1 \in 1..Len(g) /\ h[i] = g[i - 1]
    OBVIOUS
  <2>1. Len(g) \in Nat
    BY <1>1
  <2>2. i - 1 \in 1..Len(g) /\ (i - 1) + 1 = i
    BY <1>2, <2>1
  <2>3. h[(i - 1) + 1] = g[i - 1]
    BY <1>2, <2>2
  <2> QED  BY <2>2, <2>3
<1>7. DOMAIN h = 1..Len(h) /\ DOMAIN g = 1..Len(g) /\ Len(g) \in Nat
  BY <1>1, <1>2
<1>8. (StackOf(t))'
  <2>1. (Duty(t))' = f.duty
    BY <1>2, <1>3 DEF Duty
  <2>2. ASSUME NEW i \in 1..Len(h)
        PROVE  h[i].token = IF i = Len(h) THEN base[t] ELSE h[i + 1].duty
    <3>1. CASE i = 1
      <4>1. f.token = Duty(t)
        BY <1>5 DEF StackOf
      <4>2. CASE g = <<>>
        <5>1. Len(h) = 1
          BY <1>2, <4>2
        <5> QED  BY <1>2, <3>1, <4>1, <4>2, <5>1 DEF Duty
      <4>3. CASE g # <<>>
        <5>1. Len(g) >= 1
          BY <1>1, <4>3, Popped
        <5>2. h[1 + 1] = g[1] /\ Len(h) # 1
          BY <1>2, <1>7, <5>1
        <5> QED  BY <1>2, <3>1, <4>1, <4>3, <5>2 DEF Duty
      <4> QED  BY <4>2, <4>3
    <3>2. CASE i # 1
      <4>1. i - 1 \in 1..Len(g) /\ h[i] = g[i - 1]
        BY <1>6, <3>2
      <4>2. g[i - 1].token = IF i - 1 = Len(g) THEN base[t] ELSE g[(i - 1) + 1].duty
        BY <1>5, <1>7, <4>1 DEF StackOf, Below
      <4>3. CASE i = Len(h)
        BY <1>2, <1>7, <4>1, <4>2, <4>3
      <4>4. CASE i # Len(h)
        <5>1. i \in 1..Len(g) /\ (i - 1) + 1 = i /\ i - 1 # Len(g)
          BY <1>2, <1>7, <4>4
        <5>2. h[i + 1] = g[i]
          BY <1>2, <5>1
        <5> QED  BY <4>1, <4>2, <4>4, <5>1, <5>2
      <4> QED  BY <4>3, <4>4
    <3> QED  BY <3>1, <3>2
  <2>3. \A i \in DOMAIN frames'[t] : frames'[t][i].token = (Below(t, i))'
    <3> SUFFICES ASSUME NEW i \in 1..Len(h)
                 PROVE  frames'[t][i].token = (Below(t, i))'
      BY <1>3, <1>7
    <3>1. (Below(t, i))' = IF i = Len(h) THEN base[t] ELSE h[i + 1].duty
      BY <1>3 DEF Below
    <3> QED  BY <1>3, <2>2, <3>1
  <2> QED  BY <2>1, <2>3 DEF StackOf
<1>9. \A s \in live : (StackOf(s))'
  <2> SUFFICES ASSUME NEW s \in live, s # t PROVE (StackOf(s))'
    BY <1>8
  <2>1. StackOf(s) /\ frames'[s] = frames[s] /\ allowed'[s] = allowed[s]
    BY <1>0, <1>3 DEF GateInv, CopiesInv
  <2> QED  BY <2>1 DEF StackOf, Below, Duty
<1> QED  BY <1>9

-----------------------------------------------------------------------------
(* What a step leaves alone.                                               *)

Places == {"run", "threading", "hooking", "open", "opening", "sockets", "saving", "deny"}

LEMMA DutyFacts ==
  ASSUME GateInv, NEW t \in Threads
  PROVE  Duty(t) \in BOOLEAN /\ (~Ready => Duty(t) = TRUE)
<1>1. frames[t] \in Seq(Frame) /\ base[t] \in BOOLEAN
  BY DEF GateInv, NetworkTypeOK, Frame
<1>2. frames[t] # <<>> => 1 \in DOMAIN frames[t] /\ frames[t][1] \in Frame
  BY <1>1
<1>3. Duty(t) \in BOOLEAN
  BY <1>1, <1>2 DEF Duty, Frame
<1>4. ~Ready => Duty(t)
  BY <1>2 DEF GateInv, DeniedInv, Duty
<1> QED  BY <1>3, <1>4

(* The installation goes on: the code in every thread is where it was.     *)
LEMMA CodeKept ==
  ASSUME GateInv, UNCHANGED <<live, allowed, frames, base, captured, items>>,
         Ready => Ready', skipped \subseteq skipped'
  PROVE  DeniedInv' /\ CopiesInv'
<1>1. DeniedInv'
  BY DEF GateInv, DeniedInv
<1>2. Propagates' => Propagates
  BY DEF Propagates
<1>3. CopiesInv'
  BY <1>2 DEF GateInv, CopiesInv, StackOf, Below, Duty
<1> QED  BY <1>1, <1>3

(* Code runs: the installation is where it was.                            *)
LEMMA InstallKept ==
  ASSUME GateInv, UNCHANGED <<lock, gates, pc>>
  PROVE  InstallInv'
  BY DEF GateInv, InstallInv, gates

(* A call begins in a thread, with a value the variable is set to.         *)
LEMMA CallCode ==
  ASSUME GateInv, NEW t \in Threads, t \in live,
         NEW f, f \in Frame, f.token = allowed[t],
         NEW v \in BOOLEAN, Propagates => v = f.duty, ~Ready => f.duty = TRUE,
         frames' = [frames EXCEPT ![t] = <<f>> \o @],
         allowed' = [allowed EXCEPT ![t] = v],
         UNCHANGED <<original, bound, pending, installed, skipped, live, base, captured>>,
         items' \in Seq(Item),
         \A i \in DOMAIN items' : \E j \in DOMAIN items : items'[i] = items[j]
  PROVE  /\ frames' \in [Threads -> Seq(Frame)] /\ allowed' \in [Threads -> BOOLEAN]
         /\ \A s \in Threads \ {t} : frames'[s] = frames[s]
         /\ DeniedInv' /\ CopiesInv'
<1>1. /\ allowed' \in [Threads -> BOOLEAN] /\ allowed'[t] = v
      /\ \A s \in Threads \ {t} : allowed'[s] = allowed[s]
  BY DEF GateInv, NetworkTypeOK
<1>2. /\ frames' \in [Threads -> Seq(Frame)] /\ frames'[t] = <<f>> \o frames[t]
      /\ \A s \in Threads \ {t} : frames'[s] = frames[s]
  <2>1. frames \in [Threads -> Seq(Frame)]
    BY DEF GateInv, NetworkTypeOK, Frame
  <2>2. <<f>> \o frames[t] \in Seq(Frame)
    BY <2>1
  <2> QED  BY <2>1, <2>2
<1>3. (Ready <=> Ready') /\ (Propagates <=> Propagates') /\ base' = base
  BY DEF Ready, Hooked, Propagates
<1>4. DeniedInv'
  <2>0. GateInv /\ t \in live /\ f \in Frame
    OBVIOUS
  <2>1. \A s \in Threads : \A i \in DOMAIN frames'[s] :
            \/ frames'[s][i].duty = f.duty
            \/ \E j \in DOMAIN frames[s] : frames'[s][i].duty = frames[s][j].duty
    BY ONLY <1>2, <2>0, PushDuties, ZenonT(30)
  <2> SUFFICES ASSUME ~Ready
               PROVE  /\ \A s \in Threads : base[s] /\ \A i \in DOMAIN frames'[s] : frames'[s][i].duty
                      /\ \A c \in captured : c.duty
                      /\ \A i \in DOMAIN items' : items'[i].duty
    BY <1>3 DEF DeniedInv
  <2> QED  BY <2>1 DEF GateInv, DeniedInv
<1>5. CopiesInv'
  <2> SUFFICES ASSUME Propagates
               PROVE  /\ \A s \in live : (StackOf(s))'
                      /\ \A c \in captured : c.value = c.duty
                      /\ \A i \in DOMAIN items' : items'[i].context = items'[i].duty
    BY <1>3 DEF CopiesInv
  <2>0. GateInv /\ t \in live /\ f \in Frame /\ f.token = allowed[t] /\ Propagates
    OBVIOUS
  <2>1. allowed'[t] = f.duty
    BY <1>1
  <2>2. \A s \in live : (StackOf(s))'
    BY ONLY <1>1, <1>2, <1>3, <2>0, <2>1, PushKeeps
  <2> QED  BY <2>2 DEF GateInv, CopiesInv
<1> QED  BY <1>1, <1>2, <1>4, <1>5

-----------------------------------------------------------------------------
(* An execution begins.                                                    *)

LEMMA EnterKeeps ==
  ASSUME GateInv, NEW t \in Threads, Enter(t)
  PROVE  GateInv'
<1>0. /\ UNCHANGED <<lock, original, bound, pending, installed, skipped, live,
                     allowed, frames, base, captured, items>>
      /\ t \in live /\ pc[t] = "run"
  BY DEF Enter, gates, Running
<1>1. /\ pc'[t] \in {"threading", "open"} /\ \A s \in Threads \ {t} : pc'[s] = pc[s]
      /\ pc' \in [Threads -> Places]
  BY DEF Enter, Goto, GateInv, NetworkTypeOK, Places
<1>2. NetworkTypeOK'
  BY <1>0, <1>1 DEF GateInv, NetworkTypeOK, Places
<1>3. InstallInv'
  BY <1>0, <1>1 DEF GateInv, InstallInv, Locked
<1>4. ReadyInv'
  BY <1>0, <1>1 DEF GateInv, ReadyInv, Hooked
<1>5. DeniedInv' /\ CopiesInv'
  BY <1>0, CodeKept DEF Ready, Hooked
<1> QED  BY <1>2, <1>3, <1>4, <1>5 DEF GateInv

LEMMA ThreadingLocksKeeps ==
  ASSUME GateInv, NEW t \in Threads, ThreadingLocks(t)
  PROVE  GateInv'
<1>0. /\ UNCHANGED <<original, bound, pending, installed, skipped, live,
                     allowed, frames, base, captured, items>>
      /\ pc[t] \in {"threading", "open"} /\ lock = "free" /\ lock' = t
  BY DEF ThreadingLocks, gates, LockFree
<1>1. /\ pc'[t] \in {"hooking", "opening"} /\ \A s \in Threads \ {t} : pc'[s] = pc[s]
      /\ pc' \in [Threads -> Places]
  BY DEF ThreadingLocks, Goto, GateInv, NetworkTypeOK, Places
<1>2. "free" \notin Threads
  BY NetworkAssumption DEF Threads
<1>3. InstallInv'
  BY <1>0, <1>1, <1>2 DEF GateInv, InstallInv, Locked
<1>4. NetworkTypeOK'
  BY <1>0, <1>1 DEF GateInv, NetworkTypeOK, Places
<1>5. ReadyInv'
  BY <1>0, <1>1 DEF GateInv, ReadyInv, Hooked
<1>6. DeniedInv' /\ CopiesInv'
  BY <1>0, CodeKept DEF Ready, Hooked
<1> QED  BY <1>3, <1>4, <1>5, <1>6 DEF GateInv

LEMMA ThreadingInstalledKeeps ==
  ASSUME GateInv, NEW t \in Threads, ThreadingInstalled(t)
  PROVE  GateInv'
<1>0. /\ UNCHANGED <<original, bound, pending, installed, skipped, live, allowed,
                     base, captured, items>>
      /\ pc[t] \in {"hooking", "opening"} /\ pending = "none" /\ lock' = "free"
      /\ \A h \in Hooks : original[h] # "none"
  BY DEF ThreadingInstalled, gates
<1>1. t \in live /\ lock = t /\ "free" \notin Threads
  BY <1>0, NetworkAssumption DEF GateInv, ReadyInv, InstallInv, Locked, Threads
<1>2. /\ pc'[t] \in {"sockets", "run"} /\ \A s \in Threads \ {t} : pc'[s] = pc[s]
      /\ pc' \in [Threads -> Places]
  BY DEF ThreadingInstalled, Goto, GateInv, NetworkTypeOK, Places
<1>3. \A s \in Threads : pc'[s] \notin Locked
  BY <1>1, <1>2 DEF GateInv, InstallInv, Locked
<1>4. InstallInv'
  BY <1>0, <1>1, <1>3 DEF GateInv, InstallInv
<1>5. Hooked'
  <2>1. \A h \in Hooks : original[h] = "real"
    BY <1>0 DEF GateInv, InstallInv, NetworkTypeOK, Names
  <2> QED  BY <1>0, <2>1 DEF Hooked, Hooks
<1>6. CASE pc[t] = "hooking"
  <2>1. frames' = frames
    BY <1>6 DEF ThreadingInstalled
  <2>2. NetworkTypeOK'
    BY <1>0, <1>2, <2>1 DEF GateInv, NetworkTypeOK, Places
  <2>3. ReadyInv'
    BY <1>0, <1>1, <1>2, <1>5, <2>1 DEF GateInv, ReadyInv
  <2>4. DeniedInv' /\ CopiesInv'
    BY <1>0, <2>1, CodeKept DEF Ready, Hooked
  <2> QED  BY <1>4, <2>2, <2>3, <2>4 DEF GateInv
<1>7. CASE pc[t] # "hooking"
  <2> DEFINE f == [kind |-> "code", token |-> allowed[t], duty |-> Duty(t)]
  <2>1. frames' = [frames EXCEPT ![t] = <<f>> \o @]
    BY <1>7 DEF ThreadingInstalled
  <2>2. /\ allowed \in [Threads -> BOOLEAN] /\ allowed[t] \in BOOLEAN
        /\ Propagates => allowed[t] = Duty(t)
    BY <1>1 DEF GateInv, NetworkTypeOK, CopiesInv, StackOf
  <2>3. allowed' = [allowed EXCEPT ![t] = allowed[t]]
    BY <1>0, <2>2
  <2>4. Duty(t) \in BOOLEAN /\ (~Ready => Duty(t) = TRUE)
    BY DutyFacts
  <2>5. f \in Frame /\ f.token = allowed[t] /\ f.duty = Duty(t)
    BY <2>2, <2>4 DEF Frame, Kinds
  <2>6. (Propagates => allowed[t] = f.duty) /\ (~Ready => f.duty = TRUE)
    BY <2>2, <2>4, <2>5
  <2>7. items' \in Seq(Item) /\ \A i \in DOMAIN items' : \E j \in DOMAIN items : items'[i] = items[j]
    BY <1>0 DEF GateInv, NetworkTypeOK, Item
  <2> HIDE DEF f
  <2>8. /\ frames' \in [Threads -> Seq(Frame)] /\ allowed' \in [Threads -> BOOLEAN]
        /\ \A s \in Threads \ {t} : frames'[s] = frames[s]
        /\ DeniedInv' /\ CopiesInv'
    BY <1>0, <1>1, <2>1, <2>2, <2>3, <2>5, <2>6, <2>7, CallCode
  <2>9. NetworkTypeOK'
    BY <1>0, <1>2, <2>8 DEF GateInv, NetworkTypeOK, Frame, Places
  <2>10. ReadyInv'
    BY <1>0, <1>1, <1>2, <1>5, <2>8 DEF GateInv, ReadyInv
  <2> QED  BY <1>4, <2>8, <2>9, <2>10 DEF GateInv
<1> QED  BY <1>6, <1>7

LEMMA InstallLocksKeeps ==
  ASSUME GateInv, NEW t \in Threads, InstallLocks(t)
  PROVE  GateInv'
<1>0. /\ UNCHANGED <<original, bound, pending, installed, skipped, live,
                     allowed, frames, base, captured, items>>
      /\ pc[t] = "sockets" /\ lock = "free" /\ lock' = t
  BY DEF InstallLocks, gates, LockFree
<1>1. /\ pc'[t] = "saving" /\ \A s \in Threads \ {t} : pc'[s] = pc[s]
      /\ pc' \in [Threads -> Places]
  BY DEF InstallLocks, Goto, GateInv, NetworkTypeOK, Places
<1>2. "free" \notin Threads
  BY NetworkAssumption DEF Threads
<1>3. InstallInv'
  BY <1>0, <1>1, <1>2 DEF GateInv, InstallInv, Locked
<1>4. NetworkTypeOK'
  BY <1>0, <1>1 DEF GateInv, NetworkTypeOK, Places
<1>5. ReadyInv'
  BY <1>0, <1>1 DEF GateInv, ReadyInv, Hooked
<1>6. DeniedInv' /\ CopiesInv'
  BY <1>0, CodeKept DEF Ready, Hooked
<1> QED  BY <1>3, <1>4, <1>5, <1>6 DEF GateInv

LEMMA AlreadyInstalledKeeps ==
  ASSUME GateInv, NEW t \in Threads, AlreadyInstalled(t)
  PROVE  GateInv'
<1>0. /\ UNCHANGED <<lock, original, bound, pending, installed, skipped, live,
                     allowed, frames, base, captured, items>>
      /\ pc[t] = "sockets" /\ lock = "free" /\ installed
  BY DEF AlreadyInstalled, InPlace, gates, LockFree
<1>1. /\ pc'[t] = "deny" /\ \A s \in Threads \ {t} : pc'[s] = pc[s]
      /\ pc' \in [Threads -> Places]
  BY DEF AlreadyInstalled, Goto, GateInv, NetworkTypeOK, Places
<1>2. InstallInv'
  BY <1>0, <1>1 DEF GateInv, InstallInv, Locked
<1>3. NetworkTypeOK'
  BY <1>0, <1>1 DEF GateInv, NetworkTypeOK, Places
<1>4. ReadyInv'
  BY <1>0, <1>1 DEF GateInv, ReadyInv, Hooked
<1>5. DeniedInv' /\ CopiesInv'
  BY <1>0, CodeKept DEF Ready, Hooked
<1> QED  BY <1>2, <1>3, <1>4, <1>5 DEF GateInv

LEMMA SavesOriginalKeeps ==
  ASSUME GateInv, NEW t \in Threads, NEW m \in Names, SavesOriginal(t, m)
  PROVE  GateInv'
<1>0. /\ UNCHANGED <<lock, bound, installed, skipped, live,
                     allowed, frames, base, pc, captured, items>>
      /\ m \in Patches(t) /\ pending = "none" /\ original[m] = "none" /\ pending' = m
  BY DEF SavesOriginal
<1>1. bound[m] = "real"
  BY <1>0 DEF GateInv, InstallInv, NetworkTypeOK
<1>2. /\ original'[m] = "real" /\ \A n \in Names \ {m} : original'[n] = original[n]
      /\ original' \in [Names -> {"none", "real", "gated"}]
  BY <1>1 DEF SavesOriginal, GateInv, NetworkTypeOK
<1>3. pc[t] \in Locked
  BY <1>0 DEF Patches, Locked
<1>4. lock # "free" /\ "none" \notin Names
  BY <1>3, NetworkAssumption DEF GateInv, InstallInv, Threads, Names, Hooks
<1>5. InstallInv'
  <2>1. \A s \in Threads : lock' = s <=> pc'[s] \in Locked
    BY <1>0 DEF GateInv, InstallInv
  <2>2. \A n \in Names :
          /\ original'[n] # "gated"
          /\ bound'[n] = "gated" => original'[n] = "real"
          /\ original'[n] = "real" /\ bound'[n] = "real" => n = pending' \/ n \in skipped'
    BY <1>0, <1>1, <1>2, <1>4 DEF GateInv, InstallInv
  <2>3. installed' => \A n \in Methods : original'[n] = "real" /\ n # pending'
    BY <1>0, <1>2 DEF GateInv, InstallInv, Names
  <2> QED  BY <1>0, <1>2, <1>4, <2>1, <2>2, <2>3 DEF InstallInv
<1>6. NetworkTypeOK'
  BY <1>0, <1>2 DEF GateInv, NetworkTypeOK
<1>7. Hooked => Hooked'
  BY <1>0, <1>2 DEF Hooked, Names
<1>8. ReadyInv'
  BY <1>0, <1>7 DEF GateInv, ReadyInv
<1>9. DeniedInv' /\ CopiesInv'
  BY <1>0, <1>7, CodeKept DEF Ready
<1> QED  BY <1>5, <1>6, <1>8, <1>9 DEF GateInv

LEMMA BindsGateKeeps ==
  ASSUME GateInv, NEW t \in Threads, BindsGate(t)
  PROVE  GateInv'
<1>0. /\ UNCHANGED <<lock, original, installed, skipped, live,
                     allowed, frames, base, pc, captured, items>>
      /\ pending # "none" /\ pending' = "none"
  BY DEF BindsGate
<1>1. pending \in Names /\ original[pending] = "real" /\ "none" \notin Names
  BY <1>0, NetworkAssumption DEF GateInv, InstallInv, NetworkTypeOK, Names, Hooks
<1>2. /\ bound'[pending] = "gated" /\ \A n \in Names \ {pending} : bound'[n] = bound[n]
      /\ bound' \in [Names -> {"real", "gated"}]
  BY <1>1 DEF BindsGate, GateInv, NetworkTypeOK
<1>3. InstallInv'
  BY <1>0, <1>1, <1>2 DEF GateInv, InstallInv, Names
<1>4. NetworkTypeOK'
  BY <1>0, <1>2 DEF GateInv, NetworkTypeOK
<1>5. Hooked => Hooked'
  BY <1>0 DEF Hooked, Hooks
<1>6. ReadyInv'
  BY <1>0, <1>5 DEF GateInv, ReadyInv
<1>7. DeniedInv' /\ CopiesInv'
  BY <1>0, <1>5, CodeKept DEF Ready
<1> QED  BY <1>3, <1>4, <1>6, <1>7 DEF GateInv

LEMMA InstalledKeeps ==
  ASSUME GateInv, NEW t \in Threads, Installed(t)
  PROVE  GateInv'
<1>0. /\ UNCHANGED <<original, bound, pending, skipped, live,
                     allowed, frames, base, captured, items>>
      /\ pc[t] = "saving" /\ pending = "none" /\ \A m \in Methods : original[m] # "none"
      /\ installed' = TRUE /\ lock' = "free"
  BY DEF Installed
<1>1. /\ pc'[t] = "deny" /\ \A s \in Threads \ {t} : pc'[s] = pc[s]
      /\ pc' \in [Threads -> Places]
  BY DEF Installed, Goto, GateInv, NetworkTypeOK, Places
<1>2. lock = t /\ "free" \notin Threads /\ "none" \notin Methods
  BY <1>0, NetworkAssumption DEF GateInv, InstallInv, Locked, Threads
<1>3. \A m \in Methods : original[m] = "real"
  BY <1>0 DEF GateInv, InstallInv, NetworkTypeOK, Names
<1>4. \A s \in Threads : pc'[s] \notin Locked
  BY <1>1, <1>2 DEF GateInv, InstallInv, Locked
<1>5. InstallInv'
  BY <1>0, <1>2, <1>3, <1>4 DEF GateInv, InstallInv
<1>6. installed' \in BOOLEAN
  BY <1>0
<1>7. NetworkTypeOK'
  BY <1>0, <1>1, <1>6 DEF GateInv, NetworkTypeOK, Places
<1>8. Hooked => Hooked'
  BY <1>0 DEF Hooked
<1>9. ReadyInv'
  BY <1>0, <1>1, <1>8 DEF GateInv, ReadyInv
<1>10. DeniedInv' /\ CopiesInv'
  BY <1>0, <1>8, CodeKept DEF Ready
<1> QED  BY <1>5, <1>7, <1>9, <1>10 DEF GateInv

LEMMA InterruptedKeeps ==
  ASSUME GateInv, NEW t \in Threads, Interrupted(t)
  PROVE  GateInv'
<1>0. /\ UNCHANGED <<original, bound, installed, live,
                     allowed, frames, base, captured, items>>
      /\ lock = t /\ pending' = "none" /\ lock' = "free"
      /\ skipped' = skipped \cup ({pending} \cap Names)
  BY DEF Interrupted
<1>1. /\ pc'[t] = "run" /\ \A s \in Threads \ {t} : pc'[s] = pc[s]
      /\ pc' \in [Threads -> Places]
  BY DEF Interrupted, Goto, GateInv, NetworkTypeOK, Places
<1>2. "free" \notin Threads /\ "none" \notin Names /\ t \in live
  BY <1>0, NetworkAssumption
     DEF Threads, Names, Hooks, GateInv, InstallInv, ReadyInv, Locked
<1>3. \A s \in Threads : pc'[s] \notin Locked
  BY <1>0, <1>1 DEF GateInv, InstallInv, Locked
<1>4. InstallInv'
  <2>1. \A s \in Threads : lock' = s <=> pc'[s] \in Locked
    BY <1>0, <1>2, <1>3
  <2>2. \A n \in Names :
          /\ original'[n] # "gated"
          /\ bound'[n] = "gated" => original'[n] = "real"
          /\ original'[n] = "real" /\ bound'[n] = "real" => n = pending' \/ n \in skipped'
    BY <1>0 DEF GateInv, InstallInv
  <2>3. installed' => \A n \in Methods : original'[n] = "real" /\ n # pending'
    BY <1>0, <1>2 DEF GateInv, InstallInv, Names
  <2> QED  BY <1>0, <2>1, <2>2, <2>3 DEF InstallInv
<1>5. NetworkTypeOK'
  BY <1>0, <1>1 DEF GateInv, NetworkTypeOK, Places
<1>6. Hooked => Hooked'
  BY <1>0 DEF Hooked, Hooks
<1>7. ReadyInv'
  BY <1>0, <1>1, <1>2, <1>6 DEF GateInv, ReadyInv
<1>8. DeniedInv' /\ CopiesInv'
  BY <1>0, <1>6, CodeKept DEF Ready
<1> QED  BY <1>4, <1>5, <1>7, <1>8 DEF GateInv

LEMMA DeniesKeeps ==
  ASSUME GateInv, NEW t \in Threads, Denies(t)
  PROVE  GateInv'
<1> DEFINE f == [kind |-> "code", token |-> allowed[t], duty |-> FALSE]
<1>0. /\ UNCHANGED <<lock, original, bound, pending, installed, skipped, live,
                     base, captured, items>>
      /\ pc[t] = "deny" /\ frames' = [frames EXCEPT ![t] = <<f>> \o @]
      /\ allowed' = [allowed EXCEPT ![t] = FALSE]
  BY DEF Denies, Push, gates
<1>1. t \in live /\ Ready
  BY <1>0 DEF GateInv, ReadyInv, Ready
<1>2. f \in Frame /\ f.token = allowed[t] /\ f.duty = FALSE
  BY DEF GateInv, NetworkTypeOK, Frame, Kinds
<1>3. items' \in Seq(Item) /\ \A i \in DOMAIN items' : \E j \in DOMAIN items : items'[i] = items[j]
  BY <1>0 DEF GateInv, NetworkTypeOK, Item
<1> HIDE DEF f
<1>4. /\ frames' \in [Threads -> Seq(Frame)] /\ allowed' \in [Threads -> BOOLEAN]
      /\ \A s \in Threads \ {t} : frames'[s] = frames[s]
      /\ DeniedInv' /\ CopiesInv'
  BY <1>0, <1>1, <1>2, <1>3, CallCode
<1>5. /\ pc'[t] = "run" /\ \A s \in Threads \ {t} : pc'[s] = pc[s]
      /\ pc' \in [Threads -> Places]
  BY DEF Denies, Goto, GateInv, NetworkTypeOK, Places
<1>6. InstallInv'
  BY <1>0, <1>5 DEF GateInv, InstallInv, Locked
<1>7. NetworkTypeOK'
  BY <1>0, <1>4, <1>5 DEF GateInv, NetworkTypeOK, Frame, Places
<1>8. ReadyInv'
  BY <1>0, <1>1, <1>4, <1>5 DEF GateInv, ReadyInv, Hooked
<1> QED  BY <1>4, <1>6, <1>7, <1>8 DEF GateInv

-----------------------------------------------------------------------------
(* The code runs.                                                          *)

(* A call begins: a granted function's, a callback's, a generator's or a   *)
(* work item's.                                                            *)
LEMMA CallKeeps ==
  ASSUME GateInv, NEW t \in Threads, t \in live,
         NEW f, f \in Frame, f.token = allowed[t],
         NEW v \in BOOLEAN, Propagates => v = f.duty, ~Ready => f.duty = TRUE,
         frames' = [frames EXCEPT ![t] = <<f>> \o @],
         allowed' = [allowed EXCEPT ![t] = v],
         UNCHANGED <<lock, gates, live, base, pc, captured>>,
         items' \in Seq(Item),
         \A i \in DOMAIN items' : \E j \in DOMAIN items : items'[i] = items[j]
  PROVE  GateInv'
<1>0. UNCHANGED <<original, bound, pending, installed, skipped>>
  BY DEF gates
<1>1. /\ frames' \in [Threads -> Seq(Frame)] /\ allowed' \in [Threads -> BOOLEAN]
      /\ \A s \in Threads \ {t} : frames'[s] = frames[s]
      /\ DeniedInv' /\ CopiesInv'
  BY <1>0, CallCode
<1>2. InstallInv'
  BY InstallKept
<1>3. NetworkTypeOK'
  BY <1>0, <1>1 DEF GateInv, NetworkTypeOK, Frame, Item
<1>4. ReadyInv'
  BY <1>0, <1>1 DEF GateInv, ReadyInv, Hooked
<1> QED  BY <1>1, <1>2, <1>3, <1>4 DEF GateInv

LEMMA CallGrantedKeeps ==
  ASSUME GateInv, NEW t \in Threads, CallGranted(t)
  PROVE  GateInv'
<1> DEFINE f == [kind |-> "grant", token |-> allowed[t], duty |-> TRUE]
<1>1. /\ UNCHANGED <<lock, gates, live, base, pc, captured, items>>
      /\ t \in live /\ frames' = [frames EXCEPT ![t] = <<f>> \o @]
      /\ allowed' = [allowed EXCEPT ![t] = TRUE]
  BY DEF CallGranted, Push, Running
<1>2. f \in Frame /\ f.token = allowed[t] /\ f.duty = TRUE
  BY DEF GateInv, NetworkTypeOK, Frame, Kinds
<1>3. items' \in Seq(Item) /\ \A i \in DOMAIN items' : \E j \in DOMAIN items : items'[i] = items[j]
  BY <1>1 DEF GateInv, NetworkTypeOK, Item
<1> HIDE DEF f
<1> QED  BY <1>1, <1>2, <1>3, CallKeeps

LEMMA CallbackKeeps ==
  ASSUME GateInv, NEW t \in Threads, Callback(t)
  PROVE  GateInv'
<1>1. PICK c \in captured :
         /\ frames' = [frames EXCEPT ![t] =
               <<[kind |-> "code", token |-> allowed[t], duty |-> c.duty]>> \o @]
         /\ allowed' = [allowed EXCEPT ![t] = c.value]
  BY DEF Callback
<1> DEFINE f == [kind |-> "code", token |-> allowed[t], duty |-> c.duty]
<1>2. /\ UNCHANGED <<lock, gates, live, base, pc, captured, items>> /\ t \in live
  BY DEF Callback, Running
<1>3. c.duty \in BOOLEAN /\ c.value \in BOOLEAN /\ (Propagates => c.value = c.duty)
  BY DEF GateInv, NetworkTypeOK, CopiesInv
<1>4. f \in Frame /\ f.token = allowed[t] /\ f.duty = c.duty
  BY <1>3 DEF GateInv, NetworkTypeOK, Frame, Kinds
<1>5. ~Ready => c.duty
  BY DEF GateInv, DeniedInv
<1>6. (~Ready => f.duty = TRUE) /\ (Propagates => c.value = f.duty)
  BY <1>3, <1>4, <1>5
<1>7. frames' = [frames EXCEPT ![t] = <<f>> \o @]
  BY <1>1
<1>8. items' \in Seq(Item) /\ \A i \in DOMAIN items' : \E j \in DOMAIN items : items'[i] = items[j]
  BY <1>2 DEF GateInv, NetworkTypeOK, Item
<1> HIDE DEF f
<1> QED  BY <1>1, <1>2, <1>3, <1>4, <1>6, <1>7, <1>8, CallKeeps

LEMMA IterateKeeps ==
  ASSUME GateInv, NEW t \in Threads, Iterate(t)
  PROVE  GateInv'
<1>1. PICK c \in captured :
         frames' = [frames EXCEPT ![t] =
               <<[kind |-> IF c.duty THEN "code" ELSE "stray",
                  token |-> allowed[t], duty |-> Duty(t)]>> \o @]
  BY DEF Iterate
<1> DEFINE f == [kind |-> IF c.duty THEN "code" ELSE "stray",
                 token |-> allowed[t], duty |-> Duty(t)]
<1>2. /\ UNCHANGED <<lock, gates, live, base, pc, captured, items, allowed>> /\ t \in live
  BY DEF Iterate, Running
<1>3. /\ allowed \in [Threads -> BOOLEAN] /\ allowed[t] \in BOOLEAN
      /\ Propagates => allowed[t] = Duty(t)
  BY <1>2 DEF GateInv, NetworkTypeOK, CopiesInv, StackOf
<1>4. allowed' = [allowed EXCEPT ![t] = allowed[t]]
  BY <1>2, <1>3
<1>5. Duty(t) \in BOOLEAN /\ (~Ready => Duty(t) = TRUE)
  BY DutyFacts
<1>6. f \in Frame /\ f.token = allowed[t] /\ f.duty = Duty(t)
  BY <1>3, <1>5 DEF Frame, Kinds
<1>7. (Propagates => allowed[t] = f.duty) /\ (~Ready => f.duty = TRUE)
  BY <1>3, <1>5, <1>6
<1>8. items' \in Seq(Item) /\ \A i \in DOMAIN items' : \E j \in DOMAIN items : items'[i] = items[j]
  BY <1>2 DEF GateInv, NetworkTypeOK, Item
<1>9. frames' = [frames EXCEPT ![t] = <<f>> \o @]
  BY <1>1
<1> HIDE DEF f
<1> QED  BY <1>2, <1>3, <1>4, <1>6, <1>7, <1>8, <1>9, CallKeeps

LEMMA TakeItemKeeps ==
  ASSUME GateInv, NEW t \in Threads, TakeItem(t)
  PROVE  GateInv'
<1> DEFINE f == [kind |-> "code", token |-> allowed[t], duty |-> Head(items).duty]
<1>1. /\ UNCHANGED <<lock, gates, live, base, pc, captured>>
      /\ t \in live /\ frames[t] = <<>> /\ items # <<>> /\ items' = Tail(items)
      /\ frames' = [frames EXCEPT ![t] = <<f>>]
      /\ allowed' = [allowed EXCEPT ![t] = Head(items).context]
  BY DEF TakeItem, Running
<1>2. items \in Seq(Item)
  BY DEF GateInv, NetworkTypeOK, Item
<1>3. /\ Head(items) = items[1] /\ items[1] \in Item /\ 1 \in DOMAIN items
      /\ Tail(items) \in Seq(Item)
      /\ \A i \in DOMAIN Tail(items) : i + 1 \in DOMAIN items /\ Tail(items)[i] = items[i + 1]
  BY <1>1, <1>2, Popped
<1>4. /\ items[1].duty \in BOOLEAN /\ items[1].context \in BOOLEAN
      /\ Propagates => items[1].context = items[1].duty
  BY <1>3 DEF GateInv, CopiesInv, Item
<1>5. f \in Frame /\ f.token = allowed[t] /\ f.duty = items[1].duty
  BY <1>3, <1>4 DEF GateInv, NetworkTypeOK, Frame, Kinds
<1>6. ~Ready => items[1].duty
  BY <1>3 DEF GateInv, DeniedInv
<1>7. (~Ready => f.duty = TRUE) /\ (Propagates => items[1].context = f.duty)
  BY <1>4, <1>5, <1>6
<1> HIDE DEF f
<1>8. <<f>> = <<f>> \o frames[t]
  BY <1>1, <1>5
<1>9. frames' = [frames EXCEPT ![t] = <<f>> \o @]
  BY <1>1, <1>8 DEF GateInv, NetworkTypeOK
<1>10. allowed' = [allowed EXCEPT ![t] = items[1].context]
  BY <1>1, <1>3
<1>11. /\ items' \in Seq(Item)
       /\ \A i \in DOMAIN items' : \E j \in DOMAIN items : items'[i] = items[j]
  BY <1>1, <1>3
<1>12. items[1].context \in BOOLEAN
  BY <1>4
<1> QED  BY ONLY GateInv, t \in Threads, <1>1, <1>5, <1>7, <1>9, <1>10, <1>11, <1>12, CallKeeps, ZenonT(60)

LEMMA DefineKeeps ==
  ASSUME GateInv, NEW t \in Threads, Define(t)
  PROVE  GateInv'
<1> DEFINE c == [value |-> allowed[t], duty |-> Duty(t)]
<1>0. /\ UNCHANGED <<lock, original, bound, pending, installed, skipped, live,
                     allowed, frames, base, pc, items>>
      /\ captured' = captured \cup {c} /\ t \in live
  BY DEF Define, gates, Running
<1>1. /\ Duty(t) \in BOOLEAN /\ (~Ready => Duty(t) = TRUE)
      /\ allowed[t] \in BOOLEAN /\ (Propagates => allowed[t] = Duty(t))
  BY <1>0, DutyFacts DEF GateInv, NetworkTypeOK, CopiesInv, StackOf
<1>2. /\ c \in [value : BOOLEAN, duty : BOOLEAN] /\ c.duty = Duty(t)
      /\ Propagates => c.value = c.duty
  BY <1>1
<1> HIDE DEF c
<1>3. InstallInv'
  BY <1>0, InstallKept DEF gates
<1>4. NetworkTypeOK'
  BY <1>0, <1>2 DEF GateInv, NetworkTypeOK
<1>5. ReadyInv'
  BY <1>0 DEF GateInv, ReadyInv, Hooked
<1>6. DeniedInv'
  <2> SUFFICES ASSUME ~Ready PROVE \A d \in captured' : d.duty
    BY <1>0 DEF GateInv, DeniedInv, Ready, Hooked
  <2>1. \A d \in captured : d.duty
    BY DEF GateInv, DeniedInv
  <2>2. c.duty
    BY <1>1, <1>2
  <2> QED  BY <1>0, <2>1, <2>2
<1>7. CopiesInv'
  <2>1. Propagates <=> Propagates'
    BY <1>0 DEF Propagates
  <2>2. Propagates => \A s \in live : (StackOf(s))'
    BY <1>0 DEF GateInv, CopiesInv, StackOf, Below, Duty
  <2> QED  BY <1>0, <1>2, <2>1, <2>2 DEF GateInv, CopiesInv
<1> QED  BY <1>3, <1>4, <1>5, <1>6, <1>7 DEF GateInv

(* What a new thread or a work item gets is right, patched or not.         *)
LEMMA CopiedRight ==
  ASSUME GateInv, NEW t \in live, NEW hook \in Hooks
  PROVE  Copied(t, hook) \in BOOLEAN /\ (Propagates => Copied(t, hook) = Duty(t))
<1>1. /\ t \in Threads /\ allowed[t] \in BOOLEAN
      /\ Propagates => allowed[t] = Duty(t)
  BY DEF GateInv, NetworkTypeOK, CopiesInv, StackOf
<1>2. ~Ready => Duty(t) = TRUE
  BY <1>1, DutyFacts
<1>3. Ready /\ Propagates => bound[hook] = "gated"
  BY DEF GateInv, InstallInv, NetworkTypeOK, Ready, Hooked, Propagates, Names
<1>4. CASE bound[hook] = "gated"
  BY <1>1, <1>4 DEF Copied
<1>5. CASE bound[hook] # "gated"
  <2>1. Copied(t, hook) = TRUE
    BY <1>5 DEF Copied
  <2>2. Propagates => Duty(t) = TRUE
    BY <1>2, <1>3, <1>5
  <2> QED  BY <2>1, <2>2
<1> QED  BY <1>4, <1>5

LEMMA StartThreadKeeps ==
  ASSUME GateInv, NEW t \in Threads, NEW s \in NewThreads, StartThread(t, s)
  PROVE  GateInv'
<1>0. /\ UNCHANGED <<lock, original, bound, pending, installed, skipped,
                     frames, pc, captured, items>>
      /\ t \in live /\ s \notin live /\ s \in Threads /\ live' = live \cup {s}
      /\ allowed' = [allowed EXCEPT ![s] = Copied(t, "start")] /\ base' = [base EXCEPT ![s] = Duty(t)]
  BY DEF StartThread, gates, Running, Threads
<1>1. /\ Copied(t, "start") \in BOOLEAN /\ (Propagates => Copied(t, "start") = Duty(t))
      /\ Duty(t) \in BOOLEAN /\ (~Ready => Duty(t) = TRUE) /\ live \subseteq Threads
  <2>1. "start" \in Hooks /\ t \in live
    BY <1>0 DEF Hooks
  <2>2. Copied(t, "start") \in BOOLEAN /\ (Propagates => Copied(t, "start") = Duty(t))
    BY <2>1, CopiedRight
  <2> QED  BY <2>2, DutyFacts DEF GateInv, NetworkTypeOK
<1>2. /\ allowed'[s] = Copied(t, "start") /\ \A r \in Threads \ {s} : allowed'[r] = allowed[r]
      /\ base'[s] = Duty(t) /\ \A r \in Threads \ {s} : base'[r] = base[r]
      /\ allowed' \in [Threads -> BOOLEAN] /\ base' \in [Threads -> BOOLEAN]
  BY <1>0, <1>1 DEF GateInv, NetworkTypeOK
<1>3. InstallInv'
  BY <1>0, InstallKept DEF gates
<1>4. NetworkTypeOK'
  BY <1>0, <1>1, <1>2 DEF GateInv, NetworkTypeOK
<1>5. ReadyInv'
  BY <1>0 DEF GateInv, ReadyInv, Hooked
<1>6. DeniedInv'
  <2> SUFFICES ASSUME ~Ready PROVE \A r \in Threads : base'[r]
    BY <1>0 DEF GateInv, DeniedInv, Ready, Hooked
  <2>1. \A r \in Threads : base[r]
    BY DEF GateInv, DeniedInv
  <2>2. base'[s]
    BY <1>1, <1>2
  <2> QED  BY <1>2, <2>1, <2>2
<1>7. frames[s] = <<>>
  BY <1>0 DEF GateInv, ReadyInv, Hooked
<1>8. CopiesInv'
  <2>0. Propagates <=> Propagates'
    BY <1>0 DEF Propagates
  <2> SUFFICES ASSUME Propagates PROVE \A r \in live' : (StackOf(r))'
    BY <1>0, <2>0 DEF GateInv, CopiesInv
  <2>1. (StackOf(s))'
    BY <1>0, <1>1, <1>2, <1>7 DEF StackOf, Duty
  <2>2. ASSUME NEW r \in live PROVE (StackOf(r))'
    <3>1. StackOf(r) /\ r # s /\ r \in Threads
      BY <1>0, <1>1 DEF GateInv, CopiesInv
    <3> QED  BY <1>0, <1>2, <3>1 DEF StackOf, Below, Duty
  <2> QED  BY <1>0, <2>1, <2>2
<1> QED  BY <1>3, <1>4, <1>5, <1>6, <1>8 DEF GateInv

LEMMA SubmitKeeps ==
  ASSUME GateInv, NEW t \in Threads, Submit(t)
  PROVE  GateInv'
<1> DEFINE w == [context |-> Copied(t, "submit"), duty |-> Duty(t)]
<1>0. /\ UNCHANGED <<lock, original, bound, pending, installed, skipped, live,
                     allowed, frames, base, pc, captured>>
      /\ t \in live /\ items' = Append(items, w)
  BY DEF Submit, gates, Running
<1>1. /\ Copied(t, "submit") \in BOOLEAN /\ (Propagates => Copied(t, "submit") = Duty(t))
      /\ Duty(t) \in BOOLEAN /\ (~Ready => Duty(t) = TRUE)
  <2>1. "submit" \in Hooks /\ t \in live
    BY <1>0 DEF Hooks
  <2>2. Copied(t, "submit") \in BOOLEAN /\ (Propagates => Copied(t, "submit") = Duty(t))
    BY <2>1, CopiedRight
  <2> QED  BY <2>2, DutyFacts
<1>2. w \in Item /\ (Propagates => w.context = w.duty) /\ w.duty = Duty(t)
  BY <1>1 DEF Item
<1> HIDE DEF w
<1>3. items \in Seq(Item)
  BY DEF GateInv, NetworkTypeOK, Item
<1>4. /\ items' \in Seq(Item)
      /\ \A i \in DOMAIN items' : items'[i] = w \/ (i \in DOMAIN items /\ items'[i] = items[i])
  BY <1>0, <1>2, <1>3
<1>5. InstallInv'
  BY <1>0, InstallKept DEF gates
<1>6. NetworkTypeOK'
  BY <1>0, <1>4 DEF GateInv, NetworkTypeOK, Item
<1>7. ReadyInv'
  BY <1>0 DEF GateInv, ReadyInv, Hooked
<1>8. DeniedInv'
  <2> SUFFICES ASSUME ~Ready PROVE \A i \in DOMAIN items' : items'[i].duty
    BY <1>0 DEF GateInv, DeniedInv, Ready, Hooked
  <2>1. \A i \in DOMAIN items : items[i].duty
    BY DEF GateInv, DeniedInv
  <2>2. w.duty
    BY <1>1, <1>2
  <2> QED  BY <1>4, <2>1, <2>2
<1>9. CopiesInv'
  <2>0. Propagates <=> Propagates'
    BY <1>0 DEF Propagates
  <2> SUFFICES ASSUME Propagates
               PROVE  /\ \A s \in live : (StackOf(s))'
                      /\ \A i \in DOMAIN items' : items'[i].context = items'[i].duty
    BY <1>0, <2>0 DEF GateInv, CopiesInv
  <2>1. \A s \in live : (StackOf(s))'
    BY <1>0 DEF GateInv, CopiesInv, StackOf, Below, Duty
  <2>2. \A i \in DOMAIN items' : items'[i].context = items'[i].duty
    BY <1>2, <1>4 DEF GateInv, CopiesInv
  <2> QED  BY <2>1, <2>2
<1> QED  BY <1>5, <1>6, <1>7, <1>8, <1>9 DEF GateInv

(* A call ends, and the variable is put back.                              *)
LEMMA PopKeeps ==
  ASSUME GateInv, Propagates, NEW t \in live, frames[t] # <<>>,
         frames' \in [Threads -> Seq(Frame)], frames'[t] = Tail(frames[t]),
         \A s \in Threads \ {t} : frames'[s] = frames[s],
         allowed' \in [Threads -> BOOLEAN], allowed'[t] = frames[t][1].token,
         \A s \in Threads \ {t} : allowed'[s] = allowed[s],
         base' = base
  PROVE  \A s \in live : (StackOf(s))'
<1>0. t \in live /\ base' = base
  OBVIOUS
<1> DEFINE g == frames[t]
           h == Tail(g)
<1>1. g \in Seq(Frame) /\ frames \in [Threads -> Seq(Frame)] /\ live \subseteq Threads
  BY DEF GateInv, NetworkTypeOK, Frame
<1>2. /\ g[1] \in Frame /\ Len(g) \in Nat \ {0}
      /\ h \in Seq(Frame) /\ Len(h) = Len(g) - 1
      /\ \A i \in 1..(Len(g) - 1) : h[i] = g[i + 1]
      /\ h = <<>> <=> Len(g) = 1
  BY <1>1, Popped
<1>3. frames'[t] = h /\ \A s \in Threads \ {t} : frames'[s] = frames[s]
  OBVIOUS
<1> HIDE DEF h
<1>4. allowed'[t] = g[1].token /\ \A s \in Threads \ {t} : allowed'[s] = allowed[s]
  OBVIOUS
<1>5. DOMAIN g = 1..Len(g) /\ DOMAIN h = 1..Len(h)
  BY <1>1, <1>2
<1>6. StackOf(t)
  BY <1>0 DEF GateInv, CopiesInv
<1>7. (StackOf(t))'
  <2>0. 1 \in DOMAIN g /\ \A i \in DOMAIN g : g[i].token = Below(t, i)
    <3>1. 1 \in DOMAIN g
      BY ONLY <1>2, <1>5
    <3>2. \A i \in DOMAIN g : g[i].token = Below(t, i)
      BY ONLY <1>6 DEF StackOf
    <3> QED  BY <3>1, <3>2
  <2>1. g[1].token = Below(t, 1)
    BY ONLY <2>0
  <2>2. allowed'[t] = (Duty(t))'
    <3>1. CASE Len(g) = 1
      BY <1>0, <1>2, <1>3, <1>4, <2>1, <3>1 DEF Below, Duty
    <3>2. CASE Len(g) # 1
      <4>1. h[1] = g[1 + 1] /\ h # <<>>
        BY <1>2, <3>2
      <4>2. (Duty(t))' = h[1].duty
        BY <1>3, <4>1 DEF Duty
      <4>3. Below(t, 1) = g[1 + 1].duty
        BY <3>2 DEF Below
      <4> QED  BY <1>4, <2>1, <4>1, <4>2, <4>3
    <3> QED  BY <3>1, <3>2
  <2>3. ASSUME NEW i \in 1..Len(h)
        PROVE  h[i].token = (Below(t, i))'
    <3>1. i \in 1..(Len(g) - 1) /\ i + 1 \in 1..Len(g)
      BY <1>2
    <3>2. h[i].token = Below(t, i + 1)
      BY <1>2, <1>5, <1>6, <3>1 DEF StackOf
    <3>3. CASE i = Len(h)
      <4>1. i + 1 = Len(g)
        BY <1>2, <3>3
      <4> QED  BY <1>0, <1>3, <3>2, <3>3, <4>1 DEF Below
    <3>4. CASE i # Len(h)
      <4>1. i + 1 # Len(g) /\ i + 1 \in 1..(Len(g) - 1)
        BY <1>2, <3>1, <3>4
      <4>2. h[i + 1] = g[(i + 1) + 1]
        BY <1>2, <4>1
      <4>3. (Below(t, i))' = h[i + 1].duty
        BY <1>3, <3>4 DEF Below
      <4>4. Below(t, i + 1) = g[(i + 1) + 1].duty
        BY <4>1 DEF Below
      <4> QED  BY <3>2, <4>2, <4>3, <4>4
    <3> QED  BY <3>3, <3>4
  <2>4. \A i \in DOMAIN frames'[t] : frames'[t][i].token = (Below(t, i))'
    BY <1>3, <1>5, <2>3
  <2> QED  BY <2>2, <2>4 DEF StackOf
<1>8. \A s \in live : (StackOf(s))'
  <2> SUFFICES ASSUME NEW s \in live, s # t PROVE (StackOf(s))'
    BY <1>7
  <2>1. StackOf(s) /\ frames'[s] = frames[s] /\ allowed'[s] = allowed[s]
    BY <1>1, <1>3, <1>4 DEF GateInv, CopiesInv
  <2> QED  BY <1>0, <2>1 DEF StackOf, Below, Duty
<1> QED  BY <1>8

LEMMA LeaveKeeps ==
  ASSUME GateInv, NEW t \in Threads, Leave(t)
  PROVE  GateInv'
<1>0. /\ UNCHANGED <<lock, original, bound, pending, installed, skipped, live,
                     base, pc, captured, items>>
      /\ t \in live /\ frames[t] # <<>>
      /\ allowed' = [allowed EXCEPT ![t] = frames[t][1].token]
      /\ frames' = [frames EXCEPT ![t] = Tail(@)]
  BY DEF Leave, Restored, gates, Running
<1> DEFINE g == frames[t]
           h == Tail(g)
<1>1. g \in Seq(Frame) /\ frames \in [Threads -> Seq(Frame)] /\ live \subseteq Threads
  BY DEF GateInv, NetworkTypeOK, Frame
<1>2. /\ g[1] \in Frame /\ Len(g) \in Nat \ {0}
      /\ h \in Seq(Frame) /\ Len(h) = Len(g) - 1
      /\ \A i \in 1..(Len(g) - 1) : h[i] = g[i + 1]
      /\ h = <<>> <=> Len(g) = 1
  BY <1>0, <1>1, Popped
<1> HIDE DEF h
<1>3. /\ frames'[t] = h /\ \A s \in Threads \ {t} : frames'[s] = frames[s]
      /\ frames' \in [Threads -> Seq(Frame)]
  BY <1>0, <1>1, <1>2 DEF h
<1>4. /\ allowed'[t] = g[1].token /\ \A s \in Threads \ {t} : allowed'[s] = allowed[s]
      /\ allowed' \in [Threads -> BOOLEAN]
  BY <1>0, <1>2 DEF GateInv, NetworkTypeOK, Frame
<1>5. DOMAIN g = 1..Len(g) /\ DOMAIN h = 1..Len(h)
  BY <1>1, <1>2
<1>8. Propagates => \A s \in live : (StackOf(s))'
  <2>1. GateInv /\ t \in live /\ frames[t] # <<>> /\ frames'[t] = Tail(frames[t])
        /\ allowed'[t] = frames[t][1].token /\ base' = base
    BY <1>0, <1>3, <1>4 DEF h
  <2> QED  BY ONLY <1>3, <1>4, <2>1, PopKeeps
<1>9. InstallInv'
  BY <1>0, InstallKept DEF gates
<1>10. NetworkTypeOK'
  BY <1>0, <1>3, <1>4 DEF GateInv, NetworkTypeOK, Frame
<1>11. ReadyInv'
  BY <1>0, <1>3 DEF GateInv, ReadyInv, Hooked
<1>12. DeniedInv'
  <2> SUFFICES ASSUME ~Ready, NEW s \in Threads, NEW i \in DOMAIN frames'[s]
               PROVE  frames'[s][i].duty
    BY <1>0 DEF GateInv, DeniedInv, Ready, Hooked
  <2>1. CASE s # t
    BY <1>3, <2>1 DEF GateInv, DeniedInv
  <2>2. CASE s = t
    <3>1. i \in 1..(Len(g) - 1) /\ i + 1 \in DOMAIN g /\ frames'[s][i] = g[i + 1]
      BY <1>2, <1>3, <1>5, <2>2
    <3> QED  BY <2>2, <3>1 DEF GateInv, DeniedInv
  <2> QED  BY <2>1, <2>2
<1>13. CopiesInv'
  BY <1>0, <1>8 DEF GateInv, CopiesInv, Propagates
<1> QED  BY <1>9, <1>10, <1>11, <1>12, <1>13 DEF GateInv

-----------------------------------------------------------------------------
(* The invariant holds, and what follows.                                  *)

LEMMA InitHolds == Init => GateInv
<1> SUFFICES ASSUME Init PROVE GateInv
  OBVIOUS
<1>1. /\ installed \in BOOLEAN
      /\ allowed \in [Threads -> BOOLEAN] /\ base \in [Threads -> BOOLEAN]
  BY DEF Init
<1>2. frames \in [Threads -> Seq(Frame)] /\ items \in Seq(Item)
  BY DEF Init
<1>3. NetworkTypeOK
  BY <1>1, <1>2 DEF Init, NetworkTypeOK, Threads, Frame, Item
<1>4. InstallInv
  BY NetworkAssumption DEF Init, InstallInv, Threads, Locked, Names
<1>5. ReadyInv
  BY DEF Init, ReadyInv
<1>6. DeniedInv
  <2>1. \A t \in Threads : base[t]
    BY DEF Init
  <2>2. \A t \in Threads : DOMAIN frames[t] = {}
    BY DEF Init
  <2>3. captured = {} /\ DOMAIN items = {}
    BY DEF Init
  <2> QED  BY <2>1, <2>2, <2>3 DEF DeniedInv
<1>7. CopiesInv
  <2>1. \A t \in live : t \in Threads /\ frames[t] = <<>> /\ allowed[t] = base[t]
    BY DEF Init, Threads
  <2>2. captured = {} /\ DOMAIN items = {}
    BY DEF Init
  <2> QED  BY <2>1, <2>2 DEF CopiesInv, StackOf, Duty
<1> QED  BY <1>3, <1>4, <1>5, <1>6, <1>7 DEF GateInv

LEMMA Invariant == Spec => []GateInv
<1>1. GateInv /\ [Next]_vars => GateInv'
  <2> SUFFICES ASSUME GateInv, [Next]_vars PROVE GateInv'
    OBVIOUS
  <2>1. ASSUME NEW t \in Threads, Leave(t) PROVE GateInv'
    BY <2>1, LeaveKeeps
  <2>2. ASSUME NEW t \in Threads, Enter(t) PROVE GateInv'
    BY <2>2, EnterKeeps
  <2>3. ASSUME NEW t \in Threads, ThreadingLocks(t) PROVE GateInv'
    BY <2>3, ThreadingLocksKeeps
  <2>18. ASSUME NEW t \in Threads, ThreadingInstalled(t) PROVE GateInv'
    BY <2>18, ThreadingInstalledKeeps
  <2>19. ASSUME NEW t \in Threads, Iterate(t) PROVE GateInv'
    BY <2>19, IterateKeeps
  <2>4. ASSUME NEW t \in Threads, InstallLocks(t) PROVE GateInv'
    BY <2>4, InstallLocksKeeps
  <2>5. ASSUME NEW t \in Threads, AlreadyInstalled(t) PROVE GateInv'
    BY <2>5, AlreadyInstalledKeeps
  <2>6. ASSUME NEW t \in Threads, Installed(t) PROVE GateInv'
    BY <2>6, InstalledKeeps
  <2>7. ASSUME NEW t \in Threads, Denies(t) PROVE GateInv'
    BY <2>7, DeniesKeeps
  <2>8. ASSUME NEW t \in Threads, NEW m \in Names, SavesOriginal(t, m) PROVE GateInv'
    BY <2>8, SavesOriginalKeeps
  <2>9. ASSUME NEW t \in Threads, BindsGate(t) PROVE GateInv'
    BY <2>9, BindsGateKeeps
  <2>10. ASSUME NEW t \in Threads, Interrupted(t) PROVE GateInv'
    BY <2>10, InterruptedKeeps
  <2>11. ASSUME NEW t \in Threads, CallGranted(t) PROVE GateInv'
    BY <2>11, CallGrantedKeeps
  <2>12. ASSUME NEW t \in Threads, Define(t) PROVE GateInv'
    BY <2>12, DefineKeeps
  <2>13. ASSUME NEW t \in Threads, Callback(t) PROVE GateInv'
    BY <2>13, CallbackKeeps
  <2>14. ASSUME NEW t \in Threads, NEW s \in NewThreads, StartThread(t, s) PROVE GateInv'
    BY <2>14, StartThreadKeeps
  <2>15. ASSUME NEW t \in Threads, Submit(t) PROVE GateInv'
    BY <2>15, SubmitKeeps
  <2>16. ASSUME NEW t \in Threads, TakeItem(t) PROVE GateInv'
    BY <2>16, TakeItemKeeps
  <2>17. CASE UNCHANGED vars
    <3>0. UNCHANGED <<lock, original, bound, pending, installed, skipped, live,
                      allowed, frames, base, pc, captured, items>>
      BY <2>17 DEF vars, gates
    <3>1. NetworkTypeOK'
      BY <3>0 DEF GateInv, NetworkTypeOK
    <3>2. InstallInv'
      BY <3>0, InstallKept DEF gates
    <3>3. ReadyInv'
      BY <3>0 DEF GateInv, ReadyInv, Hooked
    <3>4. DeniedInv' /\ CopiesInv'
      BY <3>0, CodeKept DEF Ready, Hooked
    <3> QED  BY <3>1, <3>2, <3>3, <3>4 DEF GateInv
  <2> QED
    BY <2>1, <2>2, <2>3, <2>4, <2>5, <2>6, <2>7, <2>8, <2>9, <2>10, <2>11, <2>12,
       <2>13, <2>14, <2>15, <2>16, <2>17, <2>18, <2>19 DEF Next
<1> QED  BY <1>1, InitHolds, PTL DEF Spec

(* The variables keep their types.                                         *)
THEOREM TypeCorrect == Spec => []NetworkTypeOK
<1>1. GateInv => NetworkTypeOK
  BY DEF GateInv
<1> QED  BY <1>1, Invariant, PTL

(* However installations race and are cut short, no thread ever calls a    *)
(* gate that has nothing, or itself, to fall through to.                   *)
THEOREM GateHasOriginalHolds == Spec => []GateHasOriginal
<1>1. GateInv => GateHasOriginal
  BY DEF GateInv, InstallInv, GateHasOriginal
<1> QED  BY <1>1, Invariant, PTL

(* The context variable says what the code in each thread may do, at any   *)
(* depth of executions, grants, callbacks, generators, threads and work    *)
(* items, unless an exception left Thread.start or submit unpatched.       *)
THEOREM GateFollowsCodeHolds == Spec => []GateFollowsCode
<1>1. GateInv => GateFollowsCode
  BY DEF GateInv, CopiesInv, StackOf, GateFollowsCode
<1> QED  BY <1>1, Invariant, PTL

(* Denied code never runs before every socket function has its gate, but   *)
(* for the patches an exception left half installed.                       *)
THEOREM DeniedMeetsGatesHolds == Spec => []DeniedMeetsGates
<1>1. GateInv => DeniedMeetsGates
  <2> SUFFICES ASSUME GateInv, Propagates, NEW t \in live,
                      NEW m \in Methods \ skipped, ~Duty(t)
               PROVE  bound[m] = "gated" /\ ~allowed[t]
    BY DEF DeniedMeetsGates, Reaches
  <2>1. t \in Threads /\ allowed[t] = Duty(t)
    BY DEF GateInv, NetworkTypeOK, CopiesInv, StackOf
  <2>2. installed
    BY <2>1, DutyFacts DEF Ready
  <2>3. original[m] = "real" /\ m # pending
    BY <2>2 DEF GateInv, InstallInv
  <2>4. bound[m] = "gated"
    BY <2>3 DEF GateInv, InstallInv, NetworkTypeOK, Names
  <2> QED  BY <2>1, <2>4
<1> QED  BY <1>1, Invariant, PTL
=============================================================================
