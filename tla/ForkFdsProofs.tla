--------------------------- MODULE ForkFdsProofs ----------------------------
(***************************************************************************)
(* Proofs about ForkFds, for any number of workers and of files and any    *)
(* numbering: a worker that serves keeps its channel, has nothing of the   *)
(* host's, and no file object it inherited can close what is its own.  The *)
(* second half is about the broker such a worker may be forked from.       *)
(***************************************************************************)
EXTENDS ForkFds, Broker, FiniteSetTheorems, SequenceTheorems,
        WellFoundedInduction, TLAPS

-----------------------------------------------------------------------------
(* The inductive invariant.                                                *)

(* A table in which no two numbers name the same thing.                    *)
Distinct(t) == \A n, m \in Fds : t[n] = t[m] /\ t[n] # Free => n = m

(* The host's table: which ends are open at which step of a start, and     *)
(* every connection that may outlive its start is registered.              *)
HostInv ==
    /\ Distinct(host) /\ \A n \in Fds : host[n] # Null
    /\ \A a \in Ambient : Holds(host, File(a)) => a \in made
    /\ \A w \in Workers :
          /\ Holds(host, ChildEnd(w)) => Unfinished(w)
          /\ Holds(host, ParentEnd(w)) => Unfinished(w) \/ step[w] = "on"
          /\ step[w] \in {"piped", "registered", "listed"} => Holds(host, ChildEnd(w))
          /\ step[w] \in {"registered", "listed", "forked", "on"} => w \in registry

(* A start up to its fork.  Unless another thread closed a descriptor, the *)
(* snapshot's numbers stayed taken until the pipe was made, so that its    *)
(* child end has a number outside the snapshot.                            *)
NumbersKept(w) == ~closed[w] =>
    /\ step[w] = "snapped" => fds[w] \subseteq Open(host)
    /\ \A n \in fds[w] : host[n] # ChildEnd(w)

(* Unless another thread opened one, no other start is under way, the      *)
(* connections listed are all there are, and the files open are those of   *)
(* the snapshot.                                                           *)
NoOther(w) == ~opened[w] =>
    /\ \A v \in Workers \ {w} : ~Unfinished(v)
    /\ plan[w].forking /\ step[w] = "listed" =>
          \A v \in Workers : Holds(host, ParentEnd(v)) => v \in conns[w]
    /\ plan[w].forking /\ plan[w].closes => Named(host, Files) \subseteq fds[w]

WindowInv == \A w \in Workers : InWindow(w) =>
    /\ ~plan[w].forking => fds[w] = {}
    /\ NumbersKept(w) /\ NoOther(w)

(* No worker before the fork.                                              *)
StageOf(w) ==
    /\ step[w] = "off" \/ InWindow(w) => child[w] = "none"
    /\ child[w] = "none" => table[w] = Empty /\ known[w] = {} /\ wrappers[w] = {}

Alive(w) == child[w] \notin {"none", "dead"}

(* A live worker: what the inherited file objects and the connections to   *)
(* close name, where its channel is, and what of the host's it still has.  *)
CopyOf(w) == Alive(w) =>
    /\ \A n \in wrappers[w] : table[w][n] \in {Null} \cup Files
    /\ \A n \in known[w] : table[w][n] \in {ParentEnd(v) : v \in Workers}
    /\ child[w] # "born" => known[w] = {}

KeptOf(w) == Alive(w) /\ ~closed[w] =>
    \E c \in Fds \ fds[w] : table[w][c] = ChildEnd(w)

LeftOf(w) == Alive(w) /\ ~opened[w] =>
    /\ Named(table[w], Ends \ {ChildEnd(w)}) \subseteq known[w]
    /\ plan[w].closes => Named(table[w], Files) \subseteq fds[w]
    /\ Serving(w) => fds[w] = {}

StageInv == \A w \in Workers : StageOf(w)
CopyInv  == \A w \in Workers : CopyOf(w)
KeptInv  == \A w \in Workers : KeptOf(w)
LeftInv  == \A w \in Workers : LeftOf(w)

ForkInv == /\ ForkFdsTypeOK /\ HostInv /\ WindowInv /\ StageInv /\ CopyInv
           /\ KeptInv /\ LeftInv
-----------------------------------------------------------------------------
(* Descriptor tables.                                                      *)

(* What the numbers can name are different things.                         *)
LEMMA Kinds ==
  /\ Free # Null
  /\ \A w : /\ ParentEnd(w) \notin {Free, Null} /\ ChildEnd(w) \notin {Free, Null}
            /\ File(w) \notin {Free, Null}
  /\ \A v, w : /\ ParentEnd(v) # ChildEnd(w) /\ File(v) # ParentEnd(w)
               /\ File(v) # ChildEnd(w)
  /\ \A v, w : /\ ParentEnd(v) = ParentEnd(w) => v = w
               /\ ChildEnd(v) = ChildEnd(w) => v = w
               /\ File(v) = File(w) => v = w
  BY DEF Free, Null, ParentEnd, ChildEnd, File

LEMMA KindSets ==
  /\ Free \notin Ends /\ Null \notin Ends /\ Free \notin Files /\ Null \notin Files
  /\ \A w \in Workers : /\ ParentEnd(w) \in Ends /\ ChildEnd(w) \in Ends
                         /\ ParentEnd(w) \notin Files /\ ChildEnd(w) \notin Files
  /\ \A a \in Ambient : File(a) \in Files /\ File(a) \notin Ends
  /\ \A x \in Files : x \notin Ends /\ \E a \in Ambient : x = File(a)
  /\ \A x \in Ends : \E w \in Workers : x = ParentEnd(w) \/ x = ChildEnd(w)
  /\ Objects = {Free, Null} \cup Ends \cup Files
  BY Kinds DEF Ends, Files, Objects

LEMMA UnionBound ==
  ASSUME NEW S, IsFiniteSet(S), NEW T, IsFiniteSet(T)
  PROVE  /\ IsFiniteSet(S \cup T) /\ Cardinality(S \cup T) \in Nat
         /\ Cardinality(S \cup T) <= Cardinality(S) + Cardinality(T)
<1>1. IsFiniteSet(S \cap T)
  BY FS_Subset
<1>2. /\ Cardinality(S) \in Nat /\ Cardinality(T) \in Nat
      /\ Cardinality(S \cap T) \in Nat
  BY <1>1, FS_CardinalityType
<1>3. /\ IsFiniteSet(S \cup T)
      /\ Cardinality(S \cup T) = Cardinality(S) + Cardinality(T) - Cardinality(S \cap T)
  BY FS_Union
<1>4. Cardinality(S \cup T) \in Nat
  BY <1>3, FS_CardinalityType
<1> QED  BY <1>2, <1>3, <1>4

(* There are more numbers than things to name.                             *)
LEMMA Room == /\ IsFiniteSet(Ends \cup Files)
              /\ Cardinality(Ends \cup Files) < Cardinality(Fds)
<1> DEFINE P == {ParentEnd(w) : w \in Workers}
           C == {ChildEnd(w) : w \in Workers}
<1>1. IsFiniteSet(Workers) /\ Cardinality(Workers) = MaxWorkers
  BY FS_Interval, ForkFdsAssumption DEF Workers
<1>2. IsFiniteSet(P) /\ Cardinality(P) <= MaxWorkers
  <2>1. [w \in Workers |-> ParentEnd(w)] \in Surjection(Workers, P)
    BY DEF Surjection
  <2> QED  BY <1>1, <2>1, FS_Surjection
<1>3. IsFiniteSet(C) /\ Cardinality(C) <= MaxWorkers
  <2>1. [w \in Workers |-> ChildEnd(w)] \in Surjection(Workers, C)
    BY DEF Surjection
  <2> QED  BY <1>1, <2>1, FS_Surjection
<1>4. IsFiniteSet(Files) /\ Cardinality(Files) <= Cardinality(Ambient)
  <2>1. [a \in Ambient |-> File(a)] \in Surjection(Ambient, Files)
    BY DEF Surjection, Files
  <2> QED  BY <2>1, ForkFdsAssumption, FS_Surjection
<1> HIDE DEF P, C
<1>5. IsFiniteSet(P \cup C) /\ Cardinality(P \cup C) <= 2 * MaxWorkers
  <2>1. Cardinality(P) \in Nat /\ Cardinality(C) \in Nat
    BY <1>2, <1>3, FS_CardinalityType
  <2> QED  BY <1>2, <1>3, <2>1, ForkFdsAssumption, UnionBound
<1>6. Ends = P \cup C
  BY DEF Ends, P, C
<1>7. /\ Cardinality(Files) \in Nat /\ Cardinality(Ambient) \in Nat
      /\ Cardinality(Fds) \in Nat /\ Cardinality(Ends) \in Nat
  BY <1>4, <1>5, <1>6, ForkFdsAssumption, FS_CardinalityType
<1>8. /\ IsFiniteSet(Ends \cup Files) /\ Cardinality(Ends \cup Files) \in Nat
      /\ Cardinality(Ends \cup Files) <= Cardinality(Ends) + Cardinality(Files)
  BY <1>4, <1>5, <1>6, UnionBound
<1> QED  BY <1>4, <1>5, <1>6, <1>7, <1>8, ForkFdsAssumption

(* A new descriptor gets a number that is free.                            *)
LEMMA LowestFree ==
  ASSUME NEW t \in [Fds -> Objects], Distinct(t), \A n \in Fds : t[n] # Null
  PROVE  Lowest(t) \in Fds /\ t[Lowest(t)] = Free
<1> DEFINE S == Fds \ Open(t)
<1>1. S # {}
  <2> SUFFICES ASSUME S = {} PROVE FALSE
    OBVIOUS
  <2>1. \A n \in Fds : t[n] # Free
    BY DEF Open
  <2>2. t \in [Fds -> Ends \cup Files]
    <3>1. \A n \in Fds : t[n] \in Ends \cup Files
      BY <2>1, KindSets
    <3> QED  BY <3>1
  <2>3. \E x, y \in Fds : x # y /\ t[x] = t[y]
    <3> DEFINE T == Ends \cup Files
    <3>1. /\ IsFiniteSet(Fds) /\ IsFiniteSet(T) /\ Cardinality(T) < Cardinality(Fds)
          /\ t \in [Fds -> T]
      BY <2>2, Room, ForkFdsAssumption
    <3> HIDE DEF T
    <3>2. \A g \in [Fds -> T] : \E x, y \in Fds : x # y /\ g[x] = g[y]
      BY <3>1, FS_PigeonHole
    <3> QED  BY <3>1, <3>2
  <2> QED  BY <2>1, <2>3 DEF Distinct
<1>2. \E n \in S : \A m \in S : n <= m
  <2>1. S \subseteq Nat
    BY ForkFdsAssumption
  <2>2. PICK n \in S : \A m \in S : ~(<<m, n>> \in OpToRel(<, Nat))
    BY <1>1, <2>1, WFMin, NatLessThanWellFounded
  <2>3. \A m \in S : ~(m < n)
    BY <2>1, <2>2 DEF OpToRel
  <2>4. \A m \in S : n <= m
    BY <2>1, <2>3
  <2> QED  BY <2>4
<1>3. Lowest(t) \in S
  BY <1>2 DEF Lowest
<1> QED  BY <1>3 DEF Open

(* Closing leaves the other numbers alone.                                 *)
LEMMA ClosedTable ==
  ASSUME NEW t \in [Fds -> Objects], NEW ns
  PROVE  /\ Close(t, ns) \in [Fds -> Objects]
         /\ \A n \in Fds : Close(t, ns)[n] = IF n \in ns THEN Free ELSE t[n]
         /\ Distinct(t) => Distinct(Close(t, ns))
<1>1. Free \in Objects
  BY DEF Objects
<1> QED  BY <1>1 DEF Close, Distinct

LEMMA EmptyTable == /\ Empty \in [Fds -> Objects] /\ Distinct(Empty)
                    /\ \A n \in Fds : Empty[n] = Free
                    /\ \A n \in Fds : Empty[n] # Null
  BY Kinds DEF Empty, Objects, Distinct

(* A new descriptor for something not yet open.                            *)
LEMMA OpenedTable ==
  ASSUME NEW t \in [Fds -> Objects], Distinct(t), \A n \in Fds : t[n] # Null,
         NEW x \in Ends \cup Files, ~Holds(t, x),
         NEW u \in [Fds -> Objects],
         \A n \in Fds : u[n] = IF n = Lowest(t) THEN x ELSE t[n]
  PROVE  /\ Distinct(u) /\ \A n \in Fds : u[n] # Null
         /\ Lowest(t) \in Fds /\ t[Lowest(t)] = Free
         /\ \A y : y # Free => (Holds(u, y) <=> (Holds(t, y) \/ y = x))
         /\ Open(t) \subseteq Open(u)
<1> DEFINE l == Lowest(t)
<1>1. l \in Fds /\ t[l] = Free
  BY LowestFree
<1> HIDE DEF l
<1>2. x \in Objects /\ x # Free /\ x # Null
  BY KindSets
<1>3. \A n \in Fds : u[n] = IF n = l THEN x ELSE t[n]
  BY DEF l
<1>4. Distinct(u)
  <2>1. \A n \in Fds : t[n] # x
    BY DEF Holds
  <2> QED  BY <1>3, <2>1 DEF Distinct
<1>5. \A n \in Fds : u[n] # Null
  BY <1>2, <1>3
<1>6. \A y : y # Free => (Holds(u, y) <=> (Holds(t, y) \/ y = x))
  BY <1>1, <1>3 DEF Holds
<1>7. Open(t) \subseteq Open(u)
  BY <1>2, <1>3 DEF Open
<1> QED  BY <1>1, <1>3, <1>4, <1>5, <1>6, <1>7 DEF l

(* Closing what names some things, and nothing else.                       *)
LEMMA ClosedNames ==
  ASSUME NEW t \in [Fds -> Objects], NEW objs, NEW u, u = Close(t, Named(t, objs))
  PROVE  /\ \A n \in Fds : u[n] = t[n] \/ u[n] = Free
         /\ \A y : y # Free => (Holds(u, y) <=> (Holds(t, y) /\ y \notin objs))
<1>1. \A n \in Fds : u[n] = IF n \in Named(t, objs) THEN Free ELSE t[n]
  BY ClosedTable
<1>2. \A n \in Fds : n \in Named(t, objs) <=> t[n] \in objs
  BY DEF Named
<1> HIDE DEF Close
<1> QED  BY <1>1, <1>2 DEF Holds

-----------------------------------------------------------------------------
(* What each side's steps leave alone.                                     *)

(* A step of the host that changes nothing of the workers alive.           *)
LEMMA ChildrenKept ==
  ASSUME ForkInv, UNCHANGED childside,
         \A w \in Workers : Alive(w) => /\ fds'[w] = fds[w] /\ plan'[w] = plan[w]
                                        /\ opened[w] => opened'[w]
                                        /\ closed[w] => closed'[w]
  PROVE  CopyInv' /\ KeptInv' /\ LeftInv'
<1> USE DEF ForkInv, childside
<1>1. \A w \in Workers : (Alive(w))' <=> Alive(w)
  BY DEF Alive
<1>2. CopyInv'
  BY <1>1 DEF CopyInv, CopyOf
<1>3. KeptInv'
  BY <1>1 DEF KeptInv, KeptOf
<1>4. LeftInv'
  <2> SUFFICES ASSUME NEW w \in Workers, Alive(w), ~opened[w]
               PROVE  /\ (Named(table[w], Ends \ {ChildEnd(w)}) \subseteq known[w])'
                      /\ (plan[w].closes => Named(table[w], Files) \subseteq fds[w])'
                      /\ (Serving(w) => fds[w] = {})'
    BY <1>1 DEF LeftInv, LeftOf
  <2> QED  BY DEF LeftInv, LeftOf, Named, Serving
<1> QED  BY <1>2, <1>3, <1>4

LEMMA StagesKept ==
  ASSUME ForkInv, UNCHANGED childside,
         \A w \in Workers : step'[w] = "off" \/ (InWindow(w))' => step[w] = "off" \/ InWindow(w)
  PROVE  StageInv'
<1> QED  BY DEF ForkInv, childside, StageInv, StageOf

(* A step of a worker.                                                     *)
LEMMA HostKept ==
  ASSUME ForkInv, NEW w \in Workers, child[w] # "none",
         UNCHANGED <<host, up, made, registry, step, conns>>,
         \A v \in Workers \ {w} : /\ fds'[v] = fds[v] /\ plan'[v] = plan[v]
                                  /\ opened'[v] = opened[v] /\ closed'[v] = closed[v]
  PROVE  HostInv' /\ WindowInv'
<1> USE DEF ForkInv
<1>1. ~InWindow(w)
  BY DEF StageInv, StageOf
<1>2. \A v \in Workers : /\ (InWindow(v))' <=> InWindow(v)
                         /\ (Unfinished(v))' <=> Unfinished(v)
  BY DEF InWindow, Unfinished
<1>3. HostInv'
  BY <1>2 DEF HostInv, Distinct, Holds
<1>4. WindowInv'
  <2> SUFFICES ASSUME NEW v \in Workers, InWindow(v), v # w
               PROVE  /\ (~plan[v].forking => fds[v] = {})'
                      /\ (NumbersKept(v))'
                      /\ (NoOther(v))'
    BY <1>1, <1>2 DEF WindowInv
  <2> QED  BY <1>2 DEF WindowInv, NumbersKept, NoOther, Open, Holds, Named
<1> QED  BY <1>3, <1>4

-----------------------------------------------------------------------------
(* The host's other code.                                                  *)

LEMMA AmbientOpensKeeps ==
  ASSUME ForkInv, NEW a \in Ambient, AmbientOpens(a)
  PROVE  ForkInv'
<1> USE DEF ForkInv, AmbientOpens
<1>0. UNCHANGED <<up, registry, step, plan, fds, conns, table, child, known, wrappers, closed>>
  BY DEF childside
<1>1. File(a) \in Files /\ ~Holds(host, File(a))
  BY KindSets DEF HostInv
<1>2. /\ host' \in [Fds -> Objects] /\ Distinct(host') /\ \A n \in Fds : host'[n] # Null
      /\ Lowest(host) \in Fds /\ host[Lowest(host)] = Free
      /\ \A n \in Fds : host'[n] = IF n = Lowest(host) THEN File(a) ELSE host[n]
      /\ \A y : y # Free => (Holds(host', y) <=> (Holds(host, y) \/ y = File(a)))
      /\ Open(host) \subseteq Open(host')
  <2>1. /\ host \in [Fds -> Objects] /\ Distinct(host) /\ \A n \in Fds : host[n] # Null
        /\ File(a) \in Ends \cup Files /\ host' \in [Fds -> Objects]
        /\ \A n \in Fds : host'[n] = IF n = Lowest(host) THEN File(a) ELSE host[n]
    BY <1>1, KindSets DEF HostInv, ForkFdsTypeOK
  <2> HIDE DEF ForkInv, AmbientOpens
  <2> QED  BY <1>1, <2>1, OpenedTable
<1>3. opened' \in [Workers -> BOOLEAN]
  BY DEF ForkFdsTypeOK
<1>4. ForkFdsTypeOK'
  BY <1>0, <1>2, <1>3 DEF ForkFdsTypeOK
<1>5. \A v \in Workers : /\ (InWindow(v))' <=> InWindow(v)
                         /\ (Unfinished(v))' <=> Unfinished(v)
  BY <1>0 DEF InWindow, Unfinished
<1>6. HostInv'
  <2>1. \A b \in Ambient : Holds(host', File(b)) => b \in made'
    BY <1>2, Kinds DEF HostInv
  <2>2. \A w \in Workers :
           /\ Holds(host', ChildEnd(w)) <=> Holds(host, ChildEnd(w))
           /\ Holds(host', ParentEnd(w)) <=> Holds(host, ParentEnd(w))
    BY <1>2, Kinds
  <2> QED  BY <1>0, <1>2, <1>5, <2>1, <2>2 DEF HostInv
<1>7. WindowInv'
  <2> SUFFICES ASSUME NEW v \in Workers, InWindow(v)
               PROVE  /\ (~plan[v].forking => fds[v] = {})'
                      /\ opened'[v]
                      /\ (NumbersKept(v))'
    BY <1>5 DEF WindowInv, NoOther
  <2>1. \A n \in fds[v] : host[n] # ChildEnd(v) => host'[n] # ChildEnd(v)
    BY <1>2, Kinds DEF ForkFdsTypeOK
  <2> QED  BY <1>0, <1>2, <2>1 DEF WindowInv, NumbersKept
<1>8. StageInv'
  BY <1>0, <1>5, StagesKept DEF childside
<1>9. CopyInv' /\ KeptInv' /\ LeftInv'
  BY <1>0, ChildrenKept DEF childside, ForkFdsTypeOK
<1> QED  BY <1>4, <1>6, <1>7, <1>8, <1>9

LEMMA AmbientClosesKeeps ==
  ASSUME ForkInv, NEW n \in Fds, AmbientCloses(n)
  PROVE  ForkInv'
<1> USE DEF ForkInv, AmbientCloses
<1>0. UNCHANGED <<up, made, registry, step, plan, fds, conns, table, child, known, wrappers, opened>>
  BY DEF childside
<1>1. \E a \in Ambient : host[n] = File(a)
  BY KindSets
<1>2. /\ host' \in [Fds -> Objects] /\ Distinct(host')
      /\ \A m \in Fds : host'[m] = IF m = n THEN Free ELSE host[m]
  BY ClosedTable, SMTT(30) DEF HostInv, ForkFdsTypeOK
<1>3. closed' \in [Workers -> BOOLEAN]
  BY DEF ForkFdsTypeOK
<1>4. ForkFdsTypeOK'
  BY <1>0, <1>2, <1>3 DEF ForkFdsTypeOK
<1>5. \A v \in Workers : /\ (InWindow(v))' <=> InWindow(v)
                         /\ (Unfinished(v))' <=> Unfinished(v)
  BY <1>0 DEF InWindow, Unfinished
<1>6. \A w \in Workers : /\ Holds(host', ChildEnd(w)) <=> Holds(host, ChildEnd(w))
                         /\ Holds(host', ParentEnd(w)) <=> Holds(host, ParentEnd(w))
  BY <1>1, <1>2, Kinds DEF Holds
<1>7. HostInv'
  <2>1. \A b \in Ambient : Holds(host', File(b)) => b \in made'
    BY <1>0, <1>2, Kinds DEF HostInv, Holds
  <2>2. \A m \in Fds : host'[m] # Null
    BY <1>2, Kinds DEF HostInv
  <2> QED  BY <1>0, <1>2, <1>5, <1>6, <2>1, <2>2 DEF HostInv
<1>8. WindowInv'
  <2> SUFFICES ASSUME NEW v \in Workers, InWindow(v)
               PROVE  /\ (~plan[v].forking => fds[v] = {})'
                      /\ closed'[v]
                      /\ (NoOther(v))'
    BY <1>5 DEF WindowInv, NumbersKept
  <2>1. Named(host', Files) \subseteq Named(host, Files)
    BY <1>2, KindSets DEF Named
  <2> QED  BY <1>0, <1>5, <1>6, <2>1 DEF WindowInv, NoOther
<1>9. StageInv'
  BY <1>0, <1>5, StagesKept DEF childside
<1>10. CopyInv' /\ KeptInv' /\ LeftInv'
  BY <1>0, ChildrenKept DEF childside, ForkFdsTypeOK
<1> QED  BY <1>4, <1>7, <1>8, <1>9, <1>10

LEMMA HostDiesKeeps ==
  ASSUME ForkInv, HostDies
  PROVE  ForkInv'
<1> USE DEF ForkInv, HostDies
<1>0. UNCHANGED <<plan, fds, table, child, known, wrappers, opened, closed>>
  BY DEF childside, ghosts
<1>1. \A w \in Workers : /\ step'[w] = "gone" /\ ~(InWindow(w))'
  BY DEF InWindow
<1>2. up' \in BOOLEAN /\ conns' \in [Workers -> SUBSET Workers] /\ step' \in [Workers -> Steps]
  BY DEF Steps
<1>3. ForkFdsTypeOK'
  BY <1>0, <1>2, EmptyTable DEF ForkFdsTypeOK
<1>4. HostInv'
  <2>1. \A x : x # Free => ~Holds(host', x)
    BY EmptyTable DEF Holds
  <2> QED  BY <1>1, <2>1, EmptyTable, Kinds DEF HostInv
<1>5. WindowInv'
  BY <1>1 DEF WindowInv
<1>6. StageInv'
  BY <1>0, <1>1, StagesKept DEF childside
<1>7. CopyInv' /\ KeptInv' /\ LeftInv'
  BY <1>0, ChildrenKept DEF childside, ForkFdsTypeOK
<1> QED  BY <1>3, <1>4, <1>5, <1>6, <1>7

-----------------------------------------------------------------------------
(* A start, on the host's side.                                            *)

LEMMA SnapKeeps ==
  ASSUME ForkInv, NEW w \in Workers, NEW p \in [forking : BOOLEAN, closes : BOOLEAN],
         Snap(w, p)
  PROVE  ForkInv'
<1> USE DEF ForkInv, Snap, Advance
<1>0. UNCHANGED <<host, up, made, registry, conns, table, child, known, wrappers, closed>>
  BY DEF childside
<1>1. /\ plan' = [plan EXCEPT ![w] = p] /\ plan'[w] = p
      /\ \A v \in Workers \ {w} : plan'[v] = plan[v]
  BY DEF ForkFdsTypeOK
<1>2. /\ fds'[w] = Snapshot(p) /\ \A v \in Workers \ {w} : fds'[v] = fds[v]
      /\ Snapshot(p) \subseteq Open(host) /\ Open(host) \subseteq Fds
      /\ p.closes /\ p.forking => Snapshot(p) = Open(host)
      /\ ~p.forking => Snapshot(p) = {}
  BY DEF ForkFdsTypeOK, Snapshot, Open
<1>3. /\ opened'[w] = (\E v \in Workers \ {w} : Unfinished(v))
      /\ \A v \in Workers \ {w} : opened'[v] = opened[v]
      /\ opened' \in [Workers -> BOOLEAN]
  BY DEF ForkFdsTypeOK
<1>4. /\ step'[w] = "snapped" /\ \A v \in Workers \ {w} : step'[v] = step[v]
      /\ step' \in [Workers -> Steps] /\ step[w] = "off"
  BY DEF ForkFdsTypeOK, Steps
<1>5. ForkFdsTypeOK'
  <2>1. fds' \in [Workers -> SUBSET Fds] /\ plan' \in [Workers -> [forking : BOOLEAN, closes : BOOLEAN]]
    BY <1>2 DEF ForkFdsTypeOK
  <2> QED  BY <1>0, <1>3, <1>4, <2>1 DEF ForkFdsTypeOK
<1>6. \A v \in Workers : /\ (InWindow(v))' <=> InWindow(v) \/ v = w
                         /\ (Unfinished(v))' <=> Unfinished(v)
  BY <1>4 DEF InWindow, Unfinished
<1>7. HostInv'
  BY <1>0, <1>4, <1>6 DEF HostInv, Distinct, Holds
<1>8. ~Holds(host, ChildEnd(w))
  BY <1>4 DEF HostInv, Unfinished
<1>9. WindowInv'
  <2> SUFFICES ASSUME NEW v \in Workers, (InWindow(v))'
               PROVE  /\ (~plan[v].forking => fds[v] = {})'
                      /\ (NumbersKept(v))'
                      /\ (NoOther(v))'
    BY DEF WindowInv
  <2>0. UNCHANGED <<Open(host), Named(host, Files)>> /\ \A u : (Holds(host, ParentEnd(u)))' <=> Holds(host, ParentEnd(u))
    BY <1>0 DEF Open, Named, Holds
  <2>1. CASE v = w
    <3>1. \A n \in Fds : host[n] # ChildEnd(w)
      BY <1>8 DEF Holds
    <3>2. Named(host, Files) \subseteq Open(host)
      BY KindSets DEF Named, Open
    <3>3. ~opened'[w] => \A u \in Workers \ {w} : ~Unfinished(u)
      BY <1>3
    <3> QED  BY <1>0, <1>1, <1>2, <1>4, <1>6, <2>0, <2>1, <3>1, <3>2, <3>3 DEF NumbersKept, NoOther
  <2>2. CASE v # w
    <3>1. InWindow(v)
      BY <1>6, <2>2
    <3> QED  BY <1>0, <1>1, <1>2, <1>3, <1>4, <1>6, <2>0, <2>2, <3>1 DEF WindowInv, NumbersKept, NoOther
  <2> QED  BY <2>1, <2>2
<1>10. StageInv'
  BY <1>0, <1>4, <1>6, StagesKept DEF childside
<1>11. CopyInv' /\ KeptInv' /\ LeftInv'
  <2>1. ~Alive(w)
    BY <1>4 DEF StageInv, StageOf, Alive
  <2> QED  BY <1>0, <1>1, <1>2, <1>3, <2>1, ChildrenKept DEF childside
<1> QED  BY <1>5, <1>7, <1>9, <1>10, <1>11

LEMMA MakePipeKeeps ==
  ASSUME ForkInv, NEW w \in Workers, MakePipe(w)
  PROVE  ForkInv'
<1> USE DEF ForkInv
<1>0. /\ UNCHANGED <<up, made, registry, plan, fds, conns, table, child, known, wrappers, closed>>
      /\ step[w] = "snapped" /\ opened' = Note(opened, w)
  BY DEF MakePipe, childside
<1> DEFINE p == Lowest(host)
           h == [host EXCEPT ![p] = ParentEnd(w)]
           c == Lowest(h)
<1>1. host' = [h EXCEPT ![c] = ChildEnd(w)]
  BY DEF MakePipe
<1>2. /\ ParentEnd(w) \in Ends \cup Files /\ ChildEnd(w) \in Ends \cup Files
      /\ ParentEnd(w) \in Objects /\ ChildEnd(w) \in Objects
      /\ ~Holds(host, ParentEnd(w)) /\ ~Holds(host, ChildEnd(w))
  BY <1>0, KindSets DEF HostInv, Unfinished
<1>3. /\ host \in [Fds -> Objects] /\ Distinct(host) /\ \A n \in Fds : host[n] # Null
      /\ h \in [Fds -> Objects]
      /\ \A n \in Fds : h[n] = IF n = Lowest(host) THEN ParentEnd(w) ELSE host[n]
  BY <1>2 DEF HostInv, ForkFdsTypeOK
<1> HIDE DEF h
<1>4. /\ Distinct(h) /\ \A n \in Fds : h[n] # Null
      /\ p \in Fds /\ host[p] = Free
      /\ \A y : y # Free => (Holds(h, y) <=> (Holds(host, y) \/ y = ParentEnd(w)))
      /\ Open(host) \subseteq Open(h)
  BY <1>2, <1>3, OpenedTable
<1>5. /\ host' \in [Fds -> Objects]
      /\ \A n \in Fds : host'[n] = IF n = Lowest(h) THEN ChildEnd(w) ELSE h[n]
      /\ ~Holds(h, ChildEnd(w))
  BY <1>1, <1>2, <1>3, <1>4, Kinds
<1>6. /\ Distinct(host') /\ \A n \in Fds : host'[n] # Null
      /\ c \in Fds /\ h[c] = Free
      /\ \A y : y # Free => (Holds(host', y) <=> (Holds(h, y) \/ y = ChildEnd(w)))
      /\ Open(h) \subseteq Open(host')
  BY <1>2, <1>3, <1>4, <1>5, OpenedTable
<1> HIDE DEF c, p
<1>7. \A n \in Fds : host'[n] = host[n] \/ (n \notin Open(host) /\ host'[n] \in {ParentEnd(w), ChildEnd(w)})
  BY <1>3, <1>4, <1>5, <1>6 DEF Open, c, p
<1>8. /\ step'[w] = "piped" /\ \A v \in Workers \ {w} : step'[v] = step[v]
      /\ step' \in [Workers -> Steps]
  BY DEF MakePipe, Advance, ForkFdsTypeOK, Steps
<1>9. /\ opened' \in [Workers -> BOOLEAN] /\ opened'[w] = opened[w]
      /\ \A v \in Workers : opened[v] => opened'[v]
      /\ \A v \in Workers \ {w} : InWindow(v) => opened'[v]
  BY <1>0 DEF Note, ForkFdsTypeOK
<1>10. ForkFdsTypeOK'
  BY <1>0, <1>5, <1>8, <1>9 DEF ForkFdsTypeOK
<1>11. \A v \in Workers : /\ (InWindow(v))' <=> InWindow(v)
                          /\ (Unfinished(v))' <=> Unfinished(v) \/ v = w
  BY <1>0, <1>8 DEF InWindow, Unfinished
<1>12. HostInv'
  <2>1. \A a \in Ambient : Holds(host', File(a)) => Holds(host, File(a))
    BY <1>4, <1>6, Kinds
  <2>2. \A v \in Workers : /\ Holds(host', ChildEnd(v)) <=> Holds(host, ChildEnd(v)) \/ v = w
                           /\ Holds(host', ParentEnd(v)) <=> Holds(host, ParentEnd(v)) \/ v = w
    BY <1>4, <1>6, Kinds
  <2> QED  BY <1>0, <1>6, <1>8, <1>11, <2>1, <2>2 DEF HostInv
<1>13. WindowInv'
  <2> SUFFICES ASSUME NEW v \in Workers, InWindow(v)
               PROVE  /\ (~plan[v].forking => fds[v] = {})'
                      /\ (NumbersKept(v))' /\ (NoOther(v))'
    BY <1>11 DEF WindowInv
  <2>1. (~plan[v].forking => fds[v] = {})'
    BY <1>0 DEF WindowInv
  <2>2. (NumbersKept(v))'
    <3>1. fds[v] \subseteq Fds /\ Open(host) \subseteq Open(host')
      BY <1>4, <1>6 DEF ForkFdsTypeOK
    <3>2. CASE v = w
      <4>1. ~closed[w] => \A n \in fds[w] : host'[n] = host[n]
        BY <1>0, <1>7, <3>1, <3>2 DEF WindowInv, NumbersKept
      <4> QED  BY <1>0, <1>8, <3>2, <4>1 DEF WindowInv, NumbersKept
    <3>3. CASE v # w
      BY <1>0, <1>7, <1>8, <3>1, <3>3, Kinds DEF WindowInv, NumbersKept
    <3> QED  BY <3>2, <3>3
  <2>3. (NoOther(v))'
    <3>1. Named(host', Files) \subseteq Named(host, Files)
      BY <1>7, KindSets DEF Named
    <3>2. CASE v = w
      BY <1>0, <1>8, <1>9, <1>11, <3>1, <3>2 DEF WindowInv, NoOther
    <3>3. CASE v # w
      BY <1>9, <3>3 DEF NoOther
    <3> QED  BY <3>2, <3>3
  <2> QED  BY <2>1, <2>2, <2>3
<1>14. StageInv'
  BY <1>0, <1>8, <1>11, StagesKept DEF childside
<1>15. CopyInv' /\ KeptInv' /\ LeftInv'
  BY <1>0, <1>9, ChildrenKept DEF childside
<1> QED  BY <1>10, <1>12, <1>13, <1>14, <1>15

LEMMA RegisterKeeps ==
  ASSUME ForkInv, NEW w \in Workers, Register(w)
  PROVE  ForkInv'
<1> USE DEF ForkInv
<1>0. /\ UNCHANGED <<host, up, made, plan, fds, conns, table, child, known, wrappers, opened, closed>>
      /\ step[w] = "piped" /\ registry' = registry \cup {w}
  BY DEF Register, Registers, childside, ghosts
<1>1. /\ step'[w] = "registered" /\ \A v \in Workers \ {w} : step'[v] = step[v]
      /\ step' \in [Workers -> Steps]
  BY DEF Register, Advance, ForkFdsTypeOK, Steps
<1>2. ForkFdsTypeOK'
  BY <1>0, <1>1 DEF ForkFdsTypeOK
<1>3. \A v \in Workers : /\ (InWindow(v))' <=> InWindow(v)
                         /\ (Unfinished(v))' <=> Unfinished(v)
  BY <1>0, <1>1 DEF InWindow, Unfinished
<1>4. /\ UNCHANGED <<Open(host), Named(host, Files), Distinct(host)>>
      /\ \A x : (Holds(host, x))' <=> Holds(host, x)
  BY <1>0 DEF Open, Named, Holds, Distinct
<1>5. HostInv'
  <2>1. \A a \in Ambient : (Holds(host, File(a)))' => a \in made'
    BY <1>0 DEF HostInv, Holds
  <2>2. \A v \in Workers : /\ (Holds(host, ChildEnd(v)))' <=> Holds(host, ChildEnd(v))
                           /\ (Holds(host, ParentEnd(v)))' <=> Holds(host, ParentEnd(v))
    BY <1>0 DEF Holds
  <2> QED  BY <1>0, <1>1, <1>3, <1>4, <2>1, <2>2 DEF HostInv
<1>6. WindowInv'
  <2> SUFFICES ASSUME NEW v \in Workers, InWindow(v)
               PROVE  /\ (~plan[v].forking => fds[v] = {})'
                      /\ (NumbersKept(v))' /\ (NoOther(v))'
    BY <1>3 DEF WindowInv
  <2>1. step'[v] = "snapped" <=> step[v] = "snapped"
    BY <1>0, <1>1
  <2>2. ~opened[v] => step'[v] # "listed" \/ v # w
    BY <1>1
  <2>3. (NoOther(v))'
    BY <1>0, <1>1, <1>3, <1>4, <2>2 DEF WindowInv, NoOther, Holds
  <2> QED  BY <1>0, <1>4, <2>1, <2>3 DEF WindowInv, NumbersKept
<1>7. StageInv'
  BY <1>0, <1>1, <1>3, StagesKept DEF childside
<1>8. CopyInv' /\ KeptInv' /\ LeftInv'
  BY <1>0, ChildrenKept DEF childside
<1> QED  BY <1>2, <1>5, <1>6, <1>7, <1>8

LEMMA ListKeeps ==
  ASSUME ForkInv, NEW w \in Workers, List(w)
  PROVE  ForkInv'
<1> USE DEF ForkInv
<1>0. /\ UNCHANGED <<host, up, made, registry, plan, fds, table, child, known, wrappers, opened, closed>>
      /\ step[w] = "registered"
      /\ conns' = [conns EXCEPT ![w] = IF plan[w].forking THEN registry ELSE {}]
  BY DEF List, childside, ghosts
<1>1. /\ step'[w] = "listed" /\ \A v \in Workers \ {w} : step'[v] = step[v]
      /\ step' \in [Workers -> Steps]
  BY DEF List, Advance, ForkFdsTypeOK, Steps
<1>2. ForkFdsTypeOK'
  BY <1>0, <1>1 DEF ForkFdsTypeOK
<1>3. \A v \in Workers : /\ (InWindow(v))' <=> InWindow(v)
                         /\ (Unfinished(v))' <=> Unfinished(v)
  BY <1>0, <1>1 DEF InWindow, Unfinished
<1>4. UNCHANGED <<Open(host), Named(host, Files), Distinct(host)>>
  BY <1>0 DEF Open, Named, Distinct
<1>5. HostInv'
  <2>1. \A a \in Ambient : (Holds(host, File(a)))' => a \in made'
    BY <1>0 DEF HostInv, Holds
  <2>2. \A v \in Workers : /\ (Holds(host, ChildEnd(v)))' <=> Holds(host, ChildEnd(v))
                           /\ (Holds(host, ParentEnd(v)))' <=> Holds(host, ParentEnd(v))
    BY <1>0 DEF Holds
  <2> QED  BY <1>0, <1>1, <1>3, <1>4, <2>1, <2>2 DEF HostInv
<1>6. WindowInv'
  <2> SUFFICES ASSUME NEW v \in Workers, InWindow(v)
               PROVE  /\ (~plan[v].forking => fds[v] = {})'
                      /\ (NumbersKept(v))' /\ (NoOther(v))'
    BY <1>3 DEF WindowInv
  <2>1. step'[v] = "snapped" <=> step[v] = "snapped"
    BY <1>0, <1>1
  <2>2. CASE v # w
    <3>1. ~opened[v] => FALSE
      BY <1>0, <2>2 DEF WindowInv, NoOther, Unfinished
    <3> QED  BY <1>0, <1>4, <2>1, <3>1 DEF WindowInv, NumbersKept, NoOther
  <2>3. CASE v = w
    <3> SUFFICES ASSUME ~opened[w], plan[w].forking, NEW u \in Workers, Holds(host, ParentEnd(u))
                 PROVE  u \in registry
      BY <1>0, <1>1, <1>3, <1>4, <2>1, <2>3 DEF WindowInv, NumbersKept, NoOther, Holds, ForkFdsTypeOK
    <3>1. Unfinished(u) \/ step[u] = "on"
      BY DEF HostInv
    <3>2. u = w \/ step[u] = "on"
      BY <2>3, <3>1 DEF WindowInv, NoOther
    <3> QED  BY <1>0, <3>2 DEF HostInv
  <2> QED  BY <2>2, <2>3
<1>7. StageInv'
  BY <1>0, <1>1, <1>3, StagesKept DEF childside
<1>8. CopyInv' /\ KeptInv' /\ LeftInv'
  BY <1>0, ChildrenKept DEF childside
<1> QED  BY <1>2, <1>5, <1>6, <1>7, <1>8

(* The three ways an end of w's pipe is closed: which tables and windows   *)
(* remain as they should be.                                               *)
LEMMA EndsClosed ==
  ASSUME ForkInv, NEW w \in Workers, ~InWindow(w)',
         NEW objs \in SUBSET {ParentEnd(w), ChildEnd(w)},
         host' = Close(host, Named(host, objs)), closed' = Note(closed, w),
         UNCHANGED <<plan, made, opened>>,
         \A v \in Workers \ {w} : /\ step'[v] = step[v] /\ fds'[v] = fds[v]
                                  /\ conns'[v] = conns[v],
         (Unfinished(w))' => Unfinished(w)
  PROVE  /\ host' \in [Fds -> Objects] /\ Distinct(host') /\ \A n \in Fds : host'[n] # Null
         /\ closed' \in [Workers -> BOOLEAN] /\ \A v \in Workers : closed[v] => closed'[v]
         /\ \A y : y # Free => (Holds(host', y) <=> (Holds(host, y) /\ y \notin objs))
         /\ \A a \in Ambient : Holds(host', File(a)) => a \in made'
         /\ WindowInv'
<1> USE DEF ForkInv
<1>1. /\ host' \in [Fds -> Objects] /\ Distinct(host')
      /\ \A n \in Fds : host'[n] = host[n] \/ host'[n] = Free
      /\ \A y : y # Free => (Holds(host', y) <=> (Holds(host, y) /\ y \notin objs))
  <2>1. host \in [Fds -> Objects] /\ Distinct(host)
    BY DEF HostInv, ForkFdsTypeOK
  <2> QED  BY <2>1, ClosedTable, ClosedNames
<1>2. \A n \in Fds : host'[n] # Null
  BY <1>1, Kinds DEF HostInv
<1>3. /\ closed' \in [Workers -> BOOLEAN] /\ \A v \in Workers : closed[v] => closed'[v]
      /\ \A v \in Workers \ {w} : InWindow(v) => closed'[v]
  BY DEF Note, ForkFdsTypeOK
<1>4. \A a \in Ambient : Holds(host', File(a)) => a \in made'
  BY <1>1, Kinds DEF HostInv
<1>5. WindowInv'
  <2> SUFFICES ASSUME NEW v \in Workers, (InWindow(v))'
               PROVE  /\ (~plan[v].forking => fds[v] = {})'
                      /\ (NumbersKept(v))' /\ (NoOther(v))'
    BY DEF WindowInv
  <2>1. v # w /\ InWindow(v)
    BY DEF InWindow
  <2>2. Named(host', Files) \subseteq Named(host, Files)
    BY <1>1, KindSets DEF Named
  <2>3. \A u \in Workers : Holds(host', ParentEnd(u)) => Holds(host, ParentEnd(u))
    BY <1>1, Kinds
  <2>4. \A u \in Workers : (Unfinished(u))' => Unfinished(u)
    BY DEF Unfinished
  <2>5. (NumbersKept(v))'
    BY <1>3, <2>1 DEF NumbersKept
  <2>6. (NoOther(v))'
    BY <2>1, <2>2, <2>3, <2>4 DEF WindowInv, NoOther
  <2> QED  BY <2>1, <2>5, <2>6 DEF WindowInv
<1> QED  BY <1>1, <1>2, <1>3, <1>4, <1>5

LEMMA StartFailsKeeps ==
  ASSUME ForkInv, NEW w \in Workers, StartFails(w)
  PROVE  ForkInv'
<1> USE DEF ForkInv
<1>0. /\ UNCHANGED <<up, made, plan, table, child, known, wrappers, opened>>
      /\ step[w] = "listed" /\ registry' = registry \ {w}
      /\ host' = Close(host, Named(host, {ParentEnd(w), ChildEnd(w)}))
      /\ closed' = Note(closed, w)
      /\ fds' = [fds EXCEPT ![w] = {}] /\ conns' = [conns EXCEPT ![w] = {}]
  BY DEF StartFails, childside
<1>1. /\ step'[w] = "gone" /\ \A v \in Workers \ {w} : step'[v] = step[v]
      /\ step' \in [Workers -> Steps]
  BY DEF StartFails, Advance, ForkFdsTypeOK, Steps
<1>2. /\ \A v \in Workers \ {w} : fds'[v] = fds[v] /\ conns'[v] = conns[v]
      /\ fds' \in [Workers -> SUBSET Fds] /\ conns' \in [Workers -> SUBSET Workers]
  BY <1>0 DEF ForkFdsTypeOK
<1>3. ~(InWindow(w))' /\ ~(Unfinished(w))'
  BY <1>1 DEF InWindow, Unfinished
<1>4. /\ host' \in [Fds -> Objects] /\ Distinct(host') /\ \A n \in Fds : host'[n] # Null
      /\ closed' \in [Workers -> BOOLEAN] /\ \A v \in Workers : closed[v] => closed'[v]
      /\ \A y : y # Free => (Holds(host', y) <=> (Holds(host, y) /\ y \notin {ParentEnd(w), ChildEnd(w)}))
      /\ \A a \in Ambient : Holds(host', File(a)) => a \in made'
      /\ WindowInv'
  <2> HIDE DEF ForkInv
  <2> QED  BY <1>0, <1>1, <1>2, <1>3, EndsClosed
<1>5. ForkFdsTypeOK'
  BY <1>0, <1>1, <1>2, <1>4 DEF ForkFdsTypeOK
<1>6. HostInv'
  <2>1. \A v \in Workers : /\ Holds(host', ChildEnd(v)) <=> Holds(host, ChildEnd(v)) /\ v # w
                           /\ Holds(host', ParentEnd(v)) <=> Holds(host, ParentEnd(v)) /\ v # w
    BY <1>4, Kinds
  <2>2. \A v \in Workers \ {w} : (Unfinished(v))' <=> Unfinished(v)
    BY <1>1 DEF Unfinished
  <2> QED  BY <1>0, <1>1, <1>4, <2>1, <2>2 DEF HostInv
<1>7. StageInv'
  BY <1>0, <1>1, StagesKept DEF childside, InWindow
<1>8. CopyInv' /\ KeptInv' /\ LeftInv'
  <2>1. ~Alive(w)
    BY <1>0 DEF StageInv, StageOf, InWindow, Alive
  <2> QED  BY <1>0, <1>2, <1>4, <2>1, ChildrenKept DEF childside
<1> QED  BY <1>4, <1>5, <1>6, <1>7, <1>8

LEMMA ClosesChildEndKeeps ==
  ASSUME ForkInv, NEW w \in Workers, ClosesChildEnd(w)
  PROVE  ForkInv'
<1> USE DEF ForkInv
<1>0. /\ UNCHANGED <<up, made, registry, plan, fds, conns, table, child, known, wrappers, opened>>
      /\ step[w] = "forked" /\ host' = Close(host, Named(host, {ChildEnd(w)}))
      /\ closed' = Note(closed, w)
  BY DEF ClosesChildEnd, childside
<1>1. /\ step'[w] = "on" /\ \A v \in Workers \ {w} : step'[v] = step[v]
      /\ step' \in [Workers -> Steps]
  BY DEF ClosesChildEnd, Advance, ForkFdsTypeOK, Steps
<1>2. ~(InWindow(w))' /\ ~(Unfinished(w))'
  BY <1>1 DEF InWindow, Unfinished
<1>3. /\ host' \in [Fds -> Objects] /\ Distinct(host') /\ \A n \in Fds : host'[n] # Null
      /\ closed' \in [Workers -> BOOLEAN] /\ \A v \in Workers : closed[v] => closed'[v]
      /\ \A y : y # Free => (Holds(host', y) <=> (Holds(host, y) /\ y \notin {ChildEnd(w)}))
      /\ \A a \in Ambient : Holds(host', File(a)) => a \in made'
      /\ WindowInv'
  <2> HIDE DEF ForkInv
  <2> QED  BY <1>0, <1>1, <1>2, EndsClosed
<1>4. ForkFdsTypeOK'
  BY <1>0, <1>1, <1>3 DEF ForkFdsTypeOK
<1>5. HostInv'
  <2>1. \A v \in Workers : /\ Holds(host', ChildEnd(v)) <=> Holds(host, ChildEnd(v)) /\ v # w
                           /\ Holds(host', ParentEnd(v)) <=> Holds(host, ParentEnd(v))
    BY <1>3, Kinds
  <2>2. \A v \in Workers \ {w} : (Unfinished(v))' <=> Unfinished(v)
    BY <1>1 DEF Unfinished
  <2> QED  BY <1>0, <1>1, <1>3, <2>1, <2>2 DEF HostInv
<1>6. StageInv'
  BY <1>0, <1>1, StagesKept DEF childside, InWindow
<1>7. CopyInv' /\ KeptInv' /\ LeftInv'
  BY <1>0, <1>3, ChildrenKept DEF childside
<1> QED  BY <1>3, <1>4, <1>5, <1>6, <1>7

LEMMA ClosesConnKeeps ==
  ASSUME ForkInv, NEW w \in Workers, ClosesConn(w)
  PROVE  ForkInv'
<1> USE DEF ForkInv
<1>0. /\ UNCHANGED <<up, made, registry, plan, fds, conns, table, child, known, wrappers, opened>>
      /\ step[w] = "on" /\ host' = Close(host, Named(host, {ParentEnd(w)}))
      /\ closed' = Note(closed, w)
  BY DEF ClosesConn, childside
<1>1. /\ step'[w] = "dropping" /\ \A v \in Workers \ {w} : step'[v] = step[v]
      /\ step' \in [Workers -> Steps]
  BY DEF ClosesConn, Advance, ForkFdsTypeOK, Steps
<1>2. ~(InWindow(w))' /\ ~(Unfinished(w))' /\ ~Unfinished(w)
  BY <1>0, <1>1 DEF InWindow, Unfinished
<1>3. /\ host' \in [Fds -> Objects] /\ Distinct(host') /\ \A n \in Fds : host'[n] # Null
      /\ closed' \in [Workers -> BOOLEAN] /\ \A v \in Workers : closed[v] => closed'[v]
      /\ \A y : y # Free => (Holds(host', y) <=> (Holds(host, y) /\ y \notin {ParentEnd(w)}))
      /\ \A a \in Ambient : Holds(host', File(a)) => a \in made'
      /\ WindowInv'
  <2> HIDE DEF ForkInv
  <2> QED  BY <1>0, <1>1, <1>2, EndsClosed
<1>4. ForkFdsTypeOK'
  BY <1>0, <1>1, <1>3 DEF ForkFdsTypeOK
<1>5. HostInv'
  <2>1. \A v \in Workers : /\ Holds(host', ChildEnd(v)) <=> Holds(host, ChildEnd(v))
                           /\ Holds(host', ParentEnd(v)) <=> Holds(host, ParentEnd(v)) /\ v # w
    BY <1>3, Kinds
  <2>2. \A v \in Workers : (Unfinished(v))' <=> Unfinished(v)
    BY <1>1, <1>2 DEF Unfinished
  <2> QED  BY <1>0, <1>1, <1>3, <2>1, <2>2 DEF HostInv
<1>6. StageInv'
  BY <1>0, <1>1, StagesKept DEF childside, InWindow
<1>7. CopyInv' /\ KeptInv' /\ LeftInv'
  BY <1>0, <1>3, ChildrenKept DEF childside
<1> QED  BY <1>3, <1>4, <1>5, <1>6, <1>7

LEMMA UnregisterKeeps ==
  ASSUME ForkInv, NEW w \in Workers, Unregister(w)
  PROVE  ForkInv'
<1> USE DEF ForkInv
<1>0. /\ UNCHANGED <<host, up, made, plan, fds, conns, table, child, known, wrappers, opened, closed>>
      /\ step[w] = "dropping" /\ registry' = registry \ {w}
  BY DEF Unregister, childside, ghosts
<1>1. /\ step'[w] = "gone" /\ \A v \in Workers \ {w} : step'[v] = step[v]
      /\ step' \in [Workers -> Steps]
  BY DEF Unregister, Advance, ForkFdsTypeOK, Steps
<1>2. ForkFdsTypeOK'
  BY <1>0, <1>1 DEF ForkFdsTypeOK
<1>3. \A v \in Workers : /\ (InWindow(v))' <=> InWindow(v)
                         /\ (Unfinished(v))' <=> Unfinished(v)
  BY <1>0, <1>1 DEF InWindow, Unfinished
<1>4. UNCHANGED <<Open(host), Named(host, Files), Distinct(host)>>
  BY <1>0 DEF Open, Named, Distinct
<1>5. \A v \in Workers : /\ (Holds(host, ChildEnd(v)))' <=> Holds(host, ChildEnd(v))
                         /\ (Holds(host, ParentEnd(v)))' <=> Holds(host, ParentEnd(v))
  BY <1>0 DEF Holds
<1>6. HostInv'
  <2>1. \A a \in Ambient : (Holds(host, File(a)))' => a \in made'
    BY <1>0 DEF HostInv, Holds
  <2> QED  BY <1>0, <1>1, <1>3, <1>4, <1>5, <2>1 DEF HostInv
<1>7. WindowInv'
  <2> SUFFICES ASSUME NEW v \in Workers, InWindow(v)
               PROVE  /\ (~plan[v].forking => fds[v] = {})'
                      /\ (NumbersKept(v))' /\ (NoOther(v))'
    BY <1>3 DEF WindowInv
  <2>1. step'[v] = step[v]
    BY <1>0, <1>1 DEF InWindow
  <2>2. (NoOther(v))'
    BY <1>0, <1>3, <1>4, <1>5, <2>1 DEF WindowInv, NoOther
  <2> QED  BY <1>0, <1>4, <2>1, <2>2 DEF WindowInv, NumbersKept
<1>8. StageInv'
  BY <1>0, <1>1, <1>3, StagesKept DEF childside
<1>9. CopyInv' /\ KeptInv' /\ LeftInv'
  BY <1>0, ChildrenKept DEF childside
<1> QED  BY <1>2, <1>6, <1>7, <1>8, <1>9

(* A step that concerns one worker leaves the others as they are.          *)
LEMMA OthersKept ==
  ASSUME ForkInv, NEW w \in Workers,
         \A v \in Workers \ {w} :
            /\ table'[v] = table[v] /\ child'[v] = child[v] /\ known'[v] = known[v]
            /\ wrappers'[v] = wrappers[v] /\ fds'[v] = fds[v] /\ plan'[v] = plan[v]
            /\ opened'[v] = opened[v] /\ closed'[v] = closed[v] /\ step'[v] = step[v],
         (StageOf(w))', (CopyOf(w))', (KeptOf(w))', (LeftOf(w))'
  PROVE  StageInv' /\ CopyInv' /\ KeptInv' /\ LeftInv'
<1> SUFFICES ASSUME NEW v \in Workers, v # w
             PROVE  (StageOf(v))' /\ (CopyOf(v))' /\ (KeptOf(v))' /\ (LeftOf(v))'
  BY DEF StageInv, CopyInv, KeptInv, LeftInv
<1>0. StageOf(v) /\ CopyOf(v) /\ KeptOf(v) /\ LeftOf(v)
  BY DEF ForkInv, StageInv, CopyInv, KeptInv, LeftInv
<1>1. /\ (Alive(v))' <=> Alive(v)
      /\ (Serving(v))' <=> Serving(v)
      /\ (InWindow(v))' <=> InWindow(v)
  BY DEF Alive, Serving, InWindow
<1>2. (StageOf(v))'
  BY <1>0, <1>1 DEF StageOf
<1>3. (CopyOf(v))'
  BY <1>0, <1>1 DEF CopyOf
<1>4. (KeptOf(v))'
  BY <1>0, <1>1 DEF KeptOf
<1>5. (LeftOf(v))'
  BY <1>0, <1>1 DEF LeftOf, Named
<1> QED  BY <1>2, <1>3, <1>4, <1>5

LEMMA StartKeeps ==
  ASSUME ForkInv, NEW w \in Workers, NEW hooked \in SUBSET Fds, Start(w, hooked)
  PROVE  ForkInv'
<1> USE DEF ForkInv
<1>0. /\ UNCHANGED <<host, up, made, registry, plan, fds, opened, closed>>
      /\ step[w] = "listed" /\ hooked \subseteq Named(host, Files)
      /\ conns' = [conns EXCEPT ![w] = {}]
  BY DEF Start, ghosts
<1>1. /\ step'[w] = "forked" /\ \A v \in Workers \ {w} : step'[v] = step[v]
      /\ step' \in [Workers -> Steps]
  BY DEF Start, Advance, ForkFdsTypeOK, Steps
<1>2. /\ child'[w] = "born" /\ \A v \in Workers \ {w} : child'[v] = child[v]
      /\ child' \in [Workers -> Stages]
  BY DEF Start, ForkFdsTypeOK, Stages
<1>3. /\ conns' \in [Workers -> SUBSET Workers]
      /\ \A v \in Workers \ {w} : conns'[v] = conns[v]
  BY <1>0 DEF ForkFdsTypeOK
<1>4. InWindow(w) /\ child[w] = "none" /\ known[w] = {} /\ wrappers[w] = {} /\ table[w] = Empty
  BY <1>0 DEF InWindow, StageInv, StageOf
<1>5. \A v \in Workers : /\ (InWindow(v))' <=> InWindow(v) /\ v # w
                         /\ (Unfinished(v))' <=> Unfinished(v)
  BY <1>0, <1>1 DEF InWindow, Unfinished
<1>6. /\ table' \in [Workers -> [Fds -> Objects]] /\ known' \in [Workers -> SUBSET Fds]
      /\ wrappers' \in [Workers -> SUBSET Fds]
      /\ \A v \in Workers \ {w} : /\ table'[v] = table[v] /\ known'[v] = known[v]
                                  /\ wrappers'[v] = wrappers[v]
      /\ plan[w].forking =>
            /\ \A n \in Fds : table'[w][n] = IF n \in hooked THEN Free ELSE host[n]
            /\ known'[w] = NumbersOf(conns[w])
            /\ wrappers'[w] = Named(host, Files) \ hooked
      /\ ~plan[w].forking =>
            /\ known'[w] = {} /\ wrappers'[w] = {}
            /\ \E c \in Fds : \A n \in Fds : table'[w][n] = IF n = c THEN ChildEnd(w) ELSE Free
  <2>0. host \in [Fds -> Objects]
    BY DEF ForkFdsTypeOK
  <2>1. CASE plan[w].forking
    <3>1. /\ table' = [table EXCEPT ![w] = Close(host, hooked)]
          /\ known' = [known EXCEPT ![w] = NumbersOf(conns[w])]
          /\ wrappers' = [wrappers EXCEPT ![w] = Named(host, Files) \ hooked]
      BY <2>1 DEF Start
    <3>2. Close(host, hooked) \in [Fds -> Objects]
          /\ \A n \in Fds : Close(host, hooked)[n] = IF n \in hooked THEN Free ELSE host[n]
      BY <2>0, ClosedTable
    <3>3. NumbersOf(conns[w]) \subseteq Fds /\ Named(host, Files) \subseteq Fds
      BY DEF NumbersOf, Named
    <3> QED  BY <2>1, <3>1, <3>2, <3>3 DEF ForkFdsTypeOK
  <2>2. CASE ~plan[w].forking
    <3>1. /\ table' = [table EXCEPT ![w][Lowest(Empty)] = ChildEnd(w)]
          /\ UNCHANGED <<known, wrappers>>
      BY <2>2 DEF Start
    <3>2. Lowest(Empty) \in Fds
      BY EmptyTable, LowestFree
    <3>3. ChildEnd(w) \in Objects
      BY KindSets
    <3>4. \A n \in Fds : table'[w][n] = IF n = Lowest(Empty) THEN ChildEnd(w) ELSE Free
      BY <1>4, <3>1, <3>2, EmptyTable DEF ForkFdsTypeOK
    <3>5. /\ table' \in [Workers -> [Fds -> Objects]]
          /\ \A v \in Workers \ {w} : table'[v] = table[v]
      BY <3>1, <3>2, <3>3 DEF ForkFdsTypeOK
    <3> QED  BY <1>4, <2>2, <3>1, <3>2, <3>4, <3>5 DEF ForkFdsTypeOK
  <2> QED  BY <2>1, <2>2
<1>7. ForkFdsTypeOK'
  BY <1>0, <1>1, <1>2, <1>3, <1>6 DEF ForkFdsTypeOK
<1>8. UNCHANGED <<Open(host), Named(host, Files), Distinct(host)>>
  BY <1>0 DEF Open, Named, Distinct
<1>9. \A v \in Workers : /\ (Holds(host, ChildEnd(v)))' <=> Holds(host, ChildEnd(v))
                         /\ (Holds(host, ParentEnd(v)))' <=> Holds(host, ParentEnd(v))
  BY <1>0 DEF Holds
<1>10. HostInv'
  <2>1. \A a \in Ambient : (Holds(host, File(a)))' => a \in made'
    BY <1>0 DEF HostInv, Holds
  <2> QED  BY <1>0, <1>1, <1>5, <1>8, <1>9, <2>1 DEF HostInv
<1>11. WindowInv'
  <2> SUFFICES ASSUME NEW v \in Workers, InWindow(v), v # w
               PROVE  /\ (~plan[v].forking => fds[v] = {})'
                      /\ (NumbersKept(v))' /\ (NoOther(v))'
    BY <1>5 DEF WindowInv
  <2>1. (NoOther(v))'
    BY <1>0, <1>1, <1>3, <1>5, <1>8, <1>9 DEF WindowInv, NoOther
  <2> QED  BY <1>0, <1>1, <1>8, <2>1 DEF WindowInv, NumbersKept
<1>12. (StageOf(w))'
  BY <1>1, <1>2, <1>5 DEF StageOf
<1>13. \A n \in Fds : n \in hooked => host[n] \in Files
  BY <1>0 DEF Named
<1>14. (CopyOf(w))'
  <2>1. CASE plan[w].forking
    <3>1. conns[w] \subseteq Workers
      BY DEF ForkFdsTypeOK
    <3>2. \A n \in known'[w] : n \in Fds /\ \E v \in Workers : host[n] = ParentEnd(v)
      BY <1>6, <2>1, <3>1 DEF NumbersOf, Named
    <3>3. \A n \in known'[w] : n \notin hooked
      BY <1>13, <3>2, KindSets
    <3>4. \A n \in known'[w] : table'[w][n] \in {ParentEnd(v) : v \in Workers}
      BY <1>6, <2>1, <3>2, <3>3
    <3>5. \A n \in wrappers'[w] : table'[w][n] \in {Null} \cup Files
      BY <1>6, <2>1 DEF Named
    <3> QED  BY <1>2, <3>4, <3>5 DEF CopyOf
  <2>2. CASE ~plan[w].forking
    BY <1>6, <2>2 DEF CopyOf
  <2> QED  BY <2>1, <2>2
<1>15. (KeptOf(w))'
  <2> SUFFICES ASSUME ~closed[w]
               PROVE  \E c \in Fds \ fds[w] : table'[w][c] = ChildEnd(w)
    BY <1>0 DEF KeptOf
  <2>1. CASE plan[w].forking
    <3>1. PICK c \in Fds : host[c] = ChildEnd(w)
      BY <1>0 DEF HostInv, Holds
    <3>2. c \notin fds[w]
      BY <1>4, <3>1 DEF WindowInv, NumbersKept
    <3>3. c \notin hooked
      BY <1>13, <3>1, KindSets
    <3> QED  BY <1>6, <2>1, <3>1, <3>2, <3>3
  <2>2. CASE ~plan[w].forking
    <3>1. fds[w] = {}
      BY <1>4, <2>2 DEF WindowInv
    <3> QED  BY <1>6, <2>2, <3>1
  <2> QED  BY <2>1, <2>2
<1>16. (LeftOf(w))'
  <2> SUFFICES ASSUME ~opened[w]
               PROVE  /\ Named(table'[w], Ends \ {ChildEnd(w)}) \subseteq known'[w]
                      /\ plan[w].closes => Named(table'[w], Files) \subseteq fds[w]
    BY <1>0, <1>2 DEF LeftOf, Serving, Named
  <2>1. CASE plan[w].forking
    <3>0. NoOther(w)
      BY <1>4 DEF WindowInv
    <3>1. ASSUME NEW n \in Fds, table'[w][n] \in Ends, table'[w][n] # ChildEnd(w)
          PROVE  n \in NumbersOf(conns[w])
      <4>1. host[n] \in Ends /\ host[n] # ChildEnd(w)
        BY <1>6, <2>1, <3>1, KindSets
      <4>2. PICK v \in Workers : host[n] = ParentEnd(v) \/ host[n] = ChildEnd(v)
        BY <4>1, KindSets
      <4>3. host[n] # ChildEnd(v)
        <5> SUFFICES ASSUME host[n] = ChildEnd(v) PROVE FALSE
          OBVIOUS
        <5>1. v # w /\ Unfinished(v)
          BY <4>1 DEF HostInv, Holds
        <5> QED  BY <3>0, <5>1 DEF NoOther
      <4>4. v \in conns[w]
        BY <1>0, <2>1, <3>0, <4>2, <4>3 DEF NoOther, Holds
      <4> QED  BY <4>2, <4>3, <4>4 DEF NumbersOf, Named
    <3>2. plan[w].closes => Named(table'[w], Files) \subseteq fds[w]
      <4>1. Named(table'[w], Files) \subseteq Named(host, Files)
        BY <1>6, <2>1, KindSets DEF Named
      <4> QED  BY <2>1, <3>0, <4>1 DEF NoOther
    <3>3. Named(table'[w], Ends \ {ChildEnd(w)}) \subseteq known'[w]
      BY <1>6, <2>1, <3>1 DEF Named
    <3> QED  BY <3>2, <3>3
  <2>2. CASE ~plan[w].forking
    <3>1. \A n \in Fds : table'[w][n] = ChildEnd(w) \/ table'[w][n] = Free
      BY <1>6, <2>2
    <3> QED  BY <3>1, KindSets DEF Named
  <2> QED  BY <2>1, <2>2
<1>17. StageInv' /\ CopyInv' /\ KeptInv' /\ LeftInv'
  <2> HIDE DEF ForkInv
  <2> QED  BY <1>0, <1>1, <1>2, <1>6, <1>12, <1>14, <1>15, <1>16, OthersKept
<1> QED  BY <1>7, <1>10, <1>11, <1>17

-----------------------------------------------------------------------------
(* The worker's own steps.                                                 *)

LEMMA ClosesCopiesKeeps ==
  ASSUME ForkInv, NEW w \in Workers, ClosesCopies(w)
  PROVE  ForkInv'
<1> USE DEF ForkInv
<1>0. /\ UNCHANGED <<host, up, made, registry, step, plan, fds, conns, wrappers, opened, closed>>
      /\ child[w] = "born"
  BY DEF ClosesCopies, hostside, ghosts
<1>1. /\ table[w] \in [Fds -> Objects] /\ table'[w] = Close(table[w], known[w]) /\ known'[w] = {}
      /\ child'[w] = "closed"
      /\ \A v \in Workers \ {w} : /\ table'[v] = table[v] /\ known'[v] = known[v]
                                  /\ child'[v] = child[v]
  BY DEF ClosesCopies, Becomes, ForkFdsTypeOK
<1>2. /\ table'[w] \in [Fds -> Objects]
      /\ \A n \in Fds : table'[w][n] = IF n \in known[w] THEN Free ELSE table[w][n]
  BY <1>1, ClosedTable
<1>3. ForkFdsTypeOK'
  <2>1. table' \in [Workers -> [Fds -> Objects]] /\ known' \in [Workers -> SUBSET Fds]
    BY <1>1, <1>2 DEF ClosesCopies, ForkFdsTypeOK
  <2>2. child' \in [Workers -> Stages]
    BY DEF ClosesCopies, Becomes, ForkFdsTypeOK, Stages
  <2> QED  BY <1>0, <2>1, <2>2 DEF ForkFdsTypeOK
<1>4. HostInv' /\ WindowInv'
  <2> HIDE DEF ForkInv
  <2> QED  BY <1>0, HostKept
<1>5. CopyOf(w) /\ KeptOf(w) /\ LeftOf(w) /\ Alive(w) /\ wrappers[w] \subseteq Fds
  BY <1>0 DEF CopyInv, KeptInv, LeftInv, Alive, ForkFdsTypeOK
<1>6. (StageOf(w))'
  BY <1>0, <1>1 DEF StageInv, StageOf, InWindow
<1>7. \A n \in known[w] : \E v \in Workers : table[w][n] = ParentEnd(v)
  BY <1>5 DEF CopyOf
<1>8. (CopyOf(w))'
  <2>1. \A n \in wrappers[w] : n \notin known[w]
    BY <1>5, <1>7, KindSets, Kinds DEF CopyOf
  <2> QED  BY <1>0, <1>1, <1>2, <1>5, <2>1 DEF CopyOf
<1>9. (KeptOf(w))'
  <2> SUFFICES ASSUME ~closed[w]
               PROVE  \E c \in Fds \ fds[w] : table'[w][c] = ChildEnd(w)
    BY <1>0 DEF KeptOf
  <2>1. PICK c \in Fds \ fds[w] : table[w][c] = ChildEnd(w)
    BY <1>5 DEF KeptOf
  <2>2. c \notin known[w]
    BY <1>7, <2>1, Kinds
  <2> QED  BY <1>2, <2>1, <2>2
<1>10. (LeftOf(w))'
  <2> SUFFICES ASSUME ~opened[w]
               PROVE  /\ Named(table'[w], Ends \ {ChildEnd(w)}) \subseteq known'[w]
                      /\ plan[w].closes => Named(table'[w], Files) \subseteq fds[w]
    BY <1>0, <1>1 DEF LeftOf, Serving, Named
  <2>1. /\ Named(table[w], Ends \ {ChildEnd(w)}) \subseteq known[w]
        /\ plan[w].closes => Named(table[w], Files) \subseteq fds[w]
    BY <1>5 DEF LeftOf
  <2>2. Named(table'[w], Ends \ {ChildEnd(w)}) = {}
    BY <1>2, <2>1, KindSets DEF Named
  <2>3. Named(table'[w], Files) \subseteq Named(table[w], Files)
    BY <1>2, KindSets DEF Named
  <2> QED  BY <2>1, <2>2, <2>3
<1>11. StageInv' /\ CopyInv' /\ KeptInv' /\ LeftInv'
  <2> HIDE DEF ForkInv
  <2> QED  BY <1>0, <1>1, <1>6, <1>8, <1>9, <1>10, OthersKept
<1> QED  BY <1>3, <1>4, <1>11

LEMMA NeutralizesKeeps ==
  ASSUME ForkInv, NEW w \in Workers, Neutralizes(w)
  PROVE  ForkInv'
<1> USE DEF ForkInv
<1>0. /\ UNCHANGED <<host, up, made, registry, step, plan, conns, known, wrappers, opened, closed>>
      /\ child[w] = "closed"
  BY DEF Neutralizes, ghosts
<1>1. /\ table[w] \in [Fds -> Objects] /\ table'[w] = Neutralized(table[w], fds[w])
      /\ fds'[w] = {} /\ child'[w] = "idle"
      /\ \A v \in Workers \ {w} : /\ table'[v] = table[v] /\ fds'[v] = fds[v]
                                  /\ child'[v] = child[v]
  BY DEF Neutralizes, Becomes, ForkFdsTypeOK
<1>2. /\ table'[w] \in [Fds -> Objects]
      /\ \A n \in Fds : table'[w][n] = IF n \in fds[w] THEN Null ELSE table[w][n]
  BY <1>1, KindSets DEF Neutralized
<1>3. ForkFdsTypeOK'
  <2>1. table' \in [Workers -> [Fds -> Objects]] /\ fds' \in [Workers -> SUBSET Fds]
    BY <1>1, <1>2 DEF Neutralizes, ForkFdsTypeOK
  <2>2. child' \in [Workers -> Stages]
    BY DEF Neutralizes, Becomes, ForkFdsTypeOK, Stages
  <2> QED  BY <1>0, <2>1, <2>2 DEF ForkFdsTypeOK
<1>4. HostInv' /\ WindowInv'
  <2> HIDE DEF ForkInv
  <2> QED  BY <1>0, <1>1, HostKept
<1>5. CopyOf(w) /\ KeptOf(w) /\ LeftOf(w) /\ Alive(w) /\ wrappers[w] \subseteq Fds
  BY <1>0 DEF CopyInv, KeptInv, LeftInv, Alive, ForkFdsTypeOK
<1>6. (StageOf(w))'
  BY <1>0, <1>1 DEF StageInv, StageOf, InWindow
<1>7. (CopyOf(w))'
  <2>1. known[w] = {}
    BY <1>0, <1>5 DEF CopyOf
  <2> QED  BY <1>0, <1>2, <1>5, <2>1 DEF CopyOf
<1>8. (KeptOf(w))'
  BY <1>0, <1>1, <1>2, <1>5 DEF KeptOf
<1>9. (LeftOf(w))'
  <2> SUFFICES ASSUME ~opened[w]
               PROVE  /\ Named(table'[w], Ends \ {ChildEnd(w)}) \subseteq known[w]
                      /\ plan[w].closes => Named(table'[w], Files) = {}
    BY <1>0, <1>1 DEF LeftOf, Named
  <2>1. /\ Named(table[w], Ends \ {ChildEnd(w)}) \subseteq known[w]
        /\ plan[w].closes => Named(table[w], Files) \subseteq fds[w]
    BY <1>5 DEF LeftOf
  <2>2. Named(table'[w], Ends \ {ChildEnd(w)}) \subseteq Named(table[w], Ends \ {ChildEnd(w)})
    BY <1>2, KindSets DEF Named
  <2>3. \A n \in Named(table'[w], Files) : n \in Named(table[w], Files) /\ n \notin fds[w]
    BY <1>2, KindSets DEF Named
  <2> QED  BY <2>1, <2>2, <2>3
<1>10. StageInv' /\ CopyInv' /\ KeptInv' /\ LeftInv'
  <2> HIDE DEF ForkInv
  <2> QED  BY <1>0, <1>1, <1>6, <1>7, <1>8, <1>9, OthersKept
<1> QED  BY <1>3, <1>4, <1>10

LEMMA WrapperDiesKeeps ==
  ASSUME ForkInv, NEW w \in Workers, NEW n \in Fds, WrapperDies(w, n)
  PROVE  ForkInv'
<1> USE DEF ForkInv
<1>0. /\ UNCHANGED <<host, up, made, registry, step, plan, fds, conns, child, known, opened, closed>>
      /\ Serving(w) /\ n \in wrappers[w]
  BY DEF WrapperDies, hostside, ghosts
<1>1. /\ table[w] \in [Fds -> Objects] /\ table'[w] = Close(table[w], {n})
      /\ wrappers'[w] = wrappers[w] \ {n}
      /\ \A v \in Workers \ {w} : table'[v] = table[v] /\ wrappers'[v] = wrappers[v]
  BY DEF WrapperDies, ForkFdsTypeOK
<1>2. /\ table'[w] \in [Fds -> Objects]
      /\ \A m \in Fds : table'[w][m] = IF m = n THEN Free ELSE table[w][m]
  BY <1>1, ClosedTable
<1>3. ForkFdsTypeOK'
  <2>1. table' \in [Workers -> [Fds -> Objects]] /\ wrappers' \in [Workers -> SUBSET Fds]
    BY <1>1, <1>2 DEF WrapperDies, ForkFdsTypeOK
  <2> QED  BY <1>0, <2>1 DEF ForkFdsTypeOK
<1>4. child[w] \notin {"none", "born", "dead"}
  BY <1>0 DEF Serving
<1>5. HostInv' /\ WindowInv'
  <2> HIDE DEF ForkInv
  <2> QED  BY <1>0, <1>4, HostKept
<1>6. CopyOf(w) /\ KeptOf(w) /\ LeftOf(w) /\ Alive(w) /\ wrappers[w] \subseteq Fds
  BY <1>4 DEF CopyInv, KeptInv, LeftInv, Alive, ForkFdsTypeOK
<1>7. (StageOf(w))'
  BY <1>0, <1>4 DEF StageInv, StageOf, InWindow
<1>8. (CopyOf(w))'
  <2>1. known[w] = {}
    BY <1>4, <1>6 DEF CopyOf
  <2> QED  BY <1>0, <1>1, <1>2, <1>6, <2>1 DEF CopyOf
<1>9. (KeptOf(w))'
  <2>1. table[w][n] # ChildEnd(w)
    BY <1>0, <1>6, KindSets, Kinds DEF CopyOf
  <2> QED  BY <1>0, <1>2, <1>6, <2>1 DEF KeptOf
<1>10. (LeftOf(w))'
  <2> SUFFICES ASSUME ~opened[w]
               PROVE  /\ Named(table'[w], Ends \ {ChildEnd(w)}) \subseteq known[w]
                      /\ plan[w].closes => Named(table'[w], Files) \subseteq fds[w]
                      /\ fds[w] = {}
    BY <1>0, <1>1 DEF LeftOf, Named
  <2>1. /\ Named(table[w], Ends \ {ChildEnd(w)}) \subseteq known[w]
        /\ plan[w].closes => Named(table[w], Files) \subseteq fds[w]
        /\ fds[w] = {}
    BY <1>0, <1>6 DEF LeftOf
  <2>2. /\ Named(table'[w], Ends \ {ChildEnd(w)}) \subseteq Named(table[w], Ends \ {ChildEnd(w)})
        /\ Named(table'[w], Files) \subseteq Named(table[w], Files)
    BY <1>2, KindSets DEF Named
  <2> QED  BY <2>1, <2>2
<1>11. StageInv' /\ CopyInv' /\ KeptInv' /\ LeftInv'
  <2> HIDE DEF ForkInv
  <2> QED  BY <1>0, <1>1, <1>7, <1>8, <1>9, <1>10, OthersKept
<1> QED  BY <1>3, <1>5, <1>11

(* A message taken, or its code finished: only the stage changes.          *)
LEMMA StageKeeps ==
  ASSUME ForkInv, NEW w \in Workers, Works(w) \/ Done(w)
  PROVE  ForkInv'
<1> USE DEF ForkInv
<1>0. /\ UNCHANGED <<host, up, made, registry, step, plan, fds, conns, table, known, wrappers, opened, closed>>
      /\ Serving(w)
  BY DEF Works, Done, Serving, hostside, ghosts
<1>1. /\ child'[w] \in {"idle", "busy"} /\ \A v \in Workers \ {w} : child'[v] = child[v]
      /\ child' \in [Workers -> Stages]
  BY ZenonT(30) DEF Works, Done, Becomes, ForkFdsTypeOK, Stages
<1>2. ForkFdsTypeOK'
  BY <1>0, <1>1 DEF ForkFdsTypeOK
<1>3. child[w] \notin {"none", "born", "dead"} /\ child'[w] \notin {"none", "born", "dead"}
  BY <1>0, <1>1 DEF Serving
<1>4. HostInv' /\ WindowInv'
  <2> HIDE DEF ForkInv
  <2> QED  BY <1>0, <1>3, HostKept
<1>5. CopyOf(w) /\ KeptOf(w) /\ LeftOf(w) /\ Alive(w)
  BY <1>3 DEF CopyInv, KeptInv, LeftInv, Alive
<1>6. (StageOf(w))'
  BY <1>0, <1>3 DEF StageInv, StageOf, InWindow
<1>7. (CopyOf(w))'
  BY <1>0, <1>3, <1>5 DEF CopyOf
<1>8. (KeptOf(w))'
  BY <1>0, <1>5 DEF KeptOf
<1>9. (LeftOf(w))'
  BY <1>0, <1>5 DEF LeftOf, Named
<1>10. StageInv' /\ CopyInv' /\ KeptInv' /\ LeftInv'
  <2> HIDE DEF ForkInv
  <2> QED  BY <1>0, <1>1, <1>6, <1>7, <1>8, <1>9, OthersKept
<1> QED  BY <1>2, <1>4, <1>10

LEMMA ExitsKeeps ==
  ASSUME ForkInv, NEW w \in Workers, child[w] \notin {"none", "dead"}, Exits(w)
  PROVE  ForkInv'
<1> USE DEF ForkInv
<1>0. UNCHANGED <<host, up, made, registry, step, conns>>
  BY DEF Exits
<1>1. /\ child'[w] = "dead"
      /\ \A v \in Workers \ {w} :
            /\ table'[v] = table[v] /\ child'[v] = child[v] /\ known'[v] = known[v]
            /\ wrappers'[v] = wrappers[v] /\ fds'[v] = fds[v] /\ plan'[v] = plan[v]
            /\ opened'[v] = opened[v] /\ closed'[v] = closed[v]
  BY DEF Exits, Becomes, ForkFdsTypeOK
<1>2. ForkFdsTypeOK'
  <2>1. /\ table' \in [Workers -> [Fds -> Objects]] /\ known' \in [Workers -> SUBSET Fds]
        /\ wrappers' \in [Workers -> SUBSET Fds] /\ fds' \in [Workers -> SUBSET Fds]
    BY EmptyTable DEF Exits, ForkFdsTypeOK
  <2>2. child' \in [Workers -> Stages]
    BY DEF Exits, Becomes, ForkFdsTypeOK, Stages
  <2>3. opened' \in [Workers -> BOOLEAN] /\ closed' \in [Workers -> BOOLEAN]
    BY DEF Exits, ForkFdsTypeOK
  <2>4. plan' \in [Workers -> [forking : BOOLEAN, closes : BOOLEAN]]
    <3>1. NoPlan \in [forking : BOOLEAN, closes : BOOLEAN]
      BY DEF NoPlan
    <3> QED  BY <3>1 DEF Exits, ForkFdsTypeOK
  <2> QED  BY <1>0, <2>1, <2>2, <2>3, <2>4 DEF ForkFdsTypeOK
<1>3. HostInv' /\ WindowInv'
  <2> HIDE DEF ForkInv
  <2> QED  BY <1>0, <1>1, HostKept
<1>4. (StageOf(w))'
  BY <1>0, <1>1 DEF StageInv, StageOf, InWindow
<1>5. (CopyOf(w))' /\ (KeptOf(w))' /\ (LeftOf(w))'
  BY <1>1 DEF CopyOf, KeptOf, LeftOf, Alive
<1>6. StageInv' /\ CopyInv' /\ KeptInv' /\ LeftInv'
  <2> HIDE DEF ForkInv
  <2> QED  BY <1>0, <1>1, <1>4, <1>5, OthersKept
<1> QED  BY <1>2, <1>3, <1>6

-----------------------------------------------------------------------------
(* The invariant holds, and what follows.                                  *)

LEMMA InitHolds == Init => ForkInv
<1> SUFFICES ASSUME Init PROVE ForkInv
  OBVIOUS
<1>1. ForkFdsTypeOK
  <2>1. up \in BOOLEAN /\ opened \in [Workers -> BOOLEAN] /\ closed \in [Workers -> BOOLEAN]
    BY DEF Init
  <2>2. plan \in [Workers -> [forking : BOOLEAN, closes : BOOLEAN]]
    BY DEF Init, NoPlan
  <2>3. step \in [Workers -> Steps] /\ child \in [Workers -> Stages]
    BY DEF Init, Steps, Stages
  <2> QED  BY <2>1, <2>2, <2>3, EmptyTable DEF Init, ForkFdsTypeOK
<1>2. \A x : x # Free => ~Holds(host, x)
  BY EmptyTable DEF Init, Holds
<1>3. \A w \in Workers : step[w] = "off" /\ child[w] = "none"
  BY DEF Init
<1>4. HostInv
  BY <1>2, <1>3, EmptyTable, Kinds DEF Init, HostInv
<1>5. WindowInv
  BY <1>3 DEF WindowInv, InWindow
<1>6. StageInv
  BY DEF Init, StageInv, StageOf
<1>7. CopyInv /\ KeptInv /\ LeftInv
  BY <1>3 DEF CopyInv, CopyOf, KeptInv, KeptOf, LeftInv, LeftOf, Alive
<1> QED  BY <1>1, <1>4, <1>5, <1>6, <1>7 DEF ForkInv

LEMMA Invariant == Spec => []ForkInv
<1>1. ForkInv /\ [Next]_vars => ForkInv'
  <2> SUFFICES ASSUME ForkInv, [Next]_vars PROVE ForkInv'
    OBVIOUS
  <2>1. ASSUME NEW a \in Ambient, AmbientOpens(a) PROVE ForkInv'
    BY <2>1, AmbientOpensKeeps
  <2>2. ASSUME NEW n \in Fds, AmbientCloses(n) PROVE ForkInv'
    BY <2>2, AmbientClosesKeeps
  <2>3. CASE HostDies
    BY <2>3, HostDiesKeeps
  <2>4. ASSUME NEW w \in Workers, NEW p \in [forking : BOOLEAN, closes : BOOLEAN], Snap(w, p)
        PROVE  ForkInv'
    BY <2>4, SnapKeeps
  <2>5. ASSUME NEW w \in Workers, MakePipe(w) PROVE ForkInv'
    BY <2>5, MakePipeKeeps
  <2>6. ASSUME NEW w \in Workers, Register(w) PROVE ForkInv'
    BY <2>6, RegisterKeeps
  <2>7. ASSUME NEW w \in Workers, List(w) PROVE ForkInv'
    BY <2>7, ListKeeps
  <2>8. ASSUME NEW w \in Workers, StartFails(w) PROVE ForkInv'
    BY <2>8, StartFailsKeeps
  <2>9. ASSUME NEW w \in Workers, NEW hooked \in SUBSET Fds, Start(w, hooked) PROVE ForkInv'
    BY <2>9, StartKeeps
  <2>10. ASSUME NEW w \in Workers, ClosesChildEnd(w) PROVE ForkInv'
    BY <2>10, ClosesChildEndKeeps
  <2>11. ASSUME NEW w \in Workers, ClosesConn(w) PROVE ForkInv'
    BY <2>11, ClosesConnKeeps
  <2>12. ASSUME NEW w \in Workers, Unregister(w) PROVE ForkInv'
    BY <2>12, UnregisterKeeps
  <2>13. ASSUME NEW w \in Workers, ClosesCopies(w) PROVE ForkInv'
    BY <2>13, ClosesCopiesKeeps
  <2>14. ASSUME NEW w \in Workers, Neutralizes(w) PROVE ForkInv'
    BY <2>14, NeutralizesKeeps
  <2>15. ASSUME NEW w \in Workers, NEW n \in Fds, WrapperDies(w, n) PROVE ForkInv'
    BY <2>15, WrapperDiesKeeps
  <2>16. ASSUME NEW w \in Workers, Works(w) \/ Done(w) PROVE ForkInv'
    BY <2>16, StageKeeps
  <2>17. ASSUME NEW w \in Workers, SeesEof(w) \/ Dies(w) PROVE ForkInv'
    <3>1. child[w] \notin {"none", "dead"} /\ Exits(w)
      BY <2>17 DEF SeesEof, Dies
    <3> QED  BY <3>1, ExitsKeeps
  <2>18. CASE UNCHANGED vars
    <3>0. UNCHANGED <<host, up, made, registry, step, plan, fds, conns, table, child, known, wrappers, opened, closed>>
      BY <2>18 DEF vars, hostside, childside, ghosts
    <3>1. ForkFdsTypeOK'
      BY <3>0 DEF ForkInv, ForkFdsTypeOK
    <3>2. HostInv'
      BY <3>0 DEF ForkInv, HostInv, Distinct, Holds, Unfinished
    <3>3. WindowInv'
      BY <3>0 DEF ForkInv, WindowInv, NumbersKept, NoOther, InWindow, Unfinished, Open, Named, Holds
    <3>4. StageInv'
      BY <3>0 DEF ForkInv, StageInv, StageOf, InWindow
    <3>5. CopyInv' /\ KeptInv'
      BY <3>0 DEF ForkInv, CopyInv, CopyOf, KeptInv, KeptOf, Alive
    <3>6. LeftInv'
      BY <3>0 DEF ForkInv, LeftInv, LeftOf, Alive, Serving, Named
    <3> QED  BY <3>1, <3>2, <3>3, <3>4, <3>5, <3>6 DEF ForkInv
  <2> QED
    BY <2>1, <2>2, <2>3, <2>4, <2>5, <2>6, <2>7, <2>8, <2>9, <2>10, <2>11, <2>12,
       <2>13, <2>14, <2>15, <2>16, <2>17, <2>18 DEF Next
<1> QED  BY <1>1, InitHolds, PTL DEF Spec

(* The variables keep their types.                                         *)
THEOREM TypeCorrect == Spec => []ForkFdsTypeOK
<1>1. ForkInv => ForkFdsTypeOK
  BY DEF ForkInv
<1> QED  BY <1>1, Invariant, PTL

(* However many workers a host starts at once and whatever files it opens, *)
(* _worker_entry never takes a worker's own end of the pipe from it, unless *)
(* a descriptor was closed between the snapshot and the fork.              *)
THEOREM ChannelKeptHolds == Spec => []ChannelKept
<1>1. ForkInv => ChannelKept
  <2> SUFFICES ASSUME ForkInv, NEW w \in Workers, Serving(w), ~closed[w]
               PROVE  HasChannel(w)
    BY DEF ChannelKept
  <2>1. Alive(w)
    BY DEF Serving, Alive
  <2> QED  BY <2>1 DEF ForkInv, KeptInv, KeptOf, HasChannel, Holds
<1> QED  BY <1>1, Invariant, PTL

(* A worker that serves kept no end of a pipe but its own and, under       *)
(* close_fds, no file of the host's, unless one was opened in its window.  *)
THEOREM NothingOfHostsHolds == Spec => []NothingOfHosts
<1>1. ForkInv => NothingOfHosts
  <2> SUFFICES ASSUME ForkInv, NEW w \in Workers, Serving(w), ~opened[w]
               PROVE  /\ Named(table[w], Ends \ {ChildEnd(w)}) = {}
                      /\ plan[w].closes => Named(table[w], Files) = {}
    BY DEF NothingOfHosts
  <2>1. Alive(w) /\ child[w] # "born"
    BY DEF Serving, Alive
  <2>2. CopyOf(w) /\ LeftOf(w)
    BY DEF ForkInv, CopyInv, LeftInv
  <2>3. known[w] = {}
    BY <2>1, <2>2 DEF CopyOf
  <2> QED  BY <2>1, <2>2, <2>3 DEF LeftOf
<1> QED  BY <1>1, Invariant, PTL

(* No file object the fork copied ever closes what is the worker's own.    *)
THEOREM StaleCloseHarmlessHolds == Spec => []StaleCloseHarmless
<1>1. ForkInv => StaleCloseHarmless
  BY DEF ForkInv, CopyInv, CopyOf, StaleCloseHarmless, Serving, Alive
<1> QED  BY <1>1, Invariant, PTL

-----------------------------------------------------------------------------
(***************************************************************************)
(* The broker that forks workers under start_method="forkserver" (module   *)
(* Broker), for any grants, bounds and crashes, and a fork at any moment,  *)
(* inside a broker operation too.                                          *)
(***************************************************************************)

(* One thread of each process starts workers, the proviso of the theorems: *)
(* _apply_forkserver_preload() reads the list and sets it without a lock.  *)
OneStarter == \A t, u \in Threads : Proc(t) = Proc(u) => t = u

(* Where a start is after its names went on the list, before it has a      *)
(* broker.                                                                 *)
Starting == {"start", "broker", "reset", "retry", "again"}

BrokerShape ==
    /\ procs \in {{"host"}, Procs}
    /\ list \in [Procs -> SUBSET Modules]
    /\ server \in [Procs -> Nat]
    /\ record \in [Procs -> [owner : Procs \cup {"none"}, broker : Nat,
                               names : SUBSET Modules]]
    /\ brokers \in Seq([parent : Procs, ours : BOOLEAN, vouched : BOOLEAN, up : BOOLEAN,
                        loaded : SUBSET Modules])
    /\ held \in [Procs -> SUBSET Nat]
    /\ asked \in [Procs -> SUBSET Modules]
    /\ pc \in [Threads -> Starting \cup {"idle", "apply", "record", "refused"}]
    /\ read \in [Threads -> SUBSET Modules]
    /\ want \in [Threads -> SUBSET Modules]
    /\ warned \in [Threads -> SUBSET Modules]
    /\ via \in [Threads -> Nat]

(* The list a thread read is still the list when it writes it back.        *)
ListInv ==
    /\ \A t \in Threads : Proc(t) \notin procs => pc[t] = "idle" /\ via[t] = 0
    /\ \A p \in procs : asked[p] \subseteq list[p]
    /\ \A t \in Threads :
        /\ pc[t] = "apply" => read[t] = list[Proc(t)]
        /\ pc[t] \in Starting \cup {"record"} => want[t] \subseteq list[Proc(t)]

(* Where brokers come from: the host's is its own, a broker loaded no more *)
(* than the list has by now, and only an inherited one is ever reset.      *)
OriginInv ==
    /\ \A b \in 1..Len(brokers) : brokers[b].parent \in procs
    /\ \A p \in Procs : server[p] <= Len(brokers)
    /\ server["host"] # 0 => IsOwn("host")
    /\ \A p \in procs : server[p] # 0 => brokers[server[p]].loaded \subseteq list[p]
    /\ \A t \in Threads : pc[t] = "reset" => server[Proc(t)] # 0 /\ ~IsOwn(Proc(t))
    /\ OwnBrokerKept

HasRecord(p) == record[p].owner = p /\ record[p].broker = server[p]

(* A process's own record is of a broker it started, and exact when it is  *)
(* vouched for; such a broker is recorded unless a start is about to.      *)
RecordInv ==
    /\ record["host"].owner # "child"
    /\ "child" \notin procs => record["child"].owner # "child"
    /\ \A p \in Procs : record[p].owner = p =>
          LET b == record[p].broker IN
          /\ b \in 1..Len(brokers) /\ brokers[b].parent = p
          /\ brokers[b].loaded \subseteq record[p].names
          /\ brokers[b].vouched => record[p].names = brokers[b].loaded
    /\ \A t \in Threads : pc[t] = "record" =>
          LET p == Proc(t) IN
          /\ IsOwn(p)
          /\ brokers[server[p]].vouched /\ ~HasRecord(p)
                => list[p] = brokers[server[p]].loaded
    /\ \A p \in procs : IsOwn(p) /\ brokers[server[p]].vouched =>
          HasRecord(p) \/ \E t \in Threads : Proc(t) = p /\ pc[t] = "record"

(* What WarningsRight says of a thread and a broker, held from the warning *)
(* on for the broker the worker would come from.                           *)
Warned(t, b) ==
    /\ warned[t] \cap brokers[b].loaded = {} \/ Died(Proc(t))
    /\ brokers[b].vouched => want[t] \subseteq brokers[b].loaded \cup warned[t]

WarnInv ==
    \A t \in Threads :
        /\ pc[t] \in Starting =>
            LET p == Proc(t) IN
            /\ warned[t] = {} \/ Died(p) \/ IsOwn(p)
            /\ IsOwn(p) => Warned(t, server[p])
        /\ pc[t] = "record" => via[t] # 0
        /\ pc[t] \in {"record", "idle"} /\ via[t] # 0 =>
              via[t] <= Len(brokers) /\ Warned(t, via[t])

BrokerInv == BrokerShape /\ ListInv /\ OriginInv /\ RecordInv /\ WarnInv

-----------------------------------------------------------------------------
LEMMA ProcTwo == Procs = {"host", "child"} /\ \A t : Proc(t) \in Procs
BY DEF Procs, Proc

LEMMA ReadListStep ==
  ASSUME OneStarter, BrokerInv, NEW t \in Threads, ReadList(t)
  PROVE  BrokerInv'
<1> USE DEF BrokerInv, ReadList, Goto, shared
<1>1. BrokerShape'
  <2>1. PICK g \in SUBSET Grants : want' = [want EXCEPT ![t] = PreloadNames(g)]
    OBVIOUS
  <2>2. PreloadNames(g) \in SUBSET Modules
    BY DEF PreloadNames, Modules
  <2>3. list[Proc(t)] \in SUBSET Modules
    BY ProcTwo DEF BrokerShape
  <2> QED  BY <2>1, <2>2, <2>3 DEF BrokerShape
<1>2. ListInv'
  BY DEF ListInv, BrokerShape, Starting
<1>3. OriginInv'
  BY DEF OriginInv, BrokerShape, Starting, IsOwn, OwnBrokerKept
<1>4. RecordInv'
  BY DEF RecordInv, BrokerShape, IsOwn, HasRecord
<1>5. WarnInv'
  BY ZenonT(30) DEF WarnInv, BrokerShape, Starting, IsOwn, Warned, Died
<1> QED  BY <1>1, <1>2, <1>3, <1>4, <1>5

LEMMA ApplyStep ==
  ASSUME OneStarter, BrokerInv, NEW t \in Threads, Apply(t)
  PROVE  BrokerInv'
<1> USE DEF BrokerInv
<1> DEFINE p == Proc(t)
<1>0. /\ pc[t] = "apply" /\ p \in Procs /\ p \in procs
      /\ read[t] = list[p]
      /\ list' = [list EXCEPT ![p] = list[p] \cup want[t]]
      /\ asked' = [asked EXCEPT ![p] = asked[p] \cup want[t]]
      /\ pc' = [pc EXCEPT ![t] = "start"]
      /\ read' = [read EXCEPT ![t] = {}]
      /\ warned' = [warned EXCEPT ![t] = Missing(t)]
      /\ UNCHANGED <<procs, server, record, brokers, held, want, via>>
  <2>1. read[t] = list[p] /\ p \in procs /\ p \in Procs
    BY ProcTwo DEF ListInv, Apply
  <2>2. list' = [list EXCEPT ![p] = list[p] \cup want[t]]
    <3>1. CASE Merged(t) # read[t]
      BY <2>1, <3>1 DEF Apply, Merged
    <3>2. CASE Merged(t) = read[t]
      <4>1. list' = list /\ list[p] \cup want[t] = list[p]
        BY <2>1, <3>2 DEF Apply, Merged
      <4> QED  BY <4>1, <2>1 DEF BrokerShape
    <3> QED  BY <3>1, <3>2
  <2> QED  BY <2>1, <2>2 DEF Apply, Goto
<1> HIDE DEF p
<1>1. \A u \in Threads : u # t => Proc(u) # p
  BY DEF OneStarter, p
<1>6. Proc(t) = p /\ t \in Threads
  BY DEF p
<1>7. Missing(t) \in SUBSET Modules
  BY <1>0 DEF Missing, BrokerShape
<1>8. \A q \in Procs : list[q] \subseteq list'[q]
  BY <1>0 DEF BrokerShape
<1>2. BrokerShape'
  <2>1. list' \in [Procs -> SUBSET Modules] /\ asked' \in [Procs -> SUBSET Modules]
    BY <1>0 DEF BrokerShape
  <2>2. pc' \in [Threads -> Starting \cup {"idle", "apply", "record", "refused"}]
    BY <1>0 DEF BrokerShape, Starting
  <2>3. read' \in [Threads -> SUBSET Modules] /\ warned' \in [Threads -> SUBSET Modules]
    BY <1>0, <1>7 DEF BrokerShape
  <2> QED  BY <1>0, <2>1, <2>2, <2>3 DEF BrokerShape
<1>3. ListInv'
  BY <1>0, <1>1, <1>6, ProcTwo DEF ListInv, BrokerShape, Starting
<1>4. OriginInv'
  <2>1. \A q \in procs : server[q] # 0 => brokers[server[q]].loaded \subseteq list'[q]
    BY <1>0, <1>8, ProcTwo DEF OriginInv, BrokerShape
  <2> QED  BY <1>0, <2>1 DEF OriginInv, BrokerShape, Starting, IsOwn, OwnBrokerKept
<1>5. RecordInv'
  BY <1>0, <1>1, <1>6 DEF RecordInv, BrokerShape, IsOwn, HasRecord
<1>9. WarnInv'
  <2>1. IsOwn(p) /\ brokers[server[p]].vouched
           => HasRecord(p) /\ record[p].names = brokers[server[p]].loaded
    BY <1>0, <1>1, <1>6 DEF RecordInv, HasRecord
  <2>2. HasRecord(p) => /\ IsOwn(p) /\ Missing(t) = want[t] \ record[p].names
                        /\ brokers[server[p]].loaded \subseteq record[p].names
    <3>1. ASSUME HasRecord(p)
          PROVE  ActivePreload(p) = {record[p].names}
      BY <3>1 DEF HasRecord, ActivePreload
    <3>2. ASSUME HasRecord(p)
          PROVE  Missing(t) = want[t] \ record[p].names
      BY <1>6, <3>1, <3>2 DEF Missing
    <3>3. ASSUME HasRecord(p)
          PROVE  IsOwn(p) /\ brokers[server[p]].loaded \subseteq record[p].names
      BY <1>0, <3>3 DEF RecordInv, HasRecord, IsOwn
    <3> QED  BY <3>2, <3>3
  <2>3. ~HasRecord(p) => Missing(t) = {}
    BY <1>6 DEF Missing, ActivePreload, HasRecord
  <2>4. /\ Missing(t) = {} \/ IsOwn(p)
        /\ IsOwn(p) =>
              /\ Missing(t) \cap brokers[server[p]].loaded = {}
              /\ brokers[server[p]].vouched =>
                    want[t] \subseteq brokers[server[p]].loaded \cup Missing(t)
    BY <2>1, <2>2, <2>3
  <2> QED  BY <1>0, <1>6, <2>4, ZenonT(30) DEF WarnInv, BrokerShape, Starting, IsOwn, Warned, Died
<1> QED  BY <1>2, <1>3, <1>4, <1>5, <1>9

LEMMA StartLocksStep ==
  ASSUME OneStarter, BrokerInv, NEW t \in Threads, StartLocks(t)
  PROVE  BrokerInv'
<1> USE DEF BrokerInv, StartLocks, Goto
<1>1. BrokerShape'
  BY DEF BrokerShape, Starting
<1>2. ListInv'
  BY DEF ListInv, BrokerShape, Starting
<1>3. OriginInv'
  BY DEF OriginInv, BrokerShape, Starting, IsOwn, OwnBrokerKept
<1>4. RecordInv'
  BY DEF RecordInv, BrokerShape, IsOwn, HasRecord
<1>5. WarnInv'
  BY DEF WarnInv, BrokerShape, Starting, IsOwn, Warned, Died
<1> QED  BY <1>1, <1>2, <1>3, <1>4, <1>5

LEMMA ReusesBrokerStep ==
  ASSUME OneStarter, BrokerInv, NEW t \in Threads, ReusesBroker(t)
  PROVE  BrokerInv'
<1> USE DEF BrokerInv, ReusesBroker, InBroker, Goto
<1>0. Proc(t) \in Procs /\ Proc(t) \in procs /\ IsOwn(Proc(t))
      /\ \A u \in Threads : Proc(u) = Proc(t) => u = t
  BY ProcTwo DEF ListInv, IsOwn, OneStarter
<1>1. BrokerShape'
  BY <1>0 DEF BrokerShape, Starting
<1>2. ListInv'
  BY <1>0 DEF ListInv, BrokerShape, Starting
<1>3. OriginInv'
  BY DEF OriginInv, BrokerShape, Starting, IsOwn, OwnBrokerKept
<1>4. RecordInv'
  <2>1. brokers[server[Proc(t)]].vouched => HasRecord(Proc(t))
    BY <1>0 DEF RecordInv
  <2>2. \A u \in Threads : pc[u] = "record" => pc'[u] = "record"
    BY DEF BrokerShape
  <2>3. \A u \in Threads : pc'[u] = "record" => u = t \/ pc[u] = "record"
    BY DEF BrokerShape
  <2> QED  BY <1>0, <2>1, <2>2, <2>3 DEF RecordInv, IsOwn, HasRecord
<1>5. WarnInv'
  BY <1>0, ZenonT(30) DEF WarnInv, BrokerShape, OriginInv, Starting, IsOwn, Warned, Died
<1> QED  BY <1>1, <1>2, <1>3, <1>4, <1>5

LEMMA RefusesBrokerStep ==
  ASSUME OneStarter, BrokerInv, NEW t \in Threads, RefusesBroker(t)
  PROVE  BrokerInv'
<1> USE DEF BrokerInv, RefusesBroker, InBroker, Goto
<1>1. BrokerShape'
  BY DEF BrokerShape, Starting
<1>2. ListInv'
  BY DEF ListInv, BrokerShape, Starting
<1>3. OriginInv'
  BY DEF OriginInv, BrokerShape, Starting, OwnBrokerKept, Inherited, IsOwn
<1>4. RecordInv'
  BY DEF RecordInv, BrokerShape, IsOwn, HasRecord
<1>5. WarnInv'
  BY DEF WarnInv, BrokerShape, Starting, IsOwn, Warned, Died
<1> QED  BY <1>1, <1>2, <1>3, <1>4, <1>5

LEMMA ResetsStep ==
  ASSUME OneStarter, BrokerInv, NEW t \in Threads, Resets(t)
  PROVE  BrokerInv'
<1> USE DEF BrokerInv, Resets, ResetState, Goto
<1>0. Proc(t) \in Procs /\ Proc(t) \in procs /\ ~IsOwn(Proc(t))
      /\ server[Proc(t)] # 0
      /\ \A u \in Threads : Proc(u) = Proc(t) => u = t
  BY ProcTwo DEF ListInv, OriginInv, OneStarter
<1>1. BrokerShape'
  BY <1>0 DEF BrokerShape, Starting, NoRecord
<1>2. ListInv'
  BY <1>0 DEF ListInv, BrokerShape, Starting
<1>3. OriginInv'
  <2>1. OwnBrokerKept'
    BY <1>0 DEF OriginInv, BrokerShape, IsOwn, OwnBrokerKept
  <2> QED  BY <1>0, <2>1 DEF OriginInv, BrokerShape, Starting, IsOwn
<1>6. /\ \A q \in Procs : q # Proc(t) => record'[q] = record[q] /\ server'[q] = server[q]
      /\ record'[Proc(t)].owner = "none" /\ server'[Proc(t)] = 0
      /\ brokers' = brokers /\ procs' = procs /\ list' = list
  BY <1>0 DEF BrokerShape, NoRecord
<1>7. \A u \in Threads : u # t => pc'[u] = pc[u] /\ Proc(u) # Proc(t)
                                  /\ Proc(u) \in Procs
  BY <1>0, ProcTwo DEF BrokerShape
<1>8. pc'[t] = "retry" /\ pc[t] = "reset"
  BY DEF BrokerShape
<1>4. RecordInv'
  <2>1. record'["host"].owner # "child"
        /\ ("child" \notin procs' => record'["child"].owner # "child")
    BY <1>6, ProcTwo DEF RecordInv
  <2>2. ASSUME NEW q \in Procs, record'[q].owner = q
        PROVE  LET b == record'[q].broker IN
               /\ b \in 1..Len(brokers') /\ brokers'[b].parent = q
               /\ brokers'[b].loaded \subseteq record'[q].names
               /\ brokers'[b].vouched => record'[q].names = brokers'[b].loaded
    <3>1. q # Proc(t)
      BY <1>6, <2>2, ProcTwo
    <3> QED  BY <1>6, <2>2, <3>1 DEF RecordInv
  <2>3. ASSUME NEW u \in Threads, pc'[u] = "record"
        PROVE  LET p == Proc(u) IN
               /\ IsOwn(p)'
               /\ brokers'[server'[p]].vouched /\ ~HasRecord(p)'
                    => list'[p] = brokers'[server'[p]].loaded
    <3>1. u # t
      BY <1>8, <2>3
    <3> QED  BY <1>6, <1>7, <2>3, <3>1 DEF RecordInv, IsOwn, HasRecord
  <2>4. ASSUME NEW q \in procs, IsOwn(q)', brokers'[server'[q]].vouched
        PROVE  HasRecord(q)' \/ \E u \in Threads : Proc(u) = q /\ pc'[u] = "record"
    <3>1. q # Proc(t) /\ q \in Procs
      BY <1>6, <2>4, ProcTwo DEF IsOwn, BrokerShape
    <3> QED  BY <1>6, <1>7, <2>4, <3>1 DEF RecordInv, IsOwn, HasRecord
  <2> QED  BY <1>6, <2>1, <2>2, <2>3, <2>4 DEF RecordInv, IsOwn, HasRecord
<1>5. WarnInv'
  <2>0. warned' = warned /\ want' = want /\ via' = via
    OBVIOUS
  <2>1. \A u \in Threads, b \in Nat : Warned(u, b) => Warned(u, b)'
    BY <1>6, <2>0 DEF Warned, Died
  <2>2. \A q : Died(q) => Died(q)'
    BY <1>6 DEF Died
  <2>3. ASSUME NEW u \in Threads, u # t, pc[u] \in Starting
        PROVE  LET p == Proc(u) IN
               /\ warned'[u] = {} \/ Died(p)' \/ IsOwn(p)'
               /\ IsOwn(p)' => Warned(u, server[p])'
    <3>1. Proc(u) \in Procs /\ server'[Proc(u)] = server[Proc(u)]
          /\ server[Proc(u)] \in Nat
      BY <1>6, <1>7, <2>3 DEF BrokerShape
    <3>2. IsOwn(Proc(u))' <=> IsOwn(Proc(u))
      BY <1>6, <3>1 DEF IsOwn
    <3>3. IsOwn(Proc(u)) => Warned(u, server[Proc(u)])'
      BY <2>1, <2>3, <3>1 DEF WarnInv
    <3>4. warned[u] = {} \/ Died(Proc(u)) \/ IsOwn(Proc(u))
      BY <2>3 DEF WarnInv
    <3> QED  BY <2>0, <2>2, <3>1, <3>2, <3>3, <3>4 DEF Warned
  <2>4. (warned[t] = {} \/ Died(Proc(t))) /\ ~IsOwn(Proc(t))'
    BY <1>0, <1>6, <1>8 DEF WarnInv, Starting, IsOwn
  <2>5. ASSUME NEW u \in Threads, u # t
        PROVE  /\ pc[u] = "record" => via[u] # 0
               /\ pc[u] \in {"record", "idle"} /\ via[u] # 0 =>
                    via[u] <= Len(brokers) /\ Warned(u, via[u])'
    <3>1. via[u] \in Nat
      BY DEF BrokerShape
    <3> QED  BY <2>1, <3>1 DEF WarnInv
  <2>6. ASSUME NEW u \in Threads
        PROVE  /\ pc'[u] \in Starting =>
                    LET p == Proc(u) IN
                    /\ warned'[u] = {} \/ Died(p)' \/ IsOwn(p)'
                    /\ IsOwn(p)' => Warned(u, server[p])'
               /\ pc'[u] = "record" => via'[u] # 0
               /\ pc'[u] \in {"record", "idle"} /\ via'[u] # 0 =>
                     via'[u] <= Len(brokers') /\ Warned(u, via[u])'
    <3>1. CASE u = t
      BY <1>8, <2>0, <2>2, <2>4, <3>1 DEF Starting
    <3>2. CASE u # t
      BY <1>6, <1>7, <2>0, <2>3, <2>5, <3>2
    <3> QED  BY <3>1, <3>2
  <2> QED  BY <2>6 DEF WarnInv, Warned, IsOwn
<1> QED  BY <1>1, <1>2, <1>3, <1>4, <1>5

LEMMA RecordsStep ==
  ASSUME OneStarter, BrokerInv, NEW t \in Threads, Records(t)
  PROVE  BrokerInv'
<1> USE DEF BrokerInv, Records, Goto
<1>0. Proc(t) \in Procs /\ Proc(t) \in procs /\ IsOwn(Proc(t))
      /\ \A u \in Threads : Proc(u) = Proc(t) => u = t
  BY ProcTwo DEF ListInv, RecordInv, OneStarter
<1>6. Recorded(Proc(t)) \in [owner : Procs \cup {"none"}, broker : Nat,
                               names : SUBSET Modules]
  BY <1>0 DEF Recorded, BrokerShape
<1>7. LET p == Proc(t) IN
      /\ record'[p].owner = p /\ record'[p].broker = server[p]
      /\ record'[p] = record[p] \/ (~HasRecord(p) /\ record'[p].names = list[p])
  BY <1>0 DEF Recorded, BrokerShape, IsOwn, HasRecord
<1>1. BrokerShape'
  BY <1>6 DEF BrokerShape, Starting
<1>2. ListInv'
  BY DEF ListInv, BrokerShape, Starting
<1>3. OriginInv'
  BY DEF OriginInv, BrokerShape, Starting, IsOwn, OwnBrokerKept
<1>4. RecordInv'
  BY <1>0, <1>7, ProcTwo DEF RecordInv, OriginInv, BrokerShape, IsOwn, HasRecord
<1>5. WarnInv'
  BY DEF WarnInv, BrokerShape, Starting, IsOwn, Warned, Died
<1> QED  BY <1>1, <1>2, <1>3, <1>4, <1>5

-----------------------------------------------------------------------------
(* What a new broker of a process changes, and what it leaves.             *)
LEMMA NewBrokerFacts ==
  ASSUME BrokerInv, NEW p \in procs, NEW ours \in BOOLEAN, NewBroker(p, ours)
  PROVE  /\ Len(brokers) \in Nat /\ Len(brokers') = Len(brokers) + 1
         /\ brokers' \in Seq([parent : Procs, ours : BOOLEAN, vouched : BOOLEAN, up : BOOLEAN,
                              loaded : SUBSET Modules])
         /\ \A b \in 1..Len(brokers) : brokers'[b] = brokers[b]
         /\ brokers'[Len(brokers) + 1]
               = [parent |-> p, ours |-> ours, vouched |-> ours, up |-> TRUE, loaded |-> list[p]]
         /\ server' = [server EXCEPT ![p] = Len(brokers) + 1]
         /\ held' = [held EXCEPT ![p] = (@ \ {server[p]}) \cup {Len(brokers) + 1}]
         /\ server[p] = 0 \/ (IsOwn(p) /\ ~brokers[server[p]].up)
         /\ p \in Procs
<1> DEFINE r == [parent |-> p, ours |-> ours, vouched |-> ours, up |-> TRUE, loaded |-> list[p]]
           Rec == [parent : Procs, ours : BOOLEAN, vouched : BOOLEAN, up : BOOLEAN,
                   loaded : SUBSET Modules]
<1>1. p \in Procs /\ brokers \in Seq(Rec)
  BY ProcTwo DEF BrokerInv, BrokerShape
<1>2. r \in Rec
  BY <1>1 DEF BrokerInv, BrokerShape
<1>3. brokers' = Append(brokers, r)
  BY DEF NewBroker
<1> HIDE DEF r, Rec
<1>4. /\ brokers' \in Seq(Rec) /\ Len(brokers') = Len(brokers) + 1
      /\ \A b \in 1..Len(brokers) : brokers'[b] = brokers[b]
      /\ brokers'[Len(brokers) + 1] = r /\ Len(brokers) \in Nat
  BY <1>1, <1>2, <1>3, AppendProperties
<1> QED  BY <1>1, <1>4 DEF NewBroker, r, Rec

(* ...for the alive descriptors, and for which broker is whose.            *)
LEMMA NewBrokerKeeps ==
  ASSUME BrokerInv, NEW p \in procs, NEW ours \in BOOLEAN, NewBroker(p, ours)
  PROVE  /\ OwnBrokerKept'
         /\ \A q \in Procs : server'[q] \in Nat /\ server'[q] <= Len(brokers')
         /\ \A q \in Procs : q # p =>
               /\ server'[q] = server[q]
               /\ IsOwn(q)' <=> IsOwn(q)
               /\ server[q] # 0 => brokers'[server[q]] = brokers[server[q]]
         /\ IsOwn(p)' /\ server'[p] = Len(brokers) + 1
         /\ \A q \in Procs : Died(q) => Died(q)'
         /\ server[p] = 0 \/ Died(p)'
<1>0. /\ Len(brokers) \in Nat /\ Len(brokers') = Len(brokers) + 1
      /\ \A b \in 1..Len(brokers) : brokers'[b] = brokers[b]
      /\ brokers'[Len(brokers) + 1]
            = [parent |-> p, ours |-> ours, vouched |-> ours, up |-> TRUE, loaded |-> list[p]]
      /\ server' = [server EXCEPT ![p] = Len(brokers) + 1]
      /\ held' = [held EXCEPT ![p] = (@ \ {server[p]}) \cup {Len(brokers) + 1}]
      /\ server[p] = 0 \/ (IsOwn(p) /\ ~brokers[server[p]].up)
      /\ p \in Procs
      /\ brokers' \in Seq([parent : Procs, ours : BOOLEAN, vouched : BOOLEAN, up : BOOLEAN,
                              loaded : SUBSET Modules])
  BY NewBrokerFacts
<1>1. DOMAIN brokers = 1..Len(brokers) /\ DOMAIN brokers' = 1..Len(brokers')
  BY <1>0 DEF BrokerInv, BrokerShape
<1>2. \A q \in Procs : server[q] \in Nat /\ server[q] <= Len(brokers)
  BY DEF BrokerInv, BrokerShape, OriginInv
<1>3. OwnBrokerKept'
  <2> SUFFICES ASSUME NEW b \in 1..Len(brokers'), brokers'[b].up
               PROVE  b \in held'[brokers'[b].parent]
    BY <1>1 DEF OwnBrokerKept
  <2>1. CASE b = Len(brokers) + 1
    BY <1>0, <2>1 DEF BrokerInv, BrokerShape
  <2>2. CASE b # Len(brokers) + 1
    <3>1. b \in 1..Len(brokers) /\ brokers'[b] = brokers[b]
      BY <1>0, <2>2
    <3>2. b \in held[brokers[b].parent] /\ brokers[b].parent \in Procs /\ brokers[b].up
      BY <1>1, <3>1, ProcTwo DEF BrokerInv, BrokerShape, OriginInv, OwnBrokerKept
    <3>3. b # server[p]
      BY <1>0, <3>1, <3>2
    <3> QED  BY <1>0, <3>1, <3>2, <3>3 DEF BrokerInv, BrokerShape
  <2> QED  BY <2>1, <2>2
<1>4. \A q \in Procs : q # p =>
               /\ server'[q] = server[q]
               /\ server[q] # 0 => brokers'[server[q]] = brokers[server[q]]
  BY <1>0, <1>2 DEF BrokerInv, BrokerShape
<1>5. \A q \in Procs : q # p => (IsOwn(q)' <=> IsOwn(q))
  BY <1>4 DEF IsOwn
<1>6. server'[p] = Len(brokers) + 1
  BY <1>0 DEF BrokerInv, BrokerShape
<1>7. IsOwn(p)'
  BY <1>0, <1>6 DEF IsOwn
<1>8. \A q \in Procs : Died(q) => Died(q)'
  BY <1>0, <1>1 DEF Died
<1>9. server[p] = 0 \/ Died(p)'
  BY <1>0, <1>1, <1>2, <1>8 DEF Died, IsOwn
<1>10. \A q \in Procs : server'[q] \in Nat /\ server'[q] <= Len(brokers')
  BY <1>0, <1>2, <1>4, <1>6
<1> QED  BY <1>3, <1>4, <1>5, <1>6, <1>7, <1>8, <1>9, <1>10

(* A warning that was right stays right while brokers come and go.         *)
LEMMA WarnedKept ==
  ASSUME NEW u \in Threads, NEW b,
         brokers'[b].loaded = brokers[b].loaded, brokers'[b].vouched => brokers[b].vouched,
         warned'[u] = warned[u], want'[u] = want[u],
         Died(Proc(u)) => Died(Proc(u))',
         Warned(u, b)
  PROVE  Warned(u, b)'
BY DEF Warned

(* A thread whose broker a step does not replace keeps its warnings.       *)
LEMMA ThreadApart ==
  ASSUME BrokerInv, NEW u \in Threads, pc'[u] = pc[u], via'[u] = via[u],
         warned'[u] = warned[u], want'[u] = want[u],
         Died(Proc(u)) => Died(Proc(u))',
         server'[Proc(u)] = server[Proc(u)],
         IsOwn(Proc(u))' <=> IsOwn(Proc(u)),
         Len(brokers') \in Nat, Len(brokers) <= Len(brokers'),
         \A b \in 1..Len(brokers) : /\ brokers'[b].loaded = brokers[b].loaded
                                    /\ brokers'[b].vouched => brokers[b].vouched
  PROVE  /\ pc'[u] \in Starting =>
              LET q == Proc(u) IN
              /\ warned'[u] = {} \/ Died(q)' \/ IsOwn(q)'
              /\ IsOwn(q)' => Warned(u, server[q])'
         /\ pc'[u] = "record" => via'[u] # 0
         /\ pc'[u] \in {"record", "idle"} /\ via'[u] # 0 =>
               via'[u] <= Len(brokers') /\ Warned(u, via[u])'
<1> DEFINE q == Proc(u)
<1>1. /\ q \in Procs /\ Len(brokers) \in Nat
      /\ via[u] \in Nat /\ server[q] \in Nat /\ server[q] <= Len(brokers)
  BY ProcTwo DEF BrokerInv, BrokerShape, OriginInv
<1>2. ASSUME NEW b \in 1..Len(brokers), Warned(u, b)
      PROVE  Warned(u, b)'
  BY <1>2, WarnedKept
<1>3. pc[u] \in Starting => /\ warned[u] = {} \/ Died(q) \/ IsOwn(q)
                            /\ IsOwn(q) => Warned(u, server[q])
  BY DEF BrokerInv, WarnInv
<1>4. IsOwn(q) => server[q] \in 1..Len(brokers)
  BY <1>1 DEF IsOwn
<1>5. ASSUME pc[u] \in Starting, IsOwn(q)
      PROVE  Warned(u, server[q])'
  <2>1. PICK b \in 1..Len(brokers) : b = server[q]
    BY <1>5, <1>4
  <2>2. Warned(u, b)'
    BY <1>2, <1>3, <1>5, <2>1
  <2> QED  BY <2>1, <2>2 DEF Warned
<1>6. pc[u] \in {"record", "idle"} /\ via[u] # 0
         => via[u] \in 1..Len(brokers) /\ Warned(u, via[u])
  BY <1>1 DEF BrokerInv, WarnInv
<1>7. ASSUME pc[u] \in {"record", "idle"}, via[u] # 0
      PROVE  Warned(u, via[u])'
  <2>1. PICK b \in 1..Len(brokers) : b = via[u]
    BY <1>6, <1>7
  <2>2. Warned(u, b)'
    BY <1>2, <1>6, <1>7, <2>1
  <2> QED  BY <2>1, <2>2 DEF Warned
<1>8. pc[u] = "record" => via[u] # 0
  BY DEF BrokerInv, WarnInv
<1>9. via[u] \in 1..Len(brokers) => via[u] <= Len(brokers')
  BY <1>1
<1> QED  BY <1>3, <1>5, <1>6, <1>7, <1>8, <1>9

(* What every step that starts a broker in process p keeps.                *)
LEMMA NewBrokerOrigins ==
  ASSUME BrokerInv, NEW p \in procs, NEW ours \in BOOLEAN, NewBroker(p, ours),
         UNCHANGED <<procs, list, record>>,
         \A t \in Threads : pc'[t] = "reset" => pc[t] = "reset",
         \A t \in Threads : pc[t] = "reset" => Proc(t) # p
  PROVE  /\ OriginInv'
         /\ record'["host"].owner # "child"
         /\ "child" \notin procs' => record'["child"].owner # "child"
         /\ \A q \in Procs : record'[q].owner = q =>
               LET b == record'[q].broker IN
               /\ b \in 1..Len(brokers') /\ brokers'[b].parent = q
               /\ brokers'[b].loaded \subseteq record'[q].names
               /\ brokers'[b].vouched => record'[q].names = brokers'[b].loaded
<1>0. /\ Len(brokers) \in Nat /\ Len(brokers') = Len(brokers) + 1
      /\ \A b \in 1..Len(brokers) : brokers'[b] = brokers[b]
      /\ brokers'[Len(brokers) + 1]
            = [parent |-> p, ours |-> ours, vouched |-> ours, up |-> TRUE, loaded |-> list[p]]
      /\ p \in Procs
  BY NewBrokerFacts
<1>1. /\ OwnBrokerKept'
      /\ \A q \in Procs : server'[q] <= Len(brokers')
      /\ \A q \in Procs : q # p =>
            /\ server'[q] = server[q]
            /\ IsOwn(q)' <=> IsOwn(q)
            /\ server[q] # 0 => brokers'[server[q]] = brokers[server[q]]
      /\ IsOwn(p)' /\ server'[p] = Len(brokers) + 1
  BY NewBrokerKeeps
<1>2. \A b \in 1..Len(brokers') : brokers'[b].parent \in procs
  <2> SUFFICES ASSUME NEW b \in 1..Len(brokers')
               PROVE  brokers'[b].parent \in procs
    OBVIOUS
  <2>1. CASE b \in 1..Len(brokers)
    BY <1>0, <2>1 DEF BrokerInv, OriginInv
  <2>2. CASE b = Len(brokers) + 1
    BY <1>0, <2>2
  <2> QED  BY <1>0, <2>1, <2>2
<1>3. server'["host"] # 0 => IsOwn("host")'
  BY <1>1, ProcTwo DEF BrokerInv, OriginInv
<1>4. \A q \in procs : server'[q] # 0 => brokers'[server'[q]].loaded \subseteq list[q]
  BY <1>0, <1>1, ProcTwo DEF BrokerInv, OriginInv, BrokerShape
<1>5. \A t \in Threads : pc'[t] = "reset" =>
         server'[Proc(t)] # 0 /\ ~IsOwn(Proc(t))'
  BY <1>1, ProcTwo DEF BrokerInv, OriginInv
<1>6. OriginInv'
  BY <1>1, <1>2, <1>3, <1>4, <1>5 DEF OriginInv
<1>7. \A q \in Procs : record[q].owner = q =>
               LET b == record[q].broker IN
               /\ b \in 1..Len(brokers') /\ brokers'[b].parent = q
               /\ brokers'[b].loaded \subseteq record[q].names
               /\ brokers'[b].vouched => record[q].names = brokers'[b].loaded
  <2> SUFFICES ASSUME NEW q \in Procs, record[q].owner = q
               PROVE  LET b == record[q].broker IN
               /\ b \in 1..Len(brokers') /\ brokers'[b].parent = q
               /\ brokers'[b].loaded \subseteq record[q].names
               /\ brokers'[b].vouched => record[q].names = brokers'[b].loaded
    OBVIOUS
  <2>1. LET b == record[q].broker IN
               /\ b \in 1..Len(brokers) /\ brokers[b].parent = q
               /\ brokers[b].loaded \subseteq record[q].names
               /\ brokers[b].vouched => record[q].names = brokers[b].loaded
    BY DEF BrokerInv, RecordInv
  <2>2. record[q].broker \in 1..Len(brokers')
        /\ brokers'[record[q].broker] = brokers[record[q].broker]
    BY <1>0, <2>1
  <2> QED  BY <2>1, <2>2
<1> QED  BY <1>6, <1>7 DEF BrokerInv, RecordInv

LEMMA StartsBrokerStep ==
  ASSUME OneStarter, BrokerInv, NEW t \in Threads, StartsBroker(t)
  PROVE  BrokerInv'
<1> DEFINE p == Proc(t)
<1>0. /\ pc[t] \in {"broker", "again"} /\ p \in procs /\ NewBroker(p, TRUE)
      /\ via' = [via EXCEPT ![t] = Len(brokers')]
      /\ pc' = [pc EXCEPT ![t] = "record"]
      /\ UNCHANGED <<procs, list, record, asked, read, want, warned>>
      /\ \A u \in Threads : Proc(u) = p => u = t
  BY DEF StartsBroker, InBroker, Goto, BrokerInv, ListInv, OneStarter
<1>1. /\ Len(brokers) \in Nat /\ Len(brokers') = Len(brokers) + 1
      /\ brokers' \in Seq([parent : Procs, ours : BOOLEAN, vouched : BOOLEAN, up : BOOLEAN,
                           loaded : SUBSET Modules])
      /\ \A b \in 1..Len(brokers) : brokers'[b] = brokers[b]
      /\ brokers'[Len(brokers) + 1]
            = [parent |-> p, ours |-> TRUE, vouched |-> TRUE, up |-> TRUE, loaded |-> list[p]]
      /\ server' = [server EXCEPT ![p] = Len(brokers) + 1]
      /\ held' = [held EXCEPT ![p] = (@ \ {server[p]}) \cup {Len(brokers) + 1}]
      /\ p \in Procs
  BY <1>0, NewBrokerFacts
<1>2. /\ \A q \in Procs : q # p =>
            /\ server'[q] = server[q]
            /\ IsOwn(q)' <=> IsOwn(q)
            /\ server[q] # 0 => brokers'[server[q]] = brokers[server[q]]
      /\ IsOwn(p)' /\ server'[p] = Len(brokers) + 1
      /\ \A q \in Procs : Died(q) => Died(q)'
      /\ server[p] = 0 \/ Died(p)'
  BY <1>0, NewBrokerKeeps
<1>3. p = Proc(t)
  OBVIOUS
<1> HIDE DEF p
<1>4. BrokerShape'
  <2>1. pc' \in [Threads -> Starting \cup {"idle", "apply", "record", "refused"}]
    BY <1>0 DEF BrokerInv, BrokerShape
  <2>2. via' \in [Threads -> Nat] /\ server' \in [Procs -> Nat]
    BY <1>0, <1>1 DEF BrokerInv, BrokerShape
  <2>3. held' \in [Procs -> SUBSET Nat]
    BY <1>1 DEF BrokerInv, BrokerShape
  <2> QED  BY <1>0, <1>1, <2>1, <2>2, <2>3 DEF BrokerInv, BrokerShape
<1>5. ListInv'
  BY <1>0, <1>3 DEF BrokerInv, BrokerShape, ListInv, Starting
<1>6. /\ pc'[t] = "record" /\ via'[t] = Len(brokers) + 1
      /\ \A u \in Threads : u # t => /\ pc'[u] = pc[u] /\ via'[u] = via[u]
                                      /\ Proc(u) # p /\ Proc(u) \in Procs
  BY <1>0, <1>1, ProcTwo DEF BrokerInv, BrokerShape
<1>7. /\ OriginInv'
      /\ record'["host"].owner # "child"
      /\ "child" \notin procs' => record'["child"].owner # "child"
      /\ \A q \in Procs : record'[q].owner = q =>
            LET b == record'[q].broker IN
            /\ b \in 1..Len(brokers') /\ brokers'[b].parent = q
            /\ brokers'[b].loaded \subseteq record'[q].names
            /\ brokers'[b].vouched => record'[q].names = brokers'[b].loaded
  <2>1. /\ \A u \in Threads : pc'[u] = "reset" => pc[u] = "reset"
        /\ \A u \in Threads : pc[u] = "reset" => Proc(u) # p
    BY <1>0, <1>6
  <2> QED  BY <1>0, <2>1, NewBrokerOrigins
<1>8. RecordInv'
  <2>1. ASSUME NEW u \in Threads, pc'[u] = "record"
        PROVE  LET q == Proc(u) IN
               /\ IsOwn(q)'
               /\ brokers'[server'[q]].vouched /\ ~HasRecord(q)'
                     => list'[q] = brokers'[server'[q]].loaded
    <3>1. CASE u = t
      BY <1>0, <1>1, <1>2, <1>3, <3>1
    <3>2. CASE u # t
      <4> DEFINE q == Proc(u)
      <4>1. q # p /\ q \in Procs /\ pc[u] = "record"
        BY <1>6, <2>1, <3>2
      <4>2. IsOwn(q) /\ (brokers[server[q]].vouched /\ ~HasRecord(q)
                              => list[q] = brokers[server[q]].loaded)
        BY <4>1 DEF BrokerInv, RecordInv
      <4>3. server[q] # 0 /\ brokers'[server[q]] = brokers[server[q]]
            /\ server'[q] = server[q] /\ IsOwn(q)'
        BY <1>2, <4>1, <4>2 DEF IsOwn
      <4> QED  BY <1>0, <4>2, <4>3 DEF HasRecord
    <3> QED  BY <3>1, <3>2
  <2>2. ASSUME NEW q \in procs, IsOwn(q)', brokers'[server'[q]].vouched
        PROVE  HasRecord(q)' \/ \E u \in Threads : Proc(u) = q /\ pc'[u] = "record"
    <3>1. CASE q = p
      BY <1>3, <1>6, <3>1
    <3>2. CASE q # p
      <4>1. q \in Procs /\ IsOwn(q) /\ brokers[server[q]].vouched /\ server'[q] = server[q]
        <5>1. q \in Procs
          BY ProcTwo DEF BrokerInv, BrokerShape
        <5>2. IsOwn(q) /\ server'[q] = server[q] /\ server[q] # 0
          BY <1>2, <2>2, <3>2, <5>1 DEF IsOwn
        <5> QED  BY <1>2, <2>2, <3>2, <5>1, <5>2
      <4>2. HasRecord(q) \/ \E u \in Threads : Proc(u) = q /\ pc[u] = "record"
        BY <4>1 DEF BrokerInv, RecordInv
      <4>3. HasRecord(q) => HasRecord(q)'
        BY <1>0, <4>1 DEF HasRecord
      <4> QED  BY <1>3, <1>6, <3>2, <4>2, <4>3
    <3> QED  BY <3>1, <3>2
  <2> QED  BY <1>0, <1>7, <2>1, <2>2 DEF RecordInv, HasRecord
<1>9. WarnInv'
  <2>1. ASSUME NEW u \in Threads, u # t
        PROVE  /\ pc'[u] \in Starting =>
                    LET q == Proc(u) IN
                    /\ warned'[u] = {} \/ Died(q)' \/ IsOwn(q)'
                    /\ IsOwn(q)' => Warned(u, server[q])'
               /\ pc'[u] = "record" => via'[u] # 0
               /\ pc'[u] \in {"record", "idle"} /\ via'[u] # 0 =>
                     via'[u] <= Len(brokers') /\ Warned(u, via[u])'
    <3>1. /\ Proc(u) # p /\ Proc(u) \in Procs
          /\ pc'[u] = pc[u] /\ via'[u] = via[u]
      BY <1>6, <2>1
    <3>2. warned'[u] = warned[u] /\ want'[u] = want[u]
          /\ (Died(Proc(u)) => Died(Proc(u))')
          /\ server'[Proc(u)] = server[Proc(u)]
          /\ (IsOwn(Proc(u))' <=> IsOwn(Proc(u)))
      BY <1>0, <1>2, <3>1
    <3>3. /\ Len(brokers') \in Nat /\ Len(brokers) <= Len(brokers')
          /\ \A b \in 1..Len(brokers) : /\ brokers'[b].loaded = brokers[b].loaded
                                        /\ brokers'[b].vouched => brokers[b].vouched
      BY <1>1
    <3> QED  BY <3>1, <3>2, <3>3, ThreadApart
  <2>2. via'[t] # 0 /\ via'[t] <= Len(brokers')
    BY <1>1, <1>6
  <2>3. Warned(t, via[t])'
    <3>1. /\ want'[t] = want[t] /\ warned'[t] = warned[t] /\ want[t] \subseteq list[p]
          /\ warned[t] = {} \/ Died(p) \/ IsOwn(p)
      BY <1>0, <1>3 DEF BrokerInv, ListInv, WarnInv, Starting
    <3>2. warned[t] = {} \/ Died(p)'
      BY <3>1, <1>1, <1>2 DEF IsOwn
    <3>3. brokers'[via'[t]].loaded = list[p]
      BY <1>1, <1>6
    <3> QED  BY <1>3, <3>1, <3>2, <3>3 DEF Warned
  <2>4. pc'[t] \notin Starting
    BY <1>6 DEF Starting
  <2> QED  BY <2>1, <2>2, <2>3, <2>4 DEF WarnInv, Warned
<1> QED  BY <1>4, <1>5, <1>7, <1>8, <1>9 DEF BrokerInv

LEMMA ForeignStartStep ==
  ASSUME OneStarter, BrokerInv, NEW p \in Procs, ForeignStart(p)
  PROVE  BrokerInv'
<1>0. /\ p \in procs /\ NewBroker(p, FALSE)
      /\ UNCHANGED <<procs, list, record, asked, pc, read, want, warned, via>>
  BY DEF ForeignStart
<1>1. /\ Len(brokers) \in Nat /\ Len(brokers') = Len(brokers) + 1
      /\ brokers' \in Seq([parent : Procs, ours : BOOLEAN, vouched : BOOLEAN, up : BOOLEAN,
                           loaded : SUBSET Modules])
      /\ \A b \in 1..Len(brokers) : brokers'[b] = brokers[b]
      /\ brokers'[Len(brokers) + 1]
            = [parent |-> p, ours |-> FALSE, vouched |-> FALSE, up |-> TRUE, loaded |-> list[p]]
      /\ server' = [server EXCEPT ![p] = Len(brokers) + 1]
      /\ held' = [held EXCEPT ![p] = (@ \ {server[p]}) \cup {Len(brokers) + 1}]
      /\ server[p] = 0 \/ (IsOwn(p) /\ ~brokers[server[p]].up)
  BY <1>0, NewBrokerFacts
<1>2. /\ \A q \in Procs : q # p =>
            /\ server'[q] = server[q]
            /\ IsOwn(q)' <=> IsOwn(q)
            /\ server[q] # 0 => brokers'[server[q]] = brokers[server[q]]
      /\ IsOwn(p)' /\ server'[p] = Len(brokers) + 1
      /\ \A q \in Procs : Died(q) => Died(q)'
      /\ server[p] = 0 \/ Died(p)'
  BY <1>0, NewBrokerKeeps
<1>4. BrokerShape'
  <2>2. server' \in [Procs -> Nat]
    BY <1>1 DEF BrokerInv, BrokerShape
  <2>3. held' \in [Procs -> SUBSET Nat]
    BY <1>1 DEF BrokerInv, BrokerShape
  <2> QED  BY <1>0, <1>1, <2>2, <2>3 DEF BrokerInv, BrokerShape
<1>5. ListInv'
  BY <1>0 DEF BrokerInv, ListInv
<1>7. /\ OriginInv'
      /\ record'["host"].owner # "child"
      /\ "child" \notin procs' => record'["child"].owner # "child"
      /\ \A q \in Procs : record'[q].owner = q =>
            LET b == record'[q].broker IN
            /\ b \in 1..Len(brokers') /\ brokers'[b].parent = q
            /\ brokers'[b].loaded \subseteq record'[q].names
            /\ brokers'[b].vouched => record'[q].names = brokers'[b].loaded
  <2>1. \A u \in Threads : pc[u] = "reset" => Proc(u) # p
    BY <1>1 DEF BrokerInv, OriginInv
  <2>2. UNCHANGED <<procs, list, record>> /\ pc' = pc
    BY <1>0
  <2> QED  BY <1>0, <2>1, <2>2, NewBrokerOrigins
<1>8. RecordInv'
  <2>1. ASSUME NEW u \in Threads, pc'[u] = "record"
        PROVE  LET q == Proc(u) IN
               /\ IsOwn(q)'
               /\ brokers'[server'[q]].vouched /\ ~HasRecord(q)'
                     => list'[q] = brokers'[server'[q]].loaded
    <3> DEFINE q == Proc(u)
    <3>1. CASE q = p
      BY <1>1, <1>2, <3>1
    <3>2. CASE q # p
      <4>1. q \in Procs /\ pc[u] = "record"
        BY <1>0, <2>1, ProcTwo
      <4>2. IsOwn(q) /\ (brokers[server[q]].vouched /\ ~HasRecord(q)
                              => list[q] = brokers[server[q]].loaded)
        BY <4>1 DEF BrokerInv, RecordInv
      <4>3. server[q] # 0 /\ brokers'[server[q]] = brokers[server[q]]
            /\ server'[q] = server[q] /\ IsOwn(q)'
        BY <1>2, <3>2, <4>1, <4>2 DEF IsOwn
      <4> QED  BY <1>0, <4>2, <4>3 DEF HasRecord
    <3> QED  BY <3>1, <3>2
  <2>2. ASSUME NEW q \in procs, IsOwn(q)', brokers'[server'[q]].vouched
        PROVE  HasRecord(q)' \/ \E u \in Threads : Proc(u) = q /\ pc'[u] = "record"
    <3>1. q # p
      BY <1>1, <1>2, <2>2
    <3>2. q \in Procs
      BY ProcTwo DEF BrokerInv, BrokerShape
    <3>3. IsOwn(q) /\ server'[q] = server[q] /\ server[q] # 0
      BY <1>2, <2>2, <3>1, <3>2 DEF IsOwn
    <3>4. brokers[server[q]].vouched
      BY <1>2, <2>2, <3>1, <3>2, <3>3
    <3>5. HasRecord(q) \/ \E u \in Threads : Proc(u) = q /\ pc[u] = "record"
      BY <3>3, <3>4 DEF BrokerInv, RecordInv
    <3>6. HasRecord(q) => HasRecord(q)'
      BY <1>0, <3>3 DEF HasRecord
    <3> QED  BY <1>0, <3>5, <3>6
  <2> QED  BY <1>0, <1>7, <2>1, <2>2 DEF RecordInv, HasRecord
<1>9. WarnInv'
  <2> SUFFICES ASSUME NEW u \in Threads
        PROVE  /\ pc'[u] \in Starting =>
                    LET q == Proc(u) IN
                    /\ warned'[u] = {} \/ Died(q)' \/ IsOwn(q)'
                    /\ IsOwn(q)' => Warned(u, server[q])'
               /\ pc'[u] = "record" => via'[u] # 0
               /\ pc'[u] \in {"record", "idle"} /\ via'[u] # 0 =>
                     via'[u] <= Len(brokers') /\ Warned(u, via[u])'
    BY DEF WarnInv, Warned
  <2>0. /\ Proc(u) \in Procs /\ pc'[u] = pc[u] /\ via'[u] = via[u]
        /\ warned'[u] = warned[u] /\ want'[u] = want[u]
        /\ (Died(Proc(u)) => Died(Proc(u))')
    BY <1>0, <1>2, ProcTwo
  <2>1. /\ Len(brokers') \in Nat /\ Len(brokers) <= Len(brokers')
        /\ \A b \in 1..Len(brokers) : /\ brokers'[b].loaded = brokers[b].loaded
                                      /\ brokers'[b].vouched => brokers[b].vouched
    BY <1>1
  <2>2. CASE Proc(u) # p
    <3>1. server'[Proc(u)] = server[Proc(u)]
          /\ (IsOwn(Proc(u))' <=> IsOwn(Proc(u)))
      BY <1>2, <2>0, <2>2
    <3> QED  BY <2>0, <2>1, <3>1, ThreadApart
  <2>3. CASE Proc(u) = p
    <3>1. ASSUME pc[u] \in Starting
          PROVE  Warned(u, server[p])' /\ IsOwn(p)'
      <4>1. warned[u] = {} \/ Died(p) \/ IsOwn(p)
        BY <2>3, <3>1 DEF BrokerInv, WarnInv
      <4>2. warned[u] = {} \/ Died(p)'
        BY <1>2, <4>1 DEF IsOwn
      <4>3. brokers'[server'[p]].vouched = FALSE
        BY <1>1, <1>2
      <4> QED  BY <1>2, <2>0, <2>3, <4>2, <4>3 DEF Warned
    <3>2. pc[u] = "record" => via[u] # 0
      BY DEF BrokerInv, WarnInv
    <3>3. ASSUME pc[u] \in {"record", "idle"}, via[u] # 0
          PROVE  via[u] <= Len(brokers') /\ Warned(u, via[u])'
      <4>1. via[u] \in 1..Len(brokers) /\ Warned(u, via[u])
        BY <1>1, <3>3 DEF BrokerInv, WarnInv, BrokerShape
      <4>2. PICK b \in 1..Len(brokers) : b = via[u]
        BY <4>1
      <4>3. Warned(u, b)'
        BY <2>0, <2>1, <4>1, <4>2, WarnedKept
      <4>4. Warned(u, via[u])'
        BY <2>0, <4>2, <4>3 DEF Warned
      <4> QED  BY <1>1, <4>1, <4>4
    <3> QED  BY <2>0, <2>3, <3>1, <3>2, <3>3
  <2> QED  BY <2>2, <2>3
<1> QED  BY <1>4, <1>5, <1>7, <1>8, <1>9 DEF BrokerInv

LEMMA BrokerDiesStep ==
  ASSUME OneStarter, BrokerInv, NEW d \in DOMAIN brokers, BrokerDies(d)
  PROVE  BrokerInv'
<1>0. UNCHANGED <<procs, list, server, record, held, asked, pc, read, want, warned, via>>
  BY DEF BrokerDies
<1>1. /\ Len(brokers') = Len(brokers) /\ Len(brokers) \in Nat
      /\ DOMAIN brokers = 1..Len(brokers) /\ DOMAIN brokers' = 1..Len(brokers)
      /\ brokers' \in Seq([parent : Procs, ours : BOOLEAN, vouched : BOOLEAN, up : BOOLEAN,
                           loaded : SUBSET Modules])
      /\ \A b \in 1..Len(brokers) :
            /\ brokers'[b].parent = brokers[b].parent
            /\ brokers'[b].vouched = brokers[b].vouched
            /\ brokers'[b].loaded = brokers[b].loaded
            /\ brokers'[b].up => brokers[b].up
  <2> DEFINE Rec == [parent : Procs, ours : BOOLEAN, vouched : BOOLEAN, up : BOOLEAN,
                     loaded : SUBSET Modules]
             r == [brokers[d] EXCEPT !.up = FALSE]
  <2>1. brokers \in Seq(Rec) /\ DOMAIN brokers = 1..Len(brokers) /\ Len(brokers) \in Nat
    BY DEF BrokerInv, BrokerShape
  <2>2. brokers[d] \in Rec
    BY <2>1, ElementOfSeq
  <2>3. /\ r \in Rec /\ r.parent = brokers[d].parent /\ r.vouched = brokers[d].vouched
        /\ r.loaded = brokers[d].loaded /\ ~r.up
    BY <2>2
  <2>4. brokers' = [brokers EXCEPT ![d] = r]
    BY DEF BrokerDies
  <2> HIDE DEF r, Rec
  <2>5. brokers' \in Seq(Rec) /\ Len(brokers') = Len(brokers)
        /\ \A b \in 1..Len(brokers) : brokers'[b] = IF b = d THEN r ELSE brokers[b]
    BY <2>1, <2>3, <2>4, ExceptSeq
  <2>6. DOMAIN brokers' = 1..Len(brokers)
    BY <2>1, <2>4
  <2> QED  BY <2>1, <2>3, <2>5, <2>6 DEF Rec
<1>2. \A q \in Procs : IsOwn(q) \/ IsOwn(q)' => server[q] \in 1..Len(brokers)
  BY <1>0, <1>1 DEF BrokerInv, BrokerShape, OriginInv, IsOwn
<1>3. \A q \in Procs : IsOwn(q)' <=> IsOwn(q)
  BY <1>0, <1>1, <1>2 DEF IsOwn
<1>4. \A q \in Procs : Died(q) => Died(q)'
  BY <1>1 DEF Died
<1>5. BrokerShape' /\ ListInv'
  BY <1>0, <1>1 DEF BrokerInv, BrokerShape, ListInv
<1>6. OriginInv'
  <2>1. OwnBrokerKept'
    BY <1>0, <1>1 DEF BrokerInv, OriginInv, OwnBrokerKept
  <2>2. \A b \in 1..Len(brokers') : brokers'[b].parent \in procs'
    BY <1>0, <1>1 DEF BrokerInv, OriginInv
  <2>3. \A q \in procs : server[q] # 0 => brokers'[server[q]].loaded \subseteq list[q]
    <3> SUFFICES ASSUME NEW q \in procs, server[q] # 0
                 PROVE  brokers'[server[q]].loaded \subseteq list[q]
      OBVIOUS
    <3>1. server[q] \in 1..Len(brokers)
      BY <1>1, ProcTwo DEF BrokerInv, BrokerShape, OriginInv
    <3> QED  BY <1>1, <3>1 DEF BrokerInv, OriginInv
  <2> QED  BY <1>0, <1>1, <1>3, <2>1, <2>2, <2>3, ProcTwo DEF BrokerInv, OriginInv
<1>7. RecordInv'
  <2>1. ASSUME NEW q \in Procs, record[q].owner = q
        PROVE  LET b == record[q].broker IN
               /\ b \in 1..Len(brokers') /\ brokers'[b].parent = q
               /\ brokers'[b].loaded \subseteq record[q].names
               /\ brokers'[b].vouched => record[q].names = brokers'[b].loaded
    <3>1. LET b == record[q].broker IN
               /\ b \in 1..Len(brokers) /\ brokers[b].parent = q
               /\ brokers[b].loaded \subseteq record[q].names
               /\ brokers[b].vouched => record[q].names = brokers[b].loaded
      BY <2>1 DEF BrokerInv, RecordInv
    <3> QED  BY <1>1, <3>1
  <2>2. \A q \in Procs : HasRecord(q)' <=> HasRecord(q)
    BY <1>0 DEF HasRecord
  <2>3. \A q \in Procs : IsOwn(q) =>
            /\ brokers'[server[q]].vouched = brokers[server[q]].vouched
            /\ brokers'[server[q]].loaded = brokers[server[q]].loaded
    BY <1>1, <1>2
  <2>4. ASSUME NEW u \in Threads, pc[u] = "record"
        PROVE  LET q == Proc(u) IN
               /\ IsOwn(q)'
               /\ brokers'[server[q]].vouched /\ ~HasRecord(q)'
                     => list[q] = brokers'[server[q]].loaded
    BY <1>3, <2>2, <2>3, <2>4, ProcTwo DEF BrokerInv, RecordInv
  <2>5. ASSUME NEW q \in procs, IsOwn(q)', brokers'[server[q]].vouched
        PROVE  HasRecord(q)' \/ \E u \in Threads : Proc(u) = q /\ pc[u] = "record"
    <3>1. q \in Procs
      BY ProcTwo DEF BrokerInv, BrokerShape
    <3> QED  BY <1>3, <2>2, <2>3, <2>5, <3>1 DEF BrokerInv, RecordInv
  <2>6. record["host"].owner # "child"
        /\ ("child" \notin procs => record["child"].owner # "child")
    BY DEF BrokerInv, RecordInv
  <2> QED  BY <1>0, <2>1, <2>4, <2>5, <2>6 DEF RecordInv, HasRecord
<1>8. WarnInv'
  <2> SUFFICES ASSUME NEW u \in Threads
        PROVE  /\ pc'[u] \in Starting =>
                    LET q == Proc(u) IN
                    /\ warned'[u] = {} \/ Died(q)' \/ IsOwn(q)'
                    /\ IsOwn(q)' => Warned(u, server[q])'
               /\ pc'[u] = "record" => via'[u] # 0
               /\ pc'[u] \in {"record", "idle"} /\ via'[u] # 0 =>
                     via'[u] <= Len(brokers') /\ Warned(u, via[u])'
    BY DEF WarnInv, Warned
  <2>1. Proc(u) \in Procs
    BY ProcTwo
  <2>2. /\ pc'[u] = pc[u] /\ via'[u] = via[u]
        /\ warned'[u] = warned[u] /\ want'[u] = want[u]
        /\ (Died(Proc(u)) => Died(Proc(u))')
        /\ server'[Proc(u)] = server[Proc(u)]
        /\ (IsOwn(Proc(u))' <=> IsOwn(Proc(u)))
    BY <1>0, <1>3, <1>4, <2>1
  <2>3. /\ Len(brokers') \in Nat /\ Len(brokers) <= Len(brokers')
        /\ \A b \in 1..Len(brokers) : /\ brokers'[b].loaded = brokers[b].loaded
                                      /\ brokers'[b].vouched => brokers[b].vouched
    BY <1>1
  <2> QED  BY <2>2, <2>3, ThreadApart
<1> QED  BY <1>5, <1>6, <1>7, <1>8 DEF BrokerInv

LEMMA RaisesStep ==
  ASSUME OneStarter, BrokerInv, NEW t \in Threads, Raises(t)
  PROVE  BrokerInv'
<1> DEFINE p == Proc(t)
           Rec == [parent : Procs, ours : BOOLEAN, vouched : BOOLEAN, up : BOOLEAN,
                   loaded : SUBSET Modules]
<1>0. /\ UNCHANGED <<procs, list, server, record, held, asked, want, warned>>
      /\ pc' = [pc EXCEPT ![t] = "idle"] /\ via' = [via EXCEPT ![t] = 0]
      /\ read' = [read EXCEPT ![t] = {}]
      /\ pc[t] # "idle"
  BY DEF Raises, Goto
<1>1. /\ p \in procs /\ p \in Procs
      /\ \A u \in Threads : u # t => Proc(u) # p /\ Proc(u) \in Procs
  BY <1>0, ProcTwo DEF BrokerInv, ListInv, OneStarter
<1>2. /\ brokers \in Seq(Rec) /\ DOMAIN brokers = 1..Len(brokers) /\ Len(brokers) \in Nat
      /\ \A q \in Procs : server[q] \in Nat /\ server[q] <= Len(brokers)
  BY DEF BrokerInv, BrokerShape, OriginInv
<1>3. /\ brokers' \in Seq(Rec) /\ Len(brokers') = Len(brokers)
      /\ DOMAIN brokers' = 1..Len(brokers)
      /\ \A b \in 1..Len(brokers) :
            /\ brokers'[b].parent = brokers[b].parent
            /\ brokers'[b].up = brokers[b].up
            /\ brokers'[b].loaded = brokers[b].loaded
            /\ brokers'[b].vouched => brokers[b].vouched
            /\ b # server[p] => brokers'[b] = brokers[b]
      /\ pc[t] = "record" /\ IsOwn(p) /\ ~HasRecord(p) => ~brokers'[server[p]].vouched
  <2>1. CASE pc[t] = "record" /\ Unrecorded(p)
    <3> DEFINE d == server[p]
               r == [brokers[d] EXCEPT !.vouched = FALSE]
    <3>1. d \in 1..Len(brokers)
      BY <1>1, <1>2, <2>1 DEF Unrecorded
    <3>2. brokers[d] \in Rec
      BY <1>2, <3>1, ElementOfSeq
    <3>3. /\ r \in Rec /\ r.parent = brokers[d].parent /\ r.up = brokers[d].up
          /\ r.loaded = brokers[d].loaded /\ ~r.vouched
      BY <3>2
    <3>4. brokers' = [brokers EXCEPT ![d] = r]
      BY <2>1 DEF Raises
    <3> HIDE DEF r, Rec
    <3>5. brokers' \in Seq(Rec) /\ Len(brokers') = Len(brokers)
          /\ \A b \in 1..Len(brokers) : brokers'[b] = IF b = d THEN r ELSE brokers[b]
      BY <1>2, <3>1, <3>3, <3>4, ExceptSeq
    <3>6. DOMAIN brokers' = 1..Len(brokers)
      BY <1>2, <3>4
    <3> HIDE DEF d
    <3>7. \A b \in 1..Len(brokers) :
            /\ brokers'[b].parent = brokers[b].parent
            /\ brokers'[b].up = brokers[b].up
            /\ brokers'[b].loaded = brokers[b].loaded
            /\ brokers'[b].vouched => brokers[b].vouched
            /\ b # d => brokers'[b] = brokers[b]
      BY <3>3, <3>5
    <3>8. ~brokers'[d].vouched
      BY <3>1, <3>3, <3>5
    <3> QED  BY <3>5, <3>6, <3>7, <3>8 DEF d
  <2>2. CASE ~(pc[t] = "record" /\ Unrecorded(p))
    <3>1. brokers' = brokers
      BY <2>2 DEF Raises
    <3>2. ~(pc[t] = "record" /\ IsOwn(p) /\ ~HasRecord(p))
      BY <2>2 DEF Unrecorded, HasRecord, IsOwn
    <3> QED  BY <1>2, <3>1, <3>2
  <2> QED  BY <2>1, <2>2
<1>4. /\ pc'[t] = "idle" /\ via'[t] = 0
      /\ \A u \in Threads : u # t => pc'[u] = pc[u] /\ via'[u] = via[u]
  BY <1>0 DEF BrokerInv, BrokerShape
<1>5. p = Proc(t)
  OBVIOUS
<1> HIDE DEF p
<1>6. \A q \in Procs : server[q] # 0 => server[q] \in 1..Len(brokers)
  BY <1>2
<1>7. \A q \in Procs : IsOwn(q)' <=> IsOwn(q)
  BY <1>0, <1>3, <1>6 DEF IsOwn
<1>8. \A q : Died(q) => Died(q)'
  BY <1>2, <1>3 DEF Died
<1>9. BrokerShape'
  <2>1. pc' \in [Threads -> Starting \cup {"idle", "apply", "record", "refused"}]
        /\ via' \in [Threads -> Nat] /\ read' \in [Threads -> SUBSET Modules]
    BY <1>0 DEF BrokerInv, BrokerShape
  <2> QED  BY <1>0, <1>3, <2>1 DEF BrokerInv, BrokerShape
<1>10. ListInv'
  <2>1. \A u \in Threads : pc'[u] \in {"apply", "record"} \cup Starting =>
            pc[u] = pc'[u] /\ read'[u] = read[u]
    BY <1>0, <1>4 DEF BrokerInv, BrokerShape, Starting
  <2>2. \A u \in Threads : pc[u] = "idle" /\ via[u] = 0 => pc'[u] = "idle" /\ via'[u] = 0
    BY <1>4
  <2> QED  BY <1>0, <2>1, <2>2 DEF BrokerInv, ListInv
<1>11. OriginInv'
  <2>1. OwnBrokerKept'
    BY <1>0, <1>2, <1>3 DEF BrokerInv, OriginInv, OwnBrokerKept
  <2>2. \A b \in 1..Len(brokers') : brokers'[b].parent \in procs'
    BY <1>0, <1>3 DEF BrokerInv, OriginInv
  <2>3. \A q \in procs : server[q] # 0 => brokers'[server[q]].loaded \subseteq list[q]
    <3> SUFFICES ASSUME NEW q \in procs, server[q] # 0
                 PROVE  brokers'[server[q]].loaded \subseteq list[q]
      OBVIOUS
    <3>1. server[q] \in 1..Len(brokers)
      BY <1>6, ProcTwo DEF BrokerInv, BrokerShape
    <3> QED  BY <1>3, <3>1 DEF BrokerInv, OriginInv
  <2>4. \A u \in Threads : pc'[u] = "reset" => pc[u] = "reset"
    BY <1>4
  <2>5. \A q \in Procs : server'[q] <= Len(brokers')
    BY <1>0, <1>2, <1>3
  <2> QED  BY <1>0, <1>7, <2>1, <2>2, <2>3, <2>4, <2>5, ProcTwo DEF BrokerInv, OriginInv
<1>12. RecordInv'
  <2>1. ASSUME NEW q \in Procs, record[q].owner = q
        PROVE  LET b == record[q].broker IN
               /\ b \in 1..Len(brokers') /\ brokers'[b].parent = q
               /\ brokers'[b].loaded \subseteq record[q].names
               /\ brokers'[b].vouched => record[q].names = brokers'[b].loaded
    <3>1. LET b == record[q].broker IN
               /\ b \in 1..Len(brokers) /\ brokers[b].parent = q
               /\ brokers[b].loaded \subseteq record[q].names
               /\ brokers[b].vouched => record[q].names = brokers[b].loaded
      BY <2>1 DEF BrokerInv, RecordInv
    <3> QED  BY <1>3, <3>1
  <2>2. \A q \in Procs : HasRecord(q)' <=> HasRecord(q)
    BY <1>0 DEF HasRecord
  <2>3. \A q \in Procs : IsOwn(q) =>
            /\ brokers'[server[q]].vouched => brokers[server[q]].vouched
            /\ brokers'[server[q]].loaded = brokers[server[q]].loaded
    BY <1>3, <1>6 DEF IsOwn
  <2>4. ASSUME NEW u \in Threads, pc'[u] = "record"
        PROVE  LET q == Proc(u) IN
               /\ IsOwn(q)'
               /\ brokers'[server[q]].vouched /\ ~HasRecord(q)'
                     => list[q] = brokers'[server[q]].loaded
    <3>1. pc[u] = "record" /\ Proc(u) \in Procs
      BY <1>4, <2>4, ProcTwo
    <3> QED  BY <1>7, <2>2, <2>3, <3>1 DEF BrokerInv, RecordInv
  <2>5. ASSUME NEW q \in procs, IsOwn(q)', brokers'[server[q]].vouched
        PROVE  HasRecord(q)' \/ \E u \in Threads : Proc(u) = q /\ pc'[u] = "record"
    <3>1. q \in Procs
      BY ProcTwo DEF BrokerInv, BrokerShape
    <3>2. HasRecord(q) \/ \E u \in Threads : Proc(u) = q /\ pc[u] = "record"
      BY <1>7, <2>3, <2>5, <3>1 DEF BrokerInv, RecordInv
    <3>3. CASE HasRecord(q)
      BY <2>2, <3>1, <3>3
    <3>4. CASE ~HasRecord(q)
      <4>1. PICK u \in Threads : Proc(u) = q /\ pc[u] = "record"
        BY <3>2, <3>4
      <4>2. u # t
        BY <1>3, <1>5, <1>7, <2>5, <3>1, <3>4, <4>1
      <4> QED  BY <1>4, <4>1, <4>2
    <3> QED  BY <3>3, <3>4
  <2>6. record["host"].owner # "child"
        /\ ("child" \notin procs => record["child"].owner # "child")
    BY DEF BrokerInv, RecordInv
  <2> QED  BY <1>0, <2>1, <2>4, <2>5, <2>6 DEF RecordInv, HasRecord
<1>13. WarnInv'
  <2> SUFFICES ASSUME NEW u \in Threads
        PROVE  /\ pc'[u] \in Starting =>
                    LET q == Proc(u) IN
                    /\ warned'[u] = {} \/ Died(q)' \/ IsOwn(q)'
                    /\ IsOwn(q)' => Warned(u, server[q])'
               /\ pc'[u] = "record" => via'[u] # 0
               /\ pc'[u] \in {"record", "idle"} /\ via'[u] # 0 =>
                     via'[u] <= Len(brokers') /\ Warned(u, via[u])'
    BY DEF WarnInv, Warned
  <2>1. CASE u = t
    BY <1>4, <2>1 DEF Starting
  <2>2. CASE u # t
    <3>1. Proc(u) \in Procs
      BY ProcTwo
    <3>2. /\ pc'[u] = pc[u] /\ via'[u] = via[u]
          /\ warned'[u] = warned[u] /\ want'[u] = want[u]
          /\ (Died(Proc(u)) => Died(Proc(u))')
          /\ server'[Proc(u)] = server[Proc(u)]
          /\ (IsOwn(Proc(u))' <=> IsOwn(Proc(u)))
      BY <1>0, <1>4, <1>7, <1>8, <2>2, <3>1
    <3>3. /\ Len(brokers') \in Nat /\ Len(brokers) <= Len(brokers')
          /\ \A b \in 1..Len(brokers) : /\ brokers'[b].loaded = brokers[b].loaded
                                        /\ brokers'[b].vouched => brokers[b].vouched
      BY <1>2, <1>3
    <3> QED  BY <3>2, <3>3, ThreadApart
  <2> QED  BY <2>1, <2>2
<1> QED  BY <1>9, <1>10, <1>11, <1>12, <1>13 DEF BrokerInv

LEMMA ForkStep ==
  ASSUME OneStarter, BrokerInv, Fork
  PROVE  BrokerInv'
<1>0. /\ procs = {"host"} /\ procs' = {"host", "child"}
      /\ list' = [list EXCEPT !["child"] = list["host"]]
      /\ asked' = [asked EXCEPT !["child"] = asked["host"]]
      /\ server' = [server EXCEPT !["child"] = server["host"]]
      /\ record' = [record EXCEPT !["child"] = record["host"]]
      /\ held' = [held EXCEPT !["child"] = held["host"]]
      /\ UNCHANGED <<brokers, pc, read, want, warned, via>>
  BY ProcTwo DEF Fork
<1>1. \A t \in Threads : Proc(t) # "host" => pc[t] = "idle" /\ via[t] = 0
  BY <1>0 DEF BrokerInv, ListInv
<1>2. \A t \in Threads : Proc(t) \in {"host", "child"}
  BY ProcTwo
<1>3. /\ list'["host"] = list["host"] /\ asked'["host"] = asked["host"]
      /\ server'["host"] = server["host"] /\ record'["host"] = record["host"]
      /\ list'["child"] = list["host"] /\ asked'["child"] = asked["host"]
      /\ server'["child"] = server["host"] /\ record'["child"] = record["host"]
      /\ held'["host"] = held["host"]
  BY <1>0, ProcTwo DEF BrokerInv, BrokerShape
<1>4. server["host"] # 0 => brokers[server["host"]].parent = "host"
  BY DEF BrokerInv, OriginInv, IsOwn
<1>5. ~IsOwn("child")' /\ (IsOwn("host")' <=> IsOwn("host"))
  BY <1>0, <1>3, <1>4 DEF IsOwn
<1>6. BrokerShape'
  BY <1>0, ProcTwo DEF BrokerInv, BrokerShape
<1>7. ListInv'
  BY <1>0, <1>1, <1>2, <1>3 DEF BrokerInv, ListInv, Starting
<1>8. OriginInv'
  <2>1. OwnBrokerKept'
    <3>1. DOMAIN brokers = 1..Len(brokers)
      BY DEF BrokerInv, BrokerShape
    <3>2. \A b \in 1..Len(brokers) : brokers[b].parent = "host"
      BY <1>0 DEF BrokerInv, OriginInv
    <3> QED  BY <1>0, <1>3, <3>1, <3>2 DEF BrokerInv, OriginInv, OwnBrokerKept
  <2>2. \A q \in Procs : server'[q] <= Len(brokers')
    BY <1>0, <1>3, ProcTwo DEF BrokerInv, OriginInv
  <2>3. \A q \in procs' : server'[q] # 0 => brokers'[server'[q]].loaded \subseteq list'[q]
    BY <1>0, <1>3 DEF BrokerInv, OriginInv
  <2>4. \A t \in Threads : pc'[t] = "reset" =>
           server'[Proc(t)] # 0 /\ ~IsOwn(Proc(t))'
    BY <1>0, <1>1, <1>3, <1>5 DEF BrokerInv, OriginInv
  <2> QED  BY <1>0, <1>3, <1>5, <2>1, <2>2, <2>3, <2>4 DEF BrokerInv, OriginInv
<1>9. RecordInv'
  <2>1. \A q \in Procs : record'[q].owner = q =>
          LET b == record'[q].broker IN
          /\ b \in 1..Len(brokers') /\ brokers'[b].parent = q
          /\ brokers'[b].loaded \subseteq record'[q].names
          /\ brokers'[b].vouched => record'[q].names = brokers'[b].loaded
    BY <1>0, <1>3, ProcTwo DEF BrokerInv, RecordInv
  <2>2. HasRecord("host")' <=> HasRecord("host")
    BY <1>3 DEF HasRecord
  <2>3. ASSUME NEW t \in Threads, pc[t] = "record"
        PROVE  LET q == Proc(t) IN
               /\ IsOwn(q)'
               /\ brokers'[server'[q]].vouched /\ ~HasRecord(q)'
                     => list'[q] = brokers'[server'[q]].loaded
    <3>1. Proc(t) = "host"
      BY <1>1, <2>3
    <3> QED  BY <1>0, <1>3, <1>5, <2>2, <2>3, <3>1 DEF BrokerInv, RecordInv
  <2>4. ASSUME NEW q \in procs', IsOwn(q)', brokers'[server'[q]].vouched
        PROVE  HasRecord(q)' \/ \E t \in Threads : Proc(t) = q /\ pc[t] = "record"
    <3>1. q = "host"
      BY <1>0, <1>5, <2>4
    <3> QED  BY <1>0, <1>3, <1>5, <2>2, <2>4, <3>1 DEF BrokerInv, RecordInv
  <2> QED  BY <1>0, <1>3, <2>1, <2>3, <2>4 DEF BrokerInv, RecordInv, HasRecord
<1>10. WarnInv'
  <2> SUFFICES ASSUME NEW u \in Threads
        PROVE  /\ pc'[u] \in Starting =>
                    LET q == Proc(u) IN
                    /\ warned'[u] = {} \/ Died(q)' \/ IsOwn(q)'
                    /\ IsOwn(q)' => Warned(u, server[q])'
               /\ pc'[u] = "record" => via'[u] # 0
               /\ pc'[u] \in {"record", "idle"} /\ via'[u] # 0 =>
                     via'[u] <= Len(brokers') /\ Warned(u, via[u])'
    BY DEF WarnInv, Warned
  <2>1. CASE Proc(u) = "host"
    <3>1. /\ pc'[u] = pc[u] /\ via'[u] = via[u]
          /\ warned'[u] = warned[u] /\ want'[u] = want[u]
          /\ (Died(Proc(u)) => Died(Proc(u))')
          /\ server'[Proc(u)] = server[Proc(u)]
          /\ (IsOwn(Proc(u))' <=> IsOwn(Proc(u)))
      BY <1>0, <1>3, <1>5, <2>1 DEF Died
    <3>2. /\ Len(brokers') \in Nat /\ Len(brokers) <= Len(brokers')
          /\ \A b \in 1..Len(brokers) : /\ brokers'[b].loaded = brokers[b].loaded
                                        /\ brokers'[b].vouched => brokers[b].vouched
      BY <1>0 DEF BrokerInv, BrokerShape
    <3> QED  BY <3>1, <3>2, ThreadApart
  <2>2. CASE Proc(u) # "host"
    BY <1>0, <1>1, <2>2 DEF Starting
  <2> QED  BY <2>1, <2>2
<1> QED  BY <1>6, <1>7, <1>8, <1>9, <1>10 DEF BrokerInv

-----------------------------------------------------------------------------
LEMMA BrokerStarts ==
  ASSUME BrokerInit
  PROVE  BrokerInv
<1>0. PICK l \in {{"__main__"}, {"__main__", "embedder"}} : list = [p \in Procs |-> l]
  BY DEF BrokerInit
<1>1. l \in SUBSET Modules
  BY <1>0 DEF Modules
<1>2. brokers = <<>> /\ Len(brokers) = 0 /\ DOMAIN brokers = {}
      /\ brokers \in Seq([parent : Procs, ours : BOOLEAN, vouched : BOOLEAN, up : BOOLEAN,
                          loaded : SUBSET Modules])
  BY DEF BrokerInit
<1>3. BrokerShape
  BY <1>0, <1>1, <1>2 DEF BrokerInit, BrokerShape, NoRecord
<1>4. ListInv
  BY <1>0, ProcTwo DEF BrokerInit, ListInv, Starting
<1>5. OriginInv
  BY <1>2, ProcTwo DEF BrokerInit, OriginInv, OwnBrokerKept
<1>6. RecordInv
  BY <1>2, ProcTwo DEF BrokerInit, RecordInv, NoRecord, IsOwn
<1>7. WarnInv
  BY DEF BrokerInit, WarnInv, Starting
<1> QED  BY <1>3, <1>4, <1>5, <1>6, <1>7 DEF BrokerInv

(* The lock decides nothing here.                                          *)
LEMMA LockOnly ==
  ASSUME BrokerInv, UNCHANGED <<procs, list, server, record, brokers, held, asked,
                                pc, read, want, warned, via>>
  PROVE  BrokerInv'
<1>1. BrokerShape' /\ ListInv'
  BY DEF BrokerInv, BrokerShape, ListInv
<1>2. OriginInv'
  BY DEF BrokerInv, OriginInv, IsOwn, OwnBrokerKept
<1>3. RecordInv'
  BY DEF BrokerInv, RecordInv, IsOwn, HasRecord
<1>4. WarnInv'
  BY DEF BrokerInv, WarnInv, IsOwn, Warned, Died
<1> QED  BY <1>1, <1>2, <1>3, <1>4 DEF BrokerInv

LEMMA BrokerStep ==
  ASSUME OneStarter, BrokerInv, [BrokerNext]_brokerVars
  PROVE  BrokerInv'
<1>1. CASE UNCHANGED brokerVars
  BY <1>1, LockOnly DEF brokerVars
<1>2. CASE \E p \in Procs : ForeignLocks(p) \/ ForeignEnds(p)
  BY <1>2, LockOnly DEF ForeignLocks, ForeignEnds
<1> QED  BY <1>1, <1>2, ReadListStep, ApplyStep, StartLocksStep, StartsBrokerStep,
            ReusesBrokerStep, RefusesBrokerStep, ResetsStep, RecordsStep, RaisesStep,
            ForkStep, ForeignStartStep, BrokerDiesStep
         DEF BrokerNext, StartStep

LEMMA BrokerInvariant ==
  ASSUME OneStarter
  PROVE  BrokerSpec => []BrokerInv
<1>1. BrokerInit => BrokerInv
  BY BrokerStarts
<1>2. BrokerInv /\ [BrokerNext]_brokerVars => BrokerInv'
  BY BrokerStep
<1> QED  BY <1>1, <1>2, PTL DEF BrokerSpec

(* With one starter per process, no preload an embedder or a sandbox of    *)
(* the process asked for leaves the list, whatever forks and crashes.      *)
THEOREM NeverShrinksHolds ==
  ASSUME OneStarter
  PROVE  BrokerSpec => []NeverShrinks
<1>1. BrokerInv => NeverShrinks
  BY DEF BrokerInv, ListInv, NeverShrinks
<1> QED  BY <1>1, BrokerInvariant, PTL

(* Under the same proviso, a record the process believes is exactly what   *)
(* its broker loaded, if a sandbox's start brought it up and came to       *)
(* record it, whatever other starts raise: a forked child never believes   *)
(* its parent's, nor any process that of a broker replaced since.          *)
THEOREM RecordTrueHolds ==
  ASSUME OneStarter
  PROVE  BrokerSpec => []RecordTrue
<1>1. ASSUME BrokerInv
      PROVE  RecordTrue
  <2> SUFFICES ASSUME NEW p \in procs, NEW names \in ActivePreload(p),
                      server[p] # 0, brokers[server[p]].vouched
               PROVE  names = brokers[server[p]].loaded
    BY DEF RecordTrue
  <2>1. record[p].owner = p /\ record[p].broker = server[p] /\ names = record[p].names
    BY DEF ActivePreload
  <2>2. p \in Procs
    BY <1>1, ProcTwo DEF BrokerInv, BrokerShape
  <2> QED  BY <1>1, <2>1, <2>2 DEF BrokerInv, RecordInv
<1> QED  BY <1>1, BrokerInvariant, PTL

(* Under the same proviso, warnings name only what the broker lacks, until *)
(* one of the process's brokers dies, and all of what the broker lacks, if *)
(* a sandbox's start brought it up and came to record it.                  *)
THEOREM WarningsRightHolds ==
  ASSUME OneStarter
  PROVE  BrokerSpec => []WarningsRight
<1>1. BrokerInv => WarningsRight
  BY DEF BrokerInv, WarnInv, Warned, WarningsRight, Started
<1> QED  BY <1>1, BrokerInvariant, PTL

(* Under the same proviso, no process gives up the alive descriptor of a   *)
(* running broker it started: the recovery drops inherited ones only.      *)
THEOREM OwnBrokerKeptHolds ==
  ASSUME OneStarter
  PROVE  BrokerSpec => []OwnBrokerKept
<1>1. BrokerInv => OwnBrokerKept
  BY DEF BrokerInv, OriginInv
<1> QED  BY <1>1, BrokerInvariant, PTL
=============================================================================
