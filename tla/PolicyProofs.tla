---------------------------- MODULE PolicyProofs ----------------------------
(***************************************************************************)
(* Proofs about Policy, for any tree of modules, any registrations with    *)
(* any filters in any order, and any imports in between: the three ways    *)
(* code reaches a module agree, a worker decides as its host does, and no  *)
(* privilege is given that the policy does not declare.                    *)
(***************************************************************************)
EXTENDS Policy, NaturalsInduction, WellFoundedInduction, TLAPS

-----------------------------------------------------------------------------
(* The inductive invariant.                                                *)

Policies == [modules : Seq(Grants), classes : Seq(Grants),
             index : [Objects -> Grants \cup {NoReg}], rebound : BOOLEAN]

Dict(P, o) == IF o = Cls THEN P.classes ELSE P.modules

(* Where object o was registered last, among the entries of d.             *)
At(d, o) == {i \in DOMAIN d : d[i].obj = o}
LastOf(d, o) ==
    IF At(d, o) = {} THEN NoReg
    ELSE d[CHOOSE i \in At(d, o) : \A j \in At(d, o) : j <= i]

(* A key is in a dict once.                                                *)
OncePerKey(d) == \A i, j \in DOMAIN d : d[i].key = d[j].key => i = j

(* What is in the dict is indexed.  What is indexed for a module was in    *)
(* the dict under its key, and is so still unless another object took it.  *)
Indexed(P) ==
    /\ \A r \in Regs(P.modules) : r.obj # Cls /\ P.index[r.obj] # NoReg
    /\ \A m \in Mods : P.index[m] # NoReg =>
          /\ P.index[m].obj = m /\ P.index[m].key \in Keys(Regs(P.modules))
          /\ \A r \in Regs(P.modules) :
                r.obj = m /\ r.key = P.index[m].key => r = P.index[m]

(* While no key was given again, the index is what unpickling would build. *)
Current(P) == ~P.rebound => \A o \in Objects : P.index[o] = LastOf(Dict(P, o), o)

Coherent(P) ==
    OncePerKey(P.modules) /\ OncePerKey(P.classes) /\ Indexed(P) /\ Current(P)

(* A worker no registration has overtaken has the host's policy.           *)
SameInv ==
    running /\ fresh /\ ~policy["host"].rebound =>
        /\ policy["worker"].modules = policy["host"].modules
        /\ policy["worker"].classes = policy["host"].classes
        /\ policy["worker"].index = policy["host"].index

PolicyInv == PolicyTypeOK /\ SameInv /\ \A p \in Procs : Coherent(policy[p])

-----------------------------------------------------------------------------
(* Numbers.                                                                *)

(* A set of numbers has a least, and one with a bound a greatest.          *)
LEMMA Least ==
  ASSUME NEW S, S \subseteq Nat, S # {}
  PROVE  \E i \in S : \A j \in S : i <= j
<1>1. PICK i \in S : \A j \in S : ~(<<j, i>> \in OpToRel(<, Nat))
  BY WFMin, NatLessThanWellFounded
<1>2. \A j \in S : ~(j < i)
  BY <1>1 DEF OpToRel
<1>3. \A j \in S : i <= j
  BY <1>2
<1> QED  BY <1>3

LEMMA Greatest ==
  ASSUME NEW n \in Nat, NEW S, S \subseteq 1..n, S # {}
  PROVE  \E i \in S : \A j \in S : j <= i
<1> DEFINE T == {n - i : i \in S}
<1>1. T \subseteq Nat
  OBVIOUS
<1>2. T # {}
  OBVIOUS
<1> HIDE DEF T
<1>3. PICK x \in T : \A y \in T : x <= y
  BY <1>1, <1>2, Least
<1> USE DEF T
<1>4. PICK i \in S : x = n - i
  OBVIOUS
<1>5. ASSUME NEW j \in S
      PROVE  j <= i
  <2>1. n - j \in T
    OBVIOUS
  <2>2. x <= n - j
    BY <1>3, <2>1
  <2>3. i \in Int /\ j \in Int
    OBVIOUS
  <2> QED  BY ONLY <1>4, <2>2, <2>3, n \in Nat
<1> QED  BY <1>5

-----------------------------------------------------------------------------
(* Registrations.                                                          *)

LEMMA ModFacts ==
  /\ Mods \subseteq Names /\ DefinedIn \in Mods
  /\ "none" \notin Mods /\ Cls \notin Mods /\ Inst \notin Mods /\ Fn \notin Mods
  /\ \A n \in Names : Module[n] \in Mods /\ n # Cls /\ n # Inst /\ n # Fn
BY PolicyAssumption DEF Mods

LEMMA GrantFacts ==
  /\ NoReg \notin Grants /\ ~NoReg.recursive /\ ~NoReg.network /\ NoReg.configure = {}
  /\ \A g \in Grants : g.obj \in Objects
  /\ Cls \in Objects /\ Mods \subseteq Objects /\ Cls \notin Mods
<1>1. NoReg.obj = "none" /\ "none" \notin Objects
  BY ModFacts DEF NoReg, Objects, Cls, Inst
<1>2. NoReg \notin Grants
  BY <1>1, PolicyAssumption
<1>3. ~NoReg.recursive /\ ~NoReg.network /\ NoReg.configure = {}
  BY DEF NoReg
<1>4. Cls \in Objects /\ Mods \subseteq Objects /\ Cls \notin Mods
  BY ModFacts DEF Objects
<1> QED  BY <1>2, <1>3, <1>4, PolicyAssumption

(* The last registration of an object, wherever it is.                     *)
LEMMA LastOfIs ==
  ASSUME NEW d \in Seq(Grants), NEW o, NEW i \in DOMAIN d, d[i].obj = o,
         \A j \in DOMAIN d : d[j].obj = o => j <= i
  PROVE  LastOf(d, o) = d[i]
<1>1. i \in At(d, o) /\ \A j \in At(d, o) : j <= i
  BY DEF At
<1>2. \A j \in At(d, o) : j \in Int
  BY DEF At
<1>3. \A k \in At(d, o) : (\A j \in At(d, o) : j <= k) => k = i
  BY <1>1, <1>2
<1> QED  BY <1>1, <1>3 DEF LastOf

LEMMA LastExists ==
  ASSUME NEW d \in Seq(Grants), NEW o, At(d, o) # {}
  PROVE  \E i \in DOMAIN d : /\ d[i].obj = o
                             /\ \A j \in DOMAIN d : d[j].obj = o => j <= i
<1>1. At(d, o) \subseteq 1..Len(d) /\ Len(d) \in Nat
  BY DEF At
<1>2. PICK i \in At(d, o) : \A j \in At(d, o) : j <= i
  BY <1>1, Greatest
<1> QED  BY <1>2 DEF At

LEMMA LastOfType ==
  ASSUME NEW d \in Seq(Grants), NEW o
  PROVE  /\ LastOf(d, o) \in Regs(d) \cup {NoReg}
         /\ LastOf(d, o) \in Grants \cup {NoReg}
         /\ LastOf(d, o) # NoReg => LastOf(d, o) \in Regs(d) /\ LastOf(d, o).obj = o
         /\ (\E r \in Regs(d) : r.obj = o) => LastOf(d, o) # NoReg
<1>1. CASE At(d, o) = {}
  BY <1>1 DEF LastOf, At, Regs
<1>2. CASE At(d, o) # {}
  <2>1. PICK i \in DOMAIN d : d[i].obj = o /\ \A j \in DOMAIN d : d[j].obj = o => j <= i
    BY <1>2, LastExists
  <2>2. LastOf(d, o) = d[i]
    BY <2>1, LastOfIs
  <2>3. d[i] \in Grants /\ d[i] \in Regs(d)
    BY DEF Regs
  <2> QED  BY <2>1, <2>2, <2>3, GrantFacts
<1> QED  BY <1>1, <1>2

(* What putting a registration into a dict does.                           *)
LEMMA PutIs ==
  ASSUME NEW d \in Seq(Grants), NEW g \in Grants, OncePerKey(d)
  PROVE  /\ Put(d, g) \in Seq(Grants) /\ OncePerKey(Put(d, g))
         /\ Regs(Put(d, g)) = {r \in Regs(d) : r.key # g.key} \cup {g}
<1>1. CASE g.key \in Keys(Regs(d))
  <2> DEFINE e == [i \in DOMAIN d |-> IF d[i].key = g.key THEN g ELSE d[i]]
  <2>1. Put(d, g) = e
    BY <1>1 DEF Put
  <2>2. DOMAIN d = 1..Len(d) /\ Len(d) \in Nat /\ \A i \in DOMAIN d : d[i] \in Grants
    OBVIOUS
  <2>3. e \in Seq(Grants) /\ DOMAIN e = DOMAIN d
    BY <2>2
  <2>4. \A i \in DOMAIN d : e[i] = IF d[i].key = g.key THEN g ELSE d[i]
    OBVIOUS
  <2>5. PICK k \in DOMAIN d : d[k].key = g.key
    BY <1>1 DEF Keys, Regs
  <2> HIDE DEF e
  <2>6. OncePerKey(e)
    BY <2>3, <2>4 DEF OncePerKey
  <2>7. Regs(e) = {r \in Regs(d) : r.key # g.key} \cup {g}
    BY <2>3, <2>4, <2>5 DEF Regs
  <2> QED  BY <2>1, <2>3, <2>6, <2>7
<1>2. CASE g.key \notin Keys(Regs(d))
  <2> DEFINE e == Append(d, g)
  <2>1. Put(d, g) = e
    BY <1>2 DEF Put
  <2>2. /\ DOMAIN d = 1..Len(d) /\ Len(d) \in Nat /\ e \in Seq(Grants)
        /\ DOMAIN e = 1..(Len(d) + 1) /\ e[Len(d) + 1] = g
        /\ \A i \in DOMAIN d : e[i] = d[i]
    OBVIOUS
  <2>3. \A i \in DOMAIN d : d[i].key # g.key
    BY <1>2 DEF Keys, Regs
  <2> HIDE DEF e
  <2>4. \A i \in DOMAIN e : i \in DOMAIN d \/ i = Len(d) + 1
    BY <2>2
  <2>5. OncePerKey(e)
    BY <2>2, <2>3, <2>4 DEF OncePerKey
  <2>6. Regs(e) = {r \in Regs(d) : r.key # g.key} \cup {g}
    <3>1. DOMAIN d \subseteq DOMAIN e /\ Len(d) + 1 \in DOMAIN e
      BY <2>2
    <3> QED  BY <2>2, <2>3, <2>4, <3>1 DEF Regs
  <2> QED  BY <2>1, <2>2, <2>5, <2>6
<1> QED  BY <1>1, <1>2

(* Unless a key is given again, the last registration of an object is then *)
(* the new one, if it is of that object, or what it was.                   *)
LEMMA PutLast ==
  ASSUME NEW d \in Seq(Grants), NEW g \in Grants, NEW o, OncePerKey(d), ~Rebinds(d, g)
  PROVE  LastOf(Put(d, g), o) = IF o = g.obj THEN g ELSE LastOf(d, o)
<1> DEFINE e == Put(d, g)
<1>1. e \in Seq(Grants)
  BY PutIs
<1>2. CASE g.key \in Keys(Regs(d))
  <2>1. PICK k \in DOMAIN d : d[k].key = g.key
    BY <1>2 DEF Keys, Regs
  <2>2. \A i \in DOMAIN d : d[i].key = g.key => i = k
    BY <2>1 DEF OncePerKey
  <2>3. DOMAIN e = DOMAIN d /\ e[k] = g /\ \A i \in DOMAIN d : i # k => e[i] = d[i]
    BY <1>2, <2>1, <2>2 DEF Put
  <2>4. Get(Regs(d), g.key) = d[k]
    BY <2>1, <2>2 DEF Get, Regs
  <2>5. d[k].obj = g.obj
    BY <1>2, <2>4 DEF Rebinds
  <2>6. \A i \in DOMAIN d : d[i].obj = g.obj => i = k
    BY <1>2, <2>2 DEF Rebinds, Regs
  <2> HIDE DEF e
  <2>7. CASE o = g.obj
    <3>1. \A j \in DOMAIN e : e[j].obj = o => j = k
      BY <2>3, <2>6, <2>7
    <3>2. k \in DOMAIN e /\ k <= k /\ e[k].obj = o
      BY <2>1, <2>3, <2>7
    <3>3. \A j \in DOMAIN e : e[j].obj = o => j <= k
      BY <3>1, <3>2
    <3>4. LastOf(e, o) = e[k]
      BY <1>1, <3>2, <3>3, LastOfIs
    <3> QED  BY <2>3, <2>7, <3>4 DEF e
  <2>8. CASE o # g.obj
    <3>1. \A j \in DOMAIN d : (e[j].obj = o <=> d[j].obj = o)
      BY <2>3, <2>5, <2>8
    <3>2. CASE At(d, o) = {}
      <4>1. At(e, o) = {}
        BY <2>3, <3>1, <3>2 DEF At
      <4> QED  BY <2>8, <3>2, <4>1 DEF LastOf, e
    <3>3. CASE At(d, o) # {}
      <4>1. PICK i \in DOMAIN d : d[i].obj = o /\ \A j \in DOMAIN d : d[j].obj = o => j <= i
        BY <3>3, LastExists
      <4>2. LastOf(d, o) = d[i]
        BY <4>1, LastOfIs
      <4>3. i \in DOMAIN e /\ e[i].obj = o /\ \A j \in DOMAIN e : e[j].obj = o => j <= i
        BY <2>3, <3>1, <4>1
      <4>4. LastOf(e, o) = e[i]
        BY <1>1, <4>3, LastOfIs
      <4>5. e[i] = d[i]
        BY <2>3, <2>5, <2>8, <4>1
      <4> QED  BY <2>8, <4>2, <4>4, <4>5 DEF e
    <3> QED  BY <3>2, <3>3
  <2> QED  BY <2>7, <2>8
<1>3. CASE g.key \notin Keys(Regs(d))
  <2>1. /\ DOMAIN d = 1..Len(d) /\ Len(d) \in Nat
        /\ DOMAIN e = 1..(Len(d) + 1) /\ e[Len(d) + 1] = g
        /\ \A i \in DOMAIN d : e[i] = d[i]
    BY <1>3 DEF Put
  <2> HIDE DEF e
  <2>2. \A i \in DOMAIN e : i <= Len(d) + 1 /\ (i \in DOMAIN d \/ i = Len(d) + 1)
    BY <2>1
  <2>3. CASE o = g.obj
    <3>1. Len(d) + 1 \in DOMAIN e /\ e[Len(d) + 1].obj = o
      BY <2>1, <2>3
    <3>2. LastOf(e, o) = e[Len(d) + 1]
      BY <1>1, <2>2, <3>1, LastOfIs
    <3> QED  BY <2>1, <2>3, <3>2 DEF e
  <2>4. CASE o # g.obj
    <3>1. DOMAIN d \subseteq DOMAIN e
      BY <2>1
    <3>2. CASE At(d, o) = {}
      <4>1. At(e, o) = {}
        BY <2>1, <2>2, <2>4, <3>2 DEF At
      <4> QED  BY <2>4, <3>2, <4>1 DEF LastOf, e
    <3>3. CASE At(d, o) # {}
      <4>1. PICK i \in DOMAIN d : d[i].obj = o /\ \A j \in DOMAIN d : d[j].obj = o => j <= i
        BY <3>3, LastExists
      <4>2. LastOf(d, o) = d[i]
        BY <4>1, LastOfIs
      <4>3. i \in DOMAIN e /\ e[i].obj = o /\ \A j \in DOMAIN e : e[j].obj = o => j <= i
        BY <2>1, <2>2, <2>4, <3>1, <4>1
      <4>4. LastOf(e, o) = e[i]
        BY <1>1, <4>3, LastOfIs
      <4>5. e[i] = d[i]
        BY <2>1
      <4> QED  BY <2>4, <4>2, <4>4, <4>5 DEF e
    <3> QED  BY <3>2, <3>3
  <2> QED  BY <2>3, <2>4
<1> QED  BY <1>2, <1>3

-----------------------------------------------------------------------------
(* Packages.                                                               *)

Up(R, m) == {i \in 1..(Len(Path[m]) - 1) : Path[m][i] \in Keys(R)}

(* The closest package above m that is registered, wherever it is.         *)
LEMMA NearestIs ==
  ASSUME NEW R, NEW m \in Names, NEW i \in Up(R, m), \A j \in Up(R, m) : j <= i
  PROVE  NearestAbove(R, m) = Get(R, Path[m][i])
<1>1. \A k \in Up(R, m) : (\A j \in Up(R, m) : j <= k) => k = i
  <2>1. \A j \in Up(R, m) : j \in Int
    BY DEF Up
  <2> QED  BY <2>1
<1> QED  BY <1>1 DEF NearestAbove, Up

LEMMA NearestExists ==
  ASSUME NEW R, NEW m \in Names, Up(R, m) # {}
  PROVE  \E i \in Up(R, m) : \A j \in Up(R, m) : j <= i
<1>1. Len(Path[m]) \in Nat /\ Len(Path[m]) - 1 \in Nat
  BY PolicyAssumption
<1>2. Up(R, m) \subseteq 1..(Len(Path[m]) - 1)
  BY DEF Up
<1> QED  BY <1>1, <1>2, Greatest

(* It is one of the registrations, or there is none.                       *)
LEMMA NearestType ==
  ASSUME NEW R, NEW m \in Names
  PROVE  NearestAbove(R, m) \in R \cup {NoReg}
<1>1. CASE Up(R, m) = {}
  BY <1>1 DEF NearestAbove, Up
<1>2. CASE Up(R, m) # {}
  <2>1. PICK i \in Up(R, m) : \A j \in Up(R, m) : j <= i
    BY <1>2, NearestExists
  <2>2. NearestAbove(R, m) = Get(R, Path[m][i])
    BY <2>1, NearestIs
  <2>3. \E r \in R : r.key = Path[m][i]
    BY DEF Up, Keys
  <2> QED  BY <2>2, <2>3 DEF Get
<1> QED  BY <1>1, <1>2

(* A module goes by its package if that is registered, and otherwise as    *)
(* the package does.                                                       *)
LEMMA NearestOfChild ==
  ASSUME NEW R, NEW m \in Names, NEW q \in Names, IsParent(q, m)
  PROVE  NearestAbove(R, m) = IF q \in Keys(R) THEN Get(R, q) ELSE NearestAbove(R, q)
<1> DEFINE n == Len(Path[m])
<1>1. /\ Path[m] \in Seq(Names) /\ n \in Nat /\ n > 1 /\ q = Path[m][n - 1]
      /\ n - 1 \in DOMAIN Path[m]
  BY PolicyAssumption DEF IsParent
<1>2. Path[q] = SubSeq(Path[m], 1, n - 1)
  BY <1>1, PolicyAssumption
<1>3. Len(Path[q]) = n - 1 /\ \A i \in 1..(n - 1) : Path[q][i] = Path[m][i]
  BY <1>1, <1>2
<1> HIDE DEF n
<1>4. CASE q \in Keys(R)
  <2>1. n - 1 \in Up(R, m) /\ \A j \in Up(R, m) : j <= n - 1
    BY <1>1, <1>4 DEF Up, n
  <2> QED  BY <1>1, <1>4, <2>1, NearestIs
<1>5. CASE q \notin Keys(R)
  <2>1. Up(R, m) = Up(R, q)
    <3>1. ASSUME NEW i \in Up(R, m) PROVE i \in Up(R, q)
      <4>1. i \in 1..(n - 1) /\ i # n - 1
        BY <1>1, <1>5 DEF Up, n
      <4>2. i \in 1..(Len(Path[q]) - 1)
        BY <1>1, <1>3, <4>1
      <4> QED  BY <1>3, <4>1, <4>2 DEF Up
    <3>2. ASSUME NEW i \in Up(R, q) PROVE i \in Up(R, m)
      <4>1. i \in 1..(n - 1)
        BY <1>1, <1>3 DEF Up
      <4> QED  BY <1>3, <4>1 DEF Up, n
    <3> QED  BY <3>1, <3>2
  <2>2. CASE Up(R, m) = {}
    BY <1>5, <2>1, <2>2 DEF NearestAbove, Up
  <2>3. CASE Up(R, m) # {}
    <3>1. PICK i \in Up(R, m) : \A j \in Up(R, m) : j <= i
      BY <2>3, NearestExists
    <3>2. NearestAbove(R, m) = Get(R, Path[m][i])
      BY <3>1, NearestIs
    <3>3. NearestAbove(R, q) = Get(R, Path[q][i])
      BY <2>1, <3>1, NearestIs
    <3>4. Path[q][i] = Path[m][i]
      BY <1>3 DEF Up, n
    <3> QED  BY <1>5, <3>2, <3>3, <3>4
  <2> QED  BY <2>2, <2>3
<1> QED  BY <1>4, <1>5

(* If the closest registered package is recursive, it is the closest       *)
(* recursive one.                                                          *)
LEMMA NearestRecursive ==
  ASSUME NEW d \in Seq(Grants), OncePerKey(d), NEW m \in Names,
         NearestAbove(Regs(d), m).recursive
  PROVE  NearestAbove({r \in Regs(d) : r.recursive}, m) = NearestAbove(Regs(d), m)
<1> DEFINE R == Regs(d)
           C == {r \in R : r.recursive}
<1>1. Up(R, m) # {}
  BY GrantFacts DEF NearestAbove, Up
<1>2. PICK i \in Up(R, m) : \A j \in Up(R, m) : j <= i
  BY <1>1, NearestExists
<1>3. NearestAbove(R, m) = Get(R, Path[m][i])
  BY <1>2, NearestIs
<1>4. \A r, s \in R : r.key = s.key => r = s
  BY DEF OncePerKey, Regs
<1> HIDE DEF R
<1>5. PICK r \in R : r.key = Path[m][i]
  BY <1>2 DEF Up, Keys
<1>6. Get(R, Path[m][i]) = r
  BY <1>4, <1>5 DEF Get
<1>7. r \in C
  BY <1>3, <1>6 DEF R
<1>8. Get(C, Path[m][i]) = r
  BY <1>4, <1>5, <1>7 DEF Get
<1>9. i \in Up(C, m) /\ Up(C, m) \subseteq Up(R, m)
  BY <1>5, <1>7 DEF Up, Keys
<1>10. NearestAbove(C, m) = Get(C, Path[m][i])
  BY <1>2, <1>9, NearestIs
<1> QED  BY <1>3, <1>6, <1>8, <1>10 DEF R

LEMMA FirstType ==
  ASSUME NEW d \in Seq(Grants), NEW m
  PROVE  FirstCovering(d, m) \in Regs(d) \cup {NoReg}
<1> DEFINE cover == {i \in DOMAIN d : d[i].recursive /\ d[i].key \in Above(m)}
<1>1. CASE cover = {}
  BY <1>1 DEF FirstCovering
<1>2. CASE cover # {}
  <2>1. cover \subseteq Nat
    OBVIOUS
  <2>2. PICK i \in cover : \A j \in cover : i <= j
    BY <1>2, <2>1, Least
  <2>3. (CHOOSE k \in cover : \A j \in cover : k <= j) \in cover
    BY <2>2
  <2> QED  BY <1>2, <2>3 DEF FirstCovering, Regs
<1> QED  BY <1>1, <1>2

-----------------------------------------------------------------------------
(* The invariant is preserved.                                             *)

LEMMA RebuiltIs ==
  ASSUME NEW P
  PROVE  /\ Rebuilt(P) = [o \in Objects |-> LastOf(Dict(P, o), o)]
         /\ \A o \in Objects : Rebuilt(P)[o] = LastOf(Dict(P, o), o)
BY DEF Rebuilt, LastOf, Dict, At

(* A registration goes into one dict and the index, over what was there.   *)
LEMMA RegisteredCoherent ==
  ASSUME NEW P \in Policies, NEW N \in Policies, NEW g \in Grants, Coherent(P),
         N.index = [P.index EXCEPT ![g.obj] = g],
         N.modules = (IF g.obj = Cls THEN P.modules ELSE Put(P.modules, g)),
         N.classes = (IF g.obj = Cls THEN Put(P.classes, g) ELSE P.classes),
         N.rebound = (P.rebound \/ Rebinds(Dict(P, g.obj), g))
  PROVE  Coherent(N)
<1>1. /\ P.modules \in Seq(Grants) /\ P.classes \in Seq(Grants)
      /\ P.index \in [Objects -> Grants \cup {NoReg}]
      /\ OncePerKey(P.modules) /\ OncePerKey(P.classes) /\ Indexed(P) /\ Current(P)
  BY DEF Policies, Coherent
<1>2. g.obj \in Objects /\ g # NoReg
  BY GrantFacts
<1>3. \A o \in Objects : N.index[o] = IF o = g.obj THEN g ELSE P.index[o]
  BY <1>1
<1>4. OncePerKey(N.modules) /\ OncePerKey(N.classes)
  BY <1>1, PutIs
<1>5. Indexed(N)
  <2>1. CASE g.obj = Cls
    <3>1. N.modules = P.modules /\ \A m \in Mods : N.index[m] = P.index[m]
      BY <1>3, <2>1, GrantFacts
    <3>2. \A r \in Regs(P.modules) : N.index[r.obj] = P.index[r.obj]
      <4>1. \A r \in Regs(P.modules) : r \in Grants
        BY <1>1 DEF Regs
      <4> QED  BY <1>1, <1>3, <2>1, <4>1, GrantFacts DEF Indexed
    <3> QED  BY <1>1, <3>1, <3>2 DEF Indexed
  <2>2. CASE g.obj # Cls
    <3>1. Regs(N.modules) = {r \in Regs(P.modules) : r.key # g.key} \cup {g}
      BY <1>1, <2>2, PutIs
    <3>2. \A r \in Regs(P.modules) : r.obj \in Objects
      BY <1>1, GrantFacts DEF Regs
    <3>3. \A r \in Regs(N.modules) : r.obj # Cls /\ N.index[r.obj] # NoReg
      BY <1>1, <1>2, <1>3, <2>2, <3>1, <3>2 DEF Indexed
    <3>4. ASSUME NEW m \in Mods, N.index[m] # NoReg
          PROVE  /\ N.index[m].obj = m /\ N.index[m].key \in Keys(Regs(N.modules))
                 /\ \A r \in Regs(N.modules) :
                       r.obj = m /\ r.key = N.index[m].key => r = N.index[m]
      <4>1. m \in Objects
        BY GrantFacts
      <4>2. CASE m = g.obj
        <5>1. N.index[m] = g
          BY <1>3, <4>1, <4>2
        <5> QED  BY <3>1, <4>2, <5>1 DEF Keys
      <4>3. CASE m # g.obj
        <5>1. N.index[m] = P.index[m]
          BY <1>3, <4>1, <4>3
        <5> QED  BY <1>1, <3>1, <3>4, <4>3, <5>1 DEF Indexed, Keys
      <4> QED  BY <4>2, <4>3
    <3> QED  BY <3>3, <3>4 DEF Indexed
  <2> QED  BY <2>1, <2>2
<1>6. Current(N)
  <2> SUFFICES ASSUME ~N.rebound, NEW o \in Objects
               PROVE  N.index[o] = LastOf(Dict(N, o), o)
    BY DEF Current
  <2>1. ~P.rebound /\ ~Rebinds(Dict(P, g.obj), g)
    BY DEF Policies
  <2>2. P.index[o] = LastOf(Dict(P, o), o)
    BY <1>1, <2>1 DEF Current
  <2>3. Dict(P, g.obj) \in Seq(Grants) /\ OncePerKey(Dict(P, g.obj))
    BY <1>1 DEF Dict
  <2>4. LastOf(Put(Dict(P, g.obj), g), o) = IF o = g.obj THEN g ELSE LastOf(Dict(P, g.obj), o)
    BY <2>1, <2>3, PutLast
  <2>5. CASE (o = Cls) <=> (g.obj = Cls)
    <3>1. Dict(N, o) = Put(Dict(P, g.obj), g) /\ Dict(P, o) = Dict(P, g.obj)
      BY <2>5 DEF Dict
    <3> QED  BY <1>3, <2>2, <2>4, <3>1
  <2>6. CASE ~((o = Cls) <=> (g.obj = Cls))
    <3>1. Dict(N, o) = Dict(P, o) /\ o # g.obj
      BY <2>6 DEF Dict
    <3> QED  BY <1>3, <2>2, <3>1
  <2> QED  BY <2>5, <2>6
<1> QED  BY <1>4, <1>5, <1>6 DEF Coherent

(* A policy that was pickled has the same dicts, and an index built from   *)
(* them.                                                                   *)
LEMMA UnpickledCoherent ==
  ASSUME NEW P \in Policies, NEW N \in Policies, Coherent(P),
         N.modules = P.modules, N.classes = P.classes, N.index = Rebuilt(P)
  PROVE  Coherent(N)
<1>1. P.modules \in Seq(Grants) /\ P.classes \in Seq(Grants)
  BY DEF Policies
<1>2. \A o : Dict(N, o) = Dict(P, o)
  BY DEF Dict
<1>3. \A o \in Objects : N.index[o] = LastOf(Dict(P, o), o)
  BY RebuiltIs
<1>4. Current(N)
  BY <1>2, <1>3 DEF Current
<1>5. OncePerKey(N.modules) /\ OncePerKey(N.classes)
  BY DEF Coherent
<1>6. \A r \in Regs(N.modules) : r.obj # Cls /\ N.index[r.obj] # NoReg
  <2> SUFFICES ASSUME NEW r \in Regs(P.modules)
               PROVE  r.obj # Cls /\ N.index[r.obj] # NoReg
    OBVIOUS
  <2>1. r.obj # Cls
    BY DEF Coherent, Indexed
  <2>2. r.obj \in Objects
    BY <1>1, GrantFacts DEF Regs
  <2>3. N.index[r.obj] = LastOf(P.modules, r.obj)
    BY <1>3, <2>1, <2>2 DEF Dict
  <2> QED  BY <1>1, <2>1, <2>3, LastOfType
<1>7. ASSUME NEW m \in Mods, N.index[m] # NoReg
      PROVE  /\ N.index[m].obj = m /\ N.index[m].key \in Keys(Regs(N.modules))
             /\ \A r \in Regs(N.modules) :
                   r.obj = m /\ r.key = N.index[m].key => r = N.index[m]
  <2>1. N.index[m] = LastOf(P.modules, m)
    BY <1>3, GrantFacts DEF Dict
  <2>2. N.index[m] \in Regs(P.modules) /\ N.index[m].obj = m
    BY <1>1, <1>7, <2>1, LastOfType
  <2>3. \A r, s \in Regs(P.modules) : r.key = s.key => r = s
    BY <1>1 DEF Coherent, OncePerKey, Regs
  <2> QED  BY <2>2, <2>3 DEF Keys
<1>8. Indexed(N)
  BY <1>6, <1>7 DEF Indexed
<1> QED  BY <1>4, <1>5, <1>8 DEF Coherent

LEMMA TypeOf ==
  PolicyTypeOK <=> /\ policy \in [Procs -> Policies] /\ loaded \in [Procs -> SUBSET Names]
                   /\ running \in BOOLEAN /\ fresh \in BOOLEAN /\ count \in 0..MaxGrants
BY DEF PolicyTypeOK, Policies

LEMMA BringsNames == \A n \in Names : Brings[n] \subseteq Names
BY DEF Brings

LEMMA LoadsForNames == \A o : LoadsFor(o) \subseteq Names
BY BringsNames, PolicyAssumption DEF LoadsFor, Mods

LEMMA InitEstablishes == Init => PolicyInv
<1> SUFFICES ASSUME Init PROVE PolicyInv
  OBVIOUS
<1>1. NoPolicy \in Policies
  BY DEF NoPolicy, Policies
<1>2. running \in BOOLEAN /\ fresh \in BOOLEAN /\ ~running
  BY DEF Init
<1>3. PolicyTypeOK
  BY <1>1, <1>2, PolicyAssumption, TypeOf DEF Init
<1>4. SameInv
  BY <1>2 DEF SameInv
<1>5. /\ NoPolicy.modules = <<>> /\ NoPolicy.classes = <<>>
      /\ NoPolicy.index = [o \in Objects |-> NoReg]
  BY DEF NoPolicy
<1>6. Coherent(NoPolicy)
  <2>1. \A o : Dict(NoPolicy, o) = <<>>
    BY <1>5 DEF Dict
  <2>2. \A o : LastOf(<<>>, o) = NoReg
    BY DEF LastOf, At
  <2>3. Current(NoPolicy)
    BY <1>5, <2>1, <2>2 DEF Current
  <2>4. OncePerKey(NoPolicy.modules) /\ OncePerKey(NoPolicy.classes)
    BY <1>5 DEF OncePerKey
  <2>5. Indexed(NoPolicy)
    BY <1>5, GrantFacts DEF Indexed, Regs
  <2> QED  BY <2>3, <2>4, <2>5 DEF Coherent
<1>7. \A p \in Procs : policy[p] = NoPolicy
  BY DEF Init
<1> QED  BY <1>3, <1>4, <1>6, <1>7 DEF PolicyInv

LEMMA RegisterKeeps ==
  ASSUME PolicyInv, NEW g \in Grants, Register(g)
  PROVE  PolicyInv'
<1> DEFINE P == policy["host"]
           N == policy'["host"]
           d == IF g.obj = Cls THEN P.classes ELSE P.modules
           Q == [P EXCEPT !.index[g.obj] = g, !.rebound = @ \/ Rebinds(d, g)]
<1>1. policy \in [Procs -> Policies] /\ P \in Policies /\ Coherent(P) /\ "host" \in Procs
  BY TypeOf DEF PolicyInv, Procs
<1>2. policy' = [policy EXCEPT !["host"] =
               IF g.obj = Cls THEN [Q EXCEPT !.classes = Put(d, g)]
                              ELSE [Q EXCEPT !.modules = Put(d, g)]]
  BY DEF Register
<1>3. /\ P.modules \in Seq(Grants) /\ P.classes \in Seq(Grants)
      /\ P.index \in [Objects -> Grants \cup {NoReg}] /\ P.rebound \in BOOLEAN
      /\ OncePerKey(P.modules) /\ OncePerKey(P.classes) /\ g.obj \in Objects
  BY <1>1, GrantFacts DEF Policies, Coherent
<1>4. Put(d, g) \in Seq(Grants)
  BY <1>3, PutIs
<1>5. /\ Q.index = [P.index EXCEPT ![g.obj] = g]
      /\ Q.modules = P.modules /\ Q.classes = P.classes
  BY <1>1 DEF Policies
<1>6. Q.rebound = (P.rebound \/ Rebinds(d, g))
  BY <1>1 DEF Policies
<1>7. Q \in Policies
  <2>1. (P.rebound \/ Rebinds(d, g)) \in BOOLEAN
    OBVIOUS
  <2>2. [P.index EXCEPT ![g.obj] = g] \in [Objects -> Grants \cup {NoReg}]
    BY <1>3
  <2> QED  BY <1>1, <2>1, <2>2 DEF Policies
<1> HIDE DEF Q
<1>8. N = IF g.obj = Cls THEN [Q EXCEPT !.classes = Put(d, g)]
                         ELSE [Q EXCEPT !.modules = Put(d, g)]
  BY <1>1, <1>2
<1>9. /\ N \in Policies /\ N.index = Q.index /\ N.rebound = Q.rebound
      /\ N.modules = (IF g.obj = Cls THEN P.modules ELSE Put(P.modules, g))
      /\ N.classes = (IF g.obj = Cls THEN Put(P.classes, g) ELSE P.classes)
  BY <1>4, <1>5, <1>7, <1>8 DEF Policies
<1>10. d = Dict(P, g.obj)
  BY DEF Dict
<1> HIDE DEF N, P, d
<1>11. Coherent(N)
  <2>1. N.index = [P.index EXCEPT ![g.obj] = g] /\ N.rebound = (P.rebound \/ Rebinds(Dict(P, g.obj), g))
    BY <1>5, <1>6, <1>9, <1>10
  <2> QED  BY <1>1, <1>9, <2>1, RegisteredCoherent
<1>12. \A p \in Procs : policy'[p] = IF p = "host" THEN N ELSE policy[p]
  BY <1>1, <1>2 DEF N
<1>13. policy' \in [Procs -> Policies]
  <2>1. policy' = [p \in Procs |-> policy'[p]]
    BY <1>1, <1>2
  <2>2. \A p \in Procs : policy'[p] \in Policies
    BY <1>1, <1>9, <1>12
  <2> QED  BY <2>1, <2>2
<1>14. PolicyTypeOK'
  <2>1. loaded' \in [Procs -> SUBSET Names]
    BY LoadsForNames, TypeOf DEF Register, PolicyInv
  <2>2. count' \in 0..MaxGrants
    BY PolicyAssumption, TypeOf DEF Register, PolicyInv
  <2>3. (running \in BOOLEAN)' /\ (fresh \in BOOLEAN)'
    BY TypeOf DEF Register, PolicyInv
  <2> QED  BY <1>13, <2>1, <2>2, <2>3 DEF PolicyTypeOK, Policies
<1>15. SameInv'
  BY DEF Register, SameInv
<1>16. \A p \in Procs : Coherent(policy'[p])
  BY <1>11, <1>12 DEF PolicyInv
<1> QED  BY <1>14, <1>15, <1>16 DEF PolicyInv

(* A worker is started, with a policy that is coherent and the host's.     *)
LEMMA RunsKeeps ==
  ASSUME PolicyInv, NEW W \in Policies, NEW L \in SUBSET Names, Coherent(W), Runs(W, L),
         W.modules = policy["host"].modules, W.classes = policy["host"].classes,
         ~policy["host"].rebound => W.index = policy["host"].index
  PROVE  PolicyInv'
<1>1. "host" \in Procs /\ "worker" \in Procs
  BY DEF Procs
<1>2. policy' = [policy EXCEPT !["worker"] = W] /\ loaded' = [loaded EXCEPT !["worker"] = L]
  BY DEF Runs
<1>3. policy' \in [Procs -> Policies] /\ loaded' \in [Procs -> SUBSET Names]
  BY <1>1, <1>2, TypeOf DEF PolicyInv
<1>4. \A p \in Procs : policy'[p] = IF p = "worker" THEN W ELSE policy[p]
  BY <1>1, <1>2, TypeOf DEF PolicyInv
<1>5. PolicyTypeOK'
  <2>1. (running \in BOOLEAN)' /\ (fresh \in BOOLEAN)'
    BY DEF Runs
  <2> QED  BY <1>3, <2>1, TypeOf DEF PolicyTypeOK, Policies, Runs, PolicyInv
<1>6. SameInv'
  BY <1>1, <1>4 DEF SameInv
<1>7. \A p \in Procs : Coherent(policy'[p])
  BY <1>4 DEF PolicyInv
<1> QED  BY <1>5, <1>6, <1>7 DEF PolicyInv

(* What code and the host import touches no policy.                        *)
LEMMA LoadsKeeps ==
  ASSUME PolicyInv, NEW p \in Procs, NEW ms \in SUBSET Names, Loads(p, ms)
  PROVE  PolicyInv'
<1>1. loaded' \in [Procs -> SUBSET Names] /\ policy' = policy
  BY TypeOf DEF PolicyInv, Loads
<1>2. (running \in BOOLEAN)' /\ (fresh \in BOOLEAN)' /\ (count \in 0..MaxGrants)'
  BY TypeOf DEF PolicyInv, Loads
<1>3. PolicyTypeOK'
  BY <1>1, <1>2, TypeOf DEF PolicyTypeOK, Policies, PolicyInv
<1>4. SameInv'
  BY <1>1 DEF PolicyInv, SameInv, Loads
<1> QED  BY <1>1, <1>3, <1>4 DEF PolicyInv

LEMMA StepKeeps == PolicyInv /\ [Next]_vars => PolicyInv'
<1> SUFFICES ASSUME PolicyInv, [Next]_vars PROVE PolicyInv'
  OBVIOUS
<1>1. "host" \in Procs /\ "worker" \in Procs /\ policy["host"] \in Policies
  BY TypeOf DEF Procs, PolicyInv
<1>2. CASE \E g \in Grants : Register(g)
  BY <1>2, RegisterKeeps
<1>3. CASE \E m \in Names : HostImports(m)
  <2>1. PICK m \in Names : HostImports(m)
    BY <1>3
  <2>2. Loads("host", Brings[m])
    BY <2>1 DEF HostImports, Loads
  <2> QED  BY <1>1, <2>2, BringsNames, LoadsKeeps
<1>4. CASE Forked
  <2>1. policy["host"] \in Policies /\ loaded["host"] \in SUBSET Names /\ Coherent(policy["host"])
    BY <1>1, TypeOf DEF PolicyInv
  <2> QED  BY <1>4, <2>1, RunsKeeps DEF Forked
<1>5. CASE Sent
  <2> DEFINE P == policy["host"]
             W == [P EXCEPT !.index = Rebuilt(P), !.rebound = FALSE]
             L == UNION {LoadsFor(r.obj) : r \in Regs(P.modules) \cup Regs(P.classes)}
  <2>1. Runs(W, L) /\ Coherent(P) /\ P \in Policies
    BY <1>1, <1>5 DEF Sent, PolicyInv
  <2>2. /\ P.modules \in Seq(Grants) /\ P.classes \in Seq(Grants)
        /\ P.index \in [Objects -> Grants \cup {NoReg}]
    BY <2>1 DEF Policies
  <2>3. Rebuilt(P) \in [Objects -> Grants \cup {NoReg}]
    <3>1. \A o \in Objects : LastOf(Dict(P, o), o) \in Grants \cup {NoReg}
      BY <2>2, LastOfType DEF Dict
    <3> QED  BY <3>1, RebuiltIs
  <2>4. /\ W \in Policies /\ W.modules = P.modules /\ W.classes = P.classes
        /\ W.index = Rebuilt(P)
    <3>1. FALSE \in BOOLEAN
      OBVIOUS
    <3> HIDE DEF P
    <3> QED  BY <2>1, <2>3, <3>1 DEF Policies
  <2>5. L \in SUBSET Names
    BY LoadsForNames
  <2>6. ~P.rebound => W.index = P.index
    <3>1. ~P.rebound => \A o \in Objects : Rebuilt(P)[o] = P.index[o]
      BY <2>1, RebuiltIs DEF Coherent, Current
    <3> QED  BY <2>2, <2>3, <2>4, <3>1
  <2> HIDE DEF W, L
  <2>7. Coherent(W)
    <3> HIDE DEF P
    <3> QED  BY <2>1, <2>4, UnpickledCoherent
  <2> QED  BY <2>1, <2>4, <2>5, <2>6, <2>7, RunsKeeps
<1>6. CASE \E p \in Procs, m \in Names :
              \/ StImport(p, m)
              \/ \E attr \in Attrs : StImportFrom(p, m, attr)
              \/ \E entry \in Names : StDynImport(p, m, entry)
  <2>1. PICK p \in Procs, m \in Names :
              \/ StImport(p, m)
              \/ \E attr \in Attrs : StImportFrom(p, m, attr)
              \/ \E entry \in Names : StDynImport(p, m, entry)
    BY <1>6
  <2>2. Resolves(policy[p], m) \in SUBSET Names
    BY BringsNames DEF Resolves
  <2>3. \E ms \in SUBSET Names : Loads(p, ms)
    BY <2>1, <2>2, BringsNames DEF StImport, StImportFrom, StDynImport
  <2> QED  BY <2>3, LoadsKeeps
<1>7. CASE UNCHANGED vars
  <2>1. policy' = policy /\ loaded' = loaded /\ running' = running /\ fresh' = fresh /\ count' = count
    BY <1>7 DEF vars
  <2>2. PolicyTypeOK'
    BY <2>1, TypeOf DEF PolicyTypeOK, Policies, PolicyInv
  <2>3. SameInv'
    BY <2>1 DEF PolicyInv, SameInv
  <2> QED  BY <2>1, <2>2, <2>3 DEF PolicyInv
<1> QED  BY <1>2, <1>3, <1>4, <1>5, <1>6, <1>7 DEF Next

LEMMA PolicyInvHolds == Spec => []PolicyInv
BY InitEstablishes, StepKeeps, PTL DEF Spec

-----------------------------------------------------------------------------
(* What the gates decide under a coherent policy.                          *)

(* A registration that is found is one of the policy's, unless a key was   *)
(* given again.                                                            *)
LEMMA FoundIsRegistered ==
  ASSUME NEW P \in Policies, Coherent(P), ~P.rebound, NEW o \in Objects
  PROVE  FindRegistration(P, o) \in Regs(P.modules) \cup Regs(P.classes) \cup {NoReg}
<1>1. P.modules \in Seq(Grants) /\ P.classes \in Seq(Grants)
  BY DEF Policies
<1>2. \A x \in Objects : P.index[x] \in Regs(P.modules) \cup Regs(P.classes) \cup {NoReg}
  BY <1>1, LastOfType DEF Coherent, Current, Dict
<1>3. CASE P.index[o] # NoReg
  BY <1>2, <1>3 DEF FindRegistration
<1>4. CASE P.index[o] = NoReg /\ o \in Mods
  <2>1. NearestAbove(Regs(P.modules), o) \in Regs(P.modules) \cup {NoReg}
    BY <1>4, ModFacts, NearestType
  <2>2. o # Inst
    BY <1>4, ModFacts
  <2> QED  BY <1>4, <2>1, <2>2 DEF FindRegistration
<1>5. CASE P.index[o] = NoReg /\ o = Inst /\ o \notin Mods
  <2>1. FirstCovering(P.modules, DefinedIn) \in Regs(P.modules) \cup {NoReg}
    BY <1>1, FirstType
  <2> QED  BY <1>2, <1>5, <2>1, GrantFacts DEF FindRegistration
<1>6. CASE P.index[o] = NoReg /\ o = Cls
  <2>1. o # Inst /\ o \notin Mods
    BY <1>6, GrantFacts DEF Cls, Inst
  <2> QED  BY <1>6, <2>1 DEF FindRegistration
<1> QED  BY <1>3, <1>4, <1>5, <1>6 DEF Objects

(* When every module goes by its own name, a module is indexed exactly     *)
(* under its key, with the registration the dict has there.                *)
LEMMA IndexIsDict ==
  ASSUME NEW P \in Policies, Coherent(P), OwnNames(P), NEW m \in Mods
  PROVE  /\ P.index[m] # NoReg <=> m \in Keys(Regs(P.modules))
         /\ m \in Keys(Regs(P.modules)) =>
               P.index[m] = Get(Regs(P.modules), m) /\ P.index[m] \in Regs(P.modules)
<1> DEFINE R == Regs(P.modules)
<1>1. \A r, s \in R : r.key = s.key => r = s
  BY DEF Policies, Coherent, OncePerKey, Regs
<1>2. P.index[m] # NoReg => m \in Keys(R)
  BY DEF Coherent, Indexed, OwnNames
<1>3. ASSUME m \in Keys(R)
      PROVE  P.index[m] # NoReg /\ P.index[m] = Get(R, m) /\ P.index[m] \in R
  <2>1. PICK r \in R : r.key = m
    BY <1>3 DEF Keys
  <2>2. r.obj = m
    BY <2>1 DEF OwnNames
  <2>3. P.index[m] # NoReg
    BY <2>2 DEF Coherent, Indexed
  <2>4. P.index[m] = r
    BY <2>1, <2>2, <2>3 DEF Coherent, Indexed, OwnNames
  <2>5. Get(R, m) = r
    BY <1>1, <2>1 DEF Get
  <2> QED  BY <2>3, <2>4, <2>5
<1> QED  BY <1>2, <1>3

(* A module's registration: its own or, with none, that of the closest     *)
(* registered package, if that is recursive.                               *)
LEMMA FoundFor ==
  ASSUME NEW P \in Policies, Coherent(P), OwnNames(P), NEW m \in Mods
  PROVE  FindRegistration(P, m) =
           IF m \in Keys(Regs(P.modules)) THEN Get(Regs(P.modules), m)
           ELSE IF NearestAbove(Regs(P.modules), m).recursive
                THEN NearestAbove(Regs(P.modules), m) ELSE NoReg
<1>1. CASE m \in Keys(Regs(P.modules))
  BY <1>1, IndexIsDict DEF FindRegistration
<1>2. CASE m \notin Keys(Regs(P.modules))
  <2>1. P.index[m] = NoReg
    BY <1>2, IndexIsDict
  <2>2. m # Inst
    BY ModFacts
  <2> QED  BY <1>2, <2>1, <2>2 DEF FindRegistration
<1> QED  BY <1>1, <1>2

LEMMA OneParent ==
  ASSUME NEW q \in Names, NEW m \in Names, IsParent(q, m)
  PROVE  {<<x, m>> : x \in {y \in Names : IsParent(y, m)}} = Qualified(q, m)
<1>1. q # Inst
  BY PolicyAssumption
<1>2. {y \in Names : IsParent(y, m)} = {q}
  BY DEF IsParent
<1> QED  BY <1>1, <1>2 DEF Qualified

-----------------------------------------------------------------------------
(* The registrations, the indexes and what is loaded have their types.     *)
THEOREM TypeCorrect == Spec => []PolicyTypeOK
<1>1. PolicyInv => PolicyTypeOK
  BY DEF PolicyInv
<1> QED  BY <1>1, PolicyInvHolds, PTL

(* Policy.__getstate__ and __setstate__ lose no decision: a worker decides *)
(* every import, attribute and privilege as its host would.                *)
THEOREM WorkerDecidesAlikeHolds == Spec => []WorkerDecidesAlike
<1>1. PolicyInv => WorkerDecidesAlike
  <2> SUFFICES ASSUME PolicyInv, running, fresh, ~policy["host"].rebound
               PROVE  WorkerDecidesAlike
    BY DEF WorkerDecidesAlike
  <2> DEFINE H == policy["host"]
             W == policy["worker"]
  <2>1. H.modules = W.modules /\ H.classes = W.classes /\ H.index = W.index
    BY DEF PolicyInv, SameInv
  <2> HIDE DEF H, W
  <2>2. \A m \in Names : ImportAllowed(H, m) = ImportAllowed(W, m)
    BY <2>1 DEF ImportAllowed
  <2>3. \A o : FindRegistration(H, o) = FindRegistration(W, o)
    BY <2>1 DEF FindRegistration
  <2>4. \A o, attr : AttrAllowed(H, loaded["worker"], o, attr)
                       = AttrAllowed(W, loaded["worker"], o, attr)
    BY <2>3 DEF AttrAllowed
  <2>5. \A o, attr : Privileged(FindRegistration(H, o), attr)
                       = Privileged(FindRegistration(W, o), attr)
    BY <2>3
  <2> QED  BY <2>2, <2>4, <2>5 DEF WorkerDecidesAlike, H, W
<1> QED  BY <1>1, PolicyInvHolds, PTL

(* needs_network and needs_host_fs, which decide what the kernel allows    *)
(* the worker, cover every privilege the attribute gate hands out.         *)
THEOREM PrivilegesDeclaredHolds == Spec => []PrivilegesDeclared
<1>1. PolicyInv => PrivilegesDeclared
  <2> SUFFICES ASSUME PolicyInv, NEW p \in Procs, NEW o \in Objects, NEW attr \in Attrs,
                      ~policy[p].rebound, GivesPrivilege(policy[p], loaded[p], o, attr)
               PROVE  NeedsNetwork(policy[p])
    BY DEF PrivilegesDeclared
  <2> DEFINE r == FindRegistration(policy[p], o)
  <2>1. policy[p] \in Policies /\ Coherent(policy[p])
    BY TypeOf DEF PolicyInv
  <2>2. r \in Regs(policy[p].modules) \cup Regs(policy[p].classes) \cup {NoReg}
    BY <2>1, FoundIsRegistered
  <2>3. r.network \/ attr \in r.configure
    BY DEF GivesPrivilege, Privileged
  <2> HIDE DEF r
  <2>4. r # NoReg
    BY <2>3, GrantFacts
  <2> QED  BY <2>2, <2>3, <2>4 DEF NeedsNetwork
<1> QED  BY <1>1, PolicyInvHolds, PTL

(* is_attr_allowed and is_import_allowed agree on submodules.              *)
THEOREM TraversalMeansImportHolds == Spec => []TraversalMeansImport
<1>1. PolicyInv => TraversalMeansImport
  <2> SUFFICES ASSUME PolicyInv, NEW p \in Procs, OwnNames(policy[p]),
                      NEW q \in Mods, NEW m \in Mods,
                      FindRegistration(policy[p], q) # NoReg,
                      Value(loaded[p], q, m) = m,
                      m \notin FindRegistration(policy[p], q).configure,
                      Excluded(FindRegistration(policy[p], q), m) =>
                          Matches(FindRegistration(policy[p], q).include, m, Qualified(q, m)),
                      AttrAllowed(policy[p], loaded[p], q, m)
               PROVE  ImportAllowed(policy[p], m)
    BY DEF TraversalMeansImport
  <2> DEFINE P == policy[p]
             R == Regs(P.modules)
             r == FindRegistration(P, q)
  <2>1. P \in Policies /\ Coherent(P)
    BY TypeOf DEF PolicyInv
  <2>2. IsParent(q, m) /\ q \in Names /\ m \in Names
    BY ModFacts DEF Value
  <2>3. NearestAbove(R, m) = IF q \in Keys(R) THEN Get(R, q) ELSE NearestAbove(R, q)
    BY <2>2, NearestOfChild
  <2>4. r = IF q \in Keys(R) THEN Get(R, q)
            ELSE IF NearestAbove(R, q).recursive THEN NearestAbove(R, q) ELSE NoReg
    BY <2>1, FoundFor
  <2>5. NearestAbove(R, m) = r
    BY <2>3, <2>4
  <2>6. Excluded(r, m) <=> Matches(r.exclude, m, Qualified(q, m))
    BY <2>2, OneParent DEF Excluded
  <2>7. \/ r.recursive /\ ~Excluded(r, m)
        \/ FindRegistration(P, m) # NoReg
    BY <2>6 DEF AttrAllowed
  <2>8. CASE r.recursive /\ ~Excluded(r, m)
    BY <2>5, <2>8 DEF ImportAllowed
  <2>9. CASE FindRegistration(P, m) # NoReg /\ m \in Keys(R)
    BY <2>9 DEF ImportAllowed
  <2>10. CASE FindRegistration(P, m) # NoReg /\ m \notin Keys(R)
    <3>1. r.recursive
      BY <2>1, <2>5, <2>10, FoundFor
    <3>2. ~Excluded(r, m)
      BY <2>6 DEF AttrAllowed
    <3> QED  BY <2>5, <3>1, <3>2 DEF ImportAllowed
  <2> QED  BY <2>7, <2>8, <2>9, <2>10
<1> QED  BY <1>1, PolicyInvHolds, PTL

(* resolve_module_member gives nothing that is_attr_allowed would refuse,  *)
(* and both go by the same registration.                                   *)
THEOREM FromMeansAttributeHolds == Spec => []FromMeansAttribute
<1>1. PolicyInv => FromMeansAttribute
  <2> SUFFICES ASSUME PolicyInv, NEW p \in Procs, OwnNames(policy[p]),
                      NEW m \in Mods, NEW attr \in Attrs, FromAllowed(policy[p], m, attr)
               PROVE  /\ AttrAllowed(policy[p],
                            loaded[p] \cup Brings[m] \cup ({attr} \cap Names), m, attr)
                      /\ Privileged(FindRegistration(policy[p], m), attr)
                            = Privileged(FromRegistration(policy[p], m), attr)
    <3>1. \A m \in Mods : Module[m] = m
      BY DEF Mods
    <3> QED  BY <3>1 DEF FromMeansAttribute, FromLikeAttribute
  <2> DEFINE P == policy[p]
             R == Regs(P.modules)
             L == loaded[p] \cup Brings[m] \cup ({attr} \cap Names)
             r == FindRegistration(P, m)
             v == Value(L, m, attr)
  <2>1. P \in Policies /\ Coherent(P) /\ P.modules \in Seq(Grants) /\ OncePerKey(P.modules)
    BY TypeOf DEF PolicyInv, Policies, Coherent
  <2>2. r = FromRegistration(P, m)
    <3>1. CASE m \in Keys(R)
      BY <2>1, <3>1, FoundFor DEF FromRegistration
    <3>2. CASE m \notin Keys(R)
      <4>1. NearestAbove(R, m).recursive
        BY <3>2 DEF FromAllowed, MemberPasses, ImportAllowed
      <4>2. NearestAbove({x \in R : x.recursive}, m) = NearestAbove(R, m)
        BY <2>1, <4>1, ModFacts, NearestRecursive
      <4> QED  BY <2>1, <3>2, <4>1, <4>2, FoundFor DEF FromRegistration
    <3> QED  BY <3>1, <3>2
  <2>3. Matches(r.include, attr, Qualified(m, attr)) /\ ~Matches(r.exclude, attr, Qualified(m, attr))
    BY <2>2 DEF FromAllowed, MemberPasses
  <2>4. r.recursive \/ v \notin Mods \/ (v \in Objects /\ FindRegistration(P, v) # NoReg)
    <3> SUFFICES ASSUME v \in Mods, ~r.recursive
                 PROVE  v \in Objects /\ FindRegistration(P, v) # NoReg
      OBVIOUS
    <3>1. attr \in Names /\ v = Module[attr]
      BY ModFacts DEF Value, Attrs
    <3>2. IsParent(m, attr) /\ ImportAllowed(P, attr)
      BY <3>1 DEF FromAllowed
    <3>3. NearestAbove(R, attr) = IF m \in Keys(R) THEN Get(R, m) ELSE NearestAbove(R, m)
      BY <3>1, <3>2, ModFacts, NearestOfChild
    <3>4. attr \in Keys(R)
      <4> SUFFICES ASSUME attr \notin Keys(R) PROVE FALSE
        OBVIOUS
      <4>1. NearestAbove(R, attr).recursive
        BY <3>2 DEF ImportAllowed
      <4> QED  BY <2>1, <3>3, <4>1, FoundFor
    <3>5. attr \in Mods
      <4>1. PICK x \in R : x.key = attr
        BY <3>4 DEF Keys
      <4>2. x.obj = attr
        BY <4>1 DEF OwnNames
      <4>3. x.obj \in Objects
        BY <2>1, GrantFacts DEF Regs
      <4> QED  BY <3>1, <4>2, <4>3, ModFacts DEF Objects
    <3>6. v = attr
      BY <3>1, <3>5 DEF Mods
    <3>7. FindRegistration(P, attr) # NoReg
      BY <2>1, <3>4, <3>5, IndexIsDict DEF FindRegistration
    <3> QED  BY <3>5, <3>6, <3>7, GrantFacts
  <2>5. AttrAllowed(P, L, m, attr)
    BY <2>3, <2>4 DEF AttrAllowed
  <2> QED  BY <2>2, <2>5
<1> QED  BY <1>1, PolicyInvHolds, PTL
=============================================================================
