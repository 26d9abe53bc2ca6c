-------------------------- MODULE VfsLoaderProofs ---------------------------
(***************************************************************************)
(* Proofs about VfsLoader, for any threads, any modules and packages and   *)
(* any depth of imports: no failed module stays importable, and no module  *)
(* with a file is built twice while it is importable.                      *)
(***************************************************************************)
EXTENDS VfsLoader, SequenceTheorems, WellFoundedInduction, TLAPS

-----------------------------------------------------------------------------
(* The inductive invariant.                                                *)

At(t) == 1..Len(stack[t])

(* A body has the object it builds, and no other frame has one.  Only the  *)
(* topmost frame is between the look for a source and the cache entry.     *)
FrameInv == \A t \in Threads : \A i \in At(t) :
    /\ stack[t][i].kind = "body" =>
          stack[t][i].object \in 1..objects /\ status[stack[t][i].object] = "running"
    /\ stack[t][i].kind # "body" => stack[t][i].object = 0
    /\ stack[t][i].kind = "found" => i = Len(stack[t])

(* A frame that waits for its package has the package's frame above it.    *)
ChainInv == \A t \in Threads : \A i \in At(t) :
    stack[t][i].kind = "back" /\ i # Len(stack[t]) =>
        /\ Dotted(stack[t][i].name)
        /\ stack[t][i + 1].name = Package(stack[t][i].name)
        /\ stack[t][i + 1].kind # "body" => stack[t][i + 1].package

(* An object has one frame, and is cached under one name.                  *)
ObjectInv == \A t \in Threads : \A i \in At(t) : stack[t][i].object # 0 =>
    /\ \A u \in Threads : \A j \in At(u) :
          stack[u][j].object = stack[t][i].object => u = t /\ j = i
    /\ \A n \in Names : cache[n] = stack[t][i].object => n = stack[t][i].name

(* What the cache holds is loaded or its body is running; an object that   *)
(* is not built yet has not failed.                                        *)
CacheInv ==
    /\ \A n \in Names : Cached(n) =>
          \/ status[cache[n]] = "loaded"
          \/ \E t \in Threads : \E i \in At(t) : stack[t][i].object = cache[n]
    /\ \A o \in Objects : o > objects => status[o] = "running"

AnyInv == VfsTypeOK /\ FrameInv /\ ChainInv /\ ObjectInv /\ CacheInv

(* Until two threads import at once: one thread imports, what it found     *)
(* missing in the cache is still missing, and the package it has back is   *)
(* still there.                                                            *)
AloneInv ==
    /\ \A t, u \in Threads : Busy(t) /\ Busy(u) => t = u
    /\ \A t \in Threads : Found(t) =>
          OnDisk(Top(t).name) /\ ~Cached(Top(t).name) /\ ~NeedsParent(Top(t).name)
    /\ \A t \in Threads : Back(t) => ~NeedsParent(Top(t).name)

(* What a thread was handed has not failed, and if its body still runs it  *)
(* does so on that thread.                                                 *)
HandedInv == \A t \in Threads : handed[t] # 0 =>
    /\ status[handed[t]] # "failed"
    /\ \A u \in Threads : \A i \in At(u) : stack[u][i].object = handed[t] => u = t

(* Every package above a cached name is cached.                            *)
PackageInv == \A n, p \in Names :
    Cached(n) /\ Inside(n, p) /\ ~Plain(p) => Cached(p)

(* A running body's object is the one in the cache, and the bodies it      *)
(* imports do not take it out when they fail.                              *)
BodyInv == \A t \in Threads : \A i \in At(t) : stack[t][i].kind = "body" =>
    /\ OnDisk(stack[t][i].name)
    /\ cache[stack[t][i].name] = stack[t][i].object
    /\ \A j \in At(t) : i < j /\ stack[t][j].kind = "body" =>
          stack[t][i].name \notin Dropped(stack[t][j].name)

SingleInv == AloneInv /\ HandedInv /\ PackageInv /\ BodyInv

VfsInv == AnyInv /\ (~overlap => SingleInv)
-----------------------------------------------------------------------------
(* Dotted names.                                                           *)

(* A name is inside a package when it begins with the package's parts.     *)
LEMMA InsideMeans ==
  ASSUME NEW n \in Names, NEW p \in Names
  PROVE  Inside(n, p) <=> Len(p) <= Len(n) /\ \A i \in 1..Len(p) : n[i] = p[i]
<1>1. n \in Seq(STRING) /\ p \in Seq(STRING)
  BY VfsAssumption
<1>2. ASSUME Len(p) <= Len(n)
      PROVE  /\ SubSeq(n, 1, Len(p)) \in Seq(STRING)
             /\ Len(SubSeq(n, 1, Len(p))) = Len(p)
             /\ \A i \in 1..Len(p) : SubSeq(n, 1, Len(p))[i] = n[i]
  BY <1>1, <1>2, LenProperties, SubSeqProperties
<1>3. ASSUME Len(p) <= Len(n), \A i \in 1..Len(p) : n[i] = p[i]
      PROVE  SubSeq(n, 1, Len(p)) = p
  BY <1>1, <1>2, <1>3, SeqEqual
<1> QED  BY <1>2, <1>3 DEF Inside

(* The package of a dotted name is its prefix.                             *)
LEMMA PackageMeans ==
  ASSUME NEW n \in Names, Dotted(n)
  PROVE  /\ Package(n) \in Names /\ Len(Package(n)) = Len(n) - 1
         /\ \A i \in 1..(Len(n) - 1) : Package(n)[i] = n[i]
<1>1. n \in Seq(STRING) /\ Len(n) \in Nat
  BY VfsAssumption, LenProperties
<1>2. Package(n) \in Names
  BY VfsAssumption DEF Dotted, Package
<1> QED  BY <1>1, <1>2, SubSeqProperties DEF Dotted, Package

(* A name is inside itself and in no longer one, and what is inside a      *)
(* package that is inside another is inside that one.                      *)
LEMMA InsideOrder ==
  ASSUME NEW n \in Names, NEW k \in Names, NEW p \in Names
  PROVE  /\ Inside(n, n)
         /\ Inside(n, k) /\ Inside(k, p) => Inside(n, p)
<1>1. Len(n) \in Nat /\ Len(k) \in Nat /\ Len(p) \in Nat
  BY VfsAssumption, LenProperties
<1> QED  BY <1>1, InsideMeans

(* A name's own package is the innermost of those it is inside.            *)
LEMMA InsidePackage ==
  ASSUME NEW n \in Names, NEW p \in Names, n # p, Inside(n, p)
  PROVE  Dotted(n) /\ Inside(Package(n), p)
<1>1. n \in Seq(STRING) /\ p \in Seq(STRING) /\ Len(n) \in Nat /\ Len(p) \in Nat \ {0}
  BY VfsAssumption, LenProperties
<1>2. Len(p) # Len(n)
  BY <1>1, InsideMeans, SeqEqual
<1>3. Dotted(n)
  BY <1>1, <1>2, InsideMeans DEF Dotted
<1> QED  BY <1>1, <1>2, <1>3, InsideMeans, PackageMeans

LEMMA PackageInside ==
  ASSUME NEW n \in Names, Dotted(n)
  PROVE  Package(n) \in Names /\ Inside(n, Package(n))
<1>1. Len(n) \in Nat
  BY VfsAssumption, LenProperties
<1> QED  BY <1>1, InsideMeans, PackageMeans

(* A body that fails takes its own module out of the cache.                *)
LEMMA DropsItself == \A p \in Names : p \in Dropped(p)
  BY InsideOrder DEF Dropped

-----------------------------------------------------------------------------
(* Stacks.                                                                 *)

(* The stack of t is cut to its first k frames.                            *)
Cut(t, k) ==
    /\ \A u \in Threads \ {t} : stack'[u] = stack[u]
    /\ Len(stack'[t]) = k /\ k \in 0..(Len(stack[t]) - 1)
    /\ \A i \in 1..k : stack'[t][i] = stack[t][i]
    /\ \A i \in (k + 1)..(Len(stack[t]) - 1) : stack[t][i].kind # "body"

(* The first k frames of t's stack stay, and a frame f is put on them.     *)
Put(t, k, f) ==
    /\ \A u \in Threads \ {t} : stack'[u] = stack[u]
    /\ Len(stack'[t]) = k + 1 /\ k \in 0..Len(stack[t])
    /\ \A i \in 1..k : stack'[t][i] = stack[t][i]
    /\ stack'[t][k + 1] = f

LEMMA Prefix ==
  ASSUME NEW s \in Seq(Frames), NEW k \in 0..Len(s)
  PROVE  /\ SubSeq(s, 1, k) \in Seq(Frames) /\ Len(SubSeq(s, 1, k)) = k
         /\ \A i \in 1..k : SubSeq(s, 1, k)[i] = s[i]
<1>1. Len(s) \in Nat
  BY LenProperties
<1> QED  BY <1>1, SubSeqProperties

LEMMA TopFrame ==
  ASSUME VfsTypeOK, NEW t \in Threads, Busy(t)
  PROVE  /\ stack[t] \in Seq(Frames) /\ Len(stack[t]) \in Nat \ {0}
         /\ Top(t) \in Frames /\ Len(stack[t]) \in At(t)
<1>1. stack[t] \in Seq(Frames)
  BY DEF VfsTypeOK
<1>2. Len(stack[t]) \in Nat /\ Len(stack[t]) # 0
  BY <1>1, LenProperties, EmptySeq DEF Busy
<1> QED  BY <1>1, <1>2, ElementOfSeq DEF Top, At

LEMMA UnderCuts ==
  ASSUME VfsTypeOK, NEW t \in Threads, Busy(t), Becomes(t, Under(t))
  PROVE  stack' \in [Threads -> Seq(Frames)] /\ Cut(t, Len(stack[t]) - 1)
<1>1. stack \in [Threads -> Seq(Frames)]
  BY DEF VfsTypeOK
<1>2. Len(stack[t]) - 1 \in 0..Len(stack[t])
  BY TopFrame
<1>3. Under(t) \in Seq(Frames) /\ Len(Under(t)) = Len(stack[t]) - 1
      /\ \A i \in 1..(Len(stack[t]) - 1) : Under(t)[i] = stack[t][i]
  BY <1>1, <1>2, Prefix DEF Under
<1> QED  BY <1>1, <1>2, <1>3, TopFrame DEF Becomes, Cut

LEMMA AppendPuts ==
  ASSUME VfsTypeOK, NEW t \in Threads, NEW f \in Frames,
         Becomes(t, Append(stack[t], f))
  PROVE  stack' \in [Threads -> Seq(Frames)] /\ Put(t, Len(stack[t]), f)
<1>1. stack \in [Threads -> Seq(Frames)]
  BY DEF VfsTypeOK
<1>2. Len(stack[t]) \in Nat
  BY <1>1, LenProperties
<1> QED  BY <1>1, <1>2, AppendProperties DEF Becomes, Put

LEMMA ReplacePuts ==
  ASSUME VfsTypeOK, NEW t \in Threads, Busy(t), NEW f \in Frames,
         Becomes(t, Append(Under(t), f))
  PROVE  stack' \in [Threads -> Seq(Frames)] /\ Put(t, Len(stack[t]) - 1, f)
<1>1. stack \in [Threads -> Seq(Frames)]
  BY DEF VfsTypeOK
<1>2. Len(stack[t]) - 1 \in 0..Len(stack[t])
  BY TopFrame
<1>3. Under(t) \in Seq(Frames) /\ Len(Under(t)) = Len(stack[t]) - 1
      /\ \A i \in 1..(Len(stack[t]) - 1) : Under(t)[i] = stack[t][i]
  BY <1>1, <1>2, Prefix DEF Under
<1>4. Append(Under(t), f) \in Seq(Frames)
      /\ Len(Append(Under(t), f)) = Len(stack[t])
      /\ \A i \in 1..(Len(stack[t]) - 1) : Append(Under(t), f)[i] = stack[t][i]
      /\ Append(Under(t), f)[Len(stack[t])] = f
  BY <1>2, <1>3, TopFrame, AppendProperties
<1> QED  BY <1>1, <1>2, <1>4, TopFrame DEF Becomes, Put

(* A set of numbers below a bound has a greatest, if it has any.           *)
LEMMA Greatest ==
  ASSUME NEW m \in Nat, NEW S, S \subseteq 1..m, S # {}
  PROVE  \E i \in S : \A j \in S : j <= i
<1> DEFINE T == {m - i : i \in S}
<1>1. T \subseteq Nat
  OBVIOUS
<1> T # {}
  OBVIOUS
<1>2. PICK x \in T : \A y \in T : ~(<<y, x>> \in OpToRel(<, Nat))
  BY <1>1, WFMin, NatLessThanWellFounded
<1>3. \A y \in T : ~(y < x)
  BY <1>1, <1>2 DEF OpToRel
<1>4. PICK i \in S : x = m - i
  OBVIOUS
<1>5. ASSUME NEW j \in S
      PROVE  j <= i
  <2>1. ~(m - j < x)
    BY <1>3
  <2> QED  BY <1>4, <2>1
<1> QED  BY <1>5

LEMMA UnwoundCuts ==
  ASSUME VfsTypeOK, NEW t \in Threads, Busy(t), Becomes(t, Unwound(t))
  PROVE  /\ stack' \in [Threads -> Seq(Frames)] /\ \E k \in Nat : Cut(t, k)
         /\ (Busy(t) => Top(t).kind = "body")'
<1> DEFINE m == Len(stack[t]) - 1
           bodies == {i \in 1..m : stack[t][i].kind = "body"}
<1>1. stack \in [Threads -> Seq(Frames)] /\ m \in Nat /\ Len(stack[t]) = m + 1
  BY TopFrame DEF VfsTypeOK
<1>2. CASE bodies = {}
  <2>1. stack' = [stack EXCEPT ![t] = <<>>]
    BY <1>2 DEF Becomes, Unwound
  <2>2. Cut(t, 0)
    BY <1>1, <1>2, <2>1 DEF Cut
  <2>3. ~Busy(t)'
    BY <1>1, <2>1 DEF Busy
  <2> QED  BY <1>1, <2>1, <2>2, <2>3
<1>3. CASE bodies # {}
  <2>1. \E i \in bodies : \A j \in bodies : j <= i
    BY <1>1, <1>3, Greatest
  <2>2. PICK k \in bodies : /\ \A j \in bodies : j <= k
                            /\ Unwound(t) = SubSeq(stack[t], 1, k)
    BY <1>3, <2>1 DEF Unwound
  <2>3. k \in 0..Len(stack[t]) /\ k \in 0..m /\ k \in Nat
    BY <1>1
  <2>4. \A i \in (k + 1)..m : stack[t][i].kind # "body"
    <3> TAKE i \in (k + 1)..m
    <3>1. i \notin bodies /\ i \in 1..m
      BY <1>1, <2>2, <2>3
    <3> QED  BY <3>1
  <2> HIDE DEF m, bodies
  <2>5. /\ SubSeq(stack[t], 1, k) \in Seq(Frames) /\ Len(SubSeq(stack[t], 1, k)) = k
        /\ \A i \in 1..k : SubSeq(stack[t], 1, k)[i] = stack[t][i]
    BY <1>1, <2>3, Prefix
  <2>6. Cut(t, k) /\ stack' \in [Threads -> Seq(Frames)]
    BY <1>1, <2>2, <2>3, <2>4, <2>5 DEF Cut, Becomes, m
  <2>7. k \in 1..k /\ stack[t][k].kind = "body"
    BY <1>1, <2>2 DEF bodies
  <2>8. stack'[t] = SubSeq(stack[t], 1, k)
    BY <1>1, <2>2 DEF Becomes
  <2>9. Top(t)'.kind = "body"
    BY <2>5, <2>7, <2>8 DEF Top
  <2> QED  BY <2>3, <2>6, <2>9
<1> QED  BY <1>2, <1>3

-----------------------------------------------------------------------------
(* The steps.                                                              *)

(* Until threads overlap, the frames there are belong to the one thread    *)
(* that imports.                                                           *)
LEMMA OnlyOne ==
  ASSUME VfsTypeOK, AloneInv, NEW t \in Threads, Busy(t), NEW u \in Threads, u # t
  PROVE  Len(stack[u]) = 0 /\ At(u) = {}
<1>1. stack[u] = <<>>
  BY DEF AloneInv, Busy
<1> QED  BY <1>1 DEF At

(* No object gets a frame it did not have.                                 *)
NoNewBody == \A u \in Threads : \A i \in At(u)' :
    stack'[u][i].object # 0 => i \in At(u) /\ stack'[u][i] = stack[u][i]

(* A step that builds nothing keeps the frames and names of objects apart, *)
(* and what running bodies have in the cache, if it drops none of them.    *)
LEMMA ObjectsKept ==
  ASSUME ObjectInv, NoNewBody,
         \A n \in Names : \/ cache'[n] = cache[n]
                          \/ \A u \in Threads : \A i \in At(u) :
                                stack[u][i].object = 0 \/ stack[u][i].object # cache'[n]
  PROVE  ObjectInv'
<1> SUFFICES ASSUME NEW t \in Threads, NEW i \in At(t)', stack'[t][i].object # 0
             PROVE  /\ \A u \in Threads : \A j \in At(u)' :
                         stack'[u][j].object = stack'[t][i].object => u = t /\ j = i
                    /\ \A n \in Names :
                         cache'[n] = stack'[t][i].object => n = stack'[t][i].name
  BY DEF ObjectInv
<1>1. i \in At(t) /\ stack'[t][i] = stack[t][i]
  BY DEF NoNewBody
<1>2. ASSUME NEW u \in Threads, NEW j \in At(u)',
             stack'[u][j].object = stack'[t][i].object
      PROVE  u = t /\ j = i
  <2>1. j \in At(u) /\ stack'[u][j] = stack[u][j]
    BY <1>2 DEF NoNewBody
  <2> QED  BY <1>1, <1>2, <2>1 DEF ObjectInv
<1>3. ASSUME NEW n \in Names, cache'[n] = stack'[t][i].object
      PROVE  n = stack'[t][i].name
  BY <1>1, <1>3 DEF ObjectInv
<1> QED  BY <1>2, <1>3

LEMMA BodiesKept ==
  ASSUME FrameInv', BodyInv, NoNewBody,
         \A t \in Threads : \A i \in At(t)' : stack'[t][i].kind = "body" =>
            cache'[stack'[t][i].name] = cache[stack'[t][i].name]
  PROVE  BodyInv'
<1> SUFFICES ASSUME NEW t \in Threads, NEW i \in At(t)', stack'[t][i].kind = "body"
             PROVE  /\ OnDisk(stack'[t][i].name)
                    /\ cache'[stack'[t][i].name] = stack'[t][i].object
                    /\ \A j \in At(t)' : i < j /\ stack'[t][j].kind = "body" =>
                         stack'[t][i].name \notin Dropped(stack'[t][j].name)
  BY DEF BodyInv, Dropped, OnDisk
<1>1. \A j \in At(t)' : stack'[t][j].kind = "body" => stack'[t][j].object # 0
  BY DEF FrameInv
<1>2. \A j \in At(t)' : stack'[t][j].kind = "body" =>
          j \in At(t) /\ stack'[t][j] = stack[t][j]
  BY <1>1 DEF NoNewBody
<1> QED  BY <1>2 DEF BodyInv

LEMMA HandedKept ==
  ASSUME HandedInv, NoNewBody, UNCHANGED status,
         \A t \in Threads : handed'[t] \in {0, handed[t]}
  PROVE  HandedInv'
  BY DEF HandedInv, NoNewBody

(* A frame that wants a module is put on top of a body's, or of none.      *)
LEMMA WantKeeps ==
  ASSUME VfsInv, NEW t \in Threads, NEW f \in Frames,
         f.kind = "want", f.object = 0,
         stack' \in [Threads -> Seq(Frames)], Put(t, Len(stack[t]), f),
         Busy(t) => Top(t).kind = "body",
         UNCHANGED <<cache, objects, status>>, Hands(t, 0),
         overlap' \in BOOLEAN,
         ~overlap' => ~overlap /\ \A u \in Threads \ {t} : ~Busy(u)
  PROVE  VfsInv'
<1> DEFINE L == Len(stack[t])
<1>0. L \in Nat /\ VfsTypeOK
  BY LenProperties DEF VfsInv, AnyInv, VfsTypeOK
<1>1. VfsTypeOK'
  BY DEF VfsInv, AnyInv, VfsTypeOK, Objects, Hands
<1>2. /\ At(t)' = At(t) \cup {L + 1}
      /\ \A i \in At(t) : stack'[t][i] = stack[t][i]
      /\ stack'[t][L + 1] = f /\ Len(stack'[t]) = L + 1
      /\ \A u \in Threads \ {t} : stack'[u] = stack[u] /\ At(u)' = At(u)
  BY <1>0 DEF Put, At
<1> NoNewBody
  BY <1>2 DEF NoNewBody
<1>3. FrameInv'
  <2>1. \A i \in At(t) : stack[t][i].kind # "found"
    BY <1>0, TopFrame DEF VfsInv, AnyInv, FrameInv, Top, At, Busy
  <2> QED  BY <1>0, <1>2, <2>1 DEF VfsInv, AnyInv, FrameInv
<1>31. ChainInv'
  <2>1. ASSUME NEW i \in At(t), stack'[t][i].kind = "back"
        PROVE  i # L /\ i + 1 \in At(t)
    <3>1. i # L
      BY <1>0, <1>2, <2>1, TopFrame DEF Top, At, Busy
    <3> QED  BY <1>0, <3>1 DEF At
  <2>2. ASSUME NEW i \in At(t)', stack'[t][i].kind = "back", i # Len(stack'[t])
        PROVE  /\ Dotted(stack'[t][i].name)
               /\ stack'[t][i + 1].name = Package(stack'[t][i].name)
               /\ stack'[t][i + 1].kind # "body" => stack'[t][i + 1].package
    <3>1. i \in At(t) /\ i # L /\ i + 1 \in At(t)
      BY <1>2, <2>1, <2>2
    <3> QED  BY <1>2, <2>2, <3>1 DEF VfsInv, AnyInv, ChainInv
  <2> QED  BY <1>2, <2>2 DEF VfsInv, AnyInv, ChainInv
<1>4. ObjectInv'
  BY <1>2, ObjectsKept DEF VfsInv, AnyInv
<1>5. CacheInv'
  <2>1. CacheInv
    BY DEF VfsInv, AnyInv
  <2>2. ASSUME NEW u \in Threads, NEW i \in At(u)
        PROVE  i \in At(u)' /\ stack'[u][i] = stack[u][i]
    BY <1>2
  <2>3. ASSUME NEW n \in Names, cache[n] # 0
        PROVE  \/ status[cache[n]] = "loaded"
               \/ \E u \in Threads : \E i \in At(u)' : stack'[u][i].object = cache[n]
    <3>1. \/ status[cache[n]] = "loaded"
          \/ \E u \in Threads : \E i \in At(u) : stack[u][i].object = cache[n]
      BY <2>1, <2>3 DEF CacheInv, Cached
    <3> QED  BY <2>2, <3>1
  <2> QED  BY <2>1, <2>3 DEF CacheInv, Cached, Objects
<1>6. ASSUME ~overlap' PROVE SingleInv'
  <2> SingleInv
    BY <1>6 DEF VfsInv
  <2>1. AloneInv'
    BY <1>6, <1>2 DEF SingleInv, AloneInv, Busy, Found, Back, Top
  <2>2. HandedInv'
    BY <1>0, HandedKept DEF SingleInv, Hands, VfsTypeOK
  <2>3. PackageInv'
    BY DEF SingleInv, PackageInv, Cached
  <2>4. BodyInv'
    BY <1>3, BodiesKept DEF SingleInv
  <2> QED  BY <2>1, <2>2, <2>3, <2>4 DEF SingleInv
<1> QED  BY <1>1, <1>3, <1>31, <1>4, <1>5, <1>6 DEF VfsInv, AnyInv

LEMMA ImportKeeps ==
  ASSUME VfsInv, NEW t \in Threads, NEW n \in Names, Import(t, n)
  PROVE  VfsInv'
<1> DEFINE f == Frame("want", n, 0, FALSE)
<1>1. f \in Frames /\ f.kind = "want" /\ f.object = 0
  BY VfsAssumption DEF Frame, Frames
<1>2. stack' \in [Threads -> Seq(Frames)] /\ Put(t, Len(stack[t]), f)
  BY <1>1, AppendPuts DEF VfsInv, AnyInv, Import
<1>3. overlap' \in BOOLEAN
  BY DEF Import
<1>4. ~overlap' => ~overlap /\ \A u \in Threads \ {t} : ~Busy(u)
  BY DEF Import
<1> QED  BY <1>1, <1>2, <1>3, <1>4, WantKeeps DEF Import

(* The topmost frame waits for its package, whose frame is put above it.   *)
LEMMA WaitPuts ==
  ASSUME VfsTypeOK, NEW t \in Threads, Busy(t), NEW g \in Frames, NEW f \in Frames,
         Becomes(t, Append(Append(Under(t), g), f))
  PROVE  /\ stack' \in [Threads -> Seq(Frames)]
         /\ Len(stack'[t]) = Len(stack[t]) + 1
         /\ \A i \in 1..(Len(stack[t]) - 1) : stack'[t][i] = stack[t][i]
         /\ stack'[t][Len(stack[t])] = g /\ stack'[t][Len(stack[t]) + 1] = f
         /\ \A u \in Threads \ {t} : stack'[u] = stack[u]
<1>1. stack \in [Threads -> Seq(Frames)] /\ Len(stack[t]) \in Nat \ {0}
  BY TopFrame DEF VfsTypeOK
<1>2. Len(stack[t]) - 1 \in 0..Len(stack[t])
  BY <1>1
<1>3. Under(t) \in Seq(Frames) /\ Len(Under(t)) = Len(stack[t]) - 1
      /\ \A i \in 1..(Len(stack[t]) - 1) : Under(t)[i] = stack[t][i]
  BY <1>1, <1>2, Prefix DEF Under
<1> DEFINE s == Append(Under(t), g)
<1>4. s \in Seq(Frames) /\ Len(s) = Len(stack[t]) /\ s[Len(stack[t])] = g
      /\ \A i \in 1..(Len(stack[t]) - 1) : s[i] = stack[t][i]
  BY <1>1, <1>3, AppendProperties
<1> HIDE DEF s
<1>5. Append(s, f) \in Seq(Frames) /\ Len(Append(s, f)) = Len(stack[t]) + 1
      /\ Append(s, f)[Len(stack[t]) + 1] = f
      /\ \A i \in 1..Len(stack[t]) : Append(s, f)[i] = s[i]
  BY <1>1, <1>4, AppendProperties
<1>6. stack' = [stack EXCEPT ![t] = Append(s, f)]
  BY DEF Becomes, s
<1> QED  BY <1>1, <1>4, <1>5, <1>6

LEMMA WantParentKeeps ==
  ASSUME VfsInv, NEW t \in Threads, WantParent(t)
  PROVE  VfsInv'
<1> DEFINE f == Frame("want", Package(Top(t).name), 0, TRUE)
           g == [Top(t) EXCEPT !.kind = "back"]
           L == Len(stack[t])
<1>1. Busy(t) /\ Top(t).kind = "want" /\ Dotted(Top(t).name)
  BY DEF WantParent, Misses, Wants, NeedsParent
<1>2. /\ VfsTypeOK /\ Top(t) \in Frames /\ L \in Nat \ {0} /\ L \in At(t)
      /\ Top(t).object = 0 /\ Top(t) = stack[t][L]
  BY <1>1, TopFrame DEF VfsInv, AnyInv, FrameInv, Top
<1>3. Package(Top(t).name) \in Names
  BY <1>1, <1>2, PackageInside DEF Frames
<1>4. /\ f \in Frames /\ f.kind = "want" /\ f.object = 0 /\ f.package
      /\ f.name = Package(Top(t).name)
  BY <1>3, VfsAssumption DEF Frame, Frames
<1>5. /\ g \in Frames /\ g.kind = "back" /\ g.object = 0 /\ g.name = Top(t).name
      /\ g.package = Top(t).package
  BY <1>2 DEF Frames
<1>6. UNCHANGED <<cache, objects, status, handed, overlap>>
      /\ Becomes(t, Append(Append(Under(t), g), f))
  BY DEF WantParent, Waiting
<1> HIDE DEF f, g
<1>7. /\ stack' \in [Threads -> Seq(Frames)]
      /\ Len(stack'[t]) = L + 1
      /\ \A i \in 1..(L - 1) : stack'[t][i] = stack[t][i]
      /\ stack'[t][L] = g /\ stack'[t][L + 1] = f
      /\ \A u \in Threads \ {t} : stack'[u] = stack[u]
  BY <1>1, <1>2, <1>4, <1>5, <1>6, WaitPuts
<1> HIDE DEF L
<1>8. /\ At(t) = 1..L /\ At(t)' = At(t) \cup {L + 1}
      /\ \A i \in At(t) : i # L => i \in 1..(L - 1) /\ stack'[t][i] = stack[t][i]
      /\ \A u \in Threads \ {t} : At(u)' = At(u)
  BY <1>2, <1>7 DEF At, L
<1>9. VfsTypeOK'
  BY <1>2, <1>6, <1>7 DEF VfsTypeOK
<1>10. NoNewBody
  BY <1>2, <1>4, <1>5, <1>7, <1>8 DEF NoNewBody
<1>11. FrameInv'
  <2>1. \A i \in At(t) : stack[t][i].kind # "found"
    BY <1>1, <1>2, <1>8 DEF VfsInv, AnyInv, FrameInv, L
  <2>2. ASSUME NEW i \in At(t)'
        PROVE  /\ stack'[t][i].kind = "body" =>
                    /\ stack'[t][i].object \in 1..objects
                    /\ status[stack'[t][i].object] = "running"
               /\ stack'[t][i].kind # "body" => stack'[t][i].object = 0
               /\ stack'[t][i].kind # "found"
    <3>1. CASE i = L \/ i = L + 1
      BY <1>4, <1>5, <1>7, <3>1
    <3>2. CASE i # L /\ i \in At(t)
      <4>1. stack'[t][i] = stack[t][i]
        BY <1>8, <3>2
      <4>2. /\ stack[t][i].kind = "body" =>
                /\ stack[t][i].object \in 1..objects
                /\ status[stack[t][i].object] = "running"
            /\ stack[t][i].kind # "body" => stack[t][i].object = 0
        BY <3>2 DEF VfsInv, AnyInv, FrameInv
      <4> QED  BY <2>1, <3>2, <4>1, <4>2
    <3> QED  BY <1>8, <3>1, <3>2
  <2>3. ASSUME NEW u \in Threads \ {t}, NEW i \in At(u)
        PROVE  /\ stack[u][i].kind = "body" =>
                    /\ stack[u][i].object \in 1..objects
                    /\ status[stack[u][i].object] = "running"
               /\ stack[u][i].kind # "body" => stack[u][i].object = 0
               /\ stack[u][i].kind = "found" => i = Len(stack[u])
    BY DEF VfsInv, AnyInv, FrameInv
  <2>4. \A u \in Threads \ {t} : stack'[u] = stack[u] /\ At(u)' = At(u)
    BY <1>7, <1>8
  <2> QED  BY <1>6, <2>2, <2>3, <2>4 DEF FrameInv
<1>12. ChainInv'
  <2>1. ASSUME NEW i \in At(t)', stack'[t][i].kind = "back", i # Len(stack'[t])
        PROVE  /\ Dotted(stack'[t][i].name)
               /\ stack'[t][i + 1].name = Package(stack'[t][i].name)
               /\ stack'[t][i + 1].kind # "body" => stack'[t][i + 1].package
    <3>1. CASE i = L
      BY <1>1, <1>4, <1>5, <1>7, <3>1
    <3>2. CASE i # L
      <4>1. i \in At(t) /\ i \in 1..(L - 1) /\ stack'[t][i] = stack[t][i] /\ i + 1 \in At(t)
        BY <1>2, <1>7, <1>8, <2>1, <3>2
      <4>2. /\ Dotted(stack[t][i].name)
            /\ stack[t][i + 1].name = Package(stack[t][i].name)
            /\ stack[t][i + 1].kind # "body" => stack[t][i + 1].package
        BY <2>1, <3>2, <4>1 DEF VfsInv, AnyInv, ChainInv, L
      <4>3. /\ stack'[t][i + 1].name = stack[t][i + 1].name
            /\ stack'[t][i + 1].package = stack[t][i + 1].package
            /\ stack[t][i + 1].kind = "body" => stack'[t][i + 1].kind = "body"
        <5>1. CASE i + 1 = L
          BY <1>1, <1>2, <1>5, <1>7, <5>1
        <5>2. CASE i + 1 # L
          BY <1>8, <4>1, <5>2
        <5> QED  BY <5>1, <5>2
      <4> QED  BY <4>1, <4>2, <4>3
    <3> QED  BY <3>1, <3>2
  <2> QED  BY <1>7, <1>8, <2>1 DEF VfsInv, AnyInv, ChainInv
<1>13. ObjectInv'
  BY <1>6, <1>10, ObjectsKept DEF VfsInv, AnyInv
<1>14. CacheInv'
  <2>1. ASSUME NEW m \in Names, NEW u \in Threads, NEW i \in At(u), Cached(m),
               stack[u][i].object = cache[m]
        PROVE  i \in At(u)' /\ stack'[u][i].object = cache[m]
    <3>1. u # t \/ i # L
      BY <1>2, <2>1 DEF Cached
    <3> QED  BY <1>7, <1>8, <2>1, <3>1
  <2> QED  BY <1>6, <2>1 DEF VfsInv, AnyInv, CacheInv, Cached
<1>15. ASSUME ~overlap PROVE SingleInv'
  <2> SingleInv
    BY <1>15 DEF VfsInv
  <2>1. AloneInv'
    <3>1. \A u \in Threads : Busy(u)' => u = t
      BY <1>1, <1>7 DEF SingleInv, AloneInv, Busy
    <3>2. Top(t)' = f
      BY <1>7 DEF Top
    <3> QED  BY <1>4, <3>1, <3>2 DEF AloneInv, Found, Back
  <2>2. HandedInv'
    BY <1>6, <1>10, HandedKept DEF SingleInv
  <2>3. PackageInv'
    BY <1>6 DEF SingleInv, PackageInv, Cached
  <2>4. BodyInv'
    BY <1>6, <1>10, <1>11, BodiesKept DEF SingleInv
  <2> QED  BY <2>1, <2>2, <2>3, <2>4 DEF SingleInv
<1> QED  BY <1>6, <1>9, <1>11, <1>12, <1>13, <1>14, <1>15 DEF VfsInv, AnyInv

(* What cutting t's stack leaves, and what it takes away.                  *)
LEMMA CutFrames ==
  ASSUME AnyInv, NEW t \in Threads, Busy(t), NEW k \in Nat, Cut(t, k)
  PROVE  /\ \A u \in Threads : \A i \in At(u)' :
              /\ i \in At(u) /\ stack'[u][i] = stack[u][i]
              /\ u = t => i # Len(stack[t]) /\ stack[u][i].kind # "found"
         /\ \A u \in Threads : \A i \in At(u) :
              i \in At(u)' \/ (u = t /\ (i = Len(stack[t]) \/ stack[u][i].object = 0))
         /\ \A u \in Threads \ {t} : stack'[u] = stack[u]
         /\ NoNewBody
<1>1. Len(stack[t]) \in Nat /\ k < Len(stack[t])
  BY TopFrame DEF AnyInv, Cut
<1>2. At(t)' = 1..k /\ At(t) = 1..Len(stack[t])
  BY DEF Cut, At
<1>3. \A u \in Threads \ {t} : stack'[u] = stack[u] /\ At(u)' = At(u)
  BY DEF Cut, At
<1>4. \A i \in At(t)' : /\ i \in At(t) /\ stack'[t][i] = stack[t][i]
                        /\ i # Len(stack[t]) /\ stack[t][i].kind # "found"
  BY <1>1, <1>2 DEF Cut, AnyInv, FrameInv
<1>5. \A i \in At(t) : i \in At(t)' \/ i = Len(stack[t]) \/ stack[t][i].object = 0
  <2> TAKE i \in At(t)
  <2>1. i \in 1..k \/ i = Len(stack[t]) \/ i \in (k + 1)..(Len(stack[t]) - 1)
    BY <1>1, <1>2
  <2>2. i \in (k + 1)..(Len(stack[t]) - 1) => stack[t][i].object = 0
    BY DEF Cut, AnyInv, FrameInv
  <2> QED  BY <1>2, <2>1, <2>2
<1>6. ASSUME NEW u \in Threads, NEW i \in At(u)'
      PROVE  /\ i \in At(u) /\ stack'[u][i] = stack[u][i]
             /\ u = t => i # Len(stack[t]) /\ stack[u][i].kind # "found"
  BY <1>3, <1>4
<1>7. ASSUME NEW u \in Threads, NEW i \in At(u)
      PROVE  i \in At(u)' \/ (u = t /\ (i = Len(stack[t]) \/ stack[u][i].object = 0))
  BY <1>3, <1>5
<1>8. NoNewBody
  BY <1>6 DEF NoNewBody
<1> QED  BY <1>3, <1>6, <1>7, <1>8

LEMMA CutChain ==
  ASSUME AnyInv, NEW t \in Threads, Busy(t), NEW k \in Nat, Cut(t, k)
  PROVE  ChainInv'
<1>1. Len(stack[t]) \in Nat /\ k < Len(stack[t]) /\ At(t)' = 1..k /\ Len(stack'[t]) = k
      /\ At(t) = 1..Len(stack[t])
  BY TopFrame DEF AnyInv, Cut, At
<1>2. \A u \in Threads \ {t} : stack'[u] = stack[u] /\ At(u)' = At(u)
  BY DEF Cut, At
<1>3. \A i \in 1..k : stack'[t][i] = stack[t][i]
  BY DEF Cut
<1>4. ASSUME NEW i \in At(t)', i # Len(stack'[t])
      PROVE  i \in At(t) /\ i # Len(stack[t]) /\ i \in 1..k /\ i + 1 \in 1..k
  BY <1>1, <1>4
<1> QED  BY <1>2, <1>3, <1>4 DEF AnyInv, ChainInv

(* A frame that comes back to the top had its package's frame above it.    *)
LEMMA PopParent ==
  ASSUME AnyInv, NEW t \in Threads, Busy(t), Cut(t, Len(stack[t]) - 1), Back(t)'
  PROVE  /\ Dotted(Top(t)'.name) /\ Top(t).name = Package(Top(t)'.name)
         /\ Top(t).kind # "body" => Top(t).package
<1> DEFINE L == Len(stack[t])
<1>1. L \in Nat \ {0} /\ Len(stack'[t]) = L - 1 /\ stack'[t] # <<>> /\ Top(t) = stack[t][L]
  BY TopFrame DEF AnyInv, Cut, Back, Busy, Top
<1>2. L # 1
  <2>1. SUFFICES ASSUME L = 1 PROVE FALSE
    OBVIOUS
  <2>2. Len(stack'[t]) = 0 /\ At(t)' = {}
    BY <1>1, <2>1 DEF At
  <2>3. Top(t)' = stack'[t][0] /\ stack'[t][0].kind = "back"
    BY <2>2 DEF Back, Top
  <2> QED  BY <1>1, <2>2, EmptySeq DEF Cut
<1>3. L - 1 \in 1..(L - 1) /\ L - 1 \in At(t) /\ (L - 1) + 1 = L /\ L - 1 # L
  BY <1>1, <1>2 DEF At
<1>4. Top(t)' = stack[t][L - 1]
  BY <1>1, <1>3 DEF Top, Cut
<1>5. stack[t][L - 1].kind = "back"
  BY <1>4 DEF Back
<1> QED  BY <1>1, <1>3, <1>4, <1>5 DEF AnyInv, ChainInv

(* Cutting leaves no frame that is about to enter the cache.               *)
LEMMA CutAlone ==
  ASSUME AnyInv, AloneInv, NEW t \in Threads, Busy(t), NEW k \in Nat, Cut(t, k),
         stack' \in [Threads -> Seq(Frames)],
         (Back(t) => ~NeedsParent(Top(t).name))'
  PROVE  AloneInv'
<1>1. \A u \in Threads : Busy(u)' => u = t
  BY CutFrames DEF AloneInv, Busy
<1>2. ASSUME Found(t)' PROVE FALSE
  <2>1. Busy(t)' /\ Top(t)'.kind = "found"
    BY <1>2 DEF Found
  <2>2. Len(stack'[t]) \in At(t)'
    <3>1. stack'[t] \in Seq(Frames) /\ stack'[t] # <<>>
      BY <2>1 DEF Busy
    <3>2. Len(stack'[t]) \in Nat /\ Len(stack'[t]) # 0
      BY <3>1, LenProperties, EmptySeq
    <3> QED  BY <3>2 DEF At
  <2> QED  BY <2>1, <2>2, CutFrames DEF Top
<1> QED  BY <1>1, <1>2 DEF AloneInv, Found, Back

(* In the cache already, or not to be found.                               *)
LEMMA HitKeeps ==
  ASSUME VfsInv, NEW t \in Threads, Hit(t) \/ HitBack(t) \/ Missing(t)
  PROVE  VfsInv'
<1> DEFINE n == Top(t).name
           L == Len(stack[t])
<1>1. /\ Busy(t) /\ Top(t).kind # "body" /\ n \in Names
      /\ L \in At(t) /\ stack[t][L].object = 0 /\ L - 1 \in Nat
  BY TopFrame DEF Hit, HitBack, Missing, Wants, Back, VfsInv, AnyInv, FrameInv, Top, Frames
<1>2. stack' \in [Threads -> Seq(Frames)] /\ Cut(t, L - 1)
  BY <1>1, UnderCuts DEF VfsInv, AnyInv, Hit, HitBack, Missing
<1>3. /\ UNCHANGED <<cache, objects, status, overlap>>
      /\ \/ Cached(n) /\ handed' = [handed EXCEPT ![t] = cache[n]]
         \/ handed' = [handed EXCEPT ![t] = 0] /\ ~Top(t).package
  BY DEF Hit, HitBack, Missing, Hands
<1>31. (Back(t) => ~NeedsParent(Top(t).name))'
  <2>1. SUFFICES ASSUME Back(t)' PROVE cache'[Package(Top(t)'.name)] # 0
    BY DEF NeedsParent, Cached
  <2>2. n = Package(Top(t)'.name) /\ Top(t).package
    BY <1>1, <1>2, <2>1, PopParent DEF VfsInv
  <2> QED  BY <1>3, <2>2 DEF Cached
<1>32. ChainInv'
  BY <1>1, <1>2, CutChain DEF VfsInv
<1> HIDE DEF n, L
<1>4. /\ \A u \in Threads : \A i \in At(u)' :
           /\ i \in At(u) /\ stack'[u][i] = stack[u][i]
           /\ u = t => i # Len(stack[t]) /\ stack[u][i].kind # "found"
      /\ \A u \in Threads : \A i \in At(u) :
           i \in At(u)' \/ stack[u][i].object = 0
      /\ \A u \in Threads \ {t} : stack'[u] = stack[u]
      /\ NoNewBody
  BY <1>1, <1>2, CutFrames DEF VfsInv, L
<1>5. VfsTypeOK'
  <2>1. cache[n] \in 0..objects /\ 0 \in 0..objects
    BY <1>1 DEF VfsInv, AnyInv, VfsTypeOK
  <2>2. handed' \in [Threads -> 0..objects]
    BY <1>3, <2>1 DEF VfsInv, AnyInv, VfsTypeOK
  <2> QED  BY <1>2, <1>3, <2>2 DEF VfsInv, AnyInv, VfsTypeOK
<1>6. FrameInv'
  BY <1>3, <1>4 DEF VfsInv, AnyInv, FrameInv
<1>7. ObjectInv'
  BY <1>3, <1>4, ObjectsKept DEF VfsInv, AnyInv
<1>8. CacheInv'
  <2>1. ASSUME NEW m \in Names, NEW u \in Threads, NEW i \in At(u), Cached(m),
               stack[u][i].object = cache[m]
        PROVE  i \in At(u)' /\ stack'[u][i].object = cache[m]
    BY <1>4, <2>1 DEF Cached
  <2> QED  BY <1>3, <2>1 DEF VfsInv, AnyInv, CacheInv, Cached
<1>9. ASSUME ~overlap PROVE SingleInv'
  <2> SingleInv
    BY <1>9 DEF VfsInv
  <2>1. AloneInv'
    BY <1>1, <1>2, <1>31, CutAlone DEF VfsInv, SingleInv
  <2>2. \A u \in Threads \ {t} : At(u)' = {}
    BY <1>1, <1>4, OnlyOne DEF VfsInv, AnyInv, SingleInv
  <2>3. Cached(n) => status[cache[n]] # "failed"
    BY <1>1 DEF VfsInv, AnyInv, FrameInv, CacheInv, Cached
  <2>4. HandedInv'
    <3> SUFFICES ASSUME NEW v \in Threads, handed'[v] # 0
                 PROVE  /\ status'[handed'[v]] # "failed"
                        /\ \A u \in Threads : \A i \in At(u)' :
                             stack'[u][i].object = handed'[v] => u = v
      BY DEF HandedInv
    <3>1. CASE v = t
      BY <1>3, <2>2, <2>3, <3>1 DEF VfsInv, AnyInv, VfsTypeOK
    <3>2. CASE v # t
      BY <1>3, <1>4, <3>2 DEF VfsInv, AnyInv, VfsTypeOK, SingleInv, HandedInv
    <3> QED  BY <3>1, <3>2
  <2>5. PackageInv'
    BY <1>3 DEF SingleInv, PackageInv, Cached
  <2>6. BodyInv'
    BY <1>3, <1>4, <1>6, BodiesKept DEF SingleInv
  <2> QED  BY <2>1, <2>4, <2>5, <2>6 DEF SingleInv
<1> QED  BY <1>3, <1>32, <1>5, <1>6, <1>7, <1>8, <1>9 DEF VfsInv, AnyInv

(* A frame takes the place of t's topmost one, which had no object.        *)
LEMMA PutFrames ==
  ASSUME AnyInv, NEW t \in Threads, Busy(t), Top(t).object = 0,
         NEW f, Put(t, Len(stack[t]) - 1, f)
  PROVE  /\ \A u \in Threads : At(u)' = At(u) /\ Len(stack'[u]) = Len(stack[u])
         /\ \A u \in Threads : \A i \in At(u) :
              (u = t /\ i = Len(stack[t])) \/ stack'[u][i] = stack[u][i]
         /\ stack'[t][Len(stack[t])] = f
         /\ stack[t][Len(stack[t])].object = 0
<1>1. Len(stack[t]) \in Nat \ {0}
  BY TopFrame DEF AnyInv
<1>2. Len(stack'[t]) = Len(stack[t]) /\ stack'[t][Len(stack[t])] = f
  BY <1>1 DEF Put
<1>3. \A i \in At(t) : i = Len(stack[t]) \/ stack'[t][i] = stack[t][i]
  BY <1>1 DEF Put, At
<1>4. \A u \in Threads \ {t} : stack'[u] = stack[u]
  BY DEF Put
<1> QED  BY <1>2, <1>3, <1>4 DEF At, Top

LEMMA PutChain ==
  ASSUME AnyInv, NEW t \in Threads, Busy(t), Top(t).kind # "body", Top(t).object = 0,
         NEW f, Put(t, Len(stack[t]) - 1, f),
         f.name = Top(t).name, f.kind # "body" => f.package = Top(t).package
  PROVE  ChainInv'
<1> DEFINE L == Len(stack[t])
<1>1. L \in Nat \ {0} /\ Top(t) = stack[t][L]
  BY TopFrame DEF AnyInv, Top
<1>2. /\ \A u \in Threads : At(u)' = At(u) /\ Len(stack'[u]) = Len(stack[u])
      /\ \A u \in Threads : \A i \in At(u) :
           (u = t /\ i = L) \/ stack'[u][i] = stack[u][i]
      /\ stack'[t][L] = f
  BY PutFrames
<1>3. \A u \in Threads : Len(stack[u]) \in Nat
  BY LenProperties DEF AnyInv, VfsTypeOK
<1>4. ASSUME NEW u \in Threads, NEW i \in At(u), stack'[u][i].kind = "back", i # Len(stack[u])
      PROVE  /\ Dotted(stack'[u][i].name)
             /\ stack'[u][i + 1].name = Package(stack'[u][i].name)
             /\ stack'[u][i + 1].kind # "body" => stack'[u][i + 1].package
  <2>1. stack'[u][i] = stack[u][i] /\ i + 1 \in At(u)
    BY <1>2, <1>3, <1>4 DEF At
  <2>2. /\ Dotted(stack[u][i].name)
        /\ stack[u][i + 1].name = Package(stack[u][i].name)
        /\ stack[u][i + 1].kind # "body" => stack[u][i + 1].package
    BY <1>4, <2>1 DEF AnyInv, ChainInv
  <2>3. CASE u = t /\ i + 1 = L
    BY <1>1, <1>2, <2>1, <2>2, <2>3
  <2>4. CASE ~(u = t /\ i + 1 = L)
    BY <1>2, <2>1, <2>2, <2>4
  <2> QED  BY <2>3, <2>4
<1> QED  BY <1>2, <1>4 DEF ChainInv

(* A frame goes on: it was not in the cache and its package is, or it has  *)
(* its package back and is still not in the cache.                         *)
LEMMA TurnKeeps ==
  ASSUME VfsInv, NEW t \in Threads, HasParent(t) \/ Find(t)
  PROVE  VfsInv'
<1> DEFINE kind == IF HasParent(t) THEN "back" ELSE "found"
           f == [Top(t) EXCEPT !.kind = kind]
           L == Len(stack[t])
<1>1. /\ Busy(t) /\ Top(t).kind # "body" /\ Top(t).name \in Names
      /\ L \in At(t) /\ Top(t).object = 0 /\ Top(t) \in Frames
  BY TopFrame DEF HasParent, Misses, Find, Wants, Back, VfsInv, AnyInv, FrameInv, Top, Frames
<1>13. kind = "found" \/ ~NeedsParent(Top(t).name)
  BY DEF HasParent
<1>12. kind # "found" \/ Find(t)
  OBVIOUS
<1>2. /\ f \in Frames /\ f.kind \in {"back", "found"} /\ f.object = 0 /\ f.name = Top(t).name
      /\ f.package = Top(t).package /\ f.kind = kind
  BY <1>1 DEF Frames
<1>3. stack' \in [Threads -> Seq(Frames)] /\ Put(t, L - 1, f)
  <2>1. Becomes(t, Append(Under(t), f))
    BY DEF HasParent, Find, Waiting
  <2> QED  BY <1>1, <1>2, <2>1, ReplacePuts DEF VfsInv, AnyInv
<1>4. UNCHANGED <<cache, objects, status, handed, overlap>>
  BY DEF HasParent, Find
<1> HIDE DEF f, kind
<1>41. ChainInv'
  BY <1>1, <1>2, <1>3, PutChain DEF VfsInv
<1>5. /\ \A u \in Threads : At(u)' = At(u) /\ Len(stack'[u]) = Len(stack[u])
      /\ \A u \in Threads : \A i \in At(u) :
           (u = t /\ i = Len(stack[t])) \/ stack'[u][i] = stack[u][i]
      /\ stack'[t][Len(stack[t])] = f
      /\ stack[t][Len(stack[t])].object = 0
  BY <1>1, <1>3, PutFrames DEF VfsInv
<1>6. NoNewBody
  BY <1>2, <1>5 DEF NoNewBody
<1>7. VfsTypeOK'
  BY <1>3, <1>4 DEF VfsInv, AnyInv, VfsTypeOK
<1>8. FrameInv'
  <2> SUFFICES ASSUME NEW u \in Threads, NEW i \in At(u)
               PROVE  /\ stack'[u][i].kind = "body" =>
                           /\ stack'[u][i].object \in 1..objects
                           /\ status[stack'[u][i].object] = "running"
                      /\ stack'[u][i].kind # "body" => stack'[u][i].object = 0
                      /\ stack'[u][i].kind = "found" => i = Len(stack'[u])
    BY <1>4, <1>5 DEF FrameInv
  <2> QED  BY <1>2, <1>5 DEF VfsInv, AnyInv, FrameInv
<1>9. ObjectInv'
  BY <1>4, <1>6, ObjectsKept DEF VfsInv, AnyInv
<1>10. CacheInv'
  <2>1. ASSUME NEW m \in Names, NEW u \in Threads, NEW i \in At(u), Cached(m),
               stack[u][i].object = cache[m]
        PROVE  i \in At(u)' /\ stack'[u][i].object = cache[m]
    BY <1>5, <2>1 DEF Cached
  <2> QED  BY <1>4, <2>1 DEF VfsInv, AnyInv, CacheInv, Cached
<1>11. ASSUME ~overlap PROVE SingleInv'
  <2> SingleInv
    BY <1>11 DEF VfsInv
  <2>1. AloneInv'
    <3>1. \A u \in Threads : Busy(u)' => u = t
      BY <1>1, <1>3 DEF SingleInv, AloneInv, Busy, Put
    <3>2. Top(t)'.name = Top(t).name
      BY <1>2, <1>5 DEF Top
    <3>3. ~NeedsParent(Top(t).name)
      <4>1. CASE kind = "found"
        <5>1. Back(t)
          BY <1>12, <4>1 DEF Find
        <5> QED  BY <5>1 DEF SingleInv, AloneInv
      <4>2. CASE kind # "found"
        BY <1>13, <4>2
      <4> QED  BY <4>1, <4>2
    <3>4. Dotted(Top(t).name) => cache'[Package(Top(t).name)] # 0
      BY <1>4, <3>3 DEF Cached, NeedsParent
    <3>5. Found(t)' => OnDisk(Top(t).name) /\ cache'[Top(t).name] = 0
      <4>1. Found(t)' => kind = "found"
        BY <1>2, <1>5 DEF Found, Top
      <4> QED  BY <1>4, <1>12, <4>1 DEF Find, Cached
    <3> QED  BY <3>1, <3>2, <3>4, <3>5
             DEF AloneInv, Found, Back, Cached, NeedsParent, Dotted, Package, OnDisk
  <2>2. HandedInv'
    BY <1>4, <1>6, HandedKept DEF SingleInv
  <2>3. PackageInv'
    BY <1>4 DEF SingleInv, PackageInv, Cached
  <2>4. BodyInv'
    BY <1>4, <1>6, <1>8, BodiesKept DEF SingleInv
  <2> QED  BY <2>1, <2>2, <2>3, <2>4 DEF SingleInv
<1> QED  BY <1>4, <1>41, <1>7, <1>8, <1>9, <1>10, <1>11 DEF VfsInv, AnyInv

(* A module enters the cache after its package.                            *)
LEMMA PackagesGrow ==
  ASSUME PackageInv, NEW n \in Names, ~NeedsParent(n), NEW o, o # 0,
         cache \in [Names -> Nat], cache' = [cache EXCEPT ![n] = o]
  PROVE  PackageInv'
<1> SUFFICES ASSUME NEW m \in Names, NEW p \in Names,
                    Cached(m)', Inside(m, p), ~Plain(p)
             PROVE  Cached(p)'
  BY DEF PackageInv, Inside, Plain
<1>1. \A k \in Names : Cached(k) \/ k = n => Cached(k)'
  BY DEF Cached
<1>2. CASE m = n /\ p # n
  <2>1. Dotted(n) /\ Inside(Package(n), p) /\ Package(n) \in Names
    BY <1>2, InsidePackage, PackageInside
  <2>2. Cached(Package(n))
    BY <2>1 DEF NeedsParent
  <2> QED  BY <1>1, <2>1, <2>2 DEF PackageInv
<1>3. CASE m # n
  <2>1. Cached(m)
    BY <1>3 DEF Cached
  <2> QED  BY <1>1, <2>1 DEF PackageInv
<1> QED  BY <1>1, <1>2, <1>3

(* An empty package for a bare directory.                                  *)
LEMMA BareKeeps ==
  ASSUME VfsInv, NEW t \in Threads, Bare(t)
  PROVE  VfsInv'
<1> DEFINE n == Top(t).name
           L == Len(stack[t])
           o == objects + 1
<1>1. /\ Busy(t) /\ Back(t) /\ Top(t).kind = "back" /\ n \in Names /\ ~OnDisk(n)
      /\ L \in At(t) /\ stack[t][L].object = 0 /\ L - 1 \in Nat
  BY TopFrame DEF Bare, Back, VfsInv, AnyInv, FrameInv, Top, Frames
<1>2. stack' \in [Threads -> Seq(Frames)] /\ Cut(t, L - 1)
  BY <1>1, UnderCuts DEF VfsInv, AnyInv, Bare
<1>3. /\ objects' = o /\ objects < MaxObject /\ cache' = [cache EXCEPT ![n] = o]
      /\ status' = [status EXCEPT ![o] = "loaded"]
      /\ handed' = [handed EXCEPT ![t] = o] /\ overlap' = overlap
  BY DEF Bare, Hands, Build
<1>4. /\ o \in Objects /\ objects \in Nat /\ o \in Nat \ {0} /\ o > objects
      /\ cache \in [Names -> 0..objects] /\ handed \in [Threads -> 0..objects]
      /\ status \in [Objects -> {"running", "loaded", "failed"}]
      /\ overlap \in BOOLEAN
  BY <1>3, VfsAssumption DEF VfsInv, AnyInv, VfsTypeOK, Objects
<1> HIDE DEF n, L, o
<1>5. /\ \A u \in Threads : \A i \in At(u)' :
           /\ i \in At(u) /\ stack'[u][i] = stack[u][i]
           /\ u = t => i # Len(stack[t]) /\ stack[u][i].kind # "found"
      /\ \A u \in Threads : \A i \in At(u) :
           i \in At(u)' \/ stack[u][i].object = 0
      /\ \A u \in Threads \ {t} : stack'[u] = stack[u]
      /\ NoNewBody
  BY <1>1, <1>2, CutFrames DEF VfsInv, L
<1>6. \A u \in Threads : \A i \in At(u) : stack[u][i].object # o
  BY <1>4 DEF VfsInv, AnyInv, FrameInv
<1>7. VfsTypeOK'
  <2>1. o \in 0..MaxObject /\ 0..objects \subseteq 0..o /\ o \in 0..o
    BY <1>4 DEF Objects, o
  <2>2. cache' \in [Names -> 0..o] /\ handed' \in [Threads -> 0..o]
    BY <1>1, <1>3, <1>4, <2>1
  <2>3. status' \in [Objects -> {"running", "loaded", "failed"}]
    BY <1>3, <1>4
  <2> QED  BY <1>2, <1>3, <1>4, <2>1, <2>2, <2>3 DEF VfsTypeOK
<1>8. FrameInv'
  <2> SUFFICES ASSUME NEW u \in Threads, NEW i \in At(u)'
               PROVE  /\ stack'[u][i].kind = "body" =>
                           /\ stack'[u][i].object \in 1..objects'
                           /\ status'[stack'[u][i].object] = "running"
                      /\ stack'[u][i].kind # "body" => stack'[u][i].object = 0
                      /\ stack'[u][i].kind = "found" => i = Len(stack'[u])
    BY DEF FrameInv
  <2> QED  BY <1>3, <1>4, <1>5, <1>6 DEF VfsInv, AnyInv, FrameInv, Objects, o
<1>9. ObjectInv'
  BY <1>1, <1>3, <1>4, <1>5, <1>6, ObjectsKept DEF VfsInv, AnyInv
<1>10. CacheInv'
  <2>1. ASSUME NEW m \in Names, Cached(m)'
        PROVE  \/ status'[cache'[m]] = "loaded"
               \/ \E u \in Threads : \E i \in At(u)' : stack'[u][i].object = cache'[m]
    <3>1. CASE m = n
      BY <1>1, <1>3, <1>4, <3>1
    <3>2. CASE m # n
      <4>1. cache'[m] = cache[m] /\ cache[m] \in 1..objects /\ cache[m] # o
        BY <1>3, <1>4, <2>1, <3>2 DEF Cached
      <4>2. CASE status[cache[m]] = "loaded"
        BY <1>3, <1>4, <4>1, <4>2
      <4>3. ASSUME NEW u \in Threads, NEW i \in At(u), stack[u][i].object = cache[m]
            PROVE  i \in At(u)' /\ stack'[u][i].object = cache'[m]
        BY <1>5, <4>1, <4>3
      <4> QED  BY <4>1, <4>2, <4>3 DEF VfsInv, AnyInv, CacheInv, Cached
    <3> QED  BY <3>1, <3>2
  <2>2. \A q \in Objects : q > objects' => status'[q] = "running"
    BY <1>3, <1>4 DEF VfsInv, AnyInv, CacheInv, Objects
  <2> QED  BY <2>1, <2>2 DEF CacheInv
<1>12. ChainInv'
  BY <1>1, <1>2, CutChain DEF VfsInv
<1>13. (Back(t) => ~NeedsParent(Top(t).name))'
  <2>1. SUFFICES ASSUME Back(t)' PROVE cache'[Package(Top(t)'.name)] # 0
    BY DEF NeedsParent, Cached
  <2>2. n = Package(Top(t)'.name)
    BY <1>1, <1>2, <2>1, PopParent DEF VfsInv, n, L
  <2>3. cache'[n] = o /\ o # 0
    BY <1>1, <1>3, <1>4
  <2> QED  BY <2>2, <2>3
<1>11. ASSUME ~overlap PROVE SingleInv'
  <2> SingleInv
    BY <1>11 DEF VfsInv
  <2>1. AloneInv'
    BY <1>1, <1>2, <1>13, CutAlone DEF VfsInv, SingleInv
  <2>2. ~NeedsParent(n)
    BY <1>1 DEF SingleInv, AloneInv, n
  <2>3. HandedInv'
    <3> SUFFICES ASSUME NEW v \in Threads, handed'[v] # 0
                 PROVE  /\ status'[handed'[v]] # "failed"
                        /\ \A u \in Threads : \A i \in At(u)' :
                             stack'[u][i].object = handed'[v] => u = v
      BY DEF HandedInv
    <3>1. CASE v = t
      BY <1>3, <1>4, <1>5, <1>6, <3>1
    <3>2. CASE v # t
      <4>1. handed'[v] = handed[v] /\ handed[v] \in 1..objects /\ handed[v] # o
        BY <1>3, <1>4, <3>2
      <4>2. status'[handed'[v]] # "failed"
        BY <1>3, <1>4, <4>1 DEF SingleInv, HandedInv
      <4> QED  BY <1>5, <4>1, <4>2 DEF SingleInv, HandedInv
    <3> QED  BY <3>1, <3>2
  <2>4. PackageInv'
    <3>1. cache \in [Names -> Nat] /\ o # 0
      BY <1>4
    <3> QED  BY <1>1, <1>3, <2>2, <3>1, PackagesGrow DEF SingleInv
  <2>5. BodyInv'
    <3>1. ASSUME NEW u \in Threads, NEW i \in At(u)', stack'[u][i].kind = "body"
          PROVE  cache'[stack'[u][i].name] = cache[stack'[u][i].name]
      <4>1. OnDisk(stack[u][i].name) /\ stack'[u][i] = stack[u][i]
        BY <1>5, <3>1 DEF SingleInv, BodyInv
      <4> QED  BY <1>1, <1>3, <1>4, <4>1
    <3> QED  BY <1>5, <1>8, <3>1, BodiesKept DEF SingleInv
  <2> QED  BY <2>1, <2>3, <2>4, <2>5 DEF SingleInv
<1> QED  BY <1>3, <1>7, <1>8, <1>9, <1>10, <1>11, <1>12 DEF VfsInv, AnyInv

(* A body starts: its module was not in the cache, so no body below it is  *)
(* of the same module or inside the same package.                          *)
LEMMA StartKeeps ==
  ASSUME VfsInv, NEW t \in Threads, Start(t)
  PROVE  VfsInv'
<1> DEFINE n == Top(t).name
           L == Len(stack[t])
           o == objects + 1
           f == Frame("body", n, o, FALSE)
<1>1. /\ Busy(t) /\ Found(t) /\ Top(t).kind = "found" /\ n \in Names
      /\ L \in At(t) /\ Top(t).object = 0
  BY TopFrame DEF Start, Found, VfsInv, AnyInv, FrameInv, Top, Frames
<1>2. /\ objects' = o /\ objects < MaxObject /\ cache' = [cache EXCEPT ![n] = o]
      /\ UNCHANGED <<status, handed, overlap>>
  BY DEF Start, Build
<1>3. /\ o \in Objects /\ objects \in Nat /\ o \in Nat \ {0} /\ o > objects
      /\ cache \in [Names -> 0..objects] /\ handed \in [Threads -> 0..objects]
      /\ status \in [Objects -> {"running", "loaded", "failed"}]
      /\ overlap \in BOOLEAN
  BY <1>2, VfsAssumption DEF VfsInv, AnyInv, VfsTypeOK, Objects
<1>4. f \in Frames /\ f.kind = "body" /\ f.object = o /\ f.name = n
  BY <1>1, <1>3 DEF Frame, Frames, Objects
<1>5. stack' \in [Threads -> Seq(Frames)] /\ Put(t, L - 1, f)
  BY <1>1, <1>4, ReplacePuts DEF VfsInv, AnyInv, Start
<1>51. ChainInv'
  BY <1>1, <1>4, <1>5, PutChain DEF VfsInv
<1> HIDE DEF n, o, f
<1>6. /\ \A u \in Threads : At(u)' = At(u) /\ Len(stack'[u]) = Len(stack[u])
      /\ \A u \in Threads : \A i \in At(u) :
           (u = t /\ i = Len(stack[t])) \/ stack'[u][i] = stack[u][i]
      /\ stack'[t][Len(stack[t])] = f
      /\ stack[t][Len(stack[t])].object = 0
  BY <1>1, <1>5, PutFrames DEF VfsInv
<1>7. \A u \in Threads : \A i \in At(u) : stack[u][i].object # o
  BY <1>3 DEF VfsInv, AnyInv, FrameInv
<1>8. VfsTypeOK'
  <2>1. o \in 0..MaxObject /\ 0..objects \subseteq 0..o /\ o \in 0..o
    BY <1>3 DEF Objects, o
  <2>2. cache' \in [Names -> 0..o] /\ handed' \in [Threads -> 0..o]
    BY <1>1, <1>2, <1>3, <2>1
  <2> QED  BY <1>2, <1>3, <1>5, <2>1, <2>2 DEF VfsTypeOK
<1>9. status[o] = "running"
  BY <1>3 DEF VfsInv, AnyInv, CacheInv
<1>10. FrameInv'
  <2> SUFFICES ASSUME NEW u \in Threads, NEW i \in At(u)
               PROVE  /\ stack'[u][i].kind = "body" =>
                           /\ stack'[u][i].object \in 1..objects'
                           /\ status[stack'[u][i].object] = "running"
                      /\ stack'[u][i].kind # "body" => stack'[u][i].object = 0
                      /\ stack'[u][i].kind = "found" => i = Len(stack'[u])
    BY <1>2, <1>6 DEF FrameInv
  <2>1. CASE u = t /\ i = Len(stack[t])
    BY <1>2, <1>3, <1>4, <1>6, <1>9, <2>1
  <2>2. CASE ~(u = t /\ i = Len(stack[t]))
    BY <1>2, <1>3, <1>6, <2>2, SMTT(30) DEF VfsInv, AnyInv, FrameInv, o
  <2> QED  BY <2>1, <2>2
<1>11. ObjectInv'
  <2> SUFFICES ASSUME NEW u \in Threads, NEW i \in At(u), stack'[u][i].object # 0
               PROVE  /\ \A v \in Threads : \A j \in At(v) :
                           stack'[v][j].object = stack'[u][i].object => v = u /\ j = i
                      /\ \A m \in Names :
                           cache'[m] = stack'[u][i].object => m = stack'[u][i].name
    BY <1>6 DEF ObjectInv
  <2>1. CASE u = t /\ i = Len(stack[t])
    <3>1. stack'[u][i] = f
      BY <1>6, <2>1
    <3>2. \A m \in Names : cache'[m] = o => m = n
      BY <1>2, <1>3
    <3>3. ASSUME NEW v \in Threads, NEW j \in At(v), ~(v = t /\ j = Len(stack[t]))
          PROVE  stack'[v][j].object # o
      BY <1>6, <1>7, <3>3
    <3> QED  BY <1>4, <2>1, <3>1, <3>2, <3>3
  <2>2. CASE ~(u = t /\ i = Len(stack[t]))
    <3>1. stack'[u][i] = stack[u][i] /\ stack[u][i].object # o
      BY <1>6, <1>7, <2>2
    <3>2. ASSUME NEW v \in Threads, NEW j \in At(v),
                 stack'[v][j].object = stack[u][i].object
          PROVE  v = u /\ j = i
      <4>1. stack'[v][j] = stack[v][j]
        BY <1>4, <1>6, <3>1, <3>2
      <4> QED  BY <3>1, <3>2, <4>1 DEF VfsInv, AnyInv, ObjectInv
    <3>3. ASSUME NEW m \in Names, cache'[m] = stack[u][i].object
          PROVE  m = stack[u][i].name
      <4>1. cache[m] = stack[u][i].object /\ stack[u][i].object # 0
        BY <1>2, <1>3, <3>1, <3>3
      <4>2. ObjectInv
        BY DEF VfsInv, AnyInv
      <4> QED  BY <4>1, <4>2 DEF ObjectInv
    <3> QED  BY <3>1, <3>2, <3>3
  <2> QED  BY <2>1, <2>2
<1>12. CacheInv'
  <2>1. ASSUME NEW m \in Names, Cached(m)'
        PROVE  \/ status'[cache'[m]] = "loaded"
               \/ \E u \in Threads : \E i \in At(u)' : stack'[u][i].object = cache'[m]
    <3>1. CASE m = n
      BY <1>1, <1>2, <1>3, <1>4, <1>6, <3>1
    <3>2. CASE m # n
      <4>1. cache'[m] = cache[m] /\ Cached(m)
        BY <1>2, <1>3, <2>1, <3>2 DEF Cached
      <4>2. ASSUME NEW u \in Threads, NEW i \in At(u), stack[u][i].object = cache[m]
            PROVE  i \in At(u)' /\ stack'[u][i].object = cache'[m]
        BY <1>6, <4>1, <4>2 DEF Cached
      <4> QED  BY <1>2, <4>1, <4>2 DEF VfsInv, AnyInv, CacheInv
    <3> QED  BY <3>1, <3>2
  <2>2. \A q \in Objects : q > objects' => status'[q] = "running"
    BY <1>2, <1>3 DEF VfsInv, AnyInv, CacheInv, Objects
  <2> QED  BY <2>1, <2>2 DEF CacheInv
<1>13. ASSUME ~overlap PROVE SingleInv'
  <2> SingleInv
    BY <1>13 DEF VfsInv
  <2>1. AloneInv'
    <3>1. \A u \in Threads : Busy(u)' => u = t
      BY <1>1, <1>5 DEF SingleInv, AloneInv, Busy, Put
    <3>2. Top(t)' = f
      BY <1>6 DEF Top
    <3> QED  BY <1>4, <3>1, <3>2 DEF AloneInv, Found, Back
  <2>2. OnDisk(n) /\ ~Cached(n) /\ ~NeedsParent(n)
    BY <1>1 DEF SingleInv, AloneInv, n
  <2>3. HandedInv'
    <3>1. \A v \in Threads : handed[v] # o
      BY <1>3
    <3>2. ASSUME NEW v \in Threads, handed[v] # 0, NEW u \in Threads, NEW i \in At(u),
                 stack'[u][i].object = handed[v]
          PROVE  u = v
      <4>1. stack'[u][i] = stack[u][i]
        BY <1>4, <1>6, <3>1, <3>2
      <4> QED  BY <3>2, <4>1 DEF SingleInv, HandedInv
    <3> QED  BY <1>2, <1>6, <3>2 DEF SingleInv, HandedInv
  <2>4. PackageInv'
    <3>1. cache \in [Names -> Nat] /\ o # 0
      BY <1>3
    <3> QED  BY <1>1, <1>2, <2>2, <3>1, PackagesGrow DEF SingleInv
  <2>5. ASSUME NEW u \in Threads, NEW i \in At(u), stack[u][i].kind = "body"
        PROVE  /\ stack[u][i].name \in Names /\ stack[u][i].name # n
               /\ stack[u][i].name \notin Dropped(n)
               /\ cache[stack[u][i].name] = stack[u][i].object
    <3>1. stack[u][i].name \in Names
      <4>1. stack[u] \in Seq(Frames)
        BY DEF VfsInv, AnyInv, VfsTypeOK
      <4>2. stack[u][i] \in Frames
        BY <4>1, ElementOfSeq DEF At
      <4> QED  BY <4>2 DEF Frames
    <3>2. cache[stack[u][i].name] = stack[u][i].object /\ stack[u][i].object # 0
      BY <1>3, <2>5 DEF VfsInv, AnyInv, FrameInv, SingleInv, BodyInv
    <3>3. stack[u][i].name # n
      BY <2>2, <3>2 DEF Cached
    <3>4. ~(n \in Packages /\ Inside(stack[u][i].name, n))
      BY <1>1, <2>2, <3>1, <3>2 DEF Cached, Plain, SingleInv, PackageInv
    <3> QED  BY <3>1, <3>2, <3>3, <3>4 DEF Dropped
  <2>6. BodyInv'
    <3> SUFFICES ASSUME NEW u \in Threads, NEW i \in At(u), stack'[u][i].kind = "body"
                 PROVE  /\ OnDisk(stack'[u][i].name)
                        /\ cache'[stack'[u][i].name] = stack'[u][i].object
                        /\ \A j \in At(u) : i < j /\ stack'[u][j].kind = "body" =>
                             stack'[u][i].name \notin Dropped(stack'[u][j].name)
      <4>1. \A p : Dropped(p)' = Dropped(p)
        BY DEF Dropped, Inside
      <4>2. \A p : OnDisk(p)' = OnDisk(p)
        BY DEF OnDisk
      <4> QED  BY <1>6, <4>1, <4>2 DEF BodyInv
    <3>0. OnDisk(n)
      BY <2>2
    <3>1. CASE u = t /\ i = Len(stack[t])
      <4>1. \A j \in At(u) : ~(i < j)
        BY <1>1, <3>1, TopFrame DEF VfsInv, AnyInv, At
      <4> QED  BY <1>1, <1>2, <1>3, <1>4, <1>6, <3>0, <3>1, <4>1
    <3>2. CASE ~(u = t /\ i = Len(stack[t]))
      <4>1. stack'[u][i] = stack[u][i]
        BY <1>6, <3>2
      <4>2. cache'[stack[u][i].name] = stack[u][i].object /\ OnDisk(stack[u][i].name)
        BY <1>2, <1>3, <2>5, <4>1 DEF SingleInv, BodyInv
      <4>3. ASSUME NEW j \in At(u), i < j, stack'[u][j].kind = "body"
            PROVE  stack[u][i].name \notin Dropped(stack'[u][j].name)
        <5>1. CASE u = t /\ j = Len(stack[t])
          BY <1>4, <1>6, <2>5, <4>1, <5>1
        <5>2. CASE ~(u = t /\ j = Len(stack[t]))
          BY <1>6, <4>1, <4>3, <5>2 DEF SingleInv, BodyInv
        <5> QED  BY <5>1, <5>2
      <4> QED  BY <4>1, <4>2, <4>3
    <3> QED  BY <3>1, <3>2
  <2> QED  BY <2>1, <2>3, <2>4, <2>6 DEF SingleInv
<1> QED  BY <1>2, <1>51, <1>8, <1>10, <1>11, <1>12, <1>13 DEF VfsInv, AnyInv

LEMMA BuiltObjects ==
  ASSUME VfsTypeOK
  PROVE  \A o \in 0..objects : o # 0 => o \in Objects /\ o \in 1..objects
  BY VfsAssumption DEF VfsTypeOK, Objects

(* A body ends: its frame, and the frames that only waited for it when it  *)
(* raised, are gone, and no other frame had its object.                    *)
LEMMA EndedFrames ==
  ASSUME AnyInv, NEW t \in Threads, Running(t), NEW k \in Nat, Cut(t, k)
  PROVE  /\ Top(t).object \in 1..objects /\ Top(t).object \in Objects
         /\ Top(t).name \in Names /\ Top(t) = stack[t][Len(stack[t])]
         /\ Len(stack[t]) \in At(t)
         /\ \A u \in Threads : \A i \in At(u)' :
              /\ i \in At(u) /\ stack'[u][i] = stack[u][i]
              /\ stack[u][i].object # Top(t).object
              /\ u = t => i # Len(stack[t])
         /\ \A u \in Threads : \A i \in At(u) :
              i \in At(u)' \/ stack[u][i].object \in {0, Top(t).object}
<1>1. /\ Busy(t) /\ Top(t) \in Frames /\ Len(stack[t]) \in At(t)
      /\ Top(t) = stack[t][Len(stack[t])] /\ Top(t).kind = "body"
  BY TopFrame DEF AnyInv, Running, Top
<1>2. Top(t).object \in 1..objects /\ Top(t).object \in Objects
  <2>1. Top(t).object \in 1..objects
    BY <1>1 DEF AnyInv, FrameInv
  <2> QED  BY <2>1, BuiltObjects DEF AnyInv, VfsTypeOK
<1>3. Top(t).name \in Names
  BY <1>1 DEF Frames
<1>4. ASSUME NEW u \in Threads, NEW i \in At(u)'
      PROVE  /\ i \in At(u) /\ stack'[u][i] = stack[u][i]
             /\ stack[u][i].object # Top(t).object
             /\ u = t => i # Len(stack[t])
  <2>1. i \in At(u) /\ stack'[u][i] = stack[u][i] /\ (u = t => i # Len(stack[t]))
    BY <1>1, CutFrames
  <2>2. Top(t).object # 0
    BY <1>2
  <2> QED  BY <1>1, <2>1, <2>2 DEF AnyInv, ObjectInv
<1>5. ASSUME NEW u \in Threads, NEW i \in At(u)
      PROVE  i \in At(u)' \/ stack[u][i].object \in {0, Top(t).object}
  BY <1>1, CutFrames
<1> QED  BY <1>1, <1>2, <1>3, <1>4, <1>5

(* What holds of the frames left when a body ends, however it ends.        *)
LEMMA EndKeepsFrames ==
  ASSUME AnyInv, NEW t \in Threads, Running(t), NEW k \in Nat, Cut(t, k),
         NEW s, status' = [status EXCEPT ![Top(t).object] = s],
         UNCHANGED objects
  PROVE  FrameInv'
<1> DEFINE o == Top(t).object
<1>1. status \in [Objects -> {"running", "loaded", "failed"}] /\ o \in Objects
  BY EndedFrames DEF AnyInv, VfsTypeOK
<1>2. \A u \in Threads : \A i \in At(u)' :
        /\ i \in At(u) /\ stack'[u][i] = stack[u][i] /\ stack[u][i].object # o
        /\ stack[u][i].kind = "found" => i = Len(stack'[u])
  <2>1. Busy(t)
    BY DEF Running
  <2>2. \A u \in Threads \ {t} : stack'[u] = stack[u]
    BY <2>1, CutFrames
  <2>3. \A i \in At(t)' : stack[t][i].kind # "found"
    BY <2>1, CutFrames
  <2> QED  BY <2>2, <2>3, EndedFrames DEF AnyInv, FrameInv
<1> HIDE DEF o
<1> SUFFICES ASSUME NEW u \in Threads, NEW i \in At(u)'
             PROVE  /\ stack'[u][i].kind = "body" =>
                         /\ stack'[u][i].object \in 1..objects
                         /\ status'[stack'[u][i].object] = "running"
                    /\ stack'[u][i].kind # "body" => stack'[u][i].object = 0
                    /\ stack'[u][i].kind = "found" => i = Len(stack'[u])
  BY DEF FrameInv
<1>3. stack[u][i].kind = "body" => status'[stack[u][i].object] = "running"
  <2> SUFFICES ASSUME stack[u][i].kind = "body"
               PROVE  status'[stack[u][i].object] = "running"
    OBVIOUS
  <2>1. /\ stack[u][i].object \in Objects /\ stack[u][i].object # o
        /\ status[stack[u][i].object] = "running"
    <3>1. stack[u][i].object \in 1..objects /\ status[stack[u][i].object] = "running"
      BY <1>2 DEF AnyInv, FrameInv
    <3> QED  BY <1>2, <3>1, BuiltObjects DEF AnyInv, VfsTypeOK
  <2> QED  BY <1>1, <2>1 DEF o
<1> QED  BY <1>2, <1>3 DEF AnyInv, FrameInv

(* The body finished.                                                      *)
LEMMA FinishKeeps ==
  ASSUME VfsInv, NEW t \in Threads, Finish(t)
  PROVE  VfsInv'
<1> DEFINE o == Top(t).object
           k == Len(stack[t]) - 1
<1>1. /\ Running(t) /\ Busy(t) /\ k \in Nat
      /\ stack' \in [Threads -> Seq(Frames)] /\ Cut(t, k)
  <2>1. Running(t) /\ Busy(t)
    BY DEF Finish, Running
  <2> QED  BY <2>1, TopFrame, UnderCuts DEF VfsInv, AnyInv, Finish
<1>2. /\ status' = [status EXCEPT ![o] = "loaded"]
      /\ handed' = [handed EXCEPT ![t] = o]
      /\ UNCHANGED <<cache, objects, overlap>>
  BY DEF Finish, Hands
<1>21. ChainInv'
  BY <1>1, CutChain DEF VfsInv
<1>22. Back(t)' => Dotted(Top(t)'.name) /\ Top(t).name = Package(Top(t)'.name)
  BY <1>1, PopParent DEF VfsInv
<1> HIDE DEF k
<1>3. /\ o \in 1..objects /\ o \in Objects
      /\ \A u \in Threads : \A i \in At(u)' :
           i \in At(u) /\ stack'[u][i] = stack[u][i] /\ stack[u][i].object # o
      /\ \A u \in Threads : \A i \in At(u) :
           i \in At(u)' \/ stack[u][i].object \in {0, o}
  BY <1>1, EndedFrames DEF VfsInv
<1>4. /\ status \in [Objects -> {"running", "loaded", "failed"}]
      /\ cache \in [Names -> 0..objects] /\ objects \in 0..MaxObject
      /\ handed \in [Threads -> 0..objects] /\ overlap \in BOOLEAN
  BY DEF VfsInv, AnyInv, VfsTypeOK
<1>5. NoNewBody
  BY <1>3 DEF NoNewBody
<1>6. FrameInv'
  BY <1>1, <1>2, EndKeepsFrames DEF VfsInv
<1> HIDE DEF o
<1>7. VfsTypeOK'
  <2>1. o \in 0..objects
    BY <1>3, <1>4
  <2> QED  BY <1>1, <1>2, <1>3, <1>4, <2>1 DEF VfsTypeOK
<1>8. ObjectInv'
  BY <1>2, <1>5, ObjectsKept DEF VfsInv, AnyInv
<1>9. CacheInv'
  <2>1. ASSUME NEW m \in Names, Cached(m)'
        PROVE  \/ status'[cache'[m]] = "loaded"
               \/ \E u \in Threads : \E i \in At(u)' : stack'[u][i].object = cache'[m]
    <3>1. Cached(m) /\ cache'[m] = cache[m] /\ cache[m] \in Objects
      BY <1>2, <1>4, <2>1, BuiltObjects DEF Cached, VfsInv, AnyInv
    <3>2. CASE status[cache[m]] = "loaded"
      BY <1>2, <1>3, <1>4, <3>1, <3>2
    <3>3. ASSUME NEW u \in Threads, NEW i \in At(u), stack[u][i].object = cache[m]
          PROVE  \/ status'[cache'[m]] = "loaded"
                 \/ i \in At(u)' /\ stack'[u][i].object = cache'[m]
      BY <1>2, <1>3, <1>4, <3>1, <3>3 DEF Cached
    <3> QED  BY <3>1, <3>2, <3>3 DEF VfsInv, AnyInv, CacheInv
  <2>2. \A q \in Objects : q > objects' => status'[q] = "running"
    BY <1>2, <1>3, <1>4 DEF VfsInv, AnyInv, CacheInv, Objects
  <2> QED  BY <2>1, <2>2 DEF CacheInv
<1>10. ASSUME ~overlap PROVE SingleInv'
  <2> SingleInv
    BY <1>10 DEF VfsInv
  <2>0. (Back(t) => ~NeedsParent(Top(t).name))'
    <3>1. SUFFICES ASSUME Back(t)' PROVE cache'[Package(Top(t)'.name)] # 0
      BY DEF NeedsParent, Cached
    <3>2. cache[Top(t).name] = o /\ o # 0
      <4>1. Top(t) = stack[t][Len(stack[t])] /\ Len(stack[t]) \in At(t) /\ Top(t).kind = "body"
        BY <1>1, TopFrame DEF VfsInv, AnyInv, Top, Running
      <4> QED  BY <1>3, <4>1 DEF SingleInv, BodyInv, o
    <3> QED  BY <1>2, <1>22, <3>1, <3>2
  <2>1. AloneInv'
    BY <1>1, <2>0, CutAlone DEF VfsInv, SingleInv
  <2>2. HandedInv'
    <3> SUFFICES ASSUME NEW v \in Threads, handed'[v] # 0
                 PROVE  /\ status'[handed'[v]] # "failed"
                        /\ \A u \in Threads : \A i \in At(u)' :
                             stack'[u][i].object = handed'[v] => u = v
      BY DEF HandedInv
    <3>1. CASE v = t
      BY <1>2, <1>3, <1>4, <3>1
    <3>2. CASE v # t
      <4>1. handed'[v] = handed[v] /\ handed[v] \in Objects
        BY <1>2, <1>4, <3>2, BuiltObjects DEF VfsInv, AnyInv
      <4>2. status'[handed'[v]] # "failed"
        BY <1>2, <1>3, <1>4, <4>1 DEF SingleInv, HandedInv
      <4> QED  BY <1>3, <4>1, <4>2 DEF SingleInv, HandedInv
    <3> QED  BY <3>1, <3>2
  <2>3. PackageInv'
    BY <1>2 DEF SingleInv, PackageInv, Cached
  <2>4. BodyInv'
    BY <1>2, <1>5, <1>6, BodiesKept DEF SingleInv
  <2> QED  BY <2>1, <2>2, <2>3, <2>4 DEF SingleInv
<1> QED  BY <1>2, <1>21, <1>6, <1>7, <1>8, <1>9, <1>10 DEF VfsInv, AnyInv

(* The body raised: what it takes out of the cache holds no object of a    *)
(* body still running, and leaves no name without its package.             *)
LEMMA RaiseKeeps ==
  ASSUME VfsInv, NEW t \in Threads, Raise(t)
  PROVE  VfsInv'
<1> DEFINE o == Top(t).object
           p == Top(t).name
<1>1. Running(t) /\ Busy(t) /\ stack' \in [Threads -> Seq(Frames)]
      /\ (\E k \in Nat : Cut(t, k)) /\ (Busy(t) => Top(t).kind = "body")'
  <2>1. Running(t) /\ Busy(t)
    BY DEF Raise, Running
  <2> QED  BY <2>1, UnwoundCuts DEF VfsInv, AnyInv, Raise
<1>2. PICK k \in Nat : Cut(t, k)
  BY <1>1
<1>21. ChainInv'
  BY <1>1, <1>2, CutChain DEF VfsInv
<1>22. ~Back(t)'
  BY <1>1 DEF Back
<1>3. /\ status' = [status EXCEPT ![o] = "failed"]
      /\ cache' = [n \in Names |-> IF n \in Dropped(p) THEN 0 ELSE cache[n]]
      /\ handed' = [handed EXCEPT ![t] = 0]
      /\ UNCHANGED <<objects, overlap>>
  BY DEF Raise, Hands
<1>4. /\ o \in 1..objects /\ o \in Objects /\ p \in Names
      /\ Top(t) = stack[t][Len(stack[t])] /\ Len(stack[t]) \in At(t)
      /\ \A u \in Threads : \A i \in At(u)' :
           /\ i \in At(u) /\ stack'[u][i] = stack[u][i] /\ stack[u][i].object # o
           /\ u = t => i # Len(stack[t])
      /\ \A u \in Threads : \A i \in At(u) :
           i \in At(u)' \/ stack[u][i].object \in {0, o}
  BY <1>1, <1>2, EndedFrames DEF VfsInv
<1>5. /\ status \in [Objects -> {"running", "loaded", "failed"}]
      /\ cache \in [Names -> 0..objects] /\ objects \in 0..MaxObject
      /\ handed \in [Threads -> 0..objects] /\ overlap \in BOOLEAN
  BY DEF VfsInv, AnyInv, VfsTypeOK
<1>6. NoNewBody
  BY <1>4 DEF NoNewBody
<1>7. FrameInv'
  BY <1>1, <1>2, <1>3, EndKeepsFrames DEF VfsInv
<1>8. \A n \in Names : cache[n] = o => n = p
  <2>1. o # 0 /\ ObjectInv
    BY <1>4 DEF VfsInv, AnyInv
  <2> QED  BY <1>4, <2>1 DEF ObjectInv
<1>9. p \in Dropped(p)
  BY <1>4, DropsItself
<1> HIDE DEF o, p
<1>10. ASSUME NEW n \in Names, Cached(n)'
       PROVE  /\ n \notin Dropped(p) /\ Cached(n) /\ cache'[n] = cache[n]
              /\ cache[n] # o /\ cache[n] \in Objects
  <2>1. n \notin Dropped(p) /\ cache'[n] = cache[n] /\ Cached(n)
    BY <1>3, <1>10 DEF Cached
  <2>2. cache[n] \in Objects
    BY <1>5, <2>1, BuiltObjects DEF VfsInv, AnyInv, Cached
  <2> QED  BY <1>8, <1>9, <2>1, <2>2
<1>11. VfsTypeOK'
  <2>1. 0 \in 0..objects
    BY <1>5
  <2>2. cache' \in [Names -> 0..objects] /\ handed' \in [Threads -> 0..objects]
    BY <1>3, <1>5, <2>1
  <2> QED  BY <1>1, <1>3, <1>5, <2>2 DEF VfsTypeOK
<1>12. ObjectInv'
  <2>1. \A n \in Names : cache'[n] = cache[n] \/ cache'[n] = 0
    BY <1>3
  <2> QED  BY <1>6, <2>1, ObjectsKept DEF VfsInv, AnyInv
<1>13. CacheInv'
  <2>1. ASSUME NEW n \in Names, Cached(n)'
        PROVE  \/ status'[cache'[n]] = "loaded"
               \/ \E u \in Threads : \E i \in At(u)' : stack'[u][i].object = cache'[n]
    <3>1. CASE status[cache[n]] = "loaded"
      BY <1>3, <1>5, <1>10, <2>1, <3>1
    <3>2. ASSUME NEW u \in Threads, NEW i \in At(u), stack[u][i].object = cache[n]
          PROVE  i \in At(u)' /\ stack'[u][i].object = cache'[n]
      BY <1>4, <1>10, <2>1, <3>2 DEF Cached
    <3> QED  BY <1>10, <2>1, <3>1, <3>2 DEF VfsInv, AnyInv, CacheInv
  <2>2. \A q \in Objects : q > objects' => status'[q] = "running"
    BY <1>3, <1>4, <1>5 DEF VfsInv, AnyInv, CacheInv, Objects
  <2> QED  BY <2>1, <2>2 DEF CacheInv
<1>14. ASSUME ~overlap PROVE SingleInv'
  <2> SingleInv
    BY <1>14 DEF VfsInv
  <2>1. AloneInv'
    BY <1>1, <1>2, <1>22, CutAlone DEF VfsInv, SingleInv
  <2>2. HandedInv'
    <3> SUFFICES ASSUME NEW v \in Threads, handed'[v] # 0
                 PROVE  /\ status'[handed'[v]] # "failed"
                        /\ \A u \in Threads : \A i \in At(u)' :
                             stack'[u][i].object = handed'[v] => u = v
      BY DEF HandedInv
    <3>1. v # t /\ handed'[v] = handed[v] /\ handed[v] \in Objects /\ handed[v] # 0
      BY <1>3, <1>5, BuiltObjects DEF VfsInv, AnyInv
    <3>2. handed[v] # o
      BY <1>4, <3>1 DEF SingleInv, HandedInv, o
    <3>3. status'[handed'[v]] # "failed"
      BY <1>3, <1>5, <3>1, <3>2 DEF SingleInv, HandedInv
    <3> QED  BY <1>4, <3>1, <3>3 DEF SingleInv, HandedInv
  <2>3. OnDisk(p)
    BY <1>1, <1>4 DEF SingleInv, BodyInv, Running, p
  <2>4. PackageInv'
    <3> SUFFICES ASSUME NEW n \in Names, NEW q \in Names,
                        Cached(n)', Inside(n, q), ~Plain(q)
                 PROVE  Cached(q)'
      BY DEF PackageInv, Inside, Plain
    <3>1. Cached(q)
      BY <1>10 DEF SingleInv, PackageInv
    <3>2. q \notin Dropped(p)
      <4>1. CASE p \in Packages
        BY <1>4, <1>10, <4>1, InsideOrder DEF Dropped
      <4>2. CASE p \notin Packages
        BY <2>3, <4>2 DEF Dropped, OnDisk, Plain
      <4> QED  BY <4>1, <4>2
    <3> QED  BY <1>3, <3>1, <3>2 DEF Cached
  <2>5. ASSUME NEW u \in Threads, NEW i \in At(u)', stack'[u][i].kind = "body"
        PROVE  cache'[stack'[u][i].name] = cache[stack'[u][i].name]
    <3>1. i \in At(u) /\ stack'[u][i] = stack[u][i] /\ (u = t => i # Len(stack[t]))
      BY <1>4
    <3>2. u = t
      BY <1>1, <3>1, OnlyOne DEF VfsInv, AnyInv, SingleInv
    <3>3. Len(stack[t]) \in Nat
      BY <1>1, TopFrame DEF VfsInv, AnyInv
    <3>4. i < Len(stack[t])
      BY <3>1, <3>2, <3>3 DEF At
    <3>5. stack[u][i].name \notin Dropped(p)
      BY <1>1, <1>4, <2>5, <3>1, <3>2, <3>4 DEF SingleInv, BodyInv, Running, p
    <3>6. stack[u][i].name \in Names
      <4>1. stack[u] \in Seq(Frames)
        BY DEF VfsInv, AnyInv, VfsTypeOK
      <4>2. stack[u][i] \in Frames
        BY <3>1, <4>1, ElementOfSeq DEF At
      <4> QED  BY <4>2 DEF Frames
    <3> QED  BY <1>3, <3>1, <3>5, <3>6
  <2>6. BodyInv'
    BY <1>6, <1>7, <2>5, BodiesKept DEF SingleInv
  <2> QED  BY <2>1, <2>2, <2>4, <2>6 DEF SingleInv
<1> QED  BY <1>3, <1>21, <1>7, <1>11, <1>12, <1>13, <1>14 DEF VfsInv, AnyInv

-----------------------------------------------------------------------------
(* The invariant holds throughout.                                         *)
LEMMA Invariant == Spec => []VfsInv
<1>1. Init => VfsInv
  <2> SUFFICES ASSUME Init PROVE VfsInv
    OBVIOUS
  <2>1. \A t \in Threads : stack[t] = <<>> /\ At(t) = {}
    BY DEF Init, At
  <2>2. overlap \in BOOLEAN
    BY DEF Init
  <2>3. VfsTypeOK
    BY <2>2, VfsAssumption DEF Init, VfsTypeOK
  <2>4. FrameInv /\ ChainInv /\ ObjectInv /\ BodyInv
    BY <2>1 DEF FrameInv, ChainInv, ObjectInv, BodyInv
  <2>5. CacheInv /\ HandedInv /\ PackageInv
    BY DEF Init, CacheInv, HandedInv, PackageInv, Cached
  <2>6. AloneInv
    BY <2>1 DEF AloneInv, Found, Back, Busy
  <2> QED  BY <2>3, <2>4, <2>5, <2>6 DEF VfsInv, AnyInv, SingleInv
<1>2. VfsInv /\ [Next]_vars => VfsInv'
  <2> SUFFICES ASSUME VfsInv, [Next]_vars PROVE VfsInv'
    OBVIOUS
  <2>1. CASE Next
    BY <2>1, ImportKeeps, HitKeeps, WantParentKeeps, TurnKeeps, StartKeeps, BareKeeps,
       FinishKeeps, RaiseKeeps DEF Next
  <2>2. CASE UNCHANGED vars
    <3> USE <2>2 DEF vars, At
    <3>1. VfsTypeOK' = VfsTypeOK
      BY DEF VfsTypeOK
    <3>2. (FrameInv' = FrameInv) /\ (ChainInv' = ChainInv) /\ (ObjectInv' = ObjectInv)
      BY DEF FrameInv, ChainInv, ObjectInv
    <3>3. (CacheInv' = CacheInv) /\ (PackageInv' = PackageInv)
      BY DEF CacheInv, PackageInv, Cached
    <3>4. AloneInv' = AloneInv
      BY DEF AloneInv, Busy, Found, Back, Top, Cached, NeedsParent
    <3>5. (HandedInv' = HandedInv) /\ (BodyInv' = BodyInv)
      BY DEF HandedInv, BodyInv
    <3> QED  BY <3>1, <3>2, <3>3, <3>4, <3>5 DEF VfsInv, AnyInv, SingleInv
  <2> QED  BY <2>1, <2>2
<1> QED  BY <1>1, <1>2, PTL DEF Spec

(* The variables keep their types: a frame's name is a name that exists,   *)
(* and no name and no thread has an object that was not built.             *)
THEOREM TypeCorrect == Spec => []VfsTypeOK
  BY Invariant, PTL DEF VfsInv, AnyInv

(* A failed module never stays importable, whatever the threads do; and    *)
(* until two import at once none is handed out and no submodule outlives   *)
(* its package in the cache.                                               *)
THEOREM NoFailedModuleHolds == Spec => []NoFailedModule
<1>1. VfsInv => NoFailedModule
  <2> SUFFICES ASSUME VfsInv PROVE NoFailedModule
    OBVIOUS
  <2>1. \A t \in Threads : DOMAIN stack[t] = At(t)
    BY DEF VfsInv, AnyInv, VfsTypeOK, At
  <2>2. ASSUME ~overlap, NEW n \in Names, Cached(n), Dotted(n)
        PROVE  Cached(Package(n)) \/ Plain(Package(n))
    BY <2>2, PackageInside DEF VfsInv, SingleInv, PackageInv
  <2> QED  BY <2>1, <2>2 DEF VfsInv, AnyInv, SingleInv, CacheInv, HandedInv, NoFailedModule
<1> QED  BY <1>1, Invariant, PTL

(* No module with a file is built twice while it is importable: until two  *)
(* threads import at once, the object of a running body is the one in the  *)
(* cache, also when its package imported it before or imports it again.    *)
THEOREM OneObjectHolds == Spec => []OneObject
<1>1. VfsInv => OneObject
  <2> SUFFICES ASSUME VfsInv PROVE OneObject
    OBVIOUS
  <2>1. \A t \in Threads : DOMAIN stack[t] = At(t)
    BY DEF VfsInv, AnyInv, VfsTypeOK, At
  <2> QED  BY <2>1 DEF VfsInv, SingleInv, BodyInv, OneObject
<1> QED  BY <1>1, Invariant, PTL
=============================================================================
