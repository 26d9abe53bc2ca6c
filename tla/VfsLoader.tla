----------------------------- MODULE VfsLoader ------------------------------
(***************************************************************************)
(* _VFSLoader of sandtrap/gates.py: modules imported from the sandbox's    *)
(* filesystem, cached before their body runs so that a circular import     *)
(* finds them, and dropped when the body raises.                           *)
(*                                                                         *)
(* The code and the bodies of modules import what they like and fail when  *)
(* they like; a body that imports may catch the failure and go on.  The    *)
(* frames of resolve_module and _package are a stack: "want" has yet to    *)
(* look in the cache; "back" found nothing there and waits for its parent  *)
(* package, or has it back; "found" has looked again and reads the source; *)
(* "body" runs it and waits for what it imports.  The loader is shared, without a lock, by the threads the code starts; one   *)
(* may come in between another's look at the cache and its entry there.    *)
(***************************************************************************)
EXTENDS Naturals, Sequences, FiniteSets

CONSTANTS Threads,   \* the threads of one execution's code
          Names,     \* dotted module names, as sequences of their parts
          Packages,  \* the names with an __init__.py
          Modules,   \* the names with a .py file
          MaxObject, \* bound: module objects built
          MaxFrames  \* bound: frames on the stacks of all threads

ASSUME VfsAssumption ==
    /\ \A n \in Names : n \in Seq(STRING) /\ Len(n) > 0
    /\ \A n \in Names : Len(n) > 1 => SubSeq(n, 1, Len(n) - 1) \in Names
    /\ Packages \subseteq Names /\ Modules \subseteq Names
    /\ MaxObject \in Nat /\ MaxFrames \in Nat

VARIABLES
    cache,   \* _cache: name -> object, 0 for absent
    stack,   \* per thread, the frames of resolve_module, the latest last
    objects, \* objects built so far; the number of the latest
    status,  \* per object: "running", "loaded" or "failed"
    handed,  \* per thread, what its latest resolve_module gave, 0 for None and
             \* while one is under way
    overlap  \* ghost: a thread began to import while another was importing

vars == <<cache, stack, objects, status, handed, overlap>>

Objects == 1..MaxObject
Dotted(n)  == Len(n) > 1
Package(n) == SubSeq(n, 1, Len(n) - 1)
Cached(n) == cache[n] # 0
Busy(t)  == stack[t] # <<>>
Top(t)   == stack[t][Len(stack[t])]
Under(t) == SubSeq(stack[t], 1, Len(stack[t]) - 1)
Becomes(t, frames) == stack' = [stack EXCEPT ![t] = frames]
Hands(t, o) == handed' = [handed EXCEPT ![t] = o]

Frames == [kind : {"want", "back", "found", "body"}, name : Names,
           object : 0..MaxObject, package : BOOLEAN]

VfsTypeOK ==
    /\ cache \in [Names -> 0..objects] /\ objects \in 0..MaxObject
    /\ status \in [Objects -> {"running", "loaded", "failed"}]
    /\ handed \in [Threads -> 0..objects] /\ overlap \in BOOLEAN
    /\ stack \in [Threads -> Seq(Frames)]

Init ==
    /\ cache = [n \in Names |-> 0]
    /\ stack = [t \in Threads |-> <<>>] /\ objects = 0
    /\ status = [o \in Objects |-> "running"]
    /\ handed = [t \in Threads |-> 0] /\ overlap = FALSE

Frame(kind, n, o, pkg) == [kind |-> kind, name |-> n, object |-> o, package |-> pkg]

Room == Cardinality({x \in Threads \X (1..MaxFrames) : x[2] \in DOMAIN stack[x[1]]}) < MaxFrames

(* The code, or the body now running, imports a name.                      *)
Import(t, n) ==
    /\ Busy(t) => Top(t).kind = "body"
    /\ Room
    /\ Becomes(t, Append(stack[t], Frame("want", n, 0, FALSE)))
    /\ Hands(t, 0)
    /\ overlap' = (overlap \/ \E u \in Threads \ {t} : Busy(u))
    /\ UNCHANGED <<cache, objects, status>>

Wants(t) == Busy(t) /\ Top(t).kind = "want"

(* In the cache, loaded or partly built: returned as it is.                *)
Hit(t) ==
    /\ Wants(t) /\ Cached(Top(t).name)
    /\ Hands(t, cache[Top(t).name])
    /\ Becomes(t, Under(t))
    /\ UNCHANGED <<cache, objects, status, overlap>>

OnDisk(n) == n \in Packages \cup Modules

(* A .py file alone; a package comes first when there are both.            *)
Plain(n) == n \in Modules \ Packages

(* Not on the filesystem: None, an ImportError to the importer.            *)
Missing(t) ==
    /\ Wants(t) /\ ~Cached(Top(t).name) /\ ~OnDisk(Top(t).name) /\ ~Top(t).package
    /\ Hands(t, 0)
    /\ Becomes(t, Under(t))
    /\ UNCHANGED <<cache, objects, status, overlap>>

(* A dotted name's package is built first, top down.                       *)
NeedsParent(n) == Dotted(n) /\ ~Cached(Package(n))

Waiting(t) == Append(Under(t), [Top(t) EXCEPT !.kind = "back"])

Misses(t) ==
    /\ Wants(t) /\ ~Cached(Top(t).name)
    /\ OnDisk(Top(t).name) \/ Top(t).package

WantParent(t) ==
    /\ Misses(t) /\ NeedsParent(Top(t).name)
    /\ Room
    /\ Becomes(t, Append(Waiting(t), Frame("want", Package(Top(t).name), 0, TRUE)))
    /\ UNCHANGED <<cache, objects, status, handed, overlap>>

HasParent(t) ==
    /\ Misses(t) /\ ~NeedsParent(Top(t).name)
    /\ Becomes(t, Waiting(t))
    /\ UNCHANGED <<cache, objects, status, handed, overlap>>

Back(t) == Busy(t) /\ Top(t).kind = "back"

(* resolve_module looks in the cache again: the parent's __init__ may have *)
(* imported it.                                                            *)
HitBack(t) ==
    /\ Back(t) /\ OnDisk(Top(t).name) /\ Cached(Top(t).name)
    /\ Hands(t, cache[Top(t).name])
    /\ Becomes(t, Under(t))
    /\ UNCHANGED <<cache, objects, status, overlap>>

(* It is still not in the cache: on to its source.                         *)
Find(t) ==
    /\ Back(t) /\ OnDisk(Top(t).name) /\ ~Cached(Top(t).name)
    /\ Becomes(t, Append(Under(t), [Top(t) EXCEPT !.kind = "found"]))
    /\ UNCHANGED <<cache, objects, status, handed, overlap>>

Found(t) == Busy(t) /\ Top(t).kind = "found"

(* Mutant of Build: the module is cached only once its body is done.       *)
BuildLater(n, o) == UNCHANGED cache

(* A module is cached before its body runs.                                *)
Build(n, o) == cache' = [cache EXCEPT ![n] = o]

(* The module object is cached, and its body starts.                       *)
Start(t) ==
    /\ Found(t) /\ objects < MaxObject
    /\ objects' = objects + 1
    /\ Build(Top(t).name, objects + 1)
    /\ Becomes(t, Append(Under(t), Frame("body", Top(t).name, objects + 1, FALSE)))
    /\ UNCHANGED <<status, handed, overlap>>

(* A directory without __init__.py: _package builds a bare package,        *)
(* complete at once.  It does not look in the cache again, so one the      *)
(* package above imported meanwhile is built a second time.                *)
Bare(t) ==
    /\ Back(t) /\ ~OnDisk(Top(t).name) /\ objects < MaxObject
    /\ objects' = objects + 1
    /\ Build(Top(t).name, objects + 1)
    /\ status' = [status EXCEPT ![objects + 1] = "loaded"]
    /\ Hands(t, objects + 1)
    /\ Becomes(t, Under(t))
    /\ UNCHANGED overlap

Running(t) == Busy(t) /\ Top(t).kind = "body"

(* The body finished: the module is bound on its parent and returned.      *)
Finish(t) ==
    /\ Running(t)
    /\ status' = [status EXCEPT ![Top(t).object] = "loaded"]
    /\ Hands(t, Top(t).object)
    /\ Becomes(t, Under(t))
    /\ UNCHANGED <<cache, objects, overlap>>

(* n is the package p, or inside it: its dotted name begins with p's.      *)
Inside(n, p) == Len(p) <= Len(n) /\ SubSeq(n, 1, Len(p)) = p

(* Mutant of Dropped: a failed package leaves its submodules.              *)
DroppedAlone(p) == {p}

(* Mutant of Dropped: the failed module stays.                             *)
DroppedNone(p) == {}

(* What a body that raises takes out of the cache.                         *)
Dropped(p) == IF p \in Packages THEN {n \in Names : Inside(n, p)} ELSE {p}

(* The stack once an exception reached the importer: the frames directly   *)
(* below that only waited for this package are gone with it.               *)
Unwound(t) ==
    LET bodies == {i \in 1..(Len(stack[t]) - 1) : stack[t][i].kind = "body"}
    IN  IF bodies = {} THEN <<>>
        ELSE SubSeq(stack[t], 1, CHOOSE i \in bodies : \A j \in bodies : j <= i)

(* The body raised: an error of its own, a failed import, a checkpoint.    *)
Raise(t) ==
    /\ Running(t)
    /\ status' = [status EXCEPT ![Top(t).object] = "failed"]
    /\ cache' = [n \in Names |-> IF n \in Dropped(Top(t).name) THEN 0 ELSE cache[n]]
    /\ Becomes(t, Unwound(t))
    /\ Hands(t, 0)
    /\ UNCHANGED <<objects, overlap>>

Next ==
    \E t \in Threads :
        \/ \E n \in Names : Import(t, n)
        \/ Hit(t) \/ Missing(t) \/ WantParent(t) \/ HasParent(t) \/ HitBack(t)
        \/ Find(t) \/ Start(t) \/ Bare(t) \/ Finish(t) \/ Raise(t)

Spec == Init /\ [][Next]_vars

-----------------------------------------------------------------------------
(* A failed module never stays importable: what the cache holds is loaded, *)
(* or its body is running, whatever the threads do.  And unless threads    *)
(* import at the same time none is handed out, and no submodule is left    *)
(* importable past a package that failed: a cached name's package is       *)
(* cached too, so "import a.b" finds "a" to bind.  (Not when "a" is a      *)
(* plain a.py beside a directory a/: it is no package and drops itself     *)
(* alone.)                                                                 *)
NoFailedModule ==
    /\ \A n \in Names : Cached(n) =>
          \/ status[cache[n]] = "loaded"
          \/ \E t \in Threads : \E i \in DOMAIN stack[t] : stack[t][i].object = cache[n]
    /\ ~overlap =>
          /\ \A t \in Threads : handed[t] # 0 => status[handed[t]] # "failed"
          /\ \A n \in Names : Cached(n) /\ Dotted(n) =>
                Cached(Package(n)) \/ Plain(Package(n))

(* No module with a file is built twice while it is importable: a running  *)
(* body's object is the one in the cache, however its package and its      *)
(* imports import it again, unless threads import at the same time.        *)
OneObject ==
    ~overlap => \A t \in Threads : \A i \in DOMAIN stack[t] :
        stack[t][i].kind = "body" => cache[stack[t][i].name] = stack[t][i].object

(* "import pkg.mod must bind pkg ... with pkg.mod attached as an attribute" *)
(* (ensure_package_chain): what was attached to a package stays, so a       *)
(* cached package is never replaced by another.  One without __init__.py    *)
(* is, when the package above it imports a module inside it.                *)
PackagesStay ==
    [][~overlap' => \A n \in Names : Cached(n) => cache'[n] \in {cache[n], 0}]_vars
=============================================================================
