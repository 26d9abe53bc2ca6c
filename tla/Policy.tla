------------------------------- MODULE Policy -------------------------------
(***************************************************************************)
(* The policy (sandtrap/policy.py) and the gates that read it              *)
(* (sandtrap/gates.py): registrations and the indexes beside them, how a   *)
(* policy reaches a worker, and what may be imported, read and called with *)
(* privileges.  Importing through a gate may load modules, and what is     *)
(* loaded bears on what the gates see.                                     *)
(*                                                                         *)
(* A module goes by its __name__.  A package may bind it under a name of   *)
(* the package's own too, as os binds posixpath under os.path: then it is  *)
(* imported by two names.  The attribute of a package that is a module     *)
(* goes by the dotted name it makes.  Patterns are the sets they match, of *)
(* bare names and of pairs for owner-qualified ones.  Names are public:    *)
(* what is private is like any excluded name.  One privilege, the network, *)
(* stands for the network and the host's files, which are handled alike.   *)
(***************************************************************************)
EXTENDS Integers, Sequences, FiniteSets

CONSTANTS Path,      \* per dotted name, the packages above it and itself
          Module,    \* the module it stands for: itself, or an alias's
          DefinedIn, \* the module that defines the one class there is
          Grants,    \* the registrations hosts make
          MaxGrants  \* bound: registrations made

Names   == DOMAIN Path
Mods    == {n \in Names : Module[n] = n}
Cls     == "Cls"
Inst    == "Inst"                  \* an instance of Cls
Fn      == "fn"                    \* a function every object has
Objects == Mods \cup {Cls, Inst}
Attrs   == Names \cup {Cls, Fn}

Above(n)    == {Path[n][i] : i \in DOMAIN Path[n]}
IsParent(q, n) == Len(Path[n]) > 1 /\ q = Path[n][Len(Path[n]) - 1]

ASSUME PolicyAssumption ==
    /\ \A n \in Names : /\ Path[n] \in Seq(Names) \ {<<>>} /\ Path[n][Len(Path[n])] = n
                        /\ \A i \in DOMAIN Path[n] : Path[Path[n][i]] = SubSeq(Path[n], 1, i)
                        /\ Module[n] \in Mods
    /\ \A n, x \in Names : Module[n] # n => ~IsParent(n, x) /\ ~IsParent(Module[n], x)
    /\ "none" \notin Names /\ DefinedIn \in Mods /\ {Cls, Inst, Fn} \cap Names = {}
    /\ \A g \in Grants : g.obj \in Objects /\ (g.obj = Cls => ~g.recursive)
    /\ MaxGrants \in Nat

(* Importing a name loads the packages that lead to it, and what those     *)
(* bind under names of their own.                                          *)
Brings ==
    [n \in Names |->
        LET Closed(S) == /\ n \in S
                         /\ \A x \in S : Above(x) \cup {Module[x]} \subseteq S
                         /\ \A x \in Names \ Mods : (\E q \in S : IsParent(q, x)) => x \in S
        IN  {x \in Names : \A S \in SUBSET Names : Closed(S) => x \in S}]

Nothing == [bare |-> {}, dotted |-> {}]    \* the pattern that matches nothing
NoReg == [key |-> "none", obj |-> "none", recursive |-> FALSE, include |-> Nothing,
          exclude |-> Nothing, configure |-> {}, network |-> FALSE, portable |-> TRUE]

Procs == {"host", "worker"}

VARIABLES
    policy,   \* per process: [modules, classes, index, rebound]; the dicts are
              \* sequences in insertion order, index is both id()-keyed maps
              \* and rebound a ghost: a key was given again when its object
              \* was another, or had another key too
    loaded,   \* per process: the names loaded, as attributes of packages
    running,  \* whether there is a worker
    fresh,    \* nothing was registered since it was started
    count     \* registrations made

vars == <<policy, loaded, running, fresh, count>>

NoPolicy == [modules |-> <<>>, classes |-> <<>>,
             index |-> [o \in Objects |-> NoReg], rebound |-> FALSE]

Init ==
    /\ policy = [p \in Procs |-> NoPolicy]
    /\ loaded = [p \in Procs |-> {}]
    /\ running = FALSE /\ fresh = FALSE /\ count = 0

---------------------------------------------------------------------------
(* Lookup.                                                                 *)

Regs(d)   == {d[i] : i \in DOMAIN d}
Keys(R)   == {r.key : r \in R}
Get(R, k) == CHOOSE r \in R : r.key = k

(* modules.get() of the closest package above m registered among R.        *)
NearestAbove(R, m) ==
    LET up == {i \in 1..(Len(Path[m]) - 1) : Path[m][i] \in Keys(R)}
    IN  IF up = {} THEN NoReg
        ELSE Get(R, Path[m][CHOOSE i \in up : \A j \in up : j <= i])

(* The first recursive registration, in insertion order, that covers m.    *)
FirstCovering(d, m) ==
    LET cover == {i \in DOMAIN d : d[i].recursive /\ d[i].key \in Above(m)}
    IN  IF cover = {} THEN NoReg ELSE d[CHOOSE i \in cover : \A j \in cover : i <= j]

(* Mutant of FindRegistration: packages are asked outermost first.         *)
FindRegistrationOutermost(P, obj) ==
    IF P.index[obj] # NoReg THEN P.index[obj]
    ELSE IF obj \in Mods THEN FirstCovering(P.modules, obj) ELSE NoReg

(* _find_registration_for                                                  *)
FindRegistration(P, obj) ==
    IF P.index[obj] # NoReg THEN P.index[obj]
    ELSE CASE obj \in Mods -> LET r == NearestAbove(Regs(P.modules), obj)
                              IN  IF r.recursive THEN r ELSE NoReg
           [] obj = Inst   -> IF P.index[Cls] # NoReg THEN P.index[Cls]
                              ELSE FirstCovering(P.modules, DefinedIn)
           [] OTHER        -> NoReg

(* A pattern against a bare name and its owner-qualified forms.            *)
Matches(pattern, name, quals) == name \in pattern.bare \/ quals \cap pattern.dotted # {}
Qualified(obj, attr) == {<<IF obj = Inst THEN Cls ELSE obj, attr>>}

(* getattr(obj, attr) in a process that has loaded L; "none" for nothing.  *)
Value(L, obj, attr) ==
    CASE attr \in Names -> IF attr \in L /\ IsParent(obj, attr) THEN Module[attr] ELSE "none"
      [] attr = Cls     -> IF obj = DefinedIn THEN Cls ELSE "none"
      [] OTHER          -> Fn

(* Mutant of AttrAllowed: a package's submodules are members like others.  *)
AttrAllowedBelow(P, L, obj, attr) ==
    LET r     == FindRegistration(P, obj)
        v     == Value(L, obj, attr)
        known == v \in Objects /\ FindRegistration(P, v) # NoReg
        quals == Qualified(obj, attr)
    IN  \/ r = NoReg
        \/ attr \in r.configure
        \/ IF Matches(r.include, attr, quals)
           THEN ~Matches(r.exclude, attr, quals) ELSE known

(* is_attr_allowed                                                         *)
AttrAllowed(P, L, obj, attr) ==
    LET r     == FindRegistration(P, obj)
        v     == Value(L, obj, attr)
        known == v \in Objects /\ FindRegistration(P, v) # NoReg
        quals == Qualified(obj, attr)
    IN  \/ r = NoReg
        \/ attr \in r.configure
        \/ IF Matches(r.include, attr, quals)
           THEN /\ ~Matches(r.exclude, attr, quals)
                /\ r.recursive \/ v \notin Mods \/ known
           ELSE known

Excluded(r, m) == Matches(r.exclude, m, {<<q, m>> : q \in {x \in Names : IsParent(x, m)}})

(* is_import_allowed                                                       *)
ImportAllowed(P, m) ==
    \/ m \in Keys(Regs(P.modules))
    \/ LET r == NearestAbove(Regs(P.modules), m) IN r.recursive /\ ~Excluded(r, m)

(* The registration from-imports of module m go by: its own, or that of    *)
(* the closest recursive package above it.                                 *)
FromRegistration(P, m) ==
    LET R == Regs(P.modules)
    IN  IF m \in Keys(R) THEN Get(R, m) ELSE NearestAbove({r \in R : r.recursive}, m)

(* resolve_module_member's filters, before anything is resolved            *)
MemberPasses(P, m, attr) ==
    LET r == FromRegistration(P, m)
    IN  /\ ImportAllowed(P, m)
        /\ Matches(r.include, attr, Qualified(m, attr))
        /\ ~Matches(r.exclude, attr, Qualified(m, attr))

(* from m import attr succeeds.                                            *)
FromAllowed(P, m, attr) ==
    /\ MemberPasses(P, m, attr)
    /\ attr = Cls => Module[m] = DefinedIn
    /\ attr \in Names => IsParent(m, attr) /\ ImportAllowed(P, attr)

(* _maybe_wrap_privileged                                                  *)
Privileged(r, attr) == r.network \/ attr \in r.configure

(* __st_getattr__ hands out attr of obj, and lets a call of it have the    *)
(* privilege: setting or deleting one is decided by the first alone.       *)
GivesPrivilege(P, L, obj, attr) ==
    AttrAllowed(P, L, obj, attr) /\ Privileged(FindRegistration(P, obj), attr)

(* Mutant of NeedsNetwork: what is configured for a member is left out.    *)
NeedsNetworkWhole(P) ==
    \E r \in Regs(P.modules) \cup Regs(P.classes) : r.network

(* needs_network, and likewise needs_host_fs                               *)
NeedsNetwork(P) ==
    \E r \in Regs(P.modules) \cup Regs(P.classes) : r.network \/ r.configure # {}

---------------------------------------------------------------------------
(* Registration: Policy.module() and Policy.cls().                         *)

(* d[r.key] = r: a key that is there keeps its place.                      *)
Put(d, r) ==
    IF r.key \in Keys(Regs(d))
    THEN [i \in DOMAIN d |-> IF d[i].key = r.key THEN r ELSE d[i]]
    ELSE Append(d, r)

Rebinds(d, r) ==
    /\ r.key \in Keys(Regs(d))
    /\ \/ Get(Regs(d), r.key).obj # r.obj
       \/ \E x \in Regs(d) : x.obj = r.obj /\ x.key # r.key

(* The host has loaded what it registers.                                  *)
LoadsFor(obj) == Brings[IF obj \in Mods THEN obj ELSE DefinedIn]

Register(g) ==
    /\ count < MaxGrants /\ count' = count + 1
    /\ LET P == policy["host"]
           d == IF g.obj = Cls THEN P.classes ELSE P.modules
           Q == [P EXCEPT !.index[g.obj] = g, !.rebound = @ \/ Rebinds(d, g)]
       IN  policy' = [policy EXCEPT !["host"] =
               IF g.obj = Cls THEN [Q EXCEPT !.classes = Put(d, g)]
                              ELSE [Q EXCEPT !.modules = Put(d, g)]]
    /\ loaded' = [loaded EXCEPT !["host"] = @ \cup LoadsFor(g.obj)]
    /\ fresh' = FALSE /\ UNCHANGED running

(* The host's own code imports a module.                                   *)
HostImports(m) ==
    /\ ~(Brings[m] \subseteq loaded["host"])
    /\ loaded' = [loaded EXCEPT !["host"] = @ \cup Brings[m]]
    /\ UNCHANGED <<policy, running, fresh, count>>

---------------------------------------------------------------------------
(* To a worker.                                                            *)

(* Mutant of Rebuilt: the class index is not built again.                  *)
RebuiltModules(P) ==
    [o \in Objects |->
        LET is == {i \in DOMAIN P.modules : P.modules[i].obj = o}
        IN  IF is = {} THEN NoReg ELSE P.modules[CHOOSE i \in is : \A j \in is : j <= i]]

(* Policy.__setstate__: the indexes from the dicts, the last entry wins.   *)
Rebuilt(P) ==
    [o \in Objects |->
        LET d  == IF o = Cls THEN P.classes ELSE P.modules
            is == {i \in DOMAIN d : d[i].obj = o}
        IN  IF is = {} THEN NoReg ELSE d[CHOOSE i \in is : \A j \in is : j <= i]]

(* check_picklable() has nothing to say.                                   *)
Portable(P) == \A r \in Regs(P.modules) \cup Regs(P.classes) : r.portable

Runs(P, L) ==
    /\ policy' = [policy EXCEPT !["worker"] = P]
    /\ loaded' = [loaded EXCEPT !["worker"] = L]
    /\ running' = TRUE /\ fresh' = TRUE /\ UNCHANGED count

(* A forked worker has the host's memory as it is.                         *)
Forked == Runs(policy["host"], loaded["host"])

(* Any other gets the policy pickled and imports what it names; a policy   *)
(* that cannot be is refused.                                              *)
Sent ==
    LET P == policy["host"]
    IN  /\ Portable(P)
        /\ Runs([P EXCEPT !.index = Rebuilt(P), !.rebound = FALSE],
                UNION {LoadsFor(r.obj) : r \in Regs(P.modules) \cup Regs(P.classes)})

---------------------------------------------------------------------------
(* Sandboxed code, in the host's process or the worker.  A plain import of *)
(* a dotted name binds the top package and loads nothing.                  *)

Here(p) == p = "worker" => running

(* resolve_module: a registered module is at hand, another is loaded with  *)
(* the packages that lead to it.                                           *)
Resolves(P, m) == IF m \in Keys(Regs(P.modules)) THEN {} ELSE Brings[m]

(* A module is loaded once: an import of what is there changes nothing.    *)
Loads(p, ms) ==
    /\ ~(ms \subseteq loaded[p])
    /\ loaded' = [loaded EXCEPT ![p] = @ \cup ms]
    /\ UNCHANGED <<policy, running, fresh, count>>

(* import m as x                                                           *)
StImport(p, m) ==
    /\ Here(p) /\ ImportAllowed(policy[p], m)
    /\ Loads(p, Resolves(policy[p], m))

(* from m import attr: what is not there is loaded first, if it exists,    *)
(* and then asked about.                                                   *)
StImportFrom(p, m, attr) ==
    /\ Here(p) /\ MemberPasses(policy[p], m, attr)
    /\ Loads(p, Resolves(policy[p], m)
                \cup (IF attr \in Names /\ IsParent(m, attr) THEN Brings[attr] ELSE {}))

(* __import__(m, fromlist=[entry]): an entry that is denied or filtered is *)
(* not loaded, and m is.                                                   *)
StDynImport(p, m, entry) ==
    LET P == policy[p]
    IN  /\ Here(p) /\ ImportAllowed(P, m) /\ IsParent(m, entry)
        /\ Loads(p, Resolves(P, m)
                    \cup (IF ImportAllowed(P, entry) /\ MemberPasses(P, m, entry)
                          THEN Brings[entry] ELSE {}))

Next ==
    \/ \E g \in Grants : Register(g)
    \/ \E m \in Names : HostImports(m)
    \/ Forked \/ Sent
    \/ \E p \in Procs, m \in Names :
          \/ StImport(p, m)
          \/ \E attr \in Attrs : StImportFrom(p, m, attr)
          \/ \E entry \in Names : StDynImport(p, m, entry)

Spec == Init /\ [][Next]_vars

---------------------------------------------------------------------------
PolicyTypeOK ==
    /\ policy \in [Procs -> [modules : Seq(Grants), classes : Seq(Grants),
                             index : [Objects -> Grants \cup {NoReg}], rebound : BOOLEAN]]
    /\ loaded \in [Procs -> SUBSET Names]
    /\ running \in BOOLEAN /\ fresh \in BOOLEAN /\ count \in 0..MaxGrants

(* A worker decides every import and every attribute as the host's process *)
(* would with the same modules loaded, however the policy reached it, if   *)
(* nothing was registered since and no key was rebound.                    *)
WorkerDecidesAlike ==
    LET H == policy["host"]  W == policy["worker"]
    IN  running /\ fresh /\ ~H.rebound =>
        /\ \A m \in Names : ImportAllowed(H, m) = ImportAllowed(W, m)
        /\ \A obj \in Objects, attr \in Attrs :
              /\ AttrAllowed(H, loaded["worker"], obj, attr)
                    = AttrAllowed(W, loaded["worker"], obj, attr)
              /\ Privileged(FindRegistration(H, obj), attr)
                    = Privileged(FindRegistration(W, obj), attr)

(* Every module was registered under its own name, no live object is, and  *)
(* no key that was given again left a module under another name behind in  *)
(* the index.                                                              *)
OwnNames(P) ==
    /\ \A r \in Regs(P.modules) : r.obj = r.key
    /\ \A m \in Mods : P.index[m] # NoReg => P.index[m].key = m

(* Two doors: a submodule code can reach by attribute from a registered    *)
(* package it may also import, unless the package configures that member,  *)
(* or excludes it without including it.                                    *)
TraversalMeansImport ==
    \A p \in Procs : OwnNames(policy[p]) =>
        \A q \in Mods, m \in Mods :
            LET r == FindRegistration(policy[p], q)
            IN  /\ r # NoReg /\ Value(loaded[p], q, m) = m /\ m \notin r.configure
                /\ Excluded(r, m) => Matches(r.include, m, Qualified(q, m))
                /\ AttrAllowed(policy[p], loaded[p], q, m)
                => ImportAllowed(policy[p], m)

(* What `from m import attr` gives can be read off the module m stands     *)
(* for, and both grant it the same privileges.                             *)
FromLikeAttribute(p, m, attr) ==
    FromAllowed(policy[p], m, attr) =>
        /\ AttrAllowed(policy[p], loaded[p] \cup Brings[m] \cup ({attr} \cap Names),
                       Module[m], attr)
        /\ Privileged(FindRegistration(policy[p], Module[m]), attr)
              = Privileged(FromRegistration(policy[p], m), attr)

(* The third door, for a module imported by its own name.                  *)
FromMeansAttribute ==
    \A p \in Procs : OwnNames(policy[p]) =>
        \A m \in Mods, attr \in Attrs : FromLikeAttribute(p, m, attr)

(* And for one imported by the name another package gives it ("from        *)
(* os.path import join when only os is registered", __st_importfrom__;     *)
(* "Submodules of a recursive registration inherit the parent's            *)
(* registration (filters included)", _find_registration_for).  Not so: the *)
(* doors go by different names.                                            *)
AliasMeansAttribute ==
    \A p \in Procs : OwnNames(policy[p]) =>
        \A m \in Names, attr \in Attrs : FromLikeAttribute(p, m, attr)

(* A module reached under a name a package gives it can be imported by one *)
(* of its names (TraversalMeansImport, for the names Value has besides).   *)
(* Not so.                                                                 *)
AliasMeansImport ==
    \A p \in Procs : OwnNames(policy[p]) =>
        \A q \in Mods, n \in Names \ Mods :
            LET r == FindRegistration(policy[p], q)
            IN  /\ r # NoReg /\ IsParent(q, n) /\ n \in loaded[p]
                /\ n \notin r.configure
                /\ AttrAllowed(policy[p], loaded[p], q, n)
                => \E k \in Names : Module[k] = Module[n] /\ ImportAllowed(policy[p], k)

(* Nothing is called with a privilege the kernel was not told the policy   *)
(* needs, unless a key was rebound in this process or the one it was       *)
(* forked from.                                                            *)
PrivilegesDeclared ==
    \A p \in Procs, obj \in Objects, attr \in Attrs :
        ~policy[p].rebound /\ GivesPrivilege(policy[p], loaded[p], obj, attr)
            => NeedsNetwork(policy[p])
=============================================================================
