------------------------------ MODULE MCPolicy ------------------------------
(***************************************************************************)
(* A package a with a subpackage a.b and its module a.b.c, and a class     *)
(* that a.b defines.  And a module p, which a binds under a.p.             *)
(***************************************************************************)
EXTENDS Policy, TLC

MCPath == "a" :> <<"a">> @@ "ab" :> <<"a", "ab">> @@ "abc" :> <<"a", "ab", "abc">>
          @@ "ap" :> <<"a", "ap">> @@ "p" :> <<"p">>
MCModule == [n \in DOMAIN MCPath |-> IF n = "ap" THEN "p" ELSE n]

Bare(names) == [bare |-> names, dotted |-> {}]
All == Bare({"a", "ab", "abc", "ap", "Cls", "fn"})
Unfiltered == [include |-> All, exclude |-> Nothing]

(* Everything; one bare name; everything but a bare name; everything but   *)
(* qualified ones.  And one that excludes a name it does not include.      *)
OnlyFn == [include |-> Bare({"fn"}), exclude |-> Nothing]
SkipsPackage == [include |-> All, exclude |-> Bare({"ab"})]
SkipsMembers == [include |-> All, exclude |-> [Nothing EXCEPT !.dotted = {<<"a", "fn">>, <<"ab", "abc">>}]]
FnNotPackage == [include |-> Bare({"fn"}), exclude |-> Bare({"ab"})]

Grant(key, obj, recursive, f, configure, network) ==
    [key |-> key, obj |-> obj, recursive |-> recursive, include |-> f.include,
     exclude |-> f.exclude, configure |-> configure, network |-> network,
     portable |-> obj # "Inst"]

(* Modules with each filter, recursive or not; with the network, or for a  *)
(* configured member; the class, under two names; a live object under its  *)
(* own name and under a module's, which another module is given too.       *)
MCGrants ==
    {Grant("a", "a", rec, f, {}, FALSE) : rec \in BOOLEAN, f \in {Unfiltered, OnlyFn, SkipsMembers}}
    \cup {Grant("a", "a", TRUE, SkipsPackage, {}, FALSE), Grant("ab", "ab", TRUE, SkipsMembers, {}, FALSE),
          Grant("ab", "ab", FALSE, Unfiltered, {}, FALSE)}
    \cup {Grant("a", "a", TRUE, FnNotPackage, {}, FALSE), Grant("ab", "a", FALSE, OnlyFn, {}, FALSE)}
    \cup {Grant("abc", "abc", FALSE, Unfiltered, {}, FALSE), Grant("p", "p", FALSE, OnlyFn, {}, FALSE)}
    \cup {Grant(m, m, TRUE, Unfiltered, {}, TRUE) : m \in {"a", "ab"}}
    \cup {Grant("a", "a", FALSE, OnlyFn, {"ab"}, FALSE), Grant("ab", "ab", FALSE, OnlyFn, {"fn"}, FALSE)}
    \cup {Grant(k, "Cls", FALSE, Unfiltered, {}, k = "Cls2") : k \in {"Cls", "Cls2"}}
    \cup {Grant(k, "Inst", FALSE, Unfiltered, {}, TRUE) : k \in {"live", "ab"}}
=============================================================================
