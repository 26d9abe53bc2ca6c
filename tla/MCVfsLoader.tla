---------------------------- MODULE MCVfsLoader -----------------------------
(* A small workspace: package "a" with an __init__.py and its bare         *)
(* subdirectory "c" holding "d"; and a top-level module m.py beside a      *)
(* directory m that holds "x".                                             *)
EXTENDS VfsLoader, TLC

MCNames    == {<<"a">>, <<"a", "c">>, <<"a", "c", "d">>, <<"m">>, <<"m", "x">>}
MCPackages == {<<"a">>}
MCModules  == {<<"a", "c", "d">>, <<"m">>, <<"m", "x">>}

Interchangeable == Permutations(Threads)
=============================================================================
