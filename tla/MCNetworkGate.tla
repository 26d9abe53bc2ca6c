--------------------------- MODULE MCNetworkGate ---------------------------
(* NetworkGate with host threads and socket functions interchangeable.     *)
EXTENDS NetworkGate, TLC

Interchangeable == Permutations(HostThreads) \cup Permutations(Methods)
=============================================================================
