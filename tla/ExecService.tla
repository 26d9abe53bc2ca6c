---------------------------- MODULE ExecService ----------------------------
(***************************************************************************)
(* What an embedder may rely on from a ProcessSandbox, workers left out:   *)
(* executions are accepted between entering and shutdown, one at a time;   *)
(* each is answered with an outcome of its own, and no outcome, a crash    *)
(* included, takes the sandbox out of the entered state.  The worker is    *)
(* never replaced under an execution.                                      *)
(*                                                                         *)
(* An exception may cut a wait short.  From then until the sandbox starts  *)
(* another worker an answer may be that of an earlier execution, and no    *)
(* worker is counted.                                                      *)
(***************************************************************************)
EXTENDS Naturals

VARIABLES entered,     \* exec() is accepted
          pending,     \* an execution is out
          turn,        \* its number, or the number of the latest one
          last,        \* how the latest exec() ended
          generation,  \* workers counted so far
          disturbed,   \* a wait was cut short, and its worker is still in use
          gone         \* the embedding process is dead

svars == <<entered, pending, turn, last, generation, disturbed, gone>>

SInit ==
    /\ entered = FALSE /\ pending = FALSE /\ gone = FALSE /\ disturbed = FALSE
    /\ turn = 0 /\ generation = 0
    /\ last = [turn |-> 0, kind |-> "none", of |-> 0]

Raised == [turn |-> turn, kind |-> "raised", of |-> turn]

(* The context is entered, or an entry failed, or shutdown() was called,   *)
(* or a worker was started for one of these or for an exec().              *)
EnterOrLeave ==
    /\ ~gone /\ ~pending
    /\ entered' \in BOOLEAN
    /\ UNCHANGED disturbed \/ disturbed' = FALSE
    /\ UNCHANGED <<pending, turn, last, generation, gone>>

Call ==
    /\ ~gone /\ entered /\ ~pending
    /\ pending' = TRUE /\ turn' = turn + 1
    /\ UNCHANGED <<entered, last, generation, disturbed, gone>>

(* The execution that is out ends, with an outcome of its own.             *)
Answer ==
    /\ ~gone /\ pending
    /\ pending' = FALSE
    /\ last' \in [turn : {turn},
                  kind : {"Result", "WorkerError", "died", "unresponsive"},
                  of : IF disturbed THEN Nat ELSE {turn}]
    /\ UNCHANGED <<entered, turn, generation, disturbed, gone>>

(* exec() raises with nothing out: no worker could be had for it.          *)
Refuse ==
    /\ ~gone /\ ~pending /\ entered
    /\ turn' \in {turn, turn + 1} /\ last' = Raised'
    /\ UNCHANGED <<entered, pending, generation, disturbed, gone>>

(* An exception leaves an exec() or an entry, or a shutdown().             *)
Interrupt ==
    /\ ~gone
    /\ disturbed' = TRUE /\ pending' = FALSE
    /\ \/ entered /\ UNCHANGED entered /\ last' = Raised
       \/ ~pending /\ entered' = FALSE /\ UNCHANGED last
    /\ UNCHANGED <<turn, generation, gone>>

NewWorker ==
    /\ ~gone /\ ~pending /\ entered /\ ~disturbed
    /\ generation' = generation + 1
    /\ UNCHANGED <<entered, pending, turn, last, disturbed, gone>>

Die ==
    /\ gone' = TRUE /\ pending' = FALSE
    /\ UNCHANGED <<entered, turn, last, generation, disturbed>>

SNext == EnterOrLeave \/ Call \/ Answer \/ Refuse \/ Interrupt \/ NewWorker \/ Die

SSpec == SInit /\ [][SNext]_svars
=============================================================================
