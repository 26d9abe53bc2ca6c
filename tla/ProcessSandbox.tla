--------------------------- MODULE ProcessSandbox ---------------------------
(***************************************************************************)
(* One ProcessSandbox of sandtrap/process/sandbox.py, the worker of        *)
(* sandtrap/process/worker.py it drives, the two directions of the pipe    *)
(* between them, and a second host thread that calls cancel().             *)
(*                                                                         *)
(* The embedder's thread runs one call at a time; hpc says where in that   *)
(* call it is.  The worker is one process (one thread reading the pipe);   *)
(* wpc says where in worker_main it is.  Any step of one may fall between  *)
(* any two steps of the others, and the worker may die at every step.      *)
(*                                                                         *)
(* Source text, namespaces and values are abstracted away: a message       *)
(* carries the number of the execution it belongs to, and a call to the    *)
(* host the number that stands for its call_id.  Time is abstracted to     *)
(* "may have passed": a deadline is a step the host may take.              *)
(***************************************************************************)
EXTENDS Naturals, Sequences

CONSTANTS MaxTurn,        \* bound: executions sent to a worker
          MaxSpawn,       \* bound: workers started
          MaxCall,        \* bound: calls a worker makes to the host
          MaxCancel,      \* bound: calls of cancel()
          Isolation,      \* the isolation argument: "auto" or "none"
          AllowDegraded,  \* the allow_degraded argument
          HasHook,        \* whether on_worker_start was given
          MaxInterrupt    \* bound: exceptions (Ctrl-C, an alarm) that land
                          \* in the embedder's thread while it waits

ASSUME ConstantsAssumption ==
    /\ MaxTurn \in Nat /\ MaxSpawn \in Nat
    /\ MaxCall \in Nat /\ MaxCancel \in Nat
    /\ Isolation \in {"auto", "none"}
    /\ AllowDegraded \in BOOLEAN /\ HasHook \in BOOLEAN
    /\ MaxInterrupt \in Nat

VARIABLES
    hpc,        \* where the embedder's thread is
    caller,     \* which call made _ensure_worker start a worker
    started,    \* _started
    process,    \* _process: 0 for None, else the number of the worker
    conn,       \* _conn: 0 for None, else the worker at its other end
    generation, \* _generation
    hook,       \* _in_start_hook
    paused,     \* paused_at is not None, in _await_result
    turn,       \* executions sent so far; the number of the latest
    last,       \* how the latest exec() ended
    spawned,    \* workers created so far; the number of the latest
    wpc,        \* where that worker is
    wturn,      \* the execution it is running, or ran last
    wstatus,    \* what apply_isolation could do there
    wflag,      \* its CancelFlag
    prepared,   \* its start is complete: verified, and the hook returned
    calls,      \* calls to the host it has made
    toWorker,   \* the pipe, parent to worker
    toParent,   \* the pipe, worker to parent
    cpc,        \* where the cancelling thread is in cancel()
    cancels,    \* calls of cancel() so far
    cancelled,  \* the executions that were outstanding when SIGUSR1 arrived
    fault,      \* what a step did that its documentation rules out
    interrupts, \* exceptions that landed in a wait so far
    disturbed   \* an exception cut a wait short, and the worker of that wait
                \* has not been replaced since

hostVars   == <<hpc, caller, started, process, conn, generation, hook,
                paused, turn, last>>
workerVars == <<spawned, wpc, wturn, wstatus, wflag, prepared, calls>>
pipeVars   == <<toWorker, toParent>>
cancelVars == <<cpc, cancels, cancelled, fault, interrupts, disturbed>>
vars       == <<hostVars, workerVars, pipeVars, cancelVars>>

Statuses == {"applied", "degraded", "missing"}

ParentMsgs == [type : {"Exec"}, turn : 1..MaxTurn, call : {0}]
         \cup [type : {"RpcReturn"}, turn : 1..MaxTurn, call : 1..MaxCall]
         \cup [type : {"Shutdown"}, turn : {0}, call : {0}]

WorkerMsgs == [type : {"Ready"}, turn : {0}, call : {0}]
         \cup [type : {"Result", "WorkerError"}, turn : 0..MaxTurn, call : {0}]
         \cup [type : {"HostTimeOn", "HostTimeOff"}, turn : 1..MaxTurn, call : {0}]
         \cup [type : {"RpcCall"}, turn : 1..MaxTurn, call : 1..MaxCall]

Msg(type, t, c) == [type |-> type, turn |-> t, call |-> c]

HostPoints   == {"idle", "ready", "hook", "send", "await", "rpc", "join", "gone"}
WorkerPoints == {"none", "init", "loop", "setup", "code", "rpc", "result",
                 "closing", "dead"}
Endings      == {"none", "Result", "WorkerError", "died", "unresponsive", "raised"}

TypeOK ==
    /\ hpc \in HostPoints
    /\ caller \in {"enter", "exec"}
    /\ started \in BOOLEAN /\ hook \in BOOLEAN /\ paused \in BOOLEAN
    /\ process \in 0..MaxSpawn /\ conn \in 0..MaxSpawn
    /\ generation \in 0..MaxSpawn /\ spawned \in 0..MaxSpawn
    /\ turn \in 0..MaxTurn /\ wturn \in 0..MaxTurn
    /\ last \in [turn : 0..MaxTurn, kind : Endings, of : 0..MaxTurn]
    /\ wpc \in WorkerPoints
    /\ wstatus \in Statuses
    /\ wflag \in BOOLEAN /\ prepared \in BOOLEAN
    /\ calls \in 0..MaxCall
    /\ toWorker \in Seq(ParentMsgs) /\ toParent \in Seq(WorkerMsgs)
    /\ cpc \in {"off", "some", "alive"}
    /\ cancels \in 0..MaxCancel
    /\ cancelled \in SUBSET (1..MaxTurn)
    /\ fault \in {"none", "cancelRaised", "cancelKilled"}
    /\ interrupts \in 0..MaxInterrupt /\ disturbed \in BOOLEAN

Init ==
    /\ hpc = "idle" /\ caller = "enter"
    /\ started = FALSE /\ hook = FALSE /\ paused = FALSE
    /\ process = 0 /\ conn = 0 /\ generation = 0
    /\ turn = 0 /\ last = [turn |-> 0, kind |-> "none", of |-> 0]
    /\ spawned = 0 /\ wpc = "none" /\ wturn = 0
    /\ wstatus = "missing" /\ wflag = FALSE /\ prepared = FALSE /\ calls = 0
    /\ toWorker = <<>> /\ toParent = <<>>
    /\ cpc = "off" /\ cancels = 0 /\ cancelled = {} /\ fault = "none"
    /\ interrupts = 0 /\ disturbed = FALSE

Alive     == wpc \notin {"none", "dead"}
Executing == wpc \in {"setup", "code", "rpc", "result"}

-----------------------------------------------------------------------------
(* The host side.                                                          *)

(* Process.is_alive() of the handle the sandbox holds.                     *)
IsAlive == process # 0 /\ process = spawned /\ Alive

(* _cleanup: the connection is closed and both handles are dropped.        *)
Cleanup == conn' = 0 /\ process' = 0

(* Mutants of Kill: the worker is left as it is; the handle is dropped and *)
(* the worker left running.                                                *)
KillSpares  == UNCHANGED <<wpc, conn, process>>
KillForgets == Cleanup /\ UNCHANGED wpc

(* _kill: SIGKILL and join when the worker is alive, then _cleanup.        *)
Kill == /\ wpc' = IF IsAlive THEN "dead" ELSE wpc
        /\ Cleanup

(* Mutant of StartRaises: a failed start always closes the sandbox.        *)
StartRaisesCloses ==
    /\ hpc' = "idle"
    /\ started' = FALSE
    /\ last' = IF caller = "enter" THEN last
               ELSE [turn |-> turn, kind |-> "raised", of |-> turn]

(* A worker start that failed: __enter__ takes _started back, exec() lets  *)
(* the exception out and leaves the sandbox entered.                       *)
StartRaises ==
    /\ hpc' = "idle"
    /\ started' = IF caller = "enter" THEN FALSE ELSE started
    /\ last' = IF caller = "enter" THEN last
               ELSE [turn |-> turn, kind |-> "raised", of |-> turn]

(* An exec() ends; inside the start hook control goes back to the hook.    *)
Return(kind, of) ==
    /\ hpc' = IF hook THEN "hook" ELSE "idle"
    /\ last' = [turn |-> turn, kind |-> kind, of |-> of]
    /\ paused' = FALSE

(* The part of _ensure_worker that creates a worker: a new pipe, a new     *)
(* process, the parent's end kept.  What apply_isolation will manage in    *)
(* it is the platform's doing.                                             *)
Spawn(by) ==
    /\ spawned < MaxSpawn
    /\ spawned' = spawned + 1 /\ process' = spawned + 1 /\ conn' = spawned + 1
    /\ toWorker' = <<>> /\ toParent' = <<>>
    /\ wpc' = "init" /\ wturn' = 0 /\ wflag' = FALSE /\ prepared' = FALSE
    /\ wstatus' \in Statuses
    /\ hpc' = "ready" /\ caller' = by /\ disturbed' = FALSE
    /\ UNCHANGED <<generation, hook, paused, turn, last, calls>>

(* Pipe() or Process.start() raised: nothing is kept of the attempt.       *)
SpawnFails(by) ==
    /\ Cleanup
    /\ hpc' = "idle"
    /\ started' = IF by = "enter" THEN FALSE ELSE started
    /\ last' = IF by = "enter" THEN last
               ELSE [turn |-> turn, kind |-> "raised", of |-> turn]
    /\ UNCHANGED <<caller, generation, hook, paused, turn, disturbed>>
    /\ UNCHANGED <<workerVars, pipeVars>>

(* __enter__: _started first, then _ensure_worker, which returns at once   *)
(* when the worker it holds is alive.                                      *)
Enter ==
    /\ hpc = "idle"
    /\ \/ /\ IsAlive
          /\ started' = TRUE
          /\ UNCHANGED <<hpc, caller, process, conn, generation, hook, paused,
                         turn, last, workerVars, pipeVars, disturbed>>
       \/ ~IsAlive /\ started' = TRUE /\ Spawn("enter")
       \/ ~IsAlive /\ SpawnFails("enter")
    /\ UNCHANGED <<cpc, cancels, cancelled, fault, interrupts>>

(* exec() up to the send: refused unless entered (that refusal changes     *)
(* nothing), then _ensure_worker replaces a worker found dead.             *)
Exec ==
    /\ hpc = "idle" /\ started /\ turn < MaxTurn
    /\ \/ /\ IsAlive
          /\ hpc' = "send"
          /\ UNCHANGED <<caller, started, process, conn, generation, hook,
                         paused, turn, last, workerVars, pipeVars, disturbed>>
       \/ ~IsAlive /\ UNCHANGED started /\ Spawn("exec")
       \/ ~IsAlive /\ SpawnFails("exec")
    /\ UNCHANGED <<cpc, cancels, cancelled, fault, interrupts>>

(* exec(): the ExecMsg is written.  A worker that died since _ensure_worker*)
(* looked leaves a broken pipe, and the write raises out of exec().        *)
SendExec ==
    /\ hpc = "send"
    /\ turn' = turn + 1
    /\ IF IsAlive
       THEN /\ toWorker' = Append(toWorker, Msg("Exec", turn + 1, 0))
            /\ hpc' = "await" /\ paused' = FALSE
            /\ UNCHANGED last
       ELSE /\ hpc' = IF hook THEN "hook" ELSE "idle"
            /\ last' = [turn |-> turn + 1, kind |-> "raised", of |-> turn + 1]
            /\ UNCHANGED <<toWorker, paused>>
    /\ UNCHANGED <<caller, started, process, conn, generation, hook, toParent>>
    /\ UNCHANGED <<workerVars, cancelVars>>

(* _ensure_worker waits for the first message and got none in time, or the *)
(* worker died without one: it is killed and the start raises.             *)
ReadyFails ==
    /\ hpc = "ready" /\ toParent = <<>>
    /\ Kill /\ StartRaises
    /\ UNCHANGED <<caller, generation, hook, paused, turn, spawned, wturn,
                   wstatus, wflag, prepared, calls, pipeVars, cancelVars>>

(* Where a completed start goes on: __enter__ returns, exec() sends.       *)
AfterStart == IF caller = "enter" THEN "idle" ELSE "send"

(* Mutant of VerifyIsolation: a missing status passes.                     *)
VerifyIsolationTrusts ==
    \/ Isolation # "auto"
    \/ wstatus # "degraded"
    \/ AllowDegraded

(* _verify_isolation: what the worker reported is acceptable.              *)
VerifyIsolation ==
    \/ Isolation # "auto"
    \/ wstatus = "applied"
    \/ AllowDegraded

(* The number of the worker whose start is accepted.                       *)
NextGeneration == generation + 1

(* The first message: a failure report or an isolation the sandbox refuses *)
(* ends the start; an acceptable one counts the worker and runs the hook,  *)
(* if there is one, before anything else reaches the worker.               *)
RecvReady ==
    /\ hpc = "ready" /\ toParent # <<>>
    /\ toParent' = Tail(toParent)
    /\ IF Head(toParent).type = "Ready" /\ VerifyIsolation
       THEN /\ generation' = NextGeneration
            /\ hook' = HasHook
            /\ prepared' = ~HasHook
            /\ hpc' = IF HasHook THEN "hook" ELSE AfterStart
            /\ UNCHANGED <<started, process, conn, last, wpc>>
       ELSE /\ Kill /\ StartRaises
            /\ UNCHANGED <<generation, hook, prepared>>
    /\ UNCHANGED <<caller, paused, turn, spawned, wturn, wstatus, wflag, calls,
                   toWorker, cancelVars>>

(* The hook calls exec() on the worker it prepares.  On a dead worker that *)
(* call raises into the hook and changes nothing.  (Bound: an execution is *)
(* kept for the exec() that started the worker.)                           *)
HookExec ==
    /\ hpc = "hook" /\ IsAlive
    /\ turn + (IF caller = "exec" THEN 1 ELSE 0) < MaxTurn
    /\ hpc' = "send"
    /\ UNCHANGED <<caller, started, process, conn, generation, hook, paused,
                   turn, last, workerVars, pipeVars, cancelVars>>

(* _run_start_hook: the hook returned.  The start stands only if the       *)
(* worker is still alive.                                                  *)
HookReturns ==
    /\ hpc = "hook"
    /\ hook' = FALSE
    /\ IF IsAlive
       THEN /\ prepared' = TRUE
            /\ hpc' = AfterStart
            /\ UNCHANGED <<started, process, conn, last, wpc>>
       ELSE Kill /\ StartRaises /\ UNCHANGED prepared
    /\ UNCHANGED <<caller, generation, paused, turn, spawned, wturn, wstatus,
                   wflag, calls, pipeVars, cancelVars>>

(* _run_start_hook: the hook raised; the worker goes with it.              *)
HookRaises ==
    /\ hpc = "hook"
    /\ hook' = FALSE
    /\ Kill /\ StartRaises
    /\ UNCHANGED <<caller, generation, paused, turn, spawned, wturn, wstatus,
                   wflag, prepared, calls, pipeVars, cancelVars>>

(* _await_result: the deadline passed with the worker's clock running.     *)
Unresponsive ==
    /\ hpc = "await" /\ ~paused
    /\ Kill /\ Return("unresponsive", turn)
    /\ UNCHANGED <<caller, started, generation, hook, turn, spawned, wturn,
                   wstatus, wflag, prepared, calls, pipeVars, cancelVars>>

(* _await_result: the worker is dead and the pipe holds no last message.   *)
WorkerDied ==
    /\ hpc = "await" /\ ~IsAlive /\ toParent = <<>>
    /\ Cleanup /\ Return("died", turn)
    /\ UNCHANGED <<caller, started, generation, hook, turn, workerVars,
                   pipeVars, cancelVars>>

(* _await_result: one message is read.  An end of an execution is returned *)
(* as this one's, a clock message holds or resumes the deadline, a call is *)
(* dispatched, and a tag it does not expect is warned about and dropped.   *)
AwaitRecv ==
    /\ hpc = "await" /\ toParent # <<>>
    /\ toParent' = Tail(toParent)
    /\ LET m == Head(toParent)
       IN  \/ /\ m.type \in {"Result", "WorkerError"}
              /\ Return(m.type, m.turn)
           \/ /\ m.type \in {"HostTimeOn", "HostTimeOff"}
              /\ paused' = (m.type = "HostTimeOn")
              /\ UNCHANGED <<hpc, last>>
           \/ /\ m.type = "Ready"
              /\ UNCHANGED <<hpc, last, paused>>
    /\ UNCHANGED <<caller, started, process, conn, generation, hook, turn,
                   workerVars, toWorker, cancelVars>>

(* _await_result reads a call to the host: the handler runs.               *)
AwaitRpc ==
    /\ hpc = "await" /\ toParent # <<>> /\ Head(toParent).type = "RpcCall"
    /\ hpc' = "rpc"
    /\ UNCHANGED <<caller, started, process, conn, generation, hook, paused,
                   turn, last, workerVars, pipeVars, cancelVars>>

(* Mutant of RpcAnswer: a handler that raised goes unanswered.             *)
RpcAnswerLost(m) == <<>>

(* _send_rpc_return: one answer with the call's id, whether the handler is *)
(* missing, raised, returned, or returned what does not pickle.            *)
RpcAnswer(m) == <<Msg("RpcReturn", m.turn, m.call)>>

(* _dispatch_rpc: the handler runs, and its answer is written unless the   *)
(* pipe is broken, which is ignored.                                       *)
DispatchRpc ==
    /\ hpc = "rpc"
    /\ toParent' = Tail(toParent)
    /\ toWorker' = IF Alive THEN toWorker \o RpcAnswer(Head(toParent))
                   ELSE toWorker
    /\ hpc' = "await"
    /\ UNCHANGED <<caller, started, process, conn, generation, hook, paused,
                   turn, last, workerVars, cancelVars>>

(* An exception lands in the embedder's thread while it polls the pipe or  *)
(* joins the worker (Ctrl-C, a signal handler that raises).  None of the   *)
(* waits catches it: handles, worker and pipe stay as they are.            *)
Interrupt ==
    /\ interrupts < MaxInterrupt
    /\ interrupts' = interrupts + 1 /\ disturbed' = TRUE
    /\ UNCHANGED <<workerVars, pipeVars, cpc, cancels, cancelled, fault>>

InterruptReady ==
    /\ hpc = "ready"
    /\ StartRaises /\ Interrupt
    /\ UNCHANGED <<caller, process, conn, generation, hook, paused, turn>>

InterruptAwait ==
    /\ hpc = "await"
    /\ Return("raised", turn) /\ Interrupt
    /\ UNCHANGED <<caller, started, process, conn, generation, hook, turn>>

InterruptJoin ==
    /\ hpc = "join"
    /\ hpc' = "idle" /\ Interrupt
    /\ UNCHANGED <<caller, started, process, conn, generation, hook, paused,
                   turn, last>>

(* shutdown(): _started is cleared and a ShutdownMsg written, if the pipe  *)
(* takes it; then the worker is waited for.                                *)
Shutdown ==
    /\ hpc = "idle"
    /\ hpc' = "join" /\ started' = FALSE
    /\ toWorker' = IF conn # 0 /\ Alive
                   THEN Append(toWorker, Msg("Shutdown", 0, 0)) ELSE toWorker
    /\ UNCHANGED <<caller, process, conn, generation, hook, paused, turn, last,
                   toParent, workerVars, cancelVars>>

(* shutdown(): the worker ended, or its five seconds did and it is killed. *)
Joined ==
    /\ hpc = "join"
    /\ Kill
    /\ hpc' = "idle"
    /\ UNCHANGED <<caller, started, generation, hook, paused, turn, last,
                   spawned, wturn, wstatus, wflag, prepared, calls, pipeVars,
                   cancelVars>>

(* The embedding process dies: the kernel closes its end of the pipe.      *)
HostDies ==
    /\ hpc # "gone"
    /\ hpc' = "gone" /\ conn' = 0 /\ cpc' = "off"
    /\ UNCHANGED <<caller, started, process, generation, hook, paused, turn,
                   last, workerVars, pipeVars, cancels, cancelled, fault,
                   interrupts, disturbed>>

-----------------------------------------------------------------------------
(* The worker: _worker_entry and worker_main.                              *)

(* Mutant of Connected: the worker keeps an inherited copy of the parent's *)
(* end.                                                                    *)
ConnectedToItself == TRUE

(* The parent's end of this worker's pipe is still open; the worker closed *)
(* the copies it inherited.                                                *)
Connected == conn # 0

(* A message written to the parent, when there is one to read it.          *)
SendParent(ms) == toParent' = IF Connected THEN toParent \o ms ELSE toParent

(* Setup succeeded: isolation applied, Sandbox built, SIGUSR1 handler in   *)
(* place, ReadyMsg sent.  A ReadyMsg nobody can receive ends the worker.   *)
WorkerReady ==
    /\ wpc = "init"
    /\ SendParent(<<Msg("Ready", 0, 0)>>)
    /\ wpc' = IF Connected THEN "loop" ELSE "dead"
    /\ UNCHANGED <<hostVars, spawned, wturn, wstatus, wflag, prepared, calls,
                   toWorker, cancelVars>>

(* Setup raised: it is reported and the worker returns.                    *)
WorkerInitFails ==
    /\ wpc = "init"
    /\ SendParent(<<Msg("WorkerError", 0, 0)>>)
    /\ wpc' = "dead"
    /\ UNCHANGED <<hostVars, spawned, wturn, wstatus, wflag, prepared, calls,
                   toWorker, cancelVars>>

(* The loop reads a message: an ExecMsg starts an execution, a ShutdownMsg *)
(* ends the loop, anything else (an answer nobody waits for) is dropped.   *)
WorkerRecv ==
    /\ wpc = "loop" /\ toWorker # <<>>
    /\ toWorker' = Tail(toWorker)
    /\ \/ /\ Head(toWorker).type = "Exec"
          /\ wpc' = "setup" /\ wturn' = Head(toWorker).turn
       \/ /\ Head(toWorker).type = "Shutdown"
          /\ wpc' = "closing" /\ UNCHANGED wturn
       \/ /\ Head(toWorker).type = "RpcReturn"
          /\ UNCHANGED <<wpc, wturn>>
    /\ UNCHANGED <<hostVars, spawned, wstatus, wflag, prepared, calls, toParent,
                   cancelVars>>

(* The loop reads end-of-file: the parent's end is closed.                 *)
WorkerEof ==
    /\ wpc = "loop" /\ toWorker = <<>> /\ ~Connected
    /\ wpc' = "closing"
    /\ UNCHANGED <<hostVars, spawned, wturn, wstatus, wflag, prepared, calls,
                   pipeVars, cancelVars>>

(* Sandbox.exec up to the code: the source is parsed, rewritten and        *)
(* compiled, then the cancel flag is cleared and the code starts.          *)
WorkerSetup ==
    /\ wpc = "setup"
    /\ wflag' = FALSE
    /\ wpc' = "code"
    /\ UNCHANGED <<hostVars, spawned, wturn, wstatus, prepared, calls, pipeVars,
                   cancelVars>>

(* Source that does not parse, validate or compile ends before the flag is *)
(* touched.                                                                *)
WorkerRejects ==
    /\ wpc = "setup"
    /\ wpc' = "result"
    /\ UNCHANGED <<hostVars, spawned, wturn, wstatus, wflag, prepared, calls,
                   pipeVars, cancelVars>>

(* The code ends: it finished, raised, or a checkpoint stopped it.         *)
CodeEnds ==
    /\ wpc = "code"
    /\ wpc' = "result"
    /\ UNCHANGED <<hostVars, spawned, wturn, wstatus, wflag, prepared, calls,
                   pipeVars, cancelVars>>

(* RpcProxy._call: the clock stops, the call is sent, the worker waits.    *)
(* With the parent gone the send raises into the code instead.             *)
CodeCalls ==
    /\ wpc = "code" /\ calls < MaxCall
    /\ calls' = calls + 1
    /\ SendParent(<<Msg("HostTimeOn", wturn, 0), Msg("RpcCall", wturn, calls + 1)>>)
    /\ wpc' = IF Connected THEN "rpc" ELSE "code"
    /\ UNCHANGED <<hostVars, spawned, wturn, wstatus, wflag, prepared, toWorker,
                   cancelVars>>

(* RpcProxy._round_trip reads whatever is next: its own answer is returned *)
(* to the code, anything else raises there.  Either way the clock starts.  *)
RpcReturns ==
    /\ wpc = "rpc" /\ toWorker # <<>>
    /\ toWorker' = Tail(toWorker)
    /\ SendParent(<<Msg("HostTimeOff", wturn, 0)>>)
    /\ wpc' = "code"
    /\ UNCHANGED <<hostVars, spawned, wturn, wstatus, wflag, prepared, calls,
                   cancelVars>>

(* The wait for an answer meets end-of-file, which raises into the code.   *)
RpcEof ==
    /\ wpc = "rpc" /\ toWorker = <<>> /\ ~Connected
    /\ wpc' = "code"
    /\ UNCHANGED <<hostVars, spawned, wturn, wstatus, wflag, prepared, calls,
                   pipeVars, cancelVars>>

(* The execution's end is sent: a ResultMsg, or a WorkerErrorMsg when      *)
(* something outside the code raised.  With the parent gone both sends     *)
(* raise, and the second one ends the worker.                              *)
WorkerSends ==
    /\ wpc = "result"
    /\ \E type \in {"Result", "WorkerError"} :
          SendParent(<<Msg(type, wturn, 0)>>)
    /\ wpc' = IF Connected THEN "loop" ELSE "dead"
    /\ UNCHANGED <<hostVars, spawned, wturn, wstatus, wflag, prepared, calls,
                   toWorker, cancelVars>>

(* The loop has ended: host calls are refused from here on, so finalizers  *)
(* cannot hold the exit up.                                                *)
WorkerExits ==
    /\ wpc = "closing"
    /\ wpc' = "dead"
    /\ UNCHANGED <<hostVars, spawned, wturn, wstatus, wflag, prepared, calls,
                   pipeVars, cancelVars>>

(* A segfault, the OOM killer, a seccomp kill: at any point.               *)
WorkerCrashes ==
    /\ Alive
    /\ wpc' = "dead"
    /\ UNCHANGED <<hostVars, spawned, wturn, wstatus, wflag, prepared, calls,
                   pipeVars, cancelVars>>

-----------------------------------------------------------------------------
(* cancel(), on a thread of its own; each read of self._process is a step. *)

(* "self._process is not None".                                            *)
CancelLooks ==
    /\ cpc = "off" /\ cancels < MaxCancel /\ hpc # "gone"
    /\ cancels' = cancels + 1
    /\ cpc' = IF process # 0 THEN "some" ELSE "off"
    /\ UNCHANGED <<hostVars, workerVars, pipeVars, cancelled, fault, interrupts,
                   disturbed>>

(* "self._process.is_alive()": on a handle dropped since, an AttributeError*)
CancelTests ==
    /\ cpc = "some"
    /\ cpc' = IF IsAlive THEN "alive" ELSE "off"
    /\ fault' = IF process = 0 THEN "cancelRaised" ELSE fault
    /\ UNCHANGED <<hostVars, workerVars, pipeVars, cancels, cancelled, interrupts,
                   disturbed>>

(* os.kill(self._process.pid, SIGUSR1): sets the flag through the handler, *)
(* or, before worker_main installs one, ends the worker.  A worker gone    *)
(* since is a ProcessLookupError, which is swallowed.                      *)
CancelSignals ==
    /\ cpc = "alive"
    /\ cpc' = "off"
    /\ wpc' = IF IsAlive /\ wpc = "init" THEN "dead" ELSE wpc
    /\ wflag' = (wflag \/ (IsAlive /\ wpc # "init"))
    /\ cancelled' = IF IsAlive /\ hpc \in {"await", "rpc"}
                    THEN cancelled \cup {turn} ELSE cancelled
    /\ fault' = CASE process = 0 -> "cancelRaised"
                  [] IsAlive /\ wpc = "init" -> "cancelKilled"
                  [] OTHER -> fault
    /\ UNCHANGED <<hostVars, spawned, wturn, wstatus, prepared, calls, pipeVars,
                   cancels, interrupts, disturbed>>

-----------------------------------------------------------------------------
HostWaits == ReadyFails \/ RecvReady \/ Unresponsive \/ WorkerDied
             \/ AwaitRecv \/ AwaitRpc \/ DispatchRpc \/ SendExec \/ Joined
HookSteps == HookExec \/ HookReturns \/ HookRaises
HostNext  == Enter \/ Exec \/ HostWaits \/ HookSteps \/ Shutdown \/ HostDies
             \/ InterruptReady \/ InterruptAwait \/ InterruptJoin
WorkerRuns == WorkerReady \/ WorkerInitFails \/ WorkerRecv \/ WorkerEof
              \/ WorkerSetup \/ WorkerRejects \/ RpcReturns \/ RpcEof
              \/ WorkerSends \/ WorkerExits
WorkerNext == WorkerRuns \/ CodeEnds \/ CodeCalls \/ WorkerCrashes
CancelNext == CancelLooks \/ CancelTests \/ CancelSignals

Next == HostNext \/ WorkerNext \/ CancelNext

Spec == Init /\ [][Next]_vars

(* The embedder's thread leaves every wait it is in (each poll has a       *)
(* timeout), the start hook comes to an end, and worker_main's own steps   *)
(* are taken.  Nothing is assumed of sandboxed code, which may run for     *)
(* ever, nor of the embedder, which may never call again.                  *)
Fairness == WF_vars(HostWaits) /\ WF_vars(HookSteps) /\ WF_vars(WorkerRuns)

FairSpec == Spec /\ Fairness

-----------------------------------------------------------------------------
(* Properties.                                                             *)

Service == INSTANCE ExecService WITH
              entered <- started,
              pending <- hpc \in {"await", "rpc"},
              gone <- hpc = "gone"

(* The sandbox with its worker, its crashes and its hook implements the    *)
(* service an embedder sees.                                               *)
ImplementsService == Service!SSpec

(* What exec() returns as the outcome of an execution is the outcome of    *)
(* that execution, never of an earlier one still in the pipe, unless an    *)
(* exception has cut short a wait for this worker.                         *)
ResultOfOwnTurn ==
    [][last' # last /\ last'.kind \in {"Result", "WorkerError"} /\ ~disturbed
          => last'.of = last'.turn]_vars

(* The same with no exception made: an exec() that returns, returns its    *)
(* own outcome.                                                            *)
EveryResultOwn == last.kind \in {"Result", "WorkerError"} => last.of = last.turn

(* While exec() serves a call to the host, that call was made by the very  *)
(* execution it is waiting for: no handler runs on behalf of code whose    *)
(* exec() has already returned.  The exception of ResultOfOwnTurn holds    *)
(* here, and in the next three.                                            *)
RpcOfOwnTurn == hpc = "rpc" /\ ~disturbed => Head(toParent).turn = turn

(* No execution gets what belongs to another, neither its outcome nor the  *)
(* answer to a call: unless a wait was cut short, what exec() returns and  *)
(* what it serves are of the turn it sent.                                 *)
OwnTurn == ResultOfOwnTurn /\ []RpcOfOwnTurn

(* No execution but the start hook's own reaches a worker whose start did  *)
(* not complete.                                                           *)
PreparedBeforeServed == Executing /\ ~disturbed => prepared \/ hook

(* A worker whose isolation was refused, or was never checked, executes    *)
(* nothing.                                                                *)
NoDegradedExec ==
    Executing /\ ~disturbed
        => Isolation # "auto" \/ AllowDegraded \/ wstatus = "applied"

(* No worker runs code before it is fit to: its start went through to the  *)
(* end of the hook, and its isolation is what was asked for.               *)
FitToServe == PreparedBeforeServed /\ NoDegradedExec

(* A sandbox that is not entered has no worker.                            *)
NoWorkerOutside == hpc = "idle" /\ ~started /\ ~disturbed => ~Alive

(* A live worker is always the one _process and _conn name: no path drops  *)
(* the handle on a worker it has not seen dead.                            *)
WorkerHeld == Alive /\ hpc # "gone" => process = spawned /\ conn = spawned

(* Every worker is accounted for: held while it lives, and dead once the   *)
(* sandbox is left.                                                        *)
WorkerAccounted == WorkerHeld /\ NoWorkerOutside

(* A shutdown() that drops its handles leaves the worker dead, whatever    *)
(* state it was in and whatever cut earlier waits short.                   *)
ShutdownEndsWorker ==
    [][hpc = "join" /\ hpc' = "idle" /\ process' = 0 => ~Alive']_vars

(* Every exec() returns: a dead worker, a hung one and one that waits for  *)
(* the host all end the wait.                                              *)
ExecReturns == (hpc \in {"send", "await", "rpc"}) ~> (hpc \in {"idle", "hook", "gone"})

(* A worker whose parent died ends too, unless sandboxed code runs on for  *)
(* ever: it reads end-of-file, in the loop or in a call to the host.       *)
OrphanEnds == (wpc = "code" ~> wpc # "code") => (hpc = "gone" ~> ~Alive)

(* cancel() never raises, whichever thread drops the worker meanwhile.     *)
CancelNeverRaises == fault # "cancelRaised"

(* cancel() never kills a worker.                                          *)
CancelSparesWorker == fault # "cancelKilled"

(* A SIGUSR1 delivered while an execution is outstanding is seen by its    *)
(* next checkpoint.                                                        *)
CancelHonoured == ~(wpc = "code" /\ wturn \in cancelled /\ ~wflag)

(* A worker that dies costs the exec() it was to serve a failed result,    *)
(* not an exception.                                                       *)
CrashIsAResult ==
    [][hpc = "send" /\ ~Alive => (last' # last => last'.kind # "raised")]_vars
=============================================================================
