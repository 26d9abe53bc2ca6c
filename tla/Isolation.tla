----------------------------- MODULE Isolation -----------------------------
(***************************************************************************)
(* A worker confines itself before it runs any code: worker_main's setup   *)
(* (process/worker.py), apply_isolation (process/platform.py) and the      *)
(* mechanisms it calls (landlock, seccomp, seatbelt), then the parent's    *)
(* decision on what they report (ProcessSandbox._verify_isolation).  Each  *)
(* mechanism may be missing or fail, and each takes something away from    *)
(* the steps after it: what Landlock leaves readable, what seccomp leaves  *)
(* callable.                                                               *)
(***************************************************************************)
EXTENDS Naturals, Sequences, FiniteSets

(* What the machine offers, and what the sandbox was built with.           *)
Machines ==
    [platform : {"linux", "darwin", "other"},
     packages : SUBSET {"landlock", "seccomp"},  \* installed
     kernel   : SUBSET {"landlock", "seccomp", "seatbelt"},
     fresh    : BOOLEAN]           \* spawned, with nothing inherited
Requests ==
    [mode : {"auto", "none"}, root : BOOLEAN, allowDegraded : BOOLEAN,
     network : SUBSET {"policy", "registration", "member"},  \* who is granted
     hostFs  : SUBSET {"registration", "member"}]

VARIABLES
    machine, request,
    pc,        \* the next step of the worker, or of the parent
    loaded,    \* modules in the worker's sys.modules
    confined,  \* whether the kernel confines its files to the root
    filtered,  \* whether the kernel filters what it may call
    offline,   \* whether that leaves out the network
    status     \* IsolationStatus: "none", "yes" or "no" per mechanism

isolationVars ==
    <<machine, request, pc, loaded, confined, filtered, offline, status>>

Mechanisms == {"landlock", "seccomp", "seatbelt"}
Deferred   == "deferred"   \* what the worker itself imports late

IsolationInit ==
    /\ machine \in Machines /\ request \in Requests
    /\ pc = "warm"
    /\ loaded = IF machine.fresh THEN {} ELSE machine.packages \cup {Deferred}
    /\ confined = FALSE /\ filtered = FALSE /\ offline = FALSE
    /\ status = [m \in Mechanisms |-> "none"]

(* Mutant of LinuxSteps: the backend is imported once the files are out of *)
(* reach.                                                                  *)
LinuxStepsLateImport == <<"landlock", "preload", "seccomp">>

(* The order of _apply_linux.                                              *)
LinuxSteps == <<"preload", "landlock", "seccomp">>

(* What the worker does after a step.                                      *)
After(step) ==
    LET at == CHOOSE i \in DOMAIN LinuxSteps : LinuxSteps[i] = step
    IN  IF at = Len(LinuxSteps) THEN "ready" ELSE LinuxSteps[at + 1]

(* Policy.needs_network() and needs_host_fs(): a grant anywhere will do.   *)
NeedsNetwork == request.network # {}
NeedsHostFs == request.hostFs # {}

RestrictsFs == request.root /\ ~NeedsHostFs

IsolationTypeOK ==
    /\ machine \in Machines /\ request \in Requests
    /\ pc \in {"warm", "apply", "preload", "landlock", "seccomp", "seatbelt",
               "ready", "serving", "refused", "failed"}
    /\ loaded \subseteq {"landlock", "seccomp", Deferred}
    /\ confined \in BOOLEAN /\ filtered \in BOOLEAN /\ offline \in BOOLEAN
    /\ status \in [Mechanisms -> {"none", "yes", "no"}]
    /\ status["seatbelt"] # "none" => machine.platform = "darwin"
    /\ status["seccomp"] # "none" => machine.platform = "linux"

-----------------------------------------------------------------------------
(* Every import the worker still needs, while its files are readable.      *)
Warm ==
    /\ pc = "warm" /\ pc' = "apply"
    /\ loaded' = loaded \cup {Deferred}
    /\ UNCHANGED <<machine, request, confined, filtered, offline, status>>

Route ==
    IF request.mode = "none" \/ machine.platform = "other" THEN "ready"
    ELSE IF machine.platform = "linux" THEN LinuxSteps[1]
    ELSE "seatbelt"

(* apply_isolation() by platform, or nothing to apply.                     *)
Dispatch ==
    /\ pc = "apply" /\ pc' = Route
    /\ UNCHANGED <<machine, request, loaded, confined, filtered, offline, status>>

(* Landlock leaves only the root; a Seatbelt profile keeps Python's files. *)
Unreadable == confined /\ machine.platform = "linux"

(* seccomp.preload(): the backend, if one is installed; one that is there  *)
(* and cannot be read any more fails the worker.                           *)
Preload ==
    /\ pc = "preload"
    /\ IF "seccomp" \in machine.packages \ loaded /\ Unreadable
       THEN pc' = "failed" /\ UNCHANGED loaded
       ELSE /\ pc' = After("preload")
            /\ loaded' = loaded \cup (machine.packages \cap {"seccomp"})
    /\ UNCHANGED <<machine, request, confined, filtered, offline, status>>

(* Mutant of Applied: a mechanism that is only installed counts.           *)
AppliedIfInstalled(m) == IF m \in machine.packages THEN "yes" ELSE "no"

(* What landlock.apply() and seccomp.apply() report.                       *)
Applied(m) == IF m \in machine.packages \cap machine.kernel THEN "yes" ELSE "no"

(* Landlock, where files are to be confined; its setup needs calls that    *)
(* the filter kills a process for.                                         *)
Landlock ==
    /\ pc = "landlock"
    /\ IF ~RestrictsFs
       THEN pc' = After("landlock") /\ UNCHANGED <<loaded, confined, status>>
       ELSE IF filtered
       THEN pc' = "failed" /\ UNCHANGED <<loaded, confined, status>>
       ELSE /\ pc' = After("landlock")
            /\ loaded' = loaded \cup (machine.packages \cap {"landlock"})
            /\ confined' = ("landlock" \in machine.packages \cap machine.kernel)
            /\ status' = [status EXCEPT !["landlock"] = Applied("landlock")]
    /\ UNCHANGED <<machine, request, filtered, offline>>

Seccomp ==
    /\ pc = "seccomp"
    /\ IF "seccomp" \in machine.packages \ loaded /\ Unreadable
       THEN pc' = "failed" /\ UNCHANGED <<loaded, filtered, offline, status>>
       ELSE /\ pc' = After("seccomp")
            /\ loaded' = loaded \cup (machine.packages \cap {"seccomp"})
            /\ filtered' = ("seccomp" \in machine.packages \cap machine.kernel)
            /\ offline' = (filtered' /\ ~NeedsNetwork)
            /\ status' = [status EXCEPT !["seccomp"] = Applied("seccomp")]
    /\ UNCHANGED <<machine, request, confined>>

(* One profile for files and network.                                      *)
Seatbelt ==
    /\ pc = "seatbelt" /\ pc' = "ready"
    /\ LET applied == "seatbelt" \in machine.kernel IN
       /\ confined' = (applied /\ RestrictsFs)
       /\ filtered' = applied /\ offline' = (applied /\ ~NeedsNetwork)
       /\ status' = [status EXCEPT !["seatbelt"] = IF applied THEN "yes" ELSE "no"]
    /\ UNCHANGED <<machine, request, loaded>>

(* IsolationStatus.degraded.                                               *)
Degraded ==
    LET applicable == {m \in Mechanisms : status[m] # "none"}
    IN  /\ request.mode = "auto"
        /\ applicable = {} \/ \E m \in applicable : status[m] = "no"

(* Mutant of Refuses: nothing reported is nothing wrong.                   *)
RefusesReported ==
    (\E m \in Mechanisms : status[m] = "no") /\ ~request.allowDegraded

Refuses == Degraded /\ ~request.allowDegraded

(* The parent reads the status, and kills the worker or lets it serve; a   *)
(* serving worker imports what it deferred.                                *)
Verify ==
    /\ pc = "ready"
    /\ pc' = IF Refuses THEN "refused"
             ELSE IF Deferred \notin loaded /\ Unreadable THEN "failed"
             ELSE "serving"
    /\ UNCHANGED <<machine, request, loaded, confined, filtered, offline, status>>

IsolationNext == Warm \/ Dispatch \/ Preload \/ Landlock \/ Seccomp \/ Seatbelt \/ Verify

IsolationSpec == IsolationInit /\ [][IsolationNext]_isolationVars

-----------------------------------------------------------------------------
(* A worker serves under kernel isolation only with everything that was    *)
(* asked for in force, on every platform and whatever is missing there,    *)
(* unless the embedder accepted less (allow_degraded); and a grant         *)
(* anywhere in the policy works: the whole worker is left what the         *)
(* registration, or the one member of it, was granted.                     *)
ServesAsAsked ==
    pc = "serving" =>
        /\ request.mode = "auto" /\ ~request.allowDegraded
              => /\ filtered /\ (request.root /\ request.hostFs = {} => confined)
                 /\ request.network = {} => offline
        /\ request.network # {} => ~offline
        /\ request.hostFs # {} => ~confined

(* The status the host reads on every result says what is in force, and    *)
(* calls degraded exactly what fell short of the request.                  *)
StatusTrue ==
    pc \in {"ready", "serving", "refused"}
        => /\ (\E m \in Mechanisms : status[m] = "yes") => filtered \/ confined
           /\ Degraded <=> (/\ request.mode = "auto"
                            /\ ~(filtered /\ (RestrictsFs => confined)))

(* No step of a worker needs what an earlier one took away: a mechanism    *)
(* that is missing is reported, and never costs the worker its start.      *)
NeverLocksItselfOut == pc # "failed"
=============================================================================
