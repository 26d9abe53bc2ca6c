# A TLA+ verification of sandtrap

sandtrap runs Python code under a policy: in the host's own process
(`Sandbox`), or in a worker process with kernel isolation
(`ProcessSandbox`). The code is rewritten so that it meets a *checkpoint* in
every loop and function; what it imports, opens and connects to goes through
gates. Most of the program decides single calls and is well covered by tests.
What a test hardly reaches is what this project models: the worker protocol
and its failures, clocks and finalizers that run in the middle of it, state
shared by the executions of one sandbox, state of the whole host process
(gates, descriptors, `sys.modules`), and a policy that is decided in two
processes through several doors.

Every module is translated from the source; `PROJECT.json` maps each
definition to its lines. Modules keep the code's control (guards, early
returns, error paths, the order of effects) and reduce its data to what the
properties tell apart.

## Inventory

| Component | State | Operations | Hard because | Module |
|---|---|---|---|---|
| Process sandbox, host side (`process/sandbox.py`) | `_started`, `_process`, `_conn`, `_generation`, the start hook | enter, exec, await, RPC dispatch, shutdown, kill, cancel | workers crash anywhere, waits are interrupted, `cancel()` comes from other threads | `ProcessSandbox` |
| Worker (`process/worker.py`, `protocol.py`) | loop, pipe, cancel flag, `_send_lock`, the scope of the running clock | init, ready, receive, execute, call the host, send, exit | signals, threads and finalizers of the code share one pipe | `ProcessSandbox`, `HostCalls` |
| Budget and host clock (`clock.py`, `gates.py`) | start, ticks, depth, callback depth | checkpoint, enter/exit host, callback | tasks overlap on one clock | `ExecBudget` |
| Remote files and lost writes (`fs/remote.py`, `lost_writes.py`) | buffer, saved and reported marks, collectors | open, change, save, finalize, settle | finalizers run where nobody can catch them | `LostWrites` |
| VFS loader (`gates.py`) | module cache | import, look up, build, run, drop | bodies import each other and fail; threads share the cache without a lock | `VfsLoader` |
| Memory limit (`resource_limits.py`) | RLIMIT_AS | read, set, restore | process-wide | not modelled |
| Result spool (`process/spool.py`) | directory, files, entries, values read | spool, discard, read, let go, remove | crashes and finalizers in any order | `Spool` |
| In-process sandbox (`sandbox.py`, `home.py`) | cancel flag, module names, `_homes`, `sys.modules`, provided modules | set up, run, build the result, cancel, exit | one sandbox, many calls | `Executions` |
| Forkserver broker (`process/sandbox.py`) | preload list, broker pid, lock, alive descriptor, record | apply, start, reuse, reset, record | threads, `fork` and dying brokers | `Broker` |
| Network gate (`net/`) | gates and originals, `network_allowed` per context | install, deny, grant, callback, thread, work item | installed once, under code that is running, and perhaps interrupted | `NetworkGate` |
| Kernel isolation (`process/platform.py` and backends) | what is loaded, confined, filtered; the status | warm, preload, Landlock, seccomp, Seatbelt, verify | each step takes away what another needs | `Isolation` |
| Inherited descriptors (`process/sandbox.py`) | descriptor tables, `_PARENT_CONNECTIONS`, `inherited_fds`, stale file objects | snapshot, pipe, register, fork, close copies, neutralize, clean up | `fork` copies all of them, numbers are used again, starts run on several threads | `ForkFds` |
| Policy, import and attribute gates (`policy.py`, `gates.py`) | registrations, `id()`-keyed indexes, loaded modules | register, pickle, rebuild, fork; import, from-import, `__import__`, attribute reads | two processes must decide alike, and so must the doors; what is loaded bears on the answer | `Policy` |
| Rewriter, builtins, prints, factory, errors | none between calls | pure functions | | not modelled |

How they interact: the host writes `ExecMsg` and `ShutdownMsg` to a pipe and
reads `ReadyMsg`, `ResultMsg`, `WorkerErrorMsg`, `HostTimeMsg` and
`RpcCallMsg` from it. A remote file or an injected host object calls the host
over the same pipe (`RpcCallMsg`, `RpcReturnMsg`), and stops the execution's
clock for that time; the worker tells the host so with `HostTimeMsg`, and the
host holds its own deadline. A worker runs an ordinary `Sandbox` inside.
Large values of a result go through the spool directory, which both sides
see. The broker, the network gate, the memory limit, the descriptor table and
`sys.modules` belong to the whole process and are shared by all sandboxes in
it. A forked worker gets the policy, and every descriptor, with the host's
memory; any other gets the policy pickled.

## Modules and how they correspond to the code

**ProcessSandbox** — the host thread that uses the sandbox, the worker, the
two directions of the pipe, and a thread that calls `cancel()`.
`process` and `conn` are the handles (0 for `None`, otherwise the number of
the worker), `hpc` and `wpc` where the host and the worker are. A message
carries the number of the execution it belongs to; the code's messages do
not, and no guard reads it: it is there for the properties. `Kill`,
`Cleanup`, `StartRaises` and `Return` are the code's helpers, used by the
actions as the code calls them. `HostDies` and `WorkerCrashes` are the
kernel's. Up to `MaxInterrupt` exceptions (Ctrl-C, or a signal handler that
raises) land in the three waits of the host thread: for the ready message,
for a result, and for the worker to end in `shutdown()`. `disturbed` records
that one did and that the worker it was waiting for is still the sandbox's;
no guard reads it. A property that an interrupt breaks is stated under
`~disturbed`, that is, it holds again from the next worker on.

**ExecService** — what an embedder relies on: entered or closed, one
execution at a time, and for each an outcome of its own, unless a wait was cut
short on the worker in use. `ProcessSandbox` implements it under the mapping in `ProcessSandbox!Service`.

**HostCalls** — one worker close up: threads of the code, each with a stack
of host calls, because a finalizer can begin a call inside another one.
The clock of each execution, its lock, the send lock and the pipe.

**ExecBudget** — one execution's budget, its own task, and tasks or callbacks
beside it, against an explicit clock. `HostClock.enter` and `exit` hold the
clock's lock, but a checkpoint, `_within_timeout` and a callback that sets the
budget take none. So both are in steps: `enter` reads the time (`EnterHost`)
and then counts (`StopsClock`); `exit` drops the depth (`ExitHost`), adds the
pause to the start it reads (`AddsUp`) and stores the sum (`Refunds`). A
checkpoint looks at the clock (`Checkpoint`) and then compares the time
(`ComparesTime`), a callback reads the time (`CallBack`) and then sets the
start (`SetBudget`), and all of these come in anywhere. `Interrupt` is Ctrl-C,
which leaves `exec()` before it is marked over. `ran` counts the time no host
call was out, independently of the code's arithmetic. Two ghosts name what a
missing lock can spoil: `look` is `"stale"` for a task when the clock was
stopped or started since it looked, and the budget is `torn` when it was set
in the middle of that, or Ctrl-C landed there.

**LostWrites** — executions and the files they write. `version`, `saved` and
`seen` say which content exists, reached the parent, and was seen to fail by
the code. CPython's reference counting and cyclic collector are external.

**VfsLoader** — the loader's recursion as an explicit stack of wanted names
and running bodies, one stack for each thread of the code. The cache is
shared: `Find` is the last look at the cache, `Start` the entry into it,
and another thread may come in between. `Bare` enters a package without
`__init__.py` and, as the code, does not look again after the package above it
was built. `overlap` is a ghost that records
that two threads were importing at once. `MCVfsLoader` gives it a small tree
of packages, one of them without `__init__.py`, and a plain `m.py` beside a
directory `m`.

**Spool** — directories, files, what each result still has to read.

**Executions** — the calls of one `Sandbox`, with `_build_namespace` in the
steps at which another thread may come in. `Mode` says how calls overlap: one
at a time, tasks of one event loop (a setup is then one piece), or threads.

**Broker** — a host process and a child forked from it at any moment, their
threads, and the brokers there have been. `multiprocessing.forkserver` is
external and modelled from how `sandtrap` uses it; other code of a process
uses it too, and may hold its lock. `Raises` is a start that ends with an
exception other than the one `_ensure_worker` handles, before the lock, under
it, or once the broker is up: then `_record_broker_preload` is not reached. A
refused broker leads to one recovery and one more try (`RefusesBroker`,
`Resets`). `vouched` is a ghost of a broker: a sandbox's start brought it up
and did not then raise.

**NetworkGate** — threads with stacks of calls that set `network_allowed`.
Each frame carries the *duty* of its code, kept apart from the variable.
`install_threading()` and `install()` save what they patch and replace it in
two steps each; `Interrupted` is an exception (Ctrl-C) anywhere in either,
which lets the lock go and leaves the rest as it is. `skipped` is a ghost:
what was left saved and not replaced. `Callback` runs a captured function in
a frame of its own; the body of a generator is not in it, and `Iterate` runs
it in the context of whoever iterates.

**Isolation** — one worker start, for every machine (platform, packages,
kernel support, start method) and request (mode, root, grants,
`allow_degraded`). It has no parameters: all 229,000 states are all cases.

**ForkFds** — descriptor tables as functions from numbers to what they name:
the host's and each worker's. `_ensure_worker` is one action per effect, from
the snapshot to `child_conn.close()`, on a thread for each worker;
`_worker_entry` closes the copies (`ClosesCopies`) and puts `/dev/null` over
the snapshot (`Neutralizes`). The kernel hands out the lowest free number.
File objects copied by the fork remember theirs (`wrappers`) and close it
when they are collected. Two ghosts say what other threads did between a
start's snapshot and its fork: `opened` and `closed`. The descriptors
multiprocessing opens inside `start()` are like the pipe's and left out.

**Policy** — registrations in insertion order, the two `id()`-keyed indexes as
one function from objects, and the modules loaded, in the host and in a
worker. `FindRegistration`, `AttrAllowed`, `ImportAllowed`, `MemberPasses`
and `NeedsNetwork` are the policy's methods, `Privileged`, `StImport`,
`StImportFrom` and `StDynImport` the gates'. A worker's policy is the host's
(`Forked`), or has its indexes `Rebuilt` from the dicts (`Sent`). A pattern
is the set it matches. `rebound` is a ghost: a key was registered again for
another object. A dotted name stands for a module (`Module`): itself, or
another that a package binds, as `os.path` stands for `posixpath`. The index
and `FindRegistration` go by the module, the import doors by the dotted name,
and `Value`, what `getattr` gives, leads from one to the other. `MCPolicy` has
a package, a subpackage, its module, a module bound under a second name, a
class and a live object, under 21 registrations that nest, filter and overlap.

## What is checked

Bounds are the constants named `Max...` and the small sets of threads, files
and calls. Each cfg gives them the smallest values at which every action
fires and the mutants listed in `PROJECT.json` are found. A property with
several parts has mutants that break different ones:

| Run | Bounds | Shows |
|---|---|---|
| `ProcessSandbox` | 3 executions, 2 workers, one host call, one cancel, one interrupt; isolation `auto`, a start hook | results and host calls belong to their execution; nothing runs in an unprepared or degraded worker; no worker is lost or left behind; shutdown ends the worker, `exec()` returns, orphans end; `ExecService` is implemented |
| `ExecBudget` | the execution and two tasks or callbacks, 4 units of time, 2 ticks of which one is within the limit | counters balance; host time is refunded exactly while the execution runs, and never too little after, unless the budget is torn; no early timeout unless the clock moved under the task |
| `HostCalls` | 2 executions, the main thread and another, 4 host calls, one file left to the collector | the deadline follows the clock of the execution waited for; plain code reads its own answers; `exec()` ends |
| `LostWrites` | 2 executions, 2 files, 2 versions of each | no loss is silent or reported twice, and a charged execution fails |
| `MCVfsLoader` | two threads, a tree of packages, 4 modules built, 5 nested imports in all | no failed module stays importable, threads or not; until two threads import at once, none is handed out, packages come before submodules, one object per module that has a file |
| `Spool` | 3 executions, 2 values, 2 directories | values stay readable while the sandbox is open; no file is left behind |
| `Executions` | 3 calls of one event loop, `HOMES` = 2, Ctrl-C | names never mix, `sys.modules` is bounded and complete, cancels hit who was asked |
| `Broker` | a host and a child forked at any moment, one thread each, one grant, 3 starts, those of other code included, that may raise; brokers that die | the list never shrinks; record and warnings are right, of a broker recorded when it came up, across a fork; no process lets go of its own broker; starts end, unless the lock was inherited held |
| `MCNetworkGate` | two threads and one started by code, two methods, 2 nested calls, one work item, one patch left out by an interrupt | every patch has an original; unless one of `threading`'s was left out, the gate follows the code in every nesting, and there is no ungated window for denied code, but for the method an interrupt skipped |
| `Isolation` | none: every machine and request | workers serve only under what was asked for; the status is true; no step locks out another |
| `ForkFds` | 2 workers, each forked or not and with or without `close_fds`, one ambient file, 6 numbers | a worker keeps its channel and has nothing of the host's or a sibling's; no stale file object closes what is the worker's; an idle worker ends with its host |
| `MCPolicy` | 3 registrations of 21, 4 modules, one of them under a second name, a class, a live object | a worker decides as its host; the doors to a module by its own name agree; the kernel knows of every privilege given |

Why the bounds are enough for the questions asked: a second worker is one
that replaces a first, and three executions are one before, one in and one
after the replacement; two overlapping calls show every pairwise order of a
shared clock, cache, list or flag, and a third shows one that comes after
both. Two workers are enough for a sibling's pipe to leak into the other,
before or after it, and 6 numbers are one more than all that can be open at
once, so that numbers are used again and `/dev/null` finds one. Three
registrations are a package, one nested in it and one made again or beside
them. Larger instances are covered by the theorems, for every invariant and
action property of the runs.

Deadlock checking is off in all runs but `MCPolicy`: the bounds make the
models stop, and so may the system (a closed sandbox, a host that died,
finished calls).
Modules other than `ProcessSandbox` keep their type invariant (`...TypeOK`)
as documentation of their variables.

## Disagreements with the code's own words

These were met while modelling, and TLC finds each. The property that states
the quoted words is kept in its module, outside the runs; adding it to the
module's cfg with the constants below gives the counterexample. Where the run
checks the property under a condition, the row says which condition to drop.

| Property, constants | Code | What happens, against what is said |
|---|---|---|
| `ProcessSandbox!EveryResultOwn`, `MaxInterrupt` = 1 | `process/sandbox.py:1183` | Ctrl-C in the wait for a result leaves the worker running and the answer in the pipe; the next `exec()` returns it as its own. `:1145`: the wait "Returns when ``ResultMsg`` arrives or the worker dies" |
| `PreparedBeforeServed`, `NoDegradedExec` without `~disturbed` | `process/sandbox.py:906` | an exception in the ready wait leaves the handles set; the next `exec()` finds the process alive and skips handshake, isolation check and hook. `:930`: "killing here is safe and keeps a degraded worker from ever executing"; `:677`: "before any other execution reaches that worker" |
| `ProcessSandbox!CancelNeverRaises`, `MaxCancel` = 1 | `process/sandbox.py:1338` | `cancel()` reads `_process` again after testing it; a cleanup in between makes it raise. `:1335`: "Safe to call from any thread." |
| `ProcessSandbox!CancelSparesWorker`, `MaxCancel` = 1 | `process/worker.py:343` | SIGUSR1 before the handler is in place kills the worker. `docs/process.md:87`: it "triggers cancellation in the child" |
| `ProcessSandbox!CancelHonoured`, `MaxCancel` = 1 | `sandbox.py:857` | the setup clears a cancel that came after the `ExecMsg`. `docs/sandbox.md:312`: "raises `StCancelled` at the next checkpoint" |
| `ProcessSandbox!CrashIsAResult` | `process/sandbox.py:1126` | a worker that dies before the send makes `exec()` raise `BrokenPipeError`. `:567`: "the crashing ``exec()`` returns an ``ExecResult``" |
| `ExecBudget!FreshBudget` | `gates.py:1049` | a callback that begins while another is out shares its budget. `:1012`: "each callback gets a fresh budget" |
| `ExecBudget!BudgetKept` | `clock.py:78` | `exit` of a call left out reads the start before a callback sets it and stores the sum after: the callback pays for the old budget. `gates.py:1013`: "each callback gets a fresh budget" |
| `ExecBudget!NoTimeoutEver` | `clock.py:75` | a checkpoint, or `_within_timeout`, that looks between the drop of the depth and the refund finds the clock running and the host's time not yet refunded. `sandbox.py:225`: "time inside a host call counts against neither" |
| `ExecBudget!RefundOnce`, `Spawns` | `clock.py:78` | a call left out when a callback resets the start refunds time from before it. `:49`: "nothing is counted twice" |
| `HostCalls!SingleReader`, `Others` or `MaxGarbage` | `process/worker.py:101` | a second thread, or a finalizer after the result went out, is a second reader. `:51`: "one RPC is outstanding at a time"; `:338`: "single reader on the pipe, no race conditions" |
| `HostCalls!AwaitEnds` without `WaitsForItself` | `process/worker.py:91` | a finalizer that runs while its thread holds `_send_lock` waits for itself, the deadline held. `process/sandbox.py:1152`: "so we don't hang forever" |
| `LostWrites!OwnLosses` | `lost_writes.py:70` | the collector runs a finalizer in another execution's context, which is charged. `:11`: executions "never see each other's losses" |
| `Executions!NeverOthers`, `Mode` = "threads" | `sandbox.py:566` | two threads setting up read each other's `module_name`. `:454`: "a class never resolves against another execution's names" |
| `Executions!CancelStands`, two calls | `sandbox.py:857` | the next call's setup clears the cancel of a running one. `:481`: "at the next checkpoint" |
| `Executions!ProvidedDropped`, `Interrupts` | `sandbox.py:1105` | Ctrl-C leaves provided modules importable. `:929`: "lasts exactly as long as the execution it was provided for" |
| `Broker!NeverShrinks`, two threads of one process | `process/sandbox.py:418` | the unlocked list loses one thread's names. `:381`: "never let one sandbox shrink another's" |
| `Broker!RecordTrue`, two threads of one process, two grants | `process/sandbox.py:370` | a thread that grows the list during another's start is recorded as served. `:354`: "exactly what it imported" |
| `Broker!OwnBrokerKept`, two child threads | `process/sandbox.py:450` | the second to recover closes the broker the first started. `:432`: "Only our own inherited copies are released here." |
| `Broker!WarningsRight` without `Died`, `Crashes` | `process/sandbox.py:344` | a dead broker's record still counts. `:333`: "Modules the live broker loaded" |
| `Broker!StartEndsAnyway` | `process/sandbox.py:879` | a child forked inside a broker operation waits for the inherited lock before it can recover. `:432`: "The lock is replaced rather than acquired" |
| `Broker!RecordExact` | `process/sandbox.py:888` | a start that raises once the broker is up skips the record; the next one records a list that has grown since, and a sandbox that asks for what was added is not warned. `:354`: "for a broker we just started that is exactly what it imported" |
| `NetworkGate!DeniedMeetsGates` for skipped methods too | `net/patch.py:109` | an exception between the two assignments leaves the method saved and open; the next `install()` takes it for done. `:98`: "idempotent, permanent" |
| `NetworkGate!GateFollowsCode`, `DeniedMeetsGates` without `Propagates` | `net/patch.py:90` | the same between the two assignments of `install_threading()`: threads that denied code starts are not denied from then on. `:84`: "idempotent, permanent" |
| `NetworkGate!GeneratorDenied` | `gates.py:1059` | a generator function gets the plain wrapper, which puts the variable back when it has made the generator: the body runs with what its iterator may do. `:1007`: callbacks "retain filesystem and network isolation" |
| `VfsLoader!PackagesStay` | `gates.py:423` | `_package` does not look again after building the package above: a package without `__init__.py` that this imported from is replaced by a second, without what was attached to the first. `:431`: "``import pkg.mod`` must bind ``pkg`` in the namespace with ``pkg.mod`` attached" |
| `VfsLoader!NoFailedModule`, `OneObject` without `~overlap` | `gates.py:388` | two threads find a module missing and each builds one; one thread caches a submodule while its package fails in another. `:357`: a child "is not importable past the package that never finished" |
| `Spool!NoPartWayFile` | `process/spool.py:92` | `discard()` closes the file outside its `try`: when that fails, so does the execution, and the file stays until the sandbox closes. `:107`: "A value that fails part-way leaves no file behind" |
| `ForkFds!ChannelKept` without `~closed` | `process/sandbox.py:836` | a descriptor of the snapshot is closed and its number taken by the worker's own pipe, which the worker then neutralizes. `:492`: "without touching the control channel" |
| `ForkFds!NothingOfHosts`, `IdleOrphanEnds` without `~opened` | `process/sandbox.py:838` | a pipe of another thread that is not registered yet, or a file opened since the snapshot, stays open in the worker. `:1367`: "Close every known copy: otherwise a busy later worker can suppress control EOF"; `docs/process.md:266`, of `close_fds`: "preserving only standard streams and the worker's private multiprocessing plumbing" |
| `Policy!AliasMeansAttribute` | `policy.py:894` | a from-import of `os.path` goes by the registration of `os`; the attribute read finds the module `posixpath`, which has none, so filters and privileges of `os` do not apply. `gates.py:817` takes "from os.path import join when only os is registered" for a member of `os`; `policy.py:885`: "Submodules of a recursive registration inherit the parent's registration (filters included)" |
| `Policy!AliasMeansImport`, the second name standing for `abc` | `policy.py:827` | a module bound in another package is covered there by the registration of its own parent, which excludes it: it can be read as an attribute and imported by neither name. `:936`: "matching what attribute traversal already enforces" |
| `Policy!WorkerDecidesAlike`, `PrivilegesDeclared` without `~rebound` | `policy.py:749` | a key registered again for another object leaves the old object's entry in the host's index, and in a forked worker's; a rebuilt index has none. `policy.py:618` names what must not happen: "the policy quietly decides differently instead of failing" |
| `Policy!TraversalMeansImport` for configured members | `policy.py:797` | a submodule named in `configure` of a registration that is not recursive can be read as an attribute and not imported. `:892`: "traversal and import are both gated" |
| `Policy!TraversalMeansImport` for members excluded and not included | `policy.py:827` | a submodule that the `include` of a recursive registration leaves out is taken for one registered by itself, before its `exclude` is asked: it can be read as an attribute and not imported. `:822`: "a separately registered submodule"; `docs/policy.md:256`: "Filters on a `recursive=True` registration apply to its submodules too" |
| `Policy!TraversalMeansImport`, `FromMeansAttribute` when a module was registered under a name that was then given to another | `policy.py:749` | the index still has it, and attribute reads go by that; imports go by the dict |
| `NetworkGate!FallsThrough` | `net/patch.py:67` | a thread an execution started stays denied after it. `docs/security.md:200`: "when no sandbox is executing, all calls fall through" |

Three more that contradict no sentence, for whoever changes the policy: an
instance's registration is the first covering one in insertion order, a
module's the nearest (`policy.py:916`, `:896`); an exclude of `a.b` does not
refuse `import a.b.c` (`:946` looks at the last part only); and a from-import
of a submodule that is refused has loaded it already (`:1019`).

### Fairness

Liveness is checked under weak fairness of the steps that the program or the
operating system takes by itself: the host's polling loops and the hook
(which returns or raises), the worker's own steps other than the sandboxed
code's choices, a thread inside a host call, a thread inside a broker start
(also of other code, which lets the lock go), and a forked worker's entry and its read of a pipe that has ended.
No fairness is assumed of the embedder's calls, of crashes, of cancellation
or of the sandboxed code: `OrphanEnds` states as its premise that the code
does not run for ever. The timeout steps of the polling loops are fair
because the code tests its deadline in every iteration.

## What is proved

The specifications of all twelve runs have proofs that TLAPS checks, in eight
modules `...Proofs`. Each component's have the same shape: the inductive invariant as
a conjunction of named parts, lemmas about the operators, one lemma per action
or group of actions that preserves it, and the theorems. A theorem holds for
every value of the constants that the component's one `ASSUME` allows, so for
any number of threads, tasks, files, workers, modules and registrations, and
a proviso, if it has one, is its hypothesis. Four of the modules are
about two components that belong together; they extend both, which is why
the second one's specification bears its name (`ExecutionsSpec`,
`BrokerSpec`, `IsolationSpec`, `HostCallsSpec`).

| Module | Theorems, besides `TypeCorrect` | Assumed of the constants |
|---|---|---|
| `ProcessSandboxProofs` | `WorkersAccounted`, `ShutdownKills`, `TurnsAreOwn`, `ServesWhenFit`, `Refinement` | bounds are numbers, known isolation modes |
| `ExecBudgetProofs` | `RefundExactHolds`, `NoEarlyTimeoutHolds` | finitely many tasks, none called main |
| | of `Executions`: `OnlyAskedCancelledHolds`; `NeverOthersHolds`, `HomesKeptHolds` if `Mode # "threads"` | finitely many calls; `HOMES` is positive |
| `LostWritesProofs` | `NoSilentLossHolds`, `ReportedOnceHolds` | nobody is not an execution; a change can be counted |
| | of `HostCalls`: `PauseFollowsClockHolds`, `OneReaderHolds` | bounds are numbers, no other thread is called main |
| `VfsLoaderProofs` | `NoFailedModuleHolds`, `OneObjectHolds` | dotted names, closed under taking the package |
| `SpoolProofs` | `NoFileOutlivesHolds`, `RefusedOnlyClosedHolds` | bounds are numbers |
| | of `Isolation`: `ServesAsAskedHolds`, `StatusTrueHolds`, `NeverLocksItselfOutHolds` | none: it has no constants |
| `ForkFdsProofs` | `ChannelKeptHolds`, `NothingOfHostsHolds`, `StaleCloseHarmlessHolds` | more descriptor numbers than things that can be open (no `EMFILE`) |
| | of `Broker`: `NeverShrinksHolds`, `RecordTrueHolds`, `WarningsRightHolds`, `OwnBrokerKeptHolds`, if `OneStarter` | bounds are numbers; a thread is of one process |
| `NetworkGateProofs` | `GateHasOriginalHolds`, `GateFollowsCodeHolds`, `DeniedMeetsGatesHolds` | host threads and new threads differ; some method, and none has the name of a threading patch |
| `PolicyProofs` | `WorkerDecidesAlikeHolds`, `PrivilegesDeclaredHolds`, `TraversalMeansImportHolds`, `FromMeansAttributeHolds` | a tree of names, each for a module; a name that stands for another module has no submodules, nor has that module; a class is not registered recursive |

None of the properties is inductive. What each invariant adds, and why:

**ProcessSandbox.** `TypeInv` is `TypeOK` with `CounterInv` and `HandleInv`,
which relate the handles to the worker that exists: a handle is 0 or the
newest worker, a live worker is held, and what a host in each of its states
knows of `started` and of its handles. It gives `TypeCorrect`,
`ShutdownKills` and `NeverLosesWorker`, interrupted waits included. The
others are about a worker on which no wait was cut short and need
`IInv == TypeInv /\ (~disturbed => CalmInv)`.
`CalmInv` has three parts. `QuietInv`: outside an execution the pipe is
quiet, no message of an execution is under way and the worker is in its loop,
unless the handles are gone. This is what an interrupt breaks. `PendingInv`:
in an execution, whatever is in either direction of the pipe bears its
number, at most one `ExecMsg` or answer is unread, and a result is the last
message. `ServedInv`: a worker past its loop was accepted by
`VerifyIsolation` and is prepared or in its hook. The one step that ends a
disturbance starts a worker, and lemma `FreshWorker` shows that a worker just
started satisfies `CalmInv` whatever was left in the pipes of the one before,
because they are new. `Refinement` uses `IInv` to show that an answer read in
a calm state bears the number of the execution that is out.

**ExecBudget.** The lock is what makes this provable: `TimeInv` and
`PlaceInv` say that one task at most is in the middle of `enter` or `exit`, with
no host call counted then, and that a pause lies in the past. `AccountInv`:
unless the budget is torn, what is charged so far, a refund under way counted
as made, is at most the time run, and equal to it while `exec()` runs. The
counters are sizes of sets, so a task that ends must not be in a host call.
For `NoEarlyTimeout`, and for a callback that sets the budget, `LookInv`: who
looked and has a `"clear"` look finds nobody in the middle of moving the
clock; a checkpoint's clock still runs, so the start it compares with has no
refund outstanding, and a budget set in a pause was read after that began.

**Executions.** `AskedInv`, in every mode: while the flag is set, every call
that has cleared it and still runs was asked to stop. The flag belongs to the
sandbox and not to a call, and this is all that keeps a request made between
calls from stopping the next one. The other two hold when calls are set up
one after the other (`Mode` is not `"threads"`). `NumberInv` and `SetupInv`:
the name of the module being set up is the newest number, which no other call
and no home has. `OwnerInv`: two modules never share a name. `HomesInv`: the
homes are in order and any two at least as far apart as their places in the
deque. Hence the one that falls out at the left, when the deque holds more
than `HOMES`, is older than the latest `HOMES` calls, although a call that ran
out of memory leaves a gap in the numbers; without it `HomesKept` is not
inductive.

**HostCalls.** `PauseInv` ties three copies of one fact: the clock of the
running execution is stopped, `running["paused"]` says so, and so does the
last clock message on its way, which comes before the result, or, with none
on its way, the parent. The step that could break it is a thread or finalizer
still in a call of an earlier execution, so `FreshInv` says that nothing uses
the clock of an execution that has not begun, and `ClockInv` that a call in
the middle of `enter` or `exit` holds its clock's lock, alone, so the last one
out is still the last when it tells the parent. `TurnInv`: an execution is in
one place. `OneReader` needs `ReaderInv`: in code that starts no thread and
leaves no file to the collector, a call on its way, or else its answer, is
the only message of its kind, and the call that sent it is the one reading.

**LostWrites.** `MarkInv`: `_save_raised` says exactly that the code saw the
save of the content it now holds fail. A finalizer trusts the mark, so it may
neither outlive a change nor miss a failure. `LossInv`: a loss is that of a
closed file without the mark, with one reporter. `ChargeInv`: an execution
that was charged has begun, and does not end well.

**VfsLoader.** `AnyInv`, with any interleaving of threads: what the cache
holds is loaded, or its body is on a stack; an object is on one stack, once,
and cached under one name; a frame that waits for its package has that one
above it. That gives the first part of `NoFailedModule`. Until
two threads import at once, `SingleInv`: the packages of what is cached are
cached, a running body's object is the one in the cache, and no body above it
on the stack takes it out when it fails. The attempt to prove `PackageInv`
failed for a reason: a plain `a.py` beside a directory `a/` drops itself alone
(`gates.py:394` asks `is_package`), and what was imported from `a/` stays.
The property now says so, and the instance has such a pair.

**Spool.** `DirInv` and `HomeInv` say which directory a result and the worker
use, `FileInv` that every file is in the directory there is and has an owner
that has not read it, `ReadableInv` that nothing unread is gone. A read is
refused only when the directory is not the result's any more.

**Isolation.** `StepInv` says, before each step, what the earlier ones have
done: the seccomp backend is loaded, and no system call filtered, when
Landlock takes the files away, and what each mechanism reported is what it
did. That order is what `NeverLocksItselfOut` rests on. The run tries every
machine and request as well, so the theorem adds the reason and not the range.

**ForkFds.** `HostInv` says which ends are open in the host at each step of a
start, `WindowInv` what the snapshot knows between taking it and the fork,
`StageInv`, `CopyInv`, `KeptInv` and `LeftInv` what a worker's table holds
until it closes copies, has closed them, and has neutralized the rest. The
lemma `LowestFree` (by the pigeonhole principle) says that there is a number
left, so that what the lowest free one is can be reasoned about.

**Broker.** The theorems need `OneStarter`, one thread in each process that
starts workers, because `_apply_forkserver_preload()` reads the list and sets
it without a lock (the disagreements above are what two threads do).
`ListInv`: the list a thread read is still the list when it writes it back.
`OriginInv`: a broker loaded no more than the list has by now, and only an
inherited broker is ever reset. `RecordInv`: a process's own record is of a
broker it started, exact if that one is `vouched`, and such a broker is
recorded unless the start that made it is about to; a start that raises in
between takes the ghost back. `WarnInv` carries a warning from the moment it
is decided to the broker the worker comes from. The theorems, like the run,
allow a fork inside a broker operation.

**NetworkGate.** `InstallInv`: the lock is held by the one thread that is in
an installation, and what is replaced has the real one saved; what is saved
and not replaced is pending, or was skipped. `ReadyInv`: whoever is past a
step of the installation finds all its patches in place but for those.
`DeniedInv`: nothing that is denied, be it a context, a frame, a captured
context or a queued item, exists before every method is in place.
`CopiesInv`: if threads are patched, the value of every context, and every
token a frame will restore, is what the code it is for is due. The nesting is
a stack of any depth, so this is about every frame and not the topmost alone.

**Policy.** `Coherent`, of the host's policy and of the worker's: a key is in
a dict once; what is in the dict is indexed; what is indexed for a module was
in the dict under its key, and is so still unless another object took that
key; and while no key was given again the index is what unpickling would
build. Lemma `NearestOfChild` (a module goes by its package if that is
registered, and otherwise as the package does) makes the three lookups, each
of its own shape, the same one, for a module asked for by its own name; what
else it is bound under is loaded with it and changes none of them. Two attempts failed for a reason, and both
properties say it now: a module excluded by a registration that does not
include it, and a name of the index left behind by a rebound key. The table of
disagreements has them, and `MCPolicy` now has a registration for each.

Only model-checked:

- liveness (`ExecReturns`, `OrphanEnds`, `AwaitEnds`, `StartEnds`,
  `IdleOrphanEnds`): the prover has no rules for fairness and `ENABLED`;
- that the counterexamples of the disagreements above exist: a theorem says
  what holds, a run what does not.

## Not modelled

The rewriter and the builtins (pure checks over Python's syntax and values),
output rendering, the factory, the memory limit (three calls, right when
executions nest; it is the process's, and overlapping executions restore each
other's), the rule sets of Landlock, seccomp and
Seatbelt, and pickling, beyond the fact that a value or an error may not
pickle. Directory operations of the remote filesystem are forwards without
state. Of the gates, what keeps no state: provided modules, the `sys`
stand-in, the `main` proxy, `str.format`, and names that are private or
dunder, which are decided without the registrations. Capturing output is text
buffers of one execution, found through a context variable.

Exceptions at places the models leave out: `tuple()` of the weak set of
connections may raise when another thread adds to it
(`process/sandbox.py:849`; no worker results). A backend's exceptions other
than `ImportError` and `OSError` (`landlock.py:39`, `:55`; `seccomp.py:198`,
`:204`, `:256`), and warnings made errors, fail the worker in
`worker.py:344` before it is ready, where `Isolation` has it report what it
could not apply. Ctrl-C leaves `exec()` before `settle()` (`sandbox.py:1108`,
`:1300`): what `LostWrites` charges to that execution is then dropped with
its result, the exception being what the caller sees.

Of the network gate, two cases: a work item queued before `submit` was patched
runs in its thread's own context (`Submit` is of patched ones), and a granted
generator function runs its body without the grant (`CallGranted`). Of the
policy: functions granted with `Policy.fn`, and second names of modules that
have submodules themselves.

Listed as a hazard without a property: a cancelled `aexec()` whose executor
thread goes on in `exec()`. `ProcessSandbox` has one thread in
`_await_result`, and its proofs rest on that; two would take turns reading one
pipe.

## Plan

Done, in this order: `ExecService` and `ProcessSandbox` (the system's core)
with its proofs; the worker's host calls and clocks; lost writes; the loader;
the process-wide state (broker, network gate, executions); isolation and the
spool; then inherited descriptors, the policy with its gates, the loader's
threads and an interrupted `install()`.

Then the theorems: about the budget, lost writes, the loader, the spool,
descriptors, the network gate and the policy; and then about the executions
of a sandbox, the broker, isolation and host calls. Every invariant and action
property of the runs is now a theorem.

Then, what several models had in one step was taken apart: `exit` of the
clock against readers without the lock, `install_threading()`, the packages
of the loader, starts of a broker that raise, generators, and modules with two
names. Their theorems were stated and proved again.

Next, models: a second thread in `exec()`, for a cancelled `aexec()`; then
its theorems, which `QuietInv` of `ProcessSandbox` would have to give up.
