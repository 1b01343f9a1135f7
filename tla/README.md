# Formal models of Aetherium's VM runtime

Aetherium is a HarmonyOS application that runs QEMU as a library inside its own
process: an ArkTS user interface calls C++ functions through N-API, and those
start one embedded QEMU core on a thread of its own.  The program's own logic is
in `entry/src/main`, in `patches/qemu`, and in the overlay that
`ports/qemu-11.1` lays over QEMU's tree; the rest is vendored.  This directory
models that logic in TLA+, checks it with TLC and proves the core of it with
TLAPS.

Contents: [the system](#the-system) · [modules](#modules) · [runs](#runs) ·
[bounds](#bounds) · [fairness](#fairness) · [findings](#findings) ·
[proofs](#proofs) · [not modelled](#what-is-not-modelled) · [plan](#plan)

## The system

| component | code | state it keeps | operations | talks to |
| --- | --- | --- | --- | --- |
| VM runtime | `cpp/napi_init.cpp` 3400-4360, `cpp/vm_lifecycle.h` | `g_vmRunning`, `g_vmThreads`, `g_vmStates`, `g_vmStartupStates`, one `VmLifecycle` per run, `g_qemu_initialized` | `StartVm`, the runner thread, `RequestVmStop`, the stop monitor, `GetVmStatus`, the disk tools | called by the UI thread, enters the QEMU core, owns the microphone session |
| stop monitor | `WaitForVmStop` in `vm_lifecycle.h`, `SendVmQmpQuit`, `ReadStopQmpReply` | clocks, `accepted`, `deadlineReported`, one socket | wait, escalate to a QMP quit, report the deadline, join | QEMU's monitor socket |
| configuration and files | `ParseVMConfig`, `BuildQemuArgs`, `CreateVirtualDisk`, the preflight, `EnsureQemuCoreLoaded`; `FirmwareManager.ets`, `KeymapsManager.ets` | firmware, variables, key maps, disk and ISO on disk; the loaded core; the command line | prepare, create, check, build, load, enter `qemu_init`; import, delete, create and resize a disk | the file system, `dlopen` |
| main loop, run state, timers | overlay `system/runstate.c`, `util/main-loop.c`, `util/qemu-timer.c` | `current_run_state`, request flags, timer lists, the virtual clock | one turn of `main_loop_should_exit` and `main_loop_wait`; arm, delete, run timers; switch the clock | vCPUs, an IOThread, the stop monitor, QMP |
| vCPU thread and RCU | overlay `accel/tcg/tcg-accel-ops-rr.c`, `util/rcu.c`, `qemu_hmos_phone_exports.c` | `rr_current_cpu`, the vCPUs' flags, grace period, reader lists, callback queue | the round-robin loop, kicks, pause, resume, join; read sections, `synchronize_rcu`, `call_rcu1`, `drain_call_rcu` | the entry thread, the `call_rcu` thread, an IOThread |
| microphone session | `cpp/microphone_session.h` | VM name, generation, active, gate | `Begin`, `Running`, `Enable`, `Stop`, `End` | runtime above, audio exports below |
| microphone policy | `managers/Microphone{Manager,Consent,Windows}.ets` | windows and their visibility, one handoff, one consent, guards | window and application events, enable, disable, suspend, resume, 500 ms poll | UI thread; native session through N-API; permission dialog |
| OHAudio capture | `patches/qemu/0002-ohos-ohaudio-audiodev.patch` | voice, capturer, ring, policy atomics, fault latch | `set_microphone_enabled`, `get_microphone_status`, the voice operations, three stream callbacks | QEMU main loop, N-API threads, OHAudio threads |
| main page | `pages/Index.ets`, `managers/VmStore.ets`, `managers/QemuVMManager.ets` | the VM list with shown statuses, the persisted list | start, stop, delete, 2 s status timer, save | N-API, preferences, files |
| native VNC client | `cpp/napi_init.cpp` 4625-5300 | session: client, worker, render thread, surface, frame, flags, `connectSeq` | connect, disconnect, worker loop, set and clear a surface, render | detached threads, libvncclient |
| serial bridge, output capture | `cpp/napi_init.cpp` 212-481, 5690-5760 | pipe, flag and reader of the capture; descriptor and thread of the bridge; `g_consoleCallback` | capture, read, restore; connect, receive, write, close; register a callback | stdout of the core, the guest's serial socket, the pages |
| everything else | pages, wizard, download managers, scans, tooling | see [not modelled](#what-is-not-modelled) | | |

What makes them hard, and what makes each correct:

* **VM runtime.**  Callers, a runner and a monitor per run interleave; the core
  is a process-wide global that cannot be killed.  Correct: one runner; no
  joinable `std::thread` is replaced; a claimed stop is always in somebody's
  hands; a stop that races with `qemu_init` reaches the main loop; a terminal
  status means that the runner returned and a failure is never forgotten.
* **Stop monitor.**  Timeouts, retries, chunked replies.  Correct: only a quit
  that QEMU executed counts as accepted; the deadline is noticed within one
  exchange; failed exchanges are retried until one succeeds.
* **Configuration and files.**  Any write may fail or be cut short and the
  process may die between two of them, while what is there is trusted by the
  next start.  Correct: QEMU is entered with a command line whose parts fit
  together, with whole files, and no start loses what a guest wrote.
* **Main loop, run state, timers.**  Requests come from threads with and without
  the big lock, at any point of the loop's turn.  Correct: none is lost, no
  order of them aborts the process, the poll never oversleeps a timer, a clock
  that is off is silent.
* **vCPU thread and RCU.**  A vCPU leaves guest code only if a kick reaches it,
  and kicks read what other threads write.  Correct: nothing freed is used, and
  pauses, grace periods, drains, the other vCPUs and the final join all end.
* **Microphone session and policy.**  Permission answers, polls, window events
  and faults arrive late and in any order, for a VM that may have been
  restarted under the same name.  Correct: nothing late opens the gate; it is
  open only behind a visible window of that very run; a handoff resumes at its
  target only.
* **OHAudio capture.**  Data, interrupt and error callbacks against control
  calls and the guest's operations; `Release` waits for callbacks under a lock.
  Correct: a closed gate is silent, nothing stale is delivered, faults latch,
  every call returns.
* **Main page.**  Overlapping awaits all write `vm.status`; the process may end.
  Correct: "stopped" is shown only when true, and the list converges on what
  native reports.
* **VNC client.**  Detached connect and clean-up threads against a worker and a
  render thread.  Correct: no handle lost, no freed client used, a disconnect
  wins over a pending connect and completes, the picture is the latest.
* **Serial bridge and capture.**  A bridge that blocks in a socket the UI thread
  closes, and threads that their owners join.  Correct: no foreign descriptor
  is closed or written to, no replaced callback is called, joins return, the
  bridge finds every run's port.

`PROJECT.json` lists every component with its status and every hazard with the
source line where it bites and the properties that cover it.

## Modules

```
SingleRun <------- refined by ------- VmRuntime ---- EXTENDS ---> VmLifecycle
   ^                                   ^     ^  \--- EXTENDS ---> MicrophoneSession
   | INSTANCE                          |     |                        ^
 VmPage                       MCVmRuntime  VmRuntimeProofs            |
                                              MicrophoneManager > MicrophoneConsent > MicrophoneWindows

 MCVmSession > VmSession > VmBoot > VmConfig          RrThread > Rcu
                         \ MainLoop > Timers          VncRender > VncSession
 StopWatchdog       OHAudioInput       Console         (each on its own)
```

* **`VmLifecycle`** is `vm_lifecycle.h`'s object.  Every method runs under the
  object's mutex, so each is an operator from the object to its next value.
  The joined error text is the set of reasons in it.
* **`MicrophoneSession`** is `microphone_session.h` in the same style, with its
  generation counter of a given width (it wraps and skips 0).
* **`VmRuntime`** is the state machine of `napi_init.cpp`.  A run `r` is the
  r-th `VmLifecycle` object that `StartVm` created.  `call[c].pc` is where a
  caller is inside a function, `rpc[r]` where a runner is between `qemu_init`
  and its last status update, `mpc[r]` where a stop monitor is.  A step is what
  a thread does between two points where another can observe it: atomics, a
  section under a mutex, a call that blocks.  `vmMutex` is a variable because
  `RequestVmStop` and the resize tool hold it across several such points.
* **`SingleRun`** is what the user interface may rely on: one run, a phase that
  only moves forward, a sticky failure, a terminal phase before reaping, a start
  only after it.  `VmRuntime!ImplementsSingleRun` is the refinement (the mapping
  takes the last run's status and error and `StartAllowed` for `reaped`), and
  `VmPage` is built on the abstract module, so the page is checked against every
  runtime that refines it.
* **`StopWatchdog`** is the monitor of one run with its clock, its socket and a
  QEMU at the other end.  `VmRuntime` has the same monitor without time.
* **`VmConfig`** is the way from the page's request to the command line as pure
  operators: `ParseVMConfig` and the branches of `BuildQemuArgs`.  An argument
  is a record of the names it declares (`holds`), those it refers to (`needs`),
  its boot index and the file it opens; its other text is left out.
* **`VmBoot`** gives those operators a life: the page's copies of firmware,
  key maps and ISO, the disk that is created and checked, the variables file, the
  core that is loaded, `qemu_init`; and between starts the guest's writes, imports,
  disk tools, deletion, a crash at any point.  Files outlive the process.
  `files.stat` says whether `stat()` works: `FileExists` is what it answers, while
  `open` finds what is `Present`.
* **`Timers`** is `qemu-timer.c`: two lists of the virtual clock, the main
  loop's and an IOThread's, with the steps of `timerlist_run_timers` apart.
  **`MainLoop`** is `qemu_main_loop`: `at` says where the loop's turn is,
  `requested` and `vmstop` are the flags other threads set, `Transitions` is the
  table of run states.  `cpus.c` is external and reduced to what it does here.
* **`VmSession`** composes the two halves: a start as in `VmBoot` until
  `qemu_init` returns, then the session in `MainLoop` until the loop ends.  Only
  the last start's session is followed.  When it begins, the variables of the
  boot are set to fixed values (`Forget`), since nothing reads them any more:
  the ways that led there would only multiply the states.
* **`Rcu`** is `rcu.c` with readers, the two lists of `wait_for_readers`, the
  lock-free callback queue and the `call_rcu` thread; **`RrThread`** adds the
  vCPU thread and the entry thread that starts, pauses and joins it.
* **`MicrophoneWindows`, `MicrophoneConsent`, `MicrophoneManager`** are the three
  ArkTS files, bottom to top.  They run on one thread, so an event handler, or
  the stretch of an async function between two awaits, is one step.  The code's
  generation and epoch counters only tell a task whether it was cancelled while
  it awaited something; a task carries two booleans instead.
* **`OHAudioInput`** is the capture half of the audio patch: two threads that
  serialize on `aether_input_lock`, callbacks that only take the ring mutex and
  read the atomics before it.  A sample is the number of closures completed when
  it was captured, which is all `NoStaleSamples` has to tell apart.
* **`VmPage`** is `Index.ets` over `VmStore.ets`: `pending` counts the operations
  that await something; `calling` marks the 1.5 s during which `native.startVm`
  blocks the UI thread.
* **`VncSession`** is one session of the native VNC client: UI requests, their
  detached threads, the worker of every established client.  **`VncRender`**
  extends it with surfaces, frames and render threads, which the clean-ups stop,
  join and reset with the rest.  `overlapped` is a history variable: a surface
  was set while a clean-up went on, which the code does not prevent.
* **`Console`** is the output capture of a run and the serial bridge, with the
  callback they share.  A descriptor is a number that the process may give to
  somebody else once it is closed.
* **`MCVmRuntime`** and **`MCVmSession`** only add symmetry sets and the values
  of constants.
* **`VmRuntimeProofs`**, **`OHAudioInputProofs`**, **`StopWatchdogProofs`**,
  **`VmPageProofs`**, **`VmSessionProofs`** (the main loop, the starts and the
  console), **`VncProofs`**, **`MicrophoneProofs`** and **`RrProofs`** hold the
  theorems about the modules they extend, and no part of the model.

Locals of a thread that it will not read again (the operation of a call that has
returned, the target of a cancelled permission check, a fetched descriptor) are
set to a fixed value, so that they do not multiply states that behave alike.

Each definition's source lines are in the `map` of `PROJECT.json`.  Definitions
whose comment begins with "Mutant" are plausible bugs: substituted for the
definition they imitate, each makes TLC find the property it belongs to violated.

## Runs

| run | module, configuration | what it shows |
| --- | --- | --- |
| `vm_runtime` | `MCVmRuntime`, `VmRuntimeSafety` | one caller, two VM names, two runs, all services: ownership, stop, status, consent and disk-tool properties, and the refinement of `SingleRun` |
| `vm_runtime_liveness` | `MCVmRuntime`, `VmRuntimeLiveness` | every stop whose monitor was created ends with the runner joined, although QMP may never answer |
| `stop_watchdog` | `StopWatchdog` | acceptance is real, the deadline is seen in bounded time, a failed exchange is retried |
| `vm_session` | `MCVmSession`, `VmSession` | two starts with failing writes and crashes, then the core's main loop: sound command line, whole files, kept data; served requests, punctual timers, a silent stopped clock, legal run states |
| `vm_boot_order` | `MCVmSession`, `VmBootOrder` | **violation**: see findings |
| `vcpu_rcu` | `RrThread`, `VcpuRcu` | callbacks run in their turn, kicks reach what is alive, nothing waits for ever, no vCPU starves |
| `ohaudio_input` | `OHAudioInput`, `OHAudioSafety` | the silence, latch and staleness properties of the capture backend over two pauses, and that no operation waits for ever behind `Release` |
| `microphone_restarts` | `MicrophoneManager`, `MicrophoneRestarts` | two windows, two runs of one VM: nothing late opens the microphone, and an open one is visible and reported |
| `microphone_snapshots` | `MicrophoneManager`, `MicrophoneSnapshots` | one run, with the silent `isWindowShowing()` snapshot as a second signal: requests die with their window, handoffs resume at their target |
| `page` | `VmPage` | overlapping starts, stops, deletions, the timer and a crash: `StoppedIsTrue` and `ShowsTruth` |
| `vnc_session` | `VncRender`, `VncSession` | handles, clients, cancelled attempts, the picture and the clean-ups of a VNC session |
| `console` | `Console` | descriptors and callbacks of the serial bridge, both joins, and that the bridge finds each run's port |

A module's type invariant is a conjunct of its first safety invariant, so each
run checks it.  The type invariant of `VmRuntime` is proved
([proofs](#proofs)), as are `TerminalMeansReturned` and `FailureSticks`.

Deadlock is checked except where the system really may stop: `StopWatchdog`
(the monitor thread ends), `VncSession` (its requests are used up and its
threads through), `VmSession` (the starts are used up and the loop has ended),
`VcpuRcu` (the core is torn down) and `Console` (its runs
and callbacks are used up).  In the other modules some step is always possible by design, so a
deadlock would be an error of the model.

## Bounds

* **VmRuntime:** `MaxRuns = 2`.  The code relates a run to the one before it
  only (the last entry of each map); two runs give every reuse of a name, of a
  startup verdict, of a joinable handle and of a session token, and the proofs
  cover any number.  `VMs` has two names where two VMs compete, one for the
  liveness run.  `Callers` is the one UI thread of the shipped application; the
  proofs cover any number of them.  `GenWidth = 4` keeps the counter from
  wrapping within two runs: a wrap takes 2^32 restarts of one process.
* **OHAudio:** `MaxClosures = 2`: a sample from before, between
  and after two pauses.  One voice, because the driver declares
  `max_voices_in = 1`.  The callers' protocol is assumed: `MicrophoneSession`
  and `MicrophoneConsent` always close the gate before asking for it again, and
  hold a mutex, so control calls do not overlap.  Stop and Release are assumed
  to wait for callbacks, as the patch's own locking relies on.
* **Microphone:** two windows (the entry and a viewer) are the smallest handoff;
  one VM name suffices because session numbers are unique across VMs, and a
  restart under the same name is the harder case; two runs give a stale token.
  `Signals` is one event-driven signal, plus the silent snapshot in the second
  run: the code conjoins all of them.
* **VmPage:** four clicks over two VMs allow a start and a stop of one with a
  start and a deletion of the other in between; two runs; one crash.
* **StopWatchdog:** one unit is one second.  The delays are the code's (5 s,
  7 s, 2 s per reply); the pause (200 ms in the code) is rounded up to one unit and
  the gap between exchanges to two, so that it still separates attempts.  Clocks stop
  counting where no guard tells later values apart.  `MaxFaults = 4` exchanges
  fail or time out, `MaxWire = 3` lines wait in the socket.
* **VmSession:** `MCHardware` is a table: the fields that meet in one decision
  (guest, ISO, machine) in all combinations, and every value of the others that a
  branch of the code tells apart; all combinations of all fields are left to the
  theorem.  `MCImages` has one image per verdict of the preflight; `MCCores` has a
  core that lacks a symbol of the run and one that lacks the microphone's.
  `MaxStarts = 2`: what a start leaves behind is met by the next one;
  `MaxFaults = 1` failing write or copy, crash, lost ISO or `stat()` that begins to
  fail, anywhere.
  Three timers (two in the main loop's list, one in the IOThread's), two
  instants to arm them for, and `MaxRequests = 2` acts of guest, user and other
  threads that race with each other and with the loop.
* **VcpuRcu:** one or two vCPUs, two guest or user events before the end, four
  threads with reader sections, one queued callback per caller and a drain.
  `MaxSleeps = 1` poll before readers are forced (5 in the code) and
  `CallMin = 2` callbacks (30 in the code) keep both sides of each threshold.
* **VncSession:** `MaxRequests = 3` connects and disconnects, `MaxSurfaces = 3` and
  two frames, with `MaxCalls = 4` requests and surfaces together: three requests
  and a surface, or a session, its clean-up and surfaces before, in and after it.
  Surfaces are set at any time, also during a clean-up.
* **Console:** two runs, three callbacks, a pipe that is full after one write.

## Fairness

* `VmRuntime`: every thread that can continue does; `qemu_init` returns; a main
  loop with a pending shutdown request returns (QEMU checks the request in every
  iteration).  A runner and a monitor that wait for `g_vmMutex` get it although
  callers take it again and again (strong fairness).  Nothing obliges a caller
  to call, a guest to power off, QMP to answer or a deadline to pass.
* `OHAudioInput`: the lock holder runs and callbacks return (weak fairness); a
  waiter gets `aether_input_lock` if it is free again and again (strong fairness
  of `Locks`): a default pthread mutex promises no more than that, and the
  operating system's scheduler no less.
* `VmPage`: awaits settle, `startVm` returns after 1.5 s at the latest, the timer
  fires.  The user and the guest owe nothing.
* `StopWatchdog`: the monitor runs, time passes, a live QEMU serves its socket;
  up to `MaxFaults` exchanges fail all the same.
* `MainLoop`: the loop's thread goes on (it polls with a timeout or is notified),
  a thread that has announced a notification sends it, the IOThread finishes the
  list it runs.  Guest, user and devices owe nothing.
* `RrThread`: each thread inside the core goes on and a mutex is granted to one
  that keeps finding it free.  A vCPU leaves guest code only when it is asked
  to; guest behaviour and the callers' decisions carry no fairness.  Both
  liveness properties except one case, `Outrun`: the retry loop of
  `rr_kick_next_cpu` repeats while `rr_current_cpu` changes, and nothing in the
  code bounds how often a vCPU thread may change it.
* `Console`: the threads are scheduled and the UI thread gets the bridge's lock,
  which the bridge takes again and again, if it keeps asking (strong fairness).
* `VncRender` has no fairness.  Within the bounds every thread has finitely many
  steps, so that clean-ups end is an invariant: where no thread can go on by
  itself (`~ENABLED Scheduled`), all are through.
* The microphone policy has no liveness property: a user or a dialog may wait
  for ever, and the code does not promise otherwise.

## Findings

* `vm_boot_order`: the page starts a VM without `installMode`.  `BuildQemuArgs`
  then gives the disk `bootindex=0`, and a readable ISO gets 0 as well, on which
  QEMU exits.  The comment above the code says that the disk goes to 1 whenever
  there is an ISO.

Behaviour that the documents name as a limit, or of which nobody promises the
contrary, is a hazard with a note and not a finding: the startup that completes
before its own stop request and leaves a handle nobody reaps; a VM deleted while
it starts; the VNC worker that is scheduled so late that it undoes its own stop
(`CleanUpsEnd` excuses exactly that); the capture's last output; the stop for an error that meets a suspended guest
(`NoInvalidTransition` excepts the suspended state, which the table leaves
incomplete in QEMU itself).

Two properties hold only under a condition that their own words state, and the
runs explore what lies beyond it:

* `SessionKept` (its clauses about render threads) and `PictureCurrent` speak of
  histories without a surface set during a clean-up.  In the others
  `vncSetSurface` may find `render_running` cleared by a thread that is ending
  and still joinable, and assigns over its `std::thread`
  (`napi_init.cpp:5250`): without the condition TLC finds `RenderWorkerKept`
  violated after eleven steps.  The comment at 5245 says that the lifecycle lock protects the
  thread object against a concurrent disconnect or clean-up; it does protect the
  assignment, but not what the assignment relies on.  No shipped page sets a
  surface.
* `GuestDataKept` speaks of an image that `stat()` finds.  The comments of
  `BuildQemuArgs` (1917, 1924, 2136, 2353) expect `stat()` in the sandbox to fail on
  files that are there, and work around it for key maps, firmware and ISO.
  `StartVm` has no such workaround for the disk: it then creates one over it, with
  `O_TRUNC` (3687, 1825), and so does the disk tool that must not overwrite.
  `DiskMissed` names these steps.

## Proofs

Each theorem holds for every value of the constants that the modules' named
assumptions admit.  None of the invariants is inductive alone; each module
defines the conjunction that is (`IInv`; in `VmSessionProofs` `BootInv`,
`LoopInv` and `ConsoleInv`, in `MicrophoneProofs` `Inv`), proves that `Init` establishes it and every action keeps it, one lemma for an action or
for a group of them, and derives the invariants and action properties from it.
Every inductive invariant was first checked by TLC on the bounds of the runs.

| Module | Proved |
|---|---|
| `VmRuntimeProofs` | `TypeOK`, `SingleRunner`, `HandleKept`, `OwnerActs`, `StopReachesCore`, `TerminalMeansReturned`, `FailureSticks`; `ImplementsSingleRun`, `DiskToolAlone`, `AnswersAreTrue`, `ConsentIsForThisRun`, `CaptureBelongsToRun` |
| `OHAudioInputProofs` | `TypeOK`, `ClosedIsSilent`, `NoStaleSamples`, `LatchOutlivesPause` |
| `StopWatchdogProofs` | `VerdictIsTrue` |
| `VmPageProofs` | `StoppedIsTrue` |
| `VmSessionProofs` | `CommandLineSound`, `FilesUsable`, `GuestDataKept`; `ClockSilent`, `NoInvalidTransition`, `NoOversleep`; `BridgeOwns` |
| `VncProofs` | `DisconnectWins`, `WorkersKept` and `ClientAlive`; `SessionKept` and `PictureCurrent` |
| `MicrophoneProofs` | `CaptureIsVisible`, `ConsentHasWindow`; `OpensOnlyOnRequest`, `ResumesAtTarget` |
| `RrProofs` | `CallbacksInTurn` (with `TypeOK`), `KickIsSafe` |

**The runtime.**

    IInv == TypeOK /\ CallInv /\ OwnershipInv /\ LifeInv /\ CoreInv /\ OwnerActs

* `CallInv`: what a call holds on to exists, and a call inside a section of
  `g_vmMutex` holds it.  Without it a stop could claim a run that was replaced.
* `OwnershipInv`: the maps name launched runs, every run but the last was joined
  by its monitor, and the last one's entries stay until its monitor takes them.
  This is where `StartAllowed` (nothing blocks, no handle is left) turns into
  "the previous runner has exited", hence `SingleRunner` and `HandleKept`.
* `LifeInv`: a record is active exactly until its runner completes it, terminal
  statuses are final, and the stop reservation is held from the claim until the
  join.  It excludes a second monitor.
* `CoreInv`: the core counts as initialised from `qemu_init` to the cleanup, and
  a monitor that looked while it was not finds a runner that cannot be marked
  running; so a runner in its loop with a watching monitor has its shutdown
  request, which is `StopReachesCore`.

Each method of `VmLifecycle` and `MicrophoneSession` has a lemma saying what it
keeps.  What the callers rely on builds on that:

* `RuntimeIsSingleRun` is the refinement, step by step.  The initial state maps
  to `SingleRun!Init`, and each step to one of its actions or a stutter.  Two
  more facts carry it: an inactive record has a terminal status (`PhaseInv`), and
  a handle in `g_vmThreads` is that of a run nobody has joined (`HandleInv`), so
  that `StartAllowed` holds exactly when the last run was joined, which is what
  the mapping takes for `reaped`.
* An answer is true when it is given, and the resize tool has the image for
  itself, because both are decided in one section of `g_vmMutex` in which no
  run can start.
* Microphone consent: `mic.gate` opens only for the run that asked
  (`ConsentIsForThisRun`), and capture belongs to the last run while its runner
  may use it (`CaptureBelongsToRun`).  The second has the hypothesis
  `MaxRuns < GenWidth`: fewer than 2^32 starts in one process.  It is false
  without: a token of the wrapped counter could be an old one.

**The capture stream.**  `ClosedIsSilent` speaks of a closed gate only.  `LockInv`
says who can be where while `aether_input_lock` is held, `OperationInv` and
`StreamInv` what exists at each point of the building and the tearing down;
from these `GateInv` follows: with the gate closed a stream is on its way down,
and one is built up only by the thread that the closing request waits for.
`SampleInv` and `FaultInv` give `NoStaleSamples` and `LatchOutlivesPause`.

**The stop monitor.**  `VerdictIsTrue` has a half about the wire (a quit is on
its way back only if QEMU executed it) and a half about time: `LatenessInv` has
for each point of an exchange the latest moment at which the monitor can leave
it, so that a deadline is reported at most one exchange and one pause late.

**The page.**  `StoppedIsTrue` is nearly inductive; it needs `OwnerInv`, that the
runtime names a VM as soon as a run was started and that a reaped run is over,
and `PendingInv`, that every pending operation was asked for.

**The console.**  `FdInv`: the bridge's number is an open connection's.
`JoinInv`: a bridge whose flag is clear is on its way out only while `SerialStop`
waits for it.  `CallbackInv` then follows: a callback is replaced only while
there is no bridge that could call it.

**The start.**  A part of the command line that stands behind a set of declared
names is in order if each of its options finds what it needs there or in front of
it and declares only new names (`Part`).  `Chain` says that parts compose; one
lemma for each part of `BuildQemuArgs` says what it takes and what it adds, and
`CommandLine` puts the fourteen together.  `BootInv` carries it through a start:
`LineInv`, that nothing `BuildQemuArgs` has read changes before `qemu_init` gets
the line but that the ISO may go; `FilesWhole`, that nothing is cut or missed
without a fault; `DiskInv`, that there is a disk from its creation on, that one
which the preflight refuses gets no further unless `stat()` ever failed, and that
whoever wrote to one left it.  A step that creates a disk over it has then missed
it (`DiskMissed`), which is `GuestDataKept`.  The hardware is any that the page can store, the images any
that are not empty (`BootAssumption`).

**The main loop.**  `TimersInv`: each list has exactly its armed timers, each
once, any two in the order of their times; the places where timers are inserted
and taken out are lemmas on sequences.  `DoneInv`: the event of a list is clear
exactly while its timers are being run past the reset, so that whoever switches
the clock off and waits for the event finds it silent (`ClockSilent`).
`RunstateInv`: without a migration seven run states are reached, and the table
has what the code asks for from each of them but "suspended", which
`NoInvalidTransition` excepts.  `SleepInv`: while the loop polls, nothing puts an
earlier timer in front without kicking it.  The theorems are about
`SessionSpec`, so they hold in every session that a start leads to.

**The VNC client.**  Requests are numbered as they come and the number is what
an attempt compares, so only the last one is not cancelled (`SeqInv`).  A client
on the session came from the last attempt that cleaned up, and the requests
after it have not begun to (`ClientInv`); hence an attempt that may install
finds no client to overwrite, and after a disconnect none is left.
`CleanUpInv` and `LiveInv` say to whom a client belongs that is not the
session's.  `WorkersKept`, `ClientAlive` and `DisconnectWins` hold whenever
surfaces are set.  The clauses about render threads and the picture rest on
`Tidy`, which is inductive only as long as no surface was set during a clean-up:
hence `~overlapped => Tidy` in `IInv`, beside what always holds of the drawing
(`DrawnInv`).  No constant is assumed to have a value.

**The microphone policy.**  The operators of the three classes change the whole
policy record, so the invariant is a predicate on a record (`Inv(q)`) and each
operator has a lemma from record to record.  `Weak` (the type, a gate that the
consent can close, the bookkeeping of preflights) is all that an operation which
closes the gate needs to establish `Inv` (`ShutInv`): that is why a failure may
be handled in any intermediate state.  `Core` is `Inv` without what it says of
windows, which is what holds between a change of the windows and the
`Reconcile` that follows it (`ReconcileFollows`).  The gate opens in one place,
`EnableNativeInv`, whose hypotheses are the guards in front of it, hence
`OpensOnlyOnRequest`; and a suspended consent with a handoff keeps that
handoff's target until it resumes, hence `ResumesAtTarget`.

**RCU and the vCPU thread.**

    IInv == RcuInv /\ CpuInv /\ LifeInv /\ KickInv
    RcuInv == ReaderInv /\ SyncInv /\ CallersInv /\ QueueInv

* `ReaderInv`: the registry and the list of quiescent readers name exactly the
  registered threads, each once, and a reader's period is one that has begun.
  `SyncInv`: who synchronizes holds the locks that `rcu.c` takes, and the
  second list is empty whenever they are free.
* `Graced(x)`: while a grace period is under way, whoever may still use the node
  `x` is in the registry with an older period, so that an empty registry means
  that nobody is; when it is done, nobody is.  It holds for the nodes that
  `call_rcu_thread` counted before it synchronized, not for those queued since.
* `QueueInv`: there are positions `a .. b`, each with a node of its own, such that
  the links lead from each to the next or are not set yet, the dummy stands at
  `d`, and the nodes up to `m` were queued before the grace period.
  `TryDequeue` takes the first position, or moves a dummy that stands there
  behind the last one and takes the next, if the link to what follows is set;
  each is a lemma about these positions.
* `CallersInv`: a thread's drain node stands behind the node it queued before,
  which is what `drain_call_rcu` promises, and `in_drain_call_rcu` counts the
  threads that wait.
* `KickInv`: a force notifier runs only under the registry lock and while the
  vCPU thread is in the registry.  That thread needs the lock to leave the
  registry, and by `LifeInv` it does so before it is joined and its storage goes.

The proof was also a check of the model: two guards of `TryDequeue`'s `CASE`
overlapped, where TLC took the first and the semantics leaves the choice open.
They are disjoint now.

Only model-checked: `CleanUpsEnd` and every liveness property, because `ENABLED`
and fairness are out of the prover's reach.  Every other safety invariant and
action property of a run is the statement of a theorem, with the hypotheses
named above (`MaxRuns < GenWidth`).

## What is not modelled

* Bytes and text: image contents and the built-in qcow2 writer's layout, JSON of
  QMP replies, pixels, console text, the `getLastError` record and the logs.
* VNC pointer and key events (they only forward) and the pages around the
  client; the capture's stdin pipe, its second reader (the same code as the
  first) and its half-failed construction.
* Of the overlay: icount, replay and tracing, which the bridge never turns on,
  QMP queries without effect, Windows branches, `cpu-common.c` beyond
  `cpu_exit`, and the fork handlers of `rcu.c`, which nothing calls.  `cpus.c`,
  devices, block layer and monitor are not in the repository: they appear as the
  steps their callers see.
* The optional shutdown symbol of the core (`napi_init.cpp` 3338, 3476, 3536): it is
  taken to be there, as it is in the core that the patches build.
* `fs.access` is taken as the page uses it, to reject a file that is not there.
* Settings, previews, shortcuts, the "paused" status on the page: forms around
  the same list.
* Device scan, KVM and JIT probes: read-only caches of what the system reports.
* `QemuVMManager`'s worker path (never enabled), the download managers,
  `VMManagementPage` and `VNCConnection` (no shipped page uses them), pages
  without state, theme and layout.
* `qemu_wrapper.cpp` and `napi_impl.cpp`, older entry points beside the path
  that `StartVm` takes; the playback voice, the TPM patch, build and compliance
  tooling, vendored code.

## Plan

Done, in this order: `VmLifecycle`, `MicrophoneSession`, `VmRuntime`,
`SingleRun` and its refinement, `VmRuntimeProofs`; `OHAudioInput`; the three
microphone modules; `VmPage`; `StopWatchdog`; `VncSession`; `Rcu` and
`RrThread`; `VmConfig` and `VmBoot`; `Timers`, `MainLoop` and their composition
`VmSession`; `VncRender`; `Console`.

Then the proofs: `OHAudioInputProofs`, `StopWatchdogProofs`, `VmPageProofs`,
`VmSessionProofs`, `VncProofs`, `MicrophoneProofs`, `RrProofs`.

Left: what the checker cannot settle on small instances and the prover does not
reach, the liveness properties for every value of the constants and
`CleanUpsEnd`; and the parts listed under "What is not modelled".
