------------------------------ MODULE VmRuntime ------------------------------
(***************************************************************************)
(* The native VM runtime of napi_init.cpp: StartVm, the runner thread that *)
(* enters the embedded QEMU core, RequestVmStop and its detached monitor,  *)
(* GetVmStatus, the disk tools and the microphone entry points.            *)
(*                                                                         *)
(* Threads: the callers of N-API functions, one runner per launched VM and *)
(* at most one stop monitor per runner.  A run is a number: the run r is   *)
(* the r-th VmLifecycle object StartVm created.  A step is what a thread   *)
(* does between two points where another thread can observe it; g_vmMutex  *)
(* is a variable where it is held across several such points.              *)
(***************************************************************************)
EXTENDS VmLifecycle, MicrophoneSession

CONSTANTS Callers,  (* threads that call N-API functions                     *)
          Services, (* the functions they call: "start", "stop", "status",   *)
                    (* "disk", "microphone"                                  *)
          MaxRuns   (* bound on the number of runs that are launched         *)

ASSUME CallersAssumption == Callers # {} /\ "free" \notin Callers
ASSUME MaxRunsAssumption == MaxRuns \in Nat \ {0}

Runs == 1 .. MaxRuns
NoRun == 0
RunOrNone == 0 .. MaxRuns

VARIABLES
  nRuns,         (* how many runs were launched                              *)
  vmOf,          (* the name each run was started under                      *)
  session,       (* the microphone generation each run was given             *)
  vmRunning,     (* g_vmRunning: the last run of each name                   *)
  vmThreads,     (* g_vmThreads: the run whose joinable handle is in the map *)
  life,          (* the VmLifecycle object of each run                       *)
  rpc,           (* where each runner thread is                              *)
  clean,         (* whether the core of a runner returned zero               *)
  mpc,           (* where each stop monitor is                               *)
  quit,          (* WaitForVmStop's accepted                                 *)
  overdue,       (* WaitForVmStop's deadlineReported                         *)
  initialized,   (* g_qemu_initialized                                       *)
  shutdown,      (* the core's pending shutdown request                      *)
  vmMutex,       (* the caller that holds g_vmMutex, or "free"               *)
  call,          (* what each caller is doing                                *)
  startup,       (* g_vmStartupStates                                        *)
  states,        (* g_vmStates                                               *)
  mic,           (* g_microphone                                             *)
  consent        (* the session token the user interface last obtained       *)

ownership == <<nRuns, vmOf, session, vmRunning, vmThreads>>
runner == <<rpc, clean>>
monitor == <<mpc, quit, overdue>>
core == <<initialized, shutdown>>
diagnostics == <<startup, states>>
microphone == <<mic, consent>>
vars == <<ownership, life, runner, monitor, core, vmMutex, call, diagnostics,
          microphone>>

RunnerPoints ==
  {"none", "init", "initialized", "marked", "micOn", "announced", "late",
   "lateShutdown", "loop", "loopEnd", "cleanup", "returned", "fail", "notify", "complete", "publish", "exited"}

MonitorPoints ==
  {"none", "created", "owner", "request", "watch", "overdue", "join", "gone"}

CallerPoints ==
  {"idle", "wait", "end", "fail", "read", "write", "stop", "stopMic",
   "stopState", "stopSpawn", "qmp", "answer", "disk"}

(* vm: the name a call is about; run: the run a StartVm or GetVmStatus      *)
(* holds on to; note: a status it has read and not used yet.               *)
NoCall == [pc |-> "idle", vm |-> NoVm, run |-> NoRun, note |-> "none"]

Return(c) == call' = [call EXCEPT ![c] = NoCall]

Goto(c, pc) == call' = [call EXCEPT ![c].pc = pc]

Move(r, from, to) == rpc[r] = from /\ rpc' = [rpc EXCEPT ![r] = to]

MoveMonitor(r, from, to) == mpc[r] = from /\ mpc' = [mpc EXCEPT ![r] = to]

Init ==
  /\ nRuns = 0
  /\ vmOf = [r \in Runs |-> NoVm]
  /\ session = [r \in Runs |-> 0]
  /\ vmRunning = [v \in VMs |-> NoRun]
  /\ vmThreads = [v \in VMs |-> NoRun]
  /\ life = [r \in Runs |-> NewLifecycle]
  /\ rpc = [r \in Runs |-> "none"]
  /\ clean = [r \in Runs |-> TRUE]
  /\ mpc = [r \in Runs |-> "none"]
  /\ quit = [r \in Runs |-> FALSE]
  /\ overdue = [r \in Runs |-> FALSE]
  /\ initialized = FALSE
  /\ shutdown = FALSE
  /\ vmMutex = "free"
  /\ call = [c \in Callers |-> NoCall]
  /\ startup = [v \in VMs |-> "pending"]
  /\ states = [v \in VMs |-> "stopped"]
  /\ mic = NewSession
  /\ consent = [vm |-> NoVm, session |-> 0]

-----------------------------------------------------------------------------
(* StartVm.  The section under g_vmMutex is one step: what it changes is   *)
(* either guarded by that mutex or belongs to a core nobody occupies.      *)

NoRunBlocks ==
  \A v \in VMs : vmRunning[v] # NoRun => ~BlocksStart(life[vmRunning[v]])

(* Mutant: the handle a naturally returned runner left behind is replaced. *)
NoHandleChecked == TRUE

(* A naturally returned runner still owns a joinable handle.               *)
NoHandleLeft == \A v \in VMs : vmThreads[v] = NoRun


(* A start that is not allowed returns false and changes nothing.          *)
StartAllowed == NoRunBlocks /\ NoHandleLeft

(* Before a run exists, creating the disk, checking it or loading the core *)
(* fails.  (A failed directory or configuration file changes nothing.)  A  *)
(* core that has been loaded once stays available.                         *)
StartVmPrepareFails(c, v) ==
  /\ call[c].pc = "idle"
  /\ vmMutex = "free"
  /\ StartAllowed
  /\ states' = [states EXCEPT ![v] = "failed"]
  /\ mic' \in {mic} \cup (IF mic.bound THEN {} ELSE {Bind(mic, FALSE)})
  /\ UNCHANGED <<ownership, life, runner, monitor, core, vmMutex, call, startup,
                 consent>>

(* Mutant: the startup verdict of the previous run is left in the map.     *)
StartupKept(v) == startup

StartupReset(v) == [startup EXCEPT ![v] = "pending"]

StartVmLaunch(c, v) ==
  LET r == nRuns + 1 IN
  /\ call[c].pc = "idle"
  /\ vmMutex = "free"
  /\ StartAllowed
  /\ nRuns < MaxRuns
  /\ nRuns' = r
  /\ vmOf' = [vmOf EXCEPT ![r] = v]
  /\ mic' = Begin(IF mic.bound THEN mic ELSE Bind(mic, TRUE), v)
  /\ session' = [session EXCEPT ![r] = mic'.generation]
  /\ vmRunning' = [vmRunning EXCEPT ![v] = r]
  /\ vmThreads' = [vmThreads EXCEPT ![v] = r]
  /\ rpc' = [rpc EXCEPT ![r] = "init"]
  /\ states' = [states EXCEPT ![v] = "starting"]
  /\ startup' = StartupReset(v)
  /\ call' = [call EXCEPT ![c] = [NoCall EXCEPT !.pc = "wait", !.vm = v, !.run = r]]
  /\ UNCHANGED <<life, clean, monitor, core, vmMutex, consent>>

(* The wait of at most 1500 ms on g_vmStartupCv, keyed by the VM's name.   *)
StartVmSucceeds(c) ==
  /\ call[c].pc = "wait"
  /\ startup[call[c].vm] = "ok"
  /\ Return(c)
  /\ UNCHANGED <<ownership, life, runner, monitor, core, vmMutex, diagnostics,
                 microphone>>

StartVmGivesUp(c) ==
  /\ call[c].pc = "wait"
  /\ startup[call[c].vm] # "ok"
  /\ Goto(c, "end")
  /\ UNCHANGED <<ownership, life, runner, monitor, core, vmMutex, diagnostics,
                 microphone>>

StartVmEndsSession(c) ==
  /\ call[c].pc = "end"
  /\ mic' = End(mic, session[call[c].run])
  /\ Goto(c, "fail")
  /\ UNCHANGED <<ownership, life, runner, monitor, core, vmMutex, diagnostics,
                 consent>>

StartVmFailsRun(c) ==
  /\ call[c].pc = "fail"
  /\ life' = [life EXCEPT ![call[c].run] = Fail(@, "startup")]
  /\ Goto(c, "read")
  /\ UNCHANGED <<ownership, runner, monitor, core, vmMutex, diagnostics, microphone>>

(* UpdateVMStatus(name, run->Read().status): the read and the write are    *)
(* not one step.  Then RequestVmStop runs on the name, not on the run.     *)
StartVmReadsStatus(c) ==
  /\ call[c].pc = "read"
  /\ call' = [call EXCEPT ![c].pc = "write", ![c].note = life[call[c].run].status]
  /\ UNCHANGED <<ownership, life, runner, monitor, core, vmMutex, diagnostics,
                 microphone>>

StartVmWritesStatus(c) ==
  /\ call[c].pc = "write"
  /\ states' = [states EXCEPT ![call[c].vm] = call[c].note]
  /\ call' = [call EXCEPT ![c] = [NoCall EXCEPT !.pc = "stop", !.vm = call[c].vm]]
  /\ UNCHANGED <<ownership, life, runner, monitor, core, vmMutex, startup,
                 microphone>>

-----------------------------------------------------------------------------
(* StopVm and RequestVmStop.                                               *)

StopVm(c, v) ==
  /\ call[c].pc = "idle"
  /\ call' = [call EXCEPT ![c] = [NoCall EXCEPT !.pc = "stop", !.vm = v]]
  /\ UNCHANGED <<ownership, life, runner, monitor, core, vmMutex, diagnostics,
                 microphone>>

StopTarget(c) == vmRunning[call[c].vm]

RequestStopIgnored(c) ==
  /\ call[c].pc = "stop"
  /\ vmMutex = "free"
  /\ StopTarget(c) # NoRun => ~CanClaimStop(life[StopTarget(c)])
  /\ Return(c)
  /\ UNCHANGED <<ownership, life, runner, monitor, core, vmMutex, diagnostics,
                 microphone>>

RequestStopClaims(c) ==
  /\ call[c].pc = "stop"
  /\ vmMutex = "free"
  /\ StopTarget(c) # NoRun
  /\ CanClaimStop(life[StopTarget(c)])
  /\ life' = [life EXCEPT ![StopTarget(c)] = ClaimStop(@)]
  /\ vmMutex' = c
  /\ Goto(c, "stopMic")
  /\ UNCHANGED <<ownership, runner, monitor, core, diagnostics, microphone>>

SessionAfterStop(v) == Stop(mic, v)

RequestStopMutesMicrophone(c) ==
  /\ call[c].pc = "stopMic"
  /\ mic' = SessionAfterStop(call[c].vm)
  /\ Goto(c, "stopState")
  /\ UNCHANGED <<ownership, life, runner, monitor, core, vmMutex, diagnostics,
                 consent>>

RequestStopWritesStatus(c) ==
  /\ call[c].pc = "stopState"
  /\ states' = [states EXCEPT ![call[c].vm] = "stopping"]
  /\ Goto(c, "stopSpawn")
  /\ UNCHANGED <<ownership, life, runner, monitor, core, vmMutex, startup,
                 microphone>>

RequestStopSpawnsMonitor(c) ==
  /\ call[c].pc = "stopSpawn"
  /\ mpc' = [mpc EXCEPT ![StopTarget(c)] = "created"]
  /\ vmMutex' = "free"
  /\ Return(c)
  /\ UNCHANGED <<ownership, life, runner, quit, overdue, core, diagnostics,
                 microphone>>

(* std::thread throws: the handle stays in the map and a later request may *)
(* retry.                                                                  *)
RequestStopCannotSpawn(c) ==
  /\ call[c].pc = "stopSpawn"
  /\ life' = [life EXCEPT ![StopTarget(c)] = ReleaseStopOwner(Fail(@, "monitor"))]
  /\ vmMutex' = "free"
  /\ Return(c)
  /\ UNCHANGED <<ownership, runner, monitor, core, diagnostics,
                 microphone>>

-----------------------------------------------------------------------------
(* GetVmStatus, the disk tools and the microphone entry points.            *)

(* Without a run the answer is g_vmStates, and a run that is not live and  *)
(* running answers at once: neither changes anything.  Otherwise the       *)
(* blocking QMP exchange follows, and the run is read again after it.      *)
GetVmStatus(c, v) ==
  LET r == vmRunning[v] IN
  /\ call[c].pc = "idle"
  /\ vmMutex = "free"
  /\ r # NoRun
  /\ life[r].active
  /\ life[r].status = "running"
  /\ call' = [call EXCEPT ![c] = [NoCall EXCEPT !.pc = "qmp", !.vm = v, !.run = r]]
  /\ UNCHANGED <<ownership, life, runner, monitor, core, vmMutex, diagnostics,
                 microphone>>

StatusAfterQmp(r) ==
  {life[r].status} \cup
  (IF life[r].active /\ life[r].status = "running" THEN {"paused"} ELSE {})

GetVmStatusReadsAgain(c) ==
  /\ call[c].pc = "qmp"
  /\ \E status \in StatusAfterQmp(call[c].run) :
       call' = [call EXCEPT ![c].pc = "answer", ![c].note = status]
  /\ UNCHANGED <<ownership, life, runner, monitor, core, vmMutex, diagnostics,
                 microphone>>

GetVmStatusReturns(c) ==
  /\ call[c].pc = "answer"
  /\ Return(c)
  /\ UNCHANGED <<ownership, life, runner, monitor, core, vmMutex, diagnostics,
                 microphone>>

(* Mutant: a VM that is starting or stopping counts as not running.        *)
IsVmRunningByStatus(v) ==
  vmRunning[v] # NoRun /\ life[vmRunning[v]].status = "running"

IsVmRunning(v) == vmRunning[v] # NoRun /\ life[vmRunning[v]].active

(* qemuImgCreateDisk and qemuImgResizeDisk are refused for a running VM    *)
(* and keep g_vmMutex while they write the image.                          *)
DiskToolBegins(c, v) ==
  /\ call[c].pc = "idle"
  /\ vmMutex = "free"
  /\ ~IsVmRunning(v)
  /\ vmMutex' = c
  /\ call' = [call EXCEPT ![c] = [NoCall EXCEPT !.pc = "disk", !.vm = v]]
  /\ UNCHANGED <<ownership, life, runner, monitor, core, diagnostics, microphone>>

DiskToolEnds(c) ==
  /\ call[c].pc = "disk"
  /\ vmMutex' = "free"
  /\ Return(c)
  /\ UNCHANGED <<ownership, life, runner, monitor, core, diagnostics, microphone>>

GetMicrophoneSession(c, v) ==
  /\ call[c].pc = "idle"
  /\ SessionOf(mic, v) # 0
  /\ consent' = [vm |-> v, session |-> SessionOf(mic, v)]
  /\ UNCHANGED <<ownership, life, runner, monitor, core, vmMutex, call,
                 diagnostics, mic>>

(* The user interface answers a permission dialog with the token it took   *)
(* before; the core may refuse.                                            *)
SetMicrophoneEnabled(c) ==
  /\ call[c].pc = "idle"
  /\ consent.session # 0
  /\ \E on \in BOOLEAN : mic' = Enable(mic, consent.vm, consent.session, on)
  /\ UNCHANGED <<ownership, life, runner, monitor, core, vmMutex, call,
                 diagnostics, consent>>

-----------------------------------------------------------------------------
(* The runner thread: the lambda of StartVm around QemuCoreMainOrStub.     *)

(* qemu_init exits or reports an exit code: setjmp or the core's shim turn *)
(* it into a failed startup.                                               *)
RunnerInitFails(r) ==
  /\ Move(r, "init", "returned")
  /\ clean' = [clean EXCEPT ![r] = FALSE]
  /\ startup' = [startup EXCEPT ![vmOf[r]] = "failed"]
  /\ UNCHANGED <<ownership, life, monitor, core, vmMutex, call, states, microphone>>

(* Mutant: the flag is published only after MarkRunning has been tried.    *)
InitializedLate == initialized

InitializedNow == TRUE

RunnerInitReturns(r) ==
  /\ Move(r, "init", "initialized")
  /\ initialized' = InitializedNow
  /\ UNCHANGED <<ownership, life, clean, monitor, shutdown, vmMutex, call,
                 diagnostics, microphone>>

RunnerMarksRunning(r) ==
  /\ Move(r, "initialized", IF CanMarkRunning(life[r]) THEN "marked" ELSE "late")
  /\ life' = [life EXCEPT ![r] = MarkRunning(@)]
  /\ UNCHANGED <<ownership, clean, monitor, core, vmMutex, call, diagnostics,
                 microphone>>

RunnerOpensSession(r) ==
  /\ Move(r, "marked", "micOn")
  /\ mic' = Running(mic, session[r])
  /\ UNCHANGED <<ownership, life, clean, monitor, core, vmMutex, call,
                 diagnostics, consent>>

RunnerWritesRunning(r) ==
  /\ Move(r, "micOn", "announced")
  /\ states' = [states EXCEPT ![vmOf[r]] = "running"]
  /\ UNCHANGED <<ownership, life, clean, monitor, core, vmMutex, call, startup,
                 microphone>>

RunnerReportsStarted(r) ==
  /\ Move(r, "announced", "loop")
  /\ startup' = [startup EXCEPT ![vmOf[r]] = "ok"]
  /\ UNCHANGED <<ownership, life, clean, monitor, core, vmMutex, call, states,
                 microphone>>

(* A stop or a timeout came during qemu_init: report the failed startup,   *)
(* then enter the main loop only to finish the shutdown.                   *)
RunnerReportsLate(r) ==
  /\ Move(r, "late", "lateShutdown")
  /\ startup' = [startup EXCEPT ![vmOf[r]] = "failed"]
  /\ UNCHANGED <<ownership, life, clean, monitor, core, vmMutex, call, states,
                 microphone>>

RunnerRequestsShutdown(r) ==
  /\ Move(r, "lateShutdown", "loop")
  /\ shutdown' = TRUE
  /\ UNCHANGED <<ownership, life, clean, monitor, initialized, vmMutex, call,
                 diagnostics, microphone>>

(* The main loop returns because it was asked to, or because the guest     *)
(* powered off or failed; a return consumes the pending request.           *)
RunnerLoopReturns(r) ==
  /\ Move(r, "loop", "loopEnd")
  /\ \E ok \in BOOLEAN : clean' = [clean EXCEPT ![r] = ok]
  /\ shutdown' = FALSE
  /\ UNCHANGED <<ownership, life, monitor, initialized, vmMutex, call,
                 diagnostics, microphone>>

(* exit() inside the main loop is caught by setjmp: the microphone, the    *)
(* core's cleanup and g_qemu_initialized are skipped on this path.         *)
RunnerLoopExits(r) ==
  /\ Move(r, "loop", "returned")
  /\ clean' = [clean EXCEPT ![r] = FALSE]
  /\ startup' = [startup EXCEPT ![vmOf[r]] = "failed"]
  /\ UNCHANGED <<ownership, life, monitor, core, vmMutex, call, states, microphone>>

RunnerEndsSession(r) ==
  /\ \/ Move(r, "loopEnd", "cleanup")
     \/ Move(r, "returned", IF clean[r] THEN "notify" ELSE "fail")
  /\ mic' = End(mic, session[r])
  /\ UNCHANGED <<ownership, life, clean, monitor, core, vmMutex, call,
                 diagnostics, consent>>

RunnerCleansUp(r) ==
  /\ Move(r, "cleanup", "returned")
  /\ initialized' = FALSE
  /\ UNCHANGED <<ownership, life, clean, monitor, shutdown, vmMutex, call,
                 diagnostics, microphone>>

RunnerFails(r) ==
  /\ Move(r, "fail", "notify")
  /\ life' = [life EXCEPT ![r] = Fail(@, "exit")]
  /\ UNCHANGED <<ownership, clean, monitor, core, vmMutex, call, diagnostics,
                 microphone>>

(* NotifyVmStartResult needs g_vmMutex; no start callback is registered.   *)
RunnerNotifies(r) ==
  /\ Move(r, "notify", "complete")
  /\ vmMutex = "free"
  /\ UNCHANGED <<ownership, life, clean, monitor, core, vmMutex, call,
                 diagnostics, microphone>>

RunnerCompletes(r) ==
  /\ Move(r, "complete", "publish")
  /\ life' = [life EXCEPT ![r] = Complete(@, clean[r])]
  /\ clean' = [clean EXCEPT ![r] = TRUE]
  /\ UNCHANGED <<ownership, monitor, core, vmMutex, call, diagnostics,
                 microphone>>

RunnerPublishes(r) ==
  /\ Move(r, "publish", "exited")
  /\ states' = [states EXCEPT ![vmOf[r]] = life[r].status]
  /\ UNCHANGED <<ownership, life, clean, monitor, core, vmMutex, call, startup,
                 microphone>>

-----------------------------------------------------------------------------
(* The detached stop monitor of RequestVmStop.  Its branch "could not find *)
(* its owned runner" has no action: HandleKept says it is never taken.     *)

OwnsRunner(r) == vmRunning[vmOf[r]] = r /\ vmThreads[vmOf[r]] # NoRun

MonitorTakesRunner(r) ==
  /\ MoveMonitor(r, "created", "owner")
  /\ vmMutex = "free"
  /\ OwnsRunner(r)
  /\ vmThreads' = [vmThreads EXCEPT ![vmOf[r]] = NoRun]
  /\ UNCHANGED <<nRuns, vmOf, session, vmRunning, life, runner, quit, overdue,
                 core, vmMutex, call, diagnostics, microphone>>

MonitorChecksCore(r) ==
  /\ MoveMonitor(r, "owner", IF initialized THEN "request" ELSE "watch")
  /\ UNCHANGED <<ownership, life, runner, quit, overdue, core, vmMutex, call,
                 diagnostics, microphone>>

MonitorRequestsShutdown(r) ==
  /\ MoveMonitor(r, "request", "watch")
  /\ shutdown' = TRUE
  /\ UNCHANGED <<ownership, life, runner, quit, overdue, initialized, vmMutex,
                 call, diagnostics, microphone>>

(* WaitForVmStop without its clock: module StopWatchdog has the timing.    *)
(* An accepted QMP quit is a shutdown request served by the main loop.     *)
MonitorQuits(r) ==
  /\ mpc[r] = "watch"
  /\ life[r].active
  /\ ~quit[r]
  /\ rpc[r] = "loop"
  /\ quit' = [quit EXCEPT ![r] = TRUE]
  /\ shutdown' = TRUE
  /\ UNCHANGED <<ownership, life, runner, mpc, overdue, initialized, vmMutex,
                 call, diagnostics, microphone>>

MonitorFindsOverdue(r) ==
  /\ MoveMonitor(r, "watch", "overdue")
  /\ life[r].active
  /\ ~overdue[r]
  /\ UNCHANGED <<ownership, life, runner, quit, overdue, core, vmMutex, call,
                 diagnostics, microphone>>

(* The runner may have completed since the check.                          *)
MonitorFailsOverdue(r) ==
  /\ MoveMonitor(r, "overdue", "watch")
  /\ life' = [life EXCEPT ![r] = Fail(@, "deadline")]
  /\ overdue' = [overdue EXCEPT ![r] = TRUE]
  /\ UNCHANGED <<ownership, runner, quit, core, vmMutex, call, startup, states,
                 microphone>>

MonitorSeesExit(r) ==
  /\ MoveMonitor(r, "watch", "join")
  /\ ~life[r].active
  /\ UNCHANGED <<ownership, life, runner, quit, overdue, core, vmMutex, call,
                 diagnostics, microphone>>

Joined(r) == rpc[r] = "exited"

MonitorJoins(r) ==
  /\ MoveMonitor(r, "join", "gone")
  /\ Joined(r)
  /\ life' = [life EXCEPT ![r] = ReleaseStopOwner(@)]
  /\ quit' = [quit EXCEPT ![r] = FALSE]
  /\ overdue' = [overdue EXCEPT ![r] = FALSE]
  /\ UNCHANGED <<ownership, runner, core, vmMutex, call, diagnostics,
                 microphone>>

-----------------------------------------------------------------------------
StartVmContinues(c) ==
  \/ StartVmSucceeds(c) \/ StartVmGivesUp(c) \/ StartVmEndsSession(c)
  \/ StartVmFailsRun(c) \/ StartVmReadsStatus(c) \/ StartVmWritesStatus(c)

RequestStopContinues(c) ==
  \/ RequestStopIgnored(c) \/ RequestStopClaims(c)
  \/ RequestStopMutesMicrophone(c) \/ RequestStopWritesStatus(c)
  \/ RequestStopSpawnsMonitor(c) \/ RequestStopCannotSpawn(c)

CallContinues(c) ==
  \/ StartVmContinues(c) \/ RequestStopContinues(c)
  \/ GetVmStatusReadsAgain(c) \/ GetVmStatusReturns(c) \/ DiskToolEnds(c)

CallBegins(c) ==
  \/ \E v \in VMs :
       \/ "start" \in Services /\ (StartVmPrepareFails(c, v) \/ StartVmLaunch(c, v))
       \/ "stop" \in Services /\ StopVm(c, v)
       \/ "status" \in Services /\ GetVmStatus(c, v)
       \/ "disk" \in Services /\ DiskToolBegins(c, v)
       \/ "microphone" \in Services /\ GetMicrophoneSession(c, v)
  \/ "microphone" \in Services /\ SetMicrophoneEnabled(c)

RunnerProceeds(r) ==
  \/ RunnerInitFails(r) \/ RunnerInitReturns(r) \/ RunnerMarksRunning(r)
  \/ RunnerOpensSession(r) \/ RunnerWritesRunning(r) \/ RunnerReportsStarted(r)
  \/ RunnerReportsLate(r) \/ RunnerRequestsShutdown(r) \/ RunnerEndsSession(r)
  \/ RunnerCleansUp(r) \/ RunnerFails(r)
  \/ RunnerNotifies(r) \/ RunnerCompletes(r) \/ RunnerPublishes(r)

RunnerLeavesLoop(r) == RunnerLoopReturns(r) \/ RunnerLoopExits(r)

MonitorProceeds(r) ==
  \/ MonitorTakesRunner(r) \/ MonitorChecksCore(r) \/ MonitorRequestsShutdown(r)
  \/ MonitorFailsOverdue(r) \/ MonitorSeesExit(r) \/ MonitorJoins(r)

Next ==
  \/ \E c \in Callers : CallBegins(c) \/ CallContinues(c)
  \/ \E r \in Runs : \/ RunnerProceeds(r) \/ RunnerLeavesLoop(r)
                     \/ MonitorProceeds(r) \/ MonitorQuits(r)
                     \/ MonitorFindsOverdue(r)

(* Threads are scheduled, qemu_init returns, and a main loop that has been *)
(* asked to shut down returns.  Nothing obliges a caller to call, a guest  *)
(* to power off, QMP to answer or a deadline to pass.  The monitor and the *)
(* runner wait for a mutex that callers take again and again: it is fair.  *)
Fairness ==
  /\ \A c \in Callers : WF_vars(CallContinues(c))
  /\ \A r \in Runs : /\ WF_vars(RunnerProceeds(r))
                     /\ WF_vars(shutdown /\ RunnerLeavesLoop(r))
                     /\ WF_vars(MonitorProceeds(r))
                     /\ SF_vars(MonitorTakesRunner(r)) /\ SF_vars(RunnerNotifies(r))

Spec == Init /\ [][Next]_vars
FairSpec == Spec /\ Fairness

-----------------------------------------------------------------------------
OwnershipType ==
  /\ nRuns \in RunOrNone
  /\ vmOf \in [Runs -> VMs \cup {NoVm}]
  /\ session \in [Runs -> Generations]
  /\ vmRunning \in [VMs -> RunOrNone]
  /\ vmThreads \in [VMs -> RunOrNone]

ThreadsType ==
  /\ rpc \in [Runs -> RunnerPoints]
  /\ clean \in [Runs -> BOOLEAN]
  /\ mpc \in [Runs -> MonitorPoints]
  /\ quit \in [Runs -> BOOLEAN]
  /\ overdue \in [Runs -> BOOLEAN]

CallState == [pc : CallerPoints, vm : VMs \cup {NoVm}, run : RunOrNone,
              note : Statuses \cup {"none", "paused"}]

CallType ==
  /\ vmMutex \in Callers \cup {"free"}
  /\ call \in [Callers -> CallState]

DiagnosticsType ==
  /\ startup \in [VMs -> {"pending", "ok", "failed"}]
  /\ states \in [VMs -> Statuses]

MicrophoneType ==
  /\ mic \in Session
  /\ consent \in [vm : VMs \cup {NoVm}, session : Generations]

TypeOK ==
  /\ OwnershipType
  /\ life \in [Runs -> Lifecycle]
  /\ ThreadsType
  /\ initialized \in BOOLEAN
  /\ shutdown \in BOOLEAN
  /\ CallType
  /\ DiagnosticsType
  /\ MicrophoneType

(* A runner thread exists from its launch until it has published its end.  *)
Occupied(r) == rpc[r] \notin {"none", "exited"}

(* The embedded core is a process-wide global that two runners must never  *)
(* share: whatever stops, timeouts and failures happen, at most one runner *)
(* thread exists.                                                          *)
SingleRunner == \A r, s \in Runs : Occupied(r) /\ Occupied(s) => r = s

(* A std::thread that is replaced or destroyed while joinable terminates   *)
(* the process.  The handle of every run stays in g_vmThreads until its    *)
(* own monitor takes it, and that monitor finds both the handle and the    *)
(* run it was created for.                                                 *)
HandleKept ==
  \A r \in Runs : r <= nRuns /\ mpc[r] \in {"none", "created"} =>
    /\ vmThreads[vmOf[r]] = r
    /\ vmRunning[vmOf[r]] = r

InRequestStop(c, r) ==
  call[c].pc \in {"stopMic", "stopState", "stopSpawn"} /\ StopTarget(c) = r

(* A claimed stop is always in somebody's hands: the caller that is still  *)
(* inside RequestVmStop or a monitor that will release it.  Otherwise the  *)
(* VM could never be stopped again.                                        *)
OwnerActs ==
  \A r \in Runs : life[r].stopOwner =>
    \/ \E c \in Callers : InRequestStop(c, r)
    \/ mpc[r] \in {"created", "owner", "request", "watch", "overdue", "join"}

(* A stop request that races with the end of qemu_init is never lost: once *)
(* the monitor is past its look at g_qemu_initialized, a runner inside the *)
(* main loop has a shutdown request pending.                               *)
StopReachesCore ==
  \A r \in Runs : rpc[r] = "loop" /\ mpc[r] \in {"watch", "overdue", "join"} =>
    shutdown

(* A stopped or failed report means that the runner has left the core and  *)
(* finished its cleanup, and stopped means that nothing went wrong before. *)
TerminalMeansReturned ==
  \A r \in Runs :
    /\ life[r].status \in {"stopped", "failed"} => rpc[r] \in {"publish", "exited"}
    /\ life[r].status = "stopped" => life[r].error = {}

(* Capture is possible only for the latest run, only after that run was    *)
(* marked running and until its runner has ended the session; and once a   *)
(* stop was requested, and the request is past its call of                 *)
(* MicrophoneSession::Stop, the session stays closed, even if qemu_init    *)
(* completes afterwards.                                                   *)
CaptureBelongsToRun ==
  /\ mic.gate =>
       /\ nRuns > 0
       /\ mic.active
       /\ mic.generation = session[nRuns]
       /\ mic.name = vmOf[nRuns]
       /\ rpc[nRuns] \in {"micOn", "announced", "loop", "loopEnd", "returned"}
  /\ \A r \in Runs :
       /\ r <= nRuns
       /\ life[r].stopRequested
       /\ ~\E c \in Callers : call[c].pc = "stopMic" /\ StopTarget(c) = r
       => ~(mic.active /\ mic.generation = session[r])

(* qemuImgCreateDisk and qemuImgResizeDisk never write the image of a VM   *)
(* whose runner can still have it open.                                    *)
DiskToolAlone ==
  \A c \in Callers, r \in Runs :
    call[c].pc = "disk" /\ Occupied(r) /\ vmOf[r] = call[c].vm => rpc[r] = "publish"

(* A late permission answer cannot enable a restarted VM: whoever opens    *)
(* the gate holds the token of the run that is active now.                 *)
ConsentIsForThisRun ==
  [][~mic.gate /\ mic'.gate =>
       consent.session = session[nRuns] /\ consent.vm = vmOf[nRuns]]_vars

(* A recorded failure survives a clean exit: no reason is ever erased and  *)
(* a failed run never turns into a stopped one.                            *)
FailureSticks ==
  [][\A r \in Runs : /\ life[r].error \subseteq life'[r].error
                     /\ life[r].status = "failed" => life'[r].status = "failed"]_vars

(* What was waited for without a lock is not told when it is no longer     *)
(* true: startVm answers true only for a run that was marked running, never *)
(* from the verdict of an earlier run, and a QMP answer that arrives after  *)
(* a stop or an exit does not make getVmStatus report a live guest.         *)
AnswersAreTrue ==
  [][\A c \in Callers :
       /\ call[c].pc = "wait" /\ call'[c].pc = "idle" =>
            rpc[call[c].run] \notin {"none", "init", "initialized", "marked", "late"}
       /\ call[c].pc = "qmp" /\ call'[c].note \in {"running", "paused"} =>
            life[call[c].run].active /\ life[call[c].run].status = "running"]_vars

(* Once a monitor exists its run ends, is joined and stops blocking the    *)
(* next start, whatever QMP and the guest do.                              *)
StopCompletes ==
  \A r \in Runs : mpc[r] = "created" ~> (mpc[r] = "gone" /\ ~BlocksStart(life[r]))

-----------------------------------------------------------------------------
(* What the user interface relies on, over the last run: its status and    *)
(* error, and whether StartVm would accept another VM.                     *)
Abstract == INSTANCE SingleRun WITH
  run <- nRuns,
  phase <- IF nRuns = 0 THEN "none" ELSE life[nRuns].status,
  faulty <- nRuns # 0 /\ life[nRuns].error # {},
  reaped <- StartAllowed

(* The runtime with all its threads implements one VM at a time: the       *)
(* status only moves forward, a terminal status precedes reaping and a     *)
(* start is accepted only after it.                                        *)
ImplementsSingleRun == Abstract!Spec

=============================================================================
