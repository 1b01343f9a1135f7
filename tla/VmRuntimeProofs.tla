--------------------------- MODULE VmRuntimeProofs ---------------------------
(***************************************************************************)
(* Proofs about VmRuntime, for every set of virtual machines and callers,  *)
(* every number of runs and every width of the session counter: first the  *)
(* runtime's own invariant and what follows from it, then what its callers *)
(* rely on.  It implements SingleRun, its answers are true when they are   *)
(* given, a disk tool has the image to itself, and microphone consent      *)
(* belongs to a run.                                                       *)
(***************************************************************************)
EXTENDS VmRuntime, TLAPS

Started(r) == r \in 1 .. nRuns

Watching == {"watch", "overdue", "join"}

Joinable == {"none", "created"}

LockHolding == {"stopMic", "stopState", "stopSpawn", "disk"}

(* What a call has read or claimed so far.                                 *)
CallInv ==
  \A c \in Callers :
    /\ call[c].pc # "idle" => call[c].vm \in VMs
    /\ call[c].pc \in {"wait", "end", "fail", "read", "qmp"} =>
         Started(call[c].run)
    /\ call[c].pc = "write" => call[c].note \in Statuses
    /\ call[c].pc \in LockHolding => vmMutex = c

(* The maps of napi_init.cpp name launched runs, and only the last run can *)
(* still have a runner or a monitor.                                       *)
OwnershipInv ==
  /\ \A r \in Runs : Started(r) => vmOf[r] \in VMs
  /\ \A v \in VMs : vmRunning[v] # NoRun =>
       Started(vmRunning[v]) /\ vmOf[vmRunning[v]] = v
  /\ \A r \in Runs : ~Started(r) => rpc[r] = "none" /\ mpc[r] = "none"
  /\ \A r \in Runs : ~Started(r) => life[r] = NewLifecycle
  /\ \A r \in Runs : r < nRuns => mpc[r] = "gone"
  /\ \A r \in Runs : mpc[r] = "gone" => rpc[r] = "exited"
  /\ \A r \in Runs : Started(r) /\ mpc[r] # "gone" => vmRunning[vmOf[r]] = r
  /\ \A r \in Runs : Started(r) /\ mpc[r] \in Joinable => vmThreads[vmOf[r]] = r

(* A run's record agrees with where its runner is.                         *)
RecordInv ==
  /\ \A r \in Runs : life[r].active <=> rpc[r] \notin {"publish", "exited"}
  /\ \A r \in Runs : life[r].status \in {"stopped", "failed"} => ~life[r].active
  /\ \A r \in Runs : life[r].status = "stopped" => life[r].error = {}

(* The stop reservation is held from the claim until the monitor has       *)
(* joined the runner.                                                      *)
ReservationInv ==
  /\ \A r \in Runs : mpc[r] \notin {"none", "gone"} =>
       life[r].stopOwner /\ life[r].stopRequested
  /\ \A c \in Callers : call[c].pc \in {"stopMic", "stopState", "stopSpawn"} =>
       /\ StopTarget(c) # NoRun
       /\ mpc[StopTarget(c)] = "none"
       /\ life[StopTarget(c)].stopOwner
       /\ life[StopTarget(c)].stopRequested

LifeInv == RecordInv /\ ReservationInv

(* The core is initialised while its runner is between qemu_init and the   *)
(* cleanup, and a monitor that looked while it was not finds a runner that *)
(* will not be marked running.                                             *)
CoreInv ==
  /\ \A r \in Runs :
       rpc[r] \in {"initialized", "marked", "micOn", "announced", "late",
                   "lateShutdown", "loop", "loopEnd", "cleanup"} => initialized
  /\ \A r \in Runs :
       rpc[r] \in {"marked", "micOn", "announced", "loop"} /\ mpc[r] \in Watching
         => shutdown

IInv == TypeOK /\ CallInv /\ OwnershipInv /\ LifeInv /\ CoreInv /\ OwnerActs

-----------------------------------------------------------------------------
(* What each method of VmLifecycle keeps of the object.                    *)
LEMMA MarkRunningLemma ==
  ASSUME NEW l \in Lifecycle
  PROVE  /\ MarkRunning(l) \in Lifecycle
         /\ MarkRunning(l).active = l.active
         /\ MarkRunning(l).stopRequested = l.stopRequested
         /\ MarkRunning(l).stopOwner = l.stopOwner
         /\ MarkRunning(l).error = l.error
         /\ MarkRunning(l).status \in {l.status, "running"}
         /\ MarkRunning(l).status = "running" => l.status = "running" \/ l.active
BY DEF Lifecycle, MarkRunning, CanMarkRunning, Statuses

LEMMA ClaimStopLemma ==
  ASSUME NEW l \in Lifecycle
  PROVE  /\ ClaimStop(l) \in Lifecycle
         /\ ClaimStop(l).active = l.active
         /\ ClaimStop(l).error = l.error
         /\ ClaimStop(l).status = "stopping"
         /\ ClaimStop(l).stopOwner /\ ClaimStop(l).stopRequested
BY DEF Lifecycle, ClaimStop, Statuses

LEMMA ReleaseLemma ==
  ASSUME NEW l \in Lifecycle
  PROVE  /\ ReleaseStopOwner(l) \in Lifecycle
         /\ ReleaseStopOwner(l).active = l.active
         /\ ReleaseStopOwner(l).stopRequested = l.stopRequested
         /\ ReleaseStopOwner(l).status = l.status
         /\ ReleaseStopOwner(l).error = l.error
         /\ ~ReleaseStopOwner(l).stopOwner
BY DEF Lifecycle, ReleaseStopOwner

LEMMA FailLemma ==
  ASSUME NEW l \in Lifecycle, NEW reason \in Reasons
  PROVE  /\ Fail(l, reason) \in Lifecycle
         /\ Fail(l, reason).active = l.active
         /\ Fail(l, reason).stopOwner = l.stopOwner
         /\ Fail(l, reason).stopRequested
         /\ Fail(l, reason).error = l.error \cup {reason}
         /\ Fail(l, reason).status = IF l.active THEN "stopping" ELSE "failed"
BY DEF Lifecycle, Fail, AppendError, Statuses

LEMMA CompleteLemma ==
  ASSUME NEW l \in Lifecycle, NEW ok
  PROVE  /\ Complete(l, ok) \in Lifecycle
         /\ ~Complete(l, ok).active
         /\ Complete(l, ok).stopOwner = l.stopOwner
         /\ Complete(l, ok).stopRequested = l.stopRequested
         /\ l.error \subseteq Complete(l, ok).error
         /\ Complete(l, ok).status = "stopped" => Complete(l, ok).error = {}
BY DEF Lifecycle, Complete, AppendError, Statuses, Reasons

(* The microphone session keeps its type.                                  *)
LEMMA SessionLemma ==
  ASSUME NEW m \in Session, NEW v \in VMs, NEW g, NEW on \in BOOLEAN
  PROVE  /\ Bind(m, on) \in Session
         /\ Begin(m, v) \in Session
         /\ Running(m, g) \in Session
         /\ End(m, g) \in Session
         /\ Stop(m, v) \in Session
         /\ Enable(m, v, g, on) \in Session
         /\ SessionOf(m, v) \in Generations
<1>1. Bind(m, on) \in Session /\ Running(m, g) \in Session /\ End(m, g) \in Session
  BY DEF Session, Bind, Disable, Running, End, Close
<1>2. Stop(m, v) \in Session /\ Enable(m, v, g, on) \in Session
  BY DEF Session, Disable, Stop, Close, Enable
<1>3. NextGeneration(m.generation) \in Generations
  BY GenAssumption DEF Session, Generations, NextGeneration
<1>4. Begin(m, v) \in Session
  BY <1>3 DEF Session, Begin, Disable
<1>5. SessionOf(m, v) \in Generations
  BY GenAssumption DEF Session, SessionOf, Generations
<1>6. QED
  BY <1>1, <1>2, <1>4, <1>5

-----------------------------------------------------------------------------
(* What each kind of step leaves alone.                                    *)
LEMMA CallFrame ==
  ASSUME NEW c \in Callers, CallContinues(c)
  PROVE  UNCHANGED <<ownership, runner, quit, overdue, core, startup, consent>>
<1>1. CASE StartVmContinues(c)
  BY <1>1 DEF StartVmContinues, StartVmSucceeds, StartVmGivesUp, StartVmEndsSession,
    StartVmFailsRun, StartVmReadsStatus, StartVmWritesStatus, monitor, diagnostics,
    microphone
<1>2. CASE RequestStopContinues(c)
  BY <1>2 DEF RequestStopContinues, RequestStopIgnored, RequestStopClaims,
    RequestStopMutesMicrophone, RequestStopWritesStatus, RequestStopSpawnsMonitor,
    RequestStopCannotSpawn, monitor, diagnostics, microphone
<1>3. CASE GetVmStatusReadsAgain(c) \/ GetVmStatusReturns(c) \/ DiskToolEnds(c)
  BY <1>3 DEF GetVmStatusReadsAgain, GetVmStatusReturns, DiskToolEnds, monitor,
    diagnostics, microphone
<1>4. QED
  BY <1>1, <1>2, <1>3 DEF CallContinues

Launches(c) == \E v \in VMs : StartVmLaunch(c, v)

LEMMA BeginFrame ==
  ASSUME NEW c \in Callers, CallBegins(c), ~Launches(c)
  PROVE  UNCHANGED <<ownership, life, runner, monitor, core, startup>>
BY DEF CallBegins, Launches, StartVmPrepareFails, StopVm, GetVmStatus, DiskToolBegins,
  GetMicrophoneSession, SetMicrophoneEnabled, diagnostics

RunnerSteps(r) == RunnerProceeds(r) \/ RunnerLeavesLoop(r)

LEMMA RunnerFrame ==
  ASSUME NEW r \in Runs, RunnerSteps(r)
  PROVE  UNCHANGED <<ownership, monitor, vmMutex, call, consent>>
BY DEF RunnerSteps, RunnerProceeds, RunnerLeavesLoop, RunnerInitFails,
  RunnerInitReturns, RunnerMarksRunning, RunnerOpensSession, RunnerWritesRunning,
  RunnerReportsStarted, RunnerReportsLate, RunnerRequestsShutdown, RunnerLoopReturns,
  RunnerLoopExits, RunnerEndsSession, RunnerCleansUp, RunnerFails, RunnerNotifies,
  RunnerCompletes, RunnerPublishes, microphone

MonitorSteps(r) == MonitorProceeds(r) \/ MonitorQuits(r) \/ MonitorFindsOverdue(r)

LEMMA MonitorFrame ==
  ASSUME NEW r \in Runs, MonitorSteps(r)
  PROVE  UNCHANGED <<nRuns, vmOf, session, vmRunning, runner, initialized, vmMutex,
                     call, diagnostics, microphone>>
BY DEF MonitorSteps, MonitorProceeds, MonitorQuits, MonitorFindsOverdue,
  MonitorTakesRunner, MonitorChecksCore, MonitorRequestsShutdown, MonitorFailsOverdue,
  MonitorSeesExit, MonitorJoins, ownership, core, diagnostics

(* Every step is one of a caller, a runner or a monitor.                   *)
LEMMA StepCases ==
  ASSUME Next
  PROVE  \/ \E c \in Callers : CallBegins(c)
         \/ \E c \in Callers : CallContinues(c)
         \/ \E r \in Runs : RunnerSteps(r)
         \/ \E r \in Runs : MonitorSteps(r)
BY DEF Next, RunnerSteps, MonitorSteps

-----------------------------------------------------------------------------
(* Type correctness, one group of variables at a time.                     *)
LEMMA OwnershipTypeStep ==
  ASSUME TypeOK, Next
  PROVE  OwnershipType'
<1>1. CASE UNCHANGED ownership
  BY <1>1 DEF TypeOK, OwnershipType, ownership
<1>2. ASSUME NEW c \in Callers, NEW v \in VMs, StartVmLaunch(c, v)
      PROVE  OwnershipType'
  <2>1. mic' \in Session
    BY <1>2, SessionLemma DEF TypeOK, MicrophoneType, StartVmLaunch
  <2>2. nRuns + 1 \in Runs /\ nRuns + 1 \in RunOrNone
    BY <1>2, MaxRunsAssumption DEF TypeOK, OwnershipType, StartVmLaunch, Runs, RunOrNone
  <2>3. mic'.generation \in Generations
    BY <2>1 DEF Session
  <2>4. QED
    BY <1>2, <2>2, <2>3 DEF TypeOK, OwnershipType, StartVmLaunch
<1>3. ASSUME NEW r \in Runs, MonitorSteps(r)
      PROVE  OwnershipType'
  <2>1. nRuns' = nRuns /\ vmOf' = vmOf /\ session' = session /\ vmRunning' = vmRunning
    BY <1>3, MonitorFrame
  <2>2. CASE MonitorTakesRunner(r)
    <3>1. NoRun \in RunOrNone
      BY MaxRunsAssumption DEF RunOrNone, NoRun
    <3>2. vmThreads' \in [VMs -> RunOrNone]
      BY <2>2, <3>1 DEF TypeOK, OwnershipType, MonitorTakesRunner
    <3>3. QED
      BY <2>1, <3>2 DEF TypeOK, OwnershipType
  <2>3. CASE ~MonitorTakesRunner(r)
    BY <1>3, <2>3, <1>1 DEF MonitorSteps, MonitorProceeds, MonitorQuits,
      MonitorFindsOverdue, MonitorChecksCore, MonitorRequestsShutdown,
      MonitorFailsOverdue, MonitorSeesExit, MonitorJoins
  <2>4. QED
    BY <2>2, <2>3
<1>4. QED
  BY <1>1, <1>2, <1>3, StepCases, BeginFrame, CallFrame, RunnerFrame DEF Launches

LEMMA DiagnosticsTypeStep ==
  ASSUME TypeOK, CallInv, Next
  PROVE  DiagnosticsType'
<1> USE DEF TypeOK, DiagnosticsType, diagnostics
<1>1. ASSUME NEW c \in Callers, CallBegins(c)
      PROVE  DiagnosticsType'
  BY <1>1 DEF CallBegins, StartVmPrepareFails, StartVmLaunch, StopVm, GetVmStatus,
    DiskToolBegins, GetMicrophoneSession, SetMicrophoneEnabled, StartupReset, Statuses
<1>2. ASSUME NEW c \in Callers, CallContinues(c)
      PROVE  DiagnosticsType'
  BY <1>2, CallFrame DEF CallContinues, StartVmContinues, RequestStopContinues,
    StartVmSucceeds, StartVmGivesUp, StartVmEndsSession, StartVmFailsRun,
    StartVmReadsStatus, StartVmWritesStatus, RequestStopIgnored, RequestStopClaims,
    RequestStopMutesMicrophone, RequestStopWritesStatus, RequestStopSpawnsMonitor,
    RequestStopCannotSpawn, GetVmStatusReadsAgain, GetVmStatusReturns, DiskToolEnds,
    CallInv, Statuses
<1>3. ASSUME NEW r \in Runs, RunnerSteps(r)
      PROVE  DiagnosticsType'
  <2>1. life[r].status \in Statuses
    BY DEF Lifecycle
  <2>2. QED
    BY <1>3, <2>1 DEF RunnerSteps, RunnerProceeds, RunnerLeavesLoop, RunnerInitFails,
      RunnerInitReturns, RunnerMarksRunning, RunnerOpensSession, RunnerWritesRunning,
      RunnerReportsStarted, RunnerReportsLate, RunnerRequestsShutdown,
      RunnerLoopReturns, RunnerLoopExits, RunnerEndsSession, RunnerCleansUp,
      RunnerFails, RunnerNotifies, RunnerCompletes, RunnerPublishes, Statuses
<1>4. ASSUME NEW r \in Runs, MonitorSteps(r)
      PROVE  DiagnosticsType'
  BY <1>4, MonitorFrame
<1>5. QED
  BY <1>1, <1>2, <1>3, <1>4, StepCases

LEMMA MicrophoneTypeStep ==
  ASSUME TypeOK, CallInv, Next
  PROVE  MicrophoneType'
<1> USE DEF TypeOK, MicrophoneType, microphone
<1>1. ASSUME NEW c \in Callers, CallBegins(c)
      PROVE  MicrophoneType'
  <2>1. CASE \E v \in VMs : StartVmPrepareFails(c, v) \/ StartVmLaunch(c, v)
    <3>1. \A on \in BOOLEAN : Bind(mic, on) \in Session
      BY DEF Bind, Disable, Session
    <3>2. ASSUME NEW v \in VMs, StartVmPrepareFails(c, v)  PROVE  MicrophoneType'
      BY <3>1, <3>2 DEF StartVmPrepareFails
    <3>3. ASSUME NEW v \in VMs, StartVmLaunch(c, v)  PROVE  MicrophoneType'
      <4>1. (IF mic.bound THEN mic ELSE Bind(mic, TRUE)) \in Session
        BY <3>1
      <4>2. mic' \in Session
        BY <3>3, <4>1, SessionLemma DEF StartVmLaunch
      <4>3. QED
        BY <3>3, <4>2 DEF StartVmLaunch
    <3>4. QED
      BY <2>1, <3>2, <3>3
  <2>2. CASE \E v \in VMs : GetMicrophoneSession(c, v)
    BY <2>2, SessionLemma DEF GetMicrophoneSession
  <2>3. CASE SetMicrophoneEnabled(c)
    <3>1. mic' = mic \/ \E on \in BOOLEAN : mic' = [mic EXCEPT !.gate = on]
      BY <2>3 DEF SetMicrophoneEnabled, Enable
    <3>2. QED
      BY <2>3, <3>1 DEF SetMicrophoneEnabled, Session
  <2>4. CASE UNCHANGED microphone
    BY <2>4
  <2>5. QED
    BY <1>1, <2>1, <2>2, <2>3, <2>4 DEF CallBegins, StopVm, GetVmStatus, DiskToolBegins
<1>2. ASSUME NEW c \in Callers, CallContinues(c)
      PROVE  MicrophoneType'
  <2>1. CASE StartVmEndsSession(c)
    BY <2>1, SessionLemma DEF StartVmEndsSession, End, Close, Disable, Session
  <2>2. CASE RequestStopMutesMicrophone(c)
    BY <2>2, SessionLemma DEF RequestStopMutesMicrophone, SessionAfterStop, CallInv
  <2>3. CASE UNCHANGED microphone
    BY <2>3
  <2>4. QED
    BY <1>2, <2>1, <2>2, <2>3 DEF CallContinues, StartVmContinues, RequestStopContinues,
      StartVmSucceeds, StartVmGivesUp, StartVmFailsRun, StartVmReadsStatus,
      StartVmWritesStatus, RequestStopIgnored, RequestStopClaims,
      RequestStopWritesStatus, RequestStopSpawnsMonitor, RequestStopCannotSpawn,
      GetVmStatusReadsAgain, GetVmStatusReturns, DiskToolEnds
<1>3. ASSUME NEW r \in Runs, RunnerSteps(r)
      PROVE  MicrophoneType'
  <2>1. CASE RunnerOpensSession(r) \/ RunnerEndsSession(r)
    BY <2>1 DEF RunnerOpensSession, RunnerEndsSession, Running, End, Close, Disable, Session
  <2>2. CASE UNCHANGED microphone
    BY <2>2
  <2>3. QED
    BY <1>3, <2>1, <2>2 DEF RunnerSteps, RunnerProceeds, RunnerLeavesLoop,
      RunnerInitFails, RunnerInitReturns, RunnerMarksRunning, RunnerWritesRunning,
      RunnerReportsStarted, RunnerReportsLate, RunnerRequestsShutdown,
      RunnerLoopReturns, RunnerLoopExits, RunnerCleansUp, RunnerFails, RunnerNotifies,
      RunnerCompletes, RunnerPublishes
<1>4. ASSUME NEW r \in Runs, MonitorSteps(r)
      PROVE  MicrophoneType'
  BY <1>4, MonitorFrame
<1>5. QED
  BY <1>1, <1>2, <1>3, <1>4, StepCases

LEMMA ThreadsTypeStep ==
  ASSUME TypeOK, Next
  PROVE  ThreadsType' /\ initialized' \in BOOLEAN /\ shutdown' \in BOOLEAN
<1> DEFINE Goal == ThreadsType' /\ initialized' \in BOOLEAN /\ shutdown' \in BOOLEAN
<1> USE DEF TypeOK, ThreadsType, runner, monitor, core
<1>1. ASSUME NEW c \in Callers, CallBegins(c)
      PROVE  Goal
  <2>1. CASE Launches(c)
    BY <2>1 DEF Launches, StartVmLaunch, RunnerPoints
  <2>2. CASE ~Launches(c)
    BY <1>1, <2>2, BeginFrame
  <2>3. QED
    BY <2>1, <2>2
<1>2. ASSUME NEW c \in Callers, CallContinues(c)
      PROVE  Goal
  <2>1. mpc' = mpc \/ mpc' = [mpc EXCEPT ![StopTarget(c)] = "created"]
    BY <1>2 DEF CallContinues, StartVmContinues, RequestStopContinues,
      StartVmSucceeds, StartVmGivesUp, StartVmEndsSession, StartVmFailsRun,
      StartVmReadsStatus, StartVmWritesStatus, RequestStopIgnored, RequestStopClaims,
      RequestStopMutesMicrophone, RequestStopWritesStatus, RequestStopSpawnsMonitor,
      RequestStopCannotSpawn, GetVmStatusReadsAgain, GetVmStatusReturns, DiskToolEnds
  <2>2. mpc' \in [Runs -> MonitorPoints]
    BY <2>1 DEF MonitorPoints
  <2>3. QED
    BY <1>2, <2>2, CallFrame
<1>3. ASSUME NEW r \in Runs, RunnerSteps(r)
      PROVE  Goal
  <2>1. rpc' \in [Runs -> RunnerPoints]
    <3>1. \E pc \in RunnerPoints : rpc' = [rpc EXCEPT ![r] = pc]
      BY <1>3 DEF RunnerSteps, RunnerProceeds, RunnerLeavesLoop, RunnerInitFails,
        RunnerInitReturns, RunnerMarksRunning, RunnerOpensSession, RunnerWritesRunning,
        RunnerReportsStarted, RunnerReportsLate, RunnerRequestsShutdown,
        RunnerLoopReturns, RunnerLoopExits, RunnerEndsSession, RunnerCleansUp,
        RunnerFails, RunnerNotifies, RunnerCompletes, RunnerPublishes, Move, RunnerPoints
    <3>2. QED
      BY <3>1
  <2>2. clean' \in [Runs -> BOOLEAN] /\ initialized' \in BOOLEAN /\ shutdown' \in BOOLEAN
    BY <1>3 DEF RunnerSteps, RunnerProceeds, RunnerLeavesLoop, RunnerInitFails,
      RunnerInitReturns, RunnerMarksRunning, RunnerOpensSession, RunnerWritesRunning,
      RunnerReportsStarted, RunnerReportsLate, RunnerRequestsShutdown,
      RunnerLoopReturns, RunnerLoopExits, RunnerEndsSession, RunnerCleansUp,
      RunnerFails, RunnerNotifies, RunnerCompletes, RunnerPublishes, InitializedNow
  <2>3. QED
    BY <1>3, <2>1, <2>2, RunnerFrame
<1>4. ASSUME NEW r \in Runs, MonitorSteps(r)
      PROVE  Goal
  <2>1. mpc' \in [Runs -> MonitorPoints]
    BY <1>4 DEF MonitorSteps, MonitorProceeds, MonitorQuits, MonitorFindsOverdue,
      MonitorTakesRunner, MonitorChecksCore, MonitorRequestsShutdown,
      MonitorFailsOverdue, MonitorSeesExit, MonitorJoins, MoveMonitor, MonitorPoints
  <2>2. quit' \in [Runs -> BOOLEAN] /\ overdue' \in [Runs -> BOOLEAN]
        /\ shutdown' \in BOOLEAN
    BY <1>4 DEF MonitorSteps, MonitorProceeds, MonitorQuits, MonitorFindsOverdue,
      MonitorTakesRunner, MonitorChecksCore, MonitorRequestsShutdown,
      MonitorFailsOverdue, MonitorSeesExit, MonitorJoins
  <2>3. QED
    BY <1>4, <2>1, <2>2, MonitorFrame
<1>5. QED
  BY <1>1, <1>2, <1>3, <1>4, StepCases

LEMMA CallTypeStep ==
  ASSUME TypeOK, CallInv, OwnershipInv, Next
  PROVE  CallType'
<1> USE DEF TypeOK, CallType, CallState
<1>0. NoCall \in CallState
  BY MaxRunsAssumption DEF NoCall, CallerPoints, RunOrNone, NoRun
<1>1. ASSUME NEW c \in Callers, CallBegins(c)
      PROVE  CallType'
  <2>1. ASSUME NEW v \in VMs, StartVmLaunch(c, v)
        PROVE  CallType'
    <3>1. nRuns + 1 \in RunOrNone
      BY <2>1, MaxRunsAssumption DEF StartVmLaunch, OwnershipType, RunOrNone
    <3>2. QED
      BY <2>1, <3>1 DEF StartVmLaunch, NoCall, CallerPoints
  <2>2. ASSUME NEW v \in VMs, StopVm(c, v) \/ DiskToolBegins(c, v)
        PROVE  CallType'
    <3>1. \A pc \in CallerPoints : [NoCall EXCEPT !.pc = pc, !.vm = v] \in CallState
      BY <1>0
    <3>2. "stop" \in CallerPoints /\ "disk" \in CallerPoints
      BY DEF CallerPoints
    <3>3. CASE StopVm(c, v)
      BY <3>1, <3>2, <3>3 DEF StopVm
    <3>4. CASE DiskToolBegins(c, v)
      BY <3>1, <3>2, <3>4 DEF DiskToolBegins
    <3>5. QED
      BY <2>2, <3>3, <3>4
  <2>3. ASSUME NEW v \in VMs, GetVmStatus(c, v)
        PROVE  CallType'
    BY <2>3 DEF GetVmStatus, NoCall, CallerPoints, OwnershipType
  <2>4. CASE UNCHANGED <<vmMutex, call>>
    BY <2>4
  <2>5. ASSUME NEW v \in VMs, StartVmPrepareFails(c, v)
        PROVE  UNCHANGED <<vmMutex, call>>
    BY <2>5 DEF StartVmPrepareFails
  <2>6. QED
    BY <1>1, <2>1, <2>2, <2>3, <2>4, <2>5 DEF CallBegins, GetMicrophoneSession,
      SetMicrophoneEnabled
<1>2. ASSUME NEW c \in Callers, CallContinues(c)
      PROVE  CallType'
  <2>2. CASE StartVmContinues(c)
    <3>1. CASE StartVmReadsStatus(c)
      <4>1. call[c].run \in Runs
        BY <3>1, MaxRunsAssumption DEF StartVmReadsStatus, CallInv, Started, OwnershipType,
          RunOrNone, Runs
      <4>2. life[call[c].run].status \in Statuses
        BY <4>1 DEF Lifecycle
      <4>3. [call[c] EXCEPT !.pc = "write", !.note = life[call[c].run].status] \in CallState
        BY <4>2 DEF CallerPoints
      <4>4. /\ call' = [call EXCEPT ![c].pc = "write", ![c].note = life[call[c].run].status]
            /\ vmMutex' = vmMutex
        BY <3>1 DEF StartVmReadsStatus
      <4>5. QED
        BY <4>3, <4>4
    <3>2. CASE StartVmWritesStatus(c)
      BY <3>2, <1>0 DEF StartVmWritesStatus, NoCall, CallerPoints
    <3>3. QED
      BY <1>0, <2>2, <3>1, <3>2 DEF StartVmContinues, StartVmSucceeds, StartVmGivesUp,
        StartVmEndsSession, StartVmFailsRun, Goto, Return, CallerPoints
  <2>3. CASE RequestStopContinues(c)
    BY <1>0, <2>3 DEF RequestStopContinues, RequestStopIgnored, RequestStopClaims,
      RequestStopMutesMicrophone, RequestStopWritesStatus, RequestStopSpawnsMonitor,
      RequestStopCannotSpawn, Goto, Return, CallerPoints
  <2>4. CASE GetVmStatusReadsAgain(c)
    <3>1. call[c].run \in Runs
      BY <2>4, MaxRunsAssumption DEF GetVmStatusReadsAgain, CallInv, Started, OwnershipType,
        RunOrNone, Runs
    <3>2. StatusAfterQmp(call[c].run) \subseteq Statuses \cup {"none", "paused"}
      BY <3>1 DEF StatusAfterQmp, Lifecycle
    <3>3. PICK status \in StatusAfterQmp(call[c].run) :
            call' = [call EXCEPT ![c].pc = "answer", ![c].note = status]
      BY <2>4 DEF GetVmStatusReadsAgain
    <3>4. [call[c] EXCEPT !.pc = "answer", !.note = status] \in CallState
      BY <3>2 DEF CallerPoints
    <3>5. QED
      BY <2>4, <3>3, <3>4 DEF GetVmStatusReadsAgain
  <2>5. CASE GetVmStatusReturns(c) \/ DiskToolEnds(c)
    BY <1>0, <2>5 DEF GetVmStatusReturns, DiskToolEnds, Return
  <2>6. QED
    BY <1>2, <2>2, <2>3, <2>4, <2>5 DEF CallContinues
<1>3. QED
  BY <1>1, <1>2, RunnerFrame, MonitorFrame, StepCases



LEMMA LifeTypeStep ==
  ASSUME TypeOK, CallInv, Next
  PROVE  life' \in [Runs -> Lifecycle]
<1> USE DEF TypeOK
<1>1. ASSUME NEW c \in Callers, CallBegins(c)
      PROVE  UNCHANGED life
  BY <1>1, BeginFrame DEF Launches, StartVmLaunch
<1>2. ASSUME NEW c \in Callers, CallContinues(c)
      PROVE  life' \in [Runs -> Lifecycle]
  <2>1. CASE StartVmFailsRun(c)
    BY <2>1, FailLemma DEF StartVmFailsRun, Reasons
  <2>2. CASE RequestStopClaims(c)
    BY <2>2, ClaimStopLemma DEF RequestStopClaims
  <2>3. CASE RequestStopCannotSpawn(c)
    BY <2>3, FailLemma, ReleaseLemma DEF RequestStopCannotSpawn, Reasons
  <2>4. CASE UNCHANGED life
    BY <2>4
  <2>5. QED
    BY <1>2, <2>1, <2>2, <2>3, <2>4 DEF CallContinues, StartVmContinues,
      RequestStopContinues, StartVmSucceeds, StartVmGivesUp, StartVmEndsSession,
      StartVmReadsStatus, StartVmWritesStatus, RequestStopIgnored,
      RequestStopMutesMicrophone, RequestStopWritesStatus, RequestStopSpawnsMonitor,
      GetVmStatusReadsAgain, GetVmStatusReturns, DiskToolEnds
<1>3. ASSUME NEW r \in Runs, RunnerSteps(r)
      PROVE  life' \in [Runs -> Lifecycle]
  <2>1. CASE RunnerMarksRunning(r)
    BY <2>1, MarkRunningLemma DEF RunnerMarksRunning
  <2>2. CASE RunnerFails(r)
    BY <2>2, FailLemma DEF RunnerFails, Reasons
  <2>3. CASE RunnerCompletes(r)
    BY <2>3, CompleteLemma DEF RunnerCompletes
  <2>4. CASE UNCHANGED life
    BY <2>4
  <2>5. QED
    BY <1>3, <2>1, <2>2, <2>3, <2>4 DEF RunnerSteps, RunnerProceeds, RunnerLeavesLoop,
      RunnerInitFails, RunnerInitReturns, RunnerOpensSession, RunnerWritesRunning,
      RunnerReportsStarted, RunnerReportsLate, RunnerRequestsShutdown,
      RunnerLoopReturns, RunnerLoopExits, RunnerEndsSession, RunnerCleansUp,
      RunnerNotifies, RunnerPublishes
<1>4. ASSUME NEW r \in Runs, MonitorSteps(r)
      PROVE  life' \in [Runs -> Lifecycle]
  <2>1. CASE MonitorFailsOverdue(r)
    BY <2>1, FailLemma DEF MonitorFailsOverdue, Reasons
  <2>2. CASE MonitorJoins(r)
    BY <2>2, ReleaseLemma DEF MonitorJoins
  <2>3. CASE UNCHANGED life
    BY <2>3
  <2>4. QED
    BY <1>4, <2>1, <2>2, <2>3 DEF MonitorSteps, MonitorProceeds, MonitorQuits,
      MonitorFindsOverdue, MonitorTakesRunner, MonitorChecksCore,
      MonitorRequestsShutdown, MonitorSeesExit
<1>5. QED
  BY <1>1, <1>2, <1>3, <1>4, StepCases

LEMMA TypeStep ==
  ASSUME TypeOK, CallInv, OwnershipInv, Next
  PROVE  TypeOK'
BY OwnershipTypeStep, LifeTypeStep, ThreadsTypeStep, CallTypeStep, DiagnosticsTypeStep,
  MicrophoneTypeStep DEF TypeOK

-----------------------------------------------------------------------------
(* What the callers hold on to stays valid.                                *)
LEMMA CallStep ==
  ASSUME TypeOK, CallInv, OwnershipInv, Next
  PROVE  CallInv'
<1> USE DEF TypeOK, CallType, CallState, CallInv, LockHolding
<1>1. nRuns' \in Nat /\ nRuns \in Nat /\ nRuns <= nRuns'
  <2>1. nRuns' = nRuns \/ nRuns' = nRuns + 1
    BY StepCases, BeginFrame, CallFrame, RunnerFrame, MonitorFrame
      DEF Launches, StartVmLaunch, ownership
  <2>2. QED
    BY <2>1, MaxRunsAssumption DEF OwnershipType, RunOrNone
<1>2. \A n : Started(n) => n \in 1 .. nRuns'
  BY <1>1 DEF Started
<1>3. ASSUME NEW c \in Callers, CallBegins(c)
      PROVE  CallInv'
  <2>1. ASSUME NEW v \in VMs, StartVmLaunch(c, v)
        PROVE  CallInv'
    BY <2>1, <1>1, <1>2, CallersAssumption DEF StartVmLaunch, NoCall, Started
  <2>2. ASSUME NEW v \in VMs, StopVm(c, v)
        PROVE  CallInv'
    BY <2>2, <1>2, CallersAssumption DEF StopVm, NoCall, Started
  <2>3. ASSUME NEW v \in VMs, DiskToolBegins(c, v)
        PROVE  CallInv'
    BY <2>3, <1>2, CallersAssumption DEF DiskToolBegins, NoCall, Started
  <2>4. ASSUME NEW v \in VMs, GetVmStatus(c, v)
        PROVE  CallInv'
    BY <2>4, <1>2, CallersAssumption DEF GetVmStatus, NoCall, Started, OwnershipInv
  <2>5. CASE UNCHANGED <<vmMutex, call>>
    BY <2>5, <1>2 DEF Started
  <2>6. ASSUME NEW v \in VMs, StartVmPrepareFails(c, v)
        PROVE  UNCHANGED <<vmMutex, call>>
    BY <2>6 DEF StartVmPrepareFails
  <2>7. QED
    BY <1>3, <2>1, <2>2, <2>3, <2>4, <2>5, <2>6 DEF CallBegins, GetMicrophoneSession,
      SetMicrophoneEnabled
<1>4. ASSUME NEW c \in Callers, CallContinues(c)
      PROVE  CallInv'
  <2>1. CASE StartVmContinues(c)
    <3>1. CASE StartVmReadsStatus(c)
      <4>1. call[c].run \in Runs
        BY <3>1, MaxRunsAssumption DEF StartVmReadsStatus, Started, OwnershipType,
          RunOrNone, Runs
      <4>2. life[call[c].run].status \in Statuses
        BY <4>1 DEF Lifecycle
      <4>3. QED
        BY <3>1, <4>2, <1>2 DEF StartVmReadsStatus, Started
    <3>2. CASE StartVmWritesStatus(c)
      BY <3>2, <1>2 DEF StartVmWritesStatus, NoCall, Started
    <3>3. CASE StartVmSucceeds(c)
      BY <3>3, <1>2 DEF StartVmSucceeds, NoCall, Return, Started
    <3>4. CASE StartVmGivesUp(c)
      BY <3>4, <1>2 DEF StartVmGivesUp, Goto, Started
    <3>5. CASE StartVmEndsSession(c) \/ StartVmFailsRun(c)
      BY <3>5, <1>2 DEF StartVmEndsSession, StartVmFailsRun, Goto, Started
    <3>6. QED
      BY <2>1, <3>1, <3>2, <3>3, <3>4, <3>5 DEF StartVmContinues
  <2>2. CASE RequestStopContinues(c)
    BY <2>2, <1>2, CallersAssumption DEF RequestStopContinues, RequestStopIgnored,
      RequestStopClaims, RequestStopMutesMicrophone, RequestStopWritesStatus,
      RequestStopSpawnsMonitor, RequestStopCannotSpawn, NoCall, Goto, Return, Started
  <2>3. CASE GetVmStatusReadsAgain(c)
    BY <2>3, <1>2 DEF GetVmStatusReadsAgain, Started
  <2>4. CASE GetVmStatusReturns(c) \/ DiskToolEnds(c)
    BY <2>4, <1>2, CallersAssumption DEF GetVmStatusReturns, DiskToolEnds, NoCall, Return,
      Started
  <2>5. QED
    BY <1>4, <2>1, <2>2, <2>3, <2>4 DEF CallContinues
<1>5. ASSUME UNCHANGED <<vmMutex, call>>
      PROVE  CallInv'
  BY <1>5, <1>2 DEF Started
<1>6. QED
  BY <1>3, <1>4, <1>5, RunnerFrame, MonitorFrame, StepCases

(* StartVm accepts a run only when every earlier one was joined: either a  *)
(* joinable handle or the reservation of its monitor refuses it otherwise. *)
LEMMA LaunchAfterJoin ==
  ASSUME TypeOK, OwnershipInv, LifeInv, StartAllowed
  PROVE  \A r \in Runs : Started(r) => mpc[r] = "gone" /\ rpc[r] = "exited"
<1> SUFFICES ASSUME NEW r \in Runs, Started(r), mpc[r] # "gone"
             PROVE  FALSE
  BY DEF OwnershipInv
<1>1. vmOf[r] \in VMs /\ vmRunning[vmOf[r]] = r /\ r # NoRun
  BY DEF OwnershipInv, Started, NoRun
<1>2. ~BlocksStart(life[r])
  BY <1>1 DEF StartAllowed, NoRunBlocks
<1>3. mpc[r] = "none" \/ mpc[r] = "created"
  BY <1>2 DEF LifeInv, RecordInv, ReservationInv, BlocksStart
<1>4. vmThreads[vmOf[r]] = r
  BY <1>3 DEF OwnershipInv, Joinable
<1>5. QED
  BY <1>1, <1>4 DEF StartAllowed, NoHandleLeft

-----------------------------------------------------------------------------
(* A runner and a monitor change only the records of their own run.        *)
LEMMA RunnerMoves ==
  ASSUME TypeOK, NEW r \in Runs, RunnerSteps(r)
  PROVE  /\ rpc[r] \notin {"none", "exited"}
         /\ rpc'[r] # "none"
         /\ \A s \in Runs : s # r => rpc'[s] = rpc[s] /\ life'[s] = life[s]
<1>1. \E pc \in RunnerPoints \ {"none"} : rpc' = [rpc EXCEPT ![r] = pc]
  BY DEF RunnerSteps, RunnerProceeds, RunnerLeavesLoop, RunnerInitFails,
    RunnerInitReturns, RunnerMarksRunning, RunnerOpensSession, RunnerWritesRunning,
    RunnerReportsStarted, RunnerReportsLate, RunnerRequestsShutdown, RunnerLoopReturns,
    RunnerLoopExits, RunnerEndsSession, RunnerCleansUp, RunnerFails, RunnerNotifies,
    RunnerCompletes, RunnerPublishes, Move, RunnerPoints
<1>2. rpc[r] \notin {"none", "exited"}
  BY DEF RunnerSteps, RunnerProceeds, RunnerLeavesLoop, RunnerInitFails,
    RunnerInitReturns, RunnerMarksRunning, RunnerOpensSession, RunnerWritesRunning,
    RunnerReportsStarted, RunnerReportsLate, RunnerRequestsShutdown, RunnerLoopReturns,
    RunnerLoopExits, RunnerEndsSession, RunnerCleansUp, RunnerFails, RunnerNotifies,
    RunnerCompletes, RunnerPublishes, Move
<1>3. life' = life \/ \E l : life' = [life EXCEPT ![r] = l]
  BY DEF RunnerSteps, RunnerProceeds, RunnerLeavesLoop, RunnerInitFails,
    RunnerInitReturns, RunnerMarksRunning, RunnerOpensSession, RunnerWritesRunning,
    RunnerReportsStarted, RunnerReportsLate, RunnerRequestsShutdown, RunnerLoopReturns,
    RunnerLoopExits, RunnerEndsSession, RunnerCleansUp, RunnerFails, RunnerNotifies,
    RunnerCompletes, RunnerPublishes
<1>4. QED
  BY <1>1, <1>2, <1>3 DEF TypeOK, ThreadsType

LEMMA MonitorMoves ==
  ASSUME TypeOK, NEW r \in Runs, MonitorSteps(r)
  PROVE  /\ mpc[r] \notin {"none", "gone"}
         /\ mpc'[r] \notin Joinable
         /\ mpc'[r] = "gone" => rpc[r] = "exited"
         /\ \A s \in Runs : s # r => mpc'[s] = mpc[s] /\ life'[s] = life[s]
<1> USE DEF TypeOK, ThreadsType, Joinable, MoveMonitor
<1>1. CASE MonitorTakesRunner(r)
  BY <1>1 DEF MonitorTakesRunner
<1>2. CASE MonitorChecksCore(r) \/ MonitorRequestsShutdown(r) \/ MonitorFindsOverdue(r)
           \/ MonitorSeesExit(r)
  BY <1>2 DEF MonitorChecksCore, MonitorRequestsShutdown, MonitorFindsOverdue,
    MonitorSeesExit
<1>3. CASE MonitorQuits(r)
  BY <1>3 DEF MonitorQuits
<1>4. CASE MonitorFailsOverdue(r)
  BY <1>4 DEF MonitorFailsOverdue
<1>5. CASE MonitorJoins(r)
  BY <1>5 DEF MonitorJoins, Joined
<1>6. QED
  BY <1>1, <1>2, <1>3, <1>4, <1>5 DEF MonitorSteps, MonitorProceeds

(* A call inside RequestVmStop works on a run that was launched, and only  *)
(* those calls and a failed start change a lifecycle.                      *)
LEMMA StopTargetLemma ==
  ASSUME TypeOK, CallInv, OwnershipInv, NEW c \in Callers, call[c].pc # "idle",
         StopTarget(c) # NoRun
  PROVE  Started(StopTarget(c)) /\ StopTarget(c) \in Runs
         /\ vmRunning[vmOf[StopTarget(c)]] = StopTarget(c)
BY MaxRunsAssumption DEF TypeOK, OwnershipType, CallInv, OwnershipInv, StopTarget,
  Started, Runs, RunOrNone

LEMMA CallMoves ==
  ASSUME TypeOK, CallInv, OwnershipInv, LifeInv, NEW c \in Callers, CallContinues(c)
  PROVE  \/ life' = life /\ mpc' = mpc
         \/ StartVmFailsRun(c) /\ Started(call[c].run) /\ mpc' = mpc
         \/ RequestStopClaims(c) /\ Started(StopTarget(c)) /\ mpc' = mpc
         \/ RequestStopCannotSpawn(c) /\ Started(StopTarget(c)) /\ mpc' = mpc
         \/ RequestStopSpawnsMonitor(c) /\ Started(StopTarget(c)) /\ life' = life
            /\ mpc[StopTarget(c)] = "none"
<1>1. CASE StartVmContinues(c)
  BY <1>1 DEF StartVmContinues, StartVmSucceeds, StartVmGivesUp, StartVmEndsSession,
    StartVmFailsRun, StartVmReadsStatus, StartVmWritesStatus, CallInv, monitor
<1>2. CASE RequestStopContinues(c)
  <2>1. call[c].pc \in {"stop", "stopMic", "stopState", "stopSpawn"}
    BY <1>2 DEF RequestStopContinues, RequestStopIgnored, RequestStopClaims,
      RequestStopMutesMicrophone, RequestStopWritesStatus, RequestStopSpawnsMonitor,
      RequestStopCannotSpawn
  <2>2. QED
    BY <1>2, <2>1, StopTargetLemma DEF RequestStopContinues, RequestStopIgnored,
      RequestStopClaims, RequestStopMutesMicrophone, RequestStopWritesStatus,
      RequestStopSpawnsMonitor, RequestStopCannotSpawn, LifeInv, RecordInv, ReservationInv, monitor
<1>3. CASE GetVmStatusReadsAgain(c) \/ GetVmStatusReturns(c) \/ DiskToolEnds(c)
  BY <1>3 DEF GetVmStatusReadsAgain, GetVmStatusReturns, DiskToolEnds, monitor
<1>4. QED
  BY <1>1, <1>2, <1>3 DEF CallContinues

(* The maps keep naming the last run of each VM.                           *)
LEMMA OwnershipStep ==
  ASSUME TypeOK, CallInv, OwnershipInv, LifeInv, Next
  PROVE  OwnershipInv'
<1> USE DEF TypeOK, OwnershipType, OwnershipInv, Started, Joinable
<1>1. ASSUME NEW c \in Callers, NEW v \in VMs, StartVmLaunch(c, v)
      PROVE  OwnershipInv'
  <2>1. \A r \in Runs : Started(r) => mpc[r] = "gone" /\ rpc[r] = "exited"
    BY <1>1, LaunchAfterJoin DEF StartVmLaunch
  <2>2. nRuns \in Nat /\ nRuns' = nRuns + 1 /\ nRuns' \in Runs
    BY <1>1, MaxRunsAssumption DEF StartVmLaunch, RunOrNone, Runs
  <2>3. /\ vmOf' = [vmOf EXCEPT ![nRuns'] = v]
        /\ vmRunning' = [vmRunning EXCEPT ![v] = nRuns']
        /\ vmThreads' = [vmThreads EXCEPT ![v] = nRuns']
        /\ rpc' = [rpc EXCEPT ![nRuns'] = "init"]
        /\ UNCHANGED <<life, mpc>>
    BY <1>1, <2>2 DEF StartVmLaunch, monitor
  <2>4. \A r \in Runs : Started(r)' <=> Started(r) \/ r = nRuns'
    BY <2>2 DEF Runs
  <2>5. QED
    BY <2>1, <2>2, <2>3, <2>4, MaxRunsAssumption DEF ThreadsType, NoRun, Runs
<1>2. ASSUME NEW c \in Callers, CallBegins(c), ~Launches(c)
      PROVE  OwnershipInv'
  BY <1>2, BeginFrame DEF ownership, runner, monitor
<1>3. ASSUME NEW c \in Callers, CallContinues(c)
      PROVE  OwnershipInv'
  <2>1. UNCHANGED ownership /\ rpc' = rpc
    BY <1>3, CallFrame DEF runner
  <2>2. CASE life' = life /\ mpc' = mpc
    BY <2>1, <2>2 DEF ownership
  <2>3. CASE mpc' = mpc /\ \E r \in Runs : Started(r) /\ \E l : life' = [life EXCEPT ![r] = l]
    BY <2>1, <2>3 DEF ownership
  <2>4. CASE RequestStopSpawnsMonitor(c) /\ Started(StopTarget(c)) /\ life' = life
             /\ mpc[StopTarget(c)] = "none"
    BY <2>1, <2>4 DEF ownership, RequestStopSpawnsMonitor, ThreadsType
  <2>5. Started(call[c].run) => call[c].run \in Runs
    BY MaxRunsAssumption DEF RunOrNone, Runs
  <2>6. Started(StopTarget(c)) => StopTarget(c) \in Runs
    BY MaxRunsAssumption DEF RunOrNone, Runs
  <2>7. StartVmFailsRun(c) => \E l : life' = [life EXCEPT ![call[c].run] = l]
    BY DEF StartVmFailsRun
  <2>8. RequestStopClaims(c) \/ RequestStopCannotSpawn(c) =>
          \E l : life' = [life EXCEPT ![StopTarget(c)] = l]
    BY DEF RequestStopClaims, RequestStopCannotSpawn
  <2>9. QED
    BY <1>3, <2>2, <2>3, <2>4, <2>5, <2>6, <2>7, <2>8, CallMoves
<1>4. ASSUME NEW r \in Runs, RunnerSteps(r)
      PROVE  OwnershipInv'
  BY <1>4, RunnerMoves, RunnerFrame DEF ownership, monitor
<1>5. ASSUME NEW r \in Runs, MonitorSteps(r)
      PROVE  OwnershipInv'
  <2>1. rpc' = rpc /\ UNCHANGED <<nRuns, vmOf, vmRunning>>
    BY <1>5, MonitorFrame DEF runner
  <2>2. \A s \in Runs : Started(s) /\ mpc[s] \in Joinable /\ s # r => FALSE
    BY <1>5, MonitorMoves, MaxRunsAssumption DEF Runs, RunOrNone
  <2>3. QED
    BY <1>5, <2>1, <2>2, MonitorMoves
<1>6. QED
  BY <1>1, <1>2, <1>3, <1>4, <1>5, StepCases DEF Launches

-----------------------------------------------------------------------------
StopPoints == {"stopMic", "stopState", "stopSpawn"}

(* The lifecycle of a run agrees with its runner and its monitor.          *)
LEMMA LifeBeginStep ==
  ASSUME TypeOK, CallInv, OwnershipInv, LifeInv, NEW c \in Callers, CallBegins(c)
  PROVE  LifeInv'
<1> USE DEF TypeOK, CallType, CallState, ThreadsType, OwnershipType
<1>1. ASSUME NEW v \in VMs, StartVmLaunch(c, v)
      PROVE  LifeInv'
  <2>1. nRuns + 1 \in Runs /\ rpc[nRuns + 1] = "none"
    BY <1>1, MaxRunsAssumption DEF StartVmLaunch, RunOrNone, Runs, OwnershipInv, Started
  <2>2. life' = life /\ mpc' = mpc /\ rpc' = [rpc EXCEPT ![nRuns + 1] = "init"]
    BY <1>1 DEF StartVmLaunch, monitor
  <2>3. \A d \in Callers : call'[d].pc \notin StopPoints
    BY <1>1, CallersAssumption DEF StartVmLaunch, CallInv, LockHolding, NoCall, StopPoints
  <2>4. QED
    BY <2>1, <2>2, <2>3 DEF LifeInv, RecordInv, ReservationInv, StopPoints
<1>2. CASE ~Launches(c)
  <2>1. UNCHANGED <<vmRunning, life, rpc, mpc>>
    BY <1>2, BeginFrame DEF ownership, runner, monitor
  <2>2. \A d \in Callers : call'[d].pc \in StopPoints => call'[d] = call[d]
    <3>1. CASE call' = call
      BY <3>1
    <3>2. ASSUME NEW v \in VMs, StopVm(c, v) \/ DiskToolBegins(c, v) \/ GetVmStatus(c, v)
          PROVE  call'[c].pc \in {"stop", "disk", "qmp"}
                 /\ \A d \in Callers : d # c => call'[d] = call[d]
      <4>1. CASE StopVm(c, v)
        BY <4>1 DEF StopVm, NoCall
      <4>2. CASE DiskToolBegins(c, v)
        BY <4>2 DEF DiskToolBegins, NoCall
      <4>3. CASE GetVmStatus(c, v)
        BY <4>3 DEF GetVmStatus, NoCall
      <4>4. QED
        BY <3>2, <4>1, <4>2, <4>3
    <3>3. call' = call \/ \E v \in VMs : StopVm(c, v) \/ DiskToolBegins(c, v) \/ GetVmStatus(c, v)
      BY <1>2 DEF CallBegins, Launches, StartVmPrepareFails, GetMicrophoneSession,
        SetMicrophoneEnabled
    <3>4. QED
      BY <3>1, <3>2, <3>3 DEF StopPoints
  <2>3. QED
    BY <2>1, <2>2 DEF LifeInv, RecordInv, ReservationInv, StopTarget, StopPoints
<1>3. QED
  BY <1>1, <1>2 DEF Launches

LEMMA LifeCallStep ==
  ASSUME TypeOK, CallInv, OwnershipInv, LifeInv, NEW c \in Callers, CallContinues(c)
  PROVE  LifeInv'
<1> USE DEF TypeOK, CallType, CallState, ThreadsType
<1>1. UNCHANGED <<vmRunning, rpc>>
  BY CallFrame DEF ownership, runner
<1>2. CASE StartVmFailsRun(c)
  <2>0. call[c].run \in Runs
    BY <1>2, MaxRunsAssumption DEF StartVmFailsRun, CallInv, Started, OwnershipType,
      RunOrNone, Runs
  <2>1. PICK r \in Runs : life' = [life EXCEPT ![r] = Fail(life[r], "startup")]
    BY <1>2, <2>0 DEF StartVmFailsRun
  <2>2. /\ life'[r] = Fail(life[r], "startup")
        /\ \A s \in Runs : s # r => life'[s] = life[s]
        /\ mpc' = mpc
        /\ \A d \in Callers : call'[d].pc \in StopPoints => call'[d] = call[d]
    BY <1>2, <2>1 DEF StartVmFailsRun, Goto, monitor, StopPoints
  <2>3. /\ life'[r].active = life[r].active
        /\ life'[r].stopOwner = life[r].stopOwner
        /\ life'[r].stopRequested
        /\ life'[r].status = IF life[r].active THEN "stopping" ELSE "failed"
    BY <2>2, FailLemma DEF Reasons
  <2>4. \A d \in Callers : call'[d].pc \in StopPoints =>
          call[d].pc \in StopPoints /\ StopTarget(d)' = StopTarget(d) /\ StopTarget(d) \in Runs
    BY <1>1, <2>2, StopTargetLemma DEF StopTarget, StopPoints, LifeInv, RecordInv, ReservationInv
  <2>5. RecordInv'
    BY <1>1, <2>2, <2>3 DEF LifeInv, RecordInv
  <2>6. ReservationInv'
    <3>1. \A s \in Runs : /\ mpc'[s] = mpc[s]
                          /\ life[s].stopOwner => life'[s].stopOwner
                          /\ life[s].stopRequested => life'[s].stopRequested
      BY <2>2, <2>3
    <3> HIDE DEF TypeOK, CallType, CallState, ThreadsType
    <3>2. \A s \in Runs : mpc'[s] \notin {"none", "gone"} =>
            life'[s].stopOwner /\ life'[s].stopRequested
      BY <3>1 DEF LifeInv, ReservationInv
    <3>3. ASSUME NEW d \in Callers, call'[d].pc \in StopPoints
          PROVE  /\ StopTarget(d)' # NoRun
                 /\ mpc'[StopTarget(d)'] = "none"
                 /\ life'[StopTarget(d)'].stopOwner
                 /\ life'[StopTarget(d)'].stopRequested
      BY <2>4, <3>1, <3>3 DEF LifeInv, ReservationInv, StopPoints
    <3>4. QED
      BY <3>2, <3>3 DEF ReservationInv, StopPoints
  <2>7. QED
    BY <2>5, <2>6 DEF LifeInv
<1>3. CASE RequestStopClaims(c)
  <2>1. PICK r \in Runs : r = StopTarget(c) /\ r # NoRun
    BY <1>3, StopTargetLemma DEF RequestStopClaims
  <2>2. /\ life'[r] = ClaimStop(life[r])
        /\ \A s \in Runs : s # r => life'[s] = life[s]
        /\ mpc' = mpc
        /\ life[r].active /\ ~life[r].stopOwner
    BY <1>3, <2>1 DEF RequestStopClaims, CanClaimStop, monitor
  <2>3. \A d \in Callers : call'[d].pc \in StopPoints => d = c /\ StopTarget(d)' = r
    BY <1>1, <1>3, <2>1, CallersAssumption DEF RequestStopClaims, CallInv, LockHolding, Goto,
      StopTarget,
      StopPoints
  <2>4. mpc[r] = "none"
    BY <2>2 DEF LifeInv, RecordInv, ReservationInv, OwnershipInv
  <2>5. QED
    BY <1>1, <2>1, <2>2, <2>3, <2>4, ClaimStopLemma DEF LifeInv, RecordInv, ReservationInv,
      StopPoints
<1>4. CASE RequestStopCannotSpawn(c)
  <2>1. PICK r \in Runs : r = StopTarget(c) /\ mpc[r] = "none"
    BY <1>4, StopTargetLemma DEF RequestStopCannotSpawn, LifeInv, RecordInv, ReservationInv
  <2>2. /\ life'[r] = ReleaseStopOwner(Fail(life[r], "monitor"))
        /\ \A s \in Runs : s # r => life'[s] = life[s]
        /\ mpc' = mpc
    BY <1>4, <2>1 DEF RequestStopCannotSpawn, monitor
  <2>3. \A d \in Callers : call'[d].pc \notin StopPoints
    BY <1>4 DEF RequestStopCannotSpawn, CallInv, LockHolding, Return, NoCall, StopPoints
  <2>4. /\ life'[r].active = life[r].active
        /\ life'[r].status = IF life[r].active THEN "stopping" ELSE "failed"
    BY <2>2, FailLemma, ReleaseLemma DEF Reasons
  <2>5. QED
    BY <1>1, <2>1, <2>2, <2>3, <2>4 DEF LifeInv, RecordInv, ReservationInv, StopPoints
<1>5. CASE RequestStopSpawnsMonitor(c)
  <2>1. PICK r \in Runs : /\ r = StopTarget(c) /\ mpc[r] = "none"
                          /\ life[r].stopOwner /\ life[r].stopRequested
    BY <1>5, StopTargetLemma DEF RequestStopSpawnsMonitor, LifeInv, RecordInv, ReservationInv
  <2>2. life' = life /\ mpc' = [mpc EXCEPT ![r] = "created"]
    BY <1>5, <2>1 DEF RequestStopSpawnsMonitor
  <2>3. \A d \in Callers : call'[d].pc \notin StopPoints
    BY <1>5 DEF RequestStopSpawnsMonitor, CallInv, LockHolding, Return, NoCall, StopPoints
  <2>4. QED
    BY <1>1, <2>1, <2>2, <2>3 DEF LifeInv, RecordInv, ReservationInv, StopPoints
<1>6. CASE ~(StartVmFailsRun(c) \/ RequestStopClaims(c) \/ RequestStopCannotSpawn(c)
             \/ RequestStopSpawnsMonitor(c))
  <2>1. life' = life /\ mpc' = mpc
    BY <1>6, CallMoves
  <2>2. \A d \in Callers : call'[d].pc \in StopPoints =>
          call[d].pc \in StopPoints /\ call'[d].vm = call[d].vm
    <3>1. ASSUME StartVmContinues(c)
          PROVE  call'[c].pc \notin StopPoints
                 /\ \A d \in Callers : d # c => call'[d] = call[d]
      <4>1. CASE StartVmSucceeds(c)
        BY <4>1 DEF StartVmSucceeds, Return, NoCall, StopPoints
      <4>2. CASE StartVmGivesUp(c) \/ StartVmEndsSession(c)
        BY <4>2 DEF StartVmGivesUp, StartVmEndsSession, Goto, StopPoints
      <4>3. CASE StartVmReadsStatus(c)
        BY <4>3 DEF StartVmReadsStatus, StopPoints
      <4>4. CASE StartVmWritesStatus(c)
        BY <4>4 DEF StartVmWritesStatus, NoCall, StopPoints
      <4>5. QED
        BY <1>6, <3>1, <4>1, <4>2, <4>3, <4>4 DEF StartVmContinues
    <3>2. ASSUME RequestStopIgnored(c) \/ GetVmStatusReadsAgain(c) \/ GetVmStatusReturns(c)
                 \/ DiskToolEnds(c)
          PROVE  call'[c].pc \notin StopPoints
                 /\ \A d \in Callers : d # c => call'[d] = call[d]
      BY <3>2 DEF RequestStopIgnored, GetVmStatusReadsAgain, GetVmStatusReturns,
        DiskToolEnds, Return, NoCall, StopPoints
    <3>3. ASSUME RequestStopMutesMicrophone(c) \/ RequestStopWritesStatus(c)
          PROVE  /\ call[c].pc \in StopPoints /\ call'[c].vm = call[c].vm
                 /\ \A d \in Callers : d # c => call'[d] = call[d]
      BY <3>3 DEF RequestStopMutesMicrophone, RequestStopWritesStatus, Goto, StopPoints
    <3>4. QED
      BY <1>6, <3>1, <3>2, <3>3 DEF CallContinues, RequestStopContinues
  <2>3. QED
    BY <1>1, <2>1, <2>2 DEF LifeInv, RecordInv, ReservationInv, StopTarget, StopPoints
<1>7. QED
  BY <1>2, <1>3, <1>4, <1>5, <1>6

LEMMA LifeRunnerStep ==
  ASSUME TypeOK, CallInv, OwnershipInv, LifeInv, NEW r \in Runs, RunnerSteps(r)
  PROVE  LifeInv'
<1> USE DEF TypeOK, ThreadsType
<1>1. /\ mpc' = mpc
      /\ \A d \in Callers : call'[d] = call[d] /\ StopTarget(d)' = StopTarget(d)
      /\ \A s \in Runs : s # r => rpc'[s] = rpc[s] /\ life'[s] = life[s]
      /\ \A d \in Callers : call[d].pc \in StopPoints => StopTarget(d) \in Runs
  BY RunnerFrame, RunnerMoves, StopTargetLemma DEF monitor, ownership, StopTarget,
    StopPoints, LifeInv, RecordInv, ReservationInv
<1>2. CASE /\ life'[r] = life[r]
           /\ rpc[r] \in {"publish", "exited"} <=> rpc'[r] \in {"publish", "exited"}
  BY <1>1, <1>2 DEF LifeInv, RecordInv, ReservationInv, StopPoints
<1>3. CASE RunnerMarksRunning(r)
  BY <1>1, <1>3, MarkRunningLemma DEF LifeInv, RecordInv, ReservationInv, StopPoints,
    RunnerMarksRunning, Move
<1>4. CASE RunnerFails(r)
  BY <1>1, <1>4, FailLemma DEF LifeInv, RecordInv, ReservationInv, StopPoints, RunnerFails, Move,
    Reasons
<1>5. CASE RunnerCompletes(r)
  <2>1. life'[r] = Complete(life[r], clean[r]) /\ rpc'[r] = "publish"
    BY <1>5 DEF RunnerCompletes, Move
  <2>2. /\ ~life'[r].active
        /\ life'[r].stopOwner = life[r].stopOwner
        /\ life'[r].stopRequested = life[r].stopRequested
        /\ life'[r].status = "stopped" => life'[r].error = {}
    BY <2>1, CompleteLemma
  <2>3. RecordInv'
    BY <1>1, <2>1, <2>2 DEF LifeInv, RecordInv
  <2>4. ReservationInv'
    BY <1>1, <2>2 DEF LifeInv, ReservationInv, StopPoints
  <2>5. QED
    BY <2>3, <2>4 DEF LifeInv
<1>6. QED
  BY <1>2, <1>3, <1>4, <1>5 DEF RunnerSteps, RunnerProceeds, RunnerLeavesLoop,
    RunnerInitFails, RunnerInitReturns, RunnerOpensSession, RunnerWritesRunning,
    RunnerReportsStarted, RunnerReportsLate, RunnerRequestsShutdown, RunnerLoopReturns,
    RunnerLoopExits, RunnerEndsSession, RunnerCleansUp, RunnerNotifies, RunnerPublishes,
    Move

LEMMA LifeMonitorStep ==
  ASSUME TypeOK, CallInv, OwnershipInv, LifeInv, NEW r \in Runs, MonitorSteps(r)
  PROVE  LifeInv'
<1> USE DEF TypeOK, ThreadsType
<1>1. /\ rpc' = rpc
      /\ \A d \in Callers : call'[d] = call[d] /\ StopTarget(d)' = StopTarget(d)
      /\ mpc[r] \notin {"none", "gone"}
      /\ mpc'[r] \notin Joinable
      /\ \A s \in Runs : s # r => mpc'[s] = mpc[s] /\ life'[s] = life[s]
  BY MonitorFrame, MonitorMoves DEF runner, StopTarget
<1>2. \A d \in Callers : call[d].pc \in StopPoints => StopTarget(d) # r
                                                      /\ StopTarget(d) \in Runs
  BY <1>1, StopTargetLemma DEF LifeInv, RecordInv, ReservationInv, StopPoints
<1>3. CASE life'[r] = life[r]
  BY <1>1, <1>2, <1>3 DEF LifeInv, RecordInv, ReservationInv, StopPoints
<1>4. CASE MonitorFailsOverdue(r)
  BY <1>1, <1>2, <1>4, FailLemma DEF LifeInv, RecordInv, ReservationInv, MonitorFailsOverdue,
    Reasons, StopPoints
<1>5. CASE MonitorJoins(r)
  BY <1>1, <1>2, <1>5, ReleaseLemma DEF LifeInv, RecordInv, ReservationInv, MonitorJoins,
    MoveMonitor, StopPoints
<1>6. QED
  BY <1>3, <1>4, <1>5 DEF MonitorSteps, MonitorProceeds, MonitorQuits,
    MonitorFindsOverdue, MonitorTakesRunner, MonitorChecksCore, MonitorRequestsShutdown,
    MonitorSeesExit

LEMMA LifeStep ==
  ASSUME TypeOK, CallInv, OwnershipInv, LifeInv, Next
  PROVE  LifeInv'
BY LifeBeginStep, LifeCallStep, LifeRunnerStep, LifeMonitorStep, StepCases

-----------------------------------------------------------------------------
(* Only the last run can still have a runner in the core.                  *)
LEMMA OneRunner ==
  ASSUME TypeOK, OwnershipInv
  PROVE  SingleRunner
<1>1. ASSUME NEW r \in Runs, Occupied(r)
      PROVE  r = nRuns
  <2>1. Started(r) /\ mpc[r] # "gone"
    BY <1>1 DEF Occupied, OwnershipInv
  <2>2. QED
    BY <2>1, MaxRunsAssumption DEF TypeOK, OwnershipType, OwnershipInv, Started, Runs,
      RunOrNone
<1>2. QED
  BY <1>1 DEF SingleRunner

CorePoints ==
  {"initialized", "marked", "micOn", "announced", "late", "lateShutdown", "loop",
   "loopEnd", "cleanup"}

ReadyPoints == {"marked", "micOn", "announced", "loop"}

(* A shutdown request is not lost between qemu_init and the main loop.     *)
LEMMA CoreRunnerStep ==
  ASSUME TypeOK, OwnershipInv, LifeInv, CoreInv, NEW r \in Runs, RunnerSteps(r)
  PROVE  CoreInv'
<1>1. mpc' = mpc /\ \A s \in Runs : s # r => rpc'[s] = rpc[s]
  BY RunnerFrame, RunnerMoves DEF monitor
<1>2. \A s \in Runs : s # r => rpc[s] \in {"none", "exited"}
  BY OneRunner, RunnerMoves DEF SingleRunner, Occupied
<1>3. \A s \in Runs : s # r => rpc'[s] \notin CorePoints \cup ReadyPoints
  BY <1>1, <1>2 DEF CorePoints, ReadyPoints
<1>4. (rpc'[r] \in CorePoints => initialized')
      /\ (rpc'[r] \in ReadyPoints /\ mpc[r] \in Watching => shutdown')
  <2> USE DEF Move, TypeOK, ThreadsType
  <2>1. CASE RunnerInitFails(r) \/ RunnerInitReturns(r)
    BY <2>1 DEF RunnerInitFails, RunnerInitReturns, InitializedNow, CorePoints, ReadyPoints
  <2>2. CASE RunnerMarksRunning(r)
    <3>1. mpc[r] \in Watching => life[r].stopRequested
      BY DEF Watching, LifeInv, ReservationInv
    <3>2. QED
      BY <2>2, <3>1 DEF RunnerMarksRunning, CanMarkRunning, CoreInv, CorePoints,
        ReadyPoints, core
  <2>3. CASE RunnerOpensSession(r) \/ RunnerWritesRunning(r) \/ RunnerReportsStarted(r)
    BY <2>3 DEF RunnerOpensSession, RunnerWritesRunning, RunnerReportsStarted, CoreInv,
      CorePoints, ReadyPoints, core
  <2>4. CASE RunnerReportsLate(r) \/ RunnerRequestsShutdown(r)
    BY <2>4 DEF RunnerReportsLate, RunnerRequestsShutdown, CoreInv, CorePoints,
      ReadyPoints, core
  <2>5. CASE RunnerLoopReturns(r) \/ RunnerLoopExits(r)
    BY <2>5 DEF RunnerLoopReturns, RunnerLoopExits, CoreInv, CorePoints, ReadyPoints, core
  <2>6. CASE RunnerEndsSession(r)
    BY <2>6 DEF RunnerEndsSession, CoreInv, CorePoints, ReadyPoints, core
  <2>7. CASE RunnerCleansUp(r) \/ RunnerFails(r) \/ RunnerNotifies(r)
    BY <2>7 DEF RunnerCleansUp, RunnerFails, RunnerNotifies, CorePoints, ReadyPoints
  <2>8. CASE RunnerCompletes(r) \/ RunnerPublishes(r)
    BY <2>8 DEF RunnerCompletes, RunnerPublishes, CorePoints, ReadyPoints
  <2>9. QED
    BY <2>1, <2>2, <2>3, <2>4, <2>5, <2>6, <2>7, <2>8 DEF RunnerSteps, RunnerProceeds,
      RunnerLeavesLoop
<1>5. QED
  BY <1>1, <1>3, <1>4 DEF CoreInv, CorePoints, ReadyPoints

LEMMA CoreMonitorStep ==
  ASSUME TypeOK, CoreInv, NEW r \in Runs, MonitorSteps(r)
  PROVE  CoreInv'
<1> USE DEF TypeOK, ThreadsType
<1>1. rpc' = rpc /\ initialized' = initialized
      /\ \A s \in Runs : s # r => mpc'[s] = mpc[s]
  BY MonitorFrame, MonitorMoves DEF runner
<1>2. shutdown' = shutdown \/ shutdown'
  BY DEF MonitorSteps, MonitorProceeds, MonitorQuits, MonitorFindsOverdue,
    MonitorTakesRunner, MonitorChecksCore, MonitorRequestsShutdown, MonitorFailsOverdue,
    MonitorSeesExit, MonitorJoins, core
<1>3. rpc[r] \in ReadyPoints /\ mpc'[r] \in Watching => mpc[r] \in Watching \/ shutdown'
  <2>1. CASE MonitorTakesRunner(r) \/ MonitorJoins(r)
    BY <2>1 DEF MonitorTakesRunner, MonitorJoins, MoveMonitor, Watching
  <2>2. CASE MonitorChecksCore(r)
    BY <2>2 DEF MonitorChecksCore, MoveMonitor, CoreInv, Watching, ReadyPoints
  <2>3. CASE MonitorRequestsShutdown(r) \/ MonitorQuits(r)
    BY <2>3 DEF MonitorRequestsShutdown, MonitorQuits
  <2>4. CASE MonitorFindsOverdue(r) \/ MonitorFailsOverdue(r) \/ MonitorSeesExit(r)
    BY <2>4 DEF MonitorFindsOverdue, MonitorFailsOverdue, MonitorSeesExit, MoveMonitor,
      Watching
  <2>5. QED
    BY <2>1, <2>2, <2>3, <2>4 DEF MonitorSteps, MonitorProceeds
<1>4. QED
  BY <1>1, <1>2, <1>3 DEF CoreInv, ReadyPoints

LEMMA CoreStep ==
  ASSUME TypeOK, CallInv, OwnershipInv, LifeInv, CoreInv, Next
  PROVE  CoreInv'
<1> USE DEF TypeOK, ThreadsType, core, runner, monitor
<1>1. ASSUME NEW c \in Callers, NEW v \in VMs, StartVmLaunch(c, v)
      PROVE  CoreInv'
  <2>1. rpc' = [rpc EXCEPT ![nRuns + 1] = "init"] /\ UNCHANGED <<mpc, initialized, shutdown>>
    BY <1>1 DEF StartVmLaunch
  <2>2. QED
    BY <2>1 DEF CoreInv
<1>2. ASSUME NEW c \in Callers, CallBegins(c), ~Launches(c)
      PROVE  CoreInv'
  BY <1>2, BeginFrame DEF CoreInv
<1>3. ASSUME NEW c \in Callers, CallContinues(c)
      PROVE  CoreInv'
  <2>1. UNCHANGED <<rpc, initialized, shutdown>>
    BY <1>3, CallFrame
  <2>2. CASE mpc' = mpc
    BY <2>1, <2>2 DEF CoreInv
  <2>3. CASE RequestStopSpawnsMonitor(c)
    BY <2>1, <2>3 DEF RequestStopSpawnsMonitor, CoreInv, Watching
  <2>4. QED
    BY <1>3, <2>2, <2>3, CallMoves
<1>4. QED
  BY <1>1, <1>2, <1>3, CoreRunnerStep, CoreMonitorStep, StepCases DEF Launches

-----------------------------------------------------------------------------
(* A claimed stop stays in the hands of its caller until a monitor has it. *)
MonitorHolds(r) == mpc[r] \in {"created", "owner", "request", "watch", "overdue", "join"}

LEMMA OwnerCallStep ==
  ASSUME TypeOK, CallInv, OwnershipInv, LifeInv, OwnerActs,
         NEW c \in Callers, CallContinues(c)
  PROVE  OwnerActs'
<1> USE DEF TypeOK, CallType, CallState, ThreadsType
<1> SUFFICES ASSUME NEW r \in Runs, life'[r].stopOwner
             PROVE  (\E d \in Callers : InRequestStop(d, r)') \/ MonitorHolds(r)'
  BY DEF OwnerActs, MonitorHolds
<1>0. vmRunning' = vmRunning
  BY CallFrame DEF ownership
<1>1. CASE RequestStopClaims(c) /\ StopTarget(c) = r
  BY <1>0, <1>1 DEF RequestStopClaims, InRequestStop, StopTarget, Goto
<1>2. CASE RequestStopSpawnsMonitor(c) /\ StopTarget(c) = r
  BY <1>2 DEF RequestStopSpawnsMonitor, MonitorHolds
<1>3. CASE RequestStopCannotSpawn(c) /\ StopTarget(c) = r
  <2>1. life'[r] = ReleaseStopOwner(Fail(life[r], "monitor"))
    BY <1>3 DEF RequestStopCannotSpawn
  <2>2. QED
    BY <2>1, FailLemma, ReleaseLemma DEF Reasons
<1>4. CASE ~((RequestStopClaims(c) \/ RequestStopSpawnsMonitor(c)
              \/ RequestStopCannotSpawn(c)) /\ StopTarget(c) = r)
  <2>1. life[r].stopOwner
    <3>1. CASE StartVmFailsRun(c)
      BY <3>1, FailLemma DEF StartVmFailsRun, Reasons
    <3>2. CASE life'[r] = life[r]
      BY <3>2
    <3>3. QED
      BY <1>4, <3>1, <3>2, CallMoves DEF RequestStopClaims, RequestStopCannotSpawn
  <2>2. MonitorHolds(r) => MonitorHolds(r)'
    BY CallMoves DEF MonitorHolds, RequestStopSpawnsMonitor
  <2>3. ASSUME NEW d \in Callers, InRequestStop(d, r)
        PROVE  InRequestStop(d, r)'
    <3>1. CASE d # c
      <4>1. \E x : call' = [call EXCEPT ![c] = x]
        BY DEF CallContinues, StartVmContinues, RequestStopContinues, StartVmSucceeds,
          StartVmGivesUp, StartVmEndsSession, StartVmFailsRun, StartVmReadsStatus,
          StartVmWritesStatus, RequestStopIgnored, RequestStopClaims,
          RequestStopMutesMicrophone, RequestStopWritesStatus, RequestStopSpawnsMonitor,
          RequestStopCannotSpawn, GetVmStatusReadsAgain, GetVmStatusReturns, DiskToolEnds,
          Return, Goto
      <4>2. QED
        BY <1>0, <2>3, <3>1, <4>1 DEF InRequestStop, StopTarget
    <3>2. CASE d = c
      <4>1. RequestStopMutesMicrophone(c) \/ RequestStopWritesStatus(c)
        BY <1>4, <2>3, <3>2 DEF InRequestStop, CallContinues, StartVmContinues,
          RequestStopContinues, StartVmSucceeds, StartVmGivesUp, StartVmEndsSession,
          StartVmFailsRun, StartVmReadsStatus, StartVmWritesStatus, RequestStopIgnored,
          RequestStopClaims, RequestStopSpawnsMonitor, RequestStopCannotSpawn,
          GetVmStatusReadsAgain, GetVmStatusReturns, DiskToolEnds
      <4>2. QED
        BY <1>0, <2>3, <3>2, <4>1 DEF InRequestStop, StopTarget, Goto,
          RequestStopMutesMicrophone, RequestStopWritesStatus
    <3>3. QED
      BY <3>1, <3>2
  <2>4. QED
    BY <2>1, <2>2, <2>3 DEF OwnerActs, MonitorHolds
<1>5. QED
  BY <1>1, <1>2, <1>3, <1>4

LEMMA OwnerStep ==
  ASSUME TypeOK, CallInv, OwnershipInv, LifeInv, OwnerActs, Next
  PROVE  OwnerActs'
<1> USE DEF TypeOK, CallType, CallState, ThreadsType
<1>1. ASSUME NEW c \in Callers, CallBegins(c)
      PROVE  OwnerActs'
  <2>1. life' = life /\ mpc' = mpc
    BY <1>1, BeginFrame DEF Launches, StartVmLaunch, monitor
  <2>2. ASSUME NEW d \in Callers, NEW r \in Runs, InRequestStop(d, r)
        PROVE  InRequestStop(d, r)'
    <3>1. vmMutex # "free" /\ call[d].pc # "idle" /\ call[c].pc = "idle"
      BY <1>1, <2>2, CallersAssumption DEF InRequestStop, CallInv, LockHolding, CallBegins,
        StartVmPrepareFails, StartVmLaunch, StopVm, GetVmStatus, DiskToolBegins,
        GetMicrophoneSession, SetMicrophoneEnabled
    <3>2. ~Launches(c)
      BY <3>1 DEF Launches, StartVmLaunch
    <3>3. call' = call \/ \E x : call' = [call EXCEPT ![c] = x]
      BY <1>1 DEF CallBegins, StartVmPrepareFails, StartVmLaunch, StopVm, GetVmStatus,
        DiskToolBegins, GetMicrophoneSession, SetMicrophoneEnabled
    <3>4. vmRunning' = vmRunning /\ call'[d] = call[d]
      BY <1>1, <3>1, <3>2, <3>3, BeginFrame DEF ownership
    <3>5. QED
      BY <2>2, <3>4 DEF InRequestStop, StopTarget
  <2>3. QED
    BY <2>1, <2>2 DEF OwnerActs
<1>2. ASSUME NEW r \in Runs, RunnerSteps(r)
      PROVE  OwnerActs'
  <2>1. mpc' = mpc /\ \A d \in Callers, s \in Runs : InRequestStop(d, s)' <=> InRequestStop(d, s)
    BY <1>2, RunnerFrame DEF monitor, ownership, InRequestStop, StopTarget
  <2>2. \A s \in Runs : life'[s].stopOwner => life[s].stopOwner
    <3>1. CASE RunnerMarksRunning(r)
      BY <3>1, MarkRunningLemma DEF RunnerMarksRunning
    <3>2. CASE RunnerFails(r)
      BY <3>2, FailLemma DEF RunnerFails, Reasons
    <3>3. CASE RunnerCompletes(r)
      BY <3>3, CompleteLemma DEF RunnerCompletes
    <3>4. CASE UNCHANGED life
      BY <3>4
    <3>5. QED
      BY <1>2, <3>1, <3>2, <3>3, <3>4 DEF RunnerSteps, RunnerProceeds, RunnerLeavesLoop,
        RunnerInitFails, RunnerInitReturns, RunnerOpensSession, RunnerWritesRunning,
        RunnerReportsStarted, RunnerReportsLate, RunnerRequestsShutdown,
        RunnerLoopReturns, RunnerLoopExits, RunnerEndsSession, RunnerCleansUp,
        RunnerNotifies, RunnerPublishes
  <2>3. QED
    BY <2>1, <2>2 DEF OwnerActs
<1>3. ASSUME NEW r \in Runs, MonitorSteps(r)
      PROVE  OwnerActs'
  <2>1. \A d \in Callers, s \in Runs : InRequestStop(d, s)' <=> InRequestStop(d, s)
    BY <1>3, MonitorFrame DEF InRequestStop, StopTarget
  <2>2. \A s \in Runs : s # r => mpc'[s] = mpc[s] /\ life'[s] = life[s]
    BY <1>3, MonitorMoves
  <2>3. life'[r].stopOwner => MonitorHolds(r)'
    <3>1. CASE MonitorJoins(r)
      BY <3>1, ReleaseLemma DEF MonitorJoins
    <3>2. CASE ~MonitorJoins(r)
      BY <1>3, <3>2 DEF MonitorSteps, MonitorProceeds, MonitorQuits, MonitorFindsOverdue,
        MonitorTakesRunner, MonitorChecksCore, MonitorRequestsShutdown,
        MonitorFailsOverdue, MonitorSeesExit, MoveMonitor, MonitorHolds
    <3>3. QED
      BY <3>1, <3>2
  <2>4. QED
    BY <2>1, <2>2, <2>3 DEF OwnerActs, MonitorHolds
<1>4. QED
  BY <1>1, <1>2, <1>3, OwnerCallStep, StepCases

-----------------------------------------------------------------------------
(* The inductive invariant.                                                *)
LEMMA InitIInv == Init => IInv
<1> SUFFICES ASSUME Init  PROVE  IInv
  OBVIOUS
<1> USE DEF Init, Started
<1>1. NoRun \in RunOrNone /\ 0 \in Generations /\ nRuns = 0
  BY MaxRunsAssumption, GenAssumption DEF NoRun, RunOrNone, Generations
<1>2. NewLifecycle \in Lifecycle /\ NewSession \in Session
  BY <1>1 DEF NewLifecycle, Lifecycle, Statuses, Reasons, NewSession, Session
<1>3. NoCall \in CallState
  BY <1>1 DEF NoCall, CallState, CallerPoints
<1>4. TypeOK
  <2>1. OwnershipType
    BY <1>1, MaxRunsAssumption DEF OwnershipType, RunOrNone, NoRun
  <2>2. life \in [Runs -> Lifecycle] /\ ThreadsType
    BY <1>2 DEF ThreadsType, RunnerPoints, MonitorPoints
  <2>3. CallType /\ DiagnosticsType
    BY <1>3 DEF CallType, DiagnosticsType, Statuses
  <2>4. MicrophoneType
    BY <1>1, <1>2 DEF MicrophoneType
  <2>5. initialized \in BOOLEAN /\ shutdown \in BOOLEAN
    OBVIOUS
  <2>6. QED
    BY <2>1, <2>2, <2>3, <2>4, <2>5 DEF TypeOK
<1>5. CallInv
  BY DEF CallInv, NoCall, LockHolding
<1>6. OwnershipInv
  BY DEF OwnershipInv, Runs
<1>7. LifeInv
  BY DEF LifeInv, RecordInv, ReservationInv, NewLifecycle, NoCall
<1>8. CoreInv
  BY DEF CoreInv
<1>9. OwnerActs
  BY DEF OwnerActs, NewLifecycle
<1>10. QED
  BY <1>4, <1>5, <1>6, <1>7, <1>8, <1>9 DEF IInv

LEMMA StepIInv == IInv /\ [Next]_vars => IInv'
<1>1. ASSUME IInv, Next  PROVE  IInv'
  BY <1>1, TypeStep, CallStep, OwnershipStep, LifeStep, CoreStep, OwnerStep DEF IInv
<1>2. ASSUME IInv, UNCHANGED vars  PROVE  IInv'
  <2> USE <1>2 DEF IInv, vars, ownership, runner, monitor, core, diagnostics, microphone
  <2>1. TypeOK'
    BY DEF TypeOK, OwnershipType, ThreadsType, CallType, DiagnosticsType, MicrophoneType
  <2>2. CallInv' /\ OwnershipInv'
    BY DEF CallInv, OwnershipInv, Started
  <2>3. LifeInv' /\ CoreInv' /\ OwnerActs'
    BY DEF LifeInv, RecordInv, ReservationInv, CoreInv, OwnerActs, InRequestStop, StopTarget
  <2>4. QED
    BY <2>1, <2>2, <2>3
<1>3. QED
  BY <1>1, <1>2

LEMMA Inductive == Spec => []IInv
BY InitIInv, StepIInv, PTL DEF Spec

(* Every variable of the runtime keeps its type, whatever the threads do.  *)
THEOREM TypeCorrect == Spec => []TypeOK
<1>1. IInv => TypeOK
  BY DEF IInv
<1>2. QED
  BY <1>1, Inductive, PTL

(* At most one runner thread is ever between its launch and the end of its *)
(* lambda, so two runs never share the process-wide embedded core.         *)
THEOREM SingleRunnerAlways == Spec => []SingleRunner
<1>1. IInv => SingleRunner
  BY OneRunner DEF IInv
<1>2. QED
  BY <1>1, Inductive, PTL

(* The joinable handle of a run stays in g_vmThreads until the monitor of  *)
(* that run takes it.                                                      *)
THEOREM HandleKeptAlways == Spec => []HandleKept
<1>1. IInv => HandleKept
  <2> SUFFICES ASSUME IInv, NEW r \in Runs, r <= nRuns, mpc[r] \in {"none", "created"}
               PROVE  vmThreads[vmOf[r]] = r /\ vmRunning[vmOf[r]] = r
    BY DEF HandleKept
  <2>1. Started(r)
    BY MaxRunsAssumption DEF IInv, TypeOK, OwnershipType, Started, Runs, RunOrNone
  <2>2. QED
    BY <2>1 DEF IInv, OwnershipInv, Joinable
<1>2. QED
  BY <1>1, Inductive, PTL

(* The reservation ClaimStop makes is always held by a caller still inside *)
(* RequestVmStop or by a monitor that goes on to release it.               *)
THEOREM OwnerActsAlways == Spec => []OwnerActs
<1>1. IInv => OwnerActs
  BY DEF IInv
<1>2. QED
  BY <1>1, Inductive, PTL

(* A stop request that races with the end of qemu_init reaches the main    *)
(* loop of the run it is about.                                            *)
THEOREM StopReachesCoreAlways == Spec => []StopReachesCore
<1>1. IInv => StopReachesCore
  BY DEF IInv, CoreInv, StopReachesCore, Watching
<1>2. QED
  BY <1>1, Inductive, PTL

(* VmLifecycle reports a terminal status only after the runner has left    *)
(* the core, and stopped only if no failure was recorded.                  *)
THEOREM TerminalMeansReturnedAlways == Spec => []TerminalMeansReturned
<1>1. IInv => TerminalMeansReturned
  BY DEF IInv, LifeInv, RecordInv, TerminalMeansReturned
<1>2. QED
  BY <1>1, Inductive, PTL

(* What a step may do to the record of a failed run.                       *)
Sticks(r) ==
  /\ life[r].error \subseteq life'[r].error
  /\ life[r].status = "failed" => life'[r].status = "failed"

LEMMA FailureStep ==
  ASSUME IInv, Next, NEW r \in Runs
  PROVE  Sticks(r)
<1> USE DEF IInv, TypeOK, ThreadsType, Sticks
<1>1. CASE life'[r] = life[r]
  BY <1>1
<1>2. ASSUME NEW reason \in Reasons, life'[r] = Fail(life[r], reason)
             \/ life'[r] = ReleaseStopOwner(Fail(life[r], reason))
      PROVE  Sticks(r)
  <2>1. life[r].status = "failed" => ~life[r].active
    BY DEF LifeInv, RecordInv
  <2>2. QED
    BY <1>2, <2>1, FailLemma, ReleaseLemma
<1>3. CASE life'[r] = ReleaseStopOwner(life[r])
  BY <1>3, ReleaseLemma
<1>4. CASE life[r].active /\ life'[r] = ClaimStop(life[r])
  BY <1>4, ClaimStopLemma DEF LifeInv, RecordInv
<1>5. CASE rpc[r] = "initialized" /\ life'[r] = MarkRunning(life[r])
  BY <1>5, MarkRunningLemma DEF LifeInv, RecordInv
<1>6. CASE rpc[r] = "complete" /\ \E ok : life'[r] = Complete(life[r], ok)
  BY <1>6, CompleteLemma DEF LifeInv, RecordInv
<1>7. ASSUME NEW c \in Callers, CallBegins(c)
      PROVE  life' = life
  BY <1>7, BeginFrame DEF Launches, StartVmLaunch
<1>8. ASSUME NEW c \in Callers, CallContinues(c)
      PROVE  Sticks(r)
  BY <1>1, <1>2, <1>4, <1>8, CallMoves DEF StartVmFailsRun, RequestStopClaims, CanClaimStop,
    RequestStopCannotSpawn, Reasons
<1>9. ASSUME NEW s \in Runs, RunnerSteps(s)
      PROVE  Sticks(r)
  BY <1>1, <1>2, <1>5, <1>6, <1>9 DEF RunnerSteps, RunnerProceeds, RunnerLeavesLoop,
    RunnerInitFails, RunnerInitReturns, RunnerMarksRunning, RunnerOpensSession,
    RunnerWritesRunning, RunnerReportsStarted, RunnerReportsLate, RunnerRequestsShutdown,
    RunnerLoopReturns, RunnerLoopExits, RunnerEndsSession, RunnerCleansUp, RunnerFails,
    RunnerNotifies, RunnerCompletes, RunnerPublishes, Move, Reasons
<1>10. ASSUME NEW s \in Runs, MonitorSteps(s)
       PROVE  Sticks(r)
  BY <1>1, <1>2, <1>3, <1>10 DEF MonitorSteps, MonitorProceeds, MonitorQuits,
    MonitorFindsOverdue, MonitorTakesRunner, MonitorChecksCore, MonitorRequestsShutdown,
    MonitorFailsOverdue, MonitorSeesExit, MonitorJoins, Reasons
<1>11. QED
  BY <1>1, <1>7, <1>8, <1>9, <1>10, StepCases

(* No step erases a recorded failure or turns a failed run into another.   *)
THEOREM FailureSticksAlways == Spec => FailureSticks
<1>1. IInv /\ [Next]_vars => [\A r \in Runs : Sticks(r)]_vars
  BY FailureStep
<1>2. QED
  BY <1>1, Inductive, PTL DEF Spec, FailureSticks, Sticks
-----------------------------------------------------------------------------
(***************************************************************************)
(* What the callers of the runtime rely on.                                *)
(***************************************************************************)
(* An inactive run has a terminal status, and none is stopping unasked.    *)
Settled(l) ==
  /\ ~l.active => l.status \in {"stopped", "failed"}
  /\ l.status = "stopping" => l.stopRequested

PhaseInv == \A r \in Runs : Settled(life[r])

(* A handle in g_vmThreads is that of a run nobody has joined.             *)
HandleInv ==
  \A v \in VMs : vmThreads[v] # NoRun =>
    /\ Started(vmThreads[v])
    /\ vmOf[vmThreads[v]] = v
    /\ mpc[vmThreads[v]] \in Joinable

(* The two facts the mapping needs beside the runtime's own invariant.     *)
RInv == IInv /\ PhaseInv /\ HandleInv

-----------------------------------------------------------------------------
(* What any step may make of the lifecycle of a run, and when.             *)
LEMMA LifeChanges ==
  ASSUME IInv, Next, NEW r \in Runs
  PROVE  \/ life'[r] = life[r]
         \/ \E reason \in Reasons : life'[r] = Fail(life[r], reason)
         \/ life'[r] = ReleaseStopOwner(Fail(life[r], "monitor"))
         \/ life'[r] = ReleaseStopOwner(life[r])
         \/ life[r].active /\ life'[r] = ClaimStop(life[r])
         \/ rpc[r] = "initialized" /\ life'[r] = MarkRunning(life[r])
         \/ rpc[r] = "complete" /\ life'[r] = Complete(life[r], clean[r])
<1> DEFINE Goal ==
      \/ life'[r] = life[r]
      \/ \E reason \in Reasons : life'[r] = Fail(life[r], reason)
      \/ life'[r] = ReleaseStopOwner(Fail(life[r], "monitor"))
      \/ life'[r] = ReleaseStopOwner(life[r])
      \/ life[r].active /\ life'[r] = ClaimStop(life[r])
      \/ rpc[r] = "initialized" /\ life'[r] = MarkRunning(life[r])
      \/ rpc[r] = "complete" /\ life'[r] = Complete(life[r], clean[r])
<1> USE DEF IInv, TypeOK
<1>1. ASSUME NEW c \in Callers, CallBegins(c)  PROVE  Goal
  BY <1>1, BeginFrame DEF Launches, StartVmLaunch
<1>2. ASSUME NEW c \in Callers, CallContinues(c)  PROVE  Goal
  BY <1>2, CallMoves DEF StartVmFailsRun, RequestStopClaims, CanClaimStop,
    RequestStopCannotSpawn, Reasons
<1>3. ASSUME NEW s \in Runs, RunnerSteps(s)  PROVE  Goal
  BY <1>3 DEF RunnerSteps, RunnerProceeds, RunnerLeavesLoop, RunnerInitFails,
    RunnerInitReturns, RunnerMarksRunning, RunnerOpensSession, RunnerWritesRunning,
    RunnerReportsStarted, RunnerReportsLate, RunnerRequestsShutdown,
    RunnerLoopReturns, RunnerLoopExits, RunnerEndsSession, RunnerCleansUp,
    RunnerFails, RunnerNotifies, RunnerCompletes, RunnerPublishes, Move, Reasons
<1>4. ASSUME NEW s \in Runs, MonitorSteps(s)  PROVE  Goal
  BY <1>4 DEF MonitorSteps, MonitorProceeds, MonitorQuits, MonitorFindsOverdue,
    MonitorTakesRunner, MonitorChecksCore, MonitorRequestsShutdown,
    MonitorFailsOverdue, MonitorSeesExit, MonitorJoins, Reasons
<1>5. QED
  BY <1>1, <1>2, <1>3, <1>4, StepCases

(* Every method of VmLifecycle keeps the object settled.                   *)
LEMMA SettledLemma ==
  ASSUME NEW l \in Lifecycle, Settled(l), NEW reason \in Reasons, NEW ok
  PROVE  /\ Settled(Fail(l, reason))
         /\ Settled(ReleaseStopOwner(l))
         /\ Settled(ReleaseStopOwner(Fail(l, reason)))
         /\ l.active => Settled(ClaimStop(l)) /\ Settled(MarkRunning(l))
         /\ Settled(Complete(l, ok))
<1>1. Settled(Fail(l, reason)) /\ Settled(ReleaseStopOwner(Fail(l, reason)))
  BY FailLemma, ReleaseLemma DEF Settled
<1>2. Settled(ReleaseStopOwner(l))
  BY ReleaseLemma DEF Settled
<1>3. l.active => Settled(ClaimStop(l)) /\ Settled(MarkRunning(l))
  BY ClaimStopLemma, MarkRunningLemma DEF Settled
<1>4. Complete(l, ok).status \in {"stopped", "failed"}
  BY DEF Lifecycle, Complete, AppendError
<1>5. Settled(Complete(l, ok))
  BY <1>4 DEF Settled
<1>6. QED
  BY <1>1, <1>2, <1>3, <1>5

LEMMA PhaseStep ==
  ASSUME IInv, PhaseInv, Next
  PROVE  PhaseInv'
<1> SUFFICES ASSUME NEW r \in Runs  PROVE  Settled(life'[r])
  BY DEF PhaseInv
<1>1. life[r] \in Lifecycle /\ Settled(life[r]) /\ "monitor" \in Reasons
  BY DEF IInv, TypeOK, PhaseInv, Reasons
<1>2. rpc[r] = "initialized" => life[r].active
  BY DEF IInv, LifeInv, RecordInv
<1>3. QED
  BY <1>1, <1>2, LifeChanges, SettledLemma

LEMMA HandleStep ==
  ASSUME IInv, HandleInv, Next
  PROVE  HandleInv'
<1> USE DEF IInv, TypeOK, OwnershipType, HandleInv
<1>0. \A v \in VMs : vmThreads[v] # NoRun => vmThreads[v] \in Runs
  BY MaxRunsAssumption DEF Started, Runs, RunOrNone
<1>1. ASSUME NEW c \in Callers, NEW v \in VMs, StartVmLaunch(c, v)
      PROVE  HandleInv'
  <2>1. nRuns + 1 \in Runs /\ nRuns \in Nat /\ mpc[nRuns + 1] = "none"
    BY <1>1, MaxRunsAssumption DEF StartVmLaunch, RunOrNone, Runs, OwnershipInv, Started
  <2>2. /\ vmOf' = [vmOf EXCEPT ![nRuns + 1] = v]
        /\ vmThreads' = [vmThreads EXCEPT ![v] = nRuns + 1]
        /\ mpc' = mpc
        /\ nRuns' = nRuns + 1
        /\ \A u \in VMs : vmThreads[u] = NoRun
    BY <1>1 DEF StartVmLaunch, StartAllowed, NoHandleLeft, monitor
  <2>3. QED
    BY <2>1, <2>2 DEF Started, Joinable
<1>2. ASSUME NEW c \in Callers, CallBegins(c), ~Launches(c)
      PROVE  HandleInv'
  BY <1>2, BeginFrame DEF ownership, monitor, Started
<1>3. ASSUME NEW c \in Callers, CallContinues(c)
      PROVE  HandleInv'
  <2>1. UNCHANGED <<nRuns, vmOf, vmThreads>>
    BY <1>3, CallFrame DEF ownership
  <2>2. mpc' = mpc \/ \E s \in Runs : mpc' = [mpc EXCEPT ![s] = "created"]
    BY <1>3, CallMoves, MaxRunsAssumption DEF RequestStopSpawnsMonitor, Started, Runs,
      RunOrNone
  <2>3. QED
    BY <1>0, <2>1, <2>2 DEF ThreadsType, Joinable, Started
<1>4. ASSUME NEW r \in Runs, RunnerSteps(r)
      PROVE  HandleInv'
  BY <1>4, RunnerFrame DEF ownership, monitor, Started
<1>5. ASSUME NEW r \in Runs, MonitorSteps(r)
      PROVE  HandleInv'
  <2>1. UNCHANGED <<nRuns, vmOf>> /\ \A s \in Runs : s # r => mpc'[s] = mpc[s]
    BY <1>5, MonitorFrame, MonitorMoves
  <2>2. \A v \in VMs : vmThreads'[v] # NoRun => vmThreads'[v] = vmThreads[v] /\ vmThreads[v] # r
    <3>1. CASE MonitorTakesRunner(r)
      BY <3>1 DEF MonitorTakesRunner
    <3>2. CASE ~MonitorTakesRunner(r)
      <4>1. vmThreads' = vmThreads /\ mpc[r] \notin Joinable
        BY <1>5, <3>2 DEF MonitorSteps, MonitorProceeds, MonitorQuits,
          MonitorFindsOverdue, MonitorTakesRunner, MonitorChecksCore,
          MonitorRequestsShutdown, MonitorFailsOverdue, MonitorSeesExit, MonitorJoins,
          MoveMonitor, Joinable, ownership
      <4>2. QED
        BY <4>1
    <3>3. QED
      BY <3>1, <3>2
  <2>3. QED
    BY <1>0, <2>1, <2>2 DEF Started
<1>6. QED
  BY <1>1, <1>2, <1>3, <1>4, <1>5, StepCases DEF Launches

LEMMA RInductive == Spec => []RInv
<1>1. Init => RInv
  BY InitIInv DEF Init, RInv, PhaseInv, HandleInv, Settled, NewLifecycle
<1>2. RInv /\ [Next]_vars => RInv'
  <2>1. ASSUME RInv, Next  PROVE  RInv'
    BY <2>1, StepIInv, PhaseStep, HandleStep DEF RInv
  <2>2. ASSUME RInv, UNCHANGED vars  PROVE  RInv'
    <3>1. IInv'
      BY <2>2, StepIInv DEF RInv
    <3>2. QED
      BY <2>2, <3>1 DEF RInv, PhaseInv, HandleInv, Started, vars, ownership, monitor
  <2>3. QED
    BY <2>1, <2>2
<1>3. QED
  BY <1>1, <1>2, PTL DEF Spec

-----------------------------------------------------------------------------
(* StartVm accepts a VM exactly when the last run was joined.              *)
Reaped == nRuns = 0 \/ mpc[nRuns] = "gone"

LEMMA ReapedLemma ==
  ASSUME RInv
  PROVE  StartAllowed <=> Reaped
<1> USE DEF RInv, IInv, TypeOK, OwnershipType
<1>1. nRuns # 0 => nRuns \in Runs /\ Started(nRuns)
  BY MaxRunsAssumption DEF RunOrNone, Runs, Started
<1>2. StartAllowed => Reaped
  BY <1>1, LaunchAfterJoin DEF Reaped
<1>3. ASSUME Reaped  PROVE  StartAllowed
  <2>1. \A r \in Runs : Started(r) => mpc[r] = "gone"
    BY <1>1, <1>3, MaxRunsAssumption DEF Reaped, OwnershipInv, Started, Runs, RunOrNone
  <2>2. \A v \in VMs : vmThreads[v] = NoRun
    <3> SUFFICES ASSUME NEW v \in VMs, vmThreads[v] # NoRun  PROVE  FALSE
      OBVIOUS
    <3>1. vmThreads[v] \in Runs /\ Started(vmThreads[v])
      BY MaxRunsAssumption DEF HandleInv, Started, Runs, RunOrNone
    <3>2. QED
      BY <2>1, <3>1 DEF HandleInv, Joinable
  <2>3. \A r \in Runs : mpc[r] = "gone" => ~life[r].active /\ ~life[r].stopOwner
    BY DEF OwnershipInv, LifeInv, RecordInv, ReservationInv, OwnerActs, InRequestStop
  <2>4. \A v \in VMs : vmRunning[v] # NoRun => ~BlocksStart(life[vmRunning[v]])
    BY <2>1, <2>3, MaxRunsAssumption DEF OwnershipInv, Started, BlocksStart, Runs, RunOrNone
  <2>5. QED
    BY <2>2, <2>4 DEF StartAllowed, NoRunBlocks, NoHandleLeft
<1>4. QED
  BY <1>2, <1>3

(* Only the monitor's join reaps the last run, and nothing undoes it.      *)
LEMMA ReapStep ==
  ASSUME RInv, Next, nRuns' = nRuns, nRuns # 0
  PROVE  \/ mpc'[nRuns] = "gone" <=> mpc[nRuns] = "gone"
         \/ /\ mpc'[nRuns] = "gone"
            /\ rpc[nRuns] = "exited"
            /\ life'[nRuns] = ReleaseStopOwner(life[nRuns])
<1> DEFINE Goal ==
      \/ mpc'[nRuns] = "gone" <=> mpc[nRuns] = "gone"
      \/ /\ mpc'[nRuns] = "gone"
         /\ rpc[nRuns] = "exited"
         /\ life'[nRuns] = ReleaseStopOwner(life[nRuns])
<1> USE DEF RInv, IInv, TypeOK, OwnershipType, ThreadsType
<1>1. nRuns \in Runs /\ nRuns # nRuns + 1
  BY MaxRunsAssumption DEF RunOrNone, Runs
<1>2. ASSUME NEW c \in Callers, CallBegins(c)  PROVE  Goal
  BY <1>1, <1>2, BeginFrame DEF Launches, StartVmLaunch, monitor
<1>3. ASSUME NEW c \in Callers, CallContinues(c)  PROVE  Goal
  BY <1>1, <1>3, CallMoves DEF RequestStopSpawnsMonitor
<1>4. ASSUME NEW r \in Runs, RunnerSteps(r)  PROVE  Goal
  BY <1>4, RunnerFrame DEF monitor
<1>5. ASSUME NEW r \in Runs, MonitorSteps(r)  PROVE  Goal
  <2>1. CASE r # nRuns
    BY <1>1, <1>5, <2>1, MonitorMoves
  <2>2. CASE MonitorJoins(r) /\ r = nRuns
    BY <1>1, <2>2 DEF MonitorJoins, MoveMonitor, Joined
  <2>3. CASE ~MonitorJoins(r) /\ r = nRuns
    <3>1. mpc'[r] # "gone" /\ mpc[r] # "gone"
      BY <1>5, <2>3 DEF MonitorSteps, MonitorProceeds, MonitorQuits,
        MonitorFindsOverdue, MonitorTakesRunner, MonitorChecksCore,
        MonitorRequestsShutdown, MonitorFailsOverdue, MonitorSeesExit, MoveMonitor
    <3>2. QED
      BY <2>3, <3>1
  <2>4. QED
    BY <2>1, <2>2, <2>3
<1>6. QED
  BY <1>2, <1>3, <1>4, <1>5, StepCases

-----------------------------------------------------------------------------
(* A launch is the abstract Start.                                         *)
LEMMA LaunchIsStart ==
  ASSUME RInv, RInv', NEW c \in Callers, NEW v \in VMs, StartVmLaunch(c, v)
  PROVE  Abstract!Start
<1> USE DEF RInv, IInv, TypeOK, OwnershipType
<1>1. nRuns \in Nat /\ nRuns' = nRuns + 1 /\ nRuns' \in Runs /\ life' = life
      /\ mpc' = mpc /\ StartAllowed
  BY MaxRunsAssumption DEF StartVmLaunch, RunOrNone, Runs, monitor
<1>2. life'[nRuns'] = NewLifecycle /\ mpc'[nRuns'] = "none" /\ nRuns' # 0
  BY <1>1 DEF OwnershipInv, Started
<1>3. ~StartAllowed'
  <2>1. StartAllowed' <=> Reaped'
    <3>1. (StartAllowed <=> Reaped)'
      BY ReapedLemma, PTL
    <3>2. QED
      BY <3>1
  <2>2. QED
    BY <1>2, <2>1 DEF Reaped
<1>4. QED
  BY <1>1, <1>2, <1>3 DEF Abstract!Start, NewLifecycle

(* A step of the last run's lifecycle is an abstract step.                 *)
LEMMA LifecycleStepIsAbstract ==
  ASSUME RInv, Next, nRuns' = nRuns, nRuns # 0, StartAllowed' <=> StartAllowed
  PROVE  Abstract!Next \/ UNCHANGED Abstract!vars
<1> DEFINE l == life[nRuns]
           k == life'[nRuns]
<1>0. nRuns \in Runs
  BY MaxRunsAssumption DEF RInv, IInv, TypeOK, OwnershipType, RunOrNone, Runs
<1>1. /\ nRuns \in Runs
      /\ l \in Lifecycle
      /\ Settled(l)
      /\ l.status \in {"stopped", "failed"} => ~l.active
      /\ rpc[nRuns] \in {"initialized", "complete"} => l.active
      /\ l.status \in Statuses
  <2>1. l \in Lifecycle /\ Settled(l)
    BY <1>0 DEF RInv, IInv, TypeOK, PhaseInv
  <2>2. /\ l.status \in {"stopped", "failed"} => ~l.active
        /\ rpc[nRuns] \in {"initialized", "complete"} => l.active
    BY <1>0 DEF RInv, IInv, LifeInv, RecordInv
  <2>3. l.status \in Statuses
    BY <2>1 DEF Lifecycle
  <2>4. QED
    BY <1>0, <2>1, <2>2, <2>3
<1>2. l.status \in {"starting", "running", "stopping"} <=> l.active
  BY <1>1 DEF Settled, Statuses
<1>3. ASSUME k.status = l.status, k.error = l.error
      PROVE  UNCHANGED Abstract!vars
  BY <1>3 DEF Abstract!vars
<1>4. ASSUME k.error # {}, k.status = IF l.active THEN "stopping" ELSE "failed"
      PROVE  Abstract!Fault
  <2>1. l.status # "none" /\ (l.status \in Abstract!Live <=> l.active)
    BY <1>1, <1>2 DEF Statuses, Abstract!Live
  <2>2. QED
    BY <1>4, <2>1 DEF Abstract!Fault
<1>5. CASE k = l
  BY <1>3, <1>5
<1>6. CASE \E reason \in Reasons : k = Fail(l, reason)
  <2>1. PICK reason \in Reasons : k = Fail(l, reason)
    BY <1>6
  <2>2. reason \in k.error /\ k.status = IF l.active THEN "stopping" ELSE "failed"
    BY <1>1, <2>1, FailLemma
  <2>3. QED
    BY <1>4, <2>2 DEF Abstract!Next
<1>7. CASE k = ReleaseStopOwner(Fail(l, "monitor"))
  <2>1. "monitor" \in k.error /\ k.status = IF l.active THEN "stopping" ELSE "failed"
    BY <1>1, <1>7, FailLemma, ReleaseLemma DEF Reasons
  <2>2. QED
    BY <1>4, <2>1 DEF Abstract!Next
<1>8. CASE k = ReleaseStopOwner(l)
  BY <1>1, <1>3, <1>8, ReleaseLemma
<1>9. CASE l.active /\ k = ClaimStop(l)
  <2>1. k.error = l.error /\ k.status = "stopping"
    BY <1>1, <1>9, ClaimStopLemma
  <2>2. Abstract!RequestStop
    BY <1>2, <1>9, <2>1 DEF Abstract!RequestStop, Abstract!Live
  <2>3. QED
    BY <2>2 DEF Abstract!Next
<1>10. CASE rpc[nRuns] = "initialized" /\ k = MarkRunning(l)
  <2>1. CASE ~CanMarkRunning(l)
    BY <1>1, <1>3, <1>10, <2>1 DEF MarkRunning, Lifecycle
  <2>2. CASE CanMarkRunning(l)
    <3>1. l.active /\ ~l.stopRequested /\ l.error = {}
      BY <2>2 DEF CanMarkRunning
    <3>2. l.status \in {"starting", "running"} /\ k.status = "running" /\ k.error = {}
      BY <1>1, <1>2, <1>10, <2>2, <3>1 DEF MarkRunning, Lifecycle, Settled
    <3>3. CASE l.status = "running"
      BY <1>3, <3>1, <3>2, <3>3
    <3>4. CASE l.status = "starting"
      BY <3>1, <3>2, <3>4 DEF Abstract!BecomeReady, Abstract!Next
    <3>5. QED
      BY <3>2, <3>3, <3>4
  <2>3. QED
    BY <2>1, <2>2
<1>11. CASE rpc[nRuns] = "complete" /\ k = Complete(l, clean[nRuns])
  <2>1. /\ l.error # {} => k.error # {}
        /\ k.status = IF k.error # {} THEN "failed" ELSE "stopped"
    BY <1>1, <1>11 DEF Complete, AppendError, Lifecycle
  <2>2. Abstract!Finish
    BY <1>1, <1>2, <1>11, <2>1 DEF Abstract!Finish, Abstract!Live
  <2>3. QED
    BY <2>2 DEF Abstract!Next
<1>12. QED
  BY <1>1, <1>5, <1>6, <1>7, <1>8, <1>9, <1>10, <1>11, LifeChanges DEF RInv

(* The join of the stop monitor is the abstract Reap.                      *)
LEMMA JoinIsReap ==
  ASSUME RInv, Next, nRuns' = nRuns, nRuns # 0, ~StartAllowed, StartAllowed',
         rpc[nRuns] = "exited", life'[nRuns] = ReleaseStopOwner(life[nRuns])
  PROVE  Abstract!Reap
<1>1. nRuns \in Runs
  BY MaxRunsAssumption DEF RInv, IInv, TypeOK, OwnershipType, RunOrNone, Runs
<1>2. life[nRuns] \in Lifecycle /\ life[nRuns].status \in {"stopped", "failed"}
  BY <1>1 DEF RInv, IInv, TypeOK, PhaseInv, Settled, LifeInv, RecordInv
<1>3. life'[nRuns].status = life[nRuns].status /\ life'[nRuns].error = life[nRuns].error
  BY <1>2, ReleaseLemma
<1>4. QED
  BY <1>2, <1>3 DEF Abstract!Reap, Abstract!Terminal

(* Every step of the runtime is a step of SingleRun, or invisible to it.   *)
LEMMA StepIsAbstract ==
  ASSUME RInv, RInv', Next
  PROVE  Abstract!Next \/ UNCHANGED Abstract!vars
<1>1. StartAllowed <=> Reaped
  BY ReapedLemma
<1>2. (StartAllowed <=> Reaped)'
  BY ReapedLemma, PTL
<1>3. CASE \E c \in Callers, v \in VMs : StartVmLaunch(c, v)
  BY <1>3, LaunchIsStart DEF Abstract!Next
<1>4. CASE ~\E c \in Callers, v \in VMs : StartVmLaunch(c, v)
  <2>1. nRuns' = nRuns
    BY <1>4, StepCases, BeginFrame, CallFrame, RunnerFrame, MonitorFrame
      DEF Launches, ownership
  <2>2. CASE nRuns = 0
    BY <1>1, <1>2, <2>1, <2>2 DEF Reaped, Abstract!vars
  <2>3. CASE nRuns # 0
    <3>1. CASE StartAllowed' <=> StartAllowed
      BY <2>1, <2>3, <3>1, LifecycleStepIsAbstract
    <3>2. CASE ~(StartAllowed' <=> StartAllowed)
      <4>1. /\ mpc'[nRuns] = "gone"
            /\ rpc[nRuns] = "exited"
            /\ life'[nRuns] = ReleaseStopOwner(life[nRuns])
        BY <1>1, <1>2, <2>1, <2>3, <3>2, ReapStep DEF Reaped
      <4>2. CASE StartAllowed'
        BY <2>1, <2>3, <3>2, <4>1, <4>2, JoinIsReap DEF Abstract!Next
      <4>3. CASE StartAllowed
        BY <1>1, <1>2, <2>1, <2>3, <3>2, <4>1, <4>3 DEF Reaped
      <4>4. QED
        BY <3>2, <4>2, <4>3
    <3>3. QED
      BY <3>1, <3>2
  <2>4. QED
    BY <2>2, <2>3
<1>5. QED
  BY <1>3, <1>4

(* The runtime with all its threads is one VM at a time: the status of the *)
(* last run only moves forward, a failure is not forgotten, a terminal     *)
(* status precedes the join, and StartVm accepts a VM only after it.       *)
THEOREM RuntimeIsSingleRun == Spec => ImplementsSingleRun
<1>1. Init => Abstract!Init
  BY DEF Init, Abstract!Init, StartAllowed, NoRunBlocks, NoHandleLeft
<1>2. RInv /\ RInv' /\ [Next]_vars => [Abstract!Next]_(Abstract!vars)
  <2>1. ASSUME RInv, RInv', Next  PROVE  [Abstract!Next]_(Abstract!vars)
    BY <2>1, StepIsAbstract
  <2>2. ASSUME UNCHANGED vars  PROVE  [Abstract!Next]_(Abstract!vars)
    BY <2>2 DEF vars, ownership, Abstract!vars, StartAllowed, NoRunBlocks, NoHandleLeft
  <2>3. QED
    BY <2>1, <2>2
<1>3. QED
  BY <1>1, <1>2, RInductive, PTL DEF Spec, ImplementsSingleRun, Abstract!Spec

-----------------------------------------------------------------------------
(* A call that waits for a run waits under the name it started, and a QMP  *)
(* exchange begins without an answer.                                      *)
WaitInv ==
  \A c \in Callers :
    /\ call[c].pc = "wait" => vmOf[call[c].run] = call[c].vm
    /\ call[c].pc = "qmp" => call[c].note = "none"

(* Where a runner is before it has been marked running, or after it could  *)
(* not be.                                                                 *)
UnmarkedPoints == {"none", "init", "initialized", "marked", "late"}

(* The verdict in g_vmStartupStates is about the run in g_vmRunning.       *)
VerdictInv ==
  \A v \in VMs : startup[v] = "ok" /\ vmRunning[v] # NoRun =>
    rpc[vmRunning[v]] \notin UnmarkedPoints

-----------------------------------------------------------------------------
SessionPoints == {"micOn", "announced", "loop", "loopEnd", "returned"}

ClosedPoints == {"cleanup", "fail", "notify", "complete", "publish", "exited"}

InStopMic(r) == \E c \in Callers : call[c].pc = "stopMic" /\ StopTarget(c) = r

(* The session is that of the last run or of nobody, it is active only     *)
(* while its runner may use it, and whoever has stopped, ended or failed   *)
(* that run has taken the name away before.                                *)
SessionInv ==
  /\ mic.gate => mic.active
  /\ mic.active => mic.name # NoVm
  /\ nRuns = 0 => mic.name = NoVm
  /\ nRuns # 0 =>
       /\ mic.generation = session[nRuns]
       /\ mic.name \in {vmOf[nRuns], NoVm}
       /\ mic.active => rpc[nRuns] \in SessionPoints
       /\ rpc[nRuns] \in ClosedPoints => mic.name = NoVm
       /\ life[nRuns].stopRequested /\ ~InStopMic(nRuns) => mic.name = NoVm
       /\ \A c \in Callers :
            call[c].pc = "fail" /\ call[c].run = nRuns => mic.name = NoVm

(* While the counter has not wrapped the runs have different tokens.       *)
TokenInv ==
  MaxRuns < GenWidth =>
    /\ mic.generation = nRuns
    /\ \A r \in Runs : Started(r) => session[r] = r

-----------------------------------------------------------------------------
(* A call only moves its own caller.                                       *)
LEMMA OneCallAtATime ==
  ASSUME NEW c \in Callers, CallBegins(c) \/ CallContinues(c)
  PROVE  \E x : call' = [call EXCEPT ![c] = x] \/ call' = call
<1>1. CASE CallBegins(c)
  BY <1>1 DEF CallBegins, StartVmPrepareFails, StartVmLaunch, StopVm, GetVmStatus,
    DiskToolBegins, GetMicrophoneSession, SetMicrophoneEnabled
<1>2. CASE CallContinues(c)
  BY <1>2 DEF CallContinues, StartVmContinues, RequestStopContinues, StartVmSucceeds,
    StartVmGivesUp, StartVmEndsSession, StartVmFailsRun, StartVmReadsStatus,
    StartVmWritesStatus, RequestStopIgnored, RequestStopClaims,
    RequestStopMutesMicrophone, RequestStopWritesStatus, RequestStopSpawnsMonitor,
    RequestStopCannotSpawn, GetVmStatusReadsAgain, GetVmStatusReturns, DiskToolEnds,
    Return, Goto
<1>3. QED
  BY <1>1, <1>2

(* The points a call can be at after a step of its caller: a launch waits, *)
(* nothing goes back to a wait, and only GetVmStatus begins an exchange.   *)
LEMMA BeginPoints ==
  ASSUME TypeOK, NEW c \in Callers, CallBegins(c), ~Launches(c)
  PROVE  \/ call' = call
         \/ \E v \in VMs : StopVm(c, v) /\ call'[c].pc = "stop"
         \/ \E v \in VMs : DiskToolBegins(c, v) /\ call'[c].pc = "disk"
         \/ \E v \in VMs : GetVmStatus(c, v) /\ call'[c].pc = "qmp"
                           /\ call'[c].note = "none"
<1> USE DEF TypeOK, CallType
<1>1. \A v \in VMs : StopVm(c, v) => call'[c].pc = "stop"
  BY DEF StopVm, NoCall
<1>2. \A v \in VMs : DiskToolBegins(c, v) => call'[c].pc = "disk"
  BY DEF DiskToolBegins, NoCall
<1>3. \A v \in VMs : GetVmStatus(c, v) => call'[c].pc = "qmp" /\ call'[c].note = "none"
  BY DEF GetVmStatus, NoCall
<1>4. QED
  BY <1>1, <1>2, <1>3 DEF CallBegins, Launches, StartVmPrepareFails, GetMicrophoneSession,
    SetMicrophoneEnabled

LEMMA ContinuePoints ==
  ASSUME TypeOK, NEW c \in Callers, CallContinues(c)
  PROVE  /\ call[c].pc # "idle"
         /\ call'[c].pc \notin {"wait", "qmp", "disk"}
         /\ call'[c].pc = "fail" => StartVmEndsSession(c)
         /\ call'[c].pc = "stopMic" => RequestStopClaims(c)
<1> USE DEF TypeOK, CallType, CallState
<1>1. CASE StartVmContinues(c)
  <2>1. CASE StartVmSucceeds(c)
    BY <2>1 DEF StartVmSucceeds, Return, NoCall
  <2>2. CASE StartVmGivesUp(c) \/ StartVmFailsRun(c)
    BY <2>2 DEF StartVmGivesUp, StartVmFailsRun, Goto
  <2>3. CASE StartVmEndsSession(c)
    BY <2>3 DEF StartVmEndsSession, Goto
  <2>4. CASE StartVmReadsStatus(c)
    BY <2>4 DEF StartVmReadsStatus
  <2>5. CASE StartVmWritesStatus(c)
    BY <2>5 DEF StartVmWritesStatus, NoCall
  <2>6. QED
    BY <1>1, <2>1, <2>2, <2>3, <2>4, <2>5 DEF StartVmContinues
<1>2. CASE RequestStopContinues(c)
  BY <1>2 DEF RequestStopContinues, RequestStopIgnored, RequestStopClaims,
    RequestStopMutesMicrophone, RequestStopWritesStatus, RequestStopSpawnsMonitor,
    RequestStopCannotSpawn, Return, Goto, NoCall
<1>3. CASE GetVmStatusReadsAgain(c) \/ GetVmStatusReturns(c) \/ DiskToolEnds(c)
  BY <1>3 DEF GetVmStatusReadsAgain, GetVmStatusReturns, DiskToolEnds, Return, NoCall
<1>4. QED
  BY <1>1, <1>2, <1>3 DEF CallContinues

-----------------------------------------------------------------------------
(* The runner that is not done is the last one.                            *)
LEMMA LastRunner ==
  ASSUME TypeOK, OwnershipInv, NEW r \in Runs, RunnerSteps(r)
  PROVE  r = nRuns
<1>1. rpc[r] \notin {"none", "exited"}
  BY RunnerMoves
<1>2. Started(r) /\ mpc[r] # "gone"
  BY <1>1 DEF OwnershipInv
<1>3. QED
  BY <1>2, MaxRunsAssumption DEF TypeOK, OwnershipType, OwnershipInv, Started, Runs,
    RunOrNone

LEMMA WaitStep ==
  ASSUME IInv, WaitInv, Next
  PROVE  WaitInv'
<1> USE DEF IInv, TypeOK, OwnershipType, CallType, WaitInv
<1>1. ASSUME NEW c \in Callers, NEW v \in VMs, StartVmLaunch(c, v)
      PROVE  WaitInv'
  <2>1. nRuns \in Nat /\ nRuns + 1 \in Runs /\ vmOf' = [vmOf EXCEPT ![nRuns + 1] = v]
    BY <1>1, MaxRunsAssumption DEF StartVmLaunch, RunOrNone, Runs
  <2>2. /\ call'[c].pc = "wait" /\ call'[c].vm = v /\ call'[c].run = nRuns + 1
        /\ \A d \in Callers : d # c => call'[d] = call[d]
    BY <1>1 DEF StartVmLaunch, NoCall
  <2>3. \A d \in Callers : call[d].pc = "wait" => Started(call[d].run)
    BY DEF CallInv
  <2>4. QED
    BY <2>1, <2>2, <2>3 DEF Started
<1>2. ASSUME NEW c \in Callers, CallBegins(c), ~Launches(c)
      PROVE  WaitInv'
  <2>1. vmOf' = vmOf
    BY <1>2, BeginFrame DEF ownership
  <2>2. \/ call'[c] = call[c]
        \/ call'[c].pc # "wait" /\ (call'[c].pc = "qmp" => call'[c].note = "none")
    BY <1>2, BeginPoints
  <2>3. \A d \in Callers : d # c => call'[d] = call[d]
    BY <1>2, OneCallAtATime
  <2>4. QED
    BY <2>1, <2>2, <2>3
<1>3. ASSUME NEW c \in Callers, CallContinues(c)
      PROVE  WaitInv'
  <2>1. vmOf' = vmOf
    BY <1>3, CallFrame DEF ownership
  <2>2. call'[c].pc \notin {"wait", "qmp"}
    BY <1>3, ContinuePoints
  <2>3. \A d \in Callers : d # c => call'[d] = call[d]
    BY <1>3, OneCallAtATime
  <2>4. QED
    BY <2>1, <2>2, <2>3
<1>4. QED
  BY <1>1, <1>2, <1>3, StepCases, RunnerFrame, MonitorFrame DEF Launches, ownership

(* Once marked, a runner does not come back to where it was not.           *)
LEMMA RunnerStaysMarked ==
  ASSUME TypeOK, NEW r \in Runs, RunnerSteps(r), rpc[r] \notin UnmarkedPoints
  PROVE  rpc'[r] \notin UnmarkedPoints
BY DEF TypeOK, ThreadsType, UnmarkedPoints, RunnerSteps, RunnerProceeds,
  RunnerLeavesLoop, RunnerInitFails, RunnerInitReturns, RunnerMarksRunning,
  RunnerOpensSession, RunnerWritesRunning, RunnerReportsStarted, RunnerReportsLate,
  RunnerRequestsShutdown, RunnerLoopReturns, RunnerLoopExits, RunnerEndsSession,
  RunnerCleansUp, RunnerFails, RunnerNotifies, RunnerCompletes, RunnerPublishes, Move

(* A runner writes a verdict only for its own VM, and ok only once marked. *)
LEMMA RunnerVerdict ==
  ASSUME TypeOK, NEW r \in Runs, RunnerSteps(r)
  PROVE  \/ startup' = startup
         \/ startup' = [startup EXCEPT ![vmOf[r]] = "failed"]
         \/ startup' = [startup EXCEPT ![vmOf[r]] = "ok"] /\ rpc[r] = "announced"
BY DEF RunnerSteps, RunnerProceeds, RunnerLeavesLoop, RunnerInitFails, RunnerInitReturns,
  RunnerMarksRunning, RunnerOpensSession, RunnerWritesRunning, RunnerReportsStarted,
  RunnerReportsLate, RunnerRequestsShutdown, RunnerLoopReturns, RunnerLoopExits,
  RunnerEndsSession, RunnerCleansUp, RunnerFails, RunnerNotifies, RunnerCompletes,
  RunnerPublishes, Move, diagnostics

LEMMA OkVerdict ==
  ASSUME TypeOK, NEW r \in Runs, RunnerSteps(r), NEW v \in VMs, startup'[v] = "ok"
  PROVE  startup[v] = "ok" \/ (v = vmOf[r] /\ rpc[r] = "announced")
<1>1. startup \in [VMs -> {"pending", "ok", "failed"}]
  BY DEF TypeOK, DiagnosticsType
<1>2. CASE startup' = [startup EXCEPT ![vmOf[r]] = "failed"]
  BY <1>1, <1>2
<1>3. CASE startup' = [startup EXCEPT ![vmOf[r]] = "ok"] /\ rpc[r] = "announced"
  BY <1>1, <1>3
<1>4. QED
  BY <1>2, <1>3, RunnerVerdict

LEMMA VerdictStep ==
  ASSUME IInv, VerdictInv, Next
  PROVE  VerdictInv'
<1> USE DEF IInv, TypeOK, OwnershipType, ThreadsType, DiagnosticsType, VerdictInv
<1>0. \A v \in VMs : vmRunning[v] # NoRun => vmRunning[v] \in Runs
  BY MaxRunsAssumption DEF OwnershipInv, Started, Runs, RunOrNone
<1>1. ASSUME NEW c \in Callers, NEW v \in VMs, StartVmLaunch(c, v)
      PROVE  VerdictInv'
  <2>1. \A u \in VMs : vmRunning[u] # NoRun => vmRunning[u] # nRuns + 1
    BY MaxRunsAssumption DEF OwnershipInv, Started, Runs, RunOrNone
  <2>2. /\ startup' = [startup EXCEPT ![v] = "pending"]
        /\ vmRunning' = [vmRunning EXCEPT ![v] = nRuns + 1]
        /\ rpc' = [rpc EXCEPT ![nRuns + 1] = "init"]
    BY <1>1 DEF StartVmLaunch, StartupReset
  <2>3. QED
    BY <1>0, <2>1, <2>2
<1>2. ASSUME NEW c \in Callers, CallBegins(c), ~Launches(c)
      PROVE  VerdictInv'
  BY <1>2, BeginFrame DEF ownership, runner
<1>3. ASSUME NEW c \in Callers, CallContinues(c)
      PROVE  VerdictInv'
  BY <1>3, CallFrame DEF ownership, runner
<1>4. ASSUME NEW r \in Runs, RunnerSteps(r)
      PROVE  VerdictInv'
  <2>1. vmRunning' = vmRunning /\ \A s \in Runs : s # r => rpc'[s] = rpc[s]
    BY <1>4, RunnerFrame, RunnerMoves DEF ownership
  <2>2. Started(r) /\ vmOf[r] \in VMs /\ vmRunning[vmOf[r]] = r
    <3>1. rpc[r] \notin {"none", "exited"}
      BY <1>4, RunnerMoves
    <3>2. QED
      BY <3>1 DEF OwnershipInv
  <2>3. rpc[r] \notin UnmarkedPoints => rpc'[r] \notin UnmarkedPoints
    BY <1>4, RunnerStaysMarked
  <2>4. ASSUME NEW v \in VMs, startup'[v] = "ok", vmRunning[v] # NoRun
        PROVE  rpc'[vmRunning[v]] \notin UnmarkedPoints
    <3>1. startup[v] = "ok" \/ (v = vmOf[r] /\ rpc[r] = "announced")
      BY <1>4, <2>4, OkVerdict
    <3>2. rpc[vmRunning[v]] \notin UnmarkedPoints
      BY <2>2, <2>4, <3>1 DEF UnmarkedPoints
    <3>3. QED
      BY <1>0, <2>1, <2>3, <2>4, <3>2
  <2>5. QED
    BY <2>1, <2>4
<1>5. ASSUME NEW r \in Runs, MonitorSteps(r)
      PROVE  VerdictInv'
  BY <1>5, MonitorFrame DEF runner, diagnostics
<1>6. QED
  BY <1>1, <1>2, <1>3, <1>4, <1>5, StepCases DEF Launches

(* While an image is being written nothing can be launched, and a runner   *)
(* that is still there has only its end to publish.                        *)
LEMMA DiskStep ==
  ASSUME IInv, DiskToolAlone, Next
  PROVE  DiskToolAlone'
<1> USE DEF IInv, TypeOK, OwnershipType, ThreadsType, CallType, DiskToolAlone, Occupied
<1>1. ASSUME NEW c \in Callers, NEW v \in VMs, StartVmLaunch(c, v)
      PROVE  DiskToolAlone'
  <2>1. call'[c].pc = "wait" /\ \A d \in Callers : d # c => call'[d] = call[d]
    BY <1>1 DEF StartVmLaunch, NoCall
  <2>2. \A d \in Callers : call[d].pc # "disk"
    BY <1>1, CallersAssumption DEF StartVmLaunch, CallInv, LockHolding
  <2>3. QED
    BY <2>1, <2>2
<1>2. ASSUME NEW c \in Callers, CallBegins(c), ~Launches(c)
      PROVE  DiskToolAlone'
  <2>1. UNCHANGED <<vmOf, rpc>> /\ \A d \in Callers : d # c => call'[d] = call[d]
    BY <1>2, BeginFrame, OneCallAtATime DEF ownership, runner
  <2>2. ASSUME NEW v \in VMs, DiskToolBegins(c, v), NEW r \in Runs, Occupied(r),
               vmOf[r] = call'[c].vm
        PROVE  rpc[r] = "publish"
    <3>1. call'[c].vm = v /\ ~IsVmRunning(v)
      BY <2>2 DEF DiskToolBegins, NoCall
    <3>2. vmRunning[v] = r /\ r # NoRun
      BY <2>2, <3>1 DEF OwnershipInv, Runs, NoRun
    <3>3. ~life[r].active
      BY <3>1, <3>2 DEF IsVmRunning
    <3>4. QED
      BY <2>2, <3>3 DEF LifeInv, RecordInv
  <2>3. call'[c] = call[c] \/ call'[c].pc # "disk" \/ \E v \in VMs : DiskToolBegins(c, v)
    BY <1>2, BeginPoints
  <2>4. QED
    BY <2>1, <2>2, <2>3
<1>3. ASSUME NEW c \in Callers, CallContinues(c)
      PROVE  DiskToolAlone'
  <2>1. UNCHANGED <<vmOf, rpc>> /\ \A d \in Callers : d # c => call'[d] = call[d]
    BY <1>3, CallFrame, OneCallAtATime DEF ownership, runner
  <2>2. call'[c].pc # "disk"
    BY <1>3, ContinuePoints
  <2>3. QED
    BY <2>1, <2>2
<1>4. ASSUME NEW r \in Runs, RunnerSteps(r)
      PROVE  DiskToolAlone'
  <2>1. UNCHANGED <<vmOf, call>> /\ \A s \in Runs : s # r => rpc'[s] = rpc[s]
    BY <1>4, RunnerFrame, RunnerMoves DEF ownership
  <2>2. Occupied(r) /\ (rpc[r] = "publish" => rpc'[r] = "exited")
    BY <1>4 DEF RunnerSteps, RunnerProceeds, RunnerLeavesLoop, RunnerInitFails,
      RunnerInitReturns, RunnerMarksRunning, RunnerOpensSession, RunnerWritesRunning,
      RunnerReportsStarted, RunnerReportsLate, RunnerRequestsShutdown,
      RunnerLoopReturns, RunnerLoopExits, RunnerEndsSession, RunnerCleansUp,
      RunnerFails, RunnerNotifies, RunnerCompletes, RunnerPublishes, Move
  <2>3. QED
    BY <2>1, <2>2
<1>5. ASSUME NEW r \in Runs, MonitorSteps(r)
      PROVE  DiskToolAlone'
  BY <1>5, MonitorFrame DEF runner
<1>6. QED
  BY <1>1, <1>2, <1>3, <1>4, <1>5, StepCases DEF Launches

(* What startVm and getVmStatus answer is true of their run at that step.  *)
TrueAnswers ==
  \A c \in Callers :
    /\ call[c].pc = "wait" /\ call'[c].pc = "idle" =>
         rpc[call[c].run] \notin UnmarkedPoints
    /\ call[c].pc = "qmp" /\ call'[c].note \in {"running", "paused"} =>
         life[call[c].run].active /\ life[call[c].run].status = "running"

LEMMA AnswerStep ==
  ASSUME RInv, WaitInv, VerdictInv, Next
  PROVE  TrueAnswers
<1> USE DEF RInv, IInv, TypeOK, OwnershipType, CallType, CallState
<1>1. \A c \in Callers : call[c].pc \in {"wait", "qmp"} =>
        call[c].run \in Runs /\ Started(call[c].run) /\ call[c].vm \in VMs
  BY MaxRunsAssumption DEF CallInv, Started, Runs, RunOrNone
<1>2. ASSUME NEW c \in Callers, StartVmSucceeds(c)
      PROVE  rpc[call[c].run] \notin UnmarkedPoints
  <2>1. call[c].pc = "wait" /\ startup[call[c].vm] = "ok" /\ vmOf[call[c].run] = call[c].vm
    BY <1>2 DEF StartVmSucceeds, WaitInv
  <2>2. CASE mpc[call[c].run] = "gone"
    BY <1>1, <2>1, <2>2 DEF OwnershipInv, UnmarkedPoints
  <2>3. CASE mpc[call[c].run] # "gone"
    BY <1>1, <2>1, <2>3 DEF OwnershipInv, VerdictInv, Runs, NoRun
  <2>4. QED
    BY <2>2, <2>3
<1>3. ASSUME NEW c \in Callers, GetVmStatusReadsAgain(c),
             call'[c].note \in {"running", "paused"}
      PROVE  life[call[c].run].active /\ life[call[c].run].status = "running"
  <2>1. call'[c].note \in StatusAfterQmp(call[c].run) /\ call[c].run \in Runs
    BY <1>1, <1>3 DEF GetVmStatusReadsAgain
  <2>2. life[call[c].run] \in Lifecycle /\ Settled(life[call[c].run])
    BY <2>1 DEF PhaseInv
  <2>3. QED
    BY <1>3, <2>1, <2>2 DEF StatusAfterQmp, Settled, Lifecycle, Statuses
<1>4. ASSUME NEW c \in Callers,
             \/ call[c].pc = "wait" /\ call'[c].pc = "idle"
             \/ call[c].pc = "qmp" /\ call'[c].note \in {"running", "paused"}
      PROVE  StartVmSucceeds(c) \/ GetVmStatusReadsAgain(c)
  <2>1. call'[c] # call[c]
    BY <1>4 DEF WaitInv
  <2>2. CallContinues(c)
    <3>1. ~\E d \in Callers : CallBegins(d)
      <4>1. ASSUME CallBegins(c)  PROVE  call[c].pc = "idle"
        BY <4>1 DEF CallBegins, StartVmPrepareFails, StartVmLaunch, StopVm, GetVmStatus,
          DiskToolBegins, GetMicrophoneSession, SetMicrophoneEnabled
      <4>2. QED
        BY <1>4, <2>1, <4>1, OneCallAtATime
    <3>2. QED
      BY <2>1, <3>1, StepCases, OneCallAtATime, RunnerFrame, MonitorFrame
  <2>3. call[c].pc \in {"wait", "qmp"}
    BY <1>4
  <2>4. CASE StartVmGivesUp(c)
    BY <1>4, <2>4 DEF StartVmGivesUp, Goto
  <2>5. QED
    BY <2>2, <2>3, <2>4 DEF CallContinues, StartVmContinues, RequestStopContinues,
      StartVmEndsSession, StartVmFailsRun, StartVmReadsStatus, StartVmWritesStatus,
      RequestStopIgnored, RequestStopClaims, RequestStopMutesMicrophone,
      RequestStopWritesStatus, RequestStopSpawnsMonitor, RequestStopCannotSpawn,
      GetVmStatusReturns, DiskToolEnds
<1> HIDE DEF RInv, IInv, TypeOK, OwnershipType, CallType, CallState
<1>5. ASSUME NEW c \in Callers, call[c].pc = "wait", call'[c].pc = "idle"
      PROVE  rpc[call[c].run] \notin UnmarkedPoints
  BY <1>2, <1>4, <1>5 DEF GetVmStatusReadsAgain
<1>6. ASSUME NEW c \in Callers, call[c].pc = "qmp", call'[c].note \in {"running", "paused"}
      PROVE  life[call[c].run].active /\ life[call[c].run].status = "running"
  BY <1>3, <1>4, <1>6 DEF StartVmSucceeds
<1>7. QED
  BY <1>5, <1>6 DEF TrueAnswers

-----------------------------------------------------------------------------
(* A closed session satisfies whatever the invariant asks of the last run. *)
LEMMA ClosedSession ==
  ASSUME mic'.name = NoVm, ~mic'.active, ~mic'.gate,
         nRuns' # 0 => mic'.generation = session'[nRuns']
  PROVE  SessionInv'
BY DEF SessionInv

LEMMA CloseLemma ==
  ASSUME NEW m \in Session
  PROVE  /\ Close(m) \in Session
         /\ Close(m).name = NoVm /\ ~Close(m).active /\ ~Close(m).gate
         /\ Close(m).generation = m.generation
BY DEF Close, Disable, Session

(* The session of the last run, when no run is launched, depends on where  *)
(* that run's runner is, on its record and on who is inside a call.        *)
LEMMA SessionKept ==
  ASSUME SessionInv, UNCHANGED <<nRuns, vmOf, session>>,
         mic'.name = mic.name, mic'.generation = mic.generation,
         mic'.active = mic.active, mic'.gate => mic.active,
         nRuns # 0 =>
           /\ rpc[nRuns] \in SessionPoints => rpc'[nRuns] \in SessionPoints
           /\ rpc'[nRuns] \in ClosedPoints => rpc[nRuns] \in ClosedPoints
           /\ life'[nRuns].stopRequested => life[nRuns].stopRequested
           /\ InStopMic(nRuns) => InStopMic(nRuns)'
           /\ \A c \in Callers : call'[c].pc = "fail" /\ call'[c].run = nRuns =>
                mic.name = NoVm
  PROVE  SessionInv'
<1>1. CASE nRuns = 0
  BY <1>1 DEF SessionInv
<1>2. CASE nRuns # 0
  <2>1. life'[nRuns].stopRequested /\ ~InStopMic(nRuns)' => mic.name = NoVm
    BY <1>2 DEF SessionInv
  <2>2. QED
    BY <1>2, <2>1 DEF SessionInv
<1>3. QED
  BY <1>1, <1>2

LEMMA SessionBeginStep ==
  ASSUME IInv, SessionInv, NEW c \in Callers, CallBegins(c)
  PROVE  SessionInv'
<1> USE DEF IInv, TypeOK, OwnershipType, MicrophoneType, CallType
<1>1. ASSUME NEW v \in VMs, StartVmLaunch(c, v)
      PROVE  SessionInv'
  <2>1. nRuns \in Nat /\ nRuns' = nRuns + 1 /\ nRuns' \in Runs
    BY <1>1, MaxRunsAssumption DEF StartVmLaunch, RunOrNone, Runs
  <2>2. /\ vmOf'[nRuns'] = v
        /\ session'[nRuns'] = mic'.generation
        /\ ~life'[nRuns'].stopRequested
        /\ rpc'[nRuns'] = "init"
    <3>1. life[nRuns + 1] = NewLifecycle
      BY <2>1 DEF OwnershipInv, Started
    <3>2. QED
      BY <1>1, <2>1, <3>1 DEF StartVmLaunch, ThreadsType, NewLifecycle
  <2>3. mic'.name = v /\ ~mic'.active /\ ~mic'.gate
    <3>1. (IF mic.bound THEN mic ELSE Bind(mic, TRUE)) \in Session
      BY SessionLemma DEF Bind, Disable, Session
    <3>2. QED
      BY <1>1, <3>1 DEF StartVmLaunch, Begin, Disable, Session
  <2>4. \A d \in Callers : call'[d].pc = "fail" => call'[d].run # nRuns'
    <3>1. \A d \in Callers : call[d].pc = "fail" => call[d].run # nRuns'
      BY <2>1 DEF CallInv, Started
    <3>2. QED
      BY <1>1, <3>1 DEF StartVmLaunch, NoCall
  <2>5. QED
    BY <2>1, <2>2, <2>3, <2>4 DEF SessionInv, ClosedPoints
<1>2. CASE ~Launches(c)
  <2>1. UNCHANGED <<nRuns, vmOf, session, vmRunning, life, rpc>>
    BY <1>2, BeginFrame DEF ownership, runner
  <2>2. /\ mic'.name = mic.name /\ mic'.generation = mic.generation
        /\ mic'.active = mic.active
        /\ mic'.gate => mic.active
    <3>1. CASE mic' = mic
      BY <3>1 DEF SessionInv
    <3>2. CASE mic' = Bind(mic, FALSE)
      BY <3>2 DEF Bind, Disable, Session
    <3>3. CASE \E on \in BOOLEAN : mic' = Enable(mic, consent.vm, consent.session, on)
      BY <3>3 DEF Enable, MayEnable, Session, SessionInv
    <3>4. QED
      BY <1>2, <3>1, <3>2, <3>3 DEF CallBegins, Launches, StartVmPrepareFails, StopVm,
        GetVmStatus, DiskToolBegins, GetMicrophoneSession, SetMicrophoneEnabled, microphone
  <2>3. /\ \A d \in Callers : d # c => call'[d] = call[d]
        /\ call'[c] = call[c] \/ call'[c].pc # "fail"
        /\ call[c].pc = "idle"
    <3>1. call[c].pc = "idle"
      BY DEF CallBegins, StartVmPrepareFails, StartVmLaunch, StopVm, GetVmStatus,
        DiskToolBegins, GetMicrophoneSession, SetMicrophoneEnabled
    <3>2. QED
      BY <1>2, <3>1, BeginPoints, OneCallAtATime
  <2>4. InStopMic(nRuns) => InStopMic(nRuns)'
    BY <2>1, <2>3 DEF InStopMic, StopTarget
  <2>5. QED
    BY <2>1, <2>2, <2>3, <2>4, SessionKept DEF SessionInv
<1>3. QED
  BY <1>1, <1>2 DEF Launches

LEMMA SessionRunnerStep ==
  ASSUME IInv, SessionInv, NEW r \in Runs, RunnerSteps(r)
  PROVE  SessionInv'
<1> USE DEF IInv, TypeOK, OwnershipType, MicrophoneType, ThreadsType
<1>1. r = nRuns /\ nRuns # 0
  BY LastRunner DEF Runs
<1>2. UNCHANGED <<nRuns, vmOf, session, vmRunning, call>>
  BY RunnerFrame DEF ownership
<1>3. InStopMic(nRuns) => InStopMic(nRuns)'
  BY <1>2 DEF InStopMic, StopTarget
<1>4. CASE RunnerOpensSession(r)
  <2>1. rpc[r] = "marked" /\ rpc'[r] = "micOn" /\ life' = life
    BY <1>4 DEF RunnerOpensSession, Move
  <2>2. /\ mic'.name = mic.name /\ mic'.generation = mic.generation
        /\ mic'.gate = mic.gate
        /\ mic'.active => mic.active \/ mic.name # NoVm
    BY <1>4 DEF RunnerOpensSession, Running, Session
  <2>3. mic'.gate => mic'.active
    BY <1>4 DEF RunnerOpensSession, Running, Session, SessionInv
  <2>4. QED
    BY <1>1, <1>2, <1>3, <2>1, <2>2, <2>3 DEF SessionInv, SessionPoints, ClosedPoints,
      InStopMic
<1>5. CASE RunnerEndsSession(r)
  <2>1. mic' = Close(mic)
    BY <1>1, <1>5 DEF RunnerEndsSession, End, SessionInv
  <2>2. QED
    BY <1>1, <1>2, <2>1, CloseLemma, ClosedSession DEF SessionInv
<1>6. CASE RunnerFails(r)
  <2>1. mic' = mic /\ mic.name = NoVm
    BY <1>1, <1>6 DEF RunnerFails, Move, SessionInv, ClosedPoints, microphone
  <2>2. QED
    BY <1>1, <1>2, <2>1, ClosedSession DEF SessionInv
<1>7. CASE ~(RunnerOpensSession(r) \/ RunnerEndsSession(r) \/ RunnerFails(r))
  <2>1. mic' = mic
    BY <1>7 DEF RunnerSteps, RunnerProceeds, RunnerLeavesLoop, RunnerInitFails,
      RunnerInitReturns, RunnerMarksRunning, RunnerWritesRunning, RunnerReportsStarted,
      RunnerReportsLate, RunnerRequestsShutdown, RunnerLoopReturns, RunnerLoopExits,
      RunnerCleansUp, RunnerNotifies, RunnerCompletes, RunnerPublishes, microphone
  <2>2. /\ rpc[r] \in SessionPoints => rpc'[r] \in SessionPoints
        /\ rpc'[r] \in ClosedPoints => rpc[r] \in ClosedPoints
    BY <1>7 DEF RunnerSteps, RunnerProceeds, RunnerLeavesLoop, RunnerInitFails,
      RunnerInitReturns, RunnerMarksRunning, RunnerWritesRunning, RunnerReportsStarted,
      RunnerReportsLate, RunnerRequestsShutdown, RunnerLoopReturns, RunnerLoopExits,
      RunnerCleansUp, RunnerNotifies, RunnerCompletes, RunnerPublishes, Move,
      SessionPoints, ClosedPoints
  <2>3. life'[r].stopRequested = life[r].stopRequested
    <3>1. CASE RunnerMarksRunning(r)
      BY <3>1, MarkRunningLemma DEF RunnerMarksRunning
    <3>2. CASE RunnerCompletes(r)
      BY <3>2, CompleteLemma DEF RunnerCompletes
    <3>3. QED
      BY <1>7, <3>1, <3>2 DEF RunnerSteps, RunnerProceeds, RunnerLeavesLoop,
        RunnerInitFails, RunnerInitReturns, RunnerWritesRunning, RunnerReportsStarted,
        RunnerReportsLate, RunnerRequestsShutdown, RunnerLoopReturns, RunnerLoopExits,
        RunnerCleansUp, RunnerNotifies, RunnerPublishes
  <2>4. QED
    BY <1>1, <1>2, <1>3, <2>1, <2>2, <2>3, SessionKept DEF SessionInv
<1>8. QED
  BY <1>4, <1>5, <1>6, <1>7

LEMMA SessionMonitorStep ==
  ASSUME IInv, SessionInv, NEW r \in Runs, MonitorSteps(r)
  PROVE  SessionInv'
<1> USE DEF IInv, TypeOK, OwnershipType
<1>1. UNCHANGED <<nRuns, vmOf, session, vmRunning, rpc, call, mic>>
  BY MonitorFrame DEF runner, microphone
<1>2. InStopMic(nRuns) => InStopMic(nRuns)'
  BY <1>1 DEF InStopMic, StopTarget
<1>3. \A s \in Runs : life'[s].stopRequested => life[s].stopRequested
  <2>1. life[r].stopRequested
    BY MonitorMoves DEF LifeInv, ReservationInv
  <2>2. QED
    BY <2>1, MonitorMoves
<1>4. nRuns # 0 => nRuns \in Runs
  BY MaxRunsAssumption DEF RunOrNone, Runs
<1>5. QED
  BY <1>1, <1>2, <1>3, <1>4, SessionKept DEF SessionInv

LEMMA SessionCallStep ==
  ASSUME IInv, SessionInv, NEW c \in Callers, CallContinues(c)
  PROVE  SessionInv'
<1> USE DEF IInv, TypeOK, OwnershipType, MicrophoneType, CallType, CallState
<1>1. UNCHANGED <<nRuns, vmOf, session, vmRunning, rpc>>
  BY CallFrame DEF ownership, runner
<1>2. \A d \in Callers : d # c => call'[d] = call[d] /\ StopTarget(d)' = StopTarget(d)
  BY <1>1, OneCallAtATime DEF StopTarget
<1>3. nRuns # 0 => nRuns \in Runs
  BY MaxRunsAssumption DEF RunOrNone, Runs
<1>4. CASE StartVmEndsSession(c)
  <2>1. CASE session[call[c].run] = mic.generation
    <3>1. mic' = Close(mic)
      BY <1>4, <2>1 DEF StartVmEndsSession, End
    <3>2. QED
      BY <1>1, <3>1, CloseLemma, ClosedSession DEF SessionInv
  <2>2. CASE session[call[c].run] # mic.generation
    <3>1. mic' = mic /\ life' = life /\ call'[c].pc = "fail" /\ call'[c].run = call[c].run
      BY <1>4, <2>2 DEF StartVmEndsSession, End, Goto
    <3>2. nRuns # 0 => call[c].run # nRuns
      BY <2>2 DEF SessionInv
    <3>3. InStopMic(nRuns) => InStopMic(nRuns)'
      BY <1>1, <1>2, <1>4, <3>1 DEF InStopMic, StartVmEndsSession
    <3>4. QED
      BY <1>1, <1>2, <3>1, <3>2, <3>3, SessionKept DEF SessionInv
  <2>3. QED
    BY <2>1, <2>2
<1>5. CASE StartVmFailsRun(c)
  <2>1. mic' = mic /\ call[c].pc = "fail" /\ Started(call[c].run)
    BY <1>5 DEF StartVmFailsRun, CallInv, microphone
  <2>2. CASE call[c].run = nRuns
    <3>1. nRuns # 0 /\ mic.name = NoVm
      BY <2>1, <2>2 DEF SessionInv, Started
    <3>2. QED
      BY <1>1, <2>1, <3>1, ClosedSession DEF SessionInv
  <2>3. CASE call[c].run # nRuns
    <3>1. nRuns # 0 => life'[nRuns] = life[nRuns]
      BY <1>3, <1>5, <2>3 DEF StartVmFailsRun
    <3>2. call'[c].pc # "fail" /\ (InStopMic(nRuns) => InStopMic(nRuns)')
      BY <1>1, <1>2, <1>5 DEF StartVmFailsRun, Goto, InStopMic
    <3>3. QED
      BY <1>1, <1>2, <2>1, <3>1, <3>2, SessionKept DEF SessionInv
  <2>4. QED
    BY <2>2, <2>3
<1>6. CASE RequestStopClaims(c)
  <2>1. /\ mic' = mic
        /\ call[c].pc = "stop" /\ call'[c].pc = "stopMic" /\ StopTarget(c)' = StopTarget(c)
    BY <1>1, <1>6 DEF RequestStopClaims, Goto, StopTarget, microphone
  <2>2. CASE StopTarget(c) = nRuns
    <3>1. InStopMic(nRuns)'
      BY <1>1, <2>1, <2>2 DEF InStopMic
    <3>2. QED
      BY <1>1, <1>2, <2>1, <3>1 DEF SessionInv
  <2>3. CASE StopTarget(c) # nRuns
    <3>1. nRuns # 0 => life'[nRuns] = life[nRuns]
      BY <1>3, <1>6, <2>3 DEF RequestStopClaims
    <3>2. InStopMic(nRuns) => InStopMic(nRuns)'
      BY <1>1, <1>2, <2>1 DEF InStopMic
    <3>3. QED
      BY <1>1, <1>2, <2>1, <3>1, <3>2, SessionKept DEF SessionInv
  <2>4. QED
    BY <2>2, <2>3
<1>7. CASE RequestStopMutesMicrophone(c)
  <2>1. /\ mic' = Stop(mic, call[c].vm) /\ life' = life
        /\ call[c].pc = "stopMic" /\ call'[c].pc = "stopState"
    BY <1>7 DEF RequestStopMutesMicrophone, SessionAfterStop, Goto
  <2>2. CASE call[c].vm = mic.name
    <3>1. mic' = Close(mic)
      BY <2>1, <2>2 DEF Stop
    <3>2. QED
      BY <1>1, <3>1, CloseLemma, ClosedSession DEF SessionInv
  <2>3. CASE call[c].vm # mic.name
    <3>1. mic' = mic
      BY <2>1, <2>3 DEF Stop
    <3>2. CASE StopTarget(c) = nRuns /\ nRuns # 0
      <4>1. vmOf[nRuns] = call[c].vm
        BY <2>1, <3>2 DEF CallInv, OwnershipInv, StopTarget, NoRun
      <4>2. mic.name = NoVm
        BY <2>3, <3>2, <4>1 DEF SessionInv
      <4>3. QED
        BY <1>1, <3>1, <4>2, ClosedSession DEF SessionInv
    <3>3. CASE ~(StopTarget(c) = nRuns /\ nRuns # 0)
      <4>1. nRuns # 0 /\ InStopMic(nRuns) => InStopMic(nRuns)'
        BY <1>1, <1>2, <3>3 DEF InStopMic
      <4>2. QED
        BY <1>1, <1>2, <2>1, <3>1, <4>1, SessionKept DEF SessionInv
    <3>4. QED
      BY <3>2, <3>3
  <2>4. QED
    BY <2>2, <2>3
<1>8. CASE ~(StartVmEndsSession(c) \/ StartVmFailsRun(c) \/ RequestStopClaims(c)
             \/ RequestStopMutesMicrophone(c))
  <2>1. mic' = mic
    BY <1>8 DEF CallContinues, StartVmContinues, RequestStopContinues, StartVmSucceeds,
      StartVmGivesUp, StartVmReadsStatus, StartVmWritesStatus, RequestStopIgnored,
      RequestStopWritesStatus, RequestStopSpawnsMonitor, RequestStopCannotSpawn,
      GetVmStatusReadsAgain, GetVmStatusReturns, DiskToolEnds, microphone
  <2>2. \A s \in Runs : life'[s].stopRequested => life[s].stopRequested
    <3>1. CASE RequestStopCannotSpawn(c)
      <4>1. life[StopTarget(c)].stopRequested
        BY <3>1 DEF RequestStopCannotSpawn, LifeInv, ReservationInv
      <4>2. QED
        BY <3>1, <4>1 DEF RequestStopCannotSpawn
    <3>2. CASE life' = life
      BY <3>2
    <3>3. QED
      BY <1>8, <3>1, <3>2, CallMoves
  <2>3. call[c].pc # "stopMic"
    BY <1>8 DEF CallContinues, StartVmContinues, RequestStopContinues, StartVmSucceeds,
      StartVmGivesUp, StartVmReadsStatus, StartVmWritesStatus, RequestStopIgnored,
      RequestStopWritesStatus, RequestStopSpawnsMonitor, RequestStopCannotSpawn,
      GetVmStatusReadsAgain, GetVmStatusReturns, DiskToolEnds
  <2>4. call'[c].pc # "fail"
    BY <1>8, ContinuePoints
  <2>5. InStopMic(nRuns) => InStopMic(nRuns)'
    BY <1>1, <1>2, <2>3 DEF InStopMic
  <2>6. QED
    BY <1>1, <1>2, <1>3, <2>1, <2>2, <2>4, <2>5, SessionKept DEF SessionInv
<1>9. QED
  BY <1>4, <1>5, <1>6, <1>7, <1>8

LEMMA SessionStep ==
  ASSUME IInv, SessionInv, Next
  PROVE  SessionInv'
BY StepCases, SessionBeginStep, SessionCallStep, SessionRunnerStep, SessionMonitorStep

(* Only a launch takes a new token.                                        *)
LEMMA TokenStep ==
  ASSUME IInv, TokenInv, Next
  PROVE  TokenInv'
<1> USE DEF IInv, TypeOK, OwnershipType, MicrophoneType
<1>1. ASSUME NEW c \in Callers, NEW v \in VMs, StartVmLaunch(c, v)
      PROVE  TokenInv'
  <2>1. nRuns \in Nat /\ nRuns < MaxRuns /\ nRuns' = nRuns + 1 /\ nRuns' \in Runs
    BY <1>1, MaxRunsAssumption DEF StartVmLaunch, RunOrNone, Runs
  <2>2. mic'.generation = NextGeneration(mic.generation)
    <3>1. (IF mic.bound THEN mic ELSE Bind(mic, TRUE)).generation = mic.generation
      BY DEF Bind, Disable, Session
    <3>2. (IF mic.bound THEN mic ELSE Bind(mic, TRUE)) \in Session
      BY DEF Bind, Disable, Session
    <3>3. QED
      BY <1>1, <3>1, <3>2 DEF StartVmLaunch, Begin, Disable, Session
  <2>3. session' = [session EXCEPT ![nRuns'] = mic'.generation]
    BY <1>1, <2>1 DEF StartVmLaunch
  <2>4. MaxRuns < GenWidth => mic'.generation = nRuns'
    BY <2>1, <2>2, MaxRunsAssumption, GenAssumption DEF TokenInv, NextGeneration
  <2>5. QED
    BY <2>1, <2>3, <2>4 DEF TokenInv, Started
<1>2. ASSUME UNCHANGED <<nRuns, session>>, mic'.generation = mic.generation
      PROVE  TokenInv'
  BY <1>2 DEF TokenInv, Started
<1>3. ASSUME NEW c \in Callers, CallBegins(c), ~Launches(c)
      PROVE  TokenInv'
  <2>1. UNCHANGED <<nRuns, session>>
    BY <1>3, BeginFrame DEF ownership
  <2>2. mic'.generation = mic.generation
    BY <1>3 DEF CallBegins, Launches, StartVmPrepareFails, StopVm, GetVmStatus,
      DiskToolBegins, GetMicrophoneSession, SetMicrophoneEnabled, microphone, Bind,
      Disable, Enable, Session
  <2>3. QED
    BY <1>2, <2>1, <2>2
<1>4. ASSUME NEW c \in Callers, CallContinues(c)
      PROVE  TokenInv'
  <2>1. UNCHANGED <<nRuns, session>>
    BY <1>4, CallFrame DEF ownership
  <2>2. mic' \in {mic, Close(mic)}
    BY <1>4 DEF CallContinues, StartVmContinues, RequestStopContinues, StartVmSucceeds,
      StartVmGivesUp, StartVmEndsSession, StartVmFailsRun, StartVmReadsStatus,
      StartVmWritesStatus, RequestStopIgnored, RequestStopClaims,
      RequestStopMutesMicrophone, SessionAfterStop, RequestStopWritesStatus,
      RequestStopSpawnsMonitor, RequestStopCannotSpawn, GetVmStatusReadsAgain,
      GetVmStatusReturns, DiskToolEnds, microphone, Stop, End
  <2>3. QED
    BY <1>2, <2>1, <2>2, CloseLemma
<1>5. ASSUME NEW r \in Runs, RunnerSteps(r)
      PROVE  TokenInv'
  <2>1. UNCHANGED <<nRuns, session>>
    BY <1>5, RunnerFrame DEF ownership
  <2>2. mic' \in {mic, Close(mic), Running(mic, session[r])}
    BY <1>5 DEF RunnerSteps, RunnerProceeds, RunnerLeavesLoop, RunnerInitFails,
      RunnerInitReturns, RunnerMarksRunning, RunnerOpensSession, RunnerWritesRunning,
      RunnerReportsStarted, RunnerReportsLate, RunnerRequestsShutdown,
      RunnerLoopReturns, RunnerLoopExits, RunnerEndsSession, RunnerCleansUp,
      RunnerFails, RunnerNotifies, RunnerCompletes, RunnerPublishes, microphone, End
  <2>3. Running(mic, session[r]).generation = mic.generation
    BY DEF Running, Session
  <2>4. QED
    BY <1>2, <2>1, <2>2, <2>3, CloseLemma
<1>6. ASSUME NEW r \in Runs, MonitorSteps(r)
      PROVE  TokenInv'
  BY <1>2, <1>6, MonitorFrame DEF microphone
<1>7. QED
  BY <1>1, <1>3, <1>4, <1>5, <1>6, StepCases DEF Launches

-----------------------------------------------------------------------------
ClientInv ==
  RInv /\ WaitInv /\ VerdictInv /\ DiskToolAlone /\ SessionInv /\ TokenInv

LEMMA ClientInductive == Spec => []ClientInv
<1>1. Init => ClientInv
  <2> SUFFICES ASSUME Init  PROVE  ClientInv
    OBVIOUS
  <2>1. RInv
    BY InitIInv DEF Init, RInv, PhaseInv, HandleInv, Settled, NewLifecycle
  <2>2. WaitInv /\ VerdictInv /\ DiskToolAlone
    BY DEF Init, WaitInv, VerdictInv, DiskToolAlone, NoCall
  <2>3. SessionInv /\ TokenInv
    BY DEF Init, SessionInv, TokenInv, NewSession, Started
  <2>4. QED
    BY <2>1, <2>2, <2>3 DEF ClientInv
<1>2. ClientInv /\ [Next]_vars => ClientInv'
  <2>1. ASSUME ClientInv, Next  PROVE  ClientInv'
    <3>1. RInv'
      BY <2>1, StepIInv, PhaseStep, HandleStep DEF ClientInv, RInv
    <3>2. QED
      BY <2>1, <3>1, WaitStep, VerdictStep, DiskStep, SessionStep, TokenStep
        DEF ClientInv, RInv
  <2>2. ASSUME ClientInv, UNCHANGED vars  PROVE  ClientInv'
    <3> USE <2>2 DEF ClientInv, vars, ownership, runner, monitor, diagnostics, microphone
    <3>1. RInv'
      BY StepIInv DEF RInv, PhaseInv, HandleInv, Started
    <3>2. WaitInv' /\ VerdictInv' /\ DiskToolAlone'
      BY DEF WaitInv, VerdictInv, DiskToolAlone, Occupied
    <3>3. SessionInv' /\ TokenInv'
      BY DEF SessionInv, InStopMic, StopTarget, TokenInv, Started
    <3>4. QED
      BY <3>1, <3>2, <3>3
  <2>3. QED
    BY <2>1, <2>2
<1>3. QED
  BY <1>1, <1>2, PTL DEF Spec

(* qemuImgCreateDisk and qemuImgResizeDisk have the image to themselves:   *)
(* what is left of a runner of that VM only publishes its end.             *)
THEOREM DiskToolAloneAlways == Spec => []DiskToolAlone
<1>1. ClientInv => DiskToolAlone
  BY DEF ClientInv
<1>2. QED
  BY <1>1, ClientInductive, PTL

(* startVm answers true only for a run that was marked running, whoever    *)
(* wrote the verdict it read, and a QMP answer is given only for a run     *)
(* that is still live.                                                     *)
THEOREM AnswersAreTrueAlways == Spec => AnswersAreTrue
<1>1. ClientInv /\ [Next]_vars => [TrueAnswers]_vars
  BY AnswerStep DEF ClientInv
<1>2. QED
  BY <1>1, ClientInductive, PTL DEF Spec, AnswersAreTrue, TrueAnswers, UnmarkedPoints

(* Whoever opens the gate holds the token of the run that is active now,   *)
(* even when the counter of generations has wrapped.                       *)
THEOREM ConsentIsForThisRunAlways == Spec => ConsentIsForThisRun
<1> DEFINE ForThisRun ==
      ~mic.gate /\ mic'.gate =>
        consent.session = session[nRuns] /\ consent.vm = vmOf[nRuns]
<1>1. ASSUME ClientInv, Next  PROVE  ForThisRun
  <2> USE <1>1 DEF ClientInv, RInv, IInv, TypeOK, MicrophoneType
  <2>1. \A m \in Session : ~Close(m).gate
    BY CloseLemma
  <2>2. ASSUME NEW c \in Callers, CallBegins(c), ~mic.gate, mic'.gate
        PROVE  SetMicrophoneEnabled(c)
    <3>1. \A v \in VMs : StartVmLaunch(c, v) => ~mic'.gate
      <4>1. (IF mic.bound THEN mic ELSE Bind(mic, TRUE)) \in Session
        BY DEF Bind, Disable, Session
      <4>2. QED
        BY <4>1 DEF StartVmLaunch, Begin, Disable, Session
    <3>2. \A v \in VMs : StartVmPrepareFails(c, v) => ~mic'.gate
      BY <2>2 DEF StartVmPrepareFails, Bind, Disable, Session
    <3>3. QED
      BY <2>2, <3>1, <3>2 DEF CallBegins, StopVm, GetVmStatus, DiskToolBegins,
        GetMicrophoneSession, microphone
  <2>3. ASSUME NEW c \in Callers, CallContinues(c), ~mic.gate
        PROVE  ~mic'.gate
    <3>1. mic' \in {mic, Close(mic)}
      BY <2>3 DEF CallContinues, StartVmContinues, RequestStopContinues,
        StartVmSucceeds, StartVmGivesUp, StartVmEndsSession, StartVmFailsRun,
        StartVmReadsStatus, StartVmWritesStatus, RequestStopIgnored, RequestStopClaims,
        RequestStopMutesMicrophone, SessionAfterStop, RequestStopWritesStatus,
        RequestStopSpawnsMonitor, RequestStopCannotSpawn, GetVmStatusReadsAgain,
        GetVmStatusReturns, DiskToolEnds, microphone, Stop, End
    <3>2. QED
      BY <2>1, <2>3, <3>1
  <2>4. ASSUME NEW r \in Runs, RunnerSteps(r), ~mic.gate
        PROVE  ~mic'.gate
    <3>1. mic' \in {mic, Close(mic), Running(mic, session[r])}
      BY <2>4 DEF RunnerSteps, RunnerProceeds, RunnerLeavesLoop, RunnerInitFails,
        RunnerInitReturns, RunnerMarksRunning, RunnerOpensSession, RunnerWritesRunning,
        RunnerReportsStarted, RunnerReportsLate, RunnerRequestsShutdown,
        RunnerLoopReturns, RunnerLoopExits, RunnerEndsSession, RunnerCleansUp,
        RunnerFails, RunnerNotifies, RunnerCompletes, RunnerPublishes, microphone, End
    <3>2. Running(mic, session[r]).gate = mic.gate
      BY DEF Running, Session
    <3>3. QED
      BY <2>1, <2>4, <3>1, <3>2
  <2>5. ASSUME NEW c \in Callers, SetMicrophoneEnabled(c), ~mic.gate, mic'.gate
        PROVE  consent.session = session[nRuns] /\ consent.vm = vmOf[nRuns]
    <3>1. MayEnable(mic, consent.vm, consent.session)
      BY <2>5 DEF SetMicrophoneEnabled, Enable
    <3>2. mic.active /\ consent.vm = mic.name /\ consent.session = mic.generation
      BY <3>1 DEF MayEnable
    <3>3. QED
      BY <3>2 DEF SessionInv
  <2>6. QED
    BY <1>1, <2>2, <2>3, <2>4, <2>5, StepCases, MonitorFrame DEF microphone
<1>2. ClientInv /\ [Next]_vars => [ForThisRun]_vars
  BY <1>1
<1>3. QED
  BY <1>2, ClientInductive, PTL DEF Spec, ConsentIsForThisRun

(* Capture is possible only for the last run, while its runner may use it, *)
(* and a stopped run never gets its session back.  The token of an earlier *)
(* run must not come round again: StartVm would have to be called 2^32     *)
(* times in one process.                                                   *)
THEOREM CaptureBelongsToRunAlways ==
  ASSUME MaxRuns < GenWidth
  PROVE  Spec => []CaptureBelongsToRun
<1>1. ASSUME ClientInv  PROVE  CaptureBelongsToRun
  <2> USE <1>1 DEF ClientInv, RInv, IInv, TypeOK, OwnershipType
  <2>1. ASSUME mic.gate
        PROVE  /\ nRuns > 0
               /\ mic.active
               /\ mic.generation = session[nRuns]
               /\ mic.name = vmOf[nRuns]
               /\ rpc[nRuns] \in {"micOn", "announced", "loop", "loopEnd", "returned"}
    BY <2>1, MaxRunsAssumption DEF SessionInv, SessionPoints, RunOrNone
  <2>2. ASSUME NEW r \in Runs, r <= nRuns, life[r].stopRequested, mic.active,
               mic.generation = session[r]
        PROVE  \E c \in Callers : call[c].pc = "stopMic" /\ StopTarget(c) = r
    <3>1. Started(r) /\ nRuns # 0
      BY <2>2, MaxRunsAssumption DEF Started, Runs, RunOrNone
    <3>2. r = nRuns
      BY <2>2, <3>1 DEF TokenInv
    <3>3. QED
      BY <2>2, <3>1, <3>2 DEF SessionInv, InStopMic
  <2>3. QED
    BY <2>1, <2>2 DEF CaptureBelongsToRun
<1>2. QED
  BY <1>1, ClientInductive, PTL
=============================================================================
