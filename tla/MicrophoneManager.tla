-------------------------- MODULE MicrophoneManager --------------------------
(***************************************************************************)
(* MicrophoneManager.ets over MicrophoneConsent.ets and                    *)
(* MicrophoneWindows.ets: who may open the microphone of the running VM.   *)
(* The code runs on one thread: an event handler, or the stretch of an     *)
(* async function between two awaits, is one step.  Between steps come the *)
(* events of the application, its windows and the screen, the answers of   *)
(* the system, and what happens to the VM and its audio core.              *)
(***************************************************************************)
EXTENDS MicrophoneConsent

CONSTANT MaxRuns  (* bound on the VM runs of a behaviour                     *)

ASSUME RunsAssumption == MaxRuns \in Nat /\ MaxRuns < GenWidth

VARIABLE policy
(* mic, fault     the native session and the core's fault latch             *)
(* windows, handoff                     the fields of MicrophoneWindows     *)
(* appForeground, guardsReady, screenBlocked    fields of the manager       *)
(* screenActive   what power.isActive() answers                             *)
(* launch         the startAbility of the last handoff is not settled, and  *)
(*                launchHandoff still holds its id or has been reset        *)
(* preflight      preflightOwner with the VM and session of its enable()    *)
(* requestOwner   the window whose user asked last                          *)
(* vm, session, enabled, status, foreground     fields of the consent       *)
(* task, sync     its enable() or resume(), and its synchronize()           *)
(* asked          history: the session the user last asked to open and has  *)
(*                not been denied by a hard stop since                      *)

NoSession == [vm |-> NoVm, session |-> 0]

NoPreflight == [owner |-> NoWindow, vm |-> NoVm, session |-> 0]

Init ==
  policy = [mic |-> [NewSession EXCEPT !.bound = TRUE], fault |-> "none",
       windows |-> [w \in Windows |-> Closed], handoff |-> NoHandoff,
       appForeground |-> FALSE, guardsReady |-> TRUE, screenBlocked |-> TRUE,
       screenActive |-> TRUE, launch |-> "none", preflight |-> NoPreflight,
       requestOwner |-> NoWindow, vm |-> NoVm, session |-> 0, enabled |-> FALSE,
       status |-> "disabled", foreground |-> FALSE, task |-> NoTask,
       sync |-> NoTask, asked |-> NoSession]

-----------------------------------------------------------------------------
NextEpoch(t) ==
  CancelHandoff([t EXCEPT !.task.epoch = FALSE, !.sync.epoch = FALSE,
                          !.preflight = NoPreflight, !.launch = "none"])

HardClose(t) == DisableConsent([NextEpoch(t) EXCEPT !.foreground = FALSE])

CancelConsent(t) == DisableConsent(NextEpoch(t))

(* Mutant: only a request that already shows its dialog is cancelled.       *)
OwnerHiddenLate(t, w) ==
  IF t.task.pc = "dialog" /\ t.requestOwner = w THEN HardClose(t) ELSE t

OwnerHidden(t, w) ==
  IF w = t.preflight.owner \/ (Requesting(t) /\ w = t.requestOwner)
  THEN HardClose(t) ELSE t

Guarded(t) ==
  t.appForeground /\ t.guardsReady /\ ~t.screenBlocked /\ t.screenActive

ReconcileVisible(t) ==
  IF t.status # "suspended"
  THEN SetForeground(IF MayCompleteHandoff(t, t.vm, t.session)
                     THEN CancelHandoff(t) ELSE t, TRUE)
  ELSE IF ~Busy(t) /\ MayCompleteHandoff(t, t.vm, t.session)
  THEN ResumeConsent(SetForeground(CancelHandoff(t), TRUE))
  ELSE t

ReconcileHandoff(t) ==
  IF t.enabled
  THEN LET paused == Suspend(t)
       IN  IF paused.status = "suspended" THEN paused ELSE CancelHandoff(paused)
  ELSE IF t.status = "suspended" THEN t ELSE HardClose(t)

(* Mutant: an invisible session is left to the next permission check.       *)
ReconcileLazily(t) ==
  IF t.session # 0 /\ AnyVisible(t, t.vm, t.session) THEN ReconcileVisible(t) ELSE t

Reconcile(t) ==
  IF t.session = 0 THEN t
  ELSE IF \/ ~Guarded(t)
          \/ Requesting(t) /\ ~Visible(t, t.requestOwner, t.vm, t.session)
  THEN HardClose(t)
  ELSE IF AnyVisible(t, t.vm, t.session) THEN ReconcileVisible(t)
  ELSE IF HasHandoff(t, t.vm, t.session) /\ ~Busy(t) THEN ReconcileHandoff(t)
  ELSE HardClose(t)

(* History: the user has to ask again.                                      *)
HardStop(t) == [t EXCEPT !.asked = NoSession]

-----------------------------------------------------------------------------
(* The application, the screen and the windows.                             *)

ApplicationForeground ==
  /\ ~policy.appForeground
  /\ policy' = Reconcile([policy EXCEPT !.appForeground = TRUE])

ApplicationBackground ==
  /\ policy.appForeground
  /\ policy' = HardStop(HardClose([policy EXCEPT !.appForeground = FALSE]))

ScreenUnlocked ==
  /\ policy.screenBlocked
  /\ policy' = [policy EXCEPT !.screenBlocked = FALSE]

(* The screen was locked or turned off.                                     *)
ScreenLocked == policy' = HardStop(HardClose([policy EXCEPT !.screenBlocked = TRUE]))

(* The guards could not be installed, or their subscription failed.         *)
GuardsFail ==
  /\ policy.guardsReady
  /\ policy' = HardStop(HardClose([policy EXCEPT !.guardsReady = FALSE]))

(* No event tells the application; power.isActive() does when asked.        *)
ScreenActivityChanges == policy' = [policy EXCEPT !.screenActive = ~@]

(* A viewer is registered with the name and session its launch carried,     *)
(* EntryAbility with none.                                                  *)
RegisterAbility(w) ==
  /\ ~policy.windows[w].open
  /\ IF w = Entry THEN policy' = Register(policy, w, NoVm, 0, FALSE)
     ELSE \E vm \in VMs, session \in 0 .. policy.mic.generation, carries \in BOOLEAN :
            policy' = Register(policy, w, vm, session, carries)

SignalChanges(w, signal) ==
  LET t == Signal(policy, w, signal, signal \notin policy.windows[w].up)
  IN  /\ policy.windows[w].open
      /\ signal \in Signals \ {"showing"}
      /\ signal \notin UpForGood \cap policy.windows[w].up
      /\ policy' = Reconcile(IF signal \in policy.windows[w].up
                             THEN OwnerHidden(t, w) ELSE t)

(* isWindowShowing() is a snapshot: it changes without an event.            *)
ShowingChanges(w) ==
  /\ policy.windows[w].open
  /\ "showing" \in Signals
  /\ policy' = Signal(policy, w, "showing", "showing" \notin policy.windows[w].up)

(* removeAbility and windowFailed.                                          *)
RemoveAbility(w) ==
  LET hidden == OwnerHidden(policy, w)
      cancels == InHandoff(hidden, w)
      gone == RemoveWindow([hidden EXCEPT !.requestOwner =
                              IF @ = w THEN NoWindow ELSE @], w)
  IN  /\ policy.windows[w].open
      /\ policy' = Reconcile(IF cancels THEN HardStop(HardClose(gone)) ELSE gone)

(* The 500 ms timer runs in the foreground while a window is registered.    *)
TimerTicks ==
  /\ policy.appForeground
  /\ \E w \in Windows : policy.windows[w].open
  /\ policy' = SynchronizeConsent(Reconcile(policy))

-----------------------------------------------------------------------------
(* The user: opening a viewer from the details page, enabling, disabling,   *)
(* stopping the VM.                                                         *)

BeginsHandoff(vm) ==
  LET s == policy
      forgotten == [s EXCEPT !.launch = IF @ = "none" THEN @ ELSE "reset"]
      t == Reconcile(forgotten)
      begun == BeginHandoff(CancelHandoff(t), Entry, vm, s.session)
  IN  /\ s.windows[Entry].open
      /\ policy' = IF s.status = "suspended" \/ (s.session # 0 /\ s.vm # vm)
                   THEN HardClose(s)
                   ELSE IF ~s.enabled \/ Busy(s)
                   THEN CancelHandoff([s EXCEPT !.launch = "none"])
                   ELSE IF ~t.enabled THEN t
                   ELSE [begun EXCEPT !.launch =
                           IF begun.handoff = NoHandoff THEN "none" ELSE "held"]

(* handoffFailed closes if launchHandoff holds the id, or the handoff does. *)
LaunchSettles ==
  LET settled == [policy EXCEPT !.launch = "none"]
      matters == policy.launch = "held" \/ policy.handoff # NoHandoff
  IN  /\ policy.launch # "none"
      /\ \/ policy' = settled
         \/ policy' = IF matters THEN HardStop(HardClose(settled)) ELSE settled

(* enable() up to its first await.  asked remembers the request.            *)
EnableBegins(w, vm) ==
  LET session == SessionOf(policy.mic, vm)
      t == BindEntry(CancelConsent(policy), w, vm, session)
  IN  /\ policy.windows[w].open
      /\ w = Entry \/ policy.windows[w].vm = vm
      /\ ~Busy(policy)
      /\ policy' = [t EXCEPT !.preflight = [owner |-> w, vm |-> vm, session |-> session],
                        !.requestOwner = w,
                        !.asked = [vm |-> vm, session |-> session]]

(* Its rest; a preflight of an earlier epoch returns without effect and is  *)
(* not kept.                                                                *)
PreflightSettles ==
  LET p == policy.preflight
  IN  /\ p.owner # NoWindow
      /\ \/ \E locked \in BOOLEAN :
              LET t == [policy EXCEPT !.screenBlocked = locked]
              IN  policy' = IF \/ locked
                          \/ ~t.screenActive
                          \/ ~Visible(t, p.owner, p.vm, p.session)
                       THEN HardClose(t)
                       ELSE EnableConsent(
                              SetForeground([t EXCEPT !.preflight = NoPreflight], TRUE), p.vm)
         \/ policy' = HardClose(policy)

UserDisables == policy' = HardStop(CancelConsent(policy))

(* QemuVMManager.stopVM calls vmStopped before it stops the VM.             *)
VmStopped(vm) ==
  /\ policy.vm = vm
  /\ policy' = HardStop(CancelConsent(policy))

-----------------------------------------------------------------------------
(* The awaits of the consent.                                               *)

(* checkPermission() after isScreenLocked(): not cancelled and guarded.     *)
MayCheckToken(t) == t.epoch /\ Guarded(policy)

Throws(t) == IF t.current THEN FailConsent(policy, "error") ELSE policy

(* The rest of enable() after a check of the permission that was granted.   *)
EnableGranted(t) ==
  IF IsCurrent(policy, t, TRUE)
  THEN {EnableNative(policy, t.vm, t.session, native) : native \in NativeReplies}
  ELSE {GiveUp(policy, t, TRUE)}

(* The rest of resume(): a fault while suspended is terminal.               *)
ResumeGranted(t) ==
  LET status == NativeStatus(policy, t.vm)
  IN  IF IsCurrent(policy, t, TRUE) /\ status # "disabled"
      THEN {FailConsent(policy, BlockedOrError(status))}
      ELSE EnableGranted(t)

Denied(t, status) ==
  IF IsCurrent(policy, t, TRUE)
  THEN FailConsent(policy, status) ELSE GiveUp(policy, t, TRUE)

TaskChecksLock ==
  /\ policy.task.pc \in {"lock", "lockAgain"}
  /\ \/ /\ MayCheckToken(policy.task)
        /\ policy' = [policy EXCEPT !.task.pc = IF @ = "lock" THEN "token" ELSE "tokenAgain"]
     \/ policy' = Settle(Throws(policy.task))

(* Before the first dialog a denied permission leads to it, or ends the     *)
(* request when the user came from the settings button too early.           *)
AsksUser(t) ==
  IF Visible(policy, policy.requestOwner, policy.vm, policy.session)
  THEN [policy EXCEPT !.task.pc = "dialog"]
  ELSE Settle(Throws(t))

TaskChecksToken ==
  /\ policy.task.pc \in {"token", "tokenAgain"}
  /\ LET t == policy.task IN
     \/ policy' = Settle(Throws(t))
     \/ /\ t.kind = "enable"
        /\ \E r \in EnableGranted(t) : policy' = Settle(r)
     \/ /\ t.kind = "resume"
        /\ \E r \in ResumeGranted(t) : policy' = Settle(r)
     \/ policy' = Settle(Denied(t, IF t.kind = "resume" THEN "blocked" ELSE "denied"))
     \/ /\ t.kind = "enable" /\ t.pc = "token"
        /\ policy' = IF IsCurrent(policy, t, TRUE)
                     THEN AsksUser(t) ELSE Settle(GiveUp(policy, t, TRUE))

(* The dialog's own result is not trusted: the permission is checked again. *)
DialogSettles ==
  /\ policy.task.pc = "dialog"
  /\ \/ policy' = IF IsCurrent(policy, policy.task, TRUE)
             THEN [policy EXCEPT !.task.pc = "lockAgain", !.task.epoch = TRUE]
             ELSE Settle(GiveUp(policy, policy.task, TRUE))
     \/ policy' = Settle(Throws(policy.task))

SyncDone(t) == [t EXCEPT !.sync = NoTask]

SyncChecksLock ==
  /\ policy.sync.pc = "lock"
  /\ \/ MayCheckToken(policy.sync) /\ policy' = [policy EXCEPT !.sync.pc = "token"]
     \/ policy' = SyncDone(Throws(policy.sync))

SyncChecksToken ==
  /\ policy.sync.pc = "token"
  /\ LET t == policy.sync
         suspended == t.kind = "suspended"
         status == NativeStatus(policy, t.vm)
     IN \/ policy' = SyncDone(Throws(t))
        \/ /\ ~IsCurrent(policy, t, ~suspended)
           /\ policy' = SyncDone(GiveUp(policy, t, ~suspended))
        \/ /\ IsCurrent(policy, t, ~suspended)
           /\ \/ policy' = SyncDone(FailConsent(policy, "blocked"))
              \/ policy' = SyncDone(IF ~suspended THEN ApplyNativeStatus(policy, status)
                               ELSE IF status = "disabled" THEN policy
                               ELSE FailConsent(policy, BlockedOrError(status)))

-----------------------------------------------------------------------------
(* The VM and its audio core.                                               *)

VmStarts(vm) ==
  /\ ~policy.mic.active
  /\ policy.mic.generation < MaxRuns
  /\ LET begun == Begin(policy.mic, vm)
     IN  policy' = [policy EXCEPT !.mic = Running(begun, begun.generation)]

VmEnds ==
  /\ policy.mic.active
  /\ policy' = HardStop([policy EXCEPT !.mic = End(policy.mic, policy.mic.generation)])

(* A revocation, an interruption or an error is latched.                    *)
CoreFaults ==
  /\ policy.fault = "none"
  /\ \E fault \in Faults \ {"none"} :
       LET t == [policy EXCEPT !.fault = fault]
       IN  policy' = IF policy.enabled \/ policy.status = "suspended"
                     THEN HardStop(t) ELSE t

WindowEvents(w) ==
  \/ RegisterAbility(w) \/ ShowingChanges(w) \/ RemoveAbility(w)
  \/ \E signal \in Signals : SignalChanges(w, signal)

Next ==
  \/ ApplicationForeground \/ ApplicationBackground
  \/ ScreenUnlocked \/ ScreenLocked \/ ScreenActivityChanges \/ GuardsFail
  \/ \E w \in Windows : WindowEvents(w)
  \/ \E w \in Windows, vm \in VMs : EnableBegins(w, vm)
  \/ \E vm \in VMs : BeginsHandoff(vm) \/ VmStopped(vm) \/ VmStarts(vm)
  \/ TimerTicks \/ LaunchSettles \/ PreflightSettles \/ UserDisables
  \/ TaskChecksLock \/ TaskChecksToken \/ DialogSettles
  \/ SyncChecksLock \/ SyncChecksToken
  \/ VmEnds \/ CoreFaults

Spec == Init /\ [][Next]_policy

-----------------------------------------------------------------------------
Consents == [vm : VMs \cup {NoVm}, session : Generations]

TaskType(kinds) ==
  [kind : kinds \cup {"none"},
   pc : {"none", "lock", "token", "dialog", "lockAgain", "tokenAgain"},
   vm : VMs \cup {NoVm}, session : Generations, current : BOOLEAN, epoch : BOOLEAN]

WindowsType ==
  /\ policy.windows \in [Windows -> [open : BOOLEAN, vm : VMs \cup {NoVm},
                                    session : Generations, up : SUBSET Signals]]
  /\ policy.handoff \in [source : Windows \cup {NoWindow}, target : Windows \cup {NoWindow},
                          vm : VMs \cup {NoVm}, session : Generations]
  /\ (policy.handoff = NoHandoff) <=> (policy.handoff.source = NoWindow)
  /\ policy.requestOwner \in Windows \cup {NoWindow}
  /\ policy.preflight \in [owner : Windows \cup {NoWindow}, vm : VMs \cup {NoVm},
                            session : Generations]

TypeOK ==
  /\ WindowsType
  /\ policy.mic \in Session
  /\ policy.fault \in Faults
  /\ policy.appForeground \in BOOLEAN
  /\ policy.guardsReady \in BOOLEAN
  /\ policy.screenBlocked \in BOOLEAN
  /\ policy.screenActive \in BOOLEAN
  /\ policy.launch \in {"none", "held", "reset"}
  /\ policy.enabled \in BOOLEAN
  /\ policy.foreground \in BOOLEAN
  /\ policy.vm \in VMs \cup {NoVm}
  /\ policy.session \in Generations
  /\ policy.status \in {"disabled", "requesting", "suspended", "armed", "blocked",
                        "error", "denied", "unavailable"}
  /\ policy.task \in TaskType({"enable", "resume"})
  /\ policy.sync \in TaskType({"enabled", "suspended"})
  /\ policy.asked \in Consents

(* What the events told about a window; the snapshot "showing" is only a    *)
(* further veto when the gate is opened.                                    *)
Shown(t, w, vm, session) ==
  /\ w \in Windows
  /\ t.windows[w].open
  /\ Signals \ {"showing"} \subseteq t.windows[w].up
  /\ t.windows[w].vm = vm
  /\ t.windows[w].session = session

(* While the gate is open the application is in the foreground, the screen  *)
(* is not blocked, a window opened for that very run is visible, and the    *)
(* user interface says that the microphone is on.                           *)
CaptureIsVisible ==
  /\ TypeOK
  /\ policy.mic.gate =>
       /\ policy.enabled /\ policy.vm = policy.mic.name /\ policy.session = policy.mic.generation
       /\ policy.appForeground /\ policy.guardsReady /\ ~policy.screenBlocked
       /\ \E w \in Windows : Shown(policy, w, policy.mic.name, policy.mic.generation)

(* The gate only opens for the run the user last asked for, if no hard stop *)
(* came since: going to the background, locking the screen, disabling,      *)
(* stopping the VM, a failed launch, a destroyed handoff window or a fault. *)
(* No late event, dialog answer or permission check can bring it back.      *)
OpensOnlyOnRequest ==
  [][~policy.mic.gate /\ policy'.mic.gate =>
       policy.asked = [vm |-> policy.mic.name, session |-> policy.mic.generation]]_policy

(* A pending authorization belongs to a visible window: it is cancelled     *)
(* when its window disappears, even if another one of the run is visible.   *)
(* A suspended consent is closed and has a handoff that can still resume or *)
(* cancel it, so that it does not stay suspended for nothing.               *)
ConsentHasWindow ==
  /\ policy.task.kind = "enable" /\ policy.task.current =>
       Shown(policy, policy.requestOwner, policy.task.vm, policy.task.session)
  /\ policy.status = "suspended" /\ ~Busy(policy) =>
       /\ ~policy.mic.gate
       /\ policy.handoff.source # NoWindow
       /\ policy.handoff.vm = policy.vm
       /\ policy.handoff.session = policy.session

(* A handoff resumes at the window it was issued for and at no other.       *)
ResumesAtTarget ==
  [][policy.task.kind = "none" /\ policy'.task.kind = "resume" =>
       Shown(policy', policy.handoff.target, policy.vm, policy.session)]_policy
=============================================================================
