-------------------------- MODULE MicrophoneConsent --------------------------
(***************************************************************************)
(* MicrophoneConsent.ets: per-session consent with its suspend, resume and *)
(* permission checks, together with the port and the publish callback that *)
(* MicrophoneManager.ets gives it.  Operators on the policy record s.      *)
(*                                                                         *)
(* The counter generation and the manager's epoch only serve to tell       *)
(* whether a task was cancelled while it awaited something, so a task      *)
(* carries two booleans instead: current (no new generation since) and     *)
(* epoch (no new epoch since its permission check began).                  *)
(***************************************************************************)
EXTENDS MicrophoneWindows

Faults == {"none", "blocked", "error"}

NoTask == [kind |-> "none", pc |-> "none", vm |-> NoVm, session |-> 0,
           current |-> FALSE, epoch |-> FALSE]

Task(kind, s) ==
  [kind |-> kind, pc |-> "lock", vm |-> s.vm, session |-> s.session,
   current |-> TRUE, epoch |-> TRUE]

(* busy: an enable or a resume has not settled yet.                         *)
Busy(s) == s.task.kind # "none"

Requesting(s) == Busy(s) /\ s.status = "requesting"

(* A task of an older generation never looks at its target again.           *)
Stale(task) == [task EXCEPT !.current = FALSE, !.vm = NoVm, !.session = 0]

NextGenerationOf(s) == [s EXCEPT !.task = Stale(@), !.sync = Stale(@)]

(* The publish callback: a state without consent keeps no handoff.          *)
Publish(s) ==
  IF ~s.enabled /\ ~Busy(s) /\ s.status # "suspended" THEN CancelHandoff(s) ELSE s

-----------------------------------------------------------------------------
(* The port.  getMicrophoneStatus reports a latched fault before anything   *)
(* else; armed and capturing mean the same to the consent.                  *)
NativeStatus(s, vm) ==
  IF ~s.mic.active \/ vm # s.mic.name \/ ~s.mic.bound THEN "unavailable"
  ELSE IF s.fault # "none" THEN s.fault
  ELSE IF s.mic.gate THEN "armed" ELSE "disabled"

(* setMicrophoneEnabled(true) needs a visible window of the session now.    *)
PortRefuses(s, vm, session) ==
  \/ ~s.screenActive
  \/ s.screenBlocked
  \/ ~AnyVisible(s, vm, session)
  \/ Requesting(s) /\ ~Visible(s, s.requestOwner, vm, session)

CloseNative(s) == [s EXCEPT !.mic = Enable(@, s.vm, s.session, FALSE)]

-----------------------------------------------------------------------------
(* Mutant: a pending permission request survives the disable.               *)
DisableKeepsRequest(s) ==
  Publish([CloseNative(s) EXCEPT !.session = 0, !.enabled = FALSE,
                                 !.status = "disabled"])

DisableConsent(s) ==
  Publish([CloseNative(NextGenerationOf(s)) EXCEPT
             !.session = 0, !.enabled = FALSE, !.status = "disabled"])

FailConsent(s, status) == Publish([DisableConsent(s) EXCEPT !.status = status])

SetForeground(s, foreground) ==
  LET t == [s EXCEPT !.foreground = foreground]
  IN  IF foreground THEN Publish(t) ELSE DisableConsent(t)

BlockedOrError(status) == IF status = "blocked" THEN "blocked" ELSE "error"

(* suspend(); the status tells whether it succeeded.                        *)
Suspend(s) ==
  LET paused == NextGenerationOf([s EXCEPT !.foreground = FALSE, !.enabled = FALSE])
      closed == CloseNative(paused)
      status == NativeStatus(closed, s.vm)
  IN  IF ~s.enabled \/ Busy(s) THEN DisableConsent([s EXCEPT !.foreground = FALSE])
      ELSE IF s.session = 0 \/ SessionOf(s.mic, s.vm) # s.session
      THEN FailConsent(paused, "disabled")
      ELSE IF status # "disabled" THEN FailConsent(closed, BlockedOrError(status))
      ELSE Publish([closed EXCEPT !.status = "suspended"])

ApplyNativeStatus(s, status) ==
  IF status = "armed"
  THEN Publish([s EXCEPT !.enabled = TRUE, !.status = "armed"])
  ELSE FailConsent(s, status)

(* native: whether set_ accepts, and the fault that is latched by the time  *)
(* its status is read.                                                      *)
NativeReplies ==
  {n \in [accepted : BOOLEAN, fault : Faults] : n.accepted \/ n.fault # "none"}

EnableNative(s, vm, session, native) ==
  LET asked == [s EXCEPT !.mic = Enable(@, vm, session, native.accepted),
                         !.fault = native.fault]
  IN  IF PortRefuses(s, vm, session) \/ ~MayEnable(s.mic, vm, session)
      THEN LET status == NativeStatus(s, vm)
               known == status \in {"blocked", "unavailable"}
           IN  FailConsent(s, IF known THEN status ELSE "error")
      ELSE ApplyNativeStatus(asked, NativeStatus(asked, vm))

(* current(): whether a task may go on after an await.  If only its         *)
(* surroundings changed, it disables the consent.                           *)
SurroundingsChanged(s, t, foreground) ==
  (foreground /\ ~s.foreground) \/ SessionOf(s.mic, t.vm) # t.session

IsCurrent(s, t, foreground) == t.current /\ ~SurroundingsChanged(s, t, foreground)

GiveUp(s, t, foreground) ==
  IF t.current /\ SurroundingsChanged(s, t, foreground) THEN DisableConsent(s) ELSE s

(* The finally block of enable and resume.                                  *)
Settle(s) == Publish([s EXCEPT !.task = NoTask])

(* enable() up to its first await.                                          *)
EnableConsent(s, vm) ==
  LET session == SessionOf(s.mic, vm)
      target == [DisableConsent(s) EXCEPT !.vm = vm]
      asking == [target EXCEPT !.session = session, !.status = "requesting"]
  IN  IF Busy(s) THEN s
      ELSE IF ~s.foreground THEN DisableConsent(s)
      ELSE IF session = 0 THEN FailConsent(target, "disabled")
      ELSE [asking EXCEPT !.task = Task("enable", asking)]

(* resume() up to its first await.                                          *)
ResumeConsent(s) ==
  LET t == NextGenerationOf(s)
      busy == [t EXCEPT !.task = Task("resume", t)]
  IN  IF s.status # "suspended" \/ Busy(s) THEN s
      ELSE IF ~s.foreground THEN DisableConsent(s)
      ELSE IF SurroundingsChanged(busy, busy.task, TRUE)
      THEN Settle(GiveUp(busy, busy.task, TRUE))
      ELSE busy

(* synchronize() up to its first await.                                     *)
SynchronizeConsent(s) ==
  LET suspended == s.status = "suspended"
      t == Task(IF suspended THEN "suspended" ELSE "enabled", s)
  IN  IF \/ s.sync.kind # "none"
         \/ ~s.foreground /\ ~suspended
         \/ s.session = 0
         \/ ~s.enabled /\ ~Busy(s) /\ ~suspended
      THEN s
      ELSE IF ~IsCurrent(s, t, ~suspended) THEN GiveUp(s, t, ~suspended)
      ELSE IF Busy(s) THEN s
      ELSE [s EXCEPT !.sync = t]
=============================================================================
