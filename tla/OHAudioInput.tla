----------------------------- MODULE OHAudioInput -----------------------------
(***************************************************************************)
(* The capture half of the OHAudio backend the patch adds to QEMU          *)
(* (aether_soundkit_hmos.c): one voice, driven by three kinds of threads.  *)
(*   control  qemu_hmos_set_microphone_enabled and _get_microphone_status; *)
(*            one call at a time, because MicrophoneSession holds a mutex  *)
(*   qemu     init_in, enable_in, read and fini_in, on QEMU's main loop    *)
(*   stream   the data callback and the interrupt and error callbacks      *)
(* aether_input_lock serializes control and qemu for a whole operation.    *)
(* The ring mutex is never held between two steps: a section under it is   *)
(* one step, as is each of its callers' atomic accesses outside it.        *)
(***************************************************************************)
EXTENDS Naturals

CONSTANT MaxClosures  (* bound on the disable requests of a behaviour        *)

ASSUME ClosuresAssumption == MaxClosures \in Nat

VARIABLES
  permission, (* the system's answer to OH_AT_CheckSelfPermission            *)
  allowed,    (* aether_mic_allowed                                          *)
  fault,      (* aether_mic_fault; "none" is 0                               *)
  voice,      (* whether the voice is linked into aether_inputs              *)
  requested,  (* the guest wants to record                                   *)
  enabled,    (* samples may enter the ring                                  *)
  capturer,   (* the OHAudio capturer of the voice                           *)
  ring,       (* the samples in the ring, each the number of closures that   *)
              (* had been completed when it was captured                     *)
  inputLock,  (* who holds aether_input_lock                                 *)
  worker,     (* what the control and the qemu thread are doing              *)
  reader,     (* the data callback in progress                               *)
  event,      (* whether an interrupt or error callback is in progress       *)
  heard,      (* the samples the last aether_read returned; {} during a call *)
  answer,     (* the result of the last control call; "none" during one      *)
  closures    (* how many disable requests have returned                     *)

policy == <<permission, allowed, fault>>
stream == <<capturer, reader, event>>
vars == <<policy, voice, requested, enabled, stream, ring, inputLock, worker,
          heard, answer, closures>>

Threads == {"control", "qemu"}
Samples == 0 .. MaxClosures
Faults == {"none", "blocked", "error"}

Points == {"idle", "lock", "policy", "reconcile", "latch", "create", "recheck",
           "start", "arm", "halt", "stop", "release", "done"}

Operations == {"none", "enable", "disable", "status", "init", "record", "pause",
               "read", "fini"}

Idle == [pc |-> "idle", op |-> "none"]
NoReader == [pc |-> "idle", permitted |-> FALSE, sample |-> 0]

Init ==
  /\ permission \in BOOLEAN
  /\ allowed = FALSE
  /\ fault = "none"
  /\ voice = FALSE
  /\ requested = FALSE
  /\ enabled = FALSE
  /\ capturer = "none"
  /\ ring = {}
  /\ inputLock = "free"
  /\ worker = [t \in Threads |-> Idle]
  /\ reader = NoReader
  /\ event = FALSE
  /\ heard = {}
  /\ answer = "none"
  /\ closures = 0

At(t, pc) == worker[t].pc = pc

Goto(t, pc) == worker' = [worker EXCEPT ![t].pc = pc]

Begin(t, op) ==
  /\ At(t, "idle")
  /\ worker' = [worker EXCEPT ![t] = [pc |-> "lock", op |-> op]]

Permitted == allowed /\ fault = "none" /\ permission

-----------------------------------------------------------------------------
(* The callers.  Every path of MicrophoneConsent and MicrophoneSession      *)
(* closes the gate before it asks for it again.                             *)

(* The gate is closed before the lock is taken.                             *)
DisableBegins ==
  /\ closures < MaxClosures
  /\ Begin("control", "disable")
  /\ allowed' = FALSE
  /\ answer' = "none"
  /\ UNCHANGED <<permission, fault, voice, requested, enabled, stream, ring,
                 inputLock, heard, closures>>

EnableBegins ==
  /\ Begin("control", "enable")
  /\ ~allowed
  /\ answer' = "none"
  /\ UNCHANGED <<policy, voice, requested, enabled, stream, ring, inputLock,
                 heard, closures>>

StatusBegins ==
  /\ Begin("control", "status")
  /\ answer' = "none"
  /\ UNCHANGED <<policy, voice, requested, enabled, stream, ring, inputLock,
                 heard, closures>>

VoiceOps(v) == IF v THEN {"record", "pause", "read", "fini"} ELSE {"init"}

QemuBegins ==
  /\ \E op \in VoiceOps(voice) : Begin("qemu", op)
  /\ heard' = {}
  /\ UNCHANGED <<policy, voice, requested, enabled, stream, ring, inputLock,
                 answer, closures>>

(* Mutant: closing the gate also resets the fault latch.                    *)
LatchKeptByStatus(op) == op = "status"

LatchKept(op) == op # "enable"

(* The first thing each operation does under aether_input_lock.             *)
NextPoint(op) ==
  CASE op \in {"enable", "disable", "status"} -> "policy"
    [] op \in {"record", "pause", "read"} -> "reconcile"
    [] op = "fini" -> "halt"
    [] op = "init" -> "done"

Locks(t) ==
  /\ At(t, "lock")
  /\ inputLock = "free"
  /\ inputLock' = t
  /\ fault' = IF t = "control" /\ ~LatchKept(worker[t].op) THEN "none" ELSE fault
  /\ requested' = CASE worker[t].op = "record" -> TRUE
                    [] worker[t].op \in {"pause", "init"} -> FALSE
                    [] OTHER -> requested
  /\ Goto(t, NextPoint(worker[t].op))
  /\ UNCHANGED <<permission, allowed, voice, enabled, stream, ring, heard,
                 answer, closures>>

(* set_ derives the policy from the request and the permission; both set_   *)
(* and status_ latch a missing permission.                                  *)
ControlChecksPolicy ==
  /\ At("control", "policy")
  /\ allowed' = IF worker["control"].op = "status" THEN allowed
                ELSE worker["control"].op = "enable" /\ permission
  /\ fault' = IF ~permission /\ fault = "none" THEN "blocked" ELSE fault
  /\ Goto("control", IF voice THEN "reconcile" ELSE "done")
  /\ UNCHANGED <<permission, voice, requested, enabled, stream, ring, inputLock,
                 heard, answer, closures>>

-----------------------------------------------------------------------------
(* aether_reconcile_input and aether_stop_input, by the holder of the lock. *)

(* Mutant: a running capturer is left alone when the policy has changed.    *)
MustStopWhenPaused == ~requested

MustStop == ~requested \/ ~Permitted

Reconciles(t) ==
  /\ At(t, "reconcile")
  /\ Goto(t, IF MustStop THEN "latch"
             ELSE IF capturer # "none" THEN "done" ELSE "create")
  /\ UNCHANGED <<policy, voice, requested, enabled, stream, ring, inputLock,
                 heard, answer, closures>>

Latches(t) ==
  /\ At(t, "latch")
  /\ fault' = IF allowed /\ fault = "none" /\ ~permission THEN "blocked" ELSE fault
  /\ Goto(t, "halt")
  /\ UNCHANGED <<permission, allowed, voice, requested, enabled, stream, ring,
                 inputLock, heard, answer, closures>>

Creates(t) ==
  /\ At(t, "create")
  /\ \/ capturer' = "created" /\ fault' = fault /\ Goto(t, "recheck")
     \/ capturer' = "none" /\ fault' = "error" /\ Goto(t, "done")
  /\ UNCHANGED <<permission, allowed, voice, requested, enabled, reader, event,
                 ring, inputLock, heard, answer, closures>>

Rechecks(t) ==
  /\ At(t, "recheck")
  /\ fault' = IF Permitted THEN fault ELSE "blocked"
  /\ Goto(t, IF Permitted THEN "start" ELSE "halt")
  /\ UNCHANGED <<permission, allowed, voice, requested, enabled, stream, ring,
                 inputLock, heard, answer, closures>>

Starts(t) ==
  /\ At(t, "start")
  /\ \/ capturer' = "running" /\ fault' = fault /\ Goto(t, "arm")
     \/ capturer' = capturer /\ fault' = "error" /\ Goto(t, "halt")
  /\ UNCHANGED <<permission, allowed, voice, requested, enabled, reader, event,
                 ring, inputLock, heard, answer, closures>>

ArmChecked == Permitted

Arms(t) ==
  /\ At(t, "arm")
  /\ enabled' = ArmChecked
  /\ Goto(t, IF ArmChecked THEN "done" ELSE "halt")
  /\ UNCHANGED <<policy, voice, requested, stream, ring, inputLock, heard,
                 answer, closures>>

(* Mutant: the ring is paused but not erased.                               *)
RingKept == ring

RingErased == {}

Halts(t) ==
  /\ At(t, "halt")
  /\ enabled' = FALSE
  /\ ring' = RingErased
  /\ Goto(t, IF capturer = "none" THEN "done" ELSE "stop")
  /\ UNCHANGED <<policy, voice, requested, stream, inputLock, heard, answer,
                 closures>>

(* OH_AudioCapturer_Stop: until it has taken effect a last callback starts. *)
Stops(t) ==
  /\ At(t, "stop")
  /\ capturer' = "stopped"
  /\ Goto(t, "release")
  /\ UNCHANGED <<policy, voice, requested, enabled, reader, event, ring,
                 inputLock, heard, answer, closures>>

NoCallback == reader.pc = "idle" /\ ~event

Releases(t) ==
  /\ At(t, "release")
  /\ NoCallback
  /\ capturer' = "none"
  /\ Goto(t, "done")
  /\ UNCHANGED <<policy, voice, requested, enabled, reader, event, ring,
                 inputLock, heard, answer, closures>>

-----------------------------------------------------------------------------
Opened == IF enabled THEN "capturing" ELSE "armed"

Report == IF fault # "none" THEN fault ELSE IF ~allowed THEN "disabled" ELSE Opened

(* What set_ returns.                                                       *)
Accepted(op) == op = "disable" \/ (allowed /\ fault = "none")

(* Mutant: the path of a failed capturer leaves without unlocking.          *)
LockKeptOnError(t) == IF fault = "error" THEN t ELSE "free"

Unlocked(t) == "free"

ControlAnswers ==
  /\ At("control", "done")
  /\ answer' = IF worker["control"].op = "status" THEN Report
               ELSE IF Accepted(worker["control"].op) THEN "accepted" ELSE "refused"
  /\ closures' = IF worker["control"].op = "disable" THEN closures + 1 ELSE closures
  /\ inputLock' = Unlocked("control")
  /\ worker' = [worker EXCEPT !["control"] = Idle]
  /\ UNCHANGED <<policy, voice, requested, enabled, stream, ring, heard>>

(* The buffer aether_read fills: any part of what the ring holds, or        *)
(* nothing, and then the ring is erased.                                    *)
QemuReads ==
  /\ At("qemu", "done")
  /\ worker["qemu"].op = "read"
  /\ \/ /\ enabled /\ Permitted
        /\ heard' \in SUBSET ring
        /\ \/ ring' = ring
           \/ ring' = ring \ heard'
     \/ /\ ~(enabled /\ Permitted)
        /\ heard' = {}
        /\ ring' = RingErased
  /\ inputLock' = Unlocked("qemu")
  /\ worker' = [worker EXCEPT !["qemu"] = Idle]
  /\ UNCHANGED <<policy, voice, requested, enabled, stream, answer, closures>>

QemuFinishes ==
  /\ At("qemu", "done")
  /\ worker["qemu"].op # "read"
  /\ voice' = (worker["qemu"].op # "fini")
  /\ inputLock' = Unlocked("qemu")
  /\ worker' = [worker EXCEPT !["qemu"] = Idle]
  /\ UNCHANGED <<policy, requested, enabled, stream, ring, heard, answer, closures>>

-----------------------------------------------------------------------------
(* The callbacks of the stream.  They only use the ring mutex.              *)

CaptureBegins ==
  /\ capturer = "running"
  /\ reader.pc = "idle"
  /\ reader' = [pc |-> "checked", permitted |-> permission, sample |-> closures]
  /\ UNCHANGED <<policy, voice, requested, enabled, capturer, event, ring,
                 inputLock, worker, heard, answer, closures>>

Delivers == enabled /\ reader.permitted /\ allowed /\ fault = "none"

CaptureEnds ==
  /\ reader.pc = "checked"
  /\ ring' = IF Delivers THEN ring \cup {reader.sample} ELSE RingErased
  /\ enabled' = (enabled /\ Delivers)
  /\ fault' = IF ~reader.permitted /\ fault = "none" THEN "blocked" ELSE fault
  /\ reader' = NoReader
  /\ UNCHANGED <<permission, allowed, voice, requested, capturer, event,
                 inputLock, worker, heard, answer, closures>>

(* on_interrupt and on_error: the fault first, then the ring.               *)
EventBegins ==
  /\ capturer = "running"
  /\ ~event
  /\ event' = TRUE
  /\ fault' \in {"blocked", "error"}
  /\ UNCHANGED <<permission, allowed, voice, requested, enabled, capturer, reader,
                 ring, inputLock, worker, heard, answer, closures>>

EventEnds ==
  /\ event
  /\ event' = FALSE
  /\ enabled' = FALSE
  /\ ring' = RingErased
  /\ UNCHANGED <<policy, voice, requested, capturer, reader, inputLock, worker,
                 heard, answer, closures>>

(* The user grants or revokes the permission in the system settings.        *)
PermissionChanges ==
  /\ permission' = ~permission
  /\ UNCHANGED <<allowed, fault, voice, requested, enabled, stream, ring,
                 inputLock, worker, heard, answer, closures>>

-----------------------------------------------------------------------------
Reconciliation(t) ==
  \/ Reconciles(t) \/ Latches(t) \/ Creates(t) \/ Rechecks(t) \/ Starts(t)
  \/ Arms(t) \/ Halts(t) \/ Stops(t) \/ Releases(t)

LockHolder ==
  \/ \E t \in Threads : Reconciliation(t)
  \/ ControlChecksPolicy \/ ControlAnswers \/ QemuReads \/ QemuFinishes

CallbackEnds == CaptureEnds \/ EventEnds

Next ==
  \/ DisableBegins \/ EnableBegins \/ StatusBegins \/ QemuBegins
  \/ \E t \in Threads : Locks(t)
  \/ LockHolder
  \/ CaptureBegins \/ EventBegins \/ CallbackEnds
  \/ PermissionChanges

(* The holder of the lock runs, a waiter gets the lock if it is free again  *)
(* and again (a default pthread mutex promises no more), callbacks return.  *)
Fairness ==
  /\ WF_vars(LockHolder)
  /\ WF_vars(CallbackEnds)
  /\ \A t \in Threads : SF_vars(Locks(t))

Spec == Init /\ [][Next]_vars
FairSpec == Spec /\ Fairness

-----------------------------------------------------------------------------
Reports == {"disabled", "armed", "capturing", "blocked", "error"}

TypeOK ==
  /\ permission \in BOOLEAN
  /\ allowed \in BOOLEAN
  /\ fault \in Faults
  /\ voice \in BOOLEAN
  /\ requested \in BOOLEAN
  /\ enabled \in BOOLEAN
  /\ capturer \in {"none", "created", "running", "stopped"}
  /\ ring \subseteq Samples
  /\ inputLock \in Threads \cup {"free"}
  /\ worker \in [Threads -> [pc : Points, op : Operations]]
  /\ reader \in [pc : {"idle", "checked"}, permitted : BOOLEAN, sample : Samples]
  /\ event \in BOOLEAN
  /\ heard \subseteq Samples
  /\ answer \in Reports \cup {"accepted", "refused", "none"}
  /\ closures \in Samples

(* Once a disable request has returned, and until the gate is asked for     *)
(* again, no stream exists and nothing is left in the ring, whatever the    *)
(* guest, the stream and the permission do in the meantime.  After an       *)
(* interruption, an error or a revocation was latched, and its callback is  *)
(* through, no sample is kept and none can enter the ring.                  *)
ClosedIsSilent ==
  /\ TypeOK
  /\ At("control", "idle") /\ ~allowed => capturer = "none" /\ ~enabled /\ ring = {}
  /\ fault # "none" /\ inputLock = "free" /\ ~event => ~enabled /\ ring = {}

(* The guest never reads a sample that was captured before the last disable *)
(* request returned: re-enabling does not deliver what was said in between. *)
NoStaleSamples == [][QemuReads => heard' \subseteq {closures}]_vars

(* A latched fault outlives pauses, teardown and status queries.  Only an   *)
(* explicit request to enable the microphone resets it, so that a status of *)
(* disabled is a safe point to hand the microphone over: no fault is        *)
(* pending, no stream exists and no sample waits.                           *)
LatchOutlivesPause ==
  [][/\ fault # "none" /\ fault' = "none" =>
          At("control", "lock") /\ worker["control"].op = "enable"
     /\ ControlAnswers /\ answer' = "disabled" =>
          fault = "none" /\ capturer = "none" /\ ring = {}]_vars

(* No operation waits for ever, although OH_AudioCapturer_Release waits for *)
(* the callbacks while aether_input_lock is held.                           *)
OperationsReturn == \A t \in Threads : At(t, "lock") ~> At(t, "idle")
=============================================================================
