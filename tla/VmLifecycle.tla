----------------------------- MODULE VmLifecycle -----------------------------
(***************************************************************************)
(* The object vm_lifecycle.h gives to one runner of the embedded core.     *)
(* Every method of the C++ class runs under the object's own mutex, so it  *)
(* is an operator from the object's value to its next value.  The error    *)
(* text is a deduplicated "; "-joined list: only the set of reasons in it  *)
(* is kept.                                                                *)
(***************************************************************************)
EXTENDS Naturals

Statuses == {"starting", "running", "stopping", "stopped", "failed"}

(* Where a reason comes from: a non-zero exit, the stop deadline, a failed *)
(* or timed-out startup, the stop monitor itself.                          *)
Reasons == {"exit", "deadline", "startup", "monitor"}

Lifecycle == [active : BOOLEAN, stopRequested : BOOLEAN, stopOwner : BOOLEAN,
              status : Statuses, error : SUBSET Reasons]

NewLifecycle == [active |-> TRUE, stopRequested |-> FALSE, stopOwner |-> FALSE,
                 status |-> "starting", error |-> {}]

(* Mutant: the object stops blocking as soon as its runner has completed,  *)
(* although the monitor still has to join it.                              *)
BlocksStartIgnoringOwner(l) == l.active

BlocksStart(l) == l.active \/ l.stopOwner

CanMarkRunning(l) == l.active /\ ~l.stopRequested /\ l.error = {}

MarkRunning(l) == [l EXCEPT !.status = IF CanMarkRunning(l) THEN "running" ELSE @]

CanClaimStop(l) == l.active /\ ~l.stopOwner

ClaimStop(l) == [l EXCEPT !.stopRequested = TRUE, !.stopOwner = TRUE,
                          !.status = "stopping"]

(* Mutant: the reservation survives a monitor that could not be created.   *)
ReleaseNothing(l) == l

ReleaseStopOwner(l) == [l EXCEPT !.stopOwner = FALSE]

AppendError(l, reason) == [l EXCEPT !.error = @ \cup {reason}]

Fail(l, reason) ==
  [AppendError(l, reason) EXCEPT !.stopRequested = TRUE,
                                 !.status = IF l.active THEN "stopping" ELSE "failed"]

(* Mutant: a clean exit wipes the failure recorded before it.              *)
CompleteForgetting(l, ok) ==
  [l EXCEPT !.active = FALSE, !.error = IF ok THEN {} ELSE {"exit"},
            !.status = IF ok THEN "stopped" ELSE "failed"]

Complete(l, ok) ==
  LET e == IF ok THEN l ELSE AppendError(l, "exit")
  IN  [e EXCEPT !.active = FALSE,
                !.status = IF e.error = {} THEN "stopped" ELSE "failed"]
=============================================================================
