------------------------------- MODULE VmPage --------------------------------
(***************************************************************************)
(* The main page, Index.ets: its list of virtual machines with the status  *)
(* shown for each, the list VmStore.ets persists, and the operations start,*)
(* stop and delete, which await files, dialogs and the native module while *)
(* the 2 s status timer and the other operations go on.                    *)
(*                                                                         *)
(* The native runtime below is the abstract SingleRun, which VmRuntime is  *)
(* shown to implement.  A start blocks the UI thread inside native.startVm *)
(* (calling), and only there do native steps alone interleave.             *)
(***************************************************************************)
EXTENDS Naturals

CONSTANTS VMs, NoVm,
          MaxRuns,    (* bound on the native runs of a behaviour             *)
          MaxClicks,  (* bound on the operations the user asks for           *)
          MaxCrashes  (* bound on the ends of the whole process              *)

ASSUME PageAssumption ==
  NoVm \notin VMs /\ MaxRuns \in Nat /\ MaxClicks \in Nat /\ MaxCrashes \in Nat

VARIABLES
  run, phase, faulty, reaped,  (* the native runtime                         *)
  owner,    (* the VM of its last run                                        *)
  ready,    (* qemu_init of that run succeeded                               *)
  last,     (* what native reports of the other VMs                          *)
  disk,     (* the VMs whose disk file exists                                *)
  calling,  (* the VM whose native.startVm blocks the UI thread, or NoVm     *)
  shown,    (* vm.status in this.vms, or "absent"                            *)
  stored,   (* the same in the preferences                                   *)
  pending,  (* the operations that await something, of each kind             *)
  clicks, crashes

native == <<run, phase, faulty, reaped>>
page == <<shown, stored, pending, clicks>>
vars == <<native, owner, ready, last, disk, calling, page, crashes>>

Native == INSTANCE SingleRun

Kinds == {"start", "stop", "dialog", "delete"}
Reported == Native!Live \cup Native!Terminal
Shown == Reported \cup {"absent"}

Listed(v) == shown[v] # "absent"

Live(v) == v = owner /\ phase \in Native!Live

NothingPending == [k \in Kinds |-> [v \in VMs |-> 0]]

Init ==
  /\ Native!Init
  /\ owner = NoVm
  /\ ready = FALSE
  /\ last = [v \in VMs |-> "stopped"]
  /\ disk = VMs
  /\ calling = NoVm
  /\ shown = [v \in VMs |-> "stopped"]
  /\ stored = shown
  /\ pending = NothingPending
  /\ clicks = 0
  /\ crashes = 0

-----------------------------------------------------------------------------
GetVmStatus(v) == IF v = owner THEN phase ELSE last[v]

UiFree == calling = NoVm

Clicked == clicks < MaxClicks /\ clicks' = clicks + 1

Begun(kind, v) == pending' = [pending EXCEPT ![kind][v] = @ + 1]

Ended(kind, v) ==
  /\ pending[kind][v] > 0
  /\ pending' = [pending EXCEPT ![kind][v] = @ - 1]

(* A status is written to the VM object; a deleted one is in no list.       *)
Show(v, status) == shown' = [shown EXCEPT ![v] = IF @ = "absent" THEN @ ELSE status]

(* VmStore.saveAll replaces the whole list.                                 *)
Persist(list) == stored' = list

(* saveAllVMs: the saves reach the preferences in the order of their calls. *)
SaveAll == Persist(shown')

-----------------------------------------------------------------------------
(* startVM: nothing but the visible list guards it.                         *)
StartVm(v) ==
  /\ UiFree /\ Clicked
  /\ Listed(v)
  /\ Show(v, "starting")
  /\ Begun("start", v)
  /\ UNCHANGED <<native, owner, ready, last, disk, calling, stored, crashes>>

(* The firmware or the ISO is missing, or native refuses: another run is    *)
(* not reaped, or its preparation fails, which native reports of a VM that  *)
(* never ran.                                                               *)
StartFails(v) ==
  /\ UiFree
  /\ Ended("start", v)
  /\ Show(v, "failed")
  /\ SaveAll
  /\ \/ UNCHANGED <<last, disk>>
     \/ /\ reaped
        /\ last' = [last EXCEPT ![v] = "failed"]
        /\ disk' \in {disk, disk \cup {v}}
  /\ UNCHANGED <<native, owner, ready, calling, clicks, crashes>>

(* native.startVm creates a missing disk and starts the runner.             *)
StartCalls(v) ==
  /\ UiFree
  /\ pending["start"][v] > 0
  /\ run < MaxRuns
  /\ Native!Start
  /\ owner' = v
  /\ ready' = FALSE
  /\ last' = IF owner = NoVm THEN last ELSE [last EXCEPT ![owner] = phase]
  /\ disk' = disk \cup {v}
  /\ calling' = v
  /\ UNCHANGED <<page, crashes>>

(* It waits 1.5 s for the startup at most.                                  *)
StartTimesOut ==
  /\ ~UiFree
  /\ phase = "starting"
  /\ Native!Fault
  /\ UNCHANGED <<owner, ready, last, disk, calling, page, crashes>>

StartReturns ==
  /\ ~UiFree
  /\ ready \/ phase # "starting"
  /\ Ended("start", calling)
  /\ Show(calling, IF ready THEN "running" ELSE "failed")
  /\ SaveAll
  /\ calling' = NoVm
  /\ UNCHANGED <<native, owner, ready, last, disk, clicks, crashes>>

-----------------------------------------------------------------------------
StopVm(v) ==
  /\ UiFree /\ Clicked
  /\ Listed(v)
  /\ Show(v, "stopping")
  /\ Begun("stop", v)
  /\ UNCHANGED <<native, owner, ready, last, disk, calling, stored, crashes>>

(* Mutant: the timer leaves a VM alone that is shown as stopping.           *)
RefreshedUnlessStopping ==
  [v \in VMs |-> IF shown[v] \in {"absent", "stopping"} THEN shown[v] ELSE GetVmStatus(v)']

Refreshed == [v \in VMs |-> IF Listed(v) THEN GetVmStatus(v)' ELSE "absent"]

(* Mutant: an accepted stop is shown as a finished one.                     *)
AfterStopAnnouncingEnd(v, accepted) ==
  IF accepted THEN Show(v, "stopped") ELSE Show(v, GetVmStatus(v)')

(* An accepted stop reads all statuses, a failed one only its own.          *)
AfterStop(v, accepted) ==
  IF accepted THEN shown' = Refreshed ELSE Show(v, GetVmStatus(v)')

(* native.stopVm answers true for a VM that does not run; it fails if it    *)
(* cannot create the stop monitor, or the native module does not load.      *)
StopReturns(v) ==
  /\ UiFree
  /\ Ended("stop", v)
  /\ UNCHANGED <<owner, ready, last, disk, calling, clicks, crashes>>
  /\ \/ /\ Live(v)
        /\ Native!RequestStop \/ (phase = "stopping" /\ UNCHANGED native)
        /\ AfterStop(v, TRUE)
     \/ Live(v) /\ Native!Fault /\ AfterStop(v, FALSE)
     \/ ~Live(v) /\ UNCHANGED native /\ AfterStop(v, TRUE)
     \/ UNCHANGED native /\ AfterStop(v, FALSE)
  /\ SaveAll

RefreshVmStatuses ==
  /\ UiFree
  /\ UNCHANGED <<native, owner, ready, last, disk, calling, pending, clicks, crashes>>
  /\ shown' = Refreshed
  /\ IF shown' # shown THEN SaveAll ELSE UNCHANGED stored

-----------------------------------------------------------------------------
(* deleteVM asks first, and only looks at the status before it asks.        *)
DeleteVm(v) ==
  /\ UiFree /\ Clicked
  /\ shown[v] \notin {"absent", "running"}
  /\ Begun("dialog", v)
  /\ UNCHANGED <<native, owner, ready, last, disk, calling, shown, stored, crashes>>

DeleteCancelled(v) ==
  /\ UiFree
  /\ Ended("dialog", v)
  /\ UNCHANGED <<native, owner, ready, last, disk, calling, shown, stored, clicks, crashes>>

(* Confirmed: disk.qcow2 is the first file to go.                           *)
DeleteConfirmed(v) ==
  /\ UiFree
  /\ pending["dialog"][v] > 0
  /\ pending' = [pending EXCEPT !["dialog"][v] = @ - 1, !["delete"][v] = @ + 1]
  /\ disk' = disk \ {v}
  /\ UNCHANGED <<native, owner, ready, last, calling, shown, stored, clicks, crashes>>

DeleteFinishes(v) ==
  /\ UiFree
  /\ Ended("delete", v)
  /\ shown' = [shown EXCEPT ![v] = "absent"]
  /\ SaveAll
  /\ UNCHANGED <<native, owner, ready, last, disk, calling, clicks, crashes>>

-----------------------------------------------------------------------------
NativeAdvances ==
  /\ \/ Native!BecomeReady /\ ready' = TRUE
     \/ (Native!Fault \/ Native!Finish \/ Native!Reap) /\ UNCHANGED ready
  /\ UNCHANGED <<owner, last, disk, calling, page, crashes>>

(* The process ends and the page comes back with the persisted list.        *)
Crash ==
  /\ crashes < MaxCrashes
  /\ crashes' = crashes + 1
  /\ run' = 0 /\ phase' = "none" /\ faulty' = FALSE /\ reaped' = TRUE
  /\ owner' = NoVm
  /\ ready' = FALSE
  /\ last' = [v \in VMs |-> "stopped"]
  /\ calling' = NoVm
  /\ shown' = stored
  /\ pending' = NothingPending
  /\ UNCHANGED <<disk, stored, clicks>>

(* What the page still has to do for a VM, whatever the user does next.     *)
Settles(v) == StartFails(v) \/ StartCalls(v) \/ StopReturns(v) \/ DeleteFinishes(v)

Asks(v) ==
  StartVm(v) \/ StopVm(v) \/ DeleteVm(v) \/ DeleteCancelled(v) \/ DeleteConfirmed(v)

Next ==
  \/ \E v \in VMs : Asks(v) \/ Settles(v)
  \/ StartTimesOut \/ StartReturns
  \/ RefreshVmStatuses
  \/ NativeAdvances
  \/ Crash

Spec == Init /\ [][Next]_vars

(* Every await settles, startVm gives up after 1.5 s, and the timer runs.   *)
Fairness ==
  /\ \A v \in VMs : WF_vars(StartFails(v) \/ StartCalls(v))
                    /\ WF_vars(StopReturns(v)) /\ WF_vars(DeleteFinishes(v))
  /\ WF_vars(StartTimesOut \/ StartReturns)
  /\ WF_vars(RefreshVmStatuses)

FairSpec == Spec /\ Fairness

-----------------------------------------------------------------------------
(* Types; the page never shows a status its views do not know.              *)
TypeOK ==
  /\ Native!TypeOK
  /\ owner \in VMs \cup {NoVm}
  /\ ready \in BOOLEAN
  /\ last \in [VMs -> Native!Terminal]
  /\ disk \subseteq VMs
  /\ calling \in VMs \cup {NoVm}
  /\ shown \in [VMs -> Shown]
  /\ stored \in [VMs -> Shown]
  /\ pending \in [Kinds -> [VMs -> 0 .. MaxClicks]]
  /\ clicks \in 0 .. MaxClicks
  /\ crashes \in 0 .. MaxCrashes

(* "Accepted is asynchronous; only native runner completion is terminal":   *)
(* the page never shows a VM as stopped whose runner is still alive.        *)
StoppedIsTrue == TypeOK /\ \A v \in VMs : shown[v] = "stopped" /\ calling # v => ~Live(v)

(* Whatever the operations wrote in between, the page ends up showing what  *)
(* native reports, and so do its labels and buttons.                        *)
ShowsTruth == <>[](\A v \in VMs : Listed(v) => shown[v] = GetVmStatus(v))

=============================================================================
