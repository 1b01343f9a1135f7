----------------------------- MODULE VmPageProofs -----------------------------
(***************************************************************************)
(* What the main page shows, for every set of virtual machines and every   *)
(* number of runs, clicks and crashes: a VM whose runner is alive is never *)
(* shown as stopped, whatever was pending when it was started.             *)
(***************************************************************************)
EXTENDS VmPage, TLAPS

(* The native runtime reports on the run of some VM as soon as there was   *)
(* one, and a run that was reaped is over.                                 *)
OwnerInv ==
  /\ owner = NoVm <=> phase = "none"
  /\ reaped => phase \notin Native!Live

(* Every pending operation was asked for, and a deletion either waits for  *)
(* its dialog or was confirmed.                                            *)
PendingInv ==
  \A v \in VMs :
    /\ pending["start"][v] <= clicks
    /\ pending["stop"][v] <= clicks
    /\ pending["dialog"][v] + pending["delete"][v] <= clicks

IInv == StoppedIsTrue /\ OwnerInv /\ PendingInv

(* What StoppedIsTrue says beside the types.                               *)
NoneAliveIsShownStopped == \A v \in VMs : shown[v] = "stopped" /\ calling # v => ~Live(v)

-----------------------------------------------------------------------------
(* What may happen to a run once it is started: it ends once and for all.  *)
NativeStep ==
  \/ Native!BecomeReady \/ Native!RequestStop \/ Native!Fault \/ Native!Finish \/ Native!Reap
  \/ UNCHANGED native

LEMMA RunOnlyEnds ==
  ASSUME TypeOK, OwnerInv, NativeStep, owner' = owner
  PROVE  /\ Native!TypeOK' /\ OwnerInv'
         /\ phase' \in Native!Live => phase \in Native!Live
<1> USE DEF Native!TypeOK, OwnerInv, TypeOK, Native!Live, Native!Terminal
<1>1. CASE Native!BecomeReady \/ Native!RequestStop \/ UNCHANGED native
  BY <1>1 DEF Native!BecomeReady, Native!RequestStop, native
<1>5. CASE Native!Reap
  <2>1. reaped' \in BOOLEAN
    BY <1>5, Zenon DEF Native!Reap
  <2>2. QED
    BY <1>5, <2>1 DEF Native!Reap
<1>2. CASE Native!Fault
  BY <1>2 DEF Native!Fault
<1>3. CASE Native!Finish
  BY <1>3 DEF Native!Finish
<1>4. QED
  BY <1>1, <1>2, <1>3, <1>5 DEF NativeStep

(* A run starts only when the one before it is over, whose last status the *)
(* runtime goes on reporting.                                              *)
LEMMA RunStarts ==
  ASSUME TypeOK, OwnerInv, NEW v \in VMs, StartCalls(v)
  PROVE  /\ Native!TypeOK' /\ OwnerInv'
         /\ last' \in [VMs -> Native!Terminal]
         /\ \A w \in VMs : ~Live(w)
<1> USE PageAssumption DEF Native!TypeOK, OwnerInv, TypeOK, StartCalls, Native!Start, Native!Live
<1>1. phase \notin Native!Live /\ phase \in Native!Live \cup Native!Terminal \cup {"none"}
  OBVIOUS
<1>2. Native!TypeOK' /\ OwnerInv'
  <2>1. faulty' \in BOOLEAN /\ reaped' \in BOOLEAN /\ ~reaped'
    BY Zenon
  <2>2. run' \in Nat /\ phase' = "starting" /\ owner' # NoVm
    OBVIOUS
  <2>3. QED
    BY <2>1, <2>2
<1>3. last' \in [VMs -> Native!Terminal]
  <2>1. CASE owner = NoVm
    BY <2>1
  <2>2. CASE owner # NoVm
    BY <1>1, <2>2
  <2>3. QED
    BY <2>1, <2>2
<1>4. QED
  BY <1>1, <1>2, <1>3 DEF Live

(* The native runtime never answers with a status the page does not know.  *)
LEMMA StatusReported ==
  ASSUME TypeOK, Native!TypeOK', OwnerInv', UNCHANGED <<owner, last>>, NEW v \in VMs
  PROVE  GetVmStatus(v)' \in Reported /\ (GetVmStatus(v)' = "stopped" => ~Live(v)')
BY PageAssumption DEF TypeOK, OwnerInv, GetVmStatus, Reported, Live, Native!TypeOK, Native!Live,
  Native!Terminal

-----------------------------------------------------------------------------
(* The clicks of the user and what still waits for an answer.              *)
LEMMA PendingStep ==
  ASSUME TypeOK, PendingInv, Next
  PROVE  /\ pending' \in [Kinds -> [VMs -> 0 .. MaxClicks]]
         /\ clicks' \in 0 .. MaxClicks
         /\ PendingInv'
<1> DEFINE Goal == /\ pending' \in [Kinds -> [VMs -> 0 .. MaxClicks]]
                   /\ clicks' \in 0 .. MaxClicks
                   /\ PendingInv'
<1>0. /\ pending \in [Kinds -> [VMs -> 0 .. MaxClicks]] /\ clicks \in 0 .. MaxClicks
      /\ calling \in VMs \cup {NoVm} /\ MaxClicks \in Nat /\ NoVm \notin VMs
  BY PageAssumption DEF TypeOK
<1> USE <1>0 DEF PendingInv, Kinds
<1>1. ASSUME NEW v \in VMs, NEW kind \in {"start", "stop", "dialog"}, Begun(kind, v), Clicked
      PROVE  Goal
  BY <1>1 DEF Begun, Clicked
<1>2. ASSUME NEW v \in VMs, NEW kind \in Kinds, Ended(kind, v), clicks' = clicks
      PROVE  Goal
  BY <1>2 DEF Ended
<1>3. ASSUME NEW v \in VMs, DeleteConfirmed(v)
      PROVE  Goal
  BY <1>3 DEF DeleteConfirmed
<1>4. ASSUME UNCHANGED <<pending, clicks>>
      PROVE  Goal
  BY <1>4
<1>5. ASSUME pending' = NothingPending, clicks' = clicks
      PROVE  Goal
  BY <1>5 DEF NothingPending
<1> HIDE DEF Goal
<1>6. ASSUME NEW v \in VMs, Asks(v)
      PROVE  Goal
  BY <1>1, <1>2, <1>3, <1>6 DEF Asks, StartVm, StopVm, DeleteVm, DeleteCancelled
<1>7. ASSUME NEW v \in VMs, Settles(v)
      PROVE  Goal
  BY <1>2, <1>4, <1>7 DEF Settles, StartFails, StartCalls, StopReturns, DeleteFinishes, page
<1>8. ASSUME StartReturns  PROVE Goal
  <2>1. calling \in VMs /\ Ended("start", calling) /\ clicks' = clicks
    BY <1>8 DEF StartReturns, UiFree
  <2>2. \A v \in VMs : Ended("start", v) => Goal
    BY <1>2, <2>1
  <2>3. QED
    BY <2>1, <2>2
<1>9. ASSUME StartTimesOut \/ RefreshVmStatuses \/ NativeAdvances  PROVE Goal
  BY <1>4, <1>9 DEF StartTimesOut, RefreshVmStatuses, NativeAdvances, page
<1>10. ASSUME Crash  PROVE Goal
  <2>1. pending' = NothingPending
    BY <1>10, Zenon DEF Crash
  <2>2. clicks' = clicks
    BY <1>10, Zenon DEF Crash
  <2>3. QED
    BY <1>5, <2>1, <2>2, Zenon
<1>11. QED
  BY <1>6, <1>7, <1>8, <1>9, <1>10 DEF Next, Goal

-----------------------------------------------------------------------------
(* The rest of the types, and the shown statuses.                          *)
ShownInv ==
  /\ Native!TypeOK
  /\ owner \in VMs \cup {NoVm}
  /\ ready \in BOOLEAN
  /\ last \in [VMs -> Native!Terminal]
  /\ disk \subseteq VMs
  /\ calling \in VMs \cup {NoVm}
  /\ shown \in [VMs -> Shown]
  /\ stored \in [VMs -> Shown]
  /\ crashes \in 0 .. MaxCrashes
  /\ OwnerInv
  /\ NoneAliveIsShownStopped

(* A status that is read now is true now.                                  *)
LEMMA OneReported ==
  ASSUME TypeOK, Native!TypeOK', OwnerInv', NoneAliveIsShownStopped,
         phase' \in Native!Live => phase \in Native!Live,
         UNCHANGED <<owner, last, calling>>,
         NEW v \in VMs, Show(v, GetVmStatus(v)')
  PROVE  shown' \in [VMs -> Shown] /\ NoneAliveIsShownStopped'
<1>1. GetVmStatus(v)' \in Reported /\ (GetVmStatus(v)' = "stopped" => ~Live(v)')
  BY StatusReported
<1>2. shown' \in [VMs -> Shown]
  BY <1>1 DEF Show, TypeOK, Shown
<1>3. ASSUME NEW w \in VMs, shown'[w] = "stopped", calling' # w
      PROVE  ~Live(w)'
  BY <1>1, <1>3 DEF Show, TypeOK, NoneAliveIsShownStopped, Live
<1>4. QED
  BY <1>2, <1>3 DEF NoneAliveIsShownStopped

LEMMA AllReported ==
  ASSUME TypeOK, Native!TypeOK', OwnerInv', UNCHANGED <<owner, last, calling>>,
         shown' = Refreshed
  PROVE  shown' \in [VMs -> Shown] /\ NoneAliveIsShownStopped'
<1>1. ASSUME NEW v \in VMs
      PROVE  GetVmStatus(v)' \in Reported /\ (GetVmStatus(v)' = "stopped" => ~Live(v)')
  BY StatusReported
<1>2. shown' \in [VMs -> Shown]
  BY <1>1 DEF Refreshed, Shown
<1>3. ASSUME NEW w \in VMs, shown'[w] = "stopped"
      PROVE  ~Live(w)'
  BY <1>1, <1>3 DEF Refreshed
<1>4. QED
  BY <1>2, <1>3 DEF NoneAliveIsShownStopped

LEMMA ShownStep ==
  ASSUME TypeOK, OwnerInv, NoneAliveIsShownStopped, Next
  PROVE  ShownInv'
<1>1. ASSUME NEW v \in VMs, StartVm(v) \/ StopVm(v)
      PROVE  ShownInv'
  BY <1>1 DEF StartVm, StopVm, Show, ShownInv, TypeOK, NoneAliveIsShownStopped, Live, OwnerInv,
    Native!TypeOK, native,
     Shown, Reported, Native!Live
<1>2. ASSUME NEW v \in VMs, StartFails(v)
      PROVE  ShownInv'
  BY <1>2 DEF StartFails, Show, SaveAll, Persist, ShownInv, TypeOK, NoneAliveIsShownStopped,
    Live, OwnerInv,
     Native!TypeOK, native, Shown, Reported, Native!Live, Native!Terminal
<1>3. ASSUME NEW v \in VMs, StartCalls(v)
      PROVE  ShownInv'
  BY <1>3, RunStarts DEF StartCalls, page, ShownInv, TypeOK, NoneAliveIsShownStopped, Live
<1>4. CASE StartTimesOut \/ NativeAdvances
  BY <1>4, RunOnlyEnds DEF StartTimesOut, NativeAdvances, page, NativeStep, ShownInv, TypeOK,
     NoneAliveIsShownStopped, Live
<1>5. CASE StartReturns
  BY <1>5, PageAssumption DEF StartReturns, UiFree, Show, SaveAll, Persist, ShownInv, TypeOK,
    NoneAliveIsShownStopped,
     Live, OwnerInv, Native!TypeOK, native, Shown, Reported, Native!Live, Native!Terminal
<1>6. ASSUME NEW v \in VMs, StopReturns(v)
      PROVE  ShownInv'
  <2>1. NativeStep
    BY <1>6 DEF StopReturns, NativeStep
  <2>2. /\ Native!TypeOK' /\ OwnerInv' /\ TypeOK
        /\ phase' \in Native!Live => phase \in Native!Live
        /\ UNCHANGED <<owner, ready, last, disk, calling, crashes>>
        /\ stored' = shown'
    BY <1>6, <2>1, RunOnlyEnds DEF StopReturns, SaveAll, Persist
  <2>3. CASE shown' = Refreshed
    BY <2>2, <2>3, AllReported DEF ShownInv, TypeOK
  <2>4. CASE Show(v, GetVmStatus(v)')
    BY <2>2, <2>4, OneReported DEF ShownInv, TypeOK
  <2>5. QED
    BY <1>6, <2>3, <2>4 DEF StopReturns, AfterStop
<1>7. CASE RefreshVmStatuses
  <2>1. /\ UNCHANGED <<native, owner, ready, last, disk, calling, crashes>>
        /\ shown' = Refreshed
        /\ stored' \in {stored, shown'}
    BY <1>7 DEF RefreshVmStatuses, SaveAll, Persist
  <2>2. NativeStep
    BY <2>1 DEF NativeStep
  <2>3. QED
    BY <2>1, <2>2, RunOnlyEnds, AllReported DEF ShownInv, TypeOK
<1>8. ASSUME NEW v \in VMs, DeleteVm(v) \/ DeleteCancelled(v) \/ DeleteConfirmed(v)
      PROVE  ShownInv'
  BY <1>8 DEF DeleteVm, DeleteCancelled, DeleteConfirmed, ShownInv, TypeOK,
    NoneAliveIsShownStopped, Live, OwnerInv,
     Native!TypeOK, native
<1>9. ASSUME NEW v \in VMs, DeleteFinishes(v)
      PROVE  ShownInv'
  BY <1>9 DEF DeleteFinishes, SaveAll, Persist, ShownInv, TypeOK, NoneAliveIsShownStopped, Live,
    OwnerInv,
     Native!TypeOK, native, Shown
<1>10. CASE Crash
  <2>1. Native!TypeOK' /\ OwnerInv'
    <3>1. faulty' \in BOOLEAN /\ reaped' \in BOOLEAN
      BY <1>10, Zenon DEF Crash
    <3>2. run' \in Nat /\ phase' = "none" /\ owner' = NoVm
      BY <1>10 DEF Crash
    <3>3. QED
      BY <3>1, <3>2 DEF Native!TypeOK, OwnerInv, Native!Live
  <2>2. ready' \in BOOLEAN
    BY <1>10, Zenon DEF Crash
  <2>3. phase' \notin Native!Live
    BY <1>10 DEF Crash, Native!Live
  <2>4. last' \in [VMs -> Native!Terminal] /\ owner' \in VMs \cup {NoVm} /\ calling' \in VMs \cup {NoVm}
    BY <1>10 DEF Crash, Native!Terminal
  <2>5. disk' = disk /\ shown' = stored /\ stored' = stored /\ crashes' \in 0 .. MaxCrashes
    <3>1. disk' = disk /\ shown' = stored /\ stored' = stored
      BY <1>10, Zenon DEF Crash
    <3>2. crashes < MaxCrashes /\ crashes' = crashes + 1 /\ crashes \in 0 .. MaxCrashes
      BY <1>10, Zenon DEF Crash, TypeOK
    <3>3. QED
      BY <3>1, <3>2, PageAssumption
  <2>6. QED
    BY <2>1, <2>2, <2>3, <2>4, <2>5 DEF ShownInv, TypeOK, NoneAliveIsShownStopped, Live
<1>11. QED
  BY <1>1, <1>2, <1>3, <1>4, <1>5, <1>6, <1>7, <1>8, <1>9, <1>10 DEF Next, Asks, Settles
-----------------------------------------------------------------------------
LEMMA Inductive == Spec => []IInv
<1>1. Init => IInv
  <2> SUFFICES ASSUME Init  PROVE IInv
    OBVIOUS
  <2>1. Native!TypeOK /\ OwnerInv
    <3>1. faulty \in BOOLEAN /\ reaped \in BOOLEAN
      BY Zenon DEF Init, Native!Init
    <3>2. run \in Nat /\ phase = "none" /\ owner = NoVm
      BY DEF Init, Native!Init
    <3>3. QED
      BY <3>1, <3>2 DEF Native!TypeOK, OwnerInv, Native!Live
  <2>2. ready \in BOOLEAN
    BY Zenon DEF Init
  <2>3. pending \in [Kinds -> [VMs -> 0 .. MaxClicks]] /\ clicks \in 0 .. MaxClicks /\ PendingInv
    BY PageAssumption DEF Init, NothingPending, PendingInv, Kinds
  <2>4. /\ owner = NoVm /\ calling = NoVm /\ disk = VMs /\ crashes = 0
        /\ last = [v \in VMs |-> "stopped"]
        /\ shown = [v \in VMs |-> "stopped"] /\ stored = shown
    BY DEF Init
  <2>5. TypeOK
    BY <2>1, <2>2, <2>3, <2>4, PageAssumption DEF TypeOK, Shown, Reported, Native!Terminal
  <2>6. QED
    BY <2>1, <2>3, <2>4, <2>5, PageAssumption DEF IInv, StoppedIsTrue, Live
<1>2. IInv /\ [Next]_vars => IInv'
  <2> SUFFICES ASSUME IInv, [Next]_vars  PROVE IInv'
    OBVIOUS
  <2>1. TypeOK /\ OwnerInv /\ PendingInv /\ NoneAliveIsShownStopped
    BY DEF IInv, StoppedIsTrue, NoneAliveIsShownStopped
  <2>2. CASE Next
    BY <2>1, <2>2, PendingStep, ShownStep DEF IInv, StoppedIsTrue, TypeOK, ShownInv,
      NoneAliveIsShownStopped
  <2>3. CASE UNCHANGED vars
    BY <2>1, <2>3 DEF vars, native, page, IInv, StoppedIsTrue, TypeOK, OwnerInv, PendingInv,
      Live, Native!TypeOK
  <2>4. QED
    BY <2>2, <2>3
<1>3. QED
  BY <1>1, <1>2, PTL DEF Spec

(* "Accepted is asynchronous; only native runner completion is terminal":  *)
(* no order of operations, timer and native steps makes the page show a VM *)
(* as stopped while its runner is alive, a crash included.                 *)
THEOREM StoppedIsTrueAlways == Spec => []StoppedIsTrue
<1>1. IInv => StoppedIsTrue
  BY DEF IInv
<1>2. QED
  BY <1>1, Inductive, PTL
=============================================================================
