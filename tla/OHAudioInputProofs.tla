-------------------------- MODULE OHAudioInputProofs --------------------------
(***************************************************************************)
(* Proofs about OHAudioInput, for every number of disable requests.  What  *)
(* ClosedIsSilent says of a closed gate is not inductive: it rests on who  *)
(* may be where while aether_input_lock is held, and on the order in which *)
(* a stream is built up and torn down under it.                            *)
(***************************************************************************)
EXTENDS OHAudioInput, TLAPS

ControlOps == {"enable", "disable", "status"}

(* Where a stream is being built up, and where it is being torn down.       *)
Building == {"create", "recheck", "start", "arm"}
TearingDown == {"reconcile", "latch", "halt", "stop", "release"}

(* Where a disable or status request that finds a stream still is.          *)
Closing == {"lock", "policy"} \cup TearingDown

(* aether_input_lock is held from an operation's first point to its last.   *)
LockInv ==
  \A t \in Threads : inputLock = t <=> ~At(t, "idle") /\ ~At(t, "lock")

(* Which operation a thread is in, and what it has settled: a voice for the *)
(* guest's operations on one, a closed gate for a disable request.          *)
OperationInv ==
  /\ At("control", "idle") \/ worker["control"].op \in ControlOps
  /\ At("qemu", "idle") \/ worker["qemu"].op \in VoiceOps(voice)
  /\ ~At("qemu", "policy")
  /\ worker["qemu"].op = "init" => worker["qemu"].pc \in {"lock", "done"}
  /\ worker["qemu"].op = "fini" =>
       worker["qemu"].pc \in {"lock", "halt", "stop", "release", "done"}
  /\ worker["control"].op = "disable" => ~allowed /\ closures < MaxClosures
  /\ \A t \in Threads : worker[t].pc \in Building \cup TearingDown => voice
  /\ \A t \in Threads : At(t, "idle") => worker[t].op = "none"
  /\ worker["qemu"].op = "fini" /\ At("qemu", "done") => capturer = "none"

(* The stream's objects, point by point of the thread that handles them.    *)
StreamInv ==
  /\ capturer # "none" => voice
  /\ capturer \in {"none", "created"} => NoCallback
  /\ enabled => capturer = "running"
  /\ ring # {} => enabled
  /\ \A t \in Threads :
       /\ At(t, "create") => capturer = "none"
       /\ worker[t].pc \in {"recheck", "start"} => capturer = "created"
       /\ At(t, "arm") => capturer = "running"
       /\ worker[t].pc \in Building \cup {"stop", "release"} => ~enabled
       /\ At(t, "stop") => capturer # "none"
       /\ At(t, "release") => capturer = "stopped"

(* With the gate closed a stream is on its way down, and none is built up   *)
(* but by a thread the closing request waits for.                           *)
GateInv ==
  /\ ~allowed /\ capturer # "none" => worker["control"].pc \in Closing
  /\ ~allowed /\ (\E t \in Threads : worker[t].pc \in Building) =>
       At("control", "lock")

(* While samples may enter the ring, a latched fault has a callback that    *)
(* will say so, or a thread that has seen it.                               *)
FaultInv ==
  fault # "none" /\ enabled =>
    event \/ \E t \in Threads : worker[t].pc \in {"reconcile", "latch", "halt"}

(* The samples at hand are later than the last completed disable request.   *)
SampleInv ==
  /\ ring \subseteq {closures}
  /\ reader.pc = "checked" => reader.sample = closures

IInv ==
  /\ TypeOK /\ LockInv /\ OperationInv /\ StreamInv /\ GateInv /\ FaultInv
  /\ SampleInv

-----------------------------------------------------------------------------
(* Every step keeps the types; the next point of an operation and the count *)
(* of completed closures need to know which operation a thread is in.       *)
LEMMA TypeOKStep ==
  ASSUME IInv, Next
  PROVE  TypeOK'
<1> USE DEF IInv, TypeOK, Samples, Faults, Points, Operations, Reports, At, Goto,
      Idle, NoReader, Threads, vars, policy, stream
<1>1. CASE DisableBegins
  <2>1. allowed' \in BOOLEAN
    BY Zenon, <1>1 DEF DisableBegins, Begin
  <2> QED
    BY <2>1, <1>1 DEF DisableBegins, Begin
<1>2. CASE EnableBegins
  BY <1>2 DEF EnableBegins, Begin
<1>3. CASE StatusBegins
  BY <1>3 DEF StatusBegins, Begin
<1>4. CASE QemuBegins
  BY <1>4 DEF QemuBegins, Begin, VoiceOps
<1>5. ASSUME NEW t \in Threads, Locks(t) PROVE TypeOK'
  <2>1. requested' \in BOOLEAN
    BY Zenon, <1>5 DEF Locks
  <2>2. NextPoint(worker[t].op) \in Points
    BY <1>5 DEF Locks, OperationInv, ControlOps, VoiceOps, NextPoint
  <2>3. worker' \in [Threads -> [pc : Points, op : Operations]]
    BY <2>2, <1>5 DEF Locks
  <2>4. fault' \in Faults
    BY <1>5 DEF Locks
  <2>5. inputLock' \in Threads /\ UNCHANGED <<permission, allowed, voice, enabled, stream,
                                            ring, heard, answer, closures>>
    BY <1>5 DEF Locks
  <2> QED
    BY <2>1, <2>2, <2>3, <2>4, <2>5
<1>6. CASE ControlChecksPolicy
  <2>1. allowed' \in BOOLEAN
    BY Zenon, <1>6 DEF ControlChecksPolicy
  <2> QED
    BY <2>1, <1>6 DEF ControlChecksPolicy
<1>7. ASSUME NEW t \in Threads, Reconciles(t) PROVE TypeOK'
  BY <1>7 DEF Reconciles, MustStop, Permitted
<1>8. ASSUME NEW t \in Threads, Latches(t) PROVE TypeOK'
  BY <1>8 DEF Latches
<1>9. ASSUME NEW t \in Threads, Creates(t) PROVE TypeOK'
  BY <1>9 DEF Creates
<1>10. ASSUME NEW t \in Threads, Rechecks(t) PROVE TypeOK'
  BY <1>10 DEF Rechecks, Permitted
<1>11. ASSUME NEW t \in Threads, Starts(t) PROVE TypeOK'
  BY <1>11 DEF Starts
<1>12. ASSUME NEW t \in Threads, Arms(t) PROVE TypeOK'
  BY <1>12 DEF Arms, ArmChecked, Permitted
<1>13. ASSUME NEW t \in Threads, Halts(t) PROVE TypeOK'
  <2>1. enabled' \in BOOLEAN
    BY Zenon, <1>13 DEF Halts, RingErased
  <2> QED
    BY <2>1, <1>13 DEF Halts, RingErased
<1>14. ASSUME NEW t \in Threads, Stops(t) PROVE TypeOK'
  BY <1>14 DEF Stops
<1>15. ASSUME NEW t \in Threads, Releases(t) PROVE TypeOK'
  BY <1>15 DEF Releases, NoCallback
<1>16. CASE ControlAnswers
  <2>1. closures' \in Samples
    BY <1>16, ClosuresAssumption DEF ControlAnswers, OperationInv
  <2>2. answer' \in Reports \cup {"accepted", "refused", "none"}
    BY <1>16 DEF ControlAnswers, Unlocked, Accepted, Report, Opened
  <2> QED
    BY <2>1, <2>2, <1>16 DEF ControlAnswers, Unlocked, Accepted, Report, Opened
<1>17. CASE QemuReads
  <2>1. heard' \subseteq Samples
    BY <1>17 DEF QemuReads, Unlocked, RingErased
  <2>2. ring' \subseteq Samples
    BY <1>17 DEF QemuReads, Unlocked, RingErased
  <2> QED
    BY <2>1, <2>2, <1>17 DEF QemuReads, Unlocked, RingErased
<1>18. CASE QemuFinishes
  BY <1>18 DEF QemuFinishes, Unlocked
<1>19. CASE CaptureBegins
  BY <1>19 DEF CaptureBegins
<1>20. CASE CaptureEnds
  <2>1. enabled' \in BOOLEAN
    BY Zenon, <1>20 DEF CaptureEnds, Delivers, RingErased
  <2>2. ring' \subseteq Samples
    BY <1>20 DEF CaptureEnds, Delivers, RingErased
  <2>3. reader' \in [pc : {"idle", "checked"}, permitted : BOOLEAN,
                      sample : Samples]
    BY <1>20, ClosuresAssumption DEF CaptureEnds
  <2> QED
    BY <2>1, <2>2, <2>3, <1>20 DEF CaptureEnds, Delivers, RingErased
<1>21. CASE EventBegins
  BY <1>21 DEF EventBegins
<1>22. CASE EventEnds
  <2>1. enabled' \in BOOLEAN
    BY Zenon, <1>22 DEF EventEnds, RingErased
  <2>2. event' \in BOOLEAN
    BY Zenon, <1>22 DEF EventEnds, RingErased
  <2> QED
    BY <2>1, <2>2, <1>22 DEF EventEnds, RingErased
<1>23. CASE PermissionChanges
  BY <1>23 DEF PermissionChanges
<1> QED
  BY <1>1, <1>2, <1>3, <1>4, <1>5, <1>6, <1>7, <1>8, <1>9, <1>10, <1>11,
       <1>12, <1>13, <1>14, <1>15, <1>16, <1>17, <1>18, <1>19, <1>20, <1>21,
       <1>22, <1>23 DEF Next, LockHolder, Reconciliation,
    CallbackEnds

(* aether_input_lock: whoever is past the lock point holds it.              *)
LEMMA LockInvStep ==
  ASSUME IInv, Next
  PROVE  LockInv'
<1> USE DEF IInv, LockInv, TypeOK, OperationInv, ControlOps, Building,
      TearingDown, VoiceOps, Samples, Faults, Points, Operations, Reports,
      At, Goto, Idle, NoReader, Threads, vars, policy, stream
<1>1. CASE DisableBegins
  BY <1>1 DEF DisableBegins, Begin
<1>2. CASE EnableBegins
  BY <1>2 DEF EnableBegins, Begin
<1>3. CASE StatusBegins
  BY <1>3 DEF StatusBegins, Begin
<1>4. CASE QemuBegins
  BY <1>4 DEF QemuBegins, Begin, VoiceOps
<1>5. ASSUME NEW t \in Threads, Locks(t) PROVE LockInv'
  BY <1>5 DEF Locks, LatchKept, NextPoint
<1>6. CASE ControlChecksPolicy
  BY <1>6 DEF ControlChecksPolicy
<1>7. ASSUME NEW t \in Threads, Reconciles(t) PROVE LockInv'
  BY <1>7 DEF Reconciles, MustStop, Permitted
<1>8. ASSUME NEW t \in Threads, Latches(t) PROVE LockInv'
  BY <1>8 DEF Latches
<1>9. ASSUME NEW t \in Threads, Creates(t) PROVE LockInv'
  BY <1>9 DEF Creates
<1>10. ASSUME NEW t \in Threads, Rechecks(t) PROVE LockInv'
  BY <1>10 DEF Rechecks, Permitted
<1>11. ASSUME NEW t \in Threads, Starts(t) PROVE LockInv'
  BY <1>11 DEF Starts
<1>12. ASSUME NEW t \in Threads, Arms(t) PROVE LockInv'
  BY <1>12 DEF Arms, ArmChecked, Permitted
<1>13. ASSUME NEW t \in Threads, Halts(t) PROVE LockInv'
  BY <1>13 DEF Halts, RingErased
<1>14. ASSUME NEW t \in Threads, Stops(t) PROVE LockInv'
  BY <1>14 DEF Stops
<1>15. ASSUME NEW t \in Threads, Releases(t) PROVE LockInv'
  BY <1>15 DEF Releases, NoCallback
<1>16. CASE ControlAnswers
  BY <1>16 DEF ControlAnswers, Unlocked, Accepted, Report, Opened
<1>17. CASE QemuReads
  BY <1>17 DEF QemuReads, Unlocked, RingErased
<1>18. CASE QemuFinishes
  BY <1>18 DEF QemuFinishes, Unlocked
<1>19. CASE CaptureBegins
  BY <1>19 DEF CaptureBegins
<1>20. CASE CaptureEnds
  BY <1>20 DEF CaptureEnds, Delivers, RingErased
<1>21. CASE EventBegins
  BY <1>21 DEF EventBegins
<1>22. CASE EventEnds
  BY <1>22 DEF EventEnds, RingErased
<1>23. CASE PermissionChanges
  BY <1>23 DEF PermissionChanges
<1> QED
  BY <1>1, <1>2, <1>3, <1>4, <1>5, <1>6, <1>7, <1>8, <1>9, <1>10, <1>11,
       <1>12, <1>13, <1>14, <1>15, <1>16, <1>17, <1>18, <1>19, <1>20, <1>21,
       <1>22, <1>23 DEF Next, LockHolder, Reconciliation,
    CallbackEnds

(* A thread's operation fits its point, and the voice lives while another   *)
(* thread handles its stream.                                               *)
LEMMA OperationInvStep ==
  ASSUME IInv, Next
  PROVE  OperationInv'
<1> USE DEF IInv, OperationInv, ControlOps, Building, TearingDown, VoiceOps,
      TypeOK, LockInv, Samples, Faults, Points, Operations, Reports, At,
      Goto, Idle, NoReader, Threads, vars, policy, stream
<1>1. CASE DisableBegins
  BY <1>1 DEF DisableBegins, Begin
<1>2. CASE EnableBegins
  BY <1>2 DEF EnableBegins, Begin
<1>3. CASE StatusBegins
  BY <1>3 DEF StatusBegins, Begin
<1>4. CASE QemuBegins
  BY <1>4 DEF QemuBegins, Begin, VoiceOps
<1>5. ASSUME NEW t \in Threads, Locks(t) PROVE OperationInv'
  BY <1>5 DEF Locks, LatchKept, NextPoint
<1>6. CASE ControlChecksPolicy
  BY <1>6 DEF ControlChecksPolicy
<1>7. ASSUME NEW t \in Threads, Reconciles(t) PROVE OperationInv'
  BY <1>7 DEF Reconciles, MustStop, Permitted
<1>8. ASSUME NEW t \in Threads, Latches(t) PROVE OperationInv'
  BY <1>8 DEF Latches
<1>9. ASSUME NEW t \in Threads, Creates(t) PROVE OperationInv'
  BY <1>9 DEF Creates
<1>10. ASSUME NEW t \in Threads, Rechecks(t) PROVE OperationInv'
  BY <1>10 DEF Rechecks, Permitted
<1>11. ASSUME NEW t \in Threads, Starts(t) PROVE OperationInv'
  BY <1>11 DEF Starts
<1>12. ASSUME NEW t \in Threads, Arms(t) PROVE OperationInv'
  BY <1>12 DEF Arms, ArmChecked, Permitted
<1>13. ASSUME NEW t \in Threads, Halts(t) PROVE OperationInv'
  BY <1>13 DEF Halts, RingErased
<1>14. ASSUME NEW t \in Threads, Stops(t) PROVE OperationInv'
  BY <1>14 DEF Stops
<1>15. ASSUME NEW t \in Threads, Releases(t) PROVE OperationInv'
  BY <1>15 DEF Releases, NoCallback
<1>16. CASE ControlAnswers
  BY <1>16 DEF ControlAnswers, Unlocked, Accepted, Report, Opened
<1>17. CASE QemuReads
  BY <1>17 DEF QemuReads, Unlocked, RingErased
<1>18. CASE QemuFinishes
  BY <1>18 DEF QemuFinishes, Unlocked
<1>19. CASE CaptureBegins
  BY <1>19 DEF CaptureBegins
<1>20. CASE CaptureEnds
  BY <1>20 DEF CaptureEnds, Delivers, RingErased
<1>21. CASE EventBegins
  BY <1>21 DEF EventBegins
<1>22. CASE EventEnds
  BY <1>22 DEF EventEnds, RingErased
<1>23. CASE PermissionChanges
  BY <1>23 DEF PermissionChanges
<1> QED
  BY <1>1, <1>2, <1>3, <1>4, <1>5, <1>6, <1>7, <1>8, <1>9, <1>10, <1>11,
       <1>12, <1>13, <1>14, <1>15, <1>16, <1>17, <1>18, <1>19, <1>20, <1>21,
       <1>22, <1>23 DEF Next, LockHolder, Reconciliation,
    CallbackEnds

(* The capturer, the ring and the callbacks follow the points of the one    *)
(* thread that holds the lock.                                              *)
LEMMA StreamInvStep ==
  ASSUME IInv, Next
  PROVE  StreamInv'
<1> USE DEF IInv, StreamInv, Building, NoCallback, TypeOK, LockInv, OperationInv,
      ControlOps, TearingDown, VoiceOps, Samples, Faults, Points,
      Operations, Reports, At, Goto, Idle, NoReader, Threads, vars, policy,
      stream
<1>1. CASE DisableBegins
  BY <1>1 DEF DisableBegins, Begin
<1>2. CASE EnableBegins
  BY <1>2 DEF EnableBegins, Begin
<1>3. CASE StatusBegins
  BY <1>3 DEF StatusBegins, Begin
<1>4. CASE QemuBegins
  BY <1>4 DEF QemuBegins, Begin, VoiceOps
<1>5. ASSUME NEW t \in Threads, Locks(t) PROVE StreamInv'
  BY <1>5 DEF Locks, LatchKept, NextPoint
<1>6. CASE ControlChecksPolicy
  BY <1>6 DEF ControlChecksPolicy
<1>7. ASSUME NEW t \in Threads, Reconciles(t) PROVE StreamInv'
  BY <1>7 DEF Reconciles, MustStop, Permitted
<1>8. ASSUME NEW t \in Threads, Latches(t) PROVE StreamInv'
  BY <1>8 DEF Latches
<1>9. ASSUME NEW t \in Threads, Creates(t) PROVE StreamInv'
  BY <1>9 DEF Creates
<1>10. ASSUME NEW t \in Threads, Rechecks(t) PROVE StreamInv'
  BY <1>10 DEF Rechecks, Permitted
<1>11. ASSUME NEW t \in Threads, Starts(t) PROVE StreamInv'
  BY <1>11 DEF Starts
<1>12. ASSUME NEW t \in Threads, Arms(t) PROVE StreamInv'
  BY <1>12 DEF Arms, ArmChecked, Permitted
<1>13. ASSUME NEW t \in Threads, Halts(t) PROVE StreamInv'
  BY <1>13 DEF Halts, RingErased
<1>14. ASSUME NEW t \in Threads, Stops(t) PROVE StreamInv'
  BY <1>14 DEF Stops
<1>15. ASSUME NEW t \in Threads, Releases(t) PROVE StreamInv'
  BY <1>15 DEF Releases, NoCallback
<1>16. CASE ControlAnswers
  BY <1>16 DEF ControlAnswers, Unlocked, Accepted, Report, Opened
<1>17. CASE QemuReads
  BY <1>17 DEF QemuReads, Unlocked, RingErased
<1>18. CASE QemuFinishes
  BY <1>18 DEF QemuFinishes, Unlocked
<1>19. CASE CaptureBegins
  BY <1>19 DEF CaptureBegins
<1>20. CASE CaptureEnds
  BY <1>20 DEF CaptureEnds, Delivers, RingErased
<1>21. CASE EventBegins
  BY <1>21 DEF EventBegins
<1>22. CASE EventEnds
  BY <1>22 DEF EventEnds, RingErased
<1>23. CASE PermissionChanges
  BY <1>23 DEF PermissionChanges
<1> QED
  BY <1>1, <1>2, <1>3, <1>4, <1>5, <1>6, <1>7, <1>8, <1>9, <1>10, <1>11,
       <1>12, <1>13, <1>14, <1>15, <1>16, <1>17, <1>18, <1>19, <1>20, <1>21,
       <1>22, <1>23 DEF Next, LockHolder, Reconciliation,
    CallbackEnds

(* A closed gate: no thread builds a stream up behind a closing request.    *)
LEMMA GateInvStep ==
  ASSUME IInv, Next
  PROVE  GateInv'
<1> USE DEF IInv, GateInv, Closing, Building, TearingDown, TypeOK, LockInv,
      OperationInv, ControlOps, VoiceOps, StreamInv, NoCallback, Samples,
      Faults, Points, Operations, Reports, At, Goto, Idle, NoReader,
      Threads, vars, policy, stream
<1>1. CASE DisableBegins
  BY <1>1 DEF DisableBegins, Begin
<1>2. CASE EnableBegins
  BY <1>2 DEF EnableBegins, Begin
<1>3. CASE StatusBegins
  BY <1>3 DEF StatusBegins, Begin
<1>4. CASE QemuBegins
  BY <1>4 DEF QemuBegins, Begin, VoiceOps
<1>5. ASSUME NEW t \in Threads, Locks(t) PROVE GateInv'
  BY <1>5 DEF Locks, LatchKept, NextPoint
<1>6. CASE ControlChecksPolicy
  BY <1>6 DEF ControlChecksPolicy
<1>7. ASSUME NEW t \in Threads, Reconciles(t) PROVE GateInv'
  BY <1>7 DEF Reconciles, MustStop, Permitted
<1>8. ASSUME NEW t \in Threads, Latches(t) PROVE GateInv'
  BY <1>8 DEF Latches
<1>9. ASSUME NEW t \in Threads, Creates(t) PROVE GateInv'
  BY <1>9 DEF Creates
<1>10. ASSUME NEW t \in Threads, Rechecks(t) PROVE GateInv'
  BY <1>10 DEF Rechecks, Permitted
<1>11. ASSUME NEW t \in Threads, Starts(t) PROVE GateInv'
  BY <1>11 DEF Starts
<1>12. ASSUME NEW t \in Threads, Arms(t) PROVE GateInv'
  BY <1>12 DEF Arms, ArmChecked, Permitted
<1>13. ASSUME NEW t \in Threads, Halts(t) PROVE GateInv'
  BY <1>13 DEF Halts, RingErased
<1>14. ASSUME NEW t \in Threads, Stops(t) PROVE GateInv'
  BY <1>14 DEF Stops
<1>15. ASSUME NEW t \in Threads, Releases(t) PROVE GateInv'
  BY <1>15 DEF Releases, NoCallback
<1>16. CASE ControlAnswers
  BY <1>16 DEF ControlAnswers, Unlocked, Accepted, Report, Opened
<1>17. CASE QemuReads
  BY <1>17 DEF QemuReads, Unlocked, RingErased
<1>18. CASE QemuFinishes
  BY <1>18 DEF QemuFinishes, Unlocked
<1>19. CASE CaptureBegins
  BY <1>19 DEF CaptureBegins
<1>20. CASE CaptureEnds
  BY <1>20 DEF CaptureEnds, Delivers, RingErased
<1>21. CASE EventBegins
  BY <1>21 DEF EventBegins
<1>22. CASE EventEnds
  BY <1>22 DEF EventEnds, RingErased
<1>23. CASE PermissionChanges
  BY <1>23 DEF PermissionChanges
<1> QED
  BY <1>1, <1>2, <1>3, <1>4, <1>5, <1>6, <1>7, <1>8, <1>9, <1>10, <1>11,
       <1>12, <1>13, <1>14, <1>15, <1>16, <1>17, <1>18, <1>19, <1>20, <1>21,
       <1>22, <1>23 DEF Next, LockHolder, Reconciliation,
    CallbackEnds

(* A latched fault is always followed up while samples may enter.           *)
LEMMA FaultInvStep ==
  ASSUME IInv, Next
  PROVE  FaultInv'
<1> USE DEF IInv, FaultInv, TypeOK, StreamInv, Building, NoCallback, Samples,
      Faults, Points, Operations, Reports, At, Goto, Idle, NoReader,
      Threads, vars, policy, stream
<1>1. CASE DisableBegins
  BY <1>1 DEF DisableBegins, Begin
<1>2. CASE EnableBegins
  BY <1>2 DEF EnableBegins, Begin
<1>3. CASE StatusBegins
  BY <1>3 DEF StatusBegins, Begin
<1>4. CASE QemuBegins
  BY <1>4 DEF QemuBegins, Begin, VoiceOps
<1>5. ASSUME NEW t \in Threads, Locks(t) PROVE FaultInv'
  BY <1>5 DEF Locks, LatchKept, NextPoint
<1>6. CASE ControlChecksPolicy
  BY <1>6 DEF ControlChecksPolicy
<1>7. ASSUME NEW t \in Threads, Reconciles(t) PROVE FaultInv'
  BY <1>7 DEF Reconciles, MustStop, Permitted
<1>8. ASSUME NEW t \in Threads, Latches(t) PROVE FaultInv'
  BY <1>8 DEF Latches
<1>9. ASSUME NEW t \in Threads, Creates(t) PROVE FaultInv'
  BY <1>9 DEF Creates
<1>10. ASSUME NEW t \in Threads, Rechecks(t) PROVE FaultInv'
  BY <1>10 DEF Rechecks, Permitted
<1>11. ASSUME NEW t \in Threads, Starts(t) PROVE FaultInv'
  BY <1>11 DEF Starts
<1>12. ASSUME NEW t \in Threads, Arms(t) PROVE FaultInv'
  BY <1>12 DEF Arms, ArmChecked, Permitted
<1>13. ASSUME NEW t \in Threads, Halts(t) PROVE FaultInv'
  BY <1>13 DEF Halts, RingErased
<1>14. ASSUME NEW t \in Threads, Stops(t) PROVE FaultInv'
  BY <1>14 DEF Stops
<1>15. ASSUME NEW t \in Threads, Releases(t) PROVE FaultInv'
  BY <1>15 DEF Releases, NoCallback
<1>16. CASE ControlAnswers
  BY <1>16 DEF ControlAnswers, Unlocked, Accepted, Report, Opened
<1>17. CASE QemuReads
  BY <1>17 DEF QemuReads, Unlocked, RingErased
<1>18. CASE QemuFinishes
  BY <1>18 DEF QemuFinishes, Unlocked
<1>19. CASE CaptureBegins
  BY <1>19 DEF CaptureBegins
<1>20. CASE CaptureEnds
  BY <1>20 DEF CaptureEnds, Delivers, RingErased
<1>21. CASE EventBegins
  BY <1>21 DEF EventBegins
<1>22. CASE EventEnds
  BY <1>22 DEF EventEnds, RingErased
<1>23. CASE PermissionChanges
  BY <1>23 DEF PermissionChanges
<1> QED
  BY <1>1, <1>2, <1>3, <1>4, <1>5, <1>6, <1>7, <1>8, <1>9, <1>10, <1>11,
       <1>12, <1>13, <1>14, <1>15, <1>16, <1>17, <1>18, <1>19, <1>20, <1>21,
       <1>22, <1>23 DEF Next, LockHolder, Reconciliation,
    CallbackEnds

(* The count of closures moves only when no sample and no callback is left. *)
LEMMA SampleInvStep ==
  ASSUME IInv, Next
  PROVE  SampleInv'
<1> USE DEF IInv, SampleInv, OperationInv, ControlOps, Building, TearingDown,
      VoiceOps, StreamInv, NoCallback, GateInv, Closing, At, Goto, Idle,
      NoReader, Threads, vars, policy, stream
<1>1. CASE DisableBegins
  BY <1>1 DEF DisableBegins, Begin
<1>2. CASE EnableBegins
  BY <1>2 DEF EnableBegins, Begin
<1>3. CASE StatusBegins
  BY <1>3 DEF StatusBegins, Begin
<1>4. CASE QemuBegins
  BY <1>4 DEF QemuBegins, Begin, VoiceOps
<1>5. ASSUME NEW t \in Threads, Locks(t) PROVE SampleInv'
  BY <1>5 DEF Locks, LatchKept, NextPoint
<1>6. CASE ControlChecksPolicy
  BY <1>6 DEF ControlChecksPolicy
<1>7. ASSUME NEW t \in Threads, Reconciles(t) PROVE SampleInv'
  BY <1>7 DEF Reconciles, MustStop, Permitted
<1>8. ASSUME NEW t \in Threads, Latches(t) PROVE SampleInv'
  BY <1>8 DEF Latches
<1>9. ASSUME NEW t \in Threads, Creates(t) PROVE SampleInv'
  BY <1>9 DEF Creates
<1>10. ASSUME NEW t \in Threads, Rechecks(t) PROVE SampleInv'
  BY <1>10 DEF Rechecks, Permitted
<1>11. ASSUME NEW t \in Threads, Starts(t) PROVE SampleInv'
  BY <1>11 DEF Starts
<1>12. ASSUME NEW t \in Threads, Arms(t) PROVE SampleInv'
  BY <1>12 DEF Arms, ArmChecked, Permitted
<1>13. ASSUME NEW t \in Threads, Halts(t) PROVE SampleInv'
  BY <1>13 DEF Halts, RingErased
<1>14. ASSUME NEW t \in Threads, Stops(t) PROVE SampleInv'
  BY <1>14 DEF Stops
<1>15. ASSUME NEW t \in Threads, Releases(t) PROVE SampleInv'
  BY <1>15 DEF Releases, NoCallback
<1>16. CASE ControlAnswers
  BY <1>16 DEF ControlAnswers, Unlocked, Accepted, Report, Opened
<1>17. CASE QemuReads
  BY <1>17 DEF QemuReads, Unlocked, RingErased
<1>18. CASE QemuFinishes
  BY <1>18 DEF QemuFinishes, Unlocked
<1>19. CASE CaptureBegins
  BY <1>19 DEF CaptureBegins
<1>20. CASE CaptureEnds
  BY <1>20 DEF CaptureEnds, Delivers, RingErased
<1>21. CASE EventBegins
  BY <1>21 DEF EventBegins
<1>22. CASE EventEnds
  BY <1>22 DEF EventEnds, RingErased
<1>23. CASE PermissionChanges
  BY <1>23 DEF PermissionChanges
<1> QED
  BY <1>1, <1>2, <1>3, <1>4, <1>5, <1>6, <1>7, <1>8, <1>9, <1>10, <1>11,
       <1>12, <1>13, <1>14, <1>15, <1>16, <1>17, <1>18, <1>19, <1>20, <1>21,
       <1>22, <1>23 DEF Next, LockHolder, Reconciliation,
    CallbackEnds

(* Nothing above depends on more than the variables.                        *)
LEMMA Stuttering ==
  ASSUME IInv, UNCHANGED vars
  PROVE  IInv'
BY DEF IInv, TypeOK, LockInv, OperationInv, StreamInv, GateInv, FaultInv,
     SampleInv,
       At, NoCallback, vars, policy, stream

(* The invariant holds before the first operation, and every step keeps it. *)
THEOREM Inductive == Spec => []IInv
<1>1. Init => IInv
  <2> SUFFICES ASSUME Init PROVE IInv
    OBVIOUS
  <2>1. {permission, allowed, voice, requested, enabled, event} \subseteq BOOLEAN
    BY Zenon DEF Init
  <2>2. TypeOK
    BY <2>1, ClosuresAssumption DEF Init, TypeOK, Idle, NoReader, Threads,
         Samples,
         Faults, Points, Operations, Reports
  <2>3. LockInv /\ OperationInv /\ StreamInv /\ GateInv /\ FaultInv /\ SampleInv
    BY DEF Init, LockInv, OperationInv, StreamInv, GateInv, FaultInv,
         SampleInv, At,
         NoCallback, Idle, NoReader, Threads, Building, TearingDown
  <2> QED
    BY <2>2, <2>3 DEF IInv
<1>2. IInv /\ [Next]_vars => IInv'
  <2>1. CASE Next
    BY <2>1, TypeOKStep, LockInvStep, OperationInvStep, StreamInvStep,
         GateInvStep,
       FaultInvStep, SampleInvStep DEF IInv
  <2>2. CASE UNCHANGED vars
    BY <2>2, Stuttering
  <2> QED
    BY <2>1, <2>2
<1> QED
  BY <1>1, <1>2, PTL DEF Spec

(* TypeOK: every variable keeps its type, however often the microphone is   *)
(* closed.                                                                  *)
THEOREM TypeCorrect == Spec => []TypeOK
<1>1. IInv => TypeOK
  BY DEF IInv
<1> QED
  BY <1>1, Inductive, PTL

(* ClosedIsSilent: after a disable request has returned no stream exists and*)
(* nothing is in the ring, and after a fault was latched and its callback is*)
(* through no sample is kept, whatever the guest and the stream do meanwhile.*)
THEOREM ClosedGateIsSilent == Spec => []ClosedIsSilent
<1>1. IInv => ClosedIsSilent
  <2> SUFFICES ASSUME IInv PROVE ClosedIsSilent
    OBVIOUS
  <2>1. At("control", "idle") /\ ~allowed => capturer = "none" /\ ~enabled /\ ring = {}
    BY DEF IInv, GateInv, StreamInv, Closing, TearingDown, At
  <2>2. fault # "none" /\ inputLock = "free" /\ ~event => ~enabled /\ ring = {}
    BY DEF IInv, FaultInv, StreamInv, LockInv, At, Threads
  <2> QED
    BY <2>1, <2>2 DEF ClosedIsSilent, IInv
<1> QED
  BY <1>1, Inductive, PTL

(* NoStaleSamples: aether_read never hands the guest a sample captured before*)
(* the last disable request returned.                                       *)
THEOREM GuestHearsNothingStale == Spec => NoStaleSamples
<1>1. IInv /\ [Next]_vars => [QemuReads => heard' \subseteq {closures}]_vars
  BY DEF IInv, SampleInv, QemuReads
<1> QED
  BY <1>1, Inductive, PTL DEF Spec, NoStaleSamples

(* LatchOutlivesPause: only a request to enable clears a latched fault, and a*)
(* status of disabled is given with no fault, no stream and no sample left. *)
THEOREM LatchedFaultStays == Spec => LatchOutlivesPause
<1> DEFINE OnlyEnable ==
      fault # "none" /\ fault' = "none" =>
        At("control", "lock") /\ worker["control"].op = "enable"
    SafeAnswer ==
      ControlAnswers /\ answer' = "disabled" =>
        fault = "none" /\ capturer = "none" /\ ring = {}
<1>1. ASSUME IInv, Next PROVE OnlyEnable
  <2>1. CASE \E t \in Threads : Locks(t)
    BY <2>1 DEF Locks, LatchKept, At, Threads
  <2>2. CASE LockHolder
    BY <2>2 DEF LockHolder, Reconciliation, Reconciles, Latches, Creates,
         Rechecks,
         Starts, Arms, Halts, Stops, Releases, ControlChecksPolicy, ControlAnswers,
         QemuReads, QemuFinishes, policy, stream
  <2>3. CASE DisableBegins \/ EnableBegins \/ StatusBegins \/ QemuBegins
    BY <2>3 DEF DisableBegins, EnableBegins, StatusBegins, QemuBegins, policy
  <2>4. CASE CaptureBegins \/ EventBegins \/ CallbackEnds \/ PermissionChanges
    BY <2>4 DEF CaptureBegins, EventBegins, CallbackEnds, CaptureEnds,
         EventEnds,
         PermissionChanges, policy
  <2> QED
    BY <1>1, <2>1, <2>2, <2>3, <2>4 DEF Next
<1>2. ASSUME IInv, Next PROVE SafeAnswer
  BY <1>2 DEF IInv, TypeOK, Faults, StreamInv, GateInv, Closing,
       TearingDown, ControlAnswers, Report,
       Opened, Accepted, At
<1>3. IInv /\ [Next]_vars => [OnlyEnable /\ SafeAnswer]_vars
  BY <1>1, <1>2
<1> QED
  BY <1>3, Inductive, PTL DEF Spec, LatchOutlivesPause

=============================================================================
