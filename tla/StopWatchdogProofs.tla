-------------------------- MODULE StopWatchdogProofs --------------------------
(***************************************************************************)
(* The verdict of the stop monitor, for every choice of its delays, of the *)
(* faults QEMU lets happen and of the size of the socket: what it takes    *)
(* for an accepted quit is one, and its deadline is never reported later   *)
(* than one exchange and one pause allow.                                  *)
(***************************************************************************)
EXTENDS StopWatchdog, WellFoundedInduction, TLAPS

(* A quit is only on its way back if QEMU executed it, and QEMU greets,    *)
(* reads and answers on a connection that is open.                         *)
WireInv ==
  /\ \A i \in 1 .. Len(wire) : wire[i] = "quit" => quitSeen
  /\ accepted => quitSeen

(* The monitor sleeps and waits only inside an exchange or its pause, and  *)
(* leaves its loop only when the runner has returned.                      *)
WaitInv ==
  /\ at \in {"loop", "check"} => wait = 0
  /\ at = "joining" => ~active

(* The latest moment at which a monitor that has not reported the deadline *)
(* can leave each point: the last check found it in the future, and since  *)
(* then at most one pause and the exchange up to this point have passed.   *)
InTime(exchanging) == elapsed + wait <= Deadline + Pause + exchanging

LatenessInv ==
  active /\ ~deadlineReported =>
    /\ at \in {"loop", "pause"} => InTime(0)
    /\ at = "connect" => InTime(Timeout)
    /\ at = "greeting" => InTime(2 * Timeout)
    /\ at = "capabilities" => InTime(3 * Timeout)
    /\ at \in {"quit", "check"} => InTime(4 * Timeout)

IInv == TypeOK /\ WireInv /\ WaitInv /\ LatenessInv

-----------------------------------------------------------------------------
(* A set of natural numbers that is not empty has a least element.        *)
LEMMA MinOfSet ==
  ASSUME NEW S \in SUBSET Nat, S # {}
  PROVE  Min(S) \in S /\ \A y \in S : Min(S) <= y
<1> DEFINE R == {ss \in Nat \X Nat : ss[1] < ss[2]}
<1>1. IsWellFoundedOn(R, Nat)
  BY NatLessThanWellFounded, Zenon DEF OpToRel
<1>2. PICK x \in S : \A y \in S : ~ (<<y, x>> \in R)
  <2> HIDE DEF R
  <2>1. QED
    BY <1>1, WFMin
<1>3. ASSUME NEW y \in S  PROVE  x <= y
  <2>1. <<y, x>> \in Nat \X Nat /\ <<y, x>>[1] = y /\ <<y, x>>[2] = x
    OBVIOUS
  <2>2. ~(y < x)
    BY <1>2, <2>1, Zenon
  <2>3. QED
    BY <2>2
<1>4. QED
  BY <1>3 DEF Min

LEMMA Constants ==
  /\ InitialDelay \in Nat /\ Grace \in Nat /\ RetryGap \in Nat /\ MaxFaults \in Nat
  /\ Timeout \in Nat \ {0} /\ Pause \in Nat \ {0} /\ MaxWire \in Nat \ {0}
  /\ Deadline \in Nat
BY WatchdogAssumption DEF Deadline

(* The smaller of two numbers.                                             *)
LEMMA MinOfTwo ==
  ASSUME NEW a \in Nat, NEW b \in Nat
  PROVE  Min({a, b}) \in Nat /\ Min({a, b}) <= a /\ Min({a, b}) <= b
BY MinOfSet

(* What becomes of a chunk that was read: all of it is skipped, or it has  *)
(* the line that was awaited or an error.                                  *)
ChunkSkipped(n) ==
  /\ wire' = SubSeq(wire, n + 1, Len(wire))
  /\ UNCHANGED <<at, wait, accepted, served, request, orphan>>

QuitAnswered ==
  /\ at = "quit"
  /\ \E i \in 1 .. Len(wire) : wire[i] = "quit"
  /\ ExchangeEnds(TRUE)

ReplyTaken(n) ==
  /\ at # "quit"
  /\ wire' = SubSeq(wire, n + 1, Len(wire))
  /\ at' = IF at = "greeting" THEN "capabilities" ELSE "quit"
  /\ request' = at'
  /\ wait' = Timeout
  /\ UNCHANGED <<accepted, served, orphan>>

LEMMA ReceivesCases ==
  ASSUME TypeOK, NEW n \in 1 .. MaxWire, Receives(n)
  PROVE  /\ at \in {"greeting", "capabilities", "quit"}
         /\ n \in 1 .. Len(wire)
         /\ UNCHANGED <<active, elapsed, since, deadlineReported, quitSeen, faults>>
         /\ ChunkSkipped(n) \/ ExchangeEnds(FALSE) \/ QuitAnswered \/ ReplyTaken(n)
<1> DEFINE read == SubSeq(wire, 1, n)
           hits == {i \in 1 .. Len(read) : Awaited(read[i])}
           found == FirstAwaited(read)
<1>1. n \in 1 .. Len(wire) /\ wire \in Seq(Lines)
  BY DEF Receives, TypeOK
<1>2. Len(read) = n /\ \A i \in 1 .. n : read[i] = wire[i]
  BY <1>1
<1>3. found = IF hits # {} THEN Min(hits) ELSE 0
  BY DEF FirstAwaited, SelectInSeq
<1>4. hits # {} => Min(hits) \in hits
  <2>1. hits \in SUBSET Nat
    BY <1>2
  <2>2. QED
    BY <2>1, MinOfSet
<1>5. found # 0 => found \in 1 .. n /\ Awaited(wire[found]) /\ read[found] = wire[found]
  BY <1>2, <1>3, <1>4
<1> HIDE DEF found
<1>6. CASE found = 0
  BY <1>1, <1>6 DEF Receives, found, ChunkSkipped
<1>7. CASE found # 0 /\ wire[found] = "error"
  BY <1>1, <1>7 DEF Receives, found
<1>8. CASE found # 0 /\ wire[found] # "error" /\ at = "quit"
  <2>1. wire[found] = "quit" /\ found \in 1 .. Len(wire)
    BY <1>1, <1>5, <1>8 DEF Awaited
  <2>2. QED
    BY <1>1, <1>8, <2>1 DEF Receives, found, QuitAnswered
<1>9. CASE found # 0 /\ wire[found] # "error" /\ at # "quit"
  BY <1>1, <1>9 DEF Receives, found, ReplyTaken
<1>10. QED
  BY <1>6, <1>7, <1>8, <1>9

(* What is left of the wire behind a chunk.                                *)
LEMMA RestOfWire ==
  ASSUME TypeOK, NEW n \in 1 .. Len(wire)
  PROVE  LET rest == SubSeq(wire, n + 1, Len(wire))
         IN  /\ rest \in Seq(Lines) /\ Len(rest) <= MaxWire
             /\ \A i \in 1 .. Len(rest) : rest[i] = wire[i + n] /\ i + n \in 1 .. Len(wire)
BY Constants DEF TypeOK

-----------------------------------------------------------------------------
(* A quit that is accepted was executed, and nothing takes that back.      *)
LEMMA WireStep ==
  ASSUME TypeOK, WireInv, Next
  PROVE  WireInv'
<1> USE DEF TypeOK, WireInv
<1>1. ASSUME NEW n \in 1 .. MaxWire, Receives(n)  PROVE WireInv'
  <2>1. n \in 1 .. Len(wire) /\ quitSeen' = quitSeen
    BY <1>1, ReceivesCases
  <2>2. CASE ChunkSkipped(n) \/ ReplyTaken(n)
    <3>1. wire' = SubSeq(wire, n + 1, Len(wire)) /\ accepted' = accepted
      BY <2>2 DEF ChunkSkipped, ReplyTaken
    <3>2. \A i \in 1 .. Len(wire') : wire'[i] = wire[i + n] /\ i + n \in 1 .. Len(wire)
      BY <2>1, <3>1, RestOfWire
    <3>3. QED
      BY <2>1, <3>1, <3>2
  <2>3. CASE ExchangeEnds(FALSE) \/ QuitAnswered
    BY <2>1, <2>3 DEF ExchangeEnds, QuitAnswered
  <2>4. QED
    BY <1>1, <2>2, <2>3, ReceivesCases
<1>3. ASSUME NEW line, QemuSends(line), line = "quit" => quitSeen',
             quitSeen => quitSeen', accepted' = accepted
      PROVE  WireInv'
  BY <1>3 DEF QemuSends
<1>4. CASE QemuGreets
  BY <1>3, <1>4 DEF QemuGreets
<1>5. CASE QemuExecutes
  BY <1>3, <1>5 DEF QemuExecutes
<1>6. CASE QemuRefuses
  BY <1>3, <1>6 DEF QemuRefuses
<1>7. CASE QemuEmits
  BY <1>3, <1>7 DEF QemuEmits
<1>8. CASE LoopEnds \/ LoopLooks \/ Connects \/ ExchangeTimesOut \/ ExchangeFindsNobody \/ ChecksDeadline \/ PauseEnds
  BY <1>8 DEF LoopEnds, LoopLooks, Connects, ExchangeTimesOut, ExchangeFindsNobody,
    ChecksDeadline, PauseEnds,
    ExchangeEnds, socket, clocks
<1>9. CASE ExchangeFails \/ Tick \/ QemuExecutesOrphan \/ RunnerReturns
  BY <1>9 DEF ExchangeFails, Tick, QemuExecutesOrphan, RunnerReturns, ExchangeEnds, socket, clocks
<1>10. QED
  BY <1>1, <1>4, <1>5, <1>6, <1>7, <1>8, <1>9 DEF Next, Monitor, Qemu

(* The end of an exchange, with the rest of the state within its types.    *)
LEMMA ExchangeTypes ==
  ASSUME TypeOK, NEW ok \in BOOLEAN, ExchangeEnds(ok),
         UNCHANGED <<elapsed, since, deadlineReported, quitSeen>>,
         active' \in BOOLEAN, faults' \in 0 .. MaxFaults
  PROVE  TypeOK'
<1>1. orphan' \in BOOLEAN
  BY DEF ExchangeEnds, TypeOK
<1>2. wire' \in Seq(Lines) /\ Len(wire') <= MaxWire /\ wait' \in 0 .. Timeout + Pause
  BY Constants DEF ExchangeEnds
<1>3. QED
  BY <1>1, <1>2 DEF ExchangeEnds, TypeOK, Exchanges

(* The types.                                                              *)
LEMMA TypeStep ==
  ASSUME TypeOK, WaitInv, Next
  PROVE  TypeOK'
<1> USE Constants DEF TypeOK, Exchanges
<1>1. Deadline + Lateness + 1 \in Nat /\ Timeout + Pause \in Nat
  BY DEF Deadline, Lateness
<1> USE DEF socket, clocks
<1>2. ASSUME NEW n \in 1 .. MaxWire, Receives(n)  PROVE TypeOK'
  <2>1. /\ n \in 1 .. Len(wire) /\ at \in {"greeting", "capabilities", "quit"}
        /\ UNCHANGED <<active, elapsed, since, deadlineReported, quitSeen, faults>>
    BY <1>2, ReceivesCases
  <2>2. CASE ChunkSkipped(n)
    BY <2>1, <2>2, RestOfWire DEF ChunkSkipped
  <2>3. CASE ReplyTaken(n)
    BY <2>1, <2>3, RestOfWire DEF ReplyTaken
  <2>4. CASE ExchangeEnds(FALSE) \/ QuitAnswered
    BY <2>1, <2>4, ExchangeTypes DEF QuitAnswered
  <2>5. QED
    BY <1>2, <2>2, <2>3, <2>4, ReceivesCases
<1>3. ASSUME NEW line \in Lines, QemuSends(line)
      PROVE  wire' \in Seq(Lines) /\ Len(wire') <= MaxWire
  BY <1>3 DEF QemuSends
<1>4. CASE QemuGreets
  BY <1>3, <1>4 DEF QemuGreets, Lines
<1>5. CASE QemuExecutes
  BY <1>3, <1>5 DEF QemuExecutes, Lines
<1>6. CASE QemuRefuses
  BY <1>3, <1>6 DEF QemuRefuses, Lines
<1>7. CASE QemuEmits
  BY <1>3, <1>7 DEF QemuEmits, Lines
<1>8. CASE LoopEnds \/ LoopLooks \/ Connects \/ PauseEnds
  BY <1>1, <1>8 DEF LoopEnds, LoopLooks, Connects, PauseEnds
<1>9. CASE ChecksDeadline
  <2>1. deadlineReported' \in BOOLEAN
    BY <1>9 DEF ChecksDeadline
  <2>2. QED
    BY <1>1, <1>9, <2>1 DEF ChecksDeadline
<1>10. CASE ExchangeTimesOut \/ ExchangeFindsNobody \/ ExchangeFails
  <2>1. ExchangeEnds(FALSE) /\ UNCHANGED <<active, elapsed, since, deadlineReported, quitSeen>>
    BY <1>10 DEF ExchangeTimesOut, ExchangeFindsNobody, ExchangeFails
  <2>2. faults' \in 0 .. MaxFaults
    <3>1. faults \in 0 .. MaxFaults /\ (faults' = faults \/ (faults < MaxFaults /\ faults' = faults + 1))
      BY <1>10, Zenon DEF ExchangeTimesOut, ExchangeFindsNobody, ExchangeFails
    <3> HIDE DEF TypeOK
    <3>2. QED
      BY <3>1, Constants
  <2>3. QED
    BY <2>1, <2>2, ExchangeTypes
<1>11. CASE QemuExecutesOrphan \/ RunnerReturns
  BY <1>11 DEF QemuExecutesOrphan, RunnerReturns
<1>12. CASE Tick
  <2>1. elapsed' \in 0 .. Deadline + Lateness + 1
    BY <1>1, <1>12, MinOfTwo DEF Tick
  <2>2. since' \in 0 .. RetryGap
    BY <1>12, MinOfTwo DEF Tick
  <2>3. QED
    BY <1>12, <2>1, <2>2 DEF Tick
<1>13. QED
  BY <1>2, <1>4, <1>5, <1>6, <1>7, <1>8, <1>9, <1>10, <1>11, <1>12 DEF Next, Monitor, Qemu

LEMMA WaitStep ==
  ASSUME TypeOK, WaitInv, Next
  PROVE  WaitInv'
<1> USE DEF TypeOK, WaitInv, Exchanges
<1>1. ASSUME NEW n \in 1 .. MaxWire, Receives(n)  PROVE WaitInv'
  BY <1>1, ReceivesCases DEF ExchangeEnds, ChunkSkipped, QuitAnswered, ReplyTaken
<1>2. CASE LoopEnds \/ LoopLooks \/ Connects \/ ExchangeTimesOut \/ ExchangeFindsNobody \/ ChecksDeadline \/ PauseEnds
  BY <1>2 DEF LoopEnds, LoopLooks, Connects, ExchangeTimesOut, ExchangeFindsNobody,
    ChecksDeadline, PauseEnds,
    ExchangeEnds, clocks
<1>3. CASE QemuGreets \/ QemuExecutes \/ QemuRefuses \/ QemuEmits
  BY <1>3 DEF QemuGreets, QemuExecutes, QemuRefuses, QemuEmits, clocks
<1>4. CASE ExchangeFails \/ Tick \/ QemuExecutesOrphan \/ RunnerReturns
  BY <1>4 DEF ExchangeFails, Tick, QemuExecutesOrphan, RunnerReturns, ExchangeEnds, clocks
<1>5. QED
  BY <1>1, <1>2, <1>3, <1>4 DEF Next, Monitor, Qemu

(* Time and the monitor's own steps: each leaves it enough for the next.   *)
LEMMA LatenessStep ==
  ASSUME TypeOK, WaitInv, LatenessInv, Next
  PROVE  LatenessInv'
<1>0. Deadline' = Deadline
  BY DEF Deadline
<1>1. elapsed \in Nat /\ wait \in Nat
  BY Constants DEF TypeOK, Lateness
<1> USE <1>0, Constants DEF WaitInv, LatenessInv, InTime, Exchanges
<1>2. ASSUME NEW n \in 1 .. MaxWire, Receives(n)  PROVE LatenessInv'
  <2>1. at \in {"greeting", "capabilities", "quit"} /\ UNCHANGED <<active, elapsed, deadlineReported>>
    BY <1>2, ReceivesCases
  <2>2. CASE ChunkSkipped(n) \/ ReplyTaken(n)
    BY <1>1, <2>1, <2>2 DEF ChunkSkipped, ReplyTaken
  <2>3. CASE ExchangeEnds(FALSE) \/ QuitAnswered
    BY <1>1, <2>1, <2>3 DEF ExchangeEnds, QuitAnswered
  <2>4. QED
    BY <1>2, <2>2, <2>3, ReceivesCases
<1>3. CASE LoopEnds \/ LoopLooks
  <2>1. CASE LoopEnds
    BY <1>1, <2>1 DEF LoopEnds, clocks
  <2>2. CASE LoopLooks
    BY <1>1, <2>2 DEF LoopLooks, clocks
  <2>3. QED
    BY <1>3, <2>1, <2>2
<1>4. CASE Connects \/ PauseEnds
  <2>1. CASE Connects
    BY <1>1, <2>1 DEF Connects, clocks
  <2>2. CASE PauseEnds
    BY <1>1, <2>2 DEF PauseEnds, clocks
  <2>3. QED
    BY <1>4, <2>1, <2>2
<1>5. CASE ExchangeTimesOut \/ ExchangeFindsNobody \/ ExchangeFails
  <2>1. /\ at' = "check" /\ wait' = 0 /\ at \in Exchanges
        /\ UNCHANGED <<active, elapsed, deadlineReported>>
    BY <1>5, Zenon DEF ExchangeTimesOut, ExchangeFindsNobody, ExchangeFails, ExchangeEnds
  <2>2. QED
    BY <1>1, <2>1
<1>6. CASE ChecksDeadline
  <2>1. active' /\ ~deadlineReported' => at' = "pause" /\ wait' = Pause /\ elapsed' = elapsed /\ ~Overdue /\ ~deadlineReported
    BY <1>6, Zenon DEF ChecksDeadline
  <2>2. QED
    BY <1>1, <2>1 DEF Overdue
<1>7. CASE Tick
  <2>1. elapsed' <= elapsed + 1 /\ elapsed' \in Nat
    BY <1>1, <1>7, MinOfTwo DEF Tick, Lateness
  <2>2. QED
    BY <1>1, <1>7, <2>1 DEF Tick
<1>8. CASE QemuGreets \/ QemuExecutes \/ QemuRefuses \/ QemuEmits
  BY <1>1, <1>8 DEF QemuGreets, QemuExecutes, QemuRefuses, QemuEmits, clocks
<1>9. CASE QemuExecutesOrphan \/ RunnerReturns
  BY <1>1, <1>9 DEF QemuExecutesOrphan, RunnerReturns, clocks
<1>10. QED
  BY <1>2, <1>3, <1>4, <1>5, <1>6, <1>7, <1>8, <1>9 DEF Next, Monitor, Qemu

-----------------------------------------------------------------------------
LEMMA Inductive == Spec => []IInv
<1>1. Init => IInv
  <2> SUFFICES ASSUME Init  PROVE IInv
    OBVIOUS
  <2> USE Constants DEF Init
  <2>1. TypeOK
    <3>1. {active, accepted, deadlineReported, quitSeen, orphan} \subseteq BOOLEAN
      OBVIOUS
    <3>2. elapsed \in 0 .. Deadline + Lateness + 1 /\ wire \in Seq(Lines) /\ Len(wire) <= MaxWire
      BY DEF Lateness
    <3>3. QED
      BY <3>1, <3>2 DEF TypeOK
  <2>2. WireInv /\ WaitInv
    BY DEF WireInv, WaitInv
  <2>3. LatenessInv
    BY DEF LatenessInv, InTime
  <2>4. QED
    BY <2>1, <2>2, <2>3 DEF IInv
<1>2. IInv /\ [Next]_vars => IInv'
  <2> SUFFICES ASSUME IInv, [Next]_vars  PROVE IInv'
    OBVIOUS
  <2>1. CASE Next
    BY <2>1, TypeStep, WireStep, WaitStep, LatenessStep DEF IInv
  <2>2. CASE UNCHANGED vars
    BY <2>2 DEF vars, clocks, socket, IInv, TypeOK, WireInv, WaitInv, LatenessInv, InTime,
      Deadline, Lateness,
      Exchanges
  <2>3. QED
    BY <2>1, <2>2
<1>3. QED
  BY <1>1, <1>2, PTL DEF Spec

(* Whatever QEMU sends and however long each exchange takes: an accepted   *)
(* quit was executed by the core, and a runner that is still alive one     *)
(* exchange and one pause after its deadline has been reported.            *)
THEOREM VerdictIsTrueAlways == Spec => []VerdictIsTrue
<1>1. IInv => VerdictIsTrue
  <2> SUFFICES ASSUME IInv, active, ~deadlineReported  PROVE elapsed <= Deadline + Lateness
    BY Constants DEF IInv, WireInv, VerdictIsTrue, TypeOK, Deadline, Lateness
  <2>1. QED
    BY Constants DEF IInv, TypeOK, WaitInv, LatenessInv, InTime, Lateness, Exchanges
<1>2. QED
  BY <1>1, Inductive, PTL
=============================================================================
