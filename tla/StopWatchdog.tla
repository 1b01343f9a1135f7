----------------------------- MODULE StopWatchdog -----------------------------
(***************************************************************************)
(* The stop monitor of one run with its clock: WaitForVmStop and the QMP    *)
(* quit it escalates to, whose three exchanges (greeting, capabilities,    *)
(* quit) each read replies, events and errors in chunks.  VmRuntime has    *)
(* the same monitor without time and with all the threads around it.       *)
(*                                                                         *)
(* Times are in one unit; clocks stop counting where no guard tells        *)
(* later values apart.  The monitor itself takes no time: only sleeping    *)
(* and waiting for the socket do.                                          *)
(***************************************************************************)
EXTENDS Naturals, Sequences, SequencesExt, FiniteSetsExt

CONSTANTS
  InitialDelay,  (* before the first QMP quit                                *)
  Grace,         (* from there to the deadline                               *)
  RetryGap,      (* between the starts of two exchanges                      *)
  Timeout,       (* of a connect and of each reply                           *)
  Pause,         (* of the loop                                              *)
  MaxFaults,     (* bound on the exchanges QEMU lets fail                    *)
  MaxWire        (* bound on the lines waiting in the socket                 *)

ASSUME WatchdogAssumption ==
  /\ {InitialDelay, Grace, RetryGap, MaxFaults} \subseteq Nat
  /\ {Timeout, Pause, MaxWire} \subseteq Nat \ {0}

VARIABLES
  active,    (* run.IsActive(): the runner has not returned                  *)
  at,        (* where the monitor is                                         *)
  elapsed,   (* time since it started                                        *)
  since,     (* time since its last attempt                                  *)
  wait,      (* how long it still waits at most                              *)
  accepted, deadlineReported,
  wire,      (* the lines QEMU sent over the socket                          *)
  served,    (* what QEMU did with this connection: "no", "greeted", "ready" *)
  request,   (* the command it has not read yet, or "none"                   *)
  quitSeen,  (* QEMU executed a quit                                         *)
  orphan,    (* a quit is left in a socket the monitor has closed            *)
  faults

clocks == <<elapsed, since, wait>>
socket == <<wire, served, request>>
vars == <<active, at, clocks, accepted, deadlineReported, socket, quitSeen, orphan, faults>>

Deadline == InitialDelay + Grace

(* What an exchange and a pause can delay the deadline by.                  *)
Lateness == 4 * Timeout + Pause

Exchanges == {"connect", "greeting", "capabilities", "quit"}
Lines == {"QMP", "event", "capabilities", "quit", "error"}

Init ==
  /\ active = TRUE
  /\ at = "loop"
  /\ elapsed = 0 /\ since = RetryGap /\ wait = 0
  /\ accepted = FALSE /\ deadlineReported = FALSE
  /\ wire = <<>> /\ served = "no" /\ request = "none"
  /\ quitSeen = FALSE /\ orphan = FALSE
  /\ faults = 0

-----------------------------------------------------------------------------
Due == elapsed >= InitialDelay /\ since >= RetryGap

LoopEnds ==
  /\ at = "loop"
  /\ ~active
  /\ at' = "joining"
  /\ UNCHANGED <<active, clocks, accepted, deadlineReported, socket, quitSeen, orphan, faults>>

LoopLooks ==
  /\ at = "loop"
  /\ active
  /\ IF ~accepted /\ Due
     THEN at' = "connect" /\ since' = 0 /\ wait' = Timeout
     ELSE at' = "check" /\ UNCHANGED <<since, wait>>
  /\ UNCHANGED <<active, elapsed, accepted, deadlineReported, socket, quitSeen, orphan, faults>>

(* Mutant: a failed exchange is not tried again.                            *)
ExchangeEndsForGood(ok) ==
  /\ at' = "check"
  /\ accepted' = TRUE
  /\ orphan' = (orphan \/ request = "quit")
  /\ wire' = <<>> /\ served' = "no" /\ request' = "none"
  /\ wait' = 0

(* quit() returns and the socket is closed; QEMU may still find in it the   *)
(* quit that was sent.                                                      *)
ExchangeEnds(ok) ==
  /\ at' = "check"
  /\ accepted' = ok
  /\ orphan' = (orphan \/ request = "quit")
  /\ wire' = <<>> /\ served' = "no" /\ request' = "none"
  /\ wait' = 0

ExchangeTimesOut ==
  /\ at \in Exchanges
  /\ wait = 0
  /\ ExchangeEnds(FALSE)
  /\ UNCHANGED <<active, elapsed, since, deadlineReported, quitSeen, faults>>

(* The connection is refused or lost.                                       *)
ExchangeFails ==
  /\ at \in Exchanges
  /\ faults < MaxFaults
  /\ faults' = faults + 1
  /\ ExchangeEnds(FALSE)
  /\ UNCHANGED <<active, elapsed, since, deadlineReported, quitSeen>>

(* Nobody listens any more.                                                 *)
ExchangeFindsNobody ==
  /\ at \in Exchanges
  /\ ~active
  /\ ExchangeEnds(FALSE)
  /\ UNCHANGED <<active, elapsed, since, deadlineReported, quitSeen, faults>>

Connects ==
  /\ at = "connect"
  /\ active
  /\ at' = "greeting"
  /\ wait' = Timeout
  /\ UNCHANGED <<active, elapsed, since, accepted, deadlineReported, socket, quitSeen, orphan, faults>>

(* Mutant: any line that comes back is taken for the reply.                 *)
AwaitedAny(line) == TRUE

(* A reply or an event ends the wait of its exchange, or is skipped.  What  *)
(* was read in the same chunk behind the awaited line is dropped.           *)
Awaited(line) ==
  line = (IF at = "greeting" THEN "QMP" ELSE at) \/ (line = "error" /\ at # "greeting")

(* The first awaited line of a chunk, 0 if there is none.                   *)
FirstAwaited(chunk) == SelectInSeq(chunk, Awaited)

Receives(n) ==
  /\ at \in {"greeting", "capabilities", "quit"}
  /\ n \in 1 .. Len(wire)
  /\ LET found == FirstAwaited(SubSeq(wire, 1, n))
     IN  \/ /\ found = 0
            /\ wire' = SubSeq(wire, n + 1, Len(wire))
            /\ UNCHANGED <<at, wait, accepted, served, request, orphan>>
         \/ found # 0 /\ wire[found] = "error" /\ ExchangeEnds(FALSE)
         \/ found # 0 /\ wire[found] # "error" /\ at = "quit" /\ ExchangeEnds(TRUE)
         \/ /\ found # 0 /\ wire[found] # "error" /\ at # "quit"
            /\ wire' = SubSeq(wire, n + 1, Len(wire))
            /\ at' = IF at = "greeting" THEN "capabilities" ELSE "quit"
            /\ request' = at'
            /\ wait' = Timeout
            /\ UNCHANGED <<accepted, served, orphan>>
  /\ UNCHANGED <<active, elapsed, since, deadlineReported, quitSeen, faults>>

(* The end of an exchange, then the deadline, whatever the exchange said.   *)
Overdue == ~deadlineReported /\ elapsed >= Deadline

ChecksDeadline ==
  /\ at = "check"
  /\ IF active
     THEN /\ deadlineReported' = (deadlineReported \/ Overdue)
          /\ at' = "pause" /\ wait' = Pause
     ELSE at' = "joining" /\ UNCHANGED <<deadlineReported, wait>>
  /\ UNCHANGED <<active, elapsed, since, accepted, socket, quitSeen, orphan, faults>>

PauseEnds ==
  /\ at = "pause"
  /\ wait = 0
  /\ at' = "loop"
  /\ UNCHANGED <<active, clocks, accepted, deadlineReported, socket, quitSeen, orphan, faults>>

Tick ==
  /\ wait > 0
  /\ wait' = wait - 1
  /\ IF at \in Exchanges /\ wait' = 0
     THEN faults < MaxFaults /\ faults' = faults + 1
     ELSE UNCHANGED faults
  /\ elapsed' = Min({elapsed + 1, Deadline + Lateness + 1})
  /\ since' = Min({since + 1, RetryGap})
  /\ UNCHANGED <<active, at, accepted, deadlineReported, socket, quitSeen, orphan>>

-----------------------------------------------------------------------------
(* QEMU serves one monitor connection at a time and executes its commands   *)
(* in order; commands before qmp_capabilities are refused.                  *)
QemuSends(line) == Len(wire) < MaxWire /\ wire' = Append(wire, line)

QemuGreets ==
  /\ active
  /\ at = "greeting" /\ served = "no"
  /\ QemuSends("QMP")
  /\ served' = "greeted"
  /\ UNCHANGED <<active, at, clocks, accepted, deadlineReported, request, quitSeen, orphan, faults>>

QemuExecutes ==
  /\ active
  /\ request # "none"
  /\ request' = "none"
  /\ QemuSends(IF request = "quit" /\ served # "ready" THEN "error" ELSE request)
  /\ served' = "ready"
  /\ quitSeen' = (quitSeen \/ (request = "quit" /\ served = "ready"))
  /\ UNCHANGED <<active, at, clocks, accepted, deadlineReported, orphan, faults>>

QemuRefuses ==
  /\ active
  /\ request # "none"
  /\ faults < MaxFaults /\ faults' = faults + 1
  /\ request' = "none"
  /\ QemuSends("error")
  /\ UNCHANGED <<active, at, clocks, accepted, deadlineReported, served, quitSeen, orphan>>

QemuEmits ==
  /\ active
  /\ served # "no"
  /\ Len(wire) + 1 < MaxWire
  /\ QemuSends("event")
  /\ UNCHANGED <<active, at, clocks, accepted, deadlineReported, served, request, quitSeen,
                 orphan, faults>>

QemuExecutesOrphan ==
  /\ active
  /\ orphan
  /\ orphan' = FALSE
  /\ quitSeen' = TRUE
  /\ UNCHANGED <<active, at, clocks, accepted, deadlineReported, socket, faults>>

(* The guest powers off, the core fails, or the quit takes effect.          *)
RunnerReturns ==
  /\ active
  /\ active' = FALSE
  /\ UNCHANGED <<at, clocks, accepted, deadlineReported, socket, quitSeen, orphan, faults>>

Monitor ==
  \/ LoopEnds \/ LoopLooks \/ Connects \/ ExchangeTimesOut \/ ExchangeFindsNobody
  \/ (\E n \in 1 .. MaxWire : Receives(n)) \/ ChecksDeadline \/ PauseEnds

Qemu == QemuGreets \/ QemuExecutes

Next ==
  \/ Monitor \/ ExchangeFails \/ Tick
  \/ Qemu \/ QemuRefuses \/ QemuEmits \/ QemuExecutesOrphan
  \/ RunnerReturns

Spec == Init /\ [][Next]_vars

(* The monitor thread runs, time passes and QEMU serves its monitor socket. *)
(* Nothing obliges the guest to power off.                                  *)
FairSpec ==
  Spec /\ WF_vars(Monitor) /\ WF_vars(Tick) /\ WF_vars(Qemu)

-----------------------------------------------------------------------------
(* Types; outside an exchange no connection is left open.                   *)
TypeOK ==
  /\ active \in BOOLEAN
  /\ at \in Exchanges \cup {"loop", "check", "pause", "joining"}
  /\ elapsed \in 0 .. Deadline + Lateness + 1
  /\ since \in 0 .. RetryGap
  /\ wait \in 0 .. Timeout + Pause
  /\ accepted \in BOOLEAN /\ deadlineReported \in BOOLEAN
  /\ wire \in Seq(Lines) /\ Len(wire) <= MaxWire
  /\ served \in {"no", "greeted", "ready"}
  /\ request \in {"none", "capabilities", "quit"}
  /\ quitSeen \in BOOLEAN /\ orphan \in BOOLEAN
  /\ faults \in 0 .. MaxFaults
  /\ at \notin Exchanges => wire = <<>> /\ served = "no" /\ request = "none"

(* Only a quit that QEMU executed counts as accepted, "rather than treating *)
(* an event, a partial write or a closed socket as accepted shutdown".  "A  *)
(* synchronous QMP exchange can delay that check" of the deadline, but no   *)
(* longer than one exchange and one pause: a runner that still runs then is *)
(* reported.                                                                *)
VerdictIsTrue ==
  /\ TypeOK
  /\ accepted => quitSeen
  /\ active /\ elapsed > Deadline + Lateness => deadlineReported

(* Failed exchanges are retried: a guest that ignores the power-down gets   *)
(* its quit, if QEMU answers in time often enough.                          *)
StopEscalates == <>(quitSeen \/ ~active)
=============================================================================
