-------------------------- MODULE MicrophoneProofs --------------------------
(***************************************************************************)
(* The microphone policy, for any windows, signals, VMs and number of runs *)
(* of them: capture is visible, a request has its window, the gate opens   *)
(* only for the run the user last asked for and a handoff resumes at its   *)
(* target.  Every step is shown to keep one invariant of the whole record: *)
(* a record is closed by the same operators from wherever it stands, so    *)
(* the lemmas are about those operators and the actions only cite them.    *)
(***************************************************************************)
EXTENDS MicrophoneManager, TLAPS

-----------------------------------------------------------------------------
Statuses == {"disabled", "requesting", "suspended", "armed", "blocked", "error", "denied",
             "unavailable"}

Policy ==
  [mic : Session, fault : Faults,
   windows : [Windows -> [open : BOOLEAN, vm : VMs \cup {NoVm}, session : Generations,
                          up : SUBSET Signals]],
   handoff : [source : Windows \cup {NoWindow}, target : Windows \cup {NoWindow},
              vm : VMs \cup {NoVm}, session : Generations],
   appForeground : BOOLEAN, guardsReady : BOOLEAN, screenBlocked : BOOLEAN,
   screenActive : BOOLEAN, launch : {"none", "held", "reset"},
   preflight : [owner : Windows \cup {NoWindow}, vm : VMs \cup {NoVm}, session : Generations],
   requestOwner : Windows \cup {NoWindow}, vm : VMs \cup {NoVm}, session : Generations,
   enabled : BOOLEAN, status : Statuses, foreground : BOOLEAN,
   task : TaskType({"enable", "resume"}), sync : TaskType({"enabled", "suspended"}),
   asked : Consents]

(* The consent can close what it opened.                                   *)
Closable(s) ==
  s.mic.gate => /\ s.mic.active /\ s.mic.bound
                /\ s.vm = s.mic.name /\ s.session = s.mic.generation

Live(s, vm, session) == session > 0 /\ SessionOf(s.mic, vm) = session

PreflightInv(s) ==
  s.preflight.owner # NoWindow =>
    /\ s.requestOwner = s.preflight.owner
    /\ s.session = 0 /\ ~s.enabled /\ s.status # "suspended"
    /\ s.preflight.session <= s.mic.generation
    /\ Live(s, s.preflight.vm, s.preflight.session) =>
         s.asked = [vm |-> s.preflight.vm, session |-> s.preflight.session]

(* What holds even before a step has reconciled the consent with the       *)
(* windows.                                                                *)
Weak(s) ==
  /\ s \in Policy
  /\ s.handoff = NoHandoff <=> s.handoff.source = NoWindow
  /\ s.mic.active => s.mic.generation > 0
  /\ s.session <= s.mic.generation
  /\ Closable(s) /\ PreflightInv(s)

TaskInv(s) ==
  /\ s.task.current =>
       /\ s.task.vm = s.vm /\ s.task.session = s.session /\ s.session # 0
       /\ Busy(s)
       /\ s.task.kind = "enable" => s.status = "requesting" /\ ~s.enabled
       /\ s.task.kind = "resume" => s.status = "suspended"
  /\ s.sync.current => s.sync.vm = s.vm /\ s.sync.session = s.session /\ s.session # 0
  /\ Busy(s) => ~s.sync.current

SuspendedInv(s) ==
  s.status = "suspended" =>
    /\ ~s.enabled /\ ~s.mic.gate
    /\ Busy(s) => s.task.kind = "resume" /\ s.task.current

AskedInv(s) ==
  Live(s, s.vm, s.session) /\ (\/ s.task.kind = "enable" /\ s.task.current
                               \/ (s.enabled \/ s.status = "suspended") /\ s.fault = "none") =>
    s.asked = [vm |-> s.vm, session |-> s.session]

HandoffInv(s) ==
  s.status = "suspended" /\ ~Busy(s) =>
    s.handoff.source # NoWindow /\ s.handoff.vm = s.vm /\ s.handoff.session = s.session

GateInv(s) ==
  s.mic.gate =>
    /\ s.enabled /\ s.appForeground /\ s.guardsReady /\ ~s.screenBlocked
    /\ \E w \in Windows : Shown(s, w, s.mic.name, s.mic.generation)

RequestInv(s) ==
  s.task.kind = "enable" /\ s.task.current =>
    Shown(s, s.requestOwner, s.task.vm, s.task.session)

(* What every step keeps.                                                  *)
Inv(s) ==
  /\ Weak(s) /\ TaskInv(s) /\ SuspendedInv(s) /\ AskedInv(s)
  /\ HandoffInv(s) /\ GateInv(s) /\ RequestInv(s)

-----------------------------------------------------------------------------
(* Closing.                                                                *)

(* The consent closes the gate, whatever the state of the session.         *)
LEMMA CloseNativeEffect ==
  ASSUME NEW s \in Policy, Closable(s)
  PROVE  /\ CloseNative(s) = [s EXCEPT !.mic = [s.mic EXCEPT !.gate = FALSE]]
         /\ CloseNative(s) \in Policy
<1>1. s.mic \in Session /\ s.mic = [s.mic EXCEPT !.gate = s.mic.gate]
  BY DEF Policy, Session
<1>2. Enable(s.mic, s.vm, s.session, FALSE) = [s.mic EXCEPT !.gate = FALSE]
  <2>1. CASE MayEnable(s.mic, s.vm, s.session)
    BY <2>1 DEF Enable
  <2>2. CASE ~MayEnable(s.mic, s.vm, s.session)
    <3>1. s.mic.gate = FALSE
      BY <2>2, <1>1 DEF MayEnable, Closable, Session
    <3>2. QED
      BY <2>2, <3>1, <1>1 DEF Enable
  <2>3. QED
    BY <2>1, <2>2
<1>3. [s.mic EXCEPT !.gate = FALSE] \in Session
  BY <1>1 DEF Session
<1>4. QED
  BY <1>2, <1>3 DEF CloseNative, Policy

(* A consent without session, whose tasks were cancelled.                  *)
Shut(s, status, handoff) ==
  [s EXCEPT !.mic = [s.mic EXCEPT !.gate = FALSE], !.task = Stale(s.task),
            !.sync = Stale(s.sync), !.session = 0, !.enabled = FALSE,
            !.status = status, !.handoff = handoff]

KeptHandoff(s) == IF Busy(s) THEN s.handoff ELSE NoHandoff

LEMMA StaleType ==
  ASSUME NEW kinds, NEW t \in TaskType(kinds)
  PROVE  Stale(t) \in TaskType(kinds) /\ Stale(t).kind = t.kind /\ ~Stale(t).current
<1>1. 0 \in Generations
  BY GenAssumption DEF Generations
<1>2. QED
  BY <1>1 DEF Stale, TaskType

(* What disableConsent of MicrophoneConsent.ets leaves.                    *)
LEMMA DisableEffect ==
  ASSUME NEW s \in Policy, Closable(s)
  PROVE  DisableConsent(s) = Shut(s, "disabled", KeptHandoff(s))
<1> DEFINE n == [s EXCEPT !.task = Stale(s.task), !.sync = Stale(s.sync)]
           c == [n EXCEPT !.mic = [s.mic EXCEPT !.gate = FALSE]]
           d == [c EXCEPT !.session = 0, !.enabled = FALSE, !.status = "disabled"]
<1>1. NextGenerationOf(s) = n
  BY DEF NextGenerationOf
<1>2. /\ n \in Policy /\ n.mic = s.mic /\ n.vm = s.vm /\ n.session = s.session
      /\ n.task.kind = s.task.kind
  <2>1. s.task \in TaskType({"enable", "resume"}) /\ s.sync \in TaskType({"enabled", "suspended"})
    BY DEF Policy
  <2>2. /\ Stale(s.task) \in TaskType({"enable", "resume"})
        /\ Stale(s.sync) \in TaskType({"enabled", "suspended"})
        /\ Stale(s.task).kind = s.task.kind
    BY <2>1, StaleType
  <2>3. QED
    BY <2>2 DEF Policy
<1>3. Closable(n)
  BY <1>2 DEF Closable
<1>4. CloseNative(n) = c
  <2> HIDE DEF n
  <2> QED
    BY <1>2, <1>3, CloseNativeEffect
<1>5. DisableConsent(s) = Publish(d)
  BY <1>1, <1>4 DEF DisableConsent
<1>6. ~d.enabled /\ d.status # "suspended" /\ (Busy(d) <=> Busy(s)) /\ d.handoff = s.handoff
  BY <1>2 DEF Busy, Policy
<1>7. Publish(d) = [d EXCEPT !.handoff = KeptHandoff(s)]
  <2>1. CASE Busy(s)
    <3>1. [d EXCEPT !.handoff = KeptHandoff(s)] = d
      BY <2>1, <1>6 DEF KeptHandoff, Policy
    <3> HIDE DEF d
    <3>2. QED
      BY <1>6, <2>1, <3>1 DEF Publish, KeptHandoff
  <2>2. CASE ~Busy(s)
    <3> HIDE DEF d
    <3>1. QED
      BY <1>6, <2>2 DEF Publish, KeptHandoff, CancelHandoff
  <2>3. QED
    BY <2>1, <2>2
<1>8. QED
  BY <1>5, <1>7 DEF Shut

(* A closed record is a record of the policy.                              *)
LEMMA ShutType ==
  ASSUME NEW s \in Policy, NEW status \in Statuses, NEW h \in {s.handoff, NoHandoff}
  PROVE  /\ Shut(s, status, h) \in Policy
         /\ Busy(Shut(s, status, h)) <=> Busy(s)
<1>1. 0 \in Generations
  BY GenAssumption DEF Generations
<1>2. /\ Stale(s.task) \in TaskType({"enable", "resume"}) /\ Stale(s.task).kind = s.task.kind
      /\ Stale(s.sync) \in TaskType({"enabled", "suspended"})
  <2>1. s.task \in TaskType({"enable", "resume"}) /\ s.sync \in TaskType({"enabled", "suspended"})
    BY DEF Policy
  <2>2. QED
    BY <2>1, StaleType
<1>3. [s.mic EXCEPT !.gate = FALSE] \in Session
  BY DEF Policy, Session
<1>4. h \in [source : Windows \cup {NoWindow}, target : Windows \cup {NoWindow},
             vm : VMs \cup {NoVm}, session : Generations]
  BY <1>1 DEF Policy, NoHandoff
<1>5. Shut(s, status, h) \in Policy
  <2> DEFINE m == [s.mic EXCEPT !.gate = FALSE]
             t == Stale(s.task)
             y == Stale(s.sync)
  <2> HIDE DEF m, t, y
  <2>1. [s EXCEPT !.mic = m, !.task = t, !.sync = y, !.session = 0, !.enabled = FALSE,
                  !.status = status, !.handoff = h] \in Policy
    BY <1>1, <1>2, <1>3, <1>4 DEF m, t, y, Policy
  <2>2. QED
    BY <2>1 DEF Shut, m, t, y
<1>6. Shut(s, status, h).task = Stale(s.task)
  BY DEF Shut, Policy
<1>7. QED
  BY <1>2, <1>5, <1>6 DEF Busy

(* The same with a status that tells why.                                  *)
LEMMA FailEffect ==
  ASSUME NEW s \in Policy, Closable(s), NEW status \in Statuses \ {"suspended"}
  PROVE  FailConsent(s, status) = Shut(s, status, KeptHandoff(s))
<1> DEFINE d == Shut(s, "disabled", KeptHandoff(s))
           f == [d EXCEPT !.status = status]
<1>1. DisableConsent(s) = d
  BY DisableEffect
<1>2. d \in Policy /\ (Busy(d) <=> Busy(s))
  BY ShutType DEF KeptHandoff, Statuses
<1>3. /\ f.status # "suspended" /\ ~f.enabled /\ f.handoff = KeptHandoff(s)
      /\ f.handoff = d.handoff /\ (Busy(f) <=> Busy(s))
  BY <1>2 DEF Shut, Policy, Busy
<1>4. f = Shut(s, status, KeptHandoff(s))
  BY <1>2 DEF Shut, Policy
<1>5. [f EXCEPT !.handoff = f.handoff] = f
  BY <1>2 DEF Policy
<1> HIDE DEF f, d
<1>6. Publish(f) = f
  BY <1>3, <1>5 DEF Publish, CancelHandoff, KeptHandoff
<1>7. QED
  BY <1>1, <1>4, <1>6 DEF FailConsent, f, d

(* Closing keeps every part of the invariant, whatever the windows show.   *)
LEMMA ShutInv ==
  ASSUME NEW s, Weak(s), NEW status \in Statuses \ {"suspended"},
         NEW h \in {s.handoff, NoHandoff}
  PROVE  Inv(Shut(s, status, h))
<1> DEFINE r == Shut(s, status, h)
<1>1. r \in Policy /\ s \in Policy
  BY ShutType DEF Weak
<1>2. /\ r.mic = [s.mic EXCEPT !.gate = FALSE] /\ r.session = 0 /\ ~r.enabled /\ r.status = status
      /\ ~r.task.current /\ ~r.sync.current /\ r.handoff = h
      /\ r.preflight = s.preflight /\ r.requestOwner = s.requestOwner /\ r.asked = s.asked
      /\ r.vm = s.vm
  BY <1>1 DEF Shut, Policy, Stale, TaskType
<1>3. /\ ~r.mic.gate /\ r.mic.active = s.mic.active /\ r.mic.generation = s.mic.generation
      /\ r.mic.name = s.mic.name
      /\ s.mic.generation \in Nat
  BY <1>1, <1>2 DEF Policy, Session, Generations
<1>4. Weak(r)
  <2>1. r.handoff = NoHandoff <=> r.handoff.source = NoWindow
    BY <1>2 DEF Weak, NoHandoff
  <2>2. PreflightInv(r)
    BY <1>2, <1>3 DEF Weak, PreflightInv, Live, SessionOf
  <2>3. QED
    BY <1>1, <1>2, <1>3, <2>1, <2>2 DEF Weak, Closable
<1>5. QED
  BY <1>2, <1>3, <1>4 DEF Inv, TaskInv, SuspendedInv, AskedInv, HandoffInv, GateInv, RequestInv,
    Live

(* Parts of the policy that no part of the invariant looks at.             *)
LEMMA FrameInv ==
  ASSUME NEW s, NEW r \in Policy,
         r.mic = s.mic, r.fault = s.fault, r.windows = s.windows, r.handoff = s.handoff,
         r.appForeground = s.appForeground, r.guardsReady = s.guardsReady,
         r.screenBlocked = s.screenBlocked, r.preflight = s.preflight,
         r.requestOwner = s.requestOwner, r.vm = s.vm, r.session = s.session,
         r.enabled = s.enabled, r.status = s.status, r.task = s.task, r.sync = s.sync,
         r.asked = s.asked
  PROVE  (Weak(s) => Weak(r)) /\ (Inv(s) => Inv(r))
<1>1. Weak(s) => Weak(r)
  BY DEF Weak, Closable, PreflightInv, Live, SessionOf
<1>2. (TaskInv(s) => TaskInv(r)) /\ (SuspendedInv(s) => SuspendedInv(r))
      /\ (HandoffInv(s) => HandoffInv(r))
  BY DEF TaskInv, SuspendedInv, HandoffInv, Busy
<1>3. AskedInv(s) => AskedInv(r)
  BY DEF AskedInv, Live, SessionOf
<1>4. (GateInv(s) => GateInv(r)) /\ (RequestInv(s) => RequestInv(r))
  BY DEF GateInv, RequestInv, Shown
<1>5. QED
  BY <1>1, <1>2, <1>3, <1>4 DEF Inv

(* A handoff that no suspended consent waits for may go.                   *)
LEMMA CancelInv ==
  ASSUME NEW s, s \in Policy
  PROVE  /\ CancelHandoff(s) \in Policy
         /\ Weak(s) => Weak(CancelHandoff(s))
         /\ Inv(s) /\ (s.status = "suspended" => Busy(s)) => Inv(CancelHandoff(s))
<1> DEFINE r == CancelHandoff(s)
<1>1. r \in Policy
  <2>1. NoHandoff \in [source : Windows \cup {NoWindow}, target : Windows \cup {NoWindow},
                       vm : VMs \cup {NoVm}, session : Generations]
    BY GenAssumption DEF NoHandoff, Generations
  <2>2. QED
    BY <2>1 DEF CancelHandoff, Policy
<1>2. /\ r.mic = s.mic /\ r.fault = s.fault /\ r.windows = s.windows /\ r.handoff = NoHandoff
      /\ r.appForeground = s.appForeground /\ r.guardsReady = s.guardsReady
      /\ r.screenBlocked = s.screenBlocked /\ r.preflight = s.preflight
      /\ r.requestOwner = s.requestOwner /\ r.vm = s.vm /\ r.session = s.session
      /\ r.enabled = s.enabled /\ r.status = s.status /\ r.task = s.task /\ r.sync = s.sync
      /\ r.asked = s.asked
  BY DEF CancelHandoff, Policy
<1> HIDE DEF r
<1>3. Weak(s) => Weak(r)
  BY <1>1, <1>2 DEF Weak, Closable, PreflightInv, Live, SessionOf, NoHandoff
<1>4. /\ TaskInv(s) => TaskInv(r)
      /\ SuspendedInv(s) => SuspendedInv(r)
      /\ (s.status = "suspended" => Busy(s)) => HandoffInv(r)
  BY <1>2 DEF TaskInv, SuspendedInv, HandoffInv, Busy
<1>5. AskedInv(s) => AskedInv(r)
  BY <1>2 DEF AskedInv, Live, SessionOf
<1>6. (GateInv(s) => GateInv(r)) /\ (RequestInv(s) => RequestInv(r))
  BY <1>2 DEF GateInv, RequestInv, Shown
<1>7. QED
  BY <1>1, <1>3, <1>4, <1>5, <1>6 DEF Inv, r

(* The publish callback of MicrophoneManager.ets.                          *)
LEMMA PublishInv ==
  ASSUME NEW s, Inv(s)
  PROVE  /\ Inv(Publish(s))
         /\ Publish(s) \in {s, CancelHandoff(s)}
         /\ s.status = "suspended" \/ s.enabled \/ Busy(s) => Publish(s) = s
<1>1. s \in Policy
  BY DEF Inv, Weak
<1>2. QED
  BY <1>1, CancelInv DEF Publish

(* A new epoch cancels the preflight and the handoff.                      *)
LEMMA EpochWeak ==
  ASSUME NEW s, Weak(s), NEW b \in BOOLEAN
  PROVE  LET r == [NextEpoch(s) EXCEPT !.foreground = b]
         IN /\ Weak(r) /\ r.handoff = NoHandoff /\ r.preflight = NoPreflight
            /\ r.task.kind = s.task.kind /\ r.mic = s.mic /\ r.asked = s.asked
            /\ r.windows = s.windows
<1> DEFINE t == [s EXCEPT !.task = [s.task EXCEPT !.epoch = FALSE],
                          !.sync = [s.sync EXCEPT !.epoch = FALSE],
                          !.preflight = NoPreflight, !.launch = "none"]
           r == [NextEpoch(s) EXCEPT !.foreground = b]
<1>1. s \in Policy
  BY DEF Weak
<1>2. NextEpoch(s) = CancelHandoff(t)
  BY DEF NextEpoch
<1>3. t \in Policy /\ t.preflight = NoPreflight /\ t.task.kind = s.task.kind
  <2>1. [s.task EXCEPT !.epoch = FALSE] \in TaskType({"enable", "resume"})
    BY <1>1 DEF Policy, TaskType
  <2>2. [s.sync EXCEPT !.epoch = FALSE] \in TaskType({"enabled", "suspended"})
    BY <1>1 DEF Policy, TaskType
  <2>3. NoPreflight \in [owner : Windows \cup {NoWindow}, vm : VMs \cup {NoVm},
                         session : Generations]
    BY GenAssumption DEF NoPreflight, Generations
  <2>4. t \in Policy /\ t.task = [s.task EXCEPT !.epoch = FALSE] /\ t.preflight = NoPreflight
    BY <1>1, <2>1, <2>2, <2>3 DEF Policy
  <2>5. [s.task EXCEPT !.epoch = FALSE].kind = s.task.kind
    BY <1>1 DEF Policy, TaskType
  <2>6. QED
    BY <2>4, <2>5
<1>4. /\ t.mic = s.mic /\ t.handoff = s.handoff /\ t.session = s.session /\ t.vm = s.vm
      /\ t.asked = s.asked /\ t.windows = s.windows
  BY <1>1 DEF Policy
<1> HIDE DEF t
<1>5. Weak(t)
  BY <1>3, <1>4 DEF Weak, Closable, PreflightInv, NoPreflight
<1>6. Weak(CancelHandoff(t)) /\ CancelHandoff(t) \in Policy
  BY <1>5, CancelInv DEF Weak
<1> DEFINE c == CancelHandoff(t)
<1>7. /\ c.handoff = NoHandoff /\ c.preflight = NoPreflight /\ c.task.kind = s.task.kind
      /\ c.mic = s.mic /\ c.asked = s.asked /\ c.windows = s.windows
  BY <1>3, <1>4 DEF CancelHandoff, Policy
<1> HIDE DEF c
<1>8. LET q == [c EXCEPT !.foreground = b]
      IN /\ q \in Policy
         /\ q.mic = c.mic /\ q.fault = c.fault /\ q.windows = c.windows /\ q.handoff = c.handoff
         /\ q.appForeground = c.appForeground /\ q.guardsReady = c.guardsReady
         /\ q.screenBlocked = c.screenBlocked /\ q.preflight = c.preflight
         /\ q.requestOwner = c.requestOwner /\ q.vm = c.vm /\ q.session = c.session
         /\ q.enabled = c.enabled /\ q.status = c.status /\ q.task = c.task /\ q.sync = c.sync
         /\ q.asked = c.asked
  BY <1>6 DEF Policy, c
<1>9. Weak([c EXCEPT !.foreground = b])
  BY <1>6, <1>8, FrameInv DEF c
<1>10. QED
  BY <1>2, <1>7, <1>8, <1>9 DEF c

(* r is what closing s leaves.                                             *)
ShutFrom(r, s) ==
  /\ Inv(r) /\ ~r.mic.gate /\ r.session = 0 /\ ~r.enabled /\ r.status # "suspended"
  /\ r.task.kind = s.task.kind /\ r.asked = s.asked
  /\ r.windows = s.windows

LEMMA ShutIsShut ==
  ASSUME NEW s, Weak(s), NEW status \in Statuses \ {"suspended"},
         NEW h \in {s.handoff, NoHandoff}
  PROVE  ShutFrom(Shut(s, status, h), s)
<1>1. s \in Policy
  BY DEF Weak
<1>2. LET r == Shut(s, status, h)
      IN /\ ~r.mic.gate /\ r.session = 0 /\ ~r.enabled /\ r.status # "suspended"
         /\ r.asked = s.asked /\ r.windows = s.windows
  BY <1>1 DEF Shut, Policy, Session
<1>3. Shut(s, status, h).task.kind = s.task.kind
  <2>1. Shut(s, status, h).task = Stale(s.task)
    BY <1>1 DEF Shut, Policy
  <2>2. Stale(s.task).kind = s.task.kind
    BY <1>1 DEF Stale, Policy, TaskType
  <2>3. QED
    BY <2>1, <2>2
<1>4. QED
  BY <1>2, <1>3, ShutInv DEF ShutFrom

LEMMA DisableShuts ==
  ASSUME NEW s, Weak(s)
  PROVE  ShutFrom(DisableConsent(s), s)
<1>1. "disabled" \in Statuses \ {"suspended"} /\ KeptHandoff(s) \in {s.handoff, NoHandoff}
  BY DEF Statuses, KeptHandoff
<1>2. DisableConsent(s) = Shut(s, "disabled", KeptHandoff(s))
  BY DisableEffect DEF Weak
<1>3. QED
  BY <1>1, <1>2, ShutIsShut

LEMMA FailShuts ==
  ASSUME NEW s, Weak(s), NEW status \in Statuses \ {"suspended"}
  PROVE  ShutFrom(FailConsent(s, status), s)
<1>1. KeptHandoff(s) \in {s.handoff, NoHandoff}
  BY DEF KeptHandoff
<1>2. FailConsent(s, status) = Shut(s, status, KeptHandoff(s))
  BY FailEffect DEF Weak
<1>3. QED
  BY <1>1, <1>2, ShutIsShut

LEMMA HardCloseShuts ==
  ASSUME NEW s, Weak(s)
  PROVE  /\ ShutFrom(HardClose(s), s)
         /\ HardClose(s).preflight = NoPreflight /\ HardClose(s).handoff = NoHandoff
<1> DEFINE e == [NextEpoch(s) EXCEPT !.foreground = FALSE]
<1>1. /\ Weak(e) /\ e.handoff = NoHandoff /\ e.preflight = NoPreflight
      /\ e.task.kind = s.task.kind /\ e.mic = s.mic /\ e.asked = s.asked
      /\ e.windows = s.windows
  BY EpochWeak
<1>2. HardClose(s) = DisableConsent(e)
  BY DEF HardClose
<1> HIDE DEF e
<1>3. ShutFrom(DisableConsent(e), e)
  BY <1>1, DisableShuts
<1>4. DisableConsent(e) = Shut(e, "disabled", NoHandoff)
  BY <1>1, DisableEffect DEF Weak, KeptHandoff
<1>5. /\ Shut(e, "disabled", NoHandoff).preflight = NoPreflight
      /\ Shut(e, "disabled", NoHandoff).handoff = NoHandoff
  BY <1>1 DEF Shut, Weak, Policy
<1>6. QED
  BY <1>1, <1>2, <1>3, <1>4, <1>5 DEF ShutFrom

LEMMA CancelConsentShuts ==
  ASSUME NEW s, Weak(s)
  PROVE  /\ ShutFrom(CancelConsent(s), s)
         /\ CancelConsent(s).preflight = NoPreflight /\ CancelConsent(s).handoff = NoHandoff
<1> DEFINE e == [NextEpoch(s) EXCEPT !.foreground = s.foreground]
<1>1. /\ Weak(e) /\ e.handoff = NoHandoff /\ e.preflight = NoPreflight
      /\ e.task.kind = s.task.kind /\ e.mic = s.mic /\ e.asked = s.asked
      /\ e.windows = s.windows
  <2>1. s.foreground \in BOOLEAN
    BY DEF Weak, Policy
  <2>2. QED
    BY <2>1, EpochWeak
<1>2. e = NextEpoch(s)
  BY DEF Weak, Policy, NextEpoch, CancelHandoff
<1> HIDE DEF e
<1>3. ShutFrom(DisableConsent(e), e)
  BY <1>1, DisableShuts
<1>4. DisableConsent(e) = Shut(e, "disabled", NoHandoff)
  BY <1>1, DisableEffect DEF Weak, KeptHandoff
<1>5. /\ Shut(e, "disabled", NoHandoff).preflight = NoPreflight
      /\ Shut(e, "disabled", NoHandoff).handoff = NoHandoff
  BY <1>1 DEF Shut, Weak, Policy
<1>6. QED
  BY <1>1, <1>2, <1>3, <1>4, <1>5 DEF ShutFrom, CancelConsent

(* The user has to ask again: safe once nothing can open the gate.         *)
LEMMA HardStopInv ==
  ASSUME NEW s, Inv(s), s.preflight.owner = NoWindow \/ ~s.mic.active,
         \/ ~s.mic.active
         \/ s.session = 0
         \/ s.fault # "none" /\ ~(s.task.kind = "enable" /\ s.task.current)
  PROVE  Inv(HardStop(s))
<1> DEFINE r == HardStop(s)
<1>1. s \in Policy /\ r \in Policy
  BY GenAssumption DEF Inv, Weak, HardStop, Policy, NoSession, Consents, Generations
<1>2. /\ r.mic = s.mic /\ r.fault = s.fault /\ r.windows = s.windows /\ r.handoff = s.handoff
      /\ r.appForeground = s.appForeground /\ r.guardsReady = s.guardsReady
      /\ r.screenBlocked = s.screenBlocked /\ r.preflight = s.preflight
      /\ r.requestOwner = s.requestOwner /\ r.vm = s.vm /\ r.session = s.session
      /\ r.enabled = s.enabled /\ r.status = s.status /\ r.task = s.task /\ r.sync = s.sync
  BY <1>1 DEF HardStop, Policy
<1> HIDE DEF r
<1>3. Weak(r)
  BY <1>1, <1>2 DEF Inv, Weak, Closable, PreflightInv, Live, SessionOf
<1>4. TaskInv(r) /\ SuspendedInv(r) /\ HandoffInv(r)
  BY <1>2 DEF Inv, TaskInv, SuspendedInv, HandoffInv, Busy
<1>5. AskedInv(r)
  BY <1>1, <1>2 DEF Inv, AskedInv, Live, SessionOf, Policy, Generations
<1>6. GateInv(r) /\ RequestInv(r)
  BY <1>2 DEF Inv, GateInv, RequestInv, Shown
<1>7. QED
  BY <1>3, <1>4, <1>5, <1>6 DEF Inv, r

LEMMA SetForegroundInv ==
  ASSUME NEW s, Inv(s)
  PROVE  LET r == [s EXCEPT !.foreground = TRUE]
         IN /\ Inv(r) /\ SetForeground(s, TRUE) \in {r, CancelHandoff(r)}
            /\ Inv(SetForeground(s, TRUE))
<1> DEFINE r == [s EXCEPT !.foreground = TRUE]
<1>1. s \in Policy
  BY DEF Inv, Weak
<1>2. /\ r \in Policy /\ r.mic = s.mic /\ r.fault = s.fault /\ r.windows = s.windows
      /\ r.handoff = s.handoff /\ r.appForeground = s.appForeground
      /\ r.guardsReady = s.guardsReady
      /\ r.screenBlocked = s.screenBlocked /\ r.preflight = s.preflight
      /\ r.requestOwner = s.requestOwner /\ r.vm = s.vm /\ r.session = s.session
      /\ r.enabled = s.enabled /\ r.status = s.status /\ r.task = s.task /\ r.sync = s.sync
      /\ r.asked = s.asked
  BY <1>1 DEF Policy
<1>3. SetForeground(s, TRUE) = Publish(r)
  BY DEF SetForeground
<1> HIDE DEF r
<1>4. Inv(r)
  BY <1>2, FrameInv
<1>5. QED
  BY <1>3, <1>4, PublishInv DEF r

(* What every event and every answer keeps, even one that hides a window:  *)
(* the invariant without what it says about the windows.                   *)
Core(s) ==
  /\ Weak(s) /\ TaskInv(s) /\ SuspendedInv(s) /\ AskedInv(s) /\ HandoffInv(s)
  /\ s.mic.gate => s.enabled

LEMMA CoreFrame ==
  ASSUME NEW s, Core(s), NEW r \in Policy,
         r.mic = s.mic, r.fault = s.fault, r.handoff = s.handoff,
         r.preflight = s.preflight, r.requestOwner = s.requestOwner, r.vm = s.vm,
         r.session = s.session, r.enabled = s.enabled, r.status = s.status,
         r.task = s.task, r.sync = s.sync, r.asked = s.asked
  PROVE  Core(r)
<1>1. Weak(r)
  BY DEF Core, Weak, Closable, PreflightInv, Live, SessionOf
<1>2. TaskInv(r) /\ SuspendedInv(r) /\ HandoffInv(r)
  BY DEF Core, TaskInv, SuspendedInv, HandoffInv, Busy
<1>3. AskedInv(r)
  BY DEF Core, AskedInv, Live, SessionOf
<1>4. QED
  BY <1>1, <1>2, <1>3 DEF Core

LEMMA InvCore ==
  ASSUME NEW s, Inv(s)
  PROVE  Core(s)
BY DEF Inv, Core, GateInv

(* Without a session nothing looks at the windows.                         *)
LEMMA CoreIdle ==
  ASSUME NEW s, Core(s), s.session = 0
  PROVE  Inv(s)
<1>1. ~s.mic.gate
  BY DEF Core, Weak, Closable, Policy, Session, Generations
<1>2. GateInv(s) /\ RequestInv(s)
  BY <1>1 DEF GateInv, RequestInv, Core, TaskInv
<1>3. QED
  BY <1>2 DEF Inv, Core

(* The end of a task that leaves no suspended consent behind.              *)
LEMMA SettleInv ==
  ASSUME NEW s, Inv(s), s.status # "suspended" \/ ~Busy(s)
  PROVE  /\ Inv(Settle(s)) /\ Settle(s).mic = s.mic /\ Settle(s).task.kind = "none"
<1> DEFINE r == [s EXCEPT !.task = NoTask]
<1>1. s \in Policy
  BY DEF Inv, Weak
<1>2. NoTask \in TaskType({"enable", "resume"})
  BY GenAssumption DEF NoTask, TaskType, Generations
<1>3. /\ r \in Policy /\ r.mic = s.mic /\ r.fault = s.fault /\ r.windows = s.windows
      /\ r.handoff = s.handoff /\ r.appForeground = s.appForeground
      /\ r.guardsReady = s.guardsReady
      /\ r.screenBlocked = s.screenBlocked /\ r.preflight = s.preflight
      /\ r.requestOwner = s.requestOwner /\ r.vm = s.vm /\ r.session = s.session
      /\ r.enabled = s.enabled /\ r.status = s.status /\ r.task = NoTask /\ r.sync = s.sync
      /\ r.asked = s.asked
  BY <1>1, <1>2 DEF Policy
<1>4. NoTask.kind = "none" /\ ~NoTask.current
  BY DEF NoTask
<1>5. Settle(s) = Publish(r)
  BY DEF Settle
<1> HIDE DEF r
<1>6. Weak(r)
  BY <1>3 DEF Inv, Weak, Closable, PreflightInv, Live, SessionOf
<1>7. TaskInv(r) /\ SuspendedInv(r) /\ HandoffInv(r)
  BY <1>3, <1>4 DEF Inv, TaskInv, SuspendedInv, HandoffInv, Busy
<1>8. AskedInv(r)
  BY <1>3, <1>4 DEF Inv, AskedInv, Live, SessionOf
<1>9. GateInv(r) /\ RequestInv(r)
  BY <1>3, <1>4 DEF Inv, GateInv, RequestInv, Shown
<1>10. Inv(r)
  BY <1>6, <1>7, <1>8, <1>9 DEF Inv
<1>11. Inv(Publish(r)) /\ Publish(r) \in {r, CancelHandoff(r)}
  BY <1>10, PublishInv
<1>12. CancelHandoff(r).mic = r.mic /\ CancelHandoff(r).task = r.task
  BY <1>3 DEF CancelHandoff, Policy
<1>13. QED
  BY <1>3, <1>4, <1>5, <1>11, <1>12

LEMMA SyncDoneInv ==
  ASSUME NEW s, Inv(s)
  PROVE  Inv(SyncDone(s)) /\ SyncDone(s).mic = s.mic /\ SyncDone(s).task = s.task
<1> DEFINE r == SyncDone(s)
<1>1. s \in Policy
  BY DEF Inv, Weak
<1>2. NoTask \in TaskType({"enabled", "suspended"}) /\ ~NoTask.current
  BY GenAssumption DEF NoTask, TaskType, Generations
<1>3. /\ r \in Policy /\ r.mic = s.mic /\ r.fault = s.fault /\ r.windows = s.windows
      /\ r.handoff = s.handoff /\ r.appForeground = s.appForeground
      /\ r.guardsReady = s.guardsReady
      /\ r.screenBlocked = s.screenBlocked /\ r.preflight = s.preflight
      /\ r.requestOwner = s.requestOwner /\ r.vm = s.vm /\ r.session = s.session
      /\ r.enabled = s.enabled /\ r.status = s.status /\ r.task = s.task /\ r.sync = NoTask
      /\ r.asked = s.asked
  BY <1>1, <1>2 DEF Policy, SyncDone
<1> HIDE DEF r
<1>4. Weak(r)
  BY <1>3 DEF Inv, Weak, Closable, PreflightInv, Live, SessionOf
<1>5. TaskInv(r) /\ SuspendedInv(r) /\ HandoffInv(r)
  BY <1>2, <1>3 DEF Inv, TaskInv, SuspendedInv, HandoffInv, Busy
<1>6. AskedInv(r)
  BY <1>3 DEF Inv, AskedInv, Live, SessionOf
<1>7. GateInv(r) /\ RequestInv(r)
  BY <1>3 DEF Inv, GateInv, RequestInv, Shown
<1>8. QED
  BY <1>3, <1>4, <1>5, <1>6, <1>7 DEF Inv, r

(* A task that only moves on.                                              *)
LEMMA TaskMovesInv ==
  ASSUME NEW s, Inv(s), NEW t \in TaskType({"enable", "resume"}),
         t.kind = s.task.kind, t.vm = s.task.vm, t.session = s.task.session,
         t.current = s.task.current
  PROVE  LET r == [s EXCEPT !.task = t] IN Inv(r) /\ r.mic = s.mic /\ r.task.kind = s.task.kind
<1> DEFINE r == [s EXCEPT !.task = t]
<1>1. s \in Policy
  BY DEF Inv, Weak
<1>2. /\ r \in Policy /\ r.mic = s.mic /\ r.fault = s.fault /\ r.windows = s.windows
      /\ r.handoff = s.handoff /\ r.appForeground = s.appForeground
      /\ r.guardsReady = s.guardsReady
      /\ r.screenBlocked = s.screenBlocked /\ r.preflight = s.preflight
      /\ r.requestOwner = s.requestOwner /\ r.vm = s.vm /\ r.session = s.session
      /\ r.enabled = s.enabled /\ r.status = s.status /\ r.task = t /\ r.sync = s.sync
      /\ r.asked = s.asked
  BY <1>1 DEF Policy
<1> HIDE DEF r
<1>3. Weak(r)
  BY <1>2 DEF Inv, Weak, Closable, PreflightInv, Live, SessionOf
<1>4. TaskInv(r) /\ SuspendedInv(r) /\ HandoffInv(r)
  BY <1>2 DEF Inv, TaskInv, SuspendedInv, HandoffInv, Busy
<1>5. AskedInv(r)
  BY <1>2 DEF Inv, AskedInv, Live, SessionOf
<1>6. GateInv(r) /\ RequestInv(r)
  BY <1>2 DEF Inv, GateInv, RequestInv, Shown
<1>7. QED
  BY <1>2, <1>3, <1>4, <1>5, <1>6 DEF Inv, r

LEMMA SyncMovesInv ==
  ASSUME NEW s, Inv(s), NEW t \in TaskType({"enabled", "suspended"}),
         t.current => ~Busy(s) /\ s.session # 0 /\ t.vm = s.vm /\ t.session = s.session
  PROVE  LET r == [s EXCEPT !.sync = t]
         IN Inv(r) /\ r.mic = s.mic /\ r.task = s.task /\ r.windows = s.windows
<1> DEFINE r == [s EXCEPT !.sync = t]
<1>1. s \in Policy
  BY DEF Inv, Weak
<1>2. /\ r \in Policy /\ r.mic = s.mic /\ r.fault = s.fault /\ r.windows = s.windows
      /\ r.handoff = s.handoff /\ r.appForeground = s.appForeground
      /\ r.guardsReady = s.guardsReady
      /\ r.screenBlocked = s.screenBlocked /\ r.preflight = s.preflight
      /\ r.requestOwner = s.requestOwner /\ r.vm = s.vm /\ r.session = s.session
      /\ r.enabled = s.enabled /\ r.status = s.status /\ r.task = s.task /\ r.sync = t
      /\ r.asked = s.asked
  BY <1>1 DEF Policy
<1> HIDE DEF r
<1>3. Weak(r)
  BY <1>2 DEF Inv, Weak, Closable, PreflightInv, Live, SessionOf
<1>4. TaskInv(r) /\ SuspendedInv(r) /\ HandoffInv(r)
  BY <1>2 DEF Inv, TaskInv, SuspendedInv, HandoffInv, Busy
<1>5. AskedInv(r)
  BY <1>2 DEF Inv, AskedInv, Live, SessionOf
<1>6. GateInv(r) /\ RequestInv(r)
  BY <1>2 DEF Inv, GateInv, RequestInv, Shown
<1>7. QED
  BY <1>2, <1>3, <1>4, <1>5, <1>6 DEF Inv, r

(* The gate of r, if s did not have it open, is the one the user asked for. *)
AskedFor(s) == s.asked = [vm |-> s.mic.name, session |-> s.mic.generation]

LEMMA StatusReading ==
  ASSUME NEW s \in Policy, NEW vm
  PROVE  /\ NativeStatus(s, vm) \in {"unavailable", "blocked", "error", "armed", "disabled"}
         /\ NativeStatus(s, vm) \in {"armed", "disabled"} =>
              s.fault = "none" /\ s.mic.active /\ vm = s.mic.name /\ s.mic.bound
         /\ NativeStatus(s, vm) = "armed" <=>
              s.fault = "none" /\ s.mic.active /\ vm = s.mic.name /\ s.mic.bound /\ s.mic.gate
<1>1. s.fault \in {"none", "blocked", "error"}
  BY DEF Policy, Faults
<1>2. QED
  BY <1>1 DEF NativeStatus

(* enable() and resume() after the permission was granted: the only step   *)
(* that opens the gate.                                                    *)
LEMMA EnableNativeInv ==
  ASSUME NEW s, Inv(s), IsCurrent(s, s.task, TRUE), NEW native \in NativeReplies,
         s.task.kind \in {"enable", "resume"}, s.task.kind = "resume" => s.fault = "none"
  PROVE  LET r == Settle(EnableNative(s, s.task.vm, s.task.session, native))
         IN  Inv(r) /\ r.task.kind = "none" /\ (r.mic.gate => AskedFor(s))
<1> DEFINE vm == s.task.vm
           session == s.task.session
           refused == PortRefuses(s, vm, session) \/ ~MayEnable(s.mic, vm, session)
           a == [s EXCEPT !.mic = [s.mic EXCEPT !.gate = native.accepted],
                          !.fault = native.fault]
           x == [a EXCEPT !.enabled = TRUE, !.status = "armed"]
           z == [x EXCEPT !.task = NoTask]
           e == EnableNative(s, vm, session, native)
<1>1. s \in Policy /\ Weak(s)
  BY DEF Inv, Weak
<1>2. s.task.current /\ vm = s.vm /\ session = s.session /\ SessionOf(s.mic, vm) = session
  BY DEF IsCurrent, SurroundingsChanged, Inv, TaskInv
<1>3. native.accepted \in BOOLEAN /\ native.fault \in Faults
      /\ (native.accepted \/ native.fault # "none")
  BY DEF NativeReplies
<1>4. /\ ~s.mic.active => ~s.mic.gate
      /\ s.mic = [s.mic EXCEPT !.gate = s.mic.gate]
  BY <1>1 DEF Weak, Closable, Policy, Session
<1>5. ASSUME NEW f, ShutFrom(f, s)
      PROVE  Inv(Settle(f)) /\ ~Settle(f).mic.gate /\ Settle(f).task.kind = "none"
  BY <1>5, SettleInv DEF ShutFrom
<1>6. CASE refused
  <2> DEFINE status == NativeStatus(s, vm)
             reply == IF status \in {"blocked", "unavailable"} THEN status ELSE "error"
  <2>1. e = FailConsent(s, reply)
    BY <1>6 DEF EnableNative
  <2>2. reply \in Statuses \ {"suspended"}
    BY DEF Statuses
  <2>3. ShutFrom(e, s)
    BY <1>1, <2>1, <2>2, FailShuts
  <2> HIDE DEF e
  <2>4. Inv(Settle(e)) /\ ~Settle(e).mic.gate /\ Settle(e).task.kind = "none"
    BY <2>3, <1>5
  <2>5. QED
    BY <2>4 DEF e
<1>7. CASE ~refused
  <2>1. Enable(s.mic, vm, session, native.accepted) = [s.mic EXCEPT !.gate = native.accepted]
    BY <1>7 DEF Enable
  <2>2. e = ApplyNativeStatus(a, NativeStatus(a, vm))
    BY <1>7, <2>1 DEF EnableNative
  <2>3. AnyVisible(s, vm, session) /\ s.mic.active /\ s.mic.bound
        /\ vm = s.mic.name /\ session = s.mic.generation
    BY <1>7 DEF PortRefuses, MayEnable
  <2>4. PICK w \in Windows : Visible(s, w, vm, session)
    BY <2>3 DEF AnyVisible
  <2>5. /\ s.appForeground /\ s.guardsReady /\ ~s.screenBlocked /\ session > 0
        /\ Shown(s, w, vm, session)
    BY <2>4 DEF Visible, SafeSession, Shown
  <2>6. s.asked = [vm |-> vm, session |-> session]
    <3>1. Live(s, s.vm, s.session)
      BY <1>2, <2>5 DEF Live
    <3>2. s.task.kind = "resume" => s.status = "suspended"
      BY <1>2 DEF Inv, TaskInv
    <3>3. QED
      BY <1>2, <3>1, <3>2 DEF Inv, AskedInv
  <2>7. AskedFor(s)
    BY <2>3, <2>6 DEF AskedFor
  <2>8. [s.mic EXCEPT !.gate = native.accepted] \in Session
    BY <1>1, <1>3 DEF Policy, Session
  <2>9. /\ a \in Policy /\ a.mic = [s.mic EXCEPT !.gate = native.accepted]
        /\ a.fault = native.fault /\ a.vm = s.vm /\ a.session = s.session
        /\ a.handoff = s.handoff /\ a.task = s.task /\ a.sync = s.sync /\ a.asked = s.asked
        /\ a.preflight = s.preflight /\ a.requestOwner = s.requestOwner
        /\ a.windows = s.windows /\ a.appForeground = s.appForeground
        /\ a.guardsReady = s.guardsReady /\ a.screenBlocked = s.screenBlocked
        /\ a.status = s.status /\ a.enabled = s.enabled
    BY <1>1, <1>3, <2>8 DEF Policy
  <2>10. /\ a.mic.active /\ a.mic.bound /\ a.mic.name = vm /\ a.mic.generation = session
         /\ a.mic.gate = native.accepted
    BY <1>1, <2>3, <2>8, <2>9 DEF Policy, Session
  <2>11. Weak(a)
    <3>1. PreflightInv(a)
      BY <1>1, <1>2, <2>5, <2>9 DEF Weak, PreflightInv, Policy, Generations
    <3> HIDE DEF a
    <3>2. Closable(a)
      BY <1>2, <2>9, <2>10 DEF Closable
    <3>3. a.session <= a.mic.generation /\ a.mic.generation > 0
      BY <1>1, <1>2, <2>5, <2>9, <2>10 DEF Policy, Generations
    <3>4. QED
      BY <1>1, <2>9, <3>1, <3>2, <3>3 DEF Weak
  <2> DEFINE status == NativeStatus(a, vm)
  <2>12. status = "armed" <=> native.fault = "none"
    BY <1>3, <2>9, <2>10, StatusReading
  <2>13. CASE status # "armed"
    <3>1. status \in {"unavailable", "blocked", "error", "disabled"}
      BY <2>9, <2>13, StatusReading
    <3>2. status \in Statuses \ {"suspended"}
      BY <3>1 DEF Statuses
    <3> HIDE DEF a, status
    <3>3. e = FailConsent(a, status)
      BY <2>2, <2>13 DEF ApplyNativeStatus, status
    <3>4. ShutFrom(e, a)
      BY <2>11, <3>2, <3>3, FailShuts
    <3> HIDE DEF e
    <3>5. Inv(Settle(e)) /\ ~Settle(e).mic.gate /\ Settle(e).task.kind = "none"
      BY <3>4, SettleInv DEF ShutFrom
    <3>6. QED
      BY <3>5 DEF e
  <2>14. CASE status = "armed"
    <3>1. /\ x \in Policy /\ x.enabled /\ x.status = "armed"
          /\ x.mic = a.mic /\ x.fault = a.fault /\ x.vm = s.vm /\ x.session = s.session
          /\ x.handoff = s.handoff /\ x.sync = s.sync /\ x.asked = s.asked
          /\ x.preflight = s.preflight /\ x.requestOwner = s.requestOwner
          /\ x.windows = s.windows /\ x.appForeground = s.appForeground
          /\ x.guardsReady = s.guardsReady /\ x.screenBlocked = s.screenBlocked
      <4> HIDE DEF a
      <4>1. QED
        BY <2>9 DEF Policy, Statuses
    <3>2. e = x
      <4>1. Publish(x) = x
        <5> HIDE DEF x
        <5> QED
          BY <3>1 DEF Publish
      <4>2. QED
        BY <2>2, <2>14, <4>1 DEF ApplyNativeStatus
    <3>3. NoTask \in TaskType({"enable", "resume"}) /\ NoTask.kind = "none" /\ ~NoTask.current
      BY GenAssumption DEF NoTask, TaskType, Generations
    <3>4. /\ z \in Policy /\ z.enabled /\ z.status = "armed" /\ z.task = NoTask
          /\ z.mic = a.mic /\ z.fault = a.fault /\ z.vm = s.vm /\ z.session = s.session
          /\ z.handoff = s.handoff /\ z.sync = s.sync /\ z.asked = s.asked
          /\ z.preflight = s.preflight /\ z.requestOwner = s.requestOwner
          /\ z.windows = s.windows /\ z.appForeground = s.appForeground
          /\ z.guardsReady = s.guardsReady /\ z.screenBlocked = s.screenBlocked
      <4> HIDE DEF x
      <4>1. QED
        BY <3>1, <3>3 DEF Policy
    <3>5. Settle(e) = z
      <4>1. Publish(z) = z
        <5> HIDE DEF z
        <5> QED
          BY <3>4 DEF Publish
      <4>2. QED
        BY <3>2, <4>1 DEF Settle
    <3> HIDE DEF a, x, z, e, status
    <3>6. s.preflight.owner = NoWindow
      BY <1>1, <1>2, <2>5 DEF Weak, PreflightInv, Policy, Generations
    <3>7. Weak(z)
      BY <1>1, <1>2, <2>9, <2>10, <2>11, <3>4, <3>6 DEF Weak, Closable, PreflightInv
    <3>8. TaskInv(z) /\ SuspendedInv(z) /\ HandoffInv(z) /\ RequestInv(z)
      BY <1>2, <3>3, <3>4 DEF Inv, TaskInv, SuspendedInv, HandoffInv, RequestInv, Busy
    <3>9. AskedInv(z)
      BY <1>2, <2>6, <3>4 DEF AskedInv
    <3>10. GateInv(z)
      BY <1>2, <2>5, <2>10, <3>4 DEF GateInv, Shown
    <3>11. Inv(z)
      BY <3>7, <3>8, <3>9, <3>10 DEF Inv
    <3>12. QED
      BY <2>7, <3>3, <3>4, <3>5, <3>11 DEF e
  <2>15. QED
    BY <2>13, <2>14
<1>8. QED
  BY <1>6, <1>7

(* What reconciling may do: it opens nothing, and it resumes the consent   *)
(* only at the target of the handoff.                                      *)
Follows(r, s) ==
  /\ Inv(r) /\ r.windows = s.windows
  /\ r.mic.gate => s.mic.gate
  /\ s.task.kind # "resume" /\ r.task.kind = "resume" =>
       Shown(r, s.handoff.target, s.vm, s.session)

LEMMA ShutFollows ==
  ASSUME NEW s, NEW r, ShutFrom(r, s)
  PROVE  Follows(r, s)
BY DEF ShutFrom, Follows

LEMMA SetForegroundFollows ==
  ASSUME NEW s, Inv(s)
  PROVE  /\ Follows(SetForeground(s, TRUE), s)
         /\ SetForeground(s, TRUE).task = s.task /\ SetForeground(s, TRUE).mic = s.mic
<1> DEFINE r == [s EXCEPT !.foreground = TRUE]
<1>1. s \in Policy
  BY DEF Inv, Weak
<1>2. Inv(SetForeground(s, TRUE)) /\ SetForeground(s, TRUE) \in {r, CancelHandoff(r)}
  BY SetForegroundInv
<1>3. r \in Policy /\ r.mic = s.mic /\ r.windows = s.windows /\ r.task = s.task
  BY <1>1 DEF Policy
<1> HIDE DEF r
<1>4. CancelHandoff(r).mic = s.mic /\ CancelHandoff(r).windows = s.windows
      /\ CancelHandoff(r).task = s.task
  BY <1>3 DEF CancelHandoff, Policy
<1>5. QED
  BY <1>2, <1>3, <1>4 DEF Follows

(* A suspended consent begins to resume.                                   *)
LEMMA ResumeFollows ==
  ASSUME NEW s, Inv(s), s.status = "suspended", ~Busy(s),
         MayCompleteHandoff(s, s.vm, s.session)
  PROVE  Follows(ResumeConsent(SetForeground(CancelHandoff(s), TRUE)), s)
<1> DEFINE c == CancelHandoff(s)
           u == [c EXCEPT !.foreground = TRUE]
           n == [u EXCEPT !.task = Stale(u.task), !.sync = Stale(u.sync)]
           k == Task("resume", n)
           b == [n EXCEPT !.task = k]
<1>1. s \in Policy /\ Weak(s)
  BY DEF Inv, Weak
<1>2. s.session > 0 /\ SessionOf(s.mic, s.vm) = s.session
      /\ Visible(s, s.handoff.target, s.vm, s.session)
  BY DEF MayCompleteHandoff, HasHandoff, SafeSession
<1>3. /\ c \in Policy /\ c.mic = s.mic /\ c.fault = s.fault /\ c.windows = s.windows
      /\ c.handoff = NoHandoff /\ c.appForeground = s.appForeground
      /\ c.guardsReady = s.guardsReady /\ c.screenBlocked = s.screenBlocked
      /\ c.preflight = s.preflight /\ c.requestOwner = s.requestOwner
      /\ c.vm = s.vm /\ c.session = s.session /\ c.enabled = s.enabled
      /\ c.status = "suspended" /\ c.task = s.task /\ c.sync = s.sync /\ c.asked = s.asked
  <2>1. c \in Policy
    BY <1>1, CancelInv
  <2>2. QED
    BY <1>1, <2>1 DEF CancelHandoff, Policy
<1> HIDE DEF c
<1>4. /\ u \in Policy /\ u.mic = s.mic /\ u.fault = s.fault /\ u.windows = s.windows
      /\ u.handoff = NoHandoff /\ u.appForeground = s.appForeground
      /\ u.guardsReady = s.guardsReady /\ u.screenBlocked = s.screenBlocked
      /\ u.preflight = s.preflight /\ u.requestOwner = s.requestOwner
      /\ u.vm = s.vm /\ u.session = s.session /\ u.enabled = s.enabled
      /\ u.status = "suspended" /\ u.task = s.task /\ u.sync = s.sync /\ u.asked = s.asked
      /\ u.foreground = TRUE
  BY <1>3 DEF Policy
<1>5. SetForeground(c, TRUE) = u
  <2>1. SetForeground(c, TRUE) = Publish(u)
    BY DEF SetForeground
  <2> HIDE DEF u
  <2>2. QED
    BY <1>4, <2>1 DEF Publish
<1> HIDE DEF u
<1>6. /\ Stale(u.task) \in TaskType({"enable", "resume"})
      /\ Stale(u.sync) \in TaskType({"enabled", "suspended"}) /\ ~Stale(u.sync).current
  <2>1. u.task \in TaskType({"enable", "resume"}) /\ u.sync \in TaskType({"enabled", "suspended"})
    BY <1>4 DEF Policy
  <2>2. QED
    BY <2>1, StaleType
<1>7. /\ n \in Policy /\ n.mic = s.mic /\ n.fault = s.fault /\ n.windows = s.windows
      /\ n.handoff = NoHandoff /\ n.appForeground = s.appForeground
      /\ n.guardsReady = s.guardsReady /\ n.screenBlocked = s.screenBlocked
      /\ n.preflight = s.preflight /\ n.requestOwner = s.requestOwner
      /\ n.vm = s.vm /\ n.session = s.session /\ n.enabled = s.enabled
      /\ n.status = "suspended" /\ ~n.sync.current /\ n.asked = s.asked /\ n.foreground = TRUE
  BY <1>4, <1>6 DEF Policy
<1>8. NextGenerationOf(u) = n
  BY DEF NextGenerationOf
<1> HIDE DEF n
<1>9. /\ k \in TaskType({"enable", "resume"}) /\ k.kind = "resume" /\ k.vm = s.vm
      /\ k.session = s.session /\ k.current
  BY <1>7 DEF Task, TaskType, Policy
<1> HIDE DEF k
<1>10. /\ b \in Policy /\ b.mic = s.mic /\ b.fault = s.fault /\ b.windows = s.windows
       /\ b.handoff = NoHandoff /\ b.appForeground = s.appForeground
       /\ b.guardsReady = s.guardsReady /\ b.screenBlocked = s.screenBlocked
       /\ b.preflight = s.preflight /\ b.requestOwner = s.requestOwner
       /\ b.vm = s.vm /\ b.session = s.session /\ b.enabled = s.enabled
       /\ b.status = "suspended" /\ ~b.sync.current /\ b.asked = s.asked
       /\ b.task = k /\ b.foreground = TRUE
  BY <1>7, <1>9 DEF Policy
<1> HIDE DEF b
<1>11. ~SurroundingsChanged(b, b.task, TRUE)
  BY <1>2, <1>9, <1>10 DEF SurroundingsChanged
<1>12. ResumeConsent(u) = b
  <2>1. u.status = "suspended" /\ ~Busy(u) /\ u.foreground
    BY <1>4 DEF Busy
  <2>2. QED
    BY <1>8, <1>11, <2>1 DEF ResumeConsent, k, b
<1>13. Weak(b)
  BY <1>1, <1>2, <1>10 DEF Weak, Closable, PreflightInv, Policy, Generations, NoHandoff
<1>14. TaskInv(b) /\ SuspendedInv(b) /\ HandoffInv(b) /\ RequestInv(b)
  <2>1. ~s.enabled /\ ~s.mic.gate
    BY DEF Inv, SuspendedInv
  <2>2. s.session # 0
    BY <1>1, <1>2 DEF Policy, Generations
  <2>3. QED
    BY <1>9, <1>10, <2>1, <2>2 DEF TaskInv, SuspendedInv, HandoffInv, RequestInv, Busy
<1>15. AskedInv(b)
  BY <1>9, <1>10 DEF Inv, AskedInv, Live, SessionOf
<1>16. GateInv(b) /\ ~b.mic.gate
  BY <1>10 DEF Inv, SuspendedInv, GateInv
<1>17. Inv(b)
  BY <1>13, <1>14, <1>15, <1>16 DEF Inv
<1>18. Shown(b, s.handoff.target, s.vm, s.session)
  BY <1>2, <1>10 DEF Visible, Shown
<1>19. QED
  BY <1>5, <1>10, <1>12, <1>16, <1>17, <1>18 DEF Follows, c

(* Capture leaves the screen for the handoff.                              *)
LEMMA SuspendFollows ==
  ASSUME NEW s, Core(s), s.enabled, ~Busy(s), HasHandoff(s, s.vm, s.session)
  PROVE  \/ ShutFrom(Suspend(s), s)
         \/ Follows(Suspend(s), s) /\ Suspend(s).status = "suspended"
<1> DEFINE o == [s EXCEPT !.foreground = FALSE, !.enabled = FALSE]
           p == [o EXCEPT !.task = Stale(o.task), !.sync = Stale(o.sync)]
           c == [p EXCEPT !.mic = [p.mic EXCEPT !.gate = FALSE]]
           d == [c EXCEPT !.status = "suspended"]
           status == NativeStatus(c, s.vm)
<1>1. s \in Policy /\ Weak(s)
  BY DEF Core, Weak
<1>2. /\ s.handoff # NoHandoff /\ s.handoff.vm = s.vm /\ s.handoff.session = s.session
      /\ s.session > 0 /\ SessionOf(s.mic, s.vm) = s.session
  BY DEF HasHandoff, SafeSession
<1>3. s.session # 0 /\ s.handoff.source # NoWindow
  BY <1>1, <1>2 DEF Weak, Policy, Generations
<1>4. /\ o \in Policy /\ o.mic = s.mic /\ o.fault = s.fault /\ o.windows = s.windows
      /\ o.handoff = s.handoff /\ o.preflight = s.preflight
      /\ o.requestOwner = s.requestOwner /\ o.vm = s.vm /\ o.session = s.session
      /\ ~o.enabled /\ o.status = s.status /\ o.task = s.task /\ o.sync = s.sync
      /\ o.asked = s.asked
  BY <1>1 DEF Policy
<1> HIDE DEF o
<1>5. /\ Stale(o.task) \in TaskType({"enable", "resume"}) /\ ~Stale(o.task).current
      /\ Stale(o.task).kind = s.task.kind
      /\ Stale(o.sync) \in TaskType({"enabled", "suspended"}) /\ ~Stale(o.sync).current
  <2>1. o.task \in TaskType({"enable", "resume"}) /\ o.sync \in TaskType({"enabled", "suspended"})
    BY <1>4 DEF Policy
  <2>2. QED
    BY <1>4, <2>1, StaleType
<1>6. /\ p \in Policy /\ p.mic = s.mic /\ p.fault = s.fault /\ p.windows = s.windows
      /\ p.handoff = s.handoff /\ p.preflight = s.preflight
      /\ p.requestOwner = s.requestOwner /\ p.vm = s.vm /\ p.session = s.session
      /\ ~p.enabled /\ p.status = s.status /\ ~p.task.current /\ ~p.sync.current
      /\ p.task.kind = s.task.kind /\ p.asked = s.asked
  BY <1>4, <1>5 DEF Policy
<1>7. NextGenerationOf(o) = p
  BY DEF NextGenerationOf
<1> HIDE DEF p
<1>8. Weak(p)
  BY <1>1, <1>3, <1>6 DEF Weak, Closable, PreflightInv
<1>9. CloseNative(p) = c /\ c \in Policy
  BY <1>6, <1>8, CloseNativeEffect DEF Weak
<1>10. /\ c.mic = [s.mic EXCEPT !.gate = FALSE] /\ c.fault = s.fault /\ c.windows = s.windows
       /\ c.handoff = s.handoff /\ c.preflight = s.preflight
       /\ c.requestOwner = s.requestOwner /\ c.vm = s.vm /\ c.session = s.session
       /\ ~c.enabled /\ c.status = s.status /\ ~c.task.current /\ ~c.sync.current
       /\ c.task.kind = s.task.kind /\ c.asked = s.asked
  BY <1>6, <1>9 DEF Policy
<1>11. /\ ~c.mic.gate /\ c.mic.name = s.mic.name /\ c.mic.generation = s.mic.generation
       /\ c.mic.active = s.mic.active /\ c.mic.bound = s.mic.bound
  BY <1>1, <1>10 DEF Policy, Session
<1> HIDE DEF c
<1>12. Weak(c)
  BY <1>1, <1>3, <1>9, <1>10, <1>11 DEF Weak, Closable, PreflightInv
<1>13. Suspend(s) = IF status # "disabled" THEN FailConsent(c, BlockedOrError(status))
                    ELSE Publish(d)
  BY <1>2, <1>3, <1>7, <1>9 DEF Suspend, o
<1>14. CASE status # "disabled"
  <2>1. BlockedOrError(status) \in Statuses \ {"suspended"}
    BY DEF BlockedOrError, Statuses
  <2>2. ShutFrom(FailConsent(c, BlockedOrError(status)), c)
    BY <1>12, <2>1, FailShuts
  <2>3. QED
    BY <1>10, <1>13, <1>14, <2>2 DEF ShutFrom
<1>15. CASE status = "disabled"
  <2>1. s.fault = "none"
    BY <1>9, <1>10, <1>15, StatusReading
  <2>2. /\ d \in Policy /\ d.mic = c.mic /\ d.fault = s.fault /\ d.windows = s.windows
        /\ d.handoff = s.handoff /\ d.preflight = s.preflight
        /\ d.requestOwner = s.requestOwner /\ d.vm = s.vm /\ d.session = s.session
        /\ ~d.enabled /\ d.status = "suspended" /\ ~d.task.current /\ ~d.sync.current
        /\ d.task.kind = s.task.kind /\ d.asked = s.asked
    BY <1>9, <1>10 DEF Policy, Statuses
  <2> HIDE DEF d
  <2>3. Publish(d) = d
    BY <2>2 DEF Publish
  <2>4. Weak(d)
    BY <1>1, <1>3, <1>11, <2>2 DEF Weak, Closable, PreflightInv
  <2>5. TaskInv(d) /\ SuspendedInv(d) /\ HandoffInv(d) /\ RequestInv(d) /\ GateInv(d)
    BY <1>2, <1>3, <1>11, <2>2 DEF TaskInv, SuspendedInv, HandoffInv, RequestInv, GateInv, Busy
  <2>6. AskedInv(d)
    BY <1>11, <2>1, <2>2 DEF Core, AskedInv, Live, SessionOf
  <2>7. Inv(d)
    BY <2>4, <2>5, <2>6 DEF Inv
  <2>8. Follows(d, s)
    BY <1>11, <2>2, <2>7 DEF Follows, Busy
  <2>9. QED
    BY <1>13, <1>15, <2>2, <2>3, <2>8
<1>16. QED
  BY <1>14, <1>15

(* reconcile() closes, suspends, resumes at the target or does nothing.    *)
LEMMA ReconcileFollows ==
  ASSUME NEW s, Core(s)
  PROVE  Follows(Reconcile(s), s)
<1>1. s \in Policy /\ Weak(s)
  BY DEF Core, Weak
<1>2. Follows(HardClose(s), s)
  BY <1>1, HardCloseShuts, ShutFollows
<1>3. Inv(s) => Follows(s, s)
  BY DEF Follows
<1>4. CASE s.session = 0
  BY <1>3, <1>4, CoreIdle DEF Reconcile
<1>5. CASE /\ s.session # 0 /\ AnyVisible(s, s.vm, s.session)
           /\ ~(Requesting(s) /\ ~Visible(s, s.requestOwner, s.vm, s.session))
  <2>1. PICK w \in Windows : Visible(s, w, s.vm, s.session)
    BY <1>5 DEF AnyVisible
  <2>2. GateInv(s)
    BY <1>1, <2>1 DEF Weak, Closable, GateInv, Core, Visible, Shown, SafeSession
  <2>3. RequestInv(s)
    <3>1. ASSUME s.task.kind = "enable", s.task.current
          PROVE  Shown(s, s.requestOwner, s.task.vm, s.task.session)
      <4>1. Requesting(s) /\ s.task.vm = s.vm /\ s.task.session = s.session
        BY <3>1 DEF Core, TaskInv, Requesting, Busy
      <4>2. QED
        BY <1>5, <4>1 DEF Visible, Shown
    <3>2. QED
      BY <3>1 DEF RequestInv
  <2>4. Inv(s)
    BY <2>2, <2>3 DEF Inv, Core
  <2>5. Follows(ReconcileVisible(s), s)
    <3>1. CASE s.status # "suspended"
      <4> DEFINE t == IF MayCompleteHandoff(s, s.vm, s.session) THEN CancelHandoff(s) ELSE s
      <4>1. Inv(t) /\ t.mic = s.mic /\ t.windows = s.windows /\ t.task = s.task
        <5>1. Inv(CancelHandoff(s))
          BY <1>1, <2>4, <3>1, CancelInv
        <5>2. CancelHandoff(s).mic = s.mic /\ CancelHandoff(s).windows = s.windows
              /\ CancelHandoff(s).task = s.task
          BY <1>1 DEF CancelHandoff, Policy
        <5>3. QED
          BY <2>4, <5>1, <5>2
      <4>2. ReconcileVisible(s) = SetForeground(t, TRUE)
        BY <3>1 DEF ReconcileVisible
      <4> HIDE DEF t
      <4>3. Follows(SetForeground(t, TRUE), t) /\ SetForeground(t, TRUE).task = t.task
        BY <4>1, SetForegroundFollows
      <4>4. QED
        BY <4>1, <4>2, <4>3 DEF Follows
    <3>2. CASE /\ s.status = "suspended" /\ ~Busy(s)
               /\ MayCompleteHandoff(s, s.vm, s.session)
      BY <2>4, <3>2, ResumeFollows DEF ReconcileVisible
    <3>3. CASE /\ s.status = "suspended"
               /\ ~(~Busy(s) /\ MayCompleteHandoff(s, s.vm, s.session))
      BY <1>3, <2>4, <3>3 DEF ReconcileVisible
    <3>4. QED
      BY <3>1, <3>2, <3>3
  <2>6. Reconcile(s) \in {HardClose(s), ReconcileVisible(s)}
    BY <1>5 DEF Reconcile
  <2>7. QED
    BY <1>2, <2>5, <2>6
<1>6. CASE /\ s.session # 0 /\ ~AnyVisible(s, s.vm, s.session)
           /\ HasHandoff(s, s.vm, s.session) /\ ~Busy(s)
  <2>1. Follows(ReconcileHandoff(s), s)
    <3>1. CASE s.enabled
      <4> DEFINE p == Suspend(s)
      <4>1. ShutFrom(p, s) \/ (Follows(p, s) /\ p.status = "suspended")
        BY <1>6, <3>1, SuspendFollows
      <4>2. ReconcileHandoff(s) = IF p.status = "suspended" THEN p ELSE CancelHandoff(p)
        BY <3>1 DEF ReconcileHandoff
      <4> HIDE DEF p
      <4>3. CASE ShutFrom(p, s)
        <5>1. p \in Policy /\ p.status # "suspended" /\ Inv(p)
          BY <4>3 DEF ShutFrom, Inv, Weak
        <5>2. Inv(CancelHandoff(p))
          BY <5>1, CancelInv
        <5>3. CancelHandoff(p).mic = p.mic /\ CancelHandoff(p).windows = p.windows
              /\ CancelHandoff(p).task = p.task
          BY <5>1 DEF CancelHandoff, Policy
        <5>4. QED
          BY <4>2, <4>3, <5>1, <5>2, <5>3 DEF ShutFrom, Follows
      <4>4. QED
        BY <4>1, <4>2, <4>3
    <3>2. CASE ~s.enabled /\ s.status = "suspended"
      <4>1. GateInv(s) /\ RequestInv(s)
        BY <1>6, <3>2 DEF Core, GateInv, RequestInv, TaskInv
      <4>2. Inv(s)
        BY <4>1 DEF Inv, Core
      <4>3. QED
        BY <1>3, <3>2, <4>2 DEF ReconcileHandoff
    <3>3. CASE ~s.enabled /\ s.status # "suspended"
      BY <1>2, <3>3 DEF ReconcileHandoff
    <3>4. QED
      BY <3>1, <3>2, <3>3
  <2>2. Reconcile(s) \in {HardClose(s), ReconcileHandoff(s)}
    BY <1>6 DEF Reconcile
  <2>3. QED
    BY <1>2, <2>1, <2>2
<1>7. QED
  BY <1>2, <1>4, <1>5, <1>6 DEF Reconcile

(* synchronize() up to its first await opens nothing.                      *)
LEMMA SynchronizeFollows ==
  ASSUME NEW s, Inv(s)
  PROVE  \/ ShutFrom(SynchronizeConsent(s), s)
         \/ /\ Inv(SynchronizeConsent(s)) /\ SynchronizeConsent(s).mic = s.mic
            /\ SynchronizeConsent(s).windows = s.windows /\ SynchronizeConsent(s).task = s.task
<1> DEFINE suspended == s.status = "suspended"
           t == Task(IF suspended THEN "suspended" ELSE "enabled", s)
           r == SynchronizeConsent(s)
<1>1. s \in Policy /\ Weak(s)
  BY DEF Inv, Weak
<1>2. t \in TaskType({"enabled", "suspended"}) /\ t.vm = s.vm /\ t.session = s.session
  BY <1>1 DEF Task, TaskType, Policy
<1> HIDE DEF t
<1>3. r \in {s, DisableConsent(s)} \/ (~Busy(s) /\ s.session # 0 /\ r = [s EXCEPT !.sync = t])
  BY DEF SynchronizeConsent, GiveUp, t
<1>4. ShutFrom(DisableConsent(s), s)
  BY <1>1, DisableShuts
<1> HIDE DEF r
<1>5. CASE ~Busy(s) /\ s.session # 0 /\ r = [s EXCEPT !.sync = t]
  BY <1>2, <1>5, SyncMovesInv DEF r
<1>6. QED
  BY <1>3, <1>4, <1>5 DEF r

(* enable() up to its first await, for a visible window whose user asked.  *)
LEMMA EnableConsentInv ==
  ASSUME NEW s, Inv(s), s.foreground, s.session = 0, s.preflight = NoPreflight, NEW vm,
         Visible(s, s.requestOwner, vm, SessionOf(s.mic, vm)),
         s.asked = [vm |-> vm, session |-> SessionOf(s.mic, vm)]
  PROVE  LET r == EnableConsent(s, vm)
         IN  /\ Inv(r) /\ (r.mic.gate => s.mic.gate)
             /\ r.task.kind = "resume" => s.task.kind = "resume"
<1> DEFINE session == SessionOf(s.mic, vm)
           d == DisableConsent(s)
           t == [d EXCEPT !.vm = vm]
           a == [t EXCEPT !.session = session, !.status = "requesting"]
           k == Task("enable", a)
           r == [a EXCEPT !.task = k]
<1>1. s \in Policy /\ Weak(s)
  BY DEF Inv, Weak
<1>2. CASE Busy(s)
  BY <1>2 DEF EnableConsent
<1>3. CASE ~Busy(s)
  <2>1. session > 0 /\ s.mic.active /\ vm = s.mic.name /\ session = s.mic.generation
    <3>1. session > 0
      BY DEF Visible, SafeSession
    <3>2. QED
      BY <3>1 DEF SessionOf
  <2>2. vm \in VMs \cup {NoVm} /\ session \in Generations /\ session # 0
    BY <1>1, <2>1 DEF Policy, Session, Generations
  <2>3. d = Shut(s, "disabled", NoHandoff)
    BY <1>1, <1>3, DisableEffect DEF Weak, KeptHandoff
  <2>4. "disabled" \in Statuses \ {"suspended"}
    BY DEF Statuses
  <2>5. d \in Policy /\ ShutFrom(d, s)
    BY <1>1, <2>3, <2>4, ShutIsShut DEF ShutFrom, Inv, Weak
  <2>6. /\ d.mic = [s.mic EXCEPT !.gate = FALSE] /\ d.fault = s.fault
        /\ d.windows = s.windows /\ d.handoff = NoHandoff /\ d.preflight = NoPreflight
        /\ d.requestOwner = s.requestOwner /\ ~d.enabled
        /\ d.asked = s.asked /\ d.sync = Stale(s.sync)
    BY <1>1, <2>3 DEF Shut, Policy
  <2>7. ~d.sync.current
    <3>1. s.sync \in TaskType({"enabled", "suspended"})
      BY <1>1 DEF Policy
    <3>2. QED
      BY <2>6, <3>1, StaleType
  <2>8. EnableConsent(s, vm) = r
    <3>1. ~Busy(s) /\ s.foreground /\ session # 0
      BY <1>3, <2>2
    <3>2. QED
      BY <3>1 DEF EnableConsent
  <2> HIDE DEF d
  <2>9. /\ t \in Policy /\ t.mic = d.mic /\ t.fault = s.fault
        /\ t.windows = s.windows /\ t.handoff = NoHandoff /\ t.preflight = NoPreflight
        /\ t.requestOwner = s.requestOwner /\ ~t.enabled
        /\ t.asked = s.asked /\ ~t.sync.current /\ t.vm = vm
    BY <2>2, <2>5, <2>6, <2>7 DEF Policy
  <2> HIDE DEF t
  <2>10. /\ a \in Policy /\ a.mic = d.mic /\ a.fault = s.fault
         /\ a.windows = s.windows /\ a.handoff = NoHandoff /\ a.preflight = NoPreflight
         /\ a.requestOwner = s.requestOwner /\ ~a.enabled /\ a.session = session
         /\ a.asked = s.asked /\ ~a.sync.current /\ a.vm = vm /\ a.status = "requesting"
    BY <2>2, <2>9 DEF Policy, Statuses
  <2> HIDE DEF a, session
  <2>11. /\ k \in TaskType({"enable", "resume"}) /\ k.kind = "enable" /\ k.vm = vm
         /\ k.session = session /\ k.current
    BY <2>10 DEF Task, TaskType, Policy
  <2> HIDE DEF k
  <2>12. /\ r \in Policy /\ r.mic = d.mic /\ r.fault = s.fault
         /\ r.windows = s.windows /\ r.handoff = NoHandoff /\ r.preflight = NoPreflight
         /\ r.requestOwner = s.requestOwner /\ ~r.enabled /\ r.session = session
         /\ r.asked = s.asked /\ ~r.sync.current /\ r.vm = vm /\ r.status = "requesting"
         /\ r.task = k
    BY <2>10, <2>11 DEF Policy
  <2> HIDE DEF r
  <2>13. /\ ~d.mic.gate /\ d.mic.name = s.mic.name /\ d.mic.generation = s.mic.generation
         /\ d.mic.active = s.mic.active
    BY <1>1, <2>6 DEF Policy, Session
  <2>14. Weak(r)
    <3>1. r.session <= r.mic.generation
      BY <2>1, <2>2, <2>12, <2>13 DEF Generations
    <3>2. r.mic.active => r.mic.generation > 0
      BY <2>1, <2>13, <2>12
    <3>3. QED
      BY <2>12, <2>13, <3>1, <3>2 DEF Weak, Closable, PreflightInv, NoPreflight, NoHandoff
  <2>15. TaskInv(r) /\ SuspendedInv(r) /\ HandoffInv(r) /\ GateInv(r)
    BY <2>2, <2>11, <2>12, <2>13 DEF TaskInv, SuspendedInv, HandoffInv, GateInv, Busy
  <2>16. AskedInv(r)
    BY <2>12 DEF AskedInv, session
  <2>17. RequestInv(r)
    BY <2>11, <2>12 DEF RequestInv, Visible, Shown, session
  <2>18. Inv(r)
    BY <2>14, <2>15, <2>16, <2>17 DEF Inv
  <2>19. QED
    BY <2>8, <2>11, <2>12, <2>13, <2>18
<1>4. QED
  BY <1>2, <1>3

-----------------------------------------------------------------------------
(* One step of the policy, from s to r.                                    *)
Keeps(s, r) ==
  /\ Inv(r)
  /\ ~s.mic.gate /\ r.mic.gate => AskedFor(s)
  /\ s.task.kind = "none" /\ r.task.kind = "resume" =>
       Shown(r, s.handoff.target, s.vm, s.session)

LEMMA ShutKeeps ==
  ASSUME NEW s, NEW t, NEW r, ShutFrom(r, t), t.task.kind = s.task.kind
  PROVE  /\ Keeps(s, r)
         /\ r.preflight = NoPreflight => Keeps(s, HardStop(r))
<1>1. Inv(r) /\ r.session = 0 /\ ~r.mic.gate /\ r.task.kind = s.task.kind /\ r \in Policy
  BY DEF ShutFrom, Inv, Weak
<1>2. HardStop(r).mic = r.mic /\ HardStop(r).task = r.task
  BY <1>1 DEF HardStop, Policy
<1>3. r.preflight = NoPreflight => Inv(HardStop(r))
  BY <1>1, HardStopInv DEF NoPreflight
<1>4. QED
  BY <1>1, <1>2, <1>3 DEF Keeps

LEMMA HardCloseKeeps ==
  ASSUME NEW s, NEW t, Weak(t), t.task.kind = s.task.kind
  PROVE  Keeps(s, HardClose(t)) /\ Keeps(s, HardStop(HardClose(t)))
BY HardCloseShuts, ShutKeeps

LEMMA CancelConsentKeeps ==
  ASSUME NEW s, Weak(s)
  PROVE  Keeps(s, HardStop(CancelConsent(s)))
BY CancelConsentShuts, ShutKeeps

(* What an event changes before the consent is reconciled with it.         *)
LEMMA ReconcileKeeps ==
  ASSUME NEW s, NEW t, Core(t), t.mic = s.mic, t.task = s.task,
         t.handoff = s.handoff, t.vm = s.vm, t.session = s.session
  PROVE  Keeps(s, Reconcile(t)) /\ Follows(Reconcile(t), t)
BY ReconcileFollows DEF Keeps, Follows

-----------------------------------------------------------------------------
(* The events of the application, the screen and the windows.              *)

LEMMA ApplicationKeeps ==
  ASSUME Inv(policy), \/ ApplicationForeground \/ ApplicationBackground
                      \/ ScreenUnlocked \/ ScreenLocked \/ ScreenActivityChanges \/ GuardsFail
  PROVE  Keeps(policy, policy')
<1>1. policy \in Policy /\ Weak(policy) /\ Core(policy)
  BY InvCore DEF Inv, Weak
<1>2. ASSUME NEW t \in Policy,
             t.mic = policy.mic, t.fault = policy.fault, t.handoff = policy.handoff,
             t.preflight = policy.preflight, t.requestOwner = policy.requestOwner,
             t.vm = policy.vm, t.session = policy.session, t.enabled = policy.enabled,
             t.status = policy.status, t.task = policy.task, t.sync = policy.sync,
             t.asked = policy.asked
      PROVE  Core(t) /\ Keeps(policy, Reconcile(t)) /\ Keeps(policy, HardStop(HardClose(t)))
  <2>1. Core(t) /\ Weak(t)
    BY <1>1, <1>2, CoreFrame DEF Core
  <2>2. QED
    BY <1>2, <2>1, ReconcileKeeps, HardCloseKeeps
<1>3. CASE ApplicationForeground
  <2> DEFINE t == [policy EXCEPT !.appForeground = TRUE]
  <2>1. Keeps(policy, Reconcile(t))
    BY <1>1, <1>2 DEF Policy
  <2>2. QED
    BY <1>3, <2>1 DEF ApplicationForeground
<1>4. CASE ApplicationBackground
  <2> DEFINE t == [policy EXCEPT !.appForeground = FALSE]
  <2>1. Keeps(policy, HardStop(HardClose(t)))
    BY <1>1, <1>2 DEF Policy
  <2>2. QED
    BY <1>4, <2>1 DEF ApplicationBackground
<1>5. CASE ScreenUnlocked
  <2> DEFINE t == [policy EXCEPT !.screenBlocked = FALSE]
  <2>1. /\ t \in Policy /\ t.mic = policy.mic /\ t.fault = policy.fault
        /\ t.handoff = policy.handoff /\ t.preflight = policy.preflight
        /\ t.requestOwner = policy.requestOwner /\ t.vm = policy.vm
        /\ t.session = policy.session /\ t.enabled = policy.enabled
        /\ t.status = policy.status /\ t.task = policy.task /\ t.sync = policy.sync
        /\ t.asked = policy.asked /\ t.windows = policy.windows
        /\ t.appForeground = policy.appForeground /\ t.guardsReady = policy.guardsReady
        /\ ~t.screenBlocked
    BY <1>1 DEF Policy
  <2> HIDE DEF t
  <2>2. Core(t)
    BY <1>2, <2>1
  <2>3. GateInv(t) /\ RequestInv(t)
    BY <2>1 DEF Inv, GateInv, RequestInv, Shown
  <2>4. QED
    BY <1>5, <2>1, <2>2, <2>3 DEF ScreenUnlocked, t, Keeps, Inv, Core
<1>6. CASE ScreenLocked
  <2> DEFINE t == [policy EXCEPT !.screenBlocked = TRUE]
  <2>1. Keeps(policy, HardStop(HardClose(t)))
    BY <1>1, <1>2 DEF Policy
  <2>2. QED
    BY <1>6, <2>1 DEF ScreenLocked
<1>7. CASE ScreenActivityChanges
  <2> DEFINE active == ~policy.screenActive
             t == [policy EXCEPT !.screenActive = active]
  <2>0. active \in BOOLEAN
    OBVIOUS
  <2> HIDE DEF active
  <2>1. /\ t \in Policy /\ t.mic = policy.mic /\ t.fault = policy.fault
        /\ t.handoff = policy.handoff /\ t.preflight = policy.preflight
        /\ t.requestOwner = policy.requestOwner /\ t.vm = policy.vm
        /\ t.session = policy.session /\ t.enabled = policy.enabled
        /\ t.status = policy.status /\ t.task = policy.task /\ t.sync = policy.sync
        /\ t.asked = policy.asked /\ t.windows = policy.windows
        /\ t.appForeground = policy.appForeground /\ t.guardsReady = policy.guardsReady
        /\ t.screenBlocked = policy.screenBlocked
    BY <1>1, <2>0 DEF Policy
  <2> HIDE DEF t
  <2>2. Inv(t)
    BY <2>1, FrameInv
  <2>3. QED
    BY <1>7, <2>1, <2>2 DEF ScreenActivityChanges, active, t, Keeps
<1>8. CASE GuardsFail
  <2> DEFINE t == [policy EXCEPT !.guardsReady = FALSE]
  <2>1. Keeps(policy, HardStop(HardClose(t)))
    BY <1>1, <1>2 DEF Policy
  <2>2. QED
    BY <1>8, <2>1 DEF GuardsFail
<1>9. QED
  BY <1>3, <1>4, <1>5, <1>6, <1>7, <1>8

(* A window is registered while it is closed: no other window changes.     *)
LEMMA RegisterKeeps ==
  ASSUME Inv(policy), NEW w \in Windows, RegisterAbility(w)
  PROVE  Keeps(policy, policy')
<1>1. policy \in Policy /\ Weak(policy)
  BY DEF Inv, Weak
<1>2. PICK vm \in VMs \cup {NoVm}, session \in Generations, carries \in BOOLEAN :
        policy' = Register(policy, w, vm, session, carries) /\ ~policy.windows[w].open
  <2>1. policy.mic.generation \in Generations /\ 0 \in Generations
    BY <1>1, GenAssumption DEF Policy, Session, Generations
  <2>2. 0 .. policy.mic.generation \subseteq Generations
    BY <2>1, GenAssumption DEF Generations
  <2>3. QED
    BY <2>1, <2>2 DEF RegisterAbility
<1> DEFINE fresh == [open |-> TRUE, vm |-> vm, session |-> session, up |-> UpAtFirst]
           bound == carries /\ policy.handoff # NoHandoff /\ policy.handoff.target = NoWindow
                    /\ policy.handoff.vm = vm /\ policy.handoff.session = session
           h == [policy.handoff EXCEPT !.target = IF bound THEN w ELSE @]
           ws == [policy.windows EXCEPT ![w] = fresh]
           r == [policy EXCEPT !.windows = ws, !.handoff = h]
<1>3. Register(policy, w, vm, session, carries) = r
  BY DEF Register
<1>4. fresh \in [open : BOOLEAN, vm : VMs \cup {NoVm}, session : Generations,
                 up : SUBSET Signals]
  BY DEF UpAtFirst
<1>5. /\ ws \in [Windows -> [open : BOOLEAN, vm : VMs \cup {NoVm}, session : Generations,
                             up : SUBSET Signals]]
      /\ \A v \in Windows \ {w} : ws[v] = policy.windows[v]
  <2> HIDE DEF fresh
  <2>1. QED
    BY <1>1, <1>4 DEF Policy
<1>6. /\ h \in [source : Windows \cup {NoWindow}, target : Windows \cup {NoWindow},
                vm : VMs \cup {NoVm}, session : Generations]
      /\ h.source = policy.handoff.source /\ h.vm = policy.handoff.vm
      /\ h.session = policy.handoff.session
      /\ h = NoHandoff <=> h.source = NoWindow
  <2>1. policy.handoff \in [source : Windows \cup {NoWindow}, target : Windows \cup {NoWindow},
                            vm : VMs \cup {NoVm}, session : Generations]
    BY <1>1 DEF Policy
  <2>2. policy.handoff = NoHandoff <=> policy.handoff.source = NoWindow
    BY <1>1 DEF Weak
  <2>3. CASE bound
    BY <2>1, <2>2, <2>3 DEF NoHandoff
  <2>4. CASE ~bound
    <3>1. h = policy.handoff
      BY <2>1, <2>4
    <3>2. QED
      BY <2>1, <2>2, <3>1
  <2>5. QED
    BY <2>3, <2>4
<1> HIDE DEF fresh, h, ws
<1>7. /\ r \in Policy /\ r.mic = policy.mic /\ r.fault = policy.fault
      /\ r.windows = ws /\ r.handoff = h /\ r.preflight = policy.preflight
      /\ r.requestOwner = policy.requestOwner /\ r.vm = policy.vm
      /\ r.session = policy.session /\ r.enabled = policy.enabled
      /\ r.status = policy.status /\ r.task = policy.task /\ r.sync = policy.sync
      /\ r.asked = policy.asked
      /\ r.appForeground = policy.appForeground /\ r.guardsReady = policy.guardsReady
      /\ r.screenBlocked = policy.screenBlocked
  BY <1>1, <1>5, <1>6 DEF Policy
<1> HIDE DEF r
<1>8. ASSUME NEW v, NEW x, NEW y, Shown(policy, v, x, y)
      PROVE  Shown(r, v, x, y)
  BY <1>2, <1>5, <1>7, <1>8 DEF Shown
<1>9. Weak(r)
  BY <1>6, <1>7 DEF Inv, Weak, Closable, PreflightInv, Live, SessionOf
<1>10. TaskInv(r) /\ SuspendedInv(r) /\ HandoffInv(r)
  BY <1>6, <1>7 DEF Inv, TaskInv, SuspendedInv, HandoffInv, Busy
<1>11. AskedInv(r)
  BY <1>7 DEF Inv, AskedInv, Live, SessionOf
<1>12. GateInv(r) /\ RequestInv(r)
  BY <1>7, <1>8 DEF Inv, GateInv, RequestInv
<1>13. Inv(r)
  BY <1>9, <1>10, <1>11, <1>12 DEF Inv
<1>14. QED
  BY <1>2, <1>3, <1>7, <1>13 DEF Keeps

LEMMA SignalEffect ==
  ASSUME NEW s \in Policy, NEW w \in Windows, NEW signal \in Signals, NEW value \in BOOLEAN
  PROVE  LET r == Signal(s, w, signal, value)
         IN  /\ r \in Policy /\ r.mic = s.mic /\ r.fault = s.fault
             /\ r.handoff = s.handoff /\ r.preflight = s.preflight
             /\ r.requestOwner = s.requestOwner /\ r.vm = s.vm
             /\ r.session = s.session /\ r.enabled = s.enabled
             /\ r.status = s.status /\ r.task = s.task /\ r.sync = s.sync
             /\ r.asked = s.asked
             /\ r.appForeground = s.appForeground /\ r.guardsReady = s.guardsReady
             /\ r.screenBlocked = s.screenBlocked
             /\ signal = "showing" =>
                  \A v, x, y : Shown(s, v, x, y) => Shown(r, v, x, y)
<1> DEFINE u == [s.windows[w] EXCEPT !.up = IF value THEN @ \cup {signal} ELSE @ \ {signal}]
           ws == [s.windows EXCEPT ![w] = u]
           r == [s EXCEPT !.windows = ws]
<1>1. Signal(s, w, signal, value) = r
  BY DEF Signal
<1>2. s.windows \in [Windows -> [open : BOOLEAN, vm : VMs \cup {NoVm}, session : Generations,
                                up : SUBSET Signals]]
  BY DEF Policy
<1>3. /\ u \in [open : BOOLEAN, vm : VMs \cup {NoVm}, session : Generations,
                up : SUBSET Signals]
      /\ u.open = s.windows[w].open /\ u.vm = s.windows[w].vm
      /\ u.session = s.windows[w].session
      /\ \A x \in s.windows[w].up : x # signal => x \in u.up
  BY <1>2
<1> HIDE DEF u
<1>4. /\ ws \in [Windows -> [open : BOOLEAN, vm : VMs \cup {NoVm}, session : Generations,
                             up : SUBSET Signals]]
      /\ \A v \in Windows : ws[v] = IF v = w THEN u ELSE s.windows[v]
  BY <1>2, <1>3
<1> HIDE DEF ws
<1>5. /\ r \in Policy /\ r.mic = s.mic /\ r.fault = s.fault /\ r.windows = ws
      /\ r.handoff = s.handoff /\ r.preflight = s.preflight
      /\ r.requestOwner = s.requestOwner /\ r.vm = s.vm
      /\ r.session = s.session /\ r.enabled = s.enabled
      /\ r.status = s.status /\ r.task = s.task /\ r.sync = s.sync
      /\ r.asked = s.asked
      /\ r.appForeground = s.appForeground /\ r.guardsReady = s.guardsReady
      /\ r.screenBlocked = s.screenBlocked
  BY <1>4 DEF Policy
<1> HIDE DEF r
<1>6. ASSUME signal = "showing", NEW v, NEW x, NEW y, Shown(s, v, x, y)
      PROVE  Shown(r, v, x, y)
  BY <1>3, <1>4, <1>5, <1>6 DEF Shown
<1>7. QED
  BY <1>1, <1>5, <1>6

LEMMA OwnerHiddenCore ==
  ASSUME NEW s, Core(s), NEW w \in Windows
  PROVE  /\ OwnerHidden(s, w) = s /\ s.preflight.owner # w
         \/ /\ OwnerHidden(s, w) = HardClose(s)
            /\ ShutFrom(HardClose(s), s) /\ HardClose(s).preflight = NoPreflight
BY HardCloseShuts DEF OwnerHidden, Core

LEMMA SignalKeeps ==
  ASSUME Inv(policy), NEW w \in Windows, NEW signal \in Signals,
         SignalChanges(w, signal)
  PROVE  Keeps(policy, policy')
<1> DEFINE value == signal \notin policy.windows[w].up
           t == Signal(policy, w, signal, value)
<1>0. value \in BOOLEAN
  OBVIOUS
<1> HIDE DEF value
<1>1. policy \in Policy /\ Weak(policy) /\ Core(policy)
  BY InvCore DEF Inv, Weak
<1>2. /\ t \in Policy /\ t.mic = policy.mic /\ t.fault = policy.fault
      /\ t.handoff = policy.handoff /\ t.preflight = policy.preflight
      /\ t.requestOwner = policy.requestOwner /\ t.vm = policy.vm
      /\ t.session = policy.session /\ t.enabled = policy.enabled
      /\ t.status = policy.status /\ t.task = policy.task /\ t.sync = policy.sync
      /\ t.asked = policy.asked
  BY <1>0, <1>1, SignalEffect
<1>3. policy' \in {Reconcile(t), Reconcile(OwnerHidden(t, w))}
  BY DEF SignalChanges, value
<1> HIDE DEF t
<1>4. Core(t)
  BY <1>1, <1>2, CoreFrame
<1>5. Keeps(policy, Reconcile(t))
  BY <1>2, <1>4, ReconcileKeeps
<1>6. OwnerHidden(t, w) = t \/ (OwnerHidden(t, w) = HardClose(t) /\ ShutFrom(HardClose(t), t))
  BY <1>4, OwnerHiddenCore
<1>7. ShutFrom(HardClose(t), t) => Reconcile(HardClose(t)) = HardClose(t)
  BY DEF ShutFrom, Reconcile
<1>8. ShutFrom(HardClose(t), t) => Keeps(policy, HardClose(t))
  BY <1>2, ShutKeeps
<1>9. QED
  BY <1>3, <1>5, <1>6, <1>7, <1>8

LEMMA ShowingKeeps ==
  ASSUME Inv(policy), NEW w \in Windows, ShowingChanges(w)
  PROVE  Keeps(policy, policy')
<1> DEFINE value == "showing" \notin policy.windows[w].up
           r == Signal(policy, w, "showing", value)
<1>0. value \in BOOLEAN
  OBVIOUS
<1> HIDE DEF value
<1>1. policy \in Policy /\ Weak(policy) /\ Core(policy)
  BY InvCore DEF Inv, Weak
<1>2. "showing" \in Signals /\ policy' = r
  BY DEF ShowingChanges, value
<1>3. /\ r \in Policy /\ r.mic = policy.mic /\ r.fault = policy.fault
      /\ r.handoff = policy.handoff /\ r.preflight = policy.preflight
      /\ r.requestOwner = policy.requestOwner /\ r.vm = policy.vm
      /\ r.session = policy.session /\ r.enabled = policy.enabled
      /\ r.status = policy.status /\ r.task = policy.task /\ r.sync = policy.sync
      /\ r.asked = policy.asked
      /\ r.appForeground = policy.appForeground /\ r.guardsReady = policy.guardsReady
      /\ r.screenBlocked = policy.screenBlocked
      /\ \A v, x, y : Shown(policy, v, x, y) => Shown(r, v, x, y)
  BY <1>0, <1>1, <1>2, SignalEffect
<1> HIDE DEF r
<1>4. Core(r)
  BY <1>1, <1>3, CoreFrame
<1>5. GateInv(r) /\ RequestInv(r)
  BY <1>3 DEF Inv, GateInv, RequestInv
<1>6. QED
  BY <1>2, <1>3, <1>4, <1>5 DEF Keeps, Inv, Core

(* A window goes: a request or a handoff of it goes with it.               *)
LEMMA RemoveKeeps ==
  ASSUME Inv(policy), NEW w \in Windows, RemoveAbility(w)
  PROVE  Keeps(policy, policy')
<1> DEFINE s == OwnerHidden(policy, w)
           owner == IF s.requestOwner = w THEN NoWindow ELSE s.requestOwner
           g == [s EXCEPT !.requestOwner = owner]
           ws == [g.windows EXCEPT ![w] = Closed]
           t == [g EXCEPT !.windows = ws]
           gone == RemoveWindow(g, w)
<1>1. policy \in Policy /\ Weak(policy) /\ Core(policy)
  BY InvCore DEF Inv, Weak
<1>2. \/ s = policy /\ policy.preflight.owner # w
      \/ s = HardClose(policy) /\ ShutFrom(s, policy) /\ s.preflight = NoPreflight
  BY <1>1, OwnerHiddenCore
<1>3. policy' = Reconcile(IF InHandoff(s, w) THEN HardStop(HardClose(gone)) ELSE gone)
  BY DEF RemoveAbility
<1> HIDE DEF s
<1>4. s \in Policy /\ Core(s) /\ Weak(s)
  BY <1>1, <1>2, InvCore DEF ShutFrom, Core, Weak
<1>5. /\ owner \in Windows \cup {NoWindow}
      /\ (s.preflight.owner # NoWindow => owner = s.requestOwner)
  <2>1. s.preflight.owner # NoWindow =>
          s.preflight.owner # w /\ s.requestOwner = s.preflight.owner
    BY <1>2, <1>4 DEF Weak, PreflightInv, NoPreflight
  <2>2. QED
    BY <1>4, <2>1 DEF Policy
<1> HIDE DEF owner
<1>6. /\ g \in Policy /\ g.mic = s.mic /\ g.fault = s.fault /\ g.windows = s.windows
      /\ g.handoff = s.handoff /\ g.preflight = s.preflight /\ g.requestOwner = owner
      /\ g.vm = s.vm /\ g.session = s.session /\ g.enabled = s.enabled
      /\ g.status = s.status /\ g.task = s.task /\ g.sync = s.sync /\ g.asked = s.asked
  BY <1>4, <1>5 DEF Policy
<1> HIDE DEF g
<1>7. ws \in [Windows -> [open : BOOLEAN, vm : VMs \cup {NoVm}, session : Generations,
                          up : SUBSET Signals]]
  <2>1. Closed \in [open : BOOLEAN, vm : VMs \cup {NoVm}, session : Generations,
                    up : SUBSET Signals]
    BY GenAssumption DEF Closed, Generations
  <2>2. QED
    BY <1>6, <2>1 DEF Policy
<1> HIDE DEF ws
<1>8. /\ t \in Policy /\ t.mic = s.mic /\ t.fault = s.fault
      /\ t.handoff = s.handoff /\ t.preflight = s.preflight /\ t.requestOwner = owner
      /\ t.vm = s.vm /\ t.session = s.session /\ t.enabled = s.enabled
      /\ t.status = s.status /\ t.task = s.task /\ t.sync = s.sync /\ t.asked = s.asked
  BY <1>6, <1>7 DEF Policy
<1>9. gone = IF InHandoff(s, w) THEN CancelHandoff(t) ELSE t
  BY <1>6 DEF RemoveWindow, InHandoff, ws
<1> HIDE DEF t, gone
<1>10. Core(t) /\ Weak(t)
  <2>1. PreflightInv(t)
    BY <1>4, <1>5, <1>8 DEF Weak, PreflightInv, Live, SessionOf
  <2>2. Weak(t)
    BY <1>4, <1>8, <2>1 DEF Weak, Closable
  <2>3. TaskInv(t) /\ SuspendedInv(t) /\ HandoffInv(t)
    BY <1>4, <1>8 DEF Core, TaskInv, SuspendedInv, HandoffInv, Busy
  <2>4. AskedInv(t)
    BY <1>4, <1>8 DEF Core, AskedInv, Live, SessionOf
  <2>5. QED
    BY <1>4, <1>8, <2>2, <2>3, <2>4 DEF Core
<1>11. s.task.kind = policy.task.kind
  BY <1>2 DEF ShutFrom
<1>12. CASE InHandoff(s, w)
  <2> DEFINE c == CancelHandoff(t)
             r == HardStop(HardClose(c))
  <2>1. Weak(c)
    BY <1>8, <1>10, CancelInv
  <2>2. c.task.kind = policy.task.kind
    BY <1>8, <1>11 DEF CancelHandoff, Policy
  <2> HIDE DEF c
  <2>3. Keeps(policy, r)
    BY <2>1, <2>2, HardCloseKeeps
  <2>4. r.session = 0
    <3>1. HardClose(c) \in Policy /\ HardClose(c).session = 0
      BY <2>1, HardCloseShuts DEF ShutFrom, Inv, Weak
    <3>2. QED
      BY <3>1 DEF HardStop, Policy
  <2> HIDE DEF r
  <2>5. Reconcile(r) = r
    BY <2>4 DEF Reconcile
  <2>6. QED
    BY <1>3, <1>9, <1>12, <2>3, <2>5 DEF r, c
<1>13. CASE ~InHandoff(s, w)
  <2>1. policy' = Reconcile(t)
    BY <1>3, <1>9, <1>13
  <2>2. CASE s = policy
    BY <1>8, <1>10, <2>1, <2>2, ReconcileKeeps
  <2>3. CASE ShutFrom(s, policy)
    <3>1. t.session = 0 /\ ~t.mic.gate /\ t.task.kind = policy.task.kind
      BY <1>8, <2>3 DEF ShutFrom
    <3>2. Inv(t) /\ Reconcile(t) = t
      BY <1>10, <3>1, CoreIdle DEF Reconcile
    <3>3. QED
      BY <2>1, <3>1, <3>2 DEF Keeps
  <2>4. QED
    BY <1>2, <2>2, <2>3
<1>14. QED
  BY <1>12, <1>13

(* The timer reconciles before it checks the permission again.             *)
LEMMA TimerKeeps ==
  ASSUME Inv(policy), TimerTicks
  PROVE  Keeps(policy, policy')
<1> DEFINE t == Reconcile(policy)
           r == SynchronizeConsent(t)
<1>1. Core(policy)
  BY InvCore
<1>2. Follows(t, policy)
  BY <1>1, ReconcileFollows
<1>3. policy' = r
  BY DEF TimerTicks
<1> HIDE DEF t
<1>4. \/ ShutFrom(r, t)
      \/ Inv(r) /\ r.mic = t.mic /\ r.windows = t.windows /\ r.task = t.task
  BY <1>2, SynchronizeFollows DEF Follows
<1> HIDE DEF r
<1>5. Inv(r) /\ r.windows = t.windows /\ r.task.kind = t.task.kind /\ (r.mic.gate => t.mic.gate)
  BY <1>4 DEF ShutFrom
<1>6. QED
  BY <1>2, <1>3, <1>5 DEF Keeps, Follows, Shown

-----------------------------------------------------------------------------
(* The user.                                                               *)

LEMMA HandoffKeeps ==
  ASSUME NEW s, Inv(s), s.status # "suspended",
         NEW h \in [source : Windows \cup {NoWindow}, target : Windows \cup {NoWindow},
                    vm : VMs \cup {NoVm}, session : Generations],
         h = NoHandoff <=> h.source = NoWindow,
         NEW launch \in {"none", "held", "reset"}
  PROVE  LET r == [s EXCEPT !.handoff = h, !.launch = launch]
         IN  Inv(r) /\ r.mic = s.mic /\ r.task = s.task /\ r.windows = s.windows
<1> DEFINE r == [s EXCEPT !.handoff = h, !.launch = launch]
<1>1. s \in Policy
  BY DEF Inv, Weak
<1>2. /\ r \in Policy /\ r.mic = s.mic /\ r.fault = s.fault /\ r.windows = s.windows
      /\ r.handoff = h /\ r.appForeground = s.appForeground
      /\ r.guardsReady = s.guardsReady
      /\ r.screenBlocked = s.screenBlocked /\ r.preflight = s.preflight
      /\ r.requestOwner = s.requestOwner /\ r.vm = s.vm /\ r.session = s.session
      /\ r.enabled = s.enabled /\ r.status = s.status /\ r.task = s.task /\ r.sync = s.sync
      /\ r.asked = s.asked
  <2>1. r \in Policy
    BY <1>1 DEF Policy
  <2>2. QED
    BY <1>1, <2>1 DEF Policy
<1> HIDE DEF r
<1>3. Weak(r)
  BY <1>2 DEF Inv, Weak, Closable, PreflightInv, Live, SessionOf
<1>4. TaskInv(r) /\ SuspendedInv(r) /\ HandoffInv(r)
  BY <1>2 DEF Inv, TaskInv, SuspendedInv, HandoffInv, Busy
<1>5. AskedInv(r)
  BY <1>2 DEF Inv, AskedInv, Live, SessionOf
<1>6. GateInv(r) /\ RequestInv(r)
  BY <1>2 DEF Inv, GateInv, RequestInv, Shown
<1>7. QED
  BY <1>2, <1>3, <1>4, <1>5, <1>6 DEF Inv, r

LEMMA BeginsHandoffKeeps ==
  ASSUME Inv(policy), NEW vm \in VMs, BeginsHandoff(vm)
  PROVE  Keeps(policy, policy')
<1> DEFINE launch == IF policy.launch = "none" THEN "none" ELSE "reset"
           f == [policy EXCEPT !.launch = launch]
           t == Reconcile(f)
           c == CancelHandoff(t)
           b == BeginHandoff(c, Entry, vm, policy.session)
           r == [b EXCEPT !.launch = IF b.handoff = NoHandoff THEN "none" ELSE "held"]
<1>1. policy \in Policy /\ Weak(policy)
  BY DEF Inv, Weak
<1>2. \/ policy' = HardClose(policy)
      \/ /\ ~policy.enabled \/ Busy(policy)
         /\ policy' = CancelHandoff([policy EXCEPT !.launch = "none"])
         /\ policy.status # "suspended"
      \/ ~t.enabled /\ policy' = t
      \/ t.enabled /\ policy' = r
  <2>1. [policy EXCEPT !.launch = IF @ = "none" THEN @ ELSE "reset"] = f
    BY <1>1
  <2>2. QED
    BY <2>1 DEF BeginsHandoff
<1>3. CASE policy' = HardClose(policy)
  BY <1>1, <1>3, HardCloseKeeps
<1>4. CASE /\ policy' = CancelHandoff([policy EXCEPT !.launch = "none"])
           /\ policy.status # "suspended"
  <2> DEFINE n == [policy EXCEPT !.handoff = NoHandoff, !.launch = "none"]
  <2>1. NoHandoff \in [source : Windows \cup {NoWindow}, target : Windows \cup {NoWindow},
                       vm : VMs \cup {NoVm}, session : Generations]
        /\ NoHandoff.source = NoWindow
    BY GenAssumption DEF NoHandoff, Generations
  <2>2. Inv(n) /\ n.mic = policy.mic /\ n.task = policy.task
    BY <1>4, <2>1, HandoffKeeps
  <2>3. CancelHandoff([policy EXCEPT !.launch = "none"]) = n
    BY <1>1 DEF CancelHandoff, Policy
  <2> HIDE DEF n
  <2>4. QED
    BY <1>4, <2>2, <2>3 DEF Keeps
<1>5. Keeps(policy, t) /\ Follows(t, f) /\ f.mic = policy.mic /\ f.task = policy.task
      /\ f.handoff = policy.handoff /\ f.vm = policy.vm /\ f.session = policy.session
  <2>1. /\ f \in Policy /\ f.mic = policy.mic /\ f.fault = policy.fault
        /\ f.windows = policy.windows
        /\ f.handoff = policy.handoff /\ f.preflight = policy.preflight
        /\ f.requestOwner = policy.requestOwner /\ f.vm = policy.vm
        /\ f.session = policy.session /\ f.enabled = policy.enabled
        /\ f.status = policy.status /\ f.task = policy.task /\ f.sync = policy.sync
        /\ f.asked = policy.asked
    BY <1>1 DEF Policy
  <2> HIDE DEF f
  <2>2. Core(policy)
    BY InvCore
  <2>3. Core(f)
    BY <2>1, <2>2, CoreFrame
  <2>4. QED
    BY <2>1, <2>3, ReconcileKeeps
<1>6. CASE t.enabled /\ policy' = r
  <2> DEFINE begun == [source |-> Entry, target |-> NoWindow, vm |-> vm,
                       session |-> policy.session]
             h == IF Visible(c, Entry, vm, policy.session) THEN begun ELSE NoHandoff
             launched == IF h = NoHandoff THEN "none" ELSE "held"
  <2> HIDE DEF f, t
  <2>1. t \in Policy /\ Inv(t) /\ t.status # "suspended"
    BY <1>5, <1>6 DEF Follows, Inv, Weak, SuspendedInv
  <2>2. h \in [source : Windows \cup {NoWindow}, target : Windows \cup {NoWindow},
               vm : VMs \cup {NoVm}, session : Generations]
        /\ (h = NoHandoff <=> h.source = NoWindow)
    <3>1. 0 \in Generations /\ policy.session \in Generations
      BY <1>1, GenAssumption DEF Generations, Policy
    <3>2. QED
      BY <3>1, WindowAssumption DEF NoHandoff
  <2>3. b = [t EXCEPT !.handoff = h]
    BY <2>1 DEF BeginHandoff, CancelHandoff, Policy
  <2> HIDE DEF h
  <2>4. r = [t EXCEPT !.handoff = h, !.launch = launched]
    <3>1. b.handoff = h
      BY <2>1, <2>3 DEF Policy
    <3>2. QED
      BY <2>1, <2>3, <3>1 DEF Policy
  <2>5. launched \in {"none", "held", "reset"}
    OBVIOUS
  <2> HIDE DEF launched, b, c
  <2>6. Inv(r) /\ r.mic = t.mic /\ r.task = t.task /\ r.windows = t.windows
    <3> DEFINE n == [t EXCEPT !.handoff = h, !.launch = launched]
    <3>1. Inv(n) /\ n.mic = t.mic /\ n.task = t.task /\ n.windows = t.windows
      BY <2>1, <2>2, <2>5, HandoffKeeps
    <3> HIDE DEF r
    <3>2. r = n
      BY <2>4
    <3> HIDE DEF n
    <3>3. QED
      BY <3>1, <3>2
  <2> HIDE DEF r
  <2>7. QED
    BY <1>5, <1>6, <2>6 DEF Keeps, Follows, Shown
<1>7. QED
  BY <1>2, <1>3, <1>4, <1>5, <1>6

LEMMA LaunchKeeps ==
  ASSUME Inv(policy), LaunchSettles
  PROVE  Keeps(policy, policy')
<1> DEFINE r == [policy EXCEPT !.launch = "none"]
<1>1. policy \in Policy
  BY DEF Inv, Weak
<1>2. /\ r \in Policy /\ r.mic = policy.mic /\ r.fault = policy.fault
      /\ r.windows = policy.windows
      /\ r.handoff = policy.handoff /\ r.appForeground = policy.appForeground
      /\ r.guardsReady = policy.guardsReady
      /\ r.screenBlocked = policy.screenBlocked /\ r.preflight = policy.preflight
      /\ r.requestOwner = policy.requestOwner /\ r.vm = policy.vm
      /\ r.session = policy.session /\ r.enabled = policy.enabled
      /\ r.status = policy.status /\ r.task = policy.task /\ r.sync = policy.sync
      /\ r.asked = policy.asked
  BY <1>1 DEF Policy
<1>3. policy' \in {r, HardStop(HardClose(r))}
  BY DEF LaunchSettles
<1> HIDE DEF r
<1>4. Inv(r) /\ Weak(r)
  BY <1>2, FrameInv DEF Inv
<1>5. Keeps(policy, r)
  BY <1>2, <1>4 DEF Keeps
<1>6. Keeps(policy, HardStop(HardClose(r)))
  BY <1>2, <1>4, HardCloseKeeps
<1>7. QED
  BY <1>3, <1>5, <1>6

(* The user asks; the request is remembered, the old consent closed.       *)
LEMMA EnableBeginsKeeps ==
  ASSUME Inv(policy), NEW w \in Windows, NEW vm \in VMs, EnableBegins(w, vm)
  PROVE  Keeps(policy, policy')
<1> DEFINE session == SessionOf(policy.mic, vm)
           c == CancelConsent(policy)
           t == BindEntry(c, w, vm, session)
           p == [owner |-> w, vm |-> vm, session |-> session]
           q == [vm |-> vm, session |-> session]
           r == [t EXCEPT !.preflight = p, !.requestOwner = w, !.asked = q]
<1>1. policy \in Policy /\ Weak(policy)
  BY DEF Inv, Weak
<1>2. policy' = r /\ ~Busy(policy)
  BY DEF EnableBegins
<1>3. /\ session \in Generations /\ session <= policy.mic.generation
      /\ policy.mic.generation \in Nat
      /\ session > 0 => policy.mic.active
  BY <1>1, GenAssumption DEF SessionOf, Policy, Session, Generations
<1>4. ShutFrom(c, policy) /\ c.preflight = NoPreflight
  BY <1>1, CancelConsentShuts
<1>5. c.mic.generation = policy.mic.generation
  <2> DEFINE e == [NextEpoch(policy) EXCEPT !.foreground = policy.foreground]
  <2>1. policy.foreground \in BOOLEAN
    BY <1>1 DEF Policy
  <2>2. Weak(e) /\ e.handoff = NoHandoff /\ e.mic = policy.mic
    BY <1>1, <2>1, EpochWeak
  <2>3. e = NextEpoch(policy)
    BY <1>1 DEF Policy, NextEpoch, CancelHandoff
  <2> HIDE DEF e
  <2>4. c = Shut(e, "disabled", NoHandoff) /\ e \in Policy
    BY <2>2, <2>3, DisableEffect DEF Weak, KeptHandoff, CancelConsent
  <2>5. QED
    BY <2>2, <2>4 DEF Shut, Policy, Session
<1> HIDE DEF c, session
<1>6. c \in Policy /\ Core(c) /\ ~Busy(c) /\ c.session = 0 /\ ~c.enabled
      /\ c.status # "suspended"
  BY <1>2, <1>4, InvCore DEF ShutFrom, Core, Weak, Busy
<1>7. /\ t \in Policy /\ t.mic = c.mic /\ t.fault = c.fault
      /\ t.handoff = c.handoff /\ t.preflight = c.preflight
      /\ t.requestOwner = c.requestOwner /\ t.vm = c.vm
      /\ t.session = c.session /\ t.enabled = c.enabled
      /\ t.status = c.status /\ t.task = c.task /\ t.sync = c.sync
      /\ t.asked = c.asked
  <2>1. CASE w # Entry
    BY <1>6, <2>1 DEF BindEntry
  <2>2. CASE w = Entry
    <3> DEFINE v1 == [c.windows[w] EXCEPT !.vm = vm]
               v2 == [v1 EXCEPT !.session = session]
               ws == [c.windows EXCEPT ![w] = v2]
    <3>1. c.windows \in [Windows -> [open : BOOLEAN, vm : VMs \cup {NoVm},
                                    session : Generations, up : SUBSET Signals]]
      BY <1>6 DEF Policy
    <3>2. v2 \in [open : BOOLEAN, vm : VMs \cup {NoVm}, session : Generations,
                  up : SUBSET Signals]
      BY <1>3, <3>1
    <3>3. t = [c EXCEPT !.windows = ws]
      <4>1. [[c.windows EXCEPT ![w] = v1] EXCEPT ![w] = v2] = ws
        BY <3>1
      <4>2. [c.windows EXCEPT ![w] = v1][w] = v1
        BY <3>1
      <4>3. t = [[c EXCEPT !.windows = [c.windows EXCEPT ![w] = v1]]
                    EXCEPT !.windows = [[c.windows EXCEPT ![w] = v1] EXCEPT ![w] = v2]]
        BY <1>6, <2>2, <4>2 DEF BindEntry, Policy
      <4>4. QED
        BY <1>6, <4>1, <4>3 DEF Policy
    <3> HIDE DEF v1, v2
    <3>4. ws \in [Windows -> [open : BOOLEAN, vm : VMs \cup {NoVm},
                              session : Generations, up : SUBSET Signals]]
      BY <3>1, <3>2
    <3> HIDE DEF ws, t
    <3>5. QED
      BY <1>6, <3>3, <3>4 DEF Policy
  <2>3. QED
    BY <2>1, <2>2
<1> HIDE DEF t
<1>8. p \in [owner : Windows \cup {NoWindow}, vm : VMs \cup {NoVm}, session : Generations]
      /\ q \in Consents
  BY <1>3 DEF Consents
<1> HIDE DEF p, q
<1>9. /\ r \in Policy /\ r.mic = c.mic /\ r.fault = c.fault
      /\ r.handoff = c.handoff /\ r.preflight = p
      /\ r.requestOwner = w /\ r.vm = c.vm
      /\ r.session = c.session /\ r.enabled = c.enabled
      /\ r.status = c.status /\ r.task = c.task /\ r.sync = c.sync
      /\ r.asked = q
  BY <1>7, <1>8 DEF Policy
<1> HIDE DEF r
<1>10. PreflightInv(r)
  BY <1>3, <1>5, <1>6, <1>9 DEF PreflightInv, p, q
<1>11. Weak(r)
  BY <1>6, <1>9, <1>10 DEF Core, Weak, Closable
<1>12. TaskInv(r) /\ SuspendedInv(r) /\ HandoffInv(r)
  BY <1>6, <1>9 DEF Core, TaskInv, SuspendedInv, HandoffInv, Busy
<1>13. AskedInv(r)
  BY <1>6, <1>9 DEF AskedInv, Live
<1>14. ~r.mic.gate /\ r.task.kind = policy.task.kind
  BY <1>4, <1>9 DEF ShutFrom
<1>15. Inv(r)
  BY <1>6, <1>9, <1>11, <1>12, <1>13, <1>14, CoreIdle DEF Core
<1>16. QED
  BY <1>2, <1>14, <1>15 DEF Keeps

(* The screen was asked; the request begins if its window is visible.      *)
LEMMA PreflightKeeps ==
  ASSUME Inv(policy), PreflightSettles
  PROVE  Keeps(policy, policy')
<1> DEFINE p == policy.preflight
<1>1. policy \in Policy /\ Weak(policy) /\ Core(policy)
  BY InvCore DEF Inv, Weak
<1>2. CASE policy' = HardClose(policy)
  BY <1>1, <1>2, HardCloseKeeps
<1>3. ASSUME NEW locked \in BOOLEAN,
             policy' = LET t == [policy EXCEPT !.screenBlocked = locked]
                       IN  IF \/ locked
                              \/ ~t.screenActive
                              \/ ~Visible(t, p.owner, p.vm, p.session)
                           THEN HardClose(t)
                           ELSE EnableConsent(
                                  SetForeground([t EXCEPT !.preflight = NoPreflight], TRUE),
                                  p.vm)
      PROVE  Keeps(policy, policy')
  <2> DEFINE t == [policy EXCEPT !.screenBlocked = locked]
             n == [t EXCEPT !.preflight = NoPreflight]
             u == SetForeground(n, TRUE)
             f == [n EXCEPT !.foreground = TRUE]
  <2>1. /\ t \in Policy /\ t.mic = policy.mic /\ t.fault = policy.fault
        /\ t.windows = policy.windows
        /\ t.handoff = policy.handoff /\ t.preflight = policy.preflight
        /\ t.requestOwner = policy.requestOwner /\ t.vm = policy.vm
        /\ t.session = policy.session /\ t.enabled = policy.enabled
        /\ t.status = policy.status /\ t.task = policy.task /\ t.sync = policy.sync
        /\ t.asked = policy.asked
    BY <1>1 DEF Policy
  <2>2. policy' = HardClose(t)
        \/ (Visible(t, p.owner, p.vm, p.session) /\ policy' = EnableConsent(u, p.vm))
    BY <1>3
  <2> HIDE DEF t
  <2>3. Core(t) /\ Weak(t)
    BY <1>1, <2>1, CoreFrame DEF Core
  <2>4. CASE policy' = HardClose(t)
    BY <2>1, <2>3, <2>4, HardCloseKeeps
  <2>5. CASE Visible(t, p.owner, p.vm, p.session) /\ policy' = EnableConsent(u, p.vm)
    <3>1. /\ SessionOf(t.mic, p.vm) = p.session /\ p.session > 0
          /\ p.owner \in Windows
      BY <2>5 DEF Visible, SafeSession
    <3>2. /\ t.requestOwner = p.owner /\ t.session = 0 /\ ~t.enabled
          /\ t.asked = [vm |-> p.vm, session |-> p.session]
      BY <2>1, <2>3, <3>1, WindowAssumption DEF Weak, PreflightInv, Live
    <3>3. /\ n \in Policy /\ n.mic = policy.mic /\ n.fault = policy.fault
          /\ n.windows = t.windows /\ n.appForeground = t.appForeground
          /\ n.guardsReady = t.guardsReady /\ n.screenBlocked = t.screenBlocked
          /\ n.handoff = policy.handoff /\ n.preflight = NoPreflight
          /\ n.requestOwner = policy.requestOwner /\ n.vm = policy.vm
          /\ n.session = policy.session /\ n.enabled = policy.enabled
          /\ n.status = policy.status /\ n.task = policy.task /\ n.sync = policy.sync
          /\ n.asked = policy.asked
      <4>1. NoPreflight \in [owner : Windows \cup {NoWindow}, vm : VMs \cup {NoVm},
                             session : Generations]
        BY GenAssumption DEF NoPreflight, Generations
      <4>2. QED
        BY <2>1, <4>1 DEF Policy
    <3> HIDE DEF n
    <3>4. Core(n)
      <4>1. Weak(n)
        BY <2>1, <2>3, <3>3 DEF Weak, Closable, PreflightInv, NoPreflight
      <4>2. TaskInv(n) /\ SuspendedInv(n) /\ HandoffInv(n)
        BY <1>1, <3>3 DEF Core, TaskInv, SuspendedInv, HandoffInv, Busy
      <4>3. AskedInv(n)
        BY <1>1, <3>3 DEF Core, AskedInv, Live, SessionOf
      <4>4. QED
        BY <1>1, <3>3, <4>1, <4>2, <4>3 DEF Core
    <3>5. Inv(n)
      BY <2>1, <3>2, <3>3, <3>4, CoreIdle
    <3>6. Inv(u) /\ u \in {f, CancelHandoff(f)} /\ u.task = n.task /\ u.mic = n.mic
      BY <3>5, SetForegroundInv, SetForegroundFollows
    <3>7. /\ u.foreground /\ u.session = n.session /\ u.preflight = NoPreflight
          /\ u.requestOwner = n.requestOwner /\ u.asked = n.asked /\ u.windows = n.windows
          /\ u.appForeground = n.appForeground /\ u.guardsReady = n.guardsReady
          /\ u.screenBlocked = n.screenBlocked
      BY <3>3, <3>6 DEF CancelHandoff, Policy
    <3> HIDE DEF u, f
    <3> DEFINE session == SessionOf(u.mic, p.vm)
    <3>8. /\ u.mic = t.mic /\ u.requestOwner = p.owner /\ u.asked = t.asked /\ u.session = 0
          /\ u.windows = t.windows /\ u.appForeground = t.appForeground
          /\ u.guardsReady = t.guardsReady /\ u.screenBlocked = t.screenBlocked
      <4> HIDE DEF p
      <4>1. QED
        BY <2>1, <3>2, <3>3, <3>6, <3>7
    <3>9. /\ session = p.session /\ u.asked = [vm |-> p.vm, session |-> session]
          /\ Visible(u, u.requestOwner, p.vm, session)
      <4> HIDE DEF p
      <4>1. session = p.session
        BY <3>1, <3>8
      <4>2. Visible(u, p.owner, p.vm, p.session)
        BY <2>5, <3>8 DEF Visible, SafeSession
      <4> HIDE DEF session
      <4>3. QED
        BY <3>2, <3>8, <4>1, <4>2
    <3>10. LET r == EnableConsent(u, p.vm)
           IN  /\ Inv(r) /\ (r.mic.gate => u.mic.gate)
               /\ r.task.kind = "resume" => u.task.kind = "resume"
      BY <3>6, <3>7, <3>8, <3>9, EnableConsentInv
    <3>11. QED
      BY <2>5, <3>3, <3>6, <3>10 DEF Keeps
  <2>6. QED
    BY <2>2, <2>4, <2>5
<1>4. QED
  BY <1>2, <1>3 DEF PreflightSettles

-----------------------------------------------------------------------------
(* The awaits of the consent.                                              *)

LEMMA SettleKeeps ==
  ASSUME NEW s, NEW t, Inv(t), t.status # "suspended" \/ ~Busy(t), t.mic.gate => s.mic.gate
  PROVE  Keeps(s, Settle(t))
BY SettleInv DEF Keeps

LEMMA SettleShut ==
  ASSUME NEW s, NEW r, ShutFrom(r, s)
  PROVE  Keeps(s, Settle(r))
BY SettleKeeps DEF ShutFrom

LEMMA ThrowsKeeps ==
  ASSUME Inv(policy)
  PROVE  Keeps(policy, Settle(Throws(policy.task)))
<1>1. CASE policy.task.current
  <2>1. "error" \in Statuses \ {"suspended"}
    BY DEF Statuses
  <2>2. ShutFrom(FailConsent(policy, "error"), policy)
    BY <2>1, FailShuts DEF Inv
  <2>3. QED
    BY <1>1, <2>2, SettleShut DEF Throws
<1>2. CASE ~policy.task.current
  BY <1>2, SettleKeeps DEF Throws, Inv, SuspendedInv
<1>3. QED
  BY <1>1, <1>2

LEMMA GiveUpKeeps ==
  ASSUME Inv(policy), ~IsCurrent(policy, policy.task, TRUE)
  PROVE  Keeps(policy, Settle(GiveUp(policy, policy.task, TRUE)))
<1>1. CASE policy.task.current
  <2>1. GiveUp(policy, policy.task, TRUE) = DisableConsent(policy)
    BY <1>1 DEF IsCurrent, GiveUp
  <2>2. ShutFrom(DisableConsent(policy), policy)
    BY DisableShuts DEF Inv
  <2>3. QED
    BY <2>1, <2>2, SettleShut
<1>2. CASE ~policy.task.current
  <2>1. GiveUp(policy, policy.task, TRUE) = policy
    BY <1>2 DEF GiveUp
  <2>2. QED
    BY <1>2, <2>1, SettleKeeps DEF Inv, SuspendedInv
<1>3. QED
  BY <1>1, <1>2

LEMMA MovesKeeps ==
  ASSUME Inv(policy), NEW t \in TaskType({"enable", "resume"}),
         t.kind = policy.task.kind, t.vm = policy.task.vm, t.session = policy.task.session,
         t.current = policy.task.current
  PROVE  Keeps(policy, [policy EXCEPT !.task = t])
BY TaskMovesInv DEF Keeps

LEMMA LockKeeps ==
  ASSUME Inv(policy), TaskChecksLock
  PROVE  Keeps(policy, policy')
<1> DEFINE t == [policy.task EXCEPT !.pc = IF policy.task.pc = "lock" THEN "token"
                                           ELSE "tokenAgain"]
<1>1. policy \in Policy
  BY DEF Inv, Weak
<1>2. policy' \in {[policy EXCEPT !.task = t], Settle(Throws(policy.task))}
  BY DEF TaskChecksLock
<1>3. /\ t \in TaskType({"enable", "resume"}) /\ t.kind = policy.task.kind
      /\ t.vm = policy.task.vm /\ t.session = policy.task.session
      /\ t.current = policy.task.current
  BY <1>1 DEF Policy, TaskType
<1> HIDE DEF t
<1>4. Keeps(policy, [policy EXCEPT !.task = t])
  BY <1>3, MovesKeeps
<1>5. QED
  BY <1>2, <1>4, ThrowsKeeps

LEMMA TokenKeeps ==
  ASSUME Inv(policy), TaskChecksToken
  PROVE  Keeps(policy, policy')
<1> DEFINE t == policy.task
<1>1. policy \in Policy /\ Weak(policy)
  BY DEF Inv, Weak
<1>2. CASE policy' = Settle(Throws(t))
  BY <1>2, ThrowsKeeps
<1>3. ASSUME t.kind \in {"enable", "resume"}, t.kind = "resume" => policy.fault = "none",
             NEW native \in NativeReplies, IsCurrent(policy, t, TRUE)
      PROVE  Keeps(policy, Settle(EnableNative(policy, t.vm, t.session, native)))
  BY <1>3, EnableNativeInv DEF Keeps
<1>4. ASSUME NEW status \in Statuses \ {"suspended"}
      PROVE  Keeps(policy, Settle(FailConsent(policy, status)))
  BY <1>1, FailShuts, SettleShut
<1>5. CASE t.kind = "enable" /\ \E r \in EnableGranted(t) : policy' = Settle(r)
  <2>1. CASE IsCurrent(policy, t, TRUE)
    BY <1>3, <1>5, <2>1 DEF EnableGranted
  <2>2. CASE ~IsCurrent(policy, t, TRUE)
    BY <1>5, <2>2, GiveUpKeeps DEF EnableGranted
  <2>3. QED
    BY <2>1, <2>2
<1>6. CASE t.kind = "resume" /\ \E r \in ResumeGranted(t) : policy' = Settle(r)
  <2> DEFINE status == NativeStatus(policy, t.vm)
  <2>1. CASE ~IsCurrent(policy, t, TRUE)
    BY <1>6, <2>1, GiveUpKeeps DEF ResumeGranted, EnableGranted
  <2>2. CASE IsCurrent(policy, t, TRUE) /\ status # "disabled"
    <3>1. BlockedOrError(status) \in Statuses \ {"suspended"}
      BY DEF BlockedOrError, Statuses
    <3>2. Keeps(policy, Settle(FailConsent(policy, BlockedOrError(status))))
      BY <1>4, <3>1
    <3>3. QED
      BY <1>6, <2>2, <3>2 DEF ResumeGranted
  <2>3. CASE IsCurrent(policy, t, TRUE) /\ status = "disabled"
    <3>1. policy.fault = "none"
      BY <1>1, <2>3, StatusReading
    <3>2. PICK native \in NativeReplies :
            policy' = Settle(EnableNative(policy, t.vm, t.session, native))
      BY <1>6, <2>3 DEF ResumeGranted, EnableGranted
    <3>3. QED
      BY <1>3, <1>6, <2>3, <3>1, <3>2
  <2>4. QED
    BY <2>1, <2>2, <2>3
<1>7. CASE policy' = Settle(Denied(t, IF t.kind = "resume" THEN "blocked" ELSE "denied"))
  <2> DEFINE status == IF t.kind = "resume" THEN "blocked" ELSE "denied"
  <2>1. status \in Statuses \ {"suspended"}
    BY DEF Statuses
  <2>2. Keeps(policy, Settle(FailConsent(policy, status)))
    BY <1>4, <2>1
  <2>3. CASE IsCurrent(policy, t, TRUE)
    BY <1>7, <2>2, <2>3 DEF Denied
  <2>4. CASE ~IsCurrent(policy, t, TRUE)
    BY <1>7, <2>4, GiveUpKeeps DEF Denied
  <2>5. QED
    BY <2>3, <2>4
<1>8. CASE policy' = IF IsCurrent(policy, t, TRUE)
                     THEN AsksUser(t) ELSE Settle(GiveUp(policy, t, TRUE))
  <2> DEFINE d == [t EXCEPT !.pc = "dialog"]
  <2>1. /\ d \in TaskType({"enable", "resume"}) /\ d.kind = t.kind
        /\ d.vm = t.vm /\ d.session = t.session /\ d.current = t.current
    BY <1>1 DEF Policy, TaskType
  <2>2. Keeps(policy, [policy EXCEPT !.task = d])
    <3> HIDE DEF d
    <3> QED
      BY <2>1, MovesKeeps
  <2>3. CASE IsCurrent(policy, t, TRUE)
    BY <1>8, <2>2, <2>3, ThrowsKeeps DEF AsksUser
  <2>4. CASE ~IsCurrent(policy, t, TRUE)
    BY <1>8, <2>4, GiveUpKeeps
  <2>5. QED
    BY <2>3, <2>4
<1>9. QED
  BY <1>2, <1>5, <1>6, <1>7, <1>8 DEF TaskChecksToken

LEMMA DialogKeeps ==
  ASSUME Inv(policy), DialogSettles
  PROVE  Keeps(policy, policy')
<1> DEFINE t == [policy.task EXCEPT !.pc = "lockAgain", !.epoch = TRUE]
<1>1. policy \in Policy
  BY DEF Inv, Weak
<1>2. \/ policy' = [policy EXCEPT !.task = t]
      \/ ~IsCurrent(policy, policy.task, TRUE)
         /\ policy' = Settle(GiveUp(policy, policy.task, TRUE))
      \/ policy' = Settle(Throws(policy.task))
  <2>1. [policy EXCEPT !.task.pc = "lockAgain", !.task.epoch = TRUE] = [policy EXCEPT !.task = t]
    BY <1>1 DEF Policy, TaskType
  <2>2. QED
    BY <2>1 DEF DialogSettles
<1>3. /\ t \in TaskType({"enable", "resume"}) /\ t.kind = policy.task.kind
      /\ t.vm = policy.task.vm /\ t.session = policy.task.session
      /\ t.current = policy.task.current
  BY <1>1 DEF Policy, TaskType
<1> HIDE DEF t
<1>4. Keeps(policy, [policy EXCEPT !.task = t])
  BY <1>3, MovesKeeps
<1>5. QED
  BY <1>2, <1>4, ThrowsKeeps, GiveUpKeeps

LEMMA SyncDoneKeeps ==
  ASSUME NEW s, NEW t, Inv(t), t.mic.gate => s.mic.gate, t.task.kind = s.task.kind
  PROVE  Keeps(s, SyncDone(t))
BY SyncDoneInv DEF Keeps

LEMMA SyncKeeps ==
  ASSUME Inv(policy), SyncChecksLock \/ SyncChecksToken
  PROVE  Keeps(policy, policy')
<1> DEFINE t == policy.sync
           status == NativeStatus(policy, t.vm)
           m == [t EXCEPT !.pc = "token"]
<1>1. policy \in Policy /\ Weak(policy)
  BY DEF Inv, Weak
<1>2. ASSUME NEW r, ShutFrom(r, policy)
      PROVE  Keeps(policy, SyncDone(r))
  BY <1>2, SyncDoneKeeps DEF ShutFrom
<1>3. ASSUME NEW x \in Statuses \ {"suspended"}
      PROVE  Keeps(policy, SyncDone(FailConsent(policy, x)))
  BY <1>1, <1>2, FailShuts
<1>4. {"blocked", "error", "disabled", "unavailable"} \subseteq Statuses \ {"suspended"}
  BY DEF Statuses
<1>5. Keeps(policy, SyncDone(policy))
  BY SyncDoneKeeps
<1>6. Keeps(policy, SyncDone(Throws(t)))
  BY <1>3, <1>4, <1>5 DEF Throws
<1>7. CASE SyncChecksLock
  <2>1. policy' \in {[policy EXCEPT !.sync = m], SyncDone(Throws(t))}
    BY <1>7 DEF SyncChecksLock
  <2>2. /\ m \in TaskType({"enabled", "suspended"}) /\ m.vm = t.vm /\ m.session = t.session
        /\ m.current = t.current
    BY <1>1 DEF Policy, TaskType
  <2> HIDE DEF m
  <2>3. m.current => /\ ~Busy(policy) /\ policy.session # 0
                     /\ m.vm = policy.vm /\ m.session = policy.session
    BY <2>2 DEF Inv, TaskInv
  <2>4. Keeps(policy, [policy EXCEPT !.sync = m])
    BY <2>2, <2>3, SyncMovesInv DEF Keeps
  <2>5. QED
    BY <1>6, <2>1, <2>4
<1>8. CASE SyncChecksToken
  <2>1. CASE policy' = SyncDone(Throws(t))
    BY <1>6, <2>1
  <2>2. ASSUME NEW fg, policy' = SyncDone(GiveUp(policy, t, fg))
        PROVE  Keeps(policy, policy')
    <3>1. GiveUp(policy, t, fg) \in {policy, DisableConsent(policy)}
      BY DEF GiveUp
    <3>2. QED
      BY <1>1, <1>2, <1>5, <2>2, <3>1, DisableShuts
  <2>3. CASE policy' = SyncDone(FailConsent(policy, "blocked"))
    BY <1>3, <1>4, <2>3
  <2>4. CASE policy' \in {SyncDone(policy), SyncDone(FailConsent(policy, BlockedOrError(status)))}
    BY <1>3, <1>4, <1>5, <2>4 DEF BlockedOrError
  <2>5. CASE t.current /\ policy' = SyncDone(ApplyNativeStatus(policy, status))
    <3>1. CASE status # "armed"
      <4>1. status \in {"unavailable", "blocked", "error", "disabled"}
        BY <1>1, <3>1, StatusReading
      <4>2. QED
        BY <1>3, <1>4, <2>5, <3>1, <4>1 DEF ApplyNativeStatus
    <3>2. CASE status = "armed"
      <4> DEFINE r == [policy EXCEPT !.enabled = TRUE, !.status = "armed"]
      <4>1. policy.mic.gate /\ policy.enabled
        BY <1>1, <3>2, StatusReading DEF Inv, GateInv
      <4>2. ~Busy(policy) /\ policy.session # 0
        BY <2>5 DEF Inv, TaskInv
      <4>3. /\ r \in Policy /\ r.mic = policy.mic /\ r.fault = policy.fault
            /\ r.windows = policy.windows
            /\ r.handoff = policy.handoff /\ r.appForeground = policy.appForeground
            /\ r.guardsReady = policy.guardsReady
            /\ r.screenBlocked = policy.screenBlocked /\ r.preflight = policy.preflight
            /\ r.requestOwner = policy.requestOwner /\ r.vm = policy.vm
            /\ r.session = policy.session /\ r.enabled
            /\ r.status = "armed" /\ r.task = policy.task /\ r.sync = policy.sync
            /\ r.asked = policy.asked
        BY <1>1 DEF Policy, Statuses
      <4>4. policy' = SyncDone(Publish(r))
        BY <2>5, <3>2 DEF ApplyNativeStatus
      <4> HIDE DEF r
      <4>5. Publish(r) = r
        BY <4>3 DEF Publish
      <4>6. policy.preflight.owner = NoWindow
        BY <1>1, <4>2 DEF Weak, PreflightInv
      <4>7. Weak(r)
        BY <1>1, <4>3, <4>6 DEF Weak, Closable, PreflightInv
      <4>8. TaskInv(r) /\ SuspendedInv(r) /\ HandoffInv(r)
        BY <4>2, <4>3 DEF Inv, TaskInv, SuspendedInv, HandoffInv, Busy
      <4>9. AskedInv(r)
        BY <4>1, <4>3 DEF Inv, AskedInv, Live, SessionOf
      <4>10. GateInv(r) /\ RequestInv(r)
        BY <4>3 DEF Inv, GateInv, RequestInv, Shown
      <4>11. Inv(r)
        BY <4>7, <4>8, <4>9, <4>10 DEF Inv
      <4>12. QED
        BY <4>3, <4>4, <4>5, <4>11, SyncDoneKeeps
    <3>3. QED
      BY <3>1, <3>2
  <2>6. QED
    BY <1>8, <2>1, <2>2, <2>3, <2>4, <2>5 DEF SyncChecksToken, IsCurrent
<1>9. QED
  BY <1>7, <1>8

-----------------------------------------------------------------------------
(* The VM and its audio core.                                              *)

(* A new run has a new generation, which no consent of another run has.    *)
LEMMA VmStartsKeeps ==
  ASSUME Inv(policy), NEW vm \in VMs, VmStarts(vm)
  PROVE  Keeps(policy, policy')
<1> DEFINE g == policy.mic.generation + 1
           m == [policy.mic EXCEPT !.gate = FALSE, !.name = vm, !.active = TRUE,
                                   !.generation = g]
           r == [policy EXCEPT !.mic = m]
<1>1. policy \in Policy /\ Weak(policy)
  BY DEF Inv, Weak
<1>2. policy.mic.generation \in Nat /\ g < GenWidth /\ g > 0 /\ g \in Generations
      /\ NextGeneration(policy.mic.generation) = g
  <2>1. policy.mic.generation \in 0 .. GenWidth - 1 /\ policy.mic.generation < MaxRuns
    BY <1>1 DEF VmStarts, Policy, Session, Generations
  <2>2. QED
    BY <2>1, RunsAssumption, GenAssumption DEF NextGeneration, Generations
<1>3. policy' = r
  <2> DEFINE n == Begin(policy.mic, vm)
  <2>1. n = [policy.mic EXCEPT !.gate = FALSE, !.name = vm, !.active = FALSE,
                               !.generation = g]
    BY <1>1, <1>2 DEF Begin, Disable, Policy, Session
  <2>2. n.generation = g /\ n.name = vm
    BY <1>1, <2>1 DEF Policy, Session
  <2>3. Running(n, n.generation) = [n EXCEPT !.active = TRUE]
    BY <2>2, VmAssumption DEF Running
  <2>4. [n EXCEPT !.active = TRUE] = m
    BY <1>1, <2>1 DEF Policy, Session
  <2>5. QED
    BY <2>3, <2>4 DEF VmStarts
<1>4. /\ m \in Session /\ ~m.gate /\ m.name = vm /\ m.generation = g /\ m.active
  BY <1>1, <1>2 DEF Policy, Session
<1> HIDE DEF m
<1>5. /\ r \in Policy /\ r.mic = m /\ r.fault = policy.fault
      /\ r.windows = policy.windows
      /\ r.handoff = policy.handoff /\ r.preflight = policy.preflight
      /\ r.requestOwner = policy.requestOwner
      /\ r.vm = policy.vm /\ r.session = policy.session /\ r.enabled = policy.enabled
      /\ r.status = policy.status /\ r.task = policy.task /\ r.sync = policy.sync
      /\ r.asked = policy.asked
  BY <1>1, <1>4 DEF Policy
<1> HIDE DEF r
<1>6. policy.session < g /\ policy.session \in Nat
  BY <1>1, <1>2 DEF Weak, Policy, Generations
<1> HIDE DEF g
<1>7. g # policy.session
  BY <1>6
<1>8. PreflightInv(r)
  <2>1. policy.preflight.session \in Nat
    BY <1>1 DEF Policy, Generations
  <2>2. policy.preflight.owner # NoWindow => policy.preflight.session < g
    BY <1>1, <1>2, <2>1 DEF Weak, PreflightInv, g
  <2>3. QED
    BY <1>1, <1>2, <1>4, <1>5, <2>1, <2>2 DEF Weak, PreflightInv, Live, SessionOf, Generations
<1>9. Weak(r)
  BY <1>1, <1>2, <1>4, <1>5, <1>6, <1>8 DEF Weak, Closable, Generations
<1>10. TaskInv(r) /\ SuspendedInv(r) /\ HandoffInv(r) /\ RequestInv(r)
  BY <1>4, <1>5 DEF Inv, TaskInv, SuspendedInv, HandoffInv, RequestInv, Busy, Shown
<1>11. AskedInv(r) /\ GateInv(r)
  BY <1>4, <1>5, <1>7, <1>6 DEF AskedInv, GateInv, Live, SessionOf
<1>12. Inv(r)
  BY <1>9, <1>10, <1>11 DEF Inv
<1>13. QED
  BY <1>3, <1>4, <1>5, <1>12 DEF Keeps

LEMMA VmEndsKeeps ==
  ASSUME Inv(policy), VmEnds
  PROVE  Keeps(policy, policy')
<1> DEFINE m == [policy.mic EXCEPT !.gate = FALSE, !.active = FALSE, !.name = NoVm]
           r == [policy EXCEPT !.mic = m]
<1>1. policy \in Policy /\ Weak(policy)
  BY DEF Inv, Weak
<1>2. End(policy.mic, policy.mic.generation) = m
  BY <1>1 DEF End, Close, Disable, Policy, Session
<1>3. policy' = HardStop(r)
  BY <1>2 DEF VmEnds
<1>4. m \in Session /\ ~m.gate /\ ~m.active /\ m.generation = policy.mic.generation
  BY <1>1 DEF Policy, Session
<1> HIDE DEF m
<1>5. /\ r \in Policy /\ r.mic = m /\ r.fault = policy.fault
      /\ r.windows = policy.windows
      /\ r.handoff = policy.handoff /\ r.preflight = policy.preflight
      /\ r.requestOwner = policy.requestOwner
      /\ r.vm = policy.vm /\ r.session = policy.session /\ r.enabled = policy.enabled
      /\ r.status = policy.status /\ r.task = policy.task /\ r.sync = policy.sync
      /\ r.asked = policy.asked
  BY <1>1, <1>4 DEF Policy
<1> HIDE DEF r
<1>6. Weak(r)
  <2>1. ~Live(r, r.preflight.vm, r.preflight.session)
    BY <1>4, <1>5 DEF Live, SessionOf
  <2>2. QED
    BY <1>1, <1>4, <1>5, <2>1 DEF Weak, Closable, PreflightInv
<1>7. TaskInv(r) /\ SuspendedInv(r) /\ HandoffInv(r) /\ RequestInv(r)
  BY <1>4, <1>5 DEF Inv, TaskInv, SuspendedInv, HandoffInv, RequestInv, Busy, Shown
<1>8. AskedInv(r) /\ GateInv(r)
  BY <1>4, <1>5 DEF AskedInv, GateInv, Live, SessionOf
<1>9. Inv(r)
  BY <1>6, <1>7, <1>8 DEF Inv
<1>10. Inv(HardStop(r))
  BY <1>4, <1>5, <1>9, HardStopInv
<1>11. HardStop(r).mic = r.mic /\ HardStop(r).task = r.task
  BY <1>5 DEF HardStop, Policy
<1>12. QED
  BY <1>3, <1>4, <1>5, <1>10, <1>11 DEF Keeps

LEMMA FaultKeeps ==
  ASSUME Inv(policy), CoreFaults
  PROVE  Keeps(policy, policy')
<1>1. policy \in Policy /\ Weak(policy)
  BY DEF Inv, Weak
<1>2. PICK fault \in Faults \ {"none"} :
        policy' = IF policy.enabled \/ policy.status = "suspended"
                  THEN HardStop([policy EXCEPT !.fault = fault])
                  ELSE [policy EXCEPT !.fault = fault]
  BY DEF CoreFaults
<1> DEFINE r == [policy EXCEPT !.fault = fault]
<1>3. /\ r \in Policy /\ r.mic = policy.mic /\ r.fault = fault
      /\ r.windows = policy.windows
      /\ r.handoff = policy.handoff /\ r.preflight = policy.preflight
      /\ r.requestOwner = policy.requestOwner
      /\ r.vm = policy.vm /\ r.session = policy.session /\ r.enabled = policy.enabled
      /\ r.status = policy.status /\ r.task = policy.task /\ r.sync = policy.sync
      /\ r.asked = policy.asked /\ r.appForeground = policy.appForeground
      /\ r.guardsReady = policy.guardsReady /\ r.screenBlocked = policy.screenBlocked
  BY <1>1, <1>2 DEF Policy
<1>4. policy' = IF policy.enabled \/ policy.status = "suspended" THEN HardStop(r) ELSE r
  BY <1>2
<1> HIDE DEF r
<1>5. Weak(r)
  BY <1>1, <1>3 DEF Weak, Closable, PreflightInv, Live, SessionOf
<1>6. TaskInv(r) /\ SuspendedInv(r) /\ HandoffInv(r)
  BY <1>3 DEF Inv, TaskInv, SuspendedInv, HandoffInv, Busy
<1>7. AskedInv(r)
  BY <1>3 DEF Inv, AskedInv, Live, SessionOf
<1>8. GateInv(r) /\ RequestInv(r)
  BY <1>3 DEF Inv, GateInv, RequestInv, Shown
<1>9. Inv(r)
  BY <1>5, <1>6, <1>7, <1>8 DEF Inv
<1>10. CASE policy.enabled \/ policy.status = "suspended"
  <2>1. r.preflight.owner = NoWindow
    BY <1>1, <1>3, <1>10 DEF Weak, PreflightInv
  <2>2. ~(r.task.kind = "enable" /\ r.task.current) /\ r.fault # "none"
    BY <1>2, <1>3, <1>10 DEF Inv, TaskInv
  <2>3. Inv(HardStop(r))
    BY <1>9, <2>1, <2>2, HardStopInv
  <2>4. HardStop(r).mic = r.mic /\ HardStop(r).task = r.task
    BY <1>3 DEF HardStop, Policy
  <2>5. QED
    BY <1>3, <1>4, <1>10, <2>3, <2>4 DEF Keeps
<1>11. CASE ~(policy.enabled \/ policy.status = "suspended")
  BY <1>3, <1>4, <1>9, <1>11 DEF Keeps
<1>12. QED
  BY <1>10, <1>11

-----------------------------------------------------------------------------
(* The manager before its first event.                                     *)
LEMMA InitInv ==
  ASSUME Init
  PROVE  Inv(policy)
<1> USE DEF Init
<1>1. 0 \in Generations
  BY GenAssumption DEF Generations
<1>2. policy \in Policy
  <2>1. policy.mic \in Session
    BY <1>1 DEF NewSession, Session
  <2>2. policy.windows \in [Windows -> [open : BOOLEAN, vm : VMs \cup {NoVm},
                                        session : Generations, up : SUBSET Signals]]
    BY <1>1 DEF Closed
  <2>3. policy.task \in TaskType({"enable", "resume"})
        /\ policy.sync \in TaskType({"enabled", "suspended"})
    BY <1>1 DEF NoTask, TaskType
  <2>4. /\ policy.handoff \in [source : Windows \cup {NoWindow},
                               target : Windows \cup {NoWindow},
                               vm : VMs \cup {NoVm}, session : Generations]
        /\ policy.preflight \in [owner : Windows \cup {NoWindow}, vm : VMs \cup {NoVm},
                                 session : Generations]
        /\ policy.asked \in Consents
    BY <1>1 DEF NoHandoff, NoPreflight, NoSession, Consents
  <2>5. QED
    BY <1>1, <2>1, <2>2, <2>3, <2>4 DEF Policy, Statuses, Faults
<1>3. Weak(policy)
  BY <1>1, <1>2, GenAssumption
  DEF Weak, Closable, PreflightInv, NewSession, NoPreflight, NoHandoff, Generations
<1>4. QED
  BY <1>3
  DEF Inv, TaskInv, SuspendedInv, AskedInv, HandoffInv, GateInv, RequestInv, NewSession,
      NoTask, Busy, Live

(* One step of the manager, of the consent or of the VM.                   *)
LEMMA NextKeeps ==
  ASSUME Inv(policy), Next
  PROVE  Keeps(policy, policy')
<1>1. Weak(policy)
  BY DEF Inv
<1>2. CASE \/ ApplicationForeground \/ ApplicationBackground
           \/ ScreenUnlocked \/ ScreenLocked \/ ScreenActivityChanges \/ GuardsFail
  BY <1>2, ApplicationKeeps
<1>3. CASE \E w \in Windows : WindowEvents(w)
  BY <1>3, RegisterKeeps, ShowingKeeps, RemoveKeeps, SignalKeeps DEF WindowEvents
<1>4. CASE \E w \in Windows, vm \in VMs : EnableBegins(w, vm)
  BY <1>4, EnableBeginsKeeps
<1>5. CASE \E vm \in VMs : BeginsHandoff(vm) \/ VmStopped(vm) \/ VmStarts(vm)
  BY <1>1, <1>5, BeginsHandoffKeeps, VmStartsKeeps, CancelConsentKeeps DEF VmStopped
<1>6. CASE TimerTicks \/ LaunchSettles \/ PreflightSettles \/ UserDisables
  BY <1>1, <1>6, TimerKeeps, LaunchKeeps, PreflightKeeps, CancelConsentKeeps DEF UserDisables
<1>7. CASE TaskChecksLock \/ TaskChecksToken \/ DialogSettles
  BY <1>7, LockKeeps, TokenKeeps, DialogKeeps
<1>8. CASE SyncChecksLock \/ SyncChecksToken
  BY <1>8, SyncKeeps
<1>9. CASE VmEnds \/ CoreFaults
  BY <1>9, VmEndsKeeps, FaultKeeps
<1>10. QED
  BY <1>2, <1>3, <1>4, <1>5, <1>6, <1>7, <1>8, <1>9 DEF Next

(* The policy is always one whose gate somebody can see and close.         *)
LEMMA PolicyInv == Spec => []Inv(policy)
<1>1. Init => Inv(policy)
  BY InitInv
<1>2. Inv(policy) /\ [Next]_policy => Inv(policy)'
  <2>1. CASE Next
    BY <2>1, NextKeeps DEF Keeps
  <2>2. CASE UNCHANGED policy
    BY <2>2
  <2>3. QED
    BY <2>1, <2>2
<1>3. QED
  BY <1>1, <1>2, PTL DEF Spec

(* While the gate of microphone_session.h is open, the application is in   *)
(* the foreground with its guards in place, the screen is not blocked, a   *)
(* window of that very run is shown, and the consent says that it is       *)
(* enabled.                                                                *)
THEOREM GateIsVisible == Spec => []CaptureIsVisible
<1>1. Inv(policy) => CaptureIsVisible
  <2> HAVE Inv(policy)
  <2>1. policy \in Policy /\ Weak(policy)
    BY DEF Inv, Weak
  <2>2. TypeOK
    BY <2>1 DEF Policy, Statuses, Weak, TypeOK, WindowsType
  <2>3. QED
    BY <2>1, <2>2 DEF Inv, Weak, Closable, GateInv, CaptureIsVisible
<1>2. QED
  BY <1>1, PolicyInv, PTL

(* A permission request belongs to a window that is shown, and a suspended *)
(* consent (MicrophoneConsent.ets, suspend) is closed and has the handoff  *)
(* that can resume or cancel it.                                           *)
THEOREM RequestHasWindow == Spec => []ConsentHasWindow
<1>1. Inv(policy) => ConsentHasWindow
  BY DEF Inv, RequestInv, SuspendedInv, HandoffInv, ConsentHasWindow
<1>2. QED
  BY <1>1, PolicyInv, PTL

(* Whatever events, answers and settled handoffs come late, the gate only  *)
(* opens for the run the user last asked for and was not stopped since.    *)
THEOREM GateOpensOnRequest == Spec => OpensOnlyOnRequest
<1>1. Inv(policy) /\ [Next]_policy =>
        [~policy.mic.gate /\ policy'.mic.gate =>
           policy.asked = [vm |-> policy.mic.name, session |-> policy.mic.generation]]_policy
  BY NextKeeps DEF Keeps, AskedFor
<1>2. QED
  BY <1>1, PolicyInv, PTL DEF Spec, OpensOnlyOnRequest

(* A suspended consent resumes only when the window its handoff was issued *)
(* for is shown.                                                           *)
THEOREM ResumeIsAtTarget == Spec => ResumesAtTarget
<1>1. Inv(policy) /\ [Next]_policy =>
        [policy.task.kind = "none" /\ policy'.task.kind = "resume" =>
           Shown(policy', policy.handoff.target, policy.vm, policy.session)]_policy
  BY NextKeeps DEF Keeps
<1>2. QED
  BY <1>1, PolicyInv, PTL DEF Spec, ResumesAtTarget
=============================================================================
