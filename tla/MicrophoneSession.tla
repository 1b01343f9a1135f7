-------------------------- MODULE MicrophoneSession --------------------------
(***************************************************************************)
(* microphone_session.h: the native owner of microphone consent.  Consent  *)
(* belongs to one generation, that is to one run of one VM.  All methods   *)
(* run under the session's mutex.  The field gate is the policy bit the    *)
(* core keeps behind set_ (aether_mic_allowed); bound says that the core   *)
(* exports both set_ and status_.                                          *)
(***************************************************************************)
EXTENDS Naturals

CONSTANTS VMs,      (* names of virtual machines                             *)
          NoVm,     (* the empty name                                        *)
          GenWidth  (* generation_ is an unsigned integer modulo GenWidth:   *)
                    (* 2^32 in the code                                      *)

ASSUME VmAssumption == NoVm \notin VMs
ASSUME GenAssumption == GenWidth \in Nat /\ GenWidth > 1

Generations == 0 .. GenWidth - 1

Session == [name : VMs \cup {NoVm}, generation : Generations,
            active : BOOLEAN, bound : BOOLEAN, gate : BOOLEAN]

NewSession == [name |-> NoVm, generation |-> 0, active |-> FALSE,
               bound |-> FALSE, gate |-> FALSE]

(* Generation 0 means "no session" to the callers and is skipped when the  *)
(* counter wraps.                                                          *)
NextGeneration(g) == IF g = GenWidth - 1 THEN 1 ELSE g + 1

(* Mutant: the core is never told.                                         *)
DisableNothing(m) == m

Disable(m) == [m EXCEPT !.gate = FALSE]

Bind(m, exported) == [Disable(m) EXCEPT !.bound = exported]

Begin(m, name) ==
  [Disable(m) EXCEPT !.name = name, !.active = FALSE,
                     !.generation = NextGeneration(@)]

Running(m, g) ==
  [m EXCEPT !.active = IF g = m.generation /\ m.name # NoVm THEN TRUE ELSE @]

Close(m) == [Disable(m) EXCEPT !.active = FALSE, !.name = NoVm]

End(m, g) == IF g = m.generation THEN Close(m) ELSE m

Stop(m, name) == IF name = m.name THEN Close(m) ELSE m

(* What the session answers: the token a caller needs to enable capture.   *)
SessionOf(m, name) == IF m.active /\ name = m.name THEN m.generation ELSE 0

(* Mutant: consent is checked against the VM's name only.                  *)
MayEnableAnyGeneration(m, name, g) == m.active /\ name = m.name /\ m.bound

MayEnable(m, name, g) ==
  m.active /\ name = m.name /\ g = m.generation /\ m.bound

(* accepted: what the core's set_ makes of the request (a missing system   *)
(* permission or a latched fault refuse it).                               *)
Enable(m, name, g, accepted) ==
  IF MayEnable(m, name, g) THEN [m EXCEPT !.gate = accepted] ELSE m
=============================================================================
