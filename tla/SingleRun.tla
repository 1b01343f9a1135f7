------------------------------ MODULE SingleRun ------------------------------
(***************************************************************************)
(* What the native runtime promises to the user interface: one embedded VM *)
(* at a time.  Its reported phase only moves forward, a failure is never   *)
(* forgotten, a terminal phase is reported only after the runner returned, *)
(* and the next VM can start only after the previous runner was reaped.    *)
(***************************************************************************)
EXTENDS Naturals

VARIABLES
  run,     (* how many VMs were started                                      *)
  phase,   (* what getVmStatus reports for the last of them                  *)
  faulty,  (* whether anything went wrong with it                            *)
  reaped   (* whether its runner was joined, so that another VM may start    *)

vars == <<run, phase, faulty, reaped>>

Live == {"starting", "running", "stopping"}
Terminal == {"stopped", "failed"}

TypeOK ==
  /\ run \in Nat
  /\ phase \in Live \cup Terminal \cup {"none"}
  /\ faulty \in BOOLEAN
  /\ reaped \in BOOLEAN

Init == run = 0 /\ phase = "none" /\ faulty = FALSE /\ reaped = TRUE

Start ==
  /\ reaped
  /\ run' = run + 1
  /\ phase' = "starting"
  /\ faulty' = FALSE
  /\ reaped' = FALSE

BecomeReady ==
  /\ phase = "starting"
  /\ ~faulty
  /\ phase' = "running"
  /\ UNCHANGED <<run, faulty, reaped>>

RequestStop ==
  /\ phase \in Live
  /\ phase' = "stopping"
  /\ UNCHANGED <<run, faulty, reaped>>

Fault ==
  /\ phase # "none"
  /\ phase' = IF phase \in Live THEN "stopping" ELSE "failed"
  /\ faulty' = TRUE
  /\ UNCHANGED <<run, reaped>>

Finish ==
  /\ phase \in Live
  /\ faulty' \in {faulty, TRUE}
  /\ phase' = IF faulty' THEN "failed" ELSE "stopped"
  /\ UNCHANGED <<run, reaped>>

Reap ==
  /\ phase \in Terminal
  /\ reaped' = TRUE
  /\ UNCHANGED <<run, phase, faulty>>

Next == Start \/ BecomeReady \/ RequestStop \/ Fault \/ Finish \/ Reap

Spec == Init /\ [][Next]_vars
=============================================================================
