------------------------------ MODULE VmSession ------------------------------
(***************************************************************************)
(* A start of the VM and the session it leads to: VmBoot up to the return  *)
(* of qemu_init, then MainLoop until the loop returns.  The sessions of    *)
(* earlier starts are the steps GuestWrites and GuestEnds of VmBoot; that  *)
(* of the last one is followed step by step.  Nothing of the boot is read  *)
(* any more by then: its variables are set to fixed values, Followed, so   *)
(* that the ways that led to qemu_init do not multiply the session's.      *)
(***************************************************************************)
EXTENDS VmBoot, MainLoop

sessionVars == <<bootVars, mainVars>>

Followed == starts = MaxStarts
InSession == at # "none"

Forget ==
    /\ files' = [NewFiles EXCEPT !.disk = Raw(2)]
    /\ data' = TRUE
    /\ attached' = "none"
    /\ args' = <<>>
    /\ config' = NoConfig
    /\ faults' = MaxFaults
    /\ UNCHANGED starts

SessionInit == BootInit /\ MainLoopInit

SessionBoots ==
    /\ ~InSession
    /\ BootNext
    /\ UNCHANGED mainVars

(* The runner calls qemu_main_loop as soon as qemu_init has returned.      *)
SessionEnters ==
    /\ pc = "init"
    /\ Followed
    /\ pc' = "guest"
    /\ core' = core
    /\ Forget
    /\ \/ MainLoopEnters /\ status' = "running"
       \/ MainLoopEntersStopped /\ UNCHANGED status

SessionRuns ==
    /\ InSession
    /\ MainLoopNext
    /\ UNCHANGED bootVars

(* qemu_main_loop returns and the runner reports the end.  What the        *)
(* threads of the core did until it was torn down is not followed.         *)
SessionEnds ==
    /\ at = "exited" /\ pc = "guest"
    /\ pc' = "idle"
    /\ status' = "stopped"
    /\ UNCHANGED <<files, data, config, attached, args, core, starts, faults, mainVars>>

SessionNext == SessionBoots \/ SessionEnters \/ SessionRuns \/ SessionEnds

SessionSpec == SessionInit /\ [][SessionNext]_sessionVars
SessionFairSpec == SessionSpec /\ LoopFairness /\ WF_sessionVars(SessionEnds)

=============================================================================
