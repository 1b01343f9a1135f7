------------------------------ MODULE MainLoop ------------------------------
(***************************************************************************)
(* The main loop of the embedded core: qemu_main_loop of runstate.c over   *)
(* main_loop_wait of main-loop.c, with the run state, the requests other   *)
(* threads leave for it, and the timers of module Timers.                  *)
(*                                                                         *)
(* The loop's thread holds the big lock except in the poll and while it    *)
(* waits for the vCPUs to pause.  vCPUs and the IOThread's callbacks act   *)
(* under it then; "outside" is a thread that never takes it, such as the   *)
(* bridge's stop monitor or the block layer reporting an error: its writes *)
(* and its notification are separate steps.  cpus.c is external.           *)
(***************************************************************************)
EXTENDS Timers

CONSTANT MaxRequests   (* bound on what guest, user and other threads do     *)

ASSUME RequestsAssumption == MaxRequests \in Nat

VARIABLES
  at,        (* where the loop is                                            *)
  then,      (* where it goes on once the vCPUs are paused                   *)
  sleep,     (* the time at which its poll ends, or Inactive                 *)
  runstate,  (* current_run_state                                            *)
  suspended, (* vm_was_suspended of cpus.c                                   *)
  cpusRun,   (* whether the vCPUs execute                                    *)
  requested, (* the requests that are set                                    *)
  vmstop,    (* vmstop_requested, or "none"                                  *)
  outside,   (* what the thread without the big lock is about to do          *)
  broken,    (* the transition runstate_set aborted on, or <<>>              *)
  events

loopVars == <<at, then, sleep, runstate, suspended, cpusRun, requested, vmstop, outside, broken, events>>
mainVars == <<timerVars, loopVars>>

Requests == {"debug", "suspend", "shutdown", "reset", "wakeup", "powerdown"}
Unlocked == at \in {"poll", "cpus"}
Live == at \notin {"none", "exited", "aborted"}

-----------------------------------------------------------------------------
(***************************************************************************)
(* The run state.                                                          *)
(***************************************************************************)
(* Mutant: the table from before a reset led to prelaunch.                 *)
AlwaysMigrates == {"finish-migrate"}

Always == {"finish-migrate", "prelaunch"}

Transitions ==
    [debug |-> Always \cup {"running", "suspended"},
     inmigrate |-> Always \cup {"internal-error", "io-error", "paused", "running", "shutdown", "suspended",
                                "watchdog", "guest-panicked", "postmigrate", "colo"},
     internal_error |-> Always \cup {"paused"},
     io_error |-> Always \cup {"running"},
     paused |-> Always \cup {"running", "postmigrate", "colo", "suspended"},
     postmigrate |-> Always \cup {"running"},
     prelaunch |-> {"running", "finish-migrate", "inmigrate", "suspended"},
     finish_migrate |-> {"running", "paused", "postmigrate", "prelaunch", "colo", "internal-error", "io-error",
                         "shutdown", "suspended", "watchdog", "guest-panicked"},
     restore_vm |-> {"running", "prelaunch", "suspended"},
     colo |-> {"running", "prelaunch", "shutdown"},
     running |-> {"debug", "internal-error", "io-error", "paused", "finish-migrate", "restore-vm", "save-vm",
                  "shutdown", "watchdog", "guest-panicked", "colo", "suspended"},
     save_vm |-> {"running", "suspended"},
     shutdown |-> Always \cup {"paused", "colo"},
     suspended |-> Always \cup {"running", "colo", "paused", "save-vm", "restore-vm", "shutdown"},
     watchdog |-> Always \cup {"running", "colo"},
     guest_panicked |-> Always \cup {"running"}]

Row(state) ==
    CASE state = "io-error" -> "io_error" [] state = "guest-panicked" -> "guest_panicked" [] OTHER -> state

(* runstate_set aborts the process on a transition that is not listed.     *)
RunstateSet(state, next) ==
    IF state \in Transitions[Row(runstate)] \cup {runstate}
    THEN runstate' = state /\ at' = next /\ UNCHANGED broken
    ELSE broken' = <<runstate, state>> /\ at' = "aborted" /\ UNCHANGED runstate

-----------------------------------------------------------------------------
(***************************************************************************)
(* Requests.  Each sets its variable and notifies the loop.                *)
(***************************************************************************)
(* Mutant: the loop is left to find the request when it wakes.             *)
NotNotified == kicked

Notified == TRUE

Event == events < MaxRequests /\ events' = events + 1

Request(r) ==
    /\ requested' = requested \cup (IF r = "suspend" /\ runstate = "suspended" THEN {} ELSE {r})
    /\ kicked' = (Notified \/ kicked)

(* A device a vCPU accesses, or a callback that holds the big lock.        *)
GuestRequests(r) ==
    /\ Unlocked /\ cpusRun
    /\ Event
    /\ Request(r)
    /\ UNCHANGED <<now, enabled, active, expire, done, running, until, at, then, sleep, runstate, suspended,
                   cpusRun, vmstop, outside, broken>>

(* qemu_system_guest_panicked: vm_stop of a vCPU thread is a request.      *)
GuestPanics ==
    /\ Unlocked /\ cpusRun
    /\ outside # "vmstop"
    /\ Event
    /\ vmstop' = "guest-panicked"
    /\ Request("shutdown")
    /\ UNCHANGED <<now, enabled, active, expire, done, running, until, at, then, sleep, runstate, suspended,
                   cpusRun, outside, broken>>

(* A thread that holds the big lock wakes a suspended guest.               *)
WakeupRequest ==
    /\ Unlocked \/ at = "dispatch"
    /\ runstate = "suspended"
    /\ Event
    /\ RunstateSet("running", at)
    /\ Request("wakeup")
    /\ UNCHANGED <<now, enabled, active, expire, done, running, until, then, sleep, suspended, cpusRun, vmstop,
                   outside>>

DeviceArms(t, e) ==
    /\ Unlocked /\ cpusRun
    /\ Event
    /\ TimerMod(t, e)
    /\ kicked' = (kicked \/ (ListOf(t) = "main" /\ TimerModRearms(t, e)))
    /\ UNCHANGED <<now, enabled, done, running, until, at, then, sleep, runstate, suspended, cpusRun, requested,
                   vmstop, outside, broken>>

DeviceDeletes(t) ==
    /\ Unlocked /\ cpusRun
    /\ expire[t] # Inactive
    /\ TimerDel(t)
    /\ UNCHANGED <<now, enabled, done, running, until, kicked, loopVars>>

(***************************************************************************)
(* The thread without the big lock.                                        *)
(***************************************************************************)
OutsideShutsDown ==
    /\ Live /\ outside = "idle"
    /\ Event
    /\ requested' = requested \cup {"shutdown"}
    /\ outside' = "notify"
    /\ UNCHANGED <<timerVars, at, then, sleep, runstate, suspended, cpusRun, vmstop, broken>>

(* qemu_system_vmstop_request_prepare: vmstop_lock is held until the end   *)
(* of qemu_system_vmstop_request.                                          *)
OutsidePrepares ==
    /\ Live /\ outside = "idle"
    /\ Event
    /\ outside' = "vmstop"
    /\ UNCHANGED <<timerVars, at, then, sleep, runstate, suspended, cpusRun, requested, vmstop, broken>>

OutsideStops ==
    /\ Live /\ outside = "vmstop"
    /\ vmstop' = "io-error"
    /\ outside' = "notify"
    /\ UNCHANGED <<timerVars, at, then, sleep, runstate, suspended, cpusRun, requested, broken, events>>

OutsideArms(t, e, anticipate) ==
    /\ Live /\ outside = "idle"
    /\ Event
    /\ anticipate => Earlier(t, e)
    /\ TimerMod(t, e)
    /\ outside' = IF ListOf(t) = "main" /\ TimerModRearms(t, e) THEN "notify" ELSE "idle"
    /\ UNCHANGED <<now, enabled, done, running, until, kicked, at, then, sleep, runstate, suspended, cpusRun,
                   requested, vmstop, broken>>

OutsideNotifies ==
    /\ Live /\ outside = "notify"
    /\ kicked' = TRUE
    /\ outside' = "idle"
    /\ UNCHANGED <<now, enabled, active, expire, done, running, until, at, then, sleep, runstate, suspended,
                   cpusRun, requested, vmstop, broken, events>>

-----------------------------------------------------------------------------
(***************************************************************************)
(* pause_all_vcpus and resume_all_vcpus.  Pausing switches the clock off,  *)
(* waits for the lists that are being run, and then, without the big lock, *)
(* for the vCPUs.                                                          *)
(***************************************************************************)
PauseThen(next) == at' = "pause" /\ then' = next

LoopDisablesClock ==
    /\ at = "pause"
    /\ enabled
    /\ enabled' = FALSE
    /\ at' = "timersDone"
    /\ UNCHANGED <<now, active, expire, done, running, until, kicked, then, sleep, runstate, suspended, cpusRun,
                   requested, vmstop, outside, broken, events>>

ClockIsOff ==
    /\ at = "pause"
    /\ ~enabled
    /\ at' = "cpus"
    /\ UNCHANGED <<timerVars, then, sleep, runstate, suspended, cpusRun, requested, vmstop, outside, broken, events>>

TimersDone ==
    /\ at = "timersDone"
    /\ \A l \in Lists : done[l]
    /\ at' = "cpus"
    /\ UNCHANGED <<timerVars, then, sleep, runstate, suspended, cpusRun, requested, vmstop, outside, broken, events>>

CpusPaused ==
    /\ at = "cpus"
    /\ cpusRun' = FALSE
    /\ at' = then
    /\ UNCHANGED <<timerVars, then, sleep, runstate, suspended, requested, vmstop, outside, broken, events>>

(* A VM that does not run stays paused, and so does its clock.             *)
Resume(state) ==
    /\ cpusRun' = (cpusRun \/ state = "running")
    /\ enabled' = (enabled \/ state = "running")
    /\ kicked' = (kicked \/ (state = "running" /\ ~enabled))
    /\ UNCHANGED <<now, active, expire, done, running, until>>

(* vm_stop in the thread of the loop.                                      *)
VmStop(state, next) ==
    IF runstate \notin {"running", "suspended"}
    THEN at' = next /\ UNCHANGED <<then, runstate, suspended, broken>>
    ELSE /\ suspended' = (runstate = "suspended")
         /\ then' = next
         /\ RunstateSet(state, IF runstate = "running" THEN "pause" ELSE next)

-----------------------------------------------------------------------------
(***************************************************************************)
(* main_loop_should_exit, one check after the other.                       *)
(***************************************************************************)
Clear(r) == requested' = requested \ {r}

Skip(r, next) ==
    /\ at = r
    /\ r \notin requested
    /\ at' = next
    /\ UNCHANGED <<timerVars, then, sleep, runstate, suspended, cpusRun, requested, vmstop, outside, broken, events>>

NothingRequested ==
    \/ Skip("debug", "suspend") \/ Skip("suspend", "shutdown") \/ Skip("shutdown", "reset")
    \/ Skip("reset", "wakeup") \/ Skip("wakeup", "powerdown") \/ Skip("powerdown", "vmstop")

LoopDebugs ==
    /\ at = "debug" /\ "debug" \in requested
    /\ Clear("debug")
    /\ VmStop("debug", "suspend")
    /\ UNCHANGED <<timerVars, sleep, cpusRun, vmstop, outside, events>>

LoopSuspends ==
    /\ at = "suspend" /\ "suspend" \in requested
    /\ Clear("suspend")
    /\ PauseThen("suspended")
    /\ UNCHANGED <<timerVars, sleep, runstate, suspended, cpusRun, vmstop, outside, broken, events>>

LoopSuspended ==
    /\ at = "suspended"
    /\ RunstateSet("suspended", "shutdown")
    /\ UNCHANGED <<timerVars, then, sleep, suspended, cpusRun, requested, vmstop, outside, events>>

LoopShutsDown ==
    /\ at = "shutdown" /\ "shutdown" \in requested
    /\ Clear("shutdown")
    /\ at' = "exited"
    /\ UNCHANGED <<timerVars, then, sleep, runstate, suspended, cpusRun, vmstop, outside, broken, events>>

LoopResets ==
    /\ at = "reset" /\ "reset" \in requested
    /\ Clear("reset")
    /\ PauseThen("resetting")
    /\ UNCHANGED <<timerVars, sleep, runstate, suspended, cpusRun, vmstop, outside, broken, events>>

StateAfterReset == IF runstate = "running" THEN "running" ELSE "prelaunch"

LoopReset ==
    /\ at = "resetting"
    /\ suspended' = FALSE
    /\ Resume(runstate)
    /\ RunstateSet(StateAfterReset, "wakeup")
    /\ UNCHANGED <<then, sleep, requested, vmstop, outside, events>>

LoopWakes ==
    /\ at = "wakeup" /\ "wakeup" \in requested
    /\ PauseThen("waking")
    /\ UNCHANGED <<timerVars, sleep, runstate, suspended, cpusRun, requested, vmstop, outside, broken, events>>

LoopWoken ==
    /\ at = "waking"
    /\ Clear("wakeup")
    /\ Resume(runstate)
    /\ at' = "powerdown"
    /\ UNCHANGED <<then, sleep, runstate, suspended, vmstop, outside, broken, events>>

LoopPowersDown ==
    /\ at = "powerdown" /\ "powerdown" \in requested
    /\ Clear("powerdown")
    /\ at' = "vmstop"
    /\ UNCHANGED <<timerVars, then, sleep, runstate, suspended, cpusRun, vmstop, outside, broken, events>>

LoopStops ==
    /\ at = "vmstop"
    /\ outside # "vmstop"
    /\ vmstop' = "none"
    /\ IF vmstop = "none" THEN at' = "fill" /\ UNCHANGED <<then, runstate, suspended, broken>>
       ELSE VmStop(vmstop, "fill")
    /\ UNCHANGED <<timerVars, sleep, cpusRun, requested, outside, events>>

(***************************************************************************)
(* main_loop_wait: the deadline, the poll without the lock, what became    *)
(* ready, the timers.                                                      *)
(***************************************************************************)
LoopFills ==
    /\ at = "fill"
    /\ sleep' = Deadline("main")
    /\ at' = "poll"
    /\ UNCHANGED <<timerVars, then, runstate, suspended, cpusRun, requested, vmstop, outside, broken, events>>

PollReturns ==
    /\ at = "poll"
    /\ kicked \/ (sleep # Inactive /\ sleep <= now)
    /\ at' = "dispatch"
    /\ UNCHANGED <<timerVars, then, sleep, runstate, suspended, cpusRun, requested, vmstop, outside, broken, events>>

(* A command of the QMP monitor ends the poll too and is run by dispatch.  *)
QmpArrives ==
    /\ at = "poll"
    /\ at' = "dispatch"
    /\ UNCHANGED <<timerVars, then, sleep, runstate, suspended, cpusRun, requested, vmstop, outside, broken, events>>

Quiet == UNCHANGED <<now, enabled, active, expire, done, running, until>>

QmpRequests(r) ==
    /\ at = "dispatch"
    /\ Event
    /\ Request(r)
    /\ Quiet
    /\ UNCHANGED <<at, then, sleep, runstate, suspended, cpusRun, vmstop, outside, broken>>

QmpStops ==
    /\ at = "dispatch"
    /\ Event
    /\ VmStop("paused", "dispatch")
    /\ UNCHANGED <<timerVars, sleep, cpusRun, requested, vmstop, outside>>

QmpContinues ==
    /\ at = "dispatch"
    /\ Event
    /\ runstate \notin {"running", "suspended"}
    /\ suspended' = FALSE
    /\ RunstateSet(IF suspended THEN "suspended" ELSE "running", "dispatch")
    /\ Resume(IF suspended THEN "suspended" ELSE "running")
    /\ UNCHANGED <<then, sleep, requested, vmstop, outside>>

LoopDispatches ==
    /\ at = "dispatch"
    /\ kicked' = FALSE
    /\ at' = "run"
    /\ Quiet
    /\ UNCHANGED <<then, sleep, runstate, suspended, cpusRun, requested, vmstop, outside, broken, events>>

LoopRunsTimers ==
    /\ at = "run"
    /\ RunTimers("main")
    /\ at' = IF running'["main"] = "no" THEN "debug" ELSE "timers"
    /\ UNCHANGED <<then, sleep, runstate, suspended, cpusRun, requested, vmstop, outside, broken, events>>

LoopRunsTimersOn ==
    /\ at = "timers"
    /\ RunStep("main") \/ CallbackReturns("main")
    /\ at' = IF running'["main"] = "no" THEN "debug" ELSE "timers"
    /\ UNCHANGED <<then, sleep, runstate, suspended, cpusRun, requested, vmstop, outside, broken, events>>

(* A callback in the loop's thread arms a timer or leaves a request.       *)
CallbackActs ==
    /\ at = "timers" /\ running["main"] = "callback"
    /\ Event
    /\ \/ /\ \E t \in Timers, e \in 0 .. MaxTime :
               TimerMod(t, e) /\ kicked' = (kicked \/ (ListOf(t) = "main" /\ TimerModRearms(t, e)))
          /\ UNCHANGED <<now, enabled, done, running, until, requested>>
       \/ \E r \in {"reset", "shutdown"} : Request(r) /\ Quiet
    /\ UNCHANGED <<at, then, sleep, runstate, suspended, cpusRun, vmstop, outside, broken>>

IoThread ==
    /\ Live
    /\ RunTimers("io") \/ RunStep("io") \/ CallbackReturns("io")
    /\ UNCHANGED loopVars

Clock == Live /\ enabled /\ Tick /\ UNCHANGED loopVars

MainLoopInit ==
    /\ TimersInit
    /\ at = "none" /\ then = "none" /\ sleep = Inactive
    /\ runstate = "prelaunch" /\ suspended = FALSE /\ cpusRun = FALSE
    /\ requested = {} /\ vmstop = "none" /\ outside = "idle"
    /\ broken = <<>> /\ events = 0

(* qemu_init has started the vCPUs: vm_start.                              *)
MainLoopEnters ==
    /\ at = "none"
    /\ RunstateSet("running", "debug")
    /\ Resume("running")
    /\ UNCHANGED <<then, sleep, suspended, requested, vmstop, outside, events>>

(* The same, but the run was stopped during qemu_init: the runner asks the *)
(* core to shut down before it calls qemu_main_loop.                       *)
MainLoopEntersStopped ==
    /\ at = "none"
    /\ requested' = {"shutdown"}
    /\ RunstateSet("running", "debug")
    /\ cpusRun' = TRUE /\ enabled' = TRUE /\ kicked' = TRUE
    /\ UNCHANGED <<now, active, expire, done, running, until>>
    /\ UNCHANGED <<then, sleep, suspended, vmstop, outside, events>>

LoopProceeds ==
    \/ LoopDisablesClock \/ ClockIsOff \/ TimersDone \/ CpusPaused \/ NothingRequested
    \/ LoopDebugs \/ LoopSuspends \/ LoopSuspended \/ LoopShutsDown \/ LoopResets \/ LoopReset
    \/ LoopWakes \/ LoopWoken \/ LoopPowersDown \/ LoopStops \/ LoopFills \/ PollReturns
    \/ LoopDispatches \/ LoopRunsTimers \/ LoopRunsTimersOn

OutsideProceeds == OutsideStops \/ OutsideNotifies

MainLoopNext ==
    \/ LoopProceeds \/ OutsideProceeds \/ IoThread \/ Clock \/ CallbackActs
    \/ \E r \in {"debug", "suspend", "shutdown", "reset"} : GuestRequests(r)
    \/ GuestPanics \/ WakeupRequest
    \/ \E t \in Timers : DeviceDeletes(t) \/ \E e \in 0 .. MaxTime : DeviceArms(t, e)
    \/ OutsideShutsDown \/ OutsidePrepares
    \/ \E t \in Timers, e \in 0 .. MaxTime, anticipate \in BOOLEAN : OutsideArms(t, e, anticipate)
    \/ QmpArrives \/ QmpStops \/ QmpContinues
    \/ \E r \in {"reset", "powerdown", "shutdown"} : QmpRequests(r)

-----------------------------------------------------------------------------
RunStates == {"debug", "internal-error", "io-error", "paused", "prelaunch", "running", "shutdown",
              "suspended", "guest-panicked", "watchdog"}

MainLoopTypeOK ==
    /\ at \in {"none", "debug", "suspend", "suspended", "shutdown", "reset", "resetting", "wakeup", "waking",
              "powerdown", "vmstop", "fill", "poll", "dispatch", "run", "timers", "pause", "timersDone",
              "cpus", "exited", "aborted"}
    /\ runstate \in RunStates /\ vmstop \in RunStates \cup {"none"}
    /\ requested \subseteq Requests /\ sleep \in Inactive .. MaxTime /\ now \in 0 .. MaxTime
    /\ {suspended, cpusRun, enabled, kicked} \subseteq BOOLEAN
    /\ expire \in [Timers -> Inactive .. MaxTime] /\ until \in [Lists -> 0 .. MaxTime]
    /\ done \in [Lists -> BOOLEAN]
    /\ running \in [Lists -> {"no", "reset", "check", "next", "callback", "set"}]
    /\ events \in 0 .. MaxRequests

(* The process does not abort on the run state, in whatever order the      *)
(* requests are served.  A guest that suspends itself is the exception: a  *)
(* stop for an error that meets the suspended state is not in the table.   *)
NoInvalidTransition ==
    /\ MainLoopTypeOK
    /\ broken # <<>> => {"suspended"} \cap {broken[1], broken[2]} # {}

(* Once the clock has been switched off and waited for, no timer of it     *)
(* runs, in this thread or in another, until it is switched on again.      *)
ClockSilent ==
    ~enabled /\ at # "timersDone" => \A l \in Lists : running[l] \notin {"next", "callback"}

(* The poll never sleeps past a timer that is due, unless the thread that  *)
(* armed it is still about to notify the loop; and the lists it looks at   *)
(* are in order (ListsSorted).                                             *)
NoOversleep ==
    /\ ListsSorted
    /\ at = "poll" /\ ~kicked /\ outside # "notify" /\ enabled /\ active["main"] # <<>> =>
         sleep # Inactive /\ sleep <= expire[Head(active["main"])]

(* Whatever is requested is served, or the loop ends: a request that is    *)
(* made while the loop is deciding to sleep, pausing the vCPUs or running  *)
(* timers is not lost.  As requests are bounded, none is left then.        *)
RequestsServed ==
    []<>(requested = {} \/ ~Live)

LoopFairness ==
    /\ WF_mainVars(LoopProceeds)
    /\ WF_mainVars(OutsideProceeds)
    /\ WF_mainVars(Live /\ (RunStep("io") \/ CallbackReturns("io")) /\ UNCHANGED loopVars)

MainLoopSpec == MainLoopInit /\ [][MainLoopNext \/ MainLoopEnters \/ MainLoopEntersStopped]_mainVars /\ LoopFairness
=============================================================================
