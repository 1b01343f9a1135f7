------------------------------ MODULE RrThread ------------------------------
(***************************************************************************)
(* The round-robin vCPU thread of the embedded core (tcg-accel-ops-rr.c)   *)
(* with the entry thread that starts, pauses, resumes and finally joins it *)
(* (phone_run, qemu_cleanup), the RCU of module Rcu, and a third thread    *)
(* that uses RCU.  A vCPU executes guest code inside an RCU section and    *)
(* leaves it only when its exit_request is set, so grace periods, pauses,  *)
(* the other vCPUs and the final join all depend on kicks being seen.      *)
(*                                                                         *)
(* Not modelled: icount (the bridge never asks for it), hot-unplugged      *)
(* vCPUs, and EXCP_ATOMIC, which a thread without parallel translation     *)
(* (tcg_cpu_init_cflags(cpu, false)) does not raise.                       *)
(***************************************************************************)
EXTENDS Rcu

CONSTANTS
    Rr,        \* the vCPU thread
    Main,      \* the entry thread
    MaxCpus,   \* the machine has 1 .. MaxCpus vCPUs
    MaxEvents  \* bound on what guest and user do before the session ends

ASSUME RrAssumption ==
    /\ {Rr, Main} \subseteq Readers /\ Rr # Main /\ CallRcu \notin {Rr, Main}
    /\ Callers = Readers \ {Rr, CallRcu}
    /\ MaxCpus \in Nat \ {0} /\ MaxEvents \in Nat

VARIABLES
    cpus,      \* vCPUs of this machine: 1 .. cpus; 0 is the null pointer
    replay,    \* holder of the replay mutex, taken before the big lock
    running,   \* runstate_is_running()
    stop, stopped, halted, work, exitReq, created,   \* sets of vCPUs
    alias,     \* vCPUs whose thread and halt_cond point to the shared storage
    storage,   \* that storage: "none", "live", "freed"
    timer,     \* rr_kick_vcpu_timer: "none", "idle", "pending"
    current,   \* rr_current_cpu
    rrCpu, rrPc, stopping,
    mainPc,
    role,      \* what a thread of this scenario uses RCU for
    events,    \* guest and user events so far
    kickPc, kickCpu   \* rr_kick_next_cpu in the thread that forces RCU

cpuVars  == <<stop, stopped, halted, work, exitReq, created>>
rrVars   == <<current, rrCpu, rrPc, timer>>
mainVars == <<mainPc, running, replay, alias, storage, stopping>>
kickVars == <<kickPc, kickCpu>>
fixed == <<cpus, role>>
scenario == <<fixed, events>>
vars == <<rcuVars, scenario, cpuVars, rrVars, mainVars, kickVars>>
rcuRest == <<readerVars, syncVars, lockVars, eventVars, queueVars, callerVars,
             threadVars, sees>>       \* everything of Rcu but the big lock

\* Threads other than these, which use RCU freely.
Others == Readers \ {Rr, Main, CallRcu}

Cpus == 1 .. cpus
NextCpu(c) == IF c < cpus THEN c + 1 ELSE 0

Init ==
    /\ RcuInit
    /\ cpus \in 1 .. MaxCpus
    /\ role \in [Others \cup {Main} -> {"none", "read", "call", "drain", "sync"}]
    /\ role[Main] \in {"none", "call"}
    /\ events = Cardinality({t \in DOMAIN role : role[t] # "none"})
    /\ cpus = 1 \/ \A t \in Others : role[t] = "none"              \* bounds on what
    /\ role[Main] = "call" => \A t \in Others : role[t] \in {"none", "read"} \* goes together
    /\ rdPc = [t \in Readers |-> IF t = CallRcu THEN "idle" ELSE "off"]
    /\ bql = Main /\ replay = Main /\ running = FALSE
    /\ stop = {} /\ stopped = 1 .. cpus /\ halted = {} /\ work = {}
    /\ exitReq = {} /\ created = {} /\ alias = {} /\ storage = "none"
    /\ timer = "none" /\ current = 0 /\ rrCpu = 0 /\ rrPc = "none"
    /\ stopping = FALSE /\ mainPc = "init"
    /\ kickPc = "off" /\ kickCpu = 0

\* One more event of the guest or the user.
Event == events < MaxEvents /\ events' = events + 1

\* cpu_is_stopped, cpu_can_run and all_cpu_threads_idle of cpus.c.
IsStopped(c) == c \in stopped \/ ~running
CanRun(c) == c \notin stop /\ ~IsStopped(c)
AllIdle == \A c \in Cpus : c \notin stop \cup work /\ (IsStopped(c) \/ c \in halted)

\* pthread_cond_broadcast on the shared halt_cond.
Woken(pc) == CASE pc = "parkWait" -> "parkWoken"
               [] pc = "ioWait" -> "ioWoken"
               [] OTHER -> pc

\* cpu_exit on the vCPUs of S; each kicks, so that a waiting thread wakes.
CpuExit(S) ==
    /\ exitReq' = exitReq \cup S
    /\ rrPc' = IF S = {} THEN rrPc ELSE Woken(rrPc)

\* rr_kick_next_cpu by a thread that holds the big lock, under which
\* rr_current_cpu changes: one round of its loop, one step.
KickNext == CpuExit({current} \ {0})

----------------------------------------------------------------------------
\* rr_kick_next_cpu as RCU's force notifier, without the big lock: load
\* rr_current_cpu, exit that vCPU, and start over if another one is current.

ForceRcu ==
    /\ syncPc = "kick" /\ kickPc = "off" /\ Rr \in registry
    /\ kickPc' = "exit" /\ kickCpu' = current
    /\ UNCHANGED <<scenario, rcuVars, cpuVars, rrVars, mainVars>>

ForceExit ==
    /\ kickPc = "exit"
    /\ CpuExit({kickCpu} \ {0})
    /\ kickPc' = "check"
    /\ UNCHANGED <<scenario, rcuVars, stop, stopped, halted, work, created, current,
                   rrCpu, timer, mainVars, kickCpu>>

ForceCheck ==
    /\ kickPc = "check"
    /\ kickPc' = IF kickCpu = current THEN "done" ELSE "exit"
    /\ kickCpu' = current
    /\ UNCHANGED <<scenario, rcuVars, cpuVars, rrVars, mainVars>>

ForceDone ==
    /\ kickPc = "done" \/ Rr \notin registry
    /\ SyncNotified
    /\ kickPc' = "off" /\ kickCpu' = 0
    /\ UNCHANGED <<scenario, cpuVars, rrVars, mainVars>>

----------------------------------------------------------------------------
\* rr_cpu_thread_fn.

RrGoto(pc) == rrPc' = pc

RrRegister ==
    /\ rrPc = "boot" /\ Register(Rr) /\ RrGoto("create")
    /\ UNCHANGED <<scenario, cpuVars, current, rrCpu, timer, mainVars, kickVars>>

RrCreated ==
    /\ rrPc = "create" /\ bql = NONE
    /\ created' = created \cup {1} /\ RrGoto("parkWait")
    /\ UNCHANGED <<scenario, rcuVars, stop, stopped, halted, work, exitReq, current,
                   rrCpu, timer, mainVars, kickVars>>

\* rr_start_kick_timer and rr_stop_kick_timer.
\* Mutant: two vCPUs do not need the timer.
StartedTimerForMany == IF timer # "none" \/ cpus > 2 THEN "pending" ELSE "none"

StartedTimer == IF timer # "none" \/ cpus > 1 THEN "pending" ELSE "none"

StoppedTimer == IF timer = "pending" THEN "idle" ELSE timer

\* qemu_process_cpu_events_common on every vCPU: run its queued work, and
\* acknowledge a stop request.
ProcessEvents ==
    /\ work' = {} /\ stop' = {} /\ stopped' = stopped \cup stop

\* The wait for the machine to start: a woken thread takes the lock, handles
\* events, and waits again unless the first vCPU may run or it must stop.
RrPark ==
    /\ rrPc = "parkWoken" /\ bql = NONE
    /\ ProcessEvents
    /\ IF ~stopping /\ (1 \in stopped \cup stop \/ ~running)
         THEN RrGoto("parkWait") /\ UNCHANGED <<bql, timer, rrCpu>>
         ELSE bql' = Rr /\ timer' = StartedTimer /\ rrCpu' = 1 /\ RrGoto("top")
    /\ UNCHANGED <<scenario, rcuRest, halted, exitReq, created, current, mainVars, kickVars>>

\* rr_wait_io_event, which a stopping thread leaves at once: wait while all
\* vCPUs are idle, otherwise handle their events and let go of the lock.
WaitIo ==
    CASE stopping -> /\ bql' = Rr /\ RrGoto("leave")
                     /\ UNCHANGED <<timer, work, stop, stopped>>
      [] ~stopping /\ AllIdle -> /\ timer' = StoppedTimer /\ bql' = NONE
                                 /\ RrGoto("ioWait") /\ UNCHANGED <<work, stop, stopped>>
      [] OTHER -> /\ timer' = StartedTimer /\ ProcessEvents
                  /\ bql' = NONE /\ RrGoto("replay")

\* The head of the loop forgets the exit request of the vCPU it is about to run.
RrTop ==
    /\ rrPc = "top"
    /\ exitReq' = IF stopping THEN exitReq ELSE exitReq \ {rrCpu}
    /\ WaitIo
    /\ UNCHANGED <<scenario, rcuRest, halted, created, current, rrCpu, mainVars, kickVars>>

RrIoWoken ==
    /\ rrPc = "ioWoken" /\ bql = NONE
    /\ WaitIo
    /\ UNCHANGED <<scenario, rcuRest, halted, exitReq, created, current, rrCpu, mainVars,
                   kickVars>>

\* Lock order: replay first, then the big lock; the replay mutex is released
\* once the time has been accounted for.
RrReplay ==
    /\ rrPc = "replay" /\ replay = NONE
    /\ replay' = Rr /\ RrGoto("relock")
    /\ UNCHANGED <<scenario, rcuVars, cpuVars, current, rrCpu, timer, mainPc, running,
                   alias, storage, stopping, kickVars>>

RrRelock ==
    /\ rrPc = "relock" /\ bql = NONE
    /\ bql' = Rr /\ replay' = NONE
    /\ rrCpu' = IF rrCpu = 0 THEN 1 ELSE rrCpu
    /\ RrGoto("pick")
    /\ UNCHANGED <<scenario, rcuRest, cpuVars, current, timer, mainPc, running, alias,
                   storage, stopping, kickVars>>

\* Publish rr_current_cpu, then look at its exit request.
RrPick ==
    /\ rrPc = "pick"
    /\ IF rrCpu = 0 \/ rrCpu \in work
         THEN current' = 0 /\ RrGoto("top")
         ELSE current' = rrCpu /\ RrGoto("check")
    /\ UNCHANGED <<scenario, rcuVars, cpuVars, rrCpu, timer, mainVars, kickVars>>

RrCheck ==
    /\ rrPc = "check"
    /\ IF rrCpu \in exitReq \/ (~CanRun(rrCpu) /\ rrCpu \in stop)
         THEN current' = 0 /\ RrGoto("top") /\ UNCHANGED <<bql, rrCpu>>
         ELSE IF CanRun(rrCpu)
         THEN bql' = NONE /\ RrGoto("exec") /\ UNCHANGED <<current, rrCpu>>
         ELSE rrCpu' = NextCpu(rrCpu) /\ RrGoto("pick") /\ UNCHANGED <<current, bql>>
    /\ UNCHANGED <<scenario, rcuRest, cpuVars, timer, mainVars, kickVars>>

\* tcg_cpu_exec: an RCU section that ends when the vCPU must exit, or earlier
\* because the guest waits for an interrupt.
RrExecIn ==
    /\ rrPc = "exec"
    /\ ReadLoad(Rr) \/ ReadStore(Rr)
    /\ UNCHANGED <<scenario, cpuVars, rrVars, mainVars, kickVars>>

RrExecExit ==
    /\ rrPc = "exec" /\ rrCpu \in exitReq
    /\ ReadClear(Rr) /\ RrGoto("after")
    /\ UNCHANGED <<scenario, cpuVars, current, rrCpu, timer, mainVars, kickVars>>

RrExecHalt ==
    /\ Event
    /\ rrPc = "exec" /\ halted' = halted \cup {rrCpu}
    /\ ReadClear(Rr) /\ RrGoto("after")
    /\ UNCHANGED <<fixed, stop, stopped, work, exitReq, created, current, rrCpu,
                   timer, mainVars, kickVars>>

RrExecWake ==
    /\ rrPc = "after" /\ ReadWake(Rr)
    /\ UNCHANGED <<scenario, cpuVars, rrVars, mainVars, kickVars>>

\* Back under the big lock; after EXCP_DEBUG (cpu_handle_guest_debug stops the
\* vCPU) the round ends, otherwise the next vCPU has its turn.
RrAfter(debug) ==
    /\ rrPc = "after" /\ rdPc[Rr] = "idle" /\ bql = NONE
    /\ bql' = Rr
    /\ IF debug THEN Event ELSE UNCHANGED events
    /\ IF debug
         THEN /\ stopped' = stopped \cup {rrCpu} /\ current' = 0 /\ RrGoto("top")
              /\ UNCHANGED rrCpu
         ELSE /\ rrCpu' = NextCpu(rrCpu) /\ RrGoto("pick")
              /\ UNCHANGED <<current, stopped>>
    /\ UNCHANGED <<fixed, rcuRest, stop, halted, work, exitReq, created, timer,
                   mainVars, kickVars>>

\* The end of the thread: it is out of the vCPUs' way before it gives up the
\* big lock, and out of RCU's lists before it can be joined.
RrLeave ==
    /\ rrPc = "leave"
    /\ timer' = StoppedTimer /\ current' = 0 /\ created' = {} /\ bql' = NONE
    /\ RrGoto("unregister")
    /\ UNCHANGED <<scenario, rcuRest, stop, stopped, halted, work, exitReq, rrCpu,
                   mainVars, kickVars>>

RrUnregister ==
    /\ rrPc = "unregister" /\ Unregister(Rr) /\ RrGoto("done")
    /\ UNCHANGED <<scenario, cpuVars, current, rrCpu, timer, mainVars, kickVars>>

RrStep ==
    \/ RrRegister \/ RrCreated \/ RrPark \/ RrTop \/ RrIoWoken
    \/ RrReplay \/ RrRelock \/ RrPick \/ RrCheck
    \/ RrExecIn \/ RrExecExit \/ RrExecWake \/ RrAfter(FALSE)
    \/ RrLeave \/ RrUnregister

----------------------------------------------------------------------------
\* The entry thread, which holds both locks unless it waits.

MainGoto(pc) == mainPc' = pc
MainFree == mainPc = "hold" /\ callPc[Main] = "idle"

MainRegister ==
    /\ mainPc = "init" /\ rdPc[Main] = "off"
    /\ Register(Main)
    /\ UNCHANGED <<scenario, cpuVars, rrVars, mainVars, kickVars>>

\* rr_start_vcpu_thread and the wait of its caller: the first vCPU brings the
\* thread, the others drop their own thread and condition and share its.
StartVcpu ==
    /\ mainPc = "init" /\ rdPc[Main] = "idle"
    /\ IF alias = {}
         THEN /\ storage' = "live" /\ stopping' = FALSE /\ alias' = {1}
              /\ RrGoto("boot") /\ MainGoto("await") /\ bql' = NONE
              /\ UNCHANGED created
         ELSE /\ alias' = Cpus /\ created' = created \cup (Cpus \ alias)
              /\ MainGoto("hold") /\ bql' = Main
              /\ UNCHANGED <<storage, stopping, rrPc>>
    /\ UNCHANGED <<scenario, rcuRest, stop, stopped, halted, work, exitReq, current,
                   rrCpu, timer, running, replay, kickVars>>

AwaitCreated ==
    /\ mainPc = "await" /\ 1 \in created /\ bql = NONE
    /\ bql' = Main /\ MainGoto("init")
    /\ UNCHANGED <<scenario, rcuRest, cpuVars, rrVars, running, replay, alias, storage,
                   stopping, kickVars>>

\* os_host_main_loop_wait: both locks are free during the poll.
MainPoll ==
    /\ MainFree
    /\ bql' = NONE /\ replay' = NONE /\ MainGoto("poll")
    /\ UNCHANGED <<scenario, rcuRest, cpuVars, rrVars, running, alias, storage,
                   stopping, kickVars>>

\* Any wait of the entry thread ends by taking replay and then the big lock;
\* it waits for them in one step, when both are free.
MainLocks ==
    /\ mainPc \in {"poll", "pause", "finalPause", "joined"}
    /\ mainPc \in {"pause", "finalPause"} => Cpus \subseteq stopped
    /\ replay = NONE /\ bql = NONE
    /\ replay' = Main /\ bql' = Main
    /\ MainGoto(CASE mainPc \in {"poll", "pause"} -> "hold"
                  [] mainPc = "finalPause" -> "stop" [] mainPc = "joined" -> "free")
    /\ UNCHANGED <<scenario, rcuRest, cpuVars, rrVars, running, alias, storage,
                   stopping, kickVars>>

\* vm_start: resume_all_vcpus clears the stop flags and kicks every vCPU.
Resume ==
    /\ Event
    /\ MainFree /\ ~running
    /\ running' = TRUE /\ stop' = {} /\ stopped' = {}
    /\ CpuExit(Cpus)
    /\ UNCHANGED <<fixed, rcuVars, halted, work, created, current, rrCpu, timer,
                   mainPc, replay, alias, storage, stopping, kickVars>>

\* pause_all_vcpus, for a stop of the machine or for the end of the session:
\* ask every vCPU to stop, kick, and give up both locks until all have.
Pause(pc) ==
    /\ IF pc = "finalPause" THEN UNCHANGED events ELSE Event
    /\ MainFree /\ (pc = "finalPause" \/ running)
    /\ running' = FALSE /\ stop' = Cpus
    /\ CpuExit(Cpus)
    /\ bql' = NONE /\ replay' = NONE /\ MainGoto(pc)
    /\ UNCHANGED <<fixed, rcuRest, stopped, halted, work, created, current, rrCpu,
                   timer, alias, storage, stopping, kickVars>>

\* The timer is a QEMU_CLOCK_VIRTUAL one: it runs while the machine does.
\* rr_kick_thread rearms it and moves the thread on to the next vCPU.
KickTimer ==
    /\ MainFree /\ running /\ timer = "pending"
    /\ KickNext
    /\ UNCHANGED <<scenario, rcuVars, stop, stopped, halted, work, created, current,
                   rrCpu, timer, mainVars, kickVars>>

\* An interrupt, or work queued for a vCPU: both kick it.
Interrupt(c) ==
    /\ MainFree /\ c \in halted
    /\ halted' = halted \ {c} /\ CpuExit({c})
    /\ UNCHANGED <<scenario, rcuVars, stop, stopped, work, created, current, rrCpu,
                   timer, mainVars, kickVars>>

QueueWork(c) ==
    /\ Event
    /\ MainFree /\ running /\ c \notin work
    /\ work' = work \cup {c} /\ CpuExit({c})
    /\ UNCHANGED <<fixed, rcuVars, stop, stopped, halted, created, current, rrCpu,
                   timer, mainVars, kickVars>>

\* hmos_rr_stop_vcpu_thread, after vm_shutdown.
\* Mutant: the vCPU is told to exit, but a thread that waits is not woken.
StopThreadSilently ==
    /\ mainPc = "stop"
    /\ stopping' = TRUE
    /\ exitReq' = exitReq \cup ({current} \ {0}) /\ UNCHANGED rrPc
    /\ replay' = NONE /\ bql' = NONE /\ MainGoto("join")
    /\ UNCHANGED <<scenario, rcuRest, stop, stopped, halted, work, created, current,
                   rrCpu, timer, running, alias, storage, kickVars>>

StopThread ==
    /\ mainPc = "stop"
    /\ stopping' = TRUE
    /\ exitReq' = exitReq \cup ({current} \ {0}) /\ rrPc' = Woken(rrPc)
    /\ replay' = NONE /\ bql' = NONE /\ MainGoto("join")
    /\ UNCHANGED <<scenario, rcuRest, stop, stopped, halted, work, created, current,
                   rrCpu, timer, running, alias, storage, kickVars>>

Join ==
    /\ mainPc = "join" /\ rrPc = "done" /\ MainGoto("joined")
    /\ UNCHANGED <<scenario, rcuVars, cpuVars, rrVars, running, replay, alias, storage,
                   stopping, kickVars>>

\* Detach every alias, then destroy the condition and free the storage once.
FreeThread ==
    /\ mainPc = "free"
    /\ timer' = "none" /\ alias' = {} /\ storage' = "freed" /\ MainGoto("stopped")
    /\ UNCHANGED <<scenario, rcuVars, cpuVars, current, rrCpu, rrPc, running, replay,
                   stopping, kickVars>>

\* The end of qemu_hmos_phone_run: drain, release both locks, unregister.
FinalDrain ==
    /\ mainPc = "stopped" /\ DrainCallRcu(Main)
    /\ UNCHANGED <<scenario, cpuVars, rrVars, mainVars, kickVars>>

ReleaseLocks ==
    /\ mainPc = "stopped" /\ callPc[Main] = "drained"
    /\ bql' = NONE /\ replay' = NONE /\ MainGoto("exit")
    /\ UNCHANGED <<scenario, rcuRest, cpuVars, rrVars, running, alias, storage,
                   stopping, kickVars>>

MainUnregister ==
    /\ mainPc = "exit" /\ rdPc[Main] = "idle" /\ Unregister(Main)
    /\ UNCHANGED <<scenario, cpuVars, rrVars, mainVars, kickVars>>

MainCallRcu ==
    /\ mainPc \in {"hold", "stopped"} /\ role[Main] = "call" /\ CallRcu1(Main)
    /\ UNCHANGED <<scenario, cpuVars, rrVars, mainVars, kickVars>>

MainStep ==
    \/ MainRegister \/ StartVcpu \/ AwaitCreated \/ MainPoll \/ MainLocks
    \/ StopThread \/ Join \/ FreeThread \/ FinalDrain \/ ReleaseLocks \/ MainUnregister

Environment ==
    \/ Resume \/ Pause("pause") \/ Pause("finalPause") \/ MainCallRcu \/ RrExecHalt
    \/ RrAfter(TRUE)
    \/ \E c \in Cpus : Interrupt(c) \/ QueueWork(c)

----------------------------------------------------------------------------
\* Threads other than the entry and vCPU threads, which use RCU freely.

OtherStarts(t) ==
    /\ mainPc \notin {"init", "await"}
    /\ \/ role[t] = "read" /\ (Register(t) \/ ReadLoad(t) \/ Unregister(t))
       \/ role[t] = "call" /\ CallRcu1(t)
       \/ role[t] = "drain" /\ DrainCallRcu(t)
       \/ role[t] = "sync" /\ SyncCall(t)

ReaderStep(t) == ReadStore(t) \/ ReadClear(t) \/ ReadWake(t)

CallerStep(u) ==
    \/ CallLink(u) \/ CallCount(u) \/ CallReady(u) \/ DrainReturn(u)
    \/ SyncEnter(u) \/ SyncReturn(u)

Keeps(A) == A /\ UNCHANGED <<scenario, cpuVars, rrVars, mainVars, kickVars>>

KickStep == ForceRcu \/ ForceExit \/ ForceCheck \/ ForceDone

Next ==
    \/ RrStep \/ MainStep \/ KickTimer \/ Environment \/ KickStep
    \/ Keeps(SyncStep) \/ Keeps(RcuThread)
    \/ \E u \in Callers : Keeps(CallerStep(u))
    \/ \E t \in Others : Keeps(OtherStarts(t) \/ ReaderStep(t))

\* Every thread that is inside the core goes on; a mutex is granted to a
\* thread that keeps finding it free (SF).  Guest behaviour, the user's pauses
\* and the callers' decisions carry no fairness, and a vCPU leaves its section
\* only when it is asked to.
Fairness ==
    /\ SF_vars(RrStep) /\ SF_vars(MainStep \/ Keeps(CallerStep(Main)))
    /\ SF_vars(Keeps(RcuThread)) /\ SF_vars(Keeps(SyncStep) \/ KickStep)
    /\ \A t \in Others : SF_vars(Keeps(CallerStep(t) \/ ReaderStep(t)))
    /\ SF_vars(KickTimer)

Spec == Init /\ [][Next]_vars
FairSpec == Spec /\ Fairness

----------------------------------------------------------------------------
(***************************************************************************)
(* Type invariant, with the shape of the callback queue that makes         *)
(* try_dequeue's abort() unreachable: every node that hangs between head   *)
(* and tail is there once, and an empty list has the dummy at both ends.   *)
(***************************************************************************)
TypeOK ==
    /\ bql \in Readers \cup {NONE} /\ replay \in {Rr, Main, NONE}
    /\ registry \cap qsreaders = {} /\ registry \cup qsreaders \subseteq Readers
    /\ ctr \in [Readers -> Nat] /\ callCount \in Nat /\ n \in Nat /\ inDrain \in Nat
    /\ head \in Nodes \cup {Dummy} /\ tail \in Nodes \cup {Dummy}
    /\ next \in [Nodes \cup {Dummy} -> Nodes \cup {Dummy, NONE}]
    /\ ~(next[head] # NONE /\ head = Dummy /\ tail = Dummy)
    /\ head \notin ran
    /\ current \in 0 .. cpus /\ rrCpu \in 0 .. cpus
    /\ UNION {stop, stopped, halted, work, exitReq, created, alias} \subseteq Cpus

(***************************************************************************)
(* A callback never runs while a reader that was inside a section when the *)
(* node was queued is still inside it (synchronize_rcu, and the count that *)
(* call_rcu_thread fetches before it); and drain_call_rcu returns only     *)
(* when the callback its thread had queued before has run.  The queue is   *)
(* whole (TypeOK).                                                         *)
(***************************************************************************)
CallbacksInTurn ==
    /\ TypeOK
    /\ \A u \in Callers :
         /\ Freed(u) \in ran => sees[Freed(u)] = {}
         /\ callPc[u] = "drained" /\ Freed(u) \in called => Freed(u) \in ran

(***************************************************************************)
(* RCU's lists never name a thread that has gone, and the storage that a   *)
(* kick wakes is not freed under a force notifier that is still running.   *)
(***************************************************************************)
KickIsSafe ==
    /\ \A t \in registry \cup qsreaders : rdPc[t] # "gone"
    /\ (kickPc = "exit" /\ kickCpu # 0) => storage = "live"

(***************************************************************************)
(* Nothing waits forever: every callback that was queued and every         *)
(* synchronize_rcu ends although a vCPU never leaves guest code by itself, *)
(* because a slow one is forced; a pause ends; and the end of the session  *)
(* joins the vCPU thread, drains and returns.  The one exception the code  *)
(* admits is a force notifier whose retry loop in rr_kick_next_cpu is      *)
(* outrun, round after round, by a vCPU thread that changes rr_current_cpu.*)
(***************************************************************************)
Outrun == kickPc = "check" /\ kickCpu # current

NothingWaitsForever ==
    []<>(\/ /\ called \subseteq ran /\ \A u \in Callers : callPc[u] # "sync"
            /\ mainPc \in {"init", "await", "hold", "poll"} \/ rdPc[Main] = "gone"
         \/ Outrun)

(***************************************************************************)
(* A vCPU that stays able to run is not starved by one that never leaves   *)
(* guest code: the kick timer moves the thread on (with the same exception).*)
(***************************************************************************)
EveryCpuRuns ==
    \A c \in 1 .. MaxCpus :
        []<>(~(c \in Cpus /\ CanRun(c) /\ c \notin halted)
             \/ (rrPc = "exec" /\ rrCpu = c) \/ Outrun)
=============================================================================
