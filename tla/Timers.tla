------------------------------- MODULE Timers -------------------------------
(***************************************************************************)
(* qemu-timer.c: clocks that can be switched off, timer lists attached to  *)
(* a clock, each run by one thread, and timers any thread may arm.         *)
(* The list that the main loop sleeps on is "main"; an IOThread has "io".  *)
(* Both belong to the virtual clock, the one that stops with the VM.       *)
(*                                                                         *)
(* Every access to a list is one step, as active_timers_lock makes it; the *)
(* steps of timerlist_run_timers between which another thread may act are  *)
(* separate.  Replay is off: its checkpoints always pass.                  *)
(***************************************************************************)
EXTENDS Integers, SequencesExt

CONSTANTS Timers,   (* the timers of the lists                               *)
          IoTimers, (* those that belong to the list of the IOThread         *)
          MaxTime   (* bound on the clock                                    *)

ASSUME TimersAssumption == IoTimers \subseteq Timers /\ MaxTime \in Nat

Lists == {"main", "io"}
ListOf(t) == IF t \in IoTimers THEN "io" ELSE "main"
Inactive == -1

VARIABLES
  now,      (* the virtual clock                                             *)
  enabled,  (* clock->enabled                                                *)
  active,   (* active_timers of each list                                    *)
  expire,   (* expire_time of each timer                                     *)
  done,     (* timers_done_ev of each list: whether it is set                *)
  running,  (* where each list's thread is in timerlist_run_timers           *)
  until,    (* its current_time                                              *)
  kicked    (* the main loop's notify_bh is scheduled: its poll returns      *)

timerVars == <<now, enabled, active, expire, done, running, until, kicked>>

(* qemu_init_clocks: the virtual clock starts switched off.                *)
TimersInit ==
    /\ now = 0
    /\ enabled = FALSE
    /\ active = [l \in Lists |-> <<>>]
    /\ expire = [t \in Timers |-> Inactive]
    /\ done = [l \in Lists |-> TRUE]
    /\ running = [l \in Lists |-> "no"]
    /\ until = [l \in Lists |-> 0]
    /\ kicked = FALSE

Tick ==
    /\ now < MaxTime
    /\ now' = now + 1
    /\ UNCHANGED <<enabled, active, expire, done, running, until, kicked>>

-----------------------------------------------------------------------------
(***************************************************************************)
(* Arming.  timer_mod_ns_locked puts a timer behind those that expire no   *)
(* later, and says whether the list has a new head; then, outside the      *)
(* lock, the thread of the list is notified.                               *)
(***************************************************************************)
Without(t) == [active EXCEPT ![ListOf(t)] = RemoveFirst(@, t)]

Place(s, e) ==
    CHOOSE i \in 1 .. Len(s) + 1 :
      /\ i <= Len(s) => expire[s[i]] > e
      /\ \A j \in 1 .. i - 1 : expire[s[j]] <= e

ModLocked(t, e, lists) ==
    /\ active' = [lists EXCEPT ![ListOf(t)] = InsertAt(@, Place(@, e), t)]
    /\ expire' = [expire EXCEPT ![t] = e]

(* Mutant: only the first timer of a list wakes its thread.                *)
NewHeadOfEmpty(t, e, lists) == lists[ListOf(t)] = <<>>

NewHead(t, e, lists) == Place(lists[ListOf(t)], e) = 1

TimerMod(t, e) == ModLocked(t, e, Without(t))
TimerModRearms(t, e) == NewHead(t, e, Without(t))

(* timer_mod_anticipate_ns: a pending timer is only ever moved forward.    *)
Earlier(t, e) == expire[t] = Inactive \/ expire[t] > e

TimerDel(t) ==
    /\ active' = Without(t)
    /\ expire' = [expire EXCEPT ![t] = Inactive]

(* timerlist_deadline_ns, as the time at which the sleep must end.         *)
Deadline(l) == IF active[l] = <<>> \/ ~enabled THEN Inactive ELSE expire[Head(active[l])]

-----------------------------------------------------------------------------
(***************************************************************************)
(* timerlist_run_timers.                                                   *)
(***************************************************************************)
Point(l, from, to) == running[l] = from /\ running' = [running EXCEPT ![l] = to]
ClockUnchanged == UNCHANGED <<now, enabled, kicked>>

RunTimers(l) ==
    /\ Point(l, "no", IF active[l] = <<>> THEN "no" ELSE "reset")
    /\ UNCHANGED <<active, expire, done, until>> /\ ClockUnchanged

(* Mutant: the event is left set while the callbacks run.                  *)
EventLeftSet(l) == done

EventReset(l) == [done EXCEPT ![l] = FALSE]

RunResets(l) ==
    /\ Point(l, "reset", "check")
    /\ done' = EventReset(l)
    /\ UNCHANGED <<active, expire, until>> /\ ClockUnchanged

RunChecks(l) ==
    /\ Point(l, "check", IF enabled THEN "next" ELSE "set")
    /\ until' = [until EXCEPT ![l] = now]
    /\ UNCHANGED <<active, expire, done>> /\ ClockUnchanged

Expired(l) == active[l] # <<>> /\ expire[Head(active[l])] <= until[l]

RunTakes(l) ==
    /\ Expired(l)
    /\ Point(l, "next", "callback")
    /\ active' = [active EXCEPT ![l] = Tail(@)]
    /\ expire' = [expire EXCEPT ![Head(active[l])] = Inactive]
    /\ UNCHANGED <<done, until>> /\ ClockUnchanged

RunFinds(l) ==
    /\ ~Expired(l)
    /\ Point(l, "next", "set")
    /\ UNCHANGED <<active, expire, done, until>> /\ ClockUnchanged

RunSets(l) ==
    /\ Point(l, "set", "no")
    /\ done' = [done EXCEPT ![l] = TRUE]
    /\ UNCHANGED <<active, expire, until>> /\ ClockUnchanged

RunStep(l) == RunResets(l) \/ RunChecks(l) \/ RunTakes(l) \/ RunFinds(l) \/ RunSets(l)

CallbackReturns(l) ==
    /\ Point(l, "callback", "next")
    /\ UNCHANGED <<active, expire, done, until>> /\ ClockUnchanged

(* Which timers are pending and in which order: each list holds its armed  *)
(* timers once, the earliest first.  A callback, a device and another      *)
(* thread may arm, move and delete timers of a list that is being run.     *)
ListsSorted ==
    \A l \in Lists :
      LET s == active[l] IN
      /\ IsInjective(s)
      /\ {s[i] : i \in DOMAIN s} = {t \in Timers : ListOf(t) = l /\ expire[t] # Inactive}
      /\ \A i \in 1 .. Len(s) - 1 : expire[s[i]] <= expire[s[i + 1]]

=============================================================================
