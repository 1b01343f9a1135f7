-------------------------------- MODULE Rcu --------------------------------
(***************************************************************************)
(* Read-copy-update of the embedded QEMU core: util/rcu.c of the port's    *)
(* overlay.  Readers publish in ctr the grace period in which their        *)
(* section began; synchronize_rcu starts a new period and waits until no   *)
(* reader of an older one is left; call_rcu1 queues a callback that the    *)
(* call_rcu thread runs, under the big QEMU lock, after a grace period.    *)
(*                                                                         *)
(* rcu_read_lock and rcu_read_unlock live in a header that is not in this  *)
(* repository; ReadLoad .. ReadWake model them from the comments of rcu.c. *)
(* The code's full barriers make its accesses sequentially consistent.     *)
(* unsigned long has 64 bits on every target the port builds, so           *)
(* synchronize_rcu takes the branch that increments the period.            *)
(***************************************************************************)
EXTENDS Integers, FiniteSets

CONSTANTS
    Readers,    \* threads that may register as readers, CallRcu among them
    Callers,    \* threads that call call_rcu1, drain_call_rcu, synchronize_rcu
    CallRcu,    \* the call_rcu thread
    Dummy,      \* the dummy node of the callback queue
    NONE,
    CallMin,    \* RCU_CALL_MIN_SIZE: callbacks that force a grace period
    MaxSleeps   \* polls of wait_for_readers before it forces (5 in the code)

\* One node that frees an object and one drain node for each caller.
Freed(u) == <<u, "free">>
Drain(u) == <<u, "drain">>
Nodes == Callers \X {"free", "drain"}

\* A process has finitely many threads.
ASSUME RcuAssumption ==
    /\ IsFiniteSet(Readers)
    /\ CallRcu \in Readers \ Callers /\ Callers \subseteq Readers
    /\ NONE \notin Readers \cup Nodes \cup (Nodes \X (Nodes \cup {Dummy, NONE}))
    /\ Dummy \notin Nodes \cup {NONE}
    /\ CallMin \in Nat \ {0} /\ MaxSleeps \in Nat

VARIABLES
    bql,        \* holder of the big QEMU lock
    gpCtr,      \* rcu_gp_ctr
    registry,   \* registered readers not yet seen quiescent
    qsreaders,  \* registered readers seen quiescent in this grace period
    waiting,    \* readers whose waiting flag is set
    gpEvent,    \* rcu_gp_event is set
    registryLock, syncLock,
    ctr,        \* [Readers -> grace period of the section, 0 outside]
    seen,       \* [Readers -> rcu_gp_ctr as rcu_read_lock loaded it]
    rdPc,       \* [Readers -> where the thread is as a reader]
    syncPc, forced, sleeps,   \* locals of the synchronize_rcu that runs
    next, tail, head,         \* the callback queue
    callCount, readyEvent, inDrain,
    callPc,     \* [Callers -> where the thread is in rcu.c]
    callNode,   \* [Callers -> the node it queues]
    hadBql,     \* [Callers -> drain_call_rcu found the lock held]
    rcuPc, n,   \* the call_rcu thread
    called,     \* nodes given to call_rcu1
    ran,        \* nodes whose callback ran
    sees        \* [nodes -> readers that may still use what the node frees]

readerVars == <<ctr, seen, rdPc>>
syncVars   == <<gpCtr, registry, qsreaders, syncPc, forced, sleeps>>
lockVars   == <<registryLock, syncLock>>
eventVars  == <<waiting, gpEvent>>
queueVars  == <<next, tail, head, callCount, readyEvent>>
callerVars == <<inDrain, callPc, callNode, hadBql, called>>
threadVars == <<rcuPc, n, ran>>
rcuVars == <<bql, readerVars, syncVars, lockVars, eventVars, queueVars,
             callerVars, threadVars, sees>>

\* rcu_init_complete: the constructor starts the call_rcu thread, which
\* registers itself; the thread that loads the core is not registered.
RcuInit ==
    /\ gpCtr = 1                          \* RCU_GP_LOCKED
    /\ registry = {CallRcu} /\ qsreaders = {} /\ waiting = {}
    /\ gpEvent = TRUE /\ registryLock = NONE /\ syncLock = NONE
    /\ ctr = [t \in Readers |-> 0] /\ seen = ctr
    /\ syncPc = "off" /\ forced = FALSE /\ sleeps = 0
    /\ next = [x \in Nodes \cup {Dummy} |-> NONE]
    /\ tail = Dummy /\ head = Dummy
    /\ callCount = 0 /\ readyEvent = FALSE /\ inDrain = 0
    /\ callPc = [u \in Callers |-> "idle"]
    /\ callNode = [u \in Callers |-> NONE]
    /\ hadBql = [u \in Callers |-> FALSE]
    /\ rcuPc = "reset" /\ n = 0 /\ ran = {} /\ called = {}
    /\ sees = [x \in Nodes |-> {}]

----------------------------------------------------------------------------
\* Readers.

\* rcu_register_thread; it asserts that the thread is outside a section.
Register(t) ==
    /\ rdPc[t] = "off" /\ registryLock = NONE
    /\ registry' = registry \cup {t}
    /\ rdPc' = [rdPc EXCEPT ![t] = "idle"]
    /\ UNCHANGED <<bql, ctr, seen, gpCtr, qsreaders, syncPc, forced, sleeps,
                   lockVars, eventVars, queueVars, callerVars, threadVars, sees>>

\* Mutant: a reader that was seen quiescent stays in the writer's list.
UnregisterFromRegistry(t) ==
    /\ rdPc[t] = "idle" /\ registryLock = NONE
    /\ registry' = registry \ {t}
    /\ rdPc' = [rdPc EXCEPT ![t] = "gone"]
    /\ UNCHANGED <<bql, ctr, seen, gpCtr, qsreaders, syncPc, forced, sleeps,
                   lockVars, eventVars, queueVars, callerVars, threadVars, sees>>

\* rcu_unregister_thread takes the node out of whichever list it is in; the
\* thread and its thread-local reader record may go away afterwards.
Unregister(t) ==
    /\ rdPc[t] = "idle" /\ registryLock = NONE
    /\ registry' = registry \ {t} /\ qsreaders' = qsreaders \ {t}
    /\ rdPc' = [rdPc EXCEPT ![t] = "gone"]
    /\ UNCHANGED <<bql, ctr, seen, gpCtr, syncPc, forced, sleeps,
                   lockVars, eventVars, queueVars, callerVars, threadVars, sees>>

\* rcu_read_lock: load the period, store it, and only then use pointers.
ReadLoad(t) ==
    /\ rdPc[t] = "idle"
    /\ seen' = [seen EXCEPT ![t] = gpCtr]
    /\ rdPc' = [rdPc EXCEPT ![t] = "load"]
    /\ UNCHANGED <<bql, ctr, syncVars, lockVars, eventVars, queueVars,
                   callerVars, threadVars, sees>>

ReadStore(t) ==
    /\ rdPc[t] = "load"
    /\ ctr' = [ctr EXCEPT ![t] = seen[t]] /\ seen' = [seen EXCEPT ![t] = 0]
    /\ rdPc' = [rdPc EXCEPT ![t] = "in"]
    /\ UNCHANGED <<bql, syncVars, lockVars, eventVars, queueVars,
                   callerVars, threadVars, sees>>

\* rcu_read_unlock: clear the period, then wake a writer that asked for it.
ReadClear(t) ==
    /\ rdPc[t] = "in"
    /\ ctr' = [ctr EXCEPT ![t] = 0]
    /\ rdPc' = [rdPc EXCEPT ![t] = "left"]
    /\ sees' = [x \in Nodes |-> sees[x] \ {t}]
    /\ UNCHANGED <<bql, seen, syncVars, lockVars, eventVars, queueVars,
                   callerVars, threadVars>>

ReadWake(t) ==
    /\ rdPc[t] = "left"
    /\ rdPc' = [rdPc EXCEPT ![t] = "idle"]
    /\ waiting' = waiting \ {t}
    /\ gpEvent' = (gpEvent \/ t \in waiting)
    /\ UNCHANGED <<bql, ctr, seen, syncVars, lockVars, queueVars,
                   callerVars, threadVars, sees>>

----------------------------------------------------------------------------
\* synchronize_rcu.  syncLock serialises its callers, so its locals are global.

GpOngoing(t) == ctr[t] # 0 /\ ctr[t] # gpCtr

\* Thread s, at its step "sync", enters synchronize_rcu.
SyncLock(s) ==
    /\ syncLock = NONE /\ syncLock' = s /\ syncPc' = "start"
    /\ UNCHANGED <<bql, gpCtr, registry, qsreaders, forced, sleeps, registryLock,
                   readerVars, eventVars, queueVars, callerVars, threadVars, sees>>

\* Mutant: the period is not advanced, so readers of this one do not count.
SyncStartSamePeriod ==
    /\ syncPc = "start" /\ registryLock = NONE
    /\ registryLock' = syncLock /\ syncPc' = "force"
    /\ forced' = FALSE /\ sleeps' = 0
    /\ UNCHANGED <<bql, gpCtr, registry, qsreaders, syncLock, readerVars, eventVars,
                   queueVars, callerVars, threadVars, sees>>

SyncStart ==
    /\ syncPc = "start" /\ registryLock = NONE
    /\ IF registry = {}
         THEN /\ syncPc' = "done"
              /\ UNCHANGED <<gpCtr, registryLock>>
         ELSE /\ gpCtr' = gpCtr + 2
              /\ registryLock' = syncLock
              /\ syncPc' = "force"
    /\ forced' = FALSE /\ sleeps' = 0
    /\ UNCHANGED <<bql, registry, qsreaders, syncLock, readerVars, eventVars,
                   queueVars, callerVars, threadVars, sees>>

MustForce ==
    ~forced /\ (callCount >= CallMin \/ sleeps >= MaxSleeps \/ inDrain > 0)

\* The notifiers run first (the kick of the vCPU thread, in RrThread); then
\* every reader that has not been seen quiescent is asked to wake the writer.
SyncForce ==
    /\ syncPc = "force"
    /\ forced' = (forced \/ MustForce)
    /\ syncPc' = IF MustForce THEN "kick" ELSE "scan"
    /\ UNCHANGED <<bql, gpCtr, registry, qsreaders, sleeps, lockVars, readerVars,
                   eventVars, queueVars, callerVars, threadVars, sees>>

SyncNotified ==
    /\ syncPc = "kick"
    /\ waiting' = waiting \cup registry
    /\ syncPc' = "scan"
    /\ UNCHANGED <<bql, gpCtr, registry, qsreaders, forced, sleeps, lockVars,
                   gpEvent, readerVars, queueVars, callerVars, threadVars, sees>>

SyncScan ==
    /\ syncPc = "scan"
    /\ LET quiet == {t \in registry : ~GpOngoing(t)}
           left  == registry \ quiet
       IN /\ waiting' = waiting \ quiet
          /\ IF left = {}
               THEN /\ registry' = qsreaders \cup quiet /\ qsreaders' = {}
                    /\ syncPc' = "done"
               ELSE /\ registry' = left /\ qsreaders' = qsreaders \cup quiet
                    /\ syncPc' = IF forced THEN "wait" ELSE "sleep"
    /\ registryLock' = NONE
    /\ UNCHANGED <<bql, gpCtr, forced, sleeps, syncLock, gpEvent, readerVars,
                   queueVars, callerVars, threadVars, sees>>

\* g_usleep between polls, or qemu_event_wait and then qemu_event_reset.
SyncSleep ==
    /\ \/ syncPc = "sleep" /\ sleeps' = sleeps + 1 /\ syncPc' = "relock"
          /\ UNCHANGED gpEvent
       \/ syncPc = "wait" /\ gpEvent /\ syncPc' = "clear"
          /\ UNCHANGED <<sleeps, gpEvent>>
       \/ syncPc = "clear" /\ gpEvent' = FALSE /\ syncPc' = "relock"
          /\ UNCHANGED sleeps
    /\ UNCHANGED <<bql, gpCtr, registry, qsreaders, forced, lockVars, waiting,
                   readerVars, queueVars, callerVars, threadVars, sees>>

SyncRelock ==
    /\ syncPc = "relock" /\ registryLock = NONE
    /\ registryLock' = syncLock /\ syncPc' = "force"
    /\ UNCHANGED <<bql, gpCtr, registry, qsreaders, forced, sleeps, syncLock,
                   eventVars, readerVars, queueVars, callerVars, threadVars, sees>>

SyncStep == SyncStart \/ SyncForce \/ SyncScan \/ SyncSleep \/ SyncRelock

\* Thread s leaves synchronize_rcu.
SyncUnlock(s) ==
    /\ syncPc = "done" /\ syncLock = s
    /\ syncLock' = NONE /\ syncPc' = "off"

----------------------------------------------------------------------------
\* Callers.  enqueue exchanges the tail and only then links the old one.

CallXchg(u, x, pc) ==
    /\ next' = [next EXCEPT ![x] = NONE]
    /\ tail' = x /\ called' = called \cup {x}
    /\ callNode' = [callNode EXCEPT ![u] = <<x, tail>>]
    /\ callPc' = [callPc EXCEPT ![u] = pc]

\* The thread has unlinked an object and queues the callback that frees it:
\* the readers now inside a section may still be using it.
CallRcu1(u) ==
    /\ callPc[u] = "idle" /\ callNode[u] = NONE
    /\ CallXchg(u, Freed(u), "link")
    /\ sees' = [sees EXCEPT ![Freed(u)] = {t \in Readers : rdPc[t] = "in"}]
    /\ UNCHANGED <<bql, head, callCount, readyEvent, inDrain, hadBql, syncVars,
                   lockVars, eventVars, readerVars, threadVars>>

CallLink(u) ==
    /\ callPc[u] = "link"
    /\ next' = [next EXCEPT ![callNode[u][2]] = callNode[u][1]]
    /\ callPc' = [callPc EXCEPT ![u] = "count"]
    /\ UNCHANGED <<bql, tail, head, callCount, readyEvent, inDrain, callNode, hadBql, called,
                   syncVars, lockVars, eventVars, readerVars, threadVars, sees>>

CallCount(u) ==
    /\ callPc[u] = "count"
    /\ callCount' = callCount + 1
    /\ callPc' = [callPc EXCEPT ![u] = "ready"]
    /\ UNCHANGED <<bql, next, tail, head, readyEvent, inDrain, callNode, hadBql, called,
                   syncVars, lockVars, eventVars, readerVars, threadVars, sees>>

CallReady(u) ==
    /\ callPc[u] = "ready"
    /\ readyEvent' = TRUE
    /\ callPc' = [callPc EXCEPT ![u] = IF callNode[u][1] = Drain(u)
                                         THEN "drain" ELSE "idle"]
    /\ UNCHANGED <<bql, next, tail, head, callCount, inDrain, callNode, hadBql, called,
                   syncVars, lockVars, eventVars, readerVars, threadVars, sees>>

\* drain_call_rcu: give up the big lock if it is held, queue the drain node,
\* wait until its callback has run, and take the lock back.
DrainCallRcu(u) ==
    /\ callPc[u] = "idle" /\ rdPc[u] \notin {"load", "in"}
    /\ callNode[u] # NONE => callNode[u][1] = Freed(u)
    /\ hadBql' = [hadBql EXCEPT ![u] = (bql = u)]
    /\ bql' = IF bql = u THEN NONE ELSE bql
    /\ inDrain' = inDrain + 1
    /\ CallXchg(u, Drain(u), "link")
    /\ UNCHANGED <<head, callCount, readyEvent, syncVars, lockVars, eventVars,
                   readerVars, threadVars, sees>>

DrainReturn(u) ==
    /\ callPc[u] = "drain" /\ Drain(u) \in ran
    /\ hadBql[u] => bql = NONE
    /\ bql' = IF hadBql[u] THEN u ELSE bql
    /\ inDrain' = inDrain - 1
    /\ callPc' = [callPc EXCEPT ![u] = "drained"]
    /\ UNCHANGED <<callNode, hadBql, called, queueVars, syncVars, lockVars, eventVars,
                   readerVars, threadVars, sees>>

----------------------------------------------------------------------------
\* The call_rcu thread.

\* try_dequeue: the node to run and the queue after it.  A dummy at the head
\* is put back at the end first; a node not yet linked hides what follows.
TryDequeue ==
    LET first  == next[head]
        second == IF first = NONE THEN NONE
                  ELSE IF tail = first THEN Dummy ELSE next[first]
    IN CASE first = NONE -> [node |-> NONE, head |-> head, next |-> next, tail |-> tail]
         [] first # NONE /\ head # Dummy ->
              [node |-> head, head |-> first, next |-> next, tail |-> tail]
         [] OTHER ->
              LET relinked == [[next EXCEPT ![Dummy] = NONE] EXCEPT ![tail] = Dummy]
              IN [node |-> IF second = NONE THEN NONE ELSE first,
                  head |-> IF second = NONE THEN first ELSE second,
                  next |-> relinked, tail |-> Dummy]

RcuGoto(pc) == rcuPc' = pc

\* Runs the callback of node x; a drain node's sets its caller's event.
RunCallback(x) == ran' = ran \cup {x}

RcuReset ==
    /\ rcuPc \in {"reset", "again"}
    /\ readyEvent' = FALSE
    /\ RcuGoto(IF rcuPc = "reset" THEN "fetch" ELSE "retry")
    /\ UNCHANGED <<bql, next, tail, head, callCount, n, ran, readerVars, syncVars,
                   lockVars, eventVars, callerVars, sees>>

RcuFetch ==
    /\ rcuPc = "fetch"
    /\ n' = callCount
    /\ RcuGoto(IF callCount = 0 THEN "idle" ELSE "sync")
    /\ UNCHANGED <<bql, ran, queueVars, readerVars, syncVars, lockVars, eventVars,
                   callerVars, sees>>

RcuWait ==
    /\ rcuPc \in {"idle", "stall"} /\ readyEvent
    /\ RcuGoto(IF rcuPc = "idle" THEN "reset" ELSE "third")
    /\ UNCHANGED <<bql, n, ran, queueVars, readerVars, syncVars, lockVars, eventVars,
                   callerVars, sees>>

RcuSync ==
    /\ rcuPc = "sync" /\ SyncLock(CallRcu)

RcuSynced ==
    /\ rcuPc = "sync" /\ SyncUnlock(CallRcu)
    /\ callCount' = callCount - n
    /\ RcuGoto("lock")
    /\ UNCHANGED <<bql, gpCtr, registry, qsreaders, forced, sleeps, registryLock,
                   next, tail, head, readyEvent, n, ran, readerVars, eventVars,
                   callerVars, sees>>

\* bql_lock, before the callbacks; after a third failed dequeue the loop
\* takes the lock only to release it again.
RcuLockBql ==
    /\ rcuPc \in {"lock", "relock"} /\ bql = NONE
    /\ bql' = IF rcuPc = "lock" THEN CallRcu ELSE NONE
    /\ RcuGoto(IF rcuPc = "lock" THEN "take" ELSE "again")
    /\ UNCHANGED <<n, ran, queueVars, readerVars, syncVars, lockVars, eventVars,
                   callerVars, sees>>

\* One try_dequeue.  At "take" the thread holds the lock and runs what it gets;
\* at "retry" and "third" it does not, and keeps the node until it does.
RcuDequeue ==
    /\ rcuPc \in {"take", "retry", "third"}
    /\ LET q == TryDequeue IN
         /\ head' = q.head /\ next' = q.next /\ tail' = q.tail
         /\ IF q.node = NONE
              THEN /\ RcuGoto(CASE rcuPc = "take"  -> "again"
                                [] rcuPc = "retry" -> "stall"
                                [] rcuPc = "third" -> "relock")
                   /\ bql' = IF rcuPc = "take" THEN NONE ELSE bql
                   /\ UNCHANGED <<n, ran>>
              ELSE /\ rcuPc # "take" => bql = NONE
                   /\ RunCallback(q.node)
                   /\ n' = n - 1
                   /\ RcuGoto(IF n = 1 THEN "reset" ELSE "take")
                   /\ bql' = IF n = 1 THEN NONE ELSE CallRcu
    /\ UNCHANGED <<callCount, readyEvent, readerVars, syncVars, lockVars, eventVars,
                   callerVars, sees>>

RcuThread == RcuReset \/ RcuFetch \/ RcuWait \/ RcuSync \/ RcuSynced
             \/ RcuLockBql \/ RcuDequeue

\* A caller may also wait for a grace period itself and free what it unlinked.
SyncCall(u) ==
    /\ callPc[u] = "idle" /\ callNode[u] = NONE /\ bql # u
    /\ rdPc[u] \notin {"load", "in"}
    /\ callPc' = [callPc EXCEPT ![u] = "sync"]
    /\ callNode' = [callNode EXCEPT ![u] = <<Freed(u), NONE>>]
    /\ sees' = [sees EXCEPT ![Freed(u)] = {t \in Readers : rdPc[t] = "in"}]
    /\ UNCHANGED <<bql, inDrain, hadBql, called, queueVars, readerVars, syncVars, lockVars,
                   eventVars, threadVars>>

SyncEnter(u) == callPc[u] = "sync" /\ syncLock # u /\ SyncLock(u)

SyncReturn(u) ==
    /\ callPc[u] = "sync" /\ SyncUnlock(u)
    /\ RunCallback(Freed(u))
    /\ callPc' = [callPc EXCEPT ![u] = "idle"]
    /\ UNCHANGED <<bql, gpCtr, registry, qsreaders, forced, sleeps, registryLock,
                   rcuPc, n, inDrain, callNode, hadBql, called, queueVars,
                   readerVars,
                   eventVars, sees>>
=============================================================================
