----------------------------- MODULE RrProofs -----------------------------
(***************************************************************************)
(* RCU and the vCPU thread, for any threads, vCPUs and grace periods: a    *)
(* callback runs in its turn and frees nothing that a reader may still     *)
(* use, and a force notifier kicks only a vCPU thread that is there.  Four *)
(* predicates make the invariant: the readers' lists, the locks of a grace *)
(* period, the callers and the queue of callbacks (RcuInv); the vCPU       *)
(* thread's scheduling (CpuInv), its life (LifeInv) and the kicks          *)
(* (KickInv).  The queue is described by numbered positions, so the lemmas *)
(* about try_dequeue say what it takes away and what it puts back.         *)
(***************************************************************************)
EXTENDS RrThread, FiniteSetTheorems, TLAPS

-----------------------------------------------------------------------------
(* The threads in RCU's lists, and where each is as a reader.              *)
Listed == {"idle", "load", "in", "left"}

ReaderInv ==
  /\ bql \in Readers \cup {NONE}
  /\ rdPc \in [Readers -> Listed \cup {"off", "gone"}]
  /\ ctr \in [Readers -> Nat] /\ seen \in [Readers -> Nat] /\ gpCtr \in Nat \ {0}
  /\ registry \cup qsreaders = {t \in Readers : rdPc[t] \in Listed}
  /\ registry \cap qsreaders = {}
  /\ \A t \in Readers : rdPc[t] = "in" => ctr[t] \in 1 .. gpCtr
  /\ \A t \in Readers : rdPc[t] = "load" => seen[t] \in 1 .. gpCtr
  /\ sees \in [Nodes -> SUBSET Readers]
  /\ \A x \in Nodes, t \in Readers : t \in sees[x] => rdPc[t] = "in"

(* The locks of synchronize_rcu.                                           *)
SyncInv ==
  /\ syncLock = NONE <=> syncPc = "off"
  /\ syncLock \in Callers \cup {CallRcu, NONE}
  /\ syncPc \in {"off", "start", "done"} => qsreaders = {}
  /\ syncPc \in {"force", "kick", "scan"} => registryLock # NONE

(* What the grace period under way has done for the node x: who may still  *)
(* use it is a reader of an older period that the writer waits for.        *)
Waits == {"force", "kick", "scan", "sleep", "wait", "clear", "relock"}

Graced(x) ==
  /\ syncPc = "done" => sees[x] = {}
  /\ syncPc \in Waits =>
       \A t \in sees[x] : t \in registry /\ ctr[t] # 0 /\ ctr[t] < gpCtr

(* The nodes of each caller: each is queued once, the drain node last.     *)
Queueing == {u \in Callers : callPc[u] \in {"link", "count"}}
Draining == {u \in Callers : /\ callPc[u] \in {"link", "count", "ready", "drain"}
                             /\ callNode[u][1] = Drain(u)}

CallInv(u) ==
  /\ callNode[u] = NONE \/ callNode[u][1] \in {Freed(u), Drain(u)}
  /\ callNode[u] = NONE => callPc[u] = "idle"
  /\ Freed(u) \in called \cup ran => callNode[u] # NONE
  /\ Drain(u) \in called \cup ran => callNode[u] # NONE /\ callNode[u][1] = Drain(u)
  /\ Drain(u) \in ran => Drain(u) \in called
  /\ callPc[u] = "sync" => callNode[u][1] = Freed(u) /\ Freed(u) \notin called
  /\ callPc[u] = "drain" => callNode[u][1] = Drain(u)
  /\ callPc[u] = "drained" => Drain(u) \in ran
  /\ Freed(u) \in called /\ Drain(u) \in ran => Freed(u) \in ran
  /\ Freed(u) \in ran => sees[Freed(u)] = {}
  /\ callPc[u] = "sync" /\ syncLock = u => Graced(Freed(u))
  /\ syncLock = u => callPc[u] = "sync"

CallersInv ==
  /\ callPc \in [Callers -> {"idle", "link", "count", "ready", "drain", "drained", "sync"}]
  /\ DOMAIN callNode = Callers /\ DOMAIN hadBql = Callers
  /\ called \in SUBSET Nodes /\ ran \in SUBSET Nodes
  /\ inDrain = Cardinality(Draining)
  /\ \A u \in Callers : CallInv(u)

(* The queue holds the nodes q[a] .. q[b], the dummy at d.  h, t and x are *)
(* its head, its tail and the links, R the nodes that have run.            *)
Linked(a, b, q, h, t, x) ==
  /\ a <= b /\ q[a] = h /\ q[b] = t
  /\ \A i, j \in a .. b : q[i] = q[j] => i = j
  /\ x \in [Nodes \cup {Dummy} -> Nodes \cup {Dummy, NONE}]
  /\ x[t] = NONE
  /\ \A i \in a .. b - 1 : x[q[i]] \in {q[i + 1], NONE}
  /\ \A u \in Callers : callPc[u] = "link" =>
       \E i \in a .. b - 1 : callNode[u] = <<q[i + 1], q[i]>> /\ x[q[i]] = NONE

Contents(a, b, d, q, R) ==
  /\ d \in a .. b /\ q[d] = Dummy
  /\ \A i \in a .. b : q[i] # Dummy => q[i] \in called \ R
  /\ \A y \in called \ R : \E i \in a .. b : q[i] = y
  /\ \A u \in Callers, i, j \in a .. b : q[i] = Freed(u) /\ q[j] = Drain(u) => i < j

(* The k callbacks fetched before the grace period are among the first, up *)
(* to m; once it is over nobody may use any of these.                      *)
Batch(a, b, d, m, k) ==
  m <= b /\ k <= m - a + (IF d <= m THEN 0 ELSE 1)

Settled(a, m, q) == \A i \in a .. m : q[i] # Dummy => sees[q[i]] = {}

Running == {"lock", "take", "again", "retry", "stall", "third", "relock"}

Counted(a, b, k) == b - a = callCount + Cardinality(Queueing) + k

Covered(a, b, d, m, q) ==
  /\ callCount \in Nat /\ n \in Nat
  /\ Counted(a, b, IF rcuPc \in Running THEN n ELSE 0)
  /\ rcuPc = "sync" => n <= callCount
  /\ syncLock = CallRcu => rcuPc = "sync"
  /\ rcuPc \in Running \cup {"sync"} => n >= 1 /\ Batch(a, b, d, m, n)
  /\ rcuPc \in Running => Settled(a, m, q)
  /\ rcuPc = "sync" /\ syncLock = CallRcu =>
       \A i \in a .. m : q[i] # Dummy => Graced(q[i])

QueueAt(a, b, d, m, q) ==
  /\ Linked(a, b, q, head, tail, next)
  /\ Contents(a, b, d, q, ran)
  /\ Covered(a, b, d, m, q)

QueueInv ==
  \E a, b, d, m \in Int, q \in [Int -> Nodes \cup {Dummy}] : QueueAt(a, b, d, m, q)

(* What a step must keep for the nodes: whom the grace period waits for.   *)
GraceKept ==
  \A x \in Nodes : /\ sees'[x] \subseteq sees[x]
                   /\ Graced(x) \/ syncLock' # syncLock => Graced(x)'

(* Who synchronizes is at that step.                                       *)
LockKept ==
  syncLock' # syncLock => /\ syncLock' = CallRcu => rcuPc = "sync"
                          /\ \A u \in Callers : syncLock' = u => callPc[u] = "sync"

RcuInv == ReaderInv /\ SyncInv /\ CallersInv /\ QueueInv

-----------------------------------------------------------------------------
(* The vCPU thread lives between its start and its join.                   *)
CpuInv ==
  /\ cpus \in Nat \ {0} /\ replay \in {Rr, Main, NONE}
  /\ current \in 0 .. cpus /\ rrCpu \in 0 .. cpus /\ kickCpu \in 0 .. cpus
  /\ rrPc \in {"check", "exec", "after"} => rrCpu # 0
  /\ stop \subseteq Cpus /\ stopped \subseteq Cpus /\ halted \subseteq Cpus /\ work \subseteq Cpus
  /\ exitReq \subseteq Cpus /\ created \subseteq Cpus /\ alias \subseteq Cpus

LifeInv ==
  /\ rrPc \in {"none", "boot"} <=> rdPc[Rr] = "off"
  /\ rrPc = "done" <=> rdPc[Rr] = "gone"
  /\ rrPc \notin {"none", "done"} => storage = "live"
  /\ mainPc \in {"joined", "free", "stopped", "exit"} => rrPc = "done"
  /\ mainPc = "init" /\ alias = {} => rrPc = "none"
  /\ mainPc = "await" => alias # {}

KickInv == kickPc # "off" => syncPc = "kick" /\ Rr \in registry

IInv == RcuInv /\ CpuInv /\ LifeInv /\ KickInv

-----------------------------------------------------------------------------
(* Nodes of different callers differ, and none is the dummy or NONE.       *)
LEMMA NodesDiffer ==
  /\ Dummy \notin Nodes /\ NONE \notin Nodes /\ Dummy # NONE
  /\ \A u \in Callers : Freed(u) \in Nodes /\ Drain(u) \in Nodes /\ Freed(u) # Drain(u)
  /\ \A u, v \in Callers : u # v => {Freed(u), Drain(u)} \cap {Freed(v), Drain(v)} = {}
  BY RcuAssumption DEF Nodes, Freed, Drain

LEMMA HeldDiffers ==
  \A x \in Nodes, y \in Nodes \cup {Dummy, NONE} : <<x, y>> # NONE
  BY RcuAssumption

LEMMA CallersFinite == IsFiniteSet(Callers)
  BY RcuAssumption, FS_Subset

(* A step that touches neither queue, callers nor the call_rcu thread.     *)
LEMMA QuietKeeps ==
  ASSUME RcuInv, ReaderInv', SyncInv', GraceKept, LockKept,
         UNCHANGED <<queueVars, callerVars, threadVars>>
  PROVE  RcuInv'
<1>1. /\ next' = next /\ tail' = tail /\ head' = head /\ callCount' = callCount
      /\ inDrain' = inDrain /\ callPc' = callPc /\ callNode' = callNode
      /\ hadBql' = hadBql /\ called' = called
      /\ rcuPc' = rcuPc /\ n' = n /\ ran' = ran
  BY DEF queueVars, callerVars, threadVars
<1>2. Queueing' = Queueing /\ Draining' = Draining
  BY <1>1 DEF Queueing, Draining
<1>3. CallersInv'
  <2>1. ASSUME NEW u \in Callers PROVE CallInv(u)'
    <3>1. CallInv(u) /\ Freed(u) \in Nodes
      BY NodesDiffer DEF RcuInv, CallersInv
    <3>2. Freed(u) \in ran' => sees'[Freed(u)] = {}
      BY <1>1, <3>1 DEF CallInv, GraceKept
    <3>3. callPc'[u] = "sync" /\ syncLock' = u => Graced(Freed(u))'
      BY <1>1, <3>1 DEF CallInv, GraceKept
    <3> QED
      BY <1>1, <3>1, <3>2, <3>3 DEF CallInv, LockKept
  <2> QED
    BY <1>1, <1>2, <2>1 DEF RcuInv, CallersInv
<1>4. QueueInv'
  <2>1. PICK a, b, d, m \in Int, q \in [Int -> Nodes \cup {Dummy}] : QueueAt(a, b, d, m, q)
    BY DEF RcuInv, QueueInv
  <2>2. Linked(a, b, q, head, tail, next)'
    BY <1>1, <2>1 DEF QueueAt, Linked
  <2>3. Contents(a, b, d, q, ran)'
    BY <1>1, <2>1 DEF QueueAt, Contents
  <2>4. Covered(a, b, d, m, q)'
    <3>1. Covered(a, b, d, m, q)
      BY <2>1 DEF QueueAt
    <3>2. ASSUME NEW i \in a .. m, q[i] # Dummy
          PROVE  /\ sees[q[i]] = {} => sees'[q[i]] = {}
                 /\ Graced(q[i]) \/ syncLock' # syncLock => Graced(q[i])'
      BY <3>2 DEF GraceKept
    <3>3. rcuPc \in Running => Settled(a, m, q)'
      BY <3>1, <3>2 DEF Covered, Settled
    <3>4. rcuPc = "sync" /\ syncLock' = CallRcu =>
            \A i \in a .. m : q[i] # Dummy => Graced(q[i])'
      BY <3>1, <3>2 DEF Covered
    <3> QED
      BY <1>1, <1>2, <3>1, <3>3, <3>4 DEF Covered, Counted, Batch, LockKept
  <2> QED
    BY <2>2, <2>3, <2>4 DEF QueueInv, QueueAt
<1> QED
  BY <1>3, <1>4 DEF RcuInv

(* A step that changes only the big lock and what is outside RCU.          *)
LEMMA BqlKeeps ==
  ASSUME RcuInv, UNCHANGED rcuRest, bql' \in Readers \cup {NONE}
  PROVE  RcuInv'
<1>1. UNCHANGED <<queueVars, callerVars, threadVars, ctr, seen, rdPc, gpCtr, registry, qsreaders,
                  syncPc, registryLock, syncLock, sees>>
  BY DEF rcuRest, readerVars, syncVars, lockVars
<1>2. ReaderInv' /\ SyncInv' /\ GraceKept
  BY <1>1 DEF RcuInv, ReaderInv, SyncInv, GraceKept, Graced
<1> QED
  BY <1>1, <1>2, QuietKeeps DEF LockKept

LEMMA RcuStutters ==
  ASSUME RcuInv, UNCHANGED rcuVars
  PROVE  RcuInv'
<1>1. UNCHANGED rcuRest /\ bql' = bql
  BY DEF rcuVars, rcuRest
<1> QED
  BY <1>1, BqlKeeps DEF RcuInv, ReaderInv

-----------------------------------------------------------------------------
(* Readers.                                                                *)
LEMMA RegisterKeeps ==
  ASSUME RcuInv, NEW t \in Readers, Register(t)
  PROVE  RcuInv'
<1>1. UNCHANGED <<queueVars, callerVars, threadVars, bql, ctr, seen, gpCtr, qsreaders, syncPc,
                  registryLock, syncLock, sees>>
  BY DEF Register, lockVars
<1>2. ReaderInv'
  BY <1>1 DEF RcuInv, ReaderInv, Register, Listed
<1>3. SyncInv' /\ GraceKept
  BY <1>1 DEF RcuInv, SyncInv, GraceKept, Graced, Register
<1> QED
  BY <1>1, <1>2, <1>3, QuietKeeps DEF LockKept

LEMMA UnregisterKeeps ==
  ASSUME RcuInv, NEW t \in Readers, Unregister(t)
  PROVE  RcuInv'
<1>1. UNCHANGED <<queueVars, callerVars, threadVars, bql, ctr, seen, gpCtr, syncPc,
                  registryLock, syncLock, sees>>
  BY DEF Unregister, lockVars
<1>2. ReaderInv'
  BY <1>1 DEF RcuInv, ReaderInv, Unregister, Listed
<1>3. SyncInv'
  BY <1>1 DEF RcuInv, SyncInv, Unregister
<1>4. GraceKept
  <2>1. \A x \in Nodes : t \notin sees[x]
    BY DEF RcuInv, ReaderInv, Unregister
  <2> QED
    BY <1>1, <2>1 DEF GraceKept, Graced, Unregister, RcuInv, ReaderInv
<1> QED
  BY <1>1, <1>2, <1>3, <1>4, QuietKeeps DEF LockKept

LEMMA ReadLoadKeeps ==
  ASSUME RcuInv, NEW t \in Readers, ReadLoad(t)
  PROVE  RcuInv'
<1>1. UNCHANGED <<queueVars, callerVars, threadVars, bql, ctr, gpCtr, registry, qsreaders,
                  syncPc, registryLock, syncLock, sees>>
  BY DEF ReadLoad, lockVars, syncVars
<1>2. ReaderInv'
  BY <1>1 DEF RcuInv, ReaderInv, ReadLoad, Listed
<1>3. SyncInv' /\ GraceKept
  BY <1>1 DEF RcuInv, SyncInv, GraceKept, Graced
<1> QED
  BY <1>1, <1>2, <1>3, QuietKeeps DEF LockKept

LEMMA ReadStoreKeeps ==
  ASSUME RcuInv, NEW t \in Readers, ReadStore(t)
  PROVE  RcuInv'
<1>1. UNCHANGED <<queueVars, callerVars, threadVars, bql, gpCtr, registry, qsreaders,
                  syncPc, registryLock, syncLock, sees>>
  BY DEF ReadStore, lockVars, syncVars
<1>2. ReaderInv'
  BY <1>1 DEF RcuInv, ReaderInv, ReadStore, Listed
<1>3. SyncInv'
  BY <1>1 DEF RcuInv, SyncInv
<1>4. GraceKept
  <2>1. \A x \in Nodes : t \notin sees[x] /\ sees[x] \subseteq Readers
    BY DEF RcuInv, ReaderInv, ReadStore
  <2>2. \A s \in Readers : s # t => ctr'[s] = ctr[s]
    BY DEF RcuInv, ReaderInv, ReadStore
  <2> QED
    BY <1>1, <2>1, <2>2 DEF GraceKept, Graced
<1> QED
  BY <1>1, <1>2, <1>3, <1>4, QuietKeeps DEF LockKept

LEMMA ReadClearKeeps ==
  ASSUME RcuInv, NEW t \in Readers, ReadClear(t)
  PROVE  RcuInv'
<1>1. UNCHANGED <<queueVars, callerVars, threadVars, bql, seen, gpCtr, registry, qsreaders,
                  syncPc, registryLock, syncLock>>
  BY DEF ReadClear, lockVars, syncVars
<1>2. \A x \in Nodes : sees'[x] = sees[x] \ {t}
  BY DEF ReadClear
<1>3. ReaderInv'
  BY <1>1 DEF RcuInv, ReaderInv, ReadClear, Listed
<1>4. SyncInv'
  BY <1>1 DEF RcuInv, SyncInv
<1>5. GraceKept
  <2>1. \A x \in Nodes : sees[x] \subseteq Readers
    BY DEF RcuInv, ReaderInv
  <2>2. \A s \in Readers : s # t => ctr'[s] = ctr[s]
    BY DEF RcuInv, ReaderInv, ReadClear
  <2> QED
    BY <1>1, <1>2, <2>1, <2>2 DEF GraceKept, Graced
<1> QED
  BY <1>1, <1>3, <1>4, <1>5, QuietKeeps DEF LockKept

LEMMA ReadWakeKeeps ==
  ASSUME RcuInv, NEW t \in Readers, ReadWake(t)
  PROVE  RcuInv'
<1>1. UNCHANGED <<queueVars, callerVars, threadVars, bql, ctr, seen, gpCtr, registry, qsreaders,
                  syncPc, registryLock, syncLock, sees>>
  BY DEF ReadWake, lockVars, syncVars
<1>2. ReaderInv'
  BY <1>1 DEF RcuInv, ReaderInv, ReadWake, Listed
<1>3. SyncInv' /\ GraceKept
  BY <1>1 DEF RcuInv, SyncInv, GraceKept, Graced
<1> QED
  BY <1>1, <1>2, <1>3, QuietKeeps DEF LockKept

-----------------------------------------------------------------------------
(* synchronize_rcu.                                                        *)
LEMMA LockNames ==
  NONE \notin Callers \cup {CallRcu} /\ CallRcu \notin Callers
  BY RcuAssumption

LEMMA SyncLockKeeps ==
  ASSUME RcuInv, NEW s \in Callers \cup {CallRcu}, SyncLock(s),
         s = CallRcu => rcuPc = "sync", s \in Callers => callPc[s] = "sync"
  PROVE  RcuInv'
<1>1. UNCHANGED <<queueVars, callerVars, threadVars, bql, ctr, seen, rdPc, gpCtr, registry,
                  qsreaders, registryLock, sees>>
  BY DEF SyncLock, readerVars
<1>2. ReaderInv'
  BY <1>1 DEF RcuInv, ReaderInv
<1>3. SyncInv'
  BY <1>1, LockNames DEF RcuInv, SyncInv, SyncLock
<1>4. GraceKept /\ LockKept
  BY <1>1 DEF GraceKept, Graced, SyncLock, Waits, LockKept
<1> QED
  BY <1>1, <1>2, <1>3, <1>4, QuietKeeps

LEMMA SyncStartKeeps ==
  ASSUME RcuInv, SyncStart
  PROVE  RcuInv'
<1>1. UNCHANGED <<queueVars, callerVars, threadVars, bql, ctr, seen, rdPc, registry, qsreaders,
                  syncLock, sees>>
  BY DEF SyncStart, readerVars
<1>2. gpCtr \in Nat \ {0} /\ gpCtr' \in {gpCtr, gpCtr + 2}
  BY DEF RcuInv, ReaderInv, SyncStart
<1>3. ReaderInv'
  BY <1>1, <1>2 DEF RcuInv, ReaderInv
<1>4. SyncInv'
  BY <1>1 DEF RcuInv, SyncInv, SyncStart
<1>5. GraceKept
  <2>1. ASSUME NEW x \in Nodes PROVE Graced(x)'
    <3>1. \A t \in sees[x] : t \in Readers /\ rdPc[t] = "in"
      BY DEF RcuInv, ReaderInv
    <3>2. \A t \in sees[x] : t \in registry /\ ctr[t] \in 1 .. gpCtr
      BY <3>1 DEF RcuInv, ReaderInv, SyncInv, SyncStart, Listed
    <3>3. CASE registry = {}
      BY <1>1, <3>2, <3>3 DEF Graced, SyncStart, Waits
    <3>4. CASE registry # {}
      BY <1>1, <1>2, <3>2, <3>4 DEF Graced, SyncStart
    <3> QED
      BY <3>3, <3>4
  <2> QED
    BY <1>1, <2>1 DEF GraceKept
<1> QED
  BY <1>1, <1>3, <1>4, <1>5, QuietKeeps DEF LockKept

LEMMA SyncForceKeeps ==
  ASSUME RcuInv, SyncForce
  PROVE  RcuInv'
<1>1. UNCHANGED <<queueVars, callerVars, threadVars, bql, ctr, seen, rdPc, gpCtr, registry,
                  qsreaders, registryLock, syncLock, sees>>
  BY DEF SyncForce, readerVars, lockVars
<1>2. syncPc = "force" /\ syncPc' \in {"kick", "scan"}
  BY DEF SyncForce
<1>3. ReaderInv' /\ SyncInv' /\ GraceKept
  BY <1>1, <1>2 DEF RcuInv, ReaderInv, SyncInv, GraceKept, Graced, Waits
<1> QED
  BY <1>1, <1>3, QuietKeeps DEF LockKept

LEMMA SyncNotifiedKeeps ==
  ASSUME RcuInv, SyncNotified
  PROVE  RcuInv'
<1>1. UNCHANGED <<queueVars, callerVars, threadVars, bql, ctr, seen, rdPc, gpCtr, registry,
                  qsreaders, registryLock, syncLock, sees>>
  BY DEF SyncNotified, readerVars, lockVars
<1>2. syncPc = "kick" /\ syncPc' = "scan"
  BY DEF SyncNotified
<1>3. ReaderInv' /\ SyncInv' /\ GraceKept
  BY <1>1, <1>2 DEF RcuInv, ReaderInv, SyncInv, GraceKept, Graced, Waits
<1> QED
  BY <1>1, <1>3, QuietKeeps DEF LockKept

LEMMA SyncScanKeeps ==
  ASSUME RcuInv, SyncScan
  PROVE  RcuInv'
<1> DEFINE quiet == {t \in registry : ~GpOngoing(t)}
           left  == registry \ quiet
<1>1. UNCHANGED <<queueVars, callerVars, threadVars, bql, ctr, seen, rdPc, gpCtr, syncLock, sees>>
  BY DEF SyncScan, readerVars
<1>2. /\ syncPc = "scan" /\ registryLock' = NONE
      /\ left = {} => /\ registry' = qsreaders \cup quiet /\ qsreaders' = {}
                      /\ syncPc' = "done"
      /\ left # {} => /\ registry' = left /\ qsreaders' = qsreaders \cup quiet
                      /\ syncPc' \in {"wait", "sleep"}
  BY DEF SyncScan
<1>3. \A t \in registry : t \in left <=> ctr[t] # 0 /\ ctr[t] # gpCtr
  BY DEF GpOngoing
<1>4. quiet \subseteq registry /\ left \subseteq registry /\ quiet \cap left = {}
      /\ quiet \cup left = registry
  OBVIOUS
<1> HIDE DEF quiet, left
<1>5. ReaderInv'
  <2>1. registry' \cup qsreaders' = registry \cup qsreaders /\ registry' \cap qsreaders' = {}
    BY <1>2, <1>4 DEF RcuInv, ReaderInv
  <2> QED
    BY <1>1, <2>1 DEF RcuInv, ReaderInv
<1>6. SyncInv'
  BY <1>1, <1>2 DEF RcuInv, SyncInv
<1>7. GraceKept
  <2>1. ASSUME NEW x \in Nodes, Graced(x) PROVE Graced(x)'
    <3>1. \A t \in sees[x] : t \in left /\ ctr[t] # 0 /\ ctr[t] < gpCtr
      <4>1. \A t \in sees[x] : t \in Readers /\ ctr[t] \in Nat /\ gpCtr \in Nat
        BY DEF RcuInv, ReaderInv
      <4>2. \A t \in sees[x] : t \in registry /\ ctr[t] # 0 /\ ctr[t] < gpCtr
        BY <1>2, <2>1 DEF Graced, Waits
      <4> QED
        BY <1>3, <4>1, <4>2
    <3> QED
      BY <1>1, <1>2, <3>1 DEF Graced
  <2> QED
    BY <1>1, <2>1 DEF GraceKept
<1> QED
  BY <1>1, <1>5, <1>6, <1>7, QuietKeeps DEF LockKept

LEMMA SyncSleepKeeps ==
  ASSUME RcuInv, SyncSleep
  PROVE  RcuInv'
<1>1. UNCHANGED <<queueVars, callerVars, threadVars, bql, ctr, seen, rdPc, gpCtr, registry,
                  qsreaders, registryLock, syncLock, sees>>
  BY DEF SyncSleep, readerVars, lockVars
<1>2. syncPc \in {"sleep", "wait", "clear"} /\ syncPc' \in {"relock", "clear"}
  BY DEF SyncSleep
<1>3. ReaderInv' /\ SyncInv' /\ GraceKept
  BY <1>1, <1>2 DEF RcuInv, ReaderInv, SyncInv, GraceKept, Graced, Waits
<1> QED
  BY <1>1, <1>3, QuietKeeps DEF LockKept

LEMMA SyncRelockKeeps ==
  ASSUME RcuInv, SyncRelock
  PROVE  RcuInv'
<1>1. UNCHANGED <<queueVars, callerVars, threadVars, bql, ctr, seen, rdPc, gpCtr, registry,
                  qsreaders, syncLock, sees>>
  BY DEF SyncRelock, readerVars
<1>2. syncPc = "relock" /\ syncPc' = "force" /\ registryLock' = syncLock
  BY DEF SyncRelock
<1>3. ReaderInv' /\ SyncInv' /\ GraceKept
  BY <1>1, <1>2 DEF RcuInv, ReaderInv, SyncInv, GraceKept, Graced, Waits
<1> QED
  BY <1>1, <1>3, QuietKeeps DEF LockKept

LEMMA SyncStepKeeps ==
  ASSUME RcuInv, SyncStep
  PROVE  RcuInv'
  BY SyncStartKeeps, SyncForceKeeps, SyncScanKeeps, SyncSleepKeeps, SyncRelockKeeps DEF SyncStep

-----------------------------------------------------------------------------
(* Callers: what one's step leaves of another.                             *)
LEMMA OtherCaller ==
  ASSUME NEW v \in Callers, CallInv(v),
         callPc'[v] = callPc[v], callNode'[v] = callNode[v],
         Freed(v) \in called' <=> Freed(v) \in called,
         Drain(v) \in called' <=> Drain(v) \in called,
         Freed(v) \in ran' <=> Freed(v) \in ran,
         Drain(v) \in ran' <=> Drain(v) \in ran,
         sees'[Freed(v)] = sees[Freed(v)],
         syncLock' = NONE \/ UNCHANGED <<syncLock, syncPc, registry, ctr, gpCtr>>
  PROVE  CallInv(v)'
<1>1. callPc[v] = "sync" /\ syncLock' = v => Graced(Freed(v))'
  BY LockNames DEF CallInv, Graced
<1> QED
  BY <1>1, LockNames DEF CallInv

(* A caller enters or leaves a set that is counted.                        *)
LEMMA CountedIn ==
  ASSUME NEW S, NEW T, NEW u \in Callers, S \subseteq Callers, u \notin S, T = S \cup {u}
  PROVE  Cardinality(T) = Cardinality(S) + 1 /\ Cardinality(S) \in Nat
  BY CallersFinite, FS_Subset, FS_AddElement, FS_CardinalityType

LEMMA CountedOut ==
  ASSUME NEW S, NEW T, NEW u \in Callers, S \subseteq Callers, u \in S, T = S \ {u}
  PROVE  Cardinality(T) = Cardinality(S) - 1 /\ Cardinality(S) \in Nat
  BY CallersFinite, FS_Subset, FS_RemoveElement, FS_CardinalityType

LEMMA EndsType ==
  ASSUME QueueInv
  PROVE  head \in Nodes \cup {Dummy} /\ tail \in Nodes \cup {Dummy}
<1>1. PICK a, b, d, m \in Int, q \in [Int -> Nodes \cup {Dummy}] : QueueAt(a, b, d, m, q)
  BY DEF QueueInv
<1> QED
  BY <1>1 DEF QueueAt, Linked

(* The queue keeps its shape when a step leaves it alone.                  *)
LEMMA QueueStays ==
  ASSUME QueueInv, UNCHANGED <<next, tail, head, callCount, called, rcuPc, n>>,
         called \ ran' = called \ ran, Queueing' = Queueing,
         \A u \in Callers : callPc'[u] = "link" => callPc[u] = "link" /\ callNode'[u] = callNode[u],
         \A x \in called : sees'[x] = sees[x],
         syncLock' = NONE \/ UNCHANGED <<syncLock, syncPc, registry, ctr, gpCtr>>
  PROVE  QueueInv'
<1>1. PICK a, b, d, m \in Int, q \in [Int -> Nodes \cup {Dummy}] : QueueAt(a, b, d, m, q)
  BY DEF QueueInv
<1>2. Linked(a, b, q, head, tail, next)'
  BY <1>1 DEF QueueAt, Linked
<1>3. Contents(a, b, d, q, ran)'
  BY <1>1 DEF QueueAt, Contents
<1>4. Covered(a, b, d, m, q)'
  <2>1. Covered(a, b, d, m, q)
    BY <1>1 DEF QueueAt
  <2>2. ASSUME NEW i \in a .. m, rcuPc \in Running \cup {"sync"}, q[i] # Dummy
        PROVE  sees'[q[i]] = sees[q[i]]
    <3>1. i \in a .. b
      BY <2>1, <2>2 DEF Covered, Batch
    <3> QED
      BY <1>1, <2>2, <3>1 DEF QueueAt, Contents
  <2>3. rcuPc \in Running => Settled(a, m, q)'
    BY <2>1, <2>2 DEF Covered, Settled
  <2>4. rcuPc = "sync" /\ syncLock' = CallRcu =>
          \A i \in a .. m : q[i] # Dummy => Graced(q[i])'
    BY <2>1, <2>2, LockNames DEF Covered, Graced
  <2> QED
    BY <2>1, <2>3, <2>4, LockNames DEF Covered, Counted, Batch
<1> QED
  BY <1>2, <1>3, <1>4 DEF QueueInv, QueueAt

(* enqueue: the node x is the new tail, not linked yet.                    *)
LEMMA EnqueueKeeps ==
  ASSUME QueueInv, CallersInv, NEW u \in Callers, NEW x \in {Freed(u), Drain(u)},
         callPc[u] = "idle", x \notin called \cup ran, CallXchg(u, x, "link"),
         x = Freed(u) => Drain(u) \notin called,
         UNCHANGED <<head, callCount, rcuPc, n, ran, syncLock, syncPc, registry, ctr, gpCtr>>,
         \A y \in Nodes : y # x => sees'[y] = sees[y]
  PROVE  QueueInv'
<1>1. PICK a, b, d, m \in Int, q \in [Int -> Nodes \cup {Dummy}] : QueueAt(a, b, d, m, q)
  BY DEF QueueInv
<1>2. /\ Linked(a, b, q, head, tail, next) /\ Contents(a, b, d, q, ran)
      /\ Covered(a, b, d, m, q)
  BY <1>1 DEF QueueAt
<1> DEFINE r == [q EXCEPT ![b + 1] = x]
<1>3. x \in Nodes /\ x # Dummy
  BY NodesDiffer
<1>4. /\ r \in [Int -> Nodes \cup {Dummy}] /\ r[b + 1] = x
      /\ \A i \in Int : i # b + 1 => r[i] = q[i]
  BY <1>3
<1> HIDE DEF r
<1>5. \A i \in a .. b : q[i] # x /\ r[i] = q[i]
  BY <1>2, <1>3, <1>4 DEF Contents
<1>6. /\ next' = [next EXCEPT ![x] = NONE] /\ tail' = x /\ called' = called \cup {x}
      /\ callNode' = [callNode EXCEPT ![u] = <<x, tail>>]
      /\ callPc' = [callPc EXCEPT ![u] = "link"]
  BY DEF CallXchg
<1>7. a <= b /\ q[a] = head /\ q[b] = tail
  BY <1>2 DEF Linked
<1>8. /\ next \in [Nodes \cup {Dummy} -> Nodes \cup {Dummy, NONE}]
      /\ next' \in [Nodes \cup {Dummy} -> Nodes \cup {Dummy, NONE}]
      /\ next'[x] = NONE /\ \A y \in Nodes \cup {Dummy} : y # x => next'[y] = next[y]
  BY <1>2, <1>3, <1>6 DEF Linked
<1>9. \A i \in a .. b : next'[q[i]] = next[q[i]]
  BY <1>5, <1>8
<1>10. Linked(a, b + 1, r, head, tail, next)'
  <2>1. a <= b + 1 /\ r[a] = head /\ r[b + 1] = tail' /\ next'[tail'] = NONE
    BY <1>4, <1>5, <1>6, <1>7, <1>8
  <2>2. \A i, j \in a .. b + 1 : r[i] = r[j] => i = j
    <3>1. \A i, j \in a .. b : q[i] = q[j] => i = j
      BY <1>2 DEF Linked
    <3> QED
      BY <1>4, <1>5, <3>1
  <2>3. \A i \in a .. b : next'[r[i]] \in {r[i + 1], NONE}
    <3>1. \A i \in a .. b - 1 : next[q[i]] \in {q[i + 1], NONE}
      BY <1>2 DEF Linked
    <3>2. next[q[b]] = NONE
      BY <1>2, <1>7 DEF Linked
    <3> QED
      BY <1>4, <1>5, <1>9, <3>1, <3>2
  <2>4. ASSUME NEW v \in Callers, callPc'[v] = "link"
        PROVE  \E i \in a .. b : callNode'[v] = <<r[i + 1], r[i]>> /\ next'[r[i]] = NONE
    <3>1. CASE v = u
      <4>1. callNode'[v] = <<r[b + 1], r[b]>>
        BY <1>4, <1>5, <1>6, <1>7, <3>1 DEF CallersInv
      <4>2. next'[r[b]] = NONE
        BY <1>2, <1>5, <1>7, <1>9 DEF Linked
      <4> QED
        BY <1>7, <4>1, <4>2
    <3>2. CASE v # u
      <4>1. callPc[v] = "link" /\ callNode'[v] = callNode[v]
        BY <1>6, <2>4, <3>2 DEF CallersInv
      <4>2. PICK i \in a .. b - 1 : callNode[v] = <<q[i + 1], q[i]>> /\ next[q[i]] = NONE
        BY <1>2, <4>1 DEF Linked
      <4> QED
        BY <1>5, <1>9, <4>1, <4>2
    <3> QED
      BY <3>1, <3>2
  <2> QED
    BY <1>8, <2>1, <2>2, <2>3, <2>4 DEF Linked
<1>11. Contents(a, b + 1, d, r, ran)'
  <2>1. d \in a .. b + 1 /\ r[d] = Dummy
    BY <1>2, <1>5 DEF Contents
  <2>2. \A i \in a .. b + 1 : r[i] # Dummy => r[i] \in called' \ ran
    BY <1>2, <1>4, <1>5, <1>6 DEF Contents
  <2>3. \A y \in called' \ ran : \E i \in a .. b + 1 : r[i] = y
    <3>1. b + 1 \in a .. b + 1
      BY <1>7
    <3> QED
      BY <1>2, <1>4, <1>5, <1>6, <3>1 DEF Contents
  <2>4. ASSUME NEW v \in Callers, NEW i \in a .. b + 1, NEW j \in a .. b + 1,
               r[i] = Freed(v), r[j] = Drain(v)
        PROVE  i < j
    <3>1. i # j
      BY <2>4, NodesDiffer
    <3>2. CASE j = b + 1
      BY <3>1, <3>2
    <3>3. CASE i = b + 1
      <4>1. v = u /\ x = Freed(u)
        BY <1>4, <2>4, <3>3, NodesDiffer
      <4>2. Drain(u) \in called /\ j \in a .. b
        BY <1>2, <1>5, <2>4, <3>1, <3>3, <4>1, NodesDiffer DEF Contents
      <4> QED
        BY <4>1, <4>2
    <3>4. CASE i # b + 1 /\ j # b + 1
      <4>1. i \in a .. b /\ j \in a .. b
        BY <3>4
      <4> QED
        BY <1>2, <1>5, <2>4, <4>1 DEF Contents
    <3> QED
      BY <3>2, <3>3, <3>4
  <2> QED
    BY <2>1, <2>2, <2>3, <2>4 DEF Contents
<1>12. Covered(a, b + 1, d, m, r)'
  <2>1. Cardinality(Queueing') = Cardinality(Queueing) + 1 /\ Cardinality(Queueing) \in Nat
    <3>1. Queueing' = Queueing \cup {u} /\ u \notin Queueing
      BY <1>6 DEF Queueing, CallersInv
    <3> QED
      BY <3>1, CountedIn DEF Queueing
  <2>2. Covered(a, b, d, m, q)
    BY <1>2
  <2>3. ASSUME NEW i \in a .. m, rcuPc \in Running \cup {"sync"}, r[i] # Dummy
        PROVE  q[i] = r[i] /\ q[i] \in Nodes /\ sees'[q[i]] = sees[q[i]]
    <3>1. i \in a .. b
      BY <2>2, <2>3 DEF Covered, Batch
    <3> QED
      BY <1>5, <2>3, <3>1
  <2>4. rcuPc \in Running => Settled(a, m, r)'
    BY <2>2, <2>3 DEF Covered, Settled
  <2>5. rcuPc = "sync" /\ syncLock = CallRcu =>
          \A i \in a .. m : r[i] # Dummy => Graced(r[i])'
    BY <2>2, <2>3 DEF Covered, Graced
  <2>6. Counted(a, b + 1, IF rcuPc \in Running THEN n ELSE 0)'
    BY <2>1, <2>2 DEF Covered, Counted
  <2>7. rcuPc \in Running \cup {"sync"} => Batch(a, b + 1, d, m, n)
    BY <2>2 DEF Covered, Batch
  <2> QED
    BY <2>2, <2>4, <2>5, <2>6, <2>7 DEF Covered, Batch
<1> QED
  BY <1>4, <1>10, <1>11, <1>12 DEF QueueInv, QueueAt

LEMMA CallRcu1Keeps ==
  ASSUME RcuInv, NEW u \in Callers, CallRcu1(u)
  PROVE  RcuInv'
<1>1. UNCHANGED <<bql, head, callCount, inDrain, hadBql, gpCtr, registry, qsreaders, syncPc,
                  registryLock, syncLock, ctr, seen, rdPc, rcuPc, n, ran>>
  BY DEF CallRcu1, syncVars, lockVars, readerVars, threadVars
<1>2. /\ callPc[u] = "idle" /\ callNode[u] = NONE /\ CallXchg(u, Freed(u), "link")
      /\ sees' = [sees EXCEPT ![Freed(u)] = {t \in Readers : rdPc[t] = "in"}]
  BY DEF CallRcu1
<1>3. Freed(u) \notin called \cup ran /\ Drain(u) \notin called
  BY <1>2 DEF RcuInv, CallersInv, CallInv
<1>4. \A y \in Nodes : y # Freed(u) => sees'[y] = sees[y]
  BY <1>2 DEF RcuInv, ReaderInv
<1>5. ReaderInv'
  BY <1>1, <1>2 DEF RcuInv, ReaderInv
<1>6. SyncInv'
  BY <1>1 DEF RcuInv, SyncInv
<1>7. QueueInv'
  BY <1>1, <1>2, <1>3, <1>4, EnqueueKeeps DEF RcuInv
<1>8. CallersInv'
  <2>1. /\ called' = called \cup {Freed(u)}
        /\ callNode' = [callNode EXCEPT ![u] = <<Freed(u), tail>>]
        /\ callPc' = [callPc EXCEPT ![u] = "link"]
    BY <1>2 DEF CallXchg
  <2>2. /\ DOMAIN callNode = Callers
        /\ callPc \in [Callers -> {"idle", "link", "count", "ready", "drain", "drained", "sync"}]
    BY DEF RcuInv, CallersInv
  <2>3. ASSUME NEW v \in Callers, v # u PROVE CallInv(v)'
    <3>1. callPc'[v] = callPc[v] /\ callNode'[v] = callNode[v]
      BY <2>1, <2>2, <2>3
    <3>2. Freed(v) # Freed(u) /\ Drain(v) # Freed(u) /\ Freed(v) \in Nodes
      BY <2>3, NodesDiffer
    <3>3. CallInv(v)
      BY DEF RcuInv, CallersInv
    <3> QED
      BY <1>1, <1>4, <2>1, <3>1, <3>2, <3>3, OtherCaller
  <2>4. CallInv(u)'
    <3>1. callNode'[u] = <<Freed(u), tail>> /\ callPc'[u] = "link"
      BY <2>1, <2>2
    <3>2. <<Freed(u), tail>> # NONE
      BY HeldDiffers, NodesDiffer, EndsType DEF RcuInv
    <3>3. CallInv(u) /\ Freed(u) # Drain(u)
      BY NodesDiffer DEF RcuInv, CallersInv
    <3> QED
      BY <1>1, <1>2, <1>3, <2>1, <3>1, <3>2, <3>3 DEF CallInv
  <2>5. Draining' = Draining
    <3>1. \A v \in Callers : v \in Draining' <=> v \in Draining
      <4>1. u \notin Draining' /\ u \notin Draining
        BY <1>2, <2>1, <2>2, NodesDiffer DEF Draining
      <4> QED
        BY <2>1, <2>2, <4>1 DEF Draining
    <3> QED
      BY <3>1 DEF Draining
  <2>6. called' \in SUBSET Nodes
    BY <2>1, NodesDiffer DEF RcuInv, CallersInv
  <2> QED
    BY <1>1, <2>1, <2>2, <2>3, <2>4, <2>5, <2>6 DEF RcuInv, CallersInv
<1> QED
  BY <1>5, <1>6, <1>7, <1>8 DEF RcuInv

LEMMA DrainCallRcuKeeps ==
  ASSUME RcuInv, NEW u \in Callers, DrainCallRcu(u)
  PROVE  RcuInv'
<1>1. UNCHANGED <<head, callCount, gpCtr, registry, qsreaders, syncPc,
                  registryLock, syncLock, ctr, seen, rdPc, rcuPc, n, ran, sees>>
  BY DEF DrainCallRcu, syncVars, lockVars, readerVars, threadVars
<1>2. /\ callPc[u] = "idle"
      /\ callNode[u] # NONE => callNode[u][1] = Freed(u)
      /\ CallXchg(u, Drain(u), "link") /\ bql' \in {bql, NONE} /\ inDrain' = inDrain + 1
      /\ hadBql' = [hadBql EXCEPT ![u] = (bql = u)]
  BY DEF DrainCallRcu
<1>3. Drain(u) \notin called \cup ran
  BY <1>2, NodesDiffer DEF RcuInv, CallersInv, CallInv
<1>4. ReaderInv'
  BY <1>1, <1>2 DEF RcuInv, ReaderInv
<1>5. SyncInv'
  BY <1>1 DEF RcuInv, SyncInv
<1>6. QueueInv'
  BY <1>1, <1>2, <1>3, EnqueueKeeps, NodesDiffer DEF RcuInv
<1>7. CallersInv'
  <2>1. /\ called' = called \cup {Drain(u)}
        /\ callNode' = [callNode EXCEPT ![u] = <<Drain(u), tail>>]
        /\ callPc' = [callPc EXCEPT ![u] = "link"]
    BY <1>2 DEF CallXchg
  <2>2. /\ DOMAIN callNode = Callers /\ DOMAIN hadBql = Callers
        /\ callPc \in [Callers -> {"idle", "link", "count", "ready", "drain", "drained", "sync"}]
    BY DEF RcuInv, CallersInv
  <2>3. ASSUME NEW v \in Callers, v # u PROVE CallInv(v)'
    <3>1. callPc'[v] = callPc[v] /\ callNode'[v] = callNode[v]
      BY <2>1, <2>2, <2>3
    <3>2. Freed(v) # Drain(u) /\ Drain(v) # Drain(u)
      BY <2>3, NodesDiffer
    <3>3. CallInv(v)
      BY DEF RcuInv, CallersInv
    <3> QED
      BY <1>1, <2>1, <3>1, <3>2, <3>3, OtherCaller
  <2>4. CallInv(u)'
    <3>1. callNode'[u] = <<Drain(u), tail>> /\ callPc'[u] = "link"
      BY <2>1, <2>2
    <3>2. <<Drain(u), tail>> # NONE
      BY HeldDiffers, NodesDiffer, EndsType DEF RcuInv
    <3>3. CallInv(u) /\ Freed(u) # Drain(u)
      BY NodesDiffer DEF RcuInv, CallersInv
    <3> QED
      BY <1>1, <1>2, <1>3, <2>1, <3>1, <3>2, <3>3 DEF CallInv
  <2>5. inDrain' = Cardinality(Draining')
    <3>1. u \notin Draining /\ u \in Draining'
      BY <1>2, <2>1, <2>2 DEF Draining
    <3>2. \A v \in Callers : v # u => (v \in Draining' <=> v \in Draining)
      BY <2>1, <2>2 DEF Draining
    <3>3. Draining' = Draining \cup {u} /\ Draining \subseteq Callers
      BY <3>1, <3>2 DEF Draining
    <3> QED
      BY <1>2, <3>1, <3>3, CountedIn DEF RcuInv, CallersInv
  <2>6. called' \in SUBSET Nodes
    BY <2>1, NodesDiffer DEF RcuInv, CallersInv
  <2> QED
    BY <1>1, <1>2, <2>1, <2>2, <2>3, <2>4, <2>5, <2>6 DEF RcuInv, CallersInv
<1> QED
  BY <1>4, <1>5, <1>6, <1>7 DEF RcuInv

(* The steps of a caller that leave the links alone.                       *)
LEMMA CallerFrame ==
  ASSUME CallersInv, NEW u \in Callers,
         \A v \in Callers : v # u => callPc'[v] = callPc[v] /\ callNode'[v] = callNode[v],
         called' = called, ran' = ran, sees' = sees,
         syncLock' = NONE \/ UNCHANGED <<syncLock, syncPc, registry, ctr, gpCtr>>
  PROVE  \A v \in Callers : v # u => CallInv(v)'
<1> SUFFICES ASSUME NEW v \in Callers, v # u PROVE CallInv(v)'
  OBVIOUS
<1>1. CallInv(v)
  BY DEF CallersInv
<1> QED
  BY <1>1, OtherCaller

LEMMA CallLinkKeeps ==
  ASSUME RcuInv, NEW u \in Callers, CallLink(u)
  PROVE  RcuInv'
<1>1. UNCHANGED <<bql, tail, head, callCount, inDrain, callNode, hadBql, called, gpCtr, registry,
                  qsreaders, syncPc, registryLock, syncLock, ctr, seen, rdPc, rcuPc, n, ran, sees>>
  BY DEF CallLink, syncVars, lockVars, readerVars, threadVars
<1>2. /\ callPc[u] = "link" /\ callPc' = [callPc EXCEPT ![u] = "count"]
      /\ next' = [next EXCEPT ![callNode[u][2]] = callNode[u][1]]
  BY DEF CallLink
<1>3. callPc \in [Callers -> {"idle", "link", "count", "ready", "drain", "drained", "sync"}]
  BY DEF RcuInv, CallersInv
<1>4. ReaderInv' /\ SyncInv'
  BY <1>1 DEF RcuInv, ReaderInv, SyncInv
<1>5. Queueing' = Queueing /\ Draining' = Draining
  <2>1. \A v \in Callers : (v \in Queueing' <=> v \in Queueing) /\ (v \in Draining' <=> v \in Draining)
    BY <1>1, <1>2, <1>3 DEF Queueing, Draining
  <2> QED
    BY <2>1 DEF Queueing, Draining
<1>6. CallersInv'
  <2>1. \A v \in Callers : v # u => CallInv(v)'
    BY <1>1, <1>2, <1>3, CallerFrame DEF RcuInv
  <2>2. CallInv(u)'
    BY <1>1, <1>2, <1>3 DEF RcuInv, CallersInv, CallInv
  <2> QED
    BY <1>1, <1>2, <1>3, <1>5, <2>1, <2>2 DEF RcuInv, CallersInv
<1>7. QueueInv'
  <2>1. PICK a, b, d, m \in Int, q \in [Int -> Nodes \cup {Dummy}] : QueueAt(a, b, d, m, q)
    BY DEF RcuInv, QueueInv
  <2>2. PICK k \in a .. b - 1 : callNode[u] = <<q[k + 1], q[k]>> /\ next[q[k]] = NONE
    BY <1>2, <2>1 DEF QueueAt, Linked
  <2>3. /\ next' = [next EXCEPT ![q[k]] = q[k + 1]]
        /\ next \in [Nodes \cup {Dummy} -> Nodes \cup {Dummy, NONE}]
        /\ \A i, j \in a .. b : q[i] = q[j] => i = j
    BY <1>2, <2>1, <2>2 DEF QueueAt, Linked
  <2>4. next'[q[k]] = q[k + 1] /\ \A i \in a .. b : i # k => next'[q[i]] = next[q[i]]
    BY <2>3
  <2>5. Linked(a, b, q, head, tail, next)'
    <3>1. next' \in [Nodes \cup {Dummy} -> Nodes \cup {Dummy, NONE}]
      BY <2>3
    <3>2. next'[tail] = NONE
      BY <2>1, <2>4 DEF QueueAt, Linked
    <3>3. \A i \in a .. b - 1 : next'[q[i]] \in {q[i + 1], NONE}
      BY <2>1, <2>4 DEF QueueAt, Linked
    <3>4. ASSUME NEW v \in Callers, callPc'[v] = "link"
          PROVE  \E i \in a .. b - 1 : callNode[v] = <<q[i + 1], q[i]>> /\ next'[q[i]] = NONE
      <4>1. v # u /\ callPc[v] = "link"
        BY <1>2, <1>3, <3>4
      <4>2. PICK i \in a .. b - 1 : callNode[v] = <<q[i + 1], q[i]>> /\ next[q[i]] = NONE
        BY <2>1, <4>1 DEF QueueAt, Linked
      <4>3. callNode[v][1] # callNode[u][1]
        <5>1. CallInv(u) /\ CallInv(v) /\ callNode[u] # NONE /\ callNode[v] # NONE
          BY <1>2, <4>1 DEF RcuInv, CallersInv, CallInv
        <5> QED
          BY <4>1, <5>1, NodesDiffer DEF CallInv
      <4>4. i # k
        BY <2>2, <4>2, <4>3
      <4> QED
        BY <2>4, <4>2, <4>4
    <3> QED
      BY <1>1, <2>1, <3>1, <3>2, <3>3, <3>4 DEF QueueAt, Linked
  <2>6. Contents(a, b, d, q, ran)'
    BY <1>1, <2>1 DEF QueueAt, Contents
  <2>7. Covered(a, b, d, m, q)'
    BY <1>1, <1>5, <2>1 DEF QueueAt, Covered, Counted, Batch, Settled, Graced
  <2> QED
    BY <2>5, <2>6, <2>7 DEF QueueInv, QueueAt
<1> QED
  BY <1>4, <1>6, <1>7 DEF RcuInv

LEMMA CallCountKeeps ==
  ASSUME RcuInv, NEW u \in Callers, CallCount(u)
  PROVE  RcuInv'
<1>1. UNCHANGED <<bql, next, tail, head, inDrain, callNode, hadBql, called, gpCtr, registry,
                  qsreaders, syncPc, registryLock, syncLock, ctr, seen, rdPc, rcuPc, n, ran, sees>>
  BY DEF CallCount, syncVars, lockVars, readerVars, threadVars
<1>2. /\ callPc[u] = "count" /\ callPc' = [callPc EXCEPT ![u] = "ready"]
      /\ callCount' = callCount + 1
  BY DEF CallCount
<1>3. callPc \in [Callers -> {"idle", "link", "count", "ready", "drain", "drained", "sync"}]
  BY DEF RcuInv, CallersInv
<1>4. ReaderInv' /\ SyncInv'
  BY <1>1 DEF RcuInv, ReaderInv, SyncInv
<1>5. /\ Draining' = Draining
      /\ Cardinality(Queueing') = Cardinality(Queueing) - 1 /\ Cardinality(Queueing) \in Nat
  <2>1. \A v \in Callers : (v # u => (v \in Queueing' <=> v \in Queueing))
                           /\ (v \in Draining' <=> v \in Draining)
    BY <1>1, <1>2, <1>3 DEF Queueing, Draining
  <2>2. u \in Queueing /\ u \notin Queueing'
    BY <1>2, <1>3 DEF Queueing
  <2>3. Queueing' = Queueing \ {u} /\ Queueing \subseteq Callers /\ Draining' = Draining
    BY <2>1, <2>2 DEF Queueing, Draining
  <2> QED
    BY <2>2, <2>3, CountedOut
<1>6. CallersInv'
  <2>1. \A v \in Callers : v # u => CallInv(v)'
    BY <1>1, <1>2, <1>3, CallerFrame DEF RcuInv
  <2>2. CallInv(u)'
    BY <1>1, <1>2, <1>3 DEF RcuInv, CallersInv, CallInv
  <2> QED
    BY <1>1, <1>2, <1>3, <1>5, <2>1, <2>2 DEF RcuInv, CallersInv
<1>7. QueueInv'
  <2>1. PICK a, b, d, m \in Int, q \in [Int -> Nodes \cup {Dummy}] : QueueAt(a, b, d, m, q)
    BY DEF RcuInv, QueueInv
  <2>2. Linked(a, b, q, head, tail, next)'
    BY <1>1, <1>2, <1>3, <2>1 DEF QueueAt, Linked
  <2>3. Contents(a, b, d, q, ran)'
    BY <1>1, <2>1 DEF QueueAt, Contents
  <2>4. Counted(a, b, IF rcuPc \in Running THEN n ELSE 0)'
    BY <1>1, <1>2, <1>5, <2>1 DEF QueueAt, Covered, Counted
  <2>5. Covered(a, b, d, m, q)'
    BY <1>1, <1>2, <2>1, <2>4 DEF QueueAt, Covered, Batch, Settled, Graced
  <2> QED
    BY <2>2, <2>3, <2>5 DEF QueueInv, QueueAt
<1> QED
  BY <1>4, <1>6, <1>7 DEF RcuInv

LEMMA CallReadyKeeps ==
  ASSUME RcuInv, NEW u \in Callers, CallReady(u)
  PROVE  RcuInv'
<1>1. UNCHANGED <<bql, next, tail, head, callCount, inDrain, callNode, hadBql, called, gpCtr,
                  registry, qsreaders, syncPc, registryLock, syncLock, ctr, seen, rdPc, rcuPc, n,
                  ran, sees>>
  BY DEF CallReady, syncVars, lockVars, readerVars, threadVars
<1>2. /\ callPc[u] = "ready"
      /\ callPc' = [callPc EXCEPT ![u] = IF callNode[u][1] = Drain(u) THEN "drain" ELSE "idle"]
  BY DEF CallReady
<1>3. callPc \in [Callers -> {"idle", "link", "count", "ready", "drain", "drained", "sync"}]
  BY DEF RcuInv, CallersInv
<1>4. ReaderInv' /\ SyncInv'
  BY <1>1 DEF RcuInv, ReaderInv, SyncInv
<1>5. Queueing' = Queueing /\ Draining' = Draining
  <2>1. \A v \in Callers : (v \in Queueing' <=> v \in Queueing) /\ (v \in Draining' <=> v \in Draining)
    BY <1>1, <1>2, <1>3 DEF Queueing, Draining
  <2> QED
    BY <2>1 DEF Queueing, Draining
<1>6. CallersInv'
  <2>1. \A v \in Callers : v # u => CallInv(v)'
    BY <1>1, <1>2, <1>3, CallerFrame DEF RcuInv
  <2>2. CallInv(u)'
    BY <1>1, <1>2, <1>3 DEF RcuInv, CallersInv, CallInv
  <2> QED
    BY <1>1, <1>2, <1>3, <1>5, <2>1, <2>2 DEF RcuInv, CallersInv
<1>7. QueueInv'
  BY <1>1, <1>2, <1>3, <1>5, QueueStays DEF RcuInv
<1> QED
  BY <1>4, <1>6, <1>7 DEF RcuInv

LEMMA DrainReturnKeeps ==
  ASSUME RcuInv, NEW u \in Callers, DrainReturn(u)
  PROVE  RcuInv'
<1>1. UNCHANGED <<next, tail, head, callCount, callNode, hadBql, called, gpCtr, registry,
                  qsreaders, syncPc, registryLock, syncLock, ctr, seen, rdPc, rcuPc, n, ran, sees>>
  BY DEF DrainReturn, queueVars, syncVars, lockVars, readerVars, threadVars
<1>2. /\ callPc[u] = "drain" /\ Drain(u) \in ran /\ bql' \in {u, bql}
      /\ callPc' = [callPc EXCEPT ![u] = "drained"] /\ inDrain' = inDrain - 1
  BY DEF DrainReturn
<1>3. callPc \in [Callers -> {"idle", "link", "count", "ready", "drain", "drained", "sync"}]
  BY DEF RcuInv, CallersInv
<1>4. ReaderInv' /\ SyncInv'
  BY <1>1, <1>2, RcuAssumption DEF RcuInv, ReaderInv, SyncInv
<1>5. Queueing' = Queueing /\ Cardinality(Draining') = Cardinality(Draining) - 1
  <2>1. \A v \in Callers : (v \in Queueing' <=> v \in Queueing)
                           /\ (v # u => (v \in Draining' <=> v \in Draining))
    BY <1>1, <1>2, <1>3 DEF Queueing, Draining
  <2>2. u \in Draining /\ u \notin Draining'
    BY <1>2, <1>3 DEF Draining, RcuInv, CallersInv, CallInv
  <2>3. Draining' = Draining \ {u} /\ Draining \subseteq Callers /\ Queueing' = Queueing
    BY <2>1, <2>2 DEF Queueing, Draining
  <2> QED
    BY <2>2, <2>3, CountedOut
<1>6. CallersInv'
  <2>1. \A v \in Callers : v # u => CallInv(v)'
    BY <1>1, <1>2, <1>3, CallerFrame DEF RcuInv
  <2>2. CallInv(u)'
    BY <1>1, <1>2, <1>3 DEF RcuInv, CallersInv, CallInv
  <2> QED
    BY <1>1, <1>2, <1>3, <1>5, <2>1, <2>2 DEF RcuInv, CallersInv
<1>7. QueueInv'
  BY <1>1, <1>2, <1>3, <1>5, QueueStays DEF RcuInv
<1> QED
  BY <1>4, <1>6, <1>7 DEF RcuInv

LEMMA SyncCallKeeps ==
  ASSUME RcuInv, NEW u \in Callers, SyncCall(u)
  PROVE  RcuInv'
<1>1. UNCHANGED <<bql, next, tail, head, callCount, inDrain, hadBql, called, gpCtr, registry,
                  qsreaders, syncPc, registryLock, syncLock, ctr, seen, rdPc, rcuPc, n, ran>>
  BY DEF SyncCall, queueVars, syncVars, lockVars, readerVars, threadVars
<1>2. /\ callPc[u] = "idle" /\ callNode[u] = NONE
      /\ callPc' = [callPc EXCEPT ![u] = "sync"]
      /\ callNode' = [callNode EXCEPT ![u] = <<Freed(u), NONE>>]
      /\ sees' = [sees EXCEPT ![Freed(u)] = {t \in Readers : rdPc[t] = "in"}]
  BY DEF SyncCall
<1>3. /\ callPc \in [Callers -> {"idle", "link", "count", "ready", "drain", "drained", "sync"}]
      /\ DOMAIN callNode = Callers /\ CallInv(u)
  BY DEF RcuInv, CallersInv
<1>4. \A y \in Nodes : y # Freed(u) => sees'[y] = sees[y]
  BY <1>2 DEF RcuInv, ReaderInv
<1>5. ReaderInv'
  BY <1>1, <1>2 DEF RcuInv, ReaderInv
<1>6. SyncInv'
  BY <1>1 DEF RcuInv, SyncInv
<1>7. Queueing' = Queueing /\ Draining' = Draining
  <2>1. \A v \in Callers : (v \in Queueing' <=> v \in Queueing) /\ (v \in Draining' <=> v \in Draining)
    BY <1>1, <1>2, <1>3 DEF Queueing, Draining
  <2> QED
    BY <2>1 DEF Queueing, Draining
<1>8. CallersInv'
  <2>1. ASSUME NEW v \in Callers, v # u PROVE CallInv(v)'
    <3>1. callPc'[v] = callPc[v] /\ callNode'[v] = callNode[v]
      BY <1>2, <1>3, <2>1
    <3>2. Freed(v) # Freed(u) /\ Freed(v) \in Nodes
      BY <2>1, NodesDiffer
    <3>3. CallInv(v)
      BY DEF RcuInv, CallersInv
    <3> QED
      BY <1>1, <1>4, <3>1, <3>2, <3>3, OtherCaller
  <2>2. CallInv(u)'
    <3>1. callNode'[u] = <<Freed(u), NONE>> /\ callPc'[u] = "sync"
      BY <1>2, <1>3
    <3>2. <<Freed(u), NONE>> # NONE
      BY HeldDiffers, NodesDiffer
    <3>3. Freed(u) \notin called \cup ran /\ Drain(u) \notin called \cup ran
      BY <1>2, <1>3 DEF CallInv
    <3>4. syncLock # u
      BY <1>2, <1>3 DEF CallInv
    <3> QED
      BY <1>1, <3>1, <3>2, <3>3, <3>4 DEF CallInv
  <2> QED
    BY <1>1, <1>2, <1>3, <1>7, <2>1, <2>2 DEF RcuInv, CallersInv
<1>9. QueueInv'
  <2>1. \A y \in called : y \in Nodes /\ y # Freed(u)
    BY <1>2, <1>3 DEF RcuInv, CallersInv, CallInv
  <2> QED
    BY <1>1, <1>2, <1>3, <1>4, <1>7, <2>1, QueueStays DEF RcuInv
<1> QED
  BY <1>5, <1>6, <1>8, <1>9 DEF RcuInv

(* Leaving synchronize_rcu: nobody is left who could use what it was for.  *)
LEMMA SyncReturnKeeps ==
  ASSUME RcuInv, NEW u \in Callers, SyncReturn(u)
  PROVE  RcuInv'
<1>1. UNCHANGED <<bql, next, tail, head, callCount, inDrain, callNode, hadBql, called, gpCtr,
                  registry, qsreaders, registryLock, ctr, seen, rdPc, rcuPc, n, sees>>
  BY DEF SyncReturn, queueVars, readerVars
<1>2. /\ callPc[u] = "sync" /\ syncPc = "done" /\ syncLock = u
      /\ syncLock' = NONE /\ syncPc' = "off" /\ ran' = ran \cup {Freed(u)}
      /\ callPc' = [callPc EXCEPT ![u] = "idle"]
  BY DEF SyncReturn, SyncUnlock, RunCallback
<1>3. /\ callPc \in [Callers -> {"idle", "link", "count", "ready", "drain", "drained", "sync"}]
      /\ CallInv(u)
  BY DEF RcuInv, CallersInv
<1>4. ReaderInv' /\ SyncInv'
  BY <1>1, <1>2, LockNames DEF RcuInv, ReaderInv, SyncInv
<1>5. Queueing' = Queueing /\ Draining' = Draining
  <2>1. callNode[u][1] # Drain(u)
    BY <1>2, <1>3, NodesDiffer DEF CallInv
  <2>2. \A v \in Callers : (v \in Queueing' <=> v \in Queueing) /\ (v \in Draining' <=> v \in Draining)
    BY <1>1, <1>2, <1>3, <2>1 DEF Queueing, Draining
  <2> QED
    BY <2>2 DEF Queueing, Draining
<1>6. CallersInv'
  <2>1. ASSUME NEW v \in Callers, v # u PROVE CallInv(v)'
    <3>1. callPc'[v] = callPc[v]
      BY <1>2, <1>3, <2>1
    <3>2. Freed(v) # Freed(u) /\ Drain(v) # Freed(u)
      BY <2>1, NodesDiffer
    <3>3. CallInv(v)
      BY DEF RcuInv, CallersInv
    <3> QED
      BY <1>1, <1>2, <3>1, <3>2, <3>3, OtherCaller
  <2>2. CallInv(u)'
    <3>1. callPc'[u] = "idle" /\ sees[Freed(u)] = {} /\ Freed(u) # Drain(u)
      BY <1>2, <1>3, NodesDiffer DEF CallInv, Graced
    <3> QED
      BY <1>1, <1>2, <1>3, <3>1, LockNames DEF CallInv
  <2>3. ran' \in SUBSET Nodes
    BY <1>2, NodesDiffer DEF RcuInv, CallersInv
  <2> QED
    BY <1>1, <1>2, <1>3, <1>5, <2>1, <2>2, <2>3 DEF RcuInv, CallersInv
<1>7. QueueInv'
  <2>1. called \ ran' = called \ ran
    BY <1>2, <1>3 DEF CallInv
  <2> QED
    BY <1>1, <1>2, <1>3, <1>5, <2>1, QueueStays DEF RcuInv
<1> QED
  BY <1>4, <1>6, <1>7 DEF RcuInv

LEMMA CallerStepKeeps ==
  ASSUME RcuInv, NEW u \in Callers, CallerStep(u)
  PROVE  RcuInv'
<1>1. ASSUME SyncEnter(u) PROVE RcuInv'
  <2>1. u # CallRcu /\ SyncLock(u) /\ callPc[u] = "sync"
    BY <1>1, LockNames DEF SyncEnter
  <2> QED
    BY <2>1, SyncLockKeeps
<1> QED
  BY <1>1, CallLinkKeeps, CallCountKeeps, CallReadyKeeps, DrainReturnKeeps, SyncReturnKeeps
  DEF CallerStep

-----------------------------------------------------------------------------
(* try_dequeue.  Relinking moves a dummy at the head to the end.           *)
LEMMA RelinkKeeps ==
  ASSUME NEW a \in Int, NEW b \in Int, NEW m \in Int, NEW q \in [Int -> Nodes \cup {Dummy}],
         NEW r, NEW x, NEW k \in Nat \ {0},
         Linked(a, b, q, Dummy, tail, next), Contents(a, b, a, q, ran), Batch(a, b, a, m, k),
         Settled(a, m, q), next[Dummy] # NONE,
         r = [q EXCEPT ![b + 1] = Dummy],
         x = [[next EXCEPT ![Dummy] = NONE] EXCEPT ![tail] = Dummy]
  PROVE  /\ r \in [Int -> Nodes \cup {Dummy}] /\ a + 1 <= b
         /\ Linked(a + 1, b + 1, r, next[Dummy], Dummy, x)
         /\ Contents(a + 1, b + 1, b + 1, r, ran)
         /\ Batch(a + 1, b + 1, b + 1, m, k) /\ Settled(a + 1, m, r)
<1>1. /\ r \in [Int -> Nodes \cup {Dummy}] /\ r[b + 1] = Dummy
      /\ \A i \in Int : i # b + 1 => r[i] = q[i]
  OBVIOUS
<1>2. /\ a <= b /\ q[a] = Dummy /\ q[b] = tail
      /\ \A i, j \in a .. b : q[i] = q[j] => i = j
      /\ next \in [Nodes \cup {Dummy} -> Nodes \cup {Dummy, NONE}]
      /\ next[tail] = NONE
      /\ \A i \in a .. b - 1 : next[q[i]] \in {q[i + 1], NONE}
  BY DEF Linked
<1>3. a + 1 <= b /\ next[Dummy] = q[a + 1] /\ tail # Dummy
  <2>1. a # b
    BY <1>2
  <2> QED
    BY <1>2, <2>1
<1>4. /\ x \in [Nodes \cup {Dummy} -> Nodes \cup {Dummy, NONE}]
      /\ x[Dummy] = NONE /\ x[tail] = Dummy
      /\ \A y \in Nodes \cup {Dummy} : y # Dummy /\ y # tail => x[y] = next[y]
  BY <1>2, <1>3
<1>5. \A i \in a + 1 .. b : r[i] = q[i] /\ q[i] # Dummy
  BY <1>1, <1>2, <1>3
<1>6. \A i \in a + 1 .. b - 1 : x[q[i]] = next[q[i]]
  BY <1>2, <1>4, <1>5
<1>7. Linked(a + 1, b + 1, r, next[Dummy], Dummy, x)
  <2>1. r[a + 1] = next[Dummy]
    BY <1>3, <1>5
  <2>2. \A i, j \in a + 1 .. b + 1 : r[i] = r[j] => i = j
    BY <1>1, <1>2, <1>5
  <2>3. \A i \in a + 1 .. b : x[r[i]] \in {r[i + 1], NONE}
    BY <1>1, <1>2, <1>4, <1>5, <1>6
  <2>4. ASSUME NEW u \in Callers, callPc[u] = "link"
        PROVE  \E i \in a + 1 .. b : callNode[u] = <<r[i + 1], r[i]>> /\ x[r[i]] = NONE
    <3>1. PICK i \in a .. b - 1 : callNode[u] = <<q[i + 1], q[i]>> /\ next[q[i]] = NONE
      BY <2>4 DEF Linked
    <3>2. i \in a + 1 .. b - 1
      BY <1>2, <3>1
    <3>3. i \in a + 1 .. b /\ i + 1 \in a + 1 .. b
      BY <3>2
    <3>4. r[i] = q[i] /\ r[i + 1] = q[i + 1] /\ x[q[i]] = NONE
      BY <1>5, <1>6, <3>1, <3>2, <3>3
    <3> QED
      BY <3>1, <3>3, <3>4
  <2> QED
    BY <1>1, <1>3, <1>4, <2>1, <2>2, <2>3, <2>4 DEF Linked
<1>8. Contents(a + 1, b + 1, b + 1, r, ran)
  <2>1. \A i \in a + 1 .. b + 1 : r[i] # Dummy => r[i] \in called \ ran
    BY <1>1, <1>5 DEF Contents
  <2>2. ASSUME NEW y \in called \ ran PROVE \E i \in a + 1 .. b + 1 : r[i] = y
    <3>1. PICK i \in a .. b : q[i] = y
      BY DEF Contents
    <3>2. CASE i = a
      <4>1. b + 1 \in a + 1 .. b + 1 /\ r[b + 1] = y
        BY <1>1, <1>2, <3>1, <3>2
      <4> QED
        BY <4>1
    <3>3. CASE i # a
      <4>1. i \in a + 1 .. b
        BY <3>3
      <4> QED
        BY <1>5, <3>1, <4>1
    <3> QED
      BY <3>2, <3>3
  <2>3. ASSUME NEW u \in Callers, NEW i \in a + 1 .. b + 1, NEW j \in a + 1 .. b + 1,
               r[i] = Freed(u), r[j] = Drain(u)
        PROVE  i < j
    <3>1. i \in a + 1 .. b /\ j \in a + 1 .. b
      BY <1>1, <2>3, NodesDiffer
    <3>2. q[i] = Freed(u) /\ q[j] = Drain(u) /\ i \in a .. b /\ j \in a .. b
      BY <1>5, <2>3, <3>1
    <3> QED
      BY <3>2 DEF Contents
  <2> QED
    BY <1>1, <1>3, <2>1, <2>2, <2>3 DEF Contents
<1>9. Batch(a + 1, b + 1, b + 1, m, k)
  BY DEF Batch
<1>10. Settled(a + 1, m, r)
  <2>1. \A i \in a + 1 .. m : r[i] = q[i] /\ i \in a .. m
    BY <1>5 DEF Batch
  <2> QED
    BY <2>1 DEF Settled
<1> QED
  BY <1>1, <1>3, <1>7, <1>8, <1>9, <1>10

(* A node at the head that is linked to the next is taken.                 *)
LEMMA TakeKeeps ==
  ASSUME NEW a \in Int, NEW b \in Int, NEW d \in Int, NEW m \in Int,
         NEW q \in [Int -> Nodes \cup {Dummy}], NEW h, NEW t, NEW x, NEW k \in Nat \ {0},
         Linked(a, b, q, h, t, x), Contents(a, b, d, q, ran), Batch(a, b, d, m, k),
         Settled(a, m, q), h # Dummy, x[h] # NONE
  PROVE  /\ Linked(a + 1, b, q, x[h], t, x) /\ Contents(a + 1, b, d, q, ran \cup {h})
         /\ Batch(a + 1, b, d, m, k - 1) /\ Settled(a + 1, m, q)
         /\ h \in called \ ran /\ sees[h] = {}
         /\ \A u \in Callers : h = Drain(u) /\ Freed(u) \in called => Freed(u) \in ran
<1>1. /\ a <= b /\ q[a] = h /\ q[b] = t
      /\ \A i, j \in a .. b : q[i] = q[j] => i = j
      /\ x \in [Nodes \cup {Dummy} -> Nodes \cup {Dummy, NONE}]
      /\ x[t] = NONE
      /\ \A i \in a .. b - 1 : x[q[i]] \in {q[i + 1], NONE}
  BY DEF Linked
<1>2. a + 1 <= b /\ x[h] = q[a + 1]
  <2>1. a # b
    BY <1>1
  <2> QED
    BY <1>1, <2>1
<1>3. d \in a + 1 .. b /\ q[d] = Dummy
  BY <1>1 DEF Contents
<1>4. \A i \in a + 1 .. b : q[i] # h
  BY <1>1
<1>5. Linked(a + 1, b, q, x[h], t, x)
  <2>1. ASSUME NEW u \in Callers, callPc[u] = "link"
        PROVE  \E i \in a + 1 .. b - 1 : callNode[u] = <<q[i + 1], q[i]>> /\ x[q[i]] = NONE
    <3>1. PICK i \in a .. b - 1 : callNode[u] = <<q[i + 1], q[i]>> /\ x[q[i]] = NONE
      BY <2>1 DEF Linked
    <3>2. i \in a + 1 .. b - 1
      BY <1>1, <3>1
    <3> QED
      BY <3>1, <3>2
  <2> QED
    BY <1>1, <1>2, <2>1 DEF Linked
<1>6. h \in called \ ran
  BY <1>1 DEF Contents
<1>7. Contents(a + 1, b, d, q, ran \cup {h})
  <2>1. \A i \in a + 1 .. b : q[i] # Dummy => q[i] \in called \ (ran \cup {h})
    BY <1>4 DEF Contents
  <2>2. ASSUME NEW y \in called \ (ran \cup {h}) PROVE \E i \in a + 1 .. b : q[i] = y
    <3>1. PICK i \in a .. b : q[i] = y
      BY DEF Contents
    <3>2. i \in a + 1 .. b
      BY <1>1, <3>1
    <3> QED
      BY <3>1, <3>2
  <2>3. \A u \in Callers, i, j \in a + 1 .. b : q[i] = Freed(u) /\ q[j] = Drain(u) => i < j
    BY DEF Contents
  <2> QED
    BY <1>3, <2>1, <2>2, <2>3 DEF Contents
<1>8. Batch(a + 1, b, d, m, k - 1)
  BY DEF Batch
<1>9. a \in a .. m
  BY <1>3 DEF Batch
<1>10. Settled(a + 1, m, q) /\ sees[h] = {}
  BY <1>1, <1>9 DEF Settled
<1>11. ASSUME NEW u \in Callers, h = Drain(u), Freed(u) \in called, Freed(u) \notin ran
       PROVE  FALSE
  <2>1. PICK i \in a .. b : q[i] = Freed(u)
    BY <1>11 DEF Contents
  <2>2. a \in a .. b /\ q[a] = Drain(u)
    BY <1>1, <1>11
  <2>3. i < a
    BY <2>1, <2>2 DEF Contents
  <2> QED
    BY <2>3
<1> QED
  BY <1>5, <1>6, <1>7, <1>8, <1>10, <1>11

(* What a step of the call_rcu thread does with what it dequeued.          *)
Missed ==
  /\ rcuPc' \in {"again", "stall", "relock"} /\ bql' \in {NONE, bql}
  /\ n' = n /\ ran' = ran

Took(x) ==
  /\ ran' = ran \cup {x} /\ n' = n - 1 /\ bql' \in {NONE, CallRcu}
  /\ rcuPc' = IF n = 1 THEN "reset" ELSE "take"

Relinked == [[next EXCEPT ![Dummy] = NONE] EXCEPT ![tail] = Dummy]

(* TryDequeue, alternative by alternative.                                 *)
LEMMA TryDequeueIs ==
  ASSUME next \in [Nodes \cup {Dummy} -> Nodes \cup {Dummy, NONE}], tail \in Nodes \cup {Dummy},
         next[tail] = NONE, head = Dummy => next[Dummy] # Dummy
  PROVE  /\ next[head] = NONE =>
              TryDequeue = [node |-> NONE, head |-> head, next |-> next, tail |-> tail]
         /\ next[head] # NONE /\ head # Dummy =>
              TryDequeue = [node |-> head, head |-> next[head], next |-> next, tail |-> tail]
         /\ next[head] # NONE /\ head = Dummy =>
              TryDequeue = [node |-> IF Relinked[next[head]] = NONE THEN NONE ELSE next[head],
                            head |-> IF Relinked[next[head]] = NONE THEN next[head]
                                                                    ELSE Relinked[next[head]],
                            next |-> Relinked, tail |-> Dummy]
<1>1. ASSUME next[head] = NONE
      PROVE  TryDequeue = [node |-> NONE, head |-> head, next |-> next, tail |-> tail]
  BY <1>1, Zenon DEF TryDequeue
<1>2. next[head] # NONE /\ head # Dummy =>
        TryDequeue = [node |-> head, head |-> next[head], next |-> next, tail |-> tail]
  BY Zenon DEF TryDequeue
<1>3. ASSUME next[head] # NONE, head = Dummy
      PROVE  TryDequeue =
               [node |-> IF Relinked[next[head]] = NONE THEN NONE ELSE next[head],
                head |-> IF Relinked[next[head]] = NONE THEN next[head]
                                                        ELSE Relinked[next[head]],
                next |-> Relinked, tail |-> Dummy]
  <2> DEFINE second == IF next[head] = NONE THEN NONE
                       ELSE IF tail = next[head] THEN Dummy ELSE next[next[head]]
  <2>1. TryDequeue = [node |-> IF second = NONE THEN NONE ELSE next[head],
                      head |-> IF second = NONE THEN next[head] ELSE second,
                      next |-> Relinked, tail |-> Dummy]
    BY <1>3, Zenon DEF TryDequeue, Relinked
  <2>2. Relinked[next[head]] = second
    BY <1>3 DEF Relinked
  <2> QED
    BY <2>1, <2>2, Zenon
<1> QED
  BY <1>1, <1>2, <1>3

LEMMA DequeueKeeps ==
  ASSUME RcuInv, RcuDequeue
  PROVE  RcuInv'
<1>1. UNCHANGED <<callCount, inDrain, callPc, callNode, hadBql, called, gpCtr, registry, qsreaders,
                  syncPc, registryLock, syncLock, ctr, seen, rdPc, sees>>
  BY DEF RcuDequeue, callerVars, syncVars, lockVars, readerVars
<1>2. PICK a, b, d, m \in Int, q \in [Int -> Nodes \cup {Dummy}] : QueueAt(a, b, d, m, q)
  BY DEF RcuInv, QueueInv
<1>3. /\ Linked(a, b, q, head, tail, next) /\ Contents(a, b, d, q, ran)
      /\ Covered(a, b, d, m, q)
  BY <1>2 DEF QueueAt
<1>4. /\ rcuPc \in {"take", "retry", "third"}
      /\ head' = TryDequeue.head /\ next' = TryDequeue.next /\ tail' = TryDequeue.tail
      /\ TryDequeue.node = NONE => Missed
      /\ TryDequeue.node # NONE => Took(TryDequeue.node)
  <2>1. rcuPc \in {"take", "retry", "third"}
    BY DEF RcuDequeue
  <2>2. head' = TryDequeue.head /\ next' = TryDequeue.next /\ tail' = TryDequeue.tail
    BY DEF RcuDequeue
  <2>3. ASSUME TryDequeue.node = NONE PROVE Missed
    <3>1. rcuPc' \in {"again", "stall", "relock"}
      <4>1. rcuPc' = CASE rcuPc = "take"  -> "again"
                       [] rcuPc = "retry" -> "stall"
                       [] rcuPc = "third" -> "relock"
        BY <2>3, Zenon DEF RcuDequeue, RcuGoto
      <4> QED
        BY <2>1, <4>1, Zenon
    <3>2. bql' \in {NONE, bql} /\ n' = n /\ ran' = ran
      BY <2>3 DEF RcuDequeue
    <3> QED
      BY <3>1, <3>2 DEF Missed
  <2>4. ASSUME TryDequeue.node # NONE PROVE Took(TryDequeue.node)
    BY <2>4 DEF RcuDequeue, RcuGoto, RunCallback, Took
  <2> QED
    BY <2>1, <2>2, <2>3, <2>4
<1>5. /\ Counted(a, b, n) /\ n \in Nat \ {0} /\ Batch(a, b, d, m, n) /\ Settled(a, m, q)
      /\ callCount \in Nat /\ syncLock # CallRcu
  BY <1>3, <1>4 DEF Covered, Running
<1>6. /\ next \in [Nodes \cup {Dummy} -> Nodes \cup {Dummy, NONE}]
      /\ head \in Nodes \cup {Dummy} /\ tail \in Nodes \cup {Dummy} /\ next[tail] = NONE
  BY <1>3 DEF Linked
<1>7. head = Dummy => d = a
  BY <1>3 DEF Linked, Contents
<1>8. head = Dummy => next[Dummy] # Dummy
  BY <1>3, <1>6, NodesDiffer DEF Linked
(* The rest of the invariant follows from what the queue is afterwards.    *)
<1>9. ASSUME Missed, NEW a1 \in Int, NEW b1 \in Int, NEW d1 \in Int,
             NEW r \in [Int -> Nodes \cup {Dummy}],
             Linked(a1, b1, r, head', tail', next'), Contents(a1, b1, d1, r, ran),
             Batch(a1, b1, d1, m, n), Settled(a1, m, r), b1 - a1 = b - a
      PROVE  RcuInv'
  <2>1. ReaderInv' /\ SyncInv'
    BY <1>1, <1>9 DEF RcuInv, ReaderInv, SyncInv, Missed
  <2>2. CallersInv'
    <3>1. Draining' = Draining
      BY <1>1 DEF Draining
    <3>2. \A u \in Callers : CallInv(u)'
      BY <1>1, <1>9 DEF RcuInv, CallersInv, CallInv, Graced, Missed
    <3> QED
      BY <1>1, <1>9, <3>1, <3>2 DEF RcuInv, CallersInv, Missed
  <2>3. QueueInv'
    <3>1. Linked(a1, b1, r, head, tail, next)'
      BY <1>1, <1>9 DEF Linked
    <3>2. Contents(a1, b1, d1, r, ran)'
      BY <1>1, <1>9 DEF Contents, Missed
    <3>3. Queueing' = Queueing /\ rcuPc' \in Running /\ rcuPc' # "sync"
      BY <1>1, <1>9 DEF Queueing, Missed, Running
    <3>4. Counted(a1, b1, n)'
      BY <1>1, <1>5, <1>9, <3>3 DEF Counted, Missed
    <3>5. Covered(a1, b1, d1, m, r)'
      BY <1>1, <1>5, <1>9, <3>3, <3>4 DEF Covered, Batch, Settled, Missed
    <3> QED
      BY <3>1, <3>2, <3>5 DEF QueueInv, QueueAt
  <2> QED
    BY <2>1, <2>2, <2>3 DEF RcuInv
<1>10. ASSUME NEW x, Took(x), x \in called \ ran, sees[x] = {},
              \A u \in Callers : x = Drain(u) /\ Freed(u) \in called => Freed(u) \in ran,
              NEW a1 \in Int, NEW b1 \in Int, NEW d1 \in Int,
              NEW r \in [Int -> Nodes \cup {Dummy}],
              Linked(a1, b1, r, head', tail', next'), Contents(a1, b1, d1, r, ran \cup {x}),
              Batch(a1, b1, d1, m, n - 1), Settled(a1, m, r), b1 - a1 = b - a - 1
       PROVE  RcuInv'
  <2>1. ReaderInv' /\ SyncInv'
    BY <1>1, <1>10, RcuAssumption DEF RcuInv, ReaderInv, SyncInv, Took
  <2>2. CallersInv'
    <3>1. Draining' = Draining
      BY <1>1 DEF Draining
    <3>2. ASSUME NEW u \in Callers PROVE CallInv(u)'
      <4>1. CallInv(u) /\ Freed(u) # Drain(u)
        BY NodesDiffer DEF RcuInv, CallersInv
      <4>2. ran' = ran \cup {x}
        BY <1>10 DEF Took
      <4>3. Graced(Freed(u))' <=> Graced(Freed(u))
        BY <1>1 DEF Graced
      <4> QED
        BY <1>1, <1>10, <4>1, <4>2, <4>3 DEF CallInv
    <3>3. ran' \in SUBSET Nodes
      BY <1>10 DEF RcuInv, CallersInv, Took
    <3> QED
      BY <1>1, <3>1, <3>2, <3>3 DEF RcuInv, CallersInv
  <2>3. QueueInv'
    <3>1. Linked(a1, b1, r, head, tail, next)'
      BY <1>1, <1>10 DEF Linked
    <3>2. Contents(a1, b1, d1, r, ran)'
      BY <1>1, <1>10 DEF Contents, Took
    <3>3. /\ Queueing' = Queueing /\ n' = n - 1 /\ rcuPc' # "sync"
          /\ rcuPc' \in Running <=> n # 1
      BY <1>1, <1>10 DEF Queueing, Took, Running
    <3>4. Counted(a1, b1, IF rcuPc \in Running THEN n ELSE 0)'
      <4>1. (IF rcuPc' \in Running THEN n' ELSE 0) = n - 1
        BY <1>5, <3>3
      <4>2. Cardinality(Queueing) \in Nat
        BY CallersFinite, FS_Subset, FS_CardinalityType DEF Queueing
      <4> QED
        BY <1>1, <1>5, <1>10, <3>3, <4>1, <4>2 DEF Counted
    <3>5. Covered(a1, b1, d1, m, r)'
      BY <1>1, <1>5, <1>10, <3>3, <3>4 DEF Covered, Batch, Settled
    <3> QED
      BY <3>1, <3>2, <3>5 DEF QueueInv, QueueAt
  <2> QED
    BY <2>1, <2>2, <2>3 DEF RcuInv
<1>11. CASE next[head] = NONE
  <2>1. TryDequeue = [node |-> NONE, head |-> head, next |-> next, tail |-> tail]
    BY <1>6, <1>8, <1>11, TryDequeueIs
  <2>2. head' = head /\ next' = next /\ tail' = tail /\ Missed
    BY <1>4, <2>1
  <2> QED
    BY <1>3, <1>5, <1>9, <2>2
<1>12. CASE next[head] # NONE /\ head # Dummy
  <2>1. TryDequeue = [node |-> head, head |-> next[head], next |-> next, tail |-> tail]
    BY <1>6, <1>8, <1>12, TryDequeueIs
  <2>2. head # NONE
    BY <1>6, NodesDiffer
  <2>3. head' = next[head] /\ next' = next /\ tail' = tail /\ Took(head)
    BY <1>4, <2>1, <2>2
  <2>4. /\ Linked(a + 1, b, q, next[head], tail, next) /\ Contents(a + 1, b, d, q, ran \cup {head})
        /\ Batch(a + 1, b, d, m, n - 1) /\ Settled(a + 1, m, q)
        /\ head \in called \ ran /\ sees[head] = {}
        /\ \A u \in Callers : head = Drain(u) /\ Freed(u) \in called => Freed(u) \in ran
    BY <1>3, <1>5, <1>12, TakeKeeps
  <2>5. b - (a + 1) = b - a - 1 /\ a + 1 \in Int
    OBVIOUS
  <2> QED
    BY <1>10, <2>3, <2>4, <2>5
<1>13. CASE next[head] # NONE /\ head = Dummy
  <2> DEFINE r == [q EXCEPT ![b + 1] = Dummy]
             x == Relinked
             f == next[Dummy]
  <2>1. /\ r \in [Int -> Nodes \cup {Dummy}]
        /\ Linked(a + 1, b + 1, r, f, Dummy, x) /\ Contents(a + 1, b + 1, b + 1, r, ran)
        /\ Batch(a + 1, b + 1, b + 1, m, n) /\ Settled(a + 1, m, r)
    <3>1. /\ Linked(a, b, q, Dummy, tail, next) /\ Contents(a, b, a, q, ran)
          /\ Batch(a, b, a, m, n) /\ next[Dummy] # NONE
      BY <1>3, <1>5, <1>7, <1>13
    <3>2. r = [q EXCEPT ![b + 1] = Dummy] /\ x = [[next EXCEPT ![Dummy] = NONE] EXCEPT ![tail] = Dummy]
      BY DEF Relinked
    <3> HIDE DEF r, x
    <3> QED
      BY <1>5, <3>1, <3>2, RelinkKeeps
  <2>2. TryDequeue = [node |-> IF x[f] = NONE THEN NONE ELSE f,
                      head |-> IF x[f] = NONE THEN f ELSE x[f],
                      next |-> x, tail |-> Dummy]
    BY <1>6, <1>8, <1>13, TryDequeueIs
  <2>3. f \in Nodes
    BY <1>6, <1>8, <1>13
  <2> HIDE DEF r, x, f
  <2>4. CASE x[f] = NONE
    <3>1. head' = f /\ next' = x /\ tail' = Dummy /\ Missed
      BY <1>4, <2>2, <2>4
    <3>2. (b + 1) - (a + 1) = b - a /\ a + 1 \in Int /\ b + 1 \in Int
      OBVIOUS
    <3> QED
      BY <1>9, <2>1, <3>1, <3>2
  <2>5. CASE x[f] # NONE
    <3>1. f # NONE /\ f # Dummy
      BY <2>3, NodesDiffer
    <3>2. head' = x[f] /\ next' = x /\ tail' = Dummy /\ Took(f)
      BY <1>4, <2>2, <2>5, <3>1
    <3> DEFINE a1 == a + 1
               b1 == b + 1
    <3>0. r \in [Int -> Nodes \cup {Dummy}]
      BY <2>1
    <3>3. a1 \in Int /\ b1 \in Int /\ b1 - (a1 + 1) = b - a - 1 /\ a1 + 1 \in Int
      OBVIOUS
    <3>4. /\ Linked(a1, b1, r, f, Dummy, x) /\ Contents(a1, b1, b1, r, ran)
          /\ Batch(a1, b1, b1, m, n) /\ Settled(a1, m, r)
      BY <2>1
    <3> HIDE DEF a1, b1
    <3>5. /\ Linked(a1 + 1, b1, r, x[f], Dummy, x) /\ Contents(a1 + 1, b1, b1, r, ran \cup {f})
          /\ Batch(a1 + 1, b1, b1, m, n - 1) /\ Settled(a1 + 1, m, r)
          /\ f \in called \ ran /\ sees[f] = {}
          /\ \A u \in Callers : f = Drain(u) /\ Freed(u) \in called => Freed(u) \in ran
      BY <1>5, <2>5, <3>0, <3>1, <3>3, <3>4, TakeKeeps
    <3> QED
      BY <1>10, <2>1, <3>2, <3>3, <3>5
  <2> QED
    BY <2>4, <2>5
<1> QED
  BY <1>11, <1>12, <1>13

-----------------------------------------------------------------------------
(* The call_rcu thread: steps that move it and its count.                  *)
LEMMA ThreadKeeps ==
  ASSUME RcuInv, ReaderInv', SyncInv',
         UNCHANGED <<next, tail, head, inDrain, callPc, callNode, hadBql, called, ran, sees>>,
         syncLock' = NONE \/ UNCHANGED <<syncLock, syncPc, registry, ctr, gpCtr>>,
         \A a, b, d, m \in Int, q \in [Int -> Nodes \cup {Dummy}] :
           QueueAt(a, b, d, m, q) => \E k \in Int : Covered(a, b, d, k, q)'
  PROVE  RcuInv'
<1>1. CallersInv'
  <2>1. Draining' = Draining
    BY DEF Draining
  <2>2. ASSUME NEW u \in Callers PROVE CallInv(u)'
    <3>1. CallInv(u)
      BY DEF RcuInv, CallersInv
    <3> QED
      BY <3>1, OtherCaller
  <2> QED
    BY <2>1, <2>2 DEF RcuInv, CallersInv
<1>2. PICK a, b, d, m \in Int, q \in [Int -> Nodes \cup {Dummy}] : QueueAt(a, b, d, m, q)
  BY DEF RcuInv, QueueInv
<1>3. PICK k \in Int : Covered(a, b, d, k, q)'
  BY <1>2
<1>4. Linked(a, b, q, head, tail, next)'
  BY <1>2 DEF QueueAt, Linked
<1>5. Contents(a, b, d, q, ran)'
  BY <1>2 DEF QueueAt, Contents
<1> QED
  BY <1>1, <1>3, <1>4, <1>5 DEF RcuInv, QueueInv, QueueAt

LEMMA RcuResetKeeps ==
  ASSUME RcuInv, RcuReset
  PROVE  RcuInv'
<1>1. UNCHANGED <<bql, next, tail, head, callCount, inDrain, callPc, callNode, hadBql, called, ran,
                  n, gpCtr, registry, qsreaders, syncPc, registryLock, syncLock, ctr, seen, rdPc, sees>>
  BY DEF RcuReset, callerVars, syncVars, lockVars, readerVars
<1>2. \/ rcuPc = "reset" /\ rcuPc' = "fetch"
      \/ rcuPc = "again" /\ rcuPc' = "retry"
  BY DEF RcuReset, RcuGoto
<1>3. ReaderInv' /\ SyncInv'
  BY <1>1 DEF RcuInv, ReaderInv, SyncInv
<1>4. ASSUME NEW a \in Int, NEW b \in Int, NEW d \in Int, NEW m \in Int,
             NEW q \in [Int -> Nodes \cup {Dummy}], QueueAt(a, b, d, m, q)
      PROVE  Covered(a, b, d, m, q)'
  <2>1. Queueing' = Queueing
    BY <1>1 DEF Queueing
  <2> QED
    BY <1>1, <1>2, <1>4, <2>1 DEF QueueAt, Covered, Running, Counted, Batch, Settled
<1> QED
  BY <1>1, <1>3, <1>4, ThreadKeeps

LEMMA RcuFetchKeeps ==
  ASSUME RcuInv, RcuFetch
  PROVE  RcuInv'
<1>1. UNCHANGED <<bql, next, tail, head, callCount, inDrain, callPc, callNode, hadBql, called, ran,
                  gpCtr, registry, qsreaders, syncPc, registryLock, syncLock, ctr, seen, rdPc, sees>>
  BY DEF RcuFetch, queueVars, callerVars, syncVars, lockVars, readerVars
<1>2. /\ rcuPc = "fetch" /\ n' = callCount
      /\ rcuPc' = IF callCount = 0 THEN "idle" ELSE "sync"
  BY DEF RcuFetch, RcuGoto
<1>3. ReaderInv' /\ SyncInv'
  BY <1>1 DEF RcuInv, ReaderInv, SyncInv
<1>4. ASSUME NEW a \in Int, NEW b \in Int, NEW d \in Int, NEW m \in Int,
             NEW q \in [Int -> Nodes \cup {Dummy}], QueueAt(a, b, d, m, q)
      PROVE  Covered(a, b, d, b, q)'
  <2>1. Queueing' = Queueing /\ Cardinality(Queueing) \in Nat
    BY <1>1, CallersFinite, FS_Subset, FS_CardinalityType DEF Queueing
  <2>2. /\ callCount \in Nat /\ b - a = callCount + Cardinality(Queueing) + 0
        /\ syncLock # CallRcu /\ d <= b
    BY <1>2, <1>4 DEF QueueAt, Covered, Counted, Contents, Running
  <2>3. Counted(a, b, IF rcuPc \in Running THEN n ELSE 0)'
    BY <1>1, <1>2, <2>1, <2>2 DEF Counted, Running
  <2>4. Batch(a, b, d, b, n')
    BY <1>2, <2>1, <2>2 DEF Batch
  <2> QED
    BY <1>1, <1>2, <2>2, <2>3, <2>4 DEF Covered, Running, Batch
<1> QED
  BY <1>1, <1>3, <1>4, ThreadKeeps

LEMMA RcuWaitKeeps ==
  ASSUME RcuInv, RcuWait
  PROVE  RcuInv'
<1>1. UNCHANGED <<bql, next, tail, head, callCount, inDrain, callPc, callNode, hadBql, called, ran,
                  n, gpCtr, registry, qsreaders, syncPc, registryLock, syncLock, ctr, seen, rdPc, sees>>
  BY DEF RcuWait, queueVars, callerVars, syncVars, lockVars, readerVars
<1>2. \/ rcuPc = "idle" /\ rcuPc' = "reset"
      \/ rcuPc = "stall" /\ rcuPc' = "third"
  BY DEF RcuWait, RcuGoto
<1>3. ReaderInv' /\ SyncInv'
  BY <1>1 DEF RcuInv, ReaderInv, SyncInv
<1>4. ASSUME NEW a \in Int, NEW b \in Int, NEW d \in Int, NEW m \in Int,
             NEW q \in [Int -> Nodes \cup {Dummy}], QueueAt(a, b, d, m, q)
      PROVE  Covered(a, b, d, m, q)'
  <2>1. Queueing' = Queueing
    BY <1>1 DEF Queueing
  <2> QED
    BY <1>1, <1>2, <1>4, <2>1 DEF QueueAt, Covered, Running, Counted, Batch, Settled
<1> QED
  BY <1>1, <1>3, <1>4, ThreadKeeps

LEMMA RcuLockBqlKeeps ==
  ASSUME RcuInv, RcuLockBql
  PROVE  RcuInv'
<1>1. UNCHANGED <<next, tail, head, callCount, inDrain, callPc, callNode, hadBql, called, ran,
                  n, gpCtr, registry, qsreaders, syncPc, registryLock, syncLock, ctr, seen, rdPc, sees>>
  BY DEF RcuLockBql, queueVars, callerVars, syncVars, lockVars, readerVars
<1>2. /\ \/ rcuPc = "lock" /\ rcuPc' = "take"
         \/ rcuPc = "relock" /\ rcuPc' = "again"
      /\ bql' \in Readers \cup {NONE}
  BY RcuAssumption DEF RcuLockBql, RcuGoto
<1>3. ReaderInv' /\ SyncInv'
  BY <1>1, <1>2 DEF RcuInv, ReaderInv, SyncInv
<1>4. ASSUME NEW a \in Int, NEW b \in Int, NEW d \in Int, NEW m \in Int,
             NEW q \in [Int -> Nodes \cup {Dummy}], QueueAt(a, b, d, m, q)
      PROVE  Covered(a, b, d, m, q)'
  <2>1. Queueing' = Queueing
    BY <1>1 DEF Queueing
  <2> QED
    BY <1>1, <1>2, <1>4, <2>1 DEF QueueAt, Covered, Running, Counted, Batch, Settled
<1> QED
  BY <1>1, <1>3, <1>4, ThreadKeeps

(* After the grace period nobody may use what was fetched before it.       *)
LEMMA RcuSyncedKeeps ==
  ASSUME RcuInv, RcuSynced
  PROVE  RcuInv'
<1>1. UNCHANGED <<bql, next, tail, head, inDrain, callPc, callNode, hadBql, called, ran,
                  n, gpCtr, registry, qsreaders, registryLock, ctr, seen, rdPc, sees>>
  BY DEF RcuSynced, callerVars, readerVars
<1>2. /\ rcuPc = "sync" /\ rcuPc' = "lock" /\ syncPc = "done" /\ syncLock = CallRcu
      /\ syncLock' = NONE /\ syncPc' = "off" /\ callCount' = callCount - n
  BY DEF RcuSynced, SyncUnlock, RcuGoto
<1>3. ReaderInv' /\ SyncInv'
  BY <1>1, <1>2, LockNames DEF RcuInv, ReaderInv, SyncInv
<1>4. ASSUME NEW a \in Int, NEW b \in Int, NEW d \in Int, NEW m \in Int,
             NEW q \in [Int -> Nodes \cup {Dummy}], QueueAt(a, b, d, m, q)
      PROVE  Covered(a, b, d, m, q)'
  <2>1. Queueing' = Queueing /\ Cardinality(Queueing) \in Nat
    BY <1>1, CallersFinite, FS_Subset, FS_CardinalityType DEF Queueing
  <2>2. /\ callCount \in Nat /\ n \in Nat /\ n <= callCount /\ n >= 1 /\ Batch(a, b, d, m, n)
        /\ b - a = callCount + Cardinality(Queueing) + 0
        /\ \A i \in a .. m : q[i] # Dummy => Graced(q[i])
    BY <1>2, <1>4 DEF QueueAt, Covered, Counted, Running
  <2>3. Settled(a, m, q)'
    BY <1>1, <1>2, <2>2 DEF Settled, Graced
  <2>4. Counted(a, b, n)'
    BY <1>1, <1>2, <2>1, <2>2 DEF Counted
  <2> QED
    BY <1>1, <1>2, <2>2, <2>3, <2>4, LockNames DEF Covered, Running, Batch
<1> QED
  BY <1>1, <1>2, <1>3, <1>4, ThreadKeeps

LEMMA RcuThreadKeeps ==
  ASSUME RcuInv, RcuThread
  PROVE  RcuInv'
<1>1. ASSUME RcuSync PROVE RcuInv'
  <2>1. SyncLock(CallRcu) /\ rcuPc = "sync" /\ CallRcu \notin Callers
    BY <1>1, LockNames DEF RcuSync
  <2> QED
    BY <2>1, SyncLockKeeps
<1> QED
  BY <1>1, RcuResetKeeps, RcuFetchKeeps, RcuWaitKeeps, RcuSyncedKeeps, RcuLockBqlKeeps,
     DequeueKeeps DEF RcuThread

(* Everything the threads do with RCU but the notification.                *)
ReaderMove(t) == Register(t) \/ Unregister(t) \/ ReadLoad(t) \/ ReaderStep(t)
CallerMove(u) == CallRcu1(u) \/ DrainCallRcu(u) \/ SyncCall(u) \/ CallerStep(u)

RcuMove ==
  \/ UNCHANGED rcuRest /\ bql' \in Readers \cup {NONE}
  \/ SyncStep \/ RcuThread
  \/ \E u \in Callers : CallerMove(u)
  \/ \E t \in Readers : ReaderMove(t)

LEMMA RcuMoveKeeps ==
  ASSUME RcuInv, RcuMove
  PROVE  RcuInv'
<1>1. ASSUME NEW u \in Callers, CallerMove(u) PROVE RcuInv'
  BY <1>1, CallRcu1Keeps, DrainCallRcuKeeps, SyncCallKeeps, CallerStepKeeps DEF CallerMove
<1>2. ASSUME NEW t \in Readers, ReaderMove(t) PROVE RcuInv'
  BY <1>2, RegisterKeeps, UnregisterKeeps, ReadLoadKeeps, ReadStoreKeeps, ReadClearKeeps,
     ReadWakeKeeps DEF ReaderMove, ReaderStep
<1> QED
  BY <1>1, <1>2, BqlKeeps, SyncStepKeeps, RcuThreadKeeps DEF RcuMove

(* While notifiers run nobody comes to RCU's lists or leaves them.         *)
LEMMA ListsKept ==
  ASSUME RcuInv, RcuMove, syncPc = "kick"
  PROVE  syncPc' = "kick" /\ registry' = registry
<1>1. registryLock # NONE /\ syncLock # NONE
  BY DEF RcuInv, SyncInv
<1>2. CASE UNCHANGED rcuRest
  BY <1>2 DEF rcuRest, syncVars
<1>3. CASE SyncStep
  BY <1>3 DEF SyncStep, SyncStart, SyncForce, SyncScan, SyncSleep, SyncRelock
<1>4. CASE RcuThread
  BY <1>1, <1>4 DEF RcuThread, RcuReset, RcuFetch, RcuWait, RcuSync, RcuSynced, RcuLockBql,
    RcuDequeue,
     SyncLock, SyncUnlock, syncVars
<1>5. ASSUME NEW u \in Callers, CallerMove(u) PROVE syncPc' = "kick" /\ registry' = registry
  BY <1>1, <1>5 DEF CallerMove, CallerStep, CallRcu1, DrainCallRcu, SyncCall, CallLink, CallCount,
     CallReady, DrainReturn, SyncEnter, SyncReturn, SyncLock, SyncUnlock, syncVars
<1>6. ASSUME NEW t \in Readers, ReaderMove(t) PROVE syncPc' = "kick" /\ registry' = registry
  BY <1>1, <1>6 DEF ReaderMove, ReaderStep, Register, Unregister, ReadLoad, ReadStore, ReadClear,
     ReadWake, syncVars
<1> QED
  BY <1>2, <1>3, <1>4, <1>5, <1>6 DEF RcuMove

(* Where a thread is as a reader is its own business.                      *)
LEMMA OthersRead ==
  ASSUME RcuInv, NEW t \in Readers, t # Rr, ReaderMove(t)
  PROVE  rdPc'[Rr] = rdPc[Rr]
  BY RrAssumption DEF RcuInv, ReaderInv, ReaderMove, ReaderStep, Register, Unregister, ReadLoad,
     ReadStore, ReadClear, ReadWake

LEMMA CallersDontRead ==
  ASSUME SyncStep \/ SyncNotified \/ RcuThread \/ \E u \in Callers : CallerMove(u)
  PROVE  rdPc' = rdPc
<1>1. CASE SyncStep \/ SyncNotified
  BY <1>1 DEF SyncStep, SyncStart, SyncForce, SyncScan, SyncSleep, SyncRelock, SyncNotified,
    readerVars
<1>2. CASE RcuThread
  BY <1>2 DEF RcuThread, RcuReset, RcuFetch, RcuWait, RcuSync, RcuSynced, RcuLockBql, RcuDequeue,
     SyncLock, readerVars
<1>3. ASSUME NEW u \in Callers, CallerMove(u) PROVE rdPc' = rdPc
  BY <1>3 DEF CallerMove, CallerStep, CallRcu1, DrainCallRcu, SyncCall, CallLink, CallCount,
     CallReady, DrainReturn, SyncEnter, SyncReturn, SyncLock, readerVars
<1> QED
  BY <1>1, <1>2, <1>3

-----------------------------------------------------------------------------
(* The initial state: the queue is the dummy.                              *)
LEMMA InitHolds ==
  ASSUME Init
  PROVE  IInv
<1> USE DEF Init, RcuInit
<1>1. ReaderInv
  BY RcuAssumption, RrAssumption DEF ReaderInv, Listed
<1>2. SyncInv
  BY DEF SyncInv
<1>3. CallersInv
  <2>1. Draining = {} /\ Cardinality(Draining) = 0
    BY FS_EmptySet DEF Draining
  <2>2. \A u \in Callers : CallInv(u)
    BY LockNames DEF CallInv
  <2> QED
    BY <2>1, <2>2 DEF CallersInv
<1>4. QueueInv
  <2> DEFINE q == [i \in Int |-> Dummy]
  <2>1. q \in [Int -> Nodes \cup {Dummy}] /\ \A i \in Int : q[i] = Dummy
    OBVIOUS
  <2> HIDE DEF q
  <2>2. Linked(0, 0, q, head, tail, next)
    BY <2>1 DEF Linked
  <2>3. Contents(0, 0, 0, q, ran)
    BY <2>1, NodesDiffer DEF Contents
  <2>4. Covered(0, 0, 0, 0, q)
    <3>1. Queueing = {} /\ Cardinality(Queueing) = 0
      BY FS_EmptySet DEF Queueing
    <3> QED
      BY <3>1, LockNames DEF Covered, Counted, Running
  <2> QED
    BY <2>1, <2>2, <2>3, <2>4 DEF QueueInv, QueueAt
<1>5. CpuInv
  BY RrAssumption DEF CpuInv, Cpus
<1>6. LifeInv /\ KickInv
  BY RrAssumption DEF LifeInv, KickInv
<1> QED
  BY <1>1, <1>2, <1>3, <1>4, <1>5, <1>6 DEF IInv, RcuInv

-----------------------------------------------------------------------------
(* The vCPU thread and the entry thread.  Each step is a move of RCU's and *)
(* keeps what is known of the vCPUs and of the life of their thread.       *)
Moves == RcuMove /\ CpuInv' /\ LifeInv' /\ kickPc' = kickPc

LEMMA RcuSame ==
  ASSUME RcuInv, UNCHANGED rcuVars
  PROVE  RcuMove /\ rdPc' = rdPc
  BY DEF RcuInv, ReaderInv, RcuMove, rcuVars, rcuRest, readerVars

LEMMA BqlMoves ==
  ASSUME RcuInv, UNCHANGED rcuRest, bql' \in {Rr, Main, NONE, bql}
  PROVE  RcuMove /\ rdPc' = rdPc
  BY RrAssumption DEF RcuInv, ReaderInv, RcuMove, rcuRest, readerVars

LEMMA WokenIs ==
  ASSUME NEW pc
  PROVE  \/ Woken(pc) = pc
         \/ pc \in {"parkWait", "ioWait"} /\ Woken(pc) \in {"parkWoken", "ioWoken"}
<1>1. pc = "parkWait" => Woken(pc) = "parkWoken"
  BY Zenon DEF Woken
<1>2. pc = "ioWait" => Woken(pc) = "ioWoken"
  BY Zenon DEF Woken
<1>3. pc # "parkWait" /\ pc # "ioWait" => Woken(pc) = pc
  BY Zenon DEF Woken
<1> QED
  BY <1>1, <1>2, <1>3

(* A kick moves a waiting thread on, and no other.                         *)
Nudged == \/ rrPc' = rrPc
          \/ rrPc \in {"parkWait", "ioWait"} /\ rrPc' \in {"parkWoken", "ioWoken"}

LEMMA CpuExitIs ==
  ASSUME NEW S, CpuExit(S)
  PROVE  exitReq' = exitReq \cup S /\ Nudged
  BY WokenIs DEF CpuExit, Nudged

LEMMA NudgedLife ==
  ASSUME LifeInv, Nudged, rdPc' = rdPc, UNCHANGED <<alias, storage>>,
         \/ mainPc' = mainPc
         \/ /\ mainPc' \notin {"init", "await"}
            /\ mainPc' \in {"joined", "free", "stopped", "exit"} => rrPc = "done"
  PROVE  LifeInv'
  BY DEF LifeInv, Nudged

LEMMA WaitIoIs ==
  ASSUME WaitIo
  PROVE  /\ bql' \in {Rr, NONE} /\ rrPc' \in {"leave", "ioWait", "replay"}
         /\ work' \subseteq work /\ stop' \subseteq stop /\ stopped' \subseteq stopped \cup stop
<1>1. \/ bql' = Rr /\ RrGoto("leave") /\ UNCHANGED <<timer, work, stop, stopped>>
      \/ bql' = NONE /\ RrGoto("ioWait") /\ UNCHANGED <<work, stop, stopped>>
      \/ bql' = NONE /\ RrGoto("replay") /\ ProcessEvents
  BY Zenon DEF WaitIo
<1> QED
  BY <1>1 DEF RrGoto, ProcessEvents

LEMMA RrMoves ==
  ASSUME IInv, RrStep \/ RrExecHalt \/ RrAfter(TRUE)
  PROVE  Moves
<1> USE DEF IInv, scenario, fixed, cpuVars, mainVars, kickVars, RrGoto
<1>1. ASSUME RrRegister PROVE Moves
  <2>1. RcuMove
    BY <1>1, RrAssumption DEF RrRegister, RcuMove, ReaderMove
  <2>2. CpuInv' /\ LifeInv'
    BY <1>1, RrAssumption DEF RrRegister, Register, CpuInv, LifeInv, Cpus, RcuInv, ReaderInv
  <2> QED
    BY <1>1, <2>1, <2>2 DEF RrRegister, Moves
<1>2. ASSUME RrCreated PROVE Moves
  <2>1. RcuMove /\ rdPc' = rdPc
    BY <1>2, RcuSame DEF RrCreated
  <2>2. CpuInv' /\ LifeInv'
    BY <1>2, <2>1 DEF RrCreated, CpuInv, LifeInv, Cpus
  <2> QED
    BY <1>2, <2>1, <2>2 DEF RrCreated, Moves
<1>3. ASSUME RrPark PROVE Moves
  <2>1. RcuMove /\ rdPc' = rdPc
    BY <1>3, BqlMoves DEF RrPark
  <2>2. CpuInv' /\ LifeInv'
    BY <1>3, <2>1 DEF RrPark, ProcessEvents, CpuInv, LifeInv, Cpus
  <2> QED
    BY <1>3, <2>1, <2>2 DEF RrPark, Moves
<1>4. ASSUME RrTop PROVE Moves
  <2>1. RcuMove /\ rdPc' = rdPc
    BY <1>4, BqlMoves, WaitIoIs DEF RrTop
  <2>2. CpuInv' /\ LifeInv'
    BY <1>4, <2>1, WaitIoIs DEF RrTop, CpuInv, LifeInv, Cpus
  <2> QED
    BY <1>4, <2>1, <2>2 DEF RrTop, Moves
<1>5. ASSUME RrIoWoken PROVE Moves
  <2>1. RcuMove /\ rdPc' = rdPc
    BY <1>5, BqlMoves, WaitIoIs DEF RrIoWoken
  <2>2. CpuInv' /\ LifeInv'
    BY <1>5, <2>1, WaitIoIs DEF RrIoWoken, CpuInv, LifeInv, Cpus
  <2> QED
    BY <1>5, <2>1, <2>2 DEF RrIoWoken, Moves
<1>6. ASSUME RrReplay PROVE Moves
  <2>1. RcuMove /\ rdPc' = rdPc
    BY <1>6, RcuSame DEF RrReplay
  <2>2. CpuInv' /\ LifeInv'
    BY <1>6, <2>1 DEF RrReplay, CpuInv, LifeInv, Cpus
  <2> QED
    BY <1>6, <2>1, <2>2 DEF RrReplay, Moves
<1>7. ASSUME RrRelock PROVE Moves
  <2>1. RcuMove /\ rdPc' = rdPc
    BY <1>7, BqlMoves DEF RrRelock
  <2>2. CpuInv' /\ LifeInv'
    BY <1>7, <2>1 DEF RrRelock, CpuInv, LifeInv, Cpus
  <2> QED
    BY <1>7, <2>1, <2>2 DEF RrRelock, Moves
<1>8. ASSUME RrPick PROVE Moves
  <2>1. RcuMove /\ rdPc' = rdPc
    BY <1>8, RcuSame DEF RrPick
  <2>2. CpuInv' /\ LifeInv'
    BY <1>8, <2>1 DEF RrPick, CpuInv, LifeInv, Cpus
  <2> QED
    BY <1>8, <2>1, <2>2 DEF RrPick, Moves
<1>9. ASSUME RrCheck PROVE Moves
  <2>1. RcuMove /\ rdPc' = rdPc
    BY <1>9, BqlMoves DEF RrCheck
  <2>2. CpuInv' /\ LifeInv'
    BY <1>9, <2>1 DEF RrCheck, NextCpu, CpuInv, LifeInv, Cpus
  <2> QED
    BY <1>9, <2>1, <2>2 DEF RrCheck, Moves
<1>10. ASSUME RrExecIn PROVE Moves
  <2>1. RcuMove
    BY <1>10, RrAssumption DEF RrExecIn, RcuMove, ReaderMove, ReaderStep
  <2>2. rdPc'[Rr] \in {"load", "in"} /\ rdPc[Rr] \in {"idle", "load"}
    BY <1>10, RrAssumption DEF RrExecIn, ReadLoad, ReadStore, RcuInv, ReaderInv
  <2>3. CpuInv' /\ LifeInv'
    BY <1>10, <2>2 DEF RrExecIn, rrVars, CpuInv, LifeInv, Cpus
  <2> QED
    BY <1>10, <2>1, <2>3 DEF RrExecIn, Moves
<1>11. ASSUME RrExecExit PROVE Moves
  <2>1. RcuMove
    BY <1>11, RrAssumption DEF RrExecExit, RcuMove, ReaderMove, ReaderStep
  <2>2. rdPc'[Rr] = "left"
    BY <1>11, RrAssumption DEF RrExecExit, ReadClear, RcuInv, ReaderInv
  <2>3. rrCpu # 0
    BY <1>11 DEF RrExecExit, CpuInv, Cpus
  <2>4. CpuInv' /\ LifeInv'
    BY <1>11, <2>2, <2>3 DEF RrExecExit, CpuInv, LifeInv, Cpus
  <2> QED
    BY <1>11, <2>1, <2>4 DEF RrExecExit, Moves
<1>12. ASSUME RrExecHalt PROVE Moves
  <2>1. RcuMove
    BY <1>12, RrAssumption DEF RrExecHalt, RcuMove, ReaderMove, ReaderStep
  <2>2. rdPc'[Rr] = "left"
    BY <1>12, RrAssumption DEF RrExecHalt, ReadClear, RcuInv, ReaderInv
  <2>3. rrCpu \in Cpus
    BY <1>12 DEF RrExecHalt, CpuInv, Cpus
  <2>4. CpuInv' /\ LifeInv'
    BY <1>12, <2>2, <2>3 DEF RrExecHalt, CpuInv, LifeInv, Cpus
  <2> QED
    BY <1>12, <2>1, <2>4 DEF RrExecHalt, Moves
<1>13. ASSUME RrExecWake PROVE Moves
  <2>1. RcuMove
    BY <1>13, RrAssumption DEF RrExecWake, RcuMove, ReaderMove, ReaderStep
  <2>2. rdPc'[Rr] = "idle"
    BY <1>13, RrAssumption DEF RrExecWake, ReadWake, RcuInv, ReaderInv
  <2>3. CpuInv' /\ LifeInv'
    BY <1>13, <2>2 DEF RrExecWake, rrVars, CpuInv, LifeInv, Cpus
  <2> QED
    BY <1>13, <2>1, <2>3 DEF RrExecWake, Moves
<1>14. ASSUME NEW debug \in BOOLEAN, RrAfter(debug) PROVE Moves
  <2>1. RcuMove /\ rdPc' = rdPc
    BY <1>14, BqlMoves DEF RrAfter
  <2>2. rrCpu \in Cpus
    BY <1>14 DEF RrAfter, CpuInv, Cpus
  <2>3. /\ rrPc = "after" /\ rrPc' \in {"top", "pick"}
        /\ current' \in {0, current} /\ stopped' \subseteq stopped \cup {rrCpu}
        /\ rrCpu' \in {rrCpu, NextCpu(rrCpu)}
    BY <1>14 DEF RrAfter
  <2>4. NextCpu(rrCpu) \in 0 .. cpus
    BY <2>2 DEF NextCpu, CpuInv, Cpus
  <2>5. UNCHANGED <<cpus, replay, kickCpu, stop, halted, work, exitReq, created, alias, storage, mainPc>>
    BY <1>14 DEF RrAfter
  <2>6. CpuInv' /\ LifeInv'
    BY <2>1, <2>2, <2>3, <2>4, <2>5 DEF CpuInv, LifeInv, Cpus
  <2> QED
    BY <1>14, <2>1, <2>6 DEF RrAfter, Moves
<1>15. ASSUME RrLeave PROVE Moves
  <2>1. RcuMove /\ rdPc' = rdPc
    BY <1>15, BqlMoves DEF RrLeave
  <2>2. CpuInv' /\ LifeInv'
    BY <1>15, <2>1 DEF RrLeave, CpuInv, LifeInv, Cpus
  <2> QED
    BY <1>15, <2>1, <2>2 DEF RrLeave, Moves
<1>16. ASSUME RrUnregister PROVE Moves
  <2>1. RcuMove
    BY <1>16, RrAssumption DEF RrUnregister, RcuMove, ReaderMove
  <2>2. rdPc'[Rr] = "gone"
    BY <1>16, RrAssumption DEF RrUnregister, Unregister, RcuInv, ReaderInv
  <2>3. CpuInv' /\ LifeInv'
    BY <1>16, <2>2 DEF RrUnregister, CpuInv, LifeInv, Cpus
  <2> QED
    BY <1>16, <2>1, <2>3 DEF RrUnregister, Moves
<1> QED
  BY <1>1, <1>2, <1>3, <1>4, <1>5, <1>6, <1>7, <1>8, <1>9, <1>10, <1>11, <1>12, <1>13, <1>14,
     <1>15, <1>16 DEF RrStep

LEMMA MainMoves ==
  ASSUME IInv, MainStep
  PROVE  Moves
<1> USE DEF IInv, scenario, fixed, cpuVars, rrVars, mainVars, kickVars, RrGoto, MainGoto
<1>1. ASSUME MainRegister PROVE Moves
  <2>1. RcuMove /\ rdPc'[Rr] = rdPc[Rr]
    BY <1>1, RrAssumption, OthersRead DEF MainRegister, RcuMove, ReaderMove
  <2>2. CpuInv' /\ LifeInv'
    BY <1>1, <2>1 DEF MainRegister, CpuInv, LifeInv, Cpus
  <2> QED
    BY <1>1, <2>1, <2>2 DEF MainRegister, Moves
<1>2. ASSUME StartVcpu PROVE Moves
  <2>1. RcuMove /\ rdPc' = rdPc
    BY <1>2, BqlMoves DEF StartVcpu
  <2>2. CpuInv'
    <3>1. UNCHANGED <<cpus, replay, current, rrCpu, kickCpu, stop, stopped, halted, work, exitReq>>
      BY <1>2 DEF StartVcpu
    <3>2. alias' \in {{1}, Cpus} /\ created' \subseteq created \cup Cpus
      BY <1>2 DEF StartVcpu
    <3>3. alias' \subseteq Cpus /\ created' \subseteq Cpus
      BY <3>2 DEF CpuInv, Cpus
    <3>4. rrPc' \in {rrPc, "boot"}
      BY <1>2 DEF StartVcpu
    <3> QED
      BY <3>1, <3>3, <3>4 DEF CpuInv, Cpus
  <2>3. LifeInv'
    BY <1>2, <2>1 DEF StartVcpu, LifeInv, CpuInv, Cpus
  <2> QED
    BY <1>2, <2>1, <2>2, <2>3 DEF StartVcpu, Moves
<1>3. ASSUME AwaitCreated PROVE Moves
  <2>1. RcuMove /\ rdPc' = rdPc
    BY <1>3, BqlMoves DEF AwaitCreated
  <2>2. CpuInv' /\ LifeInv'
    BY <1>3, <2>1 DEF AwaitCreated, CpuInv, LifeInv, Cpus
  <2> QED
    BY <1>3, <2>1, <2>2 DEF AwaitCreated, Moves
<1>4. ASSUME MainPoll PROVE Moves
  <2>1. RcuMove /\ rdPc' = rdPc
    BY <1>4, BqlMoves DEF MainPoll
  <2>2. CpuInv' /\ LifeInv'
    BY <1>4, <2>1 DEF MainPoll, CpuInv, LifeInv, Cpus
  <2> QED
    BY <1>4, <2>1, <2>2 DEF MainPoll, Moves
<1>5. ASSUME MainLocks PROVE Moves
  <2>1. RcuMove /\ rdPc' = rdPc
    BY <1>5, BqlMoves DEF MainLocks
  <2>2. \/ mainPc \in {"poll", "pause"} /\ mainPc' = "hold"
        \/ mainPc = "finalPause" /\ mainPc' = "stop"
        \/ mainPc = "joined" /\ mainPc' = "free"
    <3>1. mainPc \in {"poll", "pause", "finalPause", "joined"}
      BY <1>5 DEF MainLocks
    <3>2. mainPc' = CASE mainPc \in {"poll", "pause"} -> "hold"
                      [] mainPc = "finalPause" -> "stop" [] mainPc = "joined" -> "free"
      BY <1>5, Zenon DEF MainLocks
    <3> QED
      BY <3>1, <3>2, Zenon
  <2>3. CpuInv' /\ LifeInv'
    BY <1>5, <2>1, <2>2 DEF MainLocks, CpuInv, LifeInv, Cpus
  <2> QED
    BY <1>5, <2>1, <2>3 DEF MainLocks, Moves
<1>6. ASSUME StopThread PROVE Moves
  <2>1. RcuMove /\ rdPc' = rdPc
    BY <1>6, BqlMoves DEF StopThread
  <2>2. Nudged
    BY <1>6, WokenIs DEF StopThread, Nudged
  <2>3. CpuInv' /\ LifeInv'
    <3>1. LifeInv'
      BY <1>6, <2>1, <2>2, NudgedLife DEF StopThread
    <3>2. CpuInv'
      BY <1>6, <2>2 DEF StopThread, Nudged, CpuInv, Cpus
    <3> QED
      BY <3>1, <3>2
  <2> QED
    BY <1>6, <2>1, <2>3 DEF StopThread, Moves
<1>7. ASSUME Join PROVE Moves
  <2>1. RcuMove /\ rdPc' = rdPc
    BY <1>7, RcuSame DEF Join
  <2>2. CpuInv' /\ LifeInv'
    BY <1>7, <2>1 DEF Join, CpuInv, LifeInv, Cpus
  <2> QED
    BY <1>7, <2>1, <2>2 DEF Join, Moves
<1>8. ASSUME FreeThread PROVE Moves
  <2>1. RcuMove /\ rdPc' = rdPc
    BY <1>8, RcuSame DEF FreeThread
  <2>2. CpuInv' /\ LifeInv'
    BY <1>8, <2>1 DEF FreeThread, CpuInv, LifeInv, Cpus
  <2> QED
    BY <1>8, <2>1, <2>2 DEF FreeThread, Moves
<1>9. ASSUME FinalDrain PROVE Moves
  <2>1. RcuMove /\ rdPc' = rdPc
    BY <1>9, RrAssumption, CallersDontRead DEF FinalDrain, RcuMove, CallerMove
  <2>2. CpuInv' /\ LifeInv'
    BY <1>9, <2>1 DEF FinalDrain, CpuInv, LifeInv, Cpus
  <2> QED
    BY <1>9, <2>1, <2>2 DEF FinalDrain, Moves
<1>10. ASSUME ReleaseLocks PROVE Moves
  <2>1. RcuMove /\ rdPc' = rdPc
    BY <1>10, BqlMoves DEF ReleaseLocks
  <2>2. CpuInv' /\ LifeInv'
    BY <1>10, <2>1 DEF ReleaseLocks, CpuInv, LifeInv, Cpus
  <2> QED
    BY <1>10, <2>1, <2>2 DEF ReleaseLocks, Moves
<1>11. ASSUME MainUnregister PROVE Moves
  <2>1. RcuMove /\ rdPc'[Rr] = rdPc[Rr]
    BY <1>11, RrAssumption, OthersRead DEF MainUnregister, RcuMove, ReaderMove
  <2>2. CpuInv' /\ LifeInv'
    BY <1>11, <2>1 DEF MainUnregister, CpuInv, LifeInv, Cpus
  <2> QED
    BY <1>11, <2>1, <2>2 DEF MainUnregister, Moves
<1> QED
  BY <1>1, <1>2, <1>3, <1>4, <1>5, <1>6, <1>7, <1>8, <1>9, <1>10, <1>11 DEF MainStep

(* Guest, user and timer.                                                  *)
LEMMA EventMoves ==
  ASSUME IInv,
         \/ KickTimer \/ Resume \/ Pause("pause") \/ Pause("finalPause") \/ MainCallRcu
         \/ \E c \in Cpus : Interrupt(c) \/ QueueWork(c)
  PROVE  Moves
<1> USE DEF IInv, scenario, fixed, cpuVars, rrVars, mainVars, kickVars, MainGoto, MainFree
<1>1. ASSUME KickTimer PROVE Moves
  <2>1. RcuMove /\ rdPc' = rdPc
    BY <1>1, RcuSame DEF KickTimer
  <2>2. exitReq' = exitReq \cup ({current} \ {0}) /\ Nudged
    BY <1>1, CpuExitIs DEF KickTimer, KickNext
  <2>3. LifeInv'
    BY <1>1, <2>1, <2>2, NudgedLife DEF KickTimer
  <2>4. CpuInv'
    BY <1>1, <2>2 DEF KickTimer, Nudged, CpuInv, Cpus
  <2> QED
    BY <1>1, <2>1, <2>3, <2>4 DEF KickTimer, Moves
<1>2. ASSUME Resume PROVE Moves
  <2>1. RcuMove /\ rdPc' = rdPc
    BY <1>2, RcuSame DEF Resume
  <2>2. exitReq' = exitReq \cup Cpus /\ Nudged
    BY <1>2, CpuExitIs DEF Resume
  <2>3. LifeInv'
    BY <1>2, <2>1, <2>2, NudgedLife DEF Resume
  <2>4. CpuInv'
    BY <1>2, <2>2 DEF Resume, Nudged, CpuInv, Cpus
  <2> QED
    BY <1>2, <2>1, <2>3, <2>4 DEF Resume, Moves
<1>3. ASSUME NEW pc \in {"pause", "finalPause"}, Pause(pc) PROVE Moves
  <2>1. RcuMove /\ rdPc' = rdPc
    BY <1>3, BqlMoves DEF Pause
  <2>2. exitReq' = exitReq \cup Cpus /\ Nudged
    BY <1>3, CpuExitIs DEF Pause
  <2>3. LifeInv'
    BY <1>3, <2>1, <2>2, NudgedLife DEF Pause
  <2>4. CpuInv'
    BY <1>3, <2>2 DEF Pause, Nudged, CpuInv, Cpus
  <2> QED
    BY <1>3, <2>1, <2>3, <2>4 DEF Pause, Moves
<1>4. ASSUME MainCallRcu PROVE Moves
  <2>1. RcuMove /\ rdPc' = rdPc
    BY <1>4, RrAssumption, CallersDontRead DEF MainCallRcu, RcuMove, CallerMove
  <2>2. CpuInv' /\ LifeInv'
    BY <1>4, <2>1 DEF MainCallRcu, CpuInv, LifeInv, Cpus
  <2> QED
    BY <1>4, <2>1, <2>2 DEF MainCallRcu, Moves
<1>5. ASSUME NEW c \in Cpus, Interrupt(c) PROVE Moves
  <2>1. RcuMove /\ rdPc' = rdPc
    BY <1>5, RcuSame DEF Interrupt
  <2>2. exitReq' = exitReq \cup {c} /\ Nudged
    BY <1>5, CpuExitIs DEF Interrupt
  <2>3. LifeInv'
    BY <1>5, <2>1, <2>2, NudgedLife DEF Interrupt
  <2>4. CpuInv'
    BY <1>5, <2>2 DEF Interrupt, Nudged, CpuInv, Cpus
  <2> QED
    BY <1>5, <2>1, <2>3, <2>4 DEF Interrupt, Moves
<1>6. ASSUME NEW c \in Cpus, QueueWork(c) PROVE Moves
  <2>1. RcuMove /\ rdPc' = rdPc
    BY <1>6, RcuSame DEF QueueWork
  <2>2. exitReq' = exitReq \cup {c} /\ Nudged
    BY <1>6, CpuExitIs DEF QueueWork
  <2>3. LifeInv'
    BY <1>6, <2>1, <2>2, NudgedLife DEF QueueWork
  <2>4. CpuInv'
    BY <1>6, <2>2 DEF QueueWork, Nudged, CpuInv, Cpus
  <2> QED
    BY <1>6, <2>1, <2>3, <2>4 DEF QueueWork, Moves
<1> QED
  BY <1>1, <1>2, <1>3, <1>4, <1>5, <1>6

(* RCU's own steps and those of the other threads.                         *)
LEMMA OtherMoves ==
  ASSUME IInv,
         \/ Keeps(SyncStep) \/ Keeps(RcuThread)
         \/ \E u \in Callers : Keeps(CallerStep(u))
         \/ \E t \in Others : Keeps(OtherStarts(t) \/ ReaderStep(t))
  PROVE  Moves
<1>1. UNCHANGED <<scenario, cpuVars, rrVars, mainVars, kickVars>>
  BY DEF Keeps
<1>2. ASSUME NEW t \in Others, OtherStarts(t) \/ ReaderStep(t)
      PROVE  RcuMove /\ rdPc'[Rr] = rdPc[Rr]
  <2>1. t \in Readers /\ t \in Callers /\ t # Rr
    BY RrAssumption DEF Others
  <2>2. ReaderMove(t) \/ CallerMove(t)
    BY <1>2 DEF OtherStarts, ReaderMove, CallerMove
  <2> QED
    BY <2>1, <2>2, OthersRead, CallersDontRead DEF RcuMove, IInv
<1>3. RcuMove /\ rdPc'[Rr] = rdPc[Rr]
  BY <1>2, CallersDontRead DEF Keeps, RcuMove, CallerMove
<1>4. CpuInv' /\ LifeInv' /\ kickPc' = kickPc
  BY <1>1, <1>3 DEF IInv, scenario, fixed, cpuVars, rrVars, mainVars, kickVars, CpuInv, LifeInv,
    Cpus
<1> QED
  BY <1>3, <1>4 DEF Moves

LEMMA MovesKeep ==
  ASSUME IInv, Moves
  PROVE  IInv'
<1>1. RcuInv'
  BY RcuMoveKeeps DEF IInv, Moves
<1>2. KickInv'
  BY ListsKept DEF IInv, Moves, KickInv
<1> QED
  BY <1>1, <1>2 DEF IInv, Moves

(* The force notifier.                                                     *)
LEMMA KickKeeps ==
  ASSUME IInv, KickStep
  PROVE  IInv'
<1> USE DEF IInv, scenario, fixed, cpuVars, rrVars, mainVars, kickVars
<1>1. ASSUME ForceRcu \/ ForceExit \/ ForceCheck PROVE IInv'
  <2>1. UNCHANGED rcuVars
    BY <1>1 DEF ForceRcu, ForceExit, ForceCheck
  <2>2. RcuInv' /\ rdPc' = rdPc /\ syncPc' = syncPc /\ registry' = registry
    BY <2>1, RcuStutters DEF rcuVars, readerVars, syncVars
  <2>3. KickInv'
    BY <1>1, <2>2 DEF ForceRcu, ForceExit, ForceCheck, KickInv
  <2>4. exitReq' \subseteq exitReq \cup ({kickCpu} \ {0}) /\ Nudged
    BY <1>1, CpuExitIs DEF ForceRcu, ForceExit, ForceCheck, Nudged
  <2>5. LifeInv'
    BY <1>1, <2>2, <2>4, NudgedLife DEF ForceRcu, ForceExit, ForceCheck
  <2>6. CpuInv'
    <3>1. /\ kickCpu' \in {kickCpu, current}
          /\ UNCHANGED <<cpus, replay, current, rrCpu, stop, stopped, halted, work, created, alias>>
      BY <1>1 DEF ForceRcu, ForceExit, ForceCheck
    <3>2. exitReq' \subseteq Cpus
      BY <2>4 DEF CpuInv, Cpus
    <3> QED
      BY <2>4, <3>1, <3>2 DEF Nudged, CpuInv, Cpus
  <2> QED
    BY <2>2, <2>3, <2>5, <2>6
<1>2. ASSUME ForceDone PROVE IInv'
  <2>1. RcuInv' /\ rdPc' = rdPc
    BY <1>2, SyncNotifiedKeeps, CallersDontRead DEF ForceDone
  <2>2. CpuInv' /\ LifeInv' /\ KickInv'
    BY <1>2, <2>1 DEF ForceDone, CpuInv, LifeInv, KickInv, Cpus
  <2> QED
    BY <2>1, <2>2
<1> QED
  BY <1>1, <1>2 DEF KickStep

LEMMA NextKeeps ==
  ASSUME IInv, [Next]_vars
  PROVE  IInv'
<1>1. CASE RrStep \/ RrExecHalt \/ RrAfter(TRUE)
  BY <1>1, RrMoves, MovesKeep
<1>2. CASE MainStep
  BY <1>2, MainMoves, MovesKeep
<1>3. CASE KickTimer \/ Resume \/ Pause("pause") \/ Pause("finalPause") \/ MainCallRcu
           \/ \E c \in Cpus : Interrupt(c) \/ QueueWork(c)
  BY <1>3, EventMoves, MovesKeep
<1>4. CASE KickStep
  BY <1>4, KickKeeps
<1>5. CASE \/ Keeps(SyncStep) \/ Keeps(RcuThread)
           \/ \E u \in Callers : Keeps(CallerStep(u))
           \/ \E t \in Others : Keeps(OtherStarts(t) \/ ReaderStep(t))
  BY <1>5, OtherMoves, MovesKeep
<1>6. CASE UNCHANGED vars
  <2>1. UNCHANGED rcuVars
    BY <1>6 DEF vars
  <2>2. RcuInv' /\ rdPc' = rdPc /\ syncPc' = syncPc /\ registry' = registry
    BY <2>1, RcuStutters DEF rcuVars, readerVars, syncVars, IInv
  <2>3. CpuInv' /\ LifeInv' /\ KickInv'
    BY <1>6, <2>2 DEF IInv, vars, scenario, fixed, cpuVars, rrVars, mainVars, kickVars, CpuInv,
      LifeInv,
       KickInv, Cpus
  <2> QED
    BY <2>2, <2>3 DEF IInv
<1> QED
  BY <1>1, <1>2, <1>3, <1>4, <1>5, <1>6 DEF Next, Environment

THEOREM InvariantHolds == Spec => []IInv
<1>1. Init => IInv
  BY InitHolds
<1>2. IInv /\ [Next]_vars => IInv'
  BY NextKeeps
<1> QED
  BY <1>1, <1>2, PTL DEF Spec

-----------------------------------------------------------------------------
LEMMA TypeFollows ==
  ASSUME IInv
  PROVE  TypeOK
<1>1. PICK a, b, d, m \in Int, q \in [Int -> Nodes \cup {Dummy}] : QueueAt(a, b, d, m, q)
  BY DEF IInv, RcuInv, QueueInv
<1>2. /\ head \in Nodes \cup {Dummy} /\ tail \in Nodes \cup {Dummy}
      /\ next \in [Nodes \cup {Dummy} -> Nodes \cup {Dummy, NONE}] /\ next[tail] = NONE
      /\ callCount \in Nat /\ n \in Nat
  BY <1>1 DEF QueueAt, Linked, Covered
<1>3. head \notin ran
  BY <1>1, NodesDiffer DEF QueueAt, Linked, Contents, IInv, RcuInv, CallersInv
<1>4. inDrain \in Nat
  BY CallersFinite, FS_Subset, FS_CardinalityType DEF IInv, RcuInv, CallersInv, Draining
<1>5. /\ bql \in Readers \cup {NONE} /\ registry \cap qsreaders = {}
      /\ registry \cup qsreaders \subseteq Readers /\ ctr \in [Readers -> Nat]
  BY DEF IInv, RcuInv, ReaderInv
<1>6. /\ replay \in {Rr, Main, NONE} /\ current \in 0 .. cpus /\ rrCpu \in 0 .. cpus
      /\ UNION {stop, stopped, halted, work, exitReq, created, alias} \subseteq Cpus
  BY DEF IInv, CpuInv
<1> QED
  BY <1>2, <1>3, <1>4, <1>5, <1>6 DEF TypeOK

(***************************************************************************)
(* The queue of callbacks stays whole, no callback frees what a reader     *)
(* inside its section may still use, and drain_call_rcu returns after the  *)
(* callback that its thread queued before (rcu.c), for any number of       *)
(* threads, vCPUs and grace periods.                                       *)
(***************************************************************************)
THEOREM CallbacksAreInTurn == Spec => []CallbacksInTurn
<1>1. IInv => CallbacksInTurn
  BY TypeFollows DEF IInv, RcuInv, CallersInv, CallInv, CallbacksInTurn
<1> QED
  BY <1>1, InvariantHolds, PTL

(***************************************************************************)
(* RCU's lists name only threads that are there, and a force notifier      *)
(* never kicks a thread whose storage was freed (tcg-accel-ops-rr.c).      *)
(***************************************************************************)
THEOREM KicksAreSafe == Spec => []KickIsSafe
<1>1. IInv => KickIsSafe
  <2> SUFFICES ASSUME IInv PROVE KickIsSafe
    OBVIOUS
  <2>1. \A t \in registry \cup qsreaders : rdPc[t] \in Listed
    BY DEF IInv, RcuInv, ReaderInv
  <2>2. kickPc = "exit" => storage = "live"
    BY <2>1 DEF IInv, KickInv, LifeInv, Listed
  <2> QED
    BY <2>1, <2>2 DEF KickIsSafe, Listed
<1> QED
  BY <1>1, InvariantHolds, PTL
=============================================================================
