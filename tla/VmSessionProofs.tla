--------------------------- MODULE VmSessionProofs ---------------------------
(***************************************************************************)
(* From the start of a VM to its main loop, for every hardware the user    *)
(* may have configured, every image, any timers on the core's lists, any   *)
(* times and any number of starts, faults and requests.  First the main    *)
(* loop of the embedded core: its clock is silent once it was switched     *)
(* off, the poll never sleeps past a timer, the process does not abort on  *)
(* the run state; the same holds of every session that a start of the VM   *)
(* leads to.  Then the starts and the command line they lead to, and last  *)
(* the console: the serial bridge uses only its own descriptor, and no     *)
(* callback is called that the page has replaced (Spec and ConsoleInv are  *)
(* the console's).                                                         *)
(***************************************************************************)
EXTENDS VmSession, Console, SequenceTheorems, WellFoundedInduction, TLAPS

(* Each list holds its armed timers once, and of any two the one in front  *)
(* expires no later.                                                       *)
Sorted(exp, s) == \A i, j \in 1 .. Len(s) : i <= j => exp[s[i]] <= exp[s[j]]
Armed(l) == {t \in Timers : ListOf(t) = l /\ expire[t] # Inactive}
Holds(s, S) == /\ \A i \in 1 .. Len(s) : s[i] \in S
               /\ \A t \in S : \E i \in 1 .. Len(s) : s[i] = t
               /\ \A i, j \in 1 .. Len(s) : s[i] = s[j] => i = j

(* The place of a timer in a list: behind those that expire no later.      *)
IsPlace(exp, s, e, p) ==
  /\ p \in 1 .. Len(s) + 1
  /\ p <= Len(s) => exp[s[p]] > e
  /\ \A j \in 1 .. p - 1 : exp[s[j]] <= e

(* r is s with t at the place p.                                           *)
Inserted(s, p, t, r) ==
  /\ r \in Seq(Timers)
  /\ Len(r) = Len(s) + 1
  /\ \A i \in 1 .. Len(s) + 1 : r[i] = IF i < p THEN s[i] ELSE IF i = p THEN t ELSE s[i - 1]

TimersInv ==
  /\ active \in [Lists -> Seq(Timers)]
  /\ expire \in [Timers -> Inactive .. MaxTime]
  /\ \A l \in Lists : Holds(active[l], Armed(l)) /\ Sorted(expire, active[l])

(* The event of a list is clear exactly while its timers are being run.    *)
DoneInv == \A l \in Lists : done[l] <=> running[l] \in {"no", "reset"}

(* Of the table only these states are reached without a migration.         *)
Reached == {"prelaunch", "running", "debug", "suspended", "io-error", "guest-panicked", "paused"}

RunstateInv ==
  /\ runstate \in Reached
  /\ vmstop \in {"none", "io-error", "guest-panicked"}
  /\ at = "none" => runstate = "prelaunch"
  /\ broken # <<>> => {"suspended"} \cap {broken[1], broken[2]} # {}

(* The places the loop goes on from once the vCPUs are paused.             *)
ThenInv ==
  /\ then \in {"none", "suspend", "suspended", "resetting", "waking", "fill", "dispatch"}
  /\ at \in {"pause", "timersDone", "cpus"} => then # "none"

(* The second part of NoOversleep.                                         *)
SleepInv ==
  at = "poll" /\ ~kicked /\ outside # "notify" /\ enabled /\ active["main"] # <<>> =>
    sleep # Inactive /\ sleep <= expire[Head(active["main"])]

LoopInv == MainLoopTypeOK /\ TimersInv /\ DoneInv /\ ClockSilent /\ RunstateInv /\ ThenInv /\ SleepInv

-----------------------------------------------------------------------------
(* Lists: the least of a set of places, a list without an element and with *)
(* one more.                                                               *)
LEMMA LeastPlace ==
  ASSUME NEW S \in SUBSET Nat, S # {}
  PROVE  \E x \in S : \A y \in S : x <= y
<1> DEFINE R == {ss \in Nat \X Nat : ss[1] < ss[2]}
<1>1. IsWellFoundedOn(R, Nat)
  BY NatLessThanWellFounded, Zenon DEF OpToRel
<1>2. PICK x \in S : \A y \in S : ~ (<<y, x>> \in R)
  <2> HIDE DEF R
  <2>1. QED
    BY <1>1, WFMin
<1>3. ASSUME NEW y \in S  PROVE  x <= y
  <2>1. <<y, x>> \in Nat \X Nat /\ <<y, x>>[1] = y /\ <<y, x>>[2] = x
    OBVIOUS
  <2>2. ~(y < x)
    BY <1>2, <2>1, Zenon
  <2>3. QED
    BY <2>2
<1>4. QED
  BY <1>3

LEMMA RemoveFirstEffect ==
  ASSUME NEW S, NEW s \in Seq(S), NEW e
  PROVE  \/ /\ \A i \in 1 .. Len(s) : s[i] # e
            /\ RemoveFirst(s, e) = s
         \/ \E k \in 1 .. Len(s) :
              /\ s[k] = e
              /\ RemoveFirst(s, e) \in Seq(S)
              /\ Len(RemoveFirst(s, e)) = Len(s) - 1
              /\ \A i \in 1 .. Len(s) - 1 :
                   RemoveFirst(s, e)[i] = IF i < k THEN s[i] ELSE s[i + 1]
<1>1. CASE \A i \in 1 .. Len(s) : s[i] # e
  BY <1>1, Zenon DEF RemoveFirst
<1>2. CASE \E i \in 1 .. Len(s) : s[i] = e
  <2> DEFINE hits == {i \in 1 .. Len(s) : s[i] = e}
             k == SelectInSeq(s, LAMBDA v : v = e)
  <2>1. k = Min(hits)
    BY <1>2 DEF SelectInSeq
  <2>2. k \in hits
    <3>1. hits \in SUBSET Nat /\ hits # {}
      BY <1>2
    <3>2. \E x \in hits : \A y \in hits : x <= y
      BY <3>1, LeastPlace
    <3>3. QED
      BY <2>1, <3>2 DEF Min
  <2>3. RemoveFirst(s, e) = RemoveAt(s, k)
    BY <1>2, Zenon DEF RemoveFirst
  <2> HIDE DEF k
  <2>4. RemoveFirst(s, e) = SubSeq(s, 1, k - 1) \o SubSeq(s, k + 1, Len(s))
    BY <2>3 DEF RemoveAt
  <2> DEFINE front == SubSeq(s, 1, k - 1)  back == SubSeq(s, k + 1, Len(s))
  <2>5. /\ k \in 1 .. Len(s) /\ s[k] = e
        /\ front \in Seq(S) /\ Len(front) = k - 1 /\ \A i \in 1 .. k - 1 : front[i] = s[i]
        /\ back \in Seq(S) /\ Len(back) = Len(s) - k /\ \A i \in 1 .. Len(s) - k : back[i] = s[k + i]
    BY <2>2
  <2> HIDE DEF front, back, hits
  <2>6. /\ front \o back \in Seq(S) /\ Len(front \o back) = Len(s) - 1
        /\ \A i \in 1 .. Len(s) - 1 : (front \o back)[i] = IF i < k THEN front[i] ELSE back[i - (k - 1)]
    <3>1. front \o back \in Seq(S) /\ Len(front \o back) = Len(s) - 1
      <4>1. front \in Seq(S) /\ back \in Seq(S)
        BY <2>5
      <4>2. front \o back \in Seq(S) /\ Len(front \o back) = Len(front) + Len(back)
        BY <4>1
      <4>3. Len(front) = k - 1 /\ Len(back) = Len(s) - k /\ k \in 1 .. Len(s) /\ Len(s) \in Nat
        BY <2>5
      <4>4. QED
        BY <4>2, <4>3
    <3>2. ASSUME NEW i \in 1 .. Len(s) - 1
          PROVE  (front \o back)[i] = IF i < k THEN front[i] ELSE back[i - (k - 1)]
      <4>1. i \in 1 .. Len(front) + Len(back) /\ Len(front) = k - 1
        BY <2>5
      <4>2. front \in Seq(S) /\ back \in Seq(S)
        BY <2>5
      <4>3. (front \o back)[i] = IF i <= Len(front) THEN front[i] ELSE back[i - Len(front)]
        BY <4>1, <4>2
      <4>4. QED
        BY <2>5, <4>1, <4>3
    <3>3. QED
      BY <3>1, <3>2
  <2>7. \A i \in 1 .. Len(s) - 1 : (front \o back)[i] = IF i < k THEN s[i] ELSE s[i + 1]
    BY <2>5, <2>6
  <2>8. QED
    BY <2>4, <2>5, <2>6, <2>7 DEF front, back
<1>3. QED
  BY <1>1, <1>2

LEMMA InsertAtEffect ==
  ASSUME NEW s \in Seq(Timers), NEW t \in Timers, NEW p, p \in 1 .. Len(s) + 1
  PROVE  Inserted(s, p, t, InsertAt(s, p, t))
<1> DEFINE front == SubSeq(s, 1, p - 1)  back == SubSeq(s, p, Len(s))
<1>1. /\ front \in Seq(Timers) /\ Len(front) = p - 1 /\ \A i \in 1 .. p - 1 : front[i] = s[i]
      /\ back \in Seq(Timers) /\ Len(back) = Len(s) - p + 1
      /\ \A i \in 1 .. Len(s) - p + 1 : back[i] = s[p - 1 + i]
  OBVIOUS
<1> DEFINE mid == front \o <<t>>
<1>2. InsertAt(s, p, t) = mid \o back
  BY DEF InsertAt
<1> HIDE DEF front, back
<1>3. mid \in Seq(Timers) /\ Len(mid) = p /\ \A i \in 1 .. p : mid[i] = IF i < p THEN s[i] ELSE t
  BY <1>1
<1> HIDE DEF mid
<1>4. /\ mid \o back \in Seq(Timers) /\ Len(mid \o back) = Len(s) + 1
      /\ \A i \in 1 .. Len(s) + 1 : (mid \o back)[i] = IF i <= p THEN mid[i] ELSE back[i - p]
  BY <1>1, <1>3
<1>5. \A i \in 1 .. Len(s) + 1 : (mid \o back)[i] = IF i < p THEN s[i] ELSE IF i = p THEN t ELSE s[i - 1]
  BY <1>1, <1>3, <1>4
<1>6. QED
  BY <1>2, <1>4, <1>5 DEF Inserted

(* timer_mod_ns_locked finds a place in every list: the first of a timer   *)
(* that expires later, or the end.                                         *)
LEMMA PlaceEffect ==
  ASSUME expire \in [Timers -> Inactive .. MaxTime],
         NEW s \in Seq(Timers), NEW e \in 0 .. MaxTime
  PROVE  IsPlace(expire, s, e, Place(s, e))
<1> DEFINE later == {i \in 1 .. Len(s) + 1 : i <= Len(s) => expire[s[i]] > e}
<1>1. later \in SUBSET Nat /\ Len(s) + 1 \in later
  OBVIOUS
<1>2. PICK p \in later : \A q \in later : p <= q
  <2> HIDE DEF later
  <2>1. QED
    BY <1>1, LeastPlace
<1>3. \A j \in 1 .. p - 1 : expire[s[j]] <= e
  <2> SUFFICES ASSUME NEW j \in 1 .. p - 1  PROVE expire[s[j]] <= e
    OBVIOUS
  <2>1. j \in 1 .. Len(s) /\ j \notin later
    BY <1>2
  <2>2. s[j] \in Timers /\ expire[s[j]] \in Inactive .. MaxTime
    BY <2>1
  <2>3. QED
    BY <2>1, <2>2, TimersAssumption DEF Inactive
<1>4. p \in 1 .. Len(s) + 1 /\ (p <= Len(s) => expire[s[p]] > e)
  BY <1>2
<1>5. QED
  BY <1>3, <1>4 DEF Place, IsPlace
-----------------------------------------------------------------------------
(* A list without one of its timers, and a timer put into its place.       *)
Times == [Timers -> Inactive .. MaxTime]

LEMMA ListWithout ==
  ASSUME NEW exp \in Times, NEW s \in Seq(Timers), NEW S \in SUBSET Timers, Holds(s, S), Sorted(exp, s),
         NEW t
  PROVE  LET r == RemoveFirst(s, t)
         IN  /\ r \in Seq(Timers)
             /\ Holds(r, S \ {t}) /\ Sorted(exp, r)
             /\ r # <<>> => s # <<>> /\ exp[Head(s)] <= exp[Head(r)]
<1> DEFINE r == RemoveFirst(s, t)
<1>2. \A i \in 1 .. Len(s) : s[i] \in Timers /\ exp[s[i]] \in Int
  BY TimersAssumption DEF Times, Inactive
<1>3. CASE r = s /\ \A i \in 1 .. Len(s) : s[i] # t
  <2>1. Holds(s, S \ {t})
    BY <1>3 DEF Holds
  <2>2. s # <<>> => exp[Head(s)] <= exp[Head(s)]
    BY <1>2
  <2>3. QED
    BY <1>3, <2>1, <2>2
<1>4. ASSUME NEW k \in 1 .. Len(s), s[k] = t, r \in Seq(Timers), Len(r) = Len(s) - 1,
             \A i \in 1 .. Len(s) - 1 : r[i] = IF i < k THEN s[i] ELSE s[i + 1]
      PROVE  /\ Holds(r, S \ {t}) /\ Sorted(exp, r)
             /\ r # <<>> => s # <<>> /\ exp[Head(s)] <= exp[Head(r)]
  <2> HIDE DEF r
  <2>1. \A i \in 1 .. Len(r) : r[i] \in S \ {t}
    BY <1>4 DEF Holds
  <2>2. ASSUME NEW u \in S \ {t}  PROVE \E i \in 1 .. Len(r) : r[i] = u
    <3>1. PICK i \in 1 .. Len(s) : s[i] = u
      BY DEF Holds
    <3>2. CASE i < k
      BY <1>4, <3>1, <3>2
    <3>3. CASE i > k
      <4>1. i - 1 \in 1 .. Len(s) - 1 /\ r[i - 1] = s[i]
        BY <1>4, <3>3
      <4>2. QED
        BY <1>4, <3>1, <4>1
    <3>4. QED
      BY <1>4, <3>1, <3>2, <3>3
  <2>3. \A i, j \in 1 .. Len(r) : r[i] = r[j] => i = j
    BY <1>4 DEF Holds
  <2>4. Sorted(exp, r)
    BY <1>4, SMTT(30) DEF Sorted
  <2>5. r # <<>> => s # <<>> /\ exp[Head(s)] <= exp[Head(r)]
    <3> SUFFICES ASSUME r # <<>>  PROVE s # <<>> /\ exp[Head(s)] <= exp[Head(r)]
      OBVIOUS
    <3>1. Len(r) > 0 /\ Head(r) = r[1] /\ Head(s) = s[1] /\ Len(s) > 1
      BY <1>4
    <3>2. r[1] = IF 1 < k THEN s[1] ELSE s[2]
      BY <1>4, <3>1
    <3>3. QED
      BY <1>2, <3>1, <3>2 DEF Sorted
  <2>6. QED
    BY <2>1, <2>2, <2>3, <2>4, <2>5 DEF Holds
<1>5. \/ (\A i \in 1 .. Len(s) : s[i] # t) /\ r = s
      \/ \E k \in 1 .. Len(s) :
           /\ s[k] = t
           /\ r \in Seq(Timers)
           /\ Len(r) = Len(s) - 1
           /\ \A i \in 1 .. Len(s) - 1 : r[i] = IF i < k THEN s[i] ELSE s[i + 1]
  BY RemoveFirstEffect
<1>6. QED
  BY <1>3, <1>4, <1>5

LEMMA ListWith ==
  ASSUME NEW exp \in Times, NEW s \in Seq(Timers), NEW S \in SUBSET Timers, Holds(s, S), Sorted(exp, s),
         NEW t \in Timers \ S, NEW e \in 0 .. MaxTime,
         NEW p, IsPlace(exp, s, e, p), NEW r, Inserted(s, p, t, r), NEW new, new = [exp EXCEPT ![t] = e]
  PROVE  /\ r \in Seq(Timers) /\ r # <<>>
         /\ Holds(r, S \cup {t}) /\ Sorted(new, r)
<1>1. p \in 1 .. Len(s) + 1 /\ (p <= Len(s) => exp[s[p]] > e) /\ \A j \in 1 .. p - 1 : exp[s[j]] <= e
  BY DEF IsPlace
<1>2. /\ r \in Seq(Timers) /\ Len(r) = Len(s) + 1
      /\ \A i \in 1 .. Len(s) + 1 : r[i] = IF i < p THEN s[i] ELSE IF i = p THEN t ELSE s[i - 1]
  BY DEF Inserted
<1>10. p \in Nat /\ Len(s) \in Nat /\ Len(r) = Len(s) + 1 /\ r[p] = t /\ p \in 1 .. Len(r)
  BY <1>1, <1>2
<1>11. \A i \in 1 .. Len(r) : i # p =>
         \E k \in 1 .. Len(s) : r[i] = s[k] /\ (i < p => k = i) /\ (i > p => k = i - 1)
  BY <1>1, <1>2
<1>12. \A k \in 1 .. Len(s) : \E i \in 1 .. Len(r) : r[i] = s[k]
  <2> SUFFICES ASSUME NEW k \in 1 .. Len(s)  PROVE \E i \in 1 .. Len(r) : r[i] = s[k]
    OBVIOUS
  <2>1. CASE k < p
    <3>1. k \in 1 .. Len(s) + 1 /\ r[k] = s[k]
      BY <1>1, <1>2, <2>1
    <3>2. QED
      BY <1>2, <3>1
  <2>2. CASE k >= p
    <3>1. k + 1 \in 1 .. Len(s) + 1 /\ r[k + 1] = s[k]
      BY <1>1, <1>2, <2>2
    <3>2. QED
      BY <1>2, <3>1
  <2>3. QED
    BY <1>10, <2>1, <2>2
<1>3. \A i \in 1 .. Len(s) : s[i] \in S /\ s[i] # t /\ new[s[i]] = exp[s[i]] /\ exp[s[i]] \in Int
  BY TimersAssumption DEF Holds, Inactive, Times
<1>4. new[t] = e
  BY DEF Times
<1>5. \A i \in 1 .. Len(s) : i >= p => exp[s[i]] > e
  <2> SUFFICES ASSUME NEW i \in 1 .. Len(s), i >= p  PROVE exp[s[i]] > e
    OBVIOUS
  <2>1. p \in 1 .. Len(s) /\ exp[s[p]] <= exp[s[i]] /\ exp[s[p]] > e
    BY <1>1 DEF Sorted
  <2>2. QED
    BY <1>3, <2>1
<1>6. Holds(r, S \cup {t})
  <2>1. \A i \in 1 .. Len(r) : r[i] \in S \cup {t}
    BY <1>3, <1>10, <1>11
  <2>2. ASSUME NEW u \in S \cup {t}  PROVE \E i \in 1 .. Len(r) : r[i] = u
    <3>1. CASE u = t
      BY <1>10, <3>1
    <3>2. CASE u # t
      <4>1. PICK k \in 1 .. Len(s) : s[k] = u
        BY <3>2 DEF Holds
      <4>2. QED
        BY <1>12, <4>1
    <3>3. QED
      BY <3>1, <3>2
  <2>3. ASSUME NEW i \in 1 .. Len(r), NEW j \in 1 .. Len(r), r[i] = r[j]
        PROVE  i = j
    <3>1. (i = p) <=> (j = p)
      <4>1. i # p => r[i] # t
        BY <1>3, <1>11
      <4>2. j # p => r[j] # t
        BY <1>3, <1>11
      <4>3. QED
        BY <1>10, <2>3, <4>1, <4>2
    <3>2. CASE i # p /\ j # p
      <4>1. PICK k \in 1 .. Len(s) : r[i] = s[k] /\ (i < p => k = i) /\ (i > p => k = i - 1)
        BY <1>11, <3>2
      <4>2. PICK m \in 1 .. Len(s) : r[j] = s[m] /\ (j < p => m = j) /\ (j > p => m = j - 1)
        BY <1>11, <3>2
      <4>3. k = m
        BY <2>3, <4>1, <4>2 DEF Holds
      <4>4. CASE (i < p <=> j < p)
        BY <1>10, <3>2, <4>1, <4>2, <4>3, <4>4
      <4>5. CASE i < p /\ j > p
        BY <1>10, <3>2, <4>1, <4>2, <4>3, <4>5
      <4>6. CASE j < p /\ i > p
        BY <1>10, <3>2, <4>1, <4>2, <4>3, <4>6
      <4>7. QED
        BY <1>10, <3>2, <4>4, <4>5, <4>6
    <3>3. QED
      BY <3>1, <3>2
  <2>4. QED
    BY <2>1, <2>2, <2>3 DEF Holds
<1>7. Sorted(new, r)
  <2>1. ASSUME NEW i \in 1 .. Len(r), NEW j \in 1 .. Len(r), i <= j
        PROVE  new[r[i]] <= new[r[j]]
    <3>1. CASE i = p /\ j = p
      BY <1>4, <1>10, <3>1
    <3>2. CASE i # p /\ j = p
      <4>1. i \in 1 .. p - 1 /\ i \in 1 .. Len(s) /\ r[i] = s[i]
        BY <1>10, <1>11, <2>1, <3>2
      <4>2. QED
        BY <1>1, <1>3, <1>4, <1>10, <3>2, <4>1
    <3>3. CASE i = p /\ j # p
      <4>1. j - 1 \in 1 .. Len(s) /\ j - 1 >= p /\ r[j] = s[j - 1]
        BY <1>10, <1>11, <2>1, <3>3
      <4>2. exp[s[j - 1]] > e
        BY <1>5, <4>1
      <4>3. QED
        BY <1>3, <1>4, <1>10, <3>3, <4>1, <4>2
    <3>4. CASE i # p /\ j # p
      <4>1. PICK k \in 1 .. Len(s) : r[i] = s[k] /\ (i < p => k = i) /\ (i > p => k = i - 1)
        BY <1>11, <3>4
      <4>2. PICK m \in 1 .. Len(s) : r[j] = s[m] /\ (j < p => m = j) /\ (j > p => m = j - 1)
        BY <1>11, <3>4
      <4>3. k <= m
        BY <1>10, <2>1, <3>4, <4>1, <4>2
      <4>4. QED
        BY <1>3, <4>1, <4>2, <4>3 DEF Sorted
    <3>5. QED
      BY <3>1, <3>2, <3>3, <3>4
  <2>2. QED
    BY <2>1 DEF Sorted
<1>9. QED
  BY <1>2, <1>6, <1>7

LEMMA ListTail ==
  ASSUME NEW exp \in Times, NEW s \in Seq(Timers), NEW S \in SUBSET Timers, Holds(s, S), Sorted(exp, s), s # <<>>
  PROVE  LET new == [exp EXCEPT ![Head(s)] = Inactive]
         IN  /\ Head(s) \in S
             /\ Tail(s) \in Seq(Timers)
             /\ Holds(Tail(s), S \ {Head(s)}) /\ Sorted(new, Tail(s))
<1> DEFINE r == Tail(s)  new == [exp EXCEPT ![Head(s)] = Inactive]
<1>1. Len(s) > 0 /\ r \in Seq(Timers) /\ Len(r) = Len(s) - 1 /\ Head(s) = s[1] /\ s[1] \in S
  BY DEF Holds
<1>2. \A i \in 1 .. Len(r) : r[i] = s[i + 1]
  BY <1>1
<1> HIDE DEF r
<1>3. \A i \in 1 .. Len(r) : i + 1 \in 1 .. Len(s) /\ s[i + 1] \in S \ {Head(s)}
  BY <1>1 DEF Holds
<1>4. ASSUME NEW u \in S \ {Head(s)}  PROVE \E i \in 1 .. Len(r) : r[i] = u
  <2>1. PICK i \in 1 .. Len(s) : s[i] = u
    BY DEF Holds
  <2>2. i - 1 \in 1 .. Len(r) /\ r[i - 1] = u
    BY <1>1, <1>2, <2>1
  <2>3. QED
    BY <2>2
<1>5. \A i, j \in 1 .. Len(r) : r[i] = r[j] => i = j
  BY <1>1, <1>2, <1>3 DEF Holds
<1>6. \A i \in 1 .. Len(r) : new[r[i]] = exp[s[i + 1]]
  BY <1>2, <1>3 DEF Times
<1> HIDE DEF new
<1>7. Sorted(new, r)
  BY <1>1, <1>3, <1>6, SMTT(30) DEF Sorted
<1>8. QED
  BY <1>1, <1>2, <1>3, <1>4, <1>5, <1>7 DEF Holds, r, new

-----------------------------------------------------------------------------
(* What arming, deleting and taking a timer does to the two lists.         *)
(* The head of the list the loop sleeps on is the old one or a later one.  *)
HeadDelayed ==
  active'["main"] # <<>> =>
    active["main"] # <<>> /\ expire[Head(active["main"])] <= expire'[Head(active'["main"])]

(* A step that changes the list of one timer only.                         *)
LEMMA OneListChanges ==
  ASSUME TimersInv, NEW t \in Timers, NEW s \in Seq(Timers), NEW e \in Inactive .. MaxTime,
         expire' = [expire EXCEPT ![t] = e],
         active' = [l \in Lists |-> IF l = ListOf(t) THEN s ELSE active[l]],
         Holds(s, IF e = Inactive THEN Armed(ListOf(t)) \ {t} ELSE (Armed(ListOf(t)) \ {t}) \cup {t}),
         Sorted(expire', s)
  PROVE  /\ TimersInv'
         /\ ListOf(t) # "main" => HeadDelayed
<1>1. active' \in [Lists -> Seq(Timers)] /\ expire' \in [Timers -> Inactive .. MaxTime]
  BY DEF TimersInv
<1>2. \A u \in Timers : expire'[u] = IF u = t THEN e ELSE expire[u]
  BY DEF TimersInv
<1>3. ASSUME NEW l \in Lists, l = ListOf(t)
      PROVE  Holds(active'[l], Armed(l)') /\ Sorted(expire', active'[l])
  <2>1. active'[l] = s
    BY <1>3
  <2>2. Armed(l)' = IF e = Inactive THEN Armed(l) \ {t} ELSE (Armed(l) \ {t}) \cup {t}
    BY <1>2, <1>3 DEF Armed, ListOf
  <2>3. QED
    BY <1>3, <2>1, <2>2
<1>4. ASSUME NEW l \in Lists, l # ListOf(t)
      PROVE  /\ active'[l] = active[l]
             /\ \A i \in 1 .. Len(active[l]) : active[l][i] \in Timers /\ expire'[active[l][i]] = expire[active[l][i]]
             /\ Holds(active'[l], Armed(l)') /\ Sorted(expire', active'[l])
  <2>1. active'[l] = active[l]
    BY <1>4
  <2>2. Armed(l)' = Armed(l)
    BY <1>2, <1>4 DEF Armed, ListOf
  <2>3. \A i \in 1 .. Len(active[l]) : active[l][i] \in Armed(l)
    BY DEF TimersInv, Holds
  <2>4. \A u \in Armed(l) : u \in Timers /\ u # t
    BY <1>4 DEF Armed
  <2>5. \A i \in 1 .. Len(active[l]) : active[l][i] \in Timers /\ expire'[active[l][i]] = expire[active[l][i]]
    BY <1>2, <2>3, <2>4
  <2>6. Sorted(expire', active'[l])
    <3>1. Sorted(expire, active[l])
      BY DEF TimersInv
    <3>2. QED
      BY <2>1, <2>5, <3>1 DEF Sorted
  <2>7. QED
    BY <2>1, <2>2, <2>5, <2>6 DEF TimersInv
<1>5. TimersInv'
  <2>1. \A l \in Lists : Holds(active'[l], Armed(l)') /\ Sorted(expire', active'[l])
    BY <1>3, <1>4
  <2>2. QED
    BY <1>1, <2>1 DEF TimersInv
<1>6. ASSUME ListOf(t) # "main"  PROVE HeadDelayed
  <2>1. active'["main"] = active["main"] /\ active["main"] \in Seq(Timers)
    BY <1>4, <1>6 DEF Lists, TimersInv
  <2>2. ASSUME active["main"] # <<>>
        PROVE  expire[Head(active["main"])] <= expire'[Head(active'["main"])]
    <3>1. Len(active["main"]) > 0 /\ Head(active["main"]) = active["main"][1]
      BY <2>1, <2>2
    <3>2. 1 \in 1 .. Len(active["main"])
      BY <2>1, <3>1
    <3>3. /\ Head(active["main"]) \in Timers
          /\ expire'[Head(active["main"])] = expire[Head(active["main"])]
      BY <1>4, <1>6, <3>1, <3>2 DEF Lists
    <3>4. expire[Head(active["main"])] \in Int
      BY <3>3, TimersAssumption DEF TimersInv, Inactive
    <3>5. QED
      BY <2>1, <3>3, <3>4
  <2>3. QED
    BY <2>1, <2>2 DEF HeadDelayed
<1>7. QED
  BY <1>5, <1>6

LEMMA ListOfType == \A t \in Timers : ListOf(t) \in Lists /\ (ListOf(t) \in {"main", "io"})
  BY DEF ListOf, Lists

LEMMA TimerModEffect ==
  ASSUME TimersInv, NEW t \in Timers, NEW e \in 0 .. MaxTime, TimerMod(t, e)
  PROVE  /\ TimersInv'
         /\ ~(ListOf(t) = "main" /\ TimerModRearms(t, e)) => HeadDelayed
<1> DEFINE l == ListOf(t)
           s == active[l]
           r == RemoveFirst(s, t)
<1>1. l \in Lists /\ s \in Seq(Timers) /\ Holds(s, Armed(l)) /\ Sorted(expire, s) /\ Armed(l) \in SUBSET Timers
  BY ListOfType DEF TimersInv, Armed
<1>2. expire \in Times
  BY DEF TimersInv, Times
<1>3. Without(t) = [active EXCEPT ![l] = r] /\ Without(t)[l] = r
  BY <1>1 DEF Without, TimersInv
<1>4. /\ active' = [m \in Lists |-> IF m = l THEN InsertAt(r, Place(r, e), t) ELSE active[m]]
      /\ expire' = [expire EXCEPT ![t] = e]
      /\ TimerModRearms(t, e) <=> Place(r, e) = 1
  BY <1>1, <1>3 DEF TimerMod, ModLocked, TimersInv, TimerModRearms, NewHead
<1> HIDE DEF l, s
<1>7. /\ r \in Seq(Timers) /\ Holds(r, Armed(l) \ {t}) /\ Sorted(expire, r)
      /\ r # <<>> => s # <<>> /\ expire[Head(s)] <= expire[Head(r)]
  BY <1>1, <1>2, ListWithout
<1>5. IsPlace(expire, r, e, Place(r, e))
  BY <1>2, <1>7, PlaceEffect DEF Times
<1>6. Place(r, e) \in 1 .. Len(r) + 1
  BY <1>5 DEF IsPlace
<1> HIDE DEF r
<1> DEFINE p == Place(r, e)
           n == InsertAt(r, p, t)
<1>8. IsPlace(expire, r, e, p) /\ Inserted(r, p, t, n)
  BY <1>5, <1>6, <1>7, InsertAtEffect
<1> HIDE DEF n
<1>9. /\ n \in Seq(Timers) /\ n # <<>>
      /\ Holds(n, (Armed(l) \ {t}) \cup {t}) /\ Sorted(expire', n)
      /\ p # 1 => r # <<>> /\ Head(n) = Head(r) /\ expire'[Head(n)] = expire[Head(r)]
  <2> DEFINE S == Armed(l) \ {t}
             new == [expire EXCEPT ![t] = e]
  <2>1. S \in SUBSET Timers /\ t \in Timers \ S /\ Holds(r, S)
    BY <1>1, <1>7
  <2>2. new = [expire EXCEPT ![t] = e]
    OBVIOUS
  <2> HIDE DEF S, new, p
  <2>3. n \in Seq(Timers) /\ n # <<>> /\ Holds(n, S \cup {t}) /\ Sorted(new, n)
    BY <1>2, <1>7, <1>8, <2>1, <2>2, ListWith
  <2>4. r # <<>> => Head(r) = r[1] /\ r[1] \in S
    <3>1. r # <<>> => 1 \in 1 .. Len(r)
      BY <1>7
    <3>2. QED
      BY <1>7, <2>1, <3>1 DEF Holds
  <2>5. p # 1 => r # <<>> /\ Head(n) = Head(r)
    <3>1. p # 1 => Len(r) > 0 /\ n[1] = r[1]
      BY <1>6, <1>7, <1>8 DEF Inserted, p
    <3>2. QED
      BY <1>7, <2>3, <3>1
  <2>6. QED
    BY <1>2, <1>4, <2>1, <2>3, <2>4, <2>5 DEF S, new, Times
<1>10. e \in Inactive .. MaxTime /\ e # Inactive
  BY TimersAssumption DEF Inactive
<1>11. TimersInv' /\ (l # "main" => HeadDelayed)
  BY <1>4, <1>8, <1>9, <1>10, OneListChanges DEF l, n, p
<1>12. ASSUME l = "main", p # 1  PROVE HeadDelayed
  <2>1. active'["main"] = n /\ active["main"] = s
    BY <1>1, <1>4, <1>12 DEF s, n
  <2>2. s # <<>> /\ expire[Head(s)] <= expire'[Head(n)]
    BY <1>7, <1>9, <1>12
  <2>3. QED
    BY <2>1, <2>2 DEF HeadDelayed
<1>13. QED
  BY <1>4, <1>8, <1>11, <1>12 DEF l

LEMMA TimerDelEffect ==
  ASSUME TimersInv, NEW t \in Timers, TimerDel(t)
  PROVE  TimersInv' /\ HeadDelayed
<1> DEFINE l == ListOf(t)
           s == active[l]
           r == RemoveFirst(s, t)
<1>1. l \in Lists /\ s \in Seq(Timers) /\ Holds(s, Armed(l)) /\ Sorted(expire, s) /\ Armed(l) \in SUBSET Timers
  BY ListOfType DEF TimersInv, Armed
<1>2. expire \in Times /\ expire' = [expire EXCEPT ![t] = Inactive]
  BY DEF TimersInv, Times, TimerDel
<1>3. active' = [m \in Lists |-> IF m = l THEN r ELSE active[m]]
  BY DEF TimerDel, Without, TimersInv
<1> HIDE DEF l, s
<1>4. /\ r \in Seq(Timers) /\ Holds(r, Armed(l) \ {t}) /\ Sorted(expire, r)
      /\ r # <<>> => s # <<>> /\ expire[Head(s)] <= expire[Head(r)]
  BY <1>1, <1>2, ListWithout
<1> HIDE DEF r
<1>5. \A i \in 1 .. Len(r) : r[i] \in Timers /\ expire'[r[i]] = expire[r[i]]
  BY <1>1, <1>2, <1>4 DEF Holds, Times
<1>6. Sorted(expire', r)
  BY <1>4, <1>5 DEF Sorted
<1>7. TimersInv' /\ (l # "main" => HeadDelayed)
  <2>1. Inactive \in Inactive .. MaxTime
    BY TimersAssumption DEF Inactive
  <2>2. QED
    BY <1>2, <1>3, <1>4, <1>6, <2>1, OneListChanges DEF l
<1>8. ASSUME l = "main"  PROVE HeadDelayed
  <2>1. active'["main"] = r /\ active["main"] = s
    BY <1>1, <1>3, <1>8 DEF s
  <2>2. r # <<>> => expire'[Head(r)] = expire[Head(r)]
    BY <1>4, <1>5
  <2>3. QED
    BY <1>4, <2>1, <2>2 DEF HeadDelayed
<1>9. QED
  BY <1>7, <1>8

LEMMA RunTakesEffect ==
  ASSUME TimersInv, NEW l \in Lists, RunTakes(l)
  PROVE  TimersInv' /\ (l # "main" => HeadDelayed)
<1> DEFINE s == active[l]
           t == Head(s)
           r == Tail(s)
<1>1. /\ s # <<>> /\ s \in Seq(Timers) /\ Holds(s, Armed(l)) /\ Sorted(expire, s) /\ Armed(l) \in SUBSET Timers
      /\ expire \in Times
  BY DEF TimersInv, Armed, RunTakes, Expired, Times
<1>2. active' = [active EXCEPT ![l] = r] /\ expire' = [expire EXCEPT ![t] = Inactive]
  BY DEF RunTakes
<1>3. active' = [m \in Lists |-> IF m = l THEN r ELSE active[m]]
  BY <1>2 DEF TimersInv
<1>4. t \in Armed(l) /\ r \in Seq(Timers) /\ Holds(r, Armed(l) \ {t}) /\ Sorted(expire', r)
  <2> HIDE DEF s
  <2>1. QED
    BY <1>1, <1>2, ListTail
<1>5. t \in Timers /\ ListOf(t) = l
  BY <1>4 DEF Armed
<1>6. Inactive \in Inactive .. MaxTime
  BY TimersAssumption DEF Inactive
<1> HIDE DEF r, t, s
<1>7. QED
  BY <1>2, <1>3, <1>4, <1>5, <1>6, OneListChanges

-----------------------------------------------------------------------------
(* What a step of the loop, or of a thread beside it, may do.              *)
MainNext == MainLoopNext \/ MainLoopEnters \/ MainLoopEntersStopped

(* While the loop polls, nobody changes when the poll ends, and a           *)
(* notification is not taken back.                                         *)
LEMMA PollKept ==
  ASSUME MainNext, at = "poll", at' = "poll"
  PROVE  sleep' = sleep /\ enabled' = enabled /\ (outside = "notify" /\ outside' # "notify" => kicked')
<1> DEFINE Goal == sleep' = sleep /\ enabled' = enabled /\ (outside = "notify" /\ outside' # "notify" => kicked')
<1> USE DEF timerVars, loopVars, RunstateSet, VmStop, Resume, PauseThen, Clear, Skip, Request,
  Event, Point,
            ClockUnchanged, Quiet
<1>1. CASE LoopProceeds
  BY <1>1 DEF LoopProceeds, LoopDisablesClock, ClockIsOff, TimersDone, CpusPaused,
    NothingRequested, LoopDebugs,
           LoopSuspends, LoopSuspended, LoopShutsDown, LoopResets, LoopReset, LoopWakes, LoopWoken,
           LoopPowersDown, LoopStops, LoopFills, PollReturns, LoopDispatches, LoopRunsTimers, LoopRunsTimersOn
<1>2. CASE OutsideProceeds \/ IoThread \/ Clock \/ CallbackActs \/ GuestPanics \/ WakeupRequest
  BY <1>2 DEF OutsideProceeds, OutsideStops, OutsideNotifies, IoThread, Clock, CallbackActs,
    GuestPanics, WakeupRequest,
           RunTimers, RunStep, RunResets, RunTakes, RunChecks, RunFinds, RunSets, CallbackReturns, Tick
<1>3. ASSUME NEW r, GuestRequests(r) \/ QmpRequests(r)  PROVE Goal
  BY <1>3 DEF GuestRequests, QmpRequests
<1>4. ASSUME NEW t, DeviceDeletes(t)  PROVE Goal
  BY <1>4 DEF DeviceDeletes
<1>5. ASSUME NEW t, NEW e, NEW a, DeviceArms(t, e) \/ OutsideArms(t, e, a)  PROVE Goal
  BY <1>5 DEF DeviceArms, OutsideArms
<1>6. CASE OutsideShutsDown \/ OutsidePrepares \/ QmpArrives \/ QmpStops \/ QmpContinues
  BY <1>6 DEF OutsideShutsDown, OutsidePrepares, QmpArrives, QmpStops, QmpContinues
<1>7. CASE MainLoopEnters \/ MainLoopEntersStopped
  BY <1>7 DEF MainLoopEnters, MainLoopEntersStopped
<1>8. QED
  BY <1>1, <1>2, <1>3, <1>4, <1>5, <1>6, <1>7, Zenon DEF MainNext, MainLoopNext

LEMMA KickKept ==
  ASSUME MainNext, at = "poll", at' = "poll", kicked
  PROVE  kicked'
<1> DEFINE Goal == kicked'
<1> USE DEF timerVars, loopVars, Skip, Request, Point, ClockUnchanged, Quiet
<1>1. CASE LoopProceeds
  BY <1>1 DEF LoopProceeds, LoopDisablesClock, ClockIsOff, TimersDone, CpusPaused,
    NothingRequested, LoopDebugs,
           LoopSuspends, LoopSuspended, LoopShutsDown, LoopResets, LoopReset, LoopWakes, LoopWoken,
           LoopPowersDown, LoopStops, LoopFills, PollReturns, LoopDispatches, LoopRunsTimers, LoopRunsTimersOn
<1>2. CASE OutsideProceeds \/ Clock \/ CallbackActs
  BY <1>2 DEF OutsideProceeds, OutsideStops, OutsideNotifies, Clock, CallbackActs, Tick
<1>3. CASE IoThread
  BY <1>3 DEF IoThread, RunTimers, RunStep, RunResets, RunTakes, RunChecks, RunFinds, RunSets,
    CallbackReturns
<1>4. CASE GuestPanics \/ WakeupRequest
  BY <1>4, Zenon DEF GuestPanics, WakeupRequest
<1>5. ASSUME NEW r, GuestRequests(r) \/ QmpRequests(r)  PROVE Goal
  BY <1>5, Zenon DEF GuestRequests, QmpRequests
<1>6. ASSUME NEW t, DeviceDeletes(t)  PROVE Goal
  BY <1>6 DEF DeviceDeletes
<1>7. ASSUME NEW t, NEW e, NEW a, DeviceArms(t, e) \/ OutsideArms(t, e, a)  PROVE Goal
  BY <1>7, Zenon DEF DeviceArms, OutsideArms
<1>8. CASE OutsideShutsDown \/ OutsidePrepares \/ QmpArrives \/ QmpStops \/ QmpContinues
  BY <1>8 DEF OutsideShutsDown, OutsidePrepares, QmpArrives, QmpStops, QmpContinues
<1>9. CASE MainLoopEnters \/ MainLoopEntersStopped
  BY <1>9 DEF MainLoopEnters, MainLoopEntersStopped
<1>10. QED
  BY <1>1, <1>2, <1>3, <1>4, <1>5, <1>6, <1>7, <1>8, <1>9, Zenon DEF MainNext, MainLoopNext

(* The loop polls only after it has looked at the deadline.                *)
LEMMA PollEntered ==
  ASSUME MainNext, ThenInv, at # "poll", at' = "poll"
  PROVE  LoopFills
<1> DEFINE Goal == LoopFills
<1> USE DEF timerVars, loopVars, RunstateSet, VmStop, Resume, PauseThen, Clear, Skip, Request,
  Event, Point,
            ClockUnchanged, Quiet
<1>1. CASE LoopProceeds
  BY <1>1 DEF LoopProceeds, LoopDisablesClock, ClockIsOff, TimersDone, CpusPaused,
    NothingRequested, LoopDebugs,
           LoopSuspends, LoopSuspended, LoopShutsDown, LoopResets, LoopReset, LoopWakes, LoopWoken,
           LoopPowersDown, LoopStops, LoopFills, PollReturns, LoopDispatches, LoopRunsTimers, LoopRunsTimersOn, ThenInv
<1>2. CASE OutsideProceeds \/ IoThread \/ Clock \/ CallbackActs \/ GuestPanics \/ WakeupRequest
  BY <1>2 DEF OutsideProceeds, OutsideStops, OutsideNotifies, IoThread, Clock, CallbackActs,
    GuestPanics, WakeupRequest,
           RunTimers, RunStep, RunResets, RunTakes, RunChecks, RunFinds, RunSets, CallbackReturns, Tick
<1>3. ASSUME NEW r, GuestRequests(r) \/ QmpRequests(r)  PROVE Goal
  BY <1>3 DEF GuestRequests, QmpRequests
<1>4. ASSUME NEW t, DeviceDeletes(t)  PROVE Goal
  BY <1>4 DEF DeviceDeletes
<1>5. ASSUME NEW t, NEW e, NEW a, DeviceArms(t, e) \/ OutsideArms(t, e, a)  PROVE Goal
  BY <1>5 DEF DeviceArms, OutsideArms
<1>6. CASE OutsideShutsDown \/ OutsidePrepares \/ QmpArrives \/ QmpStops \/ QmpContinues
  BY <1>6 DEF OutsideShutsDown, OutsidePrepares, QmpArrives, QmpStops, QmpContinues
<1>7. CASE MainLoopEnters \/ MainLoopEntersStopped
  BY <1>7 DEF MainLoopEnters, MainLoopEntersStopped
<1>8. QED
  BY <1>1, <1>2, <1>3, <1>4, <1>5, <1>6, <1>7, Zenon DEF MainNext, MainLoopNext

(* The clock is switched off by the loop alone, which then waits until no  *)
(* list is being run.                                                      *)
LEMMA ClockStaysOn ==
  ASSUME MainNext, enabled, at' # "timersDone"
  PROVE  enabled'
<1> DEFINE Goal == enabled'
<1> USE DEF timerVars, loopVars, Resume, Skip, Clear, PauseThen, Request, Point, ClockUnchanged,
  Quiet
<1>1. CASE LoopReset \/ LoopWoken
  BY <1>1, Zenon DEF LoopReset, LoopWoken
<1>2. CASE QmpContinues
  BY <1>2, Zenon DEF QmpContinues
<1>3. CASE MainLoopEnters \/ MainLoopEntersStopped
  BY <1>3, Zenon DEF MainLoopEnters, MainLoopEntersStopped
<1>4. CASE /\ LoopProceeds
           /\ ~(LoopReset \/ LoopWoken)
  BY <1>4 DEF LoopProceeds, LoopDisablesClock, ClockIsOff, TimersDone, CpusPaused,
    NothingRequested, LoopDebugs,
           LoopSuspends, LoopSuspended, LoopShutsDown, LoopResets, LoopWakes,
           LoopPowersDown, LoopStops, LoopFills, PollReturns, LoopDispatches, LoopRunsTimers, LoopRunsTimersOn,
           RunTimers, RunStep, RunResets, RunTakes, RunChecks, RunFinds, RunSets, CallbackReturns
<1>5. CASE OutsideProceeds \/ IoThread \/ Clock \/ CallbackActs \/ GuestPanics \/ WakeupRequest
  BY <1>5 DEF OutsideProceeds, OutsideStops, OutsideNotifies, IoThread, Clock, CallbackActs,
    GuestPanics, WakeupRequest,
           RunTimers, RunStep, RunResets, RunTakes, RunChecks, RunFinds, RunSets, CallbackReturns, Tick
<1>6. ASSUME NEW r, GuestRequests(r) \/ QmpRequests(r)  PROVE Goal
  BY <1>6 DEF GuestRequests, QmpRequests
<1>7. ASSUME NEW t, DeviceDeletes(t)  PROVE Goal
  BY <1>7 DEF DeviceDeletes
<1>8. ASSUME NEW t, NEW e, NEW a, DeviceArms(t, e) \/ OutsideArms(t, e, a)  PROVE Goal
  BY <1>8 DEF DeviceArms, OutsideArms
<1>9. CASE OutsideShutsDown \/ OutsidePrepares \/ QmpArrives \/ QmpStops
  BY <1>9 DEF OutsideShutsDown, OutsidePrepares, QmpArrives, QmpStops
<1>10. QED
  BY <1>1, <1>2, <1>3, <1>4, <1>5, <1>6, <1>7, <1>8, <1>9, Zenon DEF MainNext, MainLoopNext

LEMMA ClockSwitched ==
  ASSUME MainNext
  PROVE  at = "timersDone" /\ at' # "timersDone" => TimersDone
<1> DEFINE Goal == at = "timersDone" /\ at' # "timersDone" => TimersDone
<1> USE DEF timerVars, loopVars, RunstateSet, VmStop, Resume, PauseThen, Clear, Skip, Request,
  Event, Point,
            ClockUnchanged, Quiet
<1>1. CASE LoopProceeds
  BY <1>1 DEF LoopProceeds, LoopDisablesClock, ClockIsOff, TimersDone, CpusPaused,
    NothingRequested, LoopDebugs,
           LoopSuspends, LoopSuspended, LoopShutsDown, LoopResets, LoopReset, LoopWakes, LoopWoken,
           LoopPowersDown, LoopStops, LoopFills, PollReturns, LoopDispatches, LoopRunsTimers, LoopRunsTimersOn
<1>2. CASE OutsideProceeds \/ IoThread \/ Clock \/ CallbackActs \/ GuestPanics \/ WakeupRequest
  BY <1>2 DEF OutsideProceeds, OutsideStops, OutsideNotifies, IoThread, Clock, CallbackActs,
    GuestPanics, WakeupRequest,
           RunTimers, RunStep, RunResets, RunTakes, RunChecks, RunFinds, RunSets, CallbackReturns, Tick, Unlocked
<1>3. ASSUME NEW r, GuestRequests(r) \/ QmpRequests(r)  PROVE Goal
  BY <1>3 DEF GuestRequests, QmpRequests
<1>4. ASSUME NEW t, DeviceDeletes(t)  PROVE Goal
  BY <1>4 DEF DeviceDeletes
<1>5. ASSUME NEW t, NEW e, NEW a, DeviceArms(t, e) \/ OutsideArms(t, e, a)  PROVE Goal
  BY <1>5 DEF DeviceArms, OutsideArms
<1>6. CASE OutsideShutsDown \/ OutsidePrepares \/ QmpArrives \/ QmpStops \/ QmpContinues
  BY <1>6 DEF OutsideShutsDown, OutsidePrepares, QmpArrives, QmpStops, QmpContinues, Live
<1>7. CASE MainLoopEnters \/ MainLoopEntersStopped
  BY <1>7 DEF MainLoopEnters, MainLoopEntersStopped
<1>8. QED
  BY <1>1, <1>2, <1>3, <1>4, <1>5, <1>6, <1>7, Zenon DEF MainNext, MainLoopNext

(* The loop is entered once, and a pause knows where the loop goes on.     *)
LEMMA PlaceOfLoop ==
  ASSUME MainNext, ThenInv
  PROVE  ThenInv' /\ at' # "none"
<1> DEFINE Goal == ThenInv' /\ at' # "none"
<1> USE DEF timerVars, loopVars, RunstateSet, VmStop, Resume, PauseThen, Clear, Skip, Request,
  Event, Point,
            ClockUnchanged, Quiet
<1>1. CASE LoopProceeds
  BY <1>1 DEF LoopProceeds, LoopDisablesClock, ClockIsOff, TimersDone, CpusPaused,
    NothingRequested, LoopDebugs,
           LoopSuspends, LoopSuspended, LoopShutsDown, LoopResets, LoopReset, LoopWakes, LoopWoken,
           LoopPowersDown, LoopStops, LoopFills, PollReturns, LoopDispatches, LoopRunsTimers, LoopRunsTimersOn, ThenInv
<1>2. CASE OutsideProceeds \/ IoThread \/ Clock \/ CallbackActs \/ GuestPanics \/ WakeupRequest
  BY <1>2 DEF OutsideProceeds, OutsideStops, OutsideNotifies, IoThread, Clock, CallbackActs,
    GuestPanics, WakeupRequest,
           RunTimers, RunStep, RunResets, RunTakes, RunChecks, RunFinds, RunSets, CallbackReturns, Tick, ThenInv, Unlocked, Live
<1>3. ASSUME NEW r, GuestRequests(r) \/ QmpRequests(r)  PROVE Goal
  BY <1>3 DEF GuestRequests, QmpRequests, ThenInv, Unlocked
<1>4. ASSUME NEW t, DeviceDeletes(t)  PROVE Goal
  BY <1>4 DEF DeviceDeletes, ThenInv, Unlocked
<1>5. ASSUME NEW t, NEW e, NEW a, DeviceArms(t, e) \/ OutsideArms(t, e, a)  PROVE Goal
  BY <1>5 DEF DeviceArms, OutsideArms, ThenInv, Unlocked, Live
<1>6. CASE OutsideShutsDown \/ OutsidePrepares \/ QmpArrives \/ QmpStops \/ QmpContinues
  BY <1>6 DEF OutsideShutsDown, OutsidePrepares, QmpArrives, QmpStops, QmpContinues, ThenInv, Live
<1>7. CASE MainLoopEnters \/ MainLoopEntersStopped
  BY <1>7 DEF MainLoopEnters, MainLoopEntersStopped, ThenInv
<1>8. QED
  BY <1>1, <1>2, <1>3, <1>4, <1>5, <1>6, <1>7, Zenon DEF MainNext, MainLoopNext

-----------------------------------------------------------------------------
(* The run state.  Of every state the loop reaches, the table lets it go   *)
(* where the requests take it.                                             *)
LEMMA Table ==
  /\ \A state \in {"debug", "io-error", "guest-panicked", "paused"} : state \in Transitions[Row("running")]
  /\ \A state \in {"prelaunch", "debug", "io-error", "guest-panicked", "paused"} :
       "running" \in Transitions[Row(state)]
  /\ \A state \in {"debug", "io-error", "guest-panicked", "paused"} : "prelaunch" \in Transitions[Row(state)]
<1>1. /\ Row("running") = "running" /\ Row("prelaunch") = "prelaunch" /\ Row("debug") = "debug"
      /\ Row("paused") = "paused"
  BY Zenon DEF Row
<1>2. Row("io-error") = "io_error" /\ Row("guest-panicked") = "guest_panicked"
  BY Zenon DEF Row
<1>3. /\ {"debug", "io-error", "guest-panicked", "paused"} \subseteq Transitions["running"]
      /\ "running" \in Transitions["prelaunch"]
  BY DEF Transitions
<1>4. {"running", "prelaunch"} \subseteq Transitions["debug"] /\ {"running", "prelaunch"} \subseteq Transitions["paused"]
  BY DEF Transitions, Always
<1>5. /\ {"running", "prelaunch"} \subseteq Transitions["io_error"]
      /\ {"running", "prelaunch"} \subseteq Transitions["guest_panicked"]
  BY DEF Transitions, Always
<1>6. QED
  BY <1>1, <1>2, <1>3, <1>4, <1>5

LEMMA RunstateSetEffect ==
  ASSUME RunstateInv, NEW state \in Reached, NEW next, RunstateSet(state, next),
         \/ "suspended" \in {runstate, state}
         \/ runstate = state
         \/ state \in Transitions[Row(runstate)]
  PROVE  /\ runstate' \in Reached
         /\ broken' # <<>> => {"suspended"} \cap {broken'[1], broken'[2]} # {}
<1>1. CASE state \in Transitions[Row(runstate)] \cup {runstate}
  BY <1>1 DEF RunstateSet, RunstateInv
<1>2. CASE state \notin Transitions[Row(runstate)] \cup {runstate}
  <2>1. runstate' = runstate /\ broken' = <<runstate, state>> /\ "suspended" \in {runstate, state}
    BY <1>2 DEF RunstateSet
  <2>2. "suspended" \in {"suspended"} \cap {broken'[1], broken'[2]}
    BY <2>1
  <2>3. QED
    BY <2>1, <2>2 DEF RunstateInv
<1>3. QED
  BY <1>1, <1>2

LEMMA VmstopKept ==
  ASSUME MainNext, vmstop \in {"none", "io-error", "guest-panicked"}
  PROVE  vmstop' \in {"none", "io-error", "guest-panicked"}
<1> DEFINE Goal == vmstop' \in {"none", "io-error", "guest-panicked"}
<1> USE DEF timerVars, loopVars, RunstateSet, VmStop, Resume, PauseThen, Clear, Skip, Request,
  Event, Point,
            ClockUnchanged, Quiet
<1>1. CASE LoopProceeds
  BY <1>1 DEF LoopProceeds, LoopDisablesClock, ClockIsOff, TimersDone, CpusPaused,
    NothingRequested, LoopDebugs,
           LoopSuspends, LoopSuspended, LoopShutsDown, LoopResets, LoopReset, LoopWakes, LoopWoken,
           LoopPowersDown, LoopStops, LoopFills, PollReturns, LoopDispatches, LoopRunsTimers, LoopRunsTimersOn,
           RunTimers, RunStep, RunResets, RunTakes, RunChecks, RunFinds, RunSets, CallbackReturns
<1>2. CASE OutsideProceeds \/ IoThread \/ Clock \/ CallbackActs \/ GuestPanics \/ WakeupRequest
  BY <1>2 DEF OutsideProceeds, OutsideStops, OutsideNotifies, IoThread, Clock, CallbackActs,
    GuestPanics, WakeupRequest,
           RunTimers, RunStep, RunResets, RunTakes, RunChecks, RunFinds, RunSets, CallbackReturns, Tick
<1>3. ASSUME NEW r, GuestRequests(r) \/ QmpRequests(r)  PROVE Goal
  BY <1>3 DEF GuestRequests, QmpRequests
<1>4. ASSUME NEW t, DeviceDeletes(t)  PROVE Goal
  BY <1>4 DEF DeviceDeletes
<1>5. ASSUME NEW t, NEW e, NEW a, DeviceArms(t, e) \/ OutsideArms(t, e, a)  PROVE Goal
  BY <1>5 DEF DeviceArms, OutsideArms
<1>6. CASE OutsideShutsDown \/ OutsidePrepares \/ QmpArrives \/ QmpStops \/ QmpContinues
  BY <1>6 DEF OutsideShutsDown, OutsidePrepares, QmpArrives, QmpStops, QmpContinues
<1>7. CASE MainLoopEnters \/ MainLoopEntersStopped
  BY <1>7 DEF MainLoopEnters, MainLoopEntersStopped
<1>8. QED
  BY <1>1, <1>2, <1>3, <1>4, <1>5, <1>6, <1>7, Zenon DEF MainNext, MainLoopNext

LEMMA RunstateMoves ==
  ASSUME MainNext
  PROVE  \/ UNCHANGED <<runstate, broken>>
         \/ LoopDebugs \/ LoopStops \/ QmpStops
         \/ LoopSuspended \/ LoopReset \/ WakeupRequest \/ QmpContinues
         \/ MainLoopEnters \/ MainLoopEntersStopped
<1> DEFINE Goal == \/ UNCHANGED <<runstate, broken>>
                   \/ LoopDebugs \/ LoopStops \/ QmpStops
                   \/ LoopSuspended \/ LoopReset \/ WakeupRequest \/ QmpContinues
                   \/ MainLoopEnters \/ MainLoopEntersStopped
<1> USE DEF timerVars, loopVars, RunstateSet, VmStop, Resume, PauseThen, Clear, Skip, Request,
  Event, Point,
            ClockUnchanged, Quiet
<1>1. CASE LoopProceeds
  BY <1>1 DEF LoopProceeds, LoopDisablesClock, ClockIsOff, TimersDone, CpusPaused,
    NothingRequested, LoopDebugs,
           LoopSuspends, LoopSuspended, LoopShutsDown, LoopResets, LoopReset, LoopWakes, LoopWoken,
           LoopPowersDown, LoopStops, LoopFills, PollReturns, LoopDispatches, LoopRunsTimers, LoopRunsTimersOn,
           RunTimers, RunStep, RunResets, RunTakes, RunChecks, RunFinds, RunSets, CallbackReturns
<1>2. CASE OutsideProceeds \/ IoThread \/ Clock \/ CallbackActs \/ GuestPanics \/ WakeupRequest
  BY <1>2 DEF OutsideProceeds, OutsideStops, OutsideNotifies, IoThread, Clock, CallbackActs,
    GuestPanics, WakeupRequest,
           RunTimers, RunStep, RunResets, RunTakes, RunChecks, RunFinds, RunSets, CallbackReturns, Tick
<1>3. ASSUME NEW r, GuestRequests(r) \/ QmpRequests(r)  PROVE Goal
  BY <1>3 DEF GuestRequests, QmpRequests
<1>4. ASSUME NEW t, DeviceDeletes(t)  PROVE Goal
  BY <1>4 DEF DeviceDeletes
<1>5. ASSUME NEW t, NEW e, NEW a, DeviceArms(t, e) \/ OutsideArms(t, e, a)  PROVE Goal
  BY <1>5 DEF DeviceArms, OutsideArms
<1>6. CASE OutsideShutsDown \/ OutsidePrepares \/ QmpArrives \/ QmpStops \/ QmpContinues
  BY <1>6 DEF OutsideShutsDown, OutsidePrepares, QmpArrives, QmpStops, QmpContinues
<1>7. CASE MainLoopEnters \/ MainLoopEntersStopped
  BY <1>7 DEF MainLoopEnters, MainLoopEntersStopped
<1>8. QED
  BY <1>1, <1>2, <1>3, <1>4, <1>5, <1>6, <1>7, Zenon DEF MainNext, MainLoopNext

LEMMA RunstateKept ==
  ASSUME MainNext, RunstateInv, ThenInv
  PROVE  RunstateInv'
<1> DEFINE Safe == /\ runstate' \in Reached
                   /\ broken' # <<>> => {"suspended"} \cap {broken'[1], broken'[2]} # {}
<1> USE DEF timerVars, loopVars
<1>1. at' # "none"
  BY PlaceOfLoop
<1>2. vmstop' \in {"none", "io-error", "guest-panicked"}
  BY VmstopKept DEF RunstateInv
<1>3. CASE UNCHANGED <<runstate, broken>>
  BY <1>1, <1>2, <1>3 DEF RunstateInv
<1>4. ASSUME NEW state \in Reached, NEW next, RunstateSet(state, next),
             \/ "suspended" \in {runstate, state}
             \/ runstate = state
             \/ state \in Transitions[Row(runstate)]
      PROVE  RunstateInv'
  <2>1. Safe
    BY <1>4, RunstateSetEffect
  <2>2. QED
    BY <1>1, <1>2, <2>1 DEF RunstateInv
<1>5. ASSUME NEW state \in {"debug", "io-error", "guest-panicked", "paused"}, NEW next, VmStop(state, next)
      PROVE  RunstateInv'
  <2>1. CASE UNCHANGED <<runstate, broken>>
    BY <1>3, <2>1
  <2>2. CASE /\ runstate \in {"running", "suspended"}
             /\ RunstateSet(state, IF runstate = "running" THEN "pause" ELSE next)
    <3>1. state \in Reached
      BY DEF Reached
    <3>2. "suspended" \in {runstate, state} \/ state \in Transitions[Row(runstate)]
      BY <2>2, Table
    <3>3. QED
      BY <1>4, <2>2, <3>1, <3>2
  <2>3. QED
    BY <1>5, <2>1, <2>2 DEF VmStop
<1>6. CASE LoopDebugs \/ LoopStops \/ QmpStops
  <2>1. CASE LoopDebugs
    <3>1. VmStop("debug", "suspend")
      BY <2>1 DEF LoopDebugs
    <3>2. QED
      BY <1>5, <3>1
  <2>2. CASE LoopStops
    <3>1. CASE vmstop = "none"
      BY <1>3, <2>2, <3>1 DEF LoopStops
    <3>2. CASE vmstop # "none"
      <4>1. VmStop(vmstop, "fill") /\ vmstop \in {"io-error", "guest-panicked"}
        BY <2>2, <3>2 DEF LoopStops, RunstateInv
      <4>2. QED
        BY <1>5, <4>1
    <3>3. QED
      BY <3>1, <3>2
  <2>3. CASE QmpStops
    <3>1. VmStop("paused", "dispatch")
      BY <2>3 DEF QmpStops
    <3>2. QED
      BY <1>5, <3>1
  <2>4. QED
    BY <1>6, <2>1, <2>2, <2>3
<1>7. CASE LoopSuspended
  <2>1. RunstateSet("suspended", "shutdown") /\ "suspended" \in Reached
    BY <1>7 DEF LoopSuspended, Reached
  <2>2. QED
    BY <1>4, <2>1
<1>8. CASE LoopReset
  <2>1. RunstateSet(StateAfterReset, "wakeup") /\ StateAfterReset \in Reached
    BY <1>8 DEF LoopReset, Reached, StateAfterReset
  <2>2. \/ "suspended" \in {runstate, StateAfterReset}
        \/ runstate = StateAfterReset
        \/ StateAfterReset \in Transitions[Row(runstate)]
    BY Table DEF StateAfterReset, RunstateInv, Reached
  <2>3. QED
    BY <1>4, <2>1, <2>2
<1>9. CASE WakeupRequest
  <2>1. RunstateSet("running", at) /\ runstate = "suspended" /\ "running" \in Reached
    BY <1>9 DEF WakeupRequest, Reached
  <2>2. QED
    BY <1>4, <2>1
<1>10. CASE QmpContinues
  <2> DEFINE state == IF suspended THEN "suspended" ELSE "running"
  <2>1. RunstateSet(state, "dispatch") /\ runstate \notin {"running", "suspended"} /\ state \in Reached
    BY <1>10 DEF QmpContinues, Reached
  <2>2. "suspended" \in {runstate, state} \/ state \in Transitions[Row(runstate)]
    BY <2>1, Table DEF RunstateInv, Reached
  <2>3. QED
    BY <1>4, <2>1, <2>2
<1>11. CASE MainLoopEnters \/ MainLoopEntersStopped
  <2>1. RunstateSet("running", "debug") /\ runstate = "prelaunch" /\ "running" \in Reached
    BY <1>11 DEF MainLoopEnters, MainLoopEntersStopped, RunstateInv, Reached
  <2>2. "running" \in Transitions[Row(runstate)]
    BY <2>1, Table
  <2>3. QED
    BY <1>4, <2>1, <2>2
<1>12. QED
  BY <1>3, <1>6, <1>7, <1>8, <1>9, <1>10, <1>11, RunstateMoves

-----------------------------------------------------------------------------
(* The types.                                                              *)
Places == {"none", "debug", "suspend", "suspended", "shutdown", "reset", "resetting", "wakeup", "waking",
           "powerdown", "vmstop", "fill", "poll", "dispatch", "run", "timers", "pause", "timersDone",
           "cpus", "exited", "aborted"}

LEMMA AtKept ==
  ASSUME MainNext, ThenInv, at \in Places
  PROVE  at' \in Places
<1> DEFINE Goal == at' \in Places
<1> USE DEF timerVars, loopVars, RunstateSet, VmStop, Resume, PauseThen, Clear, Skip, Request,
  Event, Point,
            ClockUnchanged, Quiet
<1>1. CASE LoopProceeds
  BY <1>1 DEF LoopProceeds, LoopDisablesClock, ClockIsOff, TimersDone, CpusPaused,
    NothingRequested, LoopDebugs,
           LoopSuspends, LoopSuspended, LoopShutsDown, LoopResets, LoopReset, LoopWakes, LoopWoken,
           LoopPowersDown, LoopStops, LoopFills, PollReturns, LoopDispatches, LoopRunsTimers, LoopRunsTimersOn, ThenInv, Places,
           RunTimers, RunStep, RunResets, RunTakes, RunChecks, RunFinds, RunSets, CallbackReturns
<1>2. CASE OutsideProceeds \/ IoThread \/ Clock \/ CallbackActs \/ GuestPanics \/ WakeupRequest
  BY <1>2 DEF OutsideProceeds, OutsideStops, OutsideNotifies, IoThread, Clock, CallbackActs,
    GuestPanics, WakeupRequest,
           RunTimers, RunStep, RunResets, RunTakes, RunChecks, RunFinds, RunSets, CallbackReturns, Tick, ThenInv, Places
<1>3. ASSUME NEW r, GuestRequests(r) \/ QmpRequests(r)  PROVE Goal
  BY <1>3 DEF GuestRequests, QmpRequests, ThenInv, Places
<1>4. ASSUME NEW t, DeviceDeletes(t)  PROVE Goal
  BY <1>4 DEF DeviceDeletes, ThenInv, Places
<1>5. ASSUME NEW t, NEW e, NEW a, DeviceArms(t, e) \/ OutsideArms(t, e, a)  PROVE Goal
  BY <1>5 DEF DeviceArms, OutsideArms, ThenInv, Places
<1>6. CASE OutsideShutsDown \/ OutsidePrepares \/ QmpArrives \/ QmpStops \/ QmpContinues
  BY <1>6 DEF OutsideShutsDown, OutsidePrepares, QmpArrives, QmpStops, QmpContinues, ThenInv, Places
<1>7. CASE MainLoopEnters \/ MainLoopEntersStopped
  BY <1>7 DEF MainLoopEnters, MainLoopEntersStopped, ThenInv, Places
<1>8. QED
  BY <1>1, <1>2, <1>3, <1>4, <1>5, <1>6, <1>7, Zenon DEF MainNext, MainLoopNext

LEMMA RequestedKept ==
  ASSUME MainNext, requested \subseteq Requests
  PROVE  requested' \subseteq Requests
<1> DEFINE Goal == requested' \subseteq Requests
<1> USE DEF timerVars, loopVars, RunstateSet, VmStop, Resume, PauseThen, Clear, Skip, Request,
  Event, Point,
            ClockUnchanged, Quiet
<1>1. CASE LoopProceeds
  BY <1>1 DEF LoopProceeds, LoopDisablesClock, ClockIsOff, TimersDone, CpusPaused,
    NothingRequested, LoopDebugs,
           LoopSuspends, LoopSuspended, LoopShutsDown, LoopResets, LoopReset, LoopWakes, LoopWoken,
           LoopPowersDown, LoopStops, LoopFills, PollReturns, LoopDispatches, LoopRunsTimers, LoopRunsTimersOn, Requests,
           RunTimers, RunStep, RunResets, RunTakes, RunChecks, RunFinds, RunSets, CallbackReturns
<1>2. CASE OutsideProceeds \/ IoThread \/ Clock \/ CallbackActs \/ GuestPanics \/ WakeupRequest
  BY <1>2 DEF OutsideProceeds, OutsideStops, OutsideNotifies, IoThread, Clock, CallbackActs,
    GuestPanics, WakeupRequest,
           RunTimers, RunStep, RunResets, RunTakes, RunChecks, RunFinds, RunSets, CallbackReturns, Tick, Requests
<1>3. /\ \A r \in {"debug", "suspend", "shutdown", "reset"} : GuestRequests(r) => Goal
      /\ \A r \in {"reset", "powerdown", "shutdown"} : QmpRequests(r) => Goal
  BY DEF GuestRequests, QmpRequests, Requests
<1>4. ASSUME NEW t, DeviceDeletes(t)  PROVE Goal
  BY <1>4 DEF DeviceDeletes, Requests
<1>5. ASSUME NEW t, NEW e, NEW a, DeviceArms(t, e) \/ OutsideArms(t, e, a)  PROVE Goal
  BY <1>5 DEF DeviceArms, OutsideArms, Requests
<1>6. CASE OutsideShutsDown \/ OutsidePrepares \/ QmpArrives \/ QmpStops \/ QmpContinues
  BY <1>6 DEF OutsideShutsDown, OutsidePrepares, QmpArrives, QmpStops, QmpContinues, Requests
<1>7. CASE MainLoopEnters \/ MainLoopEntersStopped
  BY <1>7 DEF MainLoopEnters, MainLoopEntersStopped, Requests
<1>8. QED
  BY <1>1, <1>2, <1>3, <1>4, <1>5, <1>6, <1>7, Zenon DEF MainNext, MainLoopNext

LEMMA SleepMoves ==
  ASSUME MainNext
  PROVE  sleep' = sleep \/ LoopFills
<1> DEFINE Goal == sleep' = sleep \/ LoopFills
<1> USE DEF timerVars, loopVars, RunstateSet, VmStop, Resume, PauseThen, Clear, Skip, Request,
  Event, Point,
            ClockUnchanged, Quiet
<1>1. CASE LoopProceeds
  BY <1>1 DEF LoopProceeds, LoopDisablesClock, ClockIsOff, TimersDone, CpusPaused,
    NothingRequested, LoopDebugs,
           LoopSuspends, LoopSuspended, LoopShutsDown, LoopResets, LoopReset, LoopWakes, LoopWoken,
           LoopPowersDown, LoopStops, LoopFills, PollReturns, LoopDispatches, LoopRunsTimers, LoopRunsTimersOn,
           RunTimers, RunStep, RunResets, RunTakes, RunChecks, RunFinds, RunSets, CallbackReturns
<1>2. CASE OutsideProceeds \/ IoThread \/ Clock \/ CallbackActs \/ GuestPanics \/ WakeupRequest
  BY <1>2 DEF OutsideProceeds, OutsideStops, OutsideNotifies, IoThread, Clock, CallbackActs,
    GuestPanics, WakeupRequest,
           RunTimers, RunStep, RunResets, RunTakes, RunChecks, RunFinds, RunSets, CallbackReturns, Tick
<1>3. ASSUME NEW r, GuestRequests(r) \/ QmpRequests(r)  PROVE Goal
  BY <1>3 DEF GuestRequests, QmpRequests
<1>4. ASSUME NEW t, DeviceDeletes(t)  PROVE Goal
  BY <1>4 DEF DeviceDeletes
<1>5. ASSUME NEW t, NEW e, NEW a, DeviceArms(t, e) \/ OutsideArms(t, e, a)  PROVE Goal
  BY <1>5 DEF DeviceArms, OutsideArms
<1>6. CASE OutsideShutsDown \/ OutsidePrepares \/ QmpArrives \/ QmpStops \/ QmpContinues
  BY <1>6 DEF OutsideShutsDown, OutsidePrepares, QmpArrives, QmpStops, QmpContinues
<1>7. CASE MainLoopEnters \/ MainLoopEntersStopped
  BY <1>7 DEF MainLoopEnters, MainLoopEntersStopped
<1>8. QED
  BY <1>1, <1>2, <1>3, <1>4, <1>5, <1>6, <1>7, Zenon DEF MainNext, MainLoopNext

LEMMA NowKept ==
  ASSUME MainNext, now \in 0 .. MaxTime
  PROVE  now' \in 0 .. MaxTime
<1> DEFINE Goal == now' \in 0 .. MaxTime
<1> USE DEF timerVars, loopVars, RunstateSet, VmStop, Resume, PauseThen, Clear, Skip, Request,
  Event, Point,
            ClockUnchanged, Quiet
<1>1. CASE LoopProceeds
  BY <1>1, TimersAssumption DEF LoopProceeds, LoopDisablesClock, ClockIsOff, TimersDone,
    CpusPaused, NothingRequested, LoopDebugs,
           LoopSuspends, LoopSuspended, LoopShutsDown, LoopResets, LoopReset, LoopWakes, LoopWoken,
           LoopPowersDown, LoopStops, LoopFills, PollReturns, LoopDispatches, LoopRunsTimers, LoopRunsTimersOn,
           RunTimers, RunStep, RunResets, RunTakes, RunChecks, RunFinds, RunSets, CallbackReturns
<1>2. CASE OutsideProceeds \/ IoThread \/ Clock \/ CallbackActs \/ GuestPanics \/ WakeupRequest
  BY <1>2, TimersAssumption DEF OutsideProceeds, OutsideStops, OutsideNotifies, IoThread, Clock,
    CallbackActs, GuestPanics, WakeupRequest,
           RunTimers, RunStep, RunResets, RunTakes, RunChecks, RunFinds, RunSets, CallbackReturns, Tick
<1>3. ASSUME NEW r, GuestRequests(r) \/ QmpRequests(r)  PROVE Goal
  BY <1>3, TimersAssumption DEF GuestRequests, QmpRequests
<1>4. ASSUME NEW t, DeviceDeletes(t)  PROVE Goal
  BY <1>4, TimersAssumption DEF DeviceDeletes
<1>5. ASSUME NEW t, NEW e, NEW a, DeviceArms(t, e) \/ OutsideArms(t, e, a)  PROVE Goal
  BY <1>5, TimersAssumption DEF DeviceArms, OutsideArms
<1>6. CASE OutsideShutsDown \/ OutsidePrepares \/ QmpArrives \/ QmpStops \/ QmpContinues
  BY <1>6, TimersAssumption DEF OutsideShutsDown, OutsidePrepares, QmpArrives, QmpStops,
    QmpContinues
<1>7. CASE MainLoopEnters \/ MainLoopEntersStopped
  BY <1>7, TimersAssumption DEF MainLoopEnters, MainLoopEntersStopped
<1>8. QED
  BY <1>1, <1>2, <1>3, <1>4, <1>5, <1>6, <1>7, Zenon DEF MainNext, MainLoopNext

LEMMA EventsKept ==
  ASSUME MainNext, events \in 0 .. MaxRequests
  PROVE  events' \in 0 .. MaxRequests
<1> DEFINE Goal == events' \in 0 .. MaxRequests
<1> USE DEF timerVars, loopVars, RunstateSet, VmStop, Resume, PauseThen, Clear, Skip, Request,
  Event, Point,
            ClockUnchanged, Quiet
<1>1. CASE LoopProceeds
  BY <1>1, RequestsAssumption DEF LoopProceeds, LoopDisablesClock, ClockIsOff, TimersDone,
    CpusPaused, NothingRequested, LoopDebugs,
           LoopSuspends, LoopSuspended, LoopShutsDown, LoopResets, LoopReset, LoopWakes, LoopWoken,
           LoopPowersDown, LoopStops, LoopFills, PollReturns, LoopDispatches, LoopRunsTimers, LoopRunsTimersOn,
           RunTimers, RunStep, RunResets, RunTakes, RunChecks, RunFinds, RunSets, CallbackReturns
<1>2. CASE OutsideProceeds \/ IoThread \/ Clock \/ CallbackActs \/ GuestPanics \/ WakeupRequest
  BY <1>2, RequestsAssumption DEF OutsideProceeds, OutsideStops, OutsideNotifies, IoThread,
    Clock, CallbackActs, GuestPanics, WakeupRequest,
           RunTimers, RunStep, RunResets, RunTakes, RunChecks, RunFinds, RunSets, CallbackReturns, Tick
<1>3. ASSUME NEW r, GuestRequests(r) \/ QmpRequests(r)  PROVE Goal
  BY <1>3, RequestsAssumption DEF GuestRequests, QmpRequests
<1>4. ASSUME NEW t, DeviceDeletes(t)  PROVE Goal
  BY <1>4, RequestsAssumption DEF DeviceDeletes
<1>5. ASSUME NEW t, NEW e, NEW a, DeviceArms(t, e) \/ OutsideArms(t, e, a)  PROVE Goal
  BY <1>5, RequestsAssumption DEF DeviceArms, OutsideArms
<1>6. CASE OutsideShutsDown \/ OutsidePrepares \/ QmpArrives \/ QmpStops \/ QmpContinues
  BY <1>6, RequestsAssumption DEF OutsideShutsDown, OutsidePrepares, QmpArrives, QmpStops,
    QmpContinues
<1>7. CASE MainLoopEnters \/ MainLoopEntersStopped
  BY <1>7, RequestsAssumption DEF MainLoopEnters, MainLoopEntersStopped
<1>8. QED
  BY <1>1, <1>2, <1>3, <1>4, <1>5, <1>6, <1>7, Zenon DEF MainNext, MainLoopNext

LEMMA SuspendedKept ==
  ASSUME MainNext, suspended \in BOOLEAN
  PROVE  suspended' \in BOOLEAN
<1> DEFINE Goal == suspended' \in BOOLEAN
<1> USE DEF timerVars, loopVars, RunstateSet, VmStop, Resume, PauseThen, Clear, Skip, Request,
  Event, Point,
            ClockUnchanged, Quiet
<1>1. CASE LoopProceeds
  BY <1>1, Zenon DEF LoopProceeds, LoopDisablesClock, ClockIsOff, TimersDone, CpusPaused,
    NothingRequested, LoopDebugs,
           LoopSuspends, LoopSuspended, LoopShutsDown, LoopResets, LoopReset, LoopWakes, LoopWoken,
           LoopPowersDown, LoopStops, LoopFills, PollReturns, LoopDispatches, LoopRunsTimers, LoopRunsTimersOn,
           RunTimers, RunStep, RunResets, RunTakes, RunChecks, RunFinds, RunSets, CallbackReturns
<1>2. CASE OutsideProceeds \/ IoThread \/ Clock \/ CallbackActs \/ GuestPanics \/ WakeupRequest
  BY <1>2, Zenon DEF OutsideProceeds, OutsideStops, OutsideNotifies, IoThread, Clock,
    CallbackActs, GuestPanics, WakeupRequest,
           RunTimers, RunStep, RunResets, RunTakes, RunChecks, RunFinds, RunSets, CallbackReturns, Tick
<1>3. ASSUME NEW r, GuestRequests(r) \/ QmpRequests(r)  PROVE Goal
  BY <1>3, Zenon DEF GuestRequests, QmpRequests
<1>4. ASSUME NEW t, DeviceDeletes(t)  PROVE Goal
  BY <1>4, Zenon DEF DeviceDeletes
<1>5. ASSUME NEW t, NEW e, NEW a, DeviceArms(t, e) \/ OutsideArms(t, e, a)  PROVE Goal
  BY <1>5, Zenon DEF DeviceArms, OutsideArms
<1>6. CASE OutsideShutsDown \/ OutsidePrepares \/ QmpArrives \/ QmpStops \/ QmpContinues
  BY <1>6, Zenon DEF OutsideShutsDown, OutsidePrepares, QmpArrives, QmpStops, QmpContinues
<1>7. CASE MainLoopEnters \/ MainLoopEntersStopped
  BY <1>7, Zenon DEF MainLoopEnters, MainLoopEntersStopped
<1>8. QED
  BY <1>1, <1>2, <1>3, <1>4, <1>5, <1>6, <1>7, Zenon DEF MainNext, MainLoopNext

LEMMA CpusRunKept ==
  ASSUME MainNext, cpusRun \in BOOLEAN
  PROVE  cpusRun' \in BOOLEAN
<1> DEFINE Goal == cpusRun' \in BOOLEAN
<1> USE DEF timerVars, loopVars, RunstateSet, VmStop, Resume, PauseThen, Clear, Skip, Request,
  Event, Point,
            ClockUnchanged, Quiet
<1>1. CASE LoopProceeds
  BY <1>1, Zenon DEF LoopProceeds, LoopDisablesClock, ClockIsOff, TimersDone, CpusPaused,
    NothingRequested, LoopDebugs,
           LoopSuspends, LoopSuspended, LoopShutsDown, LoopResets, LoopReset, LoopWakes, LoopWoken,
           LoopPowersDown, LoopStops, LoopFills, PollReturns, LoopDispatches, LoopRunsTimers, LoopRunsTimersOn,
           RunTimers, RunStep, RunResets, RunTakes, RunChecks, RunFinds, RunSets, CallbackReturns
<1>2. CASE OutsideProceeds \/ IoThread \/ Clock \/ CallbackActs \/ GuestPanics \/ WakeupRequest
  BY <1>2, Zenon DEF OutsideProceeds, OutsideStops, OutsideNotifies, IoThread, Clock,
    CallbackActs, GuestPanics, WakeupRequest,
           RunTimers, RunStep, RunResets, RunTakes, RunChecks, RunFinds, RunSets, CallbackReturns, Tick
<1>3. ASSUME NEW r, GuestRequests(r) \/ QmpRequests(r)  PROVE Goal
  BY <1>3, Zenon DEF GuestRequests, QmpRequests
<1>4. ASSUME NEW t, DeviceDeletes(t)  PROVE Goal
  BY <1>4, Zenon DEF DeviceDeletes
<1>5. ASSUME NEW t, NEW e, NEW a, DeviceArms(t, e) \/ OutsideArms(t, e, a)  PROVE Goal
  BY <1>5, Zenon DEF DeviceArms, OutsideArms
<1>6. CASE OutsideShutsDown \/ OutsidePrepares \/ QmpArrives \/ QmpStops \/ QmpContinues
  BY <1>6, Zenon DEF OutsideShutsDown, OutsidePrepares, QmpArrives, QmpStops, QmpContinues
<1>7. CASE MainLoopEnters \/ MainLoopEntersStopped
  BY <1>7, Zenon DEF MainLoopEnters, MainLoopEntersStopped
<1>8. QED
  BY <1>1, <1>2, <1>3, <1>4, <1>5, <1>6, <1>7, Zenon DEF MainNext, MainLoopNext

LEMMA EnabledKept ==
  ASSUME MainNext, enabled \in BOOLEAN
  PROVE  enabled' \in BOOLEAN
<1> DEFINE Goal == enabled' \in BOOLEAN
<1> USE DEF timerVars, loopVars, RunstateSet, VmStop, Resume, PauseThen, Clear, Skip, Request,
  Event, Point,
            ClockUnchanged, Quiet
<1>1. CASE LoopProceeds
  BY <1>1, Zenon DEF LoopProceeds, LoopDisablesClock, ClockIsOff, TimersDone, CpusPaused,
    NothingRequested, LoopDebugs,
           LoopSuspends, LoopSuspended, LoopShutsDown, LoopResets, LoopReset, LoopWakes, LoopWoken,
           LoopPowersDown, LoopStops, LoopFills, PollReturns, LoopDispatches, LoopRunsTimers, LoopRunsTimersOn,
           RunTimers, RunStep, RunResets, RunTakes, RunChecks, RunFinds, RunSets, CallbackReturns
<1>2. CASE OutsideProceeds \/ IoThread \/ Clock \/ CallbackActs \/ GuestPanics \/ WakeupRequest
  BY <1>2, Zenon DEF OutsideProceeds, OutsideStops, OutsideNotifies, IoThread, Clock,
    CallbackActs, GuestPanics, WakeupRequest,
           RunTimers, RunStep, RunResets, RunTakes, RunChecks, RunFinds, RunSets, CallbackReturns, Tick
<1>3. ASSUME NEW r, GuestRequests(r) \/ QmpRequests(r)  PROVE Goal
  BY <1>3, Zenon DEF GuestRequests, QmpRequests
<1>4. ASSUME NEW t, DeviceDeletes(t)  PROVE Goal
  BY <1>4, Zenon DEF DeviceDeletes
<1>5. ASSUME NEW t, NEW e, NEW a, DeviceArms(t, e) \/ OutsideArms(t, e, a)  PROVE Goal
  BY <1>5, Zenon DEF DeviceArms, OutsideArms
<1>6. CASE OutsideShutsDown \/ OutsidePrepares \/ QmpArrives \/ QmpStops \/ QmpContinues
  BY <1>6, Zenon DEF OutsideShutsDown, OutsidePrepares, QmpArrives, QmpStops, QmpContinues
<1>7. CASE MainLoopEnters \/ MainLoopEntersStopped
  BY <1>7, Zenon DEF MainLoopEnters, MainLoopEntersStopped
<1>8. QED
  BY <1>1, <1>2, <1>3, <1>4, <1>5, <1>6, <1>7, Zenon DEF MainNext, MainLoopNext

LEMMA KickedKept ==
  ASSUME MainNext, kicked \in BOOLEAN
  PROVE  kicked' \in BOOLEAN
<1> DEFINE Goal == kicked' \in BOOLEAN
<1> USE DEF timerVars, loopVars, RunstateSet, VmStop, Resume, PauseThen, Clear, Skip, Request,
  Event, Point,
            ClockUnchanged, Quiet
<1>1. CASE LoopProceeds
  BY <1>1, Zenon DEF LoopProceeds, LoopDisablesClock, ClockIsOff, TimersDone, CpusPaused,
    NothingRequested, LoopDebugs,
           LoopSuspends, LoopSuspended, LoopShutsDown, LoopResets, LoopReset, LoopWakes, LoopWoken,
           LoopPowersDown, LoopStops, LoopFills, PollReturns, LoopDispatches, LoopRunsTimers, LoopRunsTimersOn,
           RunTimers, RunStep, RunResets, RunTakes, RunChecks, RunFinds, RunSets, CallbackReturns
<1>2. CASE OutsideProceeds \/ IoThread \/ Clock \/ CallbackActs \/ GuestPanics \/ WakeupRequest
  BY <1>2, Zenon DEF OutsideProceeds, OutsideStops, OutsideNotifies, IoThread, Clock,
    CallbackActs, GuestPanics, WakeupRequest,
           RunTimers, RunStep, RunResets, RunTakes, RunChecks, RunFinds, RunSets, CallbackReturns, Tick
<1>3. ASSUME NEW r, GuestRequests(r) \/ QmpRequests(r)  PROVE Goal
  BY <1>3, Zenon DEF GuestRequests, QmpRequests
<1>4. ASSUME NEW t, DeviceDeletes(t)  PROVE Goal
  BY <1>4, Zenon DEF DeviceDeletes
<1>5. ASSUME NEW t, NEW e, NEW a, DeviceArms(t, e) \/ OutsideArms(t, e, a)  PROVE Goal
  BY <1>5, Zenon DEF DeviceArms, OutsideArms
<1>6. CASE OutsideShutsDown \/ OutsidePrepares \/ QmpArrives \/ QmpStops \/ QmpContinues
  BY <1>6, Zenon DEF OutsideShutsDown, OutsidePrepares, QmpArrives, QmpStops, QmpContinues
<1>7. CASE MainLoopEnters \/ MainLoopEntersStopped
  BY <1>7, Zenon DEF MainLoopEnters, MainLoopEntersStopped
<1>8. QED
  BY <1>1, <1>2, <1>3, <1>4, <1>5, <1>6, <1>7, Zenon DEF MainNext, MainLoopNext

LEMMA ThreadMoves ==
  ASSUME MainNext
  PROVE  \/ UNCHANGED <<done, running, until>>
         \/ \E l \in Lists : RunTimers(l) \/ RunStep(l) \/ CallbackReturns(l)
<1> DEFINE Goal == \/ UNCHANGED <<done, running, until>>
                   \/ \E l \in Lists : RunTimers(l) \/ RunStep(l) \/ CallbackReturns(l)
<1> USE DEF timerVars, loopVars, RunstateSet, VmStop, Resume, PauseThen, Clear, Skip, Request,
  Event, Point,
            ClockUnchanged, Quiet
<1>1. CASE LoopProceeds
  BY <1>1 DEF LoopProceeds, LoopDisablesClock, ClockIsOff, TimersDone, CpusPaused,
    NothingRequested, LoopDebugs,
           LoopSuspends, LoopSuspended, LoopShutsDown, LoopResets, LoopReset, LoopWakes, LoopWoken,
           LoopPowersDown, LoopStops, LoopFills, PollReturns, LoopDispatches, LoopRunsTimers, LoopRunsTimersOn, Lists,
           RunTimers, RunStep, RunResets, RunTakes, RunChecks, RunFinds, RunSets, CallbackReturns
<1>2. CASE OutsideProceeds \/ IoThread \/ Clock \/ CallbackActs \/ GuestPanics \/ WakeupRequest
  BY <1>2 DEF OutsideProceeds, OutsideStops, OutsideNotifies, IoThread, Clock, CallbackActs,
    GuestPanics, WakeupRequest,
           RunTimers, RunStep, RunResets, RunTakes, RunChecks, RunFinds, RunSets, CallbackReturns, Tick, Lists
<1>3. ASSUME NEW r, GuestRequests(r) \/ QmpRequests(r)  PROVE Goal
  BY <1>3 DEF GuestRequests, QmpRequests, Lists
<1>4. ASSUME NEW t, DeviceDeletes(t)  PROVE Goal
  BY <1>4 DEF DeviceDeletes, Lists
<1>5. ASSUME NEW t, NEW e, NEW a, DeviceArms(t, e) \/ OutsideArms(t, e, a)  PROVE Goal
  BY <1>5 DEF DeviceArms, OutsideArms, Lists
<1>6. CASE OutsideShutsDown \/ OutsidePrepares \/ QmpArrives \/ QmpStops \/ QmpContinues
  BY <1>6 DEF OutsideShutsDown, OutsidePrepares, QmpArrives, QmpStops, QmpContinues, Lists
<1>7. CASE MainLoopEnters \/ MainLoopEntersStopped
  BY <1>7 DEF MainLoopEnters, MainLoopEntersStopped, Lists
<1>8. QED
  BY <1>1, <1>2, <1>3, <1>4, <1>5, <1>6, <1>7, Zenon DEF MainNext, MainLoopNext

(* The lists are changed by arming, deleting and taking a timer only; and   *)
(* the loop that polls is notified of a new head.                          *)
LEMMA ListsMove ==
  ASSUME MainNext
  PROVE  \/ UNCHANGED <<active, expire>>
         \/ \E l \in Lists : RunTakes(l) /\ (l = "main" => at # "poll")
         \/ \E t \in Timers : TimerDel(t)
         \/ \E t \in Timers, e \in 0 .. MaxTime :
              /\ TimerMod(t, e)
              /\ ListOf(t) = "main" /\ TimerModRearms(t, e) => at # "poll" \/ kicked' \/ outside' = "notify"
<1> DEFINE Goal == \/ UNCHANGED <<active, expire>>
                   \/ \E l \in Lists : RunTakes(l) /\ (l = "main" => at # "poll")
                   \/ \E t \in Timers : TimerDel(t)
                   \/ \E t \in Timers, e \in 0 .. MaxTime :
                        /\ TimerMod(t, e)
                        /\ ListOf(t) = "main" /\ TimerModRearms(t, e) => at # "poll" \/ kicked' \/ outside' = "notify"
<1> USE DEF timerVars, loopVars, RunstateSet, VmStop, Resume, PauseThen, Clear, Skip, Request,
  Event, Point,
            ClockUnchanged, Quiet
<1>1. CASE LoopProceeds
  BY <1>1 DEF LoopProceeds, LoopDisablesClock, ClockIsOff, TimersDone, CpusPaused,
    NothingRequested, LoopDebugs,
           LoopSuspends, LoopSuspended, LoopShutsDown, LoopResets, LoopReset, LoopWakes, LoopWoken,
           LoopPowersDown, LoopStops, LoopFills, PollReturns, LoopDispatches, LoopRunsTimers, LoopRunsTimersOn, Lists,
           RunTimers, RunStep, RunResets, RunChecks, RunFinds, RunSets, CallbackReturns
<1>2. CASE OutsideProceeds \/ IoThread \/ Clock \/ GuestPanics \/ WakeupRequest
  BY <1>2 DEF OutsideProceeds, OutsideStops, OutsideNotifies, IoThread, Clock, GuestPanics,
    WakeupRequest,
           RunTimers, RunStep, RunResets, RunChecks, RunFinds, RunSets, CallbackReturns, Tick, Lists
<1>10. CASE CallbackActs
  <2>1. \/ UNCHANGED <<active, expire>>
        \/ at # "poll" /\ \E t \in Timers, e \in 0 .. MaxTime : TimerMod(t, e)
    BY <1>10 DEF CallbackActs
  <2>2. QED
    BY <2>1
<1>3. ASSUME NEW r, GuestRequests(r) \/ QmpRequests(r)  PROVE Goal
  BY <1>3 DEF GuestRequests, QmpRequests, Lists
<1>4. ASSUME NEW t \in Timers, DeviceDeletes(t)  PROVE Goal
  BY <1>4 DEF DeviceDeletes, Lists
<1>5. ASSUME NEW t \in Timers, NEW e \in 0 .. MaxTime, DeviceArms(t, e)  PROVE Goal
  <2>1. TimerMod(t, e) /\ (ListOf(t) = "main" /\ TimerModRearms(t, e) => kicked')
    BY <1>5, Zenon DEF DeviceArms
  <2>2. QED
    BY <2>1, Zenon
<1>9. ASSUME NEW t \in Timers, NEW e \in 0 .. MaxTime, NEW a, OutsideArms(t, e, a)  PROVE Goal
  <2>1. TimerMod(t, e) /\ (ListOf(t) = "main" /\ TimerModRearms(t, e) => outside' = "notify")
    BY <1>9 DEF OutsideArms
  <2>2. QED
    BY <2>1, Zenon
<1>6. CASE OutsideShutsDown \/ OutsidePrepares \/ QmpArrives \/ QmpStops \/ QmpContinues
  BY <1>6 DEF OutsideShutsDown, OutsidePrepares, QmpArrives, QmpStops, QmpContinues, Lists
<1>7. CASE MainLoopEnters \/ MainLoopEntersStopped
  BY <1>7 DEF MainLoopEnters, MainLoopEntersStopped, Lists
<1>8. QED
  BY <1>1, <1>2, <1>3, <1>4, <1>5, <1>6, <1>7, <1>9, <1>10, Zenon DEF MainNext, MainLoopNext

Points == {"no", "reset", "check", "next", "callback", "set"}

LEMMA ThreadEffect ==
  ASSUME NEW l \in Lists, RunTimers(l) \/ RunStep(l) \/ CallbackReturns(l),
         running \in [Lists -> Points], until \in [Lists -> 0 .. MaxTime], now \in 0 .. MaxTime
  PROVE  /\ running' \in [Lists -> Points] /\ until' \in [Lists -> 0 .. MaxTime]
         /\ running'[l] \in {"next", "callback"} => running[l] \in {"next", "callback"} \/ enabled
         /\ \A m \in Lists \ {l} : running'[m] = running[m]
<1>1. \E p \in Points : running' = [running EXCEPT ![l] = p]
  BY DEF RunTimers, RunStep, CallbackReturns, RunResets, RunChecks, RunTakes, RunFinds, RunSets,
    Point, Points
<1>2. until' = until \/ until' = [until EXCEPT ![l] = now]
  BY DEF RunTimers, RunStep, CallbackReturns, RunResets, RunChecks, RunTakes, RunFinds, RunSets
<1>3. running'[l] \in {"next", "callback"} => running[l] \in {"next", "callback"} \/ enabled
  BY DEF RunTimers, RunStep, CallbackReturns, RunResets, RunChecks, RunTakes, RunFinds, RunSets,
    Point
<1>4. QED
  BY <1>1, <1>2, <1>3

(* The event of a list stays what the place of its thread says.            *)
LEMMA DoneKept ==
  ASSUME NEW l \in Lists, RunTimers(l) \/ RunStep(l) \/ CallbackReturns(l),
         running \in [Lists -> Points], DOMAIN done = Lists, done = [m \in Lists |-> done[m]], DoneInv
  PROVE  DoneInv'
<1>1. CASE RunTimers(l) \/ CallbackReturns(l) \/ RunChecks(l) \/ RunTakes(l) \/ RunFinds(l)
  <2>1. done' = done
    BY <1>1 DEF RunTimers, CallbackReturns, RunChecks, RunTakes, RunFinds
  <2>2. \A m \in Lists : running'[m] \in {"no", "reset"} <=> running[m] \in {"no", "reset"}
    BY <1>1 DEF RunTimers, CallbackReturns, RunChecks, RunTakes, RunFinds, Point
  <2>3. QED
    BY <2>1, <2>2 DEF DoneInv
<1>2. CASE RunResets(l)
  <2>1. running' = [running EXCEPT ![l] = "check"] /\ done' = [done EXCEPT ![l] = FALSE]
    BY <1>2 DEF RunResets, Point, EventReset
  <2>2. QED
    BY <2>1 DEF DoneInv
<1>3. CASE RunSets(l)
  <2>1. running' = [running EXCEPT ![l] = "no"] /\ done' = [done EXCEPT ![l] = TRUE]
    BY <1>3 DEF RunSets, Point
  <2>2. QED
    BY <2>1 DEF DoneInv
<1>4. QED
  BY <1>1, <1>2, <1>3 DEF RunStep

-----------------------------------------------------------------------------
(* The invariant, part by part, over a step of the loop or beside it.      *)
LEMMA ThreadsKept ==
  ASSUME MainNext, running \in [Lists -> Points], until \in [Lists -> 0 .. MaxTime], now \in 0 .. MaxTime,
         done \in [Lists -> BOOLEAN], DoneInv
  PROVE  /\ running' \in [Lists -> Points] /\ until' \in [Lists -> 0 .. MaxTime]
         /\ DoneInv'
         /\ \A l \in Lists : running'[l] \in {"next", "callback"} => running[l] \in {"next", "callback"} \/ enabled
<1>1. CASE UNCHANGED <<done, running, until>>
  BY <1>1 DEF DoneInv
<1>2. ASSUME NEW l \in Lists, RunTimers(l) \/ RunStep(l) \/ CallbackReturns(l)
      PROVE  /\ running' \in [Lists -> Points] /\ until' \in [Lists -> 0 .. MaxTime]
             /\ DoneInv'
             /\ \A m \in Lists :
                  running'[m] \in {"next", "callback"} => running[m] \in {"next", "callback"} \/ enabled
  <2>1. DOMAIN done = Lists /\ done = [m \in Lists |-> done[m]]
    BY Zenon
  <2>2. DoneInv'
    BY <1>2, <2>1, DoneKept
  <2>3. /\ running' \in [Lists -> Points] /\ until' \in [Lists -> 0 .. MaxTime]
        /\ running'[l] \in {"next", "callback"} => running[l] \in {"next", "callback"} \/ enabled
        /\ \A m \in Lists \ {l} : running'[m] = running[m]
    BY <1>2, ThreadEffect
  <2>4. QED
    BY <2>2, <2>3
<1>3. QED
  BY <1>1, <1>2, ThreadMoves

LEMMA DoneTypeKept ==
  ASSUME MainNext, done \in [Lists -> BOOLEAN]
  PROVE  done' \in [Lists -> BOOLEAN]
<1>1. CASE UNCHANGED done
  BY <1>1
<1>2. ASSUME NEW l \in Lists, RunTimers(l) \/ RunStep(l) \/ CallbackReturns(l)
      PROVE  done' \in [Lists -> BOOLEAN]
  <2>1. \/ done' = done
        \/ done' = [done EXCEPT ![l] = FALSE]
        \/ done' = [done EXCEPT ![l] = TRUE]
    BY <1>2 DEF RunTimers, RunStep, CallbackReturns, RunResets, RunChecks, RunTakes, RunFinds,
      RunSets, EventReset
  <2>2. QED
    BY <2>1
<1>3. QED
  BY <1>1, <1>2, ThreadMoves

LEMMA ClockSilentKept ==
  ASSUME MainNext, running \in [Lists -> Points], until \in [Lists -> 0 .. MaxTime], now \in 0 .. MaxTime,
         done \in [Lists -> BOOLEAN], DoneInv, ClockSilent
  PROVE  ClockSilent'
<1> SUFFICES ASSUME ~enabled', at' # "timersDone"
             PROVE  \A l \in Lists : running'[l] \notin {"next", "callback"}
  BY DEF ClockSilent
<1>1. ~enabled
  BY ClockStaysOn
<1>2. CASE at = "timersDone"
  <2>1. TimersDone
    BY <1>2, ClockSwitched
  <2>2. running' = running /\ \A l \in Lists : done[l]
    BY <2>1 DEF TimersDone, timerVars
  <2>3. QED
    BY <2>2 DEF DoneInv
<1>3. CASE at # "timersDone"
  <2>1. \A l \in Lists : running[l] \notin {"next", "callback"}
    BY <1>1, <1>3 DEF ClockSilent
  <2>2. \A l \in Lists : running'[l] \in {"next", "callback"} => running[l] \in {"next", "callback"} \/ enabled
    BY ThreadsKept
  <2>3. QED
    BY <1>1, <2>1, <2>2
<1>4. QED
  BY <1>2, <1>3

(* In every list the timers are armed: the head has a time.                *)
LEMMA HeadIsArmed ==
  ASSUME TimersInv, NEW l \in Lists, active[l] # <<>>
  PROVE  Head(active[l]) \in Timers /\ expire[Head(active[l])] \in 0 .. MaxTime
<1>1. active[l] \in Seq(Timers) /\ Holds(active[l], Armed(l))
  BY DEF TimersInv
<1>2. Head(active[l]) = active[l][1] /\ 1 \in 1 .. Len(active[l])
  BY <1>1
<1>3. Head(active[l]) \in Armed(l)
  BY <1>1, <1>2 DEF Holds
<1>4. QED
  BY <1>3, TimersAssumption DEF Armed, TimersInv, Inactive

LEMMA ListsKept ==
  ASSUME MainNext, TimersInv
  PROVE  /\ TimersInv'
         /\ at = "poll" /\ ~kicked' /\ outside' # "notify" => HeadDelayed
<1>1. CASE UNCHANGED <<active, expire>>
  <2>1. TimersInv'
    BY <1>1 DEF TimersInv, Armed
  <2>2. ASSUME active'["main"] # <<>>
        PROVE  active["main"] # <<>> /\ expire[Head(active["main"])] <= expire'[Head(active'["main"])]
    <3>1. "main" \in Lists /\ active["main"] # <<>>
      BY <1>1, <2>2 DEF Lists
    <3>2. expire[Head(active["main"])] \in Int
      BY <3>1, HeadIsArmed
    <3>3. QED
      BY <1>1, <3>1, <3>2
  <2>3. HeadDelayed
    BY <2>2 DEF HeadDelayed
  <2>4. QED
    BY <2>1, <2>3
<1>2. CASE \E l \in Lists : RunTakes(l) /\ (l = "main" => at # "poll")
  BY <1>2, RunTakesEffect
<1>3. CASE \E t \in Timers : TimerDel(t)
  BY <1>3, TimerDelEffect
<1>4. CASE \E t \in Timers, e \in 0 .. MaxTime :
             /\ TimerMod(t, e)
             /\ ListOf(t) = "main" /\ TimerModRearms(t, e) => at # "poll" \/ kicked' \/ outside' = "notify"
  BY <1>4, TimerModEffect
<1>5. QED
  BY <1>1, <1>2, <1>3, <1>4, ListsMove

LEMMA SleepKept ==
  ASSUME MainNext, TimersInv, ThenInv, SleepInv, sleep \in Inactive .. MaxTime
  PROVE  SleepInv'
<1> SUFFICES ASSUME at' = "poll", ~kicked', outside' # "notify", enabled', active'["main"] # <<>>
             PROVE  sleep' # Inactive /\ sleep' <= expire'[Head(active'["main"])]
  BY DEF SleepInv
<1>1. "main" \in Lists
  BY DEF Lists
<1>2. CASE at = "poll"
  <2>1. sleep' = sleep /\ enabled /\ outside # "notify"
    BY <1>2, PollKept
  <2>2. ~kicked
    BY <1>2, KickKept
  <2>3. active["main"] # <<>> /\ expire[Head(active["main"])] <= expire'[Head(active'["main"])]
    BY <1>2, ListsKept DEF HeadDelayed
  <2>4. sleep # Inactive /\ sleep <= expire[Head(active["main"])]
    BY <1>2, <2>1, <2>2, <2>3 DEF SleepInv
  <2>5. expire[Head(active["main"])] \in Int
    BY <1>1, <2>3, HeadIsArmed
  <2>6. TimersInv'
    BY ListsKept
  <2>7. expire'[Head(active'["main"])] \in Int
    <3>1. Head(active'["main"]) \in Timers
      <4>1. active'["main"] \in Seq(Timers)
        BY <1>1, <2>6 DEF TimersInv
      <4>2. QED
        BY <4>1
    <3>2. QED
      BY <2>6, <3>1, TimersAssumption DEF TimersInv, Inactive
  <2>8. sleep \in Int
    BY TimersAssumption DEF Inactive
  <2>9. QED
    BY <2>1, <2>3, <2>4, <2>5, <2>7, <2>8
<1>3. CASE at # "poll"
  <2>1. LoopFills
    BY <1>3, PollEntered
  <2>2. sleep' = Deadline("main") /\ active' = active /\ expire' = expire /\ enabled' = enabled
    BY <2>1 DEF LoopFills, timerVars
  <2>3. Deadline("main") = expire[Head(active["main"])]
    BY <2>2 DEF Deadline
  <2>4. expire[Head(active["main"])] \in 0 .. MaxTime
    BY <1>1, <2>2, HeadIsArmed
  <2>5. QED
    BY <2>2, <2>3, <2>4 DEF Inactive
<1>4. QED
  BY <1>2, <1>3

LEMMA TypeKept ==
  ASSUME MainNext, LoopInv
  PROVE  MainLoopTypeOK'
<1> USE DEF LoopInv
<1>1. ThenInv /\ TimersInv /\ DoneInv
  BY Zenon
<1>2. /\ at \in Places /\ requested \subseteq Requests /\ sleep \in Inactive .. MaxTime /\ now \in 0 .. MaxTime
      /\ events \in 0 .. MaxRequests /\ until \in [Lists -> 0 .. MaxTime]
  BY Zenon DEF MainLoopTypeOK, Places
<1>3. suspended \in BOOLEAN /\ cpusRun \in BOOLEAN /\ enabled \in BOOLEAN /\ kicked \in BOOLEAN
  BY Zenon DEF MainLoopTypeOK
<1>4. done \in [Lists -> BOOLEAN] /\ running \in [Lists -> Points]
  BY Zenon DEF MainLoopTypeOK, Points
<1>5. at' \in Places
  BY <1>1, <1>2, AtKept
<1>6. runstate' \in RunStates /\ vmstop' \in RunStates \cup {"none"}
  <2>1. RunstateInv'
    BY <1>1, RunstateKept
  <2>2. QED
    BY <2>1 DEF RunstateInv, Reached, RunStates
<1>7. requested' \subseteq Requests /\ now' \in 0 .. MaxTime /\ events' \in 0 .. MaxRequests
  BY <1>2, RequestedKept, NowKept, EventsKept
<1>8. sleep' \in Inactive .. MaxTime
  <2>1. CASE LoopFills
    <3>1. CASE active["main"] = <<>> \/ ~enabled
      BY <2>1, <3>1, TimersAssumption DEF LoopFills, Deadline, Inactive
    <3>2. CASE active["main"] # <<>> /\ enabled
      <4>1. "main" \in Lists /\ expire[Head(active["main"])] \in 0 .. MaxTime
        BY <1>1, <3>2, HeadIsArmed DEF Lists
      <4>2. QED
        BY <2>1, <3>2, <4>1 DEF LoopFills, Deadline, Inactive
    <3>3. QED
      BY <3>1, <3>2
  <2>2. QED
    BY <1>2, <2>1, SleepMoves
<1>9. {suspended', cpusRun', enabled', kicked'} \subseteq BOOLEAN
  <2>1. suspended' \in BOOLEAN /\ cpusRun' \in BOOLEAN /\ enabled' \in BOOLEAN /\ kicked' \in BOOLEAN
    BY <1>3, SuspendedKept, CpusRunKept, EnabledKept, KickedKept
  <2>2. QED
    BY <2>1, Zenon
<1>10. expire' \in [Timers -> Inactive .. MaxTime]
  BY <1>1, ListsKept DEF TimersInv
<1>11. until' \in [Lists -> 0 .. MaxTime] /\ running' \in [Lists -> Points]
  BY <1>1, <1>2, <1>4, ThreadsKept
<1>12. done' \in [Lists -> BOOLEAN]
  BY <1>4, DoneTypeKept
<1>13. QED
  BY <1>5, <1>6, <1>7, <1>8, <1>9, <1>10, <1>11, <1>12, Zenon DEF MainLoopTypeOK, Places, Points

LEMMA LoopInvKept ==
  ASSUME LoopInv, [MainNext]_mainVars
  PROVE  LoopInv'
<1>1. CASE MainNext
  <2>1. MainLoopTypeOK /\ TimersInv /\ DoneInv /\ ClockSilent /\ RunstateInv /\ ThenInv /\ SleepInv
    BY Zenon DEF LoopInv
  <2>2. /\ running \in [Lists -> Points] /\ until \in [Lists -> 0 .. MaxTime] /\ now \in 0 .. MaxTime
        /\ done \in [Lists -> BOOLEAN] /\ sleep \in Inactive .. MaxTime
    BY <2>1, Zenon DEF MainLoopTypeOK, Points
  <2>3. MainLoopTypeOK'
    BY <1>1, TypeKept
  <2>4. TimersInv'
    BY <1>1, <2>1, ListsKept
  <2>5. DoneInv'
    BY <1>1, <2>1, <2>2, ThreadsKept
  <2>6. ClockSilent'
    BY <1>1, <2>1, <2>2, ClockSilentKept
  <2>7. RunstateInv'
    BY <1>1, <2>1, RunstateKept
  <2>8. ThenInv'
    BY <1>1, <2>1, PlaceOfLoop
  <2>9. SleepInv'
    BY <1>1, <2>1, <2>2, SleepKept
  <2>10. QED
    BY <2>3, <2>4, <2>5, <2>6, <2>7, <2>8, <2>9, Zenon DEF LoopInv
<1>2. CASE UNCHANGED mainVars
  <2>1. UNCHANGED <<timerVars, loopVars>>
    BY <1>2 DEF mainVars
  <2>2. /\ UNCHANGED <<now, enabled, active, expire, done, running, until, kicked>>
        /\ UNCHANGED <<at, then, sleep, runstate, suspended, cpusRun, requested, vmstop, outside, broken, events>>
    BY <2>1 DEF timerVars, loopVars
  <2>3. MainLoopTypeOK' = MainLoopTypeOK /\ TimersInv' = TimersInv /\ DoneInv' = DoneInv
    BY <2>2 DEF MainLoopTypeOK, TimersInv, Armed, DoneInv
  <2>4. ClockSilent' = ClockSilent /\ RunstateInv' = RunstateInv /\ ThenInv' = ThenInv /\ SleepInv' = SleepInv
    BY <2>2 DEF ClockSilent, RunstateInv, ThenInv, SleepInv
  <2>5. QED
    BY <2>3, <2>4, Zenon DEF LoopInv
<1>3. QED
  BY <1>1, <1>2

LEMMA LoopInvInit ==
  ASSUME MainLoopInit
  PROVE  LoopInv
<1> USE DEF MainLoopInit, TimersInit
<1>1. MainLoopTypeOK
  <2>1. /\ at \in Places /\ runstate \in RunStates /\ vmstop \in RunStates \cup {"none"}
        /\ requested \subseteq Requests /\ sleep \in Inactive .. MaxTime /\ now \in 0 .. MaxTime
        /\ events \in 0 .. MaxRequests
    BY TimersAssumption, RequestsAssumption DEF Places, RunStates, Inactive
  <2>2. {suspended, cpusRun, enabled, kicked} \subseteq BOOLEAN /\ done \in [Lists -> BOOLEAN]
    BY Zenon
  <2>3. /\ expire \in [Timers -> Inactive .. MaxTime] /\ until \in [Lists -> 0 .. MaxTime]
        /\ running \in [Lists -> Points]
    BY TimersAssumption DEF Points, Inactive
  <2>4. QED
    BY <2>1, <2>2, <2>3, Zenon DEF MainLoopTypeOK, Places, Points
<1>2. TimersInv
  <2>1. active \in [Lists -> Seq(Timers)] /\ expire \in [Timers -> Inactive .. MaxTime]
    BY TimersAssumption DEF Inactive
  <2>2. \A l \in Lists : active[l] = <<>> /\ Armed(l) = {}
    BY DEF Armed
  <2>3. \A l \in Lists : Holds(active[l], Armed(l)) /\ Sorted(expire, active[l])
    BY <2>2 DEF Holds, Sorted
  <2>4. QED
    BY <2>1, <2>3 DEF TimersInv
<1>3. DoneInv /\ ClockSilent
  BY DEF DoneInv, ClockSilent
<1>4. RunstateInv /\ ThenInv /\ SleepInv
  BY DEF RunstateInv, Reached, ThenInv, SleepInv
<1>5. QED
  BY <1>1, <1>2, <1>3, <1>4, Zenon DEF LoopInv

(* A step of the session is one of the loop, or leaves it alone.           *)
LEMMA SessionInvariant == SessionSpec => []LoopInv
<1>1. SessionInit => LoopInv
  BY LoopInvInit DEF SessionInit
<1>2. [SessionNext]_sessionVars => [MainNext]_mainVars
  <2>1. SessionBoots \/ SessionEnds => UNCHANGED mainVars
    BY DEF SessionBoots, SessionEnds
  <2>2. SessionEnters \/ SessionRuns => MainNext
    BY DEF SessionEnters, SessionRuns, MainNext
  <2>3. UNCHANGED sessionVars => UNCHANGED mainVars
    BY DEF sessionVars
  <2>4. QED
    BY <2>1, <2>2, <2>3 DEF SessionNext
<1>3. LoopInv /\ [SessionNext]_sessionVars => LoopInv'
  BY <1>2, LoopInvKept
<1>4. QED
  BY <1>1, <1>3, PTL DEF SessionSpec

-----------------------------------------------------------------------------
(* Once the clock of the VM was switched off and waited for, no timer of   *)
(* it runs in any thread until it is switched on again: pause_all_vcpus    *)
(* over timerlist_run_timers, for any timers on the two lists.             *)
THEOREM ClockSilentAlways == SessionSpec => []ClockSilent
<1>1. LoopInv => ClockSilent
  BY Zenon DEF LoopInv
<1>2. QED
  BY <1>1, SessionInvariant, PTL

(* runstate_set does not abort the process, in whatever order the requests *)
(* are made and served, except in a move from or to the suspended state.   *)
THEOREM NoInvalidTransitionAlways == SessionSpec => []NoInvalidTransition
<1>1. LoopInv => NoInvalidTransition
  BY Zenon DEF LoopInv, RunstateInv, NoInvalidTransition
<1>2. QED
  BY <1>1, SessionInvariant, PTL

(* The lists stay in order under arming, deleting and taking timers, and   *)
(* the poll ends before the first timer is due, unless who armed that one  *)
(* is about to notify the loop.                                            *)
THEOREM NoOversleepAlways == SessionSpec => []NoOversleep
<1>1. LoopInv => ListsSorted
  <2> SUFFICES ASSUME LoopInv, NEW l \in Lists
               PROVE  /\ IsInjective(active[l])
                      /\ {active[l][i] : i \in DOMAIN active[l]} = {t \in Timers : ListOf(t) = l /\ expire[t] # Inactive}
                      /\ \A i \in 1 .. Len(active[l]) - 1 : expire[active[l][i]] <= expire[active[l][i + 1]]
    BY DEF ListsSorted
  <2>1. active[l] \in Seq(Timers) /\ Holds(active[l], Armed(l)) /\ Sorted(expire, active[l])
    BY DEF LoopInv, TimersInv
  <2>2. DOMAIN active[l] = 1 .. Len(active[l])
    BY <2>1
  <2>3. IsInjective(active[l])
    BY <2>1, <2>2 DEF Holds, IsInjective
  <2>4. {active[l][i] : i \in DOMAIN active[l]} = Armed(l)
    BY <2>1, <2>2 DEF Holds
  <2>5. \A i \in 1 .. Len(active[l]) - 1 : expire[active[l][i]] <= expire[active[l][i + 1]]
    BY <2>1 DEF Sorted
  <2>6. QED
    BY <2>3, <2>4, <2>5 DEF Armed
<1>2. LoopInv => NoOversleep
  BY <1>1, Zenon DEF LoopInv, SleepInv, NoOversleep
<1>3. QED
  BY <1>2, SessionInvariant, PTL

-----------------------------------------------------------------------------
(***************************************************************************)
(* The starts of a VM and their command lines.                             *)
(***************************************************************************)

(* The names that the options of s declare.                                *)
Held(s) == UNION {s[i].holds : i \in DOMAIN s}

(* s can stand behind options that hold B: each of its options finds the   *)
(* names it needs in front of it and declares new ones.                    *)
InOrder(s, B) ==
  \A i \in DOMAIN s :
    /\ \A n \in s[i].needs : n \in B \/ \E j \in 1 .. i - 1 : n \in s[j].holds
    /\ \A n \in s[i].holds : n \notin B /\ \A j \in 1 .. i - 1 : n \notin s[j].holds

(* A part of the command line behind B, with names from H and files of A.  *)
Part(s, B, H, A) ==
  /\ \E P : s \in Seq(P)
  /\ InOrder(s, B)
  /\ Held(s) \subseteq H
  /\ \A i \in DOMAIN s : s[i].opens \subseteq A

-----------------------------------------------------------------------------
(* Two parts, the second behind the first.                                 *)
LEMMA Chain ==
  ASSUME NEW s, NEW t, NEW B, NEW H, NEW G, NEW A,
         Part(s, B, H, A), Part(t, B \cup Held(s), G, A)
  PROVE  Part(s \o t, B, H \cup G, A) /\ Held(s \o t) = Held(s) \cup Held(t)
<1>1. PICK P : s \in Seq(P)
  BY DEF Part
<1>2. PICK Q : t \in Seq(Q)
  BY DEF Part
<1>3. s \in Seq(P \cup Q) /\ t \in Seq(P \cup Q)
  BY <1>1, <1>2
<1>4. /\ s \o t \in Seq(P \cup Q)
      /\ DOMAIN s = 1 .. Len(s) /\ DOMAIN t = 1 .. Len(t)
      /\ DOMAIN (s \o t) = 1 .. Len(s) + Len(t)
      /\ Len(s) \in Nat /\ Len(t) \in Nat
  BY <1>3
<1>5. \A i \in 1 .. Len(s) + Len(t) : (s \o t)[i] = IF i <= Len(s) THEN s[i] ELSE t[i - Len(s)]
  BY <1>3
<1>6. Held(s \o t) = Held(s) \cup Held(t)
  <2>1. ASSUME NEW n \in Held(s \o t)  PROVE n \in Held(s) \cup Held(t)
    <3>1. PICK i \in 1 .. Len(s) + Len(t) : n \in (s \o t)[i].holds
      BY <2>1, <1>4 DEF Held
    <3>2. CASE i <= Len(s)
      BY <3>1, <3>2, <1>4, <1>5 DEF Held
    <3>3. CASE i > Len(s)
      <4>1. i - Len(s) \in 1 .. Len(t) /\ (s \o t)[i] = t[i - Len(s)]
        BY <3>3, <1>4, <1>5
      <4> QED
        BY <3>1, <4>1, <1>4 DEF Held
    <3> QED
      BY <3>2, <3>3, <1>4
  <2>2. ASSUME NEW n \in Held(s)  PROVE n \in Held(s \o t)
    <3>1. PICK i \in 1 .. Len(s) : n \in s[i].holds
      BY <2>2, <1>4 DEF Held
    <3>2. i \in 1 .. Len(s) + Len(t) /\ (s \o t)[i] = s[i]
      BY <1>4, <1>5
    <3> QED
      BY <3>1, <3>2, <1>4 DEF Held
  <2>3. ASSUME NEW n \in Held(t)  PROVE n \in Held(s \o t)
    <3>1. PICK i \in 1 .. Len(t) : n \in t[i].holds
      BY <2>3, <1>4 DEF Held
    <3>2. i + Len(s) \in 1 .. Len(s) + Len(t) /\ (s \o t)[i + Len(s)] = t[i]
      BY <1>4, <1>5
    <3> QED
      BY <3>1, <3>2, <1>4 DEF Held
  <2> QED
    BY <2>1, <2>2, <2>3
<1>7. InOrder(s \o t, B)
  <2> SUFFICES ASSUME NEW i \in 1 .. Len(s) + Len(t)
               PROVE  /\ \A n \in (s \o t)[i].needs : n \in B \/ \E j \in 1 .. i - 1 : n \in (s \o t)[j].holds
                      /\ \A n \in (s \o t)[i].holds : n \notin B /\ \A j \in 1 .. i - 1 : n \notin (s \o t)[j].holds
    BY <1>4 DEF InOrder
  <2>1. CASE i <= Len(s)
    <3>1. i \in DOMAIN s /\ (s \o t)[i] = s[i]
      BY <2>1, <1>4, <1>5
    <3>2. \A j \in 1 .. i - 1 : (s \o t)[j] = s[j]
      BY <2>1, <1>4, <1>5
    <3> QED
      BY <3>1, <3>2 DEF Part, InOrder
  <2>2. CASE i > Len(s)
    <3> DEFINE k == i - Len(s)
    <3>1. k \in DOMAIN t /\ (s \o t)[i] = t[k]
      BY <2>2, <1>4, <1>5
    <3>2. /\ \A n \in t[k].needs : n \in B \cup Held(s) \/ \E j \in 1 .. k - 1 : n \in t[j].holds
          /\ \A n \in t[k].holds : n \notin B \cup Held(s) /\ \A j \in 1 .. k - 1 : n \notin t[j].holds
      BY <3>1 DEF Part, InOrder
    <3>3. \A j \in 1 .. i - 1 :
            \/ j \in DOMAIN s /\ (s \o t)[j] = s[j]
            \/ j - Len(s) \in 1 .. k - 1 /\ (s \o t)[j] = t[j - Len(s)]
      BY <2>2, <1>4, <1>5
    <3>4. \A j \in 1 .. k - 1 : j + Len(s) \in 1 .. i - 1 /\ (s \o t)[j + Len(s)] = t[j]
      BY <2>2, <1>4, <1>5
    <3>5. \A j \in DOMAIN s : j \in 1 .. i - 1 /\ (s \o t)[j] = s[j]
      BY <2>2, <1>4, <1>5
    <3> HIDE DEF k
    <3>6. ASSUME NEW n \in t[k].needs, n \notin B  PROVE \E j \in 1 .. i - 1 : n \in (s \o t)[j].holds
      <4>1. CASE n \in Held(s)
        BY <4>1, <3>5 DEF Held
      <4>2. CASE \E j \in 1 .. k - 1 : n \in t[j].holds
        BY <4>2, <3>4
      <4> QED
        BY <3>2, <3>6, <4>1, <4>2
    <3>7. ASSUME NEW n \in t[k].holds  PROVE n \notin B /\ \A j \in 1 .. i - 1 : n \notin (s \o t)[j].holds
      BY <3>2, <3>3 DEF Held
    <3> QED
      BY <3>1, <3>6, <3>7
  <2> QED
    BY <2>1, <2>2, <1>4
<1>8. \A i \in DOMAIN (s \o t) : (s \o t)[i].opens \subseteq A
  <2> SUFFICES ASSUME NEW i \in 1 .. Len(s) + Len(t)  PROVE (s \o t)[i].opens \subseteq A
    BY <1>4
  <2>1. \/ i \in DOMAIN s /\ (s \o t)[i] = s[i]
        \/ i - Len(s) \in DOMAIN t /\ (s \o t)[i] = t[i - Len(s)]
    BY <1>4, <1>5
  <2> QED
    BY <2>1 DEF Part
<1> QED
  BY <1>4, <1>6, <1>7, <1>8 DEF Part

LEMMA NoOption ==
  ASSUME NEW B, NEW H, NEW A
  PROVE  Part(<<>>, B, H, A) /\ Held(<<>>) = {}
<1>1. <<>> \in Seq({}) /\ DOMAIN <<>> = {}
  OBVIOUS
<1> QED
  BY <1>1 DEF Part, InOrder, Held

LEMMA OneOption ==
  ASSUME NEW o, NEW B, NEW H, NEW A,
         o.needs \subseteq B, o.holds \cap B = {}, o.holds \subseteq H, o.opens \subseteq A
  PROVE  Part(<<o>>, B, H, A) /\ Held(<<o>>) = o.holds
<1>1. <<o>> \in Seq({o})
  OBVIOUS
<1>2. DOMAIN <<o>> = {1} /\ <<o>>[1] = o
  OBVIOUS
<1> DEFINE s == <<o>>
<1> HIDE DEF s
<1>3. Held(s) = o.holds
  BY <1>2 DEF Held, s
<1>4. InOrder(s, B)
  <2>1. 1 .. 1 - 1 = {}
    OBVIOUS
  <2> QED
    BY <1>2, <2>1 DEF InOrder, s
<1>5. Part(s, B, H, A)
  BY <1>1, <1>2, <1>3, <1>4 DEF Part, s
<1> QED
  BY <1>3, <1>5 DEF s

LEMMA TwoOptions ==
  ASSUME NEW o, NEW p, NEW B, NEW H, NEW A,
         o.needs \subseteq B, o.holds \cap B = {}, o.holds \subseteq H, o.opens \subseteq A,
         p.needs \subseteq B \cup o.holds, p.holds \cap (B \cup o.holds) = {}, p.holds \subseteq H, p.opens \subseteq A
  PROVE  Part(<<o, p>>, B, H, A) /\ Held(<<o, p>>) = o.holds \cup p.holds
<1>1. Part(<<o>>, B, H, A) /\ Held(<<o>>) = o.holds
  BY OneOption
<1>2. Part(<<p>>, B \cup o.holds, H, A) /\ Held(<<p>>) = p.holds
  BY OneOption
<1>3. <<o>> \o <<p>> = <<o, p>>
  <2>1. <<o>> \in Seq({o, p}) /\ <<p>> \in Seq({o, p}) /\ <<o, p>> \in Seq({o, p})
    OBVIOUS
  <2>2. <<o>> \o <<p>> \in Seq({o, p}) /\ Len(<<o>> \o <<p>>) = 2 /\ Len(<<o, p>>) = 2
    BY <2>1
  <2>3. (<<o>> \o <<p>>)[1] = o /\ (<<o>> \o <<p>>)[2] = p
    BY <2>1
  <2>4. \A i \in 1 .. 2 : i = 1 \/ i = 2
    OBVIOUS
  <2>5. \A i \in 1 .. 2 : (<<o>> \o <<p>>)[i] = <<o, p>>[i]
    BY <2>3, <2>4
  <2> QED
    BY <2>1, <2>2, <2>5, SeqEqual
<1>4. H \cup H = H
  OBVIOUS
<1>5. Part(<<o>> \o <<p>>, B, H \cup H, A) /\ Held(<<o>> \o <<p>>) = o.holds \cup p.holds
  BY <1>1, <1>2, Chain
<1> QED
  BY <1>3, <1>4, <1>5

(* Options without names and files.                                        *)
LEMMA PlainOptions ==
  ASSUME NEW P, NEW s \in Seq(P), NEW B, NEW H, NEW A,
         \A i \in DOMAIN s : s[i].holds = {} /\ s[i].needs = {} /\ s[i].opens = {}
  PROVE  Part(s, B, H, A) /\ Held(s) = {}
  BY DEF Part, InOrder, Held

LEMMA Wider ==
  ASSUME NEW s, NEW B, NEW H, NEW G, NEW A, Part(s, B, H, A), H \subseteq G
  PROVE  Part(s, B, G, A)
  BY DEF Part
-----------------------------------------------------------------------------
(* What an option declares, needs and opens.                               *)
LEMMA Options ==
  /\ \A opt, value : LET o == Flag(opt, value) IN o.holds = {} /\ o.needs = {} /\ o.opens = {}
  /\ \A opt, value, id : LET o == Backend(opt, value, id) IN o.holds = {id} /\ o.needs = {} /\ o.opens = {}
  /\ \A file, id, mode :
       LET o == Drive(file, id, mode) IN o.holds = {id} /\ o.needs = {} /\ o.opens = {<<file, mode>>}
  /\ \A model, holds, needs :
       LET o == Device(model, holds, needs) IN o.holds = holds /\ o.needs = needs /\ o.opens = {}
  /\ \A model, holds, needs, index :
       LET o == BootsAt(Device(model, holds, needs), index) IN o.holds = holds /\ o.needs = needs /\ o.opens = {}
  BY DEF Flag, Backend, Drive, Device, BootsAt

(* One lemma for each part of BuildQemuArgs.                               *)
LEMMA DataDirPart ==
  ASSUME NEW c, NEW f, NEW A
  PROVE  Part(DataDirArgs(c, f), {}, {}, A)
  BY OneOption, Options DEF DataDirArgs

LEMMA MachinePart ==
  ASSUME NEW c, NEW B, NEW A
  PROVE  Part(MachineArgs(c), B, {}, A)
  BY OneOption, Options, ZenonT(30) DEF MachineArgs

LEMMA RngPart ==
  ASSUME NEW c, NEW B, NEW A, B \cap {"rng", "front.rng"} = {}
  PROVE  Part(RngArgs(c), B, {"rng", "front.rng"}, A)
<1>1. CASE OnVirt(c)
  BY <1>1, TwoOptions, Options DEF RngArgs
<1>2. CASE ~OnVirt(c)
  BY <1>2, NoOption DEF RngArgs
<1> QED
  BY <1>1, <1>2

LEMMA TpmPart ==
  ASSUME NEW c, NEW B, NEW A, B \cap {"tpm0", "front.tpm0"} = {}
  PROVE  Part(TpmArgs(c), B, {"tpm0", "front.tpm0"}, A)
<1>1. CASE OnVirt(c)
  BY <1>1, TwoOptions, Options DEF TpmArgs
<1>2. CASE ~OnVirt(c)
  BY <1>2, NoOption DEF TpmArgs
<1> QED
  BY <1>1, <1>2

LEMMA CpuPart ==
  ASSUME NEW c, NEW B, NEW A
  PROVE  Part(CpuArgs(c), B, {}, A)
<1> DEFINE s == CpuArgs(c)
<1>1. PICK w : s = <<Flag("-cpu", w), Flag("-smp", c.cpuCount), Flag("-m", c.memoryMB), Flag("-accel", c.accel)>>
  BY DEF CpuArgs
<1>2. s \in Seq({s[1], s[2], s[3], s[4]}) /\ DOMAIN s = {1, 2, 3, 4}
  BY <1>1
<1>3. \A i \in DOMAIN s : s[i].holds = {} /\ s[i].needs = {} /\ s[i].opens = {}
  BY <1>1, <1>2, Options
<1> HIDE DEF s
<1>4. Part(s, B, {}, A)
  BY <1>2, <1>3, PlainOptions
<1> QED
  BY <1>4 DEF s

LEMMA FirmwarePart ==
  ASSUME NEW f, NEW from, NEW B, NEW A, B \cap {"pflash0", "pflash1"} = {},
         FirmwareExists(f) => <<"code", "ro">> \in A /\ (from # "none" => <<from, "rw">> \in A)
  PROVE  Part(FirmwareArgs(f, from), B, {"pflash0", "pflash1"}, A)
<1>1. CASE ~FirmwareExists(f)
  BY <1>1, NoOption DEF FirmwareArgs
<1>2. CASE FirmwareExists(f)
  <2> DEFINE code == <<Drive("code", "pflash0", "ro")>>
             rest == IF from = "none" THEN <<>> ELSE <<Drive(from, "pflash1", "rw")>>
  <2> DEFINE o == Drive("code", "pflash0", "ro")
  <2>0. o.holds = {"pflash0"} /\ o.needs = {} /\ o.opens = {<<"code", "ro">>}
    BY Options
  <2>1. Part(code, B, {"pflash0", "pflash1"}, A) /\ Held(code) = {"pflash0"}
    <3> HIDE DEF o
    <3>1. Part(<<o>>, B, {"pflash0", "pflash1"}, A) /\ Held(<<o>>) = {"pflash0"}
      BY <1>2, <2>0, OneOption
    <3> QED
      BY <3>1 DEF o
  <2>2. Part(rest, B \cup {"pflash0"}, {"pflash0", "pflash1"}, A)
    BY <1>2, OneOption, NoOption, Options
  <2>3. FirmwareArgs(f, from) = code \o rest
    BY <1>2 DEF FirmwareArgs
  <2> HIDE DEF code, rest
  <2> QED
    <3>1. Part(code \o rest, B, {"pflash0", "pflash1"} \cup {"pflash0", "pflash1"}, A)
      BY <2>1, <2>2, Chain
    <3>2. {"pflash0", "pflash1"} \cup {"pflash0", "pflash1"} = {"pflash0", "pflash1"}
      OBVIOUS
    <3> QED
      BY <2>3, <3>1, <3>2
<1> QED
  BY <1>1, <1>2

(* The controller of the SATA devices is there whenever one of them is.    *)
LEMMA SataPart ==
  ASSUME NEW c, NEW f, NEW B, NEW A, "ahci" \notin B
  PROVE  /\ Part(SataArgs(c, f), B, {"ahci"}, A)
         /\ OnVirt(c) /\ IsWindows(c) /\ (HasDisk(f) \/ IsoReadable(c, f)) => Held(SataArgs(c, f)) = {"ahci"}
<1>1. CASE OnVirt(c) /\ IsWindows(c) /\ (HasDisk(f) \/ IsoReadable(c, f))
  <2> DEFINE o == Device("ich9-ahci", {"ahci"}, {})
  <2>1. o.holds = {"ahci"} /\ o.needs = {} /\ o.opens = {}
    BY Options
  <2>2. SataArgs(c, f) = <<o>>
    BY <1>1 DEF SataArgs
  <2> HIDE DEF o
  <2> QED
    BY <2>1, <2>2, OneOption
<1>2. CASE ~(OnVirt(c) /\ IsWindows(c) /\ (HasDisk(f) \/ IsoReadable(c, f)))
  BY <1>2, NoOption DEF SataArgs
<1> QED
  BY <1>1, <1>2

LEMMA DiskPart ==
  ASSUME NEW c, NEW f, NEW B, NEW A, B \cap {"hd0", "front.hd0", "ahci.1"} = {},
         HasDisk(f) => <<"disk", "rw">> \in A,
         HasDisk(f) /\ IsWindows(c) /\ OnVirt(c) => "ahci" \in B
  PROVE  Part(DiskArgs(c, f), B, {"hd0", "front.hd0", "ahci.1"}, A)
<1>1. CASE ~HasDisk(f)
  BY <1>1, NoOption DEF DiskArgs
<1>2. CASE HasDisk(f)
  <2>1. /\ DiskDevice(c).holds \subseteq {"front.hd0", "ahci.1"}
        /\ DiskDevice(c).needs \subseteq {"hd0"} \cup (IF IsWindows(c) /\ OnVirt(c) THEN {"ahci"} ELSE {})
        /\ DiskDevice(c).opens = {}
    BY Options DEF DiskDevice
  <2> QED
    BY <1>2, <2>1, TwoOptions, Options DEF DiskArgs
<1> QED
  BY <1>1, <1>2

LEMMA LogPart ==
  ASSUME NEW B, NEW A
  PROVE  Part(LogArgs, B, {}, A)
  BY TwoOptions, Options DEF LogArgs

LEMMA NetPart ==
  ASSUME NEW c, NEW B, NEW A, B \cap {"n0", "front.n0"} = {}
  PROVE  Part(NetArgs(c), B, {"n0", "front.n0"}, A)
<1>1. CASE c.nographic \/ NetDevice(c) = "none"
  BY <1>1, OneOption, Options DEF NetArgs
<1>2. CASE ~(c.nographic \/ NetDevice(c) = "none")
  <2> DEFINE w == IF c.display = "vnc,websocket" THEN "user" ELSE "user,hostfwd"
             o == Backend("-netdev", w, "n0")
             d == Device(NetDevice(c), {"front.n0"}, {"n0"})
  <2>1. /\ o.holds = {"n0"} /\ o.needs = {} /\ o.opens = {}
        /\ d.holds = {"front.n0"} /\ d.needs = {"n0"} /\ d.opens = {}
    <3> HIDE DEF w
    <3> QED
      BY Options
  <2>2. NetArgs(c) = <<o, d>>
    BY <1>2 DEF NetArgs
  <2> HIDE DEF o, d
  <2> QED
    BY <2>1, <2>2, TwoOptions
<1> QED
  BY <1>1, <1>2

LEMMA SerialPart ==
  ASSUME NEW B, NEW A, "port4321" \notin B
  PROVE  Part(SerialArgs, B, {"port4321"}, A)
  BY TwoOptions, Options DEF SerialArgs

LEMMA MonitorPart ==
  ASSUME NEW B, NEW A, "qmp" \notin B
  PROVE  Part(MonitorArgs, B, {"qmp"}, A)
  BY TwoOptions, Options DEF MonitorArgs

(* The ISO is a disk and a stick, and the stick brings its controller.     *)
LEMMA IsoPart ==
  ASSUME NEW c, NEW f, NEW B, NEW A,
         B \cap {"cd0", "front.cd0", "ahci.0", "xhci", "usbstick", "front.usbstick"} = {},
         IsoReadable(c, f) => <<"iso", "ro">> \in A,
         IsoReadable(c, f) /\ IsWindows(c) /\ OnVirt(c) => "ahci" \in B
  PROVE  /\ Part(IsoArgs(c, f), B, {"cd0", "front.cd0", "ahci.0", "xhci", "usbstick", "front.usbstick"}, A)
         /\ "xhci" \in Held(IsoArgs(c, f)) <=> ~XhciWanted(c, f)
<1> DEFINE H == {"cd0", "front.cd0", "ahci.0", "xhci", "usbstick", "front.usbstick"}
<1>1. CASE ~IsoReadable(c, f)
  BY <1>1, NoOption DEF IsoArgs, XhciWanted
<1>2. CASE IsoReadable(c, f) /\ ~OnVirt(c)
  <2> DEFINE o == [Flag("-cdrom", "iso") EXCEPT !.opens = {<<"iso", "ro">>}]
             p == Flag("-boot", "order=dc")
  <2>1. /\ o.holds = {} /\ o.needs = {} /\ o.opens = {<<"iso", "ro">>}
        /\ p.holds = {} /\ p.needs = {} /\ p.opens = {}
    BY DEF Flag
  <2>2. IsoArgs(c, f) = <<o, p>>
    BY <1>2 DEF IsoArgs
  <2> HIDE DEF o, p
  <2>3. Part(<<o, p>>, B, H, A) /\ Held(<<o, p>>) = {}
    BY <1>2, <2>1, TwoOptions, SMTT(30)
  <2> QED
    BY <1>2, <2>2, <2>3 DEF XhciWanted
<1>3. CASE IsoReadable(c, f) /\ OnVirt(c)
  <2> DEFINE o1 == Drive("iso", "cd0", "ro")
             o2 == IsoDevice(c)
             o3 == Flag("-boot", "menu=on")
             o4 == Xhci
             o5 == Drive("iso", "usbstick", "ro")
             o6 == BootsAt(Device("usb-storage", {"front.usbstick"}, {"usbstick", "xhci"}), 2)
  <2>1. /\ o1.holds = {"cd0"} /\ o1.needs = {} /\ o1.opens = {<<"iso", "ro">>}
        /\ o3.holds = {} /\ o3.needs = {} /\ o3.opens = {}
        /\ o4.holds = {"xhci"} /\ o4.needs = {} /\ o4.opens = {}
        /\ o5.holds = {"usbstick"} /\ o5.needs = {} /\ o5.opens = {<<"iso", "ro">>}
        /\ o6.holds = {"front.usbstick"} /\ o6.needs = {"usbstick", "xhci"} /\ o6.opens = {}
    BY Options DEF Xhci
  <2>2. /\ o2.holds \subseteq {"front.cd0", "ahci.0"} /\ o2.opens = {}
        /\ o2.needs \subseteq {"cd0"} \cup (IF IsWindows(c) THEN {"ahci"} ELSE {})
    BY Options DEF IsoDevice
  <2>3. IsoArgs(c, f) = <<o1, o2, o3, o4, o5, o6>>
    BY <1>3 DEF IsoArgs
  <2> HIDE DEF o1, o2, o3, o4, o5, o6
  <2>4. Part(<<o1, o2>>, B, H, A) /\ Held(<<o1, o2>>) = o1.holds \cup o2.holds
    BY <1>3, <2>1, <2>2, TwoOptions, SMTT(30)
  <2>5. /\ Part(<<o3, o4>>, B \cup Held(<<o1, o2>>), H, A)
        /\ Held(<<o3, o4>>) = {"xhci"}
    <3>1. "xhci" \notin B \cup Held(<<o1, o2>>)
      BY <2>1, <2>2, <2>4
    <3> HIDE DEF H
    <3>2. "xhci" \in H
      BY DEF H
    <3> QED
      BY <2>1, <3>1, <3>2, TwoOptions, SMTT(30)
  <2>6. /\ Part(<<o5, o6>>, B \cup Held(<<o1, o2>> \o <<o3, o4>>), H, A)
        /\ Held(<<o1, o2>> \o <<o3, o4>>) = Held(<<o1, o2>>) \cup {"xhci"}
        /\ Part(<<o1, o2>> \o <<o3, o4>>, B, H \cup H, A)
    <3>1. /\ Part(<<o1, o2>> \o <<o3, o4>>, B, H \cup H, A)
          /\ Held(<<o1, o2>> \o <<o3, o4>>) = Held(<<o1, o2>>) \cup {"xhci"}
      BY <2>4, <2>5, Chain
    <3> DEFINE C == B \cup Held(<<o1, o2>> \o <<o3, o4>>)
    <3>2. "usbstick" \notin C /\ "front.usbstick" \notin C /\ "xhci" \in C
      BY <2>1, <2>2, <2>4, <3>1
    <3>3. "usbstick" \in H /\ "front.usbstick" \in H
      OBVIOUS
    <3> HIDE DEF C, H
    <3>4. Part(<<o5, o6>>, C, H, A)
      BY <1>3, <2>1, <3>2, <3>3, TwoOptions
    <3> QED
      BY <3>1, <3>4 DEF C
  <2> DEFINE s == <<o1, o2>> \o <<o3, o4>> \o <<o5, o6>>
  <2>7. /\ Part(s, B, H \cup H \cup H, A)
        /\ Held(s) = Held(<<o1, o2>>) \cup {"xhci"} \cup Held(<<o5, o6>>)
    <3> DEFINE a == <<o1, o2>> \o <<o3, o4>>
               b == <<o5, o6>>
    <3>1. Part(a, B, H \cup H, A) /\ Part(b, B \cup Held(a), H, A)
      BY <2>6
    <3> HIDE DEF a, b
    <3>2. Part(a \o b, B, H \cup H \cup H, A) /\ Held(a \o b) = Held(a) \cup Held(b)
      BY <3>1, Chain
    <3> QED
      BY <2>6, <3>2 DEF a, b
  <2>8. H \cup H \cup H = H
    OBVIOUS
  <2>9. s = <<o1, o2, o3, o4, o5, o6>>
    <3> DEFINE S == {o1, o2, o3, o4, o5, o6}
               t == <<o1, o2, o3, o4, o5, o6>>
    <3>1. /\ <<o1, o2>> \in Seq(S) /\ <<o3, o4>> \in Seq(S) /\ <<o5, o6>> \in Seq(S)
          /\ t \in Seq(S)
      OBVIOUS
    <3>2. /\ s \in Seq(S) /\ Len(s) = 6
          /\ s[1] = o1 /\ s[2] = o2 /\ s[3] = o3 /\ s[4] = o4 /\ s[5] = o5 /\ s[6] = o6
      BY <3>1
    <3>3. Len(t) = 6 /\ t[1] = o1 /\ t[2] = o2 /\ t[3] = o3 /\ t[4] = o4 /\ t[5] = o5 /\ t[6] = o6
      BY <3>1
    <3>4. \A i \in 1 .. 6 : i \in {1, 2, 3, 4, 5, 6}
      OBVIOUS
    <3> HIDE DEF s, t
    <3>5. \A i \in 1 .. 6 : s[i] = t[i]
      BY <3>2, <3>3, <3>4
    <3>6. s = t
      BY <3>1, <3>2, <3>3, <3>5, SeqEqual
    <3> QED
      BY <3>6 DEF t
  <2> HIDE DEF s, H
  <2>10. Part(s, B, H, A) /\ "xhci" \in Held(s)
    BY <2>7, <2>8
  <2> QED
    BY <1>3, <2>3, <2>9, <2>10 DEF XhciWanted, H
<1> QED
  BY <1>1, <1>2, <1>3

LEMMA VideoPart ==
  ASSUME NEW c, NEW f, NEW B, NEW A, "video" \notin B
  PROVE  Part(VideoArgs(c, f), B, {"video"}, A)
<1>1. CASE Display(c, f) = "none"
  BY <1>1, NoOption DEF VideoArgs
<1>2. CASE Display(c, f) # "none"
  <2>1. PICK w : VideoArgs(c, f) = <<Device(w, {"video"}, {})>>
    BY <1>2 DEF VideoArgs
  <2> DEFINE o == Device(w, {"video"}, {})
  <2>2. o.holds = {"video"} /\ o.needs = {} /\ o.opens = {}
    BY Options
  <2> HIDE DEF o
  <2>3. Part(<<o>>, B, {"video"}, A)
    BY <2>2, OneOption
  <2> QED
    BY <2>1, <2>3 DEF o
<1> QED
  BY <1>1, <1>2

LEMMA DisplayPart ==
  ASSUME NEW c, NEW f, NEW B, NEW A
  PROVE  Part(DisplayArgs(c, f), B, {}, A)
  BY OneOption, Options DEF DisplayArgs

(* The input devices bring their controller unless the ISO's stick has.    *)
LEMMA InputPart ==
  ASSUME NEW c, NEW f, NEW B, NEW A, "xhci" \in B <=> ~XhciWanted(c, f)
  PROVE  Part(InputArgs(c, f), B, {"xhci"}, A)
<1>1. CASE Display(c, f) = "none" \/ ~OnVirt(c)
  BY <1>1, NoOption DEF InputArgs
<1>2. CASE ~(Display(c, f) = "none" \/ ~OnVirt(c))
  <2> DEFINE s == IF XhciWanted(c, f) THEN <<Xhci>> ELSE <<>>
             o == Device("usb-tablet", {}, {"xhci"})
             p == Device("usb-kbd", {}, {"xhci"})
  <2>1. /\ Xhci.holds = {"xhci"} /\ Xhci.needs = {} /\ Xhci.opens = {}
        /\ o.holds = {} /\ o.needs = {"xhci"} /\ o.opens = {}
        /\ p.holds = {} /\ p.needs = {"xhci"} /\ p.opens = {}
    BY Options DEF Xhci
  <2>2. InputArgs(c, f) = s \o <<o, p>>
    BY <1>2 DEF InputArgs
  <2> HIDE DEF o, p
  <2>3. Part(s, B, {"xhci"}, A) /\ "xhci" \in B \cup Held(s)
    <3>1. CASE XhciWanted(c, f)
      <4>1. Part(<<Xhci>>, B, {"xhci"}, A) /\ Held(<<Xhci>>) = {"xhci"}
        BY <3>1, <2>1, OneOption
      <4> QED
        BY <3>1, <4>1
    <3>2. CASE ~XhciWanted(c, f)
      BY <3>2, NoOption
    <3> QED
      BY <3>1, <3>2
  <2> HIDE DEF s
  <2>4. Part(<<o, p>>, B \cup Held(s), {"xhci"}, A)
    BY <2>1, <2>3, TwoOptions
  <2>5. Part(s \o <<o, p>>, B, {"xhci"} \cup {"xhci"}, A)
    BY <2>3, <2>4, Chain
  <2>6. {"xhci"} \cup {"xhci"} = {"xhci"}
    OBVIOUS
  <2> QED
    BY <2>2, <2>5, <2>6
<1> QED
  BY <1>1, <1>2

LEMMA ConsolePart ==
  ASSUME NEW c, NEW f, NEW B, NEW A,
         "video" \notin B, "port4321" \notin B, "xhci" \in B <=> ~XhciWanted(c, f)
  PROVE  Part(ConsoleArgs(c, f), B, {"video", "xhci", "port4321"}, A)
<1>1. CASE c.nographic
  <2> DEFINE o == Flag("-nographic", "")
  <2>1. o.holds = {} /\ o.needs = {} /\ o.opens = {}
    BY Options
  <2>2. ConsoleArgs(c, f) = <<o>> \o SerialArgs
    BY <1>1 DEF ConsoleArgs
  <2> HIDE DEF o
  <2>3. Part(<<o>>, B, {}, A) /\ Held(<<o>>) = {}
    BY <2>1, OneOption
  <2>4. Part(SerialArgs, B \cup Held(<<o>>), {"port4321"}, A)
    BY <2>3, SerialPart
  <2>5. Part(<<o>> \o SerialArgs, B, {} \cup {"port4321"}, A)
    BY <2>3, <2>4, Chain
  <2> QED
    BY <2>2, <2>5, Wider
<1>2. CASE ~c.nographic
  <2> DEFINE a == DisplayArgs(c, f)
             b == VideoArgs(c, f)
             d == InputArgs(c, f)
  <2>1. Part(a, B, {}, A)
    BY DisplayPart
  <2>2. ConsoleArgs(c, f) = a \o b \o d \o SerialArgs
    BY <1>2 DEF ConsoleArgs
  <2>3. Held(a) \subseteq {}
    BY <2>1 DEF Part
  <2>4. Part(b, B \cup Held(a), {"video"}, A)
    BY <2>3, VideoPart
  <2> HIDE DEF a
  <2>5. Part(a \o b, B, {"video"}, A) /\ Held(a \o b) \subseteq {"video"}
    <3> HIDE DEF b
    <3>1. Part(a \o b, B, {} \cup {"video"}, A)
      BY <2>1, <2>4, Chain
    <3> QED
      BY <3>1, Wider DEF Part
  <2>6. Part(d, B \cup Held(a \o b), {"xhci"}, A)
    <3>1. "xhci" \in B \cup Held(a \o b) <=> ~XhciWanted(c, f)
      BY <2>5
    <3> QED
      BY <3>1, InputPart
  <2> HIDE DEF b, d
  <2>7. Part(a \o b \o d, B, {"video", "xhci"}, A) /\ Held(a \o b \o d) \subseteq {"video", "xhci"}
    <3>1. Part(a \o b \o d, B, {"video"} \cup {"xhci"}, A)
      BY <2>5, <2>6, Chain
    <3> QED
      BY <3>1, Wider DEF Part
  <2>8. Part(SerialArgs, B \cup Held(a \o b \o d), {"port4321"}, A)
    BY <2>7, SerialPart
  <2>9. Part(a \o b \o d \o SerialArgs, B, {"video", "xhci"} \cup {"port4321"}, A)
    BY <2>7, <2>8, Chain
  <2> QED
    BY <2>2, <2>9, Wider
<1> QED
  BY <1>1, <1>2

(* The sound card's names stand behind the backend's.                      *)
LEMMA AudioPart ==
  ASSUME NEW c, NEW B, NEW A, B \cap {"snd0", "hda"} = {}
  PROVE  Part(AudioArgs(c), B, {"snd0", "hda"}, A)
<1>1. CASE c.audioDevice \in {"", "none"}
  BY <1>1, NoOption DEF AudioArgs
<1>2. CASE c.audioDevice \notin {"", "none"}
  <2> DEFINE o == Backend("-audiodev", "aether-soundkit-hmos", "snd0")
  <2>1. o.holds = {"snd0"} /\ o.needs = {} /\ o.opens = {}
    BY Options
  <2>2. \E cards : /\ AudioArgs(c) = <<o>> \o cards
                   /\ \/ cards = <<>>
                      \/ \E model : cards = Hda(model)
                      \/ cards = <<Device("AC97", {}, {"snd0"})>>
                      \/ \E model : cards = <<Device(model, {}, {})>>
    <3> DEFINE cards == CASE c.audioDevice \in IsaSound -> <<>>
                          [] c.audioDevice \in {"hda", "intel-hda"} -> Hda("intel-hda")
                          [] c.audioDevice \in {"ich9-hda", "ich9-intel-hda"} -> Hda("ich9-intel-hda")
                          [] c.audioDevice = "ac97" -> <<Device("AC97", {}, {"snd0"})>>
                          [] OTHER -> <<Device(c.audioDevice, {}, {})>>
    <3>1. AudioArgs(c) = <<o>> \o cards
      BY <1>2 DEF AudioArgs
    <3>2. \/ cards = <<>>
          \/ \E model : cards = Hda(model)
          \/ cards = <<Device("AC97", {}, {"snd0"})>>
          \/ \E model : cards = <<Device(model, {}, {})>>
      BY Zenon DEF IsaSound
    <3> QED
      BY <3>1, <3>2
  <2>3. PICK cards : /\ AudioArgs(c) = <<o>> \o cards
                     /\ \/ cards = <<>>
                        \/ \E model : cards = Hda(model)
                        \/ cards = <<Device("AC97", {}, {"snd0"})>>
                        \/ \E model : cards = <<Device(model, {}, {})>>
    BY <2>2
  <2> HIDE DEF o
  <2>4. Part(<<o>>, B, {"snd0", "hda"}, A) /\ Held(<<o>>) = {"snd0"}
    BY <2>1, OneOption
  <2>5. Part(cards, B \cup {"snd0"}, {"snd0", "hda"}, A)
    <3>1. CASE cards = <<>>
      BY <3>1, NoOption
    <3>2. ASSUME NEW model, cards = Hda(model)
          PROVE  Part(cards, B \cup {"snd0"}, {"snd0", "hda"}, A)
      <4> DEFINE p == Device(model, {"hda"}, {})
                 q == Device("hda-duplex", {}, {"hda", "snd0"})
      <4>1. /\ p.holds = {"hda"} /\ p.needs = {} /\ p.opens = {}
            /\ q.holds = {} /\ q.needs = {"hda", "snd0"} /\ q.opens = {}
        BY Options
      <4>2. cards = <<p, q>>
        BY <3>2 DEF Hda
      <4> HIDE DEF p, q
      <4> QED
        BY <4>1, <4>2, TwoOptions
    <3>3. CASE cards = <<Device("AC97", {}, {"snd0"})>>
      <4> DEFINE p == Device("AC97", {}, {"snd0"})
      <4>1. p.holds = {} /\ p.needs = {"snd0"} /\ p.opens = {}
        BY Options
      <4> HIDE DEF p
      <4>2. Part(<<p>>, B \cup {"snd0"}, {"snd0", "hda"}, A)
        BY <4>1, OneOption
      <4> QED
        BY <3>3, <4>2 DEF p
    <3>4. ASSUME NEW model, cards = <<Device(model, {}, {})>>
          PROVE  Part(cards, B \cup {"snd0"}, {"snd0", "hda"}, A)
      <4> DEFINE p == Device(model, {}, {})
      <4>1. p.holds = {} /\ p.needs = {} /\ p.opens = {}
        BY Options
      <4> HIDE DEF p
      <4>2. Part(<<p>>, B \cup {"snd0"}, {"snd0", "hda"}, A)
        BY <4>1, OneOption
      <4> QED
        BY <3>4, <4>2 DEF p
    <3> QED
      BY <2>3, <3>1, <3>2, <3>3, <3>4
  <2>6. Part(<<o>> \o cards, B, {"snd0", "hda"} \cup {"snd0", "hda"}, A)
    BY <2>4, <2>5, Chain
  <2> QED
    BY <2>3, <2>6, Wider
<1> QED
  BY <1>1, <1>2

(* A further part behind the line so far.                                  *)
LEMMA Further ==
  ASSUME NEW s, NEW t, NEW H, NEW G, NEW A, Part(s, {}, H, A), Part(t, Held(s), G, A)
  PROVE  Part(s \o t, {}, H \cup G, A) /\ Held(s \o t) = Held(s) \cup Held(t)
<1>1. {} \cup Held(s) = Held(s)
  OBVIOUS
<1>2. Part(t, {} \cup Held(s), G, A)
  BY <1>1
<1> QED
  BY <1>2, Chain

(* The whole line: every option finds what it needs, no name is declared   *)
(* twice, and only files that BuildQemuArgs found are opened.              *)
LEMMA CommandLine ==
  ASSUME NEW c, NEW f, NEW from, NEW A, Supported(c),
         FirmwareExists(f) => <<"code", "ro">> \in A /\ (from # "none" => <<from, "rw">> \in A),
         IsoReadable(c, f) => <<"iso", "ro">> \in A,
         HasDisk(f) => <<"disk", "rw">> \in A
  PROVE  LET line == BuildQemuArgs(c, f, from)
         IN InOrder(line, {}) /\ \A i \in DOMAIN line : line[i].opens \subseteq A
<1> DEFINE p1 == DataDirArgs(c, f)
           p2 == MachineArgs(c)
           p3 == RngArgs(c)
           p4 == TpmArgs(c)
           p5 == CpuArgs(c)
           p6 == FirmwareArgs(f, from)
           p7 == SataArgs(c, f)
           p8 == IsoArgs(c, f)
           p9 == DiskArgs(c, f)
           p10 == LogArgs
           p11 == NetArgs(c)
           p12 == ConsoleArgs(c, f)
           p13 == AudioArgs(c)
           p14 == MonitorArgs
<1> DEFINE s2 == p1 \o p2
           s3 == s2 \o p3
           s4 == s3 \o p4
           s5 == s4 \o p5
           s6 == s5 \o p6
           s7 == s6 \o p7
           s8 == s7 \o p8
           s9 == s8 \o p9
           s10 == s9 \o p10
           s11 == s10 \o p11
           s12 == s11 \o p12
           s13 == s12 \o p13
           s14 == s13 \o p14
<1> DEFINE h3 == {"rng", "front.rng"}
           h4 == h3 \cup {"tpm0", "front.tpm0"}
           h6 == h4 \cup {"pflash0", "pflash1"}
           h7 == h6 \cup {"ahci"}
           h8 == h7 \cup {"cd0", "front.cd0", "ahci.0", "xhci", "usbstick", "front.usbstick"}
           h9 == h8 \cup {"hd0", "front.hd0", "ahci.1"}
           h11 == h9 \cup {"n0", "front.n0"}
           h12 == h11 \cup {"video", "port4321"}
           h13 == h12 \cup {"snd0", "hda"}
           h14 == h13 \cup {"qmp"}
<1>0. BuildQemuArgs(c, f, from) = s14
  BY DEF BuildQemuArgs
<1>1. Part(p1, {}, {}, A)
  BY DataDirPart
<1> HIDE DEF p1
<1>2. Part(s2, {}, {}, A)
  <2>1. Held(p1) \subseteq {}
    BY <1>1 DEF Part
  <2>2. Part(p2, Held(p1), {}, A)
    BY <2>1, MachinePart
  <2> HIDE DEF p2
  <2>3. Part(p1 \o p2, {}, {} \cup {}, A) /\ Held(p1 \o p2) = Held(p1) \cup Held(p2)
    BY <1>1, <2>2, Further
  <2> QED
    BY <2>1, <2>2, <2>3, <1>1, Wider
<1> HIDE DEF p2, s2
<1>3. Part(s3, {}, h3, A)
  <2>1. Held(s2) \subseteq {}
    BY <1>2 DEF Part
  <2>2. Part(p3, Held(s2), h3, A)
    <3> HIDE DEF s2
    <3> QED
      BY <2>1, RngPart
  <2> HIDE DEF p3, s2
  <2>3. Part(s2 \o p3, {}, {} \cup h3, A) /\ Held(s2 \o p3) = Held(s2) \cup Held(p3)
    BY <1>2, <2>2, Further
  <2> QED
    BY <2>1, <2>2, <2>3, <1>2, Wider
<1> HIDE DEF p3, s3
<1>4. Part(s4, {}, h4, A)
  <2>1. Held(s3) \subseteq h3
    BY <1>3 DEF Part
  <2>2. Part(p4, Held(s3), {"tpm0", "front.tpm0"}, A)
    <3> HIDE DEF s3
    <3> QED
      BY <2>1, TpmPart
  <2> HIDE DEF p4, s3
  <2>3. /\ Part(s3 \o p4, {}, h3 \cup {"tpm0", "front.tpm0"}, A)
        /\ Held(s3 \o p4) = Held(s3) \cup Held(p4)
    BY <1>3, <2>2, Further
  <2> QED
    BY <2>1, <2>2, <2>3, <1>3, Wider
<1> HIDE DEF p4, s4
<1>5. Part(s5, {}, h4, A)
  <2>1. Held(s4) \subseteq h4
    BY <1>4 DEF Part
  <2>2. Part(p5, Held(s4), {}, A)
    <3> HIDE DEF s4
    <3> QED
      BY <2>1, CpuPart
  <2> HIDE DEF p5, s4
  <2>3. Part(s4 \o p5, {}, h4 \cup {}, A) /\ Held(s4 \o p5) = Held(s4) \cup Held(p5)
    BY <1>4, <2>2, Further
  <2> QED
    BY <2>1, <2>2, <2>3, <1>4, Wider
<1> HIDE DEF p5, s5
<1>6. Part(s6, {}, h6, A)
  <2>1. Held(s5) \subseteq h4
    BY <1>5 DEF Part
  <2>2. Part(p6, Held(s5), {"pflash0", "pflash1"}, A)
    <3> HIDE DEF s5
    <3> QED
      BY <2>1, FirmwarePart
  <2> HIDE DEF p6, s5
  <2>3. /\ Part(s5 \o p6, {}, h4 \cup {"pflash0", "pflash1"}, A)
        /\ Held(s5 \o p6) = Held(s5) \cup Held(p6)
    BY <1>5, <2>2, Further
  <2> QED
    BY <2>1, <2>2, <2>3, <1>5, Wider
<1> HIDE DEF p6, s6
<1>7. /\ Part(s7, {}, h7, A)
      /\ (OnVirt(c) /\ IsWindows(c) /\ (HasDisk(f) \/ IsoReadable(c, f)) => "ahci" \in Held(s7))
  <2>1. Held(s6) \subseteq h6
    BY <1>6 DEF Part
  <2>2. Part(p7, Held(s6), {"ahci"}, A)
        /\ (OnVirt(c) /\ IsWindows(c) /\ (HasDisk(f) \/ IsoReadable(c, f)) => Held(p7) = {"ahci"})
    <3> HIDE DEF s6
    <3>1. "ahci" \notin Held(s6)
      BY <2>1
    <3> DEFINE B == Held(s6)
    <3> HIDE DEF B
    <3>2. /\ Part(SataArgs(c, f), B, {"ahci"}, A)
          /\ OnVirt(c) /\ IsWindows(c) /\ (HasDisk(f) \/ IsoReadable(c, f)) => Held(SataArgs(c, f)) = {"ahci"}
      BY <3>1, SataPart DEF B
    <3> QED
      BY <3>2 DEF B
  <2> HIDE DEF p7, s6
  <2>3. Part(s6 \o p7, {}, h6 \cup {"ahci"}, A) /\ Held(s6 \o p7) = Held(s6) \cup Held(p7)
    BY <1>6, <2>2, Further
  <2> QED
    BY <2>1, <2>2, <2>3, <1>6, Wider
<1> HIDE DEF p7, s7
<1>8. /\ Part(s8, {}, h8, A)
      /\ ("xhci" \in Held(s8) <=> ~XhciWanted(c, f))
      /\ Held(s7) \subseteq Held(s8)
  <2>1. Held(s7) \subseteq h7
    BY <1>7 DEF Part
  <2>2. /\ Part(p8, Held(s7), {"cd0", "front.cd0", "ahci.0", "xhci", "usbstick", "front.usbstick"}, A)
        /\ ("xhci" \in Held(p8) <=> ~XhciWanted(c, f))
    <3> HIDE DEF s7
    <3> QED
      BY <2>1, <1>7, IsoPart
  <2> HIDE DEF p8, s7
  <2>3. /\ Part(s7 \o p8, {}, h7 \cup {"cd0", "front.cd0", "ahci.0", "xhci", "usbstick", "front.usbstick"}, A)
        /\ Held(s7 \o p8) = Held(s7) \cup Held(p8)
    BY <1>7, <2>2, Further
  <2> QED
    BY <2>1, <2>2, <2>3, <1>7, Wider
<1> HIDE DEF p8, s8
<1>9. Part(s9, {}, h9, A) /\ ("xhci" \in Held(s9) <=> ~XhciWanted(c, f))
  <2>1. Held(s8) \subseteq h8
    BY <1>8 DEF Part
  <2>2. Part(p9, Held(s8), {"hd0", "front.hd0", "ahci.1"}, A)
    <3> HIDE DEF s8
    <3> QED
      BY <2>1, <1>7, <1>8, DiskPart
  <2> HIDE DEF p9, s8
  <2>3. /\ Part(s8 \o p9, {}, h8 \cup {"hd0", "front.hd0", "ahci.1"}, A)
        /\ Held(s8 \o p9) = Held(s8) \cup Held(p9)
    BY <1>8, <2>2, Further
  <2>4. Held(p9) \subseteq {"hd0", "front.hd0", "ahci.1"}
    BY <2>2 DEF Part
  <2> QED
    BY <2>1, <2>2, <2>3, <2>4, <1>8, Wider
<1> HIDE DEF p9, s9
<1>10. Part(s10, {}, h9, A) /\ ("xhci" \in Held(s10) <=> ~XhciWanted(c, f))
  <2>1. Held(s9) \subseteq h9
    BY <1>9 DEF Part
  <2>2. Part(p10, Held(s9), {}, A)
    <3> HIDE DEF s9
    <3> QED
      BY <2>1, LogPart
  <2> HIDE DEF p10, s9
  <2>3. Part(s9 \o p10, {}, h9 \cup {}, A) /\ Held(s9 \o p10) = Held(s9) \cup Held(p10)
    BY <1>9, <2>2, Further
  <2>4. Held(p10) \subseteq {}
    BY <2>2 DEF Part
  <2> QED
    BY <2>1, <2>2, <2>3, <2>4, <1>9, Wider
<1> HIDE DEF p10, s10
<1>11. Part(s11, {}, h11, A) /\ ("xhci" \in Held(s11) <=> ~XhciWanted(c, f))
  <2>1. Held(s10) \subseteq h9
    BY <1>10 DEF Part
  <2>2. Part(p11, Held(s10), {"n0", "front.n0"}, A)
    <3> HIDE DEF s10
    <3> QED
      BY <2>1, NetPart
  <2> HIDE DEF p11, s10
  <2>3. /\ Part(s10 \o p11, {}, h9 \cup {"n0", "front.n0"}, A)
        /\ Held(s10 \o p11) = Held(s10) \cup Held(p11)
    BY <1>10, <2>2, Further
  <2>4. Held(p11) \subseteq {"n0", "front.n0"}
    BY <2>2 DEF Part
  <2> QED
    BY <2>1, <2>2, <2>3, <2>4, <1>10, Wider
<1> HIDE DEF p11, s11
<1>12. Part(s12, {}, h12, A)
  <2>1. Held(s11) \subseteq h11
    BY <1>11 DEF Part
  <2>2. Part(p12, Held(s11), {"video", "xhci", "port4321"}, A)
    <3> HIDE DEF s11
    <3> QED
      BY <2>1, <1>11, ConsolePart
  <2> HIDE DEF p12, s11
  <2>3. /\ Part(s11 \o p12, {}, h11 \cup {"video", "xhci", "port4321"}, A)
        /\ Held(s11 \o p12) = Held(s11) \cup Held(p12)
    BY <1>11, <2>2, Further
  <2> QED
    BY <2>1, <2>2, <2>3, <1>11, Wider
<1> HIDE DEF p12, s12
<1>13. Part(s13, {}, h13, A)
  <2>1. Held(s12) \subseteq h12
    BY <1>12 DEF Part
  <2>2. Part(p13, Held(s12), {"snd0", "hda"}, A)
    <3> HIDE DEF s12
    <3> QED
      BY <2>1, AudioPart
  <2> HIDE DEF p13, s12
  <2>3. /\ Part(s12 \o p13, {}, h12 \cup {"snd0", "hda"}, A)
        /\ Held(s12 \o p13) = Held(s12) \cup Held(p13)
    BY <1>12, <2>2, Further
  <2> QED
    BY <2>1, <2>2, <2>3, <1>12, Wider
<1> HIDE DEF p13, s13
<1>14. Part(s14, {}, h14, A)
  <2>1. Held(s13) \subseteq h13
    BY <1>13 DEF Part
  <2>2. Part(p14, Held(s13), {"qmp"}, A)
    <3> HIDE DEF s13
    <3> QED
      BY <2>1, MonitorPart
  <2> HIDE DEF p14, s13
  <2>3. Part(s13 \o p14, {}, h13 \cup {"qmp"}, A) /\ Held(s13 \o p14) = Held(s13) \cup Held(p14)
    BY <1>13, <2>2, Further
  <2> QED
    BY <2>1, <2>2, <2>3, <1>13, Wider
<1> HIDE DEF p14, s14
<1> QED
  BY <1>0, <1>14 DEF Part

-----------------------------------------------------------------------------
(* The record of the files has all its fields.                            *)
FilesShape ==
  /\ files = [name \in DOMAIN NewFiles |-> files[name]]
  /\ "size" \in DOMAIN files.disk /\ files.disk.size \in Int

(* Nothing is cut without a fault, and the template stays the page's.      *)
FilesWhole ==
  faults = 0 =>
    /\ files.code # "cut" /\ files.template \notin {"cut", "guest"} /\ files.vars # "cut"
    /\ files.iso \in {"outside", "copied"} /\ files.stat = "works"
    /\ Present(files, "disk") => files.disk.size > 0
    /\ attached # "template"
    /\ pc \in {"core", "init"} /\ attached = "vars" => files.vars # "absent"

ConfigInv ==
  /\ pc \in {"disk", "preflight", "build", "core", "init"} => config.archType = "aarch64"
  /\ pc = "disk" => config.diskSizeGB \in Nat \ {0}

(* There is a disk from its creation on, and whoever wrote to one left it; *)
(* one that the preflight refuses gets no further.                         *)
DiskInv ==
  /\ pc \in {"preflight", "build", "core", "init", "guest"} \/ data => Present(files, "disk")
  /\ pc \in {"build", "core", "init"} /\ files.stat = "works" /\ files.disk.qcow2 =>
       files.disk.rest = 0 /\ files.disk.entry # 0

IsoStates == {"outside", "copied", "cut", "gone"}

(* Nothing that BuildQemuArgs has read changes before qemu_init gets it,   *)
(* but that the ISO may go away.                                           *)
LineInv ==
  pc \in {"core", "init"} =>
    \E iso \in IsoStates :
      /\ args = BuildQemuArgs(config, [files EXCEPT !.iso = iso], attached)
      /\ faults = 0 => iso = files.iso

CoreInv == pc \in {"init", "guest"} => Required \subseteq core

BootInv ==
  /\ BootTypeOK /\ FilesShape /\ FilesWhole
  /\ ConfigInv /\ DiskInv /\ LineInv /\ CoreInv

(* What the page's configuration becomes.                                  *)
LEMMA ConfigOfPage ==
  ASSUME NEW mode, NEW hw \in Hardware, NEW keymaps
  PROVE  LET c == [ParseVMConfig(PageConfig(mode, hw, keymaps)) EXCEPT !.archType = "aarch64"]
         IN c.archType = "aarch64" /\ c.diskSizeGB \in Nat \ {0}
<1> DEFINE js == PageConfig(mode, hw, keymaps)
<1>1. "diskSizeGB" \in DOMAIN js /\ js.diskSizeGB \in Nat \ {0}
  BY BootAssumption DEF PageConfig
<1> HIDE DEF js
<1>2. /\ DOMAIN ParseIdentity(js) = {"name", "osType", "archType", "isoPath"}
      /\ DOMAIN ParseNumbers(js) = {"diskSizeGB", "memoryMB", "cpuCount"}
      /\ ParseNumbers(js).diskSizeGB \in Nat \ {0}
  BY <1>1 DEF ParseIdentity, ParseNumbers, Given
<1>3. /\ {"archType", "diskSizeGB"} \subseteq DOMAIN ParseVMConfig(js)
      /\ ParseVMConfig(js).diskSizeGB = ParseNumbers(js).diskSizeGB
  BY <1>2 DEF ParseVMConfig
<1> QED
  BY <1>2, <1>3 DEF js

(* Keymaps are left alone or are whole.                                    *)
LEMMA KeymapsKept ==
  ASSUME NEW f, NEW mode, NEW k \in EnsureKeymaps(f, mode)
  PROVE  k[1] = f \/ k[1] = [f EXCEPT !.keymaps = "whole"]
<1> DEFINE copied == [f EXCEPT !.keymaps = "whole"]
<1>1. k \in {<<f, FALSE>>, <<f, TRUE>>, <<copied, TRUE>>}
  BY DEF EnsureKeymaps
<1>2. \A x, y : <<x, y>>[1] = x
  OBVIOUS
<1> HIDE DEF copied
<1>3. k[1] = f \/ k[1] = copied
  BY <1>1, <1>2, Zenon
<1> QED
  BY <1>3 DEF copied

(* One lemma for each action.                                              *)
(* The page's copies leave what is there, and the disk, as they are.       *)
LEMMA PageStartsStep ==
  ASSUME BootInv, NEW mode \in StartModes, NEW hw \in Hardware, PageStarts(mode, hw)
  PROVE  BootInv'
<1> USE BootAssumption DEF BootInv, NewFiles, FileExists, Present
<1>1. PICK f \in EnsureUefi(files) : \E k \in EnsureKeymaps(f, mode) :
        /\ EnsureIso(k[1], hw)
        /\ config' = [ParseVMConfig(PageConfig(mode, hw, k[2])) EXCEPT !.archType = "aarch64"]
  BY DEF PageStarts
<1>0. PICK k \in EnsureKeymaps(f, mode) :
        /\ EnsureIso(k[1], hw)
        /\ config' = [ParseVMConfig(PageConfig(mode, hw, k[2])) EXCEPT !.archType = "aarch64"]
  BY <1>1
<1>2. /\ pc = "idle" /\ pc' = "disk" /\ status' = "preparing"
      /\ starts < MaxStarts /\ starts' = starts + 1
      /\ UNCHANGED <<data, attached, args, core>>
  BY DEF PageStarts
<1>3. /\ f = [name \in DOMAIN NewFiles |-> f[name]]
      /\ f.code = IF files.code = "absent" THEN "whole" ELSE files.code
      /\ f.template = files.template \/ f.template = "clean"
      /\ f.vars = files.vars /\ f.disk = files.disk /\ f.iso = files.iso /\ f.keymaps = files.keymaps
      /\ f.stat = files.stat
  <2> DEFINE code == IF files.code = "absent" THEN "whole" ELSE files.code
             whole == [files EXCEPT !.code = code]
  <2>1. PICK t : f = [files EXCEPT !.code = code, !.template = t] /\ (t = files.template \/ t = "clean")
    BY DEF EnsureUefi
  <2>2. /\ whole = [name \in DOMAIN NewFiles |-> whole[name]]
        /\ whole.code = code /\ whole.template = files.template
        /\ whole.vars = files.vars /\ whole.disk = files.disk
        /\ whole.iso = files.iso /\ whole.keymaps = files.keymaps /\ whole.stat = files.stat
    BY DEF FilesShape
  <2>3. f = [whole EXCEPT !.template = t]
    BY <2>1
  <2> HIDE DEF whole
  <2> QED
    BY <2>1, <2>2, <2>3
<1> DEFINE g == k[1]
<1>4. /\ g = [name \in DOMAIN NewFiles |-> g[name]]
      /\ g.code = f.code /\ g.template = f.template /\ g.vars = f.vars /\ g.disk = f.disk
      /\ g.iso = f.iso /\ g.stat = f.stat
      /\ g.keymaps \in {"whole", files.keymaps}
  <2>1. CASE k[1] = f
    BY <1>3, <2>1
  <2>2. CASE k[1] = [f EXCEPT !.keymaps = "whole"]
    BY <1>3, <2>2
  <2> QED
    BY <2>1, <2>2, <1>0, KeymapsKept
<1> HIDE DEF g
<1>11. /\ files' = [name \in DOMAIN NewFiles |-> files'[name]]
       /\ files'.code = g.code /\ files'.template = g.template /\ files'.vars = g.vars
       /\ files'.disk = g.disk /\ files'.keymaps = g.keymaps /\ files'.stat = g.stat
       /\ files'.iso \in {"copied", g.iso}
  <2>1. files' = g \/ files' = [g EXCEPT !.iso = "copied"]
    BY <1>0, Zenon DEF EnsureIso, g
  <2> QED
    BY <1>4, <2>1
<1>12. /\ faults' \in 0 .. MaxFaults
       /\ faults' = 0 => faults = 0
  <2>1. faults' = faults \/ (faults < MaxFaults /\ faults' = faults + 1)
    BY <1>0, Zenon DEF EnsureIso, Fault
  <2>2. faults \in 0 .. MaxFaults
    BY DEF BootTypeOK
  <2> QED
    BY <2>1, <2>2
<1>5. config'.archType = "aarch64" /\ config'.diskSizeGB \in Nat \ {0}
  BY <1>0, ConfigOfPage
<1>6. BootTypeOK'
  BY <1>2, <1>3, <1>4, <1>11, <1>12 DEF BootTypeOK
<1>7. FilesShape'
  BY <1>3, <1>4, <1>11, <1>12 DEF FilesShape
<1>8. FilesWhole'
  BY <1>2, <1>3, <1>4, <1>11, <1>12 DEF FilesWhole
<1>9. ConfigInv'
  BY <1>2, <1>5 DEF ConfigInv
<1>10. DiskInv' /\ LineInv' /\ CoreInv'
  BY <1>2, <1>3, <1>4, <1>11, <1>12 DEF DiskInv, LineInv, CoreInv
<1> QED
  BY <1>6, <1>7, <1>8, <1>9, <1>10

LEMMA PageCopyCutStep ==
  ASSUME BootInv, PageCopyCut
  PROVE  BootInv'
<1> USE BootAssumption DEF BootInv, PageCopyCut, Fault, NewFiles, Raw, NoImage, FileExists, Present
<1>1. BootTypeOK'
  BY DEF BootTypeOK, FilesShape
<1>2. FilesShape'
  BY DEF FilesShape
<1>3. FilesWhole'
  BY DEF FilesWhole, BootTypeOK
<1>4. ConfigInv'
  BY DEF ConfigInv
<1>5. DiskInv'
  BY DEF DiskInv, FilesShape
<1>6. LineInv'
  BY DEF LineInv
<1>7. CoreInv'
  BY DEF CoreInv
<1> QED
  BY <1>1, <1>2, <1>3, <1>4, <1>5, <1>6, <1>7

LEMMA StartVmFindsDiskStep ==
  ASSUME BootInv, StartVmFindsDisk
  PROVE  BootInv'
<1> USE BootAssumption DEF BootInv, StartVmFindsDisk, DiskWanted, NewFiles, Raw, NoImage,
  FileExists, Present
<1>1. BootTypeOK'
  BY DEF BootTypeOK
<1>2. FilesShape'
  BY DEF FilesShape
<1>3. FilesWhole'
  BY DEF FilesWhole
<1>4. ConfigInv'
  BY DEF ConfigInv
<1>5. DiskInv'
  BY DEF DiskInv
<1>6. LineInv'
  BY DEF LineInv
<1>7. CoreInv'
  BY DEF CoreInv
<1> QED
  BY <1>1, <1>2, <1>3, <1>4, <1>5, <1>6, <1>7

LEMMA StartVmCreatesDiskStep ==
  ASSUME BootInv, StartVmCreatesDisk
  PROVE  BootInv'
<1> USE BootAssumption DEF BootInv, StartVmCreatesDisk, CreateVirtualDisk, NewFiles, Raw,
  NoImage, FileExists, Present
<1>1. BootTypeOK'
  BY DEF BootTypeOK, FilesShape
<1>2. FilesShape'
  <2>1. files' = [name \in DOMAIN NewFiles |-> files'[name]] /\ files'.disk = Raw(config.diskSizeGB)
    BY DEF FilesShape
  <2>2. "size" \in DOMAIN files'.disk /\ files'.disk.size \in Int
    BY <2>1 DEF ConfigInv
  <2> QED
    BY <2>1, <2>2 DEF FilesShape
<1>3. FilesWhole'
  BY DEF FilesWhole, ConfigInv
<1>4. ConfigInv'
  BY DEF ConfigInv
<1>5. DiskInv'
  BY DEF DiskInv, ConfigInv
<1>6. LineInv'
  BY DEF LineInv
<1>7. CoreInv'
  BY DEF CoreInv
<1> QED
  BY <1>1, <1>2, <1>3, <1>4, <1>5, <1>6, <1>7

LEMMA StartVmCannotCreateDiskStep ==
  ASSUME BootInv, StartVmCannotCreateDisk
  PROVE  BootInv'
<1> USE BootAssumption DEF BootInv, StartVmCannotCreateDisk, CreateVirtualDisk, Fault, Abandon,
  DiskWanted, NewFiles, Raw, NoImage, FileExists, Present
<1>1. BootTypeOK'
  <2>1. /\ files'.code = files.code /\ files'.template = files.template /\ files'.vars = files.vars
        /\ files'.keymaps = files.keymaps /\ files'.iso = files.iso /\ files'.stat = files.stat
    BY DEF FilesShape
  <2>2. data' \in BOOLEAN
    <3>1. data' = FALSE \/ data' = data
      OBVIOUS
    <3> QED
      BY <3>1 DEF BootTypeOK
  <2>3. faults' \in 0 .. MaxFaults
    BY DEF BootTypeOK
  <2> QED
    BY <2>1, <2>2, <2>3 DEF BootTypeOK
<1>2. FilesShape'
  BY DEF FilesShape
<1>3. FilesWhole'
  BY DEF FilesWhole, BootTypeOK
<1>4. ConfigInv'
  BY DEF ConfigInv
<1>5. DiskInv'
  BY DEF DiskInv
<1>6. LineInv'
  BY DEF LineInv
<1>7. CoreInv'
  BY DEF CoreInv
<1> QED
  BY <1>1, <1>2, <1>3, <1>4, <1>5, <1>6, <1>7

LEMMA StartVmAcceptsDiskStep ==
  ASSUME BootInv, StartVmAcceptsDisk
  PROVE  BootInv'
<1> USE BootAssumption DEF BootInv, StartVmAcceptsDisk, DiskAccepted, IsQcow2FileQuick,
  PreflightQcow2RefcountTable, NewFiles, Raw, NoImage, FileExists, Present
<1>1. BootTypeOK'
  BY DEF BootTypeOK
<1>2. FilesShape'
  BY DEF FilesShape
<1>3. FilesWhole'
  BY DEF FilesWhole
<1>4. ConfigInv'
  BY DEF ConfigInv
<1>5. DiskInv'
  BY DEF DiskInv
<1>6. LineInv'
  BY DEF LineInv
<1>7. CoreInv'
  BY DEF CoreInv
<1> QED
  BY <1>1, <1>2, <1>3, <1>4, <1>5, <1>6, <1>7

LEMMA StartVmRefusesDiskStep ==
  ASSUME BootInv, StartVmRefusesDisk
  PROVE  BootInv'
<1> USE BootAssumption DEF BootInv, StartVmRefusesDisk, Abandon, VerdictFailed, NewFiles, Raw,
  NoImage, FileExists, Present
<1>1. BootTypeOK'
  BY DEF BootTypeOK
<1>2. FilesShape'
  BY DEF FilesShape
<1>3. FilesWhole'
  BY DEF FilesWhole
<1>4. ConfigInv'
  BY DEF ConfigInv
<1>5. DiskInv'
  BY DEF DiskInv
<1>6. LineInv'
  BY DEF LineInv
<1>7. CoreInv'
  BY DEF CoreInv
<1> QED
  BY <1>1, <1>2, <1>3, <1>4, <1>5, <1>6, <1>7

LEMMA BuildWithOwnVarsStep ==
  ASSUME BootInv, BuildWithOwnVars
  PROVE  BootInv'
<1> USE BootAssumption DEF BootInv, BuildWithOwnVars, Build, VarsToUse, NeedsReset, NewFiles,
  Raw, NoImage, FileExists, Present
<1>1. BootTypeOK'
  BY DEF BootTypeOK
<1>2. FilesShape'
  BY DEF FilesShape
<1>3. FilesWhole'
  BY DEF FilesWhole
<1>4. ConfigInv'
  BY DEF ConfigInv
<1>5. DiskInv'
  BY DEF DiskInv
<1>6. LineInv'
  <2>1. args' = BuildQemuArgs(config', files', attached')
    BY DEF FilesShape
  <2>2. files' = [files' EXCEPT !.iso = files'.iso]
    BY <1>2 DEF FilesShape
  <2>3. files'.iso \in IsoStates
    BY <1>1 DEF BootTypeOK, IsoStates
  <2> QED
    BY <2>1, <2>2, <2>3 DEF LineInv
<1>7. CoreInv'
  BY DEF CoreInv
<1> QED
  BY <1>1, <1>2, <1>3, <1>4, <1>5, <1>6, <1>7

LEMMA BuildWithCopiedVarsStep ==
  ASSUME BootInv, BuildWithCopiedVars
  PROVE  BootInv'
<1> USE BootAssumption DEF BootInv, BuildWithCopiedVars, Build, VarsToUse, VarsWanted, NewFiles,
  Raw, NoImage, FileExists, Present
<1>1. BootTypeOK'
  BY DEF BootTypeOK
<1>2. FilesShape'
  BY DEF FilesShape
<1>3. FilesWhole'
  BY DEF FilesWhole
<1>4. ConfigInv'
  BY DEF ConfigInv
<1>5. DiskInv'
  BY DEF DiskInv
<1>6. LineInv'
  <2>1. args' = BuildQemuArgs(config', files', attached')
    BY DEF FilesShape
  <2>2. files' = [files' EXCEPT !.iso = files'.iso]
    BY <1>2 DEF FilesShape
  <2>3. files'.iso \in IsoStates
    BY <1>1 DEF BootTypeOK, IsoStates
  <2> QED
    BY <2>1, <2>2, <2>3 DEF LineInv
<1>7. CoreInv'
  BY DEF CoreInv
<1> QED
  BY <1>1, <1>2, <1>3, <1>4, <1>5, <1>6, <1>7

LEMMA BuildWithTemplateStep ==
  ASSUME BootInv, BuildWithTemplate
  PROVE  BootInv'
<1> USE BootAssumption DEF BootInv, BuildWithTemplate, Build, Fault, NewFiles, Raw, NoImage,
  FileExists, Present
<1>1. BootTypeOK'
  BY DEF BootTypeOK
<1>2. FilesShape'
  BY DEF FilesShape
<1>3. FilesWhole'
  BY DEF FilesWhole, BootTypeOK
<1>4. ConfigInv'
  BY DEF ConfigInv
<1>5. DiskInv'
  BY DEF DiskInv
<1>6. LineInv'
  <2>1. args' = BuildQemuArgs(config', files', attached')
    BY DEF FilesShape
  <2>2. files' = [files' EXCEPT !.iso = files'.iso]
    BY <1>2 DEF FilesShape
  <2>3. files'.iso \in IsoStates
    BY <1>1 DEF BootTypeOK, IsoStates
  <2> QED
    BY <2>1, <2>2, <2>3 DEF LineInv
<1>7. CoreInv'
  BY DEF CoreInv
<1> QED
  BY <1>1, <1>2, <1>3, <1>4, <1>5, <1>6, <1>7

LEMMA BuildWithoutVarsStep ==
  ASSUME BootInv, BuildWithoutVars
  PROVE  BootInv'
<1> USE BootAssumption DEF BootInv, BuildWithoutVars, Build, NewFiles, Raw, NoImage, FileExists,
  Present
<1>1. BootTypeOK'
  BY DEF BootTypeOK
<1>2. FilesShape'
  BY DEF FilesShape
<1>3. FilesWhole'
  BY DEF FilesWhole
<1>4. ConfigInv'
  BY DEF ConfigInv
<1>5. DiskInv'
  BY DEF DiskInv
<1>6. LineInv'
  <2>1. args' = BuildQemuArgs(config', files', attached')
    BY DEF FilesShape
  <2>2. files' = [files' EXCEPT !.iso = files'.iso]
    BY <1>2 DEF FilesShape
  <2>3. files'.iso \in IsoStates
    BY <1>1 DEF BootTypeOK, IsoStates
  <2> QED
    BY <2>1, <2>2, <2>3 DEF LineInv
<1>7. CoreInv'
  BY DEF CoreInv
<1> QED
  BY <1>1, <1>2, <1>3, <1>4, <1>5, <1>6, <1>7

LEMMA StartVmLaunchesStep ==
  ASSUME BootInv, StartVmLaunches
  PROVE  BootInv'
<1> USE BootAssumption DEF BootInv, StartVmLaunches, Loaded, EnsureQemuCoreLoaded, AlreadyLoaded,
  CoresAfterLoading, NewFiles, Raw, NoImage, FileExists, Present
<1>1. BootTypeOK'
  BY DEF BootTypeOK, Required
<1>2. FilesShape'
  BY DEF FilesShape
<1>3. FilesWhole'
  BY DEF FilesWhole
<1>4. ConfigInv'
  BY DEF ConfigInv
<1>5. DiskInv'
  BY DEF DiskInv
<1>6. LineInv'
  BY DEF LineInv
<1>7. CoreInv'
  BY DEF CoreInv, Required
<1> QED
  BY <1>1, <1>2, <1>3, <1>4, <1>5, <1>6, <1>7

LEMMA StartVmFindsNoCoreStep ==
  ASSUME BootInv, StartVmFindsNoCore
  PROVE  BootInv'
<1> USE BootAssumption DEF BootInv, StartVmFindsNoCore, Abandon, VerdictFailed,
  CoresAfterLoading, NewFiles, Raw, NoImage, FileExists, Present
<1>1. BootTypeOK'
  BY DEF BootTypeOK, Required
<1>2. FilesShape'
  BY DEF FilesShape
<1>3. FilesWhole'
  BY DEF FilesWhole
<1>4. ConfigInv'
  BY DEF ConfigInv
<1>5. DiskInv'
  BY DEF DiskInv
<1>6. LineInv'
  BY DEF LineInv
<1>7. CoreInv'
  BY DEF CoreInv
<1> QED
  BY <1>1, <1>2, <1>3, <1>4, <1>5, <1>6, <1>7

LEMMA QemuInitExitsStep ==
  ASSUME BootInv, QemuInitExits
  PROVE  BootInv'
<1> USE BootAssumption DEF BootInv, QemuInitExits, Abandon, NewFiles, Raw, NoImage, FileExists,
  Present
<1>1. BootTypeOK'
  BY DEF BootTypeOK
<1>2. FilesShape'
  BY DEF FilesShape
<1>3. FilesWhole'
  BY DEF FilesWhole
<1>4. ConfigInv'
  BY DEF ConfigInv
<1>5. DiskInv'
  BY DEF DiskInv
<1>6. LineInv'
  BY DEF LineInv
<1>7. CoreInv'
  BY DEF CoreInv
<1> QED
  BY <1>1, <1>2, <1>3, <1>4, <1>5, <1>6, <1>7

LEMMA QemuInitReturnsStep ==
  ASSUME BootInv, QemuInitReturns
  PROVE  BootInv'
<1> USE BootAssumption DEF BootInv, QemuInitReturns, NewFiles, Raw, NoImage, FileExists, Present
<1>1. BootTypeOK'
  BY DEF BootTypeOK
<1>2. FilesShape'
  BY DEF FilesShape
<1>3. FilesWhole'
  BY DEF FilesWhole
<1>4. ConfigInv'
  BY DEF ConfigInv
<1>5. DiskInv'
  BY DEF DiskInv
<1>6. LineInv'
  BY DEF LineInv
<1>7. CoreInv'
  BY DEF CoreInv
<1> QED
  BY <1>1, <1>2, <1>3, <1>4, <1>5, <1>6, <1>7

LEMMA GuestWritesStep ==
  ASSUME BootInv, GuestWrites
  PROVE  BootInv'
<1> USE BootAssumption DEF BootInv, GuestWrites, NewFiles, Raw, NoImage, FileExists, Present
<1>1. BootTypeOK'
  BY DEF BootTypeOK
<1>2. FilesShape'
  BY DEF FilesShape
<1>3. FilesWhole'
  BY DEF FilesWhole
<1>4. ConfigInv'
  BY DEF ConfigInv
<1>5. DiskInv'
  BY DEF DiskInv
<1>6. LineInv'
  BY DEF LineInv
<1>7. CoreInv'
  BY DEF CoreInv
<1> QED
  BY <1>1, <1>2, <1>3, <1>4, <1>5, <1>6, <1>7

LEMMA GuestEndsStep ==
  ASSUME BootInv, GuestEnds
  PROVE  BootInv'
<1> USE BootAssumption DEF BootInv, GuestEnds, Abandon, NewFiles, Raw, NoImage, FileExists, Present
<1>1. BootTypeOK'
  BY DEF BootTypeOK
<1>2. FilesShape'
  BY DEF FilesShape
<1>3. FilesWhole'
  BY DEF FilesWhole
<1>4. ConfigInv'
  BY DEF ConfigInv
<1>5. DiskInv'
  BY DEF DiskInv
<1>6. LineInv'
  BY DEF LineInv
<1>7. CoreInv'
  BY DEF CoreInv
<1> QED
  BY <1>1, <1>2, <1>3, <1>4, <1>5, <1>6, <1>7

LEMMA CrashStep ==
  ASSUME BootInv, Crash
  PROVE  BootInv'
<1> USE BootAssumption DEF BootInv, Crash, CreateVirtualDisk, Fault, Abandon, DiskWanted,
  NewFiles, Raw, NoImage,
  FileExists, Present
<1>1. BootTypeOK'
  <2>1. /\ files'.code = files.code /\ files'.template = files.template
        /\ files'.vars \in {files.vars, "cut"}
        /\ files'.keymaps = files.keymaps /\ files'.iso = files.iso /\ files'.stat = files.stat
    BY DEF FilesShape
  <2>2. data' \in BOOLEAN
    <3>1. data' = FALSE \/ data' = data
      OBVIOUS
    <3> QED
      BY <3>1 DEF BootTypeOK
  <2>3. faults' \in 0 .. MaxFaults
    BY DEF BootTypeOK
  <2> QED
    BY <2>1, <2>2, <2>3 DEF BootTypeOK, Absent
<1>2. FilesShape'
  BY DEF FilesShape
<1>3. FilesWhole'
  BY DEF FilesWhole, BootTypeOK
<1>4. ConfigInv'
  BY DEF ConfigInv
<1>5. DiskInv'
  BY DEF DiskInv, FilesShape
<1>6. LineInv'
  BY DEF LineInv
<1>7. CoreInv'
  BY DEF CoreInv
<1> QED
  BY <1>1, <1>2, <1>3, <1>4, <1>5, <1>6, <1>7

LEMMA ImportDiskStep ==
  ASSUME BootInv, NEW image \in Images, ImportDisk(image)
  PROVE  BootInv'
<1> USE BootAssumption DEF BootInv, ImportDisk, NewFiles, Raw, NoImage, FileExists, Present
<1>1. BootTypeOK'
  BY DEF BootTypeOK
<1>2. FilesShape'
  BY DEF FilesShape
<1>3. FilesWhole'
  BY DEF FilesWhole
<1>4. ConfigInv'
  BY DEF ConfigInv
<1>5. DiskInv'
  BY DEF DiskInv
<1>6. LineInv'
  BY DEF LineInv
<1>7. CoreInv'
  BY DEF CoreInv
<1> QED
  BY <1>1, <1>2, <1>3, <1>4, <1>5, <1>6, <1>7

LEMMA DeleteVmStep ==
  ASSUME BootInv, DeleteVm
  PROVE  BootInv'
<1> USE BootAssumption DEF BootInv, DeleteVm, NewFiles, Raw, NoImage, FileExists, Present
<1>1. BootTypeOK'
  BY DEF BootTypeOK, FilesShape
<1>2. FilesShape'
  <2>1. files' = [name \in DOMAIN NewFiles |-> files'[name]] /\ files'.disk = NoImage
    BY DEF FilesShape
  <2>2. "size" \in DOMAIN files'.disk /\ files'.disk.size \in Int
    BY <2>1
  <2> QED
    BY <2>1, <2>2 DEF FilesShape
<1>3. FilesWhole'
  BY DEF FilesWhole
<1>4. ConfigInv'
  BY DEF ConfigInv
<1>5. DiskInv'
  BY DEF DiskInv
<1>6. LineInv'
  BY DEF LineInv
<1>7. CoreInv'
  BY DEF CoreInv
<1> QED
  BY <1>1, <1>2, <1>3, <1>4, <1>5, <1>6, <1>7

LEMMA QemuImgCreateDiskStep ==
  ASSUME BootInv, NEW overwrite \in BOOLEAN, QemuImgCreateDisk(overwrite)
  PROVE  BootInv'
<1> USE BootAssumption DEF BootInv, QemuImgCreateDisk, CreateVirtualDisk, Fault, NewFiles, Raw,
  NoImage, FileExists, Present
<1>1. BootTypeOK'
  <2>1. /\ files'.code = files.code /\ files'.template = files.template /\ files'.vars = files.vars
        /\ files'.keymaps = files.keymaps /\ files'.iso = files.iso /\ files'.stat = files.stat
    BY DEF FilesShape
  <2>2. data' \in BOOLEAN
    <3>1. data' = FALSE \/ data' = data
      OBVIOUS
    <3> QED
      BY <3>1 DEF BootTypeOK
  <2>3. faults' \in 0 .. MaxFaults
    BY DEF BootTypeOK
  <2> QED
    BY <2>1, <2>2, <2>3 DEF BootTypeOK
<1>2. FilesShape'
  BY DEF FilesShape
<1>3. FilesWhole'
  BY DEF FilesWhole, FilesShape, BootTypeOK
<1>4. ConfigInv'
  BY DEF ConfigInv
<1>5. DiskInv'
  BY DEF DiskInv
<1>6. LineInv'
  BY DEF LineInv
<1>7. CoreInv'
  BY DEF CoreInv
<1> QED
  BY <1>1, <1>2, <1>3, <1>4, <1>5, <1>6, <1>7

LEMMA QemuImgResizeDiskStep ==
  ASSUME BootInv, NEW size \in 1 .. 2, QemuImgResizeDisk(size)
  PROVE  BootInv'
<1> USE BootAssumption DEF BootInv, QemuImgResizeDisk, NewFiles, Raw, NoImage, FileExists, Present
<1>1. BootTypeOK'
  BY DEF BootTypeOK
<1>2. FilesShape'
  BY DEF FilesShape
<1>3. FilesWhole'
  BY DEF FilesWhole, FilesShape
<1>4. ConfigInv'
  BY DEF ConfigInv
<1>5. DiskInv'
  BY DEF DiskInv
<1>6. LineInv'
  BY DEF LineInv
<1>7. CoreInv'
  BY DEF CoreInv
<1> QED
  BY <1>1, <1>2, <1>3, <1>4, <1>5, <1>6, <1>7

LEMMA IsoGoesStep ==
  ASSUME BootInv, IsoGoes
  PROVE  BootInv'
<1>1. /\ files' = [files EXCEPT !.iso = "gone"]
      /\ faults < MaxFaults /\ faults' = faults + 1
      /\ UNCHANGED <<data, pc, config, attached, args, core, status, starts>>
  BY DEF IsoGoes, Fault
<1>2. /\ files' = [name \in DOMAIN NewFiles |-> files'[name]]
      /\ files'.code = files.code /\ files'.template = files.template /\ files'.vars = files.vars
      /\ files'.keymaps = files.keymaps /\ files'.disk = files.disk /\ files'.iso = "gone" /\ files'.stat = files.stat
      /\ \A iso : [files' EXCEPT !.iso = iso] = [files EXCEPT !.iso = iso]
  BY <1>1 DEF BootInv, FilesShape, NewFiles
<1>3. faults \in Nat /\ faults' \in 0 .. MaxFaults /\ faults' # 0
  <2>1. faults \in 0 .. MaxFaults
    BY DEF BootInv, BootTypeOK
  <2> QED
    BY <1>1, <2>1, BootAssumption
<1>4. BootTypeOK'
  <2>1. BootTypeOK
    BY DEF BootInv
  <2>2. /\ pc' \in {"idle", "disk", "preflight", "build", "core", "init", "guest"}
        /\ data' \in BOOLEAN /\ attached' \in {"none", "vars", "template"}
        /\ core' \in (SUBSET Required) \cup {Absent} /\ starts' \in 0 .. MaxStarts
        /\ status' \in {"stopped", "preparing", "starting", "running", "failed"}
    BY <1>1, <2>1 DEF BootTypeOK
  <2>3. /\ files'.code \in {"absent", "cut", "whole"} /\ files'.keymaps \in {"absent", "small", "whole"}
        /\ {files'.template, files'.vars} \subseteq {"absent", "cut", "clean", "guest"}
        /\ files'.iso = "gone" /\ files'.stat \in {"works", "fails", "failed"}
    BY <1>2, <2>1 DEF BootTypeOK
  <2> QED
    BY <1>3, <2>2, <2>3 DEF BootTypeOK
<1>5. FilesShape'
  BY <1>2 DEF BootInv, FilesShape
<1>6. FilesWhole'
  BY <1>3 DEF FilesWhole
<1>7. LineInv'
  <2>1. ASSUME pc \in {"core", "init"}
        PROVE  \E iso \in IsoStates : args = BuildQemuArgs(config, [files' EXCEPT !.iso = iso], attached)
    BY <1>2, <2>1 DEF BootInv, LineInv
  <2> QED
    BY <1>1, <1>3, <2>1 DEF LineInv
<1>8. ConfigInv' /\ DiskInv' /\ CoreInv'
  BY <1>1, <1>2 DEF BootInv, ConfigInv, DiskInv, CoreInv, Present, NewFiles
<1> QED
  BY <1>4, <1>5, <1>6, <1>7, <1>8 DEF BootInv

LEMMA StatFailsStep ==
  ASSUME BootInv, StatFails
  PROVE  BootInv'
<1> USE BootAssumption DEF BootInv, StatFails, Fault, NewFiles, Raw, NoImage, FileExists, Present
<1>1. BootTypeOK'
  BY DEF BootTypeOK, FilesShape
<1>2. FilesShape'
  BY DEF FilesShape
<1>3. FilesWhole'
  BY DEF FilesWhole, BootTypeOK
<1>4. ConfigInv'
  BY DEF ConfigInv
<1>5. DiskInv'
  BY DEF DiskInv, FilesShape
<1>6. LineInv'
  BY DEF LineInv
<1>7. CoreInv'
  BY DEF CoreInv
<1> QED
  BY <1>1, <1>2, <1>3, <1>4, <1>5, <1>6, <1>7

LEMMA SessionEntersStep ==
  ASSUME BootInv, SessionEnters
  PROVE  BootInv'
<1> USE BootAssumption DEF BootInv, SessionEnters, Forget, MainLoopEnters, MainLoopEntersStopped,
  NewFiles, Raw, NoImage, FileExists, Present
<1>1. BootTypeOK'
  BY DEF BootTypeOK
<1>2. FilesShape'
  BY DEF FilesShape
<1>3. FilesWhole'
  BY DEF FilesWhole
<1>4. ConfigInv'
  BY DEF ConfigInv
<1>5. DiskInv'
  BY DEF DiskInv
<1>6. LineInv'
  BY DEF LineInv
<1>7. CoreInv'
  BY DEF CoreInv
<1> QED
  BY <1>1, <1>2, <1>3, <1>4, <1>5, <1>6, <1>7

LEMMA SessionEndsStep ==
  ASSUME BootInv, SessionEnds
  PROVE  BootInv'
<1> USE BootAssumption DEF BootInv, SessionEnds, NewFiles, Raw, NoImage, FileExists, Present
<1>1. BootTypeOK'
  BY DEF BootTypeOK
<1>2. FilesShape'
  BY DEF FilesShape
<1>3. FilesWhole'
  BY DEF FilesWhole
<1>4. ConfigInv'
  BY DEF ConfigInv
<1>5. DiskInv'
  BY DEF DiskInv
<1>6. LineInv'
  BY DEF LineInv
<1>7. CoreInv'
  BY DEF CoreInv
<1> QED
  BY <1>1, <1>2, <1>3, <1>4, <1>5, <1>6, <1>7

-----------------------------------------------------------------------------
LEMMA BootStep ==
  ASSUME BootInv, BootNext
  PROVE  BootInv'
  BY PageStartsStep, PageCopyCutStep, StartVmFindsDiskStep, StartVmCreatesDiskStep,
    StartVmCannotCreateDiskStep,
     StartVmAcceptsDiskStep, StartVmRefusesDiskStep, BuildWithOwnVarsStep, BuildWithCopiedVarsStep,
     BuildWithTemplateStep, BuildWithoutVarsStep, StartVmLaunchesStep, StartVmFindsNoCoreStep, QemuInitExitsStep,
     QemuInitReturnsStep, GuestWritesStep, GuestEndsStep, CrashStep, ImportDiskStep, DeleteVmStep,
     QemuImgCreateDiskStep, QemuImgResizeDiskStep, IsoGoesStep, StatFailsStep, Zenon DEF BootNext

LEMMA BootBegins ==
  ASSUME BootInit
  PROVE  BootInv
<1> USE BootAssumption DEF BootInit, NewFiles, NoImage, Raw, NoConfig
<1>1. BootTypeOK
  <2>1. /\ files.code = "absent" /\ files.keymaps = "absent" /\ files.template = "absent" /\ files.vars = "absent"
        /\ files.iso = "outside" /\ files.stat = "works"
    OBVIOUS
  <2>2. /\ core \in (SUBSET Required) \cup {Absent}
        /\ data = FALSE
        /\ starts \in 0 .. MaxStarts
        /\ faults \in 0 .. MaxFaults
    OBVIOUS
  <2> QED
    BY <2>1, <2>2 DEF BootTypeOK
<1>2. FilesShape
  BY DEF FilesShape
<1>3. FilesWhole /\ ConfigInv /\ DiskInv /\ LineInv /\ CoreInv
  BY DEF FilesWhole, ConfigInv, DiskInv, LineInv, CoreInv, FileExists, Present
<1> QED
  BY <1>1, <1>2, <1>3 DEF BootInv

LEMMA BootInvariant == SessionSpec => []BootInv
<1>1. SessionInit => BootInv
  BY BootBegins DEF SessionInit
<1>2. BootInv /\ [SessionNext]_sessionVars => BootInv'
  <2> SUFFICES ASSUME BootInv, [SessionNext]_sessionVars  PROVE BootInv'
    OBVIOUS
  <2>1. CASE UNCHANGED bootVars
    <3>1. BootTypeOK' /\ FilesShape' /\ FilesWhole'
      BY <2>1 DEF bootVars, BootInv, BootTypeOK, FilesShape, FilesWhole
    <3>2. ConfigInv' /\ DiskInv' /\ LineInv' /\ CoreInv'
      BY <2>1 DEF bootVars, BootInv, ConfigInv, DiskInv, LineInv, CoreInv
    <3> QED
      BY <3>1, <3>2 DEF BootInv
  <2>2. CASE SessionBoots
    BY <2>2, BootStep DEF SessionBoots
  <2>3. CASE SessionEnters \/ SessionEnds
    BY <2>3, SessionEntersStep, SessionEndsStep
  <2> QED
    BY <2>1, <2>2, <2>3 DEF SessionNext, SessionRuns, sessionVars
<1>3. QED
  BY <1>1, <1>2, PTL DEF SessionSpec

-----------------------------------------------------------------------------
(* Whatever hardware, images and libraries there are, and whatever failed  *)
(* before: the line that StartVm hands to qemu_init declares every name    *)
(* once and before it is used, and the core has the symbols of a run.      *)
THEOREM CommandLineSoundAlways == SessionSpec => []CommandLineSound
<1>1. BootInv => CommandLineSound
  <2> SUFFICES ASSUME BootInv  PROVE CommandLineSound
    OBVIOUS
  <2>1. ASSUME pc = "init", NEW i \in DOMAIN args
        PROVE  LET before == UNION {args[j].holds : j \in 1 .. i - 1}
               IN args[i].needs \subseteq before /\ args[i].holds \cap before = {}
    <3>1. PICK iso \in IsoStates : args = BuildQemuArgs(config, [files EXCEPT !.iso = iso], attached)
      BY <2>1 DEF BootInv, LineInv
    <3>2. Supported(config)
      BY <2>1 DEF BootInv, ConfigInv, Supported
    <3> DEFINE f == [files EXCEPT !.iso = iso]
               A == {<<"code", "ro">>, <<attached, "rw">>, <<"iso", "ro">>, <<"disk", "rw">>}
    <3>3. /\ FirmwareExists(f) => <<"code", "ro">> \in A /\ (attached # "none" => <<attached, "rw">> \in A)
          /\ IsoReadable(config, f) => <<"iso", "ro">> \in A
          /\ HasDisk(f) => <<"disk", "rw">> \in A
      OBVIOUS
    <3> HIDE DEF f, A
    <3>4. InOrder(BuildQemuArgs(config, f, attached), {})
      BY <3>2, <3>3, CommandLine
    <3>5. InOrder(args, {})
      BY <3>1, <3>4 DEF f
    <3> QED
      BY <2>1, <3>5 DEF InOrder
  <2>2. BootTypeOK /\ (pc \in {"init", "guest"} => Required \subseteq core)
    BY DEF BootInv, CoreInv
  <2> QED
    BY <2>1, <2>2 DEF CommandLineSound
<1>2. QED
  BY <1>1, BootInvariant, PTL

(* QEMU never gets a qcow2 image that the preflight refuses, unless stat() *)
(* has ever failed; and without a fault every file on its line is whole    *)
(* and the guest's own.                                                    *)
THEOREM FilesUsableAlways == SessionSpec => []FilesUsable
<1>1. BootInv => FilesUsable
  <2> SUFFICES ASSUME BootInv, pc = "init"
               PROVE  /\ files.stat = "works" /\ files.disk.qcow2 => files.disk.rest = 0 /\ files.disk.entry # 0
                      /\ faults = 0 =>
                           \A file \in UNION {args[i].opens : i \in DOMAIN args} :
                             \/ file = <<"code", "ro">> /\ files.code = "whole"
                             \/ file = <<"vars", "rw">> /\ files.vars \in {"clean", "guest"}
                             \/ file = <<"disk", "rw">> /\ files.disk.size > 0
                             \/ file = <<"iso", "ro">> /\ files.iso \in {"outside", "copied"}
    BY DEF FilesUsable
  <2>1. files.stat = "works" /\ files.disk.qcow2 => files.disk.rest = 0 /\ files.disk.entry # 0
    BY DEF BootInv, DiskInv
  <2>2. ASSUME faults = 0, NEW file \in UNION {args[i].opens : i \in DOMAIN args}
        PROVE  \/ file = <<"code", "ro">> /\ files.code = "whole"
               \/ file = <<"vars", "rw">> /\ files.vars \in {"clean", "guest"}
               \/ file = <<"disk", "rw">> /\ files.disk.size > 0
               \/ file = <<"iso", "ro">> /\ files.iso \in {"outside", "copied"}
    <3>1. PICK iso \in IsoStates :
            args = BuildQemuArgs(config, [files EXCEPT !.iso = iso], attached) /\ iso = files.iso
      BY <2>2 DEF BootInv, LineInv
    <3>2. Supported(config)
      BY DEF BootInv, ConfigInv, Supported
    <3> DEFINE f == [files EXCEPT !.iso = iso]
               A == (IF files.code = "whole" THEN {<<"code", "ro">>} ELSE {})
                    \cup (IF files.vars \in {"clean", "guest"} THEN {<<"vars", "rw">>} ELSE {})
                    \cup (IF files.iso \in {"outside", "copied"} THEN {<<"iso", "ro">>} ELSE {})
                    \cup (IF files.disk.size > 0 THEN {<<"disk", "rw">>} ELSE {})
    <3>3. f.code = files.code /\ f.iso = files.iso /\ f.disk = files.disk
      BY <3>1 DEF BootInv, NewFiles
    <3>4. /\ files.code # "absent" => files.code = "whole"
          /\ attached # "none" => attached = "vars" /\ files.vars \in {"clean", "guest"}
          /\ files.iso \in {"outside", "copied"}
          /\ Present(files, "disk") => files.disk.size > 0
      BY <2>2 DEF BootInv, BootTypeOK, FilesWhole
    <3>5. /\ FirmwareExists(f) => <<"code", "ro">> \in A /\ (attached # "none" => <<attached, "rw">> \in A)
          /\ IsoReadable(config, f) => <<"iso", "ro">> \in A
          /\ HasDisk(f) => <<"disk", "rw">> \in A
      BY <3>3, <3>4 DEF FirmwareExists, IsoReadable, HasDisk, FileExists, Present
    <3> HIDE DEF f
    <3>6. file \in A
      <4> HIDE DEF A
      <4>1. \A i \in DOMAIN BuildQemuArgs(config, f, attached) : BuildQemuArgs(config, f, attached)[i].opens \subseteq A
        BY <3>2, <3>5, CommandLine
      <4> QED
        BY <2>2, <3>1, <4>1 DEF f
    <3> QED
      BY <3>6
  <2> QED
    BY <2>1, <2>2
<1>2. QED
  BY <1>1, BootInvariant, PTL

(* As long as stat() finds the image, no start, crash or retry takes from  *)
(* it what was written to it: only deleting, overwriting or shrinking it   *)
(* on request does.  What a start or a tool creates over an image that     *)
(* stat() fails on is the one exception.                                   *)
THEOREM GuestDataKeptAlways == SessionSpec => GuestDataKept
<1> DEFINE Allowed == \/ DeleteVm \/ QemuImgCreateDisk(TRUE) \/ DiskMissed
                      \/ \E size \in 1 .. 2 : size < files.disk.size /\ QemuImgResizeDisk(size)
<1>1. BootInv /\ [SessionNext]_sessionVars => [data /\ ~data' => Allowed]_bootVars
  <2> SUFFICES ASSUME BootInv, SessionNext, data, ~data'  PROVE Allowed
    BY DEF sessionVars, bootVars
  <2>1. Present(files, "disk")
    BY DEF BootInv, DiskInv
  <2>2. BootNext
    BY DEF SessionNext, SessionBoots, SessionEnters, SessionRuns, SessionEnds, Forget, bootVars
  <2>3. ASSUME NEW overwrite \in BOOLEAN, QemuImgCreateDisk(overwrite)  PROVE Allowed
    <3>1. CASE overwrite
      BY <2>3, <3>1
    <3>2. CASE ~overwrite
      BY <2>1, <2>3, <3>2 DEF QemuImgCreateDisk, FileExists, DiskMissed
    <3> QED
      BY <3>1, <3>2
  <2>4. ASSUME NEW size \in 1 .. 2, QemuImgResizeDisk(size)  PROVE size < files.disk.size
    <3>1. files.disk.size \in Int /\ ~(size >= files.disk.size)
      BY <2>4 DEF QemuImgResizeDisk, BootInv, FilesShape
    <3> QED
      BY <3>1
  <2>5. ASSUME StartVmCreatesDisk \/ StartVmCannotCreateDisk \/ Crash  PROVE Allowed
    BY <2>1, <2>5 DEF StartVmCreatesDisk, StartVmCannotCreateDisk, Crash, DiskWanted, FileExists,
      DiskMissed
  <2> QED
    BY <2>2, <2>3, <2>4, <2>5 DEF BootNext, PageStarts, PageCopyCut, StartVmFindsDisk,
         StartVmAcceptsDisk, StartVmRefusesDisk, Build, BuildWithOwnVars, BuildWithCopiedVars,
         BuildWithTemplate, BuildWithoutVars, StartVmLaunches, StartVmFindsNoCore, QemuInitExits, QemuInitReturns,
         GuestWrites, GuestEnds, IsoGoes, StatFails, ImportDisk
<1>2. QED
  BY <1>1, BootInvariant, PTL DEF SessionSpec, GuestDataKept

-----------------------------------------------------------------------------
(* The number that the bridge keeps is that of an open connection.         *)
FdInv == serialFd # NoFd => owner[serialFd] = "bridge"

(* A bridge whose flag is clear is on its way out only while SerialStop    *)
(* waits for it: before and after that there is none.  A bridge that runs  *)
(* on while the page registers a callback has lost its last one to the end *)
(* of a run.                                                               *)
JoinInv ==
  /\ ui \in {"close", "join", "release"} => ~serialRunning
  /\ ~serialRunning => ui \in {"close", "join"} \/ bridge.at = "done"

(* A callback is replaced only when there is no bridge that could call it, *)
(* and until the new one is there.                                         *)
CallbackInv ==
  /\ callback # 0 /\ tsfn[callback] = "replaced" => ui = "create" /\ ~serialRunning
  /\ bridge.at \in {"call", "lostCall"} =>
       bridge.cb # 0 /\ tsfn[bridge.cb] # "replaced"

ConsoleInv == TypeOK /\ FdInv /\ JoinInv /\ CallbackInv
-----------------------------------------------------------------------------
(* The steps of the bridge's thread, with what each does to its record.    *)
LEMMA BridgeSteps ==
  ASSUME TypeOK, SerialBridgeThread
  PROVE  /\ UNCHANGED <<captureVars, serialRunning, callbackVars, ui>>
         /\ bridge.at # "done"
         /\ \/ /\ bridge' = [at |-> "check", fd |-> NoFd, cb |-> callback]
               /\ callback = 0
               /\ UNCHANGED <<serialFd, peer, owner>>
            \/ /\ \E step \in {"call", "lostCall"} : bridge' = [at |-> step, fd |-> NoFd, cb |-> callback]
               /\ callback # 0
               /\ UNCHANGED <<serialFd, peer, owner>>
            \/ /\ \E step \in {"check", "recv"} : bridge' = [at |-> step, fd |-> serialFd, cb |-> 0]
               /\ UNCHANGED <<serialFd, peer, owner>>
            \/ /\ \E step \in {"check", "connect", "leave", "emit", "drop", "fetch", "lost", "done"} :
                    bridge' = [at |-> step, fd |-> NoFd, cb |-> 0]
               /\ UNCHANGED <<serialFd, peer, owner>> \/ SerialTryConnectLocked \/ SerialCloseLocked
<1> USE DEF BridgeGoes
<1>1. /\ UNCHANGED <<captureVars, serialRunning, callbackVars, ui>>
      /\ bridge.at # "done"
  <2>1. UNCHANGED <<captureVars, serialRunning, callbackVars, ui>>
    BY Zenon DEF SerialBridgeThread
  <2>2. bridge.at # "done"
    BY DEF SerialBridgeThread, SerialEmitToJs
  <2>3. QED
    BY <2>1, <2>2
<1> DEFINE kept == UNCHANGED <<serialFd, peer, owner>>
<1>2. CASE kept /\ (SerialEmitToJs("hello", "call") \/ SerialEmitToJs("emit", "call") \/ SerialEmitToJs("lost", "lostCall"))
  BY <1>1, <1>2 DEF SerialEmitToJs
<1>3. CASE kept /\ (BridgeGoes("call", "check") \/ BridgeGoes("lostCall", "check"))
  BY <1>1, <1>3
<1>4. CASE kept /\ BridgeGoes("check", IF serialRunning THEN "connect" ELSE "leave")
  BY <1>1, <1>4
<1>5. CASE BridgeGoes("connect", "fetch") /\ SerialTryConnectLocked
  BY <1>1, <1>5
<1>6. CASE kept /\ bridge' = [at |-> IF serialFd = NoFd THEN "check" ELSE "recv", fd |-> serialFd, cb |-> 0]
  BY <1>1, <1>6
<1>7. CASE kept /\ \E step \in {"emit", "check", "drop"} : BridgeGoes("recv", step)
  BY <1>1, <1>7
<1>8. CASE BridgeGoes("drop", "lost") /\ SerialCloseLocked
  BY <1>1, <1>8
<1>9. CASE BridgeGoes("leave", "done") /\ SerialCloseLocked
  BY <1>1, <1>9
<1> HIDE DEF BridgeGoes
<1>10. ASSUME \E answer \in RecvAnswers(bridge.fd) :
               BridgeGoes("recv", CASE answer = "data" -> "emit" [] answer = "timeout" -> "check" [] OTHER -> "drop")
       PROVE \E step \in {"emit", "check", "drop"} : BridgeGoes("recv", step)
  BY <1>10, Zenon
<1>11. QED
  BY <1>2, <1>3, <1>4, <1>5, <1>6, <1>7, <1>8, <1>9, <1>10, Zenon DEF SerialBridgeThread,
    DropsConnection

-----------------------------------------------------------------------------
(* The types. *)
LEMMA TypeStep ==
  ASSUME TypeOK, Next
  PROVE  TypeOK'
<1> USE ConsoleAssumption DEF TypeOK, Fds, NoFd, Callbacks,
           captureVars, serialVars, callbackVars
<1>1. CASE RunStarts
  BY <1>1 DEF RunStarts
<1>2. CASE CoreListens
  BY <1>2 DEF CoreListens
<1>3. CASE CoreWrites
  BY <1>3 DEF CoreWrites
<1>4. CASE CoreEnds
  BY <1>4 DEF CoreEnds
<1>5. CASE CaptureDestroyed
  <2>1. captureRunning' \in BOOLEAN
    BY <1>5, Zenon DEF CaptureDestroyed
  <2>2. tsfn' \in [Callbacks -> {"none", "open", "replaced", "ended"}]
    BY <1>5 DEF CaptureDestroyed
  <2>3. /\ vm' \in {"off", "init", "serving", "ending"} /\ callback' \in Callbacks \cup {0}
        /\ capture' \in {"none", "open", "stopping", "join", "release", "reset", "gone"}
    BY <1>5 DEF CaptureDestroyed
  <2>4. UNCHANGED <<runs, reader, pipe, serialVars, ui>>
    BY <1>5, Zenon DEF CaptureDestroyed
  <2>5. QED
    BY <2>1, <2>2, <2>3, <2>4
<1>6. CASE ReadThread
  BY <1>6 DEF ReadThread, WriteEndOpen
<1>7. CASE OthersOpen
  BY <1>7 DEF OthersOpen, LowestFree
<1>8. CASE OthersClose
  BY <1>8 DEF OthersClose
<1>9. CASE WriteToVmConsole
  BY <1>9 DEF WriteToVmConsole, SerialCloseLocked
<1>10. CASE SetConsoleCallback
  BY <1>10 DEF SetConsoleCallback
<1>11. CASE SerialStopCloses
  BY <1>11 DEF SerialStopCloses, SerialCloseLocked
<1>12. CASE SerialStopJoins
  BY <1>12 DEF SerialStopJoins, SerialJoined
<1>13. CASE ReleasesCallback
  BY <1>13 DEF ReleasesCallback
<1>14. CASE CreatesCallback
  BY <1>14 DEF CreatesCallback
<1>15. CASE SerialStart
  BY <1>15 DEF SerialStart
<1>16. CASE SerialBridgeThread
  <2>1. UNCHANGED <<captureVars, serialRunning, callbackVars, ui>>
    BY <1>16, BridgeSteps
  <2>2. bridge' \in [at : {"hello", "emit", "lost", "call", "lostCall", "check", "connect", "fetch",
                           "recv", "drop", "leave", "done"},
                     fd : Fds \cup {NoFd}, cb : Callbacks \cup {0}]
    BY <1>16, BridgeSteps
  <2>3. serialFd' \in Fds \cup {NoFd} /\ peer' \in 0 .. runs /\ owner' \in [Fds -> {"free", "bridge", "other"}]
    <3>1. CASE UNCHANGED <<serialFd, peer, owner>>
      BY <3>1
    <3>2. CASE SerialTryConnectLocked
      BY <3>2 DEF SerialTryConnectLocked
    <3>3. CASE SerialCloseLocked
      BY <3>3 DEF SerialCloseLocked
    <3>4. QED
      BY <1>16, <3>1, <3>2, <3>3, BridgeSteps
  <2>4. QED
    BY <2>1, <2>2, <2>3
<1>17. QED
  BY <1>1, <1>2, <1>3, <1>4, <1>5, <1>6, <1>7, <1>8, <1>9, <1>10, <1>11, <1>12, <1>13, <1>14,
    <1>15, <1>16
     DEF Next, UiProceeds

(* The bridge's number is opened and closed by those who hold its lock.    *)
LEMMA FdStep ==
  ASSUME TypeOK, FdInv, Next
  PROVE  FdInv'
<1> USE ConsoleAssumption DEF TypeOK, FdInv, Fds, NoFd,
           captureVars, serialVars, callbackVars
<1>1. CASE RunStarts
  BY <1>1 DEF RunStarts
<1>2. CASE CoreListens
  BY <1>2 DEF CoreListens
<1>3. CASE CoreWrites
  BY <1>3 DEF CoreWrites
<1>4. CASE CoreEnds
  BY <1>4 DEF CoreEnds
<1>5. CASE CaptureDestroyed
  BY <1>5 DEF CaptureDestroyed
<1>6. CASE ReadThread
  BY <1>6 DEF ReadThread, WriteEndOpen
<1>7. CASE OthersOpen
  BY <1>7 DEF OthersOpen, LowestFree
<1>8. CASE OthersClose
  BY <1>8 DEF OthersClose
<1>9. CASE WriteToVmConsole
  BY <1>9 DEF WriteToVmConsole, SerialCloseLocked
<1>10. CASE SetConsoleCallback
  BY <1>10 DEF SetConsoleCallback
<1>11. CASE SerialStopCloses
  BY <1>11 DEF SerialStopCloses, SerialCloseLocked
<1>12. CASE SerialStopJoins
  BY <1>12 DEF SerialStopJoins, SerialJoined
<1>13. CASE ReleasesCallback
  BY <1>13 DEF ReleasesCallback
<1>14. CASE CreatesCallback
  BY <1>14 DEF CreatesCallback
<1>15. CASE SerialStart
  BY <1>15 DEF SerialStart
<1>16. CASE SerialBridgeThread
  BY <1>16, BridgeSteps DEF SerialTryConnectLocked, SerialCloseLocked, LowestFree
<1>17. QED
  BY <1>1, <1>2, <1>3, <1>4, <1>5, <1>6, <1>7, <1>8, <1>9, <1>10, <1>11, <1>12, <1>13, <1>14,
    <1>15, <1>16
     DEF Next, UiProceeds

(* No bridge without its flag, except while it is waited for.              *)
LEMMA JoinStep ==
  ASSUME TypeOK, JoinInv, Next
  PROVE  JoinInv'
<1> USE ConsoleAssumption DEF TypeOK, JoinInv,
           captureVars, serialVars, callbackVars
<1>1. CASE RunStarts
  BY <1>1 DEF RunStarts
<1>2. CASE CoreListens
  BY <1>2 DEF CoreListens
<1>3. CASE CoreWrites
  BY <1>3 DEF CoreWrites
<1>4. CASE CoreEnds
  BY <1>4 DEF CoreEnds
<1>5. CASE CaptureDestroyed
  BY <1>5 DEF CaptureDestroyed
<1>6. CASE ReadThread
  BY <1>6 DEF ReadThread, WriteEndOpen
<1>7. CASE OthersOpen
  BY <1>7 DEF OthersOpen, LowestFree
<1>8. CASE OthersClose
  BY <1>8 DEF OthersClose
<1>9. CASE WriteToVmConsole
  BY <1>9 DEF WriteToVmConsole, SerialCloseLocked
<1>10. CASE SetConsoleCallback
  BY <1>10 DEF SetConsoleCallback
<1>11. CASE SerialStopCloses
  BY <1>11 DEF SerialStopCloses, SerialCloseLocked
<1>12. CASE SerialStopJoins
  BY <1>12 DEF SerialStopJoins, SerialJoined
<1>13. CASE ReleasesCallback
  BY <1>13 DEF ReleasesCallback
<1>14. CASE CreatesCallback
  BY <1>14 DEF CreatesCallback
<1>15. CASE SerialStart
  BY <1>15 DEF SerialStart
<1>16. CASE SerialBridgeThread
  BY <1>16, BridgeSteps DEF SerialTryConnectLocked, SerialCloseLocked, LowestFree
<1>17. QED
  BY <1>1, <1>2, <1>3, <1>4, <1>5, <1>6, <1>7, <1>8, <1>9, <1>10, <1>11, <1>12, <1>13, <1>14,
    <1>15, <1>16
     DEF Next, UiProceeds

(* No callback is replaced under a bridge that could call it.              *)
LEMMA CallbackStep ==
  ASSUME TypeOK, JoinInv, CallbackInv, Next
  PROVE  CallbackInv'
<1> USE ConsoleAssumption DEF TypeOK, JoinInv, CallbackInv, Callbacks,
           captureVars, serialVars, callbackVars
<1>1. CASE RunStarts
  BY <1>1 DEF RunStarts
<1>2. CASE CoreListens
  BY <1>2 DEF CoreListens
<1>3. CASE CoreWrites
  BY <1>3 DEF CoreWrites
<1>4. CASE CoreEnds
  BY <1>4 DEF CoreEnds
<1>5. CASE CaptureDestroyed
  BY <1>5 DEF CaptureDestroyed
<1>6. CASE ReadThread
  BY <1>6 DEF ReadThread, WriteEndOpen
<1>7. CASE OthersOpen
  BY <1>7 DEF OthersOpen, LowestFree
<1>8. CASE OthersClose
  BY <1>8 DEF OthersClose
<1>9. CASE WriteToVmConsole
  BY <1>9 DEF WriteToVmConsole, SerialCloseLocked
<1>10. CASE SetConsoleCallback
  BY <1>10 DEF SetConsoleCallback
<1>11. CASE SerialStopCloses
  BY <1>11 DEF SerialStopCloses, SerialCloseLocked
<1>12. CASE SerialStopJoins
  BY <1>12 DEF SerialStopJoins, SerialJoined
<1>13. CASE ReleasesCallback
  BY <1>13 DEF ReleasesCallback
<1>14. CASE CreatesCallback
  BY <1>14 DEF CreatesCallback
<1>15. CASE SerialStart
  BY <1>15 DEF SerialStart
<1>16. CASE SerialBridgeThread
  BY <1>16, BridgeSteps DEF SerialTryConnectLocked, SerialCloseLocked, LowestFree
<1>17. QED
  BY <1>1, <1>2, <1>3, <1>4, <1>5, <1>6, <1>7, <1>8, <1>9, <1>10, <1>11, <1>12, <1>13, <1>14,
    <1>15, <1>16
     DEF Next, UiProceeds

-----------------------------------------------------------------------------
LEMMA ConsoleInvHolds == Spec => []ConsoleInv
<1>1. Init => ConsoleInv
  <2> SUFFICES ASSUME Init  PROVE ConsoleInv
    OBVIOUS
  <2>1. {captureRunning, serialRunning} \subseteq BOOLEAN
    BY DEF Init
  <2>2. TypeOK
    BY <2>1, ConsoleAssumption DEF Init, TypeOK, Callbacks, Fds, NoFd
  <2>3. FdInv /\ JoinInv /\ CallbackInv
    BY DEF Init, FdInv, JoinInv, CallbackInv
  <2>4. QED
    BY <2>2, <2>3 DEF ConsoleInv
<1>2. ConsoleInv /\ [Next]_vars => ConsoleInv'
  <2> SUFFICES ASSUME ConsoleInv, [Next]_vars  PROVE ConsoleInv'
    OBVIOUS
  <2>1. CASE Next
    BY <2>1, TypeStep, FdStep, JoinStep, CallbackStep DEF ConsoleInv
  <2>2. CASE UNCHANGED vars
    BY <2>2 DEF vars, captureVars, serialVars, callbackVars, ConsoleInv, TypeOK, FdInv, JoinInv,
      CallbackInv
  <2>3. QED
    BY <2>1, <2>2
<1>3. QED
  BY <1>1, <1>2, PTL DEF Spec

(* The bridge touches nothing that was given up: neither a descriptor that *)
(* another part of the process may have by now, nor a callback the page    *)
(* has replaced, however the joins, the reconnects, the ends of runs and   *)
(* the page's registrations interleave.                                    *)
THEOREM BridgeOwnsAlways == Spec => []BridgeOwns
<1>1. ConsoleInv => BridgeOwns
  BY DEF ConsoleInv, FdInv, CallbackInv, BridgeOwns
<1>2. QED
  BY <1>1, ConsoleInvHolds, PTL
=============================================================================
