------------------------------ MODULE VncProofs ------------------------------
(***************************************************************************)
(* The sessions of VncSession and VncRender, for any number of requests,   *)
(* surfaces and frames: what a disconnect promises, that no thread and no  *)
(* client is lost or used after its end, and that the picture is current.  *)
(***************************************************************************)
EXTENDS VncRender, TLAPS

(* Requests are numbered as they come, and the number is what an attempt   *)
(* compares to see whether it was cancelled: only the last one was not.    *)
SeqInv ==
  /\ connectSeq = requests
  /\ \A n \in Requests :
       /\ n <= requests => thread[n].seq = n /\ thread[n].kind # "none"
       /\ n > requests => thread[n].pc = "none" /\ thread[n].kind = "none"

KindInv ==
  /\ closed => requests > 0 /\ thread[requests].kind = "disconnect"
  /\ \A n \in Requests :
       thread[n].pc \in {"check", "handshake", "install", "leave"} => thread[n].kind = "connect"

(* connecting is set from an attempt's request to its end, and keeps out a *)
(* second one.                                                             *)
Attempting(n) == thread[n].kind = "connect" /\ thread[n].pc # "done"

AttemptInv ==
  \A m \in Requests : Attempting(m) =>
    connecting /\ \A n \in Requests : Attempting(n) => n = m

(* The session's client came with its worker from the last attempt that    *)
(* cleaned up, and the requests after that have not begun their clean-up.  *)
ClientInv ==
  /\ handle = client
  /\ client # 0 =>
       /\ clients[client] = "live"
       /\ thread[client].kind = "connect" /\ thread[client].pc \in {"leave", "done"}
       /\ \A k \in Requests : client < k /\ k <= requests => thread[k].pc = "clean"

(* What a clean-up took off the session is its own until it has freed it.  *)
CleanUpInv ==
  \A k \in Requests :
    /\ thread[k].joins = thread[k].frees
    /\ thread[k].pc = "join" /\ thread[k].frees # 0 =>
         /\ thread[k].frees # client
         /\ thread[thread[k].frees].pc \in {"leave", "done"}

(* Every live client is being installed, the session's or a clean-up's.    *)
LiveInv ==
  \A n \in Requests :
    /\ thread[n].pc \in {"handshake", "install"} => clients[n] = "live"
    /\ clients[n] = "live" =>
         \/ thread[n].pc \in {"handshake", "install"} \/ client = n
         \/ \E k \in Requests : thread[k].pc = "join" /\ thread[k].frees = n
    /\ worker[n].pc # "none" => thread[n].pc \in {"leave", "done"}

(* Without a connect after a disconnect no worker meets a client that is   *)
(* not its own.                                                            *)
WorkerInv ==
  ~Reconnected =>
    \A n \in Requests :
      /\ worker[n].pc = "spawned" => client \in {0, n}
      /\ worker[n].pc \in {"begun", "loop"} => worker[n].client = n /\ clients[n] = "live"

SessionInv ==
  /\ TypeOK /\ SeqInv /\ KindInv /\ AttemptInv
  /\ WorkersKept /\ ClientInv /\ CleanUpInv /\ LiveInv /\ WorkerInv

(* What is drawn exists, whenever surfaces are set.                        *)
DrawnInv ==
  /\ RenderTypeOK
  /\ setting => surfaces > 0
  /\ \A r \in Surfaces : /\ render[r].at = "bind" => render[r].copy <= surfaces
                         /\ render[r].at = "flush" => render[r].copy <= frames

(* If a surface is set only while no clean-up goes on, none begins before  *)
(* the render thread is looked after; a render thread that is not the      *)
(* session's is being joined, and is the only one.                         *)
RenderInv ==
  /\ setting => ~CleanUpGoesOn
  /\ renderHandle # 0 =>
       /\ renderRunning
       /\ render[renderHandle].at \notin {"none", "ending", "done"}
       /\ \A n \in Requests : thread[n].pc # "join"
  /\ \A n \in Requests : takes[n] # 0 =>
       thread[n].pc = "join" /\ \A m \in Requests : takes[m] # 0 => m = n
  /\ \A r \in Surfaces :
       /\ render[r].at \notin {"none", "done"} =>
            r = renderHandle \/ \E n \in Requests : takes[n] = r
       /\ render[r].at \in {"none", "done", "spawned"} =>
            render[r].window = 0 /\ render[r].shown = 0

(* What the session's render thread is about to bind or to flush is what   *)
(* was asked for or delivered last, unless the change is marked.           *)
PictureInv ==
  renderHandle # 0 =>
    LET w == render[renderHandle]
    IN /\ ~surfaceDirty /\ w.at \in {"wait", "surface", "frame", "copy", "flush"} =>
            w.window \in {0, pending}
       /\ ~surfaceDirty /\ w.at = "bind" => w.copy = pending
       /\ ~frameDirty /\ w.at \in {"wait", "surface", "frame"} /\ w.window # 0 /\ w.shown # 0 =>
            w.shown = fb
       /\ ~frameDirty /\ w.at = "flush" => w.copy = fb
       /\ w.at = "flush" => fb # 0
       /\ fb = 0 => w.shown = 0

Tidy == SessionInv /\ DrawnInv /\ RenderInv /\ PictureInv

(* The session is tidy until a surface is set during a clean-up.           *)
IInv == SessionInv /\ DrawnInv /\ (~overlapped => Tidy)
-----------------------------------------------------------------------------
(* What the proofs need of the numbers 1 .. MaxRequests, once and for all. *)
LEMMA RequestNumbers ==
  /\ \A n \in Requests : n \in Nat /\ n # 0 /\ n \in 0 .. MaxRequests
  /\ \A x \in 0 .. MaxRequests : x \in Nat /\ (x # 0 => x \in Requests)
  /\ \A x \in 0 .. MaxRequests : x < MaxRequests => x + 1 \in Requests /\ x + 1 \in 0 .. MaxRequests
  /\ 0 \in 0 .. MaxRequests
  BY SessionAssumption DEF Requests

(* A detached thread that goes on to its next line is still a thread.      *)
LEMMA ThreadMoves ==
  ASSUME TypeOK, NEW n \in Requests,
         NEW pc \in {"none", "clean", "join", "check", "handshake", "install", "leave", "done"}
  PROVE  [thread EXCEPT ![n].pc = pc] \in [Requests -> ThreadRecords]
<1>1. thread \in [Requests -> ThreadRecords]
  BY DEF TypeOK
<1> QED
  BY <1>1 DEF ThreadRecords

-----------------------------------------------------------------------------
(* One lemma for each action of VncSession.                                *)
LEMMA ConnectLooksStep ==
  ASSUME SessionInv, ConnectLooks
  PROVE  SessionInv'
<1> USE RequestNumbers DEF SessionInv
<1>1. /\ ui' = "unconnected"
      /\ UNCHANGED <<client, handle, running, connecting, connectSeq, requests, closed, worker, clients>>
      /\ thread' = thread
  BY DEF TypeOK, ConnectLooks
<1>2. TypeOK'
  BY <1>1 DEF TypeOK
<1>3. ~Reconnected' => ~Reconnected
  BY <1>1 DEF Reconnected
<1>4. SeqInv'
  BY <1>1 DEF SeqInv
<1>5. KindInv'
  BY <1>1 DEF KindInv
<1>6. AttemptInv'
  BY <1>1 DEF AttemptInv, Attempting
<1>7. WorkersKept'
  BY <1>1 DEF WorkersKept
<1>8. ClientInv'
  BY <1>1 DEF ClientInv
<1>9. CleanUpInv'
  BY <1>1 DEF CleanUpInv
<1>10. LiveInv'
  BY <1>1 DEF LiveInv
<1>11. WorkerInv'
  BY <1>1, <1>3 DEF WorkerInv
<1> QED
  BY <1>2, <1>4, <1>5, <1>6, <1>7, <1>8, <1>9, <1>10, <1>11

LEMMA ConnectAlreadyStep ==
  ASSUME SessionInv, ConnectAlready
  PROVE  SessionInv'
<1> USE RequestNumbers DEF SessionInv
<1>1. /\ connecting /\ closed' = FALSE /\ ui' = "idle"
      /\ UNCHANGED <<client, handle, running, connecting, connectSeq, requests, worker, clients>>
      /\ thread' = thread
  BY DEF TypeOK, ConnectAlready
<1>2. TypeOK'
  BY <1>1 DEF TypeOK
<1>3. ~Reconnected' => ~Reconnected
  BY <1>1 DEF Reconnected
<1>4. SeqInv'
  BY <1>1 DEF SeqInv
<1>5. KindInv'
  BY <1>1 DEF KindInv
<1>6. AttemptInv'
  BY <1>1 DEF AttemptInv, Attempting
<1>7. WorkersKept'
  BY <1>1 DEF WorkersKept
<1>8. ClientInv'
  BY <1>1 DEF ClientInv
<1>9. CleanUpInv'
  BY <1>1 DEF CleanUpInv
<1>10. LiveInv'
  BY <1>1 DEF LiveInv
<1>11. WorkerInv'
  BY <1>1, <1>3 DEF WorkerInv
<1> QED
  BY <1>2, <1>4, <1>5, <1>6, <1>7, <1>8, <1>9, <1>10, <1>11

LEMMA ConnectStartsStep ==
  ASSUME SessionInv, ConnectStarts
  PROVE  SessionInv'
<1> USE RequestNumbers DEF SessionInv
<1>0. /\ ~connecting /\ connecting' = TRUE /\ connectSeq' = requests' /\ closed' = FALSE
      /\ ui' = "idle"
      /\ UNCHANGED <<client, handle, running, worker, clients>>
      /\ requests < MaxRequests /\ requests' = requests + 1
  BY DEF SeqInv, TypeOK, ConnectStarts, Launch
<1>1. /\ requests < MaxRequests /\ requests' = requests + 1 /\ requests' \in Requests
      /\ ~(requests' <= requests) /\ \A k \in Requests : k <= requests' <=> (k <= requests \/ k = requests')
      /\ ~connecting /\ connecting' = TRUE /\ connectSeq' = requests' /\ closed' = FALSE
      /\ ui' = "idle"
      /\ UNCHANGED <<client, handle, running, worker, clients>>
  BY <1>0 DEF TypeOK
<1>2. thread' = [thread EXCEPT ![requests'] =
              [pc |-> "clean", kind |-> "connect", seq |-> requests', joins |-> 0, frees |-> 0]]
  BY DEF SeqInv, TypeOK, ConnectStarts, Launch, ThreadRecords
<1>3. thread' \in [Requests -> ThreadRecords]
  BY <1>1, <1>2 DEF TypeOK, ThreadRecords
<1>4. TypeOK'
  BY <1>1, <1>3 DEF TypeOK
<1>5. ~Reconnected' => ~Reconnected
  BY <1>1, <1>2 DEF Reconnected, SeqInv, TypeOK, ThreadRecords
<1>6. SeqInv'
  BY <1>1, <1>2 DEF TypeOK, SeqInv
<1>7. KindInv'
  BY <1>1, <1>2 DEF KindInv
<1>8. AttemptInv'
  BY <1>1, <1>2 DEF AttemptInv, Attempting
<1>9. WorkersKept'
  BY <1>1, <1>2 DEF TypeOK, SeqInv, WorkersKept
<1>10. ClientInv'
  BY <1>1, <1>2 DEF TypeOK, SeqInv, ClientInv
<1>11. CleanUpInv'
  BY <1>1, <1>2 DEF TypeOK, SeqInv, CleanUpInv
<1>12. LiveInv'
  BY <1>1, <1>2 DEF TypeOK, SeqInv, LiveInv
<1>13. WorkerInv'
  BY <1>1, <1>2, <1>5 DEF WorkerInv
<1> QED
  BY <1>4, <1>6, <1>7, <1>8, <1>9, <1>10, <1>11, <1>12, <1>13

LEMMA DisconnectStep ==
  ASSUME SessionInv, Disconnect
  PROVE  SessionInv'
<1> USE RequestNumbers DEF SessionInv
<1>0. /\ connectSeq' = requests' /\ closed' = TRUE
      /\ UNCHANGED <<client, handle, running, connecting, ui, worker, clients>>
      /\ requests < MaxRequests /\ requests' = requests + 1
  BY DEF SeqInv, TypeOK, Disconnect, Launch, SeqAfterDisconnect
<1>1. /\ requests < MaxRequests /\ requests' = requests + 1 /\ requests' \in Requests
      /\ ~(requests' <= requests) /\ \A k \in Requests : k <= requests' <=> (k <= requests \/ k = requests')
      /\ connectSeq' = requests' /\ closed' = TRUE
      /\ UNCHANGED <<client, handle, running, connecting, ui, worker, clients>>
  BY <1>0 DEF TypeOK
<1>2. thread' = [thread EXCEPT ![requests'] =
              [pc |-> "clean", kind |-> "disconnect", seq |-> requests', joins |-> 0, frees |-> 0]]
  BY DEF SeqInv, TypeOK, Disconnect, Launch, SeqAfterDisconnect, ThreadRecords
<1>3. thread' \in [Requests -> ThreadRecords]
  BY <1>1, <1>2 DEF TypeOK, ThreadRecords
<1>4. TypeOK'
  BY <1>1, <1>3 DEF TypeOK
<1>5. ~Reconnected' => ~Reconnected
  BY <1>1, <1>2 DEF Reconnected, SeqInv, TypeOK, ThreadRecords
<1>6. SeqInv'
  BY <1>1, <1>2 DEF TypeOK, SeqInv
<1>7. KindInv'
  BY <1>1, <1>2 DEF TypeOK, KindInv
<1>8. AttemptInv'
  BY <1>1, <1>2 DEF AttemptInv, Attempting
<1>9. WorkersKept'
  BY <1>1, <1>2 DEF TypeOK, SeqInv, WorkersKept
<1>10. ClientInv'
  BY <1>1, <1>2 DEF TypeOK, SeqInv, KindInv, ClientInv, CleanUpInv, LiveInv
<1>11. CleanUpInv'
  BY <1>1, <1>2 DEF TypeOK, SeqInv, CleanUpInv
<1>12. LiveInv'
  BY <1>1, <1>2 DEF TypeOK, SeqInv, LiveInv
<1>13. WorkerInv'
  BY <1>1, <1>2, <1>5 DEF WorkerInv
<1> QED
  BY <1>4, <1>6, <1>7, <1>8, <1>9, <1>10, <1>11, <1>12, <1>13

LEMMA CleansStep ==
  ASSUME SessionInv, NEW n \in Requests, Cleans(n)
  PROVE  SessionInv'
<1> USE RequestNumbers DEF SessionInv
<1>1. /\ thread[n].pc = "clean"
      /\ running' = FALSE /\ handle' = 0 /\ client' = 0
      /\ UNCHANGED <<connecting, connectSeq, requests, closed, ui, worker, clients>>
  BY DEF TypeOK, Cleans, TakenWorker
<1>2. thread' = [thread EXCEPT ![n] =
              [pc |-> "join", kind |-> thread[n].kind, seq |-> thread[n].seq, joins |-> handle, frees |-> client]]
  BY DEF TypeOK, Cleans, TakenWorker, ThreadRecords
<1>3. thread' \in [Requests -> ThreadRecords]
  BY <1>1, <1>2 DEF TypeOK, ThreadRecords
<1>4. TypeOK'
  BY <1>1, <1>3 DEF TypeOK
<1>5. ~Reconnected' => ~Reconnected
  BY <1>1, <1>2 DEF Reconnected, SeqInv, TypeOK, ThreadRecords
<1>6. SeqInv'
  BY <1>1, <1>2 DEF SeqInv
<1>7. KindInv'
  BY <1>1, <1>2 DEF KindInv
<1>8. AttemptInv'
  BY <1>1, <1>2 DEF AttemptInv, Attempting
<1>9. WorkersKept'
  BY <1>1, <1>2 DEF TypeOK, WorkersKept
<1>10. ClientInv'
  BY <1>1, <1>2 DEF ClientInv
<1>11. CleanUpInv'
  BY <1>1, <1>2 DEF ClientInv, CleanUpInv
<1>12. LiveInv'
  BY <1>1, <1>2 DEF TypeOK, LiveInv
<1>13. WorkerInv'
  BY <1>1, <1>2, <1>5 DEF WorkerInv
<1> QED
  BY <1>4, <1>6, <1>7, <1>8, <1>9, <1>10, <1>11, <1>12, <1>13

LEMMA JoinsAndFreesStep ==
  ASSUME SessionInv, NEW n \in Requests, JoinsAndFrees(n)
  PROVE  SessionInv'
<1> USE RequestNumbers DEF SessionInv
<1>0. PICK next \in {"check", "done"} :
        /\ thread' = [thread EXCEPT ![n].pc = next]
        /\ (next = "check" <=> thread[n].kind = "connect")
  BY DEF JoinsAndFrees
<1>1. CASE thread[n].frees = 0
  <2>1. /\ thread[n].pc = "join"
        /\ thread[n].joins # 0 => worker[thread[n].joins].pc = "done"
        /\ UNCHANGED <<client, handle, running, connecting, connectSeq, requests, closed, ui, worker>>
        /\ UNCHANGED clients
    BY <1>0, <1>1 DEF TypeOK, JoinsAndFrees, Joined, Freed
  <2>2. thread' = [thread EXCEPT ![n].pc = next]
    BY <1>0, <1>1 DEF TypeOK, JoinsAndFrees, Joined, Freed, ThreadRecords
  <2>3. thread' \in [Requests -> ThreadRecords]
    BY <2>1, <2>2, <1>0 DEF TypeOK, ThreadRecords
  <2>4. TypeOK'
    BY <2>1, <2>3 DEF TypeOK
  <2>5. ~Reconnected' => ~Reconnected
    BY <2>1, <2>2 DEF Reconnected, SeqInv, TypeOK, ThreadRecords
  <2>6. SeqInv'
    BY <2>1, <2>2, <1>0 DEF SeqInv
  <2>7. KindInv'
    BY <2>1, <2>2, <1>0 DEF KindInv
  <2>8. AttemptInv'
    BY <2>1, <2>2, <1>0 DEF AttemptInv, Attempting
  <2>9. WorkersKept'
    BY <2>1, <2>2, <1>0 DEF WorkersKept
  <2>10. ClientInv'
    BY <2>1, <2>2, <1>0 DEF TypeOK, SeqInv, KindInv, ClientInv, CleanUpInv, LiveInv
  <2>11. CleanUpInv'
    BY <2>1, <2>2, <1>0 DEF TypeOK, SeqInv, ClientInv, CleanUpInv
  <2>12. LiveInv'
    <3>1. \A m, k \in Requests :
            thread[k].pc = "join" /\ thread[k].frees = m => thread'[k].pc = "join" /\ thread'[k].frees = m
      BY <1>1, <2>1, <2>2, <1>0 DEF TypeOK, ThreadRecords
    <3> QED
      BY <2>1, <2>2, <1>0, <3>1 DEF TypeOK, LiveInv, ThreadRecords
  <2>13. WorkerInv'
    BY <2>1, <2>2, <1>0, <2>5 DEF WorkerInv
  <2> QED
    BY <2>4, <2>6, <2>7, <2>8, <2>9, <2>10, <2>11, <2>12, <2>13
<1>2. CASE thread[n].frees # 0
  <2>1. /\ thread[n].pc = "join"
        /\ thread[n].joins # 0 => worker[thread[n].joins].pc = "done"
        /\ UNCHANGED <<client, handle, running, connecting, connectSeq, requests, closed, ui, worker>>
        /\ clients' = [clients EXCEPT ![thread[n].frees] = "freed"]
    BY <1>0, <1>2 DEF TypeOK, JoinsAndFrees, Joined, Freed
  <2>2. thread' = [thread EXCEPT ![n].pc = next]
    BY <1>0, <1>2 DEF TypeOK, JoinsAndFrees, Joined, Freed, ThreadRecords
  <2>3. thread' \in [Requests -> ThreadRecords]
    BY <2>1, <2>2, <1>0 DEF TypeOK, ThreadRecords
  <2>4. TypeOK'
    BY <2>1, <2>3 DEF TypeOK
  <2>5. ~Reconnected' => ~Reconnected
    BY <2>1, <2>2 DEF Reconnected, SeqInv, TypeOK, ThreadRecords
  <2>6. SeqInv'
    BY <2>1, <2>2, <1>0 DEF SeqInv
  <2>7. KindInv'
    BY <2>1, <2>2, <1>0 DEF KindInv
  <2>8. AttemptInv'
    BY <2>1, <2>2, <1>0 DEF AttemptInv, Attempting
  <2>9. WorkersKept'
    BY <2>1, <2>2, <1>0 DEF WorkersKept
  <2>10. ClientInv'
    BY <2>1, <1>0 DEF ClientInv, CleanUpInv
  <2>11. CleanUpInv'
    BY <2>1, <2>2, <1>0 DEF CleanUpInv
  <2>12. LiveInv'
    BY <2>1, <1>0 DEF TypeOK, CleanUpInv, LiveInv
  <2>13. WorkerInv'
    BY <2>1, <1>0, <2>5 DEF CleanUpInv, WorkerInv
  <2> QED
    BY <2>4, <2>6, <2>7, <2>8, <2>9, <2>10, <2>11, <2>12, <2>13
<1> QED
  BY <1>1, <1>2

LEMMA ChecksBeforeStep ==
  ASSUME SessionInv, NEW n \in Requests, ChecksBefore(n)
  PROVE  SessionInv'
<1> USE RequestNumbers DEF SessionInv
<1>1. CASE Cancelled(n)
  <2>1. /\ thread[n].pc = "check"
        /\ connecting' = FALSE
        /\ UNCHANGED <<client, handle, running, connectSeq, requests, closed, ui, worker, clients>>
    BY <1>1 DEF TypeOK, ChecksBefore, Cancelled, GivesUp
  <2>2. thread' = [thread EXCEPT ![n].pc = "done"]
    BY <1>1 DEF TypeOK, ChecksBefore, Cancelled, GivesUp, ThreadRecords
  <2>3. thread' \in [Requests -> ThreadRecords]
    BY <2>1, <2>2, ThreadMoves
  <2>4. TypeOK'
    BY <2>1, <2>3 DEF TypeOK
  <2>5. ~Reconnected' => ~Reconnected
    BY <2>1, <2>2 DEF Reconnected, SeqInv, TypeOK, ThreadRecords
  <2>6. SeqInv'
    BY <2>1, <2>2 DEF SeqInv
  <2>7. KindInv'
    BY <2>1, <2>2 DEF KindInv
  <2>8. AttemptInv'
    BY <2>1, <2>2 DEF TypeOK, KindInv, AttemptInv, Attempting
  <2>9. WorkersKept'
    BY <2>1, <2>2 DEF WorkersKept
  <2>10. ClientInv'
    BY <2>1, <2>2 DEF ClientInv
  <2>11. CleanUpInv'
    BY <2>1, <2>2 DEF CleanUpInv
  <2>12. LiveInv'
    BY <2>1, <2>2 DEF LiveInv
  <2>13. WorkerInv'
    BY <2>1, <2>2, <2>5 DEF WorkerInv
  <2> QED
    BY <2>4, <2>6, <2>7, <2>8, <2>9, <2>10, <2>11, <2>12, <2>13
<1>2. CASE ~Cancelled(n)
  <2>1. /\ thread[n].pc = "check"
        /\ thread[n].seq = connectSeq
        /\ clients' = [clients EXCEPT ![n] = "live"]
        /\ UNCHANGED <<client, handle, running, connecting, connectSeq, requests, closed, ui, worker>>
    BY <1>2 DEF TypeOK, ChecksBefore, Cancelled, GivesUp
  <2>2. thread' = [thread EXCEPT ![n].pc = "handshake"]
    BY <1>2 DEF TypeOK, ChecksBefore, Cancelled, GivesUp, ThreadRecords
  <2>3. thread' \in [Requests -> ThreadRecords]
    BY <2>1, <2>2, ThreadMoves
  <2>4. TypeOK'
    BY <2>1, <2>3 DEF TypeOK
  <2>5. ~Reconnected' => ~Reconnected
    BY <2>1, <2>2 DEF Reconnected, SeqInv, TypeOK, ThreadRecords
  <2>6. SeqInv'
    BY <2>1, <2>2 DEF SeqInv
  <2>7. KindInv'
    BY <2>1, <2>2 DEF KindInv
  <2>8. AttemptInv'
    BY <2>1, <2>2 DEF AttemptInv, Attempting
  <2>9. WorkersKept'
    BY <2>1, <2>2 DEF WorkersKept
  <2>10. ClientInv'
    BY <2>1, <2>2 DEF ClientInv
  <2>11. CleanUpInv'
    BY <2>1, <2>2 DEF CleanUpInv
  <2>12. LiveInv'
    BY <2>1, <2>2 DEF TypeOK, LiveInv
  <2>13. WorkerInv'
    BY <2>1, <2>2, <2>5 DEF WorkerInv
  <2> QED
    BY <2>4, <2>6, <2>7, <2>8, <2>9, <2>10, <2>11, <2>12, <2>13
<1> QED
  BY <1>1, <1>2

LEMMA HandshakeEndsStep ==
  ASSUME SessionInv, NEW n \in Requests, HandshakeEnds(n)
  PROVE  SessionInv'
<1> USE RequestNumbers DEF SessionInv
<1>1. CASE clients' = Freed(n) /\ GivesUp(n)
  <2>1. /\ thread[n].pc = "handshake"
        /\ connecting' = FALSE
        /\ clients' = [clients EXCEPT ![n] = "freed"]
        /\ UNCHANGED <<client, handle, running, connectSeq, requests, closed, ui, worker>>
    BY <1>1 DEF TypeOK, HandshakeEnds, Cancelled, GivesUp, Freed
  <2>2. thread' = [thread EXCEPT ![n].pc = "done"]
    BY <1>1 DEF TypeOK, HandshakeEnds, Cancelled, GivesUp, Freed, ThreadRecords
  <2>3. thread' \in [Requests -> ThreadRecords]
    BY <2>1, <2>2, ThreadMoves
  <2>4. TypeOK'
    BY <2>1, <2>3 DEF TypeOK
  <2>5. ~Reconnected' => ~Reconnected
    BY <2>1, <2>2 DEF Reconnected, SeqInv, TypeOK, ThreadRecords
  <2>6. SeqInv'
    BY <2>1, <2>2 DEF SeqInv
  <2>7. KindInv'
    BY <2>1, <2>2 DEF KindInv
  <2>8. AttemptInv'
    BY <2>1, <2>2 DEF TypeOK, KindInv, AttemptInv, Attempting
  <2>9. WorkersKept'
    BY <2>1, <2>2 DEF WorkersKept
  <2>10. ClientInv'
    BY <2>1, <2>2 DEF ClientInv
  <2>11. CleanUpInv'
    BY <2>1, <2>2 DEF CleanUpInv
  <2>12. LiveInv'
    BY <2>1, <2>2 DEF TypeOK, LiveInv
  <2>13. WorkerInv'
    BY <2>1, <2>5 DEF LiveInv, WorkerInv
  <2> QED
    BY <2>4, <2>6, <2>7, <2>8, <2>9, <2>10, <2>11, <2>12, <2>13
<1>2. CASE ~(clients' = Freed(n) /\ GivesUp(n))
  <2>1. /\ thread[n].pc = "handshake"
        /\ thread[n].seq = connectSeq
        /\ UNCHANGED <<client, handle, running, connecting, connectSeq, requests, closed, ui, worker, clients>>
    BY <1>2 DEF TypeOK, HandshakeEnds, Cancelled, GivesUp, Freed
  <2>2. thread' = [thread EXCEPT ![n].pc = "install"]
    BY <1>2 DEF TypeOK, HandshakeEnds, Cancelled, GivesUp, Freed, ThreadRecords
  <2>3. thread' \in [Requests -> ThreadRecords]
    BY <2>1, <2>2, ThreadMoves
  <2>4. TypeOK'
    BY <2>1, <2>3 DEF TypeOK
  <2>5. ~Reconnected' => ~Reconnected
    BY <2>1, <2>2 DEF Reconnected, SeqInv, TypeOK, ThreadRecords
  <2>6. SeqInv'
    BY <2>1, <2>2 DEF SeqInv
  <2>7. KindInv'
    BY <2>1, <2>2 DEF KindInv
  <2>8. AttemptInv'
    BY <2>1, <2>2 DEF AttemptInv, Attempting
  <2>9. WorkersKept'
    BY <2>1, <2>2 DEF WorkersKept
  <2>10. ClientInv'
    BY <2>1, <2>2 DEF ClientInv
  <2>11. CleanUpInv'
    BY <2>1, <2>2 DEF CleanUpInv
  <2>12. LiveInv'
    BY <2>1, <2>2 DEF LiveInv
  <2>13. WorkerInv'
    BY <2>1, <2>2, <2>5 DEF WorkerInv
  <2> QED
    BY <2>4, <2>6, <2>7, <2>8, <2>9, <2>10, <2>11, <2>12, <2>13
<1> QED
  BY <1>1, <1>2

LEMMA InstallsStep ==
  ASSUME SessionInv, NEW n \in Requests, Installs(n)
  PROVE  SessionInv'
<1> USE RequestNumbers DEF SessionInv
<1>1. CASE Cancelled(n)
  <2>1. /\ thread[n].pc = "install"
        /\ clients' = [clients EXCEPT ![n] = "freed"]
        /\ UNCHANGED <<client, handle, running, connecting, connectSeq, requests, closed, ui, worker>>
    BY <1>1 DEF TypeOK, Installs, Cancelled, Freed
  <2>2. thread' = [thread EXCEPT ![n].pc = "leave"]
    BY <1>1 DEF TypeOK, Installs, Cancelled, Freed, ThreadRecords
  <2>3. thread' \in [Requests -> ThreadRecords]
    BY <2>1, <2>2, ThreadMoves
  <2>4. TypeOK'
    BY <2>1, <2>3 DEF TypeOK
  <2>5. ~Reconnected' => ~Reconnected
    BY <2>1, <2>2 DEF Reconnected, SeqInv, TypeOK, ThreadRecords
  <2>6. SeqInv'
    BY <2>1, <2>2 DEF SeqInv
  <2>7. KindInv'
    BY <2>1, <2>2 DEF KindInv
  <2>8. AttemptInv'
    BY <2>1, <2>2 DEF AttemptInv, Attempting
  <2>9. WorkersKept'
    BY <2>1, <2>2 DEF WorkersKept
  <2>10. ClientInv'
    BY <2>1, <2>2 DEF ClientInv
  <2>11. CleanUpInv'
    BY <2>1, <2>2 DEF CleanUpInv
  <2>12. LiveInv'
    BY <2>1, <2>2 DEF TypeOK, LiveInv
  <2>13. WorkerInv'
    BY <2>1, <2>5 DEF LiveInv, WorkerInv
  <2> QED
    BY <2>4, <2>6, <2>7, <2>8, <2>9, <2>10, <2>11, <2>12, <2>13
<1>2. CASE ~Cancelled(n)
  <2>1. /\ thread[n].pc = "install"
        /\ thread[n].seq = connectSeq
        /\ client' = n /\ handle' = n
        /\ worker' = [worker EXCEPT ![n].pc = "spawned"]
        /\ UNCHANGED <<running, connecting, connectSeq, requests, closed, ui, clients>>
    BY <1>2 DEF TypeOK, Installs, Cancelled, Freed
  <2>2. thread' = [thread EXCEPT ![n].pc = "leave"]
    BY <1>2 DEF TypeOK, Installs, Cancelled, Freed, ThreadRecords
  <2>3. thread' \in [Requests -> ThreadRecords]
    BY <2>1, <2>2, ThreadMoves
  <2>4. TypeOK'
    BY <2>1, <2>3 DEF TypeOK
  <2>5. ~Reconnected' => ~Reconnected
    BY <2>1, <2>2 DEF Reconnected, SeqInv, TypeOK, ThreadRecords
  <2>6. SeqInv'
    BY <2>1, <2>2 DEF SeqInv
  <2>7. KindInv'
    BY <2>1, <2>2 DEF KindInv
  <2>8. AttemptInv'
    BY <2>1, <2>2 DEF AttemptInv, Attempting
  <2>9. WorkersKept'
    BY <2>1, <2>2 DEF TypeOK, SeqInv, WorkersKept, ClientInv, LiveInv
  <2>10. ClientInv'
    BY <2>1, <2>2 DEF TypeOK, SeqInv, KindInv, ClientInv, LiveInv
  <2>11. CleanUpInv'
    BY <2>1, <2>2 DEF CleanUpInv
  <2>12. LiveInv'
    BY <2>1, <2>2 DEF TypeOK, SeqInv, ClientInv, LiveInv
  <2>13. WorkerInv'
    <3> SUFFICES ASSUME ~Reconnected, ~Reconnected'  PROVE WorkerInv'
      BY <2>5 DEF WorkerInv
    <3>1. client = 0 /\ thread[n].kind = "connect" /\ n = requests
      <4>1. n = requests
        BY <2>1, <2>2 DEF TypeOK, SeqInv
      <4>2. client # 0 => client # n /\ client <= requests
        BY <2>1, <2>2 DEF TypeOK, SeqInv, ClientInv
      <4>3. client # 0 => client < n
        BY <4>1, <4>2 DEF TypeOK
      <4>4. client = 0
        BY <2>1, <2>2, <4>1, <4>3 DEF ClientInv
      <4> QED
        BY <2>1, <2>2, <4>1, <4>4 DEF KindInv
    <3>2. ASSUME NEW m \in Requests, worker[m].pc = "spawned"  PROVE FALSE
      <4>1. PICK k \in Requests : thread[k].joins = m /\ thread[k].pc = "join"
        BY <3>1, <3>2 DEF WorkersKept, ClientInv
      <4>2. k < n /\ thread[k].kind # "none"
        <5>1. k # n /\ k <= requests
          BY <2>1, <2>2, <4>1 DEF SeqInv, TypeOK
        <5> QED
          BY <5>1, <3>1 DEF SeqInv
      <4>3. thread[k].kind # "connect"
        BY <2>1, <2>2, <3>1, <4>1 DEF AttemptInv, Attempting
      <4>4. thread[k].kind = "disconnect"
        BY <4>2, <4>3 DEF TypeOK, ThreadRecords
      <4> QED
        BY <3>1, <4>2, <4>4 DEF Reconnected
    <3>3. QED
      BY <2>1, <2>2, <3>1, <3>2 DEF TypeOK, WorkerInv, LiveInv
  <2> QED
    BY <2>4, <2>6, <2>7, <2>8, <2>9, <2>10, <2>11, <2>12, <2>13
<1> QED
  BY <1>1, <1>2

LEMMA LeavesStep ==
  ASSUME SessionInv, NEW n \in Requests, Leaves(n)
  PROVE  SessionInv'
<1> USE RequestNumbers DEF SessionInv
<1>1. /\ thread[n].pc = "leave"
      /\ connecting' = FALSE
      /\ UNCHANGED <<client, handle, running, connectSeq, requests, closed, ui, worker, clients>>
  BY DEF TypeOK, Leaves, GivesUp
<1>2. thread' = [thread EXCEPT ![n].pc = "done"]
  BY DEF TypeOK, Leaves, GivesUp, ThreadRecords
<1>3. thread' \in [Requests -> ThreadRecords]
  BY <1>1, <1>2, ThreadMoves
<1>4. TypeOK'
  BY <1>1, <1>3 DEF TypeOK
<1>5. ~Reconnected' => ~Reconnected
  BY <1>1, <1>2 DEF Reconnected, SeqInv, TypeOK, ThreadRecords
<1>6. SeqInv'
  BY <1>1, <1>2 DEF SeqInv
<1>7. KindInv'
  BY <1>1, <1>2 DEF KindInv
<1>8. AttemptInv'
  BY <1>1, <1>2 DEF TypeOK, KindInv, AttemptInv, Attempting
<1>9. WorkersKept'
  BY <1>1, <1>2 DEF WorkersKept
<1>10. ClientInv'
  BY <1>1, <1>2 DEF ClientInv
<1>11. CleanUpInv'
  BY <1>1, <1>2 DEF CleanUpInv
<1>12. LiveInv'
  BY <1>1, <1>2 DEF LiveInv
<1>13. WorkerInv'
  BY <1>1, <1>2, <1>5 DEF WorkerInv
<1> QED
  BY <1>4, <1>6, <1>7, <1>8, <1>9, <1>10, <1>11, <1>12, <1>13

LEMMA WorkerBeginsStep ==
  ASSUME SessionInv, NEW n \in Requests, WorkerBegins(n)
  PROVE  SessionInv'
<1> USE RequestNumbers DEF SessionInv
<1>1. /\ worker[n].pc = "spawned"
      /\ worker' = [worker EXCEPT ![n] =
              [pc |-> IF client = 0 THEN "done" ELSE "begun", client |-> client]]
      /\ UNCHANGED <<client, handle, running, connecting, connectSeq, requests, closed, ui, clients>>
      /\ thread' = thread
  BY DEF TypeOK, WorkerBegins
<1>2. TypeOK'
  BY <1>1 DEF TypeOK
<1>3. ~Reconnected' => ~Reconnected
  BY <1>1 DEF Reconnected
<1>4. SeqInv'
  BY <1>1 DEF SeqInv
<1>5. KindInv'
  BY <1>1 DEF KindInv
<1>6. AttemptInv'
  BY <1>1 DEF AttemptInv, Attempting
<1>7. WorkersKept'
  BY <1>1 DEF WorkersKept
<1>8. ClientInv'
  BY <1>1 DEF ClientInv
<1>9. CleanUpInv'
  BY <1>1 DEF CleanUpInv
<1>10. LiveInv'
  BY <1>1 DEF LiveInv
<1>11. WorkerInv'
  BY <1>1, <1>3 DEF ClientInv, WorkerInv
<1> QED
  BY <1>2, <1>4, <1>5, <1>6, <1>7, <1>8, <1>9, <1>10, <1>11

LEMMA WorkerRunsStep ==
  ASSUME SessionInv, NEW n \in Requests, WorkerRuns(n)
  PROVE  SessionInv'
<1> USE RequestNumbers DEF SessionInv
<1>1. /\ worker[n].pc = "begun"
      /\ worker' = [worker EXCEPT ![n].pc = "loop"]
      /\ running' = TRUE
      /\ UNCHANGED <<client, handle, connecting, connectSeq, requests, closed, ui, clients>>
      /\ thread' = thread
  BY DEF TypeOK, WorkerRuns
<1>2. TypeOK'
  BY <1>1 DEF TypeOK
<1>3. ~Reconnected' => ~Reconnected
  BY <1>1 DEF Reconnected
<1>4. SeqInv'
  BY <1>1 DEF SeqInv
<1>5. KindInv'
  BY <1>1 DEF KindInv
<1>6. AttemptInv'
  BY <1>1 DEF AttemptInv, Attempting
<1>7. WorkersKept'
  BY <1>1 DEF WorkersKept
<1>8. ClientInv'
  BY <1>1 DEF ClientInv
<1>9. CleanUpInv'
  BY <1>1 DEF CleanUpInv
<1>10. LiveInv'
  BY <1>1 DEF LiveInv
<1>11. WorkerInv'
  BY <1>1, <1>3 DEF WorkerInv
<1> QED
  BY <1>2, <1>4, <1>5, <1>6, <1>7, <1>8, <1>9, <1>10, <1>11

LEMMA WorkerSeesStopStep ==
  ASSUME SessionInv, NEW n \in Requests, WorkerSeesStop(n)
  PROVE  SessionInv'
<1> USE RequestNumbers DEF SessionInv
<1>1. /\ worker[n].pc = "loop"
      /\ worker' = [worker EXCEPT ![n].pc = "ending"]
      /\ UNCHANGED <<client, handle, running, connecting, connectSeq, requests, closed, ui, clients>>
      /\ thread' = thread
  BY DEF TypeOK, WorkerSeesStop
<1>2. TypeOK'
  BY <1>1 DEF TypeOK
<1>3. ~Reconnected' => ~Reconnected
  BY <1>1 DEF Reconnected
<1>4. SeqInv'
  BY <1>1 DEF SeqInv
<1>5. KindInv'
  BY <1>1 DEF KindInv
<1>6. AttemptInv'
  BY <1>1 DEF AttemptInv, Attempting
<1>7. WorkersKept'
  BY <1>1 DEF WorkersKept
<1>8. ClientInv'
  BY <1>1 DEF ClientInv
<1>9. CleanUpInv'
  BY <1>1 DEF CleanUpInv
<1>10. LiveInv'
  BY <1>1 DEF LiveInv
<1>11. WorkerInv'
  BY <1>1, <1>3 DEF WorkerInv
<1> QED
  BY <1>2, <1>4, <1>5, <1>6, <1>7, <1>8, <1>9, <1>10, <1>11

LEMMA WorkerLosesServerStep ==
  ASSUME SessionInv, NEW n \in Requests, WorkerLosesServer(n)
  PROVE  SessionInv'
<1> USE RequestNumbers DEF SessionInv
<1>1. /\ worker[n].pc = "loop"
      /\ worker' = [worker EXCEPT ![n].pc = "ending"]
      /\ UNCHANGED <<client, handle, running, connecting, connectSeq, requests, closed, ui, clients>>
      /\ thread' = thread
  BY DEF TypeOK, WorkerLosesServer
<1>2. TypeOK'
  BY <1>1 DEF TypeOK
<1>3. ~Reconnected' => ~Reconnected
  BY <1>1 DEF Reconnected
<1>4. SeqInv'
  BY <1>1 DEF SeqInv
<1>5. KindInv'
  BY <1>1 DEF KindInv
<1>6. AttemptInv'
  BY <1>1 DEF AttemptInv, Attempting
<1>7. WorkersKept'
  BY <1>1 DEF WorkersKept
<1>8. ClientInv'
  BY <1>1 DEF ClientInv
<1>9. CleanUpInv'
  BY <1>1 DEF CleanUpInv
<1>10. LiveInv'
  BY <1>1 DEF LiveInv
<1>11. WorkerInv'
  BY <1>1, <1>3 DEF WorkerInv
<1> QED
  BY <1>2, <1>4, <1>5, <1>6, <1>7, <1>8, <1>9, <1>10, <1>11

LEMMA WorkerEndsStep ==
  ASSUME SessionInv, NEW n \in Requests, WorkerEnds(n)
  PROVE  SessionInv'
<1> USE RequestNumbers DEF SessionInv
<1>1. /\ worker[n].pc = "ending"
      /\ worker' = [worker EXCEPT ![n].pc = "done"]
      /\ running' = FALSE
      /\ UNCHANGED <<client, handle, connecting, connectSeq, requests, closed, ui, clients>>
      /\ thread' = thread
  BY DEF TypeOK, WorkerEnds
<1>2. TypeOK'
  BY <1>1 DEF TypeOK
<1>3. ~Reconnected' => ~Reconnected
  BY <1>1 DEF Reconnected
<1>4. SeqInv'
  BY <1>1 DEF SeqInv
<1>5. KindInv'
  BY <1>1 DEF KindInv
<1>6. AttemptInv'
  BY <1>1 DEF AttemptInv, Attempting
<1>7. WorkersKept'
  BY <1>1 DEF WorkersKept
<1>8. ClientInv'
  BY <1>1 DEF ClientInv
<1>9. CleanUpInv'
  BY <1>1 DEF CleanUpInv
<1>10. LiveInv'
  BY <1>1 DEF LiveInv
<1>11. WorkerInv'
  BY <1>1, <1>3 DEF WorkerInv
<1> QED
  BY <1>2, <1>4, <1>5, <1>6, <1>7, <1>8, <1>9, <1>10, <1>11
-----------------------------------------------------------------------------
(* The same of the surfaces and of the frames on top of them.              *)
LEMMA SurfaceNumbers ==
  /\ \A s \in Surfaces : s \in Nat /\ s # 0
  /\ \A x \in 0 .. MaxSurfaces : x \in Nat /\ (x # 0 => x \in Surfaces) /\ x \in 0 .. x /\ 0 \in 0 .. x
  /\ \A x \in 0 .. MaxSurfaces : \A y \in 0 .. x :
       /\ y \in Nat /\ y <= x /\ (y # 0 => y \in Surfaces)
       /\ y \in 0 .. MaxSurfaces /\ y \in 0 .. MaxSurfaces + MaxFrames
  /\ \A x \in 0 .. MaxFrames : x \in Nat /\ x \in 0 .. x /\ 0 \in 0 .. x /\
       \A y \in 0 .. x : y \in Nat /\ y <= x /\ y \in 0 .. MaxSurfaces + MaxFrames
  /\ 0 \in 0 .. MaxSurfaces + MaxFrames
  /\ \A x, y \in Nat : y <= x <=> y \in 0 .. x
  BY RenderAssumption DEF Surfaces

-----------------------------------------------------------------------------
(* What is drawn exists, whatever the order of the calls: a step that      *)
(* gives one render thread a sound record, or none, leaves it so.          *)
LEMMA OneRecord ==
  ASSUME DrawnInv, TypeOK', NEW r \in Surfaces, NEW rec \in RenderRecords,
         rec.at = "bind" => rec.copy <= surfaces,
         rec.at = "flush" => rec.copy <= frames,
         render' = [render EXCEPT ![r] = rec],
         renderHandle' \in 0 .. surfaces,
         setting' => surfaces > 0,
         {surfaceDirty', frameDirty', renderRunning', setting'} \subseteq BOOLEAN,
         UNCHANGED <<surfaces, pending, overlapped, frames, fb, takes>>
  PROVE  DrawnInv'
<1>1. RenderRecords' = RenderRecords
  BY DEF RenderRecords
<1>2. render' \in [Surfaces -> RenderRecords]
  BY DEF DrawnInv, RenderTypeOK
<1>3. RenderTypeOK'
  BY <1>1, <1>2 DEF DrawnInv, RenderTypeOK
<1>4. \A q \in Surfaces : render'[q] = IF q = r THEN rec ELSE render[q]
  BY DEF DrawnInv, RenderTypeOK
<1> QED
  BY <1>3, <1>4 DEF DrawnInv

(* The records of the render threads stay.                                 *)
LEMMA SameRecords ==
  ASSUME DrawnInv, TypeOK', render' = render,
         surfaces' \in 0 .. MaxSurfaces, surfaces <= surfaces',
         frames' \in 0 .. MaxFrames, frames <= frames',
         pending' \in 0 .. surfaces', renderHandle' \in 0 .. surfaces', fb' \in 0 .. frames',
         takes' \in [Requests -> 0 .. surfaces'],
         setting' => surfaces' > 0,
         {surfaceDirty', frameDirty', renderRunning', setting', overlapped'} \subseteq BOOLEAN
  PROVE  DrawnInv'
<1> USE SurfaceNumbers, RenderAssumption
<1>1. /\ \A x \in 0 .. surfaces : x \in 0 .. surfaces'
      /\ \A x \in 0 .. frames : x \in 0 .. frames'
      /\ \A x \in 0 .. MaxSurfaces + MaxFrames :
           (x <= surfaces => x <= surfaces') /\ (x <= frames => x <= frames')
  BY DEF DrawnInv, RenderTypeOK
<1>2. render' \in [Surfaces -> RenderRecords']
  BY <1>1 DEF DrawnInv, RenderTypeOK, RenderRecords
<1>3. RenderTypeOK'
  BY <1>2 DEF RenderTypeOK
<1> QED
  BY <1>1, <1>3 DEF DrawnInv, RenderTypeOK, RenderRecords

LEMMA RenderWorkerDraws ==
  ASSUME DrawnInv, TypeOK', NEW r \in Surfaces, VncRenderWorker(r)
  PROVE  DrawnInv'
<1> USE SurfaceNumbers
<1>1. /\ render[r] \in RenderRecords
      /\ UNCHANGED <<renderHandle, takes, surfaces, pending, setting, overlapped, frames, fb>>
      /\ {surfaceDirty', frameDirty', renderRunning', setting'} \subseteq BOOLEAN
  <2>1. render[r] \in RenderRecords
    BY DEF DrawnInv, RenderTypeOK
  <2>2. UNCHANGED <<renderHandle, takes, surfaces, pending, setting, overlapped, frames, fb>>
    BY DEF VncRenderWorker, RenderBegins, RenderLooks, RenderSeesSurface, RenderFetches,
           RenderBinds, RenderSeesFrame, RenderCopies, RenderFlushes, RenderEnds,
           surfaceVars, frameVars
  <2>3. {surfaceDirty', frameDirty', renderRunning', setting'} \subseteq BOOLEAN
    BY DEF DrawnInv, RenderTypeOK, VncRenderWorker, RenderBegins, RenderLooks,
           RenderSeesSurface, RenderFetches, RenderBinds, RenderSeesFrame, RenderCopies,
           RenderFlushes, RenderEnds, ClearsFrameFirst, surfaceVars, frameVars
  <2> QED
    BY <2>1, <2>2, <2>3
<1>2. /\ renderHandle' \in 0 .. surfaces /\ (setting' => surfaces > 0)
      /\ pending \in 0 .. surfaces /\ fb \in 0 .. frames
      /\ surfaces \in 0 .. MaxSurfaces /\ frames \in 0 .. MaxFrames
  BY <1>1 DEF DrawnInv, RenderTypeOK
<1> SUFFICES \E rec \in RenderRecords :
               /\ rec.at = "bind" => rec.copy <= surfaces
               /\ rec.at = "flush" => rec.copy <= frames
               /\ render' = [render EXCEPT ![r] = rec]
  BY <1>1, <1>2, OneRecord
<1>3. ASSUME NEW to \in {"wait", "surface", "ending", "fetch", "frame", "copy"},
             render' = [render EXCEPT ![r].at = to]
      PROVE  \E rec \in RenderRecords : /\ rec.at \notin {"bind", "flush"}
                                        /\ render' = [render EXCEPT ![r] = rec]
  <2>1. [render[r] EXCEPT !.at = to] \in RenderRecords /\ [render[r] EXCEPT !.at = to].at = to
    BY <1>1 DEF RenderRecords
  <2> QED
    BY <1>3, <2>1 DEF DrawnInv, RenderTypeOK
<1>4. CASE RenderBegins(r) \/ RenderLooks(r) \/ RenderSeesSurface(r) \/ RenderSeesFrame(r)
  <2>1. \E to \in {"wait", "surface", "ending", "fetch", "frame", "copy"} :
          render' = [render EXCEPT ![r].at = to]
    BY <1>4 DEF RenderBegins, RenderLooks, RenderSeesSurface, RenderSeesFrame, Goes
  <2> QED
    BY <1>3, <2>1
<1>5. CASE RenderFetches(r)
  BY <1>1, <1>2, <1>5 DEF RenderFetches, RenderRecords
<1>6. CASE RenderBinds(r)
  <2>1. \A window \in {0, render[r].copy} :
          [at |-> "frame", window |-> window, copy |-> 0, shown |-> 0] \in RenderRecords
    BY <1>1, <1>2, <1>6 DEF DrawnInv, RenderBinds, RenderRecords
  <2> QED
    BY <1>6, <2>1 DEF RenderBinds
<1>7. CASE RenderCopies(r)
  BY <1>1, <1>2, <1>7 DEF RenderCopies, RenderRecords
<1>8. CASE RenderFlushes(r)
  <2>1. \A window \in {0, render[r].window}, shown \in {0, render[r].copy} :
          [at |-> "wait", window |-> window, copy |-> 0, shown |-> shown] \in RenderRecords
    BY <1>1, <1>2, <1>8 DEF DrawnInv, RenderFlushes, RenderRecords
  <2> QED
    BY <1>8, <2>1 DEF RenderFlushes
<1>9. CASE RenderEnds(r)
  <2>1. /\ [NoRender EXCEPT !.at = "done"] = [at |-> "done", window |-> 0, copy |-> 0, shown |-> 0]
        /\ [at |-> "done", window |-> 0, copy |-> 0, shown |-> 0] \in RenderRecords
    BY <1>2 DEF NoRender, RenderRecords
  <2> QED
    BY <1>9, <2>1 DEF RenderEnds
<1> QED
  BY <1>4, <1>5, <1>6, <1>7, <1>8, <1>9 DEF VncRenderWorker

LEMMA SurfaceDraws ==
  ASSUME DrawnInv, TypeOK', SetSurface \/ StartsRender \/ ClearSurface
  PROVE  DrawnInv'
<1> USE SurfaceNumbers, RenderAssumption DEF DrawnInv, RenderTypeOK
<1>1. CASE SetSurface
  <2>1. /\ surfaces' \in 0 .. MaxSurfaces /\ surfaces < surfaces'
        /\ pending' = surfaces' /\ surfaceDirty' = TRUE /\ setting' = TRUE
        /\ overlapped' \in BOOLEAN
        /\ UNCHANGED <<frames, fb, frameDirty, renderRunning, renderHandle, render, takes>>
    BY <1>1 DEF SetSurface, frameVars
  <2>2. \A x \in 0 .. surfaces : x \in 0 .. surfaces'
    BY <2>1
  <2>3. takes' \in [Requests -> 0 .. surfaces']
    BY <2>1, <2>2
  <2> QED
    BY <2>1, <2>2, <2>3, SameRecords
<1>2. CASE StartsRender
  <2>1. /\ setting' = FALSE /\ renderRunning' = TRUE /\ surfaces \in Surfaces
        /\ UNCHANGED <<surfaces, pending, surfaceDirty, overlapped, frames, fb, frameDirty, takes>>
    BY <1>2 DEF StartsRender, frameVars
  <2>2. CASE renderRunning
    <3>1. UNCHANGED <<renderHandle, render>>
      BY <1>2, <2>2 DEF StartsRender
    <3> QED
      BY <2>1, <3>1, SameRecords
  <2>3. CASE ~renderRunning
    <3>1. /\ renderHandle' = surfaces
          /\ render' = [render EXCEPT ![surfaces].at = "spawned"]
      BY <1>2, <2>3 DEF StartsRender
    <3>2. /\ [render[surfaces] EXCEPT !.at = "spawned"] \in RenderRecords
          /\ [render[surfaces] EXCEPT !.at = "spawned"].at = "spawned"
      BY <2>1 DEF RenderRecords
    <3>3. render' = [render EXCEPT ![surfaces] = [render[surfaces] EXCEPT !.at = "spawned"]]
      BY <2>1, <3>1
    <3>4. /\ renderHandle' \in 0 .. surfaces /\ ~setting'
          /\ {surfaceDirty', frameDirty', renderRunning', setting'} \subseteq BOOLEAN
      BY <2>1, <3>1
    <3>5. \E rec \in RenderRecords : /\ rec.at = "spawned"
                                     /\ render' = [render EXCEPT ![surfaces] = rec]
      BY <3>2, <3>3
    <3> HIDE DEF DrawnInv, RenderTypeOK
    <3> QED
      BY <2>1, <3>4, <3>5, OneRecord
  <2> QED
    BY <2>2, <2>3
<1>3. CASE ClearSurface
  BY <1>3, SameRecords DEF ClearSurface, frameVars
<1> QED
  BY <1>1, <1>2, <1>3

LEMMA DrawnStep ==
  ASSUME DrawnInv, TypeOK', [RenderNext]_allVars
  PROVE  DrawnInv'
<1> USE SurfaceNumbers, RenderAssumption DEF DrawnInv, RenderTypeOK
<1>1. CASE UNCHANGED renderVars
  BY <1>1, SameRecords DEF renderVars, surfaceVars, frameVars
<1>2. CASE SetSurface \/ StartsRender \/ ClearSurface
  BY <1>2, SurfaceDraws
<1>3. CASE \E r \in Surfaces : VncRenderWorker(r)
  BY <1>3, RenderWorkerDraws
<1>4. CASE \E n \in Requests : StopsRender(n) \/ ResetsSurface(n)
  <2>1. PICK n \in Requests : StopsRender(n) \/ ResetsSurface(n)
    BY <1>4
  <2>2. /\ takes' \in [Requests -> 0 .. surfaces] /\ renderHandle' \in {0, renderHandle}
        /\ pending' \in {0, pending} /\ fb' \in {0, fb}
        /\ {surfaceDirty', frameDirty', renderRunning'} \subseteq BOOLEAN
        /\ UNCHANGED <<surfaces, setting, overlapped, frames, render>>
    BY <2>1 DEF StopsRender, ResetsSurface, TakenRender, surfaceVars, frameVars
  <2> QED
    BY <2>2, SameRecords
<1>5. CASE \E n \in Requests : VncGotUpdate(n)
  <2>1. /\ frames' \in 0 .. MaxFrames /\ frames < frames' /\ fb' = frames' /\ frameDirty' = TRUE
        /\ UNCHANGED <<surfaces, pending, surfaceDirty, setting, overlapped, renderRunning,
                       renderHandle, render, takes>>
    BY <1>5 DEF VncGotUpdate, surfaceVars
  <2> QED
    BY <2>1, SameRecords
<1>6. UNCHANGED renderVars \/ SetSurface \/ StartsRender \/ ClearSurface
      \/ (\E r \in Surfaces : VncRenderWorker(r))
      \/ (\E n \in Requests : StopsRender(n) \/ ResetsSurface(n))
      \/ (\E n \in Requests : VncGotUpdate(n))
  BY DEF RenderNext, Requested, Scheduled, DetachedThread, VncWorker, allVars
<1> QED
  BY <1>1, <1>2, <1>3, <1>4, <1>5, <1>6

-----------------------------------------------------------------------------
(* Until a surface is set during a clean-up: one lemma for each action.    *)
(* Only one render thread is alive, and it is the session's if that has one. *)
LEMMA OneRender ==
  ASSUME RenderTypeOK, RenderInv, NEW r \in Surfaces, render[r].at \notin {"none", "done"}
  PROVE  /\ renderHandle # 0 => r = renderHandle
         /\ renderHandle = 0 => \E n \in Requests : takes[n] = r /\ thread[n].pc = "join"
         /\ \A q \in Surfaces : render[q].at \notin {"none", "done"} => q = r
<1> USE RequestNumbers, SurfaceNumbers
<1>1. renderHandle # 0 => r = renderHandle
  BY DEF RenderInv
<1>2. renderHandle = 0 => \E n \in Requests : takes[n] = r /\ thread[n].pc = "join"
  BY DEF RenderInv
<1>3. \A q \in Surfaces : render[q].at \notin {"none", "done"} => q = r
  BY DEF RenderInv
<1> QED
  BY <1>1, <1>2, <1>3

LEMMA RenderBeginsStep ==
  ASSUME Tidy, DrawnInv', UNCHANGED <<vars, renderHandle, takes>>, NEW r \in Surfaces, RenderBegins(r)
  PROVE  RenderInv' /\ PictureInv'
<1> USE RequestNumbers, SurfaceNumbers DEF Tidy, DrawnInv
<1>1. /\ render[r].at = "spawned"
      /\ render' = [render EXCEPT ![r].at = "wait"]
      /\ renderRunning' = TRUE
      /\ UNCHANGED <<vars, renderHandle, takes, surfaces, pending, surfaceDirty, setting, frames, fb, frameDirty>>
  BY DEF RenderBegins, Goes, surfaceVars, frameVars
<1>2. RenderInv'
  BY <1>1, OneRender DEF RenderTypeOK, RenderRecords, TypeOK, RenderInv, CleanUpGoesOn, vars
<1>3. PictureInv'
  BY <1>1, OneRender DEF RenderTypeOK, RenderRecords, TypeOK, RenderInv, PictureInv
<1> QED
  BY <1>2, <1>3

LEMMA RenderLooksStep ==
  ASSUME Tidy, DrawnInv', UNCHANGED <<vars, renderHandle, takes>>, NEW r \in Surfaces, RenderLooks(r)
  PROVE  RenderInv' /\ PictureInv'
<1> USE RequestNumbers, SurfaceNumbers DEF Tidy, DrawnInv
<1>1. /\ render[r].at = "wait"
      /\ render' = [render EXCEPT ![r].at = IF renderRunning THEN "surface" ELSE "ending"]
      /\ UNCHANGED <<vars, renderHandle, takes, surfaces, pending, surfaceDirty, setting, frames, fb, frameDirty, renderRunning>>
  BY DEF RenderLooks, Goes, surfaceVars, frameVars
<1>2. RenderInv'
  BY <1>1, OneRender DEF RenderTypeOK, RenderRecords, TypeOK, RenderInv, CleanUpGoesOn, vars
<1>3. PictureInv'
  BY <1>1, OneRender DEF RenderTypeOK, RenderRecords, TypeOK, RenderInv, PictureInv
<1> QED
  BY <1>2, <1>3

LEMMA RenderSeesSurfaceStep ==
  ASSUME Tidy, DrawnInv', UNCHANGED <<vars, renderHandle, takes>>, NEW r \in Surfaces, RenderSeesSurface(r)
  PROVE  RenderInv' /\ PictureInv'
<1> USE RequestNumbers, SurfaceNumbers DEF Tidy, DrawnInv
<1>1. /\ render[r].at = "surface"
      /\ render' = [render EXCEPT ![r].at = IF surfaceDirty THEN "fetch" ELSE "frame"]
      /\ surfaceDirty' = FALSE
      /\ UNCHANGED <<vars, renderHandle, takes, surfaces, pending, setting, frames, fb, frameDirty, renderRunning>>
  BY DEF RenderSeesSurface, Goes, surfaceVars, frameVars
<1>2. RenderInv'
  BY <1>1, OneRender DEF RenderTypeOK, RenderRecords, TypeOK, RenderInv, CleanUpGoesOn, vars
<1>3. PictureInv'
  BY <1>1, OneRender DEF RenderTypeOK, RenderRecords, TypeOK, RenderInv, PictureInv
<1> QED
  BY <1>2, <1>3

LEMMA RenderFetchesStep ==
  ASSUME Tidy, DrawnInv', UNCHANGED <<vars, renderHandle, takes>>, NEW r \in Surfaces, RenderFetches(r)
  PROVE  RenderInv' /\ PictureInv'
<1> USE RequestNumbers, SurfaceNumbers DEF Tidy, DrawnInv
<1>1. /\ render[r].at = "fetch"
      /\ render' = [render EXCEPT ![r] =
           [at |-> "bind", window |-> 0, copy |-> pending, shown |-> render[r].shown]]
      /\ UNCHANGED <<vars, renderHandle, takes, surfaces, pending, surfaceDirty, setting, frames, fb, frameDirty, renderRunning>>
  BY DEF RenderFetches, surfaceVars, frameVars
<1>2. RenderInv'
  BY <1>1, OneRender DEF RenderTypeOK, RenderRecords, TypeOK, RenderInv, CleanUpGoesOn, vars
<1>3. PictureInv'
  BY <1>1, OneRender DEF RenderTypeOK, RenderRecords, TypeOK, RenderInv, PictureInv
<1> QED
  BY <1>2, <1>3

LEMMA RenderBindsStep ==
  ASSUME Tidy, DrawnInv', UNCHANGED <<vars, renderHandle, takes>>, NEW r \in Surfaces, RenderBinds(r)
  PROVE  RenderInv' /\ PictureInv'
<1> USE RequestNumbers, SurfaceNumbers DEF Tidy, DrawnInv
<1>1. /\ render[r].at = "bind"
      /\ \E window \in {0, render[r].copy} : render' = [render EXCEPT ![r] =
           [at |-> "frame", window |-> window, copy |-> 0, shown |-> 0]]
      /\ UNCHANGED <<vars, renderHandle, takes, surfaces, pending, surfaceDirty, setting, frames, fb, frameDirty, renderRunning>>
  BY DEF RenderBinds, surfaceVars, frameVars
<1>2. RenderInv'
  BY <1>1, OneRender DEF RenderTypeOK, RenderRecords, TypeOK, RenderInv, CleanUpGoesOn, vars
<1>3. PictureInv'
  BY <1>1, OneRender DEF RenderTypeOK, RenderRecords, TypeOK, RenderInv, PictureInv
<1> QED
  BY <1>2, <1>3

LEMMA RenderSeesFrameStep ==
  ASSUME Tidy, DrawnInv', UNCHANGED <<vars, renderHandle, takes>>, NEW r \in Surfaces, RenderSeesFrame(r)
  PROVE  RenderInv' /\ PictureInv'
<1> USE RequestNumbers, SurfaceNumbers DEF Tidy, DrawnInv
<1>1. /\ render[r].at = "frame"
      /\ render' = [render EXCEPT ![r].at = IF frameDirty /\ render[r].window # 0 THEN "copy" ELSE "wait"]
      /\ frameDirty' = FALSE
      /\ UNCHANGED <<vars, renderHandle, takes, surfaces, pending, surfaceDirty, setting, frames, fb, renderRunning>>
  BY DEF RenderSeesFrame, Goes, ClearsFrameFirst, surfaceVars, frameVars
<1>2. RenderInv'
  BY <1>1, OneRender DEF RenderTypeOK, RenderRecords, TypeOK, RenderInv, CleanUpGoesOn, vars
<1>3. PictureInv'
  BY <1>1, OneRender DEF RenderTypeOK, RenderRecords, TypeOK, RenderInv, PictureInv
<1> QED
  BY <1>2, <1>3

LEMMA RenderCopiesStep ==
  ASSUME Tidy, DrawnInv', UNCHANGED <<vars, renderHandle, takes>>, NEW r \in Surfaces, RenderCopies(r)
  PROVE  RenderInv' /\ PictureInv'
<1> USE RequestNumbers, SurfaceNumbers DEF Tidy, DrawnInv
<1>1. /\ render[r].at = "copy"
      /\ render' = [render EXCEPT ![r] =
           [at |-> IF fb = 0 THEN "wait" ELSE "flush", window |-> render[r].window,
            copy |-> fb, shown |-> render[r].shown]]
      /\ UNCHANGED <<vars, renderHandle, takes, surfaces, pending, surfaceDirty, setting, frames, fb, frameDirty, renderRunning>>
  BY DEF RenderCopies, surfaceVars, frameVars
<1>2. RenderInv'
  BY <1>1, OneRender DEF RenderTypeOK, RenderRecords, TypeOK, RenderInv, CleanUpGoesOn, vars
<1>3. PictureInv'
  BY <1>1, OneRender DEF RenderTypeOK, RenderRecords, TypeOK, RenderInv, PictureInv
<1> QED
  BY <1>2, <1>3

LEMMA RenderFlushesStep ==
  ASSUME Tidy, DrawnInv', UNCHANGED <<vars, renderHandle, takes>>, NEW r \in Surfaces, RenderFlushes(r)
  PROVE  RenderInv' /\ PictureInv'
<1> USE RequestNumbers, SurfaceNumbers DEF Tidy, DrawnInv
<1>1. /\ render[r].at = "flush"
      /\ \E window \in {0, render[r].window}, shown \in {0, render[r].copy} :
           /\ shown # 0 => window = render[r].window
           /\ render' = [render EXCEPT ![r] =
                [at |-> "wait", window |-> window, copy |-> 0, shown |-> shown]]
      /\ UNCHANGED <<vars, renderHandle, takes, surfaces, pending, surfaceDirty, setting, frames, fb, frameDirty, renderRunning>>
  <2>1. frameDirty' = frameDirty
    BY DEF RenderFlushes, ClearsFrameFirst, RenderTypeOK
  <2>2. \/ render' = [render EXCEPT ![r] =
              [at |-> "wait", window |-> render[r].window, copy |-> 0, shown |-> render[r].copy]]
        \/ \E window \in {0, render[r].window} :
             render' = [render EXCEPT ![r] = [at |-> "wait", window |-> window, copy |-> 0, shown |-> 0]]
    BY DEF RenderFlushes
  <2> QED
    BY <2>1, <2>2 DEF RenderFlushes, surfaceVars
<1>2. RenderInv'
  BY <1>1, OneRender DEF RenderTypeOK, RenderRecords, TypeOK, RenderInv, CleanUpGoesOn, vars
<1>3. PictureInv'
  BY <1>1, OneRender DEF RenderTypeOK, RenderRecords, TypeOK, RenderInv, PictureInv
<1> QED
  BY <1>2, <1>3

LEMMA RenderEndsStep ==
  ASSUME Tidy, DrawnInv', UNCHANGED <<vars, renderHandle, takes>>, NEW r \in Surfaces, RenderEnds(r)
  PROVE  RenderInv' /\ PictureInv'
<1> USE RequestNumbers, SurfaceNumbers DEF Tidy, DrawnInv
<1>1. /\ render[r].at = "ending"
      /\ render' = [render EXCEPT ![r] =
           [at |-> "done", window |-> 0, copy |-> 0, shown |-> 0]]
      /\ renderRunning' = FALSE
      /\ UNCHANGED <<vars, renderHandle, takes, surfaces, pending, surfaceDirty, setting, frames, fb, frameDirty>>
  <2>1. [NoRender EXCEPT !.at = "done"] = [at |-> "done", window |-> 0, copy |-> 0, shown |-> 0]
    BY DEF NoRender
  <2> QED
    BY <2>1 DEF RenderEnds, surfaceVars, frameVars
<1>2. RenderInv'
  BY <1>1, OneRender DEF RenderTypeOK, RenderRecords, TypeOK, RenderInv, CleanUpGoesOn, vars
<1>3. PictureInv'
  BY <1>1, OneRender DEF RenderTypeOK, RenderRecords, TypeOK, RenderInv, PictureInv
<1> QED
  BY <1>2, <1>3

(* What the session does beside the render threads and the clean-ups.      *)
LEMMA QuietStep ==
  ASSUME Tidy, UNCHANGED renderVars, SessionInv', DrawnInv',
         \A n \in Requests : thread'[n].pc = "join" <=> thread[n].pc = "join",
         setting => ~CleanUpGoesOn'
  PROVE  Tidy'
<1>1. UNCHANGED <<surfaces, pending, surfaceDirty, setting, frames, fb, frameDirty,
                  renderRunning, renderHandle, render, takes>>
  BY DEF renderVars, surfaceVars, frameVars
<1>2. RenderInv'
  BY <1>1 DEF Tidy, RenderInv
<1>3. PictureInv'
  BY <1>1 DEF Tidy, PictureInv
<1> QED
  BY <1>2, <1>3 DEF Tidy

LEMMA SetSurfaceStep ==
  ASSUME Tidy, ~overlapped', SetSurface
  PROVE  RenderInv' /\ PictureInv'
<1> USE RequestNumbers, SurfaceNumbers DEF Tidy, DrawnInv
<1>1. /\ ~CleanUpGoesOn /\ setting' = TRUE
      /\ surfaceDirty' = TRUE
      /\ UNCHANGED <<vars, frames, fb, frameDirty, renderRunning, renderHandle, render, takes>>
  BY DEF SetSurface, frameVars
<1>2. RenderInv'
  BY <1>1 DEF RenderTypeOK, RenderRecords, RenderInv, CleanUpGoesOn, vars
<1>3. PictureInv'
  BY <1>1 DEF PictureInv, RenderInv
<1> QED
  BY <1>2, <1>3

LEMMA StartsRenderStep ==
  ASSUME Tidy, StartsRender
  PROVE  RenderInv' /\ PictureInv'
<1> USE RequestNumbers, SurfaceNumbers DEF Tidy, DrawnInv
<1>1. /\ setting /\ setting' = FALSE /\ renderRunning' = TRUE
      /\ UNCHANGED <<vars, surfaces, pending, surfaceDirty, frames, fb, frameDirty, takes>>
  BY DEF StartsRender, frameVars
<1>2. CASE renderRunning
  <2>1. UNCHANGED <<renderHandle, render>>
    BY <1>2 DEF StartsRender
  <2>2. RenderInv'
    BY <1>1, <2>1 DEF RenderInv, CleanUpGoesOn, vars
  <2>3. PictureInv'
    BY <1>1, <2>1 DEF PictureInv
  <2> QED
    BY <2>2, <2>3
<1>3. CASE ~renderRunning
  <2>1. /\ renderHandle' = surfaces /\ surfaces \in Surfaces
        /\ render' = [render EXCEPT ![surfaces].at = "spawned"]
    BY <1>1, <1>3 DEF StartsRender, RenderTypeOK
  <2>2. renderHandle = 0 /\ \A n \in Requests : takes[n] = 0 /\ thread[n].pc # "join"
    BY <1>1, <1>3 DEF RenderInv, CleanUpGoesOn
  <2>3. \A r \in Surfaces : render[r].at \in {"none", "done"}
    BY <2>2 DEF RenderInv
  <2>4. RenderInv'
    BY <1>1, <2>1, <2>2, <2>3 DEF RenderTypeOK, RenderRecords, RenderInv, CleanUpGoesOn, vars
  <2>5. PictureInv'
    BY <1>1, <2>1, <2>3 DEF RenderTypeOK, RenderRecords, RenderInv, PictureInv
  <2> QED
    BY <2>4, <2>5
<1> QED
  BY <1>2, <1>3

LEMMA ClearSurfaceStep ==
  ASSUME Tidy, ClearSurface
  PROVE  RenderInv' /\ PictureInv'
<1> USE RequestNumbers, SurfaceNumbers DEF Tidy, DrawnInv
<1>1. /\ pending' = 0 /\ surfaceDirty' = TRUE
      /\ UNCHANGED <<vars, surfaces, setting, frames, fb, frameDirty, renderRunning, renderHandle,
                     render, takes>>
  BY DEF ClearSurface, frameVars
<1>2. RenderInv'
  BY <1>1 DEF RenderInv, CleanUpGoesOn, vars
<1>3. PictureInv'
  BY <1>1 DEF PictureInv
<1> QED
  BY <1>2, <1>3

LEMMA VncGotUpdateStep ==
  ASSUME Tidy, DrawnInv', NEW n \in Requests, VncGotUpdate(n)
  PROVE  RenderInv' /\ PictureInv'
<1> USE RequestNumbers, SurfaceNumbers DEF Tidy, DrawnInv
<1>1. /\ frames' = frames + 1 /\ fb' = frames' /\ frameDirty' = TRUE
      /\ UNCHANGED <<vars, surfaces, pending, surfaceDirty, setting, renderRunning, renderHandle,
                     render, takes>>
  BY DEF VncGotUpdate, surfaceVars
<1>2. fb' # 0
  BY <1>1 DEF RenderTypeOK
<1>3. RenderInv'
  BY <1>1 DEF RenderTypeOK, RenderRecords, RenderInv, CleanUpGoesOn, vars
<1>4. PictureInv'
  BY <1>1, <1>2 DEF PictureInv
<1> QED
  BY <1>3, <1>4

LEMMA StopsRenderStep ==
  ASSUME Tidy, NEW n \in Requests, StopsRender(n)
  PROVE  RenderInv' /\ PictureInv'
<1> USE RequestNumbers, SurfaceNumbers DEF Tidy, DrawnInv
<1>1. /\ thread[n].pc = "clean" /\ thread'[n].pc = "join"
      /\ \A k \in Requests : k # n => thread'[k] = thread[k]
      /\ renderRunning' = FALSE /\ renderHandle' = 0
      /\ takes' = [takes EXCEPT ![n] = renderHandle]
      /\ UNCHANGED <<surfaces, pending, surfaceDirty, setting, frames, fb, frameDirty, render>>
  BY DEF StopsRender, Cleans, TakenRender, surfaceVars, frameVars, RenderTypeOK, TypeOK
<1>2. RenderInv'
  <2>1. ~setting
    BY <1>1 DEF RenderInv, CleanUpGoesOn
  <2>2. takes[n] = 0
    BY <1>1 DEF RenderInv
  <2>3. renderHandle # 0 => \A k \in Requests : takes[k] = 0
    BY DEF RenderInv
  <2> QED
    BY <1>1, <2>1, <2>2, <2>3 DEF RenderTypeOK, RenderInv
<1>3. PictureInv'
  BY <1>1 DEF PictureInv
<1> QED
  BY <1>2, <1>3

LEMMA ResetsSurfaceStep ==
  ASSUME Tidy, NEW n \in Requests, ResetsSurface(n)
  PROVE  RenderInv' /\ PictureInv'
<1> USE RequestNumbers, SurfaceNumbers DEF Tidy, DrawnInv
<1>1. /\ thread[n].pc = "join" /\ thread'[n].pc \notin {"join", "clean"}
      /\ \A k \in Requests : k # n => thread'[k] = thread[k]
      /\ takes[n] # 0 => render[takes[n]].at = "done"
      /\ takes' = [takes EXCEPT ![n] = 0]
      /\ pending' = 0 /\ surfaceDirty' = FALSE /\ fb' = 0 /\ frameDirty' = FALSE
      /\ UNCHANGED <<surfaces, setting, frames, renderRunning, renderHandle, render>>
  BY DEF ResetsSurface, JoinsAndFrees, RenderJoined, RenderTypeOK, TypeOK
<1>2. renderHandle = 0
  BY <1>1 DEF RenderInv
<1>3. RenderInv'
  BY <1>1, <1>2 DEF RenderTypeOK, RenderInv, CleanUpGoesOn
<1>4. PictureInv'
  BY <1>1, <1>2 DEF PictureInv
<1> QED
  BY <1>3, <1>4
-----------------------------------------------------------------------------
(* Every step of a session, whatever is drawn meanwhile.                   *)
LEMMA SessionStep ==
  ASSUME SessionInv, [Next]_vars
  PROVE  SessionInv'
<1>1. CASE UNCHANGED vars
  BY <1>1 DEF vars, SessionInv, TypeOK, SeqInv, KindInv, AttemptInv, Attempting, WorkersKept,
              ClientInv, CleanUpInv, LiveInv, WorkerInv, Reconnected
<1>2. CASE \E n \in Requests : Detached(n)
  BY <1>2, CleansStep, JoinsAndFreesStep, ChecksBeforeStep, HandshakeEndsStep, InstallsStep,
     LeavesStep DEF Detached
<1>3. CASE \E n \in Requests : Working(n) \/ WorkerLosesServer(n)
  BY <1>3, WorkerBeginsStep, WorkerRunsStep, WorkerSeesStopStep, WorkerLosesServerStep,
     WorkerEndsStep DEF Working
<1>4. CASE ConnectLooks \/ ConnectAlready \/ ConnectStarts \/ Disconnect
  BY <1>4, ConnectLooksStep, ConnectAlreadyStep, ConnectStartsStep, DisconnectStep
<1> QED
  BY <1>1, <1>2, <1>3, <1>4 DEF Next

LEMMA SessionBegins ==
  ASSUME Init
  PROVE  SessionInv
<1> USE RequestNumbers, SessionAssumption DEF Init, NoThread, NoWorker
<1>1. TypeOK
  BY DEF TypeOK, ThreadRecords
<1>2. SeqInv /\ KindInv /\ AttemptInv
  BY DEF SeqInv, KindInv, AttemptInv, Attempting
<1>3. WorkersKept /\ ClientInv /\ CleanUpInv /\ LiveInv /\ WorkerInv
  BY DEF WorkersKept, ClientInv, CleanUpInv, LiveInv, WorkerInv
<1> QED
  BY <1>1, <1>2, <1>3 DEF SessionInv

(* A step of VncRender is one of VncSession or leaves the session alone.   *)
LEMMA RenderStepIsSessionStep ==
  ASSUME [RenderNext]_allVars
  PROVE  [Next]_vars
<1>1. CASE UNCHANGED allVars
  BY <1>1 DEF allVars
<1>2. CASE Requested
  BY <1>2 DEF Requested, Next
<1>3. CASE SetSurface \/ StartsRender \/ ClearSurface
  BY <1>3 DEF SetSurface, StartsRender, ClearSurface
<1>4. CASE \E n \in Requests : DetachedThread(n)
  BY <1>4 DEF DetachedThread, StopsRender, ResetsSurface, Next, Detached
<1>5. CASE \E n \in Requests : VncWorker(n)
  BY <1>5 DEF VncWorker, Next
<1>6. CASE \E r \in Surfaces : VncRenderWorker(r)
  BY <1>6 DEF VncRenderWorker
<1>7. CASE \E n \in Requests : VncGotUpdate(n) \/ (WorkerLosesServer(n) /\ UNCHANGED renderVars)
  BY <1>7 DEF VncGotUpdate, Next
<1> QED
  BY <1>1, <1>2, <1>3, <1>4, <1>5, <1>6, <1>7 DEF RenderNext, Scheduled

LEMMA SessionInductive == RenderSpec => []SessionInv
<1>1. RenderInit => SessionInv
  BY SessionBegins DEF RenderInit
<1>2. SessionInv /\ [RenderNext]_allVars => SessionInv'
  BY SessionStep, RenderStepIsSessionStep
<1>3. QED
  BY <1>1, <1>2, PTL DEF RenderSpec

-----------------------------------------------------------------------------
(* Every step with what is drawn.                                          *)
LEMMA RenderWorkerStep ==
  ASSUME Tidy, DrawnInv', NEW r \in Surfaces, VncRenderWorker(r)
  PROVE  RenderInv' /\ PictureInv'
  BY RenderBeginsStep, RenderLooksStep, RenderSeesSurfaceStep, RenderFetchesStep, RenderBindsStep,
     RenderSeesFrameStep, RenderCopiesStep, RenderFlushesStep, RenderEndsStep DEF VncRenderWorker

LEMMA RequestedStep ==
  ASSUME Tidy, SessionInv', DrawnInv', Requested
  PROVE  Tidy'
<1>1. UNCHANGED renderVars /\ ~setting
  BY DEF Requested
<1>2. \A n \in Requests : thread'[n].pc = "join" <=> thread[n].pc = "join"
  <2>1. CASE ConnectLooks \/ ConnectAlready
    BY <2>1 DEF ConnectLooks, ConnectAlready
  <2>2. CASE ConnectStarts \/ Disconnect
    <3>1. \E rec \in {connectSeq'} :
            /\ requests' = requests + 1 /\ requests < MaxRequests
            /\ \E kind \in {"connect", "disconnect"} :
                 thread' = [thread EXCEPT ![requests'] =
                   [pc |-> "clean", kind |-> kind, seq |-> rec, joins |-> 0, frees |-> 0]]
      BY <2>2 DEF ConnectStarts, Disconnect, Launch
    <3>2. requests' \in Requests /\ requests' > requests
      BY <3>1, RequestNumbers DEF Tidy, SessionInv, TypeOK
    <3>3. thread[requests'].pc = "none"
      BY <3>2 DEF Tidy, SessionInv, SeqInv
    <3> QED
      BY <3>1, <3>2, <3>3 DEF Tidy, SessionInv, TypeOK, ThreadRecords
  <2> QED
    BY <2>1, <2>2 DEF Requested
<1> QED
  BY <1>1, <1>2, QuietStep

(* The steps of the detached threads that are not a clean-up's.            *)
LEMMA AttemptStep ==
  ASSUME Tidy, SessionInv', DrawnInv', NEW n \in Requests, UNCHANGED renderVars,
         ChecksBefore(n) \/ HandshakeEnds(n) \/ Installs(n) \/ Leaves(n)
  PROVE  Tidy'
<1>1. /\ thread[n].pc \in {"check", "handshake", "install", "leave"}
      /\ \E pc \in {"done", "handshake", "install", "leave"} : thread' = [thread EXCEPT ![n].pc = pc]
  BY DEF ChecksBefore, HandshakeEnds, Installs, Leaves, GivesUp
<1>2. \A k \in Requests : /\ thread'[k].pc = "join" <=> thread[k].pc = "join"
                          /\ thread'[k].pc = "clean" <=> thread[k].pc = "clean"
  BY <1>1 DEF Tidy, SessionInv, TypeOK, ThreadRecords
<1>3. setting => ~CleanUpGoesOn'
  BY <1>2 DEF Tidy, RenderInv, CleanUpGoesOn
<1> QED
  BY <1>2, <1>3, QuietStep

LEMMA WorkingStep ==
  ASSUME Tidy, SessionInv', DrawnInv', NEW n \in Requests, UNCHANGED renderVars,
         Working(n) \/ WorkerLosesServer(n)
  PROVE  Tidy'
<1>1. thread' = thread
  BY DEF Working, WorkerBegins, WorkerRuns, WorkerSeesStop, WorkerEnds, WorkerLosesServer
<1>2. setting => ~CleanUpGoesOn'
  BY <1>1 DEF Tidy, RenderInv, CleanUpGoesOn
<1> QED
  BY <1>1, <1>2, QuietStep

LEMMA TidyStep ==
  ASSUME Tidy, SessionInv', DrawnInv', ~overlapped', [RenderNext]_allVars
  PROVE  Tidy'
<1> USE DEF Tidy
<1>1. CASE UNCHANGED allVars
  <2>1. UNCHANGED renderVars /\ UNCHANGED vars
    BY <1>1 DEF allVars
  <2>2. thread' = thread
    BY <2>1 DEF vars
  <2>3. setting => ~CleanUpGoesOn'
    BY <2>2 DEF RenderInv, CleanUpGoesOn
  <2> QED
    BY <2>1, <2>2, <2>3, QuietStep
<1>2. CASE Requested
  BY <1>2, RequestedStep
<1>3. CASE SetSurface \/ StartsRender \/ ClearSurface
  BY <1>3, SetSurfaceStep, StartsRenderStep, ClearSurfaceStep
<1>4. CASE \E n \in Requests : DetachedThread(n)
  BY <1>4, StopsRenderStep, ResetsSurfaceStep, AttemptStep DEF DetachedThread, SessionInv
<1>5. CASE \E n \in Requests : VncWorker(n)
  BY <1>5, WorkingStep DEF VncWorker
<1>6. CASE \E r \in Surfaces : VncRenderWorker(r)
  BY <1>6, RenderWorkerStep
<1>7. CASE \E n \in Requests : VncGotUpdate(n)
  BY <1>7, VncGotUpdateStep
<1>8. CASE \E n \in Requests : WorkerLosesServer(n) /\ UNCHANGED renderVars
  BY <1>8, WorkingStep
<1> QED
  BY <1>1, <1>2, <1>3, <1>4, <1>5, <1>6, <1>7, <1>8 DEF RenderNext, Scheduled

LEMMA IInvBegins ==
  ASSUME RenderInit
  PROVE  IInv
<1> USE RequestNumbers, SurfaceNumbers, RenderAssumption DEF RenderInit
<1>1. SessionInv /\ client = 0 /\ \A n \in Requests : thread[n].pc = "none"
  BY SessionBegins DEF Init, NoThread
<1>2. DrawnInv
  <2>1. NoRender \in RenderRecords
    BY DEF NoRender, RenderRecords
  <2>2. render \in [Surfaces -> RenderRecords] /\ takes \in [Requests -> 0 .. surfaces]
    BY <2>1
  <2>3. /\ surfaces \in 0 .. MaxSurfaces /\ pending \in 0 .. surfaces /\ renderHandle \in 0 .. surfaces
        /\ frames \in 0 .. MaxFrames /\ fb \in 0 .. frames
    OBVIOUS
  <2>4. RenderTypeOK
    BY <1>1, <2>2, <2>3 DEF RenderTypeOK, SessionInv
  <2> QED
    BY <2>4 DEF DrawnInv, NoRender
<1>3. RenderInv /\ PictureInv
  BY <1>1 DEF RenderInv, PictureInv, NoRender, CleanUpGoesOn
<1> QED
  BY <1>1, <1>2, <1>3 DEF Tidy, IInv

(* overlapped is never reset.                                              *)
LEMMA OverlappedStays ==
  ASSUME [RenderNext]_allVars, overlapped
  PROVE  overlapped'
<1>1. CASE UNCHANGED renderVars
  BY <1>1 DEF renderVars, surfaceVars
<1>2. CASE SetSurface \/ StartsRender \/ ClearSurface
  BY <1>2 DEF SetSurface, StartsRender, ClearSurface
<1>3. CASE \E r \in Surfaces : VncRenderWorker(r)
  BY <1>3 DEF VncRenderWorker, RenderBegins, RenderLooks, RenderSeesSurface, RenderFetches,
              RenderBinds, RenderSeesFrame, RenderCopies, RenderFlushes, RenderEnds, surfaceVars
<1>4. CASE \E n \in Requests : StopsRender(n) \/ ResetsSurface(n) \/ VncGotUpdate(n)
  BY <1>4 DEF StopsRender, ResetsSurface, VncGotUpdate, surfaceVars
<1> QED
  BY <1>1, <1>2, <1>3, <1>4 DEF RenderNext, Requested, Scheduled, DetachedThread, VncWorker, allVars

LEMMA RenderInductive == RenderSpec => []IInv
<1>1. RenderInit => IInv
  BY IInvBegins
<1>2. IInv /\ [RenderNext]_allVars => IInv'
  <2> SUFFICES ASSUME IInv, [RenderNext]_allVars  PROVE IInv'
    OBVIOUS
  <2>1. SessionInv'
    BY SessionStep, RenderStepIsSessionStep DEF IInv
  <2>2. DrawnInv'
    BY <2>1, DrawnStep DEF IInv, SessionInv
  <2>3. ~overlapped' => Tidy'
    BY <2>1, <2>2, OverlappedStays, TidyStep DEF IInv
  <2> QED
    BY <2>1, <2>2, <2>3 DEF IInv
<1>3. QED
  BY <1>1, <1>2, PTL DEF RenderSpec

-----------------------------------------------------------------------------
(* After a disconnect, once its thread and those before it are through, no *)
(* client and no worker is left, however the attempts and the clean-ups    *)
(* interleave: the attempt that could still install a client sees that the *)
(* count has moved on.                                                     *)
THEOREM DisconnectWinsAlways == RenderSpec => []DisconnectWins
<1>1. SessionInv => DisconnectWins
  <2> SUFFICES ASSUME SessionInv, closed,
                      \A n \in Requests : thread[n].pc \in {"none", "done"}
               PROVE  /\ client = 0
                      /\ \A n \in Requests : worker[n].pc \in {"none", "done"} /\ clients[n] # "live"
    BY DEF DisconnectWins
  <2> USE RequestNumbers DEF SessionInv
  <2>1. requests \in Requests /\ thread[requests].kind = "disconnect"
    BY DEF KindInv, TypeOK
  <2>2. ASSUME client # 0  PROVE FALSE
    <3>1. client \in Requests /\ client # requests /\ thread[client].kind = "connect"
      BY <2>1, <2>2 DEF ClientInv, TypeOK
    <3>2. client <= requests
      BY <3>1 DEF SeqInv, TypeOK
    <3>3. thread[requests].pc = "clean"
      BY <2>1, <3>1, <3>2 DEF ClientInv, TypeOK
    <3> QED
      BY <2>1, <3>3
  <2>3. \A n \in Requests : worker[n].pc \in {"none", "done"} /\ clients[n] # "live"
    BY <2>2 DEF WorkersKept, ClientInv, LiveInv
  <2> QED
    BY <2>2, <2>3
<1>2. QED
  BY <1>1, SessionInductive, PTL

(* Whenever surfaces are set: no std::thread of a worker is assigned over, *)
(* and as the viewers use a session no worker uses a client that was freed.*)
THEOREM WorkersAndClientsKept == RenderSpec => [](WorkersKept /\ ClientAlive)
<1>1. SessionInv => WorkersKept /\ ClientAlive
  BY DEF SessionInv, WorkerInv, ClientAlive
<1>2. QED
  BY <1>1, SessionInductive, PTL

(* Whatever the order of the calls, no worker's std::thread is assigned    *)
(* over and no worker uses a freed client; and until a surface is set      *)
(* during a clean-up, which vncSetSurface does not rule out, no render     *)
(* thread is assigned over or lost, and no two have a window.              *)
THEOREM SessionKeptAlways == RenderSpec => []SessionKept
<1>1. IInv => SessionKept
  <2> SUFFICES ASSUME IInv  PROVE SessionKept
    OBVIOUS
  <2>1. ClientAlive /\ WorkersKept /\ RenderTypeOK
    BY DEF IInv, DrawnInv, SessionInv, WorkerInv, ClientAlive
  <2>2. ASSUME ~overlapped
        PROVE  /\ RenderWorkerKept
               /\ \A r \in Surfaces : render[r].at \notin {"none", "done"} =>
                    r = renderHandle \/ \E n \in Requests : takes[n] = r
               /\ \A r, q \in Surfaces : render[r].window # 0 /\ render[q].window # 0 => r = q
    <3>1. RenderInv /\ RenderTypeOK
      BY <2>2 DEF IInv, Tidy, DrawnInv
    <3>2. RenderWorkerKept
      BY <3>1 DEF RenderInv, RenderWorkerKept
    <3>3. \A r \in Surfaces : render[r].at \notin {"none", "done"} =>
            r = renderHandle \/ \E n \in Requests : takes[n] = r
      BY <3>1 DEF RenderInv
    <3>4. \A r, q \in Surfaces : render[r].window # 0 /\ render[q].window # 0 => r = q
      BY <3>1, OneRender DEF RenderInv
    <3> QED
      BY <3>2, <3>3, <3>4
  <2> QED
    BY <2>1, <2>2 DEF SessionKept
<1>2. QED
  BY <1>1, RenderInductive, PTL

(* The session's picture is the last frame on the last surface, or what is *)
(* newer is still marked, until a surface is set during a clean-up.        *)
THEOREM PictureCurrentAlways == RenderSpec => []PictureCurrent
<1>1. IInv => PictureCurrent
  BY SurfaceNumbers DEF IInv, Tidy, PictureInv, PictureCurrent
<1>2. QED
  BY <1>1, RenderInductive, PTL
=============================================================================
