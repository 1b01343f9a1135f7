------------------------------ MODULE VncSession ------------------------------
(***************************************************************************)
(* One session of the native VNC client in napi_init.cpp: connect and      *)
(* disconnect requests of the UI thread, each served by a detached thread, *)
(* and the worker thread that every established client gets.  Requests,    *)
(* their threads, clients and workers share one numbering.                 *)
(*                                                                         *)
(* The shipped viewers never use a session again after its disconnect; the *)
(* exported functions allow it, and so does the model.  The threads that   *)
(* draw to a surface are not in this module.                               *)
(***************************************************************************)
EXTENDS Naturals

CONSTANT MaxRequests  (* bound on the requests to this session               *)

ASSUME SessionAssumption == MaxRequests \in Nat \ {0}

VARIABLES
  client, handle,          (* s->client and s->worker, 0 if there is none    *)
  running, connecting,     (* the atomic flags                               *)
  connectSeq,
  requests,                (* requests so far                                *)
  closed,                  (* the last one was a disconnect                  *)
  ui,                      (* whether vncConnect has seen no client          *)
  thread,                  (* the detached threads                           *)
  worker,                  (* the worker threads                             *)
  clients                  (* the rfbClients                                 *)

vars == <<client, handle, running, connecting, connectSeq, requests, closed, ui,
          thread, worker, clients>>

Requests == 1 .. MaxRequests

NoThread == [pc |-> "none", kind |-> "none", seq |-> 0, joins |-> 0, frees |-> 0]
NoWorker == [pc |-> "none", client |-> 0]

Init ==
  /\ client = 0 /\ handle = 0
  /\ running = FALSE /\ connecting = FALSE
  /\ connectSeq = 0
  /\ requests = 0
  /\ closed = FALSE
  /\ ui = "idle"
  /\ thread = [n \in Requests |-> NoThread]
  /\ worker = [n \in Requests |-> NoWorker]
  /\ clients = [n \in Requests |-> "none"]

-----------------------------------------------------------------------------
Launch(kind, seq) ==
  /\ requests < MaxRequests
  /\ requests' = requests + 1
  /\ thread' = [thread EXCEPT ![requests'] =
       [pc |-> "clean", kind |-> kind, seq |-> seq, joins |-> 0, frees |-> 0]]

(* vncConnect answers true for a client that is there, closed by the server *)
(* or not, and for an attempt that is going on.                             *)
ConnectLooks ==
  /\ ui = "idle"
  /\ requests < MaxRequests
  /\ client = 0
  /\ ui' = "unconnected"
  /\ UNCHANGED <<client, handle, running, connecting, connectSeq, requests, closed,
                 thread, worker, clients>>

ConnectAlready ==
  /\ ui = "unconnected"
  /\ connecting
  /\ ui' = "idle"
  /\ closed' = FALSE
  /\ UNCHANGED <<client, handle, running, connecting, connectSeq, requests, thread,
                 worker, clients>>

ConnectStarts ==
  /\ ui = "unconnected"
  /\ ~connecting
  /\ ui' = "idle"
  /\ closed' = FALSE
  /\ connecting' = TRUE
  /\ connectSeq' = connectSeq + 1
  /\ Launch("connect", connectSeq')
  /\ UNCHANGED <<client, handle, running, worker, clients>>

(* Mutant: disconnecting does not cancel an attempt that is going on.       *)
SeqKept == connectSeq

SeqAfterDisconnect == connectSeq + 1

Disconnect ==
  /\ ui = "idle"
  /\ closed' = TRUE
  /\ connectSeq' = SeqAfterDisconnect
  /\ Launch("disconnect", connectSeq')
  /\ UNCHANGED <<client, handle, running, connecting, ui, worker, clients>>

-----------------------------------------------------------------------------
TakenWorker == handle

(* VncStopAndCleanupAsync: what is taken off the session under its lock is  *)
(* joined and freed without it.                                             *)
Cleans(n) ==
  /\ thread[n].pc = "clean"
  /\ running' = FALSE
  /\ thread' = [thread EXCEPT ![n] =
       [pc |-> "join", kind |-> thread[n].kind, seq |-> thread[n].seq,
        joins |-> TakenWorker, frees |-> client]]
  /\ handle' = 0
  /\ client' = 0
  /\ UNCHANGED <<connecting, connectSeq, requests, closed, ui, worker, clients>>

(* Mutant: the client is freed while its worker may still use it.           *)
JoinedAtOnce(n) == TRUE

Joined(n) == \A k \in {thread[n].joins} \ {0} : worker[k].pc = "done"

Freed(n) == IF n = 0 THEN clients ELSE [clients EXCEPT ![n] = "freed"]

JoinsAndFrees(n) ==
  /\ thread[n].pc = "join"
  /\ Joined(n)
  /\ clients' = Freed(thread[n].frees)
  /\ thread' = [thread EXCEPT ![n].pc =
                  IF thread[n].kind = "connect" THEN "check" ELSE "done"]
  /\ UNCHANGED <<client, handle, running, connecting, connectSeq, requests, closed, ui,
                 worker>>

Cancelled(n) == thread[n].seq # connectSeq

GivesUp(n) ==
  /\ connecting' = FALSE
  /\ thread' = [thread EXCEPT ![n].pc = "done"]

ChecksBefore(n) ==
  /\ thread[n].pc = "check"
  /\ IF Cancelled(n)
     THEN GivesUp(n) /\ UNCHANGED clients
     ELSE /\ thread' = [thread EXCEPT ![n].pc = "handshake"]
          /\ clients' = [clients EXCEPT ![n] = "live"]
          /\ UNCHANGED connecting
  /\ UNCHANGED <<client, handle, running, connectSeq, requests, closed, ui, worker>>

(* The handshake fails, or was cancelled meanwhile, or succeeds.            *)
HandshakeEnds(n) ==
  /\ thread[n].pc = "handshake"
  /\ \/ clients' = Freed(n) /\ GivesUp(n)
     \/ /\ ~Cancelled(n)
        /\ thread' = [thread EXCEPT ![n].pc = "install"]
        /\ UNCHANGED <<clients, connecting>>
  /\ UNCHANGED <<client, handle, running, connectSeq, requests, closed, ui, worker>>

(* The last look at connect_seq is under the session's lock.                *)
Installs(n) ==
  /\ thread[n].pc = "install"
  /\ IF Cancelled(n)
     THEN clients' = Freed(n) /\ UNCHANGED <<client, handle, worker>>
     ELSE /\ client' = n
          /\ handle' = n
          /\ worker' = [worker EXCEPT ![n].pc = "spawned"]
          /\ UNCHANGED clients
  /\ thread' = [thread EXCEPT ![n].pc = "leave"]
  /\ UNCHANGED <<running, connecting, connectSeq, requests, closed, ui>>

Leaves(n) ==
  /\ thread[n].pc = "leave"
  /\ GivesUp(n)
  /\ UNCHANGED <<client, handle, running, connectSeq, requests, closed, ui, worker, clients>>

-----------------------------------------------------------------------------
(* VncWorker reads s->client without the lock, then sets running itself.    *)
WorkerBegins(n) ==
  /\ worker[n].pc = "spawned"
  /\ worker' = [worker EXCEPT ![n] =
       [pc |-> IF client = 0 THEN "done" ELSE "begun", client |-> client]]
  /\ UNCHANGED <<client, handle, running, connecting, connectSeq, requests, closed, ui,
                 thread, clients>>

WorkerRuns(n) ==
  /\ worker[n].pc = "begun"
  /\ running' = TRUE
  /\ worker' = [worker EXCEPT ![n].pc = "loop"]
  /\ UNCHANGED <<client, handle, connecting, connectSeq, requests, closed, ui, thread,
                 clients>>

(* Mutant: the worker leaves its loop only when the server fails.           *)
StopIgnored == FALSE

StopSeen == ~running

WorkerSeesStop(n) ==
  /\ worker[n].pc = "loop"
  /\ StopSeen
  /\ worker' = [worker EXCEPT ![n].pc = "ending"]
  /\ UNCHANGED <<client, handle, running, connecting, connectSeq, requests, closed, ui,
                 thread, clients>>

(* The server closes the connection or sends something wrong.               *)
WorkerLosesServer(n) ==
  /\ worker[n].pc = "loop"
  /\ worker' = [worker EXCEPT ![n].pc = "ending"]
  /\ UNCHANGED <<client, handle, running, connecting, connectSeq, requests, closed, ui,
                 thread, clients>>

WorkerEnds(n) ==
  /\ worker[n].pc = "ending"
  /\ running' = FALSE
  /\ worker' = [worker EXCEPT ![n].pc = "done"]
  /\ UNCHANGED <<client, handle, connecting, connectSeq, requests, closed, ui, thread,
                 clients>>

Detached(n) ==
  \/ Cleans(n) \/ JoinsAndFrees(n) \/ ChecksBefore(n) \/ HandshakeEnds(n)
  \/ Installs(n) \/ Leaves(n)

Working(n) == WorkerBegins(n) \/ WorkerRuns(n) \/ WorkerSeesStop(n) \/ WorkerEnds(n)

Next ==
  \/ ConnectLooks \/ ConnectAlready \/ ConnectStarts \/ Disconnect
  \/ \E n \in Requests : Detached(n) \/ Working(n) \/ WorkerLosesServer(n)

Spec == Init /\ [][Next]_vars

-----------------------------------------------------------------------------
ThreadRecords ==
  [pc : {"none", "clean", "join", "check", "handshake", "install", "leave", "done"},
   kind : {"none", "connect", "disconnect"}, seq : 0 .. MaxRequests,
   joins : 0 .. MaxRequests, frees : 0 .. MaxRequests]

TypeOK ==
  /\ {client, handle} \subseteq 0 .. MaxRequests
  /\ running \in BOOLEAN /\ connecting \in BOOLEAN
  /\ connectSeq \in 0 .. MaxRequests /\ requests \in 0 .. MaxRequests
  /\ closed \in BOOLEAN
  /\ ui \in {"idle", "unconnected"}
  /\ thread \in [Requests -> ThreadRecords]
  /\ worker \in [Requests ->
       [pc : {"none", "spawned", "begun", "loop", "ending", "done"}, client : 0 .. MaxRequests]]
  /\ clients \in [Requests -> {"none", "live", "freed"}]

(* A joinable std::thread is never assigned over, which would end the       *)
(* process: a handle belongs to the session, to one thread that joins it,   *)
(* or to nobody once it is done.                                            *)
WorkersKept ==
  \A n \in Requests : worker[n].pc \notin {"none", "done"} =>
    n = handle \/ \E k \in Requests : thread[k].joins = n /\ thread[k].pc = "join"

Reconnected ==
  \E m, n \in Requests : m < n /\ thread[m].kind = "disconnect" /\ thread[n].kind = "connect"

(* As the shipped viewers use a session, with any number of attempts and    *)
(* disconnects but no new attempt after them, a worker never uses an        *)
(* rfbClient that was freed.                                                *)
ClientAlive ==
  ~Reconnected =>
    \A n \in Requests : worker[n].pc \in {"begun", "loop"} => clients[worker[n].client] = "live"

(* After a disconnect, once all its threads are through, no client is left  *)
(* on the session or lost, and no worker runs: an attempt that was under    *)
(* way does not come back with a connection nobody wants.                   *)
DisconnectWins ==
  closed /\ (\A n \in Requests : thread[n].pc \in {"none", "done"}) =>
    /\ client = 0
    /\ \A n \in Requests : worker[n].pc \in {"none", "done"} /\ clients[n] # "live"

(* A worker that was scheduled so late that it undoes the stop of the       *)
(* clean-up that joins it: VncWorker sets running itself, and the join then *)
(* lasts as long as the server's connection.                                *)
StopUndone(n) ==
  thread[n].pc = "join" /\ thread[n].joins # 0 /\ running /\ worker[thread[n].joins].pc = "loop"
=============================================================================
