------------------------------- MODULE Console -------------------------------
(***************************************************************************)
(* The console of the VM in napi_init.cpp: CaptureQemuOutput, which holds  *)
(* the process's stdout while a run lasts and has a thread that reads it   *)
(* (stderr has its own and is the same), and the serial bridge, a thread   *)
(* that keeps a connection to the guest's serial port.  Both hand what     *)
(* they read to g_consoleCallback, which the UI thread sets and the end of *)
(* a run releases, without a lock.                                         *)
(*                                                                         *)
(* A descriptor is a number: once closed it may be given to another part   *)
(* of the process.  That the UI's writes to the capture's stdin pipe race  *)
(* with its destructor is not followed.                                    *)
(***************************************************************************)
EXTENDS Naturals

CONSTANTS
  MaxRuns,       (* bound on the runs of a VM                                *)
  MaxCallbacks,  (* bound on the callbacks the page registers                *)
  PipeSize       (* what the pipe of stdout holds, in reads                  *)

ASSUME ConsoleAssumption == {MaxRuns, MaxCallbacks, PipeSize} \subseteq Nat

VARIABLES
  vm, runs,        (* "off", "init", "serving" (its serial port), "ending"   *)
  capture,         (* where the capture's life is, "none" without one        *)
  captureRunning,  (* the capture's flag                                     *)
  reader,          (* where the reading thread is, and its callback          *)
  pipe,            (* what was written to stdout and not yet read            *)
  callback,        (* g_consoleCallback, 0 if null                           *)
  tsfn,            (* what became of every callback                          *)
  serialRunning, serialFd,
  bridge,          (* where the bridge's thread is, its descriptor, callback *)
  peer,            (* the run that the open connection leads to              *)
  owner,           (* whose each descriptor number is                        *)
  ui               (* where the UI thread is                                 *)

captureVars == <<vm, runs, capture, captureRunning, reader, pipe>>
serialVars == <<serialRunning, serialFd, bridge, peer, owner>>
callbackVars == <<callback, tsfn>>
vars == <<captureVars, serialVars, callbackVars, ui>>

Callbacks == 1 .. MaxCallbacks
Fds == 1 .. 2
NoFd == 0

Init ==
    /\ vm = "off" /\ runs = 0
    /\ capture = "none" /\ captureRunning = FALSE
    /\ reader = [at |-> "done", cb |-> 0]
    /\ pipe = 0
    /\ callback = 0 /\ tsfn = [k \in Callbacks |-> "none"]
    /\ serialRunning = FALSE /\ serialFd = NoFd
    /\ bridge = [at |-> "done", fd |-> NoFd, cb |-> 0]
    /\ peer = 0
    /\ owner = [fd \in Fds |-> "free"]
    /\ ui = "idle"

-----------------------------------------------------------------------------
(***************************************************************************)
(* The run: its capture is made before the core is entered.                *)
(***************************************************************************)
RunStarts ==
    /\ vm = "off" /\ runs < MaxRuns
    /\ vm' = "init" /\ runs' = runs + 1
    /\ capture' = "open" /\ captureRunning' = TRUE
    /\ reader' = [at |-> "check", cb |-> 0]
    /\ pipe' = 0
    /\ UNCHANGED <<serialVars, callbackVars, ui>>

CoreListens ==
    /\ vm = "init"
    /\ vm' = "serving"
    /\ UNCHANGED <<runs, capture, captureRunning, reader, pipe, serialVars, callbackVars, ui>>

CoreWrites ==
    /\ vm \in {"init", "serving"} /\ pipe < PipeSize
    /\ pipe' = pipe + 1
    /\ UNCHANGED <<vm, runs, capture, captureRunning, reader, serialVars, callbackVars, ui>>

CoreEnds ==
    /\ vm \in {"init", "serving"}
    /\ vm' = "ending"
    /\ UNCHANGED <<runs, capture, captureRunning, reader, pipe, serialVars, callbackVars, ui>>

(* Mutant: a write end of the pipe is still open while the reader is joined. *)
WriteEndLeftOpen == capture # "none"

WriteEndOpen == capture \in {"open", "stopping"}

(* ~CaptureQemuOutput: the flag, the descriptors, the join, the callback.  *)
CaptureDestroyed ==
    /\ vm = "ending"
    /\ \/ /\ capture = "open" /\ capture' = "stopping"
          /\ captureRunning' = FALSE
          /\ UNCHANGED <<vm, callbackVars>>
       \/ /\ capture = "stopping" /\ capture' = "join"
          /\ UNCHANGED <<vm, captureRunning, callbackVars>>
       \/ /\ capture = "join" /\ capture' = "release"
          /\ reader.at = "done"
          /\ UNCHANGED <<vm, captureRunning, callbackVars>>
       \/ /\ capture = "release" /\ capture' = IF callback = 0 THEN "gone" ELSE "reset"
          /\ tsfn' = [k \in Callbacks |-> IF k = callback THEN "ended" ELSE tsfn[k]]
          /\ UNCHANGED <<vm, captureRunning, callback>>
       \/ /\ capture = "reset" /\ capture' = "gone"
          /\ callback' = 0
          /\ UNCHANGED <<vm, captureRunning, tsfn>>
       \/ /\ capture = "gone" /\ capture' = "none"
          /\ vm' = "off"
          /\ UNCHANGED <<captureRunning, callbackVars>>
    /\ UNCHANGED <<runs, reader, pipe, serialVars, ui>>

(* ReadThread, a chunk at a time: the file first, then the page.           *)
ReadThread ==
    /\ \/ /\ reader.at = "check"
          /\ reader' = [reader EXCEPT !.at = IF captureRunning THEN "read" ELSE "done"]
          /\ UNCHANGED pipe
       \/ /\ reader.at = "read" /\ pipe > 0
          /\ pipe' = pipe - 1
          /\ reader' = [reader EXCEPT !.at = "emit"]
       \/ /\ reader.at = "read" /\ pipe = 0 /\ ~WriteEndOpen
          /\ reader' = [reader EXCEPT !.at = "done"]
          /\ UNCHANGED pipe
       \/ /\ reader.at = "emit"
          /\ reader' = [at |-> IF callback = 0 THEN "check" ELSE "call", cb |-> callback]
          /\ UNCHANGED pipe
       \/ /\ reader.at = "call"
          /\ reader' = [at |-> "check", cb |-> 0]
          /\ UNCHANGED pipe
    /\ UNCHANGED <<vm, runs, capture, captureRunning, serialVars, callbackVars, ui>>

-----------------------------------------------------------------------------
(***************************************************************************)
(* The serial bridge.  It holds g_serial_mtx while it connects, fetches    *)
(* and closes; after it has lost a connection it also reports that under   *)
(* the lock.                                                               *)
(***************************************************************************)
BridgeLocks == bridge.at \in {"lost", "lostCall"}

SerialCloseLocked ==
    /\ owner' = [fd \in Fds |-> IF fd = serialFd THEN "free" ELSE owner[fd]]
    /\ serialFd' = NoFd /\ peer' = 0

(* The lowest number that is free, as the kernel gives it.                 *)
LowestFree(fd) == owner[fd] = "free" /\ \A other \in Fds : owner[other] = "free" => fd <= other

SerialTryConnectLocked ==
    IF serialFd = NoFd /\ vm = "serving"
    THEN \E fd \in Fds : /\ LowestFree(fd)
                         /\ serialFd' = fd
                         /\ owner' = [owner EXCEPT ![fd] = "bridge"]
                         /\ peer' = runs
    ELSE UNCHANGED <<serialFd, owner, peer>>

PeerAlive == peer = runs /\ vm = "serving"

(* What recv answers on the number fetched before, whoever has it by now.  *)
(* SO_RCVTIMEO makes it return after 200 ms without data.                  *)
RecvAnswers(fd) ==
    CASE owner[fd] = "free" -> {"error"}
      [] owner[fd] = "other" -> {"data", "timeout", "error"}
      [] OTHER -> IF PeerAlive THEN {"data", "timeout"} ELSE {"error"}

(* What the thread fetched before is only kept for the call it makes next. *)
BridgeGoes(from, to) == bridge.at = from /\ bridge' = [at |-> to, fd |-> NoFd, cb |-> 0]

(* SerialEmitToJs looks at the callback twice.                             *)
SerialEmitToJs(from, calls) ==
    /\ bridge.at = from
    /\ bridge' = [at |-> IF callback = 0 THEN "check" ELSE calls, fd |-> NoFd, cb |-> callback]

(* Mutant: a connection that was lost is not closed.                       *)
KeepsConnection == UNCHANGED <<serialFd, owner, peer>>

DropsConnection == SerialCloseLocked

SerialBridgeThread ==
    /\ \/ /\ SerialEmitToJs("hello", "call") \/ SerialEmitToJs("emit", "call") \/ SerialEmitToJs("lost", "lostCall")
          /\ UNCHANGED <<serialFd, peer, owner>>
       \/ /\ BridgeGoes("call", "check") \/ BridgeGoes("lostCall", "check")
          /\ UNCHANGED <<serialFd, peer, owner>>
       \/ /\ BridgeGoes("check", IF serialRunning THEN "connect" ELSE "leave")
          /\ UNCHANGED <<serialFd, peer, owner>>
       \/ BridgeGoes("connect", "fetch") /\ SerialTryConnectLocked
       \/ /\ bridge.at = "fetch"
          /\ bridge' = [at |-> IF serialFd = NoFd THEN "check" ELSE "recv", fd |-> serialFd, cb |-> 0]
          /\ UNCHANGED <<serialFd, peer, owner>>
       \/ /\ bridge.at = "recv"
          /\ \E answer \in RecvAnswers(bridge.fd) :
               BridgeGoes("recv", CASE answer = "data" -> "emit" [] answer = "timeout" -> "check" [] OTHER -> "drop")
          /\ UNCHANGED <<serialFd, peer, owner>>
       \/ BridgeGoes("drop", "lost") /\ DropsConnection
       \/ BridgeGoes("leave", "done") /\ SerialCloseLocked
    /\ UNCHANGED <<captureVars, serialRunning, callbackVars, ui>>

(* Another part of the process opens or closes a descriptor.               *)
OthersOpen ==
    /\ \A fd \in Fds : owner[fd] # "other"
    /\ \E fd \in Fds : LowestFree(fd) /\ owner' = [owner EXCEPT ![fd] = "other"]
    /\ UNCHANGED <<captureVars, serialRunning, serialFd, bridge, peer, callbackVars, ui>>

OthersClose ==
    /\ \E fd \in Fds : owner[fd] = "other" /\ owner' = [owner EXCEPT ![fd] = "free"]
    /\ UNCHANGED <<captureVars, serialRunning, serialFd, bridge, peer, callbackVars, ui>>

-----------------------------------------------------------------------------
(***************************************************************************)
(* The UI thread.                                                          *)
(***************************************************************************)
(* What is typed goes to the guest's port; a send that fails closes the    *)
(* connection, and the text goes to stdin, which nobody reads.  It looks   *)
(* for the capture first, which may be on its way out by now.              *)
WriteToVmConsole ==
    /\ ui = "idle" /\ capture # "none"
    /\ ~BridgeLocks
    /\ serialFd # NoFd
    /\ SerialCloseLocked
    /\ UNCHANGED <<captureVars, serialRunning, bridge, callbackVars, ui>>

(* SetConsoleCallback, up to its calls of SerialStop and release.          *)
SetConsoleCallback ==
    /\ ui = "idle"
    /\ \E k \in Callbacks : tsfn[k] = "none"
    /\ ui' = IF callback = 0 THEN "create" ELSE IF serialRunning THEN "close" ELSE "release"
    /\ serialRunning' = (serialRunning /\ callback = 0)
    /\ UNCHANGED <<captureVars, serialFd, bridge, peer, owner, callbackVars>>

SerialStopCloses ==
    /\ ui = "close" /\ ~BridgeLocks
    /\ SerialCloseLocked
    /\ ui' = "join"
    /\ UNCHANGED <<captureVars, serialRunning, bridge, callbackVars>>

(* Mutant: the old thread is not waited for.                               *)
SerialLeft == TRUE

SerialJoined == bridge.at = "done"

SerialStopJoins ==
    /\ ui = "join" /\ SerialJoined
    /\ ui' = "release"
    /\ UNCHANGED <<captureVars, serialVars, callbackVars>>

ReleasesCallback ==
    /\ ui = "release"
    /\ tsfn' = [k \in Callbacks |-> IF k = callback /\ tsfn[k] = "open" THEN "replaced" ELSE tsfn[k]]
    /\ ui' = "create"
    /\ UNCHANGED <<captureVars, serialVars, callback>>

CreatesCallback ==
    /\ ui = "create"
    /\ \E k \in Callbacks : /\ tsfn[k] = "none" /\ \A j \in Callbacks : j < k => tsfn[j] # "none"
                            /\ tsfn' = [tsfn EXCEPT ![k] = "open"]
                            /\ callback' = k
    /\ ui' = "start"
    /\ UNCHANGED <<captureVars, serialVars>>

SerialStart ==
    /\ ui = "start"
    /\ ui' = "idle"
    /\ serialRunning' = TRUE
    /\ bridge' = IF serialRunning THEN bridge ELSE [at |-> "hello", fd |-> NoFd, cb |-> 0]
    /\ UNCHANGED <<captureVars, serialFd, peer, owner, callbackVars>>

UiProceeds == SerialStopCloses \/ SerialStopJoins \/ ReleasesCallback \/ CreatesCallback \/ SerialStart

Next ==
    \/ RunStarts \/ CoreListens \/ CoreWrites \/ CoreEnds
    \/ CaptureDestroyed \/ ReadThread
    \/ SerialBridgeThread \/ OthersOpen \/ OthersClose
    \/ WriteToVmConsole \/ SetConsoleCallback \/ UiProceeds

Spec == Init /\ [][Next]_vars

(* The threads are scheduled; nothing obliges the guest, the core or the   *)
(* user to do anything.  The UI needs a lock that the bridge takes again   *)
(* and again: it is fair to those who wait.                                *)
FairSpec ==
    /\ Spec
    /\ WF_vars(CaptureDestroyed) /\ WF_vars(ReadThread) /\ WF_vars(SerialBridgeThread)
    /\ WF_vars(UiProceeds) /\ SF_vars(SerialStopCloses)

-----------------------------------------------------------------------------
TypeOK ==
    /\ vm \in {"off", "init", "serving", "ending"} /\ runs \in 0 .. MaxRuns /\ peer \in 0 .. runs
    /\ capture \in {"none", "open", "stopping", "join", "release", "reset", "gone"}
    /\ reader \in [at : {"check", "read", "emit", "call", "done"}, cb : Callbacks \cup {0}]
    /\ pipe \in 0 .. PipeSize /\ {captureRunning, serialRunning} \subseteq BOOLEAN
    /\ callback \in Callbacks \cup {0}
    /\ tsfn \in [Callbacks -> {"none", "open", "replaced", "ended"}]
    /\ serialFd \in Fds \cup {NoFd} /\ owner \in [Fds -> {"free", "bridge", "other"}]
    /\ bridge \in [at : {"hello", "emit", "lost", "call", "lostCall", "check", "connect", "fetch",
                         "recv", "drop", "leave", "done"},
                   fd : Fds \cup {NoFd}, cb : Callbacks \cup {0}]
    /\ ui \in {"idle", "close", "join", "release", "create", "start"}

(* The bridge touches nothing that was given up.  Its number is its own:    *)
(* what is typed is never sent to a descriptor of another part of the       *)
(* process, and none is closed that was closed before and given away again. *)
(* And it never calls a callback that SetConsoleCallback has released:      *)
(* SerialStop is there so that "the old callback receives nothing more".    *)
(* Those that the end of a run releases are not promised to it.             *)
BridgeOwns ==
    /\ TypeOK
    /\ serialFd # NoFd => owner[serialFd] = "bridge"
    /\ bridge.at \in {"call", "lostCall"} => tsfn[bridge.cb] # "replaced"

(* Neither join is for ever: the UI thread gets the bridge's thread back,  *)
(* and the runner the reader, or the run would never be reported as ended. *)
JoinsReturn ==
    /\ ui = "join" ~> ui # "join"
    /\ capture = "join" ~> capture # "join"

(* A bridge that runs finds the serial port of the run, and after that of  *)
(* the next run, whatever became of its connections.                       *)
BridgeConnects ==
    vm = "serving" /\ serialRunning ~>
      (serialFd # NoFd /\ PeerAlive) \/ vm # "serving" \/ ~serialRunning

=============================================================================
