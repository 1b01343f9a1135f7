------------------------------ MODULE VncRender ------------------------------
(***************************************************************************)
(* VncSession with what draws: the surface that the UI asks for, the frames *)
(* that the workers of the connections deliver, and the render threads that *)
(* bring one to the other.  A clean-up stops, joins and resets these too.   *)
(*                                                                         *)
(* A render thread wakes every 50 ms by itself, so its condition variable   *)
(* has no part in the model; a turn that finds nothing to do is left out.   *)
(***************************************************************************)
EXTENDS VncSession

CONSTANTS
  MaxSurfaces,  (* bound on vncSetSurface: every call brings a new surface   *)
  MaxFrames,    (* bound on the frames of all connections                    *)
  MaxCalls      (* bound on requests and vncSetSurface together              *)

ASSUME RenderAssumption ==
  MaxSurfaces \in Nat \ {0} /\ MaxFrames \in Nat /\ MaxCalls \in Nat

VARIABLES
  surfaces, pending, surfaceDirty,  (* surfaces so far; the one asked for    *)
  frames, fb, frameDirty,           (* frames so far; the one in fb_bgra     *)
  renderRunning, renderHandle,      (* s->render_running, s->render_worker   *)
  render,                           (* the render threads                    *)
  takes,                            (* the render thread a clean-up took     *)
  setting,                          (* vncSetSurface is about to look for a  *)
                                    (* render thread                         *)
  overlapped                        (* history: a surface was set while a    *)
                                    (* clean-up went on                      *)

surfaceVars == <<surfaces, pending, surfaceDirty, setting, overlapped>>
frameVars == <<frames, fb, frameDirty>>
renderVars == <<surfaceVars, frameVars, renderRunning, renderHandle, render, takes>>
allVars == <<vars, renderVars>>

Surfaces == 1 .. MaxSurfaces
NoRender == [at |-> "none", window |-> 0, copy |-> 0, shown |-> 0]

RenderInit ==
  /\ Init
  /\ surfaces = 0 /\ pending = 0 /\ surfaceDirty = FALSE
  /\ frames = 0 /\ fb = 0 /\ frameDirty = FALSE
  /\ renderRunning = FALSE /\ renderHandle = 0
  /\ render = [r \in Surfaces |-> NoRender]
  /\ takes = [n \in Requests |-> 0]
  /\ setting = FALSE /\ overlapped = FALSE

-----------------------------------------------------------------------------
(* The UI thread.                                                          *)
CleanUpGoesOn == \E n \in Requests : thread[n].pc \in {"clean", "join"}

SetSurface ==
  /\ ui = "idle" /\ ~setting
  /\ surfaces < MaxSurfaces /\ requests + surfaces < MaxCalls
  /\ surfaces' = surfaces + 1
  /\ pending' = surfaces'
  /\ surfaceDirty' = TRUE
  /\ setting' = TRUE
  /\ overlapped' = (overlapped \/ CleanUpGoesOn)
  /\ UNCHANGED <<vars, frameVars, renderRunning, renderHandle, render, takes>>

(* Assigning over a joinable std::thread would end the process: the old     *)
(* thread would be neither the session's nor anybody's to join.             *)
StartsRender ==
  /\ setting
  /\ setting' = FALSE
  /\ renderRunning' = TRUE
  /\ IF renderRunning
     THEN UNCHANGED <<renderHandle, render>>
     ELSE /\ renderHandle' = surfaces
          /\ render' = [render EXCEPT ![surfaces].at = "spawned"]
  /\ UNCHANGED <<vars, surfaces, pending, surfaceDirty, overlapped, frameVars, takes>>

ClearSurface ==
  /\ ui = "idle" /\ ~setting
  /\ pending # 0
  /\ pending' = 0
  /\ surfaceDirty' = TRUE
  /\ UNCHANGED <<vars, surfaces, setting, overlapped, frameVars, renderRunning,
                 renderHandle, render, takes>>

-----------------------------------------------------------------------------
(* A worker's callback in HandleRFBServerMessage.                          *)
VncGotUpdate(n) ==
  /\ worker[n].pc = "loop"
  /\ frames < MaxFrames
  /\ frames' = frames + 1
  /\ fb' = frames'
  /\ frameDirty' = TRUE
  /\ UNCHANGED <<vars, surfaceVars, renderRunning, renderHandle, render, takes>>

-----------------------------------------------------------------------------
(* VncRenderWorker.  What it fetches it fetches after it has cleared the    *)
(* flag, so that what changes meanwhile is fetched again.                   *)
Goes(r, from, to) == render[r].at = from /\ render' = [render EXCEPT ![r].at = to]

RenderBegins(r) ==
  /\ Goes(r, "spawned", "wait")
  /\ renderRunning' = TRUE
  /\ UNCHANGED <<surfaceVars, frameVars>>

RenderLooks(r) ==
  /\ ~renderRunning \/ surfaceDirty \/ frameDirty
  /\ Goes(r, "wait", IF renderRunning THEN "surface" ELSE "ending")
  /\ UNCHANGED <<surfaceVars, frameVars, renderRunning>>

RenderSeesSurface(r) ==
  /\ Goes(r, "surface", IF surfaceDirty THEN "fetch" ELSE "frame")
  /\ surfaceDirty' = FALSE
  /\ UNCHANGED <<surfaces, pending, setting, overlapped, frameVars, renderRunning>>

(* The surface asked for is read under its lock, the window made without.   *)
RenderFetches(r) ==
  /\ render[r].at = "fetch"
  /\ render' = [render EXCEPT ![r] =
       [at |-> "bind", window |-> 0, copy |-> pending, shown |-> render[r].shown]]
  /\ UNCHANGED <<surfaceVars, frameVars, renderRunning>>

RenderBinds(r) ==
  /\ render[r].at = "bind"
  /\ \E window \in {0, render[r].copy} :
       render' = [render EXCEPT ![r] = [at |-> "frame", window |-> window, copy |-> 0, shown |-> 0]]
  /\ UNCHANGED <<surfaceVars, frameVars, renderRunning>>

(* Mutant: the flag is cleared only after the frame was copied.             *)
ClearsFrameAtFlush(at) == frameDirty' = (at # "flush" /\ frameDirty)

ClearsFrameFirst(at) == frameDirty' = (at # "frame" /\ frameDirty)

(* Without a window the frame is dropped.                                   *)
RenderSeesFrame(r) ==
  /\ Goes(r, "frame", IF frameDirty /\ render[r].window # 0 THEN "copy" ELSE "wait")
  /\ ClearsFrameFirst("frame")
  /\ UNCHANGED <<surfaceVars, frames, fb, renderRunning>>

RenderCopies(r) ==
  /\ render[r].at = "copy"
  /\ render' = [render EXCEPT ![r] =
       [at |-> IF fb = 0 THEN "wait" ELSE "flush", window |-> render[r].window,
        copy |-> fb, shown |-> render[r].shown]]
  /\ UNCHANGED <<surfaceVars, frameVars, renderRunning>>

(* The buffer is flushed, or given back, or the surface is let go; a frame  *)
(* that was not flushed is not tried again.                                 *)
RenderFlushes(r) ==
  /\ render[r].at = "flush"
  /\ \/ render' = [render EXCEPT ![r] =
          [at |-> "wait", window |-> render[r].window, copy |-> 0, shown |-> render[r].copy]]
     \/ \E window \in {0, render[r].window} :
          render' = [render EXCEPT ![r] = [at |-> "wait", window |-> window, copy |-> 0, shown |-> 0]]
  /\ ClearsFrameFirst("flush")
  /\ UNCHANGED <<surfaceVars, frames, fb, renderRunning>>

RenderEnds(r) ==
  /\ render[r].at = "ending"
  /\ render' = [render EXCEPT ![r] = [NoRender EXCEPT !.at = "done"]]
  /\ renderRunning' = FALSE
  /\ UNCHANGED <<surfaceVars, frameVars>>

VncRenderWorker(r) ==
  /\ \/ RenderBegins(r) \/ RenderLooks(r)
     \/ RenderSeesSurface(r) \/ RenderFetches(r) \/ RenderBinds(r)
     \/ RenderSeesFrame(r) \/ RenderCopies(r) \/ RenderFlushes(r)
     \/ RenderEnds(r)
  /\ UNCHANGED <<vars, renderHandle, takes>>

-----------------------------------------------------------------------------
(* The clean-up, beside what VncSession has of it.                         *)
TakenRender == renderHandle

StopsRender(n) ==
  /\ Cleans(n)
  /\ renderRunning' = FALSE
  /\ takes' = [takes EXCEPT ![n] = TakenRender]
  /\ renderHandle' = 0
  /\ UNCHANGED <<surfaceVars, frameVars, render>>

RenderJoined(n) == takes[n] # 0 => render[takes[n]].at = "done"

ResetsSurface(n) ==
  /\ JoinsAndFrees(n)
  /\ RenderJoined(n)
  /\ pending' = 0 /\ surfaceDirty' = FALSE
  /\ fb' = 0 /\ frameDirty' = FALSE
  /\ takes' = [takes EXCEPT ![n] = 0]
  /\ UNCHANGED <<surfaces, setting, overlapped, frames, renderRunning, renderHandle, render>>

Requested ==
  /\ ~setting
  /\ requests + surfaces < MaxCalls
  /\ ConnectLooks \/ ConnectAlready \/ ConnectStarts \/ Disconnect
  /\ UNCHANGED renderVars

DetachedThread(n) ==
  \/ StopsRender(n) \/ ResetsSurface(n)
  \/ (ChecksBefore(n) \/ HandshakeEnds(n) \/ Installs(n) \/ Leaves(n)) /\ UNCHANGED renderVars

VncWorker(n) == Working(n) /\ UNCHANGED renderVars

Scheduled ==
  \/ \E n \in Requests : DetachedThread(n) \/ VncWorker(n)
  \/ \E r \in Surfaces : VncRenderWorker(r)

RenderNext ==
  \/ Requested \/ SetSurface \/ StartsRender \/ ClearSurface
  \/ Scheduled
  \/ \E n \in Requests : VncGotUpdate(n) \/ (WorkerLosesServer(n) /\ UNCHANGED renderVars)

RenderSpec == RenderInit /\ [][RenderNext]_allVars

-----------------------------------------------------------------------------
RenderRecords ==
  [at : {"none", "spawned", "wait", "surface", "fetch", "bind", "frame", "copy", "flush",
         "ending", "done"},
   window : 0 .. surfaces, copy : 0 .. MaxSurfaces + MaxFrames, shown : 0 .. frames]

RenderTypeOK ==
  /\ TypeOK
  /\ surfaces \in 0 .. MaxSurfaces /\ pending \in 0 .. surfaces /\ renderHandle \in 0 .. surfaces
  /\ frames \in 0 .. MaxFrames /\ fb \in 0 .. frames
  /\ {surfaceDirty, frameDirty, renderRunning, setting, overlapped} \subseteq BOOLEAN
  /\ render \in [Surfaces -> RenderRecords]
  /\ takes \in [Requests -> 0 .. surfaces]

(* The session's std::thread is never assigned over while it can be joined, *)
(* which would end the process: a thread object that "the lifecycle lock    *)
(* protects" (VncSetSurface).                                               *)
RenderWorkerKept == setting /\ ~renderRunning => renderHandle = 0

(* No thread and no client of the session is lost or used after its end:    *)
(* those of VncSession, whatever is drawn.  And as long as vncSetSurface    *)
(* was never called between a request and the end of its clean-up, which    *)
(* the code does not prevent: a render thread is the session's or           *)
(* somebody's to join and is not assigned over, and there is never a second *)
(* one to draw, so that no window is used by two threads.                   *)
SessionKept ==
  /\ RenderTypeOK /\ WorkersKept /\ ClientAlive
  /\ ~overlapped =>
       /\ RenderWorkerKept
       /\ \A r \in Surfaces : render[r].at \notin {"none", "done"} =>
            r = renderHandle \/ \E n \in Requests : takes[n] = r
       /\ \A r, q \in Surfaces : render[r].window # 0 /\ render[q].window # 0 => r = q

(* As long as no surface was set during a clean-up: the session's render    *)
(* thread draws to the surface that the UI asked for last, or to none, or   *)
(* the change is still marked; and what it has drawn is the last frame, or  *)
(* a newer one is still marked.  A frame whose buffer failed leaves the     *)
(* picture as it was (shown = 0).                                           *)
PictureCurrent ==
  ~overlapped =>
  \A r \in Surfaces :
    r = renderHandle /\ renderRunning =>
      /\ ~surfaceDirty /\ render[r].at \in {"wait", "surface", "frame", "copy", "flush"} =>
           render[r].window \in {0, pending}
      /\ ~frameDirty /\ render[r].at \in {"wait", "surface"}
           /\ render[r].window # 0 /\ render[r].shown # 0 =>
           render[r].shown = fb

(* Clean-ups end: whenever no thread can go on by itself, every attempt and *)
(* every disconnect is through, "in the background" (VncDisconnect), unless *)
(* a thread it joins was scheduled so late that it undid the stop: workers  *)
(* and render threads set their flag themselves.                            *)
RenderStopUndone(n) ==
  thread[n].pc = "join" /\ takes[n] # 0 /\ renderRunning /\ render[takes[n]].at # "done"

CleanUpsEnd ==
  ENABLED Scheduled \/
    \A n \in Requests : \/ thread[n].pc \in {"none", "done"}
                        \/ StopUndone(n) \/ RenderStopUndone(n)
=============================================================================
