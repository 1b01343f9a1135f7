-------------------------- MODULE MicrophoneWindows --------------------------
(***************************************************************************)
(* MicrophoneWindows.ets: the windows of the application, what is known    *)
(* about the visibility of each, and the one handoff between two of them.  *)
(* The operators work on the record s that holds the whole microphone      *)
(* policy of the application; its fields are listed in MicrophoneManager.  *)
(***************************************************************************)
EXTENDS MicrophoneSession

CONSTANTS Windows,  (* window instances                                      *)
          Entry,    (* the one of EntryAbility; the others are viewers       *)
          NoWindow, (* the id 0                                              *)
          Signals   (* the independent signals a window needs to be visible: *)
                    (* "attached", "ready", "page", "foreground", "shown",   *)
                    (* "visibility" and the snapshot "showing"               *)

ASSUME WindowAssumption == Entry \in Windows /\ NoWindow \notin Windows

(* Assumed until an event says otherwise.                                   *)
UpAtFirst == Signals \cap {"page", "shown", "showing"}

(* Never taken back.                                                        *)
UpForGood == Signals \cap {"attached", "ready"}

Closed == [open |-> FALSE, vm |-> NoVm, session |-> 0, up |-> {}]

NoHandoff == [source |-> NoWindow, target |-> NoWindow, vm |-> NoVm, session |-> 0]

CancelHandoff(s) == [s EXCEPT !.handoff = NoHandoff]

(* carries: the window was launched with the id and kind of the handoff.    *)
Register(s, w, vm, session, carries) ==
  LET fresh == [open |-> TRUE, vm |-> vm, session |-> session, up |-> UpAtFirst]
      bound == /\ carries
               /\ s.handoff # NoHandoff
               /\ s.handoff.target = NoWindow
               /\ s.handoff.vm = vm
               /\ s.handoff.session = session
  IN  [s EXCEPT !.windows[w] = fresh,
                !.handoff.target = IF bound THEN w ELSE @]

BindEntry(s, w, vm, session) ==
  IF w = Entry THEN [s EXCEPT !.windows[w].vm = vm, !.windows[w].session = session] ELSE s

Signal(s, w, signal, value) ==
  [s EXCEPT !.windows[w].up = IF value THEN @ \cup {signal} ELSE @ \ {signal}]

InHandoff(s, w) == s.handoff # NoHandoff /\ w \in {s.handoff.source, s.handoff.target}

RemoveWindow(s, w) ==
  LET t == [s EXCEPT !.windows[w] = Closed]
  IN  IF InHandoff(s, w) THEN CancelHandoff(t) ELSE t

(* guardsReady of the windows is always guardsReady of the manager without  *)
(* a blocked screen.                                                        *)
SafeSession(s, vm, session) ==
  /\ s.appForeground
  /\ s.guardsReady
  /\ ~s.screenBlocked
  /\ session > 0
  /\ SessionOf(s.mic, vm) = session

HasHandoff(s, vm, session) ==
  /\ s.handoff # NoHandoff
  /\ s.handoff.vm = vm
  /\ s.handoff.session = session
  /\ SafeSession(s, vm, session)

Visible(s, w, vm, session) ==
  /\ w \in Windows
  /\ s.windows[w].open
  /\ SafeSession(s, vm, session)
  /\ s.windows[w].up = Signals
  /\ s.windows[w].vm = vm
  /\ s.windows[w].session = session

AnyVisible(s, vm, session) == \E w \in Windows : Visible(s, w, vm, session)

BeginHandoff(s, source, vm, session) ==
  IF Visible(s, source, vm, session)
  THEN [s EXCEPT !.handoff = [source |-> source, target |-> NoWindow, vm |-> vm,
                              session |-> session]]
  ELSE CancelHandoff(s)

(* Mutant: any visible window of the session completes the handoff.         *)
MayCompleteAnywhere(s, vm, session) ==
  HasHandoff(s, vm, session) /\ AnyVisible(s, vm, session)

MayCompleteHandoff(s, vm, session) ==
  HasHandoff(s, vm, session) /\ Visible(s, s.handoff.target, vm, session)
=============================================================================
