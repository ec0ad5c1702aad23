-------------------------------- MODULE App --------------------------------
(***************************************************************************)
(* The session host of app.go: the App struct with every handler that      *)
(* changes it, the container window and its posted messages, the embedded  *)
(* Remote Desktop control with the events it raises, and the user.         *)
(*                                                                         *)
(* Everything in the program runs on one thread.  What interleaves is the  *)
(* order in which that thread meets the window messages, the messages the  *)
(* program posted to itself, and the events the control has queued, while  *)
(* the control and the server move on by themselves.  A handler is a       *)
(* function from the world it finds to the world it leaves, so that one    *)
(* handler can call another the way the code does; an action is the        *)
(* arrival of one message, event or gesture.                               *)
(*                                                                         *)
(* An extent stands for a width and a height together: the code compares,  *)
(* rounds and bounds both in the same way.  Left out: focus, activation,   *)
(* titles, the wording of the outcome, the control's rectangle, and the    *)
(* events that change nothing.                                             *)
(*                                                                         *)
(* An operator whose comment starts with "Mutant" is no part of the model: *)
(* it is the wrong version of the definition that follows it, by which a   *)
(* property is shown to notice.                                            *)
(***************************************************************************)
EXTENDS Sequences, Geometry

CONSTANTS
  Sinks,          \* do events reach the program: "advised" or "none"
  NameTables,     \* the event names an advised sink may have been able to read
  Revisions,      \* what the control can do to a live session, see Accepts
  EarlyModes,     \* BOOLEANs: does it honour FullScreen before connecting?
  FullScreen,     \* Config.FullScreen
  DynamicResize,  \* Config.DynamicResize
  Scale,          \* Config.Scale
  DeviceScale,    \* Config.DeviceScale
  Extent,         \* Config.Width and Config.Height, or extentAuto
  Screen,         \* the extent of the primary screen
  MaximisedExtent,\* the client extent of the maximised window
  Extents,        \* the client extents a drag or a DPI change may leave
  ServerExtents,  \* the extents a server may impose
  Dpis,           \* the DPIs of the monitors
  Gestures,       \* the window gestures the user has
  EarlyGestures,  \* BOOLEAN: may gestures come before the session is up?
  Budgets         \* the ways to say how often each kind of outside step may happen

Kinds == {"close", "gesture", "dpi", "toggle", "resize", "retry", "logonError",
          "fatal", "minimise"}

SinkModes    == {"advised", "none"}
RevisionKind == {"scaled", "unscaled", "reconnect", "fixed"}
GestureKinds == {"drag", "maximise", "restore", "minimise"}

EventNames ==
  {"OnConnecting", "OnConnected", "OnLoginComplete", "OnDisconnected",
   "OnFatalError", "OnLogonError", "OnAutoReconnecting", "OnAutoReconnected",
   "OnEnterFullScreenMode", "OnLeaveFullScreenMode",
   "OnRequestContainerMinimize", "OnRemoteDesktopSizeChange"}

ASSUME ConstantsAssumption ==
  /\ Sinks \subseteq SinkModes
  /\ NameTables \subseteq SUBSET EventNames
  /\ Revisions \subseteq RevisionKind
  /\ EarlyModes \subseteq BOOLEAN
  /\ {FullScreen, DynamicResize, EarlyGestures} \subseteq BOOLEAN
  /\ ValidScale(Scale) /\ Scale \in Int
  /\ ValidDevice(DeviceScale) /\ DeviceScale \in Int
  /\ ValidExtent(Extent) /\ Extent \in Int
  /\ Screen \in Int /\ (Screen <= 0 \/ Screen >= MinExtent)
  /\ MaximisedExtent \in Nat
  /\ Extents \subseteq Nat
  /\ ServerExtents \subseteq {n \in Nat : n >= MinExtent}
  /\ Dpis \subseteq Nat
  /\ Gestures \subseteq GestureKinds
  /\ Budgets \subseteq [Kinds -> Nat]

VARIABLES
  pc,      \* where App.Run is
  app,     \* the App struct
  win,     \* the container window
  posted,  \* the messages the program posted to its window, in order
  ctl,     \* the control, and the session it has with the server
  budget   \* what is left of the budget chosen

vars == <<pc, app, win, posted, ctl, budget>>

Phases == {"configure", "show", "connect", "loop", "done"}
Links  == {"idle", "connecting", "up", "retry", "leaving", "down"}
Shows  == {"hidden", "normal", "max", "min", "gone"}

\* Reasons a session ends: 0 stands for "none given" (app.go, line 583).
NormalReason == 1
ErrorReason  == 2
Reasons      == {0, NormalReason, ErrorReason}

PostedMessages == {"wmRDPConnected", "wmRDPDisconnected"}

Factors == [desktop : Nat, device : Nat]
Events  == [name : EventNames, arg : Nat]

AppStates ==
  [sink : SinkModes, names : SUBSET EventNames,
   connected : BOOLEAN, everConnected : BOOLEAN, loginComplete : BOOLEAN,
   fullScreen : BOOLEAN, scaleApplied : BOOLEAN, disconnectSeen : BOOLEAN,
   logonError : BOOLEAN, fatalError : BOOLEAN, closing : BOOLEAN, discReason : Nat, pendingResize : BOOLEAN,
   session : Nat, resizeWarned : BOOLEAN, exitCode : 0..2]

WindowStates == [show : Shows, normal : Nat, dpi : Nat, moving : BOOLEAN,
                 quit : BOOLEAN]

ControlStates ==
  [advised : BOOLEAN, revision : RevisionKind, early : BOOLEAN, link : Links,
   full : BOOLEAN, desk : Nat, scale : Factors, everUp : BOOLEAN,
   loggedIn : BOOLEAN, refused : BOOLEAN, reason : Reasons,
   events : Seq(Events)]

Worlds == [app : AppStates, win : WindowStates, ctl : ControlStates,
           posted : Seq(PostedMessages)]

TypeOK ==
  /\ pc \in Phases
  /\ app \in AppStates
  /\ win \in WindowStates
  /\ ctl \in ControlStates
  /\ posted \in Seq(PostedMessages)
  /\ budget \in [Kinds -> Nat]

-----------------------------------------------------------------------------
(* The control, modelled from how control.go calls it.                     *)

\* The control queues an event for an advised sink; nobody else hears of it.
Raise(c, name, arg) ==
  IF c.advised
  THEN [c EXCEPT !.events = Append(@, [name |-> name, arg |-> arg])]
  ELSE c

\* The remote desktop takes a size; a changed size is announced.
Resized(c, extent, factors) ==
  LET d == [c EXCEPT !.desk = extent, !.scale = factors]
  IN  IF extent = c.desk THEN d
                         ELSE Raise(d, "OnRemoteDesktopSizeChange", extent)

\* Whether the control takes these display settings: only for a live session.
Accepts(c, factors) ==
  /\ c.link = "up"
  /\ \/ c.revision = "scaled"
     \/ c.revision = "unscaled" /\ factors = Unscaled

EnterFullScreen(c) ==
  IF c.full THEN c
            ELSE Raise([c EXCEPT !.full = TRUE], "OnEnterFullScreenMode", 0)

\* The Connected property: 0 no session, 1 a session, 2 being established.
ConnectedState(c) ==
  CASE c.link \in {"idle", "down"} -> 0
    [] c.link = "connecting"       -> 2
    [] OTHER                       -> 1

-----------------------------------------------------------------------------
(* Calls into the control (control.go).                                    *)

\* Mutant: the outcome of the retry without scaling is not looked at.
UpdateSessionDisplaySettingsUnchecked(c, extent, factors) ==
  [ok  |-> TRUE,
   ctl |-> IF Accepts(c, factors) THEN Resized(c, extent, factors) ELSE c]

\* Rejected scale factors cost the scaling, not the resize.
UpdateSessionDisplaySettings(c, extent, factors) ==
  CASE Accepts(c, factors) ->
         [ok |-> TRUE, ctl |-> Resized(c, extent, factors)]
    [] ~Accepts(c, factors) /\ factors # Unscaled /\ Accepts(c, Unscaled) ->
         [ok |-> TRUE, ctl |-> Resized(c, extent, Unscaled)]
    [] OTHER ->
         [ok |-> FALSE, ctl |-> c]

Reconnect(c, extent) ==
  IF c.link = "up" /\ c.revision = "reconnect"
  THEN [ok |-> TRUE, ctl |-> Resized(c, extent, c.scale)]
  ELSE [ok |-> FALSE, ctl |-> c]

Disconnect(c) ==
  IF c.link \in {"up", "retry"} THEN [c EXCEPT !.link = "leaving"] ELSE c

-----------------------------------------------------------------------------
(* The window.                                                             *)

ClientExtent(w) ==
  CASE w.show \in {"hidden", "normal"} -> w.normal
    [] w.show = "max"                  -> MaximisedExtent
    [] OTHER                           -> 0

\* A message posted to a window that is gone is dropped.
PostMessage(s, msg) ==
  IF s.win.show = "gone" THEN s ELSE [s EXCEPT !.posted = Append(@, msg)]

\* Mutant: WM_DESTROY is left to the default procedure.
DestroyWindowQuietly(s) ==
  [s EXCEPT !.posted = << >>, !.win.show = "gone", !.win.moving = FALSE]

\* DestroyWindow runs WM_DESTROY, which posts the quit message, and takes the
\* window's own messages with it.
DestroyWindow(s) ==
  [s EXCEPT !.posted = << >>,
            !.win.show = "gone", !.win.moving = FALSE, !.win.quit = TRUE]

-----------------------------------------------------------------------------
(* Display handlers.                                                       *)

\* Mutant: the DPI of the system, not of the window's monitor.
FactorsOfTheSystem(s) == scaleFactors(Scale, DeviceScale, 96)

FactorsFor(s) == scaleFactors(Scale, DeviceScale, s.win.dpi)

\* applyScale: once per scale, for a session that is up.
ApplyScale(s) ==
  LET f   == FactorsFor(s)
      r   == UpdateSessionDisplaySettings(s.ctl, s.app.session, f)
      due == ~s.app.scaleApplied /\ s.app.connected
      settled == [s EXCEPT !.app.scaleApplied = TRUE]
  IN  CASE due /\ f = Unscaled -> settled
        [] due /\ f # Unscaled /\ s.app.session >= MinExtent ->
             [settled EXCEPT !.ctl = r.ctl]
        [] OTHER -> s

\* applyDynamicResize: the pending resize is consumed whatever becomes of it.
ApplyDynamicResize(s) ==
  LET e        == Even(ClientExtent(s.win))
      update   == UpdateSessionDisplaySettings(s.ctl, e, FactorsFor(s))
      redo     == Reconnect(s.ctl, e)
      consumed == [s EXCEPT !.app.pendingResize = FALSE]
      wanted   == /\ DynamicResize /\ s.app.connected /\ ~s.app.fullScreen
                  /\ e >= MinExtent /\ e # s.app.session
  IN  CASE ~s.app.pendingResize -> s
        [] s.app.pendingResize /\ ~wanted -> consumed
        [] s.app.pendingResize /\ wanted /\ update.ok ->
             [consumed EXCEPT !.app.session = e, !.ctl = update.ctl]
        [] s.app.pendingResize /\ wanted /\ ~update.ok /\ redo.ok ->
             [consumed EXCEPT !.app.session = e, !.ctl = redo.ctl]
        [] OTHER ->
             [consumed EXCEPT !.app.resizeWarned = TRUE]

\* WM_SIZE, with the window already in its new place.
WmSize(s, how) ==
  LET marked == [s EXCEPT !.app.pendingResize = TRUE]
  IN  CASE how = "minimized" -> s
        [] how = "maximized" -> ApplyDynamicResize(marked)
        [] how = "restored"  -> marked

\* WM_DPICHANGED: the suggested rectangle, then the size, then the scale.
WmDpiChanged(s, dpi, extent) ==
  LET placed == [s EXCEPT !.win.dpi = dpi,
                  !.win.normal = IF s.win.show = "normal" THEN extent ELSE @]
      sized  == CASE s.win.show = "normal" /\ extent # s.win.normal ->
                       WmSize(placed, "restored")
                  [] OTHER -> placed
      marked == [sized EXCEPT !.app.pendingResize = TRUE,
                              !.app.scaleApplied = FALSE]
  IN  ApplyScale(ApplyDynamicResize(marked))

-----------------------------------------------------------------------------
(* Lifecycle handlers.                                                     *)

\* Mutant: the window is not told.
HandleDisconnectUnposted(s, reason) ==
  IF s.app.disconnectSeen THEN s
  ELSE [s EXCEPT !.app.disconnectSeen = TRUE, !.app.connected = FALSE,
                 !.app.discReason = reason]

\* Mutant: the session is still believed connected.
HandleDisconnectStillConnected(s, reason) ==
  IF s.app.disconnectSeen THEN s
  ELSE PostMessage([s EXCEPT !.app.disconnectSeen = TRUE,
                             !.app.discReason = reason], "wmRDPDisconnected")

\* Mutant: the latest report of the end is the one that counts.
HandleDisconnectAnew(s, reason) ==
  PostMessage([s EXCEPT !.app.disconnectSeen = TRUE, !.app.connected = FALSE,
                        !.app.discReason = reason], "wmRDPDisconnected")

\* handleDisconnect: recorded once, however often it is reported.
HandleDisconnect(s, reason) ==
  IF s.app.disconnectSeen THEN s
  ELSE PostMessage([s EXCEPT !.app.disconnectSeen = TRUE,
                             !.app.connected = FALSE,
                             !.app.discReason = reason],
                   "wmRDPDisconnected")

\* pollConnectionState: the fallback for an event without a name.  A state that
\* cannot be read changes nothing and is not told from "being established".
PollConnectionState(s) ==
  CASE ~s.app.disconnectSeen /\ ConnectedState(s.ctl) = 1 ->
         [s EXCEPT !.app.connected = TRUE, !.app.everConnected = TRUE]
    [] /\ ~s.app.disconnectSeen /\ ConnectedState(s.ctl) = 0
       /\ s.app.everConnected -> HandleDisconnect(s, 0)
    [] OTHER -> s

\* onEvent, for an event whose name is known.  OnRequestGoFullScreen and
\* OnRequestLeaveFullScreen share the branches of OnEnter- and OnLeave-.
OnNamedEvent(s, e) ==
  CASE e.name = "OnConnected" ->
         PostMessage([s EXCEPT !.app.connected = TRUE,
                               !.app.everConnected = TRUE], "wmRDPConnected")
    [] e.name = "OnLoginComplete" -> [s EXCEPT !.app.loginComplete = TRUE]
    [] e.name = "OnDisconnected"  -> HandleDisconnect(s, e.arg)
    [] e.name = "OnFatalError"    -> [s EXCEPT !.app.fatalError = TRUE]
    [] e.name = "OnLogonError"    -> [s EXCEPT !.app.logonError = TRUE]
    [] e.name = "OnEnterFullScreenMode" -> [s EXCEPT !.app.fullScreen = TRUE]
    [] e.name = "OnLeaveFullScreenMode" ->
         ApplyDynamicResize([s EXCEPT !.app.fullScreen = FALSE,
                                      !.app.pendingResize = TRUE])
    [] e.name = "OnRequestContainerMinimize" /\ s.win.show # "gone" ->
         WmSize([s EXCEPT !.win.show = "min", !.win.moving = FALSE],
                "minimized")
    [] e.name = "OnRemoteDesktopSizeChange" /\ e.arg > 0 ->
         [s EXCEPT !.app.session = e.arg]
    [] OTHER -> s

\* Mutant: once a close is under way, events are no longer of interest.
OnEventUnlessClosing(s, e) ==
  IF e.name \in s.app.names
  THEN IF s.app.closing THEN s ELSE OnNamedEvent(s, e)
  ELSE PollConnectionState(s)

\* Mutant: every event has the state polled, named or not.
OnEventPollsFirst(s, e) ==
  IF e.name \in s.app.names THEN OnNamedEvent(PollConnectionState(s), e)
                            ELSE PollConnectionState(s)

\* Mutant: leaving full screen goes unnoticed.
OnEventMissingLeave(s, e) ==
  IF e.name \in s.app.names
  THEN IF e.name = "OnLeaveFullScreenMode" THEN s ELSE OnNamedEvent(s, e)
  ELSE PollConnectionState(s)

\* The sink looks the name of each event up in its table, which lacks every
\* member whose description or name could not be read.
OnEvent(s, e) ==
  IF e.name \in s.app.names THEN OnNamedEvent(s, e) ELSE PollConnectionState(s)

\* Mutant: the message, not the event, says that there is a session.
WmRDPConnectedRemembers(s) ==
  ApplyScale([s EXCEPT !.app.connected = TRUE])

\* Mutant: the message is put back while the window is being dragged.
WmRDPConnectedPutBack(s) ==
  LET repeated == IF FullScreen /\ ~s.app.fullScreen
                  THEN [s EXCEPT !.ctl = EnterFullScreen(@)] ELSE s
  IN  IF s.win.moving THEN PostMessage(s, "wmRDPConnected")
                      ELSE ApplyScale(repeated)

WmRDPConnected(s) ==
  LET repeated == IF FullScreen /\ ~s.app.fullScreen
                  THEN [s EXCEPT !.ctl = EnterFullScreen(@)] ELSE s
  IN  ApplyScale(repeated)

\* Mutant: no window is destroyed under the user's hands.
WmRDPDisconnectedWaits(s) ==
  IF s.app.closing \/ s.win.moving THEN s
  ELSE DestroyWindow([s EXCEPT !.app.closing = TRUE])

WmRDPDisconnected(s) ==
  IF s.app.closing THEN s
  ELSE DestroyWindow([s EXCEPT !.app.closing = TRUE])

\* WM_CLOSE.  "ok" is what Disconnect returns: it fails only without a session.
WmClose(s, ok) ==
  LET first  == s.app.connected /\ ~s.app.closing /\ s.app.sink # "none"
      called == [s EXCEPT !.app.closing = TRUE,
                          !.ctl = IF s.app.connected THEN Disconnect(@) ELSE @]
  IN  IF first /\ ok THEN called ELSE DestroyWindow(called)

\* Mutant: the two failures as bits of one status.
ExitCodeAsFlags(a) ==
  (IF a.logonError /\ ~a.loginComplete THEN 2 ELSE 0)
    + (IF a.fatalError \/ ~a.everConnected THEN 1 ELSE 0)

\* Mutant: no session is no error.
ExitCodeWithoutSession(a) ==
  CASE a.logonError /\ ~a.loginComplete -> 2
    [] a.fatalError /\ ~(a.logonError /\ ~a.loginComplete) -> 1
    [] OTHER -> 0

ExitCode(a) ==
  CASE a.logonError /\ ~a.loginComplete -> 2
    [] (a.fatalError \/ ~a.everConnected) /\ ~(a.logonError /\ ~a.loginComplete)
         -> 1
    [] OTHER -> 0

-----------------------------------------------------------------------------
(* Actions.                                                                *)

World == [app |-> app, win |-> win, ctl |-> ctl, posted |-> posted]

Become(s) ==
  /\ app' = s.app
  /\ win' = s.win
  /\ ctl' = s.ctl
  /\ posted' = s.posted

Spend(kind) ==
  /\ budget[kind] > 0
  /\ budget' = [budget EXCEPT ![kind] = @ - 1]

Init ==
  /\ pc = "configure"
  /\ app = [sink |-> "none", names |-> {}, connected |-> FALSE,
            everConnected |-> FALSE, loginComplete |-> FALSE, fullScreen |-> FALSE,
            scaleApplied |-> FALSE, disconnectSeen |-> FALSE,
            logonError |-> FALSE, fatalError |-> FALSE, closing |-> FALSE,
            discReason |-> 0, pendingResize |-> FALSE, session |-> 0,
            resizeWarned |-> FALSE, exitCode |-> 0]
  /\ \E dpi \in Dpis :
       win = [show |-> "hidden", normal |-> 0, dpi |-> dpi, moving |-> FALSE,
              quit |-> FALSE]
  /\ \E revision \in Revisions, early \in EarlyModes :
       ctl = [advised |-> FALSE, revision |-> revision, early |-> early,
              link |-> "idle", full |-> FALSE, desk |-> 0, scale |-> Unscaled,
              everUp |-> FALSE, loggedIn |-> FALSE, refused |-> FALSE,
              reason |-> 0, events |-> << >>]
  /\ posted = << >>
  /\ budget \in Budgets

(* App.Run, up to the message loop.                                        *)

\* Resolve the size, create the window and the site, connect the sink with the
\* event names there are, and hand over the settings.
Configure ==
  /\ pc = "configure"
  /\ \E sink \in Sinks, names \in NameTables :
       LET extent == resolveWidth(Extent, Screen, FullScreen) IN
       /\ app' = [app EXCEPT !.sink = sink,
                             !.names = IF sink = "none" THEN {} ELSE names,
                             !.session = extent, !.fullScreen = FullScreen]
       /\ win' = [win EXCEPT !.normal = extent]
       /\ ctl' = [ctl EXCEPT !.advised = (sink # "none"), !.desk = extent]
  /\ pc' = "show"
  /\ UNCHANGED <<posted, budget>>

\* Any step of the set-up that fails ends the program with status 1.
ConfigureFails ==
  /\ pc = "configure"
  /\ pc' = "done"
  /\ app' = [app EXCEPT !.exitCode = 1]
  /\ UNCHANGED <<win, ctl, posted, budget>>

\* Ask for full screen, which the control may or may not honour this early,
\* and show the window, whose WM_SIZE arrives before showWindow returns.
Show ==
  /\ pc = "show"
  /\ LET asked == IF FullScreen /\ ctl.early
                  THEN [World EXCEPT !.ctl = EnterFullScreen(@)] ELSE World
     IN  Become(WmSize([asked EXCEPT !.win.show = "normal"], "restored"))
  /\ pc' = "connect"
  /\ UNCHANGED budget

\* The deferred cleanup: the sink first, so that no event finds the program
\* without its control.
Cleanup(s, code) ==
  [s EXCEPT !.app.sink = "none", !.app.names = {}, !.app.exitCode = code,
            !.ctl.advised = FALSE, !.ctl.events = << >>]

Connect ==
  /\ pc = "connect"
  /\ \/ /\ Become([World EXCEPT
               !.ctl = Raise([@ EXCEPT !.link = "connecting"],
                             "OnConnecting", 0)])
        /\ pc' = "loop"
     \/ /\ Become(Cleanup(World, 1))
        /\ pc' = "done"
  /\ UNCHANGED budget

\* The message loop ends with the quit message; the outcome is reported.
Finish ==
  /\ pc = "loop" /\ win.quit
  /\ Become(Cleanup(World, ExitCode(app)))
  /\ pc' = "done"
  /\ UNCHANGED budget

(* What the message loop dispatches.                                       *)

DeliverEvent ==
  /\ pc = "loop" /\ ctl.events # << >>
  /\ Become(OnEvent([World EXCEPT !.ctl.events = Tail(@)], Head(ctl.events)))
  /\ UNCHANGED <<pc, budget>>

DispatchPosted ==
  /\ pc = "loop" /\ posted # << >>
  /\ LET taken == [World EXCEPT !.posted = Tail(@)]
     IN  \/ /\ Head(posted) = "wmRDPConnected"
            /\ Become(WmRDPConnected(taken))
         \/ /\ Head(posted) = "wmRDPDisconnected"
            /\ Become(WmRDPDisconnected(taken))
  /\ UNCHANGED <<pc, budget>>

WindowThere == pc = "loop" /\ win.show # "gone"

\* Disconnect can only be refused once the session is over.
CloseWindow ==
  /\ WindowThere
  /\ Spend("close")
  /\ \E ok \in {TRUE, ctl.link # "down"} : Become(WmClose(World, ok))
  /\ UNCHANGED pc

(* The user's gestures on the window.                                      *)

Gesture(kind) ==
  /\ WindowThere
  /\ kind \in Gestures
  /\ EarlyGestures \/ app.connected
  /\ Spend("gesture")
  /\ UNCHANGED pc

\* Inside the modal loop of a drag, WM_SIZE comes for every size on the way.
Drag ==
  /\ Gesture("drag")
  /\ win.show = "normal"
  /\ \E extent \in Extents \ {win.normal} :
       Become(WmSize([World EXCEPT !.win.normal = extent, !.win.moving = TRUE],
                     "restored"))

EndDrag ==
  /\ WindowThere /\ win.moving
  /\ Become(ApplyDynamicResize([World EXCEPT !.win.moving = FALSE]))
  /\ UNCHANGED <<pc, budget>>

Maximise ==
  /\ Gesture("maximise")
  /\ ~win.moving /\ win.show \in {"normal", "min"}
  /\ Become(WmSize([World EXCEPT !.win.show = "max"], "maximized"))

Restore ==
  /\ Gesture("restore")
  /\ ~win.moving /\ win.show \in {"max", "min"}
  /\ Become(WmSize([World EXCEPT !.win.show = "normal"], "restored"))

Minimise ==
  /\ Gesture("minimise")
  /\ ~win.moving /\ win.show \in {"normal", "max"}
  /\ Become(WmSize([World EXCEPT !.win.show = "min"], "minimized"))

\* The window comes to stand on a monitor of another DPI.
ChangeDpi ==
  /\ WindowThere
  /\ EarlyGestures \/ app.connected
  /\ Spend("dpi")
  /\ \E dpi \in Dpis \ {win.dpi}, extent \in Extents \cup {win.normal} :
       Become(WmDpiChanged(World, dpi, extent))
  /\ UNCHANGED pc

(* The control and the server.                                             *)

ControlMoves(c) ==
  /\ pc = "loop"
  /\ ctl' = c
  /\ UNCHANGED <<pc, app, win, posted>>

Ended(reason) ==
  Raise([ctl EXCEPT !.link = "down", !.reason = reason],
        "OnDisconnected", reason)

ConnectResolves ==
  /\ ctl.link = "connecting"
  /\ \/ ControlMoves(Raise([ctl EXCEPT !.link = "up", !.everUp = TRUE],
                           "OnConnected", 0))
     \/ ControlMoves(Ended(ErrorReason))
  /\ UNCHANGED budget

LogIn ==
  /\ ctl.link = "up" /\ ~ctl.loggedIn
  /\ ControlMoves(Raise([ctl EXCEPT !.loggedIn = TRUE], "OnLoginComplete", 0))
  /\ UNCHANGED budget

\* A refused logon, or an informational logon event.
LogonError ==
  /\ ctl.link = "up" /\ ~ctl.loggedIn
  /\ Spend("logonError")
  /\ ControlMoves(Raise([ctl EXCEPT !.refused = TRUE], "OnLogonError", 0))

FatalError ==
  /\ ctl.link \in {"connecting", "up"}
  /\ Spend("fatal")
  /\ ControlMoves(Raise(ctl, "OnFatalError", 0))

LoseLink ==
  /\ ctl.link = "up"
  /\ Spend("retry")
  /\ ControlMoves(Raise([ctl EXCEPT !.link = "retry"], "OnAutoReconnecting", 0))

RegainLink ==
  /\ ctl.link = "retry"
  /\ ControlMoves(Raise([ctl EXCEPT !.link = "up"], "OnAutoReconnected", 0))
  /\ UNCHANGED budget

\* The session ends from the server's side, or from the connection bar.
SessionEnds ==
  /\ ctl.link \in {"up", "retry"}
  /\ \E reason \in {NormalReason, ErrorReason} : ControlMoves(Ended(reason))
  /\ UNCHANGED budget

\* What Disconnect set going.
DisconnectCompletes ==
  /\ ctl.link = "leaving"
  /\ ControlMoves(Ended(NormalReason))
  /\ UNCHANGED budget

\* The connection bar or Ctrl+Alt+Break.
ToggleFullScreen ==
  /\ ctl.link = "up"
  /\ Spend("toggle")
  /\ ControlMoves(
       IF ctl.full
       THEN Raise([ctl EXCEPT !.full = FALSE], "OnLeaveFullScreenMode", 0)
       ELSE EnterFullScreen(ctl))

RequestMinimise ==
  /\ ctl.link = "up" /\ ctl.full
  /\ Spend("minimise")
  /\ ControlMoves(Raise(ctl, "OnRequestContainerMinimize", 0))

ServerResizes ==
  /\ ctl.link = "up"
  /\ Spend("resize")
  /\ \E extent \in ServerExtents \ {ctl.desk} :
       ControlMoves(Resized(ctl, extent, ctl.scale))

(* The program's own steps, which its one thread keeps taking.             *)
Program ==
  \/ Configure \/ ConfigureFails \/ Show \/ Connect \/ Finish
  \/ DeliverEvent \/ DispatchPosted

User ==
  \/ CloseWindow \/ Drag \/ EndDrag \/ Maximise \/ Restore \/ Minimise
  \/ ChangeDpi

Control ==
  \/ ConnectResolves \/ LogIn \/ LogonError \/ FatalError
  \/ LoseLink \/ RegainLink \/ SessionEnds \/ DisconnectCompletes
  \/ ToggleFullScreen \/ RequestMinimise \/ ServerResizes

\* The program has exited.
Exited == pc = "done" /\ UNCHANGED vars

Next == Program \/ User \/ Control \/ Exited

Spec == Init /\ [][Next]_vars

(***************************************************************************)
(* The thread keeps pumping: the start-up runs, a queued event and a       *)
(* posted message are each met in the end, and so is the quit message.     *)
(* The control answers a Connect and completes a Disconnect.  The user and *)
(* the server owe nothing.                                                 *)
(***************************************************************************)
Fairness ==
  /\ WF_vars(Configure \/ ConfigureFails \/ Show \/ Connect)
  /\ WF_vars(DeliverEvent)
  /\ WF_vars(DispatchPosted)
  /\ WF_vars(Finish)
  /\ WF_vars(ConnectResolves)
  /\ WF_vars(DisconnectCompletes)

FairSpec == Spec /\ Fairness

-----------------------------------------------------------------------------
(* Properties of the lifecycle.                                            *)

Pending(name) == \E i \in DOMAIN ctl.events : ctl.events[i].name = name

\* A session the control has ended (or a connection it could not make) is never
\* forgotten: the program has recorded it, or the event that says so is queued.
NoLostDisconnect ==
  pc = "loop" /\ "OnDisconnected" \in app.names /\ ctl.link = "down"
    => app.disconnectSeen \/ Pending("OnDisconnected")

\* A recorded disconnect reaches the window: its message is on the way, or a
\* close is already under way, or the window is gone (app.go, lines 367-372).
DisconnectReachesWindow ==
  app.disconnectSeen =>
    \/ \E i \in DOMAIN posted : posted[i] = "wmRDPDisconnected"
    \/ app.closing
    \/ win.show = "gone"

\* The program believes in a dead session only until the news it has queued is
\* read, with or without event names (app.go, lines 559-586).
NoStaleConnection ==
  pc = "loop" /\ app.connected /\ ctl.link = "down" => Pending("OnDisconnected")

\* Exit status 0 means there was a session, 2 that a logon was refused; and
\* what says so are the control's facts, not the program's flags
\* (app.go, lines 608-618).
ExitCodeFaithful ==
  pc = "done" =>
    /\ app.exitCode = 0 => ctl.everUp
    /\ app.exitCode = 2 => ctl.refused

\* The reason the outcome is reported with is the one the control gave; or none,
\* but only where an event without a name may have come first, as polling has
\* none to give (app.go, lines 559-586 and 632).
ReasonIsTheControls ==
  pc = "loop" /\ app.disconnectSeen =>
    \/ app.discReason = ctl.reason
    \/ app.discReason = 0 /\ app.names # EventNames

\* The end is recorded once: whatever event or poll reports it again, what the
\* first one recorded stands (app.go, lines 559-565 and 574-576).
EndRecordedOnce ==
  [][pc = "loop" /\ app.disconnectSeen =>
       app'.disconnectSeen /\ app'.discReason = app.discReason]_vars

\* A session that ends by itself ends the program, unless a first close is
\* waiting; where its end has no name, if the session was ever seen.
EndedSessionEndsProgram ==
  (/\ pc = "loop" /\ ctl.link = "down"
   /\ "OnDisconnected" \in app.names \/ app.everConnected)
    ~> (pc = "done" \/ (app.closing /\ win.show # "gone"))

\* Once the window is gone the loop ends and the outcome is reported.
GoneWindowEndsProgram == (win.show = "gone") ~> (pc = "done")

\* What is still to be read, where an event can post one message, and a message
\* can raise one event, but only by entering full screen.
Backlog == 2 * Len(ctl.events) + (IF ctl.full THEN 0 ELSE 2) + Len(posted)

\* Once the session is over it stays over, nothing adds to what is to be read,
\* and reading takes from it: the handlers cannot keep each other busy with
\* messages and events of their own (app.go, lines 354-372 and 488-586).
QueuesRunDry ==
  [][pc = "loop" /\ ctl.link = "down" =>
       /\ ctl'.link = "down"
       /\ Backlog' <= Backlog
       /\ DeliverEvent \/ DispatchPosted => Backlog' < Backlog]_vars

\* "The window is destroyed once OnDisconnected arrives" (app.go, line 382): a
\* close the user asked for ends the program.
CloseEndsProgram == app.closing ~> (pc = "done")

\* "disconnect notifications will be polled" (control.go, line 110): the end of
\* a session is noticed without event notifications too.
DisconnectIsNoticed ==
  (pc = "loop" /\ ctl.link = "down") ~> (app.disconnectSeen \/ pc = "done")

\* "0 normal disconnect, 1 error" (README.md, line 84).
ExitZeroIsNormal ==
  pc = "done" /\ app.exitCode = 0 => app.discReason # ErrorReason

-----------------------------------------------------------------------------
(* The session this program promises (Session), seen in its state.         *)

SessionPhase ==
  CASE pc \in {"configure", "show", "connect"}       -> "starting"
    [] pc = "done"                                   -> "exited"
    [] pc = "loop" /\ win.show = "gone"              -> "closing"
    [] pc = "loop" /\ win.show # "gone" /\ app.connected -> "live"
    [] pc = "loop" /\ win.show # "gone" /\ ~app.connected /\ app.disconnectSeen
                                                     -> "ended"
    [] OTHER                                         -> "connecting"

SessionView == INSTANCE Session
  WITH phase <- SessionPhase, lived <- app.everConnected,
       status <- app.exitCode

\* The program has one session at most, never back from its end, and exits with
\* a status that tells whether there was one (app.go, lines 51-122 and 488-641).
ImplementsSession == SessionView!Spec

-----------------------------------------------------------------------------
(* Properties of the display.                                              *)

\* Nothing is on its way to the program, and the user is not half-way through.
Quiescent ==
  /\ pc = "loop" /\ ctl.events = << >> /\ posted = << >>
  /\ ~win.moving /\ win.show \in {"normal", "max"}

LiveSession == app.connected /\ ctl.link = "up"

\* Whatever order resizes and size announcements crossed in, once they are all
\* read the program knows the size of the remote desktop
\* (app.go, lines 484 and 539-545).
SessionSizeKnown ==
  (/\ pc = "loop" /\ "OnRemoteDesktopSizeChange" \in app.names
   /\ ~Pending("OnRemoteDesktopSizeChange"))
  => app.session = ctl.desk

\* The remote desktop never takes an odd size, or one below 200, from here.
DesktopSizeLegal ==
  pc \in {"show", "connect", "loop"}
    => ctl.desk >= MinExtent /\ (ctl.desk % 2 = 0 \/ ctl.desk \in ServerExtents)

\* The scale of a quiet session is that of the monitor its window is on, where
\* the control can scale at all (README.md, lines 207-208).
ScaleFollowsMonitor ==
  Quiescent /\ LiveSession /\ ctl.revision = "scaled"
    => ctl.scale = scaleFactors(Scale, DeviceScale, win.dpi)

\* The program's mode is the control's actual mode (app.go, lines 25-27), where
\* both events have names: nothing else tells the program of a change of mode.
FullScreenTracked ==
  (/\ Quiescent /\ LiveSession
   /\ {"OnEnterFullScreenMode", "OnLeaveFullScreenMode"} \subseteq app.names)
  => app.fullScreen = ctl.full

\* "the remote desktop follows the window" (README.md, lines 220-222), and "a
\* maximise or restore is a finished gesture" (app.go, line 310).
SizeFollowsWindow ==
  Quiescent /\ LiveSession /\ ctl.revision # "fixed" /\ ~app.fullScreen
    => ctl.desk = Even(ClientExtent(win))
=============================================================================
