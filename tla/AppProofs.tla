----------------------------- MODULE AppProofs -----------------------------
(***************************************************************************)
(* Type correctness of App and two of its safety properties, for every     *)
(* value of the constants.  A handler is a function between worlds, so     *)
(* each has a lemma that says what it keeps; the display handlers all keep *)
(* the same things (SameSession), which is why no resize, scaling or       *)
(* full-screen change can lose the end of a session.                       *)
(***************************************************************************)
EXTENDS App, GeometryProofs

-----------------------------------------------------------------------------
(* Sequences.                                                              *)

LEMMA AppendType ==
  ASSUME NEW S, NEW q \in Seq(S), NEW m \in S
  PROVE  Append(q, m) \in Seq(S)
OBVIOUS

LEMMA EmptyType ==
  ASSUME NEW S
  PROVE  << >> \in Seq(S)
OBVIOUS

LEMMA TailType ==
  ASSUME NEW S, NEW q \in Seq(S), q # << >>
  PROVE  Tail(q) \in Seq(S) /\ Head(q) \in S
OBVIOUS

\* An element of a sequence is still there when another is appended.
LEMMA AppendKeeps ==
  ASSUME NEW S, NEW q \in Seq(S), NEW m \in S, NEW i \in DOMAIN q
  PROVE  i \in DOMAIN Append(q, m) /\ Append(q, m)[i] = q[i]
OBVIOUS

\* An element of the longer sequence is the new one or an old one.
LEMMA AppendIsNew ==
  ASSUME NEW S, NEW q \in Seq(S), NEW m \in S, NEW i \in DOMAIN Append(q, m)
  PROVE  Append(q, m)[i] = m \/ (i \in DOMAIN q /\ Append(q, m)[i] = q[i])
OBVIOUS

\* What was appended is there.
LEMMA AppendAdds ==
  ASSUME NEW S, NEW q \in Seq(S), NEW m \in S
  PROVE  \E i \in DOMAIN Append(q, m) : Append(q, m)[i] = m
<1>1. /\ Len(q) + 1 \in DOMAIN Append(q, m)
      /\ Append(q, m)[Len(q) + 1] = m
  OBVIOUS
<1> QED
  BY <1>1

\* Taking the head leaves every other element.
LEMMA TailKeeps ==
  ASSUME NEW S, NEW q \in Seq(S), q # << >>, NEW i \in DOMAIN q, q[i] # Head(q)
  PROVE  \E j \in DOMAIN Tail(q) : Tail(q)[j] = q[i]
<1>1. i \in 1..Len(q) /\ i # 1 /\ Len(q) \in Nat
  OBVIOUS
<1>2. i - 1 \in DOMAIN Tail(q) /\ Tail(q)[i - 1] = q[i]
  BY <1>1
<1> QED
  BY <1>2

\* What the tail holds, the sequence held.
LEMMA TailIsOld ==
  ASSUME NEW S, NEW q \in Seq(S), q # << >>, NEW i \in DOMAIN Tail(q)
  PROVE  \E j \in DOMAIN q : Tail(q)[i] = q[j]
<1>1. i \in 1..(Len(q) - 1) /\ Len(q) \in Nat
  OBVIOUS
<1>2. i + 1 \in DOMAIN q /\ Tail(q)[i] = q[i + 1]
  BY <1>1
<1> QED
  BY <1>2

LEMMA HeadIsFirst ==
  ASSUME NEW S, NEW q \in Seq(S), q # << >>
  PROVE  1 \in DOMAIN q /\ q[1] = Head(q)
OBVIOUS

-----------------------------------------------------------------------------
(* What a call into the control keeps.                                     *)

Holds(c, name) == \E i \in DOMAIN c.events : c.events[i].name = name

\* d is c with perhaps another display, and more events queued, of the names
\* in "new" only.
Keeps(c, d, new) ==
  /\ d \in ControlStates
  /\ d.link = c.link /\ d.advised = c.advised
  /\ d.everUp = c.everUp /\ d.refused = c.refused
  /\ \A name \in EventNames : Holds(c, name) => Holds(d, name)
  /\ \A name \in EventNames \ new : Holds(d, name) => Holds(c, name)

\* What the display calls may queue.
Announcements == {"OnRemoteDesktopSizeChange", "OnEnterFullScreenMode"}

LEMMA EventType ==
  ASSUME NEW name \in EventNames, NEW arg \in Nat
  PROVE  [name |-> name, arg |-> arg] \in Events
BY DEF Events

\* Raising an event keeps the control and those already queued.
LEMMA RaiseKeeps ==
  ASSUME NEW c \in ControlStates, NEW name \in EventNames, NEW arg \in Nat
  PROVE  Keeps(c, Raise(c, name, arg), {name})
<1> DEFINE e == [name |-> name, arg |-> arg]
           q == Append(c.events, e)
           d == [c EXCEPT !.events = q]
<1>1. e \in Events /\ c.events \in Seq(Events) /\ e.name = name
  BY EventType DEF ControlStates
<1> HIDE DEF e
<1>2. /\ q \in Seq(Events)
      /\ \A i \in DOMAIN c.events : i \in DOMAIN q /\ q[i] = c.events[i]
      /\ \A i \in DOMAIN q : q[i] = e \/ (i \in DOMAIN c.events /\ q[i] = c.events[i])
  BY <1>1, AppendType, AppendKeeps, AppendIsNew
<1> HIDE DEF q
<1>3. /\ d \in ControlStates
      /\ d.link = c.link /\ d.advised = c.advised /\ d.events = q
      /\ d.everUp = c.everUp /\ d.refused = c.refused
  BY <1>2 DEF ControlStates
<1> HIDE DEF d
<1>4. \A n \in EventNames : Holds(c, n) => Holds(d, n)
  BY <1>2, <1>3 DEF Holds
<1>5. \A n \in EventNames \ {name} : Holds(d, n) => Holds(c, n)
  BY <1>1, <1>2, <1>3 DEF Holds
<1>6. CASE c.advised
  <2>1. Raise(c, name, arg) = d
    BY <1>6 DEF Raise, d, q, e
  <2> QED
    BY <1>3, <1>4, <1>5, <2>1 DEF Keeps
<1>7. CASE ~c.advised
  <2>1. Raise(c, name, arg) = c
    BY <1>7 DEF Raise
  <2> QED
    BY <2>1 DEF Keeps
<1> QED
  BY <1>6, <1>7

\* An event raised for an advised sink is queued.
LEMMA RaiseHolds ==
  ASSUME NEW c \in ControlStates, c.advised,
         NEW name \in EventNames, NEW arg \in Nat
  PROVE  Holds(Raise(c, name, arg), name)
<1> DEFINE e == [name |-> name, arg |-> arg]
           q == Append(c.events, e)
<1>1. e \in Events /\ c.events \in Seq(Events) /\ e.name = name
  BY EventType DEF ControlStates
<1> HIDE DEF e
<1>2. \E i \in DOMAIN q : q[i] = e
  BY <1>1, AppendAdds
<1>3. Raise(c, name, arg) = [c EXCEPT !.events = q]
  BY DEF Raise, e
<1>4. Raise(c, name, arg).events = q
  BY <1>3 DEF ControlStates
<1> QED
  BY <1>1, <1>2, <1>4 DEF Holds

LEMMA KeepsItself ==
  ASSUME NEW c \in ControlStates, NEW new
  PROVE  Keeps(c, c, new)
BY DEF Keeps

LEMMA KeepsMore ==
  ASSUME NEW c, NEW d, NEW e, NEW small, NEW new, small \subseteq new,
         Keeps(c, d, new), Keeps(d, e, small)
  PROVE  Keeps(c, e, new)
BY DEF Keeps

\* What is no event, link or fact of the session may change.
LEMMA DisplayKeeps ==
  ASSUME NEW c \in ControlStates, NEW d \in ControlStates,
         d.link = c.link, d.advised = c.advised, d.events = c.events,
         d.everUp = c.everUp, d.refused = c.refused, NEW new
  PROVE  Keeps(c, d, new)
BY DEF Keeps, Holds

LEMMA ResizedKeeps ==
  ASSUME NEW c \in ControlStates, NEW extent \in Nat, NEW factors \in Factors
  PROVE  Keeps(c, Resized(c, extent, factors), Announcements)
<1> DEFINE d == [c EXCEPT !.desk = extent, !.scale = factors]
<1>1. /\ d \in ControlStates
      /\ d.link = c.link /\ d.advised = c.advised /\ d.events = c.events
      /\ d.everUp = c.everUp /\ d.refused = c.refused
  BY DEF ControlStates
<1> HIDE DEF d
<1>2. Keeps(c, d, Announcements)
  BY <1>1, DisplayKeeps
<1>3. Keeps(d, Raise(d, "OnRemoteDesktopSizeChange", extent),
            {"OnRemoteDesktopSizeChange"})
  BY <1>1, RaiseKeeps DEF EventNames
<1>4. Keeps(c, Raise(d, "OnRemoteDesktopSizeChange", extent), Announcements)
  BY <1>2, <1>3, KeepsMore DEF Announcements
<1> QED
  BY <1>2, <1>4 DEF Resized, d

LEMMA UnscaledIsFactors == Unscaled \in Factors
BY DEF Unscaled, Factors

LEMMA UpdateKeeps ==
  ASSUME NEW c \in ControlStates, NEW extent \in Nat, NEW factors \in Factors
  PROVE  Keeps(c, UpdateSessionDisplaySettings(c, extent, factors).ctl,
               Announcements)
<1>1. /\ Keeps(c, Resized(c, extent, factors), Announcements)
      /\ Keeps(c, Resized(c, extent, Unscaled), Announcements)
      /\ Keeps(c, c, Announcements)
  BY ResizedKeeps, KeepsItself, UnscaledIsFactors
<1> QED
  BY <1>1 DEF UpdateSessionDisplaySettings

LEMMA ReconnectKeeps ==
  ASSUME NEW c \in ControlStates, NEW extent \in Nat
  PROVE  Keeps(c, Reconnect(c, extent).ctl, Announcements)
<1>1. c.scale \in Factors
  BY DEF ControlStates
<1>2. /\ Keeps(c, Resized(c, extent, c.scale), Announcements)
      /\ Keeps(c, c, Announcements)
  BY <1>1, ResizedKeeps, KeepsItself
<1> QED
  BY <1>2 DEF Reconnect

LEMMA EnterFullScreenKeeps ==
  ASSUME NEW c \in ControlStates
  PROVE  Keeps(c, EnterFullScreen(c), Announcements)
<1> DEFINE d == [c EXCEPT !.full = TRUE]
<1>1. /\ d \in ControlStates
      /\ d.link = c.link /\ d.advised = c.advised /\ d.events = c.events
      /\ d.everUp = c.everUp /\ d.refused = c.refused
  BY DEF ControlStates
<1> HIDE DEF d
<1>2. Keeps(c, d, Announcements)
  BY <1>1, DisplayKeeps
<1>3. Keeps(d, Raise(d, "OnEnterFullScreenMode", 0), {"OnEnterFullScreenMode"})
  BY <1>1, RaiseKeeps DEF EventNames
<1>4. Keeps(c, Raise(d, "OnEnterFullScreenMode", 0), Announcements)
  BY <1>2, <1>3, KeepsMore DEF Announcements
<1> QED
  BY <1>4, KeepsItself DEF EnterFullScreen, d

-----------------------------------------------------------------------------
(* What a display handler keeps.                                           *)

\* The same session so far, as far as its life and its end are concerned.
SameLife(a, b) ==
  /\ b \in AppStates
  /\ b.sink = a.sink /\ b.names = a.names
  /\ b.connected = a.connected /\ b.everConnected = a.everConnected
  /\ b.disconnectSeen = a.disconnectSeen /\ b.closing = a.closing
  /\ b.logonError = a.logonError /\ b.loginComplete = a.loginComplete

SameSession(s, t) ==
  /\ t \in Worlds
  /\ SameLife(s.app, t.app)
  /\ t.win.show = s.win.show
  /\ t.posted = s.posted
  /\ Keeps(s.ctl, t.ctl, Announcements)

\* The fields of a world, and a world made of fields.
LEMMA WorldFields ==
  ASSUME NEW s \in Worlds
  PROVE  /\ s.app \in AppStates /\ s.win \in WindowStates
         /\ s.ctl \in ControlStates /\ s.posted \in Seq(PostedMessages)
BY DEF Worlds

LEMMA SameSessionItself ==
  ASSUME NEW s \in Worlds
  PROVE  SameSession(s, s)
<1>1. Keeps(s.ctl, s.ctl, Announcements)
  BY WorldFields, KeepsItself
<1> QED
  BY <1>1, WorldFields DEF SameSession, SameLife

LEMMA SameSessionChains ==
  ASSUME NEW s, NEW t, NEW u, SameSession(s, t), SameSession(t, u)
  PROVE  SameSession(s, u)
<1>1. Keeps(s.ctl, u.ctl, Announcements)
  BY KeepsMore DEF SameSession
<1> QED
  BY <1>1 DEF SameSession, SameLife

\* A world with another App of the same life, and another display.
LEMMA SameSessionMade ==
  ASSUME NEW s \in Worlds, NEW a, SameLife(s.app, a),
         NEW c, Keeps(s.ctl, c, Announcements)
  PROVE  SameSession(s, [s EXCEPT !.app = a, !.ctl = c])
<1>1. a \in AppStates /\ c \in ControlStates
  BY DEF SameLife, Keeps
<1> DEFINE t == [s EXCEPT !.app = a, !.ctl = c]
<1>2. /\ t \in Worlds
      /\ t.app = a /\ t.ctl = c /\ t.win = s.win /\ t.posted = s.posted
  BY <1>1 DEF Worlds
<1> QED
  BY <1>2 DEF SameSession

\* The factors for the window's monitor are factors.
LEMMA FactorsForType ==
  ASSUME NEW s \in Worlds
  PROVE  FactorsFor(s) \in Factors
<1>1. /\ s.win.dpi \in Int
      /\ Scale \in Int /\ ValidScale(Scale)
      /\ DeviceScale \in Int /\ ValidDevice(DeviceScale)
  BY ConstantsAssumption DEF Worlds, WindowStates
<1> DEFINE f == scaleFactors(Scale, DeviceScale, s.win.dpi)
<1>2. f.desktop \in 100..500 /\ f.device \in deviceScaleBuckets
  BY <1>1, FactorsAreAccepted
<1>3. f = [desktop |-> f.desktop, device |-> f.device]
  BY DEF scaleFactors
<1> HIDE DEF f
<1>4. f.desktop \in Nat /\ f.device \in Nat
  BY <1>2 DEF deviceScaleBuckets
<1> QED
  BY <1>3, <1>4 DEF FactorsFor, f, Factors

\* What follows the window has an extent a session may take.
LEMMA ClientExtentType ==
  ASSUME NEW w \in WindowStates
  PROVE  ClientExtent(w) \in Nat /\ Even(ClientExtent(w)) \in Nat
<1>1. ClientExtent(w) \in Nat
  BY ConstantsAssumption DEF ClientExtent, WindowStates, Shows
<1>2. PICK n \in Nat : n = ClientExtent(w)
  BY <1>1
<1>3. Even(n) \in Nat
  BY DEF Even
<1> QED
  BY <1>2, <1>3

LEMMA ApplyScaleSame ==
  ASSUME NEW s \in Worlds
  PROVE  SameSession(s, ApplyScale(s))
<1> DEFINE f == FactorsFor(s)
           c == UpdateSessionDisplaySettings(s.ctl, s.app.session, f).ctl
           a == [s.app EXCEPT !.scaleApplied = TRUE]
<1>1. Keeps(s.ctl, c, Announcements) /\ Keeps(s.ctl, s.ctl, Announcements)
  <2>1. s.ctl \in ControlStates /\ s.app.session \in Nat /\ f \in Factors
    BY FactorsForType DEF Worlds, AppStates
  <2> HIDE DEF f
  <2> QED
    BY <2>1, UpdateKeeps, KeepsItself
<1>2. SameLife(s.app, a)
  BY DEF SameLife, Worlds, AppStates
<1>3. /\ SameSession(s, [s EXCEPT !.app = a, !.ctl = c])
      /\ SameSession(s, [s EXCEPT !.app = a, !.ctl = s.ctl])
      /\ SameSession(s, s)
  <2> HIDE DEF a, c
  <2> QED
    BY <1>1, <1>2, SameSessionMade, SameSessionItself
<1>4. \/ ApplyScale(s) = [s EXCEPT !.app = a, !.ctl = c]
      \/ ApplyScale(s) = [s EXCEPT !.app = a, !.ctl = s.ctl]
      \/ ApplyScale(s) = s
  BY DEF ApplyScale, Worlds
<1> QED
  BY <1>3, <1>4

LEMMA ApplyDynamicResizeSame ==
  ASSUME NEW s \in Worlds
  PROVE  SameSession(s, ApplyDynamicResize(s))
<1> DEFINE e  == Even(ClientExtent(s.win))
           c1 == UpdateSessionDisplaySettings(s.ctl, e, FactorsFor(s)).ctl
           c2 == Reconnect(s.ctl, e).ctl
           a1 == [s.app EXCEPT !.pendingResize = FALSE]
           a2 == [s.app EXCEPT !.pendingResize = FALSE, !.session = e]
           a3 == [s.app EXCEPT !.pendingResize = FALSE, !.resizeWarned = TRUE]
<1>1. e \in Nat
  BY ClientExtentType, WorldFields
<1> HIDE DEF e
<1>2. /\ Keeps(s.ctl, c1, Announcements)
      /\ Keeps(s.ctl, c2, Announcements)
      /\ Keeps(s.ctl, s.ctl, Announcements)
  BY <1>1, WorldFields, FactorsForType, UpdateKeeps, ReconnectKeeps, KeepsItself
<1>3. SameLife(s.app, a1) /\ SameLife(s.app, a2) /\ SameLife(s.app, a3)
  BY <1>1 DEF SameLife, Worlds, AppStates
<1>4. /\ SameSession(s, [s EXCEPT !.app = a1, !.ctl = s.ctl])
      /\ SameSession(s, [s EXCEPT !.app = a2, !.ctl = c1])
      /\ SameSession(s, [s EXCEPT !.app = a2, !.ctl = c2])
      /\ SameSession(s, [s EXCEPT !.app = a3, !.ctl = s.ctl])
      /\ SameSession(s, s)
  <2> HIDE DEF a1, a2, a3, c1, c2
  <2> QED
    BY <1>2, <1>3, SameSessionMade, SameSessionItself
<1>5. \/ ApplyDynamicResize(s) = [s EXCEPT !.app = a1, !.ctl = s.ctl]
      \/ ApplyDynamicResize(s) = [s EXCEPT !.app = a2, !.ctl = c1]
      \/ ApplyDynamicResize(s) = [s EXCEPT !.app = a2, !.ctl = c2]
      \/ ApplyDynamicResize(s) = [s EXCEPT !.app = a3, !.ctl = s.ctl]
      \/ ApplyDynamicResize(s) = s
  BY DEF ApplyDynamicResize, Worlds, e
<1> QED
  BY <1>4, <1>5

LEMMA MarkedSame ==
  ASSUME NEW s \in Worlds, NEW scaled \in BOOLEAN
  PROVE  SameSession(s, [s EXCEPT !.app.pendingResize = TRUE,
                                  !.app.scaleApplied = scaled])
<1> DEFINE a == [s.app EXCEPT !.pendingResize = TRUE, !.scaleApplied = scaled]
<1>1. SameLife(s.app, a)
  BY DEF SameLife, Worlds, AppStates
<1>2. [s EXCEPT !.app.pendingResize = TRUE, !.app.scaleApplied = scaled]
        = [s EXCEPT !.app = a, !.ctl = s.ctl]
  BY DEF Worlds
<1>3. Keeps(s.ctl, s.ctl, Announcements)
  BY WorldFields, KeepsItself
<1> HIDE DEF a
<1> QED
  BY <1>1, <1>2, <1>3, SameSessionMade

LEMMA WmSizeSame ==
  ASSUME NEW s \in Worlds, NEW how \in {"minimized", "maximized", "restored"}
  PROVE  SameSession(s, WmSize(s, how))
<1> DEFINE marked == [s EXCEPT !.app.pendingResize = TRUE]
<1>1. SameSession(s, marked)
  <2>1. /\ s.app.scaleApplied \in BOOLEAN
        /\ marked = [s EXCEPT !.app.pendingResize = TRUE,
                              !.app.scaleApplied = s.app.scaleApplied]
    BY DEF Worlds, AppStates
  <2> QED
    BY <2>1, MarkedSame
<1> HIDE DEF marked
<1>2. marked \in Worlds
  BY <1>1 DEF SameSession
<1>3. SameSession(s, ApplyDynamicResize(marked)) /\ SameSession(s, s)
  BY <1>1, <1>2, ApplyDynamicResizeSame, SameSessionChains, SameSessionItself
<1> QED
  BY <1>1, <1>3 DEF WmSize, marked

\* A window in another place, with the same fate.
LEMMA PlacedSame ==
  ASSUME NEW s \in Worlds, NEW w \in WindowStates, w.show = s.win.show
  PROVE  SameSession(s, [s EXCEPT !.win = w])
<1>1. Keeps(s.ctl, s.ctl, Announcements)
  BY WorldFields, KeepsItself
<1> DEFINE t == [s EXCEPT !.win = w]
<1>2. /\ t \in Worlds
      /\ t.app = s.app /\ t.ctl = s.ctl /\ t.win = w /\ t.posted = s.posted
  BY DEF Worlds
<1> QED
  BY <1>1, <1>2, WorldFields DEF SameSession, SameLife

LEMMA WmDpiChangedSame ==
  ASSUME NEW s \in Worlds, NEW dpi \in Nat, NEW extent \in Nat
  PROVE  SameSession(s, WmDpiChanged(s, dpi, extent))
<1> DEFINE normal == IF s.win.show = "normal" THEN extent ELSE s.win.normal
           w == [s.win EXCEPT !.dpi = dpi, !.normal = normal]
           placed == [s EXCEPT !.win = w]
           sized == IF s.win.show = "normal" /\ extent # s.win.normal
                    THEN WmSize(placed, "restored") ELSE placed
           marked == [sized EXCEPT !.app.pendingResize = TRUE,
                                   !.app.scaleApplied = FALSE]
           resized == ApplyDynamicResize(marked)
<1>1. WmDpiChanged(s, dpi, extent) = ApplyScale(resized)
  BY DEF WmDpiChanged, Worlds
<1>2. SameSession(s, placed)
  <2>1. w \in WindowStates /\ w.show = s.win.show
    BY DEF Worlds, WindowStates
  <2> HIDE DEF w
  <2> QED
    BY <2>1, PlacedSame
<1> HIDE DEF placed
<1>3. SameSession(s, sized)
  BY <1>2, WmSizeSame, SameSessionChains DEF SameSession
<1> HIDE DEF sized
<1>4. SameSession(s, marked)
  BY <1>3, MarkedSame, SameSessionChains DEF SameSession
<1> HIDE DEF marked
<1>5. SameSession(s, resized)
  BY <1>4, ApplyDynamicResizeSame, SameSessionChains DEF SameSession
<1> HIDE DEF resized
<1>6. SameSession(s, ApplyScale(resized))
  BY <1>5, ApplyScaleSame, SameSessionChains DEF SameSession
<1> QED
  BY <1>1, <1>6

-----------------------------------------------------------------------------
(* The invariant of a world.                                               *)

\* A recorded disconnect is on its way to the window, or need not be.
Reaches(s) ==
  s.app.disconnectSeen =>
    \/ \E i \in DOMAIN s.posted : s.posted[i] = "wmRDPDisconnected"
    \/ s.app.closing
    \/ s.win.show = "gone"

\* The end of the session is recorded, or queued to be, if it has a name.
Known(s) ==
  "OnDisconnected" \in s.app.names /\ s.ctl.link = "down"
    => s.app.disconnectSeen \/ Holds(s.ctl, "OnDisconnected")

\* What is recorded or queued did happen, who is advised has a sink, and only a
\* sink has names.
Truthful(s) ==
  /\ s.app.everConnected \/ Holds(s.ctl, "OnConnected") => s.ctl.everUp
  /\ s.ctl.link \in {"up", "retry", "leaving"} => s.ctl.everUp
  /\ s.app.logonError \/ Holds(s.ctl, "OnLogonError") => s.ctl.refused
  /\ s.ctl.advised <=> s.app.sink # "none"
  /\ s.app.sink = "none" => s.app.names = {}

Safe(s) == s \in Worlds /\ Reaches(s) /\ Known(s) /\ Truthful(s)

LEMMA SameSessionSafe ==
  ASSUME NEW s, NEW t, Safe(s), SameSession(s, t)
  PROVE  Safe(t)
<1>1. /\ {"OnDisconnected", "OnConnected", "OnLogonError"}
           \subseteq EventNames \ Announcements
  BY DEF EventNames, Announcements
<1>2. /\ Holds(s.ctl, "OnDisconnected") => Holds(t.ctl, "OnDisconnected")
      /\ Holds(t.ctl, "OnConnected") => Holds(s.ctl, "OnConnected")
      /\ Holds(t.ctl, "OnLogonError") => Holds(s.ctl, "OnLogonError")
  BY <1>1 DEF SameSession, Keeps
<1>3. Reaches(t)
  BY DEF Safe, SameSession, SameLife, Reaches
<1>4. Known(t)
  BY <1>2 DEF Safe, SameSession, SameLife, Keeps, Known
<1>5. Truthful(t)
  BY <1>2 DEF Safe, SameSession, SameLife, Keeps, Truthful
<1> QED
  BY <1>3, <1>4, <1>5 DEF Safe, SameSession

-----------------------------------------------------------------------------
(* What the lifecycle handlers establish.                                  *)

\* Another App, window or list of posted messages leaves what is known of the
\* control alone, as long as the facts it records are true.
LEMMA RecordedSafe ==
  ASSUME NEW s \in Worlds, Truthful(s), NEW t \in Worlds, t.ctl = s.ctl,
         Reaches(t),
         t.app.sink = s.app.sink, t.app.names = s.app.names,
         Known(s) \/ t.app.disconnectSeen,
         s.app.disconnectSeen => t.app.disconnectSeen,
         t.app.everConnected => s.app.everConnected \/ s.ctl.everUp,
         t.app.logonError => s.app.logonError \/ s.ctl.refused
  PROVE  Safe(t)
BY DEF Safe, Truthful, Known

LEMMA PostMessageFields ==
  ASSUME NEW s \in Worlds, NEW m \in PostedMessages
  PROVE  /\ PostMessage(s, m) \in Worlds
         /\ PostMessage(s, m).app = s.app
         /\ PostMessage(s, m).ctl = s.ctl
         /\ PostMessage(s, m).win = s.win
         /\ \A i \in DOMAIN s.posted :
              \/ s.win.show = "gone"
              \/ /\ i \in DOMAIN PostMessage(s, m).posted
                 /\ PostMessage(s, m).posted[i] = s.posted[i]
         /\ \/ s.win.show = "gone"
            \/ \E i \in DOMAIN PostMessage(s, m).posted :
                 PostMessage(s, m).posted[i] = m
<1> DEFINE q == Append(s.posted, m)
<1>1. /\ q \in Seq(PostedMessages)
      /\ \A i \in DOMAIN s.posted : i \in DOMAIN q /\ q[i] = s.posted[i]
      /\ \E i \in DOMAIN q : q[i] = m
  BY WorldFields, AppendType, AppendKeeps, AppendAdds
<1>2. PostMessage(s, m) = IF s.win.show = "gone" THEN s
                                                 ELSE [s EXCEPT !.posted = q]
  BY DEF PostMessage, Worlds
<1> HIDE DEF q
<1>3. CASE s.win.show = "gone"
  BY <1>2, <1>3
<1>4. CASE s.win.show # "gone"
  <2> DEFINE t == [s EXCEPT !.posted = q]
  <2>1. /\ t \in Worlds
        /\ t.app = s.app /\ t.ctl = s.ctl /\ t.win = s.win /\ t.posted = q
    BY <1>1 DEF Worlds
  <2>2. PostMessage(s, m) = t
    BY <1>2, <1>4
  <2> HIDE DEF t
  <2> QED
    BY <1>1, <2>1, <2>2
<1> QED
  BY <1>3, <1>4

LEMMA DestroyWindowFields ==
  ASSUME NEW s \in Worlds
  PROVE  /\ DestroyWindow(s) \in Worlds
         /\ DestroyWindow(s).app = s.app
         /\ DestroyWindow(s).ctl = s.ctl
         /\ DestroyWindow(s).win.show = "gone"
<1> DEFINE w == [s.win EXCEPT !.show = "gone", !.moving = FALSE, !.quit = TRUE]
           t == [s EXCEPT !.posted = << >>, !.win = w]
<1>1. << >> \in Seq(PostedMessages)
  BY EmptyType
<1>2. w \in WindowStates /\ w.show = "gone"
  BY DEF Worlds, WindowStates, Shows
<1>3. DestroyWindow(s) = t
  BY DEF DestroyWindow, Worlds
<1> HIDE DEF w
<1>4. t \in Worlds /\ t.app = s.app /\ t.ctl = s.ctl /\ t.win = w
  BY <1>1, <1>2 DEF Worlds
<1> QED
  BY <1>2, <1>3, <1>4

\* The handler of every disconnect leaves the world safe, also when the event
\* that told of it has just been taken from the queue.
LEMMA HandleDisconnectSafe ==
  ASSUME NEW s \in Worlds, Reaches(s), Truthful(s), NEW reason \in Nat
  PROVE  Safe(HandleDisconnect(s, reason))
<1>1. CASE s.app.disconnectSeen
  <2>1. HandleDisconnect(s, reason) = s
    BY <1>1 DEF HandleDisconnect
  <2> QED
    BY <1>1, <2>1 DEF Safe, Known
<1>2. CASE ~s.app.disconnectSeen
  <2> DEFINE a == [s.app EXCEPT !.disconnectSeen = TRUE, !.connected = FALSE,
                                !.discReason = reason]
             r == [s EXCEPT !.app = a]
             t == PostMessage(r, "wmRDPDisconnected")
  <2>1. /\ a \in AppStates
        /\ a.disconnectSeen
        /\ a.sink = s.app.sink /\ a.names = s.app.names
        /\ a.everConnected = s.app.everConnected
        /\ a.logonError = s.app.logonError
    BY DEF Worlds, AppStates
  <2>2. HandleDisconnect(s, reason) = t
    BY <1>2 DEF HandleDisconnect, Worlds
  <2> HIDE DEF a
  <2>3. r \in Worlds /\ r.app = a /\ r.ctl = s.ctl
    BY <2>1 DEF Worlds
  <2> HIDE DEF r
  <2>4. /\ t \in Worlds /\ t.app = a /\ t.ctl = s.ctl /\ t.win = r.win
        /\ \/ r.win.show = "gone"
           \/ \E i \in DOMAIN t.posted : t.posted[i] = "wmRDPDisconnected"
    BY <2>3, PostMessageFields DEF PostedMessages
  <2> HIDE DEF t
  <2>5. Reaches(t)
    BY <2>4 DEF Reaches
  <2>6. Safe(t)
    BY <2>1, <2>4, <2>5, RecordedSafe
  <2> QED
    BY <2>2, <2>6
<1> QED
  BY <1>1, <1>2

LEMMA PollSafe ==
  ASSUME NEW s, Safe(s)
  PROVE  Safe(PollConnectionState(s))
<1> DEFINE a == [s.app EXCEPT !.connected = TRUE, !.everConnected = TRUE]
           t == [s EXCEPT !.app = a]
<1>1. s \in Worlds /\ Reaches(s) /\ Known(s) /\ Truthful(s)
  BY DEF Safe
<1>2. \/ PollConnectionState(s) = t /\ ConnectedState(s.ctl) = 1
      \/ PollConnectionState(s) = HandleDisconnect(s, 0)
      \/ PollConnectionState(s) = s
  <2>1. CASE ~s.app.disconnectSeen /\ ConnectedState(s.ctl) = 1
    <3>1. PollConnectionState(s)
            = [s EXCEPT !.app.connected = TRUE, !.app.everConnected = TRUE]
      BY <2>1 DEF PollConnectionState
    <3> QED
      BY <1>1, <2>1, <3>1 DEF Worlds
  <2>2. CASE /\ ~s.app.disconnectSeen /\ ConnectedState(s.ctl) = 0
             /\ s.app.everConnected
    BY <2>2 DEF PollConnectionState
  <2>3. CASE /\ ~(~s.app.disconnectSeen /\ ConnectedState(s.ctl) = 1)
             /\ ~(/\ ~s.app.disconnectSeen /\ ConnectedState(s.ctl) = 0
                  /\ s.app.everConnected)
    BY <2>3 DEF PollConnectionState
  <2> QED
    BY <2>1, <2>2, <2>3
<1>3. Safe(HandleDisconnect(s, 0))
  BY <1>1, HandleDisconnectSafe
<1>4. ASSUME ConnectedState(s.ctl) = 1 PROVE Safe(t)
  <2>1. s.ctl.link \in {"up", "retry", "leaving"}
    BY <1>1, <1>4 DEF ConnectedState, Worlds, ControlStates, Links
  <2>2. s.ctl.everUp
    BY <1>1, <2>1 DEF Truthful
  <2>3. /\ a \in AppStates
        /\ a.sink = s.app.sink /\ a.names = s.app.names
        /\ a.disconnectSeen = s.app.disconnectSeen
        /\ a.logonError = s.app.logonError /\ a.closing = s.app.closing
    BY <1>1 DEF Worlds, AppStates
  <2> HIDE DEF a
  <2>4. /\ t \in Worlds /\ t.app = a /\ t.ctl = s.ctl
        /\ t.win = s.win /\ t.posted = s.posted
    BY <1>1, <2>3 DEF Worlds
  <2> HIDE DEF t
  <2>5. Reaches(t)
    BY <1>1, <2>3, <2>4 DEF Reaches
  <2> QED
    BY <1>1, <2>2, <2>3, <2>4, <2>5, RecordedSafe
<1> QED
  BY <1>2, <1>3, <1>4

\* A world whose App differs in what no event of the session's end depends on.
LEMMA NotedSafe ==
  ASSUME NEW s, Safe(s), NEW a \in AppStates,
         a.sink = s.app.sink, a.names = s.app.names,
         a.disconnectSeen = s.app.disconnectSeen, a.closing = s.app.closing,
         a.everConnected => s.app.everConnected \/ s.ctl.everUp,
         a.logonError => s.app.logonError \/ s.ctl.refused
  PROVE  Safe([s EXCEPT !.app = a])
<1> DEFINE t == [s EXCEPT !.app = a]
<1>1. s \in Worlds /\ Reaches(s) /\ Known(s) /\ Truthful(s)
  BY DEF Safe
<1>2. /\ t \in Worlds /\ t.app = a /\ t.ctl = s.ctl
      /\ t.win = s.win /\ t.posted = s.posted
  BY <1>1 DEF Worlds
<1> HIDE DEF t
<1>3. Reaches(t)
  BY <1>1, <1>2 DEF Reaches
<1> QED
  BY <1>1, <1>2, <1>3, RecordedSafe DEF t

LEMMA PostedSafe ==
  ASSUME NEW s, Safe(s), NEW m \in PostedMessages
  PROVE  Safe(PostMessage(s, m))
<1>1. s \in Worlds /\ Reaches(s) /\ Known(s) /\ Truthful(s)
  BY DEF Safe
<1> DEFINE t == PostMessage(s, m)
<1>2. /\ t \in Worlds /\ t.app = s.app /\ t.ctl = s.ctl /\ t.win = s.win
      /\ \A i \in DOMAIN s.posted :
           \/ s.win.show = "gone"
           \/ i \in DOMAIN t.posted /\ t.posted[i] = s.posted[i]
  BY <1>1, PostMessageFields
<1> HIDE DEF t
<1>3. Reaches(t)
  BY <1>1, <1>2 DEF Reaches
<1>4. Safe(t)
  BY <1>1, <1>2, <1>3, RecordedSafe
<1> QED
  BY <1>4 DEF t

\* A window that is still there may take any place.
LEMMA MovedSafe ==
  ASSUME NEW s, Safe(s), NEW w \in WindowStates,
         s.win.show # "gone" \/ w.show = "gone"
  PROVE  Safe([s EXCEPT !.win = w])
<1> DEFINE t == [s EXCEPT !.win = w]
<1>1. s \in Worlds /\ Reaches(s) /\ Known(s) /\ Truthful(s)
  BY DEF Safe
<1>2. /\ t \in Worlds /\ t.app = s.app /\ t.ctl = s.ctl
      /\ t.win = w /\ t.posted = s.posted
  BY <1>1 DEF Worlds
<1> HIDE DEF t
<1>3. Reaches(t)
  BY <1>1, <1>2 DEF Reaches
<1> QED
  BY <1>1, <1>2, <1>3, RecordedSafe DEF t

\* An event with a name.  The event itself has left the queue: what it tells
\* holds, and only if it tells of the end may that be unknown otherwise.
LEMMA NamedEventSafe ==
  ASSUME NEW s \in Worlds, Reaches(s), Truthful(s), NEW e \in Events,
         Known(s) \/ e.name = "OnDisconnected",
         e.name = "OnConnected" => s.ctl.everUp,
         e.name = "OnLogonError" => s.ctl.refused
  PROVE  Safe(OnNamedEvent(s, e))
<1>0. e.name \in EventNames /\ e.arg \in Nat
  BY DEF Events
<1>1. CASE e.name = "OnDisconnected"
  <2>1. OnNamedEvent(s, e) = HandleDisconnect(s, e.arg)
    BY <1>1 DEF OnNamedEvent
  <2> QED
    BY <1>0, <2>1, HandleDisconnectSafe
<1> SUFFICES ASSUME e.name # "OnDisconnected", Safe(s)
             PROVE  Safe(OnNamedEvent(s, e))
  BY <1>1 DEF Safe
<1>2. CASE e.name = "OnConnected"
  <2> DEFINE a == [s.app EXCEPT !.connected = TRUE, !.everConnected = TRUE]
             t == [s EXCEPT !.app = a]
  <2>1. OnNamedEvent(s, e) = PostMessage(t, "wmRDPConnected")
    BY <1>2 DEF OnNamedEvent, Worlds
  <2>2. /\ a \in AppStates
        /\ a.sink = s.app.sink /\ a.names = s.app.names
        /\ a.disconnectSeen = s.app.disconnectSeen
        /\ a.closing = s.app.closing /\ a.logonError = s.app.logonError
    BY DEF Worlds, AppStates
  <2> HIDE DEF a
  <2>3. Safe(t)
    BY <1>2, <2>2, NotedSafe
  <2> QED
    BY <2>1, <2>3, PostedSafe DEF PostedMessages
<1>3. CASE e.name \in {"OnLoginComplete", "OnFatalError", "OnLogonError",
                       "OnEnterFullScreenMode"}
  <2> DEFINE a == CASE e.name = "OnLoginComplete" ->
                         [s.app EXCEPT !.loginComplete = TRUE]
                    [] e.name = "OnFatalError" ->
                         [s.app EXCEPT !.fatalError = TRUE]
                    [] e.name = "OnLogonError" ->
                         [s.app EXCEPT !.logonError = TRUE]
                    [] e.name = "OnEnterFullScreenMode" ->
                         [s.app EXCEPT !.fullScreen = TRUE]
  <2>1. OnNamedEvent(s, e) = [s EXCEPT !.app = a]
    BY <1>3 DEF OnNamedEvent, Worlds
  <2>2. /\ a \in AppStates
        /\ a.sink = s.app.sink /\ a.names = s.app.names
        /\ a.disconnectSeen = s.app.disconnectSeen
        /\ a.closing = s.app.closing /\ a.everConnected = s.app.everConnected
        /\ a.logonError => s.app.logonError \/ e.name = "OnLogonError"
    BY <1>3 DEF Worlds, AppStates
  <2> HIDE DEF a
  <2> QED
    BY <2>1, <2>2, NotedSafe
<1>4. CASE e.name = "OnLeaveFullScreenMode"
  <2> DEFINE a == [s.app EXCEPT !.fullScreen = FALSE, !.pendingResize = TRUE]
             t == [s EXCEPT !.app = a]
  <2>1. OnNamedEvent(s, e) = ApplyDynamicResize(t)
    BY <1>4 DEF OnNamedEvent, Worlds
  <2>2. /\ a \in AppStates
        /\ a.sink = s.app.sink /\ a.names = s.app.names
        /\ a.disconnectSeen = s.app.disconnectSeen
        /\ a.closing = s.app.closing /\ a.everConnected = s.app.everConnected
        /\ a.logonError = s.app.logonError
    BY DEF Worlds, AppStates
  <2> HIDE DEF a
  <2>3. Safe(t)
    BY <2>2, NotedSafe
  <2> HIDE DEF t
  <2>4. t \in Worlds
    BY <2>3 DEF Safe
  <2> QED
    BY <2>1, <2>3, <2>4, ApplyDynamicResizeSame, SameSessionSafe
<1>5. CASE e.name = "OnRequestContainerMinimize" /\ s.win.show # "gone"
  <2> DEFINE w == [s.win EXCEPT !.show = "min", !.moving = FALSE]
             t == [s EXCEPT !.win = w]
  <2>1. OnNamedEvent(s, e) = WmSize(t, "minimized")
    BY <1>5 DEF OnNamedEvent, Worlds
  <2>2. w \in WindowStates
    BY DEF Worlds, WindowStates, Shows
  <2> HIDE DEF w
  <2>3. Safe(t)
    BY <1>5, <2>2, MovedSafe
  <2> HIDE DEF t
  <2>4. t \in Worlds
    BY <2>3 DEF Safe
  <2> QED
    BY <2>1, <2>3, <2>4, WmSizeSame, SameSessionSafe
<1>6. CASE e.name = "OnRemoteDesktopSizeChange" /\ e.arg > 0
  <2> DEFINE a == [s.app EXCEPT !.session = e.arg]
  <2>1. OnNamedEvent(s, e) = [s EXCEPT !.app = a]
    BY <1>6 DEF OnNamedEvent, Worlds
  <2>2. /\ a \in AppStates
        /\ a.sink = s.app.sink /\ a.names = s.app.names
        /\ a.disconnectSeen = s.app.disconnectSeen
        /\ a.closing = s.app.closing /\ a.everConnected = s.app.everConnected
        /\ a.logonError = s.app.logonError
    BY <1>0 DEF Worlds, AppStates
  <2> HIDE DEF a
  <2> QED
    BY <2>1, <2>2, NotedSafe
<1>7. CASE /\ e.name \notin {"OnConnected", "OnLoginComplete", "OnFatalError",
                             "OnLogonError", "OnEnterFullScreenMode",
                             "OnLeaveFullScreenMode"}
           /\ ~(e.name = "OnRequestContainerMinimize" /\ s.win.show # "gone")
           /\ ~(e.name = "OnRemoteDesktopSizeChange" /\ e.arg > 0)
  <2>1. OnNamedEvent(s, e) = s
    BY <1>7 DEF OnNamedEvent
  <2> QED
    BY <2>1
<1> QED
  BY <1>2, <1>3, <1>4, <1>5, <1>6, <1>7

-----------------------------------------------------------------------------
(* The messages and events as they are taken from their queues.            *)

\* The event at the head of the queue told the truth, and so do the rest.
LEMMA TakeEvent ==
  ASSUME NEW s, Safe(s), s.ctl.events # << >>,
         NEW e, e = Head(s.ctl.events),
         NEW t, t = [s EXCEPT !.ctl.events = Tail(@)]
  PROVE  /\ t \in Worlds /\ Reaches(t) /\ Truthful(t)
         /\ e \in Events
         /\ Known(t) \/ e.name = "OnDisconnected"
         /\ e.name = "OnConnected" => t.ctl.everUp
         /\ e.name = "OnLogonError" => t.ctl.refused
<1> DEFINE q == s.ctl.events
           c == [s.ctl EXCEPT !.events = Tail(q)]
<1>1. /\ s \in Worlds /\ Reaches(s) /\ Known(s) /\ Truthful(s)
      /\ q \in Seq(Events) /\ q # << >>
  BY DEF Safe, Worlds, ControlStates
<1>2. /\ Tail(q) \in Seq(Events) /\ e \in Events
      /\ 1 \in DOMAIN q /\ q[1] = e
      /\ \A i \in DOMAIN q : q[i] # e => \E j \in DOMAIN Tail(q) : Tail(q)[j] = q[i]
      /\ \A i \in DOMAIN Tail(q) : \E j \in DOMAIN q : Tail(q)[i] = q[j]
  BY <1>1, TailType, TailKeeps, TailIsOld, HeadIsFirst
<1>3. /\ c \in ControlStates /\ c.events = Tail(q)
      /\ c.link = s.ctl.link /\ c.advised = s.ctl.advised
      /\ c.everUp = s.ctl.everUp /\ c.refused = s.ctl.refused
  BY <1>1, <1>2 DEF Worlds, ControlStates
<1>4. /\ t \in Worlds /\ t.ctl = c
      /\ t.app = s.app /\ t.win = s.win /\ t.posted = s.posted
  BY <1>1, <1>3 DEF Worlds
<1>5. /\ Holds(s.ctl, e.name)
      /\ \A n \in EventNames : Holds(c, n) => Holds(s.ctl, n)
      /\ \A n \in EventNames \ {e.name} : Holds(s.ctl, n) => Holds(c, n)
  <2>1. Holds(s.ctl, e.name)
    BY <1>2 DEF Holds
  <2>2. \A n \in EventNames : Holds(c, n) => Holds(s.ctl, n)
    BY <1>2, <1>3 DEF Holds
  <2>3. \A n \in EventNames \ {e.name} : Holds(s.ctl, n) => Holds(c, n)
    <3> SUFFICES ASSUME NEW n \in EventNames \ {e.name},
                        NEW i \in DOMAIN q, q[i].name = n
                 PROVE  \E j \in DOMAIN Tail(q) : Tail(q)[j].name = n
      BY <1>3 DEF Holds
    <3>1. q[i] # e
      OBVIOUS
    <3>2. PICK j \in DOMAIN Tail(q) : Tail(q)[j] = q[i]
      BY <1>2, <3>1
    <3> QED
      BY <3>2
  <2> QED
    BY <2>1, <2>2, <2>3
<1> HIDE DEF q, c
<1>6. {"OnDisconnected", "OnConnected", "OnLogonError"} \subseteq EventNames
  BY DEF EventNames
<1>7. Reaches(t)
  BY <1>1, <1>4 DEF Reaches
<1>8. Truthful(t)
  BY <1>1, <1>3, <1>4, <1>5, <1>6 DEF Truthful
<1>9. Known(t) \/ e.name = "OnDisconnected"
  BY <1>1, <1>3, <1>4, <1>5, <1>6 DEF Known
<1>10. /\ e.name = "OnConnected" => t.ctl.everUp
       /\ e.name = "OnLogonError" => t.ctl.refused
  BY <1>1, <1>3, <1>4, <1>5 DEF Truthful
<1> QED
  BY <1>2, <1>4, <1>7, <1>8, <1>9, <1>10

LEMMA OnEventSafe ==
  ASSUME NEW s, Safe(s), s.ctl.events # << >>
  PROVE  Safe(OnEvent([s EXCEPT !.ctl.events = Tail(@)], Head(s.ctl.events)))
<1> DEFINE t == [s EXCEPT !.ctl.events = Tail(@)]
           e == Head(s.ctl.events)
<1>1. /\ t \in Worlds /\ Reaches(t) /\ Truthful(t)
      /\ e \in Events
      /\ Known(t) \/ e.name = "OnDisconnected"
      /\ e.name = "OnConnected" => t.ctl.everUp
      /\ e.name = "OnLogonError" => t.ctl.refused
  BY TakeEvent
<1> HIDE DEF t, e
<1>2. CASE e.name \in t.app.names
  <2>1. OnEvent(t, e) = OnNamedEvent(t, e)
    BY <1>2 DEF OnEvent
  <2> QED
    BY <1>1, <2>1, NamedEventSafe DEF t, e
<1>3. CASE e.name \notin t.app.names
  <2>1. OnEvent(t, e) = PollConnectionState(t)
    BY <1>3 DEF OnEvent
  <2>2. Safe(t)
    BY <1>1, <1>3 DEF Safe, Known
  <2> QED
    BY <2>1, <2>2, PollSafe DEF t, e
<1> QED
  BY <1>2, <1>3

\* Once the message that the session has ended is taken, nothing but its
\* handler may follow: it closes the window, or finds it closing.
LEMMA DispatchSafe ==
  ASSUME NEW s, Safe(s), s.posted # << >>,
         NEW t, t = [s EXCEPT !.posted = Tail(@)]
  PROVE  /\ Head(s.posted) = "wmRDPConnected" => Safe(WmRDPConnected(t))
         /\ Head(s.posted) = "wmRDPDisconnected" => Safe(WmRDPDisconnected(t))
<1> DEFINE q == s.posted
<1>1. /\ s \in Worlds /\ Reaches(s) /\ Known(s) /\ Truthful(s)
      /\ q \in Seq(PostedMessages) /\ q # << >>
  BY DEF Safe, Worlds
<1>2. /\ Tail(q) \in Seq(PostedMessages)
      /\ \A i \in DOMAIN q :
           q[i] # Head(q) => \E j \in DOMAIN Tail(q) : Tail(q)[j] = q[i]
  BY <1>1, TailType, TailKeeps
<1>3. /\ t \in Worlds /\ t.posted = Tail(q)
      /\ t.app = s.app /\ t.win = s.win /\ t.ctl = s.ctl
  BY <1>1, <1>2 DEF Worlds
<1>4. ASSUME Head(s.posted) = "wmRDPConnected" PROVE Safe(WmRDPConnected(t))
  <2>1. Reaches(t)
    BY <1>1, <1>2, <1>3, <1>4 DEF Reaches
  <2>2. Safe(t)
    BY <1>1, <1>3, <2>1, RecordedSafe
  <2> DEFINE c == IF FullScreen /\ ~t.app.fullScreen
                  THEN EnterFullScreen(t.ctl) ELSE t.ctl
             r == [t EXCEPT !.app = t.app, !.ctl = c]
  <2>3. Keeps(t.ctl, c, Announcements)
    BY <1>3, WorldFields, EnterFullScreenKeeps, KeepsItself
  <2>4. WmRDPConnected(t) = ApplyScale(r)
    BY <1>3 DEF WmRDPConnected, Worlds
  <2> HIDE DEF c
  <2>5. SameSession(t, r)
    BY <1>3, <2>3, WorldFields, SameSessionMade DEF SameLife
  <2> HIDE DEF r
  <2>6. SameSession(r, ApplyScale(r))
    BY <2>5, ApplyScaleSame DEF SameSession
  <2> QED
    BY <2>2, <2>4, <2>5, <2>6, SameSessionSafe
<1>5. Safe(WmRDPDisconnected(t))
  <2>1. CASE t.app.closing
    <3>1. WmRDPDisconnected(t) = t
      BY <2>1 DEF WmRDPDisconnected
    <3>2. Reaches(t)
      BY <2>1 DEF Reaches
    <3> QED
      BY <1>1, <1>3, <3>1, <3>2, RecordedSafe
  <2>2. CASE ~t.app.closing
    <3> DEFINE a == [t.app EXCEPT !.closing = TRUE]
               r == [t EXCEPT !.app = a]
               d == DestroyWindow(r)
    <3>1. /\ a \in AppStates
          /\ a.sink = t.app.sink /\ a.names = t.app.names
          /\ a.disconnectSeen = t.app.disconnectSeen
          /\ a.everConnected = t.app.everConnected
          /\ a.logonError = t.app.logonError
      BY <1>3 DEF Worlds, AppStates
    <3>2. WmRDPDisconnected(t) = d
      BY <1>3, <2>2 DEF WmRDPDisconnected, Worlds
    <3> HIDE DEF a
    <3>3. r \in Worlds /\ r.app = a /\ r.ctl = t.ctl
      BY <1>3, <3>1 DEF Worlds
    <3> HIDE DEF r
    <3>4. d \in Worlds /\ d.app = a /\ d.ctl = t.ctl /\ d.win.show = "gone"
      BY <3>3, DestroyWindowFields
    <3> HIDE DEF d
    <3>5. Reaches(d)
      BY <3>4 DEF Reaches
    <3> QED
      BY <1>1, <1>3, <3>1, <3>2, <3>4, <3>5, RecordedSafe
  <2> QED
    BY <2>1, <2>2
<1> QED
  BY <1>4, <1>5

-----------------------------------------------------------------------------
(* What the control may do.                                                *)

\* The control may move on, as long as it queues the news of an end and queues
\* only what is so.
LEMMA ControlSafe ==
  ASSUME NEW s, Safe(s), NEW c \in ControlStates, c.advised = s.ctl.advised,
         s.ctl.everUp => c.everUp, s.ctl.refused => c.refused,
         c.link \in {"up", "retry", "leaving"} => c.everUp,
         Holds(c, "OnConnected") => Holds(s.ctl, "OnConnected") \/ c.everUp,
         Holds(c, "OnLogonError") => Holds(s.ctl, "OnLogonError") \/ c.refused,
         Holds(s.ctl, "OnDisconnected") => Holds(c, "OnDisconnected"),
         c.link = "down" /\ c.advised
           => s.ctl.link = "down" \/ Holds(c, "OnDisconnected")
  PROVE  Safe([s EXCEPT !.ctl = c])
<1> DEFINE t == [s EXCEPT !.ctl = c]
<1>1. s \in Worlds /\ Reaches(s) /\ Known(s) /\ Truthful(s)
  BY DEF Safe
<1>2. /\ t \in Worlds /\ t.ctl = c
      /\ t.app = s.app /\ t.win = s.win /\ t.posted = s.posted
  BY <1>1 DEF Worlds
<1> HIDE DEF t
<1>3. Reaches(t)
  BY <1>1, <1>2 DEF Reaches
<1>4. Known(t)
  BY <1>1, <1>2 DEF Known, Truthful
<1>5. Truthful(t)
  BY <1>1, <1>2 DEF Truthful
<1> QED
  BY <1>2, <1>3, <1>4, <1>5 DEF Safe, t

\* The same for a control that has moved to d and raises one event.
LEMMA RaisedSafe ==
  ASSUME NEW s, Safe(s), NEW d \in ControlStates,
         d.advised = s.ctl.advised, d.events = s.ctl.events,
         s.ctl.everUp => d.everUp, s.ctl.refused => d.refused,
         d.link \in {"up", "retry", "leaving"} => d.everUp,
         NEW name \in EventNames, NEW arg \in Nat,
         name = "OnConnected" => d.everUp,
         name = "OnLogonError" => d.refused,
         d.link = "down" => s.ctl.link = "down" \/ name = "OnDisconnected"
  PROVE  Safe([s EXCEPT !.ctl = Raise(d, name, arg)])
<1> DEFINE c == Raise(d, name, arg)
<1>1. Keeps(d, c, {name})
  BY RaiseKeeps
<1>2. d.advised => Holds(c, name)
  BY RaiseHolds
<1> HIDE DEF c
<1>3. /\ \A n \in EventNames : Holds(d, n) <=> Holds(s.ctl, n)
      /\ {"OnDisconnected", "OnConnected", "OnLogonError"} \subseteq EventNames
  BY DEF Holds, EventNames
<1>4. /\ c \in ControlStates /\ c.link = d.link /\ c.advised = d.advised
      /\ c.everUp = d.everUp /\ c.refused = d.refused
      /\ Holds(c, "OnConnected") => Holds(s.ctl, "OnConnected") \/ c.everUp
      /\ Holds(c, "OnLogonError") => Holds(s.ctl, "OnLogonError") \/ c.refused
      /\ Holds(s.ctl, "OnDisconnected") => Holds(c, "OnDisconnected")
  BY <1>1, <1>3 DEF Keeps
<1>5. Safe([s EXCEPT !.ctl = c])
  BY <1>2, <1>4, ControlSafe
<1> QED
  BY <1>5 DEF c

LEMMA CloseSafe ==
  ASSUME NEW s, Safe(s), NEW ok \in BOOLEAN
  PROVE  Safe(WmClose(s, ok))
<1> DEFINE a == [s.app EXCEPT !.closing = TRUE]
           c == IF s.app.connected THEN Disconnect(s.ctl) ELSE s.ctl
           r == [s EXCEPT !.app = a]
           t == [r EXCEPT !.ctl = c]
           d == DestroyWindow(t)
<1>1. s \in Worlds /\ Reaches(s) /\ Known(s) /\ Truthful(s)
  BY DEF Safe
<1>2. WmClose(s, ok) = t \/ WmClose(s, ok) = d
  BY <1>1 DEF WmClose, Worlds
<1>3. /\ a \in AppStates
      /\ a.sink = s.app.sink /\ a.names = s.app.names
      /\ a.disconnectSeen = s.app.disconnectSeen
      /\ a.everConnected = s.app.everConnected
      /\ a.logonError = s.app.logonError
      /\ a.closing
  BY <1>1 DEF Worlds, AppStates
<1>4. /\ c \in ControlStates /\ c.events = s.ctl.events
      /\ c.advised = s.ctl.advised
      /\ c.everUp = s.ctl.everUp /\ c.refused = s.ctl.refused
      /\ c.link = "down" => s.ctl.link = "down"
      /\ c.link \in {"up", "retry", "leaving"}
           => s.ctl.link \in {"up", "retry", "leaving"}
  BY <1>1 DEF Disconnect, Worlds, ControlStates, Links
<1> HIDE DEF a, c
<1>5. Safe(r) /\ r.app = a /\ r.ctl = s.ctl
  <2>1. /\ r \in Worlds /\ r.app = a /\ r.ctl = s.ctl
    BY <1>1, <1>3 DEF Worlds
  <2> HIDE DEF r
  <2>2. Reaches(r)
    BY <1>3, <2>1 DEF Reaches
  <2> QED
    BY <1>1, <1>3, <2>1, <2>2, RecordedSafe
<1> HIDE DEF r
<1>6. Safe(t) /\ t.app = a /\ t.ctl = c
  <2>1. /\ c.link \in {"up", "retry", "leaving"} => c.everUp
        /\ Holds(c, "OnConnected") => Holds(r.ctl, "OnConnected")
        /\ Holds(c, "OnLogonError") => Holds(r.ctl, "OnLogonError")
        /\ Holds(r.ctl, "OnDisconnected") => Holds(c, "OnDisconnected")
    BY <1>1, <1>4, <1>5 DEF Truthful, Holds
  <2>2. Safe(t)
    BY <1>4, <1>5, <2>1, ControlSafe
  <2> QED
    BY <1>5, <2>2 DEF Safe, Worlds
<1> HIDE DEF t
<1>7. Safe(d)
  <2>1. t \in Worlds /\ Known(t) /\ Truthful(t)
    BY <1>6 DEF Safe
  <2>2. d \in Worlds /\ d.app = t.app /\ d.ctl = t.ctl /\ d.win.show = "gone"
    BY <2>1, DestroyWindowFields
  <2> HIDE DEF d
  <2>3. Reaches(d)
    BY <2>2 DEF Reaches
  <2> QED
    BY <2>1, <2>2, <2>3, RecordedSafe
<1> QED
  BY <1>2, <1>6, <1>7

LEMMA CleanupSafe ==
  ASSUME NEW s, Safe(s), NEW code \in 0..2
  PROVE  /\ Safe(Cleanup(s, code))
         /\ Cleanup(s, code).app.exitCode = code
         /\ Cleanup(s, code).ctl.everUp = s.ctl.everUp
         /\ Cleanup(s, code).ctl.refused = s.ctl.refused
<1> DEFINE a == [s.app EXCEPT !.sink = "none", !.names = {},
                              !.exitCode = code]
           c == [s.ctl EXCEPT !.advised = FALSE, !.events = << >>]
           t == [s EXCEPT !.app = a, !.ctl = c]
<1>1. s \in Worlds /\ Reaches(s) /\ Known(s) /\ Truthful(s)
  BY DEF Safe
<1>2. /\ a \in AppStates
      /\ a.sink = "none" /\ a.names = {}
      /\ a.disconnectSeen = s.app.disconnectSeen
      /\ a.closing = s.app.closing /\ a.everConnected = s.app.everConnected
      /\ a.logonError = s.app.logonError /\ a.exitCode = code
  BY <1>1 DEF Worlds, AppStates, SinkModes
<1>3. << >> \in Seq(Events) /\ DOMAIN << >> = {}
  BY EmptyType
<1>4. /\ c \in ControlStates /\ c.events = << >> /\ ~c.advised
      /\ c.link = s.ctl.link
      /\ c.everUp = s.ctl.everUp /\ c.refused = s.ctl.refused
  BY <1>1, <1>3 DEF Worlds, ControlStates
<1>5. Cleanup(s, code) = t
  BY <1>1 DEF Cleanup, Worlds
<1> HIDE DEF a, c
<1>6. /\ t \in Worlds /\ t.app = a /\ t.ctl = c
      /\ t.win = s.win /\ t.posted = s.posted
  BY <1>1, <1>2, <1>4 DEF Worlds
<1> HIDE DEF t
<1>7. Reaches(t)
  BY <1>1, <1>2, <1>6 DEF Reaches
<1>8. Known(t)
  BY <1>2, <1>6 DEF Known
<1>9. Truthful(t)
  BY <1>1, <1>2, <1>3, <1>4, <1>6 DEF Truthful, Holds
<1> QED
  BY <1>2, <1>4, <1>5, <1>6, <1>7, <1>8, <1>9 DEF Safe

-----------------------------------------------------------------------------
(* The inductive invariant.                                                *)

\* Beside the safety of the world: there is no session before the loop, whose
\* end would be missed by a sink connected later, or undone by Show.
IInv ==
  /\ pc \in Phases
  /\ budget \in [Kinds -> Nat]
  /\ Safe(World)
  /\ pc \in {"configure", "show", "connect"}
       => ~app.disconnectSeen /\ ctl.link = "idle"
  /\ ExitCodeFaithful

LEMMA ResolvedWidthType == resolveWidth(Extent, Screen, FullScreen) \in Nat
<1> DEFINE known == IF Screen <= 0 THEN 1024 ELSE Screen
           scaled == clampInt((known * 4) \div 5, 800, 1920)
           given == CASE Extent # extentAuto -> Extent
                      [] Extent = extentAuto /\ FullScreen -> known
                      [] OTHER -> scaled
<1>1. Screen \in Int /\ Extent \in Nat /\ FullScreen \in BOOLEAN
  BY ConstantsAssumption DEF ValidExtent, extentAuto
<1>2. known \in Nat
  BY <1>1
<1>3. scaled \in Nat
  <2> HIDE DEF known
  <2>1. (known * 4) \div 5 \in Int
    BY <1>2
  <2> DEFINE n == (known * 4) \div 5
  <2> HIDE DEF n
  <2>2. n \in Int => clampInt(n, 800, 1920) \in Nat
    BY DEF clampInt
  <2> QED
    BY <2>1, <2>2 DEF n
<1> HIDE DEF known, scaled
<1>4. given \in Nat
  <2>1. CASE Extent # extentAuto
    BY <1>1, <2>1
  <2>2. CASE Extent = extentAuto /\ FullScreen
    BY <1>2, <2>2
  <2>3. CASE Extent = extentAuto /\ ~FullScreen
    BY <1>3, <2>3
  <2> QED
    BY <1>1, <2>1, <2>2, <2>3
<1> HIDE DEF given
<1>5. Even(given) \in Nat
  BY <1>4 DEF Even
<1>6. resolveWidth(Extent, Screen, FullScreen) = Even(given)
  BY DEF resolveWidth, resolveExtent, given, known, scaled
<1> QED
  BY <1>5, <1>6

LEMMA WorldIs ==
  /\ World.app = app /\ World.win = win
  /\ World.ctl = ctl /\ World.posted = posted
BY DEF World

LEMMA BecomesWorld ==
  ASSUME NEW t \in Worlds, Become(t)
  PROVE  World' = t
BY DEF Become, World, Worlds

LEMMA SpendType ==
  ASSUME budget \in [Kinds -> Nat], NEW kind \in Kinds, Spend(kind)
  PROVE  budget' \in [Kinds -> Nat]
<1> DEFINE n == budget[kind]
<1>1. n \in Nat /\ n > 0 /\ budget' = [budget EXCEPT ![kind] = n - 1]
  BY DEF Spend
<1> HIDE DEF n
<1>2. n - 1 \in Nat
  BY <1>1
<1> QED
  BY <1>1, <1>2

\* A step in the loop that ends in a safe world keeps the invariant.
LEMMA LoopStep ==
  ASSUME pc = "loop", pc' = pc, budget' \in [Kinds -> Nat],
         NEW t, Safe(t), Become(t)
  PROVE  IInv'
<1>1. World' = t
  BY BecomesWorld DEF Safe
<1>2. Safe(World')
  BY <1>1
<1> QED
  BY <1>2 DEF IInv, ExitCodeFaithful, Phases

LEMMA InitInv == Init => IInv
<1> SUFFICES ASSUME Init PROVE IInv
  OBVIOUS
<1>1. app \in AppStates
  BY DEF Init, AppStates, SinkModes
<1>2. win \in WindowStates /\ win.show = "hidden"
  BY ConstantsAssumption DEF Init, WindowStates, Shows
<1>3. << >> \in Seq(Events) /\ << >> \in Seq(PostedMessages)
  BY EmptyType
<1>4. ctl \in ControlStates /\ ctl.events = << >> /\ ctl.link = "idle"
      /\ ~ctl.advised
  BY <1>3, ConstantsAssumption, UnscaledIsFactors
     DEF Init, ControlStates, Links, Reasons
<1>5. World \in Worlds
  BY <1>1, <1>2, <1>3, <1>4 DEF World, Worlds, Init
<1>6. ~Holds(ctl, "OnConnected") /\ ~Holds(ctl, "OnLogonError")
  BY <1>4 DEF Holds
<1>7. /\ app.sink = "none" /\ app.names = {} /\ ~app.disconnectSeen
      /\ ~app.everConnected /\ ~app.logonError
  BY DEF Init
<1>8. Safe(World)
  BY <1>4, <1>5, <1>6, <1>7, WorldIs DEF Safe, Reaches, Known, Truthful
<1> QED
  BY <1>7, <1>8, ConstantsAssumption DEF Init, IInv, Phases, ExitCodeFaithful

\* Leaving the program with a status that the control's facts bear out.
LEMMA CleanupInv ==
  ASSUME Safe(World), NEW code \in 0..2,
         code = 0 => ctl.everUp, code = 2 => ctl.refused,
         Become(Cleanup(World, code)), pc' = "done", budget' = budget,
         budget \in [Kinds -> Nat]
  PROVE  IInv'
<1> DEFINE t == Cleanup(World, code)
<1>1. /\ Safe(t) /\ t.app.exitCode = code
      /\ t.ctl.everUp = ctl.everUp /\ t.ctl.refused = ctl.refused
  BY CleanupSafe, WorldIs
<1>2. Become(t)
  OBVIOUS
<1> HIDE DEF t
<1>3. World' = t
  BY <1>1, <1>2, BecomesWorld DEF Safe
<1>4. /\ Safe(World')
      /\ app'.exitCode = code
      /\ ctl'.everUp = ctl.everUp /\ ctl'.refused = ctl.refused
  BY <1>1, <1>2, <1>3 DEF Become
<1> QED
  BY <1>4 DEF IInv, ExitCodeFaithful, Phases

\* What the program does of itself.
LEMMA ProgramInv ==
  ASSUME IInv, Program
  PROVE  IInv'
<1> USE WorldIs
<1>1. /\ World \in Worlds /\ Safe(World) /\ Reaches(World) /\ Known(World)
      /\ Truthful(World)
      /\ budget \in [Kinds -> Nat]
  BY DEF IInv, Safe
<1>2. CASE Configure
  <2> USE <1>2
  <2>1. PICK sink \in Sinks, names \in NameTables :
          LET extent == resolveWidth(Extent, Screen, FullScreen) IN
          /\ app' = [app EXCEPT !.sink = sink,
                                !.names = IF sink = "none" THEN {} ELSE names,
                                !.session = extent, !.fullScreen = FullScreen]
          /\ win' = [win EXCEPT !.normal = extent]
          /\ ctl' = [ctl EXCEPT !.advised = (sink # "none"), !.desk = extent]
    BY DEF Configure
  <2> DEFINE extent == resolveWidth(Extent, Screen, FullScreen)
  <2>2. extent \in Nat
    BY ResolvedWidthType
  <2> HIDE DEF extent
  <2> DEFINE read == IF sink = "none" THEN {} ELSE names
  <2>20. read \in SUBSET EventNames /\ (sink = "none" => read = {})
    BY ConstantsAssumption
  <2>21. app' = [app EXCEPT !.sink = sink, !.names = read, !.session = extent,
                           !.fullScreen = FullScreen]
    BY <2>1 DEF extent
  <2>22. /\ app \in AppStates /\ sink \in SinkModes
        /\ FullScreen \in BOOLEAN
    BY <1>1, ConstantsAssumption, WorldFields
  <2> HIDE DEF read
  <2>3. /\ app' \in AppStates /\ app'.sink = sink /\ app'.names = read
        /\ app'.disconnectSeen = app.disconnectSeen
        /\ app'.everConnected = app.everConnected
        /\ app'.logonError = app.logonError
    BY <2>20, <2>21, <2>22, <2>2 DEF AppStates
  <2>4. win' \in WindowStates
    BY <1>1, <2>1, <2>2, WorldFields DEF WindowStates, extent
  <2>5. /\ ctl' \in ControlStates /\ ctl'.events = ctl.events
        /\ ctl'.link = ctl.link /\ ctl'.advised = (sink # "none")
        /\ ctl'.everUp = ctl.everUp /\ ctl'.refused = ctl.refused
    BY <1>1, <2>1, <2>2, WorldFields DEF ControlStates, extent
  <2>6. /\ posted' = posted /\ budget' = budget /\ pc' = "show"
        /\ ~app.disconnectSeen /\ ctl.link = "idle"
    BY DEF Configure, IInv
  <2> DEFINE t == [app |-> app', win |-> win', ctl |-> ctl', posted |-> posted']
  <2>7. /\ t \in Worlds /\ World' = t
        /\ t.app = app' /\ t.win = win' /\ t.ctl = ctl' /\ t.posted = posted
    BY <1>1, <2>3, <2>4, <2>5, <2>6, WorldFields DEF World, Worlds
  <2> HIDE DEF t
  <2>8. Truthful(t)
    BY <1>1, <2>20, <2>3, <2>5, <2>7 DEF Truthful, Holds
  <2>9. Safe(t)
    BY <2>3, <2>5, <2>6, <2>7, <2>8 DEF Safe, Reaches, Known
  <2>10. Safe(World')
    BY <2>7, <2>9
  <2> QED
    BY <2>3, <2>5, <2>6, <2>10, <1>1 DEF IInv, ExitCodeFaithful, Phases
<1>3. CASE ConfigureFails
  <2> DEFINE a == [app EXCEPT !.exitCode = 1]
             t == [World EXCEPT !.app = a]
  <2>1. /\ app' = a /\ win' = win /\ ctl' = ctl /\ posted' = posted
        /\ pc' = "done" /\ budget' = budget
    BY <1>3 DEF ConfigureFails
  <2>2. /\ a \in AppStates /\ a.exitCode = 1
        /\ a.sink = app.sink /\ a.names = app.names
        /\ a.disconnectSeen = app.disconnectSeen
        /\ a.closing = app.closing
        /\ a.everConnected = app.everConnected
        /\ a.logonError = app.logonError
    BY <1>1, WorldFields DEF AppStates
  <2> HIDE DEF a
  <2>3. Safe(t)
    BY <1>1, <2>2, NotedSafe
  <2>4. World' = t
    BY <2>1 DEF World
  <2>5. Safe(World')
    BY <2>3, <2>4
  <2> QED
    BY <1>1, <2>1, <2>2, <2>5 DEF IInv, ExitCodeFaithful, Phases
<1>4. CASE Show
  <2> DEFINE c == IF FullScreen /\ ctl.early THEN EnterFullScreen(ctl) ELSE ctl
             w == [win EXCEPT !.show = "normal"]
             r == [World EXCEPT !.app = app, !.ctl = c]
             v == [r EXCEPT !.win = w]
             t == WmSize(v, "restored")
  <2>1. /\ Become(t) /\ pc = "show" /\ pc' = "connect" /\ budget' = budget
        /\ ~app.disconnectSeen /\ ctl.link = "idle"
    BY <1>4 DEF Show, IInv, World
  <2>2. Keeps(ctl, c, Announcements)
    BY <1>1, WorldFields, EnterFullScreenKeeps, KeepsItself
  <2>3. c.link = ctl.link
    BY <2>2 DEF Keeps
  <2> HIDE DEF c
  <2>4. SameSession(World, r)
    BY <1>1, <2>2, WorldFields, SameSessionMade DEF SameLife
  <2>5. r.ctl = c /\ r.app = app /\ r \in Worlds
    BY <2>4 DEF SameSession, World
  <2>6. Safe(r)
    BY <1>1, <2>4, SameSessionSafe
  <2> HIDE DEF r
  <2>7. w \in WindowStates
    BY <1>1, WorldFields DEF WindowStates, Shows
  <2> HIDE DEF w
  <2>8. v \in Worlds /\ v.app = app /\ v.ctl = c
    BY <2>5, <2>7 DEF Worlds
  <2> HIDE DEF v
  <2>9. Safe(v)
    BY <2>1, <2>5, <2>6, <2>8 DEF Safe, Reaches, Known, Truthful
  <2>10. SameSession(v, t)
    BY <2>8, WmSizeSame
  <2> HIDE DEF t
  <2>11. Safe(t) /\ t.app.disconnectSeen = FALSE /\ t.ctl.link = "idle"
    BY <2>1, <2>3, <2>8, <2>9, <2>10, SameSessionSafe
       DEF SameSession, SameLife, Keeps, AppStates
  <2>12. World' = t
    BY <2>1, <2>11, BecomesWorld DEF Safe
  <2>13. Safe(World') /\ ~app'.disconnectSeen /\ ctl'.link = "idle"
    BY <2>1, <2>11, <2>12 DEF Become
  <2> QED
    BY <1>1, <2>1, <2>13 DEF IInv, ExitCodeFaithful, Phases
<1>5. CASE Connect
  <2>1. CASE /\ Become([World EXCEPT
                   !.ctl = Raise([@ EXCEPT !.link = "connecting"],
                                 "OnConnecting", 0)])
             /\ pc' = "loop"
    <3> DEFINE d == [ctl EXCEPT !.link = "connecting"]
               t == [World EXCEPT !.ctl = Raise(d, "OnConnecting", 0)]
    <3>1. Become(t) /\ budget' = budget
      BY <1>5, <2>1 DEF Connect
    <3>2. /\ d \in ControlStates /\ d.events = ctl.events
          /\ d.link = "connecting" /\ d.advised = ctl.advised
          /\ d.everUp = ctl.everUp /\ d.refused = ctl.refused
      BY <1>1, WorldFields DEF ControlStates, Links
    <3> HIDE DEF d
    <3>3. Safe(t)
      BY <1>1, <3>2, RaisedSafe DEF EventNames
    <3> HIDE DEF t
    <3>4. World' = t
      BY <3>1, <3>3, BecomesWorld DEF Safe
    <3>5. Safe(World')
      BY <3>3, <3>4
    <3> QED
      BY <1>1, <2>1, <3>1, <3>5 DEF IInv, ExitCodeFaithful, Phases
  <2>2. CASE Become(Cleanup(World, 1)) /\ pc' = "done"
    BY <1>1, <1>5, <2>2, CleanupInv DEF Connect
  <2> QED
    BY <1>5, <2>1, <2>2 DEF Connect
<1>6. CASE Finish
  <2> DEFINE code == ExitCode(app)
  <2>1. /\ app.everConnected \in BOOLEAN /\ app.logonError \in BOOLEAN
        /\ app.loginComplete \in BOOLEAN /\ app.fatalError \in BOOLEAN
    BY <1>1, WorldFields DEF AppStates
  <2>2. /\ code \in 0..2
        /\ code = 0 => app.everConnected
        /\ code = 2 => app.logonError
    BY <2>1 DEF ExitCode
  <2>3. /\ code = 0 => ctl.everUp
        /\ code = 2 => ctl.refused
    BY <1>1, <2>2 DEF Truthful
  <2>4. Become(Cleanup(World, code)) /\ pc' = "done" /\ budget' = budget
    BY <1>6 DEF Finish
  <2> HIDE DEF code
  <2> QED
    BY <1>1, <2>2, <2>3, <2>4, CleanupInv
<1>7. CASE DeliverEvent
  <2> DEFINE t == OnEvent([World EXCEPT !.ctl.events = Tail(@)],
                          Head(ctl.events))
  <2>1. /\ ctl.events # << >> /\ Become(t)
        /\ pc = "loop" /\ pc' = pc /\ budget' = budget
    BY <1>7 DEF DeliverEvent
  <2>2. Safe(t)
    BY <1>1, <2>1, OnEventSafe
  <2> HIDE DEF t
  <2> QED
    BY <1>1, <2>1, <2>2, LoopStep
<1>8. CASE DispatchPosted
  <2> DEFINE r == [World EXCEPT !.posted = Tail(@)]
  <2>1. PICK t : /\ Become(t)
                 /\ \/ Head(posted) = "wmRDPConnected" /\ t = WmRDPConnected(r)
                    \/ Head(posted) = "wmRDPDisconnected"
                       /\ t = WmRDPDisconnected(r)
    BY <1>8 DEF DispatchPosted
  <2>2. posted # << >> /\ pc = "loop" /\ pc' = pc /\ budget' = budget
    BY <1>8 DEF DispatchPosted
  <2>3. /\ Head(posted) = "wmRDPConnected" => Safe(WmRDPConnected(r))
        /\ Head(posted) = "wmRDPDisconnected" => Safe(WmRDPDisconnected(r))
    BY <1>1, <2>2, DispatchSafe
  <2> HIDE DEF r
  <2>4. Safe(t) /\ Become(t)
    BY <2>1, <2>3
  <2> QED
    BY <1>1, <2>2, <2>4, LoopStep
<1> QED
  BY <1>2, <1>3, <1>4, <1>5, <1>6, <1>7, <1>8 DEF Program

\* A window that is still there takes another place, and WM_SIZE comes for it.
LEMMA MovesInv ==
  ASSUME Safe(World), pc = "loop", pc' = pc, budget' \in [Kinds -> Nat],
         win.show # "gone",
         NEW w \in WindowStates,
         NEW how \in {"minimized", "maximized", "restored"},
         Become(WmSize([World EXCEPT !.win = w], how))
  PROVE  IInv'
<1> DEFINE v == [World EXCEPT !.win = w]
           t == WmSize(v, how)
<1>1. Become(t)
  OBVIOUS
<1>2. Safe(v)
  BY MovedSafe, WorldIs
<1> HIDE DEF v
<1>3. Safe(t)
  BY <1>2, WmSizeSame, SameSessionSafe DEF Safe
<1> HIDE DEF t
<1> QED
  BY <1>1, <1>3, LoopStep

\* What the user does.
LEMMA UserInv ==
  ASSUME IInv, User
  PROVE  IInv'
<1> USE WorldIs
<1>1. /\ World \in Worlds /\ Safe(World)
      /\ win \in WindowStates
      /\ budget \in [Kinds -> Nat]
  BY WorldFields DEF IInv, Safe
<1>2. CASE CloseWindow
  <2>1. PICK ok \in {TRUE, ctl.link # "down"} : Become(WmClose(World, ok))
    BY <1>2 DEF CloseWindow
  <2>2. ok \in BOOLEAN
    OBVIOUS
  <2>3. pc = "loop" /\ pc' = pc /\ Spend("close")
    BY <1>2 DEF CloseWindow, WindowThere
  <2>4. budget' \in [Kinds -> Nat]
    BY <1>1, <2>3, SpendType DEF Kinds
  <2>5. Safe(WmClose(World, ok))
    BY <1>1, <2>2, CloseSafe
  <2> QED
    BY <2>1, <2>3, <2>4, <2>5, LoopStep
<1>3. ASSUME NEW kind, Gesture(kind)
      PROVE  /\ pc = "loop" /\ pc' = pc /\ win.show # "gone"
             /\ budget' \in [Kinds -> Nat]
  <2>1. pc = "loop" /\ pc' = pc /\ win.show # "gone" /\ Spend("gesture")
    BY <1>3 DEF Gesture, WindowThere
  <2> QED
    BY <1>1, <2>1, SpendType DEF Kinds
<1>4. CASE Drag
  <2>1. PICK extent \in Extents \ {win.normal} :
          Become(WmSize([World EXCEPT !.win.normal = extent,
                                      !.win.moving = TRUE], "restored"))
    BY <1>4 DEF Drag
  <2> DEFINE w == [win EXCEPT !.normal = extent, !.moving = TRUE]
  <2>2. /\ w \in WindowStates
        /\ Become(WmSize([World EXCEPT !.win = w], "restored"))
    BY <1>1, <2>1, ConstantsAssumption DEF WindowStates, World
  <2>3. Gesture("drag")
    BY <1>4 DEF Drag
  <2> HIDE DEF w
  <2> QED
    BY <1>1, <1>3, <2>2, <2>3, MovesInv
<1>5. CASE EndDrag
  <2> DEFINE w == [win EXCEPT !.moving = FALSE]
             v == [World EXCEPT !.win = w]
             t == ApplyDynamicResize(v)
  <2>1. /\ Become(t) /\ pc = "loop" /\ pc' = pc /\ win.show # "gone"
        /\ budget' = budget
    BY <1>5 DEF EndDrag, WindowThere, World
  <2>2. w \in WindowStates
    BY <1>1 DEF WindowStates
  <2> HIDE DEF w
  <2>3. Safe(v)
    BY <1>1, <2>1, <2>2, MovedSafe
  <2> HIDE DEF v
  <2>4. Safe(t)
    BY <2>3, ApplyDynamicResizeSame, SameSessionSafe DEF Safe
  <2> HIDE DEF t
  <2> QED
    BY <1>1, <2>1, <2>4, LoopStep
<1>6. CASE Maximise
  <2> DEFINE w == [win EXCEPT !.show = "max"]
  <2>1. /\ w \in WindowStates
        /\ Become(WmSize([World EXCEPT !.win = w], "maximized"))
        /\ Gesture("maximise")
    BY <1>1, <1>6 DEF Maximise, WindowStates, Shows, World
  <2> HIDE DEF w
  <2> QED
    BY <1>1, <1>3, <2>1, MovesInv
<1>7. CASE Restore
  <2> DEFINE w == [win EXCEPT !.show = "normal"]
  <2>1. /\ w \in WindowStates
        /\ Become(WmSize([World EXCEPT !.win = w], "restored"))
        /\ Gesture("restore")
    BY <1>1, <1>7 DEF Restore, WindowStates, Shows, World
  <2> HIDE DEF w
  <2> QED
    BY <1>1, <1>3, <2>1, MovesInv
<1>8. CASE Minimise
  <2> DEFINE w == [win EXCEPT !.show = "min"]
  <2>1. /\ w \in WindowStates
        /\ Become(WmSize([World EXCEPT !.win = w], "minimized"))
        /\ Gesture("minimise")
    BY <1>1, <1>8 DEF Minimise, WindowStates, Shows, World
  <2> HIDE DEF w
  <2> QED
    BY <1>1, <1>3, <2>1, MovesInv
<1>9. CASE ChangeDpi
  <2>1. PICK dpi \in Dpis \ {win.dpi}, extent \in Extents \cup {win.normal} :
          Become(WmDpiChanged(World, dpi, extent))
    BY <1>9 DEF ChangeDpi
  <2>2. dpi \in Nat /\ extent \in Nat
    BY <1>1, ConstantsAssumption DEF WindowStates
  <2>3. pc = "loop" /\ pc' = pc /\ Spend("dpi")
    BY <1>9 DEF ChangeDpi, WindowThere
  <2>4. budget' \in [Kinds -> Nat]
    BY <1>1, <2>3, SpendType DEF Kinds
  <2>5. Safe(WmDpiChanged(World, dpi, extent))
    BY <1>1, <2>2, WmDpiChangedSame, SameSessionSafe
  <2> QED
    BY <2>1, <2>3, <2>4, <2>5, LoopStep
<1> QED
  BY <1>2, <1>4, <1>5, <1>6, <1>7, <1>8, <1>9 DEF User

\* A control that moves to a safe state of its own.
LEMMA ControlMovesInv ==
  ASSUME Safe(World), budget' \in [Kinds -> Nat],
         NEW c, ControlMoves(c), Safe([World EXCEPT !.ctl = c])
  PROVE  IInv'
<1>1. /\ pc = "loop" /\ pc' = pc
      /\ ctl' = c /\ app' = app /\ win' = win /\ posted' = posted
  BY DEF ControlMoves
<1>2. World' = [World EXCEPT !.ctl = c]
  BY <1>1 DEF World
<1>3. Safe(World')
  BY <1>2
<1> QED
  BY <1>1, <1>3 DEF IInv, ExitCodeFaithful, Phases

\* What the control and the server do: the news of an end is always raised, and
\* only a session that is up raises what needs one.
LEMMA ControlInv ==
  ASSUME IInv, Control
  PROVE  IInv'
<1> USE WorldIs
<1>1. /\ World \in Worlds /\ Safe(World) /\ Truthful(World)
      /\ ctl \in ControlStates
      /\ budget \in [Kinds -> Nat]
  BY WorldFields DEF IInv, Safe
<1>2. /\ ctl.link \in {"up", "retry", "leaving"} => ctl.everUp
  BY <1>1 DEF Truthful
<1>3. ASSUME NEW kind \in Kinds, Spend(kind) PROVE budget' \in [Kinds -> Nat]
  BY <1>1, <1>3, SpendType
<1>4. {"close", "gesture", "dpi", "toggle", "resize", "retry", "logonError",
       "fatal", "minimise"} \subseteq Kinds
  BY DEF Kinds
\* The control goes to a link and raises an event.
<1>5. ASSUME NEW d \in ControlStates,
             d.advised = ctl.advised, d.events = ctl.events,
             ctl.everUp => d.everUp, ctl.refused => d.refused,
             d.link \in {"up", "retry", "leaving"} => d.everUp,
             NEW name \in EventNames, NEW arg \in Nat,
             name = "OnConnected" => d.everUp,
             name = "OnLogonError" => d.refused,
             d.link = "down" => ctl.link = "down" \/ name = "OnDisconnected",
             ControlMoves(Raise(d, name, arg)), budget' \in [Kinds -> Nat]
      PROVE  IInv'
  <2> DEFINE c == Raise(d, name, arg)
  <2>1. Safe([World EXCEPT !.ctl = c])
    BY <1>1, <1>5, RaisedSafe
  <2>2. ControlMoves(c)
    BY <1>5
  <2> HIDE DEF c
  <2> QED
    BY <1>1, <1>5, <2>1, <2>2, ControlMovesInv
<1>6. ASSUME NEW reason \in Reasons, ControlMoves(Ended(reason)),
             budget' \in [Kinds -> Nat]
      PROVE  IInv'
  <2> DEFINE d == [ctl EXCEPT !.link = "down", !.reason = reason]
  <2>1. /\ d \in ControlStates /\ d.link = "down"
        /\ d.advised = ctl.advised /\ d.events = ctl.events
        /\ d.everUp = ctl.everUp /\ d.refused = ctl.refused
    BY <1>1, <1>6 DEF ControlStates, Links
  <2> reason \in Nat
    BY <1>6 DEF Reasons, NormalReason, ErrorReason
  <2>2. ControlMoves(Raise(d, "OnDisconnected", reason))
    BY <1>6 DEF Ended
  <2> HIDE DEF d
  <2> QED
    BY <1>5, <1>6, <2>1, <2>2 DEF EventNames
<1>7. NormalReason \in Reasons /\ ErrorReason \in Reasons
  BY DEF Reasons
<1>8. CASE ConnectResolves
  <2> DEFINE d == [ctl EXCEPT !.link = "up", !.everUp = TRUE]
  <2>1. /\ d \in ControlStates /\ d.everUp /\ d.link = "up"
        /\ d.advised = ctl.advised /\ d.events = ctl.events
        /\ d.refused = ctl.refused
    BY <1>1 DEF ControlStates, Links
  <2>2. /\ budget' \in [Kinds -> Nat]
        /\ \/ ControlMoves(Raise(d, "OnConnected", 0))
           \/ ControlMoves(Ended(ErrorReason))
    BY <1>1, <1>8 DEF ConnectResolves
  <2> HIDE DEF d
  <2>3. CASE ControlMoves(Raise(d, "OnConnected", 0))
    BY <1>5, <2>1, <2>2, <2>3 DEF EventNames
  <2>4. CASE ControlMoves(Ended(ErrorReason))
    BY <1>6, <1>7, <2>2, <2>4
  <2> QED
    BY <2>2, <2>3, <2>4
<1>9. CASE LogIn
  <2> DEFINE d == [ctl EXCEPT !.loggedIn = TRUE]
  <2>1. /\ d \in ControlStates /\ d.everUp = ctl.everUp /\ d.link = ctl.link
        /\ d.advised = ctl.advised /\ d.events = ctl.events
        /\ d.refused = ctl.refused
    BY <1>1 DEF ControlStates
  <2>2. /\ budget' \in [Kinds -> Nat]
        /\ ControlMoves(Raise(d, "OnLoginComplete", 0))
    BY <1>1, <1>9 DEF LogIn
  <2> HIDE DEF d
  <2> QED
    BY <1>2, <1>5, <2>1, <2>2 DEF EventNames
<1>10. CASE LogonError
  <2> DEFINE d == [ctl EXCEPT !.refused = TRUE]
  <2>1. /\ d \in ControlStates /\ d.everUp = ctl.everUp /\ d.link = ctl.link
        /\ d.advised = ctl.advised /\ d.events = ctl.events
        /\ d.refused
    BY <1>1 DEF ControlStates
  <2>2. /\ budget' \in [Kinds -> Nat]
        /\ ControlMoves(Raise(d, "OnLogonError", 0))
    BY <1>3, <1>4, <1>10 DEF LogonError
  <2> HIDE DEF d
  <2> QED
    BY <1>2, <1>5, <2>1, <2>2 DEF EventNames
<1>11. CASE FatalError
  <2>1. /\ budget' \in [Kinds -> Nat]
        /\ ControlMoves(Raise(ctl, "OnFatalError", 0))
    BY <1>3, <1>4, <1>11 DEF FatalError
  <2> QED
    BY <1>1, <1>2, <1>5, <2>1 DEF EventNames
<1>12. CASE LoseLink
  <2> DEFINE d == [ctl EXCEPT !.link = "retry"]
  <2>1. /\ d \in ControlStates /\ d.everUp = ctl.everUp /\ d.link = "retry"
        /\ d.advised = ctl.advised /\ d.events = ctl.events
        /\ d.refused = ctl.refused
    BY <1>1 DEF ControlStates, Links
  <2>2. /\ budget' \in [Kinds -> Nat] /\ ctl.link = "up"
        /\ ControlMoves(Raise(d, "OnAutoReconnecting", 0))
    BY <1>3, <1>4, <1>12 DEF LoseLink
  <2> HIDE DEF d
  <2> QED
    BY <1>2, <1>5, <2>1, <2>2 DEF EventNames
<1>13. CASE RegainLink
  <2> DEFINE d == [ctl EXCEPT !.link = "up"]
  <2>1. /\ d \in ControlStates /\ d.everUp = ctl.everUp /\ d.link = "up"
        /\ d.advised = ctl.advised /\ d.events = ctl.events
        /\ d.refused = ctl.refused
    BY <1>1 DEF ControlStates, Links
  <2>2. /\ budget' \in [Kinds -> Nat] /\ ctl.link = "retry"
        /\ ControlMoves(Raise(d, "OnAutoReconnected", 0))
    BY <1>1, <1>13 DEF RegainLink
  <2> HIDE DEF d
  <2> QED
    BY <1>2, <1>5, <2>1, <2>2 DEF EventNames
<1>14. CASE SessionEnds
  <2>1. PICK reason \in {NormalReason, ErrorReason} :
          ControlMoves(Ended(reason))
    BY <1>14 DEF SessionEnds
  <2>2. budget' \in [Kinds -> Nat]
    BY <1>1, <1>14 DEF SessionEnds
  <2> QED
    BY <1>6, <1>7, <2>1, <2>2
<1>15. CASE DisconnectCompletes
  <2>1. /\ ControlMoves(Ended(NormalReason))
        /\ budget' \in [Kinds -> Nat]
    BY <1>1, <1>15 DEF DisconnectCompletes
  <2> QED
    BY <1>6, <1>7, <2>1
\* The control shows another display and says so.
<1>16. ASSUME NEW c, Keeps(ctl, c, Announcements), ControlMoves(c),
              budget' \in [Kinds -> Nat]
       PROVE  IInv'
  <2>1. SameSession(World, [World EXCEPT !.app = app, !.ctl = c])
    BY <1>1, <1>16, WorldFields, SameSessionMade DEF SameLife
  <2>2. [World EXCEPT !.app = app, !.ctl = c] = [World EXCEPT !.ctl = c]
    BY DEF World
  <2>3. Safe([World EXCEPT !.ctl = c])
    BY <1>1, <2>1, <2>2, SameSessionSafe
  <2> QED
    BY <1>1, <1>16, <2>3, ControlMovesInv
<1>17. CASE ToggleFullScreen
  <2> DEFINE d == [ctl EXCEPT !.full = FALSE]
  <2>1. /\ d \in ControlStates /\ d.everUp = ctl.everUp /\ d.link = ctl.link
        /\ d.advised = ctl.advised /\ d.events = ctl.events
        /\ d.refused = ctl.refused
    BY <1>1 DEF ControlStates
  <2>2. /\ budget' \in [Kinds -> Nat]
        /\ \/ ControlMoves(Raise(d, "OnLeaveFullScreenMode", 0))
           \/ ControlMoves(EnterFullScreen(ctl))
    BY <1>3, <1>4, <1>17 DEF ToggleFullScreen
  <2> HIDE DEF d
  <2>3. CASE ControlMoves(Raise(d, "OnLeaveFullScreenMode", 0))
    BY <1>2, <1>5, <2>1, <2>2, <2>3 DEF EventNames
  <2>4. CASE ControlMoves(EnterFullScreen(ctl))
    BY <1>1, <1>16, <2>2, <2>4, EnterFullScreenKeeps
  <2> QED
    BY <2>2, <2>3, <2>4
<1>18. CASE RequestMinimise
  <2>1. /\ budget' \in [Kinds -> Nat]
        /\ ControlMoves(Raise(ctl, "OnRequestContainerMinimize", 0))
    BY <1>3, <1>4, <1>18 DEF RequestMinimise
  <2> QED
    BY <1>1, <1>2, <1>5, <2>1 DEF EventNames
<1>19. CASE ServerResizes
  <2>1. PICK extent \in ServerExtents \ {ctl.desk} :
          ControlMoves(Resized(ctl, extent, ctl.scale))
    BY <1>19 DEF ServerResizes
  <2>2. budget' \in [Kinds -> Nat]
    BY <1>3, <1>4, <1>19 DEF ServerResizes
  <2>3. extent \in Nat /\ ctl.scale \in Factors
    BY <1>1, ConstantsAssumption DEF ControlStates
  <2>4. Keeps(ctl, Resized(ctl, extent, ctl.scale), Announcements)
    BY <1>1, <2>3, ResizedKeeps
  <2> QED
    BY <1>16, <2>1, <2>2, <2>4
<1> QED
  BY <1>8, <1>9, <1>10, <1>11, <1>12, <1>13, <1>14, <1>15, <1>17, <1>18, <1>19
     DEF Control

LEMMA NextInv == IInv /\ [Next]_vars => IInv'
<1> SUFFICES ASSUME IInv, [Next]_vars PROVE IInv'
  OBVIOUS
<1>1. CASE Program
  BY <1>1, ProgramInv
<1>2. CASE User
  BY <1>2, UserInv
<1>3. CASE Control
  BY <1>3, ControlInv
<1>4. CASE UNCHANGED vars
  <2>1. World' = World
    BY <1>4 DEF World, vars
  <2>2. Safe(World')
    BY <2>1 DEF IInv
  <2> QED
    BY <1>4, <2>2 DEF IInv, vars, ExitCodeFaithful
<1> QED
  BY <1>1, <1>2, <1>3, <1>4 DEF Next, Exited

LEMMA Invariance == Spec => []IInv
<1> QED
  BY InitInv, NextInv, PTL DEF Spec

-----------------------------------------------------------------------------
(* The theorems.                                                           *)

\* Every state has its type (TypeOK).
THEOREM TypeCorrect == Spec => []TypeOK
<1>1. IInv => TypeOK
  BY WorldFields, WorldIs DEF IInv, Safe, TypeOK
<1> QED
  BY <1>1, Invariance, PTL

\* A recorded disconnect reaches the window (DisconnectReachesWindow).
THEOREM DisconnectReachesWindowTheorem == Spec => []DisconnectReachesWindow
<1>1. IInv => DisconnectReachesWindow
  BY WorldIs DEF IInv, Safe, Reaches, DisconnectReachesWindow
<1> QED
  BY <1>1, Invariance, PTL

\* The end of a session is never lost (NoLostDisconnect).
THEOREM NoLostDisconnectTheorem == Spec => []NoLostDisconnect
<1>1. IInv => NoLostDisconnect
  BY WorldIs DEF IInv, Safe, Known, NoLostDisconnect, Pending, Holds
<1> QED
  BY <1>1, Invariance, PTL

\* The exit status is borne out by the control's facts (ExitCodeFaithful).
THEOREM ExitCodeFaithfulTheorem == Spec => []ExitCodeFaithful
<1>1. IInv => ExitCodeFaithful
  BY DEF IInv
<1> QED
  BY <1>1, Invariance, PTL
=============================================================================
