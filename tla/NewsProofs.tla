----------------------------- MODULE NewsProofs -----------------------------
(***************************************************************************)
(* What App knows of its control, for every value of the constants: the    *)
(* size and the mode of the remote desktop, the end of the session and its *)
(* reason, with these that App implements Session, and the scale.          *)
(*                                                                         *)
(* News travels in the queue of events, so a fact of the control is either *)
(* known to the program or what the latest event about it says.  The       *)
(* invariant says this of each fact, and that the end is the last news of  *)
(* the session's life.                                                     *)
(***************************************************************************)
EXTENDS AppProofs

-----------------------------------------------------------------------------
(* The latest event about something.                                       *)

Silent(q, N) == \A i \in DOMAIN q : q[i].name \notin N

Latest(q, N, i) ==
  /\ i \in DOMAIN q /\ q[i].name \in N
  /\ \A j \in DOMAIN q : i < j => q[j].name \notin N

\* An event about something else changes nothing of this.
LEMMA AppendOther ==
  ASSUME NEW q \in Seq(Events), NEW e \in Events, NEW N, e.name \notin N
  PROVE  /\ Silent(q, N) => Silent(Append(q, e), N)
         /\ \A i \in DOMAIN q : Latest(q, N, i) =>
              /\ Latest(Append(q, e), N, i)
              /\ i \in DOMAIN Append(q, e) /\ Append(q, e)[i] = q[i]
<1>1. /\ \A i \in DOMAIN q : i \in DOMAIN Append(q, e) /\ Append(q, e)[i] = q[i]
      /\ \A i \in DOMAIN Append(q, e) :
           Append(q, e)[i] = e \/ (i \in DOMAIN q /\ Append(q, e)[i] = q[i])
  BY AppendKeeps, AppendIsNew
<1> DEFINE r == Append(q, e)
<1> HIDE DEF r
<1> QED
  BY <1>1 DEF Silent, Latest, r

\* An event about it is the latest.
LEMMA AppendLatest ==
  ASSUME NEW q \in Seq(Events), NEW e \in Events, NEW N, e.name \in N
  PROVE  \E i \in DOMAIN Append(q, e) :
           Latest(Append(q, e), N, i) /\ Append(q, e)[i] = e
<1> DEFINE r == Append(q, e)
           i == Len(q) + 1
<1>1. /\ i \in DOMAIN r /\ r[i] = e
      /\ \A j \in DOMAIN r : ~(i < j)
  OBVIOUS
<1> HIDE DEF r, i
<1>2. Latest(r, N, i)
  BY <1>1 DEF Latest
<1> QED
  BY <1>1, <1>2 DEF r

\* The event taken from the queue is the latest, or one before it.
LEMMA TailLatest ==
  ASSUME NEW q \in Seq(Events), q # << >>, NEW N
  PROVE  /\ Silent(q, N) => Silent(Tail(q), N) /\ Head(q).name \notin N
         /\ \A i \in DOMAIN q : Latest(q, N, i) =>
              \/ q[i] = Head(q) /\ Silent(Tail(q), N)
              \/ \E j \in DOMAIN Tail(q) :
                   Latest(Tail(q), N, j) /\ Tail(q)[j] = q[i]
<1> DEFINE r == Tail(q)
<1>1. /\ Len(q) \in Nat /\ DOMAIN q = 1..Len(q) /\ 1 \in DOMAIN q
      /\ q[1] = Head(q)
      /\ DOMAIN r = 1..(Len(q) - 1)
      /\ \A j \in DOMAIN r : j + 1 \in DOMAIN q /\ r[j] = q[j + 1]
  OBVIOUS
<1> HIDE DEF r
<1>2. Silent(q, N) => Silent(r, N) /\ Head(q).name \notin N
  BY <1>1 DEF Silent
<1>3. ASSUME NEW i \in DOMAIN q, Latest(q, N, i), i = 1
      PROVE  q[i] = Head(q) /\ Silent(r, N)
  <2>1. \A j \in DOMAIN r : 1 < j + 1
    BY <1>1
  <2> QED
    BY <1>1, <1>3, <2>1 DEF Latest, Silent
<1>4. ASSUME NEW i \in DOMAIN q, Latest(q, N, i), i # 1
      PROVE  \E j \in DOMAIN r : Latest(r, N, j) /\ r[j] = q[i]
  <2> DEFINE k == i - 1
  <2>1. k \in DOMAIN r /\ i = k + 1 /\ k \in Int
    BY <1>1, <1>4
  <2> HIDE DEF k
  <2>2. r[k] = q[i]
    BY <1>1, <2>1
  <2>3. \A j \in DOMAIN r : k < j => i < j + 1
    BY <1>1, <2>1
  <2>4. Latest(r, N, k)
    BY <1>1, <1>4, <2>1, <2>2, <2>3 DEF Latest
  <2> QED
    BY <2>1, <2>2, <2>4
<1> QED
  BY <1>2, <1>3, <1>4 DEF r

-----------------------------------------------------------------------------
(* What the program knows of a control's display, and what it may show.    *)

Size  == "OnRemoteDesktopSizeChange"
Modes == {"OnEnterFullScreenMode", "OnLeaveFullScreenMode"}

Legal(n) == n >= MinExtent /\ (n % 2 = 0 \/ n \in ServerExtents)

SizesLegal(c) ==
  /\ Legal(c.desk)
  /\ \A i \in DOMAIN c.events : c.events[i].name = Size => Legal(c.events[i].arg)

\* The size of the desktop is k, or what the latest event about it says.
SizeTold(c, k) ==
  \/ Silent(c.events, {Size}) /\ c.desk = k
  \/ \E i \in DOMAIN c.events :
       Latest(c.events, {Size}, i) /\ c.events[i].arg = c.desk

\* The same of the mode.
ModeTold(c, m) ==
  \/ Silent(c.events, Modes) /\ (c.full <=> m)
  \/ \E i \in DOMAIN c.events :
       /\ Latest(c.events, Modes, i)
       /\ c.full <=> c.events[i].name = "OnEnterFullScreenMode"

\* No control ignores a request for full screen before the session.
Honoured == FullScreen => EarlyModes \subseteq {TRUE}

\* What may be shown where the events with these names can be told apart.
Shown(names, c, k, m) ==
  /\ SizesLegal(c) /\ Legal(k)
  /\ Size \in names => c.advised /\ SizeTold(c, k)
  /\ Modes \subseteq names => c.advised /\ (Honoured => ModeTold(c, m))

\* The queue has grown, by events of these names.
Grown(q, r, N) ==
  /\ \A i \in DOMAIN q : i \in DOMAIN r /\ r[i] = q[i]
  /\ \A i \in DOMAIN r : i \in DOMAIN q \/ r[i].name \in N
  /\ \A i \in DOMAIN q : \A j \in DOMAIN r : j \notin DOMAIN q => i < j

\* d is c with perhaps another display, and with news of these names only, and
\* none if nobody listens.
Adds(c, d, N) ==
  /\ Keeps(c, d, N)
  /\ d.reason = c.reason
  /\ ~c.advised => d.events = c.events
  /\ Grown(c.events, d.events, N)

LEMMA GrownByOne ==
  ASSUME NEW q \in Seq(Events), NEW e \in Events
  PROVE  Grown(q, Append(q, e), {e.name})
<1> DEFINE r == Append(q, e)
<1>1. /\ \A i \in DOMAIN q : i \in DOMAIN r /\ r[i] = q[i]
      /\ \A i \in DOMAIN r : r[i] = e \/ (i \in DOMAIN q /\ r[i] = q[i])
  BY AppendKeeps, AppendIsNew
<1>2. \A i \in DOMAIN q : \A j \in DOMAIN r : j \notin DOMAIN q => i < j
  OBVIOUS
<1> HIDE DEF r
<1> QED
  BY <1>1, <1>2 DEF Grown, r

LEMMA GrownItself == ASSUME NEW q, NEW N PROVE Grown(q, q, N)
BY DEF Grown

LEMMA GrownChains ==
  ASSUME NEW p \in Seq(Events), NEW q \in Seq(Events), NEW r \in Seq(Events),
         NEW N, NEW O, O \subseteq N, Grown(p, q, N), Grown(q, r, O)
  PROVE  Grown(p, r, N)
<1>1. /\ \A i \in DOMAIN p : i \in DOMAIN r /\ r[i] = p[i]
      /\ \A i \in DOMAIN r : i \in DOMAIN p \/ r[i].name \in N
  BY DEF Grown
<1>2. \A i \in DOMAIN p : \A j \in DOMAIN r : j \notin DOMAIN p => i < j
  BY DEF Grown
<1> QED
  BY <1>1, <1>2 DEF Grown

LEMMA AddsItself == ASSUME NEW c \in ControlStates, NEW N PROVE Adds(c, c, N)
BY KeepsItself, GrownItself DEF Adds

LEMMA AddsChains ==
  ASSUME NEW c \in ControlStates, NEW d, NEW e, NEW N, NEW O, O \subseteq N,
         Adds(c, d, N), Adds(d, e, O)
  PROVE  Adds(c, e, N)
<1>1. /\ c.events \in Seq(Events) /\ d.events \in Seq(Events)
      /\ e.events \in Seq(Events)
  BY DEF Adds, Keeps, ControlStates
<1>2. Grown(c.events, e.events, N)
  BY <1>1, GrownChains DEF Adds
<1>3. Keeps(c, e, N)
  BY KeepsMore DEF Adds
<1>4. ~c.advised => e.events = c.events
  BY DEF Adds, Keeps
<1> QED
  BY <1>2, <1>3, <1>4 DEF Adds

\* Another display, without news.
LEMMA DisplayAdds ==
  ASSUME NEW c \in ControlStates, NEW d \in ControlStates, NEW N,
         d.link = c.link, d.advised = c.advised, d.events = c.events,
         d.everUp = c.everUp, d.refused = c.refused, d.reason = c.reason
  PROVE  Adds(c, d, N)
BY DisplayKeeps, GrownItself DEF Adds

LEMMA RaiseFields ==
  ASSUME NEW c \in ControlStates, NEW name \in EventNames, NEW arg \in Nat
  PROVE  LET e == [name |-> name, arg |-> arg]
             d == Raise(c, name, arg)
         IN  /\ d \in ControlStates /\ e \in Events /\ e.name = name /\ e.arg = arg
             /\ d.desk = c.desk /\ d.full = c.full /\ d.reason = c.reason
             /\ d.link = c.link /\ d.advised = c.advised /\ d.everUp = c.everUp
             /\ d.early = c.early
             /\ c.advised => d.events = Append(c.events, e)
             /\ ~c.advised => d.events = c.events
<1> DEFINE e == [name |-> name, arg |-> arg]
<1>1. e \in Events /\ e.name = name /\ e.arg = arg
  BY EventType
<1> HIDE DEF e
<1>2. c.events \in Seq(Events) /\ Append(c.events, e) \in Seq(Events)
  BY <1>1, AppendType DEF ControlStates
<1> DEFINE q == Append(c.events, e)
<1> HIDE DEF q
<1>3. Raise(c, name, arg) = IF c.advised THEN [c EXCEPT !.events = q] ELSE c
  BY DEF Raise, q, e
<1>4. q \in Seq(Events)
  BY <1>2 DEF q
<1> DEFINE d == Raise(c, name, arg)
           Same == /\ d \in ControlStates
                   /\ d.desk = c.desk /\ d.full = c.full /\ d.reason = c.reason
                   /\ d.link = c.link /\ d.advised = c.advised
                   /\ d.everUp = c.everUp /\ d.early = c.early
                   /\ c.advised => d.events = q
                   /\ ~c.advised => d.events = c.events
<1>5. ASSUME c.advised PROVE Same
  <2>1. d = [c EXCEPT !.events = q]
    BY <1>3, <1>5
  <2> HIDE DEF d
  <2> QED
    BY <1>4, <1>5, <2>1 DEF ControlStates
<1>6. ASSUME ~c.advised PROVE Same
  <2>1. d = c
    BY <1>3, <1>6
  <2> HIDE DEF d
  <2> QED
    BY <1>6, <2>1
<1>7. Same
  BY <1>5, <1>6
<1> HIDE DEF d
<1> QED
  BY <1>1, <1>7 DEF d, q, e

LEMMA RaiseAdds ==
  ASSUME NEW c \in ControlStates, NEW name \in EventNames, NEW arg \in Nat
  PROVE  Adds(c, Raise(c, name, arg), {name})
<1> DEFINE e == [name |-> name, arg |-> arg]
           d == Raise(c, name, arg)
<1>1. /\ e \in Events /\ e.name = name /\ d.reason = c.reason
      /\ ~c.advised => d.events = c.events
      /\ d.events = c.events \/ d.events = Append(c.events, e)
  BY RaiseFields
<1>2. c.events \in Seq(Events)
  BY DEF ControlStates
<1>3. Keeps(c, d, {name})
  BY RaiseKeeps
<1> HIDE DEF d, e
<1>4. Grown(c.events, d.events, {name})
  BY <1>1, <1>2, GrownByOne, GrownItself
<1> QED
  BY <1>1, <1>3, <1>4 DEF Adds, d

LEMMA ResizedAdds ==
  ASSUME NEW c \in ControlStates, NEW extent \in Nat, NEW factors \in Factors
  PROVE  Adds(c, Resized(c, extent, factors), Announcements)
<1> DEFINE d == [c EXCEPT !.desk = extent, !.scale = factors]
<1>1. /\ d \in ControlStates
      /\ d.link = c.link /\ d.advised = c.advised /\ d.events = c.events
      /\ d.everUp = c.everUp /\ d.refused = c.refused /\ d.reason = c.reason
  BY DEF ControlStates
<1> HIDE DEF d
<1>2. Adds(c, d, Announcements)
  BY <1>1, DisplayAdds
<1>3. Adds(d, Raise(d, "OnRemoteDesktopSizeChange", extent),
           {"OnRemoteDesktopSizeChange"})
  BY <1>1, RaiseAdds DEF EventNames
<1>4. Adds(c, Raise(d, "OnRemoteDesktopSizeChange", extent), Announcements)
  BY <1>2, <1>3, AddsChains DEF Announcements
<1> QED
  BY <1>2, <1>4 DEF Resized, d

LEMMA UpdateAdds ==
  ASSUME NEW c \in ControlStates, NEW extent \in Nat, NEW factors \in Factors
  PROVE  Adds(c, UpdateSessionDisplaySettings(c, extent, factors).ctl,
              Announcements)
<1>1. /\ Adds(c, Resized(c, extent, factors), Announcements)
      /\ Adds(c, Resized(c, extent, Unscaled), Announcements)
      /\ Adds(c, c, Announcements)
  BY ResizedAdds, AddsItself, UnscaledIsFactors
<1> QED
  BY <1>1 DEF UpdateSessionDisplaySettings

LEMMA ReconnectAdds ==
  ASSUME NEW c \in ControlStates, NEW extent \in Nat
  PROVE  Adds(c, Reconnect(c, extent).ctl, Announcements)
<1>1. c.scale \in Factors
  BY DEF ControlStates
<1>2. /\ Adds(c, Resized(c, extent, c.scale), Announcements)
      /\ Adds(c, c, Announcements)
  BY <1>1, ResizedAdds, AddsItself
<1> QED
  BY <1>2 DEF Reconnect

LEMMA EnterFullScreenAdds ==
  ASSUME NEW c \in ControlStates
  PROVE  Adds(c, EnterFullScreen(c), Announcements)
<1> DEFINE d == [c EXCEPT !.full = TRUE]
<1>1. /\ d \in ControlStates
      /\ d.link = c.link /\ d.advised = c.advised /\ d.events = c.events
      /\ d.everUp = c.everUp /\ d.refused = c.refused /\ d.reason = c.reason
  BY DEF ControlStates
<1> HIDE DEF d
<1>2. Adds(c, d, Announcements)
  BY <1>1, DisplayAdds
<1>3. Adds(d, Raise(d, "OnEnterFullScreenMode", 0), {"OnEnterFullScreenMode"})
  BY <1>1, RaiseAdds DEF EventNames
<1>4. Adds(c, Raise(d, "OnEnterFullScreenMode", 0), Announcements)
  BY <1>2, <1>3, AddsChains DEF Announcements
<1> QED
  BY <1>4, AddsItself DEF EnterFullScreen, d

\* News about the session tells nothing of the display.
LEMMA RaiseShown ==
  ASSUME NEW c \in ControlStates, NEW names, NEW k, NEW m,
         NEW name \in EventNames \ (Modes \cup {Size}), NEW arg \in Nat,
         Shown(names, c, k, m)
  PROVE  Shown(names, Raise(c, name, arg), k, m)
<1> DEFINE e == [name |-> name, arg |-> arg]
           d == Raise(c, name, arg)
           r == Append(c.events, e)
<1>1. /\ e \in Events /\ e.name = name
      /\ d.desk = c.desk /\ d.full = c.full /\ d.advised = c.advised
      /\ c.advised => d.events = r
      /\ ~c.advised => d.events = c.events
  BY RaiseFields
<1>2. c.events \in Seq(Events)
  BY DEF ControlStates
<1> HIDE DEF e, d
<1>3. e.name \notin {Size} /\ e.name \notin Modes
  BY <1>1
<1>4. /\ Silent(c.events, {Size}) => Silent(r, {Size})
      /\ \A i \in DOMAIN c.events : Latest(c.events, {Size}, i) =>
           i \in DOMAIN r /\ Latest(r, {Size}, i) /\ r[i] = c.events[i]
  BY <1>1, <1>2, <1>3, AppendOther
<1>5. /\ Silent(c.events, Modes) => Silent(r, Modes)
      /\ \A i \in DOMAIN c.events : Latest(c.events, Modes, i) =>
           i \in DOMAIN r /\ Latest(r, Modes, i) /\ r[i] = c.events[i]
  BY <1>1, <1>2, <1>3, AppendOther
<1>6. \A i \in DOMAIN r : r[i].name = Size =>
        i \in DOMAIN c.events /\ r[i] = c.events[i]
  BY <1>1, <1>2, <1>3, AppendIsNew
<1> HIDE DEF r
<1>7. SizesLegal(d)
  BY <1>1, <1>6 DEF Shown, SizesLegal
<1>8. SizeTold(c, k) => SizeTold(d, k)
  BY <1>1, <1>4 DEF SizeTold
<1>9. ModeTold(c, m) => ModeTold(d, m)
  BY <1>1, <1>5 DEF ModeTold
<1> QED
  BY <1>1, <1>7, <1>8, <1>9 DEF Shown, d

\* A control that differs in what is not shown.
LEMMA SameShown ==
  ASSUME NEW c, NEW d, NEW names, NEW k, NEW m, Shown(names, c, k, m),
         d.desk = c.desk, d.full = c.full, d.advised = c.advised,
         d.events = c.events
  PROVE  Shown(names, d, k, m)
BY DEF Shown, SizesLegal, SizeTold, ModeTold

\* A size that was taken is what the desktop has now, and what the program
\* knew before was news as well if the size has changed.
LEMMA ResizedShown ==
  ASSUME NEW c \in ControlStates, NEW names, NEW k, NEW m,
         NEW extent \in Nat, Legal(extent), NEW factors \in Factors,
         Shown(names, c, k, m)
  PROVE  /\ Shown(names, Resized(c, extent, factors), extent, m)
         /\ extent # c.desk => Shown(names, Resized(c, extent, factors), k, m)
<1> DEFINE b == [c EXCEPT !.desk = extent, !.scale = factors]
<1>1. /\ b \in ControlStates /\ b.desk = extent
      /\ b.full = c.full /\ b.advised = c.advised /\ b.events = c.events
  BY DEF ControlStates
<1>2. Resized(c, extent, factors)
        = IF extent = c.desk THEN b ELSE Raise(b, Size, extent)
  BY DEF Resized, Size
<1> HIDE DEF b
<1>3. CASE extent = c.desk
  <2>1. Shown(names, b, extent, m)
    BY <1>1, <1>3 DEF Shown, SizesLegal, SizeTold, ModeTold
  <2> QED
    BY <1>2, <1>3, <2>1
<1>4. CASE extent # c.desk
  <2> DEFINE e == [name |-> Size, arg |-> extent]
             d == Raise(b, Size, extent)
             r == Append(c.events, e)
  <2>1. /\ e \in Events /\ e.name = Size /\ e.arg = extent
        /\ d.desk = extent /\ d.full = c.full /\ d.advised = c.advised
        /\ c.advised => d.events = r
        /\ ~c.advised => d.events = c.events
    <3>1. Size \in EventNames
      BY DEF EventNames, Size
    <3>2. /\ e \in Events /\ e.name = Size /\ e.arg = extent
          /\ d.desk = b.desk /\ d.full = b.full /\ d.advised = b.advised
          /\ b.advised => d.events = Append(b.events, e)
          /\ ~b.advised => d.events = b.events
      BY <1>1, <3>1, RaiseFields
    <3> QED
      BY <1>1, <3>2
  <2>2. c.events \in Seq(Events)
    BY DEF ControlStates
  <2> HIDE DEF e, d
  <2>3. \E i \in DOMAIN r : Latest(r, {Size}, i) /\ r[i] = e
    BY <2>1, <2>2, AppendLatest
  <2>4. e.name \notin Modes
    BY <2>1 DEF Size, Modes
  <2>5. /\ Silent(c.events, Modes) => Silent(r, Modes)
        /\ \A i \in DOMAIN c.events : Latest(c.events, Modes, i) =>
             i \in DOMAIN r /\ Latest(r, Modes, i) /\ r[i] = c.events[i]
    BY <2>1, <2>2, <2>4, AppendOther
  <2>6. \A i \in DOMAIN r : r[i] = e \/ (i \in DOMAIN c.events /\ r[i] = c.events[i])
    BY <2>1, <2>2, AppendIsNew
  <2> HIDE DEF r
  <2>7. SizesLegal(d)
    BY <2>1, <2>6 DEF Shown, SizesLegal
  <2>8. c.advised => SizeTold(d, k) /\ SizeTold(d, extent)
    BY <2>1, <2>3 DEF SizeTold
  <2>9. c.advised /\ ModeTold(c, m) => ModeTold(d, m)
    BY <2>1, <2>5 DEF ModeTold
  <2>10. Shown(names, d, extent, m) /\ Shown(names, d, k, m)
    BY <2>1, <2>7, <2>8, <2>9 DEF Shown
  <2> QED
    BY <1>2, <1>4, <2>10 DEF d
<1> QED
  BY <1>3, <1>4

\* A size the control was asked for is the desktop's once it was taken; a
\* refusal leaves everything.
LEMMA UpdateShown ==
  ASSUME NEW c \in ControlStates, NEW names, NEW k, NEW m,
         NEW extent \in Nat, Legal(extent), NEW factors \in Factors,
         Shown(names, c, k, m)
  PROVE  LET r == UpdateSessionDisplaySettings(c, extent, factors) IN
         /\ r.ok => Shown(names, r.ctl, extent, m)
         /\ ~r.ok => r.ctl = c
<1>1. /\ Shown(names, Resized(c, extent, factors), extent, m)
      /\ Shown(names, Resized(c, extent, Unscaled), extent, m)
  BY ResizedShown, UnscaledIsFactors
<1> QED
  BY <1>1 DEF UpdateSessionDisplaySettings

LEMMA ReconnectShown ==
  ASSUME NEW c \in ControlStates, NEW names, NEW k, NEW m,
         NEW extent \in Nat, Legal(extent), Shown(names, c, k, m)
  PROVE  LET r == Reconnect(c, extent) IN
         /\ r.ok => Shown(names, r.ctl, extent, m)
         /\ ~r.ok => r.ctl = c
<1>1. c.scale \in Factors
  BY DEF ControlStates
<1>2. Shown(names, Resized(c, extent, c.scale), extent, m)
  BY <1>1, ResizedShown
<1> QED
  BY <1>2 DEF Reconnect

\* A mode the control takes is the latest news of its mode.
LEMMA ModeShown ==
  ASSUME NEW c \in ControlStates, NEW b \in ControlStates, NEW names,
         NEW k, NEW m, NEW name \in Modes, c.advised,
         SizesLegal(c) /\ Legal(k) /\ (Size \in names => SizeTold(c, k)),
         b.advised = c.advised, b.events = c.events, b.desk = c.desk,
         b.full <=> name = "OnEnterFullScreenMode"
  PROVE  Shown(names, Raise(b, name, 0), k, m)
<1> DEFINE e == [name |-> name, arg |-> 0]
           d == Raise(b, name, 0)
           r == Append(c.events, e)
<1>0. name \in EventNames /\ name # Size
  BY DEF Modes, EventNames, Size
<1>1. /\ e \in Events /\ e.name = name
      /\ d.desk = b.desk /\ d.full = b.full /\ d.advised = b.advised
      /\ b.advised => d.events = Append(b.events, e)
  BY <1>0, RaiseFields
<1>2. c.events \in Seq(Events)
  BY DEF ControlStates
<1> HIDE DEF e, d
<1>10. d.desk = c.desk /\ d.full = b.full /\ d.advised = c.advised /\ d.events = r
  BY <1>1
<1>3. e.name \notin {Size} /\ e.name \in Modes
  BY <1>0, <1>1
<1>4. /\ Silent(c.events, {Size}) => Silent(r, {Size})
      /\ \A i \in DOMAIN c.events : Latest(c.events, {Size}, i) =>
           i \in DOMAIN r /\ Latest(r, {Size}, i) /\ r[i] = c.events[i]
  BY <1>1, <1>2, <1>3, AppendOther
<1>5. \E i \in DOMAIN r : Latest(r, Modes, i) /\ r[i] = e
  BY <1>1, <1>2, <1>3, AppendLatest
<1>6. \A i \in DOMAIN r : r[i].name = Size =>
        i \in DOMAIN c.events /\ r[i] = c.events[i]
  BY <1>1, <1>2, <1>3, AppendIsNew
<1> HIDE DEF r
<1>7. SizesLegal(d)
  BY <1>10, <1>6 DEF SizesLegal
<1>8. SizeTold(c, k) => SizeTold(d, k)
  BY <1>10, <1>4 DEF SizeTold
<1>9. ModeTold(d, m)
  BY <1>1, <1>5, <1>10 DEF ModeTold
<1> QED
  BY <1>10, <1>7, <1>8, <1>9 DEF Shown, d

LEMMA EnterFullScreenShown ==
  ASSUME NEW c \in ControlStates, NEW names, NEW k, NEW m, Shown(names, c, k, m)
  PROVE  Shown(names, EnterFullScreen(c), k, m)
<1> DEFINE b == [c EXCEPT !.full = TRUE]
<1>1. /\ b \in ControlStates /\ b.full /\ b.desk = c.desk
      /\ b.advised = c.advised /\ b.events = c.events
  BY DEF ControlStates
<1>2. EnterFullScreen(c) = IF c.full THEN c
                           ELSE Raise(b, "OnEnterFullScreenMode", 0)
  BY DEF EnterFullScreen
<1> HIDE DEF b
<1>3. CASE c.advised
  <2>1. Shown(names, Raise(b, "OnEnterFullScreenMode", 0), k, m)
    BY <1>1, <1>3, ModeShown DEF Shown, Modes
  <2> QED
    BY <1>2, <2>1
<1>4. CASE ~c.advised
  <2>1. Raise(b, "OnEnterFullScreenMode", 0) = b
    BY <1>1, <1>4 DEF Raise
  <2>2. Shown(names, b, k, m)
    BY <1>1, <1>4 DEF Shown, SizesLegal
  <2> QED
    BY <1>2, <2>1, <2>2
<1> QED
  BY <1>3, <1>4

-----------------------------------------------------------------------------
(* What a display handler adds to what it keeps (SameSession).             *)

ShownIn(s) ==
  Shown(s.app.names, s.ctl, s.app.session, s.app.fullScreen)

Display(s, t) ==
  /\ SameSession(s, t)
  /\ t.app.discReason = s.app.discReason /\ t.app.exitCode = s.app.exitCode
  /\ t.win.quit = s.win.quit
  /\ Adds(s.ctl, t.ctl, Announcements)
  /\ ShownIn(s) => ShownIn(t)

LEMMA DisplayItself == ASSUME NEW s \in Worlds PROVE Display(s, s)
<1>1. Adds(s.ctl, s.ctl, Announcements)
  BY WorldFields, AddsItself
<1> QED
  BY <1>1, SameSessionItself DEF Display

LEMMA DisplayChains ==
  ASSUME NEW s \in Worlds, NEW t, NEW u, Display(s, t), Display(t, u)
  PROVE  Display(s, u)
<1>1. SameSession(s, u)
  BY SameSessionChains DEF Display
<1>2. Adds(s.ctl, u.ctl, Announcements)
  BY WorldFields, AddsChains DEF Display
<1> QED
  BY <1>1, <1>2 DEF Display

LEMMA DisplayWorld ==
  ASSUME NEW s, NEW t, Display(s, t) PROVE t \in Worlds
BY DEF Display, SameSession

LEMMA DisplayMade ==
  ASSUME NEW s \in Worlds, NEW a, SameLife(s.app, a),
         a.discReason = s.app.discReason, a.exitCode = s.app.exitCode,
         NEW c, Adds(s.ctl, c, Announcements),
         ShownIn(s) =>
           Shown(s.app.names, c, a.session, a.fullScreen)
  PROVE  Display(s, [s EXCEPT !.app = a, !.ctl = c])
<1> DEFINE t == [s EXCEPT !.app = a, !.ctl = c]
<1>1. /\ a \in AppStates /\ c \in ControlStates
      /\ a.sink = s.app.sink /\ a.names = s.app.names
  BY DEF SameLife, Adds, Keeps
<1>2. t \in Worlds /\ t.app = a /\ t.ctl = c /\ t.win = s.win
  BY <1>1 DEF Worlds
<1>3. SameSession(s, t)
  BY SameSessionMade DEF Adds
<1> HIDE DEF t
<1>4. ShownIn(s) => ShownIn(t)
  BY <1>1, <1>2 DEF ShownIn
<1>5. Display(s, t)
  BY <1>2, <1>3, <1>4 DEF Display
<1> QED
  BY <1>5 DEF t

LEMMA ApplyScaleDisplay ==
  ASSUME NEW s \in Worlds
  PROVE  Display(s, ApplyScale(s))
<1> DEFINE f == FactorsFor(s)
           r == UpdateSessionDisplaySettings(s.ctl, s.app.session, f)
           c == r.ctl
           a == [s.app EXCEPT !.scaleApplied = TRUE]
           n == s.app.names
<1>1. /\ s.ctl \in ControlStates /\ s.app.session \in Nat /\ f \in Factors
  BY FactorsForType DEF Worlds, AppStates
<1>2. /\ SameLife(s.app, a) /\ a.discReason = s.app.discReason
      /\ a.exitCode = s.app.exitCode /\ a.session = s.app.session
      /\ a.fullScreen = s.app.fullScreen
  BY DEF SameLife, Worlds, AppStates
<1>3. \/ ApplyScale(s) = [s EXCEPT !.app = a, !.ctl = c]
      \/ ApplyScale(s) = [s EXCEPT !.app = a, !.ctl = s.ctl]
      \/ ApplyScale(s) = s
  BY DEF ApplyScale, Worlds
<1> HIDE DEF f
<1>4. Adds(s.ctl, c, Announcements) /\ Adds(s.ctl, s.ctl, Announcements)
  BY <1>1, UpdateAdds, AddsItself
<1>5. ASSUME ShownIn(s)
      PROVE  Shown(n, c, s.app.session, s.app.fullScreen)
  <2>1. Shown(n, s.ctl, s.app.session, s.app.fullScreen) /\ Legal(s.app.session)
    BY <1>5 DEF ShownIn, Shown
  <2>2. /\ r.ok => Shown(n, r.ctl, s.app.session, s.app.fullScreen)
        /\ ~r.ok => r.ctl = s.ctl
    BY <1>1, <2>1, UpdateShown
  <2> HIDE DEF r, n
  <2> QED
    BY <2>1, <2>2
<1> HIDE DEF a, c
<1>6. /\ Display(s, [s EXCEPT !.app = a, !.ctl = c])
      /\ Display(s, [s EXCEPT !.app = a, !.ctl = s.ctl])
      /\ Display(s, s)
  BY <1>2, <1>4, <1>5, DisplayMade, DisplayItself DEF ShownIn
<1> QED
  BY <1>3, <1>6

LEMMA ApplyDynamicResizeDisplay ==
  ASSUME NEW s \in Worlds
  PROVE  Display(s, ApplyDynamicResize(s))
<1> DEFINE e  == Even(ClientExtent(s.win))
           r1 == UpdateSessionDisplaySettings(s.ctl, e, FactorsFor(s))
           r2 == Reconnect(s.ctl, e)
           a1 == [s.app EXCEPT !.pendingResize = FALSE]
           a2 == [s.app EXCEPT !.pendingResize = FALSE, !.session = e]
           a3 == [s.app EXCEPT !.pendingResize = FALSE, !.resizeWarned = TRUE]
           n  == s.app.names
           m  == s.app.fullScreen
<1>1. e \in Nat /\ (e >= MinExtent => Legal(e))
  <2>1. ClientExtent(s.win) \in Int /\ e \in Nat
    BY ClientExtentType, WorldFields
  <2>2. e % 2 = 0
    BY <2>1, EvenIsEven
  <2> QED
    BY <2>1, <2>2 DEF Legal
<1>2. \/ ApplyDynamicResize(s) = [s EXCEPT !.app = a1, !.ctl = s.ctl]
      \/ /\ ApplyDynamicResize(s) = [s EXCEPT !.app = a2, !.ctl = r1.ctl]
         /\ r1.ok /\ e >= MinExtent
      \/ /\ ApplyDynamicResize(s) = [s EXCEPT !.app = a2, !.ctl = r2.ctl]
         /\ r2.ok /\ e >= MinExtent
      \/ ApplyDynamicResize(s) = [s EXCEPT !.app = a3, !.ctl = s.ctl]
      \/ ApplyDynamicResize(s) = s
  BY DEF ApplyDynamicResize, Worlds, e
<1> HIDE DEF e
<1>3. s.ctl \in ControlStates /\ FactorsFor(s) \in Factors
  BY WorldFields, FactorsForType
<1>4. /\ Adds(s.ctl, r1.ctl, Announcements)
      /\ Adds(s.ctl, r2.ctl, Announcements)
      /\ Adds(s.ctl, s.ctl, Announcements)
  BY <1>1, <1>3, UpdateAdds, ReconnectAdds, AddsItself
<1>5. /\ SameLife(s.app, a1) /\ SameLife(s.app, a2) /\ SameLife(s.app, a3)
      /\ \A a \in {a1, a2, a3} :
           /\ a.discReason = s.app.discReason /\ a.exitCode = s.app.exitCode
           /\ a.fullScreen = s.app.fullScreen
      /\ a1.session = s.app.session /\ a2.session = e
      /\ a3.session = s.app.session
  BY <1>1 DEF SameLife, Worlds, AppStates
<1>6. ASSUME ShownIn(s), e >= MinExtent
      PROVE  (r1.ok => Shown(n, r1.ctl, e, m)) /\ (r2.ok => Shown(n, r2.ctl, e, m))
  <2>1. Shown(n, s.ctl, s.app.session, m)
    BY <1>6 DEF ShownIn
  <2> HIDE DEF n, m
  <2> QED
    BY <1>1, <1>3, <1>6, <2>1, UpdateShown, ReconnectShown
<1> DEFINE t1 == [s EXCEPT !.app = a2, !.ctl = r1.ctl]
           t2 == [s EXCEPT !.app = a2, !.ctl = r2.ctl]
<1> HIDE DEF r1, r2, a1, a2, a3
<1>7. /\ Display(s, [s EXCEPT !.app = a1, !.ctl = s.ctl])
      /\ Display(s, [s EXCEPT !.app = a3, !.ctl = s.ctl])
      /\ Display(s, s)
  BY <1>4, <1>5, DisplayMade, DisplayItself DEF ShownIn
<1>8. r1.ok /\ e >= MinExtent => Display(s, t1)
  BY <1>4, <1>5, <1>6, DisplayMade
<1>9. r2.ok /\ e >= MinExtent => Display(s, t2)
  BY <1>4, <1>5, <1>6, DisplayMade
<1> QED
  BY <1>2, <1>7, <1>8, <1>9

LEMMA MarkedDisplay ==
  ASSUME NEW s \in Worlds, NEW scaled \in BOOLEAN
  PROVE  Display(s, [s EXCEPT !.app.pendingResize = TRUE,
                              !.app.scaleApplied = scaled])
<1> DEFINE a == [s.app EXCEPT !.pendingResize = TRUE, !.scaleApplied = scaled]
<1>1. /\ SameLife(s.app, a) /\ a.discReason = s.app.discReason
      /\ a.exitCode = s.app.exitCode /\ a.session = s.app.session
      /\ a.fullScreen = s.app.fullScreen
  BY DEF SameLife, Worlds, AppStates
<1>2. [s EXCEPT !.app.pendingResize = TRUE, !.app.scaleApplied = scaled]
        = [s EXCEPT !.app = a, !.ctl = s.ctl]
  BY DEF Worlds
<1>3. Adds(s.ctl, s.ctl, Announcements)
  BY WorldFields, AddsItself
<1> HIDE DEF a
<1>4. ShownIn(s) => Shown(s.app.names, s.ctl, a.session, a.fullScreen)
  BY <1>1 DEF ShownIn
<1>5. Display(s, [s EXCEPT !.app = a, !.ctl = s.ctl])
  BY <1>1, <1>3, <1>4, DisplayMade
<1> QED
  BY <1>2, <1>5

LEMMA WmSizeDisplay ==
  ASSUME NEW s \in Worlds, NEW how \in {"minimized", "maximized", "restored"}
  PROVE  Display(s, WmSize(s, how))
<1> DEFINE marked == [s EXCEPT !.app.pendingResize = TRUE]
<1>1. Display(s, marked)
  <2>1. /\ s.app.scaleApplied \in BOOLEAN
        /\ marked = [s EXCEPT !.app.pendingResize = TRUE,
                              !.app.scaleApplied = s.app.scaleApplied]
    BY DEF Worlds, AppStates
  <2> QED
    BY <2>1, MarkedDisplay
<1> HIDE DEF marked
<1>2. marked \in Worlds
  BY <1>1 DEF Display, SameSession
<1>3. Display(s, ApplyDynamicResize(marked)) /\ Display(s, s)
  BY <1>1, <1>2, ApplyDynamicResizeDisplay, DisplayChains, DisplayItself
<1> QED
  BY <1>1, <1>3 DEF WmSize, marked

LEMMA PlacedDisplay ==
  ASSUME NEW s \in Worlds, NEW w \in WindowStates,
         w.show = s.win.show, w.quit = s.win.quit
  PROVE  Display(s, [s EXCEPT !.win = w])
<1> DEFINE t == [s EXCEPT !.win = w]
<1>1. t \in Worlds /\ t.app = s.app /\ t.ctl = s.ctl /\ t.win = w
  BY DEF Worlds
<1>2. SameSession(s, t)
  BY PlacedSame
<1>3. Adds(s.ctl, s.ctl, Announcements)
  BY WorldFields, AddsItself
<1> HIDE DEF t
<1>4. Display(s, t)
  BY <1>1, <1>2, <1>3 DEF Display, ShownIn
<1> QED
  BY <1>4 DEF t

LEMMA WmDpiChangedDisplay ==
  ASSUME NEW s \in Worlds, NEW dpi \in Nat, NEW extent \in Nat
  PROVE  Display(s, WmDpiChanged(s, dpi, extent))
<1> DEFINE normal == IF s.win.show = "normal" THEN extent ELSE s.win.normal
           w == [s.win EXCEPT !.dpi = dpi, !.normal = normal]
           placed == [s EXCEPT !.win = w]
           sized == IF s.win.show = "normal" /\ extent # s.win.normal
                    THEN WmSize(placed, "restored") ELSE placed
           marked == [sized EXCEPT !.app.pendingResize = TRUE,
                                   !.app.scaleApplied = FALSE]
           resized == ApplyDynamicResize(marked)
<1>1. WmDpiChanged(s, dpi, extent) = ApplyScale(resized)
  BY DEF WmDpiChanged, Worlds
<1>2. Display(s, placed)
  <2>1. w \in WindowStates /\ w.show = s.win.show /\ w.quit = s.win.quit
    BY DEF Worlds, WindowStates
  <2> HIDE DEF w
  <2> QED
    BY <2>1, PlacedDisplay
<1> HIDE DEF placed
<1>3. Display(s, sized)
  BY <1>2, WmSizeDisplay, DisplayChains, DisplayWorld
<1> HIDE DEF sized
<1>4. Display(s, marked)
  BY <1>3, MarkedDisplay, DisplayChains, DisplayWorld
<1> HIDE DEF marked
<1>5. Display(s, resized)
  BY <1>4, ApplyDynamicResizeDisplay, DisplayChains, DisplayWorld
<1> HIDE DEF resized
<1>6. Display(s, ApplyScale(resized))
  BY <1>5, ApplyScaleDisplay, DisplayChains, DisplayWorld
<1> QED
  BY <1>1, <1>6

-----------------------------------------------------------------------------
(* The end of the session, and the life before it.                         *)

\* The end is the last news of the session's life, and tells the reason.
EndTold(c) ==
  \A i \in DOMAIN c.events : c.events[i].name = "OnDisconnected" =>
    /\ c.link = "down" /\ c.events[i].arg = c.reason
    /\ \A j \in DOMAIN c.events : i < j => c.events[j].name # "OnConnected"

NoStart(c) == Silent(c.events, {"OnConnected"})

EarlyLinks == {"idle", "connecting"}

\* What may be queued ahead of the start of the session.
Early == {"OnConnecting", "OnFatalError"} \cup Announcements

\* The start comes after all that was queued before the session was up.
Opens(c) ==
  /\ c.link \in EarlyLinks =>
       \A i \in DOMAIN c.events : c.events[i].name \in Early
  /\ \A i \in DOMAIN c.events : c.events[i].name = "OnConnected" =>
       \A j \in DOMAIN c.events : j < i => c.events[j].name \in Early

\* A start that is still to be read has its end behind it, if it came.
Followed(c) == c.link = "down" /\ ~NoStart(c) => Holds(c, "OnDisconnected")

\* Names by which no poll runs ahead of a start that has a name.
Orderly(names) == "OnConnected" \in names => Early \subseteq names

\* With such names the end is recorded after the start.
InOrder(s) ==
  Orderly(s.app.names) =>
    /\ s.app.connected => ~s.app.disconnectSeen
    /\ "OnConnected" \in s.app.names /\ ~NoStart(s.ctl) =>
         ~s.app.everConnected /\ ~s.app.disconnectSeen

\* What is recorded of the session's life agrees with itself and the control.
Ends(s) ==
  /\ s.app.connected => s.app.everConnected
  /\ s.ctl.link \in EarlyLinks => ~s.app.everConnected
  /\ s.win.quit => s.win.show = "gone"
  /\ s.app.sink # "none" => s.ctl.advised
  /\ s.app.sink = "none" =>
       /\ s.app.names = {} /\ ~s.app.connected /\ ~s.app.disconnectSeen
       /\ ~s.ctl.advised /\ s.ctl.events = << >>
  /\ s.app.disconnectSeen =>
       /\ s.ctl.link = "down"
       /\ \/ s.app.discReason = s.ctl.reason
          \/ s.app.discReason = 0 /\ s.app.names # EventNames
  /\ EndTold(s.ctl) /\ Opens(s.ctl) /\ Followed(s.ctl)
  /\ InOrder(s)

\* An end not seen yet has its event queued.
EndQueued(s) ==
  Orderly(s.app.names) /\ s.app.connected /\ s.ctl.link = "down"
    => Holds(s.ctl, "OnDisconnected")

Good(s) == Ends(s) /\ EndQueued(s) /\ ShownIn(s)

\* The session comes, or goes, or stays as it is.
Advances(s, t) ==
  \/ /\ t.app.connected = s.app.connected
     /\ t.app.everConnected = s.app.everConnected
     /\ t.app.disconnectSeen = s.app.disconnectSeen
  \/ /\ ~s.app.disconnectSeen /\ ~t.app.disconnectSeen
     /\ t.app.connected /\ t.app.everConnected
     /\ t.win.show = s.win.show
  \/ /\ ~s.app.disconnectSeen /\ t.app.disconnectSeen /\ ~t.app.connected
     /\ t.app.everConnected = s.app.everConnected
     /\ t.win.show = s.win.show

\* What a step in the loop may do to the session's life.
LivesOn(s, t) ==
  /\ t.app.names = s.app.names
  /\ t.app.exitCode = s.app.exitCode
  /\ s.win.show = "gone" => t.win.show = "gone"
  /\ s.app.disconnectSeen =>
       t.app.disconnectSeen /\ t.app.discReason = s.app.discReason
  /\ Orderly(s.app.names) => Advances(s, t)

\* News of the display leaves the end the last news of the session's life, and
\* comes before its start or after.
LEMMA AddsEnd ==
  ASSUME NEW c \in ControlStates, NEW d, Adds(c, d, Announcements)
  PROVE  /\ EndTold(c) => EndTold(d)
         /\ NoStart(c) <=> NoStart(d)
         /\ Opens(c) => Opens(d)
         /\ Followed(c) => Followed(d)
         /\ Holds(c, "OnDisconnected") => Holds(d, "OnDisconnected")
<1>1. /\ d.link = c.link /\ d.reason = c.reason
      /\ Grown(c.events, d.events, Announcements)
      /\ c.events \in Seq(Events) /\ d.events \in Seq(Events)
  BY DEF Adds, Keeps, ControlStates
<1>2. Holds(c, "OnDisconnected") => Holds(d, "OnDisconnected")
  BY <1>1 DEF Grown, Holds
<1>3. \A n \in Announcements :
        n # "OnDisconnected" /\ n # "OnConnected" /\ n \in Early
  BY DEF Announcements, Early
<1>4. NoStart(c) <=> NoStart(d)
  BY <1>1, <1>3 DEF Grown, NoStart, Silent
<1>5. ASSUME EndTold(c) PROVE EndTold(d)
  <2> SUFFICES ASSUME NEW i \in DOMAIN d.events,
                      d.events[i].name = "OnDisconnected"
               PROVE  /\ d.link = "down" /\ d.events[i].arg = d.reason
                      /\ \A j \in DOMAIN d.events :
                           i < j => d.events[j].name # "OnConnected"
    BY DEF EndTold
  <2>1. i \in DOMAIN c.events /\ c.events[i] = d.events[i]
    BY <1>1, <1>3 DEF Grown
  <2>2. /\ c.link = "down" /\ c.events[i].arg = c.reason
        /\ \A j \in DOMAIN c.events : i < j => c.events[j].name # "OnConnected"
    BY <1>5, <2>1 DEF EndTold
  <2>3. \A j \in DOMAIN d.events :
          \/ j \in DOMAIN c.events /\ d.events[j] = c.events[j]
          \/ d.events[j].name # "OnConnected"
    BY <1>1, <1>3 DEF Grown
  <2> QED
    BY <1>1, <2>1, <2>2, <2>3
<1>6. ASSUME Opens(c) PROVE Opens(d)
  <2>1. \A i \in DOMAIN d.events :
          \/ i \in DOMAIN c.events /\ d.events[i] = c.events[i]
          \/ i \notin DOMAIN c.events /\ d.events[i].name \in Announcements
    BY <1>1 DEF Grown
  <2>2. d.link \in EarlyLinks =>
          \A i \in DOMAIN d.events : d.events[i].name \in Early
    BY <1>1, <1>3, <1>6, <2>1 DEF Opens
  <2>3. ASSUME NEW i \in DOMAIN d.events, d.events[i].name = "OnConnected",
               NEW j \in DOMAIN d.events, j < i
        PROVE  d.events[j].name \in Early
    <3>1. i \in DOMAIN c.events /\ d.events[i] = c.events[i]
      BY <1>3, <2>1, <2>3
    <3>2. CASE j \in DOMAIN c.events
      BY <1>6, <2>1, <2>3, <3>1, <3>2 DEF Opens
    <3>3. CASE j \notin DOMAIN c.events
      BY <1>3, <2>1, <3>3
    <3> QED
      BY <3>2, <3>3
  <2> QED
    BY <2>2, <2>3 DEF Opens
<1>7. Followed(c) => Followed(d)
  BY <1>1, <1>2, <1>4 DEF Followed
<1> QED
  BY <1>2, <1>4, <1>5, <1>6, <1>7

LEMMA DisplayGood ==
  ASSUME NEW s \in Worlds, NEW t, Good(s), Display(s, t)
  PROVE  Good(t) /\ LivesOn(s, t)
<1>1. /\ EndTold(s.ctl) => EndTold(t.ctl)
      /\ NoStart(s.ctl) <=> NoStart(t.ctl)
      /\ Opens(s.ctl) => Opens(t.ctl)
      /\ Followed(s.ctl) => Followed(t.ctl)
      /\ Holds(s.ctl, "OnDisconnected") => Holds(t.ctl, "OnDisconnected")
  BY WorldFields, AddsEnd DEF Display
<1>2. /\ t.app.sink = s.app.sink /\ t.app.names = s.app.names
      /\ t.app.connected = s.app.connected
      /\ t.app.everConnected = s.app.everConnected
      /\ t.app.disconnectSeen = s.app.disconnectSeen
      /\ t.app.discReason = s.app.discReason /\ t.app.exitCode = s.app.exitCode
      /\ t.win.show = s.win.show /\ t.win.quit = s.win.quit
      /\ t.ctl.link = s.ctl.link /\ t.ctl.reason = s.ctl.reason
      /\ t.ctl.advised = s.ctl.advised
      /\ ~s.ctl.advised => t.ctl.events = s.ctl.events
      /\ ShownIn(s) => ShownIn(t)
  BY DEF Display, SameSession, SameLife, Adds, Keeps
<1>3. Ends(t)
  <2>1. InOrder(t)
    BY <1>1, <1>2 DEF Good, Ends, InOrder
  <2> QED
    BY <1>1, <1>2, <2>1 DEF Good, Ends
<1>4. EndQueued(t)
  BY <1>1, <1>2 DEF Good, EndQueued
<1>5. LivesOn(s, t)
  BY <1>2 DEF LivesOn, Advances
<1> QED
  BY <1>2, <1>3, <1>4, <1>5 DEF Good

LEMMA DisplayLater ==
  ASSUME NEW s, NEW t \in Worlds, NEW u, Good(t), LivesOn(s, t), Display(t, u)
  PROVE  Good(u) /\ LivesOn(s, u)
<1>1. Good(u)
  BY DisplayGood
<1>2. /\ u.app.names = t.app.names /\ u.app.connected = t.app.connected
      /\ u.app.everConnected = t.app.everConnected
      /\ u.app.disconnectSeen = t.app.disconnectSeen
      /\ u.app.discReason = t.app.discReason
      /\ u.app.exitCode = t.app.exitCode
      /\ u.win.show = t.win.show
  BY DEF Display, SameSession, SameLife
<1>3. LivesOn(s, u)
  BY <1>2 DEF LivesOn, Advances
<1> QED
  BY <1>1, <1>3

\* A reported end is recorded, once; it must be there, and the reason be the
\* control's, or none where polling may have found it.
LEMMA HandleDisconnectGood ==
  ASSUME NEW s \in Worlds, Ends(s), ShownIn(s), NEW reason \in Nat,
         s.app.sink # "none", s.ctl.link = "down",
         \/ reason = s.ctl.reason
         \/ reason = 0 /\ s.app.names # EventNames,
         Orderly(s.app.names) /\ "OnConnected" \in s.app.names =>
           NoStart(s.ctl)
  PROVE  /\ Good(HandleDisconnect(s, reason))
         /\ LivesOn(s, HandleDisconnect(s, reason))
<1>1. CASE s.app.disconnectSeen
  <2>1. HandleDisconnect(s, reason) = s
    BY <1>1 DEF HandleDisconnect
  <2>2. EndQueued(s)
    BY <1>1 DEF Ends, InOrder, EndQueued
  <2> QED
    BY <2>1, <2>2 DEF Good, LivesOn, Advances
<1>2. CASE ~s.app.disconnectSeen
  <2> DEFINE a == [s.app EXCEPT !.disconnectSeen = TRUE, !.connected = FALSE,
                                !.discReason = reason]
             r == [s EXCEPT !.app = a]
             t == PostMessage(r, "wmRDPDisconnected")
  <2>1. /\ a \in AppStates
        /\ a.disconnectSeen /\ ~a.connected /\ a.discReason = reason
        /\ a.sink = s.app.sink /\ a.names = s.app.names
        /\ a.everConnected = s.app.everConnected
        /\ a.exitCode = s.app.exitCode /\ a.session = s.app.session
        /\ a.fullScreen = s.app.fullScreen
    BY DEF Worlds, AppStates
  <2>2. HandleDisconnect(s, reason) = t
    BY <1>2 DEF HandleDisconnect, Worlds
  <2> HIDE DEF a
  <2>3. r \in Worlds /\ r.app = a /\ r.ctl = s.ctl /\ r.win = s.win
    BY <2>1 DEF Worlds
  <2> HIDE DEF r
  <2>4. t.app = a /\ t.ctl = s.ctl /\ t.win = s.win
    BY <2>3, PostMessageFields DEF PostedMessages
  <2> HIDE DEF t
  <2>5. Ends(t)
    <3>1. InOrder(t)
      BY <2>1, <2>4 DEF InOrder
    <3> QED
      BY <2>1, <2>4, <3>1 DEF Ends
  <2>6. EndQueued(t) /\ ShownIn(t)
    BY <2>1, <2>4 DEF EndQueued, ShownIn
  <2>7. LivesOn(s, t)
    BY <1>2, <2>1, <2>4 DEF LivesOn, Advances
  <2> QED
    BY <2>2, <2>5, <2>6, <2>7 DEF Good
<1> QED
  BY <1>1, <1>2

\* Polling finds the end of a session it saw.
LEMMA PollGood ==
  ASSUME NEW s \in Worlds, Ends(s), ShownIn(s), s.app.sink # "none",
         s.app.names # EventNames,
         Orderly(s.app.names) /\ "OnConnected" \in s.app.names =>
           NoStart(s.ctl)
  PROVE  /\ Good(PollConnectionState(s))
         /\ LivesOn(s, PollConnectionState(s))
<1> DEFINE a == [s.app EXCEPT !.connected = TRUE, !.everConnected = TRUE]
           t == [s EXCEPT !.app = a]
<1>0. s.ctl.link \in Links
  BY DEF Worlds, ControlStates
<1>1. CASE ~s.app.disconnectSeen /\ ConnectedState(s.ctl) = 1
  <2>0. PollConnectionState(s)
          = [s EXCEPT !.app.connected = TRUE, !.app.everConnected = TRUE]
    BY <1>1 DEF PollConnectionState
  <2>1. PollConnectionState(s) = t
    BY <2>0 DEF Worlds
  <2>2. s.ctl.link # "down" /\ s.ctl.link \notin EarlyLinks
    BY <1>1 DEF ConnectedState, EarlyLinks
  <2>3. /\ a \in AppStates
        /\ a.connected /\ a.everConnected
        /\ a.disconnectSeen = s.app.disconnectSeen
        /\ a.discReason = s.app.discReason
        /\ a.sink = s.app.sink /\ a.names = s.app.names
        /\ a.exitCode = s.app.exitCode /\ a.session = s.app.session
        /\ a.fullScreen = s.app.fullScreen
    BY DEF Worlds, AppStates
  <2> HIDE DEF a
  <2>4. t.app = a /\ t.ctl = s.ctl /\ t.win = s.win
    BY DEF Worlds
  <2> HIDE DEF t
  <2>5. Ends(t)
    <3>1. InOrder(t)
      BY <1>1, <2>3, <2>4 DEF InOrder
    <3> QED
      BY <1>1, <2>2, <2>3, <2>4, <3>1 DEF Ends
  <2>6. EndQueued(t) /\ ShownIn(t)
    BY <2>2, <2>3, <2>4 DEF EndQueued, ShownIn
  <2>7. LivesOn(s, t)
    BY <1>1, <2>3, <2>4 DEF LivesOn, Advances
  <2> QED
    BY <2>1, <2>5, <2>6, <2>7 DEF Good
<1>2. CASE /\ ~s.app.disconnectSeen /\ ConnectedState(s.ctl) = 0
           /\ s.app.everConnected
  <2>1. PollConnectionState(s) = HandleDisconnect(s, 0)
    BY <1>2 DEF PollConnectionState
  <2>2. s.ctl.link = "down"
    BY <1>0, <1>2 DEF Ends, EarlyLinks, Links, ConnectedState
  <2> QED
    BY <2>1, <2>2, HandleDisconnectGood
<1>3. CASE /\ ~(~s.app.disconnectSeen /\ ConnectedState(s.ctl) = 1)
           /\ ~(/\ ~s.app.disconnectSeen /\ ConnectedState(s.ctl) = 0
                /\ s.app.everConnected)
  <2>1. PollConnectionState(s) = s
    BY <1>3 DEF PollConnectionState
  <2>2. s.ctl.link = "down" => ConnectedState(s.ctl) = 0
    BY DEF ConnectedState
  <2>3. EndQueued(s)
    BY <1>3, <2>2 DEF Ends, InOrder, EndQueued
  <2> QED
    BY <2>1, <2>3 DEF Good, LivesOn, Advances
<1> QED
  BY <1>1, <1>2, <1>3

-----------------------------------------------------------------------------
(* The event at the head of the queue.                                     *)

LEMMA TakeEnds ==
  ASSUME NEW c \in ControlStates, c.events # << >>, NEW e, e = Head(c.events),
         NEW d, d = [c EXCEPT !.events = Tail(@)]
  PROVE  /\ d \in ControlStates /\ e \in Events /\ e.name \in EventNames
         /\ d.link = c.link /\ d.reason = c.reason /\ d.advised = c.advised
         /\ d.desk = c.desk /\ d.full = c.full /\ d.events = Tail(c.events)
         /\ EndTold(c) => EndTold(d)
         /\ Opens(c) => Opens(d)
         /\ EndTold(c) /\ Followed(c) => Followed(d)
         /\ NoStart(c) => NoStart(d) /\ e.name # "OnConnected"
         /\ e.name # "OnDisconnected" /\ Holds(c, "OnDisconnected") =>
              Holds(d, "OnDisconnected")
         /\ EndTold(c) /\ e.name = "OnDisconnected" =>
              c.link = "down" /\ e.arg = c.reason /\ NoStart(d)
         /\ Opens(c) /\ e.name = "OnConnected" =>
              c.link \notin EarlyLinks /\ NoStart(d)
         /\ Opens(c) => NoStart(c) \/ e.name \in Early \cup {"OnConnected"}
<1> DEFINE q == c.events
           r == Tail(q)
<1>1. q \in Seq(Events) /\ q # << >>
  BY DEF ControlStates
<1>2. r \in Seq(Events) /\ e \in Events
  BY <1>1, TailType
<1>3. /\ 1 \in DOMAIN q /\ q[1] = e
      /\ \A j \in DOMAIN r :
           /\ j + 1 \in DOMAIN q /\ r[j] = q[j + 1] /\ 1 < j + 1
           /\ \A i \in DOMAIN r : i < j => i + 1 < j + 1
  BY <1>1
<1>10. \A i \in DOMAIN q : 1 < i \/ q[i] = e
  BY <1>1
<1>11. \A i \in DOMAIN q : q[i] # e => \E j \in DOMAIN r : r[j] = q[i]
  BY <1>1, TailKeeps
<1>4. e.name \in EventNames
  BY <1>2 DEF Events
<1> HIDE DEF r, q
<1>5. /\ d \in ControlStates /\ d.events = r /\ c.events = q
      /\ d.link = c.link /\ d.reason = c.reason /\ d.advised = c.advised
      /\ d.desk = c.desk /\ d.full = c.full
  BY <1>2 DEF ControlStates, r, q
<1>6. EndTold(c) => EndTold(d)
  <2> SUFFICES ASSUME EndTold(c), NEW i \in DOMAIN r,
                      r[i].name = "OnDisconnected"
               PROVE  /\ d.link = "down" /\ r[i].arg = d.reason
                      /\ \A j \in DOMAIN r : i < j => r[j].name # "OnConnected"
    BY <1>5 DEF EndTold
  <2>1. i + 1 \in DOMAIN q /\ r[i] = q[i + 1]
    BY <1>3
  <2>2. /\ c.link = "down" /\ q[i + 1].arg = c.reason
        /\ \A j \in DOMAIN q : i + 1 < j => q[j].name # "OnConnected"
    BY <1>5, <2>1 DEF EndTold
  <2>3. \A j \in DOMAIN r : i < j => r[j].name # "OnConnected"
    BY <1>3, <2>2
  <2> QED
    BY <1>5, <2>1, <2>2, <2>3
<1>7. NoStart(c) => NoStart(d) /\ e.name # "OnConnected"
  BY <1>3, <1>5 DEF NoStart, Silent
<1>8. EndTold(c) /\ e.name = "OnDisconnected" =>
        c.link = "down" /\ e.arg = c.reason /\ NoStart(d)
  BY <1>3, <1>5 DEF EndTold, NoStart, Silent
<1>9. e.name # "OnDisconnected" /\ Holds(c, "OnDisconnected") =>
        Holds(d, "OnDisconnected")
  BY <1>5, <1>11 DEF Holds
<1>12. EndTold(c) /\ Followed(c) => Followed(d)
  BY <1>5, <1>7, <1>8, <1>9 DEF Followed
<1>13. ASSUME Opens(c)
       PROVE  /\ Opens(d)
              /\ e.name = "OnConnected" => c.link \notin EarlyLinks /\ NoStart(d)
              /\ NoStart(c) \/ e.name \in Early \cup {"OnConnected"}
  <2>0. "OnConnected" \notin Early
    BY DEF Early, Announcements
  <2>1. /\ c.link \in EarlyLinks => \A i \in DOMAIN q : q[i].name \in Early
        /\ \A i \in DOMAIN q : q[i].name = "OnConnected" =>
             \A j \in DOMAIN q : j < i => q[j].name \in Early
    BY <1>5, <1>13 DEF Opens
  <2>2. d.link \in EarlyLinks => \A i \in DOMAIN r : r[i].name \in Early
    BY <1>3, <1>5, <2>1
  <2>3. ASSUME NEW i \in DOMAIN r, r[i].name = "OnConnected",
               NEW j \in DOMAIN r, j < i
        PROVE  r[j].name \in Early
    <3>1. /\ i + 1 \in DOMAIN q /\ r[i] = q[i + 1]
          /\ j + 1 \in DOMAIN q /\ r[j] = q[j + 1] /\ j + 1 < i + 1
      BY <1>3, <2>3
    <3> QED
      BY <2>1, <2>3, <3>1
  <2>4. Opens(d)
    BY <1>5, <2>2, <2>3 DEF Opens
  <2>5. \A i \in DOMAIN r : r[i].name = "OnConnected" => e.name \in Early
    BY <1>3, <2>1
  <2>6. e.name = "OnConnected" => c.link \notin EarlyLinks /\ NoStart(d)
    BY <1>3, <1>5, <2>0, <2>1, <2>5 DEF NoStart, Silent
  <2>7. NoStart(c) \/ e.name \in Early \cup {"OnConnected"}
    BY <1>3, <1>5, <1>10, <2>1 DEF NoStart, Silent
  <2> QED
    BY <2>4, <2>6, <2>7
<1> QED
  BY <1>2, <1>4, <1>5, <1>6, <1>7, <1>8, <1>9, <1>12, <1>13 DEF r, q

\* The news at the head was the latest of its kind, or is overtaken.
LEMMA TakeShown ==
  ASSUME NEW c \in ControlStates, c.events # << >>, NEW e, e = Head(c.events),
         NEW d, d = [c EXCEPT !.events = Tail(@)],
         NEW names, NEW k, NEW m \in BOOLEAN, Shown(names, c, k, m)
  PROVE  /\ e.name \in names /\ e.name = Size =>
              e.arg > 0 /\ Shown(names, d, e.arg, m)
         /\ e.name \in names /\ e.name \in Modes =>
              Shown(names, d, k, e.name = "OnEnterFullScreenMode")
         /\ e.name \notin names \/ e.name \notin Modes \cup {Size} =>
              Shown(names, d, k, m)
<1> DEFINE q == c.events
           r == Tail(q)
<1>1. q \in Seq(Events) /\ q # << >>
  BY DEF ControlStates
<1>2. /\ d.advised = c.advised /\ d.desk = c.desk /\ d.full = c.full
      /\ d.events = r
  BY TakeEnds
<1>3. /\ 1 \in DOMAIN q /\ q[1] = e
      /\ \A j \in DOMAIN r : j + 1 \in DOMAIN q /\ r[j] = q[j + 1]
  BY <1>1
<1>4. \A N : /\ Silent(q, N) => Silent(r, N) /\ e.name \notin N
             /\ \A i \in DOMAIN q : Latest(q, N, i) =>
                  \/ q[i] = e /\ Silent(r, N)
                  \/ \E j \in DOMAIN r : Latest(r, N, j) /\ r[j] = q[i]
  <2> SUFFICES ASSUME NEW N
               PROVE  /\ Silent(q, N) => Silent(r, N) /\ e.name \notin N
                      /\ \A i \in DOMAIN q : Latest(q, N, i) =>
                           \/ q[i] = e /\ Silent(r, N)
                           \/ \E j \in DOMAIN r : Latest(r, N, j) /\ r[j] = q[i]
    OBVIOUS
  <2>1. e = Head(q)
    OBVIOUS
  <2> HIDE DEF q
  <2> QED
    BY <1>1, <2>1, TailLatest
<1> HIDE DEF r
<1>5. /\ SizesLegal(d)
      /\ e.name = Size => Legal(e.arg)
  BY <1>2, <1>3 DEF Shown, SizesLegal
<1>6. e.name = Size => e.arg > 0
  <2>1. e.arg \in Nat
    BY TakeEnds DEF Events
  <2> QED
    BY <1>5, <2>1 DEF Legal, MinExtent
<1>7. /\ e.name = Size /\ SizeTold(c, k) => SizeTold(d, e.arg)
      /\ e.name # Size /\ SizeTold(c, k) => SizeTold(d, k)
  <2>1. \A i \in DOMAIN q : Latest(q, {Size}, i) => q[i].name = Size
    BY DEF Latest
  <2>2. /\ Silent(q, {Size}) => Silent(r, {Size}) /\ e.name # Size
        /\ \A i \in DOMAIN q : Latest(q, {Size}, i) =>
             \/ q[i] = e /\ Silent(r, {Size})
             \/ \E j \in DOMAIN r : Latest(r, {Size}, j) /\ r[j] = q[i]
    BY <1>4
  <2> QED
    BY <1>2, <2>1, <2>2 DEF SizeTold
<1>8. /\ e.name \in Modes /\ ModeTold(c, m)
           => ModeTold(d, e.name = "OnEnterFullScreenMode")
      /\ e.name \notin Modes /\ ModeTold(c, m) => ModeTold(d, m)
  <2>1. \A i \in DOMAIN q : Latest(q, Modes, i) => q[i].name \in Modes
    BY DEF Latest
  <2>2. /\ Silent(q, Modes) => Silent(r, Modes) /\ e.name \notin Modes
        /\ \A i \in DOMAIN q : Latest(q, Modes, i) =>
             \/ q[i] = e /\ Silent(r, Modes)
             \/ \E j \in DOMAIN r : Latest(r, Modes, j) /\ r[j] = q[i]
    BY <1>4
  <2>3. ASSUME NEW i \in DOMAIN q, Latest(q, Modes, i),
               c.full <=> q[i].name = "OnEnterFullScreenMode"
        PROVE  /\ e.name \in Modes =>
                    ModeTold(d, e.name = "OnEnterFullScreenMode")
               /\ e.name \notin Modes => ModeTold(d, m)
    <3>1. q[i].name \in Modes
      BY <2>1, <2>3
    <3>2. CASE q[i] = e /\ Silent(r, Modes)
      BY <1>2, <2>3, <3>1, <3>2 DEF ModeTold
    <3>3. CASE \E j \in DOMAIN r : Latest(r, Modes, j) /\ r[j] = q[i]
      BY <1>2, <2>3, <3>3 DEF ModeTold
    <3> QED
      BY <2>2, <2>3, <3>2, <3>3
  <2>4. ASSUME Silent(q, Modes), c.full <=> m
        PROVE  e.name \notin Modes /\ ModeTold(d, m)
    BY <1>2, <2>2, <2>4 DEF ModeTold
  <2>5. ASSUME ModeTold(c, m)
        PROVE  \/ Silent(q, Modes) /\ (c.full <=> m)
               \/ \E i \in DOMAIN q :
                    /\ Latest(q, Modes, i)
                    /\ c.full <=> q[i].name = "OnEnterFullScreenMode"
    BY <2>5 DEF ModeTold
  <2> QED
    BY <2>3, <2>4, <2>5
<1>9. e.name \in Modes => e.name # Size
  BY DEF Modes, Size
<1> HIDE DEF q
<1>10. /\ Legal(k)
       /\ Size \in names => d.advised /\ SizeTold(c, k)
       /\ Modes \subseteq names => d.advised /\ (Honoured => ModeTold(c, m))
  BY <1>2 DEF Shown
<1>11. e.name = Size => e.arg > 0 /\ Shown(names, d, e.arg, m)
  BY <1>5, <1>6, <1>7, <1>8, <1>9, <1>10 DEF Shown
<1>12. e.name \in Modes => Shown(names, d, k, e.name = "OnEnterFullScreenMode")
  BY <1>5, <1>7, <1>8, <1>9, <1>10 DEF Shown
<1>13. ASSUME e.name \notin names \/ e.name \notin Modes \cup {Size}
       PROVE  Shown(names, d, k, m)
  <2>1. Size \in names => SizeTold(d, k)
    BY <1>7, <1>10, <1>13
  <2>2. Modes \subseteq names => (Honoured => ModeTold(d, m))
    BY <1>8, <1>10, <1>13
  <2> QED
    BY <1>5, <1>10, <2>1, <2>2 DEF Shown
<1> QED
  BY <1>11, <1>12, <1>13

\* Another App that knows the same of the session's life.
LEMMA NotedGood ==
  ASSUME NEW s \in Worlds, Ends(s), NEW a \in AppStates,
         a.sink = s.app.sink, a.names = s.app.names,
         a.connected = s.app.connected,
         a.everConnected = s.app.everConnected,
         a.disconnectSeen = s.app.disconnectSeen,
         a.discReason = s.app.discReason, a.exitCode = s.app.exitCode,
         EndQueued(s), Shown(s.app.names, s.ctl, a.session, a.fullScreen)
  PROVE  /\ [s EXCEPT !.app = a] \in Worlds
         /\ Good([s EXCEPT !.app = a])
         /\ LivesOn(s, [s EXCEPT !.app = a])
<1> DEFINE t == [s EXCEPT !.app = a]
<1>1. t \in Worlds /\ t.app = a /\ t.ctl = s.ctl /\ t.win = s.win
  BY DEF Worlds
<1> HIDE DEF t
<1>2. Ends(t)
  BY <1>1 DEF Ends, InOrder
<1>3. EndQueued(t)
  BY <1>1 DEF EndQueued
<1>4. ShownIn(t)
  BY <1>1 DEF ShownIn
<1>5. LivesOn(s, t)
  BY <1>1 DEF LivesOn, Advances
<1> QED
  BY <1>1, <1>2, <1>3, <1>4, <1>5 DEF Good, t

\* An event with a name, taken from the queue: what it tells of the display and
\* of the end is what the control shows without it.
LEMMA NamedEventGood ==
  ASSUME NEW s \in Worlds, Ends(s), s.app.sink # "none", NEW e \in Events,
         e.name = "OnConnected" =>
           /\ s.ctl.link \notin EarlyLinks /\ NoStart(s.ctl)
           /\ Orderly(s.app.names) => ~s.app.disconnectSeen
           /\ s.ctl.link = "down" => Holds(s.ctl, "OnDisconnected"),
         e.name = "OnDisconnected" =>
           s.ctl.link = "down" /\ e.arg = s.ctl.reason /\ NoStart(s.ctl),
         e.name # "OnDisconnected" => EndQueued(s),
         e.name = Size =>
           e.arg > 0 /\ Shown(s.app.names, s.ctl, e.arg, s.app.fullScreen),
         e.name \in Modes =>
           Shown(s.app.names, s.ctl, s.app.session,
                 e.name = "OnEnterFullScreenMode"),
         e.name \notin Modes \cup {Size} => ShownIn(s)
  PROVE  Good(OnNamedEvent(s, e)) /\ LivesOn(s, OnNamedEvent(s, e))
<1>0. /\ e.name \in EventNames /\ e.arg \in Nat
      /\ ShownIn(s) =>
           Shown(s.app.names, s.ctl, s.app.session, s.app.fullScreen)
  BY DEF Events, ShownIn
<1>1. CASE e.name = "OnDisconnected"
  <2>1. OnNamedEvent(s, e) = HandleDisconnect(s, e.arg)
    BY <1>1 DEF OnNamedEvent
  <2> QED
    BY <1>0, <1>1, <2>1, HandleDisconnectGood DEF Modes, Size
<1>2. CASE e.name = "OnConnected"
  <2> DEFINE a == [s.app EXCEPT !.connected = TRUE, !.everConnected = TRUE]
             r == [s EXCEPT !.app = a]
             t == PostMessage(r, "wmRDPConnected")
  <2>1. OnNamedEvent(s, e) = t
    BY <1>2 DEF OnNamedEvent, Worlds
  <2>2. /\ a \in AppStates /\ a.connected /\ a.everConnected
        /\ a.sink = s.app.sink /\ a.names = s.app.names
        /\ a.disconnectSeen = s.app.disconnectSeen
        /\ a.discReason = s.app.discReason /\ a.exitCode = s.app.exitCode
        /\ a.session = s.app.session /\ a.fullScreen = s.app.fullScreen
    BY DEF Worlds, AppStates
  <2> HIDE DEF a
  <2>3. r \in Worlds /\ r.app = a /\ r.ctl = s.ctl /\ r.win = s.win
    BY <2>2 DEF Worlds
  <2> HIDE DEF r
  <2>4. t.app = a /\ t.ctl = s.ctl /\ t.win = s.win
    BY <2>3, PostMessageFields DEF PostedMessages
  <2> HIDE DEF t
  <2>5. Ends(t)
    <3>1. InOrder(t)
      BY <1>2, <2>2, <2>4 DEF InOrder
    <3> QED
      BY <1>2, <2>2, <2>4, <3>1 DEF Ends
  <2>6. EndQueued(t) /\ ShownIn(t)
    BY <1>2, <2>2, <2>4 DEF EndQueued, ShownIn, Modes, Size
  <2>7. LivesOn(s, t)
    BY <1>2, <2>2, <2>4 DEF LivesOn, Advances
  <2> QED
    BY <2>1, <2>5, <2>6, <2>7 DEF Good
<1>3. CASE e.name \in {"OnLoginComplete", "OnFatalError", "OnLogonError",
                       "OnEnterFullScreenMode"}
  <2> DEFINE a == CASE e.name = "OnLoginComplete" ->
                         [s.app EXCEPT !.loginComplete = TRUE]
                    [] e.name = "OnFatalError" ->
                         [s.app EXCEPT !.fatalError = TRUE]
                    [] e.name = "OnLogonError" ->
                         [s.app EXCEPT !.logonError = TRUE]
                    [] e.name = "OnEnterFullScreenMode" ->
                         [s.app EXCEPT !.fullScreen = TRUE]
  <2>1. OnNamedEvent(s, e) = [s EXCEPT !.app = a]
    BY <1>3 DEF OnNamedEvent, Worlds
  <2>2. /\ a \in AppStates
        /\ a.sink = s.app.sink /\ a.names = s.app.names
        /\ a.connected = s.app.connected
        /\ a.everConnected = s.app.everConnected
        /\ a.disconnectSeen = s.app.disconnectSeen
        /\ a.discReason = s.app.discReason /\ a.exitCode = s.app.exitCode
        /\ a.session = s.app.session
        /\ e.name = "OnEnterFullScreenMode" => a.fullScreen = TRUE
        /\ e.name # "OnEnterFullScreenMode" => a.fullScreen = s.app.fullScreen
    BY <1>3 DEF Worlds, AppStates
  <2> HIDE DEF a
  <2>3. Shown(s.app.names, s.ctl, a.session, a.fullScreen)
    <3>1. CASE e.name = "OnEnterFullScreenMode"
      <4>1. (e.name = "OnEnterFullScreenMode") = TRUE /\ e.name \in Modes
        BY <3>1 DEF Modes
      <4> QED
        BY <2>2, <4>1
    <3>2. CASE e.name # "OnEnterFullScreenMode"
      BY <1>0, <1>3, <2>2, <3>2 DEF Modes, Size
    <3> QED
      BY <3>1, <3>2
  <2>4. EndQueued(s)
    BY <1>3
  <2> QED
    BY <2>1, <2>2, <2>3, <2>4, NotedGood
<1>4. CASE e.name = "OnLeaveFullScreenMode"
  <2> DEFINE a == [s.app EXCEPT !.fullScreen = FALSE, !.pendingResize = TRUE]
             t == [s EXCEPT !.app = a]
  <2>1. OnNamedEvent(s, e) = ApplyDynamicResize(t)
    BY <1>4 DEF OnNamedEvent, Worlds
  <2>2. /\ a \in AppStates
        /\ a.sink = s.app.sink /\ a.names = s.app.names
        /\ a.connected = s.app.connected
        /\ a.everConnected = s.app.everConnected
        /\ a.disconnectSeen = s.app.disconnectSeen
        /\ a.discReason = s.app.discReason /\ a.exitCode = s.app.exitCode
        /\ a.session = s.app.session /\ a.fullScreen = FALSE
    BY DEF Worlds, AppStates
  <2> HIDE DEF a
  <2>3. (e.name = "OnEnterFullScreenMode") = FALSE /\ e.name \in Modes
    BY <1>4 DEF Modes
  <2>4. Shown(s.app.names, s.ctl, a.session, a.fullScreen)
    BY <2>2, <2>3
  <2>6. EndQueued(s)
    BY <1>4
  <2>5. t \in Worlds /\ Good(t) /\ LivesOn(s, t)
    BY <2>2, <2>4, <2>6, NotedGood
  <2> HIDE DEF t
  <2> QED
    BY <2>1, <2>5, ApplyDynamicResizeDisplay, DisplayLater
<1>5. CASE e.name = "OnRequestContainerMinimize" /\ s.win.show # "gone"
  <2> DEFINE w == [s.win EXCEPT !.show = "min", !.moving = FALSE]
             t == [s EXCEPT !.win = w]
  <2>1. OnNamedEvent(s, e) = WmSize(t, "minimized")
    BY <1>5 DEF OnNamedEvent, Worlds
  <2>2. w \in WindowStates /\ w.quit = s.win.quit /\ w.show # "gone"
    BY DEF Worlds, WindowStates, Shows
  <2> HIDE DEF w
  <2>3. t \in Worlds /\ t.app = s.app /\ t.ctl = s.ctl /\ t.win = w
    BY <2>2 DEF Worlds
  <2> HIDE DEF t
  <2>4. Ends(t) /\ EndQueued(t)
    BY <1>5, <2>2, <2>3 DEF Ends, InOrder, EndQueued
  <2>5. ShownIn(t)
    BY <1>5, <2>3 DEF ShownIn, Modes, Size
  <2>6. LivesOn(s, t)
    BY <1>5, <2>3 DEF LivesOn, Advances
  <2> QED
    BY <2>1, <2>3, <2>4, <2>5, <2>6, WmSizeDisplay, DisplayLater DEF Good
<1>6. CASE e.name = "OnRemoteDesktopSizeChange" /\ e.arg > 0
  <2> DEFINE a == [s.app EXCEPT !.session = e.arg]
  <2>1. OnNamedEvent(s, e) = [s EXCEPT !.app = a]
    BY <1>6 DEF OnNamedEvent, Worlds
  <2>2. /\ a \in AppStates
        /\ a.sink = s.app.sink /\ a.names = s.app.names
        /\ a.connected = s.app.connected
        /\ a.everConnected = s.app.everConnected
        /\ a.disconnectSeen = s.app.disconnectSeen
        /\ a.discReason = s.app.discReason /\ a.exitCode = s.app.exitCode
        /\ a.session = e.arg /\ a.fullScreen = s.app.fullScreen
    BY <1>0 DEF Worlds, AppStates
  <2> HIDE DEF a
  <2> QED
    BY <1>6, <2>1, <2>2, NotedGood DEF Size
<1>7. CASE /\ e.name \notin {"OnConnected", "OnLoginComplete", "OnFatalError",
                             "OnLogonError", "OnEnterFullScreenMode",
                             "OnLeaveFullScreenMode", "OnDisconnected"}
           /\ ~(e.name = "OnRequestContainerMinimize" /\ s.win.show # "gone")
           /\ ~(e.name = "OnRemoteDesktopSizeChange" /\ e.arg > 0)
  <2>1. OnNamedEvent(s, e) = s
    BY <1>7 DEF OnNamedEvent
  <2>2. ShownIn(s)
    BY <1>7 DEF Modes, Size
  <2>3. EndQueued(s) /\ LivesOn(s, s)
    BY <1>7 DEF LivesOn, Advances
  <2> QED
    BY <2>1, <2>2, <2>3 DEF Good
<1> QED
  BY <1>1, <1>2, <1>3, <1>4, <1>5, <1>6, <1>7

LEMMA OnEventGood ==
  ASSUME NEW s \in Worlds, Good(s), s.ctl.events # << >>
  PROVE  LET t == OnEvent([s EXCEPT !.ctl.events = Tail(@)], Head(s.ctl.events))
         IN  Good(t) /\ LivesOn(s, t)
<1> DEFINE c == s.ctl
           d == [c EXCEPT !.events = Tail(@)]
           r == [s EXCEPT !.ctl.events = Tail(@)]
           e == Head(c.events)
<1>1. /\ d \in ControlStates /\ e \in Events /\ e.name \in EventNames
      /\ d.link = c.link /\ d.reason = c.reason /\ d.advised = c.advised
      /\ EndTold(c) => EndTold(d)
      /\ Opens(c) => Opens(d)
      /\ EndTold(c) /\ Followed(c) => Followed(d)
      /\ NoStart(c) => NoStart(d) /\ e.name # "OnConnected"
      /\ e.name # "OnDisconnected" /\ Holds(c, "OnDisconnected") =>
           Holds(d, "OnDisconnected")
      /\ EndTold(c) /\ e.name = "OnDisconnected" =>
           c.link = "down" /\ e.arg = c.reason /\ NoStart(d)
      /\ Opens(c) /\ e.name = "OnConnected" =>
           c.link \notin EarlyLinks /\ NoStart(d)
      /\ Opens(c) => NoStart(c) \/ e.name \in Early \cup {"OnConnected"}
  BY WorldFields, TakeEnds
<1> DEFINE n == s.app.names
           k == s.app.session
           m == s.app.fullScreen
<1>2. /\ e.name \in n /\ e.name = Size => e.arg > 0 /\ Shown(n, d, e.arg, m)
      /\ e.name \in n /\ e.name \in Modes =>
           Shown(n, d, k, e.name = "OnEnterFullScreenMode")
      /\ e.name \notin n \/ e.name \notin Modes \cup {Size} => Shown(n, d, k, m)
  <2>1. m \in BOOLEAN /\ Shown(n, c, k, m)
    BY DEF Worlds, AppStates, Good, ShownIn
  <2>2. c \in ControlStates /\ c.events # << >>
    BY WorldFields
  <2> HIDE DEF n, k, m, c
  <2> QED
    BY <2>1, <2>2, TakeShown
<1>3. /\ r \in Worlds /\ r.ctl = d /\ r.app = s.app /\ r.win = s.win
  BY <1>1 DEF Worlds
<1> HIDE DEF d, r, e
<1>4. /\ Ends(s) /\ EndQueued(s) /\ s.app.sink # "none"
      /\ EndTold(c) /\ Opens(c) /\ Followed(c) /\ InOrder(s)
  BY DEF Good, Ends
<1>5. Ends(r)
  <2>1. InOrder(r)
    BY <1>1, <1>3, <1>4 DEF InOrder
  <2> QED
    BY <1>1, <1>3, <1>4, <2>1 DEF Ends
<1> DEFINE t == OnEvent(r, e)
<1>6. Good(t) /\ LivesOn(r, t)
  <2>1. CASE e.name \in n
    <3>1. t = OnNamedEvent(r, e)
      BY <1>3, <2>1 DEF OnEvent
    <3>2. e.name = "OnConnected" =>
            /\ r.ctl.link \notin EarlyLinks /\ NoStart(r.ctl)
            /\ Orderly(r.app.names) => ~r.app.disconnectSeen
            /\ r.ctl.link = "down" => Holds(r.ctl, "OnDisconnected")
      BY <1>1, <1>3, <1>4, <2>1 DEF InOrder, Followed
    <3>3. e.name = "OnDisconnected" =>
            r.ctl.link = "down" /\ e.arg = r.ctl.reason /\ NoStart(r.ctl)
      BY <1>1, <1>3, <1>4
    <3>4. e.name # "OnDisconnected" => EndQueued(r)
      BY <1>1, <1>3, <1>4 DEF EndQueued
    <3>5. /\ e.name = Size =>
               e.arg > 0 /\ Shown(r.app.names, r.ctl, e.arg, r.app.fullScreen)
          /\ e.name \in Modes =>
               Shown(r.app.names, r.ctl, r.app.session,
                     e.name = "OnEnterFullScreenMode")
          /\ e.name \notin Modes \cup {Size} => ShownIn(r)
      BY <1>2, <1>3, <2>1 DEF ShownIn
    <3> HIDE DEF t
    <3> QED
      BY <1>1, <1>3, <1>4, <1>5, <3>1, <3>2, <3>3, <3>4, <3>5, NamedEventGood
  <2>2. CASE e.name \notin n
    <3>1. t = PollConnectionState(r)
      BY <1>3, <2>2 DEF OnEvent
    <3>2. ShownIn(r) /\ r.app.names # EventNames
      BY <1>1, <1>2, <1>3, <2>2 DEF ShownIn
    <3>3. Orderly(r.app.names) /\ "OnConnected" \in r.app.names =>
            NoStart(r.ctl)
      BY <1>1, <1>3, <1>4, <2>2 DEF Orderly
    <3> HIDE DEF t
    <3> QED
      BY <1>3, <1>4, <1>5, <3>1, <3>2, <3>3, PollGood
  <2> QED
    BY <2>1, <2>2
<1> HIDE DEF t
<1>7. LivesOn(s, t)
  BY <1>3, <1>6 DEF LivesOn, Advances
<1> QED
  BY <1>6, <1>7 DEF t, r, e

-----------------------------------------------------------------------------
(* Messages, gestures and the close.                                       *)

\* The window comes to another place, or is gone.
LEMMA MovedGood ==
  ASSUME NEW s \in Worlds, Good(s), NEW t \in Worlds, t.ctl = s.ctl,
         t.app.sink = s.app.sink, t.app.names = s.app.names,
         t.app.connected = s.app.connected,
         t.app.everConnected = s.app.everConnected,
         t.app.disconnectSeen = s.app.disconnectSeen,
         t.app.discReason = s.app.discReason,
         t.app.exitCode = s.app.exitCode,
         t.app.session = s.app.session, t.app.fullScreen = s.app.fullScreen,
         t.win.quit => t.win.show = "gone",
         s.win.show = "gone" => t.win.show = "gone"
  PROVE  Good(t) /\ LivesOn(s, t)
<1>1. Ends(t)
  BY DEF Good, Ends, InOrder
<1>2. EndQueued(t) /\ ShownIn(t)
  BY DEF Good, EndQueued, ShownIn
<1>3. LivesOn(s, t)
  BY DEF LivesOn, Advances
<1> QED
  BY <1>1, <1>2, <1>3 DEF Good

LEMMA DispatchGood ==
  ASSUME NEW s \in Worlds, Good(s), s.posted # << >>,
         NEW r, r = [s EXCEPT !.posted = Tail(@)]
  PROVE  /\ Good(WmRDPConnected(r)) /\ LivesOn(s, WmRDPConnected(r))
         /\ Good(WmRDPDisconnected(r)) /\ LivesOn(s, WmRDPDisconnected(r))
<1>1. Tail(s.posted) \in Seq(PostedMessages)
  BY WorldFields, TailType
<1>2. r \in Worlds /\ r.app = s.app /\ r.win = s.win /\ r.ctl = s.ctl
  BY <1>1 DEF Worlds
<1>3. s.win.quit => s.win.show = "gone"
  BY DEF Good, Ends
<1>4. Good(r) /\ LivesOn(s, r)
  BY <1>2, <1>3, MovedGood
<1>5. Good(WmRDPConnected(r)) /\ LivesOn(s, WmRDPConnected(r))
  <2> DEFINE c == IF FullScreen /\ ~r.app.fullScreen
                  THEN EnterFullScreen(r.ctl) ELSE r.ctl
             t == [r EXCEPT !.app = r.app, !.ctl = c]
  <2>1. WmRDPConnected(r) = ApplyScale(t)
    BY <1>2 DEF WmRDPConnected, Worlds
  <2>2. Adds(r.ctl, c, Announcements)
    BY <1>2, WorldFields, EnterFullScreenAdds, AddsItself
  <2>3. ShownIn(r) =>
          Shown(r.app.names, c, r.app.session, r.app.fullScreen)
    BY <1>2, WorldFields, EnterFullScreenShown DEF ShownIn
  <2> HIDE DEF c
  <2>4. Display(r, t)
    BY <1>2, <2>2, <2>3, WorldFields, DisplayMade DEF SameLife
  <2> HIDE DEF t
  <2>5. Display(r, ApplyScale(t))
    BY <1>2, <2>4, DisplayWorld, ApplyScaleDisplay, DisplayChains
  <2> QED
    BY <1>2, <1>4, <2>1, <2>5, DisplayLater
<1>6. Good(WmRDPDisconnected(r)) /\ LivesOn(s, WmRDPDisconnected(r))
  <2>1. CASE r.app.closing
    <3>1. WmRDPDisconnected(r) = r
      BY <2>1 DEF WmRDPDisconnected
    <3> QED
      BY <1>4, <3>1
  <2>2. CASE ~r.app.closing
    <3> DEFINE a == [r.app EXCEPT !.closing = TRUE]
               v == [r EXCEPT !.app = a]
               t == DestroyWindow(v)
    <3>1. /\ a \in AppStates
          /\ a.sink = s.app.sink /\ a.names = s.app.names
          /\ a.connected = s.app.connected
          /\ a.everConnected = s.app.everConnected
          /\ a.disconnectSeen = s.app.disconnectSeen
          /\ a.discReason = s.app.discReason /\ a.exitCode = s.app.exitCode
          /\ a.session = s.app.session /\ a.fullScreen = s.app.fullScreen
      BY <1>2 DEF Worlds, AppStates
    <3>2. WmRDPDisconnected(r) = t
      BY <1>2, <2>2 DEF WmRDPDisconnected, Worlds
    <3> HIDE DEF a
    <3>3. v \in Worlds /\ v.app = a /\ v.ctl = s.ctl
      BY <1>2, <3>1 DEF Worlds
    <3> HIDE DEF v
    <3>4. t \in Worlds /\ t.app = a /\ t.ctl = s.ctl /\ t.win.show = "gone"
      BY <3>3, DestroyWindowFields
    <3> HIDE DEF t
    <3> QED
      BY <3>1, <3>2, <3>4, MovedGood
  <2> QED
    BY <2>1, <2>2
<1> QED
  BY <1>5, <1>6

\* A close may set the control leaving, which is no end yet.
LEMMA CloseGood ==
  ASSUME NEW s \in Worlds, Good(s), NEW ok \in BOOLEAN
  PROVE  Good(WmClose(s, ok)) /\ LivesOn(s, WmClose(s, ok))
<1> DEFINE a == [s.app EXCEPT !.closing = TRUE]
           c == IF s.app.connected THEN Disconnect(s.ctl) ELSE s.ctl
           r == [s EXCEPT !.app = a, !.ctl = c]
           t == DestroyWindow(r)
<1>1. WmClose(s, ok) = r \/ WmClose(s, ok) = t
  BY DEF WmClose, Worlds
<1>2. /\ a \in AppStates
      /\ a.sink = s.app.sink /\ a.names = s.app.names
      /\ a.connected = s.app.connected
      /\ a.everConnected = s.app.everConnected
      /\ a.disconnectSeen = s.app.disconnectSeen
      /\ a.discReason = s.app.discReason /\ a.exitCode = s.app.exitCode
      /\ a.session = s.app.session /\ a.fullScreen = s.app.fullScreen
  BY DEF Worlds, AppStates
<1>3. /\ c \in ControlStates /\ c.events = s.ctl.events
      /\ c.advised = s.ctl.advised /\ c.reason = s.ctl.reason
      /\ c.desk = s.ctl.desk /\ c.full = s.ctl.full
      /\ c.link = "down" <=> s.ctl.link = "down"
      /\ c.link \in EarlyLinks <=> s.ctl.link \in EarlyLinks
  BY DEF Disconnect, Worlds, ControlStates, Links, EarlyLinks
<1> HIDE DEF a, c
<1>4. r \in Worlds /\ r.app = a /\ r.ctl = c /\ r.win = s.win
  BY <1>2, <1>3 DEF Worlds
<1> HIDE DEF r
<1>5. Good(r) /\ LivesOn(s, r)
  <2>1. /\ EndTold(s.ctl) => EndTold(c)
        /\ NoStart(s.ctl) => NoStart(c)
        /\ Opens(s.ctl) => Opens(c)
        /\ Followed(s.ctl) => Followed(c)
        /\ NoStart(c) => NoStart(s.ctl)
        /\ Holds(s.ctl, "OnDisconnected") => Holds(c, "OnDisconnected")
    BY <1>3 DEF EndTold, NoStart, Opens, Followed, Holds
  <2>2. Ends(r)
    <3>1. InOrder(r)
      BY <1>2, <1>4, <2>1 DEF Good, Ends, InOrder
    <3> QED
      BY <1>2, <1>3, <1>4, <2>1, <3>1 DEF Good, Ends
  <2>3. EndQueued(r)
    BY <1>2, <1>3, <1>4, <2>1 DEF Good, EndQueued
  <2>4. ShownIn(r)
    <3>1. Shown(s.app.names, s.ctl, s.app.session, s.app.fullScreen)
      BY DEF Good, ShownIn
    <3>2. Shown(s.app.names, c, s.app.session, s.app.fullScreen)
      BY <1>3, <3>1, SameShown
    <3> QED
      BY <1>2, <1>4, <3>2 DEF ShownIn
  <2>5. LivesOn(s, r)
    BY <1>2, <1>4 DEF LivesOn, Advances
  <2> QED
    BY <2>2, <2>3, <2>4, <2>5 DEF Good
<1>6. Good(t) /\ LivesOn(s, t)
  <2>1. t \in Worlds /\ t.app = r.app /\ t.ctl = r.ctl /\ t.win.show = "gone"
    BY <1>4, DestroyWindowFields
  <2> HIDE DEF t
  <2>2. Good(t) /\ LivesOn(r, t)
    BY <1>4, <1>5, <2>1, MovedGood
  <2>3. LivesOn(s, t)
    BY <1>2, <1>4, <2>1 DEF LivesOn, Advances
  <2> QED
    BY <2>2, <2>3
<1> QED
  BY <1>1, <1>5, <1>6

\* A window that is there takes another place, and WM_SIZE comes for it.
LEMMA MovesGood ==
  ASSUME NEW s \in Worlds, Good(s), s.win.show # "gone",
         NEW w \in WindowStates, w.quit = s.win.quit,
         NEW how \in {"minimized", "maximized", "restored"}
  PROVE  LET v == [s EXCEPT !.win = w]
         IN  /\ Good(WmSize(v, how)) /\ LivesOn(s, WmSize(v, how))
             /\ Good(ApplyDynamicResize(v)) /\ LivesOn(s, ApplyDynamicResize(v))
<1> DEFINE v == [s EXCEPT !.win = w]
<1>1. v \in Worlds /\ v.app = s.app /\ v.ctl = s.ctl /\ v.win = w
  BY DEF Worlds
<1> HIDE DEF v
<1>2. s.win.quit => s.win.show = "gone"
  BY DEF Good, Ends
<1>3. Good(v) /\ LivesOn(s, v)
  BY <1>1, <1>2, MovedGood
<1>4. Good(WmSize(v, how)) /\ LivesOn(s, WmSize(v, how))
  BY <1>1, <1>3, WmSizeDisplay, DisplayLater
<1>5. Good(ApplyDynamicResize(v)) /\ LivesOn(s, ApplyDynamicResize(v))
  BY <1>1, <1>3, ApplyDynamicResizeDisplay, DisplayLater
<1> QED
  BY <1>4, <1>5 DEF v

-----------------------------------------------------------------------------
(* What the control does, which it does only before the end.               *)

\* The control comes to a link and raises an event.
LEMMA RaisedGood ==
  ASSUME NEW s \in Worlds, Good(s), s.ctl.link # "down",
         NEW d \in ControlStates,
         d.advised = s.ctl.advised, d.events = s.ctl.events,
         NEW name \in EventNames, NEW arg \in Nat,
         d.link = "down" <=> name = "OnDisconnected",
         d.link \in EarlyLinks => s.ctl.link \in EarlyLinks /\ name \in Early,
         name = "OnConnected" => s.ctl.link \in EarlyLinks,
         name = "OnDisconnected" => arg = d.reason,
         Shown(s.app.names, Raise(d, name, arg),
               s.app.session, s.app.fullScreen)
  PROVE  LET t == [s EXCEPT !.ctl = Raise(d, name, arg)]
         IN  Good(t) /\ LivesOn(s, t)
<1> DEFINE c == Raise(d, name, arg)
           e == [name |-> name, arg |-> arg]
           t == [s EXCEPT !.ctl = c]
           q == s.ctl.events
           r == Append(q, e)
<1>1. /\ c \in ControlStates /\ e \in Events /\ e.name = name /\ e.arg = arg
      /\ c.reason = d.reason /\ c.link = d.link /\ c.advised = s.ctl.advised
      /\ s.ctl.advised => c.events = r
      /\ ~s.ctl.advised => c.events = q
  BY RaiseFields
<1>2. Shown(s.app.names, c, s.app.session, s.app.fullScreen)
  OBVIOUS
<1>3. q \in Seq(Events)
  BY DEF Worlds, ControlStates
<1> HIDE DEF c, e
<1>4. t \in Worlds /\ t.app = s.app /\ t.win = s.win /\ t.ctl = c
  BY <1>1 DEF Worlds
<1> HIDE DEF t
<1>5. /\ Len(q) + 1 \in DOMAIN r /\ r[Len(q) + 1] = e
      /\ \A i \in DOMAIN r :
           \/ i \in DOMAIN q /\ r[i] = q[i]
           \/ i = Len(q) + 1
      /\ \A j \in DOMAIN r : ~(Len(q) + 1 < j)
      /\ \A i \in DOMAIN q : ~(Len(q) + 1 < i)
      /\ ~(Len(q) + 1 < Len(q) + 1)
  BY <1>1, <1>3
<1> HIDE DEF r
<1>6. /\ \A i \in DOMAIN q : q[i].name # "OnDisconnected"
      /\ ~s.app.disconnectSeen
      /\ s.ctl.link \in EarlyLinks =>
           ~s.app.everConnected /\ \A i \in DOMAIN q : q[i].name \in Early
      /\ \A i \in DOMAIN q : q[i].name = "OnConnected" =>
           \A j \in DOMAIN q : j < i => q[j].name \in Early
  BY DEF Good, Ends, EndTold, Opens
<1>7. EndTold(c)
  <2>1. CASE s.ctl.advised
    BY <1>1, <1>5, <1>6, <2>1 DEF EndTold
  <2>2. CASE ~s.ctl.advised
    BY <1>1, <1>6, <2>2 DEF EndTold
  <2> QED
    BY <2>1, <2>2
<1>12. Opens(c)
  <2>1. CASE s.ctl.advised
    <3>1. /\ c.link \in EarlyLinks =>
               \A i \in DOMAIN r : r[i].name \in Early
          /\ \A i \in DOMAIN r : r[i].name = "OnConnected" =>
               \A j \in DOMAIN r : j < i => r[j].name \in Early
      BY <1>1, <1>5, <1>6
    <3> QED
      BY <1>1, <2>1, <3>1 DEF Opens
  <2>2. CASE ~s.ctl.advised
    BY <1>1, <1>6, <2>2 DEF Opens
  <2> QED
    BY <2>1, <2>2
<1>13. s.ctl.advised => Holds(c, name)
  BY <1>1, <1>5 DEF Holds
<1>14. /\ ~NoStart(c) => ~NoStart(s.ctl) \/ name = "OnConnected"
       /\ ~s.ctl.advised => NoStart(c)
  <2>1. ~s.ctl.advised => q = << >>
    BY DEF Good, Ends
  <2>2. CASE s.ctl.advised
    BY <1>1, <1>5, <2>2 DEF NoStart, Silent
  <2>3. CASE ~s.ctl.advised
    <3>1. c.events = << >>
      BY <1>1, <2>1, <2>3
    <3> HIDE DEF q
    <3>2. DOMAIN c.events = {}
      BY <3>1
    <3> QED
      BY <3>2 DEF NoStart, Silent
  <2> QED
    BY <2>2, <2>3
<1>15. Followed(c)
  BY <1>1, <1>13, <1>14 DEF Followed
<1>16. InOrder(t)
  BY <1>4, <1>6, <1>14 DEF Good, Ends, InOrder
<1>8. Ends(t)
  <2>1. c.link \in EarlyLinks => ~s.app.everConnected
    BY <1>1, <1>6
  <2> QED
    BY <1>1, <1>4, <1>6, <1>7, <1>12, <1>15, <1>16, <2>1 DEF Good, Ends
<1>9. EndQueued(t)
  <2>1. s.ctl.advised => Holds(c, name)
    BY <1>13
  <2>2. s.app.connected => s.ctl.advised
    BY DEF Good, Ends
  <2> QED
    BY <1>1, <1>4, <2>1, <2>2 DEF EndQueued
<1>10. ShownIn(t)
  BY <1>2, <1>4 DEF ShownIn
<1>11. LivesOn(s, t)
  BY <1>4 DEF LivesOn, Advances
<1> QED
  BY <1>8, <1>9, <1>10, <1>11 DEF Good, t, c

\* The same for news that tells nothing of the display.
LEMMA ToldGood ==
  ASSUME NEW s \in Worlds, Good(s), s.ctl.link # "down",
         NEW d \in ControlStates,
         d.advised = s.ctl.advised, d.events = s.ctl.events,
         d.desk = s.ctl.desk, d.full = s.ctl.full,
         NEW name \in EventNames \ (Modes \cup {Size}), NEW arg \in Nat,
         d.link = "down" <=> name = "OnDisconnected",
         d.link \in EarlyLinks => s.ctl.link \in EarlyLinks /\ name \in Early,
         name = "OnConnected" => s.ctl.link \in EarlyLinks,
         name = "OnDisconnected" => arg = d.reason
  PROVE  LET t == [s EXCEPT !.ctl = Raise(d, name, arg)]
         IN  Good(t) /\ LivesOn(s, t)
<1> DEFINE n == s.app.names
           k == s.app.session
           m == s.app.fullScreen
<1>1. Shown(n, s.ctl, k, m)
  BY DEF Good, ShownIn
<1> HIDE DEF n, k, m
<1>2. Shown(n, d, k, m)
  BY <1>1, SameShown
<1>3. Shown(n, Raise(d, name, arg), k, m)
  BY <1>2, RaiseShown
<1> QED
  BY <1>3, RaisedGood DEF n, k, m

\* Another display.
LEMMA ShowsGood ==
  ASSUME NEW s \in Worlds, Good(s), NEW c, Adds(s.ctl, c, Announcements),
         Shown(s.app.names, c, s.app.session, s.app.fullScreen)
  PROVE  LET t == [s EXCEPT !.ctl = c]
         IN  Good(t) /\ LivesOn(s, t)
<1> DEFINE t == [s EXCEPT !.app = s.app, !.ctl = c]
<1>1. Display(s, t)
  BY WorldFields, DisplayMade DEF SameLife
<1>2. Good(t) /\ LivesOn(s, t)
  BY <1>1, DisplayGood
<1>3. t = [s EXCEPT !.ctl = c]
  BY DEF Worlds
<1> QED
  BY <1>2, <1>3

-----------------------------------------------------------------------------
(* The invariant of the news, and the steps of the session (Session).      *)

Starting == {"configure", "show", "connect"}

\* Before the loop nothing has happened to the session.
Before ==
  /\ ~app.connected /\ ~app.everConnected /\ ~app.disconnectSeen
  /\ app.exitCode = 0 /\ win.show # "gone"

\* Nor to the display, which has the size the program chose.
Fresh == ctl.events = << >> /\ ctl.full = FALSE /\ ctl.early \in EarlyModes

Sized == Legal(ctl.desk) /\ app.session = ctl.desk /\ app.fullScreen = FullScreen

\* The names are those of a table, or none.
Tabled == app.names \in NameTables \cup {{}}

News ==
  /\ pc # "done" => Ends(World) /\ Tabled
  /\ pc \in Starting => Before
  /\ pc \in {"configure", "show"} => Fresh
  /\ pc = "show" => Sized
  /\ pc \in {"connect", "loop"} => Good(World)

\* No table has a poll run ahead of the start of the session.
Ordered == \A names \in NameTables : Orderly(names)

\* The session goes on as promised, and its end is recorded once.
SessionStep ==
  /\ Ordered => SessionView!Next \/ UNCHANGED SessionView!vars
  /\ pc = "loop" /\ app.disconnectSeen =>
       app'.disconnectSeen /\ app'.discReason = app.discReason

LEMMA GoodFields ==
  ASSUME NEW s, NEW t, NEW u, Good(t), LivesOn(s, t),
         u.app = t.app, u.win = t.win, u.ctl = t.ctl
  PROVE  Good(u) /\ LivesOn(s, u)
<1>1. Ends(u)
  BY DEF Good, Ends, InOrder
<1>2. EndQueued(u) /\ ShownIn(u)
  BY DEF Good, EndQueued, ShownIn
<1>3. LivesOn(s, u)
  BY DEF LivesOn, Advances
<1> QED
  BY <1>1, <1>2, <1>3 DEF Good

\* Where a session is, of what App tells.
PhaseOf(p, gone, up, seen) ==
  CASE p \in Starting                        -> "starting"
    [] p = "done"                            -> "exited"
    [] p = "loop" /\ gone                    -> "closing"
    [] p = "loop" /\ ~gone /\ up             -> "live"
    [] p = "loop" /\ ~gone /\ ~up /\ seen    -> "ended"
    [] OTHER                                 -> "connecting"

LEMMA SessionPhaseIs ==
  /\ SessionPhase
       = PhaseOf(pc, win.show = "gone", app.connected, app.disconnectSeen)
  /\ SessionPhase'
       = PhaseOf(pc', win'.show = "gone", app'.connected, app'.disconnectSeen)
BY DEF SessionPhase, PhaseOf, Starting

LEMMA PhaseValues ==
  ASSUME NEW gone \in BOOLEAN, NEW up \in BOOLEAN, NEW seen \in BOOLEAN
  PROVE  /\ \A p \in Starting : PhaseOf(p, gone, up, seen) = "starting"
         /\ PhaseOf("done", gone, up, seen) = "exited"
         /\ gone => PhaseOf("loop", gone, up, seen) = "closing"
         /\ ~gone /\ up => PhaseOf("loop", gone, up, seen) = "live"
         /\ ~gone /\ ~up /\ seen => PhaseOf("loop", gone, up, seen) = "ended"
         /\ ~gone /\ ~up /\ ~seen =>
              PhaseOf("loop", gone, up, seen) = "connecting"
BY DEF PhaseOf, Starting

\* What happens in the loop is a step of the session, or none.
LEMMA LoopSteps ==
  ASSUME IInv, IInv', pc = "loop", pc' = "loop", Orderly(app.names),
         Good(World), NEW t, Good(t), LivesOn(World, t), Become(t)
  PROVE  SessionView!Next \/ UNCHANGED SessionView!vars
<1> DEFINE gone == win.show = "gone"
           up   == app.connected
           ever == app.everConnected
           seen == app.disconnectSeen
           gone2 == win'.show = "gone"
           up2   == app'.connected
           ever2 == app'.everConnected
           seen2 == app'.disconnectSeen
           p  == PhaseOf("loop", gone, up, seen)
           p2 == PhaseOf("loop", gone2, up2, seen2)
<1>1. /\ {gone, up, ever, seen} \subseteq BOOLEAN
      /\ {gone2, up2, ever2, seen2} \subseteq BOOLEAN
  <2>1. World \in Worlds /\ World' \in Worlds
    BY DEF IInv, Safe
  <2>2. app \in AppStates /\ app' \in AppStates
    BY <2>1, WorldFields DEF World
  <2> QED
    BY <2>2 DEF AppStates
<1>0. t.app.names = app.names
  BY WorldIs DEF LivesOn
<1>2. /\ up => ever /\ ~seen
      /\ up2 => ever2 /\ ~seen2
  BY <1>0, WorldIs DEF Good, Ends, InOrder, Become
<1>3. /\ app'.exitCode = app.exitCode
      /\ gone => gone2
      /\ \/ (up2 <=> up) /\ ever2 = ever /\ (seen2 <=> seen)
         \/ ~seen /\ ~seen2 /\ up2 /\ ever2 = TRUE /\ (gone2 <=> gone)
         \/ ~seen /\ seen2 /\ ~up2 /\ ever2 = ever /\ (gone2 <=> gone)
  BY <1>1, WorldIs DEF LivesOn, Advances, Become
<1>4. SessionPhase = p /\ SessionPhase' = p2
  BY SessionPhaseIs
<1>5. /\ gone => p = "closing"
      /\ ~gone /\ up => p = "live"
      /\ ~gone /\ ~up /\ seen => p = "ended"
      /\ ~gone /\ ~up /\ ~seen => p = "connecting"
      /\ gone2 => p2 = "closing"
      /\ ~gone2 /\ up2 => p2 = "live"
      /\ ~gone2 /\ ~up2 /\ seen2 => p2 = "ended"
      /\ ~gone2 /\ ~up2 /\ ~seen2 => p2 = "connecting"
  BY DEF PhaseOf, Starting
<1> HIDE DEF p, p2
<1>6. \/ p = "connecting" /\ p2 = "live" /\ ever2 = TRUE
      \/ p \in {"connecting", "live"} /\ p2 = "ended" /\ ever2 = ever
      \/ p \in {"connecting", "live", "ended"} /\ p2 = "closing" /\ ever2 = ever
      \/ p = "closing" /\ p2 = p /\ ever2 = TRUE
      \/ p2 = p /\ ever2 = ever
  <2>1. CASE (up2 <=> up) /\ ever2 = ever /\ (seen2 <=> seen)
    BY <1>2, <1>3, <1>5, <2>1
  <2>2. CASE ~seen /\ ~seen2 /\ up2 /\ ever2 = TRUE /\ (gone2 <=> gone)
    BY <1>1, <1>2, <1>3, <1>5, <2>2
  <2>3. CASE ~seen /\ seen2 /\ ~up2 /\ ever2 = ever /\ (gone2 <=> gone)
    BY <1>2, <1>3, <1>5, <2>3
  <2> QED
    BY <1>3, <2>1, <2>2, <2>3
<1>7. /\ ever = app.everConnected /\ ever2 = app'.everConnected
  OBVIOUS
<1> HIDE DEF gone, up, ever, seen, gone2, up2, ever2, seen2
<1> QED
  BY <1>3, <1>4, <1>6, <1>7
     DEF SessionView!Next, SessionView!vars, SessionView!GoLive,
         SessionView!End, SessionView!Leave, SessionView!LearnLate

\* A step in the loop that ends in a good world.
LEMMA LoopNews ==
  ASSUME IInv, IInv', pc = "loop", pc' = pc,
         News, NEW t, Good(t), LivesOn(World, t), Become(t)
  PROVE  News' /\ SessionStep
<1>0. Good(World) /\ Tabled
  BY DEF News
<1>1. /\ World'.app = t.app /\ World'.win = t.win /\ World'.ctl = t.ctl
      /\ app' = t.app
  BY DEF Become, World
<1>2. Good(World')
  BY <1>1, GoodFields
<1>3. Tabled'
  BY <1>0, <1>1, WorldIs DEF Tabled, LivesOn
<1>4. News'
  BY <1>2, <1>3 DEF News, Good, Starting
<1>5. Ordered => Orderly(app.names)
  BY <1>0 DEF Ordered, Tabled, Orderly
<1>6. Ordered => SessionView!Next \/ UNCHANGED SessionView!vars
  BY <1>0, <1>5, LoopSteps
<1>7. app.disconnectSeen =>
        app'.disconnectSeen /\ app'.discReason = app.discReason
  BY <1>1, WorldIs DEF LivesOn
<1> QED
  BY <1>4, <1>6, <1>7 DEF SessionStep

-----------------------------------------------------------------------------
(* The start and the end of the program.                                   *)

LEMMA ResolvedWidthLegal == Legal(resolveWidth(Extent, Screen, FullScreen))
<1>1. /\ Extent \in Int /\ (Extent = extentAuto \/ Extent >= 200)
      /\ Screen \in Int /\ (Screen <= 0 \/ Screen >= 200)
      /\ FullScreen \in BOOLEAN
  <2>1. /\ Extent \in Int /\ ValidExtent(Extent)
        /\ Screen \in Int /\ (Screen <= 0 \/ Screen >= MinExtent)
    BY ConstantsAssumption
  <2>2. Extent = extentAuto \/ Extent >= 200
    BY <2>1 DEF ValidExtent
  <2>3. Screen <= 0 \/ Screen >= 200
    BY <2>1 DEF MinExtent
  <2>4. FullScreen \in BOOLEAN
    BY ConstantsAssumption
  <2> QED
    BY <2>1, <2>2, <2>3, <2>4
<1> DEFINE known == IF Screen <= 0 THEN 1024 ELSE Screen
           n == (known * 4) \div 5
           scaled == clampInt(n, 800, 1920)
           given == CASE Extent # extentAuto -> Extent
                      [] Extent = extentAuto /\ FullScreen -> known
                      [] OTHER -> scaled
<1>2. known \in Int /\ known >= 200
  BY <1>1
<1> HIDE DEF known
<1>3. n \in Int
  BY <1>2
<1> HIDE DEF n
<1>4. scaled \in Int /\ scaled >= 200
  BY <1>3, ClampInRange
<1> HIDE DEF scaled
<1>5. given \in Int /\ given >= 200
  <2>1. CASE Extent # extentAuto
    BY <1>1, <2>1
  <2>2. CASE Extent = extentAuto /\ FullScreen
    BY <1>2, <2>2
  <2>3. CASE Extent = extentAuto /\ ~FullScreen
    BY <1>4, <2>3
  <2> QED
    BY <1>1, <2>1, <2>2, <2>3
<1> HIDE DEF given
<1>6. Even(given) >= 200 /\ Even(given) % 2 = 0
  <2>1. \A m \in Int : m >= 200 => Even(m) >= 200 /\ Even(m) % 2 = 0
    BY DEF Even
  <2> QED
    BY <1>5, <2>1
<1>7. resolveWidth(Extent, Screen, FullScreen) = Even(given)
  BY DEF resolveWidth, resolveExtent, given, known, n, scaled
<1> QED
  BY <1>6, <1>7 DEF Legal, MinExtent

LEMMA NothingTold ==
  ASSUME NEW c, c.events = << >>
  PROVE  /\ EndTold(c) /\ NoStart(c) /\ Opens(c) /\ Followed(c)
         /\ \A N : Silent(c.events, N)
         /\ Legal(c.desk) => SizesLegal(c)
<1>1. DOMAIN c.events = {}
  OBVIOUS
<1> QED
  BY <1>1 DEF EndTold, NoStart, Opens, Followed, Silent, SizesLegal

LEMMA InitNews == Init => News
<1> SUFFICES ASSUME Init PROVE News
  OBVIOUS
<1>1. EndTold(ctl) /\ Opens(ctl) /\ Followed(ctl)
  BY NothingTold DEF Init
<1>2. /\ ~ctl.advised /\ ctl.events = << >> /\ ctl.full = FALSE
      /\ ctl.early \in EarlyModes
      /\ win.show = "hidden" /\ ~win.quit
      /\ pc = "configure"
  BY DEF Init
<1>3. /\ app.sink = "none" /\ app.names = {} /\ ~app.connected
      /\ ~app.everConnected /\ ~app.disconnectSeen /\ app.exitCode = 0
  BY DEF Init
<1>4. Ends(World)
  BY <1>1, <1>2, <1>3, WorldIs DEF Ends, InOrder
<1> QED
  BY <1>2, <1>3, <1>4 DEF News, Tabled, Before, Fresh

\* Asked for full screen, the control shows what the program says, unless it
\* ignores a request that early.
LEMMA AskedShown ==
  ASSUME NEW c \in ControlStates, c.events = << >>, c.full = FALSE,
         c.early \in EarlyModes, Legal(c.desk), NEW names,
         names # {} => c.advised
  PROVE  Shown(names, IF FullScreen /\ c.early THEN EnterFullScreen(c) ELSE c,
               c.desk, FullScreen)
<1> DEFINE b == [c EXCEPT !.full = TRUE]
<1>0. /\ FullScreen \in BOOLEAN
      /\ Size \in names \/ Modes \subseteq names => c.advised
  BY ConstantsAssumption DEF Modes
<1>1. /\ b \in ControlStates /\ b.full /\ b.desk = c.desk
      /\ b.advised = c.advised /\ b.events = c.events
      /\ EnterFullScreen(c) = Raise(b, "OnEnterFullScreenMode", 0)
  BY DEF ControlStates, EnterFullScreen
<1> HIDE DEF b
<1>2. /\ SizesLegal(c) /\ SizeTold(c, c.desk)
      /\ Silent(c.events, Modes)
  BY NothingTold DEF SizeTold
<1>3. CASE FullScreen /\ c.early /\ c.advised
  <2>1. Shown(names, Raise(b, "OnEnterFullScreenMode", 0), c.desk, FullScreen)
    BY <1>1, <1>2, <1>3, ModeShown DEF Modes
  <2> QED
    BY <1>1, <1>3, <2>1
<1>4. CASE FullScreen /\ c.early /\ ~c.advised
  <2>1. Raise(b, "OnEnterFullScreenMode", 0) = b
    BY <1>1, <1>4 DEF Raise
  <2>2. SizesLegal(b)
    BY <1>1, <1>2 DEF SizesLegal
  <2> QED
    BY <1>0, <1>1, <1>4, <2>1, <2>2 DEF Shown
<1>5. CASE ~FullScreen
  <2>1. ModeTold(c, FullScreen)
    BY <1>0, <1>2, <1>5 DEF ModeTold
  <2> QED
    BY <1>0, <1>2, <1>5, <2>1 DEF Shown
<1>6. CASE FullScreen /\ ~c.early
  <2>1. ~Honoured
    BY <1>6 DEF Honoured
  <2> QED
    BY <1>0, <1>2, <1>6, <2>1 DEF Shown
<1> QED
  BY <1>3, <1>4, <1>5, <1>6

LEMMA ConfigureNews ==
  ASSUME IInv, IInv', News, Configure
  PROVE  News' /\ SessionStep
<1> USE WorldIs
<1>1. PICK sink \in Sinks, names \in NameTables :
        LET extent == resolveWidth(Extent, Screen, FullScreen) IN
        /\ app' = [app EXCEPT !.sink = sink,
                              !.names = IF sink = "none" THEN {} ELSE names,
                              !.session = extent, !.fullScreen = FullScreen]
        /\ win' = [win EXCEPT !.normal = extent]
        /\ ctl' = [ctl EXCEPT !.advised = (sink # "none"), !.desk = extent]
  BY DEF Configure
<1> DEFINE extent == resolveWidth(Extent, Screen, FullScreen)
<1>2. Legal(extent)
  BY ResolvedWidthLegal
<1>3. app \in AppStates /\ win \in WindowStates /\ ctl \in ControlStates
  BY WorldFields DEF IInv, Safe
<1>4. /\ app'.sink = sink /\ app'.connected = app.connected
      /\ app'.names = IF sink = "none" THEN {} ELSE names
      /\ app'.everConnected = app.everConnected
      /\ app'.disconnectSeen = app.disconnectSeen
      /\ app'.exitCode = app.exitCode /\ app'.discReason = app.discReason
      /\ app'.session = extent /\ app'.fullScreen = FullScreen
  BY <1>1, <1>3 DEF AppStates
<1>5. win'.show = win.show /\ win'.quit = win.quit
  BY <1>1, <1>3 DEF WindowStates
<1>6. /\ ctl'.advised = (sink # "none") /\ ctl'.desk = extent
      /\ ctl'.events = ctl.events /\ ctl'.full = ctl.full
      /\ ctl'.early = ctl.early /\ ctl'.link = ctl.link
  BY <1>1, <1>3 DEF ControlStates
<1> HIDE DEF extent
<1>7. pc = "configure" /\ pc' = "show" /\ Before /\ Fresh /\ Ends(World)
  BY DEF Configure, News, Starting
<1>8. Before' /\ Fresh' /\ Sized'
  BY <1>2, <1>4, <1>5, <1>6, <1>7 DEF Before, Fresh, Sized
<1>9. EndTold(ctl') /\ Opens(ctl') /\ Followed(ctl')
  <2>1. ctl'.events = << >>
    BY <1>6, <1>7 DEF Fresh
  <2> QED
    BY <2>1, NothingTold
<1>10. World'.app = app' /\ World'.win = win' /\ World'.ctl = ctl'
  BY DEF World
<1>11. Ends(World')
  BY <1>4, <1>5, <1>6, <1>7, <1>9, <1>10 DEF Ends, InOrder, Before, Fresh
<1>14. Tabled'
  BY <1>4 DEF Tabled
<1>12. News'
  BY <1>7, <1>8, <1>11, <1>14 DEF News
<1>13. SessionPhase = "starting" /\ SessionPhase' = "starting"
  BY <1>7 DEF SessionPhase
<1> QED
  BY <1>4, <1>7, <1>12, <1>13 DEF SessionStep, SessionView!vars

LEMMA ShowNews ==
  ASSUME IInv, IInv', News, Show
  PROVE  News' /\ SessionStep
<1> USE WorldIs
<1> DEFINE c == IF FullScreen /\ ctl.early THEN EnterFullScreen(ctl) ELSE ctl
           w == [win EXCEPT !.show = "normal"]
           v == [World EXCEPT !.ctl = c, !.win = w]
           t == WmSize(v, "restored")
<1>1. /\ Become(t) /\ pc = "show" /\ pc' = "connect"
  BY DEF Show, World
<1>2. Before /\ Fresh /\ Sized /\ Ends(World) /\ Tabled
  BY <1>1 DEF News, Starting
<1>3. /\ World \in Worlds /\ app \in AppStates /\ win \in WindowStates
      /\ ctl \in ControlStates
  BY WorldFields DEF IInv, Safe
<1>4. Adds(ctl, c, Announcements)
  BY <1>3, EnterFullScreenAdds, AddsItself
<1>5. Shown(app.names, c, app.session, app.fullScreen)
  <2>1. app.names # {} => ctl.advised
    BY <1>2 DEF Ends
  <2>2. Shown(app.names, c, ctl.desk, FullScreen)
    BY <1>2, <1>3, <2>1, AskedShown DEF Fresh, Sized
  <2> QED
    BY <1>2, <2>2 DEF Sized
<1>6. w \in WindowStates /\ w.show = "normal" /\ w.quit = win.quit
  BY <1>3 DEF WindowStates, Shows
<1> HIDE DEF c, w
<1>7. v \in Worlds /\ v.app = app /\ v.win = w /\ v.ctl = c
  BY <1>3, <1>4, <1>6 DEF Worlds, Adds, Keeps
<1> HIDE DEF v
<1>8. Good(v)
  <2>1. EndTold(c) /\ Opens(c) /\ Followed(c)
    BY <1>2, <1>3, <1>4, AddsEnd DEF Ends
  <2>2. /\ c.advised = ctl.advised /\ c.link = ctl.link
        /\ ~ctl.advised => c.events = ctl.events
    BY <1>4 DEF Adds, Keeps
  <2>3. ~win.quit
    BY <1>2 DEF Ends, Before
  <2>4. Ends(v)
    BY <1>2, <1>6, <1>7, <2>1, <2>2, <2>3 DEF Ends, InOrder, Before
  <2>5. EndQueued(v)
    BY <1>2, <1>7 DEF EndQueued, Before
  <2>6. ShownIn(v)
    BY <1>5, <1>7 DEF ShownIn
  <2> QED
    BY <2>4, <2>5, <2>6 DEF Good
<1>9. Display(v, t)
  BY <1>7, WmSizeDisplay
<1> HIDE DEF t
<1>10. Good(t) /\ LivesOn(v, t)
  BY <1>7, <1>8, <1>9, DisplayGood
<1>11. /\ t.app.connected = app.connected /\ t.win.show = "normal"
       /\ t.app.everConnected = app.everConnected
       /\ t.app.disconnectSeen = app.disconnectSeen
       /\ t.app.exitCode = app.exitCode /\ t.app.names = app.names
  BY <1>6, <1>7, <1>9 DEF Display, SameSession, SameLife
<1>12. World'.app = t.app /\ World'.win = t.win /\ World'.ctl = t.ctl
  BY <1>1 DEF Become, World
<1>13. Good(World')
  BY <1>10, <1>12, GoodFields
<1>14. Before'
  BY <1>1, <1>2, <1>11 DEF Before, Become
<1>18. Tabled'
  BY <1>1, <1>2, <1>11 DEF Tabled, Become
<1>15. News'
  BY <1>1, <1>13, <1>14, <1>18 DEF News, Good
<1>16. SessionPhase = "starting" /\ SessionPhase' = "starting"
  BY <1>1 DEF SessionPhase
<1>17. app'.everConnected = app.everConnected /\ app'.exitCode = app.exitCode
  BY <1>1, <1>11 DEF Become
<1> QED
  BY <1>1, <1>15, <1>16, <1>17 DEF SessionStep, SessionView!vars

\* What fails before the loop is an error.
LEMMA AbortStep ==
  ASSUME pc \in Starting, pc' = "done", app'.exitCode = 1,
         app'.everConnected = app.everConnected
  PROVE  News' /\ SessionStep
<1>1. SessionPhase = "starting" /\ SessionPhase' = "exited"
  BY DEF SessionPhase, Starting
<1>2. News'
  BY DEF News, Starting
<1> QED
  BY <1>1, <1>2
     DEF SessionStep, Starting, SessionView!Next, SessionView!Abort

LEMMA CleanupFields ==
  ASSUME NEW s \in Worlds, NEW code
  PROVE  /\ Cleanup(s, code).app.exitCode = code
         /\ Cleanup(s, code).app.everConnected = s.app.everConnected
         /\ Cleanup(s, code).app.disconnectSeen = s.app.disconnectSeen
         /\ Cleanup(s, code).app.discReason = s.app.discReason
<1> DEFINE a == [s.app EXCEPT !.sink = "none", !.names = {},
                              !.exitCode = code]
           c == [s.ctl EXCEPT !.advised = FALSE, !.events = << >>]
           t == [s EXCEPT !.app = a, !.ctl = c]
<1>1. Cleanup(s, code) = t
  BY DEF Cleanup, Worlds
<1>2. t.app = a
  BY DEF Worlds
<1>3. /\ a.exitCode = code /\ a.everConnected = s.app.everConnected
      /\ a.disconnectSeen = s.app.disconnectSeen
      /\ a.discReason = s.app.discReason
  BY DEF Worlds, AppStates
<1> QED
  BY <1>1, <1>2, <1>3

LEMMA ConnectNews ==
  ASSUME IInv, IInv', News, Connect
  PROVE  News' /\ SessionStep
<1> USE WorldIs
<1>1. /\ pc = "connect" /\ ctl.link = "idle" /\ Good(World) /\ Before /\ Tabled
      /\ World \in Worlds /\ ctl \in ControlStates
  BY WorldFields DEF Connect, IInv, Safe, News, Starting
<1>2. CASE /\ Become([World EXCEPT
                 !.ctl = Raise([@ EXCEPT !.link = "connecting"],
                               "OnConnecting", 0)])
           /\ pc' = "loop"
  <2> DEFINE d == [ctl EXCEPT !.link = "connecting"]
             t == [World EXCEPT !.ctl = Raise(d, "OnConnecting", 0)]
  <2>1. Become(t)
    BY <1>2
  <2>2. /\ d \in ControlStates /\ d.events = ctl.events
        /\ d.link = "connecting" /\ d.advised = ctl.advised
        /\ d.desk = ctl.desk /\ d.full = ctl.full
    BY <1>1 DEF ControlStates, Links
  <2> HIDE DEF d
  <2>3. Good(t) /\ LivesOn(World, t)
    BY <1>1, <2>2, ToldGood
       DEF EventNames, Modes, Size, Early, EarlyLinks
  <2>4. t.app = app /\ t.win = win
    BY DEF World
  <2> HIDE DEF t
  <2>5. app' = app /\ win' = win
    BY <2>1, <2>4 DEF Become
  <2>6. World'.app = t.app /\ World'.win = t.win /\ World'.ctl = t.ctl
    BY <2>1 DEF Become, World
  <2>7. Good(World')
    BY <2>3, <2>6, GoodFields
  <2>8. News'
    BY <1>1, <1>2, <2>5, <2>7 DEF News, Good, Tabled, Starting
  <2>9. SessionPhase = "starting" /\ SessionPhase' = "connecting"
    BY <1>1, <1>2, <2>5 DEF SessionPhase, Before
  <2> QED
    BY <1>1, <2>5, <2>8, <2>9
       DEF SessionStep, SessionView!Next, SessionView!Begin
<1>3. CASE Become(Cleanup(World, 1)) /\ pc' = "done"
  <2>1. /\ app'.exitCode = 1 /\ app'.everConnected = app.everConnected
    BY <1>1, <1>3, CleanupFields DEF Become
  <2> QED
    BY <1>1, <1>3, <2>1, AbortStep DEF Starting
<1> QED
  BY <1>2, <1>3 DEF Connect

LEMMA ConfigureFailsNews ==
  ASSUME IInv, ConfigureFails
  PROVE  News' /\ SessionStep
<1>1. app \in AppStates
  BY WorldFields, WorldIs DEF IInv, Safe
<1>2. /\ pc = "configure" /\ pc' = "done"
      /\ app'.exitCode = 1 /\ app'.everConnected = app.everConnected
  BY <1>1 DEF ConfigureFails, AppStates
<1> QED
  BY <1>2, AbortStep DEF Starting

\* The loop ends with the window, with a status that tells of the session.
LEMMA FinishNews ==
  ASSUME IInv, News, Finish
  PROVE  News' /\ SessionStep
<1> USE WorldIs
<1> DEFINE code == ExitCode(app)
<1>1. /\ World \in Worlds /\ app \in AppStates
  BY WorldFields DEF IInv, Safe
<1>2. /\ pc = "loop" /\ pc' = "done" /\ win.show = "gone"
      /\ Become(Cleanup(World, code))
  BY DEF Finish, News, Ends
<1>3. /\ app.everConnected \in BOOLEAN /\ app.logonError \in BOOLEAN
      /\ app.loginComplete \in BOOLEAN /\ app.fatalError \in BOOLEAN
  BY <1>1 DEF AppStates
<1>4. code \in 0..2 /\ (code = 0 => app.everConnected)
  BY <1>3 DEF ExitCode
<1> HIDE DEF code
<1>5. /\ app'.exitCode = code /\ app'.everConnected = app.everConnected
      /\ app'.disconnectSeen = app.disconnectSeen
      /\ app'.discReason = app.discReason
  BY <1>1, <1>2, CleanupFields DEF Become
<1>6. SessionPhase = "closing" /\ SessionPhase' = "exited"
  BY <1>2 DEF SessionPhase
<1>7. app'.exitCode \in IF app.everConnected THEN 0..2 ELSE 1..2
  BY <1>4, <1>5
<1>8. News'
  BY <1>2 DEF News, Starting
<1> QED
  BY <1>5, <1>6, <1>7, <1>8
     DEF SessionStep, SessionView!Next, SessionView!Exit

-----------------------------------------------------------------------------
(* The steps in the loop.                                                  *)

LEMMA ProgramNews ==
  ASSUME IInv, IInv', News, Program
  PROVE  News' /\ SessionStep
<1> USE WorldIs
<1>1. World \in Worlds
  BY DEF IInv, Safe
<1>2. CASE Configure
  BY <1>2, ConfigureNews
<1>3. CASE ConfigureFails
  BY <1>3, ConfigureFailsNews
<1>4. CASE Show
  BY <1>4, ShowNews
<1>5. CASE Connect
  BY <1>5, ConnectNews
<1>6. CASE Finish
  BY <1>6, FinishNews
<1>7. CASE DeliverEvent
  <2> DEFINE t == OnEvent([World EXCEPT !.ctl.events = Tail(@)],
                          Head(ctl.events))
  <2>1. /\ ctl.events # << >> /\ Become(t) /\ pc = "loop" /\ pc' = pc
    BY <1>7 DEF DeliverEvent
  <2>2. Good(World)
    BY <2>1 DEF News
  <2>3. Good(t) /\ LivesOn(World, t)
    BY <1>1, <2>1, <2>2, OnEventGood
  <2> HIDE DEF t
  <2> QED
    BY <2>1, <2>2, <2>3, LoopNews
<1>8. CASE DispatchPosted
  <2> DEFINE r == [World EXCEPT !.posted = Tail(@)]
  <2>1. PICK t : /\ Become(t)
                 /\ t = WmRDPConnected(r) \/ t = WmRDPDisconnected(r)
    BY <1>8 DEF DispatchPosted
  <2>2. posted # << >> /\ pc = "loop" /\ pc' = pc
    BY <1>8 DEF DispatchPosted
  <2>3. Good(World)
    BY <2>2 DEF News
  <2>4. /\ Good(WmRDPConnected(r)) /\ LivesOn(World, WmRDPConnected(r))
        /\ Good(WmRDPDisconnected(r)) /\ LivesOn(World, WmRDPDisconnected(r))
    BY <1>1, <2>2, <2>3, DispatchGood
  <2> HIDE DEF r
  <2>5. Good(t) /\ LivesOn(World, t)
    BY <2>1, <2>4
  <2> QED
    BY <2>1, <2>2, <2>3, <2>5, LoopNews
<1> QED
  BY <1>2, <1>3, <1>4, <1>5, <1>6, <1>7, <1>8 DEF Program

LEMMA MovesNews ==
  ASSUME IInv, IInv', News, pc = "loop", pc' = pc, win.show # "gone",
         NEW w \in WindowStates, w.quit = win.quit,
         NEW how \in {"minimized", "maximized", "restored"},
         \/ Become(WmSize([World EXCEPT !.win = w], how))
         \/ Become(ApplyDynamicResize([World EXCEPT !.win = w]))
  PROVE  News' /\ SessionStep
<1> DEFINE v == [World EXCEPT !.win = w]
<1>1. World \in Worlds /\ Good(World) /\ World.win = win
  BY WorldIs DEF IInv, Safe, News
<1>2. /\ Good(WmSize(v, how)) /\ LivesOn(World, WmSize(v, how))
      /\ Good(ApplyDynamicResize(v)) /\ LivesOn(World, ApplyDynamicResize(v))
  BY <1>1, MovesGood
<1>3. PICK t : /\ Become(t)
               /\ t = WmSize(v, how) \/ t = ApplyDynamicResize(v)
  OBVIOUS
<1> HIDE DEF v
<1>4. Good(t) /\ LivesOn(World, t)
  BY <1>2, <1>3
<1> QED
  BY <1>1, <1>3, <1>4, LoopNews

LEMMA UserNews ==
  ASSUME IInv, IInv', News, User
  PROVE  News' /\ SessionStep
<1> USE WorldIs
<1>1. World \in Worlds /\ win \in WindowStates
  BY WorldFields DEF IInv, Safe
<1>2. CASE CloseWindow
  <2>1. PICK ok \in {TRUE, ctl.link # "down"} : Become(WmClose(World, ok))
    BY <1>2 DEF CloseWindow
  <2>2. ok \in BOOLEAN
    OBVIOUS
  <2>3. pc = "loop" /\ pc' = pc /\ Good(World)
    BY <1>2 DEF CloseWindow, WindowThere, News
  <2>4. Good(WmClose(World, ok)) /\ LivesOn(World, WmClose(World, ok))
    BY <1>1, <2>2, <2>3, CloseGood
  <2> QED
    BY <2>1, <2>3, <2>4, LoopNews
<1>3. ASSUME NEW kind, Gesture(kind)
      PROVE  pc = "loop" /\ pc' = pc /\ win.show # "gone"
  BY <1>3 DEF Gesture, WindowThere
<1>4. CASE Drag
  <2>1. PICK extent \in Extents \ {win.normal} :
          Become(WmSize([World EXCEPT !.win.normal = extent,
                                      !.win.moving = TRUE], "restored"))
    BY <1>4 DEF Drag
  <2> DEFINE w == [win EXCEPT !.normal = extent, !.moving = TRUE]
  <2>2. /\ w \in WindowStates /\ w.quit = win.quit
        /\ Become(WmSize([World EXCEPT !.win = w], "restored"))
    <3>0. extent \in Nat
      BY <2>1, ConstantsAssumption
    <3>1. w \in WindowStates /\ w.quit = win.quit
      BY <1>1, <3>0 DEF WindowStates
    <3>2. [World EXCEPT !.win = w]
            = [World EXCEPT !.win.normal = extent, !.win.moving = TRUE]
      BY DEF World
    <3> HIDE DEF w
    <3> QED
      BY <2>1, <3>1, <3>2
  <2>3. Gesture("drag")
    BY <1>4 DEF Drag
  <2> HIDE DEF w
  <2> QED
    BY <1>3, <2>2, <2>3, MovesNews
<1>5. CASE EndDrag
  <2> DEFINE w == [win EXCEPT !.moving = FALSE]
  <2>1. /\ Become(ApplyDynamicResize([World EXCEPT !.win = w]))
        /\ pc = "loop" /\ pc' = pc /\ win.show # "gone"
    BY <1>5 DEF EndDrag, WindowThere, World
  <2>2. w \in WindowStates /\ w.quit = win.quit
    BY <1>1 DEF WindowStates
  <2> HIDE DEF w
  <2> QED
    BY <2>1, <2>2, MovesNews
<1>6. CASE Maximise
  <2> DEFINE w == [win EXCEPT !.show = "max"]
  <2>1. /\ w \in WindowStates /\ w.quit = win.quit
        /\ Become(WmSize([World EXCEPT !.win = w], "maximized"))
        /\ Gesture("maximise")
    BY <1>1, <1>6 DEF Maximise, WindowStates, Shows, World
  <2> HIDE DEF w
  <2> QED
    BY <1>3, <2>1, MovesNews
<1>7. CASE Restore
  <2> DEFINE w == [win EXCEPT !.show = "normal"]
  <2>1. /\ w \in WindowStates /\ w.quit = win.quit
        /\ Become(WmSize([World EXCEPT !.win = w], "restored"))
        /\ Gesture("restore")
    BY <1>1, <1>7 DEF Restore, WindowStates, Shows, World
  <2> HIDE DEF w
  <2> QED
    BY <1>3, <2>1, MovesNews
<1>8. CASE Minimise
  <2> DEFINE w == [win EXCEPT !.show = "min"]
  <2>1. /\ w \in WindowStates /\ w.quit = win.quit
        /\ Become(WmSize([World EXCEPT !.win = w], "minimized"))
        /\ Gesture("minimise")
    BY <1>1, <1>8 DEF Minimise, WindowStates, Shows, World
  <2> HIDE DEF w
  <2> QED
    BY <1>3, <2>1, MovesNews
<1>9. CASE ChangeDpi
  <2>1. PICK dpi \in Dpis \ {win.dpi}, extent \in Extents \cup {win.normal} :
          Become(WmDpiChanged(World, dpi, extent))
    BY <1>9 DEF ChangeDpi
  <2>2. dpi \in Nat /\ extent \in Nat
    BY <1>1, ConstantsAssumption DEF WindowStates
  <2>3. pc = "loop" /\ pc' = pc /\ Good(World)
    BY <1>9 DEF ChangeDpi, WindowThere, News
  <2> DEFINE t == WmDpiChanged(World, dpi, extent)
  <2>4. Good(t) /\ LivesOn(World, t)
    BY <1>1, <2>2, <2>3, WmDpiChangedDisplay, DisplayGood
  <2>5. Become(t)
    BY <2>1
  <2> HIDE DEF t
  <2> QED
    BY <2>3, <2>4, <2>5, LoopNews
<1> QED
  BY <1>2, <1>4, <1>5, <1>6, <1>7, <1>8, <1>9 DEF User

\* What the control and the server do: all of it before the end.
LEMMA ControlNews ==
  ASSUME IInv, IInv', News, Control
  PROVE  News' /\ SessionStep
<1> USE WorldIs
<1>1. World \in Worlds /\ ctl \in ControlStates /\ app \in AppStates
  BY WorldFields DEF IInv, Safe
\* A control that moves on to a good world.
<1>2. ASSUME NEW c, ControlMoves(c),
             LET t == [World EXCEPT !.ctl = c]
             IN  Good(World) => Good(t) /\ LivesOn(World, t)
      PROVE  News' /\ SessionStep
  <2> DEFINE t == [World EXCEPT !.ctl = c]
  <2>1. /\ pc = "loop" /\ pc' = pc /\ ctl' = c
        /\ app' = app /\ win' = win /\ posted' = posted
    BY <1>2 DEF ControlMoves
  <2>2. Good(World)
    BY <2>1 DEF News
  <2>3. Good(t) /\ LivesOn(World, t)
    BY <1>2, <2>2
  <2>4. Become(t)
    BY <2>1 DEF Become, World
  <2> HIDE DEF t
  <2> QED
    BY <2>1, <2>2, <2>3, <2>4, LoopNews
\* The control comes to a link and tells of it.
<1>3. ASSUME ctl.link # "down", NEW d \in ControlStates,
             d.advised = ctl.advised, d.events = ctl.events,
             d.desk = ctl.desk, d.full = ctl.full,
             NEW name \in EventNames \ (Modes \cup {Size}), NEW arg \in Nat,
             d.link = "down" <=> name = "OnDisconnected",
             d.link \in EarlyLinks => ctl.link \in EarlyLinks /\ name \in Early,
             name = "OnConnected" => ctl.link \in EarlyLinks,
             name = "OnDisconnected" => arg = d.reason,
             ControlMoves(Raise(d, name, arg))
      PROVE  News' /\ SessionStep
  <2> DEFINE c == Raise(d, name, arg)
             t == [World EXCEPT !.ctl = c]
  <2>1. Good(World) => Good(t) /\ LivesOn(World, t)
    BY <1>1, <1>3, ToldGood
  <2>2. ControlMoves(c)
    BY <1>3
  <2> HIDE DEF c
  <2> QED
    BY <1>2, <2>1, <2>2
<1>4. ASSUME ctl.link # "down", NEW reason \in Reasons,
             ControlMoves(Ended(reason))
      PROVE  News' /\ SessionStep
  <2> DEFINE d == [ctl EXCEPT !.link = "down", !.reason = reason]
  <2>1. /\ d \in ControlStates /\ d.link = "down" /\ d.reason = reason
        /\ d.advised = ctl.advised /\ d.events = ctl.events
        /\ d.desk = ctl.desk /\ d.full = ctl.full
    BY <1>1 DEF ControlStates, Links
  <2>2. reason \in Nat
    BY DEF Reasons, NormalReason, ErrorReason
  <2>3. ControlMoves(Raise(d, "OnDisconnected", reason))
    BY <1>4 DEF Ended
  <2> HIDE DEF d
  <2> QED
    BY <1>3, <1>4, <2>1, <2>2, <2>3 DEF EventNames, Modes, Size, EarlyLinks, Early
<1>5. NormalReason \in Reasons /\ ErrorReason \in Reasons
  BY DEF Reasons
<1>6. CASE ConnectResolves
  <2> DEFINE d == [ctl EXCEPT !.link = "up", !.everUp = TRUE]
  <2>1. /\ d \in ControlStates /\ d.link = "up"
        /\ d.advised = ctl.advised /\ d.events = ctl.events
        /\ d.desk = ctl.desk /\ d.full = ctl.full
    BY <1>1 DEF ControlStates, Links
  <2>2. /\ ctl.link = "connecting"
        /\ \/ ControlMoves(Raise(d, "OnConnected", 0))
           \/ ControlMoves(Ended(ErrorReason))
    BY <1>6 DEF ConnectResolves
  <2> HIDE DEF d
  <2>3. CASE ControlMoves(Raise(d, "OnConnected", 0))
    BY <1>3, <2>1, <2>2, <2>3 DEF EventNames, Modes, Size, EarlyLinks, Early
  <2>4. CASE ControlMoves(Ended(ErrorReason))
    BY <1>4, <1>5, <2>2, <2>4
  <2> QED
    BY <2>2, <2>3, <2>4
<1>7. CASE LogIn
  <2> DEFINE d == [ctl EXCEPT !.loggedIn = TRUE]
  <2>1. /\ d \in ControlStates /\ d.link = ctl.link
        /\ d.advised = ctl.advised /\ d.events = ctl.events
        /\ d.desk = ctl.desk /\ d.full = ctl.full
    BY <1>1 DEF ControlStates
  <2>2. ctl.link = "up" /\ ControlMoves(Raise(d, "OnLoginComplete", 0))
    BY <1>7 DEF LogIn
  <2> HIDE DEF d
  <2> QED
    BY <1>3, <2>1, <2>2 DEF EventNames, Modes, Size, EarlyLinks, Early
<1>8. CASE LogonError
  <2> DEFINE d == [ctl EXCEPT !.refused = TRUE]
  <2>1. /\ d \in ControlStates /\ d.link = ctl.link
        /\ d.advised = ctl.advised /\ d.events = ctl.events
        /\ d.desk = ctl.desk /\ d.full = ctl.full
    BY <1>1 DEF ControlStates
  <2>2. ctl.link = "up" /\ ControlMoves(Raise(d, "OnLogonError", 0))
    BY <1>8 DEF LogonError
  <2> HIDE DEF d
  <2> QED
    BY <1>3, <2>1, <2>2 DEF EventNames, Modes, Size, EarlyLinks, Early
<1>9. CASE FatalError
  <2>1. /\ ctl.link \in {"connecting", "up"}
        /\ ControlMoves(Raise(ctl, "OnFatalError", 0))
    BY <1>9 DEF FatalError
  <2> QED
    BY <1>1, <1>3, <2>1 DEF EventNames, Modes, Size, EarlyLinks, Early
<1>10. CASE LoseLink
  <2> DEFINE d == [ctl EXCEPT !.link = "retry"]
  <2>1. /\ d \in ControlStates /\ d.link = "retry"
        /\ d.advised = ctl.advised /\ d.events = ctl.events
        /\ d.desk = ctl.desk /\ d.full = ctl.full
    BY <1>1 DEF ControlStates, Links
  <2>2. ctl.link = "up" /\ ControlMoves(Raise(d, "OnAutoReconnecting", 0))
    BY <1>10 DEF LoseLink
  <2> HIDE DEF d
  <2> QED
    BY <1>3, <2>1, <2>2 DEF EventNames, Modes, Size, EarlyLinks, Early
<1>11. CASE RegainLink
  <2> DEFINE d == [ctl EXCEPT !.link = "up"]
  <2>1. /\ d \in ControlStates /\ d.link = "up"
        /\ d.advised = ctl.advised /\ d.events = ctl.events
        /\ d.desk = ctl.desk /\ d.full = ctl.full
    BY <1>1 DEF ControlStates, Links
  <2>2. ctl.link = "retry" /\ ControlMoves(Raise(d, "OnAutoReconnected", 0))
    BY <1>11 DEF RegainLink
  <2> HIDE DEF d
  <2> QED
    BY <1>3, <2>1, <2>2 DEF EventNames, Modes, Size, EarlyLinks, Early
<1>12. CASE SessionEnds
  <2>1. PICK reason \in {NormalReason, ErrorReason} :
          ControlMoves(Ended(reason))
    BY <1>12 DEF SessionEnds
  <2>2. ctl.link # "down"
    BY <1>12 DEF SessionEnds
  <2> QED
    BY <1>4, <1>5, <2>1, <2>2
<1>13. CASE DisconnectCompletes
  <2>1. ctl.link # "down" /\ ControlMoves(Ended(NormalReason))
    BY <1>13 DEF DisconnectCompletes
  <2> QED
    BY <1>4, <1>5, <2>1
\* The control shows another display.
<1>14. ASSUME NEW c, Adds(ctl, c, Announcements), ControlMoves(c),
              LET n == app.names IN
              Shown(n, ctl, app.session, app.fullScreen) =>
                Shown(n, c, app.session, app.fullScreen)
       PROVE  News' /\ SessionStep
  <2>1. LET t == [World EXCEPT !.ctl = c]
        IN  Good(World) => Good(t) /\ LivesOn(World, t)
    BY <1>1, <1>14, ShowsGood DEF Good, ShownIn
  <2> QED
    BY <1>2, <1>14, <2>1
<1>15. CASE ToggleFullScreen
  <2> DEFINE d == [ctl EXCEPT !.full = FALSE]
             c == Raise(d, "OnLeaveFullScreenMode", 0)
             t == [World EXCEPT !.ctl = c]
  <2>1. /\ d \in ControlStates /\ d.link = ctl.link /\ d.full = FALSE
        /\ d.advised = ctl.advised /\ d.events = ctl.events
        /\ d.desk = ctl.desk
    BY <1>1 DEF ControlStates
  <2>2. /\ ctl.link = "up"
        /\ ControlMoves(c) \/ ControlMoves(EnterFullScreen(ctl))
    BY <1>15 DEF ToggleFullScreen
  <2> HIDE DEF d
  <2>3. CASE ControlMoves(c)
    <3>1. ASSUME Good(World) PROVE Good(t) /\ LivesOn(World, t)
      <4>1. Shown(app.names, ctl, app.session, app.fullScreen)
        BY <3>1 DEF Good, ShownIn
      <4>2. Shown(app.names, c, app.session, app.fullScreen)
        <5>1. CASE ctl.advised
          BY <1>1, <2>1, <4>1, <5>1, ModeShown DEF Shown, Modes
        <5>2. CASE ~ctl.advised
          <6>1. c = d
            BY <2>1, <5>2 DEF Raise
          <6> QED
            BY <2>1, <4>1, <5>2, <6>1 DEF Shown, SizesLegal
        <5> QED
          BY <5>1, <5>2
      <4> QED
        BY <1>1, <2>1, <2>2, <3>1, <4>2, RaisedGood DEF EventNames, EarlyLinks
    <3> HIDE DEF c
    <3> QED
      BY <1>2, <2>3, <3>1
  <2>4. CASE ControlMoves(EnterFullScreen(ctl))
    BY <1>1, <1>14, <2>4, EnterFullScreenAdds, EnterFullScreenShown
  <2> QED
    BY <2>2, <2>3, <2>4
<1>16. CASE RequestMinimise
  <2>1. /\ ctl.link = "up"
        /\ ControlMoves(Raise(ctl, "OnRequestContainerMinimize", 0))
    BY <1>16 DEF RequestMinimise
  <2> QED
    BY <1>1, <1>3, <2>1 DEF EventNames, Modes, Size, EarlyLinks, Early
<1>17. CASE ServerResizes
  <2>1. PICK extent \in ServerExtents \ {ctl.desk} :
          ControlMoves(Resized(ctl, extent, ctl.scale))
    BY <1>17 DEF ServerResizes
  <2>2. extent \in ServerExtents /\ extent # ctl.desk
    BY <2>1
  <2>3. extent \in Nat /\ extent >= MinExtent /\ ctl.scale \in Factors
    BY <1>1, <2>2, ConstantsAssumption DEF ControlStates
  <2>4. Legal(extent)
    BY <2>2, <2>3 DEF Legal
  <2>5. Adds(ctl, Resized(ctl, extent, ctl.scale), Announcements)
    BY <1>1, <2>3, ResizedAdds
  <2>6. LET n == app.names IN
        Shown(n, ctl, app.session, app.fullScreen) =>
          Shown(n, Resized(ctl, extent, ctl.scale), app.session, app.fullScreen)
    BY <1>1, <2>2, <2>3, <2>4, ResizedShown
  <2> QED
    BY <1>14, <2>1, <2>5, <2>6
<1> QED
  BY <1>6, <1>7, <1>8, <1>9, <1>10, <1>11, <1>12, <1>13, <1>15, <1>16, <1>17
     DEF Control

LEMMA NextNews ==
  ASSUME IInv, IInv', News, [Next]_vars
  PROVE  News' /\ SessionStep
<1>1. CASE Program
  BY <1>1, ProgramNews
<1>2. CASE User
  BY <1>2, UserNews
<1>3. CASE Control
  BY <1>3, ControlNews
<1>4. CASE UNCHANGED vars
  <2>1. /\ pc' = pc /\ app' = app /\ win' = win /\ ctl' = ctl
        /\ World'.app = World.app /\ World'.win = World.win
        /\ World'.ctl = World.ctl
    BY <1>4 DEF World, vars
  <2>2. SessionPhase' = SessionPhase
    BY <2>1 DEF SessionPhase
  <2>3. Ends(World) => Ends(World')
    BY <2>1 DEF Ends, InOrder
  <2>4. Good(World) => Good(World')
    <3>1. LivesOn(World, World)
      BY DEF LivesOn, Advances
    <3> QED
      BY <2>1, <3>1, GoodFields
  <2>5. News'
    BY <2>1, <2>3, <2>4 DEF News, Tabled, Before, Fresh, Sized
  <2> QED
    BY <2>1, <2>2, <2>5 DEF SessionStep, SessionView!vars
<1> QED
  BY <1>1, <1>2, <1>3, <1>4 DEF Next, Exited

LEMMA NewsInvariance == Spec => [](IInv /\ News)
<1>1. IInv /\ News /\ [Next]_vars => (IInv /\ News)'
  BY NextInv, NextNews
<1> QED
  BY <1>1, InitInv, InitNews, PTL DEF Spec

-----------------------------------------------------------------------------
(* The theorems.                                                           *)

\* The remote desktop never takes an odd size, or one below 200, from here
\* (DesktopSizeLegal).
THEOREM DesktopSizeLegalTheorem == Spec => []DesktopSizeLegal
<1>1. IInv /\ News => DesktopSizeLegal
  BY WorldIs
     DEF News, Good, ShownIn, Shown, SizesLegal, Sized, Legal, DesktopSizeLegal
<1> QED
  BY <1>1, NewsInvariance, PTL

\* Once every announcement is read the program knows the size of the remote
\* desktop (SessionSizeKnown).
THEOREM SessionSizeKnownTheorem == Spec => []SessionSizeKnown
<1>1. IInv /\ News => SessionSizeKnown
  <2> SUFFICES ASSUME News, pc = "loop", Size \in app.names, ~Pending(Size)
               PROVE  app.session = ctl.desk
    BY DEF SessionSizeKnown, Size
  <2>1. SizeTold(ctl, app.session)
    BY WorldIs DEF News, Good, ShownIn, Shown
  <2> QED
    BY <2>1 DEF SizeTold, Latest, Pending, Size
<1> QED
  BY <1>1, NewsInvariance, PTL

\* If no control ignores an early request for full screen, the program's mode
\* is the control's once the news is read (FullScreenTracked).
THEOREM FullScreenTrackedTheorem ==
  ASSUME FullScreen => EarlyModes \subseteq {TRUE}
  PROVE  Spec => []FullScreenTracked
<1>1. IInv /\ News => FullScreenTracked
  <2> SUFFICES ASSUME IInv, News, pc = "loop", ctl.events = << >>,
                      Modes \subseteq app.names
               PROVE  app.fullScreen = ctl.full
    BY DEF FullScreenTracked, Quiescent, Modes
  <2>1. ModeTold(ctl, app.fullScreen)
    BY WorldIs DEF News, Good, ShownIn, Shown, Honoured
  <2>2. DOMAIN ctl.events = {}
    OBVIOUS
  <2>3. ctl.full <=> app.fullScreen
    BY <2>1, <2>2 DEF ModeTold
  <2>4. ctl.full \in BOOLEAN /\ app.fullScreen \in BOOLEAN
    BY WorldFields, WorldIs DEF IInv, Safe, ControlStates, AppStates
  <2> QED
    BY <2>3, <2>4
<1> QED
  BY <1>1, NewsInvariance, PTL

\* If the names are such that no poll runs ahead of the start of the session,
\* the program believes in a dead session only until the news it has queued is
\* read (NoStaleConnection).
THEOREM NoStaleConnectionTheorem ==
  ASSUME \A names \in NameTables : Orderly(names)
  PROVE  Spec => []NoStaleConnection
<1>1. IInv /\ News => NoStaleConnection
  <2> SUFFICES ASSUME News, pc = "loop", app.connected, ctl.link = "down"
               PROVE  Pending("OnDisconnected")
    BY DEF NoStaleConnection
  <2>1. Orderly(app.names)
    BY DEF News, Tabled, Orderly
  <2>2. Holds(ctl, "OnDisconnected")
    BY <2>1, WorldIs DEF News, Good, EndQueued
  <2> QED
    BY <2>2 DEF Holds, Pending
<1> QED
  BY <1>1, NewsInvariance, PTL

\* The reason recorded is the control's; or none, but only where some event has
\* no name, by which polling may have found the end (ReasonIsTheControls).
THEOREM ReasonIsTheControlsTheorem == Spec => []ReasonIsTheControls
<1>1. IInv /\ News => ReasonIsTheControls
  BY WorldIs DEF News, Ends, ReasonIsTheControls
<1> QED
  BY <1>1, NewsInvariance, PTL

\* What was recorded of the end stands, whatever reports it again and whichever
\* events have names (EndRecordedOnce).
THEOREM EndRecordedOnceTheorem == Spec => EndRecordedOnce
<1>1. IInv /\ News /\ (IInv /\ News)' /\ [Next]_vars
        => (pc = "loop" /\ app.disconnectSeen =>
              app'.disconnectSeen /\ app'.discReason = app.discReason)
  BY NextNews DEF SessionStep
<1> QED
  BY <1>1, NewsInvariance, PTL DEF Spec, EndRecordedOnce

\* With such names App implements the session it promises (Session), under the
\* refinement mapping of SessionView.
THEOREM ImplementsSessionTheorem ==
  ASSUME \A names \in NameTables : Orderly(names)
  PROVE  Spec => ImplementsSession
<1>1. Init => SessionView!Init
  BY DEF Init, SessionView!Init, SessionPhase
<1>2. IInv /\ News /\ (IInv /\ News)' /\ [Next]_vars
        => [SessionView!Next]_SessionView!vars
  <2>1. Ordered
    BY DEF Ordered
  <2> QED
    BY <2>1, NextNews DEF SessionStep
<1> QED
  BY <1>1, <1>2, NewsInvariance, PTL DEF Spec, ImplementsSession, SessionView!Spec

-----------------------------------------------------------------------------
(* The scale of the session.                                               *)

\* A start of the session is queued once at most.
Once(c) ==
  \A i, j \in DOMAIN c.events :
    c.events[i].name = "OnConnected" /\ c.events[j].name = "OnConnected"
      => i = j

\* Before the start of the session is read nothing has been scaled.
Starts(s) ==
  /\ Once(s.ctl)
  /\ s.ctl.link \in EarlyLinks => NoStart(s.ctl)
  /\ s.ctl.link \in EarlyLinks \/ ~NoStart(s.ctl)
       => ~s.app.connected /\ ~s.app.scaleApplied

\* Where there is nothing to scale, nothing is scaled.
Plain(s) ==
  s.ctl.revision = "scaled" /\ FactorsFor(s) = Unscaled
    => s.ctl.scale = Unscaled

Awaiting(s) == \E i \in DOMAIN s.posted : s.posted[i] = "wmRDPConnected"

\* A live session has the scale of its monitor, or the message that is to give
\* it is on its way.
Fit(s) ==
  s.ctl.revision = "scaled" /\ s.ctl.link = "up" /\ s.app.connected
    /\ s.win.show # "gone"
      => \/ s.ctl.scale = FactorsFor(s)
         \/ ~s.app.scaleApplied /\ Awaiting(s)

Scaled(s) ==
  /\ s.app.names = EventNames /\ s.win.dpi \in Dpis /\ s.ctl.link # "retry"
  /\ Starts(s) /\ Plain(s) /\ Fit(s)

\* What a step that scales nothing leaves of this.
Calm(s, t) ==
  /\ t.app.names = s.app.names
  /\ t.app.connected => s.app.connected
  /\ t.app.scaleApplied = s.app.scaleApplied
  /\ t.win.dpi = s.win.dpi
  /\ s.win.show = "gone" => t.win.show = "gone"
  /\ t.ctl.revision = s.ctl.revision /\ t.ctl.scale = s.ctl.scale
  /\ t.ctl.link # "retry"
  /\ t.ctl.link = "up" => s.ctl.link = "up"
  /\ t.ctl.link \in EarlyLinks => s.ctl.link \in EarlyLinks
  /\ NoStart(s.ctl) => NoStart(t.ctl)
  /\ Once(s.ctl) => Once(t.ctl)
  /\ Awaiting(s) => Awaiting(t) \/ t.win.show = "gone"

LEMMA CalmScaled ==
  ASSUME NEW s, NEW t, Scaled(s), Calm(s, t)
  PROVE  Scaled(t)
<1>1. FactorsFor(t) = FactorsFor(s)
  BY DEF FactorsFor, Calm
<1>2. Starts(t)
  BY DEF Scaled, Starts, Calm
<1>3. Plain(t)
  BY <1>1 DEF Scaled, Plain, Calm
<1>4. Fit(t)
  BY <1>1 DEF Scaled, Fit, Calm
<1> QED
  BY <1>2, <1>3, <1>4 DEF Scaled, Calm

\* What a display handler may do to the scale: take that of the monitor, which
\* it has done when it says so.
Tunes(s, t) ==
  /\ t.win.dpi = s.win.dpi
  /\ t.ctl.revision = s.ctl.revision
  /\ t.app.scaleApplied => s.app.scaleApplied \/ s.app.connected
  /\ s.ctl.revision = "scaled" => t.ctl.scale \in {s.ctl.scale, FactorsFor(s)}
  /\ s.ctl.revision = "scaled" /\ s.ctl.link = "up"
       /\ t.app.scaleApplied /\ ~s.app.scaleApplied
         => t.ctl.scale = FactorsFor(s)

LEMMA TunesChains ==
  ASSUME NEW s, NEW t, NEW u, Display(s, t), Tunes(s, t), Tunes(t, u)
  PROVE  Tunes(s, u)
<1>1. t.app.connected = s.app.connected /\ t.ctl.link = s.ctl.link
  BY DEF Display, SameSession, SameLife, Keeps
<1>2. FactorsFor(t) = FactorsFor(s)
  BY DEF FactorsFor, Tunes
<1> QED
  BY <1>1, <1>2 DEF Tunes

\* A control that queues other events has as many starts queued as before.
LEMMA GrownStarts ==
  ASSUME NEW c, NEW d, NEW N, Grown(c.events, d.events, N), "OnConnected" \notin N
  PROVE  /\ NoStart(d) <=> NoStart(c)
         /\ Once(c) => Once(d)
<1>1. \A i \in DOMAIN d.events : d.events[i].name = "OnConnected" =>
        i \in DOMAIN c.events /\ c.events[i] = d.events[i]
  BY DEF Grown
<1>2. \A i \in DOMAIN c.events : i \in DOMAIN d.events /\ d.events[i] = c.events[i]
  BY DEF Grown
<1>3. NoStart(d) <=> NoStart(c)
  BY <1>1, <1>2 DEF NoStart, Silent
<1>4. Once(c) => Once(d)
  BY <1>1 DEF Once
<1> QED
  BY <1>3, <1>4

LEMMA TunesStarts ==
  ASSUME NEW s, NEW t, Display(s, t), Tunes(s, t)
  PROVE  /\ Starts(s) => Starts(t)
         /\ Plain(s) => Plain(t)
<1>1. /\ t.app.connected = s.app.connected /\ t.ctl.link = s.ctl.link
      /\ Grown(s.ctl.events, t.ctl.events, Announcements)
  BY DEF Display, SameSession, SameLife, Adds, Keeps
<1>2. FactorsFor(t) = FactorsFor(s)
  BY DEF FactorsFor, Tunes
<1>3. "OnConnected" \notin Announcements
  BY DEF Announcements
<1>4. Starts(s) => Starts(t)
  BY <1>1, <1>3, GrownStarts DEF Starts, Tunes
<1> QED
  BY <1>2, <1>4 DEF Plain, Tunes

LEMMA TunesScaled ==
  ASSUME NEW s, NEW t, Scaled(s), Display(s, t), Tunes(s, t)
  PROVE  Scaled(t)
<1>1. /\ t.app.connected = s.app.connected /\ t.app.names = s.app.names
      /\ t.ctl.link = s.ctl.link /\ t.win.show = s.win.show
      /\ t.posted = s.posted
  BY DEF Display, SameSession, SameLife, Keeps
<1>2. FactorsFor(t) = FactorsFor(s)
  BY DEF FactorsFor, Tunes
<1>3. Starts(t) /\ Plain(t)
  BY TunesStarts DEF Scaled
<1>4. Fit(t)
  BY <1>1, <1>2 DEF Scaled, Fit, Awaiting, Tunes
<1> QED
  BY <1>1, <1>3, <1>4 DEF Scaled, Tunes

\* An event queued is no other scale, a size is taken with the scale given.
LEMMA RaiseScale ==
  ASSUME NEW c \in ControlStates, NEW name, NEW arg
  PROVE  /\ Raise(c, name, arg).scale = c.scale
         /\ Raise(c, name, arg).revision = c.revision
BY DEF Raise, ControlStates

LEMMA ResizedScale ==
  ASSUME NEW c \in ControlStates, NEW extent \in Nat, NEW factors \in Factors
  PROVE  /\ Resized(c, extent, factors).scale = factors
         /\ Resized(c, extent, factors).revision = c.revision
<1> DEFINE d == [c EXCEPT !.desk = extent, !.scale = factors]
<1>1. d \in ControlStates /\ d.scale = factors /\ d.revision = c.revision
  BY DEF ControlStates
<1> HIDE DEF d
<1>2. /\ Raise(d, "OnRemoteDesktopSizeChange", extent).scale = factors
      /\ Raise(d, "OnRemoteDesktopSizeChange", extent).revision = c.revision
  BY <1>1, RaiseScale
<1> QED
  BY <1>1, <1>2 DEF Resized, d

LEMMA EnterFullScreenScale ==
  ASSUME NEW c \in ControlStates
  PROVE  /\ EnterFullScreen(c).scale = c.scale
         /\ EnterFullScreen(c).revision = c.revision
<1> DEFINE d == [c EXCEPT !.full = TRUE]
<1>1. d \in ControlStates /\ d.scale = c.scale /\ d.revision = c.revision
  BY DEF ControlStates
<1> HIDE DEF d
<1>2. /\ Raise(d, "OnEnterFullScreenMode", 0).scale = c.scale
      /\ Raise(d, "OnEnterFullScreenMode", 0).revision = c.revision
  BY <1>1, RaiseScale
<1> QED
  BY <1>2 DEF EnterFullScreen, d

\* A control that can scale takes the scale it is given, as long as the session
\* is up.
LEMMA UpdateScale ==
  ASSUME NEW c \in ControlStates, NEW extent \in Nat, NEW factors \in Factors
  PROVE  LET r == UpdateSessionDisplaySettings(c, extent, factors) IN
         /\ r.ctl.revision = c.revision
         /\ c.revision = "scaled" /\ c.link = "up" =>
              r.ok /\ r.ctl.scale = factors
         /\ c.link # "up" => ~r.ok /\ r.ctl = c
<1>1. /\ Resized(c, extent, factors).scale = factors
      /\ Resized(c, extent, factors).revision = c.revision
      /\ Resized(c, extent, Unscaled).revision = c.revision
  BY ResizedScale, UnscaledIsFactors
<1> QED
  BY <1>1 DEF UpdateSessionDisplaySettings, Accepts

LEMMA ReconnectScale ==
  ASSUME NEW c \in ControlStates, NEW extent \in Nat
  PROVE  LET r == Reconnect(c, extent) IN
         r.ctl.revision = c.revision /\ r.ctl.scale = c.scale
<1>1. c.scale \in Factors
  BY DEF ControlStates
<1>2. /\ Resized(c, extent, c.scale).scale = c.scale
      /\ Resized(c, extent, c.scale).revision = c.revision
  BY <1>1, ResizedScale
<1> QED
  BY <1>2 DEF Reconnect

LEMMA ApplyScaleTunes ==
  ASSUME NEW s \in Worlds, Plain(s), s.app.session >= MinExtent
  PROVE  /\ Tunes(s, ApplyScale(s))
         /\ s.app.connected => ApplyScale(s).app.scaleApplied
<1> DEFINE f == FactorsFor(s)
           r == UpdateSessionDisplaySettings(s.ctl, s.app.session, f)
           a == [s.app EXCEPT !.scaleApplied = TRUE]
           due == ~s.app.scaleApplied /\ s.app.connected
<1>1. /\ s.ctl \in ControlStates /\ s.app.session \in Nat /\ f \in Factors
      /\ s.app.scaleApplied \in BOOLEAN
  BY FactorsForType DEF Worlds, AppStates
<1>2. /\ r.ctl.revision = s.ctl.revision
      /\ s.ctl.revision = "scaled" /\ s.ctl.link = "up" => r.ctl.scale = f
      /\ s.ctl.link # "up" => r.ctl = s.ctl
  BY <1>1, UpdateScale
<1>3. a.scaleApplied = TRUE
  BY DEF Worlds, AppStates
<1> DEFINE t == [s EXCEPT !.app = a]
           u == [s EXCEPT !.app = a, !.ctl = r.ctl]
<1>4. /\ due /\ f = Unscaled => ApplyScale(s) = t
      /\ due /\ f # Unscaled => ApplyScale(s) = u
      /\ ~due => ApplyScale(s) = s
  BY DEF ApplyScale, Worlds
<1>5. /\ t.app = a /\ t.win = s.win /\ t.ctl = s.ctl
      /\ u.app = a /\ u.win = s.win /\ u.ctl = r.ctl
  BY DEF Worlds
<1> HIDE DEF t, u, a, r
<1>6. due /\ f = Unscaled => Tunes(s, t)
  BY <1>3, <1>5 DEF Tunes, Plain
<1>7. due => Tunes(s, u)
  BY <1>1, <1>2, <1>3, <1>5 DEF Tunes
<1>8. Tunes(s, s)
  BY DEF Tunes
<1> HIDE DEF f
<1> QED
  BY <1>1, <1>3, <1>4, <1>5, <1>6, <1>7, <1>8

LEMMA ApplyDynamicResizeTunes ==
  ASSUME NEW s \in Worlds
  PROVE  /\ Tunes(s, ApplyDynamicResize(s))
         /\ ApplyDynamicResize(s).app.scaleApplied = s.app.scaleApplied
<1> DEFINE e  == Even(ClientExtent(s.win))
           r1 == UpdateSessionDisplaySettings(s.ctl, e, FactorsFor(s))
           r2 == Reconnect(s.ctl, e)
           a1 == [s.app EXCEPT !.pendingResize = FALSE]
           a2 == [s.app EXCEPT !.pendingResize = FALSE, !.session = e]
           a3 == [s.app EXCEPT !.pendingResize = FALSE, !.resizeWarned = TRUE]
<1>1. e \in Nat
  BY ClientExtentType, WorldFields
<1>2. \/ ApplyDynamicResize(s) = [s EXCEPT !.app = a1, !.ctl = s.ctl]
      \/ ApplyDynamicResize(s) = [s EXCEPT !.app = a2, !.ctl = r1.ctl]
      \/ ApplyDynamicResize(s) = [s EXCEPT !.app = a2, !.ctl = r2.ctl]
      \/ ApplyDynamicResize(s) = [s EXCEPT !.app = a3, !.ctl = s.ctl]
      \/ ApplyDynamicResize(s) = s
  BY DEF ApplyDynamicResize, Worlds, e
<1> HIDE DEF e
<1>3. s.ctl \in ControlStates /\ FactorsFor(s) \in Factors
  BY WorldFields, FactorsForType
<1>4. \A a \in {a1, a2, a3} : a.scaleApplied = s.app.scaleApplied
  BY DEF Worlds, AppStates
<1>5. /\ r1.ctl.revision = s.ctl.revision
      /\ s.ctl.revision = "scaled" /\ s.ctl.link = "up" =>
           r1.ctl.scale = FactorsFor(s)
      /\ s.ctl.link # "up" => r1.ctl = s.ctl
      /\ r2.ctl.revision = s.ctl.revision /\ r2.ctl.scale = s.ctl.scale
  BY <1>1, <1>3, UpdateScale, ReconnectScale
<1>6. \A c \in {s.ctl, r1.ctl, r2.ctl} :
        /\ c.revision = s.ctl.revision
        /\ s.ctl.revision = "scaled" => c.scale \in {s.ctl.scale, FactorsFor(s)}
  BY <1>5
<1>7. ASSUME NEW a \in {a1, a2, a3}, NEW c \in {s.ctl, r1.ctl, r2.ctl}
      PROVE  /\ Tunes(s, [s EXCEPT !.app = a, !.ctl = c])
             /\ [s EXCEPT !.app = a, !.ctl = c].app.scaleApplied
                  = s.app.scaleApplied
  <2> DEFINE t == [s EXCEPT !.app = a, !.ctl = c]
  <2>1. t.app = a /\ t.ctl = c /\ t.win = s.win
    BY DEF Worlds
  <2> HIDE DEF t
  <2>2. Tunes(s, t)
    BY <1>4, <1>6, <2>1 DEF Tunes
  <2> QED
    BY <1>4, <2>1, <2>2 DEF t
<1>8. Tunes(s, s)
  BY DEF Tunes
<1> HIDE DEF r1, r2, a1, a2, a3
<1> QED
  BY <1>2, <1>7, <1>8

LEMMA MarkedTunes ==
  ASSUME NEW s \in Worlds
  PROVE  LET t == [s EXCEPT !.app.pendingResize = TRUE]
         IN  /\ Tunes(s, t) /\ t.win = s.win /\ t.ctl = s.ctl
             /\ t.posted = s.posted /\ t.app.scaleApplied = s.app.scaleApplied
<1> DEFINE a == [s.app EXCEPT !.pendingResize = TRUE]
           t == [s EXCEPT !.app = a]
<1>1. a.scaleApplied = s.app.scaleApplied
  BY DEF Worlds, AppStates
<1>2. t = [s EXCEPT !.app.pendingResize = TRUE]
  BY DEF Worlds
<1>3. t.app = a /\ t.win = s.win /\ t.ctl = s.ctl /\ t.posted = s.posted
  BY DEF Worlds
<1> HIDE DEF a, t
<1>4. Tunes(s, t)
  BY <1>1, <1>3 DEF Tunes
<1> QED
  BY <1>1, <1>2, <1>3, <1>4

LEMMA WmSizeTunes ==
  ASSUME NEW s \in Worlds, NEW how \in {"minimized", "maximized", "restored"}
  PROVE  Tunes(s, WmSize(s, how))
<1> DEFINE marked == [s EXCEPT !.app.pendingResize = TRUE]
<1>1. Tunes(s, marked)
  BY MarkedTunes
<1>2. Display(s, marked)
  <2>1. WmSize(s, "restored") = marked
    BY DEF WmSize
  <2> QED
    BY <2>1, WmSizeDisplay
<1> HIDE DEF marked
<1>3. Tunes(s, ApplyDynamicResize(marked))
  BY <1>1, <1>2, ApplyDynamicResizeTunes, TunesChains, DisplayWorld
<1>4. Tunes(s, s)
  BY DEF Tunes
<1> QED
  BY <1>1, <1>3, <1>4 DEF WmSize, marked

\* No two monitors of which the session is scaled on one only.
Alike ==
  \A d, e \in Dpis : (scaleFactors(Scale, DeviceScale, d) = Unscaled)
                       <=> (scaleFactors(Scale, DeviceScale, e) = Unscaled)

\* A window on another monitor has its session scaled anew.
LEMMA WmDpiChangedScaled ==
  ASSUME Alike, NEW s \in Worlds, Scaled(s), ShownIn(s),
         NEW dpi \in Dpis, NEW extent \in Nat
  PROVE  Scaled(WmDpiChanged(s, dpi, extent))
<1>0. dpi \in Nat
  BY ConstantsAssumption
<1> DEFINE normal == IF s.win.show = "normal" THEN extent ELSE s.win.normal
           w == [s.win EXCEPT !.dpi = dpi, !.normal = normal]
           placed == [s EXCEPT !.win = w]
           sized == IF s.win.show = "normal" /\ extent # s.win.normal
                    THEN WmSize(placed, "restored") ELSE placed
           marked == [sized EXCEPT !.app.pendingResize = TRUE,
                                   !.app.scaleApplied = FALSE]
           resized == ApplyDynamicResize(marked)
           t == ApplyScale(resized)
<1>1. WmDpiChanged(s, dpi, extent) = t
  BY DEF WmDpiChanged, Worlds
<1>2. w \in WindowStates /\ w.show = s.win.show /\ w.quit = s.win.quit
      /\ w.dpi = dpi
  BY <1>0 DEF Worlds, WindowStates
<1> HIDE DEF w
<1>3. /\ Display(s, placed) /\ placed.win = w /\ placed.ctl = s.ctl
      /\ placed.posted = s.posted
  BY <1>2, PlacedDisplay DEF Worlds
<1> HIDE DEF placed
<1>4. placed \in Worlds
  BY <1>3, DisplayWorld
<1>5. WmSize(placed, "restored") = [placed EXCEPT !.app.pendingResize = TRUE]
  BY DEF WmSize
<1>6. Display(s, sized) /\ sized.win = w /\ sized.ctl = s.ctl
      /\ sized.posted = s.posted
  BY <1>3, <1>4, <1>5, WmSizeDisplay, DisplayChains, MarkedTunes
<1> HIDE DEF sized
<1>7. sized \in Worlds
  BY <1>6, DisplayWorld
<1>8. /\ Display(s, marked) /\ marked.win = w /\ marked.ctl = s.ctl
      /\ marked.posted = s.posted /\ marked.app.scaleApplied = FALSE
  <2>1. Display(s, marked)
    BY <1>6, <1>7, MarkedDisplay, DisplayChains
  <2> DEFINE a == [sized.app EXCEPT !.pendingResize = TRUE,
                                    !.scaleApplied = FALSE]
  <2>2. marked = [sized EXCEPT !.app = a] /\ a.scaleApplied = FALSE
    BY <1>7 DEF Worlds, AppStates
  <2> HIDE DEF a, marked
  <2>3. /\ marked.app = a /\ marked.win = sized.win
        /\ marked.ctl = sized.ctl /\ marked.posted = sized.posted
    BY <1>7, <2>2 DEF Worlds
  <2> QED
    BY <1>6, <2>1, <2>2, <2>3
<1> HIDE DEF marked
<1>9. /\ marked \in Worlds /\ marked.app.names = EventNames
      /\ marked.app.connected = s.app.connected
  BY <1>8 DEF Display, SameSession, SameLife, Scaled
<1>10. Starts(marked)
  BY <1>8, <1>9 DEF Scaled, Starts
<1>11. Plain(marked)
  <2>1. FactorsFor(marked) = Unscaled <=> FactorsFor(s) = Unscaled
    BY <1>2, <1>8 DEF FactorsFor, Alike, Scaled
  <2> QED
    BY <1>8, <2>1 DEF Scaled, Plain
<1>12. /\ Display(marked, resized) /\ Tunes(marked, resized)
       /\ resized.app.scaleApplied = FALSE
  BY <1>8, <1>9, ApplyDynamicResizeDisplay, ApplyDynamicResizeTunes
<1> HIDE DEF resized
<1>13. resized \in Worlds /\ Plain(resized)
  BY <1>11, <1>12, TunesStarts, DisplayWorld
<1>14. resized.app.session >= MinExtent
  <2>1. ShownIn(resized)
    BY <1>8, <1>12 DEF Display
  <2> QED
    BY <2>1 DEF ShownIn, Shown, Legal
<1>15. /\ Display(resized, t) /\ Tunes(resized, t)
       /\ resized.app.connected => t.app.scaleApplied
  BY <1>13, <1>14, ApplyScaleDisplay, ApplyScaleTunes
<1> HIDE DEF t
<1>16. Display(marked, t) /\ Tunes(marked, t)
  BY <1>9, <1>12, <1>15, DisplayChains, TunesChains
<1>17. Starts(t) /\ Plain(t)
  BY <1>10, <1>11, <1>16, TunesStarts
<1>18. /\ t.app.connected = marked.app.connected
       /\ resized.app.connected = marked.app.connected
       /\ t.app.names = EventNames /\ t.ctl.link = marked.ctl.link
  BY <1>9, <1>12, <1>16 DEF Display, SameSession, SameLife, Keeps
<1>19. FactorsFor(t) = FactorsFor(marked) /\ t.win.dpi = dpi
       /\ t.ctl.revision = marked.ctl.revision
  BY <1>2, <1>8, <1>16 DEF FactorsFor, Tunes
<1>20. Fit(t)
  BY <1>8, <1>15, <1>16, <1>18, <1>19 DEF Fit, Tunes
<1> QED
  BY <1>1, <1>8, <1>17, <1>18, <1>19, <1>20 DEF Scaled

-----------------------------------------------------------------------------
(* The steps that scale nothing, and those that must.                      *)

\* A world with the control, the window and the messages it had.
LEMMA NotedCalm ==
  ASSUME NEW s \in Worlds, Scaled(s), NEW a \in AppStates,
         a.names = s.app.names, a.connected => s.app.connected,
         a.scaleApplied = s.app.scaleApplied
  PROVE  /\ [s EXCEPT !.app = a] \in Worlds
         /\ Calm(s, [s EXCEPT !.app = a])
<1> DEFINE t == [s EXCEPT !.app = a]
<1>1. /\ t \in Worlds /\ t.app = a /\ t.win = s.win /\ t.ctl = s.ctl
      /\ t.posted = s.posted
  BY DEF Worlds
<1> HIDE DEF t
<1>2. Calm(s, t)
  BY <1>1 DEF Calm, Scaled, Awaiting
<1> QED
  BY <1>1, <1>2 DEF t

\* Another place of a window that is there.
LEMMA PlacedCalm ==
  ASSUME NEW s \in Worlds, Scaled(s), s.win.show # "gone",
         NEW w \in WindowStates, w.dpi = s.win.dpi
  PROVE  /\ [s EXCEPT !.win = w] \in Worlds
         /\ Calm(s, [s EXCEPT !.win = w])
<1> DEFINE t == [s EXCEPT !.win = w]
<1>1. /\ t \in Worlds /\ t.app = s.app /\ t.win = w /\ t.ctl = s.ctl
      /\ t.posted = s.posted
  BY DEF Worlds
<1> HIDE DEF t
<1>2. Calm(s, t)
  BY <1>1 DEF Calm, Scaled, Awaiting
<1> QED
  BY <1>1, <1>2 DEF t

\* Another control, that is not up unless it was.
LEMMA ControlCalm ==
  ASSUME NEW s \in Worlds, NEW d \in ControlStates,
         d.revision = s.ctl.revision, d.scale = s.ctl.scale,
         d.link # "retry", d.link = "up" => s.ctl.link = "up",
         d.link \in EarlyLinks => s.ctl.link \in EarlyLinks,
         NoStart(s.ctl) => NoStart(d), Once(s.ctl) => Once(d)
  PROVE  /\ [s EXCEPT !.ctl = d] \in Worlds
         /\ Calm(s, [s EXCEPT !.ctl = d])
<1> DEFINE t == [s EXCEPT !.ctl = d]
<1>1. /\ t \in Worlds /\ t.app = s.app /\ t.win = s.win /\ t.ctl = d
      /\ t.posted = s.posted
  BY DEF Worlds
<1> HIDE DEF t
<1>2. Calm(s, t)
  BY <1>1 DEF Calm, Awaiting
<1> QED
  BY <1>1, <1>2 DEF t

\* A window that is gone has no session to scale.
LEMMA DestroyedCalm ==
  ASSUME NEW s \in Worlds, Scaled(s)
  PROVE  Calm(s, DestroyWindow(s))
<1> DEFINE t == DestroyWindow(s)
<1>1. t \in Worlds /\ t.app = s.app /\ t.ctl = s.ctl /\ t.win.show = "gone"
  BY DestroyWindowFields
<1>2. t.win.dpi = s.win.dpi
  BY DEF DestroyWindow, Worlds, WindowStates
<1> HIDE DEF t
<1>3. Calm(s, t)
  BY <1>1, <1>2 DEF Calm, Scaled
<1> QED
  BY <1>3 DEF t

LEMMA PostedCalm ==
  ASSUME NEW s \in Worlds, Scaled(s), NEW m \in PostedMessages
  PROVE  PostMessage(s, m) \in Worlds /\ Calm(s, PostMessage(s, m))
<1> DEFINE t == PostMessage(s, m)
<1>1. /\ t \in Worlds /\ t.app = s.app /\ t.ctl = s.ctl /\ t.win = s.win
      /\ Awaiting(s) => s.win.show = "gone" \/ Awaiting(t)
  BY PostMessageFields DEF Awaiting
<1> HIDE DEF t
<1>2. Calm(s, t)
  BY <1>1 DEF Calm, Scaled
<1> QED
  BY <1>1, <1>2 DEF t

\* The event at the head of the queue is taken; a start is the only one.
LEMMA TakeCalm ==
  ASSUME NEW s \in Worlds, Scaled(s), s.ctl.events # << >>,
         NEW e, e = Head(s.ctl.events),
         NEW t, t = [s EXCEPT !.ctl.events = Tail(@)]
  PROVE  /\ t \in Worlds /\ Scaled(t) /\ e \in Events
         /\ e.name = "OnConnected" =>
              /\ NoStart(t.ctl) /\ ~t.app.scaleApplied
              /\ t.ctl.link \notin EarlyLinks
<1> DEFINE q == s.ctl.events
           d == [s.ctl EXCEPT !.events = Tail(q)]
<1>1. q \in Seq(Events) /\ q # << >>
  BY DEF Worlds, ControlStates
<1>2. Tail(q) \in Seq(Events) /\ e \in Events
  BY <1>1, TailType
<1>3. /\ 1 \in DOMAIN q /\ q[1] = e
      /\ \A j \in DOMAIN Tail(q) :
           j + 1 \in DOMAIN q /\ Tail(q)[j] = q[j + 1] /\ j + 1 # 1 /\ j \in Int
  BY <1>1
<1>4. /\ d \in ControlStates /\ d.events = Tail(q) /\ d.link = s.ctl.link
      /\ d.revision = s.ctl.revision /\ d.scale = s.ctl.scale
  BY <1>2 DEF Worlds, ControlStates
<1>5. t = [s EXCEPT !.ctl = d]
  BY DEF Worlds
<1> DEFINE r == Tail(q)
<1> HIDE DEF r, d
<1>6. NoStart(s.ctl) => NoStart(d)
  BY <1>3, <1>4 DEF NoStart, Silent, r, q
<1>7. Once(s.ctl) => Once(d)
  <2> SUFFICES ASSUME Once(s.ctl),
                      NEW i \in DOMAIN r, NEW j \in DOMAIN r,
                      r[i].name = "OnConnected", r[j].name = "OnConnected"
               PROVE  i = j
    BY <1>4 DEF Once, r
  <2>1. /\ i + 1 \in DOMAIN q /\ r[i] = q[i + 1] /\ i \in Int
        /\ j + 1 \in DOMAIN q /\ r[j] = q[j + 1] /\ j \in Int
    BY <1>3 DEF r
  <2>2. i + 1 = j + 1
    BY <2>1 DEF Once
  <2> QED
    BY <2>1, <2>2
<1>8. Once(s.ctl) /\ e.name = "OnConnected" => ~NoStart(s.ctl) /\ NoStart(d)
  BY <1>3, <1>4 DEF Once, NoStart, Silent, r
<1>9. t \in Worlds /\ Calm(s, t)
  BY <1>4, <1>5, <1>6, <1>7, ControlCalm DEF Scaled
<1>10. t.ctl = d /\ t.app = s.app
  BY <1>4, <1>5 DEF Worlds
<1>11. Scaled(t)
  BY <1>9, CalmScaled
<1>12. e.name = "OnConnected" =>
         /\ NoStart(t.ctl) /\ ~t.app.scaleApplied
         /\ t.ctl.link \notin EarlyLinks
  BY <1>4, <1>8, <1>10 DEF Scaled, Starts
<1> QED
  BY <1>2, <1>9, <1>11, <1>12

\* A scaled world in which the display is handled.
LEMMA HandledScaled ==
  ASSUME NEW s \in Worlds, Scaled(s),
         NEW how \in {"minimized", "maximized", "restored"}
  PROVE  Scaled(ApplyDynamicResize(s)) /\ Scaled(WmSize(s, how))
BY ApplyDynamicResizeDisplay, ApplyDynamicResizeTunes, WmSizeDisplay,
   WmSizeTunes, TunesScaled

\* An event with a name: the start of the session has its message posted, which
\* is to scale it.
LEMMA NamedEventScaled ==
  ASSUME NEW s \in Worlds, Scaled(s), NEW e \in Events,
         e.name = "OnConnected" =>
           /\ NoStart(s.ctl) /\ ~s.app.scaleApplied
           /\ s.ctl.link \notin EarlyLinks
  PROVE  Scaled(OnNamedEvent(s, e))
<1>0. e.name \in EventNames /\ e.arg \in Nat
  BY DEF Events
<1>1. CASE e.name = "OnConnected"
  <2> DEFINE a == [s.app EXCEPT !.connected = TRUE, !.everConnected = TRUE]
             r == [s EXCEPT !.app = a]
             t == PostMessage(r, "wmRDPConnected")
  <2>1. OnNamedEvent(s, e) = t
    BY <1>1 DEF OnNamedEvent, Worlds
  <2>2. /\ a \in AppStates /\ a.names = s.app.names
        /\ a.scaleApplied = s.app.scaleApplied
    BY DEF Worlds, AppStates
  <2> HIDE DEF a
  <2>3. r \in Worlds /\ r.app = a /\ r.ctl = s.ctl /\ r.win = s.win
    BY <2>2 DEF Worlds
  <2> HIDE DEF r
  <2>4. /\ t.app = a /\ t.ctl = s.ctl /\ t.win = s.win
        /\ t.win.show = "gone" \/ Awaiting(t)
    BY <2>3, PostMessageFields DEF PostedMessages, Awaiting
  <2> HIDE DEF t
  <2>5. FactorsFor(t) = FactorsFor(s)
    BY <2>4 DEF FactorsFor
  <2>6. Starts(t)
    BY <1>1, <2>4 DEF Scaled, Starts
  <2>7. Plain(t) /\ Fit(t)
    BY <1>1, <2>2, <2>4, <2>5 DEF Scaled, Plain, Fit
  <2> QED
    BY <2>1, <2>2, <2>4, <2>6, <2>7 DEF Scaled
<1>2. CASE e.name = "OnDisconnected"
  <2> DEFINE a == [s.app EXCEPT !.disconnectSeen = TRUE, !.connected = FALSE,
                                !.discReason = e.arg]
             r == [s EXCEPT !.app = a]
  <2>1. /\ s.app.disconnectSeen => OnNamedEvent(s, e) = s
        /\ ~s.app.disconnectSeen =>
             OnNamedEvent(s, e) = PostMessage(r, "wmRDPDisconnected")
    BY <1>2 DEF OnNamedEvent, HandleDisconnect, Worlds
  <2>2. /\ a \in AppStates /\ a.names = s.app.names /\ ~a.connected
        /\ a.scaleApplied = s.app.scaleApplied
    BY <1>0 DEF Worlds, AppStates
  <2> HIDE DEF a
  <2>3. r \in Worlds /\ Scaled(r)
    BY <2>2, NotedCalm, CalmScaled
  <2> HIDE DEF r
  <2>4. Scaled(PostMessage(r, "wmRDPDisconnected"))
    BY <2>3, PostedCalm, CalmScaled DEF PostedMessages
  <2> QED
    BY <2>1, <2>4
<1>3. CASE \/ e.name \in {"OnLoginComplete", "OnFatalError", "OnLogonError",
                          "OnEnterFullScreenMode"}
           \/ e.name = "OnRemoteDesktopSizeChange" /\ e.arg > 0
  <2> DEFINE a == CASE e.name = "OnLoginComplete" ->
                         [s.app EXCEPT !.loginComplete = TRUE]
                    [] e.name = "OnFatalError" ->
                         [s.app EXCEPT !.fatalError = TRUE]
                    [] e.name = "OnLogonError" ->
                         [s.app EXCEPT !.logonError = TRUE]
                    [] e.name = "OnEnterFullScreenMode" ->
                         [s.app EXCEPT !.fullScreen = TRUE]
                    [] e.name = "OnRemoteDesktopSizeChange" ->
                         [s.app EXCEPT !.session = e.arg]
  <2>1. OnNamedEvent(s, e) = [s EXCEPT !.app = a]
    BY <1>3 DEF OnNamedEvent, Worlds
  <2>2. /\ a \in AppStates /\ a.names = s.app.names
        /\ a.connected = s.app.connected
        /\ a.scaleApplied = s.app.scaleApplied
    BY <1>0, <1>3 DEF Worlds, AppStates
  <2> HIDE DEF a
  <2> QED
    BY <2>1, <2>2, NotedCalm, CalmScaled
<1>4. CASE e.name = "OnLeaveFullScreenMode"
  <2> DEFINE a == [s.app EXCEPT !.fullScreen = FALSE, !.pendingResize = TRUE]
             t == [s EXCEPT !.app = a]
  <2>1. OnNamedEvent(s, e) = ApplyDynamicResize(t)
    BY <1>4 DEF OnNamedEvent, Worlds
  <2>2. /\ a \in AppStates /\ a.names = s.app.names
        /\ a.connected = s.app.connected
        /\ a.scaleApplied = s.app.scaleApplied
    BY DEF Worlds, AppStates
  <2> HIDE DEF a
  <2>3. t \in Worlds /\ Scaled(t)
    BY <2>2, NotedCalm, CalmScaled
  <2> HIDE DEF t
  <2> QED
    BY <2>1, <2>3, HandledScaled
<1>5. CASE e.name = "OnRequestContainerMinimize" /\ s.win.show # "gone"
  <2> DEFINE w == [s.win EXCEPT !.show = "min", !.moving = FALSE]
             t == [s EXCEPT !.win = w]
  <2>1. OnNamedEvent(s, e) = WmSize(t, "minimized")
    BY <1>5 DEF OnNamedEvent, Worlds
  <2>2. w \in WindowStates /\ w.dpi = s.win.dpi
    BY DEF Worlds, WindowStates, Shows
  <2> HIDE DEF w
  <2>3. t \in Worlds /\ Scaled(t)
    BY <1>5, <2>2, PlacedCalm, CalmScaled
  <2> HIDE DEF t
  <2> QED
    BY <2>1, <2>3, HandledScaled
<1>6. CASE /\ e.name \notin {"OnConnected", "OnLoginComplete", "OnFatalError",
                             "OnLogonError", "OnEnterFullScreenMode",
                             "OnLeaveFullScreenMode", "OnDisconnected"}
           /\ ~(e.name = "OnRequestContainerMinimize" /\ s.win.show # "gone")
           /\ ~(e.name = "OnRemoteDesktopSizeChange" /\ e.arg > 0)
  BY <1>6 DEF OnNamedEvent
<1> QED
  BY <1>1, <1>2, <1>3, <1>4, <1>5, <1>6

LEMMA OnEventScaled ==
  ASSUME NEW s \in Worlds, Scaled(s), s.ctl.events # << >>
  PROVE  Scaled(OnEvent([s EXCEPT !.ctl.events = Tail(@)], Head(s.ctl.events)))
<1> DEFINE t == [s EXCEPT !.ctl.events = Tail(@)]
           e == Head(s.ctl.events)
<1>1. /\ t \in Worlds /\ Scaled(t) /\ e \in Events
      /\ e.name = "OnConnected" =>
           /\ NoStart(t.ctl) /\ ~t.app.scaleApplied
           /\ t.ctl.link \notin EarlyLinks
  BY TakeCalm
<1> HIDE DEF t, e
<1>2. OnEvent(t, e) = OnNamedEvent(t, e)
  BY <1>1 DEF OnEvent, Scaled, Events
<1> QED
  BY <1>1, <1>2, NamedEventScaled DEF t, e

\* The message that is to scale the session does; the one that tells of its end
\* leaves no window to look at.
LEMMA DispatchScaled ==
  ASSUME NEW s \in Worlds, Scaled(s), ShownIn(s), s.posted # << >>,
         NEW r, r = [s EXCEPT !.posted = Tail(@)]
  PROVE  /\ Head(s.posted) = "wmRDPConnected" => Scaled(WmRDPConnected(r))
         /\ Head(s.posted) = "wmRDPDisconnected" => Scaled(WmRDPDisconnected(r))
<1>1. s.posted \in Seq(PostedMessages) /\ Tail(s.posted) \in Seq(PostedMessages)
  BY WorldFields, TailType
<1>2. /\ r \in Worlds /\ r.app = s.app /\ r.win = s.win /\ r.ctl = s.ctl
      /\ r.posted = Tail(s.posted)
  BY <1>1 DEF Worlds
<1>3. FactorsFor(r) = FactorsFor(s)
  BY <1>2 DEF FactorsFor
<1>4. Starts(r) /\ Plain(r) /\ ShownIn(r)
  BY <1>2, <1>3 DEF Scaled, Starts, Plain, ShownIn
<1>5. ASSUME Head(s.posted) = "wmRDPConnected"
      PROVE  Scaled(WmRDPConnected(r))
  <2> DEFINE c == IF FullScreen /\ ~r.app.fullScreen
                  THEN EnterFullScreen(r.ctl) ELSE r.ctl
             v == [r EXCEPT !.app = r.app, !.ctl = c]
             t == ApplyScale(v)
  <2>1. WmRDPConnected(r) = t
    BY <1>2 DEF WmRDPConnected, Worlds
  <2>2. Adds(r.ctl, c, Announcements)
    BY <1>2, WorldFields, EnterFullScreenAdds, AddsItself
  <2>3. ShownIn(r) =>
          Shown(r.app.names, c, r.app.session, r.app.fullScreen)
    BY <1>2, WorldFields, EnterFullScreenShown DEF ShownIn
  <2>4. c.scale = r.ctl.scale /\ c.revision = r.ctl.revision
    BY <1>2, WorldFields, EnterFullScreenScale
  <2>5. c \in ControlStates
    BY <2>2 DEF Adds, Keeps
  <2> HIDE DEF c
  <2>6. Display(r, v)
    BY <1>2, <2>2, <2>3, WorldFields, DisplayMade DEF SameLife
  <2>7. v.app = r.app /\ v.ctl = c /\ v.win = r.win
    BY <1>2, <2>5 DEF Worlds
  <2> HIDE DEF v
  <2>8. Tunes(r, v)
    BY <2>4, <2>7 DEF Tunes
  <2>9. Starts(v) /\ Plain(v) /\ ShownIn(v) /\ v \in Worlds
    BY <1>4, <2>6, <2>8, TunesStarts, DisplayWorld DEF Display
  <2>10. v.app.session >= MinExtent
    BY <2>9 DEF ShownIn, Shown, Legal
  <2>11. /\ Display(v, t) /\ Tunes(v, t)
         /\ v.app.connected => t.app.scaleApplied
    BY <2>9, <2>10, ApplyScaleDisplay, ApplyScaleTunes
  <2> HIDE DEF t
  <2>12. Starts(t) /\ Plain(t)
    BY <2>9, <2>11, TunesStarts
  <2>13. /\ t.app.connected = s.app.connected /\ t.app.names = s.app.names
         /\ t.ctl.link = s.ctl.link /\ v.ctl.link = s.ctl.link
         /\ t.win.show = s.win.show
    BY <1>2, <2>2, <2>7, <2>11 DEF Display, SameSession, SameLife, Keeps, Adds
  <2>14. FactorsFor(v) = FactorsFor(s) /\ FactorsFor(t) = FactorsFor(s)
         /\ t.win.dpi = s.win.dpi
    BY <1>2, <2>7, <2>11 DEF FactorsFor, Tunes
  <2>15. Fit(t)
    BY <1>2, <2>4, <2>7, <2>11, <2>13, <2>14 DEF Scaled, Fit, Tunes
  <2> QED
    BY <2>1, <2>12, <2>13, <2>14, <2>15 DEF Scaled
<1>6. ASSUME Head(s.posted) = "wmRDPDisconnected"
      PROVE  Scaled(WmRDPDisconnected(r))
  <2>1. Awaiting(s) => Awaiting(r)
    BY <1>1, <1>2, <1>6, TailKeeps DEF Awaiting
  <2>2. Scaled(r)
    BY <1>2, <1>3, <1>4, <2>1 DEF Scaled, Fit
  <2> DEFINE a == [r.app EXCEPT !.closing = TRUE]
             v == [r EXCEPT !.app = a]
  <2>3. WmRDPDisconnected(r) = IF r.app.closing THEN r ELSE DestroyWindow(v)
    BY <1>2 DEF WmRDPDisconnected, Worlds
  <2>4. /\ a \in AppStates /\ a.names = r.app.names
        /\ a.connected = r.app.connected
        /\ a.scaleApplied = r.app.scaleApplied
    BY <1>2 DEF Worlds, AppStates
  <2> HIDE DEF a
  <2>5. v \in Worlds /\ Scaled(v)
    BY <1>2, <2>2, <2>4, NotedCalm, CalmScaled
  <2> HIDE DEF v
  <2>6. Scaled(DestroyWindow(v))
    BY <2>5, DestroyedCalm, CalmScaled
  <2> QED
    BY <2>2, <2>3, <2>6
<1> QED
  BY <1>5, <1>6

\* A close leaves the session or the window.
LEMMA CloseScaled ==
  ASSUME NEW s \in Worlds, Scaled(s), NEW ok \in BOOLEAN
  PROVE  Scaled(WmClose(s, ok))
<1> DEFINE a == [s.app EXCEPT !.closing = TRUE]
           c == IF s.app.connected THEN Disconnect(s.ctl) ELSE s.ctl
           v == [s EXCEPT !.app = a]
           r == [v EXCEPT !.ctl = c]
<1>1. WmClose(s, ok) = r \/ WmClose(s, ok) = DestroyWindow(r)
  BY DEF WmClose, Worlds
<1>2. /\ a \in AppStates /\ a.names = s.app.names
      /\ a.connected = s.app.connected
      /\ a.scaleApplied = s.app.scaleApplied
  BY DEF Worlds, AppStates
<1>3. /\ c \in ControlStates /\ c.events = s.ctl.events
      /\ c.revision = s.ctl.revision /\ c.scale = s.ctl.scale
      /\ c.link = s.ctl.link \/ c.link = "leaving"
  BY DEF Disconnect, Worlds, ControlStates, Links
<1> HIDE DEF a, c
<1>4. v \in Worlds /\ Scaled(v) /\ v.ctl = s.ctl
  BY <1>2, NotedCalm, CalmScaled DEF Worlds
<1> HIDE DEF v
<1>5. r \in Worlds /\ Calm(v, r)
  BY <1>3, <1>4, ControlCalm DEF EarlyLinks, NoStart, Once, Scaled
<1> HIDE DEF r
<1>6. Scaled(r)
  BY <1>4, <1>5, CalmScaled
<1> QED
  BY <1>1, <1>5, <1>6, DestroyedCalm, CalmScaled

-----------------------------------------------------------------------------
(* The invariant of the scale.                                             *)

\* Where it can be kept: every event has its name, sessions are not reestablished,
\* and monitors are alike.
Steady ==
  /\ Sinks \subseteq {"advised"} /\ NameTables \subseteq {EventNames}
  /\ \A b \in Budgets : b["retry"] = 0
  /\ Alike

ScaleInv ==
  /\ budget["retry"] = 0
  /\ pc = "configure" =>
       win.dpi \in Dpis /\ ctl.scale = Unscaled /\ ~app.scaleApplied
  /\ pc \in {"show", "connect", "loop"} => Scaled(World)

LEMMA SpendScale ==
  ASSUME budget \in [Kinds -> Nat], budget["retry"] = 0,
         NEW kind \in Kinds, Spend(kind)
  PROVE  budget'["retry"] = 0 /\ kind # "retry"
BY DEF Spend, Kinds

LEMMA BecomesScaled ==
  ASSUME pc' \in {"show", "connect", "loop"}, budget'["retry"] = 0,
         NEW t, Scaled(t), Become(t)
  PROVE  ScaleInv'
<1>1. /\ World'.app = t.app /\ World'.win = t.win
      /\ World'.ctl = t.ctl /\ World'.posted = t.posted
  BY DEF Become, World
<1>2. FactorsFor(World') = FactorsFor(t)
  BY <1>1 DEF FactorsFor
<1>3. Scaled(World')
  BY <1>1, <1>2 DEF Scaled, Starts, Plain, Fit, Awaiting
<1> QED
  BY <1>3 DEF ScaleInv

LEMMA InitScale ==
  ASSUME Steady PROVE Init => ScaleInv
<1> SUFFICES ASSUME Init PROVE ScaleInv
  OBVIOUS
<1>1. win.dpi \in Dpis /\ ctl.scale = Unscaled /\ ~app.scaleApplied
  BY DEF Init
<1>2. budget["retry"] = 0 /\ pc = "configure"
  BY DEF Init, Steady
<1> QED
  BY <1>1, <1>2 DEF ScaleInv

LEMMA NoEventsStart ==
  ASSUME NEW c, c.events = << >> PROVE NoStart(c) /\ Once(c)
<1>1. DOMAIN c.events = {}
  OBVIOUS
<1> QED
  BY <1>1 DEF NoStart, Silent, Once

LEMMA ConfigureScale ==
  ASSUME Steady, IInv, IInv', News, ScaleInv, Configure
  PROVE  ScaleInv'
<1> USE WorldIs
<1>1. PICK sink \in Sinks, names \in NameTables :
        LET extent == resolveWidth(Extent, Screen, FullScreen) IN
        /\ app' = [app EXCEPT !.sink = sink,
                              !.names = IF sink = "none" THEN {} ELSE names,
                              !.session = extent, !.fullScreen = FullScreen]
        /\ win' = [win EXCEPT !.normal = extent]
        /\ ctl' = [ctl EXCEPT !.advised = (sink # "none"), !.desk = extent]
  BY DEF Configure
<1>2. app \in AppStates /\ win \in WindowStates /\ ctl \in ControlStates
  BY WorldFields DEF IInv, Safe
<1>3. /\ pc = "configure" /\ pc' = "show" /\ budget' = budget
      /\ Before /\ Fresh /\ ctl.link = "idle"
  BY DEF Configure, IInv, News, Starting
<1>4. /\ app'.names = EventNames /\ ~app'.connected /\ ~app'.scaleApplied
  BY <1>1, <1>2, <1>3 DEF Steady, AppStates, Before, ScaleInv
<1>5. win'.dpi \in Dpis
  BY <1>1, <1>2, <1>3 DEF WindowStates, ScaleInv
<1>6. ctl'.link = "idle" /\ ctl'.scale = Unscaled /\ ctl'.events = << >>
  BY <1>1, <1>2, <1>3 DEF ControlStates, Fresh, ScaleInv
<1>7. NoStart(ctl') /\ Once(ctl')
  BY <1>6, NoEventsStart
<1>8. World'.app = app' /\ World'.win = win' /\ World'.ctl = ctl'
  BY DEF World
<1>9. Starts(World')
  BY <1>4, <1>7, <1>8 DEF Starts
<1>10. Plain(World') /\ Fit(World')
  BY <1>4, <1>6, <1>8 DEF Plain, Fit
<1>11. Scaled(World')
  BY <1>4, <1>5, <1>6, <1>8, <1>9, <1>10 DEF Scaled
<1> QED
  BY <1>3, <1>11 DEF ScaleInv

LEMMA ShowScale ==
  ASSUME IInv, News, ScaleInv, Show
  PROVE  ScaleInv'
<1> USE WorldIs
<1> DEFINE c == IF FullScreen /\ ctl.early THEN EnterFullScreen(ctl) ELSE ctl
           v == [World EXCEPT !.ctl = c]
           w == [win EXCEPT !.show = "normal"]
           t == [v EXCEPT !.win = w]
<1>1. /\ Become(WmSize(t, "restored"))
      /\ pc = "show" /\ pc' = "connect" /\ budget' = budget
  BY DEF Show, World
<1>2. /\ World \in Worlds /\ win \in WindowStates /\ ctl \in ControlStates
      /\ Scaled(World) /\ win.show # "gone"
  BY <1>1, WorldFields DEF IInv, Safe, ScaleInv, News, Before, Starting
<1>3. Adds(ctl, c, Announcements) /\ c.scale = ctl.scale
      /\ c.revision = ctl.revision
  BY <1>2, EnterFullScreenAdds, EnterFullScreenScale, AddsItself
<1>4. w \in WindowStates /\ w.dpi = win.dpi
  BY <1>2 DEF WindowStates, Shows
<1> HIDE DEF c, w
<1>5. /\ c \in ControlStates /\ c.link = ctl.link
      /\ NoStart(ctl) => NoStart(c)
      /\ Once(ctl) => Once(c)
  BY <1>3, GrownStarts DEF Adds, Keeps, Announcements
<1>6. v \in Worlds /\ Scaled(v) /\ v.win = win
  BY <1>2, <1>3, <1>5, ControlCalm, CalmScaled DEF Scaled, World
<1> HIDE DEF v
<1>7. t \in Worlds /\ Scaled(t)
  BY <1>2, <1>4, <1>6, PlacedCalm, CalmScaled
<1> HIDE DEF t
<1>8. Scaled(WmSize(t, "restored"))
  BY <1>7, HandledScaled
<1> QED
  BY <1>1, <1>8, BecomesScaled DEF ScaleInv

\* The control raises an event that is no start, and is up only if it was.
LEMMA RaisedScaled ==
  ASSUME NEW s \in Worlds, Scaled(s), NEW d \in ControlStates,
         d.events = s.ctl.events,
         d.revision = s.ctl.revision, d.scale = s.ctl.scale,
         d.link # "retry", d.link = "up" => s.ctl.link = "up",
         d.link \in EarlyLinks => s.ctl.link \in EarlyLinks,
         NEW name \in EventNames \ {"OnConnected"}, NEW arg \in Nat
  PROVE  Scaled([s EXCEPT !.ctl = Raise(d, name, arg)])
<1> DEFINE c == Raise(d, name, arg)
<1>1. Adds(d, c, {name})
  BY RaiseAdds
<1>2. c.scale = d.scale /\ c.revision = d.revision
  BY RaiseScale
<1> HIDE DEF c
<1>3. /\ c \in ControlStates /\ c.link = d.link
      /\ NoStart(d) => NoStart(c)
      /\ Once(d) => Once(c)
  BY <1>1, GrownStarts DEF Adds, Keeps
<1>4. /\ NoStart(s.ctl) => NoStart(d)
      /\ Once(s.ctl) => Once(d)
  BY DEF NoStart, Once
<1>5. Calm(s, [s EXCEPT !.ctl = c])
  BY <1>2, <1>3, <1>4, ControlCalm
<1> QED
  BY <1>5, CalmScaled DEF c

LEMMA ConnectScale ==
  ASSUME IInv, ScaleInv, Connect
  PROVE  ScaleInv'
<1> USE WorldIs
<1>1. /\ pc = "connect" /\ ctl.link = "idle" /\ budget' = budget
      /\ World \in Worlds /\ ctl \in ControlStates /\ Scaled(World)
  BY WorldFields DEF Connect, IInv, Safe, ScaleInv
<1>2. CASE /\ Become([World EXCEPT
                 !.ctl = Raise([@ EXCEPT !.link = "connecting"],
                               "OnConnecting", 0)])
           /\ pc' = "loop"
  <2> DEFINE d == [ctl EXCEPT !.link = "connecting"]
             t == [World EXCEPT !.ctl = Raise(d, "OnConnecting", 0)]
  <2>1. Become(t)
    BY <1>2
  <2>2. /\ d \in ControlStates /\ d.events = ctl.events
        /\ d.link = "connecting" /\ d.revision = ctl.revision
        /\ d.scale = ctl.scale
    BY <1>1 DEF ControlStates, Links
  <2> HIDE DEF d
  <2>3. Scaled(t)
    BY <1>1, <2>2, RaisedScaled DEF EarlyLinks, EventNames
  <2> HIDE DEF t
  <2> QED
    BY <1>1, <1>2, <2>1, <2>3, BecomesScaled DEF ScaleInv
<1>3. CASE pc' = "done"
  BY <1>1, <1>3 DEF ScaleInv
<1> QED
  BY <1>2, <1>3 DEF Connect

LEMMA ProgramScale ==
  ASSUME Steady, IInv, IInv', News, ScaleInv, Program
  PROVE  ScaleInv'
<1> USE WorldIs
<1>1. World \in Worlds
  BY DEF IInv, Safe
<1>2. CASE Configure
  BY <1>2, ConfigureScale
<1>3. CASE Show
  BY <1>3, ShowScale
<1>4. CASE Connect
  BY <1>4, ConnectScale
<1>5. CASE ConfigureFails \/ Finish
  BY <1>5 DEF ConfigureFails, Finish, ScaleInv
<1>6. CASE DeliverEvent
  <2> DEFINE t == OnEvent([World EXCEPT !.ctl.events = Tail(@)],
                          Head(ctl.events))
  <2>1. /\ ctl.events # << >> /\ Become(t) /\ pc = "loop" /\ pc' = pc
        /\ budget' = budget
    BY <1>6 DEF DeliverEvent
  <2>2. Scaled(t)
    BY <1>1, <2>1, OnEventScaled DEF ScaleInv
  <2> HIDE DEF t
  <2> QED
    BY <2>1, <2>2, BecomesScaled DEF ScaleInv
<1>7. CASE DispatchPosted
  <2> DEFINE r == [World EXCEPT !.posted = Tail(@)]
  <2>1. PICK t : /\ Become(t)
                 /\ \/ Head(posted) = "wmRDPConnected" /\ t = WmRDPConnected(r)
                    \/ /\ Head(posted) = "wmRDPDisconnected"
                       /\ t = WmRDPDisconnected(r)
    BY <1>7 DEF DispatchPosted
  <2>2. posted # << >> /\ pc = "loop" /\ pc' = pc /\ budget' = budget
    BY <1>7 DEF DispatchPosted
  <2>3. Scaled(World) /\ ShownIn(World)
    BY <2>2 DEF ScaleInv, News, Good
  <2>4. /\ Head(posted) = "wmRDPConnected" => Scaled(WmRDPConnected(r))
        /\ Head(posted) = "wmRDPDisconnected" => Scaled(WmRDPDisconnected(r))
    BY <1>1, <2>2, <2>3, DispatchScaled
  <2> HIDE DEF r
  <2>5. Scaled(t)
    BY <2>1, <2>4
  <2> QED
    BY <2>1, <2>2, <2>5, BecomesScaled DEF ScaleInv
<1> QED
  BY <1>2, <1>3, <1>4, <1>5, <1>6, <1>7 DEF Program

LEMMA MovesScale ==
  ASSUME IInv, ScaleInv, pc = "loop", pc' = pc, win.show # "gone",
         budget'["retry"] = 0, NEW w \in WindowStates, w.dpi = win.dpi,
         NEW how \in {"minimized", "maximized", "restored"},
         \/ Become(WmSize([World EXCEPT !.win = w], how))
         \/ Become(ApplyDynamicResize([World EXCEPT !.win = w]))
  PROVE  ScaleInv'
<1> DEFINE v == [World EXCEPT !.win = w]
<1>1. World \in Worlds /\ Scaled(World) /\ World.win = win
  BY WorldIs DEF IInv, Safe, ScaleInv
<1>2. v \in Worlds /\ Scaled(v)
  BY <1>1, PlacedCalm, CalmScaled
<1>3. PICK t : /\ Become(t)
               /\ t = WmSize(v, how) \/ t = ApplyDynamicResize(v)
  OBVIOUS
<1> HIDE DEF v
<1>4. Scaled(t)
  BY <1>2, <1>3, HandledScaled
<1> QED
  BY <1>3, <1>4, BecomesScaled

LEMMA UserScale ==
  ASSUME Steady, IInv, News, ScaleInv, User
  PROVE  ScaleInv'
<1> USE WorldIs
<1>1. /\ World \in Worlds /\ win \in WindowStates
      /\ budget \in [Kinds -> Nat] /\ budget["retry"] = 0
  BY WorldFields DEF IInv, Safe, ScaleInv
<1>2. CASE CloseWindow
  <2>1. PICK ok \in {TRUE, ctl.link # "down"} : Become(WmClose(World, ok))
    BY <1>2 DEF CloseWindow
  <2>2. pc = "loop" /\ pc' = pc /\ Scaled(World) /\ Spend("close")
    BY <1>2 DEF CloseWindow, WindowThere, ScaleInv
  <2>3. budget'["retry"] = 0
    BY <1>1, <2>2, SpendScale DEF Kinds
  <2>4. Scaled(WmClose(World, ok))
    BY <1>1, <2>1, <2>2, CloseScaled
  <2> QED
    BY <2>1, <2>2, <2>3, <2>4, BecomesScaled
<1>3. ASSUME NEW kind, Gesture(kind)
      PROVE  /\ pc = "loop" /\ pc' = pc /\ win.show # "gone"
             /\ budget'["retry"] = 0
  <2>1. Spend("gesture")
    BY <1>3 DEF Gesture
  <2> QED
    BY <1>1, <1>3, <2>1, SpendScale DEF Gesture, WindowThere, Kinds
<1>4. CASE Drag
  <2>1. PICK extent \in Extents \ {win.normal} :
          Become(WmSize([World EXCEPT !.win.normal = extent,
                                      !.win.moving = TRUE], "restored"))
    BY <1>4 DEF Drag
  <2> DEFINE w == [win EXCEPT !.normal = extent, !.moving = TRUE]
  <2>2. extent \in Nat
    BY <2>1, ConstantsAssumption
  <2>3. w \in WindowStates /\ w.dpi = win.dpi
    BY <1>1, <2>2 DEF WindowStates
  <2>4. [World EXCEPT !.win = w]
          = [World EXCEPT !.win.normal = extent, !.win.moving = TRUE]
    BY DEF World
  <2>5. Gesture("drag")
    BY <1>4 DEF Drag
  <2> HIDE DEF w
  <2>6. Become(WmSize([World EXCEPT !.win = w], "restored"))
    BY <2>1, <2>4
  <2> QED
    BY <1>3, <2>3, <2>5, <2>6, MovesScale
<1>5. CASE EndDrag
  <2> DEFINE w == [win EXCEPT !.moving = FALSE]
  <2>1. /\ Become(ApplyDynamicResize([World EXCEPT !.win = w]))
        /\ pc = "loop" /\ pc' = pc /\ win.show # "gone" /\ budget' = budget
    BY <1>5 DEF EndDrag, WindowThere, World
  <2>2. w \in WindowStates /\ w.dpi = win.dpi
    BY <1>1 DEF WindowStates
  <2> HIDE DEF w
  <2> QED
    BY <1>1, <2>1, <2>2, MovesScale
<1>6. CASE Maximise
  <2> DEFINE w == [win EXCEPT !.show = "max"]
  <2>1. /\ w \in WindowStates /\ w.dpi = win.dpi
        /\ Become(WmSize([World EXCEPT !.win = w], "maximized"))
        /\ Gesture("maximise")
    BY <1>1, <1>6 DEF Maximise, WindowStates, Shows, World
  <2> HIDE DEF w
  <2> QED
    BY <1>3, <2>1, MovesScale
<1>7. CASE Restore
  <2> DEFINE w == [win EXCEPT !.show = "normal"]
  <2>1. /\ w \in WindowStates /\ w.dpi = win.dpi
        /\ Become(WmSize([World EXCEPT !.win = w], "restored"))
        /\ Gesture("restore")
    BY <1>1, <1>7 DEF Restore, WindowStates, Shows, World
  <2> HIDE DEF w
  <2> QED
    BY <1>3, <2>1, MovesScale
<1>8. CASE Minimise
  <2> DEFINE w == [win EXCEPT !.show = "min"]
  <2>1. /\ w \in WindowStates /\ w.dpi = win.dpi
        /\ Become(WmSize([World EXCEPT !.win = w], "minimized"))
        /\ Gesture("minimise")
    BY <1>1, <1>8 DEF Minimise, WindowStates, Shows, World
  <2> HIDE DEF w
  <2> QED
    BY <1>3, <2>1, MovesScale
<1>9. CASE ChangeDpi
  <2>1. PICK dpi \in Dpis \ {win.dpi}, extent \in Extents \cup {win.normal} :
          Become(WmDpiChanged(World, dpi, extent))
    BY <1>9 DEF ChangeDpi
  <2>2. extent \in Nat
    BY <1>1, ConstantsAssumption DEF WindowStates
  <2>3. /\ pc = "loop" /\ pc' = pc /\ Spend("dpi")
        /\ Scaled(World) /\ ShownIn(World)
    BY <1>9 DEF ChangeDpi, WindowThere, ScaleInv, News, Good
  <2>4. budget'["retry"] = 0
    BY <1>1, <2>3, SpendScale DEF Kinds
  <2> DEFINE t == WmDpiChanged(World, dpi, extent)
  <2>5. Scaled(t)
    BY <1>1, <2>1, <2>2, <2>3, WmDpiChangedScaled DEF Steady
  <2>6. Become(t)
    BY <2>1
  <2> HIDE DEF t
  <2> QED
    BY <2>3, <2>4, <2>5, <2>6, BecomesScaled
<1> QED
  BY <1>2, <1>4, <1>5, <1>6, <1>7, <1>8, <1>9 DEF User

\* What the control and the server do: the start is raised before anything has
\* been scaled, and nothing else they do is a matter of scale.
LEMMA ControlScale ==
  ASSUME IInv, ScaleInv, Control
  PROVE  ScaleInv'
<1> USE WorldIs
<1>1. /\ World \in Worlds /\ ctl \in ControlStates
      /\ budget \in [Kinds -> Nat] /\ budget["retry"] = 0
  BY WorldFields DEF IInv, Safe, ScaleInv
<1>2. /\ "OnConnected" \notin Announcements
      /\ EarlyLinks = {"idle", "connecting"}
  BY DEF Announcements, EarlyLinks
<1>3. ASSUME NEW kind \in Kinds, Spend(kind)
      PROVE  budget'["retry"] = 0 /\ kind # "retry"
  BY <1>1, <1>3, SpendScale
\* A control that moves on to a scaled world.
<1>4. ASSUME NEW c, ControlMoves(c), budget'["retry"] = 0,
             Scaled(World) => Scaled([World EXCEPT !.ctl = c])
      PROVE  ScaleInv'
  <2> DEFINE t == [World EXCEPT !.ctl = c]
  <2>1. pc = "loop" /\ pc' = pc /\ Become(t)
    BY <1>4 DEF ControlMoves, Become, World
  <2>2. Scaled(t)
    BY <1>4, <2>1 DEF ScaleInv
  <2> HIDE DEF t
  <2> QED
    BY <1>4, <2>1, <2>2, BecomesScaled
\* The control tells of something else than a start.
<1>5. ASSUME NEW d \in ControlStates, d.events = ctl.events,
             d.revision = ctl.revision, d.scale = ctl.scale,
             d.link = ctl.link \/ d.link = "down",
             NEW name \in EventNames \ {"OnConnected"}, NEW arg \in Nat,
             ControlMoves(Raise(d, name, arg)), budget'["retry"] = 0
      PROVE  ScaleInv'
  <2> DEFINE c == Raise(d, name, arg)
  <2>1. ASSUME Scaled(World) PROVE Scaled([World EXCEPT !.ctl = c])
    <3>1. /\ d.link # "retry"
          /\ d.link = "up" => ctl.link = "up"
          /\ d.link \in EarlyLinks => ctl.link \in EarlyLinks
      BY <1>2, <1>5, <2>1 DEF Scaled
    <3> QED
      BY <1>1, <1>5, <2>1, <3>1, RaisedScaled
  <2>2. ControlMoves(c)
    BY <1>5
  <2> HIDE DEF c
  <2> QED
    BY <1>4, <1>5, <2>1, <2>2
<1>6. ASSUME NEW reason \in Reasons, ControlMoves(Ended(reason)),
             budget'["retry"] = 0
      PROVE  ScaleInv'
  <2> DEFINE d == [ctl EXCEPT !.link = "down", !.reason = reason]
  <2>1. /\ d \in ControlStates /\ d.link = "down" /\ d.events = ctl.events
        /\ d.revision = ctl.revision /\ d.scale = ctl.scale
    BY <1>1 DEF ControlStates, Links
  <2>2. reason \in Nat
    BY DEF Reasons, NormalReason, ErrorReason
  <2>3. ControlMoves(Raise(d, "OnDisconnected", reason))
    BY <1>6 DEF Ended
  <2> HIDE DEF d
  <2> QED
    BY <1>5, <1>6, <2>1, <2>2, <2>3 DEF EventNames
<1>7. NormalReason \in Reasons /\ ErrorReason \in Reasons
  BY DEF Reasons
<1>8. CASE ConnectResolves
  <2> DEFINE d == [ctl EXCEPT !.link = "up", !.everUp = TRUE]
             c == Raise(d, "OnConnected", 0)
             e == [name |-> "OnConnected", arg |-> 0]
             t == [World EXCEPT !.ctl = c]
  <2>1. /\ ctl.link = "connecting" /\ budget' = budget
        /\ ControlMoves(c) \/ ControlMoves(Ended(ErrorReason))
    BY <1>8 DEF ConnectResolves
  <2>2. CASE ControlMoves(Ended(ErrorReason))
    BY <1>1, <1>6, <1>7, <2>1, <2>2
  <2>3. CASE ControlMoves(c)
    <3>1. ASSUME Scaled(World) PROVE Scaled(t)
      <4>1. /\ NoStart(ctl) /\ ~app.connected /\ ~app.scaleApplied
        BY <2>1, <3>1 DEF Scaled, Starts, EarlyLinks
      <4>2. /\ d \in ControlStates /\ d.link = "up" /\ d.events = ctl.events
            /\ d.revision = ctl.revision /\ d.scale = ctl.scale
        BY <1>1 DEF ControlStates, Links
      <4> HIDE DEF d
      <4>3. /\ c \in ControlStates /\ c.link = "up"
            /\ c.revision = ctl.revision /\ c.scale = ctl.scale
            /\ c.events = Append(ctl.events, e) \/ c.events = ctl.events
            /\ e \in Events
        BY <4>2, RaiseFields, RaiseScale DEF EventNames
      <4> HIDE DEF c, e
      <4>4. ctl.events \in Seq(Events)
        BY <1>1 DEF ControlStates
      <4>5. \A i \in DOMAIN c.events :
              \/ i \in DOMAIN ctl.events /\ c.events[i] = ctl.events[i]
              \/ i = Len(ctl.events) + 1
        BY <4>3, <4>4
      <4>6. Once(c)
        BY <4>1, <4>5 DEF Once, NoStart, Silent
      <4>7. t.app = app /\ t.win = win /\ t.ctl = c
        BY DEF World
      <4> HIDE DEF t
      <4>8. FactorsFor(t) = FactorsFor(World)
        BY <4>7 DEF FactorsFor
      <4>9. Starts(t)
        BY <4>1, <4>3, <4>6, <4>7 DEF Starts, EarlyLinks
      <4>10. Plain(t) /\ Fit(t)
        BY <3>1, <4>1, <4>3, <4>7, <4>8 DEF Scaled, Plain, Fit
      <4> QED
        BY <3>1, <4>3, <4>7, <4>9, <4>10 DEF Scaled
    <3> HIDE DEF c
    <3> QED
      BY <1>1, <1>4, <2>1, <2>3, <3>1
  <2> QED
    BY <2>1, <2>2, <2>3
<1>9. CASE LogIn
  <2> DEFINE d == [ctl EXCEPT !.loggedIn = TRUE]
  <2>1. /\ d \in ControlStates /\ d.link = ctl.link /\ d.events = ctl.events
        /\ d.revision = ctl.revision /\ d.scale = ctl.scale
    BY <1>1 DEF ControlStates
  <2>2. ControlMoves(Raise(d, "OnLoginComplete", 0)) /\ budget' = budget
    BY <1>9 DEF LogIn
  <2> HIDE DEF d
  <2> QED
    BY <1>1, <1>5, <2>1, <2>2 DEF EventNames
<1>10. CASE LogonError
  <2> DEFINE d == [ctl EXCEPT !.refused = TRUE]
  <2>1. /\ d \in ControlStates /\ d.link = ctl.link /\ d.events = ctl.events
        /\ d.revision = ctl.revision /\ d.scale = ctl.scale
    BY <1>1 DEF ControlStates
  <2>2. ControlMoves(Raise(d, "OnLogonError", 0)) /\ Spend("logonError")
    BY <1>10 DEF LogonError
  <2> HIDE DEF d
  <2> QED
    BY <1>3, <1>5, <2>1, <2>2 DEF EventNames, Kinds
<1>11. CASE FatalError
  <2>1. ControlMoves(Raise(ctl, "OnFatalError", 0)) /\ Spend("fatal")
    BY <1>11 DEF FatalError
  <2> QED
    BY <1>1, <1>3, <1>5, <2>1 DEF EventNames, Kinds
<1>12. CASE LoseLink
  BY <1>3, <1>12 DEF LoseLink, Kinds
<1>13. CASE RegainLink
  <2>1. ctl.link = "retry" /\ pc = "loop"
    BY <1>13 DEF RegainLink, ControlMoves
  <2> QED
    BY <2>1 DEF ScaleInv, Scaled
<1>14. CASE SessionEnds
  <2>1. PICK reason \in {NormalReason, ErrorReason} :
          ControlMoves(Ended(reason))
    BY <1>14 DEF SessionEnds
  <2>2. budget' = budget
    BY <1>14 DEF SessionEnds
  <2> QED
    BY <1>1, <1>6, <1>7, <2>1, <2>2
<1>15. CASE DisconnectCompletes
  <2>1. ControlMoves(Ended(NormalReason)) /\ budget' = budget
    BY <1>15 DEF DisconnectCompletes
  <2> QED
    BY <1>1, <1>6, <1>7, <2>1
\* The control shows another display, of the same scale.
<1>16. ASSUME NEW c, Adds(ctl, c, Announcements), ControlMoves(c),
              c.scale = ctl.scale, c.revision = ctl.revision,
              budget'["retry"] = 0
       PROVE  ScaleInv'
  <2>1. /\ c \in ControlStates /\ c.link = ctl.link
        /\ NoStart(ctl) => NoStart(c)
        /\ Once(ctl) => Once(c)
    BY <1>2, <1>16, GrownStarts DEF Adds, Keeps
  <2>2. ASSUME Scaled(World) PROVE Scaled([World EXCEPT !.ctl = c])
    <3>1. Calm(World, [World EXCEPT !.ctl = c])
      BY <1>1, <1>16, <2>1, <2>2, ControlCalm DEF Scaled
    <3> QED
      BY <2>2, <3>1, CalmScaled
  <2> QED
    BY <1>4, <1>16, <2>2
<1>17. CASE ToggleFullScreen
  <2> DEFINE d == [ctl EXCEPT !.full = FALSE]
             c == Raise(d, "OnLeaveFullScreenMode", 0)
  <2>1. /\ d \in ControlStates /\ d.link = ctl.link /\ d.events = ctl.events
        /\ d.revision = ctl.revision /\ d.scale = ctl.scale
    BY <1>1 DEF ControlStates
  <2>2. /\ Spend("toggle")
        /\ ControlMoves(c) \/ ControlMoves(EnterFullScreen(ctl))
    BY <1>17 DEF ToggleFullScreen
  <2>3. budget'["retry"] = 0
    BY <1>3, <2>2 DEF Kinds
  <2> HIDE DEF d
  <2>4. CASE ControlMoves(c)
    BY <1>5, <2>1, <2>3, <2>4 DEF EventNames
  <2>5. CASE ControlMoves(EnterFullScreen(ctl))
    BY <1>1, <1>16, <2>3, <2>5, EnterFullScreenAdds, EnterFullScreenScale
  <2> QED
    BY <2>2, <2>4, <2>5
<1>18. CASE RequestMinimise
  <2>1. /\ ControlMoves(Raise(ctl, "OnRequestContainerMinimize", 0))
        /\ Spend("minimise")
    BY <1>18 DEF RequestMinimise
  <2> QED
    BY <1>1, <1>3, <1>5, <2>1 DEF EventNames, Kinds
<1>19. CASE ServerResizes
  <2>1. PICK extent \in ServerExtents \ {ctl.desk} :
          ControlMoves(Resized(ctl, extent, ctl.scale))
    BY <1>19 DEF ServerResizes
  <2>2. extent \in Nat /\ ctl.scale \in Factors /\ Spend("resize")
    BY <1>1, <1>19, <2>1, ConstantsAssumption DEF ControlStates, ServerResizes
  <2>3. budget'["retry"] = 0
    BY <1>3, <2>2 DEF Kinds
  <2> QED
    BY <1>1, <1>16, <2>1, <2>2, <2>3, ResizedAdds, ResizedScale
<1> QED
  BY <1>8, <1>9, <1>10, <1>11, <1>12, <1>13, <1>14, <1>15, <1>17, <1>18, <1>19
     DEF Control

LEMMA NextScale ==
  ASSUME Steady, IInv, IInv', News, ScaleInv, [Next]_vars
  PROVE  ScaleInv'
<1>1. CASE Program
  BY <1>1, ProgramScale
<1>2. CASE User
  BY <1>2, UserScale
<1>3. CASE Control
  BY <1>3, ControlScale
<1>4. CASE UNCHANGED vars
  <2>1. World' = World /\ pc' = pc /\ budget' = budget /\ win' = win
        /\ ctl' = ctl /\ app' = app
    BY <1>4 DEF World, vars
  <2>2. Scaled(World) => Scaled(World')
    BY <2>1
  <2> QED
    BY <2>1, <2>2 DEF ScaleInv
<1> QED
  BY <1>1, <1>2, <1>3, <1>4 DEF Next, Exited

\* Where every event has its name, sessions are not reestablished and no two monitors
\* differ in whether they need a scale, a quiet session has the scale of the
\* monitor its window is on (ScaleFollowsMonitor).
THEOREM ScaleFollowsMonitorTheorem ==
  ASSUME Sinks \subseteq {"advised"}, NameTables \subseteq {EventNames},
         \A b \in Budgets : b["retry"] = 0,
         \A d, e \in Dpis :
           (scaleFactors(Scale, DeviceScale, d) = Unscaled)
             <=> (scaleFactors(Scale, DeviceScale, e) = Unscaled)
  PROVE  Spec => []ScaleFollowsMonitor
<1>1. Steady
  BY DEF Steady, Alike
<1>2. Init => ScaleInv
  BY <1>1, InitScale
<1>3. IInv /\ News /\ (IInv /\ News)' /\ ScaleInv /\ [Next]_vars => ScaleInv'
  BY <1>1, NextScale
<1>4. ScaleInv => ScaleFollowsMonitor
  <2> SUFFICES ASSUME ScaleInv, Quiescent, LiveSession,
                      ctl.revision = "scaled"
               PROVE  ctl.scale = scaleFactors(Scale, DeviceScale, win.dpi)
    BY DEF ScaleFollowsMonitor
  <2>1. /\ Fit(World) /\ win.show # "gone" /\ ctl.link = "up"
        /\ app.connected /\ posted = << >>
    BY DEF ScaleInv, Scaled, Quiescent, LiveSession
  <2>2. ~Awaiting(World)
    BY <2>1, WorldIs DEF Awaiting
  <2> QED
    BY <2>1, <2>2, WorldIs DEF Fit, FactorsFor
<1> QED
  BY <1>2, <1>3, <1>4, NewsInvariance, PTL DEF Spec

-----------------------------------------------------------------------------
(* After the session.  A control without a session refuses every resize and *)
(* scale, so that reading what is queued comes to an end.                   *)

\* What a control has queued and could still announce by itself.
Waiting(c)   == 2 * Len(c.events) + (IF c.full THEN 0 ELSE 2)
BacklogOf(s) == Waiting(s.ctl) + Len(s.posted)

LEMMA BacklogType ==
  ASSUME NEW s \in Worlds
  PROVE  /\ Len(s.ctl.events) \in Nat /\ Len(s.posted) \in Nat
         /\ Waiting(s.ctl) \in Nat /\ BacklogOf(s) \in Nat
<1>1. s.ctl.events \in Seq(Events) /\ s.posted \in Seq(PostedMessages)
  BY DEF Worlds, ControlStates
<1>2. Len(s.ctl.events) \in Nat /\ Len(s.posted) \in Nat
  BY <1>1
<1>3. ASSUME NEW n \in Nat PROVE 2 * n + 0 \in Nat /\ 2 * n + 2 \in Nat
  OBVIOUS
<1>4. Waiting(s.ctl) \in Nat
  <2>1. \/ Waiting(s.ctl) = 2 * Len(s.ctl.events) + 0
        \/ Waiting(s.ctl) = 2 * Len(s.ctl.events) + 2
    BY DEF Waiting
  <2> QED
    BY <1>2, <1>3, <2>1
<1> QED
  BY <1>2, <1>4 DEF BacklogOf

\* A display handler that finds no session does nothing to the control.
Rests(s, t) == SameSession(s, t) /\ t.ctl = s.ctl

LEMMA RestsChains ==
  ASSUME NEW s, NEW t, NEW u, Rests(s, t), Rests(t, u)
  PROVE  Rests(s, u)
BY SameSessionChains DEF Rests

LEMMA RestsWorld ==
  ASSUME NEW s, NEW t, Rests(s, t)
  PROVE  t \in Worlds
BY DEF Rests, SameSession

\* No size and no scale is taken, and no reconnect.
LEMMA RefusedWhenDown ==
  ASSUME NEW c \in ControlStates, c.link = "down", NEW extent, NEW f
  PROVE  /\ UpdateSessionDisplaySettings(c, extent, f).ctl = c
         /\ Reconnect(c, extent).ctl = c
BY DEF UpdateSessionDisplaySettings, Reconnect, Accepts

LEMMA ApplyScaleRests ==
  ASSUME NEW s \in Worlds, s.ctl.link = "down"
  PROVE  Rests(s, ApplyScale(s))
<1> DEFINE c == UpdateSessionDisplaySettings(s.ctl, s.app.session,
                                             FactorsFor(s)).ctl
           a == [s.app EXCEPT !.scaleApplied = TRUE]
<1>1. \/ ApplyScale(s) = [s EXCEPT !.app = a, !.ctl = c]
      \/ ApplyScale(s) = [s EXCEPT !.app = a, !.ctl = s.ctl]
      \/ ApplyScale(s) = s
  BY DEF ApplyScale, Worlds
<1>2. c = s.ctl
  BY WorldFields, RefusedWhenDown
<1> HIDE DEF a, c
<1>3. ApplyScale(s).ctl = s.ctl
  BY <1>1, <1>2 DEF Worlds
<1> QED
  BY <1>3, ApplyScaleSame DEF Rests

LEMMA ApplyDynamicResizeRests ==
  ASSUME NEW s \in Worlds, s.ctl.link = "down"
  PROVE  Rests(s, ApplyDynamicResize(s))
<1> DEFINE e  == Even(ClientExtent(s.win))
           c1 == UpdateSessionDisplaySettings(s.ctl, e, FactorsFor(s)).ctl
           c2 == Reconnect(s.ctl, e).ctl
           a1 == [s.app EXCEPT !.pendingResize = FALSE]
           a2 == [s.app EXCEPT !.pendingResize = FALSE, !.session = e]
           a3 == [s.app EXCEPT !.pendingResize = FALSE, !.resizeWarned = TRUE]
<1>1. \/ ApplyDynamicResize(s) = [s EXCEPT !.app = a1, !.ctl = s.ctl]
      \/ ApplyDynamicResize(s) = [s EXCEPT !.app = a2, !.ctl = c1]
      \/ ApplyDynamicResize(s) = [s EXCEPT !.app = a2, !.ctl = c2]
      \/ ApplyDynamicResize(s) = [s EXCEPT !.app = a3, !.ctl = s.ctl]
      \/ ApplyDynamicResize(s) = s
  BY DEF ApplyDynamicResize, Worlds, e
<1> HIDE DEF e
<1>2. c1 = s.ctl /\ c2 = s.ctl
  BY WorldFields, RefusedWhenDown
<1> HIDE DEF a1, a2, a3, c1, c2
<1>3. ApplyDynamicResize(s).ctl = s.ctl
  BY <1>1, <1>2 DEF Worlds
<1> QED
  BY <1>3, ApplyDynamicResizeSame DEF Rests

LEMMA MarkedRests ==
  ASSUME NEW s \in Worlds, NEW scaled \in BOOLEAN
  PROVE  Rests(s, [s EXCEPT !.app.pendingResize = TRUE,
                            !.app.scaleApplied = scaled])
<1>1. [s EXCEPT !.app.pendingResize = TRUE, !.app.scaleApplied = scaled].ctl
        = s.ctl
  BY DEF Worlds
<1> QED
  BY <1>1, MarkedSame DEF Rests

LEMMA WmSizeRests ==
  ASSUME NEW s \in Worlds, NEW how \in {"minimized", "maximized", "restored"},
         s.ctl.link = "down"
  PROVE  Rests(s, WmSize(s, how))
<1> DEFINE marked == [s EXCEPT !.app.pendingResize = TRUE]
<1>1. Rests(s, marked)
  <2>1. /\ s.app.scaleApplied \in BOOLEAN
        /\ marked = [s EXCEPT !.app.pendingResize = TRUE,
                              !.app.scaleApplied = s.app.scaleApplied]
    BY DEF Worlds, AppStates
  <2> QED
    BY <2>1, MarkedRests
<1> HIDE DEF marked
<1>2. marked \in Worlds /\ marked.ctl.link = "down"
  BY <1>1 DEF Rests, SameSession
<1>3. Rests(s, ApplyDynamicResize(marked))
  BY <1>1, <1>2, ApplyDynamicResizeRests, RestsChains
<1>4. Rests(s, s)
  BY SameSessionItself DEF Rests
<1> QED
  BY <1>1, <1>3, <1>4 DEF WmSize, marked

LEMMA WmDpiChangedRests ==
  ASSUME NEW s \in Worlds, NEW dpi \in Nat, NEW extent \in Nat,
         s.ctl.link = "down"
  PROVE  Rests(s, WmDpiChanged(s, dpi, extent))
<1> DEFINE normal == IF s.win.show = "normal" THEN extent ELSE s.win.normal
           w == [s.win EXCEPT !.dpi = dpi, !.normal = normal]
           placed == [s EXCEPT !.win = w]
           sized == IF s.win.show = "normal" /\ extent # s.win.normal
                    THEN WmSize(placed, "restored") ELSE placed
           marked == [sized EXCEPT !.app.pendingResize = TRUE,
                                   !.app.scaleApplied = FALSE]
           resized == ApplyDynamicResize(marked)
<1>1. WmDpiChanged(s, dpi, extent) = ApplyScale(resized)
  BY DEF WmDpiChanged, Worlds
<1>2. w \in WindowStates /\ w.show = s.win.show
  BY DEF Worlds, WindowStates
<1> HIDE DEF w
<1>3. Rests(s, placed)
  BY <1>2, PlacedSame DEF Rests, Worlds
<1> HIDE DEF placed
<1>4. ASSUME NEW t, Rests(s, t) PROVE t \in Worlds /\ t.ctl.link = "down"
  BY <1>4 DEF Rests, SameSession
<1>5. Rests(s, sized)
  <2>1. Rests(placed, WmSize(placed, "restored"))
    BY <1>3, <1>4, WmSizeRests
  <2> QED
    BY <1>3, <2>1, RestsChains
<1> HIDE DEF sized
<1>6. Rests(s, marked)
  BY <1>4, <1>5, MarkedRests, RestsChains
<1> HIDE DEF marked
<1>7. Rests(s, resized)
  BY <1>4, <1>6, ApplyDynamicResizeRests, RestsChains
<1> HIDE DEF resized
<1> QED
  BY <1>1, <1>4, <1>7, ApplyScaleRests, RestsChains

\* A handler that posts one message at most and leaves the control alone.
PostsOnce(s, t) ==
  t \in Worlds /\ t.ctl = s.ctl /\ Len(t.posted) <= Len(s.posted) + 1

LEMMA RestsPosts ==
  ASSUME NEW s \in Worlds, NEW t, Rests(s, t)
  PROVE  PostsOnce(s, t)
<1>1. Len(s.posted) \in Nat
  BY WorldFields
<1> QED
  BY <1>1 DEF Rests, SameSession, PostsOnce

LEMMA PostMessageOnce ==
  ASSUME NEW s \in Worlds, NEW m \in PostedMessages
  PROVE  PostsOnce(s, PostMessage(s, m))
<1>1. Len(s.posted) \in Nat /\ Len(Append(s.posted, m)) = Len(s.posted) + 1
  BY WorldFields
<1>2. \/ PostMessage(s, m).posted = s.posted
      \/ PostMessage(s, m).posted = Append(s.posted, m)
  BY DEF PostMessage, Worlds
<1> QED
  BY <1>1, <1>2, PostMessageFields DEF PostsOnce

\* One that first notes something in the App struct.
LEMMA NotedOnce ==
  ASSUME NEW s \in Worlds, NEW a \in AppStates
  PROVE  /\ [s EXCEPT !.app = a] \in Worlds
         /\ [s EXCEPT !.app = a].ctl = s.ctl
         /\ PostsOnce(s, [s EXCEPT !.app = a])
         /\ \A m \in PostedMessages :
              PostsOnce(s, PostMessage([s EXCEPT !.app = a], m))
<1> DEFINE t == [s EXCEPT !.app = a]
<1>1. t \in Worlds /\ t.ctl = s.ctl /\ t.posted = s.posted
  BY DEF Worlds
<1>2. Len(s.posted) \in Nat
  BY WorldFields
<1> HIDE DEF t
<1>3. ASSUME NEW m \in PostedMessages PROVE PostsOnce(s, PostMessage(t, m))
  <2>1. PostsOnce(t, PostMessage(t, m))
    BY <1>1, PostMessageOnce
  <2> QED
    BY <1>1, <2>1 DEF PostsOnce
<1>4. PostsOnce(s, t)
  BY <1>1, <1>2 DEF PostsOnce
<1> QED
  BY <1>1, <1>3, <1>4 DEF t

LEMMA HandleDisconnectOnce ==
  ASSUME NEW s \in Worlds, NEW reason \in Nat
  PROVE  PostsOnce(s, HandleDisconnect(s, reason))
<1> DEFINE a == [s.app EXCEPT !.disconnectSeen = TRUE, !.connected = FALSE,
                              !.discReason = reason]
           t == PostMessage([s EXCEPT !.app = a], "wmRDPDisconnected")
<1>1. a \in AppStates
  BY DEF Worlds, AppStates
<1>2. HandleDisconnect(s, reason) = s \/ HandleDisconnect(s, reason) = t
  BY DEF HandleDisconnect, Worlds
<1> HIDE DEF a
<1>3. PostsOnce(s, t)
  BY <1>1, NotedOnce DEF PostedMessages
<1>4. PostsOnce(s, s)
  BY SameSessionItself, RestsPosts DEF Rests
<1> HIDE DEF t
<1> QED
  BY <1>2, <1>3, <1>4

LEMMA PollOnce ==
  ASSUME NEW s \in Worlds, s.ctl.link = "down"
  PROVE  PostsOnce(s, PollConnectionState(s))
<1>1. ConnectedState(s.ctl) = 0
  BY DEF ConnectedState
<1>2. \/ PollConnectionState(s) = HandleDisconnect(s, 0)
      \/ PollConnectionState(s) = s
  BY <1>1 DEF PollConnectionState
<1>3. PostsOnce(s, s)
  BY SameSessionItself, RestsPosts DEF Rests
<1>4. PostsOnce(s, HandleDisconnect(s, 0))
  BY HandleDisconnectOnce
<1> QED
  BY <1>2, <1>3, <1>4

LEMMA NamedEventOnce ==
  ASSUME NEW s \in Worlds, s.ctl.link = "down", NEW e \in Events
  PROVE  PostsOnce(s, OnNamedEvent(s, e))
<1>0. e.name \in EventNames /\ e.arg \in Nat
  BY DEF Events
<1>1. PostsOnce(s, s)
  BY SameSessionItself, RestsPosts DEF Rests
<1>2. CASE e.name = "OnConnected"
  <2> DEFINE a == [s.app EXCEPT !.connected = TRUE, !.everConnected = TRUE]
             t == PostMessage([s EXCEPT !.app = a], "wmRDPConnected")
  <2>1. OnNamedEvent(s, e) = t
    BY <1>2 DEF OnNamedEvent, Worlds
  <2>2. a \in AppStates
    BY DEF Worlds, AppStates
  <2> HIDE DEF a
  <2>3. PostsOnce(s, t)
    BY <2>2, NotedOnce DEF PostedMessages
  <2> QED
    BY <2>1, <2>3
<1>3. CASE e.name = "OnDisconnected"
  <2>1. OnNamedEvent(s, e) = HandleDisconnect(s, e.arg)
    BY <1>3 DEF OnNamedEvent
  <2> QED
    BY <1>0, <2>1, HandleDisconnectOnce
<1>4. CASE e.name \in {"OnLoginComplete", "OnFatalError", "OnLogonError",
                       "OnEnterFullScreenMode"}
  <2> DEFINE a == CASE e.name = "OnLoginComplete" ->
                         [s.app EXCEPT !.loginComplete = TRUE]
                    [] e.name = "OnFatalError" ->
                         [s.app EXCEPT !.fatalError = TRUE]
                    [] e.name = "OnLogonError" ->
                         [s.app EXCEPT !.logonError = TRUE]
                    [] e.name = "OnEnterFullScreenMode" ->
                         [s.app EXCEPT !.fullScreen = TRUE]
  <2>1. OnNamedEvent(s, e) = [s EXCEPT !.app = a]
    BY <1>4 DEF OnNamedEvent, Worlds
  <2>2. a \in AppStates
    BY <1>4 DEF Worlds, AppStates
  <2> HIDE DEF a
  <2> QED
    BY <2>1, <2>2, NotedOnce
<1>5. CASE e.name = "OnLeaveFullScreenMode"
  <2> DEFINE a == [s.app EXCEPT !.fullScreen = FALSE, !.pendingResize = TRUE]
             r == [s EXCEPT !.app = a]
  <2>1. OnNamedEvent(s, e) = ApplyDynamicResize(r)
    BY <1>5 DEF OnNamedEvent, Worlds
  <2>2. a \in AppStates
    BY DEF Worlds, AppStates
  <2> HIDE DEF a
  <2>3. r \in Worlds /\ r.ctl = s.ctl /\ PostsOnce(s, r) /\ r.posted = s.posted
    BY <2>2, NotedOnce DEF Worlds
  <2> HIDE DEF r
  <2>4. PostsOnce(r, ApplyDynamicResize(r))
    BY <2>3, ApplyDynamicResizeRests, RestsPosts
  <2> QED
    BY <2>1, <2>3, <2>4 DEF PostsOnce
<1>6. CASE e.name = "OnRequestContainerMinimize"
  <2> DEFINE w == [s.win EXCEPT !.show = "min", !.moving = FALSE]
             r == [s EXCEPT !.win = w]
  <2>1. OnNamedEvent(s, e) = s \/ OnNamedEvent(s, e) = WmSize(r, "minimized")
    BY <1>6 DEF OnNamedEvent, Worlds
  <2>2. w \in WindowStates
    BY DEF Worlds, WindowStates, Shows
  <2> HIDE DEF w
  <2>3. r \in Worlds /\ r.ctl = s.ctl /\ r.posted = s.posted
    BY <2>2 DEF Worlds
  <2> HIDE DEF r
  <2>4. PostsOnce(r, WmSize(r, "minimized"))
    BY <2>3, WmSizeRests, RestsPosts
  <2> QED
    BY <1>1, <2>1, <2>3, <2>4 DEF PostsOnce
<1>7. CASE e.name = "OnRemoteDesktopSizeChange"
  <2> DEFINE a == [s.app EXCEPT !.session = e.arg]
  <2>1. OnNamedEvent(s, e) = s \/ OnNamedEvent(s, e) = [s EXCEPT !.app = a]
    BY <1>7 DEF OnNamedEvent, Worlds
  <2>2. a \in AppStates
    BY <1>0 DEF Worlds, AppStates
  <2> HIDE DEF a
  <2> QED
    BY <1>1, <2>1, <2>2, NotedOnce
<1>8. CASE e.name \in {"OnConnecting", "OnAutoReconnecting", "OnAutoReconnected"}
  BY <1>1, <1>8 DEF OnNamedEvent
<1> QED
  BY <1>0, <1>2, <1>3, <1>4, <1>5, <1>6, <1>7, <1>8 DEF EventNames

LEMMA OnEventOnce ==
  ASSUME NEW s \in Worlds, s.ctl.link = "down", NEW e \in Events
  PROVE  PostsOnce(s, OnEvent(s, e))
BY NamedEventOnce, PollOnce DEF OnEvent

\* Entering full screen announces no more than it no longer could.
LEMMA EnterFullScreenWaits ==
  ASSUME NEW c \in ControlStates
  PROVE  LET d == EnterFullScreen(c) IN
         d \in ControlStates /\ d.link = c.link /\ Waiting(d) <= Waiting(c)
<1> DEFINE d == EnterFullScreen(c)
<1>1. c.events \in Seq(Events) /\ Len(c.events) \in Nat
  BY DEF ControlStates
<1>2. CASE c.full
  <2>1. d = c
    BY <1>2 DEF EnterFullScreen
  <2>2. Waiting(c) = 2 * Len(c.events)
    BY <1>1, <1>2 DEF Waiting
  <2> QED
    BY <1>1, <2>1, <2>2
<1>3. CASE ~c.full
  <2> DEFINE b == [c EXCEPT !.full = TRUE]
             e == [name |-> "OnEnterFullScreenMode", arg |-> 0]
  <2>1. /\ b \in ControlStates /\ b.full = TRUE /\ b.link = c.link
        /\ b.events = c.events
    BY DEF ControlStates
  <2>2. d = Raise(b, "OnEnterFullScreenMode", 0)
    BY <1>3 DEF EnterFullScreen
  <2> HIDE DEF b, d
  <2>3. /\ d \in ControlStates /\ d.full = b.full /\ d.link = b.link
        /\ d.events = b.events \/ d.events = Append(b.events, e)
        /\ e \in Events
    <3>1. "OnEnterFullScreenMode" \in EventNames /\ 0 \in Nat
      BY DEF EventNames
    <3>2. /\ d \in ControlStates /\ d.full = b.full /\ d.link = b.link
          /\ e \in Events
          /\ b.advised => d.events = Append(b.events, e)
          /\ ~b.advised => d.events = b.events
      BY <2>1, <2>2, <3>1, RaiseFields
    <3> QED
      BY <3>2
  <2> HIDE DEF e
  <2>4. Len(d.events) \in Nat /\ Len(d.events) <= Len(c.events) + 1
    BY <1>1, <2>1, <2>3
  <2>5. d.full = TRUE
    BY <2>1, <2>3
  <2>6. Waiting(d) = 2 * Len(d.events) + 0
    BY <2>5 DEF Waiting
  <2>7. Waiting(c) = 2 * Len(c.events) + 2
    BY <1>3 DEF Waiting
  <2> QED
    BY <1>1, <2>1, <2>3, <2>4, <2>6, <2>7 DEF d
<1> QED
  BY <1>2, <1>3

\* A message read raises at most what entering full screen announces.
LEMMA WmRDPConnectedReads ==
  ASSUME NEW s \in Worlds, s.ctl.link = "down"
  PROVE  LET t == WmRDPConnected(s) IN
         /\ t \in Worlds /\ t.ctl.link = "down" /\ t.posted = s.posted
         /\ Waiting(t.ctl) <= Waiting(s.ctl)
<1> DEFINE c == EnterFullScreen(s.ctl)
           r == [s EXCEPT !.ctl = c]
<1>1. \/ WmRDPConnected(s) = ApplyScale(r)
      \/ WmRDPConnected(s) = ApplyScale(s)
  BY DEF WmRDPConnected, Worlds
<1>2. c \in ControlStates /\ c.link = "down" /\ Waiting(c) <= Waiting(s.ctl)
  BY WorldFields, EnterFullScreenWaits
<1> HIDE DEF c
<1>3. r \in Worlds /\ r.ctl = c /\ r.posted = s.posted
  BY <1>2 DEF Worlds
<1> HIDE DEF r
<1>4. Waiting(s.ctl) <= Waiting(s.ctl)
  BY BacklogType
<1>5. Rests(s, ApplyScale(s)) /\ Rests(r, ApplyScale(r))
  BY <1>2, <1>3, ApplyScaleRests
<1> QED
  BY <1>1, <1>2, <1>3, <1>4, <1>5 DEF Rests, SameSession

LEMMA WmRDPDisconnectedReads ==
  ASSUME NEW s \in Worlds
  PROVE  LET t == WmRDPDisconnected(s) IN
         t.ctl = s.ctl /\ (t.posted = s.posted \/ t.posted = << >>)
<1> DEFINE a == [s.app EXCEPT !.closing = TRUE]
           v == [s EXCEPT !.app = a]
<1>1. WmRDPDisconnected(s) = s \/ WmRDPDisconnected(s) = DestroyWindow(v)
  BY DEF WmRDPDisconnected, Worlds
<1>2. v.ctl = s.ctl
  BY DEF Worlds
<1>3. v \in Worlds
  BY DEF Worlds, AppStates
<1> HIDE DEF a, v
<1>4. DestroyWindow(v).ctl = v.ctl /\ DestroyWindow(v).posted = << >>
  BY <1>3 DEF DestroyWindow, Worlds
<1> QED
  BY <1>1, <1>2, <1>4

\* Closing the window asks nothing of a control without a session.
LEMMA CloseReads ==
  ASSUME NEW s \in Worlds, s.ctl.link = "down", NEW ok \in BOOLEAN
  PROVE  LET t == WmClose(s, ok) IN
         t.ctl = s.ctl /\ (t.posted = s.posted \/ t.posted = << >>)
<1> DEFINE a == [s.app EXCEPT !.closing = TRUE]
           c == IF s.app.connected THEN Disconnect(s.ctl) ELSE s.ctl
           v == [s EXCEPT !.app = a, !.ctl = c]
<1>1. WmClose(s, ok) = v \/ WmClose(s, ok) = DestroyWindow(v)
  BY DEF WmClose, Worlds
<1>2. c = s.ctl
  BY DEF Disconnect
<1>3. a \in AppStates
  BY DEF Worlds, AppStates
<1> HIDE DEF a, c
<1>4. v \in Worlds /\ v.ctl = s.ctl /\ v.posted = s.posted
  BY <1>2, <1>3 DEF Worlds
<1> HIDE DEF v
<1>5. DestroyWindow(v).ctl = v.ctl /\ DestroyWindow(v).posted = << >>
  BY <1>4 DEF DestroyWindow, Worlds
<1> QED
  BY <1>1, <1>4, <1>5

-----------------------------------------------------------------------------
(* Each step after the session.                                            *)

LEMMA BacklogIs == Backlog = BacklogOf(World)
BY WorldIs DEF Backlog, BacklogOf, Waiting

LEMMA BacklogNext == Backlog' = BacklogOf(World')
<1>1. World'.ctl = ctl' /\ World'.posted = posted'
  BY DEF World
<1> QED
  BY <1>1 DEF Backlog, BacklogOf, Waiting

\* An event read is gone, for one message at most.
LEMMA DeliverDrains ==
  ASSUME IInv, ctl.link = "down", DeliverEvent
  PROVE  ctl'.link = "down" /\ Backlog' < Backlog
<1> USE WorldIs
<1> DEFINE q == ctl.events
           c == [ctl EXCEPT !.events = Tail(q)]
           r == [World EXCEPT !.ctl = c]
           t == OnEvent(r, Head(q))
<1>1. /\ World \in Worlds /\ ctl \in ControlStates /\ q \in Seq(Events)
      /\ q # << >> /\ Len(q) \in Nat /\ Len(posted) \in Nat
  BY WorldFields, BacklogType DEF IInv, Safe, DeliverEvent, ControlStates
<1>2. /\ Tail(q) \in Seq(Events) /\ Head(q) \in Events
      /\ Len(Tail(q)) = Len(q) - 1
  BY <1>1
<1>3. Become(t)
  <2>1. [World EXCEPT !.ctl.events = Tail(@)] = r
    BY DEF World
  <2> QED
    BY <2>1 DEF DeliverEvent
<1>4. /\ c \in ControlStates /\ c.link = "down" /\ c.full = ctl.full
      /\ c.events = Tail(q)
  BY <1>1, <1>2 DEF ControlStates
<1> HIDE DEF c
<1>5. r \in Worlds /\ r.ctl = c /\ r.posted = posted
  BY <1>1, <1>4 DEF Worlds
<1> HIDE DEF r
<1>6. PostsOnce(r, t)
  BY <1>2, <1>4, <1>5, OnEventOnce
<1> HIDE DEF t
<1>7. World' = t
  BY <1>3, <1>6, BecomesWorld DEF PostsOnce
<1>8. /\ ctl' = c /\ Len(t.posted) \in Nat /\ Len(t.posted) <= Len(posted) + 1
  BY <1>3, <1>5, <1>6, BacklogType DEF Become, PostsOnce
<1>9. Waiting(c) = Waiting(ctl) - 2 /\ Waiting(ctl) \in Nat
  <2>1. \/ /\ Waiting(ctl) = 2 * Len(q) + 0
           /\ Waiting(c) = 2 * Len(Tail(q)) + 0
        \/ /\ Waiting(ctl) = 2 * Len(q) + 2
           /\ Waiting(c) = 2 * Len(Tail(q)) + 2
    BY <1>4 DEF Waiting
  <2>2. Waiting(ctl) \in Nat
    BY <1>1, BacklogType
  <2> HIDE DEF q
  <2> QED
    BY <1>1, <1>2, <2>1, <2>2
<1>10. Backlog' = Waiting(c) + Len(t.posted) /\ Backlog = Waiting(ctl) + Len(posted)
  BY <1>5, <1>6, <1>7, BacklogIs, BacklogNext DEF BacklogOf, PostsOnce
<1> QED
  BY <1>1, <1>4, <1>8, <1>9, <1>10

\* A message read is gone, for what the control could announce at most.
LEMMA DispatchDrains ==
  ASSUME IInv, ctl.link = "down", DispatchPosted
  PROVE  ctl'.link = "down" /\ Backlog' < Backlog
<1> USE WorldIs
<1> DEFINE r == [World EXCEPT !.posted = Tail(@)]
           t == WmRDPConnected(r)
           u == WmRDPDisconnected(r)
<1>1. /\ World \in Worlds /\ posted \in Seq(PostedMessages) /\ posted # << >>
      /\ Len(posted) \in Nat /\ Waiting(ctl) \in Nat
  BY WorldFields, BacklogType DEF IInv, Safe, DispatchPosted
<1>2. Tail(posted) \in Seq(PostedMessages) /\ Len(Tail(posted)) = Len(posted) - 1
  BY <1>1
<1>3. Become(t) \/ Become(u)
  BY DEF DispatchPosted
<1>4. r \in Worlds /\ r.ctl = ctl /\ r.posted = Tail(posted)
  BY <1>1, <1>2 DEF Worlds
<1> HIDE DEF r
<1>5. /\ t \in Worlds /\ t.ctl.link = "down" /\ t.posted = Tail(posted)
      /\ Waiting(t.ctl) <= Waiting(ctl)
  BY <1>4, WmRDPConnectedReads
<1>6. u.ctl = ctl /\ (u.posted = Tail(posted) \/ u.posted = << >>)
  BY <1>4, WmRDPDisconnectedReads
<1> HIDE DEF t, u
<1>7. Len(<< >>) = 0 /\ Waiting(t.ctl) \in Nat
  BY <1>5, BacklogType
<1>8. Backlog = Waiting(ctl) + Len(posted)
  BY BacklogIs DEF BacklogOf
<1>9. World'.ctl = ctl' /\ World'.posted = posted'
  BY DEF World
<1>10. Backlog' = Waiting(ctl') + Len(posted')
  BY <1>9, BacklogNext DEF BacklogOf
<1>11. CASE Become(t)
  <2>1. ctl' = t.ctl /\ posted' = Tail(posted)
    BY <1>5, <1>11 DEF Become
  <2> QED
    BY <1>1, <1>2, <1>5, <1>7, <1>8, <1>10, <2>1
<1>12. CASE Become(u)
  <2>1. ctl' = ctl /\ (posted' = Tail(posted) \/ posted' = << >>)
    BY <1>6, <1>12 DEF Become
  <2>2. Len(posted) # 0
    BY <1>1
  <2> QED
    BY <1>1, <1>2, <1>7, <1>8, <1>10, <2>1, <2>2
<1> QED
  BY <1>3, <1>11, <1>12

\* The window in another place: its size is noted, and no more.
LEMMA MovesRest ==
  ASSUME World \in Worlds, ctl.link = "down", NEW w \in WindowStates,
         NEW how \in {"minimized", "maximized", "restored"},
         Become(WmSize([World EXCEPT !.win = w], how))
  PROVE  ctl' = ctl /\ posted' = posted
<1> DEFINE v == [World EXCEPT !.win = w]
<1>1. v \in Worlds /\ v.ctl = ctl /\ v.posted = posted
  BY WorldIs DEF Worlds
<1> HIDE DEF v
<1>2. Rests(v, WmSize(v, how))
  BY <1>1, WmSizeRests
<1>3. Become(WmSize(v, how))
  BY DEF v
<1> QED
  BY <1>1, <1>2, <1>3 DEF Rests, SameSession, Become

\* What the user does to the window leaves the queues alone, or drops what was
\* posted along with the window.
LEMMA UserRests ==
  ASSUME IInv, ctl.link = "down", User
  PROVE  ctl' = ctl /\ (posted' = posted \/ posted' = << >>)
<1> USE WorldIs
<1>1. World \in Worlds /\ win \in WindowStates
  BY WorldFields DEF IInv, Safe
<1>2. CASE CloseWindow
  <2>1. PICK ok \in {TRUE, ctl.link # "down"} : Become(WmClose(World, ok))
    BY <1>2 DEF CloseWindow
  <2>2. ok \in BOOLEAN
    OBVIOUS
  <2> QED
    BY <1>1, <2>1, <2>2, CloseReads DEF Become
<1>3. CASE Drag
  <2>1. PICK extent \in Extents \ {win.normal} :
          Become(WmSize([World EXCEPT !.win.normal = extent,
                                      !.win.moving = TRUE], "restored"))
    BY <1>3 DEF Drag
  <2> DEFINE w == [win EXCEPT !.normal = extent, !.moving = TRUE]
  <2>2. /\ w \in WindowStates
        /\ Become(WmSize([World EXCEPT !.win = w], "restored"))
    BY <1>1, <2>1, ConstantsAssumption DEF WindowStates, World
  <2> HIDE DEF w
  <2> QED
    BY <1>1, <2>2, MovesRest
<1>4. CASE EndDrag
  <2> DEFINE w == [win EXCEPT !.moving = FALSE]
             v == [World EXCEPT !.win = w]
  <2>1. Become(ApplyDynamicResize(v))
    BY <1>4 DEF EndDrag, World
  <2>2. w \in WindowStates
    BY <1>1 DEF WindowStates
  <2> HIDE DEF w
  <2>3. v \in Worlds /\ v.ctl = ctl /\ v.posted = posted
    BY <1>1, <2>2 DEF Worlds
  <2> HIDE DEF v
  <2>4. Rests(v, ApplyDynamicResize(v))
    BY <2>3, ApplyDynamicResizeRests
  <2> QED
    BY <2>1, <2>3, <2>4 DEF Rests, SameSession, Become
<1>5. CASE Maximise
  <2> DEFINE w == [win EXCEPT !.show = "max"]
  <2>1. /\ w \in WindowStates
        /\ Become(WmSize([World EXCEPT !.win = w], "maximized"))
    BY <1>1, <1>5 DEF Maximise, WindowStates, Shows, World
  <2> HIDE DEF w
  <2> QED
    BY <1>1, <2>1, MovesRest
<1>6. CASE Restore
  <2> DEFINE w == [win EXCEPT !.show = "normal"]
  <2>1. /\ w \in WindowStates
        /\ Become(WmSize([World EXCEPT !.win = w], "restored"))
    BY <1>1, <1>6 DEF Restore, WindowStates, Shows, World
  <2> HIDE DEF w
  <2> QED
    BY <1>1, <2>1, MovesRest
<1>7. CASE Minimise
  <2> DEFINE w == [win EXCEPT !.show = "min"]
  <2>1. /\ w \in WindowStates
        /\ Become(WmSize([World EXCEPT !.win = w], "minimized"))
    BY <1>1, <1>7 DEF Minimise, WindowStates, Shows, World
  <2> HIDE DEF w
  <2> QED
    BY <1>1, <2>1, MovesRest
<1>8. CASE ChangeDpi
  <2>1. PICK dpi \in Dpis \ {win.dpi}, extent \in Extents \cup {win.normal} :
          Become(WmDpiChanged(World, dpi, extent))
    BY <1>8 DEF ChangeDpi
  <2>2. dpi \in Nat /\ extent \in Nat
    BY <1>1, ConstantsAssumption DEF WindowStates
  <2>3. Rests(World, WmDpiChanged(World, dpi, extent))
    BY <1>1, <2>2, WmDpiChangedRests
  <2> QED
    BY <2>1, <2>3 DEF Rests, SameSession, Become
<1> QED
  BY <1>2, <1>3, <1>4, <1>5, <1>6, <1>7, <1>8 DEF User

\* A control without a session does nothing of its own.
LEMMA ControlRests ==
  ASSUME ctl.link = "down"
  PROVE  ~Control
BY DEF Control, ConnectResolves, LogIn, LogonError, FatalError, LoseLink,
       RegainLink, SessionEnds, DisconnectCompletes, ToggleFullScreen,
       RequestMinimise, ServerResizes

\* The cleanup drops what is still queued.
LEMMA FinishRests ==
  ASSUME IInv, ctl.link = "down", Finish
  PROVE  ctl'.link = "down" /\ Backlog' <= Backlog
<1> USE WorldIs
<1> DEFINE a == [app EXCEPT !.sink = "none", !.names = {},
                           !.exitCode = ExitCode(app)]
           c == [ctl EXCEPT !.advised = FALSE, !.events = << >>]
<1>1. World \in Worlds /\ ctl \in ControlStates
  BY WorldFields DEF IInv, Safe
<1>2. ctl' = c /\ posted' = posted
  BY DEF Finish, Become, Cleanup, World
<1>3. c.link = "down" /\ c.full = ctl.full /\ c.events = << >>
  BY <1>1 DEF ControlStates
<1>4. Waiting(c) <= Waiting(ctl)
  <2>1. Len(ctl.events) \in Nat /\ Len(c.events) = 0
    BY <1>1, <1>3, BacklogType
  <2> HIDE DEF c
  <2>2. \/ /\ Waiting(ctl) = 2 * Len(ctl.events) + 0
           /\ Waiting(c) = 2 * Len(c.events) + 0
        \/ /\ Waiting(ctl) = 2 * Len(ctl.events) + 2
           /\ Waiting(c) = 2 * Len(c.events) + 2
    BY <1>3 DEF Waiting
  <2> QED
    BY <2>1, <2>2
<1>5. Waiting(ctl) \in Nat /\ Len(posted) \in Nat
  BY <1>1, BacklogType
<1>6. World'.ctl = c /\ World'.posted = posted
  BY <1>2 DEF World
<1>7. Waiting(c) \in Nat
  <2>1. Waiting(c) = 2 * 0 + 0 \/ Waiting(c) = 2 * 0 + 2
    BY <1>3 DEF Waiting
  <2> QED
    BY <2>1
<1> HIDE DEF c
<1>8. Backlog' = Waiting(c) + Len(posted) /\ Backlog = Waiting(ctl) + Len(posted)
  BY <1>6, BacklogIs, BacklogNext DEF BacklogOf
<1> QED
  BY <1>2, <1>3, <1>4, <1>5, <1>7, <1>8

\* Queues that are left alone, or emptied, hold no more than before.
LEMMA QuietBacklog ==
  ASSUME IInv, ctl' = ctl, posted' = posted \/ posted' = << >>
  PROVE  Backlog' <= Backlog
<1>1. /\ World \in Worlds /\ Waiting(ctl) \in Nat /\ Len(posted) \in Nat
      /\ Len(<< >>) = 0
  BY WorldIs, BacklogType DEF IInv, Safe
<1>2. World'.ctl = ctl /\ World'.posted = posted'
  BY DEF World
<1>3. /\ Backlog' = Waiting(ctl) + Len(posted')
      /\ Backlog = Waiting(ctl) + Len(posted)
  BY <1>2, WorldIs, BacklogIs, BacklogNext DEF BacklogOf
<1> QED
  BY <1>1, <1>3

\* Once the session is over, what is still to be read is never more than before,
\* and less with everything read (QueuesRunDry).
THEOREM QueuesRunDryTheorem == Spec => QueuesRunDry
<1> DEFINE Drains == /\ ctl'.link = "down"
                     /\ Backlog' <= Backlog
                     /\ DeliverEvent \/ DispatchPosted => Backlog' < Backlog
<1>1. IInv /\ [Next]_vars => [pc = "loop" /\ ctl.link = "down" => Drains]_vars
  <2> SUFFICES ASSUME IInv, [Next]_vars, pc = "loop", ctl.link = "down",
                      ~UNCHANGED vars
               PROVE  Drains
    OBVIOUS
  <2>1. Backlog \in Nat
    BY BacklogIs, BacklogType DEF IInv, Safe
  <2>2. CASE DeliverEvent \/ DispatchPosted
    <3>1. ctl'.link = "down" /\ Backlog' < Backlog
      BY <2>2, DeliverDrains, DispatchDrains
    <3>2. IInv'
      BY NextInv
    <3>3. Backlog' \in Nat
      BY <3>2, BacklogNext, BacklogType DEF IInv, Safe
    <3> QED
      BY <2>1, <3>1, <3>3
  <2>3. CASE ~(DeliverEvent \/ DispatchPosted)
    <3>1. CASE Finish
      BY <2>3, <3>1, FinishRests
    <3>2. CASE User
      BY <2>3, <3>2, UserRests, QuietBacklog
    <3>3. ~(Configure \/ ConfigureFails \/ Show \/ Connect \/ Exited)
      BY DEF Configure, ConfigureFails, Show, Connect, Exited
    <3>4. Finish \/ User
      BY <2>3, <3>3, ControlRests DEF Next, Program
    <3> QED
      BY <3>1, <3>2, <3>4
  <2> QED
    BY <2>2, <2>3
<1> QED
  BY <1>1, Invariance, PTL DEF Spec, QueuesRunDry

-----------------------------------------------------------------------------
(* The end of the loop.                                                     *)

\* A window that is gone has posted the quit message.
Quits(s) == s.win.show = "gone" => s.win.quit

LEMMA DisplayQuits ==
  ASSUME NEW s, NEW t, Display(s, t), Quits(s)
  PROVE  Quits(t)
BY DEF Display, SameSession, Quits

LEMMA DestroyedQuits == ASSUME NEW s \in Worlds PROVE Quits(DestroyWindow(s))
<1>1. DestroyWindow(s).win.quit = TRUE
  BY DEF DestroyWindow, Worlds, WindowStates
<1> QED
  BY <1>1 DEF Quits

LEMMA HandleDisconnectQuits ==
  ASSUME NEW s \in Worlds, Quits(s), NEW reason \in Nat
  PROVE  Quits(HandleDisconnect(s, reason))
<1> DEFINE a == [s.app EXCEPT !.disconnectSeen = TRUE, !.connected = FALSE,
                              !.discReason = reason]
           r == [s EXCEPT !.app = a]
           t == PostMessage(r, "wmRDPDisconnected")
<1>1. r \in Worlds /\ r.win = s.win
  BY DEF Worlds, AppStates
<1>2. HandleDisconnect(s, reason) = s \/ HandleDisconnect(s, reason) = t
  BY DEF HandleDisconnect, Worlds
<1> HIDE DEF r
<1>3. t.win = s.win
  BY <1>1, PostMessageFields DEF PostedMessages
<1> HIDE DEF t
<1> QED
  BY <1>2, <1>3 DEF Quits

LEMMA NamedEventQuits ==
  ASSUME NEW s \in Worlds, Quits(s), NEW e \in Events
  PROVE  Quits(OnNamedEvent(s, e))
<1>0. e.name \in EventNames /\ e.arg \in Nat
  BY DEF Events
<1>1. CASE e.name = "OnConnected"
  <2> DEFINE a == [s.app EXCEPT !.connected = TRUE, !.everConnected = TRUE]
             r == [s EXCEPT !.app = a]
             t == PostMessage(r, "wmRDPConnected")
  <2>1. OnNamedEvent(s, e) = t
    BY <1>1 DEF OnNamedEvent, Worlds
  <2>2. r \in Worlds /\ r.win = s.win
    BY DEF Worlds, AppStates
  <2> HIDE DEF r
  <2>3. t.win = s.win
    BY <2>2, PostMessageFields DEF PostedMessages
  <2> QED
    BY <2>1, <2>3 DEF Quits
<1>2. CASE e.name = "OnDisconnected"
  <2>1. OnNamedEvent(s, e) = HandleDisconnect(s, e.arg)
    BY <1>2 DEF OnNamedEvent
  <2> QED
    BY <1>0, <2>1, HandleDisconnectQuits
<1>3. CASE e.name \in {"OnLoginComplete", "OnFatalError", "OnLogonError",
                       "OnEnterFullScreenMode"}
  <2>1. OnNamedEvent(s, e).win = s.win
    BY <1>3 DEF OnNamedEvent, Worlds
  <2> QED
    BY <2>1 DEF Quits
<1>4. CASE e.name = "OnLeaveFullScreenMode"
  <2> DEFINE a == [s.app EXCEPT !.fullScreen = FALSE, !.pendingResize = TRUE]
             r == [s EXCEPT !.app = a]
  <2>1. OnNamedEvent(s, e) = ApplyDynamicResize(r)
    BY <1>4 DEF OnNamedEvent, Worlds
  <2>2. r \in Worlds /\ r.win = s.win
    BY DEF Worlds, AppStates
  <2> HIDE DEF r
  <2> QED
    BY <2>1, <2>2, ApplyDynamicResizeDisplay, DisplayQuits DEF Quits
<1>5. CASE e.name = "OnRequestContainerMinimize"
  <2> DEFINE w == [s.win EXCEPT !.show = "min", !.moving = FALSE]
             r == [s EXCEPT !.win = w]
  <2>1. OnNamedEvent(s, e) = s \/ OnNamedEvent(s, e) = WmSize(r, "minimized")
    BY <1>5 DEF OnNamedEvent, Worlds
  <2>2. w \in WindowStates /\ w.show = "min"
    BY DEF Worlds, WindowStates, Shows
  <2> HIDE DEF w
  <2>3. r \in Worlds /\ r.win = w
    BY <2>2 DEF Worlds
  <2> HIDE DEF r
  <2>4. Quits(WmSize(r, "minimized"))
    BY <2>2, <2>3, WmSizeDisplay, DisplayQuits DEF Quits
  <2> QED
    BY <2>1, <2>4
<1>6. CASE e.name = "OnRemoteDesktopSizeChange"
  <2>1. OnNamedEvent(s, e).win = s.win
    BY <1>6 DEF OnNamedEvent, Worlds
  <2> QED
    BY <2>1 DEF Quits
<1>7. CASE e.name \in {"OnConnecting", "OnAutoReconnecting", "OnAutoReconnected"}
  BY <1>7 DEF OnNamedEvent
<1> QED
  BY <1>0, <1>1, <1>2, <1>3, <1>4, <1>5, <1>6, <1>7 DEF EventNames

LEMMA OnEventQuits ==
  ASSUME NEW s \in Worlds, Quits(s), NEW e \in Events
  PROVE  Quits(OnEvent(s, e))
<1>1. Quits(PollConnectionState(s))
  <2>1. \/ PollConnectionState(s).win = s.win
        \/ PollConnectionState(s) = HandleDisconnect(s, 0)
    <3>1. CASE ~s.app.disconnectSeen /\ ConnectedState(s.ctl) = 1
      <4>1. PollConnectionState(s)
              = [s EXCEPT !.app.connected = TRUE, !.app.everConnected = TRUE]
        BY <3>1 DEF PollConnectionState
      <4> QED
        BY <4>1 DEF Worlds
    <3>2. CASE ~(~s.app.disconnectSeen /\ ConnectedState(s.ctl) = 1)
      BY <3>2 DEF PollConnectionState
    <3> QED
      BY <3>1, <3>2
  <2>2. Quits(HandleDisconnect(s, 0))
    BY HandleDisconnectQuits
  <2> QED
    BY <2>1, <2>2 DEF Quits
<1> QED
  BY <1>1, NamedEventQuits DEF OnEvent

\* The messages, and the close.
LEMMA MessagesQuit ==
  ASSUME NEW s \in Worlds, Quits(s), NEW ok \in BOOLEAN
  PROVE  /\ Quits(WmRDPConnected(s)) /\ Quits(WmRDPDisconnected(s))
         /\ Quits(WmClose(s, ok))
<1>1. Quits(WmRDPConnected(s))
  <2> DEFINE r == [s EXCEPT !.ctl = EnterFullScreen(s.ctl)]
  <2>1. \/ WmRDPConnected(s) = ApplyScale(r)
        \/ WmRDPConnected(s) = ApplyScale(s)
    BY DEF WmRDPConnected, Worlds
  <2>2. EnterFullScreen(s.ctl) \in ControlStates
    BY WorldFields, EnterFullScreenWaits
  <2>3. r \in Worlds /\ r.win = s.win
    BY <2>2 DEF Worlds
  <2> HIDE DEF r
  <2> QED
    BY <2>1, <2>3, ApplyScaleDisplay, DisplayQuits DEF Quits
<1>2. Quits(WmRDPDisconnected(s))
  <2> DEFINE v == [s EXCEPT !.app.closing = TRUE]
  <2>1. WmRDPDisconnected(s) = s \/ WmRDPDisconnected(s) = DestroyWindow(v)
    BY DEF WmRDPDisconnected
  <2>2. v \in Worlds
    BY DEF Worlds, AppStates
  <2> HIDE DEF v
  <2> QED
    BY <2>1, <2>2, DestroyedQuits
<1>3. Quits(WmClose(s, ok))
  <2> DEFINE a == [s.app EXCEPT !.closing = TRUE]
             c == IF s.app.connected THEN Disconnect(s.ctl) ELSE s.ctl
             v == [s EXCEPT !.app = a, !.ctl = c]
  <2>1. WmClose(s, ok) = v \/ WmClose(s, ok) = DestroyWindow(v)
    BY DEF WmClose, Worlds
  <2>2. a \in AppStates /\ c \in ControlStates
    BY DEF Worlds, AppStates, Disconnect, ControlStates, Links
  <2> HIDE DEF a, c
  <2>3. v \in Worlds /\ v.win = s.win
    BY <2>2 DEF Worlds
  <2> HIDE DEF v
  <2> QED
    BY <2>1, <2>3, DestroyedQuits DEF Quits
<1> QED
  BY <1>1, <1>2, <1>3

LEMMA MovesQuit ==
  ASSUME World \in Worlds, NEW w \in WindowStates, w.show # "gone",
         NEW how \in {"minimized", "maximized", "restored"},
         Become(WmSize([World EXCEPT !.win = w], how))
  PROVE  Quits(World')
<1> DEFINE v == [World EXCEPT !.win = w]
<1>1. v \in Worlds /\ v.win = w
  BY DEF Worlds
<1> HIDE DEF v
<1>2. Display(v, WmSize(v, how))
  BY <1>1, WmSizeDisplay
<1>3. Quits(WmSize(v, how)) /\ WmSize(v, how) \in Worlds
  BY <1>1, <1>2, DisplayQuits, DisplayWorld DEF Quits
<1> QED
  BY <1>3, BecomesWorld DEF v

LEMMA UserQuits ==
  ASSUME World \in Worlds, Quits(World), User
  PROVE  Quits(World')
<1> USE WorldIs
<1>1. win \in WindowStates
  BY WorldFields
<1>0. ASSUME NEW t, t.win \in WindowStates, Become(t), Quits(t)
      PROVE  Quits(World')
  <2>1. World'.win = win'
    BY DEF World
  <2> QED
    BY <1>0, <2>1 DEF Become, Quits
<1>2. CASE CloseWindow
  <2>1. PICK ok \in {TRUE, ctl.link # "down"} : Become(WmClose(World, ok))
    BY <1>2 DEF CloseWindow
  <2>2. ok \in BOOLEAN
    OBVIOUS
  <2>3. Quits(WmClose(World, ok))
    BY <2>2, MessagesQuit
  <2>4. World'.win = WmClose(World, ok).win
    BY <2>1 DEF Become, World
  <2> QED
    BY <2>3, <2>4 DEF Quits
<1>3. CASE Drag
  <2>1. PICK extent \in Extents \ {win.normal} :
          Become(WmSize([World EXCEPT !.win.normal = extent,
                                      !.win.moving = TRUE], "restored"))
    BY <1>3 DEF Drag
  <2> DEFINE w == [win EXCEPT !.normal = extent, !.moving = TRUE]
  <2>2. /\ w \in WindowStates /\ w.show = win.show
        /\ Become(WmSize([World EXCEPT !.win = w], "restored"))
    BY <1>1, <2>1, ConstantsAssumption DEF WindowStates, World
  <2>3. win.show = "normal"
    BY <1>3 DEF Drag
  <2> HIDE DEF w
  <2> QED
    BY <2>2, <2>3, MovesQuit
<1>4. CASE EndDrag
  <2> DEFINE w == [win EXCEPT !.moving = FALSE]
             v == [World EXCEPT !.win = w]
  <2>1. Become(ApplyDynamicResize(v)) /\ win.show # "gone"
    BY <1>4 DEF EndDrag, WindowThere, World
  <2>2. w \in WindowStates /\ w.show = win.show
    BY <1>1 DEF WindowStates
  <2> HIDE DEF w
  <2>3. v \in Worlds /\ Quits(v)
    BY <2>1, <2>2 DEF Worlds, Quits
  <2> HIDE DEF v
  <2>4. Quits(ApplyDynamicResize(v)) /\ ApplyDynamicResize(v) \in Worlds
    BY <2>3, ApplyDynamicResizeDisplay, DisplayQuits, DisplayWorld
  <2> QED
    BY <2>1, <2>4, BecomesWorld
<1>5. CASE Maximise
  <2> DEFINE w == [win EXCEPT !.show = "max"]
  <2>1. /\ w \in WindowStates /\ w.show # "gone"
        /\ Become(WmSize([World EXCEPT !.win = w], "maximized"))
    BY <1>1, <1>5 DEF Maximise, WindowStates, Shows, World
  <2> HIDE DEF w
  <2> QED
    BY <2>1, MovesQuit
<1>6. CASE Restore
  <2> DEFINE w == [win EXCEPT !.show = "normal"]
  <2>1. /\ w \in WindowStates /\ w.show # "gone"
        /\ Become(WmSize([World EXCEPT !.win = w], "restored"))
    BY <1>1, <1>6 DEF Restore, WindowStates, Shows, World
  <2> HIDE DEF w
  <2> QED
    BY <2>1, MovesQuit
<1>7. CASE Minimise
  <2> DEFINE w == [win EXCEPT !.show = "min"]
  <2>1. /\ w \in WindowStates /\ w.show # "gone"
        /\ Become(WmSize([World EXCEPT !.win = w], "minimized"))
    BY <1>1, <1>7 DEF Minimise, WindowStates, Shows, World
  <2> HIDE DEF w
  <2> QED
    BY <2>1, MovesQuit
<1>8. CASE ChangeDpi
  <2>1. PICK dpi \in Dpis \ {win.dpi}, extent \in Extents \cup {win.normal} :
          Become(WmDpiChanged(World, dpi, extent))
    BY <1>8 DEF ChangeDpi
  <2>2. dpi \in Nat /\ extent \in Nat
    BY <1>1, ConstantsAssumption DEF WindowStates
  <2>3. Display(World, WmDpiChanged(World, dpi, extent))
    BY <2>2, WmDpiChangedDisplay
  <2> QED
    BY <2>1, <2>3, DisplayQuits, DisplayWorld, BecomesWorld
<1> QED
  BY <1>2, <1>3, <1>4, <1>5, <1>6, <1>7, <1>8 DEF User

\* What the program does by itself.
LEMMA ProgramQuits ==
  ASSUME World \in Worlds, Quits(World), Program
  PROVE  Quits(World')
<1> USE WorldIs
<1>1. win \in WindowStates /\ ctl \in ControlStates
  BY WorldFields
<1>2. World'.win = win'
  BY DEF World
<1>3. CASE Configure
  <2>1. win'.show = win.show /\ win'.quit = win.quit
    BY <1>1, <1>3 DEF Configure, WindowStates
  <2> QED
    BY <1>2, <2>1 DEF Quits
<1>4. CASE ConfigureFails \/ Connect \/ Finish
  <2>1. win' = win
    BY <1>4 DEF ConfigureFails, Connect, Finish, Become, Cleanup, World
  <2> QED
    BY <1>2, <2>1 DEF Quits
<1>5. CASE Show
  <2> DEFINE c == IF FullScreen /\ ctl.early THEN EnterFullScreen(ctl) ELSE ctl
             w == [win EXCEPT !.show = "normal"]
             r == [World EXCEPT !.ctl = c, !.win = w]
  <2>1. Become(WmSize(r, "restored"))
    BY <1>5 DEF Show, World
  <2>2. c \in ControlStates
    BY <1>1, EnterFullScreenWaits
  <2>3. w \in WindowStates /\ w.show = "normal"
    BY <1>1 DEF WindowStates, Shows
  <2> HIDE DEF c, w
  <2>4. r \in Worlds /\ r.win = w
    BY <2>2, <2>3 DEF Worlds
  <2> HIDE DEF r
  <2>5. Quits(WmSize(r, "restored")) /\ WmSize(r, "restored") \in Worlds
    BY <2>3, <2>4, WmSizeDisplay, DisplayQuits, DisplayWorld DEF Quits
  <2> QED
    BY <2>1, <2>5, BecomesWorld
<1>6. CASE DeliverEvent
  <2> DEFINE q == ctl.events
             c == [ctl EXCEPT !.events = Tail(q)]
             r == [World EXCEPT !.ctl = c]
  <2>1. q \in Seq(Events) /\ q # << >>
    BY <1>1, <1>6 DEF DeliverEvent, ControlStates
  <2>2. Tail(q) \in Seq(Events) /\ Head(q) \in Events
    BY <2>1
  <2>3. Become(OnEvent(r, Head(q)))
    BY <1>6 DEF DeliverEvent, World
  <2>4. c \in ControlStates
    BY <1>1, <2>2 DEF ControlStates
  <2> HIDE DEF c, q
  <2>5. r \in Worlds /\ r.win = win
    BY <2>4 DEF Worlds
  <2> HIDE DEF r
  <2>6. Quits(OnEvent(r, Head(q)))
    BY <2>2, <2>5, OnEventQuits DEF Quits
  <2>7. win' = OnEvent(r, Head(q)).win
    BY <2>3 DEF Become
  <2> QED
    BY <1>2, <2>6, <2>7 DEF Quits
<1>7. CASE DispatchPosted
  <2> DEFINE r == [World EXCEPT !.posted = Tail(@)]
  <2>1. win' = WmRDPConnected(r).win \/ win' = WmRDPDisconnected(r).win
    BY <1>7 DEF DispatchPosted, Become
  <2>2. Tail(posted) \in Seq(PostedMessages)
    BY <1>7, WorldFields, TailType DEF DispatchPosted
  <2>3. r \in Worlds /\ r.win = win
    BY <2>2 DEF Worlds
  <2> HIDE DEF r
  <2>4. Quits(WmRDPConnected(r)) /\ Quits(WmRDPDisconnected(r))
    BY <2>3, MessagesQuit DEF Quits
  <2> QED
    BY <1>2, <2>1, <2>4 DEF Quits
<1> QED
  BY <1>3, <1>4, <1>5, <1>6, <1>7 DEF Program

QuitPosted == win.show = "gone" => win.quit

LEMMA QuitsInvariance == Spec => [](IInv /\ QuitPosted)
<1>1. Init => QuitPosted
  BY DEF Init, QuitPosted
<1>2. IInv /\ QuitPosted /\ [Next]_vars => QuitPosted'
  <2> SUFFICES ASSUME IInv, Quits(World), [Next]_vars PROVE Quits(World')
    <3>1. World.win = win /\ World'.win = win'
      BY DEF World
    <3> QED
      BY <3>1 DEF Quits, QuitPosted
  <2>1. World \in Worlds
    BY DEF IInv, Safe
  <2>2. CASE Control \/ Exited \/ UNCHANGED vars
    <3>1. win' = win
      BY <2>2 DEF Control, ConnectResolves, LogIn, LogonError, FatalError,
                  LoseLink, RegainLink, SessionEnds, DisconnectCompletes,
                  ToggleFullScreen, RequestMinimise, ServerResizes,
                  ControlMoves, Exited, vars
    <3> QED
      BY <3>1 DEF Quits, World
  <2> QED
    BY <2>1, <2>2, UserQuits, ProgramQuits DEF Next
<1> QED
  BY <1>1, <1>2, InitInv, NextInv, PTL DEF Spec

\* A window that is gone has the quit message posted, so that the loop can only
\* end; and with everything read, a session whose end has a name has closed the
\* window, or waits for the close it has begun.  With QueuesRunDryTheorem this is
\* all that EndedSessionEndsProgram and GoneWindowEndsProgram need beside the
\* fairness of the loop.
THEOREM ReadQueuesEndLoop ==
  Spec => [](pc = "loop" =>
               /\ win.show = "gone" => win.quit
               /\ /\ "OnDisconnected" \in app.names /\ ctl.link = "down"
                  /\ ctl.events = << >> /\ posted = << >>
                  => app.closing \/ win.show = "gone")
<1> DEFINE Read == /\ "OnDisconnected" \in app.names /\ ctl.link = "down"
                    /\ ctl.events = << >> /\ posted = << >>
           Loop == pc = "loop" => /\ win.show = "gone" => win.quit
                                  /\ Read => app.closing \/ win.show = "gone"
<1>1. IInv /\ QuitPosted => Loop
  <2> SUFFICES ASSUME IInv, QuitPosted, pc = "loop"
               PROVE  /\ win.show = "gone" => win.quit
                      /\ Read => app.closing \/ win.show = "gone"
    OBVIOUS
  <2>1. win.show = "gone" => win.quit
    BY DEF QuitPosted
  <2>2. ASSUME Read PROVE app.closing \/ win.show = "gone"
    <3>1. DOMAIN ctl.events = {} /\ DOMAIN posted = {}
      BY <2>2
    <3>2. app.disconnectSeen
      BY <2>2, <3>1, WorldIs DEF IInv, Safe, Known, Holds
    <3> QED
      BY <3>1, <3>2, WorldIs DEF IInv, Safe, Reaches
  <2> QED
    BY <2>1, <2>2
<1> QED
  BY <1>1, QuitsInvariance, PTL
=============================================================================
