# mymstsc in TLA+

`mymstsc` starts a Remote Desktop session by hosting the Windows client control
(`mstscax.dll`) in a window of its own. The program is one thread that pumps
window messages; the control is a COM object that lives on the same thread,
calls back into the program and goes its own way with the server. This
directory models the program's own logic: how a session is started, followed,
resized, closed and reported. Every definition names, by `map` in
`PROJECT.json`, the lines of the source it stands for.

## The system

| part | state | operations | meets |
|---|---|---|---|
| session host (`app.go`) | the `App` struct: connected, everConnected, fullScreen, scaleApplied, disconnectSeen, closing, pendingResize, session size, exit code | `Run`, `wndProc`, `onEvent`, `handleDisconnect`, `pollConnectionState`, `applyScale`, `applyDynamicResize`, `reportOutcome`, `cleanup` | the control (calls), the sink (callbacks), its window (messages, also to itself) |
| control wrapper (`control.go`) | the COM references, `inPlaceDone` | create, embed, advise, session calls, close | the control, the type library, the site |
| event sink (`sink.go`) | registry, connection point, cookie | advise, unadvise, Invoke, dispose | the control calls it; it calls `onEvent` |
| container site (`olesite.go`) | registry, active object | callbacks, dispose | the control calls it |
| display arithmetic (`dpi.go`, `resolveSize`) | none | DPI to scale factors, screen to session size | session host |
| configuration (`cli.go`, `rdpfile.go`, `config.go`) | `Config` | parse, overlay, validate | start-up |
| settings writer (`apply.go`) | warnings | write each setting to the first place that takes it | control wrapper |
| type library reader (`typelib.go`) | type infos | coclasses, event interface, member names, `tiInvoke` | control wrapper |
| late binding (`dispatch.go`, `variant.go`, `com.go`) | none between calls; VARIANTs, BSTRs and EXCEPINFO within one | put, get and call a member by name, fetch an interface by its revisions | control wrapper; it calls the control |

Hard to get right here: three queues (window messages, posted messages, events)
are met in an order nobody chose; the flags of `App` are copies of facts the
control has already moved on from; the window, the session and the sink end in
any order; sizes and scale factors cross with the server's; set-up may fail
at every step with part of it done; a setting has up to five sources and up
to three names, on a control of which only some of the names exist; and one
write is three nested loops of calls into COM, each with early returns that must
give back what has been handed out so far.

What makes the parts correct: the end of a session is noticed, recorded once and
turned into the right exit status, and a close ends the program (session host);
sizes and factors are legal and follow window and monitor (display arithmetic,
session host); every reference goes back inside the apartment (control wrapper,
sink, site, type library reader); each option comes from the source that is meant to win
(configuration); each setting is written or the user told (settings writer); and
a value is written once, through the first place that takes it, with nothing
leaked on the way (late binding).

## Modules

* `Geometry`: the arithmetic of sizes and scale factors as pure operators.
* `Monitors`: a window that starts on some screen and moves over monitors; what
  the operators of `Geometry` promise whoever uses them.
* `App`: the session host with its window, the control and the user. `wndProc`,
  `onEvent` and what they call are functions from the world a handler finds to
  the world it leaves (`World`), so one handler calls another as in the code; an
  action is the arrival of one message, event or gesture. It uses `Geometry`.
* `Session`: what the program promises whoever starts it: one session, never
  resumed after its end, and an exit status that tells whether there was one.
  `App` implements it under the mapping `SessionView` (property
  `ImplementsSession`).
* `OleHost`: what `Run` takes and gives back, as a ledger: the apartment, the
  type library, the references to the control, the sink on its connection point,
  the container site and what the control holds of it. Set-up may fail at every
  step, the clean-up starts from whatever has been taken, and the control calls
  the site back from inside our calls. It also chooses the coclass and the event
  interface, whose searches hold references on the way. `App` starts where its
  set-up ends and ends where its clean-up starts; the two share no state.
* `Config`: the options of a connection, the vocabulary of `.rdp` files and of the
  command line, and `Validate`.
* `Settings`: from file, switches, environment and console to the properties of
  the control; it uses `Config`. It ends before `App` starts, in the part of
  `Run` that `OleHost` calls `ApplySettings`, and shares no state with them.
* `Dispatch`: one request to the control after another, call by call: `setAny`
  with its paths, the revisions of a settings interface, the non-scriptable
  interfaces, and `invokeID` and `tiInvoke` with the strings, results and
  references they hold. It is the inside of one step of `Settings` (`WriteSetting`,
  `WarnSetting`, `WriteOverride`) and of the session calls of `App`, which take
  the outcome of a call as given.
* `Writing`: what `setAny` and the helpers of `disp` promise of a request: the
  first path the control takes is written, it alone, and the error is that of the
  last path when there is none. `Dispatch` implements it (`ImplementsWriting`),
  with what the control says to a path (`Verdict`) for `verdict`.
* `MCApp`, `MCMonitors`, `MCOleHost`, `MCSettings`, `MCDispatch`: instances for
  TLC.
* `GeometryProofs`, `MonitorsProofs`, `AppProofs`, `NewsProofs`, `OleHostProofs`,
  `SettingsProofs`, `DispatchProofs`: lemmas and theorems; `LeastNumbers`: the
  least number principle two of them use.

Operators whose comment starts with "Mutant" are wrong versions of the
definition that follows, kept to show that a property notices them.

### How App corresponds to the code

| code | model |
|---|---|
| `App` struct | `app` (window and control handles become `win`, `ctl`) |
| `Run` | `pc` with `Configure`, `ConfigureFails`, `Show`, `Connect`, `Finish` |
| `wndProc` | `WmSize`, `EndDrag`, `WmDpiChanged`, `WmRDPConnected`, `WmRDPDisconnected`, `WmClose`, `DestroyWindow` |
| messages posted to the window | `posted`, a queue the window takes with it when it is destroyed |
| `cbSinkInvoke`, `onEvent` | `DeliverEvent`, `OnEvent`, `OnNamedEvent` |
| events raised by the control | `ctl.events`, a queue |

### How OleHost corresponds to the code

| code | model |
|---|---|
| `Run`, `newRDPControl`, `Embed` | `pc` and one action per call into COM |
| `rdpControl`, `eventSink.cp`, `oleSite.activeObject` | `kept`, the pointers that are not nil |
| AddRef, QueryInterface, Release | `owed`, the references taken and not released |
| `siteRegistry`, `sinkRegistry`, `dispose` | `site`, `sink` |
| what was passed to SetClientSite, Advise, GetWindowContext | `known`, what the control holds of us |
| `cleanup`, `rdpControl.Close`, `OleUninitialize` | `DisposeSink` to `Uninitialise` |
| `rdpCoclasses`, `newRDPControl`'s loop | `Precedes`, `ChooseCoclasses`, `CreateInstance` |
| `DefaultSource` | `LookAtImpl`, `NoDefault`, `NoDescription` |

References taken and released within one function are left out, as are the
site's own count, which nothing reads, and `mstscax.dll`, which stays loaded on
purpose. The control is assumed to honour `Unadvise` and `SetClientSite(NULL)`,
and to forget everything when its last reference goes; it need not honour
anything else, and may call the site back at any time until then.

### How Settings corresponds to the code

| code | model |
|---|---|
| `Config`, nil and zero values | `cfg`, a function on the options mentioned; `Given` |
| `readRDPFile`, one `rdpEntry` | `in.file`, one record per line, `ok` if it parses |
| `applyRDPFile`'s loop and what follows it | `ReadSetting`, `ReadPrompt`, `ReadScreenMode`, `ReadPerformance`, `SkipLine`; `EndFile` |
| `parseArgs`, its two passes | `FindFile`; `SkipFile` and one `Switch...` action per kind of switch |
| `parseArgs`, the passwords at its end | `EndSwitches`, `ReadPasswords` |
| `run`, `Validate` | `Validate`, `Valid`, `Derived` |
| `applySettings`, `applyGateway`, in order | `Order`, a table of settings with their names |
| the conditions around each call of `set` and `must` | `Wanted`, `Always`, `Must`, `Completed` |
| `setAny` | `IsTaker`, `Put` |
| `set`, `must` | `WriteSetting`, `WarnSetting`, `FailSetting` |
| the loop over the overrides | `WriteOverride` |

Text is taken as parsed: a line or switch is a key, a value, what the code
splits off the value, and whether it parses; which numbers are out of range is
the constant `OutOfRange`. Of a property of the control the model records who
wrote it, not the value. A control is a set of properties it lacks and a set
it refuses the value of; the versions of an interface are not told apart.
Spellings of one switch, and of one path, are one.

### How Dispatch corresponds to the code

| code | model |
|---|---|
| `setAny`'s loop and `lastErr`; put, call, getInt, callString with one path | `at`, `lastErr`, `PathFails`; `request.kind` |
| `target`, `Advanced`, `Secured`, `Transport` | `FindTarget`; `cached` |
| `subAny`'s loop over `versionedNames` | `rev`, `RevisionFails` |
| `setNonScriptable`'s loop | `turn`, `inst`, `inner`, `FindInstance`, `TurnFails`, `BackInTurn` |
| `memberID`, `tiMemberID` | `FindMember` |
| `newVariant` for each argument and its failure | `Convert`, `ConvertFails` |
| `Invoke` of the two interfaces, `EXCEPINFO` | `Invoke`, `InvokeFails`, `FreeException` |
| the deferred `releaseVariant` | `ReleaseArguments` |
| what `put`, `call`, `getInt`, `stringWith`, `sub` do with the result | `BackInRequest`, `BackInFetch` |
| AddRef, Release, `SysAllocString`, `SysFreeString`, `VariantClear` | `owed`, how often each thing was handed out and not given back |

A control is what it hands out when a revision is fetched (an object, something
else, a refusal, or no such member), which non-scriptable interfaces it has, and
what each object answers to each member. It may come to answer otherwise
between requests, as members are read-only during a session, but not within one.
A result is nothing, an integer, a string or an object. Handlers that run inside
a call, and make requests of their own, are left out: they touch neither the
caches nor the locals of the request they interrupt.

Two things are assumed of the program's requests (`RequestsAssumption`) and of
the control, and are true of every call in the source: no call with several
arguments has a string among them, as the clean-up of `invokeID` and `tiInvoke`
counts from the wrong end (`dispatch.go:60`, `typelib.go:275`: slots are filled
from the last and given back from the first); and a property put through type
information has no result, as `setNonScriptable` drops it (`control.go:334`).

### Abstractions of App

One extent stands for width and height, which the code treats
alike. The table of event names (`memberNames`, which skips each member it cannot
read, `typelib.go:239`) is any set of names, `app.names`, fixed when the sink is
advised; each event is looked up in it when it arrives (`sink.go:155`), and one
that is not there polls (`app.go:550`), whatever the others do. Events are queued
also where the control may raise them inside a call. A Connected property always
can be read: the -1 of `control.go:405`, on which a poll does nothing, is left
out, so nothing is said of a session whose end only a poll could notice and whose
last poll fails. `OnRequestGoFullScreen` and `OnRequestLeaveFullScreen` share a branch
with the events that are modelled. The control is an environment: its revisions
(`Accepts`) are those the code's own fall-backs distinguish.

## Runs

| run | question | result |
|---|---|---|
| `App_lifecycle` | is the end of a session ever lost, misreported or left hanging, do the queues run dry once it is over, and is the recorded full-screen mode the control's? | holds, the mode where the control honours the early request |
| `App_display` | do crossing resizes, DPI changes and announcements leave size and scale right? | holds |
| `OleHost` | does every way through set-up and clean-up give back what it took, in an order that leaves no dangling pointer, and use the best coclass and event source? | holds |
| `Settings` | does each option come from the source that should win, and is each setting written or warned about? | holds |
| `Dispatch` | is a value written once and in the first place that takes it, with everything given back, whatever fails on the way? | holds |
| `Monitors_auto` | are sizes and factors legal, and nearest? | holds |
| `App_close` | does a close end the program (`app.go:382`)? | violated |
| `App_nosink` | is the end noticed without a sink (`control.go:110`)? | violated |
| `App_exitzero` | is status 0 a normal end (README, line 84)? | violated |
| `App_ignored` | is full screen repeated for a control that ignored it (`app.go:357`)? | violated |
| `App_dpi` | does the scale follow the monitor (README, lines 207-208)? | violated |
| `App_restore` | does the session follow a restore (`app.go:310`)? | violated |

Bounds. What the program and the control do of themselves is unbounded; outside
steps (closes, gestures, DPI changes, server resizes, toggles, reconnections,
logon and fatal errors) have `Budgets`, one of which a behaviour spends. Two closes are needed, as the
first may leave the program waiting; two gestures, one DPI change, one server
resize and one toggle are enough for each pair of them to cross, and the state
after a crossing is again one the next gesture could start from. The extents
are one below the minimum of 200, one odd one, and one only a server gives; the
monitors are of 96, 120 and 144 DPI. `Monitors_auto` takes every DPI near a
rounding or clamping point and screens on both sides of each rule.

The tables of event names in `App_lifecycle` (`LifecycleTables`) are: all; all but
`OnAutoReconnecting` and `OnLoginComplete`, so that events without a name poll in
the middle of a session and ahead of a queued end; all but `OnDisconnected` and
`OnLeaveFullScreenMode`, so that the end itself is only polled; and none. The
other runs have every name, `App_nosink` no sink. `ReasonIsTheControls` therefore
allows the 0 of a poll where a name is missing, and `EndRecordedOnce` says that
the `OnDisconnected` which then follows changes nothing.

`OleHost` has four coclasses, which differ in class, in safety and, two of them, in
nothing but their version; each subset of them may be creatable; `CoclassName` not given, given, or misspelt;
and every list of up to two implemented interfaces, and of three that begin
with a source, which is where the search has something to release. Nothing else
in it is bounded.

`Settings` groups its inputs by subject: every file of up to three address
lines (eight kinds) or of up to three lines about screen and performance (seven
kinds), files of up to two lines and command lines of up to five arguments for
the passwords, with and without environment and console, and command lines of
up to five arguments on three controls that lack and refuse different
properties. Three lines are enough for a line, its rival and a repetition in
every order; two further overrides of one property suffice for the last to
stand. Each input is a run of its own, so nothing else is bounded.

`Dispatch` has two revisions of the advanced settings and one of the others (12,
5 and 5 in the code), two non-scriptable interfaces, calls of up to two arguments
(seven in the code), five builds of a control and, on each, every way in which one
object answers otherwise than the rest. Two is the number at which each loop has
a first, a next and a last turn; longer loops are the theorems'. The six requests
have paths of each kind in each place, and after any of them any other may
follow.

What `Settings` shows beside its properties: when the control refuses the
password the warning says "Windows will ask for credentials instead"
(`apply.go:204`), but the prompt is asked for only when there is no password
(`apply.go:211`). No property claims it.

Where a run holds only in part, on purpose: `App_display` has no 96 DPI monitor
and no reconnection, and `App_lifecycle` no control that ignores the early
request, nor a table that names `OnConnected` but not what may come before it. With
such a table (all names but `OnConnecting` and `OnEnterFullScreenMode`, say) two
polls can run ahead of a queued `OnConnected`, the first to see the session up and
the second to see it ended; `OnConnected` then sets `connected` again
(`app.go:495`), so that `NoStaleConnection` and `ImplementsSession` fail, and nothing
else does. With a 96 DPI monitor `ScaleFollowsMonitor` fails (`App_dpi`). It also
fails when a DPI change meets a session that is being reestablished: the call
is refused and the scale marked as applied (`app.go:449`). A resize made before
the session is up is dropped, not postponed (`app.go:461`).

`SizeFollowsWindow` fails in a second way, with drags alone, which `App_restore` is
too small to show: after two resizes the announcement of the first is read and
recorded (`app.go:543`) while that of the second is still queued; a third drag, back
to the first size, then seems to ask for nothing (`app.go:467`), and the remote
desktop keeps the second. `SessionSizeKnown` says only that the record is right
once everything is read. A theorem about the size would have to
assume that no resize starts before the last one has been announced and read.

What three properties leave open. `QueuesRunDry` says nothing of a close that waits
(`App_close`): the queues are empty and the window stays. `WrittenOrWarned` takes
any accepted override of a property as having written it, also when the setting
itself was refused. In `Writing` a path is written once, through whichever of its
interfaces.

Fairness. One thread keeps pumping, so the start-up, the delivery of a queued
event, the dispatch of a posted message and the end of the loop are weakly fair;
so are the control's answer to Connect and to Disconnect. Weak fairness is
enough: none of these is ever disabled by another step except for good. The
user and the server owe nothing. In `Dispatch` the steps of a request are weakly
fair (`Proceed`): calls into COM return.

## Proofs

`tlapm` checks every theorem; assumptions are those on the constants
(`ConstantsAssumption`, `MonitorsAssumption`, `LibraryAssumption`,
`InputsAssumption`, `LineBitAssumption`, `DispatchAssumption`,
`RequestsAssumption`) and one on the table of settings (`OrderAssumption`: no
property has two names in it), which the runs also evaluate.

* `MonitorsProofs`: the invariants of `Monitors` and its action property, for
  every DPI and screen. They follow from `GeometryProofs`, which shows what each
  operator returns: bounds of the clamp, the maximum of the device buckets,
  rounding by division with remainder, parity.
* `AppProofs`: `TypeOK`, `NoLostDisconnect`, `DisconnectReachesWindow` and
  `ExitCodeFaithful` for every configuration and every budget. The inductive
  invariant `IInv` adds to them what ties the two sides together: what the
  program believes (`Truthful`: once it says it was connected the control was;
  each queued event was raised for a reason) and where the news of the end is
  (`Known`, `Reaches`: while the control is down the event is queued or the end
  recorded; once recorded the message is posted, or closing, or the window is
  gone). `ExitCodeFaithful` alone is not inductive: it needs what queued events
  say of the control. The display handlers change nothing of this (`SameSession`),
  which is shown once per handler; the rest is one lemma per handler and one
  step per action.

* `NewsProofs`: the other properties of `App` and the refinement of `Session`,
  from a second invariant, `News`. What the program believes of the control may
  be old, but never without a cure on its way: each of the size, the mode and
  the life of the session is either known to the program or told by the latest
  queued event about it (`SizeTold`, `ModeTold`, `Latest`), and the end is the
  last news of a session's life. A handler that reads an event, a handler that
  makes the control raise one, and the two at once (a resize answered inside a
  handler) keep this. `SessionSizeKnown` and `NoStaleConnection`
  are the case in which the queue holds no such event;
  `DesktopSizeLegal` needs that a size told by the control is a size that was
  legal. With `News` every step of `App` is one of `Session` or a stutter. An event
  without a name tells nothing, so size and mode are claimed only where theirs
  have names, and the end is known by its event or by a poll: `ReasonIsTheControls`
  and `EndRecordedOnce` are proved for every table of names. `NoStaleConnection`
  and `ImplementsSession` need `Orderly` tables, in which `OnConnected` has a name
  only if the events that may come before it have (`Early`): without it they fail,
  as said above. `Early` also holds the announcement of a size, for which the
  proof has a use; the theorems do not cover a table that lacks that name alone.
  `FullScreenTrackedTheorem` assumes that no control ignores the early request
  for full screen (`FullScreen => EarlyModes \subseteq {TRUE}`): `App_ignored`
  shows that the hypothesis cannot go.

  The scale (`ScaleFollowsMonitorTheorem`) has an invariant of its own, `ScaleInv`:
  a start is queued at most once and before it nothing is connected or scaled; a
  live session has its monitor's scale, or the message that applies it is posted
  and `scaleApplied` is still false. Its three hypotheses are true of
  `App_display`, and each is needed. Every event has its name: an `OnConnected`
  without one never posts `wmRDPConnected`, so nothing applies the scale. No session is reestablished: a
  DPI change meanwhile is refused and yet marked as applied. Either every monitor
  or none asks for scaling: `App_dpi` shows that moving from 144 to 96 DPI leaves
  the scale behind.

  What is left to do after a session (`QueuesRunDryTheorem`) is measured by
  `Backlog`: an event counts two, a message one, full screen that may still be
  announced two. Every event read and every message dispatched lowers it, since
  an event posts at most one message (`PostsOnce`), a message makes the control
  announce full screen at most once, and a control without a session refuses
  sizes and scales (`Rests`). `ReadQueuesEndLoop` says what is true when
  nothing is left: a window that is gone has posted the quit message, and an
  ended session whose `OnDisconnected` has its name has the window closing or gone. Together they
  are what safety can say of `EndedSessionEndsProgram` and
  `GoneWindowEndsProgram`; that the pump keeps turning is fairness.

* `OleHostProofs`: every property of `OleHost`, for every library, every set of
  coclasses that can be created and every list of interfaces. A balanced ledger
  is not inductive: a pointer taken twice would leak, so the invariant `IInv`
  says at which steps each pointer may be kept (`MayKeep`) and must be
  (`MustKeep`), where the site and the sink are (`SiteByStep`, `SinkByStep`),
  and that only a living control knows of us (`KnownByLiving`). Three lemmas
  (`SameLedger`, `TakeLedger`, `ReleaseLedger`) carry the ledger over every
  step. That there is a best candidate in a library of any size
  (`BestIsBest`) follows from numbering the coclasses by the ranking and the
  least number principle. `Choice` and `Choosing` then say what is left to try
  and what has been passed over. `RunEnds` is the measure of it all: the steps left,
  and within a search the ranks or the interfaces left. The rank of the best
  candidate grows as candidates are passed over, so no count of a set is needed, and
  the control's callbacks, which are not bounded, do not touch the measure.

* `SettingsProofs`: every property of `Settings`, for every file, command line and
  control. Each follows from an
  invariant that says the same of what the loop has passed: the switches before
  `at` (`SwitchInv`), the settings before `at` (`ServedInv`), the overrides
  before `at` (`OverrideInv`). `ServedInv` needs that completing the gateway asks
  for no setting already passed (`WantedBefore`) and that a written property is
  overwritten by an override only (`WrittenKept`), which `OrderAssumption`
  gives. For the file there are `AddressInv`, `FlagInv` (which needs that a line
  spells out one bit at most, `LineBitAssumption`) and `PasswordInv`: each says
  what the lines, or arguments, before `at` have left. The last follows the two
  passwords through all five sources; an alternate address is kept out by a
  server that is not empty, so the invariant tells an empty host from none.
  `MustIsWritten` sharpens `WrittenOrWarned`: for the server and the size no warning
  will do. `SettingsEnd` shows that every loop runs out, whatever the inputs.

* `DispatchProofs`: `TypeOK`, `Balanced`, `NewestRevision` and `ImplementsWriting`,
  for every control, request and number of revisions and of interfaces. `Inv` says at which
  places each local may hold something (an argument only between its conversion
  and the deferred release, texts only in an exception, an instance only inside a
  turn) and what has been passed over: the revisions above `rev` are no objects,
  the interfaces before `turn` and the paths before `at` take nothing unless an
  allocation failed. With the first half, each step changes the ledger by what it
  changes of `Held`, which is `Balanced`. With the second, `lastErr` is the error
  of the path before and a path given up takes nothing: each step is one of
  `Writing` or none.
  `RequestEnds` is the safety half of `Answered`: the paths left, the steps of the
  search, the tries left on a path and the steps left of a call are four natural
  numbers, and every step of a request lowers them in lexicographic order,
  however many paths, revisions and interfaces there are.

Only model-checked: the three liveness properties (`EndedSessionEndsProgram`,
`GoneWindowEndsProgram`, `Answered`). They rest on fairness, so on ENABLED, which
is beyond the prover; the measures above are proved.

## Plan

1. Done: `Geometry`, `Monitors`, `App`, `Session`, `OleHost`, `Config`,
   `Settings`, `Dispatch`, `Writing` and their proofs as listed.
2. `Settings`: how a switch finds its value (an argument of its own, which may be
   taken for the file), the unwrapping of a stored password, and the password
   prompt as a run of its own.
3. The remaining callbacks of the site and the focus messages of the window.
4. Proofs: that the controls `Settings` assumes (a path is lacked, refused or taken)
   are what `Writing` makes of those of `Dispatch`; and that the size follows the
   window while each resize waits for the announcement of the last.

## Not modelled

The layout of VARIANTs, DISPPARAMS and BSTRs in memory, the conversions of a
result and the text of errors (`com.go`, `variant.go`, `hresult.go`). Prompting, logging and message boxes: output only. DPAPI: one
system call. Tokenising of the command line and of `.rdp` text. Build scripts.
