------------------------------ MODULE OleHost ------------------------------
(***************************************************************************)
(* Everything App.Run takes and must give back: the OLE apartment, the     *)
(* type library, the references to the control (control.go), the event     *)
(* sink on its connection point (sink.go), and the container site the      *)
(* control calls back into (olesite.go).  Set-up may fail at each step;    *)
(* the deferred clean-up then starts from whatever has been taken.         *)
(*                                                                         *)
(* A step is one call into COM, because the control may call the site      *)
(* back from inside it.  What the session does meanwhile is App's matter.  *)
(* References taken and released within one function (the class factory,   *)
(* IPersistStreamInit, the connection point container) and the site's own  *)
(* count, which nothing reads, are left out; so are mstscax.dll, which the *)
(* code keeps loaded on purpose, the names of types, which are modelled by *)
(* what the searches tell apart, and InPlaceDeactivate, IOleObject::Close  *)
(* and the other calls that change only the control.                       *)
(*                                                                         *)
(* An operator whose comment starts with "Mutant" is the wrong version of  *)
(* the definition that follows it.                                         *)
(***************************************************************************)
EXTENDS Naturals, Sequences

CONSTANTS
  Library,    \* the Remote Desktop coclasses the type library declares
  MaxVersion, \* bound on the revision numbers in the names
  Forced,     \* what Config.CoclassName may let through of the library
  ImplLists   \* what a coclass may implement: sequences of ImplKinds

\* A coclass: MsRdpClient* or MsTscAx*, scriptable or not, and its revision.
Coclasses == [rdp : BOOLEAN, notSafe : BOOLEAN, version : 0..MaxVersion]

\* An interface a coclass implements: not a source of events, or one that cannot
\* be read, or a source that is the default one or not.
ImplKinds == {"incoming", "unreadable", "source", "default"}

ASSUME LibraryAssumption ==
  /\ MaxVersion \in Nat
  /\ Library \subseteq Coclasses
  /\ Forced \subseteq SUBSET Library
  /\ ImplLists \subseteq Seq(ImplKinds)

VARIABLES
  pc,       \* where Run, newRDPControl, Embed or cleanup is
  ole,      \* has the apartment been initialised?
  works,    \* the coclasses that can be created on this machine
  forced,   \* those of the library that CoclassName lets through
  impls,    \* what the coclass in use implements
  left,     \* the candidates not tried yet
  coclass,  \* the coclass in use, as a set of at most one
  kept,     \* the pointers that are not nil
  owed,     \* per pointer, the references taken and not released
  turn,     \* how many implemented interfaces DefaultSource has looked at
  source,   \* which of them is the event interface, 0 for none
  site,     \* the container site
  sink,     \* the event sink
  known     \* what the control holds of us: "site", "frame", "sink"

vars == <<pc, ole, works, forced, impls, left, coclass, turn, source, kept, owed,
          site, sink, known>>

\* The pointers of rdpControl that keep the control alive, and the others.
Settings == {"advanced", "secured", "transport"}
Wrapper  == {"unk", "dispatch", "oleObject", "inPlaceObject", "activeObject"}
              \cup Settings
Pointers == Wrapper \cup {"tl", "eventTI", "cp", "site.activeObject",
                          "fallback"}   \* a local of DefaultSource

Steps ==
  {"initialise", "load", "choose", "create", "dispatch", "source", "window",
   "object", "clientSite", "activate", "query", "advise", "apply", "connect",
   "loop", "disposeSink", "deactivate", "clearSite", "release", "disposeSite",
   "dropActive", "uninitialise", "exited"}

Lives == {"none", "live", "disposing", "gone"}

TypeOK ==
  /\ pc \in Steps
  /\ ole \in BOOLEAN
  /\ works \subseteq Library /\ forced \in Forced
  /\ left \subseteq forced /\ coclass \subseteq forced
  /\ impls \in ImplLists
  /\ kept \subseteq Pointers
  /\ owed \in [Pointers -> Nat]
  /\ {turn, source} \subseteq Nat
  /\ {site, sink} \subseteq Lives
  /\ known \subseteq {"site", "frame", "sink"}

-----------------------------------------------------------------------------
(* Choosing the coclass.                                                   *)

\* Mutant: within a group the oldest revision comes first.
PrecedesOldest(a, b) ==
  \/ a.notSafe /\ ~b.notSafe
  \/ a.notSafe = b.notSafe /\ a.rdp /\ ~b.rdp
  \/ a.notSafe = b.notSafe /\ a.rdp = b.rdp /\ a.version < b.version

\* The ranking of rdpCoclasses.
Precedes(a, b) ==
  \/ a.notSafe /\ ~b.notSafe
  \/ a.notSafe = b.notSafe /\ a.rdp /\ ~b.rdp
  \/ a.notSafe = b.notSafe /\ a.rdp = b.rdp /\ a.version > b.version

Best(candidates) ==
  CHOOSE c \in candidates : \A d \in candidates \ {c} : Precedes(c, d)

-----------------------------------------------------------------------------
(* Taking and releasing references.                                        *)

\* Is there a reference that keeps the control alive?
Alive(o) == \E p \in Wrapper \cup {"cp", "site.activeObject"} : o[p] > 0

Take(ps) ==
  /\ kept' = kept \cup ps
  /\ owed' = [p \in Pointers |-> owed[p] + (IF p \in ps THEN 1 ELSE 0)]

\* safeRelease of each pointer: nil ones are skipped, released ones become nil.
\* The control forgets what it is told to, and everything once it is destroyed.
Release(ps, told) ==
  /\ kept' = kept \ ps
  /\ owed' = [p \in Pointers |->
                owed[p] - (IF p \in ps \cap kept THEN 1 ELSE 0)]
  /\ known' = IF Alive(owed') THEN known \ told ELSE {}

Goto(step) == pc' = step
References == <<kept, owed, known>>
Search     == <<works, forced, impls, left, coclass, turn, source>>
Host       == <<site, sink>>

-----------------------------------------------------------------------------
(* Run, newRDPControl and Embed.                                           *)

Init ==
  /\ pc = "initialise" /\ ole = FALSE
  /\ works \in SUBSET Library /\ forced \in Forced
  /\ impls \in ImplLists
  /\ left = {} /\ coclass = {} /\ turn = 0 /\ source = 0
  /\ kept = {} /\ owed = [p \in Pointers |-> 0]
  /\ site = "none" /\ sink = "none"
  /\ known = {}

Initialise ==
  /\ pc = "initialise"
  /\ \/ Goto("load") /\ ole' = TRUE
     \/ Goto("exited") /\ UNCHANGED ole
  /\ UNCHANGED <<Search, References, Host>>

\* A failed loadTypeLib has closed what it opened.
LoadTypeLib ==
  /\ pc = "load"
  /\ \/ Goto("choose") /\ Take({"tl"})
     \/ Goto("uninitialise") /\ UNCHANGED <<kept, owed>>
  /\ UNCHANGED <<ole, Search, Host, known>>

\* The coclasses of the library, or those of the name asked for.
ChooseCoclasses ==
  /\ pc = "choose"
  /\ left' = forced
  /\ \/ forced # {} /\ Goto("create") /\ UNCHANGED References
     \/ forced = {} /\ Goto("uninitialise") /\ Release({"tl"}, {})
  /\ UNCHANGED <<ole, works, forced, impls, coclass, turn, source, Host>>

\* Mutant: without a control the type library stays open.
NoneCreatedLeaves ==
  /\ left = {}
  /\ Goto("uninitialise")
  /\ UNCHANGED <<left, coclass, References>>

NoneCreated ==
  /\ left = {}
  /\ Goto("uninitialise") /\ Release({"tl"}, {})
  /\ UNCHANGED <<left, coclass>>

\* The candidates are tried in order, each from the registry or from the DLL.
CreateInstance ==
  /\ pc = "create"
  /\ \/ /\ left # {} /\ Best(left) \in works
        /\ Goto("dispatch") /\ Take({"unk"})
        /\ coclass' = {Best(left)}
        /\ UNCHANGED <<left, known>>
     \/ /\ left # {} /\ Best(left) \notin works
        /\ left' = left \ {Best(left)}
        /\ UNCHANGED <<pc, coclass, References>>
     \/ NoneCreated
  /\ UNCHANGED <<ole, works, forced, impls, turn, source, Host>>

\* Without IDispatch the control is closed at once; no clean-up is deferred yet.
QueryDispatch ==
  /\ pc = "dispatch"
  /\ \/ Goto("source") /\ Take({"dispatch"})
     \/ Goto("deactivate") /\ UNCHANGED <<kept, owed>>
  /\ UNCHANGED <<ole, Search, Host, known>>

\* The reference held by one pointer moves to another.
Move(from, to) ==
  /\ kept' = (kept \ {from}) \cup {to}
  /\ owed' = [owed EXCEPT ![from] = @ - 1, ![to] = @ + 1]

\* Mutant: a source met before the default one stays referenced.
TakeDefaultOnly ==
  /\ kept' = (kept \ {"fallback"}) \cup {"eventTI"}
  /\ owed' = [owed EXCEPT !["eventTI"] = @ + 1]
  /\ Goto("window")

\* The default source ends the search; a source met before is released.
TakeDefault ==
  /\ kept' = (kept \ {"fallback"}) \cup {"eventTI"}
  /\ owed' = [owed EXCEPT !["eventTI"] = @ + 1,
                          !["fallback"] = IF "fallback" \in kept THEN @ - 1 ELSE @]
  /\ Goto("window")

\* Mutant: any source is as good as the default one.
TakeFallbackAtOnce ==
  /\ Take({"eventTI"})
  /\ Goto("window")

TakeFallback ==
  /\ Take({"fallback"})
  /\ UNCHANGED pc

\* A turn of DefaultSource's loop: only the first source and the default count.
LookAtImpl ==
  /\ pc = "source" /\ turn < Len(impls)
  /\ turn' = turn + 1
  /\ LET kind  == impls[turn + 1]
         first == "fallback" \notin kept
     IN  \/ kind = "default" /\ source' = turn + 1 /\ TakeDefault
         \/ kind = "source" /\ first /\ source' = turn + 1 /\ TakeFallback
         \/ /\ kind \in {"incoming", "unreadable"} \/ (kind = "source" /\ ~first)
            /\ UNCHANGED <<pc, source, kept, owed>>
  /\ UNCHANGED <<ole, works, forced, impls, left, coclass, Host, known>>

\* No default one: the first source will do, if there is any.
NoDefault ==
  /\ pc = "source" /\ turn = Len(impls)
  /\ Goto("window")
  /\ IF "fallback" \in kept THEN Move("fallback", "eventTI")
                            ELSE UNCHANGED <<kept, owed>>
  /\ UNCHANGED <<ole, Search, Host, known>>

\* The coclass' own description may be unreadable.
NoDescription ==
  /\ pc = "source" /\ turn = 0
  /\ Goto("window")
  /\ UNCHANGED <<ole, Search, References, Host>>

\* From here on failure leads to the deferred clean-up.
Fail == Goto("disposeSink")

CreateWindow ==
  /\ pc = "window"
  /\ \/ Goto("object") /\ site' = "live"
     \/ Fail /\ UNCHANGED site
  /\ UNCHANGED <<ole, Search, References, sink>>

QueryOleObject ==
  /\ pc = "object"
  /\ \/ Goto("clientSite") /\ Take({"oleObject"})
     \/ Fail /\ UNCHANGED <<kept, owed>>
  /\ UNCHANGED <<ole, Search, Host, known>>

SetClientSite ==
  /\ pc = "clientSite"
  /\ \/ Goto("activate") /\ known' = known \cup {"site"}
     \/ Fail /\ UNCHANGED known
  /\ UNCHANGED <<ole, Search, kept, owed, Host>>

Activate ==
  /\ pc = "activate"
  /\ Goto("query") \/ Fail
  /\ UNCHANGED <<ole, Search, References, Host>>

\* Either interface may be missing.
QueryInPlace ==
  /\ pc = "query"
  /\ Goto("advise")
  /\ \E found \in SUBSET {"inPlaceObject", "activeObject"} : Take(found)
  /\ UNCHANGED <<ole, Search, Host, known>>

\* A sink that cannot be advised is disposed of; the session goes on without.
AdviseEvents ==
  /\ pc = "advise"
  /\ Goto("apply")
  /\ \/ /\ "eventTI" \in kept
        /\ sink' = "live" /\ Take({"cp"}) /\ known' = known \cup {"sink"}
     \/ /\ "eventTI" \in kept
        /\ sink' = "gone" /\ UNCHANGED References
     \/ /\ "eventTI" \notin kept
        /\ UNCHANGED <<sink, References>>
  /\ UNCHANGED <<ole, Search, site>>

\* Each settings interface is fetched when a setting first needs it, and kept.
ApplySettings ==
  /\ pc = "apply"
  /\ \E needed \in SUBSET Settings : Take(needed)
  /\ Goto("connect") \/ Fail
  /\ UNCHANGED <<ole, Search, Host, known>>

Connect ==
  /\ pc = "connect"
  /\ Goto("loop") \/ Fail
  /\ UNCHANGED <<ole, Search, References, Host>>

EndLoop ==
  /\ pc = "loop"
  /\ Goto("disposeSink")
  /\ UNCHANGED <<ole, Search, References, Host>>

-----------------------------------------------------------------------------
(* cleanup, rdpControl.Close and the deferred OleUninitialize.             *)

\* Mutant: taken from the registry, but not from the connection point.
DisposeSinkAdvised ==
  /\ pc = "disposeSink"
  /\ Goto("deactivate")
  /\ sink' = IF sink = "live" THEN "gone" ELSE sink
  /\ UNCHANGED <<ole, Search, References, site>>

DisposeSink ==
  /\ pc = "disposeSink"
  /\ Goto("deactivate")
  /\ sink' = IF sink = "live" THEN "gone" ELSE sink
  /\ Release({"cp"}, {"sink"})
  /\ UNCHANGED <<ole, Search, site>>

\* InPlaceDeactivate, if there is something to call it on; then Close.
Deactivate ==
  /\ pc = "deactivate"
  /\ Goto(IF "oleObject" \in kept THEN "clearSite" ELSE "release")
  /\ UNCHANGED <<ole, Search, References, Host>>

ClearClientSite ==
  /\ pc = "clearSite"
  /\ Goto("release")
  /\ known' = known \ {"site"}
  /\ UNCHANGED <<ole, Search, kept, owed, Host>>

\* Mutant: the event interface is forgotten.
ReleaseControlOnly ==
  /\ pc = "release"
  /\ Goto("disposeSite")
  /\ Release(Wrapper \cup {"tl"}, {})
  /\ UNCHANGED <<ole, Search, Host>>

ReleaseControl ==
  /\ pc = "release"
  /\ Goto("disposeSite")
  /\ Release(Wrapper \cup {"eventTI", "tl"}, {})
  /\ UNCHANGED <<ole, Search, Host>>

\* Mutant: the site is gone before what it holds has been released.
DisposeSiteAtOnce ==
  /\ pc = "disposeSite"
  /\ Goto("dropActive")
  /\ site' = IF site = "live" THEN "gone" ELSE site
  /\ UNCHANGED <<ole, Search, References, sink>>

\* The site leaves the registry first, then releases the active object.
DisposeSite ==
  /\ pc = "disposeSite"
  /\ Goto("dropActive")
  /\ site' = IF site = "live" THEN "disposing" ELSE site
  /\ UNCHANGED <<ole, Search, References, sink>>

DropActive ==
  /\ pc = "dropActive"
  /\ Goto("uninitialise")
  /\ site' = IF site = "disposing" THEN "gone" ELSE site
  /\ Release({"site.activeObject"}, {})
  /\ UNCHANGED <<ole, Search, sink>>

Uninitialise ==
  /\ pc = "uninitialise"
  /\ Goto("exited") /\ ole' = FALSE
  /\ UNCHANGED <<Search, References, Host>>

-----------------------------------------------------------------------------
(* The control's calls into the site, from within a call of ours or while  *)
(* the message loop runs.  A site that is not registered ignores them.     *)

InControl == pc \in {"activate", "query", "advise", "apply", "connect", "loop",
                     "disposeSink", "deactivate", "clearSite", "release",
                     "dropActive"}

GetWindowContext ==
  /\ InControl /\ "site" \in known /\ site = "live"
  /\ known' = known \cup {"frame"}
  /\ UNCHANGED <<pc, ole, Search, kept, owed, Host>>

\* Mutant: the object cached before is released though there is none.
SetActiveObjectUnchecked(active) ==
  /\ InControl /\ "frame" \in known /\ site = "live"
  /\ kept' = kept \ {"site.activeObject"}
  /\ owed' = [owed EXCEPT !["site.activeObject"] = @ - 1]
  /\ UNCHANGED <<pc, ole, Search, known, Host>>

SetActiveObject(active) ==
  /\ InControl /\ "frame" \in known /\ site = "live"
  /\ IF active
     THEN /\ kept' = kept \cup {"site.activeObject"}
          /\ owed' = [owed EXCEPT !["site.activeObject"] =
                        IF "site.activeObject" \in kept THEN @ ELSE @ + 1]
          /\ UNCHANGED known
     ELSE Release({"site.activeObject"}, {})
  /\ UNCHANGED <<pc, ole, Search, Host>>

ReleaseFrame ==
  /\ InControl /\ "frame" \in known
  /\ known' = known \ {"frame"}
  /\ UNCHANGED <<pc, ole, Search, kept, owed, Host>>

SetUp ==
  \/ Initialise \/ LoadTypeLib \/ ChooseCoclasses \/ CreateInstance
  \/ QueryDispatch \/ LookAtImpl \/ NoDefault \/ NoDescription
  \/ CreateWindow \/ QueryOleObject
  \/ SetClientSite \/ Activate \/ QueryInPlace \/ AdviseEvents
  \/ ApplySettings \/ Connect

CleanUp ==
  \/ DisposeSink \/ Deactivate \/ ClearClientSite \/ ReleaseControl
  \/ DisposeSite \/ DropActive \/ Uninitialise

Callback ==
  \/ GetWindowContext \/ ReleaseFrame
  \/ \E active \in BOOLEAN : SetActiveObject(active)

Exited == pc = "exited" /\ UNCHANGED vars

Next == SetUp \/ EndLoop \/ CleanUp \/ Callback \/ Exited

Spec == Init /\ [][Next]_vars

-----------------------------------------------------------------------------
(* Properties.                                                             *)

\* One reference is owed for every pointer that is not nil, and none for the
\* others: nothing leaks by being overwritten and nothing is released twice,
\* whatever failed and whenever the control called back.
Balanced == \A p \in Pointers : owed[p] = IF p \in kept THEN 1 ELSE 0

\* The addresses of the site "stay valid for as long as the control holds them"
\* (olesite.go, lines 39-42): the site goes last, or is still at hand.
SitePointersValid ==
  known \cap {"site", "frame"} # {} => site \in {"live", "disposing"}

\* An event finds its sink, and its handler a control to ask, also when it comes
\* in the middle of the clean-up (app.go, lines 68-70 and 124-138).
EventsFindControl ==
  "sink" \in known => sink = "live" /\ {"unk", "dispatch"} \subseteq kept

\* COM is used only inside the apartment (app.go, lines 58-61): OleUninitialize
\* comes after the last release, on every path out.
InsideApartment == kept # {} \/ known # {} => ole

\* However it went, nothing is held at the end, and nobody holds the program.
CleanExit ==
  pc = "exited" =>
    /\ kept = {} /\ known = {} /\ ~ole
    /\ site \in {"none", "gone"} /\ sink \in {"none", "gone"}

\* The control in use is scriptable only if no other kind works on this machine,
\* an MsTscAx only if no MsRdpClient of its kind does, and of those the newest
\* (typelib.go, lines 341-346).
BestCoclassInUse ==
  \A c \in coclass : \A d \in (works \cap forced) \ {c} :
    /\ d.notSafe => c.notSafe
    /\ d.notSafe = c.notSafe /\ d.rdp => c.rdp
    /\ d.notSafe = c.notSafe /\ d.rdp = c.rdp => d.version < c.version

\* Events come from the default source, and from another only where there is no
\* default one that can be read (typelib.go, lines 180-226).
EventsFromDefaultSource ==
  "eventTI" \in kept =>
    \/ impls[source] = "default"
    \/ impls[source] = "source" /\ \A i \in DOMAIN impls : impls[i] # "default"
=============================================================================
