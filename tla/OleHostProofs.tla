--------------------------- MODULE OleHostProofs ---------------------------
(***************************************************************************)
(* Theorems about OleHost, for every type library, every choice of         *)
(* coclasses that can be created, and every list of implemented            *)
(* interfaces.  The invariant says at which steps each pointer may and     *)
(* must be kept; the ledger and what the control knows follow it.          *)
(***************************************************************************)
EXTENDS OleHost, LeastNumbers, TLAPS

-----------------------------------------------------------------------------
(* The inductive invariant.                                                *)

\* The steps by which set-up has not yet taken: the library, the control, its
\* IDispatch, the event interface, IOleObject, the in-place interfaces, the
\* connection point, the settings interfaces.
NoLibrary  == {"initialise", "load"}
NoControl  == NoLibrary \cup {"choose", "create"}
NoDispatch == NoControl \cup {"dispatch"}
NoEvents   == NoDispatch \cup {"source"}
NoObject   == NoEvents \cup {"window", "object"}
NoSite     == NoObject \cup {"clientSite"}
NoInPlace  == NoSite \cup {"activate", "query"}
NoSink     == NoInPlace \cup {"advise"}
NoSettings == NoSink \cup {"apply"}

\* The steps at which rdpControl.Close has run, and at which all is given back.
Released == {"disposeSite", "dropActive", "uninitialise", "exited"}
Empty    == {"uninitialise", "exited"}
Advised  == {"apply", "connect", "loop", "disposeSink"}

\* When each pointer may be kept.
MayKeepControl ==
  /\ "tl" \in kept => pc \notin NoLibrary \cup Released
  /\ "unk" \in kept => pc \notin NoControl \cup Released
  /\ "dispatch" \in kept => pc \notin NoDispatch \cup Released
  /\ "oleObject" \in kept => pc \notin NoObject \cup Released

MayKeepInPlace ==
  /\ "inPlaceObject" \in kept => pc \notin NoInPlace \cup Released
  /\ "activeObject" \in kept => pc \notin NoInPlace \cup Released
  /\ "site.activeObject" \in kept => pc \notin NoSite \cup Empty

MayKeepSettings ==
  \A p \in Settings : p \in kept => pc \notin NoSettings \cup Released

MayKeepEvents ==
  /\ "eventTI" \in kept => pc \notin NoEvents \cup Released
  /\ "cp" \in kept => pc \in Advised
  /\ "fallback" \in kept => pc = "source" /\ turn > 0

MayKeep == MayKeepControl /\ MayKeepInPlace /\ MayKeepSettings /\ MayKeepEvents

\* While set-up goes on, the control and its IDispatch are kept.
MustKeep ==
  /\ pc \in NoSink \ NoControl => "unk" \in kept
  /\ pc \in NoSink \ NoDispatch => "dispatch" \in kept

\* The site is there from CreateWindow to its disposal.
SiteByStep ==
  /\ pc \in NoEvents \cup {"window"} => site = "none"
  /\ pc \in {"object", "clientSite"} => site = "live"
  /\ site = "live" => pc \notin {"dropActive", "uninitialise", "exited"}
  /\ site = "disposing" => pc = "dropActive"
  /\ site = "gone" => pc \in Empty

SinkByStep ==
  /\ sink # "disposing"
  /\ sink = "live" => pc \in Advised
  /\ "sink" \in known => pc \in Advised

ApartmentByStep == ole <=> pc \notin {"initialise", "exited"}

\* Only a control that lives knows anything of us.
KnownByLiving == known # {} => Alive(owed)

IInv ==
  /\ TypeOK /\ Balanced
  /\ MayKeep /\ MustKeep
  /\ SiteByStep /\ SinkByStep /\ ApartmentByStep
  /\ KnownByLiving /\ SitePointersValid /\ EventsFindControl

\* The candidates left contain all that work; the first that does is taken.
Choice ==
  /\ pc \in NoControl => coclass = {}
  /\ pc = "create" => works \cap forced \subseteq left
  /\ BestCoclassInUse

\* No default source has been passed over, and the fallback is a source.
Choosing ==
  /\ pc \in NoDispatch => turn = 0
  /\ pc = "source" =>
       /\ turn \in 0..Len(impls)
       /\ \A i \in 1..turn : impls[i] # "default"
       /\ "fallback" \in kept => source \in 1..turn /\ impls[source] = "source"
  /\ EventsFromDefaultSource

-----------------------------------------------------------------------------
(* The best candidate.                                                     *)

\* The ranking is an order by number, because no two coclasses are alike.
Rank(c) ==
  (IF c.notSafe THEN 0 ELSE 2 * (MaxVersion + 1))
    + (IF c.rdp THEN 0 ELSE MaxVersion + 1) + (MaxVersion - c.version)

LEMMA RankIsNat ==
  ASSUME NEW c \in Coclasses
  PROVE  Rank(c) \in Nat
<1>1. c.version \in 0..MaxVersion
  BY DEF Coclasses
<1> QED
  BY <1>1, LibraryAssumption DEF Rank

LEMMA PrecedesByRank ==
  ASSUME NEW a \in Coclasses, NEW b \in Coclasses, a # b, Rank(a) <= Rank(b)
  PROVE  Precedes(a, b)
<1>1. /\ MaxVersion \in Nat
      /\ {a.version, b.version} \subseteq 0..MaxVersion
      /\ {a.rdp, a.notSafe, b.rdp, b.notSafe} \subseteq BOOLEAN
  BY LibraryAssumption DEF Coclasses
<1>2. ~ (a.version = b.version /\ a.rdp = b.rdp /\ a.notSafe = b.notSafe)
  BY DEF Coclasses
<1>3. CASE a.notSafe = b.notSafe /\ a.rdp = b.rdp
  BY <1>1, <1>2, <1>3 DEF Rank, Precedes
<1>4. CASE a.notSafe = b.notSafe /\ a.rdp # b.rdp
  BY <1>1, <1>4 DEF Rank, Precedes
<1>5. CASE a.notSafe # b.notSafe
  BY <1>1, <1>5 DEF Rank, Precedes
<1> QED
  BY <1>3, <1>4, <1>5

\* Best is the one that precedes all others, and there is one.
LEMMA BestIsBest ==
  ASSUME NEW candidates \in SUBSET Library, candidates # {}
  PROVE  /\ Best(candidates) \in candidates
         /\ \A d \in candidates \ {Best(candidates)} :
              Precedes(Best(candidates), d)
<1>1. candidates \subseteq Coclasses
  BY LibraryAssumption
<1> DEFINE Ranks == {Rank(c) : c \in candidates}
<1>2. Ranks \in SUBSET Nat /\ Ranks # {}
  BY <1>1, RankIsNat
<1>3. PICK c \in candidates : \A d \in candidates : Rank(c) <= Rank(d)
  <2>1. PICK n \in Ranks : \A m \in Ranks : n <= m
    BY <1>2, LeastNat
  <2> QED
    BY <2>1
<1>4. \A d \in candidates \ {c} : Precedes(c, d)
  BY <1>1, <1>3, PrecedesByRank
<1> QED
  BY <1>4 DEF Best

-----------------------------------------------------------------------------
(* The ledger.                                                             *)

\* The pointers whose references keep the control alive.
Living == Wrapper \cup {"cp", "site.activeObject"}

\* A balanced ledger says no more than which pointers are kept.
LEMMA AliveByKept ==
  ASSUME NEW o, NEW ps, \A p \in Pointers : o[p] = IF p \in ps THEN 1 ELSE 0
  PROVE  Alive(o) <=> Living \cap ps # {}
<1>1. \A p \in Living : o[p] > 0 <=> p \in ps
  BY DEF Living, Wrapper, Settings, Pointers
<1> QED
  BY <1>1 DEF Alive, Living

\* Taking what is not held keeps the ledger balanced.
LEMMA TakeBalances ==
  ASSUME TypeOK, Balanced, NEW ps \in SUBSET Pointers, ps \cap kept = {}, Take(ps)
  PROVE  /\ kept' = kept \cup ps /\ kept' \subseteq Pointers
         /\ owed' \in [Pointers -> Nat]
         /\ Balanced'
<1>1. kept' = kept \cup ps /\ kept' \subseteq Pointers
  BY DEF Take, TypeOK
<1>2. \A p \in Pointers : owed[p] \in Nat
  BY DEF TypeOK
<1>3. owed' = [p \in Pointers |-> owed[p] + (IF p \in ps THEN 1 ELSE 0)]
  BY DEF Take
<1>4. \A p \in Pointers :
        owed'[p] = (IF p \in kept' THEN 1 ELSE 0) /\ owed'[p] \in Nat
  <2> SUFFICES ASSUME NEW p \in Pointers
               PROVE  owed'[p] = (IF p \in kept' THEN 1 ELSE 0) /\ owed'[p] \in Nat
    OBVIOUS
  <2>1. owed'[p] = owed[p] + (IF p \in ps THEN 1 ELSE 0)
    BY <1>3
  <2>2. owed[p] = IF p \in kept THEN 1 ELSE 0
    BY DEF Balanced
  <2> QED
    BY <2>1, <2>2, <1>1
<1> QED
  BY <1>1, <1>3, <1>4 DEF Balanced

\* So does releasing, which skips what is not held.
LEMMA ReleaseBalances ==
  ASSUME TypeOK, Balanced, NEW ps \in SUBSET Pointers, NEW told, Release(ps, told)
  PROVE  /\ kept' = kept \ ps /\ kept' \subseteq Pointers
         /\ owed' \in [Pointers -> Nat]
         /\ Balanced'
         /\ known' \subseteq known \ told
         /\ KnownByLiving'
<1>1. kept' = kept \ ps /\ kept' \subseteq Pointers
  BY DEF Release, TypeOK
<1>2. owed' = [p \in Pointers |->
                 owed[p] - (IF p \in ps \cap kept THEN 1 ELSE 0)]
  BY DEF Release
<1>3. \A p \in Pointers :
        owed'[p] = (IF p \in kept' THEN 1 ELSE 0) /\ owed'[p] \in Nat
  <2> SUFFICES ASSUME NEW p \in Pointers
               PROVE  owed'[p] = (IF p \in kept' THEN 1 ELSE 0) /\ owed'[p] \in Nat
    OBVIOUS
  <2>1. owed'[p] = owed[p] - (IF p \in ps \cap kept THEN 1 ELSE 0)
    BY <1>2
  <2>2. owed[p] = IF p \in kept THEN 1 ELSE 0
    BY DEF Balanced
  <2> QED
    BY <2>1, <2>2, <1>1
<1>4. known' = IF Alive(owed') THEN known \ told ELSE {}
  BY DEF Release
<1>5. known' \subseteq known \ told /\ KnownByLiving'
  BY <1>4 DEF KnownByLiving
<1> QED
  BY <1>1, <1>2, <1>3, <1>5 DEF Balanced

-----------------------------------------------------------------------------
(* The invariant is inductive.                                            *)

\* What a step owes to the ledger.
Ledger ==
  /\ kept \subseteq Pointers
  /\ owed \in [Pointers -> Nat]
  /\ Balanced
  /\ KnownByLiving

LEMMA InitInv == Init => IInv
<1> SUFFICES ASSUME Init PROVE IInv
  OBVIOUS
<1>1. TypeOK
  <2>1. owed \in [Pointers -> Nat]
    BY DEF Init
  <2>2. /\ pc \in Steps /\ ole \in BOOLEAN
        /\ works \subseteq Library /\ forced \in Forced /\ impls \in ImplLists
        /\ left \subseteq forced /\ coclass \subseteq forced
    BY DEF Init, Steps
  <2>3. /\ kept \subseteq Pointers /\ {turn, source} \subseteq Nat
        /\ {site, sink} \subseteq Lives /\ known \subseteq {"site", "frame", "sink"}
    BY DEF Init, Lives
  <2> QED
    BY <2>1, <2>2, <2>3 DEF TypeOK
<1>2. Balanced /\ KnownByLiving /\ SitePointersValid /\ EventsFindControl
  BY DEF Init, Balanced, KnownByLiving, SitePointersValid, EventsFindControl
<1>3. MayKeep /\ MustKeep
  BY DEF Init, MayKeep, MayKeepControl, MayKeepInPlace, MayKeepSettings,
     MayKeepEvents, MustKeep, NoControl, NoDispatch, NoLibrary
<1>4. SiteByStep /\ SinkByStep /\ ApartmentByStep
  BY DEF Init, SiteByStep, SinkByStep, ApartmentByStep, Empty
<1> QED
  BY <1>1, <1>2, <1>3, <1>4 DEF IInv

\* Where no reference moves and the control learns nothing new, unless it lives,
\* the ledger stands.
LEMMA SameLedger ==
  ASSUME IInv, UNCHANGED <<kept, owed>>,
         known' \subseteq known \/ Living \cap kept # {}
  PROVE  Ledger'
<1>1. Alive(owed) <=> Living \cap kept # {}
  BY AliveByKept DEF IInv, Balanced
<1>2. Alive(owed') <=> Alive(owed)
  BY DEF Alive
<1> QED
  BY <1>1, <1>2 DEF IInv, Ledger, TypeOK, Balanced, KnownByLiving

\* A taken reference leaves the control alive.
LEMMA TakeLedger ==
  ASSUME IInv, NEW ps \in SUBSET Pointers, ps \cap kept = {}, Take(ps),
         known' \subseteq known \/ Living \cap (kept \cup ps) # {}
  PROVE  Ledger'
<1>1. /\ kept' = kept \cup ps /\ kept' \subseteq Pointers
      /\ owed' \in [Pointers -> Nat]
      /\ Balanced'
  BY TakeBalances DEF IInv
<1>2. Alive(owed') <=> Living \cap kept' # {}
  BY <1>1, AliveByKept DEF Balanced
<1>3. Alive(owed) <=> Living \cap kept # {}
  BY AliveByKept DEF IInv, Balanced
<1>4. KnownByLiving'
  BY <1>1, <1>2, <1>3 DEF IInv, KnownByLiving
<1> QED
  BY <1>1, <1>4 DEF Ledger

\* Otherwise it is enough that the books are right and that what kept the control
\* alive is still kept.
LEMMA LedgerByKept ==
  ASSUME IInv, kept' \subseteq Pointers, owed' \in [Pointers -> Nat],
         \A p \in Pointers : owed'[p] = IF p \in kept' THEN 1 ELSE 0,
         Living \cap kept \subseteq kept', UNCHANGED known
  PROVE  Ledger'
<1>1. Alive(owed') <=> Living \cap kept' # {}
  BY AliveByKept
<1>2. Alive(owed) <=> Living \cap kept # {}
  BY AliveByKept DEF IInv, Balanced
<1>3. KnownByLiving'
  BY <1>1, <1>2 DEF IInv, KnownByLiving
<1> QED
  BY <1>3 DEF Ledger, Balanced

\* The event interface takes the place of a fallback, if there is one.
LEMMA EventLedger ==
  ASSUME IInv, pc = "source",
         \/ TakeDefault
         \/ "fallback" \in kept /\ Move("fallback", "eventTI"),
         UNCHANGED known
  PROVE  Ledger'
<1>1. "eventTI" \notin kept
  BY DEF IInv, MayKeep, MayKeepEvents, NoEvents
<1>2. kept' = (kept \ {"fallback"}) \cup {"eventTI"}
  BY DEF TakeDefault, Move
<1>3. owed \in [Pointers -> Nat] /\ Balanced /\ kept \subseteq Pointers
  BY DEF IInv, TypeOK
<1>4. \A p \in Pointers : owed[p] = IF p \in kept THEN 1 ELSE 0
  BY <1>3 DEF Balanced
<1>5. {"eventTI", "fallback"} \subseteq Pointers
  BY DEF Pointers
<1>6. /\ owed["eventTI"] = 0
      /\ owed["fallback"] = IF "fallback" \in kept THEN 1 ELSE 0
  BY <1>1, <1>4, <1>5
<1>7. CASE TakeDefault
  <2>1. owed' = [owed EXCEPT !["eventTI"] = 1, !["fallback"] = 0]
    BY <1>3, <1>5, <1>6, <1>7 DEF TakeDefault
  <2>2. \A p \in Pointers : owed'[p] = IF p \in kept' THEN 1 ELSE 0
    BY <2>1, <1>2, <1>3, <1>4
  <2>3. owed' \in [Pointers -> Nat]
    BY <2>1, <1>3
  <2> QED
    BY <2>2, <2>3, <1>2, <1>3, <1>5, LedgerByKept DEF Living, Wrapper, Settings
<1>8. CASE "fallback" \in kept /\ Move("fallback", "eventTI")
  <2>1. owed' = [owed EXCEPT !["fallback"] = 0, !["eventTI"] = 1]
    BY <1>3, <1>5, <1>6, <1>8 DEF Move
  <2>2. \A p \in Pointers : owed'[p] = IF p \in kept' THEN 1 ELSE 0
    BY <2>1, <1>2, <1>3, <1>4
  <2>3. owed' \in [Pointers -> Nat]
    BY <2>1, <1>3
  <2> QED
    BY <2>2, <2>3, <1>2, <1>3, <1>5, LedgerByKept DEF Living, Wrapper, Settings
<1> QED
  BY <1>7, <1>8

LEMMA ReleaseLedger ==
  ASSUME IInv, NEW ps \in SUBSET Pointers, NEW told, Release(ps, told)
  PROVE  Ledger'
<1> QED
  BY ReleaseBalances DEF IInv, Ledger

(***************************************************************************)
(* One step per action: the ledger, the types, where each pointer is kept, *)
(* the site and the sink, and what the control knows.                      *)
(***************************************************************************)
LEMMA NextInv == IInv /\ [Next]_vars => IInv'
<1> SUFFICES ASSUME IInv, [Next]_vars PROVE IInv'
  OBVIOUS
<1> USE DEF Goto, Fail, Search, References, Host, Steps, Settings, Wrapper,
        Pointers
<1> USE DEF NoLibrary, NoControl, NoDispatch, NoEvents, NoObject, NoSite,
        NoInPlace, NoSink, NoSettings, Released, Empty, Advised
<1>1. CASE Initialise
  <2>1. Ledger'
    BY <1>1, SameLedger DEF Initialise
  <2>2. TypeOK'
    BY <1>1, <2>1 DEF Initialise, IInv, TypeOK, Ledger, Lives
  <2>3. MayKeepControl' /\ MayKeepInPlace'
    BY <1>1 DEF Initialise, IInv, MayKeep, MayKeepControl, MayKeepInPlace,
       MayKeepEvents
  <2>4. MayKeepSettings' /\ MayKeepEvents' /\ MustKeep'
    BY <1>1 DEF Initialise, IInv, TypeOK, MayKeep, MayKeepSettings,
       MayKeepEvents, MustKeep
  <2>5. SiteByStep' /\ SinkByStep' /\ ApartmentByStep'
    BY <1>1 DEF Initialise, IInv, SiteByStep, SinkByStep, ApartmentByStep
  <2>6. SitePointersValid' /\ EventsFindControl'
    BY <1>1, <2>1 DEF Initialise, IInv, SiteByStep, SinkByStep, MustKeep,
       SitePointersValid, EventsFindControl
  <2> QED
    BY <2>1, <2>2, <2>3, <2>4, <2>5, <2>6 DEF IInv, MayKeep, Ledger
<1>2. CASE LoadTypeLib
  <2>1. Ledger'
    <3>1. CASE UNCHANGED <<kept, owed>>
      BY <1>2, <3>1, SameLedger DEF LoadTypeLib
    <3>2. CASE Take({"tl"})
      BY <1>2, <3>2, TakeLedger DEF LoadTypeLib, IInv, MayKeep, MayKeepControl,
         MayKeepInPlace, MayKeepSettings, MayKeepEvents
    <3> QED
      BY <1>2, <3>1, <3>2 DEF LoadTypeLib
  <2>2. TypeOK'
    BY <1>2, <2>1 DEF LoadTypeLib, Take, IInv, TypeOK, Ledger, Lives
  <2>3. MayKeepControl' /\ MayKeepInPlace'
    BY <1>2 DEF LoadTypeLib, Take, IInv, MayKeep, MayKeepControl,
       MayKeepInPlace, MayKeepEvents
  <2>4. MayKeepSettings' /\ MayKeepEvents' /\ MustKeep'
    BY <1>2 DEF LoadTypeLib, Take, IInv, TypeOK, MayKeep, MayKeepSettings,
       MayKeepEvents, MustKeep
  <2>5. SiteByStep' /\ SinkByStep' /\ ApartmentByStep'
    BY <1>2 DEF LoadTypeLib, Take, IInv, SiteByStep, SinkByStep, ApartmentByStep
  <2>6. SitePointersValid' /\ EventsFindControl'
    BY <1>2, <2>1 DEF LoadTypeLib, Take, IInv, SiteByStep, SinkByStep,
       MustKeep, SitePointersValid, EventsFindControl
  <2> QED
    BY <2>1, <2>2, <2>3, <2>4, <2>5, <2>6 DEF IInv, MayKeep, Ledger
<1>3. CASE ChooseCoclasses
  <2>1. Ledger'
    <3>1. CASE UNCHANGED <<kept, owed, known>>
      BY <3>1, SameLedger
    <3>2. CASE Release({"tl"}, {})
      BY <3>2, ReleaseLedger
    <3> QED
      BY <1>3, <3>1, <3>2 DEF ChooseCoclasses
  <2>2. TypeOK'
    BY <1>3, <2>1 DEF ChooseCoclasses, Release, IInv, TypeOK, Ledger, Lives
  <2>3. MayKeepControl' /\ MayKeepInPlace'
    BY <1>3 DEF ChooseCoclasses, Release, IInv, MayKeep, MayKeepControl,
       MayKeepInPlace, MayKeepEvents
  <2>4. MayKeepSettings' /\ MayKeepEvents' /\ MustKeep'
    BY <1>3 DEF ChooseCoclasses, Release, IInv, TypeOK, MayKeep,
       MayKeepSettings, MayKeepEvents, MustKeep
  <2>5. SiteByStep' /\ SinkByStep' /\ ApartmentByStep'
    BY <1>3 DEF ChooseCoclasses, Release, IInv, SiteByStep, SinkByStep,
       ApartmentByStep
  <2>6. SitePointersValid' /\ EventsFindControl'
    BY <1>3, <2>1 DEF ChooseCoclasses, Release, IInv, SiteByStep, SinkByStep,
       MustKeep, SitePointersValid, EventsFindControl
  <2> QED
    BY <2>1, <2>2, <2>3, <2>4, <2>5, <2>6 DEF IInv, MayKeep, Ledger
<1>4. CASE CreateInstance
  <2>1. Ledger'
    <3>1. CASE UNCHANGED <<kept, owed, known>>
      BY <3>1, SameLedger
    <3>2. CASE Take({"unk"})
      <4>1. {"unk"} \cap kept = {}
        BY <1>4 DEF CreateInstance, IInv, MayKeep, MayKeepControl,
           MayKeepInPlace, MayKeepSettings, MayKeepEvents
      <4>2. Living \cap (kept \cup {"unk"}) # {}
        BY DEF Living
      <4> QED
        BY <3>2, <4>1, <4>2, TakeLedger
    <3>3. CASE Release({"tl"}, {})
      BY <3>3, ReleaseLedger
    <3> QED
      BY <1>4, <3>1, <3>2, <3>3 DEF CreateInstance, NoneCreated
  <2>2. TypeOK'
    <3>1. left # {} => Best(left) \in left
      BY BestIsBest, LibraryAssumption DEF IInv, TypeOK
    <3>2. left' \subseteq forced /\ coclass' \subseteq forced
      BY <1>4, <3>1 DEF CreateInstance, NoneCreated, IInv, TypeOK
    <3>3. known' \subseteq known /\ pc' \in Steps
      BY <1>4 DEF CreateInstance, NoneCreated, Release, IInv, TypeOK
    <3> QED
      BY <1>4, <2>1, <3>2, <3>3 DEF CreateInstance, IInv, TypeOK, Ledger
  <2>3. MayKeepControl' /\ MayKeepInPlace'
    BY <1>4 DEF CreateInstance, Take, Release, NoneCreated, IInv, MayKeep,
       MayKeepControl, MayKeepInPlace, MayKeepEvents
  <2>4. MayKeepSettings' /\ MayKeepEvents' /\ MustKeep'
    BY <1>4 DEF CreateInstance, Take, Release, NoneCreated, IInv, TypeOK,
       MayKeep, MayKeepSettings, MayKeepEvents, MustKeep
  <2>5. SiteByStep' /\ SinkByStep' /\ ApartmentByStep'
    BY <1>4 DEF CreateInstance, Take, Release, NoneCreated, IInv, SiteByStep,
       SinkByStep, ApartmentByStep
  <2>6. SitePointersValid' /\ EventsFindControl'
    BY <1>4, <2>1 DEF CreateInstance, Take, Release, NoneCreated, IInv,
       SiteByStep, SinkByStep, MustKeep, SitePointersValid, EventsFindControl
  <2> QED
    BY <2>1, <2>2, <2>3, <2>4, <2>5, <2>6 DEF IInv, MayKeep, Ledger
<1>5. CASE QueryDispatch
  <2>1. Ledger'
    <3>1. CASE UNCHANGED <<kept, owed, known>>
      BY <1>5, <3>1, SameLedger DEF QueryDispatch
    <3>2. CASE Take({"dispatch"})
      <4>1. {"dispatch"} \cap kept = {}
        BY <1>5 DEF QueryDispatch, IInv, MayKeep, MayKeepControl,
           MayKeepInPlace, MayKeepSettings, MayKeepEvents
      <4>2. known' \subseteq known \/ Living \cap (kept \cup {"dispatch"}) # {}
        BY <1>5 DEF QueryDispatch, Living
      <4> QED
        BY <3>2, <4>1, <4>2, TakeLedger
    <3> QED
      BY <1>5, <3>1, <3>2 DEF QueryDispatch
  <2>2. TypeOK'
    BY <1>5, <2>1 DEF QueryDispatch, Take, IInv, TypeOK, Ledger, Lives
  <2>3. MayKeepControl' /\ MayKeepInPlace'
    BY <1>5 DEF QueryDispatch, Take, IInv, MayKeep, MayKeepControl,
       MayKeepInPlace, MayKeepEvents
  <2>4. MayKeepSettings' /\ MayKeepEvents' /\ MustKeep'
    BY <1>5 DEF QueryDispatch, Take, IInv, TypeOK, MayKeep, MayKeepSettings,
       MayKeepEvents, MustKeep
  <2>5. SiteByStep' /\ SinkByStep' /\ ApartmentByStep'
    BY <1>5 DEF QueryDispatch, Take, IInv, SiteByStep, SinkByStep,
       ApartmentByStep
  <2>6. SitePointersValid' /\ EventsFindControl'
    BY <1>5, <2>1 DEF QueryDispatch, Take, IInv, SiteByStep, SinkByStep,
       MustKeep, SitePointersValid, EventsFindControl
  <2> QED
    BY <2>1, <2>2, <2>3, <2>4, <2>5, <2>6 DEF IInv, MayKeep, Ledger
<1>6. CASE LookAtImpl
  <2>1. Ledger'
    <3>1. CASE UNCHANGED <<kept, owed>>
      BY <1>6, <3>1, SameLedger DEF LookAtImpl
    <3>2. CASE "fallback" \notin kept /\ TakeFallback
      BY <1>6, <3>2, TakeLedger DEF LookAtImpl, TakeFallback
    <3>3. CASE TakeDefault
      BY <1>6, <3>3, EventLedger DEF LookAtImpl
    <3> QED
      BY <1>6, <3>1, <3>2, <3>3 DEF LookAtImpl
  <2>2. TypeOK'
    <3>1. turn \in Nat /\ source \in Nat
      BY DEF IInv, TypeOK
    <3>2. turn' = turn + 1 /\ source' \in {source, turn + 1} /\ pc' \in {pc, "window"}
      BY <1>6 DEF LookAtImpl, TakeDefault, TakeFallback
    <3>3. {turn', source'} \subseteq Nat /\ pc' \in Steps
      BY <3>1, <3>2 DEF IInv, TypeOK
    <3> QED
      BY <1>6, <2>1, <3>3 DEF LookAtImpl, IInv, TypeOK, Ledger
  <2>3. MayKeepControl' /\ MayKeepInPlace'
    BY <1>6 DEF LookAtImpl, TakeDefault, TakeFallback, Take, IInv, MayKeep,
       MayKeepControl, MayKeepInPlace, MayKeepEvents
  <2>4. MayKeepSettings' /\ MayKeepEvents' /\ MustKeep'
    <3>1. turn' > 0
      <4>1. turn \in Nat
        BY DEF IInv, TypeOK
      <4>2. turn' = turn + 1
        BY <1>6 DEF LookAtImpl
      <4> QED
        BY <4>1, <4>2
    <3> QED
      BY <1>6, <3>1 DEF LookAtImpl, TakeDefault, TakeFallback, Take, IInv,
         MayKeep, MayKeepSettings, MayKeepEvents, MustKeep
  <2>5. SiteByStep' /\ SinkByStep' /\ ApartmentByStep'
    BY <1>6 DEF LookAtImpl, TakeDefault, TakeFallback, Take, IInv, SiteByStep,
       SinkByStep, ApartmentByStep
  <2>6. SitePointersValid' /\ EventsFindControl'
    BY <1>6, <2>1 DEF LookAtImpl, TakeDefault, TakeFallback, Take, IInv,
       SiteByStep, SinkByStep, MustKeep, SitePointersValid, EventsFindControl
  <2> QED
    BY <2>1, <2>2, <2>3, <2>4, <2>5, <2>6 DEF IInv, MayKeep, Ledger
<1>7. CASE NoDefault
  <2>1. Ledger'
    <3>1. CASE UNCHANGED <<kept, owed>>
      BY <1>7, <3>1, SameLedger DEF NoDefault
    <3>2. CASE "fallback" \in kept /\ Move("fallback", "eventTI")
      BY <1>7, <3>2, EventLedger DEF NoDefault
    <3> QED
      BY <1>7, <3>1, <3>2 DEF NoDefault
  <2>2. TypeOK'
    BY <1>7, <2>1 DEF NoDefault, Move, IInv, TypeOK, Ledger, Lives
  <2>3. MayKeepControl' /\ MayKeepInPlace'
    BY <1>7 DEF NoDefault, Move, IInv, MayKeep, MayKeepControl, MayKeepInPlace,
       MayKeepEvents
  <2>4. MayKeepSettings' /\ MayKeepEvents' /\ MustKeep'
    BY <1>7 DEF NoDefault, Move, IInv, TypeOK, MayKeep, MayKeepSettings,
       MayKeepEvents, MustKeep
  <2>5. SiteByStep' /\ SinkByStep' /\ ApartmentByStep'
    BY <1>7 DEF NoDefault, Move, IInv, SiteByStep, SinkByStep, ApartmentByStep
  <2>6. SitePointersValid' /\ EventsFindControl'
    BY <1>7, <2>1 DEF NoDefault, Move, IInv, SiteByStep, SinkByStep, MustKeep,
       SitePointersValid, EventsFindControl
  <2> QED
    BY <2>1, <2>2, <2>3, <2>4, <2>5, <2>6 DEF IInv, MayKeep, Ledger
<1>8. CASE NoDescription
  <2>1. Ledger'
    BY <1>8, SameLedger DEF NoDescription
  <2>2. TypeOK'
    BY <1>8, <2>1 DEF NoDescription, IInv, TypeOK, Ledger, Lives
  <2>3. MayKeepControl' /\ MayKeepInPlace'
    BY <1>8 DEF NoDescription, IInv, MayKeep, MayKeepControl, MayKeepInPlace,
       MayKeepEvents
  <2>4. MayKeepSettings' /\ MayKeepEvents' /\ MustKeep'
    BY <1>8 DEF NoDescription, IInv, TypeOK, MayKeep, MayKeepSettings,
       MayKeepEvents, MustKeep
  <2>5. SiteByStep' /\ SinkByStep' /\ ApartmentByStep'
    BY <1>8 DEF NoDescription, IInv, SiteByStep, SinkByStep, ApartmentByStep
  <2>6. SitePointersValid' /\ EventsFindControl'
    BY <1>8, <2>1 DEF NoDescription, IInv, SiteByStep, SinkByStep, MustKeep,
       SitePointersValid, EventsFindControl
  <2> QED
    BY <2>1, <2>2, <2>3, <2>4, <2>5, <2>6 DEF IInv, MayKeep, Ledger
<1>9. CASE CreateWindow
  <2>1. Ledger'
    BY <1>9, SameLedger DEF CreateWindow
  <2>2. TypeOK'
    BY <1>9, <2>1 DEF CreateWindow, IInv, TypeOK, Ledger, Lives
  <2>3. MayKeepControl' /\ MayKeepInPlace'
    BY <1>9 DEF CreateWindow, IInv, MayKeep, MayKeepControl, MayKeepInPlace,
       MayKeepEvents
  <2>4. MayKeepSettings' /\ MayKeepEvents' /\ MustKeep'
    BY <1>9 DEF CreateWindow, IInv, TypeOK, MayKeep, MayKeepSettings,
       MayKeepEvents, MustKeep
  <2>5. SiteByStep' /\ SinkByStep' /\ ApartmentByStep'
    BY <1>9 DEF CreateWindow, IInv, SiteByStep, SinkByStep, ApartmentByStep
  <2>6. SitePointersValid' /\ EventsFindControl'
    BY <1>9, <2>1 DEF CreateWindow, IInv, SiteByStep, SinkByStep, MustKeep,
       SitePointersValid, EventsFindControl
  <2> QED
    BY <2>1, <2>2, <2>3, <2>4, <2>5, <2>6 DEF IInv, MayKeep, Ledger
<1>10. CASE QueryOleObject
  <2>1. Ledger'
    <3>1. CASE UNCHANGED <<kept, owed, known>>
      BY <1>10, <3>1, SameLedger DEF QueryOleObject
    <3>2. CASE Take({"oleObject"})
      <4>1. {"oleObject"} \cap kept = {}
        BY <1>10 DEF QueryOleObject, IInv, MayKeep, MayKeepControl,
           MayKeepInPlace, MayKeepSettings, MayKeepEvents
      <4>2. known' \subseteq known \/ Living \cap (kept \cup {"oleObject"}) # {}
        BY <1>10 DEF QueryOleObject, Living
      <4> QED
        BY <3>2, <4>1, <4>2, TakeLedger
    <3> QED
      BY <1>10, <3>1, <3>2 DEF QueryOleObject
  <2>2. TypeOK'
    BY <1>10, <2>1 DEF QueryOleObject, Take, IInv, TypeOK, Ledger, Lives
  <2>3. MayKeepControl' /\ MayKeepInPlace'
    BY <1>10 DEF QueryOleObject, Take, IInv, MayKeep, MayKeepControl,
       MayKeepInPlace, MayKeepEvents
  <2>4. MayKeepSettings' /\ MayKeepEvents' /\ MustKeep'
    BY <1>10 DEF QueryOleObject, Take, IInv, TypeOK, MayKeep, MayKeepSettings,
       MayKeepEvents, MustKeep
  <2>5. SiteByStep' /\ SinkByStep' /\ ApartmentByStep'
    BY <1>10 DEF QueryOleObject, Take, IInv, SiteByStep, SinkByStep,
       ApartmentByStep
  <2>6. SitePointersValid' /\ EventsFindControl'
    BY <1>10, <2>1 DEF QueryOleObject, Take, IInv, SiteByStep, SinkByStep,
       MustKeep, SitePointersValid, EventsFindControl
  <2> QED
    BY <2>1, <2>2, <2>3, <2>4, <2>5, <2>6 DEF IInv, MayKeep, Ledger
<1>11. CASE SetClientSite
  <2>1. Ledger'
    <3>1. "unk" \in Living \cap kept
      BY <1>11 DEF SetClientSite, IInv, MustKeep, Living
    <3> QED
      BY <1>11, <3>1, SameLedger DEF SetClientSite
  <2>2. TypeOK'
    BY <1>11, <2>1 DEF SetClientSite, IInv, TypeOK, Ledger, Lives
  <2>3. MayKeepControl' /\ MayKeepInPlace'
    BY <1>11 DEF SetClientSite, IInv, MayKeep, MayKeepControl, MayKeepInPlace,
       MayKeepEvents
  <2>4. MayKeepSettings' /\ MayKeepEvents' /\ MustKeep'
    BY <1>11 DEF SetClientSite, IInv, TypeOK, MayKeep, MayKeepSettings,
       MayKeepEvents, MustKeep
  <2>5. SiteByStep' /\ SinkByStep' /\ ApartmentByStep'
    BY <1>11 DEF SetClientSite, IInv, SiteByStep, SinkByStep, ApartmentByStep
  <2>6. SitePointersValid' /\ EventsFindControl'
    BY <1>11, <2>1 DEF SetClientSite, IInv, SiteByStep, SinkByStep, MustKeep,
       SitePointersValid, EventsFindControl
  <2> QED
    BY <2>1, <2>2, <2>3, <2>4, <2>5, <2>6 DEF IInv, MayKeep, Ledger
<1>12. CASE Activate
  <2>1. Ledger'
    BY <1>12, SameLedger DEF Activate
  <2>2. TypeOK'
    BY <1>12, <2>1 DEF Activate, IInv, TypeOK, Ledger, Lives
  <2>3. MayKeepControl' /\ MayKeepInPlace'
    BY <1>12 DEF Activate, IInv, MayKeep, MayKeepControl, MayKeepInPlace,
       MayKeepEvents
  <2>4. MayKeepSettings' /\ MayKeepEvents' /\ MustKeep'
    BY <1>12 DEF Activate, IInv, TypeOK, MayKeep, MayKeepSettings,
       MayKeepEvents, MustKeep
  <2>5. SiteByStep' /\ SinkByStep' /\ ApartmentByStep'
    BY <1>12 DEF Activate, IInv, SiteByStep, SinkByStep, ApartmentByStep
  <2>6. SitePointersValid' /\ EventsFindControl'
    BY <1>12, <2>1 DEF Activate, IInv, SiteByStep, SinkByStep, MustKeep,
       SitePointersValid, EventsFindControl
  <2> QED
    BY <2>1, <2>2, <2>3, <2>4, <2>5, <2>6 DEF IInv, MayKeep, Ledger
<1>13. CASE QueryInPlace
  <2>1. Ledger'
    <3>1. PICK ps \in SUBSET {"inPlaceObject", "activeObject"} : Take(ps)
      BY <1>13 DEF QueryInPlace
    <3>2. ps \cap kept = {}
      BY <1>13 DEF QueryInPlace, IInv, MayKeep, MayKeepControl, MayKeepInPlace,
         MayKeepSettings, MayKeepEvents
    <3> QED
      BY <1>13, <3>1, <3>2, TakeLedger DEF QueryInPlace
  <2>2. TypeOK'
    BY <1>13, <2>1 DEF QueryInPlace, Take, IInv, TypeOK, Ledger, Lives
  <2>3. MayKeepControl' /\ MayKeepInPlace'
    BY <1>13 DEF QueryInPlace, Take, IInv, MayKeep, MayKeepControl,
       MayKeepInPlace, MayKeepEvents
  <2>4. MayKeepSettings' /\ MayKeepEvents' /\ MustKeep'
    BY <1>13 DEF QueryInPlace, Take, IInv, TypeOK, MayKeep, MayKeepSettings,
       MayKeepEvents, MustKeep
  <2>5. SiteByStep' /\ SinkByStep' /\ ApartmentByStep'
    BY <1>13 DEF QueryInPlace, Take, IInv, SiteByStep, SinkByStep,
       ApartmentByStep
  <2>6. SitePointersValid' /\ EventsFindControl'
    BY <1>13, <2>1 DEF QueryInPlace, Take, IInv, SiteByStep, SinkByStep,
       MustKeep, SitePointersValid, EventsFindControl
  <2> QED
    BY <2>1, <2>2, <2>3, <2>4, <2>5, <2>6 DEF IInv, MayKeep, Ledger
<1>14. CASE AdviseEvents
  <2>1. Ledger'
    <3>1. CASE UNCHANGED <<kept, owed, known>>
      BY <1>14, <3>1, SameLedger DEF AdviseEvents
    <3>2. CASE Take({"cp"})
      <4>1. {"cp"} \cap kept = {}
        BY <1>14 DEF AdviseEvents, IInv, MayKeep, MayKeepControl,
           MayKeepInPlace, MayKeepSettings, MayKeepEvents
      <4>2. known' \subseteq known \/ Living \cap (kept \cup {"cp"}) # {}
        BY <1>14 DEF AdviseEvents, Living
      <4> QED
        BY <3>2, <4>1, <4>2, TakeLedger
    <3> QED
      BY <1>14, <3>1, <3>2 DEF AdviseEvents
  <2>2. TypeOK'
    BY <1>14, <2>1 DEF AdviseEvents, Take, IInv, TypeOK, Ledger, Lives
  <2>3. MayKeepControl' /\ MayKeepInPlace'
    BY <1>14 DEF AdviseEvents, Take, IInv, MayKeep, MayKeepControl,
       MayKeepInPlace, MayKeepEvents
  <2>4. MayKeepSettings' /\ MayKeepEvents' /\ MustKeep'
    BY <1>14 DEF AdviseEvents, Take, IInv, TypeOK, MayKeep, MayKeepSettings,
       MayKeepEvents, MustKeep
  <2>5. SiteByStep' /\ SinkByStep' /\ ApartmentByStep'
    BY <1>14 DEF AdviseEvents, Take, IInv, SiteByStep, SinkByStep,
       ApartmentByStep
  <2>6. SitePointersValid' /\ EventsFindControl'
    BY <1>14, <2>1 DEF AdviseEvents, Take, IInv, SiteByStep, SinkByStep,
       MustKeep, SitePointersValid, EventsFindControl
  <2> QED
    BY <2>1, <2>2, <2>3, <2>4, <2>5, <2>6 DEF IInv, MayKeep, Ledger
<1>15. CASE ApplySettings
  <2>1. Ledger'
    <3>1. PICK ps \in SUBSET Settings : Take(ps)
      BY <1>15 DEF ApplySettings
    <3>2. ps \cap kept = {}
      BY <1>15 DEF ApplySettings, IInv, MayKeep, MayKeepControl,
         MayKeepInPlace, MayKeepSettings, MayKeepEvents
    <3> QED
      BY <1>15, <3>1, <3>2, TakeLedger DEF ApplySettings
  <2>2. TypeOK'
    BY <1>15, <2>1 DEF ApplySettings, Take, IInv, TypeOK, Ledger, Lives
  <2>3. MayKeepControl' /\ MayKeepInPlace'
    BY <1>15 DEF ApplySettings, Take, IInv, MayKeep, MayKeepControl,
       MayKeepInPlace, MayKeepEvents
  <2>4. MayKeepSettings' /\ MayKeepEvents' /\ MustKeep'
    BY <1>15 DEF ApplySettings, Take, IInv, TypeOK, MayKeep, MayKeepSettings,
       MayKeepEvents, MustKeep
  <2>5. SiteByStep' /\ SinkByStep' /\ ApartmentByStep'
    BY <1>15 DEF ApplySettings, Take, IInv, SiteByStep, SinkByStep,
       ApartmentByStep
  <2>6. SitePointersValid' /\ EventsFindControl'
    BY <1>15, <2>1 DEF ApplySettings, Take, IInv, SiteByStep, SinkByStep,
       MustKeep, SitePointersValid, EventsFindControl
  <2> QED
    BY <2>1, <2>2, <2>3, <2>4, <2>5, <2>6 DEF IInv, MayKeep, Ledger
<1>16. CASE Connect
  <2>1. Ledger'
    BY <1>16, SameLedger DEF Connect
  <2>2. TypeOK'
    BY <1>16, <2>1 DEF Connect, IInv, TypeOK, Ledger, Lives
  <2>3. MayKeepControl' /\ MayKeepInPlace'
    BY <1>16 DEF Connect, IInv, MayKeep, MayKeepControl, MayKeepInPlace,
       MayKeepEvents
  <2>4. MayKeepSettings' /\ MayKeepEvents' /\ MustKeep'
    BY <1>16 DEF Connect, IInv, TypeOK, MayKeep, MayKeepSettings,
       MayKeepEvents, MustKeep
  <2>5. SiteByStep' /\ SinkByStep' /\ ApartmentByStep'
    BY <1>16 DEF Connect, IInv, SiteByStep, SinkByStep, ApartmentByStep
  <2>6. SitePointersValid' /\ EventsFindControl'
    BY <1>16, <2>1 DEF Connect, IInv, SiteByStep, SinkByStep, MustKeep,
       SitePointersValid, EventsFindControl
  <2> QED
    BY <2>1, <2>2, <2>3, <2>4, <2>5, <2>6 DEF IInv, MayKeep, Ledger
<1>17. CASE EndLoop
  <2>1. Ledger'
    BY <1>17, SameLedger DEF EndLoop
  <2>2. TypeOK'
    BY <1>17, <2>1 DEF EndLoop, IInv, TypeOK, Ledger, Lives
  <2>3. MayKeepControl' /\ MayKeepInPlace'
    BY <1>17 DEF EndLoop, IInv, MayKeep, MayKeepControl, MayKeepInPlace,
       MayKeepEvents
  <2>4. MayKeepSettings' /\ MayKeepEvents' /\ MustKeep'
    BY <1>17 DEF EndLoop, IInv, TypeOK, MayKeep, MayKeepSettings,
       MayKeepEvents, MustKeep
  <2>5. SiteByStep' /\ SinkByStep' /\ ApartmentByStep'
    BY <1>17 DEF EndLoop, IInv, SiteByStep, SinkByStep, ApartmentByStep
  <2>6. SitePointersValid' /\ EventsFindControl'
    BY <1>17, <2>1 DEF EndLoop, IInv, SiteByStep, SinkByStep, MustKeep,
       SitePointersValid, EventsFindControl
  <2> QED
    BY <2>1, <2>2, <2>3, <2>4, <2>5, <2>6 DEF IInv, MayKeep, Ledger
<1>18. CASE DisposeSink
  <2>1. Ledger'
    <3>1. Release({"cp"}, {"sink"})
      BY <1>18 DEF DisposeSink
    <3> QED
      BY <3>1, ReleaseLedger
  <2>2. TypeOK'
    BY <1>18, <2>1 DEF DisposeSink, Release, IInv, TypeOK, Ledger, Lives
  <2>3. MayKeepControl' /\ MayKeepInPlace'
    BY <1>18 DEF DisposeSink, Release, IInv, MayKeep, MayKeepControl,
       MayKeepInPlace, MayKeepEvents
  <2>4. MayKeepSettings' /\ MayKeepEvents' /\ MustKeep'
    BY <1>18 DEF DisposeSink, Release, IInv, TypeOK, MayKeep, MayKeepSettings,
       MayKeepEvents, MustKeep
  <2>5. SiteByStep' /\ SinkByStep' /\ ApartmentByStep'
    BY <1>18 DEF DisposeSink, Release, IInv, SiteByStep, SinkByStep,
       ApartmentByStep
  <2>6. SitePointersValid' /\ EventsFindControl'
    BY <1>18, <2>1 DEF DisposeSink, Release, IInv, SiteByStep, SinkByStep,
       MustKeep, SitePointersValid, EventsFindControl
  <2> QED
    BY <2>1, <2>2, <2>3, <2>4, <2>5, <2>6 DEF IInv, MayKeep, Ledger
<1>19. CASE Deactivate
  <2>1. Ledger'
    BY <1>19, SameLedger DEF Deactivate
  <2>2. TypeOK'
    BY <1>19, <2>1 DEF Deactivate, IInv, TypeOK, Ledger, Lives
  <2>3. MayKeepControl' /\ MayKeepInPlace'
    BY <1>19 DEF Deactivate, IInv, MayKeep, MayKeepControl, MayKeepInPlace,
       MayKeepEvents
  <2>4. MayKeepSettings' /\ MayKeepEvents' /\ MustKeep'
    BY <1>19 DEF Deactivate, IInv, TypeOK, MayKeep, MayKeepSettings,
       MayKeepEvents, MustKeep
  <2>5. SiteByStep' /\ SinkByStep' /\ ApartmentByStep'
    BY <1>19 DEF Deactivate, IInv, SiteByStep, SinkByStep, ApartmentByStep
  <2>6. SitePointersValid' /\ EventsFindControl'
    BY <1>19, <2>1 DEF Deactivate, IInv, SiteByStep, SinkByStep, MustKeep,
       SitePointersValid, EventsFindControl
  <2> QED
    BY <2>1, <2>2, <2>3, <2>4, <2>5, <2>6 DEF IInv, MayKeep, Ledger
<1>20. CASE ClearClientSite
  <2>1. Ledger'
    BY <1>20, SameLedger DEF ClearClientSite
  <2>2. TypeOK'
    BY <1>20, <2>1 DEF ClearClientSite, IInv, TypeOK, Ledger, Lives
  <2>3. MayKeepControl' /\ MayKeepInPlace'
    BY <1>20 DEF ClearClientSite, IInv, MayKeep, MayKeepControl,
       MayKeepInPlace, MayKeepEvents
  <2>4. MayKeepSettings' /\ MayKeepEvents' /\ MustKeep'
    BY <1>20 DEF ClearClientSite, IInv, TypeOK, MayKeep, MayKeepSettings,
       MayKeepEvents, MustKeep
  <2>5. SiteByStep' /\ SinkByStep' /\ ApartmentByStep'
    BY <1>20 DEF ClearClientSite, IInv, SiteByStep, SinkByStep, ApartmentByStep
  <2>6. SitePointersValid' /\ EventsFindControl'
    BY <1>20, <2>1 DEF ClearClientSite, IInv, SiteByStep, SinkByStep, MustKeep,
       SitePointersValid, EventsFindControl
  <2> QED
    BY <2>1, <2>2, <2>3, <2>4, <2>5, <2>6 DEF IInv, MayKeep, Ledger
<1>21. CASE ReleaseControl
  <2>1. Ledger'
    <3>1. Release(Wrapper \cup {"eventTI", "tl"}, {})
      BY <1>21 DEF ReleaseControl
    <3> QED
      BY <3>1, ReleaseLedger
  <2>2. TypeOK'
    BY <1>21, <2>1 DEF ReleaseControl, Release, IInv, TypeOK, Ledger, Lives
  <2>3. MayKeepControl' /\ MayKeepInPlace'
    BY <1>21 DEF ReleaseControl, Release, IInv, MayKeep, MayKeepControl,
       MayKeepInPlace, MayKeepEvents
  <2>4. MayKeepSettings' /\ MayKeepEvents' /\ MustKeep'
    BY <1>21 DEF ReleaseControl, Release, IInv, TypeOK, MayKeep,
       MayKeepSettings, MayKeepEvents, MustKeep
  <2>5. SiteByStep' /\ SinkByStep' /\ ApartmentByStep'
    BY <1>21 DEF ReleaseControl, Release, IInv, SiteByStep, SinkByStep,
       ApartmentByStep
  <2>6. SitePointersValid' /\ EventsFindControl'
    BY <1>21, <2>1 DEF ReleaseControl, Release, IInv, SiteByStep, SinkByStep,
       MustKeep, SitePointersValid, EventsFindControl
  <2> QED
    BY <2>1, <2>2, <2>3, <2>4, <2>5, <2>6 DEF IInv, MayKeep, Ledger
<1>22. CASE DisposeSite
  <2>1. Ledger'
    BY <1>22, SameLedger DEF DisposeSite
  <2>2. TypeOK'
    BY <1>22, <2>1 DEF DisposeSite, IInv, TypeOK, Ledger, Lives
  <2>3. MayKeepControl' /\ MayKeepInPlace'
    BY <1>22 DEF DisposeSite, IInv, MayKeep, MayKeepControl, MayKeepInPlace,
       MayKeepEvents
  <2>4. MayKeepSettings' /\ MayKeepEvents' /\ MustKeep'
    BY <1>22 DEF DisposeSite, IInv, TypeOK, MayKeep, MayKeepSettings,
       MayKeepEvents, MustKeep
  <2>5. SiteByStep' /\ SinkByStep' /\ ApartmentByStep'
    BY <1>22 DEF DisposeSite, IInv, SiteByStep, SinkByStep, ApartmentByStep
  <2>6. SitePointersValid' /\ EventsFindControl'
    BY <1>22, <2>1 DEF DisposeSite, IInv, SiteByStep, SinkByStep, MustKeep,
       SitePointersValid, EventsFindControl
  <2> QED
    BY <2>1, <2>2, <2>3, <2>4, <2>5, <2>6 DEF IInv, MayKeep, Ledger
<1>23. CASE DropActive
  <2>1. Ledger'
    <3>1. Release({"site.activeObject"}, {})
      BY <1>23 DEF DropActive
    <3> QED
      BY <3>1, ReleaseLedger
  <2>2. TypeOK'
    BY <1>23, <2>1 DEF DropActive, Release, IInv, TypeOK, Ledger, Lives
  <2>3. MayKeepControl' /\ MayKeepInPlace'
    BY <1>23 DEF DropActive, Release, IInv, MayKeep, MayKeepControl,
       MayKeepInPlace, MayKeepEvents
  <2>4. MayKeepSettings' /\ MayKeepEvents' /\ MustKeep'
    BY <1>23 DEF DropActive, Release, IInv, TypeOK, MayKeep, MayKeepSettings,
       MayKeepEvents, MustKeep
  <2>5. SiteByStep' /\ SinkByStep' /\ ApartmentByStep'
    BY <1>23 DEF DropActive, Release, IInv, SiteByStep, SinkByStep,
       ApartmentByStep
  <2>6. SitePointersValid' /\ EventsFindControl'
    <3>1. Living \cap kept' = {}
      BY <1>23 DEF DropActive, Release, Living, IInv, MayKeep, MayKeepControl,
         MayKeepInPlace, MayKeepSettings, MayKeepEvents
    <3>2. known' = {}
      BY <2>1, <3>1, AliveByKept DEF Ledger, Balanced, KnownByLiving
    <3> QED
      BY <3>2 DEF SitePointersValid, EventsFindControl
  <2> QED
    BY <2>1, <2>2, <2>3, <2>4, <2>5, <2>6 DEF IInv, MayKeep, Ledger
<1>24. CASE Uninitialise
  <2>1. Ledger'
    BY <1>24, SameLedger DEF Uninitialise
  <2>2. TypeOK'
    BY <1>24, <2>1 DEF Uninitialise, IInv, TypeOK, Ledger, Lives
  <2>3. MayKeepControl' /\ MayKeepInPlace'
    BY <1>24 DEF Uninitialise, IInv, MayKeep, MayKeepControl, MayKeepInPlace,
       MayKeepEvents
  <2>4. MayKeepSettings' /\ MayKeepEvents' /\ MustKeep'
    BY <1>24 DEF Uninitialise, IInv, TypeOK, MayKeep, MayKeepSettings,
       MayKeepEvents, MustKeep
  <2>5. SiteByStep' /\ SinkByStep' /\ ApartmentByStep'
    BY <1>24 DEF Uninitialise, IInv, SiteByStep, SinkByStep, ApartmentByStep
  <2>6. SitePointersValid' /\ EventsFindControl'
    BY <1>24, <2>1 DEF Uninitialise, IInv, SiteByStep, SinkByStep, MustKeep,
       SitePointersValid, EventsFindControl
  <2> QED
    BY <2>1, <2>2, <2>3, <2>4, <2>5, <2>6 DEF IInv, MayKeep, Ledger
<1>25. CASE GetWindowContext
  <2>1. Ledger'
    <3>1. Living \cap kept # {}
      BY <1>25, AliveByKept DEF GetWindowContext, IInv, KnownByLiving, Balanced
    <3> QED
      BY <1>25, <3>1, SameLedger DEF GetWindowContext
  <2>2. TypeOK'
    BY <1>25, <2>1 DEF GetWindowContext, IInv, TypeOK, Ledger, Lives
  <2>3. MayKeepControl' /\ MayKeepInPlace'
    BY <1>25 DEF GetWindowContext, IInv, MayKeep, MayKeepControl,
       MayKeepInPlace, MayKeepEvents
  <2>4. MayKeepSettings' /\ MayKeepEvents' /\ MustKeep'
    BY <1>25 DEF GetWindowContext, IInv, TypeOK, MayKeep, MayKeepSettings,
       MayKeepEvents, MustKeep
  <2>5. SiteByStep' /\ SinkByStep' /\ ApartmentByStep'
    BY <1>25 DEF GetWindowContext, IInv, SiteByStep, SinkByStep, ApartmentByStep
  <2>6. SitePointersValid' /\ EventsFindControl'
    BY <1>25, <2>1 DEF GetWindowContext, IInv, SiteByStep, SinkByStep,
       MustKeep, SitePointersValid, EventsFindControl
  <2> QED
    BY <2>1, <2>2, <2>3, <2>4, <2>5, <2>6 DEF IInv, MayKeep, Ledger
<1>26. CASE ReleaseFrame
  <2>1. Ledger'
    BY <1>26, SameLedger DEF ReleaseFrame
  <2>2. TypeOK'
    BY <1>26, <2>1 DEF ReleaseFrame, IInv, TypeOK, Ledger, Lives
  <2>3. MayKeepControl' /\ MayKeepInPlace'
    BY <1>26 DEF ReleaseFrame, IInv, MayKeep, MayKeepControl, MayKeepInPlace,
       MayKeepEvents
  <2>4. MayKeepSettings' /\ MayKeepEvents' /\ MustKeep'
    BY <1>26 DEF ReleaseFrame, IInv, TypeOK, MayKeep, MayKeepSettings,
       MayKeepEvents, MustKeep
  <2>5. SiteByStep' /\ SinkByStep' /\ ApartmentByStep'
    BY <1>26 DEF ReleaseFrame, IInv, SiteByStep, SinkByStep, ApartmentByStep
  <2>6. SitePointersValid' /\ EventsFindControl'
    BY <1>26, <2>1 DEF ReleaseFrame, IInv, SiteByStep, SinkByStep, MustKeep,
       SitePointersValid, EventsFindControl
  <2> QED
    BY <2>1, <2>2, <2>3, <2>4, <2>5, <2>6 DEF IInv, MayKeep, Ledger
<1>27. ASSUME NEW active \in BOOLEAN, SetActiveObject(active) PROVE IInv'
  <2>1. Ledger'
    <3>1. CASE Release({"site.activeObject"}, {})
      BY <3>1, ReleaseLedger
    <3>2. CASE active
      <4>1. /\ kept' = kept \cup {"site.activeObject"}
            /\ owed' = [owed EXCEPT !["site.activeObject"] =
                          IF "site.activeObject" \in kept THEN @ ELSE @ + 1]
            /\ UNCHANGED known
        BY <1>27, <3>2 DEF SetActiveObject
      <4>2. owed \in [Pointers -> Nat] /\ Balanced /\ kept \subseteq Pointers
        BY DEF IInv, TypeOK
      <4>3. \A p \in Pointers : owed'[p] = IF p \in kept' THEN 1 ELSE 0
        BY <4>1, <4>2 DEF Balanced
      <4>4. owed' \in [Pointers -> Nat] /\ kept' \subseteq Pointers
        BY <4>1, <4>2
      <4> QED
        BY <4>1, <4>3, <4>4, LedgerByKept
    <3> QED
      BY <1>27, <3>1, <3>2 DEF SetActiveObject
  <2>2. /\ pc \notin NoSite \cup Empty \cup {"dropActive"}
        /\ kept' \ {"site.activeObject"} = kept \ {"site.activeObject"}
        /\ known' \subseteq known
        /\ UNCHANGED <<pc, ole, Search, Host>>
    BY <1>27 DEF SetActiveObject, Release, InControl, IInv, SiteByStep
  <2>3. TypeOK'
    BY <2>1, <2>2 DEF IInv, TypeOK, Ledger
  <2>4. MayKeepControl' /\ MayKeepInPlace'
    BY <2>2 DEF IInv, MayKeep, MayKeepControl, MayKeepInPlace
  <2>5. MayKeepSettings' /\ MayKeepEvents' /\ MustKeep'
    BY <2>2 DEF IInv, MayKeep, MayKeepSettings, MayKeepEvents, MustKeep
  <2>6. SiteByStep' /\ SinkByStep' /\ ApartmentByStep'
    BY <2>2 DEF IInv, SiteByStep, SinkByStep, ApartmentByStep
  <2>7. SitePointersValid' /\ EventsFindControl'
    BY <2>2 DEF IInv, SitePointersValid, EventsFindControl
  <2> QED
    BY <2>1, <2>3, <2>4, <2>5, <2>6, <2>7 DEF IInv, MayKeep, Ledger
<1>28. CASE UNCHANGED vars
  BY <1>28 DEF vars, IInv, TypeOK, Balanced, MayKeep, MayKeepControl,
     MayKeepInPlace, MayKeepSettings, MayKeepEvents, MustKeep, SiteByStep,
     SinkByStep, ApartmentByStep, KnownByLiving, Alive, SitePointersValid,
     EventsFindControl
<1> QED
  BY <1>1, <1>2, <1>3, <1>4, <1>5, <1>6, <1>7, <1>8, <1>9, <1>10, <1>11, <1>12,
     <1>13, <1>14, <1>15, <1>16, <1>17, <1>18, <1>19, <1>20, <1>21, <1>22,
     <1>23, <1>24, <1>25, <1>26, <1>27, <1>28 DEF Next, SetUp, CleanUp,
     Callback, Exited

LEMMA Invariance == Spec => []IInv
<1> QED
  BY InitInv, NextInv, PTL DEF Spec

-----------------------------------------------------------------------------
(* The choice of the coclass, and that of the event interface.             *)

\* Every other step leaves the choice alone and does not come back to it.
LEMMA ChoiceInv == Choice /\ IInv /\ [Next]_vars => Choice'
<1> SUFFICES ASSUME Choice, IInv, [Next]_vars PROVE Choice'
  OBVIOUS
<1> USE DEF Goto, Search, NoControl, NoLibrary
<1>1. CASE UNCHANGED <<works, forced, left, coclass>> /\ (pc' \in NoControl => pc' = pc)
  BY <1>1 DEF Choice, BestCoclassInUse
<1>2. CASE Initialise \/ LoadTypeLib
  BY <1>2 DEF Initialise, LoadTypeLib, Choice, BestCoclassInUse
<1>3. CASE ChooseCoclasses
  BY <1>3 DEF ChooseCoclasses, Choice, BestCoclassInUse
<1>4. CASE CreateInstance
  <2>1. left # {} => /\ Best(left) \in left
                     /\ \A d \in left \ {Best(left)} : Precedes(Best(left), d)
    BY BestIsBest, LibraryAssumption DEF IInv, TypeOK
  <2>2. pc = "create" /\ coclass = {} /\ works \cap forced \subseteq left
    BY <1>4 DEF CreateInstance, Choice
  <2>3. CASE left # {} /\ Best(left) \in works /\ coclass' = {Best(left)} /\ pc' = "dispatch"
    <3>1. \A d \in (works \cap forced) \ {Best(left)} : Precedes(Best(left), d)
      BY <2>1, <2>2, <2>3
    <3>2. \A c \in Coclasses, d \in Coclasses : Precedes(c, d) =>
            /\ d.notSafe => c.notSafe
            /\ d.notSafe = c.notSafe /\ d.rdp => c.rdp
            /\ d.notSafe = c.notSafe /\ d.rdp = c.rdp => d.version < c.version
      BY DEF Precedes, Coclasses
    <3>3. Best(left) \in Coclasses /\ works \subseteq Coclasses
      BY <2>1, <2>3, LibraryAssumption DEF IInv, TypeOK
    <3>4. UNCHANGED <<works, forced>>
      BY <1>4 DEF CreateInstance
    <3> QED
      BY <2>3, <3>1, <3>2, <3>3, <3>4 DEF Choice, BestCoclassInUse
  <2>4. CASE left # {} /\ Best(left) \notin works /\ left' = left \ {Best(left)}
             /\ UNCHANGED <<pc, coclass>>
    BY <1>4, <2>1, <2>2, <2>4 DEF CreateInstance, Choice, BestCoclassInUse
  <2>5. CASE NoneCreated
    BY <1>4, <2>2, <2>5 DEF CreateInstance, NoneCreated, Choice,
       BestCoclassInUse
  <2> QED
    BY <1>4, <2>3, <2>4, <2>5 DEF CreateInstance
<1>5. CASE QueryDispatch \/ LookAtImpl \/ NoDefault \/ NoDescription
  BY <1>1, <1>5 DEF QueryDispatch, LookAtImpl, NoDefault, NoDescription,
     TakeDefault, TakeFallback
<1>6. CASE \/ CreateWindow \/ QueryOleObject \/ SetClientSite \/ Activate
           \/ QueryInPlace \/ AdviseEvents \/ ApplySettings \/ Connect \/ EndLoop
  BY <1>1, <1>6 DEF CreateWindow, QueryOleObject, SetClientSite, Activate,
     QueryInPlace, AdviseEvents, ApplySettings, Connect, EndLoop, Fail
<1>7. CASE CleanUp
  BY <1>1, <1>7 DEF CleanUp, DisposeSink, Deactivate, ClearClientSite,
     ReleaseControl, DisposeSite, DropActive, Uninitialise
<1>8. CASE Callback \/ UNCHANGED vars
  BY <1>1, <1>8 DEF Callback, GetWindowContext, SetActiveObject, ReleaseFrame,
     vars
<1> QED
  BY <1>2, <1>3, <1>4, <1>5, <1>6, <1>7, <1>8 DEF Next, SetUp, Exited

LEMMA ChoosingInv == Choosing /\ IInv /\ [Next]_vars => Choosing'
<1> SUFFICES ASSUME Choosing, IInv, [Next]_vars PROVE Choosing'
  OBVIOUS
<1> USE DEF Goto, Search, NoDispatch, NoControl, NoLibrary
<1>1. CASE /\ UNCHANGED <<impls, turn, source>>
           /\ pc' \in NoDispatch => pc \in NoDispatch
           /\ pc' = "source" => pc = "source" /\ kept' = kept
           /\ "eventTI" \in kept' => "eventTI" \in kept
  BY <1>1 DEF Choosing, EventsFromDefaultSource
<1>2. impls \in Seq(ImplKinds) /\ turn \in Nat
  BY LibraryAssumption DEF IInv, TypeOK
<1>3. CASE QueryDispatch
  <2>1. turn = 0 /\ turn' = 0 /\ impls' = impls /\ source' = source
    BY <1>3 DEF QueryDispatch, Choosing
  <2>2. "fallback" \notin kept' /\ "eventTI" \notin kept'
    BY <1>3 DEF QueryDispatch, Take, IInv, MayKeep, MayKeepEvents, NoEvents
  <2>3. turn' \in 0..Len(impls') /\ (\A i \in 1..turn' : impls'[i] # "default")
    BY <1>2, <2>1
  <2>4. pc' # "dispatch" /\ pc' \notin NoControl
    BY <1>3 DEF QueryDispatch
  <2> QED
    BY <2>1, <2>2, <2>3, <2>4 DEF Choosing, EventsFromDefaultSource
<1>4. CASE LookAtImpl
  <2> DEFINE kind == impls[turn + 1]
  <2>1. /\ pc = "source" /\ turn + 1 \in 1..Len(impls) /\ "eventTI" \notin kept
        /\ turn' = turn + 1 /\ impls' = impls
    BY <1>2, <1>4 DEF LookAtImpl, IInv, MayKeep, MayKeepEvents, NoEvents
  <2>2. CASE kind = "default" /\ pc' = "window" /\ source' = turn + 1
    BY <2>1, <2>2 DEF Choosing, EventsFromDefaultSource
  <2>3. ASSUME kind # "default" PROVE \A i \in 1..turn' : impls'[i] # "default"
    BY <1>2, <2>1, <2>3 DEF Choosing
  <2>4. turn' \in 0..Len(impls') /\ 1..turn \subseteq 1..turn' /\ turn' \in 1..turn'
    BY <1>2, <2>1
  <2>5. CASE /\ kind = "source" /\ pc' = pc /\ source' = turn + 1
             /\ kept' = kept \cup {"fallback"}
    BY <2>1, <2>3, <2>4, <2>5 DEF Choosing, EventsFromDefaultSource
  <2>6. CASE kind # "default" /\ UNCHANGED <<pc, source, kept>>
    BY <2>1, <2>3, <2>4, <2>6 DEF Choosing, EventsFromDefaultSource
  <2> QED
    BY <1>4, <2>2, <2>5, <2>6 DEF LookAtImpl, TakeDefault, TakeFallback, Take
<1>5. CASE NoDefault
  <2>1. /\ pc = "source" /\ turn = Len(impls) /\ "eventTI" \notin kept
        /\ pc' = "window" /\ UNCHANGED <<impls, source>>
    BY <1>5 DEF NoDefault, IInv, MayKeep, MayKeepEvents, NoEvents
  <2>2. \A i \in DOMAIN impls : impls[i] # "default"
    BY <1>2, <2>1 DEF Choosing
  <2>3. CASE "fallback" \in kept
    BY <2>1, <2>2, <2>3 DEF Choosing, EventsFromDefaultSource
  <2>4. CASE "fallback" \notin kept
    BY <1>5, <2>1, <2>4 DEF NoDefault, Choosing, EventsFromDefaultSource
  <2> QED
    BY <2>3, <2>4
<1>6. CASE Initialise \/ LoadTypeLib \/ ChooseCoclasses \/ CreateInstance \/ NoDescription
  BY <1>1, <1>6 DEF Initialise, LoadTypeLib, ChooseCoclasses, CreateInstance,
     NoneCreated, NoDescription, References, Take, Release
<1>7. CASE \/ CreateWindow \/ QueryOleObject \/ SetClientSite \/ Activate
           \/ QueryInPlace \/ AdviseEvents \/ ApplySettings \/ Connect \/ EndLoop
  BY <1>1, <1>7 DEF CreateWindow, QueryOleObject, SetClientSite, Activate,
     QueryInPlace, AdviseEvents, ApplySettings, Connect, EndLoop, Fail,
     References, Take, Settings
<1>8. CASE CleanUp
  BY <1>1, <1>8 DEF CleanUp, DisposeSink, Deactivate, ClearClientSite,
     ReleaseControl, DisposeSite, DropActive, Uninitialise, References, Release
<1>9. CASE Callback \/ UNCHANGED vars
  BY <1>1, <1>9 DEF Callback, GetWindowContext, SetActiveObject, ReleaseFrame,
     vars, Release, InControl
<1> QED
  BY <1>3, <1>4, <1>5, <1>6, <1>7, <1>8, <1>9 DEF Next, SetUp, Exited

-----------------------------------------------------------------------------
(* The theorems.                                                           *)

\* Every state has its type (TypeOK).
THEOREM TypeCorrect == Spec => []TypeOK
<1>1. IInv => TypeOK
  BY DEF IInv
<1> QED
  BY <1>1, Invariance, PTL

\* No reference leaks and none is released twice (Balanced).
THEOREM BalancedTheorem == Spec => []Balanced
<1>1. IInv => Balanced
  BY DEF IInv
<1> QED
  BY <1>1, Invariance, PTL

\* The site outlives every pointer to it (SitePointersValid).
THEOREM SitePointersValidTheorem == Spec => []SitePointersValid
<1>1. IInv => SitePointersValid
  BY DEF IInv
<1> QED
  BY <1>1, Invariance, PTL

\* An event finds the sink and the control (EventsFindControl).
THEOREM EventsFindControlTheorem == Spec => []EventsFindControl
<1>1. IInv => EventsFindControl
  BY DEF IInv
<1> QED
  BY <1>1, Invariance, PTL

\* Outside the apartment nothing is kept, so nothing is known to anybody.
LEMMA NothingKept ==
  ASSUME IInv, pc \in NoLibrary \cup Empty
  PROVE  kept = {} /\ known = {}
<1>1. kept = {}
  BY DEF IInv, TypeOK, Pointers, Wrapper, Settings, MayKeep, MayKeepControl,
     MayKeepInPlace, MayKeepSettings, MayKeepEvents, NoLibrary, NoControl,
     NoDispatch, NoEvents, NoObject, NoSite, NoInPlace, NoSink, NoSettings,
     Released, Empty, Advised
<1>2. ~ Alive(owed)
  BY <1>1, AliveByKept DEF IInv, Balanced
<1> QED
  BY <1>1, <1>2 DEF IInv, KnownByLiving

\* COM is used only inside the apartment (InsideApartment).
THEOREM InsideApartmentTheorem == Spec => []InsideApartment
<1>1. IInv => InsideApartment
  BY NothingKept DEF IInv, ApartmentByStep, InsideApartment, NoLibrary, Empty
<1> QED
  BY <1>1, Invariance, PTL

\* Everything has been given back at the end (CleanExit).
THEOREM CleanExitTheorem == Spec => []CleanExit
<1>1. IInv => CleanExit
  BY NothingKept DEF IInv, ApartmentByStep, SiteByStep, SinkByStep, TypeOK,
     Lives, CleanExit, Empty, Advised
<1> QED
  BY <1>1, Invariance, PTL

\* The best coclass that can be created is used (BestCoclassInUse).
THEOREM BestCoclassTheorem == Spec => []BestCoclassInUse
<1>1. Init => Choice
  BY DEF Init, Choice, BestCoclassInUse
<1>2. Choice => BestCoclassInUse
  BY DEF Choice
<1> QED
  BY <1>1, <1>2, ChoiceInv, Invariance, PTL DEF Spec

\* Events come from the default source where there is one that can be read
\* (EventsFromDefaultSource).
THEOREM EventSourceTheorem == Spec => []EventsFromDefaultSource
<1>1. Init => Choosing
  BY DEF Init, Choosing, EventsFromDefaultSource
<1>2. Choosing => EventsFromDefaultSource
  BY DEF Choosing
<1> QED
  BY <1>1, <1>2, ChoosingInv, Invariance, PTL DEF Spec

-----------------------------------------------------------------------------
(* Set-up and clean-up end.                                                *)

\* How many steps there are at most to the end of the program.
StepsLeft ==
  CASE pc = "initialise"  -> 22 [] pc = "load"          -> 21
    [] pc = "choose"      -> 20 [] pc = "create"        -> 19
    [] pc = "dispatch"    -> 18 [] pc = "source"        -> 17
    [] pc = "window"      -> 16 [] pc = "object"        -> 15
    [] pc = "clientSite"  -> 14 [] pc = "activate"      -> 13
    [] pc = "query"       -> 12 [] pc = "advise"        -> 11
    [] pc = "apply"       -> 10 [] pc = "connect"       -> 9
    [] pc = "loop"        -> 8  [] pc = "disposeSink"   -> 7
    [] pc = "deactivate"  -> 6  [] pc = "clearSite"     -> 5
    [] pc = "release"     -> 4  [] pc = "disposeSite"   -> 3
    [] pc = "dropActive"  -> 2  [] pc = "uninitialise"  -> 1
    [] OTHER              -> 0

\* How many turns at most the two searches still have.  The best candidate left is
\* tried next, so the ranks above its own are as good as tried.
LowestRank == 4 * (MaxVersion + 1)

TurnsLeft ==
  CASE pc = "create" /\ left # {} -> LowestRank - Rank(Best(left))
    [] pc = "source"              -> Len(impls) - turn
    [] OTHER                      -> 0

Onward ==
  \/ StepsLeft' < StepsLeft
  \/ StepsLeft' = StepsLeft /\ TurnsLeft' < TurnsLeft

\* A candidate that precedes another has the lower rank, and none the lowest.
LEMMA RankByPrecedes ==
  ASSUME NEW a \in Coclasses, NEW b \in Coclasses, Precedes(a, b)
  PROVE  Rank(a) < Rank(b) /\ Rank(b) < LowestRank
<1>1. /\ MaxVersion \in Nat
      /\ {a.version, b.version} \subseteq 0..MaxVersion
      /\ {a.rdp, a.notSafe, b.rdp, b.notSafe} \subseteq BOOLEAN
  BY LibraryAssumption DEF Coclasses
<1>2. Rank(b) < LowestRank
  BY <1>1 DEF Rank, LowestRank
<1>3. CASE a.notSafe /\ ~b.notSafe
  BY <1>1, <1>2, <1>3 DEF Rank
<1>4. CASE a.notSafe = b.notSafe /\ a.rdp /\ ~b.rdp
  BY <1>1, <1>2, <1>4 DEF Rank
<1>5. CASE a.notSafe = b.notSafe /\ a.rdp = b.rdp /\ a.version > b.version
  BY <1>1, <1>2, <1>5 DEF Rank
<1> QED
  BY <1>2, <1>3, <1>4, <1>5 DEF Precedes

LEMMA RankBelow ==
  ASSUME NEW c \in Coclasses
  PROVE  Rank(c) \in Nat /\ Rank(c) < LowestRank /\ LowestRank \in Nat
<1>1. MaxVersion \in Nat /\ c.version \in 0..MaxVersion /\ {c.rdp, c.notSafe} \subseteq BOOLEAN
  BY LibraryAssumption DEF Coclasses
<1> QED
  BY <1>1 DEF Rank, LowestRank

\* The best of what is left, and its rank.
LEMMA BestLeft ==
  ASSUME IInv, left # {}
  PROVE  /\ Best(left) \in left /\ Best(left) \in Coclasses
         /\ \A d \in left \ {Best(left)} : d \in Coclasses /\ Precedes(Best(left), d)
BY BestIsBest, LibraryAssumption DEF IInv, TypeOK

\* Passing over the best candidate leaves fewer.
LEMMA PassedOver ==
  ASSUME IInv, IInv', left # {}, left' = left \ {Best(left)}, pc = "create", pc' = pc
  PROVE  TurnsLeft' < TurnsLeft
<1> DEFINE old == Best(left)  new == Best(left')
<1>1. old \in Coclasses /\ \A d \in left' : d \in Coclasses /\ Precedes(old, d)
  BY BestLeft
<1>2. Rank(old) \in Nat /\ Rank(old) < LowestRank /\ LowestRank \in Nat
  BY <1>1, RankBelow
<1>3. TurnsLeft = LowestRank - Rank(old)
  BY DEF TurnsLeft
<1>4. CASE left' = {}
  <2>1. TurnsLeft' = 0
    BY <1>4 DEF TurnsLeft
  <2> QED
    BY <1>2, <1>3, <2>1
<1>5. CASE left' # {}
  <2>1. left' \in SUBSET Library
    BY LibraryAssumption DEF IInv, TypeOK
  <2>2. new \in left'
    BY <1>5, <2>1, BestIsBest
  <2>3. new \in Coclasses /\ Rank(old) < Rank(new)
    BY <1>1, <2>2, RankByPrecedes
  <2>4. Rank(new) \in Nat
    BY <2>3, RankBelow
  <2>5. TurnsLeft' = LowestRank - Rank(new)
    BY <1>5 DEF TurnsLeft, LowestRank, Rank
  <2> QED
    BY <1>2, <1>3, <2>3, <2>4, <2>5
<1> QED
  BY <1>4, <1>5

LEMMA MeasuresAreNat == IInv /\ Choosing => StepsLeft \in Nat /\ TurnsLeft \in Nat
<1> SUFFICES ASSUME IInv, Choosing PROVE StepsLeft \in Nat /\ TurnsLeft \in Nat
  OBVIOUS
<1>1. StepsLeft \in Nat
  BY DEF StepsLeft
<1>2. CASE pc = "create" /\ left # {}
  <2>1. TurnsLeft = LowestRank - Rank(Best(left))
    BY <1>2 DEF TurnsLeft
  <2>2. /\ Rank(Best(left)) \in Nat /\ LowestRank \in Nat
        /\ Rank(Best(left)) < LowestRank
    BY <1>2, BestLeft, RankBelow
  <2> QED
    BY <1>1, <2>1, <2>2
<1>3. CASE pc = "source"
  <2>1. impls \in Seq(ImplKinds) /\ turn \in 0..Len(impls)
    BY <1>3, LibraryAssumption DEF Choosing, IInv, TypeOK
  <2>2. TurnsLeft = Len(impls) - turn
    BY <1>3 DEF TurnsLeft
  <2> QED
    BY <1>1, <2>1, <2>2
<1>4. CASE ~(pc = "create" /\ left # {}) /\ pc # "source"
  <2>1. TurnsLeft = 0
    BY <1>4 DEF TurnsLeft
  <2> QED
    BY <1>1, <2>1
<1> QED
  BY <1>2, <1>3, <1>4

\* A step of set-up or clean-up comes nearer to the end.
LEMMA StepOnward ==
  ASSUME IInv, IInv', SetUp \/ EndLoop \/ CleanUp
  PROVE  Onward
<1> USE DEF Goto, Fail
<1>1. CASE Initialise \/ LoadTypeLib \/ ChooseCoclasses
  BY <1>1 DEF Initialise, LoadTypeLib, ChooseCoclasses, Onward, StepsLeft
<1>2. CASE CreateInstance
  <2>1. CASE pc = "create" /\ pc' \in {"dispatch", "uninitialise"}
    BY <2>1 DEF Onward, StepsLeft
  <2>2. CASE /\ pc = "create" /\ left # {}
             /\ left' = left \ {Best(left)} /\ pc' = pc
    <3>1. StepsLeft' = StepsLeft
      BY <2>2 DEF StepsLeft
    <3> QED
      BY <2>2, <3>1, PassedOver DEF Onward
  <2> QED
    BY <1>2, <2>1, <2>2 DEF CreateInstance, NoneCreated
<1>3. CASE LookAtImpl
  <2>1. CASE pc' = "window"
    BY <1>3, <2>1 DEF LookAtImpl, Onward, StepsLeft
  <2>2. CASE pc' = pc
    <3>1. /\ pc = "source" /\ pc' = "source" /\ turn' = turn + 1 /\ impls' = impls
          /\ turn \in Nat /\ Len(impls) \in Nat
      BY <1>3, <2>2, LibraryAssumption DEF LookAtImpl, IInv, TypeOK
    <3>2. TurnsLeft = Len(impls) - turn /\ TurnsLeft' = Len(impls) - (turn + 1)
      BY <3>1 DEF TurnsLeft
    <3>3. StepsLeft' = StepsLeft
      BY <2>2 DEF StepsLeft
    <3> QED
      BY <3>1, <3>2, <3>3 DEF Onward
  <2> QED
    BY <1>3, <2>1, <2>2 DEF LookAtImpl, TakeDefault, TakeFallback
<1>4. CASE QueryDispatch \/ NoDefault \/ NoDescription \/ CreateWindow
  BY <1>4 DEF QueryDispatch, NoDefault, NoDescription, CreateWindow, Onward, StepsLeft
<1>5. CASE QueryOleObject \/ SetClientSite \/ Activate \/ QueryInPlace
  BY <1>5 DEF QueryOleObject, SetClientSite, Activate, QueryInPlace, Onward,
     StepsLeft
<1>6. CASE AdviseEvents \/ ApplySettings \/ Connect \/ EndLoop
  BY <1>6 DEF AdviseEvents, ApplySettings, Connect, EndLoop, Onward, StepsLeft
<1>7. CASE CleanUp
  BY <1>7 DEF CleanUp, DisposeSink, Deactivate, ClearClientSite, ReleaseControl,
     DisposeSite, DropActive, Uninitialise, Onward, StepsLeft
<1> QED
  BY <1>1, <1>2, <1>3, <1>4, <1>5, <1>6, <1>7 DEF SetUp

\* Set-up and clean-up end, wherever they fail and whatever the library holds:
\* what is left of the steps and of the two searches only shrinks, and a call of
\* the control, however often it comes, sets neither back (app.go, lines 51-138).
THEOREM RunEnds ==
  Spec => /\ [](StepsLeft \in Nat /\ TurnsLeft \in Nat)
          /\ [][/\ SetUp \/ EndLoop \/ CleanUp => Onward
                /\ Callback => UNCHANGED <<StepsLeft, TurnsLeft>>]_vars
<1> DEFINE Measured == StepsLeft \in Nat /\ TurnsLeft \in Nat
           Moves == /\ SetUp \/ EndLoop \/ CleanUp => Onward
                    /\ Callback => UNCHANGED <<StepsLeft, TurnsLeft>>
<1>1. Init => Choosing
  BY DEF Init, Choosing, EventsFromDefaultSource
<1>2. IInv /\ Choosing => Measured
  BY MeasuresAreNat
<1>3. IInv /\ IInv' /\ [Next]_vars => [Moves]_vars
  <2> SUFFICES ASSUME IInv, IInv' PROVE Moves
    OBVIOUS
  <2>1. Callback => UNCHANGED <<pc, left, impls, turn>>
    BY DEF Callback, GetWindowContext, SetActiveObject, ReleaseFrame, Search
  <2>2. UNCHANGED <<pc, left, impls, turn>> => UNCHANGED <<StepsLeft, TurnsLeft>>
    BY DEF StepsLeft, TurnsLeft
  <2> QED
    BY <2>1, <2>2, StepOnward
<1> HIDE DEF Measured, Moves
<1>4. Spec => []Measured /\ [][Moves]_vars
  BY <1>1, <1>2, <1>3, ChoosingInv, Invariance, PTL DEF Spec
<1> QED
  BY <1>4 DEF Measured, Moves
=============================================================================
