--------------------------- MODULE DispatchProofs ---------------------------
(* Theorems about Dispatch, for every control, every request and any number *)
(* of revisions, interfaces and arguments.  The invariant says which locals  *)
(* are in use at each step; the ledger follows it, and so does what has been *)
(* found out about the paths tried so far, which the refinement needs.       *)
EXTENDS Dispatch, LeastNumbers, TLAPS

------------------------------------------------------------------------------
(* The inductive invariant.                                                  *)

Active   == pc \notin {"idle", "closed"}
Invoking == {"convert", "invoke", "exception", "return", "back"}

\* A request is at hand, and at one of its paths.
RequestAtHand ==
  /\ Active => request \in Requests /\ at \in DOMAIN request.paths
  /\ Active <=> answer = "pending"

\* No newer revision of this interface is handed out.
NoneNewer == \A s \in (rev + 1)..Max[Target] : ctl.gives[<<Target, s>>] # "object"

\* At most one of the inner loops runs, and on a path of its kind.
LoopsInPlace ==
  /\ ~Active \/ pc = "target" => rev = 0 /\ turn = 0
  /\ rev # 0 => /\ turn = 0 /\ Target \in Interfaces /\ cached[Target] = 0
                /\ rev \in 1..Max[Target] /\ NoneNewer
  /\ turn # 0 => rev = 0 /\ Target = "nonscriptable"
  /\ Active /\ pc # "target" /\ rev = 0 /\ turn = 0
       => Target = "control" \/ (Target \in Interfaces /\ cached[Target] # 0)
  /\ pc = "instance" => turn # 0

\* The instance is held from QueryInterface to the return.
InstanceInPlace == inst = (turn # 0 /\ pc \in Invoking)

\* Which locals of invokeID are in use.
Unused(c) == c.ex = {} /\ c.result = "nothing"
CallInPlace ==
  /\ pc \notin Invoking \ {"convert"} => call = NoCall
  /\ pc = "invoke" => Unused(call) /\ ~call.error
  /\ pc = "exception" => call.result = "nothing" /\ call.error
  /\ pc \in {"return", "back"} => call.ex = {}
  /\ pc = "back" => call.vars = NoCall.vars
  /\ call.error \/ turn # 0 => call.result = "nothing"

IInv == /\ TypeOK /\ RequestAtHand /\ LoopsInPlace /\ InstanceInPlace
        /\ CallInPlace /\ NewestRevision

------------------------------------------------------------------------------
(* Operators.                                                                *)

\* The newest revision handed out is the one after which none is.
LEMMA NewestIs ==
  ASSUME NEW c \in Control, NEW i \in Interfaces, NEW r \in 1..Max[i],
         c.gives[<<i, r>>] = "object",
         \A s \in (r + 1)..Max[i] : c.gives[<<i, s>>] # "object"
  PROVE  Newest(c, i) = r
<1> DEFINE Top(q) == /\ c.gives[<<i, q>>] = "object"
                     /\ \A s \in (q + 1)..Max[i] : c.gives[<<i, s>>] # "object"
<1>1. Max[i] \in Nat
  BY DispatchAssumption
<1>2. Top(r)
  OBVIOUS
<1>3. ASSUME NEW q \in 1..Max[i], Top(q) PROVE q = r
  <2>1. ~(q < r)
    BY <1>1, <1>3
  <2>2. ~(r < q)
    BY <1>1, <1>2, <1>3
  <2> QED
    BY <1>1, <2>1, <2>2
<1>4. (CHOOSE q \in 1..Max[i] : Top(q)) = r
  BY <1>2, <1>3
<1> QED
  BY <1>4, <1>2 DEF Newest

LEMMA NewestNone ==
  ASSUME NEW c, NEW i \in Interfaces,
         \A s \in 1..Max[i] : c.gives[<<i, s>>] # "object"
  PROVE  Newest(c, i) = 0
BY DEF Newest

\* The ledger of a step that gets some new things and gives back held ones.
LEMMA LedgerStep ==
  ASSUME NEW o, NEW held, NEW got, NEW given, o = Once(held),
         got \cap held = {}, given \subseteq held
  PROVE  Ledger(o, got, given) = Once((held \cup got) \ given)
BY DEF Ledger, Once

LEMMA OnceType == ASSUME NEW held PROVE Once(held) \in [Things -> Int]
BY DEF Once

LEMMA LedgerType ==
  ASSUME NEW o \in [Things -> Int], NEW got, NEW given
  PROVE  Ledger(o, got, given) \in [Things -> Int]
BY DEF Ledger

\* A request's paths and arguments.
LEMMA RequestParts ==
  ASSUME NEW q \in Requests
  PROVE  /\ q.paths \in Seq(Paths) /\ q.paths # << >>
         /\ q.args \in Seq({"number", "string"}) /\ Len(q.args) <= Arity
         /\ q.kind \in Kinds
         /\ Len(q.args) > 1 => \A n \in DOMAIN q.args : q.args[n] = "number"
BY DispatchAssumption, RequestsAssumption DEF Request

LEMMA PathParts ==
  ASSUME NEW q \in Requests, NEW n \in DOMAIN q.paths
  PROVE  /\ q.paths[n] \in Paths
         /\ q.paths[n][1] \in Targets /\ q.paths[n][2] \in Names
         /\ q.paths[n] = <<q.paths[n][1], q.paths[n][2]>>
         /\ n \in 1..Len(q.paths)
<1>1. q.paths[n] \in Paths /\ n \in 1..Len(q.paths)
  BY RequestParts
<1> QED
  BY <1>1 DEF Paths

LEMMA SlotsType ==
  ASSUME NEW args \in Seq({"number", "string"}), NEW n \in Nat
  PROVE  Slots(args, n) \in [1..Arity -> {"empty", "number", "string"}]
<1>1. ASSUME NEW s \in 1..Arity, s \in DOMAIN args
      PROVE  args[Len(args) + 1 - s] \in {"number", "string"}
  BY <1>1, DispatchAssumption
<1> QED
  BY <1>1 DEF Slots

------------------------------------------------------------------------------
(* The steps by which a request goes on.                                     *)

WalkTyped ==
  /\ pc \in {"idle", "target", "member", "instance", "convert", "invoke",
             "exception", "return", "back", "closed"}
  /\ answer \in {"pending", "nil", "failed", "unknown"}
  /\ at \in Nat /\ rev \in Nat /\ turn \in 0..Last
  /\ inner \in {"none", "failed"} /\ lastErr \in {"none", "failed", "unknown"}

CallType == [vars : [1..Arity -> {"empty", "number", "string"}],
             ex : SUBSET ExceptionTexts,
             result : {"nothing", "integer", "string", "object"},
             error : BOOLEAN]

DataTyped ==
  /\ ctl \in Controls /\ request \in Requests \cup {NoRequest}
  /\ inst \in BOOLEAN /\ call \in CallType
  /\ cached \in [Interfaces -> Nat] /\ owed \in [Things -> Int]
  /\ written \in Nat /\ starved \in BOOLEAN

LEMMA Types == TypeOK <=> WalkTyped /\ DataTyped
BY DEF TypeOK, WalkTyped, DataTyped, CallType

LEMMA NoCallType == NoCall \in CallType
BY DEF NoCall, CallType

\* What all the steps share that leave a request's frame alone.
LEMMA Framed ==
  ASSUME RequestAtHand, Active, Active', Fixed, at' = at, answer' = answer
  PROVE  RequestAtHand'
BY DEF RequestAtHand, Fixed

Placed == WalkTyped /\ RequestAtHand /\ LoopsInPlace /\ InstanceInPlace
            /\ CallInPlace

\* A path that fails leaves the request at the next one, or over.
LEMMA PathFailsPlaces ==
  ASSUME IInv, Active, NEW e \in {"failed", "unknown"}, PathFails(e), Fixed,
         call' = NoCall, inst' = FALSE
  PROVE  Placed'
<1>1. at \in 1..Len(request.paths) /\ Len(request.paths) \in Nat
      /\ DOMAIN request.paths = 1..Len(request.paths) /\ request \in Requests
  BY RequestParts DEF IInv, RequestAtHand
<1>2. CASE at < Len(request.paths)
  <2>1. /\ pc' = "target" /\ at' = at + 1 /\ answer' = answer /\ rev' = 0
        /\ turn' = 0 /\ inner' = "none" /\ lastErr' = e
    BY <1>2 DEF PathFails
  <2>2. WalkTyped'
    BY <2>1, <1>1, DispatchAssumption DEF IInv, TypeOK, WalkTyped
  <2>3. RequestAtHand'
    BY <2>1, <1>1, <1>2 DEF IInv, RequestAtHand, Active, Fixed
  <2> QED
    BY <2>1, <2>2, <2>3
    DEF Placed, LoopsInPlace, InstanceInPlace, CallInPlace, Active, Invoking,
        NoCall
<1>3. CASE ~(at < Len(request.paths))
  <2>1. /\ pc' = "idle" /\ at' = at /\ answer' = e /\ rev' = 0
        /\ turn' = 0 /\ inner' = "none" /\ lastErr' = e
    BY <1>3 DEF PathFails
  <2>2. WalkTyped'
    BY <2>1, <1>1, DispatchAssumption DEF IInv, TypeOK, WalkTyped
  <2> QED
    BY <2>1, <2>2
    DEF Placed, RequestAtHand, LoopsInPlace, InstanceInPlace, CallInPlace,
        Active, Invoking, NoCall
<1> QED
  BY <1>2, <1>3

LEMMA SucceedPlaces ==
  ASSUME IInv, NEW e \in {"nil", "failed"}, Succeed(e),
         call' = NoCall, inst' = FALSE
  PROVE  Placed'
<1>1. /\ pc' = "idle" /\ at' = at /\ answer' = e /\ rev' = 0
      /\ turn' = 0 /\ inner' = "none" /\ lastErr' = lastErr
  BY DEF Succeed
<1>2. WalkTyped'
  BY <1>1, DispatchAssumption DEF IInv, TypeOK, WalkTyped
<1> QED
  BY <1>1, <1>2
  DEF Placed, RequestAtHand, LoopsInPlace, InstanceInPlace, CallInPlace,
      Active, Invoking, NoCall

\* A revision that fails leaves the fetch at the next older one.
LEMMA RevisionFailsPlaces ==
  ASSUME IInv, Active, rev # 0, RevisionFails, Fixed, call' = NoCall,
         inst' = FALSE, cached' = cached,
         ctl.gives[<<Target, rev>>] # "object"
  PROVE  Placed'
<1>1. CASE rev > 1
  <2>1. /\ rev' = rev - 1 /\ pc' = "member" /\ at' = at /\ turn' = turn
        /\ inner' = inner /\ lastErr' = lastErr /\ answer' = answer
    BY <1>1 DEF RevisionFails
  <2>2. WalkTyped' /\ rev' # 0
    BY <2>1, <1>1 DEF IInv, TypeOK, WalkTyped
  <2>3. RequestAtHand'
    BY <2>1, Framed DEF IInv, Active
  <2>4. Target' = Target
    BY <2>1 DEF Target, Fixed
  <2>5. /\ turn = 0 /\ Target \in Interfaces /\ cached[Target] = 0
        /\ rev \in 1..Max[Target] /\ NoneNewer /\ Max[Target] \in Nat
    BY DispatchAssumption DEF IInv, LoopsInPlace
  <2>6. NoneNewer' /\ rev' \in 1..Max[Target]
    <3>1. rev' \in 1..Max[Target]
      BY <1>1, <2>1, <2>5
    <3>2. ASSUME NEW s \in (rev' + 1)..Max[Target]
          PROVE  ctl.gives[<<Target, s>>] # "object"
      <4>1. s = rev \/ s \in (rev + 1)..Max[Target]
        BY <1>1, <2>1, <2>5
      <4> QED
        BY <4>1, <2>5 DEF NoneNewer
    <3> QED
      BY <3>1, <3>2, <2>4 DEF NoneNewer, Fixed
  <2>7. LoopsInPlace'
    BY <2>1, <2>2, <2>4, <2>5, <2>6 DEF LoopsInPlace, Active
  <2> QED
    BY <2>1, <2>2, <2>3, <2>5, <2>7
    DEF Placed, InstanceInPlace, CallInPlace, Invoking, NoCall
<1>2. CASE ~(rev > 1)
  BY <1>2, PathFailsPlaces DEF RevisionFails
<1> QED
  BY <1>1, <1>2

\* An interface that fails leaves the loop at the next one.
LEMMA TurnFailsPlaces ==
  ASSUME IInv, Active, turn # 0, NEW e \in {"none", "failed"}, TurnFails(e),
         Fixed, call' = NoCall, inst' = FALSE
  PROVE  Placed'
<1>1. CASE turn < Last
  <2>1. /\ turn' = turn + 1 /\ pc' = "member" /\ inner' = e /\ at' = at
        /\ rev' = rev /\ lastErr' = lastErr /\ answer' = answer
    BY <1>1 DEF TurnFails
  <2>2. WalkTyped' /\ turn' # 0
    BY <2>1, <1>1, DispatchAssumption DEF IInv, TypeOK, WalkTyped
  <2>3. RequestAtHand'
    BY <2>1, Framed DEF IInv, Active
  <2>4. Target' = Target /\ rev = 0 /\ Target = "nonscriptable"
    BY <2>1 DEF Target, Fixed, IInv, LoopsInPlace
  <2> QED
    BY <2>1, <2>2, <2>3, <2>4
    DEF Placed, LoopsInPlace, InstanceInPlace, CallInPlace, Active, Invoking,
        NoCall
<1>2. CASE ~(turn < Last)
  <2>1. (IF e = "none" THEN "unknown" ELSE e) \in {"failed", "unknown"}
    OBVIOUS
  <2> QED
    BY <1>2, <2>1, PathFailsPlaces DEF TurnFails
<1> QED
  BY <1>1, <1>2

\* A step that only moves on leaves the loops as they are.
LEMMA GoToPlaces ==
  ASSUME IInv, Active, pc # "target",
         NEW place \in Invoking \cup {"member", "instance"}, GoTo(place),
         place = "instance" => turn # 0, Fixed, cached' = cached
  PROVE  WalkTyped' /\ RequestAtHand' /\ LoopsInPlace' /\ turn' = turn
         /\ rev' = rev /\ at' = at /\ Target' = Target /\ pc' = place
<1>1. /\ pc' = place /\ at' = at /\ rev' = rev /\ turn' = turn
      /\ inner' = inner /\ lastErr' = lastErr /\ answer' = answer
  BY DEF GoTo, walk
<1>2. Active'
  BY <1>1 DEF Active, Invoking
<1>3. WalkTyped'
  BY <1>1 DEF IInv, TypeOK, WalkTyped, Invoking
<1>4. RequestAtHand'
  BY <1>1, <1>2, Framed DEF IInv
<1>5. Target' = Target
  BY <1>1 DEF Target, Fixed
<1>6. LoopsInPlace'
  BY <1>1, <1>5 DEF IInv, LoopsInPlace, NoneNewer, Active, Fixed, Invoking
<1> QED
  BY <1>1, <1>3, <1>4, <1>5, <1>6

\* The parts that make up the invariant.
LEMMA Parts == IInv <=> Placed /\ DataTyped /\ NewestRevision
BY Types DEF IInv, Placed

LEMMA PartsNext == Placed' /\ DataTyped' /\ NewestRevision' => IInv'
BY DEF IInv, Placed, TypeOK, WalkTyped, DataTyped, CallType

\* While the control and the cache stay, so does what is known of them.
LEMMA NewestKept ==
  ASSUME NewestRevision, ctl'.gives = ctl.gives, cached' = cached
  PROVE  NewestRevision'
BY DEF NewestRevision, Newest

LEMMA SaysArgs ==
  ASSUME IInv, Active
  PROVE  /\ Args \in Seq({"number", "string"}) /\ Len(Args) <= Arity
         /\ Len(Args) \in Nat /\ DOMAIN Args = 1..Len(Args)
         /\ Len(Args) > 1 => \A n \in DOMAIN Args : Args[n] = "number"
<1>1. request \in Requests
  BY DEF IInv, RequestAtHand
<1>2. CASE rev # 0
  BY <1>2, DispatchAssumption DEF Args
<1>3. CASE rev = 0
  BY <1>1, <1>3, RequestParts, DispatchAssumption DEF Args
<1> QED
  BY <1>2, <1>3

LEMMA InitKeeps == ASSUME Init PROVE IInv
<1>1. WalkTyped
  BY DispatchAssumption DEF Init, WalkTyped
<1>2. cached \in [Interfaces -> Nat] /\ owed \in [Things -> Int]
      /\ \A i \in Interfaces : cached[i] = 0
  BY DEF Init
<1>3. DataTyped
  BY <1>2, NoCallType DEF Init, DataTyped
<1>4. RequestAtHand /\ LoopsInPlace /\ InstanceInPlace
  BY DEF Init, RequestAtHand, LoopsInPlace, InstanceInPlace, Active, Invoking
<1>5. CallInPlace
  BY DEF Init, CallInPlace, Invoking, NoCall
<1>6. NewestRevision
  BY <1>2 DEF NewestRevision
<1> QED
  BY <1>1, <1>3, <1>4, <1>5, <1>6, Parts DEF Placed

LEMMA AskKeeps == ASSUME IInv, Ask PROVE IInv'
<1>1. WalkTyped' /\ DataTyped'
  BY Types DEF IInv, WalkTyped, DataTyped, Ask
<1>2. 1 \in DOMAIN request'.paths /\ request' \in Requests
  BY RequestParts DEF Ask
<1>3. RequestAtHand'
  BY <1>2 DEF Ask, RequestAtHand, Active
<1>4. LoopsInPlace' /\ InstanceInPlace' /\ CallInPlace'
  BY DEF Ask, IInv, LoopsInPlace, InstanceInPlace, CallInPlace, Active, Invoking
<1>5. NewestRevision'
  BY NewestKept DEF IInv, Ask
<1> QED
  BY <1>1, <1>3, <1>4, <1>5, PartsNext DEF Placed

LEMMA ChangeKeeps == ASSUME IInv, ControlChanges PROVE IInv'
<1>1. /\ pc = "idle" /\ pc' = pc /\ request' = request /\ answer' = answer
      /\ at' = at /\ rev' = rev /\ turn' = turn /\ inner' = inner
      /\ lastErr' = lastErr /\ inst' = inst /\ call' = call
      /\ cached' = cached /\ owed' = owed /\ written' = written
      /\ starved' = starved /\ ctl' \in Controls /\ ctl'.gives = ctl.gives
  BY DEF ControlChanges, walk
<1>2. WalkTyped' /\ DataTyped'
  BY <1>1, Types DEF IInv, WalkTyped, DataTyped
<1>3. RequestAtHand' /\ LoopsInPlace' /\ InstanceInPlace' /\ CallInPlace'
  BY <1>1 DEF IInv, RequestAtHand, LoopsInPlace, InstanceInPlace, CallInPlace,
              Active, Invoking
<1>4. NewestRevision'
  BY <1>1, NewestKept DEF IInv
<1> QED
  BY <1>2, <1>3, <1>4, PartsNext DEF Placed

LEMMA FindTargetKeeps == ASSUME IInv, FindTarget PROVE IInv'
<1>1. /\ pc = "target" /\ Active /\ Fixed /\ rev = 0 /\ turn = 0
      /\ inst' = inst /\ call' = call /\ cached' = cached /\ owed' = owed
      /\ written' = written /\ starved' = starved
      /\ inst = FALSE /\ call = NoCall
      /\ request \in Requests /\ at \in DOMAIN request.paths
      /\ answer = "pending"
  BY DEF FindTarget, Active, IInv, RequestAtHand, LoopsInPlace, InstanceInPlace,
         CallInPlace, Invoking
<1>2. DataTyped' /\ NewestRevision'
  BY <1>1, Types, NewestKept DEF IInv, DataTyped, Fixed
<1>3. Target \in Targets
  BY <1>1, PathParts DEF Target
<1>4. CASE Target = "nonscriptable" /\ Last = 0
  <2>1. PathFails("unknown")
    BY <1>4 DEF FindTarget
  <2> QED
    BY <1>1, <1>2, <2>1, PathFailsPlaces, PartsNext
<1>5. CASE Target = "nonscriptable" /\ Last # 0
  <2>1. /\ turn' = 1 /\ inner' = "none" /\ pc' = "member" /\ at' = at
        /\ rev' = rev /\ lastErr' = lastErr /\ answer' = answer
    BY <1>5 DEF FindTarget
  <2>2. WalkTyped'
    BY <1>5, <2>1, DispatchAssumption DEF IInv, TypeOK, WalkTyped
  <2>3. RequestAtHand'
    BY <1>1, <2>1 DEF RequestAtHand, Active, Fixed
  <2>4. Target' = Target
    BY <1>1, <2>1 DEF Target, Fixed
  <2>5. LoopsInPlace'
    BY <1>1, <1>5, <2>1, <2>4 DEF LoopsInPlace, Active
  <2>6. InstanceInPlace' /\ CallInPlace'
    BY <1>1, <2>1 DEF InstanceInPlace, CallInPlace, Invoking, NoCall
  <2> QED
    BY <1>2, <2>2, <2>3, <2>5, <2>6, PartsNext DEF Placed
<1>6. CASE Target \in Interfaces /\ cached[Target] = 0
  <2>1. /\ rev' = Max[Target] /\ pc' = "member" /\ at' = at /\ turn' = turn
        /\ inner' = inner /\ lastErr' = lastErr /\ answer' = answer
    BY <1>6 DEF FindTarget, Interfaces
  <2>2. Max[Target] \in Nat \ {0}
    BY <1>6, DispatchAssumption
  <2>3. WalkTyped'
    BY <2>1, <2>2 DEF IInv, TypeOK, WalkTyped
  <2>4. RequestAtHand'
    BY <1>1, <2>1 DEF RequestAtHand, Active, Fixed
  <2>5. Target' = Target
    BY <1>1, <2>1 DEF Target, Fixed
  <2>6. rev' # 0 /\ rev' \in 1..Max[Target] /\ NoneNewer'
    BY <2>1, <2>2, <2>5 DEF NoneNewer
  <2>7. LoopsInPlace' /\ InstanceInPlace' /\ CallInPlace'
    BY <1>1, <1>6, <2>1, <2>5, <2>6
    DEF LoopsInPlace, InstanceInPlace, CallInPlace, Active, Invoking, NoCall
  <2> QED
    BY <1>2, <2>3, <2>4, <2>7, PartsNext DEF Placed
<1>7. CASE Target # "nonscriptable" /\ ~(Target \in Interfaces /\ cached[Target] = 0)
  <2>1. /\ rev' = rev /\ pc' = "member" /\ at' = at /\ turn' = turn
        /\ inner' = inner /\ lastErr' = lastErr /\ answer' = answer
    BY <1>7 DEF FindTarget, GoTo, walk
  <2>2. WalkTyped'
    BY <2>1 DEF IInv, TypeOK, WalkTyped
  <2>3. RequestAtHand'
    BY <1>1, <2>1 DEF RequestAtHand, Active, Fixed
  <2>4. Target' = Target
    BY <1>1, <2>1 DEF Target, Fixed
  <2>5. LoopsInPlace' /\ InstanceInPlace' /\ CallInPlace'
    BY <1>1, <1>3, <1>7, <2>1, <2>4
    DEF LoopsInPlace, InstanceInPlace, CallInPlace, Active, Invoking, NoCall,
        Targets
  <2> QED
    BY <1>2, <2>2, <2>3, <2>5, PartsNext DEF Placed
<1> QED
  BY <1>4, <1>5, <1>6, <1>7 DEF Interfaces

LEMMA FindMemberKeeps == ASSUME IInv, FindMember PROVE IInv'
<1>1. /\ pc = "member" /\ Active /\ Fixed
      /\ inst' = inst /\ call' = call /\ cached' = cached /\ owed' = owed
      /\ written' = written /\ starved' = starved
      /\ inst = FALSE /\ call = NoCall
  BY DEF FindMember, Active, IInv, InstanceInPlace, CallInPlace, Invoking
<1>2. DataTyped' /\ NewestRevision'
  BY <1>1, Types, NewestKept DEF IInv, DataTyped, Fixed
<1>3. CASE Says # "unknown" /\ turn # 0
  <2>1. GoTo("instance")
    BY <1>3 DEF FindMember
  <2>2. /\ WalkTyped' /\ RequestAtHand' /\ LoopsInPlace' /\ turn' = turn
        /\ pc' = "instance"
    BY <1>1, <1>3, <2>1, GoToPlaces DEF Invoking
  <2> QED
    BY <1>1, <1>2, <2>2, PartsNext
    DEF Placed, InstanceInPlace, CallInPlace, Invoking, NoCall
<1>4. CASE Says # "unknown" /\ turn = 0
  <2>1. GoTo("convert")
    BY <1>4 DEF FindMember
  <2>2. /\ WalkTyped' /\ RequestAtHand' /\ LoopsInPlace' /\ turn' = turn
        /\ pc' = "convert"
    BY <1>1, <1>4, <2>1, GoToPlaces DEF Invoking
  <2> QED
    BY <1>1, <1>2, <1>4, <2>2, PartsNext
    DEF Placed, InstanceInPlace, CallInPlace, Invoking, NoCall
<1>5. CASE Says = "unknown" /\ rev # 0
  <2>1. RevisionFails /\ ctl.gives[<<Target, rev>>] # "object"
    BY <1>5 DEF FindMember, Says
  <2> QED
    BY <1>1, <1>2, <1>5, <2>1, RevisionFailsPlaces, PartsNext
<1>6. CASE Says = "unknown" /\ rev = 0 /\ turn # 0
  <2>1. TurnFails(inner) /\ inner \in {"none", "failed"}
    BY <1>6 DEF FindMember, IInv, TypeOK
  <2> QED
    BY <1>1, <1>2, <1>6, <2>1, TurnFailsPlaces, PartsNext
<1>7. CASE Says = "unknown" /\ rev = 0 /\ turn = 0
  <2>1. PathFails("unknown")
    BY <1>7 DEF FindMember
  <2> QED
    BY <1>1, <1>2, <2>1, PathFailsPlaces, PartsNext
<1> QED
  BY <1>3, <1>4, <1>5, <1>6, <1>7

LEMMA FindInstanceKeeps == ASSUME IInv, FindInstance PROVE IInv'
<1>1. /\ pc = "instance" /\ Active /\ Fixed /\ turn # 0
      /\ call' = call /\ cached' = cached /\ written' = written
      /\ starved' = starved /\ inst = FALSE /\ call = NoCall
  BY DEF FindInstance, Active, IInv, LoopsInPlace, InstanceInPlace, CallInPlace,
         Invoking
<1>2. CASE ctl.has[turn]
  <2>1. /\ inst' = TRUE /\ owed' = Ledger(owed, {<<"instance", 0>>}, {})
        /\ GoTo("convert")
    BY <1>2 DEF FindInstance
  <2>2. /\ WalkTyped' /\ RequestAtHand' /\ LoopsInPlace' /\ turn' = turn
        /\ pc' = "convert"
    BY <1>1, <2>1, GoToPlaces DEF Invoking
  <2>3. owed' \in [Things -> Int]
    BY <2>1, LedgerType DEF IInv, TypeOK
  <2>4. DataTyped' /\ NewestRevision'
    BY <1>1, <2>1, <2>3, Types, NewestKept DEF IInv, DataTyped, Fixed
  <2> QED
    BY <1>1, <2>1, <2>2, <2>4, PartsNext
    DEF Placed, InstanceInPlace, CallInPlace, Invoking, NoCall
<1>3. CASE ~ctl.has[turn]
  <2>1. TurnFails("failed") /\ inst' = inst /\ owed' = owed
    BY <1>3 DEF FindInstance
  <2>2. DataTyped' /\ NewestRevision'
    BY <1>1, <2>1, Types, NewestKept DEF IInv, DataTyped, Fixed
  <2> QED
    BY <1>1, <2>1, <2>2, TurnFailsPlaces, PartsNext
<1> QED
  BY <1>2, <1>3

LEMMA ConvertKeeps == ASSUME IInv, Convert PROVE IInv'
<1>1. /\ pc = "convert" /\ Active /\ Fixed /\ GoTo("invoke") /\ inst' = inst
      /\ cached' = cached /\ written' = written /\ starved' = starved
      /\ inst = (turn # 0)
  BY DEF Convert, Active, IInv, InstanceInPlace, Invoking
<1>2. /\ WalkTyped' /\ RequestAtHand' /\ LoopsInPlace' /\ turn' = turn
      /\ pc' = "invoke"
  BY <1>1, GoToPlaces DEF Invoking
<1>3. call' = [NoCall EXCEPT !.vars = Slots(Args, Len(Args))]
      /\ owed' = Ledger(owed, Strings(call'.vars), {})
  BY DEF Convert
<1>4. /\ call' \in CallType /\ call'.ex = {} /\ call'.result = "nothing"
      /\ call'.error = FALSE
  <2>1. Slots(Args, Len(Args)) \in [1..Arity -> {"empty", "number", "string"}]
    BY <1>1, SaysArgs, SlotsType
  <2> QED
    BY <1>3, <2>1 DEF NoCall, CallType
<1>5. owed' \in [Things -> Int]
  BY <1>3, LedgerType DEF IInv, TypeOK
<1>6. DataTyped' /\ NewestRevision'
  BY <1>1, <1>4, <1>5, Types, NewestKept DEF IInv, DataTyped, Fixed
<1>7. InstanceInPlace' /\ CallInPlace'
  BY <1>1, <1>2, <1>4 DEF InstanceInPlace, CallInPlace, Unused, Invoking
<1> QED
  BY <1>2, <1>6, <1>7, PartsNext DEF Placed

LEMMA ConvertFailsKeeps == ASSUME IInv, ConvertFails PROVE IInv'
<1>1. /\ pc = "convert" /\ Active /\ Fixed /\ GoTo("back") /\ inst' = inst
      /\ cached' = cached /\ written' = written /\ starved' = TRUE
      /\ inst = (turn # 0)
      /\ call' = [NoCall EXCEPT !.error = TRUE]
  BY DEF ConvertFails, Active, IInv, InstanceInPlace, Invoking
<1>2. /\ WalkTyped' /\ RequestAtHand' /\ LoopsInPlace' /\ turn' = turn
      /\ pc' = "back"
  BY <1>1, GoToPlaces DEF Invoking
<1>3. owed' \in [Things -> Int]
  BY LedgerType DEF IInv, TypeOK, ConvertFails
<1>4. /\ call' \in CallType /\ call'.ex = {} /\ call'.result = "nothing"
      /\ call'.vars = NoCall.vars
  BY <1>1, NoCallType DEF NoCall, CallType
<1>5. DataTyped' /\ NewestRevision'
  BY <1>1, <1>3, <1>4, Types, NewestKept DEF IInv, DataTyped, Fixed
<1>6. InstanceInPlace' /\ CallInPlace'
  BY <1>1, <1>2, <1>4 DEF InstanceInPlace, CallInPlace, Unused, Invoking
<1> QED
  BY <1>2, <1>5, <1>6, PartsNext DEF Placed

LEMMA InvokeKeeps == ASSUME IInv, Invoke PROVE IInv'
<1>1. /\ pc = "invoke" /\ Active /\ Fixed /\ GoTo("return") /\ inst' = inst
      /\ cached' = cached /\ starved' = starved /\ inst = (turn # 0)
      /\ call \in CallType /\ Unused(call) /\ ~call.error
      /\ written' = IF rev # 0 THEN written ELSE at
  BY DEF Invoke, Active, IInv, TypeOK, CallType, InstanceInPlace, CallInPlace,
         Invoking
<1>2. /\ WalkTyped' /\ RequestAtHand' /\ LoopsInPlace' /\ turn' = turn
      /\ pc' = "return"
  BY <1>1, GoToPlaces DEF Invoking
<1>3. PICK result \in Results :
        /\ call' = [call EXCEPT !.result = result]
        /\ owed' = Ledger(owed, ResultThing(result, Target, rev), {})
  BY DEF Invoke
<1>4. result \in {"nothing", "integer", "string", "object"}
      /\ (turn # 0 => result = "nothing")
  BY DEF Results, IInv, LoopsInPlace
<1>5. /\ call' \in CallType /\ call'.ex = {} /\ call'.result = result
      /\ ~call'.error
  BY <1>1, <1>3, <1>4 DEF CallType, Unused
<1>6. owed' \in [Things -> Int] /\ written' \in Nat
  BY <1>1, <1>3, LedgerType DEF IInv, TypeOK
<1>7. DataTyped' /\ NewestRevision'
  BY <1>1, <1>5, <1>6, Types, NewestKept DEF IInv, DataTyped, Fixed
<1>8. InstanceInPlace' /\ CallInPlace'
  BY <1>1, <1>2, <1>4, <1>5 DEF InstanceInPlace, CallInPlace, Invoking
<1> QED
  BY <1>2, <1>7, <1>8, PartsNext DEF Placed

LEMMA InvokeFailsKeeps == ASSUME IInv, InvokeFails PROVE IInv'
<1>1. /\ pc = "invoke" /\ Active /\ Fixed /\ GoTo("exception")
      /\ inst' = inst /\ cached' = cached /\ written' = written
      /\ starved' = starved /\ inst = (turn # 0)
      /\ call \in CallType /\ Unused(call)
  BY DEF InvokeFails, Active, IInv, TypeOK, CallType, InstanceInPlace,
         CallInPlace, Invoking
<1>2. /\ WalkTyped' /\ RequestAtHand' /\ LoopsInPlace' /\ turn' = turn
      /\ pc' = "exception"
  BY <1>1, GoToPlaces DEF Invoking
<1>3. PICK ex \in SUBSET ExceptionTexts :
        /\ call' = [call EXCEPT !.ex = ex, !.error = TRUE]
        /\ owed' = Ledger(owed, Texts(ex), {})
  BY DEF InvokeFails
<1>4. call' \in CallType /\ call'.result = "nothing" /\ call'.error
  BY <1>1, <1>3 DEF CallType, Unused
<1>5. owed' \in [Things -> Int]
  BY <1>3, LedgerType DEF IInv, TypeOK
<1>6. DataTyped' /\ NewestRevision'
  BY <1>1, <1>4, <1>5, Types, NewestKept DEF IInv, DataTyped, Fixed
<1>7. InstanceInPlace' /\ CallInPlace'
  BY <1>1, <1>2, <1>4 DEF InstanceInPlace, CallInPlace, Invoking
<1> QED
  BY <1>2, <1>6, <1>7, PartsNext DEF Placed

LEMMA FreeExceptionKeeps == ASSUME IInv, FreeException PROVE IInv'
<1>1. /\ pc = "exception" /\ Active /\ Fixed /\ GoTo("return")
      /\ inst' = inst /\ cached' = cached /\ written' = written
      /\ starved' = starved /\ inst = (turn # 0)
      /\ call \in CallType /\ call.result = "nothing"
      /\ call' = [call EXCEPT !.ex = {}]
      /\ owed' = Ledger(owed, {}, Texts(call.ex))
  BY DEF FreeException, Active, IInv, TypeOK, CallType, InstanceInPlace,
         CallInPlace, Invoking
<1>2. /\ WalkTyped' /\ RequestAtHand' /\ LoopsInPlace' /\ turn' = turn
      /\ pc' = "return"
  BY <1>1, GoToPlaces DEF Invoking
<1>3. call' \in CallType /\ call'.result = "nothing" /\ call'.ex = {}
  BY <1>1 DEF CallType
<1>4. owed' \in [Things -> Int]
  BY <1>1, LedgerType DEF IInv, TypeOK
<1>5. DataTyped' /\ NewestRevision'
  BY <1>1, <1>3, <1>4, Types, NewestKept DEF IInv, DataTyped, Fixed
<1>6. InstanceInPlace' /\ CallInPlace'
  BY <1>1, <1>2, <1>3 DEF InstanceInPlace, CallInPlace, Invoking
<1> QED
  BY <1>2, <1>5, <1>6, PartsNext DEF Placed

LEMMA ReleaseKeeps == ASSUME IInv, ReleaseArguments PROVE IInv'
<1>1. /\ pc = "return" /\ Active /\ Fixed /\ GoTo("back")
      /\ inst' = inst /\ cached' = cached /\ written' = written
      /\ starved' = starved /\ inst = (turn # 0)
      /\ call \in CallType /\ call.ex = {}
      /\ (call.error \/ turn # 0 => call.result = "nothing")
      /\ call' = [call EXCEPT !.vars = NoCall.vars]
      /\ owed' = Ledger(owed, {}, Strings(call.vars))
  BY DEF ReleaseArguments, Active, IInv, TypeOK, CallType, InstanceInPlace,
         CallInPlace, Invoking
<1>2. /\ WalkTyped' /\ RequestAtHand' /\ LoopsInPlace' /\ turn' = turn
      /\ pc' = "back"
  BY <1>1, GoToPlaces DEF Invoking
<1>3. /\ call' \in CallType /\ call'.ex = {} /\ call'.vars = NoCall.vars
      /\ call'.result = call.result /\ call'.error = call.error
  BY <1>1, NoCallType DEF CallType
<1>4. owed' \in [Things -> Int]
  BY <1>1, LedgerType DEF IInv, TypeOK
<1>5. DataTyped' /\ NewestRevision'
  BY <1>1, <1>3, <1>4, Types, NewestKept DEF IInv, DataTyped, Fixed
<1>6. InstanceInPlace' /\ CallInPlace'
  BY <1>1, <1>2, <1>3 DEF InstanceInPlace, CallInPlace, Invoking
<1> QED
  BY <1>2, <1>5, <1>6, PartsNext DEF Placed

\* What is known at a step of what the control answers to this call.
AnswerInPlace ==
  /\ pc \in Invoking \cup {"instance"} => Says # "unknown"
  /\ turn # 0 /\ pc \in Invoking => ctl.has[turn]
  /\ pc = "exception" => Says = "refuses"
  /\ pc \in {"return", "back"} =>
       IF call.error THEN Says = "refuses" \/ (starved /\ rev = 0)
       ELSE Says # "refuses" /\ (rev # 0 => (Says = "object" <=> call.result = "object"))
  /\ Active => written = IF /\ pc \in {"return", "back"}
                           /\ rev = 0 /\ ~call.error THEN at ELSE 0

LEMMA BackInFetchKeeps == ASSUME IInv, AnswerInPlace, BackInFetch PROVE IInv'
<1>1. /\ pc = "back" /\ Active /\ Fixed /\ rev # 0 /\ call' = NoCall
      /\ inst' = inst /\ written' = written /\ starved' = starved
      /\ turn = 0 /\ inst = FALSE /\ NoneNewer /\ rev \in 1..Max[Target]
      /\ Target \in Interfaces /\ call \in CallType
      /\ cached \in [Interfaces -> Nat] /\ owed \in [Things -> Int]
      /\ ctl \in Control
  BY DispatchAssumption
  DEF BackInFetch, Active, IInv, TypeOK, CallType, LoopsInPlace,
      InstanceInPlace, Invoking
<1>2. CASE call.result = "object"
  <2>1. /\ cached' = [cached EXCEPT ![Target] = rev] /\ owed' = owed
        /\ rev' = 0 /\ pc' = "member" /\ at' = at /\ turn' = turn
        /\ inner' = inner /\ lastErr' = lastErr /\ answer' = answer
    BY <1>2 DEF BackInFetch
  <2>2. WalkTyped'
    BY <2>1 DEF IInv, TypeOK, WalkTyped
  <2>3. RequestAtHand'
    BY <1>1, <2>1, Framed DEF IInv, Active
  <2>4. Target' = Target
    BY <1>1, <2>1 DEF Target, Fixed
  <2>5. rev \in Nat /\ cached' \in [Interfaces -> Nat] /\ cached'[Target] = rev
    BY <1>1, <2>1 DEF IInv, TypeOK
  <2>6. LoopsInPlace'
    BY <1>1, <2>1, <2>4, <2>5 DEF LoopsInPlace, Active
  <2>7. InstanceInPlace' /\ CallInPlace'
    BY <1>1, <2>1 DEF InstanceInPlace, CallInPlace, Invoking, NoCall
  <2>8. DataTyped'
    BY <1>1, <2>1, <2>5, Types, NoCallType DEF IInv, DataTyped, Fixed
  <2>9. ctl.gives[<<Target, rev>>] = "object"
    <3>1. Says = "object"
      BY <1>1, <1>2, Types DEF AnswerInPlace, IInv, CallInPlace
    <3> QED
      BY <1>1, <3>1 DEF Says
  <2>10. Newest(ctl, Target) = rev
    BY <1>1, <2>9, NewestIs DEF NoneNewer
  <2>11. NewestRevision'
    <3>1. ASSUME NEW i \in Interfaces PROVE cached'[i] \in {0, Newest(ctl, i)}
      <4>1. CASE i = Target
        BY <4>1, <2>5, <2>10
      <4>2. CASE i # Target
        BY <4>2, <1>1, <2>1 DEF IInv, NewestRevision
      <4> QED
        BY <4>1, <4>2
    <3> QED
      BY <1>1, <3>1 DEF NewestRevision, Fixed
  <2> QED
    BY <2>2, <2>3, <2>6, <2>7, <2>8, <2>11, PartsNext DEF Placed
<1>3. CASE call.result # "object"
  <2>1. /\ owed' = Ledger(owed, {}, ResultThing(call.result, Target, rev))
        /\ cached' = cached /\ RevisionFails
    BY <1>3 DEF BackInFetch
  <2>2. ctl.gives[<<Target, rev>>] # "object"
    BY <1>1, <1>3 DEF AnswerInPlace, Says
  <2>3. Placed'
    BY <1>1, <2>1, <2>2, RevisionFailsPlaces
  <2>4. DataTyped' /\ NewestRevision'
    BY <1>1, <2>1, LedgerType, Types, NoCallType, NewestKept
    DEF IInv, DataTyped, Fixed
  <2> QED
    BY <2>3, <2>4, PartsNext
<1> QED
  BY <1>2, <1>3

LEMMA BackInTurnKeeps == ASSUME IInv, BackInTurn PROVE IInv'
<1>1. /\ pc = "back" /\ Active /\ Fixed /\ turn # 0 /\ call' = NoCall
      /\ inst' = FALSE /\ written' = written /\ starved' = starved
      /\ cached' = cached /\ owed' = Ledger(owed, {}, {<<"instance", 0>>})
  BY DEF BackInTurn, Active
<1>2. DataTyped' /\ NewestRevision'
  BY <1>1, LedgerType, Types, NoCallType, NewestKept DEF IInv, DataTyped, Fixed
<1>3. CASE call.error
  BY <1>1, <1>2, <1>3, TurnFailsPlaces, PartsNext DEF BackInTurn
<1>4. CASE ~call.error
  BY <1>1, <1>2, <1>4, SucceedPlaces, PartsNext DEF BackInTurn
<1> QED
  BY <1>3, <1>4

LEMMA BackInRequestKeeps == ASSUME IInv, BackInRequest PROVE IInv'
<1>1. /\ pc = "back" /\ Active /\ Fixed /\ turn = 0 /\ call' = NoCall
      /\ inst' = inst /\ written' = written /\ starved' = starved
      /\ cached' = cached /\ inst = FALSE
      /\ owed' = Ledger(owed, {}, ResultThing(call.result, Target, rev))
  BY DEF BackInRequest, Active, IInv, InstanceInPlace
<1>2. DataTyped' /\ NewestRevision'
  BY <1>1, LedgerType, Types, NoCallType, NewestKept DEF IInv, DataTyped, Fixed
<1>3. CASE call.error
  BY <1>1, <1>2, <1>3, PathFailsPlaces, PartsNext DEF BackInRequest
<1>4. CASE ~call.error
  <2>1. PICK e \in {"nil", "failed"} : Succeed(e)
    BY <1>4 DEF BackInRequest
  <2> QED
    BY <1>1, <1>2, <2>1, SucceedPlaces, PartsNext
<1> QED
  BY <1>3, <1>4

LEMMA CloseKeeps == ASSUME IInv, Close PROVE IInv'
<1>1. /\ pc = "idle" /\ pc' = "closed" /\ request' = request
      /\ answer' = answer /\ at' = at /\ rev' = rev /\ turn' = turn
      /\ inner' = inner /\ lastErr' = lastErr /\ inst' = inst /\ call' = call
      /\ written' = written /\ starved' = starved /\ ctl' = ctl
      /\ owed' = Ledger(owed, {}, References(cached))
      /\ cached' = [i \in Interfaces |-> 0]
  BY DEF Close, walk
<1>2. owed' \in [Things -> Int] /\ cached' \in [Interfaces -> Nat]
  BY <1>1, LedgerType DEF IInv, TypeOK
<1>3. WalkTyped' /\ DataTyped'
  BY <1>1, <1>2, Types DEF IInv, WalkTyped, DataTyped
<1>4. RequestAtHand' /\ LoopsInPlace' /\ InstanceInPlace'
  BY <1>1 DEF IInv, RequestAtHand, LoopsInPlace, InstanceInPlace, Active,
              Invoking
<1>5. CallInPlace' /\ NewestRevision'
  BY <1>1 DEF IInv, CallInPlace, NewestRevision, Invoking, NoCall
<1> QED
  BY <1>3, <1>4, <1>5, PartsNext DEF Placed

LEMMA StutterKeeps == ASSUME IInv, UNCHANGED vars PROVE IInv'
<1>1. WalkTyped' /\ DataTyped'
  BY Types DEF IInv, WalkTyped, DataTyped, vars, walk
<1>2. RequestAtHand' /\ LoopsInPlace'
  BY DEF IInv, vars, walk, RequestAtHand, LoopsInPlace, NoneNewer, Target, Active
<1>3. InstanceInPlace' /\ CallInPlace'
  BY DEF IInv, vars, walk, InstanceInPlace, CallInPlace, Unused
<1>4. NewestRevision'
  BY NewestKept DEF IInv, vars
<1> QED
  BY <1>1, <1>2, <1>3, <1>4, PartsNext DEF Placed

------------------------------------------------------------------------------
(* What is known of the control's answer.                                    *)

LEMMA SaysKept ==
  ASSUME Fixed, UNCHANGED walk, cached' = cached
  PROVE  Says' = Says /\ Args' = Args /\ Target' = Target
BY DEF Says, Args, Object, Target, Name, walk, Fixed

LEMMA AnswerReset ==
  ASSUME pc' \in {"target", "member", "idle", "closed"}, Active' => written' = 0
  PROVE  AnswerInPlace'
BY DEF AnswerInPlace, Invoking

LEMMA PathFailsResets ==
  ASSUME written' = 0, NEW e, PathFails(e)
  PROVE  AnswerInPlace'
BY AnswerReset DEF PathFails

LEMMA RevisionFailsResets ==
  ASSUME written' = 0, RevisionFails
  PROVE  AnswerInPlace'
BY AnswerReset, PathFailsResets DEF RevisionFails

LEMMA TurnFailsResets ==
  ASSUME written' = 0, NEW e, TurnFails(e)
  PROVE  AnswerInPlace'
BY AnswerReset, PathFailsResets DEF TurnFails

LEMMA SucceedResets == ASSUME NEW e, Succeed(e) PROVE AnswerInPlace'
BY AnswerReset DEF Succeed, Active

\* Before Invoke has succeeded nothing has been written.
LEMMA Unwritten ==
  ASSUME AnswerInPlace, Active,
         pc \notin {"return", "back"} \/ rev # 0 \/ call.error
  PROVE  written = 0
BY DEF AnswerInPlace

LEMMA AnswerByFinding ==
  ASSUME IInv, AnswerInPlace, FindTarget \/ FindMember \/ FindInstance
  PROVE  AnswerInPlace'
<1>1. written' = 0
  BY Unwritten DEF FindTarget, FindMember, FindInstance, Active
<1>2. CASE FindTarget
  <2>1. CASE Target = "nonscriptable" /\ Last = 0
    BY <1>1, <1>2, <2>1, PathFailsResets DEF FindTarget
  <2>2. CASE ~(Target = "nonscriptable" /\ Last = 0)
    <3>1. pc' = "member"
      BY <1>2, <2>2 DEF FindTarget, GoTo
    <3> QED
      BY <1>1, <3>1, AnswerReset
  <2> QED
    BY <2>1, <2>2
<1>3. CASE FindMember
  <2>1. CASE Says # "unknown"
    <3>1. GoTo(IF turn # 0 THEN "instance" ELSE "convert") /\ Fixed
          /\ cached' = cached
      BY <1>3, <2>1 DEF FindMember
    <3>2. /\ Says' = Says /\ turn' = turn
          /\ pc' = IF turn # 0 THEN "instance" ELSE "convert"
      BY <3>1, SaysKept DEF GoTo, walk
    <3> QED
      BY <1>1, <2>1, <3>2 DEF AnswerInPlace, Invoking
  <2>2. CASE Says = "unknown"
    BY <1>1, <1>3, <2>2, PathFailsResets, RevisionFailsResets, TurnFailsResets
    DEF FindMember
  <2> QED
    BY <2>1, <2>2
<1>4. CASE FindInstance
  <2>1. CASE ctl.has[turn]
    <3>1. GoTo("convert") /\ Fixed /\ cached' = cached /\ pc = "instance"
      BY <1>4, <2>1 DEF FindInstance
    <3>2. Says' = Says /\ turn' = turn /\ pc' = "convert" /\ ctl' = ctl
      BY <3>1, SaysKept DEF GoTo, walk, Fixed
    <3> QED
      BY <1>1, <2>1, <3>1, <3>2 DEF AnswerInPlace, Invoking
  <2>2. CASE ~ctl.has[turn]
    BY <1>1, <1>4, <2>2, TurnFailsResets DEF FindInstance
  <2> QED
    BY <2>1, <2>2
<1> QED
  BY <1>2, <1>3, <1>4

LEMMA AnswerByCalling ==
  ASSUME IInv, AnswerInPlace,
         \/ Convert \/ ConvertFails \/ Invoke \/ InvokeFails
         \/ FreeException \/ ReleaseArguments
  PROVE  AnswerInPlace'
<1>1. /\ Fixed /\ UNCHANGED walk /\ cached' = cached /\ answer' = answer
      /\ pc \in Invoking \ {"back"} /\ pc' \in Invoking
  BY DEF Convert, ConvertFails, Invoke, InvokeFails, FreeException,
         ReleaseArguments, GoTo, Invoking
<1>2. /\ Says' = Says /\ ctl' = ctl /\ turn' = turn /\ rev' = rev /\ at' = at
      /\ Active
  BY <1>1, SaysKept DEF walk, Fixed, Active, Invoking
<1>3. Says # "unknown" /\ (turn # 0 => ctl.has[turn])
  BY <1>1 DEF AnswerInPlace
<1>4. CASE Convert
  <2>1. pc' = "invoke" /\ written' = written /\ written = 0
    BY <1>2, <1>4, Unwritten DEF Convert, GoTo
  <2> QED
    BY <1>2, <1>3, <2>1 DEF AnswerInPlace
<1>5. CASE ConvertFails
  <2>1. pc' = "back" /\ written' = written /\ written = 0 /\ starved' = TRUE
    BY <1>2, <1>5, Unwritten DEF ConvertFails, GoTo
  <2>2. call'.error
    BY <1>5 DEF ConvertFails, NoCall
  <2>3. rev = 0
    BY <1>5 DEF ConvertFails, Args
  <2> QED
    BY <1>2, <1>3, <2>1, <2>2, <2>3 DEF AnswerInPlace
<1>6. CASE Invoke
  <2>1. /\ pc = "invoke" /\ pc' = "return" /\ Says # "refuses" /\ ~call.error
        /\ call \in CallType /\ written = 0
        /\ written' = IF rev # 0 THEN written ELSE at
    BY <1>2, <1>6, Unwritten
    DEF Invoke, GoTo, IInv, CallInPlace, TypeOK, CallType, Invoking
  <2>2. PICK result \in Results : call' = [call EXCEPT !.result = result]
    BY <1>6 DEF Invoke
  <2>3. call'.result = result /\ ~call'.error
    BY <2>1, <2>2 DEF CallType
  <2>4. rev # 0 => (Says = "object" <=> result = "object")
    BY <2>2 DEF Results
  <2> QED
    BY <1>2, <1>3, <2>1, <2>3, <2>4 DEF AnswerInPlace
<1>7. CASE InvokeFails
  <2>1. pc' = "exception" /\ written' = written /\ written = 0 /\ Says = "refuses"
    BY <1>2, <1>7, Unwritten DEF InvokeFails, GoTo
  <2> QED
    BY <1>2, <1>3, <2>1 DEF AnswerInPlace
<1>8. CASE FreeException
  <2>1. /\ pc = "exception" /\ pc' = "return" /\ written' = written
        /\ call.error /\ call \in CallType /\ call' = [call EXCEPT !.ex = {}]
    BY <1>8
    DEF FreeException, GoTo, IInv, CallInPlace, TypeOK, CallType, Invoking
  <2>2. call'.error /\ written = 0 /\ Says = "refuses"
    BY <1>2, <2>1, Unwritten DEF CallType, AnswerInPlace
  <2> QED
    BY <1>2, <1>3, <2>1, <2>2 DEF AnswerInPlace
<1>9. CASE ReleaseArguments
  <2>1. /\ pc = "return" /\ pc' = "back" /\ written' = written
        /\ starved' = starved /\ call \in CallType
        /\ call' = [call EXCEPT !.vars = NoCall.vars]
    BY <1>9 DEF ReleaseArguments, GoTo, IInv, TypeOK, CallType
  <2>2. call'.error = call.error /\ call'.result = call.result
    BY <2>1 DEF CallType
  <2>3. /\ written = IF rev = 0 /\ ~call.error THEN at ELSE 0
        /\ IF call.error THEN Says = "refuses" \/ (starved /\ rev = 0)
           ELSE /\ Says # "refuses"
                /\ rev # 0 => (Says = "object" <=> call.result = "object")
    BY <1>2, <2>1 DEF AnswerInPlace
  <2> QED
    BY <1>2, <1>3, <2>1, <2>2, <2>3 DEF AnswerInPlace
<1> QED
  BY <1>4, <1>5, <1>6, <1>7, <1>8, <1>9

LEMMA AnswerByReturning ==
  ASSUME IInv, AnswerInPlace, BackInFetch \/ BackInTurn \/ BackInRequest
  PROVE  AnswerInPlace'
<1>1. pc = "back" /\ Active /\ written' = written
  BY DEF BackInFetch, BackInTurn, BackInRequest, Active
<1>2. CASE BackInFetch
  <2>1. written' = 0
    BY <1>1, <1>2, Unwritten DEF BackInFetch
  <2>2. RevisionFails \/ pc' = "member"
    BY <1>2 DEF BackInFetch
  <2> QED
    BY <2>1, <2>2, RevisionFailsResets, AnswerReset
<1>3. CASE BackInTurn
  <2>1. CASE call.error
    BY <1>1, <1>3, <2>1, Unwritten, TurnFailsResets DEF BackInTurn
  <2>2. CASE ~call.error
    BY <1>3, <2>2, SucceedResets DEF BackInTurn
  <2> QED
    BY <2>1, <2>2
<1>4. CASE BackInRequest
  <2>1. CASE call.error
    BY <1>1, <1>4, <2>1, Unwritten, PathFailsResets DEF BackInRequest
  <2>2. CASE ~call.error
    BY <1>4, <2>2, SucceedResets DEF BackInRequest
  <2> QED
    BY <2>1, <2>2
<1> QED
  BY <1>2, <1>3, <1>4

LEMMA AnswerByOthers ==
  ASSUME IInv, AnswerInPlace,
         Ask \/ ControlChanges \/ Close \/ UNCHANGED vars
  PROVE  AnswerInPlace'
<1>1. CASE Ask
  BY <1>1, AnswerReset DEF Ask
<1>2. CASE ControlChanges \/ Close
  BY <1>2, AnswerReset DEF ControlChanges, Close, Active
<1>3. CASE UNCHANGED vars
  <2>1. Says' = Says
    BY <1>3, SaysKept DEF vars, Fixed
  <2> QED
    BY <1>3, <2>1 DEF AnswerInPlace, vars, walk, Active
<1> QED
  BY <1>1, <1>2, <1>3

Inv == IInv /\ AnswerInPlace

LEMMA InitInv == Init => Inv
<1> SUFFICES ASSUME Init PROVE Inv
  OBVIOUS
<1>1. AnswerInPlace
  BY DEF Init, AnswerInPlace, Active, Invoking
<1> QED
  BY <1>1, InitKeeps DEF Inv

LEMMA StepInv == Inv /\ [Next]_vars => Inv'
<1> SUFFICES ASSUME Inv, [Next]_vars PROVE Inv'
  OBVIOUS
<1> USE DEF Inv
<1>1. CASE FindTarget \/ FindMember \/ FindInstance
  BY <1>1, FindTargetKeeps, FindMemberKeeps, FindInstanceKeeps, AnswerByFinding
<1>2. CASE \/ Convert \/ ConvertFails \/ Invoke \/ InvokeFails
           \/ FreeException \/ ReleaseArguments
  BY <1>2, ConvertKeeps, ConvertFailsKeeps, InvokeKeeps, InvokeFailsKeeps,
     FreeExceptionKeeps, ReleaseKeeps, AnswerByCalling
<1>3. CASE BackInFetch \/ BackInTurn \/ BackInRequest
  BY <1>3, BackInFetchKeeps, BackInTurnKeeps, BackInRequestKeeps,
     AnswerByReturning
<1>4. CASE Ask \/ ControlChanges \/ Close \/ UNCHANGED vars
  BY <1>4, AskKeeps, ChangeKeeps, CloseKeeps, StutterKeeps, AnswerByOthers
<1> QED
  BY <1>1, <1>2, <1>3, <1>4 DEF Next, Proceed, Closed

THEOREM InvTheorem == Spec => []Inv
<1> QED
  BY InitInv, StepInv, PTL DEF Spec

\* Every variable keeps its type.
THEOREM TypeCorrect == Spec => []TypeOK
<1>1. Inv => TypeOK
  BY DEF Inv, IInv
<1> QED
  BY <1>1, InvTheorem, PTL

\* An interface is held in the newest revision the control hands out.
THEOREM NewestRevisionTheorem == Spec => []NewestRevision
<1>1. Inv => NewestRevision
  BY DEF Inv, IInv
<1> QED
  BY <1>1, InvTheorem, PTL

------------------------------------------------------------------------------
(* The ledger.                                                               *)

\* Things of different origins are different.
LEMMA StringsApart == ASSUME NEW v, NEW t \in Strings(v) PROVE t[1] = "argument"
BY DEF Strings

LEMMA TextsApart ==
  ASSUME NEW e \in SUBSET ExceptionTexts, NEW t \in Texts(e)
  PROVE  t[1] \in ExceptionTexts
BY DEF Texts

LEMMA ResultsApart ==
  ASSUME NEW result, NEW i, NEW r, NEW t \in ResultThing(result, i, r)
  PROVE  IF r = 0 THEN t[1] = "result" ELSE t[1] \in {"result", i}
BY DEF ResultThing

LEMMA ReferencesApart ==
  ASSUME NEW c, NEW t \in References(c)
  PROVE  t[1] \in Interfaces /\ c[t[1]] # 0
BY DEF References

LEMMA NoStrings == Strings(NoCall.vars) = {}
BY DEF Strings, NoCall

LEMMA NoResult == ASSUME NEW i, NEW r PROVE ResultThing("nothing", i, r) = {}
BY DEF ResultThing

\* Between calls only the cached interfaces are held.
LEMMA HeldAtRest ==
  ASSUME NEW c, c.vars = NoCall.vars, c.ex = {}, c.result = "nothing",
         NEW i, NEW r, NEW cache
  PROVE  HeldBy(c, i, r, FALSE, cache) = References(cache)
BY NoStrings, NoResult DEF HeldBy, Texts

LEMMA NoCallParts ==
  NoCall.ex = {} /\ NoCall.result = "nothing" /\ NoCall.error = FALSE
BY DEF NoCall

\* What a step does to the ledger it must do to what is held.
LEMMA BalancedStep ==
  ASSUME Balanced, NEW got, NEW given, owed' = Ledger(owed, got, given),
         got \cap Held = {}, given \subseteq Held,
         Held' = (Held \cup got) \ given
  PROVE  Balanced'
BY LedgerStep DEF Balanced

LEMMA BalancedIdle ==
  ASSUME Balanced, owed' = owed, Held' = Held
  PROVE  Balanced'
BY DEF Balanced

\* Steps that call nothing.
LEMMA BalancedByFinding ==
  ASSUME IInv, Balanced,
         \/ Ask \/ ControlChanges \/ FindTarget \/ FindMember
         \/ FindInstance /\ ~ctl.has[turn]
  PROVE  Balanced'
<1>1. /\ owed' = owed /\ call' = call /\ inst' = inst /\ cached' = cached
      /\ pc \in {"idle", "target", "member", "instance"}
  BY DEF Ask, ControlChanges, FindTarget, FindMember, FindInstance
<1>2. call = NoCall /\ inst = FALSE
  BY <1>1 DEF IInv, CallInPlace, InstanceInPlace, Invoking
<1>3. Held = References(cached)
  BY <1>2, HeldAtRest, NoCallParts DEF Held
<1>4. Held' = References(cached')
  BY <1>1, <1>2, HeldAtRest, NoCallParts DEF Held
<1> QED
  BY <1>1, <1>3, <1>4, BalancedIdle

LEMMA BalancedByInstance ==
  ASSUME IInv, Balanced, FindInstance, ctl.has[turn]
  PROVE  Balanced'
<1>1. /\ owed' = Ledger(owed, {<<"instance", 0>>}, {}) /\ inst' = TRUE
      /\ call' = call /\ cached' = cached /\ call = NoCall /\ inst = FALSE
  BY DEF FindInstance, IInv, CallInPlace, InstanceInPlace, Invoking
<1>2. Held = References(cached)
  BY <1>1, HeldAtRest, NoCallParts DEF Held
<1>3. Held' = References(cached) \cup {<<"instance", 0>>}
  BY <1>1, NoCallParts, NoStrings, NoResult DEF Held, HeldBy, Texts
<1>4. <<"instance", 0>> \notin References(cached)
  BY ReferencesApart DEF Interfaces
<1> QED
  BY <1>1, <1>2, <1>3, <1>4, BalancedStep

\* The instance and the interfaces, held while a member is called.
Kept == (IF inst THEN {<<"instance", 0>>} ELSE {}) \cup References(cached)

LEMMA KeptApart ==
  ASSUME NEW t \in Kept PROVE t[1] = "instance" \/ t[1] \in Interfaces
BY ReferencesApart DEF Kept

LEMMA HeldParts ==
  Held = Strings(call.vars) \cup Texts(call.ex)
           \cup ResultThing(call.result, Target, rev) \cup Kept
BY DEF Held, HeldBy, Kept

LEMMA HeldPartsNext ==
  ASSUME inst' = inst, cached' = cached, Target' = Target, rev' = rev
  PROVE  Held' = Strings(call'.vars) \cup Texts(call'.ex)
                   \cup ResultThing(call'.result, Target, rev) \cup Kept
BY DEF Held, HeldBy, Kept

LEMMA CallingFrame ==
  ASSUME \/ Convert \/ ConvertFails \/ Invoke \/ InvokeFails
         \/ FreeException \/ ReleaseArguments
  PROVE  inst' = inst /\ cached' = cached /\ Target' = Target /\ rev' = rev
BY SaysKept
DEF Convert, ConvertFails, Invoke, InvokeFails, FreeException,
    ReleaseArguments, GoTo, walk

LEMMA BalancedByConvert == ASSUME IInv, Balanced, Convert PROVE Balanced'
<1>1. /\ owed' = Ledger(owed, Strings(call'.vars), {}) /\ call = NoCall
      /\ call'.ex = {} /\ call'.result = "nothing"
  BY DEF Convert, IInv, CallInPlace, Invoking, NoCall
<1>2. Held = Kept
  BY <1>1, HeldParts, NoCallParts, NoStrings, NoResult DEF Texts
<1>3. Held' = Strings(call'.vars) \cup Kept
  BY <1>1, CallingFrame, HeldPartsNext, NoResult DEF Texts
<1>4. Strings(call'.vars) \cap Kept = {}
  BY StringsApart, KeptApart DEF Interfaces
<1> QED
  BY <1>1, <1>2, <1>3, <1>4, BalancedStep

\* No string has been converted before the one that fails.
LEMMA NothingConverted ==
  ASSUME IInv, Active, NEW n \in DOMAIN Args, Args[n] = "string"
  PROVE  \A s \in 1..Arity : Slots(Args, n - 1)[s] = "empty"
<1>1. Len(Args) = 1 /\ n = 1
  BY SaysArgs
<1> QED
  BY <1>1, SaysArgs, DispatchAssumption DEF Slots

LEMMA BalancedByConvertFails ==
  ASSUME IInv, Balanced, ConvertFails PROVE Balanced'
<1>1. PICK n \in DOMAIN Args :
        /\ Args[n] = "string"
        /\ owed' = Ledger(owed, Strings(Slots(Args, n - 1)),
                          {<<"argument", s>> : s \in
                             {s \in 1..(n - 1) : Slots(Args, n - 1)[s] = "string"}})
  BY DEF ConvertFails
<1>2. Active /\ call = NoCall /\ call' = [NoCall EXCEPT !.error = TRUE]
  BY DEF ConvertFails, Active, IInv, CallInPlace, Invoking
<1>3. \A s \in 1..Arity : Slots(Args, n - 1)[s] = "empty"
  BY <1>1, <1>2, NothingConverted
<1>4. Strings(Slots(Args, n - 1)) = {}
  BY <1>3 DEF Strings
<1>5. {s \in 1..(n - 1) : Slots(Args, n - 1)[s] = "string"} = {}
  BY <1>1, <1>2, <1>3, SaysArgs, DispatchAssumption
<1>6. owed' = Ledger(owed, {}, {})
  BY <1>1, <1>4, <1>5
<1>7. call'.vars = NoCall.vars /\ call'.ex = {} /\ call'.result = "nothing"
  BY <1>2 DEF NoCall
<1>8. Held = Kept
  BY <1>2, HeldParts, NoCallParts, NoStrings, NoResult DEF Texts
<1>9. Held' = Kept
  BY <1>7, CallingFrame, HeldPartsNext, NoStrings, NoResult DEF Texts
<1> QED
  BY <1>6, <1>8, <1>9, BalancedStep

LEMMA BalancedByInvoke == ASSUME IInv, Balanced, Invoke PROVE Balanced'
<1>1. PICK result \in Results :
        /\ call' = [call EXCEPT !.result = result]
        /\ owed' = Ledger(owed, ResultThing(result, Target, rev), {})
  BY DEF Invoke
<1>2. call \in CallType /\ call.ex = {} /\ call.result = "nothing"
  BY DEF Invoke, IInv, TypeOK, CallType, CallInPlace, Unused, Invoking
<1>3. call'.vars = call.vars /\ call'.ex = {} /\ call'.result = result
  BY <1>1, <1>2 DEF CallType
<1>4. Held = Strings(call.vars) \cup Kept
  BY <1>2, HeldParts, NoResult DEF Texts
<1>5. Held' = Held \cup ResultThing(result, Target, rev)
  BY <1>3, <1>4, CallingFrame, HeldPartsNext DEF Texts
<1>6. ResultThing(result, Target, rev) \cap Held = {}
  <2>1. ASSUME NEW t \in ResultThing(result, Target, rev) PROVE t \notin Held
    <3>1. t \notin Strings(call.vars)
      BY <2>1, StringsApart, ResultsApart
      DEF IInv, LoopsInPlace, Interfaces
    <3>2. t[1] # "instance"
      BY <2>1, ResultsApart DEF IInv, LoopsInPlace, Interfaces
    <3>3. t \notin References(cached)
      BY <2>1, ResultsApart, ReferencesApart
      DEF IInv, LoopsInPlace, Interfaces
    <3> QED
      BY <1>4, <3>1, <3>2, <3>3 DEF Kept
  <2> QED
    BY <2>1
<1> QED
  BY <1>1, <1>5, <1>6, BalancedStep

LEMMA BalancedByInvokeFails == ASSUME IInv, Balanced, InvokeFails PROVE Balanced'
<1>1. PICK ex \in SUBSET ExceptionTexts :
        /\ call' = [call EXCEPT !.ex = ex, !.error = TRUE]
        /\ owed' = Ledger(owed, Texts(ex), {})
  BY DEF InvokeFails
<1>2. call \in CallType /\ call.ex = {} /\ call.result = "nothing"
  BY DEF InvokeFails, IInv, TypeOK, CallType, CallInPlace, Unused, Invoking
<1>3. call'.vars = call.vars /\ call'.ex = ex /\ call'.result = "nothing"
  BY <1>1, <1>2 DEF CallType
<1>4. Held = Strings(call.vars) \cup Kept
  BY <1>2, HeldParts, NoResult DEF Texts
<1>5. Held' = Held \cup Texts(ex)
  BY <1>3, <1>4, CallingFrame, HeldPartsNext, NoResult
<1>6. Texts(ex) \cap Held = {}
  BY <1>4, StringsApart, TextsApart, KeptApart DEF ExceptionTexts, Interfaces
<1> QED
  BY <1>1, <1>5, <1>6, BalancedStep

LEMMA BalancedByFree == ASSUME IInv, Balanced, FreeException PROVE Balanced'
<1>1. /\ call \in CallType /\ call.result = "nothing"
      /\ call' = [call EXCEPT !.ex = {}]
      /\ owed' = Ledger(owed, {}, Texts(call.ex))
  BY DEF FreeException, IInv, TypeOK, CallType, CallInPlace, Invoking
<1>2. call'.vars = call.vars /\ call'.ex = {} /\ call'.result = "nothing"
      /\ call.ex \in SUBSET ExceptionTexts
  BY <1>1 DEF CallType
<1>3. Held = Strings(call.vars) \cup Texts(call.ex) \cup Kept
  BY <1>1, HeldParts, NoResult
<1>4. Held' = Strings(call.vars) \cup Kept
  BY <1>2, CallingFrame, HeldPartsNext, NoResult DEF Texts
<1>5. Texts(call.ex) \cap (Strings(call.vars) \cup Kept) = {}
  BY <1>2, StringsApart, TextsApart, KeptApart DEF ExceptionTexts, Interfaces
<1> QED
  BY <1>1, <1>3, <1>4, <1>5, BalancedStep

LEMMA BalancedByRelease == ASSUME IInv, Balanced, ReleaseArguments PROVE Balanced'
<1>1. /\ call \in CallType /\ call.ex = {}
      /\ call' = [call EXCEPT !.vars = NoCall.vars]
      /\ owed' = Ledger(owed, {}, Strings(call.vars))
  BY DEF ReleaseArguments, IInv, TypeOK, CallType, CallInPlace, Invoking
<1>2. call'.vars = NoCall.vars /\ call'.ex = {} /\ call'.result = call.result
  BY <1>1 DEF CallType
<1> DEFINE R == ResultThing(call.result, Target, rev)
<1>3. Held = Strings(call.vars) \cup R \cup Kept
  BY <1>1, HeldParts DEF Texts
<1>4. Held' = R \cup Kept
  BY <1>2, CallingFrame, HeldPartsNext, NoStrings DEF Texts
<1>5. Strings(call.vars) \cap (R \cup Kept) = {}
  <2>1. ASSUME NEW t \in R PROVE t[1] # "argument"
    BY <2>1, ResultsApart DEF IInv, LoopsInPlace, Interfaces
  <2> QED
    BY <2>1, StringsApart, KeptApart DEF Interfaces
<1> QED
  BY <1>1, <1>3, <1>4, <1>5, BalancedStep

\* What is held when a call has come back, and after it has been dealt with.
LEMMA HeldBack ==
  ASSUME IInv, pc = "back"
  PROVE  Held = ResultThing(call.result, Target, rev) \cup Kept
BY HeldParts, NoStrings DEF IInv, CallInPlace, Texts

LEMMA HeldAfter ==
  ASSUME call' = NoCall, inst' = FALSE
  PROVE  Held' = References(cached')
BY HeldAtRest, NoCallParts DEF Held

LEMMA BalancedByFetch ==
  ASSUME IInv, AnswerInPlace, Balanced, BackInFetch PROVE Balanced'
<1>1. /\ pc = "back" /\ rev # 0 /\ inst = FALSE /\ inst' = FALSE
      /\ call' = NoCall /\ Target \in Interfaces /\ cached[Target] = 0
      /\ cached \in [Interfaces -> Nat]
  BY DEF BackInFetch, IInv, TypeOK, LoopsInPlace, InstanceInPlace, Invoking
<1> DEFINE R == ResultThing(call.result, Target, rev)
<1>2. Held = R \cup References(cached) /\ Held' = References(cached')
  BY <1>1, HeldBack, HeldAfter DEF Kept
<1>3. CASE call.result = "object"
  <2>1. cached' = [cached EXCEPT ![Target] = rev] /\ owed' = owed
    BY <1>3 DEF BackInFetch
  <2>2. R = {<<Target, rev>>}
    BY <1>1, <1>3 DEF ResultThing
  <2>3. References(cached') = References(cached) \cup {<<Target, rev>>}
    <3>1. ASSUME NEW t PROVE t \in References(cached') <=>
                               t \in References(cached) \/ t = <<Target, rev>>
      BY <1>1, <2>1 DEF References
    <3> QED
      BY <3>1
  <2> QED
    BY <1>2, <2>1, <2>2, <2>3, BalancedIdle
<1>4. CASE call.result # "object"
  <2>1. cached' = cached /\ owed' = Ledger(owed, {}, R)
    BY <1>4 DEF BackInFetch
  <2>2. \A t \in R : t[1] = "result"
    BY <1>4 DEF ResultThing
  <2>3. R \cap References(cached) = {}
    BY <2>2, ReferencesApart DEF Interfaces
  <2> QED
    BY <1>2, <2>1, <2>3, BalancedStep
<1> QED
  BY <1>3, <1>4

LEMMA BalancedByTurn == ASSUME IInv, Balanced, BackInTurn PROVE Balanced'
<1>1. /\ pc = "back" /\ turn # 0 /\ inst = TRUE /\ inst' = FALSE
      /\ call' = NoCall /\ call.result = "nothing" /\ cached' = cached
      /\ owed' = Ledger(owed, {}, {<<"instance", 0>>})
  BY DEF BackInTurn, IInv, CallInPlace, InstanceInPlace, Invoking
<1>2. Held = {<<"instance", 0>>} \cup References(cached)
  BY <1>1, HeldBack, NoResult DEF Kept
<1>3. Held' = References(cached)
  BY <1>1, HeldAfter
<1>4. <<"instance", 0>> \notin References(cached)
  BY ReferencesApart DEF Interfaces
<1> QED
  BY <1>1, <1>2, <1>3, <1>4, BalancedStep

LEMMA BalancedByRequest == ASSUME IInv, Balanced, BackInRequest PROVE Balanced'
<1>1. /\ pc = "back" /\ rev = 0 /\ inst = FALSE /\ inst' = FALSE
      /\ call' = NoCall /\ cached' = cached
      /\ owed' = Ledger(owed, {}, ResultThing(call.result, Target, rev))
  BY DEF BackInRequest, IInv, InstanceInPlace
<1> DEFINE R == ResultThing(call.result, Target, rev)
<1>2. Held = R \cup References(cached) /\ Held' = References(cached)
  BY <1>1, HeldBack, HeldAfter DEF Kept
<1>3. R \cap References(cached) = {}
  BY <1>1, ResultsApart, ReferencesApart DEF Interfaces
<1> QED
  BY <1>1, <1>2, <1>3, BalancedStep

LEMMA BalancedByClose == ASSUME IInv, Balanced, Close PROVE Balanced'
<1>1. /\ call = NoCall /\ inst = FALSE /\ call' = call /\ inst' = inst
      /\ owed' = Ledger(owed, {}, References(cached))
      /\ cached' = [i \in Interfaces |-> 0]
  BY DEF Close, IInv, CallInPlace, InstanceInPlace, Invoking
<1>2. Held = References(cached)
  BY <1>1, HeldAtRest, NoCallParts DEF Held
<1>3. Held' = References(cached') /\ References(cached') = {}
  BY <1>1, HeldAfter DEF References
<1> QED
  BY <1>1, <1>2, <1>3, BalancedStep

\* Every BSTR, result and reference handed out has been given back or is
\* still held, once.
THEOREM BalancedTheorem == Spec => []Balanced
<1>1. Init => Balanced
  <2> SUFFICES ASSUME Init PROVE Balanced
    OBVIOUS
  <2>1. Held = References(cached)
    BY HeldAtRest, NoCallParts DEF Init, Held
  <2>2. References(cached) = {}
    BY DEF Init, References
  <2> QED
    BY <2>1, <2>2 DEF Init, Balanced, Once
<1>2. Inv /\ Balanced /\ [Next]_vars => Balanced'
  <2> SUFFICES ASSUME IInv, AnswerInPlace, Balanced, [Next]_vars PROVE Balanced'
    BY DEF Inv
  <2>1. CASE Ask \/ ControlChanges \/ FindTarget \/ FindMember
    BY <2>1, BalancedByFinding
  <2>2. CASE FindInstance
    BY <2>2, BalancedByFinding, BalancedByInstance
  <2>3. CASE \/ Convert \/ ConvertFails \/ Invoke \/ InvokeFails
             \/ FreeException \/ ReleaseArguments
    BY <2>3, BalancedByConvert, BalancedByConvertFails, BalancedByInvoke,
       BalancedByInvokeFails, BalancedByFree, BalancedByRelease
  <2>4. CASE BackInFetch \/ BackInTurn \/ BackInRequest \/ Close
    BY <2>4, BalancedByFetch, BalancedByTurn, BalancedByRequest,
       BalancedByClose
  <2>5. CASE UNCHANGED vars
    BY <2>5, BalancedIdle DEF vars, walk, Held, Target
  <2> QED
    BY <2>1, <2>2, <2>3, <2>4, <2>5 DEF Next, Proceed, Closed
<1> QED
  BY <1>1, <1>2, InvTheorem, PTL DEF Spec

------------------------------------------------------------------------------
(* Dispatch implements Writing.                                              *)

Here == request.paths[at]
NonScriptable(t) == ctl.answers[<<<<"nonscriptable", t>>, Name>>]

\* What has been found out: no path before this one is taken, nor is this one
\* by any interface looked at, unless memory ran out on the way.
Progress ==
  Active =>
    /\ starved \/ \A j \in 1..(at - 1) : Verdict(ctl, request.paths[j]) # "takes"
    /\ turn # 0 =>
         /\ starved \/ \A t \in 1..(turn - 1) :
                         ~(ctl.has[t] /\ NonScriptable(t) = "takes")
         /\ inner = "none" <=> \A t \in 1..(turn - 1) : NonScriptable(t) = "unknown"

LEMMA NewestType ==
  ASSUME NEW c \in Control, NEW i \in Interfaces
  PROVE  /\ Newest(c, i) \in 0..Max[i]
         /\ Newest(c, i) # 0 => c.gives[<<i, Newest(c, i)>>] = "object"
<1> DEFINE T == {r \in 1..Max[i] : c.gives[<<i, r>>] = "object"}
<1>1. Max[i] \in Nat /\ T \in SUBSET (0..Max[i])
  BY DispatchAssumption
<1>2. CASE T = {}
  BY <1>1, <1>2, NewestNone
<1>3. CASE T # {}
  <2>1. PICK n \in T : \A m \in T : m <= n
    BY <1>1, <1>3, GreatestNat
  <2>2. \A s \in (n + 1)..Max[i] : c.gives[<<i, s>>] # "object"
    BY <1>1, <2>1
  <2>3. Newest(c, i) = n
    BY <2>1, <2>2, NewestIs
  <2> QED
    BY <1>1, <2>1, <2>3
<1> QED
  BY <1>2, <1>3

LEMMA RevisionsAre ==
  ASSUME NEW i \in Interfaces, NEW r \in 1..Max[i]
  PROVE  <<i, r>> \in Revisions
<1>1. <<i, r>> \in {i} \X (1..Max[i])
  OBVIOUS
<1> QED
  BY <1>1 DEF Revisions

LEMMA VerdictType ==
  ASSUME NEW c \in Control, NEW p \in Paths
  PROVE  Verdict(c, p) \in {"takes", "refuses", "unknown"}
<1>1. c.answers \in [Objects \X Names -> Answers] /\ p[1] \in Targets /\ p[2] \in Names
  BY DEF Control, Paths
<1>2. CASE p[1] = "control"
  <2>1. <<<<"control", 0>>, p[2]>> \in Objects \X Names
    BY <1>1 DEF Objects
  <2> QED
    BY <1>1, <1>2, <2>1 DEF Verdict, Answers
<1>3. CASE p[1] = "nonscriptable"
  BY <1>3 DEF Verdict
<1>4. CASE p[1] \in Interfaces
  <2> DEFINE n == Newest(c, p[1])
  <2>1. CASE n = 0
    BY <1>4, <2>1 DEF Verdict, Interfaces
  <2>2. CASE n # 0
    <3>1. n \in 1..Max[p[1]]
      <4>1. n \in 0..Max[p[1]] /\ Max[p[1]] \in Nat
        BY <1>4, NewestType, DispatchAssumption
      <4> HIDE DEF n
      <4> QED
        BY <4>1, <2>2
    <3>2. <<p[1], n>> \in Objects
      BY <1>4, <3>1, RevisionsAre DEF Objects
    <3>3. c.answers[<<<<p[1], n>>, p[2]>>] \in Answers
      BY <1>1, <3>2
    <3>4. Verdict(c, p) = c.answers[<<<<p[1], n>>, p[2]>>]
      BY <1>4, <2>2 DEF Verdict, Interfaces
    <3> QED
      BY <3>3, <3>4 DEF Answers
  <2> QED
    BY <2>1, <2>2
<1> QED
  BY <1>1, <1>2, <1>3, <1>4 DEF Targets

\* The path at hand, and what the control says to it.
LEMMA HereParts ==
  ASSUME IInv, Active
  PROVE  /\ Here \in Paths /\ Here = <<Target, Name>> /\ Target \in Targets
         /\ Here[1] = Target /\ Here[2] = Name /\ ctl \in Control
         /\ request \in Requests /\ at \in 1..Len(request.paths)
         /\ Len(request.paths) \in Nat
         /\ DOMAIN request.paths = 1..Len(request.paths)
<1>1. request \in Requests /\ at \in DOMAIN request.paths /\ ctl \in Controls
  BY DEF IInv, RequestAtHand, TypeOK
<1> QED
  BY <1>1, PathParts, RequestParts, DispatchAssumption DEF Here, Target, Name

LEMMA VerdictDirect ==
  ASSUME IInv, Active, pc # "target", rev = 0, turn = 0
  PROVE  Verdict(ctl, Here) = Says
<1>1. Says = ctl.answers[<<Object, Name>>]
  BY DEF Says
<1>2. CASE Target = "control"
  BY <1>1, <1>2, HereParts DEF Verdict, Object
<1>3. CASE Target \in Interfaces /\ cached[Target] # 0
  <2>1. cached[Target] = Newest(ctl, Target)
    BY <1>3 DEF IInv, NewestRevision
  <2> QED
    BY <1>1, <1>3, <2>1, HereParts DEF Verdict, Object, Interfaces
<1> QED
  BY <1>2, <1>3 DEF IInv, LoopsInPlace

LEMMA VerdictFetched ==
  ASSUME IInv, Active, rev = 1, ctl.gives[<<Target, rev>>] # "object"
  PROVE  Verdict(ctl, Here) = "refuses"
<1>1. Target \in Interfaces /\ NoneNewer /\ Max[Target] \in Nat
  BY DispatchAssumption DEF IInv, LoopsInPlace
<1>2. ASSUME NEW s \in 1..Max[Target] PROVE ctl.gives[<<Target, s>>] # "object"
  <2>1. s = 1 \/ s \in (rev + 1)..Max[Target]
    BY <1>1
  <2> QED
    BY <1>1, <2>1 DEF NoneNewer
<1>3. Newest(ctl, Target) = 0
  BY <1>1, <1>2, NewestNone
<1> QED
  BY <1>1, <1>3, HereParts DEF Verdict, Interfaces

LEMMA VerdictTurned ==
  ASSUME IInv, Active, Target = "nonscriptable"
  PROVE  Verdict(ctl, Here) =
           IF \E t \in 1..Last : ctl.has[t] /\ NonScriptable(t) = "takes"
             THEN "takes"
           ELSE IF \E t \in 1..Last : NonScriptable(t) # "unknown"
             THEN "refuses" ELSE "unknown"
BY HereParts DEF Verdict, NonScriptable

\* The step by which a path fails is a reply or a stutter of Writing.
LEMMA PathFailsMaps ==
  ASSUME IInv, Progress, Active, NEW e, PathFails(e), Fixed, written = 0,
         written' = written, starved' = starved,
         e = W!Failure(Verdict(ctl, Here)),
         starved \/ Verdict(ctl, Here) # "takes"
  PROVE  /\ Progress'
         /\ W!ReplyUnwritten \/ (answer' = answer /\ request' = request
              /\ ctl' = ctl /\ written' = written /\ starved' = starved)
<1>1. /\ at \in 1..Len(request.paths) /\ Len(request.paths) \in Nat
      /\ DOMAIN request.paths = 1..Len(request.paths) /\ Here \in Paths
      /\ request \in Requests /\ answer = "pending"
  BY HereParts DEF IInv, RequestAtHand
<1>2. CASE at < Len(request.paths)
  <2>1. at' = at + 1 /\ turn' = 0 /\ answer' = answer
    BY <1>2 DEF PathFails
  <2>2. ASSUME ~starved, NEW j \in 1..(at' - 1)
        PROVE  Verdict(ctl, request.paths[j]) # "takes"
    <3>1. j = at \/ j \in 1..(at - 1)
      BY <1>1, <2>1
    <3> QED
      BY <2>2, <3>1 DEF Progress, Here
  <2> QED
    BY <2>1, <2>2 DEF Progress, Fixed
<1>3. CASE ~(at < Len(request.paths))
  <2>1. pc' = "idle" /\ answer' = e
    BY <1>3 DEF PathFails
  <2>2. at = Len(request.paths)
    BY <1>1, <1>3
  <2>3. starved \/ \A k \in DOMAIN request.paths : ~W!Taken(k)
    <3>1. SUFFICES ASSUME ~starved, NEW k \in DOMAIN request.paths
                   PROVE  ~W!Taken(k)
      OBVIOUS
    <3>2. k = at \/ k \in 1..(at - 1)
      BY <1>1, <2>2
    <3>3. Verdict(ctl, request.paths[k]) # "takes"
      BY <3>1, <3>2 DEF Progress, Here
    <3>4. request.paths[k] \in Paths
      BY <1>1, PathParts
    <3> QED
      BY <3>3, <3>4 DEF W!Taken
  <2>4. answer' = W!Failure([p \in Paths |-> Verdict(ctl, p)][request.paths[Len(request.paths)]])
    BY <1>1, <2>1, <2>2 DEF Here
  <2>5. W!ReplyUnwritten
    BY <1>1, <2>3, <2>4 DEF W!ReplyUnwritten, Fixed
  <2>6. Progress'
    BY <2>1 DEF Progress, Active
  <2> QED
    BY <2>5, <2>6
<1> QED
  BY <1>2, <1>3

\* A step that Writing does not see.
Unseen == /\ answer' = answer /\ request' = request /\ ctl' = ctl
          /\ written' = written /\ starved' = starved

LEMMA RevisionFailsMaps ==
  ASSUME IInv, Progress, Active, rev # 0, RevisionFails, Fixed, written = 0,
         written' = written, starved' = starved,
         ctl.gives[<<Target, rev>>] # "object"
  PROVE  Progress' /\ (W!ReplyUnwritten \/ Unseen)
<1>1. rev \in Nat /\ turn = 0
  BY DEF IInv, TypeOK, LoopsInPlace
<1>2. CASE rev > 1
  BY <1>1, <1>2 DEF RevisionFails, Progress, Fixed, Unseen
<1>3. CASE ~(rev > 1)
  <2>1. rev = 1 /\ PathFails("failed")
    BY <1>1, <1>3 DEF RevisionFails
  <2>2. Verdict(ctl, Here) = "refuses"
    BY <2>1, VerdictFetched
  <2>3. "failed" = W!Failure(Verdict(ctl, Here))
    BY <2>2 DEF W!Failure
  <2> QED
    BY <2>1, <2>2, <2>3, PathFailsMaps DEF Unseen
<1> QED
  BY <1>2, <1>3

LEMMA TurnFailsMaps ==
  ASSUME IInv, Progress, Active, turn # 0, NEW e, TurnFails(e), Fixed,
         written = 0, written' = written, starved' = starved,
         e = IF inner = "none" /\ NonScriptable(turn) = "unknown"
             THEN "none" ELSE "failed",
         starved \/ ~(ctl.has[turn] /\ NonScriptable(turn) = "takes")
  PROVE  Progress' /\ (W!ReplyUnwritten \/ Unseen)
<1>1. turn \in 1..Last /\ Last \in Nat /\ rev = 0 /\ Target = "nonscriptable"
  BY DispatchAssumption DEF IInv, TypeOK, LoopsInPlace
<1> DEFINE Takes(t) == ctl.has[t] /\ NonScriptable(t) = "takes"
           Knows(t) == NonScriptable(t) # "unknown"
<1>2. starved \/ \A t \in 1..turn : ~Takes(t)
  <2>1. \A t \in 1..turn : t = turn \/ t \in 1..(turn - 1)
    BY <1>1
  <2> QED
    BY <2>1 DEF Progress
<1>3. e = "none" <=> \A t \in 1..turn : ~Knows(t)
  <2>1. \A t \in 1..turn : t = turn \/ t \in 1..(turn - 1)
    BY <1>1
  <2>2. turn \in 1..turn /\ \A t \in 1..(turn - 1) : t \in 1..turn
    BY <1>1
  <2>3. inner = "none" <=> \A t \in 1..(turn - 1) : ~Knows(t)
    BY DEF Progress
  <2> HIDE DEF Knows
  <2>4. e = IF inner = "none" /\ ~Knows(turn) THEN "none" ELSE "failed"
    BY DEF Knows
  <2> QED
    BY <2>1, <2>2, <2>3, <2>4
<1>4. e \in {"none", "failed"}
  OBVIOUS
<1>5. CASE turn < Last
  <2>1. /\ turn' = turn + 1 /\ inner' = e /\ at' = at /\ answer' = answer
    BY <1>5 DEF TurnFails
  <2>2. Name' = Name /\ ctl' = ctl /\ request' = request
    BY <2>1 DEF Name, Fixed
  <2>3. turn' - 1 = turn /\ turn' # 0
    BY <1>1, <2>1
  <2>4. \A t : NonScriptable(t)' = NonScriptable(t)
    BY <2>2 DEF NonScriptable
  <2>5. Progress'
    BY <1>2, <1>3, <2>1, <2>2, <2>3, <2>4 DEF Progress
  <2> QED
    BY <2>1, <2>2, <2>5 DEF Unseen
<1>6. CASE ~(turn < Last)
  <2>1. turn = Last /\ PathFails(IF e = "none" THEN "unknown" ELSE e)
    BY <1>1, <1>6 DEF TurnFails
  <2>2. starved \/ Verdict(ctl, Here) # "takes"
    BY <1>1, <1>2, <2>1, VerdictTurned
  <2>3. e = "none" <=> Verdict(ctl, Here) = "unknown"
    <3>1. CASE \E t \in 1..Last : Takes(t)
      BY <1>1, <1>3, <2>1, <3>1, VerdictTurned
    <3>2. CASE ~ \E t \in 1..Last : Takes(t)
      BY <1>1, <1>3, <2>1, <3>2, VerdictTurned
    <3> QED
      BY <3>1, <3>2
  <2>4. (IF e = "none" THEN "unknown" ELSE e) = W!Failure(Verdict(ctl, Here))
    BY <1>4, <2>3 DEF W!Failure
  <2> QED
    BY <2>1, <2>2, <2>4, PathFailsMaps DEF Unseen
<1> QED
  BY <1>5, <1>6

LEMMA SucceedMaps ==
  ASSUME IInv, Active, NEW e, Succeed(e), Fixed, written # 0,
         written' = written, starved' = starved,
         e = "nil" \/ (e = "failed" /\ request.kind = "int")
  PROVE  Progress' /\ W!ReplyWritten
<1>1. pc' = "idle" /\ answer' = e /\ answer = "pending"
  BY DEF Succeed, IInv, RequestAtHand
<1> QED
  BY <1>1 DEF Progress, Active, W!ReplyWritten, Fixed

\* A step that leaves the walk alone finds nothing out.
LEMMA ProgressKept ==
  ASSUME Progress, Active, Fixed, UNCHANGED walk, starved' = starved \/ starved'
  PROVE  Progress'
<1>1. /\ at' = at /\ turn' = turn /\ inner' = inner /\ ctl' = ctl
      /\ request' = request
  BY DEF walk, Fixed
<1>2. \A t : NonScriptable(t)' = NonScriptable(t)
  BY <1>1 DEF NonScriptable, Name
<1> QED
  BY <1>1, <1>2 DEF Progress

Maps == Progress' /\ (W!Next \/ Unseen)

LEMMA FindTargetMaps ==
  ASSUME IInv, AnswerInPlace, Progress, FindTarget PROVE Maps
<1>1. /\ pc = "target" /\ Active /\ Fixed /\ rev = 0 /\ turn = 0
      /\ written' = written /\ starved' = starved
  BY DEF FindTarget, Active, IInv, LoopsInPlace
<1>2. written = 0
  BY <1>1, Unwritten
<1>3. CASE Target = "nonscriptable" /\ Last = 0
  <2>1. PathFails("unknown")
    BY <1>3 DEF FindTarget
  <2>2. Verdict(ctl, Here) = "unknown"
    BY <1>1, <1>3, VerdictTurned
  <2>3. "unknown" = W!Failure(Verdict(ctl, Here))
    BY <2>2 DEF W!Failure
  <2> QED
    BY <1>1, <1>2, <2>1, <2>2, <2>3, PathFailsMaps DEF Maps, Unseen, W!Next
<1>4. CASE Target = "nonscriptable" /\ Last # 0
  <2>1. turn' = 1 /\ inner' = "none" /\ at' = at /\ answer' = answer
    BY <1>4 DEF FindTarget
  <2>2. Progress'
    BY <1>1, <2>1 DEF Progress, Fixed
  <2> QED
    BY <1>1, <2>1, <2>2 DEF Maps, Unseen, Fixed
<1>5. CASE Target # "nonscriptable"
  <2>1. turn' = turn /\ inner' = inner /\ at' = at /\ answer' = answer
    BY <1>5 DEF FindTarget, GoTo, walk
  <2>2. Progress'
    BY <1>1, <2>1 DEF Progress, Fixed
  <2> QED
    BY <1>1, <2>1, <2>2 DEF Maps, Unseen, Fixed
<1> QED
  BY <1>3, <1>4, <1>5

\* In the loop over interfaces the control's answer is that of this one.
LEMMA SaysInTurn ==
  ASSUME IInv, turn # 0 PROVE Says = NonScriptable(turn) /\ rev = 0
BY DEF Says, Object, NonScriptable, IInv, LoopsInPlace

LEMMA FindMemberMaps ==
  ASSUME IInv, AnswerInPlace, Progress, FindMember PROVE Maps
<1>1. /\ pc = "member" /\ Active /\ Fixed
      /\ written' = written /\ starved' = starved
  BY DEF FindMember, Active
<1>2. written = 0
  BY <1>1, Unwritten
<1>3. CASE Says # "unknown"
  <2>1. UNCHANGED walk /\ answer' = answer
    BY <1>3 DEF FindMember, GoTo
  <2> QED
    BY <1>1, <2>1, ProgressKept DEF Maps, Unseen, Fixed
<1>4. CASE Says = "unknown" /\ rev # 0
  <2>1. RevisionFails /\ ctl.gives[<<Target, rev>>] # "object"
    BY <1>4 DEF FindMember, Says
  <2> QED
    BY <1>1, <1>2, <1>4, <2>1, RevisionFailsMaps DEF Maps, W!Next
<1>5. CASE Says = "unknown" /\ rev = 0 /\ turn # 0
  <2>1. TurnFails(inner) /\ inner \in {"none", "failed"}
    BY <1>5 DEF FindMember, IInv, TypeOK
  <2>2. NonScriptable(turn) = "unknown"
    BY <1>5, SaysInTurn
  <2>3. inner = IF inner = "none" /\ NonScriptable(turn) = "unknown"
                THEN "none" ELSE "failed"
    BY <2>1, <2>2
  <2> QED
    BY <1>1, <1>2, <1>5, <2>1, <2>2, <2>3, TurnFailsMaps DEF Maps, W!Next
<1>6. CASE Says = "unknown" /\ rev = 0 /\ turn = 0
  <2>1. PathFails("unknown") /\ Verdict(ctl, Here) = "unknown"
    BY <1>1, <1>6, VerdictDirect DEF FindMember
  <2>2. "unknown" = W!Failure(Verdict(ctl, Here))
    BY <2>1 DEF W!Failure
  <2> QED
    BY <1>1, <1>2, <2>1, <2>2, PathFailsMaps DEF Maps, Unseen, W!Next
<1> QED
  BY <1>3, <1>4, <1>5, <1>6

LEMMA FindInstanceMaps ==
  ASSUME IInv, AnswerInPlace, Progress, FindInstance PROVE Maps
<1>1. /\ pc = "instance" /\ Active /\ Fixed /\ turn # 0
      /\ written' = written /\ starved' = starved
  BY DEF FindInstance, Active, IInv, LoopsInPlace
<1>2. written = 0 /\ NonScriptable(turn) # "unknown"
  BY <1>1, Unwritten, SaysInTurn DEF AnswerInPlace
<1>3. CASE ctl.has[turn]
  <2>1. UNCHANGED walk /\ answer' = answer
    BY <1>3 DEF FindInstance, GoTo
  <2> QED
    BY <1>1, <2>1, ProgressKept DEF Maps, Unseen, Fixed
<1>4. CASE ~ctl.has[turn]
  <2>1. TurnFails("failed")
    BY <1>4 DEF FindInstance
  <2> QED
    BY <1>1, <1>2, <1>4, <2>1, TurnFailsMaps DEF Maps, W!Next
<1> QED
  BY <1>3, <1>4

LEMMA CallingMaps ==
  ASSUME IInv, Progress,
         Convert \/ InvokeFails \/ FreeException \/ ReleaseArguments
  PROVE  Maps
<1>1. /\ Active /\ Fixed /\ UNCHANGED walk /\ answer' = answer
      /\ written' = written /\ starved' = starved
  BY DEF Convert, InvokeFails, FreeException, ReleaseArguments, GoTo, Active
<1> QED
  BY <1>1, ProgressKept DEF Maps, Unseen, Fixed

LEMMA ConvertFailsMaps ==
  ASSUME IInv, AnswerInPlace, Progress, ConvertFails PROVE Maps
<1>1. /\ pc = "convert" /\ Active /\ Fixed /\ UNCHANGED walk
      /\ answer' = answer /\ written' = written /\ starved' = TRUE
  BY DEF ConvertFails, GoTo, Active
<1>2. written = 0 /\ answer = "pending"
  BY <1>1, Unwritten DEF IInv, RequestAtHand
<1>3. W!Starve
  BY <1>1, <1>2 DEF W!Starve, Fixed
<1> QED
  BY <1>1, <1>3, ProgressKept DEF Maps, W!Next

LEMMA InvokeMaps ==
  ASSUME IInv, AnswerInPlace, Progress, Invoke PROVE Maps
<1>1. /\ pc = "invoke" /\ Active /\ Fixed /\ UNCHANGED walk
      /\ answer' = answer /\ starved' = starved /\ Says # "refuses"
      /\ written' = IF rev # 0 THEN written ELSE at
  BY DEF Invoke, GoTo, Active
<1>2. written = 0 /\ answer = "pending" /\ Progress' /\ Says # "unknown"
  BY <1>1, Unwritten, ProgressKept
  DEF IInv, RequestAtHand, AnswerInPlace, Invoking
<1>3. CASE rev # 0
  BY <1>1, <1>2, <1>3 DEF Maps, Unseen, Fixed
<1>4. CASE rev = 0
  <2>1. Verdict(ctl, Here) = "takes"
    <3>1. Verdict(ctl, Here) \in {"takes", "refuses", "unknown"}
      BY <1>1, HereParts, VerdictType
    <3>2. CASE turn = 0
      BY <1>1, <1>2, <1>4, <3>1, <3>2, VerdictDirect
    <3>3. CASE turn # 0
      <4>1. /\ turn \in 1..Last /\ Target = "nonscriptable"
            /\ ctl.has[turn] /\ Name \in Names /\ ctl \in Control
        BY <1>1, <3>3, DispatchAssumption, HereParts
        DEF IInv, TypeOK, LoopsInPlace, AnswerInPlace, Invoking, Paths
      <4>2. <<"nonscriptable", turn>> \in Objects
        BY <4>1 DEF Objects
      <4>3. NonScriptable(turn) \in Answers
        BY <4>1, <4>2 DEF NonScriptable, Control
      <4>4. NonScriptable(turn) = "takes"
        BY <1>1, <1>2, <3>3, <4>3, SaysInTurn DEF Answers
      <4> QED
        BY <1>1, <4>1, <4>4, VerdictTurned
    <3> QED
      BY <3>2, <3>3
  <2>2. /\ at \in 1..Len(request.paths) /\ DOMAIN request.paths = 1..Len(request.paths)
        /\ request \in Requests
    BY <1>1, HereParts
  <2>3. W!Taken(at)
    <3>1. Here \in Paths
      BY <1>1, HereParts
    <3> QED
      BY <2>1, <2>2, <3>1 DEF W!Taken, Here
  <2>4. starved \/ \A j \in 1..(at - 1) : ~W!Taken(j)
    <3>1. SUFFICES ASSUME ~starved, NEW j \in 1..(at - 1) PROVE ~W!Taken(j)
      OBVIOUS
    <3>2. j \in DOMAIN request.paths
      BY <2>2
    <3>3. request.paths[j] \in Paths
      BY <2>2, <3>2, PathParts
    <3>4. Verdict(ctl, request.paths[j]) # "takes"
      BY <1>1, <3>1 DEF Progress
    <3> QED
      BY <3>3, <3>4 DEF W!Taken
  <2>5. W!Write
    BY <1>1, <1>2, <1>4, <2>2, <2>3, <2>4 DEF W!Write, Fixed
  <2> QED
    BY <1>2, <2>5 DEF Maps, W!Next
<1> QED
  BY <1>3, <1>4

LEMMA BackInFetchMaps ==
  ASSUME IInv, AnswerInPlace, Progress, BackInFetch PROVE Maps
<1>1. /\ pc = "back" /\ Active /\ Fixed /\ rev # 0
      /\ written' = written /\ starved' = starved
  BY DEF BackInFetch, Active
<1>2. written = 0 /\ turn = 0
  BY <1>1, Unwritten DEF IInv, LoopsInPlace
<1>3. CASE call.result = "object"
  <2>1. turn' = turn /\ inner' = inner /\ at' = at /\ answer' = answer
    BY <1>3 DEF BackInFetch
  <2>2. Progress'
    BY <1>1, <1>2, <2>1 DEF Progress, Fixed
  <2> QED
    BY <1>1, <2>1, <2>2 DEF Maps, Unseen, Fixed
<1>4. CASE call.result # "object"
  <2>1. RevisionFails
    BY <1>4 DEF BackInFetch
  <2>2. ctl.gives[<<Target, rev>>] # "object"
    BY <1>1, <1>4 DEF AnswerInPlace, Says
  <2> QED
    BY <1>1, <1>2, <2>1, <2>2, RevisionFailsMaps DEF Maps, W!Next
<1> QED
  BY <1>3, <1>4

LEMMA BackInTurnMaps ==
  ASSUME IInv, AnswerInPlace, Progress, BackInTurn PROVE Maps
<1>1. /\ pc = "back" /\ Active /\ Fixed /\ turn # 0 /\ rev = 0
      /\ written' = written /\ starved' = starved
  BY DEF BackInTurn, Active
<1>2. CASE call.error
  <2>1. TurnFails("failed") /\ written = 0
    BY <1>1, <1>2, Unwritten DEF BackInTurn
  <2>2. /\ NonScriptable(turn) # "unknown"
        /\ starved \/ NonScriptable(turn) = "refuses"
    BY <1>1, <1>2, SaysInTurn DEF AnswerInPlace, Invoking
  <2> QED
    BY <1>1, <2>1, <2>2, TurnFailsMaps DEF Maps, W!Next
<1>3. CASE ~call.error
  <2>1. Succeed("nil") /\ written = at
    BY <1>1, <1>3 DEF BackInTurn, AnswerInPlace
  <2>2. written # 0
    BY <1>1, <2>1, HereParts
  <2> QED
    BY <1>1, <2>1, <2>2, SucceedMaps DEF Maps, W!Next
<1> QED
  BY <1>2, <1>3

LEMMA BackInRequestMaps ==
  ASSUME IInv, AnswerInPlace, Progress, BackInRequest PROVE Maps
<1>1. /\ pc = "back" /\ Active /\ Fixed /\ turn = 0 /\ rev = 0
      /\ written' = written /\ starved' = starved
  BY DEF BackInRequest, Active
<1>2. CASE call.error
  <2>1. PathFails("failed") /\ written = 0
    BY <1>1, <1>2, Unwritten DEF BackInRequest
  <2>2. /\ Verdict(ctl, Here) # "unknown"
        /\ starved \/ Verdict(ctl, Here) = "refuses"
    BY <1>1, <1>2, VerdictDirect DEF AnswerInPlace, Invoking
  <2>3. "failed" = W!Failure(Verdict(ctl, Here))
    BY <2>2 DEF W!Failure
  <2> QED
    BY <1>1, <2>1, <2>2, <2>3, PathFailsMaps DEF Maps, Unseen, W!Next
<1>3. CASE ~call.error
  <2>1. PICK e : /\ Succeed(e)
                 /\ e = "nil" \/ (e = "failed" /\ request.kind = "int")
    BY <1>3 DEF BackInRequest
  <2>2. written = at
    BY <1>1, <1>3 DEF AnswerInPlace
  <2>3. written # 0
    BY <1>1, <2>2, HereParts
  <2> QED
    BY <1>1, <2>1, <2>3, SucceedMaps DEF Maps, W!Next
<1> QED
  BY <1>2, <1>3

LEMMA OthersMap ==
  ASSUME IInv, Progress, Ask \/ ControlChanges \/ Close \/ UNCHANGED vars
  PROVE  Maps
<1>1. CASE Ask
  <2>1. answer # "pending" /\ at' = 1 /\ turn' = 0
    BY <1>1 DEF Ask, IInv, RequestAtHand, LoopsInPlace, Active
  <2>2. W!Ask
    BY <1>1, <2>1 DEF Ask, W!Ask
  <2>3. Progress'
    BY <2>1 DEF Progress
  <2> QED
    BY <2>2, <2>3 DEF Maps, W!Next
<1>2. CASE ControlChanges
  <2>1. answer # "pending" /\ ctl' \in Control /\ pc' = "idle"
    BY <1>2, DispatchAssumption DEF ControlChanges, IInv, RequestAtHand, Active
  <2>2. [p \in Paths |-> Verdict(ctl', p)] \in [Paths -> W!Verdicts]
    BY <2>1, VerdictType DEF W!Verdicts
  <2>3. W!Change
    BY <1>2, <2>1, <2>2 DEF ControlChanges, W!Change
  <2> QED
    BY <2>1, <2>3 DEF Maps, W!Next, Progress, Active
<1>3. CASE Close
  BY <1>3 DEF Close, Maps, Unseen, Progress, Active
<1>4. CASE UNCHANGED vars
  <2>1. UNCHANGED walk /\ Fixed /\ starved' = starved /\ pc' = pc
        /\ answer' = answer /\ written' = written
    BY <1>4 DEF vars, Fixed
  <2>2. CASE Active
    BY <2>1, <2>2, ProgressKept DEF Maps, Unseen, Fixed
  <2>3. CASE ~Active
    BY <2>1, <2>3 DEF Maps, Unseen, Fixed, Progress, Active
  <2> QED
    BY <2>2, <2>3
<1> QED
  BY <1>1, <1>2, <1>3, <1>4

\* A request writes the first of its paths that the control takes, once, and
\* ends with the error of the last when it takes none.
THEOREM ImplementsWritingTheorem == Spec => ImplementsWriting
<1>1. Init => W!Init /\ Progress
  <2> SUFFICES ASSUME Init PROVE W!Init /\ Progress
    OBVIOUS
  <2>1. [p \in Paths |-> Verdict(ctl, p)] \in [Paths -> W!Verdicts]
    BY VerdictType, DispatchAssumption DEF Init, W!Verdicts
  <2>2. W!NoRequest = NoRequest
    BY DEF W!NoRequest, NoRequest
  <2> QED
    BY <2>1, <2>2 DEF Init, W!Init, Progress, Active
<1>2. Inv /\ Progress /\ [Next]_vars => Maps
  <2> SUFFICES ASSUME IInv, AnswerInPlace, Progress, [Next]_vars PROVE Maps
    BY DEF Inv
  <2>1. CASE FindTarget \/ FindMember \/ FindInstance
    BY <2>1, FindTargetMaps, FindMemberMaps, FindInstanceMaps
  <2>2. CASE Convert \/ InvokeFails \/ FreeException \/ ReleaseArguments
    BY <2>2, CallingMaps
  <2>3. CASE ConvertFails \/ Invoke
    BY <2>3, ConvertFailsMaps, InvokeMaps
  <2>4. CASE BackInFetch \/ BackInTurn \/ BackInRequest
    BY <2>4, BackInFetchMaps, BackInTurnMaps, BackInRequestMaps
  <2>5. CASE Ask \/ ControlChanges \/ Close \/ UNCHANGED vars
    BY <2>5, OthersMap
  <2> QED
    BY <2>1, <2>2, <2>3, <2>4, <2>5 DEF Next, Proceed, Closed
<1>3. Maps => /\ Progress'
              /\ [W!Next]_<<[p \in Paths |-> Verdict(ctl, p)], request, answer,
                            written, starved>>
  BY DEF Maps, Unseen
<1> QED
  BY <1>1, <1>2, <1>3, InvTheorem, PTL DEF Spec, ImplementsWriting, W!Spec
------------------------------------------------------------------------------
(* A request ends.  What is left of it is counted in the order of its loops: *)
(* the paths, whether the path still looks for its object, the revisions or  *)
(* interfaces, the steps of one call.                                        *)

PathsLeft  == IF Active THEN 1 + Len(request.paths) - at ELSE 0
SearchLeft == IF pc = "target" THEN 2 ELSE IF rev # 0 THEN 1 ELSE 0
TriesLeft  == IF rev # 0 THEN rev ELSE Last - turn
CallLeft   == CASE pc = "member" -> 7 [] pc = "instance" -> 6
                [] pc = "convert" -> 5 [] pc = "invoke" -> 4
                [] pc = "exception" -> 3 [] pc = "return" -> 2
                [] pc = "back" -> 1 [] OTHER -> 0

Left == <<PathsLeft, SearchLeft, TriesLeft, CallLeft>>

\* The first of the four that changes goes down.
Shorter ==
  \/ PathsLeft' < PathsLeft
  \/ /\ PathsLeft' = PathsLeft
     /\ \/ SearchLeft' < SearchLeft
        \/ /\ SearchLeft' = SearchLeft
           /\ \/ TriesLeft' < TriesLeft
              \/ TriesLeft' = TriesLeft /\ CallLeft' < CallLeft

\* Nothing is counted below zero, and a path at hand counts.
LEMMA LeftCounts ==
  ASSUME IInv
  PROVE  /\ Left \in Nat \X Nat \X Nat \X Nat
         /\ Active => PathsLeft > 0
<1>1. PathsLeft \in Nat /\ (Active => PathsLeft > 0)
  <2>1. CASE Active
    <3>1. at \in 1..Len(request.paths) /\ Len(request.paths) \in Nat
      BY <2>1, RequestParts DEF IInv, RequestAtHand
    <3> QED
      BY <2>1, <3>1 DEF PathsLeft
  <2> QED
    BY <2>1 DEF PathsLeft
<1>2. SearchLeft \in Nat
  BY DEF SearchLeft
<1>3. TriesLeft \in Nat
  BY DispatchAssumption DEF TriesLeft, IInv, TypeOK
<1>4. CallLeft \in Nat
  BY DEF CallLeft
<1> QED
  BY <1>1, <1>2, <1>3, <1>4 DEF Left

\* A path given up leaves fewer.
LEMMA PathFailsShorter ==
  ASSUME IInv, Active, NEW e, PathFails(e), Fixed
  PROVE  Shorter
<1>1. at \in 1..Len(request.paths) /\ Len(request.paths) \in Nat
  BY RequestParts DEF IInv, RequestAtHand
<1>2. CASE at < Len(request.paths)
  BY <1>1, <1>2 DEF PathFails, Shorter, PathsLeft, Active, Fixed
<1>3. CASE ~(at < Len(request.paths))
  BY <1>1, <1>3 DEF PathFails, Shorter, PathsLeft, Active
<1> QED
  BY <1>2, <1>3

\* So does a request that has succeeded.
LEMMA SucceedShorter ==
  ASSUME IInv, Active, NEW e, Succeed(e)
  PROVE  Shorter
BY LeftCounts DEF Succeed, Shorter, PathsLeft, Active, Left

\* A path that goes on is the same path.
LEMMA SamePath ==
  ASSUME Active, pc' \notin {"idle", "closed"}, at' = at, Fixed
  PROVE  PathsLeft' = PathsLeft
BY DEF PathsLeft, Active, Fixed

\* A revision, or an interface, that fails leaves fewer, or its path fails.
LEMMA RevisionFailsShorter ==
  ASSUME IInv, Active, pc # "target", rev # 0, RevisionFails, Fixed
  PROVE  Shorter
<1>1. CASE rev > 1
  <2>1. rev' = rev - 1 /\ pc' = "member" /\ at' = at
    BY <1>1 DEF RevisionFails
  <2>2. PathsLeft' = PathsLeft
    BY <2>1, SamePath
  <2>3. rev \in Nat
    BY DEF IInv, TypeOK
  <2> QED
    BY <1>1, <2>1, <2>2, <2>3 DEF Shorter, SearchLeft, TriesLeft
<1>2. CASE ~(rev > 1)
  BY <1>2, PathFailsShorter DEF RevisionFails
<1> QED
  BY <1>1, <1>2

LEMMA TurnFailsShorter ==
  ASSUME IInv, Active, pc # "target", turn # 0, NEW e, TurnFails(e), Fixed
  PROVE  Shorter
<1>1. CASE turn < Last
  <2>1. turn' = turn + 1 /\ pc' = "member" /\ at' = at /\ rev' = rev
    BY <1>1 DEF TurnFails
  <2>2. PathsLeft' = PathsLeft
    BY <2>1, SamePath
  <2>3. rev = 0 /\ turn \in Nat /\ Last \in Nat
    BY DispatchAssumption DEF IInv, TypeOK, LoopsInPlace
  <2> QED
    BY <2>1, <2>2, <2>3 DEF Shorter, SearchLeft, TriesLeft
<1>2. CASE ~(turn < Last)
  BY <1>2, PathFailsShorter DEF TurnFails
<1> QED
  BY <1>1, <1>2

\* A step within a call leaves less of the call.
LEMMA GoToShorter ==
  ASSUME IInv, Active, pc # "target",
         NEW place \in Invoking \cup {"instance"}, GoTo(place), Fixed,
         \/ pc = "member"
         \/ pc = "instance" /\ place \in Invoking
         \/ pc = "convert" /\ place \in {"invoke", "back"}
         \/ pc = "invoke" /\ place \in {"exception", "return"}
         \/ pc = "exception" /\ place = "return"
         \/ pc = "return" /\ place = "back"
  PROVE  Shorter
<1>1. pc' = place /\ at' = at /\ rev' = rev /\ turn' = turn
  BY DEF GoTo, walk
<1>2. PathsLeft' = PathsLeft
  BY <1>1, SamePath DEF Invoking
<1>3. SearchLeft' = SearchLeft /\ TriesLeft' = TriesLeft
  BY <1>1 DEF SearchLeft, TriesLeft, Invoking
<1>4. CallLeft' < CallLeft
  BY <1>1 DEF CallLeft, Invoking
<1> QED
  BY <1>2, <1>3, <1>4 DEF Shorter

LEMMA FindingShorter ==
  ASSUME IInv, FindTarget \/ FindMember \/ FindInstance
  PROVE  Shorter
<1>1. CASE FindTarget
  <2>1. Active /\ pc = "target" /\ Fixed /\ rev = 0 /\ turn = 0
    BY <1>1 DEF FindTarget, Active, IInv, LoopsInPlace
  <2>2. CASE PathFails("unknown")
    BY <2>1, <2>2, PathFailsShorter
  <2>3. CASE pc' = "member" /\ at' = at
    <3>1. PathsLeft' = PathsLeft
      BY <2>1, <2>3, SamePath
    <3> QED
      BY <2>1, <2>3, <3>1 DEF Shorter, SearchLeft
  <2> QED
    BY <1>1, <2>2, <2>3 DEF FindTarget, GoTo, walk
<1>2. CASE FindMember
  <2>1. Active /\ pc = "member" /\ Fixed
    BY <1>2 DEF FindMember, Active
  <2>2. CASE GoTo("instance") \/ GoTo("convert")
    BY <2>1, <2>2, GoToShorter DEF Invoking
  <2>3. CASE rev # 0 /\ RevisionFails
    BY <2>1, <2>3, RevisionFailsShorter
  <2>4. CASE turn # 0 /\ TurnFails(inner)
    BY <2>1, <2>4, TurnFailsShorter
  <2>5. CASE PathFails("unknown")
    BY <2>1, <2>5, PathFailsShorter
  <2> QED
    BY <1>2, <2>2, <2>3, <2>4, <2>5 DEF FindMember
<1>3. CASE FindInstance
  <2>1. Active /\ pc = "instance" /\ Fixed /\ turn # 0
    BY <1>3 DEF FindInstance, Active, IInv, LoopsInPlace
  <2>2. CASE GoTo("convert")
    BY <2>1, <2>2, GoToShorter DEF Invoking
  <2>3. CASE TurnFails("failed")
    BY <2>1, <2>3, TurnFailsShorter
  <2> QED
    BY <1>3, <2>2, <2>3 DEF FindInstance
<1> QED
  BY <1>1, <1>2, <1>3

LEMMA CallingShorter ==
  ASSUME IInv, \/ Convert \/ ConvertFails \/ Invoke \/ InvokeFails
               \/ FreeException \/ ReleaseArguments
  PROVE  Shorter
<1>1. CASE Convert \/ ConvertFails
  <2>1. pc = "convert" /\ Active /\ Fixed /\ (GoTo("invoke") \/ GoTo("back"))
    BY <1>1 DEF Convert, ConvertFails, Active
  <2> QED
    BY <2>1, GoToShorter DEF Invoking
<1>2. CASE Invoke \/ InvokeFails
  <2>1. CASE Invoke
    <3>1. pc = "invoke" /\ Active /\ Fixed
      BY <2>1 DEF Invoke, Active
    <3>2. GoTo("return")
      BY <2>1 DEF Invoke
    <3> QED
      BY <3>1, <3>2, GoToShorter DEF Invoking
  <2>2. CASE InvokeFails
    <3>1. pc = "invoke" /\ Active /\ Fixed
      BY <2>2, Zenon DEF InvokeFails, Active
    <3>2. GoTo("exception")
      BY <2>2, Zenon DEF InvokeFails
    <3> QED
      BY <3>1, <3>2, GoToShorter DEF Invoking
  <2> QED
    BY <1>2, <2>1, <2>2
<1>3. CASE FreeException
  <2>1. pc = "exception" /\ Active /\ Fixed /\ GoTo("return")
    BY <1>3 DEF FreeException, Active
  <2> QED
    BY <2>1, GoToShorter DEF Invoking
<1>4. CASE ReleaseArguments
  <2>1. pc = "return" /\ Active /\ Fixed /\ GoTo("back")
    BY <1>4 DEF ReleaseArguments, Active
  <2> QED
    BY <2>1, GoToShorter DEF Invoking
<1> QED
  BY <1>1, <1>2, <1>3, <1>4

LEMMA ReturningShorter ==
  ASSUME IInv, BackInFetch \/ BackInTurn \/ BackInRequest
  PROVE  Shorter
<1>1. pc = "back" /\ Active /\ Fixed
  BY DEF BackInFetch, BackInTurn, BackInRequest, Active
<1>2. CASE BackInFetch
  <2>1. CASE rev' = 0 /\ pc' = "member" /\ at' = at
    <3>1. PathsLeft' = PathsLeft
      BY <1>1, <2>1, SamePath
    <3>2. rev # 0
      BY <1>2 DEF BackInFetch
    <3> QED
      BY <1>1, <2>1, <3>1, <3>2 DEF Shorter, SearchLeft
  <2>2. CASE rev # 0 /\ RevisionFails
    BY <1>1, <2>2, RevisionFailsShorter
  <2> QED
    BY <1>2, <2>1, <2>2 DEF BackInFetch
<1>3. CASE BackInTurn
  BY <1>1, <1>3, TurnFailsShorter, SucceedShorter DEF BackInTurn
<1>4. CASE BackInRequest
  <2>1. CASE PathFails("failed")
    BY <1>1, <2>1, PathFailsShorter
  <2>2. CASE Succeed(IF request.kind = "int" /\ call.result # "integer"
                     THEN "failed" ELSE "nil")
    BY <1>1, <2>2, SucceedShorter
  <2> QED
    BY <1>4, <2>1, <2>2 DEF BackInRequest
<1> QED
  BY <1>2, <1>3, <1>4

\* The loops over paths, revisions and interfaces end: every step of a request
\* takes something from what is left of it, in an order in which nothing can
\* go down for ever.  That a step is always taken is left to the fairness of
\* the run, which checks Answered.
THEOREM RequestEnds ==
  Spec => /\ [](Left \in Nat \X Nat \X Nat \X Nat)
          /\ [][Proceed => Shorter]_vars
<1>1. Inv => Left \in Nat \X Nat \X Nat \X Nat
  BY LeftCounts DEF Inv
<1>2. Inv => (Proceed => Shorter)
  BY FindingShorter, CallingShorter, ReturningShorter DEF Inv, Proceed
<1> QED
  BY <1>1, <1>2, InvTheorem, PTL
=============================================================================
