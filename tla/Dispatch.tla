------------------------------ MODULE Dispatch ------------------------------
(* One request to the control, call by call: setAny with its targets and    *)
(* the non-scriptable interfaces (control.go), the helpers of disp           *)
(* (dispatch.go), tiInvoke (typelib.go) and the VARIANTs, BSTRs and          *)
(* references they hold (variant.go, com.go).  A step is one call to the     *)
(* control or to the system, or one return.                                  *)
(*                                                                           *)
(* Every call is made from the thread of the window.  A handler that runs    *)
(* inside one of them makes requests of its own, but only to the control's   *)
(* own dispatch interface and with locals of its own: it is left out.        *)
(*                                                                           *)
(* An operator whose comment starts with "Mutant" is the wrong version of    *)
(* the definition that follows it, by which a property is seen to bite.      *)
EXTENDS Integers, Sequences

CONSTANTS
  Names,     \* the members requests name
  Max,       \* how many revisions of each settings interface are asked for
  Last,      \* how many non-scriptable interfaces the type library declares
  Arity,     \* the most arguments a call has
  Controls,  \* the controls there are
  Requests   \* what the program asks of them

Interfaces == {"advanced", "secured", "transport"}
Targets    == Interfaces \cup {"control", "nonscriptable"}
Paths      == Targets \X Names
Revisions  == UNION {{i} \X (1..Max[i]) : i \in Interfaces}
\* The objects that have members: of a non-scriptable interface, by its turn.
Objects    == {<<"control", 0>>} \cup Revisions
                \cup ({"nonscriptable"} \X (1..Last))

Gifts   == {"unknown", "refuses", "other", "object"}
Answers == {"unknown", "refuses", "takes"}
Kinds   == {"put", "call", "int", "string"}

\* What a control is: what it hands out when a revision of an interface is
\* fetched, which interfaces it has, and what it answers to each member.
Control == [gives : [Revisions -> Gifts],
            has : [1..Last -> BOOLEAN],
            answers : [Objects \X Names -> Answers]]
Request == [kind : Kinds, paths : Seq(Paths), args : Seq({"number", "string"})]

ASSUME DispatchAssumption ==
  /\ Max \in [Interfaces -> Nat \ {0}]
  /\ Last \in Nat
  /\ Arity \in Nat
  /\ Controls \subseteq Control
  /\ Requests \subseteq Request

\* What the program asks: only a write has several paths, only the control
\* itself has methods, and no call with several arguments has a string among
\* them (invokeID gives back the wrong slots when a later argument fails).
ASSUME RequestsAssumption ==
  \A q \in Requests :
    /\ q.paths # << >>
    /\ q.kind = "put" => Len(q.args) = 1
    /\ q.kind # "put" => Len(q.paths) = 1 /\ q.paths[1][1] = "control"
    /\ Len(q.args) <= Arity
    /\ Len(q.args) > 1 => \A n \in DOMAIN q.args : q.args[n] = "number"

VARIABLES
  ctl,      \* the control
  pc,       \* where the request is
  request,  \* the request at hand, or the one before
  answer,   \* "pending", or the error it ended with
  at,       \* setAny: which of its paths
  rev,      \* subAny: which revision is being fetched, 0 for none
  turn,     \* setNonScriptable: which interface, 0 for none
  inst,     \* setNonScriptable: is its instance held?
  inner,    \* setNonScriptable: lastErr
  lastErr,  \* setAny: lastErr
  call,     \* invokeID and tiInvoke: vars, ex, the result and the error
  cached,   \* the revision held of each settings interface, 0 for none
  owed,     \* how often each thing has been handed out and not given back
  written,  \* which path the control has taken, 0 for none
  starved   \* has SysAllocString failed during the request?

walk == <<at, rev, turn, inner, lastErr>>
vars == <<ctl, pc, request, answer, walk, inst, call, cached, owed, written,
          starved>>

NoRequest == [kind |-> "none", paths |-> << >>, args |-> << >>]
NoCall    == [vars |-> [s \in 1..Arity |-> "empty"], ex |-> {},
              result |-> "nothing", error |-> FALSE]

------------------------------------------------------------------------------
(* Things that must be given back.                                           *)

ExceptionTexts == {"Source", "Description", "HelpFile"}
Things == ({"argument"} \X (1..Arity)) \cup (ExceptionTexts \X {0})
            \cup {<<"result", 0>>, <<"instance", 0>>} \cup Revisions

Ledger(o, got, given) ==
  [t \in Things |-> o[t] + (IF t \in got THEN 1 ELSE 0)
                         - (IF t \in given THEN 1 ELSE 0)]

Strings(v)  == {<<"argument", s>> : s \in {s \in 1..Arity : v[s] = "string"}}
Texts(e)    == e \X {0}
References(c) == {<<i, c[i]>> : i \in {i \in Interfaces : c[i] # 0}}
\* A result that is an interface being fetched is a reference to that revision.
ResultThing(result, i, r) ==
  IF result = "object" /\ r # 0 THEN {<<i, r>>}
  ELSE IF result \in {"string", "object"} THEN {<<"result", 0>>} ELSE {}

Target == request.paths[at][1]
Name   == request.paths[at][2]

\* What the program's locals and fields still refer to.
HeldBy(c, i, r, instance, cache) ==
  Strings(c.vars) \cup Texts(c.ex) \cup ResultThing(c.result, i, r)
    \cup (IF instance THEN {<<"instance", 0>>} ELSE {})
    \cup References(cache)
Held == HeldBy(call, Target, rev, inst, cached)

------------------------------------------------------------------------------
(* Where a step leads.                                                       *)

\* The member being called.
Object == IF turn # 0 THEN <<"nonscriptable", turn>>
          ELSE IF Target = "control" THEN <<"control", 0>>
          ELSE <<Target, cached[Target]>>
Says   == IF rev # 0 THEN ctl.gives[<<Target, rev>>]
          ELSE ctl.answers[<<Object, Name>>]
Args   == IF rev # 0 THEN << >> ELSE request.args

\* Mutant: the same path is tried for ever.
PathFailsAgain(error) ==
  /\ lastErr' = error
  /\ rev' = 0 /\ turn' = 0 /\ inner' = "none"
  /\ IF at < Len(request.paths)
       THEN pc' = "target" /\ at' = at /\ answer' = answer
       ELSE pc' = "idle" /\ at' = at /\ answer' = error

\* setAny: the error of this path is kept, and the next path tried.
PathFails(error) ==
  /\ lastErr' = error
  /\ rev' = 0 /\ turn' = 0 /\ inner' = "none"
  /\ IF at < Len(request.paths)
       THEN pc' = "target" /\ at' = at + 1 /\ answer' = answer
       ELSE pc' = "idle" /\ at' = at /\ answer' = error

\* subAny: the next older revision, and after the last no interface.
RevisionFails ==
  IF rev > 1
    THEN /\ rev' = rev - 1 /\ pc' = "member"
         /\ UNCHANGED <<at, turn, inner, lastErr, answer>>
    ELSE PathFails("failed")

\* Mutant: one interface too many is looked at.
TurnFailsBeyond(error) ==
  IF turn <= Last
    THEN /\ turn' = turn + 1 /\ pc' = "member" /\ inner' = error
         /\ UNCHANGED <<at, rev, lastErr, answer>>
    ELSE PathFails(IF error = "none" THEN "unknown" ELSE error)

\* setNonScriptable: the next interface, and after the last an error.
TurnFails(error) ==
  IF turn < Last
    THEN /\ turn' = turn + 1 /\ pc' = "member" /\ inner' = error
         /\ UNCHANGED <<at, rev, lastErr, answer>>
    ELSE PathFails(IF error = "none" THEN "unknown" ELSE error)

Succeed(error) ==
  /\ pc' = "idle" /\ answer' = error
  /\ rev' = 0 /\ turn' = 0 /\ inner' = "none"
  /\ UNCHANGED <<at, lastErr>>

GoTo(place) == pc' = place /\ UNCHANGED <<walk, answer>>

Fixed == UNCHANGED <<ctl, request>>

------------------------------------------------------------------------------
Init ==
  /\ ctl \in Controls
  /\ pc = "idle"
  /\ request = NoRequest
  /\ answer = "nil"
  /\ at = 1 /\ rev = 0 /\ turn = 0 /\ inst = FALSE
  /\ inner = "none" /\ lastErr = "none"
  /\ call = NoCall
  /\ cached = [i \in Interfaces |-> 0]
  /\ owed = [t \in Things |-> 0]
  /\ written = 0
  /\ starved = FALSE

Ask ==
  /\ pc = "idle"
  /\ request' \in Requests
  /\ pc' = "target" /\ answer' = "pending"
  /\ at' = 1 /\ lastErr' = "none"
  /\ written' = 0 /\ starved' = FALSE
  /\ UNCHANGED <<ctl, rev, turn, inst, inner, call, cached, owed>>

\* Between requests the session goes up or down, and a control answers
\* otherwise; the interfaces it hands out are those of its build.
ControlChanges ==
  /\ pc = "idle"
  /\ ctl' \in {c \in Controls : c.gives = ctl.gives /\ c.has = ctl.has}
  /\ UNCHANGED <<pc, request, answer, walk, inst, call, cached, owed, written,
                 starved>>

\* Mutant: the revisions are tried from the oldest.
FindTargetOldest ==
  /\ pc = "target"
  /\ IF Target = "nonscriptable"
       THEN IF Last = 0
              THEN PathFails("unknown")
              ELSE /\ turn' = 1 /\ inner' = "none" /\ pc' = "member"
                   /\ UNCHANGED <<at, rev, lastErr, answer>>
       ELSE IF Target \in Interfaces /\ cached[Target] = 0
              THEN /\ rev' = 1 /\ pc' = "member"
                   /\ UNCHANGED <<at, turn, inner, lastErr, answer>>
              ELSE GoTo("member")
  /\ UNCHANGED <<inst, call, cached, owed, written, starved>> /\ Fixed

\* target, and the first lines of Advanced, Secured, Transport and
\* setNonScriptable.
FindTarget ==
  /\ pc = "target"
  /\ IF Target = "nonscriptable"
       THEN IF Last = 0
              THEN PathFails("unknown")
              ELSE /\ turn' = 1 /\ inner' = "none" /\ pc' = "member"
                   /\ UNCHANGED <<at, rev, lastErr, answer>>
       ELSE IF Target \in Interfaces /\ cached[Target] = 0
              THEN /\ rev' = Max[Target] /\ pc' = "member"
                   /\ UNCHANGED <<at, turn, inner, lastErr, answer>>
              ELSE GoTo("member")
  /\ UNCHANGED <<inst, call, cached, owed, written, starved>> /\ Fixed

\* memberID and tiMemberID.
FindMember ==
  /\ pc = "member"
  /\ IF Says # "unknown"
       THEN GoTo(IF turn # 0 THEN "instance" ELSE "convert")
       ELSE IF rev # 0 THEN RevisionFails
       ELSE IF turn # 0 THEN TurnFails(inner)
       ELSE PathFails("unknown")
  /\ UNCHANGED <<inst, call, cached, owed, written, starved>> /\ Fixed

\* setNonScriptable: QueryInterface.
FindInstance ==
  /\ pc = "instance"
  /\ IF ctl.has[turn]
       THEN /\ inst' = TRUE /\ owed' = Ledger(owed, {<<"instance", 0>>}, {})
            /\ GoTo("convert")
       ELSE TurnFails("failed") /\ UNCHANGED <<inst, owed>>
  /\ UNCHANGED <<call, cached, written, starved>> /\ Fixed

\* The slots once the first n arguments are converted, in reverse order.
Slots(args, n) ==
  [s \in 1..Arity |-> IF s \in DOMAIN args /\ Len(args) + 1 - s <= n
                      THEN args[Len(args) + 1 - s] ELSE "empty"]

\* newVariant for each argument.
Convert ==
  /\ pc = "convert"
  /\ call' = [NoCall EXCEPT !.vars = Slots(Args, Len(Args))]
  /\ owed' = Ledger(owed, Strings(call'.vars), {})
  /\ GoTo("invoke")
  /\ UNCHANGED <<inst, cached, written, starved>> /\ Fixed

\* SysAllocString fails for argument n: the slots below it are given back.
ConvertFails ==
  /\ pc = "convert"
  /\ \E n \in DOMAIN Args :
       LET done == Slots(Args, n - 1) IN
       /\ Args[n] = "string"
       /\ owed' = Ledger(owed, Strings(done),
                         {<<"argument", s>> : s \in
                            {s \in 1..(n - 1) : done[s] = "string"}})
  /\ call' = [NoCall EXCEPT !.error = TRUE]
  /\ starved' = TRUE
  /\ GoTo("back")
  /\ UNCHANGED <<inst, cached, written>> /\ Fixed

\* IDispatch::Invoke and ITypeInfo::Invoke succeed.  A property written
\* through type information has no result.
Results ==
  IF rev # 0 THEN IF Says = "object" THEN {"object"} ELSE {"nothing", "string"}
  ELSE IF turn # 0 THEN {"nothing"}
  ELSE {"nothing", "integer", "string", "object"}

Invoke ==
  /\ pc = "invoke" /\ Says # "refuses"
  /\ \E result \in Results :
       /\ call' = [call EXCEPT !.result = result]
       /\ owed' = Ledger(owed, ResultThing(result, Target, rev), {})
  /\ written' = IF rev # 0 THEN written ELSE at
  /\ GoTo("return")
  /\ UNCHANGED <<inst, cached, starved>> /\ Fixed

\* They fail, with an exception that may have texts.
InvokeFails ==
  /\ pc = "invoke" /\ Says = "refuses"
  /\ \E ex \in SUBSET ExceptionTexts :
       /\ call' = [call EXCEPT !.ex = ex, !.error = TRUE]
       /\ owed' = Ledger(owed, Texts(ex), {})
  /\ GoTo("exception")
  /\ UNCHANGED <<inst, cached, written, starved>> /\ Fixed

\* EXCEPINFO.free.
FreeException ==
  /\ pc = "exception"
  /\ owed' = Ledger(owed, {}, Texts(call.ex))
  /\ call' = [call EXCEPT !.ex = {}]
  /\ GoTo("return")
  /\ UNCHANGED <<inst, cached, written, starved>> /\ Fixed

\* The deferred releaseVariant of every argument.
ReleaseArguments ==
  /\ pc = "return"
  /\ owed' = Ledger(owed, {}, Strings(call.vars))
  /\ call' = [call EXCEPT !.vars = NoCall.vars]
  /\ GoTo("back")
  /\ UNCHANGED <<inst, cached, written, starved>> /\ Fixed

\* Mutant: what is not an object is dropped without being cleared.
BackInFetchUncleared ==
  /\ pc = "back" /\ rev # 0
  /\ call' = NoCall
  /\ IF call.result = "object"
       THEN /\ cached' = [cached EXCEPT ![Target] = rev]
            /\ rev' = 0 /\ pc' = "member"
            /\ UNCHANGED <<at, turn, inner, lastErr, answer>>
       ELSE cached' = cached /\ RevisionFails
  /\ UNCHANGED <<inst, owed, written, starved>> /\ Fixed

\* sub and subAny: an object is kept, anything else cleared.
BackInFetch ==
  /\ pc = "back" /\ rev # 0
  /\ call' = NoCall
  /\ IF call.result = "object"
       THEN /\ cached' = [cached EXCEPT ![Target] = rev]
            /\ owed' = owed
            /\ rev' = 0 /\ pc' = "member"
            /\ UNCHANGED <<at, turn, inner, lastErr, answer>>
       ELSE /\ owed' = Ledger(owed, {}, ResultThing(call.result, Target, rev))
            /\ cached' = cached
            /\ RevisionFails
  /\ UNCHANGED <<inst, written, starved>> /\ Fixed

\* Mutant: a value that has been written is written again through an older
\* interface.
BackInTurnGoesOn ==
  /\ pc = "back" /\ rev = 0 /\ turn # 0
  /\ owed' = Ledger(owed, {}, {<<"instance", 0>>})
  /\ inst' = FALSE
  /\ call' = NoCall
  /\ IF call.error \/ turn < Last THEN TurnFails("failed") ELSE Succeed("nil")
  /\ UNCHANGED <<cached, written, starved>> /\ Fixed

\* setNonScriptable: the instance is released in any case.
BackInTurn ==
  /\ pc = "back" /\ rev = 0 /\ turn # 0
  /\ owed' = Ledger(owed, {}, {<<"instance", 0>>})
  /\ inst' = FALSE
  /\ call' = NoCall
  /\ IF call.error THEN TurnFails("failed") ELSE Succeed("nil")
  /\ UNCHANGED <<cached, written, starved>> /\ Fixed

\* put, call, getInt and stringWith: the result is cleared in any case.
BackInRequest ==
  /\ pc = "back" /\ rev = 0 /\ turn = 0
  /\ owed' = Ledger(owed, {}, ResultThing(call.result, Target, rev))
  /\ call' = NoCall
  /\ IF call.error THEN PathFails("failed")
     ELSE Succeed(IF request.kind = "int" /\ call.result # "integer"
                  THEN "failed" ELSE "nil")
  /\ UNCHANGED <<inst, cached, written, starved>> /\ Fixed

\* rdpControl.Close, as far as the settings interfaces go.
Close ==
  /\ pc = "idle"
  /\ pc' = "closed"
  /\ owed' = Ledger(owed, {}, References(cached))
  /\ cached' = [i \in Interfaces |-> 0]
  /\ UNCHANGED <<ctl, request, answer, walk, inst, call, written, starved>>

\* The steps of a request.
Proceed ==
  \/ FindTarget \/ FindMember \/ FindInstance
  \/ Convert \/ ConvertFails \/ Invoke \/ InvokeFails
  \/ FreeException \/ ReleaseArguments
  \/ BackInFetch \/ BackInTurn \/ BackInRequest

Closed == pc = "closed" /\ UNCHANGED vars

Next == Ask \/ ControlChanges \/ Proceed \/ Close \/ Closed

Spec     == Init /\ [][Next]_vars
FairSpec == Spec /\ WF_vars(Proceed)

------------------------------------------------------------------------------
TypeOK ==
  /\ ctl \in Controls
  /\ pc \in {"idle", "target", "member", "instance", "convert", "invoke",
             "exception", "return", "back", "closed"}
  /\ request \in Requests \cup {NoRequest}
  /\ answer \in {"pending", "nil", "failed", "unknown"}
  /\ at \in Nat /\ rev \in Nat /\ turn \in 0..Last /\ inst \in BOOLEAN
  /\ inner \in {"none", "failed"} /\ lastErr \in {"none", "failed", "unknown"}
  /\ call \in [vars : [1..Arity -> {"empty", "number", "string"}],
               ex : SUBSET ExceptionTexts,
               result : {"nothing", "integer", "string", "object"},
               error : BOOLEAN]
  /\ cached \in [Interfaces -> Nat]
  /\ owed \in [Things -> Int]
  /\ written \in Nat
  /\ starved \in BOOLEAN

\* Every BSTR, result and reference handed out has been given back or is still
\* held, once: on each of the early returns of invokeID, sub, subAny and
\* setNonScriptable, and in the cache of the settings interfaces.
Once(held) == [t \in Things |-> IF t \in held THEN 1 ELSE 0]
Balanced   == owed = Once(Held)

\* The newest revision of an interface the control hands out, 0 if none.
Newest(c, i) ==
  IF \E r \in 1..Max[i] : c.gives[<<i, r>>] = "object"
    THEN CHOOSE r \in 1..Max[i] :
           /\ c.gives[<<i, r>>] = "object"
           /\ \A s \in (r + 1)..Max[i] : c.gives[<<i, s>>] # "object"
    ELSE 0

\* An interface is held in the newest revision the control hands out, "so that
\* the newest interface revision available on this host is used" (dispatch.go,
\* lines 226-227).
NewestRevision ==
  \A i \in Interfaces : cached[i] \in {0, Newest(ctl, i)}

\* What the control says to a path, through the newest revision of its
\* interface, or through any of the non-scriptable interfaces it has.
Verdict(c, p) ==
  IF p[1] = "control" THEN c.answers[<<<<"control", 0>>, p[2]>>]
  ELSE IF p[1] = "nonscriptable"
    THEN IF \E t \in 1..Last : /\ c.has[t]
                               /\ c.answers[<<<<p[1], t>>, p[2]>>] = "takes"
           THEN "takes"
         ELSE IF \E t \in 1..Last : c.answers[<<<<p[1], t>>, p[2]>>] # "unknown"
           THEN "refuses" ELSE "unknown"
  ELSE IF Newest(c, p[1]) = 0 THEN "refuses"
  ELSE c.answers[<<<<p[1], Newest(c, p[1])>>, p[2]>>]

W == INSTANCE Writing WITH
       verdict <- [p \in Paths |-> Verdict(ctl, p)]

\* "setAny writes the first of the given paths that the control actually
\* implements" (control.go, lines 348-351): the first it takes, once, and the
\* error is that of the last path when it takes none.
ImplementsWriting == W!Spec

\* Every request is answered: the loops over paths, revisions and interfaces
\* end.
Answered == pc = "target" ~> pc = "idle"
=============================================================================
