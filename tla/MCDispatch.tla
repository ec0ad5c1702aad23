----------------------------- MODULE MCDispatch -----------------------------
(* A small instance of Dispatch for TLC: two revisions of one interface and  *)
(* one of the others, two non-scriptable interfaces, one member.             *)
EXTENDS Dispatch

\* Two revisions of the interface with the most settings, one of the others.
MCMax == [i \in Interfaces |-> IF i = "advanced" THEN 2 ELSE 1]

\* What is handed out for the newer and the older advanced settings.  There
\* are always secured settings and never transport settings.
Given(newer, older) ==
  [v \in Revisions |-> IF v = <<"advanced", 2>> THEN newer
                       ELSE IF v = <<"advanced", 1>> THEN older
                       ELSE IF v[1] = "secured" THEN "object" ELSE "refuses"]

\* The newer and the older advanced settings, and whether the control has the
\* newer of the non-scriptable interfaces.
Builds == {<<"object", "object", TRUE>>, <<"unknown", "object", TRUE>>,
           <<"other", "object", FALSE>>, <<"object", "other", TRUE>>,
           <<"refuses", "other", FALSE>>}

\* All objects answer alike but one.
Replies == {a \in Answers \X Answers : a[1] # a[2]}
Answering(o, a) == [m \in Objects \X Names |-> IF m[1] = o THEN a[1] ELSE a[2]]

MCControls ==
  {[gives |-> Given(b[1], b[2]), has |-> [t \in 1..Last |-> t = Last \/ b[3]],
    answers |-> Answering(o, a)] :
     b \in Builds, a \in Replies, o \in Objects \ {<<"transport", 1>>}}

Put(paths, arg) == [kind |-> "put", paths |-> paths, args |-> <<arg>>]
Get(kind, args) ==
  [kind |-> kind, args |-> args, paths |-> <<<<"control", "m">>>>]

MCRequests ==
  {Put(<<<<"nonscriptable", "m">>, <<"advanced", "m">>>>, "string"),
   Put(<<<<"advanced", "m">>, <<"secured", "m">>, <<"control", "m">>>>, "number"),
   Put(<<<<"transport", "m">>, <<"nonscriptable", "m">>>>, "string"),
   Get("call", <<"number", "number">>), Get("int", << >>),
   Get("string", <<"number", "number">>)}
=============================================================================
