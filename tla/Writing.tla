------------------------------ MODULE Writing ------------------------------
(* What setAny, call, getInt and callString promise of one request to the  *)
(* control: of the paths a value may have, the first the control takes is   *)
(* written, it and no other; without an error when one was, and with the    *)
(* error of the last path when none was.  What the control says to a path   *)
(* is its verdict; memory may run out, and then a path is passed over.      *)
EXTENDS Naturals, Sequences

CONSTANTS
  Paths,     \* the "target.Property" paths
  Requests   \* the requests the program makes, each with its paths

VARIABLES
  verdict,   \* what the control says to each path at present
  request,   \* the request at hand, or the one before
  answer,    \* "pending", or how the request before ended
  written,   \* which of its paths has been written, 0 for none
  starved    \* has an allocation failed during the request?

Verdicts == {"takes", "refuses", "unknown"}

\* The error a path leaves when it has not been written.
Failure(v) == IF v = "unknown" THEN "unknown" ELSE "failed"

NoRequest == [kind |-> "none", paths |-> << >>, args |-> << >>]

Init ==
  /\ verdict \in [Paths -> Verdicts]
  /\ request = NoRequest
  /\ answer = "nil"
  /\ written = 0
  /\ starved = FALSE

Ask ==
  /\ answer # "pending"
  /\ answer' = "pending"
  /\ request' \in Requests
  /\ written' = 0
  /\ starved' = FALSE
  /\ UNCHANGED verdict

\* Between requests a control may come to take what it refused, or refuse it.
Change ==
  /\ answer # "pending"
  /\ verdict' \in [Paths -> Verdicts]
  /\ UNCHANGED <<request, answer, written, starved>>

Starve ==
  /\ answer = "pending" /\ written = 0
  /\ starved' = TRUE
  /\ UNCHANGED <<verdict, request, answer, written>>

Taken(k) == k \in DOMAIN request.paths /\ verdict[request.paths[k]] = "takes"

Write ==
  /\ answer = "pending" /\ written = 0
  /\ \E k \in DOMAIN request.paths :
       /\ Taken(k)
       /\ starved \/ \A j \in 1..(k - 1) : ~Taken(j)
       /\ written' = k
  /\ UNCHANGED <<verdict, request, answer, starved>>

\* A property that has been read may still not be an integer.
ReplyWritten ==
  /\ answer = "pending" /\ written # 0
  /\ answer' = "nil" \/ (answer' = "failed" /\ request.kind = "int")
  /\ UNCHANGED <<verdict, request, written, starved>>

ReplyUnwritten ==
  /\ answer = "pending" /\ written = 0
  /\ starved \/ \A k \in DOMAIN request.paths : ~Taken(k)
  /\ answer' = Failure(verdict[request.paths[Len(request.paths)]])
  /\ UNCHANGED <<verdict, request, written, starved>>

Next == Ask \/ Change \/ Starve \/ Write \/ ReplyWritten \/ ReplyUnwritten

Spec == Init /\ [][Next]_<<verdict, request, answer, written, starved>>
=============================================================================
