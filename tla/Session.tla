------------------------------ MODULE Session ------------------------------
(***************************************************************************)
(* What the program promises whoever starts it: one session, lived at most *)
(* once and never resumed after its end, then an exit status that tells    *)
(* whether there was one.  App implements it, see SessionView there.       *)
(***************************************************************************)
EXTENDS Naturals

VARIABLES
  phase,   \* where the session is
  lived,   \* has it ever been up?
  status   \* the exit status, once exited

vars == <<phase, lived, status>>

TypeOK ==
  /\ phase \in {"starting", "connecting", "live", "ended", "closing", "exited"}
  /\ lived \in BOOLEAN
  /\ status \in 0..2

Init == phase = "starting" /\ lived = FALSE /\ status = 0

Begin ==
  /\ phase = "starting"
  /\ phase' = "connecting"
  /\ UNCHANGED <<lived, status>>

\* Anything that fails before the loop is an error.
Abort ==
  /\ phase = "starting"
  /\ phase' = "exited" /\ status' = 1
  /\ UNCHANGED lived

GoLive ==
  /\ phase = "connecting"
  /\ phase' = "live" /\ lived' = TRUE
  /\ UNCHANGED status

End ==
  /\ phase \in {"connecting", "live"}
  /\ phase' = "ended"
  /\ UNCHANGED <<lived, status>>

\* The window goes away.
Leave ==
  /\ phase \in {"connecting", "live", "ended"}
  /\ phase' = "closing"
  /\ UNCHANGED <<lived, status>>

\* Late news while the program is closing can only be that it did live.
LearnLate ==
  /\ phase = "closing"
  /\ lived' = TRUE
  /\ UNCHANGED <<phase, status>>

Exit ==
  /\ phase = "closing"
  /\ phase' = "exited"
  /\ status' \in IF lived THEN 0..2 ELSE 1..2
  /\ UNCHANGED lived

Next == Begin \/ Abort \/ GoLive \/ End \/ Leave \/ LearnLate \/ Exit

Spec == Init /\ [][Next]_vars
=============================================================================
