------------------------------- MODULE MCApp -------------------------------
(* Small instances of App for TLC.                                         *)
EXTENDS App

\* Outside steps, per question asked.  A kind that is 0 does not happen.
Nothing == [k \in Kinds |-> 0]

LifecycleBudget ==
  {[Nothing EXCEPT !["close"] = 2, !["retry"] = 1, !["logonError"] = 1,
                   !["fatal"] = 1, !["gesture"] = 1],
   [Nothing EXCEPT !["close"] = 2, !["gesture"] = 1, !["toggle"] = 2,
                   !["minimise"] = 1]}
DisplayBudget   == {[Nothing EXCEPT !["gesture"] = 2, !["dpi"] = 1,
                                    !["resize"] = 1, !["toggle"] = 1]}
\* Tables of event names: all of them; two in which some could not be read, of
\* events the program only logs or flags, and of the session's end and the end
\* of full screen; and none at all.
FullTable == {EventNames}

LifecycleTables ==
  {EventNames,
   EventNames \ {"OnAutoReconnecting", "OnLoginComplete"},
   EventNames \ {"OnDisconnected", "OnLeaveFullScreenMode"},
   {}}

NoBudget        == {Nothing}
DpiBudget       == {[Nothing EXCEPT !["dpi"] = 1]}
TwoGestures     == {[Nothing EXCEPT !["gesture"] = 2]}
TwoCloses       == {[Nothing EXCEPT !["close"] = 2]}
=============================================================================
