----------------------------- MODULE MCMonitors -----------------------------
(* Every DPI around the rounding and clamping points, with sizes at the     *)
(* edges of each rule of resolveSize.                                       *)
EXTENDS Monitors

MCDpis == {-1, 0} \cup 90..150 \cup 165..175 \cup 470..490
MCScreens == {0, 201, 750, 1001, 1280, 1499, 2400, 3841, 8193}
MCRequests == {0, 200, 201, 1025, 8191, 8192}
=============================================================================
