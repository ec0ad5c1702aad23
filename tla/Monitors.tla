------------------------------ MODULE Monitors ------------------------------
(***************************************************************************)
(* The display arithmetic at work: a session is given a size for the       *)
(* screen it starts on (resolveSize), and scale factors for each monitor   *)
(* its window then moves to (scaleFactors).                                *)
(***************************************************************************)
EXTENDS Geometry

CONSTANTS
  Dpis,        \* what dpiForWindow may return
  Screens,     \* the extents of the primary screen
  Requests,    \* configured extents
  Scale,       \* Config.Scale
  DeviceScale  \* Config.DeviceScale

\* The values Config.Validate lets through, and what Windows reports: a screen
\* is 0 where the metric is unknown, and no smaller than a session may be else.
ASSUME MonitorsAssumption ==
  /\ Dpis \subseteq Int
  /\ Screens \subseteq {n \in Int : n <= 0 \/ n \in 200..8193}
  /\ Requests \subseteq {n \in Int : ValidExtent(n)}
  /\ Scale \in Int /\ ValidScale(Scale)
  /\ DeviceScale \in Int /\ ValidDevice(DeviceScale)

VARIABLES
  dpi,      \* the DPI of the monitor the window is on
  factors,  \* the factors for that monitor
  width,    \* the width of the session
  height    \* the height of the session

vars == <<dpi, factors, width, height>>

Init ==
  /\ dpi \in Dpis
  /\ factors = scaleFactors(Scale, DeviceScale, dpi)
  /\ \E screen \in Screens, request \in Requests, full \in BOOLEAN :
       /\ width = resolveWidth(request, screen, full)
       /\ height = resolveHeight(request, screen, full)

MoveTo(d) ==
  /\ dpi' = d
  /\ factors' = scaleFactors(Scale, DeviceScale, d)
  /\ UNCHANGED <<width, height>>

Next == \E d \in Dpis : MoveTo(d)

Spec == Init /\ [][Next]_vars

\* The control takes any desktop scale from 100 to 500 but three device scales
\* only; an automatic one never exceeds the desktop scale, so the remote desktop
\* does not overflow the window (dpi.go, lines 12-42).
FactorsAccepted ==
  /\ factors.desktop \in 100..500
  /\ factors.device \in deviceScaleBuckets
  /\ DeviceScale = scaleAuto => factors.device <= factors.desktop

\* Between the clamps the automatic scale is the percentage nearest to the DPI,
\* half a percent rounded up: 96 DPI is exactly 100 (dpi.go, lines 17-25).
NearestPercent ==
  Scale = scaleAuto /\ dpi \in 96..480 =>
    /\ 96 * factors.desktop - 100 * dpi <= 48
    /\ 100 * dpi - 96 * factors.desktop < 48

\* No larger device scale would have fitted (dpi.go, lines 30-33).
LargestDeviceScale ==
  DeviceScale = scaleAuto =>
    \A v \in deviceScaleBuckets : v <= factors.desktop => v <= factors.device

\* A session has an even size in the range Validate accepts, also when the size
\* comes from the screen (app.go, lines 169-199, and config.go, lines 136-141).
SessionSizeLegal ==
  /\ width  % 2 = 0 /\ width  \in 200..8192
  /\ height % 2 = 0 /\ height \in 200..8192

\* A denser monitor never gets a smaller scale.
ScaleIsMonotone ==
  [][96 <= dpi /\ dpi <= dpi' => /\ factors.desktop <= factors.desktop'
                                 /\ factors.device <= factors.device']_vars
=============================================================================
