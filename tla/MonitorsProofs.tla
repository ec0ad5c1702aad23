-------------------------- MODULE MonitorsProofs --------------------------
(***************************************************************************)
(* Theorems about the display arithmetic, for every DPI, screen, requested *)
(* size and configured scale.  None of them needs more than the operator   *)
(* lemmas: a state of Monitors is computed afresh for each monitor.        *)
(***************************************************************************)
EXTENDS Monitors, GeometryProofs

\* The invariant of the monitors: the factors are those of the monitor.
Current ==
  /\ dpi \in Int
  /\ factors = scaleFactors(Scale, DeviceScale, dpi)

LEMMA CurrentInvariant == Spec => []Current
<1>1. Init => Current
  BY MonitorsAssumption DEF Init, Current
<1>2. Current /\ [Next]_vars => Current'
  <2> SUFFICES ASSUME Current, [Next]_vars PROVE Current'
    OBVIOUS
  <2>1. ASSUME NEW d \in Dpis, MoveTo(d) PROVE Current'
    BY <2>1, MonitorsAssumption DEF Current, MoveTo
  <2>2. CASE UNCHANGED vars
    BY <2>2 DEF Current, vars
  <2> QED
    BY <2>1, <2>2 DEF Next
<1> QED
  BY <1>1, <1>2, PTL DEF Spec

\* So the factors of every state are accepted, and the device scale is the
\* largest that fits an automatic one.
LEMMA CurrentFactors ==
  ASSUME Current
  PROVE  FactorsAccepted /\ LargestDeviceScale
<1>1. /\ dpi \in Int
      /\ Scale \in Int /\ ValidScale(Scale)
      /\ DeviceScale \in Int /\ ValidDevice(DeviceScale)
  BY MonitorsAssumption DEF Current
<1> DEFINE f == scaleFactors(Scale, DeviceScale, dpi)
<1>2. /\ f.desktop \in 100..500
      /\ f.device \in deviceScaleBuckets
      /\ DeviceScale = scaleAuto =>
           /\ f.device <= f.desktop
           /\ \A v \in deviceScaleBuckets : v <= f.desktop => v <= f.device
  BY <1>1, FactorsAreAccepted
<1>3. factors = f
  BY DEF Current
<1> HIDE DEF f
<1> QED
  BY <1>2, <1>3 DEF FactorsAccepted, LargestDeviceScale

\* Every pair of factors is accepted (FactorsAccepted).
THEOREM FactorsAcceptedTheorem == Spec => []FactorsAccepted
<1>1. Current => FactorsAccepted
  BY CurrentFactors
<1> QED
  BY <1>1, CurrentInvariant, PTL

\* No larger device scale would have fitted (LargestDeviceScale).
THEOREM LargestDeviceScaleTheorem == Spec => []LargestDeviceScale
<1>1. Current => LargestDeviceScale
  BY CurrentFactors
<1> QED
  BY <1>1, CurrentInvariant, PTL

\* The automatic scale is the nearest percentage (NearestPercent).
THEOREM NearestPercentTheorem == Spec => []NearestPercent
<1>1. Current => NearestPercent
  BY DesktopScaleNearest DEF Current, NearestPercent, scaleFactors
<1> QED
  BY <1>1, CurrentInvariant, PTL

\* What the assumption says of a screen and of a request.
LEMMA MonitorsRange ==
  ASSUME NEW screen \in Screens, NEW request \in Requests
  PROVE  /\ request \in Int /\ ValidExtent(request)
         /\ screen \in Int /\ (screen <= 0 \/ screen \in 200..8193)
<1>1. request \in {n \in Int : ValidExtent(n)}
  BY MonitorsAssumption DEF ValidExtent
<1>2. screen \in {n \in Int : n <= 0 \/ n \in 200..8193}
  BY MonitorsAssumption DEF ValidExtent
<1> QED
  BY <1>1, <1>2

\* The session's size is legal in every state (SessionSizeLegal).
THEOREM SessionSizeLegalTheorem == Spec => []SessionSizeLegal
<1>1. Init => SessionSizeLegal
  <2> SUFFICES ASSUME NEW screen \in Screens, NEW request \in Requests,
                      NEW full \in BOOLEAN,
                      width = resolveWidth(request, screen, full),
                      height = resolveHeight(request, screen, full)
               PROVE  SessionSizeLegal
    BY DEF Init
  <2>1. /\ request \in Int /\ ValidExtent(request)
        /\ screen \in Int /\ (screen <= 0 \/ screen \in 200..8193)
    BY MonitorsRange
  <2>2. width % 2 = 0 /\ width \in 200..8192
    <3>1. PICK default \in Int, lo \in Int, hi \in Int :
            default = 1024 /\ lo = 800 /\ hi = 1920
      OBVIOUS
    <3>2. 200 <= default /\ default <= 8192 /\ 200 <= lo /\ lo <= hi /\ hi <= 8192
      BY <3>1
    <3>3. LegalExtent(resolveExtent(request, screen, full, default, lo, hi))
      BY <2>1, <3>2, ResolvedExtentLegal, SMTT(30)
    <3> QED
      BY <3>1, <3>3 DEF resolveWidth, LegalExtent
  <2>3. height % 2 = 0 /\ height \in 200..8192
    <3>1. PICK default \in Int, lo \in Int, hi \in Int :
            default = 768 /\ lo = 600 /\ hi = 1200
      OBVIOUS
    <3>2. 200 <= default /\ default <= 8192 /\ 200 <= lo /\ lo <= hi /\ hi <= 8192
      BY <3>1
    <3>3. LegalExtent(resolveExtent(request, screen, full, default, lo, hi))
      BY <2>1, <3>2, ResolvedExtentLegal, SMTT(30)
    <3> QED
      BY <3>1, <3>3 DEF resolveHeight, LegalExtent
  <2> QED
    BY <2>2, <2>3 DEF SessionSizeLegal
<1>2. SessionSizeLegal /\ [Next]_vars => SessionSizeLegal'
  <2> SUFFICES ASSUME SessionSizeLegal, [Next]_vars PROVE SessionSizeLegal'
    OBVIOUS
  <2>1. UNCHANGED <<width, height>>
    BY DEF Next, MoveTo, vars
  <2> QED
    BY <2>1 DEF SessionSizeLegal
<1> QED
  BY <1>1, <1>2, PTL DEF Spec

\* A denser monitor never gets smaller factors (ScaleIsMonotone).
THEOREM ScaleIsMonotoneTheorem == Spec => ScaleIsMonotone
<1>1. ASSUME Current, Current', [Next]_vars
      PROVE  [96 <= dpi /\ dpi <= dpi' => /\ factors.desktop <= factors.desktop'
                                         /\ factors.device <= factors.device']_vars
  <2> SUFFICES ASSUME 96 <= dpi, dpi <= dpi'
               PROVE  /\ factors.desktop <= factors.desktop'
                      /\ factors.device <= factors.device'
    OBVIOUS
  <2> DEFINE s(d) == IF Scale = scaleAuto THEN desktopScaleForDPI(d) ELSE Scale
  <2>1. dpi \in Int /\ dpi' \in Int
    BY <1>1 DEF Current
  <2>2. /\ factors.desktop = s(dpi) /\ factors.desktop' = s(dpi')
        /\ factors.device = IF DeviceScale = scaleAuto
             THEN deviceScaleForDesktopScale(s(dpi)) ELSE DeviceScale
        /\ factors.device' = IF DeviceScale = scaleAuto
             THEN deviceScaleForDesktopScale(s(dpi')) ELSE DeviceScale
    BY <1>1 DEF Current, scaleFactors
  <2>3. PICK r \in 100..500 : r = s(dpi)
    <3>1. desktopScaleForDPI(dpi) \in 100..500
      BY <2>1, DesktopScaleInRange
    <3>2. Scale # scaleAuto => Scale \in 100..500
      BY MonitorsAssumption DEF ValidScale
    <3> QED
      BY <3>1, <3>2
  <2>4. PICK t \in 100..500 : t = s(dpi')
    <3>1. desktopScaleForDPI(dpi') \in 100..500
      BY <2>1, DesktopScaleInRange
    <3>2. Scale # scaleAuto => Scale \in 100..500
      BY MonitorsAssumption DEF ValidScale
    <3> QED
      BY <3>1, <3>2
  <2>5. r <= t
    <3>1. CASE Scale = scaleAuto
      <4>1. r = desktopScaleForDPI(dpi) /\ t = desktopScaleForDPI(dpi')
        BY <2>3, <2>4, <3>1
      <4>2. desktopScaleForDPI(dpi) <= desktopScaleForDPI(dpi')
        BY <2>1, DesktopScaleMonotone
      <4> QED
        BY <4>1, <4>2
    <3>2. CASE Scale # scaleAuto
      <4>1. r = Scale /\ t = Scale
        BY <2>3, <2>4, <3>2
      <4> QED
        BY <4>1
    <3> QED
      BY <3>1, <3>2
  <2> HIDE DEF s
  <2>6. CASE DeviceScale = scaleAuto
    <3>1. deviceScaleForDesktopScale(r) <= deviceScaleForDesktopScale(t)
      BY <2>5, DeviceScaleMonotone
    <3> QED
      BY <2>2, <2>3, <2>4, <2>5, <2>6, <3>1
  <2>7. CASE DeviceScale # scaleAuto
    <3>1. DeviceScale \in Int
      BY MonitorsAssumption
    <3> QED
      BY <2>2, <2>3, <2>4, <2>5, <2>7, <3>1
  <2> QED
    BY <2>6, <2>7
<1> QED
  BY <1>1, CurrentInvariant, PTL DEF Spec, ScaleIsMonotone
=============================================================================
