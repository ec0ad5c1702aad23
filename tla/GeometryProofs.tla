--------------------------- MODULE GeometryProofs ---------------------------
(***************************************************************************)
(* What the operators of Geometry return, for every argument: the lemmas   *)
(* the theorems about Monitors and App rest on.  A step that reasons about *)
(* the numbers names them first, since the provers do not do arithmetic    *)
(* under an operator they may not expand.                                  *)
(***************************************************************************)
EXTENDS Geometry, TLAPS

\* clampInt keeps any value between its bounds.
LEMMA ClampInRange ==
  ASSUME NEW v \in Int, NEW lo \in Int, NEW hi \in Int, lo <= hi
  PROVE  clampInt(v, lo, hi) \in lo..hi
BY DEF clampInt

\* clampInt leaves a value between its bounds alone.
LEMMA ClampIdentity ==
  ASSUME NEW v \in Int, NEW lo \in Int, NEW hi \in Int, lo <= v, v <= hi
  PROVE  clampInt(v, lo, hi) = v
BY DEF clampInt

\* clampInt keeps the order of values.
LEMMA ClampMonotone ==
  ASSUME NEW u \in Int, NEW v \in Int, NEW lo \in Int, NEW hi \in Int,
         lo <= hi, u <= v
  PROVE  clampInt(u, lo, hi) <= clampInt(v, lo, hi)
BY DEF clampInt

\* Clearing the lowest bit gives an even number at most one smaller.
LEMMA EvenIsEven ==
  ASSUME NEW n \in Int
  PROVE  /\ Even(n) \in Int
         /\ Even(n) % 2 = 0
         /\ n - 1 <= Even(n) /\ Even(n) <= n
BY DEF Even

\* The desktop scale of any DPI, known or not, is one the control accepts.
LEMMA DesktopScaleInRange ==
  ASSUME NEW d \in Int
  PROVE  desktopScaleForDPI(d) \in 100..500
BY DEF desktopScaleForDPI, clampInt

\* The device scale is the largest bucket that fits.
LEMMA DeviceScaleFits ==
  ASSUME NEW s \in Int, s >= 100
  PROVE  LET v == deviceScaleForDesktopScale(s) IN
         /\ v \in deviceScaleBuckets
         /\ v <= s
         /\ \A u \in deviceScaleBuckets : u <= s => u <= v
<1> DEFINE fits == {v \in deviceScaleBuckets : v <= s \/ v = 100}
<1>1. \E v \in fits : \A u \in fits : u <= v
  <2>1. CASE s >= 180
    <3>1. 180 \in fits /\ \A u \in fits : u <= 180
      BY <2>1 DEF deviceScaleBuckets
    <3> QED BY <3>1
  <2>2. CASE s < 180 /\ s >= 140
    <3>1. 140 \in fits /\ \A u \in fits : u <= 140
      BY <2>2 DEF deviceScaleBuckets
    <3> QED BY <3>1
  <2>3. CASE s < 140
    <3>1. 100 \in fits /\ \A u \in fits : u <= 100
      BY <2>3 DEF deviceScaleBuckets
    <3> QED BY <3>1
  <2> QED
    BY <2>1, <2>2, <2>3
<1> DEFINE best == CHOOSE v \in fits : \A u \in fits : u <= v
<1>2. best \in fits /\ \A u \in fits : u <= best
  BY <1>1
<1>3. best = deviceScaleForDesktopScale(s)
  BY DEF deviceScaleForDesktopScale
<1> HIDE DEF best
<1> QED
  BY <1>2, <1>3 DEF deviceScaleBuckets

\* A denser monitor gets no smaller desktop scale.
LEMMA DesktopScaleMonotone ==
  ASSUME NEW c \in Int, NEW d \in Int, 96 <= c, c <= d
  PROVE  desktopScaleForDPI(c) <= desktopScaleForDPI(d)
<1> DEFINE percent(n) == (n * 100 + 48) \div 96
<1>1. percent(c) \in Int /\ percent(d) \in Int /\ percent(c) <= percent(d)
  OBVIOUS
<1>2. /\ desktopScaleForDPI(c) = clampInt(percent(c), 100, 500)
      /\ desktopScaleForDPI(d) = clampInt(percent(d), 100, 500)
  BY DEF desktopScaleForDPI
<1> HIDE DEF percent
<1> QED
  BY <1>1, <1>2, ClampMonotone

\* Between the clamps the scale is the nearest percentage.
LEMMA DesktopScaleNearest ==
  ASSUME NEW d \in 96..480
  PROVE  /\ 96 * desktopScaleForDPI(d) - 100 * d <= 48
         /\ 100 * d - 96 * desktopScaleForDPI(d) < 48
<1> DEFINE percent == (d * 100 + 48) \div 96
<1>1. /\ percent \in 100..500
      /\ 96 * percent <= d * 100 + 48
      /\ d * 100 + 48 < 96 * percent + 96
  OBVIOUS
<1>2. desktopScaleForDPI(d) = clampInt(percent, 100, 500)
  BY DEF desktopScaleForDPI
<1> HIDE DEF percent
<1>3. desktopScaleForDPI(d) = percent
  BY <1>1, <1>2, ClampIdentity
<1> QED
  BY <1>1, <1>3

LegalExtent(e) == e % 2 = 0 /\ e \in 200..8192

\* An extent made even stays inside the range of a session.
LEMMA EvenInRange ==
  ASSUME NEW n \in Int, 200 <= n, n <= 8193
  PROVE  LegalExtent(Even(n))
BY DEF Even, LegalExtent

\* A session has a legal size whatever was requested and whatever the screen.
LEMMA ResolvedExtentLegal ==
  ASSUME NEW request \in Int, ValidExtent(request),
         NEW screen \in Int, screen <= 0 \/ screen \in 200..8193,
         NEW full \in BOOLEAN,
         NEW default \in Int, 200 <= default, default <= 8192,
         NEW lo \in Int, NEW hi \in Int, 200 <= lo, lo <= hi, hi <= 8192
  PROVE  LegalExtent(resolveExtent(request, screen, full, default, lo, hi))
<1> DEFINE known == IF screen <= 0 THEN default ELSE screen
           fifths == (known * 4) \div 5
           share == clampInt(fifths, lo, hi)
           given == CASE request # extentAuto -> request
                      [] request = extentAuto /\ full -> known
                      [] OTHER -> share
<1>1. known \in Int /\ 200 <= known /\ known <= 8193
  OBVIOUS
<1>2. share \in Int /\ 200 <= share /\ share <= 8193
  <2>1. fifths \in Int
    BY <1>1
  <2> HIDE DEF fifths
  <2> QED
    BY <2>1 DEF clampInt
<1>3. given \in Int /\ 200 <= given /\ given <= 8193
  <2> HIDE DEF known, share
  <2>1. CASE request # extentAuto
    <3>1. request \in 200..8192
      BY <2>1 DEF ValidExtent
    <3>2. given = request
      BY <2>1
    <3> HIDE DEF given
    <3> QED
      BY <3>1, <3>2
  <2>2. CASE request = extentAuto /\ full
    <3>1. given = known
      BY <2>2
    <3> QED
      BY <1>1, <3>1
  <2>3. CASE request = extentAuto /\ ~full
    <3>1. given = share
      BY <2>3
    <3> QED
      BY <1>2, <3>1
  <2> QED
    BY <2>1, <2>2, <2>3
<1>4. resolveExtent(request, screen, full, default, lo, hi) = Even(given)
  BY DEF resolveExtent
<1> HIDE DEF given
<1> QED
  BY <1>3, <1>4, EvenInRange

\* A larger desktop scale gets no smaller device scale.
LEMMA DeviceScaleMonotone ==
  ASSUME NEW r \in Int, NEW s \in Int, 100 <= r, r <= s
  PROVE  deviceScaleForDesktopScale(r) <= deviceScaleForDesktopScale(s)
<1> DEFINE u == deviceScaleForDesktopScale(r)
           v == deviceScaleForDesktopScale(s)
<1>1. u \in deviceScaleBuckets /\ u <= r
  BY DeviceScaleFits
<1>2. \A b \in deviceScaleBuckets : b <= s => b <= v
  BY DeviceScaleFits
<1>3. u \in Int /\ u <= s
  BY <1>1 DEF deviceScaleBuckets
<1> QED
  BY <1>1, <1>2, <1>3

\* Whatever is configured, the factors are ones the control accepts.
LEMMA FactorsAreAccepted ==
  ASSUME NEW d \in Int, NEW scale \in Int, ValidScale(scale),
         NEW device \in Int, ValidDevice(device)
  PROVE  LET f == scaleFactors(scale, device, d) IN
         /\ f.desktop \in 100..500
         /\ f.device \in deviceScaleBuckets
         /\ device = scaleAuto =>
              /\ f.device <= f.desktop
              /\ \A v \in deviceScaleBuckets : v <= f.desktop => v <= f.device
<1> DEFINE f == scaleFactors(scale, device, d)
           given == IF scale = scaleAuto THEN desktopScaleForDPI(d) ELSE scale
<1>1. given \in 100..500
  <2>1. CASE scale = scaleAuto
    <3>1. desktopScaleForDPI(d) \in 100..500
      BY DesktopScaleInRange
    <3> QED
      BY <2>1, <3>1
  <2>2. CASE scale # scaleAuto
    BY <2>2 DEF ValidScale
  <2> QED
    BY <2>1, <2>2
<1>2. /\ f.desktop = given
      /\ f.device = IF device = scaleAuto
                    THEN deviceScaleForDesktopScale(given) ELSE device
  BY DEF scaleFactors
<1> HIDE DEF given, f
<1>3. given \in Int /\ given >= 100
  BY <1>1
<1>4. CASE device = scaleAuto
  BY <1>1, <1>2, <1>3, <1>4, DeviceScaleFits DEF f
<1>5. CASE device # scaleAuto
  BY <1>1, <1>2, <1>5
     DEF ValidDevice, f
<1> QED
  BY <1>4, <1>5
=============================================================================
