------------------------------ MODULE Geometry ------------------------------
(***************************************************************************)
(* The arithmetic of the display: how a monitor's DPI becomes the pair of  *)
(* scale factors that travels with the display settings (dpi.go), and how  *)
(* an extent (a width or a height) becomes one the session may have        *)
(* (app.go, resolveSize).  Pure operators; Desktop, App and the proofs     *)
(* use them.  An operator whose comment starts with "Mutant" is the wrong  *)
(* version of the definition that follows it.                              *)
(***************************************************************************)
EXTENDS Integers

scaleAuto == 0          \* "follow the monitor", as a configured scale
extentAuto == 0         \* "no size was requested", as a configured extent
MinExtent == 200        \* below this, display settings are not sent

\* Mutant: the upper bound is not enforced.
clampBelow(v, lo, hi) == IF v < lo THEN lo ELSE v

\* Mutant: a value out of range becomes the default.
clampToLow(v, lo, hi) == IF v < lo \/ v > hi THEN lo ELSE v

clampInt(v, lo, hi) ==
  IF v < lo THEN lo ELSE IF v > hi THEN hi ELSE v

\* Mutant: odd sizes stay.
EvenNot(n) == n

\* The code's  n &^ 1 .
Even(n) == n - (n % 2)

deviceScaleBuckets == {100, 140, 180}

\* Mutant: the division truncates.
desktopScaleTruncated(dpi) ==
  clampInt(((IF dpi <= 0 THEN 96 ELSE dpi) * 100) \div 96, 100, 500)

\* 96 DPI is 100%; a DPI Windows could not tell counts as 96.
desktopScaleForDPI(dpi) ==
  LET known == IF dpi <= 0 THEN 96 ELSE dpi
  IN  clampInt((known * 100 + 48) \div 96, 100, 500)

\* Mutant: a bucket must stay below the desktop scale.
deviceScaleBelow(desktop) ==
  LET fits == {v \in deviceScaleBuckets : v < desktop \/ v = 100}
  IN  CHOOSE v \in fits : \A u \in fits : u <= v

\* The largest bucket that does not exceed the desktop scale, 100 if none.
deviceScaleForDesktopScale(desktop) ==
  LET fits == {v \in deviceScaleBuckets : v <= desktop \/ v = 100}
  IN  CHOOSE v \in fits : \A u \in fits : u <= v

(***************************************************************************)
(* The pair of factors for a session: the configured ones, or those of the *)
(* monitor the window is on.                                               *)
(***************************************************************************)
scaleFactors(scale, device, dpi) ==
  LET d == IF scale = scaleAuto THEN desktopScaleForDPI(dpi) ELSE scale
  IN  [desktop |-> d,
       device  |-> IF device = scaleAuto THEN deviceScaleForDesktopScale(d)
                                         ELSE device]

Unscaled == [desktop |-> 100, device |-> 100]

(***************************************************************************)
(* One extent of the session: the requested one, or the whole screen when  *)
(* it is to fill it, or four fifths of the screen kept between lo and hi.  *)
(***************************************************************************)
resolveExtent(requested, screen, fullScreen, default, lo, hi) ==
  LET known == IF screen <= 0 THEN default ELSE screen
      given == CASE requested # extentAuto -> requested
                 [] requested = extentAuto /\ fullScreen -> known
                 [] OTHER -> clampInt((known * 4) \div 5, lo, hi)
  IN  Even(given)

resolveWidth(requested, screen, fullScreen) ==
  resolveExtent(requested, screen, fullScreen, 1024, 800, 1920)

resolveHeight(requested, screen, fullScreen) ==
  resolveExtent(requested, screen, fullScreen, 768, 600, 1200)

\* What Config.Validate lets through as a configured scale, device scale, extent.
ValidScale(s)  == s = scaleAuto \/ s \in 100..500
ValidDevice(s) == s = scaleAuto \/ s \in deviceScaleBuckets
ValidExtent(n) == n = extentAuto \/ n \in 200..8192
=============================================================================
