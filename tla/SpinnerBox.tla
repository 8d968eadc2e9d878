------------------------------- MODULE SpinnerBox -------------------------------
(***************************************************************************)
(* A number field with two small buttons, jquery.ui.spinner.js: clicks,    *)
(* holding a button while an interval counts, keys, the wheel, and the     *)
(* field put in order when it is left.  Whole numbers only.                *)
(*                                                                         *)
(* format.number replaces "$1$2" by itself as long as four digits stand in *)
(* a row: a number that long is never written, the page hangs.             *)
(***************************************************************************)
EXTENDS Integers, Sequences, FiniteSets, SequencesExt

CONSTANTS
  SpinStart, Stepping,    \* options
  SpinMin, SpinMax,
  TypedNumbers,       \* what may be typed, apart from what is no number
  TenAfter,           \* holding this long counts by ten: 100 in the code (and 200 by 100)
  MaxSpins            \* bound: events

ASSUME SpinLimits ==
  /\ SpinMin \in Int /\ SpinMax \in Int /\ SpinStart \in SpinMin .. SpinMax
  /\ Stepping \in Int /\ TenAfter \in Nat /\ TypedNumbers \subseteq Int

VARIABLE spin
spinVars == <<spin>>

Ways == {"up", "down"}
Whole(n) == [isNaN |-> FALSE, n |-> n]
NaN == [isNaN |-> TRUE, n |-> 0]

SpinInit ==
  \E limits \in BOOLEAN :
  spin = [value |-> Whole(SpinStart), limits |-> limits, hung |-> FALSE, disabled |-> FALSE,
          counter |-> 0, timer |-> "none", pressed |-> {}, wheel |-> FALSE, key |-> FALSE,
          held |-> "none", over |-> "none",          \* the mouse: down on, and over, a button
          told |-> Whole(SpinStart), steps |-> 0,       \* the value of the last "change"
          typed |-> FALSE, trimmed |-> FALSE, stuck |-> FALSE]       \* history: see SpinTruthful

-----------------------------------------------------------------------------
SetNumber(s, n) ==
  IF s.hung \/ n >= 1000 \/ n <= -1000 THEN [s EXCEPT !.hung = TRUE]
  ELSE [s EXCEPT !.value = Whole(n)]
Constrain(s) ==
  IF ~s.limits \/ s.value.isNaN THEN s
  ELSE IF s.value.n < SpinMin THEN SetNumber(s, SpinMin)
  ELSE IF s.value.n > SpinMax THEN SetNumber(s, SpinMax)
  ELSE s
Tidy(s) == IF s.value.isNaN THEN SetNumber(s, SpinStart) ELSE SetNumber(s, s.value.n)
CleanUp(s) ==
  LET d == Constrain(Tidy(s))
  IN [d EXCEPT !.typed = FALSE, !.trimmed = @ \/ d.value # s.value]

Spin(s, way) ==
  LET d == IF s.value.isNaN THEN SetNumber(s, SpinStart) ELSE s
      by == Stepping * (IF s.counter > TenAfter THEN 10 ELSE 1)
      e == Constrain(SetNumber(d, d.value.n + (IF way = "up" THEN by ELSE -by)))
  IN IF s.disabled \/ s.hung THEN s
     ELSE [e EXCEPT !.counter = IF @ = 0 THEN 0 ELSE @ + 1, !.typed = FALSE]

Propagates(s) == IF s.hung THEN s ELSE [s EXCEPT !.told = s.value, !.trimmed = FALSE]
Counting(s) == [s EXCEPT !.counter = IF @ = 0 THEN 1 ELSE @]
StopsMouse(s) == Propagates([s EXCEPT !.counter = 0, !.timer = "none"])

-----------------------------------------------------------------------------
SpinStep(s) ==
  /\ ~spin.hung /\ spin.steps < MaxSpins
  /\ spin' = [s EXCEPT !.steps = @ + 1]

(* A disabled button hears nothing of the mouse.                           *)
Hears(s, way) == s.over = way /\ ~s.disabled

PointsAt(way) ==
  /\ spin.over = "none"
  /\ SpinStep([spin EXCEPT !.over = way])
PressesButton(way) ==
  /\ Hears(spin, way) /\ spin.held = "none"
  /\ SpinStep([Counting(spin) EXCEPT !.held = way, !.timer = way, !.pressed = @ \cup {way}])
ReleasesButton(way) ==
  LET d == [spin EXCEPT !.held = "none", !.pressed = @ \ {way}]
  IN /\ spin.over = way /\ spin.held = way
     /\ SpinStep(IF spin.disabled THEN [spin EXCEPT !.held = "none"]
                 ELSE StopsMouse(IF d.counter = 1 THEN Spin(d, way) ELSE d))
(* The browser tells a double click after the second release.              *)
DoubleClicks(way) ==
  Hears(spin, way) /\ spin.held = "none" /\ SpinStep(StopsMouse(Spin(spin, way)))
PointsAway ==
  LET d == [spin EXCEPT !.over = "none", !.held = "none"]
  IN /\ spin.over # "none"
     /\ SpinStep(IF spin.disabled THEN d
                 ELSE LET e == [d EXCEPT !.pressed = @ \ {spin.over}]
                      IN IF d.timer # "none" THEN StopsMouse(e) ELSE e)
IntervalTicks == spin.timer # "none" /\ ~spin.hung /\ SpinStep(Spin(spin, spin.timer))

(* Keys in the field; one held down repeats.                               *)
PressesKey(s) == [Counting(s) EXCEPT !.key = TRUE]
PressesArrow(way) == ~spin.disabled /\ SpinStep(Spin(PressesKey(spin), way))
PressesHome ==
  LET first == IF spin.limits /\ SpinMin # 0 THEN SpinMin ELSE SpinStart
  IN ~spin.disabled /\ SpinStep([SetNumber(PressesKey(spin), first) EXCEPT !.typed = FALSE])
PressesEnd ==
  /\ ~spin.disabled
  /\ SpinStep(IF ~spin.limits THEN PressesKey(spin)
              ELSE [SetNumber(PressesKey(spin), SpinMax) EXCEPT !.typed = FALSE])
TypesNumber(v) ==
  /\ ~spin.disabled /\ v # spin.value
  /\ SpinStep([PressesKey(spin) EXCEPT !.value = v, !.typed = TRUE])
ReleasesKey == spin.key /\ SpinStep(Propagates([spin EXCEPT !.counter = 0, !.key = FALSE]))
LeavesSpinner == SpinStep(CleanUp(spin))

TurnsWheel(way) == SpinStep([Spin(spin, way) EXCEPT !.wheel = TRUE])
WheelTimeIsUp == spin.wheel /\ ~spin.hung /\ spin' = [Propagates(spin) EXCEPT !.wheel = FALSE]

SwitchesOff ==
  ~spin.disabled /\ SpinStep([spin EXCEPT !.disabled = TRUE, !.stuck = @ \/ spin.timer # "none"])
SwitchesOn == spin.disabled /\ SpinStep([spin EXCEPT !.disabled = FALSE])

SpinNext ==
  \/ \E way \in Ways : \/ PointsAt(way) \/ PressesButton(way) \/ ReleasesButton(way) \/ DoubleClicks(way)
                       \/ PressesArrow(way) \/ TurnsWheel(way)
  \/ PointsAway \/ IntervalTicks \/ PressesHome \/ PressesEnd \/ ReleasesKey \/ LeavesSpinner
  \/ \E v \in {NaN} \cup {Whole(n) : n \in TypedNumbers} : TypesNumber(v)
  \/ WheelTimeIsUp \/ SwitchesOff \/ SwitchesOn

-----------------------------------------------------------------------------
(* A field holds a number within its limits, unless one was typed and the  *)
(* field not left.  It counts by itself only while a button is held, and   *)
(* whoever listens to "change" knows the value once keys, buttons and      *)
(* wheel are at rest, unless leaving the field has put it in order         *)
(* untold; a spinner disabled while a button is held keeps counting when   *)
(* it is enabled again.                                                    *)
SpinTruthful ==
  LET s == spin
  IN s.hung \/
     /\ s.typed \/ (~s.value.isNaN /\ (s.limits => s.value.n \in SpinMin .. SpinMax))
     /\ s.stuck \/ (s.timer # "none" => s.held = s.timer)
     /\ s.stuck \/ s.trimmed \/ s.key \/ s.timer # "none" \/ s.wheel \/ s.told = s.value
     /\ s.stuck \/ s.pressed \subseteq {s.held}
=============================================================================
