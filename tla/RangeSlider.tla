------------------------------- MODULE RangeSlider -------------------------------
(***************************************************************************)
(* A slider with one or two pointers, jquery.slider.js with draggable-0.1. *)
(* A pointer stands at a percentage, kept in tenths; the value it means    *)
(* runs from "from" to "to", evenly or, with "heterogeneity", in segments, *)
(* and is rounded to a step.  Values are whole numbers, in units in which  *)
(* the step is one too.                                                    *)
(***************************************************************************)
EXTENDS Integers, Sequences, FiniteSets, SequencesExt

CONSTANTS
  Sliders,            \* [from, to, step, segs, starts, sets]: segs are <<tenths, value>>
  DragTenths,         \* where the mouse may be, beyond the ends too
  MaxSlides           \* bound: events

ASSUME SlidersFit == \A k \in Sliders : k.from < k.to /\ k.from % k.step = 0 /\ k.to % k.step = 0

VARIABLE slide
slideVars == <<slide>>

Ends == {0, 1}
NoPlace == 5000                   \* undefined
NoWish == -1

(* Math.round(a / b) for b > 0.                                            *)
Rounded(a, b) == (2 * a + b) \div (2 * b)
ToStep(k, a, b) == Rounded(a, b * k.step) * k.step

(* The segments with their beginnings: <<tenths, value, tenths, value>>.   *)
Segments(k) ==
  LET pts == <<<<0, k.from>>>> \o k.segs \o <<<<1000, k.to>>>>
  IN [i \in 1 .. Len(pts) - 1 |-> pts[i] \o pts[i + 1]]

PrcToValue(k, prc) ==
  LET in == SelectLastInSeq(Segments(k), LAMBDA g : prc >= g[1] /\ prc <= g[3])
      g == Segments(k)[in]
  IN IF k.segs = <<>> THEN ToStep(k, k.from * 1000 + prc * (k.to - k.from), 1000)
     ELSE ToStep(k, g[2] * (g[3] - g[1]) + (prc - g[1]) * (g[4] - g[2]), g[3] - g[1])

-----------------------------------------------------------------------------
(* limits: not past the other pointer, nor the ends.                       *)
KeepWithin(s, i, prc) ==
  LET other == s.prc[1 - i]
      x == IF s.single \/ other = NoPlace THEN prc
           ELSE IF (i = 1 /\ prc < other) \/ (i = 0 /\ prc > other) THEN other
           ELSE prc
  IN IF x < 0 THEN 0 ELSE IF x > 1000 THEN 1000 ELSE x

ValueToPrc(s, i, v) ==
  LET k == s.kind
      in == SelectLastInSeq(Segments(k), LAMBDA g : v >= g[2] /\ v <= g[4])
      g == Segments(k)[in]
  IN IF k.segs = <<>> THEN KeepWithin(s, i, Rounded((v - k.from) * 1000, k.to - k.from))
     ELSE IF in = 0 THEN NoPlace
     ELSE KeepWithin(s, i, Rounded(g[1] * (g[4] - g[2]) + (v - g[2]) * (g[3] - g[1]), g[4] - g[2]))

Pointers(s) == IF s.single THEN {0} ELSE Ends
ValueAt(s, i) == PrcToValue(s.kind, s.prc[i])
Values2(s) == [i \in {j \in Pointers(s) : s.prc[j] # NoPlace} |-> ValueAt(s, i)]

(* redraw: the field behind the slider.                                    *)
Redraw(s) == IF s.ready THEN [s EXCEPT !.input = Values2(s)] ELSE s

SetPrc(s, i, prc) ==
  Redraw([s EXCEPT !.prc[i] = prc,
                   !.label[i] = IF prc = NoPlace THEN NoPlace ELSE PrcToValue(s.kind, prc)])
SetValue(s, i, v) == SetPrc(s, i, ValueToPrc(s, i, v))

(* create: the first pointer, then the second, never before the first.     *)
SlideInit ==
  \E k \in Sliders : \E start \in k.starts :
    LET Within(v) == IF v < k.from THEN k.from ELSE IF v > k.to THEN k.to ELSE v
        second == Within(IF start[2] < start[1] THEN start[1] ELSE start[2])
        empty == [kind |-> k, single |-> Len(start) = 1, ready |-> FALSE,
                  prc |-> [i \in Ends |-> NoPlace], label |-> [i \in Ends |-> NoPlace],
                  input |-> <<>>, held |-> {}, steps |-> 0,
                  forced |-> FALSE, wish |-> [i \in Ends |-> NoWish]]  \* history: see SlideTruthful
        one == [SetValue(empty, 0, Within(start[1])) EXCEPT !.label[0] = ToStep(k, Within(start[1]), 1)]
        two == [SetValue(one, 1, second) EXCEPT !.label[1] = ToStep(k, second, 1)]
    IN slide = Redraw([(IF Len(start) = 1 THEN one ELSE two) EXCEPT !.ready = TRUE])

-----------------------------------------------------------------------------
SlideStep(s) ==
  /\ slide.steps < MaxSlides
  /\ slide' = [s EXCEPT !.steps = @ + 1]
Unwished(s) == [s EXCEPT !.wish = [i \in Ends |-> NoWish]]

Grabs(i) ==
  i \in Pointers(slide) \ slide.held /\ SlideStep([slide EXCEPT !.held = @ \cup {i}])

(* Every pointer that is held follows the mouse.                           *)
DragsTo(x) ==
  /\ slide.held # {}
  /\ SlideStep(FoldLeft(LAMBDA s, i : SetPrc(s, i, KeepWithin(s, i, x)),
                        Unwished(slide), SetToSeq(slide.held)))

LetsGo == slide.held # {} /\ SlideStep([slide EXCEPT !.held = {}])

(* What a script may wish for: a value that the other pointer, where it    *)
(* stands then, leaves room for.                                           *)
WishFor(s, i, v) ==
  LET other == ValueAt(s, 1 - i)
      free == s.single \/ s.prc[1 - i] = NoPlace
                \/ (IF i = 0 THEN s.kind.step + v <= other ELSE v >= other + s.kind.step)
  IN IF v \in s.kind.from .. s.kind.to /\ free /\ ~s.forced THEN ToStep(s.kind, v, 1) ELSE NoWish
Wishes(s, i, v) == [SetValue(s, i, v) EXCEPT !.wish[i] = WishFor(s, i, v)]

(* slider("value", v) and slider("value", v, w).                           *)
SetsValue(v) == SlideStep(Wishes(Unwished(slide), 0, v))
SetsValues(v, w) ==
  LET d == Wishes(Unwished(slide), 0, v)
  IN SlideStep(IF slide.single THEN d ELSE Wishes(d, 1, w))

(* slider("prc", p): no limit applies.                                     *)
SetsPrc(x) == SlideStep([SetPrc(Unwished(slide), 0, x) EXCEPT !.forced = TRUE])

SlideNext ==
  \/ \E i \in Ends : Grabs(i)
  \/ \E x \in DragTenths : DragsTo(x) \/ (x \in 0 .. 1000 /\ SetsPrc(x))
  \/ LetsGo
  \/ \E v \in slide.kind.sets : SetsValue(v) \/ \E w \in slide.kind.sets : SetsValues(v, w)

-----------------------------------------------------------------------------
(* The field and the labels say what the pointers mean.  The values lie    *)
(* within the range, the first not above the second, and a value that a    *)
(* script sets and that fits is read back, rounded to the step; unless a   *)
(* script has set a percentage, which may pass the other pointer.  A value *)
(* beyond the range of a slider with segments takes its pointer away.      *)
SlideTruthful ==
  LET s == slide
      k == s.kind
      there == {i \in Pointers(s) : s.prc[i] # NoPlace}
  IN /\ s.input = Values2(s)
     /\ \A i \in there : s.label[i] = ValueAt(s, i) /\ ValueAt(s, i) \in k.from .. k.to
     /\ ~s.forced =>
          /\ there = Ends => s.prc[0] <= s.prc[1] /\ ValueAt(s, 0) <= ValueAt(s, 1)
          /\ k.segs = <<>> => there = Pointers(s)
          /\ \A i \in Pointers(s) : s.wish[i] # NoWish => i \in there /\ ValueAt(s, i) = s.wish[i]
=============================================================================
