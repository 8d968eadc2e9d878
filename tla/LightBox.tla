-------------------------------- MODULE LightBox --------------------------------
(***************************************************************************)
(* The box over the page of jquery.colorbox.js, with the groups, the loop  *)
(* and the slide show that script.js asks for: pictures and pages loaded   *)
(* from a server, the box moved to their size, and the timers.             *)
(*                                                                         *)
(* An answer is put into the box whatever was asked for since; a picture   *)
(* that arrives shows the picture asked for last, loaded or not.           *)
(***************************************************************************)
EXTENDS Integers, Sequences, FiniteSets, SequencesExt

CONSTANTS
  Group, Solo,        \* links: a sequence of one rel, and one of its own
  PhotoSets,          \* which of them are pictures
  MaxBoxClicks        \* bound: what user and scripts do

ASSUME LinksAssumption == Group \in Seq(Range(Group)) /\ "none" \notin Range(Group) \cup {Solo}

VARIABLE lb
lightVars == <<lb>>

Links == Range(Group) \cup {Solo}
EmptyBox == [of |-> "none", fine |-> FALSE, visible |-> FALSE]

LightInit ==
  \E photos \in PhotoSets :
  lb = [photos |-> photos, open |-> FALSE, closing |-> FALSE, active |-> FALSE, rel |-> <<Solo>>, index |-> 1,
        photo |-> "none", loads |-> <<>>, moves |-> 0, bound |-> FALSE,
        content |-> EmptyBox, label |-> 0,
        loading |-> FALSE, waiting |-> FALSE, lostWaits |-> 0,
        sliding |-> FALSE, stopped |-> FALSE, slideDue |-> FALSE, lostSlides |-> 0,
        steps |-> 0,
        crossed |-> FALSE, restarted |-> FALSE]              \* history: see LightTruthful

-----------------------------------------------------------------------------
Current(s) == s.rel[s.index]
GetIndex(s, by) == ((s.index - 1 + by + Len(s.rel)) % Len(s.rel)) + 1

(* A time-out of the slide show, and of the sign "loading"; the variable   *)
(* for one forgets a time-out that still runs.                             *)
SetSlide(s) == [s EXCEPT !.lostSlides = IF s.slideDue THEN @ + 1 ELSE @, !.slideDue = TRUE]
SetWaiting(s) == [s EXCEPT !.lostWaits = IF s.waiting THEN @ + 1 ELSE @, !.waiting = TRUE]

StartSlides(s) == [SetSlide(s) EXCEPT !.sliding = TRUE, !.stopped = FALSE]
StopSlides(s) == [s EXCEPT !.sliding = FALSE, !.stopped = TRUE, !.slideDue = FALSE]

(* load                                                                    *)
LoadLink(s) ==
  LET link == Current(s)
      d == [s EXCEPT !.active = TRUE, !.photo = IF link \in s.photos THEN link ELSE "none",
                     !.slideDue = @ /\ ~s.sliding, !.loads = Append(@, link)]
  IN SetWaiting(d)

(* launch                                                                  *)
Launch(s, link) ==
  LET rel == IF link = Solo THEN <<Solo>> ELSE Group
      d == [s EXCEPT !.rel = rel, !.index = SelectInSeq(rel, LAMBDA l : l = link),
                     !.crossed = @ \/ s.loads # <<>> \/ s.moves > 0]
      opened == [d EXCEPT !.open = TRUE, !.bound = TRUE]
  IN LoadLink(IF s.open THEN d ELSE IF link = Solo THEN opened ELSE StartSlides(opened))

GoOn(s, by) ==
  IF s.active \/ Len(s.rel) = 1 THEN s
  ELSE LoadLink([s EXCEPT !.index = GetIndex(s, by), !.crossed = @ \/ ~s.open])

(* prep: the box starts to move.                                           *)
Prepare(s, link, fine) ==
  IF ~s.open THEN s
  ELSE [s EXCEPT !.content = [of |-> link, fine |-> fine, visible |-> FALSE],
                 !.moves = @ + 1, !.bound = FALSE]

CloseBox(s) ==
  [(IF s.sliding THEN StopSlides(s) ELSE s)
     EXCEPT !.open = FALSE, !.closing = TRUE, !.bound = FALSE, !.moves = 0]

-----------------------------------------------------------------------------
LightStep(s) ==
  /\ lb.steps < MaxBoxClicks
  /\ lb' = [s EXCEPT !.steps = @ + 1]

LaunchesLink(l) == ~lb.closing /\ LightStep(Launch(lb, l))
TurnsTo(by) == lb.open /\ ~lb.active /\ Len(lb.rel) > 1 /\ LightStep(GoOn(lb, by))
ClosesBox == lb.open /\ ~lb.closing /\ LightStep(CloseBox(lb))
(* The button listens from the first group that was opened.                *)
ClicksSlideshow ==
  /\ lb.open /\ Len(lb.rel) > 1 /\ lb.label # 0 /\ (lb.sliding \/ lb.stopped)
  /\ LightStep(IF lb.sliding THEN StopSlides(lb)
               ELSE [StartSlides(GoOn(lb, 1)) EXCEPT !.restarted = TRUE])
(* position, bound to "resize": nothing moves, so it is over at once.      *)
ResizesWindow ==
  /\ lb.bound /\ lb.moves = 0
  /\ LightStep([lb EXCEPT !.active = FALSE, !.crossed = @ \/ lb.active])

LinkLoads(j) ==
  LET link == lb.loads[j]
      d == [lb EXCEPT !.loads = RemoveAt(@, j)]
  IN lb' = Prepare(d, IF link \in lb.photos THEN lb.photo ELSE link, TRUE)
LinkFails(j) == lb' = Prepare([lb EXCEPT !.loads = RemoveAt(@, j)], lb.loads[j], FALSE)

(* The box has its size: the content shows, and "complete" is told.        *)
BoxMoved ==
  LET d == [lb EXCEPT !.moves = @ - 1, !.active = FALSE, !.bound = TRUE, !.waiting = FALSE,
                      !.loading = FALSE, !.content.visible = TRUE, !.label = lb.index]
  IN /\ lb.moves > 0
     /\ lb' = IF lb.sliding THEN SetSlide(d) ELSE d

(* A fade of 300 ms: time-outs of 100 ms before it are over.               *)
BoxFaded ==
  /\ lb.closing /\ ((lb.waiting \/ lb.lostWaits > 0) => lb.crossed)
  /\ lb' = [lb EXCEPT !.closing = FALSE, !.content = EmptyBox, !.label = 0]

WaitIsUp ==
  /\ lb.waiting \/ lb.lostWaits > 0
  /\ \/ lb.waiting /\ lb' = [lb EXCEPT !.waiting = FALSE, !.loading = TRUE]
     \/ lb.lostWaits > 0 /\ lb' = [lb EXCEPT !.lostWaits = @ - 1, !.loading = TRUE]
SlideIsDue ==
  \/ lb.slideDue /\ lb' = GoOn([lb EXCEPT !.slideDue = FALSE, !.steps = @ + 1], 1)
  \/ lb.lostSlides > 0 /\ lb' = GoOn([lb EXCEPT !.lostSlides = @ - 1, !.steps = @ + 1], 1)

LightNext ==
  \/ \E l \in Links : LaunchesLink(l)
  \/ \E by \in {-1, 1} : TurnsTo(by)
  \/ ClosesBox \/ ClicksSlideshow \/ ResizesWindow
  \/ \E j \in DOMAIN lb.loads : LinkLoads(j) \/ LinkFails(j)
  \/ BoxMoved \/ BoxFaded \/ WaitIsUp \/ (lb.steps < MaxBoxClicks /\ SlideIsDue)

-----------------------------------------------------------------------------
(* When every answer has come and the box is at rest, it shows what was    *)
(* asked for last, under its number, without the sign "loading", or else   *)
(* an error; unless, while something was under way, the window was resized *)
(* or another link launched.  Even then a page with nothing but pictures   *)
(* shows the right one or an error.  A slide show always goes on, and one  *)
(* that is stopped or closed has no time-out left, unless it was started   *)
(* by its button: a second time-out then runs that nothing stops.          *)
LightTruthful ==
  LET s == lb
      resting == s.loads = <<>> /\ s.moves = 0 /\ ~s.closing
  IN /\ resting /\ s.open /\ ~s.crossed =>
          /\ s.content.of = Current(s) /\ s.content.visible /\ s.label = s.index
          /\ ~s.active /\ ~s.waiting /\ ~s.loading
     /\ resting /\ s.open /\ s.content.fine /\ Links \subseteq s.photos =>
          s.content.of = Current(s)
     /\ s.content.visible => s.open \/ s.closing
     /\ resting /\ s.open /\ s.sliding => s.slideDue \/ Len(s.rel) = 1
     /\ ~s.sliding => ~s.slideDue
     /\ s.restarted \/ s.crossed \/ s.lostSlides = 0
=============================================================================
