------------------------------- MODULE StepWizard -------------------------------
(***************************************************************************)
(* The wizard of jquery.smartWizard-2.0.js: steps shown one at a time, by  *)
(* buttons, by arrow keys and by their anchors, at once or with a fade     *)
(* (a slide is alike), from the page or with contents a server is asked    *)
(* for.  Steps are numbered from 0.                                        *)
(*                                                                         *)
(* An element has a queue of effects.  A fade that would change nothing is *)
(* over at once, and calls back.                                           *)
(***************************************************************************)
EXTENDS Integers, Sequences, FiniteSets, SequencesExt

CONSTANTS
  LastStep,           \* the steps are 0 .. LastStep
  MaxWizardSteps      \* bound: clicks and keys

VARIABLE wiz
wizardVars == <<wiz>>

WizardSteps == 0 .. LastStep

(* One queued effect: the pane comes in, or goes for another.              *)
ComesIn == [out |-> FALSE, from |-> 0, to |-> 0]
GoesFor(from, to) == [out |-> TRUE, from |-> from, to |-> to]

-----------------------------------------------------------------------------
AdjustButton(s) ==
  [s EXCEPT !.prevOff = s.cur <= 0, !.nextOff = s.cur >= LastStep, !.finishOff = s.disabled # {}]

SetupStep(s, from, to) ==
  AdjustButton([s EXCEPT !.cur = to, !.done = (@ \cup {from}) \ {to}, !.disabled = @ \ {to},
                         !.selected = (@ \ {from}) \cup {to}, !.isDone = @ \cup {to}])

RECURSIVE BeginEffect(_, _)
Queue(s, p, fx) ==
  LET d == [s EXCEPT !.queue[p] = Append(@, fx)]
  IN IF s.queue[p] = <<>> THEN BeginEffect(d, p) ELSE d
Called(s, fx) == IF fx.out THEN SetupStep(Queue(s, fx.to, ComesIn), fx.from, fx.to) ELSE s
Dequeue(s, p) == BeginEffect([s EXCEPT !.queue[p] = Tail(@)], p)

(* The first effect of a queue starts.                                     *)
BeginEffect(s, p) ==
  LET fx == Head(s.queue[p])
  IN IF s.queue[p] = <<>> THEN s
     ELSE IF fx.out # (p \in s.visible) THEN Dequeue(Called(s, fx), p)
     ELSE [s EXCEPT !.visible = @ \cup {p}]

ShowStep(s, i) ==
  IF s.effect = "fade" THEN Queue(s, s.cur, GoesFor(s.cur, i))
  ELSE SetupStep([s EXCEPT !.visible = (@ \ {s.cur}) \cup {i}], s.cur, i)

LoadContent(s, i) ==
  IF s.url /\ i \notin s.hasContent THEN [s EXCEPT !.asked = Append(@, i), !.loader = TRUE]
  ELSE ShowStep(s, i)

WizardInit ==
  \E effect \in {"fade", "none"}, url \in BOOLEAN :
  wiz = LoadContent(
    [cur |-> 0, visible |-> {}, selected |-> {}, done |-> {}, disabled |-> WizardSteps,
     isDone |-> {}, hasContent |-> {}, asked |-> <<>>, loader |-> FALSE,
     queue |-> [p \in WizardSteps |-> <<>>],
     prevOff |-> FALSE, nextOff |-> FALSE, finishOff |-> FALSE, sent |-> FALSE,
     effect |-> effect, url |-> url, steps |-> 0,
     wanted |-> 0, crossed |-> FALSE], 0)                \* history: see WizardTruthful

-----------------------------------------------------------------------------
Leaving(s) == \E p \in WizardSteps : \E j \in DOMAIN s.queue[p] : s.queue[p][j].out
WizardQuiet(s) == s.asked = <<>> /\ \A p \in WizardSteps : s.queue[p] = <<>>

Turns(s) == ~wiz.sent /\ wiz.steps < MaxWizardSteps /\ wiz' = [s EXCEPT !.steps = @ + 1]
WantsStep(i) ==
  Turns([LoadContent(wiz, i) EXCEPT !.wanted = i,
                                    !.crossed = @ \/ wiz.asked # <<>> \/ Leaving(wiz)])

(* A button "Next" that looks disabled still listens.                      *)
Forward == wiz.cur < LastStep /\ WantsStep(wiz.cur + 1)
Backward == wiz.cur > 0 /\ WantsStep(wiz.cur - 1)
ClicksStep(i) == i # wiz.cur /\ i \in wiz.isDone /\ WantsStep(i)
ClicksFinish == ~wiz.finishOff /\ Turns([wiz EXCEPT !.sent = TRUE])

EffectEnds(p) ==
  LET fx == Head(wiz.queue[p])
  IN /\ wiz.queue[p] # <<>> /\ ~wiz.sent
     /\ wiz' = Dequeue(Called([wiz EXCEPT !.visible = IF fx.out THEN @ \ {p} ELSE @], fx), p)

ContentComes(j) ==
  LET i == wiz.asked[j]
      d == [wiz EXCEPT !.asked = RemoveAt(@, j), !.loader = FALSE]
  IN ~wiz.sent /\ wiz' = ShowStep([d EXCEPT !.hasContent = @ \cup {i}], i)

(* An error, or an empty answer.                                           *)
NoContent(j) ==
  /\ ~wiz.sent
  /\ wiz' = [wiz EXCEPT !.asked = RemoveAt(@, j), !.loader = FALSE,
                        !.wanted = IF wiz.asked[j] = @ THEN wiz.cur ELSE @]

WizardNext ==
  \/ Forward \/ Backward \/ ClicksFinish
  \/ \E i \in WizardSteps : ClicksStep(i) \/ EffectEnds(i)
  \/ \E j \in DOMAIN wiz.asked : ContentComes(j) \/ NoContent(j)

-----------------------------------------------------------------------------
(* When every effect is over and every answer has come, the step shown is  *)
(* the one asked for last, it alone is marked, and the buttons fit it;     *)
(* unless a move was asked for while another was under way.  Even then the *)
(* current step is among those shown.  A form is sent only when every step *)
(* has been shown, unless none has: the button is enabled until the        *)
(* contents of the first one come.                                         *)
WizardTruthful ==
  LET s == wiz
  IN /\ s.sent /\ s.isDone # {} => s.isDone = WizardSteps
     /\ s.isDone \cap s.disabled = {}
     /\ s.crossed \/ (s.loader <=> s.asked # <<>>)
     /\ WizardQuiet(s) /\ s.isDone # {} =>
          /\ s.cur \in s.visible \cap s.selected
          /\ s.prevOff <=> s.cur = 0
          /\ s.nextOff <=> s.cur = LastStep
          /\ s.finishOff <=> s.isDone # WizardSteps
          /\ s.crossed \/ (s.visible = {s.cur} /\ s.selected = {s.cur} /\ s.cur = s.wanted)
=============================================================================
