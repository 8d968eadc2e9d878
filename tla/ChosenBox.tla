------------------------------ MODULE ChosenBox ------------------------------
(***************************************************************************)
(* A select box dressed up by chosen.jquery.js as script.js asks for it,   *)
(* without options: its label or the chips of what is chosen, its list,    *)
(* the text that narrows it, focus, time-outs, and scripts that change the *)
(* select box underneath and say so (liszt:updated).  A text is a sequence *)
(* of letters, 0 a blank.  Case, headings and sizes are left out.          *)
(***************************************************************************)
EXTENDS Integers, Sequences, FiniteSets, SequencesExt

CONSTANTS
  Nodes,           \* of the select box: [group, disabled, options], where
                   \* an option outside a group is a node with one option
  Queries,         \* texts the user may type
  MaxBoxSteps      \* bound: events of the user and the script

DefaultText == <<-1>>

(* results_data: a heading per group and an entry per option.  Entries are  *)
(* known by their place, options by theirs (opt).                          *)
Parse ==
  LET AddOption(d, o) ==
        Append(d, [group |-> FALSE, text |-> o.text, disabled |-> o.disabled,
                   opt |-> 1 + Len(SelectSeq(d, LAMBDA e : ~e.group))])
      AddNode(d, n) ==
        FoldLeft(AddOption,
                 IF n.group THEN Append(d, [group |-> TRUE, text |-> <<>>, disabled |-> n.disabled, opt |-> 0]) ELSE d,
                 [i \in DOMAIN n.options |-> [n.options[i] EXCEPT !.disabled = @ \/ (n.group /\ n.disabled)]])
  IN FoldLeft(AddNode, <<>>, Nodes)

PlacesOf(data, Test(_)) == {i \in DOMAIN data : Test(data[i])}
WithText(e) == ~e.group /\ e.text # <<>>
Listed == PlacesOf(Parse, LAMBDA e : WithText(e) /\ ~e.disabled)      \* with a line in the list
Options == {e.opt : e \in {d \in Range(Parse) : ~d.group}}
EntriesOf(opts) == PlacesOf(Parse, LAMBDA e : WithText(e) /\ e.opt \in opts)

(* The text or one of its words begins with the query.                     *)
Fitting(text, query) ==
  \E k \in DOMAIN text : (k = 1 \/ text[k - 1] = 0) /\ IsPrefix(query, SubSeq(text, k, Len(text)))

LeastOf(S) == IF S = {} THEN 0 ELSE CHOOSE i \in S : \A j \in S : i <= j
GreatestOf(S) == IF S = {} THEN 0 ELSE CHOOSE i \in S : \A j \in S : j <= i

VARIABLE box
boxVars == <<box>>

-----------------------------------------------------------------------------
(* What the select box underneath has.                                     *)
Val(b) == b.chosen
Tell(b) == [b EXCEPT !.told = b.chosen]           \* the event "change"

ClearHighlight(b) == [b EXCEPT !.high = 0]
DoHighlight(b, i) == IF i = 0 THEN b ELSE [b EXCEPT !.high = i]

SearchFieldDefault(b) ==
  [b EXCEPT !.text = IF b.multiple /\ b.choices < 1 /\ ~b.active THEN DefaultText ELSE <<>>]

WinnowResultsSetHighlight(b) ==
  IF b.high # 0 THEN b
  ELSE DoHighlight(b, LeastOf({i \in b.lines : b.multiple \/ i \in b.marked \/ b.marked \cap b.lines = {}}))

Winnow(b, query, judged, fits) ==
  LET d == [b EXCEPT !.lines = (@ \ judged) \cup fits, !.stale = FALSE,
                     !.high = IF @ \in judged \ fits THEN 0 ELSE @]
  IN IF fits = {} /\ query # <<>> THEN d ELSE WinnowResultsSetHighlight(d)

QueryOf(b) == IF b.text = DefaultText THEN <<>> ELSE b.text
FitsAmong(S, query) == {i \in S : query = <<>> \/ Fitting(Parse[i].text, query)}

WinnowResults(b) ==
  LET judged == IF b.multiple THEN Listed \ b.taken ELSE Listed
  IN Winnow(b, QueryOf(b), judged, FitsAmong(judged, QueryOf(b)))

ResultsShow(b) ==
  WinnowResults([b EXCEPT !.showing = TRUE, !.focused = TRUE, !.hanging = @ \/ ~b.looks,
                          !.focusTimers = IF b.multiple /\ ~b.focused /\ ~b.active THEN @ + 1 ELSE @,
                          !.high = IF ~b.multiple /\ b.single # 0 THEN b.single ELSE @])
ResultsHide(b) == [b EXCEPT !.showing = FALSE, !.high = 0]
ResultsSearch(b) == IF b.showing THEN WinnowResults(b) ELSE ResultsShow(b)

WinnowClear(b) ==
  [b EXCEPT !.text = <<>>, !.stale = FALSE,
            !.lines = @ \cup (IF b.multiple THEN Listed \ b.marked ELSE Listed)]
ClearBackstroke(b) == [b EXCEPT !.back = 0, !.backGone = FALSE]

CloseField(b) ==
  SearchFieldDefault(ClearBackstroke(WinnowClear(ResultsHide(
    [b EXCEPT !.active = FALSE, !.listening = FALSE, !.looks = FALSE]))))

ActivateField(b) == [b EXCEPT !.looks = TRUE, !.active = TRUE, !.focused = TRUE]

-----------------------------------------------------------------------------
ChoiceBuild(b, i) == [b EXCEPT !.choices = @ + 1, !.chips = Append(@, i)]

ResultDeselect(b, i) ==
  Tell(WinnowResults(
    [b EXCEPT !.taken = @ \ {i}, !.chosen = @ \ {Parse[i].opt}, !.marked = @ \ {i},
              !.lines = IF i \in Listed THEN @ \cup {i} ELSE @, !.high = 0]))

(* The chip at a place of the row goes; place 0 is a chip gone already.    *)
ChoiceDestroy(b, i, place) ==
  LET d == SearchFieldDefault([b EXCEPT !.choices = @ - 1, !.ghost = @ \/ place = 0])
      e == IF d.choices > 0 /\ d.text = <<>> THEN ResultsHide(d) ELSE d
  IN [ResultDeselect(e, i) EXCEPT !.chips = IF place = 0 THEN @ ELSE RemoveAt(@, place)]

KeydownBackstroke(b) ==
  IF b.back = 0 THEN [b EXCEPT !.back = Last(b.chips), !.backGone = FALSE]
  ELSE ClearBackstroke(ChoiceDestroy(b, b.back, IF b.backGone THEN 0 ELSE SelectLastInSeq(b.chips, LAMBDA c : c = b.back)))

ResultSelect(b, i, meta) ==
  LET opt == Parse[i].opt
      d == IF b.multiple
           THEN ChoiceBuild([b EXCEPT !.lines = @ \ {i}, !.marked = @ \cup {i}, !.chosen = @ \cup {opt}], i)
           ELSE [b EXCEPT !.marked = {i}, !.single = i, !.chosen = {opt}, !.label = i]
      e == ClearHighlight([d EXCEPT !.taken = @ \cup {i}])
      f == [IF meta /\ b.multiple THEN [e EXCEPT !.stale = @ \/ b.text # <<>>] ELSE ResultsHide(e) EXCEPT !.text = <<>>]
      g == IF b.multiple \/ Val(f) # b.current THEN Tell(f) ELSE f
  IN [g EXCEPT !.current = Val(g)]

SelectHighlighted(b) == IF b.high = 0 THEN b ELSE ResultSelect(b, b.high, FALSE)

BuildEntries(b, has) ==
  LET wiped == IF b.multiple /\ b.choices > 0 THEN [b EXCEPT !.chips = <<>>, !.choices = 0, !.backGone = @ \/ b.back # 0] ELSE b
      d == [wiped EXCEPT !.taken = has, !.label = IF b.multiple THEN 0 ELSE GreatestOf(has)]
      e == IF b.multiple THEN FoldLeft(ChoiceBuild, d, SetToSortSeq(has, LAMBDA i, j : i < j)) ELSE d
      f == SearchFieldDefault(IF b.disabled THEN CloseField([e EXCEPT !.off = TRUE]) ELSE [e EXCEPT !.off = FALSE])
  IN [f EXCEPT !.marked = has \cap Listed, !.stale = FALSE,
               !.lines = IF b.multiple THEN Listed \ has ELSE Listed]

ResultsBuild(b) == BuildEntries(b, EntriesOf(b.chosen))

BoxBlank ==
  [multiple |-> FALSE, disabled |-> FALSE, chosen |-> {},       \* of the select box itself
   told |-> {}, current |-> {},                  \* value at the last "change"; current_value
   taken |-> {}, marked |-> {}, lines |-> {},    \* entries selected, their class, active-result
   label |-> 0, single |-> 0, high |-> 0, chips |-> <<>>, choices |-> 0,
   text |-> <<>>, showing |-> FALSE, active |-> FALSE, looks |-> FALSE, off |-> FALSE,
   mouse |-> FALSE, focused |-> FALSE, listening |-> FALSE,
   destroy |-> FALSE, back |-> 0, backGone |-> FALSE,
   focusTimers |-> 0, blurTimers |-> 0, steps |-> 0,
   scripted |-> FALSE, ghost |-> FALSE,          \* history: a script set it; a chip went twice,
   stale |-> FALSE, hanging |-> FALSE]           \* the text went but not its matches;
                                                 \* a list came without looks, or was left under the mouse

BoxInit ==
  \E multiple \in BOOLEAN, opts \in SUBSET Options :
    /\ ~multiple => Cardinality(opts) = 1
    /\ box = LET b == ResultsBuild([BoxBlank EXCEPT !.multiple = multiple, !.chosen = opts])
             IN [b EXCEPT !.told = opts, !.current = opts]

-----------------------------------------------------------------------------
ContainerMousedown(b, onLabel, onClose) ==
  IF b.off THEN b
  ELSE IF b.destroy \/ onClose THEN [b EXCEPT !.destroy = FALSE]
  ELSE ActivateField(
    IF ~b.active
    THEN [ResultsShow([b EXCEPT !.text = IF b.multiple THEN <<>> ELSE @]) EXCEPT !.listening = TRUE]
    ELSE IF ~b.multiple /\ onLabel THEN IF b.showing THEN ResultsHide(b) ELSE ResultsShow(b)
    ELSE b)

(* The document hears of a click: in the field, or elsewhere, as is the    *)
(* cross of a chip that has just been removed.                             *)
TestActiveClick(b, inside) ==
  IF ~b.listening THEN b ELSE IF inside THEN [b EXCEPT !.active = TRUE] ELSE CloseField(b)

ChoicesClick(b) == IF b.multiple /\ b.active /\ ~b.showing THEN ResultsShow(b) ELSE b

InputBlur(b) ==
  IF b.mouse THEN [b EXCEPT !.focused = FALSE, !.hanging = @ \/ b.looks \/ b.showing]
  ELSE [b EXCEPT !.focused = FALSE, !.active = FALSE, !.blurTimers = @ + 1]

BoxStep(b) ==
  /\ box.steps < MaxBoxSteps
  /\ box' = [b EXCEPT !.steps = box.steps + 1]

MouseMoves == box' = [box EXCEPT !.mouse = ~@]

ClicksBox ==
  box.mouse /\ BoxStep(TestActiveClick(ChoicesClick(ContainerMousedown(box, TRUE, FALSE)), TRUE))

ClicksResult(i, meta) ==
  /\ box.mouse /\ box.showing /\ i \in box.lines
  /\ BoxStep(TestActiveClick(ResultSelect(ContainerMousedown(box, FALSE, FALSE), i, meta), TRUE))

ClicksCross(place) ==
  LET b == ContainerMousedown(box, FALSE, TRUE)
      d == ChoiceDestroy([b EXCEPT !.destroy = TRUE,
                                   !.backGone = @ \/ box.chips[place] = b.back], box.chips[place], place)
  IN /\ box.mouse
     /\ BoxStep(IF box.off THEN b ELSE TestActiveClick(ChoicesClick(d), FALSE))

ClicksElsewhere ==
  /\ ~box.mouse
  /\ BoxStep(TestActiveClick(IF box.focused THEN InputBlur(box) ELSE box, FALSE))

Hovers(i) ==
  /\ box.mouse /\ box.showing /\ i \in box.lines
  /\ box' = [box EXCEPT !.high = i]
HoversOff == box.mouse /\ box.showing /\ box.high # 0 /\ box' = ClearHighlight(box)

(* Focus by the keyboard; a key comes later than the time-out.             *)
TabsIn ==
  /\ ~box.focused /\ ~box.off
  /\ BoxStep(IF ~box.multiple THEN ActivateField(box)
             ELSE [box EXCEPT !.focused = TRUE, !.focusTimers = IF box.active THEN @ ELSE @ + 1])

Key(Does(_)) ==
  /\ box.focused /\ ~box.off /\ box.focusTimers = 0 /\ box.text # DefaultText
  /\ BoxStep(Does(ClearBackstroke(box)))

TypesQuery(query) == Key(LAMBDA b : ResultsSearch([b EXCEPT !.text = query]))
PressesReturn == Key(LAMBDA b : IF b.showing THEN SelectHighlighted(b) ELSE b)
PressesEsc == Key(LAMBDA b : IF b.showing THEN ResultsHide(b) ELSE b)
TabsOut ==
  Key(LAMBDA b : InputBlur([IF b.showing /\ ~b.multiple THEN SelectHighlighted(b) ELSE b EXCEPT !.mouse = FALSE]))

PressesUp ==
  LET Up(b) ==
        LET before == {i \in b.lines : i < b.high}
        IN IF ~b.showing /\ ~b.multiple THEN ResultsShow(b)
           ELSE IF b.high = 0 THEN b
           ELSE IF before # {} THEN DoHighlight(b, GreatestOf(before))
           ELSE ClearHighlight(IF b.choices > 0 THEN ResultsHide(b) ELSE b)
  IN Key(Up)

PressesDown ==
  LET Down(b) ==
        LET d == IF b.high = 0 THEN DoHighlight(b, LeastOf(b.lines))
                 ELSE IF b.showing THEN DoHighlight(b, LeastOf({i \in b.lines : i > b.high})) ELSE b
        IN IF b.showing THEN d ELSE ResultsShow(d)
  IN Key(Down)

PressesBackspace ==
  LET b == box
      d == [b EXCEPT !.text = IF @ = <<>> THEN @ ELSE Front(@)]
  IN /\ b.focused /\ ~b.off /\ b.focusTimers = 0 /\ b.text # DefaultText
     /\ BoxStep(IF b.multiple /\ b.text = <<>> /\ b.choices > 0 THEN KeydownBackstroke(d)
                ELSE IF b.back = 0 THEN ResultsSearch(ClearHighlight(d))
                ELSE d)

FocusTimeIsUp ==
  box.focusTimers > 0 /\ box' = ContainerMousedown([box EXCEPT !.focusTimers = @ - 1], FALSE, FALSE)
BlurTimeOver ==
  /\ box.blurTimers > 0
  /\ box' = LET b == [box EXCEPT !.blurTimers = @ - 1]
            IN IF ~b.active /\ b.looks THEN CloseField(b) ELSE b

(* A script sets the select box, or disables it, and says so.              *)
ScriptUpdates(opts, disabled) ==
  LET b == [box EXCEPT !.chosen = opts, !.told = opts, !.disabled = disabled,
                       !.focused = @ /\ ~disabled, !.scripted = TRUE, !.high = 0, !.single = 0]
  IN /\ ~box.multiple => Cardinality(opts) = 1
     /\ BoxStep(ResultsBuild(b))

BoxNext ==
  \/ MouseMoves \/ ClicksBox \/ ClicksElsewhere \/ HoversOff \/ TabsIn \/ TabsOut
  \/ \E i \in Listed : Hovers(i) \/ \E meta \in BOOLEAN : ClicksResult(i, meta)
  \/ \E place \in DOMAIN box.chips : ClicksCross(place)
  \/ \E query \in Queries : TypesQuery(query)
  \/ PressesReturn \/ PressesEsc \/ PressesUp \/ PressesDown \/ PressesBackspace
  \/ FocusTimeIsUp \/ BlurTimeOver
  \/ \E opts \in SUBSET Options, disabled \in BOOLEAN : ScriptUpdates(opts, disabled)

-----------------------------------------------------------------------------
(* The label, or the chips and their number, are what is selected in the   *)
(* select box; the list offers what matches and can be chosen, and its     *)
(* highlighted line is one of it; whoever listens to the select box has    *)
(* heard of its value; and a field that was left is closed.  Not so for    *)
(* chips removed twice, matches of a text that was cleared with the meta   *)
(* key held, a value that a script had set meanwhile, and a list opened    *)
(* after a chip was removed, or left with the mouse over it.               *)
ChosenTruthful ==
  LET b == box
      free == IF b.multiple THEN Listed \ EntriesOf(b.chosen) ELSE Listed
  IN /\ ~b.multiple => EntriesOf(b.chosen) = IF b.label = 0 THEN {} ELSE {b.label}
     /\ b.multiple /\ ~b.ghost =>
          /\ Range(b.chips) = EntriesOf(b.chosen) /\ b.choices = Len(b.chips)
          /\ b.choices = Cardinality(EntriesOf(b.chosen))
     /\ b.showing /\ ~b.stale => b.lines = FitsAmong(free, QueryOf(b))
     /\ b.showing => b.high \in b.lines \cup {0}
     /\ b.multiple \/ ~b.scripted => b.told = b.chosen
     /\ ~b.focused /\ b.focusTimers = 0 /\ b.blurTimers = 0 /\ ~b.hanging => ~b.showing /\ ~b.looks
=============================================================================
