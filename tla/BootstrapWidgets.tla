-------------------------- MODULE BootstrapWidgets --------------------------
(***************************************************************************)
(* The widgets of bootstrap.js the pages of the stage application use:     *)
(* modal windows, hints, tabs, accordions, and text fields that suggest.   *)
(* Each has a variable, an initial predicate and a next-state relation of  *)
(* its own.                                                                *)
(***************************************************************************)
EXTENDS Integers, Sequences, FiniteSets, SequencesExt

-----------------------------------------------------------------------------
(* Modal windows of bootstrap.js that fade in and out.  script.js hides    *)
(* every one of them at the start; after that they are shown and hidden by *)
(* clicks, keys and scripts while earlier fades are still under way.       *)
(*                                                                         *)
(* A fade is over when the browser says so; it says so to whoever is       *)
(* registered with the element by then, and says nothing when the element  *)
(* has meanwhile been taken away.                                          *)
CONSTANTS
  Windows,          \* the modal windows of a page
  MaxModalSteps     \* bound: calls, clicks and keys

VARIABLE modal
modalVars == <<modal>>

Closed ==
  [isShown |-> FALSE, display |-> FALSE, in |-> FALSE,
   moving |-> 0,          \* the step since when it fades, or 0
   ends |-> <<>>,         \* who waits for its end
   timers |-> {},         \* time-outs of hideWithTransition
   backdrop |-> 0,        \* $backdrop: which of those of the page
   hasty |-> FALSE]       \* history: shown again before it was gone

ModalInit ==
  \E fade \in BOOLEAN :
    modal = [fade |-> fade, wins |-> [w \in Windows |-> Closed], drops |-> <<>>,
             bodyOpen |-> FALSE, keys |-> {}, steps |-> 0,
             both |-> FALSE]     \* history: two were open at a time

-----------------------------------------------------------------------------
(* The shade behind a window.                                              *)
ShowElement(m, w) ==
  LET win == m.wins[w]
  IN [m EXCEPT !.wins[w] =
        [win EXCEPT !.display = TRUE, !.in = TRUE, !.moving = IF m.fade /\ ~win.in THEN m.steps ELSE @,
                    !.ends = IF m.fade THEN Append(@, [does |-> "shown", timer |-> 0]) ELSE @]]

RemoveBackdrop(m, w) ==
  LET b == m.wins[w].backdrop
  IN IF b = 0 THEN m
     ELSE [m EXCEPT !.drops[b] = [@ EXCEPT !.here = FALSE, !.moving = 0, !.ends = <<>>],
                    !.wins[w].backdrop = 0]

(* With a window that is shown: a new shade, and the callback after it.    *)
Backdrop(m, w, callback) ==
  LET win == m.wins[w]
      drop == [of |-> w, here |-> TRUE, moving |-> IF m.fade THEN m.steps ELSE 0,
               ends |-> IF m.fade /\ callback # "none" THEN <<callback>> ELSE <<>>]
      b == Len(m.drops) + 1
  IN IF win.isShown
     THEN LET d == [m EXCEPT !.drops = Append(@, drop), !.wins[w].backdrop = b]
          IN IF m.fade THEN d ELSE ShowElement(d, w)
     ELSE IF win.backdrop = 0 THEN m
     ELSE IF m.fade
     THEN [m EXCEPT !.drops[win.backdrop] = [@ EXCEPT !.moving = m.steps, !.ends = Append(@, "remove")]]
     ELSE RemoveBackdrop(m, w)

HideModal(m, w) ==
  Backdrop([m EXCEPT !.wins[w].display = FALSE, !.wins[w].moving = 0], w, "none")

-----------------------------------------------------------------------------
Underway(m, w) ==
  \/ m.wins[w].moving # 0 \/ m.wins[w].timers # {}
  \/ \E b \in DOMAIN m.drops : m.drops[b].of = w /\ m.drops[b].moving # 0

ShowWindow(m, w) ==
  IF m.wins[w].isShown THEN m
  ELSE Backdrop([m EXCEPT !.bodyOpen = TRUE, !.keys = @ \cup {w},
                          !.both = @ \/ \E v \in Windows \ {w} : m.wins[v].isShown \/ Underway(m, v),
                          !.wins[w].isShown = TRUE, !.wins[w].hasty = @ \/ Underway(m, w)],
                w, "show")

(* Mutant of HideWithTransition: away at once.                             *)
HideAtOnce(m, w) == HideModal(m, w)

HideWithTransition(m, w) ==
  [m EXCEPT !.wins[w].timers = @ \cup {m.steps},
            !.wins[w].ends = Append(@, [does |-> "hideModal", timer |-> m.steps])]

(* The key handlers of all windows have one name: off takes all of them.   *)
HideWindow(m, w) ==
  LET win == m.wins[w]
      d == [m EXCEPT !.bodyOpen = FALSE, !.keys = {},
                     !.wins[w] = [win EXCEPT !.isShown = FALSE, !.in = FALSE,
                                             !.moving = IF m.fade /\ win.display /\ win.in THEN m.steps ELSE @]]
  IN IF ~win.isShown THEN m
     ELSE IF m.fade THEN HideWithTransition(d, w) ELSE HideModal(d, w)

-----------------------------------------------------------------------------
ModalStep(Call(_)) ==
  /\ modal.steps < MaxModalSteps
  /\ modal' = Call([modal EXCEPT !.steps = @ + 1])

(* By a script, or by a click on a link (toggle), in the window, on the    *)
(* shade behind it.                                                        *)
Shows(w) == ModalStep(LAMBDA m : ShowWindow(m, w))
Hides(w) == ModalStep(LAMBDA m : HideWindow(m, w))
ClicksShade ==
  \E b \in DOMAIN modal.drops :
    modal.drops[b].here /\ ModalStep(LAMBDA m : HideWindow(m, m.drops[b].of))
PressesEscape ==
  modal.keys # {} /\ ModalStep(LAMBDA m : FoldLeft(HideWindow, m, SetToSeq(m.keys)))

ElementFaded(w) ==
  LET win == modal.wins[w]
      d == [modal EXCEPT !.wins[w].moving = 0, !.wins[w].ends = <<>>]
      Answer(m, end) ==
        IF end.does = "shown" THEN m
        ELSE HideModal([m EXCEPT !.wins[w].timers = @ \ {end.timer}], w)
  IN win.moving # 0 /\ modal' = FoldLeft(Answer, d, win.ends)

BackdropFaded(b) ==
  LET drop == modal.drops[b]
      d == [modal EXCEPT !.drops[b].moving = 0, !.drops[b].ends = <<>>]
      Answer(m, end) == IF end = "show" THEN ShowElement(m, drop.of) ELSE RemoveBackdrop(m, drop.of)
  IN drop.moving # 0 /\ modal' = FoldLeft(Answer, d, drop.ends)

(* A fade takes less time than the time-out.                               *)
TimeIsUp(w) ==
  \E t \in modal.wins[w].timers :
    /\ modal.wins[w].moving \notin 1 .. t
    /\ \A b \in DOMAIN modal.drops : modal.drops[b].of = w => modal.drops[b].moving \notin 1 .. t
    /\ modal' = HideModal([modal EXCEPT !.wins[w].timers = @ \ {t}, !.wins[w].ends = <<>>], w)

ModalNext ==
  \/ \E w \in Windows : Shows(w) \/ Hides(w) \/ ElementFaded(w) \/ TimeIsUp(w)
  \/ ClicksShade \/ PressesEscape
  \/ \E b \in DOMAIN modal.drops : BackdropFaded(b)

-----------------------------------------------------------------------------
(* When all fades are over, a window is on the screen with one shade       *)
(* behind it, or is gone with its shade, as the last call asked, even when *)
(* it was hidden while it was coming; and the page scrolls and the escape  *)
(* key works accordingly.  Not so for a window shown again while it was    *)
(* going, nor, for page and key, when two were open at a time.             *)
ModalTruthful ==
  LET Shades(w) == {b \in DOMAIN modal.drops : modal.drops[b].of = w /\ modal.drops[b].here}
  IN (\A w \in Windows : ~Underway(modal, w)) =>
       /\ \A w \in Windows :
            LET win == modal.wins[w]
            IN ~win.hasty =>
                 /\ win.display = win.isShown
                 /\ win.isShown => win.in
                 /\ Shades(w) = IF win.isShown THEN {win.backdrop} ELSE {}
       /\ ~modal.both =>
            /\ modal.bodyOpen = \E w \in Windows : modal.wins[w].isShown
            /\ modal.keys = {w \in Windows : modal.wins[w].isShown}

-----------------------------------------------------------------------------
(* A tooltip or popover of bootstrap.js, which script.js gives to hints:   *)
(* it fades in when the mouse enters and out when it leaves, and is taken  *)
(* from the page when its fade is over or, at the latest, by a time-out.   *)
CONSTANT MaxTipSteps     \* bound: moves of the mouse and calls

VARIABLE tip
tipVars == <<tip>>

TipInit ==
  \E fade \in BOOLEAN :
    tip = [fade |-> fade,        \* options.animation, and the browser can
           over |-> FALSE, enabled |-> TRUE,
           here |-> FALSE, in |-> FALSE,      \* in the page, and drawn
           ever |-> FALSE,       \* has its class "fade"
           moving |-> 0,         \* the step since when it fades, or 0
           ends |-> {}, timers |-> {},        \* who takes it away after a fade
           steps |-> 0,
           again |-> FALSE]      \* history: shown again while a time-out ran

-----------------------------------------------------------------------------
(* Removing it from the page to put it there again drops the handlers of   *)
(* its events, not the time-outs.                                          *)
ShowTip(t) ==
  IF ~t.enabled THEN t
  ELSE [t EXCEPT !.here = TRUE, !.in = TRUE, !.ever = t.fade, !.ends = {},
                 !.moving = IF t.fade THEN t.steps ELSE 0,
                 !.again = @ \/ t.timers # {}]

RemoveTip(t) == [t EXCEPT !.here = FALSE, !.moving = 0, !.ends = {}]

RemoveWithAnimation(t) ==
  [t EXCEPT !.timers = @ \cup {t.steps}, !.ends = @ \cup {t.steps}]

HideTip(t) ==
  LET d == [t EXCEPT !.in = FALSE,
                     !.moving = IF t.ever /\ t.here /\ t.in THEN t.steps ELSE @]
  IN IF t.ever THEN RemoveWithAnimation(d) ELSE RemoveTip(d)

-----------------------------------------------------------------------------
TipStep(Call(_)) ==
  /\ tip.steps < MaxTipSteps
  /\ tip' = Call([tip EXCEPT !.steps = @ + 1])

MouseEnters == ~tip.over /\ TipStep(LAMBDA t : ShowTip([t EXCEPT !.over = TRUE]))
MouseLeaves == tip.over /\ TipStep(LAMBDA t : HideTip([t EXCEPT !.over = FALSE]))
TogglesEnabled == TipStep(LAMBDA t : [t EXCEPT !.enabled = ~@])
TogglesTip == TipStep(LAMBDA t : IF t.in THEN HideTip(t) ELSE ShowTip(t))

TipFaded ==
  /\ tip.moving # 0
  /\ tip' = IF tip.ends = {} THEN [tip EXCEPT !.moving = 0]
            ELSE RemoveTip([tip EXCEPT !.timers = @ \ tip.ends])

(* A fade takes less time than the time-out.                               *)
TipTimeIsUp ==
  \E t \in tip.timers :
    /\ tip.moving \notin 1 .. t
    /\ tip' = RemoveTip([tip EXCEPT !.timers = @ \ {t}])

TipNext ==
  MouseEnters \/ MouseLeaves \/ TogglesEnabled \/ TogglesTip \/ TipFaded \/ TipTimeIsUp

-----------------------------------------------------------------------------
(* A tip that is drawn is in the page, and one that is not is gone when    *)
(* its fade is over.  Not so once it was shown while a time-out ran, which *)
(* takes it away again.                                                    *)
TipTruthful ==
  /\ ~tip.again => (tip.in => tip.here)
  /\ tip.here => tip.in \/ tip.timers # {}
  /\ tip.moving = 0 /\ tip.timers = {} /\ ~tip.again => tip.here = tip.in

-----------------------------------------------------------------------------
(* Tabs of bootstrap.js and the panes they show, which fade: the tab       *)
(* clicked is the current one at once, its pane when the fade of the pane  *)
(* before is over.                                                         *)
CONSTANTS
  Panes,          \* the tabs and their panes
  FirstPane,
  MaxTabSteps     \* bound: clicks

ASSUME FirstPane \in Panes

VARIABLE tabs
paneVars == <<tabs>>

TabInit ==
  \E fade \in BOOLEAN :
    tabs = [fade |-> fade, current |-> FirstPane,       \* the tab
            active |-> {FirstPane}, in |-> {FirstPane}, \* the panes displayed, and drawn
            moving |-> {},                              \* those that fade
            waits |-> [p \in Panes |-> <<>>],           \* panes to display at the end of a fade
            steps |-> 0,
            hasty |-> FALSE]       \* history: a click while another waited

-----------------------------------------------------------------------------
(* next: the panes that were active when the click came give way.          *)
GiveWay(t, wait) ==
  LET d == [t EXCEPT !.active = (@ \ wait.actives) \cup {wait.pane}, !.moving = @ \ (wait.actives \ {wait.pane})]
  IN IF t.fade THEN [d EXCEPT !.in = @ \cup {wait.pane},
                              !.moving = IF wait.pane \in t.in THEN @ ELSE @ \cup {wait.pane}]
     ELSE d

Activate(t, pane) ==
  LET wait == [pane |-> pane, actives |-> t.active]
      d == IF ~t.fade THEN GiveWay(t, wait)
           ELSE [t EXCEPT !.waits = [p \in Panes |-> IF p \in t.active THEN Append(@[p], wait) ELSE @[p]],
                          !.moving = @ \cup (t.active \cap t.in)]
  IN [d EXCEPT !.in = @ \ t.active]

ClicksTab(tab) ==
  /\ tabs.steps < MaxTabSteps
  /\ tab # tabs.current
  /\ tabs' = [Activate(tabs, tab)
                EXCEPT !.current = tab, !.steps = @ + 1,
                       !.hasty = @ \/ \E p \in Panes : tabs.waits[p] # <<>>]

(* The end of the fade of a pane.  When it goes, its own fade goes too.    *)
PaneFaded(p) ==
  LET d == [tabs EXCEPT !.moving = @ \ {p}, !.waits[p] = <<>>]
  IN p \in tabs.moving /\ tabs' = FoldLeft(GiveWay, d, tabs.waits[p])

TabNext == \E p \in Panes : ClicksTab(p) \/ PaneFaded(p)

-----------------------------------------------------------------------------
(* When no pane fades, the pane of the current tab is displayed, and no    *)
(* other one.  A click before the pane of the last click was there leaves  *)
(* both panes displayed.                                                   *)
TabTruthful ==
  tabs.moving = {} /\ ~tabs.hasty =>
    /\ tabs.active = {tabs.current}
    /\ tabs.fade => tabs.in = {tabs.current}
    /\ \A p \in Panes : tabs.waits[p] = <<>>

-----------------------------------------------------------------------------
(* The panels of an accordion, opened and closed by bootstrap.js: opening  *)
(* one closes the other, and while the size of a panel changes it does     *)
(* nothing else.  What changes is known to an object of the panel, made    *)
(* at the first click on it, and unmade when a panel without one is closed *)
(* by another.                                                             *)
CONSTANTS
  Folds,           \* the panels
  OpenFirst,       \* those open when the page comes
  MaxFoldSteps     \* bound: clicks

ASSUME OpenFirst \subseteq Folds /\ Cardinality(OpenFirst) <= 1

VARIABLE folds
foldVars == <<folds>>

NoObject == 0

FoldInit ==
  \E slowly \in BOOLEAN :
    folds = [slowly |-> slowly,                        \* sizes change in time
             in |-> OpenFirst, moving |-> {},
             data |-> [p \in Folds |-> NoObject],
             busy |-> {},                              \* objects that are transitioning
             made |-> 0,
             ends |-> [p \in Folds |-> <<>>],          \* objects told of the end
             steps |-> 0]

-----------------------------------------------------------------------------
Transition(f, p, o, in) ==
  IF f.slowly THEN [f EXCEPT !.in = in, !.moving = @ \cup {p}, !.busy = @ \cup {o},
                             !.ends[p] = Append(@, o)]
  ELSE [f EXCEPT !.in = in]

HidePanel(f, p, o) == IF o \in f.busy THEN f ELSE Transition(f, p, o, f.in \ {p})

Made(f, p) == [f EXCEPT !.made = @ + 1, !.data[p] = f.made + 1]

(* collapse('hide') on the open panels: an object made for the purpose     *)
(* toggles its panel at once, then hides it.                               *)
HideOther(f, p) ==
  IF f.data[p] # NoObject THEN HidePanel(f, p, f.data[p])
  ELSE LET d == Made(f, p)
           o == d.data[p]
       IN [HidePanel(HidePanel(d, p, o), p, o) EXCEPT !.data[p] = NoObject]

ShowPanel(f, p, o) ==
  LET actives == f.in
      waits == \E q \in actives : f.data[q] # NoObject /\ f.data[q] \in f.busy
      d == FoldLeft(HideOther, f, SetToSeq(actives))
  IN IF o \in f.busy \/ waits THEN f ELSE Transition(d, p, o, d.in \cup {p})

TogglePanel(f, p, o) == IF p \in f.in THEN HidePanel(f, p, o) ELSE ShowPanel(f, p, o)

ClicksPanel(p) ==
  LET f == [folds EXCEPT !.steps = @ + 1]
      d == IF f.data[p] = NoObject THEN Made(f, p) ELSE f
  IN folds.steps < MaxFoldSteps /\ folds' = TogglePanel(d, p, d.data[p])

PanelMoved(p) ==
  /\ p \in folds.moving
  /\ folds' = [folds EXCEPT !.moving = @ \ {p}, !.busy = @ \ Range(folds.ends[p]), !.ends[p] = <<>>]

FoldNext == \E p \in Folds : ClicksPanel(p) \/ PanelMoved(p)

-----------------------------------------------------------------------------
(* No two panels are open; no panel is left waiting for an end that has    *)
(* been; and the object of a panel that moves knows, unless the panel was  *)
(* closed before it had one.                                               *)
FoldTruthful ==
  /\ Cardinality(folds.in) <= 1
  /\ folds.moving = {} => folds.busy = {}
  /\ \A p \in folds.moving : p \in folds.in => folds.data[p] \in folds.busy

-----------------------------------------------------------------------------
(* A text field that suggests (bootstrap-typeahead.js): a menu of what     *)
(* matches the text, from a list, from a function that answers later, or   *)
(* from a function that replaces the list.  A small letter is a positive   *)
(* number, the capital its negative.                                       *)
CONSTANTS
  Suggestions,      \* sequence of the texts that may be suggested
  Typings,          \* texts the user may type
  MinLength, MaxShown,
  MaxTypeSteps      \* bound: keys, clicks, moves

VARIABLE field
fieldVars == <<field>>

FieldInit ==
  \E source \in {"list", "function", "update"} :
    field = [source |-> source, text |-> <<>>, query |-> <<>>,
             list |-> IF source = "list" THEN Suggestions ELSE <<>>,
             menu |-> <<>>, active |-> 0, shown |-> FALSE,
             asks |-> 0, timers |-> 0, steps |-> 0,
             typing |-> FALSE,       \* the user is in the field
             late |-> FALSE]         \* history: an answer came after that,
                                      \* or after one was chosen

-----------------------------------------------------------------------------
Lower(s) == [i \in DOMAIN s |-> IF s[i] < 0 THEN -s[i] ELSE s[i]]
BeginsWith(item, query) == IsPrefix(Lower(query), Lower(item))
HasPart(item, query) == \E i \in 1 .. Len(item) + 1 : IsPrefix(query, SubSeq(item, i, Len(item)))
Matcher(item, query) == HasPart(Lower(item), Lower(query))

Sorter(items, query) ==
  SelectSeq(items, LAMBDA item : BeginsWith(item, query))
  \o SelectSeq(items, LAMBDA item : ~BeginsWith(item, query) /\ HasPart(item, query))
  \o SelectSeq(items, LAMBDA item : ~BeginsWith(item, query) /\ ~HasPart(item, query))

HideMenu(f) == [f EXCEPT !.shown = FALSE]

Process(f, source) ==
  LET items == Sorter(SelectSeq(source, LAMBDA item : Matcher(item, f.query)), f.query)
      most == IF Len(items) > MaxShown THEN MaxShown ELSE Len(items)
  IN IF items = <<>> THEN HideMenu(f)
     ELSE [f EXCEPT !.menu = SubSeq(items, 1, most), !.active = 1, !.shown = TRUE]

Lookup(f) ==
  LET d == [f EXCEPT !.query = f.text]
  IN IF d.query = <<>> \/ Len(d.query) < MinLength THEN HideMenu(d)
     ELSE IF d.source = "function" THEN [d EXCEPT !.asks = @ + 1]
     ELSE Process(d, d.list)

SelectItem(f) == HideMenu([f EXCEPT !.text = f.menu[f.active]])

-----------------------------------------------------------------------------
FieldStep(f) ==
  /\ field.steps < MaxTypeSteps
  /\ field' = [f EXCEPT !.steps = field.steps + 1]

TypesText(text) ==
  LET f == [field EXCEPT !.text = text, !.typing = TRUE]
  IN FieldStep(IF field.source = "update" THEN [f EXCEPT !.asks = @ + 1] ELSE Lookup(f))

PressesEnter == field.shown /\ FieldStep(SelectItem(field))
LeavesMenu == field.shown /\ FieldStep(HideMenu(field))             \* escape
MovesTo(i) == field.shown /\ FieldStep([field EXCEPT !.active = i])  \* the mouse
MovesBy(by) ==
  LET n == Len(field.menu)
  IN field.shown /\ FieldStep([field EXCEPT !.active = ((@ - 1 + by + n) % n) + 1])
LeavesField == field.typing /\ FieldStep([field EXCEPT !.typing = FALSE, !.timers = @ + 1])

BlurTimeIsUp ==
  field.timers > 0 /\ field' = HideMenu([field EXCEPT !.timers = @ - 1])

(* The function answers: with texts for whichever text it was asked.       *)
FieldAnswered ==
  /\ field.asks > 0
  /\ \E source \in {Suggestions, <<>>} :
       LET f == [field EXCEPT !.asks = @ - 1, !.late = @ \/ ~field.typing
                                                        \/ (field.query # field.text /\ field.source = "function")]
       IN field' = IF f.source = "function" THEN Process(f, source)
                   ELSE Lookup([f EXCEPT !.list = source])

FieldNext ==
  \/ \E text \in Typings : TypesText(text)
  \/ PressesEnter \/ LeavesMenu \/ LeavesField \/ BlurTimeIsUp \/ FieldAnswered
  \/ \E i \in DOMAIN field.menu : MovesTo(i)
  \/ \E by \in {-1, 1} : MovesBy(by)

-----------------------------------------------------------------------------
(* Once all have answered the menu shows matches of the query; one of them *)
(* is active, which is the text that entering takes over.  The query is    *)
(* the text, until another is asked for.  A field that was left keeps no   *)
(* menu, unless an answer comes after that or after a choice; and an       *)
(* answer to a text that was erased meanwhile suggests everything.         *)
FieldTruthful ==
  /\ field.shown =>
       /\ field.active \in DOMAIN field.menu
       /\ field.asks = 0 => \A i \in DOMAIN field.menu : Matcher(field.menu[i], field.query)
       /\ field.source # "function" => Len(field.query) >= MinLength
       /\ field.source # "update" => field.query = field.text \/ field.late
  /\ ~field.typing /\ field.timers = 0 /\ ~field.late => ~field.shown
=============================================================================
