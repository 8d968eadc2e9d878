------------------------------- MODULE MCStage -------------------------------
(***************************************************************************)
(* The parts of the stage application that share no state: what the server *)
(* keeps for everyone (configuration, marked modules, sessions with their  *)
(* menus, materials with the log, attachments), and what the scripts of    *)
(* the pages keep in a browser (the window for projects, the date fields,  *)
(* the checks of the forms, the uploads, the styled controls, and the      *)
(* widgets of the libraries they load).  A behaviour is about one of them, *)
(* chosen at the start, so that one run checks them all.                   *)
(***************************************************************************)
EXTENDS SysConfigCache, ModuleMarks, StageSessions, Catalogue, Attachments,
        UserProjects, DateRange, FormChecks, Uploads, StyledControls,
        DataTable, EventCalendar,
        BootstrapWidgets, ChosenBox, FormValidator, HashTable, StepWizard, FileDrop,
        SwitchButton, SpinnerBox, RangeSlider,
        PromptedForm, LightBox, BlockedElements

VARIABLE focus

CONSTANTS A, B, a1, a11, b1, x1, x2, f1, f2, f3, s1, k1, c1, c2, u1, n1,
  v1, v2, v3, v4, v5

MCBrowserOf == [t \in Tabs |-> IF t = 3 THEN 3 ELSE 1]
MCParent == [i \in {a1, a11, b1} |-> IF i = a1 THEN A ELSE IF i = a11 THEN a1 ELSE B]
MCLiesIn == [x \in {x1, x2} |-> IF x = x1 THEN {A, a1, a11} ELSE {B, b1}]
MCStored == {NothingPicked, [NothingPicked EXCEPT !.areas = {Area(a11, {a1, A})}],
             [NothingPicked EXCEPT !.projects = {x1}], [NothingPicked EXCEPT !.areas = {Area(A, {})}]}
MCToday == Day(2018, 6, 5)
MCTyped == {Day(2018, 0, 31), Day(2018, 1, 31), Day(2018, 6, 6)}
MCEndsIn == [f \in Files |-> IF f = f3 THEN "part" ELSE IF f = f2 THEN "unlisted" ELSE "listed"]
MCSize == [f \in Files |-> IF f = f3 THEN "big" ELSE "fits"]
MCKindOf == [c \in Controls |-> IF c = s1 THEN "select" ELSE IF c = k1 THEN "checkbox"
                                ELSE IF c = u1 THEN "file" ELSE "radio"]

ServerParts == {"config", "marks", "sessions", "catalogue", "attachments"}
PageParts == {"projects", "range", "checks", "uploads", "controls"}
BigWidgets == {"grid", "calendar", "chosen", "validator", "hash", "prompts", "blocks"}
SmallWidgets ==
  {"modal", "tip", "tabs", "folds", "field", "wizard", "drops", "switches",
   "spinner", "slider", "light"}
Parts1 == ServerParts \cup PageParts \cup BigWidgets \cup SmallWidgets

MCSuggestions == <<<<1, 2>>, <<-2, 1>>, <<2>>>>
MCTypings == {<<>>, <<2>>, <<-2>>, <<3>>}

Option(t) == [text |-> t, disabled |-> FALSE]
MCNodes == <<[group |-> FALSE, disabled |-> FALSE, options |-> <<Option(<<>>)>>],
             [group |-> TRUE, disabled |-> FALSE,
              options |-> <<Option(<<1, 0, 2>>), Option(<<2>>)>>]>>
MCQueries == {<<2>>, <<3>>}

MCFields == <<"pwd", "confirm", "login">>
MCRules == [pwd |-> <<"required", "minlength">>,
            confirm |-> <<"required", "minlength", "equalTo">>,
            login |-> <<"remote">>]
MCPasses == [minlength |-> {"good", "other"}]

MCClassOf == [k \in HashKeys |-> IF k = "b2" THEN "b" ELSE k]
MCHashOf == [k \in HashKeys |-> CASE k = "p" -> "proto" [] k = "c" -> "g" [] OTHER -> "h"]

MCDrops == {<<"g">>, <<"g", "h">>, <<"t", "h">>, <<"l", "g">>, <<"g", "h", "t">>, <<>>}

MCSwitches == <<"k", "r1", "r2", "r3">>
MCDragPlaces == {-100, 0, 60}

(* Those of script.js, some values in smaller units.                       *)
MCSliders ==
  {[from |-> 50, to |-> 500, step |-> 25, segs |-> <<>>,
    starts |-> {<<50, 75>>, <<600, 110>>}, sets |-> {40, 110, 300, 700}],
   [from |-> 5000, to |-> 150000, step |-> 1000, segs |-> <<<<500, 50000>>>>,
    starts |-> {<<30000, 60000>>, <<7000>>}, sets |-> {4000, 5000, 50000, 77000}],
   [from |-> 1, to |-> 30, step |-> 1, segs |-> <<<<500, 5>>, <<750, 15>>>>,
    starts |-> {<<1, 4>>}, sets |-> {3, 8, 16, 31}],
   [from |-> 480, to |-> 1020, step |-> 15, segs |-> <<>>,
    starts |-> {<<600, 720>>}, sets |-> {480, 601, 900, 2000}]}
MCDragTenths == {-70, 0, 333, 500, 751, 1200}

Rule(kind, arg) == [kind |-> kind, arg |-> arg]
MCForms ==
  {[fields |-> <<"name", "pass">>, boxes |-> {}, entries |-> {<<0>>, <<1>>, <<1, 2>>},
    rules |-> [name |-> <<Rule("required", ""), Rule("ajax", "says")>>,
               pass |-> <<Rule("required", ""), Rule("minSize", 2)>>]],
   [fields |-> <<"pass", "again">>, boxes |-> {}, entries |-> {<<>>, <<1>>, <<1, 2>>},
    rules |-> [again |-> <<Rule("equals", "pass")>>, pass |-> <<Rule("maxSize", 1)>>]],
   [fields |-> <<"alias", "why">>, boxes |-> {}, entries |-> {<<>>, <<1>>, <<1, 2>>},
    rules |-> [alias |-> <<Rule("ajax", "quiet")>>, why |-> <<Rule("condRequired", "alias")>>]],
   [fields |-> <<"tel", "cell">>, boxes |-> {}, entries |-> {<<>>, <<1>>, <<1, 2>>},
    rules |-> [tel |-> <<Rule("groupRequired", "g"), Rule("minSize", 2)>>,
               cell |-> <<Rule("minSize", 2), Rule("groupRequired", "g")>>]],
   [fields |-> <<"from", "to">>, boxes |-> {}, entries |-> {<<>>, <<1>>, <<2>>, <<-1>>},
    rules |-> [from |-> <<Rule("dateRange", "d")>>,
               to |-> <<Rule("dateRange", "d"), Rule("future", "from")>>]],
   [fields |-> <<"box">>, boxes |-> {"box"}, entries |-> {<<>>, <<1>>, <<1, 2>>},
    rules |-> [box |-> <<Rule("minCheckbox", 1), Rule("maxCheckbox", 1)>>]]}
MCVacant == {<<1>>}

MCGroup == <<"g1", "g2">>

MCFirstRows == <<{1}, {1, 2}, {2}, {2}, {1, 2}, {1}>>
MCNewRows == {{2}}
MCSearchTexts == {<<>>, <<1>>, <<1, 2>>, <<2>>}

MCId == [e \in CalEvents |-> IF e = v2 THEN v1 ELSE e]
MCSource == [e \in CalEvents |-> IF e \in {v1, v2, v3} THEN "array"
                                 ELSE IF e = v4 THEN "server" ELSE "none"]
MCHome == [e \in CalEvents |->
  CASE e = v1 -> [start |-> 1, end |-> 3, allDay |-> FALSE]
    [] e = v2 -> [start |-> 7, end |-> NoTime, allDay |-> FALSE]
    [] e = v3 -> [start |-> 0, end |-> 2, allDay |-> TRUE]
    [] e = v4 -> [start |-> 3, end |-> 10, allDay |-> TRUE]
    [] e = v5 -> [start |-> 2, end |-> 4, allDay |-> FALSE]]

OneValue == CHOOSE v \in Values : TRUE
Unchanging == [i \in Items |-> OneValue]

(* Values are interchangeable, and so are users: one item may as well have *)
(* that value at the start, and the first who logs in or whose pages change*)
(* may as well be that user.                                               *)
OneItem == CHOOSE i \in Items : TRUE
OneUser == CHOOSE u \in Users : TRUE
FirstIsOneUser ==
  logins + changes = 0 =>
    \A u \in Users \ {OneUser} : grants'[u] = grants[u] /\ \A t \in Tabs : who'[t] # u

(* The state of a library no behaviour of this one loads.                  *)
Idle == 0

StageInit ==
  /\ focus \in Parts1
  /\ ConfigInit /\ table[OneItem] = OneValue /\ (focus # "config" => table = Unchanging)
  /\ MarksInit
  /\ SessionInit /\ (focus # "sessions" => \A u, v \in Users : grants[u] = grants[v])
  /\ CatalogueInit
  /\ AttachmentInit
  /\ (focus # "attachments" => \A k, l \in {"image", "video"} : limitOf[k] = limitOf[l])
  /\ (focus # "attachments" => limitOf["image"] = FixedLimit)
  /\ ProjectInit /\ (focus # "projects" => \A u \in Editors : stored[u] = NothingPicked)
  /\ RangeInit /\ (focus # "range" => \A f \in Fields2 : textOf[f] = NoDate)
  /\ ChecksInit /\ (focus # "checks" => form = "own")
  /\ UploadsInit /\ (focus # "uploads" => window = "new" /\ ~oldIE)
  /\ ControlsInit
  /\ IF focus = "grid" THEN TableInit ELSE grid = Idle
  /\ IF focus = "calendar" THEN CalInit ELSE cal = Idle
  /\ IF focus = "modal" THEN ModalInit ELSE modal = Idle
  /\ IF focus = "tip" THEN TipInit ELSE tip = Idle
  /\ IF focus = "tabs" THEN TabInit ELSE tabs = Idle
  /\ IF focus = "folds" THEN FoldInit ELSE folds = Idle
  /\ IF focus = "field" THEN FieldInit ELSE field = Idle
  /\ IF focus = "chosen" THEN BoxInit ELSE box = Idle
  /\ IF focus = "validator" THEN VInit ELSE vform = Idle
  /\ IF focus = "hash" THEN HashInit ELSE tables = Idle
  /\ IF focus = "wizard" THEN WizardInit ELSE wiz = Idle
  /\ IF focus = "drops" THEN DropInit ELSE dropped = Idle
  /\ IF focus = "switches" THEN SwitchInit ELSE sw = Idle
  /\ IF focus = "spinner" THEN SpinInit ELSE spin = Idle
  /\ IF focus = "slider" THEN SlideInit ELSE slide = Idle
  /\ IF focus = "prompts" THEN EngineInit ELSE eng = Idle
  /\ IF focus = "light" THEN LightInit ELSE lb = Idle
  /\ IF focus = "blocks" THEN BlockInit ELSE blk = Idle

Still(part, vs) == focus # part => UNCHANGED vs

serverVars == <<configVars, markVars, sessionVars, catalogueVars, attachmentVars>>
pageVars == <<projectVars, rangeVars, checkVars, uploadVars, controlVars>>
bigVars == <<gridVars, calVars, boxVars, vformVars, tableVars, engineVars, blockVars>>
smallVars == <<modalVars, tipVars, paneVars, foldVars, fieldVars, wizardVars,
               dropVars, switchVars, spinVars, slideVars, lightVars>>

(* The parts whose turn it is not stay as they are.                        *)
Aside ==
  /\ UNCHANGED focus
  /\ IF focus \notin ServerParts THEN UNCHANGED serverVars
     ELSE /\ Still("config", configVars) /\ Still("marks", markVars)
          /\ Still("sessions", sessionVars) /\ Still("catalogue", catalogueVars)
          /\ Still("attachments", attachmentVars)
  /\ IF focus \notin PageParts THEN UNCHANGED pageVars
     ELSE /\ Still("projects", projectVars) /\ Still("range", rangeVars)
          /\ Still("checks", checkVars) /\ Still("uploads", uploadVars)
          /\ Still("controls", controlVars)
  /\ IF focus \notin BigWidgets THEN UNCHANGED bigVars
     ELSE /\ Still("grid", gridVars) /\ Still("calendar", calVars)
          /\ Still("chosen", boxVars) /\ Still("validator", vformVars)
          /\ Still("hash", tableVars) /\ Still("prompts", engineVars)
          /\ Still("blocks", blockVars)
  /\ IF focus \notin SmallWidgets THEN UNCHANGED smallVars
     ELSE /\ Still("modal", modalVars) /\ Still("tip", tipVars)
          /\ Still("tabs", paneVars) /\ Still("folds", foldVars)
          /\ Still("field", fieldVars) /\ Still("wizard", wizardVars)
          /\ Still("drops", dropVars) /\ Still("switches", switchVars)
          /\ Still("spinner", spinVars) /\ Still("slider", slideVars)
          /\ Still("light", lightVars)

StageNext ==
  \/ focus = "config" /\ ConfigNext /\ Aside
  \/ focus = "marks" /\ MarksNext /\ Aside
  \/ focus = "sessions" /\ SessionNext /\ FirstIsOneUser /\ Aside
  \/ focus = "catalogue" /\ CatalogueNext /\ Aside
  \/ focus = "attachments" /\ AttachmentNext /\ Aside
  \/ focus = "projects" /\ ProjectNext /\ Aside
  \/ focus = "range" /\ RangeNext /\ Aside
  \/ focus = "checks" /\ ChecksNext /\ Aside
  \/ focus = "uploads" /\ UploadsNext /\ Aside
  \/ focus = "controls" /\ ControlsNext /\ Aside
  \/ focus = "grid" /\ TableNext /\ Aside
  \/ focus = "calendar" /\ CalNext /\ Aside
  \/ focus = "modal" /\ ModalNext /\ Aside
  \/ focus = "tip" /\ TipNext /\ Aside
  \/ focus = "tabs" /\ TabNext /\ Aside
  \/ focus = "folds" /\ FoldNext /\ Aside
  \/ focus = "field" /\ FieldNext /\ Aside
  \/ focus = "chosen" /\ BoxNext /\ Aside
  \/ focus = "validator" /\ VNext /\ Aside
  \/ focus = "hash" /\ HashNext /\ Aside
  \/ focus = "wizard" /\ WizardNext /\ Aside
  \/ focus = "drops" /\ DropNext /\ Aside
  \/ focus = "switches" /\ SwitchNext /\ Aside
  \/ focus = "spinner" /\ SpinNext /\ Aside
  \/ focus = "slider" /\ SlideNext /\ Aside
  \/ focus = "prompts" /\ EngineNext /\ Aside
  \/ focus = "light" /\ LightNext /\ Aside
  \/ focus = "blocks" /\ BlockNext /\ Aside

stageVars == <<serverVars, pageVars, bigVars, smallVars, focus>>

StageSpec == StageInit /\ [][StageNext]_stageVars
-----------------------------------------------------------------------------
(* A table of the libraries shows the rows that its search, order, page    *)
(* and details ask for (DataTable).                                        *)
GridTruthful == focus = "grid" => TableTruthful

(* A calendar shows the events of the sources that answered, each once and *)
(* where it belongs (EventCalendar).                                       *)
EventsTruthful == focus = "calendar" => CalendarTruthful

(* What the widgets show is what was asked for last, once every fade,      *)
(* time-out and answer under way has come: modal windows, hints, tabs,     *)
(* accordions, fields that suggest, select boxes dressed up, forms that    *)
(* are validated, hash tables, wizards, dropped files, switches, spinners, *)
(* sliders, prompts, boxes of pictures and blocked elements.               *)
WidgetsTruthful ==
  /\ focus = "modal" => ModalTruthful
  /\ focus = "tip" => TipTruthful
  /\ focus = "tabs" => TabTruthful
  /\ focus = "folds" => FoldTruthful
  /\ focus = "field" => FieldTruthful
  /\ focus = "chosen" => ChosenTruthful
  /\ focus = "validator" => ValidatorTruthful
  /\ focus = "hash" => HashTruthful
  /\ focus = "wizard" => WizardTruthful
  /\ focus = "drops" => DropTruthful
  /\ focus = "switches" => SwitchTruthful
  /\ focus = "spinner" => SpinTruthful
  /\ focus = "slider" => SlideTruthful
  /\ focus = "prompts" => EngineTruthful
  /\ focus = "light" => LightTruthful
  /\ focus = "blocks" => BlocksTruthful
=============================================================================
