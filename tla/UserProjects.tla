---------------------------- MODULE UserProjects ----------------------------
(***************************************************************************)
(* The window in which an administrator assigns projects to an editor:     *)
(* userManage.js from line 556, with the linked select boxes of common.js. *)
(*                                                                         *)
(* On the left the result of a query: boxes for the province, the city and *)
(* the county-level city of the search, and a box for each project found.  *)
(* On the right the preview, which is what a commit sends.  Every click    *)
(* rebuilds the right side from both; an area that is chosen ticks and     *)
(* locks the boxes of what lies in it, and drops what it makes redundant.  *)
(*                                                                         *)
(* An area remembers the areas it was displayed under (the attributes      *)
(* provinceId and cityId of its box, read from the select boxes when the   *)
(* answer comes), since the code goes by those and sends them.  The server *)
(* is outside: it answers with what is stored, or refuses, or not at all,  *)
(* and answers come in any order.  The fades and layers of the windows are *)
(* PageWindows' subject.                                                   *)
(***************************************************************************)
EXTENDS Naturals, Sequences, FiniteSets, SequencesExt

CONSTANTS
  Editors,              \* the users who can be given projects
  Provinces, Cities, Counties,
  Parent,               \* the area a city or county-level city lies in
  Projects,
  LiesIn,               \* the areas a project lies in
  Stored,               \* what may be stored for a user at the start
  NoArea,               \* "-1" of a select box, and no user
  MaxPicks,             \* bound: what the administrator does
  MaxCalls              \* bound: requests under way

ASSUME Geography ==
  /\ Provinces \cap Cities = {} /\ (Provinces \cup Cities) \cap Counties = {}
  /\ NoArea \notin Provinces \cup Cities \cup Counties \cup Editors
  /\ Parent \in [Cities \cup Counties -> Provinces \cup Cities]
  /\ \A c \in Cities : Parent[c] \in Provinces
  /\ \A k \in Counties : Parent[k] \in Cities
  /\ LiesIn \in [Projects -> SUBSET (Provinces \cup Cities \cup Counties)]

VARIABLES
  win,          \* the window in front: "list", "assign" or "result"
  editor,       \* user_project_change_id, and the name in the title
  pick,         \* the preview
  listed,       \* the projects found: whether ticked and whether locked
  boxes,        \* the boxes of the areas searched for, likewise
  search,       \* the values of the three select boxes
  options,      \* the cities and county-level cities they offer
  calls,        \* requests under way, oldest first
  sending,      \* the buttons are disabled for a commit
  stored,       \* what the server keeps for each user
  picks,        \* how much the administrator has done
  origin,       \* history: whose data filled each part of the preview
  mixed         \* history: what has crossed

projectVars == <<win, editor, pick, listed, boxes, search, options, calls,
                 sending, stored, picks, origin, mixed>>

Places3 == Provinces \cup Cities \cup Counties
LevelOf(id) == CASE id \in Provinces -> "provinces"
                 [] id \in Cities -> "cities"
                 [] OTHER -> "counties"
Parts == {"country", "provinces", "cities", "counties", "projects"}

-----------------------------------------------------------------------------
(* Areas and their boxes.                                                  *)

Area(id, up) == [id |-> id, up |-> up]

(* The areas above one, as they are.                                       *)
Above(id) == IF id \in Provinces THEN {}
             ELSE {Parent[id]} \cup (IF id \in Cities THEN {} ELSE {Parent[Parent[id]]})

Box(on, locked) == [on |-> on, locked |-> locked]
NoBoxes == [x \in {} |-> Box(FALSE, FALSE)]
IdsOf(areas) == {a.id : a \in areas}

NothingPicked == [country |-> FALSE, areas |-> {}, projects |-> {}, bare |-> {}]
NoSearch == [province |-> NoArea, city |-> NoArea, county |-> NoArea]
NoOptions == [cities |-> {}, counties |-> {}]

(* The part of the preview an area or a project is shown in.               *)
Holds(p, part) ==
  CASE part = "country" -> p.country
    [] part = "projects" -> p.projects # {}
    [] OTHER -> \E a \in p.areas : LevelOf(a.id) = part

(* An area is chosen beside one it lies in, or beside the whole country.   *)
Redundant(p) ==
  \/ p.country /\ p.areas # {}
  \/ \E a, b \in p.areas : b.id \in a.up

(* The areas of a project lie in each other; what is stored at the start   *)
(* was assigned with this window.                                          *)
ASSUME ProjectData ==
  /\ \A x \in Projects : \A i, j \in LiesIn[x] : i = j \/ i \in Above(j) \/ j \in Above(i)
  /\ \A s \in Stored :
       /\ s \in [country : BOOLEAN, areas : SUBSET {Area(id, Above(id)) : id \in Places3},
                projects : SUBSET Projects, bare : {{}}]
       /\ ~ Redundant(s)

(* What a commit of the preview gives the user.                            *)
Covers(p, x) ==
  p.country \/ x \in p.projects \/ LiesIn[x] \cap IdsOf(p.areas) # {}

Ticked == {x \in DOMAIN listed : listed[x].on}

SetBoxes(bs, xs, b) == [x \in DOMAIN bs |-> IF x \in xs THEN b ELSE bs[x]]

(* The preview becomes p; a part that is empty now is nobody's.            *)
Preview(p) ==
  /\ pick' = p
  /\ origin' = [part \in Parts |-> IF Holds(p, part) THEN origin[part] ELSE NoArea]

(* inputArrayToPreviewProjectItem: the preview of projects is written anew.*)
(* A project that came with the user's data lacks the attribute            *)
(* countyLevelCityId, and goes on lacking it.                              *)
WithProjects(p, xs) == [p EXCEPT !.projects = xs, !.bare = @ \cap xs]

-----------------------------------------------------------------------------
(* Opening and closing.                                                    *)

Acts ==
  /\ picks < MaxPicks
  /\ picks' = picks + 1

Call(kind, of, with) ==
  /\ Len(calls) < MaxCalls
  /\ calls' = Append(calls, [kind |-> kind, of |-> of, with |-> with])

ListCalls == {"cities", "counties"}

(* What history says of a step taken while such a request is under way.    *)
Crossing(kinds, what) ==
  IF \E i \in DOMAIN calls : calls[i].kind \in kinds THEN {what} ELSE {}

(* Mutant of SetEmpty: the preview of the user before is not emptied.      *)
SetEmptyNot(p) == p

(* setEmptyUserProjectWin: the preview is emptied, but for the county-level*)
(* cities.                                                                 *)
SetEmpty(p) ==
  [NothingPicked EXCEPT !.areas = {a \in p.areas : a.id \in Counties}]

(* #setUserProject in the window about user u.                             *)
SetUserProject(u) ==
  /\ win = "list"
  /\ Acts
  /\ editor' = u
  /\ Preview(SetEmpty(pick))
  /\ listed' = NoBoxes
  /\ boxes' = NoBoxes
  /\ search' = NoSearch
  /\ options' = NoOptions
  /\ Call("user", u, NothingPicked)
  /\ mixed' = mixed \cup Crossing({"user"}, "users") \cup Crossing(ListCalls, "lists")
  /\ UNCHANGED <<win, sending, stored>>

(* cancelCommitUserProject, and the link of the result.                    *)
CloseWindow ==
  /\ win \in {"assign", "result"}
  /\ win = "assign" => ~sending
  /\ Acts
  /\ win' = "list"
  /\ UNCHANGED <<editor, pick, listed, boxes, search, options, calls, sending,
                 stored, origin, mixed>>

-----------------------------------------------------------------------------
(* The select boxes and the query.                                         *)

(* #provinceSearch: the cities follow with an answer; until then, and after*)
(* an error, those of the province before are offered and one may stay     *)
(* chosen.                                                                 *)
SelectProvince(p) ==
  /\ win = "assign"
  /\ Acts
  /\ p # search.province
  /\ IF p = NoArea
       THEN /\ search' = NoSearch
            /\ options' = NoOptions
            /\ UNCHANGED calls
       ELSE /\ search' = [search EXCEPT !.province = p]
            /\ Call("cities", p, NothingPicked)
            /\ UNCHANGED options
  /\ mixed' = mixed \cup Crossing(ListCalls, "lists")
  /\ UNCHANGED <<win, editor, pick, listed, boxes, sending, stored, origin>>

(* #citySearch, likewise.                                                  *)
SelectCity(c) ==
  /\ win = "assign"
  /\ Acts
  /\ c # search.city
  /\ IF c = NoArea
       THEN /\ search' = [search EXCEPT !.city = NoArea, !.county = NoArea]
            /\ options' = [options EXCEPT !.counties = {}]
            /\ UNCHANGED calls
       ELSE /\ search' = [search EXCEPT !.city = c]
            /\ Call("counties", c, NothingPicked)
            /\ UNCHANGED options
  /\ mixed' = mixed \cup Crossing(ListCalls, "lists")
  /\ UNCHANGED <<win, editor, pick, listed, boxes, sending, stored, origin>>

SelectCounty(k) ==
  /\ win = "assign"
  /\ Acts
  /\ k # search.county
  /\ search' = [search EXCEPT !.county = k]
  /\ UNCHANGED <<win, editor, pick, listed, boxes, options, calls, sending,
                 stored, origin, mixed>>

QueryProject ==
  /\ win = "assign"
  /\ Acts
  /\ \E s \in {search} : Call("query", s, NothingPicked)
  /\ UNCHANGED <<win, editor, pick, listed, boxes, search, options, sending,
                 stored, origin, mixed>>

-----------------------------------------------------------------------------
(* Ticks.                                                                  *)

(* checkAllProvince, checkAllCity, checkAllCountyLevelCity: the projects in*)
(* the preview and those ticked, without those of the area.  The attribute *)
(* a bare project lacks is never equal to a county-level city.             *)
CheckAll(p, bs, id) ==
  LET on == {x \in DOMAIN bs : bs[x].on /\ id \notin LiesIn[x]}
      kept == {x \in p.projects :
                 id \notin LiesIn[x] \/ (id \in Counties /\ x \in p.bare)}
  IN WithProjects(p, (kept \cup on) \ (DOMAIN bs \ on))

(* handleAllProvince, handleAllCity, handleAllCountyLevelCity with a box   *)
(* that was ticked: the boxes displayed under the area and its projects are*)
(* ticked and locked, and the areas displayed under it leave the preview.  *)
TickArea(id) ==
  LET bs == SetBoxes(listed, {x \in DOMAIN listed : id \in LiesIn[x]}, Box(TRUE, TRUE))
      mine == {a \in DOMAIN boxes : a.id = id}
      rest == {a \in pick.areas : id \notin a.up}
      new == IF id \in IdsOf(rest) THEN rest ELSE rest \cup mine
  IN /\ listed' = bs
     /\ boxes' = [a \in DOMAIN boxes |->
                    IF a.id = id THEN [boxes[a] EXCEPT !.on = TRUE]
                    ELSE IF id \in a.up THEN Box(TRUE, TRUE) ELSE boxes[a]]
     /\ Preview(CheckAll([pick EXCEPT !.areas = new], bs, id))

(* The same with a box that was unticked, on the left or in the preview.   *)
(* Unticking a province in the preview unticks whatever province is        *)
(* displayed on the left.                                                  *)
UntickArea(id, inPreview) ==
  LET bs == SetBoxes(listed, {x \in DOMAIN listed : id \in LiesIn[x]}, Box(FALSE, FALSE))
      Hit(a) == a.id = id \/ (inPreview /\ id \in Provinces /\ a.id \in Provinces)
  IN /\ listed' = bs
     /\ boxes' = [a \in DOMAIN boxes |->
                    IF Hit(a) THEN [boxes[a] EXCEPT !.on = FALSE]
                    ELSE IF id \in a.up THEN Box(FALSE, FALSE) ELSE boxes[a]]
     /\ Preview(CheckAll([pick EXCEPT !.areas = {a \in @ : a.id # id}], bs, id))

ClickAreaBox(a) ==
  /\ win = "assign"
  /\ Acts
  /\ ~boxes[a].locked
  /\ IF boxes[a].on THEN UntickArea(a.id, FALSE) ELSE TickArea(a.id)
  /\ UNCHANGED <<win, editor, search, options, calls, sending, stored, mixed>>

ClickAreaPreview(a) ==
  /\ win = "assign"
  /\ Acts
  /\ UntickArea(a.id, TRUE)
  /\ UNCHANGED <<win, editor, search, options, calls, sending, stored, mixed>>

(* handleAllCountry: everything is ticked and locked, or everything free.  *)
ClickCountry ==
  /\ win = "assign"
  /\ Acts
  /\ LET on == ~pick.country
     IN /\ listed' = [x \in DOMAIN listed |-> Box(on, on)]
        /\ boxes' = [a \in DOMAIN boxes |-> Box(on, on)]
        /\ Preview([country |-> on, areas |-> IF on THEN {} ELSE pick.areas,
                    projects |-> {}, bare |-> {}])
  /\ UNCHANGED <<win, editor, search, options, calls, sending, stored, mixed>>

(* checkProjectItem: the projects in the preview and those ticked, without *)
(* those listed and not ticked.                                            *)
CheckProjects(p, bs) ==
  LET on == {x \in DOMAIN bs : bs[x].on}
  IN WithProjects(p, (p.projects \cup on) \ (DOMAIN bs \ on))

ClickProject(x) ==
  /\ win = "assign"
  /\ Acts
  /\ ~listed[x].locked
  /\ LET bs == [listed EXCEPT ![x] = Box(~@.on, FALSE)]
     IN listed' = bs /\ Preview(CheckProjects(pick, bs))
  /\ UNCHANGED <<win, editor, boxes, search, options, calls, sending, stored, mixed>>

(* A project is unticked in the preview; its box on the left is unticked,  *)
(* locked or not.                                                          *)
ClickProjectPreview(x) ==
  /\ win = "assign"
  /\ Acts
  /\ LET bs == [y \in DOMAIN listed |->
                  IF y = x THEN Box(FALSE, listed[y].locked) ELSE listed[y]]
         p == WithProjects(pick, pick.projects \ {x})
     IN listed' = bs /\ Preview(CheckProjects(p, bs))
  /\ UNCHANGED <<win, editor, boxes, search, options, calls, sending, stored, mixed>>

(* #commitUserProject: what the preview shows, for the user of the title.  *)
CommitUserProject ==
  /\ win = "assign"
  /\ ~sending
  /\ Acts
  /\ sending' = TRUE
  /\ Call("commit", editor,
          IF pick.country THEN [NothingPicked EXCEPT !.country = TRUE]
          ELSE [pick EXCEPT !.bare = {}])
  /\ UNCHANGED <<win, editor, pick, listed, boxes, search, options, stored,
                 origin, mixed>>

-----------------------------------------------------------------------------
(* Answers.                                                                *)

CallDone(i) ==
  /\ calls' = RemoveAt(calls, i)
  /\ UNCHANGED <<editor, picks>>

(* The user's data: the parts that are not empty are written, the others   *)
(* are left as they are; everything, when that is what the user has.       *)
ShowUserProjects(i) ==
  LET s == stored[calls[i].of]
      new == IF s.country THEN {"country"} ELSE {part \in Parts : Holds(s, part)}
  IN /\ CallDone(i)
     /\ pick' = [country |-> pick.country \/ s.country,
                 areas |-> {a \in pick.areas : LevelOf(a.id) \notin new}
                             \cup {a \in s.areas : LevelOf(a.id) \in new},
                 projects |-> IF "projects" \in new THEN s.projects ELSE pick.projects,
                 bare |-> IF "projects" \in new THEN s.projects ELSE pick.bare]
     /\ origin' = [part \in Parts |-> IF part \in new THEN calls[i].of ELSE origin[part]]
     /\ mixed' = mixed \cup (IF Redundant(pick') THEN {"kept"} ELSE {})
     /\ win' = "assign"
     /\ UNCHANGED <<listed, boxes, search, options, sending, stored>>

(* A refusal or an error of the user's data or of a commit is shown.  All  *)
(* but the refusal of the data enable the buttons, whoever disabled them.  *)
ShowRefusal(i) ==
  /\ CallDone(i)
  /\ win' = "result"
  /\ sending' \in {FALSE} \cup (IF calls[i].kind = "user" THEN {sending} ELSE {})
  /\ UNCHANGED <<pick, listed, boxes, search, options, stored, origin, mixed>>

(* The lists are filled anew, or emptied when the server refuses.          *)
FillCities(i) ==
  /\ CallDone(i)
  /\ search' = [search EXCEPT !.city = NoArea, !.county = NoArea]
  /\ \E cs \in {{c \in Cities : Parent[c] = calls[i].of}, {}} :
       options' = [cities |-> cs, counties |-> {}]
  /\ UNCHANGED <<win, pick, listed, boxes, sending, stored, origin, mixed>>

FillCounties(i) ==
  /\ CallDone(i)
  /\ search' = [search EXCEPT !.county = NoArea]
  /\ \E ks \in {{k \in Counties : Parent[k] = calls[i].of}, {}} :
       options' = [options EXCEPT !.counties = ks]
  /\ UNCHANGED <<win, pick, listed, boxes, sending, stored, origin, mixed>>

(* The error callbacks of the lists are empty: old lists stay.             *)
NoList(i) ==
  /\ CallDone(i)
  /\ mixed' = mixed \cup {"lists"}
  /\ UNCHANGED <<win, pick, listed, boxes, search, options, sending, stored, origin>>

(* The projects the search asked for found, and the boxes of the areas the *)
(* select boxes name now.                                                  *)
Found(s) ==
  {x \in Projects : {s.province, s.city, s.county} \ {NoArea} \subseteq LiesIn[x]}

FoundBox(x) ==
  LET inArea == pick.country \/ LiesIn[x] \cap IdsOf(pick.areas) # {}
  IN Box(inArea \/ x \in pick.projects, inArea)

AreaBox(a) ==
  LET below == pick.country \/ a.up \cap IdsOf(pick.areas) # {}
  IN Box(below \/ a.id \in IdsOf(pick.areas), below)

SearchedAreas ==
  LET p == search.province
      c == search.city
      k == search.county
  IN IF p = NoArea THEN {}
     ELSE {Area(p, {})} \cup (IF c = NoArea THEN {} ELSE {Area(c, {p})})
            \cup (IF k = NoArea THEN {} ELSE {Area(k, {p} \cup ({c} \ {NoArea}))})

AreaBoxes == [a \in SearchedAreas |-> AreaBox(a)]

ShowFound(i) ==
  /\ CallDone(i)
  /\ listed' = [x \in Found(calls[i].of) |-> FoundBox(x)]
  /\ boxes' = AreaBoxes
  /\ mixed' = mixed \cup Crossing(ListCalls, "lists") \cup Crossing({"user"}, "query")
  /\ UNCHANGED <<win, pick, search, options, sending, stored, origin>>

Committed(i) ==
  /\ CallDone(i)
  /\ stored' = [stored EXCEPT ![calls[i].of] = calls[i].with]
  /\ sending' = FALSE
  /\ win' = "result"
  /\ UNCHANGED <<pick, listed, boxes, search, options, origin, mixed>>

AnswerCall(i) ==
  LET kind == calls[i].kind
  IN \/ kind = "user" /\ ShowUserProjects(i)
     \/ kind \in {"user", "commit"} /\ ShowRefusal(i)
     \/ kind = "cities" /\ FillCities(i)
     \/ kind = "counties" /\ FillCounties(i)
     \/ kind \in {"cities", "counties"} /\ NoList(i)
     \/ kind = "query" /\ ShowFound(i)
     \/ kind = "commit" /\ Committed(i)

-----------------------------------------------------------------------------
ProjectInit ==
  /\ win = "list" /\ editor = NoArea
  /\ pick = NothingPicked /\ listed = NoBoxes /\ boxes = NoBoxes
  /\ search = NoSearch /\ options = NoOptions
  /\ calls = <<>> /\ sending = FALSE /\ picks = 0
  /\ stored \in [Editors -> Stored]
  /\ origin = [part \in Parts |-> NoArea] /\ mixed = {}

ProjectNext ==
  \/ \E u \in Editors : SetUserProject(u)
  \/ CloseWindow
  \/ \E p \in Provinces \cup {NoArea} : SelectProvince(p)
  \/ \E c \in options.cities \cup {NoArea} : SelectCity(c)
  \/ \E k \in options.counties \cup {NoArea} : SelectCounty(k)
  \/ QueryProject
  \/ \E a \in DOMAIN boxes : ClickAreaBox(a)
  \/ \E a \in pick.areas : ClickAreaPreview(a)
  \/ ClickCountry
  \/ \E x \in DOMAIN listed : ClickProject(x)
  \/ \E x \in pick.projects : ClickProjectPreview(x)
  \/ CommitUserProject
  \/ \E i \in DOMAIN calls : AnswerCall(i)

ProjectSpec == ProjectInit /\ [][ProjectNext]_projectVars

-----------------------------------------------------------------------------
(* Properties.                                                             *)

(* The window shows what is stored for the user in its title, and what the *)
(* administrator ticks.  Two exceptions: county-level cities, which stay   *)
(* from the user before when the new one has none, and answers to two      *)
(* openings that crossed.                                                  *)
OnlyOwnShown ==
  \A part \in Parts \ {"counties"} :
    origin[part] \notin {NoArea, editor} => "users" \in mixed

(* An area is chosen under the areas it lies in (they decide what choosing *)
(* another area drops, and are sent with a county-level city), unless the  *)
(* lists of the select boxes came late, in the wrong order or not at all.  *)
FiledRight ==
  (\E a \in pick.areas \cup DOMAIN boxes : a.up # Above(a.id)) => "lists" \in mixed

(* The ticks on the left tell what a commit would give.  A project found is*)
(* ticked exactly when the preview covers it, but for one that is unticked *)
(* in the preview while an area covers it: its box stays locked.  A county-*)
(* level city that stayed from the user before, in an area this user has,  *)
(* is an exception too: unticking one of the two frees what both cover.    *)
TicksTellTruth ==
  mixed = {} =>
    \A x \in DOMAIN listed :
      /\ listed[x].on => Covers(pick, x)
      /\ Covers(pick, x) => listed[x].on \/ listed[x].locked

(* What the window displays and would commit is the truth about the user   *)
(* in its title, with the exceptions above and no others.                  *)
AssignmentWindowTruthful == OnlyOwnShown /\ FiledRight /\ TicksTellTruth
=============================================================================
