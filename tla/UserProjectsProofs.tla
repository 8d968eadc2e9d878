------------------------- MODULE UserProjectsProofs -------------------------
(***************************************************************************)
(* The window in which projects are assigned displays the truth, for any   *)
(* editors, areas, projects and bounds.                                    *)
(*                                                                         *)
(* The invariant has a part for each thing the property says.  Whose data  *)
(* is shown rests on which requests for data are under way; where an area  *)
(* is filed on which lists are; the ticks on the boxes and the preview     *)
(* together: what is chosen is not redundant, so that unticking an area    *)
(* frees exactly what nothing else covers.                                 *)
(***************************************************************************)
EXTENDS UserProjects, TLAPS

Areas == [id : Places3, up : SUBSET Places3]
PickTypes == [country : BOOLEAN, areas : SUBSET Areas,
              projects : SUBSET Projects, bare : SUBSET Projects]
BoxTypes == [on : BOOLEAN, locked : BOOLEAN]
Searches == [province : Provinces \cup {NoArea}, city : Cities \cup {NoArea},
             county : Counties \cup {NoArea}]
CallTypes ==
  [kind : {"user", "cities", "counties", "query", "commit"},
   of : Editors \cup Places3 \cup {NoArea} \cup Searches, with : PickTypes]

(* What a request asks about.                                              *)
Asks(c) ==
  /\ c.kind = "user" => c.of \in Editors
  /\ c.kind = "cities" => c.of \in Provinces
  /\ c.kind = "counties" => c.of \in Cities

Asked == {c \in CallTypes : Asks(c)}

ProjectTypeOK ==
  /\ editor \in Editors \cup {NoArea}
  /\ pick \in PickTypes
  /\ DOMAIN listed \subseteq Projects /\ listed \in [DOMAIN listed -> BoxTypes]
  /\ DOMAIN boxes \subseteq Areas /\ boxes \in [DOMAIN boxes -> BoxTypes]
  /\ search \in Searches
  /\ options \in [cities : SUBSET Cities, counties : SUBSET Counties]
  /\ calls \in Seq(Asked)
  /\ stored \in [Editors -> PickTypes]

Pending(cs, kinds) == \E i \in DOMAIN cs : cs[i].kind \in kinds
OnlyOne(cs, kinds) ==
  \A i, j \in DOMAIN cs : cs[i].kind \in kinds /\ cs[j].kind \in kinds => i = j

(* Unless two openings crossed, the one request for data is about the user *)
(* in the title, and so is what is shown.                                  *)
OwnCalls ==
  /\ OnlyOne(calls, {"user"})
  /\ \A i \in DOMAIN calls : calls[i].kind = "user" => calls[i].of = editor
OwnShown == \A part \in Parts \ {"counties"} : origin[part] \in {NoArea, editor}
OwnInv == "users" \notin mixed => OwnCalls /\ OwnShown

(* Unless lists came late, a list under way is for what is chosen above it *)
(* and the lists displayed are, as far as none is under way.               *)
ListCallsRight ==
  /\ OnlyOne(calls, ListCalls)
  /\ \A i \in DOMAIN calls : /\ calls[i].kind = "cities" => calls[i].of = search.province
                             /\ calls[i].kind = "counties" => calls[i].of = search.city
CitiesRight ==
  /\ \A c \in options.cities : Parent[c] = search.province
  /\ search.city # NoArea => Parent[search.city] = search.province
CountiesRight ==
  /\ \A k \in options.counties : Parent[k] = search.city
  /\ search.county # NoArea => Parent[search.county] = search.city
ListsRight ==
  /\ ListCallsRight
  /\ ~ Pending(calls, {"cities"}) => CitiesRight
  /\ ~ Pending(calls, ListCalls) => CountiesRight
ListsInv == "lists" \notin mixed => ListsRight

Filed(areas) == \A a \in areas : a.up = Above(a.id)

FiledInv ==
  "lists" \notin mixed =>
    /\ Filed(pick.areas) /\ Filed(DOMAIN boxes)
    /\ \A u \in Editors : Filed(stored[u].areas)
    /\ \A i \in DOMAIN calls : Filed(calls[i].with.areas)

(* Nothing is chosen twice over: what is stored, sent and shown has no     *)
(* area beside one it lies in.                                             *)
NoneRedundant ==
  /\ ~ Redundant(pick)
  /\ \A u \in Editors : ~ Redundant(stored[u])
  /\ \A i \in DOMAIN calls : ~ Redundant(calls[i].with)

(* A box below something chosen is locked, and one that is on and not      *)
(* locked is chosen itself.                                                *)
BoxesTell(p, bs) ==
  \A a \in DOMAIN bs :
    /\ p.country \/ (\E b \in p.areas : b.id \in a.up) => bs[a].locked
    /\ bs[a].on /\ ~ bs[a].locked => a.id \in IdsOf(p.areas)

(* The same of a project, which may also be chosen on its own.             *)
InArea(p, x) == p.country \/ \E b \in p.areas : b.id \in LiesIn[x]
ListedTell(p, bs) ==
  \A x \in DOMAIN bs :
    /\ InArea(p, x) => bs[x].locked
    /\ x \in p.projects => bs[x].on
    /\ bs[x].on => x \in p.projects \/ InArea(p, x)

TicksInv ==
  mixed = {} =>
    /\ NoneRedundant /\ BoxesTell(pick, boxes) /\ ListedTell(pick, listed)
    /\ Pending(calls, {"user"}) => DOMAIN listed = {} /\ DOMAIN boxes = {}

ProjectInv == ProjectTypeOK /\ OwnInv /\ ListsInv /\ FiledInv /\ TicksInv

-----------------------------------------------------------------------------
(* The calls: one more, or one answered.                                   *)

(* A sequence without its j-th element.                                    *)
LEMMA RemovedAt ==
  ASSUME NEW S, NEW s \in Seq(S), NEW j \in DOMAIN s
  PROVE  /\ RemoveAt(s, j) \in Seq(S)
         /\ DOMAIN RemoveAt(s, j) = 1 .. Len(s) - 1
         /\ \A k \in 1 .. Len(s) - 1 :
              RemoveAt(s, j)[k] = IF k < j THEN s[k] ELSE s[k + 1]
<1>1. j \in 1 .. Len(s) /\ Len(s) \in Nat
  OBVIOUS
<1>2. PICK a : a = SubSeq(s, 1, j - 1)
  OBVIOUS
<1>3. PICK b : b = SubSeq(s, j + 1, Len(s))
  OBVIOUS
<1>4. a \in Seq(S) /\ Len(a) = j - 1 /\ \A k \in 1 .. j - 1 : a[k] = s[k]
  BY <1>1, <1>2
<1>5. b \in Seq(S) /\ Len(b) = Len(s) - j /\ \A k \in 1 .. Len(s) - j : b[k] = s[k + j]
  BY <1>1, <1>3
<1>6. RemoveAt(s, j) = a \o b
  BY <1>2, <1>3 DEF RemoveAt
<1>7. a \o b \in Seq(S) /\ Len(a \o b) = Len(s) - 1
  BY <1>1, <1>4, <1>5
<1>8. DOMAIN (a \o b) = 1 .. Len(s) - 1
  BY <1>7
<1>9. ASSUME NEW k \in 1 .. Len(s) - 1
      PROVE  (a \o b)[k] = IF k < j THEN s[k] ELSE s[k + 1]
  BY <1>1, <1>4, <1>5
<1> QED
  BY <1>6, <1>7, <1>8, <1>9

(* What is under way, when one more request is sent.                       *)
LEMMA CallAdded ==
  ASSUME NEW S, NEW s \in Seq(S), NEW c \in S
  PROVE  /\ Append(s, c) \in Seq(S)
         /\ \A i \in DOMAIN Append(s, c) :
              \/ Append(s, c)[i] = c /\ i = Len(s) + 1
              \/ i \in DOMAIN s /\ Append(s, c)[i] = s[i]
         /\ \A i \in DOMAIN s : i \in DOMAIN Append(s, c) /\ Append(s, c)[i] = s[i]
         /\ Len(s) + 1 \in DOMAIN Append(s, c) /\ Append(s, c)[Len(s) + 1] = c
<1>1. Append(s, c) \in Seq(S) /\ Len(Append(s, c)) = Len(s) + 1 /\ Len(s) \in Nat
  OBVIOUS
<1>2. DOMAIN Append(s, c) = 1 .. Len(s) + 1 /\ DOMAIN s = 1 .. Len(s)
  BY <1>1
<1>3. \A i \in 1 .. Len(s) : Append(s, c)[i] = s[i]
  OBVIOUS
<1>4. Append(s, c)[Len(s) + 1] = c
  OBVIOUS
<1> QED
  BY <1>1, <1>2, <1>3, <1>4

(* A kind of request of which none is under way is under way once.         *)
LEMMA CallAddedKinds ==
  ASSUME NEW s \in Seq(Asked), NEW c \in Asked, NEW K
  PROVE  /\ c.kind \notin K => (Pending(Append(s, c), K) <=> Pending(s, K))
         /\ c.kind \notin K => (OnlyOne(s, K) => OnlyOne(Append(s, c), K))
         /\ ~ Pending(s, K) => OnlyOne(Append(s, c), K)
         /\ c.kind \in K => Pending(Append(s, c), K)
<1>1. PICK t : t = Append(s, c)
  OBVIOUS
<1>2. /\ \A i \in DOMAIN t : \/ t[i] = c /\ i = Len(s) + 1
                             \/ i \in DOMAIN s /\ t[i] = s[i]
      /\ \A i \in DOMAIN s : i \in DOMAIN t /\ t[i] = s[i]
      /\ Len(s) + 1 \in DOMAIN t /\ t[Len(s) + 1] = c
  BY <1>1, CallAdded
<1>3. c.kind \notin K => (Pending(t, K) <=> Pending(s, K))
  BY <1>2 DEF Pending
<1>4. c.kind \notin K => (OnlyOne(s, K) => OnlyOne(t, K))
  BY <1>2 DEF OnlyOne
<1>5. ~ Pending(s, K) => OnlyOne(t, K)
  BY <1>2 DEF Pending, OnlyOne
<1>6. c.kind \in K => Pending(t, K)
  BY <1>2 DEF Pending
<1> QED
  BY <1>1, <1>3, <1>4, <1>5, <1>6

(* What is under way, when one request is answered.                        *)
LEMMA CallAnswered ==
  ASSUME NEW s \in Seq(Asked), NEW i \in DOMAIN s, NEW K
  PROVE  /\ RemoveAt(s, i) \in Seq(Asked)
         /\ \A j \in DOMAIN RemoveAt(s, i) : \E k \in DOMAIN s \ {i} : RemoveAt(s, i)[j] = s[k]
         /\ Pending(RemoveAt(s, i), K) => Pending(s, K)
         /\ s[i].kind \notin K => (Pending(s, K) => Pending(RemoveAt(s, i), K))
         /\ OnlyOne(s, K) => OnlyOne(RemoveAt(s, i), K)
         /\ s[i].kind \in K /\ OnlyOne(s, K) => ~ Pending(RemoveAt(s, i), K)
<1>1. PICK t : t = RemoveAt(s, i)
  OBVIOUS
<1>2. /\ t \in Seq(Asked) /\ DOMAIN t = 1 .. Len(s) - 1
      /\ \A k \in 1 .. Len(s) - 1 : t[k] = IF k < i THEN s[k] ELSE s[k + 1]
  BY <1>1, RemovedAt
<1>3. i \in 1 .. Len(s) /\ Len(s) \in Nat /\ DOMAIN s = 1 .. Len(s)
  OBVIOUS
<1>4. \A j \in DOMAIN t : \E k \in DOMAIN s \ {i} :
        t[j] = s[k] /\ k = IF j < i THEN j ELSE j + 1
  <2> SUFFICES ASSUME NEW j \in DOMAIN t
               PROVE  \E k \in DOMAIN s \ {i} : t[j] = s[k] /\ k = IF j < i THEN j ELSE j + 1
    OBVIOUS
  <2>1. j \in 1 .. Len(s) - 1
    BY <1>2
  <2>2. CASE j < i
    BY <1>2, <1>3, <2>1, <2>2
  <2>3. CASE ~ (j < i)
    <3>1. j + 1 \in DOMAIN s \ {i}
      BY <1>3, <2>1, <2>3
    <3> QED
      BY <1>2, <2>1, <2>3, <3>1
  <2> QED
    BY <2>2, <2>3
<1>5. \A k \in DOMAIN s \ {i} : \E j \in DOMAIN t : t[j] = s[k]
  <2> SUFFICES ASSUME NEW k \in DOMAIN s \ {i}
               PROVE  \E j \in DOMAIN t : t[j] = s[k]
    OBVIOUS
  <2>1. CASE k < i
    BY <1>2, <1>3, <2>1
  <2>2. CASE ~ (k < i)
    <3>1. k - 1 \in DOMAIN t /\ ~ (k - 1 < i) /\ k - 1 + 1 = k
      BY <1>2, <1>3, <2>2
    <3> QED
      BY <1>2, <3>1
  <2> QED
    BY <2>1, <2>2
<1>6. Pending(t, K) => Pending(s, K)
  BY <1>4 DEF Pending
<1>7. s[i].kind \notin K => (Pending(s, K) => Pending(t, K))
  BY <1>5 DEF Pending
<1>8. OnlyOne(s, K) => OnlyOne(t, K)
  <2> SUFFICES ASSUME OnlyOne(s, K), NEW j \in DOMAIN t, NEW l \in DOMAIN t,
                      t[j].kind \in K, t[l].kind \in K
               PROVE  j = l
    BY DEF OnlyOne
  <2>1. PICK k \in DOMAIN s : t[j] = s[k] /\ k = IF j < i THEN j ELSE j + 1
    BY <1>4
  <2>2. PICK m \in DOMAIN s : t[l] = s[m] /\ m = IF l < i THEN l ELSE l + 1
    BY <1>4
  <2>3. k = m
    BY <2>1, <2>2 DEF OnlyOne
  <2> QED
    BY <1>2, <1>3, <2>1, <2>2, <2>3
<1>9. s[i].kind \in K /\ OnlyOne(s, K) => ~ Pending(t, K)
  BY <1>4 DEF Pending, OnlyOne
<1> QED
  BY <1>1, <1>2, <1>4, <1>6, <1>7, <1>8, <1>9

-----------------------------------------------------------------------------
(* The areas and the preview.                                              *)

(* The areas above one lie a level or two higher.                          *)
LEMMA AreasAbove ==
  /\ \A id \in Provinces : Above(id) = {}
  /\ \A id \in Cities : Parent[id] \in Provinces /\ Above(id) = {Parent[id]}
  /\ \A id \in Counties : /\ Parent[id] \in Cities /\ Parent[Parent[id]] \in Provinces
                          /\ Above(id) = {Parent[id], Parent[Parent[id]]}
  /\ \A id \in Places3 : Above(id) \subseteq Places3 \ Counties /\ id \notin Above(id)
<1>1. \A id \in Provinces : Above(id) = {}
  BY DEF Above
<1>2. \A id \in Cities : Parent[id] \in Provinces /\ Above(id) = {Parent[id]}
  BY Geography DEF Above
<1>3. \A id \in Counties : /\ Parent[id] \in Cities /\ Parent[Parent[id]] \in Provinces
                           /\ Above(id) = {Parent[id], Parent[Parent[id]]}
  BY Geography DEF Above
<1> QED
  BY <1>1, <1>2, <1>3, Geography DEF Places3

(* Of two areas above one, one lies in the other.                          *)
LEMMA AboveInOrder ==
  ASSUME NEW k \in Places3, NEW i \in Above(k), NEW j \in Above(k), i # j
  PROVE  i \in Above(j) \/ j \in Above(i)
  BY AreasAbove DEF Places3

(* What a preview is made of.                                              *)
LEMMA PickHas ==
  ASSUME NEW p \in PickTypes
  PROVE  /\ p.country \in BOOLEAN /\ p.areas \subseteq Areas
         /\ p.projects \subseteq Projects /\ p.bare \subseteq Projects
         /\ \A a \in p.areas : a.id \in Places3 /\ a.up \subseteq Places3
  BY DEF PickTypes, Areas

(* The empty preview.                                                      *)
LEMMA EmptyPick ==
  /\ NothingPicked \in PickTypes /\ NothingPicked.areas = {} /\ ~ NothingPicked.country
  /\ NothingPicked.projects = {}
  /\ ~ Redundant(NothingPicked)
  BY DEF PickTypes, NothingPicked, Redundant

(* The preview when the window opens: county-level cities at most.         *)
LEMMA Emptied ==
  ASSUME NEW p \in PickTypes
  PROVE  /\ SetEmpty(p) \in PickTypes
         /\ SetEmpty(p).areas \subseteq p.areas /\ \A a \in SetEmpty(p).areas : a.id \in Counties
         /\ ~ SetEmpty(p).country /\ SetEmpty(p).projects = {}
<1>1. PICK as : as = {a \in p.areas : a.id \in Counties}
  OBVIOUS
<1>2. SetEmpty(p) = [NothingPicked EXCEPT !.areas = as]
  BY <1>1 DEF SetEmpty
<1>3. as \in SUBSET Areas /\ as \subseteq p.areas /\ \A a \in as : a.id \in Counties
  BY <1>1, PickHas
<1>4. SetEmpty(p) = [country |-> FALSE, areas |-> as, projects |-> {}, bare |-> {}]
  BY <1>2 DEF NothingPicked
<1>5. /\ SetEmpty(p).areas = as
      /\ ~ SetEmpty(p).country /\ SetEmpty(p).projects = {}
  BY <1>4
<1>6. SetEmpty(p) \in PickTypes
  <2>1. [country |-> FALSE, areas |-> as, projects |-> {}, bare |-> {}] \in PickTypes
    BY <1>3 DEF PickTypes
  <2> QED
    BY <1>4, <2>1
<1> QED
  BY <1>3, <1>5, <1>6

(* The preview with other projects.                                        *)
LEMMA WithThem ==
  ASSUME NEW p \in PickTypes, NEW xs \in SUBSET Projects
  PROVE  /\ WithProjects(p, xs) \in PickTypes
         /\ WithProjects(p, xs).areas = p.areas /\ WithProjects(p, xs).country = p.country
         /\ WithProjects(p, xs).projects = xs
<1>1. PICK bare : bare = p.bare \cap xs
  OBVIOUS
<1>2. WithProjects(p, xs) = [p EXCEPT !.projects = xs, !.bare = bare]
  BY <1>1 DEF WithProjects, PickTypes
<1>3. bare \in SUBSET Projects
  BY <1>1
<1> QED
  BY <1>2, <1>3 DEF PickTypes

(* The preview with other areas.                                           *)
LEMMA AreasPicked ==
  ASSUME NEW p \in PickTypes, NEW as \in SUBSET Areas
  PROVE  /\ [p EXCEPT !.areas = as] \in PickTypes
         /\ [p EXCEPT !.areas = as].areas = as /\ [p EXCEPT !.areas = as].country = p.country
         /\ [p EXCEPT !.areas = as].projects = p.projects
  BY DEF PickTypes

(* The ticks of listed projects decide which of them are chosen.           *)
LEMMA AllChecked ==
  ASSUME NEW p \in PickTypes, NEW bs, DOMAIN bs \subseteq Projects, NEW id
  PROVE  /\ CheckAll(p, bs, id) \in PickTypes
         /\ CheckAll(p, bs, id).areas = p.areas /\ CheckAll(p, bs, id).country = p.country
         /\ \A x \in DOMAIN bs :
              x \in CheckAll(p, bs, id).projects <=> bs[x].on /\ id \notin LiesIn[x]
<1>1. PICK on : on = {x \in DOMAIN bs : bs[x].on /\ id \notin LiesIn[x]}
  OBVIOUS
<1>2. PICK kept : kept = {x \in p.projects :
                            id \notin LiesIn[x] \/ (id \in Counties /\ x \in p.bare)}
  OBVIOUS
<1>3. CheckAll(p, bs, id) = WithProjects(p, (kept \cup on) \ (DOMAIN bs \ on))
  BY <1>1, <1>2 DEF CheckAll
<1>4. (kept \cup on) \ (DOMAIN bs \ on) \in SUBSET Projects
  BY <1>1, <1>2, PickHas
<1>5. \A x \in DOMAIN bs : x \in (kept \cup on) \ (DOMAIN bs \ on) <=> x \in on
  OBVIOUS
<1> QED
  BY <1>1, <1>3, <1>4, <1>5, WithThem

(* The same when a project is clicked.                                     *)
LEMMA ProjectsChecked ==
  ASSUME NEW p \in PickTypes, NEW bs, DOMAIN bs \subseteq Projects
  PROVE  /\ CheckProjects(p, bs) \in PickTypes
         /\ CheckProjects(p, bs).areas = p.areas /\ CheckProjects(p, bs).country = p.country
         /\ \A x \in DOMAIN bs : x \in CheckProjects(p, bs).projects <=> bs[x].on
<1>1. PICK on : on = {x \in DOMAIN bs : bs[x].on}
  OBVIOUS
<1>2. CheckProjects(p, bs) = WithProjects(p, (p.projects \cup on) \ (DOMAIN bs \ on))
  BY <1>1 DEF CheckProjects
<1>3. (p.projects \cup on) \ (DOMAIN bs \ on) \in SUBSET Projects
  BY <1>1, PickHas
<1> QED
  BY <1>1, <1>2, <1>3, WithThem

-----------------------------------------------------------------------------
(* What the clicks leave.                                                  *)

(* Some boxes are set, the others stay.                                    *)
LEMMA BoxesSet ==
  ASSUME NEW bs, bs \in [DOMAIN bs -> BoxTypes], NEW xs, NEW b \in BoxTypes
  PROVE  /\ SetBoxes(bs, xs, b) \in [DOMAIN bs -> BoxTypes]
         /\ DOMAIN SetBoxes(bs, xs, b) = DOMAIN bs
         /\ \A x \in DOMAIN bs : SetBoxes(bs, xs, b)[x] = IF x \in xs THEN b ELSE bs[x]
  BY DEF SetBoxes

(* A box and its two attributes.                                           *)
LEMMA BoxIs ==
  ASSUME NEW on \in BOOLEAN, NEW locked \in BOOLEAN
  PROVE  Box(on, locked) \in BoxTypes /\ Box(on, locked).on = on /\ Box(on, locked).locked = locked
  BY DEF Box, BoxTypes

(* A part of the preview is of the user it was of, or empty.               *)
LEMMA PreviewOrigin ==
  ASSUME NEW p, Preview(p)
  PROVE  pick' = p /\ \A part \in Parts : origin'[part] \in {NoArea, origin[part]}
  BY DEF Preview

(* The boxes keep their places.                                            *)
SameBoxes ==
  /\ DOMAIN listed' = DOMAIN listed /\ listed' \in [DOMAIN listed -> BoxTypes]
  /\ DOMAIN boxes' = DOMAIN boxes /\ boxes' \in [DOMAIN boxes -> BoxTypes]

(* What ticking an area leaves.                                            *)
LEMMA TickLeaves ==
  ASSUME ProjectTypeOK, NEW id \in Places3, TickArea(id)
  PROVE  /\ SameBoxes
         /\ \A x \in DOMAIN listed :
              listed'[x] = IF id \in LiesIn[x] THEN Box(TRUE, TRUE) ELSE listed[x]
         /\ \A a \in DOMAIN boxes :
              /\ a.id = id => boxes'[a].on /\ boxes'[a].locked = boxes[a].locked
              /\ a.id # id => boxes'[a] = IF id \in a.up THEN Box(TRUE, TRUE) ELSE boxes[a]
         /\ pick' \in PickTypes /\ pick'.country = pick.country
         /\ \A c \in pick'.areas : \/ c \in pick.areas /\ id \notin c.up
                                   \/ c \in DOMAIN boxes /\ c.id = id
         /\ \A c \in pick.areas : id \notin c.up => c \in pick'.areas
         /\ id \in IdsOf(DOMAIN boxes) => id \in IdsOf(pick'.areas)
         /\ \A x \in DOMAIN listed : x \in pick'.projects <=> listed'[x].on /\ id \notin LiesIn[x]
         /\ \A part \in Parts : origin'[part] \in {NoArea, origin[part]}
<1>1. PICK rest : rest = {a \in pick.areas : id \notin a.up}
  OBVIOUS
<1>2. PICK mine : mine = {a \in DOMAIN boxes : a.id = id}
  OBVIOUS
<1>3. PICK new : new = IF id \in IdsOf(rest) THEN rest ELSE rest \cup mine
  OBVIOUS
<1>4. PICK xs : xs = {x \in DOMAIN listed : id \in LiesIn[x]}
  OBVIOUS
<1>5. /\ listed' = SetBoxes(listed, xs, Box(TRUE, TRUE))
      /\ boxes' = [a \in DOMAIN boxes |->
                    IF a.id = id THEN [boxes[a] EXCEPT !.on = TRUE]
                    ELSE IF id \in a.up THEN Box(TRUE, TRUE) ELSE boxes[a]]
      /\ Preview(CheckAll([pick EXCEPT !.areas = new], listed', id))
  BY <1>1, <1>2, <1>3, <1>4 DEF TickArea
<1>6. /\ DOMAIN listed' = DOMAIN listed /\ listed' \in [DOMAIN listed -> BoxTypes]
      /\ \A x \in DOMAIN listed :
           listed'[x] = IF id \in LiesIn[x] THEN Box(TRUE, TRUE) ELSE listed[x]
  <2>1. PICK b : b = Box(TRUE, TRUE)
    OBVIOUS
  <2>2. b \in BoxTypes /\ listed \in [DOMAIN listed -> BoxTypes]
    BY <2>1, BoxIs DEF ProjectTypeOK
  <2>3. listed' = SetBoxes(listed, xs, b)
    BY <1>5, <2>1
  <2>4. /\ SetBoxes(listed, xs, b) \in [DOMAIN listed -> BoxTypes]
        /\ DOMAIN SetBoxes(listed, xs, b) = DOMAIN listed
        /\ \A x \in DOMAIN listed :
             SetBoxes(listed, xs, b)[x] = IF x \in xs THEN b ELSE listed[x]
    BY <2>2, BoxesSet
  <2> QED
    BY <1>4, <2>1, <2>3, <2>4
<1>7. \A a \in DOMAIN boxes : boxes'[a] \in BoxTypes /\
        /\ a.id = id => boxes'[a].on /\ boxes'[a].locked = boxes[a].locked
        /\ a.id # id => boxes'[a] = IF id \in a.up THEN Box(TRUE, TRUE) ELSE boxes[a]
  BY <1>5, BoxIs DEF ProjectTypeOK, BoxTypes
<1>8. DOMAIN boxes' = DOMAIN boxes /\ boxes' \in [DOMAIN boxes -> BoxTypes]
  BY <1>5, <1>7
<1>9. new \in SUBSET Areas
  BY <1>1, <1>2, <1>3, PickHas DEF ProjectTypeOK
<1>10. PICK p : p = [pick EXCEPT !.areas = new]
  OBVIOUS
<1>11. p \in PickTypes /\ p.areas = new /\ p.country = pick.country
  BY <1>9, <1>10, AreasPicked DEF ProjectTypeOK
<1>12. /\ pick' = CheckAll(p, listed', id)
       /\ \A part \in Parts : origin'[part] \in {NoArea, origin[part]}
  BY <1>5, <1>10, PreviewOrigin
<1>13. /\ pick' \in PickTypes /\ pick'.areas = new /\ pick'.country = pick.country
       /\ \A x \in DOMAIN listed : x \in pick'.projects <=> listed'[x].on /\ id \notin LiesIn[x]
  BY <1>6, <1>11, <1>12, AllChecked DEF ProjectTypeOK
<1>14. /\ \A c \in new : \/ c \in pick.areas /\ id \notin c.up
                         \/ c \in DOMAIN boxes /\ c.id = id
       /\ \A c \in pick.areas : id \notin c.up => c \in new
       /\ id \in IdsOf(DOMAIN boxes) => id \in IdsOf(new)
  BY <1>1, <1>2, <1>3 DEF IdsOf
<1> QED
  BY <1>6, <1>7, <1>8, <1>12, <1>13, <1>14 DEF SameBoxes

(* What unticking an area leaves.                                          *)
LEMMA UntickLeaves ==
  ASSUME ProjectTypeOK, NEW id \in Places3, NEW inPreview, UntickArea(id, inPreview)
  PROVE  /\ SameBoxes
         /\ \A x \in DOMAIN listed :
              listed'[x] = IF id \in LiesIn[x] THEN Box(FALSE, FALSE) ELSE listed[x]
         /\ \A a \in DOMAIN boxes :
              \/ ~ boxes'[a].on /\ boxes'[a].locked = boxes[a].locked
              \/ a.id # id /\ id \in a.up /\ boxes'[a] = Box(FALSE, FALSE)
              \/ a.id # id /\ id \notin a.up /\ boxes'[a] = boxes[a]
         /\ pick' \in PickTypes /\ pick'.country = pick.country
         /\ \A c : c \in pick'.areas <=> c \in pick.areas /\ c.id # id
         /\ \A x \in DOMAIN listed : x \in pick'.projects <=> listed'[x].on /\ id \notin LiesIn[x]
         /\ \A part \in Parts : origin'[part] \in {NoArea, origin[part]}
<1>1. PICK rest : rest = {a \in pick.areas : a.id # id}
  OBVIOUS
<1>2. PICK xs : xs = {x \in DOMAIN listed : id \in LiesIn[x]}
  OBVIOUS
<1>3. /\ listed' = SetBoxes(listed, xs, Box(FALSE, FALSE))
      /\ boxes' = [a \in DOMAIN boxes |->
                    IF a.id = id \/ (inPreview /\ id \in Provinces /\ a.id \in Provinces)
                      THEN [boxes[a] EXCEPT !.on = FALSE]
                    ELSE IF id \in a.up THEN Box(FALSE, FALSE) ELSE boxes[a]]
      /\ Preview(CheckAll([pick EXCEPT !.areas = rest], listed', id))
  BY <1>1, <1>2 DEF UntickArea, ProjectTypeOK, PickTypes
<1>4. /\ DOMAIN listed' = DOMAIN listed /\ listed' \in [DOMAIN listed -> BoxTypes]
      /\ \A x \in DOMAIN listed :
           listed'[x] = IF id \in LiesIn[x] THEN Box(FALSE, FALSE) ELSE listed[x]
  <2>1. PICK b : b = Box(FALSE, FALSE)
    OBVIOUS
  <2>2. b \in BoxTypes /\ listed \in [DOMAIN listed -> BoxTypes]
    BY <2>1, BoxIs DEF ProjectTypeOK
  <2>3. listed' = SetBoxes(listed, xs, b)
    BY <1>3, <2>1
  <2>4. /\ SetBoxes(listed, xs, b) \in [DOMAIN listed -> BoxTypes]
        /\ DOMAIN SetBoxes(listed, xs, b) = DOMAIN listed
        /\ \A x \in DOMAIN listed :
             SetBoxes(listed, xs, b)[x] = IF x \in xs THEN b ELSE listed[x]
    BY <2>2, BoxesSet
  <2> QED
    BY <1>2, <2>1, <2>3, <2>4
<1>5. \A a \in DOMAIN boxes : boxes'[a] \in BoxTypes /\
        \/ ~ boxes'[a].on /\ boxes'[a].locked = boxes[a].locked
        \/ a.id # id /\ id \in a.up /\ boxes'[a] = Box(FALSE, FALSE)
        \/ a.id # id /\ id \notin a.up /\ boxes'[a] = boxes[a]
  <2> SUFFICES ASSUME NEW a \in DOMAIN boxes
               PROVE  boxes'[a] \in BoxTypes /\
                        \/ ~ boxes'[a].on /\ boxes'[a].locked = boxes[a].locked
                        \/ a.id # id /\ id \in a.up /\ boxes'[a] = Box(FALSE, FALSE)
                        \/ a.id # id /\ id \notin a.up /\ boxes'[a] = boxes[a]
    OBVIOUS
  <2>1. boxes[a] \in BoxTypes
    BY DEF ProjectTypeOK
  <2>2. CASE a.id = id \/ (inPreview /\ id \in Provinces /\ a.id \in Provinces)
    <3>1. boxes'[a] = [boxes[a] EXCEPT !.on = FALSE]
      BY <1>3, <2>2
    <3> QED
      BY <2>1, <3>1 DEF BoxTypes
  <2>3. CASE ~ (a.id = id \/ (inPreview /\ id \in Provinces /\ a.id \in Provinces))
    <3>1. boxes'[a] = IF id \in a.up THEN Box(FALSE, FALSE) ELSE boxes[a]
      BY <1>3, <2>3
    <3> QED
      BY <2>1, <2>3, <3>1, BoxIs
  <2> QED
    BY <2>2, <2>3
<1>6. DOMAIN boxes' = DOMAIN boxes /\ boxes' \in [DOMAIN boxes -> BoxTypes]
  BY <1>3, <1>5
<1>7. rest \in SUBSET Areas
  BY <1>1, PickHas DEF ProjectTypeOK
<1>8. PICK p : p = [pick EXCEPT !.areas = rest]
  OBVIOUS
<1>9. p \in PickTypes /\ p.areas = rest /\ p.country = pick.country
  BY <1>7, <1>8, AreasPicked DEF ProjectTypeOK
<1>10. /\ pick' = CheckAll(p, listed', id)
       /\ \A part \in Parts : origin'[part] \in {NoArea, origin[part]}
  BY <1>3, <1>8, PreviewOrigin
<1>11. /\ pick' \in PickTypes /\ pick'.areas = rest /\ pick'.country = pick.country
       /\ \A x \in DOMAIN listed : x \in pick'.projects <=> listed'[x].on /\ id \notin LiesIn[x]
  BY <1>4, <1>9, <1>10, AllChecked DEF ProjectTypeOK
<1> QED
  BY <1>1, <1>4, <1>5, <1>6, <1>10, <1>11 DEF SameBoxes

-----------------------------------------------------------------------------
(* The ticks go on telling the truth.                                      *)

WindowTells(p, bs, xs) == ~ Redundant(p) /\ BoxesTell(p, bs) /\ ListedTell(p, xs)

(* An area is ticked that nothing chosen covers.                           *)
LEMMA TickTells ==
  ASSUME ProjectTypeOK, Filed(pick.areas), Filed(DOMAIN boxes),
         WindowTells(pick, boxes, listed),
         NEW a \in DOMAIN boxes, ~ boxes[a].locked, TickArea(a.id)
  PROVE  WindowTells(pick', boxes', listed')
<1>1. PICK id \in Places3 : id = a.id
  BY DEF ProjectTypeOK, Areas
<1>2. /\ ~ Redundant(pick) /\ BoxesTell(pick, boxes) /\ ListedTell(pick, listed)
      /\ pick \in PickTypes /\ DOMAIN boxes \subseteq Areas
  BY DEF WindowTells, ProjectTypeOK
<1>3. a.up = Above(id) /\ id \notin a.up
  BY <1>1, AreasAbove DEF Filed
<1>4. ~ pick.country /\ \A b \in pick.areas : b.id \notin a.up
  BY <1>2, PickHas DEF BoxesTell
<1>5. /\ SameBoxes
      /\ \A x \in DOMAIN listed :
           listed'[x] = IF id \in LiesIn[x] THEN Box(TRUE, TRUE) ELSE listed[x]
      /\ \A b \in DOMAIN boxes :
           /\ b.id = id => boxes'[b].on /\ boxes'[b].locked = boxes[b].locked
           /\ b.id # id => boxes'[b] = IF id \in b.up THEN Box(TRUE, TRUE) ELSE boxes[b]
      /\ pick'.country = pick.country
      /\ \A c \in pick'.areas : \/ c \in pick.areas /\ id \notin c.up
                                \/ c \in DOMAIN boxes /\ c.id = id
      /\ \A c \in pick.areas : id \notin c.up => c \in pick'.areas
      /\ id \in IdsOf(DOMAIN boxes) => id \in IdsOf(pick'.areas)
      /\ \A x \in DOMAIN listed : x \in pick'.projects <=> listed'[x].on /\ id \notin LiesIn[x]
  BY <1>1, TickLeaves
<1>6. \A c \in pick'.areas : /\ c.up = Above(c.id)
                             /\ c.id = id => c.up = a.up
                             /\ c.id # id => c \in pick.areas /\ id \notin c.up
  BY <1>1, <1>5 DEF Filed
<1>7. ~ Redundant(pick')
  <2> SUFFICES ASSUME NEW b \in pick'.areas, NEW c \in pick'.areas, c.id \in b.up
               PROVE  FALSE
    BY <1>4, <1>5 DEF Redundant
  <2>1. CASE b.id = id
    BY <1>3, <1>4, <1>6, <2>1
  <2>2. CASE b.id # id /\ c.id = id
    BY <1>6, <2>2
  <2>3. CASE b.id # id /\ c.id # id
    BY <1>2, <1>6, <2>3 DEF Redundant
  <2> QED
    BY <2>1, <2>2, <2>3
<1>8. BoxesTell(pick', boxes')
  <2> SUFFICES ASSUME NEW b \in DOMAIN boxes
               PROVE  /\ pick'.country \/ (\E c \in pick'.areas : c.id \in b.up) => boxes'[b].locked
                      /\ boxes'[b].on /\ ~ boxes'[b].locked => b.id \in IdsOf(pick'.areas)
    BY <1>5 DEF BoxesTell, SameBoxes
  <2>1. b.up = Above(b.id)
    BY DEF Filed
  <2>2. CASE b.id = id
    <3>1. b.up = a.up /\ \A c \in pick'.areas : c.id \notin b.up
      BY <1>3, <1>4, <1>6, <2>1, <2>2
    <3>2. id \in IdsOf(pick'.areas)
      BY <1>1, <1>5 DEF IdsOf
    <3> QED
      BY <1>4, <1>5, <2>2, <3>1, <3>2
  <2>3. CASE b.id # id /\ id \in b.up
    <3>1. boxes'[b].locked
      BY <1>5, <2>3, BoxIs
    <3> QED
      BY <3>1
  <2>4. CASE b.id # id /\ id \notin b.up
    <3>1. boxes'[b] = boxes[b]
      BY <1>5, <2>4
    <3>2. ASSUME NEW c \in pick'.areas, c.id \in b.up PROVE boxes[b].locked
      <4>1. c.id # id /\ c \in pick.areas
        BY <1>6, <2>4, <3>2
      <4> QED
        BY <1>2, <3>2, <4>1 DEF BoxesTell
    <3>3. ASSUME boxes[b].on, ~ boxes[b].locked PROVE b.id \in IdsOf(pick'.areas)
      <4>1. PICK c \in pick.areas : c.id = b.id
        BY <1>2, <3>3 DEF BoxesTell, IdsOf
      <4>2. c.up = b.up
        BY <2>1, <4>1 DEF Filed
      <4>3. c \in pick'.areas
        BY <1>5, <2>4, <4>1, <4>2
      <4> QED
        BY <4>1, <4>3 DEF IdsOf
    <3> QED
      BY <1>4, <1>5, <3>1, <3>2, <3>3
  <2> QED
    BY <2>2, <2>3, <2>4
<1>9. ListedTell(pick', listed')
  <2> SUFFICES ASSUME NEW x \in DOMAIN listed
               PROVE  /\ InArea(pick', x) => listed'[x].locked
                      /\ x \in pick'.projects => listed'[x].on
                      /\ listed'[x].on => x \in pick'.projects \/ InArea(pick', x)
    BY <1>5 DEF ListedTell, SameBoxes
  <2>1. CASE id \in LiesIn[x]
    <3>1. listed'[x].on /\ listed'[x].locked
      BY <1>5, <2>1, BoxIs
    <3>2. id \in IdsOf(pick'.areas)
      BY <1>1, <1>5 DEF IdsOf
    <3>3. InArea(pick', x)
      BY <2>1, <3>2 DEF InArea, IdsOf
    <3> QED
      BY <3>1, <3>3
  <2>2. CASE id \notin LiesIn[x]
    <3>1. listed'[x] = listed[x] /\ (x \in pick'.projects <=> listed'[x].on)
      BY <1>5, <2>2
    <3>2. InArea(pick', x) => InArea(pick, x)
      BY <1>4, <1>5, <1>6, <2>2 DEF InArea
    <3> QED
      BY <1>2, <3>1, <3>2 DEF ListedTell
  <2> QED
    BY <2>1, <2>2
<1> QED
  BY <1>7, <1>8, <1>9 DEF WindowTells

(* An area that is chosen is unticked: nothing else covers what it did.    *)
LEMMA UntickTells ==
  ASSUME ProjectTypeOK, Filed(pick.areas), Filed(DOMAIN boxes),
         WindowTells(pick, boxes, listed),
         NEW a \in pick.areas, NEW inPreview, UntickArea(a.id, inPreview)
  PROVE  WindowTells(pick', boxes', listed')
<1>1. PICK id \in Places3 : id = a.id
  BY PickHas DEF ProjectTypeOK
<1>2. /\ ~ Redundant(pick) /\ BoxesTell(pick, boxes) /\ ListedTell(pick, listed)
      /\ pick \in PickTypes /\ DOMAIN boxes \subseteq Areas /\ DOMAIN listed \subseteq Projects
  BY DEF WindowTells, ProjectTypeOK
<1>3. /\ ~ pick.country
      /\ \A c \in pick.areas : c.id \notin Above(id) /\ id \notin Above(c.id)
  BY <1>1, <1>2, PickHas DEF Redundant, Filed
<1>4. /\ SameBoxes
      /\ \A x \in DOMAIN listed :
           listed'[x] = IF id \in LiesIn[x] THEN Box(FALSE, FALSE) ELSE listed[x]
      /\ \A b \in DOMAIN boxes :
           \/ ~ boxes'[b].on /\ boxes'[b].locked = boxes[b].locked
           \/ b.id # id /\ id \in b.up /\ boxes'[b] = Box(FALSE, FALSE)
           \/ b.id # id /\ id \notin b.up /\ boxes'[b] = boxes[b]
      /\ pick'.country = pick.country
      /\ \A c : c \in pick'.areas <=> c \in pick.areas /\ c.id # id
      /\ \A x \in DOMAIN listed : x \in pick'.projects <=> listed'[x].on /\ id \notin LiesIn[x]
  <2>1. UntickArea(id, inPreview)
    BY <1>1
  <2> QED
    BY <2>1, UntickLeaves
<1>5. ~ Redundant(pick')
  BY <1>2, <1>3, <1>4 DEF Redundant
<1>6. BoxesTell(pick', boxes')
  <2> SUFFICES ASSUME NEW b \in DOMAIN boxes
               PROVE  /\ pick'.country \/ (\E c \in pick'.areas : c.id \in b.up) => boxes'[b].locked
                      /\ boxes'[b].on /\ ~ boxes'[b].locked => b.id \in IdsOf(pick'.areas)
    BY <1>4 DEF BoxesTell, SameBoxes
  <2>1. (\E c \in pick'.areas : c.id \in b.up) => boxes[b].locked
    BY <1>2, <1>4 DEF BoxesTell
  <2>2. CASE ~ boxes'[b].on /\ boxes'[b].locked = boxes[b].locked
    BY <1>3, <1>4, <2>1, <2>2
  <2>3. CASE b.id # id /\ id \in b.up /\ boxes'[b] = Box(FALSE, FALSE)
    <3>1. ASSUME NEW c \in pick'.areas, c.id \in b.up PROVE FALSE
      <4>1. b.id \in Places3 /\ b.up = Above(b.id)
        BY <1>2 DEF Areas, Filed
      <4>2. c \in pick.areas /\ c.id # id
        BY <1>4
      <4>3. c.id \in Above(id) \/ id \in Above(c.id)
        BY <2>3, <3>1, <4>1, <4>2, AboveInOrder
      <4> QED
        BY <1>3, <4>2, <4>3
    <3>2. ~ boxes'[b].on
      BY <2>3, BoxIs
    <3> QED
      BY <1>3, <1>4, <3>1, <3>2
  <2>4. CASE b.id # id /\ id \notin b.up /\ boxes'[b] = boxes[b]
    <3>1. boxes[b].on /\ ~ boxes[b].locked => b.id \in IdsOf(pick'.areas)
      BY <1>2, <1>4, <2>4 DEF BoxesTell, IdsOf
    <3> QED
      BY <1>3, <1>4, <2>1, <2>4, <3>1
  <2> QED
    BY <1>4, <2>2, <2>3, <2>4
<1>7. ListedTell(pick', listed')
  <2> SUFFICES ASSUME NEW x \in DOMAIN listed
               PROVE  /\ InArea(pick', x) => listed'[x].locked
                      /\ x \in pick'.projects => listed'[x].on
                      /\ listed'[x].on => x \in pick'.projects \/ InArea(pick', x)
    BY <1>4 DEF ListedTell, SameBoxes
  <2>1. CASE id \in LiesIn[x]
    <3>1. ASSUME NEW c \in pick'.areas, c.id \in LiesIn[x] PROVE FALSE
      <4>1. c \in pick.areas /\ c.id # id
        BY <1>4
      <4>2. c.id \in Above(id) \/ id \in Above(c.id)
        BY <1>2, <2>1, <3>1, <4>1, ProjectData
      <4> QED
        BY <1>3, <4>1, <4>2
    <3>2. ~ listed'[x].on /\ x \notin pick'.projects
      BY <1>4, <2>1, BoxIs
    <3> QED
      BY <1>3, <1>4, <3>1, <3>2 DEF InArea
  <2>2. CASE id \notin LiesIn[x]
    <3>1. listed'[x] = listed[x] /\ (x \in pick'.projects <=> listed'[x].on)
      BY <1>4, <2>2
    <3>2. InArea(pick', x) => InArea(pick, x)
      BY <1>4 DEF InArea
    <3> QED
      BY <1>2, <3>1, <3>2 DEF ListedTell
  <2> QED
    BY <2>1, <2>2
<1> QED
  BY <1>5, <1>6, <1>7 DEF WindowTells

Clicking ==
  \/ \E a \in DOMAIN boxes : ClickAreaBox(a)
  \/ \E a \in pick.areas : ClickAreaPreview(a)
  \/ ClickCountry
  \/ \E x \in DOMAIN listed : ClickProject(x)
  \/ \E x \in pick.projects : ClickProjectPreview(x)

(* What the box of the whole country leaves.                               *)
LEMMA CountryLeaves ==
  ASSUME ProjectTypeOK, ClickCountry
  PROVE  /\ SameBoxes
         /\ pick' \in PickTypes /\ pick'.country = ~ pick.country
         /\ pick'.areas = IF pick.country THEN pick.areas ELSE {}
         /\ pick'.projects = {}
         /\ \A x \in DOMAIN listed : listed'[x] = Box(~ pick.country, ~ pick.country)
         /\ \A a \in DOMAIN boxes : boxes'[a] = Box(~ pick.country, ~ pick.country)
         /\ \A part \in Parts : origin'[part] \in {NoArea, origin[part]}
<1>1. pick.country \in BOOLEAN /\ pick.areas \in SUBSET Areas
  BY PickHas DEF ProjectTypeOK
<1>2. PICK on \in BOOLEAN : on = ~ pick.country
  BY <1>1
<1>3. PICK as \in SUBSET Areas : as = IF on THEN {} ELSE pick.areas
  BY <1>1
<1>4. /\ listed' = [x \in DOMAIN listed |-> Box(on, on)]
      /\ boxes' = [a \in DOMAIN boxes |-> Box(on, on)]
      /\ Preview([country |-> on, areas |-> as, projects |-> {}, bare |-> {}])
  BY <1>2, <1>3 DEF ClickCountry
<1>5. Box(on, on) \in BoxTypes
  BY <1>2, BoxIs
<1>6. SameBoxes
  BY <1>4, <1>5 DEF SameBoxes
<1>7. pick' = [country |-> on, areas |-> as, projects |-> {}, bare |-> {}]
  BY <1>4, PreviewOrigin
<1>8. pick' \in PickTypes
  BY <1>2, <1>3, <1>7 DEF PickTypes
<1>9. \A part \in Parts : origin'[part] \in {NoArea, origin[part]}
  BY <1>4, PreviewOrigin
<1>10. pick'.country = on /\ pick'.areas = as /\ pick'.projects = {}
  BY <1>7
<1> QED
  BY <1>1, <1>2, <1>3, <1>4, <1>6, <1>8, <1>9, <1>10

(* The box of one project, and of none but that one, is turned.            *)
LEMMA ProjectLeaves ==
  ASSUME ProjectTypeOK, NEW x \in DOMAIN listed, ClickProject(x)
  PROVE  /\ SameBoxes /\ boxes' = boxes
         /\ pick' \in PickTypes /\ pick'.country = pick.country /\ pick'.areas = pick.areas
         /\ ~ listed[x].locked
         /\ \A y \in DOMAIN listed : /\ y # x => listed'[y] = listed[y]
                                     /\ y \in pick'.projects <=> listed'[y].on
         /\ \A part \in Parts : origin'[part] \in {NoArea, origin[part]}
<1>1. /\ listed[x] \in BoxTypes /\ listed \in [DOMAIN listed -> BoxTypes]
      /\ DOMAIN listed \subseteq Projects
  BY DEF ProjectTypeOK
<1>2. PICK b \in BoxTypes : b = Box(~ listed[x].on, FALSE)
  BY <1>1, BoxIs DEF BoxTypes
<1>3. /\ listed' = [listed EXCEPT ![x] = b]
      /\ Preview(CheckProjects(pick, listed'))
      /\ boxes' = boxes /\ ~ listed[x].locked
  BY <1>2 DEF ClickProject
<1>4. /\ DOMAIN listed' = DOMAIN listed /\ listed' \in [DOMAIN listed -> BoxTypes]
      /\ \A y \in DOMAIN listed : y # x => listed'[y] = listed[y]
  BY <1>1, <1>2, <1>3
<1>5. SameBoxes
  BY <1>3, <1>4 DEF SameBoxes, ProjectTypeOK
<1>6. /\ pick' = CheckProjects(pick, listed')
      /\ \A part \in Parts : origin'[part] \in {NoArea, origin[part]}
  BY <1>3, PreviewOrigin
<1>7. /\ pick' \in PickTypes /\ pick'.country = pick.country /\ pick'.areas = pick.areas
      /\ \A y \in DOMAIN listed : y \in pick'.projects <=> listed'[y].on
  BY <1>1, <1>4, <1>6, ProjectsChecked DEF ProjectTypeOK
<1> QED
  BY <1>3, <1>4, <1>5, <1>6, <1>7

(* A project is taken out of the preview.                                  *)
LEMMA ProjectPreviewLeaves ==
  ASSUME ProjectTypeOK, NEW x \in pick.projects, ClickProjectPreview(x)
  PROVE  /\ SameBoxes /\ boxes' = boxes
         /\ pick' \in PickTypes /\ pick'.country = pick.country /\ pick'.areas = pick.areas
         /\ \A y \in DOMAIN listed : /\ listed'[y].locked = listed[y].locked
                                     /\ y # x => listed'[y] = listed[y]
                                     /\ y = x => ~ listed'[y].on
                                     /\ y \in pick'.projects <=> listed'[y].on
         /\ \A part \in Parts : origin'[part] \in {NoArea, origin[part]}
<1>1. /\ listed \in [DOMAIN listed -> BoxTypes] /\ DOMAIN listed \subseteq Projects
      /\ pick \in PickTypes
  BY DEF ProjectTypeOK
<1>2. PICK p : p = WithProjects(pick, pick.projects \ {x})
  OBVIOUS
<1>3. p \in PickTypes /\ p.areas = pick.areas /\ p.country = pick.country
  <2>1. pick.projects \ {x} \in SUBSET Projects
    BY <1>1, PickHas
  <2> QED
    BY <1>1, <1>2, <2>1, WithThem
<1>4. /\ listed' = [y \in DOMAIN listed |->
                      IF y = x THEN Box(FALSE, listed[y].locked) ELSE listed[y]]
      /\ Preview(CheckProjects(p, listed'))
      /\ boxes' = boxes
  BY <1>2 DEF ClickProjectPreview
<1>5. \A y \in DOMAIN listed : /\ listed'[y] \in BoxTypes
                               /\ listed'[y].locked = listed[y].locked
                               /\ y # x => listed'[y] = listed[y]
                               /\ y = x => ~ listed'[y].on
  BY <1>1, <1>4, BoxIs DEF BoxTypes
<1>6. DOMAIN listed' = DOMAIN listed /\ listed' \in [DOMAIN listed -> BoxTypes]
  BY <1>4, <1>5
<1>7. SameBoxes
  BY <1>4, <1>6 DEF SameBoxes, ProjectTypeOK
<1>8. /\ pick' = CheckProjects(p, listed')
      /\ \A part \in Parts : origin'[part] \in {NoArea, origin[part]}
  BY <1>4, PreviewOrigin
<1>9. /\ pick' \in PickTypes /\ pick'.country = pick.country /\ pick'.areas = pick.areas
      /\ \A y \in DOMAIN listed : y \in pick'.projects <=> listed'[y].on
  BY <1>1, <1>3, <1>6, <1>8, ProjectsChecked
<1> QED
  BY <1>4, <1>5, <1>7, <1>8, <1>9

(* What every click leaves alone, and where its areas come from.           *)
LEMMA ClickLeaves ==
  ASSUME ProjectTypeOK, Clicking
  PROVE  /\ SameBoxes /\ pick' \in PickTypes
         /\ pick'.areas \subseteq pick.areas \cup DOMAIN boxes
         /\ UNCHANGED <<editor, search, options, calls, stored, mixed>>
         /\ \A part \in Parts : origin'[part] \in {NoArea, origin[part]}
<1>1. UNCHANGED <<editor, search, options, calls, stored, mixed>>
  BY DEF Clicking, ClickAreaBox, ClickAreaPreview, ClickCountry, ClickProject, ClickProjectPreview
<1>2. ASSUME NEW id \in Places3, TickArea(id)
      PROVE  /\ SameBoxes /\ pick' \in PickTypes
             /\ pick'.areas \subseteq pick.areas \cup DOMAIN boxes
             /\ \A part \in Parts : origin'[part] \in {NoArea, origin[part]}
  BY <1>2, TickLeaves
<1>3. ASSUME NEW id \in Places3, NEW inPreview, UntickArea(id, inPreview)
      PROVE  /\ SameBoxes /\ pick' \in PickTypes
             /\ pick'.areas \subseteq pick.areas \cup DOMAIN boxes
             /\ \A part \in Parts : origin'[part] \in {NoArea, origin[part]}
  BY <1>3, UntickLeaves
<1>4. ASSUME NEW a \in DOMAIN boxes, ClickAreaBox(a)
      PROVE  /\ SameBoxes /\ pick' \in PickTypes
             /\ pick'.areas \subseteq pick.areas \cup DOMAIN boxes
             /\ \A part \in Parts : origin'[part] \in {NoArea, origin[part]}
  <2>1. a.id \in Places3
    BY DEF ProjectTypeOK, Areas
  <2>2. TickArea(a.id) \/ UntickArea(a.id, FALSE)
    BY <1>4 DEF ClickAreaBox
  <2> QED
    BY <1>2, <1>3, <2>1, <2>2
<1>5. ASSUME NEW a \in pick.areas, ClickAreaPreview(a)
      PROVE  /\ SameBoxes /\ pick' \in PickTypes
             /\ pick'.areas \subseteq pick.areas \cup DOMAIN boxes
             /\ \A part \in Parts : origin'[part] \in {NoArea, origin[part]}
  <2>1. a.id \in Places3
    BY PickHas DEF ProjectTypeOK
  <2>2. UntickArea(a.id, TRUE)
    BY <1>5 DEF ClickAreaPreview
  <2> QED
    BY <1>3, <2>1, <2>2
<1> QED
  BY <1>1, <1>4, <1>5, CountryLeaves, ProjectLeaves, ProjectPreviewLeaves DEF Clicking

(* After every click the boxes tell the truth about the preview.           *)
LEMMA ClickTells ==
  ASSUME ProjectTypeOK, Filed(pick.areas), Filed(DOMAIN boxes),
         WindowTells(pick, boxes, listed), Clicking
  PROVE  WindowTells(pick', boxes', listed')
<1>1. /\ ~ Redundant(pick) /\ BoxesTell(pick, boxes) /\ ListedTell(pick, listed)
      /\ pick \in PickTypes
  BY DEF WindowTells, ProjectTypeOK
<1>2. ASSUME NEW a \in DOMAIN boxes, ClickAreaBox(a)
      PROVE  WindowTells(pick', boxes', listed')
  <2>1. CASE boxes[a].on
    <3>1. UntickArea(a.id, FALSE) /\ ~ boxes[a].locked
      BY <1>2, <2>1 DEF ClickAreaBox
    <3>2. PICK b \in pick.areas : b.id = a.id
      BY <1>1, <2>1, <3>1 DEF BoxesTell, IdsOf
    <3>3. UntickArea(b.id, FALSE)
      BY <3>1, <3>2
    <3> QED
      BY <3>3, UntickTells
  <2>2. CASE ~ boxes[a].on
    <3>1. TickArea(a.id) /\ ~ boxes[a].locked
      BY <1>2, <2>2 DEF ClickAreaBox
    <3> QED
      BY <3>1, TickTells
  <2> QED
    BY <2>1, <2>2
<1>3. ASSUME NEW a \in pick.areas, ClickAreaPreview(a)
      PROVE  WindowTells(pick', boxes', listed')
  <2>1. UntickArea(a.id, TRUE)
    BY <1>3 DEF ClickAreaPreview
  <2> QED
    BY <2>1, UntickTells
<1>4. ASSUME ClickCountry
      PROVE  WindowTells(pick', boxes', listed')
  <2>1. pick.country \in BOOLEAN /\ (pick.country => pick.areas = {})
    BY <1>1, PickHas DEF Redundant
  <2>2. pick'.areas = {} /\ pick'.projects = {} /\ pick'.country = ~ pick.country
    BY <1>4, <2>1, CountryLeaves
  <2>3. ~ Redundant(pick')
    BY <2>2 DEF Redundant
  <2>4. \A a \in DOMAIN boxes : boxes'[a].on = ~ pick.country /\ boxes'[a].locked = ~ pick.country
    BY <1>4, <2>1, CountryLeaves, BoxIs
  <2>5. \A x \in DOMAIN listed : listed'[x].on = ~ pick.country /\ listed'[x].locked = ~ pick.country
    BY <1>4, <2>1, CountryLeaves, BoxIs
  <2>6. DOMAIN boxes' = DOMAIN boxes /\ DOMAIN listed' = DOMAIN listed
    BY <1>4, CountryLeaves DEF SameBoxes
  <2>7. BoxesTell(pick', boxes')
    BY <2>1, <2>2, <2>4, <2>6 DEF BoxesTell
  <2>8. ListedTell(pick', listed')
    BY <2>1, <2>2, <2>5, <2>6 DEF ListedTell, InArea
  <2> QED
    BY <2>3, <2>7, <2>8 DEF WindowTells
<1>5. ASSUME NEW x \in DOMAIN listed, ClickProject(x)
      PROVE  WindowTells(pick', boxes', listed')
  <2>1. /\ SameBoxes /\ boxes' = boxes
        /\ pick'.country = pick.country /\ pick'.areas = pick.areas
        /\ ~ listed[x].locked
        /\ \A y \in DOMAIN listed : /\ y # x => listed'[y] = listed[y]
                                    /\ y \in pick'.projects <=> listed'[y].on
    BY <1>5, ProjectLeaves
  <2>2. ~ Redundant(pick') /\ BoxesTell(pick', boxes')
    BY <1>1, <2>1 DEF Redundant, BoxesTell
  <2>3. \A y : InArea(pick', y) <=> InArea(pick, y)
    BY <2>1 DEF InArea
  <2>4. ListedTell(pick', listed')
    BY <1>1, <2>1, <2>3 DEF ListedTell, SameBoxes
  <2> QED
    BY <2>2, <2>4 DEF WindowTells
<1>6. ASSUME NEW x \in pick.projects, ClickProjectPreview(x)
      PROVE  WindowTells(pick', boxes', listed')
  <2>1. /\ SameBoxes /\ boxes' = boxes
        /\ pick'.country = pick.country /\ pick'.areas = pick.areas
        /\ \A y \in DOMAIN listed : /\ listed'[y].locked = listed[y].locked
                                    /\ y \in pick'.projects <=> listed'[y].on
    BY <1>6, ProjectPreviewLeaves
  <2>2. ~ Redundant(pick') /\ BoxesTell(pick', boxes')
    BY <1>1, <2>1 DEF Redundant, BoxesTell
  <2>3. \A y : InArea(pick', y) <=> InArea(pick, y)
    BY <2>1 DEF InArea
  <2>4. ListedTell(pick', listed')
    BY <1>1, <2>1, <2>3 DEF ListedTell, SameBoxes
  <2> QED
    BY <2>2, <2>4 DEF WindowTells
<1> QED
  BY <1>2, <1>3, <1>4, <1>5, <1>6 DEF Clicking

-----------------------------------------------------------------------------
(* The result of a query.                                                  *)

(* What the select boxes may be set to.                                    *)
LEMMA SearchHas ==
  ASSUME ProjectTypeOK
  PROVE  /\ search.province \in Provinces \cup {NoArea} /\ search.city \in Cities \cup {NoArea}
         /\ search.county \in Counties \cup {NoArea}
         /\ options.cities \subseteq Cities /\ options.counties \subseteq Counties
  BY DEF ProjectTypeOK, Searches

(* The areas they name.                                                    *)
LEMMA SearchedAre ==
  ASSUME ProjectTypeOK
  PROVE  /\ SearchedAreas \subseteq Areas
         /\ \A a \in SearchedAreas :
              /\ search.province # NoArea
              /\ \/ a.id = search.province /\ a.up = {}
                 \/ a.id = search.city /\ search.city # NoArea /\ a.up = {search.province}
                 \/ /\ a.id = search.county /\ search.county # NoArea
                    /\ a.up = {search.province} \cup ({search.city} \ {NoArea})
<1>1. PICK up : up = {search.province} \cup ({search.city} \ {NoArea})
  OBVIOUS
<1>2. SUFFICES ASSUME NEW a \in SearchedAreas
      PROVE  /\ a \in Areas /\ search.province # NoArea
             /\ \/ a.id = search.province /\ a.up = {}
                \/ a.id = search.city /\ search.city # NoArea /\ a.up = {search.province}
                \/ a.id = search.county /\ search.county # NoArea /\ a.up = up
  BY <1>1
<1>3. /\ search.province # NoArea
      /\ \/ a = Area(search.province, {})
         \/ a = Area(search.city, {search.province}) /\ search.city # NoArea
         \/ a = Area(search.county, up) /\ search.county # NoArea
  BY <1>1 DEF SearchedAreas
<1>4. search.province \in Places3 /\ up \subseteq Places3
  BY <1>1, <1>3, SearchHas DEF Places3
<1>5. CASE a = Area(search.province, {})
  BY <1>3, <1>4, <1>5 DEF Area, Areas
<1>6. CASE a = Area(search.city, {search.province}) /\ search.city # NoArea
  <2>1. search.city \in Places3
    BY <1>6, SearchHas DEF Places3
  <2> QED
    BY <1>3, <1>4, <1>6, <2>1 DEF Area, Areas
<1>7. CASE a = Area(search.county, up) /\ search.county # NoArea
  <2>1. search.county \in Places3
    BY <1>7, SearchHas DEF Places3
  <2> QED
    BY <1>3, <1>4, <1>7, <2>1 DEF Area, Areas
<1> QED
  BY <1>3, <1>5, <1>6, <1>7

(* Their boxes tell the truth when they are displayed.                     *)
LEMMA AreaBoxesTyped ==
  ASSUME ProjectTypeOK
  PROVE  /\ DOMAIN AreaBoxes = SearchedAreas
         /\ AreaBoxes \in [SearchedAreas -> BoxTypes]
         /\ BoxesTell(pick, AreaBoxes)
<1>1. pick.country \in BOOLEAN
  BY PickHas DEF ProjectTypeOK
<1>2. \A a : AreaBox(a) \in BoxTypes /\
        /\ AreaBox(a).locked <=> pick.country \/ a.up \cap IdsOf(pick.areas) # {}
        /\ AreaBox(a).on <=> AreaBox(a).locked \/ a.id \in IdsOf(pick.areas)
  <2> SUFFICES ASSUME NEW a
               PROVE  AreaBox(a) \in BoxTypes /\
                        /\ AreaBox(a).locked <=> pick.country \/ a.up \cap IdsOf(pick.areas) # {}
                        /\ AreaBox(a).on <=> AreaBox(a).locked \/ a.id \in IdsOf(pick.areas)
    OBVIOUS
  <2>1. PICK below \in BOOLEAN : below = (pick.country \/ a.up \cap IdsOf(pick.areas) # {})
    OBVIOUS
  <2>2. PICK on \in BOOLEAN : on = (below \/ a.id \in IdsOf(pick.areas))
    OBVIOUS
  <2>3. AreaBox(a) = Box(on, below)
    BY <2>1, <2>2 DEF AreaBox
  <2>4. /\ AreaBox(a) \in BoxTypes /\ AreaBox(a).on = on /\ AreaBox(a).locked = below
    BY <2>3, BoxIs
  <2> QED
    BY <2>1, <2>2, <2>4
<1>3. /\ DOMAIN AreaBoxes = SearchedAreas /\ AreaBoxes \in [SearchedAreas -> BoxTypes]
      /\ \A a \in SearchedAreas : AreaBoxes[a] = AreaBox(a)
  BY <1>2 DEF AreaBoxes
<1>4. \A a : pick.country \/ (\E b \in pick.areas : b.id \in a.up) => AreaBox(a).locked
  BY <1>2 DEF IdsOf
<1>5. BoxesTell(pick, AreaBoxes)
  BY <1>2, <1>3, <1>4 DEF BoxesTell
<1> QED
  BY <1>3, <1>5

(* As long as the lists are those of what is chosen above them.            *)
LEMMA SearchedFiled ==
  ASSUME ProjectTypeOK,
         search.city # NoArea => Parent[search.city] = search.province,
         search.county # NoArea => Parent[search.county] = search.city
  PROVE  Filed(SearchedAreas)
<1> SUFFICES ASSUME NEW a \in SearchedAreas
             PROVE  a.up = Above(a.id)
  BY DEF Filed
<1>1. search.province \in Provinces
  BY SearchedAre, SearchHas
<1>2. CASE a.id = search.province /\ a.up = {}
  BY <1>1, <1>2, AreasAbove
<1>3. CASE a.id = search.city /\ search.city # NoArea /\ a.up = {search.province}
  BY <1>3, SearchHas, AreasAbove
<1>4. CASE /\ a.id = search.county /\ search.county # NoArea
           /\ a.up = {search.province} \cup ({search.city} \ {NoArea})
  <2>1. search.county \in Counties /\ Parent[search.county] = search.city
    BY <1>4, SearchHas
  <2>2. search.city \in Cities /\ search.city # NoArea
    BY <2>1, Geography, AreasAbove
  <2>3. Parent[search.city] = search.province
    BY <2>2
  <2> QED
    BY <1>4, <2>1, <2>2, <2>3, AreasAbove
<1> QED
  BY <1>2, <1>3, <1>4, SearchedAre

(* So do the boxes of the projects found.                                  *)
LEMMA ProjectsFound ==
  ASSUME ProjectTypeOK, NEW s
  PROVE  LET bs == [x \in Found(s) |-> FoundBox(x)]
         IN /\ DOMAIN bs \subseteq Projects /\ bs \in [DOMAIN bs -> BoxTypes]
            /\ ListedTell(pick, bs)
<1>1. PICK bs : bs = [x \in Found(s) |-> FoundBox(x)]
  OBVIOUS
<1>2. pick.country \in BOOLEAN
  BY PickHas DEF ProjectTypeOK
<1>3. \A x : FoundBox(x) \in BoxTypes /\
        /\ FoundBox(x).locked <=> InArea(pick, x)
        /\ FoundBox(x).on <=> InArea(pick, x) \/ x \in pick.projects
  <2> SUFFICES ASSUME NEW x
               PROVE  FoundBox(x) \in BoxTypes /\
                        /\ FoundBox(x).locked <=> InArea(pick, x)
                        /\ FoundBox(x).on <=> InArea(pick, x) \/ x \in pick.projects
    OBVIOUS
  <2>1. PICK inArea \in BOOLEAN : inArea = (pick.country \/ LiesIn[x] \cap IdsOf(pick.areas) # {})
    OBVIOUS
  <2>2. PICK on \in BOOLEAN : on = (inArea \/ x \in pick.projects)
    OBVIOUS
  <2>3. FoundBox(x) = Box(on, inArea)
    BY <2>1, <2>2 DEF FoundBox
  <2>4. FoundBox(x) \in BoxTypes /\ FoundBox(x).on = on /\ FoundBox(x).locked = inArea
    BY <2>3, BoxIs
  <2>5. inArea <=> InArea(pick, x)
    BY <2>1 DEF InArea, IdsOf
  <2> QED
    BY <2>2, <2>4, <2>5
<1>4. /\ DOMAIN bs = Found(s) /\ Found(s) \subseteq Projects
      /\ \A x \in Found(s) : bs[x] = FoundBox(x)
      /\ bs \in [DOMAIN bs -> BoxTypes]
  BY <1>1, <1>3 DEF Found
<1>5. ListedTell(pick, bs)
  BY <1>3, <1>4 DEF ListedTell
<1> QED
  BY <1>1, <1>4, <1>5

-----------------------------------------------------------------------------
(* The steps.                                                              *)

(* The invariant holds when the page is loaded.                            *)
LEMMA ProjectsInitially == ProjectInit => ProjectInv
<1> SUFFICES ASSUME ProjectInit
             PROVE  ProjectInv
  OBVIOUS
<1> USE DEF ProjectInit
<1>1. \A u \in Editors : /\ stored[u] \in PickTypes /\ ~ Redundant(stored[u])
                         /\ Filed(stored[u].areas)
  <2> SUFFICES ASSUME NEW s \in Stored
               PROVE  s \in PickTypes /\ ~ Redundant(s) /\ Filed(s.areas)
    OBVIOUS
  <2>1. /\ s \in [country : BOOLEAN, areas : SUBSET {Area(id, Above(id)) : id \in Places3},
                  projects : SUBSET Projects, bare : {{}}]
        /\ ~ Redundant(s)
    BY ProjectData
  <2>2. \A a \in s.areas : \E id \in Places3 : a = Area(id, Above(id))
    BY <2>1
  <2>3. \A a \in s.areas : a \in Areas /\ a.up = Above(a.id)
    BY <2>2, AreasAbove DEF Area, Areas
  <2>4. s \in PickTypes
    BY <2>1, <2>3 DEF PickTypes
  <2> QED
    BY <2>1, <2>3, <2>4 DEF Filed
<1>2. /\ DOMAIN listed = {} /\ listed \in [DOMAIN listed -> BoxTypes]
      /\ DOMAIN boxes = {} /\ boxes \in [DOMAIN boxes -> BoxTypes]
  BY DEF NoBoxes
<1>3. calls \in Seq(Asked) /\ DOMAIN calls = {}
  OBVIOUS
<1>4. search \in Searches /\ options \in [cities : SUBSET Cities, counties : SUBSET Counties]
  BY DEF NoSearch, NoOptions, Searches
<1>5. stored \in [Editors -> PickTypes]
  BY <1>1
<1>6. ProjectTypeOK
  BY <1>2, <1>3, <1>4, <1>5, EmptyPick DEF ProjectTypeOK
<1>7. OwnInv
  BY <1>3 DEF OwnInv, OwnCalls, OwnShown, OnlyOne
<1>8. ListsInv
  BY <1>3 DEF ListsInv, ListsRight, ListCallsRight, CitiesRight, CountiesRight, OnlyOne, NoSearch,
                NoOptions
<1>9. FiledInv
  BY <1>1, <1>2, <1>3, EmptyPick DEF FiledInv, Filed
<1>10. TicksInv
  BY <1>1, <1>2, <1>3, EmptyPick DEF TicksInv, NoneRedundant, BoxesTell, ListedTell
<1> QED
  BY <1>6, <1>7, <1>8, <1>9, <1>10 DEF ProjectInv

(* One more request, with nothing or with the preview.                     *)
Asking(c) == c \in Asked /\ calls' = Append(calls, c)

(* A request with its kind, what it asks about, and what it sends.         *)
LEMMA Request ==
  ASSUME NEW kind \in {"user", "cities", "counties", "query", "commit"},
         NEW of \in Editors \cup Places3 \cup {NoArea} \cup Searches, NEW with \in PickTypes,
         kind = "user" => of \in Editors, kind = "cities" => of \in Provinces,
         kind = "counties" => of \in Cities,
         calls' = Append(calls, [kind |-> kind, of |-> of, with |-> with])
  PROVE  \E c : Asking(c) /\ c.kind = kind /\ c.of = of /\ c.with = with
<1>1. PICK c : c = [kind |-> kind, of |-> of, with |-> with]
  OBVIOUS
<1>2. c \in Asked
  BY <1>1 DEF Asked, Asks, CallTypes
<1>3. Asking(c)
  BY <1>1, <1>2 DEF Asking
<1> QED
  BY <1>1, <1>3

(* Opening the window asks for the data of the user.                       *)
LEMMA SetUserAsks ==
  ASSUME ProjectTypeOK, NEW u \in Editors, SetUserProject(u)
  PROVE  \E c : Asking(c) /\ c.kind = "user" /\ c.of = u /\ c.with = NothingPicked
  BY EmptyPick, Request DEF SetUserProject, Call

(* Choosing a province asks for its cities.                                *)
LEMMA ProvinceAsks ==
  ASSUME ProjectTypeOK, NEW p \in Provinces, p # NoArea, SelectProvince(p)
  PROVE  \E c : Asking(c) /\ c.kind = "cities" /\ c.of = p /\ c.with = NothingPicked
  BY EmptyPick, Request DEF SelectProvince, Call, Places3

(* Choosing a city asks for its county-level cities.                       *)
LEMMA CityAsks ==
  ASSUME ProjectTypeOK, NEW k \in Cities, k # NoArea, SelectCity(k)
  PROVE  \E c : Asking(c) /\ c.kind = "counties" /\ c.of = k /\ c.with = NothingPicked
  BY EmptyPick, Request DEF SelectCity, Call, Places3

(* A query asks about what the select boxes are set to.                    *)
LEMMA QueryAsks ==
  ASSUME ProjectTypeOK, QueryProject
  PROVE  \E c : Asking(c) /\ c.kind = "query" /\ c.with = NothingPicked
  BY EmptyPick, Request DEF QueryProject, Call, ProjectTypeOK

(* A commit sends the preview, or the whole country.                       *)
LEMMA CommitAsks ==
  ASSUME ProjectTypeOK, CommitUserProject
  PROVE  \E c : /\ Asking(c) /\ c.kind = "commit" /\ c.with.areas \subseteq pick.areas
                /\ ~ Redundant(pick) => ~ Redundant(c.with)
<1>1. PICK with : with = IF pick.country THEN [NothingPicked EXCEPT !.country = TRUE]
                         ELSE [pick EXCEPT !.bare = {}]
  OBVIOUS
<1>2. /\ with \in PickTypes /\ with.areas \subseteq pick.areas
      /\ pick.country => with.areas = {}
      /\ ~ pick.country => with.areas = pick.areas /\ with.country = pick.country
  BY <1>1 DEF NothingPicked, PickTypes, ProjectTypeOK
<1>3. ~ Redundant(pick) => ~ Redundant(with)
  BY <1>2 DEF Redundant
<1>4. calls' = Append(calls, [kind |-> "commit", of |-> editor, with |-> with])
  BY <1>1 DEF CommitUserProject, Call
<1>5. \E c : Asking(c) /\ c.kind = "commit" /\ c.of = editor /\ c.with = with
  BY <1>2, <1>4, Request DEF ProjectTypeOK
<1> QED
  BY <1>2, <1>3, <1>5

(* A request that is sent, by its kind.                                    *)
LEMMA AskedOnce ==
  ASSUME calls \in Seq(Asked), NEW c, Asking(c)
  PROVE  /\ calls' \in Seq(Asked)
         /\ \A i \in DOMAIN calls' : calls'[i] = c \/ \E j \in DOMAIN calls : calls'[i] = calls[j]
         /\ \A K : /\ c.kind \notin K => (Pending(calls', K) <=> Pending(calls, K))
                   /\ c.kind \notin K => (OnlyOne(calls, K) => OnlyOne(calls', K))
                   /\ ~ Pending(calls, K) => OnlyOne(calls', K)
                   /\ c.kind \in K => Pending(calls', K)
<1>1. calls' = Append(calls, c) /\ c \in Asked
  BY DEF Asking
<1> QED
  BY <1>1, CallAdded, CallAddedKinds

(* A request that is answered, by its kind.                                *)
LEMMA Answered ==
  ASSUME calls \in Seq(Asked), NEW i \in DOMAIN calls, CallDone(i)
  PROVE  /\ editor' = editor
         /\ calls' \in Seq(Asked)
         /\ \A j \in DOMAIN calls' : \E k \in DOMAIN calls : calls'[j] = calls[k]
         /\ \A K : /\ Pending(calls', K) => Pending(calls, K)
                   /\ calls[i].kind \notin K => (Pending(calls', K) <=> Pending(calls, K))
                   /\ OnlyOne(calls, K) => OnlyOne(calls', K)
                   /\ calls[i].kind \in K /\ OnlyOne(calls, K) => ~ Pending(calls', K)
<1>1. calls' = RemoveAt(calls, i) /\ editor' = editor
  BY DEF CallDone
<1> QED
  BY <1>1, CallAnswered

(* A request under way, and what it asks about.                            *)
LEMMA CallHas ==
  ASSUME ProjectTypeOK, NEW i \in DOMAIN calls
  PROVE  /\ calls[i].with \in PickTypes
         /\ calls[i].kind = "user" => calls[i].of \in Editors
         /\ calls[i].kind = "cities" => calls[i].of \in Provinces
         /\ calls[i].kind = "counties" => calls[i].of \in Cities
<1>1. calls[i] \in Asked
  BY DEF ProjectTypeOK
<1> QED
  BY <1>1 DEF Asked, Asks, CallTypes

(* The data of a user with what stayed in the preview.                     *)
LEMMA UserShown ==
  ASSUME ProjectTypeOK, NEW i \in DOMAIN calls, calls[i].kind = "user", ShowUserProjects(i)
  PROVE  /\ pick' \in PickTypes
         /\ pick'.areas \subseteq pick.areas \cup stored[calls[i].of].areas
         /\ \A part \in Parts : origin'[part] \in {calls[i].of, origin[part]}
<1>1. PICK s \in PickTypes : s = stored[calls[i].of]
  BY CallHas DEF ProjectTypeOK
<1>2. PICK new : new = IF s.country THEN {"country"} ELSE {part \in Parts : Holds(s, part)}
  OBVIOUS
<1>3. PICK as : as = {a \in pick.areas : LevelOf(a.id) \notin new}
                       \cup {a \in s.areas : LevelOf(a.id) \in new}
  OBVIOUS
<1>4. PICK country : country = (pick.country \/ s.country)
  OBVIOUS
<1>5. PICK ps : ps = IF "projects" \in new THEN s.projects ELSE pick.projects
  OBVIOUS
<1>6. PICK bare : bare = IF "projects" \in new THEN s.projects ELSE pick.bare
  OBVIOUS
<1>7. /\ pick' = [country |-> country, areas |-> as, projects |-> ps, bare |-> bare]
      /\ origin' = [part \in Parts |-> IF part \in new THEN calls[i].of ELSE origin[part]]
  BY <1>1, <1>2, <1>3, <1>4, <1>5, <1>6, Zenon DEF ShowUserProjects
<1>8. country \in BOOLEAN /\ as \in SUBSET Areas /\ ps \in SUBSET Projects /\ bare \in SUBSET Projects
  BY <1>1, <1>3, <1>4, <1>5, <1>6, PickHas DEF ProjectTypeOK
<1>9. pick' \in PickTypes /\ pick'.areas = as
  BY <1>7, <1>8 DEF PickTypes
<1> QED
  BY <1>1, <1>3, <1>7, <1>9

(* The types are kept.                                                     *)
LEMMA TypesStep == ProjectTypeOK /\ ProjectNext => ProjectTypeOK'
<1> SUFFICES ASSUME ProjectTypeOK, ProjectNext
             PROVE  ProjectTypeOK'
  OBVIOUS
<1>0. /\ editor \in Editors \cup {NoArea} /\ pick \in PickTypes
      /\ DOMAIN listed \subseteq Projects /\ listed \in [DOMAIN listed -> BoxTypes]
      /\ DOMAIN boxes \subseteq Areas /\ boxes \in [DOMAIN boxes -> BoxTypes]
      /\ search \in Searches
      /\ options \in [cities : SUBSET Cities, counties : SUBSET Counties]
      /\ calls \in Seq(Asked) /\ stored \in [Editors -> PickTypes]
  BY DEF ProjectTypeOK
<1>1. ASSUME NEW u \in Editors, SetUserProject(u) PROVE ProjectTypeOK'
  <2>1. calls' \in Seq(Asked)
    BY <1>0, <1>1, SetUserAsks, AskedOnce
  <2>2. pick' = SetEmpty(pick)
    BY <1>1, PreviewOrigin DEF SetUserProject
  <2>3. pick' \in PickTypes
    BY <1>0, <2>2, Emptied
  <2>4. /\ DOMAIN listed' = {} /\ listed' \in [DOMAIN listed' -> BoxTypes]
        /\ DOMAIN boxes' = {} /\ boxes' \in [DOMAIN boxes' -> BoxTypes]
    BY <1>1 DEF SetUserProject, NoBoxes
  <2>5. search' \in Searches /\ options' \in [cities : SUBSET Cities, counties : SUBSET Counties]
    BY <1>1 DEF SetUserProject, NoSearch, NoOptions, Searches
  <2>6. editor' = u /\ stored' = stored
    BY <1>1 DEF SetUserProject
  <2> QED
    BY <1>0, <2>1, <2>3, <2>4, <2>5, <2>6 DEF ProjectTypeOK
<1>2. ASSUME CloseWindow PROVE ProjectTypeOK'
  BY <1>0, <1>2 DEF CloseWindow, ProjectTypeOK
<1>3. ASSUME NEW p \in Provinces \cup {NoArea}, SelectProvince(p) PROVE ProjectTypeOK'
  <2>1. UNCHANGED <<editor, pick, listed, boxes, stored>>
    BY <1>3 DEF SelectProvince
  <2>2. CASE p = NoArea
    <3>1. search' = NoSearch /\ options' = NoOptions /\ calls' = calls
      BY <1>3, <2>2 DEF SelectProvince
    <3>2. search' \in Searches /\ options' \in [cities : SUBSET Cities, counties : SUBSET Counties]
      BY <3>1 DEF NoSearch, NoOptions, Searches
    <3> QED
      BY <1>0, <2>1, <3>1, <3>2 DEF ProjectTypeOK
  <2>3. CASE p # NoArea
    <3>1. calls' \in Seq(Asked)
      BY <1>0, <1>3, <2>3, ProvinceAsks, AskedOnce
    <3>2. search' = [search EXCEPT !.province = p] /\ options' = options
      BY <1>3, <2>3 DEF SelectProvince
    <3>3. search' \in Searches
      BY <1>0, <3>2 DEF Searches
    <3> QED
      BY <1>0, <2>1, <3>1, <3>2, <3>3 DEF ProjectTypeOK
  <2> QED
    BY <2>2, <2>3
<1>4. ASSUME NEW c \in options.cities \cup {NoArea}, SelectCity(c) PROVE ProjectTypeOK'
  <2>1. UNCHANGED <<editor, pick, listed, boxes, stored>>
    BY <1>4 DEF SelectCity
  <2>2. CASE c = NoArea
    <3>1. /\ search' = [search EXCEPT !.city = NoArea, !.county = NoArea]
          /\ options' = [options EXCEPT !.counties = {}] /\ calls' = calls
      BY <1>4, <2>2 DEF SelectCity
    <3>2. search' \in Searches /\ options' \in [cities : SUBSET Cities, counties : SUBSET Counties]
      BY <1>0, <3>1 DEF Searches
    <3> QED
      BY <1>0, <2>1, <3>1, <3>2 DEF ProjectTypeOK
  <2>3. CASE c # NoArea
    <3>1. c \in Cities
      BY <2>3, SearchHas
    <3>2. calls' \in Seq(Asked)
      BY <1>0, <1>4, <2>3, <3>1, CityAsks, AskedOnce
    <3>3. search' = [search EXCEPT !.city = c] /\ options' = options
      BY <1>4, <2>3 DEF SelectCity
    <3>4. search' \in Searches
      BY <1>0, <3>1, <3>3 DEF Searches
    <3> QED
      BY <1>0, <2>1, <3>2, <3>3, <3>4 DEF ProjectTypeOK
  <2> QED
    BY <2>2, <2>3
<1>5. ASSUME NEW k \in options.counties \cup {NoArea}, SelectCounty(k) PROVE ProjectTypeOK'
  <2>1. /\ UNCHANGED <<editor, pick, listed, boxes, options, calls, stored>>
        /\ search' = [search EXCEPT !.county = k]
    BY <1>5 DEF SelectCounty
  <2>2. search' \in Searches
    BY <1>0, <2>1, SearchHas DEF Searches
  <2> QED
    BY <1>0, <2>1, <2>2 DEF ProjectTypeOK
<1>6. ASSUME QueryProject PROVE ProjectTypeOK'
  <2>1. calls' \in Seq(Asked)
    BY <1>0, <1>6, QueryAsks, AskedOnce
  <2>2. UNCHANGED <<editor, pick, listed, boxes, search, options, stored>>
    BY <1>6 DEF QueryProject
  <2> QED
    BY <1>0, <2>1, <2>2 DEF ProjectTypeOK
<1>7. ASSUME Clicking PROVE ProjectTypeOK'
  <2>1. /\ SameBoxes /\ pick' \in PickTypes
        /\ UNCHANGED <<editor, search, options, calls, stored, mixed>>
    BY <1>7, ClickLeaves
  <2> QED
    BY <1>0, <2>1 DEF ProjectTypeOK, SameBoxes
<1>8. ASSUME CommitUserProject PROVE ProjectTypeOK'
  <2>1. calls' \in Seq(Asked)
    BY <1>0, <1>8, CommitAsks, AskedOnce
  <2>2. UNCHANGED <<editor, pick, listed, boxes, search, options, stored>>
    BY <1>8 DEF CommitUserProject
  <2> QED
    BY <1>0, <2>1, <2>2 DEF ProjectTypeOK
<1>9. ASSUME NEW i \in DOMAIN calls, AnswerCall(i) PROVE ProjectTypeOK'
  <2>1. CallDone(i)
    BY <1>9 DEF AnswerCall, ShowUserProjects, ShowRefusal, FillCities, FillCounties, NoList,
                ShowFound, Committed
  <2>2. editor' = editor /\ calls' \in Seq(Asked)
    BY <1>0, <2>1, Answered
  <2>3. CASE calls[i].kind = "user" /\ ShowUserProjects(i)
    <3>1. pick' \in PickTypes
      BY <2>3, UserShown
    <3>2. UNCHANGED <<listed, boxes, search, options, stored>>
      BY <2>3 DEF ShowUserProjects
    <3> QED
      BY <1>0, <2>2, <3>1, <3>2 DEF ProjectTypeOK
  <2>4. CASE ShowRefusal(i)
    BY <1>0, <2>2, <2>4 DEF ShowRefusal, ProjectTypeOK
  <2>5. CASE FillCities(i)
    <3>1. /\ UNCHANGED <<pick, listed, boxes, stored>>
          /\ search' = [search EXCEPT !.city = NoArea, !.county = NoArea]
          /\ \E cs \in SUBSET Cities : options' = [cities |-> cs, counties |-> {}]
      BY <2>5 DEF FillCities
    <3>2. PICK cs \in SUBSET Cities : options' = [cities |-> cs, counties |-> {}]
      BY <3>1
    <3>3. options' \in [cities : SUBSET Cities, counties : SUBSET Counties]
      BY <3>2
    <3>4. search' \in Searches
      BY <1>0, <3>1 DEF Searches
    <3> QED
      BY <1>0, <2>2, <3>1, <3>3, <3>4 DEF ProjectTypeOK
  <2>6. CASE FillCounties(i)
    <3>1. /\ UNCHANGED <<pick, listed, boxes, stored>>
          /\ search' = [search EXCEPT !.county = NoArea]
          /\ \E ks \in SUBSET Counties : options' = [options EXCEPT !.counties = ks]
      BY <2>6 DEF FillCounties
    <3>2. search' \in Searches /\ options' \in [cities : SUBSET Cities, counties : SUBSET Counties]
      BY <1>0, <3>1 DEF Searches
    <3> QED
      BY <1>0, <2>2, <3>1, <3>2 DEF ProjectTypeOK
  <2>7. CASE NoList(i)
    BY <1>0, <2>2, <2>7 DEF NoList, ProjectTypeOK
  <2>8. CASE ShowFound(i)
    <3>1. /\ UNCHANGED <<pick, search, options, stored>>
          /\ listed' = [x \in Found(calls[i].of) |-> FoundBox(x)] /\ boxes' = AreaBoxes
      BY <2>8 DEF ShowFound
    <3>2. /\ DOMAIN listed' \subseteq Projects /\ listed' \in [DOMAIN listed' -> BoxTypes]
      BY <3>1, ProjectsFound
    <3>3. /\ DOMAIN boxes' \subseteq Areas /\ boxes' \in [DOMAIN boxes' -> BoxTypes]
      BY <3>1, AreaBoxesTyped, SearchedAre
    <3> QED
      BY <1>0, <2>2, <3>1, <3>2, <3>3 DEF ProjectTypeOK
  <2>9. CASE Committed(i)
    <3>1. /\ UNCHANGED <<pick, listed, boxes, search, options>>
          /\ stored' = [stored EXCEPT ![calls[i].of] = calls[i].with]
      BY <2>9 DEF Committed
    <3>2. stored' \in [Editors -> PickTypes]
      BY <1>0, <3>1, CallHas
    <3> QED
      BY <1>0, <2>2, <3>1, <3>2 DEF ProjectTypeOK
  <2> QED
    BY <1>9, <2>3, <2>4, <2>5, <2>6, <2>7, <2>8, <2>9 DEF AnswerCall
<1> QED
  BY <1>1, <1>2, <1>3, <1>4, <1>5, <1>6, <1>7, <1>8, <1>9 DEF ProjectNext, Clicking

(* What each kind of answer leaves alone.                                  *)
LEMMA AnswerIsDone ==
  ASSUME NEW i \in DOMAIN calls, AnswerCall(i)
  PROVE  /\ CallDone(i) /\ mixed \subseteq mixed'
         /\ ~ (calls[i].kind = "user" /\ ShowUserProjects(i)) => UNCHANGED <<pick, origin>>
         /\ calls[i].kind \notin ListCalls => UNCHANGED <<search, options>>
         /\ calls[i].kind # "query" => UNCHANGED <<listed, boxes>>
         /\ calls[i].kind # "commit" => UNCHANGED stored
  BY DEF AnswerCall, ShowUserProjects, ShowRefusal, FillCities, FillCounties, NoList, ShowFound,
         Committed, ListCalls

(* What is shown goes on being the user's in the title.                    *)
LEMMA OwnStep == ProjectTypeOK /\ OwnInv /\ ProjectNext => OwnInv'
<1> SUFFICES ASSUME ProjectTypeOK, OwnInv, ProjectNext, "users" \notin mixed'
             PROVE  OwnCalls' /\ OwnShown'
  BY DEF OwnInv
<1>0. calls \in Seq(Asked)
  BY DEF ProjectTypeOK
<1>1. ASSUME "users" \notin mixed PROVE OwnCalls /\ OwnShown
  BY <1>1 DEF OwnInv
<1>2. ASSUME "users" \notin mixed, NEW c, Asking(c), c.kind # "user", editor' = editor
      PROVE  OwnCalls'
  BY <1>0, <1>1, <1>2, AskedOnce DEF OwnCalls
<1>3. ASSUME NEW u \in Editors, SetUserProject(u) PROVE OwnCalls' /\ OwnShown'
  <2>1. /\ editor' = u
        /\ mixed' = mixed \cup Crossing({"user"}, "users") \cup Crossing(ListCalls, "lists")
        /\ Preview(SetEmpty(pick))
    BY <1>3 DEF SetUserProject
  <2>2. \A i \in DOMAIN calls : calls[i].kind # "user"
    BY <2>1 DEF Crossing
  <2>3. PICK c : Asking(c) /\ c.kind = "user" /\ c.of = u
    BY <1>3, SetUserAsks
  <2>4. ~ Pending(calls, {"user"})
    BY <2>2 DEF Pending
  <2>5. /\ OnlyOne(calls', {"user"})
        /\ \A i \in DOMAIN calls' : calls'[i] = c \/ \E j \in DOMAIN calls : calls'[i] = calls[j]
    BY <1>0, <2>3, <2>4, AskedOnce
  <2>6. \A part \in Parts \ {"counties"} : ~ Holds(SetEmpty(pick), part)
    <3>1. /\ \A a \in SetEmpty(pick).areas : a.id \in Counties
          /\ ~ SetEmpty(pick).country /\ SetEmpty(pick).projects = {}
      BY Emptied DEF ProjectTypeOK
    <3>2. \A id \in Counties : LevelOf(id) = "counties"
      BY Geography DEF LevelOf
    <3> QED
      BY <3>1, <3>2 DEF Holds, Parts
  <2>7. \A part \in Parts \ {"counties"} : origin'[part] = NoArea
    BY <2>1, <2>6 DEF Preview
  <2> QED
    BY <2>1, <2>2, <2>3, <2>5, <2>7 DEF OwnCalls, OwnShown
<1>4. ASSUME CloseWindow PROVE OwnCalls' /\ OwnShown'
  <2>1. UNCHANGED <<editor, calls, origin, mixed>>
    BY <1>4 DEF CloseWindow
  <2> QED
    BY <1>1, <2>1 DEF OwnCalls, OwnShown
<1>5. ASSUME NEW p \in Provinces \cup {NoArea}, SelectProvince(p)
      PROVE  OwnCalls' /\ OwnShown'
  <2>1. UNCHANGED <<editor, origin>> /\ "users" \notin mixed
    BY <1>5 DEF SelectProvince
  <2>2. CASE p = NoArea
    <3>1. calls' = calls
      BY <1>5, <2>2 DEF SelectProvince
    <3> QED
      BY <1>1, <2>1, <3>1 DEF OwnCalls, OwnShown
  <2>3. CASE p # NoArea
    <3>1. PICK c : Asking(c) /\ c.kind = "cities"
      BY <1>5, <2>3, ProvinceAsks
    <3> QED
      BY <1>1, <1>2, <2>1, <3>1 DEF OwnShown
  <2> QED
    BY <2>2, <2>3
<1>6. ASSUME NEW k \in options.cities \cup {NoArea}, SelectCity(k)
      PROVE  OwnCalls' /\ OwnShown'
  <2>1. UNCHANGED <<editor, origin>> /\ "users" \notin mixed
    BY <1>6 DEF SelectCity
  <2>2. CASE k = NoArea
    <3>1. calls' = calls
      BY <1>6, <2>2 DEF SelectCity
    <3> QED
      BY <1>1, <2>1, <3>1 DEF OwnCalls, OwnShown
  <2>3. CASE k # NoArea
    <3>1. PICK c : Asking(c) /\ c.kind = "counties"
      BY <1>6, <2>3, SearchHas, CityAsks
    <3> QED
      BY <1>1, <1>2, <2>1, <3>1 DEF OwnShown
  <2> QED
    BY <2>2, <2>3
<1>7. ASSUME NEW k \in options.counties \cup {NoArea}, SelectCounty(k)
      PROVE  OwnCalls' /\ OwnShown'
  <2>1. UNCHANGED <<editor, calls, origin, mixed>>
    BY <1>7 DEF SelectCounty
  <2> QED
    BY <1>1, <2>1 DEF OwnCalls, OwnShown
<1>8. ASSUME QueryProject PROVE OwnCalls' /\ OwnShown'
  <2>1. UNCHANGED <<editor, origin, mixed>>
    BY <1>8 DEF QueryProject
  <2>2. PICK c : Asking(c) /\ c.kind = "query"
    BY <1>8, QueryAsks
  <2> QED
    BY <1>1, <1>2, <2>1, <2>2 DEF OwnShown
<1>9. ASSUME Clicking PROVE OwnCalls' /\ OwnShown'
  <2>1. /\ UNCHANGED <<editor, search, options, calls, stored, mixed>>
        /\ \A part \in Parts : origin'[part] \in {NoArea, origin[part]}
    BY <1>9, ClickLeaves
  <2> QED
    BY <1>1, <2>1 DEF OwnCalls, OwnShown
<1>10. ASSUME CommitUserProject PROVE OwnCalls' /\ OwnShown'
  <2>1. UNCHANGED <<editor, origin, mixed>>
    BY <1>10 DEF CommitUserProject
  <2>2. PICK c : Asking(c) /\ c.kind = "commit"
    BY <1>10, CommitAsks
  <2> QED
    BY <1>1, <1>2, <2>1, <2>2 DEF OwnShown
<1>11. ASSUME NEW i \in DOMAIN calls, AnswerCall(i) PROVE OwnCalls' /\ OwnShown'
  <2>1. CallDone(i) /\ "users" \notin mixed
    BY <1>11, AnswerIsDone
  <2>2. editor' = editor /\ OwnCalls'
    BY <1>0, <1>1, <2>1, Answered DEF OwnCalls
  <2>3. CASE calls[i].kind = "user" /\ ShowUserProjects(i)
    <3>1. \A part \in Parts : origin'[part] \in {calls[i].of, origin[part]}
      BY <2>3, UserShown
    <3> QED
      BY <1>1, <2>1, <2>2, <2>3, <3>1 DEF OwnCalls, OwnShown
  <2>4. CASE ~ (calls[i].kind = "user" /\ ShowUserProjects(i))
    <3>1. origin' = origin
      BY <1>11, <2>4, AnswerIsDone
    <3> QED
      BY <1>1, <2>1, <2>2, <3>1 DEF OwnShown
  <2> QED
    BY <2>3, <2>4
<1> QED
  BY <1>3, <1>4, <1>5, <1>6, <1>7, <1>8, <1>9, <1>10, <1>11 DEF ProjectNext, Clicking

(* The lists go on belonging to what is chosen above them.                 *)
LEMMA ListsStep == ProjectTypeOK /\ ListsInv /\ ProjectNext => ListsInv'
<1> SUFFICES ASSUME ProjectTypeOK, ListsInv, ProjectNext, "lists" \notin mixed'
             PROVE  ListsRight'
  BY DEF ListsInv
<1>0. calls \in Seq(Asked)
  BY DEF ProjectTypeOK
<1>1. ASSUME "lists" \notin mixed PROVE ListsRight
  BY <1>1 DEF ListsInv
<1>2. ASSUME "lists" \notin mixed, UNCHANGED <<calls, search, options>> PROVE ListsRight'
  BY <1>1, <1>2 DEF ListsRight, ListCallsRight, CitiesRight, CountiesRight
<1>3. ASSUME "lists" \notin mixed, NEW c, Asking(c), c.kind \notin ListCalls,
             UNCHANGED <<search, options>>
      PROVE  ListsRight'
  <2>1. ListCallsRight'
    BY <1>0, <1>1, <1>3, AskedOnce DEF ListsRight, ListCallsRight, ListCalls
  <2>2. /\ Pending(calls', {"cities"}) <=> Pending(calls, {"cities"})
        /\ Pending(calls', ListCalls) <=> Pending(calls, ListCalls)
    BY <1>0, <1>3, AskedOnce DEF ListCalls
  <2> QED
    BY <1>1, <1>3, <2>1, <2>2 DEF ListsRight, CitiesRight, CountiesRight
<1>4. ASSUME mixed' = mixed \cup Crossing(ListCalls, "lists")
      PROVE  /\ "lists" \notin mixed /\ ~ Pending(calls, ListCalls) /\ ~ Pending(calls, {"cities"})
             /\ \A i \in DOMAIN calls : calls[i].kind \notin ListCalls
  BY <1>4 DEF Crossing, Pending, ListCalls
<1>5. ASSUME NEW u \in Editors, SetUserProject(u) PROVE ListsRight'
  <2>1. /\ search' = NoSearch /\ options' = NoOptions
        /\ mixed' = mixed \cup Crossing({"user"}, "users") \cup Crossing(ListCalls, "lists")
    BY <1>5 DEF SetUserProject
  <2>2. \A i \in DOMAIN calls : calls[i].kind \notin ListCalls
    BY <2>1 DEF Crossing
  <2>3. PICK c : c.kind = "user" /\ Asking(c)
    BY <1>5, SetUserAsks
  <2>4. ListCallsRight'
    <3>1. \A i \in DOMAIN calls' : calls'[i].kind \notin ListCalls
      BY <1>0, <2>2, <2>3, AskedOnce DEF ListCalls
    <3> QED
      BY <3>1 DEF ListCallsRight, OnlyOne, ListCalls
  <2> QED
    BY <2>1, <2>4 DEF ListsRight, CitiesRight, CountiesRight, NoSearch, NoOptions
<1>6. ASSUME CloseWindow PROVE ListsRight'
  BY <1>2, <1>6 DEF CloseWindow
<1>7. ASSUME NEW p \in Provinces \cup {NoArea}, SelectProvince(p) PROVE ListsRight'
  <2>1. mixed' = mixed \cup Crossing(ListCalls, "lists")
    BY <1>7 DEF SelectProvince
  <2>2. CASE p = NoArea
    <3>1. search' = NoSearch /\ options' = NoOptions /\ calls' = calls
      BY <1>7, <2>2 DEF SelectProvince
    <3>2. ListCallsRight'
      BY <1>4, <2>1, <3>1 DEF ListCallsRight, OnlyOne, ListCalls
    <3> QED
      BY <3>1, <3>2 DEF ListsRight, CitiesRight, CountiesRight, NoSearch, NoOptions
  <2>3. CASE p # NoArea
    <3>1. PICK c : Asking(c) /\ c.kind = "cities" /\ c.of = p
      BY <1>7, <2>3, ProvinceAsks
    <3>2. search'.province = p
      BY <1>7, <2>3 DEF SelectProvince, ProjectTypeOK, Searches
    <3>3. /\ OnlyOne(calls', ListCalls)
          /\ Pending(calls', ListCalls) /\ Pending(calls', {"cities"})
      BY <1>0, <1>4, <2>1, <3>1, AskedOnce DEF ListCalls
    <3>4. \A i \in DOMAIN calls' : calls'[i] = c \/ calls'[i].kind \notin ListCalls
      BY <1>0, <1>4, <2>1, <3>1, AskedOnce
    <3> QED
      BY <3>1, <3>2, <3>3, <3>4 DEF ListsRight, ListCallsRight, ListCalls
  <2> QED
    BY <2>2, <2>3
<1>8. ASSUME NEW k \in options.cities \cup {NoArea}, SelectCity(k) PROVE ListsRight'
  <2>1. mixed' = mixed \cup Crossing(ListCalls, "lists")
    BY <1>8 DEF SelectCity
  <2>2. CitiesRight
    BY <1>1, <1>4, <2>1 DEF ListsRight
  <2>3. CASE k = NoArea
    <3>1. /\ search' = [search EXCEPT !.city = NoArea, !.county = NoArea]
          /\ options' = [options EXCEPT !.counties = {}] /\ calls' = calls
      BY <1>8, <2>3 DEF SelectCity
    <3>2. /\ search'.city = NoArea /\ search'.county = NoArea /\ search'.province = search.province
          /\ options'.cities = options.cities /\ options'.counties = {}
      BY <3>1 DEF ProjectTypeOK, Searches
    <3>3. ListCallsRight'
      BY <1>4, <2>1, <3>1 DEF ListCallsRight, OnlyOne, ListCalls
    <3> QED
      BY <2>2, <3>2, <3>3 DEF ListsRight, CitiesRight, CountiesRight
  <2>4. CASE k # NoArea
    <3>1. k \in options.cities /\ k \in Cities
      BY <2>4, SearchHas
    <3>2. PICK c : Asking(c) /\ c.kind = "counties" /\ c.of = k
      BY <1>8, <2>4, <3>1, CityAsks
    <3>3. search'.city = k /\ search'.province = search.province /\ options' = options
      BY <1>8, <2>4 DEF SelectCity, ProjectTypeOK, Searches
    <3>4. OnlyOne(calls', ListCalls) /\ Pending(calls', ListCalls)
      BY <1>0, <1>4, <2>1, <3>2, AskedOnce DEF ListCalls
    <3>5. \A i \in DOMAIN calls' : calls'[i] = c \/ calls'[i].kind \notin ListCalls
      BY <1>0, <1>4, <2>1, <3>2, AskedOnce
    <3>6. ListCallsRight'
      BY <3>2, <3>3, <3>4, <3>5 DEF ListCallsRight, ListCalls
    <3>7. CitiesRight'
      BY <2>2, <3>1, <3>3 DEF CitiesRight
    <3> QED
      BY <3>4, <3>6, <3>7 DEF ListsRight
  <2> QED
    BY <2>3, <2>4
<1>9. ASSUME NEW k \in options.counties \cup {NoArea}, SelectCounty(k) PROVE ListsRight'
  <2>1. UNCHANGED <<options, calls, mixed>> /\ search' = [search EXCEPT !.county = k]
    BY <1>9 DEF SelectCounty
  <2>2. search'.city = search.city /\ search'.province = search.province /\ search'.county = k
    BY <2>1 DEF ProjectTypeOK, Searches
  <2> QED
    BY <1>1, <2>1, <2>2 DEF ListsRight, ListCallsRight, CitiesRight, CountiesRight
<1>10. ASSUME QueryProject PROVE ListsRight'
  <2>1. UNCHANGED <<search, options, mixed>>
    BY <1>10 DEF QueryProject
  <2>2. PICK c : c.kind = "query" /\ Asking(c)
    BY <1>10, QueryAsks
  <2> QED
    BY <1>3, <2>1, <2>2 DEF ListCalls
<1>11. ASSUME Clicking PROVE ListsRight'
  <2>1. UNCHANGED <<editor, search, options, calls, stored, mixed>>
    BY <1>11, ClickLeaves
  <2> QED
    BY <1>2, <2>1
<1>12. ASSUME CommitUserProject PROVE ListsRight'
  <2>1. UNCHANGED <<search, options, mixed>>
    BY <1>12 DEF CommitUserProject
  <2>2. PICK c : c.kind = "commit" /\ Asking(c)
    BY <1>12, CommitAsks
  <2> QED
    BY <1>3, <2>1, <2>2 DEF ListCalls
<1>13. ASSUME NEW i \in DOMAIN calls, AnswerCall(i) PROVE ListsRight'
  <2>1. CallDone(i) /\ "lists" \notin mixed
    BY <1>13, AnswerIsDone
  <2>2. /\ \A j \in DOMAIN calls' : \E k \in DOMAIN calls : calls'[j] = calls[k]
        /\ OnlyOne(calls', ListCalls)
    BY <1>0, <1>1, <2>1, Answered DEF ListsRight, ListCallsRight
  <2>3. CASE calls[i].kind \notin ListCalls
    <3>1. UNCHANGED <<search, options>>
      BY <1>13, <2>3, AnswerIsDone
    <3>2. /\ Pending(calls', {"cities"}) <=> Pending(calls, {"cities"})
          /\ Pending(calls', ListCalls) <=> Pending(calls, ListCalls)
      BY <1>0, <2>1, <2>3, Answered DEF ListCalls
    <3> QED
      BY <1>1, <2>1, <2>2, <3>1, <3>2 DEF ListsRight, ListCallsRight, CitiesRight, CountiesRight
  <2>4. CASE calls[i].kind \in ListCalls
    <3>1. ~ Pending(calls', ListCalls)
      BY <1>0, <1>1, <2>1, <2>4, Answered DEF ListsRight, ListCallsRight
    <3>2. ListCallsRight'
      BY <2>2, <3>1 DEF ListCallsRight, Pending, ListCalls
    <3>3. /\ calls[i].kind = "cities" => calls[i].of = search.province
          /\ calls[i].kind = "counties" => calls[i].of = search.city
      BY <1>1, <2>1 DEF ListsRight, ListCallsRight
    <3>4. ~ NoList(i)
      BY DEF NoList
    <3>5. CASE calls[i].kind = "cities"
      <4>1. FillCities(i)
        BY <1>13, <3>4, <3>5 DEF AnswerCall
      <4>2. /\ search' = [search EXCEPT !.city = NoArea, !.county = NoArea]
            /\ \E cs \in {{c \in Cities : Parent[c] = calls[i].of}, {}} :
                 options' = [cities |-> cs, counties |-> {}]
        BY <4>1 DEF FillCities
      <4>3. search'.province = search.province /\ search'.city = NoArea /\ search'.county = NoArea
        BY <4>2 DEF ProjectTypeOK, Searches
      <4>4. /\ options'.counties = {}
            /\ \A c \in options'.cities : Parent[c] = calls[i].of
        BY <4>2
      <4> QED
        BY <3>2, <3>3, <3>5, <4>3, <4>4 DEF ListsRight, CitiesRight, CountiesRight
    <3>6. CASE calls[i].kind = "counties"
      <4>1. FillCounties(i)
        BY <1>13, <3>4, <3>6 DEF AnswerCall
      <4>2. /\ search' = [search EXCEPT !.county = NoArea]
            /\ \E ks \in {{k \in Counties : Parent[k] = calls[i].of}, {}} :
                 options' = [options EXCEPT !.counties = ks]
        BY <4>1 DEF FillCounties
      <4>3. search'.province = search.province /\ search'.city = search.city /\ search'.county = NoArea
        BY <4>2 DEF ProjectTypeOK, Searches
      <4>4. /\ options'.cities = options.cities
            /\ \A k \in options'.counties : Parent[k] = calls[i].of
        BY <4>2 DEF ProjectTypeOK
      <4>5. CitiesRight
        <5>1. ~ Pending(calls, {"cities"})
          BY <1>1, <2>1, <3>6 DEF Pending, ListsRight, ListCallsRight, OnlyOne, ListCalls
        <5> QED
          BY <1>1, <2>1, <5>1 DEF ListsRight
      <4> QED
        BY <3>2, <3>3, <3>6, <4>3, <4>4, <4>5 DEF ListsRight, CitiesRight, CountiesRight
    <3> QED
      BY <2>4, <3>5, <3>6 DEF ListCalls
  <2> QED
    BY <2>3, <2>4
<1> QED
  BY <1>5, <1>6, <1>7, <1>8, <1>9, <1>10, <1>11, <1>12, <1>13 DEF ProjectNext, Clicking

(* Areas go on being filed where they are.                                 *)
LEMMA FiledStep == ProjectTypeOK /\ ListsInv /\ FiledInv /\ ProjectNext => FiledInv'
<1> SUFFICES ASSUME ProjectTypeOK, ListsInv, FiledInv, ProjectNext, "lists" \notin mixed'
             PROVE  /\ Filed(pick'.areas) /\ Filed(DOMAIN boxes')
                    /\ \A u \in Editors : Filed(stored'[u].areas)
                    /\ \A i \in DOMAIN calls' : Filed(calls'[i].with.areas)
  BY DEF FiledInv
<1>0. calls \in Seq(Asked)
  BY DEF ProjectTypeOK
<1>1. mixed \subseteq mixed'
  BY AnswerIsDone, ClickLeaves DEF ProjectNext, SetUserProject, CloseWindow, SelectProvince,
     SelectCity, SelectCounty, QueryProject, Clicking, CommitUserProject
<1>2. /\ ListsRight /\ Filed(pick.areas) /\ Filed(DOMAIN boxes)
      /\ \A u \in Editors : Filed(stored[u].areas)
      /\ \A i \in DOMAIN calls : Filed(calls[i].with.areas)
  BY <1>1 DEF FiledInv, ListsInv
<1>3. ASSUME NEW as, as \subseteq pick.areas \cup DOMAIN boxes PROVE Filed(as)
  BY <1>2, <1>3 DEF Filed
<1>4. ASSUME NEW c, Asking(c), c.with.areas \subseteq pick.areas
      PROVE  \A i \in DOMAIN calls' : Filed(calls'[i].with.areas)
  <2>1. Filed(c.with.areas)
    BY <1>3, <1>4
  <2> QED
    BY <1>0, <1>2, <1>4, <2>1, AskedOnce
<1>5. Filed({})
  BY DEF Filed
<1>6. ASSUME NEW u \in Editors, SetUserProject(u)
      PROVE  /\ Filed(pick'.areas) /\ Filed(DOMAIN boxes') /\ stored' = stored
             /\ \A i \in DOMAIN calls' : Filed(calls'[i].with.areas)
  <2>1. pick' = SetEmpty(pick) /\ DOMAIN boxes' = {} /\ stored' = stored
    BY <1>6, PreviewOrigin DEF SetUserProject, NoBoxes
  <2>2. pick'.areas \subseteq pick.areas
    BY <2>1, Emptied DEF ProjectTypeOK
  <2>3. PICK c : Asking(c) /\ c.with.areas = {}
    BY <1>6, SetUserAsks, EmptyPick
  <2> QED
    BY <1>3, <1>4, <1>5, <2>1, <2>2, <2>3
<1>7. ASSUME NEW p \in Provinces \cup {NoArea}, SelectProvince(p)
      PROVE  \A i \in DOMAIN calls' : Filed(calls'[i].with.areas)
  <2>1. CASE p = NoArea
    BY <1>2, <1>7, <2>1 DEF SelectProvince
  <2>2. CASE p # NoArea
    <3>1. PICK c : Asking(c) /\ c.with.areas = {}
      BY <1>7, <2>2, ProvinceAsks, EmptyPick
    <3> QED
      BY <1>4, <3>1
  <2> QED
    BY <2>1, <2>2
<1>8. ASSUME NEW k \in options.cities \cup {NoArea}, SelectCity(k)
      PROVE  \A i \in DOMAIN calls' : Filed(calls'[i].with.areas)
  <2>1. CASE k = NoArea
    BY <1>2, <1>8, <2>1 DEF SelectCity
  <2>2. CASE k # NoArea
    <3>1. PICK c : Asking(c) /\ c.with.areas = {}
      BY <1>8, <2>2, SearchHas, CityAsks, EmptyPick
    <3> QED
      BY <1>4, <3>1
  <2> QED
    BY <2>1, <2>2
<1>9. ASSUME QueryProject PROVE \A i \in DOMAIN calls' : Filed(calls'[i].with.areas)
  <2>1. PICK c : Asking(c) /\ c.with.areas = {}
    BY <1>9, QueryAsks, EmptyPick
  <2> QED
    BY <1>4, <2>1
<1>10. ASSUME CommitUserProject PROVE \A i \in DOMAIN calls' : Filed(calls'[i].with.areas)
  <2>1. PICK c : Asking(c) /\ c.with.areas \subseteq pick.areas
    BY <1>10, CommitAsks
  <2> QED
    BY <1>4, <2>1
<1>11. ASSUME Clicking
       PROVE  /\ Filed(pick'.areas) /\ DOMAIN boxes' = DOMAIN boxes
              /\ UNCHANGED <<calls, stored>>
  <2>1. /\ SameBoxes /\ pick'.areas \subseteq pick.areas \cup DOMAIN boxes
        /\ UNCHANGED <<editor, search, options, calls, stored, mixed>>
    BY <1>11, ClickLeaves
  <2> QED
    BY <1>3, <2>1 DEF SameBoxes
<1>12. ASSUME NEW i \in DOMAIN calls, AnswerCall(i)
       PROVE  /\ Filed(pick'.areas) /\ Filed(DOMAIN boxes')
              /\ \A u \in Editors : Filed(stored'[u].areas)
              /\ \A j \in DOMAIN calls' : Filed(calls'[j].with.areas)
  <2>1. CallDone(i)
    BY <1>12, AnswerIsDone
  <2>2. \A j \in DOMAIN calls' : Filed(calls'[j].with.areas)
    BY <1>0, <1>2, <2>1, Answered
  <2>3. Filed(pick'.areas)
    <3>1. CASE calls[i].kind = "user" /\ ShowUserProjects(i)
      <4>1. pick'.areas \subseteq pick.areas \cup stored[calls[i].of].areas
        BY <3>1, UserShown
      <4>2. calls[i].of \in Editors
        BY <3>1, CallHas
      <4> QED
        BY <1>2, <4>1, <4>2 DEF Filed
    <3>2. CASE ~ (calls[i].kind = "user" /\ ShowUserProjects(i))
      BY <1>2, <1>12, <3>2, AnswerIsDone
    <3> QED
      BY <3>1, <3>2
  <2>4. Filed(DOMAIN boxes')
    <3>1. CASE calls[i].kind = "query"
      <4>1. ShowFound(i)
        BY <1>12, <3>1 DEF AnswerCall
      <4>2. boxes' = AreaBoxes /\ mixed' = mixed \cup Crossing(ListCalls, "lists")
                                                 \cup Crossing({"user"}, "query")
        BY <4>1 DEF ShowFound
      <4>3. ~ Pending(calls, ListCalls) /\ ~ Pending(calls, {"cities"})
        BY <4>2 DEF Crossing, Pending, ListCalls
      <4>4. CitiesRight /\ CountiesRight
        BY <1>2, <4>3 DEF ListsRight
      <4>5. Filed(SearchedAreas)
        BY <4>4, SearchedFiled DEF CitiesRight, CountiesRight
      <4> QED
        BY <4>2, <4>5, AreaBoxesTyped
    <3>2. CASE calls[i].kind # "query"
      BY <1>2, <1>12, <3>2, AnswerIsDone
    <3> QED
      BY <3>1, <3>2
  <2>5. \A u \in Editors : Filed(stored'[u].areas)
    <3>1. CASE Committed(i)
      <4>1. stored' = [stored EXCEPT ![calls[i].of] = calls[i].with] /\ DOMAIN stored = Editors
        BY <3>1 DEF Committed, ProjectTypeOK
      <4> QED
        BY <1>2, <4>1
    <3>2. CASE ~ Committed(i)
      <4>1. stored' = stored
        BY <1>12, <3>2 DEF AnswerCall, ShowUserProjects, ShowRefusal, FillCities, FillCounties,
                           NoList, ShowFound
      <4> QED
        BY <1>2, <4>1
    <3> QED
      BY <3>1, <3>2
  <2> QED
    BY <2>2, <2>3, <2>4, <2>5
<1>13. ASSUME CloseWindow \/ \E k \in options.counties \cup {NoArea} : SelectCounty(k)
       PROVE  UNCHANGED <<pick, boxes, stored, calls>>
  BY <1>13 DEF CloseWindow, SelectCounty
<1>14. ASSUME \/ \E p \in Provinces \cup {NoArea} : SelectProvince(p)
              \/ \E k \in options.cities \cup {NoArea} : SelectCity(k)
              \/ QueryProject \/ CommitUserProject
       PROVE  UNCHANGED <<pick, boxes, stored>>
  BY <1>14 DEF SelectProvince, SelectCity, QueryProject, CommitUserProject
<1> QED
  BY <1>2, <1>6, <1>7, <1>8, <1>9, <1>10, <1>11, <1>12, <1>13, <1>14 DEF ProjectNext, Clicking

(* The boxes go on telling the truth.                                      *)
LEMMA TicksStep ==
  ProjectTypeOK /\ FiledInv /\ TicksInv /\ ProjectNext => TicksInv'
<1> SUFFICES ASSUME ProjectTypeOK, FiledInv, TicksInv, ProjectNext, mixed' = {}
             PROVE  /\ NoneRedundant' /\ BoxesTell(pick', boxes') /\ ListedTell(pick', listed')
                    /\ Pending(calls', {"user"}) => DOMAIN listed' = {} /\ DOMAIN boxes' = {}
  BY DEF TicksInv
<1>0. calls \in Seq(Asked)
  BY DEF ProjectTypeOK
<1>1. mixed = {}
  <2>1. mixed \subseteq mixed'
    BY AnswerIsDone, ClickLeaves DEF ProjectNext, SetUserProject, CloseWindow, SelectProvince,
       SelectCity, SelectCounty, QueryProject, Clicking, CommitUserProject
  <2> QED
    BY <2>1
<1>2. /\ NoneRedundant /\ BoxesTell(pick, boxes) /\ ListedTell(pick, listed)
      /\ Pending(calls, {"user"}) => DOMAIN listed = {} /\ DOMAIN boxes = {}
      /\ Filed(pick.areas) /\ Filed(DOMAIN boxes)
  BY <1>1 DEF FiledInv, TicksInv
<1>3. ASSUME NEW c, Asking(c), ~ Redundant(c.with)
      PROVE  \A i \in DOMAIN calls' : ~ Redundant(calls'[i].with)
  BY <1>0, <1>2, <1>3, AskedOnce DEF NoneRedundant
<1>4. ASSUME UNCHANGED <<pick, boxes, listed, stored>>,
             calls' = calls \/ \E c : Asking(c) /\ c.kind # "user" /\ ~ Redundant(c.with)
      PROVE  /\ NoneRedundant' /\ BoxesTell(pick', boxes') /\ ListedTell(pick', listed')
             /\ Pending(calls', {"user"}) => DOMAIN listed' = {} /\ DOMAIN boxes' = {}
  <2>1. CASE calls' = calls
    BY <1>2, <1>4, <2>1 DEF NoneRedundant
  <2>2. ASSUME NEW c, Asking(c), c.kind # "user", ~ Redundant(c.with)
        PROVE  NoneRedundant' /\ (Pending(calls', {"user"}) <=> Pending(calls, {"user"}))
    <3>1. Pending(calls', {"user"}) <=> Pending(calls, {"user"})
      BY <1>0, <2>2, AskedOnce
    <3> QED
      BY <1>2, <1>3, <1>4, <2>2, <3>1 DEF NoneRedundant
  <2> QED
    BY <1>2, <1>4, <2>1, <2>2
<1>5. ASSUME NEW u \in Editors, SetUserProject(u)
      PROVE  /\ NoneRedundant' /\ BoxesTell(pick', boxes') /\ ListedTell(pick', listed')
             /\ DOMAIN listed' = {} /\ DOMAIN boxes' = {}
  <2>1. pick' = SetEmpty(pick) /\ DOMAIN boxes' = {} /\ DOMAIN listed' = {} /\ stored' = stored
    BY <1>5, PreviewOrigin DEF SetUserProject, NoBoxes
  <2>2. /\ ~ pick'.country /\ pick'.areas \subseteq pick.areas
        /\ \A a \in pick'.areas : a.id \in Counties
    BY <2>1, Emptied DEF ProjectTypeOK
  <2>3. \A a \in pick'.areas : a.up \cap Counties = {}
    BY <1>2, <2>2, AreasAbove DEF Filed, Places3
  <2>4. ~ Redundant(pick')
    BY <2>2, <2>3 DEF Redundant
  <2>5. PICK c : Asking(c) /\ ~ Redundant(c.with)
    BY <1>5, SetUserAsks, EmptyPick
  <2> QED
    BY <1>2, <1>3, <2>1, <2>4, <2>5 DEF NoneRedundant, BoxesTell, ListedTell
<1>6. ASSUME CloseWindow \/ \E k \in options.counties \cup {NoArea} : SelectCounty(k)
      PROVE  UNCHANGED <<pick, boxes, listed, stored, calls>>
  BY <1>6 DEF CloseWindow, SelectCounty
<1>7. ASSUME NEW p \in Provinces \cup {NoArea}, SelectProvince(p)
      PROVE  /\ UNCHANGED <<pick, boxes, listed, stored>>
             /\ calls' = calls \/ \E c : Asking(c) /\ c.kind # "user" /\ ~ Redundant(c.with)
  <2>1. UNCHANGED <<pick, boxes, listed, stored>> /\ (p = NoArea => calls' = calls)
    BY <1>7 DEF SelectProvince
  <2>2. CASE p # NoArea
    <3>1. PICK c : Asking(c) /\ c.kind = "cities" /\ ~ Redundant(c.with)
      BY <1>7, <2>2, ProvinceAsks, EmptyPick
    <3> QED
      BY <2>1, <3>1
  <2> QED
    BY <2>1, <2>2
<1>8. ASSUME NEW k \in options.cities \cup {NoArea}, SelectCity(k)
      PROVE  /\ UNCHANGED <<pick, boxes, listed, stored>>
             /\ calls' = calls \/ \E c : Asking(c) /\ c.kind # "user" /\ ~ Redundant(c.with)
  <2>1. UNCHANGED <<pick, boxes, listed, stored>> /\ (k = NoArea => calls' = calls)
    BY <1>8 DEF SelectCity
  <2>2. CASE k # NoArea
    <3>1. PICK c : Asking(c) /\ c.kind = "counties" /\ ~ Redundant(c.with)
      BY <1>8, <2>2, SearchHas, CityAsks, EmptyPick
    <3> QED
      BY <2>1, <3>1
  <2> QED
    BY <2>1, <2>2
<1>9. ASSUME QueryProject
      PROVE  /\ UNCHANGED <<pick, boxes, listed, stored>>
             /\ \E c : Asking(c) /\ c.kind # "user" /\ ~ Redundant(c.with)
  <2>1. PICK c : Asking(c) /\ c.kind = "query" /\ ~ Redundant(c.with)
    BY <1>9, QueryAsks, EmptyPick
  <2> QED
    BY <1>9, <2>1 DEF QueryProject
<1>10. ASSUME CommitUserProject
       PROVE  /\ UNCHANGED <<pick, boxes, listed, stored>>
              /\ \E c : Asking(c) /\ c.kind # "user" /\ ~ Redundant(c.with)
  <2>1. PICK c : Asking(c) /\ c.kind = "commit" /\ ~ Redundant(c.with)
    BY <1>2, <1>10, CommitAsks DEF NoneRedundant
  <2> QED
    BY <1>10, <2>1 DEF CommitUserProject
<1>11. ASSUME Clicking
       PROVE  /\ NoneRedundant' /\ BoxesTell(pick', boxes') /\ ListedTell(pick', listed')
              /\ Pending(calls', {"user"}) => DOMAIN listed' = {} /\ DOMAIN boxes' = {}
  <2>1. SameBoxes /\ UNCHANGED <<editor, search, options, calls, stored, mixed>>
    BY <1>11, ClickLeaves
  <2>2. WindowTells(pick, boxes, listed)
    BY <1>2 DEF WindowTells, NoneRedundant
  <2>3. WindowTells(pick', boxes', listed')
    BY <1>2, <1>11, <2>2, ClickTells
  <2> QED
    BY <1>2, <2>1, <2>3 DEF WindowTells, NoneRedundant, SameBoxes
<1>12. ASSUME NEW i \in DOMAIN calls, AnswerCall(i)
       PROVE  /\ NoneRedundant' /\ BoxesTell(pick', boxes') /\ ListedTell(pick', listed')
              /\ Pending(calls', {"user"}) => DOMAIN listed' = {} /\ DOMAIN boxes' = {}
  <2>1. CallDone(i)
    BY <1>12, AnswerIsDone
  <2>2. /\ \A j \in DOMAIN calls' : ~ Redundant(calls'[j].with)
        /\ Pending(calls', {"user"}) => Pending(calls, {"user"})
    BY <1>0, <1>2, <2>1, Answered DEF NoneRedundant
  <2>3. \A u \in Editors : ~ Redundant(stored'[u])
    <3>1. CASE Committed(i)
      <4>1. stored' = [stored EXCEPT ![calls[i].of] = calls[i].with] /\ DOMAIN stored = Editors
        BY <3>1 DEF Committed, ProjectTypeOK
      <4> QED
        BY <1>2, <4>1 DEF NoneRedundant
    <3>2. CASE ~ Committed(i)
      <4>1. stored' = stored
        BY <1>12, <3>2 DEF AnswerCall, ShowUserProjects, ShowRefusal, FillCities, FillCounties,
                           NoList, ShowFound
      <4> QED
        BY <1>2, <4>1 DEF NoneRedundant
    <3> QED
      BY <3>1, <3>2
  <2>4. CASE calls[i].kind = "user" /\ ShowUserProjects(i)
    <3>1. ~ Redundant(pick') /\ UNCHANGED <<listed, boxes>>
      BY <2>4 DEF ShowUserProjects
    <3>2. DOMAIN listed = {} /\ DOMAIN boxes = {}
      BY <1>2, <2>4 DEF Pending
    <3> QED
      BY <2>2, <2>3, <3>1, <3>2 DEF NoneRedundant, BoxesTell, ListedTell
  <2>5. CASE calls[i].kind = "query"
    <3>1. ShowFound(i)
      BY <1>12, <2>5 DEF AnswerCall
    <3>2. /\ listed' = [x \in Found(calls[i].of) |-> FoundBox(x)] /\ boxes' = AreaBoxes
          /\ pick' = pick
          /\ mixed' = mixed \cup Crossing(ListCalls, "lists") \cup Crossing({"user"}, "query")
      BY <3>1 DEF ShowFound
    <3>3. ~ Pending(calls, {"user"})
      BY <3>2 DEF Crossing, Pending
    <3>4. BoxesTell(pick', boxes') /\ ListedTell(pick', listed')
      BY <3>2, AreaBoxesTyped, ProjectsFound
    <3> QED
      BY <1>2, <2>2, <2>3, <3>2, <3>3, <3>4 DEF NoneRedundant
  <2>6. CASE ~ (calls[i].kind = "user" /\ ShowUserProjects(i)) /\ calls[i].kind # "query"
    <3>1. UNCHANGED <<pick, listed, boxes>>
      BY <1>12, <2>6, AnswerIsDone
    <3> QED
      BY <1>2, <2>2, <2>3, <3>1 DEF NoneRedundant
  <2> QED
    BY <2>4, <2>5, <2>6
<1> QED
  BY <1>4, <1>5, <1>6, <1>7, <1>8, <1>9, <1>10, <1>11, <1>12 DEF ProjectNext, Clicking

(* The invariant is kept.                                                  *)
LEMMA ProjectsStep == ProjectInv /\ [ProjectNext]_projectVars => ProjectInv'
<1>1. ASSUME ProjectInv, ProjectNext PROVE ProjectInv'
  BY <1>1, TypesStep, OwnStep, ListsStep, FiledStep, TicksStep DEF ProjectInv
<1>2. ASSUME ProjectInv, UNCHANGED projectVars PROVE ProjectInv'
  BY <1>2 DEF ProjectInv, projectVars, ProjectTypeOK, OwnInv, OwnCalls, OwnShown, ListsInv,
              ListsRight, ListCallsRight, CitiesRight, CountiesRight, FiledInv, TicksInv,
              NoneRedundant
<1> QED
  BY <1>1, <1>2

(* The window of a user's projects displays and would commit the truth     *)
(* about the user in its title, whatever areas, projects and assignments   *)
(* there are, and in whatever order the answers come.                      *)
THEOREM WindowsRight == ProjectSpec => []AssignmentWindowTruthful
<1>1. ProjectInv => AssignmentWindowTruthful
  <2> SUFFICES ASSUME ProjectInv
               PROVE  AssignmentWindowTruthful
    OBVIOUS
  <2>1. OnlyOwnShown
    BY DEF ProjectInv, OwnInv, OwnShown, OnlyOwnShown
  <2>2. FiledRight
    BY DEF ProjectInv, FiledInv, Filed, FiledRight
  <2>3. TicksTellTruth
    <3> SUFFICES ASSUME mixed = {}, NEW x \in DOMAIN listed
                 PROVE  /\ listed[x].on => Covers(pick, x)
                        /\ Covers(pick, x) => listed[x].on \/ listed[x].locked
      BY DEF TicksTellTruth
    <3>1. ListedTell(pick, listed)
      BY DEF ProjectInv, TicksInv
    <3>2. Covers(pick, x) <=> x \in pick.projects \/ InArea(pick, x)
      BY DEF Covers, InArea, IdsOf
    <3> QED
      BY <3>1, <3>2 DEF ListedTell
  <2> QED
    BY <2>1, <2>2, <2>3 DEF AssignmentWindowTruthful
<1> QED
  BY <1>1, ProjectsInitially, ProjectsStep, PTL DEF ProjectSpec
=============================================================================
