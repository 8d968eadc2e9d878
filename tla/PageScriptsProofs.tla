-------------------------- MODULE PageScriptsProofs --------------------------
(***************************************************************************)
(* What the scripts of the pages keep in a browser: the dates of a search, *)
(* the styled controls, the uploads of a form, the checks of its fields,   *)
(* three widgets (a spinner, a hint and a light box), and what a table     *)
(* with a server displays.  They share no state; each part has the         *)
(* invariant that the property needs, its steps, and the theorem.          *)
(***************************************************************************)
EXTENDS DateRange, StyledControls, Uploads, FormChecks, SpinnerBox, BootstrapWidgets,
        LightBox, DataTable, WellFoundedInduction, TLAPS

-----------------------------------------------------------------------------
(* DateRange.                                                              *)

(* What a picker displays is a day every month has.                        *)
Views == [y : Int, m : 0 .. 11, d : 1 .. 28]

RangeTypeOK ==
  /\ dateOf \in [Fields2 -> RealDays]
  /\ textOf \in [Fields2 -> RealDays \cup Typed \cup {NoDate, Unfinished}]
  /\ viewOf \in [Fields2 -> Views]

(* As long as nothing was typed and no arrow filled a field, a field shows *)
(* its picker's date or nothing, and two fields that show something are in *)
(* order.                                                                  *)
Untouched ==
  causes = {} =>
    /\ \A f \in Fields2 : textOf[f] \in {NoDate, dateOf[f]}
    /\ NoDate \notin {textOf["start"], textOf["end"]} =>
         ~ Before(dateOf["end"], dateOf["start"])

RangeInv == RangeTypeOK /\ Untouched

-----------------------------------------------------------------------------
LEMMA MonthLength ==
  ASSUME NEW y \in Int, NEW m \in Int
  PROVE  DaysInMonth(y, m) \in 28 .. 31
  BY DEF DaysInMonth

(* new Date(y, m, d) is a day there is, and a day there is is itself.      *)
LEMMA NewDateIsReal ==
  ASSUME NEW y \in Int, NEW m \in Int, NEW d \in 1 .. 31
  PROVE  NewDate(y, m, d) \in RealDays
<1>1. PICK yy, mm : yy = y + m \div 12 /\ mm = m % 12
  OBVIOUS
<1>2. yy \in Int /\ mm \in 0 .. 11
  BY <1>1
<1>3. PICK n \in 28 .. 31 : n = DaysInMonth(yy, mm)
  BY <1>2, MonthLength
<1>4. NewDate(y, m, d) = IF d <= n THEN Day(yy, mm, d)
                         ELSE Day(yy + (mm + 1) \div 12, (mm + 1) % 12, d - n)
  BY <1>1, <1>3 DEF NewDate
<1>5. CASE d <= n
  BY <1>2, <1>3, <1>4, <1>5 DEF RealDays, Day
<1>6. CASE ~ (d <= n)
  <2>1. PICK y2, m2 : y2 = yy + (mm + 1) \div 12 /\ m2 = (mm + 1) % 12
    OBVIOUS
  <2>2. y2 \in Int /\ m2 \in 0 .. 11 /\ d - n \in 1 .. 3
    BY <1>2, <1>6, <2>1
  <2>3. DaysInMonth(y2, m2) \in 28 .. 31
    BY <2>2, MonthLength
  <2> QED
    BY <1>4, <1>6, <2>1, <2>2, <2>3 DEF RealDays, Day
<1> QED
  BY <1>5, <1>6

LEMMA NewDateOfReal ==
  ASSUME NEW t \in RealDays
  PROVE  NewDate(t.y, t.m, t.d) = t
<1>1. t \in [y : Int, m : 0 .. 11, d : 1 .. 31] /\ t.d <= DaysInMonth(t.y, t.m)
  BY DEF RealDays
<1>2. t.y + t.m \div 12 = t.y /\ t.m % 12 = t.m
  BY <1>1
<1>3. NewDate(t.y, t.m, t.d) = Day(t.y, t.m, t.d)
  BY <1>1, <1>2 DEF NewDate
<1> QED
  BY <1>1, <1>3 DEF Day

LEMMA NewDateOfView ==
  ASSUME NEW y \in Int, NEW m \in Int, NEW d \in 1 .. 28
  PROVE  NewDate(y, m, d) \in Views
<1>1. PICK yy, mm : yy = y + m \div 12 /\ mm = m % 12
  OBVIOUS
<1>2. yy \in Int /\ mm \in 0 .. 11
  BY <1>1
<1>3. DaysInMonth(yy, mm) \in 28 .. 31
  BY <1>2, MonthLength
<1>4. NewDate(y, m, d) = Day(yy, mm, d)
  BY <1>1, <1>2, <1>3 DEF NewDate
<1> QED
  BY <1>2, <1>4 DEF Views, Day

LEMMA ViewIsReal == Views \subseteq RealDays
<1>1. SUFFICES ASSUME NEW v \in Views PROVE v \in RealDays
  OBVIOUS
<1>2. v.y \in Int /\ v.m \in Int /\ v.d \in 1 .. 28 /\ v \in [y : Int, m : 0 .. 11, d : 1 .. 31]
  BY <1>1 DEF Views
<1> QED
  BY <1>2, MonthLength DEF RealDays

LEMMA ParsedIsReal ==
  ASSUME NEW t \in RealDays \cup Typed \cup {NoDate, Unfinished}
  PROVE  ParseDate(t) \in RealDays /\ FirstOf(ParseDate(t)) \in Views
<1>1. ASSUME t \in RealDays \cup Typed PROVE NewDate(t.y, t.m, t.d) \in RealDays
  <2>1. t \in [y : Int, m : Int, d : 1 .. 31]
    BY <1>1, RangeConstants DEF RealDays
  <2> QED
    BY <2>1, NewDateIsReal
<1>2. ParseDate(t) \in RealDays
  BY <1>1, RangeConstants DEF ParseDate
<1> QED
  BY <1>2 DEF RealDays, FirstOf, Day, Views

LEMMA BeforeIsOrder ==
  ASSUME NEW s \in RealDays
  PROVE  ~ Before(s, s)
<1>1. s.y \in Int /\ s.m \in Int /\ s.d \in Int
  BY DEF RealDays
<1>2. Number(s) \in Int
  BY <1>1 DEF Number
<1> QED
  BY <1>2 DEF Before

LEMMA RangeInitially == RangeInit => RangeInv
<1>1. SUFFICES ASSUME RangeInit PROVE RangeInv
  OBVIOUS
<1>2. textOf \in [Fields2 -> RealDays \cup Typed \cup {NoDate, Unfinished}]
  BY <1>1 DEF RangeInit
<1>3. \A f \in Fields2 : dateOf[f] = ParseDate(textOf[f])
  BY <1>1 DEF RangeInit
<1>4. \A f \in Fields2 : dateOf[f] \in RealDays /\ FirstOf(dateOf[f]) \in Views
  BY <1>2, <1>3, ParsedIsReal
<1>5. RangeTypeOK
  BY <1>1, <1>2, <1>4 DEF RangeInit, RangeTypeOK
<1>6. \A f \in Fields2 : textOf[f] \in {NoDate, dateOf[f]}
  BY <1>1, <1>3 DEF RangeInit
<1>7. NoDate \notin {textOf["start"], textOf["end"]} => ~ Before(dateOf["end"], dateOf["start"])
  BY <1>1, <1>6 DEF RangeInit, Fields2
<1> QED
  BY <1>5, <1>6, <1>7 DEF RangeInv, Untouched

(* changeDate leaves the dates in order, and the end shown is the end's.   *)
LEMMA ChangeKeepsRange ==
  ASSUME RangeInv, NEW f \in Fields2, NEW t \in RealDays, NEW v \in Views, ChangeDate(f, t, v)
  PROVE  RangeInv'
<1> USE DEF RangeInv
<1>1. PICK e : e = Corrected(f, t)
  OBVIOUS
<1>2. dateOf["start"] \in RealDays /\ dateOf["end"] \in RealDays
  BY DEF RangeTypeOK, Fields2
<1>3. e \in RealDays
  BY <1>1, <1>2 DEF Corrected
<1>4. FirstOf(e) \in Views
  BY <1>3 DEF RealDays, FirstOf, Day, Views
<1>5. RangeTypeOK'
  BY <1>1, <1>3, <1>4 DEF ChangeDate, RangeTypeOK, Fields2
<1>6. ~ Before(e, IF f = "start" THEN t ELSE dateOf["start"])
  BY <1>1, <1>2, BeforeIsOrder DEF Corrected
<1>7. dateOf' = [dateOf EXCEPT ![f] = t, !["end"] = e]
  BY <1>1 DEF ChangeDate
<1>8. dateOf'["end"] = e /\ dateOf'["start"] = IF f = "start" THEN t ELSE dateOf["start"]
  BY <1>7 DEF RangeTypeOK, Fields2
<1>9. ASSUME causes = {} PROVE \A g \in Fields2 : textOf'[g] \in {NoDate, dateOf'[g]}
  BY <1>1, <1>8, <1>9 DEF ChangeDate, RangeTypeOK, Fields2, Untouched
<1>10. causes' = causes
  BY DEF ChangeDate
<1> QED
  BY <1>5, <1>6, <1>8, <1>9, <1>10 DEF Untouched

LEMMA RangeStep == RangeInv /\ [RangeNext]_rangeVars => RangeInv'
<1>1. SUFFICES ASSUME RangeInv, [RangeNext]_rangeVars PROVE RangeInv'
  OBVIOUS
<1>2. \A f \in Fields2 : viewOf[f] \in Views
  BY <1>1 DEF RangeInv, RangeTypeOK
<1>3. ASSUME NEW f \in Fields2, NEW by \in {-1, 0, 1}, NEW n \in Days, PickDay(f, by, n)
      PROVE  RangeInv'
  <2>1. PICK v : v = viewOf[f]
    OBVIOUS
  <2>2. v.y \in Int /\ v.m \in Int
    BY <1>2, <2>1 DEF Views
  <2>3. PICK month : month = NewDate(v.y, v.m + by, 1)
    OBVIOUS
  <2>4. month \in RealDays
    BY <2>2, <2>3, NewDateIsReal
  <2>5. n \in 1 .. DaysInMonth(month.y, month.m) /\ n \in 1 .. 31
    BY <1>3, <2>1, <2>3, <2>4, MonthLength DEF PickDay, RealDays
  <2>6. PICK t : t = Day(month.y, month.m, n)
    OBVIOUS
  <2>7. t \in RealDays
    BY <2>4, <2>5, <2>6 DEF RealDays, Day
  <2>8. PICK w : w = Day(t.y, t.m, IF n > 28 THEN 28 ELSE n)
    OBVIOUS
  <2>9. w \in Views
    BY <2>5, <2>7, <2>8 DEF RealDays, Day, Views
  <2>10. ChangeDate(f, t, w)
    BY <1>3, <2>1, <2>3, <2>6, <2>8 DEF PickDay
  <2> QED
    BY <1>1, <2>7, <2>9, <2>10, ChangeKeepsRange
<1>4. ASSUME NEW f \in Fields2, NEW m \in MonthNos, PickMonth(f, m) PROVE RangeInv'
  <2>1. PICK t : t = [viewOf[f] EXCEPT !.m = m]
    OBVIOUS
  <2>2. t \in Views
    BY <1>2, <2>1, RangeConstants DEF Views
  <2> QED
    BY <1>1, <1>4, <2>1, <2>2, ViewIsReal, ChangeKeepsRange DEF PickMonth
<1>5. ASSUME NEW f \in Fields2, NEW y \in YearNos, PickYear(f, y) PROVE RangeInv'
  <2>1. PICK t : t = [viewOf[f] EXCEPT !.y = y]
    OBVIOUS
  <2>2. t \in Views
    BY <1>2, <2>1, RangeConstants DEF Views
  <2> QED
    BY <1>1, <1>5, <2>1, <2>2, ViewIsReal, ChangeKeepsRange DEF PickYear
<1>6. ASSUME NEW f \in Fields2, NEW by \in {-1, 1}, Turn(f, by) PROVE RangeInv'
  <2>1. PICK v : v = viewOf[f]
    OBVIOUS
  <2>2. v.y \in Int /\ v.m \in Int /\ v.d \in 1 .. 28
    BY <1>2, <2>1 DEF Views
  <2>3. PICK w \in Views : viewOf' = [viewOf EXCEPT ![f] = w]
    <3>1. NewDate(v.y, v.m + by, v.d) \in Views
      BY <2>2, NewDateOfView
    <3>2. NewDate(v.y + by, v.m, v.d) \in Views
      BY <2>2, NewDateOfView
    <3>3. NewDate(v.y + 10 * by, v.m, v.d) \in Views
      BY <2>2, NewDateOfView
    <3> QED
      BY <1>6, <2>1, <3>1, <3>2, <3>3 DEF Turn
  <2>4. RangeTypeOK'
    BY <1>1, <1>6, <2>3 DEF Turn, RangeInv, RangeTypeOK
  <2>5. ASSUME causes' = {} PROVE causes = {} /\ textOf' = textOf
    BY <1>1, <1>6, <2>5 DEF Turn, RangeInv, RangeTypeOK, Untouched
  <2>6. Untouched'
    BY <1>1, <1>6, <2>5 DEF Turn, RangeInv, Untouched
  <2> QED
    BY <2>4, <2>6 DEF RangeInv
<1>7. ASSUME NEW f \in Fields2, NEW t \in Typed \cup {NoDate, Unfinished},
             NEW byKeys \in BOOLEAN, EnterDate(f, t, byKeys)
      PROVE  RangeInv'
  <2>1. ParseDate(t) \in RealDays /\ FirstOf(ParseDate(t)) \in Views
    BY ParsedIsReal
  <2>2. causes' # {}
    BY <1>7 DEF EnterDate
  <2>3. RangeTypeOK'
    BY <1>1, <1>7, <2>1 DEF EnterDate, RangeInv, RangeTypeOK
  <2> QED
    BY <2>2, <2>3 DEF RangeInv, Untouched
<1>8. ASSUME UNCHANGED <<dateOf, textOf, viewOf, causes>> PROVE RangeInv'
  BY <1>1, <1>8 DEF RangeInv, RangeTypeOK, Untouched
<1>9. ASSUME NEW f \in Fields2, ShowMode(f) PROVE RangeInv'
  BY <1>8, <1>9 DEF ShowMode
<1>10. ASSUME NEW f \in Fields2, NEW byMouse \in BOOLEAN, Show(f, byMouse) PROVE RangeInv'
  BY <1>8, <1>10 DEF Show
<1>11. CASE HideAll
  BY <1>8, <1>11 DEF HideAll
<1>12. CASE UNCHANGED rangeVars
  BY <1>8, <1>12 DEF rangeVars
<1> QED
  BY <1>1, <1>3, <1>4, <1>5, <1>6, <1>7, <1>9, <1>10, <1>11, <1>12 DEF RangeNext

(* A search from two chosen dates is for an interval (the handlers of      *)
(* changeDate in sysLog.js), whatever is chosen, turned and displayed.     *)
THEOREM ChosenInOrder == RangeSpec => []IntervalInOrder
<1>1. RangeInv => IntervalInOrder
  <2>1. SUFFICES ASSUME RangeInv, causes = {},
                        {textOf[f] : f \in Fields2} \cap {NoDate, Unfinished} = {}
                 PROVE  ~ Before(ParseDate(textOf["end"]), ParseDate(textOf["start"]))
    BY DEF IntervalInOrder
  <2>2. ASSUME NEW f \in Fields2
        PROVE  /\ textOf[f] \notin {NoDate, Unfinished}
               /\ textOf[f] = dateOf[f] /\ dateOf[f] \in RealDays
    BY <2>1 DEF RangeInv, RangeTypeOK, Untouched
  <2>3. ASSUME NEW f \in Fields2 PROVE ParseDate(textOf[f]) = dateOf[f]
    BY <2>2, NewDateOfReal DEF ParseDate
  <2>4. ~ Before(dateOf["end"], dateOf["start"])
    BY <2>1, <2>2 DEF RangeInv, Untouched, Fields2
  <2> QED
    BY <2>3, <2>4 DEF Fields2
<1> QED
  BY <1>1, RangeInitially, RangeStep, PTL DEF RangeSpec

-----------------------------------------------------------------------------
(* StyledControls.                                                         *)

Listed1 == {elements[i] : i \in DOMAIN elements}
AllValues == Texts2 \cup {NoText} \cup BOOLEAN

ControlsTypeOK ==
  /\ value \in [Controls -> AllValues] /\ drawn \in [Controls -> AllValues]
  /\ styled \subseteq Controls
  /\ elements \in Seq(Controls)
  /\ restored \in BOOLEAN

(* Until something is restored, $.uniform.elements has every control with  *)
(* a wrapper, so that an update of everything reaches them all.            *)
ControlsInv ==
  /\ ControlsTypeOK
  /\ ~ restored => styled \subseteq Listed1
  /\ WrapperShowsValue

-----------------------------------------------------------------------------
LEMMA DrawnHas ==
  ASSUME NEW cs, NEW new, NEW d \in Controls
  PROVE  Draw(cs, new)[d] = IF d \in cs THEN new[d] ELSE drawn[d]
  BY DEF Draw

LEMMA DrawnType ==
  ASSUME ControlsTypeOK, NEW cs, NEW new \in [Controls -> AllValues]
  PROVE  Draw(cs, new) \in [Controls -> AllValues]
  BY DEF Draw, ControlsTypeOK

(* What a value set by the browser changes: a tick of a radio ends those   *)
(* of its group, anything else changes c alone.                            *)
LEMMA ValueSet ==
  ASSUME ControlsTypeOK, NEW c \in Controls, NEW v \in ValuesOf(c)
  PROVE  /\ WithValue(c, v) \in [Controls -> AllValues]
         /\ WithValue(c, v)[c] = v
         /\ \A d \in Controls \ {c} :
              \/ WithValue(c, v)[d] = value[d]
              \/ KindOf[c] = "radio" /\ KindOf[d] = "radio"
<1>1. v \in AllValues /\ FALSE \in AllValues
  BY DEF ValuesOf, AllValues
<1>2. \A d \in Controls :
        WithValue(c, v)[d] = IF d = c THEN v
                             ELSE IF v = TRUE /\ {c, d} \subseteq OfKind("radio") THEN FALSE
                             ELSE value[d]
  BY DEF WithValue
<1>3. WithValue(c, v) \in [Controls -> AllValues]
  BY <1>1 DEF WithValue, ControlsTypeOK
<1>4. \A d \in Controls \ {c} : \/ WithValue(c, v)[d] = value[d]
                                \/ KindOf[c] = "radio" /\ KindOf[d] = "radio"
  BY <1>2 DEF OfKind
<1> QED
  BY <1>2, <1>3, <1>4

LEMMA OneOfGroup ==
  ASSUME NEW c \in Controls, KindOf[c] = "radio", NEW d \in OfKind("radio")
  PROVE  WithValue(c, TRUE)[d] = (d = c)
  BY DEF WithValue, OfKind

LEMMA ControlsInitially == ControlsInit => ControlsInv
<1>1. SUFFICES ASSUME ControlsInit PROVE ControlsInv
  OBVIOUS
<1>2. value \in [Controls -> AllValues]
  BY <1>1 DEF ControlsInit, AllValues
<1>3. elements \in Seq(Controls)
  BY <1>1 DEF ControlsInit
<1> QED
  BY <1>1, <1>2, <1>3 DEF ControlsInit, ControlsInv, ControlsTypeOK, WrapperShowsValue

LEMMA ControlsStep == ControlsInv /\ [ControlsNext]_controlVars => ControlsInv'
<1>1. SUFFICES ASSUME ControlsInv, [ControlsNext]_controlVars PROVE ControlsInv'
  OBVIOUS
<1> USE <1>1 DEF ControlsInv
<1>2. ASSUME NEW c \in Controls, Style(c) PROVE ControlsInv'
  <2>1. drawn' = Draw({c}, value) /\ elements' = Append(elements, c) /\ styled' = styled \cup {c}
        /\ UNCHANGED <<value, restored>> /\ stale' = stale \ {c}
    BY <1>2 DEF Style, StyleSelect, StyleCheckbox, StyleRadio, StyleFile
  <2>2. ControlsTypeOK'
    BY <2>1, DrawnType DEF ControlsTypeOK
  <2>3. \A e \in Controls : e \in Listed1 \/ e = c => e \in Listed1'
    <3>1. elements \in Seq(Controls)
      BY DEF ControlsTypeOK
    <3>2. DOMAIN elements' = 1 .. Len(elements) + 1
      BY <2>1, <3>1
    <3>3. elements'[Len(elements) + 1] = c
      BY <2>1, <3>1
    <3>4. \A i \in DOMAIN elements : i \in DOMAIN elements' /\ elements'[i] = elements[i]
      BY <2>1, <3>1
    <3> QED
      BY <3>1, <3>2, <3>3, <3>4 DEF Listed1
  <2>4. WrapperShowsValue'
    BY <2>1, DrawnHas DEF WrapperShowsValue, ControlsTypeOK
  <2> QED
    BY <2>1, <2>2, <2>3, <2>4 DEF ControlsTypeOK
<1>3. ASSUME NEW c \in Controls, NEW v \in ValuesOf(c), UserSets(c, v) PROVE ControlsInv'
  <2>2. PICK new : new = WithValue(c, v)
    OBVIOUS
  <2>3. /\ new \in [Controls -> AllValues] /\ new[c] = v
        /\ \A d \in Controls \ {c} :
             new[d] = value[d] \/ (KindOf[c] = "radio" /\ KindOf[d] = "radio")
    BY <2>2, ValueSet
  <2>4. value' = new /\ UNCHANGED <<styled, elements, restored>>
    BY <1>3, <2>2 DEF UserSets
  <2>5. CASE c \in styled /\ KindOf[c] = "radio"
    <3>1. v = TRUE
      BY <1>3, <2>5 DEF UserSets, ValuesOf, Ticks, OfKind
    <3>2. PICK on : on = [d \in Controls |-> d = c]
      OBVIOUS
    <3>3. /\ drawn' = Draw(OfKind("radio") \cap styled, on)
          /\ stale' = stale \ OfKind("radio")
      BY <1>3, <2>5, <3>2 DEF UserSets, DrawRadio
    <3>4. \A d \in OfKind("radio") \cap styled : drawn'[d] = new[d]
      <4>1. SUFFICES ASSUME NEW d \in OfKind("radio") \cap styled PROVE drawn'[d] = new[d]
        OBVIOUS
      <4>2. d \in Controls
        BY DEF OfKind
      <4>3. drawn'[d] = on[d]
        BY <3>3, <4>2, DrawnHas
      <4>4. on[d] = (d = c)
        BY <3>2, <4>2
      <4>5. new[d] = (d = c)
        BY <2>2, <2>5, <3>1, OneOfGroup
      <4> QED
        BY <4>3, <4>4, <4>5
    <3>5. \A d \in styled \ OfKind("radio") : drawn'[d] = drawn[d] /\ new[d] = value[d]
      BY <2>3, <2>5, <3>3, DrawnHas DEF OfKind, ControlsTypeOK
    <3>6. on \in [Controls -> AllValues]
      BY <3>2 DEF AllValues
    <3>7. ControlsTypeOK'
      BY <2>3, <2>4, <3>3, <3>6, DrawnType DEF ControlsTypeOK
    <3> QED
      BY <2>4, <3>3, <3>4, <3>5, <3>7 DEF WrapperShowsValue, Listed1
  <2>6. CASE c \in styled /\ KindOf[c] # "radio"
    <3>1. drawn' = Draw({c}, new) /\ stale' = stale \ {c}
      BY <1>3, <2>4, <2>6 DEF UserSets, DrawSelect, DrawCheckbox, DrawFile
    <3>2. ControlsTypeOK'
      BY <2>3, <2>4, <3>1, DrawnType DEF ControlsTypeOK
    <3>3. \A d \in Controls : drawn'[d] = IF d = c THEN new[d] ELSE drawn[d]
      BY <3>1, DrawnHas
    <3> QED
      BY <2>3, <2>4, <2>6, <3>1, <3>2, <3>3 DEF WrapperShowsValue, Listed1, ControlsTypeOK
  <2>7. CASE c \notin styled
    <3>1. drawn' = drawn /\ stale' = stale \cup (Changes(new) \ {c})
      BY <1>3, <2>4, <2>7 DEF UserSets
    <3> QED
      BY <2>3, <2>4, <2>7, <3>1 DEF WrapperShowsValue, Listed1, ControlsTypeOK, Changes
  <2> QED
    BY <2>5, <2>6, <2>7
<1>4. ASSUME NEW c \in Controls, NEW v \in ValuesOf(c), ScriptSets(c, v) PROVE ControlsInv'
  <2>2. PICK new : new = WithValue(c, v)
    OBVIOUS
  <2>3. new \in [Controls -> AllValues]
    BY <2>2, ValueSet
  <2>4. value' = new /\ UNCHANGED <<drawn, styled, elements, restored>>
        /\ stale' = stale \cup (Changes(new) \cap styled)
    BY <1>4, <2>2 DEF ScriptSets
  <2> QED
    BY <2>3, <2>4 DEF WrapperShowsValue, Listed1, ControlsTypeOK, Changes
<1>5. ASSUME NEW c \in Controls, NEW v \in ValuesOf(c), OpenerSets(c, v) PROVE ControlsInv'
  <2>1. v \in AllValues
    BY DEF ValuesOf, AllValues
  <2> QED
    BY <1>5, <2>1 DEF OpenerSets, WrapperShowsValue, Listed1, ControlsTypeOK
<1>6. ASSUME NEW c \in Controls, UpdateOne(c) PROVE ControlsInv'
  <2>1. /\ drawn' = Draw({c} \ OfKind("file"), value) /\ stale' = stale \ ({c} \ OfKind("file"))
        /\ UNCHANGED <<value, styled, elements, restored>>
    BY <1>6 DEF UpdateOne, Update
  <2>2. ControlsTypeOK'
    BY <2>1, DrawnType DEF ControlsTypeOK
  <2>3. ASSUME NEW d \in styled, d \notin stale'
        PROVE  drawn'[d] = value[d]
    <3>1. drawn'[d] = IF d \in {c} \ OfKind("file") THEN value[d] ELSE drawn[d]
      BY <2>1, DrawnHas DEF ControlsTypeOK
    <3> QED
      BY <2>1, <2>3, <3>1 DEF WrapperShowsValue
  <2> QED
    BY <2>1, <2>2, <2>3 DEF WrapperShowsValue, Listed1
<1>7. CASE UpdateAll
  <2>1. /\ drawn' = Draw((Listed1 \cap styled) \ OfKind("file"), value)
        /\ stale' = IF restored THEN stale \ (Listed1 \ OfKind("file"))
                    ELSE stale \cap OfKind("file")
        /\ UNCHANGED <<value, styled, elements, restored>>
    BY <1>7 DEF UpdateAll, Update, Listed1
  <2>2. ControlsTypeOK'
    BY <2>1, DrawnType DEF ControlsTypeOK
  <2>3. ASSUME NEW d \in styled, d \notin stale'
        PROVE  drawn'[d] = value[d]
    <3>1. drawn'[d] = IF d \in (Listed1 \cap styled) \ OfKind("file") THEN value[d] ELSE drawn[d]
      BY <2>1, DrawnHas DEF ControlsTypeOK
    <3>2. d \notin (Listed1 \cap styled) \ OfKind("file") => d \notin stale
      BY <2>1, <2>3
    <3> QED
      BY <3>1, <3>2 DEF WrapperShowsValue
  <2> QED
    BY <2>1, <2>2, <2>3 DEF WrapperShowsValue, Listed1
<1>8. ASSUME NEW c \in Controls, Restore(c) PROVE ControlsInv'
  <2>1. elements \in Seq(Controls)
    BY DEF ControlsTypeOK
  <2>2. elements' \in Seq(Controls)
    BY <1>8, <2>1 DEF Restore, Front
  <2> QED
    BY <1>8, <2>2 DEF Restore, WrapperShowsValue, ControlsTypeOK
<1>9. CASE UNCHANGED controlVars
  BY <1>9 DEF controlVars, WrapperShowsValue, Listed1, ControlsTypeOK
<1> QED
  BY <1>1, <1>2, <1>3, <1>4, <1>5, <1>6, <1>7, <1>8, <1>9 DEF ControlsNext

(* A wrapper shows what its control holds unless a script set it without a *)
(* word (jquery.uniform.js), for any controls and any number of steps.     *)
THEOREM WrappersRight == ControlsSpec => []WrapperShowsValue
<1>1. ControlsInv => WrapperShowsValue
  BY DEF ControlsInv
<1> QED
  BY <1>1, ControlsInitially, ControlsStep, PTL DEF ControlsSpec

-----------------------------------------------------------------------------
(* Uploads.                                                                *)

FileIds == [file : Files \cup {NoFile}, opening : Nat]
Jobs == [input : {"config", "image", "video"}, file : Files, opening : Nat]

UploadTypeOK ==
  /\ oldIE \in BOOLEAN /\ window \in {"new", "edit", "config"}
  /\ opening \in Nat
  /\ type \in Inputs /\ row = type
  /\ chosen \in [Inputs -> Files \cup {NoFile}]
  /\ fileId \in [Inputs -> FileIds]
  /\ busy \subseteq Inputs
  /\ uploads \in Seq(Jobs)
  /\ saved.id \in FileIds /\ saved.opening \in Nat

(* No file but an allowed one gets anywhere, neither into an input nor     *)
(* into an upload, an answer or a save.                                    *)
OnlyAllowed ==
  /\ \A i \in Inputs : /\ chosen[i] # NoFile => SizeAllowed(chosen[i])
                       /\ fileId[i].file # NoFile => SizeAllowed(fileId[i].file)
  /\ \A j \in DOMAIN uploads : SizeAllowed(uploads[j].file)
  /\ saved.id.file # NoFile => SizeAllowed(saved.id.file)

(* An id in the form is from this opening, unless an answer was late.      *)
OfThisOpening ==
  /\ ~ late => \A i \in Inputs : fileId[i].opening \in {0, opening}
  /\ saved.opening > 0 /\ ~ late => saved.id.opening \in {0, saved.opening}

(* The input of an upload is busy, and has that upload only.               *)
BusyWhileUploading ==
  /\ \A j \in DOMAIN uploads : uploads[j].input \in busy
  /\ \A j, k \in DOMAIN uploads : uploads[j].input = uploads[k].input => j = k

UploadsInv == UploadTypeOK /\ OnlyAllowed /\ OfThisOpening /\ BusyWhileUploading

-----------------------------------------------------------------------------
LEMMA RemovedAt ==
  ASSUME NEW S, NEW s \in Seq(S), NEW j \in DOMAIN s
  PROVE  /\ RemoveAt(s, j) \in Seq(S)
         /\ DOMAIN RemoveAt(s, j) = 1 .. Len(s) - 1
         /\ \A k \in 1 .. Len(s) - 1 :
              RemoveAt(s, j)[k] = IF k < j THEN s[k] ELSE s[k + 1]
<1>1. j \in 1 .. Len(s) /\ Len(s) \in Nat
  OBVIOUS
<1>2. PICK a : a = SubSeq(s, 1, j - 1)
  OBVIOUS
<1>3. PICK b : b = SubSeq(s, j + 1, Len(s))
  OBVIOUS
<1>4. a \in Seq(S) /\ Len(a) = j - 1 /\ \A k \in 1 .. j - 1 : a[k] = s[k]
  BY <1>1, <1>2
<1>5. b \in Seq(S) /\ Len(b) = Len(s) - j /\ \A k \in 1 .. Len(s) - j : b[k] = s[k + j]
  BY <1>1, <1>3
<1>6. RemoveAt(s, j) = a \o b
  BY <1>2, <1>3 DEF RemoveAt
<1>7. a \o b \in Seq(S) /\ Len(a \o b) = Len(s) - 1
  BY <1>1, <1>4, <1>5
<1>8. DOMAIN (a \o b) = 1 .. Len(s) - 1
  BY <1>7
<1>9. ASSUME NEW k \in 1 .. Len(s) - 1
      PROVE  (a \o b)[k] = IF k < j THEN s[k] ELSE s[k + 1]
  BY <1>1, <1>4, <1>5
<1> QED
  BY <1>6, <1>7, <1>8, <1>9

LEMMA UploadsInitially == UploadsInit => UploadsInv
  BY DEF UploadsInit, UploadsInv, UploadTypeOK, OnlyAllowed, OfThisOpening,
         BusyWhileUploading, FileIds, NoId, Inputs, InputsOf

(* An upload starts from an input that was not busy.                       *)
LEMMA StartKeeps ==
  ASSUME UploadsInv, NEW i \in Inputs, i \notin busy, NEW f \in Files, SizeAllowed(f),
         Start(i, f), UNCHANGED <<oldIE, window, opening, type, row, fileId, saved, late>>
  PROVE  UploadsInv'
<1> USE DEF UploadsInv
<1>1. PICK job : job = [input |-> i, file |-> f, opening |-> opening]
  OBVIOUS
<1>2. job \in Jobs
  BY <1>1 DEF Jobs, UploadTypeOK, Inputs, InputsOf
<1>3. uploads' = Append(uploads, job) /\ busy' = busy \cup {i}
  BY <1>1 DEF Start
<1>4. uploads \in Seq(Jobs)
  BY DEF UploadTypeOK
<1>5. /\ uploads' \in Seq(Jobs) /\ DOMAIN uploads' = 1 .. Len(uploads) + 1
      /\ uploads'[Len(uploads) + 1] = job
      /\ \A j \in DOMAIN uploads : uploads'[j] = uploads[j]
      /\ DOMAIN uploads = 1 .. Len(uploads) /\ Len(uploads) \in Nat
  BY <1>2, <1>3, <1>4
<1>6. PICK g \in {f, NoFile} : chosen' = [chosen EXCEPT ![i] = g]
  BY DEF Start
<1>7. Inputs' = Inputs
  BY DEF Inputs
<1>8. UploadTypeOK'
  BY <1>3, <1>5, <1>6, <1>7 DEF UploadTypeOK
<1>9. OnlyAllowed'
  BY <1>1, <1>5, <1>6, <1>7 DEF OnlyAllowed, UploadTypeOK, SizeAllowed
<1>10. BusyWhileUploading'
  <2>1. \A j \in DOMAIN uploads : uploads'[j].input \in busy
    BY <1>5 DEF BusyWhileUploading
  <2>2. uploads'[Len(uploads) + 1].input = i
    BY <1>1, <1>5
  <2> QED
    BY <1>3, <1>5, <2>1, <2>2 DEF BusyWhileUploading
<1> QED
  BY <1>7, <1>8, <1>9, <1>10 DEF OfThisOpening

(* What is left when the frame of upload j has loaded.                     *)
LEMMA LoadedLeaves ==
  ASSUME UploadsInv, NEW j \in DOMAIN uploads, Loaded1(j)
  PROVE  /\ uploads' \in Seq(Jobs) /\ busy' \subseteq Inputs
         /\ \A k \in DOMAIN uploads' : SizeAllowed(uploads'[k].file)
         /\ BusyWhileUploading'
<1> USE DEF UploadsInv
<1>1. uploads \in Seq(Jobs) /\ Len(uploads) \in Nat /\ j \in 1 .. Len(uploads)
  BY DEF UploadTypeOK
<1>2. uploads' = RemoveAt(uploads, j) /\ busy' = busy \ {uploads[j].input}
  BY DEF Loaded1
<1>3. /\ uploads' \in Seq(Jobs) /\ DOMAIN uploads' = 1 .. Len(uploads) - 1
      /\ \A k \in 1 .. Len(uploads) - 1 :
           uploads'[k] = IF k < j THEN uploads[k] ELSE uploads[k + 1]
  BY <1>1, <1>2, RemovedAt
<1>4. ASSUME NEW k \in DOMAIN uploads'
      PROVE  \E n \in DOMAIN uploads \ {j} : /\ uploads'[k] = uploads[n]
                                             /\ n = IF k < j THEN k ELSE k + 1
  BY <1>1, <1>3
<1>5. \A k \in DOMAIN uploads' : SizeAllowed(uploads'[k].file)
  BY <1>4 DEF OnlyAllowed
<1>6. \A k \in DOMAIN uploads' : uploads'[k].input \in busy'
  BY <1>2, <1>4 DEF BusyWhileUploading
<1>7. ASSUME NEW k \in DOMAIN uploads', NEW l \in DOMAIN uploads',
             uploads'[k].input = uploads'[l].input
      PROVE  k = l
  <2>1. PICK m \in DOMAIN uploads : uploads'[k] = uploads[m] /\ m = IF k < j THEN k ELSE k + 1
    BY <1>4
  <2>2. PICK n \in DOMAIN uploads : uploads'[l] = uploads[n] /\ n = IF l < j THEN l ELSE l + 1
    BY <1>4
  <2>3. m = n
    BY <1>7, <2>1, <2>2 DEF BusyWhileUploading
  <2> QED
    BY <1>1, <1>3, <2>1, <2>2, <2>3
<1>8. busy' \subseteq Inputs
  BY <1>2 DEF UploadTypeOK
<1> QED
  BY <1>3, <1>5, <1>6, <1>7, <1>8 DEF BusyWhileUploading

LEMMA UploadsStep == UploadsInv /\ [UploadsNext]_uploadVars => UploadsInv'
<1>1. SUFFICES ASSUME UploadsInv, [UploadsNext]_uploadVars PROVE UploadsInv'
  OBVIOUS
<1> USE DEF UploadsInv
<1>2. ASSUME window' = window, oldIE' = oldIE
      PROVE  Inputs' = Inputs /\ \A f : SizeAllowed(f)' <=> SizeAllowed(f)
  BY <1>2 DEF Inputs, SizeAllowed
<1>3. ASSUME NEW k \in Inputs, Reopen(k) PROVE UploadsInv'
  <2>1. Inputs' = Inputs
    BY <1>2, <1>3 DEF Reopen, UserSteps
  <2>2. opening' \in Nat
    BY <1>1, <1>3 DEF Reopen, UploadTypeOK
  <2>3. /\ fileId' \in [Inputs -> FileIds]
        /\ \A i \in Inputs : fileId'[i].file = NoFile /\ fileId'[i].opening \in {0, opening'}
    BY <1>3, <2>2 DEF Reopen, FileIds, NoId
  <2>4. /\ chosen' \in [Inputs -> Files \cup {NoFile}]
        /\ \A i \in Inputs : chosen'[i] \in {chosen[i], NoFile}
    BY <1>1, <1>3 DEF Reopen, UploadTypeOK
  <2>5. UploadTypeOK'
    BY <1>1, <1>3, <2>1, <2>2, <2>3, <2>4 DEF Reopen, UserSteps, UploadTypeOK
  <2>6. OnlyAllowed'
    BY <1>1, <1>3, <2>1, <2>3, <2>4 DEF Reopen, UserSteps, OnlyAllowed, SizeAllowed
  <2> QED
    BY <1>1, <1>3, <2>1, <2>3, <2>5, <2>6 DEF Reopen, OfThisOpening, BusyWhileUploading
<1>4. ASSUME NEW i \in Inputs, NEW f \in Files, ChooseFile(i, f) PROVE UploadsInv'
  <2>1. UNCHANGED <<oldIE, window, opening, type, row, fileId, saved, late>>
    BY <1>4 DEF ChooseFile, UserSteps
  <2>2. Inputs' = Inputs
    BY <1>2, <2>1
  <2>3. CASE ~ Accepted(f) \/ ~ SizeAllowed(f) \/ i = "config" \/ oldIE
    <3>1. PICK g \in Files \cup {NoFile} :
            chosen' = [chosen EXCEPT ![i] = g] /\ (g = NoFile \/ SizeAllowed(g))
      BY <1>4, <2>3 DEF ChooseFile, SizeAllowed
    <3>2. UNCHANGED <<busy, uploads>>
      BY <1>4, <2>3 DEF ChooseFile
    <3>3. UploadTypeOK'
      BY <1>1, <2>1, <2>2, <3>1, <3>2 DEF UploadTypeOK
    <3>4. OnlyAllowed'
      BY <1>1, <2>1, <2>2, <3>1, <3>2 DEF UploadTypeOK, OnlyAllowed, SizeAllowed
    <3> QED
      BY <1>1, <2>1, <2>2, <3>2, <3>3, <3>4 DEF OfThisOpening, BusyWhileUploading
  <2>4. CASE ~ (~ Accepted(f) \/ ~ SizeAllowed(f) \/ i = "config" \/ oldIE)
    <3>1. Start(i, f) /\ i \notin busy /\ SizeAllowed(f)
      BY <1>4, <2>4 DEF ChooseFile
    <3> QED
      BY <1>1, <2>1, <3>1, StartKeeps
  <2> QED
    BY <2>3, <2>4
<1>5. CASE UploadConfig
  <2>1. PICK f : f = chosen["config"]
    OBVIOUS
  <2>2. "config" \in Inputs /\ f \in Files /\ SizeAllowed(f) /\ "config" \notin busy
    BY <1>1, <1>5, <2>1 DEF UploadConfig, Inputs, InputsOf, UploadTypeOK, OnlyAllowed
  <2>3. Start("config", f)
    BY <1>5, <2>1 DEF UploadConfig
  <2>4. UNCHANGED <<oldIE, window, opening, type, row, fileId, saved, late>>
    BY <1>5 DEF UploadConfig, UserSteps
  <2> QED
    BY <1>1, <2>2, <2>3, <2>4, StartKeeps
<1>6. ASSUME NEW k \in Inputs, ChangeType(k) PROVE UploadsInv'
  <2>1. Inputs' = Inputs
    BY <1>2, <1>6 DEF ChangeType, UserSteps
  <2> QED
    BY <1>1, <1>6, <2>1 DEF ChangeType, UserSteps, UploadTypeOK, OnlyAllowed, SizeAllowed,
                            OfThisOpening, BusyWhileUploading
<1>7. CASE SaveWithFile
  <2>1. Inputs' = Inputs
    BY <1>2, <1>7 DEF SaveWithFile, UserSteps
  <2>2. saved'.id = fileId[type] /\ saved'.opening = opening
    BY <1>7 DEF SaveWithFile
  <2>3. UploadTypeOK'
    BY <1>1, <1>7, <2>1, <2>2 DEF SaveWithFile, UserSteps, UploadTypeOK
  <2>4. OnlyAllowed'
    BY <1>1, <1>7, <2>1, <2>2 DEF SaveWithFile, UserSteps, UploadTypeOK, OnlyAllowed, SizeAllowed
  <2> QED
    BY <1>1, <1>7, <2>1, <2>2, <2>3, <2>4
    DEF SaveWithFile, UploadTypeOK, OfThisOpening, BusyWhileUploading
<1>8. ASSUME NEW j \in DOMAIN uploads, UploadDone(j) PROVE UploadsInv'
  <2>1. Loaded1(j) /\ UNCHANGED <<oldIE, window, opening, type, row, saved>>
    BY <1>8 DEF UploadDone, Loaded1
  <2>2. Inputs' = Inputs
    BY <1>2, <2>1
  <2>3. PICK u : u = uploads[j]
    OBVIOUS
  <2>4. u \in Jobs /\ u.input \in Inputs /\ SizeAllowed(u.file)
    BY <1>1, <2>3 DEF UploadTypeOK, OnlyAllowed, BusyWhileUploading
  <2>5. PICK d : d = [file |-> u.file, opening |-> u.opening]
    OBVIOUS
  <2>6. d \in FileIds /\ d.file = u.file /\ d.opening = u.opening
    BY <2>4, <2>5 DEF Jobs, FileIds
  <2>7. /\ fileId' = [fileId EXCEPT ![u.input] = d]
        /\ late' = (late \/ u.opening # opening)
    BY <1>8, <2>3, <2>5 DEF UploadDone
  <2>8. /\ chosen' \in [Inputs -> Files \cup {NoFile}]
        /\ \A i \in Inputs : chosen'[i] \in {chosen[i], NoFile}
    BY <1>1, <1>8 DEF UploadDone, UploadTypeOK
  <2>9. /\ uploads' \in Seq(Jobs) /\ busy' \subseteq Inputs
        /\ \A k \in DOMAIN uploads' : SizeAllowed(uploads'[k].file)
        /\ BusyWhileUploading'
    BY <1>1, <2>1, LoadedLeaves
  <2>10. UploadTypeOK'
    BY <1>1, <2>1, <2>2, <2>4, <2>6, <2>7, <2>8, <2>9 DEF UploadTypeOK
  <2>11. \A i \in Inputs : fileId'[i] = IF i = u.input THEN d ELSE fileId[i]
    BY <1>1, <2>7 DEF UploadTypeOK
  <2>12. OnlyAllowed'
    BY <1>1, <2>1, <2>2, <2>4, <2>6, <2>8, <2>9, <2>11 DEF OnlyAllowed, SizeAllowed
  <2>13. OfThisOpening'
    BY <1>1, <2>1, <2>2, <2>6, <2>7, <2>11 DEF OfThisOpening
  <2> QED
    BY <2>9, <2>10, <2>12, <2>13
<1>9. ASSUME NEW j \in DOMAIN uploads, UploadFails(j) PROVE UploadsInv'
  <2>1. Loaded1(j) /\ UNCHANGED <<oldIE, window, opening, type, row, saved, chosen, fileId, late>>
    BY <1>9 DEF UploadFails, Loaded1
  <2>2. Inputs' = Inputs
    BY <1>2, <2>1
  <2>3. /\ uploads' \in Seq(Jobs) /\ busy' \subseteq Inputs
        /\ \A k \in DOMAIN uploads' : SizeAllowed(uploads'[k].file)
        /\ BusyWhileUploading'
    BY <1>1, <2>1, LoadedLeaves
  <2>4. UploadTypeOK'
    BY <1>1, <2>1, <2>2, <2>3 DEF UploadTypeOK
  <2> QED
    BY <1>1, <2>1, <2>2, <2>3, <2>4 DEF OnlyAllowed, SizeAllowed, OfThisOpening
<1>10. CASE UNCHANGED uploadVars
  <2>1. Inputs' = Inputs
    BY <1>2, <1>10 DEF uploadVars
  <2> QED
    BY <1>1, <1>10, <2>1 DEF uploadVars, UploadTypeOK, OnlyAllowed, SizeAllowed,
                             OfThisOpening, BusyWhileUploading
<1> QED
  BY <1>1, <1>3, <1>4, <1>5, <1>6, <1>7, <1>8, <1>9, <1>10 DEF UploadsNext

(* The file a save sends is its form's, of an allowed size, and never      *)
(* overtaken (materialManage.js, sysConfig.js on ajaxfileupload.js), for   *)
(* any files, openings and order of answers.                               *)
THEOREM FilesOfTheirForms == UploadsSpec => []FileIsOfItsForm
<1>1. UploadsInv => FileIsOfItsForm
  BY DEF UploadsInv, UploadTypeOK, OnlyAllowed, OfThisOpening, BusyWhileUploading,
         SizeAllowed, FileIsOfItsForm
<1> QED
  BY <1>1, UploadsInitially, UploadsStep, PTL DEF UploadsSpec

-----------------------------------------------------------------------------
(* FormChecks.                                                             *)

SpecialFields == {"pass", "confirm", "email"}

(* The fields of the form in front have texts, and a password is trimmed.  *)
TextsInv ==
  /\ form \in AllForms
  /\ text = [x \in FieldsIn(form) |-> text[x]]
  /\ "pass" \in FieldsIn(form) => text["pass"] # "blank"
  /\ told # DiffersLookedFor

(* A confirmation that was looked at after the password is marked unless   *)
(* it equals the password, and said to differ only if it does.             *)
ConfirmJudged(txt, m, c) ==
  /\ "confirm" \notin m => txt["confirm"] = txt["pass"]
  /\ "confirm" \in m /\ c = DiffersWritten => txt["confirm"] # txt["pass"]

ChecksInv ==
  /\ TextsInv
  /\ leftAfter => "confirm" \in FieldsIn(form) /\ ConfirmJudged(text, wrong, told)
  /\ SentAsMeant

-----------------------------------------------------------------------------
(* The forms: which of their fields have a check of their own.             *)
LEMMA FormFacts ==
  ASSUME NEW f \in AllForms
  PROVE  /\ DOMAIN FormOf(f).checks \cap SpecialFields = {}
         /\ FormOf(f).again \cap SpecialFields \subseteq Special(f)
         /\ "confirm" \in FormOf(f).again <=> f = "own"
         /\ f \in {"own", "userPass"} => "confirm" \in FormOf(f).tests
         /\ f = "own" => "pass" \in FormOf(f).again
<1> USE DEF FormOf, Form, SpecialFields, Special
<1>1. CASE f = "ownInfo"
  BY <1>1 DEF OwnInfo
<1>2. CASE f = "own"
  BY <1>2 DEF OwnPassword
<1>3. CASE f = "newUser"
  BY <1>3 DEF NewUser
<1>4. CASE f = "changeUser"
  BY <1>4 DEF ChangeUser
<1>5. CASE f = "userPass"
  BY <1>5 DEF UserPassword
<1>6. CASE f = "role"
  BY <1>6 DEF NewRole
<1>7. CASE f = "material"
  BY <1>7 DEF NewMaterial
<1>8. CASE f = "mockData"
  BY <1>8 DEF NewMockData
<1>9. CASE f = "config"
  BY <1>9 DEF ConfigValue
<1> QED
  BY <1>1, <1>2, <1>3, <1>4, <1>5, <1>6, <1>7, <1>8, <1>9 DEF AllForms

LEMMA PasswordWithConfirm ==
  ASSUME NEW f \in AllForms
  PROVE  /\ "pass" \in FieldsIn(f) <=> "confirm" \in FieldsIn(f)
         /\ "confirm" \in FieldsIn(f) <=> f \in {"own", "newUser", "userPass"}
  BY FormFacts DEF FieldsIn, Special, SpecialFields

LEMMA Trimmed == \A t : Trim(t) # "blank" /\ Trim(Trim(t)) = Trim(t) /\ (t # "blank" => Trim(t) = t)
  BY DEF Trim

(* What the check of a password leaves: the message it looks for is never  *)
(* there, so that it takes no mark away but its own.                       *)
LEMMA PasswordChecked ==
  ASSUME NEW s, s.told # DiffersLookedFor
  PROVE  /\ CheckPassword(s).text = [s.text EXCEPT !["pass"] = Trim(s.text["pass"])]
         /\ CheckPassword(s).told = s.told
         /\ \A x : x # "pass" => (x \in CheckPassword(s).wrong <=> x \in s.wrong)
  BY DEF CheckPassword, State

EmailKept(t) == IF t = "blank" THEN "empty" ELSE t

LEMMA EmailChecked ==
  ASSUME NEW s
  PROVE  /\ CheckEmail(s).text = [s.text EXCEPT !["email"] = EmailKept(s.text["email"])]
         /\ CheckEmail(s).told = s.told
         /\ \A x : x # "email" => (x \in CheckEmail(s).wrong <=> x \in s.wrong)
<1>1. \A t : \/ MarkedEmail(s.wrong, "email", t) = s.wrong \ {"email"}
             \/ MarkedEmail(s.wrong, "email", t) = s.wrong \cup {"email"}
             \/ MarkedEmail(s.wrong, "email", t) = s.wrong
  BY DEF MarkedEmail
<1> QED
  BY <1>1 DEF CheckEmail, State, EmailKept

(* What the check of a confirmation leaves is right.                       *)
LEMMA ConfirmChecked ==
  ASSUME NEW s, {"pass", "confirm"} \subseteq DOMAIN s.text, s.told # DiffersLookedFor,
         s.text = [x \in DOMAIN s.text |-> s.text[x]]
  PROVE  /\ CheckConfirm(s).text = [s.text EXCEPT !["confirm"] = Trim(s.text["confirm"])]
         /\ CheckConfirm(s).told # DiffersLookedFor
         /\ \A x : x # "confirm" => (x \in CheckConfirm(s).wrong <=> x \in s.wrong)
         /\ ConfirmJudged(CheckConfirm(s).text, CheckConfirm(s).wrong, CheckConfirm(s).told)
<1>1. PICK t : t = Trim(s.text["confirm"])
  OBVIOUS
<1>2. PICK now : now = CASE t = "empty" -> "missing"
               [] t # "empty" /\ t # s.text["pass"] -> DiffersWritten
               [] t # "empty" /\ t = s.text["pass"] /\ Refuses(UserPasswordCheck, t) -> "refused"
               [] OTHER -> "fine"
  OBVIOUS
<1>3. now = IF t = "empty" THEN "missing" ELSE IF t # s.text["pass"] THEN DiffersWritten
            ELSE IF Refuses(UserPasswordCheck, t) THEN "refused" ELSE "fine"
  BY <1>2
<1>4. CheckConfirm(s) =
        State([s.text EXCEPT !["confirm"] = t],
              IF now = "fine" THEN s.wrong \ {"confirm"} ELSE s.wrong \cup {"confirm"},
              IF now = "fine" THEN s.told ELSE now)
  BY <1>1, <1>2 DEF CheckConfirm
<1>5. /\ CheckConfirm(s).text = [s.text EXCEPT !["confirm"] = t]
      /\ CheckConfirm(s).wrong = IF now = "fine" THEN s.wrong \ {"confirm"}
                                ELSE s.wrong \cup {"confirm"}
      /\ CheckConfirm(s).told = IF now = "fine" THEN s.told ELSE now
  BY <1>4 DEF State
<1>6. CheckConfirm(s).text["confirm"] = t /\ CheckConfirm(s).text["pass"] = s.text["pass"]
  BY <1>5
<1>7. "fine" # DiffersWritten /\ now # DiffersLookedFor
  BY <1>3 DEF DiffersWritten, DiffersLookedFor
<1>8. /\ now = "fine" => t = s.text["pass"]
      /\ now = DiffersWritten => t # s.text["pass"]
  BY <1>3 DEF DiffersWritten
<1> QED
  BY <1>1, <1>5, <1>6, <1>7, <1>8 DEF ConfirmJudged

(* What the checks of a save leave.                                        *)
LEMMA AgainChecked ==
  ASSUME TextsInv, NEW s, s = CheckedAgain(Now)
  PROVE  /\ s.text = [x \in FieldsIn(form) |-> s.text[x]]
         /\ "pass" \in FieldsIn(form) => s.text["pass"] # "blank"
         /\ s.told # DiffersLookedFor
         /\ \A x \in DOMAIN FormOf(form).checks \cap FormOf(form).again :
              /\ x \notin s.wrong => ~ Refuses(FormOf(form).checks[x], Trim(text[x]))
              /\ Trim(s.text[x]) = Trim(text[x])
         /\ form # "own" /\ "confirm" \in FieldsIn(form) =>
              /\ s.text["confirm"] = text["confirm"] /\ s.text["pass"] = text["pass"]
              /\ "confirm" \in s.wrong <=> "confirm" \in wrong
              /\ s.told = told
         /\ form = "own" => ConfirmJudged(s.text, s.wrong, s.told)
<1> USE DEF TextsInv
<1>1. PICK again : again = FormOf(form).again
  OBVIOUS
<1>2. PICK common : common = again \ {"pass", "confirm", "email"}
  OBVIOUS
<1>3. PICK plain : plain =
        State([f \in FieldsIn(form) |-> IF f \in common /\ form # "config"
                                       THEN Trim(text[f]) ELSE text[f]],
              (wrong \ common) \cup
                {f \in common : Refuses(FormOf(form).checks[f], Trim(text[f]))},
              told)
  OBVIOUS
<1>4. PICK mailed : mailed = IF "email" \in again THEN CheckEmail(plain) ELSE plain
  OBVIOUS
<1>5. PICK passed : passed = IF "pass" \in again THEN CheckPassword(mailed) ELSE mailed
  OBVIOUS
<1>6. s = IF "confirm" \in again THEN CheckConfirm(passed) ELSE passed
  <2>1. Now.text = text /\ Now.wrong = wrong /\ Now.told = told /\ DOMAIN text = FieldsIn(form)
    BY DEF Now, State
  <2>2. plain =
          State([f \in DOMAIN Now.text |-> IF f \in common /\ form # "config"
                                          THEN Trim(Now.text[f]) ELSE Now.text[f]],
                (Now.wrong \ common) \cup
                  {f \in common : Refuses(FormOf(form).checks[f], Trim(Now.text[f]))},
                Now.told)
    BY <1>3, <2>1
  <2> QED
    BY <1>1, <1>2, <1>4, <1>5, <2>2 DEF CheckedAgain
<1>7. /\ plain.text = [f \in FieldsIn(form) |-> IF f \in common /\ form # "config"
                                                THEN Trim(text[f]) ELSE text[f]]
      /\ plain.wrong = (wrong \ common) \cup
                         {f \in common : Refuses(FormOf(form).checks[f], Trim(text[f]))}
      /\ plain.told = told
  BY <1>3 DEF State
<1>8. /\ mailed.text = [x \in FieldsIn(form) |-> mailed.text[x]]
      /\ \A x \in FieldsIn(form) \ {"email"} : mailed.text[x] = plain.text[x]
      /\ mailed.told = told
      /\ \A x : x # "email" => (x \in mailed.wrong <=> x \in plain.wrong)
  BY <1>4, <1>7, EmailChecked
<1>9. "pass" \in FieldsIn(form) => mailed.text["pass"] = text["pass"] /\ Trim(text["pass"]) = text["pass"]
  BY <1>2, <1>7, <1>8, Trimmed
<1>10. /\ passed.text = [x \in FieldsIn(form) |-> passed.text[x]]
       /\ \A x \in FieldsIn(form) \ {"email"} : passed.text[x] = plain.text[x]
       /\ passed.told = told
       /\ \A x : x \notin {"email", "pass"} => (x \in passed.wrong <=> x \in plain.wrong)
  <2>1. CASE "pass" \notin again
    BY <1>5, <1>8, <2>1
  <2>2. CASE "pass" \in again
    <3>1. passed = CheckPassword(mailed) /\ mailed.told # DiffersLookedFor
      BY <1>5, <1>8, <2>2
    <3>2. /\ passed.text = [mailed.text EXCEPT !["pass"] = Trim(mailed.text["pass"])]
          /\ passed.told = mailed.told
          /\ \A x : x # "pass" => (x \in passed.wrong <=> x \in mailed.wrong)
      BY <3>1, PasswordChecked
    <3>3. passed.text = [x \in FieldsIn(form) |-> passed.text[x]]
      BY <1>8, <3>2
    <3>4. \A x \in FieldsIn(form) : passed.text[x] = mailed.text[x]
      BY <1>8, <1>9, <3>2
    <3> QED
      BY <1>8, <3>2, <3>3, <3>4
  <2> QED
    BY <2>1, <2>2
<1>11. /\ s.text = [x \in FieldsIn(form) |-> s.text[x]]
       /\ \A x \in FieldsIn(form) \ {"email", "confirm"} : s.text[x] = plain.text[x]
       /\ s.told # DiffersLookedFor
       /\ \A x : x \notin {"email", "pass", "confirm"} => (x \in s.wrong <=> x \in plain.wrong)
       /\ form # "own" => s = passed
       /\ form = "own" => ConfirmJudged(s.text, s.wrong, s.told)
  <2>1. CASE form # "own"
    BY <1>1, <1>6, <1>10, <2>1, FormFacts
  <2>2. CASE form = "own"
    <3>1. s = CheckConfirm(passed)
      BY <1>1, <1>6, <2>2, FormFacts
    <3>2. {"pass", "confirm"} \subseteq FieldsIn(form)
      BY <2>2, PasswordWithConfirm
    <3>3. DOMAIN passed.text = FieldsIn(form) /\ passed.told # DiffersLookedFor
      BY <1>10
    <3>4. passed.text = [x \in DOMAIN passed.text |-> passed.text[x]]
      BY <1>10, <3>3
    <3>5. /\ s.text = [passed.text EXCEPT !["confirm"] = Trim(passed.text["confirm"])]
          /\ s.told # DiffersLookedFor
          /\ \A x : x # "confirm" => (x \in s.wrong <=> x \in passed.wrong)
          /\ ConfirmJudged(s.text, s.wrong, s.told)
      BY <3>1, <3>2, <3>3, <3>4, ConfirmChecked
    <3>6. /\ s.text = [x \in FieldsIn(form) |-> s.text[x]]
          /\ \A x \in FieldsIn(form) \ {"confirm"} : s.text[x] = passed.text[x]
      BY <1>10, <3>3, <3>5
    <3> QED
      BY <1>10, <2>2, <3>5, <3>6
  <2> QED
    BY <2>1, <2>2
<1>12. "pass" \in FieldsIn(form) => s.text["pass"] = text["pass"]
  BY <1>2, <1>7, <1>11
<1>13. ASSUME NEW x \in DOMAIN FormOf(form).checks \cap FormOf(form).again
       PROVE  /\ x \notin s.wrong => ~ Refuses(FormOf(form).checks[x], Trim(text[x]))
              /\ Trim(s.text[x]) = Trim(text[x])
  <2>1. x \in common /\ x \in FieldsIn(form) /\ x \notin {"pass", "confirm", "email"}
    BY <1>1, <1>2, FormFacts DEF FieldsIn, SpecialFields
  <2>2. x \in s.wrong <=> Refuses(FormOf(form).checks[x], Trim(text[x]))
    BY <1>7, <1>11, <2>1
  <2>3. s.text[x] \in {text[x], Trim(text[x])}
    BY <1>7, <1>11, <2>1
  <2> QED
    BY <2>2, <2>3, Trimmed
<1>14. ASSUME form # "own", "confirm" \in FieldsIn(form)
       PROVE  /\ s.text["confirm"] = text["confirm"] /\ s.text["pass"] = text["pass"]
              /\ "confirm" \in s.wrong <=> "confirm" \in wrong
              /\ s.told = told
  <2>1. s = passed
    BY <1>11, <1>14
  <2>2. "confirm" \notin common
    BY <1>2
  <2> QED
    BY <1>7, <1>10, <1>12, <1>14, <2>1, <2>2, PasswordWithConfirm
<1> QED
  BY <1>11, <1>12, <1>13, <1>14

-----------------------------------------------------------------------------
LEMMA ChecksInitially == ChecksInit => ChecksInv
<1>1. SUFFICES ASSUME ChecksInit PROVE ChecksInv
  OBVIOUS
<1>2. text = [x \in FieldsIn(form) |-> text[x]]
  BY <1>1 DEF ChecksInit, OpenText
<1>3. "pass" \in FieldsIn(form) => text["pass"] = "empty"
  BY <1>1 DEF ChecksInit, OpenText
<1>4. told # DiffersLookedFor
  BY <1>1 DEF ChecksInit, DiffersLookedFor
<1>5. SentAsMeant
  BY <1>1 DEF ChecksInit, SentAsMeant, NothingSent
<1> QED
  BY <1>1, <1>2, <1>3, <1>4, <1>5 DEF ChecksInit, ChecksInv, TextsInv

LEMMA EntryKeeps ==
  ASSUME ChecksInv, NEW f \in FieldsIn(form), NEW t \in Texts, EnterText(f, t)
  PROVE  ChecksInv'
<1> USE DEF ChecksInv, TextsInv
<1>1. PICK typed : typed = [text EXCEPT ![f] = t]
  OBVIOUS
<1>2. PICK s : s = [Now EXCEPT !.text = typed]
  OBVIOUS
<1>3. s.text = typed /\ s.wrong = wrong /\ s.told = told
  BY <1>2 DEF Now, State
<1>4. typed = [x \in FieldsIn(form) |-> typed[x]] /\ DOMAIN typed = FieldsIn(form)
  BY <1>1
<1>5. typed[f] = t /\ \A x \in FieldsIn(form) \ {f} : typed[x] = text[x]
  BY <1>1
<1>6. Become(Checked1(s, f)) /\ form' = form /\ submitted' = submitted
  BY <1>1, <1>2 DEF EnterText
<1>7. SentAsMeant'
  BY <1>6 DEF SentAsMeant
<1>8. CASE f = "pass"
  <2>1. Checked1(s, f) = CheckPassword(s)
    BY <1>8 DEF Checked1
  <2>2. text' = [typed EXCEPT !["pass"] = Trim(t)] /\ told' = told
    BY <1>3, <1>5, <1>6, <1>8, <2>1, PasswordChecked DEF Become
  <2>3. leftAfter' = FALSE
    BY <1>8 DEF EnterText
  <2>4. text' = [x \in FieldsIn(form) |-> text'[x]] /\ text'["pass"] = Trim(t)
    BY <1>4, <1>8, <2>2
  <2> QED
    BY <1>6, <1>7, <2>2, <2>3, <2>4, Trimmed
<1>9. CASE f = "confirm"
  <2>1. Checked1(s, f) = CheckConfirm(s)
    BY <1>9 DEF Checked1
  <2>2. {"pass", "confirm"} \subseteq FieldsIn(form)
    BY <1>9, PasswordWithConfirm
  <2>3. {"pass", "confirm"} \subseteq DOMAIN s.text /\ s.text = [x \in DOMAIN s.text |-> s.text[x]]
        /\ s.told # DiffersLookedFor
    BY <1>3, <1>4, <2>2
  <2>4. /\ text' = [typed EXCEPT !["confirm"] = Trim(typed["confirm"])]
        /\ told' # DiffersLookedFor
        /\ ConfirmJudged(text', wrong', told')
    BY <1>3, <1>6, <2>1, <2>3, ConfirmChecked DEF Become
  <2>5. text' = [x \in FieldsIn(form) |-> text'[x]] /\ text'["pass"] = text["pass"]
    BY <1>4, <1>5, <1>9, <2>2, <2>4
  <2>6. ConfirmJudged(text, wrong, told)'
    BY <2>4 DEF ConfirmJudged
  <2> QED
    BY <1>6, <1>7, <1>9, <2>2, <2>4, <2>5, <2>6
<1>10. CASE f \notin {"pass", "confirm"}
  <2>1. /\ text' = [x \in FieldsIn(form) |-> text'[x]]
        /\ \A x \in FieldsIn(form) \ {f} : text'[x] = text[x]
        /\ told' = told
        /\ \A x : x # f => (x \in wrong' <=> x \in wrong)
    <3>1. CASE f = "email"
      <4>1. Checked1(s, f) = CheckEmail(s)
        BY <3>1 DEF Checked1
      <4>2. /\ text' = [typed EXCEPT !["email"] = EmailKept(typed["email"])]
            /\ told' = told /\ \A x : x # "email" => (x \in wrong' <=> x \in wrong)
        BY <1>3, <1>6, <4>1, EmailChecked DEF Become
      <4> QED
        BY <1>4, <1>5, <3>1, <4>2
    <3>2. CASE f # "email"
      <4>1. Checked1(s, f) = CheckField(s, f)
        BY <1>10, <3>2 DEF Checked1
      <4>2. text' = [typed EXCEPT ![f] = IF form = "config" THEN typed[f] ELSE Trim(typed[f])]
        BY <1>3, <1>6, <4>1 DEF Become, CheckField, State
      <4>3. told' = told /\ \A x : x # f => (x \in wrong' <=> x \in wrong)
        BY <1>3, <1>6, <4>1 DEF Become, CheckField, State, Marked
      <4> QED
        BY <1>4, <1>5, <4>2, <4>3
    <3> QED
      BY <3>1, <3>2
  <2>2. leftAfter' = leftAfter
    BY <1>10 DEF EnterText
  <2>3. "pass" \in FieldsIn(form) =>
          text'["pass"] = text["pass"] /\ text'["confirm"] = text["confirm"]
    BY <1>10, <2>1, PasswordWithConfirm
  <2>4. ASSUME leftAfter PROVE ConfirmJudged(text, wrong, told)'
    BY <1>10, <2>1, <2>3, <2>4, PasswordWithConfirm DEF ConfirmJudged
  <2> QED
    BY <1>6, <1>7, <2>1, <2>2, <2>3, <2>4
<1> QED
  BY <1>8, <1>9, <1>10

LEMMA SubmitKeeps == ChecksInv /\ Submit => ChecksInv'
<1>1. SUFFICES ASSUME ChecksInv, Submit PROVE ChecksInv'
  OBVIOUS
<1> USE <1>1 DEF ChecksInv
<1>2. PICK s : s = CheckedAgain(Now)
  OBVIOUS
<1>3. /\ text' = s.text /\ wrong' = s.wrong /\ told' = s.told
      /\ form' = form /\ leftAfter' = leftAfter
      /\ submitted' = IF s.wrong \cap FormOf(form).tests # {} THEN submitted
                      ELSE [form |-> form, text |-> s.text, after |-> leftAfter]
  BY <1>2 DEF Submit, Become
<1>4. /\ s.text = [x \in FieldsIn(form) |-> s.text[x]]
      /\ "pass" \in FieldsIn(form) => s.text["pass"] # "blank"
      /\ s.told # DiffersLookedFor
      /\ \A x \in DOMAIN FormOf(form).checks \cap FormOf(form).again :
           /\ x \notin s.wrong => ~ Refuses(FormOf(form).checks[x], Trim(text[x]))
           /\ Trim(s.text[x]) = Trim(text[x])
      /\ form # "own" /\ "confirm" \in FieldsIn(form) =>
           /\ s.text["confirm"] = text["confirm"] /\ s.text["pass"] = text["pass"]
           /\ "confirm" \in s.wrong <=> "confirm" \in wrong
           /\ s.told = told
      /\ form = "own" => ConfirmJudged(s.text, s.wrong, s.told)
  BY <1>2, AgainChecked
<1>5. TextsInv'
  BY <1>3, <1>4 DEF TextsInv
<1>6. leftAfter => ConfirmJudged(s.text, s.wrong, s.told)
  BY <1>4 DEF ConfirmJudged
<1>7. leftAfter' => ("confirm" \in FieldsIn(form))' /\ ConfirmJudged(text, wrong, told)'
  BY <1>3, <1>6 DEF ConfirmJudged
<1>8. SentAsMeant'
  <2>1. CASE s.wrong \cap FormOf(form).tests # {}
    BY <1>3, <2>1 DEF SentAsMeant
  <2>2. CASE s.wrong \cap FormOf(form).tests = {}
    <3>1. submitted'.form = form /\ submitted'.text = s.text /\ submitted'.after = leftAfter
      BY <1>3, <2>2
    <3>2. form \in {"own", "userPass"} => "confirm" \notin s.wrong
      BY <2>2, FormFacts DEF TextsInv
    <3>3. form = "own" => s.text["pass"] = s.text["confirm"]
      BY <1>4, <3>2 DEF ConfirmJudged
    <3>4. form = "userPass" /\ leftAfter => s.text["pass"] = s.text["confirm"]
      BY <1>6, <3>2 DEF ConfirmJudged
    <3>5. \A x \in DOMAIN FormOf(form).checks \cap FormOf(form).again \cap FormOf(form).tests :
            ~ Refuses(FormOf(form).checks[x], Trim(s.text[x]))
      BY <1>4, <2>2
    <3> QED
      BY <3>1, <3>3, <3>4, <3>5 DEF SentAsMeant
  <2> QED
    BY <2>1, <2>2
<1> QED
  BY <1>5, <1>7, <1>8

LEMMA ChecksStep == ChecksInv /\ [ChecksNext]_checkVars => ChecksInv'
<1>1. SUFFICES ASSUME ChecksInv, [ChecksNext]_checkVars PROVE ChecksInv'
  OBVIOUS
<1>2. CASE UNCHANGED checkVars
  BY <1>1, <1>2 DEF checkVars, ChecksInv, TextsInv, ConfirmJudged, SentAsMeant
<1> QED
  BY <1>1, <1>2, EntryKeeps, SubmitKeeps DEF ChecksNext

(* A save sends what the checks it relies on let through, and a mark that  *)
(* says two passwords differ is true (common.js, userManage.js), for any   *)
(* number of entries and saves.                                            *)
THEOREM ChecksRight == ChecksSpec => []ChecksTellTruth
<1>1. ChecksInv => ChecksTellTruth
  BY DEF ChecksInv, ConfirmJudged, DifferenceTold, ChecksTellTruth
<1> QED
  BY <1>1, ChecksInitially, ChecksStep, PTL DEF ChecksSpec

-----------------------------------------------------------------------------
(* SpinnerBox, whose steps these are alone.                                *)
SpinSpec == SpinInit /\ [][SpinNext]_spinVars
Numbers == [isNaN : BOOLEAN, n : Int]
SpinStates ==
  [value : Numbers, limits : BOOLEAN, hung : BOOLEAN, disabled : BOOLEAN,
   counter : Nat, timer : Ways \cup {"none"}, pressed : SUBSET Ways, wheel : BOOLEAN,
   key : BOOLEAN, held : Ways \cup {"none"}, over : Ways \cup {"none"},
   told : Numbers, steps : Nat, typed : BOOLEAN, trimmed : BOOLEAN, stuck : BOOLEAN]

(* A number that nobody has typed is within its limits.                    *)
Limited(s) ==
  s.typed \/ (~ s.value.isNaN /\ (s.limits => s.value.n \in SpinMin .. SpinMax))

(* A button is held where the mouse is; unless the spinner was disabled    *)
(* meanwhile, the interval is the held button's, which alone looks         *)
(* pressed, and it never runs in a disabled spinner.                       *)
Holding(s) ==
  /\ s.held # "none" => s.over = s.held
  /\ s.stuck \/ s.timer = "none" \/ (s.held = s.timer /\ ~ s.disabled)
  /\ s.stuck \/ s.pressed = {s.timer} \ {"none"}

(* Listeners know the value, or will be told it when something ends.       *)
Listening(s) ==
  s.stuck \/ s.trimmed \/ s.key \/ s.timer # "none" \/ s.wheel \/ s.told = s.value

SpinFine(s) == s.hung \/ (Limited(s) /\ Holding(s) /\ Listening(s))
SpinInv == spin \in SpinStates /\ SpinFine(spin)

(* The operators: what each changes, unless the page hangs.                *)
LEMMA SetNumberSets ==
  ASSUME NEW s \in SpinStates, NEW n \in Int
  PROVE  /\ SetNumber(s, n) \in SpinStates
         /\ SetNumber(s, n).hung \/ SetNumber(s, n) = [s EXCEPT !.value = Whole(n)]
<1>1. Whole(n) \in Numbers
  BY DEF Whole, Numbers
<1>2. CASE s.hung \/ n >= 1000 \/ n <= -1000
  BY <1>2 DEF SetNumber, SpinStates
<1>3. CASE ~ (s.hung \/ n >= 1000 \/ n <= -1000)
  BY <1>1, <1>3 DEF SetNumber, SpinStates
<1> QED
  BY <1>2, <1>3

LEMMA ConstrainLimits ==
  ASSUME NEW s \in SpinStates, NEW t, t = Constrain(s)
  PROVE  /\ t \in SpinStates
         /\ t.hung \/ t = [s EXCEPT !.value = t.value]
         /\ s.hung => t.hung
         /\ t.hung \/ s.value.isNaN \/
              (~ t.value.isNaN /\ (t.limits => t.value.n \in SpinMin .. SpinMax))
<1>1. SpinMin \in Int /\ SpinMax \in Int /\ SpinMin <= SpinMax
  BY SpinLimits
<1>2. CASE t = s
  <2>1. s.value.n \in Int /\ s = [s EXCEPT !.value = s.value]
    BY DEF SpinStates, Numbers
  <2>2. s.hung \/ s.value.isNaN \/ (s.limits => s.value.n \in SpinMin .. SpinMax)
    <3>1. SUFFICES ASSUME ~ s.hung, ~ s.value.isNaN, s.limits,
                          s.value.n < SpinMin \/ s.value.n > SpinMax
                   PROVE  FALSE
      BY <1>1, <2>1
    <3>2. PICK n \in {SpinMin, SpinMax} : s.value.n # n /\ t = SetNumber(s, n)
      BY <1>1, <2>1, <3>1 DEF Constrain
    <3>3. n \in Int
      BY <1>1
    <3>4. SetNumber(s, n).hung \/ SetNumber(s, n) = [s EXCEPT !.value = Whole(n)]
      BY <3>3, SetNumberSets
    <3>6. SetNumber(s, n) = s
      BY <1>2, <3>2
    <3>5. s.value = Whole(n)
      BY <3>1, <3>4, <3>6 DEF SpinStates
    <3> QED
      BY <3>2, <3>5 DEF Whole
  <2> QED
    BY <1>2, <2>1, <2>2
<1>3. CASE t # s
  <2>1. PICK n \in {SpinMin, SpinMax} : t = SetNumber(s, n)
    BY <1>3 DEF Constrain
  <2>2. n \in Int /\ n \in SpinMin .. SpinMax
    BY <1>1, <2>1
  <2>3. t \in SpinStates /\ (t.hung \/ t = [s EXCEPT !.value = Whole(n)])
    BY <2>1, <2>2, SetNumberSets
  <2>4. s.hung => t.hung
    BY <2>1 DEF SetNumber, SpinStates
  <2> QED
    BY <2>2, <2>3, <2>4 DEF SpinStates, Whole
<1> QED
  BY <1>2, <1>3

LEMMA SpinCounts ==
  ASSUME NEW s \in SpinStates, NEW way \in Ways, NEW t, t = Spin(s, way),
         ~ s.disabled, ~ s.hung
  PROVE  /\ t \in SpinStates
         /\ t.hung \/ (/\ t = [s EXCEPT !.value = t.value, !.counter = t.counter, !.typed = FALSE]
                       /\ Limited(t))
<1> DEFINE d == IF s.value.isNaN THEN SetNumber(s, SpinStart) ELSE s
           by == Stepping * (IF s.counter > TenAfter THEN 10 ELSE 1)
           n == d.value.n + (IF way = "up" THEN by ELSE - by)
           c == SetNumber(d, n)
           e == Constrain(c)
<1>1. SpinStart \in Int
  BY SpinLimits
<1>2. d \in SpinStates /\ (d.hung \/ d = [s EXCEPT !.value = d.value])
  BY <1>1, SetNumberSets DEF SpinStates
<1>3. by \in Int
  BY SpinLimits DEF SpinStates
<1>4. n \in Int
  BY <1>2, <1>3 DEF SpinStates, Numbers
<1>5. c \in SpinStates /\ (c.hung \/ c = [d EXCEPT !.value = Whole(n)])
  BY <1>2, <1>4, SetNumberSets
<1>6. d.hung => c.hung
  BY <1>2 DEF SetNumber, SpinStates
<1>7. /\ e \in SpinStates
      /\ e.hung \/ e = [c EXCEPT !.value = e.value]
      /\ c.hung => e.hung
      /\ e.hung \/ c.value.isNaN \/
           (~ e.value.isNaN /\ (e.limits => e.value.n \in SpinMin .. SpinMax))
  BY <1>5, ConstrainLimits
<1>8. t = [e EXCEPT !.counter = IF @ = 0 THEN 0 ELSE @ + 1, !.typed = FALSE]
  BY DEF Spin
<1> HIDE DEF d, by, n, c, e
<1>9. t \in SpinStates
  <2>1. e.counter \in Nat
    BY <1>7 DEF SpinStates
  <2>2. (IF e.counter = 0 THEN 0 ELSE e.counter + 1) \in Nat
    BY <2>1
  <2> QED
    BY <1>7, <1>8, <2>2 DEF SpinStates
<1>10. c.hung \/ ~ c.value.isNaN
  BY <1>2, <1>5 DEF Whole, SpinStates
<1>11. ASSUME ~ e.hung
       PROVE  t = [s EXCEPT !.value = t.value, !.counter = t.counter, !.typed = FALSE]
  <2>1. d = [s EXCEPT !.value = d.value] /\ c = [d EXCEPT !.value = Whole(n)]
         /\ e = [c EXCEPT !.value = e.value]
    BY <1>2, <1>5, <1>6, <1>7, <1>11
  <2>2. e = [s EXCEPT !.value = e.value]
    BY <2>1, <1>2, <1>5, <1>7 DEF SpinStates
  <2> QED
    BY <2>2, <1>8, <1>7 DEF SpinStates
<1>12. t.hung = e.hung /\ t.value = e.value /\ t.limits = e.limits
  BY <1>7, <1>8 DEF SpinStates
<1> QED
  BY <1>7, <1>9, <1>10, <1>11, <1>12 DEF Limited

-----------------------------------------------------------------------------
(* The steps.                                                              *)
LEMMA SpinInvInit == SpinInit => SpinInv
<1> SUFFICES ASSUME SpinInit
             PROVE  SpinInv
  OBVIOUS
<1>1. Whole(SpinStart) \in Numbers
  BY SpinLimits DEF Whole, Numbers
<1>2. spin \in SpinStates
  BY <1>1 DEF SpinInit, SpinStates
<1>3. /\ ~ spin.value.isNaN /\ spin.value.n \in SpinMin .. SpinMax
      /\ spin.held = "none" /\ spin.timer = "none" /\ spin.pressed = {}
      /\ spin.told = spin.value
  BY SpinLimits DEF SpinInit, Whole
<1> QED
  BY <1>2, <1>3 DEF SpinInv, SpinFine, Limited, Holding, Listening

(* Counting a step changes nothing that SpinFine speaks of.                *)
LEMMA StepKeeps ==
  ASSUME NEW s \in SpinStates, SpinFine(s), SpinStep(s)
  PROVE  SpinInv'
<1>1. spin' = [s EXCEPT !.steps = @ + 1]
  BY DEF SpinStep
<1>2. spin' \in SpinStates
  BY <1>1 DEF SpinStates
<1>3. /\ spin'.hung = s.hung /\ spin'.typed = s.typed /\ spin'.value = s.value
      /\ spin'.limits = s.limits /\ spin'.held = s.held /\ spin'.over = s.over
      /\ spin'.stuck = s.stuck /\ spin'.timer = s.timer /\ spin'.disabled = s.disabled
      /\ spin'.pressed = s.pressed /\ spin'.trimmed = s.trimmed /\ spin'.key = s.key
      /\ spin'.wheel = s.wheel /\ spin'.told = s.told
  BY <1>1 DEF SpinStates
<1> QED
  BY <1>2, <1>3 DEF SpinInv, SpinFine, Limited, Holding, Listening

LEMMA CountingKeeps ==
  ASSUME NEW s \in SpinStates
  PROVE  Counting(s) = [s EXCEPT !.counter = Counting(s).counter] /\ Counting(s) \in SpinStates
<1>1. (IF s.counter = 0 THEN 1 ELSE s.counter) \in Nat
  BY DEF SpinStates
<1> QED
  BY <1>1 DEF Counting, SpinStates

LEMMA SpinKeeps ==
  ASSUME NEW s \in SpinStates, NEW way \in Ways, SpinFine(s), ~ s.hung, ~ s.disabled,
         NEW t, t = Spin(s, way)
  PROVE  /\ t \in SpinStates
         /\ t.hung \/ (/\ Limited(t) /\ Holding(t)
                       /\ t.timer = s.timer /\ t.key = s.key /\ t.wheel = s.wheel)
<1>1. /\ t \in SpinStates
      /\ t.hung \/ (/\ t = [s EXCEPT !.value = t.value, !.counter = t.counter, !.typed = FALSE]
                    /\ Limited(t))
  BY SpinCounts
<1>2. CASE ~ t.hung
  <2>1. /\ t.held = s.held /\ t.over = s.over /\ t.stuck = s.stuck /\ t.timer = s.timer
        /\ t.disabled = s.disabled /\ t.pressed = s.pressed
        /\ t.key = s.key /\ t.wheel = s.wheel
    BY <1>1, <1>2 DEF SpinStates
  <2> QED
    BY <1>1, <2>1 DEF SpinFine, Holding
<1> QED
  BY <1>1, <1>2

LEMMA StopsMouseKeeps ==
  ASSUME NEW s \in SpinStates,
         s.hung \/ (Limited(s) /\ s.held = "none" /\ (s.stuck \/ s.pressed \subseteq {s.timer})
                      /\ (s.stuck \/ s.pressed = {}))
  PROVE  StopsMouse(s) \in SpinStates /\ SpinFine(StopsMouse(s))
<1> DEFINE t == StopsMouse(s)
<1>1. t \in SpinStates /\ t.hung = s.hung
  BY DEF StopsMouse, Propagates, SpinStates
<1>2. CASE s.hung
  BY <1>1, <1>2 DEF SpinFine
<1>3. CASE ~ s.hung
  <2>1. /\ t.value = s.value /\ t.limits = s.limits /\ t.typed = s.typed
        /\ t.held = "none" /\ t.timer = "none" /\ t.stuck = s.stuck
        /\ t.pressed = s.pressed /\ t.told = t.value
    BY <1>3 DEF StopsMouse, Propagates, SpinStates
  <2> QED
    BY <1>1, <1>3, <2>1 DEF SpinFine, Limited, Holding, Listening
<1> QED
  BY <1>2, <1>3

LEMMA KeyKeeps ==
  ASSUME NEW s \in SpinStates, SpinFine(s), NEW t, t = PressesKey(s)
  PROVE  /\ t \in SpinStates /\ SpinFine(t)
         /\ t.key /\ t.hung = s.hung /\ t.disabled = s.disabled /\ t.limits = s.limits
<1>1. Counting(s) = [s EXCEPT !.counter = Counting(s).counter] /\ Counting(s) \in SpinStates
  BY CountingKeeps
<1>2. t = [Counting(s) EXCEPT !.key = TRUE]
  BY DEF PressesKey
<1>3. t \in SpinStates
  BY <1>1, <1>2 DEF SpinStates
<1>4. /\ t.key /\ t.hung = s.hung /\ t.disabled = s.disabled /\ t.limits = s.limits
      /\ t.value = s.value /\ t.typed = s.typed /\ t.held = s.held /\ t.over = s.over
      /\ t.stuck = s.stuck /\ t.timer = s.timer /\ t.pressed = s.pressed
  BY <1>1, <1>2 DEF SpinStates
<1> QED
  BY <1>3, <1>4 DEF SpinFine, Limited, Holding, Listening

(* A number that a key writes.                                             *)
LEMMA WritesKeeps ==
  ASSUME NEW s \in SpinStates, SpinFine(s), ~ s.hung, s.key,
         NEW n \in Int, s.limits => n \in SpinMin .. SpinMax,
         NEW t, t = [SetNumber(s, n) EXCEPT !.typed = FALSE]
  PROVE  t \in SpinStates /\ SpinFine(t)
<1>1. /\ SetNumber(s, n) \in SpinStates
      /\ SetNumber(s, n).hung \/ SetNumber(s, n) = [s EXCEPT !.value = Whole(n)]
  BY SetNumberSets
<1>2. t \in SpinStates /\ t.hung = SetNumber(s, n).hung
  BY <1>1 DEF SpinStates
<1>3. CASE ~ t.hung
  <2>1. /\ t.value = Whole(n) /\ t.limits = s.limits /\ t.held = s.held /\ t.over = s.over
        /\ t.stuck = s.stuck /\ t.timer = s.timer /\ t.disabled = s.disabled
        /\ t.pressed = s.pressed /\ t.key
    BY <1>1, <1>2, <1>3 DEF SpinStates
  <2> QED
    BY <1>2, <2>1 DEF SpinFine, Limited, Holding, Listening, Whole
<1> QED
  BY <1>2, <1>3 DEF SpinFine

(* Leaving the field.                                                      *)
LEMMA CleanUpKeeps ==
  ASSUME NEW s \in SpinStates, SpinFine(s), ~ s.hung, NEW t, t = CleanUp(s)
  PROVE  t \in SpinStates /\ SpinFine(t)
<1> DEFINE c == Tidy(s)
           d == Constrain(c)
<1>1. PICK n \in Int : c = SetNumber(s, n)
  BY SpinLimits DEF Tidy, SpinStates, Numbers
<1>2. c \in SpinStates /\ (c.hung \/ c = [s EXCEPT !.value = Whole(n)])
  BY <1>1, SetNumberSets
<1>3. /\ d \in SpinStates
      /\ d.hung \/ d = [c EXCEPT !.value = d.value]
      /\ c.hung => d.hung
      /\ d.hung \/ c.value.isNaN \/
           (~ d.value.isNaN /\ (d.limits => d.value.n \in SpinMin .. SpinMax))
  BY <1>2, ConstrainLimits
<1>4. t = [d EXCEPT !.typed = FALSE, !.trimmed = @ \/ d.value # s.value]
  BY DEF CleanUp
<1> HIDE DEF c, d
<1>5. t \in SpinStates
  <2>1. (d.trimmed \/ d.value # s.value) \in BOOLEAN
    BY <1>3 DEF SpinStates
  <2> QED
    BY <1>3, <1>4, <2>1 DEF SpinStates
<1>6. t.hung = d.hung
  BY <1>3, <1>4 DEF SpinStates
<1>7. CASE ~ t.hung
  <2>1. c = [s EXCEPT !.value = Whole(n)] /\ d = [c EXCEPT !.value = d.value]
    BY <1>2, <1>3, <1>6, <1>7
  <2>2. ~ c.value.isNaN
    BY <2>1 DEF Whole, SpinStates
  <2>3. /\ t.value = d.value /\ t.limits = d.limits /\ t.trimmed = (d.trimmed \/ d.value # s.value)
    BY <1>3, <1>4 DEF SpinStates
  <2>4. /\ d.trimmed = s.trimmed /\ t.held = s.held /\ t.over = s.over
        /\ t.stuck = s.stuck /\ t.timer = s.timer /\ t.disabled = s.disabled
        /\ t.pressed = s.pressed /\ t.key = s.key /\ t.wheel = s.wheel /\ t.told = s.told
    <3>1. d = [s EXCEPT !.value = d.value]
      BY <2>1, <1>3 DEF SpinStates
    <3> QED
      BY <3>1, <1>4 DEF SpinStates
  <2>5. Limited(t)
    BY <1>3, <1>6, <1>7, <2>2, <2>3 DEF Limited
  <2>6. Holding(t)
    BY <2>4 DEF SpinFine, Holding
  <2>7. Listening(t)
    BY <2>3, <2>4 DEF SpinFine, Listening
  <2> QED
    BY <1>5, <2>5, <2>6, <2>7 DEF SpinFine
<1> QED
  BY <1>5, <1>7 DEF SpinFine

-----------------------------------------------------------------------------
LEMMA SpinInvStep == SpinInv /\ [SpinNext]_spinVars => SpinInv'
<1> SUFFICES ASSUME SpinInv, [SpinNext]_spinVars
             PROVE  SpinInv'
  OBVIOUS
<1> USE DEF SpinInv
<1>1. CASE UNCHANGED spinVars
  BY <1>1 DEF spinVars, SpinFine, Limited, Holding, Listening
<1>2. ASSUME NEW way \in Ways, PointsAt(way)
      PROVE  SpinInv'
  <2> DEFINE t == [spin EXCEPT !.over = way]
  <2>1. t \in SpinStates
    BY DEF SpinStates
  <2>2. SpinFine(t)
    BY <1>2 DEF SpinStates, PointsAt, SpinFine, Limited, Holding, Listening
  <2> QED
    BY <1>2, <2>1, <2>2, StepKeeps DEF PointsAt
<1>3. ASSUME NEW way \in Ways, PressesButton(way)
      PROVE  SpinInv'
  <2> DEFINE c == Counting(spin)
             t == [c EXCEPT !.held = way, !.timer = way, !.pressed = @ \cup {way}]
  <2>1. c = [spin EXCEPT !.counter = c.counter] /\ c \in SpinStates
    BY CountingKeeps
  <2> HIDE DEF c
  <2>2. t \in SpinStates
    BY <2>1 DEF SpinStates
  <2>3. /\ t.hung = spin.hung /\ t.value = spin.value /\ t.limits = spin.limits
        /\ t.typed = spin.typed /\ t.held = way /\ t.timer = way /\ t.over = spin.over
        /\ t.pressed = spin.pressed \cup {way} /\ t.stuck = spin.stuck
        /\ t.disabled = spin.disabled
    BY <2>1 DEF SpinStates
  <2>4. spin.over = way /\ ~ spin.disabled /\ spin.held = "none" /\ ~ spin.hung
    BY <1>3 DEF PressesButton, Hears, SpinStep
  <2>5. way # "none" /\ (spin.stuck \/ spin.pressed = {})
    BY <2>4 DEF SpinFine, Holding, Ways
  <2>6. SpinFine(t)
    BY <2>3, <2>4, <2>5 DEF SpinFine, Limited, Holding, Listening
  <2> QED
    BY <1>3, <2>2, <2>6, StepKeeps DEF PressesButton, c
<1>4. ASSUME NEW way \in Ways, ReleasesButton(way)
      PROVE  SpinInv'
  <2> DEFINE d == [spin EXCEPT !.held = "none", !.pressed = @ \ {way}]
             o == [spin EXCEPT !.held = "none"]
             x == IF d.counter = 1 THEN Spin(d, way) ELSE d
  <2>1. spin.over = way /\ spin.held = way /\ ~ spin.hung /\ way # "none"
    BY <1>4 DEF ReleasesButton, SpinStep, Ways
  <2>2. CASE spin.disabled
    <3>1. o \in SpinStates
      BY DEF SpinStates
    <3>2. SpinFine(o)
      BY <2>1, <2>2 DEF SpinStates, SpinFine, Limited, Holding, Listening
    <3> QED
      BY <1>4, <2>2, <3>1, <3>2, StepKeeps DEF ReleasesButton
  <2>3. CASE ~ spin.disabled
    <3>1. d \in SpinStates
      BY DEF SpinStates
    <3>2. /\ d.hung = spin.hung /\ d.held = "none" /\ d.pressed = spin.pressed \ {way}
          /\ d.stuck = spin.stuck /\ d.typed = spin.typed /\ d.value = spin.value
          /\ d.limits = spin.limits /\ d.disabled = spin.disabled
      BY DEF SpinStates
    <3>3. Limited(d) /\ (d.stuck \/ d.pressed = {})
      BY <2>1, <3>2 DEF SpinFine, Limited, Holding
    <3> HIDE DEF d
    <3>4. /\ x \in SpinStates
          /\ x.hung \/ (Limited(x) /\ x.held = "none" /\ x.stuck = d.stuck /\ x.pressed = d.pressed)
      <4>1. CASE d.counter = 1
        <5>1. /\ x \in SpinStates
              /\ x.hung \/ (/\ x = [d EXCEPT !.value = x.value, !.counter = x.counter, !.typed = FALSE]
                            /\ Limited(x))
          BY <2>1, <2>3, <3>1, <3>2, <4>1, SpinCounts
        <5> QED
          BY <3>1, <3>2, <5>1 DEF SpinStates
      <4>2. CASE d.counter # 1
        BY <3>1, <3>2, <3>3, <4>2
      <4> QED
        BY <4>1, <4>2
    <3>5. x.stuck \/ x.hung \/ x.pressed = {}
      BY <3>3, <3>4
    <3>6. SpinStep(StopsMouse(x))
      BY <1>4, <2>3 DEF ReleasesButton, d
    <3> HIDE DEF x
    <3>7. StopsMouse(x) \in SpinStates /\ SpinFine(StopsMouse(x))
      BY <3>4, <3>5, StopsMouseKeeps
    <3> QED
      BY <3>6, <3>7, StepKeeps
  <2> QED
    BY <2>2, <2>3
<1>5. ASSUME NEW way \in Ways, DoubleClicks(way)
      PROVE  SpinInv'
  <2> DEFINE x == Spin(spin, way)
  <2>1. spin.over = way /\ ~ spin.disabled /\ spin.held = "none" /\ ~ spin.hung
        /\ SpinStep(StopsMouse(x))
    BY <1>5 DEF DoubleClicks, Hears, SpinStep
  <2>2. /\ x \in SpinStates
        /\ x.hung \/ (/\ x = [spin EXCEPT !.value = x.value, !.counter = x.counter, !.typed = FALSE]
                      /\ Limited(x))
    BY <2>1, SpinCounts
  <2>3. spin.stuck \/ spin.pressed = {}
    BY <2>1 DEF SpinFine, Holding
  <2>4. x.hung \/ (x.held = "none" /\ x.stuck = spin.stuck /\ x.pressed = spin.pressed)
    BY <2>1, <2>2 DEF SpinStates
  <2> HIDE DEF x
  <2>5. StopsMouse(x) \in SpinStates /\ SpinFine(StopsMouse(x))
    BY <2>2, <2>3, <2>4, StopsMouseKeeps
  <2> QED
    BY <2>1, <2>5, StepKeeps
<1>6. ASSUME PointsAway
      PROVE  SpinInv'
  <2> DEFINE d == [spin EXCEPT !.over = "none", !.held = "none"]
             e == [d EXCEPT !.pressed = @ \ {spin.over}]
  <2>1. ~ spin.hung
    BY <1>6 DEF PointsAway, SpinStep
  <2>2. d \in SpinStates /\ e \in SpinStates
    BY DEF SpinStates
  <2>3. CASE spin.disabled
    <3>1. SpinFine(d)
      BY <2>1, <2>3 DEF SpinStates, SpinFine, Limited, Holding, Listening
    <3> QED
      BY <1>6, <2>2, <2>3, <3>1, StepKeeps DEF PointsAway
  <2>4. CASE ~ spin.disabled
    <3>1. /\ e.hung = spin.hung /\ e.held = "none" /\ e.over = "none" /\ e.stuck = spin.stuck
          /\ e.pressed = spin.pressed \ {spin.over} /\ e.timer = spin.timer
          /\ e.typed = spin.typed /\ e.value = spin.value /\ e.limits = spin.limits
          /\ e.disabled = spin.disabled /\ e.trimmed = spin.trimmed /\ e.key = spin.key
          /\ e.wheel = spin.wheel /\ e.told = spin.told /\ d.timer = spin.timer
      BY DEF SpinStates
    <3>2. Limited(e) /\ (e.stuck \/ e.pressed = {})
      BY <2>1, <3>1 DEF SpinFine, Limited, Holding
    <3>3. SpinStep(IF d.timer # "none" THEN StopsMouse(e) ELSE e)
      BY <1>6, <2>4 DEF PointsAway
    <3> HIDE DEF e
    <3>4. CASE d.timer # "none"
      <4>1. StopsMouse(e) \in SpinStates /\ SpinFine(StopsMouse(e))
        BY <2>2, <3>1, <3>2, StopsMouseKeeps
      <4> QED
        BY <3>3, <3>4, <4>1, StepKeeps
    <3>5. CASE d.timer = "none"
      <4>1. Holding(e) /\ Listening(e)
        BY <2>1, <3>1, <3>2, <3>5 DEF SpinFine, Holding, Listening
      <4>2. SpinFine(e)
        BY <3>2, <4>1 DEF SpinFine
      <4> QED
        BY <2>2, <3>3, <3>5, <4>2, StepKeeps
    <3> QED
      BY <3>4, <3>5
  <2> QED
    BY <2>3, <2>4
<1>7. ASSUME IntervalTicks
      PROVE  SpinInv'
  <2> DEFINE t == Spin(spin, spin.timer)
  <2>1. spin.timer # "none" /\ ~ spin.hung /\ SpinStep(t) /\ spin.timer \in Ways
    BY <1>7 DEF IntervalTicks, SpinStates
  <2>2. CASE spin.disabled
    BY <2>1, <2>2, StepKeeps DEF Spin
  <2>3. CASE ~ spin.disabled
    <3>1. /\ t \in SpinStates
          /\ t.hung \/ (Limited(t) /\ Holding(t) /\ t.timer = spin.timer)
      BY <2>1, <2>3, SpinKeeps
    <3>2. SpinFine(t)
      BY <2>1, <3>1 DEF SpinFine, Listening
    <3> QED
      BY <2>1, <3>1, <3>2, StepKeeps
  <2> QED
    BY <2>2, <2>3
<1>8. ASSUME NEW way \in Ways, PressesArrow(way)
      PROVE  SpinInv'
  <2> DEFINE k == PressesKey(spin)
             t == Spin(k, way)
  <2>1. ~ spin.disabled /\ ~ spin.hung /\ SpinStep(t)
    BY <1>8 DEF PressesArrow, SpinStep
  <2>2. k \in SpinStates /\ SpinFine(k) /\ k.key /\ k.hung = spin.hung /\ k.disabled = spin.disabled
    BY KeyKeeps
  <2> HIDE DEF k
  <2>3. /\ t \in SpinStates
        /\ t.hung \/ (Limited(t) /\ Holding(t) /\ t.key = k.key)
    BY <2>1, <2>2, SpinKeeps
  <2>4. SpinFine(t)
    BY <2>2, <2>3 DEF SpinFine, Listening
  <2> QED
    BY <2>1, <2>3, <2>4, StepKeeps
<1>9. ASSUME NEW way \in Ways, TurnsWheel(way)
      PROVE  SpinInv'
  <2> DEFINE x == Spin(spin, way)
             t == [x EXCEPT !.wheel = TRUE]
  <2>1. SpinStep(t) /\ ~ spin.hung
    BY <1>9 DEF TurnsWheel, SpinStep
  <2>2. x \in SpinStates /\ (x.hung \/ (Limited(x) /\ Holding(x)))
    <3>1. CASE spin.disabled
      BY <2>1, <3>1 DEF Spin, SpinFine
    <3>2. CASE ~ spin.disabled
      BY <2>1, <3>2, SpinKeeps
    <3> QED
      BY <3>1, <3>2
  <2> HIDE DEF x
  <2>3. t \in SpinStates /\ t.hung = x.hung
    BY <2>2 DEF SpinStates
  <2>4. /\ t.typed = x.typed /\ t.value = x.value /\ t.limits = x.limits /\ t.held = x.held
        /\ t.over = x.over /\ t.stuck = x.stuck /\ t.timer = x.timer
        /\ t.disabled = x.disabled /\ t.pressed = x.pressed /\ t.wheel
    BY <2>2 DEF SpinStates
  <2>5. SpinFine(t)
    BY <2>2, <2>3, <2>4 DEF SpinFine, Limited, Holding, Listening
  <2> QED
    BY <2>1, <2>3, <2>5, StepKeeps
<1>10. ASSUME PressesHome \/ PressesEnd
       PROVE  SpinInv'
  <2> DEFINE k == PressesKey(spin)
  <2>1. k \in SpinStates /\ SpinFine(k) /\ k.key /\ k.hung = spin.hung /\ k.limits = spin.limits
    BY KeyKeeps
  <2>2. ~ spin.hung
    BY <1>10 DEF PressesHome, PressesEnd, SpinStep
  <2>3. CASE SpinStep(k)
    BY <2>1, <2>3, StepKeeps
  <2>4. CASE ~ SpinStep(k)
    <3>1. PICK n : /\ n = SpinMax \/ n = (IF spin.limits /\ SpinMin # 0 THEN SpinMin ELSE SpinStart)
                   /\ SpinStep([SetNumber(k, n) EXCEPT !.typed = FALSE])
      BY <1>10, <2>4 DEF PressesHome, PressesEnd
    <3>2. n \in Int /\ n \in SpinMin .. SpinMax
      BY <3>1, SpinLimits
    <3> HIDE DEF k
    <3>3. /\ [SetNumber(k, n) EXCEPT !.typed = FALSE] \in SpinStates
          /\ SpinFine([SetNumber(k, n) EXCEPT !.typed = FALSE])
      BY <2>1, <2>2, <3>2, WritesKeeps
    <3> QED
      BY <3>1, <3>3, StepKeeps
  <2> QED
    BY <2>3, <2>4
<1>11. ASSUME NEW v \in {NaN} \cup {Whole(n) : n \in TypedNumbers}, TypesNumber(v)
       PROVE  SpinInv'
  <2> DEFINE k == PressesKey(spin)
             t == [k EXCEPT !.value = v, !.typed = TRUE]
  <2>1. k \in SpinStates /\ SpinFine(k) /\ k.key
    BY KeyKeeps
  <2> HIDE DEF k
  <2>2. v \in Numbers
    <3>1. NaN \in Numbers /\ \A n \in Int : Whole(n) \in Numbers
      BY DEF NaN, Whole, Numbers
    <3>2. TypedNumbers \subseteq Int
      BY SpinLimits
    <3>3. v = NaN \/ \E n \in TypedNumbers : v = Whole(n)
      BY <1>11
    <3> QED
      BY <3>1, <3>2, <3>3
  <2>3. t \in SpinStates
    BY <2>1, <2>2 DEF SpinStates
  <2>4. /\ t.hung = k.hung /\ t.typed /\ t.key /\ t.held = k.held /\ t.over = k.over
        /\ t.stuck = k.stuck /\ t.timer = k.timer /\ t.disabled = k.disabled
        /\ t.pressed = k.pressed
    BY <2>1 DEF SpinStates
  <2>5. SpinFine(t)
    BY <2>1, <2>4 DEF SpinFine, Limited, Holding, Listening
  <2> QED
    BY <1>11, <2>3, <2>5, StepKeeps DEF TypesNumber, k
<1>12. ASSUME ReleasesKey
       PROVE  SpinInv'
  <2> DEFINE t == Propagates([spin EXCEPT !.counter = 0, !.key = FALSE])
  <2>1. SpinStep(t) /\ ~ spin.hung
    BY <1>12 DEF ReleasesKey, SpinStep
  <2>2. t \in SpinStates
    BY DEF Propagates, SpinStates
  <2>3. /\ t.told = t.value /\ t.value = spin.value /\ t.limits = spin.limits
        /\ t.typed = spin.typed /\ t.held = spin.held /\ t.over = spin.over
        /\ t.stuck = spin.stuck /\ t.timer = spin.timer /\ t.disabled = spin.disabled
        /\ t.pressed = spin.pressed
    BY <2>1 DEF Propagates, SpinStates
  <2>4. SpinFine(t)
    BY <2>1, <2>3 DEF SpinFine, Limited, Holding, Listening
  <2> QED
    BY <2>1, <2>2, <2>4, StepKeeps
<1>13. ASSUME LeavesSpinner
       PROVE  SpinInv'
  <2>1. SpinStep(CleanUp(spin)) /\ ~ spin.hung
    BY <1>13 DEF LeavesSpinner, SpinStep
  <2>2. CleanUp(spin) \in SpinStates /\ SpinFine(CleanUp(spin))
    BY <2>1, CleanUpKeeps
  <2> QED
    BY <2>1, <2>2, StepKeeps
<1>14. ASSUME WheelTimeIsUp
       PROVE  SpinInv'
  <2>1. ~ spin.hung /\ spin' = [Propagates(spin) EXCEPT !.wheel = FALSE]
    BY <1>14 DEF WheelTimeIsUp
  <2>2. spin' \in SpinStates
    BY <2>1 DEF Propagates, SpinStates
  <2>3. /\ spin'.told = spin'.value /\ spin'.value = spin.value /\ spin'.limits = spin.limits
        /\ spin'.typed = spin.typed /\ spin'.held = spin.held /\ spin'.over = spin.over
        /\ spin'.stuck = spin.stuck /\ spin'.timer = spin.timer
        /\ spin'.disabled = spin.disabled /\ spin'.pressed = spin.pressed
    BY <2>1 DEF Propagates, SpinStates
  <2> QED
    BY <2>1, <2>2, <2>3 DEF SpinFine, Limited, Holding, Listening
<1>15. ASSUME SwitchesOff
       PROVE  SpinInv'
  <2> DEFINE t == [spin EXCEPT !.disabled = TRUE, !.stuck = @ \/ spin.timer # "none"]
  <2>1. SpinStep(t) /\ ~ spin.hung
    BY <1>15 DEF SwitchesOff, SpinStep
  <2>2. (spin.stuck \/ spin.timer # "none") \in BOOLEAN
    BY DEF SpinStates
  <2>3. t \in SpinStates
    BY <2>2, ZenonT(60) DEF SpinStates
  <2>4. /\ t.value = spin.value /\ t.limits = spin.limits /\ t.typed = spin.typed
        /\ t.held = spin.held /\ t.over = spin.over /\ t.timer = spin.timer
        /\ t.pressed = spin.pressed /\ t.stuck = (spin.stuck \/ spin.timer # "none")
        /\ t.trimmed = spin.trimmed /\ t.key = spin.key /\ t.wheel = spin.wheel
        /\ t.told = spin.told
    BY DEF SpinStates
  <2>5. Limited(t) /\ Holding(t) /\ Listening(t)
    BY <2>1, <2>4 DEF SpinFine, Limited, Holding, Listening
  <2> QED
    BY <2>1, <2>3, <2>5, StepKeeps DEF SpinFine
<1>16. ASSUME SwitchesOn
       PROVE  SpinInv'
  <2> DEFINE t == [spin EXCEPT !.disabled = FALSE]
  <2>1. SpinStep(t) /\ ~ spin.hung
    BY <1>16 DEF SwitchesOn, SpinStep
  <2>2. t \in SpinStates
    BY DEF SpinStates
  <2>3. SpinFine(t)
    BY <2>1 DEF SpinStates, SpinFine, Limited, Holding, Listening
  <2> QED
    BY <2>1, <2>2, <2>3, StepKeeps
<1> QED
  BY <1>1, <1>2, <1>3, <1>4, <1>5, <1>6, <1>7, <1>8, <1>9, <1>10, <1>11, <1>12, <1>13,
     <1>14, <1>15, <1>16 DEF SpinNext

(* Whatever is clicked, held, turned, typed, disabled and left, in any     *)
(* order: a spinner shows a number within its limits unless one was typed, *)
(* it counts by itself only while a button is held, and whoever listens    *)
(* knows its value once all is at rest (jquery.ui.spinner.js).             *)
THEOREM SpinnerKeepsLimits == SpinSpec => []SpinTruthful
<1>1. SpinInv => SpinTruthful
  BY DEF SpinInv, SpinFine, Limited, Holding, Listening, SpinTruthful
<1> QED
  BY <1>1, SpinInvInit, SpinInvStep, PTL DEF SpinSpec

-----------------------------------------------------------------------------
(* A hint of BootstrapWidgets, whose steps these are alone.                *)
TipSpec == TipInit /\ [][TipNext]_tipVars
Tips ==
  [fade : BOOLEAN, over : BOOLEAN, enabled : BOOLEAN, here : BOOLEAN, in : BOOLEAN,
   ever : BOOLEAN, moving : Nat, ends : SUBSET Nat, timers : SUBSET Nat, steps : Nat,
   again : BOOLEAN]

(* What is in the page is drawn or will be taken away by a time-out.  Of a *)
(* hint that was never shown while a time-out ran: none runs while it is   *)
(* drawn.  No fade under way takes away a hint that is drawn.              *)
TipFine(t) ==
  /\ t.here => t.in \/ t.timers # {}
  /\ t.in => t.ends = {}
  /\ ~ t.again /\ t.in => t.here /\ t.timers = {}
TipInv == tip \in Tips /\ TipFine(tip)

LEMMA ShowTipKeeps ==
  ASSUME NEW t \in Tips, TipFine(t)
  PROVE  ShowTip(t) \in Tips /\ TipFine(ShowTip(t))
<1>1. CASE ~ t.enabled
  BY <1>1 DEF ShowTip
<1>2. CASE t.enabled
  <2> DEFINE d == ShowTip(t)
  <2>1. /\ (t.again \/ t.timers # {}) \in BOOLEAN
        /\ (IF t.fade THEN t.steps ELSE 0) \in Nat
    BY DEF Tips
  <2>2. d = [t EXCEPT !.here = TRUE, !.in = TRUE, !.ever = t.fade, !.ends = {},
                      !.moving = IF t.fade THEN t.steps ELSE 0,
                      !.again = t.again \/ t.timers # {}]
    BY <1>2 DEF ShowTip, Tips
  <2>3. d \in Tips
    BY <2>1, <2>2 DEF Tips
  <2>4. /\ d.here /\ d.in /\ d.ends = {} /\ d.timers = t.timers
        /\ d.again = (t.again \/ t.timers # {})
    BY <2>2 DEF Tips
  <2> QED
    BY <2>3, <2>4 DEF TipFine
<1> QED
  BY <1>1, <1>2

LEMMA RemoveTipKeeps ==
  ASSUME NEW t \in Tips, ~ t.again => ~ t.in
  PROVE  RemoveTip(t) \in Tips /\ TipFine(RemoveTip(t))
  BY DEF RemoveTip, Tips, TipFine

LEMMA HideTipKeeps ==
  ASSUME NEW t \in Tips
  PROVE  HideTip(t) \in Tips /\ TipFine(HideTip(t))
<1> DEFINE d == [t EXCEPT !.in = FALSE,
                          !.moving = IF t.ever /\ t.here /\ t.in THEN t.steps ELSE @]
<1>1. (IF t.ever /\ t.here /\ t.in THEN t.steps ELSE t.moving) \in Nat
  BY DEF Tips
<1>2. d \in Tips /\ ~ d.in
  BY <1>1 DEF Tips
<1>3. HideTip(t) = IF t.ever THEN RemoveWithAnimation(d) ELSE RemoveTip(d)
  BY DEF HideTip
<1> HIDE DEF d
<1>4. RemoveTip(d) \in Tips /\ TipFine(RemoveTip(d))
  BY <1>2, RemoveTipKeeps
<1>5. RemoveWithAnimation(d) \in Tips /\ TipFine(RemoveWithAnimation(d))
  BY <1>2 DEF RemoveWithAnimation, Tips, TipFine
<1> QED
  BY <1>3, <1>4, <1>5

LEMMA TipInvInit == TipInit => TipInv
  BY DEF TipInit, TipInv, Tips, TipFine

LEMMA TipInvStep == TipInv /\ [TipNext]_tipVars => TipInv'
<1> SUFFICES ASSUME TipInv, [TipNext]_tipVars
             PROVE  TipInv'
  OBVIOUS
<1> USE DEF TipInv
<1> DEFINE n == [tip EXCEPT !.steps = @ + 1]
<1>0. n \in Tips /\ TipFine(n)
  BY DEF Tips, TipFine
<1>1. CASE UNCHANGED tipVars
  BY <1>1 DEF tipVars
<1>2. CASE MouseEnters
  <2> DEFINE o == [n EXCEPT !.over = TRUE]
  <2>1. tip' = ShowTip(o)
    BY <1>2 DEF MouseEnters, TipStep
  <2> HIDE DEF n
  <2>2. o \in Tips /\ TipFine(o)
    BY <1>0 DEF Tips, TipFine
  <2> QED
    BY <2>1, <2>2, ShowTipKeeps
<1>3. CASE MouseLeaves
  <2> DEFINE o == [n EXCEPT !.over = FALSE]
  <2>1. tip' = HideTip(o)
    BY <1>3 DEF MouseLeaves, TipStep
  <2> HIDE DEF n
  <2>2. o \in Tips
    BY <1>0 DEF Tips
  <2> QED
    BY <2>1, <2>2, HideTipKeeps
<1>4. CASE TogglesEnabled
  <2>1. tip' = [n EXCEPT !.enabled = ~ @]
    BY <1>4 DEF TogglesEnabled, TipStep
  <2> HIDE DEF n
  <2> QED
    BY <1>0, <2>1 DEF Tips, TipFine
<1>5. CASE TogglesTip
  <2>1. tip' = IF n.in THEN HideTip(n) ELSE ShowTip(n)
    BY <1>5 DEF TogglesTip, TipStep
  <2> QED
    BY <1>0, <2>1, ShowTipKeeps, HideTipKeeps
<1>6. CASE TipFaded
  <2>1. CASE tip.ends = {}
    BY <1>6, <2>1 DEF TipFaded, Tips, TipFine
  <2>2. CASE tip.ends # {}
    <3> DEFINE d == [tip EXCEPT !.timers = @ \ tip.ends]
    <3>1. d \in Tips /\ ~ d.in
      BY <2>2 DEF Tips, TipFine
    <3>2. tip' = RemoveTip(d)
      BY <1>6, <2>2 DEF TipFaded
    <3> QED
      BY <3>1, <3>2, RemoveTipKeeps
  <2> QED
    BY <2>1, <2>2
<1>7. CASE TipTimeIsUp
  <2>1. PICK x \in tip.timers : tip' = RemoveTip([tip EXCEPT !.timers = @ \ {x}])
    BY <1>7 DEF TipTimeIsUp
  <2> DEFINE d == [tip EXCEPT !.timers = @ \ {x}]
  <2>2. d \in Tips /\ (~ d.again => ~ d.in)
    BY <2>1 DEF Tips, TipFine
  <2> QED
    BY <2>1, <2>2, RemoveTipKeeps
<1> QED
  BY <1>1, <1>2, <1>3, <1>4, <1>5, <1>6, <1>7 DEF TipNext

(* However often the mouse comes and goes while a hint fades, and whatever *)
(* scripts toggle: a hint that is drawn is in the page, and one that is    *)
(* not is gone when fade and time-out are over, unless it was shown again  *)
(* while a time-out ran (bootstrap.js, show and hide of Tooltip).          *)
THEOREM HintsComeAndGo == TipSpec => []TipTruthful
<1>1. TipInv => TipTruthful
  BY DEF TipInv, Tips, TipFine, TipTruthful
<1> QED
  BY <1>1, TipInvInit, TipInvStep, PTL DEF TipSpec

-----------------------------------------------------------------------------
(* LightBox, whose steps these are alone.                                  *)
LightSpec == LightInit /\ [][LightNext]_lightVars
BoxContents == [of : Links \cup {"none"}, fine : BOOLEAN, visible : BOOLEAN]
Boxes ==
  [photos : PhotoSets, open : BOOLEAN, closing : BOOLEAN, active : BOOLEAN,
   rel : {<<Solo>>, Group}, index : Nat, photo : Links \cup {"none"}, loads : Seq(Links),
   moves : Nat, bound : BOOLEAN, content : BoxContents, label : Nat, loading : BOOLEAN,
   waiting : BOOLEAN, lostWaits : Nat, sliding : BOOLEAN, stopped : BOOLEAN,
   slideDue : BOOLEAN, lostSlides : Nat, steps : Nat, crossed : BOOLEAN, restarted : BOOLEAN]

Pending(s) == s.loads # <<>> \/ s.moves > 0
OnLink(s) == s.index \in 1 .. Len(s.rel)

(* A box that is not open moves nothing, slides nothing and, once it has   *)
(* faded, shows nothing.                                                   *)
Shut(s) ==
  /\ s.closing => ~ s.open
  /\ ~ s.open => s.moves = 0 /\ ~ s.sliding
  /\ ~ s.open /\ ~ s.closing => ~ s.content.visible

(* A slide show has a time-out, or something that will set one.            *)
GoesOn(s) == s.open /\ s.sliding => Pending(s) \/ s.slideDue \/ Len(s.rel) = 1

(* It has one time-out, which waits while nothing else is under way.       *)
OneTimeout(s) ==
  /\ ~ s.sliding => ~ s.slideDue
  /\ s.restarted \/ s.crossed \/ (s.lostSlides = 0 /\ (Pending(s) => ~ s.slideDue))

(* Where there are pictures alone, the one asked for last is at hand, and  *)
(* comes into the box with the last answer at the latest.                  *)
Pictured(s) ==
  Links \subseteq s.photos /\ s.open =>
    /\ s.photo = Current(s)
    /\ s.content.fine /\ s.loads = <<>> => s.content.of = Current(s)

(* While nothing has crossed, at most one load or move is under way, for   *)
(* the link asked for last; when none is, the box shows that one.          *)
Straight(s) ==
  ~ s.crossed =>
    /\ s.lostWaits = 0
    /\ ~ s.open /\ ~ s.closing => ~ s.waiting
    /\ s.open =>
         /\ \/ s.loads = <<>> /\ s.moves \in {0, 1} /\ s.content.of = Current(s)
            \/ s.loads = <<Current(s)>> /\ s.moves = 0
         /\ Current(s) \in s.photos => s.photo = Current(s)
         /\ s.active <=> Pending(s)
         /\ ~ Pending(s) => s.content.visible /\ s.label = s.index /\ ~ s.waiting /\ ~ s.loading

Settled(s) ==
  /\ OnLink(s) /\ Shut(s) /\ OneTimeout(s) /\ Pictured(s) /\ Straight(s)
  /\ s.open /\ s.active => Pending(s)
LightFine(s) == Settled(s) /\ GoesOn(s)
LightInv == lb \in Boxes /\ LightFine(lb)

-----------------------------------------------------------------------------
LEMMA MinIsMember ==
  ASSUME NEW S, S \subseteq Nat, S # {}
  PROVE  Min(S) \in S
<1> DEFINE R == OpToRel(<, Nat)
<1>1. IsWellFoundedOn(R, Nat)
  BY NatLessThanWellFounded
<1>2. \A j, i \in Nat : j < i => <<j, i>> \in R
  BY Zenon DEF OpToRel
<1> HIDE DEF R
<1>3. PICK i \in S : \A j \in S : ~ (<<j, i>> \in R)
  BY <1>1, WFMin
<1>4. i \in Nat /\ \A j \in S : j \in Nat /\ ~ (j < i)
  BY <1>2, <1>3, Zenon
<1>5. \A j \in Nat : ~ (j < i) => i =< j
  BY <1>4
<1>6. \E x \in S : \A y \in S : x =< y
  BY <1>4, <1>5
<1> QED
  BY <1>6 DEF Min

LEMMA AppendIsNotEmpty ==
  ASSUME NEW S, NEW q \in Seq(S), NEW c \in S
  PROVE  Append(q, c) # <<>>
<1>1. Len(Append(q, c)) = Len(q) + 1 /\ Len(q) \in Nat
  OBVIOUS
<1>2. Len(<<>>) = 0
  OBVIOUS
<1>3. Len(Append(q, c)) # Len(<<>>)
  BY <1>1, <1>2
<1> QED
  BY <1>3

LEMMA CurrentIsLink ==
  ASSUME NEW s \in Boxes, OnLink(s)
  PROVE  Current(s) \in Links
<1>1. CASE s.rel = <<Solo>>
  BY <1>1 DEF OnLink, Current, Links
<1>2. CASE s.rel = Group
  BY <1>2, LinksAssumption DEF OnLink, Current, Links, Range
<1> QED
  BY <1>1, <1>2 DEF Boxes

LEMMA StartSlidesStarts ==
  ASSUME NEW s \in Boxes
  PROVE  /\ StartSlides(s) \in Boxes
         /\ StartSlides(s) = [s EXCEPT !.lostSlides = IF s.slideDue THEN @ + 1 ELSE @,
                                       !.slideDue = TRUE, !.sliding = TRUE, !.stopped = FALSE]
<1>1. (IF s.slideDue THEN s.lostSlides + 1 ELSE s.lostSlides) \in Nat
  BY DEF Boxes
<1> QED
  BY <1>1, ZenonT(60) DEF StartSlides, SetSlide, Boxes

(* load: whatever is ready for it is in order afterwards.                  *)
Ready(s) ==
  /\ OnLink(s) /\ Shut(s)
  /\ ~ s.sliding => ~ s.slideDue
  /\ s.restarted \/ s.crossed \/ s.lostSlides = 0
  /\ ~ s.crossed => s.open /\ ~ Pending(s) /\ ~ s.waiting /\ s.lostWaits = 0

LEMMA LoadKeeps ==
  ASSUME NEW s \in Boxes, Ready(s), NEW t, t = LoadLink(s)
  PROVE  t \in Boxes /\ LightFine(t) /\ t.open = s.open
<1> DEFINE c == Current(s)
           w == IF s.waiting THEN s.lostWaits + 1 ELSE s.lostWaits
           p == IF c \in s.photos THEN c ELSE "none"
<1>1. c \in Links
  BY CurrentIsLink DEF Ready
<1>2. w \in Nat /\ p \in Links \cup {"none"} /\ (s.slideDue /\ ~ s.sliding) \in BOOLEAN
      /\ Append(s.loads, c) \in Seq(Links)
  BY <1>1 DEF Boxes
<1>3. t = [s EXCEPT !.active = TRUE, !.photo = p, !.slideDue = s.slideDue /\ ~ s.sliding,
                    !.loads = Append(s.loads, c), !.lostWaits = w, !.waiting = TRUE]
  BY DEF LoadLink, SetWaiting, Boxes
<1> HIDE DEF c, w, p
<1>4. t \in Boxes
  BY <1>2, <1>3, ZenonT(60) DEF Boxes
<1>5. /\ t.active /\ t.photo = p /\ t.slideDue = (s.slideDue /\ ~ s.sliding)
      /\ t.loads = Append(s.loads, c) /\ t.lostWaits = w /\ t.rel = s.rel /\ t.index = s.index
      /\ t.open = s.open /\ t.closing = s.closing /\ t.moves = s.moves /\ t.sliding = s.sliding
      /\ t.content = s.content /\ t.restarted = s.restarted /\ t.crossed = s.crossed
      /\ t.lostSlides = s.lostSlides /\ t.photos = s.photos
  BY <1>3 DEF Boxes
<1>6. c = Current(s) /\ Current(t) = Current(s)
  BY <1>5 DEF c, Current
<1>7. s.loads \in Seq(Links) /\ t.loads # <<>> /\ (s.loads = <<>> => t.loads = <<c>>)
  <2>1. s.loads \in Seq(Links)
    BY DEF Boxes
  <2>3. Append(s.loads, c) # <<>>
    BY <1>1, <2>1, AppendIsNotEmpty
  <2>2. Append(<<>>, c) = <<c>>
    BY <1>1
  <2> QED
    BY <1>5, <2>1, <2>2, <2>3
<1>8. ~ t.slideDue
  BY <1>5 DEF Ready
<1>9. OnLink(t) /\ Shut(t) /\ OneTimeout(t) /\ GoesOn(t) /\ Pending(t)
  BY <1>5, <1>7, <1>8 DEF Ready, OnLink, Shut, OneTimeout, GoesOn, Pending
<1>10. Pictured(t)
  BY <1>1, <1>5, <1>6, <1>7 DEF Pictured, p
<1>11. Straight(t)
  <2> SUFFICES ASSUME ~ t.crossed
               PROVE  /\ t.lostWaits = 0 /\ t.open /\ t.loads = <<Current(t)>> /\ t.moves = 0
                      /\ Current(t) \in t.photos => t.photo = Current(t)
    BY <1>5, <1>9 DEF Straight
  <2>1. s.open /\ ~ Pending(s) /\ ~ s.waiting /\ s.lostWaits = 0
    BY <1>5 DEF Ready
  <2>2. s.loads = <<>> /\ s.moves = 0
    BY <2>1 DEF Pending, Boxes
  <2> QED
    BY <1>5, <1>6, <1>7, <2>1, <2>2 DEF p, w
<1> QED
  BY <1>4, <1>5, <1>9, <1>10, <1>11 DEF LightFine, Settled

LEMMA GoOnKeeps ==
  ASSUME NEW s \in Boxes, Settled(s), NEW by \in {-1, 1}, NEW t, t = GoOn(s, by)
  PROVE  /\ (t = s /\ (s.active \/ Len(s.rel) = 1)) \/ LightFine(t)
         /\ t \in Boxes /\ t.open = s.open
<1>1. CASE s.active \/ Len(s.rel) = 1
  BY <1>1 DEF GoOn
<1>2. CASE ~ (s.active \/ Len(s.rel) = 1)
  <2> DEFINE i == GetIndex(s, by)
             x == [s EXCEPT !.index = i, !.crossed = @ \/ ~ s.open]
  <2>1. t = LoadLink(x)
    BY <1>2 DEF GoOn
  <2>2. Len(s.rel) \in Nat /\ s.index \in 1 .. Len(s.rel)
    BY LinksAssumption DEF Boxes, Settled, OnLink
  <2>3. i \in 1 .. Len(s.rel)
    <3>1. PICK k, n \in Int : k = s.index - 1 + by + n /\ n = Len(s.rel) /\ n > 0
      BY <2>2
    <3>2. k % n \in 0 .. n - 1
      BY <3>1, <2>2
    <3> QED
      BY <3>1, <3>2 DEF GetIndex
  <2> HIDE DEF i
  <2>4. x \in Boxes
    <3>1. (s.crossed \/ ~ s.open) \in BOOLEAN /\ i \in Nat
      BY <2>2, <2>3
    <3> QED
      BY <3>1 DEF Boxes
  <2>5. /\ x.rel = s.rel /\ x.index = i /\ x.crossed = (s.crossed \/ ~ s.open)
        /\ x.open = s.open /\ x.closing = s.closing /\ x.moves = s.moves /\ x.loads = s.loads
        /\ x.sliding = s.sliding /\ x.slideDue = s.slideDue /\ x.lostSlides = s.lostSlides
        /\ x.content = s.content /\ x.restarted = s.restarted /\ x.waiting = s.waiting
        /\ x.lostWaits = s.lostWaits
    BY DEF Boxes
  <2> HIDE DEF x
  <2>6. OnLink(x) /\ Shut(x)
    BY <2>3, <2>5 DEF Settled, OnLink, Shut
  <2>7. (~ x.sliding => ~ x.slideDue) /\ (x.restarted \/ x.crossed \/ x.lostSlides = 0)
    BY <2>5 DEF Settled, OneTimeout
  <2>8. ~ x.crossed => x.open /\ ~ Pending(x) /\ ~ x.waiting /\ x.lostWaits = 0
    BY <1>2, <2>5 DEF Settled, Straight, Pending
  <2>9. Ready(x)
    BY <2>6, <2>7, <2>8 DEF Ready
  <2> QED
    BY <2>1, <2>4, <2>5, <2>9, LoadKeeps
<1> QED
  BY <1>1, <1>2

LEMMA LaunchKeeps ==
  ASSUME NEW s \in Boxes, LightFine(s), ~ s.closing, NEW l \in Links,
         NEW t, t = Launch(s, l)
  PROVE  t \in Boxes /\ LightFine(t)
<1> DEFINE rel == IF l = Solo THEN <<Solo>> ELSE Group
           i == SelectInSeq(rel, LAMBDA k : k = l)
           d == [s EXCEPT !.rel = rel, !.index = i,
                          !.crossed = @ \/ s.loads # <<>> \/ s.moves > 0]
           o == [d EXCEPT !.open = TRUE, !.bound = TRUE]
           x == IF s.open THEN d ELSE IF l = Solo THEN o ELSE StartSlides(o)
<1>1. t = LoadLink(x)
  BY DEF Launch
<1>2. i \in 1 .. Len(rel) /\ i \in Nat /\ rel \in {<<Solo>>, Group}
  <2>1. \E j \in 1 .. Len(rel) : rel[j] = l
    <3>1. CASE l = Solo
      BY <3>1
    <3>2. CASE l # Solo
      <4>1. l \in Range(Group)
        BY <3>2 DEF Links
      <4> QED
        BY <3>2, <4>1, LinksAssumption DEF Range
    <3> QED
      BY <3>1, <3>2
  <2>2. Len(rel) \in Nat
    BY LinksAssumption
  <2> DEFINE I == {j \in 1 .. Len(rel) : rel[j] = l}
  <2>3. I # {} /\ I \subseteq Nat
    BY <2>1, <2>2
  <2>4. i = Min(I)
    BY <2>3 DEF SelectInSeq
  <2> HIDE DEF i, rel
  <2>5. i \in I
    BY <2>3, <2>4, MinIsMember
  <2> QED
    BY <2>2, <2>5 DEF rel
<1> HIDE DEF i, rel
<1>3. (s.crossed \/ s.loads # <<>> \/ s.moves > 0) \in BOOLEAN
  OBVIOUS
<1>4. /\ d \in Boxes /\ d.rel = rel /\ d.index = i
      /\ d.crossed = (s.crossed \/ s.loads # <<>> \/ s.moves > 0)
      /\ d.open = s.open /\ d.closing = s.closing /\ d.moves = s.moves /\ d.loads = s.loads
      /\ d.sliding = s.sliding /\ d.slideDue = s.slideDue /\ d.lostSlides = s.lostSlides
      /\ d.restarted = s.restarted /\ d.waiting = s.waiting /\ d.lostWaits = s.lostWaits
      /\ d.content = s.content
  BY <1>2, <1>3 DEF Boxes
<1> HIDE DEF d
<1>5. /\ o \in Boxes /\ o.rel = rel /\ o.index = i /\ o.crossed = d.crossed
      /\ o.open /\ o.closing = s.closing /\ o.moves = s.moves /\ o.loads = s.loads
      /\ o.sliding = s.sliding /\ o.slideDue = s.slideDue /\ o.lostSlides = s.lostSlides
      /\ o.restarted = s.restarted /\ o.waiting = s.waiting /\ o.lostWaits = s.lostWaits
  BY <1>4 DEF Boxes
<1> HIDE DEF o
<1>6. ASSUME ~ s.open
      PROVE  /\ StartSlides(o) \in Boxes /\ StartSlides(o).rel = rel /\ StartSlides(o).index = i
             /\ StartSlides(o).crossed = d.crossed /\ StartSlides(o).open
             /\ StartSlides(o).moves = s.moves
             /\ StartSlides(o).loads = s.loads /\ StartSlides(o).sliding
             /\ StartSlides(o).lostSlides = s.lostSlides
             /\ StartSlides(o).restarted = s.restarted /\ StartSlides(o).waiting = s.waiting
             /\ StartSlides(o).lostWaits = s.lostWaits /\ StartSlides(o).closing = s.closing
  <2>1. ~ o.slideDue
    BY <1>5, <1>6 DEF LightFine, Settled, Shut, OneTimeout
  <2>2. StartSlides(o) = [o EXCEPT !.lostSlides = o.lostSlides, !.slideDue = TRUE,
                                   !.sliding = TRUE, !.stopped = FALSE]
    BY <1>5, <2>1, StartSlidesStarts
  <2> QED
    <3>1. StartSlides(o) \in Boxes
      BY <1>5, StartSlidesStarts
    <3> QED
      BY <1>5, <2>2, <3>1 DEF Boxes
<1>7. /\ x \in Boxes /\ x.rel = rel /\ x.index = i /\ x.crossed = d.crossed
      /\ x.open /\ x.closing = s.closing /\ x.moves = s.moves /\ x.loads = s.loads
      /\ x.lostSlides = s.lostSlides /\ x.restarted = s.restarted /\ x.waiting = s.waiting
      /\ x.lostWaits = s.lostWaits
      /\ (x.sliding = s.sliding /\ x.slideDue = s.slideDue) \/ x.sliding
  BY <1>4, <1>5, <1>6
<1> HIDE DEF x
<1>8. OnLink(x) /\ Shut(x)
  BY <1>2, <1>7 DEF OnLink, Shut
<1>9. (~ x.sliding => ~ x.slideDue) /\ (x.restarted \/ x.crossed \/ x.lostSlides = 0)
  BY <1>4, <1>7 DEF LightFine, Settled, OneTimeout
<1>10. ~ x.crossed => ~ s.crossed /\ ~ Pending(s)
  BY <1>4, <1>7 DEF Pending
<1>11. ~ x.crossed => ~ x.waiting /\ x.lostWaits = 0
  BY <1>7, <1>10 DEF LightFine, Settled, Straight
<1>12. Ready(x)
  BY <1>7, <1>8, <1>9, <1>10, <1>11 DEF Ready, Pending
<1> QED
  BY <1>1, <1>7, <1>12, LoadKeeps

-----------------------------------------------------------------------------
(* The steps.                                                              *)
LEMMA RemoveAtRemoves ==
  ASSUME NEW S, NEW q \in Seq(S), NEW j \in DOMAIN q
  PROVE  /\ RemoveAt(q, j) \in Seq(S)
         /\ Len(q) = 1 => RemoveAt(q, j) = <<>>
<1>1. Len(q) \in Nat /\ j \in 1 .. Len(q)
  OBVIOUS
<1>2. SubSeq(q, 1, j - 1) \in Seq(S) /\ SubSeq(q, j + 1, Len(q)) \in Seq(S)
  BY <1>1
<1>3. RemoveAt(q, j) \in Seq(S)
  BY <1>2 DEF RemoveAt
<1>4. ASSUME Len(q) = 1
      PROVE  RemoveAt(q, j) = <<>>
  <2>1. j = 1
    BY <1>1, <1>4
  <2>2. SubSeq(q, 1, 0) = <<>> /\ SubSeq(q, 2, 1) = <<>>
    BY <1>1
  <2> QED
    BY <1>4, <2>1, <2>2 DEF RemoveAt
<1> QED
  BY <1>3, <1>4

LEMMA LightInvInit == LightInit => LightInv
<1> SUFFICES ASSUME LightInit
             PROVE  LightInv
  OBVIOUS
<1>1. EmptyBox \in BoxContents /\ ~ EmptyBox.visible
  BY DEF EmptyBox, BoxContents
<1>2. lb \in Boxes
  BY <1>1 DEF LightInit, Boxes, Links
<1>3. /\ ~ lb.open /\ ~ lb.closing /\ lb.moves = 0 /\ ~ lb.sliding /\ ~ lb.slideDue
      /\ lb.lostSlides = 0 /\ lb.lostWaits = 0 /\ ~ lb.waiting /\ lb.loads = <<>>
      /\ lb.rel = <<Solo>> /\ lb.index = 1 /\ lb.content = EmptyBox
  BY DEF LightInit
<1> QED
  BY <1>1, <1>2, <1>3 DEF LightInv, LightFine, Settled, OnLink, Shut, OneTimeout, GoesOn,
                          Pictured, Straight, Pending

LEMMA CountedKeeps ==
  ASSUME NEW s \in Boxes, LightFine(s), lb' = [s EXCEPT !.steps = @ + 1]
  PROVE  LightInv'
<1>1. lb' \in Boxes
  BY DEF Boxes
<1>2. /\ lb'.open = s.open /\ lb'.closing = s.closing /\ lb'.moves = s.moves
      /\ lb'.sliding = s.sliding /\ lb'.slideDue = s.slideDue /\ lb'.lostSlides = s.lostSlides
      /\ lb'.lostWaits = s.lostWaits /\ lb'.waiting = s.waiting /\ lb'.loads = s.loads
      /\ lb'.rel = s.rel /\ lb'.index = s.index /\ lb'.content = s.content
      /\ lb'.restarted = s.restarted /\ lb'.crossed = s.crossed /\ lb'.photos = s.photos
      /\ lb'.photo = s.photo /\ lb'.active = s.active /\ lb'.label = s.label
      /\ lb'.loading = s.loading
  BY DEF Boxes
<1> QED
  BY <1>1, <1>2 DEF LightInv, LightFine, Settled, OnLink, Shut, OneTimeout, GoesOn,
                    Pictured, Straight, Pending, Current

LEMMA StopKeeps ==
  ASSUME NEW s \in Boxes, LightFine(s)
  PROVE  StopSlides(s) \in Boxes /\ LightFine(StopSlides(s))
<1> DEFINE t == StopSlides(s)
<1>1. t \in Boxes
  BY DEF StopSlides, Boxes
<1>2. /\ t.open = s.open /\ t.closing = s.closing /\ t.moves = s.moves
      /\ ~ t.sliding /\ ~ t.slideDue /\ t.lostSlides = s.lostSlides
      /\ t.lostWaits = s.lostWaits /\ t.waiting = s.waiting /\ t.loads = s.loads
      /\ t.rel = s.rel /\ t.index = s.index /\ t.content = s.content
      /\ t.restarted = s.restarted /\ t.crossed = s.crossed /\ t.photos = s.photos
      /\ t.photo = s.photo /\ t.active = s.active /\ t.label = s.label
      /\ t.loading = s.loading
  BY DEF StopSlides, Boxes
<1> QED
  BY <1>1, <1>2 DEF LightFine, Settled, OnLink, Shut, OneTimeout, GoesOn,
                    Pictured, Straight, Pending, Current

LEMMA CloseKeeps ==
  ASSUME NEW s \in Boxes, LightFine(s), s.open
  PROVE  CloseBox(s) \in Boxes /\ LightFine(CloseBox(s))
<1> DEFINE u == IF s.sliding THEN StopSlides(s) ELSE s
           t == CloseBox(s)
<1>1. u \in Boxes /\ LightFine(u) /\ ~ u.sliding
  <2>1. ~ StopSlides(s).sliding
    BY DEF StopSlides, Boxes
  <2> QED
    BY <2>1, StopKeeps
<1>2. t = [u EXCEPT !.open = FALSE, !.closing = TRUE, !.bound = FALSE, !.moves = 0]
  BY DEF CloseBox
<1> HIDE DEF u, t
<1>3. /\ t \in Boxes
      /\ ~ t.open /\ t.closing /\ t.moves = 0 /\ t.sliding = u.sliding
      /\ t.slideDue = u.slideDue /\ t.lostSlides = u.lostSlides
      /\ t.lostWaits = u.lostWaits /\ t.rel = u.rel /\ t.index = u.index
      /\ t.restarted = u.restarted /\ t.crossed = u.crossed
  BY <1>1, <1>2, ZenonT(60) DEF Boxes
<1>4. ~ t.slideDue
  BY <1>1, <1>3 DEF LightFine, Settled, OneTimeout
<1>5. LightFine(t)
  BY <1>1, <1>3, <1>4 DEF LightFine, Settled, OnLink, Shut, OneTimeout, GoesOn,
                          Pictured, Straight
<1> QED
  BY <1>3, <1>5 DEF t

(* An answer, of a picture, a page or an error.                            *)
LEMMA AnswerKeeps ==
  ASSUME NEW s \in Boxes, LightFine(s), NEW j \in DOMAIN s.loads,
         NEW of \in Links \cup {"none"}, NEW fine \in BOOLEAN,
         of = IF fine /\ s.loads[j] \in s.photos THEN s.photo ELSE s.loads[j],
         NEW t, t = Prepare([s EXCEPT !.loads = RemoveAt(@, j)], of, fine)
  PROVE  t \in Boxes /\ LightFine(t)
<1> DEFINE d == [s EXCEPT !.loads = RemoveAt(@, j)]
           c == [of |-> of, fine |-> fine, visible |-> FALSE]
<1>1. /\ s.loads \in Seq(Links) /\ s.loads # <<>>
      /\ RemoveAt(s.loads, j) \in Seq(Links)
      /\ Len(s.loads) = 1 => RemoveAt(s.loads, j) = <<>>
  <2>1. s.loads \in Seq(Links)
    BY DEF Boxes
  <2> QED
    BY <2>1, RemoveAtRemoves
<1>2. Pending(s)
  BY <1>1 DEF Pending
<1>3. CASE ~ s.open
  <2>1. t = d
    BY <1>3 DEF Prepare, Boxes
  <2>2. /\ t \in Boxes
        /\ ~ t.open /\ t.closing = s.closing /\ t.moves = s.moves /\ t.sliding = s.sliding
        /\ t.slideDue = s.slideDue /\ t.lostSlides = s.lostSlides /\ t.content = s.content
        /\ t.lostWaits = s.lostWaits /\ t.rel = s.rel /\ t.index = s.index
        /\ t.restarted = s.restarted /\ t.crossed = s.crossed /\ t.waiting = s.waiting
    BY <1>1, <1>3, <2>1 DEF Boxes
  <2> QED
    <3>1. OnLink(t) /\ Shut(t) /\ GoesOn(t) /\ Pictured(t)
      BY <1>3, <2>2 DEF LightFine, Settled, OnLink, Shut, GoesOn, Pictured
    <3>2. OneTimeout(t)
      BY <1>2, <2>2 DEF LightFine, Settled, OneTimeout
    <3>3. Straight(t)
      BY <1>3, <2>2 DEF LightFine, Settled, Straight
    <3> QED
      BY <2>2, <3>1, <3>2, <3>3 DEF LightFine, Settled
<1>4. CASE s.open
  <2>1. t = [d EXCEPT !.content = c, !.moves = @ + 1, !.bound = FALSE]
    BY <1>4 DEF Prepare, Boxes
  <2>2. c \in BoxContents
    BY DEF BoxContents
  <2>3. d \in Boxes /\ d = [s EXCEPT !.loads = RemoveAt(s.loads, j)]
    BY <1>1 DEF Boxes
  <2> HIDE DEF d, c
  <2>4. /\ t \in Boxes
        /\ t.open /\ t.closing = s.closing /\ t.moves = s.moves + 1 /\ t.sliding = s.sliding
        /\ t.slideDue = s.slideDue /\ t.lostSlides = s.lostSlides /\ t.content = c
        /\ t.lostWaits = s.lostWaits /\ t.rel = s.rel /\ t.index = s.index
        /\ t.restarted = s.restarted /\ t.crossed = s.crossed /\ t.waiting = s.waiting
        /\ t.loads = RemoveAt(s.loads, j) /\ t.photo = s.photo /\ t.photos = s.photos
        /\ t.active = s.active
    <3>1. /\ d.open = s.open /\ d.closing = s.closing /\ d.moves = s.moves
          /\ d.sliding = s.sliding /\ d.slideDue = s.slideDue /\ d.lostSlides = s.lostSlides
          /\ d.lostWaits = s.lostWaits /\ d.rel = s.rel /\ d.index = s.index
          /\ d.restarted = s.restarted /\ d.crossed = s.crossed /\ d.waiting = s.waiting
          /\ d.loads = RemoveAt(s.loads, j) /\ d.photo = s.photo /\ d.photos = s.photos
          /\ d.active = s.active
      BY <2>3 DEF Boxes
    <3>2. d \in Boxes /\ d.moves + 1 \in Nat
      BY <2>3 DEF Boxes
    <3>3. t \in Boxes
      BY <2>1, <2>2, <3>2 DEF Boxes
    <3>4. /\ t.open = d.open /\ t.closing = d.closing /\ t.moves = d.moves + 1
          /\ t.sliding = d.sliding /\ t.slideDue = d.slideDue /\ t.lostSlides = d.lostSlides
          /\ t.lostWaits = d.lostWaits /\ t.rel = d.rel /\ t.index = d.index
          /\ t.restarted = d.restarted /\ t.crossed = d.crossed /\ t.waiting = d.waiting
          /\ t.loads = d.loads /\ t.photo = d.photo /\ t.photos = d.photos
          /\ t.active = d.active /\ t.content = c
      BY <2>1, <3>2 DEF Boxes
    <3> QED
      BY <1>4, <3>1, <3>3, <3>4
  <2>5. Pending(t) /\ s.moves \in Nat
    BY <2>4 DEF Pending, Boxes
  <2>6. c.of = of /\ c.fine = fine
    BY DEF c
  <2>7. s.loads[j] \in Links
    BY <1>1
  <2>8. OnLink(t) /\ Shut(t) /\ OneTimeout(t) /\ GoesOn(t)
    BY <1>2, <1>4, <2>4, <2>5 DEF LightFine, Settled, OnLink, Shut, OneTimeout, GoesOn
  <2>9. Pictured(t)
    <3>1. Current(t) = Current(s)
      BY <2>4 DEF Current
    <3> QED
      BY <1>4, <2>4, <2>6, <2>7, <3>1 DEF LightFine, Settled, Pictured
  <2>10. Straight(t)
    <3> SUFFICES ASSUME ~ t.crossed
                 PROVE  /\ t.lostWaits = 0
                        /\ t.loads = <<>> /\ t.moves = 1 /\ t.content.of = Current(t)
                        /\ Current(t) \in t.photos => t.photo = Current(t)
                        /\ t.active
      BY <2>4, <2>5 DEF Straight
    <3>1. /\ s.lostWaits = 0 /\ s.loads = <<Current(s)>> /\ s.moves = 0
          /\ Current(s) \in s.photos => s.photo = Current(s)
          /\ s.active
      BY <1>1, <1>2, <1>4, <2>4 DEF LightFine, Settled, Straight
    <3>2. Len(s.loads) = 1 /\ j = 1 /\ s.loads[j] = Current(s)
      BY <3>1
    <3>3. Current(t) = Current(s)
      BY <2>4 DEF Current
    <3>4. of = Current(s)
      BY <3>1, <3>2
    <3>5. t.loads = <<>>
      BY <1>1, <2>4, <3>2
    <3>6. t.moves = 1 /\ t.content.of = Current(t)
      BY <2>4, <2>6, <3>1, <3>3, <3>4
    <3> HIDE DEF Current
    <3> QED
      BY <2>4, <3>1, <3>3, <3>5, <3>6
  <2> QED
    BY <2>4, <2>5, <2>8, <2>9, <2>10 DEF LightFine, Settled
<1> QED
  BY <1>3, <1>4

LEMMA LightInvStep == LightInv /\ [LightNext]_lightVars => LightInv'
<1> SUFFICES ASSUME lb \in Boxes, LightFine(lb), [LightNext]_lightVars
             PROVE  LightInv'
  BY DEF LightInv
<1>1. CASE UNCHANGED lightVars
  BY <1>1 DEF lightVars, LightInv, LightFine, Settled, OnLink, Shut, OneTimeout, GoesOn, Pictured,
              Straight, Pending, Current
<1>2. ASSUME NEW l \in Links, LaunchesLink(l)
      PROVE  LightInv'
  <2>1. ~ lb.closing /\ lb' = [Launch(lb, l) EXCEPT !.steps = @ + 1]
    BY <1>2 DEF LaunchesLink, LightStep
  <2>2. Launch(lb, l) \in Boxes /\ LightFine(Launch(lb, l))
    BY <2>1, LaunchKeeps
  <2> QED
    BY <2>1, <2>2, CountedKeeps
<1>3. ASSUME NEW by \in {-1, 1}, TurnsTo(by)
      PROVE  LightInv'
  <2>1. lb' = [GoOn(lb, by) EXCEPT !.steps = @ + 1]
    BY <1>3 DEF TurnsTo, LightStep
  <2>2. GoOn(lb, by) \in Boxes /\ LightFine(GoOn(lb, by))
    BY GoOnKeeps DEF LightFine
  <2> QED
    BY <2>1, <2>2, CountedKeeps
<1>4. CASE ClosesBox
  <2>1. lb.open /\ lb' = [CloseBox(lb) EXCEPT !.steps = @ + 1]
    BY <1>4 DEF ClosesBox, LightStep
  <2>2. CloseBox(lb) \in Boxes /\ LightFine(CloseBox(lb))
    BY <2>1, CloseKeeps
  <2> QED
    BY <2>1, <2>2, CountedKeeps
<1>5. CASE ClicksSlideshow
  <2>1. CASE lb.sliding
    <3>1. lb' = [StopSlides(lb) EXCEPT !.steps = @ + 1]
      BY <1>5, <2>1 DEF ClicksSlideshow, LightStep
    <3> QED
      BY <3>1, StopKeeps, CountedKeeps
  <2>2. CASE ~ lb.sliding
    <3> DEFINE g == GoOn(lb, 1)
               b == StartSlides(g)
               t == [b EXCEPT !.restarted = TRUE]
    <3>1. lb.open /\ lb' = [t EXCEPT !.steps = @ + 1]
      BY <1>5, <2>2 DEF ClicksSlideshow, LightStep
    <3>2. g \in Boxes /\ LightFine(g) /\ g.open
      BY <3>1, GoOnKeeps DEF LightFine
    <3> HIDE DEF g
    <3>8. b \in Boxes
      BY <3>2, StartSlidesStarts
    <3>3. /\ b \in Boxes
          /\ b = [g EXCEPT !.lostSlides = IF g.slideDue THEN @ + 1 ELSE @,
                           !.slideDue = TRUE, !.sliding = TRUE, !.stopped = FALSE]
      BY <3>2, StartSlidesStarts
    <3>4. /\ b.open = g.open /\ b.closing = g.closing /\ b.moves = g.moves
          /\ b.lostWaits = g.lostWaits /\ b.waiting = g.waiting /\ b.loads = g.loads
          /\ b.rel = g.rel /\ b.index = g.index /\ b.content = g.content
          /\ b.crossed = g.crossed /\ b.photos = g.photos
          /\ b.photo = g.photo /\ b.active = g.active /\ b.label = g.label
          /\ b.loading = g.loading /\ b.sliding /\ b.slideDue
      BY <3>2, <3>3, ZenonT(60) DEF Boxes
    <3> HIDE DEF b
    <3>5. t \in Boxes
      BY <3>8 DEF Boxes
    <3>6. /\ t.open /\ t.closing = g.closing /\ t.moves = g.moves
          /\ t.lostWaits = g.lostWaits /\ t.waiting = g.waiting /\ t.loads = g.loads
          /\ t.rel = g.rel /\ t.index = g.index /\ t.content = g.content
          /\ t.crossed = g.crossed /\ t.photos = g.photos
          /\ t.photo = g.photo /\ t.active = g.active /\ t.label = g.label
          /\ t.loading = g.loading /\ t.sliding /\ t.slideDue /\ t.restarted
      BY <3>2, <3>3, <3>4 DEF Boxes
    <3>7. LightFine(t)
      <4>1. Current(t) = Current(g) /\ Pending(t) = Pending(g)
        BY <3>6 DEF Current, Pending
      <4>2. OnLink(t) /\ Shut(t) /\ OneTimeout(t) /\ GoesOn(t)
        BY <3>2, <3>6 DEF LightFine, Settled, OnLink, Shut, OneTimeout, GoesOn
      <4>3. Pictured(t) /\ Straight(t)
        BY <3>2, <3>6, <4>1 DEF LightFine, Settled, Pictured, Straight
      <4> QED
        BY <3>2, <3>6, <4>1, <4>2, <4>3 DEF LightFine, Settled
    <3> QED
      BY <3>1, <3>5, <3>7, CountedKeeps
  <2> QED
    BY <2>1, <2>2
<1>6. CASE ResizesWindow
  <2> DEFINE y == lb.crossed \/ lb.active
             t == [lb EXCEPT !.active = FALSE, !.crossed = y]
  <2>1. lb' = [t EXCEPT !.steps = @ + 1]
    BY <1>6 DEF ResizesWindow, LightStep
  <2>2. y \in BOOLEAN
    OBVIOUS
  <2> HIDE DEF y
  <2>3. t \in Boxes
    BY <2>2 DEF Boxes
  <2>4. /\ t.open = lb.open /\ t.closing = lb.closing /\ t.moves = lb.moves
        /\ t.lostWaits = lb.lostWaits /\ t.waiting = lb.waiting /\ t.loads = lb.loads
        /\ t.rel = lb.rel /\ t.index = lb.index /\ t.content = lb.content
        /\ t.crossed = y /\ t.photos = lb.photos
        /\ t.photo = lb.photo /\ ~ t.active /\ t.label = lb.label
        /\ t.loading = lb.loading /\ t.sliding = lb.sliding /\ t.slideDue = lb.slideDue
        /\ t.restarted = lb.restarted /\ t.lostSlides = lb.lostSlides
    BY DEF Boxes
  <2> HIDE DEF t
  <2>5. Current(t) = Current(lb) /\ Pending(t) = Pending(lb)
    BY <2>4 DEF Current, Pending
  <2>6. OnLink(t) /\ Shut(t) /\ OneTimeout(t) /\ GoesOn(t)
    BY <2>4, <2>5 DEF LightFine, Settled, OnLink, Shut, OneTimeout, GoesOn, y
  <2>7. Pictured(t) /\ Straight(t)
    BY <2>4, <2>5 DEF LightFine, Settled, Pictured, Straight, y
  <2>8. LightFine(t)
    BY <2>4, <2>6, <2>7 DEF LightFine, Settled
  <2> QED
    BY <2>1, <2>3, <2>8, CountedKeeps
<1>7. ASSUME NEW j \in DOMAIN lb.loads, LinkLoads(j) \/ LinkFails(j)
      PROVE  LightInv'
  <2>1. lb.loads[j] \in Links /\ lb.photo \in Links \cup {"none"}
    <3>1. lb.loads \in Seq(Links)
      BY DEF Boxes
    <3> QED
      BY <3>1 DEF Boxes
  <2>2. PICK fine \in BOOLEAN :
          lb' = Prepare([lb EXCEPT !.loads = RemoveAt(@, j)],
                        IF fine /\ lb.loads[j] \in lb.photos THEN lb.photo ELSE lb.loads[j], fine)
    <3>1. CASE LinkLoads(j)
      <4>1. lb.photos = [lb EXCEPT !.loads = RemoveAt(@, j)].photos
        BY DEF Boxes
      <4> QED
        BY <3>1, <4>1 DEF LinkLoads
    <3>2. CASE LinkFails(j)
      BY <3>2 DEF LinkFails
    <3> QED
      BY <1>7, <3>1, <3>2
  <2> DEFINE of == IF fine /\ lb.loads[j] \in lb.photos THEN lb.photo ELSE lb.loads[j]
  <2>3. of \in Links \cup {"none"}
    BY <2>1
  <2> QED
    BY <2>2, <2>3, AnswerKeeps DEF LightInv
<1>8. CASE BoxMoved
  <2> DEFINE d == [lb EXCEPT !.moves = @ - 1, !.active = FALSE, !.bound = TRUE, !.waiting = FALSE,
                             !.loading = FALSE, !.content.visible = TRUE, !.label = lb.index]
  <2>1. lb.moves > 0 /\ lb' = IF lb.sliding THEN SetSlide(d) ELSE d
    BY <1>8 DEF BoxMoved
  <2>2. lb.moves \in Nat /\ lb.content \in BoxContents /\ lb.open /\ Pending(lb)
    BY <2>1 DEF Boxes, LightFine, Settled, Shut, Pending
  <2>3. [lb.content EXCEPT !.visible = TRUE] \in BoxContents
    BY <2>2 DEF BoxContents
  <2>4. d \in Boxes
    <3>1. PICK m, c : m = lb.moves - 1 /\ c = [lb.content EXCEPT !.visible = TRUE]
      OBVIOUS
    <3>2. m \in Nat /\ c \in BoxContents
      BY <2>1, <2>2, <2>3, <3>1
    <3>3. d = [lb EXCEPT !.moves = m, !.active = FALSE, !.bound = TRUE, !.waiting = FALSE,
                         !.loading = FALSE, !.content = c, !.label = lb.index]
      BY <3>1 DEF Boxes
    <3> HIDE DEF d
    <3> QED
      BY <3>2, <3>3 DEF Boxes
  <2>5. /\ d.open /\ d.closing = lb.closing /\ d.moves = lb.moves - 1
        /\ d.lostWaits = lb.lostWaits /\ ~ d.waiting /\ d.loads = lb.loads
        /\ d.rel = lb.rel /\ d.index = lb.index
        /\ d.crossed = lb.crossed /\ d.photos = lb.photos
        /\ d.photo = lb.photo /\ ~ d.active /\ d.label = lb.index
        /\ ~ d.loading /\ d.sliding = lb.sliding /\ d.slideDue = lb.slideDue
        /\ d.restarted = lb.restarted /\ d.lostSlides = lb.lostSlides
    BY <2>2 DEF Boxes
  <2>6. d.content.of = lb.content.of /\ d.content.fine = lb.content.fine /\ d.content.visible
    BY <2>2 DEF Boxes, BoxContents
  <2> HIDE DEF d
  <2>7. /\ lb' \in Boxes
        /\ lb'.open /\ lb'.closing = d.closing /\ lb'.moves = d.moves
        /\ lb'.lostWaits = d.lostWaits /\ ~ lb'.waiting /\ lb'.loads = d.loads
        /\ lb'.rel = d.rel /\ lb'.index = d.index
        /\ lb'.crossed = d.crossed /\ lb'.photos = d.photos
        /\ lb'.photo = d.photo /\ ~ lb'.active /\ lb'.label = d.label
        /\ ~ lb'.loading /\ lb'.sliding = d.sliding /\ lb'.content = d.content
        /\ lb'.restarted = d.restarted
        /\ lb'.slideDue = d.sliding \/ lb'.slideDue = d.slideDue
        /\ d.sliding => lb'.slideDue
        /\ ~ d.sliding => lb'.slideDue = d.slideDue
        /\ ~ d.slideDue => lb'.lostSlides = d.lostSlides
    <3>1. CASE lb.sliding
      <4>1. lb' = SetSlide(d)
        BY <2>1, <3>1
      <4>2. (IF d.slideDue THEN d.lostSlides + 1 ELSE d.lostSlides) \in Nat
        BY <2>4 DEF Boxes
      <4>3. lb' \in Boxes
        BY <2>4, <4>1, <4>2, ZenonT(60) DEF SetSlide, Boxes
      <4> QED
        BY <2>4, <2>5, <3>1, <4>1, <4>3, ZenonT(60) DEF SetSlide, Boxes
    <3>2. CASE ~ lb.sliding
      BY <2>1, <2>4, <2>5, <3>2
    <3> QED
      BY <3>1, <3>2
  <2>8. OnLink(lb') /\ Shut(lb') /\ GoesOn(lb')
    BY <2>2, <2>5, <2>7 DEF LightFine, Settled, OnLink, Shut, GoesOn
  <2>9. ~ (lb.restarted \/ lb.crossed) => ~ lb.slideDue /\ lb.lostSlides = 0
    BY <2>2 DEF LightFine, Settled, OneTimeout
  <2>10. (lb.loads = <<>> /\ lb.moves = 1 /\ lb.content.of = Current(lb)) \/ lb.crossed
    BY <2>1, <2>2 DEF LightFine, Settled, Straight
  <2>11. OneTimeout(lb')
    <3>1. ~ lb'.sliding => ~ lb'.slideDue
      BY <2>5, <2>7 DEF LightFine, Settled, OneTimeout
    <3>2. ~ (lb'.restarted \/ lb'.crossed) => lb'.lostSlides = 0
      BY <2>5, <2>7, <2>9
    <3>3. ~ lb'.crossed => ~ Pending(lb')
      BY <2>5, <2>7, <2>10 DEF Pending
    <3> QED
      BY <3>1, <3>2, <3>3 DEF OneTimeout
  <2>12. Pictured(lb') /\ Straight(lb')
    <3>1. Current(lb') = Current(lb)
      BY <2>5, <2>7 DEF Current
    <3>2. Pictured(lb')
      BY <2>2, <2>5, <2>6, <2>7, <3>1 DEF LightFine, Settled, Pictured
    <3>3. Straight(lb')
      <4> SUFFICES ASSUME ~ lb'.crossed
                   PROVE  /\ lb'.lostWaits = 0 /\ lb'.loads = <<>> /\ lb'.moves = 0
                          /\ lb'.content.of = Current(lb')
                          /\ Current(lb') \in lb'.photos => lb'.photo = Current(lb')
                          /\ lb'.content.visible /\ lb'.label = lb'.index
        BY <2>7 DEF Straight, Pending
      <4>1. lb.lostWaits = 0 /\ (Current(lb) \in lb.photos => lb.photo = Current(lb))
        BY <2>2, <2>5, <2>7 DEF LightFine, Settled, Straight
      <4> QED
        BY <2>5, <2>6, <2>7, <2>10, <3>1, <4>1
    <3> QED
      BY <3>2, <3>3
  <2> QED
    BY <2>7, <2>8, <2>11, <2>12 DEF LightInv, LightFine, Settled
<1>9. CASE BoxFaded
  <2>1. /\ lb.closing /\ ((lb.waiting \/ lb.lostWaits > 0) => lb.crossed)
        /\ lb' = [lb EXCEPT !.closing = FALSE, !.content = EmptyBox, !.label = 0]
    BY <1>9 DEF BoxFaded
  <2>2. EmptyBox \in BoxContents /\ ~ EmptyBox.visible
    BY DEF EmptyBox, BoxContents
  <2>3. lb' \in Boxes
    BY <2>1, <2>2 DEF Boxes
  <2>4. /\ ~ lb'.open /\ ~ lb'.closing /\ lb'.moves = lb.moves /\ lb'.sliding = lb.sliding
        /\ lb'.slideDue = lb.slideDue /\ lb'.lostSlides = lb.lostSlides
        /\ lb'.lostWaits = lb.lostWaits /\ lb'.waiting = lb.waiting /\ lb'.loads = lb.loads
        /\ lb'.rel = lb.rel /\ lb'.index = lb.index /\ lb'.content = EmptyBox
        /\ lb'.restarted = lb.restarted /\ lb'.crossed = lb.crossed
    BY <2>1 DEF Boxes, LightFine, Settled, Shut
  <2>5. OnLink(lb') /\ Shut(lb') /\ GoesOn(lb') /\ Pictured(lb') /\ OneTimeout(lb')
    BY <2>1, <2>2, <2>4 DEF LightFine, Settled, OnLink, Shut, GoesOn, Pictured, OneTimeout, Pending
  <2>6. Straight(lb')
    BY <2>1, <2>4 DEF LightFine, Settled, Straight
  <2> QED
    BY <2>3, <2>4, <2>5, <2>6 DEF LightInv, LightFine, Settled
<1>10. CASE WaitIsUp
  <2>1. \/ lb.waiting /\ lb' = [lb EXCEPT !.waiting = FALSE, !.loading = TRUE]
        \/ lb.lostWaits > 0 /\ lb' = [lb EXCEPT !.lostWaits = @ - 1, !.loading = TRUE]
    BY <1>10 DEF WaitIsUp
  <2>2. lb.lostWaits > 0 => lb.lostWaits - 1 \in Nat /\ lb.crossed
    BY DEF Boxes, LightFine, Settled, Straight
  <2>3. /\ lb' \in Boxes
        /\ lb'.open = lb.open /\ lb'.closing = lb.closing /\ lb'.moves = lb.moves
        /\ lb'.loads = lb.loads
        /\ lb'.rel = lb.rel /\ lb'.index = lb.index /\ lb'.content = lb.content
        /\ lb'.crossed = lb.crossed /\ lb'.photos = lb.photos
        /\ lb'.photo = lb.photo /\ lb'.active = lb.active /\ lb'.label = lb.label
        /\ lb'.sliding = lb.sliding /\ lb'.slideDue = lb.slideDue
        /\ lb'.restarted = lb.restarted /\ lb'.lostSlides = lb.lostSlides
        /\ lb.crossed \/ (lb.waiting /\ ~ lb'.waiting /\ lb'.lostWaits = lb.lostWaits)
    <3>1. CASE lb.waiting /\ lb' = [lb EXCEPT !.waiting = FALSE, !.loading = TRUE]
      BY <3>1 DEF Boxes
    <3>2. CASE lb.lostWaits > 0 /\ lb' = [lb EXCEPT !.lostWaits = @ - 1, !.loading = TRUE]
      <4>1. PICK w \in Nat : lb' = [lb EXCEPT !.lostWaits = w, !.loading = TRUE]
        BY <2>2, <3>2
      <4> QED
        BY <2>2, <3>2, <4>1, ZenonT(60) DEF Boxes
    <3> QED
      BY <2>1, <3>1, <3>2
  <2>4. Current(lb') = Current(lb) /\ Pending(lb') = Pending(lb)
    BY <2>3 DEF Current, Pending
  <2>5. OnLink(lb') /\ Shut(lb') /\ GoesOn(lb') /\ Pictured(lb') /\ OneTimeout(lb')
    BY <2>3, <2>4 DEF LightFine, Settled, OnLink, Shut, GoesOn, Pictured, OneTimeout
  <2>6. Straight(lb')
    BY <2>3, <2>4 DEF LightFine, Settled, Straight
  <2> QED
    BY <2>2, <2>3, <2>4, <2>5, <2>6 DEF LightInv, LightFine, Settled
<1>11. CASE SlideIsDue
  <2>1. PICK d : /\ \/ lb.slideDue /\ d = [lb EXCEPT !.slideDue = FALSE, !.steps = @ + 1]
                    \/ lb.lostSlides > 0 /\ d = [lb EXCEPT !.lostSlides = @ - 1, !.steps = @ + 1]
                 /\ lb' = GoOn(d, 1)
    BY <1>11 DEF SlideIsDue
  <2>2. /\ d \in Boxes /\ d.slideDue \in BOOLEAN
        /\ d.open = lb.open /\ d.closing = lb.closing /\ d.moves = lb.moves
        /\ d.lostWaits = lb.lostWaits /\ d.waiting = lb.waiting /\ d.loads = lb.loads
        /\ d.rel = lb.rel /\ d.index = lb.index /\ d.content = lb.content
        /\ d.crossed = lb.crossed /\ d.photos = lb.photos
        /\ d.photo = lb.photo /\ d.active = lb.active /\ d.label = lb.label
        /\ d.loading = lb.loading /\ d.sliding = lb.sliding
        /\ d.restarted = lb.restarted
        /\ \/ lb.slideDue /\ ~ d.slideDue /\ d.lostSlides = lb.lostSlides
           \/ lb.lostSlides > 0 /\ d.slideDue = lb.slideDue
    <3>1. lb.steps + 1 \in Nat /\ (lb.lostSlides > 0 => lb.lostSlides - 1 \in Nat)
      BY DEF Boxes
    <3>2. CASE lb.slideDue /\ d = [lb EXCEPT !.slideDue = FALSE, !.steps = @ + 1]
      <4>1. PICK m \in Nat : d = [lb EXCEPT !.slideDue = FALSE, !.steps = m]
        BY <3>1, <3>2
      <4> QED
        BY <3>2, <4>1, ZenonT(60) DEF Boxes
    <3>3. CASE lb.lostSlides > 0 /\ d = [lb EXCEPT !.lostSlides = @ - 1, !.steps = @ + 1]
      <4>1. PICK m \in Nat, k \in Nat : d = [lb EXCEPT !.lostSlides = k, !.steps = m]
        BY <3>1, <3>3
      <4> QED
        BY <3>3, <4>1 DEF Boxes
    <3> QED
      BY <2>1, <3>2, <3>3
  <2>3. /\ ~ lb.slideDue => ~ d.slideDue
        /\ d.lostSlides = lb.lostSlides \/ lb.lostSlides # 0
        /\ Pending(lb) /\ lb.lostSlides = 0 => (d.slideDue => lb.slideDue)
    BY <2>2
  <2>4. Current(d) = Current(lb) /\ Pending(d) = Pending(lb)
    BY <2>2 DEF Current, Pending
  <2>5. Settled(d)
    <3>1. OnLink(d) /\ Shut(d) /\ Pictured(d) /\ OneTimeout(d)
      BY <2>2, <2>3, <2>4 DEF LightFine, Settled, OnLink, Shut, Pictured, OneTimeout
    <3>2. Straight(d)
      BY <2>2, <2>4 DEF LightFine, Settled, Straight
    <3> QED
      BY <2>2, <2>4, <3>1, <3>2 DEF LightFine, Settled
  <2>6. /\ (lb' = d /\ (d.active \/ Len(d.rel) = 1)) \/ LightFine(lb')
        /\ lb' \in Boxes
    BY <2>1, <2>2, <2>5, GoOnKeeps
  <2>7. d.active \/ Len(d.rel) = 1 => GoesOn(d)
    BY <2>5 DEF Settled, GoesOn
  <2> QED
    BY <2>5, <2>6, <2>7 DEF LightInv, LightFine
<1> QED
  BY <1>1, <1>2, <1>3, <1>4, <1>5, <1>6, <1>7, <1>8, <1>9, <1>10, <1>11 DEF LightNext

(* However clicks, answers, timers, fades and the slide show of the light  *)
(* box interleave: at rest it shows what was asked for last, a slide show  *)
(* goes on, and a stopped one leaves no time-out, but for the exceptions   *)
(* the property names (jquery.colorbox.js).                                *)
THEOREM BoxShowsLastLink == LightSpec => []LightTruthful
<1>1. ASSUME LightInv
      PROVE  LightTruthful
  <2> USE <1>1 DEF LightInv
  <2> DEFINE resting == lb.loads = <<>> /\ lb.moves = 0 /\ ~ lb.closing
  <2>1. resting => ~ Pending(lb)
    BY DEF Pending
  <2>2. resting /\ lb.open /\ ~ lb.crossed =>
          /\ lb.content.of = Current(lb) /\ lb.content.visible /\ lb.label = lb.index
          /\ ~ lb.active /\ ~ lb.waiting /\ ~ lb.loading
    BY <2>1 DEF LightFine, Settled, Straight
  <2>3. resting /\ lb.open /\ lb.content.fine /\ Links \subseteq lb.photos =>
          lb.content.of = Current(lb)
    BY DEF LightFine, Settled, Pictured
  <2>4. lb.content.visible => lb.open \/ lb.closing
    BY DEF LightFine, Settled, Shut
  <2>5. resting /\ lb.open /\ lb.sliding => lb.slideDue \/ Len(lb.rel) = 1
    BY <2>1 DEF LightFine, GoesOn
  <2>6. (~ lb.sliding => ~ lb.slideDue) /\ (lb.restarted \/ lb.crossed \/ lb.lostSlides = 0)
    BY DEF LightFine, Settled, OneTimeout
  <2> QED
    BY <2>2, <2>3, <2>4, <2>5, <2>6 DEF LightTruthful
<1> QED
  BY <1>1, LightInvInit, LightInvStep, PTL DEF LightSpec

-----------------------------------------------------------------------------
(* DataTable, whose steps these are alone.                                 *)
TableSpec == TableInit /\ [][TableNext]_gridVars

(* What of the settings a server's answers are judged by.                  *)
TableFields ==
  {"config", "text", "start", "length", "sorting", "initStart", "draws", "asks", "answered"}

SameTable(t, u) == TableFields \subseteq DOMAIN u /\ u.config = t.config

(* Requests are numbered as they are made, one answer at most is on        *)
(* display, and what was made for the draw under way asks for what the     *)
(* table is set to.                                                        *)
Numbered(t) ==
  /\ t.draws \in Nat
  /\ \A a \in t.asks \cup t.answered : a.echo \in Nat /\ a.echo <= t.draws
  /\ \A a, b \in t.answered : a = b

AsksForThis(t, a) ==
  a.text = t.text /\ a.start = t.start /\ a.length = t.length /\ a.sorting = t.sorting

AskedRight(t) ==
  /\ Numbered(t) /\ t.initStart = -1
  /\ \A a \in t.asks \cup t.answered : a.echo = t.draws => AsksForThis(t, a)

(* What is on display is replaced by answers to later requests only.       *)
Forward == \A a \in grid.answered, b \in grid'.answered : a.echo <= b.echo

TableInv == TableFields \subseteq DOMAIN grid /\ (Remote(grid) => AskedRight(grid))

-----------------------------------------------------------------------------
LEMMA CalculateEndKeeps ==
  ASSUME NEW t, TableFields \subseteq DOMAIN t
  PROVE  /\ SameTable(t, CalculateEnd(t))
         /\ \A f \in TableFields : CalculateEnd(t)[f] = t[f]
  BY DEF SameTable, TableFields, CalculateEnd

LEMMA SaveStateKeeps ==
  ASSUME NEW t, TableFields \subseteq DOMAIN t
  PROVE  /\ SameTable(t, SaveState(t))
         /\ \A f \in TableFields : SaveState(t)[f] = t[f]
  BY DEF SameTable, TableFields, SaveState

LEMMA PaintKeeps ==
  ASSUME NEW t, TableFields \subseteq DOMAIN t
  PROVE  /\ SameTable(t, Paint(t))
         /\ \A f \in TableFields : Paint(t)[f] = t[f]
<1>1. PICK u : /\ Paint(t) = SaveState(u) /\ TableFields \subseteq DOMAIN u
               /\ \A f \in TableFields : u[f] = t[f]
  <2> DEFINE d == [i \in DOMAIN PageOf(t) |-> t.data[PageOf(t)[i]].id]
             b == {r \in t.opened : \E i \in DOMAIN PageOf(t) : t.data[PageOf(t)[i]].id = r}
             u == [t EXCEPT !.drawn = d, !.below = b, !.info = Info(t), !.owed = @ \ {"draw"}]
  <2>1. Paint(t) = SaveState(u)
    BY DEF Paint
  <2> HIDE DEF d, b
  <2>2. TableFields \subseteq DOMAIN u /\ \A f \in TableFields : u[f] = t[f]
    BY DEF TableFields
  <2> QED
    BY <2>1, <2>2
<1> QED
  BY <1>1, SaveStateKeeps DEF SameTable, TableFields

LEMMA InitStartKeeps ==
  ASSUME NEW t, TableFields \subseteq DOMAIN t
  PROVE  /\ SameTable(t, InitStart(t)) /\ InitStart(t).initStart = -1
         /\ \A f \in TableFields \ {"start", "initStart"} : InitStart(t)[f] = t[f]
<1>1. CASE t.initStart = -1
  BY <1>1 DEF InitStart, SameTable, TableFields
<1>2. CASE t.initStart # -1
  <2> DEFINE n == IF ~Remote(t) /\ t.initStart >= RecordsDisplay(t) THEN 0 ELSE t.initStart
             u == [t EXCEPT !.start = n, !.initStart = -1]
  <2>1. InitStart(t) = CalculateEnd(u)
    BY <1>2 DEF InitStart
  <2> HIDE DEF n
  <2>2. /\ TableFields \subseteq DOMAIN u /\ u.initStart = -1
        /\ \A f \in TableFields \ {"start", "initStart"} : u[f] = t[f]
    BY DEF TableFields
  <2> HIDE DEF u
  <2> QED
    BY <2>1, <2>2, CalculateEndKeeps DEF SameTable, TableFields
<1> QED
  BY <1>1, <1>2

(* A draw of a table without a server is one of the same table.            *)
LEMMA DrawTableKeeps ==
  ASSUME NEW t, TableFields \subseteq DOMAIN t
  PROVE  SameTable(t, DrawTable(t)) /\ DrawTable(t).answered = t.answered
<1> DEFINE u == InitStart(t)
<1>1. SameTable(t, u) /\ u.answered = t.answered
  BY InitStartKeeps DEF TableFields
<1> HIDE DEF u
<1>2. /\ SameTable(u, AjaxUpdate(u)) /\ SameTable(u, Paint(u))
      /\ AjaxUpdate(u).answered = u.answered /\ Paint(u).answered = u.answered
  BY <1>1, PaintKeeps DEF AjaxUpdate, SameTable, TableFields
<1>3. DrawTable(t) \in {AjaxUpdate(u), u, Paint(u)}
  BY DEF DrawTable, u
<1> QED
  BY <1>1, <1>2, <1>3 DEF SameTable

(* With a server, it asks for what the table is set to by then.            *)
LEMMA DrawTableAsks ==
  ASSUME NEW t, TableFields \subseteq DOMAIN t, Remote(t), Numbered(t)
  PROVE  AskedRight(DrawTable(t))
<1> DEFINE u == InitStart(t)
           d == AjaxUpdate(u)
<1>1. /\ SameTable(t, u) /\ u.initStart = -1 /\ u.draws = t.draws
      /\ u.asks = t.asks /\ u.answered = t.answered
  BY InitStartKeeps DEF TableFields
<1>2. DrawTable(t) = d
  BY <1>1 DEF DrawTable, Remote, SameTable
<1> HIDE DEF u
<1>3. /\ d.draws = t.draws + 1 /\ d.asks = t.asks \cup {Request(u)} /\ d.initStart = -1
      /\ d.answered = t.answered /\ d.text = u.text /\ d.start = u.start
      /\ d.length = u.length /\ d.sorting = u.sorting
  BY <1>1 DEF AjaxUpdate, SameTable, TableFields
<1>4. /\ Request(u).echo = t.draws + 1 /\ Request(u).text = u.text
      /\ Request(u).start = u.start /\ Request(u).length = u.length
      /\ Request(u).sorting = u.sorting
  BY <1>1 DEF Request
<1> HIDE DEF d
<1>5. Numbered(d)
  BY <1>3, <1>4 DEF Numbered
<1>6. ASSUME NEW a \in d.asks \cup d.answered, a.echo = d.draws
      PROVE  AsksForThis(d, a)
  <2>1. a = Request(u)
    BY <1>3, <1>6 DEF Numbered
  <2> QED
    BY <1>3, <1>4, <2>1 DEF AsksForThis
<1> QED
  BY <1>2, <1>3, <1>5, <1>6 DEF AskedRight

LEMMA BuildSearchKeeps ==
  ASSUME NEW t, NEW indices, TableFields \subseteq DOMAIN t
  PROVE  /\ SameTable(t, BuildSearch(t, indices))
         /\ \A f \in TableFields : BuildSearch(t, indices)[f] = t[f]
<1> DEFINE x == [i \in DOMAIN indices |-> t.data[indices[i]].c]
           u == [t EXCEPT !.search = x]
<1>1. BuildSearch(t, indices) = IF Remote(t) THEN t ELSE u
  BY DEF BuildSearch
<1> HIDE DEF x
<1>2. SameTable(t, u) /\ \A f \in TableFields : u[f] = t[f]
  BY DEF SameTable, TableFields
<1> HIDE DEF u
<1> QED
  BY <1>1, <1>2 DEF SameTable

LEMMA FilterKeeps ==
  ASSUME NEW t, NEW words, NEW regex, NEW force, TableFields \subseteq DOMAIN t
  PROVE  /\ SameTable(t, Filter(t, words, regex, force))
         /\ \A f \in TableFields : Filter(t, words, regex, force)[f] = t[f]
<1> DEFINE Alike(u) == SameTable(t, u) /\ \A f \in TableFields : u[f] = t[f]
<1>1. Alike([t EXCEPT !.display = t.master, !.owed = @ \ {"filter"}])
  BY DEF SameTable, TableFields
<1>2. Alike(FilterAnew(t, words, regex))
  <2> DEFINE b == BuildSearch(t, t.master)
             Found(r) == Fits(words, regex, t.data[r].c)
             x == SelectSeq(t.master, Found)
  <2>1. FilterAnew(t, words, regex) = [b EXCEPT !.display = x, !.owed = @ \ {"filter", "shift"}]
    BY DEF FilterAnew
  <2>2. Alike(b)
    BY BuildSearchKeeps
  <2> HIDE DEF b, x
  <2> DEFINE o == b.owed \ {"filter", "shift"}
             u == [b EXCEPT !.display = x, !.owed = o]
  <2>3. SameTable(b, u) /\ \A f \in TableFields : u[f] = b[f]
    <3>1. u = [b EXCEPT !.display = x, !.owed = o] /\ TableFields \subseteq DOMAIN b
      BY <2>2 DEF SameTable
    <3> HIDE DEF u, o
    <3> QED
      BY <3>1 DEF SameTable, TableFields
  <2> QED
    BY <2>1, <2>2, <2>3 DEF SameTable
<1>3. Alike(FilterFurther(t, words, regex))
  <2> DEFINE Stays(i) == i > Len(t.search) \/ Fits(words, regex, t.search[i])
             kept == SelectSeq([i \in DOMAIN t.display |-> i], Stays)
             x == [j \in DOMAIN kept |-> t.display[kept[j]]]
             y == IF regex \/ "shift" \in t.owed THEN t.owed \cup {"filter"} ELSE t.owed
  <2>1. FilterFurther(t, words, regex) = [t EXCEPT !.display = x, !.owed = y]
    BY DEF FilterFurther
  <2> HIDE DEF x, y
  <2> DEFINE u == FilterFurther(t, words, regex)
  <2>2. u = [t EXCEPT !.display = x, !.owed = y]
    BY <2>1
  <2> HIDE DEF u
  <2>3. SameTable(t, u) /\ \A f \in TableFields : u[f] = t[f]
    BY <2>2 DEF SameTable, TableFields
  <2> QED
    BY <2>3 DEF u
<1> HIDE DEF Alike
<1>4. Filter(t, words, regex, force) \in
        {[t EXCEPT !.display = t.master, !.owed = @ \ {"filter"}],
         FilterAnew(t, words, regex), FilterFurther(t, words, regex)}
  BY DEF Filter
<1>5. Alike(Filter(t, words, regex, force))
  BY <1>1, <1>2, <1>3, <1>4
<1> QED
  BY <1>5 DEF Alike

LEMMA FilterColumnsKeeps ==
  ASSUME NEW t, TableFields \subseteq DOMAIN t
  PROVE  /\ SameTable(t, FilterColumns(t))
         /\ \A f \in TableFields : FilterColumns(t)[f] = t[f]
<1> DEFINE Found(r) == FitsColumns(t, t.data[r].c)
           x == SelectSeq(t.display, Found)
<1>1. FilterColumns(t) = [t EXCEPT !.display = x]
  BY DEF FilterColumns
<1> HIDE DEF x
<1> QED
  BY <1>1 DEF SameTable, TableFields

(* What a step that draws does to a table.                                 *)
Redrawn(t, u) ==
  /\ SameTable(t, u) /\ u.answered = t.answered
  /\ Remote(t) /\ Numbered(t) => AskedRight(u)

(* What is prepared before a draw touches no request.                      *)
Prepared(t, u) ==
  SameTable(t, u) /\ u.draws = t.draws /\ u.asks = t.asks /\ u.answered = t.answered

LEMMA PreparedThenDrawn ==
  ASSUME NEW t, NEW u, Prepared(t, u)
  PROVE  /\ Redrawn(t, DrawTable(u))
         /\ Redrawn(t, DrawTable(CalculateEnd(u)))
<1>1. TableFields \subseteq DOMAIN u
  BY DEF Prepared, SameTable
<1>2. Prepared(t, CalculateEnd(u))
  BY <1>1, CalculateEndKeeps DEF Prepared, SameTable, TableFields
<1>3. ASSUME NEW v, Prepared(t, v)
      PROVE  Redrawn(t, DrawTable(v))
  <2>1. TableFields \subseteq DOMAIN v
    BY <1>3 DEF Prepared, SameTable
  <2>2. SameTable(t, DrawTable(v)) /\ DrawTable(v).answered = t.answered
    BY <1>3, <2>1, DrawTableKeeps DEF Prepared, SameTable
  <2>3. ASSUME Remote(t), Numbered(t)
        PROVE  AskedRight(DrawTable(v))
    BY <1>3, <2>1, <2>3, DrawTableAsks DEF Prepared, SameTable, Remote, Numbered
  <2> QED
    BY <2>2, <2>3 DEF Redrawn
<1> QED
  BY <1>2, <1>3

LEMMA FilterCompleteDraws ==
  ASSUME NEW t, NEW words, NEW regex, NEW force, TableFields \subseteq DOMAIN t
  PROVE  Redrawn(t, FilterComplete(t, words, regex, force))
<1> DEFINE Named(u) == [u EXCEPT !.text = words, !.regex = regex]
           f == Filter(t, words, regex, force)
           n == Named(f)
           found == IF Remote(t) THEN Named(t) ELSE FilterColumns(n)
           p == [found EXCEPT !.start = 0, !.owed = @ \ {"start"}]
           d == DrawTable(CalculateEnd(p))
<1>1. FilterComplete(t, words, regex, force) = BuildSearch(d, d.display)
  BY DEF FilterComplete
<1>2. Prepared(t, found)
  <2>1. Prepared(t, Named(t))
    BY DEF Prepared, SameTable, TableFields
  <2>2. Prepared(t, f)
    BY FilterKeeps DEF Prepared, TableFields
  <2> HIDE DEF f
  <2>3. Prepared(t, n)
    BY <2>2 DEF Prepared, SameTable, TableFields
  <2> HIDE DEF n
  <2>4. Prepared(t, FilterColumns(n))
    BY <2>3, FilterColumnsKeeps DEF Prepared, SameTable, TableFields
  <2> QED
    BY <2>1, <2>4
<1> HIDE DEF found
<1>3. Prepared(t, p)
  BY <1>2 DEF Prepared, SameTable, TableFields
<1> HIDE DEF p
<1>4. Redrawn(t, d)
  BY <1>3, PreparedThenDrawn
<1> HIDE DEF d
<1>5. TableFields \subseteq DOMAIN d
  BY <1>4 DEF Redrawn, SameTable
<1> DEFINE b == BuildSearch(d, d.display)
<1>6. /\ SameTable(d, b) /\ b.draws = d.draws /\ b.asks = d.asks /\ b.answered = d.answered
      /\ b.text = d.text /\ b.start = d.start /\ b.length = d.length
      /\ b.sorting = d.sorting /\ b.initStart = d.initStart
  BY <1>5, BuildSearchKeeps DEF TableFields
<1> HIDE DEF b
<1>7. Redrawn(t, b)
  <2>1. SameTable(t, b) /\ b.answered = t.answered
    BY <1>4, <1>6 DEF Redrawn, SameTable
  <2>2. AskedRight(d) => AskedRight(b)
    BY <1>6 DEF AskedRight, Numbered, AsksForThis
  <2> QED
    BY <1>4, <2>1, <2>2 DEF Redrawn
<1> QED
  BY <1>1, <1>7 DEF b

LEMMA SortDraws ==
  ASSUME NEW t, NEW u, Prepared(t, u)
  PROVE  Redrawn(t, Sort(u)) /\ Redrawn(t, ReDraw(u))
<1> DEFINE m == Sorted(u, u.master)
           s == IF Remote(u) THEN u ELSE [u EXCEPT !.master = m, !.owed = @ \ {"sort"}]
           o == SortingClasses(s)
           p == [o EXCEPT !.display = o.master, !.start = 0, !.owed = @ \ {"start"}]
<1>1. Sort(u) = IF Filters(u) THEN FilterComplete(o, u.text, u.regex, TRUE)
                ELSE DrawTable(CalculateEnd(p))
  BY DEF Sort, Filters, SortingClasses
<1> HIDE DEF m
<1>2. Prepared(t, s)
  BY DEF Prepared, SameTable, TableFields
<1> HIDE DEF s
<1>3. Prepared(t, o)
  BY <1>2 DEF Prepared, SameTable, TableFields, SortingClasses
<1> HIDE DEF o
<1>4. Prepared(t, p)
  BY <1>3 DEF Prepared, SameTable, TableFields
<1> HIDE DEF p
<1>5. Redrawn(t, FilterComplete(o, u.text, u.regex, TRUE))
  <2>1. Redrawn(o, FilterComplete(o, u.text, u.regex, TRUE))
    BY <1>3, FilterCompleteDraws DEF Prepared, SameTable
  <2> QED
    BY <1>3, <2>1 DEF Redrawn, Prepared, SameTable, Remote, Numbered
<1> QED
  BY <1>1, <1>4, <1>5, PreparedThenDrawn DEF ReDraw

LEMMA PagesPrepare ==
  ASSUME NEW t, TableFields \subseteq DOMAIN t
  PROVE  /\ \A action : Prepared(t, PageChange(t, action))
         /\ \A n : Prepared(t, PageNumber(t, n))
<1>1. ASSUME NEW action
      PROVE  Prepared(t, PageChange(t, action))
  <2>1. PICK x : PageChange(t, action) = [t EXCEPT !.start = x]
    BY Zenon DEF PageChange
  <2> QED
    BY <2>1 DEF Prepared, SameTable, TableFields
<1>2. ASSUME NEW n
      PROVE  Prepared(t, PageNumber(t, n))
  <2>1. PICK x, y : PageNumber(t, n) = [t EXCEPT !.start = x, !.owed = y]
    BY Zenon DEF PageNumber
  <2> QED
    BY <2>1 DEF Prepared, SameTable, TableFields
<1> QED
  BY <1>1, <1>2

LEMMA LengthChangeDraws ==
  ASSUME NEW t, NEW l, TableFields \subseteq DOMAIN t
  PROVE  Redrawn(t, LengthChange(t, l))
<1> DEFINE v == [t EXCEPT !.length = l]
           u == CalculateEnd(v)
<1>1. Prepared(t, v)
  BY DEF Prepared, SameTable, TableFields
<1> HIDE DEF v
<1>2. Prepared(t, u)
  BY <1>1, CalculateEndKeeps DEF Prepared, SameTable, TableFields
<1>3. PICK x : LengthChange(t, l) = DrawTable([u EXCEPT !.start = x])
  BY Zenon DEF LengthChange, u, v
<1> HIDE DEF u
<1>4. Prepared(t, [u EXCEPT !.start = x])
  BY <1>2 DEF Prepared, SameTable, TableFields
<1> QED
  BY <1>3, <1>4, PreparedThenDrawn

-----------------------------------------------------------------------------
(* The calls of a script leave the configuration alone.                    *)
LEMMA OwingKeeps ==
  ASSUME NEW t, NEW u, NEW redraw, NEW what, Prepared(t, u)
  PROVE  Prepared(t, Owing(u, redraw, what))
  BY DEF Owing, Prepared, SameTable, TableFields

LEMMA RowsKeepTable ==
  ASSUME NEW t, TableFields \subseteq DOMAIN t, NEW redraw
  PROVE  /\ \A c : SameTable(t, FnAddData(t, c, redraw))
         /\ \A i : SameTable(t, FnDeleteRow(t, i, redraw))
         /\ \A i, c : SameTable(t, FnUpdate(t, i, c, redraw))
         /\ SameTable(t, FnClearTable(t, redraw))
<1>1. ASSUME NEW c
      PROVE  SameTable(t, FnAddData(t, c, redraw))
  <2> DEFINE u == AddRow(t, c)
             w == [u EXCEPT !.display = u.master]
             v == Owing(w, redraw, {"draw", "end", "filter", "sort"})
  <2>1. FnAddData(t, c, redraw) = IF redraw THEN ReDraw(v) ELSE v
    BY DEF FnAddData
  <2>2. Prepared(t, u)
    <3> DEFINE x == Append(t.data, [id |-> FreshId(t), c |-> c])
               y == Append(t.master, Len(t.data) + 1)
    <3>1. u = [t EXCEPT !.data = x, !.master = y]
      BY DEF AddRow
    <3> HIDE DEF u, x, y
    <3> QED
      BY <3>1 DEF Prepared, SameTable, TableFields
  <2> HIDE DEF u
  <2>3. Prepared(t, w)
    BY <2>2 DEF Prepared, SameTable, TableFields
  <2> HIDE DEF w
  <2>4. Prepared(t, v)
    BY <2>3, OwingKeeps
  <2> HIDE DEF v
  <2> QED
    BY <2>1, <2>4, SortDraws DEF Prepared, Redrawn
<1>2. ASSUME NEW i
      PROVE  SameTable(t, FnDeleteRow(t, i, redraw))
  <2> DEFINE display == DeleteIndex(t.display, i)
             start == IF t.start < Len(display) THEN t.start
                      ELSE IF t.start < t.length THEN 0 ELSE t.start - t.length
             data == RemoveAt(t.data, i)
             search == SearchWithout(t, i)
             master == DeleteIndex(t.master, i)
             owed == IF i \in Range(t.display) THEN t.owed ELSE t.owed \cup {"shift"}
             u == [t EXCEPT !.data = data, !.search = search, !.master = master,
                            !.display = display, !.start = start, !.owed = owed]
  <2>1. FnDeleteRow(t, i, redraw) =
          IF redraw THEN DrawTable(CalculateEnd(u)) ELSE Owing(u, redraw, {"draw", "end"})
    BY DEF FnDeleteRow
  <2> HIDE DEF display, start, data, search, master, owed
  <2>2. Prepared(t, u)
    BY DEF Prepared, SameTable, TableFields
  <2> HIDE DEF u
  <2>3. Redrawn(t, DrawTable(CalculateEnd(u)))
    BY <2>2, PreparedThenDrawn
  <2>4. Prepared(t, Owing(u, redraw, {"draw", "end"}))
    BY <2>2, OwingKeeps
  <2> QED
    BY <2>1, <2>3, <2>4 DEF Redrawn, Prepared
<1>3. ASSUME NEW i, NEW c
      PROVE  SameTable(t, FnUpdate(t, i, c, redraw))
  <2> DEFINE search == SearchWith(t, i, c)
             w == [t EXCEPT !.data[i].c = c, !.search = search]
             u == Owing(w, redraw, {"draw", "filter", "sort"})
  <2>1. FnUpdate(t, i, c, redraw) = IF redraw THEN ReDraw(u) ELSE u
    BY DEF FnUpdate
  <2> HIDE DEF search
  <2>2. Prepared(t, w)
    BY DEF Prepared, SameTable, TableFields
  <2> HIDE DEF w
  <2>3. Prepared(t, u)
    BY <2>2, OwingKeeps
  <2> HIDE DEF u
  <2> QED
    BY <2>1, <2>3, SortDraws DEF Prepared, Redrawn
<1>4. SameTable(t, FnClearTable(t, redraw))
  <2> DEFINE x == t.owed \cup {"draw"} \cup (IF t.start = 0 THEN {} ELSE {"start"})
             w == [t EXCEPT !.data = <<>>, !.master = <<>>, !.display = <<>>, !.owed = x]
             u == CalculateEnd(w)
  <2>1. FnClearTable(t, redraw) = IF redraw THEN DrawTable(u) ELSE u
    BY DEF FnClearTable, ClearTable
  <2> HIDE DEF x
  <2>2. Prepared(t, w)
    BY DEF Prepared, SameTable, TableFields
  <2> HIDE DEF w
  <2>3. Prepared(t, u)
    BY <2>2, CalculateEndKeeps DEF Prepared, SameTable, TableFields
  <2> HIDE DEF u
  <2> QED
    BY <2>1, <2>3, PreparedThenDrawn DEF Prepared, Redrawn
<1> QED
  BY <1>1, <1>2, <1>3, <1>4

LEMMA CallsKeepTable ==
  ASSUME NEW t, TableFields \subseteq DOMAIN t
  PROVE  /\ \A words, regex : SameTable(t, FnFilter(t, words, regex))
         /\ \A k, wanted : SameTable(t, FnFilterColumn(t, k, wanted))
         /\ \A k, dir : SameTable(t, FnSort(t, k, dir))
         /\ \A n, redraw : SameTable(t, FnPageChange(t, n, redraw))
         /\ \A k : SameTable(t, FnSetColumnVis(t, k))
         /\ \A complete : SameTable(t, FnDraw(t, complete))
         /\ \A r : SameTable(t, FnOpen(t, r)) /\ SameTable(t, FnClose(t, r))
<1>1. \A words, regex : SameTable(t, FnFilter(t, words, regex))
  BY FilterCompleteDraws DEF FnFilter, Redrawn
<1>2. ASSUME NEW k, NEW wanted
      PROVE  SameTable(t, FnFilterColumn(t, k, wanted))
  <2> DEFINE x == IF wanted THEN t.colText \cup {k} ELSE t.colText \ {k}
             u == [t EXCEPT !.colText = x]
  <2>1. FnFilterColumn(t, k, wanted) = FilterComplete(u, t.text, t.regex, TRUE)
    BY DEF FnFilterColumn
  <2> HIDE DEF x
  <2>2. SameTable(t, u)
    BY DEF SameTable, TableFields
  <2> HIDE DEF u
  <2>3. Redrawn(u, FilterComplete(u, t.text, t.regex, TRUE))
    BY <2>2, FilterCompleteDraws DEF SameTable
  <2> QED
    BY <2>1, <2>2, <2>3 DEF Redrawn, SameTable
<1>3. ASSUME NEW k, NEW dir
      PROVE  SameTable(t, FnSort(t, k, dir))
  <2>1. Prepared(t, [t EXCEPT !.sorting = <<<<k, dir, TRUE>>>>])
    BY DEF Prepared, SameTable, TableFields
  <2> QED
    BY <2>1, SortDraws DEF FnSort, Redrawn
<1>4. ASSUME NEW n, NEW redraw
      PROVE  SameTable(t, FnPageChange(t, n, redraw))
  <2> DEFINE p == PageNumber(t, n)
             e == CalculateEnd(p)
             u == Owing(e, redraw, {"draw"})
  <2>1. FnPageChange(t, n, redraw) = IF redraw THEN DrawTable(u) ELSE u
    BY DEF FnPageChange
  <2>2. Prepared(t, p)
    BY PagesPrepare
  <2> HIDE DEF p
  <2>3. Prepared(t, e)
    BY <2>2, CalculateEndKeeps DEF Prepared, SameTable, TableFields
  <2> HIDE DEF e
  <2>4. Prepared(t, u)
    BY <2>3, OwingKeeps
  <2> HIDE DEF u
  <2> QED
    BY <2>1, <2>4, PreparedThenDrawn DEF Prepared, Redrawn
<1>5. ASSUME NEW k
      PROVE  SameTable(t, FnSetColumnVis(t, k))
  <2> DEFINE x == IF k \in t.hidden THEN t.hidden \ {k} ELSE t.hidden \cup {k}
             w == [t EXCEPT !.hidden = x]
             u == DrawTable(w)
  <2>1. FnSetColumnVis(t, k) \in {u, SaveState(u)}
    BY DEF FnSetColumnVis
  <2> HIDE DEF x
  <2>2. SameTable(t, w)
    BY DEF SameTable, TableFields
  <2> HIDE DEF w
  <2>3. SameTable(t, u)
    BY <2>2, DrawTableKeeps DEF SameTable
  <2> HIDE DEF u
  <2> QED
    BY <2>1, <2>3, SaveStateKeeps DEF SameTable
<1>6. ASSUME NEW complete
      PROVE  SameTable(t, FnDraw(t, complete))
  <2>1. Prepared(t, t)
    BY DEF Prepared, SameTable
  <2> QED
    BY <2>1, SortDraws, PreparedThenDrawn DEF FnDraw, Redrawn
<1>7. \A r : SameTable(t, FnOpen(t, r)) /\ SameTable(t, FnClose(t, r))
  BY DEF FnOpen, FnClose, SameTable, TableFields
<1> QED
  BY <1>1, <1>2, <1>3, <1>4, <1>5, <1>6, <1>7

-----------------------------------------------------------------------------
LEMMA TableStepKeeps ==
  ASSUME NEW u, TableStep(u), TableFields \subseteq DOMAIN u, Remote(u) => AskedRight(u)
  PROVE  TableInv' /\ grid'.answered = u.answered
<1>1. grid' = [u EXCEPT !.steps = grid.steps + 1]
  BY DEF TableStep
<1>2. /\ TableFields \subseteq DOMAIN grid' /\ grid'.config = u.config
      /\ grid'.text = u.text /\ grid'.start = u.start /\ grid'.length = u.length
      /\ grid'.sorting = u.sorting /\ grid'.initStart = u.initStart
      /\ grid'.draws = u.draws /\ grid'.asks = u.asks /\ grid'.answered = u.answered
  BY <1>1 DEF TableFields
<1>3. AskedRight(u) => AskedRight(grid')
  BY <1>2 DEF AskedRight, Numbered, AsksForThis
<1> QED
  BY <1>2, <1>3 DEF TableInv, Remote

LEMMA SameAnswersForward ==
  ASSUME TableInv, grid'.answered = grid.answered
  PROVE  Remote(grid) => Forward
  BY DEF TableInv, AskedRight, Numbered, Forward

(* A step that draws, and one of a script, whose tables have no server.    *)
LEMMA DrawingStepKeeps ==
  ASSUME TableInv, NEW u, TableStep(u), Redrawn(grid, u)
  PROVE  TableInv' /\ (Remote(grid) => Forward)
<1>1. TableFields \subseteq DOMAIN u /\ (Remote(u) => Remote(grid))
  BY DEF Redrawn, SameTable, Remote
<1>2. Remote(u) => AskedRight(u)
  BY <1>1 DEF TableInv, AskedRight, Redrawn
<1>3. TableInv' /\ grid'.answered = grid.answered
  BY <1>1, <1>2, TableStepKeeps DEF Redrawn
<1> QED
  BY <1>3, SameAnswersForward

LEMMA ScriptedStepKeeps ==
  ASSUME Scripted, NEW u, TableStep(u), SameTable(grid, u)
  PROVE  TableInv' /\ ~ Remote(grid)
  BY TableStepKeeps DEF Scripted, SameTable, Remote

LEMMA ScriptsKeep ==
  ASSUME TableInv, (\E redraw \in BOOLEAN : ChangesRows(redraw)) \/ AsksFor \/ Details
  PROVE  TableInv' /\ ~ Remote(grid)
<1>1. TableFields \subseteq DOMAIN grid
  BY DEF TableInv
<1>2. PICK u : Scripted /\ TableStep(u) /\ SameTable(grid, u)
  <2>1. ASSUME NEW redraw \in BOOLEAN, ChangesRows(redraw)
        PROVE  \E u : Scripted /\ TableStep(u) /\ SameTable(grid, u)
    BY <1>1, <2>1, RowsKeepTable DEF ChangesRows
  <2>2. ASSUME AsksFor
        PROVE  \E u : Scripted /\ TableStep(u) /\ SameTable(grid, u)
    BY <1>1, <2>2, CallsKeepTable DEF AsksFor
  <2>3. ASSUME Details
        PROVE  \E u : Scripted /\ TableStep(u) /\ SameTable(grid, u)
    BY <1>1, <2>3, CallsKeepTable DEF Details
  <2> QED
    BY <2>1, <2>2, <2>3
<1> QED
  BY <1>2, ScriptedStepKeeps

LEMMA UsersKeep ==
  ASSUME TableInv,
         \/ \E words \in SearchTexts : Types(words)
         \/ \E k \in Columns, shift \in BOOLEAN : ClicksHeader(k, shift)
         \/ \E action \in {"first", "previous", "next", "last"} : ClicksButton(action)
         \/ \E n \in 0 .. 3 : ClicksNumber(n)
         \/ \E l \in Lengths : ChoosesLength(l)
  PROVE  TableInv' /\ (Remote(grid) => Forward)
<1>1. TableFields \subseteq DOMAIN grid
  BY DEF TableInv
<1>2. \A x : Prepared(grid, [grid EXCEPT !.sorting = x])
  BY <1>1 DEF Prepared, SameTable, TableFields
<1>3. PICK u : TableStep(u) /\ Redrawn(grid, u)
  <2>1. ASSUME NEW words, Types(words)
        PROVE  \E u : TableStep(u) /\ Redrawn(grid, u)
    BY <1>1, <2>1, FilterCompleteDraws DEF Types
  <2>2. ASSUME NEW k, NEW shift, ClicksHeader(k, shift)
        PROVE  \E u : TableStep(u) /\ Redrawn(grid, u)
    <3> DEFINE x == NextSorting(grid.sorting, k, shift)
    <3>1. TableStep(Sort([grid EXCEPT !.sorting = x]))
      BY <2>2 DEF ClicksHeader
    <3> HIDE DEF x
    <3> QED
      BY <1>2, <3>1, SortDraws
  <2>3. ASSUME NEW action, ClicksButton(action)
        PROVE  \E u : TableStep(u) /\ Redrawn(grid, u)
    BY <1>1, <2>3, PagesPrepare, PreparedThenDrawn DEF ClicksButton
  <2>4. ASSUME NEW n, ClicksNumber(n)
        PROVE  \E u : TableStep(u) /\ Redrawn(grid, u)
    BY <1>1, <2>4, PagesPrepare, PreparedThenDrawn DEF ClicksNumber
  <2>5. ASSUME NEW l, ChoosesLength(l)
        PROVE  \E u : TableStep(u) /\ Redrawn(grid, u)
    BY <1>1, <2>5, LengthChangeDraws DEF ChoosesLength
  <2> QED
    BY <2>1, <2>2, <2>3, <2>4, <2>5
<1> QED
  BY <1>3, DrawingStepKeeps

LEMMA FreshTable ==
  ASSUME NEW config, NEW rows
  PROVE  /\ TableFields \subseteq DOMAIN Fresh(config, rows)
         /\ Fresh(config, rows).config = config
         /\ Numbered(Fresh(config, rows)) /\ Fresh(config, rows).answered = {}
<1> DEFINE own == IF config = "server" THEN <<>> ELSE rows
           indices == [i \in DOMAIN own |-> i]
           least == CHOOSE l \in Lengths : \A m \in Lengths : l <= m
           gathered == GatherData(own)
           theirs == IF config = "server" THEN rows ELSE <<>>
           t == Fresh(config, rows)
<1>1. t = [config |-> config, steps |-> 0,
           data |-> gathered,
           master |-> indices, display |-> indices, search |-> <<>>,
           text |-> <<>>, regex |-> FALSE, colText |-> {},
           sorting |-> <<<<1, "asc", FALSE>>>>, header |-> <<>>,
           start |-> 0, end |-> 0, length |-> least,
           initStart |-> 0, hidden |-> {}, opened |-> {},
           drawn |-> <<>>, below |-> {}, cookie |-> {},
           info |-> [start |-> 0, end |-> 0, of |-> 0, all |-> 0, length |-> 1],
           owed |-> {}, theirs |-> theirs,
           draws |-> 0, asks |-> {}, answered |-> {}, total |-> 0, found |-> 0]
  BY Zenon DEF Fresh
<1> HIDE DEF own, indices, least, gathered, theirs, t
<1>2. t.config = config /\ t.draws = 0 /\ t.asks = {} /\ t.answered = {}
  BY <1>1
<1>3. TableFields \subseteq DOMAIN t
  BY <1>1 DEF TableFields
<1> QED
  BY <1>2, <1>3 DEF t, Numbered

LEMMA ReloadsKeep ==
  ASSUME TableInv, Reloads
  PROVE  TableInv' /\ Forward
<1>1. PICK s, n : TableStep(Initialise(LoadState(Fresh("saved", SubSeq(FirstRows, 1, n)), s)))
  BY DEF Reloads
<1> DEFINE t == Fresh("saved", SubSeq(FirstRows, 1, n))
           u == LoadState(t, s)
<1>2. TableFields \subseteq DOMAIN t /\ t.config = "saved" /\ t.answered = {}
  BY FreshTable
<1> HIDE DEF t
<1>3. Prepared(t, u)
  <2> DEFINE x == [i \in DOMAIN s.sorting |->
                     <<s.sorting[i][1], s.sorting[i][2], s.sorting[i][2] = "desc">>]
  <2>1. u = [t EXCEPT !.start = s.start, !.initStart = s.start, !.length = s.length,
                      !.sorting = x, !.text = s.text, !.regex = s.regex,
                      !.colText = s.colText, !.hidden = s.hidden, !.cookie = {s}]
    BY DEF LoadState
  <2> HIDE DEF u, x
  <2> QED
    BY <1>2, <2>1 DEF Prepared, SameTable, TableFields
<1> HIDE DEF u
<1>4. SameTable(t, Sort(u)) /\ Sort(u).answered = {}
  BY <1>2, <1>3, SortDraws DEF Redrawn
<1>5. TableStep(Sort(u))
  BY <1>1 DEF Initialise, t, u
<1> QED
  BY <1>2, <1>4, <1>5, TableStepKeeps DEF SameTable, Remote, Forward

(* An answer that is let in is the one to the last request.                *)
LEMMA AnswersKeep ==
  ASSUME TableInv, NEW a \in grid.asks,
         \/ grid' = [AjaxUpdateDraw(grid, a) EXCEPT !.asks = @ \ {a}]
         \/ grid' = [grid EXCEPT !.asks = @ \ {a}]
  PROVE  TableInv' /\ (Remote(grid) => Forward)
<1> DEFINE t == grid
           Answered(u) ==
             /\ SameTable(t, u) /\ u.text = t.text /\ u.start = t.start /\ u.length = t.length
             /\ u.sorting = t.sorting /\ u.initStart = t.initStart /\ u.asks = t.asks
             /\ \/ u.draws = t.draws /\ u.answered = t.answered
                \/ u.draws = a.echo /\ u.answered = {a} /\ a.echo >= t.draws
<1>1. TableFields \subseteq DOMAIN t
  BY DEF TableInv
<1>2. Answered(t)
  BY <1>1 DEF SameTable
<1>3. Answered(AjaxUpdateDraw(t, a))
  <2> DEFINE rows == TheirPage(a).rows
             indices == [i \in DOMAIN rows |-> i]
             gathered == GatherData(rows)
             all == Len(t.theirs)
             found == TheirPage(a).all
             v == [t EXCEPT !.draws = a.echo, !.answered = {a}, !.data = gathered,
                            !.master = indices, !.display = indices,
                            !.total = all, !.found = found]
             c == CalculateEnd(v)
             p == Paint(c)
  <2>1. AjaxUpdateDraw(t, a) = IF ~ Accepts(t, a) THEN t ELSE p
    BY Zenon DEF AjaxUpdateDraw
  <2> HIDE DEF rows, indices, gathered, all, found
  <2>2. CASE ~ Accepts(t, a)
    BY <1>2, <2>1, <2>2
  <2>3. CASE Accepts(t, a)
    <3>1. Answered(v)
      BY <1>1, <2>3 DEF Accepts, SameTable, TableFields
    <3> HIDE DEF v
    <3>2. Answered(c)
      BY <3>1, CalculateEndKeeps DEF SameTable, TableFields
    <3> HIDE DEF c
    <3>3. Answered(p)
      BY <3>2, PaintKeeps DEF SameTable, TableFields
    <3> HIDE DEF p
    <3> QED
      BY <2>1, <2>3, <3>3
  <2> QED
    BY <2>2, <2>3
<1>4. PICK u : Answered(u) /\ grid' = [u EXCEPT !.asks = @ \ {a}]
  BY <1>2, <1>3
<1>5. /\ TableFields \subseteq DOMAIN grid' /\ grid'.config = t.config /\ grid'.text = t.text
      /\ grid'.start = t.start /\ grid'.length = t.length /\ grid'.sorting = t.sorting
      /\ grid'.initStart = t.initStart /\ grid'.draws = u.draws
      /\ grid'.asks = t.asks \ {a} /\ grid'.answered = u.answered
  BY <1>4 DEF SameTable, TableFields
<1>6. ASSUME AskedRight(t)
      PROVE  AskedRight(grid')
  <2>1. a.echo \in Nat /\ a.echo <= t.draws /\ t.draws \in Nat
    BY <1>6 DEF AskedRight, Numbered
  <2>2. u.draws = t.draws /\ u.answered \in {t.answered, {a}}
    BY <1>4, <2>1
  <2> QED
    BY <1>5, <1>6, <2>2 DEF AskedRight, Numbered, AsksForThis
<1>7. ASSUME AskedRight(t)
      PROVE  Forward
  BY <1>4, <1>5, <1>7 DEF AskedRight, Numbered, Forward
<1> QED
  BY <1>5, <1>6, <1>7 DEF TableInv, Remote

LEMMA TableInitInv == TableInit => TableInv
<1> SUFFICES ASSUME NEW config, grid = Sort(Fresh(config, FirstRows))
             PROVE  TableInv
  BY DEF TableInit, Initialise
<1> DEFINE t == Fresh(config, FirstRows)
<1>1. TableFields \subseteq DOMAIN t /\ Numbered(t)
  BY FreshTable
<1> HIDE DEF t
<1>2. Prepared(t, t)
  BY <1>1 DEF Prepared, SameTable
<1>3. Redrawn(t, Sort(t))
  BY <1>2, SortDraws
<1> QED
  BY <1>1, <1>3 DEF t, Redrawn, SameTable, TableInv, Remote

LEMMA TableNextInv ==
  TableInv /\ [TableNext]_gridVars => TableInv' /\ (Remote(grid) => Forward)
<1> SUFFICES ASSUME TableInv, [TableNext]_gridVars
             PROVE  TableInv' /\ (Remote(grid) => Forward)
  OBVIOUS
<1>1. ASSUME TheirsShrink
      PROVE  TableInv' /\ (Remote(grid) => Forward)
  <2> DEFINE x == Front(grid.theirs)
             u == [grid EXCEPT !.theirs = x]
  <2>1. TableStep(u)
    BY <1>1 DEF TheirsShrink
  <2> HIDE DEF x
  <2>2. /\ TableFields \subseteq DOMAIN u /\ u.answered = grid.answered
        /\ Remote(u) => AskedRight(u)
    BY DEF TableInv, TableFields, Remote, AskedRight, Numbered, AsksForThis
  <2> HIDE DEF u
  <2> QED
    BY <2>1, <2>2, TableStepKeeps, SameAnswersForward
<1>2. ASSUME TheyAnswer \/ TheyFail
      PROVE  TableInv' /\ (Remote(grid) => Forward)
  BY <1>2, AnswersKeep DEF TheyAnswer, TheyFail
<1>3. CASE UNCHANGED gridVars
  <2>1. grid' = grid
    BY <1>3 DEF gridVars
  <2>2. TableInv'
    BY <2>1 DEF TableInv, Remote, AskedRight, Numbered, AsksForThis
  <2> QED
    BY <2>1, <2>2, SameAnswersForward
<1> QED
  BY <1>1, <1>2, <1>3, UsersKeep, ScriptsKeep, ReloadsKeep DEF TableNext

(* Whatever the user turns, types and sorts while answers come in any      *)
(* order or never: what a table with a server displays was asked for, and  *)
(* if it answers the last request, for what the table is set to now        *)
(* (jquery.dataTables.js, _fnAjaxUpdate and _fnAjaxUpdateDraw).            *)
THEOREM LastAnswerFits == TableSpec => [](Remote(grid) => AnswersLast)
<1>1. TableInv => (Remote(grid) => AnswersLast)
  BY DEF TableInv, AskedRight, Numbered, AsksForThis, AnswersLast
<1> QED
  BY <1>1, TableInitInv, TableNextInv, PTL DEF TableSpec

(* No step of such a table replaces an answer by one to an older request,  *)
(* as the number in the answer is compared with the last one (sEcho).      *)
THEOREM NoOlderAnswer == TableSpec => [][Remote(grid) => Forward]_gridVars
BY TableInitInv, TableNextInv, PTL DEF TableSpec
==============================================================================
