------------------------------ MODULE DateRange ------------------------------
(***************************************************************************)
(* The two date fields of the log search: sysLog.js from line 24, on two   *)
(* pickers of bootstrap-datepicker.js.                                     *)
(*                                                                         *)
(* A picker keeps a date of its own beside the text of its field.  An empty*)
(* or unfinished text stands for today, keys bring the date after the text *)
(* and the buttons bring the text after the date; only a choice of a day,  *)
(* month or year announces itself, and only then do the two scripts of     *)
(* sysLog.js compare the two dates.  Months are counted from 0.            *)
(***************************************************************************)
EXTENDS Integers

CONSTANTS
  Today,                \* the day the page is used
  Typed,                \* the full dates that may be typed, real or not
  NoDate, Unfinished,    \* texts that are not three numbers
  Days, MonthNos, YearNos,  \* the cells that may be chosen
  MaxTouches            \* bound: what the user does

VARIABLES
  dateOf,       \* date of each picker
  textOf,       \* text of each field
  viewOf,       \* the day whose month, year or decade is displayed
  modeOf,       \* 0 days, 1 months, 2 years
  open,         \* the pickers displayed
  causes,       \* history: what may have put the dates out of order
  touches

rangeVars == <<dateOf, textOf, viewOf, modeOf, open, causes, touches>>

Fields2 == {"start", "end"}

-----------------------------------------------------------------------------
(* Days of the calendar.                                                   *)
Day(y, m, d) == [y |-> y, m |-> m, d |-> d]
Number(t) == t.y * 10000 + t.m * 100 + t.d
Before(s, t) == Number(s) < Number(t)

IsLeapYear(y) == (y % 4 = 0 /\ y % 100 # 0) \/ y % 400 = 0
DaysInMonth(y, m) ==
  CASE m = 1 -> IF IsLeapYear(y) THEN 29 ELSE 28
    [] m \in {3, 5, 8, 10} -> 30
    [] OTHER -> 31

(* The days there are; what is typed may be none, as the 31st of a short   *)
(* month or the first of a thirteenth.                                     *)
RealDays == {t \in [y : Int, m : 0 .. 11, d : 1 .. 31] : t.d <= DaysInMonth(t.y, t.m)}

ASSUME RangeConstants ==
  /\ Today \in RealDays
  /\ Typed \subseteq [y : Int, m : Int, d : 1 .. 31]
  /\ MonthNos \subseteq 0 .. 11 /\ YearNos \subseteq Int /\ Days \subseteq Int

(* new Date(y, m, d): a month or a day too many goes over to the next.     *)
NewDate(y, m, d) ==
  LET yy == y + m \div 12
      mm == m % 12
      n == DaysInMonth(yy, mm)
  IN IF d <= n THEN Day(yy, mm, d)
     ELSE Day(yy + (mm + 1) \div 12, (mm + 1) % 12, d - n)

(* parseDate: a text that has not three parts is today.                    *)
ParseDate(t) == IF t \in {NoDate, Unfinished} THEN Today ELSE NewDate(t.y, t.m, t.d)
FirstOf(t) == Day(t.y, t.m, 1)

-----------------------------------------------------------------------------
Touch ==
  /\ touches < MaxTouches
  /\ touches' = touches + 1

(* Mutant of Corrected: an end before the start is left as it is.          *)
CorrectedStartOnly(f, t) ==
  IF f = "end" THEN t
  ELSE IF Before(dateOf["end"], t) THEN t ELSE dateOf["end"]

(* The end after date t has been chosen in field f: a start after the end  *)
(* takes the end with it, an end before the start becomes the start.  The  *)
(* dates compared are those of the pickers, whatever the fields show.      *)
Corrected(f, t) ==
  IF f = "start" THEN IF Before(dateOf["end"], t) THEN t ELSE dateOf["end"]
  ELSE IF Before(t, dateOf["start"]) THEN dateOf["start"] ELSE t

(* changeDate: date t has been chosen in f, where v was in view.  An end   *)
(* that is corrected is written to its field; the picker of f closes, and  *)
(* after a start the end is asked for.                                     *)
ChangeDate(f, t, v) ==
  LET end == Corrected(f, t)
      moved == end # (IF f = "end" THEN t ELSE dateOf["end"])
  IN /\ dateOf' = [dateOf EXCEPT ![f] = t, !["end"] = end]
     /\ textOf' = [textOf EXCEPT ![f] = t, !["end"] = IF moved \/ f = "end" THEN end ELSE @]
     /\ viewOf' = [viewOf EXCEPT ![f] = v, !["end"] = IF moved THEN FirstOf(end) ELSE IF f = "end" THEN v ELSE @]
     /\ modeOf' = [modeOf EXCEPT ![f] = 0]
     /\ open' = IF f = "start" THEN (open \ {f}) \cup {"end"} ELSE open \ {f}
     /\ UNCHANGED causes

(* td: a day of the month in view or of the ends of its neighbours.        *)
PickDay(f, by, n) ==
  LET v == viewOf[f]
      month == NewDate(v.y, v.m + by, 1)
      t == Day(month.y, month.m, n)
  IN /\ f \in open /\ modeOf[f] = 0
     /\ Touch
     /\ n \in 1 .. DaysInMonth(month.y, month.m)
     /\ by = -1 => n > 20
     /\ by = 1 => n < 15
     /\ ChangeDate(f, t, Day(t.y, t.m, IF n > 28 THEN 28 ELSE n))

(* span: a month, or a year of the decade in view.                         *)
PickMonth(f, m) ==
  LET t == [viewOf[f] EXCEPT !.m = m]
  IN f \in open /\ modeOf[f] = 1 /\ Touch /\ ChangeDate(f, t, t)

PickYear(f, y) ==
  LET t == [viewOf[f] EXCEPT !.y = y]
      decade == 10 * (viewOf[f].y \div 10)
  IN /\ f \in open /\ modeOf[f] = 2 /\ Touch
     /\ y \in decade - 1 .. decade + 10
     /\ ChangeDate(f, t, t)

(* prev and next: the view moves, and set writes the date of the picker    *)
(* into its field, which may have been empty.                              *)
Turn(f, by) ==
  LET v == viewOf[f]
  IN /\ f \in open /\ Touch
     /\ viewOf' = [viewOf EXCEPT ![f] =
           CASE modeOf[f] = 0 -> NewDate(v.y, v.m + by, v.d)
             [] modeOf[f] = 1 -> NewDate(v.y + by, v.m, v.d)
             [] OTHER -> NewDate(v.y + 10 * by, v.m, v.d)]
     /\ textOf' = [textOf EXCEPT ![f] = dateOf[f]]
     /\ causes' = IF textOf[f] = NoDate THEN causes \cup {"filled"} ELSE causes
     /\ UNCHANGED <<dateOf, modeOf, open>>

(* switch                                                                  *)
ShowMode(f) ==
  /\ f \in open /\ modeOf[f] < 2 /\ Touch
  /\ modeOf' = [modeOf EXCEPT ![f] = @ + 1]
  /\ UNCHANGED <<dateOf, textOf, viewOf, open, causes>>

(* show: the field gets the focus, from a click elsewhere or from the keys.*)
(* A mouse button pressed outside the pickers hides them, which ends their *)
(* modes as well.                                                          *)
Show(f, byMouse) ==
  /\ f \notin open /\ Touch
  /\ open' = (IF byMouse THEN {} ELSE open) \cup {f}
  /\ modeOf' = IF byMouse THEN [g \in Fields2 |-> 0] ELSE modeOf
  /\ UNCHANGED <<dateOf, textOf, viewOf, causes>>

HideAll ==
  /\ open # {} /\ Touch
  /\ open' = {}
  /\ modeOf' = [g \in Fields2 |-> 0]
  /\ UNCHANGED <<dateOf, textOf, viewOf, causes>>

(* update, with every key; a text may also change without one.             *)
EnterDate(f, t, byKeys) ==
  /\ Touch
  /\ textOf' = [textOf EXCEPT ![f] = t]
  /\ IF byKeys
       THEN /\ dateOf' = [dateOf EXCEPT ![f] = ParseDate(t)]
            /\ viewOf' = [viewOf EXCEPT ![f] = FirstOf(ParseDate(t))]
       ELSE UNCHANGED <<dateOf, viewOf>>
  /\ causes' = causes \cup {"typed"}
  /\ UNCHANGED <<modeOf, open>>

-----------------------------------------------------------------------------
(* The page comes with the dates searched for, which a search may have     *)
(* left out.                                                               *)
RangeInit ==
  /\ textOf \in [Fields2 -> Typed \cup {NoDate}]
  /\ \A f \in Fields2 : textOf[f] = NoDate \/ textOf[f] = ParseDate(textOf[f])
  /\ NoDate \notin {textOf["start"], textOf["end"]} =>
       ~Before(textOf["end"], textOf["start"])
  /\ dateOf = [f \in Fields2 |-> ParseDate(textOf[f])]
  /\ viewOf = [f \in Fields2 |-> FirstOf(dateOf[f])]
  /\ modeOf = [f \in Fields2 |-> 0]
  /\ open = {} /\ causes = {} /\ touches = 0

RangeNext ==
  \/ HideAll
  \/ \E f \in Fields2 :
       \/ \E by \in {-1, 0, 1}, n \in Days : PickDay(f, by, n)
       \/ \E m \in MonthNos : PickMonth(f, m)
       \/ \E y \in YearNos : PickYear(f, y)
       \/ \E by \in {-1, 1} : Turn(f, by)
       \/ ShowMode(f)
       \/ \E byMouse \in BOOLEAN : Show(f, byMouse)
       \/ \E t \in Typed \cup {NoDate, Unfinished}, byKeys \in BOOLEAN : EnterDate(f, t, byKeys)

RangeSpec == RangeInit /\ [][RangeNext]_rangeVars

(* What is searched for is an interval: when both fields hold a date the   *)
(* start is not after the end, unless something was typed, which is not    *)
(* compared, or an arrow of a picker has written today into a field that   *)
(* was empty.                                                              *)
IntervalInOrder ==
  \/ {textOf[f] : f \in Fields2} \cap {NoDate, Unfinished} # {}
  \/ ~Before(ParseDate(textOf["end"]), ParseDate(textOf["start"]))
  \/ causes # {}
=============================================================================
