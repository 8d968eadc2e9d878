---------------------------- MODULE EventCalendar ----------------------------
(***************************************************************************)
(* A calendar under fullcalendar.js: where it stands, the events it has    *)
(* fetched from its sources, and what each of its views shows of them.     *)
(*                                                                         *)
(* The state is one record: the variables of Calendar and EventManager,    *)
(* and a record per view.  Time is counted in ticks; the number of ticks   *)
(* in a day, of days in a week and a month and of weeks in a month's view  *)
(* are constants, so that a few days hold every case.  Sizes, colours and  *)
(* texts are left out, and so is dragging, which needs a library the pages *)
(* do not load.  An event's sources are an array, servers, the array of    *)
(* the events a script asked to keep ("sticky"), or none.                  *)
(***************************************************************************)
EXTENDS Integers, Sequences, FiniteSets, SequencesExt

CONSTANTS
  DayLen, WeekDays, MonthDays, WeeksShown,   \* 24 hours, 7, about 30, 6
  LastDay, ThisDay,        \* the days are 0 .. LastDay
  CalEvents,               \* names of events
  IdOf, SourceOf, Home,    \* their id, their source, [start, end, allDay]
  Servers,                 \* sources with a url
  MaxCalSteps              \* bound: clicks and calls

NoTime == -1
CalSources == {"sticky", "array"} \cup Servers

ASSUME CalendarConstants ==
  /\ {DayLen, WeekDays, MonthDays, WeeksShown} \subseteq Nat \ {0}
  /\ LastDay \in Nat /\ ThisDay \in 0 .. LastDay /\ MaxCalSteps \in Nat
  /\ SourceOf \in [CalEvents -> CalSources \cup {"none"}]
  /\ \A e \in CalEvents : Home[e].end = NoTime \/ Home[e].start < Home[e].end
  /\ \A e, f \in CalEvents : IdOf[e] = IdOf[f] => Home[e].allDay = Home[f].allDay

VARIABLE cal     \* Calendar, EventManager and the views
calVars == <<cal>>

CalViews == {"month", "agendaWeek", "agendaDay"}
IsAgenda(name) == name # "month"

-----------------------------------------------------------------------------
(* Dates.                                                                  *)
Week == WeekDays * DayLen
Month == MonthDays * DayLen
ClearTime(t) == (t \div DayLen) * DayLen
StartOfWeek(t) == (t \div Week) * Week
StartOfMonth(t) == (t \div Month) * Month

(* The span a view stands for and the span it shows.                       *)
SpanOf(name, date) ==
  CASE name = "month" ->
         LET first == StartOfMonth(date)
         IN [start |-> first, end |-> first + Month,
             from |-> StartOfWeek(first), to |-> StartOfWeek(first) + WeeksShown * Week]
    [] name = "agendaWeek" ->
         LET first == StartOfWeek(date)
         IN [start |-> first, end |-> first + Week, from |-> first, to |-> first + Week]
    [] name = "agendaDay" ->
         [start |-> date, end |-> date + DayLen, from |-> date, to |-> date + DayLen]

DateAfter(name, date, inc) ==
  IF inc = 0 THEN date
  ELSE CASE name = "month" -> StartOfMonth(date) + inc * Month
         [] name = "agendaWeek" -> date + inc * Week
         [] name = "agendaDay" -> date + inc * DayLen

RowCnt(name) == IF name = "month" THEN WeeksShown ELSE 1
ColCnt(name) == IF name = "agendaDay" THEN 1 ELSE WeekDays
DayOfWeekCol(name, t) == (t \div DayLen) % ColCnt(name)

-----------------------------------------------------------------------------
(* Segments: the parts of the events in a row of days, longest first, each *)
(* on the first level where it meets no other.                             *)
ExclEndDay(e) ==
  IF e.end = NoTime THEN ClearTime(e.start) + DayLen
  ELSE IF Home[e.name].allDay \/ e.end % DayLen # 0 THEN ClearTime(e.end) + DayLen
  ELSE e.end

SlotEventEnd(e) == IF e.end = NoTime THEN e.start + 1 ELSE e.end   \* defaultEventMinutes

SegsCollide(a, b) == a.to > b.from /\ a.from < b.to
SegCmp(a, b) == (b.to - b.from - (a.to - a.from)) * 100 + (a.first - b.first)

SliceSegs(events, ends, from, to) ==
  LET Meets(i) == ends[i] > from /\ events[i].start < to
      SegOf(i) == [name |-> events[i].name, first |-> events[i].start, level |-> 0, forward |-> 0,
                   from |-> IF events[i].start < from THEN from ELSE events[i].start,
                   to |-> IF ends[i] > to THEN to ELSE ends[i],
                   isStart |-> events[i].start >= from, isEnd |-> ends[i] <= to]
      met == SelectSeq([i \in DOMAIN events |-> i], Meets)
  IN SortSeq([n \in DOMAIN met |-> SegOf(met[n])], LAMBDA s, u : SegCmp(s, u) < 0)

(* Mutant of LevelFor: only the last of a level is looked at.              *)
LevelOfLast(placed, seg) ==
  LET Free(l) == LET there == SelectSeq(placed, LAMBDA s : s.level = l)
                 IN there = <<>> \/ ~SegsCollide(there[Len(there)], seg)
  IN CHOOSE l \in 0 .. Len(placed) : Free(l) /\ \A k \in 0 .. l - 1 : ~Free(k)

LevelFor(placed, seg) ==
  LET Free(l) == \A i \in DOMAIN placed : placed[i].level = l => ~SegsCollide(placed[i], seg)
  IN CHOOSE l \in 0 .. Len(placed) : Free(l) /\ \A k \in 0 .. l - 1 : ~Free(k)

StackSegs(segs) ==
  LET Put(placed, seg) == Append(placed, [seg EXCEPT !.level = LevelFor(placed, seg)])
      placed == FoldLeft(Put, <<>>, segs)
  IN FlattenSeq([l \in 1 .. Len(placed) |-> SelectSeq(placed, LAMBDA s : s.level = l - 1)])

(* How many levels lie beside a segment, told from the last level back.    *)
CountForwardSegs(segs) ==
  LET Beside(all, s) == {all[i].forward + 1 : i \in {j \in DOMAIN all :
                            all[j].level = s.level + 1 /\ SegsCollide(all[j], s)}}
      Deepest(S) == CHOOSE n \in S : \A m \in S : m <= n
      Back(all, l) == [i \in DOMAIN all |->
                         IF all[i].level # l THEN all[i]
                         ELSE [all[i] EXCEPT !.forward = Deepest({0} \cup Beside(all, all[i]))]]
  IN FoldLeft(Back, segs, [n \in 1 .. Len(segs) |-> Len(segs) - n])

(* Day segments get their columns, and the height under those they cover.  *)
Placed(name, row, segs) ==
  LET Cols(s) == DayOfWeekCol(name, s.from) .. DayOfWeekCol(name, s.to - 1)
      Top(heights, cols) == CHOOSE h \in {heights[k] : k \in cols} : \A k \in cols : heights[k] <= h
      Put(acc, s) ==
        LET top == Top(acc.heights, Cols(s))
        IN [heights |-> [k \in DOMAIN acc.heights |->
                           IF k \in Cols(s) THEN top + 1 ELSE acc.heights[k]],
            shown |-> acc.shown \cup {[name |-> s.name, row |-> row, cols |-> Cols(s), top |-> top,
                                       isStart |-> s.isStart, isEnd |-> s.isEnd]}]
  IN FoldLeft(Put, [heights |-> [k \in 0 .. ColCnt(name) - 1 |-> 0], shown |-> {}], segs).shown

RenderDaySegs(name, events, from) ==
  UNION {LET first == from + i * Week
         IN Placed(name, i, StackSegs(SliceSegs(events, [e \in DOMAIN events |-> ExclEndDay(events[e])], first,
                                                 first + ColCnt(name) * DayLen)))
         : i \in 0 .. RowCnt(name) - 1}

RenderSlotSegs(name, events, from) ==
  UNION {LET first == from + i * DayLen
            ends == [e \in DOMAIN events |-> SlotEventEnd(events[e])]
            segs == CountForwardSegs(StackSegs(SliceSegs(events, ends, first, first + DayLen)))
         IN {[name |-> s.name, col |-> i, from |-> s.from, to |-> s.to,
              level |-> s.level, forward |-> s.forward] : s \in Range(segs)}
         : i \in 0 .. ColCnt(name) - 1}

RenderedEvents(name, events, from) ==
  LET InDays(e) == ~IsAgenda(name) \/ Home[e.name].allDay
      InSlots(e) == ~InDays(e)
  IN [days |-> RenderDaySegs(name, SelectSeq(events, InDays), from),
      slots |-> IF IsAgenda(name) THEN RenderSlotSegs(name, SelectSeq(events, InSlots), from) ELSE {}]

Cleared == [days |-> {}, slots |-> {}]

-----------------------------------------------------------------------------
(* Which views show events that are no longer those of the calendar.       *)
MarkEventsDirty(c) == [c EXCEPT !.views = [n \in CalViews |-> [@[n] EXCEPT !.eventsDirty = TRUE]]]

Rendered(v) == v.start # NoTime

(* A view that was never rendered has no container to clear: this throws,  *)
(* after the marks.                                                        *)
RerenderEvents(c) ==
  LET d == MarkEventsDirty(c)
  IN IF ~c.visible \/ ~Rendered(c.views[c.view]) THEN d
     ELSE [d EXCEPT !.views[c.view].shown = RenderedEvents(c.view, c.events, c.views[c.view].from),
                    !.views[c.view].eventsDirty = FALSE]

ReportEvents(c) == RerenderEvents([c EXCEPT !.events = c.cache])

-----------------------------------------------------------------------------
(* The events a source gives.  An array gives the events in it, a server   *)
(* answers later.                                                          *)
NormalizeEvent(name, source, fetchID) ==
  [name |-> name, start |-> Home[name].start, source |-> source, of |-> fetchID,
   end |-> IF Home[name].end <= Home[name].start THEN NoTime ELSE Home[name].end]

EventsOf(source) == SelectSeq(SetToSeq(CalEvents), LAMBDA e : SourceOf[e] = source)

(* Mutant of IsCurrent: an answer is an answer.                            *)
Whichever(c, ask) == TRUE

IsCurrent(c, ask) == ask.fetchID = c.fetchID

Arrive(c, ask, events) ==
  IF ~IsCurrent(c, ask) THEN c
  ELSE LET d == [c EXCEPT !.cache = @ \o events, !.pendingSourceCnt = @ - 1]
       IN IF d.pendingSourceCnt = 0 THEN ReportEvents(d) ELSE d

(* Told to clear a view it has never rendered, the calendar throws: what   *)
(* should follow an answer does not.                                       *)
NoViewToClear(c, ask) ==
  /\ IsCurrent(c, ask) /\ c.pendingSourceCnt = 1
  /\ c.visible /\ ~Rendered(c.views[c.view])

FetchEventSource(c, source, fetchID) ==
  LET ask == [source |-> source, fetchID |-> fetchID, from |-> c.rangeStart, to |-> c.rangeEnd]
  IN IF source \in Servers
     THEN [c EXCEPT !.asks = Append(@, ask), !.loadingLevel = @ + 1]
     ELSE Arrive(c, ask, c.arrays[source])

FetchEvents(c, from, to) ==
  LET d == [c EXCEPT !.rangeStart = from, !.rangeEnd = to, !.cache = <<>>,
                     !.fetchID = @ + 1, !.pendingSourceCnt = Len(c.sources),
                     !.strays = {}, !.answered = {}, !.gone = {}]
  IN FoldLeft(LAMBDA e, source : FetchEventSource(e, source, d.fetchID), d, c.sources)

IsFetchNeeded(c, v) == c.rangeStart = NoTime \/ v.from < c.rangeStart \/ v.to > c.rangeEnd

RefetchEvents(c) == FetchEvents(c, c.views[c.view].from, c.views[c.view].to)

UpdateEvents(c, forceRender) ==
  IF IsFetchNeeded(c, c.views[c.view]) THEN RefetchEvents(c)
  ELSE IF forceRender THEN RerenderEvents(c) ELSE c

-----------------------------------------------------------------------------
(* The overlay of a selection, in the view it was made in.                 *)
Unselected(v) == IF v.selected THEN [v EXCEPT !.selected = FALSE, !.overlay = {}] ELSE v
Unselect(c) == [c EXCEPT !.views[c.view] = Unselected(@)]

RenderSelection(v, first, last) ==
  [v EXCEPT !.overlay = {t \in v.from .. v.to - 1 : t % DayLen = 0 /\ first <= t /\ t <= last}]

SelectDays(c, first, last) ==
  [c EXCEPT !.views[c.view] = [RenderSelection(Unselected(@), first, last) EXCEPT !.selected = TRUE]]

-----------------------------------------------------------------------------
(* The current view, rendered for the date.                                *)
TodayIn(v) == v.start <= ThisDay * DayLen /\ ThisDay * DayLen < v.end

RenderRange(c, inc) ==
  LET date == DateAfter(c.view, c.date, inc)
      span == SpanOf(c.view, date)
  IN [c EXCEPT !.date = date,
               !.views[c.view] = [@ EXCEPT !.start = span.start, !.end = span.end,
                                           !.from = span.from, !.to = span.to,
                                           !.shown = Cleared]]

UpdateTodayButton(c) == [c EXCEPT !.todayOff = TodayIn(c.views[c.view]), !.behind = FALSE]

RenderView(c, inc) ==
  IF ~c.visible THEN [c EXCEPT !.behind = TRUE]
  ELSE LET u == Unselect(c)
           v == u.views[u.view]
           other == ~Rendered(v) \/ inc # 0 \/ u.date < v.start \/ u.date >= v.end
           w == IF other THEN RenderRange(u, inc)
                ELSE IF v.sizeDirty \/ v.eventsDirty THEN [u EXCEPT !.views[u.view].shown = Cleared]
                ELSE u
       IN UpdateTodayButton(
            UpdateEvents([w EXCEPT !.views[u.view].sizeDirty = FALSE,
                                   !.views[u.view].eventsDirty = FALSE],
                         other \/ v.sizeDirty \/ v.eventsDirty))

ChangeView(c, name) ==
  IF name = c.view THEN c ELSE RenderView([Unselect(c) EXCEPT !.view = name], 0)

MarkSizesDirty(c) == [c EXCEPT !.views = [n \in CalViews |-> [@[n] EXCEPT !.sizeDirty = TRUE]]]

UpdateSize(c) ==
  LET d == MarkSizesDirty(c)
  IN IF ~c.visible THEN d
     ELSE LET u == Unselect(d)
          IN [u EXCEPT !.views[u.view].shown = RenderedEvents(u.view, u.events, u.views[u.view].from),
                       !.views[u.view].sizeDirty = FALSE]

(* Called again by a script, for one when the calendar has been uncovered. *)
Render(c) == RenderView(MarkEventsDirty(MarkSizesDirty(c)), 0)

-----------------------------------------------------------------------------
(* Sources come and go.  A script names an array by the array itself.      *)
AddEventSource(c, source) ==
  FetchEventSource([c EXCEPT !.sources = Append(@, source), !.pendingSourceCnt = @ + 1,
                             !.arrays.array = IF source = "array" THEN c.own ELSE @,
                             !.given = @ \/ source = "array"],
                   source, c.fetchID)

IsAsked(c, source) ==
  \E i \in DOMAIN c.asks : c.asks[i].source = source /\ IsCurrent(c, c.asks[i])

RemoveEventSource(c, source) ==
  LET Other(s) == s # source
      OfOther(e) == e.source # source
      d == [c EXCEPT !.strays = IF IsAsked(c, source) THEN @ \cup {source} ELSE @,
                     !.unwanted = @ \cup {source}, !.answered = @ \ {source}]
  IN ReportEvents(IF source = "array" /\ ~c.given THEN d
                  ELSE [d EXCEPT !.sources = SelectSeq(@, Other), !.cache = SelectSeq(@, OfOther)])

(* Events come and go.  Removing puts a new array into every source that   *)
(* has one.                                                                *)
RenderEvent(c, name, stick) ==
  LET event == NormalizeEvent(name, IF stick THEN "sticky" ELSE "none", 0)
  IN ReportEvents([c EXCEPT !.arrays.sticky = IF stick THEN Append(@, event) ELSE @,
                            !.cache = Append(@, event)])

RemoveEvents(c, ids) ==
  LET Stays(e) == IdOf[e.name] \notin ids
      inUse == "array" \in Range(c.sources)
  IN ReportEvents([c EXCEPT !.cache = SelectSeq(@, Stays),
                            !.arrays.sticky = SelectSeq(@, Stays),
                            !.arrays.array = IF inUse THEN SelectSeq(@, Stays) ELSE @,
                            !.given = @ /\ ~inUse,
                            !.gone = @ \cup ids])

(* A script has moved an event and says so: those of its id move with it.  *)
DefaultEventEnd(c, e) == IF IsAgenda(c.view) /\ ~Home[e.name].allDay THEN e.start + 1 ELSE e.start

Follows(c, e, leader, by) ==
  LET moved == [e EXCEPT !.start = @ + by]
      end == IF leader.end = NoTime THEN NoTime
             ELSE IF e.end # NoTime THEN e.end + by
             ELSE DefaultEventEnd(c, moved) + by
  IN [moved EXCEPT !.end = IF end # NoTime /\ end <= moved.start THEN NoTime ELSE end]

UpdateEvent(c, leader, by) ==
  LET Objects == {i \in DOMAIN c.cache : IdOf[c.cache[i].name] = IdOf[leader.name]}
      touched == {<<c.cache[i].name, c.cache[i].of>> : i \in Objects}
      Touch(events) == [i \in DOMAIN events |->
                          IF <<events[i].name, events[i].of>> \in touched
                          THEN Follows(c, events[i], leader, by) ELSE events[i]]
  IN ReportEvents([c EXCEPT !.cache = Touch(@), !.events = Touch(@), !.own = Touch(@),
                            !.arrays = [a \in DOMAIN @ |-> Touch(@[a])]])

-----------------------------------------------------------------------------
Blank(visible) ==
  LET own == [i \in DOMAIN EventsOf("array") |-> NormalizeEvent(EventsOf("array")[i], "array", 0)]
  IN [steps |-> 0, visible |-> visible, date |-> ThisDay * DayLen, view |-> "month",
      views |-> [n \in CalViews |->
                   [start |-> NoTime, end |-> NoTime, from |-> NoTime, to |-> NoTime,
                    shown |-> Cleared, eventsDirty |-> FALSE, sizeDirty |-> FALSE,
                    selected |-> FALSE, overlay |-> {}]],
      events |-> <<>>, cache |-> <<>>, sources |-> <<"sticky", "array">>,
      arrays |-> [sticky |-> <<>>, array |-> own],
      own |-> own, given |-> TRUE,                 \* the script's array, and whether it is in use
      rangeStart |-> NoTime, rangeEnd |-> NoTime, fetchID |-> 0,
      pendingSourceCnt |-> 0, loadingLevel |-> 0, asks |-> <<>>, todayOff |-> FALSE,
      threw |-> FALSE,     \* history: an answer met a view that was never rendered
      behind |-> FALSE,    \* history: a rendering was left out, the calendar being covered
      strays |-> {},       \* history: sources removed before their answer to this fetch
      unwanted |-> {},     \* history: sources removed and not added again
      answered |-> {}, gone |-> {}]   \* history: who answered this fetch, ids removed since

CalInit == \E visible \in BOOLEAN : cal = RenderView(Blank(visible), 0)

CalStep(c) ==
  /\ cal.steps < MaxCalSteps
  /\ cal' = [c EXCEPT !.steps = cal.steps + 1]

OnCalendar(t) == t \in 0 .. (LastDay + 1) * DayLen - 1

ClicksArrow(inc) ==
  /\ OnCalendar(DateAfter(cal.view, cal.date, inc))
  /\ CalStep(RenderView(cal, inc))
ClicksToday ==
  /\ cal.visible /\ ~cal.todayOff
  /\ CalStep(RenderView([cal EXCEPT !.date = ThisDay * DayLen], 0))
ClicksView(name) == name # cal.view /\ CalStep(ChangeView(cal, name))
GoesTo(day) == CalStep(RenderView([cal EXCEPT !.date = day * DayLen], 0))

TogglesCover == CalStep([cal EXCEPT !.visible = ~@])
RendersAgain == CalStep(Render(cal))
WindowResizes ==
  /\ cal.visible
  /\ CalStep(IF Rendered(cal.views[cal.view]) THEN UpdateSize(cal) ELSE RenderView(cal, 0))

Refetches == CalStep(RefetchEvents(cal))
AddsSource(source) ==
  /\ source \notin Range(cal.sources)
  /\ CalStep([AddEventSource(cal, source) EXCEPT !.unwanted = @ \ {source}])
RemovesSource(source) == source \in Range(cal.sources) /\ CalStep(RemoveEventSource(cal, source))
RendersEvent(name, stick) ==
  /\ \A e \in Range(cal.cache \o cal.arrays.sticky) : e.name # name
  /\ CalStep(RenderEvent(cal, name, stick))
RemovesEvents(ids) == CalStep(RemoveEvents(cal, ids))
MovesEvent(e, by) == OnCalendar(e.start + by) /\ CalStep(UpdateEvent(cal, e, by))

Selects(first, last) ==
  /\ Rendered(cal.views[cal.view])
  /\ CalStep(SelectDays(cal, first * DayLen, last * DayLen))
Unselects == cal.views[cal.view].selected /\ CalStep(Unselect(cal))

(* A server answers with its events in the range it was asked for, or      *)
(* fails; in any order.                                                    *)
TheirEvents(ask) ==
  LET InRange(e) == Home[e].start < ask.to /\ ExclEndDay([name |-> e] @@ Home[e]) > ask.from
      names == SelectSeq(EventsOf(ask.source), InRange)
  IN [i \in DOMAIN names |-> NormalizeEvent(names[i], ask.source, ask.fetchID)]

AnswerTo(i, events) ==
  LET ask == cal.asks[i]
      c == [cal EXCEPT !.asks = RemoveAt(@, i)]
      throws == NoViewToClear(c, ask)
  IN [Arrive(c, ask, events) EXCEPT !.threw = @ \/ throws, !.loadingLevel = IF throws THEN @ ELSE @ - 1]

ServerAnswers ==
  \E i \in DOMAIN cal.asks :
    LET ask == cal.asks[i]
    IN cal' = [AnswerTo(i, TheirEvents(ask))
                 EXCEPT !.answered = IF ask.fetchID = cal.fetchID THEN @ \cup {ask.source} ELSE @]
ServerFails == \E i \in DOMAIN cal.asks : cal' = AnswerTo(i, <<>>)

CalNext ==
  \/ \E inc \in {-1, 1} : ClicksArrow(inc)
  \/ ClicksToday \/ TogglesCover \/ RendersAgain \/ WindowResizes \/ Refetches \/ Unselects
  \/ \E name \in CalViews : ClicksView(name)
  \/ \E day \in 0 .. LastDay : GoesTo(day)
  \/ \E source \in CalSources \ {"sticky"} : AddsSource(source) \/ RemovesSource(source)
  \/ \E name \in CalEvents, stick \in BOOLEAN :
       SourceOf[name] = "none" /\ RendersEvent(name, stick)
  \/ \E name \in CalEvents : RemovesEvents({IdOf[name]})
  \/ RemovesEvents({IdOf[name] : name \in CalEvents})
  \/ \E i \in DOMAIN cal.cache, by \in {-DayLen, DayLen} : MovesEvent(cal.cache[i], by)
  \/ \E first \in 0 .. LastDay, days \in 0 .. 1 : Selects(first, first + days)
  \/ ServerAnswers \/ ServerFails

-----------------------------------------------------------------------------
(* The requests the counters stand for are those that are under way; but   *)
(* the calendar says it is loading for ever after an answer that threw.    *)
CountsRight ==
  /\ cal.pendingSourceCnt = Cardinality({i \in DOMAIN cal.asks : IsCurrent(cal, cal.asks[i])})
  /\ cal.loadingLevel >= Len(cal.asks)
  /\ ~cal.threw => cal.loadingLevel = Len(cal.asks)

(* Once every source of the last fetch has answered, the calendar has what *)
(* they gave it for a range that holds what is shown: each event once, of  *)
(* the sources there are, those of one id together.  The exceptions: an    *)
(* answer that comes after its source was removed is let in, and an array  *)
(* can no longer be removed once an event has been removed from it.        *)
EventsRight ==
  LET Here(source) == {cal.cache[i].name : i \in {j \in DOMAIN cal.cache : cal.cache[j].source = source}}
      ask(s) == [source |-> s, from |-> cal.rangeStart, to |-> cal.rangeEnd, fetchID |-> cal.fetchID]
      Theirs(s) == {e.name : e \in Range(TheirEvents(ask(s)))}
      Remaining(S) == {e \in S : IdOf[e] \notin cal.gone}
      known == cal.sources \o SetToSeq(cal.strays)
      Together(e, f) == IdOf[e.name] = IdOf[f.name] /\ e.of = f.of /\ e.source \notin cal.strays
      Shift(e) == e.start - Home[e.name].start
  IN cal.pendingSourceCnt = 0 =>
       /\ cal.events = cal.cache
       /\ \A i \in DOMAIN cal.cache : cal.cache[i].source \in {"none"} \cup Range(known)
       /\ \A i, j \in DOMAIN cal.cache :
            /\ cal.cache[i].name = cal.cache[j].name =>
                 i = j \/ cal.cache[i].source \in cal.strays
            /\ Together(cal.cache[i], cal.cache[j]) =>
                 Shift(cal.cache[i]) = Shift(cal.cache[j])
       /\ \A s \in Range(cal.sources) \ cal.strays :
            IF s \in Servers
            THEN IF s \in cal.answered THEN Remaining(Theirs(s)) \subseteq Here(s) /\ Here(s) \subseteq Theirs(s)
                 ELSE Here(s) = {}
            ELSE cal.fetchID > 0 => Here(s) = {e.name : e \in Range(cal.arrays[s])}
       /\ Range(cal.sources) \cap cal.unwanted \subseteq IF cal.given THEN {} ELSE {"array"}

(* A view that is not marked shows the events of the calendar that fall    *)
(* into it, fetched for at least its range, each day of an event in one    *)
(* segment and no segment over another.                                    *)
Touches(e, t) == e.start < t + DayLen /\ ExclEndDay(e) > t

LaidOut(name, v) ==
  /\ \A a, b \in v.shown.days :
       a # b /\ a.row = b.row /\ a.cols \cap b.cols # {} => a.top # b.top
  /\ \A a, b \in v.shown.slots :
       a # b /\ a.col = b.col /\ SegsCollide(a, b) => a.level # b.level
  /\ \A e \in CalEvents, t \in {u \in v.from .. v.to - 1 : u % DayLen = 0} :
       LET falls == \E i \in DOMAIN cal.events : cal.events[i].name = e /\ Touches(cal.events[i], t)
           covers == {a \in v.shown.days : a.name = e /\ a.row = (t - v.from) \div Week
                                             /\ DayOfWeekCol(name, t) \in a.cols}
       IN ~IsAgenda(name) \/ Home[e].allDay =>
            /\ falls <=> covers # {}
            /\ falls /\ cal.strays = {} => Cardinality(covers) = 1

ViewsRight ==
  \A n \in CalViews :
    LET v == cal.views[n]
    IN Rendered(v) /\ ~v.eventsDirty /\ cal.pendingSourceCnt = 0 =>
         /\ v.shown = RenderedEvents(n, cal.events, v.from)
         /\ cal.rangeStart <= v.from /\ v.to <= cal.rangeEnd
         /\ LaidOut(n, v)

(* The current view is the one of the date, the button for today is off    *)
(* when it would change nothing, and a selection never outlives a change   *)
(* of the view or of what it shows.                                        *)
CurrentRight ==
  LET v == cal.views[cal.view]
  IN /\ ~cal.behind =>
          /\ v.start <= cal.date /\ cal.date < v.end
          /\ cal.todayOff = TodayIn(v)
     /\ \A n \in CalViews :
          LET w == cal.views[n]
          IN /\ w.selected => n = cal.view
             /\ ~w.selected => w.overlay = {}
             /\ \A t \in w.overlay : w.from <= t /\ t < w.to

CalendarTruthful == CountsRight /\ EventsRight /\ ViewsRight /\ CurrentRight
=============================================================================
