----------------------------- MODULE DataTable -----------------------------
(***************************************************************************)
(* A table under jquery.dataTables.js: rows, what of them is found by the  *)
(* search, in which order and on which page they are shown.                *)
(*                                                                         *)
(* The state is the settings object of the table, one record; the          *)
(* library's functions are functions on it, so that an event or a call of  *)
(* the API composes the functions it calls.  Cells and search texts are    *)
(* abstracted together: column k of a row holds letter k or nothing, a     *)
(* search text is a sequence of letters.  Layout (widths, scrolling,       *)
(* stripes), languages and column definitions are left out.                *)
(*                                                                         *)
(* The configurations: the two of script.js ("one": no filter, no choice   *)
(* of length; "two": both), the second with bStateSave ("saved") and with  *)
(* bServerSide ("server").                                                 *)
(***************************************************************************)
EXTENDS Integers, Sequences, FiniteSets, SequencesExt

CONSTANTS
  Columns,        \* 1 .. how many columns
  FirstRows,      \* the rows the page is delivered with, each a set of letters
  NewRows,        \* rows a script may add or write
  SearchTexts,    \* texts a user may type, sequences of letters
  Lengths,        \* lengths of a page
  MaxTableSteps   \* bound: events and calls

ASSUME TableConstants ==
  /\ Columns = 1 .. Cardinality(Columns)
  /\ FirstRows \in Seq(SUBSET Columns) /\ NewRows \subseteq SUBSET Columns
  /\ SearchTexts \subseteq Seq(Columns) /\ <<>> \in SearchTexts
  /\ Lengths \subseteq Nat \ {0, 1} /\ Lengths # {}
  /\ MaxTableSteps \in Nat

VARIABLE grid    \* oSettings
gridVars == <<grid>>

Configurations == {"one", "two", "saved", "server"}
Filters(t) == t.config # "one"                 \* bFilter
Remote(t) == t.config = "server"               \* bServerSide

-----------------------------------------------------------------------------
(* Where the page ends, and the counts the information is made of.         *)
CalculateEnd(t) ==
  [t EXCEPT !.end = IF t.start + t.length > Len(t.display) THEN Len(t.display)
                    ELSE t.start + t.length,
            !.owed = @ \ {"end"}]

RecordsTotal(t) == IF Remote(t) THEN t.total ELSE Len(t.master)
RecordsDisplay(t) == IF Remote(t) THEN t.found ELSE Len(t.display)
DisplayEnd(t) ==
  IF ~Remote(t) THEN t.end
  ELSE IF t.start + t.length < t.found THEN t.start + t.length ELSE t.found

(* What the line under the table says, and what the buttons look like.     *)
Info(t) ==
  [start |-> t.start, end |-> DisplayEnd(t), of |-> RecordsDisplay(t),
   all |-> RecordsTotal(t), length |-> t.length]

Ceiling(m, n) == (m + n - 1) \div n
CurrentPage(i) == Ceiling(i.start, i.length) + 1
NextLooksOff(config, i) ==
  IF config = "one" THEN i.end = i.of
  ELSE i.of = 0 \/ CurrentPage(i) = Ceiling(i.of, i.length)

(* The state the draw callback of bStateSave puts into the cookie.         *)
StateOf(t) ==
  [start |-> t.start, length |-> t.length, sorting |-> t.sorting,
   text |-> t.text, regex |-> t.regex, colText |-> t.colText, hidden |-> t.hidden]

SaveState(t) == IF t.config = "saved" THEN [t EXCEPT !.cookie = {StateOf(t)}] ELSE t

(* The second half of _fnDraw: the rows of the page into the table.  With  *)
(* an end that is out of date the loop meets a row that is not there and   *)
(* throws, before anything has been changed.                               *)
Throws(t) == ~Remote(t) /\ t.display # <<>> /\ t.start < t.end /\ t.end > Len(t.display)

PageOf(t) ==
  IF Remote(t) THEN t.display
  ELSE IF t.display = <<>> \/ t.start >= t.end THEN <<>>
  ELSE SubSeq(t.display, t.start + 1, t.end)

Paint(t) ==
  SaveState([t EXCEPT
    !.drawn = [i \in DOMAIN PageOf(t) |-> t.data[PageOf(t)[i]].id],
    !.below = {r \in t.opened : \E i \in DOMAIN PageOf(t) : t.data[PageOf(t)[i]].id = r},
    !.info = Info(t),
    !.owed = @ \ {"draw"}])

(* The request of server-side processing; its answer is the draw.          *)
Request(t) ==
  [echo |-> t.draws + 1, start |-> t.start, length |-> t.length,
   text |-> t.text, regex |-> t.regex, colText |-> t.colText, sorting |-> t.sorting]

AjaxUpdate(t) == [t EXCEPT !.draws = @ + 1, !.asks = @ \cup {Request(t)}]

InitStart(t) ==
  IF t.initStart = -1 THEN t
  ELSE CalculateEnd([t EXCEPT
         !.start = IF ~Remote(t) /\ t.initStart >= RecordsDisplay(t) THEN 0 ELSE t.initStart,
         !.initStart = -1])

DrawTable(t) ==
  LET u == InitStart(t)
  IN IF Remote(u) THEN AjaxUpdate(u) ELSE IF Throws(u) THEN u ELSE Paint(u)

-----------------------------------------------------------------------------
(* The search.  A plain text is split into words that must all occur; a    *)
(* regular expression is taken as an alternative of its letters.           *)
Fits(text, regex, c) ==
  text = <<>> \/ IF regex THEN \E i \in DOMAIN text : text[i] \in c
                 ELSE \A i \in DOMAIN text : text[i] \in c

FitsColumns(t, c) == \A k \in t.colText : k \in c

BuildSearch(t, indices) ==
  IF Remote(t) THEN t ELSE [t EXCEPT !.search = [i \in DOMAIN indices |-> t.data[indices[i]].c]]

(* All rows again, found or not.                                           *)
FilterAnew(t, text, regex) ==
  LET u == BuildSearch(t, t.master)
      Found(r) == Fits(text, regex, t.data[r].c)
  IN [u EXCEPT !.display = SelectSeq(t.master, Found), !.owed = @ \ {"filter", "shift"}]

(* Only the rows on display, by position in the array of search texts: a   *)
(* row past its end is kept unseen.                                        *)
FilterFurther(t, text, regex) ==
  LET Stays(i) == i > Len(t.search) \/ Fits(text, regex, t.search[i])
      kept == SelectSeq([i \in DOMAIN t.display |-> i], Stays)
  IN [t EXCEPT !.display = [j \in DOMAIN kept |-> t.display[kept[j]]],
               !.owed = IF regex \/ "shift" \in @ THEN @ \cup {"filter"} ELSE @]

(* Mutant of NarrowerThan: one test for a longer text.                     *)
LongerThan(t, text) == Len(t.text) <= Len(text)

NarrowerThan(t, text) == Len(t.text) <= Len(text) /\ IsPrefix(t.text, text)

Filter(t, text, regex, force) ==
  IF text = <<>>
    THEN [t EXCEPT !.display = t.master, !.owed = @ \ {"filter"}]
    ELSE IF Len(t.display) = Len(t.master) \/ force \/ ~NarrowerThan(t, text)
    THEN FilterAnew(t, text, regex)
    ELSE FilterFurther(t, text, regex)

FilterColumns(t) ==
  LET Found(r) == FitsColumns(t, t.data[r].c)
  IN [t EXCEPT !.display = SelectSeq(@, Found)]

FilterComplete(t, text, regex, force) ==
  LET Named(u) == [u EXCEPT !.text = text, !.regex = regex]
      found == IF Remote(t) THEN Named(t) ELSE FilterColumns(Named(Filter(t, text, regex, force)))
      drawn == DrawTable(CalculateEnd([found EXCEPT !.start = 0, !.owed = @ \ {"start"}]))
  IN BuildSearch(drawn, drawn.display)

-----------------------------------------------------------------------------
(* The order: by the first column that tells two rows apart, else as they  *)
(* were.  A column holds its letter or nothing, and nothing comes first.   *)
Weight(sorting, c) ==
  FoldLeft(LAMBDA w, s : 2 * w + (IF (s[1] \in c) = (s[2] = "asc") THEN 1 ELSE 0), 0, sorting)

Sorted(t, indices) ==
  LET OfWeight(w) == LET Has(r) == Weight(t.sorting, t.data[r].c) = w
                     IN SelectSeq(indices, Has)
  IN FlattenSeq([n \in 1 .. 2 ^ Len(t.sorting) |-> OfWeight(n - 1)])

SortingClasses(t) == [t EXCEPT !.header = t.sorting]

Sort(t) ==
  LET ordered == SortingClasses(IF Remote(t) THEN t
                   ELSE [t EXCEPT !.master = Sorted(t, @), !.owed = @ \ {"sort"}])
  IN IF Filters(t) THEN FilterComplete(ordered, t.text, t.regex, TRUE)
     ELSE DrawTable(CalculateEnd([ordered EXCEPT !.display = ordered.master, !.start = 0,
                                                    !.owed = @ \ {"start"}]))

(* A click on a header: its column alone, ascending or turned; with shift, *)
(* one column among others: ascending, descending, out.  An entry is       *)
(* <<column, direction, whether it was the last direction>>; a script that *)
(* sorts by fnSort does not say the third, and nothing follows it.         *)
NextSorting(sorting, k, shift) ==
  LET at == {i \in DOMAIN sorting : sorting[i][1] = k}
      first == <<k, "asc", FALSE>>
  IN IF ~shift
     THEN IF Len(sorting) = 1 /\ at # {} /\ ~sorting[1][3] THEN <<<<k, "desc", TRUE>>>>
          ELSE <<first>>
     ELSE IF at = {} THEN Append(sorting, first)
     ELSE LET i == CHOOSE j \in at : \A l \in at : j <= l
          IN IF sorting[i][3] THEN RemoveAt(sorting, i)
             ELSE [sorting EXCEPT ![i] = <<k, "desc", TRUE>>]

ReDraw(t) == Sort(t)      \* bSort is set in every configuration

-----------------------------------------------------------------------------
(* Pages.                                                                  *)
PageChange(t, action) ==
  LET n == RecordsDisplay(t)
      last == IF n = 0 THEN 0 ELSE ((n - 1) \div t.length) * t.length
      start == CASE action = "first" -> 0
                 [] action = "previous" -> IF t.start < t.length THEN 0 ELSE t.start - t.length
                 [] action = "next" -> IF t.start + t.length < n THEN t.start + t.length ELSE t.start
                 [] action = "last" -> last
  IN [t EXCEPT !.start = start]

PageNumber(t, n) ==
  [t EXCEPT !.start = IF n * t.length > RecordsDisplay(t) THEN 0 ELSE n * t.length,
            !.owed = IF n * t.length = RecordsDisplay(t) THEN @ \cup {"start"} ELSE @]

LengthChange(t, l) ==
  LET u == CalculateEnd([t EXCEPT !.length = l])
      start == IF DisplayEnd(u) # RecordsDisplay(u) THEN u.start
               ELSE IF DisplayEnd(u) < l THEN 0 ELSE DisplayEnd(u) - l
  IN DrawTable([u EXCEPT !.start = start])

-----------------------------------------------------------------------------
(* Rows.  A row is known to the page by its element: id.                   *)
FreshId(t) ==
  LET used == t.opened \cup Range(t.drawn) \cup {t.data[i].id : i \in DOMAIN t.data}
  IN CHOOSE n \in 1 .. Cardinality(used) + 1 : n \notin used

AddRow(t, c) ==
  [t EXCEPT !.data = Append(@, [id |-> FreshId(t), c |-> c]),
            !.master = Append(@, Len(t.data) + 1)]

(* An index leaves a list and those above it move down.                    *)
DeleteIndex(indices, i) ==
  LET others == SelectSeq(indices, LAMBDA j : j # i)
  IN [n \in DOMAIN others |-> IF others[n] > i THEN others[n] - 1 ELSE others[n]]

ClearTable(t) ==
  CalculateEnd([t EXCEPT !.data = <<>>, !.master = <<>>, !.display = <<>>,
                         !.owed = @ \cup {"draw"} \cup (IF t.start = 0 THEN {} ELSE {"start"})])

(* The calls of a script.  With redraw unset, what they leave undone is    *)
(* owed until somebody draws, sorts or searches.                           *)
Owing(t, redraw, what) == IF redraw THEN t ELSE [t EXCEPT !.owed = @ \cup what]

FnAddData(t, c, redraw) ==
  LET u == AddRow(t, c)
      v == Owing([u EXCEPT !.display = u.master], redraw, {"draw", "end", "filter", "sort"})
  IN IF redraw THEN ReDraw(v) ELSE v

FnClearTable(t, redraw) == IF redraw THEN DrawTable(ClearTable(t)) ELSE ClearTable(t)

(* $.inArray gives -1 for a row the search hides, and splice(-1, 1) drops  *)
(* the last text, which belongs to another row.                            *)
SearchWithout(t, i) ==
  LET at == {n \in DOMAIN t.display : t.display[n] = i}
      n == IF at = {} THEN Len(t.search) ELSE CHOOSE m \in at : TRUE
  IN IF n \in DOMAIN t.search THEN RemoveAt(t.search, n) ELSE t.search

FnDeleteRow(t, i, redraw) ==
  LET display == DeleteIndex(t.display, i)
      start == IF t.start < Len(display) THEN t.start
               ELSE IF t.start < t.length THEN 0 ELSE t.start - t.length
      u == [t EXCEPT !.data = RemoveAt(@, i),
                     !.search = SearchWithout(t, i),
                     !.master = DeleteIndex(@, i),
                     !.display = display,
                     !.start = start,
                     !.owed = IF i \in Range(t.display) THEN @ ELSE @ \cup {"shift"}]
  IN IF redraw THEN DrawTable(CalculateEnd(u)) ELSE Owing(u, redraw, {"draw", "end"})

(* The text of a row on display is written at its place in the array.      *)
SearchWith(t, i, c) ==
  LET at == {n \in DOMAIN t.display : t.display[n] = i}
  IN IF at = {} THEN t.search
     ELSE LET n == CHOOSE m \in at : TRUE
          IN [m \in 1 .. (IF n > Len(t.search) THEN n ELSE Len(t.search)) |->
                IF m = n THEN c ELSE IF m \in DOMAIN t.search THEN t.search[m] ELSE {}]

FnUpdate(t, i, c, redraw) ==
  LET u == Owing([t EXCEPT !.data[i].c = c, !.search = SearchWith(t, i, c)],
                 redraw, {"draw", "filter", "sort"})
  IN IF redraw THEN ReDraw(u) ELSE u

FnDraw(t, complete) == IF complete THEN ReDraw(t) ELSE DrawTable(CalculateEnd(t))

FnFilter(t, text, regex) == FilterComplete(t, text, regex, TRUE)

FnFilterColumn(t, k, wanted) ==
  FilterComplete([t EXCEPT !.colText = IF wanted THEN @ \cup {k} ELSE @ \ {k}],
                 t.text, t.regex, TRUE)

FnSort(t, k, dir) == Sort([t EXCEPT !.sorting = <<<<k, dir, TRUE>>>>])

FnPageChange(t, n, redraw) ==
  LET u == Owing(CalculateEnd(PageNumber(t, n)), redraw, {"draw"})
  IN IF redraw THEN DrawTable(u) ELSE u

(* Draws without computing the end anew.                                   *)
FnSetColumnVis(t, k) ==
  LET u == DrawTable([t EXCEPT !.hidden = IF k \in @ THEN @ \ {k} ELSE @ \cup {k}])
  IN IF Throws(InitStart(t)) THEN u ELSE SaveState(u)

(* A row of details below a row; it goes where its row goes.               *)
FnOpen(t, r) ==
  [t EXCEPT !.opened = @ \cup {r}, !.below = IF r \in Range(t.drawn) THEN @ \cup {r} ELSE @]
FnClose(t, r) == [t EXCEPT !.opened = @ \ {r}, !.below = @ \ {r}]

-----------------------------------------------------------------------------
(* The rows found in the table when the page is ready.                     *)
GatherData(rows) == [i \in DOMAIN rows |-> [id |-> i, c |-> rows[i]]]

(* A table just made, before its first draw.                               *)
Fresh(config, rows) ==
  LET own == IF config = "server" THEN <<>> ELSE rows
      indices == [i \in DOMAIN own |-> i]
  IN [config |-> config, steps |-> 0,
      data |-> GatherData(own),
      master |-> indices, display |-> indices, search |-> <<>>,
      text |-> <<>>, regex |-> FALSE, colText |-> {},
      sorting |-> <<<<1, "asc", FALSE>>>>, header |-> <<>>,
      start |-> 0, end |-> 0, length |-> CHOOSE l \in Lengths : \A m \in Lengths : l <= m,
      initStart |-> 0, hidden |-> {}, opened |-> {},
      drawn |-> <<>>, below |-> {}, cookie |-> {},
      info |-> [start |-> 0, end |-> 0, of |-> 0, all |-> 0, length |-> 1],
      owed |-> {},                                        \* history: what calls left undone
      theirs |-> IF config = "server" THEN rows ELSE <<>>,   \* the rows of the server
      draws |-> 0, asks |-> {}, answered |-> {}, total |-> 0, found |-> 0]

LoadState(t, s) ==
  [t EXCEPT !.start = s.start, !.initStart = s.start, !.length = s.length,
            !.sorting = [i \in DOMAIN s.sorting |->
                           <<s.sorting[i][1], s.sorting[i][2], s.sorting[i][2] = "desc">>],
            !.text = s.text, !.regex = s.regex, !.colText = s.colText, !.hidden = s.hidden,
            !.cookie = {s}]

Initialise(t) == Sort(t)

TableInit == \E config \in Configurations : grid = Initialise(Fresh(config, FirstRows))

TableStep(t) ==
  /\ grid.steps < MaxTableSteps
  /\ grid' = [t EXCEPT !.steps = grid.steps + 1]

(* What a user does.                                                       *)
Types(text) ==
  /\ Filters(grid) /\ text # grid.text
  /\ TableStep(FilterComplete(grid, text, grid.regex, FALSE))

ClicksHeader(k, shift) ==
  TableStep(Sort([grid EXCEPT !.sorting = NextSorting(grid.sorting, k, shift)]))

ButtonsOf(config) ==
  {"previous", "next"} \cup (IF config = "one" THEN {} ELSE {"first", "last"})

ClicksButton(action) ==
  /\ action \in ButtonsOf(grid.config)
  /\ PageChange(grid, action).start # grid.start
  /\ TableStep(DrawTable(CalculateEnd(PageChange(grid, action))))

ClicksNumber(n) ==
  /\ grid.config # "one" /\ n < Ceiling(grid.info.of, grid.info.length)
  /\ TableStep(DrawTable(CalculateEnd(PageNumber(grid, n))))

ChoosesLength(l) ==
  /\ grid.config # "one" /\ l # grid.length
  /\ TableStep(LengthChange(grid, l))

(* What a script calls, of tables as script.js makes them.                 *)
Scripted == grid.config \in {"one", "two"}

ChangesRows(redraw) ==
  /\ Scripted
  /\ \/ \E c \in NewRows : TableStep(FnAddData(grid, c, redraw))
     \/ \E i \in DOMAIN grid.data : TableStep(FnDeleteRow(grid, i, redraw))
     \/ \E i \in DOMAIN grid.data : \E c \in NewRows \ {grid.data[i].c} :
          TableStep(FnUpdate(grid, i, c, redraw))
     \/ TableStep(FnClearTable(grid, redraw))

AsksFor ==
  /\ Scripted
  /\ \/ \E text \in SearchTexts, regex \in BOOLEAN :
          Filters(grid) /\ TableStep(FnFilter(grid, text, regex))
     \/ \E k \in Columns, wanted \in BOOLEAN :
          Filters(grid) /\ TableStep(FnFilterColumn(grid, k, wanted))
     \/ \E k \in Columns, dir \in {"asc", "desc"} : TableStep(FnSort(grid, k, dir))
     \/ \E n \in 0 .. 3, redraw \in BOOLEAN : TableStep(FnPageChange(grid, n, redraw))
     \/ \E k \in Columns : TableStep(FnSetColumnVis(grid, k))
     \/ \E complete \in BOOLEAN : TableStep(FnDraw(grid, complete))

Details ==
  /\ Scripted
  /\ \/ \E i \in DOMAIN grid.data : TableStep(FnOpen(grid, grid.data[i].id))
     \/ \E r \in grid.opened : TableStep(FnClose(grid, r))

(* The page is loaded again, with its rows or fewer.                       *)
Reloads ==
  \E s \in grid.cookie, n \in {1, Len(FirstRows)} :
    TableStep(Initialise(LoadState(Fresh("saved", SubSeq(FirstRows, 1, n)), s)))

(* TheyAnswer, in any order or never, and rows the server loses.              *)
TheirPage(a) ==
  LET found == SelectSeq(grid.theirs, LAMBDA c : Fits(a.text, a.regex, c) /\ FitsColumns(a, c))
      last == IF a.start + a.length < Len(found) THEN a.start + a.length ELSE Len(found)
  IN [all |-> Len(found), rows |-> SubSeq(found, a.start + 1, last)]

Accepts(t, a) == a.echo >= t.draws

AjaxUpdateDraw(t, a) ==
  LET rows == TheirPage(a).rows
      indices == [i \in DOMAIN rows |-> i]
  IN IF ~Accepts(t, a) THEN t
     ELSE Paint(CalculateEnd(
            [t EXCEPT !.draws = a.echo, !.answered = {a},
                      !.data = GatherData(rows),
                      !.master = indices, !.display = indices,
                      !.total = Len(t.theirs), !.found = TheirPage(a).all]))

TheyAnswer == \E a \in grid.asks : grid' = [AjaxUpdateDraw(grid, a) EXCEPT !.asks = @ \ {a}]
TheyFail == \E a \in grid.asks : grid' = [grid EXCEPT !.asks = @ \ {a}]
TheirsShrink == grid.theirs # <<>> /\ TableStep([grid EXCEPT !.theirs = Front(@)])

TableNext ==
  \/ \E text \in SearchTexts : Types(text)
  \/ \E k \in Columns, shift \in BOOLEAN : ClicksHeader(k, shift)
  \/ \E action \in {"first", "previous", "next", "last"} : ClicksButton(action)
  \/ \E n \in 0 .. 3 : ClicksNumber(n)
  \/ \E l \in Lengths : ChoosesLength(l)
  \/ \E redraw \in BOOLEAN : ChangesRows(redraw)
  \/ AsksFor \/ Details \/ Reloads
  \/ TheyAnswer \/ TheyFail \/ TheirsShrink

-----------------------------------------------------------------------------
(* The rows on display are those that fit the search, in the order asked   *)
(* for, unless a call that did not redraw left that to be done, or the     *)
(* display was narrowed where it could not be: by the text of a regular    *)
(* expression typed on, or by an array of search texts that lost a wrong   *)
(* one when a row the search hides was deleted.                            *)
DisplayRight ==
  LET Wanted(r) == Fits(grid.text, grid.regex, grid.data[r].c) /\ FitsColumns(grid, grid.data[r].c)
  IN /\ "filter" \in grid.owed \/ grid.display = SelectSeq(grid.master, Wanted)
     /\ "sort" \in grid.owed \/ grid.master = Sorted(grid, grid.master)
     /\ grid.header = grid.sorting

(* The page in the table is the page of that display the line below it     *)
(* tells of; it is empty only when nothing is found, or after a script     *)
(* emptied the table on a later page or turned to the page after the last. *)
PageRight ==
  LET i == grid.info
  IN {"draw", "end"} \cap grid.owed # {}
       \/ /\ i = Info(grid)
          /\ grid.drawn = [n \in 1 .. i.end - i.start |-> grid.data[grid.display[i.start + n]].id]
          /\ i.end > i.start \/ i.of = 0 \/ "start" \in grid.owed
          /\ grid.below = grid.opened \cap Range(grid.drawn)

(* The button for the next page looks off exactly on the last page, but    *)
(* for pages a change of length left to begin in the middle of one.        *)
ButtonsRight ==
  LET i == grid.info
  IN i.start % i.length = 0 /\ i.start < i.of /\ {"draw", "end"} \cap grid.owed = {}
       => (NextLooksOff(grid.config, i) <=> i.end = i.of)

(* What the last answer shows is what the last request asked for, and that *)
(* is what the user sees in the fields: older answers never replace it.    *)
AnswersLast ==
  \A a \in grid.answered :
    /\ a.echo <= grid.draws
    /\ a.echo = grid.draws /\ grid.owed = {} =>
         /\ a.text = grid.text /\ a.start = grid.start /\ a.length = grid.length
         /\ a.sorting = grid.sorting

TableTruthful ==
  /\ IF Remote(grid) THEN AnswersLast ELSE DisplayRight /\ PageRight
  /\ ButtonsRight
=============================================================================
