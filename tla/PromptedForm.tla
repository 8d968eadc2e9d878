------------------------------ MODULE PromptedForm ------------------------------
(***************************************************************************)
(* A form under jquery.validationEngine.js, as script.js attaches it:      *)
(* fields checked a moment after they are left and when the form is        *)
(* submitted, prompts that fade away, and a rule that asks a server.       *)
(*                                                                         *)
(* A value is a sequence of letters, 0 being a space.  A date is one       *)
(* letter: its day, or -1 for no date at all.  The value of a group of     *)
(* boxes is the sequence of those that are ticked.                         *)
(***************************************************************************)
EXTENDS Integers, Sequences, FiniteSets, SequencesExt

CONSTANTS
  EngineForms,        \* [fields, boxes, rules, entries]; a rule is [kind, arg]
  Vacant,             \* the values the server accepts
  MaxEngineSteps      \* bound: what user and scripts do

VARIABLE eng
engineVars == <<eng>>

NoPrompt == [type |-> "none", of |-> {}]
FieldSet(s) == Range(s.form.fields)
RulesOfField(s, f) == Range(s.form.rules[f])
HasRule(s, f, kind) == \E r \in RulesOfField(s, f) : r.kind = kind

EngineInit ==
  \E k \in EngineForms :
  LET fs == Range(k.fields)
  IN eng = [form |-> k, value |-> [f \in fs |-> <<>>], prompt |-> [f \in fs |-> NoPrompt],
            fading |-> {}, cache |-> [f \in fs |-> "unknown"], trigger |-> "none", isError |-> FALSE,
            timers |-> {}, asked |-> <<>>, attached |-> TRUE, sent |-> FALSE, steps |-> 0,
            \* history: see EngineTruthful
            fresh |-> {}, unleft |-> {}, revived |-> {}, lost |-> {}, failed |-> {}, crossed |-> {},
            told |-> [f \in fs |-> <<-1>>]]

-----------------------------------------------------------------------------
Unfit(v) == \A i \in DOMAIN v : v[i] = 0                        \* _required
IsDate(v) == Len(v) = 1 /\ v[1] > 0
GroupOf(s, g) ==
  SelectSeq(s.form.fields, LAMBDA f : \E r \in RulesOfField(s, f) :
                                        r.kind \in {"groupRequired", "dateRange"} /\ r.arg = g)

(* The rules that need nothing but values.                                 *)
Differs(s, f, other) == s.value[f] # s.value[other]                \* _equals
GroupUnfit(s, g) == \A f \in Range(GroupOf(s, g)) : Unfit(s.value[f])
TooLong(s, f, max) == Len(s.value[f]) > max
TooShort(s, f, min) == Len(s.value[f]) < min
TooManyTicked(s, f, max) == Len(s.value[f]) > max
TooFewTicked(s, f, min) == Len(s.value[f]) < min
IsBefore(s, f, other) ==                                           \* _future
  IsDate(s.value[f]) /\ IsDate(s.value[other]) /\ s.value[f][1] < s.value[other][1]
WrongRange(s, g) ==                                                \* _dateRange
  LET of == GroupOf(s, g)
  IN /\ \E f \in Range(of) : s.value[f] # <<>>
     /\ ~(\A f \in Range(of) : IsDate(s.value[f])) \/ s.value[of[1]][1] >= s.value[of[2]][1]
NeededFor(s, f, other) == ~Unfit(s.value[other]) /\ Unfit(s.value[f])  \* _condRequired

BreaksRule(s, f, r) ==
  CASE r.kind = "required" -> Unfit(s.value[f])
    [] r.kind = "groupRequired" -> GroupUnfit(s, r.arg)
    [] r.kind = "minSize" -> TooShort(s, f, r.arg)
    [] r.kind = "maxSize" -> TooLong(s, f, r.arg)
    [] r.kind = "equals" -> Differs(s, f, r.arg)
    [] r.kind = "condRequired" -> NeededFor(s, f, r.arg)
    [] r.kind = "future" -> IsBefore(s, f, r.arg)
    [] r.kind = "dateRange" -> WrongRange(s, r.arg)
    [] r.kind = "minCheckbox" -> TooFewTicked(s, f, r.arg)
    [] r.kind = "maxCheckbox" -> TooManyTicked(s, f, r.arg)
    [] OTHER -> FALSE

(* These make an empty field wrong.                                        *)
Requires(s, f, r) ==
  r.kind = "required" \/ (r.kind \in {"condRequired", "groupRequired", "dateRange"} /\ BreaksRule(s, f, r))

ShowPrompt(s, f, type, of) ==
  [s EXCEPT !.prompt[f] = [type |-> type, of |-> of],
            !.revived = IF f \in s.fading THEN @ \cup {f} ELSE @,
            !.lost = @ \ {f}]
ClosePrompt(s, f) ==
  IF s.prompt[f].type = "none" THEN s ELSE [s EXCEPT !.fading = @ \cup {f}, !.revived = @ \ {f}]

(* _ajax: the message "loading" counts as an error.                        *)
AskServer(s, f) ==
  LET d == IF s.trigger = "field" THEN [s EXCEPT !.cache[f] = "unknown"] ELSE s
      other == \E j \in DOMAIN s.asked : s.asked[j].field = f /\ s.asked[j].value # s.value[f]
  IN IF d.isError \/ d.cache[f] = "yes" THEN d
     ELSE [d EXCEPT !.asked = Append(@, [field |-> f, value |-> s.value[f]]), !.isError = TRUE,
                    !.crossed = IF other THEN @ \cup {f} ELSE @]

(* One rule; a member of a group checks the first one before itself, with  *)
(* the one flag isError for both.                                          *)
RECURSIVE ValidateField(_, _)
ValidateRule(a, f, r) ==
  LET s == a.s
      asks == AskServer(s, f)
  IN IF r.kind = "groupRequired" /\ GroupOf(s, r.arg)[1] # f
       THEN [a EXCEPT !.s = ValidateField(s, GroupOf(s, r.arg)[1])]
     ELSE IF r.kind = "ajax"
       THEN [a EXCEPT !.s = asks, !.type = IF asks.asked = s.asked THEN @ ELSE "load",
                      !.of = IF asks.asked = s.asked THEN @ ELSE @ \cup {"ajax"}]
     ELSE [a EXCEPT !.required = @ \/ Requires(s, f, r),
                    !.s.isError = @ \/ BreaksRule(s, f, r),
                    !.of = IF BreaksRule(s, f, r) THEN @ \cup {r.kind} ELSE @]
ValidateField(s, f) ==
  LET a == FoldLeft(LAMBDA b, r : ValidateRule(b, f, r),
                    [s |-> [s EXCEPT !.isError = FALSE], of |-> {}, type |-> "error", required |-> FALSE],
                    s.form.rules[f])
      wrong == a.s.isError /\ (a.required \/ s.value[f] # <<>> \/ f \in s.form.boxes)
      d == [a.s EXCEPT !.isError = wrong, !.fresh = @ \cup {f}, !.failed = @ \ {f}]
  IN IF wrong THEN ShowPrompt(d, f, a.type, a.of) ELSE [ClosePrompt(d, f) EXCEPT !.lost = @ \ {f}]

ValidateFields(s) ==
  FoldLeft(LAMBDA a, f : LET d == ValidateField(a.s, f) IN [s |-> d, wrong |-> a.wrong \/ d.isError],
           [s |-> s, wrong |-> FALSE], s.form.fields)

(* After detach the handler of "submit" is still bound; it throws, and     *)
(* the browser sends the form.                                             *)
SubmitEvent(s) ==
  LET a == ValidateFields([s EXCEPT !.trigger = "submit"])
  IN IF ~s.attached THEN [s EXCEPT !.sent = TRUE]
     ELSE [a.s EXCEPT !.sent = ~a.wrong]

-----------------------------------------------------------------------------
EngineStep(s) ==
  /\ ~eng.sent /\ eng.steps < MaxEngineSteps
  /\ eng' = [s EXCEPT !.steps = @ + 1]

(* The fields whose verdict depends on f.                                  *)
ReadersOf(s, f) ==
  {g \in FieldSet(s) : g = f \/ \E r \in RulesOfField(s, g) :
     \/ r.kind \in {"equals", "condRequired", "future"} /\ r.arg = f
     \/ r.kind \in {"groupRequired", "dateRange"} /\ f \in Range(GroupOf(s, r.arg))}

EntersValue(f, v) ==
  /\ v # eng.value[f]
  /\ EngineStep([eng EXCEPT !.value[f] = v, !.fresh = @ \ ReadersOf(eng, f), !.unleft = @ \cup {f}])
(* onFieldEvent: the check waits for a time-out.                           *)
LeavesEntry(f) ==
  /\ eng.attached /\ f \notin eng.timers
  /\ EngineStep([eng EXCEPT !.trigger = "field", !.timers = @ \cup {f}])
SubmitsEntries == EngineStep(SubmitEvent(eng))
ClicksPrompt(f) ==
  /\ eng.prompt[f].type # "none"
  /\ EngineStep([ClosePrompt(eng, f) EXCEPT !.lost = @ \cup {f}])
HidesAll ==
  /\ \E f \in FieldSet(eng) : eng.prompt[f].type # "none"
  /\ EngineStep([FoldLeft(ClosePrompt, eng, eng.form.fields) EXCEPT !.lost = FieldSet(eng)])
Detaches == eng.attached /\ EngineStep([eng EXCEPT !.attached = FALSE])

CheckIsDue(f) ==
  /\ f \in eng.timers /\ ~eng.sent
  /\ LET d == ValidateField(eng, f)
     IN eng' = [d EXCEPT !.timers = @ \ {f}, !.unleft = IF eng.trigger = "field" THEN @ \ {f} ELSE @]

PromptFaded(f) ==
  /\ f \in eng.fading /\ ~eng.sent
  /\ eng' = [eng EXCEPT !.prompt[f] = NoPrompt, !.fading = @ \ {f}, !.revived = @ \ {f},
                        !.lost = IF f \in eng.revived THEN @ \cup {f} ELSE @]

(* The server answers, says something of a value it accepts, or nothing.   *)
EngineAnswered(j) ==
  LET q == eng.asked[j]
      f == q.field
      d == [eng EXCEPT !.asked = RemoveAt(@, j), !.fresh = IF q.value = eng.value[f] THEN @ ELSE @ \ {f}]
      yes == [d EXCEPT !.cache[f] = "yes", !.told[f] = q.value]
      says == \E r \in RulesOfField(eng, f) : r.kind = "ajax" /\ r.arg = "says"
      done == IF says THEN ShowPrompt(yes, f, "pass", {}) ELSE ClosePrompt(yes, f)
  IN /\ ~eng.sent
     /\ eng' = IF q.value \notin Vacant
                 THEN ShowPrompt([d EXCEPT !.cache[f] = "no", !.isError = TRUE], f, "error", {"ajax"})
               ELSE IF eng.trigger = "submit" THEN SubmitEvent(done)
               ELSE done
EngineUnanswered(j) ==
  /\ ~eng.sent
  /\ eng' = [eng EXCEPT !.asked = RemoveAt(@, j), !.failed = @ \cup {eng.asked[j].field}]

EngineNext ==
  \/ \E f \in FieldSet(eng) :
       \/ \E v \in eng.form.entries : EntersValue(f, v)
       \/ LeavesEntry(f) \/ ClicksPrompt(f) \/ CheckIsDue(f) \/ PromptFaded(f)
  \/ SubmitsEntries \/ HidesAll \/ Detaches
  \/ \E j \in DOMAIN eng.asked : EngineAnswered(j) \/ EngineUnanswered(j)

-----------------------------------------------------------------------------
EngineQuiet(s) == s.timers = {} /\ s.fading = {} /\ s.asked = <<>>
LaterMember(s, f) == \E r \in RulesOfField(s, f) : r.kind = "groupRequired" /\ GroupOf(s, r.arg)[1] # f

(* What is wrong with a field.                                             *)
Faults(s, f) ==
  LET broken == {r.kind : r \in {q \in RulesOfField(s, f) : BreaksRule(s, f, q)}}
      needed == \E r \in RulesOfField(s, f) : Requires(s, f, r)
      asked == HasRule(s, f, "ajax") /\ s.value[f] \notin Vacant
  IN (IF needed \/ s.value[f] # <<>> \/ f \in s.form.boxes THEN broken ELSE {})
       \cup (IF asked /\ (broken = {} \/ (~needed /\ s.value[f] = <<>>)) THEN {"ajax"} ELSE {})

(* Once time-outs, fades and answers have come, the prompt of a field that *)
(* was checked with the values of now says what is wrong with it, unless   *)
(* it was taken away or came while its forerunner was fading.  A form is   *)
(* sent only when every rule is kept, the server having accepted the very  *)
(* value sent, unless it was changed and the field not left since, or two  *)
(* answers for it crossed.  A member of a group that is not its first is   *)
(* judged by the first one's other rules too, or no longer by its own; its *)
(* prompt still names nothing that is right.                               *)
EngineTruthful ==
  LET s == eng
      unsure == s.unleft \cup s.crossed
  IN /\ \A f \in FieldSet(s) :
          LET p == s.prompt[f]
              doubtful == IF HasRule(s, f, "ajax") THEN unsure ELSE {}
              known == f \in s.fresh \ (s.lost \cup s.failed \cup doubtful)
          IN EngineQuiet(s) /\ known =>
               /\ p.of \subseteq Faults(s, f)
               /\ ~LaterMember(s, f) =>
                    p.of = Faults(s, f) /\ (p.type = "error" <=> Faults(s, f) # {})
     /\ s.sent /\ s.attached =>
          \A f \in FieldSet(s) :
            /\ LaterMember(s, f) \/ Faults(s, f) \subseteq {"ajax"}
            /\ HasRule(s, f, "ajax") =>
                 s.told[f] = s.value[f] \/ f \in unsure
                   \/ (s.value[f] = <<>> /\ ~HasRule(s, f, "required"))
=============================================================================
