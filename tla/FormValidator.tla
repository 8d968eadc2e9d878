---------------------------- MODULE FormValidator ----------------------------
(***************************************************************************)
(* The checking of a form of text fields by jquery.validate.js: which      *)
(* field is checked at which event, the message beside it, its class, the  *)
(* rule that asks a server, and the submission that waits for the answer.  *)
(* The page is gone once the form is sent.                                 *)
(***************************************************************************)
EXTENDS Naturals, Sequences, FiniteSets, SequencesExt

CONSTANTS
  FormFields,         \* in the order of the form: a sequence
  RulesOf,            \* the rules of a field in their order, "required" first
  Target,             \* the field that "equalTo" compares with
  Keyable, Unfilled,      \* what may be typed, and nothing
  Prefilled,          \* what the fields may hold when the page comes
  PassesRule,         \* which inputs pass a rule that needs no other field
  TakenByServer,           \* inputs the server takes
  NoField, NoRule,
  MaxFormSteps        \* bound: events

ASSUME Unfilled \in Keyable

VARIABLE vform
vformVars == <<vform>>

Checked == Range(FormFields)

VInit ==
  \E v \in Prefilled :
  vform = [value |-> [f \in Checked |-> v],
           marked |-> {},                              \* class "error"
           label |-> [f \in Checked |-> NoRule],       \* the rule of the message, once there
           shown |-> {},                               \* messages displayed
           submitted |-> {}, invalid |-> {}, errors |-> <<>>,
           toHide |-> {}, toShow |-> {}, current |-> {},
           lastElement |-> NoField, lastActive |-> NoField, focused |-> NoField,
           bound |-> FALSE,                            \* equalTo listens to its target
           pending |-> {}, requests |-> 0, waits |-> FALSE,      \* formSubmitted
           old |-> [f \in Checked |-> NoField], wasValid |-> [f \in Checked |-> TRUE],
           flying |-> [f \in Checked |-> NoField],     \* input the server was asked for
           sent |-> "no", steps |-> 0,
           seen |-> [f \in Checked |-> <<>>],       \* history: inputs at the last check
           unlit |-> FALSE, refused |-> FALSE]         \* see ValidatorTruthful

-----------------------------------------------------------------------------
(* What a method says of a field.                                          *)
Verdict(s, f, rule) ==
  LET v == s.value[f]
      Says(ok) == IF ok THEN "yes" ELSE "no"
  IN IF rule = "required" THEN Says(v # Unfilled)
     ELSE IF rule = "equalTo" THEN Says(v = s.value[Target])
     ELSE IF v = Unfilled THEN "mismatch"
     ELSE IF rule # "remote" THEN Says(v \in PassesRule[rule])
     ELSE IF f \in s.pending \/ s.old[f] # v THEN "pending"
     ELSE Says(s.wasValid[f])

StartRequest(s, f) ==
  IF f \in s.pending THEN s
  ELSE [s EXCEPT !.pending = @ \cup {f}, !.requests = @ + 1, !.old[f] = s.value[f], !.flying[f] = s.value[f]]

(* The first method that says no or asks, and what the check returns.      *)
StopOf(s, f) == SelectInSeq(RulesOf[f], LAMBDA r : Verdict(s, f, r) \in {"no", "pending"})
Succeeds(s, f) == StopOf(s, f) = 0 /\ (RulesOf[f] = <<>> \/ Verdict(s, f, Last(RulesOf[f])) = "yes")

CheckOne(s, f) ==
  LET stop == StopOf(s, f)
      rule == RulesOf[f][stop]
      d == [s EXCEPT !.seen[f] = <<s.value[f], s.value[Target]>>,
                     !.bound = @ \/ \E i \in DOMAIN RulesOf[f] : RulesOf[f][i] = "equalTo" /\ (stop = 0 \/ i <= stop)]
  IN IF stop = 0 THEN d
     ELSE IF Verdict(s, f, rule) = "pending" THEN StartRequest([d EXCEPT !.toHide = @ \ {f}], f)
     ELSE [d EXCEPT !.errors = Append(@, [field |-> f, rule |-> rule]), !.submitted = @ \cup {f}]

Wrong(s) == {s.errors[i].field : i \in DOMAIN s.errors}
WithLabel(s) == {f \in Checked : s.label[f] # NoRule}

ShowErrors(s) ==
  LET wrongs == Wrong(s)
      shows == s.toShow \cup wrongs
      hides == s.toHide \ shows
  IN [s EXCEPT !.marked = (@ \cup wrongs) \ (s.current \ wrongs),
               !.label = [f \in Checked |->
                            IF f \in wrongs THEN s.errors[CHOOSE i \in DOMAIN s.errors : s.errors[i].field = f].rule ELSE @[f]],
               !.toShow = shows, !.toHide = hides, !.shown = (@ \ hides) \cup shows]

Prepared(s, labels) == [s EXCEPT !.errors = <<>>, !.toShow = {}, !.current = {}, !.toHide = labels]

CheckElement(s, f) ==
  LET d == CheckOne([Prepared(s, {f} \cap WithLabel(s)) EXCEPT !.lastElement = f, !.current = {f}], f)
  IN ShowErrors([d EXCEPT !.invalid = IF Succeeds(s, f) THEN @ \ {f} ELSE @ \cup {f}])

CheckForm(s) ==
  LET d == FoldLeft(CheckOne, [Prepared(s, WithLabel(s)) EXCEPT !.current = Checked], FormFields)
  IN ShowErrors([d EXCEPT !.invalid = Wrong(d)])

-----------------------------------------------------------------------------
FocusOut(s) ==
  LET f == s.focused
      d == IF f \in s.submitted \/ s.value[f] # Unfilled THEN CheckElement(s, f) ELSE s
      confirms == {g \in Checked : "equalTo" \in Range(RulesOf[g])}
      e == IF d.bound /\ f = Target THEN FoldLeft(CheckElement, d, SetToSeq(confirms)) ELSE d
  IN IF f = NoField THEN s ELSE [e EXCEPT !.focused = NoField]

FocusOn(s, f) == [(IF s.focused = f THEN s ELSE FocusOut(s)) EXCEPT !.focused = f, !.lastActive = f]

FocusInvalid(s) ==
  FocusOn(s, IF s.lastActive \in Wrong(s) THEN s.lastActive ELSE s.errors[1].field)

(* The handler of "submit".                                                *)
SubmitForm(s) ==
  LET d == CheckForm(s)
  IN IF d.errors # <<>> THEN FocusInvalid(d)
     ELSE IF d.requests > 0 THEN [d EXCEPT !.waits = TRUE]
     ELSE [d EXCEPT !.sent = "checked"]

StopRequest(s, f, valid) ==
  LET d == [s EXCEPT !.requests = IF @ = 0 THEN 0 ELSE @ - 1, !.pending = @ \ {f}]
      e == CheckForm(d)
  IN IF d.requests # 0 \/ ~d.waits THEN d
     ELSE IF ~valid THEN [d EXCEPT !.waits = FALSE]
     ELSE IF e.errors = <<>> THEN [SubmitForm(e) EXCEPT !.waits = FALSE]
     ELSE [e EXCEPT !.refused = TRUE]

-----------------------------------------------------------------------------
FormStep(s) ==
  /\ vform.sent = "no" /\ vform.steps < MaxFormSteps
  /\ vform' = [s EXCEPT !.steps = @ + 1]

Enters(f) == vform.focused # f /\ FormStep(FocusOn(vform, f))
Leaves == vform.focused # NoField /\ FormStep(FocusOut(vform))

(* A key, and what onkeyup does.                                           *)
TypesInput(v) ==
  LET f == vform.focused
      d == [vform EXCEPT !.value[f] = v]
  IN /\ f # NoField /\ v # vform.value[f]
     /\ FormStep(IF f \in d.submitted \/ f = d.lastElement THEN CheckElement(d, f) ELSE d)

Submits == FormStep(SubmitForm(vform))
SubmitsUnchecked == FormStep([vform EXCEPT !.sent = "unchecked"])     \* a button "cancel"

ResetsForm ==
  LET d == Prepared(vform, WithLabel(vform))
  IN FormStep([d EXCEPT !.submitted = {}, !.lastElement = NoField, !.shown = @ \ d.toHide, !.marked = {},
                        !.seen = [f \in Checked |-> <<>>]])

RemoteAnswers(f) ==
  LET valid == vform.flying[f] \in TakenByServer
      d == [vform EXCEPT !.flying[f] = NoField, !.wasValid[f] = valid,
                           !.seen[f] = <<vform.flying[f], vform.value[Target]>>]
      e == IF valid THEN ShowErrors(Prepared(d, {f} \cap WithLabel(d)))
           ELSE [ShowErrors([d EXCEPT !.errors = <<[field |-> f, rule |-> "remote"]>>])
                   EXCEPT !.unlit = @ \/ d.marked \cap (d.current \ {f}) # {}]
  IN /\ vform.sent = "no" /\ vform.flying[f] # NoField
     /\ vform' = StopRequest(e, f, valid)

(* Nothing handles the failure of a request.                               *)
RemoteFails(f) ==
  vform.flying[f] # NoField /\ FormStep([vform EXCEPT !.flying[f] = NoField])

VNext ==
  \/ \E f \in Checked : Enters(f) \/ RemoteAnswers(f) \/ RemoteFails(f)
  \/ Leaves \/ Submits \/ SubmitsUnchecked \/ ResetsForm
  \/ \E v \in Keyable : TypesInput(v)

-----------------------------------------------------------------------------
(* What is right for a field, whatever has been checked.                   *)
Breaks(s, f, rule) ==
  LET v == s.value[f]
  IN IF rule = "required" THEN v = Unfilled
     ELSE IF rule = "equalTo" THEN v # s.value[Target]
     ELSE v # Unfilled /\ v \notin (IF rule = "remote" THEN TakenByServer ELSE PassesRule[rule])
Broken(s, f) == SelectSeq(RulesOf[f], LAMBDA rule : Breaks(s, f, rule))

(* A form is sent only when every field is right, the server's rule        *)
(* included.  A field that has not changed since it was checked, nor its   *)
(* target, and whose answer has come, tells the first rule it breaks, or   *)
(* nothing, and looks accordingly, unless the refusal of another field has *)
(* put out its mark.  A form that waits to be sent waits for an answer,    *)
(* unless one came when another field was wrong: then it is sent later, at *)
(* an answer nobody waits for.                                             *)
ValidatorTruthful ==
  LET s == vform
  IN /\ s.sent = "checked" => \A f \in Checked : Broken(s, f) = <<>>
     /\ s.waits /\ ~s.refused => s.pending # {}
     /\ \A f \in Checked \ s.pending :
          s.seen[f] = <<s.value[f], s.value[Target]>> =>
             LET broken == Broken(s, f)
             IN /\ f \in s.shown <=> broken # <<>>
                /\ broken # <<>> => s.label[f] = broken[1]
                /\ s.unlit \/ (f \in s.marked <=> broken # <<>>)
=============================================================================
