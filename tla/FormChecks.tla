----------------------------- MODULE FormChecks ------------------------------
(***************************************************************************)
(* The checks of the fields, and the forms that ask for a password twice:  *)
(* common.js from line 408, the ends of userManage.js, roles.js,           *)
(* materialManage.js, mockDataManage.js and sysConfig.js, with the helpers *)
(* of util.js.                                                             *)
(*                                                                         *)
(* A check writes the trimmed text back, marks the field and tells why, or *)
(* takes the mark away.  It runs when a field changes or loses the focus,  *)
(* and a save runs some of them again.  The check of a confirmation looks  *)
(* at the password; the check of a password looks at the confirmation only *)
(* to take away a mark with a certain text.                                *)
(***************************************************************************)
EXTENDS Naturals

CONSTANTS
  MaxEntries            \* bound: what the user types and saves

VARIABLES
  form,         \* the form in front
  text,         \* what its fields hold
  wrong,        \* the fields with the class "wrong"
  told,         \* the message beside each confirmation
  leftAfter,    \* history: the confirmation was checked after the password
  submitted,    \* history: what saves have sent
  entries

checkVars == <<form, text, wrong, told, leftAfter, submitted, entries>>

-----------------------------------------------------------------------------
(* Texts.  Two of them are as every check wants them; "odd" breaks every   *)
(* pattern, "long" every limit and every pattern.                          *)
Texts == {"empty", "blank", "good", "good2", "odd", "long"}
Trim(t) == IF t = "blank" THEN "empty" ELSE t

Check(required, refuses) == [required |-> required, refuses |-> refuses]

UserNameCheck == Check(TRUE, {"odd", "long"})
OldPasswordCheck == Check(TRUE, {"odd", "long"})
NewPasswordCheck == Check(TRUE, {"odd", "long"})
UserPasswordCheck == Check(TRUE, {"odd", "long"})
TrueNameCheck == Check(TRUE, {})
UserMobileCheck == Check(FALSE, {"odd", "long"})
UserPhoneCheck == Check(FALSE, {"long"})
ChangeNoteCheck == Check(FALSE, {"long"})
UserNoteCheck == Check(FALSE, {"long"})
UserLockCheck == Check(TRUE, {})
UserRoleCheck == Check(TRUE, {})
RoleNameCheck == Check(TRUE, {"long"})
RoleNoteCheck == Check(FALSE, {"long"})
MaterialNameCheck == Check(TRUE, {"long"})
MaterialDescCheck == Check(FALSE, {"long"})
DataNameCheck == Check(TRUE, {"long"})
DataValueCheck == Check(TRUE, {"long"})
DataNoteCheck == Check(FALSE, {"long"})
LongValueCheck == Check(FALSE, {"odd"})

Refuses(c, t) == t \in c.refuses \/ (c.required /\ t = "empty")

(* The marks m after such a check of field f, which now holds t.           *)
Marked(m, f, c, t) == IF Refuses(c, t) THEN m \cup {f} ELSE m \ {f}

(* checkUserEmail, by the text before it was trimmed: a text that is not   *)
(* empty then is neither marked nor cleared, unless nothing is left of it. *)
MarkedEmail(m, f, t) ==
  CASE t = "empty" -> m \ {f}
    [] t = "blank" -> m \cup {f}
    [] OTHER -> m

-----------------------------------------------------------------------------
(* The forms.  checks: the fields with a check of the common kind; again:  *)
(* the fields the save checks again; tests: those whose mark refuses it.   *)
(* A password is "pass" and its confirmation "confirm"; e-mail addresses   *)
(* are "email".                                                            *)
Form(checks, again, tests) == [checks |-> checks, again |-> again, tests |-> tests]

OwnInfo ==
  Form([name |-> UserNameCheck, trueName |-> TrueNameCheck, mobile |-> UserMobileCheck,
        phone |-> UserPhoneCheck, note |-> ChangeNoteCheck],
       {"name", "email", "trueName", "mobile"},
       {"name", "email", "trueName", "mobile", "phone", "note"})
OwnPassword ==
  Form([old |-> OldPasswordCheck], {"old", "pass", "confirm"}, {"old", "pass", "confirm"})
NewUser ==
  Form([name |-> UserNameCheck, trueName |-> TrueNameCheck, lock |-> UserLockCheck,
        role |-> UserRoleCheck, mobile |-> UserMobileCheck, phone |-> UserPhoneCheck,
        note |-> UserNoteCheck],
       {"name", "trueName", "pass", "email", "lock", "role", "mobile", "phone", "note"},
       {"name", "trueName", "pass", "email", "mobile", "phone", "note", "role"})
ChangeUser ==
  Form([name |-> UserNameCheck, trueName |-> TrueNameCheck, lock |-> UserLockCheck,
        role |-> UserRoleCheck, mobile |-> UserMobileCheck, phone |-> UserPhoneCheck,
        note |-> UserNoteCheck],
       {"name", "trueName", "email", "lock", "mobile", "phone", "note"},
       {"name", "trueName", "email", "lock", "mobile", "phone", "note"})
UserPassword == Form([x \in {} |-> LongValueCheck], {}, {"pass", "confirm"})
NewRole ==
  Form([name |-> RoleNameCheck, note |-> RoleNoteCheck], {"name", "note"}, {"name", "note"})
NewMaterial ==
  Form([name |-> MaterialNameCheck, desc |-> MaterialDescCheck], {"name", "desc"}, {"name"})
NewMockData ==
  Form([name |-> DataNameCheck, value |-> DataValueCheck, note |-> DataNoteCheck],
       {"name", "value"}, {"name", "value"})
ConfigValue == Form([value |-> LongValueCheck], {"value"}, {"value"})

AllForms == {"ownInfo", "own", "newUser", "changeUser", "userPass", "role",
             "material", "mockData", "config"}
FormOf(f) == CASE f = "ownInfo" -> OwnInfo
               [] f = "own" -> OwnPassword
               [] f = "newUser" -> NewUser
               [] f = "changeUser" -> ChangeUser
               [] f = "userPass" -> UserPassword
               [] f = "role" -> NewRole
               [] f = "material" -> NewMaterial
               [] f = "mockData" -> NewMockData
               [] OTHER -> ConfigValue

Special(f) ==
  (IF f \in {"own", "newUser", "userPass"} THEN {"pass", "confirm"} ELSE {})
    \cup (IF f \in {"ownInfo", "newUser", "changeUser"} THEN {"email"} ELSE {})
FieldsIn(f) == DOMAIN FormOf(f).checks \cup Special(f)

-----------------------------------------------------------------------------
(* The two messages about passwords that differ: the one the confirmations *)
(* write has an ASCII comma, the one the passwords look for a full one.    *)
DiffersWritten == "differs, with an ASCII comma"
DiffersLookedFor == "differs, with a full-width comma"

(* What a check works on: the texts, the marks and the message.            *)
State(t, m, c) == [text |-> t, wrong |-> m, told |-> c]

(* checkNewPassword, checkUserPassword.                                    *)
CheckPassword(s) ==
  LET t == Trim(s.text["pass"])
      bad == Refuses(NewPasswordCheck, t)
      agrees == ~bad /\ t = s.text["confirm"] /\ s.told = DiffersLookedFor
  IN State([s.text EXCEPT !["pass"] = t],
           IF bad THEN s.wrong \cup {"pass"}
           ELSE s.wrong \ ({"pass"} \cup IF agrees THEN {"confirm"} ELSE {}),
           s.told)

(* Mutant of CheckConfirm: the confirmation is not compared.               *)
CheckConfirmAlone(s) ==
  LET t == Trim(s.text["confirm"])
  IN State([s.text EXCEPT !["confirm"] = t],
           Marked(s.wrong, "confirm", UserPasswordCheck, t), s.told)

(* checkConfirmNewPassword, checkConfirmUserPass,                          *)
(* checkChangeConfirmUserPass: the message stays when the mark goes.       *)
CheckConfirm(s) ==
  LET t == Trim(s.text["confirm"])
      now == CASE t = "empty" -> "missing"
               [] t # "empty" /\ t # s.text["pass"] -> DiffersWritten
               [] t # "empty" /\ t = s.text["pass"] /\ Refuses(UserPasswordCheck, t) -> "refused"
               [] OTHER -> "fine"
  IN State([s.text EXCEPT !["confirm"] = t],
           IF now = "fine" THEN s.wrong \ {"confirm"} ELSE s.wrong \cup {"confirm"},
           IF now = "fine" THEN s.told ELSE now)

CheckEmail(s) ==
  LET t == s.text["email"]
  IN State([s.text EXCEPT !["email"] = IF t = "blank" THEN "empty" ELSE t],
           MarkedEmail(s.wrong, "email", t), s.told)

(* The fields of a value of a configuration keep their spaces.             *)
CheckField(s, f) ==
  LET t == Trim(s.text[f])
  IN State([s.text EXCEPT ![f] = IF form = "config" THEN @ ELSE t],
           Marked(s.wrong, f, FormOf(form).checks[f], t), s.told)

(* The handler of change and blur of a field.                              *)
Checked1(s, f) == CASE f = "pass" -> CheckPassword(s)
                    [] f = "confirm" -> CheckConfirm(s)
                    [] f = "email" -> CheckEmail(s)
                    [] OTHER -> CheckField(s, f)

(* The handlers the save runs; the confirmation comes after its password,  *)
(* and the others do not look at each other.                               *)
CheckedAgain(s) ==
  LET again == FormOf(form).again
      common == again \ {"pass", "confirm", "email"}
      plain == State([f \in DOMAIN s.text |-> IF f \in common /\ form # "config" THEN Trim(s.text[f]) ELSE s.text[f]],
                     (s.wrong \ common) \cup
                       {f \in common : Refuses(FormOf(form).checks[f], Trim(s.text[f]))},
                     s.told)
      mailed == IF "email" \in again THEN CheckEmail(plain) ELSE plain
      passed == IF "pass" \in again THEN CheckPassword(mailed) ELSE mailed
  IN IF "confirm" \in again THEN CheckConfirm(passed) ELSE passed

Now == State(text, wrong, told)
Become(s) == text' = s.text /\ wrong' = s.wrong /\ told' = s.told

-----------------------------------------------------------------------------
(* The form opens.  Passwords are emptied, their marks and messages go.    *)
NothingSent == [form |-> "none", text |-> [x \in {} |-> "empty"], after |-> FALSE]

OpenText(f) == [x \in FieldsIn(f) |-> IF x \in {"pass", "confirm", "old"} \/ f = "newUser"
                                       THEN IF x = "lock" THEN "good" ELSE "empty"
                                       ELSE "good"]

ChecksInit ==
  /\ form \in AllForms
  /\ text = OpenText(form)
  /\ wrong = {} /\ told = "none" /\ leftAfter = FALSE
  /\ submitted = NothingSent /\ entries = 0

(* A field is changed and left: its check runs.                            *)
EnterText(f, t) ==
  /\ entries < MaxEntries
  /\ entries' = entries + 1
  /\ f \in FieldsIn(form)
  /\ f \in {"role", "lock"} => t \in {"empty", "good"}
  /\ Become(Checked1([Now EXCEPT !.text = [text EXCEPT ![f] = t]], f))
  /\ leftAfter' = CASE f = "pass" -> FALSE
                     [] f = "confirm" -> TRUE
                     [] OTHER -> leftAfter
  /\ UNCHANGED <<form, submitted>>

(* A save: some checks run again, and a mark among the tested fields       *)
(* refuses it.  The form stays: with an error of the server, or for good.  *)
Submit ==
  /\ entries < MaxEntries
  /\ entries' = entries + 1
  /\ \E s \in {CheckedAgain(Now)} :
       /\ Become(s)
       /\ submitted' = IF s.wrong \cap FormOf(form).tests # {} THEN submitted
                       ELSE [form |-> form, text |-> s.text, after |-> leftAfter]
  /\ UNCHANGED <<form, leftAfter>>

ChecksNext ==
  \/ \E f \in FieldsIn(form), t \in Texts : EnterText(f, t)
  \/ Submit

ChecksSpec == ChecksInit /\ [][ChecksNext]_checkVars

-----------------------------------------------------------------------------
(* What a save sends.  A password of one's own is the one confirmed.  One  *)
(* that an administrator sets may differ from its confirmation only when   *)
(* the confirmation was not looked at after it; for a new user it is never *)
(* looked at.  The other fields that are checked again and tested are as   *)
(* their check wants them; the role of a user who is changed and e-mail    *)
(* addresses are not among them.                                           *)
SentAsMeant ==
  LET f == submitted.form
      t == submitted.text
      c == FormOf(f).checks
  IN f # "none" =>
       /\ f = "own" => t["pass"] = t["confirm"]
       /\ f = "userPass" /\ submitted.after => t["pass"] = t["confirm"]
       /\ \A x \in DOMAIN c \cap FormOf(f).again \cap FormOf(f).tests :
            ~Refuses(c[x], Trim(t[x]))

(* A confirmation that is said to differ does differ, unless the password  *)
(* was changed after it: nothing takes the mark away then, although the    *)
(* check of the password means to.                                         *)
DifferenceTold ==
  ("confirm" \in wrong /\ told = DiffersWritten /\ leftAfter) =>
    text["confirm"] # text["pass"]

(* The checks let through what they are meant to, and say what is so.      *)
ChecksTellTruth == SentAsMeant /\ DifferenceTold
=============================================================================
