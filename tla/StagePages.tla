---------------------------- MODULE StagePages -----------------------------
(***************************************************************************)
(* The pages of the stage application in one browser: the forms of         *)
(* common.js, roles.js, userManage.js, materialManage.js, mockDataManage.js*)
(* and sysConfig.js, with the windows of PageWindows, the requests under   *)
(* way and the timers that reload the page.                                *)
(*                                                                         *)
(* The handlers of the six scripts follow four patterns: a click that      *)
(* opens a form at once, a click that asks the server for a row and opens  *)
(* the form with the answer, a save or a removal, and an upload.  They     *)
(* differ in details, and the details decide what can go wrong: which      *)
(* marks the opening clears, which fields it and the save check again,     *)
(* which marks the save looks at, where the button is enabled.  Each       *)
(* handler is therefore a record of its details, read from its lines, and  *)
(* the patterns are the actions.                                           *)
(*                                                                         *)
(* A field stands for all fields a form treats alike; its value is good or *)
(* bad for the field's own check, or empty where that is good.  The server *)
(* is outside: it answers a request in any way its handlers answer, and    *)
(* answers arrive in any order.                                            *)
(***************************************************************************)
EXTENDS PageWindows

CONSTANTS
  Pages,        \* the pages to visit
  Recs,         \* the rows the page lists
  New,          \* the row a form for a new row is about
  FileRecs,     \* the rows of sysConfig whose value is a file
  MaxClicks,    \* bound: what the user does on each page, typing included
  MaxAsks,      \* bound: requests under way
  MaxVisits     \* bound: pages loaded

ASSUME Bounds == MaxClicks \in [Pages -> Nat] /\ MaxAsks \in Nat /\ MaxVisits \in Nat

VARIABLES
  page,         \* the page shown
  visit,        \* how many pages have been loaded
  ui,           \* the windows, see PageWindows
  timers,       \* reloads waiting for their 1.5 s or 0.5 s
  id,           \* hidden field of each form: the row a save names
  shown,        \* the row whose values each form shows
  file,         \* the row for which the file in each form was chosen
  val,          \* value of each field
  mark,         \* the fields with the class "wrong"
  off,          \* the forms whose save button is disabled
  asks,         \* requests under way, oldest first
  failed,       \* the forms whose last save got no usable answer
  clicks        \* what the user has done so far

vars == <<page, visit, ui, timers, id, shown, file, val, mark, off, asks,
          failed, clicks>>
formVars == <<id, shown, file, val, mark, off, failed>>

-----------------------------------------------------------------------------
(* The details of the handlers.                                            *)

(* A click that opens a form at once.  at: where the click is; bad, good:  *)
(* the fields it empties, by what their check says of the empty value;     *)
(* clears: the marks it takes away; enables: the button it enables.        *)
Opener(at, form, bad, good, clears, enables) ==
  [at |-> at, form |-> form, bad |-> bad, good |-> good, clears |-> clears,
   enables |-> enables]

(* A click that asks for a row and opens a form with it.  fills: the       *)
(* fields it fills; blurs: those it checks again; late: the row's id is    *)
(* read from the page when the answer comes.                               *)
Asker(at, form, fills, blurs, late, enables) ==
  [at |-> at, form |-> form, fills |-> fills, blurs |-> blurs, late |-> late,
   enables |-> enables]

(* A save or a removal.  blurs: fields it checks again; tests: fields      *)
(* whose mark refuses it; rejects: fields the server may name in an error; *)
(* kept: whether the button stays enabled; answers: what the server may    *)
(* say; enables: whether an error enables the button; reload: what reloads *)
(* the page after a success.                                               *)
Saver(form, blurs, tests, rejects, kept, answers, enables, reload) ==
  [form |-> form, blurs |-> blurs, tests |-> tests, rejects |-> rejects,
   kept |-> kept, answers |-> answers, enables |-> enables,
   reload |-> reload]

Page == "page"                 \* a click outside every window
AnyAnswer == {"done", "failure", "error"}
DoneOrError == {"done", "error"}
DoneOrFailure == {"done", "failure"}

(* The head of every page.                                                 *)
UserInfo == Asker(Page, "currentUserInfoWin", {}, {}, FALSE, FALSE)
UserInfoSet == Opener(Page, "userInfoSetWin", {}, {}, {}, FALSE)
Logout == Opener(Page, "logoutConfirm", {}, {}, {}, FALSE)
ChangeUserBaseInfo ==
  Asker("userInfoSetWin", "changeUserBaseInfoWin",
        {"change_true_name", "change_user_email", "change_user_phone"},
        {"change_true_name", "change_user_email"}, FALSE, FALSE)
SaveChangeUserBaseInfo ==
  Saver("changeUserBaseInfoWin", {"change_true_name", "change_user_email"},
        {"change_true_name", "change_user_email", "change_user_phone"},
        {"change_user_email"}, TRUE, DoneOrError, FALSE, "none")
ChangeUserPass ==
  Opener("userInfoSetWin", "changeUserPassWin", {"old_password"}, {},
         {"old_password"}, FALSE)
SaveChangeUserPassInfo ==
  Saver("changeUserPassWin", {"old_password"},
        {"old_password", "change_true_name"}, {"old_password"}, TRUE,
        DoneOrError, FALSE, "none")

(* Roles.                                                                  *)
AddNewRole ==
  Opener(Page, "addNewRoleWin", {"role_name"}, {}, {"role_name"}, TRUE)

(* Mutant of SaveNewRole: an error leaves the button disabled.             *)
SaveNewRoleStaysOff ==
  Saver("addNewRoleWin", {"role_name"}, {"role_name"}, {"role_name"}, FALSE,
        DoneOrError, FALSE, "pageTurn")
SaveNewRole ==
  Saver("addNewRoleWin", {"role_name"}, {"role_name"}, {"role_name"}, FALSE,
        DoneOrError, TRUE, "pageTurn")
ShowRole == Asker(Page, "roleInfoWin", {}, {}, FALSE, FALSE)
UpdateRole ==
  Asker(Page, "changeRoleWin", {"change_role_name"}, {"change_role_name"},
        FALSE, TRUE)
RemoveRole == Opener(Page, "removeRoleConfirm", {}, {}, {}, TRUE)
YesRemoveRole ==
  Saver("removeRoleConfirm", {}, {}, {}, FALSE, AnyAnswer, TRUE, "pageTurn")
SaveChangeRole ==
  Saver("changeRoleWin", {"change_role_name"}, {"change_role_name"},
        {"change_role_name"}, FALSE, AnyAnswer, TRUE, "pageTurn")
AssignAuth == Asker(Page, "changeRoleAuthWin", {}, {}, FALSE, TRUE)
SaveChangeRoleAuth ==
  Saver("changeRoleAuthWin", {}, {}, {}, FALSE, AnyAnswer, TRUE, "pageTurn")

(* Users.  The windows for the password and the role of a user are opened  *)
(* from the window that chooses between them.                              *)
AddNewUser ==
  Opener(Page, "addNewUserWin", {"user_name"}, {"user_email"},
         {"user_name", "user_email"}, TRUE)
SaveNewUser ==
  Saver("addNewUserWin", {"user_name", "user_email"},
        {"user_name", "user_email"}, {"user_email"}, FALSE, DoneOrError, TRUE,
        "pageTurn")
ShowUser == Asker(Page, "userInfoWin", {}, {}, FALSE, FALSE)
UpdateUser == Opener(Page, "userInfoChangeWin", {}, {}, {}, FALSE)

(* Mutant of UpdateUserInfo: the user's id is read when the answer comes.  *)
UpdateUserInfoLate ==
  Asker("userInfoChangeWin", "changeUserWin",
        {"users_change_true_name", "users_change_user_email"},
        {"users_change_true_name", "users_change_user_email"}, TRUE, TRUE)
UpdateUserInfo ==
  Asker("userInfoChangeWin", "changeUserWin",
        {"users_change_true_name", "users_change_user_email"},
        {"users_change_true_name", "users_change_user_email"}, FALSE, TRUE)
SaveChangeUser ==
  Saver("changeUserWin",
        {"users_change_true_name", "users_change_user_email"},
        {"users_change_true_name", "users_change_user_email"},
        {"users_change_user_email"}, FALSE, AnyAnswer, TRUE, "pageTurn")
ChangeUserPassInfo ==
  Opener("userInfoChangeWin", "changeUserPassInfoWin",
         {"users_change_user_pass"}, {}, {"users_change_user_pass"}, FALSE)
SaveUserPassInfo ==
  Saver("changeUserPassInfoWin", {}, {"users_change_user_pass"},
        {"users_change_user_pass"}, FALSE, DoneOrError, FALSE, "pageTurn")
SetUserRole ==
  Asker("userInfoChangeWin", "changeUserRoleInfoWin", {}, {}, TRUE, TRUE)
SaveUserRoleInfo ==
  Saver("changeUserRoleInfoWin", {}, {}, {}, FALSE, AnyAnswer, TRUE,
        "pageTurn")
RemoveUser == Opener(Page, "removeUserConfirm", {}, {}, {}, TRUE)
YesRemoveUser ==
  Saver("removeUserConfirm", {}, {}, {}, FALSE, DoneOrFailure, FALSE,
        "pageTurn")

(* Materials.  A save also wants a file.                                   *)
AddNewMaterial ==
  Opener(Page, "addNewMaterialInfoWin", {"material_name"}, {"material_desc"},
         {"material_name", "material_desc"}, TRUE)
SaveNewMaterial ==
  Saver("addNewMaterialInfoWin", {"material_name", "material_desc"},
        {"material_name"}, {"material_name"}, FALSE, DoneOrError, TRUE,
        "delay")
ShowMaterial == Asker(Page, "showMaterialInfoWin", {}, {}, FALSE, FALSE)
EditMaterial ==
  Asker(Page, "editMaterialInfoWin", {"change_material_name"},
        {"change_material_name"}, FALSE, TRUE)
RemoveMaterial == Opener(Page, "removeMaterialInfoConfirm", {}, {}, {}, TRUE)
YesRemoveMaterial ==
  Saver("removeMaterialInfoConfirm", {}, {}, {}, FALSE, DoneOrFailure, FALSE,
        "delay")
SaveChangeMaterial ==
  Saver("editMaterialInfoWin", {"change_material_name"},
        {"change_material_name"}, {"change_material_name"}, FALSE,
        DoneOrError, TRUE, "delay")

(* Mock data.                                                              *)
AddNewMockData ==
  Opener(Page, "addNewMockDataWin", {"data_name", "data_value"},
         {"data_note"}, {"data_name", "data_note"}, TRUE)
SaveNewMockData ==
  Saver("addNewMockDataWin", {"data_name", "data_value"},
        {"data_name", "data_value"}, {"data_name"}, FALSE, DoneOrError, TRUE,
        "delay")
ShowMockData == Asker(Page, "showMockDataWin", {}, {}, FALSE, FALSE)
EditMockData ==
  Asker(Page, "editMockDataWin", {"change_data_name"}, {"change_data_name"},
        FALSE, TRUE)
RemoveMockData == Opener(Page, "removeMockDataConfirm", {}, {}, {}, TRUE)
YesRemoveMockData ==
  Saver("removeMockDataConfirm", {}, {}, {}, FALSE, DoneOrFailure, FALSE,
        "delay")
SaveChangeMockData ==
  Saver("editMockDataWin", {"change_data_name"}, {"change_data_name"},
        {"change_data_name"}, FALSE, DoneOrError, TRUE, "delay")

(* System configuration.                                                   *)
ShowSysConfig == Asker(Page, "sysConfigInfoShowWin", {}, {}, FALSE, FALSE)
UpdateSysConfig ==
  Asker(Page, "changeConfigValueWin", {"change_config_value"},
        {"change_config_value"}, FALSE, FALSE)
SaveChangeConfigValue ==
  Saver("changeConfigValueWin", {"change_config_value"},
        {"change_config_value"}, {"change_config_value"}, FALSE, DoneOrError,
        TRUE, "href")

-----------------------------------------------------------------------------
(* Which handlers a page has; the head of the page is on every page and is *)
(* visited as the page "home".                                             *)
Openers(p) ==
  CASE p = "home" -> {UserInfoSet, Logout, ChangeUserPass}
    [] p = "roles" -> {AddNewRole, RemoveRole}
    [] p = "users" -> {AddNewUser, UpdateUser, ChangeUserPassInfo, RemoveUser}
    [] p = "materials" -> {AddNewMaterial, RemoveMaterial}
    [] p = "mockData" -> {AddNewMockData, RemoveMockData}
    [] OTHER -> {}

Askers(p) ==
  CASE p = "home" -> {UserInfo, ChangeUserBaseInfo}
    [] p = "roles" -> {ShowRole, UpdateRole, AssignAuth}
    [] p = "users" -> {ShowUser, UpdateUserInfo, SetUserRole}
    [] p = "materials" -> {ShowMaterial, EditMaterial}
    [] p = "mockData" -> {ShowMockData, EditMockData}
    [] p = "sysConfig" -> {ShowSysConfig, UpdateSysConfig}
    [] OTHER -> {}

Savers(p) ==
  CASE p = "home" -> {SaveChangeUserBaseInfo, SaveChangeUserPassInfo}
    [] p = "roles" -> {SaveNewRole, YesRemoveRole, SaveChangeRole,
                       SaveChangeRoleAuth}
    [] p = "users" -> {SaveNewUser, SaveChangeUser, SaveUserPassInfo,
                       SaveUserRoleInfo, YesRemoveUser}
    [] p = "materials" -> {SaveNewMaterial, YesRemoveMaterial,
                           SaveChangeMaterial}
    [] p = "mockData" -> {SaveNewMockData, YesRemoveMockData,
                          SaveChangeMockData}
    [] p = "sysConfig" -> {SaveChangeConfigValue}
    [] OTHER -> {}

(* The forms that carry an uploaded file; materials must have one.         *)
FileForms(p) ==
  CASE p = "materials" -> {"addNewMaterialInfoWin", "editMaterialInfoWin"}
    [] p = "sysConfig" -> {"changeConfigValueWin"}
    [] OTHER -> {}

CommonWindows == {"operResultWin", "sessionTimeoutConfirm", "handleWating"}
FormsOf(p) == {h.form : h \in Openers(p)} \cup {h.form : h \in Askers(p)}

(* What leads to a reload: the timers of a success, named by what reloads, *)
(* and the half second before the search form is submitted.                *)
Reloads == {"pageTurn", "delay", "href", "submit"}

(* The forms and the common windows are elements of the pages, and Null is *)
(* not the name of what a fade leads to.                                   *)
ASSUME FormsAssumption ==
  /\ \A p \in Pages : FormsOf(p) \cup CommonWindows \subseteq Windows
  /\ Null \notin Reloads

FieldsOf(h) == h.blurs \cup h.tests

(* The fields whose change and blur run their check, page by page.         *)
HomeFields ==
  {"change_true_name", "change_user_email", "change_user_phone",
   "old_password"}
RolesFields == {"role_name", "change_role_name"}
UsersFields ==
  {"user_name", "user_email", "users_change_true_name",
   "users_change_user_email", "users_change_user_pass"}
MaterialsFields == {"material_name", "material_desc", "change_material_name"}
MockDataFields == {"data_name", "data_value", "data_note", "change_data_name"}
SysConfigFields == {"change_config_value"}

Fields(p) ==
  CASE p = "home" -> HomeFields
    [] p = "roles" -> RolesFields
    [] p = "users" -> UsersFields
    [] p = "materials" -> MaterialsFields
    [] p = "mockData" -> MockDataFields
    [] p = "sysConfig" -> SysConfigFields
    [] OTHER -> {}

(* checkUserEmail sets no mark for a bad address and clears one only when  *)
(* the field is empty.                                                     *)
Emails == {"change_user_email", "user_email", "users_change_user_email"}

(* checkChangeConfigValue checks a value only while its type is integer.   *)
Checked(f, row) == f = "change_config_value" => row \notin FileRecs

(* The marks m after the fields fs, of a form that shows the row and has   *)
(* the values v, have been checked.                                        *)
Blur(m, fs, v, row) ==
  LET now == {f \in fs : Checked(f, row)}
      clear == {f \in now : IF f \in Emails THEN v[f] = "empty"
                                            ELSE v[f] # "bad"}
      set == {f \in now \ Emails : v[f] = "bad"}
  IN (m \ clear) \cup set

-----------------------------------------------------------------------------
(* A page that has just loaded: the window script has shown its message,   *)
(* nothing is under way and no form has been used.                         *)
NoRows(forms) == [f \in forms |-> Null]
GoodValues(p) == [f \in Fields(p) |-> "good"]
PageLoaded(p) == Loaded(FormsOf(p) \cup CommonWindows)

Init ==
  /\ page \in Pages /\ visit = 1 /\ clicks = 0
  /\ ui = PageLoaded(page)
  /\ timers = <<>> /\ asks = <<>>
  /\ id = NoRows(FormsOf(page)) /\ shown = NoRows(FormsOf(page))
  /\ file = NoRows(FileForms(page))
  /\ val = GoodValues(page)
  /\ mark = {} /\ off = {} /\ failed = {}

(* The page is left and loaded again: requests under way lose their        *)
(* reader.  The last page is left for good.                                *)
Leave ==
  \/ /\ visit < MaxVisits
     /\ visit' = visit + 1 /\ page' = page
     /\ ui' = PageLoaded(page)
     /\ timers' = <<>> /\ asks' = <<>>
     /\ id' = NoRows(FormsOf(page)) /\ shown' = NoRows(FormsOf(page))
     /\ file' = NoRows(FileForms(page))
     /\ val' = GoodValues(page)
     /\ mark' = {} /\ off' = {} /\ failed' = {}
  \/ /\ visit = MaxVisits
     /\ page' = Null
     /\ UNCHANGED <<visit, ui, timers, asks, formVars>>

(* A click or an input of the user.                                        *)
UserActs ==
  /\ page # Null
  /\ clicks < MaxClicks[page]
  /\ clicks' = clicks + 1
  /\ UNCHANGED <<page, visit>>

CanClick(at) == IF at = Page THEN PageClickable(ui) ELSE InFront(ui, at)

(* The rows a click at this place can be about: the own account at the     *)
(* head of the page, any row of the table, or the row of the window the    *)
(* click is in.                                                            *)
RowsAt(at) == IF page = "home" THEN {New}
              ELSE IF at = Page THEN Recs ELSE {id[at]} \ {Null}

RowsOf(h) == IF h.form \in {"addNewRoleWin", "addNewUserWin",
                            "addNewMaterialInfoWin", "addNewMockDataWin"}
               THEN {New} ELSE RowsAt(h.at)

(* blockUIOpen(form) at the end of a handler, and the button it enables    *)
(* then, if the form opened.                                               *)
OpenForm(h, marks) ==
  /\ ui' = Install(ui, h.form)
  /\ mark' = marks
  /\ IF h.enables /\ CanInstall(ui, h.form)
       THEN off' = off \ {h.form} /\ failed' = failed \ {h.form}
       ELSE UNCHANGED <<off, failed>>

ClickOpener(h, row) ==
  /\ UserActs
  /\ CanClick(h.at)
  /\ row \in RowsOf(h)
  /\ id' = [id EXCEPT ![h.form] = row]
  /\ shown' = [shown EXCEPT ![h.form] = row]
  /\ file' = [f \in DOMAIN file |-> IF f = h.form THEN Null ELSE file[f]]
  /\ val' = [f \in DOMAIN val |-> IF f \in h.bad THEN "bad"
                                  ELSE IF f \in h.good THEN (IF f \in Emails THEN "empty" ELSE "good")
                                  ELSE val[f]]
  /\ OpenForm(h, mark \ h.clears)
  /\ UNCHANGED <<timers, asks>>

ClickAsker(h, row) ==
  /\ UserActs
  /\ CanClick(h.at)
  /\ row \in RowsAt(h.at)
  /\ Len(asks) < MaxAsks
  /\ asks' = Append(asks, [kind |-> "show", h |-> h, row |-> row])
  /\ UNCHANGED <<ui, timers, formVars>>

(* An input into a field of the form in front, and the check it causes.    *)
FieldValues(f) == IF f \in Emails THEN {"good", "bad", "empty"}
                                  ELSE {"good", "bad"}
Type(h, f, v) ==
  /\ UserActs
  /\ InFront(ui, h.form)
  /\ f \in FieldsOf(h)
  /\ f = "change_true_name" => h.form = "changeUserBaseInfoWin"
  /\ v \in FieldValues(f) /\ v # val[f]
  /\ v = "bad" => Checked(f, shown[h.form])
  /\ val' = [val EXCEPT ![f] = v]
  /\ mark' = Blur(mark, {f}, val', shown[h.form])
  /\ UNCHANGED <<ui, timers, asks, id, shown, file, off, failed>>

(* The save of a form.  It checks its fields again, refuses when a field   *)
(* it looks at is marked or a file is missing, and otherwise sends what    *)
(* the form holds.  What the user saw, and the values that fail their      *)
(* check, are noted with the request.                                      *)
MissesFile(h) == page = "materials" /\ h.form \in DOMAIN file /\ file[h.form] = Null

(* Mutant of MarksAtSave: the save does not check its fields again.        *)
MarksAsTheyAre(h) == mark
MarksAtSave(h) == Blur(mark, h.blurs, val, shown[h.form])
Refused(h) == MarksAtSave(h) \cap h.tests # {} \/ MissesFile(h)

ClickSave(h) ==
  /\ UserActs
  /\ InFront(ui, h.form)
  /\ h.form \notin off
  /\ Len(asks) < MaxAsks
  /\ mark' = MarksAtSave(h)
  /\ IF Refused(h)
       THEN UNCHANGED <<asks, off>>
       ELSE /\ asks' = Append(asks,
                 [kind |-> "save", h |-> h, row |-> id[h.form],
                  of |-> shown[h.form],
                  file |-> IF h.form \in DOMAIN file THEN file[h.form] ELSE Null,
                  bad |-> {f \in h.tests : val[f] = "bad"}])
            /\ off' = IF h.kept THEN off ELSE off \cup {h.form}
  /\ UNCHANGED <<ui, timers, id, shown, file, val, failed>>

(* The upload of the file chosen in a form; without a file the window for  *)
(* results says so.  sysConfig shows the upload for a file only, and       *)
(* disables its button while one is under way.                             *)
SysConfigUpload(form) ==
  page = "sysConfig" =>
    /\ shown[form] \in FileRecs
    /\ \A i \in DOMAIN asks : asks[i].kind # "upload"

ClickUpload(form) ==
  /\ UserActs
  /\ InFront(ui, form)
  /\ form \in DOMAIN file
  /\ SysConfigUpload(form)
  /\ \/ /\ Len(asks) < MaxAsks
        /\ asks' = Append(asks, [kind |-> "upload", form |-> form,
                                 row |-> shown[form]])
        /\ UNCHANGED ui
     \/ ui' = Install(ui, "operResultWin") /\ UNCHANGED asks
  /\ UNCHANGED <<timers, formVars>>

(* #cancel, and the links that call $.unblockUI.                           *)
Close(w) ==
  /\ UserActs
  /\ InFront(ui, w)
  /\ w \notin {"sessionTimeoutConfirm", "handleWating"}
  /\ Len(ui.fades) < MaxFades
  /\ ui' = RemoveFading(ui, Null)
  /\ UNCHANGED <<timers, asks, formVars>>

(* formSubmit: the wait window opens, and half a second later it fades and *)
(* the search form is submitted.                                           *)
FormSubmit(u) ==
  /\ ui' = Install(u, "handleWating")
  /\ timers' = IF CanInstall(u, "handleWating")
                 THEN Append(timers, "submit") ELSE timers
  /\ UNCHANGED <<page, visit, asks, formVars>>

(* A page number, the search and its "show all".                           *)
TurnPage ==
  /\ UserActs
  /\ page # "home"
  /\ PageClickable(ui)
  /\ FormSubmit(ui)

(* #yesLogout, in the question whether to leave and in the message that    *)
(* the session is over.                                                    *)
YesLogout ==
  /\ page # Null
  /\ clicks < MaxClicks[page]
  /\ clicks' = clicks + 1
  /\ \E w \in {"logoutConfirm", "sessionTimeoutConfirm"} \cap DOMAIN ui.place :
       InFront(ui, w)
  /\ Leave

-----------------------------------------------------------------------------
(* Answers.  Whatever else an answer does, it is no longer under way.      *)
Answered(i) ==
  /\ page # Null
  /\ i \in DOMAIN asks
  /\ asks' = RemoveAt(asks, i)
  /\ UNCHANGED <<page, visit, clicks>>

ShowResult == ui' = Install(ui, "operResultWin")

(* The row asked for has come: the form is filled, its fields are checked  *)
(* and it opens.  What a late handler saves to is chosen only now.         *)
Filled(i, a) ==
  LET h == a.h
      v == [f \in DOMAIN val |-> IF f \in h.fills THEN "good" ELSE val[f]]
  IN /\ Answered(i)
     /\ id' = [id EXCEPT ![h.form] = IF h.late THEN id[h.at] ELSE a.row]
     /\ shown' = [shown EXCEPT ![h.form] = a.row]
     /\ file' = [f \in DOMAIN file |-> IF f = h.form THEN a.row ELSE file[f]]
     /\ val' = v
     /\ OpenForm(h, Blur(mark, h.blurs, v, a.row))
     /\ UNCHANGED timers

(* The row is gone: the answer says so in the window for results.          *)
NotThere(i) ==
  /\ Answered(i)
  /\ ShowResult
  /\ UNCHANGED <<timers, formVars>>

(* The save is done: the result is shown and, if its window opened, the    *)
(* timer of the reload starts.                                             *)
Done(i, h) ==
  /\ Answered(i)
  /\ ShowResult
  /\ timers' = IF h.reload # "none" /\ CanInstall(ui, "operResultWin")
                 THEN Append(timers, h.reload) ELSE timers
  /\ UNCHANGED formVars

(* The server refuses without an error of a field: the result is shown,    *)
(* the button stays as it is.                                              *)
Failure(i, h) ==
  /\ Answered(i)
  /\ ShowResult
  /\ failed' = failed \cup {h.form}
  /\ UNCHANGED <<timers, id, shown, file, val, mark, off>>

(* The server names fields: they are marked, the button is enabled.        *)
Rejected(i, h) ==
  /\ Answered(i)
  /\ \E fs \in SUBSET h.rejects : mark' = mark \cup fs
  /\ off' = IF h.enables THEN off \ {h.form} ELSE off
  /\ UNCHANGED <<ui, timers, id, shown, file, val, failed>>

(* The file has been stored: its id goes into the form, whatever the form  *)
(* is about by now.                                                        *)
Uploaded(i, a) ==
  /\ Answered(i)
  /\ file' = [file EXCEPT ![a.form] = a.row]
  /\ UNCHANGED <<ui, timers, id, shown, val, mark, off, failed>>

(* No usable answer: the error callbacks are empty, except that status 911 *)
(* opens the message that the session is over.                             *)
NoAnswer(i, a, expired) ==
  /\ Answered(i)
  /\ ui' = IF expired THEN Install(ui, "sessionTimeoutConfirm") ELSE ui
  /\ failed' = IF a.kind = "save" THEN failed \cup {a.h.form} ELSE failed
  /\ UNCHANGED <<timers, id, shown, file, val, mark, off>>

Answer(i) ==
  LET a == asks[i]
  IN \/ a.kind = "show" /\ (Filled(i, a) \/ NotThere(i))
     \/ a.kind = "save" /\ "done" \in a.h.answers /\ Done(i, a.h)
     \/ a.kind = "save" /\ "failure" \in a.h.answers /\ Failure(i, a.h)
     \/ a.kind = "save" /\ "error" \in a.h.answers /\ Rejected(i, a.h)
     \/ a.kind = "upload" /\ (Uploaded(i, a) \/ NotThere(i))
     \/ NoAnswer(i, a, FALSE)
     \/ a.kind # "upload" /\ NoAnswer(i, a, TRUE)

-----------------------------------------------------------------------------
(* Timers.                                                                 *)

(* The timeout of the message of the load: it fades within a second.       *)
GrowlEnds ==
  /\ page # Null
  /\ ui.timeout
  /\ Len(ui.fades) <= MaxFades
  /\ ui' = RemoveFading(ui, Null)
  /\ UNCHANGED <<page, visit, timers, asks, formVars, clicks>>

(* A reload timer runs out: the windows fade, and the reload follows.      *)
Expire(i) ==
  /\ page # Null
  /\ i \in DOMAIN timers
  /\ Len(ui.fades) <= MaxFades
  /\ timers' = RemoveAt(timers, i)
  /\ ui' = RemoveFading(ui, timers[i])
  /\ UNCHANGED <<page, visit, asks, formVars, clicks>>

(* A fade ends, and the handler given to it runs.                          *)
FadeEnds(i) ==
  /\ page # Null
  /\ i \in DOMAIN ui.fades
  /\ UNCHANGED clicks
  /\ \E then \in {ui.fades[i].then}, u \in {EndFade(ui, i)} :
        \/ /\ then = Null
           /\ ui' = u
           /\ UNCHANGED <<page, visit, timers, asks, formVars>>
        \/ then = "pageTurn" /\ FormSubmit(u)
        \/ then \notin {Null, "pageTurn"} /\ Leave

Next ==
  \/ \E h \in Openers(page), row \in Recs \cup {New} : ClickOpener(h, row)
  \/ \E h \in Askers(page), row \in Recs \cup {New} : ClickAsker(h, row)
  \/ \E h \in Savers(page) :
        \E f \in FieldsOf(h), v \in {"good", "bad", "empty"} : Type(h, f, v)
  \/ \E h \in Savers(page) : ClickSave(h)
  \/ \E form \in FileForms(page) : ClickUpload(form)
  \/ \E w \in DOMAIN ui.place : Close(w)
  \/ TurnPage
  \/ YesLogout
  \/ \E i \in DOMAIN asks : Answer(i)
  \/ GrowlEnds
  \/ \E i \in DOMAIN timers : Expire(i)
  \/ \E i \in DOMAIN ui.fades : FadeEnds(i)

Timers == GrowlEnds \/ (\E i \in DOMAIN timers : Expire(i))
                    \/ (\E i \in DOMAIN ui.fades : FadeEnds(i))

Spec == Init /\ [][Next]_vars

(* The browser runs every timer; answers may never come.                   *)
FairSpec == Spec /\ WF_vars(Timers)

-----------------------------------------------------------------------------
(* Properties.                                                             *)

Rows == Recs \cup {New, Null}

(* The state keeps its shape: windows are at home, in a layer of the page  *)
(* or lost, forms hold rows, marks and values are on fields of the page.   *)
TypeOK ==
  page # Null =>
    /\ page \in Pages /\ visit \in 1 .. MaxVisits /\ clicks \in 0 .. MaxClicks[page]
    /\ UiOK(ui)
    /\ \A i \in DOMAIN timers : timers[i] \in Reloads
    /\ id \in [FormsOf(page) -> Rows] /\ shown \in [FormsOf(page) -> Rows]
    /\ file \in [FileForms(page) -> Rows]
    /\ val \in [Fields(page) -> {"good", "bad", "empty"}]
    /\ mark \subseteq Fields(page)
    /\ off \subseteq FormsOf(page) /\ failed \subseteq FormsOf(page)
    /\ Len(asks) <= MaxAsks

(* As long as no window was opened while another one was fading, every     *)
(* window is at home, or in front with the note that brings it back, or    *)
(* fading with that note, and the page is never covered by nothing: what   *)
(* block.js loses (a window that can never be opened again, a page that    *)
(* takes no click) it loses by such an overlap only.                       *)
LostOnlyByOverlap ==
  ui.overlap \/
    /\ ~Stuck(ui)
    /\ \A w \in DOMAIN ui.place :
         LET note == [el |-> w, parent |-> Home]
         IN \/ ui.place[w] = Home
            \/ ui.place[w] = ui.block /\ ui.history = note
            \/ \E f \in Range(ui.fades) : ui.place[w] \in f.els /\ f.note = note

(* A window opens over one that fades only from an answer or a timer, or   *)
(* from a click in one of three cases: the message of the load fades,      *)
(* which covers nothing; the click is in the fading window itself; the     *)
(* fading window was closed twice, by the user and by the reload, and its  *)
(* layers went with the first close.  But for these a fading window goes   *)
(* on covering the page to its end.                                        *)
OverlapHasCause ==
  [][~ui.overlap /\ ui'.overlap =>
       \/ Len(asks') < Len(asks)
       \/ Len(ui'.fades) < Len(ui.fades)
       \/ ui.growl # Null
       \/ \E f \in Range(ui.fades) :
            \/ Overlays(ui) # <<>> /\ Last(Overlays(ui)) \in f.els
            \/ f.els \cap LayersOf(ui) = {}]_vars

(* What becomes of the windows: they are lost by overlaps only, and an     *)
(* overlap has one of those causes.                                        *)
WindowsLostOnlyByOverlap == []LostOnlyByOverlap /\ OverlapHasCause

(* A save names the row the user sees in the form, whatever answers came   *)
(* in the meantime and in whatever order.  The form for a user's role is   *)
(* the exception: it takes the user when the answer comes, and the answer  *)
(* may be about the user chosen before.                                    *)
SavesShownRow ==
  \A i \in DOMAIN asks :
    asks[i].kind = "save" /\ asks[i].row # asks[i].of =>
      asks[i].h.form = "changeUserRoleInfoWin"

(* Fields whose mark a save looks at without checking them again, or whose *)
(* check may leave the mark as it is.                                      *)
Unchecked(h) == (h.tests \ h.blurs) \cup (h.tests \cap Emails)
StaleConfig(h) == {f \in h.tests : ~Checked(f, shown[h.form])}

(* What a save sends has passed the checks it looks at, but for the fields *)
(* it does not check again and for e-mail addresses.                       *)
SentIsChecked ==
  \A i \in DOMAIN asks :
    asks[i].kind = "save" => asks[i].bad \subseteq Unchecked(asks[i].h)

(* A save that is refused has a reason the user can see in the form: a bad *)
(* value or a missing file.  The exceptions are marks that outlive their   *)
(* reason: on a field the save looks at but does not check again, on an    *)
(* e-mail address, on a configuration value that was an integer before.    *)
RefusedForReason ==
  \A h \in Savers(page) :
    ClickSave(h) /\ Len(asks') = Len(asks) =>
      \/ MissesFile(h)
      \/ \E f \in h.tests : val[f] = "bad"
      \/ mark' \cap (Unchecked(h) \cup StaleConfig(h)) # {}

(* The checks of a form decide about its save in both directions: nothing  *)
(* they refuse is sent, nothing they accept is refused, but for the fields *)
(* named above.                                                            *)
ChecksDecide == [][SentIsChecked' /\ RefusedForReason]_vars

(* A form in front whose button is dead waits for its answer or for the    *)
(* reload, or its last save got no usable answer and it was not opened     *)
(* since.  Two exceptions: the password of a user, whose button an error   *)
(* of a field leaves dead, and nothing enables it again; and a page where  *)
(* windows have overlapped, whose window for results may be lost when a    *)
(* success should announce itself and reload.                              *)
DeadButtonExplained ==
  \A form \in off :
    InFront(ui, form) =>
      \/ form \in failed \/ timers # <<>>
      \/ \E i \in DOMAIN asks : asks[i].kind = "save" /\ asks[i].h.form = form
      \/ \E f \in Range(ui.fades) : f.then # Null
      \/ form = "changeUserPassInfoWin"
      \/ ui.overlap

(* Once a reload has been announced the page is reloaded, whatever the     *)
(* user opens and closes meanwhile: each timer leads to a fade, each fade  *)
(* ends and runs its handler.                                              *)
ReloadHappens ==
  \A n \in 1 .. MaxVisits :
    (page # Null /\ visit = n /\ timers # <<>>) ~> (page = Null \/ visit > n)
=============================================================================
