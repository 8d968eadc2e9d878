--------------------------- MODULE UserDirectory ---------------------------
(***************************************************************************)
(* The accounts of the stage web application: the tables users and         *)
(* user_role, the handlers of UsersController that change them, and the    *)
(* copies SystemConstant keeps, USERS_LIST and USERS_MAP_WITH_KEY_ID.      *)
(*                                                                         *)
(* Handlers run on servlet threads without a common lock.  Only            *)
(* updateUserRole is a transaction; every statement of the other handlers  *)
(* commits by itself.  Each access to a table or to a static field is an   *)
(* action, but for reads of the same field in a row.  Passwords, telephone *)
(* numbers and notes are left out, and with them the input an early return *)
(* rejects before any table is read.                                       *)
(***************************************************************************)
EXTENDS Integers, FiniteSets

CONSTANTS
  Threads,      (* servlet threads                                          *)
  Self,         (* per thread: id of the user whose session it serves       *)
  MaxUser,      (* bound: user ids are 1 .. MaxUser                         *)
  InitUsers,    (* users at start-up: per id, its row or Null               *)
  InitUserRole, (* user_role at start-up: <<user id, role>>                 *)
  SystemUsers,  (* ids of the users with editable = 0                       *)
  Names,        (* login names                                              *)
  Emails,       (* e-mail addresses                                         *)
  Blank,        (* the empty e-mail address                                 *)
  Roles,        (* rows of roles at start-up                                *)
  SystemRoles,  (* roles with editable = 0                                  *)
  NoRole,       (* the role id -1                                           *)
  MaxStarts,    (* bound: handlers that begin                               *)
  MaxFailures,  (* bound: reads of a refresh that fail                      *)
  Null          (* Java null                                                *)

Ids == 1 .. MaxUser
Row == [name : Names, email : Emails \cup {Blank}]
Entry == [name : Names, email : Emails \cup {Blank}, roles : SUBSET Roles]

ASSUME ConstantsAssumption ==
  /\ MaxUser \in Nat \ {0} /\ MaxStarts \in Nat /\ MaxFailures \in Nat
  /\ Self \in [Threads -> Ids]
  /\ InitUsers \in [Ids -> Row \cup {Null}]
  /\ \A i, j \in {k \in Ids : InitUsers[k] # Null} :
       InitUsers[i].name = InitUsers[j].name => i = j
  /\ SystemUsers # {} /\ \A i \in SystemUsers : i \in Ids /\ InitUsers[i] # Null
  /\ InitUserRole \subseteq {i \in Ids : InitUsers[i] # Null} \X Roles
  /\ Blank \notin Emails /\ NoRole \notin Roles /\ SystemRoles \subseteq Roles
  /\ Null \notin Row \cup Entry \cup Threads

VARIABLES
  users,       (* table users: per id, its row or Null                      *)
  lastUser,    (* AUTO_INCREMENT counter of users                           *)
  userRole,    (* table user_role                                           *)
  roles,       (* table roles                                               *)
  rolesList,   (* SystemConstant.ROLES_LIST                                 *)
  usersList,   (* SystemConstant.USERS_LIST: per id, its entry or Null      *)
  usersMap,    (* SystemConstant.USERS_MAP_WITH_KEY_ID, likewise            *)
  current,     (* per user: CURRENT_USER_INFO of its session, of which      *)
               (* maximumSessions allows one, or Null                       *)
  run,         (* per thread: the locals of its handler                     *)
  starts,      (* handlers begun so far                                     *)
  failures,    (* reads that failed so far                                  *)
  lone,        (* history: the thread that has run alone since it began     *)
  excused,     (* history: why list and map may differ from the tables      *)
  raced        (* history: users two handlers gave roles to at once         *)

db    == <<users, lastUser, userRole>>
rdb   == <<roles, rolesList>>
cache == <<usersList, usersMap>>
hist  == <<lone, excused, raced>>
vars  == <<db, rdb, cache, current, run, starts, failures, hist>>

-----------------------------------------------------------------------------
(* What a handler was asked for; op is its method's name, abridged.        *)
Ops == {"add", "update", "remove", "pass", "role", "self"}
Input == [id : Ids \cup {Null}, name : Names \cup {Null},
          email : Emails \cup {Blank, Null}, role : Roles \cup {NoRole}]

NoInput == [id |-> Null, name |-> Null, email |-> Null, role |-> NoRole]
Empty == [i \in Ids |-> Null]

(* pc: the step to come; left: look-ups of the user still to make; rows    *)
(* and todo: locals of a refresh; back: the step the refresh returns to;   *)
(* snap: what the transaction's snapshot shows, once it is taken.          *)
Idle == [pc |-> "idle", op |-> "pass", in |-> NoInput, left |-> 0,
         rows |-> Empty, todo |-> {}, back |-> "end", snap |-> Null]

Present(t)   == {i \in Ids : t[i] # Null}
RolesOf(i)   == {ur[2] : ur \in {x \in userRole : x[1] = i}}
Editable(i)  == i \notin SystemUsers
WithName(n)  == {i \in Present(users) : users[i].name = n}
WithEmail(e) == {i \in Present(users) : users[i].email = e}
Least(S)     == CHOOSE i \in S : \A j \in S : i <= j

(* What a refresh that nobody disturbs loads.                              *)
Table == [i \in Ids |-> IF users[i] = Null THEN Null
            ELSE [name |-> users[i].name, email |-> users[i].email, roles |-> RolesOf(i)]]

(* The copies are loaded by the first handler that needs them.             *)
Init ==
  /\ users = InitUsers
  /\ lastUser = CHOOSE i \in Present(users) : \A j \in Present(users) : j <= i
  /\ userRole = InitUserRole
  /\ roles = Roles /\ rolesList = Roles
  /\ usersList \in {Empty, Table} /\ usersMap = usersList
  /\ current = InitUsers
  /\ run = [t \in Threads |-> Idle]
  /\ starts = 0 /\ failures = 0
  /\ lone = Null /\ raced = {}
  /\ excused = IF usersMap = Empty THEN {"unloaded"} ELSE {}

At(t, l)  == run[t].pc = l
In(t)     == run[t].in
Goto(t, l) == run' = [run EXCEPT ![t].pc = l]
End(t)    == run' = [run EXCEPT ![t] = Idle]

(* setUsersSysCons, called so that the handler goes on at step l.          *)
Refresh(t, l) == run' = [run EXCEPT ![t].pc = "users", ![t].back = l]

(* updateUserRole is a transaction; once it has deleted and inserted, it   *)
(* holds the rows of its user until it commits.                            *)
InTx(t)    == run[t].op = "role"
Wrote(t)   == run[t].back = "commit"
Free(t, i) == \A b \in Threads \ {t} : Wrote(b) => In(b).id # i

-----------------------------------------------------------------------------
Inputs(t, op) ==
  CASE op = "add"    -> {x \in Input : x.id = Null /\ x.name # Null /\ x.email # Null}
    [] op = "update" -> {x \in Input : x.id \in 1 .. lastUser /\ x.name # Null /\ x.email # Null}
    [] op = "self"   -> {x \in Input : x.id = Self[t] /\ x.name # Null /\ x.email # Null
                                         /\ x.role = NoRole}
    [] op = "role"   -> {x \in Input : x.id \in 1 .. lastUser /\ x.name = Null /\ x.email = Null}
    [] OTHER         -> {x \in Input : x.id \in 1 .. lastUser /\ x.name = Null /\ x.email = Null
                                         /\ x.role = NoRole}

First(op) ==
  CASE op \in {"add", "self"} -> "name" [] op = "pass" -> "write" [] OTHER -> "look"
LookUps(op) ==
  CASE op \in {"remove", "role"} -> 2 [] op = "update" -> 1 [] OTHER -> 0

Start(t) ==
  /\ At(t, "idle")
  /\ starts < MaxStarts /\ starts' = starts + 1
  /\ \E op \in Ops : \E x \in Inputs(t, op) :
       run' = [run EXCEPT ![t] =
         [Idle EXCEPT !.pc = First(op), !.op = op, !.in = x, !.left = LookUps(op)]]
  /\ IF \A b \in Threads : At(b, "idle")
       THEN lone' = t /\ UNCHANGED excused
       ELSE lone' = Null /\ excused' = excused \cup {"overlap"}
  /\ UNCHANGED <<db, rdb, cache, current, failures, raced>>

-----------------------------------------------------------------------------
(* getUserInfoByUserIdList: the map is asked whether it has the id, then   *)
(* for the entry, and each time it is loaded once if it is empty.  Between *)
(* the two another thread may have replaced it, and a map another thread   *)
(* is filling may miss an entry it has.                                    *)
Filling(t) == run[t].pc = "fill"
MayMiss(t, i) == usersMap[i] = Null \/ \E b \in Threads \ {t} : Filling(b)

Loaded(t) == usersMap # Empty \/ run[t].back = run[t].pc

Load(t) ==
  /\ run[t].pc \in {"look", "take"} /\ ~ Loaded(t)
  /\ Refresh(t, run[t].pc)
  /\ UNCHANGED <<db, rdb, cache, current, starts, failures, hist>>

Look(t) ==
  /\ At(t, "look") /\ Loaded(t)
  /\ \/ /\ usersMap[In(t).id] # Null
        /\ run' = [run EXCEPT ![t].pc = "take", ![t].back = "end"]
     \/ MayMiss(t, In(t).id) /\ End(t)
  /\ UNCHANGED <<db, rdb, cache, current, starts, failures, hist>>

AfterLook(op) ==
  CASE op = "update" -> "name" [] op = "remove" -> "write" [] op = "role" -> "begin"

(* Mutant of Accepted: a user need only be known.                          *)
AcceptedIfKnown(i) == TRUE
Accepted(i) == Editable(i)

(* removeUser and updateUserRole look the user up once more, to see        *)
(* whether it is editable.  An entry that is gone is a null that is used.  *)
Take(t) ==
  /\ At(t, "take") /\ Loaded(t)
  /\ LET i == In(t).id
         Found == usersMap[i] # Null
         GoOn(l) == run' = [run EXCEPT ![t].pc = l, ![t].left = @ - 1, ![t].back = "end"]
     IN  \/ Found /\ run[t].left = 2 /\ GoOn("look")
         \/ Found /\ run[t].left = 1 /\ Accepted(i) /\ GoOn(AfterLook(run[t].op))
         \/ Found /\ run[t].left = 1 /\ ~ Accepted(i) /\ End(t)
         \/ MayMiss(t, i) /\ End(t)
  /\ UNCHANGED <<db, rdb, cache, current, starts, failures, hist>>

-----------------------------------------------------------------------------
(* checkNewUser, checkUpdateUser and checkUserChangeInfo.                  *)

NameTaken(t) ==
  LET x == In(t)
  IN  CASE run[t].op = "add"    -> WithName(x.name) # {}
        [] run[t].op = "update" -> WithName(x.name) \ {x.id} # {}
        [] run[t].op = "self"   -> x.name # current[x.id].name /\ WithName(x.name) # {}

CheckName(t) ==
  /\ At(t, "name")
  /\ IF NameTaken(t) THEN End(t) ELSE Goto(t, "email")
  /\ UNCHANGED <<db, rdb, cache, current, starts, failures, hist>>

(* The users the new address is compared with.  Who has no address yet is  *)
(* not compared, nor who keeps the address of the session's copy.          *)
EmailHolders(t) ==
  LET x == In(t)
  IN  IF x.email = Blank THEN {}
      ELSE CASE run[t].op = "add"    -> WithEmail(x.email)
             [] run[t].op = "update" -> WithEmail(x.email) \ {x.id}
             [] run[t].op = "self"   ->
                  IF current[x.id].email \in {Blank, x.email} THEN {} ELSE WithEmail(x.email)

CheckEmail(t) ==
  /\ At(t, "email")
  /\ IF EmailHolders(t) = {} THEN Goto(t, "write") ELSE End(t)
  /\ UNCHANGED <<db, rdb, cache, current, starts, failures, hist>>

-----------------------------------------------------------------------------
(* The statements on users.  user_name is unique in the table, user_email  *)
(* is not.                                                                 *)

Fields(x) == [name |-> x.name, email |-> x.email]

(* Without a role to give, the refresh comes next.                         *)
AfterWrite(op, x) ==
  IF x.role = NoRole THEN "users" ELSE IF op = "add" THEN "insertRole" ELSE "deleteRole"

(* A refused insert has used up an id.                                     *)
InsertUser(t) ==
  /\ At(t, "write") /\ run[t].op = "add"
  /\ lastUser < MaxUser /\ lastUser' = lastUser + 1
  /\ LET x == [In(t) EXCEPT !.id = lastUser']
     IN  IF WithName(x.name) # {}
           THEN End(t) /\ UNCHANGED users
           ELSE /\ users' = [users EXCEPT ![x.id] = Fields(x)]
                /\ run' = [run EXCEPT ![t].in = x, ![t].pc = AfterWrite("add", x)]
  /\ UNCHANGED <<userRole, rdb, cache, current, starts, failures, hist>>

(* The row may be gone by now; the statement excludes the system users.    *)
UpdateUser(t) ==
  /\ At(t, "write") /\ run[t].op \in {"update", "self"}
  /\ LET x == In(t)
     IN  /\ Free(t, x.id)
         /\ IF users[x.id] = Null \/ ~ Editable(x.id) \/ WithName(x.name) \ {x.id} # {}
              THEN End(t) /\ UNCHANGED <<users, current>>
              ELSE /\ users' = [users EXCEPT ![x.id] = Fields(x)]
                   /\ current' = IF run[t].op = "self"
                                   THEN [current EXCEPT ![x.id] = Fields(x)] ELSE current
                   /\ Goto(t, AfterWrite("update", x))
  /\ UNCHANGED <<lastUser, userRole, rdb, cache, starts, failures, hist>>

UpdatePassword(t) ==
  /\ At(t, "write") /\ run[t].op = "pass"
  /\ Free(t, In(t).id)
  /\ IF users[In(t).id] = Null THEN End(t) ELSE Goto(t, "users")
  /\ UNCHANGED <<db, rdb, cache, current, starts, failures, hist>>

(* Mutant of Without: the rows of user_role are not deleted.               *)
KeptWith(i) == userRole
Without(i) == {ur \in userRole : ur[1] # i}

(* The foreign key of user_role cascades.                                  *)
DeleteUser(t) ==
  /\ At(t, "write") /\ run[t].op = "remove"
  /\ LET i == In(t).id
     IN  /\ Free(t, i)
         /\ IF users[i] = Null \/ ~ Editable(i)
              THEN End(t) /\ UNCHANGED <<users, userRole>>
              ELSE /\ users' = [users EXCEPT ![i] = Null]
                   /\ userRole' = Without(i)
                   /\ Goto(t, "users")
  /\ UNCHANGED <<lastUser, rdb, cache, current, starts, failures, hist>>

-----------------------------------------------------------------------------
(* The statements on user_role.                                            *)

(* Another handler in flight gives a role to user i.                       *)
GivenBy(b, i) == run[b].op \in {"add", "update", "role"} /\ In(b).id = i /\ In(b).role # NoRole
NoteRace(t, i) ==
  raced' = raced \cup (IF \E b \in Threads \ {t} : GivenBy(b, i) THEN {i} ELSE {})

(* updateUserInfo deletes the old role in one transaction ...              *)
DeleteUserRole(t) ==
  /\ At(t, "deleteRole")
  /\ Free(t, In(t).id)
  /\ userRole' = Without(In(t).id)
  /\ Goto(t, "insertRole")
  /\ UNCHANGED <<users, lastUser, rdb, cache, current, starts, failures, hist>>

CanHave(i, r) == users[i] # Null /\ r \in roles

(* ... and inserts the new one in another, as addNewUser does.  If user or *)
(* role are gone, or the pair is there already, nothing is inserted and    *)
(* the copies are not refreshed.                                           *)
InsertUserRole(t) ==
  /\ At(t, "insertRole")
  /\ Free(t, In(t).id)
  /\ LET row == <<In(t).id, In(t).role>>
     IN  IF CanHave(row[1], row[2]) /\ row \notin userRole
           THEN /\ userRole' = userRole \cup {row}
                /\ NoteRace(t, row[1])
                /\ Refresh(t, "end")
                /\ UNCHANGED excused
           ELSE /\ End(t)
                /\ excused' = excused \cup {"failed"}
                /\ UNCHANGED <<userRole, raced>>
  /\ UNCHANGED <<users, lastUser, rdb, cache, current, starts, failures, lone>>

(* updateUserRole: the role must be in ROLES_LIST.                         *)
RoleUnknown(t) ==
  /\ At(t, "begin") /\ In(t).role \notin rolesList \cup {NoRole}
  /\ End(t)
  /\ UNCHANGED <<db, rdb, cache, current, starts, failures, hist>>

(* Taking a role away does not refresh the copies.                         *)
TakeRole(t) ==
  /\ At(t, "begin") /\ In(t).role = NoRole
  /\ Free(t, In(t).id)
  /\ userRole' = Without(In(t).id)
  /\ excused' = excused \cup (IF userRole' = userRole THEN {} ELSE {"taken"})
  /\ End(t)
  /\ UNCHANGED <<users, lastUser, rdb, cache, current, starts, failures, lone, raced>>

(* Delete and insert, then the refresh, inside the transaction.            *)
BeginRole(t) ==
  /\ At(t, "begin") /\ In(t).role \in rolesList
  /\ Free(t, In(t).id) /\ CanHave(In(t).id, In(t).role)
  /\ Refresh(t, "commit")
  /\ UNCHANGED <<db, rdb, cache, current, starts, failures, hist>>

(* A foreign key is broken, or two transactions wait for each other.       *)
AbortRole(t) ==
  /\ At(t, "begin") /\ In(t).role \in rolesList
  /\ \/ ~ CanHave(In(t).id, In(t).role)
     \/ \E b \in Threads \ {t} : InTx(b)
  /\ End(t)
  /\ UNCHANGED <<db, rdb, cache, current, starts, failures, hist>>

CommitRole(t) ==
  /\ At(t, "commit")
  /\ userRole' = Without(In(t).id) \cup {<<In(t).id, In(t).role>>}
  /\ NoteRace(t, In(t).id)
  /\ End(t)
  /\ UNCHANGED <<users, lastUser, rdb, cache, current, starts, failures, lone, excused>>

-----------------------------------------------------------------------------
(* setUsersSysCons.                                                        *)

(* getAllUsersInfo reads users, then the roles of each user.               *)
ReadUsers(t) ==
  /\ At(t, "users") /\ ~ InTx(t)
  /\ run' = [run EXCEPT ![t].pc = "roles", ![t].todo = Present(users),
       ![t].rows = [i \in Ids |-> IF users[i] = Null THEN Null
                    ELSE [name |-> users[i].name, email |-> users[i].email, roles |-> {}]]]
  /\ UNCHANGED <<db, rdb, cache, current, starts, failures, hist>>

ReadRoles(t) ==
  /\ At(t, "roles") /\ run[t].todo # {}
  /\ LET i == Least(run[t].todo)
     IN  run' = [run EXCEPT ![t].rows[i].roles = RolesOf(i), ![t].todo = @ \ {i}]
  /\ UNCHANGED <<db, rdb, cache, current, starts, failures, hist>>

(* Mutant of Seen: the refresh reads outside the transaction.              *)
SeenOutside(t, snap) == Table
(* A transaction sees its snapshot, and the role it has given itself.      *)
Seen(t, snap) ==
  IF Wrote(t) /\ snap[In(t).id] # Null
    THEN [snap EXCEPT ![In(t).id].roles = {In(t).role}] ELSE snap

(* REPEATABLE_READ: the first read takes the snapshot all others show.     *)
ReadInTx(t) ==
  /\ At(t, "users") /\ InTx(t)
  /\ LET snap == IF run[t].snap = Null THEN Table ELSE run[t].snap
     IN  run' = [run EXCEPT ![t].pc = "roles", ![t].rows = Seen(t, snap), ![t].snap = snap]
  /\ UNCHANGED <<db, rdb, cache, current, starts, failures, hist>>

(* A read throws: an open transaction is rolled back, what was committed   *)
(* stays and the copies are not refreshed.                                 *)
ReadFails(t) ==
  /\ run[t].pc \in {"users", "roles"} /\ failures < MaxFailures
  /\ failures' = failures + 1
  /\ End(t)
  /\ excused' = excused \cup (IF run[t].back = "end" THEN {"failed"} ELSE {})
  /\ UNCHANGED <<db, rdb, cache, current, starts, lone, raced>>

SetUsersList(t) ==
  /\ At(t, "roles") /\ run[t].todo = {}
  /\ usersList' = run[t].rows
  /\ Goto(t, "map")
  /\ UNCHANGED <<db, rdb, usersMap, current, starts, failures, hist>>

(* Mutant of ToPut: the loop ends one entry early.                         *)
ToPutButLast(list) == Present(list) \ {CHOOSE i \in Present(list) : \A j \in Present(list) : j <= i}
ToPut(list) == Present(list)

(* A new map is published empty, and filled from USERS_LIST, which may be  *)
(* another thread's by now.                                                *)
NewUsersMap(t) ==
  /\ At(t, "map")
  /\ usersMap' = Empty
  /\ run' = [run EXCEPT ![t].pc = "fill", ![t].rows = usersList, ![t].todo = ToPut(usersList)]
  /\ UNCHANGED <<db, rdb, usersList, current, starts, failures, hist>>

(* A put on the unsynchronised HashMap can be lost to another one.         *)
PutUser(t) ==
  /\ At(t, "fill") /\ run[t].todo # {}
  /\ LET i == Least(run[t].todo)
     IN  /\ \/ usersMap' = [usersMap EXCEPT ![i] = run[t].rows[i]]
            \/ (\E b \in Threads \ {t} : Filling(b)) /\ UNCHANGED usersMap
         /\ run' = [run EXCEPT ![t].todo = @ \ {i}]
  /\ UNCHANGED <<db, rdb, usersList, current, starts, failures, hist>>

(* The handler goes on, or has nothing left to do but to report.           *)
EndRefresh(t) ==
  /\ At(t, "fill") /\ run[t].todo = {}
  /\ IF run[t].back = "end" THEN End(t)
       ELSE run' = [run EXCEPT ![t].pc = run[t].back, ![t].rows = Empty]
  /\ excused' = IF lone = t THEN {} ELSE excused
  /\ UNCHANGED <<db, rdb, cache, current, starts, failures, lone, raced>>

-----------------------------------------------------------------------------
(* What RolesController does to these tables: a role that is removed takes *)
(* its rows of user_role along, and ROLES_LIST is refreshed later.         *)
RemoveRole(r) ==
  /\ r \in roles \ SystemRoles
  /\ \A t \in Threads : Wrote(t) => In(t).role # r
  /\ roles' = roles \ {r}
  /\ userRole' = {ur \in userRole : ur[2] # r}
  /\ lone' = Null /\ excused' = excused \cup {"taken"}
  /\ UNCHANGED <<users, lastUser, rolesList, cache, current, run, starts, failures, raced>>

SetRolesList ==
  /\ rolesList # roles /\ rolesList' = roles
  /\ UNCHANGED <<db, roles, cache, current, run, starts, failures, hist>>

(* A user signs in: the session's copy is read from the table.  No change  *)
(* of its own data is under way in the session this one replaces.          *)
SignIn(i) ==
  /\ users[i] # Null
  /\ \A t \in Threads : run[t].op = "self" => In(t).id # i
  /\ current' = [current EXCEPT ![i] = users[i]]
  /\ UNCHANGED <<db, rdb, cache, run, starts, failures, hist>>

Handler(t) ==
  \/ Load(t) \/ Look(t) \/ Take(t) \/ CheckName(t) \/ CheckEmail(t)
  \/ InsertUser(t) \/ UpdateUser(t) \/ UpdatePassword(t) \/ DeleteUser(t)
  \/ DeleteUserRole(t) \/ InsertUserRole(t)
  \/ RoleUnknown(t) \/ TakeRole(t) \/ BeginRole(t) \/ AbortRole(t) \/ CommitRole(t)
  \/ ReadUsers(t) \/ ReadRoles(t) \/ ReadInTx(t) \/ ReadFails(t)
  \/ SetUsersList(t) \/ NewUsersMap(t) \/ PutUser(t) \/ EndRefresh(t)

Next ==
  \/ \E t \in Threads : Start(t) \/ Handler(t)
  \/ \E t \in Threads : SignIn(Self[t])
  \/ \E r \in Roles : RemoveRole(r)
  \/ SetRolesList

Spec == Init /\ [][Next]_vars

-----------------------------------------------------------------------------
(* Properties.                                                             *)

(* Every variable holds values of its kind, names are unique, and the      *)
(* foreign keys of user_role hold.                                         *)
TypeOK ==
  /\ users \in [Ids -> Row \cup {Null}]
  /\ \A i, j \in Present(users) : users[i].name = users[j].name => i = j
  /\ lastUser \in Ids
  /\ userRole \subseteq Present(users) \X roles
  /\ roles \subseteq Roles /\ rolesList \subseteq Roles
  /\ usersList \in [Ids -> Entry \cup {Null}] /\ usersMap \in [Ids -> Entry \cup {Null}]
  /\ current \in [Ids -> Row \cup {Null}]
  /\ \A t \in Threads :
       /\ run[t].op \in Ops /\ run[t].in \in Input /\ run[t].left \in 0 .. 2
       /\ run[t].rows \in [Ids -> Entry \cup {Null}] /\ run[t].todo \subseteq Ids
       /\ run[t].back \in {"look", "take", "commit", "end"}
       /\ run[t].snap \in [Ids -> Entry \cup {Null}] \cup {Null}
  /\ starts \in 0 .. MaxStarts /\ failures \in 0 .. MaxFailures
  /\ lone \in Threads \cup {Null} /\ raced \subseteq Ids
  /\ excused \subseteq {"unloaded", "overlap", "failed", "taken"}

(* No handler changes a system user or its roles, though updateUserRole    *)
(* relies for that on the copies alone, whatever thread fills them.        *)
SystemUsersKept ==
  [][\A i \in SystemUsers :
       users'[i] = users[i] /\ RolesOf(i)' = RolesOf(i) \cap roles']_vars

(* A handler that ran by itself leaves both copies equal to the tables,    *)
(* until handlers overlap, a handler is cut short after a commit, or a     *)
(* role is taken away.                                                     *)
Quiet == \A t \in Threads : At(t, "idle")

CoherentAfterLoneHandler ==
  Quiet /\ excused = {} => usersList = Table /\ usersMap = Table

(* A handler that runs by itself on such copies never turns a user away    *)
(* that exists and may be edited, nor fails to find it.                    *)
RefusalRight ==
  [][\A t \in Threads :
       /\ run[t].pc \in {"look", "take"} /\ At(t, "idle")'
       /\ excused = {}
       => users[In(t).id] = Null \/ In(t).id \in SystemUsers]_vars

(* A user has two roles only if two handlers gave roles to it at once.     *)
TwoRolesOnlyByRace ==
  \A i \in Ids : Cardinality(RolesOf(i)) > 1 => i \in raced

(* UsersServiceImpl.java:486 and 894, "check that the changed e-mail       *)
(* address is unique": no two users have the same one.                     *)
EmailUnique ==
  \A i, j \in Present(users) :
    users[i].email = users[j].email /\ users[i].email # Blank => i = j

=============================================================================
