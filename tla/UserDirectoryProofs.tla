------------------------ MODULE UserDirectoryProofs ------------------------
(***************************************************************************)
(* Proofs about UserDirectory, for any number of servlet threads, users    *)
(* and roles.                                                              *)
(***************************************************************************)
EXTENDS UserDirectory, FiniteSetTheorems, WellFoundedInduction, TLAPS

(* The locals of a handler.                                                *)
Steps == {"idle", "look", "take", "name", "email", "write", "insertRole", "deleteRole",
          "begin", "commit", "users", "roles", "map", "fill"}
Copy == [Ids -> Entry \cup {Null}]
Local == [pc : Steps, op : Ops, in : Input, left : 0 .. 2, rows : Copy, todo : SUBSET Ids,
          back : {"look", "take", "commit", "end"}, snap : Copy \cup {Null}]

(* What a handler was asked for fits what it does.                         *)
AskedRight(x) ==
  /\ x.pc # "idle" /\ (x.op = "add" => x.pc \notin {"name", "email", "write"}) => x.in.id \in Ids
  /\ x.pc # "idle" /\ x.op \in {"add", "update", "self"} =>
       x.in.name \in Names /\ x.in.email \in Emails \cup {Blank}
  /\ x.op = "self" => x.in.role = NoRole

(* Only the handlers that do come to a step come there, and no handler     *)
(* comes to the statements on user_role for a system user.                 *)
OnItsWay(x) ==
  /\ x.pc \in {"look", "take"} \/ x.back \in {"look", "take"} =>
       x.op \in {"update", "remove", "role"}
  /\ x.pc \in {"name", "email"} => x.op \in {"add", "update", "self"}
  /\ x.pc = "write" => x.op # "role"
  /\ x.pc \in {"insertRole", "deleteRole"} => x.op \in {"add", "update"} /\ x.in.role \in Roles
  /\ x.pc \in {"begin", "commit"} => x.op = "role"
  /\ x.pc = "commit" => x.back = "commit"
  /\ x.back = "commit" => /\ x.op = "role" /\ x.in.role \in Roles
                          /\ x.pc \in {"commit", "users", "roles", "map", "fill"}
  /\ x.pc \in {"name", "email", "write", "insertRole", "deleteRole", "begin"} => x.back = "end"
  /\ x.pc \in {"insertRole", "deleteRole", "begin"} \/ x.back = "commit" =>
       x.in.id \notin SystemUsers

(* A refresh has the rows it loops over.                                   *)
LoopsRight(x) ==
  /\ x.pc \notin {"roles", "fill"} => x.todo = {}
  /\ x.pc = "roles" => \A i \in x.todo : x.rows[i] # Null

Sound(x) == x \in Local /\ AskedRight(x) /\ OnItsWay(x) /\ LoopsRight(x)

TablesOK ==
  /\ users \in [Ids -> Row \cup {Null}] /\ lastUser \in Ids
  /\ roles \subseteq Roles /\ rolesList \subseteq Roles
  /\ userRole \subseteq Ids \X Roles
  /\ usersList \in Copy /\ usersMap \in Copy
  /\ current \in [Ids -> Row \cup {Null}]

HistoriesOK ==
  /\ starts \in 0 .. MaxStarts /\ failures \in 0 .. MaxFailures
  /\ lone \in Threads \cup {Null} /\ raced \subseteq Ids
  /\ excused \subseteq {"unloaded", "overlap", "failed", "taken"}

(* The keys of the tables; a transaction that has written holds its rows.  *)
KeysHold ==
  /\ \A i, j \in Present(users) : users[i].name = users[j].name => i = j
  /\ userRole \subseteq Present(users) \X roles
  /\ Present(users) \cup SystemUsers \subseteq 1 .. lastUser
  /\ \A t \in Threads : Wrote(t) => users[In(t).id] # Null /\ In(t).role \in roles

DirectoryInv ==
  /\ TablesOK /\ HistoriesOK /\ KeysHold
  /\ run \in [Threads -> Local] /\ \A t \in Threads : Sound(run[t])

-----------------------------------------------------------------------------
(* Least and greatest ids.                                                 *)
LEMMA LeastOfNaturals ==
  ASSUME NEW S, S \subseteq Nat, S # {}
  PROVE  \E i \in S : \A j \in S : i <= j
<1> DEFINE R == OpToRel(<, Nat)
<1>1. IsWellFoundedOn(R, Nat)
  BY NatLessThanWellFounded
<1>2. \A j, i \in Nat : j < i => <<j, i>> \in R
  BY Zenon DEF OpToRel
<1> HIDE DEF R
<1>3. PICK i \in S : \A j \in S : ~ (<<j, i>> \in R)
  BY <1>1, WFMin
<1>4. i \in Nat /\ \A j \in S : j \in Nat /\ ~ (j < i)
  BY <1>2, <1>3, Zenon
<1>5. \A j \in Nat : ~ (j < i) => i <= j
  BY <1>4
<1> QED
  BY <1>4, <1>5

LEMMA LeastOfIds ==
  ASSUME NEW S, S \subseteq Ids, S # {}
  PROVE  Least(S) \in S
<1>1. S \subseteq Nat
  BY DEF Ids
<1> QED
  BY <1>1, LeastOfNaturals DEF Least

LEMMA GreatestOfIds ==
  ASSUME NEW S, S \subseteq Ids, S # {}
  PROVE  \E i \in S : \A j \in S : j <= i
<1> DEFINE T == {MaxUser - i : i \in S}
<1>1. MaxUser \in Nat
  BY ConstantsAssumption
<1>2. T \subseteq Nat /\ T # {}
  BY <1>1 DEF Ids
<1>4. PICK k \in T : \A m \in T : k <= m
  BY <1>2, LeastOfNaturals
<1>5. PICK i \in S : k = MaxUser - i
  BY <1>4
<1>6. ASSUME NEW j \in S PROVE j <= i
  <2>1. MaxUser - i <= MaxUser - j
    BY <1>4, <1>5
  <2> QED
    BY <1>1, <2>1 DEF Ids
<1> QED
  BY <1>6

-----------------------------------------------------------------------------
LEMMA SameRow ==
  /\ Null \notin Row /\ Null \notin Entry
  /\ Empty \in Copy
  /\ Idle \in Local /\ Sound(Idle)
  BY ConstantsAssumption DEF Idle, NoInput, Empty, Copy, Local, Steps, Ops, Input,
     Sound, AskedRight, OnItsWay, LoopsRight

LEMMA HandlerEnds ==
  ASSUME DirectoryInv, NEW t \in Threads, End(t)
  PROVE  Sound(run'[t]) /\ run'[t] = Idle
  BY SameRow DEF End, DirectoryInv

LEMMA PlainSteps ==
  ASSUME DirectoryInv, NEW t \in Threads
  PROVE
         /\ Look(t) => Sound(run'[t])
         /\ Load(t) => Sound(run'[t])
         /\ CheckName(t) => Sound(run'[t])
         /\ CheckEmail(t) => Sound(run'[t])
         /\ UpdatePassword(t) => Sound(run'[t])
         /\ DeleteUser(t) => Sound(run'[t])
         /\ DeleteUserRole(t) => Sound(run'[t])
         /\ InsertUserRole(t) => Sound(run'[t])
         /\ RoleUnknown(t) => Sound(run'[t])
         /\ TakeRole(t) => Sound(run'[t])
         /\ BeginRole(t) => Sound(run'[t])
         /\ AbortRole(t) => Sound(run'[t])
         /\ CommitRole(t) => Sound(run'[t])
         /\ ReadFails(t) => Sound(run'[t])
         /\ SetUsersList(t) => Sound(run'[t])
         /\ NewUsersMap(t) => Sound(run'[t])
         /\ PutUser(t) => Sound(run'[t])
         /\ EndRefresh(t) => Sound(run'[t])
<1>0. run \in [Threads -> Local] /\ Sound(run[t]) /\ run[t] \in Local
  BY DEF DirectoryInv
<1> USE DEF Sound, AskedRight, OnItsWay, LoopsRight
<1>1. Look(t) => Sound(run'[t])
  BY <1>0, HandlerEnds DEF Look, At, Loaded, MayMiss, In, End, Local, Steps, DirectoryInv, TablesOK
<1>2. Load(t) => Sound(run'[t])
  BY <1>0, HandlerEnds DEF Load, Refresh, Loaded, Local, Steps, DirectoryInv, TablesOK
<1>3. CheckName(t) => Sound(run'[t])
  BY <1>0, HandlerEnds DEF CheckName, At, Goto, End, Local, Steps, DirectoryInv, TablesOK
<1>4. CheckEmail(t) => Sound(run'[t])
  BY <1>0, HandlerEnds DEF CheckEmail, At, Goto, End, Local, Steps, DirectoryInv, TablesOK
<1>5. UpdatePassword(t) => Sound(run'[t])
  BY <1>0, HandlerEnds DEF UpdatePassword, At, Goto, End, Local, Steps, DirectoryInv, TablesOK
<1>6. DeleteUser(t) => Sound(run'[t])
  BY <1>0, HandlerEnds DEF DeleteUser, At, Goto, End, Local, Steps, DirectoryInv, TablesOK
<1>7. DeleteUserRole(t) => Sound(run'[t])
  BY <1>0, HandlerEnds DEF DeleteUserRole, At, Goto, Local, Steps, DirectoryInv, TablesOK
<1>8. InsertUserRole(t) => Sound(run'[t])
  BY <1>0, HandlerEnds DEF InsertUserRole, At, Refresh, End, Local, Steps, DirectoryInv, TablesOK
<1>9. RoleUnknown(t) => Sound(run'[t])
  BY <1>0, HandlerEnds DEF RoleUnknown, End, Local, Steps, DirectoryInv, TablesOK
<1>10. TakeRole(t) => Sound(run'[t])
  BY <1>0, HandlerEnds DEF TakeRole, End, Local, Steps, DirectoryInv, TablesOK
<1>11. BeginRole(t) => Sound(run'[t])
  BY <1>0, HandlerEnds DEF BeginRole, At, Refresh, In, Local, Steps, DirectoryInv, TablesOK
<1>12. AbortRole(t) => Sound(run'[t])
  BY <1>0, HandlerEnds DEF AbortRole, End, Local, Steps, DirectoryInv, TablesOK
<1>13. CommitRole(t) => Sound(run'[t])
  BY <1>0, HandlerEnds DEF CommitRole, End, Local, Steps, DirectoryInv, TablesOK
<1>14. ReadFails(t) => Sound(run'[t])
  BY <1>0, HandlerEnds DEF ReadFails, End, Local, Steps, DirectoryInv, TablesOK
<1>15. SetUsersList(t) => Sound(run'[t])
  BY <1>0, HandlerEnds DEF SetUsersList, At, Goto, Local, Steps, DirectoryInv, TablesOK
<1>16. NewUsersMap(t) => Sound(run'[t])
  <2> SUFFICES ASSUME NewUsersMap(t) PROVE Sound(run'[t])
    OBVIOUS
  <2>1. usersList \in Copy /\ ToPut(usersList) \subseteq Ids
    BY DEF DirectoryInv, TablesOK, ToPut, Present
  <2>2. run' = [run EXCEPT ![t].pc = "fill", ![t].rows = usersList, ![t].todo = ToPut(usersList)]
        /\ run[t].pc = "map"
    BY DEF NewUsersMap, At
  <2> QED
    BY <1>0, <2>1, <2>2 DEF Local, Steps
<1>17. PutUser(t) => Sound(run'[t])
  BY <1>0, HandlerEnds DEF PutUser, At, Local, Steps, DirectoryInv, TablesOK
<1>18. EndRefresh(t) => Sound(run'[t])
  BY <1>0, HandlerEnds, SMTT(30) DEF EndRefresh, At, End, Local, Steps, DirectoryInv, TablesOK
<1> QED
  BY <1>1, <1>2, <1>3, <1>4, <1>5, <1>6, <1>7, <1>8, <1>9, <1>10, <1>11, <1>12, <1>13, <1>14, <1>15, <1>16, <1>17, <1>18

LEMMA StartSound ==
  ASSUME DirectoryInv, NEW t \in Threads, Start(t) PROVE Sound(run'[t])
<1>0. PICK op \in Ops : \E x \in Inputs(t, op) :
        run' = [run EXCEPT ![t] =
          [Idle EXCEPT !.pc = First(op), !.op = op, !.in = x, !.left = LookUps(op)]]
  BY DEF Start
<1>1. PICK x \in Inputs(t, op) :
        run' = [run EXCEPT ![t] =
          [Idle EXCEPT !.pc = First(op), !.op = op, !.in = x, !.left = LookUps(op)]]
  BY <1>0
<1>2. /\ x \in Input
      /\ op # "add" => x.id \in Ids
      /\ op \in {"add", "update", "self"} => x.name \in Names /\ x.email \in Emails \cup {Blank}
      /\ op = "self" => x.role = NoRole
  <2>1. lastUser \in Nat /\ 1 .. lastUser \subseteq Ids /\ Self[t] \in Ids
    BY ConstantsAssumption DEF DirectoryInv, TablesOK, Ids
  <2> QED
    BY <1>1, <2>1 DEF Inputs, Ops, Input
<1>3. /\ First(op) \in {"name", "write", "look"} /\ LookUps(op) \in 0 .. 2
      /\ First(op) = "name" => op \in {"add", "self"}
      /\ First(op) = "write" => op = "pass"
      /\ First(op) = "look" => op \in {"update", "remove", "role"}
  BY DEF First, LookUps, Ops
<1>4. Idle \in Local /\ Idle.back = "end" /\ Idle.todo = {}
  BY SameRow DEF Idle
<1>5. run'[t] = [Idle EXCEPT !.pc = First(op), !.op = op, !.in = x, !.left = LookUps(op)]
  BY <1>1 DEF DirectoryInv
<1>6. /\ run'[t] \in Local /\ run'[t].pc = First(op) /\ run'[t].op = op /\ run'[t].in = x
      /\ run'[t].back = "end" /\ run'[t].todo = {}
  BY <1>2, <1>3, <1>4, <1>5 DEF Local, Steps
<1> QED
  BY <1>2, <1>3, <1>6 DEF Sound, AskedRight, OnItsWay, LoopsRight

LEMMA TakeSound ==
  ASSUME DirectoryInv, NEW t \in Threads, Take(t) PROVE Sound(run'[t])
<1>0. run \in [Threads -> Local] /\ Sound(run[t]) /\ run[t] \in Local /\ run[t].pc = "take"
  BY DEF DirectoryInv, Sound, Take, At
<1>1. CASE End(t)
  BY <1>1, HandlerEnds
<1>2. CASE /\ run[t].left = 2
           /\ run' = [run EXCEPT ![t].pc = "look", ![t].left = @ - 1, ![t].back = "end"]
  BY <1>0, <1>2 DEF Sound, AskedRight, OnItsWay, LoopsRight, Local, Steps
<1>3. CASE /\ run[t].left = 1 /\ Accepted(In(t).id)
           /\ run' = [run EXCEPT ![t].pc = AfterLook(run[t].op), ![t].left = @ - 1,
                                 ![t].back = "end"]
  <2>1. /\ AfterLook(run[t].op) \in {"name", "write", "begin"}
        /\ AfterLook(run[t].op) = "name" => run[t].op = "update"
        /\ AfterLook(run[t].op) = "write" => run[t].op = "remove"
        /\ AfterLook(run[t].op) = "begin" => run[t].op = "role"
    BY <1>0 DEF AfterLook, Sound, OnItsWay
  <2>2. run[t].in.id \notin SystemUsers
    BY <1>3 DEF Accepted, Editable, In
  <2>3. /\ run'[t] \in Local /\ run'[t].pc = AfterLook(run[t].op) /\ run'[t].op = run[t].op
        /\ run'[t].in = run[t].in /\ run'[t].back = "end" /\ run'[t].todo = run[t].todo
    BY <1>0, <1>3, <2>1 DEF Local, Steps
  <2> QED
    BY <1>0, <2>1, <2>2, <2>3 DEF Sound, AskedRight, OnItsWay, LoopsRight
<1> QED
  BY <1>1, <1>2, <1>3 DEF Take

LEMMA AfterWriteStep ==
  ASSUME NEW op, NEW x \in Input
  PROVE  /\ AfterWrite(op, x) \in {"users", "insertRole", "deleteRole"}
         /\ AfterWrite(op, x) # "users" => x.role \in Roles
<1>1. CASE x.role = NoRole
  BY <1>1 DEF AfterWrite
<1>2. CASE x.role # NoRole /\ op = "add"
  BY <1>2 DEF AfterWrite, Input
<1>3. CASE x.role # NoRole /\ op # "add"
  BY <1>3 DEF AfterWrite, Input
<1> QED
  BY <1>1, <1>2, <1>3

LEMMA InsertSound ==
  ASSUME DirectoryInv, NEW t \in Threads, InsertUser(t) PROVE Sound(run'[t])
<1>0. /\ run \in [Threads -> Local] /\ Sound(run[t]) /\ run[t] \in Local /\ run[t].pc = "write"
      /\ run[t].op = "add" /\ run[t].in \in Input
  BY DEF DirectoryInv, Sound, InsertUser, At, Local
<1>1. lastUser' \in Ids /\ lastUser' \notin SystemUsers
  <2>1. /\ MaxUser \in Nat /\ lastUser \in Ids /\ SystemUsers \subseteq 1 .. lastUser
        /\ lastUser < MaxUser /\ lastUser' = lastUser + 1
    BY ConstantsAssumption DEF InsertUser, DirectoryInv, TablesOK, KeysHold
  <2>2. lastUser' \notin 1 .. lastUser /\ lastUser' \in Ids
    BY <2>1 DEF Ids
  <2> QED
    BY <2>1, <2>2
<1>2. CASE End(t)
  BY <1>2, HandlerEnds
<1>3. CASE ~ End(t)
  <2>1. PICK x : x = [run[t].in EXCEPT !.id = lastUser']
    OBVIOUS
  <2>2. /\ x \in Input /\ x.id = lastUser' /\ x.name = run[t].in.name /\ x.email = run[t].in.email
    BY <1>0, <1>1, <2>1 DEF Input
  <2>3. run' = [run EXCEPT ![t].in = x, ![t].pc = AfterWrite("add", x)]
    BY <1>3, <2>1 DEF InsertUser, In
  <2>4. AfterWrite("add", x) \in {"users", "insertRole", "deleteRole"}
        /\ (AfterWrite("add", x) # "users" => x.role \in Roles)
    BY <2>2, AfterWriteStep
  <2>5. /\ run'[t] \in Local /\ run'[t].pc = AfterWrite("add", x) /\ run'[t].op = "add"
        /\ run'[t].in = x /\ run'[t].back = run[t].back /\ run'[t].todo = run[t].todo
    BY <1>0, <2>2, <2>3, <2>4 DEF Local, Steps
  <2> QED
    BY <1>0, <1>1, <2>2, <2>4, <2>5 DEF Sound, AskedRight, OnItsWay, LoopsRight
<1> QED
  BY <1>2, <1>3

LEMMA UpdateSound ==
  ASSUME DirectoryInv, NEW t \in Threads, UpdateUser(t) PROVE Sound(run'[t])
<1>0. /\ run \in [Threads -> Local] /\ Sound(run[t]) /\ run[t] \in Local /\ run[t].pc = "write"
      /\ run[t].op \in {"update", "self"} /\ run[t].in \in Input
  BY DEF DirectoryInv, Sound, UpdateUser, At, Local
<1>2. CASE End(t)
  BY <1>2, HandlerEnds
<1>3. CASE ~ End(t)
  <2>1. run' = [run EXCEPT ![t].pc = AfterWrite("update", run[t].in)]
        /\ run[t].in.id \notin SystemUsers
    BY <1>3 DEF UpdateUser, In, Goto, Editable
  <2>2. AfterWrite("update", run[t].in) \in {"users", "insertRole", "deleteRole"}
        /\ (AfterWrite("update", run[t].in) # "users" => run[t].in.role \in Roles)
    BY <1>0, AfterWriteStep
  <2>3. run[t].op = "self" => AfterWrite("update", run[t].in) = "users"
    BY <1>0 DEF AfterWrite, Sound, AskedRight
  <2>5. /\ run'[t] \in Local /\ run'[t].pc = AfterWrite("update", run[t].in)
        /\ run'[t].op = run[t].op
        /\ run'[t].in = run[t].in /\ run'[t].back = run[t].back /\ run'[t].todo = run[t].todo
    BY <1>0, <2>1, <2>2 DEF Local, Steps
  <2> QED
    BY <1>0, <2>1, <2>2, <2>3, <2>5 DEF Sound, AskedRight, OnItsWay, LoopsRight
<1> QED
  BY <1>2, <1>3

LEMMA RolesOfKind ==
  ASSUME DirectoryInv, NEW i PROVE RolesOf(i) \subseteq Roles
  BY DEF RolesOf, DirectoryInv, TablesOK

LEMMA TableKind ==
  ASSUME DirectoryInv
  PROVE  /\ Table \in Copy
         /\ \A i \in Ids : Table[i] = Null <=> users[i] = Null
         /\ \A i \in Ids : users[i] # Null =>
              Table[i] = [name |-> users[i].name, email |-> users[i].email, roles |-> RolesOf(i)]
<1>1. users \in [Ids -> Row \cup {Null}]
  BY DEF DirectoryInv, TablesOK
<1>2. \A i \in Ids : users[i] # Null =>
        [name |-> users[i].name, email |-> users[i].email, roles |-> RolesOf(i)] \in Entry
  BY <1>1, RolesOfKind DEF Row, Entry
<1>3. Null \notin Entry
  BY SameRow
<1> QED
  BY <1>1, <1>2, <1>3 DEF Table, Copy

LEMMA ReadUsersSound ==
  ASSUME DirectoryInv, NEW t \in Threads, ReadUsers(t) PROVE Sound(run'[t])
<1>0. /\ run \in [Threads -> Local] /\ Sound(run[t]) /\ run[t] \in Local /\ run[t].pc = "users"
      /\ run[t].op # "role"
  BY DEF DirectoryInv, Sound, ReadUsers, At, InTx
<1>1. PICK rr : rr = [i \in Ids |-> IF users[i] = Null THEN Null
                 ELSE [name |-> users[i].name, email |-> users[i].email, roles |-> {}]]
  OBVIOUS
<1>2. /\ rr \in Copy /\ Present(users) \subseteq Ids
      /\ \A i \in Present(users) : rr[i] # Null
  <2>1. users \in [Ids -> Row \cup {Null}]
    BY DEF DirectoryInv, TablesOK
  <2>2. \A i \in Ids : users[i] # Null =>
          [name |-> users[i].name, email |-> users[i].email, roles |-> {}] \in Entry
    BY <2>1 DEF Row, Entry
  <2> QED
    BY <1>1, <2>1, <2>2, SameRow DEF Copy, Present
<1>3. run' = [run EXCEPT ![t].pc = "roles", ![t].todo = Present(users), ![t].rows = rr]
  BY <1>1 DEF ReadUsers
<1>4. /\ run'[t] \in Local /\ run'[t].pc = "roles" /\ run'[t].op = run[t].op
      /\ run'[t].in = run[t].in /\ run'[t].back = run[t].back
      /\ run'[t].todo = Present(users) /\ run'[t].rows = rr
  BY <1>0, <1>2, <1>3 DEF Local, Steps
<1> QED
  BY <1>0, <1>2, <1>4 DEF Sound, AskedRight, OnItsWay, LoopsRight

LEMMA ReadRolesSound ==
  ASSUME DirectoryInv, NEW t \in Threads, ReadRoles(t) PROVE Sound(run'[t])
<1>0. /\ run \in [Threads -> Local] /\ Sound(run[t]) /\ run[t] \in Local /\ run[t].pc = "roles"
      /\ run[t].todo \subseteq Ids /\ run[t].todo # {}
      /\ \A i \in run[t].todo : run[t].rows[i] # Null
  BY DEF DirectoryInv, Sound, ReadRoles, At, Local, LoopsRight
<1>1. PICK i : i = Least(run[t].todo)
  OBVIOUS
<1>2. i \in run[t].todo /\ i \in Ids
  BY <1>0, <1>1, LeastOfIds
<1>3. PICK rr : rr = [run[t].rows EXCEPT ![i].roles = RolesOf(i)]
  OBVIOUS
<1>4. rr \in Copy /\ \A j \in Ids : rr[j] = Null <=> run[t].rows[j] = Null
  <2>1. run[t].rows \in Copy /\ run[t].rows[i] \in Entry /\ RolesOf(i) \in SUBSET Roles
    BY <1>0, <1>2, RolesOfKind DEF Local, Copy
  <2>2. [run[t].rows[i] EXCEPT !.roles = RolesOf(i)] \in Entry
    BY <2>1 DEF Entry
  <2> QED
    BY <1>2, <1>3, <2>1, <2>2, SameRow DEF Copy
<1>5. run' = [run EXCEPT ![t].rows = rr, ![t].todo = run[t].todo \ {i}]
  BY <1>0, <1>1, <1>3 DEF ReadRoles, Local
<1>6. /\ run'[t] \in Local /\ run'[t].pc = "roles" /\ run'[t].op = run[t].op
      /\ run'[t].in = run[t].in /\ run'[t].back = run[t].back
      /\ run'[t].todo = run[t].todo \ {i} /\ run'[t].rows = rr
  BY <1>0, <1>4, <1>5 DEF Local
<1> QED
  BY <1>0, <1>4, <1>6 DEF Sound, AskedRight, OnItsWay, LoopsRight

LEMMA SeenKind ==
  ASSUME DirectoryInv, NEW t \in Threads, NEW snap \in Copy
  PROVE  Seen(t, snap) \in Copy
<1>1. CASE Wrote(t) /\ snap[In(t).id] # Null
  <2>1. run[t].in.role \in Roles /\ run[t].in.id \in Ids
    BY <1>1 DEF DirectoryInv, Sound, OnItsWay, AskedRight, Wrote
  <2>2. snap[In(t).id] \in Entry
    BY <1>1, <2>1 DEF Copy, In
  <2>3. [snap[In(t).id] EXCEPT !.roles = {In(t).role}] \in Entry
    BY <2>1, <2>2 DEF Entry, In
  <2> QED
    BY <1>1, <2>1, <2>3 DEF Seen, Copy, In
<1> QED
  BY <1>1 DEF Seen

LEMMA ReadInTxSound ==
  ASSUME DirectoryInv, NEW t \in Threads, ReadInTx(t) PROVE Sound(run'[t])
<1>0. /\ run \in [Threads -> Local] /\ Sound(run[t]) /\ run[t] \in Local /\ run[t].pc = "users"
      /\ run[t].op = "role" /\ run[t].todo = {}
  BY DEF DirectoryInv, Sound, ReadInTx, At, InTx, LoopsRight
<1>1. PICK snap : snap = IF run[t].snap = Null THEN Table ELSE run[t].snap
  OBVIOUS
<1>2. snap \in Copy /\ Seen(t, snap) \in Copy
  <2>1. snap \in Copy
    BY <1>0, <1>1, TableKind DEF Local
  <2> QED
    BY <2>1, SeenKind
<1>3. run' = [run EXCEPT ![t].pc = "roles", ![t].rows = Seen(t, snap), ![t].snap = snap]
  BY <1>1 DEF ReadInTx
<1>4. /\ run'[t] \in Local /\ run'[t].pc = "roles" /\ run'[t].op = run[t].op
      /\ run'[t].in = run[t].in /\ run'[t].back = run[t].back /\ run'[t].todo = run[t].todo
  BY <1>0, <1>2, <1>3 DEF Local, Steps
<1> QED
  BY <1>0, <1>4 DEF Sound, AskedRight, OnItsWay, LoopsRight

(* A step of a thread leaves the locals of the others alone.               *)
LEMMA OwnLocalsOnly ==
  ASSUME DirectoryInv, NEW t \in Threads, Start(t) \/ Handler(t)
  PROVE  /\ \A b \in Threads \ {t} : run'[b] = run[b]
         /\ DOMAIN run' = Threads /\ run' = [b \in Threads |-> run'[b]]
<1>0. run \in [Threads -> Local]
  BY DEF DirectoryInv
<1>1. Start(t) => \E x : run' = [run EXCEPT ![t] = x]
  BY DEF Start
<1>2. Load(t) => \E x : run' = [run EXCEPT ![t] = x]
  BY DEF Load, Goto, End, Refresh
<1>3. Look(t) => \E x : run' = [run EXCEPT ![t] = x]
  BY DEF Look, Goto, End, Refresh
<1>4. Take(t) => \E x : run' = [run EXCEPT ![t] = x]
  BY DEF Take, Goto, End, Refresh
<1>5. CheckName(t) => \E x : run' = [run EXCEPT ![t] = x]
  BY DEF CheckName, Goto, End, Refresh
<1>6. CheckEmail(t) => \E x : run' = [run EXCEPT ![t] = x]
  BY DEF CheckEmail, Goto, End, Refresh
<1>7. InsertUser(t) => \E x : run' = [run EXCEPT ![t] = x]
  BY DEF InsertUser, Goto, End, Refresh
<1>8. UpdateUser(t) => \E x : run' = [run EXCEPT ![t] = x]
  BY DEF UpdateUser, Goto, End, Refresh
<1>9. UpdatePassword(t) => \E x : run' = [run EXCEPT ![t] = x]
  BY DEF UpdatePassword, Goto, End, Refresh
<1>10. DeleteUser(t) => \E x : run' = [run EXCEPT ![t] = x]
  BY DEF DeleteUser, Goto, End, Refresh
<1>11. DeleteUserRole(t) => \E x : run' = [run EXCEPT ![t] = x]
  BY DEF DeleteUserRole, Goto, End, Refresh
<1>12. InsertUserRole(t) => \E x : run' = [run EXCEPT ![t] = x]
  BY DEF InsertUserRole, Goto, End, Refresh
<1>13. RoleUnknown(t) => \E x : run' = [run EXCEPT ![t] = x]
  BY DEF RoleUnknown, Goto, End, Refresh
<1>14. TakeRole(t) => \E x : run' = [run EXCEPT ![t] = x]
  BY DEF TakeRole, Goto, End, Refresh
<1>15. BeginRole(t) => \E x : run' = [run EXCEPT ![t] = x]
  BY DEF BeginRole, Goto, End, Refresh
<1>16. AbortRole(t) => \E x : run' = [run EXCEPT ![t] = x]
  BY DEF AbortRole, Goto, End, Refresh
<1>17. CommitRole(t) => \E x : run' = [run EXCEPT ![t] = x]
  BY DEF CommitRole, Goto, End, Refresh
<1>18. ReadUsers(t) => \E x : run' = [run EXCEPT ![t] = x]
  BY DEF ReadUsers, Goto, End, Refresh
<1>19. ReadRoles(t) => \E x : run' = [run EXCEPT ![t] = x]
  BY DEF ReadRoles, Goto, End, Refresh
<1>20. ReadInTx(t) => \E x : run' = [run EXCEPT ![t] = x]
  BY DEF ReadInTx, Goto, End, Refresh
<1>21. ReadFails(t) => \E x : run' = [run EXCEPT ![t] = x]
  BY DEF ReadFails, Goto, End, Refresh
<1>22. SetUsersList(t) => \E x : run' = [run EXCEPT ![t] = x]
  BY DEF SetUsersList, Goto, End, Refresh
<1>23. NewUsersMap(t) => \E x : run' = [run EXCEPT ![t] = x]
  BY DEF NewUsersMap, Goto, End, Refresh
<1>24. PutUser(t) => \E x : run' = [run EXCEPT ![t] = x]
  BY DEF PutUser, Goto, End, Refresh
<1>25. EndRefresh(t) => \E x : run' = [run EXCEPT ![t] = x]
  BY DEF EndRefresh, Goto, End, Refresh
<1> QED
  BY <1>0, <1>1, <1>2, <1>3, <1>4, <1>5, <1>6, <1>7, <1>8, <1>9, <1>10, <1>11, <1>12, <1>13, <1>14, <1>15, <1>16, <1>17, <1>18, <1>19, <1>20, <1>21, <1>22, <1>23, <1>24, <1>25 DEF Handler

LEMMA LocalsSound ==
  ASSUME DirectoryInv, NEW t \in Threads, Start(t) \/ Handler(t)
  PROVE  run' \in [Threads -> Local] /\ \A b \in Threads : Sound(run'[b])
<1>1. Sound(run'[t])
  BY PlainSteps, StartSound, TakeSound, InsertSound, UpdateSound, ReadUsersSound,
     ReadRolesSound, ReadInTxSound DEF Handler
<1>2. \A b \in Threads \ {t} : Sound(run'[b])
  BY OwnLocalsOnly DEF DirectoryInv
<1>3. \A b \in Threads : Sound(run'[b])
  BY <1>1, <1>2
<1> QED
  BY <1>3, OwnLocalsOnly DEF Sound

-----------------------------------------------------------------------------
(* The tables and the copies keep their kinds.                             *)
Reads(t) ==
  \/ Start(t) \/ Load(t) \/ Look(t) \/ Take(t) \/ CheckName(t) \/ CheckEmail(t) \/ UpdatePassword(t)
  \/ RoleUnknown(t) \/ BeginRole(t) \/ AbortRole(t) \/ ReadUsers(t) \/ ReadRoles(t) \/ ReadInTx(t) \/ ReadFails(t)
  \/ SetUsersList(t) \/ NewUsersMap(t) \/ PutUser(t) \/ EndRefresh(t)
Writes(t) ==
  \/ InsertUser(t) \/ UpdateUser(t) \/ DeleteUser(t)
  \/ DeleteUserRole(t) \/ InsertUserRole(t) \/ TakeRole(t) \/ CommitRole(t)

LEMMA ReadsLeaveTables ==
  ASSUME NEW t \in Threads, Reads(t)
  PROVE  UNCHANGED <<users, lastUser, userRole, roles, rolesList, current, raced>>
<1>1. Start(t) => UNCHANGED <<users, lastUser, userRole, roles, rolesList, current, raced>>
  BY DEF Start, db, rdb, hist
<1>2. Load(t) => UNCHANGED <<users, lastUser, userRole, roles, rolesList, current, raced>>
  BY DEF Load, db, rdb, hist
<1>3. Look(t) => UNCHANGED <<users, lastUser, userRole, roles, rolesList, current, raced>>
  BY DEF Look, db, rdb, hist
<1>4. Take(t) => UNCHANGED <<users, lastUser, userRole, roles, rolesList, current, raced>>
  BY DEF Take, db, rdb, hist
<1>5. CheckName(t) => UNCHANGED <<users, lastUser, userRole, roles, rolesList, current, raced>>
  BY DEF CheckName, db, rdb, hist
<1>6. CheckEmail(t) => UNCHANGED <<users, lastUser, userRole, roles, rolesList, current, raced>>
  BY DEF CheckEmail, db, rdb, hist
<1>7. UpdatePassword(t) => UNCHANGED <<users, lastUser, userRole, roles, rolesList, current, raced>>
  BY DEF UpdatePassword, db, rdb, hist
<1>8. RoleUnknown(t) => UNCHANGED <<users, lastUser, userRole, roles, rolesList, current, raced>>
  BY DEF RoleUnknown, db, rdb, hist
<1>9. BeginRole(t) => UNCHANGED <<users, lastUser, userRole, roles, rolesList, current, raced>>
  BY DEF BeginRole, db, rdb, hist
<1>10. AbortRole(t) => UNCHANGED <<users, lastUser, userRole, roles, rolesList, current, raced>>
  BY DEF AbortRole, db, rdb, hist
<1>11. ReadUsers(t) => UNCHANGED <<users, lastUser, userRole, roles, rolesList, current, raced>>
  BY DEF ReadUsers, db, rdb, hist
<1>12. ReadRoles(t) => UNCHANGED <<users, lastUser, userRole, roles, rolesList, current, raced>>
  BY DEF ReadRoles, db, rdb, hist
<1>13. ReadInTx(t) => UNCHANGED <<users, lastUser, userRole, roles, rolesList, current, raced>>
  BY DEF ReadInTx, db, rdb, hist
<1>14. ReadFails(t) => UNCHANGED <<users, lastUser, userRole, roles, rolesList, current, raced>>
  BY DEF ReadFails, db, rdb, hist
<1>15. SetUsersList(t) => UNCHANGED <<users, lastUser, userRole, roles, rolesList, current, raced>>
  BY DEF SetUsersList, db, rdb, hist
<1>16. NewUsersMap(t) => UNCHANGED <<users, lastUser, userRole, roles, rolesList, current, raced>>
  BY DEF NewUsersMap, db, rdb, hist
<1>17. PutUser(t) => UNCHANGED <<users, lastUser, userRole, roles, rolesList, current, raced>>
  BY DEF PutUser, db, rdb, hist
<1>18. EndRefresh(t) => UNCHANGED <<users, lastUser, userRole, roles, rolesList, current, raced>>
  BY DEF EndRefresh, db, rdb, hist
<1> QED
  BY <1>1, <1>2, <1>3, <1>4, <1>5, <1>6, <1>7, <1>8, <1>9, <1>10, <1>11, <1>12, <1>13, <1>14, <1>15, <1>16, <1>17, <1>18 DEF Reads

LEMMA CopiesKind ==
  ASSUME DirectoryInv, NEW t \in Threads, Reads(t) \/ Writes(t)
  PROVE  usersList' \in Copy /\ usersMap' \in Copy
<1>0. usersList \in Copy /\ usersMap \in Copy
  BY DEF DirectoryInv, TablesOK
<1>1. CASE SetUsersList(t)
  BY <1>0, <1>1 DEF SetUsersList, DirectoryInv, Local
<1>2. CASE NewUsersMap(t)
  BY <1>0, <1>2, SameRow DEF NewUsersMap
<1>3. CASE PutUser(t)
  <2>1. PICK i : i = Least(run[t].todo)
    OBVIOUS
  <2>2. i \in Ids /\ run[t].rows \in Copy
    BY <1>3, <2>1, LeastOfIds DEF PutUser, DirectoryInv, Local
  <2>3. run[t].rows[i] \in Entry \cup {Null}
    BY <2>2 DEF Copy
  <2>4. usersList' = usersList
    BY <1>3 DEF PutUser
  <2>5. usersMap' = [usersMap EXCEPT ![i] = run[t].rows[i]] \/ usersMap' = usersMap
    BY <1>3, <2>1 DEF PutUser
  <2> QED
    BY <1>0, <2>2, <2>3, <2>4, <2>5 DEF Copy
<1>4. CASE ~ (SetUsersList(t) \/ NewUsersMap(t) \/ PutUser(t))
  <2>1. UNCHANGED cache
    BY <1>4 DEF Reads, Writes, Start, Load, Look, Take, CheckName, CheckEmail, InsertUser,
       UpdateUser, UpdatePassword, DeleteUser, DeleteUserRole, InsertUserRole, RoleUnknown,
       TakeRole, BeginRole, AbortRole, CommitRole, ReadUsers, ReadRoles, ReadInTx, ReadFails,
       EndRefresh
  <2> QED
    BY <1>0, <2>1 DEF cache
<1> QED
  BY <1>1, <1>2, <1>3, <1>4

LEMMA HistoriesKind ==
  ASSUME DirectoryInv, NEW t \in Threads, Reads(t) \/ Writes(t)
  PROVE  HistoriesOK'
<1>0. HistoriesOK /\ MaxStarts \in Nat /\ MaxFailures \in Nat /\ Threads # {}
  BY ConstantsAssumption DEF DirectoryInv
<1>1. Start(t) => HistoriesOK'
  BY <1>0 DEF Start, HistoriesOK
<1>2. ReadFails(t) => HistoriesOK'
  BY <1>0 DEF ReadFails, HistoriesOK
<1>3. EndRefresh(t) => HistoriesOK'
  BY <1>0 DEF EndRefresh, HistoriesOK
<1>4. InsertUserRole(t) => HistoriesOK'
  <2>1. run[t].in.id \in Ids \/ ~ At(t, "insertRole")
    BY DEF DirectoryInv, Sound, AskedRight, At
  <2> QED
    BY <1>0, <2>1 DEF InsertUserRole, NoteRace, HistoriesOK, In
<1>5. TakeRole(t) => HistoriesOK'
  BY <1>0 DEF TakeRole, HistoriesOK
<1>6. CommitRole(t) => HistoriesOK'
  <2>1. run[t].in.id \in Ids \/ ~ At(t, "commit")
    BY DEF DirectoryInv, Sound, AskedRight, OnItsWay, At
  <2> QED
    BY <1>0, <2>1 DEF CommitRole, NoteRace, HistoriesOK, In
<1>7. Load(t) => UNCHANGED <<starts, failures, lone, excused, raced>>
  BY DEF Load, hist
<1>8. Look(t) => UNCHANGED <<starts, failures, lone, excused, raced>>
  BY DEF Look, hist
<1>9. Take(t) => UNCHANGED <<starts, failures, lone, excused, raced>>
  BY DEF Take, hist
<1>10. CheckName(t) => UNCHANGED <<starts, failures, lone, excused, raced>>
  BY DEF CheckName, hist
<1>11. CheckEmail(t) => UNCHANGED <<starts, failures, lone, excused, raced>>
  BY DEF CheckEmail, hist
<1>12. InsertUser(t) => UNCHANGED <<starts, failures, lone, excused, raced>>
  BY DEF InsertUser, hist
<1>13. UpdateUser(t) => UNCHANGED <<starts, failures, lone, excused, raced>>
  BY DEF UpdateUser, hist
<1>14. UpdatePassword(t) => UNCHANGED <<starts, failures, lone, excused, raced>>
  BY DEF UpdatePassword, hist
<1>15. DeleteUser(t) => UNCHANGED <<starts, failures, lone, excused, raced>>
  BY DEF DeleteUser, hist
<1>16. DeleteUserRole(t) => UNCHANGED <<starts, failures, lone, excused, raced>>
  BY DEF DeleteUserRole, hist
<1>17. RoleUnknown(t) => UNCHANGED <<starts, failures, lone, excused, raced>>
  BY DEF RoleUnknown, hist
<1>18. BeginRole(t) => UNCHANGED <<starts, failures, lone, excused, raced>>
  BY DEF BeginRole, hist
<1>19. AbortRole(t) => UNCHANGED <<starts, failures, lone, excused, raced>>
  BY DEF AbortRole, hist
<1>20. ReadUsers(t) => UNCHANGED <<starts, failures, lone, excused, raced>>
  BY DEF ReadUsers, hist
<1>21. ReadRoles(t) => UNCHANGED <<starts, failures, lone, excused, raced>>
  BY DEF ReadRoles, hist
<1>22. ReadInTx(t) => UNCHANGED <<starts, failures, lone, excused, raced>>
  BY DEF ReadInTx, hist
<1>23. SetUsersList(t) => UNCHANGED <<starts, failures, lone, excused, raced>>
  BY DEF SetUsersList, hist
<1>24. NewUsersMap(t) => UNCHANGED <<starts, failures, lone, excused, raced>>
  BY DEF NewUsersMap, hist
<1>25. PutUser(t) => UNCHANGED <<starts, failures, lone, excused, raced>>
  BY DEF PutUser, hist
<1>26. UNCHANGED <<starts, failures, lone, excused, raced>> => HistoriesOK'
  BY <1>0 DEF HistoriesOK
<1> QED
  BY <1>1, <1>2, <1>3, <1>4, <1>5, <1>6, <1>7, <1>8, <1>9, <1>10, <1>11, <1>12, <1>13, <1>14, <1>15, <1>16, <1>17, <1>18, <1>19, <1>20, <1>21, <1>22, <1>23, <1>24, <1>25, <1>26 DEF Reads, Writes

LEMMA WritesKind ==
  ASSUME DirectoryInv, NEW t \in Threads, Writes(t)
  PROVE  /\ users' \in [Ids -> Row \cup {Null}] /\ lastUser' \in Ids
         /\ UNCHANGED roles /\ UNCHANGED rolesList
         /\ userRole' \subseteq Ids \X Roles
         /\ current' \in [Ids -> Row \cup {Null}]
<1>0. /\ users \in [Ids -> Row \cup {Null}] /\ lastUser \in Ids /\ userRole \subseteq Ids \X Roles
      /\ current \in [Ids -> Row \cup {Null}] /\ Sound(run[t]) /\ run[t].in \in Input
  BY DEF DirectoryInv, TablesOK, Sound, Local
<1>1. ASSUME At(t, "write"), run[t].op \in {"add", "update", "self"},
             NEW x, x.name = In(t).name, x.email = In(t).email
      PROVE  Fields(x) \in Row
  BY <1>0, <1>1 DEF Sound, AskedRight, Fields, Row, At, In
<1>2. CASE InsertUser(t)
  <2>1. PICK x : x = [In(t) EXCEPT !.id = lastUser']
    OBVIOUS
  <2>2. x.name = In(t).name /\ x.email = In(t).email /\ x.id = lastUser'
    BY <1>0, <2>1 DEF Input, In
  <2>3. lastUser' \in Ids
    BY <1>0, <1>2, ConstantsAssumption DEF InsertUser, Ids
  <2>4. Fields(x) \in Row
    BY <1>1, <1>2, <2>2 DEF InsertUser
  <2>5. users' = users \/ users' = [users EXCEPT ![lastUser'] = Fields(x)]
    BY <1>2, <2>1, <2>2 DEF InsertUser
  <2> QED
    BY <1>0, <1>2, <2>3, <2>4, <2>5 DEF InsertUser, rdb
<1>3. CASE UpdateUser(t)
  <2>1. Fields(In(t)) \in Row
    BY <1>1, <1>3 DEF UpdateUser
  <2>2. users' = users \/ users' = [users EXCEPT ![In(t).id] = Fields(In(t))]
    BY <1>3 DEF UpdateUser
  <2>3. current' = current \/ current' = [current EXCEPT ![In(t).id] = Fields(In(t))]
    BY <1>3 DEF UpdateUser
  <2> QED
    BY <1>0, <1>3, <2>1, <2>2, <2>3 DEF UpdateUser, rdb
<1>4. CASE DeleteUser(t)
  BY <1>0, <1>4 DEF DeleteUser, Without, rdb
<1>5. CASE DeleteUserRole(t)
  BY <1>0, <1>5 DEF DeleteUserRole, Without, rdb
<1>6. CASE InsertUserRole(t)
  <2>1. In(t).id \in Ids /\ In(t).role \in Roles
    BY <1>0, <1>6 DEF InsertUserRole, At, Sound, AskedRight, OnItsWay, In
  <2> QED
    BY <1>0, <1>6, <2>1 DEF InsertUserRole, rdb
<1>7. CASE TakeRole(t)
  BY <1>0, <1>7 DEF TakeRole, Without, rdb
<1>8. CASE CommitRole(t)
  <2>1. In(t).id \in Ids /\ In(t).role \in Roles
    BY <1>0, <1>8 DEF CommitRole, At, Sound, AskedRight, OnItsWay, In
  <2> QED
    BY <1>0, <1>8, <2>1 DEF CommitRole, Without, rdb
<1> QED
  BY <1>2, <1>3, <1>4, <1>5, <1>6, <1>7, <1>8 DEF Writes

-----------------------------------------------------------------------------
(* The keys.  Only BeginRole opens a transaction's second half.            *)
LEMMA ReadsHold ==
  ASSUME DirectoryInv, NEW t \in Threads, Reads(t), Wrote(t)'
  PROVE  In(t)' = In(t) /\ (Wrote(t) \/ CanHave(In(t).id, In(t).role))
<1>0. run \in [Threads -> Local] /\ run[t] \in Local
  BY DEF DirectoryInv
<1>e. End(t) => FALSE
  BY HandlerEnds DEF Wrote, Idle
<1>1. Start(t) => FALSE
  <2>1. ASSUME NEW op, NEW x,
               run' = [run EXCEPT ![t] =
                 [Idle EXCEPT !.pc = First(op), !.op = op, !.in = x, !.left = LookUps(op)]]
        PROVE  FALSE
    BY <1>0, <2>1 DEF Wrote, Idle
  <2> QED
    BY <2>1 DEF Start
<1>2. BeginRole(t) => In(t)' = In(t) /\ CanHave(In(t).id, In(t).role)
  BY <1>0 DEF BeginRole, Refresh, In, Local
<1>3. Load(t) => In(t)' = In(t) /\ Wrote(t)
  BY <1>0, <1>e DEF Load, Goto, Refresh, In, Wrote, Local
<1>4. Look(t) => In(t)' = In(t) /\ Wrote(t)
  BY <1>0, <1>e DEF Look, Goto, Refresh, In, Wrote, Local
<1>5. Take(t) => In(t)' = In(t) /\ Wrote(t)
  BY <1>0, <1>e DEF Take, Goto, Refresh, In, Wrote, Local
<1>6. CheckName(t) => In(t)' = In(t) /\ Wrote(t)
  BY <1>0, <1>e DEF CheckName, Goto, Refresh, In, Wrote, Local
<1>7. CheckEmail(t) => In(t)' = In(t) /\ Wrote(t)
  BY <1>0, <1>e DEF CheckEmail, Goto, Refresh, In, Wrote, Local
<1>8. UpdatePassword(t) => In(t)' = In(t) /\ Wrote(t)
  BY <1>0, <1>e DEF UpdatePassword, Goto, Refresh, In, Wrote, Local
<1>9. RoleUnknown(t) => In(t)' = In(t) /\ Wrote(t)
  BY <1>0, <1>e DEF RoleUnknown, Goto, Refresh, In, Wrote, Local
<1>10. AbortRole(t) => In(t)' = In(t) /\ Wrote(t)
  BY <1>0, <1>e DEF AbortRole, Goto, Refresh, In, Wrote, Local
<1>11. ReadUsers(t) => In(t)' = In(t) /\ Wrote(t)
  BY <1>0, <1>e DEF ReadUsers, Goto, Refresh, In, Wrote, Local
<1>12. ReadRoles(t) => In(t)' = In(t) /\ Wrote(t)
  BY <1>0, <1>e DEF ReadRoles, Goto, Refresh, In, Wrote, Local
<1>13. ReadInTx(t) => In(t)' = In(t) /\ Wrote(t)
  BY <1>0, <1>e DEF ReadInTx, Goto, Refresh, In, Wrote, Local
<1>14. ReadFails(t) => In(t)' = In(t) /\ Wrote(t)
  BY <1>0, <1>e DEF ReadFails, Goto, Refresh, In, Wrote, Local
<1>15. SetUsersList(t) => In(t)' = In(t) /\ Wrote(t)
  BY <1>0, <1>e DEF SetUsersList, Goto, Refresh, In, Wrote, Local
<1>16. NewUsersMap(t) => In(t)' = In(t) /\ Wrote(t)
  BY <1>0, <1>e DEF NewUsersMap, Goto, Refresh, In, Wrote, Local
<1>17. PutUser(t) => In(t)' = In(t) /\ Wrote(t)
  BY <1>0, <1>e DEF PutUser, Goto, Refresh, In, Wrote, Local
<1>18. EndRefresh(t) => In(t)' = In(t) /\ Wrote(t)
  BY <1>0, <1>e DEF EndRefresh, Goto, Refresh, In, Wrote, Local
<1> QED
  BY <1>1, <1>2, <1>3, <1>4, <1>5, <1>6, <1>7, <1>8, <1>9, <1>10, <1>11, <1>12, <1>13, <1>14, <1>15, <1>16, <1>17, <1>18 DEF Reads

LEMMA ReadsKeepKeys ==
  ASSUME DirectoryInv, NEW t \in Threads, Reads(t)
  PROVE  KeysHold'
<1>1. UNCHANGED users /\ UNCHANGED lastUser /\ UNCHANGED userRole /\ UNCHANGED roles
  BY ReadsLeaveTables
<1>2. \A b \in Threads : Wrote(b)' => users[In(b)'.id] # Null /\ In(b)'.role \in roles
  <2>1. Wrote(t)' => users[In(t)'.id] # Null /\ In(t)'.role \in roles
    BY ReadsHold DEF DirectoryInv, KeysHold, CanHave
  <2>2. \A b \in Threads \ {t} : run'[b] = run[b]
    BY OwnLocalsOnly DEF Reads, Handler
  <2> QED
    BY <2>1, <2>2 DEF DirectoryInv, KeysHold, Wrote, In
<1> QED
  BY <1>1, <1>2 DEF DirectoryInv, KeysHold, Present

LEMMA WritesRelease ==
  ASSUME DirectoryInv, NEW t \in Threads, Writes(t)
  PROVE  ~ Wrote(t)'
<1>0. run \in [Threads -> Local] /\ run[t] \in Local /\ Sound(run[t])
  BY DEF DirectoryInv
<1>e. End(t) => ~ Wrote(t)'
  BY HandlerEnds DEF Wrote, Idle
<1>1. InsertUser(t) => ~ Wrote(t)'
  BY <1>0, <1>e DEF InsertUser, At, Wrote, Sound, OnItsWay, Local
<1>2. UpdateUser(t) => ~ Wrote(t)'
  BY <1>0, <1>e DEF UpdateUser, At, Goto, Wrote, Sound, OnItsWay, Local
<1>3. DeleteUser(t) => ~ Wrote(t)'
  BY <1>0, <1>e DEF DeleteUser, At, Goto, Wrote, Sound, OnItsWay, Local
<1>4. DeleteUserRole(t) => ~ Wrote(t)'
  BY <1>0, <1>e DEF DeleteUserRole, At, Goto, Wrote, Sound, OnItsWay, Local
<1>5. InsertUserRole(t) => ~ Wrote(t)'
  BY <1>0, <1>e DEF InsertUserRole, At, Refresh, Wrote, Local
<1>6. TakeRole(t) \/ CommitRole(t) => ~ Wrote(t)'
  BY <1>e DEF TakeRole, CommitRole
<1> QED
  BY <1>1, <1>2, <1>3, <1>4, <1>5, <1>6 DEF Writes

(* What the others hold stays, if the row of the user they hold does.      *)
LEMMA OthersHold ==
  ASSUME DirectoryInv, NEW t \in Threads, Writes(t), UNCHANGED roles,
         \A b \in Threads \ {t} : Wrote(b) => users'[In(b).id] # Null
  PROVE  \A b \in Threads : Wrote(b)' => users'[In(b)'.id] # Null /\ In(b)'.role \in roles'
<1>1. ~ Wrote(t)'
  BY WritesRelease
<1>2. \A b \in Threads \ {t} : run'[b] = run[b]
  BY OwnLocalsOnly DEF Writes, Handler
<1> QED
  BY <1>1, <1>2 DEF DirectoryInv, KeysHold, Wrote, In

LEMMA InsertKeepsKeys ==
  ASSUME DirectoryInv, NEW t \in Threads, InsertUser(t) PROVE KeysHold'
<1>0. /\ users \in [Ids -> Row \cup {Null}] /\ lastUser \in Nat /\ lastUser' = lastUser + 1
      /\ lastUser' \in Ids /\ UNCHANGED userRole /\ UNCHANGED roles
      /\ users' \in [Ids -> Row \cup {Null}]
  <2>1. lastUser' \in Ids /\ users' \in [Ids -> Row \cup {Null}] /\ UNCHANGED roles
    BY WritesKind DEF Writes
  <2> QED
    BY <2>1 DEF InsertUser, DirectoryInv, TablesOK, Ids
<1>1. /\ 1 .. lastUser \subseteq 1 .. lastUser' /\ lastUser' \in 1 .. lastUser'
      /\ lastUser' \notin 1 .. lastUser
  BY <1>0
<1>2. \A i \in Ids \ {lastUser'} : users'[i] = users[i]
  <2>1. PICK x : x = [In(t) EXCEPT !.id = lastUser']
    OBVIOUS
  <2>2. x.id = lastUser'
    BY <2>1 DEF DirectoryInv, Local, Input, In
  <2>3. users' = users \/ users' = [users EXCEPT ![lastUser'] = Fields(x)]
    BY <2>1, <2>2 DEF InsertUser
  <2> QED
    BY <1>0, <2>3
<1>3. users[lastUser'] = Null
  BY <1>0, <1>1 DEF DirectoryInv, KeysHold, Present
<1>4. users'[lastUser'] # Null => WithName(users'[lastUser'].name) = {}
  <2>1. PICK x : x = [In(t) EXCEPT !.id = lastUser']
    OBVIOUS
  <2>2. x.id = lastUser'
    BY <2>1 DEF DirectoryInv, Local, Input, In
  <2>3. users' = users \/ (WithName(x.name) = {} /\ users' = [users EXCEPT ![lastUser'] = Fields(x)])
    BY <2>1, <2>2 DEF InsertUser
  <2> QED
    BY <1>0, <1>3, <2>3 DEF Fields
<1>5. \A i, j \in Present(users)' : users'[i].name = users'[j].name => i = j
  BY <1>0, <1>2, <1>4 DEF DirectoryInv, KeysHold, Present, WithName
<1>6. Present(users) \subseteq Present(users)'
  BY <1>2, <1>3 DEF Present
<1>7. Present(users)' \cup SystemUsers \subseteq 1 .. lastUser'
  BY <1>0, <1>1, <1>2 DEF DirectoryInv, KeysHold, Present
<1>8. \A b \in Threads : Wrote(b)' => users'[In(b)'.id] # Null /\ In(b)'.role \in roles'
  <2>1. \A b \in Threads \ {t} : Wrote(b) => users'[In(b).id] # Null
    BY <1>0, <1>2, <1>3 DEF DirectoryInv, KeysHold, Sound, OnItsWay, AskedRight, Wrote, In
  <2> QED
    BY <1>0, <2>1, OthersHold DEF Writes
<1> QED
  BY <1>0, <1>5, <1>6, <1>7, <1>8 DEF DirectoryInv, KeysHold

LEMMA UpdateKeepsKeys ==
  ASSUME DirectoryInv, NEW t \in Threads, UpdateUser(t) PROVE KeysHold'
<1> DEFINE i == In(t).id
<1>0. /\ users \in [Ids -> Row \cup {Null}] /\ UNCHANGED userRole /\ UNCHANGED roles
      /\ UNCHANGED lastUser
  BY DEF UpdateUser, DirectoryInv, TablesOK, rdb
<1>1. CASE UNCHANGED users
  BY <1>0, <1>1, OthersHold DEF DirectoryInv, KeysHold, Present, Writes
<1>2. CASE /\ users[i] # Null /\ WithName(In(t).name) \ {i} = {}
           /\ users' = [users EXCEPT ![i] = Fields(In(t))]
  <2>1. i \in Ids /\ Fields(In(t)) # Null
    <3>1. i \in Ids /\ Fields(In(t)) \in Row
      BY DEF UpdateUser, At, DirectoryInv, Sound, AskedRight, In, Fields, Row
    <3> QED
      BY <3>1, SameRow
  <2>2. Present(users)' = Present(users)
    BY <1>0, <1>2, <2>1 DEF Present
  <2>3. \A j, k \in Present(users)' : users'[j].name = users'[k].name => j = k
    BY <1>0, <1>2, <2>1, <2>2 DEF DirectoryInv, KeysHold, Present, WithName, Fields
  <2>4. \A b \in Threads \ {t} : Wrote(b) => users'[In(b).id] # Null
    BY <1>0, <1>2, <2>1 DEF DirectoryInv, KeysHold
  <2> QED
    BY <1>0, <2>2, <2>3, <2>4, OthersHold DEF DirectoryInv, KeysHold, Writes
<1> QED
  BY <1>1, <1>2 DEF UpdateUser

LEMMA DeleteKeepsKeys ==
  ASSUME DirectoryInv, NEW t \in Threads, DeleteUser(t) PROVE KeysHold'
<1> DEFINE i == In(t).id
<1>0. /\ users \in [Ids -> Row \cup {Null}] /\ UNCHANGED roles /\ UNCHANGED lastUser
      /\ Free(t, i)
  BY DEF DeleteUser, DirectoryInv, TablesOK, rdb
<1>1. CASE UNCHANGED <<users, userRole>>
  BY <1>0, <1>1, OthersHold DEF DirectoryInv, KeysHold, Present, Writes
<1>2. CASE users' = [users EXCEPT ![i] = Null] /\ userRole' = Without(i)
  <2>1. Present(users)' = Present(users) \ {i} /\ \A j \in Ids \ {i} : users'[j] = users[j]
    BY <1>0, <1>2 DEF Present
  <2>2. userRole' \subseteq Present(users)' \X roles
    BY <1>2, <2>1 DEF DirectoryInv, KeysHold, Without
  <2>3. \A b \in Threads \ {t} : Wrote(b) => users'[In(b).id] # Null
    BY <1>0, <2>1 DEF DirectoryInv, KeysHold, Free, Sound, AskedRight, OnItsWay, Wrote, In
  <2>4. \A j, k \in Present(users)' : users'[j].name = users'[k].name => j = k
    BY <2>1 DEF DirectoryInv, KeysHold, Present
  <2> QED
    BY <1>0, <2>1, <2>2, <2>3, <2>4, OthersHold DEF DirectoryInv, KeysHold, Writes
<1> QED
  BY <1>1, <1>2 DEF DeleteUser

LEMMA RoleWritesKeepKeys ==
  ASSUME DirectoryInv, NEW t \in Threads,
         DeleteUserRole(t) \/ InsertUserRole(t) \/ TakeRole(t) \/ CommitRole(t)
  PROVE  KeysHold'
<1>1. UNCHANGED users /\ UNCHANGED lastUser /\ UNCHANGED roles
  BY DEF DeleteUserRole, InsertUserRole, TakeRole, CommitRole, rdb
<1>2. userRole' \subseteq Present(users) \X roles
  <2>0. userRole \subseteq Present(users) \X roles
    BY DEF DirectoryInv, KeysHold
  <2>1. CASE DeleteUserRole(t) \/ TakeRole(t)
    BY <2>0, <2>1 DEF DeleteUserRole, TakeRole, Without
  <2>2. CASE InsertUserRole(t)
    <3>1. In(t).id \in Ids
      BY <2>2 DEF InsertUserRole, At, DirectoryInv, Sound, AskedRight, In
    <3>2. UNCHANGED userRole \/ (userRole' = userRole \cup {<<In(t).id, In(t).role>>}
                                  /\ users[In(t).id] # Null /\ In(t).role \in roles)
      BY <2>2 DEF InsertUserRole, CanHave
    <3>3. users[In(t).id] # Null => In(t).id \in Present(users)
      BY <3>1 DEF Present, DirectoryInv, TablesOK
    <3> QED
      BY <2>0, <3>2, <3>3
  <2>3. CASE CommitRole(t)
    <3>1. In(t).id \in Ids /\ Wrote(t)
      BY <2>3 DEF CommitRole, At, DirectoryInv, Sound, AskedRight, OnItsWay, In, Wrote
    <3>2. In(t).id \in Present(users) /\ In(t).role \in roles
      BY <3>1 DEF DirectoryInv, TablesOK, KeysHold, Present
    <3> QED
      BY <2>0, <2>3, <3>2 DEF CommitRole, Without
  <2> QED
    BY <2>1, <2>2, <2>3
<1>3. \A b \in Threads : Wrote(b)' => users'[In(b)'.id] # Null /\ In(b)'.role \in roles'
  BY <1>1, OthersHold DEF DirectoryInv, KeysHold, Writes
<1> QED
  BY <1>1, <1>2, <1>3 DEF DirectoryInv, KeysHold, Present

-----------------------------------------------------------------------------
LEMMA DirectoryInitially == Init => DirectoryInv
<1> SUFFICES ASSUME Init PROVE DirectoryInv
  OBVIOUS
<1>1. /\ users \in [Ids -> Row \cup {Null}] /\ Present(users) \subseteq Ids
      /\ SystemUsers \subseteq Present(users) /\ SystemUsers # {}
  BY ConstantsAssumption DEF Init, Present
<1>2. lastUser \in Present(users) /\ \A j \in Present(users) : j <= lastUser
  <2>1. \E i \in Present(users) : \A j \in Present(users) : j <= i
    BY <1>1, GreatestOfIds
  <2> QED
    BY <2>1 DEF Init
<1>3. Present(users) \cup SystemUsers \subseteq 1 .. lastUser
  BY <1>1, <1>2 DEF Ids
<1>4. userRole \subseteq Present(users) \X Roles /\ roles = Roles /\ rolesList = Roles
  BY ConstantsAssumption DEF Init, Present
<1>5. Table \in Copy
  <2>1. \A i \in Ids : RolesOf(i) \subseteq Roles
    BY <1>4 DEF RolesOf
  <2>2. \A i \in Ids : users[i] # Null =>
          [name |-> users[i].name, email |-> users[i].email, roles |-> RolesOf(i)] \in Entry
    BY <1>1, <2>1 DEF Row, Entry
  <2> QED
    BY <1>1, <2>2 DEF Table, Copy
<1>6. usersList \in Copy /\ usersMap \in Copy
  BY <1>5, SameRow DEF Init
<1>7. run \in [Threads -> Local] /\ \A t \in Threads : Sound(run[t]) /\ run[t] = Idle
  BY SameRow DEF Init
<1>8. TablesOK
  BY <1>1, <1>2, <1>4, <1>6 DEF Init, TablesOK
<1>9. HistoriesOK
  BY ConstantsAssumption DEF Init, HistoriesOK
<1>10. KeysHold
  <2>1. \A t \in Threads : ~ Wrote(t)
    BY <1>7 DEF Wrote, Idle
  <2>2. \A i, j \in Present(users) : users[i].name = users[j].name => i = j
    BY ConstantsAssumption DEF Init, Present
  <2> QED
    BY <1>3, <1>4, <2>1, <2>2 DEF KeysHold
<1> QED
  BY <1>7, <1>8, <1>9, <1>10 DEF DirectoryInv

LEMMA OthersKeepDirectory ==
  ASSUME DirectoryInv,
         (\E t \in Threads : SignIn(Self[t])) \/ (\E r \in Roles : RemoveRole(r))
           \/ SetRolesList \/ UNCHANGED vars
  PROVE  DirectoryInv'
<1> USE DEF db, rdb, cache, hist
<1>1. CASE \E t \in Threads : SignIn(Self[t])
  <2>1. PICK i \in Ids : SignIn(i)
    BY <1>1, ConstantsAssumption
  <2>2. /\ current' \in [Ids -> Row \cup {Null}] /\ run' = run
        /\ UNCHANGED <<users, lastUser, userRole, roles, rolesList, usersList, usersMap>>
        /\ UNCHANGED <<starts, failures, lone, excused, raced>>
    BY <2>1 DEF SignIn, DirectoryInv, TablesOK
  <2> QED
    BY <2>2 DEF DirectoryInv, TablesOK, HistoriesOK, KeysHold, Present, Wrote, In
<1>2. CASE \E r \in Roles : RemoveRole(r)
  <2>1. PICK r \in Roles : RemoveRole(r)
    BY <1>2
  <2>2. TablesOK'
    BY <2>1 DEF RemoveRole, DirectoryInv, TablesOK
  <2>3. HistoriesOK'
    BY <2>1 DEF RemoveRole, DirectoryInv, HistoriesOK
  <2>4. UNCHANGED users /\ UNCHANGED run /\ UNCHANGED lastUser
    BY <2>1 DEF RemoveRole
  <2>5. userRole' \subseteq Present(users) \X roles'
    BY <2>1 DEF RemoveRole, DirectoryInv, KeysHold
  <2>6. \A t \in Threads : Wrote(t) => In(t).role \in roles'
    BY <2>1 DEF RemoveRole, DirectoryInv, KeysHold
  <2> QED
    BY <2>2, <2>3, <2>4, <2>5, <2>6 DEF DirectoryInv, KeysHold, Present, Wrote, In
<1>3. CASE SetRolesList
  BY <1>3 DEF SetRolesList, DirectoryInv, TablesOK, HistoriesOK, KeysHold, Present, Wrote, In
<1>4. CASE UNCHANGED vars
  BY <1>4 DEF vars, DirectoryInv, TablesOK, HistoriesOK, KeysHold, Present, Wrote, In
<1> QED
  BY <1>1, <1>2, <1>3, <1>4

LEMMA StepReadsOrWrites ==
  ASSUME NEW t \in Threads, Start(t) \/ Handler(t)
  PROVE  Reads(t) \/ Writes(t)
  BY DEF Handler, Reads, Writes

LEMMA DirectoryKept == DirectoryInv /\ [Next]_vars => DirectoryInv'
<1> SUFFICES ASSUME DirectoryInv, [Next]_vars PROVE DirectoryInv'
  OBVIOUS
<1>1. ASSUME NEW t \in Threads, Start(t) \/ Handler(t) PROVE DirectoryInv'
  <2>1. Reads(t) \/ Writes(t)
    BY <1>1, StepReadsOrWrites
  <2>2. run' \in [Threads -> Local] /\ \A b \in Threads : Sound(run'[b])
    BY <1>1, LocalsSound
  <2>3. usersList' \in Copy /\ usersMap' \in Copy
    BY <2>1, CopiesKind
  <2>4. HistoriesOK'
    BY <2>1, HistoriesKind
  <2>5. TablesOK'
    <3>1. CASE Reads(t)
      <4>1. UNCHANGED <<users, lastUser, userRole, roles, rolesList, current, raced>>
        BY <3>1, ReadsLeaveTables
      <4> QED
        BY <2>3, <4>1 DEF DirectoryInv, TablesOK
    <3>2. CASE Writes(t)
      <4>1. UNCHANGED roles /\ UNCHANGED rolesList
        BY <3>2, WritesKind
      <4> QED
        BY <2>3, <3>2, <4>1, WritesKind DEF DirectoryInv, TablesOK
    <3> QED
      BY <2>1, <3>1, <3>2
  <2>6. KeysHold'
    BY <2>1, ReadsKeepKeys, InsertKeepsKeys, UpdateKeepsKeys, DeleteKeepsKeys, RoleWritesKeepKeys
       DEF Writes
  <2> QED
    BY <2>2, <2>4, <2>5, <2>6 DEF DirectoryInv
<1> QED
  BY <1>1, OthersKeepDirectory DEF Next

(* Every variable keeps its kind, login names are unique and the foreign   *)
(* keys of user_role hold, for any number of threads, users and roles.     *)
THEOREM DirectoryTypes == Spec => []TypeOK
<1>1. DirectoryInv => TypeOK
  <2> SUFFICES ASSUME DirectoryInv PROVE TypeOK
    OBVIOUS
  <2>1. \A t \in Threads : run[t] \in Local
    BY DEF DirectoryInv
  <2> QED
    BY <2>1 DEF DirectoryInv, TablesOK, HistoriesOK, KeysHold, TypeOK, Local, Copy
<1>2. Spec => []DirectoryInv
  BY DirectoryInitially, DirectoryKept, PTL DEF Spec
<1> QED
  BY <1>1, <1>2, PTL

-----------------------------------------------------------------------------
(* System users.                                                           *)
KeptUser(i) == users'[i] = users[i] /\ RolesOf(i)' = RolesOf(i) \cap roles'

LEMMA RolesExist == ASSUME DirectoryInv, NEW i PROVE RolesOf(i) \cap roles = RolesOf(i)
  BY DEF RolesOf, DirectoryInv, KeysHold

(* Rows of user_role of one user leave those of another alone.             *)
LEMMA OtherRolesStay ==
  ASSUME NEW j, NEW i, i # j,
         \/ userRole' = Without(j)
         \/ \E r : userRole' = userRole \cup {<<j, r>>}
         \/ \E r : userRole' = Without(j) \cup {<<j, r>>}
  PROVE  RolesOf(i)' = RolesOf(i)
<1>1. {x \in userRole' : x[1] = i} = {x \in userRole : x[1] = i}
  BY DEF Without
<1> QED
  BY <1>1 DEF RolesOf

LEMMA WritesKeepSystemUsers ==
  ASSUME DirectoryInv, NEW t \in Threads, Writes(t), NEW i \in SystemUsers
  PROVE  KeptUser(i)
<1>0. /\ users \in [Ids -> Row \cup {Null}] /\ UNCHANGED roles /\ RolesOf(i) \cap roles = RolesOf(i)
      /\ i \in Ids /\ i \in 1 .. lastUser /\ lastUser \in Nat /\ Sound(run[t])
  BY WritesKind, RolesExist, ConstantsAssumption DEF DirectoryInv, TablesOK, KeysHold, Ids
<1>1. CASE InsertUser(t)
  <2>1. lastUser' # i /\ UNCHANGED userRole
    BY <1>0, <1>1 DEF InsertUser
  <2>2. PICK x : x = [In(t) EXCEPT !.id = lastUser']
    OBVIOUS
  <2>3. x.id = lastUser'
    BY <2>2 DEF DirectoryInv, Local, Input, In
  <2>4. users' = users \/ users' = [users EXCEPT ![lastUser'] = Fields(x)]
    BY <1>1, <2>2, <2>3 DEF InsertUser
  <2> QED
    BY <1>0, <2>1, <2>4 DEF KeptUser, RolesOf
<1>2. CASE UpdateUser(t)
  BY <1>0, <1>2 DEF UpdateUser, Editable, KeptUser, RolesOf
<1>3. CASE DeleteUser(t)
  <2>1. CASE UNCHANGED <<users, userRole>>
    BY <1>0, <2>1 DEF KeptUser, RolesOf
  <2>2. CASE /\ In(t).id # i /\ users' = [users EXCEPT ![In(t).id] = Null]
             /\ userRole' = Without(In(t).id)
    BY <1>0, <2>2, OtherRolesStay DEF KeptUser
  <2> QED
    BY <1>3, <2>1, <2>2 DEF DeleteUser, Editable
<1>4. CASE DeleteUserRole(t) \/ InsertUserRole(t) \/ TakeRole(t) \/ CommitRole(t)
  <2>1. In(t).id # i
    BY <1>0, <1>4 DEF DeleteUserRole, InsertUserRole, TakeRole, CommitRole, At, Sound,
       OnItsWay, In
  <2>2. UNCHANGED users
    BY <1>4 DEF DeleteUserRole, InsertUserRole, TakeRole, CommitRole
  <2>3. \/ UNCHANGED userRole \/ userRole' = Without(In(t).id)
        \/ \E r : userRole' = userRole \cup {<<In(t).id, r>>}
        \/ \E r : userRole' = Without(In(t).id) \cup {<<In(t).id, r>>}
    BY <1>4 DEF DeleteUserRole, InsertUserRole, TakeRole, CommitRole
  <2>4. RolesOf(i)' = RolesOf(i)
    <3>1. CASE UNCHANGED userRole
      BY <3>1 DEF RolesOf
    <3> QED
      BY <2>1, <2>3, <3>1, OtherRolesStay
  <2> QED
    BY <1>0, <2>2, <2>4 DEF KeptUser
<1> QED
  BY <1>1, <1>2, <1>3, <1>4 DEF Writes

LEMMA StepKeepsSystemUsers ==
  ASSUME DirectoryInv, [Next]_vars, NEW i \in SystemUsers PROVE KeptUser(i)
<1> USE DEF db, rdb, cache, hist
<1>0. RolesOf(i) \cap roles = RolesOf(i)
  BY RolesExist
<1>1. ASSUME NEW t \in Threads, Start(t) \/ Handler(t) PROVE KeptUser(i)
  <2>1. CASE Reads(t)
    <3>1. UNCHANGED users /\ UNCHANGED userRole /\ UNCHANGED roles
      BY <2>1, ReadsLeaveTables
    <3> QED
      BY <1>0, <3>1 DEF KeptUser, RolesOf
  <2> QED
    BY <1>1, <2>1, WritesKeepSystemUsers, StepReadsOrWrites
<1>2. CASE \E r \in Roles : RemoveRole(r)
  <2>1. PICK r \in Roles : RemoveRole(r)
    BY <1>2
  <2>2. UNCHANGED users /\ roles' = roles \ {r} /\ userRole' = {ur \in userRole : ur[2] # r}
    BY <2>1 DEF RemoveRole
  <2>3. RolesOf(i)' = RolesOf(i) \ {r}
    BY <2>2 DEF RolesOf
  <2> QED
    BY <1>0, <2>2, <2>3 DEF KeptUser
<1>3. CASE UNCHANGED <<users, userRole, roles>>
  BY <1>0, <1>3 DEF KeptUser, RolesOf
<1>4. (\E t \in Threads : SignIn(Self[t])) \/ SetRolesList \/ UNCHANGED vars =>
        UNCHANGED <<users, userRole, roles>>
  BY DEF SignIn, SetRolesList, vars
<1> QED
  BY <1>1, <1>2, <1>3, <1>4 DEF Next

(* No handler changes a system user or its roles, whatever the copies say  *)
(* while other threads fill them.                                          *)
THEOREM SystemUsersStay == Spec => SystemUsersKept
<1>1. DirectoryInv /\ [Next]_vars =>
        [\A i \in SystemUsers : users'[i] = users[i] /\ RolesOf(i)' = RolesOf(i) \cap roles']_vars
  BY StepKeepsSystemUsers DEF KeptUser
<1>2. Spec => []DirectoryInv
  BY DirectoryInitially, DirectoryKept, PTL DEF Spec
<1> QED
  BY <1>1, <1>2, PTL DEF Spec, SystemUsersKept

-----------------------------------------------------------------------------
(* Two roles.  Who is about to insert a role has deleted the old one, and  *)
(* whoever inserts one in between notes the race.                          *)
OneRole(i) == i \in raced \/ \A r, q \in RolesOf(i) : r = q
Cleared(t) == At(t, "insertRole") => In(t).id \in raced \/ RolesOf(In(t).id) = {}
RolesInv == (\A i \in Ids : OneRole(i)) /\ (\A t \in Threads : Cleared(t))

LEMMA ReadsInsertNothing ==
  ASSUME DirectoryInv, NEW t \in Threads, Reads(t)
  PROVE  ~ At(t, "insertRole")'
<1>0. run \in [Threads -> Local] /\ run[t] \in Local
  BY DEF DirectoryInv
<1>e. End(t) => ~ At(t, "insertRole")'
  BY HandlerEnds DEF At, Idle
<1>1. Start(t) => ~ At(t, "insertRole")'
  <2>1. ASSUME NEW op \in Ops, NEW x,
               run' = [run EXCEPT ![t] =
                 [Idle EXCEPT !.pc = First(op), !.op = op, !.in = x, !.left = LookUps(op)]]
        PROVE  ~ At(t, "insertRole")'
    BY <1>0, <2>1 DEF At, Idle, First, Ops
  <2> QED
    BY <2>1 DEF Start
<1>2. Take(t) => ~ At(t, "insertRole")'
  <2>1. run[t].pc = "take" => AfterLook(run[t].op) \in {"name", "write", "begin"}
    BY DEF DirectoryInv, Sound, OnItsWay, AfterLook
  <2> QED
    BY <1>0, <1>e, <2>1 DEF Take, At, Local
<1>3. EndRefresh(t) => ~ At(t, "insertRole")'
  BY <1>0, <1>e DEF EndRefresh, At, Local
<1>4. Load(t) => ~ At(t, "insertRole")'
  BY <1>0, <1>e DEF Load, At, Goto, Refresh, Local
<1>5. Look(t) => ~ At(t, "insertRole")'
  BY <1>0, <1>e DEF Look, At, Goto, Refresh, Local
<1>6. CheckName(t) => ~ At(t, "insertRole")'
  BY <1>0, <1>e DEF CheckName, At, Goto, Refresh, Local
<1>7. CheckEmail(t) => ~ At(t, "insertRole")'
  BY <1>0, <1>e DEF CheckEmail, At, Goto, Refresh, Local
<1>8. UpdatePassword(t) => ~ At(t, "insertRole")'
  BY <1>0, <1>e DEF UpdatePassword, At, Goto, Refresh, Local
<1>9. RoleUnknown(t) => ~ At(t, "insertRole")'
  BY <1>0, <1>e DEF RoleUnknown, At, Goto, Refresh, Local
<1>10. BeginRole(t) => ~ At(t, "insertRole")'
  BY <1>0, <1>e DEF BeginRole, At, Goto, Refresh, Local
<1>11. AbortRole(t) => ~ At(t, "insertRole")'
  BY <1>0, <1>e DEF AbortRole, At, Goto, Refresh, Local
<1>12. ReadUsers(t) => ~ At(t, "insertRole")'
  BY <1>0, <1>e DEF ReadUsers, At, Goto, Refresh, Local
<1>13. ReadRoles(t) => ~ At(t, "insertRole")'
  BY <1>0, <1>e DEF ReadRoles, At, Goto, Refresh, Local
<1>14. ReadInTx(t) => ~ At(t, "insertRole")'
  BY <1>0, <1>e DEF ReadInTx, At, Goto, Refresh, Local
<1>15. ReadFails(t) => ~ At(t, "insertRole")'
  BY <1>0, <1>e DEF ReadFails, At, Goto, Refresh, Local
<1>16. SetUsersList(t) => ~ At(t, "insertRole")'
  BY <1>0, <1>e DEF SetUsersList, At, Goto, Refresh, Local
<1>17. NewUsersMap(t) => ~ At(t, "insertRole")'
  BY <1>0, <1>e DEF NewUsersMap, At, Goto, Refresh, Local
<1>18. PutUser(t) => ~ At(t, "insertRole")'
  BY <1>0, <1>e DEF PutUser, At, Goto, Refresh, Local
<1> QED
  BY <1>1, <1>2, <1>3, <1>4, <1>5, <1>6, <1>7, <1>8, <1>9, <1>10, <1>11, <1>12, <1>13, <1>14, <1>15, <1>16, <1>17, <1>18 DEF Reads

(* As long as no role is added, nobody has two more.                       *)
LEMMA FewerRoles ==
  ASSUME RolesInv, userRole' \subseteq userRole, raced \subseteq raced'
  PROVE  /\ \A i \in Ids : OneRole(i)'
         /\ \A t \in Threads : run'[t] = run[t] => Cleared(t)'
<1>1. \A i : RolesOf(i)' \subseteq RolesOf(i)
  BY DEF RolesOf
<1>2. \A i \in Ids : OneRole(i)'
  BY <1>1 DEF RolesInv, OneRole
<1>3. ASSUME NEW t \in Threads, run'[t] = run[t] PROVE Cleared(t)'
  <2>1. /\ In(t)' = In(t) /\ (At(t, "insertRole")' <=> At(t, "insertRole")) /\ Cleared(t)
    BY <1>3 DEF In, At, RolesInv
  <2> QED
    BY <1>1, <2>1 DEF Cleared
<1> QED
  BY <1>2, <1>3

(* ... and who has nothing to insert, or only for a user without a role.   *)
LEMMA FewerRolesThen ==
  ASSUME RolesInv, userRole' \subseteq userRole, UNCHANGED raced, NEW t \in Threads,
         \A b \in Threads \ {t} : run'[b] = run[b], Cleared(t)'
  PROVE  RolesInv'
<1>1. /\ \A i \in Ids : OneRole(i)'
      /\ \A b \in Threads : run'[b] = run[b] => Cleared(b)'
  BY FewerRoles
<1>2. ASSUME NEW b \in Threads PROVE Cleared(b)'
  <2>1. CASE b = t
    BY <2>1
  <2>2. CASE b # t
    BY <1>1, <2>2
  <2> QED
    BY <2>1, <2>2
<1> QED
  BY <1>1, <1>2 DEF RolesInv

(* A role that is given: any other thread about to give one to the same    *)
(* user makes it a race.                                                   *)
LEMMA RoleGiven ==
  ASSUME DirectoryInv, RolesInv, NEW t \in Threads, NEW i \in Ids, NEW r,
         i = In(t).id, NoteRace(t, i), ~ At(t, "insertRole")',
         \A b \in Threads \ {t} : run'[b] = run[b],
         \A j \in Ids \ {i} : RolesOf(j)' = RolesOf(j),
         RolesOf(i)' = {r} \/ (At(t, "insertRole") /\ RolesOf(i)' = RolesOf(i) \cup {r})
  PROVE  RolesInv'
<1>1. raced \subseteq raced'
  BY DEF NoteRace
<1>2. OneRole(i)'
  <2>1. CASE RolesOf(i)' = {r}
    BY <2>1 DEF OneRole
  <2>2. CASE At(t, "insertRole") /\ RolesOf(i)' = RolesOf(i) \cup {r}
    BY <1>1, <2>2 DEF RolesInv, Cleared, OneRole
  <2> QED
    BY <2>1, <2>2
<1>3. \A j \in Ids : OneRole(j)'
  BY <1>1, <1>2 DEF RolesInv, OneRole
<1>4. ASSUME NEW b \in Threads \ {t}, At(b, "insertRole") PROVE In(b).id \in raced' \/ RolesOf(In(b).id)' = {}
  <2>1. Sound(run[b]) /\ In(b).id \in Ids /\ In(b).role # NoRole /\ run[b].op \in {"add", "update"}
    BY <1>4, ConstantsAssumption DEF DirectoryInv, Sound, AskedRight, OnItsWay, At, In
  <2>2. CASE In(b).id = i
    BY <2>1, <2>2 DEF NoteRace, GivenBy
  <2>3. CASE In(b).id # i
    <3>1. PICK j \in Ids : j = In(b).id
      BY <2>1
    <3>2. j = In(b).id' /\ RolesOf(j)' = RolesOf(j) /\ (j \in raced \/ RolesOf(j) = {})
      BY <1>4, <2>3, <3>1 DEF RolesInv, Cleared, In
    <3> QED
      BY <1>1, <3>1, <3>2
  <2> QED
    BY <2>2, <2>3
<1>5. \A b \in Threads : Cleared(b)'
  BY <1>4 DEF Cleared, At, In
<1> QED
  BY <1>3, <1>5 DEF RolesInv

LEMMA WritesKeepRoles ==
  ASSUME DirectoryInv, RolesInv, NEW t \in Threads, Writes(t)
  PROVE  RolesInv'
<1>0. /\ \A b \in Threads \ {t} : run'[b] = run[b]
      /\ run \in [Threads -> Local] /\ run[t] \in Local /\ Sound(run[t])
  BY OwnLocalsOnly DEF DirectoryInv, Writes, Handler
<1>e. End(t) => ~ At(t, "insertRole")'
  BY HandlerEnds DEF At, Idle
<1>1. CASE InsertUser(t)
  <2>1. UNCHANGED userRole /\ UNCHANGED raced
    BY <1>1 DEF InsertUser, hist
  <2>2. At(t, "insertRole")' => In(t)'.id = lastUser'
    <3>1. PICK x : x = [In(t) EXCEPT !.id = lastUser']
      OBVIOUS
    <3>2. x.id = lastUser'
      BY <1>0, <3>1 DEF Local, Input, In
    <3>3. End(t) \/ run' = [run EXCEPT ![t].in = x, ![t].pc = AfterWrite("add", x)]
      BY <1>1, <3>1 DEF InsertUser
    <3> QED
      BY <1>0, <1>e, <3>2, <3>3 DEF In, Local
  <2>3. RolesOf(lastUser') = {}
    <3>1. lastUser \in Nat /\ lastUser' \notin 1 .. lastUser
      BY <1>1 DEF InsertUser, DirectoryInv, TablesOK, Ids
    <3> QED
      BY <3>1 DEF RolesOf, DirectoryInv, KeysHold
  <2>4. \A i : RolesOf(i)' = RolesOf(i)
    BY <2>1 DEF RolesOf
  <2>5. Cleared(t)'
    BY <2>2, <2>3, <2>4 DEF Cleared
  <2> QED
    BY <1>0, <2>1, <2>5, FewerRolesThen
<1>2. CASE UpdateUser(t)
  <2>1. UNCHANGED userRole /\ UNCHANGED raced
    BY <1>2 DEF UpdateUser, hist
  <2>2. ~ At(t, "insertRole")'
    BY <1>0, <1>2, <1>e DEF UpdateUser, Goto, AfterWrite, At, Local
  <2> QED
    BY <1>0, <2>1, <2>2, FewerRolesThen DEF Cleared
<1>3. CASE DeleteUser(t) \/ TakeRole(t)
  <2>1. userRole' \subseteq userRole /\ UNCHANGED raced
    BY <1>3 DEF DeleteUser, TakeRole, Without, hist
  <2>2. ~ At(t, "insertRole")'
    BY <1>0, <1>3, <1>e DEF DeleteUser, TakeRole, Goto, At, Local
  <2> QED
    BY <1>0, <2>1, <2>2, FewerRolesThen DEF Cleared
<1>4. CASE DeleteUserRole(t)
  <2>1. userRole' = Without(In(t).id) /\ UNCHANGED raced
    BY <1>4 DEF DeleteUserRole, hist
  <2>2. In(t)' = In(t)
    BY <1>0, <1>4 DEF DeleteUserRole, Goto, In, Local
  <2>3. RolesOf(In(t).id)' = {}
    BY <2>1, <2>2 DEF RolesOf, Without
  <2>4. Cleared(t)'
    BY <2>2, <2>3 DEF Cleared
  <2>5. userRole' \subseteq userRole
    BY <2>1 DEF Without
  <2> QED
    BY <1>0, <2>1, <2>4, <2>5, FewerRolesThen
<1>5. CASE InsertUserRole(t)
  <2>1. In(t).id \in Ids /\ At(t, "insertRole")
    BY <1>0, <1>5 DEF InsertUserRole, At, Sound, AskedRight, In
  <2>2. ~ At(t, "insertRole")'
    BY <1>0, <1>5, <1>e DEF InsertUserRole, Refresh, At, Local
  <2>3. CASE UNCHANGED <<userRole, raced>>
    BY <1>0, <2>2, <2>3, FewerRolesThen DEF Cleared
  <2>4. CASE userRole' = userRole \cup {<<In(t).id, In(t).role>>} /\ NoteRace(t, In(t).id)
    <3>1. PICK i \in Ids : i = In(t).id
      BY <2>1
    <3>2. PICK r : r = In(t).role
      OBVIOUS
    <3>3. \A j \in Ids \ {i} : RolesOf(j)' = RolesOf(j)
      BY <2>4, <3>1, OtherRolesStay
    <3>4. RolesOf(i)' = RolesOf(i) \cup {r}
      <4>1. {x \in userRole' : x[1] = i} = {x \in userRole : x[1] = i} \cup {<<i, r>>}
        BY <2>4, <3>1, <3>2
      <4>2. ASSUME NEW S PROVE {ur[2] : ur \in S \cup {<<i, r>>}} = {ur[2] : ur \in S} \cup {r}
        <5>1. <<i, r>>[2] = r
          OBVIOUS
        <5> QED
          BY <5>1, ZenonT(30)
      <4> QED
        BY <4>1, <4>2 DEF RolesOf
    <3> QED
      BY <1>0, <2>1, <2>2, <2>4, <3>1, <3>3, <3>4, RoleGiven
  <2> QED
    BY <1>5, <2>3, <2>4 DEF InsertUserRole
<1>6. CASE CommitRole(t)
  <2>1. In(t).id \in Ids
    BY <1>0, <1>6 DEF CommitRole, At, Sound, AskedRight, OnItsWay, In
  <2>2. ~ At(t, "insertRole")'
    BY <1>6, <1>e DEF CommitRole
  <2>3. userRole' = Without(In(t).id) \cup {<<In(t).id, In(t).role>>} /\ NoteRace(t, In(t).id)
    BY <1>6 DEF CommitRole
  <2>4. PICK i \in Ids : i = In(t).id
    BY <2>1
  <2>5. PICK r : r = In(t).role
    OBVIOUS
  <2>6. \A j \in Ids \ {i} : RolesOf(j)' = RolesOf(j)
    BY <2>3, <2>4, OtherRolesStay
  <2>7. RolesOf(i)' = {r}
    <3>1. {x \in userRole' : x[1] = i} = {<<i, r>>}
      BY <2>3, <2>4, <2>5 DEF Without
    <3>2. {ur[2] : ur \in {<<i, r>>}} = {r}
      OBVIOUS
    <3> QED
      BY <3>1, <3>2 DEF RolesOf
  <2> QED
    BY <1>0, <2>2, <2>3, <2>4, <2>6, <2>7, RoleGiven
<1> QED
  BY <1>1, <1>2, <1>3, <1>4, <1>5, <1>6 DEF Writes

LEMMA StepKeepsRoles ==
  ASSUME DirectoryInv, RolesInv, [Next]_vars PROVE RolesInv'
<1> USE DEF db, rdb, cache, hist
<1>1. ASSUME NEW t \in Threads, Start(t) \/ Handler(t) PROVE RolesInv'
  <2>1. CASE Reads(t)
    <3>1. UNCHANGED userRole /\ UNCHANGED raced
      BY <2>1, ReadsLeaveTables
    <3>2. ~ At(t, "insertRole")'
      BY <2>1, ReadsInsertNothing
    <3>3. \A b \in Threads \ {t} : run'[b] = run[b]
      BY <1>1, OwnLocalsOnly
    <3> QED
      BY <3>1, <3>2, <3>3, FewerRolesThen DEF Cleared
  <2> QED
    BY <1>1, <2>1, WritesKeepRoles, StepReadsOrWrites
<1>2. CASE userRole' \subseteq userRole /\ UNCHANGED raced /\ UNCHANGED run
  BY <1>2, FewerRoles DEF RolesInv
<1>3. (\E t \in Threads : SignIn(Self[t])) \/ SetRolesList \/ (\E r \in Roles : RemoveRole(r))
        \/ UNCHANGED vars =>
        userRole' \subseteq userRole /\ UNCHANGED raced /\ UNCHANGED run
  BY DEF SignIn, SetRolesList, RemoveRole, vars
<1> QED
  BY <1>1, <1>2, <1>3 DEF Next

(* Every user of the installation script has at most one role.             *)
OneRoleAtStart ==
  \A x, y \in InitUserRole : x[1] = y[1] => x = y

(* A user has two roles only if two handlers were giving roles to it at    *)
(* once (addNewUser, updateUserRole), at start-up one role each provided.  *)
THEOREM TwoRolesNeedRace == OneRoleAtStart /\ Spec => []TwoRolesOnlyByRace
<1>1. OneRoleAtStart /\ Init => RolesInv
  <2> SUFFICES ASSUME OneRoleAtStart, Init PROVE RolesInv
    OBVIOUS
  <2>1. \A i \in Ids : OneRole(i)
    BY DEF Init, OneRoleAtStart, OneRole, RolesOf
  <2>2. \A t \in Threads : Cleared(t)
    BY DEF Init, Cleared, At, Idle
  <2> QED
    BY <2>1, <2>2 DEF RolesInv
<1>2. RolesInv => TwoRolesOnlyByRace
  <2> SUFFICES ASSUME RolesInv, NEW i \in Ids, i \notin raced
               PROVE  Cardinality(RolesOf(i)) \in {0, 1}
    BY DEF TwoRolesOnlyByRace
  <2>1. CASE RolesOf(i) = {}
    BY <2>1, FS_EmptySet
  <2>2. ASSUME NEW r \in RolesOf(i) PROVE Cardinality(RolesOf(i)) = 1
    <3>1. RolesOf(i) = {r}
      BY <2>2 DEF RolesInv, OneRole
    <3> QED
      BY <3>1, FS_Singleton
  <2> QED
    BY <2>1, <2>2
<1>3. DirectoryInv /\ RolesInv /\ [Next]_vars => RolesInv'
  BY StepKeepsRoles
<1>4. Spec => []DirectoryInv
  BY DirectoryInitially, DirectoryKept, PTL DEF Spec
<1> QED
  BY <1>1, <1>2, <1>3, <1>4, PTL DEF Spec


-----------------------------------------------------------------------------
(* The copies.  Who has run alone since it began finds copies and tables   *)
(* where it left them; x are its locals.                                   *)
Coherent == usersList = Table /\ usersMap = Table

(* What its refresh loads: the tables, and the role it has given itself.   *)
Shown(x) ==
  IF x.back = "commit" /\ Table[x.in.id] # Null
    THEN [Table EXCEPT ![x.in.id].roles = {x.in.role}] ELSE Table

(* No change of its own waits for a refresh.                               *)
Settled(x) ==
  \/ x.pc \in {"idle", "look", "take", "name", "email", "write", "begin"}
  \/ x.pc \in {"users", "roles"} /\ x.back # "end"

Refreshing(x) ==
  /\ x.pc = "roles" =>
       /\ x.todo # {} => x.back # "commit"
       /\ \A i \in x.todo : users[i] # Null /\ x.rows[i] = [Table[i] EXCEPT !.roles = {}]
       /\ \A i \in Ids \ x.todo : x.rows[i] = Shown(x)[i]
  /\ x.pc = "map" => usersList = Shown(x)
  /\ x.pc = "fill" =>
       /\ usersList = Shown(x) /\ x.rows = Shown(x)
       /\ \A i \in Ids : usersMap[i] = IF i \in x.todo THEN Null ELSE Shown(x)[i]
  /\ x.pc = "commit" => usersList = Shown(x) /\ usersMap = Shown(x)

Undisturbed(x) ==
  /\ x.snap # Null => x.op = "role" /\ x.snap = Table
  /\ Refreshing(x)
  /\ excused = {} /\ Settled(x) => Coherent

CoherenceInv ==
  /\ excused = {} \/ lone # Null => \A b \in Threads : b = lone \/ At(b, "idle")
  /\ lone \in Threads => Undisturbed(run[lone])
  /\ excused = {} /\ lone = Null => Coherent

LEMMA SameTable ==
  ASSUME UNCHANGED <<users, userRole>>
  PROVE  Table' = Table /\ (\A x : Shown(x)' = Shown(x)) /\ \A i : RolesOf(i)' = RolesOf(i)
<1>1. \A i : RolesOf(i)' = RolesOf(i)
  BY DEF RolesOf
<1>2. Table' = Table
  BY <1>1 DEF Table
<1> QED
  BY <1>1, <1>2 DEF Shown

LEMMA ShownKind ==
  ASSUME DirectoryInv, NEW t \in Threads
  PROVE  /\ Shown(run[t]) \in Copy /\ Shown(run[t]) = Seen(t, Table)
         /\ ~ Wrote(t) => Shown(run[t]) = Table
         /\ \A i \in Ids : Shown(run[t])[i] = Null <=> users[i] = Null
<1>1. Table \in Copy /\ \A i \in Ids : Table[i] = Null <=> users[i] = Null
  BY TableKind
<1>2. Shown(run[t]) = Seen(t, Table) /\ (~ Wrote(t) => Shown(run[t]) = Table)
  BY DEF Shown, Seen, Wrote, In
<1>3. Shown(run[t]) \in Copy
  BY <1>1, <1>2, SeenKind
<1>4. CASE Wrote(t) /\ Table[In(t).id] # Null
  <2>1. In(t).id \in Ids
    BY <1>4 DEF DirectoryInv, Sound, OnItsWay, AskedRight, Wrote, In
  <2>2. [Table[In(t).id] EXCEPT !.roles = {In(t).role}] \in Entry
    <3>1. In(t).role \in Roles /\ Table[In(t).id] \in Entry
      BY <1>1, <1>4, <2>1 DEF DirectoryInv, Sound, OnItsWay, Wrote, In, Copy
    <3> QED
      BY <3>1 DEF Entry
  <2> QED
    BY <1>1, <1>2, <1>3, <1>4, <2>1, <2>2, SameRow DEF Shown, Copy, Wrote, In
<1> QED
  BY <1>1, <1>2, <1>3, <1>4 DEF Shown, Wrote, In

LEMMA Moved ==
  ASSUME NEW t, NEW y, y = run'[t], Undisturbed(y)' PROVE Undisturbed(run[t])'
BY ZenonT(60) DEF Undisturbed, Refreshing, Settled, Shown

(* A step before or between refreshes, which leaves copies and tables be.  *)
LEMMA Calm ==
  ASSUME NEW x, NEW y, Undisturbed(x), Settled(x),
         UNCHANGED <<users, userRole, cache, excused>>,
         y.snap = Null \/ (y.snap = x.snap /\ y.op = x.op),
         y.pc \in {"idle", "look", "take", "name", "email", "write", "begin", "users"}
  PROVE  Undisturbed(y)'
BY SameTable DEF Undisturbed, Refreshing, Coherent, cache

(* A step after which a refresh is due.                                    *)
LEMMA Due ==
  ASSUME NEW y, y.snap = Null, y.pc \in {"users", "insertRole", "deleteRole"}, y.back = "end"
  PROVE  Undisturbed(y)'
BY DEF Undisturbed, Refreshing, Settled

(* The end of a handler.                                                   *)
LEMMA Ended ==
  ASSUME excused' = {} => Coherent'
  PROVE  Undisturbed(Idle)'
BY DEF Undisturbed, Refreshing, Idle

(* The steps of a handler that has run alone, in turn.                     *)
OwnStep(t) == DirectoryInv /\ Undisturbed(run[t]) /\ (\A b \in Threads \ {t} : At(b, "idle"))

LEMMA CalmSteps ==
  ASSUME NEW t \in Threads, OwnStep(t),
         \/ Load(t) \/ Look(t) \/ Take(t) \/ CheckName(t) \/ CheckEmail(t) \/ UpdatePassword(t)
         \/ RoleUnknown(t) \/ BeginRole(t) \/ AbortRole(t)
  PROVE  Undisturbed(run[t])'
<1>0. run \in [Threads -> Local] /\ Sound(run[t]) /\ run[t] \in Local /\ Undisturbed(run[t])
  BY DEF OwnStep, DirectoryInv, Sound
<1>1. UNCHANGED <<users, userRole, cache, excused>>
  BY DEF Load, Look, Take, CheckName, CheckEmail, UpdatePassword, RoleUnknown, BeginRole, AbortRole,
         db, hist
<1>2. Settled(run[t])
  BY DEF Load, Look, Take, CheckName, CheckEmail, UpdatePassword, RoleUnknown, BeginRole, AbortRole,
         At, Settled
<1>3. PICK y : y = run'[t]
  OBVIOUS
<1>4. /\ y.snap = Null \/ (y.snap = run[t].snap /\ y.op = run[t].op)
      /\ y.pc \in {"idle", "look", "take", "name", "email", "write", "begin", "users"}
  <2>1. CASE End(t)
    BY <1>0, <1>3, <2>1 DEF End, Idle
  <2>2. CASE Load(t) \/ BeginRole(t) \/ UpdatePassword(t)
    BY <1>0, <1>3, <2>1, <2>2 DEF Load, BeginRole, UpdatePassword, Refresh, Goto, Local
  <2>3. CASE Look(t) \/ CheckName(t) \/ CheckEmail(t)
    BY <1>0, <1>3, <2>1, <2>3 DEF Look, CheckName, CheckEmail, Goto, Local
  <2>4. CASE Take(t)
    <3>1. AfterLook(run[t].op) \in {"name", "write", "begin"}
      BY <1>0, <2>4 DEF Take, At, Sound, OnItsWay, AfterLook
    <3> QED
      BY <1>0, <1>3, <2>1, <2>4, <3>1 DEF Take, Local
  <2> QED
    BY <2>1, <2>2, <2>3, <2>4 DEF RoleUnknown, AbortRole
<1> QED
  BY <1>0, <1>1, <1>2, <1>3, <1>4, Calm, Moved

LEMMA UserWrites ==
  ASSUME NEW t \in Threads, OwnStep(t), InsertUser(t) \/ UpdateUser(t) \/ DeleteUser(t)
  PROVE  Undisturbed(run[t])'
<1>0. /\ run \in [Threads -> Local] /\ Sound(run[t]) /\ run[t] \in Local /\ Undisturbed(run[t])
      /\ run[t].pc = "write" /\ run[t].op # "role" /\ run[t].back = "end" /\ run[t].snap = Null
  BY DEF OwnStep, DirectoryInv, Sound, OnItsWay, InsertUser, UpdateUser, DeleteUser, At, Undisturbed
<1>1. CASE End(t) /\ UNCHANGED <<users, userRole>>
  <2>1. run'[t] = Idle
    BY <1>1, HandlerEnds DEF OwnStep
  <2>2. UNCHANGED <<cache, excused>>
    BY DEF InsertUser, UpdateUser, DeleteUser, hist
  <2> QED
    BY <1>0, <1>1, <2>1, <2>2, Calm, Moved DEF Settled, Idle
<1>2. CASE ~ End(t)
  <2>1. PICK y : y = run'[t]
    OBVIOUS
  <2>2. CASE InsertUser(t)
    <3>1. PICK x : x = [run[t].in EXCEPT !.id = lastUser']
      OBVIOUS
    <3>2. run' = [run EXCEPT ![t].in = x, ![t].pc = AfterWrite("add", x)]
      BY <1>2, <2>2, <3>1 DEF InsertUser, In
    <3>3. AfterWrite("add", x) \in {"users", "insertRole"}
      BY DEF AfterWrite
    <3>4. y.snap = Null /\ y.back = "end" /\ y.pc \in {"users", "insertRole"}
      BY <1>0, <2>1, <3>2, <3>3 DEF Local
    <3> QED
      BY <2>1, <3>4, Due, Moved
  <2>3. CASE UpdateUser(t) \/ DeleteUser(t)
    <3>1. PICK l \in {"users", "insertRole", "deleteRole"} : Goto(t, l)
      BY <1>2, <2>3 DEF UpdateUser, DeleteUser, AfterWrite
    <3>2. y.snap = Null /\ y.back = "end" /\ y.pc = l
      BY <1>0, <2>1, <3>1 DEF Local, Goto
    <3> QED
      BY <2>1, <3>1, <3>2, Due, Moved
  <2> QED
    BY <2>2, <2>3
<1>3. End(t) => UNCHANGED <<users, userRole>>
  <2>1. run'[t] = Idle /\ run[t].pc = "write" => run'[t].pc = "idle"
    BY DEF Idle
  <2>2. AfterWrite("add", [In(t) EXCEPT !.id = lastUser']) # "idle" /\ AfterWrite("update", In(t)) # "idle"
    BY DEF AfterWrite
  <2>3. End(t) => run'[t].pc = "idle"
    BY <1>0 DEF End, Idle
  <2> QED
    BY <1>0, <2>2, <2>3 DEF InsertUser, UpdateUser, DeleteUser, Goto, Local
<1> QED
  BY <1>1, <1>2, <1>3

LEMMA RoleWrites ==
  ASSUME NEW t \in Threads, OwnStep(t), DeleteUserRole(t) \/ InsertUserRole(t) \/ TakeRole(t)
  PROVE  Undisturbed(run[t])'
<1>0. run \in [Threads -> Local] /\ Sound(run[t]) /\ run[t] \in Local /\ Undisturbed(run[t])
  BY DEF OwnStep, DirectoryInv, Sound
<1>1. CASE TakeRole(t)
  <2>1. run'[t] = Idle /\ Settled(run[t]) /\ UNCHANGED <<users, cache>>
    BY <1>1, HandlerEnds DEF OwnStep, TakeRole, At, Settled
  <2>2. CASE UNCHANGED userRole
    <3>1. UNCHANGED excused
      BY <1>1, <2>2 DEF TakeRole
    <3> QED
      BY <1>0, <2>1, <2>2, <3>1, Calm, Moved DEF Idle
  <2>3. CASE userRole' # userRole
    BY <1>1, <2>1, <2>3, Ended, Moved DEF TakeRole
  <2> QED
    BY <2>2, <2>3
<1>2. CASE (DeleteUserRole(t) \/ InsertUserRole(t)) /\ ~ End(t)
  <2>1. run[t].op # "role" /\ run[t].back = "end" /\ run[t].snap = Null
    BY <1>0, <1>2 DEF Sound, OnItsWay, DeleteUserRole, InsertUserRole, At, Undisturbed
  <2>2. PICK y : y = run'[t]
    OBVIOUS
  <2>3. y.snap = Null /\ y.back = "end" /\ y.pc \in {"users", "insertRole"}
    BY <1>0, <1>2, <2>1, <2>2 DEF DeleteUserRole, InsertUserRole, Goto, Refresh, Local
  <2> QED
    BY <2>2, <2>3, Due, Moved
<1>3. CASE InsertUserRole(t) /\ End(t)
  <2>1. run'[t] = Idle
    BY <1>3, HandlerEnds DEF OwnStep
  <2>2. run'[t].pc # "users"
    BY <2>1 DEF Idle
  <2>3. ~ Refresh(t, "end")
    BY <1>0, <2>2 DEF Refresh, Local
  <2> QED
    BY <1>3, <2>1, <2>3, Ended, Moved DEF InsertUserRole
<1>4. DeleteUserRole(t) => ~ End(t)
  BY <1>0, HandlerEnds DEF OwnStep, DeleteUserRole, Goto, Local, Idle
<1> QED
  BY <1>1, <1>2, <1>3, <1>4

LEMMA RolesExcept ==
  ASSUME NEW e, NEW n, NEW m, NEW R, NEW S, e = [name |-> n, email |-> m, roles |-> R]
  PROVE  [e EXCEPT !.roles = S] = [name |-> n, email |-> m, roles |-> S]
OBVIOUS

LEMMA ReadUsersRight ==
  ASSUME NEW t \in Threads, OwnStep(t), ReadUsers(t) PROVE Undisturbed(run[t])'
<1>0. /\ run \in [Threads -> Local] /\ Sound(run[t]) /\ run[t] \in Local /\ Undisturbed(run[t])
      /\ DirectoryInv /\ run[t].pc = "users" /\ run[t].op # "role"
  BY DEF OwnStep, DirectoryInv, Sound, ReadUsers, At, InTx
<1>1. run[t].back # "commit" /\ run[t].snap = Null
  BY <1>0 DEF Sound, OnItsWay, Undisturbed
<1>2. PICK rows : rows = [i \in Ids |-> IF users[i] = Null THEN Null
                    ELSE [name |-> users[i].name, email |-> users[i].email, roles |-> {}]]
  OBVIOUS
<1>3. PICK y : y = run'[t]
  OBVIOUS
<1>4. /\ y.pc = "roles" /\ y.back = run[t].back /\ y.snap = Null /\ y.op = run[t].op
      /\ y.todo = Present(users) /\ y.rows = rows
  BY <1>0, <1>1, <1>2, <1>3 DEF ReadUsers, Local
<1>5. UNCHANGED <<users, userRole, usersList, usersMap, excused>>
  BY DEF ReadUsers, db, cache, hist
<1>6. Shown(y) = Table
  BY <1>1, <1>4 DEF Shown
<1>7. ASSUME NEW i \in y.todo
      PROVE  users[i] # Null /\ y.rows[i] = [Table[i] EXCEPT !.roles = {}]
  <2>1. i \in Ids /\ users[i] # Null
    BY <1>4 DEF Present
  <2>2. Table[i] = [name |-> users[i].name, email |-> users[i].email, roles |-> RolesOf(i)]
    BY <1>0, <2>1, TableKind
  <2>3. [Table[i] EXCEPT !.roles = {}] = [name |-> users[i].name, email |-> users[i].email, roles |-> {}]
    BY <2>2, RolesExcept
  <2> QED
    BY <1>2, <1>4, <2>1, <2>3
<1>8. \A i \in Ids \ y.todo : y.rows[i] = Shown(y)[i]
  BY <1>0, <1>2, <1>4, <1>6, TableKind DEF Present
<1>9. excused = {} /\ Settled(y) => Coherent
  BY <1>0, <1>4 DEF Undisturbed, Settled
<1>10. Undisturbed(y)'
  <2>1. y.snap' = Null /\ y.pc = "roles" /\ y.back # "commit"
    BY <1>1, <1>4
  <2>2. \A i \in y.todo : users'[i] # Null /\ y.rows[i] = [Table'[i] EXCEPT !.roles = {}]
    BY <1>5, <1>7, SameTable
  <2>3. \A i \in Ids \ y.todo : y.rows[i] = Shown(y)'[i]
    BY <1>5, <1>8, SameTable
  <2>4. Refreshing(y)'
    BY <2>1, <2>2, <2>3 DEF Refreshing
  <2>5. excused' = {} /\ Settled(y) => Coherent'
    BY <1>5, <1>9, SameTable DEF Coherent
  <2> QED
    BY <2>1, <2>4, <2>5 DEF Undisturbed, Settled
<1> QED
  BY <1>3, <1>10, Moved

LEMMA ReadRolesRight ==
  ASSUME NEW t \in Threads, OwnStep(t), ReadRoles(t) PROVE Undisturbed(run[t])'
<1>0. /\ run \in [Threads -> Local] /\ Sound(run[t]) /\ run[t] \in Local /\ Undisturbed(run[t])
      /\ DirectoryInv /\ run[t].pc = "roles" /\ run[t].todo # {} /\ run[t].todo \subseteq Ids
      /\ run[t].rows \in Copy
  BY DEF OwnStep, DirectoryInv, Sound, ReadRoles, At, Local
<1>1. PICK i \in Ids : i = Least(run[t].todo) /\ i \in run[t].todo
  BY <1>0, LeastOfIds
<1>2. PICK y : y = run'[t]
  OBVIOUS
<1>3. /\ y.pc = "roles" /\ y.back = run[t].back /\ y.snap = run[t].snap /\ y.op = run[t].op
      /\ y.todo = run[t].todo \ {i} /\ y.rows = [run[t].rows EXCEPT ![i].roles = RolesOf(i)]
      /\ y.in = run[t].in
  BY <1>0, <1>1, <1>2 DEF ReadRoles, Local
<1>4. UNCHANGED <<users, userRole, usersList, usersMap, excused>>
  BY DEF ReadRoles, db, cache, hist
<1>5. /\ run[t].back # "commit"
      /\ \A j \in run[t].todo : users[j] # Null /\ run[t].rows[j] = [Table[j] EXCEPT !.roles = {}]
      /\ \A j \in Ids \ run[t].todo : run[t].rows[j] = Table[j]
  BY <1>0 DEF Undisturbed, Refreshing, Shown
<1>6. Shown(y) = Table
  BY <1>3, <1>5 DEF Shown
<1>7. y.rows[i] = Table[i]
  <2>1. Table[i] = [name |-> users[i].name, email |-> users[i].email, roles |-> RolesOf(i)]
    BY <1>0, <1>1, <1>5, TableKind
  <2>2. run[t].rows[i] = [name |-> users[i].name, email |-> users[i].email, roles |-> {}]
    BY <1>1, <1>5, <2>1
  <2>3. y.rows[i] = [run[t].rows[i] EXCEPT !.roles = RolesOf(i)]
    BY <1>0, <1>3 DEF Copy
  <2> QED
    BY <2>1, <2>2, <2>3
<1>8. \A j \in Ids \ {i} : y.rows[j] = run[t].rows[j]
  BY <1>0, <1>3 DEF Copy
<1>9. /\ \A j \in y.todo : users[j] # Null /\ y.rows[j] = [Table[j] EXCEPT !.roles = {}]
      /\ \A j \in Ids \ y.todo : y.rows[j] = Shown(y)[j]
  BY <1>0, <1>3, <1>5, <1>6, <1>7, <1>8
<1>10. excused = {} /\ Settled(y) => Coherent
  BY <1>0, <1>3 DEF Undisturbed, Settled
<1>11. Undisturbed(y)'
  BY <1>0, <1>3, <1>4, <1>5, <1>9, <1>10, SameTable DEF Undisturbed, Refreshing, Coherent
<1> QED
  BY <1>2, <1>11, Moved

LEMMA ReadInTxRight ==
  ASSUME NEW t \in Threads, OwnStep(t), ReadInTx(t) PROVE Undisturbed(run[t])'
<1>0. /\ run \in [Threads -> Local] /\ Sound(run[t]) /\ run[t] \in Local /\ Undisturbed(run[t])
      /\ DirectoryInv /\ run[t].pc = "users" /\ run[t].op = "role" /\ run[t].todo = {}
  BY DEF OwnStep, DirectoryInv, Sound, LoopsRight, ReadInTx, At, InTx
<1>1. PICK y : y = run'[t]
  OBVIOUS
<1>2. (IF run[t].snap = Null THEN Table ELSE run[t].snap) = Table
  BY <1>0 DEF Undisturbed
<1>3. run' = [run EXCEPT ![t].pc = "roles", ![t].rows = Seen(t, Table), ![t].snap = Table]
  BY <1>2 DEF ReadInTx
<1>4. /\ y.pc = "roles" /\ y.back = run[t].back /\ y.snap = Table /\ y.op = "role"
      /\ y.todo = {} /\ y.rows = Seen(t, Table) /\ y.in = run[t].in
  BY <1>0, <1>1, <1>3 DEF Local
<1>5. UNCHANGED <<users, userRole, usersList, usersMap, excused>>
  BY DEF ReadInTx, db, cache, hist
<1>6. y.rows = Shown(y)
  BY <1>0, <1>4, ShownKind DEF Shown
<1>7. excused = {} /\ Settled(y) => Coherent
  BY <1>0, <1>4 DEF Undisturbed, Settled
<1>8. Undisturbed(y)'
  BY <1>4, <1>5, <1>6, <1>7, SameTable DEF Undisturbed, Refreshing, Coherent
<1> QED
  BY <1>1, <1>8, Moved

LEMMA ReadFailsRight ==
  ASSUME NEW t \in Threads, OwnStep(t), ReadFails(t) PROVE Undisturbed(run[t])'
<1>0. /\ Undisturbed(run[t]) /\ run'[t] = Idle /\ run[t].pc \in {"users", "roles"}
      /\ UNCHANGED <<users, userRole, cache>>
  BY HandlerEnds DEF OwnStep, ReadFails, db
<1>1. CASE run[t].back = "end"
  BY <1>0, <1>1, Ended, Moved DEF ReadFails
<1>2. CASE run[t].back # "end"
  <2>1. UNCHANGED excused /\ Settled(run[t])
    BY <1>0, <1>2 DEF ReadFails, Settled
  <2> QED
    BY <1>0, <2>1, Calm, Moved DEF Idle
<1> QED
  BY <1>1, <1>2

(* From here on the copies are being replaced.                             *)
LEMMA CopySteps ==
  ASSUME NEW t \in Threads, OwnStep(t), SetUsersList(t) \/ NewUsersMap(t) \/ PutUser(t)
  PROVE  Undisturbed(run[t])'
<1>0. /\ run \in [Threads -> Local] /\ run[t] \in Local /\ Undisturbed(run[t])
      /\ DirectoryInv /\ run[t].rows \in Copy /\ run[t].todo \subseteq Ids
      /\ UNCHANGED <<users, userRole, excused>>
      /\ usersList \in Copy /\ usersMap \in Copy /\ Shown(run[t]) \in Copy
  BY ShownKind DEF OwnStep, DirectoryInv, TablesOK, Sound, Local, SetUsersList, NewUsersMap, PutUser,
     db, hist
<1>1. PICK y : y = run'[t]
  OBVIOUS
<1>2. CASE SetUsersList(t)
  <2>1. /\ run[t].pc = "roles" /\ run[t].todo = {} /\ usersList' = run[t].rows
        /\ y.pc = "map" /\ y.back = run[t].back /\ y.snap = run[t].snap /\ y.op = run[t].op
        /\ y.in = run[t].in
    BY <1>0, <1>1, <1>2 DEF SetUsersList, At, Goto, Local
  <2>2. run[t].rows = Shown(run[t])
    BY <1>0, <2>1 DEF Undisturbed, Refreshing, Copy
  <2>3. Shown(y) = Shown(run[t])
    BY <2>1 DEF Shown
  <2>4. Undisturbed(y)'
    BY <1>0, <2>1, <2>2, <2>3, SameTable DEF Undisturbed, Refreshing, Settled
  <2> QED
    BY <1>1, <2>4, Moved
<1>3. CASE NewUsersMap(t)
  <2>1. /\ run[t].pc = "map" /\ UNCHANGED usersList /\ usersMap' = Empty
        /\ y.pc = "fill" /\ y.back = run[t].back /\ y.snap = run[t].snap /\ y.op = run[t].op
        /\ y.in = run[t].in /\ y.rows = usersList /\ y.todo = ToPut(usersList)
    BY <1>0, <1>1, <1>3 DEF NewUsersMap, At, Local
  <2>2. usersList = Shown(run[t])
    BY <1>0, <2>1 DEF Undisturbed, Refreshing
  <2>3. Shown(y) = Shown(run[t])
    BY <2>1 DEF Shown
  <2>4. \A i \in Ids : usersMap'[i] = IF i \in y.todo THEN Null ELSE Shown(y)[i]
    BY <2>1, <2>2, <2>3 DEF Empty, ToPut, Present
  <2>5. Undisturbed(y)'
    BY <1>0, <2>1, <2>2, <2>3, <2>4, SameTable DEF Undisturbed, Refreshing, Settled
  <2> QED
    BY <1>1, <2>5, Moved
<1>4. CASE PutUser(t)
  <2>1. PICK i \in Ids : i = Least(run[t].todo) /\ i \in run[t].todo
    BY <1>0, <1>4, LeastOfIds DEF PutUser
  <2>2. /\ run[t].pc = "fill" /\ UNCHANGED usersList
        /\ y.pc = "fill" /\ y.back = run[t].back /\ y.snap = run[t].snap /\ y.op = run[t].op
        /\ y.in = run[t].in /\ y.rows = run[t].rows /\ y.todo = run[t].todo \ {i}
    BY <1>0, <1>1, <1>4, <2>1 DEF PutUser, At, Local
  <2>3. usersMap' = [usersMap EXCEPT ![i] = run[t].rows[i]]
    <3>1. \A b \in Threads \ {t} : ~ Filling(b)
      BY DEF OwnStep, At, Filling
    <3> QED
      BY <1>4, <2>1, <3>1 DEF PutUser
  <2>4. Shown(y) = Shown(run[t])
    BY <2>2 DEF Shown
  <2>5. /\ usersList = Shown(y) /\ run[t].rows = Shown(y)
        /\ \A j \in Ids : usersMap[j] = IF j \in run[t].todo THEN Null ELSE Shown(y)[j]
    BY <1>0, <2>2, <2>4 DEF Undisturbed, Refreshing
  <2>6. \A j \in Ids : usersMap'[j] = IF j \in y.todo THEN Null ELSE Shown(y)[j]
    BY <1>0, <2>1, <2>2, <2>3, <2>5 DEF Copy
  <2>7. Undisturbed(y)'
    BY <1>0, <2>2, <2>5, <2>6, SameTable DEF Undisturbed, Refreshing, Settled
  <2> QED
    BY <1>1, <2>7, Moved
<1> QED
  BY <1>2, <1>3, <1>4

LEMMA EndRefreshRight ==
  ASSUME NEW t \in Threads, OwnStep(t), EndRefresh(t) PROVE Undisturbed(run[t])'
<1>0. /\ run \in [Threads -> Local] /\ run[t] \in Local /\ Undisturbed(run[t])
      /\ DirectoryInv /\ run[t].pc = "fill" /\ run[t].todo = {}
      /\ UNCHANGED <<users, userRole, usersList, usersMap>>
      /\ usersList \in Copy /\ usersMap \in Copy /\ Shown(run[t]) \in Copy
  BY ShownKind DEF OwnStep, DirectoryInv, TablesOK, Sound, EndRefresh, At, db, cache
<1>1. usersList = Shown(run[t]) /\ usersMap = Shown(run[t])
  BY <1>0 DEF Undisturbed, Refreshing, Copy
<1>2. run[t].back # "commit" => Coherent'
  BY <1>0, <1>1, SameTable, ShownKind DEF Coherent, Wrote
<1>3. CASE run[t].back = "end"
  <2>1. run'[t] = Idle
    BY <1>0, <1>3, HandlerEnds DEF EndRefresh
  <2> QED
    BY <1>2, <1>3, <2>1, Ended, Moved
<1>4. CASE run[t].back # "end"
  <2>1. PICK y : y = run'[t]
    OBVIOUS
  <2>2. /\ y.pc = run[t].back /\ y.back = run[t].back /\ y.snap = run[t].snap /\ y.op = run[t].op
        /\ y.in = run[t].in /\ run[t].back \in {"look", "take", "commit"}
    BY <1>0, <1>4, <2>1 DEF EndRefresh, Local
  <2>3. Shown(y) = Shown(run[t])
    BY <2>2 DEF Shown
  <2>4. Undisturbed(y)'
    BY <1>0, <1>1, <1>2, <2>2, <2>3, SameTable DEF Undisturbed, Refreshing, Settled
  <2> QED
    BY <2>1, <2>4, Moved
<1> QED
  BY <1>3, <1>4

LEMMA CommitRight ==
  ASSUME NEW t \in Threads, OwnStep(t), CommitRole(t) PROVE Undisturbed(run[t])'
<1>0. /\ Undisturbed(run[t]) /\ DirectoryInv /\ run[t].pc = "commit" /\ run[t].back = "commit"
      /\ UNCHANGED <<users, usersList, usersMap>> /\ run'[t] = Idle
      /\ Table \in Copy /\ Shown(run[t]) \in Copy
  BY ShownKind, TableKind, HandlerEnds
     DEF OwnStep, DirectoryInv, Sound, OnItsWay, CommitRole, At, cache
<1>1. PICK i \in Ids : i = run[t].in.id
  BY <1>0 DEF DirectoryInv, Sound, AskedRight
<1>2. PICK r : r = run[t].in.role
  OBVIOUS
<1>3. users[i] # Null
  BY <1>0, <1>1 DEF DirectoryInv, KeysHold, Wrote, In
<1>4. userRole' = Without(i) \cup {<<i, r>>}
  BY <1>1, <1>2 DEF CommitRole, In
<1>5. RolesOf(i)' = {r}
  <2>1. {x \in userRole' : x[1] = i} = {<<i, r>>}
    BY <1>4 DEF Without
  <2>2. {ur[2] : ur \in {<<i, r>>}} = {r}
    OBVIOUS
  <2> QED
    BY <2>1, <2>2 DEF RolesOf
<1>6. \A j \in Ids \ {i} : RolesOf(j)' = RolesOf(j)
  BY <1>4, OtherRolesStay
<1>7. Shown(run[t]) = [Table EXCEPT ![i].roles = {r}]
  BY <1>0, <1>1, <1>2, <1>3, TableKind DEF Shown
<1>8. Table' = [Table EXCEPT ![i].roles = {r}]
  <2>1. Table' = [j \in Ids |-> IF users[j] = Null THEN Null
                    ELSE [name |-> users[j].name, email |-> users[j].email, roles |-> RolesOf(j)']]
    BY <1>0 DEF Table
  <2>2. Table[i] = [name |-> users[i].name, email |-> users[i].email, roles |-> RolesOf(i)]
    BY <1>0, <1>3, TableKind
  <2>3. \A j \in Ids \ {i} : Table'[j] = Table[j]
    BY <1>6, <2>1 DEF Table
  <2>4. Table'[i] = [Table[i] EXCEPT !.roles = {r}]
    <3>1. Table'[i] = [name |-> users[i].name, email |-> users[i].email, roles |-> {r}]
      BY <1>3, <1>5, <2>1
    <3> QED
      BY <2>2, <3>1, RolesExcept
  <2>5. \A j \in Ids : [Table EXCEPT ![i].roles = {r}][j] = Table'[j]
    <3>1. PICK e : e = [Table[i] EXCEPT !.roles = {r}]
      OBVIOUS
    <3>2. [Table EXCEPT ![i].roles = {r}] = [Table EXCEPT ![i] = e]
      BY <3>1
    <3> QED
      BY <1>0, <2>3, <2>4, <3>1, <3>2 DEF Copy
  <2>6. Table' = [j \in Ids |-> Table'[j]]
    BY <2>1
  <2>7. [Table EXCEPT ![i].roles = {r}] = [j \in Ids |-> [Table EXCEPT ![i].roles = {r}][j]]
    BY <1>0 DEF Copy
  <2> QED
    BY <2>5, <2>6, <2>7
<1>9. Coherent'
  BY <1>0, <1>7, <1>8 DEF Undisturbed, Refreshing, Coherent
<1> QED
  BY <1>0, <1>9, Ended, Moved

LEMMA OwnStepRight ==
  ASSUME NEW t \in Threads, OwnStep(t), Handler(t) PROVE Undisturbed(run[t])'
BY CalmSteps, UserWrites, RoleWrites, ReadUsersRight, ReadRolesRight, ReadInTxRight, ReadFailsRight,
   CopySteps, EndRefreshRight, CommitRight DEF Handler

LEMMA HandlersAtWork ==
  ASSUME NEW t \in Threads, Handler(t)
  PROVE  /\ ~ At(t, "idle") /\ lone' = lone
         /\ lone = t \/ excused \subseteq excused'
<1> USE DEF hist
<1>1. CASE Load(t) \/ Look(t) \/ Take(t) \/ CheckName(t) \/ CheckEmail(t)
  BY <1>1 DEF Load, Look, Take, CheckName, CheckEmail, At
<1>2. CASE InsertUser(t) \/ UpdateUser(t) \/ UpdatePassword(t) \/ DeleteUser(t)
  BY <1>2 DEF InsertUser, UpdateUser, UpdatePassword, DeleteUser, At
<1>3. CASE DeleteUserRole(t) \/ InsertUserRole(t) \/ RoleUnknown(t) \/ TakeRole(t)
  BY <1>3 DEF DeleteUserRole, InsertUserRole, RoleUnknown, TakeRole, At
<1>4. CASE BeginRole(t) \/ AbortRole(t) \/ CommitRole(t)
  BY <1>4 DEF BeginRole, AbortRole, CommitRole, At
<1>5. CASE ReadUsers(t) \/ ReadRoles(t) \/ ReadInTx(t) \/ ReadFails(t)
  BY <1>5 DEF ReadUsers, ReadRoles, ReadInTx, ReadFails, At
<1>6. CASE SetUsersList(t) \/ NewUsersMap(t) \/ PutUser(t) \/ EndRefresh(t)
  BY <1>6 DEF SetUsersList, NewUsersMap, PutUser, EndRefresh, At
<1> QED
  BY <1>1, <1>2, <1>3, <1>4, <1>5, <1>6 DEF Handler

LEMMA NothingMoved ==
  ASSUME NEW x, Undisturbed(x), UNCHANGED <<users, userRole, cache, excused>>
  PROVE  Undisturbed(x)'
BY SameTable DEF Undisturbed, Refreshing, Settled, Coherent, cache

LEMMA IdleCoherent ==
  ASSUME DirectoryInv, CoherenceInv, \A b \in Threads : At(b, "idle"), excused = {}
  PROVE  Coherent
BY DEF DirectoryInv, HistoriesOK, CoherenceInv, Undisturbed, Settled, At

LEMMA StartKeepsCoherence ==
  ASSUME DirectoryInv, CoherenceInv, NEW t \in Threads, Start(t) PROVE CoherenceInv'
<1>0. Null \notin Threads /\ run \in [Threads -> Local]
  BY ConstantsAssumption DEF DirectoryInv
<1>1. CASE \A b \in Threads : At(b, "idle")
  <2>1. lone' = t /\ UNCHANGED <<users, userRole, cache, excused>>
    BY <1>1 DEF Start, db
  <2>2. Undisturbed(Idle)
    BY <1>1, IdleCoherent DEF Undisturbed, Refreshing, Idle
  <2>3. PICK op \in Ops, x \in Input : run' = [run EXCEPT ![t] =
          [Idle EXCEPT !.pc = First(op), !.op = op, !.in = x, !.left = LookUps(op)]]
    BY DEF Start, Inputs
  <2>4. PICK y : y = run'[t]
    OBVIOUS
  <2>5. y.snap = Null /\ y.pc \in {"look", "name", "write"}
    BY <1>0, <2>3, <2>4 DEF Idle, First
  <2>6. Undisturbed(run[t])'
    BY <2>1, <2>2, <2>4, <2>5, Calm, Moved DEF Settled, Idle
  <2>7. \A b \in Threads \ {t} : At(b, "idle")'
    BY <1>1, OwnLocalsOnly DEF At
  <2> QED
    BY <1>0, <2>1, <2>6, <2>7 DEF CoherenceInv
<1>2. CASE ~ \A b \in Threads : At(b, "idle")
  <2>1. lone' = Null /\ excused' # {}
    BY <1>2 DEF Start
  <2> QED
    BY <1>0, <2>1 DEF CoherenceInv
<1> QED
  BY <1>1, <1>2

LEMMA HandlerKeepsCoherence ==
  ASSUME DirectoryInv, CoherenceInv, NEW t \in Threads, Handler(t) PROVE CoherenceInv'
<1>0. Null \notin Threads /\ lone \in Threads \cup {Null} /\ ~ At(t, "idle") /\ lone' = lone
  BY ConstantsAssumption, HandlersAtWork DEF DirectoryInv, HistoriesOK
<1>1. CASE lone = t
  <2>1. OwnStep(t)
    BY <1>0, <1>1 DEF OwnStep, CoherenceInv
  <2>2. Undisturbed(run[t])'
    BY <2>1, OwnStepRight
  <2>3. \A b \in Threads \ {t} : At(b, "idle")'
    BY <2>1, OwnLocalsOnly DEF OwnStep, At
  <2> QED
    BY <1>0, <1>1, <2>2, <2>3 DEF CoherenceInv
<1>2. CASE lone # t
  <2>1. excused # {} /\ lone = Null
    BY <1>0, <1>2 DEF CoherenceInv
  <2>2. excused' # {}
    BY <1>2, <2>1, HandlersAtWork
  <2> QED
    BY <1>0, <2>1, <2>2 DEF CoherenceInv
<1> QED
  BY <1>1, <1>2

LEMMA StepKeepsCoherence ==
  ASSUME DirectoryInv, CoherenceInv, [Next]_vars PROVE CoherenceInv'
<1> USE DEF db, hist
<1>1. ASSUME UNCHANGED <<users, userRole, cache, run, lone, excused>> PROVE CoherenceInv'
  <2>1. ASSUME lone \in Threads PROVE Undisturbed(run[lone])'
    <3>1. PICK y : y = run[lone] /\ y = run'[lone]
      BY <1>1
    <3>2. Undisturbed(y)'
      BY <1>1, <2>1, <3>1, NothingMoved DEF CoherenceInv
    <3>3. Undisturbed(run[lone])'
      BY <1>1, <3>1, <3>2, ZenonT(60) DEF Undisturbed, Refreshing, Settled, Shown
    <3> QED
      BY <3>3
  <2>2. excused' = {} /\ lone' = Null => Coherent'
    BY <1>1, SameTable DEF CoherenceInv, Coherent, cache
  <2> QED
    BY <1>1, <2>1, <2>2 DEF CoherenceInv, At
<1>2. CASE (\E t \in Threads : SignIn(Self[t])) \/ SetRolesList \/ UNCHANGED vars
  BY <1>1, <1>2 DEF SignIn, SetRolesList, vars
<1>3. ASSUME NEW r \in Roles, RemoveRole(r) PROVE CoherenceInv'
  <2>1. lone' = Null /\ excused' # {} /\ Null \notin Threads
    BY <1>3, ConstantsAssumption DEF RemoveRole
  <2> QED
    BY <2>1 DEF CoherenceInv
<1> QED
  BY <1>2, <1>3, StartKeepsCoherence, HandlerKeepsCoherence DEF Next

LEMMA CoherenceAlways == Spec => [](DirectoryInv /\ CoherenceInv)
<1>1. Init => CoherenceInv
  <2> SUFFICES ASSUME Init PROVE CoherenceInv
    OBVIOUS
  <2>1. Null \notin Threads /\ lone = Null /\ \A b \in Threads : At(b, "idle")
    BY ConstantsAssumption DEF Init, At, Idle
  <2>2. excused = {} => Coherent
    BY DEF Init, Coherent
  <2> QED
    BY <2>1, <2>2 DEF CoherenceInv
<1> QED
  BY <1>1, DirectoryInitially, DirectoryKept, StepKeepsCoherence, PTL DEF Spec

(* A handler that ran by itself leaves both copies equal to the tables.    *)
THEOREM LoneHandlersLeaveCopiesRight == Spec => []CoherentAfterLoneHandler
<1>1. DirectoryInv /\ CoherenceInv => CoherentAfterLoneHandler
  BY IdleCoherent DEF CoherentAfterLoneHandler, Quiet, Coherent
<1> QED
  BY <1>1, CoherenceAlways, PTL

(* Who is turned away by a look at such copies is gone or a system user.   *)
LEMMA StepRefusesRight ==
  ASSUME DirectoryInv, CoherenceInv, NEW t \in Threads, [Next]_vars,
         run[t].pc \in {"look", "take"}, At(t, "idle")', excused = {}
  PROVE  users[In(t).id] = Null \/ In(t).id \in SystemUsers
<1>0. /\ run \in [Threads -> Local] /\ run[t] \in Local /\ ~ At(t, "idle")
      /\ In(t).id \in Ids /\ lone \in Threads \cup {Null}
  BY DEF DirectoryInv, HistoriesOK, Sound, AskedRight, OnItsWay, At, In
<1>1. lone = t /\ \A b \in Threads \ {t} : At(b, "idle")
  BY <1>0 DEF CoherenceInv
<1>2. usersMap = Table
  BY <1>1 DEF CoherenceInv, Undisturbed, Settled, Coherent
<1>3. ~ MayMiss(t, In(t).id) \/ users[In(t).id] = Null
  BY <1>0, <1>1, <1>2, TableKind DEF MayMiss, Filling, At
<1>4. ASSUME NEW b \in Threads, Start(b) \/ Handler(b) PROVE b = t
  BY <1>0, <1>4, OwnLocalsOnly DEF At
<1>5. CASE Look(t)
  <2>1. ~ run' = [run EXCEPT ![t].pc = "take", ![t].back = "end"]
    BY <1>0 DEF At, Local
  <2> QED
    BY <1>3, <1>5, <2>1 DEF Look
<1>6. CASE Take(t)
  <2>1. AfterLook(run[t].op) # "idle"
    BY <1>0, <1>6 DEF DirectoryInv, Sound, OnItsWay, Take, At, AfterLook
  <2>2. \A l : l # "idle" =>
          ~ run' = [run EXCEPT ![t].pc = l, ![t].left = @ - 1, ![t].back = "end"]
    BY <1>0 DEF At, Local
  <2> QED
    BY <1>3, <1>6, <2>1, <2>2 DEF Take, Accepted, Editable
<1>7. ~ Load(t)
  BY <1>0 DEF Load, Refresh, At, Local
<1>8. run' # run
  BY <1>0 DEF At
<1>9. Start(t) \/ Handler(t)
  BY <1>4, <1>8 DEF Next, SignIn, RemoveRole, SetRolesList, vars
<1> QED
  BY <1>5, <1>6, <1>7, <1>9
     DEF Handler, Start, At, CheckName, CheckEmail, InsertUser, UpdateUser, UpdatePassword,
         DeleteUser, DeleteUserRole, InsertUserRole, RoleUnknown, TakeRole, BeginRole, AbortRole,
         CommitRole, ReadUsers, ReadRoles, ReadInTx, ReadFails, SetUsersList, NewUsersMap, PutUser,
         EndRefresh

(* As long as nothing has spoilt the copies, a handler turns away only a   *)
(* request about a user that is gone or that nobody may change.            *)
THEOREM RefusalsAreRight == Spec => RefusalRight
<1>1. DirectoryInv /\ CoherenceInv /\ [Next]_vars =>
        [\A t \in Threads :
           /\ run[t].pc \in {"look", "take"} /\ At(t, "idle")'
           /\ excused = {}
           => users[In(t).id] = Null \/ In(t).id \in SystemUsers]_vars
  BY StepRefusesRight
<1> QED
  BY <1>1, CoherenceAlways, PTL DEF Spec, RefusalRight
=============================================================================
