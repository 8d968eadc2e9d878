--------------------------- MODULE RoleAuthProofs ---------------------------
(* Proofs about RoleAuth, for any number of administrators and users.      *)
EXTENDS RoleAuth, TLAPS

-----------------------------------------------------------------------------
(* Facts about the operators the actions are built from.                   *)

(* A sub-resource hangs below a resource, and its URL is one the map may   *)
(* have (resources_sub.resource_id is a foreign key).                      *)
LEMMA SubType ==
  ASSUME NEW s \in Subs
  PROVE  SubUrl(s) \in Urls /\ SubOf(s) \in Resources
  BY ConstantsAssumption DEF Urls, SubUrl, SubOf

(* The rows a load works from give it role ids, resources and              *)
(* sub-resources to loop over (loadResourceDefine:92, 103, 126).           *)
LEMMA RowsType ==
  ASSUME NEW rr \in SUBSET Rows
  PROVE  /\ RolesIn(rr) \in SUBSET RoleIds
         /\ ResourcesIn(rr) \in SUBSET Resources
         /\ SubsIn(rr) \in SUBSET Subs
  BY DEF RolesIn, ResourcesIn, SubsIn, Rows

(* The list a load makes for one resource is a set of role ids.            *)
LEMMA HoldersType ==
  ASSUME NEW rr, NEW res
  PROVE  Holders(rr, res) \in SUBSET RoleIds /\ ListOf(rr, res) = Holders(rr, res)
  BY DEF Holders, ListOf

(* So is the list a completed load leaves under a URL.                     *)
LEMMA EntryType ==
  ASSUME NEW rr \in SUBSET Rows, NEW u
  PROVE  Entry(rr, u) \in {Null} \cup SUBSET RoleIds
  BY RowsType, HoldersType DEF Entry

(* Reading an entry of the map as a set of roles.                          *)
LEMMA RolesOfType ==
  ASSUME NEW x \in {Null} \cup SUBSET RoleIds
  PROVE  /\ RolesOf(x) \in SUBSET RoleIds
         /\ x # Null => RolesOf(x) = x
  BY DEF RolesOf

(* What the installation script inserts is well typed.                     *)
LEMMA InitialRows ==
  /\ InitRows \in SUBSET ((1 .. InitRole) \X Resources)
  /\ InitRows \in SUBSET Rows
  /\ InitUserRole \in SUBSET (Users \X (1 .. InitRole))
  /\ 1 .. InitRole \in SUBSET RoleIds
  /\ InitRole \in RoleIds
  BY ConstantsAssumption DEF Rows, RoleIds

-----------------------------------------------------------------------------
(* The locals of a handler.                                                *)

(* Each step leaves its thread with well-typed locals ...                  *)
LEMMA MakeLocals ==
  /\ Idle \in AdminState
  /\ [pc |-> "load"] \in AdminState
  /\ \A r \in RoleIds, w \in SUBSET Resources :
       [pc |-> "assign", role |-> r, wanted |-> w] \in AdminState
  /\ \A r \in RoleIds : [pc |-> "remove", role |-> r] \in AdminState
  /\ \A op \in {"remove", "add", "update"} : ToRead("rolesRead", op) \in AdminState
  /\ \A op \in {"assign", "remove"} : ToRead("rrRead", op) \in AdminState
  /\ \A op \in {"remove", "add", "update"}, rs \in SUBSET RoleIds :
       [pc |-> "rolesSet", op |-> op, readRoles |-> rs] \in AdminState
  /\ \A op \in {"assign", "remove"}, rr \in SUBSET Rows :
       [pc |-> "rrSet", op |-> op, rows |-> rr] \in AdminState
  /\ \A rr \in SUBSET Rows : [pc |-> "publish", rows |-> rr] \in AdminState
  /\ \A rr \in SUBSET Rows, todo \in SUBSET Resources :
       Looping("resources", rr, todo) \in AdminState
  /\ \A rr \in SUBSET Rows, todo \in SUBSET NonRestricted :
       Looping("open", rr, todo) \in AdminState
  /\ \A rr \in SUBSET Rows, todo \in SUBSET Subs :
       /\ Looping("subGet", rr, todo) \in AdminState
       /\ \A s \in Subs :
            [pc |-> "subTake", rows |-> rr, todo |-> todo, sub |-> s] \in AdminState
       /\ \A s \in Subs, rs \in SUBSET RoleIds :
            [pc |-> "subPut", rows |-> rr, todo |-> todo, sub |-> s, attrs |-> rs]
              \in AdminState
  BY DEF AdminState, Idle, ToRead, Looping

(* ... and the next step finds the ones it needs.                          *)
LEMMA UseLocals ==
  ASSUME NEW x \in AdminState
  PROVE  /\ x.pc = "assign" => x.role \in RoleIds /\ x.wanted \in SUBSET Resources
         /\ x.pc = "remove" => x.role \in RoleIds
         /\ x.pc = "rolesRead" => x.op \in {"remove", "add", "update"}
         /\ x.pc = "rolesSet" => /\ x.op \in {"remove", "add", "update"}
                                 /\ x.readRoles \in SUBSET RoleIds
         /\ x.pc \in {"rrRead", "rrSet"} => x.op \in {"assign", "remove"}
         /\ x.pc \in {"rrSet", "publish", "resources", "subGet", "subTake", "subPut", "open"}
              => x.rows \in SUBSET Rows
         /\ x.pc = "resources" => x.todo \in SUBSET Resources
         /\ x.pc = "open" => x.todo \in SUBSET NonRestricted
         /\ x.pc \in {"subGet", "subTake", "subPut"} => x.todo \in SUBSET Subs
         /\ x.pc \in {"subTake", "subPut"} => x.sub \in Subs
         /\ x.pc = "subPut" => x.attrs \in SUBSET RoleIds
  BY DEF AdminState

(* A step of one thread leaves the locals of the others alone.             *)
LEMMA BecomeType ==
  ASSUME adm \in [Admins -> AdminState], NEW a \in Admins, NEW r \in AdminState,
         Become(a, r)
  PROVE  /\ adm' \in [Admins -> AdminState]
         /\ adm'[a] = r
         /\ \A b \in Admins \ {a} : adm'[b] = adm[b]
  BY DEF Become

(* Done is Become(a, Idle).                                                *)
LEMMA DoneType ==
  ASSUME adm \in [Admins -> AdminState], NEW a \in Admins, Done(a)
  PROVE  /\ adm' \in [Admins -> AdminState]
         /\ adm'[a] = Idle
         /\ \A b \in Admins \ {a} : adm'[b] = adm[b]
  BY MakeLocals DEF Become, Done

-----------------------------------------------------------------------------
(* Type correctness.                                                       *)

(* The start-up state: everything is loaded from the installation script.  *)
LEMMA InitType == Init => TypeOK
  <1> SUFFICES ASSUME Init PROVE TypeOK
    OBVIOUS
  <1>1. resourceMap \in [Urls -> {Null} \cup SUBSET RoleIds]
    BY InitialRows, EntryType DEF Init
  <1>2. adm \in [Admins -> AdminState]
    BY MakeLocals DEF Init
  <1>3. req \in [Users -> [pc : {"idle", "search", "get"}, url : Urls \cup {Null},
                           decision : {"none", "pass", "deny", "error"}]]
    BY DEF Init, NoRequest
  <1> QED
    BY <1>1, <1>2, <1>3, InitialRows, ConstantsAssumption DEF Init, TypeOK

(* A put into the map, lost or not, keeps the map typed.                   *)
LEMMA PutType ==
  ASSUME resourceMap \in [Urls -> {Null} \cup SUBSET RoleIds],
         NEW a \in Admins, NEW u \in Urls, NEW list \in SUBSET RoleIds,
         Put(a, u, list)
  PROVE  resourceMap' \in [Urls -> {Null} \cup SUBSET RoleIds]
  BY DEF Put

(* The handlers that change the tables.                                    *)
LEMMA TableType ==
  ASSUME TypeOK, NEW a \in Admins,
         \/ StartAssign(a) \/ CommitAssign(a) \/ AbortAssign(a)
         \/ StartRemove(a) \/ DeleteRole(a) \/ AddRole(a) \/ UpdateRole(a)
  PROVE  TypeOK'
  <1> USE DEF TypeOK, db, cache, users, hist
  <1> DEFINE x == adm[a]
  <1>0. x \in AdminState
    OBVIOUS
  <1>1. CASE StartAssign(a)
    <2>1. PICK r \in RoleIds, w \in SUBSET Resources :
            Become(a, [pc |-> "assign", role |-> r, wanted |-> w])
      BY <1>1 DEF StartAssign
    <2>2. adm' \in [Admins -> AdminState]
      BY <2>1, MakeLocals, BecomeType
    <2> QED
      BY <1>1, <2>2 DEF StartAssign
  <1>2. CASE CommitAssign(a)
    <2> DEFINE rr == RowsWithout(x.role) \cup ({x.role} \X x.wanted)
    <2>1. x.role \in RoleIds /\ x.wanted \in SUBSET Resources
      BY <1>0, <1>2, UseLocals DEF CommitAssign, At
    <2>2. rr \in SUBSET (roles \X Resources)
      BY <1>2, <2>1 DEF CommitAssign, RowsWithout
    <2>3. granted \cup rr \in SUBSET Rows
      BY <2>2 DEF Rows
    <2>4. adm' \in [Admins -> AdminState]
      BY <1>2, MakeLocals, BecomeType DEF CommitAssign
    <2>5. mayDeny' \in [Users -> BOOLEAN]
      BY <1>2 DEF CommitAssign, NoteDenials
    <2> QED
      BY <1>2, <2>2, <2>3, <2>4, <2>5 DEF CommitAssign
  <1>3. CASE AbortAssign(a)
    BY <1>3, DoneType DEF AbortAssign
  <1>4. CASE StartRemove(a)
    <2>1. PICK r \in RoleIds : Become(a, [pc |-> "remove", role |-> r])
      BY <1>4 DEF StartRemove
    <2>2. adm' \in [Admins -> AdminState]
      BY <2>1, MakeLocals, BecomeType
    <2> QED
      BY <1>4, <2>2 DEF StartRemove
  <1>5. CASE DeleteRole(a)
    <2>1. CASE x.role \in roles
      <3>1. adm' \in [Admins -> AdminState]
        BY <1>5, <2>1, MakeLocals, BecomeType DEF DeleteRole
      <3>2. mayDeny' \in [Users -> BOOLEAN]
        BY <1>5, <2>1 DEF DeleteRole, NoteDenials
      <3>3. roleResource' \in SUBSET (roles' \X Resources)
        BY <1>5, <2>1 DEF DeleteRole, RowsWithout
      <3>4. userRole' \in SUBSET (Users \X roles')
        BY <1>5, <2>1 DEF DeleteRole
      <3> QED
        BY <1>5, <2>1, <3>1, <3>2, <3>3, <3>4 DEF DeleteRole
    <2>2. CASE x.role \notin roles
      <3>1. adm' \in [Admins -> AdminState]
        BY <1>5, <2>2, DoneType DEF DeleteRole
      <3> QED
        BY <1>5, <2>2, <3>1 DEF DeleteRole
    <2> QED
      BY <2>1, <2>2
  <1>6. CASE AddRole(a)
    <2>1. adm' \in [Admins -> AdminState]
      BY <1>6, MakeLocals, BecomeType DEF AddRole
    <2>2. lastRole + 1 \in RoleIds
      BY <1>6, ConstantsAssumption DEF AddRole, RoleIds
    <2> QED
      BY <1>6, <2>1, <2>2 DEF AddRole
  <1>7. CASE UpdateRole(a)
    <2>1. adm' \in [Admins -> AdminState]
      BY <1>7, MakeLocals, BecomeType DEF UpdateRole
    <2> QED
      BY <1>7, <2>1 DEF UpdateRole
  <1> QED
    BY <1>1, <1>2, <1>3, <1>4, <1>5, <1>6, <1>7

(* The refresh of the two cached lists.                                    *)
LEMMA RefreshType ==
  ASSUME TypeOK, NEW a \in Admins,
         \/ ReadRoles(a) \/ SetRolesList(a) \/ ReadFails(a)
         \/ ReadRoleResources(a) \/ SetRoleResourcesList(a) \/ BeginLoad(a)
  PROVE  TypeOK'
  <1> USE DEF TypeOK, db, cache, users, hist, At
  <1> DEFINE x == adm[a]
  <1>0. x \in AdminState /\ roleResource \in SUBSET Rows
    BY DEF Rows
  <1>1. CASE ReadRoles(a)
    <2>1. adm' \in [Admins -> AdminState]
      BY <1>0, <1>1, UseLocals, MakeLocals, BecomeType DEF ReadRoles
    <2> QED
      BY <1>1, <2>1 DEF ReadRoles
  <1>2. CASE SetRolesList(a)
    <2>1. adm' \in [Admins -> AdminState]
      BY <1>2, MakeLocals, BecomeType, DoneType DEF SetRolesList
    <2>2. rolesList' \in SUBSET RoleIds
      BY <1>0, <1>2, UseLocals DEF SetRolesList
    <2> QED
      BY <1>2, <2>1, <2>2 DEF SetRolesList
  <1>3. CASE ReadFails(a)
    <2>1. failures' \in 0 .. MaxFailures
      BY <1>3, ConstantsAssumption DEF ReadFails
    <2>2. missed' \subseteq {"roles", "map"}
      BY <1>3 DEF ReadFails
    <2> QED
      BY <1>3, <2>1, <2>2, DoneType DEF ReadFails
  <1>4. CASE ReadRoleResources(a)
    <2>1. adm' \in [Admins -> AdminState]
      BY <1>0, <1>4, UseLocals, MakeLocals, BecomeType DEF ReadRoleResources
    <2> QED
      BY <1>4, <2>1 DEF ReadRoleResources
  <1>5. CASE SetRoleResourcesList(a)
    <2>1. adm' \in [Admins -> AdminState]
      BY <1>5, MakeLocals, BecomeType, DoneType DEF SetRoleResourcesList
    <2>2. roleResourcesList' \in SUBSET Rows
      BY <1>0, <1>5, UseLocals DEF SetRoleResourcesList
    <2> QED
      BY <1>5, <2>1, <2>2 DEF SetRoleResourcesList
  <1>6. CASE BeginLoad(a)
    <2> DEFINE rr == IF roleResourcesList = {} THEN roleResource ELSE roleResourcesList
    <2>1. rr \in SUBSET Rows
      BY <1>0
    <2>2. adm' \in [Admins -> AdminState]
      BY <1>6, <2>1, MakeLocals, BecomeType, DoneType DEF BeginLoad
    <2> QED
      BY <1>6, <2>1, <2>2 DEF BeginLoad
  <1> QED
    BY <1>1, <1>2, <1>3, <1>4, <1>5, <1>6

(* The load of the map.                                                    *)
LEMMA LoadType ==
  ASSUME TypeOK, NEW a \in Admins,
         \/ PublishMap(a) \/ PutResource(a) \/ EndResources(a)
         \/ FindSub(a) \/ TakeSub(a) \/ PutSub(a) \/ EndSubs(a) \/ PutNonRestricted(a) \/ EndLoad(a)
  PROVE  TypeOK'
  <1> USE DEF TypeOK, db, cache, users, hist, At
  <1> DEFINE x == adm[a]
  <1>0. x \in AdminState
    OBVIOUS
  <1>1. CASE PublishMap(a)
    <2>1. x.rows \in SUBSET Rows
      BY <1>0, <1>1, UseLocals DEF PublishMap
    <2>2. adm' \in [Admins -> AdminState]
      BY <1>1, <2>1, RowsType, MakeLocals, BecomeType DEF PublishMap
    <2> QED
      BY <1>1, <2>1, <2>2 DEF PublishMap
  <1>2. CASE PutResource(a)
    <2>1. x.rows \in SUBSET Rows /\ x.todo \in SUBSET Resources
      BY <1>0, <1>2, UseLocals DEF PutResource
    <2>2. PICK res \in x.todo :
            /\ Put(a, res, ListOf(x.rows, res))
            /\ Become(a, Looping("resources", x.rows, x.todo \ {res}))
      BY <1>2 DEF PutResource
    <2>3. adm' \in [Admins -> AdminState]
      BY <2>1, <2>2, MakeLocals, BecomeType
    <2>4. res \in Urls /\ ListOf(x.rows, res) \in SUBSET RoleIds
      BY <2>1, HoldersType DEF Urls
    <2>5. resourceMap' \in [Urls -> {Null} \cup SUBSET RoleIds]
      BY <2>2, <2>4, PutType
    <2> QED
      BY <1>2, <2>3, <2>5 DEF PutResource
  <1>3. CASE EndResources(a)
    <2>1. x.rows \in SUBSET Rows
      BY <1>0, <1>3, UseLocals DEF EndResources
    <2>2. adm' \in [Admins -> AdminState]
      BY <1>3, <2>1, RowsType, MakeLocals, BecomeType DEF EndResources
    <2> QED
      BY <1>3, <2>2 DEF EndResources
  <1>4. CASE FindSub(a)
    <2>1. x.rows \in SUBSET Rows /\ x.todo \in SUBSET Subs
      BY <1>0, <1>4, UseLocals DEF FindSub
    <2>2. PICK s \in x.todo :
            \/ Become(a, [pc |-> "subPut", rows |-> x.rows, todo |-> x.todo \ {s},
                          sub |-> s, attrs |-> {}])
            \/ Become(a, [pc |-> "subTake", rows |-> x.rows, todo |-> x.todo \ {s},
                          sub |-> s])
      BY <1>4 DEF FindSub
    <2>3. adm' \in [Admins -> AdminState]
      BY <2>1, <2>2, MakeLocals, BecomeType
    <2> QED
      BY <1>4, <2>3 DEF FindSub
  <1>9. CASE TakeSub(a)
    <2>1. x.rows \in SUBSET Rows /\ x.todo \in SUBSET Subs /\ x.sub \in Subs
      BY <1>0, <1>9, UseLocals DEF TakeSub
    <2>2. ListFor(SubUrl(x.sub)) \in SUBSET RoleIds
      BY <2>1, SubType, RolesOfType DEF ListFor
    <2>3. adm' \in [Admins -> AdminState]
      BY <1>9, <2>1, <2>2, MakeLocals, BecomeType, DoneType DEF TakeSub
    <2> QED
      BY <1>9, <2>3 DEF TakeSub
  <1>5. CASE PutSub(a)
    <2>1. /\ x.rows \in SUBSET Rows /\ x.todo \in SUBSET Subs
          /\ x.sub \in Subs /\ x.attrs \in SUBSET RoleIds
      BY <1>0, <1>5, UseLocals DEF PutSub
    <2>2. adm' \in [Admins -> AdminState]
      BY <1>5, <2>1, MakeLocals, BecomeType DEF PutSub
    <2>3. PICK more \in {{}, RolesOf(resourceMap[SubUrl(x.sub)])} :
            Put(a, SubUrl(x.sub), x.attrs \cup more \cup ListOf(x.rows, SubOf(x.sub)))
      BY <1>5 DEF PutSub
    <2>4. x.attrs \cup more \cup ListOf(x.rows, SubOf(x.sub)) \in SUBSET RoleIds
      BY <2>1, HoldersType, SubType, RolesOfType
    <2>5. resourceMap' \in [Urls -> {Null} \cup SUBSET RoleIds]
      BY <2>1, <2>3, <2>4, SubType, PutType
    <2> QED
      BY <1>5, <2>2, <2>5 DEF PutSub
  <1>6. CASE EndSubs(a)
    <2>1. x.rows \in SUBSET Rows
      BY <1>0, <1>6, UseLocals DEF EndSubs
    <2>2. adm' \in [Admins -> AdminState]
      BY <1>6, <2>1, ConstantsAssumption, MakeLocals, BecomeType DEF EndSubs
    <2> QED
      BY <1>6, <2>2 DEF EndSubs
  <1>7. CASE PutNonRestricted(a)
    <2>1. x.rows \in SUBSET Rows /\ x.todo \in SUBSET NonRestricted
      BY <1>0, <1>7, UseLocals DEF PutNonRestricted
    <2>2. PICK res \in x.todo :
            /\ Put(a, res, RolesIn(x.rows))
            /\ Become(a, Looping("open", x.rows, x.todo \ {res}))
      BY <1>7 DEF PutNonRestricted
    <2>3. adm' \in [Admins -> AdminState]
      BY <2>1, <2>2, MakeLocals, BecomeType
    <2>4. res \in Urls /\ RolesIn(x.rows) \in SUBSET RoleIds
      BY <2>1, RowsType, ConstantsAssumption DEF Urls
    <2>5. resourceMap' \in [Urls -> {Null} \cup SUBSET RoleIds]
      BY <2>2, <2>4, PutType
    <2> QED
      BY <1>7, <2>3, <2>5 DEF PutNonRestricted
  <1>8. CASE EndLoad(a)
    BY <1>8, DoneType DEF EndLoad
  <1> QED
    BY <1>1, <1>2, <1>3, <1>4, <1>5, <1>6, <1>7, <1>8, <1>9

(* Sessions and requests.                                                  *)
LEMMA RequestType ==
  ASSUME TypeOK, NEW u \in Users, Request(u)
  PROVE  TypeOK'
  <1> USE DEF TypeOK, db, cache, users, hist
  <1>1. CASE UpdateUserRole(u)
    <2>1. userRole' \in SUBSET (Users \X roles)
      BY <1>1 DEF UpdateUserRole
    <2> QED
      BY <1>1, <2>1 DEF UpdateUserRole
  <1>2. CASE Login(u)
    <2>1. {ur[2] : ur \in {x \in userRole : x[1] = u}} \in SUBSET RoleIds
      OBVIOUS
    <2> QED
      BY <1>2, <2>1 DEF Login
  <1>3. CASE Logout(u)
    BY <1>3 DEF Logout, NoRequest
  <1>4. CASE StartRequest(u)
    BY <1>4 DEF StartRequest
  <1>5. CASE FindKey(u)
    BY <1>5 DEF FindKey, Answer
  <1>6. CASE WalkFails(u)
    BY <1>6 DEF WalkFails, Answer
  <1>7. CASE GetAndDecide(u)
    BY <1>7 DEF GetAndDecide, Answer
  <1> QED
    BY <1>1, <1>2, <1>3, <1>4, <1>5, <1>6, <1>7 DEF Request

(* TypeOK is inductive.                                                    *)
LEMMA TypeStep == TypeOK /\ [Next]_vars => TypeOK'
  <1> SUFFICES ASSUME TypeOK, [Next]_vars PROVE TypeOK'
    OBVIOUS
  <1>1. CASE \E a \in Admins : Handler(a)
    BY <1>1, TableType, RefreshType, LoadType DEF Handler
  <1>2. CASE \E u \in Users : Request(u)
    BY <1>2, RequestType
  <1>3. CASE UNCHANGED vars
    BY <1>3 DEF TypeOK, vars, db, cache, users, hist
  <1> QED
    BY <1>1, <1>2, <1>3 DEF Next

(* Type correctness and the foreign keys of role_resource and user_role,   *)
(* whatever handlers and requests run at once.                             *)
THEOREM TypeCorrect == Spec => []TypeOK
  BY InitType, TypeStep, PTL DEF Spec

-----------------------------------------------------------------------------
(* The rows of the system roles.  What makes ReloadNeverEmpty inductive is *)
(* that a handler past its checks never works on a system role             *)
(* (checkRoleIsEditable), however long it waits before the statement.      *)
TargetsEditable ==
  \A a \in Admins : adm[a].pc \in {"assign", "remove"} => adm[a].role \notin SystemRoles

KeepInv == TypeOK /\ TargetsEditable /\ ReloadNeverEmpty

(* The installation script gives KeepInv.                                  *)
LEMMA InitKeep == Init => KeepInv
  <1> SUFFICES ASSUME Init PROVE KeepInv
    OBVIOUS
  <1>1. \A a \in Admins : adm[a].pc = "idle"
    BY DEF Init, Idle
  <1>2. TargetsEditable /\ \A a \in Admins : ~ HoldsRows(a)
    BY <1>1 DEF TargetsEditable, HoldsRows
  <1>3. SystemRows \subseteq InitRows /\ SystemRoles \subseteq 1 .. InitRole
    BY ConstantsAssumption DEF SystemRows
  <1> QED
    BY <1>2, <1>3, InitType DEF KeepInv, ReloadNeverEmpty, Init

(* Deleting the rows of an editable role leaves those of the system roles  *)
(* (the DELETE of assignRoleAuth, the cascade of removeRoleInfo).          *)
LEMMA DeleteKeeps ==
  ASSUME SystemRows \subseteq roleResource, NEW r, r \notin SystemRoles
  PROVE  SystemRows \subseteq RowsWithout(r)
  BY DEF SystemRows, RowsWithout

(* The steps of the handlers that change the tables.                       *)
LEMMA TableKeeps ==
  ASSUME KeepInv, NEW a \in Admins,
         \/ StartAssign(a) \/ CommitAssign(a) \/ AbortAssign(a)
         \/ StartRemove(a) \/ DeleteRole(a) \/ AddRole(a) \/ UpdateRole(a)
  PROVE  TargetsEditable' /\ ReloadNeverEmpty'
  <1> USE DEF KeepInv, TypeOK, TargetsEditable, ReloadNeverEmpty, HoldsRows,
              db, cache, hist, At
  <1>1. CASE StartAssign(a)
    <2>1. PICK r \in RoleIds, w \in SUBSET Resources :
            IsEditable(r) /\ Become(a, [pc |-> "assign", role |-> r, wanted |-> w])
      BY <1>1 DEF StartAssign
    <2>2. r \notin SystemRoles
      BY <2>1 DEF IsEditable
    <2> QED
      BY <1>1, <2>1, <2>2, MakeLocals, BecomeType DEF StartAssign
  <1>2. CASE CommitAssign(a)
    <2>1. SystemRows \subseteq roleResource'
      BY <1>2, DeleteKeeps DEF CommitAssign
    <2>2. Become(a, ToRead("rrRead", "assign"))
      BY <1>2 DEF CommitAssign
    <2>3. adm'[a].pc = "rrRead" /\ \A b \in Admins \ {a} : adm'[b] = adm[b]
      BY <2>2, MakeLocals, BecomeType DEF ToRead
    <2> QED
      BY <1>2, <2>1, <2>3 DEF CommitAssign
  <1>3. CASE AbortAssign(a)
    BY <1>3, DoneType DEF AbortAssign, Idle
  <1>4. CASE StartRemove(a)
    <2>1. PICK r \in RoleIds :
            IsEditable(r) /\ Become(a, [pc |-> "remove", role |-> r])
      BY <1>4 DEF StartRemove
    <2>2. r \notin SystemRoles
      BY <2>1 DEF IsEditable
    <2> QED
      BY <1>4, <2>1, <2>2, MakeLocals, BecomeType DEF StartRemove
  <1>5. CASE DeleteRole(a)
    <2>1. SystemRows \subseteq roleResource' /\ SystemRoles \subseteq roles'
      BY <1>5, DeleteKeeps DEF DeleteRole
    <2>2. Become(a, ToRead("rolesRead", "remove")) \/ Done(a)
      BY <1>5 DEF DeleteRole
    <2>3. /\ adm'[a].pc \in {"rolesRead", "idle"}
          /\ \A b \in Admins \ {a} : adm'[b] = adm[b]
      BY <2>2, MakeLocals, BecomeType, DoneType DEF ToRead, Idle
    <2> QED
      BY <1>5, <2>1, <2>3 DEF DeleteRole
  <1>6. CASE AddRole(a)
    <2>1. adm'[a].pc = "rolesRead" /\ \A b \in Admins \ {a} : adm'[b] = adm[b]
      BY <1>6, MakeLocals, BecomeType DEF AddRole, ToRead
    <2> QED
      BY <1>6, <2>1 DEF AddRole
  <1>7. CASE UpdateRole(a)
    <2>1. adm'[a].pc = "rolesRead" /\ \A b \in Admins \ {a} : adm'[b] = adm[b]
      BY <1>7, MakeLocals, BecomeType DEF UpdateRole, ToRead
    <2> QED
      BY <1>7, <2>1 DEF UpdateRole
  <1> QED
    BY <1>1, <1>2, <1>3, <1>4, <1>5, <1>6, <1>7

(* The steps of a refresh: what is read into a local, and from there into  *)
(* the cache, has the rows of the system roles.                            *)
LEMMA RefreshKeeps ==
  ASSUME KeepInv, NEW a \in Admins,
         \/ ReadRoles(a) \/ SetRolesList(a) \/ ReadFails(a)
         \/ ReadRoleResources(a) \/ SetRoleResourcesList(a) \/ BeginLoad(a)
  PROVE  TargetsEditable' /\ ReloadNeverEmpty'
  <1> USE DEF KeepInv, TypeOK, TargetsEditable, ReloadNeverEmpty, HoldsRows,
              db, cache, hist, At
  <1>0. adm[a] \in AdminState /\ roleResource \in SUBSET Rows
    BY DEF Rows
  <1>1. CASE ReadRoles(a)
    <2>1. adm'[a].pc = "rolesSet" /\ \A b \in Admins \ {a} : adm'[b] = adm[b]
      BY <1>0, <1>1, UseLocals, MakeLocals, BecomeType DEF ReadRoles
    <2> QED
      BY <1>1, <2>1 DEF ReadRoles
  <1>2. CASE SetRolesList(a)
    <2>1. Become(a, ToRead("rrRead", "remove")) \/ Done(a)
      BY <1>2 DEF SetRolesList
    <2>2. /\ adm'[a].pc \in {"rrRead", "idle"}
          /\ \A b \in Admins \ {a} : adm'[b] = adm[b]
      BY <2>1, MakeLocals, BecomeType, DoneType DEF ToRead, Idle
    <2> QED
      BY <1>2, <2>2 DEF SetRolesList
  <1>3. CASE ReadFails(a)
    BY <1>3, DoneType DEF ReadFails, Idle
  <1>4. CASE ReadRoleResources(a)
    <2>1. /\ adm'[a].pc = "rrSet" /\ adm'[a].rows = roleResource
          /\ \A b \in Admins \ {a} : adm'[b] = adm[b]
      BY <1>0, <1>4, UseLocals, MakeLocals, BecomeType DEF ReadRoleResources
    <2> QED
      BY <1>4, <2>1 DEF ReadRoleResources
  <1>5. CASE SetRoleResourcesList(a)
    <2>1. Become(a, [pc |-> "load"]) \/ Done(a)
      BY <1>5 DEF SetRoleResourcesList
    <2>2. /\ adm'[a].pc \in {"load", "idle"}
          /\ \A b \in Admins \ {a} : adm'[b] = adm[b]
      BY <2>1, MakeLocals, BecomeType, DoneType DEF Idle
    <2> QED
      BY <1>5, <2>2 DEF SetRoleResourcesList
  <1>6. CASE BeginLoad(a)
    <2> DEFINE rr == IF roleResourcesList = {} THEN roleResource ELSE roleResourcesList
    <2>1. rr \in SUBSET Rows /\ SystemRows \subseteq rr
      BY <1>0
    <2>2. Become(a, [pc |-> "publish", rows |-> rr]) \/ Done(a)
      BY <1>6 DEF BeginLoad
    <2>3. /\ \/ adm'[a].pc = "publish" /\ adm'[a].rows = rr
             \/ adm'[a].pc = "idle"
          /\ \A b \in Admins \ {a} : adm'[b] = adm[b]
      BY <2>1, <2>2, MakeLocals, BecomeType, DoneType DEF Idle
    <2> QED
      BY <1>6, <2>1, <2>3 DEF BeginLoad
  <1> QED
    BY <1>1, <1>2, <1>3, <1>4, <1>5, <1>6

(* The steps of a load keep the rows it works from.                        *)
LEMMA LoadRows ==
  ASSUME TypeOK, NEW a \in Admins,
         \/ PublishMap(a) \/ PutResource(a) \/ EndResources(a)
         \/ FindSub(a) \/ TakeSub(a) \/ PutSub(a) \/ EndSubs(a) \/ PutNonRestricted(a) \/ EndLoad(a)
  PROVE  /\ \/ /\ adm[a].pc \in {"publish", "resources", "subGet", "subTake", "subPut", "open"}
               /\ adm'[a].pc \in {"resources", "subGet", "subTake", "subPut", "open"}
               /\ adm'[a].rows = adm[a].rows
            \/ adm'[a].pc = "idle"
         /\ \A b \in Admins \ {a} : adm'[b] = adm[b]
  <1> USE DEF TypeOK, At, Looping
  <1> DEFINE x == adm[a]
             Goal == /\ adm'[a].pc \in {"resources", "subGet", "subTake", "subPut", "open"}
                     /\ adm'[a].rows = x.rows
                     /\ \A b \in Admins \ {a} : adm'[b] = adm[b]
  <1>1. CASE PublishMap(a)
    <2>1. Goal
      BY <1>1 DEF PublishMap, Become
    <2> QED
      BY <1>1, <2>1 DEF PublishMap
  <1>2. CASE PutResource(a)
    <2>1. Goal
      BY <1>2 DEF PutResource, Become
    <2> QED
      BY <1>2, <2>1 DEF PutResource
  <1>3. CASE EndResources(a)
    <2>1. Goal
      BY <1>3 DEF EndResources, Become
    <2> QED
      BY <1>3, <2>1 DEF EndResources
  <1>4. CASE FindSub(a)
    <2>1. Goal
      BY <1>4 DEF FindSub, Become
    <2> QED
      BY <1>4, <2>1 DEF FindSub
  <1>9. CASE TakeSub(a)
    <2>1. Goal \/ Done(a)
      BY <1>9 DEF TakeSub, Become
    <2> QED
      BY <1>9, <2>1, DoneType DEF TakeSub, Idle
  <1>5. CASE PutSub(a)
    <2>1. Goal
      BY <1>5 DEF PutSub, Become
    <2> QED
      BY <1>5, <2>1 DEF PutSub
  <1>6. CASE EndSubs(a)
    <2>1. Goal
      BY <1>6 DEF EndSubs, Become
    <2> QED
      BY <1>6, <2>1 DEF EndSubs
  <1>7. CASE PutNonRestricted(a)
    <2>1. Goal
      BY <1>7 DEF PutNonRestricted, Become
    <2> QED
      BY <1>7, <2>1 DEF PutNonRestricted
  <1>8. CASE EndLoad(a)
    BY <1>8, DoneType DEF EndLoad, Idle
  <1> QED
    BY <1>1, <1>2, <1>3, <1>4, <1>5, <1>6, <1>7, <1>8, <1>9

(* The load itself, therefore, has them too.                               *)
LEMMA LoadKeeps ==
  ASSUME KeepInv, NEW a \in Admins,
         \/ PublishMap(a) \/ PutResource(a) \/ EndResources(a)
         \/ FindSub(a) \/ TakeSub(a) \/ PutSub(a) \/ EndSubs(a) \/ PutNonRestricted(a) \/ EndLoad(a)
  PROVE  TargetsEditable' /\ ReloadNeverEmpty'
  <1> USE DEF KeepInv, TargetsEditable, ReloadNeverEmpty, HoldsRows
  <1>1. SystemRows \subseteq roleResource' \cap roleResourcesList'
        /\ SystemRoles \subseteq roles'
    BY DEF PublishMap, PutResource, EndResources, FindSub, TakeSub, PutSub, EndSubs,
           PutNonRestricted, EndLoad, db, cache
  <1>2. SystemRows \subseteq loaded'
    BY DEF PublishMap, PutResource, EndResources, FindSub, TakeSub, PutSub, EndSubs,
           PutNonRestricted, EndLoad, hist, At
  <1> QED
    BY <1>1, <1>2, LoadRows

(* KeepInv is inductive.                                                   *)
LEMMA KeepStep == KeepInv /\ [Next]_vars => KeepInv'
  <1> SUFFICES ASSUME KeepInv, [Next]_vars PROVE TargetsEditable' /\ ReloadNeverEmpty'
    BY TypeStep DEF KeepInv
  <1>1. CASE \E a \in Admins : Handler(a)
    BY <1>1, TableKeeps, RefreshKeeps, LoadKeeps DEF Handler
  <1>2. CASE \E u \in Users : Request(u)
    <2>1. UNCHANGED <<roles, roleResource, roleResourcesList, loaded, adm>>
      BY <1>2 DEF Request, UpdateUserRole, Login, Logout, StartRequest, FindKey,
                  WalkFails, GetAndDecide, db, cache, hist
    <2> QED
      BY <2>1 DEF KeepInv, TargetsEditable, ReloadNeverEmpty, HoldsRows
  <1>3. CASE UNCHANGED vars
    BY <1>3 DEF KeepInv, TargetsEditable, ReloadNeverEmpty, HoldsRows,
                vars, db, cache, hist
  <1> QED
    BY <1>1, <1>2, <1>3 DEF Next

(* However handlers interleave, and whichever reads fail, the system       *)
(* roles and their rows stay in the tables, in the cached list and in what *)
(* a load works from: loadResourceDefine never finds the empty list that   *)
(* makes it throw.                                                         *)
THEOREM SystemRowsStay == Spec => []ReloadNeverEmpty
  <1>1. KeepInv => ReloadNeverEmpty
    BY DEF KeepInv
  <1> QED
    BY InitKeep, KeepStep, <1>1, PTL DEF Spec

-----------------------------------------------------------------------------
(* The compiled map.  Every copy of role_resource, down to the list a load *)
(* has fetched and not yet put back, holds only what was once committed:   *)
(* then so does what a thread puts, whichever thread it races with.        *)
CopiesCommitted ==
  /\ roleResource \subseteq granted
  /\ roleResourcesList \subseteq granted
  /\ \A a \in Admins : HoldsRows(a) => adm[a].rows \subseteq granted

AttrsCommitted ==
  \A a \in Admins : At(a, "subPut") =>
    adm[a].attrs \subseteq RolesOf(Entry(granted, SubUrl(adm[a].sub)))

MapInv == TypeOK /\ CopiesCommitted /\ AttrsCommitted /\ MapFromCommitted

(* More rows never take a role off the list of a URL.                      *)
LEMMA EntryMono ==
  ASSUME NEW rr \in SUBSET Rows, NEW ss \in SUBSET Rows, rr \subseteq ss, NEW u
  PROVE  RolesOf(Entry(rr, u)) \subseteq RolesOf(Entry(ss, u))
  <1> DEFINE S(q) == UNION {Holders(q, SubOf(s)) : s \in {t \in Subs : SubUrl(t) = u}}
             H(q) == Holders(q, u) \cup S(q)
  <1>1. RolesIn(rr) \subseteq RolesIn(ss) /\ RolesIn(ss) # Null /\ RolesIn(rr) # Null
    BY RowsType, ConstantsAssumption DEF RolesIn
  <1>2. H(rr) \subseteq H(ss)
    BY DEF Holders
  <1>3. H(rr) \in SUBSET RoleIds /\ H(ss) \in SUBSET RoleIds
    BY HoldersType
  <1>4. H(rr) # Null /\ H(ss) # Null
    BY <1>3, ConstantsAssumption
  <1> QED
    BY <1>1, <1>2, <1>4 DEF Entry, RolesOf

(* What the three loops of a load put is part of a completed load's list.  *)
LEMMA ListInEntry ==
  ASSUME NEW rr \in SUBSET Rows
  PROVE  /\ \A u : Holders(rr, u) \subseteq RolesOf(Entry(rr, u))
         /\ \A s \in Subs : Holders(rr, SubOf(s)) \subseteq RolesOf(Entry(rr, SubUrl(s)))
         /\ \A u \in NonRestricted : RolesIn(rr) \subseteq RolesOf(Entry(rr, u))
  <1>1. \A u : Holders(rr, u) \subseteq RolesIn(rr)
    BY DEF Holders, RolesIn
  <1>2. RolesIn(rr) # Null
    BY RowsType, ConstantsAssumption
  <1>3. ASSUME NEW u
        PROVE  LET S == UNION {Holders(rr, SubOf(s)) : s \in {t \in Subs : SubUrl(t) = u}}
                   H == Holders(rr, u) \cup S
               IN  RolesOf(Entry(rr, u)) = IF u \in NonRestricted THEN RolesIn(rr) ELSE H
    <2> DEFINE S == UNION {Holders(rr, SubOf(s)) : s \in {t \in Subs : SubUrl(t) = u}}
               H == Holders(rr, u) \cup S
    <2>1. H \in SUBSET RoleIds
      BY HoldersType
    <2>2. H # Null
      BY <2>1, ConstantsAssumption
    <2> QED
      BY <1>2, <2>2 DEF Entry, RolesOf
  <1>4. ASSUME NEW s \in Subs
        PROVE  Holders(rr, SubOf(s)) \subseteq RolesOf(Entry(rr, SubUrl(s)))
    <2> DEFINE S == UNION {Holders(rr, SubOf(t)) : t \in {t \in Subs : SubUrl(t) = SubUrl(s)}}
    <2>1. Holders(rr, SubOf(s)) \subseteq S
      OBVIOUS
    <2> QED
      BY <1>1, <1>3, <2>1
  <1> QED
    BY <1>1, <1>3, <1>4

(* A put of a list that was committed for its URL keeps the map so.        *)
LEMMA PutCommitted ==
  ASSUME TypeOK, MapFromCommitted, NEW a \in Admins, NEW u \in Urls,
         NEW list \in SUBSET RoleIds, list \subseteq RolesOf(Entry(granted, u)),
         Put(a, u, list), UNCHANGED granted
  PROVE  MapFromCommitted'
  <1>1. RolesOf(list) = list
    BY ConstantsAssumption DEF RolesOf
  <1> QED
    BY <1>1 DEF Put, MapFromCommitted, TypeOK

(* The start-up load is of committed rows.                                 *)
LEMMA InitMap == Init => MapInv
  <1> SUFFICES ASSUME Init PROVE MapInv
    OBVIOUS
  <1>1. \A a \in Admins : adm[a].pc = "idle"
    BY DEF Init, Idle
  <1>2. CopiesCommitted /\ AttrsCommitted
    BY <1>1 DEF CopiesCommitted, AttrsCommitted, HoldsRows, At, Init
  <1>3. MapFromCommitted
    BY DEF MapFromCommitted, Init
  <1> QED
    BY <1>2, <1>3, InitType DEF MapInv

(* A step that only adds committed rows, touches no copy and starts no     *)
(* load keeps the invariant.                                               *)
LEMMA CommitKeepsMap ==
  ASSUME MapInv, TypeOK', granted \subseteq granted', roleResource' \subseteq granted',
         UNCHANGED <<roleResourcesList, resourceMap>>,
         \A a \in Admins : adm'[a] = adm[a] \/ ~ HoldsRows(a)'
  PROVE  MapInv'
  <1> USE DEF MapInv
  <1>1. granted \in SUBSET Rows /\ granted' \in SUBSET Rows
    BY DEF TypeOK
  <1>2. \A u : RolesOf(Entry(granted, u)) \subseteq RolesOf(Entry(granted', u))
    BY <1>1, EntryMono
  <1>3. CopiesCommitted'
    BY DEF CopiesCommitted, HoldsRows
  <1>4. AttrsCommitted'
    BY <1>2 DEF AttrsCommitted, HoldsRows, At
  <1>5. MapFromCommitted'
    BY <1>2 DEF MapFromCommitted
  <1> QED
    BY <1>3, <1>4, <1>5

(* The handlers that change the tables.                                    *)
LEMMA TableMap ==
  ASSUME MapInv, TypeOK', NEW a \in Admins,
         \/ StartAssign(a) \/ CommitAssign(a) \/ AbortAssign(a)
         \/ StartRemove(a) \/ DeleteRole(a) \/ AddRole(a) \/ UpdateRole(a)
  PROVE  MapInv'
  <1> USE DEF db, cache, hist
  <1>1. granted \subseteq granted' /\ roleResource' \subseteq granted'
    BY DEF StartAssign, CommitAssign, AbortAssign, StartRemove, DeleteRole, AddRole,
           UpdateRole, RowsWithout, MapInv, CopiesCommitted
  <1>2. UNCHANGED <<roleResourcesList, resourceMap>>
    BY DEF StartAssign, CommitAssign, AbortAssign, StartRemove, DeleteRole, AddRole,
           UpdateRole
  <1>3. PICK r : /\ Become(a, r)
                 /\ r.pc \in {"assign", "remove", "rrRead", "rolesRead", "idle"}
    <2>1. CASE StartAssign(a)
      BY <2>1 DEF StartAssign
    <2>2. CASE CommitAssign(a)
      BY <2>2 DEF CommitAssign, ToRead
    <2>3. CASE AbortAssign(a)
      BY <2>3 DEF AbortAssign, Done, Idle
    <2>4. CASE StartRemove(a)
      BY <2>4 DEF StartRemove
    <2>5. CASE DeleteRole(a)
      BY <2>5 DEF DeleteRole, ToRead, Done, Idle
    <2>6. CASE AddRole(a)
      BY <2>6 DEF AddRole, ToRead
    <2>7. CASE UpdateRole(a)
      BY <2>7 DEF UpdateRole, ToRead
    <2> QED
      BY <2>1, <2>2, <2>3, <2>4, <2>5, <2>6, <2>7
  <1>4. \A b \in Admins : adm'[b] = adm[b] \/ ~ HoldsRows(b)'
    BY <1>3 DEF Become, HoldsRows, MapInv, TypeOK
  <1> QED
    BY <1>1, <1>2, <1>4, CommitKeepsMap

(* A refresh copies committed rows.                                        *)
LEMMA RefreshMap ==
  ASSUME MapInv, TypeOK', NEW a \in Admins,
         \/ ReadRoles(a) \/ SetRolesList(a) \/ ReadFails(a)
         \/ ReadRoleResources(a) \/ SetRoleResourcesList(a) \/ BeginLoad(a)
  PROVE  MapInv'
  <1> USE DEF MapInv, TypeOK, At, db, cache, hist
  <1> DEFINE x == adm[a]
  <1>1. UNCHANGED <<roleResource, resourceMap, granted>>
    BY DEF ReadRoles, SetRolesList, ReadFails, ReadRoleResources,
           SetRoleResourcesList, BeginLoad
  <1>2. roleResourcesList' \subseteq granted
    BY DEF ReadRoles, SetRolesList, ReadFails, ReadRoleResources,
           SetRoleResourcesList, BeginLoad, CopiesCommitted, HoldsRows
  <1>3. PICK r : /\ Become(a, r)
                 /\ \/ r.pc \in {"rolesSet", "rrRead", "load", "idle"}
                    \/ r.pc \in {"rrSet", "publish"} /\ r.rows \subseteq granted
    <2>1. CASE ReadRoles(a)
      BY <2>1 DEF ReadRoles
    <2>2. CASE SetRolesList(a)
      BY <2>2 DEF SetRolesList, ToRead, Done, Idle
    <2>3. CASE ReadFails(a)
      BY <2>3 DEF ReadFails, Done, Idle
    <2>4. CASE ReadRoleResources(a)
      BY <2>4 DEF ReadRoleResources, CopiesCommitted
    <2>5. CASE SetRoleResourcesList(a)
      BY <2>5 DEF SetRoleResourcesList, Done, Idle
    <2>6. CASE BeginLoad(a)
      BY <2>6 DEF BeginLoad, CopiesCommitted, Done, Idle
    <2> QED
      BY <2>1, <2>2, <2>3, <2>4, <2>5, <2>6
  <1>4. \A b \in Admins : adm'[b] = IF b = a THEN r ELSE adm[b]
    BY <1>3 DEF Become
  <1>5. CopiesCommitted'
    BY <1>1, <1>2, <1>3, <1>4 DEF CopiesCommitted, HoldsRows
  <1>6. AttrsCommitted'
    BY <1>1, <1>3, <1>4 DEF AttrsCommitted
  <1>7. MapFromCommitted'
    BY <1>1 DEF MapFromCommitted
  <1> QED
    BY <1>5, <1>6, <1>7

(* A load puts lists of committed rows.                                    *)
LEMMA LoadMap ==
  ASSUME MapInv, TypeOK', NEW a \in Admins,
         \/ PublishMap(a) \/ PutResource(a) \/ EndResources(a)
         \/ FindSub(a) \/ TakeSub(a) \/ PutSub(a) \/ EndSubs(a) \/ PutNonRestricted(a) \/ EndLoad(a)
  PROVE  MapInv'
  <1> USE DEF MapInv, db, cache, hist
  <1> DEFINE x == adm[a]
  <1>0. x \in AdminState /\ granted \in SUBSET Rows
    BY DEF TypeOK
  <1>1. UNCHANGED <<roleResource, roleResourcesList, granted>>
    BY DEF PublishMap, PutResource, EndResources, FindSub, TakeSub, PutSub, EndSubs,
           PutNonRestricted, EndLoad
  <1>2. CopiesCommitted'
    BY <1>1, LoadRows DEF CopiesCommitted, HoldsRows
  <1>3. ASSUME HoldsRows(a)
        PROVE  /\ x.rows \in SUBSET Rows /\ x.rows \subseteq granted
               /\ \A u : RolesOf(Entry(x.rows, u)) \subseteq RolesOf(Entry(granted, u))
    <2>1. x.rows \in SUBSET Rows /\ x.rows \subseteq granted
      BY <1>0, <1>3, UseLocals DEF CopiesCommitted, HoldsRows
    <2> QED
      BY <1>0, <2>1, EntryMono
  <1>4. ASSUME adm'[a].pc # "subPut" PROVE AttrsCommitted'
    BY <1>1, <1>4, LoadRows DEF AttrsCommitted, At
  <1>5. ASSUME UNCHANGED resourceMap PROVE MapFromCommitted'
    BY <1>1, <1>5 DEF MapFromCommitted
  <1>6. CASE PublishMap(a)
    <2>1. AttrsCommitted'
      BY <1>6, <1>4 DEF PublishMap, Become, Looping, TypeOK
    <2>2. MapFromCommitted'
      BY <1>6 DEF PublishMap, MapFromCommitted, RolesOf
    <2> QED
      BY <1>2, <2>1, <2>2
  <1>7. CASE PutResource(a)
    <2>1. AttrsCommitted'
      BY <1>7, <1>4 DEF PutResource, Become, Looping, TypeOK
    <2>2. HoldsRows(a) /\ x.todo \in SUBSET Resources
      BY <1>0, <1>7, UseLocals DEF PutResource, HoldsRows, At
    <2>3. PICK res \in x.todo : Put(a, res, ListOf(x.rows, res))
      BY <1>7 DEF PutResource
    <2>4. Holders(x.rows, res) \subseteq RolesOf(Entry(granted, res))
      BY <1>3, <2>2, ListInEntry
    <2>5. MapFromCommitted'
      BY <1>1, <2>2, <2>3, <2>4, HoldersType, PutCommitted DEF Urls
    <2> QED
      BY <1>2, <2>1, <2>5
  <1>8. CASE EndResources(a)
    <2>1. AttrsCommitted'
      BY <1>8, <1>4 DEF EndResources, Become, Looping, TypeOK
    <2> QED
      BY <1>2, <1>5, <1>8, <2>1 DEF EndResources
  <1>9. CASE FindSub(a)
    <2>1. PICK s \in x.todo, l \in {"subPut", "subTake"} :
            /\ adm'[a].pc = l /\ adm'[a].sub = s
            /\ l = "subPut" => adm'[a].attrs = {}
      BY <1>9 DEF FindSub, Become, TypeOK
    <2>2. AttrsCommitted'
      BY <1>1, <2>1, LoadRows DEF AttrsCommitted, At
    <2> QED
      BY <1>2, <1>5, <1>9, <2>2 DEF FindSub
  <1>14. CASE TakeSub(a)
    <2>1. x.sub \in Subs
      BY <1>0, <1>14, UseLocals DEF TakeSub, At
    <2>2. ListFor(SubUrl(x.sub)) \subseteq RolesOf(Entry(granted, SubUrl(x.sub)))
      BY <2>1, SubType DEF ListFor, MapFromCommitted
    <2>3. \/ adm'[a].pc = "idle"
          \/ adm'[a].sub = x.sub /\ adm'[a].attrs = ListFor(SubUrl(x.sub))
      BY <1>14 DEF TakeSub, Become, Done, Idle, TypeOK
    <2>4. AttrsCommitted'
      BY <1>1, <2>2, <2>3, LoadRows DEF AttrsCommitted, At
    <2> QED
      BY <1>2, <1>5, <1>14, <2>4 DEF TakeSub
  <1>10. CASE PutSub(a)
    <2>1. AttrsCommitted'
      BY <1>10, <1>4 DEF PutSub, Become, Looping, TypeOK
    <2>2. HoldsRows(a) /\ x.sub \in Subs /\ x.attrs \in SUBSET RoleIds
      BY <1>0, <1>10, UseLocals DEF PutSub, HoldsRows, At
    <2>3. PICK more \in {{}, RolesOf(resourceMap[SubUrl(x.sub)])} :
            Put(a, SubUrl(x.sub), x.attrs \cup more \cup ListOf(x.rows, SubOf(x.sub)))
      BY <1>10 DEF PutSub
    <2> DEFINE list == x.attrs \cup more \cup ListOf(x.rows, SubOf(x.sub))
    <2>9. more \subseteq RolesOf(Entry(granted, SubUrl(x.sub)))
      BY <2>2, SubType DEF MapFromCommitted
    <2>10. more \in SUBSET RoleIds
      BY <2>2, SubType, RolesOfType DEF TypeOK
    <2>4. x.attrs \subseteq RolesOf(Entry(granted, SubUrl(x.sub)))
      BY <1>10 DEF PutSub, AttrsCommitted
    <2>5. Holders(x.rows, SubOf(x.sub)) \subseteq RolesOf(Entry(granted, SubUrl(x.sub)))
      BY <1>3, <2>2, ListInEntry
    <2>6. list \in SUBSET RoleIds /\ list \subseteq RolesOf(Entry(granted, SubUrl(x.sub)))
      BY <2>2, <2>4, <2>5, <2>9, <2>10, HoldersType
    <2>7. SubUrl(x.sub) \in Urls
      BY <2>2, SubType
    <2>8. MapFromCommitted'
      BY <1>1, <2>3, <2>6, <2>7, PutCommitted
    <2> QED
      BY <1>2, <2>1, <2>8
  <1>11. CASE EndSubs(a)
    <2>1. AttrsCommitted'
      BY <1>11, <1>4 DEF EndSubs, Become, Looping, TypeOK
    <2> QED
      BY <1>2, <1>5, <1>11, <2>1 DEF EndSubs
  <1>12. CASE PutNonRestricted(a)
    <2>1. AttrsCommitted'
      BY <1>12, <1>4 DEF PutNonRestricted, Become, Looping, TypeOK
    <2>2. HoldsRows(a) /\ x.todo \in SUBSET NonRestricted
      BY <1>0, <1>12, UseLocals DEF PutNonRestricted, HoldsRows, At
    <2>3. PICK res \in x.todo : Put(a, res, RolesIn(x.rows))
      BY <1>12 DEF PutNonRestricted
    <2>4. RolesIn(x.rows) \in SUBSET RoleIds
          /\ RolesIn(x.rows) \subseteq RolesOf(Entry(granted, res))
      BY <1>3, <2>2, <2>3, ListInEntry, RowsType
    <2>5. MapFromCommitted'
      BY <1>1, <2>2, <2>3, <2>4, PutCommitted, ConstantsAssumption DEF Urls
    <2> QED
      BY <1>2, <2>1, <2>5
  <1>13. CASE EndLoad(a)
    <2>1. AttrsCommitted'
      BY <1>13, <1>4, DoneType DEF EndLoad, Idle, TypeOK
    <2> QED
      BY <1>2, <1>5, <1>13, <2>1 DEF EndLoad
  <1> QED
    BY <1>6, <1>7, <1>8, <1>9, <1>10, <1>11, <1>12, <1>13, <1>14

(* However many loads fill the map at once, and whichever of their puts    *)
(* are lost, a role is listed under a URL only if a committed assignment   *)
(* once gave it that URL.                                                  *)
THEOREM MapCommitted == Spec => []MapFromCommitted
  <1>1. MapInv /\ [Next]_vars => MapInv'
    <2> SUFFICES ASSUME MapInv, [Next]_vars PROVE MapInv'
      OBVIOUS
    <2>0. TypeOK'
      BY TypeStep DEF MapInv
    <2>1. CASE \E a \in Admins : Handler(a)
      BY <2>0, <2>1, TableMap, RefreshMap, LoadMap DEF Handler
    <2>2. CASE \E u \in Users : Request(u)
      <3>1. UNCHANGED <<roleResource, roleResourcesList, resourceMap, granted, adm>>
        BY <2>2 DEF Request, UpdateUserRole, Login, Logout, StartRequest, FindKey,
                    WalkFails, GetAndDecide, db, cache, hist
      <3> QED
        BY <2>0, <3>1, CommitKeepsMap DEF MapInv, CopiesCommitted
    <2>3. CASE UNCHANGED vars
      BY <2>0, <2>3, CommitKeepsMap DEF MapInv, CopiesCommitted, vars, db, cache, hist
    <2> QED
      BY <2>1, <2>2, <2>3 DEF Next
  <1>2. MapInv => MapFromCommitted
    BY DEF MapInv
  <1> QED
    BY InitMap, <1>1, <1>2, PTL DEF Spec

-----------------------------------------------------------------------------
(* One administrator at work.  The map is what the loads since the last    *)
(* publication have put, sub-resource by sub-resource: of the rows rr, the *)
(* resources R, the sub-resources S and the unrestricted resources O.      *)
OneAdministrator == \E a \in Admins : Admins = {a}

HoldersSoFar(rr, R, S, u) ==
  {r \in RoleIds : \/ u \in R /\ <<r, u>> \in rr
                   \/ \E s \in S : SubUrl(s) = u /\ <<r, SubOf(s)>> \in rr}

Part(rr, R, S, O, u) ==
  IF u \in O THEN RolesIn(rr)
  ELSE IF HoldersSoFar(rr, R, S, u) = {} THEN Null ELSE HoldersSoFar(rr, R, S, u)

MapIs(rr, R, S, O) == \A u \in Urls : resourceMap[u] = Part(rr, R, S, O, u)

InLoad(x) == x.pc \in {"resources", "subGet", "subTake", "subPut", "open"}

(* How far the load with the locals x has come; without a load the map is  *)
(* complete.                                                               *)
Progress(x) ==
  /\ InLoad(x) => loaded = x.rows
  /\ x.pc = "resources" =>
       /\ x.todo \subseteq ResourcesIn(x.rows)
       /\ MapIs(x.rows, ResourcesIn(x.rows) \ x.todo, {}, {})
  /\ x.pc \in {"subGet", "subTake", "subPut"} => x.todo \subseteq SubsIn(x.rows)
  /\ x.pc = "subGet" => MapIs(x.rows, ResourcesIn(x.rows), SubsIn(x.rows) \ x.todo, {})
  /\ x.pc \in {"subTake", "subPut"} =>
       /\ x.sub \in SubsIn(x.rows) \ x.todo
       /\ MapIs(x.rows, ResourcesIn(x.rows), SubsIn(x.rows) \ (x.todo \cup {x.sub}), {})
  /\ x.pc = "subTake" => resourceMap[SubUrl(x.sub)] # Null
  /\ x.pc = "subPut" => x.attrs = RolesOf(resourceMap[SubUrl(x.sub)])
  /\ x.pc = "open" =>
       MapIs(x.rows, ResourcesIn(x.rows), SubsIn(x.rows), NonRestricted \ x.todo)
  /\ ~ InLoad(x) => MapIs(loaded, ResourcesIn(loaded), SubsIn(loaded), NonRestricted)

(* Nobody else changes the tables, so what the handler has read is what    *)
(* they hold.                                                              *)
ReadsHold(x) ==
  /\ x.pc \in {"rrSet", "publish"} \/ InLoad(x) => x.rows = roleResource
  /\ x.pc = "load" => roleResourcesList = roleResource
  /\ x.pc = "rolesSet" => x.readRoles = roles

(* Between a change and its refresh the copies are behind; otherwise they  *)
(* are not, unless a refresh was missed.                                   *)
Refreshing(x) ==
  \/ x.pc \in {"load", "publish"}
  \/ x.pc \in {"rrRead", "rrSet"} /\ x.op = "assign"

RowsOf(rr, rs) == {row \in rr : row[1] \in rs}

UpToDate(x) ==
  /\ x.pc \notin {"rolesRead", "rolesSet"} /\ "roles" \notin missed => rolesList = roles
  /\ ~ Refreshing(x) /\ "map" \notin missed => RowsOf(loaded, roles) = roleResource

(* Ids are given once: what was loaded is not about roles to come.         *)
IdsGiven == roles \cup RolesIn(loaded) \subseteq 1 .. lastRole

(* A request under way may be denied if what is loaded, or what is stored, *)
(* denies it.                                                              *)
InFlight(u) == req[u].pc \in {"search", "get"}
DenialsNoted(u) ==
  InFlight(u) =>
    /\ session[u] # Null /\ req[u].decision = "none" /\ req[u].url \in Urls
    /\ \A rr \in {loaded, roleResource} :
         ~ Passes(Entry(rr, req[u].url), session[u]) => mayDeny[u]

OneInv ==
  /\ OneAdministrator /\ KeepInv /\ IdsGiven
  /\ \A a \in Admins : Progress(adm[a]) /\ ReadsHold(adm[a]) /\ UpToDate(adm[a])
  /\ (\A u \in Users : DenialsNoted(u)) /\ DenialJustified


(* A completed load, as Entry has it.                                      *)
LEMMA EntryIsWhole ==
  ASSUME NEW rr \in SUBSET Rows, NEW u
  PROVE  /\ Entry(rr, u) = Part(rr, Resources, Subs, NonRestricted, u)
         /\ Entry(rr, u) = Part(rr, ResourcesIn(rr), SubsIn(rr), NonRestricted, u)
  <1> DEFINE S == UNION {Holders(rr, SubOf(s)) : s \in {t \in Subs : SubUrl(t) = u}}
  <1>1. \A r : r \in S <=>
          r \in RoleIds /\ \E s \in Subs : SubUrl(s) = u /\ <<r, SubOf(s)>> \in rr
    <2> SUFFICES ASSUME NEW r
                 PROVE  r \in S <=> r \in RoleIds /\ \E s \in Subs :
                                      SubUrl(s) = u /\ <<r, SubOf(s)>> \in rr
      OBVIOUS
    <2>1. r \in S <=> \E s \in Subs : SubUrl(s) = u /\ r \in Holders(rr, SubOf(s))
      OBVIOUS
    <2> QED
      BY <2>1 DEF Holders
  <1>2. \A r, q : <<r, q>> \in rr => q \in Resources /\ q \in ResourcesIn(rr)
    <2> SUFFICES ASSUME NEW r, NEW q, <<r, q>> \in rr
                 PROVE  q \in Resources /\ q \in ResourcesIn(rr)
      OBVIOUS
    <2>1. <<r, q>>[2] = q /\ <<r, q>>[2] \in ResourcesIn(rr)
      BY DEF ResourcesIn
    <2> QED
      BY <2>1, RowsType
  <1>3. Holders(rr, u) \cup S = HoldersSoFar(rr, Resources, Subs, u)
    BY <1>1, <1>2 DEF Holders, HoldersSoFar
  <1>4. \A s \in Subs : \A r : <<r, SubOf(s)>> \in rr => s \in SubsIn(rr)
    BY <1>2 DEF SubsIn
  <1>5. HoldersSoFar(rr, Resources, Subs, u) = HoldersSoFar(rr, ResourcesIn(rr), SubsIn(rr), u)
    BY <1>2, <1>4 DEF HoldersSoFar, SubsIn
  <1> QED
    BY <1>3, <1>5 DEF Entry, Part

(* No set of roles is Null.                                                *)
LEMMA HoldersAreRoles ==
  ASSUME NEW rr, NEW R, NEW S, NEW u
  PROVE  /\ HoldersSoFar(rr, R, S, u) \in SUBSET RoleIds
         /\ HoldersSoFar(rr, R, S, u) # Null
  <1>1. HoldersSoFar(rr, R, S, u) \in SUBSET RoleIds
    BY DEF HoldersSoFar
  <1> QED
    BY <1>1, ConstantsAssumption

LEMMA PartRoles ==
  ASSUME NEW rr \in SUBSET Rows, NEW R, NEW S, NEW O, NEW u
  PROVE  RolesOf(Part(rr, R, S, O, u))
           = IF u \in O THEN RolesIn(rr) ELSE HoldersSoFar(rr, R, S, u)
  BY HoldersAreRoles, RowsType, ConstantsAssumption DEF Part, RolesOf

(* What is there of a load is part of the completed one, and all of it     *)
(* where one put suffices.                                                 *)
LEMMA PartOfEntry ==
  ASSUME NEW rr \in SUBSET Rows, NEW R \in SUBSET Resources, NEW S \in SUBSET Subs,
         NEW O \in SUBSET NonRestricted, NEW u, Part(rr, R, S, O, u) # Null
  PROVE  /\ Part(rr, R, S, O, u) \subseteq RolesOf(Entry(rr, u))
         /\ SinglePut(u) => Part(rr, R, S, O, u) = Entry(rr, u)
  <1> DEFINE part == HoldersSoFar(rr, R, S, u)
             whole == HoldersSoFar(rr, Resources, Subs, u)
  <1>1. part \subseteq whole
    BY DEF HoldersSoFar
  <1>2. whole \subseteq RolesIn(rr)
    <2> SUFFICES ASSUME NEW r, NEW q, <<r, q>> \in rr PROVE r \in RolesIn(rr)
      BY DEF HoldersSoFar
    <2>1. <<r, q>>[1] = r /\ <<r, q>>[1] \in RolesIn(rr)
      BY DEF RolesIn
    <2> QED
      BY <2>1
  <1>3. RolesOf(Entry(rr, u)) = IF u \in NonRestricted THEN RolesIn(rr) ELSE whole
    BY EntryIsWhole, PartRoles
  <1>4. RolesOf(Part(rr, R, S, O, u)) = Part(rr, R, S, O, u)
    BY DEF RolesOf
  <1>5. Part(rr, R, S, O, u) = IF u \in O THEN RolesIn(rr) ELSE part
    BY <1>4, PartRoles
  <1>6. Part(rr, R, S, O, u) \subseteq RolesOf(Entry(rr, u))
    BY <1>1, <1>2, <1>3, <1>5
  <1>7. ASSUME SinglePut(u) PROVE Part(rr, R, S, O, u) = Entry(rr, u)
    <2>1. u \notin NonRestricted /\ u \notin O
      BY <1>7 DEF SinglePut
    <2>2. part # {}
      BY <2>1, ConstantsAssumption DEF Part
    <2>3. part = whole
      <3>1. CASE u \in Resources /\ {s \in Subs : SubUrl(s) = u} = {}
        BY <2>2, <3>1 DEF HoldersSoFar
      <3>2. CASE u \notin Resources /\ \E s \in Subs : {t \in Subs : SubUrl(t) = u} = {s}
        <4>1. PICK s \in Subs : {t \in Subs : SubUrl(t) = u} = {s}
          BY <3>2
        <4>2. \A t \in Subs : SubUrl(t) = u <=> t = s
          BY <4>1
        <4>3. s \in S
          BY <2>2, <3>2, <4>2 DEF HoldersSoFar
        <4> QED
          BY <3>2, <4>2, <4>3 DEF HoldersSoFar
      <3> QED
        BY <1>7, <3>1, <3>2 DEF SinglePut
    <2> QED
      BY <2>1, <2>2, <2>3, EntryIsWhole DEF Part
  <1> QED
    BY <1>6, <1>7

(* A role that is gone disappears from the lists with its rows.            *)
LEMMA EntryOfRoles ==
  ASSUME NEW rr \in SUBSET Rows, NEW rs, NEW u
  PROVE  RolesOf(Entry(rr, u)) \cap rs = RolesOf(Entry(RowsOf(rr, rs), u))
  <1> DEFINE some == RowsOf(rr, rs)
  <1>1. some \in SUBSET Rows
    BY DEF RowsOf
  <1>2. RolesIn(rr) \cap rs = RolesIn(some)
    BY DEF RolesIn, RowsOf
  <1>3. \A r, q : <<r, q>> \in some <=> <<r, q>> \in rr /\ r \in rs
    <2> SUFFICES ASSUME NEW r, NEW q
                 PROVE  <<r, q>> \in some <=> <<r, q>> \in rr /\ r \in rs
      OBVIOUS
    <2>1. <<r, q>>[1] = r
      OBVIOUS
    <2> QED
      BY <2>1 DEF RowsOf
  <1>4. HoldersSoFar(rr, Resources, Subs, u) \cap rs = HoldersSoFar(some, Resources, Subs, u)
    BY <1>3 DEF HoldersSoFar
  <1>5. \A q \in SUBSET Rows :
          RolesOf(Entry(q, u)) = IF u \in NonRestricted THEN RolesIn(q)
                                 ELSE HoldersSoFar(q, Resources, Subs, u)
    BY EntryIsWhole, PartRoles
  <1> QED
    BY <1>1, <1>2, <1>4, <1>5

(* One put adds one resource, or one sub-resource, or opens a resource to  *)
(* all roles.                                                              *)
LEMMA OnePutMore ==
  ASSUME NEW rr \in SUBSET Rows, NEW R, NEW S, NEW O, NEW u
  PROVE  /\ \A res : u # res => Part(rr, R \cup {res}, S, O, u) = Part(rr, R, S, O, u)
         /\ \A res \in ResourcesIn(rr) : Part(rr, R \cup {res}, {}, {}, res) = Holders(rr, res)
         /\ \A s : u # SubUrl(s) => Part(rr, R, S \cup {s}, O, u) = Part(rr, R, S, O, u)
         /\ \A s \in SubsIn(rr) : Part(rr, R, S \cup {s}, {}, SubUrl(s))
              = RolesOf(Part(rr, R, S, {}, SubUrl(s))) \cup Holders(rr, SubOf(s))
         /\ \A res : u # res => Part(rr, R, S, O \cup {res}, u) = Part(rr, R, S, O, u)
         /\ \A res : Part(rr, R, S, O \cup {res}, res) = RolesIn(rr)
  <1>1. ASSUME NEW res, u # res
        PROVE  Part(rr, R \cup {res}, S, O, u) = Part(rr, R, S, O, u)
    <2>1. HoldersSoFar(rr, R \cup {res}, S, u) = HoldersSoFar(rr, R, S, u)
      BY <1>1 DEF HoldersSoFar
    <2> QED
      BY <2>1 DEF Part
  <1>2. ASSUME NEW res \in ResourcesIn(rr) PROVE Holders(rr, res) # {}
    <2>1. PICK row \in rr : row[2] = res
      BY DEF ResourcesIn
    <2>2. row = <<row[1], row[2]>> /\ row[1] \in RoleIds
      BY DEF Rows
    <2> QED
      BY <2>1, <2>2 DEF Holders
  <1>3. ASSUME NEW res \in ResourcesIn(rr)
        PROVE  Part(rr, R \cup {res}, {}, {}, res) = Holders(rr, res)
    <2>1. HoldersSoFar(rr, R \cup {res}, {}, res) = Holders(rr, res)
      BY DEF HoldersSoFar, Holders
    <2> QED
      BY <1>2, <2>1 DEF Part
  <1>4. ASSUME NEW s, u # SubUrl(s)
        PROVE  Part(rr, R, S \cup {s}, O, u) = Part(rr, R, S, O, u)
    <2>1. HoldersSoFar(rr, R, S \cup {s}, u) = HoldersSoFar(rr, R, S, u)
      BY <1>4 DEF HoldersSoFar
    <2> QED
      BY <2>1 DEF Part
  <1>5. ASSUME NEW s \in SubsIn(rr)
        PROVE  Part(rr, R, S \cup {s}, {}, SubUrl(s))
                 = RolesOf(Part(rr, R, S, {}, SubUrl(s))) \cup Holders(rr, SubOf(s))
    <2>1. HoldersSoFar(rr, R, S \cup {s}, SubUrl(s))
            = HoldersSoFar(rr, R, S, SubUrl(s)) \cup Holders(rr, SubOf(s))
      BY DEF HoldersSoFar, Holders
    <2>2. Holders(rr, SubOf(s)) # {}
      BY <1>2 DEF SubsIn
    <2>3. RolesOf(Part(rr, R, S, {}, SubUrl(s))) = HoldersSoFar(rr, R, S, SubUrl(s))
      BY PartRoles
    <2>4. HoldersSoFar(rr, R, S \cup {s}, SubUrl(s)) # {}
      BY <2>1, <2>2
    <2> QED
      BY <2>1, <2>3, <2>4 DEF Part
  <1>6. ASSUME NEW res, u # res
        PROVE  Part(rr, R, S, O \cup {res}, u) = Part(rr, R, S, O, u)
    BY <1>6 DEF Part
  <1>7. ASSUME NEW res PROVE Part(rr, R, S, O \cup {res}, res) = RolesIn(rr)
    BY DEF Part
  <1> QED
    BY <1>1, <1>3, <1>4, <1>5, <1>6, <1>7

-----------------------------------------------------------------------------
(* The steps of the one administrator.                                     *)
HandlerInv(a) == IdsGiven /\ Progress(adm[a]) /\ ReadsHold(adm[a]) /\ UpToDate(adm[a])

LEMMA OneInitially == OneAdministrator /\ Init => OneInv
  <1> SUFFICES ASSUME OneAdministrator, Init PROVE OneInv
    OBVIOUS
  <1>1. KeepInv
    BY InitKeep
  <1>2. \A a \in Admins : adm[a].pc = "idle"
    BY DEF Init, Idle
  <1>3. \A u : Entry(loaded, u)
          = Part(loaded, ResourcesIn(loaded), SubsIn(loaded), NonRestricted, u)
    BY <1>1, EntryIsWhole DEF KeepInv, TypeOK
  <1>4. \A a \in Admins : Progress(adm[a])
    BY <1>2, <1>3 DEF Progress, InLoad, MapIs, Init
  <1>5. \A a \in Admins : ReadsHold(adm[a])
    BY <1>2 DEF ReadsHold, InLoad
  <1>6. RowsOf(loaded, roles) = roleResource
    BY <1>1 DEF RowsOf, Init, KeepInv, TypeOK
  <1>7. \A a \in Admins : UpToDate(adm[a])
    BY <1>2, <1>6 DEF UpToDate, Refreshing, Init
  <1>8. IdsGiven
    BY <1>1 DEF IdsGiven, Init, RolesIn, KeepInv, TypeOK
  <1>9. (\A u \in Users : DenialsNoted(u)) /\ DenialJustified
    BY DEF DenialsNoted, InFlight, DenialJustified, Init, NoRequest
  <1> QED
    BY <1>1, <1>4, <1>5, <1>7, <1>8, <1>9 DEF OneInv

(* Outside a load the map stays complete.                                  *)
LEMMA MapStays ==
  ASSUME NEW x, NEW y, Progress(x), ~ InLoad(x), ~ InLoad(y),
         UNCHANGED <<resourceMap, loaded>>
  PROVE  Progress(y)'
  BY DEF Progress, InLoad, MapIs

(* What was loaded is what is stored, if it is what has been read.         *)
LEMMA LoadedIsStored ==
  ASSUME TypeOK, NEW rr, rr = roleResource
  PROVE  RowsOf(rr, roles) = roleResource /\ RolesIn(rr) \subseteq roles
  BY DEF TypeOK, RowsOf, RolesIn

LEMMA TableOne ==
  ASSUME OneInv, NEW a \in Admins,
         \/ StartAssign(a) \/ CommitAssign(a) \/ AbortAssign(a)
         \/ StartRemove(a) \/ DeleteRole(a) \/ AddRole(a) \/ UpdateRole(a)
  PROVE  HandlerInv(a)'
  <1> DEFINE x == adm[a]
  <1> PICK y : y = adm'[a]
    OBVIOUS
  <1>0. /\ TypeOK /\ adm \in [Admins -> AdminState]
        /\ IdsGiven /\ Progress(x) /\ UpToDate(x)
    BY DEF OneInv, KeepInv, TypeOK
  <1>1. UNCHANGED <<resourceMap, loaded, missed, rolesList>>
    BY DEF StartAssign, CommitAssign, AbortAssign, StartRemove, DeleteRole, AddRole,
           UpdateRole, cache, hist
  <1>2. x.pc \in {"idle", "assign", "remove"}
    BY DEF StartAssign, CommitAssign, AbortAssign, StartRemove, DeleteRole, AddRole,
           UpdateRole, At
  <1>3. \/ y.pc \in {"idle", "assign", "remove"} /\ UNCHANGED db
        \/ y.pc = "rrRead" /\ y.op = "assign" /\ UNCHANGED <<roles, lastRole>>
        \/ y.pc = "rolesRead"
    <2>1. CASE StartAssign(a)
      BY <1>0, <2>1 DEF StartAssign, Become
    <2>2. CASE CommitAssign(a)
      BY <1>0, <2>2 DEF CommitAssign, Become, ToRead
    <2>3. CASE AbortAssign(a)
      BY <1>0, <2>3 DEF AbortAssign, Done, Become, Idle
    <2>4. CASE StartRemove(a)
      BY <1>0, <2>4 DEF StartRemove, Become
    <2>5. CASE DeleteRole(a)
      BY <1>0, <2>5 DEF DeleteRole, Done, Become, Idle, ToRead, db
    <2>6. CASE AddRole(a)
      BY <1>0, <2>6 DEF AddRole, Become, ToRead
    <2>7. CASE UpdateRole(a)
      BY <1>0, <2>7 DEF UpdateRole, Become, ToRead
    <2> QED
      BY <2>1, <2>2, <2>3, <2>4, <2>5, <2>6, <2>7
  <1>4. Progress(y)'
    BY <1>0, <1>1, <1>2, <1>3, MapStays DEF InLoad
  <1>5. ReadsHold(y)'
    BY <1>3 DEF ReadsHold, InLoad
  <1>6. "roles" \notin missed => rolesList = roles
    BY <1>0, <1>2 DEF UpToDate
  <1>7. "map" \notin missed => RowsOf(loaded, roles) = roleResource
    BY <1>0, <1>2 DEF UpToDate, Refreshing
  <1>8. CASE y.pc # "rolesRead"
    <2>1. UpToDate(y)'
      BY <1>1, <1>3, <1>6, <1>7, <1>8 DEF UpToDate, Refreshing, db
    <2>2. IdsGiven'
      BY <1>0, <1>1, <1>3, <1>8 DEF IdsGiven, db
    <2> QED
      BY <1>4, <1>5, <2>1, <2>2 DEF HandlerInv
  <1>9. CASE y.pc = "rolesRead"
    <2>1. DeleteRole(a) \/ AddRole(a) \/ UpdateRole(a)
      BY <1>0, <1>9 DEF StartAssign, CommitAssign, AbortAssign, StartRemove, Become, Done,
                        Idle, ToRead
    <2>2. CASE DeleteRole(a)
      <3>1. /\ roles' = roles \ {x.role} /\ roleResource' = RowsWithout(x.role)
            /\ UNCHANGED lastRole
        BY <1>0, <1>9, <2>2 DEF DeleteRole, Done, Idle, Become
      <3>2. "map" \notin missed => RowsOf(loaded, roles') = roleResource'
        BY <1>7, <3>1 DEF RowsOf, RowsWithout
      <3> QED
        BY <1>0, <1>1, <1>4, <1>5, <1>9, <3>1, <3>2 DEF HandlerInv, UpToDate, IdsGiven
    <2>3. CASE AddRole(a)
      <3>1. /\ roles' = roles \cup {lastRole + 1} /\ lastRole' = lastRole + 1
            /\ UNCHANGED roleResource
        BY <2>3 DEF AddRole
      <3>2. lastRole \in Nat /\ lastRole + 1 \notin RolesIn(loaded)
        BY <1>0 DEF IdsGiven, TypeOK, RoleIds
      <3>3. RowsOf(loaded, roles') = RowsOf(loaded, roles)
        BY <3>1, <3>2 DEF RowsOf, RolesIn
      <3>4. IdsGiven'
        BY <1>0, <1>1, <3>1, <3>2 DEF IdsGiven
      <3> QED
        BY <1>1, <1>4, <1>5, <1>7, <1>9, <3>1, <3>3, <3>4 DEF HandlerInv, UpToDate
    <2>4. CASE UpdateRole(a)
      BY <1>0, <1>1, <1>4, <1>5, <1>7, <1>9, <2>4 DEF UpdateRole, db, HandlerInv, UpToDate, IdsGiven
    <2> QED
      BY <2>1, <2>2, <2>3, <2>4
  <1> QED
    BY <1>8, <1>9

LEMMA RefreshOne ==
  ASSUME OneInv, NEW a \in Admins,
         \/ ReadRoles(a) \/ SetRolesList(a) \/ ReadFails(a)
         \/ ReadRoleResources(a) \/ SetRoleResourcesList(a) \/ BeginLoad(a)
  PROVE  HandlerInv(a)'
  <1> DEFINE x == adm[a]
  <1> PICK y : y = adm'[a]
    OBVIOUS
  <1>0. /\ adm \in [Admins -> AdminState] /\ x \in AdminState
        /\ IdsGiven /\ Progress(x) /\ ReadsHold(x) /\ UpToDate(x)
    BY DEF OneInv, KeepInv, TypeOK
  <1>1. UNCHANGED <<db, resourceMap, loaded>> /\ UNCHANGED <<roles, roleResource>>
    BY DEF ReadRoles, SetRolesList, ReadFails, ReadRoleResources, SetRoleResourcesList,
           BeginLoad, cache, hist, db
  <1>2. IdsGiven'
    BY <1>0, <1>1 DEF IdsGiven, db
  <1>3. ASSUME ~ InLoad(x), ~ InLoad(y), ReadsHold(y)', UpToDate(y)'
        PROVE  HandlerInv(a)'
    BY <1>0, <1>1, <1>2, <1>3, MapStays DEF HandlerInv
  <1>4. CASE ReadRoles(a)
    <2>1. x.pc = "rolesRead" /\ y.pc = "rolesSet" /\ y.readRoles = roles /\ UNCHANGED missed
      BY <1>0, <1>4 DEF ReadRoles, At, Become, hist
    <2> QED
      BY <1>0, <1>1, <1>3, <2>1 DEF InLoad, ReadsHold, UpToDate, Refreshing
  <1>5. CASE SetRolesList(a)
    <2>1. /\ x.pc = "rolesSet" /\ rolesList' = x.readRoles /\ missed' = missed \ {"roles"}
          /\ y.pc = "idle" \/ (y.pc = "rrRead" /\ y.op = "remove")
      BY <1>0, <1>5 DEF SetRolesList, At, Become, Done, Idle, ToRead
    <2>2. rolesList' = roles
      BY <1>0, <2>1 DEF ReadsHold
    <2> QED
      BY <1>0, <1>1, <1>3, <2>1, <2>2 DEF InLoad, ReadsHold, UpToDate, Refreshing
  <1>6. CASE ReadFails(a)
    <2>1. /\ x.pc \in {"rrRead", "rolesRead"} /\ y.pc = "idle" /\ UNCHANGED rolesList
          /\ missed \subseteq missed'
          /\ x.pc = "rolesRead" => "roles" \in missed'
          /\ x.op = "assign" => "map" \in missed'
      BY <1>0, <1>6 DEF ReadFails, At, Become, Done, Idle, cache
    <2> QED
      BY <1>0, <1>1, <1>3, <2>1 DEF InLoad, ReadsHold, UpToDate, Refreshing
  <1>7. CASE ReadRoleResources(a)
    <2>1. /\ x.pc = "rrRead" /\ y.pc = "rrSet" /\ y.op = x.op /\ y.rows = roleResource
          /\ UNCHANGED <<rolesList, missed>>
      BY <1>0, <1>7 DEF ReadRoleResources, At, Become, hist, cache
    <2> QED
      BY <1>0, <1>1, <1>3, <2>1 DEF InLoad, ReadsHold, UpToDate, Refreshing
  <1>8. CASE SetRoleResourcesList(a)
    <2>1. /\ x.pc = "rrSet" /\ roleResourcesList' = x.rows
          /\ y.pc = IF x.op = "assign" THEN "load" ELSE "idle"
          /\ UNCHANGED <<rolesList, missed>>
      BY <1>0, <1>8 DEF SetRoleResourcesList, AfterRefresh, At, Become, Done, Idle, hist
    <2>2. roleResourcesList' = roleResource
      BY <1>0, <2>1 DEF ReadsHold
    <2> QED
      BY <1>0, <1>1, <1>3, <2>1, <2>2 DEF InLoad, ReadsHold, UpToDate, Refreshing
  <1>9. CASE BeginLoad(a)
    <2>1. x.pc = "load" /\ roleResourcesList = roleResource /\ UNCHANGED <<rolesList, missed>>
      BY <1>0, <1>9 DEF BeginLoad, At, ReadsHold, hist
    <2>2. roleResource # {}
      BY SystemRoleAssumption DEF OneInv, KeepInv, ReloadNeverEmpty, SystemRows
    <2>3. y.pc = "publish" /\ y.rows = roleResource
      BY <1>0, <1>9, <2>1, <2>2 DEF BeginLoad, Become
    <2> QED
      BY <1>0, <1>1, <1>3, <2>1, <2>3 DEF InLoad, ReadsHold, UpToDate, Refreshing
  <1> QED
    BY <1>4, <1>5, <1>6, <1>7, <1>8, <1>9

(* Nobody else fills the map, so no put is lost.                           *)
LEMMA PutAlone ==
  ASSUME OneInv, NEW a \in Admins, NEW u \in Urls, NEW list, Put(a, u, list)
  PROVE  \A v \in Urls : resourceMap'[v] = IF v = u THEN list ELSE resourceMap[v]
  <1>1. Admins \ {a} = {}
    BY DEF OneInv, OneAdministrator
  <1>2. resourceMap \in [Urls -> {Null} \cup SUBSET RoleIds]
    BY DEF OneInv, KeepInv, TypeOK
  <1> QED
    BY <1>1, <1>2 DEF Put

LEMMA LoadProgress ==
  ASSUME OneInv, NEW a \in Admins,
         \/ PublishMap(a) \/ PutResource(a) \/ EndResources(a)
         \/ FindSub(a) \/ TakeSub(a) \/ PutSub(a) \/ EndSubs(a) \/ PutNonRestricted(a) \/ EndLoad(a)
  PROVE  /\ Progress(adm[a])'
         /\ loaded' = adm[a].rows
         /\ \/ InLoad(adm[a])' /\ UNCHANGED missed
            \/ At(a, "idle")' /\ missed' = missed \ {"map"}
         /\ InLoad(adm[a])' => adm'[a].rows = adm[a].rows
  <1> PICK x, y : x = adm[a] /\ y = adm'[a]
    OBVIOUS
  <1> DEFINE rr == x.rows
             Subs0 == SubsIn(rr) \ (x.todo \cup {x.sub})
  <1> DEFINE Goal == /\ Progress(y)' /\ loaded' = rr
                     /\ \/ InLoad(y) /\ UNCHANGED missed
                        \/ y.pc = "idle" /\ missed' = missed \ {"map"}
                     /\ InLoad(y) => y.rows = rr
  <1>0. /\ adm \in [Admins -> AdminState] /\ x \in AdminState
        /\ Progress(x) /\ ReadsHold(x)
    BY DEF OneInv, KeepInv, TypeOK
  <1>1. rr \in SUBSET Rows
    BY <1>0, UseLocals DEF PublishMap, PutResource, EndResources, FindSub, TakeSub, PutSub,
                           EndSubs, PutNonRestricted, EndLoad, At
  <1>2. ResourcesIn(rr) \in SUBSET Resources /\ SubsIn(rr) \in SUBSET Subs
    BY <1>1, RowsType
  <1>3. SUFFICES Goal
    BY DEF InLoad, At
  <1>4. CASE PublishMap(a)
    <2>1. y = Looping("resources", rr, ResourcesIn(rr)) /\ loaded' = rr /\ UNCHANGED missed
      BY <1>0, <1>4 DEF PublishMap, Become
    <2>2. \A u \in Urls : resourceMap'[u] = Null
      BY <1>4 DEF PublishMap
    <2>3. \A u : Part(rr, {}, {}, {}, u) = Null
      BY DEF Part, HoldersSoFar
    <2>4. MapIs(rr, ResourcesIn(rr) \ y.todo, {}, {})'
      <3>1. ResourcesIn(rr) \ y.todo = {}
        BY <2>1 DEF Looping
      <3> QED
        BY <2>2, <2>3, <3>1 DEF MapIs
    <2> QED
      BY <2>1, <2>4 DEF Progress, InLoad, Looping
  <1>5. ASSUME x.pc \in {"resources", "subGet", "subTake", "subPut", "open"}
        PROVE  loaded = rr
    BY <1>0, <1>5 DEF Progress, InLoad
  <1>6. CASE PutResource(a)
    <2>1. PICK res \in x.todo :
            Put(a, res, Holders(rr, res)) /\ y = Looping("resources", rr, x.todo \ {res})
      BY <1>0, <1>6 DEF PutResource, Become, ListOf
    <2>2. /\ x.todo \subseteq ResourcesIn(rr)
          /\ MapIs(rr, ResourcesIn(rr) \ x.todo, {}, {})
          /\ loaded' = rr /\ UNCHANGED missed
      BY <1>0, <1>5, <1>6 DEF PutResource, At, Progress, hist
    <2>3. \A v \in Urls : resourceMap'[v] = IF v = res THEN Holders(rr, res) ELSE resourceMap[v]
      BY <1>2, <2>1, <2>2, PutAlone DEF Urls
    <2>4. MapIs(rr, ResourcesIn(rr) \ y.todo, {}, {})'
      <3>1. ResourcesIn(rr) \ y.todo = (ResourcesIn(rr) \ x.todo) \cup {res}
        BY <2>1, <2>2 DEF Looping
      <3>2. ASSUME NEW v \in Urls
            PROVE  resourceMap'[v] = Part(rr, (ResourcesIn(rr) \ x.todo) \cup {res}, {}, {}, v)
        BY <1>1, <2>2, <2>3, OnePutMore DEF MapIs
      <3> QED
        BY <3>1, <3>2 DEF MapIs
    <2> QED
      BY <2>1, <2>2, <2>4 DEF Progress, InLoad, Looping
  <1>7. CASE EndResources(a)
    <2>1. /\ y = Looping("subGet", rr, SubsIn(rr)) /\ x.todo = {}
          /\ MapIs(rr, ResourcesIn(rr) \ x.todo, {}, {})
          /\ loaded' = rr /\ UNCHANGED <<resourceMap, missed>>
      BY <1>0, <1>5, <1>7 DEF EndResources, At, Become, Progress, hist, cache
    <2>2. ResourcesIn(rr) \ x.todo = ResourcesIn(rr) /\ SubsIn(rr) \ y.todo = {}
      BY <2>1 DEF Looping
    <2>3. MapIs(rr, ResourcesIn(rr), SubsIn(rr) \ y.todo, {})'
      BY <2>1, <2>2 DEF MapIs
    <2> QED
      BY <2>1, <2>3 DEF Progress, InLoad, Looping
  <1>8. CASE FindSub(a)
    <2>1. PICK s \in x.todo :
            y = IF resourceMap[SubUrl(s)] = Null
                  THEN [pc |-> "subPut", rows |-> rr, todo |-> x.todo \ {s},
                        sub |-> s, attrs |-> {}]
                  ELSE [pc |-> "subTake", rows |-> rr, todo |-> x.todo \ {s}, sub |-> s]
      BY <1>0, <1>8 DEF FindSub, Become
    <2>2. /\ x.todo \subseteq SubsIn(rr)
          /\ MapIs(rr, ResourcesIn(rr), SubsIn(rr) \ x.todo, {})
          /\ loaded' = rr /\ UNCHANGED <<resourceMap, missed>>
      BY <1>0, <1>5, <1>8 DEF FindSub, At, Progress, hist, cache
    <2>3. /\ y.pc \in {"subPut", "subTake"} /\ y.rows = rr /\ y.todo = x.todo \ {s} /\ y.sub = s
          /\ y.pc = "subTake" => resourceMap[SubUrl(s)] # Null
          /\ y.pc = "subPut" => resourceMap[SubUrl(s)] = Null /\ y.attrs = {}
      BY <2>1
    <2>4. SubsIn(rr) \ (y.todo \cup {y.sub}) = SubsIn(rr) \ x.todo
      BY <2>2, <2>3
    <2>5. MapIs(rr, ResourcesIn(rr), SubsIn(rr) \ (y.todo \cup {y.sub}), {})'
      BY <2>2, <2>4 DEF MapIs
    <2> QED
      BY <2>2, <2>3, <2>5 DEF Progress, InLoad, RolesOf
  <1>9. CASE TakeSub(a)
    <2>1. /\ resourceMap[SubUrl(x.sub)] # Null /\ x.todo \subseteq SubsIn(rr)
          /\ x.sub \in SubsIn(rr) \ x.todo
          /\ MapIs(rr, ResourcesIn(rr), Subs0, {})
          /\ loaded' = rr /\ UNCHANGED resourceMap
      BY <1>0, <1>5, <1>9 DEF TakeSub, At, Progress, cache
    <2>2. /\ y = [pc |-> "subPut", rows |-> rr, todo |-> x.todo, sub |-> x.sub,
                  attrs |-> RolesOf(resourceMap[SubUrl(x.sub)])]
          /\ UNCHANGED missed
      BY <1>0, <1>9, <2>1 DEF TakeSub, Become, ListFor
    <2>3. MapIs(rr, ResourcesIn(rr), SubsIn(rr) \ (y.todo \cup {y.sub}), {})'
      BY <2>1, <2>2 DEF MapIs
    <2> QED
      BY <2>1, <2>2, <2>3 DEF Progress, InLoad
  <1>10. CASE PutSub(a)
    <2>1. /\ x.attrs = RolesOf(resourceMap[SubUrl(x.sub)]) /\ x.todo \subseteq SubsIn(rr)
          /\ x.sub \in SubsIn(rr) \ x.todo
          /\ MapIs(rr, ResourcesIn(rr), Subs0, {})
          /\ loaded' = rr /\ UNCHANGED missed
      BY <1>0, <1>5, <1>10 DEF PutSub, At, Progress, hist
    <2>2. SubUrl(x.sub) \in Urls
      BY <1>2, <2>1, SubType
    <2>3. PICK more \in {{}, RolesOf(resourceMap[SubUrl(x.sub)])} :
            Put(a, SubUrl(x.sub), x.attrs \cup more \cup ListOf(rr, SubOf(x.sub)))
      BY <1>10 DEF PutSub
    <2>4. x.attrs \cup more \cup ListOf(rr, SubOf(x.sub))
            = RolesOf(resourceMap[SubUrl(x.sub)]) \cup Holders(rr, SubOf(x.sub))
      BY <2>1, <2>3 DEF ListOf
    <2>5. \A v \in Urls : resourceMap'[v] =
            IF v = SubUrl(x.sub)
              THEN RolesOf(resourceMap[SubUrl(x.sub)]) \cup Holders(rr, SubOf(x.sub))
              ELSE resourceMap[v]
      BY <2>2, <2>3, <2>4, PutAlone
    <2>6. y = Looping("subGet", rr, x.todo)
      BY <1>0, <1>10 DEF PutSub, Become
    <2>7. MapIs(rr, ResourcesIn(rr), SubsIn(rr) \ y.todo, {})'
      <3>1. SubsIn(rr) \ y.todo = Subs0 \cup {x.sub}
        BY <2>1, <2>6 DEF Looping
      <3>2. ASSUME NEW v \in Urls
            PROVE  resourceMap'[v] = Part(rr, ResourcesIn(rr), Subs0 \cup {x.sub}, {}, v)
        <4>1. CASE v = SubUrl(x.sub)
          <5>1. resourceMap[SubUrl(x.sub)] = Part(rr, ResourcesIn(rr), Subs0, {}, SubUrl(x.sub))
            BY <2>1, <2>2 DEF MapIs
          <5>2. Part(rr, ResourcesIn(rr), Subs0 \cup {x.sub}, {}, SubUrl(x.sub))
                  = RolesOf(Part(rr, ResourcesIn(rr), Subs0, {}, SubUrl(x.sub)))
                      \cup Holders(rr, SubOf(x.sub))
            BY <1>1, <2>1, OnePutMore
          <5> QED
            BY <2>2, <2>5, <4>1, <5>1, <5>2
        <4>2. CASE v # SubUrl(x.sub)
          BY <1>1, <2>1, <2>5, <4>2, OnePutMore DEF MapIs
        <4> QED
          BY <4>1, <4>2
      <3> QED
        BY <3>1, <3>2 DEF MapIs
    <2> QED
      BY <2>1, <2>6, <2>7 DEF Progress, InLoad, Looping
  <1>11. CASE EndSubs(a)
    <2>1. /\ y = Looping("open", rr, NonRestricted) /\ x.todo = {}
          /\ MapIs(rr, ResourcesIn(rr), SubsIn(rr) \ x.todo, {})
          /\ loaded' = rr /\ UNCHANGED <<resourceMap, missed>>
      BY <1>0, <1>5, <1>11 DEF EndSubs, At, Become, Progress, hist, cache
    <2>2. SubsIn(rr) \ x.todo = SubsIn(rr) /\ NonRestricted \ y.todo = {}
      BY <2>1 DEF Looping
    <2>3. MapIs(rr, ResourcesIn(rr), SubsIn(rr), NonRestricted \ y.todo)'
      BY <2>1, <2>2 DEF MapIs
    <2> QED
      BY <2>1, <2>3 DEF Progress, InLoad, Looping
  <1>12. CASE PutNonRestricted(a)
    <2>1. PICK res \in x.todo :
            Put(a, res, RolesIn(rr)) /\ y = Looping("open", rr, x.todo \ {res})
      BY <1>0, <1>12 DEF PutNonRestricted, Become
    <2>2. /\ x.todo \subseteq NonRestricted
          /\ MapIs(rr, ResourcesIn(rr), SubsIn(rr), NonRestricted \ x.todo)
          /\ loaded' = rr /\ UNCHANGED missed
      BY <1>0, <1>5, <1>12, UseLocals DEF PutNonRestricted, At, Progress, hist
    <2>3. \A v \in Urls : resourceMap'[v] = IF v = res THEN RolesIn(rr) ELSE resourceMap[v]
      BY <2>1, <2>2, PutAlone, ConstantsAssumption DEF Urls
    <2>4. MapIs(rr, ResourcesIn(rr), SubsIn(rr), NonRestricted \ y.todo)'
      <3>1. NonRestricted \ y.todo = (NonRestricted \ x.todo) \cup {res}
        BY <2>1, <2>2 DEF Looping
      <3>2. ASSUME NEW v \in Urls
            PROVE  resourceMap'[v] =
                     Part(rr, ResourcesIn(rr), SubsIn(rr), (NonRestricted \ x.todo) \cup {res}, v)
        BY <1>1, <2>2, <2>3, OnePutMore DEF MapIs
      <3> QED
        BY <3>1, <3>2 DEF MapIs
    <2> QED
      BY <2>1, <2>2, <2>4 DEF Progress, InLoad, Looping
  <1>13. CASE EndLoad(a)
    <2>1. /\ y = Idle /\ x.todo = {} /\ missed' = missed \ {"map"}
          /\ MapIs(rr, ResourcesIn(rr), SubsIn(rr), NonRestricted \ x.todo)
          /\ loaded = rr /\ UNCHANGED <<resourceMap, loaded>>
      BY <1>0, <1>5, <1>13 DEF EndLoad, At, Become, Done, Progress, cache
    <2>2. NonRestricted \ x.todo = NonRestricted
      BY <2>1
    <2>3. MapIs(loaded, ResourcesIn(loaded), SubsIn(loaded), NonRestricted)'
      BY <2>1, <2>2 DEF MapIs
    <2> QED
      BY <2>1, <2>3 DEF Progress, InLoad, Idle
  <1> QED
    BY <1>4, <1>6, <1>7, <1>8, <1>9, <1>10, <1>11, <1>12, <1>13

LEMMA LoadOne ==
  ASSUME OneInv, NEW a \in Admins,
         \/ PublishMap(a) \/ PutResource(a) \/ EndResources(a)
         \/ FindSub(a) \/ TakeSub(a) \/ PutSub(a) \/ EndSubs(a) \/ PutNonRestricted(a) \/ EndLoad(a)
  PROVE  HandlerInv(a)' /\ loaded' = roleResource
  <1> DEFINE x == adm[a]
  <1> PICK y : y = adm'[a]
    OBVIOUS
  <1>0. TypeOK /\ IdsGiven /\ ReadsHold(x) /\ UpToDate(x)
    BY DEF OneInv, KeepInv
  <1>1. UNCHANGED <<roles, lastRole, roleResource, rolesList>>
    BY DEF PublishMap, PutResource, EndResources, FindSub, TakeSub, PutSub, EndSubs,
           PutNonRestricted, EndLoad, db, cache
  <1>2. x.pc \in {"publish", "resources", "subGet", "subTake", "subPut", "open"}
    BY DEF PublishMap, PutResource, EndResources, FindSub, TakeSub, PutSub, EndSubs,
           PutNonRestricted, EndLoad, At
  <1>3. x.rows = roleResource
    BY <1>0, <1>2 DEF ReadsHold, InLoad
  <1>4. loaded' = roleResource /\ Progress(y)'
    BY <1>3, LoadProgress
  <1>5. RowsOf(loaded', roles) = roleResource /\ RolesIn(loaded') \subseteq roles
    BY <1>0, <1>4, LoadedIsStored
  <1>6. \/ InLoad(y) /\ y.rows = roleResource /\ UNCHANGED missed
        \/ y.pc = "idle" /\ missed' = missed \ {"map"}
    BY <1>3, LoadProgress DEF InLoad, At
  <1>7. IdsGiven'
    BY <1>0, <1>1, <1>5 DEF IdsGiven
  <1>8. ReadsHold(y)'
    BY <1>1, <1>6 DEF ReadsHold, InLoad
  <1>9. UpToDate(y)'
    BY <1>0, <1>1, <1>2, <1>5, <1>6 DEF UpToDate, InLoad
  <1> QED
    BY <1>4, <1>7, <1>8, <1>9 DEF HandlerInv

(* The handlers note what they may deny.                                   *)
LEMMA HandlerDenials ==
  ASSUME OneInv, NEW a \in Admins, Handler(a)
  PROVE  (\A u \in Users : DenialsNoted(u)') /\ DenialJustified'
  <1>0. /\ TypeOK /\ DenialJustified /\ \A u \in Users : DenialsNoted(u)
        /\ UNCHANGED <<session, req>> /\ mayDeny \in [Users -> BOOLEAN]
    BY DEF OneInv, KeepInv, TypeOK, Handler, StartAssign, CommitAssign, AbortAssign,
           StartRemove, DeleteRole, AddRole, UpdateRole, ReadRoles, SetRolesList, ReadFails,
           ReadRoleResources, SetRoleResourcesList, BeginLoad, PublishMap, PutResource,
           EndResources, FindSub, TakeSub, PutSub, EndSubs, PutNonRestricted, EndLoad, users
  <1>1. ASSUME loaded' \in {loaded, roleResource, roleResource'},
               \/ roleResource' = roleResource /\ UNCHANGED mayDeny
               \/ NoteDenials(roleResource')
        PROVE  (\A u \in Users : DenialsNoted(u)') /\ DenialJustified'
    <2>1. \A u \in Users : mayDeny[u] => mayDeny'[u]
      BY <1>0, <1>1 DEF NoteDenials
    <2>2. DenialJustified'
      BY <1>0, <2>1 DEF DenialJustified
    <2>3. ASSUME NEW u \in Users PROVE DenialsNoted(u)'
      <3>1. SUFFICES ASSUME InFlight(u)
                     PROVE  DenialsNoted(u)'
        BY <1>0 DEF DenialsNoted, InFlight
      <3>2. /\ session[u] # Null /\ req[u].decision = "none" /\ req[u].url \in Urls
            /\ \A rr \in {loaded, roleResource} :
                 ~ Passes(Entry(rr, req[u].url), session[u]) => mayDeny[u]
        BY <1>0, <3>1 DEF DenialsNoted
      <3>3. ~ Passes(Entry(roleResource', req[u].url), session[u]) => mayDeny'[u]
        BY <1>1, <2>1, <3>1, <3>2 DEF NoteDenials, InFlight
      <3>4. \A rr \in {loaded', roleResource'} :
              ~ Passes(Entry(rr, req[u].url), session[u]) => mayDeny'[u]
        BY <1>1, <2>1, <3>2, <3>3
      <3> QED
        BY <1>0, <3>2, <3>4 DEF DenialsNoted
    <2> QED
      BY <2>2, <2>3
  <1>2. CASE CommitAssign(a) \/ DeleteRole(a)
    BY <1>1, <1>2 DEF CommitAssign, DeleteRole
  <1>3. CASE \/ PublishMap(a) \/ PutResource(a) \/ EndResources(a)
             \/ FindSub(a) \/ TakeSub(a) \/ PutSub(a) \/ EndSubs(a) \/ PutNonRestricted(a)
             \/ EndLoad(a)
    <2>1. UNCHANGED <<roleResource, mayDeny>>
      BY <1>3 DEF PublishMap, PutResource, EndResources, FindSub, TakeSub, PutSub, EndSubs,
                  PutNonRestricted, EndLoad, db, hist
    <2> QED
      BY <1>1, <1>3, <2>1, LoadOne
  <1>4. CASE \/ StartAssign(a) \/ AbortAssign(a) \/ StartRemove(a) \/ AddRole(a)
             \/ UpdateRole(a) \/ ReadRoles(a) \/ SetRolesList(a) \/ ReadFails(a)
             \/ ReadRoleResources(a) \/ SetRoleResourcesList(a) \/ BeginLoad(a)
    <2>1. UNCHANGED <<roleResource, loaded, mayDeny>>
      BY <1>4 DEF StartAssign, AbortAssign, StartRemove, AddRole, UpdateRole, ReadRoles,
                  SetRolesList, ReadFails, ReadRoleResources, SetRoleResourcesList, BeginLoad,
                  db, hist
    <2> QED
      BY <1>1, <2>1
  <1> QED
    BY <1>2, <1>3, <1>4 DEF Handler

(* A map that is still being filled is right as far as it goes.            *)
LEMMA MapRight ==
  ASSUME OneInv, NEW a \in Admins
  PROVE  MapNeverWrong
  <1> DEFINE x == adm[a]
  <1>0. /\ Progress(x) /\ x \in AdminState /\ loaded \in SUBSET Rows
        /\ ResourcesIn(loaded) \in SUBSET Resources /\ SubsIn(loaded) \in SUBSET Subs
    BY RowsType DEF OneInv, KeepInv, TypeOK
  <1>1. \E R \in SUBSET Resources, S \in SUBSET Subs, O \in SUBSET NonRestricted :
          MapIs(loaded, R, S, O)
    <2>1. CASE x.pc = "resources"
      <3> DEFINE R == ResourcesIn(loaded) \ x.todo
      <3>1. R \in SUBSET Resources /\ MapIs(loaded, R, {}, {})
        BY <1>0, <2>1 DEF Progress, InLoad
      <3> QED
        BY <3>1
    <2>2. CASE x.pc = "subGet"
      <3> DEFINE S == SubsIn(loaded) \ x.todo
      <3>1. S \in SUBSET Subs /\ MapIs(loaded, ResourcesIn(loaded), S, {})
        BY <1>0, <2>2 DEF Progress, InLoad
      <3> QED
        BY <1>0, <3>1
    <2>3. CASE x.pc \in {"subTake", "subPut"}
      <3> DEFINE S == SubsIn(loaded) \ (x.todo \cup {x.sub})
      <3>1. S \in SUBSET Subs /\ MapIs(loaded, ResourcesIn(loaded), S, {})
        BY <1>0, <2>3 DEF Progress, InLoad
      <3> QED
        BY <1>0, <3>1
    <2>4. CASE x.pc = "open"
      <3> DEFINE O == NonRestricted \ x.todo
      <3>1. O \in SUBSET NonRestricted /\ MapIs(loaded, ResourcesIn(loaded), SubsIn(loaded), O)
        BY <1>0, <2>4 DEF Progress, InLoad
      <3> QED
        BY <1>0, <3>1
    <2>5. CASE ~ InLoad(x)
      BY <1>0, <2>5 DEF Progress
    <2> QED
      BY <2>1, <2>2, <2>3, <2>4, <2>5 DEF InLoad
  <1>2. PICK R \in SUBSET Resources, S \in SUBSET Subs, O \in SUBSET NonRestricted :
          MapIs(loaded, R, S, O)
    BY <1>1
  <1>3. \A u \in Urls : resourceMap[u] = Part(loaded, R, S, O, u)
    BY <1>2 DEF MapIs
  <1> QED
    BY <1>0, <1>3, PartOfEntry DEF MapNeverWrong

(* The requests, and users who get other roles.                            *)
LEMMA RequestOne ==
  ASSUME OneInv, NEW v \in Users, Request(v)
  PROVE  /\ UNCHANGED <<roles, lastRole, roleResource, cache, adm, loaded, missed>>
         /\ (\A u \in Users : DenialsNoted(u)') /\ DenialJustified'
  <1>0. /\ TypeOK /\ DenialJustified /\ \A u \in Users : DenialsNoted(u)
        /\ session \in [Users -> {Null} \cup SUBSET RoleIds]
        /\ req \in [Users -> [pc : {"idle", "search", "get"}, url : Urls \cup {Null},
                              decision : {"none", "pass", "deny", "error"}]]
        /\ mayDeny \in [Users -> BOOLEAN]
    BY DEF OneInv, KeepInv, TypeOK
  <1>1. UNCHANGED <<roles, lastRole, roleResource, cache, adm, loaded, missed>>
    BY DEF Request, UpdateUserRole, Login, Logout, StartRequest, FindKey, WalkFails,
           GetAndDecide, db, cache, hist
  <1>2. UNCHANGED <<loaded, roleResource>>
    BY <1>1
  <1>3. SUFFICES ASSUME NEW u \in Users
                 PROVE  /\ DenialsNoted(u)'
                        /\ (req[u].decision = "deny" /\ SinglePut(req[u].url) => mayDeny[u])'
    BY <1>1 DEF DenialJustified
  <1>4. req[u].decision = "deny" /\ SinglePut(req[u].url) => mayDeny[u]
    BY <1>0 DEF DenialJustified
  <1>5. ASSUME req'[u] = req[u], mayDeny'[u] = mayDeny[u],
               session'[u] = session[u] \/ ~ InFlight(u)
        PROVE  /\ DenialsNoted(u)'
               /\ (req[u].decision = "deny" /\ SinglePut(req[u].url) => mayDeny[u])'
    BY <1>0, <1>2, <1>4, <1>5 DEF DenialsNoted, InFlight
  <1>6. CASE UpdateUserRole(v)
    BY <1>5, <1>6 DEF UpdateUserRole, users, hist
  <1>7. CASE Login(v)
    <2>1. u = v => ~ InFlight(u)
      BY <1>0, <1>7 DEF Login, DenialsNoted
    <2> QED
      BY <1>0, <1>5, <1>7, <2>1 DEF Login, hist
  <1>8. CASE Logout(v)
    <2>1. CASE u = v
      BY <1>0, <1>8, <2>1 DEF Logout, NoRequest, DenialsNoted, InFlight
    <2>2. CASE u # v
      BY <1>0, <1>5, <1>8, <2>2 DEF Logout, hist
    <2> QED
      BY <2>1, <2>2
  <1>9. CASE StartRequest(v)
    <2>1. CASE u = v
      <3>1. PICK q \in Urls :
              /\ req'[u] = [pc |-> "search", url |-> q, decision |-> "none"]
              /\ mayDeny'[u] = \E rr \in {loaded, roleResource} :
                                 ~ Passes(Entry(rr, q), session[u])
              /\ session[u] # Null /\ UNCHANGED session
        BY <1>0, <1>9, <2>1 DEF StartRequest
      <3> QED
        BY <1>2, <3>1 DEF DenialsNoted, InFlight
    <2>2. CASE u # v
      BY <1>0, <1>5, <1>9, <2>2 DEF StartRequest
    <2> QED
      BY <2>1, <2>2
  <1>10. CASE FindKey(v) \/ WalkFails(v) \/ GetAndDecide(v)
    <2>1. UNCHANGED <<session, mayDeny>>
      BY <1>10 DEF FindKey, WalkFails, GetAndDecide, hist
    <2>2. CASE u # v
      <3>1. req'[u] = req[u]
        BY <1>0, <1>10, <2>2 DEF FindKey, WalkFails, GetAndDecide, Answer
      <3> QED
        BY <1>5, <2>1, <3>1
    <2>3. CASE u = v /\ FindKey(v)
      <3>1. \/ /\ resourceMap[req[u].url] = Null
               /\ req'[u] = [pc |-> "idle", url |-> req[u].url, decision |-> "pass"]
            \/ req'[u] = [pc |-> "get", url |-> req[u].url, decision |-> "none"]
        BY <1>0, <2>3 DEF FindKey, Answer, Passes
      <3>2. InFlight(u)
        BY <2>3 DEF FindKey, InFlight
      <3> QED
        BY <1>0, <1>2, <2>1, <3>1, <3>2 DEF DenialsNoted, InFlight
    <2>4. CASE u = v /\ WalkFails(v)
      <3>1. req'[u] = [pc |-> "idle", url |-> req[u].url, decision |-> "error"]
        BY <1>0, <2>4 DEF WalkFails, Answer
      <3> QED
        BY <3>1 DEF DenialsNoted, InFlight
    <2>5. CASE u = v /\ GetAndDecide(v)
      <3> DEFINE url == req[u].url
      <3>1. req'[u] = [pc |-> "idle", url |-> req[u].url,
                       decision |-> IF Passes(resourceMap[url], session[u]) THEN "pass" ELSE "deny"]
        BY <1>0, <2>5 DEF GetAndDecide, Answer
      <3>2. InFlight(u) /\ url \in Urls
        BY <1>0, <2>5 DEF GetAndDecide, InFlight, DenialsNoted
      <3>3. MapNeverWrong
        BY MapRight DEF OneInv, OneAdministrator
      <3>4. ~ Passes(resourceMap[url], session[u]) /\ SinglePut(url) =>
              ~ Passes(Entry(loaded, url), session[u])
        BY <3>2, <3>3 DEF MapNeverWrong, Passes
      <3>5. ~ Passes(resourceMap[url], session[u]) /\ SinglePut(url) => mayDeny[u]
        BY <1>0, <3>2, <3>4 DEF DenialsNoted
      <3> QED
        BY <2>1, <3>1, <3>5 DEF DenialsNoted, InFlight
    <2> QED
      BY <1>10, <2>2, <2>3, <2>4, <2>5
  <1> QED
    BY <1>1, <1>6, <1>7, <1>8, <1>9, <1>10 DEF Request

LEMMA OneStep == OneInv /\ [Next]_vars => OneInv'
  <1> SUFFICES ASSUME OneInv, [Next]_vars PROVE OneInv'
    OBVIOUS
  <1>1. OneAdministrator' /\ KeepInv'
    BY KeepStep DEF OneInv, OneAdministrator
  <1>2. CASE \E a \in Admins : Handler(a)
    <2>1. PICK a \in Admins : Handler(a)
      BY <1>2
    <2>2. \A b \in Admins : b = a
      BY DEF OneInv, OneAdministrator
    <2>3. HandlerInv(a)'
      BY <2>1, TableOne, RefreshOne, LoadOne DEF Handler
    <2>4. (\A u \in Users : DenialsNoted(u)') /\ DenialJustified'
      BY <2>1, HandlerDenials
    <2> QED
      BY <1>1, <2>2, <2>3, <2>4 DEF OneInv, HandlerInv
  <1>3. ASSUME UNCHANGED <<roles, lastRole, roleResource, cache, adm, loaded, missed>>,
               (\A u \in Users : DenialsNoted(u)') /\ DenialJustified'
        PROVE  OneInv'
    <2>1. UNCHANGED <<roles, roleResource, lastRole, rolesList, roleResourcesList, resourceMap,
                      adm, loaded, missed>>
      BY <1>3 DEF cache
    <2>2. IdsGiven'
      BY <2>1 DEF OneInv, IdsGiven
    <2>3. ASSUME NEW a \in Admins
          PROVE  Progress(adm[a])' /\ ReadsHold(adm[a])' /\ UpToDate(adm[a])'
      <3>1. Progress(adm[a]) /\ ReadsHold(adm[a]) /\ UpToDate(adm[a])
        BY DEF OneInv
      <3>2. Progress(adm[a])'
        BY <2>1, <3>1 DEF Progress, InLoad, MapIs
      <3>3. ReadsHold(adm[a])'
        BY <2>1, <3>1 DEF ReadsHold, InLoad
      <3>4. UpToDate(adm[a])'
        BY <2>1, <3>1 DEF UpToDate, Refreshing
      <3> QED
        BY <3>2, <3>3, <3>4
    <2> QED
      BY <1>1, <1>3, <2>2, <2>3 DEF OneInv
  <1>4. CASE \E u \in Users : Request(u)
    BY <1>3, <1>4, RequestOne
  <1>5. CASE UNCHANGED vars
    <2>1. /\ UNCHANGED <<roles, lastRole, roleResource, cache, adm, loaded, missed>>
          /\ UNCHANGED <<session, req, mayDeny>>
      BY <1>5 DEF vars, db, users, hist
    <2>2. (\A u \in Users : DenialsNoted(u)') /\ DenialJustified'
      BY <2>1 DEF OneInv, DenialsNoted, InFlight, DenialJustified
    <2> QED
      BY <1>3, <2>1, <2>2
  <1> QED
    BY <1>2, <1>4, <1>5 DEF Next

LEMMA OneAlways == OneAdministrator /\ Spec => []OneInv
  BY OneInitially, OneStep, PTL DEF Spec

(* With one administrator at work, whatever the requests see of a load in  *)
(* progress (loadResourceDefine fills the published map) is incomplete at  *)
(* worst: each list has only roles of the rows loaded, and all of them if  *)
(* one put completes it.                                                   *)
THEOREM OneLoadNeverWrong == OneAdministrator /\ Spec => []MapNeverWrong
  <1>1. OneInv => MapNeverWrong
    BY MapRight DEF OneInv, OneAdministrator
  <1> QED
    BY <1>1, OneAlways, PTL

(* With one administrator at work, the caches agree with the tables        *)
(* between two handlers, but for a refresh a failed read has skipped.      *)
THEOREM OneLeavesCoherent == OneAdministrator /\ Spec => []CoherentWhenQuiet
  <1>1. OneInv => CoherentWhenQuiet
    <2> SUFFICES ASSUME OneInv, Quiet
                 PROVE  /\ "roles" \notin missed => rolesList = roles
                        /\ "map" \notin missed => \A u \in Urls :
                             RolesOf(resourceMap[u]) \cap roles = RolesOf(Entry(roleResource, u))
      BY DEF CoherentWhenQuiet
    <2>1. PICK a \in Admins : TRUE
      BY DEF OneInv, OneAdministrator
    <2>2. adm[a].pc = "idle" /\ Progress(adm[a]) /\ UpToDate(adm[a]) /\ loaded \in SUBSET Rows
      BY DEF Quiet, At, OneInv, KeepInv, TypeOK
    <2>3. \A u \in Urls : resourceMap[u] = Entry(loaded, u)
      BY <2>2, EntryIsWhole DEF Progress, InLoad, MapIs
    <2>4. "map" \notin missed => RowsOf(loaded, roles) = roleResource
      BY <2>2 DEF UpToDate, Refreshing
    <2>5. "roles" \notin missed => rolesList = roles
      BY <2>2 DEF UpToDate
    <2> QED
      BY <2>2, <2>3, <2>4, <2>5, EntryOfRoles
  <1> QED
    BY <1>1, OneAlways, PTL

(* With one administrator at work, no refusal (MyAccessDescisionManager)   *)
(* is an artefact of a load in progress.                                   *)
THEOREM OneDeniesJustly == OneAdministrator /\ Spec => []DenialJustified
  <1>1. OneInv => DenialJustified
    BY DEF OneInv
  <1> QED
    BY <1>1, OneAlways, PTL

=============================================================================
