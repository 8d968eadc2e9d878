------------------------------ MODULE RoleAuth ------------------------------
(***************************************************************************)
(* Roles, their resources, and the two in-memory copies the stage web      *)
(* application decides requests with.                                      *)
(*                                                                         *)
(* The database tables roles, role_resource and user_role are changed by   *)
(* the handlers of RolesController and UsersController.  SystemConstant    *)
(* caches roles (ROLES_LIST) and role_resource (ROLE_RESOURCES_LIST) in    *)
(* unsynchronised static fields, and MySecurityMetadataSource compiles the *)
(* latter into resourceMap, a static HashMap from URL to role ids, which   *)
(* every request of a signed-in user consults.  A handler is a thread of   *)
(* the servlet container: between two of its database or cache accesses    *)
(* any other thread may run, so each access is an action here.             *)
(***************************************************************************)
EXTENDS Integers, FiniteSets

CONSTANTS
  Admins,         (* threads that run role-administration handlers         *)
  Users,          (* ids of the editable users that sign in                *)
  MaxRole,        (* bound: role ids are 1 .. MaxRole                      *)
  InitRole,       (* role ids at start-up are 1 .. InitRole                *)
  SystemRoles,    (* roles with editable = 0                               *)
  Resources,      (* rows of resources; a resource is named by its URL     *)
  NonRestricted,  (* resources with is_restricted = 0                      *)
  Subs,           (* rows of resources_sub: <<sub URL, resource>>          *)
  InitRows,       (* role_resource at start-up                             *)
  InitUserRole,   (* user_role at start-up                                 *)
  MaxFailures,    (* bound: database reads that fail                       *)
  Null            (* Java null                                             *)

RoleIds == 1 .. MaxRole
SubUrl(s) == s[1]
SubOf(s)  == s[2]
Urls == Resources \cup {SubUrl(s) : s \in Subs}
Rows == RoleIds \X Resources

ASSUME ConstantsAssumption ==
  /\ MaxRole \in Nat /\ InitRole \in 1 .. MaxRole /\ MaxFailures \in Nat
  /\ SystemRoles \subseteq 1 .. InitRole
  /\ Users \subseteq Nat
  /\ NonRestricted \subseteq Resources
  /\ Subs \subseteq {SubUrl(s) : s \in Subs} \X Resources
  /\ InitRows \subseteq (1 .. InitRole) \X Resources
  /\ InitUserRole \subseteq Users \X (1 .. InitRole)
  /\ (\A S \in SUBSET RoleIds : S # Null) /\ Null \notin Urls \cup Subs

(* The installation script gives the system role resources of its own.     *)
ASSUME SystemRoleAssumption ==
  \E row \in InitRows : row[1] \in SystemRoles

VARIABLES
  roles,              (* table roles                                       *)
  lastRole,           (* AUTO_INCREMENT counter of roles                   *)
  roleResource,       (* table role_resource                               *)
  userRole,           (* table user_role                                   *)
  rolesList,          (* SystemConstant.ROLES_LIST                         *)
  roleResourcesList,  (* SystemConstant.ROLE_RESOURCES_LIST                *)
  resourceMap,        (* MySecurityMetadataSource.resourceMap              *)
  adm,                (* per admin: the locals of its handler              *)
  session,            (* per user: authorities fixed at login, or Null     *)
  req,                (* per user: its request in flight                   *)
  failures,           (* database reads that failed so far                 *)
  granted,            (* history: every row role_resource ever held        *)
  loaded,             (* history: rows the current resourceMap is built of *)
  missed,             (* history: refreshes a failed read has skipped      *)
  mayDeny             (* history: see DenialJustified                      *)

db    == <<roles, lastRole, roleResource, userRole>>
cache == <<rolesList, roleResourcesList, resourceMap>>
users == <<session, req>>
hist  == <<granted, loaded, missed, mayDeny>>
vars  == <<db, cache, adm, users, failures, hist>>

-----------------------------------------------------------------------------
(* What loadResourceDefine computes from the rows it has read.             *)

RolesIn(rr)     == {row[1] : row \in rr}
ResourcesIn(rr) == {row[2] : row \in rr}
SubsIn(rr)      == {s \in Subs : SubOf(s) \in ResourcesIn(rr)}

Holders(rr, res) == {r \in RoleIds : <<r, res>> \in rr}

(* The roles a load puts, or adds, for one resource.                       *)
(* Mutant of ListOf: the comparison with the resource id is missing.       *)
ListOfAll(rr, res) == RolesIn(rr)
ListOf(rr, res) == Holders(rr, res)

(* The list a completed load puts under URL u; Null if it puts none.       *)
Entry(rr, u) ==
  LET subHolders == UNION {Holders(rr, SubOf(s)) : s \in {t \in Subs : SubUrl(t) = u}}
      holders    == Holders(rr, u) \cup subHolders
  IN  IF u \in NonRestricted THEN RolesIn(rr)
      ELSE IF holders = {} THEN Null ELSE holders

(* URLs whose list is complete after one put.                              *)
SinglePut(u) ==
  LET subs == {s \in Subs : SubUrl(s) = u}
  IN  /\ u \notin NonRestricted
      /\ \/ u \in Resources /\ subs = {}
         \/ u \notin Resources /\ \E s \in Subs : subs = {s}

(* A list of attributes as a set of roles.                                 *)
RolesOf(a) == IF a = Null THEN {} ELSE a

(* MyAccessDescisionManager.decide: without a list everyone passes,        *)
(* otherwise one common role is enough.                                    *)
(* Mutant of Passes: a URL without a list is refused.                      *)
PassesListedOnly(a, auth) == a # Null /\ a \cap auth # {}
Passes(a, auth) == a = Null \/ a \cap auth # {}

-----------------------------------------------------------------------------
(* The locals of an admin's thread: pc names the step to come, the other   *)
(* fields are the variables alive there.                                   *)
Idle == [pc |-> "idle"]
ToRead(table, op) == [pc |-> table, op |-> op]
Looping(loop, rr, todo) == [pc |-> loop, rows |-> rr, todo |-> todo]

NoRequest == [pc |-> "idle", url |-> Null, decision |-> "none"]

Init ==
  /\ roles = 1 .. InitRole
  /\ lastRole = InitRole
  /\ roleResource = InitRows
  /\ userRole = InitUserRole
  /\ rolesList = roles
  /\ roleResourcesList = InitRows
  /\ resourceMap = [u \in Urls |-> Entry(InitRows, u)]
  /\ adm = [a \in Admins |-> Idle]
  /\ session = [u \in Users |-> Null]
  /\ req = [u \in Users |-> NoRequest]
  /\ failures = 0
  /\ granted = InitRows
  /\ loaded = InitRows
  /\ missed = {}
  /\ mayDeny = [u \in Users |-> FALSE]

At(a, l) == adm[a].pc = l
Become(a, locals) == adm' = [adm EXCEPT ![a] = locals]
Done(a)  == Become(a, Idle)

(* A request in flight that the new contents of role_resource would deny.  *)
NoteDenials(rr) ==
  mayDeny' = [u \in Users |->
    \/ mayDeny[u]
    \/ /\ req[u].pc \in {"search", "get"}
       /\ ~ Passes(Entry(rr, req[u].url), session[u])]

-----------------------------------------------------------------------------
(* assignAuthForRole: checks, transaction, refresh, reload.                *)

(* Mutant of IsEditable: only the existence of the role is checked.        *)
IsListed(r) == r \in rolesList
IsEditable(r) == r \in rolesList \ SystemRoles

StartAssign(a) ==
  /\ At(a, "idle")
  /\ \E r \in RoleIds, w \in SUBSET Resources :
       /\ IsEditable(r)
       /\ Become(a, [pc |-> "assign", role |-> r, wanted |-> w])
  /\ UNCHANGED <<db, cache, users, failures, hist>>

(* Mutant of RowsWithout: nothing is deleted.                              *)
RowsKept(r) == roleResource
RowsWithout(r) == {row \in roleResource : row[1] # r}

(* Delete the rows of the role and insert the new ones, in one             *)
(* transaction.  An insert for a role that was deleted meanwhile breaks    *)
(* the foreign key and rolls back: see AbortAssign.                        *)
CommitAssign(a) ==
  /\ At(a, "assign")
  /\ LET r  == adm[a].role
         rr == RowsWithout(r) \cup ({r} \X adm[a].wanted)
     IN  /\ r \in roles \/ adm[a].wanted = {}
         /\ roleResource' = rr
         /\ granted' = granted \cup rr
         /\ NoteDenials(rr)
  /\ Become(a, ToRead("rrRead", "assign"))
  /\ UNCHANGED <<roles, lastRole, userRole, cache, users, failures, loaded, missed>>

(* Mutant of AbortAssign: the refresh reads inside the transaction that is *)
(* then rolled back.                                                       *)
AbortAfterRefresh(a) ==
  /\ At(a, "assign")
  /\ LET r == adm[a].role
     IN  Become(a, [pc |-> "rrSet", op |-> "assign",
                    rows |-> RowsWithout(r) \cup ({r} \X adm[a].wanted)])
  /\ UNCHANGED <<db, cache, users, failures, hist>>

AbortAssign(a) ==
  /\ At(a, "assign")
  /\ Done(a)
  /\ UNCHANGED <<db, cache, users, failures, hist>>

(* setRoleResourcesList reads the table into a local ...                   *)
ReadRoleResources(a) ==
  /\ At(a, "rrRead")
  /\ Become(a, [pc |-> "rrSet", op |-> adm[a].op, rows |-> roleResource])
  /\ UNCHANGED <<db, cache, users, failures, hist>>

(* ... and assigns it.  Only assignAuthForRole goes on to reload the map.  *)
(* Mutant of AfterRefresh: the call of loadResourceDefine is forgotten.    *)
AfterRefreshStop(o) == "idle"
AfterRefresh(o) == IF o = "assign" THEN "load" ELSE "idle"

SetRoleResourcesList(a) ==
  /\ At(a, "rrSet")
  /\ roleResourcesList' = adm[a].rows
  /\ IF AfterRefresh(adm[a].op) = "idle"
       THEN Done(a)
       ELSE Become(a, [pc |-> "load"])
  /\ UNCHANGED <<db, rolesList, resourceMap, users, failures, hist>>

(* loadResourceDefine takes the cached list; getRoleResourcesList reads    *)
(* the table again if it is empty.  Still empty, the load throws.          *)
BeginLoad(a) ==
  LET rr == IF roleResourcesList = {} THEN roleResource ELSE roleResourcesList
  IN /\ At(a, "load")
     /\ roleResourcesList' = rr
     /\ IF rr = {}
          THEN Done(a)
          ELSE Become(a, [pc |-> "publish", rows |-> rr])
     /\ UNCHANGED <<db, rolesList, resourceMap, users, failures, hist>>

(* The new, still empty map replaces the old one.                          *)
PublishMap(a) ==
  /\ At(a, "publish")
  /\ resourceMap' = [u \in Urls |-> Null]
  /\ loaded' = adm[a].rows
  /\ Become(a, Looping("resources", adm[a].rows, ResourcesIn(adm[a].rows)))
  /\ UNCHANGED <<db, rolesList, roleResourcesList, users, failures,
                 granted, missed, mayDeny>>

Filling(a) == adm[a].pc \in {"resources", "subGet", "subTake", "subPut", "open"}

(* resourceMap.put on an unsynchronised HashMap: a put can be lost when    *)
(* another load fills the map at the same time.                            *)
Put(a, u, list) ==
  \/ resourceMap' = [resourceMap EXCEPT ![u] = list]
  \/ (\E b \in Admins \ {a} : Filling(b)) /\ UNCHANGED resourceMap

PutResource(a) ==
  /\ At(a, "resources")
  /\ \E res \in adm[a].todo :
       /\ Put(a, res, ListOf(adm[a].rows, res))
       /\ Become(a, Looping("resources", adm[a].rows, adm[a].todo \ {res}))
  /\ UNCHANGED <<db, rolesList, roleResourcesList, users, failures, hist>>

EndResources(a) ==
  /\ At(a, "resources") /\ adm[a].todo = {}
  /\ Become(a, Looping("subGet", adm[a].rows, SubsIn(adm[a].rows)))
  /\ UNCHANGED <<db, cache, users, failures, hist>>

(* A sub-resource whose URL is new to the map gets a new list; otherwise   *)
(* the list in the map is extended, and the map is asked for it again ...  *)
FindSub(a) ==
  /\ At(a, "subGet")
  /\ \E s \in adm[a].todo :
       LET rest == adm[a].todo \ {s}
       IN  Become(a,
             IF resourceMap[SubUrl(s)] = Null
               THEN [pc |-> "subPut", rows |-> adm[a].rows, todo |-> rest,
                     sub |-> s, attrs |-> {}]
               ELSE [pc |-> "subTake", rows |-> adm[a].rows, todo |-> rest, sub |-> s])
  /\ UNCHANGED <<db, cache, users, failures, hist>>

(* Mutant of ListFor: a new list is made each time.                        *)
ListForNew(u) == {}
ListFor(u) == RolesOf(resourceMap[u])

(* ... which, if another load has published its map meanwhile, answers     *)
(* null: the load dies of a NullPointerException.                          *)
TakeSub(a) ==
  /\ At(a, "subTake")
  /\ LET s == adm[a].sub
     IN  IF resourceMap[SubUrl(s)] = Null
           THEN Done(a) /\ missed' = missed \cup {"map"}
           ELSE /\ Become(a, [pc |-> "subPut", rows |-> adm[a].rows,
                              todo |-> adm[a].todo, sub |-> s,
                              attrs |-> ListFor(SubUrl(s))])
                /\ UNCHANGED missed
  /\ UNCHANGED <<db, cache, users, failures, granted, loaded, mayDeny>>

(* The list belongs to the map, so what another load has added to it since *)
(* may be in it too.                                                       *)
PutSub(a) ==
  /\ At(a, "subPut")
  /\ LET s == adm[a].sub
     IN  \E more \in {{}, RolesOf(resourceMap[SubUrl(s)])} :
           Put(a, SubUrl(s), adm[a].attrs \cup more \cup ListOf(adm[a].rows, SubOf(s)))
  /\ Become(a, Looping("subGet", adm[a].rows, adm[a].todo))
  /\ UNCHANGED <<db, rolesList, roleResourcesList, users, failures, hist>>

EndSubs(a) ==
  /\ At(a, "subGet") /\ adm[a].todo = {}
  /\ Become(a, Looping("open", adm[a].rows, NonRestricted))
  /\ UNCHANGED <<db, cache, users, failures, hist>>

PutNonRestricted(a) ==
  /\ At(a, "open")
  /\ \E res \in adm[a].todo :
       /\ Put(a, res, RolesIn(adm[a].rows))
       /\ Become(a, Looping("open", adm[a].rows, adm[a].todo \ {res}))
  /\ UNCHANGED <<db, rolesList, roleResourcesList, users, failures, hist>>

EndLoad(a) ==
  /\ At(a, "open") /\ adm[a].todo = {}
  /\ Done(a)
  /\ missed' = missed \ {"map"}
  /\ UNCHANGED <<db, cache, users, failures, granted, loaded, mayDeny>>

-----------------------------------------------------------------------------
(* removeRoleInfo, addNewRole and updateRoleInfo.                          *)

(* getUserRoleCountByRoleId as written: it counts the rows whose user id   *)
(* is the given role id.                                                   *)
UserRoleCountByRoleId(r) == Cardinality({ur \in userRole : ur[1] = r})

StartRemove(a) ==
  /\ At(a, "idle")
  /\ \E r \in RoleIds :
       /\ IsEditable(r)
       /\ UserRoleCountByRoleId(r) = 0
       /\ Become(a, [pc |-> "remove", role |-> r])
  /\ UNCHANGED <<db, cache, users, failures, hist>>

(* DELETE FROM roles; the foreign keys of role_resource and user_role      *)
(* cascade.  No row deleted: the handler answers "failure" and stops.      *)
DeleteRole(a) ==
  /\ At(a, "remove")
  /\ LET r  == adm[a].role
         rr == RowsWithout(r)
     IN  IF r \in roles
           THEN /\ roles' = roles \ {r}
                /\ roleResource' = rr
                /\ userRole' = {ur \in userRole : ur[2] # r}
                /\ NoteDenials(rr)
                /\ Become(a, ToRead("rolesRead", "remove"))
           ELSE Done(a) /\ UNCHANGED <<roles, roleResource, userRole, mayDeny>>
  /\ UNCHANGED <<lastRole, cache, users, failures, granted, loaded, missed>>

AddRole(a) ==
  /\ At(a, "idle")
  /\ lastRole < MaxRole
  /\ lastRole' = lastRole + 1
  /\ roles' = roles \cup {lastRole + 1}
  /\ Become(a, ToRead("rolesRead", "add"))
  /\ UNCHANGED <<roleResource, userRole, cache, users, failures, hist>>

(* The new name and note are not followed; the refresh of the list is.     *)
UpdateRole(a) ==
  /\ At(a, "idle")
  /\ \E r \in roles : IsEditable(r)
  /\ Become(a, ToRead("rolesRead", "update"))
  /\ UNCHANGED <<db, cache, users, failures, hist>>

ReadRoles(a) ==
  /\ At(a, "rolesRead")
  /\ Become(a, [pc |-> "rolesSet", op |-> adm[a].op, readRoles |-> roles])
  /\ UNCHANGED <<db, cache, users, failures, hist>>

SetRolesList(a) ==
  /\ At(a, "rolesSet")
  /\ rolesList' = adm[a].readRoles
  /\ missed' = missed \ {"roles"}
  /\ IF adm[a].op = "remove"
       THEN Become(a, ToRead("rrRead", "remove"))
       ELSE Done(a)
  /\ UNCHANGED <<db, roleResourcesList, resourceMap, users, failures,
                 granted, loaded, mayDeny>>

(* The read of a refresh throws: the controller answers "exception", the   *)
(* committed change stays and the rest of the refresh is skipped.          *)
ReadFails(a) ==
  /\ adm[a].pc \in {"rrRead", "rolesRead"}
  /\ failures < MaxFailures
  /\ failures' = failures + 1
  /\ missed' = missed \cup
       (IF At(a, "rolesRead") THEN {"roles"} ELSE {}) \cup
       (IF adm[a].op = "assign" THEN {"map"} ELSE {})
  /\ Done(a)
  /\ UNCHANGED <<db, cache, users, granted, loaded, mayDeny>>

-----------------------------------------------------------------------------
(* Sessions and requests.                                                  *)

(* updateUserRole, one transaction; the role is looked up in ROLES_LIST    *)
(* and a role deleted meanwhile breaks the foreign key.                    *)
UpdateUserRole(u) ==
  /\ \E new \in {{}} \cup {{r} : r \in rolesList \cap roles} :
       userRole' = {ur \in userRole : ur[1] # u} \cup ({u} \X new)
  /\ UNCHANGED <<roles, lastRole, roleResource, cache, adm, users, failures, hist>>

(* loadUserByUsername: the roles of the moment become the authorities.     *)
Login(u) ==
  /\ session[u] = Null
  /\ session' = [session EXCEPT ![u] = {ur[2] : ur \in {x \in userRole : x[1] = u}}]
  /\ UNCHANGED <<db, cache, adm, req, failures, hist>>

Logout(u) ==
  /\ session[u] # Null /\ req[u].pc = "idle"
  /\ session' = [session EXCEPT ![u] = Null]
  /\ req' = [req EXCEPT ![u] = NoRequest]
  /\ UNCHANGED <<db, cache, adm, failures, hist>>

StartRequest(u) ==
  /\ session[u] # Null /\ req[u].pc = "idle"
  /\ \E x \in Urls :
       /\ req' = [req EXCEPT ![u] = [pc |-> "search", url |-> x, decision |-> "none"]]
       /\ mayDeny' = [mayDeny EXCEPT ![u] =
            \E rr \in {loaded, roleResource} : ~ Passes(Entry(rr, x), session[u])]
  /\ UNCHANGED <<db, cache, adm, session, failures, granted, loaded, missed>>

Answer(u, d) ==
  req' = [req EXCEPT ![u] = [pc |-> "idle", url |-> req[u].url, decision |-> d]]

(* getAttributes walks over the keys of the map ...                        *)
FindKey(u) ==
  /\ req[u].pc = "search"
  /\ IF resourceMap[req[u].url] = Null
       THEN Answer(u, IF Passes(Null, session[u]) THEN "pass" ELSE "deny")
       ELSE req' = [req EXCEPT ![u] = [pc |-> "get", url |-> req[u].url, decision |-> "none"]]
  /\ UNCHANGED <<db, cache, adm, session, failures, hist>>

(* ... which fails if a load adds a key meanwhile, as decide does if the   *)
(* list it walks over is being extended ...                                *)
WalkFails(u) ==
  /\ \/ req[u].pc = "search" /\ \E a \in Admins : Filling(a)
     \/ req[u].pc = "get" /\ \E a \in Admins : At(a, "subPut")
  /\ Answer(u, "error")
  /\ UNCHANGED <<db, cache, adm, session, failures, hist>>

(* ... and looks the key it found up again, maybe in a newer map.          *)
GetAndDecide(u) ==
  /\ req[u].pc = "get"
  /\ Answer(u, IF Passes(resourceMap[req[u].url], session[u]) THEN "pass" ELSE "deny")
  /\ UNCHANGED <<db, cache, adm, session, failures, hist>>

-----------------------------------------------------------------------------
Handler(a) ==
  \/ StartAssign(a) \/ CommitAssign(a) \/ AbortAssign(a)
  \/ StartRemove(a) \/ DeleteRole(a) \/ AddRole(a) \/ UpdateRole(a)
  \/ ReadRoles(a) \/ SetRolesList(a) \/ ReadFails(a)
  \/ ReadRoleResources(a) \/ SetRoleResourcesList(a)
  \/ BeginLoad(a) \/ PublishMap(a) \/ PutResource(a) \/ EndResources(a)
  \/ FindSub(a) \/ TakeSub(a) \/ PutSub(a) \/ EndSubs(a) \/ PutNonRestricted(a) \/ EndLoad(a)

Request(u) ==
  \/ UpdateUserRole(u) \/ Login(u) \/ Logout(u)
  \/ StartRequest(u) \/ FindKey(u) \/ WalkFails(u) \/ GetAndDecide(u)

Next == (\E a \in Admins : Handler(a)) \/ (\E u \in Users : Request(u))

Spec == Init /\ [][Next]_vars

(* A servlet thread that has begun a handler is scheduled until it ends.   *)
Continue(a) ==
  \/ CommitAssign(a) \/ DeleteRole(a) \/ ReadRoles(a) \/ SetRolesList(a)
  \/ ReadRoleResources(a) \/ SetRoleResourcesList(a)
  \/ BeginLoad(a) \/ PublishMap(a) \/ PutResource(a) \/ EndResources(a)
  \/ FindSub(a) \/ TakeSub(a) \/ PutSub(a) \/ EndSubs(a) \/ PutNonRestricted(a) \/ EndLoad(a)

FairSpec == Spec /\ \A a \in Admins : WF_vars(Continue(a))

-----------------------------------------------------------------------------
(* Properties.                                                             *)

(* Every variable holds values of its kind, a step of a handler finds the  *)
(* locals it uses, and the foreign keys of the schema hold: a role that is *)
(* deleted takes its rows with it, and no handler inserts rows for it.     *)
AdminState ==
  [pc : {"idle", "load"}]
  \cup [pc : {"assign"}, role : RoleIds, wanted : SUBSET Resources]
  \cup [pc : {"remove"}, role : RoleIds]
  \cup [pc : {"rolesRead"}, op : {"remove", "add", "update"}]
  \cup [pc : {"rolesSet"}, op : {"remove", "add", "update"}, readRoles : SUBSET RoleIds]
  \cup [pc : {"rrRead"}, op : {"assign", "remove"}]
  \cup [pc : {"rrSet"}, op : {"assign", "remove"}, rows : SUBSET Rows]
  \cup [pc : {"publish"}, rows : SUBSET Rows]
  \cup [pc : {"resources"}, rows : SUBSET Rows, todo : SUBSET Resources]
  \cup [pc : {"subGet"}, rows : SUBSET Rows, todo : SUBSET Subs]
  \cup [pc : {"subTake"}, rows : SUBSET Rows, todo : SUBSET Subs, sub : Subs]
  \cup [pc : {"subPut"}, rows : SUBSET Rows, todo : SUBSET Subs,
        sub : Subs, attrs : SUBSET RoleIds]
  \cup [pc : {"open"}, rows : SUBSET Rows, todo : SUBSET NonRestricted]

TypeOK ==
  /\ roles \subseteq RoleIds /\ lastRole \in RoleIds
  /\ roleResource \subseteq roles \X Resources
  /\ userRole \subseteq Users \X roles
  /\ rolesList \subseteq RoleIds
  /\ roleResourcesList \subseteq Rows
  /\ resourceMap \in [Urls -> {Null} \cup SUBSET RoleIds]
  /\ adm \in [Admins -> AdminState]
  /\ session \in [Users -> {Null} \cup SUBSET RoleIds]
  /\ req \in [Users -> [pc : {"idle", "search", "get"}, url : Urls \cup {Null},
                        decision : {"none", "pass", "deny", "error"}]]
  /\ failures \in 0 .. MaxFailures
  /\ granted \subseteq Rows /\ loaded \subseteq Rows
  /\ missed \subseteq {"roles", "map"}
  /\ mayDeny \in [Users -> BOOLEAN]

(* The rows of the system roles survive every handler, in the table, in    *)
(* the cache and in what a load works from, however handlers interleave;   *)
(* so loadResourceDefine never meets the empty list it throws for.         *)
SystemRows == {row \in InitRows : row[1] \in SystemRoles}
HoldsRows(a) == adm[a].pc \in
  {"rrSet", "publish", "resources", "subGet", "subTake", "subPut", "open"}

ReloadNeverEmpty ==
  /\ SystemRows \subseteq roleResource \cap roleResourcesList \cap loaded
  /\ SystemRoles \subseteq roles
  /\ \A a \in Admins : HoldsRows(a) => SystemRows \subseteq adm[a].rows

(* Whatever loads run at once, and whichever puts get lost or land in      *)
(* another thread's map, a role is listed under a URL only if a committed  *)
(* assignment gave it the URL at some time.                                *)
MapFromCommitted ==
  \A u \in Urls : RolesOf(resourceMap[u]) \subseteq RolesOf(Entry(granted, u))

(* With one administrator at work, a map that is still being filled is     *)
(* never wrong, only incomplete: a list in it has only roles of the rows   *)
(* loaded, and all of them if one put completes it.                        *)
MapNeverWrong ==
  \A u \in Urls : resourceMap[u] # Null =>
    /\ resourceMap[u] \subseteq RolesOf(Entry(loaded, u))
    /\ SinglePut(u) => resourceMap[u] = Entry(loaded, u)

(* With one administrator at work, between two handlers the caches agree   *)
(* with the tables for every role that exists, save a cache whose refresh  *)
(* was skipped by a failed read since its last complete refresh.           *)
Quiet == \A a \in Admins : At(a, "idle")

CoherentWhenQuiet ==
  Quiet =>
    /\ "roles" \notin missed => rolesList = roles
    /\ "map" \notin missed => \A u \in Urls :
         RolesOf(resourceMap[u]) \cap roles = RolesOf(Entry(roleResource, u))

(* With one administrator at work, a user is refused a URL only if the     *)
(* rows loaded when the request began, or some contents of role_resource   *)
(* since, refuse it: no refusal is an artefact of a load in progress.      *)
DenialJustified ==
  \A u \in Users :
    req[u].decision = "deny" /\ SinglePut(req[u].url) => mayDeny[u]

(* A committed assignment reaches resourceMap unless it is withdrawn or    *)
(* its reload is cut short by a failed read.                               *)
AssignmentTakesEffect ==
  \A row \in Rows :
    row \in roleResource ~>
      \/ row[1] \in RolesOf(resourceMap[row[2]])
      \/ row \notin roleResource
      \/ "map" \in missed

(* RolesController.java:270, "reload the role permissions into spring      *)
(* security": once every handler has ended with its reload done, the map   *)
(* shows the assignments that were committed.                              *)
ReloadReflectsAssignments ==
  Quiet /\ missed = {} => \A u \in Urls :
    RolesOf(resourceMap[u]) \cap roles = RolesOf(Entry(roleResource, u))

(* RolesServiceImpl.java:337, "check whether the role is assigned to a     *)
(* user": a role some user has is not removed.                             *)
AssignedRoleNotRemoved ==
  [][\A ur \in userRole : ur[2] \in roles']_vars

=============================================================================
