------------------------------ MODULE Catalogue ------------------------------
(***************************************************************************)
(* The materials of the stage application and the log of what is done to   *)
(* them: MaterialController, MaterialServiceImpl, and SysLogPool.  The     *)
(* handlers of mock data (MockDataServiceImpl) are the same on their own   *)
(* table.                                                                  *)
(*                                                                         *)
(* Handlers run on servlet threads; every statement commits by itself and  *)
(* the table's keys decide where a check read before it has gone stale.    *)
(* The requests share one session, whose CURRENT_USER_INFO a login, a      *)
(* failed login or a logout in another tab changes at any time: a handler  *)
(* reads it when it begins, when it checks and when it logs.  The other    *)
(* columns, and input refused before the name is looked up, are left out.  *)
(***************************************************************************)
EXTENDS SysLogPool

CONSTANTS
  Servants,     \* servlet threads
  Labels,       \* names of materials
  Actors,       \* users who may be in the session
  Nobody,       \* no user in the session, no material
  MaxRows, MaxAsked   \* bounds: ids; requests with the changes of the session

ASSUME CatalogueConstants ==
  /\ MaxRows \in Nat /\ MaxAsked \in Nat
  /\ Nobody \notin Actors \cup Labels

VARIABLES
  material,     \* table material: the name of each id, or Nobody
  lastMaterial, \* its AUTO_INCREMENT counter
  actor,        \* CURRENT_USER_INFO of the session
  handler,      \* per thread: its request and locals
  asked,        \* requests begun
  switches,     \* changes of the session's user
  begunBy,      \* history: who was in the session when each request began
  switched,     \* history: requests during which that changed
  changed       \* history: requests whose statement changed a row

catalogueVars == <<poolVars, material, lastMaterial, actor, handler, asked, switches,
                   begunBy, switched, changed>>
requestVars == <<asked, begunBy>>
sessionSide == <<actor, switches, switched>>
table1 == <<material, lastMaterial>>

Rows == 1 .. MaxRows
Free == [at |-> "free", no |-> 0, op |-> "none", id |-> 0, name |-> Nobody,
         user |-> Nobody, ok |-> FALSE]
Named1(n) == {i \in Rows : material[i] = n}

CatalogueInit ==
  /\ PoolInit
  /\ material = [i \in Rows |-> Nobody] /\ lastMaterial = 0
  /\ actor \in Actors
  /\ handler = [t \in Servants |-> Free]
  /\ asked = 0 /\ switches = 0
  /\ begunBy = <<>> /\ switched = {} /\ changed = {}

-----------------------------------------------------------------------------
(* The controllers refuse when nobody is in the session.                   *)
BeginRequest(t, op, i, n) ==
  /\ handler[t].at = "free" /\ asked + switches < MaxAsked /\ actor # Nobody
  /\ i \in IF op = "add" THEN {0} ELSE 1 .. lastMaterial
  /\ asked' = asked + 1
  /\ begunBy' = Append(begunBy, actor)
  /\ handler' = [handler EXCEPT ![t] =
       [Free EXCEPT !.at = "check", !.no = asked', !.op = op, !.id = i, !.name = n]]
  /\ UNCHANGED <<poolVars, table1, sessionSide, changed>>

(* checkMaterialForAddOrUpdate: the name is free, or the row's own; and    *)
(* getMaterialById of removeMaterial.  The user is read from the session   *)
(* on the way.                                                             *)
Passes(h) ==
  IF h.op = "remove" THEN material[h.id] # Nobody
  ELSE Named1(h.name) \subseteq {h.id}

CheckRequest(t) ==
  LET h == handler[t]
  IN /\ h.at = "check"
     /\ handler' = [handler EXCEPT ![t].at = IF Passes(h) THEN "write" ELSE "log",
                                   ![t].user = actor]
     /\ UNCHANGED <<poolVars, table1, sessionSide, requestVars, changed>>

(* A free thread: the handler has answered.                                *)
Answered(t) == handler' = [handler EXCEPT ![t] = Free]

(* insertNewMaterial, updateMaterialById, deleteMaterialById: the number   *)
(* of rows changed says whether it went well.                              *)
WriteRow(t) ==
  LET h == handler[t]
      i == IF h.op = "add" THEN lastMaterial + 1 ELSE h.id
      there == h.op = "add" \/ material[i] # Nobody
  IN /\ h.at = "write" /\ i \in Rows
     /\ h.op # "remove" => h.user # Nobody /\ Named1(h.name) \subseteq {i}
     /\ material' = IF there
          THEN [material EXCEPT ![i] = IF h.op = "remove" THEN Nobody ELSE h.name]
          ELSE material
     /\ lastMaterial' = IF h.op = "add" THEN i ELSE lastMaterial
     /\ changed' = IF there THEN changed \cup {h.no} ELSE changed
     /\ handler' = [handler EXCEPT ![t].at = "log", ![t].ok = there]
     /\ UNCHANGED <<poolVars, sessionSide, requestVars>>

(* user.getId() of nobody, the unique key, or the database itself: the     *)
(* controller catches the exception and answers, and nothing is logged.    *)
WriteThrows(t) ==
  /\ handler[t].at = "write"
  /\ Answered(t)
  /\ UNCHANGED <<poolVars, table1, sessionSide, requestVars, changed>>

(* Mutant of LogRequest: a full pool aborts and the controller catches it. *)
LogRequestAborts(t) ==
  LET e == [no |-> handler[t].no, user |-> actor, ok |-> handler[t].ok]
  IN /\ handler[t].at = "log"
     /\ TakenByPool(e) \/ (CallersTurn /\ UNCHANGED poolVars) \/ DroppedAfterStop(e)
     /\ Answered(t)
     /\ UNCHANGED <<table1, sessionSide, requestVars, changed>>

(* saveSysLog: the entry names whoever is in the session by now.           *)
LogRequest(t) ==
  LET e == [no |-> handler[t].no, user |-> actor, ok |-> handler[t].ok]
  IN /\ handler[t].at = "log"
     /\ TakenByPool(e) \/ DoneByCaller(e) \/ FailsInCaller(e) \/ DroppedAfterStop(e)
     /\ Answered(t)
     /\ UNCHANGED <<table1, sessionSide, requestVars, changed>>

(* Another tab logs in, fails to, or logs out (StageSessions).             *)
SwitchActor(u) ==
  /\ asked + switches < MaxAsked /\ u # actor
  /\ actor' = u
  /\ switches' = switches + 1
  /\ switched' = switched \cup {handler[t].no : t \in Servants}
  /\ UNCHANGED <<poolVars, table1, handler, requestVars, changed>>

CatalogueNext ==
  \/ \E t \in Servants :
       \/ \E op \in {"add", "update", "remove"}, i \in 0 .. MaxRows, n \in Labels :
            BeginRequest(t, op, i, n)
       \/ CheckRequest(t) \/ WriteRow(t) \/ WriteThrows(t) \/ LogRequest(t)
  \/ \E u \in Actors \cup {Nobody} : SwitchActor(u)
  \/ PoolNext /\ UNCHANGED <<table1, handler, sessionSide, requestVars, changed>>

CatalogueSpec == CatalogueInit /\ [][CatalogueNext]_catalogueVars

-----------------------------------------------------------------------------
Numbers(es) == {e.no : e \in es}

(* The log and the table agree: every change a finished handler made is in *)
(* the log or on its way there, unless its insert failed or the            *)
(* application stopped; an entry that reports success stands for a change  *)
(* that was made; an entry names the user who asked, unless the session    *)
(* changed hands while the request was served; and no two materials have   *)
(* the same name.                                                          *)
LogAgreesWithTable ==
  /\ changed \subseteq Numbers(sysLog \cup Pending) \cup {l[1].no : l \in lost}
                       \cup {handler[t].no : t \in Servants}
  /\ \A e \in sysLog \cup Pending :
       /\ e.ok <=> e.no \in changed
       /\ e.user = begunBy[e.no] \/ e.no \in switched
  /\ Cardinality(running) <= workers /\ workers <= Most
  /\ \A n \in Labels : Cardinality(Named1(n)) <= 1
=============================================================================
