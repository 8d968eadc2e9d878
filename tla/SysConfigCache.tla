--------------------------- MODULE SysConfigCache ---------------------------
(***************************************************************************)
(* The configuration items in the memory of the stage application:         *)
(* SYS_CONFIG_LIST and SYS_CONFIG_MAP_WITH_KEY_ITEM of SystemConstant, the *)
(* getters that read them and updateSysConfig, which changes a row of      *)
(* sys_config and fills them again.                                        *)
(*                                                                         *)
(* setSysConfig publishes an empty map and fills it where every reader can *)
(* see it; it reads its own static fields again at each step, so two       *)
(* threads in it fill one map from one list; and nothing orders the two    *)
(* selects with the two assignments.  A getter looks the map up three      *)
(* times.  Java's HashMap is not made for two writers: a put that runs     *)
(* beside another one may lose an entry, which is modelled as a choice.    *)
(* The map by id is filled in the same loop and read like this one; it is  *)
(* left out.  The rows of sys_config are changed, never removed.           *)
(***************************************************************************)
EXTENDS Naturals, FiniteSets

CONSTANTS
  Threads,      \* request threads
  Items,        \* config items
  Values,       \* config values
  Null,         \* nothing: no list, no map, no entry
  MaxMaps,      \* bound: maps made
  MaxUpdates    \* bound: updates begun

ASSUME ConfigConstants ==
  /\ Null \notin Values \cup Items \cup Nat
  /\ Null \notin [Items -> Values]
  /\ MaxMaps \in Nat /\ MaxUpdates \in Nat

VARIABLES
  table,        \* sys_config: the value of each item
  list,         \* SYS_CONFIG_LIST
  byItem,       \* SYS_CONFIG_MAP_WITH_KEY_ITEM, a reference
  maps,         \* the HashMaps made so far
  step,         \* where each thread is
  job,          \* what it does: the item, the value to set or Null
  rows,         \* the rows its select returned
  todo,         \* the items its loop has yet to put
  after,        \* where it goes when its fill is done
  answer,       \* what the last getter of the thread returned
  updates,      \* updates begun
  had,          \* history: the values each item has had in sys_config
  crossed       \* history: two threads were in setSysConfig at once

configVars == <<table, list, byItem, maps, step, job, rows, todo, after,
                answer, updates, had, crossed>>
memory == <<list, byItem, maps>>
locals == <<job, rows, todo, after>>

Maps == 1 .. MaxMaps
Snapshots == [Items -> Values]
Entries == [Items -> Values \cup {Null}]
NoEntries == [i \in Items |-> Null]
Asks == [item : Items, value : Values \cup {Null}]
NoJob == [item |-> Null, value |-> Null]

(* The lines of setSysConfig and of its callers where a thread can be.     *)
Filling == {"select", "assign", "publish", "put"}
Steps == {"idle", "check", "isEmpty", "containsKey", "get", "update"} \cup Filling

(* What a reader finds for an item now.                                    *)
Entry(i) == IF byItem = Null THEN Null ELSE maps[byItem][i]
IsEmpty == \A i \in Items : Entry(i) = Null

-----------------------------------------------------------------------------
ConfigInit ==
  /\ table \in Snapshots
  /\ list = Null /\ byItem = Null
  /\ maps = [m \in Maps |-> Null]
  /\ step = [t \in Threads |-> "idle"]
  /\ job = [t \in Threads |-> NoJob]
  /\ rows = [t \in Threads |-> Null]
  /\ todo = [t \in Threads |-> {}]
  /\ after = [t \in Threads |-> "idle"]
  /\ answer = [t \in Threads |-> NoJob]
  /\ updates = 0
  /\ had = [i \in Items |-> {table[i]}]
  /\ crossed = FALSE

Go(t, to) == step' = [step EXCEPT ![t] = to]

(* The thread enters setSysConfig, and goes on to `then` afterwards.       *)
Enter(t, then) ==
  /\ Go(t, "select")
  /\ after' = [after EXCEPT ![t] = then]
  /\ crossed' = (crossed \/ \E u \in Threads \ {t} : step[u] \in Filling)

(* Every getter of the map loads the list first if there is none.          *)
LoadOr(t, to) ==
  IF list = Null THEN Enter(t, to) ELSE Go(t, to) /\ UNCHANGED <<after, crossed>>

(* getMaxUploadImageSize and the getters like it.                          *)
BeginRead(t, i) ==
  /\ step[t] = "idle"
  /\ job' = [job EXCEPT ![t] = [item |-> i, value |-> Null]]
  /\ answer' = [answer EXCEPT ![t] = NoJob]
  /\ LoadOr(t, "isEmpty")
  /\ UNCHANGED <<table, memory, rows, todo, updates, had>>

(* changeSysConfig.do; the check looks the item up in the map it gets.     *)
BeginUpdate(t, i, v) ==
  /\ step[t] = "idle"
  /\ updates < MaxUpdates
  /\ updates' = updates + 1
  /\ job' = [job EXCEPT ![t] = [item |-> i, value |-> v]]
  /\ answer' = [answer EXCEPT ![t] = NoJob]
  /\ LoadOr(t, "check")
  /\ UNCHANGED <<table, memory, rows, todo, had>>

(* A getter ends with what it found, Null for its built-in default.        *)
Return(t) ==
  /\ Go(t, "idle")
  /\ answer' = [answer EXCEPT ![t] =
                  [item |-> job[t].item, value |-> Entry(job[t].item)]]
  /\ UNCHANGED <<table, memory, locals, updates, had, crossed>>

ReadOn(t, to) ==
  /\ Go(t, to)
  /\ UNCHANGED <<table, memory, locals, answer, updates, had, crossed>>

(* The three lookups: an empty map, a missing key and, when the map was    *)
(* replaced since, a missing entry whose getConfigValue throws.            *)
AskIsEmpty(t) ==
  /\ step[t] = "isEmpty"
  /\ \/ IsEmpty /\ Return(t)
     \/ ~IsEmpty /\ ReadOn(t, "containsKey")

AskContainsKey(t) ==
  /\ step[t] = "containsKey"
  /\ \/ Entry(job[t].item) = Null /\ Return(t)
     \/ Entry(job[t].item) # Null /\ ReadOn(t, "get")

AskGet(t) == step[t] = "get" /\ Return(t)

(* checkUpdateSysConfig: an item that is not in the map is an error.       *)
CheckUpdate(t) ==
  /\ step[t] = "check"
  /\ Go(t, IF Entry(job[t].item) = Null THEN "idle" ELSE "update")
  /\ UNCHANGED <<table, memory, locals, answer, updates, had, crossed>>

(* Mutant of UpdateRow: the fill that follows is forgotten.                *)
UpdateRowOnly(t) ==
  /\ step[t] = "update"
  /\ LET i == job[t].item
         v == job[t].value
     IN /\ table' = [table EXCEPT ![i] = v]
        /\ had' = [had EXCEPT ![i] = @ \cup {v}]
  /\ Go(t, "idle")
  /\ UNCHANGED <<memory, locals, answer, updates, crossed>>

(* The statement commits by itself; setSysConfig follows.                  *)
UpdateRow(t) ==
  /\ step[t] = "update"
  /\ LET i == job[t].item
         v == job[t].value
     IN /\ table' = [table EXCEPT ![i] = v]
        /\ had' = [had EXCEPT ![i] = @ \cup {v}]
  /\ Enter(t, "idle")
  /\ UNCHANGED <<memory, job, rows, todo, answer, updates>>

-----------------------------------------------------------------------------
(* setSysConfig.                                                           *)
Select(t) ==
  /\ step[t] = "select"
  /\ rows' = [rows EXCEPT ![t] = table]
  /\ Go(t, "assign")
  /\ UNCHANGED <<table, memory, job, todo, after, answer, updates, had, crossed>>

AssignList(t) ==
  /\ step[t] = "assign"
  /\ list' = rows[t]
  /\ Go(t, "publish")
  /\ UNCHANGED <<table, byItem, maps, locals, answer, updates, had, crossed>>

(* The new map replaces the old one, and the loop takes an iterator of the *)
(* list that is there now.                                                 *)
FreshMap == CHOOSE m \in Maps : maps[m] = Null

Publish(t) ==
  /\ step[t] = "publish"
  /\ \E m \in Maps : maps[m] = Null
  /\ maps' = [maps EXCEPT ![FreshMap] = NoEntries]
  /\ byItem' = FreshMap
  /\ todo' = [todo EXCEPT ![t] = Items]
  /\ rows' = [rows EXCEPT ![t] = list]
  /\ Go(t, "put")
  /\ UNCHANGED <<table, list, job, after, answer, updates, had, crossed>>

(* What a map may be after a put: two puts at once may lose an entry.      *)
AfterPut(t, i) ==
  LET m == [maps[byItem] EXCEPT ![i] = rows[t][i]]
  IN {m} \cup IF \E u \in Threads \ {t} : step[u] = "put" /\ todo[u] # {}
                THEN {[m EXCEPT ![j] = Null] : j \in Items} ELSE {}

(* Mutant of Put: the row is put under the item of another one.            *)
PutElsewhere(t, i) ==
  /\ step[t] = "put"
  /\ i \in todo[t]
  /\ \E j \in Items : maps' = [maps EXCEPT ![byItem] = [@ EXCEPT ![j] = rows[t][i]]]
  /\ todo' = [todo EXCEPT ![t] = @ \ {i}]
  /\ UNCHANGED <<table, list, byItem, step, job, rows, after, answer, updates,
                 had, crossed>>

Put(t, i) ==
  /\ step[t] = "put"
  /\ i \in todo[t]
  /\ \E m \in AfterPut(t, i) : maps' = [maps EXCEPT ![byItem] = m]
  /\ todo' = [todo EXCEPT ![t] = @ \ {i}]
  /\ UNCHANGED <<table, list, byItem, step, job, rows, after, answer, updates,
                 had, crossed>>

(* The end of the loop.                                                    *)
EndFill(t) ==
  /\ step[t] = "put"
  /\ todo[t] = {}
  /\ Go(t, after[t])
  /\ UNCHANGED <<table, memory, locals, answer, updates, had, crossed>>

-----------------------------------------------------------------------------
ConfigNext ==
  \E t \in Threads :
    \/ \E i \in Items : BeginRead(t, i) \/ Put(t, i)
    \/ \E i \in Items, v \in Values : BeginUpdate(t, i, v)
    \/ AskIsEmpty(t)
    \/ AskContainsKey(t)
    \/ AskGet(t)
    \/ CheckUpdate(t)
    \/ UpdateRow(t)
    \/ Select(t)
    \/ AssignList(t)
    \/ Publish(t)
    \/ EndFill(t)

ConfigSpec == ConfigInit /\ [][ConfigNext]_configVars

-----------------------------------------------------------------------------
ConfigTypeOK ==
  /\ table \in Snapshots
  /\ list \in Snapshots \cup {Null}
  /\ byItem \in Maps \cup {Null}
  /\ maps \in [Maps -> Entries \cup {Null}]
  /\ byItem # Null => maps[byItem] # Null
  /\ step \in [Threads -> Steps]
  /\ after \in [Threads -> Steps]
  /\ job \in [Threads -> Asks \cup {NoJob}]
  /\ rows \in [Threads -> Snapshots \cup {Null}]
  /\ todo \in [Threads -> SUBSET Items]
  /\ answer \in [Threads -> [item : Items \cup {Null}, value : Values \cup {Null}]]
  /\ updates \in 0 .. MaxUpdates
  /\ had \in [Items -> SUBSET Values]
  /\ crossed \in BOOLEAN

(* Readers, fillers and updates together keep the promise of a cached      *)
(* table: every entry is missing or was once committed to its own row, and *)
(* a getter answers what one entry held at one moment of its run.  Steps   *)
(* of the fill map to Clear and Fill of the abstract table.                *)
Store == INSTANCE CachedTable
           WITH had <- had, answer <- answer, Missing <- Null,
                cache <- [i \in Items |-> Entry(i)]

StoreSpec == Store!Spec

(* Once the fills are over, and if no two of them were ever under way at   *)
(* once, the map and the list hold what is in sys_config, and every item   *)
(* is there: the row an update has changed is the row the next reader      *)
(* finds.  (The second fill of two may publish an older select.)           *)
FreshUnlessCrossed ==
  (~crossed /\ list # Null /\ \A t \in Threads : step[t] \notin Filling)
     => list = table /\ \A i \in Items : Entry(i) = table[i]
=============================================================================
