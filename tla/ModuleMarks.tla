---------------------------- MODULE ModuleMarks ----------------------------
(***************************************************************************)
(* RESOURCE_MODULE_LIST of SystemConstant: one list of modules and         *)
(* resources for the whole stage application, whose haveAuth marks are     *)
(* part of the list.  getResourceModuleList clears every mark in place     *)
(* before it hands the list out, getAllResourcesByRole then sets the marks *)
(* of one role, and the answer is written from the list itself after the   *)
(* handler has returned.  A login takes the list too, and clears the marks *)
(* of whoever is between those steps.                                      *)
(*                                                                         *)
(* The modules are left out: a list is the resources and their marks.  The *)
(* resources of a role are whatever the select finds.                      *)
(***************************************************************************)
EXTENDS Naturals

CONSTANTS
  Askers,       \* request threads
  Resources,    \* menu resources
  Nothing,      \* no list, no answer
  MaxLists      \* bound: lists made

ASSUME MarkConstants ==
  /\ MaxLists \in Nat
  /\ Nothing \notin Nat /\ Nothing \notin [Resources -> BOOLEAN]

VARIABLES
  shared,       \* RESOURCE_MODULE_LIST, a reference
  marks,        \* haveAuth of the resources of each list made
  at,           \* where each thread is
  held,         \* its moduleList; Nothing for a login
  granted,      \* the roleResourceList of showRoleAuth.do; Nothing for a login
  left,         \* the resources its loop has yet to visit
  written,      \* the resources marked in the answer as written so far
  disturbed     \* history: another thread changed marks since it cleared them

markVars == <<shared, marks, at, held, granted, left, written, disturbed>>

Lists == 1 .. MaxLists
Unmarked == [r \in Resources |-> FALSE]
Places == {"idle", "load", "clear", "return", "mark", "write", "written"}

MarksInit ==
  /\ shared = Nothing
  /\ marks = [l \in Lists |-> Nothing]
  /\ at = [t \in Askers |-> "idle"]
  /\ held = [t \in Askers |-> Nothing]
  /\ granted = [t \in Askers |-> Nothing]
  /\ left = [t \in Askers |-> {}]
  /\ written = [t \in Askers |-> {}]
  /\ disturbed = [t \in Askers |-> FALSE]

(* getResourceModuleList: load the list if there is none, then walk it.    *)
TakeList(t) ==
  IF shared = Nothing
  THEN at' = [at EXCEPT ![t] = "load"] /\ UNCHANGED <<held, left>>
  ELSE /\ at' = [at EXCEPT ![t] = "clear"]
       /\ held' = [held EXCEPT ![t] = shared]
       /\ left' = [left EXCEPT ![t] = Resources]

Begin(t, resources) ==
  /\ at[t] \in {"idle", "written"}
  /\ granted' = [granted EXCEPT ![t] = resources]
  /\ written' = [written EXCEPT ![t] = {}]
  /\ disturbed' = [disturbed EXCEPT ![t] = FALSE]
  /\ TakeList(t)
  /\ UNCHANGED <<shared, marks>>

(* showRoleAuth.do: the grants of the role are selected first.             *)
ShowRoleAuth(t) == \E resources \in SUBSET Resources : Begin(t, resources)

(* onAuthenticationSuccess wants the resources only.                       *)
LoginTakesList(t) == Begin(t, Nothing)

(* setResourceModuleList replaces the list; a loop that is under way keeps *)
(* to the old one.                                                         *)
LoadModules(t) ==
  /\ at[t] = "load"
  /\ \E l \in Lists :
       /\ marks[l] = Nothing
       /\ \A k \in 1 .. (l - 1) : marks[k] # Nothing
       /\ marks' = [marks EXCEPT ![l] = Unmarked]
       /\ shared' = l
       /\ held' = [held EXCEPT ![t] = l]
  /\ left' = [left EXCEPT ![t] = Resources]
  /\ at' = [at EXCEPT ![t] = "clear"]
  /\ UNCHANGED <<granted, written, disturbed>>

Disturb(t) ==
  disturbed' = [u \in Askers |->
    disturbed[u] \/ (u # t /\ at[u] \in {"clear", "return", "mark", "write"})]

(* Mutant of ClearMark: the walk leaves the marks as they are.             *)
ClearMarkNot(t, r) ==
  /\ at[t] = "clear"
  /\ r \in left[t]
  /\ left' = [left EXCEPT ![t] = @ \ {r}]
  /\ Disturb(t)
  /\ UNCHANGED <<shared, marks, at, held, granted, written>>

(* resources.setHaveAuth(false), one resource after the other.             *)
ClearMark(t, r) ==
  /\ at[t] = "clear"
  /\ r \in left[t]
  /\ marks' = [marks EXCEPT ![held[t]] = [@ EXCEPT ![r] = FALSE]]
  /\ left' = [left EXCEPT ![t] = @ \ {r}]
  /\ Disturb(t)
  /\ UNCHANGED <<shared, at, held, granted, written>>

(* The field is read again for the return value.                           *)
ReturnList(t) ==
  /\ at[t] = "clear"
  /\ left[t] = {}
  /\ held' = [held EXCEPT ![t] = shared]
  /\ IF granted[t] = Nothing
     THEN at' = [at EXCEPT ![t] = "idle"] /\ UNCHANGED left
     ELSE /\ at' = [at EXCEPT ![t] = "mark"]
          /\ left' = [left EXCEPT ![t] = granted[t]]
  /\ UNCHANGED <<shared, marks, granted, written, disturbed>>

(* getAllResourcesByRole: the mark of a resource that is granted.          *)
SetMark(t, r) ==
  /\ at[t] = "mark"
  /\ r \in left[t]
  /\ marks' = [marks EXCEPT ![held[t]] = [@ EXCEPT ![r] = TRUE]]
  /\ left' = [left EXCEPT ![t] = @ \ {r}]
  /\ Disturb(t)
  /\ UNCHANGED <<shared, at, held, granted, written>>

Answer(t) ==
  /\ at[t] = "mark"
  /\ left[t] = {}
  /\ at' = [at EXCEPT ![t] = "write"]
  /\ left' = [left EXCEPT ![t] = Resources]
  /\ UNCHANGED <<shared, marks, held, granted, written, disturbed>>

(* The answer is written resource by resource from the shared list.        *)
WriteMark(t, r) ==
  /\ at[t] = "write"
  /\ r \in left[t]
  /\ left' = [left EXCEPT ![t] = @ \ {r}]
  /\ written' = [written EXCEPT ![t] = IF marks[held[t]][r] THEN @ \cup {r} ELSE @]
  /\ UNCHANGED <<shared, marks, at, held, granted, disturbed>>

EndAnswer(t) ==
  /\ at[t] = "write"
  /\ left[t] = {}
  /\ at' = [at EXCEPT ![t] = "written"]
  /\ UNCHANGED <<shared, marks, held, granted, left, written, disturbed>>

MarksNext ==
  \E t \in Askers :
    \/ ShowRoleAuth(t)
    \/ LoginTakesList(t)
    \/ LoadModules(t)
    \/ \E r \in Resources : ClearMark(t, r)
    \/ ReturnList(t)
    \/ \E r \in Resources : SetMark(t, r)
    \/ Answer(t)
    \/ \E r \in Resources : WriteMark(t, r)
    \/ EndAnswer(t)

MarksSpec == MarksInit /\ [][MarksNext]_markVars

-----------------------------------------------------------------------------
MarksTypeOK ==
  /\ shared \in Lists \cup {Nothing}
  /\ marks \in [Lists -> [Resources -> BOOLEAN] \cup {Nothing}]
  /\ at \in [Askers -> Places]
  /\ held \in [Askers -> Lists \cup {Nothing}]
  /\ granted \in [Askers -> (SUBSET Resources) \cup {Nothing}]
  /\ left \in [Askers -> SUBSET Resources]
  /\ written \in [Askers -> SUBSET Resources]
  /\ disturbed \in [Askers -> BOOLEAN]

(* The answer to showRoleAuth.do marks the resources of the role it was    *)
(* asked about and no others, whatever the asks and logins before it left  *)
(* in the list, unless another thread changed marks between its clearing   *)
(* and the end of its answer.                                              *)
MarksAreOfRole ==
  \A t \in Askers :
    (at[t] = "written" /\ ~disturbed[t]) => written[t] = granted[t]

=============================================================================
