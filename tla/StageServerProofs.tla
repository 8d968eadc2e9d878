------------------------- MODULE StageServerProofs -------------------------
(***************************************************************************)
(* Proofs about the servlets of the stage application, for any number of   *)
(* threads, users, sessions and rows.                                      *)
(*                                                                         *)
(* First what StageSessions promises: an account has one session at a time *)
(* unless two logins of it were past the count together, and what a        *)
(* session does and shows is its user's.  The last rests on what the       *)
(* requests under way in a session have in common: until two logins to it  *)
(* overlap all of them began with one user's context, which the session    *)
(* still has or has lost.  Then what ModuleMarks promises:                 *)
(* the answer of a request nobody disturbed marks the resources of its     *)
(* role.  Then the configuration cache, which implements the abstract      *)
(* cached table, for any items, values, maps and updates.                  *)
(*                                                                         *)
(* Then Catalogue with SysLogPool, for any executor: the log agrees with   *)
(* the table material.  At the end Attachments, for any sizes and limits:  *)
(* uploads are judged right.                                               *)
(***************************************************************************)
EXTENDS StageSessions, ModuleMarks, SysConfigCache, Catalogue, Attachments,
        FiniteSetTheorems, SequenceTheorems, TLAPS

InLogin(t) == stage[t] \in {"password", "count", "register", "save"}

(* Session numbers are those given out so far, and whoever is at work has  *)
(* a user and a session.                                                   *)
Given == (1 .. made) \cup {None}
TypesInv ==
  /\ SessionTypeOK
  /\ sid \in [Tabs -> Given] /\ cookie \in [Browsers -> Given]
  /\ \A t \in Tabs : stage[t] # "idle" => who[t] \in Users /\ sid[t] \in Sids

LEMMA TypesInitially == SessionInit => TypesInv
<1> SUFFICES ASSUME SessionInit PROVE TypesInv
  OBVIOUS
<1>1. \A u \in Users : grants[u] \in SUBSET Pages
  BY DEF SessionInit
<1> QED
  BY <1>1, SessionConstants DEF SessionInit, TypesInv, SessionTypeOK, Given, Stages

(* Where a tab stands, as far as the types say.                            *)
LEMMA Standing ==
  ASSUME TypesInv, NEW t \in Tabs
  PROVE  /\ BrowserOf[t] \in Browsers /\ Named(t) \in Given
         /\ Live(Named(t)) => Named(t) \in Sids /\ sess[Named(t)] \in Session
         /\ Live(sid[t]) => sid[t] \in Sids /\ sess[sid[t]] \in Session
         /\ made \in 0 .. MaxSids /\ MaxSids \in Nat /\ Given \subseteq Sids \cup {None}
<1>1. BrowserOf[t] \in Browsers
  BY DEF Browsers
<1> QED
  BY <1>1, SessionConstants DEF TypesInv, SessionTypeOK, Given, Named, Live, Sids

(* The end of a request: it answers, and nothing of it is left.            *)
Reply(t) == WrongPassword(t) \/ LogFails(t) \/ Save(t) \/ PageEnd(t) \/ SetMenu(t)

LEMMA ReplyLeavesTab ==
  ASSUME TypesInv, NEW t \in Tabs, Reply(t)
  PROVE  /\ stage' \in [Tabs -> Stages] /\ who' \in [Tabs -> Users \cup {None}]
         /\ sid' \in [Tabs -> Given] /\ known' \in [Tabs -> BOOLEAN]
         /\ stage[t] # "idle" /\ stage'[t] = "idle"
         /\ sid'[t] = None /\ who[t] \in Users /\ sid[t] \in Sids
         /\ \A o \in Tabs : stage'[o] # "idle" => o # t
         /\ \A o \in Tabs \ {t} : stage'[o] = stage[o] /\ who'[o] = who[o]
                                    /\ sid'[o] = sid[o] /\ known'[o] = known[o]
<1>1. Done(t) /\ stage[t] # "idle"
  BY DEF Reply, WrongPassword, LogFails, Save, PageEnd, SetMenu
<1>2. who[t] \in Users /\ sid[t] \in Sids /\ "idle" \in Stages /\ None \in Given
  BY <1>1 DEF TypesInv, Stages, Given
<1> QED
  BY <1>1, <1>2 DEF Done, GoTo, TypesInv, SessionTypeOK

(* What the end of a request does to its session: x becomes y.             *)
Back(x, y, u) ==
  \/ y.context = x.context /\ y.parted = x.parted
  \/ x.context = None /\ y.context = u /\ (y.parted \/ x.info = u)

Ends(t, x, y) ==
  \/ /\ stage[t] = "password" /\ y.menu = x.menu
     /\ \/ y.context = None
        \/ (x.muddled \/ y.context = x.context) /\ (y.parted \/ y.context \in {None, x.info})
  \/ stage[t] = "save" /\ y.menu = x.menu /\ y.context = who[t]
  \/ stage[t] = "page" /\ y.menu = x.menu /\ Back(x, y, who[t])
  \/ stage[t] = "menu" /\ y.menu = [role |-> who[t], pages |-> found[t]] /\ Back(x, y, who[t])

LEMMA HandedBack ==
  ASSUME NEW x \in Session, NEW u \in Users
  PROVE  /\ HandBack(x, u) \in Session /\ Back(x, HandBack(x, u), u)
         /\ HandBack(x, u).menu = x.menu /\ HandBack(x, u).info = x.info
         /\ HandBack(x, u).over = x.over /\ HandBack(x, u).muddled = x.muddled
<1>1. CASE x.context # None
  BY <1>1 DEF HandBack, Back
<1>2. CASE x.context = None
  <2>1. HandBack(x, u) = [x EXCEPT !.context = u, !.parted = @ \/ x.info # u]
    BY <1>2 DEF HandBack
  <2> QED
    BY <1>2, <2>1 DEF Back, Session
<1> QED
  BY <1>1, <1>2

LEMMA Replied ==
  ASSUME TypesInv, NEW t \in Tabs, Reply(t)
  PROVE  /\ sess' \in [Sids -> Session \cup {None}]
         /\ ~Live(sid[t]) => UNCHANGED sess
         /\ Live(sid[t]) =>
              LET x == sess[sid[t]]
                  y == sess'[sid[t]]
              IN  /\ \A s \in Sids \ {sid[t]} : sess'[s] = sess[s]
                  /\ y.info = x.info /\ y.over = x.over /\ y.muddled = x.muddled
                  /\ Ends(t, x, y)
<1>1. sess \in [Sids -> Session \cup {None}]
  BY DEF TypesInv, SessionTypeOK
<1>2. CASE ~Live(sid[t])
  BY <1>1, <1>2 DEF Reply, WrongPassword, LogFails, Save, PageEnd, SetMenu
<1>3. CASE Live(sid[t])
  <2>1. PICK s \in Sids : s = sid[t]
    BY ReplyLeavesTab
  <2>2. PICK x \in Session : x = sess[s]
    BY <1>3, <2>1, Standing
  <2>3. PICK u \in Users : u = who[t]
    BY ReplyLeavesTab
  <2>4. ASSUME NEW y \in Session, sess' = [sess EXCEPT ![s] = y],
               y.info = x.info, y.over = x.over, y.muddled = x.muddled, Ends(t, x, y)
        PROVE  /\ sess' \in [Sids -> Session \cup {None}] /\ sess'[s] = y
               /\ \A z \in Sids \ {s} : sess'[z] = sess[z]
    BY <1>1, <2>4
  <2>5. \E y \in Session :
           /\ sess' = [sess EXCEPT ![s] = y]
           /\ y.info = x.info /\ y.over = x.over /\ y.muddled = x.muddled /\ Ends(t, x, y)
    <3>1. CASE WrongPassword(t)
      <4> DEFINE y == [x EXCEPT !.context = None, !.parted = FALSE]
      <4>1. sess' = [sess EXCEPT ![s] = y]
        BY <1>3, <2>1, <2>2, <3>1 DEF WrongPassword
      <4>2. /\ y \in Session /\ y.context = None /\ y.menu = x.menu
            /\ y.info = x.info /\ y.over = x.over /\ y.muddled = x.muddled
        BY DEF Session
      <4> HIDE DEF y
      <4> QED
        BY <3>1, <4>1, <4>2 DEF Ends, WrongPassword
    <3>2. CASE LogFails(t)
      <4>1. PICK c \in IF x.muddled THEN Users \cup {None} ELSE {x.context} :
              sess' = [sess EXCEPT ![s] = [x EXCEPT !.context = c, !.parted = c \notin {None, x.info}]]
        BY <1>3, <2>1, <2>2, <3>2 DEF LogFails
      <4> DEFINE y == [x EXCEPT !.context = c, !.parted = c \notin {None, x.info}]
      <4>2. /\ y \in Session /\ y.context = c /\ (y.parted <=> c \notin {None, x.info})
            /\ y.menu = x.menu /\ y.info = x.info /\ y.over = x.over /\ y.muddled = x.muddled
        BY DEF Session
      <4>3. x.muddled \/ c = x.context
        OBVIOUS
      <4>4. sess' = [sess EXCEPT ![s] = y]
        BY <4>1
      <4> HIDE DEF y
      <4> QED
        BY <3>2, <4>2, <4>3, <4>4 DEF Ends, LogFails
    <3>3. CASE Save(t)
      <4> DEFINE y == [x EXCEPT !.context = who[t], !.parted = FALSE]
      <4>1. sess' = [sess EXCEPT ![s] = y]
        BY <1>3, <2>1, <2>2, <3>3 DEF Save
      <4>2. /\ y \in Session /\ y.context = who[t] /\ y.menu = x.menu
            /\ y.info = x.info /\ y.over = x.over /\ y.muddled = x.muddled
        BY <2>3 DEF Session
      <4> HIDE DEF y
      <4> QED
        BY <3>3, <4>1, <4>2 DEF Ends, Save
    <3>4. CASE PageEnd(t)
      <4>1. sess' = [sess EXCEPT ![s] = HandBack(x, who[t])]
        BY <1>3, <2>1, <2>2, <3>4 DEF PageEnd
      <4> QED
        BY <2>3, <3>4, <4>1, HandedBack DEF Ends, PageEnd
    <3>5. CASE SetMenu(t)
      <4> DEFINE h == HandBack(x, who[t])
                 y == [h EXCEPT !.menu = [role |-> who[t], pages |-> found[t]]]
      <4>1. sess' = [sess EXCEPT ![s] = y]
        BY <1>3, <2>1, <2>2, <3>5 DEF SetMenu
      <4>2. h \in Session /\ Back(x, h, who[t]) /\ h.info = x.info
            /\ h.over = x.over /\ h.muddled = x.muddled
        BY <2>3, HandedBack
      <4>3. [role |-> who[t], pages |-> found[t]] \in Menus
        BY <2>3 DEF Menus, TypesInv, SessionTypeOK
      <4> HIDE DEF h
      <4>4. /\ y \in Session /\ y.menu = [role |-> who[t], pages |-> found[t]]
            /\ y.info = h.info /\ y.over = h.over /\ y.muddled = h.muddled
            /\ y.context = h.context /\ y.parted = h.parted
        BY <4>2, <4>3 DEF Session
      <4> HIDE DEF y
      <4>5. Back(x, y, who[t])
        BY <4>2, <4>4 DEF Back
      <4> QED
        BY <3>5, <4>1, <4>2, <4>4, <4>5 DEF Ends, SetMenu
    <3> QED
      BY <3>1, <3>2, <3>3, <3>4, <3>5 DEF Reply
  <2> QED
    BY <1>3, <2>1, <2>2, <2>4, <2>5
<1> QED
  BY <1>2, <1>3

LEMMA StepKeepsTypes ==
  ASSUME TypesInv, [SessionNext]_sessionVars PROVE TypesInv'
<1>0. /\ BrowserOf \in [Tabs -> Tabs] /\ MaxSids \in Nat /\ MaxLogins \in Nat
      /\ None \notin Users /\ None \notin Nat
      /\ \A x \in {"idle", "password", "count", "register", "save", "menu", "page"} : x \in Stages
  BY SessionConstants DEF Stages
<1> USE <1>0 DEF TypesInv, SessionTypeOK, Sids, Given, roleVars, tabVars, GoTo
<1>1. ASSUME NEW t \in Tabs, NEW u \in Users, LoginBegin(t, u) PROVE TypesInv'
  <2>1. PICK s \in Sids : s = IF Live(Named(t)) THEN Named(t) ELSE made + 1
    BY <1>1 DEF LoginBegin
  <2>2. PICK was \in Session : was = IF Live(Named(t)) THEN sess[s] ELSE Empty
    BY <2>1, Standing DEF Session, Empty
  <2>3. PICK x \in Session : sess' = [sess EXCEPT ![s] = x]
    BY <1>1, <2>1, <2>2 DEF LoginBegin, Session
  <2>4. sess' \in [Sids -> Session \cup {None}]
    BY <2>3
  <2>5. s \in 1 .. made' /\ made' \in 0 .. MaxSids /\ made <= made'
    BY <1>1, <2>1, Standing DEF LoginBegin
  <2>6. sid' = [sid EXCEPT ![t] = s] /\ who' = [who EXCEPT ![t] = u] /\ UNCHANGED cookie
    BY <1>1, <2>1 DEF LoginBegin
  <2>7. sid' \in [Tabs -> Given'] /\ cookie' \in [Browsers -> Given']
    BY <2>5, <2>6
  <2>8. logins' \in 0 .. MaxLogins /\ known' \in [Tabs -> BOOLEAN]
    BY <1>1 DEF LoginBegin, Live
  <2> QED
    BY <1>1, <2>4, <2>5, <2>6, <2>7, <2>8 DEF LoginBegin
<1>2. ASSUME NEW t \in Tabs, Reply(t) PROVE TypesInv'
  <2>1. /\ stage' \in [Tabs -> Stages] /\ who' \in [Tabs -> Users \cup {None}]
        /\ sid' \in [Tabs -> Given] /\ known' \in [Tabs -> BOOLEAN]
        /\ \A o \in Tabs : stage'[o] # "idle" => o # t
        /\ \A o \in Tabs \ {t} : stage'[o] = stage[o] /\ who'[o] = who[o] /\ sid'[o] = sid[o]
    BY <1>2, ReplyLeavesTab
  <2>2. UNCHANGED <<registry, grants, hadPages, changes, made, logins, raced>>
    BY <1>2 DEF Reply, WrongPassword, LogFails, Save, PageEnd, SetMenu
  <2>3. sess' \in [Sids -> Session \cup {None}]
    BY <1>2, Replied
  <2>4. cookie' \in [Browsers -> Given]
    BY <1>2, Standing DEF Reply, WrongPassword, LogFails, Save, PageEnd, SetMenu
  <2>5. menus' \in [Users -> Menus \cup {None}] /\ found' \in [Tabs -> SUBSET Pages]
    <3>1. CASE SetMenu(t)
      BY <3>1 DEF SetMenu, Menus
    <3>2. CASE ~SetMenu(t)
      BY <1>2, <3>2 DEF Reply, WrongPassword, LogFails, Save, PageEnd
    <3> QED
      BY <3>1, <3>2
  <2>6. sid' \in [Tabs -> Sids \cup {None}] /\ Given' = Given
    BY <2>1, <2>2, Standing DEF Given
  <2>7. \A o \in Tabs : stage'[o] # "idle" => who'[o] \in Users /\ sid'[o] \in Sids
    BY <2>1
  <2> QED
    BY <2>1, <2>2, <2>3, <2>4, <2>5, <2>6, <2>7
<1>12. ASSUME NEW t \in Tabs, RightPassword(t) PROVE TypesInv'
  BY <1>12 DEF RightPassword
<1>3. ASSUME NEW t \in Tabs, Count(t) PROVE TypesInv'
  <2>1. who[t] \in Users
    BY <1>3 DEF Count
  <2>2. registry' \subseteq Sids \X Users \X BOOLEAN
    <3>1. CASE UNCHANGED registry
      BY <3>1
    <3>2. CASE \E e \in Of(who[t]) : registry' = (registry \ {e}) \cup {<<e[1], e[2], TRUE>>}
      <4>1. PICK e \in Of(who[t]) : registry' = (registry \ {e}) \cup {<<e[1], e[2], TRUE>>}
        BY <3>2
      <4>2. e[1] \in Sids /\ e[2] \in Users
        BY DEF Of
      <4>3. <<e[1], e[2], TRUE>> \in Sids \X Users \X BOOLEAN
        BY <4>2
      <4> QED
        BY <4>1, <4>3
    <3> QED
      BY <1>3, <3>1, <3>2 DEF Count
  <2>3. raced' \in [Users -> BOOLEAN]
    BY <1>3, <2>1 DEF Count
  <2> QED
    BY <1>3, <2>2, <2>3 DEF Count
<1>4. ASSUME NEW t \in Tabs, Register(t) PROVE TypesInv'
  <2>1. PICK was \in Session : was = IF Live(sid[t]) THEN sess[sid[t]] ELSE [Empty EXCEPT !.muddled = TRUE]
    <3>1. [Empty EXCEPT !.muddled = TRUE] \in Session
      BY DEF Empty, Session
    <3> QED
      BY <3>1, Standing
  <2>2. PICK s \in Sids : s = IF known[t] \/ ~Live(sid[t]) THEN made + 1 ELSE sid[t]
    BY <1>4 DEF Register
  <2>3. PICK x \in Session :
          sess' = [y \in Sids |-> IF y = s THEN x ELSE IF y = sid[t] THEN None ELSE sess[y]]
    <3> DEFINE x == [was EXCEPT !.over = @ \/ was.menu # None,
                                !.muddled = @ \/ Attempting(sid[t]) # {t}]
    <3>1. x \in Session
      BY DEF Session
    <3>3. sess' = [y \in Sids |-> IF y = s THEN x ELSE IF y = sid[t] THEN None ELSE sess[y]]
      BY <1>4, <2>1, <2>2, Zenon DEF Register
    <3> HIDE DEF x
    <3> QED
      BY <3>1, <3>3
  <2>4. sess' \in [Sids -> Session \cup {None}]
    BY <2>3
  <2>5. who[t] \in Users
    BY <1>4 DEF Register
  <2>6. registry' \subseteq Sids \X Users \X BOOLEAN
    <3>1. registry' = {e \in registry : e[1] \notin {sid[t], s}} \cup {<<s, who[t], FALSE>>}
      BY <1>4, <2>2 DEF Register
    <3>2. <<s, who[t], FALSE>> \in Sids \X Users \X BOOLEAN
      BY <2>5
    <3> QED
      BY <3>1, <3>2
  <2>7. s \in 1 .. made' /\ made' \in 0 .. MaxSids /\ made <= made'
    <3>1. made' = IF known[t] \/ ~Live(sid[t]) THEN s ELSE made
      BY <1>4, <2>2, Zenon DEF Register
    <3>2. CASE known[t] \/ ~Live(sid[t])
      <4>1. s = made + 1 /\ made' = made + 1
        BY <2>2, <3>1, <3>2, Zenon
      <4> QED
        BY <4>1, Standing
    <3>3. CASE ~(known[t] \/ ~Live(sid[t]))
      <4>1. s = sid[t] /\ made' = made
        BY <2>2, <3>1, <3>3, Zenon
      <4> QED
        BY <4>1, Standing
    <3> QED
      BY <3>2, <3>3
  <2>8. sid' = [sid EXCEPT ![t] = s] /\ UNCHANGED cookie
    BY <1>4, <2>2 DEF Register
  <2>9. sid' \in [Tabs -> Given'] /\ cookie' \in [Browsers -> Given']
    BY <2>7, <2>8
  <2>10. /\ stage' = [stage EXCEPT ![t] = "save"]
         /\ UNCHANGED <<who, known, found, menus, grants, changes, hadPages, logins, raced>>
    BY <1>4 DEF Register
  <2>11. sid' \in [Tabs -> Sids \cup {None}]
    BY <2>8
  <2>12. \A o \in Tabs : stage'[o] # "idle" => who'[o] \in Users /\ sid'[o] \in Sids
    BY <2>5, <2>8, <2>10
  <2> QED
    BY <2>4, <2>6, <2>7, <2>8, <2>9, <2>10, <2>11, <2>12
<1>5. ASSUME NEW s \in Sids, Drop(s),
             UNCHANGED <<cookie, tabVars, roleVars, made, logins, raced>>
      PROVE  TypesInv'
  BY <1>5 DEF Drop
<1>6. ASSUME NEW t \in Tabs, MenuFromCache(t) PROVE TypesInv'
  <2>1. /\ Named(t) \in Sids /\ sess[Named(t)] \in Session
        /\ sess[Named(t)].context \in Users
    BY <1>6, Standing DEF MenuFromCache, NeedsMenu, Session
  <2>2. PICK m \in Menus : sess' = [sess EXCEPT ![Named(t)].menu = m]
    BY <1>6, <2>1 DEF MenuFromCache
  <2>3. [sess[Named(t)] EXCEPT !.menu = m] \in Session
    BY <2>1 DEF Session
  <2>4. sess' \in [Sids -> Session \cup {None}]
    BY <2>2, <2>3
  <2> QED
    BY <1>6, <2>4 DEF MenuFromCache
<1>7. ASSUME NEW t \in Tabs, CreateMenu(t) \/ PageBegin(t) PROVE TypesInv'
  <2>1. Named(t) \in Sids /\ Named(t) \in Given /\ sess[Named(t)].context \in Users
    BY <1>7, Standing DEF CreateMenu, PageBegin, NeedsMenu, Session
  <2>2. PICK to \in Stages : stage' = [stage EXCEPT ![t] = to]
    BY <1>7 DEF CreateMenu, PageBegin
  <2>3. found' \in [Tabs -> SUBSET Pages]
    BY <1>7, <2>1 DEF CreateMenu, PageBegin
  <2>4. /\ who' = [who EXCEPT ![t] = sess[Named(t)].context]
        /\ sid' = [sid EXCEPT ![t] = Named(t)]
        /\ UNCHANGED <<sess, registry, cookie, known, roleVars, made, logins, raced>>
    BY <1>7 DEF CreateMenu, PageBegin
  <2> QED
    BY <2>1, <2>2, <2>3, <2>4
<1>9. ASSUME NEW u \in Users, NEW pages \in SUBSET Pages, Assign(u, pages) PROVE TypesInv'
  <2>1. hadPages' \in [Users -> SUBSET SUBSET Pages] /\ grants' \in [Users -> SUBSET Pages]
    BY <1>9 DEF Assign
  <2> QED
    BY <1>9, <2>1 DEF Assign
<1>10. CASE UNCHANGED sessionVars
  BY <1>10 DEF sessionVars
<1> QED
  BY <1>1, <1>2, <1>3, <1>4, <1>5, <1>6, <1>7, <1>9, <1>10, <1>12, Standing
     DEF SessionNext, Reply, Expelled, Logout, Timeout, Live

(* Every variable holds values of its kind.                                *)
THEOREM SessionTypes == SessionSpec => []SessionTypeOK
<1>1. TypesInv => SessionTypeOK
  BY DEF TypesInv
<1> QED
  BY <1>1, TypesInitially, StepKeepsTypes, PTL DEF SessionSpec

-----------------------------------------------------------------------------
(* A session is its tab's alone as long as its browser has not been told   *)
(* of it: until the answer to the login that made it.                      *)
Untold(t) == InLogin(t) /\ (~known[t] \/ stage[t] = "save")
Alone(t) ==
  Untold(t) => /\ \A b \in Browsers : cookie[b] # sid[t]
               /\ \A o \in Tabs \ {t} : sid[o] # sid[t]
PrivateInv == \A t \in Tabs : Alone(t)

(* Menus hold pages their role has had since they were begun.              *)
MenusInv ==
  /\ \A u \in Users : grants[u] \in hadPages[u]
  /\ \A u \in Users : menus[u] # None => menus[u].role = u /\ menus[u].pages \in hadPages[u]
  /\ \A t \in Tabs : stage[t] = "menu" => found[t] \in hadPages[who[t]]

(* Whoever is past the count is alone there, and has no session but his.   *)
Sole(u) ==
  ~raced[u] =>
    /\ \A e, f \in Of(u) : e = f
    /\ \A t, o \in Tabs : stage[t] = "register" /\ stage[o] = "register"
                            /\ who[t] = u /\ who[o] = u => t = o
    /\ \A t \in Tabs : stage[t] = "register" /\ who[t] = u => \A e \in Of(u) : e[1] = sid[t]
SoleInv == \A u \in Users : Sole(u)

(* A login finds its own user in its session, unless two have met there,   *)
(* and no menu of the user before when it saves the context.               *)
Own(t) ==
  Live(sid[t]) =>
    /\ InLogin(t) => sess[sid[t]].info = who[t] \/ sess[sid[t]].muddled
    /\ stage[t] = "save" => sess[sid[t]].menu = None \/ sess[sid[t]].over \/ sess[sid[t]].muddled
OwnInv == \A t \in Tabs : Own(t)

-----------------------------------------------------------------------------
(* Who is at work keeps his place: a step of tab t moves no other tab, and *)
(* of sessions and browsers only its own.                                  *)
Working(t) ==
  \/ (\E u \in Users : LoginBegin(t, u)) \/ RightPassword(t) \/ Count(t) \/ Register(t)
  \/ CreateMenu(t) \/ PageBegin(t) \/ Reply(t)

LEMMA Others ==
  ASSUME TypesInv, NEW t \in Tabs, Working(t)
  PROVE  \A o \in Tabs \ {t} :
           stage'[o] = stage[o] /\ who'[o] = who[o] /\ sid'[o] = sid[o] /\ known'[o] = known[o]
             /\ found'[o] = found[o]
<1>1. CASE Reply(t)
  <2>1. \A o \in Tabs \ {t} : found'[o] = found[o]
    BY <1>1 DEF Reply, WrongPassword, LogFails, Save, PageEnd, SetMenu, TypesInv, SessionTypeOK
  <2> QED
    BY <1>1, <2>1, ReplyLeavesTab
<1>2. CASE ~Reply(t)
  BY <1>2 DEF Working, TypesInv, SessionTypeOK, LoginBegin, RightPassword, Count, Register,
              CreateMenu, PageBegin, GoTo
<1> QED
  BY <1>1, <1>2

LEMMA StepKeepsPrivate ==
  ASSUME TypesInv, PrivateInv, [SessionNext]_sessionVars PROVE PrivateInv'
<1> USE SessionConstants DEF roleVars, tabVars
<1>1. ASSUME NEW t \in Tabs, NEW s \in Sids,
             s = made + 1 \/ (s = Named(t) /\ known'[t]),
             \/ InLogin(t)' /\ stage'[t] # "save"
             \/ stage'[t] = "save" /\ s = made + 1,
             sid' = [sid EXCEPT ![t] = s], UNCHANGED cookie,
             \A o \in Tabs \ {t} : stage'[o] = stage[o] /\ known'[o] = known[o]
      PROVE  PrivateInv'
  <2>1. made \in Nat /\ \A b \in Browsers : cookie[b] # made + 1
    BY DEF TypesInv, SessionTypeOK, Given
  <2>2. \A o \in Tabs : sid[o] # made + 1
    BY DEF TypesInv, SessionTypeOK, Given
  <2>3. Alone(t)'
    BY <1>1, <2>1, <2>2 DEF Alone, Untold, TypesInv
  <2>4. ASSUME NEW o \in Tabs \ {t}, Untold(o)' PROVE Alone(o)'
    <3>1. Untold(o) /\ Alone(o) /\ sid'[o] = sid[o]
      BY <1>1, <2>4 DEF Untold, InLogin, PrivateInv, TypesInv
    <3>2. s # sid[o]
      BY <1>1, <2>2, <3>1, Standing DEF Alone, Named
    <3> QED
      BY <1>1, <3>1, <3>2 DEF Alone, TypesInv
  <2> QED
    BY <2>3, <2>4 DEF PrivateInv, Alone
<1>2. ASSUME NEW t \in Tabs, NEW u \in Users, LoginBegin(t, u) PROVE PrivateInv'
  <2>1. PICK s \in Sids : s = IF Live(Named(t)) THEN Named(t) ELSE made + 1
    BY <1>2 DEF LoginBegin
  <2>2. /\ sid' = [sid EXCEPT ![t] = s] /\ UNCHANGED cookie /\ stage'[t] = "password"
        /\ known' = [known EXCEPT ![t] = Live(Named(t))]
    BY <1>2, <2>1 DEF LoginBegin, GoTo, TypesInv, SessionTypeOK
  <2>3. s = made + 1 \/ (s = Named(t) /\ known'[t])
    <3>1. Live(Named(t)) => known' = [known EXCEPT ![t] = TRUE]
      BY <2>2
    <3>2. Live(Named(t)) => known'[t]
      BY <3>1 DEF TypesInv, SessionTypeOK
    <3> QED
      BY <2>1, <3>2
  <2>4. \A o \in Tabs \ {t} : stage'[o] = stage[o] /\ known'[o] = known[o]
    BY <1>2, Others DEF Working
  <2>5. InLogin(t)' /\ stage'[t] # "save"
    BY <2>2 DEF InLogin
  <2> QED
    BY <1>1, <2>2, <2>3, <2>4, <2>5
<1>3. ASSUME NEW t \in Tabs, Register(t) PROVE PrivateInv'
  <2>1. PICK s \in Sids : s = IF known[t] \/ ~Live(sid[t]) THEN made + 1 ELSE sid[t]
    BY <1>3 DEF Register
  <2>2. /\ sid' = [sid EXCEPT ![t] = s] /\ UNCHANGED <<cookie, known>> /\ stage'[t] = "save"
    BY <1>3, <2>1 DEF Register, GoTo, TypesInv, SessionTypeOK
  <2>3. CASE s = made + 1
    <3>1. \A o \in Tabs \ {t} : stage'[o] = stage[o] /\ known'[o] = known[o]
      BY <1>3, Others DEF Working
    <3>2. UNCHANGED cookie
      BY <2>2
    <3> QED
      BY <1>1, <2>2, <2>3, <3>1, <3>2
  <2>4. CASE ~known[t] /\ s = sid[t]
    <3>1. sid' = sid
      BY <2>2, <2>4 DEF TypesInv, SessionTypeOK
    <3>2. \A o \in Tabs : Untold(o)' => Untold(o)
      BY <1>3, <2>2, <2>4, Others DEF Working, Untold, InLogin, Register
    <3> QED
      BY <2>2, <3>1, <3>2 DEF PrivateInv, Alone
  <2> QED
    BY <2>1, <2>3, <2>4
<1>4. ASSUME NEW t \in Tabs, Reply(t) PROVE PrivateInv'
  <2>1. /\ ~InLogin(t)' /\ sid'[t] = None
        /\ \A o \in Tabs \ {t} : stage'[o] = stage[o] /\ sid'[o] = sid[o] /\ known'[o] = known[o]
    BY <1>4, ReplyLeavesTab DEF InLogin
  <2>2. \/ UNCHANGED cookie
        \/ Untold(t) /\ cookie' = [cookie EXCEPT ![BrowserOf[t]] = sid[t]]
    BY <1>4 DEF Reply, WrongPassword, LogFails, Save, PageEnd, SetMenu, InLogin, Untold, TypesInv,
                SessionTypeOK
  <2>3. ASSUME NEW o \in Tabs, Untold(o)' PROVE Alone(o)'
    <3>1. o # t /\ Untold(o) /\ sid[o] \in Sids /\ sid[o] # None
      BY <2>1, <2>3 DEF Untold, InLogin, TypesInv, Sids
    <3>2. sid[o] # sid[t] /\ \A b \in Browsers : cookie'[b] \in {cookie[b], sid[t]}
      BY <2>2, <3>1 DEF PrivateInv, Alone, TypesInv, SessionTypeOK
    <3> QED
      BY <2>1, <3>1, <3>2 DEF PrivateInv, Alone
  <2> QED
    BY <2>3 DEF PrivateInv, Alone
<1>5. ASSUME NEW t \in Tabs, CreateMenu(t) \/ PageBegin(t) PROVE PrivateInv'
  <2>1. /\ sid' = [sid EXCEPT ![t] = Named(t)] /\ UNCHANGED <<cookie, known>> /\ ~InLogin(t)'
    BY <1>5 DEF CreateMenu, PageBegin, GoTo, InLogin, TypesInv, SessionTypeOK
  <2>2. ASSUME NEW o \in Tabs, Untold(o)' PROVE Alone(o)'
    <3>1. o # t /\ Untold(o)
      BY <1>5, <2>1, <2>2, Others DEF Working, Untold, InLogin
    <3>2. Named(t) # sid[o]
      BY <3>1, Standing DEF PrivateInv, Alone, Named
    <3> QED
      BY <2>1, <3>1, <3>2 DEF PrivateInv, Alone, TypesInv
  <2> QED
    BY <2>2 DEF PrivateInv, Alone
<1>6. ASSUME UNCHANGED <<cookie, sid, known>>, \A o \in Tabs : Untold(o)' => Untold(o)
      PROVE  PrivateInv'
  BY <1>6 DEF PrivateInv, Alone
<1>7. ASSUME NEW t \in Tabs, RightPassword(t) \/ Count(t) PROVE PrivateInv'
  <2>1. UNCHANGED <<cookie, sid, known>> /\ stage'[t] # "save" /\ (InLogin(t)' => InLogin(t))
    BY <1>7 DEF RightPassword, Count, GoTo, InLogin, TypesInv, SessionTypeOK
  <2>2. \A o \in Tabs : Untold(o)' => Untold(o)
    BY <1>7, <2>1, Others DEF Working, Untold, InLogin
  <2> QED
    BY <1>6, <2>1, <2>2
<1>8. UNCHANGED <<cookie, sid, known, stage>> => PrivateInv'
  BY <1>6 DEF Untold, InLogin
<1> QED
  BY <1>2, <1>3, <1>4, <1>5, <1>7, <1>8
     DEF SessionNext, Reply, Expelled, Logout, Timeout, MenuFromCache, Assign, sessionVars

-----------------------------------------------------------------------------
(* A menu that is known stays known, and no page its role has had since is *)
(* forgotten.                                                              *)
HadKept ==
  \A u \in Users : menus[u] # None => menus'[u] # None /\ hadPages[u] \subseteq hadPages'[u]

LEMMA HadStays ==
  ASSUME TypesInv, [SessionNext]_sessionVars PROVE HadKept
<1>1. ASSUME UNCHANGED <<menus, hadPages>> PROVE HadKept
  BY <1>1 DEF HadKept
<1>2. ASSUME NEW t \in Tabs, SetMenu(t) PROVE HadKept
  <2>1. who[t] \in Users /\ found[t] \in SUBSET Pages /\ UNCHANGED hadPages
    BY <1>2 DEF SetMenu, TypesInv, SessionTypeOK
  <2>2. [role |-> who[t], pages |-> found[t]] # None
    BY <2>1, SessionConstants
  <2> QED
    BY <1>2, <2>1, <2>2 DEF SetMenu, HadKept, TypesInv, SessionTypeOK
<1>3. ASSUME NEW u \in Users, NEW pages \in SUBSET Pages, Assign(u, pages) PROVE HadKept
  <2>1. UNCHANGED menus
    BY <1>3 DEF Assign, tabVars
  <2>2. ASSUME NEW v \in Users, menus[v] # None PROVE hadPages[v] \subseteq hadPages'[v]
    BY <1>3, <2>2 DEF Assign, MenuBegun, TypesInv, SessionTypeOK
  <2> QED
    BY <2>1, <2>2 DEF HadKept
<1> QED
  BY <1>1, <1>2, <1>3
     DEF SessionNext, LoginBegin, WrongPassword, LogFails, RightPassword, Count, Register, Save,
         PageBegin, PageEnd, Expelled, Logout, Timeout, MenuFromCache, CreateMenu, sessionVars, roleVars

LEMMA StepKeepsMenus ==
  ASSUME TypesInv, MenusInv, [SessionNext]_sessionVars PROVE MenusInv'
<1> USE DEF TypesInv, SessionTypeOK, roleVars, tabVars, GoTo
<1>1. ASSUME UNCHANGED roleVars,
             \A t \in Tabs : stage'[t] = "menu" =>
               /\ stage[t] = "menu" /\ found'[t] = found[t] /\ who'[t] = who[t]
      PROVE  MenusInv'
  BY <1>1 DEF MenusInv
<1>2. ASSUME NEW t \in Tabs, Working(t), ~CreateMenu(t), ~SetMenu(t) PROVE MenusInv'
  <2>1. UNCHANGED roleVars
    BY <1>2 DEF Working, Reply, LoginBegin, WrongPassword, LogFails, RightPassword, Count, Register,
                Save, PageBegin, PageEnd
  <2>2. stage'[t] # "menu"
    <3>1. CASE Reply(t)
      BY <3>1, ReplyLeavesTab
    <3>2. CASE ~Reply(t)
      BY <1>2, <3>2 DEF Working, LoginBegin, RightPassword, Count, Register, PageBegin
    <3> QED
      BY <3>1, <3>2
  <2>3. \A o \in Tabs \ {t} : stage'[o] = stage[o] /\ who'[o] = who[o] /\ found'[o] = found[o]
    BY <1>2, Others
  <2> QED
    BY <1>1, <2>1, <2>2, <2>3
<1>3. ASSUME NEW t \in Tabs, CreateMenu(t) PROVE MenusInv'
  <2>1. PICK u \in Users : u = sess[Named(t)].context
    BY <1>3, Standing DEF CreateMenu, NeedsMenu, Session
  <2>2. /\ found' = [found EXCEPT ![t] = grants[u]] /\ who' = [who EXCEPT ![t] = u]
        /\ UNCHANGED roleVars
    BY <1>3, <2>1 DEF CreateMenu
  <2>3. \A o \in Tabs \ {t} : stage'[o] = stage[o] /\ who'[o] = who[o] /\ found'[o] = found[o]
    BY <1>3, Others DEF Working
  <2> QED
    BY <2>1, <2>2, <2>3 DEF MenusInv
<1>4. ASSUME NEW t \in Tabs, SetMenu(t) PROVE MenusInv'
  <2>1. who[t] \in Users /\ found[t] \in hadPages[who[t]] /\ UNCHANGED <<grants, hadPages>>
    BY <1>4 DEF SetMenu, MenusInv
  <2>2. \/ UNCHANGED menus
        \/ menus' = [menus EXCEPT ![who[t]] = [role |-> who[t], pages |-> found[t]]]
    BY <1>4 DEF SetMenu
  <2>3. \A u \in Users : menus'[u] # None => menus'[u].role = u /\ menus'[u].pages \in hadPages[u]
    BY <2>1, <2>2 DEF MenusInv
  <2>4. Working(t) /\ stage'[t] # "menu"
    BY <1>4, ReplyLeavesTab DEF Working, Reply
  <2>5. \A o \in Tabs : stage'[o] = "menu" => stage[o] = "menu" /\ found'[o] = found[o] /\ who'[o] = who[o]
    BY <2>4, Others
  <2> QED
    BY <2>1, <2>3, <2>5 DEF MenusInv
<1>5. ASSUME NEW u \in Users, NEW pages \in SUBSET Pages, Assign(u, pages) PROVE MenusInv'
  <2>1. UNCHANGED <<menus, stage, who, found>>
    BY <1>5 DEF Assign
  <2>2. \A v \in Users : MenuBegun(v) => hadPages[v] \subseteq hadPages'[v]
    BY <1>5 DEF Assign
  <2>3. \A v \in Users : grants'[v] \in hadPages'[v]
    BY <1>5 DEF Assign, MenusInv
  <2>4. \A v \in Users : menus[v] # None => MenuBegun(v)
    BY DEF MenuBegun
  <2>5. \A t \in Tabs : stage[t] = "menu" => who[t] \in Users /\ MenuBegun(who[t])
    BY DEF MenuBegun
  <2> QED
    BY <2>1, <2>2, <2>3, <2>4, <2>5 DEF MenusInv
<1>6. UNCHANGED <<menus, grants, hadPages, stage, who, found>> => MenusInv'
  BY DEF MenusInv
<1> QED
  BY <1>2, <1>3, <1>4, <1>5, <1>6
     DEF SessionNext, Working, Reply, Expelled, Logout, Timeout, MenuFromCache, sessionVars

-----------------------------------------------------------------------------
(* As long as nobody enters between count and save, sessions only go.      *)
LEMMA FewerSessions ==
  ASSUME SoleInv, registry' \subseteq {e \in Sids \X Users \X BOOLEAN : e[3] \/ e \in registry},
         UNCHANGED raced,
         \A t \in Tabs : stage'[t] = "register" =>
           stage[t] = "register" /\ who'[t] = who[t] /\ sid'[t] = sid[t]
  PROVE  SoleInv'
<1>1. \A u : Of(u)' \subseteq Of(u)
  BY DEF Of
<1> QED
  BY <1>1 DEF SoleInv, Sole

LEMMA Expiring ==
  ASSUME NEW u, NEW e \in Of(u), registry' = (registry \ {e}) \cup {<<e[1], e[2], TRUE>>}
  PROVE  \A v : Of(v)' \subseteq Of(v) \ {e}
<1> SUFFICES ASSUME NEW v, NEW x \in Of(v)' PROVE x \in Of(v) \ {e}
  OBVIOUS
<1>1. x \in registry' /\ x[2] = v /\ ~x[3]
  BY DEF Of
<1>2. <<e[1], e[2], TRUE>>[3]
  OBVIOUS
<1>3. x # <<e[1], e[2], TRUE>>
  BY <1>1, <1>2
<1> QED
  BY <1>1, <1>3 DEF Of

LEMMA Registering ==
  ASSUME NEW u, NEW s, NEW k,
         registry' = {e \in registry : e[1] \notin {k, s}} \cup {<<s, u, FALSE>>}
  PROVE  /\ \A v : v # u => Of(v)' \subseteq Of(v)
         /\ Of(u)' \subseteq {e \in Of(u) : e[1] # k} \cup {<<s, u, FALSE>>}
<1>1. <<s, u, FALSE>>[2] = u
  OBVIOUS
<1>2. ASSUME NEW v, NEW x \in Of(v)', x # <<s, u, FALSE>> PROVE x \in Of(v) /\ x[1] # k
  BY <1>2 DEF Of
<1>3. ASSUME NEW v, v # u PROVE <<s, u, FALSE>> \notin Of(v)'
  BY <1>1, <1>3 DEF Of
<1> QED
  BY <1>2, <1>3

LEMMA CountKeepsSole ==
  ASSUME TypesInv, SoleInv, NEW t \in Tabs, Count(t) PROVE SoleInv'
<1>1. PICK u \in Users : u = who[t]
  BY DEF Count, TypesInv
<1>2. /\ \A o \in Tabs : who'[o] = who[o] /\ sid'[o] = sid[o]
      /\ \A o \in Tabs \ {t} : stage'[o] = stage[o]
  BY Others DEF Working, Count
<1>3. \A v : Of(v)' \subseteq Of(v)
  <2>1. CASE UNCHANGED registry
    BY <2>1 DEF Of
  <2>2. CASE \E e \in Of(who[t]) : registry' = (registry \ {e}) \cup {<<e[1], e[2], TRUE>>}
    BY <2>2, Expiring
  <2> QED
    BY <2>1, <2>2 DEF Count
<1>4. \A v \in Users \ {u} : raced'[v] = raced[v]
  BY <1>1 DEF Count, TypesInv, SessionTypeOK
<1>5. ASSUME NEW v \in Users \ {u} PROVE Sole(v)'
  BY <1>1, <1>2, <1>3, <1>4 DEF SoleInv, Sole
<1>6. ASSUME ~raced'[u]
      PROVE  ~raced[u] /\ \A o \in Tabs \ {t} : stage[o] = "register" => who[o] # u
  BY <1>1, <1>6 DEF Count, TypesInv, SessionTypeOK
<1>7. ASSUME ~raced'[u] PROVE \A e \in Of(u)' : e[1] = sid[t]
  <2>1. CASE Of(u) = {} \/ \E e \in Of(u) : Of(u) = {e} /\ e[1] = sid[t]
    BY <1>3, <2>1
  <2>2. CASE \E e \in Of(u) : registry' = (registry \ {e}) \cup {<<e[1], e[2], TRUE>>}
    <3>1. PICK e \in Of(u) : registry' = (registry \ {e}) \cup {<<e[1], e[2], TRUE>>}
      BY <2>2
    <3>2. Of(u) = {e}
      BY <1>6, <1>7 DEF SoleInv, Sole
    <3>3. e \notin Of(u)'
      BY <3>1, Expiring
    <3> QED
      BY <1>3, <3>2, <3>3
  <2> QED
    BY <1>1, <2>1, <2>2 DEF Count
<1>8. Sole(u)'
  BY <1>1, <1>2, <1>3, <1>6, <1>7 DEF SoleInv, Sole
<1> QED
  BY <1>5, <1>8 DEF SoleInv

LEMMA RegisterKeepsSole ==
  ASSUME TypesInv, SoleInv, NEW t \in Tabs, Register(t) PROVE SoleInv'
<1>1. PICK u \in Users : u = who[t]
  BY DEF Register, TypesInv
<1>2. /\ \A o \in Tabs \ {t} : stage'[o] = stage[o] /\ who'[o] = who[o] /\ sid'[o] = sid[o]
      /\ stage'[t] # "register" /\ stage[t] = "register" /\ UNCHANGED raced
  BY Others DEF Working, Register, GoTo, TypesInv, SessionTypeOK
<1>3. PICK s \in Sids :
        registry' = {e \in registry : e[1] \notin {sid[t], s}} \cup {<<s, u, FALSE>>}
  BY <1>1 DEF Register
<1>4. \A v \in Users \ {u} : Of(v)' \subseteq Of(v)
  BY <1>3, Registering
<1>5. ASSUME NEW v \in Users \ {u} PROVE Sole(v)'
  BY <1>2, <1>4 DEF SoleInv, Sole
<1>6. ASSUME ~raced[u] PROVE Of(u)' \subseteq {<<s, u, FALSE>>}
  <2>1. \A e \in Of(u) : e[1] = sid[t]
    BY <1>1, <1>2, <1>6 DEF SoleInv, Sole
  <2> QED
    BY <1>3, <2>1, Registering
<1>7. ~raced[u] => \A o \in Tabs : stage'[o] = "register" => who'[o] # u
  BY <1>1, <1>2 DEF SoleInv, Sole
<1>8. Sole(u)'
  BY <1>2, <1>6, <1>7 DEF Sole
<1> QED
  BY <1>5, <1>8 DEF SoleInv

LEMMA StepKeepsSole ==
  ASSUME TypesInv, SoleInv, [SessionNext]_sessionVars PROVE SoleInv'
<1> USE DEF roleVars, tabVars
<1>1. ASSUME NEW t \in Tabs, Working(t), ~Count(t), ~Register(t) PROVE SoleInv'
  <2>1. UNCHANGED <<registry, raced>>
    BY <1>1 DEF Working, Reply, LoginBegin, WrongPassword, LogFails, RightPassword, Save, CreateMenu,
                PageBegin, PageEnd, SetMenu
  <2>2. stage'[t] # "register"
    <3>1. CASE Reply(t)
      BY <3>1, ReplyLeavesTab
    <3>2. CASE ~Reply(t)
      BY <1>1, <3>2 DEF Working, LoginBegin, RightPassword, CreateMenu, PageBegin, GoTo, TypesInv,
                        SessionTypeOK
    <3> QED
      BY <3>1, <3>2
  <2>3. \A o \in Tabs \ {t} : stage'[o] = stage[o] /\ who'[o] = who[o] /\ sid'[o] = sid[o]
    BY <1>1, Others
  <2> QED
    BY <2>1, <2>2, <2>3, FewerSessions DEF TypesInv, SessionTypeOK
<1>2. ASSUME registry' \subseteq registry, UNCHANGED <<raced, stage, who, sid>> PROVE SoleInv'
  BY <1>2, FewerSessions DEF TypesInv, SessionTypeOK
<1>3. ASSUME NEW s, Drop(s), UNCHANGED <<raced, stage, who, sid>> PROVE SoleInv'
  BY <1>2, <1>3 DEF Drop
<1> QED
  BY <1>1, <1>2, <1>3, CountKeepsSole, RegisterKeepsSole
     DEF SessionNext, Working, Reply, Expelled, Logout, Timeout, MenuFromCache, Assign, sessionVars

(* An account has one live session that has not expired, unless two logins *)
(* of it were past the count at once.                                      *)
THEOREM OneSession == SessionSpec => []OneSessionUnlessRaced
<1>1. SessionInit => SoleInv
  BY DEF SessionInit, SoleInv, Sole, Of
<1>2. TypesInv /\ SoleInv => OneSessionUnlessRaced
  <2> SUFFICES ASSUME SoleInv, NEW u \in Users, ~raced[u]
               PROVE  Cardinality({e \in Of(u) : Live(e[1])}) \in {0, 1}
    BY DEF OneSessionUnlessRaced
  <2> DEFINE S == {e \in Of(u) : Live(e[1])}
  <2>1. CASE S = {}
    BY <2>1, FS_EmptySet
  <2>2. ASSUME NEW e \in S PROVE Cardinality(S) = 1
    <3>1. S = {e}
      BY <2>2 DEF SoleInv, Sole
    <3> QED
      BY <3>1, FS_Singleton
  <2> QED
    BY <2>1, <2>2
<1> QED
  BY <1>1, <1>2, TypesInitially, StepKeepsTypes, StepKeepsSole, PTL DEF SessionSpec

-----------------------------------------------------------------------------
(* What holds of a session that is not muddled.  Its menu fits the user it *)
(* is for, and the requests under way in it were begun by one user: who    *)
(* hands his context back hands it to a session whose menu is his.         *)
Visits(o, s) == stage[o] \in {"page", "menu"} /\ sid[o] = s
MenuFits(x, u, pagesHad) ==
  x.menu = None \/ x.over \/ (x.menu.role = u /\ x.menu.pages \in pagesHad[u])
Visited(s) ==
  /\ \A o \in Tabs : Visits(o, s) => sess[s].context \in {None, who[o]} /\ MenuFits(sess[s], who[o], hadPages)
  /\ \A o, t \in Tabs : Visits(o, s) /\ Visits(t, s) => who[o] = who[t]
Fine(s) ==
  Live(s) =>
    /\ sess[s].menu # None => menus[sess[s].menu.role] # None
    /\ ~sess[s].muddled =>
         /\ sess[s].context # None => MenuFits(sess[s], sess[s].context, hadPages)
         /\ sess[s].context # None /\ Attempting(s) = {} /\ ~sess[s].parted
              => sess[s].context = sess[s].info
         /\ Visited(s)
TruthInv == OwnInv /\ \A s \in Sids : Fine(s)
AllInv == TypesInv /\ PrivateInv /\ MenusInv /\ TruthInv

(* What a step leaves of a menu that fits.                                 *)
LEMMA FitsStill ==
  ASSUME TypesInv, HadKept, NEW x \in Session, NEW y, NEW u \in Users,
         y.menu = x.menu, x.over => y.over, x.menu # None => menus[x.menu.role] # None
  PROVE  /\ MenuFits(x, u, hadPages) => MenuFits(y, u, hadPages')
         /\ y.menu # None => menus'[y.menu.role] # None
<1>1. x.menu # None => x.menu.role \in Users
  BY DEF Session, Menus
<1>2. x.menu # None => menus'[x.menu.role] # None /\ hadPages[x.menu.role] \subseteq hadPages'[x.menu.role]
  BY <1>1 DEF HadKept
<1> QED
  BY <1>2 DEF MenuFits

(* A session and a tab that a step leaves alone.                           *)
LEMMA SessionLeftAlone ==
  ASSUME AllInv, HadKept, NEW s \in Sids, sess'[s] = sess[s],
         \A o \in Attempting(s) : o \in Attempting(s)',
         \A o \in Tabs : Visits(o, s)' => Visits(o, s) /\ who'[o] = who[o]
  PROVE  Fine(s)'
<1>1. SUFFICES ASSUME Live(s) PROVE Fine(s)'
  BY DEF Fine, Live
<1>2. TypesInv /\ Fine(s) /\ sess[s] \in Session
  BY <1>1 DEF AllInv, TruthInv, TypesInv, SessionTypeOK, Live
<1>3. Attempting(s)' = {} => Attempting(s) = {}
  OBVIOUS
<1>4. /\ \A u \in Users : MenuFits(sess[s], u, hadPages) => MenuFits(sess'[s], u, hadPages')
      /\ sess'[s].menu # None => menus'[sess'[s].menu.role] # None
  <2>1. sess[s].menu # None => menus[sess[s].menu.role] # None
    BY <1>1, <1>2 DEF Fine
  <2>2. PICK x \in Session : x = sess[s] /\ x = sess'[s]
    BY <1>2
  <2>3. /\ \A u \in Users : MenuFits(x, u, hadPages) => MenuFits(x, u, hadPages')
        /\ x.menu # None => menus'[x.menu.role] # None
    <3>1. x.menu # None => x.menu.role \in Users
      BY DEF Session, Menus
    <3>2. x.menu # None => menus'[x.menu.role] # None /\ hadPages[x.menu.role] \subseteq hadPages'[x.menu.role]
      BY <2>1, <2>2, <3>1 DEF HadKept
    <3> QED
      BY <3>2 DEF MenuFits
  <2> QED
    BY <2>2, <2>3
<1>5. \A o \in Tabs : Visits(o, s) => who[o] \in Users
  BY <1>2 DEF Visits, TypesInv
<1>6. ~sess[s].muddled => Visited(s)'
  BY <1>1, <1>2, <1>4, <1>5 DEF Fine, Visited
<1>7. sess[s].context # None => sess[s].context \in Users
  BY <1>2 DEF Session
<1> QED
  BY <1>1, <1>2, <1>3, <1>4, <1>6, <1>7 DEF Fine

LEMMA TabLeftAlone ==
  ASSUME AllInv, NEW o \in Tabs, sess'[sid[o]] = sess[sid[o]], sid'[o] = sid[o],
         InLogin(o)' => InLogin(o) /\ who'[o] = who[o], stage'[o] = "save" => stage[o] = "save"
  PROVE  Own(o)'
<1>1. Own(o) /\ (Live(sid[o])' <=> Live(sid[o]))
  BY DEF AllInv, TruthInv, OwnInv, Live
<1> QED
  BY <1>1 DEF Own

(* Who attempts or visits a session that a step of another tab leaves      *)
(* alone.                                                                  *)
LEMMA AttemptsStay ==
  ASSUME TypesInv, NEW t \in Tabs, NEW s, Working(t), InLogin(t) => sid[t] # s
  PROVE  \A o \in Attempting(s) : o # t /\ o \in Attempting(s)'
BY Others DEF Attempting, InLogin

LEMMA VisitsStay ==
  ASSUME TypesInv, NEW t \in Tabs, NEW s, Working(t),
         stage'[t] \in {"page", "menu"} => sid'[t] # s
  PROVE  \A o \in Tabs : Visits(o, s)' => o # t /\ Visits(o, s) /\ who'[o] = who[o]
BY Others DEF Visits

LEMMA LoginBeginTruth ==
  ASSUME AllInv, HadKept, NEW t \in Tabs, NEW u \in Users, LoginBegin(t, u) PROVE TruthInv'
<1> USE DEF roleVars
<1>0. TypesInv /\ Working(t)
  BY DEF AllInv, Working
<1>1. PICK s \in Sids : s = IF Live(Named(t)) THEN Named(t) ELSE made + 1
  BY DEF LoginBegin
<1>2. stage[t] = "idle" /\ stage'[t] = "password" /\ who'[t] = u /\ sid'[t] = s
  BY <1>0, <1>1 DEF LoginBegin, GoTo, TypesInv, SessionTypeOK
<1>3. \A o \in Tabs \ {t} : stage'[o] = stage[o] /\ who'[o] = who[o] /\ sid'[o] = sid[o]
  BY <1>0, Others
<1> DEFINE was == IF Live(Named(t)) THEN sess[s] ELSE Empty
<1>4. was \in Session
  BY <1>0, <1>1, Standing DEF Session, Empty
<1>5. /\ \A x \in Sids \ {s} : sess'[x] = sess[x]
      /\ sess'[s].info = u /\ sess'[s].context = was.context /\ sess'[s].menu = was.menu
      /\ sess'[s].over = was.over /\ sess'[s].muddled = (was.muddled \/ Attempting(s) # {})
  <2> DEFINE x == [was EXCEPT !.info = u, !.muddled = was.muddled \/ Attempting(s) # {}]
  <2>1. sess' = [sess EXCEPT ![s] = x]
    BY <1>1, Zenon DEF LoginBegin
  <2>2. /\ x.info = u /\ x.context = was.context /\ x.menu = was.menu /\ x.over = was.over
        /\ x.muddled = (was.muddled \/ Attempting(s) # {})
    BY <1>4 DEF Session
  <2> HIDE DEF x
  <2> QED
    BY <1>0, <2>1, <2>2 DEF TypesInv, SessionTypeOK
<1>6. ASSUME NEW o \in Tabs PROVE Own(o)'
  <2>1. CASE o = t
    BY <1>2, <1>5, <2>1 DEF Own
  <2>2. CASE o # t /\ sid[o] = s
    <3>1. InLogin(o) => o \in Attempting(s)
      BY <2>2 DEF InLogin, Attempting
    <3> QED
      BY <1>3, <1>5, <2>2, <3>1 DEF Own, InLogin
  <2>3. CASE o # t /\ sid[o] # s
    <3>1. CASE sid[o] \in Sids
      BY <1>3, <1>5, <2>3, <3>1, TabLeftAlone DEF InLogin
    <3>2. CASE sid[o] = None
      BY <1>3, <2>3, <3>2 DEF Own, Live
    <3> QED
      BY <1>0, <3>1, <3>2 DEF TypesInv, SessionTypeOK
  <2> QED
    BY <2>1, <2>2, <2>3
<1>7. Fine(s)'
  <2>1. t \in Attempting(s)'
    BY <1>2 DEF Attempting
  <2>2. \A o \in Tabs : Visits(o, s)' => Visits(o, s) /\ who'[o] = who[o] /\ who[o] \in Users
    BY <1>0, <1>2, VisitsStay DEF Visits, TypesInv
  <2>3. CASE Live(Named(t))
    <3>1. Fine(s) /\ s = Named(t) /\ was = sess[s] /\ Live(s)
      BY <1>1, <2>3 DEF AllInv, TruthInv
    <3>2. /\ \A v \in Users : MenuFits(sess[s], v, hadPages) => MenuFits(sess'[s], v, hadPages')
          /\ sess'[s].menu # None => menus'[sess'[s].menu.role] # None
      BY <1>0, <1>4, <1>5, <3>1, FitsStill DEF Fine
    <3>3. sess[s].context # None => sess[s].context \in Users
      BY <1>4, <3>1 DEF Session
    <3>4. ~sess[s].muddled => Visited(s)'
      BY <1>5, <2>2, <3>1, <3>2 DEF Fine, Visited
    <3> HIDE DEF was
    <3> QED
      BY <1>5, <2>1, <3>1, <3>2, <3>3, <3>4 DEF Fine
  <2>4. CASE ~Live(Named(t))
    <3>1. was = Empty /\ s = made + 1
      BY <1>1, <2>4
    <3>2. sess'[s].context = None /\ sess'[s].menu = None
      BY <1>5, <3>1 DEF Empty
    <3>3. \A o \in Tabs : ~Visits(o, s)
      BY <1>0, <3>1, SessionConstants DEF Visits, TypesInv, SessionTypeOK, Given
    <3> QED
      BY <2>2, <3>2, <3>3 DEF Fine, Visited
  <2> QED
    BY <2>3, <2>4
<1>8. ASSUME NEW x \in Sids \ {s} PROVE Fine(x)'
  <2>1. \A o \in Attempting(x) : o \in Attempting(x)'
    BY <1>0, <1>2, AttemptsStay DEF InLogin
  <2>2. \A o \in Tabs : Visits(o, x)' => Visits(o, x) /\ who'[o] = who[o]
    BY <1>0, <1>2, VisitsStay
  <2> QED
    BY <1>5, <2>1, <2>2, SessionLeftAlone
<1> QED
  BY <1>6, <1>7, <1>8 DEF TruthInv, OwnInv


(* The end of a request, in the session it worked on: a login hands on the *)
(* user it began with, any other request only what was its own.            *)
LEMMA ReplyFine ==
  ASSUME AllInv, HadKept, NEW t \in Tabs, Reply(t), NEW s \in Sids, s = sid[t], Live(s)
  PROVE  Fine(s)'
<1>1. TypesInv /\ Fine(s) /\ Own(t) /\ Alone(t) /\ MenusInv /\ Working(t)
  BY DEF AllInv, TruthInv, OwnInv, PrivateInv, Working
<1>2. PICK u \in Users : u = who[t]
  BY <1>1, ReplyLeavesTab
<1>3. PICK x \in Session : x = sess[s]
  BY <1>1, Standing
<1>4. PICK y \in Session \cup {None} : y = sess'[s]
  BY <1>1, Replied
<1>5. y.info = x.info /\ y.over = x.over /\ y.muddled = x.muddled /\ Ends(t, x, y)
  BY <1>1, <1>3, <1>4, Replied
<1>6. \A o \in Tabs : Visits(o, s)' => o # t /\ Visits(o, s) /\ who'[o] = who[o] /\ who[o] \in Users
  BY <1>1, ReplyLeavesTab, VisitsStay DEF Visits, TypesInv
<1>7. ~InLogin(t) => (Attempting(s)' = {} => Attempting(s) = {})
  BY <1>1, AttemptsStay
<1>8. x.context # None => x.context \in Users
  BY DEF Session
<1>9. /\ x.menu # None => menus[x.menu.role] # None
      /\ ~x.muddled =>
           /\ x.context # None => MenuFits(x, x.context, hadPages)
           /\ x.context # None /\ Attempting(s) = {} /\ ~x.parted => x.context = x.info
           /\ \A o \in Tabs : Visits(o, s) => x.context \in {None, who[o]} /\ MenuFits(x, who[o], hadPages)
           /\ \A o \in Tabs : Visits(o, s) /\ Visits(t, s) => who[o] = u
  BY <1>1, <1>2, <1>3 DEF Fine, Visited
<1>10. \A o, p \in Tabs : ~x.muddled /\ Visits(o, s) /\ Visits(p, s) => who[o] = who[p]
  BY <1>1, <1>3 DEF Fine, Visited
<1>11. ASSUME y.menu # None => menus'[y.menu.role] # None,
              ~x.muddled /\ y.context # None => MenuFits(y, y.context, hadPages'),
              ~x.muddled /\ y.context # None /\ Attempting(s)' = {} /\ ~y.parted => y.context = x.info,
              ~x.muddled =>
                \A o \in Tabs : Visits(o, s)' =>
                  y.context \in {None, who[o]} /\ MenuFits(y, who[o], hadPages')
       PROVE  Fine(s)'
  BY <1>4, <1>5, <1>6, <1>10, <1>11 DEF Fine, Visited
<1>12. ASSUME y.menu = x.menu
       PROVE  /\ \A v \in Users : MenuFits(x, v, hadPages) => MenuFits(y, v, hadPages')
              /\ y.menu # None => menus'[y.menu.role] # None
  BY <1>1, <1>5, <1>9, <1>12, FitsStill
<1>13. CASE /\ stage[t] = "password" /\ y.menu = x.menu
            /\ \/ y.context = None
               \/ (x.muddled \/ y.context = x.context) /\ (y.parted \/ y.context \in {None, x.info})
  BY <1>6, <1>8, <1>9, <1>11, <1>12, <1>13
<1>14. CASE stage[t] = "save" /\ y.menu = x.menu /\ y.context = who[t]
  <2>1. InLogin(t) /\ Untold(t)
    BY <1>14 DEF InLogin, Untold
  <2>2. /\ x.muddled \/ (x.info = u /\ (x.menu = None \/ x.over))
        /\ \A o \in Tabs \ {t} : ~Visits(o, s)
    BY <1>1, <1>2, <1>3, <1>14, <2>1 DEF Own, Alone, Visits
  <2> QED
    BY <1>2, <1>5, <1>6, <1>11, <1>12, <1>14, <2>2 DEF MenuFits
<1>15. ASSUME stage[t] \in {"page", "menu"}, Back(x, y, who[t]),
              ~x.muddled => MenuFits(y, u, hadPages'),
              y.menu = x.menu \/ y.menu.role = u,
              y.menu # None => menus'[y.menu.role] # None
       PROVE  Fine(s)'
  <2>1. Visits(t, s) /\ ~InLogin(t)
    BY <1>15 DEF Visits, InLogin
  <2>2. ~x.muddled => y.context \in {None, u}
    BY <1>2, <1>9, <1>15, <2>1 DEF Back
  <2>3. ~x.muddled => \A o \in Tabs : Visits(o, s)' => who[o] = u
    BY <1>6, <1>9, <2>1
  <2>4. ~x.muddled /\ y.context # None /\ Attempting(s)' = {} /\ ~y.parted => y.context = x.info
    BY <1>2, <1>7, <1>9, <1>15, <2>1 DEF Back
  <2> QED
    BY <1>11, <1>15, <2>2, <2>3, <2>4
<1>16. CASE stage[t] = "page" /\ y.menu = x.menu /\ Back(x, y, who[t])
  <2>1. Visits(t, s)
    BY <1>16 DEF Visits
  <2> QED
    BY <1>2, <1>9, <1>12, <1>15, <1>16, <2>1
<1>17. CASE stage[t] = "menu" /\ y.menu = [role |-> who[t], pages |-> found[t]] /\ Back(x, y, who[t])
  <2>1. /\ SetMenu(t) /\ found[t] \in hadPages[u] /\ UNCHANGED hadPages
        /\ [role |-> who[t], pages |-> found[t]] # None
    BY <1>1, <1>2, <1>17, SessionConstants
       DEF Reply, WrongPassword, LogFails, Save, PageEnd, SetMenu, MenusInv, TypesInv, SessionTypeOK
  <2>2. menus'[u] # None
    BY <1>1, <1>2, <2>1 DEF SetMenu, TypesInv, SessionTypeOK
  <2> QED
    BY <1>2, <1>15, <1>17, <2>1, <2>2 DEF MenuFits
<1> QED
  BY <1>5, <1>13, <1>14, <1>16, <1>17 DEF Ends

LEMMA ReplyTruth ==
  ASSUME AllInv, HadKept, NEW t \in Tabs, Reply(t) PROVE TruthInv'
<1>0. TypesInv /\ Working(t) /\ OwnInv /\ PrivateInv
  BY DEF AllInv, Working, TruthInv
<1>1. PICK s \in Sids : s = sid[t]
  BY <1>0, ReplyLeavesTab
<1>2. /\ sid'[t] = None /\ ~InLogin(t)' /\ stage'[t] = "idle"
      /\ \A o \in Tabs \ {t} : stage'[o] = stage[o] /\ who'[o] = who[o] /\ sid'[o] = sid[o]
  BY <1>0, ReplyLeavesTab DEF InLogin
<1>3. \A x \in Sids \ {s} : sess'[x] = sess[x]
  <2>1. ~Live(s) => UNCHANGED sess
    BY <1>0, <1>1, Replied
  <2>2. Live(s) => \A x \in Sids \ {s} : sess'[x] = sess[x]
    BY <1>0, <1>1, Replied
  <2> QED
    BY <2>1, <2>2
<1>4. Fine(s)'
  <2>1. ~Live(s) => ~Live(s)'
    BY <1>0, <1>1, Replied DEF Live
  <2> QED
    BY <1>1, <2>1, ReplyFine DEF Fine
<1>5. ASSUME NEW x \in Sids \ {s} PROVE Fine(x)'
  <2>1. \A o \in Attempting(x) : o \in Attempting(x)'
    BY <1>0, <1>1, AttemptsStay
  <2>2. \A o \in Tabs : Visits(o, x)' => Visits(o, x) /\ who'[o] = who[o]
    BY <1>0, <1>2, VisitsStay
  <2> QED
    BY <1>3, <2>1, <2>2, SessionLeftAlone
<1>6. Own(t)'
  BY <1>2 DEF Own
<1>7. ASSUME NEW o \in Tabs \ {t} PROVE Own(o)'
  <2>1. Own(o) /\ (InLogin(o)' <=> InLogin(o))
    BY <1>0, <1>2 DEF OwnInv, InLogin
  <2>2. CASE sid[o] \in Sids \ {s}
    BY <1>2, <1>3, <2>1, <2>2, TabLeftAlone
  <2>3. CASE sid[o] = None
    BY <1>2, <2>3 DEF Own, Live
  <2>4. CASE sid[o] = s
    <3>1. CASE ~Live(s)
      BY <1>0, <1>1, <1>2, <2>4, <3>1, Replied DEF Own, Live
    <3>2. CASE Live(s)
      <4>1. /\ sess'[s].info = sess[s].info /\ sess'[s].over = sess[s].over
            /\ sess'[s].muddled = sess[s].muddled /\ Ends(t, sess[s], sess'[s])
        BY <1>0, <1>1, <3>2, Replied
      <4>2. stage[o] # "save"
        BY <1>0, <1>1, <2>4, ReplyLeavesTab DEF PrivateInv, Alone, Untold, InLogin
      <4> QED
        BY <1>2, <2>1, <2>4, <3>2, <4>1, <4>2 DEF Own
    <3> QED
      BY <3>1, <3>2
  <2> QED
    BY <1>0, <2>2, <2>3, <2>4 DEF TypesInv, SessionTypeOK
<1> QED
  BY <1>4, <1>5, <1>6, <1>7 DEF TruthInv, OwnInv

LEMMA RegisterTruth ==
  ASSUME AllInv, HadKept, NEW t \in Tabs, Register(t) PROVE TruthInv'
<1> USE DEF roleVars
<1>0. TypesInv /\ Working(t)
  BY DEF AllInv, Working
<1>1. PICK s \in Sids : s = IF known[t] \/ ~Live(sid[t]) THEN made + 1 ELSE sid[t]
  BY DEF Register
<1>2. /\ stage[t] = "register" /\ stage'[t] = "save" /\ who'[t] = who[t] /\ sid'[t] = s
      /\ sid[t] \in Sids
  BY <1>0, <1>1 DEF Register, GoTo, TypesInv, SessionTypeOK
<1>3. \A o \in Tabs \ {t} : stage'[o] = stage[o] /\ who'[o] = who[o] /\ sid'[o] = sid[o]
  BY <1>0, Others
<1>4. /\ \A x \in Sids \ {s} : sess'[x] = IF x = sid[t] THEN None ELSE sess[x]
      /\ sess'[s].info = who[t] \/ sess'[s].muddled
      /\ sess'[s].menu = None \/ sess'[s].over
      /\ sess'[s].menu # None => menus'[sess'[s].menu.role] # None
  <2> DEFINE was == IF Live(sid[t]) THEN sess[sid[t]] ELSE [Empty EXCEPT !.muddled = TRUE]
             x == [was EXCEPT !.over = was.over \/ was.menu # None,
                              !.muddled = was.muddled \/ Attempting(sid[t]) # {t}]
  <2>1. sess' = [y \in Sids |-> IF y = s THEN x ELSE IF y = sid[t] THEN None ELSE sess[y]]
    BY <1>1, Zenon DEF Register
  <2>2. /\ was \in Session
        /\ was.info = who[t] \/ was.muddled
        /\ was.menu # None => menus[was.menu.role] # None
    <3>1. CASE Live(sid[t])
      <4>1. Own(t) /\ InLogin(t) /\ Fine(sid[t])
        BY <1>2 DEF AllInv, TruthInv, OwnInv, InLogin
      <4> QED
        BY <1>0, <3>1, <4>1, Standing DEF Own, Fine
    <3>2. CASE ~Live(sid[t])
      <4>1. was = [Empty EXCEPT !.muddled = TRUE]
        BY <3>2
      <4> HIDE DEF was
      <4> QED
        BY <4>1 DEF Empty, Session
    <3> QED
      BY <3>1, <3>2
  <2>3. UNCHANGED menus
    BY DEF Register
  <2> HIDE DEF was
  <2>4. /\ x.info = was.info /\ x.menu = was.menu /\ (was.muddled => x.muddled)
        /\ x.menu # None => x.over
    BY <2>2 DEF Session
  <2> HIDE DEF x
  <2>5. sess'[s] = x /\ \A y \in Sids \ {s} : sess'[y] = IF y = sid[t] THEN None ELSE sess[y]
    BY <2>1
  <2> QED
    BY <2>2, <2>3, <2>4, <2>5
<1>5. \A o \in Tabs \ {t} : sid[o] # s
  <2>1. \A o \in Tabs : sid[o] # made + 1
    BY <1>0, SessionConstants DEF TypesInv, SessionTypeOK, Given
  <2>2. Alone(t) /\ InLogin(t)
    BY <1>2 DEF AllInv, PrivateInv, InLogin
  <2> QED
    BY <1>1, <2>1, <2>2 DEF Alone, Untold
<1>6. Own(t)'
  BY <1>2, <1>4 DEF Own
<1>7. ASSUME NEW o \in Tabs \ {t} PROVE Own(o)'
  <2>1. CASE sid[o] \notin Sids \/ sid[o] = sid[t]
    BY <1>0, <1>3, <1>4, <1>5, <2>1 DEF Own, Live, TypesInv, SessionTypeOK
  <2>2. CASE sid[o] \in Sids /\ sid[o] # sid[t]
    BY <1>3, <1>4, <1>5, <2>2, TabLeftAlone DEF InLogin
  <2> QED
    BY <2>1, <2>2
<1>8. Fine(s)'
  <2>1. t \in Attempting(s)'
    BY <1>2 DEF Attempting
  <2>2. \A o \in Tabs : ~Visits(o, s)'
    BY <1>2, <1>3, <1>5 DEF Visits
  <2> QED
    BY <1>4, <2>1, <2>2 DEF Fine, MenuFits, Visited
<1>9. ASSUME NEW x \in Sids \ {s} PROVE Fine(x)'
  <2>1. CASE x = sid[t]
    BY <1>4, <2>1 DEF Fine, Live
  <2>2. CASE x # sid[t]
    <3>1. \A o \in Attempting(x) : o \in Attempting(x)'
      BY <1>0, <2>2, AttemptsStay
    <3>2. \A o \in Tabs : Visits(o, x)' => Visits(o, x) /\ who'[o] = who[o]
      BY <1>0, <1>2, VisitsStay
    <3> QED
      BY <1>4, <2>2, <3>1, <3>2, SessionLeftAlone
  <2> QED
    BY <2>1, <2>2
<1> QED
  BY <1>6, <1>7, <1>8, <1>9 DEF TruthInv, OwnInv

(* A menu from the cache goes into a session its browser names.            *)
LEMMA MenuFromCacheTruth ==
  ASSUME AllInv, HadKept, NEW t \in Tabs, MenuFromCache(t) PROVE TruthInv'
<1> USE DEF roleVars, tabVars
<1>0. TypesInv /\ MenusInv /\ OwnInv /\ PrivateInv
  BY DEF AllInv, TruthInv
<1>1. PICK s \in Sids : s = Named(t) /\ Live(s) /\ sess[s] \in Session
  BY <1>0, Standing DEF MenuFromCache, NeedsMenu
<1>2. UNCHANGED <<stage, who, sid, menus, hadPages>>
  BY DEF MenuFromCache
<1>3. PICK u \in Users : u = sess[s].context /\ menus[u] # None
  BY <1>1 DEF MenuFromCache, NeedsMenu, Session
<1>4. /\ \A x \in Sids \ {s} : sess'[x] = sess[x]
      /\ sess'[s].context = sess[s].context /\ sess'[s].info = sess[s].info
      /\ sess'[s].menu = menus[u] /\ sess'[s].over = sess[s].over
      /\ sess'[s].muddled = sess[s].muddled /\ sess'[s].parted = sess[s].parted
  <2>1. PICK x \in Session : x = sess[s]
    BY <1>1
  <2>2. sess' = [sess EXCEPT ![s] = [x EXCEPT !.menu = menus[u]]]
    BY <1>1, <1>3, <2>1 DEF MenuFromCache
  <2> QED
    BY <1>0, <2>1, <2>2 DEF TypesInv, SessionTypeOK, Session
<1>5. menus[u].role = u /\ menus[u].pages \in hadPages[u]
  BY <1>0, <1>3 DEF MenusInv
<1>6. \A x : /\ Attempting(x)' = Attempting(x)
             /\ \A o \in Tabs : Visits(o, x)' <=> Visits(o, x)
  BY <1>2 DEF Attempting, Visits
<1>7. ASSUME NEW o \in Tabs PROVE Own(o)'
  <2>1. Own(o) /\ Alone(o) /\ (InLogin(o)' <=> InLogin(o))
    BY <1>0, <1>2 DEF OwnInv, PrivateInv, InLogin
  <2>2. CASE sid[o] = s
    <3>1. stage[o] # "save"
      BY <1>0, <1>1, <2>1, <2>2, Standing DEF Alone, Untold, InLogin, Named
    <3> QED
      BY <1>1, <1>2, <1>4, <2>1, <2>2, <3>1 DEF Own
  <2>3. CASE sid[o] \in Sids \ {s}
    BY <1>2, <1>4, <2>1, <2>3, TabLeftAlone
  <2>4. CASE sid[o] = None
    BY <1>2, <2>4 DEF Own, Live
  <2> QED
    BY <1>0, <2>2, <2>3, <2>4 DEF TypesInv, SessionTypeOK
<1>8. Fine(s)'
  <2>1. Fine(s)
    BY DEF AllInv, TruthInv
  <2>2. ~sess[s].muddled => \A o \in Tabs : Visits(o, s) => who[o] = u
    BY <1>1, <1>3, <2>1, SessionConstants DEF Fine, Visited
  <2>3. sess'[s].menu # None /\ MenuFits(sess'[s], u, hadPages')
    BY <1>2, <1>3, <1>4, <1>5 DEF MenuFits
  <2> QED
    BY <1>1, <1>2, <1>3, <1>4, <1>5, <1>6, <2>1, <2>2, <2>3 DEF Fine, Visited
<1>9. \A x \in Sids \ {s} : Fine(x)'
  BY <1>2, <1>4, <1>6, SessionLeftAlone
<1> QED
  BY <1>7, <1>8, <1>9 DEF TruthInv, OwnInv

(* A request begins with the context of its session, and so with the user  *)
(* of every other one there.                                               *)
LEMMA VisitTruth ==
  ASSUME AllInv, HadKept, NEW t \in Tabs, CreateMenu(t) \/ PageBegin(t) PROVE TruthInv'
<1> USE DEF roleVars
<1>0. TypesInv /\ Working(t) /\ OwnInv
  BY DEF AllInv, Working, TruthInv
<1>1. PICK s \in Sids : s = Named(t) /\ Live(s) /\ sess[s] \in Session
  BY <1>0, Standing DEF CreateMenu, PageBegin, NeedsMenu
<1>2. PICK u \in Users : u = sess[s].context
  BY <1>1 DEF CreateMenu, PageBegin, NeedsMenu, Session
<1>3. /\ UNCHANGED <<sess, menus, hadPages>>
      /\ sid'[t] = s /\ who'[t] = u /\ stage[t] = "idle" /\ ~InLogin(t)'
  BY <1>0, <1>1, <1>2
     DEF CreateMenu, PageBegin, NeedsMenu, GoTo, TypesInv, SessionTypeOK, InLogin
<1>4. \A o \in Tabs \ {t} : stage'[o] = stage[o] /\ who'[o] = who[o] /\ sid'[o] = sid[o]
  BY <1>0, Others
<1>5. \A x \in Sids : \A o \in Attempting(x) : o \in Attempting(x)'
  BY <1>0, <1>3, AttemptsStay DEF InLogin
<1>6. ASSUME NEW o \in Tabs PROVE Own(o)'
  <2>1. CASE o = t
    BY <1>3, <2>1 DEF Own, InLogin
  <2>2. CASE o # t
    BY <1>3, <1>4, <2>2, TabLeftAlone DEF InLogin
  <2> QED
    BY <2>1, <2>2
<1>7. Fine(s)'
  <2>1. Fine(s)
    BY DEF AllInv, TruthInv
  <2>2. ~sess[s].muddled => \A o \in Tabs : Visits(o, s) => who[o] = u
    BY <1>1, <1>2, <2>1, SessionConstants DEF Fine, Visited
  <2>3. ~sess[s].muddled => \A o \in Tabs : Visits(o, s)' => who'[o] = u
    BY <1>3, <1>4, <2>2 DEF Visits
  <2>4. ~sess[s].muddled => MenuFits(sess[s], u, hadPages)
    BY <1>1, <1>2, <2>1, SessionConstants DEF Fine
  <2>5. Attempting(s)' = {} => Attempting(s) = {}
    BY <1>5
  <2> QED
    BY <1>1, <1>2, <1>3, <2>1, <2>3, <2>4, <2>5 DEF Fine, Visited
<1>8. ASSUME NEW x \in Sids \ {s} PROVE Fine(x)'
  <2>1. \A o \in Tabs : Visits(o, x)' => Visits(o, x) /\ who'[o] = who[o]
    BY <1>0, <1>3, VisitsStay
  <2> QED
    BY <1>3, <1>5, <2>1, SessionLeftAlone
<1> QED
  BY <1>6, <1>7, <1>8 DEF TruthInv, OwnInv

LEMMA StepKeepsTruth ==
  ASSUME AllInv, [SessionNext]_sessionVars PROVE TruthInv'
<1> USE DEF roleVars, tabVars
<1>0. TypesInv /\ HadKept
  BY HadStays DEF AllInv
<1>1. ASSUME UNCHANGED <<sess, sid, who>>,
             \A o \in Tabs : InLogin(o)' <=> InLogin(o),
             \A o \in Tabs : stage'[o] \in {"save", "page", "menu"} => stage'[o] = stage[o]
      PROVE  TruthInv'
  <2>1. \A s \in Sids : \A o \in Attempting(s) : o \in Attempting(s)'
    BY <1>1 DEF Attempting, InLogin
  <2>2. \A s \in Sids : \A o \in Tabs : Visits(o, s)' => Visits(o, s) /\ who'[o] = who[o]
    BY <1>1 DEF Visits
  <2>3. \A s \in Sids : Fine(s)'
    BY <1>0, <1>1, <2>1, <2>2, SessionLeftAlone
  <2>4. \A o \in Tabs : Own(o)'
    BY <1>1, TabLeftAlone
  <2> QED
    BY <2>3, <2>4 DEF TruthInv, OwnInv
<1>2. ASSUME NEW t \in Tabs, RightPassword(t) \/ Count(t) PROVE TruthInv'
  <2>1. /\ UNCHANGED <<sess, sid, who>> /\ InLogin(t)' /\ InLogin(t)
        /\ stage'[t] \in {"count", "register"}
    BY <1>0, <1>2 DEF RightPassword, Count, GoTo, InLogin, TypesInv, SessionTypeOK
  <2>2. \A o \in Tabs \ {t} : stage'[o] = stage[o]
    BY <1>0, <1>2, Others DEF Working
  <2> QED
    BY <1>1, <2>1, <2>2 DEF InLogin
<1>3. ASSUME NEW s \in Sids, Drop(s), UNCHANGED <<stage, who, sid>> PROVE TruthInv'
  <2>1. sess' = [sess EXCEPT ![s] = None]
    BY <1>3 DEF Drop
  <2>2. sess'[s] = None /\ \A x \in Sids \ {s} : sess'[x] = sess[x]
    BY <1>0, <2>1 DEF TypesInv, SessionTypeOK
  <2>3. \A x \in Sids : /\ Attempting(x)' = Attempting(x)
                        /\ \A o \in Tabs : Visits(o, x)' <=> Visits(o, x)
    BY <1>3 DEF Attempting, Visits
  <2>4. Fine(s)' /\ \A x \in Sids \ {s} : Fine(x)'
    BY <1>0, <1>3, <2>2, <2>3, SessionLeftAlone DEF Fine, Live
  <2>5. ASSUME NEW o \in Tabs PROVE Own(o)'
    <3>1. CASE sid[o] \in {s, None}
      BY <1>3, <2>2, <3>1 DEF Own, Live
    <3>2. CASE sid[o] \in Sids \ {s}
      BY <1>3, <2>2, <3>2, TabLeftAlone DEF InLogin
    <3> QED
      BY <1>0, <3>1, <3>2 DEF TypesInv, SessionTypeOK
  <2> QED
    BY <2>4, <2>5 DEF TruthInv, OwnInv
<1>4. ASSUME UNCHANGED <<sess, stage, who, sid>> PROVE TruthInv'
  BY <1>1, <1>4 DEF InLogin
<1>5. ASSUME NEW t \in Tabs, Expelled(t) \/ Logout(t) PROVE TruthInv'
  BY <1>0, <1>3, <1>5, Standing DEF Expelled, Logout
<1>6. ASSUME NEW s \in Sids, Timeout(s) PROVE TruthInv'
  BY <1>3, <1>6 DEF Timeout
<1>7. ASSUME NEW u \in Users, NEW pages \in SUBSET Pages, Assign(u, pages) PROVE TruthInv'
  BY <1>4, <1>7 DEF Assign
<1> QED
  BY <1>0, <1>2, <1>4, <1>5, <1>6, <1>7, LoginBeginTruth, ReplyTruth, RegisterTruth,
     MenuFromCacheTruth, VisitTruth
     DEF SessionNext, Reply, sessionVars

(* What a session does and what it shows are its user's, but for the cases *)
(* the property names.                                                     *)
THEOREM SessionsAreTheirUsers == SessionSpec => []SessionIsOfItsUser
<1>1. SessionInit => AllInv
  <2> SUFFICES ASSUME SessionInit PROVE AllInv
    OBVIOUS
  <2>1. PrivateInv /\ MenusInv
    BY DEF SessionInit, PrivateInv, Alone, Untold, InLogin, MenusInv
  <2>2. TruthInv
    BY DEF SessionInit, TruthInv, OwnInv, Own, Fine, Live
  <2> QED
    BY <2>1, <2>2, TypesInitially DEF AllInv
<1>2. AllInv /\ [SessionNext]_sessionVars => AllInv'
  BY StepKeepsTypes, StepKeepsPrivate, StepKeepsMenus, StepKeepsTruth DEF AllInv
<1>3. AllInv => SessionIsOfItsUser
  BY DEF AllInv, TruthInv, Fine, MenuFits, SessionIsOfItsUser, ActsForItsUser, MenuIsOfUser
<1> QED
  BY <1>1, <1>2, <1>3, PTL DEF SessionSpec

-----------------------------------------------------------------------------
(* ModuleMarks.                                                            *)

(* A thread that has a list in hand.                                       *)
Holds(t) == at[t] \in {"clear", "mark", "write"}

(* A list that is shared or held has been made, and the answer is empty    *)
(* until it is written.                                                    *)
ListsMade ==
  /\ shared # Nothing => marks[shared] # Nothing
  /\ \A t \in Askers : Holds(t) => /\ shared # Nothing
                                   /\ held[t] # Nothing /\ marks[held[t]] # Nothing
  /\ \A t \in Askers : at[t] \in {"mark", "write"} => granted[t] # Nothing
  /\ \A t \in Askers : at[t] \in {"load", "clear", "mark"} => written[t] = {}

KindInv == MarksTypeOK /\ ListsMade

(* What the list, or the answer, of an undisturbed thread looks like.      *)
Cleared(t) ==
  /\ \A r \in Resources \ left[t] : ~ marks[held[t]][r]
  /\ shared = held[t] \/ marks[shared] = Unmarked

Marked(t) ==
  /\ left[t] \subseteq granted[t]
  /\ \A r \in Resources : marks[held[t]][r] <=> r \in granted[t] \ left[t]

Writing(t) ==
  /\ \A r \in Resources : marks[held[t]][r] <=> r \in granted[t]
  /\ written[t] = granted[t] \ left[t]

StepDone(t) ==
  /\ at[t] = "clear" => Cleared(t)
  /\ at[t] = "mark" => Marked(t)
  /\ at[t] = "write" => Writing(t)
  /\ at[t] = "written" => written[t] = granted[t]

MarksInv == \A t \in Askers : disturbed[t] \/ StepDone(t)

-----------------------------------------------------------------------------
LEMMA UnmarkedType == Unmarked \in [Resources -> BOOLEAN] /\ Unmarked # Nothing
  BY MarkConstants DEF Unmarked

LEMMA InitKind == MarksInit => KindInv
  BY MarkConstants DEF MarksInit, KindInv, MarksTypeOK, ListsMade, Holds, Places

(* A held list whose marks change is still a list.                         *)
LEMMA MarkChanged ==
  ASSUME KindInv, NEW t \in Askers, Holds(t), NEW r \in Resources, NEW b \in BOOLEAN,
         marks' = [marks EXCEPT ![held[t]] = [@ EXCEPT ![r] = b]]
  PROVE  /\ marks' \in [Lists -> [Resources -> BOOLEAN] \cup {Nothing}]
         /\ \A l \in Lists : marks[l] # Nothing => marks'[l] # Nothing
         /\ \A l \in Lists : l # held[t] => marks'[l] = marks[l]
         /\ \A x \in Resources : marks'[held[t]][x] = IF x = r THEN b ELSE marks[held[t]][x]
<1>1. held[t] \in Lists /\ marks[held[t]] \in [Resources -> BOOLEAN]
  BY DEF KindInv, MarksTypeOK, ListsMade
<1>2. [marks[held[t]] EXCEPT ![r] = b] \in [Resources -> BOOLEAN]
  BY <1>1
<1>3. marks \in [Lists -> [Resources -> BOOLEAN] \cup {Nothing}]
  BY DEF KindInv, MarksTypeOK
<1> QED
  BY <1>1, <1>2, <1>3, MarkConstants

LEMMA NextKind == KindInv /\ [MarksNext]_markVars => KindInv'
<1>1. SUFFICES ASSUME KindInv, [MarksNext]_markVars PROVE KindInv'
  OBVIOUS
<1> USE DEF KindInv
<1>2. ASSUME NEW t \in Askers, NEW s \in (SUBSET Resources) \cup {Nothing}, Begin(t, s)
      PROVE  KindInv'
  BY <1>1, <1>2 DEF MarksTypeOK, ListsMade, Holds, Places, Begin, TakeList
<1>3. ASSUME NEW t \in Askers, LoadModules(t) PROVE KindInv'
  <2>1. PICK l \in Lists : /\ marks[l] = Nothing
                           /\ marks' = [marks EXCEPT ![l] = Unmarked]
                           /\ shared' = l /\ held' = [held EXCEPT ![t] = l]
    BY <1>3 DEF LoadModules
  <2>2. MarksTypeOK'
    BY <1>1, <1>3, <2>1, UnmarkedType DEF MarksTypeOK, Places, LoadModules
  <2>3. ListsMade'
    BY <1>1, <1>3, <2>1, UnmarkedType, MarkConstants
    DEF MarksTypeOK, ListsMade, Holds, LoadModules, Lists
  <2> QED
    BY <2>2, <2>3
<1>4. ASSUME NEW t \in Askers, NEW r \in Resources, ClearMark(t, r) PROVE KindInv'
  <2>1. Holds(t) /\ marks' = [marks EXCEPT ![held[t]] = [@ EXCEPT ![r] = FALSE]]
    BY <1>4 DEF ClearMark, Holds
  <2>2. MarksTypeOK'
    BY <1>1, <1>4, <2>1, MarkChanged DEF MarksTypeOK, ClearMark, Disturb
  <2>3. ListsMade'
    <3>1. \A l \in Lists : marks[l] # Nothing => marks'[l] # Nothing
      BY <1>1, <2>1, MarkChanged
    <3>2. UNCHANGED <<shared, at, held, granted, written>>
      BY <1>4 DEF ClearMark
    <3> QED
      BY <1>1, <3>1, <3>2 DEF MarksTypeOK, ListsMade, Holds
  <2> QED
    BY <2>2, <2>3
<1>5. ASSUME NEW t \in Askers, ReturnList(t) PROVE KindInv'
  BY <1>1, <1>5 DEF MarksTypeOK, ListsMade, Holds, Places, ReturnList
<1>6. ASSUME NEW t \in Askers, NEW r \in Resources, SetMark(t, r) PROVE KindInv'
  <2>1. Holds(t) /\ marks' = [marks EXCEPT ![held[t]] = [@ EXCEPT ![r] = TRUE]]
    BY <1>6 DEF SetMark, Holds
  <2>2. MarksTypeOK'
    BY <1>1, <1>6, <2>1, MarkChanged DEF MarksTypeOK, SetMark, Disturb
  <2>3. ListsMade'
    <3>1. \A l \in Lists : marks[l] # Nothing => marks'[l] # Nothing
      BY <1>1, <2>1, MarkChanged
    <3>2. UNCHANGED <<shared, at, held, granted, written>>
      BY <1>6 DEF SetMark
    <3> QED
      BY <1>1, <3>1, <3>2 DEF MarksTypeOK, ListsMade, Holds
  <2> QED
    BY <2>2, <2>3
<1>7. ASSUME NEW t \in Askers, Answer(t) PROVE KindInv'
  BY <1>1, <1>7 DEF MarksTypeOK, ListsMade, Holds, Places, Answer
<1>8. ASSUME NEW t \in Askers, NEW r \in Resources, WriteMark(t, r) PROVE KindInv'
  BY <1>1, <1>8 DEF MarksTypeOK, ListsMade, Holds, Places, WriteMark
<1>9. ASSUME NEW t \in Askers, EndAnswer(t) PROVE KindInv'
  BY <1>1, <1>9 DEF MarksTypeOK, ListsMade, Holds, Places, EndAnswer
<1>10. CASE UNCHANGED markVars
  BY <1>1, <1>10 DEF MarksTypeOK, ListsMade, Holds, markVars
<1> QED
  BY <1>1, <1>2, <1>3, <1>4, <1>5, <1>6, <1>7, <1>8, <1>9, <1>10
  DEF MarksNext, ShowRoleAuth, LoginTakesList

LEMMA KindHolds == MarksSpec => []KindInv
  BY InitKind, NextKind, PTL DEF MarksSpec

(* Every variable holds values of its kind.                                *)
THEOREM MarksTypes == MarksSpec => []MarksTypeOK
<1>1. KindInv => MarksTypeOK
  BY DEF KindInv
<1> QED
  BY <1>1, KindHolds, PTL

-----------------------------------------------------------------------------
LEMMA InitMarks == MarksInit => MarksInv
  BY DEF MarksInit, MarksInv, StepDone

(* What thread t does not see of a step of thread u: u changes no list of  *)
(* an undisturbed t, and the list it makes is a new one.                   *)
LEMMA OthersKeep ==
  ASSUME KindInv, NEW t \in Askers, disturbed[t] \/ StepDone(t),
         at'[t] = at[t], held'[t] = held[t], granted'[t] = granted[t],
         left'[t] = left[t], written'[t] = written[t],
         disturbed'[t] = disturbed[t],
         \/ disturbed[t] \/ ~ Holds(t)
         \/ UNCHANGED <<shared, marks>>
         \/ \E l \in Lists : /\ marks[l] = Nothing /\ shared' = l
                             /\ marks' = [marks EXCEPT ![l] = Unmarked]
  PROVE  (disturbed[t] \/ StepDone(t))'
<1>1. CASE disturbed[t] \/ ~ Holds(t)
  BY <1>1 DEF StepDone, Holds
<1>2. CASE UNCHANGED <<shared, marks>>
  BY <1>2 DEF StepDone, Cleared, Marked, Writing
<1>3. CASE /\ ~ disturbed[t] /\ Holds(t)
           /\ \E l \in Lists : /\ marks[l] = Nothing /\ shared' = l
                               /\ marks' = [marks EXCEPT ![l] = Unmarked]
  <2>1. PICK l \in Lists : /\ marks[l] = Nothing /\ shared' = l
                           /\ marks' = [marks EXCEPT ![l] = Unmarked]
    BY <1>3
  <2>2. held[t] \in Lists /\ held[t] # l
    BY <1>3, <2>1 DEF KindInv, MarksTypeOK, ListsMade
  <2>3. marks'[held[t]] = marks[held[t]] /\ marks'[shared'] = Unmarked
    BY <2>1, <2>2 DEF KindInv, MarksTypeOK
  <2> QED
    BY <1>3, <2>3 DEF StepDone, Cleared, Marked, Writing, Unmarked
<1> QED
  BY <1>1, <1>2, <1>3

LEMMA NextMarks == KindInv /\ MarksInv /\ [MarksNext]_markVars => MarksInv'
<1>1. SUFFICES ASSUME KindInv, MarksInv, [MarksNext]_markVars, NEW t \in Askers
               PROVE  (disturbed[t] \/ StepDone(t))'
  BY DEF MarksInv
<1>0. disturbed[t] \/ StepDone(t)
  BY <1>1 DEF MarksInv
<1>t. KindInv'
  BY <1>1, NextKind
<1>2. ASSUME NEW u \in Askers, NEW s \in (SUBSET Resources) \cup {Nothing}, Begin(u, s)
      PROVE  (disturbed[t] \/ StepDone(t))'
  <2>1. CASE u # t
    BY <1>0, <1>1, <1>2, <2>1, OthersKeep DEF Begin, TakeList, KindInv, MarksTypeOK
  <2>2. CASE u = t
    BY <1>1, <1>2, <2>2
    DEF Begin, TakeList, KindInv, MarksTypeOK, StepDone, Cleared
  <2> QED
    BY <2>1, <2>2
<1>3. ASSUME NEW u \in Askers, LoadModules(u)
      PROVE  (disturbed[t] \/ StepDone(t))'
  <2>1. PICK l \in Lists : /\ marks[l] = Nothing
                           /\ marks' = [marks EXCEPT ![l] = Unmarked]
                           /\ shared' = l /\ held' = [held EXCEPT ![u] = l]
    BY <1>3 DEF LoadModules
  <2>2. CASE u # t
    BY <1>0, <1>1, <1>3, <2>1, <2>2, OthersKeep DEF LoadModules, KindInv, MarksTypeOK
  <2>3. CASE u = t
    BY <1>1, <1>3, <2>1, <2>3
    DEF LoadModules, KindInv, MarksTypeOK, StepDone, Cleared
  <2> QED
    BY <2>2, <2>3
<1>4. ASSUME NEW u \in Askers, NEW r \in Resources, ClearMark(u, r)
      PROVE  (disturbed[t] \/ StepDone(t))'
  <2>1. CASE u # t
    BY <1>0, <1>1, <1>4, <2>1, OthersKeep
    DEF ClearMark, Disturb, Holds, KindInv, MarksTypeOK
  <2>2. CASE u = t
    <3>1. Holds(t) /\ marks' = [marks EXCEPT ![held[t]] = [@ EXCEPT ![r] = FALSE]]
      BY <1>4, <2>2 DEF ClearMark, Holds
    <3>2. at'[t] = "clear" /\ held'[t] = held[t] /\ left'[t] = left[t] \ {r}
          /\ disturbed'[t] = disturbed[t] /\ shared' = shared /\ at[t] = "clear"
      BY <1>1, <1>4, <2>2 DEF ClearMark, Disturb, KindInv, MarksTypeOK
    <3>3. disturbed[t] \/ Cleared(t)
      BY <1>0, <3>2 DEF StepDone
    <3>4. Cleared(t) => Cleared(t)'
      <4>1. \A x \in Resources : marks'[held[t]][x] = IF x = r THEN FALSE ELSE marks[held[t]][x]
        BY <1>1, <3>1, MarkChanged
      <4>2. shared # held[t] => marks'[shared] = marks[shared]
        BY <1>1, <3>1, MarkChanged DEF KindInv, MarksTypeOK, ListsMade
      <4> QED
        BY <3>2, <4>1, <4>2 DEF Cleared, Unmarked
    <3> QED
      BY <3>2, <3>3, <3>4 DEF StepDone
  <2> QED
    BY <2>1, <2>2
<1>5. ASSUME NEW u \in Askers, ReturnList(u)
      PROVE  (disturbed[t] \/ StepDone(t))'
  <2>1. CASE u # t
    BY <1>0, <1>1, <1>5, <2>1, OthersKeep DEF ReturnList, KindInv, MarksTypeOK
  <2>2. CASE u = t
    <3>1. /\ at[t] = "clear" /\ left[t] = {} /\ held'[t] = shared
          /\ UNCHANGED <<shared, marks, granted, disturbed>>
          /\ at'[t] \in {"idle", "mark"}
          /\ at'[t] = "mark" => left'[t] = granted[t]
      BY <1>1, <1>5, <2>2 DEF ReturnList, KindInv, MarksTypeOK
    <3>2. disturbed[t] \/ Cleared(t)
      BY <1>0, <3>1 DEF StepDone
    <3>3. Cleared(t) /\ at'[t] = "mark" => Marked(t)'
      BY <3>1 DEF Cleared, Marked, Unmarked
    <3> QED
      BY <3>1, <3>2, <3>3 DEF StepDone
  <2> QED
    BY <2>1, <2>2
<1>6. ASSUME NEW u \in Askers, NEW r \in Resources, SetMark(u, r)
      PROVE  (disturbed[t] \/ StepDone(t))'
  <2>1. CASE u # t
    BY <1>0, <1>1, <1>6, <2>1, OthersKeep
    DEF SetMark, Disturb, Holds, KindInv, MarksTypeOK
  <2>2. CASE u = t
    <3>1. Holds(t) /\ marks' = [marks EXCEPT ![held[t]] = [@ EXCEPT ![r] = TRUE]]
      BY <1>6, <2>2 DEF SetMark, Holds
    <3>2. /\ at[t] = "mark" /\ at'[t] = "mark" /\ held'[t] = held[t]
          /\ r \in left[t] /\ left'[t] = left[t] \ {r}
          /\ disturbed'[t] = disturbed[t] /\ granted' = granted
      BY <1>1, <1>6, <2>2 DEF SetMark, Disturb, KindInv, MarksTypeOK
    <3>3. disturbed[t] \/ Marked(t)
      BY <1>0, <3>2 DEF StepDone
    <3>4. \A x \in Resources : marks'[held[t]][x] = IF x = r THEN TRUE ELSE marks[held[t]][x]
      BY <1>1, <3>1, MarkChanged
    <3>5. Marked(t) => Marked(t)'
      BY <3>2, <3>4 DEF Marked
    <3> QED
      BY <3>2, <3>3, <3>5 DEF StepDone
  <2> QED
    BY <2>1, <2>2
<1>7. ASSUME NEW u \in Askers, Answer(u)
      PROVE  (disturbed[t] \/ StepDone(t))'
  <2>1. CASE u # t
    BY <1>0, <1>1, <1>7, <2>1, OthersKeep DEF Answer, KindInv, MarksTypeOK
  <2>2. CASE u = t
    BY <1>0, <1>1, <1>7, <2>2
    DEF Answer, KindInv, MarksTypeOK, ListsMade, StepDone, Marked, Writing
  <2> QED
    BY <2>1, <2>2
<1>8. ASSUME NEW u \in Askers, NEW r \in Resources, WriteMark(u, r)
      PROVE  (disturbed[t] \/ StepDone(t))'
  <2>1. CASE u # t
    BY <1>0, <1>1, <1>8, <2>1, OthersKeep DEF WriteMark, KindInv, MarksTypeOK
  <2>2. CASE u = t
    BY <1>0, <1>1, <1>8, <2>2
    DEF WriteMark, KindInv, MarksTypeOK, ListsMade, StepDone, Writing
  <2> QED
    BY <2>1, <2>2
<1>9. ASSUME NEW u \in Askers, EndAnswer(u)
      PROVE  (disturbed[t] \/ StepDone(t))'
  BY <1>0, <1>1, <1>9 DEF EndAnswer, KindInv, MarksTypeOK, StepDone, Writing, Cleared, Marked
<1>10. CASE UNCHANGED markVars
  BY <1>0, <1>10 DEF markVars, StepDone, Cleared, Marked, Writing
<1> QED
  BY <1>1, <1>2, <1>3, <1>4, <1>5, <1>6, <1>7, <1>8, <1>9, <1>10
  DEF MarksNext, ShowRoleAuth, LoginTakesList

(* An answer of showRoleAuth.do nobody disturbed marks the resources of    *)
(* its role and no others (getResourceModuleList, SystemConstant.java).    *)
THEOREM AnswerIsOfRole == MarksSpec => []MarksAreOfRole
<1>1. MarksInv => MarksAreOfRole
  BY DEF MarksInv, StepDone, MarksAreOfRole
<1> QED
  BY <1>1, KindHolds, InitMarks, NextMarks, PTL DEF MarksSpec

-----------------------------------------------------------------------------
(* The configuration cache.  That an answer or an entry was once committed *)
(* rests on every copy of a row on its way from the table to the map: what *)
(* a thread has selected, what the list holds, what the map holds.         *)
(* RowsKept says so of all of them, next to the types; a thread that puts  *)
(* has rows and a map to put into.                                         *)

CacheTypes ==
  /\ table \in Snapshots
  /\ list \in Snapshots \cup {Null}
  /\ byItem \in Maps \cup {Null}
  /\ maps \in [Maps -> Entries \cup {Null}]
  /\ byItem # Null => maps[byItem] \in Entries
  /\ step \in [Threads -> Steps]
  /\ after \in [Threads -> {"idle", "isEmpty", "check"}]
  /\ job \in [Threads -> Asks \cup {NoJob}]
  /\ rows \in [Threads -> Snapshots \cup {Null}]
  /\ todo \in [Threads -> SUBSET Items]
  /\ answer \in [Threads -> [item : Items \cup {Null}, value : Values \cup {Null}]]
  /\ had \in [Items -> SUBSET Values]

Once(row) == \A i \in Items : row[i] \in had[i]

RowsKept ==
  /\ Once(table)
  /\ list # Null => Once(list)
  /\ \A t \in Threads : rows[t] # Null => Once(rows[t])
  /\ byItem # Null => \A i \in Items : maps[byItem][i] \in had[i] \cup {Null}

FillersHave ==
  \A t \in Threads :
    /\ step[t] # "idle" => job[t] \in Asks
    /\ step[t] = "assign" => rows[t] # Null
    /\ step[t] = "publish" => list # Null
    /\ step[t] = "put" => rows[t] # Null /\ byItem # Null
    /\ step[t] \in {"check", "update"} => job[t].value \in Values
    /\ step[t] \in Filling /\ after[t] = "check" => job[t].value \in Values

CacheInv == CacheTypes /\ RowsKept /\ FillersHave

-----------------------------------------------------------------------------
(* The invariant holds when the application has started.                   *)
LEMMA CacheInitially == ConfigInit => CacheInv
<1> SUFFICES ASSUME ConfigInit PROVE CacheInv
  OBVIOUS
<1>1. CacheTypes
  BY ConfigConstants DEF ConfigInit, CacheTypes, Snapshots, Maps, Entries, Steps, Asks, NoJob
<1>2. RowsKept
  BY DEF ConfigInit, RowsKept, Once, Snapshots
<1>3. FillersHave
  BY DEF ConfigInit, FillersHave, Filling
<1> QED BY <1>1, <1>2, <1>3 DEF CacheInv

(* A getter or a check that begins, or goes on, changes no copy of a row.  *)
LEMMA BeginReadKeeps ==
  ASSUME CacheInv, NEW t \in Threads, NEW i \in Items, BeginRead(t, i)
  PROVE  CacheInv'
<1> USE DEF CacheInv, BeginRead, LoadOr, Enter, Go, memory
<1>0. [item |-> i, value |-> Null] \in Asks
  BY DEF Asks
<1>1. CacheTypes'
  BY <1>0 DEF CacheTypes, Steps, Filling, NoJob
<1>2. RowsKept'
  BY DEF RowsKept, Once
<1>3. FillersHave'
  BY <1>0 DEF FillersHave, CacheTypes, Filling
<1> QED BY <1>1, <1>2, <1>3

LEMMA BeginUpdateKeeps ==
  ASSUME CacheInv, NEW t \in Threads, NEW i \in Items, NEW v \in Values,
         BeginUpdate(t, i, v)
  PROVE  CacheInv'
<1> USE DEF CacheInv, BeginUpdate, LoadOr, Enter, Go, memory
<1>0. [item |-> i, value |-> v] \in Asks
  BY DEF Asks
<1>1. CacheTypes'
  BY <1>0 DEF CacheTypes, Steps, Filling, NoJob
<1>2. RowsKept'
  BY DEF RowsKept, Once
<1>3. FillersHave'
  BY <1>0 DEF FillersHave, CacheTypes, Filling
<1> QED BY <1>1, <1>2, <1>3

LEMMA ReadersKeep ==
  ASSUME CacheInv, NEW t \in Threads,
         AskIsEmpty(t) \/ AskContainsKey(t) \/ AskGet(t) \/ CheckUpdate(t)
  PROVE  CacheInv'
<1> USE DEF CacheInv, AskIsEmpty, AskContainsKey, AskGet, CheckUpdate, Return, ReadOn,
            Go, memory, locals
<1>1. \A i \in Items : Entry(i) \in Values \cup {Null}
  BY DEF Entry, CacheTypes, Entries
<1>2. job[t].item \in Items /\ step[t] # "idle"
  BY DEF CacheTypes, FillersHave, Asks
<1>3. CacheTypes'
  BY <1>1, <1>2 DEF CacheTypes, Steps
<1>4. RowsKept'
  BY DEF RowsKept, Once
<1>5. FillersHave'
  BY <1>2 DEF FillersHave, CacheTypes, Filling
<1> QED BY <1>3, <1>4, <1>5

(* The row an update writes has been committed by then.                    *)
LEMMA UpdateRowKeeps ==
  ASSUME CacheInv, NEW t \in Threads, UpdateRow(t)
  PROVE  CacheInv'
<1> USE DEF CacheInv, UpdateRow, Enter, Go, memory
<1>1. job[t].item \in Items /\ job[t].value \in Values
  BY DEF CacheTypes, FillersHave, Asks
<1>2. CacheTypes'
  BY <1>1 DEF CacheTypes, Steps, Filling, Snapshots
<1>3. RowsKept'
  BY <1>1 DEF RowsKept, Once, CacheTypes, Snapshots
<1>4. FillersHave'
  BY DEF FillersHave, CacheTypes, Filling
<1> QED BY <1>2, <1>3, <1>4

LEMMA SelectKeeps ==
  ASSUME CacheInv, NEW t \in Threads, Select(t)
  PROVE  CacheInv'
<1> USE DEF CacheInv, Select, Go, memory
<1>1. CacheTypes'
  BY DEF CacheTypes, Steps, Filling
<1>2. RowsKept'
  BY DEF RowsKept, Once, CacheTypes
<1>3. FillersHave'
  BY ConfigConstants DEF FillersHave, CacheTypes, Filling, Snapshots
<1> QED BY <1>1, <1>2, <1>3

LEMMA AssignListKeeps ==
  ASSUME CacheInv, NEW t \in Threads, AssignList(t)
  PROVE  CacheInv'
<1> USE DEF CacheInv, AssignList, Go, locals
<1>1. rows[t] # Null
  BY DEF FillersHave
<1>2. CacheTypes'
  BY <1>1 DEF CacheTypes, Steps, Filling
<1>3. RowsKept'
  BY <1>1 DEF RowsKept, Once
<1>4. FillersHave'
  BY <1>1 DEF FillersHave, CacheTypes, Filling
<1> QED BY <1>2, <1>3, <1>4

LEMMA PublishKeeps ==
  ASSUME CacheInv, NEW t \in Threads, Publish(t)
  PROVE  CacheInv'
<1> USE DEF CacheInv, Publish, Go
<1>1. FreshMap \in Maps /\ FreshMap # Null
  BY ConfigConstants DEF FreshMap, Maps
<1>2. NoEntries \in Entries /\ \A i \in Items : NoEntries[i] = Null
  BY DEF NoEntries, Entries
<1>3. list # Null
  BY DEF FillersHave
<1>4. CacheTypes'
  BY <1>1, <1>2, <1>3 DEF CacheTypes, Steps, Filling
<1>5. RowsKept'
  BY <1>1, <1>2, <1>3 DEF RowsKept, Once, CacheTypes
<1>6. FillersHave'
  BY <1>1, <1>3 DEF FillersHave, CacheTypes, Filling
<1> QED BY <1>4, <1>5, <1>6

(* A put leaves values of the rows and what was there, or nothing.         *)
LEMMA PutKeeps ==
  ASSUME CacheInv, NEW t \in Threads, NEW i \in Items, Put(t, i)
  PROVE  CacheInv'
<1> USE DEF CacheInv, Put
<1>1. rows[t] \in Snapshots /\ Once(rows[t]) /\ byItem \in Maps /\ maps[byItem] \in Entries
  BY DEF FillersHave, CacheTypes, RowsKept
<1>2. PICK m \in AfterPut(t, i) : maps' = [maps EXCEPT ![byItem] = m]
  OBVIOUS
<1>3. m \in Entries /\ \A j \in Items : m[j] \in had[j] \cup {Null}
  <2> DEFINE put == [maps[byItem] EXCEPT ![i] = rows[t][i]]
  <2>1. put \in Entries /\ \A j \in Items : put[j] \in had[j] \cup {Null}
    BY <1>1, ConfigConstants DEF Entries, Snapshots, Once, RowsKept, Maps
  <2>2. CASE m = put
    BY <2>1, <2>2
  <2>3. ASSUME NEW k \in Items, m = [put EXCEPT ![k] = Null]
        PROVE  m \in Entries /\ \A j \in Items : m[j] \in had[j] \cup {Null}
    BY <2>1, <2>3 DEF Entries
  <2> HIDE DEF put
  <2>4. m = put \/ \E k \in Items : m = [put EXCEPT ![k] = Null]
    BY DEF AfterPut, put
  <2> QED BY <2>2, <2>3, <2>4
<1>4. maps'[byItem] = m
  BY <1>1, <1>2 DEF CacheTypes
<1>5. CacheTypes'
  BY <1>1, <1>2, <1>3, <1>4 DEF CacheTypes
<1>6. RowsKept'
  BY <1>3, <1>4 DEF RowsKept, Once
<1>7. FillersHave'
  BY DEF FillersHave
<1> QED BY <1>5, <1>6, <1>7

LEMMA EndFillKeeps ==
  ASSUME CacheInv, NEW t \in Threads, EndFill(t)
  PROVE  CacheInv'
<1> USE DEF CacheInv, EndFill, Go, memory, locals
<1>1. CacheTypes'
  BY DEF CacheTypes, Steps
<1>2. RowsKept'
  BY DEF RowsKept, Once
<1>3. FillersHave'
  BY DEF FillersHave, CacheTypes, Filling
<1> QED BY <1>1, <1>2, <1>3

LEMMA CacheStep == CacheInv /\ [ConfigNext]_configVars => CacheInv'
<1> SUFFICES ASSUME CacheInv, [ConfigNext]_configVars PROVE CacheInv'
  OBVIOUS
<1>1. CASE UNCHANGED configVars
  BY <1>1 DEF CacheInv, CacheTypes, RowsKept, Once, FillersHave, configVars, memory, locals
<1>2. CASE ConfigNext
  BY <1>2, BeginReadKeeps, BeginUpdateKeeps, ReadersKeep, UpdateRowKeeps, SelectKeeps,
     AssignListKeeps, PublishKeeps, PutKeeps, EndFillKeeps DEF ConfigNext
<1> QED BY <1>1, <1>2

-----------------------------------------------------------------------------
(* The same steps on the abstract table.                                   *)
LEMMA InitImplements == ConfigInit => Store!Init
  BY DEF ConfigInit, Store!Init, Store!NoAnswer, Entry, Snapshots, NoJob

LEMMA StepImplements ==
  ASSUME CacheInv, [ConfigNext]_configVars
  PROVE  [Store!Next]_<<had, [i \in Items |-> Entry(i)], answer>>
<1> DEFINE cache == [i \in Items |-> Entry(i)]
<1> DEFINE Same == UNCHANGED <<had, cache, answer>>
<1>0. UNCHANGED <<byItem, maps>> => UNCHANGED cache
  BY DEF Entry
<1>1. CASE UNCHANGED configVars
  <2>1. Same
    BY <1>0, <1>1 DEF configVars, memory
  <2> QED BY <2>1
<1>2. ASSUME NEW t \in Threads, NEW i \in Items, BeginRead(t, i)
      PROVE  Store!Forget(t)
  BY <1>0, <1>2 DEF BeginRead, LoadOr, Enter, Go, memory, Store!Forget, Store!NoAnswer, NoJob
<1>3. ASSUME NEW t \in Threads, NEW i \in Items, NEW v \in Values, BeginUpdate(t, i, v)
      PROVE  Store!Forget(t)
  BY <1>0, <1>3 DEF BeginUpdate, LoadOr, Enter, Go, memory, Store!Forget, Store!NoAnswer, NoJob
<1>4. ASSUME NEW t \in Threads,
             AskIsEmpty(t) \/ AskContainsKey(t) \/ AskGet(t) \/ CheckUpdate(t)
      PROVE  (\E i \in Items : Store!Answer(t, i)) \/ Same
  <2>1. job[t].item \in Items
    BY <1>4 DEF CacheInv, FillersHave, Asks, AskIsEmpty, AskContainsKey, AskGet, CheckUpdate
  <2>2. ASSUME Return(t) PROVE Store!Answer(t, job[t].item)
    BY <1>0, <2>1, <2>2 DEF Return, memory, Store!Answer
  <2>3. ASSUME ReadOn(t, "containsKey") \/ ReadOn(t, "get") \/ CheckUpdate(t) PROVE Same
    BY <1>0, <2>3 DEF ReadOn, CheckUpdate, memory
  <2> QED BY <1>4, <2>1, <2>2, <2>3 DEF AskIsEmpty, AskContainsKey, AskGet
<1>5. ASSUME NEW t \in Threads, UpdateRow(t)
      PROVE  \E i \in Items, v \in Values : Store!Commit(i, v)
  <2>1. job[t].item \in Items /\ job[t].value \in Values
    BY <1>5 DEF CacheInv, FillersHave, Asks, UpdateRow
  <2>2. Store!Commit(job[t].item, job[t].value)
    BY <1>0, <1>5 DEF UpdateRow, Enter, Go, memory, Store!Commit
  <2> QED BY <2>1, <2>2
<1>6. ASSUME NEW t \in Threads, Select(t) \/ AssignList(t) \/ EndFill(t)
      PROVE  Same
  BY <1>0, <1>6 DEF Select, AssignList, EndFill, memory
<1>7. ASSUME NEW t \in Threads, Publish(t)
      PROVE  Store!Clear
  <2>1. FreshMap \in Maps /\ FreshMap # Null
    BY <1>7, ConfigConstants DEF FreshMap, Maps, Publish
  <2>2. \A i \in Items : Entry(i)' = Null
    BY <1>7, <2>1 DEF Publish, Entry, NoEntries, CacheInv, CacheTypes
  <2> QED BY <1>7, <2>2 DEF Publish, Store!Clear
<1>8. ASSUME NEW t \in Threads, NEW i \in Items, Put(t, i)
      PROVE  \E gone \in SUBSET Items : Store!Fill(i, gone)
  <2>1. rows[t] \in Snapshots /\ rows[t][i] \in had[i] /\ byItem # Null
        /\ byItem \in Maps /\ maps[byItem] \in Entries
    BY <1>8 DEF Put, CacheInv, FillersHave, CacheTypes, RowsKept, Once
  <2>2. PICK m \in AfterPut(t, i) : maps' = [maps EXCEPT ![byItem] = m]
    BY <1>8 DEF Put
  <2>3. PICK gone \in SUBSET Items :
          m = [j \in Items |-> IF j \in gone THEN Null
                              ELSE IF j = i THEN rows[t][i] ELSE maps[byItem][j]]
    <3>1. CASE m = [maps[byItem] EXCEPT ![i] = rows[t][i]]
      <4>1. m = [j \in Items |-> IF j \in {} THEN Null
                                ELSE IF j = i THEN rows[t][i] ELSE maps[byItem][j]]
        BY <2>1, <3>1 DEF Entries
      <4>2. {} \in SUBSET Items
        OBVIOUS
      <4> QED BY <4>1, <4>2
    <3>2. CASE \E k \in Items :
                 m = [[maps[byItem] EXCEPT ![i] = rows[t][i]] EXCEPT ![k] = Null]
      <4>1. PICK k \in Items :
              m = [[maps[byItem] EXCEPT ![i] = rows[t][i]] EXCEPT ![k] = Null]
        BY <3>2
      <4>2. m = [j \in Items |-> IF j \in {k} THEN Null
                                ELSE IF j = i THEN rows[t][i] ELSE maps[byItem][j]]
        BY <2>1, <4>1 DEF Entries
      <4>3. {k} \in SUBSET Items
        OBVIOUS
      <4> QED BY <4>2, <4>3
    <3> QED BY <2>2, <3>1, <3>2 DEF AfterPut
  <2>4. \A j \in Items : Entry(j) = maps[byItem][j] /\ Entry(j)' = m[j]
    BY <1>8, <2>1, <2>2 DEF Put, Entry, CacheInv, CacheTypes
  <2>5. cache' = [j \in Items |-> IF j \in gone THEN Null
                                 ELSE IF j = i THEN rows[t][i] ELSE cache[j]]
    BY <2>3, <2>4
  <2>6. Store!Fill(i, gone)
    BY <1>8, <2>1, <2>5 DEF Put, Store!Fill
  <2> QED BY <2>6
<1>9. CASE ConfigNext
  BY <1>2, <1>3, <1>4, <1>5, <1>6, <1>7, <1>8, <1>9 DEF ConfigNext, Store!Next
<1> QED BY <1>1, <1>9

(* Every entry and every answer of the configuration cache was once        *)
(* committed to its own row or is missing: the cache implements the        *)
(* abstract one (SystemConstant.setSysConfig and the getters).             *)
THEOREM CacheImplementsTable == ConfigSpec => StoreSpec
<1>1. ConfigSpec => []CacheInv
  BY CacheInitially, CacheStep, PTL DEF ConfigSpec
<1>2. ConfigInit => Store!Init
  BY InitImplements
<1>3. CacheInv /\ [ConfigNext]_configVars
        => [Store!Next]_<<had, [i \in Items |-> Entry(i)], answer>>
  BY StepImplements
<1> QED BY <1>1, <1>2, <1>3, PTL DEF ConfigSpec, StoreSpec, Store!Spec

-----------------------------------------------------------------------------
(* Freshness.  While no two fills have been under way at once there is one *)
(* filler at most, and what it has done so far is of the present table.    *)
FillsAlone ==
  ~crossed =>
    /\ \A t, u \in Threads : step[t] \in Filling /\ step[u] \in Filling => t = u
    /\ \A t \in Threads :
         /\ step[t] = "assign" => rows[t] = table
         /\ step[t] = "publish" => list = table
         /\ step[t] = "put" => /\ list = table /\ rows[t] = table
                              /\ \A i \in Items \ todo[t] : Entry(i) = table[i]

FreshInv == CacheInv /\ FillsAlone /\ FreshUnlessCrossed

LEMMA FreshInitially == ConfigInit => FillsAlone /\ FreshUnlessCrossed
  BY DEF ConfigInit, FillsAlone, FreshUnlessCrossed, Filling

(* What does not enter, leave or advance a fill changes nothing of it.     *)
LEMMA BeginFresh ==
  ASSUME FreshInv, NEW t \in Threads,
         (\E i \in Items : BeginRead(t, i))
           \/ \E i \in Items, v \in Values : BeginUpdate(t, i, v)
  PROVE  FillsAlone' /\ FreshUnlessCrossed'
<1>1. \A i \in Items : Entry(i)' = Entry(i)
  BY DEF BeginRead, BeginUpdate, memory, Entry
<1>2. CASE list = Null
  <2>1. step'[t] = "select" /\ \A u \in Threads \ {t} : step'[u] = step[u]
    BY <1>2 DEF BeginRead, BeginUpdate, LoadOr, Enter, Go, FreshInv, CacheInv, CacheTypes
  <2>2. ~crossed' => ~crossed /\ \A u \in Threads \ {t} : step[u] \notin Filling
    BY <1>2 DEF BeginRead, BeginUpdate, LoadOr, Enter
  <2>3. list' = list
    BY DEF BeginRead, BeginUpdate, memory
  <2> QED BY <1>2, <2>1, <2>2, <2>3 DEF FillsAlone, FreshUnlessCrossed, Filling
<1>3. CASE list # Null
  BY <1>1, <1>3 DEF FreshInv, CacheInv, CacheTypes, FillsAlone, FreshUnlessCrossed, Filling,
     BeginRead, BeginUpdate, LoadOr, Enter, Go, memory
<1> QED BY <1>2, <1>3

LEMMA ReadersFresh ==
  ASSUME FreshInv, NEW t \in Threads,
         AskIsEmpty(t) \/ AskContainsKey(t) \/ AskGet(t) \/ CheckUpdate(t)
  PROVE  FillsAlone' /\ FreshUnlessCrossed'
<1>1. \A i \in Items : Entry(i)' = Entry(i)
  BY DEF AskIsEmpty, AskContainsKey, AskGet, CheckUpdate, Return, ReadOn, memory, Entry
<1>2. step[t] \notin Filling /\ \E to \in Steps \ Filling : step' = [step EXCEPT ![t] = to]
  BY DEF AskIsEmpty, AskContainsKey, AskGet, CheckUpdate, Return, ReadOn, Go, Filling, Steps
<1>3. UNCHANGED <<table, list, rows, todo, crossed>>
  BY DEF AskIsEmpty, AskContainsKey, AskGet, CheckUpdate, Return, ReadOn, memory, locals
<1> QED BY <1>1, <1>2, <1>3 DEF FreshInv, CacheInv, CacheTypes, FillsAlone, FreshUnlessCrossed, Filling

LEMMA UpdateRowFresh ==
  ASSUME FreshInv, NEW t \in Threads, UpdateRow(t)
  PROVE  FillsAlone' /\ FreshUnlessCrossed'
<1>1. step'[t] = "select" /\ \A u \in Threads \ {t} : step'[u] = step[u]
  BY DEF UpdateRow, Enter, Go, FreshInv, CacheInv, CacheTypes
<1>2. ~crossed' => \A u \in Threads \ {t} : step[u] \notin Filling
  BY DEF UpdateRow, Enter
<1> QED BY <1>1, <1>2 DEF FillsAlone, FreshUnlessCrossed, Filling

LEMMA SelectFresh ==
  ASSUME FreshInv, NEW t \in Threads, Select(t)
  PROVE  FillsAlone' /\ FreshUnlessCrossed'
<1>1. \A i \in Items : Entry(i)' = Entry(i)
  BY DEF Select, memory, Entry
<1> QED BY <1>1 DEF Select, Go, memory, FreshInv, CacheInv, CacheTypes, FillsAlone, FreshUnlessCrossed, Filling

LEMMA AssignListFresh ==
  ASSUME FreshInv, NEW t \in Threads, AssignList(t)
  PROVE  FillsAlone' /\ FreshUnlessCrossed'
<1>1. \A i \in Items : Entry(i)' = Entry(i)
  BY DEF AssignList, Entry
<1> QED BY <1>1 DEF AssignList, Go, locals, FreshInv, CacheInv, CacheTypes, FillsAlone, FreshUnlessCrossed, Filling

LEMMA PublishFresh ==
  ASSUME FreshInv, NEW t \in Threads, Publish(t)
  PROVE  FillsAlone' /\ FreshUnlessCrossed'
<1>1. todo'[t] = Items /\ rows'[t] = list /\ step'[t] = "put"
  BY DEF Publish, Go, FreshInv, CacheInv, CacheTypes
<1>2. \A u \in Threads \ {t} :
        step'[u] = step[u] /\ todo'[u] = todo[u] /\ rows'[u] = rows[u]
  BY DEF Publish, Go, FreshInv, CacheInv, CacheTypes
<1> QED BY <1>1, <1>2 DEF Publish, FreshInv, FillsAlone, FreshUnlessCrossed, Filling

(* The only filler loses no entry.                                         *)
LEMMA PutFresh ==
  ASSUME FreshInv, NEW t \in Threads, NEW i \in Items, Put(t, i)
  PROVE  FillsAlone' /\ FreshUnlessCrossed'
<1> SUFFICES ASSUME ~crossed PROVE FillsAlone' /\ FreshUnlessCrossed'
  BY DEF Put, FillsAlone, FreshUnlessCrossed
<1>1. \A u \in Threads \ {t} : step[u] \notin Filling
  BY DEF Put, FreshInv, FillsAlone, Filling
<1>2. byItem \in Maps /\ byItem # Null /\ maps[byItem] \in Entries
  BY DEF Put, FreshInv, CacheInv, FillersHave, CacheTypes
<1>3. AfterPut(t, i) = {[maps[byItem] EXCEPT ![i] = rows[t][i]]}
  BY <1>1 DEF AfterPut, Filling
<1>4. maps'[byItem] = [maps[byItem] EXCEPT ![i] = rows[t][i]]
  BY <1>2, <1>3 DEF Put, FreshInv, CacheInv, CacheTypes
<1>5. \A j \in Items : Entry(j)' = IF j = i THEN rows[t][i] ELSE Entry(j)
  BY <1>2, <1>4 DEF Put, Entry, Entries
<1>6. todo'[t] = todo[t] \ {i}
  BY DEF Put, FreshInv, CacheInv, CacheTypes
<1>7. rows[t] = table /\ list = table /\ \A j \in Items \ todo[t] : Entry(j) = table[j]
  BY DEF Put, FreshInv, FillsAlone
<1>8. \A j \in Items \ todo'[t] : Entry(j)' = table[j]
  BY <1>5, <1>6, <1>7
<1> QED BY <1>1, <1>7, <1>8 DEF Put, FreshInv, FillsAlone, FreshUnlessCrossed, Filling

LEMMA EndFillFresh ==
  ASSUME FreshInv, NEW t \in Threads, EndFill(t)
  PROVE  FillsAlone' /\ FreshUnlessCrossed'
<1>1. \A i \in Items : Entry(i)' = Entry(i)
  BY DEF EndFill, memory, Entry
<1>2. after[t] \notin Filling
  BY DEF FreshInv, CacheInv, CacheTypes, Filling
<1>3. ~crossed => list = table /\ \A i \in Items : Entry(i) = table[i]
  BY DEF EndFill, FreshInv, FillsAlone
<1> QED BY <1>1, <1>2, <1>3 DEF EndFill, Go, memory, locals, FreshInv, CacheInv, CacheTypes, FillsAlone,
    FreshUnlessCrossed, Filling

LEMMA FreshStep == FreshInv /\ [ConfigNext]_configVars => FreshInv'
<1> SUFFICES ASSUME FreshInv, [ConfigNext]_configVars PROVE FillsAlone' /\ FreshUnlessCrossed'
  BY CacheStep DEF FreshInv
<1>1. CASE UNCHANGED configVars
  BY <1>1 DEF FreshInv, FillsAlone, FreshUnlessCrossed, Entry, configVars, memory, locals
<1>2. CASE ConfigNext
  BY <1>2, BeginFresh, ReadersFresh, UpdateRowFresh, SelectFresh, AssignListFresh,
     PublishFresh, PutFresh, EndFillFresh DEF ConfigNext
<1> QED BY <1>1, <1>2

(* Unless two fills have crossed, the configuration that readers find once *)
(* no fill is under way is the one in sys_config, whatever threads read,   *)
(* update and load, and however often.                                     *)
THEOREM CacheFresh == ConfigSpec => []FreshUnlessCrossed
<1>1. ConfigInit => FreshInv
  BY CacheInitially, FreshInitially DEF FreshInv
<1>2. FreshInv /\ [ConfigNext]_configVars => FreshInv'
  BY FreshStep
<1>3. FreshInv => FreshUnlessCrossed
  BY DEF FreshInv
<1> QED BY <1>1, <1>2, <1>3, PTL DEF ConfigSpec

-----------------------------------------------------------------------------
(* The operation log.                                                      *)
(* The entries of the log, wherever they are.                              *)
Logged == [no : Nat \ {0}, user : Actors \cup {Nobody}, ok : BOOLEAN]
LogEntries == sysLog \cup Pending

PoolInv ==
  /\ up \in BOOLEAN
  /\ workers \in Nat /\ workers <= Most
  /\ queue \in Seq(Logged)
  /\ running \subseteq Logged /\ IsFiniteSet(running) /\ Cardinality(running) <= workers
  /\ sysLog \subseteq Logged
  /\ lost \subseteq Logged \X {"stop", "write"}

(* No entry is forgotten: it stays, or it is lost for a reason.            *)
NoneForgotten ==
  /\ \A e \in LogEntries : e \in LogEntries' \/ \E why \in {"stop", "write"} : <<e, why>> \in lost'
  /\ lost \subseteq lost'

-----------------------------------------------------------------------------
(* The queue as a set.                                                     *)
LEMMA Appended ==
  ASSUME NEW S, NEW q \in Seq(S), NEW e \in S
  PROVE  ToSet(Append(q, e)) = ToSet(q) \cup {e}
<1>1. /\ Len(Append(q, e)) = Len(q) + 1 /\ Append(q, e)[Len(q) + 1] = e
      /\ \A i \in 1 .. Len(q) : Append(q, e)[i] = q[i]
      /\ DOMAIN Append(q, e) = 1 .. (Len(q) + 1) /\ DOMAIN q = 1 .. Len(q) /\ Len(q) \in Nat
  BY AppendProperties, LenProperties
<1> QED
  BY <1>1 DEF ToSet

LEMMA Taken ==
  ASSUME NEW S, NEW q \in Seq(S), q # <<>>
  PROVE  /\ Head(q) \in S /\ Tail(q) \in Seq(S)
         /\ ToSet(q) = {Head(q)} \cup ToSet(Tail(q))
<1>1. /\ Head(q) \in S /\ Tail(q) \in Seq(S) /\ Len(Tail(q)) = Len(q) - 1
      /\ \A i \in 1 .. Len(Tail(q)) : Tail(q)[i] = q[i + 1]
  BY HeadTailProperties
<1>2. /\ DOMAIN q = 1 .. Len(q) /\ Len(q) \in Nat /\ Len(q) # 0
      /\ DOMAIN Tail(q) = 1 .. Len(Tail(q))
  BY <1>1, LenProperties, EmptySeq
<1>3. Head(q) = q[1]
  BY <1>2 
<1>4. ToSet(q) \subseteq {Head(q)} \cup ToSet(Tail(q))
  <2> SUFFICES ASSUME NEW i \in 1 .. Len(q) PROVE q[i] \in {Head(q)} \cup ToSet(Tail(q))
    BY <1>2 DEF ToSet
  <2>1. CASE i = 1
    BY <1>3, <2>1
  <2>2. CASE i # 1
    <3>1. i - 1 \in 1 .. Len(Tail(q)) /\ Tail(q)[i - 1] = q[i]
      BY <1>1, <1>2, <2>2
    <3> QED
      BY <1>2, <3>1 DEF ToSet
  <2> QED
    BY <2>1, <2>2
<1>5. {Head(q)} \cup ToSet(Tail(q)) \subseteq ToSet(q)
  <2>1. \A i \in 1 .. Len(Tail(q)) : i + 1 \in 1 .. Len(q)
    BY <1>1, <1>2
  <2>2. 1 \in 1 .. Len(q)
    BY <1>2
  <2> QED
    BY <1>1, <1>2, <1>3, <2>1, <2>2 DEF ToSet
<1> QED
  BY <1>1, <1>4, <1>5

LEMMA QueuedAreLogged ==
  ASSUME PoolInv PROVE ToSet(queue) \subseteq Logged /\ LogEntries \subseteq Logged
<1>1. DOMAIN queue = 1 .. Len(queue) /\ \A i \in 1 .. Len(queue) : queue[i] \in Logged
  BY ElementOfSeq, LenProperties DEF PoolInv
<1> QED
  BY <1>1 DEF ToSet, LogEntries, Pending, PoolInv

-----------------------------------------------------------------------------
(* A set that gains an element, or loses one.                              *)
LEMMA OneMore ==
  ASSUME NEW S, IsFiniteSet(S), NEW x, NEW n \in Nat, Cardinality(S) <= n
  PROVE  IsFiniteSet(S \cup {x}) /\ Cardinality(S \cup {x}) <= n + 1
<1>1. Cardinality(S) \in Nat
  BY FS_CardinalityType
<1>2. /\ IsFiniteSet(S \cup {x})
      /\ Cardinality(S \cup {x}) = Cardinality(S) \/ Cardinality(S \cup {x}) = Cardinality(S) + 1
  BY FS_AddElement
<1> QED
  BY <1>1, <1>2

LEMMA OneMoreFits ==
  ASSUME NEW S, IsFiniteSet(S), NEW x, NEW n \in Nat, Cardinality(S) < n
  PROVE  IsFiniteSet(S \cup {x}) /\ Cardinality(S \cup {x}) <= n
<1>1. Cardinality(S) \in Nat
  BY FS_CardinalityType
<1>2. /\ IsFiniteSet(S \cup {x})
      /\ Cardinality(S \cup {x}) = Cardinality(S) \/ Cardinality(S \cup {x}) = Cardinality(S) + 1
  BY FS_AddElement
<1> QED
  BY <1>1, <1>2

LEMMA OneLess ==
  ASSUME NEW S, IsFiniteSet(S), NEW x, NEW n \in Nat, Cardinality(S) <= n
  PROVE  IsFiniteSet(S \ {x}) /\ Cardinality(S \ {x}) <= n
  BY FS_RemoveElement, FS_CardinalityType

(* A step of the executor's own threads adds no entry and forgets none.    *)
LEMMA PoolMoves ==
  ASSUME PoolInv, PoolNext
  PROVE  PoolInv' /\ LogEntries' \subseteq LogEntries /\ NoneForgotten
<1>0. ToSet(queue) \subseteq Logged
  BY QueuedAreLogged
<1>1. CASE WorkerTakes
  <2>1. /\ Head(queue) \in Logged /\ Tail(queue) \in Seq(Logged)
        /\ ToSet(queue) = {Head(queue)} \cup ToSet(Tail(queue))
    BY <1>1, Taken DEF WorkerTakes, PoolInv
  <2>2. IsFiniteSet(running') /\ Cardinality(running') <= workers
    BY <1>1, OneMoreFits DEF WorkerTakes, PoolInv
  <2> QED
    BY <1>1, <2>1, <2>2 DEF WorkerTakes, PoolInv, LogEntries, Pending, NoneForgotten
<1>2. CASE WorkerLeaves
  <2>0. Cardinality(running) \in Nat
    BY FS_CardinalityType DEF PoolInv
  <2>1. workers - 1 \in Nat /\ Cardinality(running) <= workers - 1 /\ workers - 1 <= Most
    BY <1>2, <2>0, PoolConstants DEF WorkerLeaves, PoolInv
  <2> QED
    BY <1>2, <2>1 DEF WorkerLeaves, PoolInv, LogEntries, Pending, NoneForgotten
<1>3. CASE StopPool
  <2>1. ToSet(queue') = {} /\ queue' \in Seq(Logged)
    BY <1>3 DEF StopPool, ToSet
  <2>2. lost' = lost \cup {<<e, "stop">> : e \in ToSet(queue)} /\ up' = FALSE
        /\ workers' = workers /\ running' = running /\ sysLog' = sysLog
    BY <1>3 DEF StopPool
  <2>3. lost' \subseteq Logged \X {"stop", "write"}
    BY <1>0, <2>2 DEF PoolInv
  <2>4. PoolInv'
    BY <2>1, <2>2, <2>3 DEF PoolInv
  <2>5. \A e \in ToSet(queue) : <<e, "stop">> \in lost'
    BY <2>2
  <2> QED
    BY <2>1, <2>2, <2>4, <2>5 DEF LogEntries, Pending, NoneForgotten
<1>4. ASSUME NEW e \in running, WorkerInserts(e)
      PROVE  PoolInv' /\ LogEntries' \subseteq LogEntries /\ NoneForgotten
  <2>1. IsFiniteSet(running') /\ Cardinality(running') <= workers
    BY <1>4, OneLess DEF WorkerInserts, PoolInv
  <2>2. running' = running \ {e} /\ queue' = queue /\ workers' = workers /\ up' = up
    BY <1>4 DEF WorkerInserts
  <2>3. CASE sysLog' = sysLog \cup {e} /\ UNCHANGED lost
    BY <1>4, <2>1, <2>2, <2>3 DEF PoolInv, LogEntries, Pending, NoneForgotten
  <2>4. CASE lost' = lost \cup {<<e, "write">>} /\ UNCHANGED sysLog
    BY <1>4, <2>1, <2>2, <2>4 DEF PoolInv, LogEntries, Pending, NoneForgotten
  <2> QED
    BY <1>4, <2>3, <2>4 DEF WorkerInserts
<1> QED
  BY <1>1, <1>2, <1>3, <1>4 DEF PoolNext

(* What saveSysLog does with an entry.                                     *)
Handed(e) == TakenByPool(e) \/ DoneByCaller(e) \/ FailsInCaller(e) \/ DroppedAfterStop(e)

LEMMA EntryHanded ==
  ASSUME PoolInv, NEW e \in Logged, Handed(e)
  PROVE  /\ PoolInv' /\ LogEntries' \subseteq LogEntries \cup {e} /\ NoneForgotten
         /\ e \in LogEntries' \/ \E why \in {"stop", "write"} : <<e, why>> \in lost'
<1>1. CASE TakenByPool(e)
  <2>1. /\ up' = up /\ sysLog' = sysLog /\ lost' = lost
    BY <1>1 DEF TakenByPool
  <2>2. CASE /\ workers < Core \/ (Len(queue) = Room /\ workers < Most)
             /\ workers' = workers + 1 /\ running' = running \cup {e}
             /\ UNCHANGED queue
    <3>1. workers' \in Nat /\ workers' <= Most
      BY <2>2, PoolConstants DEF PoolInv
    <3>2. IsFiniteSet(running') /\ Cardinality(running') <= workers'
      BY <2>2, OneMore DEF PoolInv
    <3> QED
      BY <2>1, <2>2, <3>1, <3>2 DEF PoolInv, LogEntries, Pending, NoneForgotten
  <2>3. CASE queue' = Append(queue, e) /\ UNCHANGED <<workers, running>>
    <3>1. queue' \in Seq(Logged) /\ ToSet(queue') = ToSet(queue) \cup {e}
      BY <2>3, Appended, AppendProperties DEF PoolInv
    <3> QED
      BY <2>1, <2>3, <3>1 DEF PoolInv, LogEntries, Pending, NoneForgotten
  <2> QED
    BY <1>1, <2>2, <2>3 DEF TakenByPool
<1>2. CASE DoneByCaller(e)
  BY <1>2 DEF DoneByCaller, PoolInv, LogEntries, Pending, NoneForgotten
<1>3. CASE FailsInCaller(e)
  BY <1>3 DEF FailsInCaller, PoolInv, LogEntries, Pending, NoneForgotten
<1>4. CASE DroppedAfterStop(e)
  BY <1>4 DEF DroppedAfterStop, PoolInv, LogEntries, Pending, NoneForgotten
<1> QED
  BY <1>1, <1>2, <1>3, <1>4 DEF Handed

-----------------------------------------------------------------------------
(* The handlers and the histories.                                         *)
Handler == [at : {"free", "check", "write", "log"}, no : Nat, id : Nat,
            op : {"none", "add", "update", "remove"},
            name : Labels \cup {Nobody}, user : Actors \cup {Nobody}, ok : BOOLEAN]

CatalogueTypeOK ==
  /\ material \in [Rows -> Labels \cup {Nobody}] /\ lastMaterial \in Nat
  /\ actor \in Actors \cup {Nobody}
  /\ handler \in [Servants -> Handler]
  /\ asked \in Nat /\ begunBy \in [1 .. asked -> Actors]
  /\ changed \subseteq 1 .. asked

(* A busy thread has a request of its own; until it has written, the       *)
(* request has changed nothing, and what it will log is what it did.       *)
OwnRequest(t) ==
  LET h == handler[t]
  IN /\ h.at = "free" => h = Free
     /\ h.at # "free" => /\ h.no \in 1 .. asked
                         /\ h.name \in Labels
                         /\ actor = begunBy[h.no] \/ h.no \in switched
                         /\ h.ok <=> h.no \in changed
     /\ h.at \in {"check", "write"} => ~ h.ok
     /\ \A o \in Servants \ {t} : h.at # "free" => handler[o].no # h.no

(* An entry is of a request no thread serves any more.                     *)
RightEntry(e) ==
  /\ e.no \in 1 .. asked
  /\ e.ok <=> e.no \in changed
  /\ e.user = begunBy[e.no] \/ e.no \in switched
  /\ \A t \in Servants : handler[t].no # e.no

(* No change is forgotten, and no name is given twice.                     *)
ChangeKept(n) ==
  \/ \E e \in LogEntries : e.no = n
  \/ \E l \in lost : l[1].no = n
  \/ \E t \in Servants : handler[t].no = n

NamesDiffer ==
  \A i, j \in Rows : material[i] = material[j] /\ material[i] # Nobody => i = j

CatalogueInv ==
  /\ PoolInv /\ CatalogueTypeOK
  /\ \A t \in Servants : OwnRequest(t)
  /\ \A e \in LogEntries : RightEntry(e)
  /\ \A n \in changed : ChangeKept(n)
  /\ NamesDiffer

(* What the steps that leave the executor alone need not look at.          *)
LEMMA PoolStays ==
  ASSUME PoolInv, UNCHANGED poolVars
  PROVE  PoolInv' /\ LogEntries' = LogEntries /\ lost' = lost
  BY DEF PoolInv, poolVars, LogEntries, Pending

LEMMA CatalogueInitially == CatalogueInit => CatalogueInv
<1> SUFFICES ASSUME CatalogueInit PROVE CatalogueInv
  OBVIOUS
<1>1. PoolInv /\ LogEntries = {}
  <2>1. ToSet(queue) = {} /\ queue \in Seq(Logged)
    BY DEF CatalogueInit, PoolInit, ToSet
  <2>2. IsFiniteSet(running) /\ Cardinality(running) = 0
    BY FS_EmptySet DEF CatalogueInit, PoolInit
  <2> QED
    BY <2>1, <2>2, PoolConstants DEF CatalogueInit, PoolInit, PoolInv, LogEntries, Pending
<1>2. Free \in Handler
  BY DEF Free, Handler
<1>3. CatalogueTypeOK
  <2>1. begunBy \in [1 .. asked -> Actors]
    BY DEF CatalogueInit
  <2> QED
    BY <1>2, <2>1 DEF CatalogueInit, CatalogueTypeOK
<1>4. \A t \in Servants : OwnRequest(t)
  BY DEF CatalogueInit, OwnRequest, Free
<1> QED
  BY <1>1, <1>3, <1>4 DEF CatalogueInit, CatalogueInv, NamesDiffer

-----------------------------------------------------------------------------
(* What a handler's step at thread t may do to handlers.                   *)
Fresh(k, op, i, n) ==
  [Free EXCEPT !.at = "check", !.no = k, !.op = op, !.id = i, !.name = n]

LEMMA NewHandler ==
  ASSUME NEW k \in Nat, NEW op \in {"add", "update", "remove"}, NEW i \in Nat, NEW n \in Labels
  PROVE  /\ Fresh(k, op, i, n) \in Handler
         /\ Fresh(k, op, i, n).at = "check" /\ Fresh(k, op, i, n).no = k
         /\ Fresh(k, op, i, n).name = n /\ ~ Fresh(k, op, i, n).ok
<1> DEFINE f1 == [Free EXCEPT !.at = "check"]
           f2 == [f1 EXCEPT !.op = op]
           f3 == [f2 EXCEPT !.id = i]
           f4 == [f3 EXCEPT !.name = n]
           f5 == [f4 EXCEPT !.no = k]
<1>1. Free \in Handler /\ Free.ok = FALSE
  BY DEF Free, Handler
<1> HIDE DEF Free
<1>2. f1 \in Handler /\ f1.at = "check" /\ f1.ok = FALSE
  BY <1>1 DEF Handler
<1> HIDE DEF f1
<1>3. f2 \in Handler /\ f2.at = "check" /\ f2.ok = FALSE
  BY <1>2 DEF Handler
<1> HIDE DEF f2
<1>4. f3 \in Handler /\ f3.at = "check" /\ f3.ok = FALSE
  BY <1>3 DEF Handler
<1> HIDE DEF f3
<1>5. f4 \in Handler /\ f4.at = "check" /\ f4.ok = FALSE /\ f4.name = n
  BY <1>4 DEF Handler
<1> HIDE DEF f4
<1>6. /\ f5 \in Handler
      /\ f5.at = "check" /\ f5.ok = FALSE /\ f5.name = n /\ f5.no = k
  BY <1>5 DEF Handler
<1>7. Fresh(k, op, i, n) = f5
  BY <1>1 DEF Fresh, f1, f2, f3, f4, f5, Handler
<1> QED
  BY <1>6, <1>7

LEMMA Begins ==
  ASSUME CatalogueInv, NEW t \in Servants, NEW op \in {"add", "update", "remove"},
         NEW i \in 0 .. MaxRows, NEW n \in Labels, BeginRequest(t, op, i, n)
  PROVE  CatalogueInv'
<1> DEFINE new == Fresh(asked', op, i, n)
<1>0. /\ handler[t].at = "free" /\ actor # Nobody
      /\ asked' = asked + 1 /\ begunBy' = Append(begunBy, actor)
      /\ handler' = [handler EXCEPT ![t] = new]
      /\ UNCHANGED <<poolVars, table1, sessionSide, changed>>
  BY DEF BeginRequest, Fresh
<1>n. /\ new.at = "check" /\ new.no = asked' /\ new.name = n /\ ~ new.ok
      /\ new \in Handler
  <2>1. i \in Nat
    BY CatalogueConstants
  <2>2. asked' \in Nat
    BY <1>0 DEF CatalogueInv, CatalogueTypeOK
  <2> QED
    BY <2>1, <2>2, NewHandler
<1> HIDE DEF new
<1>1. PoolInv' /\ LogEntries' = LogEntries /\ lost' = lost
  BY <1>0, PoolStays DEF CatalogueInv
<1>2. /\ asked \in Nat /\ asked' \in Nat /\ 1 .. asked \subseteq 1 .. asked'
      /\ asked' \in 1 .. asked' /\ asked' \notin 1 .. asked /\ 0 \notin 1 .. asked'
  BY <1>0 DEF CatalogueInv, CatalogueTypeOK
<1>3. /\ begunBy' \in [1 .. asked' -> Actors] /\ begunBy'[asked'] = actor
      /\ \A k \in 1 .. asked : begunBy'[k] = begunBy[k]
  <2>1. begunBy \in Seq(Actors) /\ Len(begunBy) = asked /\ actor \in Actors
    BY <1>0, SeqDef, LenProperties DEF CatalogueInv, CatalogueTypeOK
  <2>2. /\ begunBy' \in Seq(Actors) /\ Len(begunBy') = asked' /\ begunBy'[asked'] = actor
        /\ \A k \in 1 .. asked : begunBy'[k] = begunBy[k]
    BY <1>0, <2>1, AppendProperties
  <2>3. begunBy' \in [1 .. asked' -> Actors]
    BY <2>2, LenProperties, ElementOfSeq
  <2> QED
    BY <2>2, <2>3
<1>4. /\ handler'[t] = new /\ new \in Handler
      /\ \A o \in Servants \ {t} : handler'[o] = handler[o]
      /\ handler' \in [Servants -> Handler]
  BY <1>0, <1>n, <1>2 DEF CatalogueInv, CatalogueTypeOK
<1>5. CatalogueTypeOK'
  <2>1. material' = material /\ lastMaterial' = lastMaterial /\ actor' = actor
        /\ changed' = changed
    BY <1>0 DEF table1, sessionSide
  <2>2. changed' \subseteq 1 .. asked'
    BY <1>2, <2>1 DEF CatalogueInv, CatalogueTypeOK
  <2> QED
    BY <1>2, <1>3, <1>4, <2>1, <2>2 DEF CatalogueInv, CatalogueTypeOK, Rows
<1>6. /\ handler[t] = Free /\ changed \subseteq 1 .. asked
      /\ \A o \in Servants : handler[o].at = "free" => handler[o].no = 0
      /\ \A o \in Servants : handler[o].at # "free" => handler[o].no \in 1 .. asked
  BY <1>0 DEF CatalogueInv, CatalogueTypeOK, OwnRequest, Free
<1>7. \A o \in Servants : OwnRequest(o)'
  <2>1. OwnRequest(t)'
    BY <1>0, <1>n, <1>2, <1>3, <1>4, <1>6 DEF OwnRequest, sessionSide
  <2>2. ASSUME NEW o \in Servants \ {t} PROVE OwnRequest(o)'
    <3>1. /\ handler'[o] = handler[o] /\ OwnRequest(o) /\ UNCHANGED <<actor, switched, changed>>
          /\ handler[o].at # "free" => handler'[t].no # handler[o].no
      BY <1>0, <1>n, <1>2, <1>4, <1>6 DEF CatalogueInv, sessionSide
    <3>2. handler[o].at # "free" => /\ handler[o].no \in 1 .. asked /\ handler[o].no \in 1 .. asked'
                                    /\ begunBy'[handler[o].no] = begunBy[handler[o].no]
      BY <1>2, <1>3, <1>6
    <3>3. ASSUME handler[o].at # "free", NEW x \in Servants \ {o}
          PROVE  handler'[x].no # handler[o].no
      BY <1>4, <3>1, <3>3 DEF OwnRequest
    <3> QED
      BY <3>1, <3>2, <3>3 DEF OwnRequest, Free
  <2> QED
    BY <2>1, <2>2
<1>8. \A e \in LogEntries' : RightEntry(e)'
  BY <1>0, <1>1, <1>n, <1>2, <1>3, <1>4 DEF CatalogueInv, RightEntry, sessionSide
<1>9. \A k \in changed' : ChangeKept(k)'
  <2> SUFFICES ASSUME NEW k \in changed PROVE ChangeKept(k)'
    BY <1>0
  <2>1. k # handler[t].no /\ ChangeKept(k)
    BY <1>6, <1>2 DEF CatalogueInv, Free
  <2> QED
    BY <1>1, <1>4, <2>1 DEF ChangeKept
<1>10. NamesDiffer'
  BY <1>0 DEF CatalogueInv, NamesDiffer, table1, Rows
<1> QED
  BY <1>1, <1>5, <1>7, <1>8, <1>9, <1>10 DEF CatalogueInv

(* A step of thread t that keeps its request's number, or drops it, leaves *)
(* the other threads and the entries as they should be.                    *)
LEMMA OtherRequestsKeep ==
  ASSUME CatalogueInv, NEW t \in Servants, handler[t].at # "free",
         \A o \in Servants \ {t} : handler'[o] = handler[o],
         handler'[t].no \in {0, handler[t].no},
         changed \subseteq changed', changed' \subseteq changed \cup {handler[t].no},
         UNCHANGED <<actor, switched, asked, begunBy>>
  PROVE  /\ \A o \in Servants \ {t} : OwnRequest(o)'
         /\ \A e \in LogEntries : RightEntry(e)'
         /\ \A o \in Servants \ {t} : handler'[o].no # handler[t].no
<1>1. handler[t].no \in 1 .. asked /\ 0 \notin 1 .. asked
      /\ \A o \in Servants \ {t} : handler[o].no # handler[t].no
  BY DEF CatalogueInv, CatalogueTypeOK, OwnRequest
<1>2. \A o \in Servants \ {t} : OwnRequest(o)'
  <2> SUFFICES ASSUME NEW o \in Servants \ {t} PROVE OwnRequest(o)'
    OBVIOUS
  <2>1. OwnRequest(o) /\ handler'[o] = handler[o] /\ handler[o].no # handler[t].no
    BY <1>1 DEF CatalogueInv
  <2>2. handler[o].no \in changed' <=> handler[o].no \in changed
    BY <2>1
  <2>3. ASSUME handler[o].at # "free", NEW x \in Servants \ {o} PROVE handler'[x].no # handler[o].no
    <3>1. handler[o].no # 0
      BY <1>1, <2>1, <2>3 DEF OwnRequest
    <3>2. CASE x = t
      BY <2>1, <3>1, <3>2
    <3>3. CASE x # t
      BY <2>1, <2>3, <3>3 DEF OwnRequest
    <3> QED
      BY <3>2, <3>3
  <2>4. UNCHANGED actor /\ UNCHANGED switched /\ UNCHANGED asked /\ UNCHANGED begunBy
    OBVIOUS
  <2> QED
    BY <2>1, <2>2, <2>3, <2>4 DEF OwnRequest, Free
<1>3. \A e \in LogEntries : RightEntry(e)'
  <2> SUFFICES ASSUME NEW e \in LogEntries PROVE RightEntry(e)'
    OBVIOUS
  <2>1. RightEntry(e)
    BY DEF CatalogueInv
  <2>2. e.no # handler[t].no /\ e.no # 0 /\ (e.no \in changed' <=> e.no \in changed)
    BY <1>1, <2>1 DEF RightEntry
  <2>3. \A x \in Servants : handler'[x].no # e.no
    BY <2>1, <2>2 DEF RightEntry
  <2> QED
    BY <2>1, <2>2, <2>3 DEF RightEntry
<1> QED
  BY <1>1, <1>2, <1>3

LEMMA Checks ==
  ASSUME CatalogueInv, NEW t \in Servants, CheckRequest(t) PROVE CatalogueInv'
<1>0. /\ handler[t].at = "check" /\ handler[t] \in Handler /\ actor \in Actors \cup {Nobody}
      /\ UNCHANGED poolVars
      /\ material' = material /\ lastMaterial' = lastMaterial /\ actor' = actor
      /\ switched' = switched /\ asked' = asked /\ begunBy' = begunBy /\ changed' = changed
  BY DEF CheckRequest, CatalogueInv, CatalogueTypeOK, table1, sessionSide, requestVars
<1>1. PoolInv' /\ LogEntries' = LogEntries /\ lost' = lost
  BY <1>0, PoolStays DEF CatalogueInv
<1>2. /\ handler' \in [Servants -> Handler]
      /\ \A o \in Servants \ {t} : handler'[o] = handler[o]
      /\ handler'[t].at \in {"write", "log"}
      /\ handler'[t].no = handler[t].no /\ handler'[t].name = handler[t].name
      /\ handler'[t].ok = handler[t].ok
  BY <1>0 DEF CheckRequest, CatalogueInv, CatalogueTypeOK, Handler
<1>3. CatalogueTypeOK'
  BY <1>0, <1>2 DEF CatalogueInv, CatalogueTypeOK, Rows
<1>4. /\ \A o \in Servants \ {t} : OwnRequest(o)'
      /\ \A e \in LogEntries : RightEntry(e)'
      /\ \A o \in Servants \ {t} : handler'[o].no # handler[t].no
  BY <1>0, <1>2, OtherRequestsKeep
<1>5. OwnRequest(t)'
  <2>1. OwnRequest(t)
    BY DEF CatalogueInv
  <2> QED
    BY <1>0, <1>2, <1>4, <2>1 DEF OwnRequest
<1>6. \A n \in changed' : ChangeKept(n)'
  <2> SUFFICES ASSUME NEW n \in changed PROVE ChangeKept(n)'
    BY <1>0
  <2>1. ChangeKept(n) /\ \A o \in Servants : handler'[o].no = handler[o].no
    BY <1>2 DEF CatalogueInv
  <2> QED
    BY <1>1, <2>1 DEF ChangeKept
<1>7. NamesDiffer'
  BY <1>0 DEF CatalogueInv, NamesDiffer, Rows
<1> QED
  BY <1>1, <1>3, <1>4, <1>5, <1>6, <1>7 DEF CatalogueInv

(* The table's unique key keeps the names apart.                           *)
LEMMA RowKeepsNames ==
  ASSUME NamesDiffer, NEW t \in Servants, WriteRow(t)
  PROVE  NamesDiffer'
<1> DEFINE h == handler[t]
           i == IF h.op = "add" THEN lastMaterial + 1 ELSE h.id
           new == IF h.op = "remove" THEN Nobody ELSE h.name
<1>1. /\ i \in Rows
      /\ h.op # "remove" => Named1(h.name) \subseteq {i}
      /\ material' = material \/ material' = [material EXCEPT ![i] = new]
  BY DEF WriteRow
<1>2. CASE material' = material
  BY <1>2 DEF NamesDiffer, Rows
<1>3. CASE material' = [material EXCEPT ![i] = new]
  <2>1. \A j \in Rows : material[j] = new => new = Nobody \/ j = i
    BY <1>1 DEF Named1
  <2> HIDE DEF new, i
  <2>2. \A j \in Rows \ {i} : material'[j] = material[j]
    BY <1>3
  <2>3. \A j \in Rows : material'[j] = material'[i] /\ material'[i] # Nobody => j = i
    <3> SUFFICES ASSUME NEW j \in Rows \ {i}, material'[j] = material'[i], material'[i] # Nobody
                 PROVE  FALSE
      OBVIOUS
    <3>1. CASE i \in DOMAIN material
      BY <1>3, <2>1, <2>2, <3>1
    <3>2. CASE i \notin DOMAIN material
      BY <1>1, <1>3, <2>2, <3>2 DEF NamesDiffer
    <3> QED
      BY <3>1, <3>2
  <2> QED
    BY <2>2, <2>3 DEF NamesDiffer, Rows
<1> QED
  BY <1>1, <1>2, <1>3

LEMMA Writes ==
  ASSUME CatalogueInv, NEW t \in Servants, WriteRow(t) PROVE CatalogueInv'
<1> DEFINE there == handler'[t].ok
<1>0. /\ handler[t].at = "write" /\ handler[t] \in Handler
      /\ UNCHANGED poolVars
      /\ actor' = actor /\ switched' = switched /\ asked' = asked /\ begunBy' = begunBy
      /\ lastMaterial \in Nat /\ OwnRequest(t) /\ handler[t].no \in 1 .. asked
  BY DEF WriteRow, CatalogueInv, CatalogueTypeOK, OwnRequest, sessionSide, requestVars
<1>1. PoolInv' /\ LogEntries' = LogEntries /\ lost' = lost
  BY <1>0, PoolStays DEF CatalogueInv
<1>2. /\ handler' \in [Servants -> Handler]
      /\ \A o \in Servants \ {t} : handler'[o] = handler[o]
      /\ handler'[t].at = "log"
      /\ handler'[t].no = handler[t].no /\ handler'[t].name = handler[t].name
      /\ there \in BOOLEAN
      /\ changed' = IF there THEN changed \cup {handler[t].no} ELSE changed
  <2>1. PICK b \in BOOLEAN :
           /\ handler' = [handler EXCEPT ![t].at = "log", ![t].ok = b]
           /\ changed' = IF b THEN changed \cup {handler[t].no} ELSE changed
    BY DEF WriteRow
  <2> QED
    BY <2>1, <1>0 DEF CatalogueInv, CatalogueTypeOK, Handler
<1>3. /\ material' \in [Rows -> Labels \cup {Nobody}] /\ lastMaterial' \in Nat
  BY <1>0 DEF WriteRow, CatalogueInv, CatalogueTypeOK, OwnRequest
<1>3a. CatalogueTypeOK'
  BY <1>0, <1>2, <1>3 DEF CatalogueInv, CatalogueTypeOK, Rows
<1>4. /\ \A o \in Servants \ {t} : OwnRequest(o)'
      /\ \A e \in LogEntries : RightEntry(e)'
      /\ \A o \in Servants \ {t} : handler'[o].no # handler[t].no
  BY <1>0, <1>2, OtherRequestsKeep
<1>5. OwnRequest(t)'
  <2>1. handler[t].no \notin changed
    BY <1>0 DEF OwnRequest
  <2> QED
    BY <1>0, <1>2, <1>4, <2>1 DEF OwnRequest
<1>6. \A n \in changed' : ChangeKept(n)'
  <2> SUFFICES ASSUME NEW n \in changed' PROVE ChangeKept(n)'
    OBVIOUS
  <2>1. n = handler'[t].no \/ ChangeKept(n)
    BY <1>2 DEF CatalogueInv
  <2>2. \A o \in Servants : handler'[o].no = handler[o].no
    BY <1>2
  <2> QED
    BY <1>1, <2>1, <2>2 DEF ChangeKept
<1>7. NamesDiffer'
  BY RowKeepsNames DEF CatalogueInv
<1> QED
  BY <1>1, <1>3a, <1>4, <1>5, <1>6, <1>7 DEF CatalogueInv

(* A thread that has answered has no request.                              *)
LEMMA Frees ==
  ASSUME CatalogueInv, NEW t \in Servants, handler[t].at # "free", Answered(t),
         UNCHANGED <<table1, sessionSide, requestVars, changed>>
  PROVE  /\ CatalogueTypeOK' /\ NamesDiffer'
         /\ \A o \in Servants : OwnRequest(o)'
         /\ \A e \in LogEntries : RightEntry(e)'
         /\ \A o \in Servants : handler'[o].no # handler[t].no
         /\ \A o \in Servants : handler'[o].no = handler[o].no \/ o = t
<1>0. /\ material' = material /\ lastMaterial' = lastMaterial /\ actor' = actor
      /\ switched' = switched /\ asked' = asked /\ begunBy' = begunBy /\ changed' = changed
  BY DEF table1, sessionSide, requestVars
<1>1. /\ handler' \in [Servants -> Handler] /\ handler'[t] = Free
      /\ \A o \in Servants \ {t} : handler'[o] = handler[o]
  BY DEF Answered, CatalogueInv, CatalogueTypeOK, Handler, Free
<1>2. Free.no = 0 /\ Free.at = "free"
  BY DEF Free
<1>3. /\ \A o \in Servants \ {t} : OwnRequest(o)'
      /\ \A e \in LogEntries : RightEntry(e)'
      /\ \A o \in Servants \ {t} : handler'[o].no # handler[t].no
  BY <1>0, <1>1, <1>2, OtherRequestsKeep
<1>4. OwnRequest(t)'
  BY <1>1, <1>2 DEF OwnRequest, Free
<1>5. handler[t].no # 0
  BY DEF CatalogueInv, CatalogueTypeOK, OwnRequest
<1>6. CatalogueTypeOK' /\ NamesDiffer'
  BY <1>0, <1>1 DEF CatalogueInv, CatalogueTypeOK, NamesDiffer, Rows
<1> QED
  BY <1>1, <1>2, <1>3, <1>4, <1>5, <1>6

LEMMA Throws ==
  ASSUME CatalogueInv, NEW t \in Servants, WriteThrows(t) PROVE CatalogueInv'
<1>0. /\ handler[t].at = "write" /\ Answered(t) /\ UNCHANGED poolVars
      /\ UNCHANGED <<table1, sessionSide, requestVars, changed>> /\ changed' = changed
  BY DEF WriteThrows
<1>1. PoolInv' /\ LogEntries' = LogEntries /\ lost' = lost
  BY <1>0, PoolStays DEF CatalogueInv
<1>2. /\ CatalogueTypeOK' /\ NamesDiffer'
      /\ \A o \in Servants : OwnRequest(o)'
      /\ \A e \in LogEntries : RightEntry(e)'
      /\ \A o \in Servants : handler'[o].no = handler[o].no \/ o = t
  BY <1>0, Frees
<1>3. \A n \in changed' : ChangeKept(n)'
  <2> SUFFICES ASSUME NEW n \in changed PROVE ChangeKept(n)'
    BY <1>0
  <2>1. ChangeKept(n) /\ n # handler[t].no
    BY <1>0 DEF CatalogueInv, OwnRequest
  <2> QED
    BY <1>1, <1>2, <2>1 DEF ChangeKept
<1> QED
  BY <1>1, <1>2, <1>3 DEF CatalogueInv

LEMMA Logs ==
  ASSUME CatalogueInv, NEW t \in Servants, LogRequest(t) PROVE CatalogueInv'
<1>e. PICK e : e = [no |-> handler[t].no, user |-> actor, ok |-> handler[t].ok]
  OBVIOUS
<1>0. /\ handler[t].at = "log" /\ Answered(t) /\ Handed(e)
      /\ UNCHANGED <<table1, sessionSide, requestVars, changed>>
  BY <1>e DEF LogRequest, Handed
<1>0a. UNCHANGED changed /\ UNCHANGED switched /\ UNCHANGED asked /\ UNCHANGED begunBy
  BY <1>0 DEF sessionSide, requestVars
<1>1. OwnRequest(t) /\ handler[t] \in Handler /\ handler[t].no \in 1 .. asked
  BY <1>0 DEF CatalogueInv, CatalogueTypeOK, OwnRequest
<1>2. e \in Logged /\ e.no = handler[t].no /\ e.user = actor /\ e.ok = handler[t].ok
  BY <1>e, <1>1 DEF CatalogueInv, CatalogueTypeOK, Handler, Logged
<1>3. /\ PoolInv' /\ LogEntries' \subseteq LogEntries \cup {e} /\ NoneForgotten
      /\ e \in LogEntries' \/ \E why \in {"stop", "write"} : <<e, why>> \in lost'
  BY <1>0, <1>2, EntryHanded DEF CatalogueInv
<1>4. /\ CatalogueTypeOK' /\ NamesDiffer'
      /\ \A o \in Servants : OwnRequest(o)'
      /\ \A x \in LogEntries : RightEntry(x)'
      /\ \A o \in Servants : handler'[o].no # handler[t].no
      /\ \A o \in Servants : handler'[o].no = handler[o].no \/ o = t
  BY <1>0, Frees
<1>5. RightEntry(e)'
  BY <1>0, <1>0a, <1>1, <1>2, <1>4 DEF OwnRequest, RightEntry
<1>6. \A n \in changed' : ChangeKept(n)'
  <2> SUFFICES ASSUME NEW n \in changed PROVE ChangeKept(n)'
    BY <1>0a
  <2>1. CASE n = handler[t].no
    BY <1>2, <1>3, <2>1 DEF ChangeKept
  <2>2. CASE n # handler[t].no
    <3>1. ChangeKept(n)
      BY DEF CatalogueInv
    <3> QED
      BY <1>3, <1>4, <2>2, <3>1 DEF ChangeKept, NoneForgotten
  <2> QED
    BY <2>1, <2>2
<1> QED
  BY <1>3, <1>4, <1>5, <1>6 DEF CatalogueInv

LEMMA Switches ==
  ASSUME CatalogueInv, NEW u \in Actors \cup {Nobody}, SwitchActor(u) PROVE CatalogueInv'
<1>0. /\ actor' = u /\ switched' = switched \cup {handler[t].no : t \in Servants}
      /\ UNCHANGED poolVars
      /\ material' = material /\ lastMaterial' = lastMaterial /\ handler' = handler
      /\ asked' = asked /\ begunBy' = begunBy /\ changed' = changed
  BY DEF SwitchActor, table1, requestVars
<1>1. PoolInv' /\ LogEntries' = LogEntries /\ lost' = lost
  BY <1>0, PoolStays DEF CatalogueInv
<1>2. CatalogueTypeOK' /\ NamesDiffer'
  BY <1>0 DEF CatalogueInv, CatalogueTypeOK, NamesDiffer, Rows
<1>3. \A t \in Servants : OwnRequest(t)'
  BY <1>0 DEF CatalogueInv, OwnRequest, Free
<1>4. \A e \in LogEntries' : RightEntry(e)'
  BY <1>0, <1>1 DEF CatalogueInv, RightEntry
<1>5. \A n \in changed' : ChangeKept(n)'
  BY <1>0, <1>1 DEF CatalogueInv, ChangeKept
<1> QED
  BY <1>1, <1>2, <1>3, <1>4, <1>5 DEF CatalogueInv

LEMMA Pools ==
  ASSUME CatalogueInv, PoolNext, UNCHANGED <<table1, handler, sessionSide, requestVars, changed>>
  PROVE  CatalogueInv'
<1>0. /\ material' = material /\ lastMaterial' = lastMaterial /\ handler' = handler
      /\ actor' = actor /\ switched' = switched
      /\ asked' = asked /\ begunBy' = begunBy /\ changed' = changed
  BY DEF table1, sessionSide, requestVars
<1>1. PoolInv' /\ LogEntries' \subseteq LogEntries /\ NoneForgotten
  BY PoolMoves DEF CatalogueInv
<1>2. CatalogueTypeOK' /\ NamesDiffer' /\ \A t \in Servants : OwnRequest(t)'
  BY <1>0 DEF CatalogueInv, CatalogueTypeOK, NamesDiffer, OwnRequest, Free, Rows
<1>3. \A e \in LogEntries' : RightEntry(e)'
  BY <1>0, <1>1 DEF CatalogueInv, RightEntry
<1>4. \A n \in changed' : ChangeKept(n)'
  BY <1>0, <1>1 DEF CatalogueInv, ChangeKept, NoneForgotten
<1> QED
  BY <1>1, <1>2, <1>3, <1>4 DEF CatalogueInv

LEMMA CatalogueInvKept ==
  CatalogueInv /\ [CatalogueNext]_catalogueVars => CatalogueInv'
<1> SUFFICES ASSUME CatalogueInv, [CatalogueNext]_catalogueVars PROVE CatalogueInv'
  OBVIOUS
<1>1. CASE UNCHANGED catalogueVars
  <2>1. /\ UNCHANGED poolVars
        /\ material' = material /\ lastMaterial' = lastMaterial /\ handler' = handler
        /\ actor' = actor /\ switched' = switched
        /\ asked' = asked /\ begunBy' = begunBy /\ changed' = changed
    BY <1>1 DEF catalogueVars
  <2>2. PoolInv' /\ LogEntries' = LogEntries /\ lost' = lost
    BY <2>1, PoolStays DEF CatalogueInv
  <2>3. CatalogueTypeOK' /\ NamesDiffer' /\ \A t \in Servants : OwnRequest(t)'
    BY <2>1 DEF CatalogueInv, CatalogueTypeOK, NamesDiffer, OwnRequest, Free, Rows
  <2>4. \A e \in LogEntries' : RightEntry(e)'
    BY <2>1, <2>2 DEF CatalogueInv, RightEntry
  <2>5. \A n \in changed' : ChangeKept(n)'
    BY <2>1, <2>2 DEF CatalogueInv, ChangeKept
  <2> QED
    BY <2>2, <2>3, <2>4, <2>5 DEF CatalogueInv
<1>2. CASE CatalogueNext
  BY <1>2, Begins, Checks, Writes, Throws, Logs, Switches, Pools DEF CatalogueNext
<1> QED
  BY <1>1, <1>2

(* The invariant implies what the runs check.                              *)
LEMMA LogFollows == CatalogueInv => LogAgreesWithTable
<1> SUFFICES ASSUME CatalogueInv PROVE LogAgreesWithTable
  OBVIOUS
<1>1. changed \subseteq Numbers(sysLog \cup Pending) \cup {l[1].no : l \in lost}
                        \cup {handler[t].no : t \in Servants}
  BY DEF CatalogueInv, ChangeKept, Numbers, LogEntries
<1>2. \A e \in sysLog \cup Pending :
        /\ e.ok <=> e.no \in changed
        /\ e.user = begunBy[e.no] \/ e.no \in switched
  BY DEF CatalogueInv, RightEntry, LogEntries
<1>3. \A n \in Labels : Cardinality(Named1(n)) <= 1
  <2> SUFFICES ASSUME NEW n \in Labels PROVE Cardinality(Named1(n)) <= 1
    OBVIOUS
  <2>1. n # Nobody
    BY CatalogueConstants
  <2>2. \A i, j \in Named1(n) : i = j
    BY <2>1 DEF CatalogueInv, NamesDiffer, Named1
  <2>3. CASE Named1(n) = {}
    BY <2>3, FS_EmptySet
  <2>4. ASSUME NEW i \in Named1(n) PROVE Cardinality(Named1(n)) = 1
    <3>1. Named1(n) = {i}
      BY <2>2, <2>4
    <3> QED
      BY <3>1, FS_Singleton
  <2> QED
    BY <2>3, <2>4
<1> QED
  BY <1>1, <1>2, <1>3 DEF LogAgreesWithTable, CatalogueInv, PoolInv

(* What saveSysLog leaves behind agrees with the table material, whatever  *)
(* the executor's size and however requests, log-ins and failures fall     *)
(* together.                                                               *)
THEOREM LogIsRight == CatalogueSpec => []LogAgreesWithTable
<1>1. CatalogueSpec => []CatalogueInv
  BY CatalogueInitially, CatalogueInvKept, PTL DEF CatalogueSpec
<1> QED
  BY <1>1, LogFollows, PTL

-----------------------------------------------------------------------------
(* Attachments.  An upload is judged by int arithmetic ...                 *)
LEMMA LimitInBytes ==
  ASSUME NEW limit \in Nat
  PROVE  /\ InBytes(limit) \in Int /\ InBytes(limit) <= limit
         /\ limit < IntHalf => InBytes(limit) = limit
  <1>1. limit % IntSpan \in 0 .. IntSpan - 1 /\ limit % IntSpan <= limit
    BY DEF IntSpan
  <1>2. limit < IntHalf => limit % IntSpan = limit
    BY DEF IntSpan, IntHalf
  <1> QED
    BY <1>1, <1>2 DEF InBytes, IntSpan, IntHalf

(* ... and its file has a number of its own, which is with its thread, in  *)
(* a row, or an orphan.                                                    *)
Upload == [at : {"free", "size", "store", "record", "success", "error", "exception"},
           kind : UploadKinds, size : Nat, limit : Nat, file : Nat]

Recording(t) == receiving[t].at = "record"

AttachmentTypeOK ==
  /\ limitOf \in [{"image", "video"} -> Limits]
  /\ receiving \in [Uploaders -> Upload]
  /\ \E n \in Nat : onDisk = 1 .. n

FilesApart ==
  /\ \A t \in Uploaders :
       /\ receiving[t].at \in {"size", "store"} => receiving[t].file = 0
       /\ Recording(t) => receiving[t].file \in onDisk \ (fileRows \cup orphans)
       /\ \A o \in Uploaders \ {t} :
            Recording(t) /\ Recording(o) => receiving[t].file # receiving[o].file
  /\ fileRows \cup orphans \subseteq onDisk /\ fileRows \cap orphans = {}
  /\ \A f \in onDisk : f \in fileRows \cup orphans \/ \E t \in Uploaders :
       Recording(t) /\ receiving[t].file = f

Judged(u) ==
  /\ u.at \in {"store", "record", "success"} => u.size <= u.limit
  /\ u.at = "error" => u.size > u.limit \/ u.limit >= IntHalf

AttachmentInv ==
  /\ AttachmentTypeOK /\ FilesApart
  /\ \A t \in Uploaders : Judged(receiving[t])
  /\ \A t \in Uploaders : receiving[t].at = "success" => receiving[t].file \in fileRows

LEMMA AttachmentInitially == AttachmentInit => AttachmentInv
  <1> SUFFICES ASSUME AttachmentInit PROVE AttachmentInv
    OBVIOUS
  <1>1. onDisk = 1 .. 0
    BY DEF AttachmentInit
  <1>2. AttachmentTypeOK
    BY <1>1 DEF AttachmentInit, AttachmentTypeOK, Upload, Waiting0, UploadKinds
  <1>3. FilesApart
    BY DEF AttachmentInit, FilesApart, Recording, Waiting0
  <1> QED
    BY <1>2, <1>3 DEF AttachmentInit, AttachmentInv, Judged, Waiting0

LEMMA AttachmentStep == AttachmentInv /\ [AttachmentNext]_attachmentVars => AttachmentInv'
  <1> SUFFICES ASSUME AttachmentInv, [AttachmentNext]_attachmentVars PROVE AttachmentInv'
    OBVIOUS
  <1> USE AttachmentConstants
  <1>0. /\ receiving \in [Uploaders -> Upload] /\ limitOf \in [{"image", "video"} -> Limits]
        /\ AttachmentTypeOK /\ FilesApart
    BY DEF AttachmentInv, AttachmentTypeOK
  <1>1. ASSUME NEW t \in Uploaders, NEW kind \in UploadKinds, NEW size \in Sizes,
               Receive(t, kind, size)
        PROVE  AttachmentInv'
    <2>1. PICK u : u = [Waiting0 EXCEPT !.at = "size", !.kind = kind, !.size = size]
      OBVIOUS
    <2>2. Waiting0 \in Upload /\ Waiting0.file = 0
      BY DEF Waiting0, Upload, UploadKinds
    <2>3. u \in Upload /\ u.at = "size" /\ u.file = 0
      BY <2>1, <2>2 DEF Upload
    <2>4. /\ receiving' = [receiving EXCEPT ![t] = u] /\ u \in Upload
          /\ ~ Recording(t) /\ UNCHANGED <<limitOf, onDisk, fileRows, orphans>>
      BY <1>1, <2>1, <2>3 DEF Receive, Answers, Recording
    <2>5. receiving' \in [Uploaders -> Upload] /\ \A o \in Uploaders : Recording(o)' <=> Recording(o)
      BY <1>0, <2>4, <2>3 DEF Recording
    <2>6. FilesApart'
      BY <1>0, <2>4, <2>5, <2>3 DEF FilesApart, Recording
    <2> QED
      BY <1>0, <2>4, <2>5, <2>6, <2>3 DEF AttachmentInv, AttachmentTypeOK, Judged
  <1>2. ASSUME NEW t \in Uploaders, CheckFile(t) PROVE AttachmentInv'
    <2> DEFINE limit == LimitFor(receiving[t].kind)
    <2>1. limit \in Nat /\ receiving[t].size \in Nat
      BY <1>0 DEF LimitFor, Upload, UploadKinds
    <2>2. PICK next \in {"exception", "error", "store"} :
            /\ receiving' = [receiving EXCEPT ![t].limit = limit, ![t].at = next]
            /\ next = "error" => receiving[t].size > InBytes(limit)
            /\ next = "store" => ~ (receiving[t].size > InBytes(limit))
      BY <1>2 DEF CheckFile, TooBig
    <2>3. UNCHANGED <<limitOf, onDisk, fileRows, orphans>> /\ receiving[t].at = "size"
      BY <1>2 DEF CheckFile
    <2>4. /\ receiving'[t].at = next /\ receiving'[t].limit = limit
          /\ receiving'[t].size = receiving[t].size /\ receiving'[t].file = receiving[t].file
          /\ receiving' \in [Uploaders -> Upload]
          /\ \A o \in Uploaders \ {t} : receiving'[o] = receiving[o]
      BY <1>0, <2>1, <2>2 DEF Upload
    <2>5. Judged(receiving'[t])
      BY <2>1, <2>2, <2>4, LimitInBytes DEF Judged, IntHalf
    <2>6. \A o \in Uploaders : Recording(o)' <=> Recording(o)
      BY <2>2, <2>3, <2>4 DEF Recording
    <2>7. FilesApart'
      BY <1>0, <2>2, <2>3, <2>4, <2>6 DEF FilesApart, Recording
    <2> QED
      BY <1>0, <2>2, <2>3, <2>4, <2>5, <2>7 DEF AttachmentInv, AttachmentTypeOK, Judged
  <1>3. ASSUME NEW t \in Uploaders, StoreFile(t) PROVE AttachmentInv'
    <2>1. PICK n \in Nat : onDisk = 1 .. n
      BY <1>0 DEF AttachmentTypeOK
    <2>2. Cardinality(onDisk) = n
      <3>1. Cardinality(1 .. n) = IF 1 > n THEN 0 ELSE n - 1 + 1
        BY FS_Interval
      <3> QED
        BY <2>1, <3>1
    <2>3. /\ receiving[t].at = "store" /\ onDisk' = onDisk \cup {n + 1}
          /\ receiving' = [receiving EXCEPT ![t].at = "record", ![t].file = n + 1]
          /\ UNCHANGED <<limitOf, fileRows, orphans>>
      BY <1>3, <2>2 DEF StoreFile
    <2>4. n + 1 \notin onDisk /\ onDisk' = 1 .. (n + 1)
      BY <2>1, <2>3
    <2>5. /\ receiving'[t].at = "record" /\ receiving'[t].limit = receiving[t].limit
          /\ receiving'[t].size = receiving[t].size /\ receiving'[t].file = n + 1
          /\ receiving' \in [Uploaders -> Upload]
          /\ \A o \in Uploaders \ {t} : receiving'[o] = receiving[o]
      <3>1. PICK u : u = [receiving[t] EXCEPT !.at = "record", !.file = n + 1]
        OBVIOUS
      <3>2. receiving[t] \in Upload /\ n + 1 \in Nat
        BY <1>0, <2>1
      <3>3. /\ u \in Upload /\ u.at = "record" /\ u.file = n + 1
            /\ u.limit = receiving[t].limit /\ u.size = receiving[t].size
        BY <3>1, <3>2 DEF Upload
      <3>4. receiving' = [receiving EXCEPT ![t] = u]
        BY <2>3, <3>1
      <3> QED
        BY <1>0, <3>3, <3>4
    <2>6. FilesApart'
      BY <1>0, <2>3, <2>4, <2>5 DEF FilesApart, Recording
    <2> QED
      BY <1>0, <2>3, <2>4, <2>5, <2>6 DEF AttachmentInv, AttachmentTypeOK, Judged
  <1>4. ASSUME NEW t \in Uploaders, RecordFile(t) \/ UploadThrows(t) PROVE AttachmentInv'
    <2>1. PICK next \in {"success", "exception"} :
            /\ receiving' = [receiving EXCEPT ![t].at = next]
            /\ next = "success" => RecordFile(t)
            /\ next = "exception" => UploadThrows(t)
      BY <1>4 DEF RecordFile, UploadThrows, Answer1
    <2>2. /\ receiving'[t].at = next /\ receiving'[t].limit = receiving[t].limit
          /\ receiving'[t].size = receiving[t].size /\ receiving'[t].file = receiving[t].file
          /\ receiving' \in [Uploaders -> Upload]
          /\ \A o \in Uploaders \ {t} : receiving'[o] = receiving[o]
      BY <1>0, <2>1 DEF Upload
    <2>3. UNCHANGED <<limitOf, onDisk>>
      BY <1>4 DEF RecordFile, UploadThrows
    <2>4. CASE next = "success"
      <3>1. /\ Recording(t) /\ fileRows' = fileRows \cup {receiving[t].file}
            /\ UNCHANGED orphans
        BY <2>1, <2>4 DEF RecordFile, Recording
      <3>2. FilesApart'
        BY <1>0, <2>2, <2>3, <2>4, <3>1 DEF FilesApart, Recording
      <3> QED
        BY <1>0, <2>2, <2>3, <2>4, <3>1, <3>2 DEF AttachmentInv, AttachmentTypeOK, Judged, Recording
    <2>5. CASE next = "exception"
      <3>1. /\ receiving[t].at \in {"store", "record"} /\ UNCHANGED fileRows
            /\ orphans' = orphans \cup ({receiving[t].file} \ {0})
        BY <2>1, <2>5 DEF UploadThrows
      <3>2. Recording(t) => receiving[t].file # 0
        BY <1>0 DEF FilesApart, AttachmentTypeOK
      <3>3. orphans' = IF Recording(t) THEN orphans \cup {receiving[t].file} ELSE orphans
        BY <1>0, <3>1, <3>2 DEF FilesApart, Recording
      <3>4. FilesApart'
        BY <1>0, <2>2, <2>3, <2>5, <3>1, <3>3 DEF FilesApart, Recording
      <3> QED
        BY <1>0, <2>2, <2>3, <2>5, <3>1, <3>4 DEF AttachmentInv, AttachmentTypeOK, Judged
    <2> QED
      BY <2>4, <2>5
  <1>5. ASSUME NEW kind \in {"image", "video"}, NEW limit \in Limits, SetLimit(kind, limit)
        PROVE  AttachmentInv'
    BY <1>0, <1>5 DEF SetLimit, AttachmentInv, AttachmentTypeOK, FilesApart, Recording
  <1>6. CASE UNCHANGED attachmentVars
    BY <1>6 DEF attachmentVars, AttachmentInv, AttachmentTypeOK, FilesApart, Recording
  <1> QED
    BY <1>1, <1>2, <1>3, <1>4, <1>5, <1>6 DEF AttachmentNext

(* Uploads are judged by the limit of their time, but for one beyond an    *)
(* int, and a file has its row or its upload failed, for any threads,      *)
(* sizes and limits.                                                       *)
THEOREM UploadsRight == AttachmentSpec => []UploadsJudgedRight
  <1>1. AttachmentInv => UploadsJudgedRight
    BY DEF AttachmentInv, AttachmentTypeOK, FilesApart, Judged, Recording, UploadsJudgedRight
  <1> QED
    BY <1>1, AttachmentInitially, AttachmentStep, PTL DEF AttachmentSpec
=============================================================================
