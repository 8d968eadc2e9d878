--------------------------- MODULE StageSessions ---------------------------
(***************************************************************************)
(* Logging in to the stage application: the session's attributes           *)
(* SPRING_SECURITY_CONTEXT, CURRENT_USER_INFO and USER_MENU, the registry  *)
(* that keeps a user to one session, and the menus kept per set of roles.  *)
(*                                                                         *)
(* attemptAuthentication writes CURRENT_USER_INFO before the password is   *)
(* looked at; the strategy of Spring Security (external) counts the user's *)
(* sessions, expires the one used least recently, moves the attributes to  *)
(* a new session and registers it, one after the other; the context is     *)
(* saved with the answer.  Tabs of one browser share a session and may be  *)
(* anywhere in this at once.                                               *)
(*                                                                         *)
(* Before the answer the filter logs the attempt.  When the executor makes *)
(* the request's thread write the entry (SysLogPool) and that throws, the  *)
(* request dies: nothing takes the old context away or saves a new one.    *)
(*                                                                         *)
(* A session of nobody is the same as none.  Each user has one role, named *)
(* like the user.  Which of several sessions was used least recently is    *)
(* left open, which includes the one that was.                             *)
(***************************************************************************)
EXTENDS Naturals, FiniteSets

CONSTANTS
  Tabs,         \* tabs of browsers
  BrowserOf,    \* the browser of each tab
  Users,        \* users with a password
  Pages,        \* pages a menu may show
  None,         \* no session, nobody, no menu
  MaxSids,      \* bound: sessions made
  MaxLogins     \* bound: logins begun, with the changes of a role's pages

ASSUME SessionConstants ==
  /\ BrowserOf \in [Tabs -> Tabs]
  /\ MaxSids \in Nat /\ MaxLogins \in Nat
  /\ None \notin Users \cup Nat \cup [role : Users, pages : SUBSET Pages]

VARIABLES
  sess,         \* the sessions made; None before and after
  registry,     \* SessionRegistry: <<session, user, expired>>
  cookie,       \* the session each browser names
  stage,        \* where the login or page request of each tab is
  who,          \* the user it logs in
  sid,          \* the session it works on
  known,        \* the session was there when the request began
  found,        \* the pages createMenu has collected
  menus,        \* MENU_BY_ROLE_IDS_MAP
  grants,       \* the pages of each role
  made,         \* sessions made
  logins,       \* logins begun
  changes,      \* changes of grants
  hadPages,     \* history: the page sets each role has had since its menu was begun
  raced         \* history: two logins of the user were past the count at once

sessionVars == <<sess, registry, cookie, stage, who, sid, known, found, menus,
                 grants, made, logins, changes, hadPages, raced>>
roleVars == <<menus, grants, changes, hadPages>>
tabVars == <<stage, who, sid, known, found>>

Sids == 1 .. MaxSids
Browsers == {BrowserOf[t] : t \in Tabs}
Menus == [role : Users, pages : SUBSET Pages]
Session == [context : Users \cup {None}, info : Users \cup {None},
            menu : Menus \cup {None},
            over : BOOLEAN,     \* history: logged in over, with a menu
            muddled : BOOLEAN,  \* history: logins to it have overlapped
            parted : BOOLEAN]   \* history: see LogFails and HandBack
Empty == [context |-> None, info |-> None, menu |-> None,
          over |-> FALSE, muddled |-> FALSE, parted |-> FALSE]
Stages == {"idle", "password", "count", "register", "save", "menu", "page"}

SessionInit ==
  /\ sess = [s \in Sids |-> None]
  /\ registry = {}
  /\ cookie = [b \in Browsers |-> None]
  /\ stage = [t \in Tabs |-> "idle"]
  /\ who = [t \in Tabs |-> None]
  /\ sid = [t \in Tabs |-> None]
  /\ known = [t \in Tabs |-> FALSE]
  /\ found = [t \in Tabs |-> {}]
  /\ menus = [u \in Users |-> None]
  /\ grants \in [Users -> (SUBSET Pages) \ {{}}]
  /\ made = 0 /\ logins = 0 /\ changes = 0
  /\ hadPages = [u \in Users |-> {grants[u]}]
  /\ raced = [u \in Users |-> FALSE]

Live(s) == s # None /\ sess[s] # None
Named(t) == cookie[BrowserOf[t]]
Expired(s) == \E e \in registry : e[1] = s /\ e[3]
Of(u) == {e \in registry : e[2] = u /\ ~e[3]}
Attempting(s) ==
  {t \in Tabs : sid[t] = s /\ stage[t] \in {"password", "count", "register", "save"}}

(* A session ends: the container tells the registry.                       *)
Drop(s) ==
  /\ sess' = [sess EXCEPT ![s] = None]
  /\ registry' = {e \in registry : e[1] # s}

GoTo(t, to) == stage' = [stage EXCEPT ![t] = to]

(* The answer is out: nothing of the request is left.                      *)
Done(t) ==
  /\ GoTo(t, "idle")
  /\ who' = [who EXCEPT ![t] = None]
  /\ sid' = [sid EXCEPT ![t] = None]
  /\ known' = [known EXCEPT ![t] = FALSE]

(* The end of a request that began with the context of u: Spring Security  *)
(* puts that context back if the session x has lost its own meanwhile.     *)
HandBack(x, u) ==
  IF x.context # None THEN x
  ELSE [x EXCEPT !.context = u, !.parted = @ \/ x.info # u]

-----------------------------------------------------------------------------
(* POST /login_check with a name that is in users: CURRENT_USER_INFO is    *)
(* that user from here on.  An expired session is ended first, and the     *)
(* post is not looked at (Expelled).                                       *)
LoginBegin(t, u) ==
  LET s == IF Live(Named(t)) THEN Named(t) ELSE made + 1
      was == IF Live(Named(t)) THEN sess[s] ELSE Empty
      muddled == was.muddled \/ Attempting(s) # {}
  IN /\ stage[t] = "idle" /\ logins + changes < MaxLogins /\ s \in Sids
     /\ ~Expired(Named(t))
     /\ sess' = [sess EXCEPT ![s] =
          [was EXCEPT !.info = u, !.muddled = muddled]]
     /\ made' = IF s > made THEN s ELSE made
     /\ logins' = logins + 1
     /\ who' = [who EXCEPT ![t] = u]
     /\ sid' = [sid EXCEPT ![t] = s]
     /\ known' = [known EXCEPT ![t] = Live(Named(t))]
     /\ GoTo(t, "password")
     /\ UNCHANGED <<registry, cookie, found, roleVars, raced>>

(* Mutant of WrongPassword: the session keeps the context it had.          *)
WrongPasswordKeepsContext(t) ==
  /\ stage[t] = "password"
  /\ cookie' = IF known[t] THEN cookie ELSE [cookie EXCEPT ![BrowserOf[t]] = sid[t]]
  /\ Done(t)
  /\ UNCHANGED <<sess, registry, found, roleVars, made, logins, raced>>

(* unsuccessfulAuthentication: the session is nobody's from here on.  The  *)
(* browser learns of a new session with the answer.                        *)
WrongPassword(t) ==
  /\ stage[t] = "password"
  /\ sess' = IF Live(sid[t])
             THEN [sess EXCEPT ![sid[t]] = [@ EXCEPT !.context = None, !.parted = FALSE]]
             ELSE sess
  /\ cookie' = IF known[t] THEN cookie ELSE [cookie EXCEPT ![BrowserOf[t]] = sid[t]]
  /\ Done(t)
  /\ UNCHANGED <<registry, found, roleVars, made, logins, raced>>

(* saveSysLog throws in the request's thread, after a wrong or a right     *)
(* password: the session keeps the context it had and the new              *)
(* CURRENT_USER_INFO.  Which context is left by logins that overlap is left*)
(* open, and so is whether the error page names a new session.             *)
LogFails(t) ==
  /\ stage[t] = "password"
  /\ IF Live(sid[t])
     THEN LET x == sess[sid[t]]
          IN \E c \in IF x.muddled THEN Users \cup {None} ELSE {x.context} :
               sess' = [sess EXCEPT ![sid[t]] =
                 [x EXCEPT !.context = c, !.parted = c \notin {None, x.info}]]
     ELSE UNCHANGED sess
  /\ \/ UNCHANGED cookie
     \/ ~known[t] /\ cookie' = [cookie EXCEPT ![BrowserOf[t]] = sid[t]]
  /\ Done(t)
  /\ UNCHANGED <<registry, found, roleVars, made, logins, raced>>

(* The password is right, and that is logged.                              *)
RightPassword(t) ==
  /\ stage[t] = "password"
  /\ GoTo(t, "count")
  /\ UNCHANGED <<sess, registry, cookie, who, sid, known, found, roleVars, made,
                 logins, raced>>

(* Mutant of Count: expired sessions are counted, so one of those expires. *)
CountExpired(t) ==
  LET mine == {e \in registry : e[2] = who[t]}
  IN /\ stage[t] = "count"
     /\ registry' \in
          IF mine = {} THEN {registry}
          ELSE {(registry \ {e}) \cup {<<e[1], e[2], TRUE>>} : e \in mine}
     /\ raced' = [raced EXCEPT ![who[t]] =
          @ \/ \E o \in Tabs \ {t} : stage[o] = "register" /\ who[o] = who[t]]
     /\ GoTo(t, "register")
     /\ UNCHANGED <<sess, cookie, who, sid, known, found, roleVars, made, logins>>

(* checkAuthenticationAllowed: at most one session of the user, or the     *)
(* one it has is this one; else one of them expires.                       *)
Count(t) ==
  LET mine == Of(who[t])
  IN /\ stage[t] = "count"
     /\ registry' \in
          IF mine = {} \/ \E e \in mine : mine = {e} /\ e[1] = sid[t]
          THEN {registry}
          ELSE {(registry \ {e}) \cup {<<e[1], e[2], TRUE>>} : e \in mine}
     /\ raced' = [raced EXCEPT ![who[t]] =
          @ \/ \E o \in Tabs \ {t} : stage[o] = "register" /\ who[o] = who[t]]
     /\ GoTo(t, "register")
     /\ UNCHANGED <<sess, cookie, who, sid, known, found, roleVars, made, logins>>

(* A session the browser had named is ended and its attributes move to a   *)
(* new one; if it has ended meanwhile the new one is empty.                *)
Register(t) ==
  LET old == sid[t]
      fresh == known[t] \/ ~Live(old)
      s == IF fresh THEN made + 1 ELSE old
      was == IF Live(old) THEN sess[old] ELSE [Empty EXCEPT !.muddled = TRUE]
  IN /\ stage[t] = "register" /\ s \in Sids
     /\ sess' = [x \in Sids |-> IF x = s
          THEN [was EXCEPT !.over = @ \/ was.menu # None,
                           !.muddled = @ \/ Attempting(old) # {t}]
          ELSE IF x = old THEN None ELSE sess[x]]
     /\ registry' = {e \in registry : e[1] \notin {old, s}} \cup {<<s, who[t], FALSE>>}
     /\ made' = IF fresh THEN s ELSE made
     /\ sid' = [sid EXCEPT ![t] = s]
     /\ GoTo(t, "save")
     /\ UNCHANGED <<cookie, who, known, found, roleVars, logins, raced>>

(* MyAuthenticationSuccessHandler redirects, which saves the context.      *)
Save(t) ==
  /\ stage[t] = "save"
  /\ sess' = IF Live(sid[t])
             THEN [sess EXCEPT ![sid[t]] = [@ EXCEPT !.context = who[t], !.parted = FALSE]]
             ELSE sess
  /\ cookie' = [cookie EXCEPT ![BrowserOf[t]] = sid[t]]
  /\ Done(t)
  /\ UNCHANGED <<registry, found, roleVars, made, logins, raced>>

-----------------------------------------------------------------------------
(* ConcurrentSessionFilter: any request in an expired session ends it.     *)
Expelled(t) ==
  /\ stage[t] = "idle" /\ Live(Named(t)) /\ Expired(Named(t))
  /\ Drop(Named(t))
  /\ UNCHANGED <<cookie, tabVars, roleVars, made, logins, raced>>

(* /logout, and the two hours after the last request.                      *)
Logout(t) ==
  /\ stage[t] = "idle" /\ Live(Named(t))
  /\ Drop(Named(t))
  /\ UNCHANGED <<cookie, tabVars, roleVars, made, logins, raced>>

Timeout(s) ==
  /\ Live(s) /\ Attempting(s) = {}
  /\ Drop(s)
  /\ UNCHANGED <<cookie, tabVars, roleVars, made, logins, raced>>

(* Any request that needs no menu, or has it, and its end.                 *)
PageBegin(t) ==
  LET u == sess[Named(t)].context
  IN /\ stage[t] = "idle" /\ Live(Named(t)) /\ ~Expired(Named(t)) /\ u # None
     /\ who' = [who EXCEPT ![t] = u]
     /\ sid' = [sid EXCEPT ![t] = Named(t)]
     /\ GoTo(t, "page")
     /\ UNCHANGED <<sess, registry, cookie, known, found, roleVars, made, logins, raced>>

PageEnd(t) ==
  /\ stage[t] = "page"
  /\ sess' = IF Live(sid[t]) THEN [sess EXCEPT ![sid[t]] = HandBack(@, who[t])] ELSE sess
  /\ Done(t)
  /\ UNCHANGED <<registry, cookie, found, roleVars, made, logins, raced>>

(* A page without USER_MENU in its session: createMenu takes the menu of   *)
(* the role if there is one.                                               *)
NeedsMenu(t) ==
  /\ stage[t] = "idle" /\ Live(Named(t)) /\ ~Expired(Named(t))
  /\ sess[Named(t)].context # None /\ sess[Named(t)].menu = None

MenuFromCache(t) ==
  LET u == sess[Named(t)].context
  IN /\ NeedsMenu(t) /\ menus[u] # None
     /\ sess' = [sess EXCEPT ![Named(t)].menu = menus[u]]
     /\ UNCHANGED <<registry, cookie, tabVars, roleVars, made, logins, raced>>

(* Else it collects the pages of the role; a role without any gets none.   *)
CreateMenu(t) ==
  LET u == sess[Named(t)].context
  IN /\ NeedsMenu(t) /\ menus[u] = None /\ grants[u] # {}
     /\ found' = [found EXCEPT ![t] = grants[u]]
     /\ who' = [who EXCEPT ![t] = u]
     /\ sid' = [sid EXCEPT ![t] = Named(t)]
     /\ GoTo(t, "menu")
     /\ UNCHANGED <<sess, registry, cookie, known, roleVars, made, logins, raced>>

(* ... and puts them into the session and into the map, for good.          *)
SetMenu(t) ==
  LET menu == [role |-> who[t], pages |-> found[t]]
  IN /\ stage[t] = "menu"
     /\ sess' = IF Live(sid[t])
                THEN [sess EXCEPT ![sid[t]] = [HandBack(@, who[t]) EXCEPT !.menu = menu]]
                ELSE sess
     /\ menus' = IF Live(sid[t]) THEN [menus EXCEPT ![who[t]] = menu] ELSE menus
     /\ found' = [found EXCEPT ![t] = {}]
     /\ Done(t)
     /\ UNCHANGED <<registry, cookie, grants, changes, hadPages, made,
                    logins, raced>>

MenuBegun(u) == menus[u] # None \/ \E t \in Tabs : stage[t] = "menu" /\ who[t] = u

(* An administrator assigns pages to a role (RoleAuth).                    *)
Assign(u, pages) ==
  /\ logins + changes < MaxLogins /\ pages # grants[u]
  /\ grants' = [grants EXCEPT ![u] = pages]
  /\ hadPages' = [hadPages EXCEPT ![u] = IF MenuBegun(u) THEN @ \cup {pages} ELSE {pages}]
  /\ changes' = changes + 1
  /\ UNCHANGED <<sess, registry, cookie, tabVars, menus, made, logins, raced>>

SessionNext ==
  \/ \E t \in Tabs :
       \/ \E u \in Users : LoginBegin(t, u)
       \/ WrongPassword(t) \/ LogFails(t) \/ RightPassword(t)
       \/ Count(t) \/ Register(t) \/ Save(t)
       \/ Expelled(t) \/ Logout(t) \/ PageBegin(t) \/ PageEnd(t)
       \/ MenuFromCache(t) \/ CreateMenu(t) \/ SetMenu(t)
  \/ \E s \in Sids : Timeout(s)
  \/ \E u \in Users, pages \in SUBSET Pages : Assign(u, pages)

SessionSpec == SessionInit /\ [][SessionNext]_sessionVars

-----------------------------------------------------------------------------
SessionTypeOK ==
  /\ sess \in [Sids -> Session \cup {None}]
  /\ registry \subseteq Sids \X Users \X BOOLEAN
  /\ cookie \in [Browsers -> Sids \cup {None}]
  /\ stage \in [Tabs -> Stages]
  /\ who \in [Tabs -> Users \cup {None}]
  /\ sid \in [Tabs -> Sids \cup {None}]
  /\ known \in [Tabs -> BOOLEAN]
  /\ found \in [Tabs -> SUBSET Pages]
  /\ menus \in [Users -> Menus \cup {None}]
  /\ grants \in [Users -> SUBSET Pages]
  /\ hadPages \in [Users -> SUBSET SUBSET Pages]
  /\ raced \in [Users -> BOOLEAN]
  /\ made \in 0 .. MaxSids /\ logins \in 0 .. MaxLogins /\ changes \in 0 .. MaxLogins

(* A session acts for the user who is logged in to it: the handlers take   *)
(* CURRENT_USER_INFO for the actor, the access decision takes the context. *)
(* They differ only while someone is logging in to that very session; until*)
(* the next answer to a login, when the log entry of one could not be      *)
(* written or a request that was under way gave back the context a wrong   *)
(* password had taken; or for good, when two logins to it have overlapped  *)
(* or it ended during one.                                                 *)
ActsForItsUser ==
  \A s \in Sids :
    Live(s) /\ sess[s].context # None /\ sess[s].context # sess[s].info
      => Attempting(s) # {} \/ sess[s].parted \/ sess[s].muddled

(* web.xml keeps an account to one login at a time: two live sessions of a *)
(* user that have not expired come only from two logins that were both     *)
(* past the count before either had registered.                            *)
OneSessionUnlessRaced ==
  \A u \in Users :
    ~raced[u] => Cardinality({e \in Of(u) : Live(e[1])}) <= 1

(* The menu of a session is what the role of its user can open, or could at*)
(* some time since the first request for that menu (later changes do not   *)
(* reach it); a session that was logged in over keeps the menu of the user *)
(* before.                                                                 *)
MenuIsOfUser ==
  \A s \in Sids :
    LET x == sess[s]
    IN Live(s) /\ x.context # None /\ x.menu # None
         => \/ x.menu.role = x.context /\ x.menu.pages \in hadPages[x.context]
            \/ x.over \/ x.muddled

(* What a session does and what it shows are its user's.                   *)
SessionIsOfItsUser == ActsForItsUser /\ MenuIsOfUser
=============================================================================
