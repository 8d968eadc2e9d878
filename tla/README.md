# tonghu: specification and proofs

tonghu is a Java/Spring system for a smart-park platform. Its code, under
`src/tonghu-parent`, is three web applications and the libraries they share:

* `tonghu-app-stage`, the administration application: users, roles, menus,
  configuration, materials, mock data, attachments, operation log;
* `tonghu-app-api`, the interface application: proxied and database-backed GET
  services, a heart-beat socket server, a web-socket endpoint;
* `tonghu-app-consumer`, which subscribes to a message queue and forwards what
  it receives to web-socket clients;
* `tonghu-pub-*`: model classes, MyBatis DAOs, HTTP helpers, utilities.

The rest of the repository is the database script `src/DB` and the pages of the
stage application with their scripts. The logic that is hard to get right is in
two places. On the server it is the state the applications share between
threads: static caches of database tables, static maps of connections, and the
order in which handlers read, commit and publish. In the browser it is what the
scripts keep between clicks, answers that come late and timers: windows, forms,
buttons, marks on fields, files under way. Both are modelled here.

## Inventory

| Component | State | Operations | What is hard | What makes it correct |
| --- | --- | --- | --- | --- |
| role authorisation (`RolesController`, `RolesServiceImpl`, `MySecurityMetadataSource`, `MyAccessDescisionManager`, `MySecurityFilter`) | tables `roles`, `role_resource`, `user_role`; `ROLES_LIST`, `ROLE_RESOURCES_LIST`; `resourceMap` | add, update, remove, assign a role; reload; decide a request | transaction, cache refresh and map reload are separate steps; the map is filled after it is published, without a lock | caches and map follow the tables; no refusal is an artefact of a reload; a committed assignment takes effect |
| user administration (`UsersServiceImpl`, `UserRoleServiceImpl`) | tables `users`, `user_role`; cached user list and map | add, update, remove, password, roles | uniqueness checked before the insert; several commits per operation; refresh inside a transaction | names unique; a user never loses its roles in passing; the cache agrees with the table |
| constants cache (`SystemConstant`), system configuration | about ten static lists and maps; table `sys_config` | lazy load, getters, update, refresh | published empty and filled in place, by several threads into one map | a reader finds what the table has or once had; after a fill nothing is missing |
| resource modules | one list with marks in it | show the resources of a role | the marks of one answer are set in the list all threads share | an answer marks the resources of its role |
| log-in, sessions, menus (`MyUsernamePasswordAuthenticationFilter`, `CreateMenuFilter`, Spring Security) | HTTP sessions, session registry, menu cache | log in, log out, show menu, time out | the name in a session is written before the password is looked at; sessions are counted before the new one is registered | one session per user; a session acts for who authenticated; a menu shows what its roles allow |
| socket server (`SocketServer`) | map of connections, fields of each connection, threads | start, stop, accept, read, echo, time out, push | two closing threads, senders walking the map, blocking reads, stop | a live connection is in the map; a dead one leaves it; a client that is there is found |
| web-socket hub (`TongHuWebSocketServer`, in two applications) | set of clients, counter | open, close, send, broadcast | clients that break during a loop; threads that write to one session at once | each open client gets each message it is meant for, in order; what is sent to a name reaches that name only; counter agrees with set |
| message consumer (`ConsumerService`) | none of its own | six subscription handlers, each sends to the hub | the handlers run in the queue client's threads | what is received is forwarded in order |
| materials and mock data | tables `material`, `mock_data` | add, update, remove | names checked before the insert; the user is read from the session three times | names unique; the log tells what happened |
| attachments (`AttachmentController`) | files, table `attachment` | three uploads, a download | sizes and limits in `int` arithmetic; a file and a row written one after the other | what is refused is too large; no row without its file |
| operation log (`SysLogContext`) | a bounded executor, table `sys_log` | save a row asynchronously | a full queue runs the task in the caller's thread; a stop drops the queue | every change is logged |
| page windows (`block.js`) | one history slot, layers, fades | open, close | a window opened while another one fades | no window is lost |
| administration pages (`common.js`, `roles.js`, `userManage.js`, `materialManage.js`, `mockDataManage.js`, `sysConfig.js`) | forms, buttons, marks, requests, timers | about sixty click handlers and their answers | answers in any order, late or never; buttons disabled and not enabled again | a save is about the row shown and passes the checks; a button is dead for a reason |
| field checks (`util.js`, `livequery`) | texts, marks, messages | check on change, blur and save | a mark outlives its reason | what is sent passes its checks |
| project assignment (`userManage.js` from line 556) | found and chosen areas and projects | query, tick, commit | two sides kept in step; answers about another user | what is displayed is what is stored or chosen |
| log search dates (`sysLog.js`, `bootstrap-datepicker.js`) | two texts, two pickers | choose, type, turn | dates compared on one of three ways to change them | the interval is one |
| file uploads (`ajaxfileupload.js`) | hidden frames, file ids | choose, upload, save | an answer finds another form | a row gets its own file |
| styled controls (`jquery.uniform.js`) | wrappers of controls | draw, update, restore | scripts set values without an event | a wrapper shows its control |
| data tables (`jquery.dataTables.js`, `script.js` 94-121) | rows, indices of all and of those found, search texts, order, page, saved state, requests | search, sort, turn pages, change rows, reload, ask a server | lists of indices and texts that belong together by position; calls that leave the drawing for later; answers in any order | the page shows the rows that fit, in their order, and says so |
| event calendar (`fullcalendar.js`, `script.js` 551-617) | date, view, sources, events fetched and shown, requests under way | turn, change view, add and remove sources and events, move, select | answers of older fetches; views that were hidden or never drawn when something changed | a view shows the events of the present sources in its range, no two over each other |
| modal windows, hints, tabs, accordions (`bootstrap.js`) | shown or not, shades, handlers, fades | show, hide, click, enter, leave | a call while the fade of an earlier one is under way | what is shown is what was asked for last |
| fields that suggest (`bootstrap-typeahead.js`), select boxes (`chosen.jquery.js`) | text, list, highlighted line, chips, focus | type, move, choose, leave | answers and time-outs after the field was left; scripts that change the control underneath | the list offers what matches; the label is the value |
| validated forms (`jquery.validate.js`), prompted forms (`jquery.validationEngine.js`) | values, errors, prompts, requests | type, leave, submit | a rule that asks a server, a submission that waits for it, prompts that fade | what is sent keeps every rule; a mark says what is wrong now |
| hash table (`jshashtable-2.1_src.js`) | buckets, in a list and in an object | put, get, remove, put all | the two must agree for every hash | it finds what was put last |
| step wizard (`jquery.smartWizard-2.0.js`) | current step, panes, effect queues, requests | next, previous, go to, finish | a move while a fade or an answer is under way | the step asked for last is the only one shown |
| dropped files (`jquery.filedrop.js`) | files, counts, requests | drop, read, send | one list for all drops | each file is sent once, and the end is told once |
| switches (`jquery.ibutton.js`), spinner (`jquery.ui.spinner.js`), slider (`jquery.slider.js`, `draggable-0.1.js`) | handle, value, interval, pointers | press, drag, release, keys, wheel, calls | a control changed by a script or disabled while it is held | what is drawn is the value, and the value is within its limits |
| light box (`jquery.colorbox.js`) | group, index, loads, timers | launch, turn, close, slide show | late pictures and pages; timers that outlive their box | it shows what was asked for last |
| blocked elements (`jquery.blockUI.js`) | layers, a borrowed node, time-outs, fades | block, unblock, growl | blocked again during a fade | the node is put back, the layers go |
| API services, HTTP helpers, DAOs, model, utilities | none | read, build JSON | nothing concurrent | pure functions of tables and arguments |

Components interact through the database (all through MyBatis DAOs, every
non-transactional call commits by itself), through the static fields of
`SystemConstant` and `MySecurityMetadataSource` (role handlers write, each
request reads), through direct calls (consumer handlers and
`TestInterfaceController` call the hub's static methods), through the
container (servlet threads, web-socket callbacks, session events), and, between
browser and server, through requests whose answers may come in any order.
`PROJECT.json` lists every component with its status and every hazard with its
line and the properties that address it.

## Modules

| Module | About | Checked in |
| --- | --- | --- |
| `RoleAuth`, `RoleAuthProofs` | roles, their resources, the map that decides requests | `one`, `two`, `race`, `assigned` |
| `SocketServer`, `SocketServerProofs` | connections, time-outs, pushes | `socket`, `api`, `socket_absent` |
| `WebSocketHub`, `WebSocketHubProofs` | the hub and the handlers that send through it | `api`, `hub_named` |
| `UserDirectory`, `UserDirectoryProofs` | users, their copies and checks | `users`, `users_email` |
| `PageWindows`, `StagePages`, `StagePagesProofs` | windows, forms, buttons, answers and reloads of six pages | `pages` |
| `CachedTable` | what a cache of a table promises: the abstract specification | `stage` |
| `SysConfigCache`, `StageServerProofs` | the configuration in memory, which implements it | `stage` |
| `ModuleMarks`, `StageServerProofs` | the marked list of resources | `stage` |
| `StageSessions`, `StageServerProofs` | log-in, sessions and menus | `stage` |
| `SysLogPool`, `Catalogue`, `StageServerProofs` | the log's executor; materials, whose handlers use it and the session | `stage` |
| `Attachments`, `StageServerProofs` | uploads on the server | `stage` |
| `DateRange`, `FormChecks`, `Uploads`, `StyledControls`, `PageScriptsProofs` | what scripts keep in a browser | `stage` |
| `UserProjects`, `UserProjectsProofs` | the window for the projects of a user | `stage` |
| `DataTable`, `PageScriptsProofs` | a table with search, order and pages | `stage` |
| `EventCalendar` | a calendar with its views, sources and events | `stage` |
| `BootstrapWidgets`, `ChosenBox`, `FormValidator`, `PromptedForm`, `HashTable`, `StepWizard`, `FileDrop`, `SwitchButton`, `SpinnerBox`, `RangeSlider`, `LightBox`, `BlockedElements` | the widgets of the libraries, see Widgets; `PageScriptsProofs` proves three of them | `stage` |

`Catalogue` extends `SysLogPool`, `StagePages` extends `PageWindows`, and
`MCStage` puts the parts that share no state into one run: a behaviour is about
one of them, chosen at the start (`focus`), so that the run is the union of
theirs and one part's steps never multiply another's. `MCApi` does the same with the
hub and the socket server, whose liveness one run checks.

Left for later: an abstract mailbox that `WebSocketHub` implements; sets and functions
in the place of lists in the modules of the widgets, so that more can be proved of them.

## RoleAuth

*State.* `roles`, `lastRole`, `roleResource`, `userRole` are the tables, with the
auto-increment counter; `rolesList` and `roleResourcesList` the cached lists of
`SystemConstant`; `resourceMap` the static map of `MySecurityMetadataSource`
(`Null` where it has no key). `adm[a]` is the thread of an administrator's
request: its `pc` names the next step of the handler and the other fields are its
locals. `session` and `req` are a user's authorities and its request.
`granted`, `loaded`, `missed` and `mayDeny` are history that only properties read.

*Actions.* Each is one access to shared state: a check that reads a table or a
cache (`StartAssign`, `StartRemove`), a transaction (`CommitAssign`,
`DeleteRole`, `AddRole`, `UpdateRole`), a read and an assignment of a cached list
(`ReadRoles`/`SetRolesList`, `ReadRoleResources`/`SetRoleResourcesList`), and
`loadResourceDefine` step by step: `BeginLoad` (which takes the cached list),
`PublishMap` (the empty map replaces the old one), `PutResource`, `FindSub`,
`TakeSub`, `PutSub` and `PutNonRestricted` (one put each, into whatever map is the
static field's by then), `EndLoad`. `FindKey`, `WalkFails` and `GetAndDecide` are
the two look-ups of `getAttributes` and the decision. `ReadFails` is a database
read that throws.

*Abstractions.* A resource is named by its URL and a request asks for a URL that
either is a key or is not: matching of patterns is equality. Names, notes and
their checks are left out. `ROLES_LIST`, loaded at its first use, counts as
loaded at the start. A `HashMap` written by two threads is atomic per put, except
that a put may be lost (`Put`).

*Runs.*

| Run | Instance | Shows |
| --- | --- | --- |
| `one` | 1 administrator, 1 user, 2 roles, 3 resources of which one unrestricted, a sub-resource of one page and one shared by two, 1 failed read | `TypeOK`; `ReloadNeverEmpty`: the list a reload works from is never empty, as it would throw; `MapNeverWrong`: a half-filled map is incomplete, never wrong; `CoherentWhenQuiet`; `DenialJustified`: no refusal is an artefact of a reload; with fairness, `AssignmentTakesEffect`: a committed assignment reaches the map unless withdrawn or cut short by a failed read |
| `two` | 2 administrators, no user | with concurrent reloads the map may miss entries but never gains one that was not committed (`MapFromCommitted`) |
| `race` (violation) | 2 administrators | finding: the reload does not always reflect the assignments |
| `assigned` (violation) | 1 administrator, 1 user | finding: the check that a role is not in use counts by the wrong id |

Two roles suffice to tell a system role from an editable one, two holders of
a URL from one; the three resources and two sub-resources are the least with
every case of the load (own list, list of one parent, list of two, open to all).
Two administrators are the least with a race, and every race the code has is
between two. Fairness is weak fairness of the steps of a handler that has begun:
a servlet thread runs on. Nothing forces anybody to begin a handler.

*Proofs* (`RoleAuthProofs`), for every value of the constants. `TypeCorrect`
proves `TypeOK`, which includes the foreign keys. `SystemRowsStay` proves
`ReloadNeverEmpty`; the property alone is not inductive, because an assignment or
removal under way could name a system role, so `KeepInv` adds that the target of
every handler past its check is editable (`TargetsEditable`). `MapCommitted`
proves `MapFromCommitted`; `MapInv` adds that every copy of rows on its way to
the map (the table, the cached list, the locals of every handler) holds committed
rows only (`CopiesCommitted`) and that a list taken from the map to be extended
does too (`AttrsCommitted`). Assumptions are those of the module:
`ConstantsAssumption` and `SystemRoleAssumption` (the installation script gives
the system role resources).

`OneLoadNeverWrong` (`MapNeverWrong`), `OneLeavesCoherent` (`CoherentWhenQuiet`) and
`OneDeniesJustly` (`DenialJustified`) have a hypothesis more, `OneAdministrator`: there
is one administrator, whoever it is; users, roles and resources are any. Without it
they are false, as `race` shows. All three rest on `OneInv`, which says step by step
what the load has done: the map is exactly what its loops have put so far (`Progress`,
`MapIs`: the resources already taken, then the sub-resources, then the unrestricted
ones), what the handler has read is what the tables hold (`ReadsHold`), the copies are
up to date outside a refresh unless one was missed (`UpToDate`), ids are given once
(`IdsGiven`), and for a request under way, if the rows loaded or stored deny it, that
has been noted (`DenialsNoted`).

## SocketServer

*State.* `running`, `mapping` (keys of `SOCKET_ACTION_MAPPING`) and, per
connection, `run`, `age` (how old `lastReceiveTime` is) and `clientId` are fields
of the class. `dog`, `pc`, `check`, `send` and `stopping` are the positions of
the watch dog, of the connections' threads, of the check thread, of the threads
in `sendMessageToClientByToken` and of the call of `stopSocketServer`. `link`,
`unread` and `sent` are the network: a connection waits in the backlog, is open,
half closed by the client, or closed by the server.

*Actions.* Every access to a shared field or to the map is a step of its own:
the dog's bind, loop test, accept, put and start; a thread's loop test, time-out
test, read, echo, close and remove; the check thread's walk, close and remove; a
sender's two reads of the id, the stream and the write. A walk of the
`ConcurrentHashMap` is weakly consistent (`NewWalk`, `CanVisit`, `MustVisit`).
`Tick` advances time for all connections; ages stop at `Delay + 1`, where nothing
distinguishes them any more.

*Assumption.* The plain fields `run`, `clientId` and `lastReceiveTime` are read
without a lock, but each loop that reads them also reads the volatile `running` or
the map, so a compiler cannot keep them in a register over an iteration: a read
returns the current value, at any point of the interleaving.

| Run | Instance | Shows |
| --- | --- | --- |
| `socket` | 2 connections, 1 sender, time-out on the first tick, 1 line each, until the server is stopped | `MappedUntilClosed`; `ClosedOnlyAfterLapse`; `ClosedLeavesMap`; `NotFoundIsRight`: "not found" after a complete walk is true |
| `api`, the part of the server | 1 connection, time-out of 1 tick, 2 lines, 1 throwing `close()`, stop and failures at any time, fairness | `SilentEnds`: a silent connection leaves the map, and the thread of a closed one ends |
| `socket_absent` (violation) | 2 connections, 1 sender | finding: a call reports "not found" for a client that was there |

Two connections are needed for a walk that passes one and reaches another; the
properties name one connection at a time, and connections do not touch each
other's fields, so the run with stop, failures and liveness has one. Stopping
leaves accepted connections open; the model shows it, and no text of the
repository says otherwise clearly enough to be a finding. The fairness is that of a scheduler that runs every thread that
can run, and of a clock that does not stop; clients, failures and the calls of
start and stop are not forced. A thread in `readLine` that has nothing to read is
not enabled, which is how it stays blocked.

*Proofs* (`SocketServerProofs`), for any connections, senders and identifiers,
any time-out and any number of lines and of throwing `close()`s; the only
assumption is `ConstantsAssumption`. `SocketTypes` proves `TypeOK`. `NeverLost`,
`NeverClosedWithoutCause` and `ClosedEntriesGo` prove `MappedUntilClosed`,
`ClosedOnlyAfterLapse` and `ClosedLeavesMap` from one invariant, `MapInv`. The first
is not inductive unless no thread can have met a connection before the watch dog
puts it, so `UnmetIsUnknown` says that such a connection is in no map, no walk and no
thread's hands; a close and a removal come steps after the test that led to them,
so `ReasonsExcused` keeps the cause and `ClosedBeforeRemoved` the order of the two.
`NobodyMissed` proves `NotFoundIsRight` with `HeldInv`: a connection that was open
under the id ever since the call began is in the part of the walk still ahead, or is
the one being compared (`HeldAhead`). The weakly consistent iterator guarantees it,
because the entry never left the map.

## WebSocketHub

*State.* `webSocketClientSet`, `onlineCount` and `clientName` are the class's
fields; `life` says which callback of a client is due; `up` whether its session is
open, `writer` which thread is in `sendText`; `send` holds the snapshot a loop
goes over and what is left of it. `sent` numbers the calls of a sender, and
`received` is what each client got.

*Actions.* The two halves of `onOpen` and `onClose` (set, then counter); a call
takes its snapshot, then for each client writes, meets an `IOException` and
continues, or meets a runtime exception and dies. Whether a write to a closed
session throws the one or the other, and that a write while another thread writes
may throw, is the container's part and nondeterministic. The consumer's six
handlers are senders with a `Topic`, the name they pass to `sendClientMessage`;
`onMessage` and `TestInterfaceController` are senders without, which call
`broadCastMessage`. A client's name comes with its connection (`NameOf`, the path of
the endpoint). The two loops have the same steps: the `if` of `sendClientMessage`
that compares the names has an empty body, so it passes nobody over. The snapshot is walked in any
order, where the code goes by age of connection: no property depends on it.
`onClose` comes after `onOpen` has ended, as containers guarantee.

| Run | Instance | Shows |
| --- | --- | --- |
| `api`, the part of the hub | 2 clients of different names, a handler that sends twice to one of them and a broadcaster that sends once, fairness | `CountMatchesSet`; `SenderOrderKept`; `ReturnedMeansDelivered`: a call that returns has reached every client it is for (those of its name, or all) that stayed open; `CallsAndClientsEnd` |
| `hub_named` (violation) | the same clients, one call each | finding: `OnlySpecifiedGet`, the message for the clients of one name reaches a client of another |

`ReturnedMeansDelivered` asks of a call only what its documentation promises, and so
holds; that a call for one name also reaches the others is the finding's.

Fairness: a call under way goes on, since a blocking write ends with its time-out,
and the container makes the callbacks it owes.

*Proofs* (`WebSocketHubProofs`), for any finite set of clients and any senders and
names: `HubTypes`, `CountAgrees`, `OrderKept`, `ReturnDelivers`. The counter's
invariant is that it counts the clients in `Counted`, online or removed but not yet
subtracted (`CountInv`). Order is not inductive by itself: `OrderInv` adds that the
number of every message a client has is at most its sender's, and below it while
the client is still pending in the sender's call (`Numbered`). Delivery needs
`Covered`: at every moment of a call the clients it began with that are no longer
pending have the message or are closed, and none of them can be opened again.

## UserDirectory

*State.* `users`, `lastUser` and `userRole` are the tables; `usersList` and
`usersMap` the copies in `SystemConstant`, which nobody loads before a handler
needs them; `current` the session's copy of its user. `roles` and `rolesList`
belong to `RoleAuth`'s part and change by `RemoveRole` and `SetRolesList` alone.
`run[t]` is a servlet thread in one of the six handlers `addNewUser`,
`updateUserInfo`, `removeUser`, `updateUserPass` (with
`updateCurrentUserPassInfo`), `updateUserRole` and `updateCurrentUserBaseInfo`.
`lone`, `excused` and `raced` are history.

*Actions.* The look-ups in the cached map, two calls each (`Look`, `Take`), which
load it if it is empty; the checks against the table (`CheckName`, `CheckEmail`);
one action per statement that commits by itself (`InsertUser`, `UpdateUser`,
`UpdatePassword`, `DeleteUser`, `DeleteUserRole`, `InsertUserRole`); the
transaction of `updateUserRole` from `BeginRole` to `CommitRole`, whose rows other
statements wait for (`Free`) and whose refresh reads a snapshot (`ReadInTx`); the
refresh, read by read and put by put (`ReadUsers` to `EndRefresh`).

*Abstractions.* A user is a name, an address and its roles; input that the checks
of lengths refuse never becomes a handler here. `maximumSessions` is 1, so a user
has one session; a log-in while its own change is under way is left out. Taking a
role away is one step, as nothing but the commit follows the statement.

| Run | Instance | Shows |
| --- | --- | --- |
| `users` | 2 threads, any 2 handlers, up to 4 users of which one a system user, 2 roles of which one can be removed, 1 failed read | `SystemUsersKept`, though `updateUserRole` has no guard but the copy; `CoherentAfterLoneHandler`; `RefusalRight`: who runs alone on good copies is refused only a user that is gone or fixed; `TwoRolesOnlyByRace` |
| `users_email` (violation) | 1 thread, 2 handlers, 1 address | finding: two users with one address |

Two handlers are the least that race, and the model has every pair of them, each
with a refresh of its own; four user ids leave room for both to insert. Addresses
are in the second run only: no other property speaks of them. `excused` says why
the copies may differ from the tables at rest: they were not loaded, handlers
overlapped, a handler was cut short after a commit, or a role was taken away,
which the code follows with no refresh. Runs do not check for deadlock, as
handlers end and need not begin. There is no fairness: nothing here is liveness.

*Proofs* (`UserDirectoryProofs`), for any threads, ids, roles and bounds; every
property of `users` is a theorem.

* `DirectoryTypes`: types, unique names and foreign keys. `DirectoryInv` adds what
  each position of a handler implies of its locals (`Sound`: a handler past its
  look-ups to the statements on `user_role` is not about a system user, a refresh
  loops over rows it has read).
* `SystemUsersStay` (`SystemUsersKept`) follows from it step by step.
* `TwoRolesNeedRace` (`TwoRolesOnlyByRace`), of users that begin with one role each
  (`OneRoleAtStart`): `RolesInv` adds that a thread about to insert a role finds
  none left unless its user is in `raced`.
* `LoneHandlersLeaveCopiesRight` (`CoherentAfterLoneHandler`): `CoherenceInv` says of
  whoever has run alone since it began where the copies and the tables are at each
  position: equal (`Settled`), behind by its own write, list assigned and map not
  (`Refreshing`), the map filled as far as the rows put (`Shown`).
* `RefusalsAreRight` (`RefusalRight`, an action property) follows from both.

Two things came to light by proving: two arms of the `CASE` that chooses what
follows a write overlapped (TLC takes the first, the meaning is either), and the
module assumed nowhere that the first users have different names. Both are mended;
an overlap of the same kind was found and mended in `FormChecks`.

## PageWindows and StagePages

*State.* `ui` is what `block.js` keeps of the page: where each window is, the
layers, the history slot, the fades under way and the message of the load.
`page`, `visit`, `shown`, `val`, `mark`, `off` are the page, how often it was
loaded, the row each form shows, the value and the mark of each field, and the
buttons that are disabled. `asks` are the requests that wait for an answer,
`timers` the reloads that wait for their time.

*Actions.* The sixty-odd click handlers follow four patterns (open a form, ask
for a row and open a form with the answer, save or remove, upload). Each handler
is a record of its details, read from its lines: which marks it clears, which
fields it checks again, which marks it looks at, what it disables and what its
answers enable. The patterns are the actions: a click, an answer of each kind
(filled, refused, failed, none), a timer, the end of a fade. The functions of
`block.js` are functions on `ui`, so a handler composes the calls it makes in
their order. Fades of different lengths end in any order.

| Run | Instance | Shows |
| --- | --- | --- |
| `pages` | each of the six pages, 2 rows, 2 requests and 2 fades under way, 2 loads of the page | `WindowsLostOnlyByOverlap`: a window disappears, or leaves the page covered, only when another was opened during its fade, and such an overlap has one of a few causes; `SavesShownRow`; `ChecksDecide`: nothing the checks refuse is sent and nothing they accept is refused, but for fields that are named; `DeadButtonExplained`; `ReloadHappens` |

Two rows are the least with an answer about the wrong one, and two requests the
least with a late one. `ReloadHappens` assumes weak fairness of timers and fades
alone: a browser runs every timer it has set. Answers may never come, and nobody
is forced to click.

*Proofs* (`StagePagesProofs`), for any rows, any pages to visit and any bounds. What is
assumed of the constants: the bound on fades is a number, `Null` is no layer, note or
reload (`WindowsAssumption`, `FormsAssumption`), and the windows of every page, and those
all pages have, are among the windows (`FormsAssumption`).

All five rest on one invariant, `PageInv`, since none of the properties is inductive. A
window is brought back by the end of a fade from what the fade took along, so whether it
is lost is decided by how layers, history slot and fades fit together long before.
`Calm` says how: as long as nothing has overlapped, nothing is covered, or exactly one
layer stands, it carries the load's message or one window, and either no fade runs or
every running fade took that layer and that note. In such a state no window is lost
(`LostOnlyByOverlap`), and every step out of it has one of the causes the property names.
Then `SameRow`: the row a form saves to is the row it shows, but for the form of a user's
role; `SaveRight` of every save under way; `FileValueGood`: the value of a file is never
marked bad; and `Explained` for every button that is disabled, in front or not, as a form
that is covered now can come to the front with the next click. TLC checked `PageInv` on
the instance of `pages` (670,839 states) before it was proved.

* `WindowsAreLostOnlyByOverlap` proves `WindowsLostOnlyByOverlap`, `SavesNameShownRow`
  proves `SavesShownRow`, `DeadButtonsAreExplained` proves `DeadButtonExplained`, and
  `ChecksDecideAboutSaves` the action property `ChecksDecide`; `PagesStayRight` is
  `PageInv` itself.
* The layers a block leaves behind are taken out of the stack by `Without`, a recursive
  function, of which nothing but its value on stacks of one layer is needed.

Left to TLC are `ReloadHappens`, which is liveness, and what windows look like after an
overlap, of which the properties say nothing.

The exceptions in the properties are defects of the code, stated exactly rather
than assumed away: the answer to `#setUserRole` (`userManage.js:369`) opens a form
for whoever was asked about last; `saveUserPassInfo` enables a button that does
not exist (240, `saveUserPassInfof`); the save of one's own password tests a
field of another form (`common.js:182`); an e-mail address the server rejected
stays marked; a configuration value stays marked although the row shown now is no
integer; the error callbacks of the requests are empty.

## SysConfigCache and CachedTable

*State.* `table` is `sys_config`; `list` and `map` are the static fields, the
second a reference into `maps`, since several maps may be in use; `job` holds the
position and locals of each thread in a getter, in `updateSysConfig` or in
`setSysConfig`. `CachedTable` knows the values each row ever had (`had`), an entry
per row (`cache`) and the last answer to each thread.

*Actions.* `setSysConfig` step by step: the two selects, the assignment of the
list, the new map, its publication, one put per row. Getters look three times
(`IsEmpty`, `ContainsKey`, `get`) at whatever map is published then. A `HashMap`
written by two threads may lose an entry. The map by id, filled in the same loop,
is left out; an update that fails its validation does not begin.

*Refinement.* `Store == INSTANCE CachedTable WITH had <- ..., cache <- ..., answer
<- ...` and `StoreSpec == Store!Spec`. The abstract specification promises little
(a value that was once committed, or none) because the code promises no more; what
holds of freshness is `FreshUnlessCrossed`.

*Proofs* (`StageServerProofs`), for any threads, items, values and bounds.
`CacheImplementsTable` proves `ConfigSpec => StoreSpec`. The invariant `CacheInv` says
of every copy of a row on its way (the rows a thread has selected, the list, every
map) that it was committed to its own row (`RowsKept`), and that a thread that puts
has rows and a map; each step then maps to a step of `CachedTable` or to none.
`CacheFresh` proves `FreshUnlessCrossed`; it adds that while fills have never
overlapped, the one under way is alone with its map (`FillsAlone`).

## ModuleMarks and StageSessions

`ModuleMarks` is the shared list of resources with its `haveAuth` marks: clearing
mark by mark, setting, writing the answer from the list. A list is its resources;
modules are left out, and the resources of a role are whatever the select finds.
`MarksAreOfRole` holds of an answer unless another thread changed marks in between.

`StageSessions` is `attemptAuthentication`, the count, expiry, migration and
registration of Spring Security, the saved context, the menu. Tabs of one browser
share a cookie. `over` marks a session that was logged in to over another user's:
it keeps the menu of the user before, since nothing removes `USER_MENU`. Menus are
kept per set of roles and never renewed. `shotOffOnlineUser`
(`LoginLogoutController.java:194`) expires only sessions that have expired, so it
is no action. A session of nobody is the same as none; a user has one role; which
session was used least recently is open.

Two things part a session's name from its context although log-ins to it never
overlap, and `parted` records them until the next answer to a log-in. The filter logs
every attempt before it answers
(`MyUsernamePasswordAuthenticationFilter.java:103`, `:108`, `:113`); when the executor
is full the entry is written by the request's own thread (`SysLogPool`), and if that
throws, no `AuthenticationException` leaves the filter: nobody takes the old context
away, with `CURRENT_USER_INFO` already the new user (`LogFails`). And Spring Security
saves, at the end of every request, the context the request began with if the session
has none by then: a page that was under way while a wrong password took the context
away gives it back (`PageBegin`, `PageEnd`, `HandBack`).

`OneSessionUnlessRaced`: two sessions of one user come only from two log-ins that were
both past the count; `SessionIsOfItsUser`: name and context of a session belong together
except while someone logs in to it, while it is `parted`, and for good after log-ins to
it have overlapped; and its menu is one that the role of its user had at some time since
the menu was first asked for (`hadPages`, which forgets what the role had before), so
that a menu collected while pages are assigned may be the older or the newer, but not
another role's nor one from before. `Timeout` spares a session somebody logs in to.

*Proofs* (`StageServerProofs`). Of `ModuleMarks`: `MarksTypes`, and `AnswerIsOfRole` proves
`MarksAreOfRole` for any askers and resources. `MarksInv` says, position by
position, how much of the list is as an undisturbed thread means it: cleared as far
as it has cleared, marked as far as it has marked, and equal to its role's when it
writes; `ListsMade` that a thread holds a list that exists.

Of `StageSessions`, for any browsers, tabs, users, roles: `SessionTypes`,
`OneSession` (`OneSessionUnlessRaced`) and `SessionsAreTheirUsers`
(`SessionIsOfItsUser`). Neither property is inductive. `PrivateInv`: a session made
by a log-in is its tab's alone until the browser has been told of it, so that no
other tab can write into it. `SoleInv`: of a user nobody raced for, whoever is past
the count is the only one there, and the user has no other session. `MenusInv`:
what the menu cache has was allowed since it was begun, and `HadStays` that no step
forgets any of that. `TruthInv`: what a log-in under way has written (`OwnInv`), and of
each session that it is as the property says (`Fine`). That needs one thing more
(`Visited`): until log-ins overlap, all requests under way in a session began with the
same user, whose context the session has or has lost, and whose menu is the one it has;
so whatever one of them gives back fits what the others left. The five actions that end a
request are one case of the proof (`Reply`, `Replied`, `ReplyFine`).

## SysLogPool, Catalogue, Attachments

`SysLogPool` is the executor of `saveSysLog`: threads up to the core, then the
queue, then threads up to the maximum, then the caller's own thread. A stop drops
the queue. `Catalogue` has the handlers of materials on servlet threads that share
one session, whose user a log-in in another tab changes: a handler reads the user
when it begins, when it checks and when it logs. The handlers of mock data are the
same code on their own table. The foreign key of a material to its attachment is
never in danger, as attachments are never deleted. `LogAgreesWithTable`: every
change a finished handler made is in the log or on its way, but for entries whose
insert failed or that a stop dropped; entries tell the truth about success; they
name who asked unless the session changed hands; names are unique.

*Proofs* (`StageServerProofs`): `LogIsRight` proves `LogAgreesWithTable` for any
threads, actors, names and sizes of the executor. No step of the executor forgets an
entry: it stays in the table, with a worker or in the queue, or it is recorded as
dropped or failed (`NoneForgotten`, from `PoolInv`). `CatalogueInv` adds that the entry each handler is about to hand
over is right (`OwnRequest`), that requests have numbers of their own and that a
change once made is kept until its handler logs it (`ChangeKept`).

`Attachments` counts megabytes, so that `limit * 1024 * 1024` as an `int` is the
limit modulo 4096 with a sign. Limits of images and videos come from the
configuration on each request. `UploadsJudgedRight` says what is refused is too
large, unless the limit is beyond an `int` (one of 4101 refuses everything above
5), and a file has its row or its upload failed. A
row names as its creator the creator of the user who uploads, not the user: no
step depends on it.

*Proofs* (`StageServerProofs`): `UploadsRight` proves `UploadsJudgedRight` for any
threads, sizes and limits. The property says nothing of whose file is whose, and so is
not inductive; `FilesApart` adds that every stored file has a number of its own and is
in one place: in a row, an orphan, or with the one thread that is recording it.

## UserProjects, DateRange, FormChecks, Uploads, StyledControls

`UserProjects`: the server of this commit has none of the four requests of this
window and its page shows no link to it, so the server is the environment: it
answers with what is stored, refuses or stays silent, in any order. Known to the
property as exceptions: county-level cities of the user before stay in the
preview; unticking a project in the preview that an area covers leaves its box
locked; unticking a province in the preview unticks whichever province is
displayed; late lists put a county under another city; and a county-level city that
stayed from the user before, in an area this user has (`"kept"` in `mixed`), is covered
twice, so that unticking one of the two unticks what the other still covers. That
last one came out of the proof: the run had no user who was given a whole province.

*Proofs* (`UserProjectsProofs`): `WindowsRight` proves `AssignmentWindowTruthful` for any
editors, areas, projects and bounds, with answers in any order. `ProjectInv` follows the
parts of the property. `OwnInv`: unless openings crossed, the one request for data is
about the user in the title. `ListsInv`: unless lists came late, at most one is under
way, for what is chosen above it, and lists displayed belong to what is chosen;
`FiledInv` follows for every area chosen, displayed, stored or sent. `TicksInv`: nothing
chosen, stored or sent lies in another area that is (`NoneRedundant`), a box below
something chosen is locked, and a box that is ticked and free is itself chosen. With
this, the area that is unticked was the only one to cover what it frees, since of two
areas above one, one lies in the other (`AboveInOrder`). `Geography` and `ProjectData`
assume what the tables of areas have: three levels, each area in one of the level above,
the areas of a project one within the other; and that what is stored at the start was
assigned with this window, filed right and not redundant. TLC checked `ProjectInv` with
two editors, five areas, three projects, seven picks and three requests before.

`DateRange`: an empty or unfinished text stands for today; an arrow writes today
into an empty field; typed dates are not compared. `SysLogServiceImpl.java:95`
compares the end with itself where it means the start.

`FormChecks`: `saveNewUser` neither checks nor tests the confirmation of the
password (`userManage.js:34`), `saveChangeUser` never tests the role, and the mark
"differs" is looked for with a comma other than the one it was written with
(`common.js:453` and 467), so it stays.

`Uploads`: an input is replaced while its upload is under way, so it has one at a
time; the id in the answer goes into the form as it is by then.

`StyledControls`: a wrapper follows the events of its control. Scripts that set
values must write the text themselves or ask for an update; a restore drops the
last element of the list of all, whichever was restored.

*Proofs* (`PageScriptsProofs`), for any dates, controls, files and numbers of steps.

* `ChosenInOrder` proves `IntervalInOrder`. `RangeInv`: as long as nothing was typed or
  filled in, a field that is not empty shows its picker's date, so that comparing the
  pickers is comparing the fields; and the days displayed are 1 to 28, so that turning
  to a shorter month and choosing one never makes a day that is none. `RangeConstants`
  assumes that today is a day and that what is typed has a day from 1 to 31, of any
  month, which is as far as `NewDate` carries over.
* `WrappersRight` proves `WrapperShowsValue`; `ControlsInv` adds that until the first
  restore every control with a wrapper is in `$.uniform.elements`, which is why an
  update of everything reaches it.
* `FilesOfTheirForms` proves `FileIsOfItsForm`; `UploadsInv` adds that the input of an
  upload is busy and has that upload only (`BusyWhileUploading`), that no file is
  refused once it is in an input, an upload, an id or a save (`OnlyAllowed`), and that
  the ids in the form are of this opening (`OfThisOpening`).
* `ChecksRight` proves `ChecksTellTruth` for all nine forms; `ChecksInv` adds that a
  confirmation looked at after its password is marked unless it equals it, that
  passwords are trimmed, so that the check of a save does not change them, and that the
  message a password's check looks for is never there.

The same module holds what is proved of three widgets and of a table with a server, see
there.

## DataTable

The library's settings object is one record, `grid`; its functions are functions on
that record, composed the way the library calls them, so a step is an event or a
call with everything it draws. Column `k` holds the letter `k` or nothing and a
search text is a sequence of letters, which is enough to tell apart a narrower
search from a longer one, and one column from another. `config` is one of the two
configurations of `script.js`, or the second with a cookie or a server.

Calls with their last argument unset leave work for later. `owed` keeps what,
and `TableTruthful` asks for everything that is not owed: the rows on display are
those that fit in the order of the headers, the page is the page the line below
tells of, details stand below their rows, the button for the next page looks off
on the last page only, and, with a server, an older answer never replaces a later
one. What the code does not keep is in `owed` too, or excluded by name:

* deleting a row the search hides drops the search text of another row
  (`jquery.dataTables.js:5319`), so the next narrower search keeps a row it should not;
* typing on after a search by regular expression narrows what is on display;
* a script that empties a table on a later page, or turns to the page after the
  last, leaves an empty page;
* a change of the length of a page can leave a page that starts in the middle of
  one, whose number is rounded, so that the button looks off too early;
* `fnDeleteRow` without a redraw and then `fnSetColumnVis` draws with an end that
  is out of date and throws (`Throws`).

*Proofs* (`PageScriptsProofs`), for any rows, columns, search texts, lengths and bounds, of
the table with a server among all four configurations. `LastAnswerFits` proves
`AnswersLast`, the part of `TableTruthful` that is about such a table: if what it displays
answers the last request, it answers what the fields, the headers and the page say now.
`NoOlderAnswer` adds that no step puts an older answer in the place of a later one. Both
rest on `TableInv`: requests are numbered upwards, every draw asks, and whoever was asked
with the number of the draw under way was asked for the settings as they still are, as
there is no way to change them without a draw. That a function of the library leaves
alone what it should is a lemma for each (`SameTable`, `Prepared`, `Redrawn`). What a table
without a server displays rests on filters and sorts of lists and stays with TLC.

The administration pages load and call the library for two classes that no
template of this commit carries: the module is about what the calls of `script.js`
promise a page that does.

## EventCalendar

`cal` is the variables of the library's `Calendar` and `EventManager` and a record
for each of the three views of `script.js`. Time is in ticks; a day of two, a week
of two days, a month of four and three weeks in a month's view keep every case: an
event over the edge of a week, of a month and of a view, with no end, on the same
days as another. `RenderedEvents` computes what a view shows: the segments
(`SliceSegs`), their levels (`StackSegs`) and their places (`Placed`, `RenderSlotSegs`).
Besides the array of `script.js` there may be a server, whose answers come in any
order or not at all, and the calendar may be covered and uncovered.

`CalendarTruthful` says that the counters count the requests under way
(`CountsRight`), that once all have answered the events are those of the present
sources, for a range that holds what is shown (`EventsRight`), that a view which is
not marked shows just these, every day of an event once and nothing over another
(`ViewsRight`), and that the view is the one of the date and of the selection
(`CurrentRight`). What the code does not keep is named in it:

* an answer that comes after its source was removed is let in (`strays`;
  `fullcalendar.js:913`), and comes twice when the source was added again;
* `removeEvents` replaces the array of a source, by which a script names it, so
  that it can no longer be removed (`given`; 1111 and 1223);
* events that arrive while the view has never been drawn make `clearEvents` throw
  inside the handler of the answer, so that the calendar says for ever that it is
  loading (`threw`; 2625 and 995).

Like `DataTable`, the module is about what the call in `script.js` promises a page
with such an element; no template of this commit has one.

## Widgets

Sixteen modules, each a library that `script.js` sets up, with the options it
gives. Each keeps one record, a library's variables and the part of the page it
changes; a function of the library is a function on that record, and a step is an
event or a call with all it does at once. What comes later (the end of a fade, a
time-out, an answer) is a step of its own, enabled as soon as it is under way, in
any order unless the lengths of two times decide it. Each has one invariant, named
`...Truthful`: once what is under way has come, what is shown is what was asked for
last. `WidgetsTruthful` is their conjunction. As with the two modules above, most of
the classes these calls look for are in no template of this commit, and
`jquery.blockUI.js` is the readable later version (2.60) of the packed `block.js`
(2.37) the pages do load: the modules say what the calls promise a page.

What the code does not keep is named as an exception in the invariant, or stands in
the action that does it; most were first met as counterexamples to an invariant
without them.

| Module | What it keeps | What the code does instead |
| --- | --- | --- |
| `BootstrapWidgets`, modal windows | windows, shades, body class, Escape handler, fades | a window shown again while it goes stays invisible behind a shade nobody removes; two windows share the body's class and the Escape handler |
| `BootstrapWidgets`, hints | one hint, its fade and time-out | a hint shown while a time-out runs is taken away by it |
| `BootstrapWidgets`, tabs | current tab, panes, fades | a second click before the pane of the first has come leaves two panes |
| `BootstrapWidgets`, accordions | panels, sizes that change, their objects | a panel closed by another before it has an object gets one that believes the opposite |
| `BootstrapWidgets`, fields that suggest | text, query, menu, requests | a late answer opens the menu after the field was left, after a choice, or for a text that was erased |
| `ChosenBox` | label or chips, list, text, focus, time-outs | no change event when a script had set the value meanwhile; the list stays open after a chip was removed and something typed, or when the field is left with the mouse over it; after an update by a script a pending backspace removes a chip twice; a pick with the meta key does not narrow the list anew |
| `FormValidator` | values, messages, marks, pending answers | the refusal of one field puts out the marks of others; an answer that comes while another field is wrong leaves `formSubmitted` set, so the form is sent later unasked; a failed request stays pending for ever; a late refusal marks a field that was changed |
| `PromptedForm` | values, prompts, fades, cached answers, requests | an entry changed and submitted without leaving the field is sent with the acceptance of the old one; two answers for a field cross; a prompt updated while it fades goes; a failed request leaves the prompt "loading"; members of a group after the first are judged by the first one's other rules or lose their own verdict; after `detach` the form is sent unchecked |
| `HashTable` | buckets twice, two tables | an emptied bucket of `"__proto__"` is still found but no longer listed, and removing it again unlists another |
| `StepWizard` | step, panes, queues, requests | a move while another is under way leaves two panes; the form can be finished before its first contents come; any answer hides the sign that it loads, a late one shows an older step |
| `FileDrop` | files, counts, requests | a second drop renames the files under way; `afterAll` is not called when every file is refused or an answer fails |
| `SwitchButton` | controls, handles, what is held | a group with a button that is no switch is not repainted; a release unchecks the radio button that was chosen meanwhile |
| `SpinnerBox` | value, text, interval, keys | a value from 1000 on makes `format.number` loop for ever; disabling while a button is held keeps the interval; a field put in order when it is left tells nobody; Home goes to the start when the minimum is 0 |
| `RangeSlider` | pointers, values, labels | setting both values when the new first is past the old second gives another pair; `prc` knows no limits; a value beyond a slider with segments loses its pointer |
| `LightBox` | group, index, loads, content, timers | a window resized while something loads lets a second load begin, whose answers cross; the slide show started by its button has a time-out that neither stop nor close ends |
| `BlockedElements` | layers, borrowed node, listener, time-out, fades | a page blocked again during a fade loses the node of the first block; unblocking twice, or blocking during a fade, leaves the listener untold; one with a time-out is told again at the next block; a growl note that is pointed at stops the fades of other elements, whose layers stay, and leaving it hides their messages |

*Proofs* (`PageScriptsProofs`), each of one widget alone, for any links, limits, numbers
and bounds; TLC checked the invariants of the spinner and the light box before.

* `SpinnerKeepsLimits` proves `SpinTruthful`. `SpinFine` adds to it where a button is held
  (`Holding`: the mouse is over it, the interval is its own and it alone looks pressed, and
  no interval runs in a disabled spinner) and holds in every state unless the page hangs.
  `SpinLimits` assumes whole numbers and a start within the limits.
* `HintsComeAndGo` proves `TipTruthful`. `TipFine` adds that no fade that would take a hint
  away runs while the hint is drawn, and that a hint which was never shown while a
  time-out ran is drawn only when none runs.
* `BoxShowsLastLink` proves `LightTruthful`, whose claims are about a box at rest.
  `LightFine` says what is true on the way: at most one load or move is under way as long as
  nothing has crossed, and it is for the link asked for last (`Straight`); where there are
  pictures alone, that one is at hand (`Pictured`); a slide show has a time-out or something
  that will set one (`GoesOn`), and never two (`OneTimeout`); a box that is not open
  does nothing (`Shut`). `LinksAssumption` assumes that "none" is no link and a group is a
  list of links.

| Run | Instance | Shows |
| --- | --- | --- |
| `stage` | 2 threads, 2 items and values, 3 maps, 1 update; 2 askers, 2 resources; 3 tabs in 2 browsers, 2 users, 3 log-ins or changes of a role among them; 2 servlet threads, executor of 1, 1 and 2, 4 requests, or 3 and another user in the session; limits on both sides of 2^31 and 2^32; 2 provinces with a city each and a county; 3 typed dates with the last days of months; 3 files; 5 controls; a table of 2 columns and up to 3 events or calls; a calendar of 8 days, 5 events, 2 sources and up to 3 clicks or calls; each widget with 3 to 6 events or calls | `FreshUnlessCrossed`, `StoreSpec`; `MarksAreOfRole`; `OneSessionUnlessRaced`, `SessionIsOfItsUser`; `LogAgreesWithTable`; `UploadsJudgedRight`; `AssignmentWindowTruthful`; `IntervalInOrder`; `ChecksTellTruth`; `FileIsOfItsForm`; `WrapperShowsValue`; `GridTruthful` (that is `TableTruthful`), `EventsTruthful` (`CalendarTruthful`) and `WidgetsTruthful`, each about the behaviours of their parts |

Values and users of sessions are interchangeable, and so the run starts from one of the
tables that differ only by that, with one of the users first (`FirstIsOneUser`).
Two of each actor are the least that race, and each race of this code is between
two. Three maps leave room for a fill that starts while two others put. The
executor with one thread, one place and one more thread meets all four cases of
`execute` with four requests. The parts that scripts keep are bounded by a number
of steps of the user (`MaxPicks`, `MaxTouches`, `MaxEntries`, `MaxSteps`,
`MaxMoves`, `MaxTableSteps`, `MaxCalSteps`, and one for each widget), each chosen
above the length at which the shortest interesting case happens, such as the
exceptions above. No fairness is assumed, and runs do not check for deadlock, since
nobody has to begin anything.

## What is only model-checked, and what is not modelled

Liveness under fairness (`AssignmentTakesEffect`, `ReloadHappens`, `SilentEnds`
and `CallsAndClientsEnd`) is out of the prover's reach and checked by TLC alone. So are three
invariants of `stage`, but for the conjuncts proved on their own (`AnswersLast`,
`SpinTruthful`, `TipTruthful`, `LightTruthful`): `GridTruthful`, `EventsTruthful` and
`WidgetsTruthful`. The rest of these is about lists that are filtered, sorted, flattened
and folded over (`SelectSeq`, `SortSeq`, `FlattenSeq`, `FoldLeft`), what is true of such a
result takes an induction over the list, and that is out of the prover's reach too.
`PromptedForm` and `StepWizard` are written with recursive operators, which no proof can be
about; as `MCStage` extends them, the three invariants cannot be named in a theorem as
they stand. What the violations show is shown by traces.

Not modelled:

* the API services, HTTP helpers, model classes and string utilities, which keep
  no state;
* templates and style sheets; the third-party queue client;
* `warningConfig.js`, which no page loads; the handler of `#deleteFile`, an element
  no page has; the effects of `script.js` on menus and the clock;
* the stage application's copy of `SocketServer`, never instantiated; the two
  copies of the hub differ in package and path;
* jQuery itself, but for the queue of effects that the widgets rest on;
* libraries whose result is pixels: charts (`raphael.js`), layouts (`montage`,
  `blocksit`, `isotope`), the colour picker, the growing text area; the carousel,
  the drop-down and the scroll spy of `bootstrap.js`; `numberformatter`,
  `maskui.js`, `tracing.js`;
* the packed files, of which no line can be named, but for `block.js`;
* in each library that is modelled: sizes, places, keys that only move the focus,
  and the code for old versions of Internet Explorer (the component's note says
  what else).

## Findings

The five runs that expect a violation are listed in `PROJECT.json` with the lines
they contradict: two administrators can leave a map without a committed assignment
(`race`); the check that a role is in use counts by the wrong id (`assigned`); a
push can report a client absent that was there (`socket_absent`); a message for the
clients of one name reaches a client of another (`hub_named`); two users can get one
address (`users_email`).
