---------------------------- MODULE SocketServer ----------------------------
(***************************************************************************)
(* The heart-beat socket server of the API application.                    *)
(*                                                                         *)
(* ConnWatchDog accepts connections and gives each a SocketAction, a       *)
(* thread that echoes lines; SocketCheckThread closes the connections that *)
(* have been silent for longer than receiveTimeDelay; threads of the       *)
(* application push messages with sendMessageToClientByToken, which finds  *)
(* a client by the last line it sent.  All of them share the static map    *)
(* SOCKET_ACTION_MAPPING, a ConcurrentHashMap, and the fields of the       *)
(* SocketActions, which nothing guards.                                    *)
(***************************************************************************)
EXTENDS Integers, Sequences, FiniteSets

CONSTANTS
  Sockets,   (* connections, each made at most once                        *)
  Ids,       (* lines a client may send; the last one is its id            *)
  Senders,   (* threads that call sendMessageToClientByToken               *)
  Delay,     (* receiveTimeDelay, in ticks                                 *)
  MaxLines,  (* bound: lines sent on one connection                        *)
  MaxThrows, (* bound: calls of Socket.close() that throw                  *)
  Null       (* Java null                                                  *)

ASSUME ConstantsAssumption ==
  /\ Delay \in Nat /\ MaxLines \in Nat /\ MaxThrows \in Nat
  /\ Null \notin Ids \cup Sockets

VARIABLES
  running,    (* SocketServer.running, volatile                            *)
  listening,  (* the ServerSocket is bound and open                        *)
  dog,        (* ConnWatchDog: its step and the socket it has accepted     *)
  stopping,   (* the container's call of stopSocketServer: "no", ...       *)
  link,       (* per connection: see Links                                 *)
  unread,     (* per connection: lines that wait to be read                *)
  sent,       (* per connection: number of lines sent                      *)
  mapping,    (* keys of SOCKET_ACTION_MAPPING                             *)
  pc,         (* per connection: the step of its SocketAction thread       *)
  run,        (* SocketAction.run                                          *)
  age,        (* time since SocketAction.lastReceiveTime, up to Delay + 1  *)
  clientId,   (* SocketAction.clientId                                     *)
  check,      (* SocketCheckThread: its step, its walk and its socket      *)
  send,       (* per sender: its step, its walk, its socket and its result *)
  throws,     (* calls of close() that threw so far                        *)
  excused,    (* history: connections that were silent for too long or     *)
              (* whose client hung up                                      *)
  held        (* history: per sender, see NotFoundIsRight                  *)

server  == <<running, listening, dog, stopping>>
clients == <<link, unread, sent>>
actions == <<pc, run, age, clientId>>
hist    == <<excused, held>>
vars    == <<server, clients, mapping, actions, check, send, throws, hist>>

(* "queued": in the backlog; "half": the client has closed its side;       *)
(* "closed": the server has closed the socket.                             *)
Links == {"none", "queued", "open", "half", "closed"}

-----------------------------------------------------------------------------
(* A walk over the entries of the ConcurrentHashMap: it visits every entry *)
(* that stays in the map once, one that is added or removed meanwhile at   *)
(* most once.                                                              *)
NewWalk == [start |-> mapping, seen |-> {}]
CanVisit(w) == (w.start \cup mapping) \ w.seen
(* Mutant of MustVisit: the loop is left after the first entry.            *)
FirstOnly(w) == IF w.seen = {} THEN w.start \cap mapping ELSE {}
MustVisit(w) == (w.start \cap mapping) \ w.seen
Visited(w, s) == [start |-> w.start, seen |-> w.seen \cup {s}]

(* Mutant of Expired: the comparison is not strict.                        *)
ExpiredAt(s) == age[s] >= Delay
Expired(s) == age[s] > Delay

Min2(a, b) == IF a < b THEN a ELSE b

(* After this step, s is a client that a sender can be expected to find.   *)
ReachableNext(s, id) ==
  s \in mapping' /\ link'[s] \in {"open", "half"} /\ clientId'[s] = id

(* Every step tells which connections a call still under way could have    *)
(* found since it began.                                                   *)
Observe ==
  held' = [x \in Senders |->
    IF send'[x].pc = "idle" THEN {}
    ELSE {s \in IF send[x].pc = "idle" THEN Sockets ELSE held[x] :
            ReachableNext(s, send'[x].id)}]

Idle == [pc |-> "idle", result |-> "none"]

Init ==
  /\ running = FALSE /\ listening = FALSE
  /\ dog = [pc |-> "new"] /\ stopping = "no"
  /\ link = [s \in Sockets |-> "none"]
  /\ unread = [s \in Sockets |-> <<>>]
  /\ sent = [s \in Sockets |-> 0]
  /\ mapping = {}
  /\ pc = [s \in Sockets |-> "none"]
  /\ run = [s \in Sockets |-> TRUE]
  /\ age = [s \in Sockets |-> 0]
  /\ clientId = [s \in Sockets |-> Null]
  /\ check = [pc |-> "new"]
  /\ send = [x \in Senders |-> Idle]
  /\ throws = 0
  /\ excused = {}
  /\ held = [x \in Senders |-> {}]

-----------------------------------------------------------------------------
(* The clients and the clock.                                              *)

Connect(s) ==
  /\ listening /\ link[s] = "none"
  /\ link' = [link EXCEPT ![s] = "queued"]
  /\ UNCHANGED <<server, unread, sent, mapping, actions, check, send, throws, excused>>

SendLine(s) ==
  /\ link[s] = "open" /\ sent[s] < MaxLines
  /\ \E id \in Ids : unread' = [unread EXCEPT ![s] = Append(@, id)]
  /\ sent' = [sent EXCEPT ![s] = @ + 1]
  /\ UNCHANGED <<server, link, mapping, actions, check, send, throws, excused>>

ClientCloses(s) ==
  /\ link[s] = "open"
  /\ link' = [link EXCEPT ![s] = "half"]
  /\ excused' = excused \cup {s}
  /\ UNCHANGED <<server, unread, sent, mapping, actions, check, send, throws>>

(* lastReceiveTime is set when the SocketAction is constructed.            *)
Aging(s) == link[s] \in {"open", "half", "closed"} /\ age[s] <= Delay

Tick ==
  /\ \E s \in Sockets : Aging(s)
  /\ age' = [s \in Sockets |-> IF Aging(s) THEN age[s] + 1 ELSE age[s]]
  /\ excused' = excused \cup {s \in Sockets : Aging(s) /\ age[s] = Delay}
  /\ UNCHANGED <<server, clients, mapping, pc, run, clientId, check, send, throws>>

-----------------------------------------------------------------------------
(* start and stopSocketServer.                                             *)

Start ==
  /\ ~ running /\ dog.pc = "new" /\ stopping = "no"
  /\ running' = TRUE
  /\ dog' = [pc |-> "bind"]
  /\ check' = [pc |-> "loop"]
  /\ UNCHANGED <<listening, stopping, clients, mapping, actions, send, throws, excused>>

StopFlag ==
  /\ stopping = "no" /\ dog.pc # "new"
  /\ stopping' = "flagged"
  /\ running' = FALSE
  /\ UNCHANGED <<listening, dog, clients, mapping, actions, check, send, throws, excused>>

(* The server socket is closed, if the watch dog has one by now ...        *)
StopClose ==
  /\ stopping = "flagged"
  /\ stopping' = "closed"
  /\ listening' = FALSE
  /\ UNCHANGED <<running, dog, clients, mapping, actions, check, send, throws, excused>>

(* ... and the thread of the watch dog is stopped, wherever it is.         *)
StopDog ==
  /\ stopping = "closed"
  /\ stopping' = "done"
  /\ dog' = [pc |-> "dead"]
  /\ UNCHANGED <<running, listening, clients, mapping, actions, check, send, throws,
                 excused>>

-----------------------------------------------------------------------------
(* ConnWatchDog.                                                           *)

DogBind ==
  /\ dog.pc = "bind"
  /\ listening' = TRUE
  /\ dog' = [pc |-> "loop"]
  /\ UNCHANGED <<running, stopping, clients, mapping, actions, check, send, throws, excused>>

DogLoop ==
  /\ dog.pc = "loop"
  /\ dog' = [pc |-> IF running THEN "accept" ELSE "dead"]
  /\ UNCHANGED <<running, listening, stopping, clients, mapping, actions, check, send,
                 throws, excused>>

(* A dog that waits in accept does not see that running has become false.  *)
DogAccept(s) ==
  /\ dog.pc = "accept" /\ listening /\ link[s] = "queued"
  /\ link' = [link EXCEPT ![s] = "open"]
  /\ dog' = [pc |-> "put", s |-> s]
  /\ UNCHANGED <<running, listening, stopping, unread, sent, mapping, actions, check,
                 send, throws, excused>>

(* Mutant of Registered: the new SocketAction is not put into the map.     *)
NotRegistered(s) == mapping
Registered(s) == mapping \cup {s}

DogPut ==
  /\ dog.pc = "put"
  /\ mapping' = Registered(dog.s)
  /\ dog' = [pc |-> "spawn", s |-> dog.s]
  /\ UNCHANGED <<running, listening, stopping, clients, actions, check, send, throws, excused>>

DogSpawn ==
  /\ dog.pc = "spawn"
  /\ pc' = [pc EXCEPT ![dog.s] = "loop"]
  /\ dog' = [pc |-> "loop"]
  /\ UNCHANGED <<running, listening, stopping, clients, mapping, run, age, clientId,
                 check, send, throws, excused>>

(* An IOException of the constructor or of accept: the dog stops the       *)
(* server, itself included.                                                *)
DogFails ==
  /\ dog.pc \in {"bind", "accept"}
  /\ running' = FALSE
  /\ listening' = FALSE
  /\ dog' = [pc |-> "dead"]
  /\ UNCHANGED <<stopping, clients, mapping, actions, check, send, throws, excused>>

-----------------------------------------------------------------------------
(* SocketAction.run of connection s.                                       *)

Goto(s, l) == pc' = [pc EXCEPT ![s] = l]

ActionLoop(s) ==
  /\ pc[s] = "loop"
  /\ Goto(s, IF running /\ run[s] THEN "test" ELSE "ended")
  /\ UNCHANGED <<server, clients, mapping, run, age, clientId, check, send, throws, excused>>

(* Too old, closed, something to read, or nothing to do; available may     *)
(* throw when the client has reset the connection.                         *)
ActionTest(s) ==
  /\ pc[s] = "test"
  /\ \/ Goto(s, IF Expired(s) \/ link[s] = "closed" THEN "close"
                ELSE IF unread[s] # <<>> THEN "read" ELSE "loop")
     \/ link[s] = "half" /\ Goto(s, "close")
  /\ UNCHANGED <<server, clients, mapping, run, age, clientId, check, send, throws, excused>>

(* readLine blocks while there is nothing to read; a line that is already  *)
(* in its buffer is returned even if the socket has been closed since.     *)
ReadLine(s) ==
  /\ pc[s] = "read" /\ unread[s] # <<>>
  /\ clientId' = [clientId EXCEPT ![s] = Head(unread[s])]
  /\ age' = [age EXCEPT ![s] = 0]
  /\ unread' = [unread EXCEPT ![s] = Tail(@)]
  /\ Goto(s, "echo")
  /\ UNCHANGED <<server, link, sent, mapping, run, check, send, throws, excused>>

(* The client has closed its side: readLine returns null, which becomes    *)
(* the id.                                                                 *)
ReadEnd(s) ==
  /\ pc[s] = "read" /\ link[s] = "half" /\ unread[s] = <<>>
  /\ clientId' = [clientId EXCEPT ![s] = Null]
  /\ Goto(s, "loop")
  /\ UNCHANGED <<server, clients, mapping, run, age, check, send, throws, excused>>

(* Reading throws if the check thread has closed the socket or the client  *)
(* has reset the connection; writing, if the check thread has.             *)
ReadThrows(s) ==
  /\ \/ pc[s] = "read" /\ link[s] \in {"half", "closed"}
     \/ pc[s] = "echo" /\ link[s] = "closed"
  /\ Goto(s, "close")
  /\ UNCHANGED <<server, clients, mapping, run, age, clientId, check, send, throws, excused>>

Echo(s) ==
  /\ pc[s] = "echo" /\ link[s] # "closed"
  /\ Goto(s, "read")
  /\ UNCHANGED <<server, clients, mapping, run, age, clientId, check, send, throws, excused>>

(* overThis: close() may throw, after which the entry is not removed.      *)
Close(s) ==
  /\ run' = [run EXCEPT ![s] = FALSE]
  /\ link' = [link EXCEPT ![s] = "closed"]

ActionClose(s) ==
  /\ pc[s] = "close"
  /\ Close(s)
  /\ \/ Goto(s, "remove") /\ UNCHANGED throws
     \/ throws < MaxThrows /\ throws' = throws + 1 /\ Goto(s, "loop")
  /\ UNCHANGED <<server, unread, sent, mapping, age, clientId, check, send, excused>>

(* Mutant of RemoveEntry: the entry of a closed socket is kept.            *)
KeepEntry(s) == mapping
RemoveEntry(s) == mapping \ {s}

ActionRemove(s) ==
  /\ pc[s] = "remove"
  /\ mapping' = RemoveEntry(s)
  /\ Goto(s, "loop")
  /\ UNCHANGED <<server, clients, run, age, clientId, check, send, throws, excused>>

-----------------------------------------------------------------------------
(* SocketCheckThread.                                                      *)

CheckLoop ==
  /\ check.pc = "loop"
  /\ check' = IF ~ running THEN [pc |-> "ended"]
              ELSE IF mapping = {} THEN [pc |-> "sleep"]
              ELSE [pc |-> "walk", w |-> NewWalk]
  /\ UNCHANGED <<server, clients, mapping, actions, send, throws, excused>>

CheckEntry(s) ==
  /\ check.pc = "walk" /\ s \in CanVisit(check.w)
  /\ check' = IF Expired(s) THEN [pc |-> "close", w |-> Visited(check.w, s), s |-> s]
              ELSE [pc |-> "walk", w |-> Visited(check.w, s)]
  /\ UNCHANGED <<server, clients, mapping, actions, send, throws, excused>>

(* overThis, whose own removal is repeated by the removal that follows.    *)
CheckClose ==
  /\ check.pc = "close"
  /\ Close(check.s)
  /\ check' = [pc |-> "remove", w |-> check.w, s |-> check.s]
  /\ UNCHANGED <<server, unread, sent, mapping, pc, age, clientId, send, throws, excused>>

CheckRemove ==
  /\ check.pc = "remove"
  /\ mapping' = RemoveEntry(check.s)
  /\ check' = [pc |-> "walk", w |-> check.w]
  /\ UNCHANGED <<server, clients, actions, send, throws, excused>>

(* Mutant of AfterSweep: the thread sweeps the map once.                   *)
AfterOneSweep == "ended"
AfterSweep == "sleep"

CheckDone ==
  /\ check.pc = "walk" /\ MustVisit(check.w) = {}
  /\ check' = [pc |-> AfterSweep]
  /\ UNCHANGED <<server, clients, mapping, actions, send, throws, excused>>

CheckWakes ==
  /\ check.pc = "sleep"
  /\ check' = [pc |-> "loop"]
  /\ UNCHANGED <<server, clients, mapping, actions, send, throws, excused>>

-----------------------------------------------------------------------------
(* sendMessageToClientByToken, called by thread x.                         *)

Sending(x, r) ==
  /\ send' = [send EXCEPT ![x] = r]
  /\ UNCHANGED <<server, clients, mapping, actions, check, throws, excused>>

Returns(x, result) ==
  Sending(x, [pc |-> "return", id |-> send[x].id, result |-> result])

Call(x) ==
  /\ send[x].pc = "idle"
  /\ \E id \in Ids : Sending(x, [pc |-> "walk", id |-> id, w |-> NewWalk])

(* The first test of an entry: its id is not blank ...                     *)
TestEntry(x, s) ==
  /\ send[x].pc = "walk" /\ s \in CanVisit(send[x].w)
  /\ Sending(x, IF clientId[s] = Null
                  THEN [pc |-> "walk", id |-> send[x].id, w |-> Visited(send[x].w, s)]
                  ELSE [pc |-> "compare", id |-> send[x].id, w |-> Visited(send[x].w, s),
                        s |-> s])

(* ... the second: it equals the one looked for.  By then the client may   *)
(* have hung up and the id be null: the call dies of a                     *)
(* NullPointerException, which it catches.                                 *)
CompareEntry(x) ==
  /\ send[x].pc = "compare"
  /\ LET s == send[x].s
     IN  IF clientId[s] = Null THEN Returns(x, "exception")
         ELSE IF clientId[s] = send[x].id
           THEN Sending(x, [pc |-> "stream", id |-> send[x].id, s |-> s])
           ELSE Sending(x, [pc |-> "walk", id |-> send[x].id, w |-> send[x].w])

(* getOutputStream throws if the socket is closed ...                      *)
OpenStream(x) ==
  /\ send[x].pc = "stream"
  /\ IF link[send[x].s] = "closed" THEN Returns(x, "exception")
     ELSE Sending(x, [pc |-> "print", id |-> send[x].id, s |-> send[x].s])

(* ... but the PrintWriter swallows every error: the answer is true.       *)
PushLine(x) ==
  /\ send[x].pc = "print"
  /\ Returns(x, IF link[send[x].s] = "open" THEN "delivered" ELSE "lost")

NotFound(x) ==
  /\ send[x].pc = "walk" /\ MustVisit(send[x].w) = {}
  /\ Returns(x, "not found")

Return(x) ==
  /\ send[x].pc = "return"
  /\ Sending(x, Idle)

-----------------------------------------------------------------------------
Client(s) == Connect(s) \/ SendLine(s) \/ ClientCloses(s)

Stop == StopFlag \/ StopClose \/ StopDog

Dog == DogBind \/ DogLoop \/ (\E s \in Sockets : DogAccept(s)) \/ DogPut \/ DogSpawn

Action(s) ==
  \/ ActionLoop(s) \/ ActionTest(s) \/ ReadLine(s) \/ ReadEnd(s) \/ ReadThrows(s)
  \/ Echo(s) \/ ActionClose(s) \/ ActionRemove(s)

Check ==
  \/ CheckLoop \/ (\E s \in Sockets : CheckEntry(s)) \/ CheckClose \/ CheckRemove
  \/ CheckDone \/ CheckWakes

Send(x) ==
  \/ Call(x) \/ (\E s \in Sockets : TestEntry(x, s)) \/ CompareEntry(x)
  \/ OpenStream(x) \/ PushLine(x) \/ NotFound(x) \/ Return(x)

Step ==
  \/ (\E s \in Sockets : Client(s) \/ Action(s))
  \/ Tick \/ Start \/ Stop \/ Dog \/ DogFails \/ Check
  \/ (\E x \in Senders : Send(x))

Next == Step /\ Observe

Spec == Init /\ [][Next]_vars

(* Every thread that can run is scheduled, and time passes.                *)
Fairness ==
  /\ WF_vars(Tick /\ Observe) /\ WF_vars(Dog /\ Observe) /\ WF_vars(Check /\ Observe)
  /\ \A s \in Sockets : WF_vars(Action(s) /\ Observe)

-----------------------------------------------------------------------------
(* Properties.                                                             *)

Walks == [start : SUBSET Sockets, seen : SUBSET Sockets]

(* Every variable holds values of its kind.                                *)
TypeOK ==
  /\ running \in BOOLEAN /\ listening \in BOOLEAN
  /\ stopping \in {"no", "flagged", "closed", "done"}
  /\ dog \in [pc : {"new", "bind", "loop", "accept", "dead"}]
             \cup [pc : {"put", "spawn"}, s : Sockets]
  /\ link \in [Sockets -> Links]
  /\ unread \in [Sockets -> Seq(Ids)]
  /\ sent \in [Sockets -> 0 .. MaxLines]
  /\ mapping \subseteq Sockets
  /\ pc \in [Sockets -> {"none", "loop", "test", "read", "echo", "close", "remove", "ended"}]
  /\ run \in [Sockets -> BOOLEAN]
  /\ age \in [Sockets -> 0 .. Delay + 1]
  /\ clientId \in [Sockets -> Ids \cup {Null}]
  /\ check \in [pc : {"new", "loop", "sleep", "ended"}] \cup [pc : {"walk"}, w : Walks]
               \cup [pc : {"close", "remove"}, w : Walks, s : Sockets]
  /\ send \in [Senders ->
       [pc : {"idle"}, result : {"none"}]
       \cup [pc : {"walk"}, id : Ids, w : Walks]
       \cup [pc : {"compare"}, id : Ids, w : Walks, s : Sockets]
       \cup [pc : {"stream", "print"}, id : Ids, s : Sockets]
       \cup [pc : {"return"}, id : Ids,
             result : {"exception", "delivered", "lost", "not found"}]]
  /\ throws \in 0 .. MaxThrows
  /\ excused \subseteq Sockets
  /\ held \in [Senders -> SUBSET Sockets]

(* A connection that has a thread stays in the map until it is closed:     *)
(* neither a sender nor the check thread can lose sight of it, whichever   *)
(* of the two closing threads removes the entry.                           *)
MappedUntilClosed ==
  \A s \in Sockets :
    pc[s] # "none" \/ dog = [pc |-> "spawn", s |-> s] =>
      s \in mapping \/ link[s] = "closed"

(* A connection is closed by the server only if, at some time, it was      *)
(* silent for longer than receiveTimeDelay, or its client hung up.         *)
ClosedOnlyAfterLapse ==
  \A s \in Sockets : link[s] = "closed" => s \in excused

(* A closed connection that is still in the map is about to be removed by  *)
(* a thread, or its close() threw.                                         *)
ClosedLeavesMap ==
  \A s \in Sockets :
    link[s] = "closed" /\ s \in mapping =>
      \/ pc[s] = "remove"
      \/ check.pc = "remove" /\ check.s = s
      \/ throws > 0

(* When a call answers that the client was not found, having walked the    *)
(* whole map, no open connection has had that id ever since it began.      *)
NotFoundIsRight ==
  \A x \in Senders :
    send[x].pc = "return" /\ send[x].result = "not found" => held[x] = {}

(* A silent connection comes to its end: while the server runs, one that   *)
(* is silent for too long leaves the map, even if its thread is blocked in *)
(* readLine or its close() threw; and the thread of a connection that is   *)
(* closed ends, whoever closed it.                                         *)
SilentEnds ==
  /\ \A s \in Sockets :
       s \in mapping /\ age[s] > Delay ~> s \notin mapping \/ age[s] <= Delay \/ ~ running
  /\ \A s \in Sockets : link[s] = "closed" ~> pc[s] \in {"none", "ended"}

(* SocketServer.java:264, "did not find the client to push the message     *)
(* to": a call that fails with this message, exception or not, had no      *)
(* client to find.                                                         *)
FalseMeansAbsent ==
  \A x \in Senders :
    send[x].pc = "return" /\ send[x].result \in {"not found", "exception"} => held[x] = {}

=============================================================================
