------------------------- MODULE SocketServerProofs -------------------------
(***************************************************************************)
(* Proofs about SocketServer, for any connections, lines, senders and      *)
(* delays: the safety of the shared map and of its three kinds of users.   *)
(***************************************************************************)
EXTENDS SocketServer, TLAPS

(* Types.  The states of the three walkers are records of several shapes:  *)
(* what a step needs of them is their parts.                               *)

DogStates ==
  [pc : {"new", "bind", "loop", "accept", "dead"}] \cup [pc : {"put", "spawn"}, s : Sockets]

CheckStates ==
  [pc : {"new", "loop", "sleep", "ended"}] \cup [pc : {"walk"}, w : Walks]
  \cup [pc : {"close", "remove"}, w : Walks, s : Sockets]

SendStates ==
  [pc : {"idle"}, result : {"none"}]
  \cup [pc : {"walk"}, id : Ids, w : Walks]
  \cup [pc : {"compare"}, id : Ids, w : Walks, s : Sockets]
  \cup [pc : {"stream", "print"}, id : Ids, s : Sockets]
  \cup [pc : {"return"}, id : Ids, result : {"exception", "delivered", "lost", "not found"}]

Steps == {"none", "loop", "test", "read", "echo", "close", "remove", "ended"}

ServerType ==
  /\ running \in BOOLEAN /\ listening \in BOOLEAN
  /\ stopping \in {"no", "flagged", "closed", "done"}
  /\ dog \in DogStates

ClientType ==
  /\ link \in [Sockets -> Links]
  /\ unread \in [Sockets -> Seq(Ids)]
  /\ sent \in [Sockets -> 0 .. MaxLines]

ActionType ==
  /\ pc \in [Sockets -> Steps]
  /\ run \in [Sockets -> BOOLEAN]
  /\ age \in [Sockets -> 0 .. Delay + 1]
  /\ clientId \in [Sockets -> Ids \cup {Null}]

SharedType ==
  /\ mapping \subseteq Sockets
  /\ throws \in 0 .. MaxThrows
  /\ excused \subseteq Sockets

CheckType == check \in CheckStates
SendType == send \in [Senders -> SendStates]
HeldType == held \in [Senders -> SUBSET Sockets]

LEMMA TypeParts ==
  TypeOK <=> /\ ServerType /\ ClientType /\ ActionType /\ SharedType
             /\ CheckType /\ SendType /\ HeldType
  BY DEF TypeOK, ServerType, ClientType, ActionType, SharedType, CheckType, SendType, HeldType,
         DogStates, CheckStates, SendStates, Steps

LEMMA DogParts ==
  ASSUME ServerType, dog.pc \in {"put", "spawn"}
  PROVE  dog.s \in Sockets
  BY DEF ServerType, DogStates

LEMMA CheckParts ==
  ASSUME CheckType
  PROVE  /\ check.pc \in {"new", "loop", "sleep", "ended", "walk", "close", "remove"}
         /\ check.pc \in {"walk", "close", "remove"} => check.w \in Walks
         /\ check.pc \in {"close", "remove"} => check.s \in Sockets
  BY DEF CheckType, CheckStates

LEMMA SendParts ==
  ASSUME NEW r \in SendStates
  PROVE  /\ r.pc \in {"idle", "walk", "compare", "stream", "print", "return"}
         /\ r.pc # "idle" => r.id \in Ids
         /\ r.pc \in {"walk", "compare"} => r.w \in Walks
         /\ r.pc \in {"compare", "stream", "print"} => r.s \in Sockets
  BY DEF SendStates

LEMMA WalkParts ==
  /\ \A w \in Walks : w.start \in SUBSET Sockets /\ w.seen \in SUBSET Sockets
  /\ \A w \in Walks, s \in Sockets :
       /\ Visited(w, s) \in Walks
       /\ Visited(w, s).start = w.start /\ Visited(w, s).seen = w.seen \cup {s}
  /\ mapping \subseteq Sockets =>
       NewWalk \in Walks /\ NewWalk.start = mapping /\ NewWalk.seen = {}
  BY DEF Walks, Visited, NewWalk

LEMMA InitTypes == Init => TypeOK
<1>1. SUFFICES ASSUME Init PROVE TypeOK
  OBVIOUS
<1>2. ServerType
  BY <1>1 DEF Init, ServerType, DogStates
<1>3. ClientType
  BY <1>1, ConstantsAssumption DEF Init, ClientType, Links
<1>4. ActionType
  BY <1>1, ConstantsAssumption DEF Init, ActionType, Steps
<1>5. SharedType
  BY <1>1, ConstantsAssumption DEF Init, SharedType
<1>6. CheckType
  BY <1>1 DEF Init, CheckType, CheckStates
<1>7. SendType /\ HeldType
  <2>1. Idle \in SendStates
    BY DEF Idle, SendStates
  <2> QED
    BY <1>1, <2>1 DEF Init, SendType, HeldType
<1> QED
  BY <1>2, <1>3, <1>4, <1>5, <1>6, <1>7, TypeParts

(* What a call has held is a set of connections whatever the step is.      *)
LEMMA ObserveTypes ==
  ASSUME HeldType, Observe
  PROVE  HeldType'
  BY DEF HeldType, Observe

Plain == ServerType /\ ClientType /\ ActionType /\ SharedType /\ CheckType /\ SendType

LEMMA ClientTypes ==
  ASSUME Plain, NEW s \in Sockets, Client(s)
  PROVE  Plain'
<1>1. UNCHANGED <<server, mapping, actions, check, send, throws>>
  BY DEF Client, Connect, SendLine, ClientCloses
<1>2. ClientType'
  <2>1. CASE Connect(s)
    BY <2>1 DEF Plain, ClientType, Connect, Links
  <2>2. CASE SendLine(s)
    BY <2>2, ConstantsAssumption DEF Plain, ClientType, SendLine
  <2>3. CASE ClientCloses(s)
    BY <2>3 DEF Plain, ClientType, ClientCloses, Links
  <2> QED
    BY <2>1, <2>2, <2>3 DEF Client
<1>3. excused' \subseteq Sockets
  BY DEF Plain, SharedType, Client, Connect, SendLine, ClientCloses
<1> QED
  BY <1>1, <1>2, <1>3 DEF Plain, ServerType, ActionType, SharedType, CheckType, SendType,
     server, actions

LEMMA TickTypes ==
  ASSUME Plain, Tick
  PROVE  Plain'
<1>1. age' \in [Sockets -> 0 .. Delay + 1]
  BY ConstantsAssumption DEF Plain, ActionType, Tick, Aging
<1>2. excused' \subseteq Sockets
  BY DEF Plain, SharedType, Tick
<1> QED
  BY <1>1, <1>2 DEF Plain, ServerType, ClientType, ActionType, SharedType, CheckType, SendType,
     Tick, server, clients

ServerStep == Start \/ Stop \/ Dog \/ DogFails

LEMMA ServerTypes ==
  ASSUME Plain, ServerStep
  PROVE  Plain'
<1>1. UNCHANGED <<unread, sent, run, age, clientId, send, throws, excused>>
  BY DEF ServerStep, Start, Stop, StopFlag, StopClose, StopDog, Dog, DogFails, DogBind, DogLoop,
         DogAccept, DogPut, DogSpawn, clients, actions, server
<1>2. /\ running' \in BOOLEAN /\ listening' \in BOOLEAN
      /\ stopping' \in {"no", "flagged", "closed", "done"}
  BY DEF Plain, ServerType, ServerStep, Start, Stop, StopFlag, StopClose, StopDog, Dog, DogFails,
         DogBind, DogLoop, DogAccept, DogPut, DogSpawn, server
<1>3. dog' \in DogStates
  <2>1. CASE DogPut
    BY <2>1, DogParts DEF Plain, DogStates, DogPut
  <2>2. ASSUME NEW s \in Sockets, DogAccept(s) PROVE dog' \in DogStates
    BY <2>2 DEF DogStates, DogAccept
  <2>3. CASE Start \/ Stop \/ DogBind \/ DogLoop \/ DogSpawn \/ DogFails
    BY <2>3 DEF Plain, ServerType, DogStates, Start, Stop, StopFlag, StopClose, StopDog, DogFails,
       DogBind, DogLoop, DogSpawn
  <2> QED
    BY <2>1, <2>2, <2>3 DEF ServerStep, Dog
<1>4. link' \in [Sockets -> Links] /\ pc' \in [Sockets -> Steps] /\ mapping' \subseteq Sockets
  <2>1. CASE DogPut
    BY <2>1, DogParts DEF Plain, ClientType, ActionType, SharedType, DogPut, Registered,
       clients, actions
  <2>2. ASSUME NEW s \in Sockets, DogAccept(s)
        PROVE  /\ link' \in [Sockets -> Links] /\ pc' \in [Sockets -> Steps]
               /\ mapping' \subseteq Sockets
    BY <2>2 DEF Plain, ClientType, ActionType, SharedType, DogAccept, Links, actions
  <2>3. CASE DogSpawn
    BY <2>3, DogParts DEF Plain, ClientType, ActionType, SharedType, DogSpawn, Steps, clients
  <2>4. CASE Start \/ Stop \/ DogBind \/ DogLoop \/ DogFails
    BY <2>4 DEF Plain, ClientType, ActionType, SharedType, Start, Stop, StopFlag, StopClose,
       StopDog, DogFails, DogBind, DogLoop, clients, actions
  <2> QED
    BY <2>1, <2>2, <2>3, <2>4 DEF ServerStep, Dog
<1>5. check' \in CheckStates
  BY DEF Plain, CheckType, CheckStates, ServerStep, Start, Stop, StopFlag, StopClose, StopDog,
     Dog, DogFails, DogBind, DogLoop, DogAccept, DogPut, DogSpawn
<1> QED
  BY <1>1, <1>2, <1>3, <1>4, <1>5 DEF Plain, ServerType, ClientType, ActionType, SharedType,
     CheckType, SendType

LEMMA ActionTypes ==
  ASSUME Plain, NEW s \in Sockets, Action(s)
  PROVE  Plain'
<1>1. UNCHANGED <<server, sent, check, send, excused>>
  BY DEF Action, ActionLoop, ActionTest, ReadLine, ReadEnd, ReadThrows, Echo, ActionClose,
         ActionRemove, clients
<1>2. pc' \in [Sockets -> Steps]
  BY DEF Plain, ActionType, Steps, Goto, Action, ActionLoop, ActionTest, ReadLine, ReadEnd,
         ReadThrows, Echo, ActionClose, ActionRemove
<1>3. link' \in [Sockets -> Links] /\ run' \in [Sockets -> BOOLEAN]
  BY DEF Plain, ClientType, ActionType, Links, Close, Action, ActionLoop, ActionTest, ReadLine,
         ReadEnd, ReadThrows, Echo, ActionClose, ActionRemove, clients
<1>4. mapping' \subseteq Sockets /\ throws' \in 0 .. MaxThrows
  BY ConstantsAssumption DEF Plain, SharedType, RemoveEntry, Action, ActionLoop, ActionTest,
     ReadLine, ReadEnd, ReadThrows, Echo, ActionClose, ActionRemove
<1>5. /\ unread' \in [Sockets -> Seq(Ids)]
      /\ age' \in [Sockets -> 0 .. Delay + 1]
      /\ clientId' \in [Sockets -> Ids \cup {Null}]
  <2>1. CASE ReadLine(s)
    <3>1. unread[s] \in Seq(Ids) /\ unread[s] # <<>>
      BY <2>1 DEF Plain, ClientType, ReadLine
    <3>2. Head(unread[s]) \in Ids /\ Tail(unread[s]) \in Seq(Ids)
      BY <3>1
    <3> QED
      BY <2>1, <3>2, ConstantsAssumption DEF Plain, ClientType, ActionType, ReadLine
  <2>2. CASE ~ ReadLine(s)
    BY <2>2 DEF Plain, ClientType, ActionType, Action, ActionLoop, ActionTest, ReadEnd,
       ReadThrows, Echo, ActionClose, ActionRemove, clients
  <2> QED
    BY <2>1, <2>2
<1> QED
  BY <1>1, <1>2, <1>3, <1>4, <1>5 DEF Plain, ServerType, ClientType, ActionType, SharedType,
     CheckType, SendType, server

LEMMA CheckTypes ==
  ASSUME Plain, Check
  PROVE  Plain'
<1>1. UNCHANGED <<server, unread, sent, pc, age, clientId, send, throws, excused>>
  BY DEF Check, CheckLoop, CheckEntry, CheckClose, CheckRemove, CheckDone, CheckWakes, clients,
         actions
<1>2. check' \in CheckStates
  <2>1. ASSUME NEW s \in Sockets, CheckEntry(s) PROVE check' \in CheckStates
    BY <2>1, CheckParts, WalkParts DEF Plain, CheckEntry, CheckStates
  <2>2. CASE CheckLoop
    BY <2>2, WalkParts DEF Plain, SharedType, CheckLoop, CheckStates
  <2>3. CASE CheckClose \/ CheckRemove
    BY <2>3, CheckParts DEF Plain, CheckClose, CheckRemove, CheckStates
  <2>4. CASE CheckDone \/ CheckWakes
    BY <2>4 DEF CheckDone, CheckWakes, CheckStates, AfterSweep
  <2> QED
    BY <2>1, <2>2, <2>3, <2>4 DEF Check
<1>3. /\ link' \in [Sockets -> Links] /\ run' \in [Sockets -> BOOLEAN]
      /\ mapping' \subseteq Sockets
  BY CheckParts DEF Plain, ClientType, ActionType, SharedType, Links, Close, RemoveEntry, Check,
     CheckLoop, CheckEntry, CheckClose, CheckRemove, CheckDone, CheckWakes, clients, actions
<1> QED
  BY <1>1, <1>2, <1>3 DEF Plain, ServerType, ClientType, ActionType, SharedType, CheckType,
     SendType, server

(* A sender changes its own state only.                                    *)
LEMMA SendStep ==
  ASSUME SendType, SharedType, NEW x \in Senders, Send(x)
  PROVE  /\ UNCHANGED <<server, clients, mapping, actions, check, throws, excused>>
         /\ send' = [send EXCEPT ![x] = send'[x]]
         /\ send'[x] \in SendStates
<1>1. send[x] \in SendStates /\ send \in [Senders -> SendStates]
  BY DEF SendType
<1>2. UNCHANGED <<server, clients, mapping, actions, check, throws, excused>>
  BY DEF Send, Call, TestEntry, CompareEntry, OpenStream, PushLine, NotFound, Return, Returns,
         Sending
<1>3. \E r \in SendStates : send' = [send EXCEPT ![x] = r]
  <2>1. CASE Call(x)
    <3>1. PICK id \in Ids : send' = [send EXCEPT ![x] = [pc |-> "walk", id |-> id, w |-> NewWalk]]
      BY <2>1 DEF Call, Sending
    <3>2. [pc |-> "walk", id |-> id, w |-> NewWalk] \in SendStates
      BY WalkParts DEF SharedType, SendStates
    <3> QED
      BY <3>1, <3>2
  <2>2. ASSUME NEW s \in Sockets, TestEntry(x, s)
        PROVE  \E r \in SendStates : send' = [send EXCEPT ![x] = r]
    <3>1. send[x].id \in Ids /\ Visited(send[x].w, s) \in Walks
      BY <1>1, <2>2, SendParts, WalkParts DEF TestEntry
    <3>2. /\ [pc |-> "walk", id |-> send[x].id, w |-> Visited(send[x].w, s)] \in SendStates
          /\ [pc |-> "compare", id |-> send[x].id, w |-> Visited(send[x].w, s), s |-> s]
               \in SendStates
      BY <3>1 DEF SendStates
    <3> QED
      BY <2>2, <3>2 DEF TestEntry, Sending
  <2>3. CASE CompareEntry(x)
    <3>1. send[x].id \in Ids /\ send[x].w \in Walks /\ send[x].s \in Sockets
      BY <1>1, <2>3, SendParts DEF CompareEntry
    <3>2. /\ [pc |-> "return", id |-> send[x].id, result |-> "exception"] \in SendStates
          /\ [pc |-> "stream", id |-> send[x].id, s |-> send[x].s] \in SendStates
          /\ [pc |-> "walk", id |-> send[x].id, w |-> send[x].w] \in SendStates
      BY <3>1 DEF SendStates
    <3> QED
      BY <2>3, <3>2 DEF CompareEntry, Returns, Sending
  <2>4. CASE OpenStream(x) \/ PushLine(x) \/ NotFound(x)
    <3>1. send[x].id \in Ids /\ (send[x].pc = "stream" => send[x].s \in Sockets)
      BY <1>1, <2>4, SendParts DEF OpenStream, PushLine, NotFound
    <3>2. \A result \in {"exception", "delivered", "lost", "not found"} :
            [pc |-> "return", id |-> send[x].id, result |-> result] \in SendStates
      BY <3>1 DEF SendStates
    <3>3. send[x].pc = "stream" =>
            [pc |-> "print", id |-> send[x].id, s |-> send[x].s] \in SendStates
      BY <3>1 DEF SendStates
    <3> QED
      BY <2>4, <3>2, <3>3 DEF OpenStream, PushLine, NotFound, Returns, Sending
  <2>5. CASE Return(x)
    BY <2>5 DEF Return, Sending, Idle, SendStates
  <2> QED
    BY <2>1, <2>2, <2>3, <2>4, <2>5 DEF Send
<1> QED
  BY <1>1, <1>2, <1>3

LEMMA StepTypes ==
  ASSUME Plain, Step
  PROVE  Plain'
<1>1. ASSUME NEW s \in Sockets, Client(s) \/ Action(s) PROVE Plain'
  BY <1>1, ClientTypes, ActionTypes
<1>2. CASE Tick \/ ServerStep \/ Check
  BY <1>2, TickTypes, ServerTypes, CheckTypes
<1>3. ASSUME NEW x \in Senders, Send(x) PROVE Plain'
  <2>1. /\ UNCHANGED <<server, clients, mapping, actions, check, throws, excused>>
        /\ send' \in [Senders -> SendStates]
    BY <1>3, SendStep DEF Plain, SendType
  <2> QED
    BY <2>1 DEF Plain, ServerType, ClientType, ActionType, SharedType, CheckType, SendType,
       server, clients, actions
<1> QED
  BY <1>1, <1>2, <1>3 DEF Step, ServerStep

LEMMA NextTypes == TypeOK /\ [Next]_vars => TypeOK'
<1>1. ASSUME TypeOK, Next PROVE TypeOK'
  BY <1>1, TypeParts, StepTypes, ObserveTypes, PTL DEF Next, Plain
<1>2. ASSUME TypeOK, UNCHANGED vars PROVE TypeOK'
  BY <1>2 DEF TypeOK, vars, server, clients, actions, hist
<1> QED
  BY <1>1, <1>2

(* Every variable holds values of its kind, in every behaviour.            *)
THEOREM SocketTypes == Spec => []TypeOK
  BY InitTypes, NextTypes, PTL DEF Spec

-----------------------------------------------------------------------------
(* The inductive invariant of the shared map.                              *)

(* A connection that no thread but the watch dog has met.                  *)
Unmet(s) == link[s] \in {"none", "queued"} \/ (dog.pc = "put" /\ dog.s = s)

UnmetIsUnknown ==
  /\ \A s \in Sockets :
       Unmet(s) =>
         /\ link[s] # "closed" /\ s \notin mapping /\ pc[s] = "none"
         /\ check.pc \in {"walk", "close", "remove"} => s \notin check.w.start
         /\ check.pc \in {"close", "remove"} => check.s # s
  /\ dog.pc \in {"put", "spawn"} =>
       link[dog.s] \notin {"none", "queued"} /\ pc[dog.s] = "none"
  /\ dog.pc = "new" => check.pc = "new"

(* What may lead to a close is excused by then.                            *)
ReasonsExcused ==
  /\ \A s \in Sockets :
       link[s] \in {"half", "closed"} \/ age[s] > Delay \/ pc[s] = "close" => s \in excused
  /\ check.pc = "close" => check.s \in excused

(* An entry is removed after its socket was closed.                        *)
ClosedBeforeRemoved ==
  /\ \A s \in Sockets : pc[s] = "remove" => link[s] = "closed"
  /\ check.pc = "remove" => link[check.s] = "closed"

Mapped ==
  \A s \in Sockets :
    pc[s] # "none" \/ (dog.pc = "spawn" /\ dog.s = s) => s \in mapping \/ link[s] = "closed"

MapInv ==
  /\ UnmetIsUnknown /\ ReasonsExcused /\ ClosedBeforeRemoved /\ Mapped /\ ClosedLeavesMap

(* What a call still under way has held is in its walk, unseen but for the *)
(* entry it is comparing.                                                  *)
HeldAhead ==
  \A x \in Senders :
    send[x].pc \in {"walk", "compare"} =>
      \A s \in held[x] :
        /\ s \in mapping /\ s \in send[x].w.start /\ clientId[s] = send[x].id
        /\ s \notin send[x].w.seen \/ (send[x].pc = "compare" /\ send[x].s = s)

HeldInv == HeldAhead /\ NotFoundIsRight

LEMMA InitMap == Init => MapInv
<1>1. SUFFICES ASSUME Init PROVE MapInv
  OBVIOUS
<1>2. UnmetIsUnknown
  BY <1>1 DEF Init, UnmetIsUnknown, Unmet
<1>3. ReasonsExcused
  BY <1>1, ConstantsAssumption DEF Init, ReasonsExcused
<1>4. ClosedBeforeRemoved /\ Mapped /\ ClosedLeavesMap
  BY <1>1 DEF Init, ClosedBeforeRemoved, Mapped, ClosedLeavesMap
<1> QED
  BY <1>2, <1>3, <1>4 DEF MapInv

(* Clients only make links, and half-close open ones.                      *)
LEMMA ClientMap ==
  ASSUME Plain, MapInv, NEW s \in Sockets, Client(s)
  PROVE  MapInv'
<1>1. UNCHANGED <<dog, mapping, pc, age, check, throws>>
  BY DEF Client, Connect, SendLine, ClientCloses, server, actions
<1>2. /\ \A t \in Sockets : link'[t] = "closed" <=> link[t] = "closed"
      /\ \A t \in Sockets : link'[t] \in {"none", "queued"} <=> link[t] \in {"none", "queued"}
      /\ \A t \in Sockets : link'[t] = "half" => link[t] = "half" \/ t \in excused'
      /\ excused \subseteq excused'
  BY DEF Plain, ClientType, Client, Connect, SendLine, ClientCloses
<1>3. UnmetIsUnknown'
  BY <1>1, <1>2, DogParts DEF Plain, MapInv, UnmetIsUnknown, Unmet
<1>4. ReasonsExcused'
  BY <1>1, <1>2 DEF MapInv, ReasonsExcused
<1>5. ClosedBeforeRemoved'
  BY <1>1, <1>2, CheckParts DEF Plain, MapInv, ClosedBeforeRemoved
<1>6. Mapped' /\ ClosedLeavesMap'
  BY <1>1, <1>2 DEF MapInv, Mapped, ClosedLeavesMap
<1> QED
  BY <1>3, <1>4, <1>5, <1>6 DEF MapInv

(* Time excuses whom it makes expire.                                      *)
LEMMA TickMap ==
  ASSUME Plain, MapInv, Tick
  PROVE  MapInv'
<1>1. UNCHANGED <<dog, link, mapping, pc, check, throws>> /\ excused \subseteq excused'
  BY DEF Tick, server, clients
<1>2. \A t \in Sockets : age'[t] > Delay => age[t] > Delay \/ t \in excused'
  BY ConstantsAssumption DEF Plain, ActionType, Tick, Aging
<1>3. ReasonsExcused'
  BY <1>1, <1>2 DEF MapInv, ReasonsExcused
<1>4. UnmetIsUnknown' /\ ClosedBeforeRemoved' /\ Mapped' /\ ClosedLeavesMap'
  BY <1>1 DEF MapInv, UnmetIsUnknown, Unmet, ClosedBeforeRemoved, Mapped, ClosedLeavesMap
<1> QED
  BY <1>3, <1>4 DEF MapInv

(* The watch dog takes a connection nobody knows, registers it, and gives  *)
(* it a thread only then.                                                  *)
LEMMA ServerMap ==
  ASSUME Plain, MapInv, ServerStep
  PROVE  MapInv'
<1>1. UNCHANGED <<age, throws, excused>>
  BY DEF ServerStep, Start, Stop, StopFlag, StopClose, StopDog, Dog, DogFails, DogBind, DogLoop,
         DogAccept, DogPut, DogSpawn, actions
<1>2. ASSUME NEW s \in Sockets, DogAccept(s) PROVE MapInv'
  <2>1. /\ UNCHANGED <<mapping, pc, check>> /\ link[s] = "queued"
        /\ link' = [link EXCEPT ![s] = "open"] /\ dog' = [pc |-> "put", s |-> s]
    BY <1>2 DEF DogAccept, actions
  <2>2. /\ link'[s] = "open" /\ \A t \in Sockets \ {s} : link'[t] = link[t]
        /\ dog'.pc = "put" /\ dog'.s = s
    BY <2>1 DEF Plain, ClientType
  <2>3. UnmetIsUnknown'
    BY <2>1, <2>2 DEF MapInv, UnmetIsUnknown, Unmet
  <2>4. ReasonsExcused' /\ ClosedBeforeRemoved'
    BY <1>1, <2>1, <2>2, CheckParts DEF Plain, MapInv, ReasonsExcused, ClosedBeforeRemoved
  <2>5. Mapped' /\ ClosedLeavesMap'
    BY <1>1, <2>1, <2>2 DEF MapInv, Mapped, ClosedLeavesMap
  <2> QED
    BY <2>3, <2>4, <2>5 DEF MapInv
<1>3. CASE DogPut
  <2>1. /\ UNCHANGED <<link, pc, check>> /\ dog.pc = "put" /\ dog.s \in Sockets
        /\ mapping' = mapping \cup {dog.s} /\ dog'.pc = "spawn" /\ dog'.s = dog.s
    BY <1>3, DogParts DEF Plain, DogPut, Registered, clients, actions
  <2>2. link[dog.s] \notin {"none", "queued", "closed"}
    BY <2>1 DEF MapInv, UnmetIsUnknown, Unmet
  <2>3. UnmetIsUnknown'
    BY <2>1, <2>2 DEF MapInv, UnmetIsUnknown, Unmet
  <2>4. ReasonsExcused' /\ ClosedBeforeRemoved'
    BY <1>1, <2>1 DEF MapInv, ReasonsExcused, ClosedBeforeRemoved
  <2>5. Mapped' /\ ClosedLeavesMap'
    BY <1>1, <2>1, <2>2 DEF MapInv, Mapped, ClosedLeavesMap
  <2> QED
    BY <2>3, <2>4, <2>5 DEF MapInv
<1>4. CASE DogSpawn
  <2>1. /\ UNCHANGED <<link, mapping, check>> /\ dog.pc = "spawn" /\ dog.s \in Sockets
        /\ pc' = [pc EXCEPT ![dog.s] = "loop"] /\ dog'.pc = "loop"
    BY <1>4, DogParts DEF Plain, DogSpawn, clients
  <2>2. /\ pc'[dog.s] = "loop" /\ \A t \in Sockets \ {dog.s} : pc'[t] = pc[t]
        /\ pc[dog.s] = "none"
    BY <2>1 DEF Plain, ActionType, MapInv, UnmetIsUnknown
  <2>3. UnmetIsUnknown'
    BY <2>1, <2>2 DEF MapInv, UnmetIsUnknown, Unmet
  <2>4. ReasonsExcused' /\ ClosedBeforeRemoved' /\ Mapped'
    BY <1>1, <2>1, <2>2 DEF MapInv, ReasonsExcused, ClosedBeforeRemoved, Mapped
  <2>5. ClosedLeavesMap'
    BY <1>1, <2>1, <2>2 DEF MapInv, ClosedLeavesMap
  <2> QED
    BY <2>3, <2>4, <2>5 DEF MapInv
<1>5. CASE Start \/ Stop \/ DogBind \/ DogLoop \/ DogFails
  <2>1. /\ UNCHANGED <<link, mapping, pc>>
        /\ dog'.pc \notin {"put", "spawn"} \/ UNCHANGED dog
        /\ dog'.pc = "new" => dog.pc = "new" /\ UNCHANGED check
        /\ (check.pc = "new" /\ check'.pc = "loop") \/ UNCHANGED check
    BY <1>5 DEF MapInv, UnmetIsUnknown, Start, Stop, StopFlag, StopClose, StopDog,
       DogBind, DogLoop, DogFails, clients, actions
  <2>2. UnmetIsUnknown'
    BY <2>1 DEF MapInv, UnmetIsUnknown, Unmet
  <2>3. ReasonsExcused' /\ ClosedBeforeRemoved' /\ Mapped'
    BY <1>1, <2>1 DEF MapInv, ReasonsExcused, ClosedBeforeRemoved, Mapped
  <2>4. ClosedLeavesMap'
    BY <1>1, <2>1 DEF MapInv, ClosedLeavesMap
  <2> QED
    BY <2>2, <2>3, <2>4 DEF MapInv
<1> QED
  BY <1>2, <1>3, <1>4, <1>5 DEF ServerStep, Dog

(* A thread of a connection closes it for a reason, and removes its entry  *)
(* after that.                                                             *)
LEMMA ActionMap ==
  ASSUME Plain, MapInv, NEW s \in Sockets, Action(s)
  PROVE  MapInv'
<1>1. UNCHANGED <<dog, check, excused>> /\ pc[s] # "none"
  BY DEF Action, ActionLoop, ActionTest, ReadLine, ReadEnd, ReadThrows, Echo, ActionClose,
         ActionRemove, server
<1>2. /\ pc'[s] # "none"
      /\ \A t \in Sockets \ {s} : pc'[t] = pc[t] /\ link'[t] = link[t] /\ age'[t] = age[t]
  BY DEF Plain, ClientType, ActionType, Goto, Close, Action, ActionLoop, ActionTest, ReadLine,
         ReadEnd, ReadThrows, Echo, ActionClose, ActionRemove, clients
<1>3. ~ Unmet(s)
  BY <1>1 DEF MapInv, UnmetIsUnknown
<1>4. CASE ActionClose(s)
  <2>1. /\ mapping' = mapping /\ age' = age /\ link'[s] = "closed" /\ pc[s] = "close"
        /\ throws \in Nat
        /\ (pc'[s] = "remove" /\ throws' = throws) \/ (pc'[s] = "loop" /\ throws' = throws + 1)
    BY <1>4, ConstantsAssumption
       DEF Plain, ClientType, ActionType, SharedType, ActionClose, Close, Goto
  <2>2. UnmetIsUnknown'
    BY <1>1, <1>2, <1>3, <2>1, DogParts DEF Plain, MapInv, UnmetIsUnknown, Unmet
  <2>3. ReasonsExcused' /\ ClosedBeforeRemoved'
    BY <1>1, <1>2, <2>1, CheckParts DEF Plain, MapInv, ReasonsExcused, ClosedBeforeRemoved
  <2>4. Mapped' /\ ClosedLeavesMap'
    BY <1>1, <1>2, <2>1 DEF MapInv, Mapped, ClosedLeavesMap
  <2> QED
    BY <2>2, <2>3, <2>4 DEF MapInv
<1>5. CASE ActionRemove(s)
  <2>1. /\ mapping' = mapping \ {s} /\ UNCHANGED <<link, age, throws>>
        /\ pc[s] = "remove" /\ pc'[s] = "loop"
    BY <1>5 DEF Plain, ActionType, ActionRemove, RemoveEntry, Goto, clients
  <2>2. UnmetIsUnknown'
    BY <1>1, <1>2, <1>3, <2>1, DogParts DEF Plain, MapInv, UnmetIsUnknown, Unmet
  <2>3. ReasonsExcused' /\ ClosedBeforeRemoved'
    BY <1>1, <1>2, <2>1 DEF MapInv, ReasonsExcused, ClosedBeforeRemoved
  <2>4. Mapped' /\ ClosedLeavesMap'
    BY <1>1, <1>2, <2>1 DEF MapInv, ClosedBeforeRemoved, Mapped, ClosedLeavesMap
  <2> QED
    BY <2>2, <2>3, <2>4 DEF MapInv
<1>6. CASE ~ ActionClose(s) /\ ~ ActionRemove(s)
  <2>1. UNCHANGED <<link, mapping, throws>> /\ pc[s] # "remove" /\ pc'[s] # "remove"
    BY <1>6 DEF Plain, ActionType, Goto, Action, ActionLoop, ActionTest, ReadLine, ReadEnd,
       ReadThrows, Echo, clients
  <2>2. pc'[s] = "close" => link[s] \in {"half", "closed"} \/ age[s] > Delay
    BY <1>6 DEF Plain, ActionType, Goto, Expired, Action, ActionLoop, ActionTest, ReadLine,
       ReadEnd, ReadThrows, Echo
  <2>3. age'[s] > Delay => age[s] > Delay
    BY <1>6, ConstantsAssumption DEF Plain, ActionType, Action, ActionLoop, ActionTest, ReadLine,
       ReadEnd, ReadThrows, Echo
  <2>4. UnmetIsUnknown'
    BY <1>1, <1>2, <1>3, <2>1, DogParts DEF Plain, MapInv, UnmetIsUnknown, Unmet
  <2>5. ReasonsExcused'
    BY <1>1, <1>2, <2>1, <2>2, <2>3 DEF MapInv, ReasonsExcused
  <2>6. ClosedBeforeRemoved' /\ Mapped' /\ ClosedLeavesMap'
    BY <1>1, <1>2, <2>1 DEF MapInv, ClosedBeforeRemoved, Mapped, ClosedLeavesMap
  <2> QED
    BY <2>4, <2>5, <2>6 DEF MapInv
<1> QED
  BY <1>4, <1>5, <1>6

(* The check thread closes what is silent for too long, and removes it     *)
(* after that.                                                             *)
LEMMA CheckMap ==
  ASSUME Plain, MapInv, Check
  PROVE  MapInv'
<1>1. UNCHANGED <<dog, pc, age, throws, excused>>
  BY DEF Check, CheckLoop, CheckEntry, CheckClose, CheckRemove, CheckDone, CheckWakes, server,
         actions
<1>2. check.pc # "new" /\ check'.pc # "new" /\ dog.pc # "new"
  BY DEF MapInv, UnmetIsUnknown, Check, CheckLoop, CheckEntry, CheckClose, CheckRemove,
         CheckDone, CheckWakes, AfterSweep
<1>3. CASE CheckLoop
  <2>1. UNCHANGED <<link, mapping>> /\ check.pc = "loop"
    BY <1>3 DEF CheckLoop, clients
  <2>2. \/ check'.pc \in {"ended", "sleep"}
        \/ check'.pc = "walk" /\ check'.w.start = mapping
    BY <1>3 DEF CheckLoop, NewWalk
  <2>3. UnmetIsUnknown'
    BY <1>1, <1>2, <2>1, <2>2 DEF MapInv, UnmetIsUnknown, Unmet
  <2>4. ReasonsExcused' /\ ClosedBeforeRemoved' /\ Mapped' /\ ClosedLeavesMap'
    BY <1>1, <2>1, <2>2 DEF MapInv, ReasonsExcused, ClosedBeforeRemoved, Mapped,
       ClosedLeavesMap
  <2> QED
    BY <2>3, <2>4 DEF MapInv
<1>4. ASSUME NEW s \in Sockets, CheckEntry(s) PROVE MapInv'
  <2>1. /\ UNCHANGED <<link, mapping>> /\ check.pc = "walk" /\ s \in check.w.start \cup mapping
        /\ check'.w.start = check.w.start
        /\ check'.pc = "walk" \/ (check'.pc = "close" /\ check'.s = s /\ age[s] > Delay)
    BY <1>4 DEF CheckEntry, CanVisit, Visited, Expired, clients
  <2>2. UnmetIsUnknown'
    BY <1>1, <1>2, <2>1 DEF MapInv, UnmetIsUnknown, Unmet
  <2>3. ReasonsExcused' /\ ClosedBeforeRemoved' /\ Mapped' /\ ClosedLeavesMap'
    BY <1>1, <2>1 DEF MapInv, ReasonsExcused, ClosedBeforeRemoved, Mapped, ClosedLeavesMap
  <2> QED
    BY <2>2, <2>3 DEF MapInv
<1>5. CASE CheckClose
  <2>1. /\ mapping' = mapping /\ check.pc = "close" /\ check'.pc = "remove"
        /\ check'.w.start = check.w.start /\ check'.s = check.s /\ check.s \in Sockets
    BY <1>5, CheckParts DEF Plain, CheckClose
  <2>2. /\ link'[check.s] = "closed"
        /\ \A t \in Sockets \ {check.s} : link'[t] = link[t]
    BY <1>5, <2>1 DEF Plain, ClientType, CheckClose, Close
  <2>3. ~ Unmet(check.s)
    BY <2>1 DEF MapInv, UnmetIsUnknown
  <2>4. UnmetIsUnknown'
    BY <1>1, <1>2, <2>1, <2>2, <2>3, DogParts DEF Plain, MapInv, UnmetIsUnknown, Unmet
  <2>5. ReasonsExcused' /\ ClosedBeforeRemoved'
    BY <1>1, <2>1, <2>2 DEF MapInv, ReasonsExcused, ClosedBeforeRemoved
  <2>6. Mapped' /\ ClosedLeavesMap'
    BY <1>1, <2>1, <2>2 DEF MapInv, Mapped, ClosedLeavesMap
  <2> QED
    BY <2>4, <2>5, <2>6 DEF MapInv
<1>6. CASE CheckRemove
  <2>1. /\ link' = link /\ mapping' = mapping \ {check.s} /\ check.pc = "remove"
        /\ check'.pc = "walk" /\ check'.w = check.w /\ check.s \in Sockets
    BY <1>6, CheckParts DEF Plain, CheckRemove, RemoveEntry, clients
  <2>2. UnmetIsUnknown'
    BY <1>1, <1>2, <2>1 DEF MapInv, UnmetIsUnknown, Unmet
  <2>3. ReasonsExcused' /\ ClosedBeforeRemoved' /\ Mapped' /\ ClosedLeavesMap'
    BY <1>1, <2>1 DEF MapInv, ReasonsExcused, ClosedBeforeRemoved, Mapped, ClosedLeavesMap
  <2> QED
    BY <2>2, <2>3 DEF MapInv
<1>7. CASE CheckDone \/ CheckWakes
  <2>1. UNCHANGED <<link, mapping>> /\ check.pc # "remove" /\ check'.pc \in {"sleep", "loop"}
    BY <1>7 DEF CheckDone, CheckWakes, AfterSweep, clients
  <2>2. UnmetIsUnknown'
    BY <1>1, <1>2, <2>1 DEF MapInv, UnmetIsUnknown, Unmet
  <2>3. ReasonsExcused' /\ ClosedBeforeRemoved' /\ Mapped' /\ ClosedLeavesMap'
    BY <1>1, <2>1 DEF MapInv, ReasonsExcused, ClosedBeforeRemoved, Mapped, ClosedLeavesMap
  <2> QED
    BY <2>2, <2>3 DEF MapInv
<1> QED
  BY <1>3, <1>4, <1>5, <1>6, <1>7 DEF Check

LEMMA SameMap ==
  ASSUME MapInv, UNCHANGED <<dog, link, mapping, pc, age, check, throws, excused>>
  PROVE  MapInv'
  BY DEF MapInv, UnmetIsUnknown, Unmet, ReasonsExcused, ClosedBeforeRemoved, Mapped,
         ClosedLeavesMap

LEMMA StepMap ==
  ASSUME Plain, MapInv, Step
  PROVE  MapInv'
<1>1. ASSUME NEW s \in Sockets, Client(s) \/ Action(s) PROVE MapInv'
  BY <1>1, ClientMap, ActionMap
<1>2. CASE Tick \/ ServerStep \/ Check
  BY <1>2, TickMap, ServerMap, CheckMap
<1>3. ASSUME NEW x \in Senders, Send(x) PROVE MapInv'
  BY <1>3, SendStep, SameMap DEF Plain, server, clients, actions
<1> QED
  BY <1>1, <1>2, <1>3 DEF Step, ServerStep

LEMMA NextMap == TypeOK /\ MapInv /\ [Next]_vars => MapInv'
<1>1. ASSUME TypeOK, MapInv, Next PROVE MapInv'
  BY <1>1, TypeParts, StepMap DEF Next, Plain
<1>2. ASSUME MapInv, UNCHANGED vars PROVE MapInv'
  BY <1>2, SameMap DEF vars, server, clients, actions, hist
<1> QED
  BY <1>1, <1>2

LEMMA MapHolds == Spec => []MapInv
  BY InitMap, NextMap, SocketTypes, PTL DEF Spec

(* A connection that has a thread stays in the map until it is closed, for *)
(* any number of connections and whoever removes what (the races of        *)
(* overThis, SocketServer.java).                                           *)
THEOREM NeverLost == Spec => []MappedUntilClosed
<1>1. MapInv => MappedUntilClosed
  BY DEF MapInv, Mapped, MappedUntilClosed
<1> QED
  BY <1>1, MapHolds, PTL

(* No connection is closed without cause.                                  *)
THEOREM NeverClosedWithoutCause == Spec => []ClosedOnlyAfterLapse
<1>1. MapInv => ClosedOnlyAfterLapse
  BY DEF MapInv, ReasonsExcused, ClosedOnlyAfterLapse
<1> QED
  BY <1>1, MapHolds, PTL

(* An entry of a closed connection is about to go, unless a close() threw. *)
THEOREM ClosedEntriesGo == Spec => []ClosedLeavesMap
<1>1. MapInv => ClosedLeavesMap
  BY DEF MapInv
<1> QED
  BY <1>1, MapHolds, PTL

-----------------------------------------------------------------------------
(* The walk of a sender.                                                   *)

(* The part of HeldInv about one sender.                                   *)
HeldOf(x) ==
  /\ send[x].pc \in {"walk", "compare"} =>
       \A s \in held[x] :
         /\ s \in mapping /\ s \in send[x].w.start /\ clientId[s] = send[x].id
         /\ s \notin send[x].w.seen \/ (send[x].pc = "compare" /\ send[x].s = s)
  /\ send[x].pc = "return" /\ send[x].result = "not found" => held[x] = {}

LEMMA HeldParts == HeldInv <=> \A x \in Senders : HeldOf(x)
  BY DEF HeldInv, HeldAhead, NotFoundIsRight, HeldOf

(* What Observe leaves: a call holds what it held and can still be found;  *)
(* one that begins, all that can be found.                                 *)
LEMMA ObserveHeld ==
  ASSUME HeldType, Observe, NEW x \in Senders
  PROVE  /\ send'[x].pc = "idle" => held'[x] = {}
         /\ \A s \in held'[x] :
              /\ s \in Sockets /\ s \in mapping' /\ clientId'[s] = send'[x].id
              /\ send[x].pc = "idle" \/ s \in held[x]
  BY DEF HeldType, Observe, ReachableNext

(* A sender that does not move.                                            *)
LEMMA HeldStill ==
  ASSUME HeldType, Observe, NEW x \in Senders, HeldOf(x), send'[x] = send[x]
  PROVE  HeldOf(x)'
  BY ObserveHeld DEF HeldOf

(* The steps of a call.                                                    *)
LEMMA HeldMoves ==
  ASSUME Plain, HeldType, Observe, NEW x \in Senders, HeldOf(x), Send(x)
  PROVE  HeldOf(x)'
<1>1. /\ UNCHANGED <<mapping, clientId>>
      /\ send \in [Senders -> SendStates] /\ send[x] \in SendStates
  BY SendStep DEF Plain, SendType, actions
<1>2. CASE Call(x)
  <2>1. /\ send'[x].pc = "walk" /\ send'[x].w.start = mapping /\ send'[x].w.seen = {}
    BY <1>1, <1>2 DEF Call, Sending, NewWalk
  <2> QED
    BY <1>1, <2>1, ObserveHeld DEF HeldOf
<1>3. ASSUME NEW s \in Sockets, TestEntry(x, s) PROVE HeldOf(x)'
  <2>1. /\ send[x].pc = "walk"
        /\ send'[x].id = send[x].id
        /\ send'[x].w.start = send[x].w.start /\ send'[x].w.seen = send[x].w.seen \cup {s}
        /\ \/ send'[x].pc = "walk" /\ clientId[s] = Null
           \/ send'[x].pc = "compare" /\ send'[x].s = s
    BY <1>1, <1>3 DEF TestEntry, Sending, Visited
  <2>2. send[x].id # Null
    BY <1>1, <2>1, SendParts, ConstantsAssumption
  <2> QED
    BY <1>1, <2>1, <2>2, ObserveHeld DEF HeldOf
<1>4. CASE CompareEntry(x)
  <2>1. /\ send[x].pc = "compare"
        /\ \/ send'[x].pc = "return" /\ send'[x].result = "exception"
           \/ send'[x].pc = "stream"
           \/ /\ send'[x].pc = "walk" /\ send'[x].w = send[x].w /\ send'[x].id = send[x].id
              /\ clientId[send[x].s] # send[x].id
    BY <1>1, <1>4 DEF CompareEntry, Returns, Sending
  <2> QED
    BY <1>1, <2>1, ObserveHeld DEF HeldOf
<1>5. CASE OpenStream(x) \/ PushLine(x) \/ Return(x)
  <2>1. \/ send'[x].pc = "return" /\ send'[x].result \in {"exception", "delivered", "lost"}
        \/ send'[x].pc \in {"print", "idle"}
    BY <1>1, <1>5 DEF OpenStream, PushLine, Return, Returns, Sending, Idle
  <2> QED
    BY <2>1 DEF HeldOf
<1>6. CASE NotFound(x)
  <2>1. /\ send[x].pc = "walk" /\ send'[x].pc = "return"
        /\ \A s \in mapping : s \in send[x].w.start => s \in send[x].w.seen
    BY <1>1, <1>6 DEF NotFound, MustVisit, Returns, Sending
  <2>2. held'[x] = {}
    BY <1>1, <2>1, ObserveHeld DEF HeldOf
  <2> QED
    BY <2>1, <2>2 DEF HeldOf
<1> QED
  BY <1>2, <1>3, <1>4, <1>5, <1>6 DEF Send

LEMMA NextHeld == TypeOK /\ HeldInv /\ [Next]_vars => HeldInv'
<1>1. ASSUME TypeOK, HeldInv, Next, NEW x \in Senders PROVE HeldOf(x)'
  <2>1. Plain /\ HeldType /\ Step /\ Observe /\ HeldOf(x)
    BY <1>1, TypeParts, HeldParts DEF Next, Plain
  <2>2. CASE Send(x)
    BY <2>1, <2>2, HeldMoves
  <2>3. ASSUME NEW y \in Senders \ {x}, Send(y) PROVE send'[x] = send[x]
    BY <2>1, <2>3, SendStep DEF Plain, SendType
  <2>4. ASSUME NEW s \in Sockets, Client(s) \/ Action(s) PROVE send'[x] = send[x]
    BY <2>4 DEF Client, Connect, SendLine, ClientCloses, Action, ActionLoop, ActionTest,
       ReadLine, ReadEnd, ReadThrows, Echo, ActionClose, ActionRemove
  <2>5. CASE Tick \/ Start \/ Stop \/ Dog \/ DogFails \/ Check
    <3>1. send' = send
      BY <2>5 DEF Tick, Start, Stop, StopFlag, StopClose, StopDog, Dog, DogBind, DogLoop,
         DogAccept, DogPut, DogSpawn, DogFails, Check, CheckLoop, CheckEntry, CheckClose,
         CheckRemove, CheckDone, CheckWakes
    <3> QED
      BY <2>1, <3>1, HeldStill
  <2> QED
    BY <2>1, <2>2, <2>3, <2>4, <2>5, HeldStill DEF Step
<1>2. ASSUME HeldInv, UNCHANGED vars PROVE HeldInv'
  BY <1>2 DEF HeldInv, HeldAhead, NotFoundIsRight, vars, clients, actions, hist
<1>3. ASSUME TypeOK, HeldInv, Next PROVE HeldInv'
  BY <1>1, <1>3 DEF HeldInv, HeldAhead, NotFoundIsRight, HeldOf
<1> QED
  BY <1>2, <1>3

LEMMA InitHeld == Init => HeldInv
  BY DEF Init, HeldInv, HeldAhead, NotFoundIsRight, Idle

(* A call that answers "not found" has missed nobody who was there all the *)
(* time, for any number of connections that come and go under its walk     *)
(* (sendMessageToClientByToken, SocketServer.java).                        *)
THEOREM NobodyMissed == Spec => []NotFoundIsRight
<1>1. HeldInv => NotFoundIsRight
  BY DEF HeldInv
<1> QED
  BY <1>1, InitHeld, NextHeld, SocketTypes, PTL DEF Spec
=============================================================================
