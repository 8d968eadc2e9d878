------------------------- MODULE WebSocketHubProofs -------------------------
(***************************************************************************)
(* Proofs about WebSocketHub, for any clients, senders and names.          *)
(***************************************************************************)
EXTENDS WebSocketHub, FiniteSetTheorems, TLAPS

(* What the proofs say of a message queue: appending one message to it.    *)
LEMMA AppendOne ==
  ASSUME NEW S, NEW q \in Seq(S), NEW m \in S
  PROVE  /\ Append(q, m) \in Seq(S)
         /\ DOMAIN Append(q, m) = 1 .. Len(q) + 1
         /\ DOMAIN q = 1 .. Len(q) /\ Len(q) \in Nat
         /\ \A i \in 1 .. Len(q) : Append(q, m)[i] = q[i]
         /\ Append(q, m)[Len(q) + 1] = m
  OBVIOUS

-----------------------------------------------------------------------------
(* Types.  That the counter is a natural number rests on its equality with *)
(* the size of the set, so the proofs carry the kinds of the others.       *)

Calls ==
  {Idle}
  \cup [pc : {"loop"}, start : SUBSET Clients, todo : SUBSET Clients]
  \cup [pc : {"write"}, start : SUBSET Clients, todo : SUBSET Clients, c : Clients]
  \cup [pc : {"done", "thrown"}, start : SUBSET Clients]

Messages == Senders \X Nat

Kinds ==
  /\ webSocketClientSet = {c \in Clients : life[c] \in {"added", "online"}}
  /\ life \in [Clients -> Lives]
  /\ up \in [Clients -> BOOLEAN]
  /\ send \in [Senders -> Calls]
  /\ sent \in [Senders -> Nat]
  /\ received \in [Clients -> Seq(Messages)]

(* What a call's state gives to the steps that use it.                     *)
LEMMA CallKinds ==
  /\ Idle \in Calls /\ Idle.pc = "idle"
  /\ \A s, t \in SUBSET Clients :
       Looping(s, t) \in Calls /\ Looping(s, t).pc = "loop"
       /\ Looping(s, t).start = s /\ Looping(s, t).todo = t
  /\ \A s, t \in SUBSET Clients, c \in Clients :
       Writing(s, t, c) \in Calls /\ Writing(s, t, c).pc = "write"
       /\ Writing(s, t, c).start = s /\ Writing(s, t, c).todo = t /\ Writing(s, t, c).c = c
  /\ \A s \in SUBSET Clients, how \in {"done", "thrown"} :
       Ended(how, s) \in Calls /\ Ended(how, s).pc = how /\ Ended(how, s).start = s
  BY DEF Calls, Idle, Looping, Writing, Ended

LEMMA CallParts ==
  ASSUME NEW r \in Calls
  PROVE  /\ r.pc \in {"idle", "loop", "write", "done", "thrown"}
         /\ r.pc # "idle" => r.start \in SUBSET Clients
         /\ r.pc \in {"loop", "write"} => r.todo \in SUBSET Clients
         /\ r.pc = "write" => r.c \in Clients
  BY DEF Calls, Idle

LEMMA InitKinds == Init => Kinds
<1>1. SUFFICES ASSUME Init PROVE Kinds
  OBVIOUS
<1>2. webSocketClientSet = {c \in Clients : life[c] \in {"added", "online"}}
  BY <1>1 DEF Init
<1>3. send \in [Senders -> Calls] /\ \A x \in Senders : send[x].pc = "idle"
  BY <1>1, CallKinds DEF Init
<1>4. sent \in [Senders -> Nat] /\ received \in [Clients -> Seq(Messages)]
  BY <1>1, ConstantsAssumption DEF Init
<1>5. life \in [Clients -> Lives] /\ up \in [Clients -> BOOLEAN]
  BY <1>1 DEF Init, Lives
<1> QED
  BY <1>2, <1>3, <1>4, <1>5 DEF Kinds

(* The callbacks and the network leave calls and messages alone.           *)
LEMMA CallbackKinds ==
  ASSUME Kinds, NEW c \in Clients, Callback(c) \/ Disconnect(c)
  PROVE  Kinds'
<1>1. UNCHANGED <<send, sent, received>>
  BY DEF Callback, Disconnect, OnOpen, AddOnlineCount, OnClose, SubOnlineCount
<1>2. life' \in [Clients -> Lives] /\ up' \in [Clients -> BOOLEAN]
  BY DEF Kinds, Callback, Disconnect, OnOpen, AddOnlineCount, OnClose, SubOnlineCount,
         Lives, session
<1>3. webSocketClientSet' = {d \in Clients : life'[d] \in {"added", "online"}}
  <2>1. CASE OnOpen(c)
    BY <2>1 DEF Kinds, OnOpen
  <2>2. CASE AddOnlineCount(c)
    BY <2>2 DEF Kinds, AddOnlineCount
  <2>3. CASE OnClose(c)
    BY <2>3 DEF Kinds, OnClose, Without
  <2>4. CASE SubOnlineCount(c)
    BY <2>4 DEF Kinds, SubOnlineCount
  <2>5. CASE Disconnect(c)
    BY <2>5 DEF Kinds, Disconnect, session
  <2> QED
    BY <2>1, <2>2, <2>3, <2>4, <2>5 DEF Callback
<1> QED
  BY <1>1, <1>2, <1>3 DEF Kinds

(* The steps of a call: what each of them makes of the call's state, of    *)
(* the sessions and of the messages.                                       *)
LEMMA CallStep ==
  ASSUME Kinds, NEW x \in Senders, Call(x)
  PROVE  /\ Kinds'
         /\ sent' = [sent EXCEPT ![x] = @ + 1]
         /\ send' = [send EXCEPT ![x] = Looping(webSocketClientSet, webSocketClientSet)]
         /\ UNCHANGED <<session, up, received>>
<1>1. /\ sent' = [sent EXCEPT ![x] = @ + 1]
      /\ send' = [send EXCEPT ![x] = Looping(webSocketClientSet, webSocketClientSet)]
      /\ UNCHANGED <<session, up, received>>
  BY ConstantsAssumption DEF Call, Become, Kinds
<1>2. Looping(webSocketClientSet, webSocketClientSet) \in Calls
  BY CallKinds DEF Kinds
<1>3. send' \in [Senders -> Calls] /\ sent' \in [Senders -> Nat]
  BY <1>1, <1>2 DEF Kinds
<1> QED
  BY <1>1, <1>3 DEF Kinds, session

(* A step of Proceed puts a call into a state of its own, and only EndWrite*)
(* touches the messages.                                                   *)
LEMMA ProceedStep ==
  ASSUME Kinds, NEW x \in Senders, Proceed(x)
  PROVE  /\ Kinds'
         /\ UNCHANGED <<session, sent>>
         /\ send' = [send EXCEPT ![x] = send'[x]] /\ send[x].pc # "idle"
         /\ \A d \in Clients : up'[d] => up[d]
         /\ \/ UNCHANGED received
            \/ EndWrite(x)
<1>1. UNCHANGED <<session, sent>> /\ (UNCHANGED received \/ EndWrite(x))
  BY DEF Proceed, BeginWrite, WriteToClosed, Throws, EndWrite, WriteFails, EndLoop, Return
<1>2. send[x] \in Calls /\ send[x].pc # "idle"
  BY DEF Kinds, Proceed, BeginWrite, WriteToClosed, Throws, EndWrite, WriteFails, EndLoop,
         Return
<1>3. send' = [send EXCEPT ![x] = send'[x]] /\ send'[x] \in Calls
  <2>1. ASSUME NEW c \in Clients, BeginWrite(x, c) \/ WriteToClosed(x, c) \/ Throws(x, c)
        PROVE  send' = [send EXCEPT ![x] = send'[x]] /\ send'[x] \in Calls
    <3>1. send[x].start \in SUBSET Clients /\ send[x].todo \in SUBSET Clients
      BY <1>2, <2>1, CallParts DEF BeginWrite, WriteToClosed, Throws
    <3>2. CASE BeginWrite(x, c)
      BY <3>1, <3>2, CallKinds DEF BeginWrite, Become, Kinds
    <3>3. CASE WriteToClosed(x, c)
      BY <3>1, <3>3, CallKinds DEF WriteToClosed, NextAfter, Become, Kinds
    <3>4. CASE Throws(x, c)
      BY <3>1, <3>4, CallKinds DEF Throws, Become, Kinds
    <3> QED
      BY <2>1, <3>2, <3>3, <3>4
  <2>2. CASE EndWrite(x)
    <3>1. send[x].start \in SUBSET Clients /\ send[x].todo \in SUBSET Clients
      BY <1>2, <2>2, CallParts DEF EndWrite
    <3> QED
      BY <2>2, <3>1, CallKinds DEF EndWrite, Become, Kinds
  <2>3. CASE WriteFails(x)
    <3>1. send[x].start \in SUBSET Clients /\ send[x].todo \in SUBSET Clients
      BY <1>2, <2>3, CallParts DEF WriteFails
    <3>2. send' = [send EXCEPT ![x] = Looping(send[x].start, send[x].todo \ {send[x].c})]
      BY <2>3 DEF WriteFails, NextAfter, Become
    <3>3. Looping(send[x].start, send[x].todo \ {send[x].c}) \in Calls
      BY <3>1, CallKinds
    <3> QED
      BY <3>2, <3>3 DEF Kinds
  <2>4. CASE EndLoop(x)
    BY <1>2, <2>4, CallKinds, CallParts DEF EndLoop, Become, Kinds
  <2>5. CASE Return(x)
    BY <2>5, CallKinds DEF Return, Become, Kinds
  <2> QED
    BY <2>1, <2>2, <2>3, <2>4, <2>5 DEF Proceed
<1>4. up' \in [Clients -> BOOLEAN] /\ \A d \in Clients : up'[d] => up[d]
  <2>1. CASE UNCHANGED up
    BY <2>1 DEF Kinds
  <2>2. CASE WriteFails(x)
    BY <2>2 DEF WriteFails, Kinds
  <2> QED
    BY <2>1, <2>2 DEF Proceed, BeginWrite, WriteToClosed, Throws, EndWrite, EndLoop, Return
<1>5. received' \in [Clients -> Seq(Messages)]
  <2>1. CASE UNCHANGED received
    BY <2>1 DEF Kinds
  <2>2. CASE EndWrite(x)
    <3>1. <<x, sent[x]>> \in Messages
      BY <1>2 DEF Kinds, Messages
    <3>2. ASSUME NEW d \in Clients PROVE Append(received[d], <<x, sent[x]>>) \in Seq(Messages)
      BY <3>1, AppendOne DEF Kinds
    <3> QED
      BY <2>2, <3>2 DEF EndWrite, Delivered, Kinds
  <2> QED
    BY <1>1, <2>1, <2>2
<1>6. webSocketClientSet' = {d \in Clients : life'[d] \in {"added", "online"}}
      /\ life' \in [Clients -> Lives] /\ sent' \in [Senders -> Nat]
  BY <1>1 DEF Kinds, session
<1>7. send' \in [Senders -> Calls]
  BY <1>3 DEF Kinds
<1> QED
  BY <1>1, <1>2, <1>3, <1>4, <1>5, <1>6, <1>7 DEF Kinds

-----------------------------------------------------------------------------
(* The order of messages.  The invariant says of every message a client    *)
(* has that its number is not above the number of calls of its sender, and *)
(* below it while the sender still has to write to this client.            *)

Pending(y) == IF send[y].pc \in {"loop", "write"} THEN send[y].todo ELSE {}

Numbered ==
  \A c \in Clients : \A i \in DOMAIN received[c] : \A y \in Senders :
    received[c][i][1] = y =>
      /\ received[c][i][2] <= sent[y]
      /\ c \in Pending(y) => received[c][i][2] < sent[y]

WritesPending == \A x \in Senders : send[x].pc = "write" => send[x].c \in send[x].todo

OrderInv == Kinds /\ SenderOrderKept /\ Numbered /\ WritesPending

LEMMA MessageParts ==
  ASSUME Kinds, NEW c \in Clients, NEW i \in DOMAIN received[c]
  PROVE  received[c][i][1] \in Senders /\ received[c][i][2] \in Nat
BY DEF Kinds, Messages

LEMMA InitOrder == Init => OrderInv
<1>1. SUFFICES ASSUME Init PROVE OrderInv
  OBVIOUS
<1>2. \A c \in Clients : DOMAIN received[c] = {}
  BY <1>1 DEF Init
<1>3. \A x \in Senders : send[x].pc = "idle"
  BY <1>1, CallKinds DEF Init
<1> QED
  BY <1>1, <1>2, <1>3, InitKinds DEF OrderInv, SenderOrderKept, Numbered, WritesPending

(* The pending clients of a sender only become fewer while its call goes on.*)
LEMMA PendingShrinks ==
  ASSUME OrderInv, NEW x \in Senders, Proceed(x)
  PROVE  /\ Pending(x)' \subseteq Pending(x)
         /\ \A y \in Senders \ {x} : Pending(y)' = Pending(y)
         /\ WritesPending'
         /\ EndWrite(x) => send[x].c \in Pending(x) /\ send[x].c \notin Pending(x)'
<1>1. Kinds /\ send[x] \in Calls
  BY DEF OrderInv, Kinds
<1>2. \A y \in Senders \ {x} : send'[y] = send[y]
  BY <1>1, ProceedStep DEF Kinds
<1>3. /\ Pending(x)' \subseteq Pending(x)
      /\ send'[x].pc = "write" => send'[x].c \in send'[x].todo
      /\ EndWrite(x) => send[x].c \in Pending(x) /\ send[x].c \notin Pending(x)'
  <2>1. EndWrite(x) \/ WriteFails(x) =>
          /\ send[x].pc = "write" /\ send[x].c \in send[x].todo
          /\ send'[x] = Looping(send[x].start, send[x].todo \ {send[x].c})
    BY <1>1 DEF EndWrite, WriteFails, NextAfter, Become, Kinds, OrderInv, WritesPending
  <2>2. ASSUME (\E c \in Clients : Throws(x, c)) \/ EndLoop(x) \/ Return(x)
        PROVE  send'[x].pc \in {"idle", "done", "thrown"} /\ send[x].pc # "write"
    BY <1>1, <2>2, CallKinds, CallParts DEF Throws, EndLoop, Return, Become, Kinds, Ended
  <2>3. EndWrite(x) => send[x].pc = "write"
    BY DEF EndWrite
  <2>4. CASE \E c \in Clients : BeginWrite(x, c)
    <3>1. PICK c \in Clients : BeginWrite(x, c)
      BY <2>4
    <3>2. /\ send[x].pc = "loop" /\ c \in send[x].todo
          /\ send'[x].pc = "write" /\ send'[x].todo = send[x].todo /\ send'[x].c = c
      <4>1. /\ send[x].pc = "loop" /\ c \in send[x].todo
            /\ send'[x] = Writing(send[x].start, send[x].todo, c)
        BY <1>1, <3>1 DEF BeginWrite, Become, Kinds
      <4> QED
        BY <4>1 DEF Writing
    <3> QED
      BY <2>3, <3>2 DEF Pending
  <2>5. CASE \E c \in Clients : WriteToClosed(x, c)
    <3>1. PICK c \in Clients : WriteToClosed(x, c)
      BY <2>5
    <3>2. /\ send[x].pc = "loop"
          /\ send'[x].pc = "loop" /\ send'[x].todo = send[x].todo \ {c}
      <4>1. /\ send[x].pc = "loop"
            /\ send'[x] = Looping(send[x].start, send[x].todo \ {c})
        BY <1>1, <3>1 DEF WriteToClosed, NextAfter, Become, Kinds
      <4> QED
        BY <4>1 DEF Looping
    <3> QED
      BY <2>3, <3>2 DEF Pending
  <2>6. CASE EndWrite(x) \/ WriteFails(x)
    BY <2>1, <2>6 DEF Looping, Pending
  <2>7. CASE (\E c \in Clients : Throws(x, c)) \/ EndLoop(x) \/ Return(x)
    BY <2>2, <2>7 DEF Pending, EndWrite
  <2> QED
    BY <2>4, <2>5, <2>6, <2>7 DEF Proceed
<1> QED
  BY <1>2, <1>3 DEF Pending, WritesPending, OrderInv

(* A write that ends puts a message with the highest number of its sender. *)
LEMMA DeliveryOrder ==
  ASSUME OrderInv, NEW x \in Senders, Proceed(x), EndWrite(x)
  PROVE  SenderOrderKept' /\ Numbered'
<1> DEFINE c == send[x].c
           m == <<x, sent[x]>>
<1>1. /\ Kinds /\ Kinds' /\ c \in Clients /\ sent' = sent
      /\ received' = [received EXCEPT ![c] = Append(@, m)] /\ m \in Messages
  <2>1. Kinds /\ send[x] \in Calls
    BY DEF OrderInv, Kinds
  <2>2. c \in Clients
    BY <2>1, CallParts DEF EndWrite
  <2> QED
    BY <2>1, <2>2, ProceedStep DEF EndWrite, Delivered, Kinds, Messages
<1>2. /\ \A d \in Clients \ {c} : received'[d] = received[d]
      /\ received'[c] = Append(received[c], m) /\ received[c] \in Seq(Messages)
  BY <1>1 DEF Kinds
<1>3. /\ DOMAIN received'[c] = 1 .. Len(received[c]) + 1
      /\ DOMAIN received[c] = 1 .. Len(received[c]) /\ Len(received[c]) \in Nat
      /\ \A i \in 1 .. Len(received[c]) : received'[c][i] = received[c][i]
      /\ received'[c][Len(received[c]) + 1] = m
  BY <1>1, <1>2, AppendOne
<1>4. c \in Pending(x) /\ c \notin Pending(x)' /\ Pending(x)' \subseteq Pending(x)
      /\ \A y \in Senders \ {x} : Pending(y)' = Pending(y)
  BY PendingShrinks
<1>5. \A i \in DOMAIN received[c] : received[c][i][1] = x => received[c][i][2] < sent[x]
  BY <1>1, <1>4 DEF OrderInv, Numbered
<1>6. SenderOrderKept'
  <2>1. SUFFICES ASSUME NEW d \in Clients, NEW i \in DOMAIN received'[d],
                        NEW j \in DOMAIN received'[d], i < j,
                        received'[d][i][1] = received'[d][j][1]
                 PROVE  received'[d][i][2] < received'[d][j][2]
    BY DEF SenderOrderKept
  <2>2. CASE d # c
    BY <1>2, <2>1, <2>2 DEF OrderInv, SenderOrderKept
  <2>3. CASE d = c /\ j # Len(received[c]) + 1
    <3>1. i \in DOMAIN received[c] /\ j \in DOMAIN received[c]
      BY <1>3, <2>1, <2>3
    <3> QED
      BY <1>3, <2>1, <2>3, <3>1 DEF OrderInv, SenderOrderKept
  <2>4. CASE d = c /\ j = Len(received[c]) + 1
    <3>1. i \in DOMAIN received[c]
      BY <1>3, <2>1, <2>4
    <3> QED
      BY <1>3, <1>5, <2>1, <2>4, <3>1
  <2> QED
    BY <2>2, <2>3, <2>4
<1>7. Numbered'
  <2>1. SUFFICES ASSUME NEW d \in Clients, NEW i \in DOMAIN received'[d],
                        NEW y \in Senders, received'[d][i][1] = y
                 PROVE  /\ received'[d][i][2] <= sent[y]
                        /\ d \in Pending(y)' => received'[d][i][2] < sent[y]
    BY <1>1 DEF Numbered
  <2>2. CASE i \in DOMAIN received[d] /\ received'[d][i] = received[d][i]
    <3>1. Pending(y)' \subseteq Pending(y)
      BY <1>4
    <3> QED
      BY <2>1, <2>2, <3>1 DEF OrderInv, Numbered
  <2>3. CASE d = c /\ i = Len(received[c]) + 1
    <3>1. received'[d][i] = m
      BY <1>3, <2>3
    <3>2. y = x /\ received'[d][i][2] = sent[x] /\ sent[x] <= sent[x]
      BY <1>1, <2>1, <3>1 DEF Kinds
    <3> QED
      BY <1>4, <2>3, <3>2
  <2>4. d # c => received'[d] = received[d]
    BY <1>2
  <2>5. d = c => i \in DOMAIN received[c] \/ i = Len(received[c]) + 1
    BY <1>3, <2>1
  <2>6. d = c /\ i \in DOMAIN received[c] => received'[d][i] = received[d][i]
    BY <1>3
  <2> QED
    BY <2>1, <2>2, <2>3, <2>4, <2>5, <2>6
<1> QED
  BY <1>6, <1>7

LEMMA OrderStep == OrderInv /\ [Next]_vars => OrderInv'
<1>1. SUFFICES ASSUME OrderInv, [Next]_vars PROVE OrderInv'
  OBVIOUS
<1>2. Kinds
  BY <1>1 DEF OrderInv
<1>3. CASE \E c \in Clients : Callback(c) \/ Disconnect(c)
  <2>1. Kinds' /\ UNCHANGED <<send, sent, received>>
    BY <1>2, <1>3, CallbackKinds
       DEF Callback, Disconnect, OnOpen, AddOnlineCount, OnClose, SubOnlineCount
  <2> QED
    BY <1>1, <2>1 DEF OrderInv, SenderOrderKept, Numbered, WritesPending, Pending
<1>4. ASSUME NEW x \in Senders, Call(x) PROVE OrderInv'
  <2>1. /\ Kinds' /\ UNCHANGED received /\ sent[x] \in Nat
        /\ sent'[x] = sent[x] + 1
        /\ \A y \in Senders \ {x} : sent'[y] = sent[y] /\ send'[y] = send[y]
    <3>1. Kinds' /\ UNCHANGED received
      BY <1>2, <1>4, CallStep
    <3>2. /\ sent' = [sent EXCEPT ![x] = @ + 1]
          /\ send' = [send EXCEPT ![x] = Looping(webSocketClientSet, webSocketClientSet)]
      BY <1>2, <1>4, CallStep
    <3> QED
      BY <1>2, <3>1, <3>2, ConstantsAssumption DEF Kinds
  <2>2. send'[x].pc = "loop"
    <3>1. send'[x] = Looping(webSocketClientSet, webSocketClientSet)
      BY <1>2, <1>4, CallStep DEF Kinds
    <3> QED
      BY <3>1 DEF Looping
  <2>3. Numbered'
    <3>1. SUFFICES ASSUME NEW c \in Clients, NEW i \in DOMAIN received[c],
                          NEW y \in Senders, received[c][i][1] = y
                   PROVE  /\ received[c][i][2] <= sent'[y]
                          /\ c \in Pending(y)' => received[c][i][2] < sent'[y]
      BY <2>1 DEF Numbered
    <3>2. received[c][i][2] \in Nat
      BY <1>2, MessageParts
    <3>3. CASE y = x
      BY <1>1, <2>1, <3>1, <3>2, <3>3 DEF OrderInv, Numbered
    <3>4. CASE y # x
      BY <1>1, <2>1, <3>1, <3>4 DEF OrderInv, Numbered, Pending
    <3> QED
      BY <3>3, <3>4
  <2> QED
    BY <1>1, <2>1, <2>2, <2>3 DEF OrderInv, SenderOrderKept, WritesPending
<1>5. ASSUME NEW x \in Senders, Proceed(x) PROVE OrderInv'
  <2>1. Kinds' /\ WritesPending' /\ sent' = sent
    BY <1>1, <1>2, <1>5, ProceedStep, PendingShrinks
  <2>2. CASE EndWrite(x)
    BY <1>1, <1>5, <2>1, <2>2, DeliveryOrder DEF OrderInv
  <2>3. CASE UNCHANGED received
    <3>1. \A y \in Senders : Pending(y)' \subseteq Pending(y)
      BY <1>1, <1>5, PendingShrinks
    <3>2. Numbered'
      BY <1>1, <2>1, <2>3, <3>1 DEF OrderInv, Numbered
    <3> QED
      BY <1>1, <2>1, <2>3, <3>2 DEF OrderInv, SenderOrderKept
  <2> QED
    BY <1>2, <1>5, <2>2, <2>3, ProceedStep
<1>6. CASE UNCHANGED vars
  BY <1>1, <1>6 DEF vars, session, OrderInv, Kinds, SenderOrderKept, Numbered, WritesPending,
     Pending
<1> QED
  BY <1>1, <1>3, <1>4, <1>5, <1>6 DEF Next

(* However many threads write to a client, and whichever clients break, it *)
(* gets the messages of one sender in order and none twice                 *)
(* (TongHuWebSocketServer.sendClientMessage, broadCastMessage).            *)
THEOREM OrderKept == Spec => []SenderOrderKept
<1>1. OrderInv => SenderOrderKept
  BY DEF OrderInv
<1> QED
  BY <1>1, InitOrder, OrderStep, PTL DEF Spec

-----------------------------------------------------------------------------
(* Delivery.  The invariant says of every call that has not thrown that    *)
(* the clients it began with, save the pending and the closed ones, have   *)
(* its message; and that a client it began with has been opened before, so *)
(* that none of them can become open again.                                *)

Covered ==
  \A y \in Senders :
    /\ send[y].pc # "idle" => \A c \in send[y].start : life[c] # "none"
    /\ send[y].pc \in {"loop", "write", "done"} =>
         \A c \in send[y].start \ Pending(y) : up[c] => Got(c, y)

DeliveryInv == OrderInv /\ Covered

LEMMA InitDelivery == Init => DeliveryInv
<1>1. Init => \A x \in Senders : send[x].pc = "idle"
  BY CallKinds DEF Init
<1> QED
  BY <1>1, InitOrder DEF DeliveryInv, Covered

(* A call keeps its start, and a client leaves its pending ones because the*)
(* message was delivered or the client is closed.                          *)
LEMMA WhyLeft ==
  ASSUME OrderInv, NEW x \in Senders, Proceed(x)
  PROVE  /\ send'[x].pc # "idle" => send'[x].start = send[x].start
         /\ send'[x].pc \in {"loop", "write", "done"} =>
              /\ send[x].pc \in {"loop", "write"}
              /\ \A c \in Pending(x) \ Pending(x)' :
                   up'[c] => EndWrite(x) /\ c = send[x].c
<1>1. Kinds /\ send[x] \in Calls
  BY DEF OrderInv, Kinds
<1>2. CASE \E c \in Clients : BeginWrite(x, c)
  <2>1. PICK c \in Clients : BeginWrite(x, c)
    BY <1>2
  <2>2. /\ send[x].pc = "loop"
        /\ send'[x] = Writing(send[x].start, send[x].todo, c)
    BY <1>1, <2>1 DEF BeginWrite, Become, Kinds
  <2>3. send'[x].pc = "write" /\ send'[x].start = send[x].start /\ send'[x].todo = send[x].todo
    BY <2>2 DEF Writing
  <2> QED
    BY <2>2, <2>3 DEF Pending
<1>3. CASE \E c \in Clients : WriteToClosed(x, c)
  <2>1. PICK c \in Clients : WriteToClosed(x, c)
    BY <1>3
  <2>2. /\ send[x].pc = "loop" /\ ~ up'[c]
        /\ send'[x] = Looping(send[x].start, send[x].todo \ {c})
    BY <1>1, <2>1 DEF WriteToClosed, NextAfter, Become, Kinds
  <2>3. /\ send'[x].pc = "loop" /\ send'[x].start = send[x].start
        /\ send'[x].todo = send[x].todo \ {c}
    BY <2>2 DEF Looping
  <2> QED
    BY <2>2, <2>3 DEF Pending
<1>4. CASE \E c \in Clients : Throws(x, c)
  <2>1. send'[x] = Ended("thrown", send[x].start)
    BY <1>1, <1>4 DEF Throws, Become, Kinds
  <2>2. send'[x].pc = "thrown" /\ send'[x].start = send[x].start
    BY <2>1 DEF Ended
  <2> QED
    BY <2>2
<1>5. CASE EndWrite(x) \/ WriteFails(x)
  <2>1. /\ send[x].pc = "write"
        /\ send'[x] = Looping(send[x].start, send[x].todo \ {send[x].c})
    BY <1>1, <1>5 DEF EndWrite, WriteFails, NextAfter, Become, Kinds
  <2>2. /\ send'[x].pc = "loop" /\ send'[x].start = send[x].start
        /\ send'[x].todo = send[x].todo \ {send[x].c}
    BY <2>1 DEF Looping
  <2>3. WriteFails(x) => ~ up'[send[x].c]
    <3>1. send[x].pc = "write" => send[x].c \in Clients
      BY <1>1, CallParts
    <3> QED
      BY <1>1, <3>1 DEF WriteFails, Kinds
  <2> QED
    BY <1>5, <2>1, <2>2, <2>3 DEF Pending
<1>6. CASE EndLoop(x)
  <2>1. send[x].pc = "loop" /\ send[x].todo = {} /\ send'[x] = Ended("done", send[x].start)
    BY <1>1, <1>6 DEF EndLoop, Become, Kinds
  <2>2. send'[x].pc = "done" /\ send'[x].start = send[x].start
    BY <2>1 DEF Ended
  <2> QED
    BY <2>1, <2>2 DEF Pending
<1>7. CASE Return(x)
  <2>1. send'[x].pc = "idle"
    BY <1>1, <1>7 DEF Return, Become, Kinds, Idle
  <2> QED
    BY <2>1
<1> QED
  BY <1>2, <1>3, <1>4, <1>5, <1>6, <1>7 DEF Proceed

(* A message a client got is not taken back.                               *)
LEMMA GotStays ==
  ASSUME OrderInv, NEW x \in Senders, Proceed(x), NEW c \in Clients, NEW y \in Senders,
         Got(c, y)
  PROVE  Got(c, y)'
<1>1. Kinds /\ sent' = sent /\ (UNCHANGED received \/ EndWrite(x))
  BY ProceedStep DEF OrderInv
<1>2. CASE UNCHANGED received
  BY <1>1, <1>2 DEF Got
<1>3. CASE EndWrite(x)
  <2>1. send[x].c \in Clients /\ <<x, sent[x]>> \in Messages
    <3>1. send[x] \in Calls /\ send[x].pc = "write"
      BY <1>1, <1>3 DEF Kinds, EndWrite
    <3> QED
      BY <1>1, <3>1, CallParts DEF Kinds, Messages
  <2>2. \/ received'[c] = received[c]
        \/ received'[c] = Append(received[c], <<x, sent[x]>>)
    BY <1>1, <1>3, <2>1 DEF EndWrite, Delivered, Kinds
  <2>3. received[c] \in Seq(Messages)
    BY <1>1 DEF Kinds
  <2>4. PICK i \in DOMAIN received[c] : received[c][i] = <<y, sent[y]>>
    BY DEF Got
  <2>5. i \in DOMAIN received'[c] /\ received'[c][i] = <<y, sent[y]>>
    <3>1. CASE received'[c] = received[c]
      BY <2>4, <3>1
    <3>2. CASE received'[c] = Append(received[c], <<x, sent[x]>>)
      BY <2>1, <2>3, <2>4, <3>2, AppendOne
    <3> QED
      BY <2>2, <3>1, <3>2
  <2> QED
    BY <1>1, <2>5 DEF Got
<1> QED
  BY <1>1, <1>2, <1>3

LEMMA EndWriteDelivers ==
  ASSUME OrderInv, NEW x \in Senders, EndWrite(x), NEW c \in Clients, c = send[x].c
  PROVE  Got(c, x)'
<1>1. Kinds /\ send[x].pc = "write"
  BY DEF OrderInv, EndWrite
<1>2. <<x, sent[x]>> \in Messages /\ sent' = sent
  BY <1>1 DEF Kinds, Messages, EndWrite
<1>3. received'[c] = Append(received[c], <<x, sent[x]>>)
  BY <1>1 DEF EndWrite, Delivered, Kinds
<1>4. received[c] \in Seq(Messages)
  BY <1>1 DEF Kinds
<1>5. /\ Len(received[c]) + 1 \in DOMAIN received'[c]
      /\ received'[c][Len(received[c]) + 1] = <<x, sent[x]>>
  BY <1>2, <1>3, <1>4, AppendOne
<1> QED
  BY <1>2, <1>5 DEF Got

LEMMA DeliveryStep == DeliveryInv /\ [Next]_vars => DeliveryInv'
<1>1. SUFFICES ASSUME DeliveryInv, [Next]_vars PROVE Covered'
  BY OrderStep DEF DeliveryInv
<1>2. OrderInv /\ Kinds /\ Covered
  BY <1>1 DEF DeliveryInv, OrderInv
<1>3. ASSUME NEW y \in Senders, send[y].pc # "idle" PROVE send[y].start \subseteq Clients
  BY <1>2, <1>3, CallParts DEF Kinds
<1>4. ASSUME NEW d \in Clients, Callback(d) \/ Disconnect(d) PROVE Covered'
  <2>1. /\ UNCHANGED <<send, sent, received>>
        /\ \A c \in Clients : life[c] # "none" => life'[c] # "none" /\ (up'[c] => up[c])
    BY <1>2, <1>4 DEF Kinds, Callback, Disconnect, OnOpen, AddOnlineCount, OnClose,
       SubOnlineCount, session
  <2> QED
    BY <1>2, <1>3, <2>1 DEF Covered, Pending, Got
<1>5. ASSUME NEW x \in Senders, Call(x) PROVE Covered'
  <2>1. /\ UNCHANGED <<life, up, received>>
        /\ \A y \in Senders \ {x} : send'[y] = send[y] /\ sent'[y] = sent[y]
        /\ send'[x] = Looping(webSocketClientSet, webSocketClientSet)
    <3>1. /\ sent' = [sent EXCEPT ![x] = @ + 1]
          /\ send' = [send EXCEPT ![x] = Looping(webSocketClientSet, webSocketClientSet)]
          /\ UNCHANGED <<session, up, received>>
      BY <1>2, <1>5, CallStep
    <3> QED
      BY <1>2, <3>1 DEF Kinds, session
  <2>2. /\ send'[x].pc = "loop" /\ send'[x].start = webSocketClientSet
        /\ send'[x].todo = webSocketClientSet
    BY <2>1 DEF Looping
  <2>3. \A c \in webSocketClientSet : life[c] # "none"
    BY <1>2 DEF Kinds
  <2> QED
    BY <1>2, <2>1, <2>2, <2>3 DEF Covered, Pending, Got
<1>6. ASSUME NEW x \in Senders, Proceed(x) PROVE Covered'
  <2>1. /\ UNCHANGED <<life, sent>> /\ send[x].pc # "idle"
        /\ \A y \in Senders \ {x} : send'[y] = send[y]
        /\ \A c \in Clients : up'[c] => up[c]
    BY <1>2, <1>6, ProceedStep DEF Kinds, session
  <2>2. \A c \in Clients, y \in Senders : Got(c, y) => Got(c, y)'
    BY <1>2, <1>6, GotStays
  <2>3. SUFFICES ASSUME NEW y \in Senders
                 PROVE  /\ send'[y].pc # "idle" => \A c \in send'[y].start : life[c] # "none"
                        /\ send'[y].pc \in {"loop", "write", "done"} =>
                             \A c \in send'[y].start \ Pending(y)' : up'[c] => Got(c, y)'
    BY <2>1 DEF Covered
  <2>4. CASE y # x
    <3>1. Pending(y)' = Pending(y) /\ send'[y] = send[y]
      BY <2>1, <2>4 DEF Pending
    <3> QED
      BY <1>2, <1>3, <2>1, <2>2, <3>1 DEF Covered
  <2>5. CASE y = x
    <3>1. send'[x].pc # "idle" => send'[x].start = send[x].start
      BY <1>2, <1>6, WhyLeft
    <3>2. ASSUME send'[x].pc \in {"loop", "write", "done"},
                 NEW c \in send'[x].start \ Pending(x)', up'[c]
          PROVE  Got(c, x)'
      <4>1. c \in send[x].start /\ c \in Clients /\ up[c]
        BY <1>3, <2>1, <3>1, <3>2
      <4>2. CASE c \in Pending(x)
        <5>1. EndWrite(x) /\ c = send[x].c
          BY <1>2, <1>6, <3>2, <4>2, WhyLeft
        <5> QED
          BY <1>2, <4>1, <5>1, EndWriteDelivers
      <4>3. CASE c \notin Pending(x)
        <5>1. send[x].pc \in {"loop", "write"}
          BY <1>2, <1>6, <3>2, WhyLeft
        <5>2. Got(c, x)
          BY <1>2, <4>1, <4>3, <5>1 DEF Covered
        <5> QED
          BY <2>2, <4>1, <5>2
      <4> QED
        BY <4>2, <4>3
    <3>3. send'[x].pc # "idle" => \A c \in send'[x].start : life[c] # "none"
      BY <1>2, <2>1, <3>1 DEF Covered
    <3> QED
      BY <2>5, <3>2, <3>3
  <2> QED
    BY <2>4, <2>5
<1>7. CASE UNCHANGED vars
  BY <1>2, <1>7 DEF vars, session, Covered, Pending, Got
<1> QED
  BY <1>1, <1>4, <1>5, <1>6, <1>7 DEF Next

(* A call of sendClientMessage or broadCastMessage that returns has        *)
(* delivered its message to every client it is for, that it began with and *)
(* that is still open, whichever writes failed on the way.                 *)
THEOREM ReturnDelivers == Spec => []ReturnedMeansDelivered
<1>1. DeliveryInv => ReturnedMeansDelivered
  <2>1. SUFFICES ASSUME DeliveryInv, NEW x \in Senders, send[x].pc = "done",
                        NEW c \in Expected(x)
                 PROVE  Got(c, x)
    BY DEF ReturnedMeansDelivered
  <2>2. c \in send[x].start \ Pending(x) /\ up[c]
    BY <2>1 DEF Expected, For, Pending
  <2> QED
    BY <2>1, <2>2 DEF DeliveryInv, Covered
<1> QED
  BY <1>1, InitDelivery, DeliveryStep, PTL DEF Spec

-----------------------------------------------------------------------------
(* The counter.  It counts the clients whose onOpen has raised it and whose*)
(* onClose has not lowered it; from that follow both its kind and its      *)
(* agreement with the set.                                                 *)

Counted == {c \in Clients : life[c] \in {"online", "removed"}}

Others ==
  /\ clientName \in [Clients -> Names \cup {Null}]
  /\ writer \in [Clients -> Senders \cup {Null}]

CountInv == Kinds /\ Others /\ onlineCount = Cardinality(Counted)

LEMMA DisjointUnion ==
  ASSUME NEW S, NEW T, IsFiniteSet(S), IsFiniteSet(T), S \cap T = {}
  PROVE  /\ Cardinality(S \cup T) = Cardinality(S) + Cardinality(T)
         /\ Cardinality(S) \in Nat /\ Cardinality(T) \in Nat
<1>1. Cardinality(S) \in Nat /\ Cardinality(T) \in Nat
  BY FS_CardinalityType
<1>2. Cardinality(S \cup T) = Cardinality(S) + Cardinality(T) - Cardinality(S \cap T)
  BY FS_Union
<1>3. Cardinality(S \cap T) = 0
  BY FS_EmptySet
<1> QED
  BY <1>1, <1>2, <1>3

LEMMA InitCount == Init => CountInv
<1>1. SUFFICES ASSUME Init PROVE CountInv
  OBVIOUS
<1>2. Counted = {}
  BY <1>1 DEF Init, Counted
<1>3. onlineCount = Cardinality(Counted)
  BY <1>1, <1>2, FS_EmptySet DEF Init
<1> QED
  BY <1>1, <1>3, InitKinds DEF Init, CountInv, Others

LEMMA OthersStep ==
  ASSUME Others, [Next]_vars
  PROVE  Others'
<1>1. CASE \E c \in Clients : Callback(c) \/ Disconnect(c)
  BY <1>1, ConstantsAssumption DEF Others, Callback, Disconnect, OnOpen, AddOnlineCount,
     OnClose, SubOnlineCount, session
<1>2. ASSUME NEW x \in Senders, Call(x) \/ Proceed(x) PROVE Others'
  <2>1. clientName' = clientName
    BY <1>2 DEF Call, Proceed, BeginWrite, WriteToClosed, Throws, EndWrite, WriteFails,
       EndLoop, Return, session
  <2>2. \/ writer' = writer
        \/ \E c \in Clients : writer' = [writer EXCEPT ![c] = x]
        \/ \E c : writer' = [writer EXCEPT ![c] = Null]
    BY <1>2 DEF Call, Proceed, BeginWrite, WriteToClosed, Throws, EndWrite, WriteFails,
       EndLoop, Return
  <2> QED
    BY <2>1, <2>2 DEF Others
<1>3. CASE UNCHANGED vars
  BY <1>3 DEF vars, session, Others
<1> QED
  BY <1>1, <1>2, <1>3 DEF Next

LEMMA KindsStep == Kinds /\ [Next]_vars => Kinds'
<1>1. Kinds /\ UNCHANGED vars => Kinds'
  BY DEF Kinds, vars, session
<1> QED
  BY <1>1, CallbackKinds, CallStep, ProceedStep DEF Next

(* Calls leave the counter and the lives alone; a callback changes the     *)
(* counter by one exactly when it moves a client into or out of Counted.   *)
LEMMA CountStep == CountInv /\ [Next]_vars => CountInv'
<1>1. SUFFICES ASSUME CountInv, [Next]_vars
               PROVE  onlineCount' = Cardinality(Counted')
  BY KindsStep, OthersStep DEF CountInv
<1>2. Kinds /\ onlineCount = Cardinality(Counted)
  BY <1>1 DEF CountInv
<1>3. IsFiniteSet(Counted) /\ IsFiniteSet(Counted')
  BY ConstantsAssumption, FS_Subset, Counted \subseteq Clients, Counted' \subseteq Clients
     DEF Counted
<1>4. ASSUME UNCHANGED onlineCount, Counted' = Counted
      PROVE  onlineCount' = Cardinality(Counted')
  BY <1>2, <1>4
<1>5. ASSUME NEW c \in Clients, Callback(c) \/ Disconnect(c)
      PROVE  onlineCount' = Cardinality(Counted')
  <2>1. CASE OnOpen(c)
    <3>1. UNCHANGED onlineCount /\ Counted' = Counted
      BY <1>2, <2>1 DEF OnOpen, Kinds, Counted
    <3> QED
      BY <1>4, <3>1
  <2>2. CASE AddOnlineCount(c)
    <3>1. c \notin Counted /\ Counted' = Counted \cup {c}
      BY <1>2, <2>2 DEF AddOnlineCount, Kinds, Counted
    <3>2. Cardinality(Counted') = Cardinality(Counted) + 1
      BY <1>3, <3>1, FS_AddElement
    <3> QED
      BY <1>2, <2>2, <3>2 DEF AddOnlineCount
  <2>3. CASE OnClose(c)
    <3>1. UNCHANGED onlineCount /\ Counted' = Counted
      BY <1>2, <2>3 DEF OnClose, Kinds, Counted
    <3> QED
      BY <1>4, <3>1
  <2>4. CASE SubOnlineCount(c)
    <3>1. c \in Counted /\ Counted' = Counted \ {c}
      BY <1>2, <2>4 DEF SubOnlineCount, Kinds, Counted
    <3>2. Cardinality(Counted') = Cardinality(Counted) - 1
      BY <1>3, <3>1, FS_RemoveElement
    <3> QED
      BY <1>2, <2>4, <3>2 DEF SubOnlineCount, Fewer
  <2>5. CASE Disconnect(c)
    BY <1>4, <2>5 DEF Disconnect, session, Counted
  <2> QED
    BY <1>5, <2>1, <2>2, <2>3, <2>4, <2>5 DEF Callback
<1>6. ASSUME NEW x \in Senders, Call(x) \/ Proceed(x)
      PROVE  onlineCount' = Cardinality(Counted')
  <2>1. UNCHANGED session
    BY <1>2, <1>6, CallStep, ProceedStep
  <2> QED
    BY <1>4, <2>1 DEF session, Counted
<1>7. CASE UNCHANGED vars
  BY <1>4, <1>7 DEF vars, session, Counted
<1> QED
  BY <1>1, <1>5, <1>6, <1>7 DEF Next

(* The set and the counter of the clients agree, give or take the callbacks*)
(* that have changed one of them (TongHuWebSocketServer.onOpen, onClose).  *)
THEOREM CountAgrees == Spec => []CountMatchesSet
<1>1. CountInv => CountMatchesSet
  <2>1. SUFFICES ASSUME CountInv PROVE CountMatchesSet
    OBVIOUS
  <2> DEFINE Added == {c \in Clients : life[c] = "added"}
             Removed == {c \in Clients : life[c] = "removed"}
             Online == {c \in Clients : life[c] = "online"}
  <2>2. IsFiniteSet(Added) /\ IsFiniteSet(Removed) /\ IsFiniteSet(Online)
    BY ConstantsAssumption, FS_Subset, Added \subseteq Clients, Removed \subseteq Clients,
       Online \subseteq Clients
  <2>3. /\ Cardinality(Added \cup Online) = Cardinality(Added) + Cardinality(Online)
        /\ Cardinality(Online \cup Removed) = Cardinality(Online) + Cardinality(Removed)
        /\ Cardinality(Added) \in Nat /\ Cardinality(Online) \in Nat
        /\ Cardinality(Removed) \in Nat
    <3>1. Added \cap Online = {} /\ Online \cap Removed = {}
      OBVIOUS
    <3> HIDE DEF Added, Online, Removed
    <3> QED
      BY <2>2, <3>1, DisjointUnion
  <2>4. webSocketClientSet = Added \cup Online /\ Counted = Online \cup Removed
    BY <2>1 DEF CountInv, Kinds, Counted
  <2>5. onlineCount = Cardinality(Online) + Cardinality(Removed)
    BY <2>1, <2>3, <2>4 DEF CountInv
  <2> HIDE DEF Added, Online, Removed
  <2>6. onlineCount + Cardinality(Added) = Cardinality(webSocketClientSet) + Cardinality(Removed)
    BY <2>3, <2>4, <2>5
  <2> QED
    BY <2>6 DEF CountMatchesSet, Added, Removed
<1> QED
  BY <1>1, InitCount, CountStep, PTL DEF Spec

(* Every variable of the hub holds values of its kind, and only clients    *)
(* that came online and have not gone are in the set.                      *)
THEOREM HubTypes == Spec => []TypeOK
<1>1. CountInv => TypeOK
  <2>1. SUFFICES ASSUME CountInv PROVE TypeOK
    OBVIOUS
  <2>2. onlineCount \in Nat
    <3>1. IsFiniteSet(Counted)
      BY ConstantsAssumption, FS_Subset, Counted \subseteq Clients DEF Counted
    <3> QED
      BY <2>1, <3>1, FS_CardinalityType DEF CountInv
  <2> QED
    BY <2>1, <2>2 DEF CountInv, Kinds, Others, Calls, Messages, TypeOK
<1> QED
  BY <1>1, InitCount, CountStep, PTL DEF Spec

=============================================================================
