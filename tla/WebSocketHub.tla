---------------------------- MODULE WebSocketHub ----------------------------
(***************************************************************************)
(* TongHuWebSocketServer: the set of the web-socket clients that are       *)
(* online, their number, and the messages that threads of the application  *)
(* write to them.  The senders are the handlers of ConsumerService, which  *)
(* call sendClientMessage with the name of their topic, and the threads of *)
(* onMessage and of TestInterfaceController, which call broadCastMessage.  *)
(***************************************************************************)
EXTENDS Integers, Sequences, FiniteSets

CONSTANTS
  Clients,  (* connections, each with an endpoint object of its own        *)
  Senders,  (* threads that send                                           *)
  Names,    (* names of clients                                            *)
  NameOf,   (* per connection: the name in the path it was opened with     *)
  Topic,    (* per sender: the name it sends to, Null if it broadcasts     *)
  MaxSends, (* bound: per sender, the calls it makes                 *)
  Null      (* Java null                                                   *)

ASSUME ConstantsAssumption ==
  /\ NameOf \in [Clients -> Names]
  /\ Topic \in [Senders -> Names \cup {Null}] /\ MaxSends \in [Senders -> Nat]
  /\ Null \notin Names \cup Senders
  /\ IsFiniteSet(Clients)

VARIABLES
  webSocketClientSet, (* the static CopyOnWriteArraySet                    *)
  onlineCount,        (* the static counter                                *)
  clientName,         (* per client: the field, Null before onOpen         *)
  life,               (* per client: the container's callbacks, see Lives  *)
  up,                 (* per client: its session is open                   *)
  writer,             (* per client: the sender in sendText, or Null       *)
  send,               (* per sender: its call, see Idle and Sending        *)
  sent,               (* per sender: number of its calls so far            *)
  received            (* per client: messages <<sender, number>> it got    *)

session == <<webSocketClientSet, onlineCount, clientName, life>>
vars == <<session, up, writer, send, sent, received>>

(* "added", "removed": onOpen or onClose has changed the set but not yet   *)
(* the counter.                                                            *)
Lives == {"none", "added", "online", "removed", "gone"}

Idle == [pc |-> "idle"]

(* A call in the loop over the snapshot start of the set, with todo left.  *)
Looping(start, todo) == [pc |-> "loop", start |-> start, todo |-> todo]

(* A call that is in sendText to client c.                                 *)
Writing(start, todo, c) == [pc |-> "write", start |-> start, todo |-> todo, c |-> c]

(* A call that returned (how = "done") or died of a runtime exception.     *)
Ended(how, start) == [pc |-> how, start |-> start]

Init ==
  /\ webSocketClientSet = {} /\ onlineCount = 0
  /\ clientName = [c \in Clients |-> Null]
  /\ life = [c \in Clients |-> "none"]
  /\ up = [c \in Clients |-> FALSE]
  /\ writer = [c \in Clients |-> Null]
  /\ send = [x \in Senders |-> Idle]
  /\ sent = [x \in Senders |-> 0]
  /\ received = [c \in Clients |-> <<>>]

-----------------------------------------------------------------------------
(* The container's callbacks.                                              *)

OnOpen(c) ==
  /\ life[c] = "none"
  /\ up' = [up EXCEPT ![c] = TRUE]
  /\ clientName' = [clientName EXCEPT ![c] = NameOf[c]]
  /\ webSocketClientSet' = webSocketClientSet \cup {c}
  /\ life' = [life EXCEPT ![c] = "added"]
  /\ UNCHANGED <<onlineCount, writer, send, sent, received>>

AddOnlineCount(c) ==
  /\ life[c] = "added"
  /\ onlineCount' = onlineCount + 1
  /\ life' = [life EXCEPT ![c] = "online"]
  /\ UNCHANGED <<webSocketClientSet, clientName, up, writer, send, sent, received>>

(* The connection breaks or the client closes it.                          *)
Disconnect(c) ==
  /\ up[c]
  /\ up' = [up EXCEPT ![c] = FALSE]
  /\ UNCHANGED <<session, writer, send, sent, received>>

Without(c) == webSocketClientSet \ {c}

OnClose(c) ==
  /\ life[c] = "online" /\ ~ up[c]
  /\ webSocketClientSet' = Without(c)
  /\ life' = [life EXCEPT ![c] = "removed"]
  /\ UNCHANGED <<onlineCount, clientName, up, writer, send, sent, received>>

(* Mutant of Fewer: the counter is not lowered.                            *)
SameCount(n) == n
Fewer(n) == n - 1

SubOnlineCount(c) ==
  /\ life[c] = "removed"
  /\ onlineCount' = Fewer(onlineCount)
  /\ life' = [life EXCEPT ![c] = "gone"]
  /\ UNCHANGED <<webSocketClientSet, clientName, up, writer, send, sent, received>>

-----------------------------------------------------------------------------
(* sendClientMessage and broadCastMessage.  Their loops are the same: the  *)
(* if of sendClientMessage, which compares the names, has an empty body.   *)

Become(x, r) == send' = [send EXCEPT ![x] = r]

Call(x) ==
  /\ send[x].pc = "idle" /\ sent[x] < MaxSends[x]
  /\ sent' = [sent EXCEPT ![x] = @ + 1]
  /\ Become(x, Looping(webSocketClientSet, webSocketClientSet))
  /\ UNCHANGED <<session, up, writer, received>>

(* sendText to a session that is open and that nobody writes to.           *)
BeginWrite(x, c) ==
  /\ send[x].pc = "loop" /\ c \in send[x].todo /\ up[c] /\ writer[c] = Null
  /\ writer' = [writer EXCEPT ![c] = x]
  /\ Become(x, Writing(send[x].start, send[x].todo, c))
  /\ UNCHANGED <<session, up, sent, received>>

(* Mutant of NextAfter: an IOException leaves the loop.                    *)
BreakAfter(x, c) == Looping(send[x].start, {})
(* What an IOException leads to: continue with the next client.            *)
NextAfter(x, c) == Looping(send[x].start, send[x].todo \ {c})

(* A closed session: sendText may throw an IOException ...                 *)
WriteToClosed(x, c) ==
  /\ send[x].pc = "loop" /\ c \in send[x].todo /\ ~ up[c]
  /\ Become(x, NextAfter(x, c))
  /\ UNCHANGED <<session, up, writer, sent, received>>

(* ... or an IllegalStateException, as it may when another thread is       *)
(* writing to the session: nothing catches it.                             *)
Throws(x, c) ==
  /\ send[x].pc = "loop" /\ c \in send[x].todo
  /\ ~ up[c] \/ writer[c] # Null
  /\ Become(x, Ended("thrown", send[x].start))
  /\ UNCHANGED <<session, up, writer, sent, received>>

(* Mutant of Delivered: a message overtakes the ones before it.            *)
PutFirst(q, m) == <<m>> \o q
Delivered(q, m) == Append(q, m)

EndWrite(x) ==
  /\ send[x].pc = "write" /\ up[send[x].c]
  /\ LET c == send[x].c
     IN  /\ received' = [received EXCEPT ![c] = Delivered(@, <<x, sent[x]>>)]
         /\ writer' = [writer EXCEPT ![c] = Null]
         /\ Become(x, Looping(send[x].start, send[x].todo \ {c}))
  /\ UNCHANGED <<session, up, sent>>

(* The connection is lost while sendText writes.                           *)
WriteFails(x) ==
  /\ send[x].pc = "write"
  /\ LET c == send[x].c
     IN  /\ up' = [up EXCEPT ![c] = FALSE]
         /\ writer' = [writer EXCEPT ![c] = Null]
         /\ Become(x, NextAfter(x, c))
  /\ UNCHANGED <<session, sent, received>>

(* Mutant of EndLoop: the loop waits until every client has the message.   *)
EndLoopWhenAllGot(x) ==
  /\ send[x].pc = "loop" /\ send[x].todo = {}
  /\ \A c \in send[x].start : \E i \in DOMAIN received[c] : received[c][i] = <<x, sent[x]>>
  /\ Become(x, Ended("done", send[x].start))
  /\ UNCHANGED <<session, up, writer, sent, received>>

EndLoop(x) ==
  /\ send[x].pc = "loop" /\ send[x].todo = {}
  /\ Become(x, Ended("done", send[x].start))
  /\ UNCHANGED <<session, up, writer, sent, received>>

Return(x) ==
  /\ send[x].pc \in {"done", "thrown"}
  /\ Become(x, Idle)
  /\ UNCHANGED <<session, up, writer, sent, received>>

-----------------------------------------------------------------------------
Callback(c) == OnOpen(c) \/ AddOnlineCount(c) \/ OnClose(c) \/ SubOnlineCount(c)

(* What a call that is under way does next.                                *)
Proceed(x) ==
  \/ \E c \in Clients : BeginWrite(x, c) \/ WriteToClosed(x, c) \/ Throws(x, c)
  \/ EndWrite(x) \/ WriteFails(x) \/ EndLoop(x) \/ Return(x)

Next ==
  \/ \E c \in Clients : Callback(c) \/ Disconnect(c)
  \/ \E x \in Senders : Call(x) \/ Proceed(x)

Spec == Init /\ [][Next]_vars

(* Threads that have begun a call are scheduled, and so are callbacks.     *)
Fairness ==
  /\ \A x \in Senders : WF_vars(Proceed(x))
  /\ \A c \in Clients : WF_vars(OnClose(c)) /\ WF_vars(SubOnlineCount(c))
                        /\ WF_vars(AddOnlineCount(c))

-----------------------------------------------------------------------------
(* Properties.                                                             *)

(* Every variable holds values of its kind; only clients that came online  *)
(* and have not gone are in the set.                                       *)
TypeOK ==
  /\ webSocketClientSet = {c \in Clients : life[c] \in {"added", "online"}}
  /\ onlineCount \in Nat
  /\ clientName \in [Clients -> Names \cup {Null}]
  /\ life \in [Clients -> Lives]
  /\ up \in [Clients -> BOOLEAN]
  /\ writer \in [Clients -> Senders \cup {Null}]
  /\ send \in [Senders ->
       {Idle}
       \cup [pc : {"loop"}, start : SUBSET Clients, todo : SUBSET Clients]
       \cup [pc : {"write"}, start : SUBSET Clients, todo : SUBSET Clients, c : Clients]
       \cup [pc : {"done", "thrown"}, start : SUBSET Clients]]
  /\ sent \in [Senders -> Nat]
  /\ received \in [Clients -> Seq(Senders \X Nat)]

(* The counter is the number of clients in the set, give or take the       *)
(* callbacks that are between their two changes.                           *)
CountMatchesSet ==
  onlineCount + Cardinality({c \in Clients : life[c] = "added"})
    = Cardinality(webSocketClientSet) + Cardinality({c \in Clients : life[c] = "removed"})

(* A client gets the messages of one sender in the order they were sent    *)
(* and none of them twice, whoever else writes to it.                      *)
SenderOrderKept ==
  \A c \in Clients : \A i, j \in DOMAIN received[c] :
    i < j /\ received[c][i][1] = received[c][j][1] => received[c][i][2] < received[c][j][2]

Got(c, x) == \E i \in DOMAIN received[c] : received[c][i] = <<x, sent[x]>>

(* The clients a call is for: those of the name it specifies, or anybody.  *)
For(x) == {c \in Clients : Topic[x] \in {Null, clientName[c]}}

(* Those of them that were in the set when the call began and have been    *)
(* open ever since.                                                        *)
Expected(x) == {c \in send[x].start \cap For(x) : up[c]}

(* When a call returns, every client it is for and that stayed open has    *)
(* the message, whichever writes to these or other clients failed.         *)
ReturnedMeansDelivered ==
  \A x \in Senders : send[x].pc = "done" => \A c \in Expected(x) : Got(c, x)

(* TongHuWebSocketServer.java:92, "send the data to the specified client": *)
(* a message that is sent to a name reaches clients of that name only.     *)
OnlySpecifiedGet ==
  \A c \in Clients : \A i \in DOMAIN received[c] : c \in For(received[c][i][1])

(* What is begun comes to its end: a call ends, however many clients break *)
(* while it writes to them; and a client whose session is closed leaves    *)
(* the set, whatever loops go over it meanwhile.                           *)
CallsAndClientsEnd ==
  /\ \A x \in Senders : send[x].pc # "idle" ~> send[x].pc = "idle"
  /\ \A c \in Clients : c \in webSocketClientSet /\ ~ up[c] ~> c \notin webSocketClientSet

=============================================================================
