------------------------------- MODULE MCApi -------------------------------
(***************************************************************************)
(* Instances for TLC of what the api application keeps of its clients: the *)
(* web-socket hub and the socket server, which share no state.  A behaviour*)
(* is about one of them, chosen at the start, so that one run checks the   *)
(* liveness of both; the other has not been begun.                         *)
(***************************************************************************)
EXTENDS WebSocketHub, TLC

CONSTANTS Sockets, Ids, Delay, MaxLines, MaxThrows,   \* of the socket server
          c1, c2, x1, x2, alert, other

VARIABLES focus,
  running, listening, dog, stopping, link, unread, lines, mapping, pc, run, age,
  clientId, check, pushes, throws, excused, held

Server == INSTANCE SocketServer WITH Senders <- {}, sent <- lines, send <- pushes

serverVars == <<running, listening, dog, stopping, link, unread, lines, mapping, pc, run,
                age, clientId, check, pushes, throws, excused, held>>

(* One client has the name a handler sends to; the other sender broadcasts.*)
MCNameOf == c1 :> alert @@ c2 :> other
MCTopic == x1 :> alert @@ x2 :> Null

MCTwoAndOne == x1 :> 2 @@ x2 :> 1
MCOneEach == x1 :> 1 @@ x2 :> 1

ApiInit == focus \in {"hub", "server"} /\ Init /\ Server!Init
ApiNext ==
  /\ \/ focus = "hub" /\ Next /\ UNCHANGED serverVars
     \/ focus = "server" /\ Server!Next /\ UNCHANGED vars
  /\ UNCHANGED focus

ApiSpec == ApiInit /\ [][ApiNext]_<<focus, vars, serverVars>>
FairApiSpec == ApiSpec /\ Fairness /\ Server!Fairness

(* The property of SocketServer: silent connections leave the mapping, and *)
(* the threads of closed ones end.                                         *)
SilentEnds == Server!SilentEnds
=============================================================================
