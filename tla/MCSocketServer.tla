--------------------------- MODULE MCSocketServer ---------------------------
(* Instances of SocketServer for TLC.                                      *)
EXTENDS SocketServer, TLC

Symmetry == Permutations(Sockets)

(* Bound of the run with a sender: the server has not been stopped.        *)
NotStopped == stopping = "no" /\ (running \/ dog.pc = "new")
=============================================================================
