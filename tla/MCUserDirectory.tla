-------------------------- MODULE MCUserDirectory --------------------------
(* Instances of UserDirectory for TLC: the constants that a .cfg cannot    *)
(* write.  User 1 is the system user; user 2 is signed in.                 *)
EXTENDS UserDirectory, TLC

CONSTANTS root, ann, bob, mail, staff, guest

MCSelf == [t \in Threads |-> 2]
MCInitUsers ==
  [i \in Ids |-> CASE i = 1 -> [name |-> root, email |-> Blank]
                   [] i = 2 -> [name |-> ann, email |-> Blank]
                   [] OTHER -> Null]
MCInitUserRole == {<<1, staff>>}
Symmetry == Permutations(Threads)
=============================================================================
