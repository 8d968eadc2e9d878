----------------------------- MODULE MCRoleAuth -----------------------------
(* Instances of RoleAuth for TLC: the constants that a .cfg cannot write.  *)
EXTENDS RoleAuth, TLC

CONSTANTS page, list, home, item, both

(* item belongs to page alone; both is a sub-resource of page and of list. *)
MCSubs == {<<item, page>>, <<both, page>>, <<both, list>>}

(* Role 1 is the system role and has everything, role 2 starts with page;  *)
(* user 3 starts with role 2.                                              *)
MCInitRows == {<<1, page>>, <<1, list>>, <<2, page>>}
MCInitUserRole == {<<3, 2>>}
MCNoUserRole == {}

(* Smaller shapes for the runs with two administrators.                    *)
MCOneSub == {<<item, page>>}
MCOneRow == {<<1, page>>}
Symmetry == Permutations(Admins)
=============================================================================
