---------------------------- MODULE MCStagePages ----------------------------
(* Instances of StagePages for TLC: the windows of the pages.  The head of *)
(* the page and the users' page have windows that open from windows, so    *)
(* their handlers take more clicks to reach.                               *)
EXTENDS StagePages

CONSTANTS r1, r2

MCWindows ==
  (UNION {FormsOf(p) : p \in Pages}) \cup CommonWindows

MCMaxClicks ==
  [p \in Pages |-> IF p = "home" THEN 6 ELSE IF p = "users" THEN 5 ELSE 4]
=============================================================================
