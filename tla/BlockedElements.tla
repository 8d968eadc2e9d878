---------------------------- MODULE BlockedElements ----------------------------
(***************************************************************************)
(* The blocked page and blocked elements of jquery.blockUI.js 2.60: layers *)
(* laid over them, a node of the page borrowed as the message and put back *)
(* when the fade is over, time-outs that unblock, and growl notes.         *)
(***************************************************************************)
EXTENDS Integers, Sequences, FiniteSets, SequencesExt

CONSTANTS
  Window, Elements,   \* what can be blocked
  LentNodes, Growl,   \* nodes of the page shown as messages; the growl note
  BlockOptions,       \* sets of "timed", "listens", "ignore", "cover" that are used
  MaxBlockSteps       \* bound: what scripts and the mouse do

VARIABLE blk
blockVars == <<blk>>

Blockables == {Window} \cup Elements
PlainText == "text"                     \* a message that is no node
AtPlace == 0                            \* where a node is: at its place,
Detached == -1                          \* nowhere, or in a layer, by number
NoHistory == [node |-> PlainText, parent |-> Detached]

BlockInit ==
  blk = [layers |-> [e \in Blockables |-> <<>>], blocked |-> [e \in Blockables |-> FALSE],
         at |-> [n \in LentNodes \cup {Growl} |-> IF n = Growl THEN Detached ELSE AtPlace],
         history |-> [e \in Blockables |-> NoHistory],
         onUnblock |-> [e \in Blockables |-> 0], timeout |-> [e \in Blockables |-> -1],
         pageBlock |-> FALSE, deaf |-> FALSE, fades |-> {}, steps |-> 0,
         \* history: see BlocksTruthful
         told |-> <<>>, timed |-> {}, over |-> {}, stopped |-> {}, mislaid |-> {}, left |-> {}, ears |-> {}]

-----------------------------------------------------------------------------
LayerIds(s, el) == {l.id : l \in Range(s.layers[el])}
InDocument(s, n) == s.at[n] = AtPlace \/ \E e \in Blockables : s.at[n] \in LayerIds(s, e)

(* reset: nothing is put back while the element is blocked again.          *)
ResetBlock(s, c) ==
  IF s.blocked[c.el] THEN [s EXCEPT !.over = @ \cup {c.tell}]
  ELSE LET n == c.data.node
           d == [s EXCEPT !.layers[c.el] = SelectSeq(@, LAMBDA l : l.id \notin c.ids),
                          !.told = IF c.tell = 0 THEN @ ELSE Append(@, c.tell)]
       IN IF n = PlainText THEN d
          ELSE [d EXCEPT !.at[n] = IF c.data.parent = Detached THEN @ ELSE c.data.parent,
                         !.mislaid = @ \cup ({d.history[c.el].node} \ {n, PlainText}),
                         !.history[c.el] = NoHistory]

(* bind                                                                    *)
BindEvents(s, el, cover) ==
  LET d == [s EXCEPT !.blocked[el] = TRUE]
  IN IF el = Window THEN [d EXCEPT !.pageBlock = TRUE, !.deaf = @ \/ cover] ELSE d
UnbindEvents(s, el) ==
  IF el = Window /\ ~s.pageBlock THEN s
  ELSE [s EXCEPT !.blocked[el] = FALSE, !.deaf = @ /\ el # Window]

(* remove: a fade that is under way on the same layers is stopped, and     *)
(* its end never comes.  tell is the listener of a time-out's own options. *)
RemoveBlock(s, el, fade, tell) ==
  LET ids == LayerIds(s, el)
      c == [el |-> el, ids |-> ids, data |-> s.history[el],
            tell |-> IF tell = 0 THEN s.onUnblock[el] ELSE tell]
      d == [UnbindEvents(s, el) EXCEPT !.timeout[el] = -1, !.pageBlock = @ /\ el # Window,
                                       !.onUnblock[el] = IF tell = 0 THEN 0 ELSE @]
      going == {f \in d.fades : f.ids \cap ids = {}}
  IN IF ~fade THEN ResetBlock(d, c)
     ELSE [d EXCEPT !.fades = IF ids = {} THEN going ELSE going \cup {c},
                    !.over = @ \cup ({f.tell : f \in d.fades \ going} \ {c.tell})]

(* install: the current block of the page goes, the node is borrowed, the  *)
(* layers are laid and shown, the keys bound and the time-out set.         *)
Borrow(s, el, msg) ==
  IF msg = PlainText THEN s
  ELSE [s EXCEPT !.history[el] = [node |-> msg, parent |-> s.at[msg]],
                 !.at[msg] = s.steps,
                 !.mislaid = @ \cup (IF s.at[msg] > 0 THEN {msg} ELSE {})
                               \cup ({s.history[el].node} \ {PlainText})]
LayLayers(s, el, cover) ==
  [s EXCEPT !.layers[el] = Append(@, [id |-> s.steps, cover |-> cover, visible |-> TRUE]), !.left = @ \ {el}]
SetTimeout(s, el, listens) ==
  [s EXCEPT !.timeout[el] = IF listens THEN s.steps ELSE 0, !.timed = @ \cup {s.steps}]

InstallBlock(s, el, msg, options) ==
  LET freed == IF el = Window /\ s.pageBlock THEN RemoveBlock(s, Window, FALSE, 0) ELSE s
      listens == "listens" \in options
      cover == "cover" \in options
      heard == [Borrow(freed, el, msg) EXCEPT !.onUnblock[el] = IF listens THEN s.steps ELSE 0,
                                              !.ears = IF listens THEN @ \cup {s.steps} ELSE @]
      shown == BindEvents(LayLayers(heard, el, cover), el, cover)
  IN IF "timed" \in options THEN SetTimeout(shown, el, listens) ELSE shown

(* A page that is blocked anew drops its block at once, an element even    *)
(* the one that is fading.  Without the node the call throws.              *)
BlockElement(s, el, msg, options) ==
  LET d == IF el = Window THEN s ELSE RemoveBlock(s, el, FALSE, 0)
      thrown == IF el = Window /\ d.pageBlock THEN RemoveBlock(d, Window, FALSE, 0) ELSE d
  IN IF msg # PlainText /\ ~InDocument(s, msg) THEN [thrown EXCEPT !.history[el] = NoHistory]
     ELSE InstallBlock(d, el, msg, options)

-----------------------------------------------------------------------------
BlockStep(Do(_)) ==
  /\ blk.steps < MaxBlockSteps
  /\ blk' = Do([blk EXCEPT !.steps = @ + 1])

BlocksElement(el, msg, options) ==
  BlockStep(LAMBDA s : IF "ignore" \in options /\ s.blocked[el] THEN s ELSE BlockElement(s, el, msg, options))
UnblocksElement(el, fade) == BlockStep(LAMBDA s : RemoveBlock(s, el, fade, 0))

(* growlUI; the mouse over the note stops the fades of all messages.       *)
ShowsGrowl ==
  /\ blk.at[Growl] = Detached
  /\ BlockStep(LAMBDA s : InstallBlock(s, Window, Growl, {"timed", "listens"}))
GrowlSeen == \E j \in DOMAIN blk.layers[Window] :
               blk.layers[Window][j].id = blk.at[Growl] /\ blk.layers[Window][j].visible
EntersGrowl ==
  /\ GrowlSeen
  /\ BlockStep(LAMBDA s :
       LET d == InstallBlock(s, Window, Growl, {"timed", "listens"})
           halted == {f \in d.fades : f.ids \subseteq LayerIds(d, f.el)}
       IN [d EXCEPT !.fades = @ \ halted, !.stopped = @ \cup {f.el : f \in halted},
                    !.layers = [e \in Blockables |->
                                  [j \in DOMAIN d.layers[e] |-> [d.layers[e][j] EXCEPT !.visible = TRUE]]]])
LeavesGrowl ==
  /\ GrowlSeen
  /\ BlockStep(LAMBDA s :
       [s EXCEPT !.layers = [e \in Blockables |->
                               [j \in DOMAIN s.layers[e] |-> [s.layers[e][j] EXCEPT !.visible = FALSE]]],
                 !.left = Blockables])

TimeoutIsDue(el) ==
  /\ blk.timeout[el] >= 0
  /\ blk' = RemoveBlock(blk, el, TRUE, blk.timeout[el])

BlockFaded(c) ==
  LET hidden == [l \in DOMAIN blk.layers[c.el] |->
                   [blk.layers[c.el][l] EXCEPT !.visible = @ /\ blk.layers[c.el][l].id \notin c.ids]]
  IN blk' = ResetBlock([blk EXCEPT !.fades = @ \ {c}, !.layers[c.el] = hidden], c)

BlockNext ==
  \/ \E el \in Blockables, msg \in LentNodes \cup {PlainText}, options \in BlockOptions :
       BlocksElement(el, msg, options)
  \/ \E el \in Blockables : TimeoutIsDue(el) \/ \E fade \in BOOLEAN : UnblocksElement(el, fade)
  \/ ShowsGrowl \/ EntersGrowl \/ LeavesGrowl
  \/ \E c \in blk.fades : BlockFaded(c)

-----------------------------------------------------------------------------
(* Once the fades are over, what is not blocked has no layer left, unless  *)
(* the mouse entered a growl note while it faded, and what is blocked has  *)
(* one to be seen, unless the mouse left the note.  A node that was lent   *)
(* as a message is back at its place when nothing is blocked, unless it    *)
(* was lent twice at a time, or its element was blocked with another one  *)
(* while it faded.  The page takes no keys exactly while it is covered.    *)
(* A listener hears of the end of its block, unless another block began    *)
(* during the fade or the fade was stopped, and only once, unless a        *)
(* time-out ended the block.                                               *)
BlocksTruthful ==
  LET s == blk
      quiet == s.fades = {}
  IN /\ \A el \in Blockables :
          /\ quiet /\ ~s.blocked[el] /\ el \notin s.stopped => s.layers[el] = <<>>
          /\ s.blocked[el] =>
               \E l \in Range(s.layers[el]) : l.visible \/ el \in s.left
     /\ quiet /\ (\A el \in Blockables : ~s.blocked[el]) /\ s.stopped = {} =>
          \A n \in LentNodes \ s.mislaid : s.at[n] = AtPlace
     /\ s.deaf <=> s.pageBlock /\ Last(s.layers[Window]).cover
     /\ s.pageBlock = s.blocked[Window]
     /\ \A id \in s.ears \ s.over :
          quiet /\ s.stopped = {} /\ (\A el \in Blockables : ~s.blocked[el] \/ id \notin LayerIds(s, el)) =>
            id \in Range(s.told)
     /\ \A i, j \in DOMAIN s.told : i # j /\ s.told[i] = s.told[j] => s.told[i] \in s.timed
=============================================================================
