---------------------------- MODULE PageWindows ----------------------------
(***************************************************************************)
(* The windows of a page of the stage application: block.js, the copy of   *)
(* blockUI that foot.ftl loads, as the page scripts use it.                *)
(*                                                                         *)
(* A window is an element of the page, hidden at its home.  Opening it     *)
(* takes it out of its parent, puts it into a fresh layer over the page    *)
(* and notes in a single slot, blockUI.history, where it belongs.  Closing *)
(* reads the slot, lets the layers fade, and only when the fade is over    *)
(* removes them, puts the noted element back and clears the slot.  The     *)
(* slot may by then belong to another window; nothing in the script looks. *)
(*                                                                         *)
(* The state is one record, ui, and the script's functions are functions   *)
(* on it, so that a handler of a page composes the calls it makes.  Fades  *)
(* of 200, 400 and 1000 ms run side by side, so they may end in any order; *)
(* sizes, positions, colours and focus are left out.                       *)
(***************************************************************************)
EXTENDS Naturals, Sequences, FiniteSets, SequencesExt

CONSTANTS
  Windows,      \* the windows of the page, by the id of their element
  Null,         \* no window, no note, no handler
  MaxFades      \* bound: fades that may run at the same time

Home == 0                      \* the place of a hidden window
Lost == 2 * MaxFades + 4         \* out of the document: $("#id") finds nothing
Growl == "growl"               \* the message shown when the page has loaded

(* A layer group is known by a number; the numbers in use are few, since   *)
(* only a close leaves a group behind and MaxFades bounds the closes.      *)
Layers == 1 .. 2 * MaxFades + 3
Places == {Home, Lost} \cup Layers

(* The slot: the element and the parent it was taken from.                 *)
Notes == [el : Windows \cup {Growl}, parent : Places]

(* The close of a fade: the layers it took, the note it took, and the      *)
(* onUnblock handler it runs last.                                         *)
Fade(els, note, then) == [els |-> els, note |-> note, then |-> then]

LayersOf(u) == Range(u.stack)

ASSUME WindowsAssumption ==
  MaxFades \in Nat /\ Null \notin Nat /\ Null \notin Notes

(* The stack s without the layers in gone.                                 *)
Without(s, gone) ==
  LET kept[n \in 0 .. Len(s)] ==
        IF n = 0 THEN <<>>
        ELSE IF s[n] \in gone THEN kept[n - 1] ELSE Append(kept[n - 1], s[n])
  IN kept[Len(s)]

(* Numbers a new layer must not take.                                      *)
Taken(u) ==
  LayersOf(u)
    \cup (UNION {f.els : f \in Range(u.fades)})
    \cup {f.note.parent : f \in {g \in Range(u.fades) : g.note # Null}}
    \cup (IF u.history = Null THEN {} ELSE {u.history.parent})
    \cup Range(u.place)

FreshLayer(u) == CHOOSE l \in Layers \ Taken(u) :
                   \A m \in Layers \ Taken(u) : l <= m

(* reset(els, data, opts, el): the layers leave the document with whatever *)
(* is in them, the noted element goes back to the noted parent, and the    *)
(* slot is cleared, whoever's note it now holds.                           *)
Reset(u, els, note) ==
  LET left == Without(u.stack, els)
      Stays(p) == p = Home \/ p \in Range(left)
  IN [u EXCEPT
        !.stack = left,
        !.growl = IF @ \in els THEN Null ELSE @,
        !.place = [w \in DOMAIN @ |->
          IF note # Null /\ note.el = w
            THEN IF Stays(note.parent) THEN note.parent ELSE Lost
            ELSE IF Stays(u.place[w]) THEN u.place[w] ELSE Lost],
        !.history = IF note # Null THEN Null ELSE @]

(* remove(window, {fadeOut: 0}): what opening does to the window before.   *)
RemoveNow(u) ==
  [Reset(u, LayersOf(u), u.history) EXCEPT !.block = Null, !.timeout = FALSE]

(* Mutant of RemoveFading: the handler of the close is forgotten.          *)
FadeWithoutHandler(u, then) ==
  [u EXCEPT !.block = Null,
            !.timeout = FALSE,
            !.fades = Append(@, Fade(LayersOf(u), u.history, Null))]

(* remove(window, opts): $.unblockUI and blockUIClose.                     *)
RemoveFading(u, then) ==
  [u EXCEPT !.block = Null,
            !.timeout = FALSE,
            !.fades = Append(@, Fade(LayersOf(u), u.history, then))]

(* The end of the i-th fade; the caller runs its onUnblock handler.        *)
EndFade(u, i) ==
  LET f == u.fades[i]
  IN Reset([u EXCEPT !.fades = RemoveAt(@, i)], f.els, f.note)

(* install(window, opts) with the element w as its message.  When w is not *)
(* in the document, node.parentNode throws: nothing opens, and the handler *)
(* that called stops here.                                                 *)
CanInstall(u, w) ==
  LET v == IF u.block # Null THEN RemoveNow(u) ELSE u IN v.place[w] # Lost

Install(u, w) ==
  LET v == IF u.block # Null THEN RemoveNow(u) ELSE u
      l == FreshLayer(v)
  IN IF v.place[w] = Lost
       THEN [v EXCEPT !.history = Null]
       ELSE [v EXCEPT !.stack = Append(@, l),
                      !.block = l,
                      !.history = [el |-> w, parent |-> v.place[w]],
                      !.place[w] = l,
                      !.overlap = @ \/ v.fades # <<>>]

(* A page that has just loaded: $.growlUI has shown its message without an *)
(* overlay, with a timeout of three seconds.                               *)
Loaded(windows) ==
  [stack |-> <<1>>, block |-> 1, growl |-> 1, timeout |-> TRUE,
   history |-> [el |-> Growl, parent |-> Lost],
   place |-> [w \in windows |-> Home], fades |-> <<>>, overlap |-> FALSE]

(* Mutant of Overlays: a layer that fades lets clicks through.             *)
OverlaysStanding(u) ==
  Without(u.stack, {u.growl} \cup UNION {f.els : f \in Range(u.fades)})

(* What the user can reach: an overlay takes every click outside the       *)
(* window it carries; the message of the load has no overlay.              *)
Overlays(u) == Without(u.stack, {u.growl})
PageClickable(u) == Overlays(u) = <<>>
InFront(u, w) == Overlays(u) # <<>> /\ u.place[w] = Last(Overlays(u))

(* The page is covered, no window is in the layer in front, and nothing is *)
(* under way that would take the layer away.                               *)
Stuck(u) ==
  ~PageClickable(u) /\ u.fades = <<>> /\ \A w \in DOMAIN u.place : ~InFront(u, w)

UiOK(u) ==
  /\ Range(u.stack) \subseteq Layers /\ IsInjective(u.stack)
  /\ u.block \in LayersOf(u) \cup {Null}
  /\ u.growl \in LayersOf(u) \cup {Null}
  /\ u.timeout \in BOOLEAN /\ (u.timeout => u.growl # Null)
  /\ u.history \in Notes \cup {Null}
  /\ DOMAIN u.place \subseteq Windows
  /\ Range(u.place) \subseteq {Home, Lost} \cup LayersOf(u)
  /\ Len(u.fades) <= MaxFades + 1
=============================================================================
