------------------------------ MODULE SwitchButton ------------------------------
(***************************************************************************)
(* Check boxes and radio buttons dressed as sliding switches by            *)
(* jquery.ibutton.js: presses, drags and releases, keys, the calls of      *)
(* scripts, and the repainting of the other buttons of a group.            *)
(*                                                                         *)
(* A place of a handle is a percentage.  The slide of a handle to where it *)
(* belongs is taken as over; each starts from wherever the last one left.  *)
(***************************************************************************)
EXTENDS Integers, Sequences, FiniteSets, SequencesExt

CONSTANTS
  Switches,           \* in the order of the page: a sequence
  Radios,             \* those of one group; the others are check boxes
  DragPlaces,         \* where a handle may be dragged to, left of 0 included
  MaxSwitchSteps      \* bound: events

ASSUME Radios \subseteq Range(Switches)

VARIABLE sw
switchVars == <<sw>>

AllSwitches == Range(Switches)
OnRight == 100
Clamp(x) == IF x < 0 THEN 0 ELSE IF x > OnRight THEN OnRight ELSE x

SwitchInit ==
  sw = [checked |-> {}, dressed |-> AllSwitches, off |-> {},   \* disabled, as the switch knows
        inputOff |-> {}, looksOff |-> {}, place |-> [c \in AllSwitches |-> 0],
        clicked |-> {}, dragging |-> {}, active |-> {}, start |-> [c \in AllSwitches |-> 0],
        x |-> 0, steps |-> 0,
        behind |-> {}, surprised |-> FALSE, chosen |-> FALSE]    \* history: see SwitchTruthful

-----------------------------------------------------------------------------
PositionHandle(s, c) ==
  [s EXCEPT !.place[c] = IF c \in s.checked THEN OnRight ELSE 0, !.behind = @ \ {c}]

(* attr("checked", on): the browser unchecks the others of a group, whose  *)
(* handles do not know.                                                    *)
SetChecked(s, c, on) ==
  LET now == IF ~on THEN s.checked \ {c}
             ELSE IF c \in Radios THEN (s.checked \ Radios) \cup {c}
             ELSE s.checked \cup {c}
  IN [s EXCEPT !.checked = now]

(* iButton(this): nothing if it is one already.                            *)
Dress(s, c) ==
  IF c \in s.dressed THEN s
  ELSE LET OffAs(set) == (set \ {c}) \cup (s.inputOff \cap {c})
       IN [PositionHandle(s, c) EXCEPT !.dressed = @ \cup {c}, !.off = OffAs(@), !.looksOff = OffAs(@),
                                       !.clicked = @ \ {c}, !.dragging = @ \ {c}, !.active = @ \ {c}]

(* iButton("repaint") of several: when the first is no switch they are     *)
(* made into some; when a later one is none, the call throws there.        *)
RepaintAll(s, cs) ==
  LET first == SelectInSeq(cs, LAMBDA c : c \notin s.dressed)
  IN IF first = 1 THEN FoldLeft(Dress, s, cs)
     ELSE FoldLeft(PositionHandle, s, IF first = 0 THEN cs ELSE SubSeq(cs, 1, first - 1))

(* The handler of "change".                                                *)
Changed(s, c) ==
  IF c \notin s.dressed THEN [s EXCEPT !.behind = IF c \in Radios THEN @ \cup Radios ELSE @]
  ELSE LET d == PositionHandle(s, c)
       IN IF c \notin Radios THEN d
          ELSE RepaintAll([d EXCEPT !.chosen = @ \/ c \in d.checked,
                                    !.behind = IF Radios \subseteq d.dressed THEN @
                                               ELSE @ \cup (Radios \ {c})],
                          SelectSeq(Switches, LAMBDA r : r \in Radios \ d.checked))

-----------------------------------------------------------------------------
SwitchStep(s) ==
  /\ sw.steps < MaxSwitchSteps
  /\ sw' = [s EXCEPT !.steps = @ + 1]

(* The mouse goes down on a switch: a checked radio button ignores it.     *)
PressesSwitch(c) ==
  /\ c \in sw.dressed
  /\ SwitchStep(IF c \in sw.off \/ c \in Radios \cap sw.checked THEN sw
                ELSE [sw EXCEPT !.clicked = @ \cup {c}, !.start[c] = sw.place[c], !.x = 0])

DragTo(s, c, x) ==
  LET to == s.start[c] + x
  IN [s EXCEPT !.place[c] = Clamp(to),
               !.dragging = IF to # 0 THEN @ \cup {c} ELSE @,
               !.active = IF to # 0 THEN @ \cup {c} ELSE @]

MouseMovesBy(x) ==
  /\ sw.clicked # {}
  /\ SwitchStep(FoldLeft(LAMBDA s, c : DragTo(s, c, x), [sw EXCEPT !.x = x], SetToSeq(sw.clicked)))

(* The mouse comes up anywhere on the page, less than 120 ms after it went *)
(* down (quick) or later, for every switch that waits for that.            *)
Release(s, c, quick) ==
  LET was == c \in s.checked
      drops == c \in s.dragging /\ ~quick
      now == IF drops THEN s.start[c] + s.x >= 50 ELSE ~was
      d == [SetChecked(s, c, now) EXCEPT !.clicked = @ \ {c}, !.dragging = @ \ {c}, !.active = @ \ {c}]
  IN IF was = now THEN PositionHandle(d, c) ELSE Changed(d, c)

MouseComesUp(quick) ==
  /\ sw.clicked # {}
  /\ SwitchStep([FoldLeft(LAMBDA s, c : Release(s, c, quick), sw, SetToSeq(sw.clicked))
                   EXCEPT !.surprised = @ \/ (sw.clicked \cap Radios \cap sw.checked) # {}])

(* The space bar, or a click on the control itself.                        *)
TogglesNatively(c) ==
  /\ c \notin sw.inputOff /\ ~(c \in Radios \cap sw.checked)
  /\ SwitchStep(Changed(SetChecked(sw, c, c \notin sw.checked), c))

(* The methods, as scripts call them.                                      *)
TogglesSwitch(c) ==
  c \in sw.dressed /\ SwitchStep([Changed(SetChecked(sw, c, c \notin sw.checked), c)
                                    EXCEPT !.surprised = @ \/ c \in Radios \cap sw.checked])
DisablesSwitch(c) ==
  LET Flip(set) == IF c \in sw.off THEN set \ {c} ELSE set \cup {c}
  IN c \in sw.dressed
       /\ SwitchStep([sw EXCEPT !.off = Flip(@), !.inputOff = Flip(@), !.looksOff = Flip(@)])
RepaintsSwitch(c) == c \in sw.dressed /\ SwitchStep(PositionHandle(sw, c))
DestroysSwitch(c) ==
  c \in sw.dressed
    /\ SwitchStep([sw EXCEPT !.dressed = @ \ {c}, !.clicked = @ \ {c}, !.dragging = @ \ {c},
                             !.active = @ \ {c}, !.looksOff = @ \ {c}])
DressesSwitch(c) == c \notin sw.dressed /\ SwitchStep(Dress(sw, c))

(* A script that does not know of the switch.                              *)
ScriptChecks(c, on) ==
  /\ on # (c \in sw.checked)
  /\ SwitchStep([SetChecked(sw, c, on) EXCEPT
                   !.behind = @ \cup {c} \cup (IF c \in Radios THEN Radios \cap sw.checked ELSE {}),
                   !.surprised = @ \/ (c \in Radios /\ ~on)])

SwitchNext ==
  \/ \E x \in DragPlaces : MouseMovesBy(x)
  \/ \E quick \in BOOLEAN : MouseComesUp(quick)
  \/ \E c \in AllSwitches :
       \/ PressesSwitch(c) \/ TogglesNatively(c) \/ TogglesSwitch(c) \/ DisablesSwitch(c)
       \/ RepaintsSwitch(c) \/ DestroysSwitch(c) \/ DressesSwitch(c)
       \/ \E on \in BOOLEAN : ScriptChecks(c, on)

-----------------------------------------------------------------------------
(* The handle of a switch that is not held lies where its control says,    *)
(* unless a script set that behind its back, or its group had a button     *)
(* that is no switch; a switch looks disabled when its control is.  A      *)
(* group of radio buttons in which a choice was made keeps one, unless a   *)
(* script takes it away or the button was chosen between press and release.*)
SwitchTruthful ==
  /\ Cardinality(sw.checked \cap Radios) <= 1
  /\ sw.chosen /\ ~sw.surprised => sw.checked \cap Radios # {}
  /\ \A c \in sw.dressed :
       /\ c \in sw.clicked \cup sw.behind \/ sw.place[c] = (IF c \in sw.checked THEN OnRight ELSE 0)
       /\ c \in sw.looksOff <=> c \in sw.inputOff
       /\ c \in sw.active => c \in sw.clicked
=============================================================================
