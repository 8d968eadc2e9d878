--------------------------- MODULE StyledControls ----------------------------
(***************************************************************************)
(* Form controls that are drawn by wrappers: jquery.uniform.js, and what   *)
(* the pages do with the selects they style with it.                       *)
(*                                                                         *)
(* The control itself is transparent.  The wrapper shows a text or a tick  *)
(* of its own, kept in step by the control's events, and events do not     *)
(* come when a script sets the value: the script must write the text as    *)
(* well, as the openers of the pages do by hand, or ask for an update.     *)
(***************************************************************************)
EXTENDS Naturals, Sequences, SequencesExt

CONSTANTS
  Controls,
  KindOf,               \* "select", "checkbox", "radio" or "file"
  Texts2,               \* options of a select, names of files
  NoText,               \* the first option, and no file
  MaxMoves              \* bound: what the user and the scripts do

ASSUME Kinds == KindOf \in [Controls -> {"select", "checkbox", "radio", "file"}]

VARIABLES
  value,        \* what each control holds; TRUE or FALSE for a tick
  drawn,        \* what its wrapper shows
  styled,       \* the controls that have a wrapper
  elements,     \* $.uniform.elements
  stale,        \* history: set by a script and not drawn since
  restored,     \* history: a control has been restored
  moves

controlVars == <<value, drawn, styled, elements, stale, restored, moves>>

OfKind(k) == {c \in Controls : KindOf[c] = k}
Ticks == OfKind("checkbox") \cup OfKind("radio")
ValuesOf(c) == IF c \in Ticks THEN BOOLEAN ELSE Texts2 \cup {NoText}

Move ==
  /\ moves < MaxMoves
  /\ moves' = moves + 1

(* A value as the browser sets it: one radio of a group is on.             *)
WithValue(c, v) ==
  [d \in Controls |-> IF d = c THEN v
                      ELSE IF v = TRUE /\ {c, d} \subseteq OfKind("radio") THEN FALSE
                      ELSE value[d]]
Changes(new) == {d \in Controls : new[d] # value[d]}
Draw(cs, new) == [d \in Controls |-> IF d \in cs THEN new[d] ELSE drawn[d]]

-----------------------------------------------------------------------------
(* $(c).uniform(): the wrapper shows what the control holds.               *)
StyleSelect(c) == KindOf[c] = "select" /\ drawn' = Draw({c}, value)
StyleCheckbox(c) == KindOf[c] = "checkbox" /\ drawn' = Draw({c}, value)
StyleRadio(c) == KindOf[c] = "radio" /\ drawn' = Draw({c}, value)
StyleFile(c) == KindOf[c] = "file" /\ drawn' = Draw({c}, value)

Style(c) ==
  /\ Move
  /\ c \notin styled
  /\ StyleSelect(c) \/ StyleCheckbox(c) \/ StyleRadio(c) \/ StyleFile(c)
  /\ styled' = styled \cup {c}
  /\ elements' = Append(elements, c)
  /\ stale' = stale \ {c}
  /\ UNCHANGED <<value, restored>>

(* What the events of a control draw.                                      *)
DrawSelect(c, new) == drawn' = Draw({c}, new)
DrawCheckbox(c, new) == drawn' = Draw({c}, new)

(* Mutant of DrawRadio: the others of the group keep their ticks.          *)
DrawRadioAlone(c, new) == drawn' = Draw({c}, new)

(* The ticks of the whole group go, the one of c comes.                    *)
DrawRadio(c, new) == drawn' = Draw(OfKind("radio") \cap styled, [d \in Controls |-> d = c])
DrawFile(c, new) == drawn' = Draw({c}, new)

(* The user changes a control: change, keyup or click.                     *)
UserSets(c, v) ==
  /\ Move
  /\ v \in ValuesOf(c) /\ v # value[c]
  /\ KindOf[c] = "radio" => v
  /\ value' = WithValue(c, v)
  /\ IF c \in styled
       THEN /\ CASE KindOf[c] = "select" -> DrawSelect(c, value')
                 [] KindOf[c] = "checkbox" -> DrawCheckbox(c, value')
                 [] KindOf[c] = "radio" -> DrawRadio(c, value')
                 [] OTHER -> DrawFile(c, value')
            /\ stale' = stale \ (IF KindOf[c] = "radio" THEN OfKind("radio") ELSE {c})
       ELSE /\ UNCHANGED drawn
            /\ stale' = stale \cup (Changes(value') \ {c})
  /\ UNCHANGED <<styled, elements, restored>>

(* A script sets a value, as clearSearchInput of sysLog.js does.           *)
ScriptSets(c, v) ==
  /\ Move
  /\ v \in ValuesOf(c) /\ v # value[c]
  /\ KindOf[c] = "file" => v = NoText
  /\ value' = WithValue(c, v)
  /\ stale' = stale \cup (Changes(value') \cap styled)
  /\ UNCHANGED <<drawn, styled, elements, restored>>

(* The opener of a form: the value of a select, and its text by hand.      *)
OpenerSets(c, v) ==
  /\ Move
  /\ KindOf[c] = "select" /\ c \in styled
  /\ v \in ValuesOf(c)
  /\ value' = [value EXCEPT ![c] = v]
  /\ drawn' = [drawn EXCEPT ![c] = v]
  /\ stale' = stale \ {c}
  /\ UNCHANGED <<styled, elements, restored>>

(* $.uniform.update: the name of a file is looked for under a class name   *)
(* without its dot and is not found.                                       *)
Update(cs) == drawn' = Draw(cs \ OfKind("file"), value)

UpdateOne(c) ==
  /\ Move
  /\ c \in styled
  /\ Update({c})
  /\ stale' = stale \ ({c} \ OfKind("file"))
  /\ UNCHANGED <<value, styled, elements, restored>>

UpdateAll ==
  /\ Move
  /\ Update({elements[i] : i \in DOMAIN elements} \cap styled)
  /\ stale' = IF restored THEN stale \ ({elements[i] : i \in DOMAIN elements} \ OfKind("file"))
              ELSE stale \cap OfKind("file")
  /\ UNCHANGED <<value, styled, elements, restored>>

(* $.uniform.restore: the wrapper goes.  The control is looked up in the   *)
(* list as another object, is never found, and the last of the list is     *)
(* dropped in its place.                                                   *)
Restore(c) ==
  /\ Move
  /\ c \in styled
  /\ styled' = styled \ {c}
  /\ elements' = IF elements = <<>> THEN <<>> ELSE Front(elements)
  /\ restored' = TRUE
  /\ stale' = stale \ {c}
  /\ UNCHANGED <<value, drawn>>

ControlsInit ==
  /\ value = [c \in Controls |-> IF c \in Ticks THEN FALSE ELSE NoText]
  /\ drawn = value
  /\ styled = {} /\ elements = <<>>
  /\ stale = {} /\ restored = FALSE /\ moves = 0

ControlsNext ==
  \/ \E c \in Controls :
       \/ Style(c)
       \/ \E v \in ValuesOf(c) : UserSets(c, v) \/ ScriptSets(c, v) \/ OpenerSets(c, v)
       \/ UpdateOne(c) \/ Restore(c)
  \/ UpdateAll

ControlsSpec == ControlsInit /\ [][ControlsNext]_controlVars

-----------------------------------------------------------------------------
(* A wrapper shows what its control holds, radios of one group together,   *)
(* unless a script has set the value and neither written the text nor asked*)
(* for an update.  An update of everything reaches every wrapper until the *)
(* first control is restored, names of files excepted.                     *)
WrapperShowsValue ==
  \A c \in styled \ stale : drawn[c] = value[c]
=============================================================================
