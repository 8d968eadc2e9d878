------------------------------- MODULE Uploads -------------------------------
(***************************************************************************)
(* Choosing and uploading the file of a form: fileChange of util.js, the   *)
(* upload handlers of materialManage.js and sysConfig.js, and              *)
(* ajaxfileupload.js, which posts a form of its own into a hidden frame.   *)
(*                                                                         *)
(* A material's form has one input for an image and one for a video and    *)
(* shows the one of the chosen type; a file is uploaded as soon as it is   *)
(* chosen.  The form of a configuration has one input and a button.  An    *)
(* upload belongs to the input it was started from; when its answer comes, *)
(* the id of the stored file goes into the form as it is by then.          *)
(***************************************************************************)
EXTENDS Naturals, Sequences, SequencesExt

CONSTANTS
  Files,                \* the user's files
  EndsIn,               \* what follows the first dot of a name: see Accepted
  Size,                 \* "empty", "fits" or "big"
  NoFile,
  MaxOpenings, MaxSteps \* bounds: openings of the form, steps of the user

ASSUME FilesHaveNames ==
  /\ EndsIn \in [Files -> {"listed", "part", "unlisted"}]
  /\ Size \in [Files -> {"empty", "fits", "big"}]

VARIABLES
  oldIE,        \* the browser is an Internet Explorer, without sizes
  window,       \* the form: "new" and "edit" of a material, or "config"
  opening,      \* how often it was opened
  type,         \* the type chosen in it
  row,          \* the row with an input that is shown
  chosen,       \* the file in each input
  fileId,       \* the hidden field of each input, as [file, opening]
  busy,         \* the inputs whose button is disabled
  uploads,      \* uploads under way
  saved,        \* history: what the last save sent, and in which opening
  late,         \* history: an answer came to a later opening
  steps

uploadVars == <<oldIE, window, opening, type, row, chosen, fileId, busy, uploads,
                saved, late, steps>>

InputsOf(w) == IF w = "config" THEN {"config"} ELSE {"image", "video"}
Inputs == InputsOf(window)
NoId == [file |-> NoFile, opening |-> 0]

(* The name is looked up in the list of suffixes as a piece of text, from  *)
(* its first dot on, or its last character when it has none: a piece of a  *)
(* suffix is found as well, a suffix after an earlier dot is not.          *)
Accepted(f) == EndsIn[f] \in {"listed", "part"}

SizeAllowed(f) == oldIE \/ Size[f] = "fits"

-----------------------------------------------------------------------------
UserSteps ==
  /\ steps < MaxSteps
  /\ steps' = steps + 1
  /\ UNCHANGED <<oldIE, window>>

(* Mutant of Start: the button stays enabled.                              *)
StartEnabled(i, f) ==
  /\ uploads' = Append(uploads, [input |-> i, file |-> f, opening |-> opening])
  /\ chosen' \in {[chosen EXCEPT ![i] = g] : g \in {f, NoFile}}
  /\ UNCHANGED busy

(* createUploadForm: the input itself moves into the hidden form and a     *)
(* clone takes its place, with the file or without as browsers have it.    *)
Start(i, f) ==
  /\ busy' = busy \cup {i}
  /\ uploads' = Append(uploads, [input |-> i, file |-> f, opening |-> opening])
  /\ chosen' \in {[chosen EXCEPT ![i] = g] : g \in {f, NoFile}}

(* fileChange: the input is emptied when the name or the size is refused;  *)
(* otherwise the button for the upload is clicked, which exists beside the *)
(* inputs of materials and, in old browsers, is not clicked.               *)
ChooseFile(i, f) ==
  /\ UserSteps
  /\ i \in Inputs /\ i = row
  /\ i # "config" => i \notin busy
  /\ f # chosen[i]
  /\ IF ~Accepted(f) \/ ~SizeAllowed(f)
       THEN chosen' = [chosen EXCEPT ![i] = NoFile] /\ UNCHANGED <<busy, uploads>>
       ELSE IF i = "config" \/ oldIE
         THEN chosen' = [chosen EXCEPT ![i] = f] /\ UNCHANGED <<busy, uploads>>
         ELSE Start(i, f)
  /\ UNCHANGED <<opening, type, row, fileId, saved, late>>

(* #uploadFrontConfigFile                                                  *)
UploadConfig ==
  /\ UserSteps
  /\ window = "config" /\ busy = {}
  /\ chosen["config"] # NoFile
  /\ Start("config", chosen["config"])
  /\ UNCHANGED <<opening, type, row, fileId, saved, late>>

(* #material_type, #change_material_type                                   *)
ChangeType(k) ==
  /\ UserSteps
  /\ window # "config"
  /\ k # type
  /\ type' = k /\ row' = k
  /\ UNCHANGED <<opening, chosen, fileId, busy, uploads, saved, late>>

(* The opening of a form about a new material, about one with a file of    *)
(* type k, or about a configuration.  Uploads under way go on, and their   *)
(* buttons stay disabled.                                                  *)
Reopen(k) ==
  /\ UserSteps
  /\ opening < MaxOpenings
  /\ opening' = opening + 1
  /\ k \in Inputs /\ (window = "new" => k = "image")
  /\ type' = k /\ row' = k
  /\ fileId' = [i \in Inputs |-> IF window # "new" /\ i = k
                                THEN [file |-> NoFile, opening |-> opening'] ELSE NoId]
  /\ chosen' = [i \in Inputs |-> IF window = "config" \/ (window = "edit" /\ i = k)
                                THEN chosen[i] ELSE NoFile]
  /\ UNCHANGED <<busy, uploads, saved, late>>

(* The save of a material wants the file of its type; a configuration is   *)
(* sent with whatever it has.                                              *)
SaveWithFile ==
  /\ UserSteps
  /\ window # "config" => fileId[type] # NoId
  /\ saved' = [type |-> type, input |-> type, id |-> fileId[type], opening |-> opening]
  /\ UNCHANGED <<opening, type, row, chosen, fileId, busy, uploads, late>>

-----------------------------------------------------------------------------
(* uploadCallback: the frame has loaded something.                         *)
Loaded1(j) ==
  /\ uploads' = RemoveAt(uploads, j)
  /\ busy' = busy \ {uploads[j].input}
  /\ UNCHANGED <<oldIE, window, opening, type, row, saved, steps>>

UploadDone(j) ==
  LET u == uploads[j]
  IN /\ Loaded1(j)
     /\ fileId' = [fileId EXCEPT ![u.input] = [file |-> u.file, opening |-> u.opening]]
     /\ chosen' = IF window = "config" THEN [chosen EXCEPT !["config"] = NoFile] ELSE chosen
     /\ late' = (late \/ u.opening # opening)

(* The server refuses, or the frame holds no JSON and eval throws: the     *)
(* error callback runs.  A frame that never loads has no callback at all.  *)
UploadFails(j) ==
  /\ Loaded1(j)
  /\ UNCHANGED <<chosen, fileId, late>>

UploadsInit ==
  /\ oldIE \in BOOLEAN
  /\ window \in {"new", "edit", "config"}
  /\ opening = 0
  /\ type = (IF window = "config" THEN "config" ELSE "image")
  /\ row = type
  /\ chosen = [i \in Inputs |-> NoFile]
  /\ fileId = [i \in Inputs |-> NoId]
  /\ busy = {} /\ uploads = <<>>
  /\ saved = [type |-> "none", input |-> "none", id |-> NoId, opening |-> 0]
  /\ late = FALSE /\ steps = 0

UploadsNext ==
  \/ \E k \in Inputs : Reopen(k)
  \/ /\ opening > 0
     /\ \/ \E i \in Inputs, f \in Files : ChooseFile(i, f)
        \/ UploadConfig
        \/ \E k \in Inputs : ChangeType(k)
        \/ SaveWithFile
  \/ \E j \in DOMAIN uploads : UploadDone(j) \/ UploadFails(j)

UploadsSpec == UploadsInit /\ [][UploadsNext]_uploadVars

-----------------------------------------------------------------------------
(* The file a save sends is the row's own or was chosen while the form was *)
(* open for that row, has an allowed size, and is of the type sent; an     *)
(* upload that was answered after the form had been opened for another row *)
(* is the one exception.  No input has two uploads under way, so the file  *)
(* sent is never overtaken by an earlier choice.                           *)
FileIsOfItsForm ==
  /\ saved.opening > 0 /\ ~late => saved.id.opening \in {0, saved.opening}
  /\ saved.id.file # NoFile => Size[saved.id.file] = "fits" \/ oldIE
  /\ \A j, k \in DOMAIN uploads : uploads[j].input = uploads[k].input => j = k
  /\ opening > 0 => row = type
=============================================================================
