------------------------------- MODULE FileDrop -------------------------------
(***************************************************************************)
(* Files dropped on a page and sent to a server: jquery.filedrop.js with   *)
(* the options of script.js.  The list of files and its length are kept    *)
(* once for the page, whatever drop they are of; the counts of a drop are  *)
(* its own.                                                                *)
(***************************************************************************)
EXTENDS Naturals, Sequences, FiniteSets, SequencesExt

CONSTANTS
  Drops,              \* what may be dropped: sequences of files
  Images, Larges,     \* the files that beforeEach lets pass, and those above the limit
  MaxFiles,           \* maxfiles
  MaxDrops            \* bound: drops

VARIABLE dropped
dropVars == <<dropped>>

NoDrop == [files |-> <<>>, rejected |-> 0, done |-> 0, afterAll |-> 0, told |-> <<>>]

DropInit ==
  dropped = [files |-> <<>>, drop |-> <<>>, readers |-> {}, requests |-> {}, started |-> {},
             crossed |-> FALSE, silent |-> {}]           \* history: see DropTruthful

-----------------------------------------------------------------------------
(* The loop over the files of a drop.                                      *)
UploadFile(s, i) ==
  LET n == Len(s.drop)
      f == s.files[i]
      Tells(why) == [s EXCEPT !.drop[n].rejected = @ + 1, !.drop[n].told = Append(@, <<f, why>>)]
  IN IF f \notin Images THEN Tells("OnlyImages")
     ELSE IF f \in Larges THEN Tells("FileTooLarge")
     ELSE [s EXCEPT !.readers = @ \cup {[drop |-> n, index |-> i, content |-> f]}]

Upload(s) ==
  IF Len(s.files) > MaxFiles THEN [s EXCEPT !.drop[Len(s.drop)].told = <<"TooManyFiles">>]
  ELSE FoldLeft(UploadFile, s, [i \in DOMAIN s.files |-> i])

DropsFiles(fs) ==
  /\ Len(dropped.drop) < MaxDrops
  /\ dropped' = Upload([dropped EXCEPT !.files = fs,
                                       !.drop = Append(@, [NoDrop EXCEPT !.files = fs]),
                                       !.crossed = @ \/ dropped.readers \cup dropped.requests # {}])

(* A file has been read: it is sent under the name that stands at its      *)
(* index now, if any.                                                      *)
Sends(r) ==
  LET d == [dropped EXCEPT !.readers = @ \ {r}]
      q == [drop |-> r.drop, index |-> r.index, content |-> r.content, name |-> d.files[r.index]]
  IN dropped' = IF r.index \notin DOMAIN d.files THEN d
                ELSE [d EXCEPT !.requests = @ \cup {q}, !.started = @ \cup {q}]

RequestAnswered(q) ==
  LET n == q.drop
      d == [dropped EXCEPT !.requests = @ \ {q}, !.drop[n].done = @ + 1]
  IN dropped' = [d EXCEPT !.drop[n].afterAll =
                            IF d.drop[n].done = Len(d.files) - d.drop[n].rejected THEN @ + 1 ELSE @]

(* An empty answer, or none: nothing handles it.                           *)
RequestLost(q) ==
  dropped' = [dropped EXCEPT !.requests = @ \ {q}, !.silent = @ \cup {q.drop}]

DropNext ==
  \/ \E fs \in Drops : DropsFiles(fs)
  \/ \E r \in dropped.readers : Sends(r)
  \/ \E q \in dropped.requests : RequestAnswered(q) \/ RequestLost(q)

-----------------------------------------------------------------------------
(* Every file that may be sent is sent once, under its own name, and       *)
(* afterAll is called once, when the last answer of its drop has come,     *)
(* unless files were dropped while others were under way.  It is not       *)
(* called at all when no file of a drop is sent, or when an answer fails.  *)
(* Even when drops cross, no file is sent twice in a drop, and none that   *)
(* was refused.                                                            *)
DropTruthful ==
  LET s == dropped
      Fine(n) == IF Len(s.drop[n].files) > MaxFiles THEN {}
                 ELSE {i \in DOMAIN s.drop[n].files : s.drop[n].files[i] \in Images \ Larges}
      Sent(n) == {q \in s.started : q.drop = n}
      OfDrop(n, qs) == {q \in qs : q.drop = n}
  IN \A n \in DOMAIN s.drop :
       /\ \A q \in Sent(n) : q.content = s.drop[n].files[q.index] /\ q.index \in Fine(n)
       /\ \A q, r \in Sent(n) : q.index = r.index => q = r
       /\ s.drop[n].told = <<>> <=> Fine(n) = DOMAIN s.drop[n].files
       /\ ~s.crossed =>
            /\ \A q \in Sent(n) : q.name = q.content
            /\ s.drop[n].afterAll <= 1
            /\ s.drop[n].afterAll = 1 <=>
                 Fine(n) # {} /\ n \notin s.silent /\ OfDrop(n, s.readers) \cup OfDrop(n, s.requests) = {}
            /\ OfDrop(n, s.readers) = {} => {q.index : q \in Sent(n)} = Fine(n)
=============================================================================
