----------------------------- MODULE Attachments -----------------------------
(***************************************************************************)
(* AttachmentController: the three handlers that store an uploaded file    *)
(* and the one that sends it back.                                         *)
(*                                                                         *)
(* Sizes count megabytes, rounded up, so that a size is over a limit of    *)
(* whole megabytes when its count is.  The limits of images and videos are *)
(* read from the configuration, which an administrator changes meanwhile,  *)
(* and multiplied into bytes as a Java int; the size itself is parsed as   *)
(* one.  Names are refused before any of this.  (A row names as creator    *)
(* the creator of the user, not the user: no step depends on it.)          *)
(***************************************************************************)
EXTENDS Integers, FiniteSets

CONSTANTS
  Uploaders,    \* servlet threads
  Sizes,        \* sizes of uploads, in megabytes
  Limits,       \* values the configuration takes, in megabytes
  FixedLimit,   \* webConfig.maxFileSize, for files
  MaxStored     \* bound: files stored

ASSUME AttachmentConstants ==
  /\ Sizes \subseteq Nat /\ Limits \subseteq Nat /\ FixedLimit \in Nat
  /\ MaxStored \in Nat

VARIABLES
  limitOf,      \* image_file_max_size and video_file_max_size
  receiving,    \* per thread: its upload, or the last one and its answer
  onDisk,       \* the files on the disk, numbered
  fileRows,     \* table attachment: the file of each row
  orphans       \* history: files whose upload failed after they were stored

attachmentVars == <<limitOf, receiving, onDisk, fileRows, orphans>>

UploadKinds == {"file", "image", "video"}
IntHalf == 2048      \* 2^31 bytes
IntSpan == 4096      \* 2^32 bytes
Waiting0 == [at |-> "free", kind |-> "file", size |-> 0, limit |-> 0, file |-> 0]

(* An int multiplication: limit * 1024 * 1024, in megabytes again.         *)
InBytes(limit) ==
  LET wrapped == limit % IntSpan
  IN IF wrapped >= IntHalf THEN wrapped - IntSpan ELSE wrapped

(* Integer.parseInt of the size throws from 2^31 on.  Of a size that       *)
(* rounds up to 2^31 either may be true.                                   *)
Parses(size) == IF size = IntHalf THEN BOOLEAN ELSE {size < IntHalf}

LimitFor(kind) == IF kind = "file" THEN FixedLimit ELSE limitOf[kind]

AttachmentInit ==
  /\ limitOf \in [{"image", "video"} -> Limits]
  /\ receiving = [t \in Uploaders |-> Waiting0]
  /\ onDisk = {} /\ fileRows = {} /\ orphans = {}

Answers == {"free", "success", "error", "exception"}
Answer1(t, status) == receiving' = [receiving EXCEPT ![t].at = status]

-----------------------------------------------------------------------------
(* fileUpload.do, fileImageUpload.do and videoUpload.do, up to the check   *)
(* of the size.                                                            *)
Receive(t, kind, size) ==
  /\ receiving[t].at \in Answers
  /\ receiving' = [receiving EXCEPT ![t] =
       [Waiting0 EXCEPT !.at = "size", !.kind = kind, !.size = size]]
  /\ UNCHANGED <<limitOf, onDisk, fileRows, orphans>>

(* Mutant of TooBig: a file of exactly the limit is refused.               *)
TooBigOrEqual(size, limit) == size >= InBytes(limit)

(* checkImportFileSize, checkUploadImageSize, checkUploadVideoSize         *)
TooBig(size, limit) == size > InBytes(limit)

CheckFile(t) ==
  LET u == receiving[t]
      limit == LimitFor(u.kind)
  IN /\ u.at = "size"
     /\ \E parses \in Parses(u.size) :
          receiving' = [receiving EXCEPT ![t].limit = limit,
            ![t].at = IF ~parses THEN "exception"
                      ELSE IF TooBig(u.size, limit) THEN "error" ELSE "store"]
     /\ UNCHANGED <<limitOf, onDisk, fileRows, orphans>>

(* createFolder, transferTo: every file gets a name of its own.            *)
StoreFile(t) ==
  LET f == Cardinality(onDisk) + 1
  IN /\ receiving[t].at = "store" /\ f <= MaxStored
     /\ onDisk' = onDisk \cup {f}
     /\ receiving' = [receiving EXCEPT ![t].at = "record", ![t].file = f]
     /\ UNCHANGED <<limitOf, fileRows, orphans>>

(* addNewAttachment                                                        *)
RecordFile(t) ==
  /\ receiving[t].at = "record"
  /\ fileRows' = fileRows \cup {receiving[t].file}
  /\ Answer1(t, "success")
  /\ UNCHANGED <<limitOf, onDisk, orphans>>

(* The disk or the table fails; a file that was stored stays without row.  *)
UploadThrows(t) ==
  /\ receiving[t].at \in {"store", "record"}
  /\ orphans' = orphans \cup ({receiving[t].file} \ {0})
  /\ Answer1(t, "exception")
  /\ UNCHANGED <<limitOf, onDisk, fileRows>>

(* setSysConfigInfo of one of the two limits (SysConfigCache).             *)
SetLimit(kind, limit) ==
  /\ limitOf' = [limitOf EXCEPT ![kind] = limit]
  /\ UNCHANGED <<receiving, onDisk, fileRows, orphans>>

AttachmentNext ==
  \/ \E t \in Uploaders :
       \/ \E kind \in UploadKinds, size \in Sizes : Receive(t, kind, size)
       \/ CheckFile(t) \/ StoreFile(t) \/ RecordFile(t) \/ UploadThrows(t)
  \/ \E kind \in {"image", "video"}, limit \in Limits : SetLimit(kind, limit)

AttachmentSpec == AttachmentInit /\ [][AttachmentNext]_attachmentVars

-----------------------------------------------------------------------------
(* What is answered is so: a file that was taken was within the limit of   *)
(* its time, and has a row, and the row its file; one that was refused for *)
(* its size was over the limit, unless the limit is beyond an int; and a   *)
(* file on the disk without a row is being recorded or was answered with   *)
(* an exception.                                                           *)
UploadsJudgedRight ==
  /\ \A t \in Uploaders : LET u == receiving[t] IN
       /\ u.at \in {"store", "record", "success"} => u.size <= u.limit
       /\ u.at = "error" => u.size > u.limit \/ u.limit >= IntHalf
       /\ u.at = "success" => u.file \in fileRows
  /\ fileRows \subseteq onDisk
  /\ onDisk \ fileRows = orphans \cup
       {receiving[t].file : t \in {s \in Uploaders : receiving[s].at = "record"}}
=============================================================================
