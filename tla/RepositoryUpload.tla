-------------------------- MODULE RepositoryUpload --------------------------
(***************************************************************************)
(* Replacing an uploaded repository (web_api/repository_upload.py).  A     *)
(* directory is a version with a flag: whole, or some of its files only.   *)
(* Upload u brings version u; it is written to ".upload-u" (whose content  *)
(* follows from where the request is, and which nobody reads once it is    *)
(* over), the old directory is set aside as ".backup-u", and the new one   *)
(* is renamed to the target, or copied where the rename is refused.        *)
(***************************************************************************)
EXTENDS Naturals

CONSTANT MaxUploads       \* bound on uploads

ASSUME UploadAssumption == MaxUploads \in Nat

VARIABLES
  lock,     \* app.state.index_lock of the process: "free", "upload", "index"
  target,   \* the repository directory
  backup,   \* the directory ".backup-<upload>" of each upload
  upc,      \* where the upload request is
  upload,   \* the number of the current upload
  last      \* history: the version the target last held whole

uvars == <<target, backup, upc, upload, last>>

Uploads == 1 .. MaxUploads
NoDir == [version |-> 0, whole |-> FALSE]
Dirs == [version : 0 .. MaxUploads, whole : BOOLEAN]
Exists(d) == d.version # 0
Whole(v) == [version |-> v, whole |-> TRUE]
Part(v) == [version |-> v, whole |-> FALSE]

UploadInit ==
  /\ lock = "free"
  /\ target = NoDir
  /\ backup = [u \in Uploads |-> NoDir]
  /\ upc = "idle"
  /\ upload = 0
  /\ last = 0

UploadTypeOK ==
  /\ lock \in {"free", "upload", "index"}
  /\ target \in Dirs
  /\ backup \in [Uploads -> Dirs]
  /\ upc \in {"idle", "saving", "saved", "aside", "copying", "failed",
              "emptied", "placed"}
  /\ upload \in 0 .. MaxUploads
  /\ last \in 0 .. MaxUploads

-----------------------------------------------------------------------------

(* The request takes the lock without waiting (409 when it is held), is    *)
(* refused when the directory exists and replacing was not allowed, and    *)
(* makes its temporary directory.                                          *)
Accept(replace) ==
  /\ upc = "idle"
  /\ lock = "free"
  /\ upload < MaxUploads
  /\ Exists(target) => replace
  /\ lock' = "upload"
  /\ upload' = upload + 1
  /\ upc' = "saving"
  /\ UNCHANGED <<target, backup, last>>

(* The end of the request, by return or by an exception: the "finally"     *)
(* removes what is left of the temporary directory, the lock is given back.*)
(*                                                                         *)
Leave ==
  /\ upc' = "idle"
  /\ lock' = "free"

SaveFiles ==
  /\ upc = "saving"
  /\ upc' = "saved"
  /\ UNCHANGED <<lock, target, backup, upload, last>>

(* A path twice, an unsafe name, too many bytes, a broken archive, or a    *)
(* target that cannot be renamed: nothing was replaced yet.                *)
RefuseUpload ==
  /\ upc \in {"saving", "saved"}
  /\ Leave
  /\ UNCHANGED <<target, backup, upload, last>>

SetAside ==
  /\ upc = "saved"
  /\ backup' = [backup EXCEPT ![upload] = target]
  /\ target' = NoDir
  /\ upc' = "aside"
  /\ UNCHANGED <<lock, upload, last>>

MoveIn ==
  /\ upc = "aside"
  /\ target' = Whole(upload)
  /\ last' = upload
  /\ upc' = "placed"
  /\ UNCHANGED <<lock, backup, upload>>

(* PermissionError of the rename: the files are copied one by one, and the *)
(* target is a part of the new version until the last one is there.        *)
CopyInstead ==
  /\ upc = "aside"
  /\ target' = Part(upload)
  /\ upc' = "copying"
  /\ UNCHANGED <<lock, backup, upload, last>>

CopyDone ==
  /\ upc = "copying"
  /\ target' = Whole(upload)
  /\ last' = upload
  /\ upc' = "placed"
  /\ UNCHANGED <<lock, backup, upload>>

(* Any other failure of the rename, or a failing copy.                     *)
PlaceFails ==
  /\ upc \in {"aside", "copying"}
  /\ upc' = "failed"
  /\ UNCHANGED <<lock, target, backup, upload, last>>

EmptyTarget ==
  /\ upc = "failed"
  /\ target' = NoDir
  /\ upc' = "emptied"
  /\ UNCHANGED <<lock, backup, upload, last>>

PutBack ==
  /\ upc = "emptied"
  /\ target' = backup[upload]
  /\ backup' = [backup EXCEPT ![upload] = NoDir]
  /\ Leave
  /\ UNCHANGED <<upload, last>>

RepairFailsTidy ==
  /\ upc \in {"failed", "emptied"}
  /\ backup' = [backup EXCEPT ![upload] = NoDir]
  /\ Leave
  /\ UNCHANGED <<target, upload, last>>

(* A step of the repair raises in its turn: the backup keeps its name.     *)
RepairFails ==
  /\ upc \in {"failed", "emptied"}
  /\ Leave
  /\ UNCHANGED <<target, backup, upload, last>>

(* rmtree of the backup; when it raises, all or a part of it stays.        *)
DropBackup ==
  /\ upc = "placed"
  /\ \E d \in {NoDir, Part(backup[upload].version), backup[upload]} :
       backup' = [backup EXCEPT ![upload] = d]
  /\ Leave
  /\ UNCHANGED <<target, upload, last>>

UploadStep ==
  \/ \E replace \in BOOLEAN : Accept(replace)
  \/ SaveFiles \/ RefuseUpload \/ SetAside \/ MoveIn \/ CopyInstead
  \/ CopyDone \/ PlaceFails \/ EmptyTarget \/ PutBack \/ RepairFails
  \/ DropBackup

(* The process dies: the directories stay as they are.                     *)
UploadLost ==
  /\ upc' = "idle"
  /\ UNCHANGED <<target, backup, upload, last>>

-----------------------------------------------------------------------------

(* LastUploadKept: whatever fails and whenever the process dies, the       *)
(* version the repository last held complete is still complete on disk,    *)
(* under its own name or as a backup (repository_upload.py:282-314: rename *)
(* aside, rename or copy in, put back on failure, drop the backup last).   *)
LastUploadKept ==
  last # 0 => \/ target = Whole(last)
              \/ \E u \in Uploads : backup[u] = Whole(last)
=============================================================================
