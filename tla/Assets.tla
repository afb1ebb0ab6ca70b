------------------------------- MODULE Assets -------------------------------
(***************************************************************************)
(* Uploaded files and the music library: src/services/asset.service.ts,    *)
(* src/services/audio.service.ts, their repositories, the object stores    *)
(* under packages/object-storage and packages/database/cleanup.ts.         *)
(*                                                                         *)
(* One workspace whose callers may write, one project.  A request is a     *)
(* chain of statements and file operations with no transaction around      *)
(* them; it updates a row by its id, whatever the row has become.          *)
(***************************************************************************)
EXTENDS Naturals, FiniteSets

CONSTANTS
    Images, Sounds, Fonts,  \* assets by assetKind() of their declared type
    Requests,               \* calls on assets and cleanup runs, each runs once
    Edits                   \* calls on Brand DNA

Files == Images \cup Sounds \cup Fonts
Calls == Requests \cup Edits

NoCall == "no call"
States == {"none", "PENDING", "READY", "FAILED", "DELETED"}
\* What an object holds: the declared bytes; other bytes; the declared bytes,
\* which are not of an allowed type; or a file some upload is still writing.
Bytes == {"good", "wrong", "unsafe"}
NoObject == [bytes |-> "none", by |-> NoCall]
Stored(b) == [bytes |-> b, by |-> NoCall]

BrandRoles == {"LOGO", "IMAGE", "FONT"}

\* A file is of one kind, whatever was declared, and every call is a call.
ASSUME KindsAssumption ==
    /\ Files # {} /\ NoCall \notin Calls
    /\ Images \cap Sounds = {} /\ Images \cap Fonts = {} /\ Sounds \cap Fonts = {}

VARIABLES
    bucket,     \* the store the server is configured with
    row,        \* state of the assets row
    expired,    \* files whose upload time is over
    object,     \* what lies under the object key
    attached,   \* files the project uses as images
    track,      \* files registered in the music library
    trackUsed,  \* tracks the project uses
    link,       \* role of a file in Brand DNA, "none" without a link
    call,
    raced       \* history: files written by a call that read before others wrote

assetVars == <<bucket, row, expired, object, attached, track, trackUsed, link, call, raced>>

AssetOps == {"upload", "complete", "remove", "attach", "detach", "register", "removeTrack",
             "attachTrack", "detachTrack", "cleanup"}
BrandOps == {"addLink", "setRole", "dropLink", "save", "suggest"}
Steps == {"idle", "open", "writing", "validate", "discard", "fail", "expire", "read", "mark",
          "uses", "isTrack", "isBrand", "delete", "erase", "insert", "exists", "insertTrack",
          "trackUses", "dropTrack", "insertUse", "sweep",
          "limit", "put", "linked", "unlink", "fonts", "commit", "drop", "retry", "done"}
Idle == [op |-> "upload", at |-> "idle", file |-> CHOOSE f \in Files : TRUE,
         bytes |-> "good", stale |-> FALSE]
Done == [Idle EXCEPT !.at = "done"]

AssetTypeOK ==
    /\ bucket \in {"local", "supabase"}
    /\ row \in [Files -> States]
    /\ expired \subseteq Files
    /\ object \in [Files -> [bytes : Bytes \cup {"none", "partial"}, by : Calls \cup {NoCall}]]
    /\ attached \subseteq Files /\ track \subseteq Files /\ trackUsed \subseteq track
    /\ link \in [Files -> BrandRoles \cup {"none"}]
    /\ call \in [Calls -> [op : AssetOps \cup BrandOps, at : Steps, file : Files,
                           bytes : Bytes, stale : BOOLEAN]]
    /\ raced \subseteq Files

InUse(f) == f \in attached \/ f \in track \/ link[f] # "none"

(***************************************************************************)
(* How a step of call c moves.  Look only reads; Write changes something   *)
(* of file f, which makes what other calls in flight on f have read stale. *)
(***************************************************************************)
To(c, at) == IF at = "done" THEN Done ELSE [call[c] EXCEPT !.at = at]
Look(c, at) == /\ call' = [call EXCEPT ![c] = To(c, at)]
               /\ UNCHANGED <<bucket, row, expired, object, attached, track, trackUsed, link, raced>>
InFlight(c) == call[c].at \notin {"idle", "done"}
Staled(c, F) ==
    [x \in Calls |-> IF x # c /\ InFlight(x) /\ call[x].file \in F
                       THEN [call[x] EXCEPT !.stale = TRUE] ELSE call[x]]
Write(c, f, at) ==
    /\ call' = [Staled(c, {f}) EXCEPT ![c] = To(c, at)]
    /\ raced' = IF call[c].stale THEN raced \cup {f} ELSE raced
    /\ UNCHANGED <<bucket, expired>>

SetRow(c, s, at) == /\ row' = [row EXCEPT ![call[c].file] = s]
                    /\ Write(c, call[c].file, at)
                    /\ UNCHANGED <<object, attached, track, trackUsed, link>>
SetObject(c, o, at) == /\ object' = [object EXCEPT ![call[c].file] = o]
                       /\ Write(c, call[c].file, at)
                       /\ UNCHANGED <<row, attached, track, trackUsed, link>>

Arrive(c, op, f, b, at) ==
    /\ call[c].at = "idle"
    /\ call' = [call EXCEPT ![c] = IF at = "done" THEN Done
                                   ELSE [op |-> op, at |-> at, file |-> f, bytes |-> b, stale |-> FALSE]]
    /\ UNCHANGED <<bucket, row, expired, object, attached, track, trackUsed, link, raced>>

(***************************************************************************)
(* Uploads.                                                                *)
(***************************************************************************)
CreateUpload(f) ==
    /\ row[f] = "none"
    /\ row' = [row EXCEPT ![f] = "PENDING"]
    /\ UNCHANGED <<bucket, expired, object, attached, track, trackUsed, link, call, raced>>

UploadTimeEnds(f) ==
    /\ row[f] = "PENDING" /\ f \notin expired
    /\ expired' = expired \cup {f}
    /\ UNCHANGED <<bucket, row, object, attached, track, trackUsed, link, call, raced>>

\* With Supabase the browser writes to a signed URL, once, at any time.
DirectUpload(f, b) ==
    /\ bucket = "supabase" /\ row[f] # "none" /\ object[f] = NoObject
    /\ object' = [object EXCEPT ![f] = Stored(b)]
    /\ call' = Staled(NoCall, {f})
    /\ UNCHANGED <<bucket, row, expired, attached, track, trackUsed, link, raced>>

\* upload(): getForUser finds a row that is PENDING.
BeginUpload(c, f, b) ==
    /\ bucket = "local" /\ row[f] = "PENDING"
    /\ Arrive(c, "upload", f, b, IF f \in expired THEN "fail" ELSE "open")

\* putStream creates the file with flag wx.  When it is there already the
\* stream fails, and its handler removes the file.
OpenFile(c) ==
    /\ call[c].at = "open"
    /\ IF object[call[c].file] = NoObject
         THEN SetObject(c, [bytes |-> "partial", by |-> c], "writing")
         ELSE SetObject(c, NoObject, "done")

\* All bytes are written, into the file of this upload, also if it was
\* removed or replaced meanwhile.
FinishFile(c) ==
    LET f == call[c].file
    IN /\ call[c].at = "writing"
       /\ SetObject(c, IF object[f].by = c THEN Stored(call[c].bytes) ELSE object[f],
                    IF call[c].bytes = "wrong" THEN "discard" ELSE "validate")

\* The stream breaks or passes the declared size: the file is removed.
BreakFile(c) == call[c].at = "writing" /\ SetObject(c, NoObject, "done")

\* validateStoredAsset reads what lies under the key now.
ValidateFile(c) ==
    LET b == object[call[c].file].bytes
    IN /\ call[c].at = "validate"
       /\ \/ b \in {"good", "wrong", "partial"} /\ Look(c, "done")
          \/ b # "good" /\ Look(c, "discard")

Discard(c) == call[c].at = "discard" /\ SetObject(c, NoObject, "fail")
MarkFailed(c) == call[c].at = "fail" /\ SetRow(c, "FAILED", "done")

(***************************************************************************)
(* complete(): PENDING becomes READY once the content is verified.         *)
(***************************************************************************)
\* Mutant: the state of the row is not looked at.
BeginCompleteAnyRow(c, f) == row[f] # "none" /\ Arrive(c, "complete", f, "good", "read")
BeginComplete(c, f) ==
    /\ row[f] \in {"PENDING", "READY"}
    /\ Arrive(c, "complete", f, "good", IF row[f] = "READY" THEN "done" ELSE "read")

\* Mutant: any stored object will do.
ReadContentLoosely(c) == call[c].at = "read" /\ Look(c, IF object[call[c].file] = NoObject THEN "done" ELSE "mark")
ReadContent(c) ==
    /\ call[c].at = "read"
    /\ LET b == object[call[c].file].bytes
       IN Look(c, IF b = "good" THEN "mark" ELSE IF b = "unsafe" THEN "discard" ELSE "done")

MarkReady(c) == call[c].at = "mark" /\ SetRow(c, "READY", "done")

(***************************************************************************)
(* remove(): refused while a project, the library or the brand uses it.    *)
(***************************************************************************)
BeginRemove(c, f) == row[f] = "READY" /\ Arrive(c, "remove", f, "good", "uses")

CountAttachments(c) ==
    call[c].at = "uses" /\ Look(c, IF call[c].file \in attached THEN "done" ELSE "isTrack")
IsAudioTrack(c) ==
    call[c].at = "isTrack" /\ Look(c, IF call[c].file \in track THEN "done" ELSE "isBrand")
\* Mutant: Brand DNA is not asked.
IsBrandAssetUnasked(c) == call[c].at = "isBrand" /\ Look(c, "delete")
IsBrandAsset(c) ==
    call[c].at = "isBrand" /\ Look(c, IF link[call[c].file] # "none" THEN "done" ELSE "delete")
MarkDeleted(c) == call[c].at = "delete" /\ SetRow(c, "DELETED", "erase")
EraseFile(c) == call[c].at = "erase" /\ SetObject(c, NoObject, "done")

(***************************************************************************)
(* Use in the project, and the music library.                              *)
(***************************************************************************)
SetUses(c, at) == Write(c, call[c].file, at) /\ UNCHANGED <<row, object, link>>

\* attach(), and the same steps for every image a generation names.
BeginAttach(c, f) ==
    row[f] = "READY" /\ f \in Images /\ Arrive(c, "attach", f, "good", "insert")
Attach(c) == /\ call[c].at = "insert"
             /\ attached' = attached \cup {call[c].file}
             /\ SetUses(c, "done") /\ UNCHANGED <<track, trackUsed>>

\* register(): READY audio that is not in the library; asset_id is unique.
BeginRegister(c, f) ==
    row[f] = "READY" /\ f \in Sounds /\ Arrive(c, "register", f, "good", "exists")
FindTrack(c) ==
    call[c].at = "exists" /\ Look(c, IF call[c].file \in track THEN "done" ELSE "insertTrack")
InsertTrack(c) ==
    /\ call[c].at = "insertTrack"
    /\ \/ /\ call[c].file \notin track
          /\ track' = track \cup {call[c].file}
          /\ SetUses(c, "done") /\ UNCHANGED <<attached, trackUsed>>
       \/ call[c].file \in track /\ Look(c, "done")

\* A generation attaches the tracks it names; the foreign key refuses one
\* that was deleted.
BeginAttachTrack(c, f) == f \in track /\ Arrive(c, "attachTrack", f, "good", "insertUse")
AttachTrack(c) ==
    /\ call[c].at = "insertUse"
    /\ \/ /\ call[c].file \in track
          /\ trackUsed' = trackUsed \cup {call[c].file}
          /\ SetUses(c, "done") /\ UNCHANGED <<attached, track>>
       \/ call[c].file \notin track /\ Look(c, "done")

\* One DELETE each, whatever is there.
BeginDetach(c, f, op) == op \in {"detach", "detachTrack"} /\ Arrive(c, op, f, "good", "drop")
Detach(c) ==
    /\ call[c].at = "drop" /\ call[c].op \in {"detach", "detachTrack"}
    /\ attached' = IF call[c].op = "detach" THEN attached \ {call[c].file} ELSE attached
    /\ trackUsed' = IF call[c].op = "detachTrack" THEN trackUsed \ {call[c].file} ELSE trackUsed
    /\ SetUses(c, "done") /\ UNCHANGED track

\* AudioService.remove: the track with its uses (cascade), the row, the file.
BeginRemoveTrack(c, f) == f \in track /\ Arrive(c, "removeTrack", f, "good", "trackUses")
CountTrackUses(c) ==
    call[c].at = "trackUses" /\ Look(c, IF call[c].file \in trackUsed THEN "done" ELSE "dropTrack")
\* Mutant: the uses of the track are left behind.
DropTrackAlone(c) ==
    /\ call[c].at = "dropTrack"
    /\ track' = track \ {call[c].file}
    /\ SetUses(c, "delete") /\ UNCHANGED <<attached, trackUsed>>
DropTrack(c) ==
    /\ call[c].at = "dropTrack"
    /\ track' = track \ {call[c].file} /\ trackUsed' = trackUsed \ {call[c].file}
    /\ SetUses(c, "delete") /\ UNCHANGED attached

(***************************************************************************)
(* runRetentionCleanup, for one of the uploads it selects: the object      *)
(* first, then the row by its id; a failed deletion leaves the row.        *)
(***************************************************************************)
BeginCleanup(c, f) ==
    row[f] = "PENDING" /\ f \in expired /\ Arrive(c, "cleanup", f, "good", "sweep")
SweepFile(c) == call[c].at = "sweep" /\ SetObject(c, NoObject, "fail")

\* The server stops between two steps, or a statement or file operation fails.
Dies(c) == InFlight(c) /\ Look(c, "done")

AssetNext ==
    \/ \E f \in Files : CreateUpload(f) \/ UploadTimeEnds(f) \/ \E b \in Bytes : DirectUpload(f, b)
    \/ \E c \in Requests, f \in Files :
         \/ \E b \in Bytes : BeginUpload(c, f, b)
         \/ BeginComplete(c, f) \/ BeginRemove(c, f) \/ BeginAttach(c, f) \/ BeginRegister(c, f)
         \/ BeginAttachTrack(c, f) \/ BeginRemoveTrack(c, f) \/ BeginCleanup(c, f)
         \/ f \in attached /\ BeginDetach(c, f, "detach")
         \/ f \in trackUsed /\ BeginDetach(c, f, "detachTrack")
    \/ \E c \in Calls :
         \/ OpenFile(c) \/ FinishFile(c) \/ BreakFile(c) \/ ValidateFile(c)
         \/ Discard(c) \/ MarkFailed(c) \/ ReadContent(c) \/ MarkReady(c)
         \/ CountAttachments(c) \/ IsAudioTrack(c) \/ IsBrandAsset(c) \/ MarkDeleted(c) \/ EraseFile(c)
         \/ Attach(c) \/ FindTrack(c) \/ InsertTrack(c) \/ AttachTrack(c) \/ Detach(c)
         \/ CountTrackUses(c) \/ DropTrack(c) \/ SweepFile(c) \/ Dies(c)

AssetInit ==
    /\ bucket \in {"local", "supabase"}
    /\ row = [f \in Files |-> "none"] /\ object = [f \in Files |-> NoObject]
    /\ link = [f \in Files |-> "none"]
    /\ expired = {} /\ attached = {} /\ track = {} /\ trackUsed = {} /\ raced = {}

(***************************************************************************)
(* Properties.                                                             *)
(***************************************************************************)

\* A file that is offered can be read and is what was declared, unless some
\* request wrote it on the strength of a read that others had overtaken:
\* uploads sent twice, deletions, expiry and crashes in between do no harm.
ReadyHasItsFile ==
    \A f \in Files \ raced : row[f] = "READY" => object[f] = Stored("good")

\* What a project, the library or the brand uses is there, with the same
\* reservation.
InUseIsReady == \A f \in Files \ raced : InUse(f) => row[f] = "READY"

\* A deleted file comes back only by a request that read it before.
DeletedStaysDeleted ==
    [][\A f \in Files : row[f] = "DELETED" /\ row'[f] # "DELETED" => f \in raced']_assetVars
=============================================================================
