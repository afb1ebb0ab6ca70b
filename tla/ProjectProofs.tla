---------------------------- MODULE ProjectProofs ----------------------------
(***************************************************************************)
(* What is proved of the data around a project: its media and Brand DNA    *)
(* (Assets, BrandProfile), its chat (ChatTurns), the history of what its   *)
(* account paid (CreditHistory), and the people who sign in and the        *)
(* workspaces they share (SignIn, Workspaces).                             *)
(***************************************************************************)
EXTENDS BrandProfile, ChatTurns, CreditHistory, SignIn, Sums, FiniteSetTheorems, TLAPS

-----------------------------------------------------------------------------
(***************************************************************************)
(* Media and Brand DNA.  The invariant says of every call under way what   *)
(* it may rely on.                                                         *)
(***************************************************************************)
CallRec == [op : AssetOps \cup BrandOps, at : Steps, file : Files, bytes : Bytes, stale : BOOLEAN]
DraftRec == [revision : Nat, text : Texts \cup {Blank}, font : Fonts \cup {NoFont},
             role : BrandRoles, overwrite : BOOLEAN, tries : 0..2]

(* What a call that nobody overtook knows of its file is still so. *)
Knows(r, d) ==
    ~r.stale =>
        /\ r.at \in {"open", "writing", "validate", "discard", "fail", "read", "mark", "sweep"} => row[r.file] = "PENDING"
        /\ r.at = "mark" => object[r.file] = Stored("good")
        /\ r.at \in {"insert", "exists", "insertTrack", "limit", "put"} => row[r.file] = "READY"
        /\ r.at = "put" /\ r.op = "setRole" => link[r.file] # "none"
        /\ r.at \in {"isTrack", "isBrand"} => r.file \notin attached
        /\ r.at = "isBrand" => r.file \notin track
        /\ r.at = "delete" => ~InUse(r.file)
        /\ r.at = "erase" => row[r.file] = "DELETED"
        /\ r.at = "commit" /\ r.op = "save" /\ d.font # NoFont => link[r.file] = "FONT"
        /\ r.at = "drop" /\ r.op = "save" => r.file # font

(* What a call was sent fits what it is at, and a suggestion at the        *)
(* document's revision was merged into this document.                      *)
Sent(r, d) ==
    /\ r.at \in {"limit", "put"} => Fits(r.file, d.role) /\ r.op \in {"addLink", "setRole"}
    /\ r.at = "limit" => r.op = "addLink"
    /\ r.at = "insert" => r.file \in Images
    /\ r.at \in {"exists", "insertTrack", "trackUses", "dropTrack"} => r.file \in Sounds
    /\ r.at \in {"linked", "fonts"} => r.op = "save"
    /\ r.at \in {"linked", "fonts", "commit"} /\ r.op = "save" /\ d.font # NoFont => r.file = d.font
    /\ r.at = "retry" => r.op = "suggest"
    /\ r.at = "unlink" => r.op = "dropLink"
    /\ r.at = "drop" /\ r.op = "save" => r.file \in savedFonts
    /\ r.at = "commit" /\ r.op = "suggest" /\ d.revision = revision => Mergeable(d)
    /\ d.revision <= revision

CallsKnow == \A c \in Calls : Knows(call[c], draft[c]) /\ Sent(call[c], draft[c])

(* Files are used as what they are, and the document's font was saved.     *)
UsedAsTheirKind ==
    /\ attached \subseteq Images /\ track \subseteq Sounds
    /\ \A f \in Files : /\ link[f] = "FONT" => f \in Fonts
                        /\ link[f] \in {"LOGO", "IMAGE"} => f \in Images
    /\ font # NoFont => font \in savedFonts

(* Who writes an object holds no more than a part of a file under it.      *)
PartsHaveWriters == \A f \in Files : object[f].by = NoCall \/ object[f].bytes = "partial"

MediaInv ==
    /\ MediaTypeOK /\ CallsKnow /\ UsedAsTheirKind /\ PartsHaveWriters
    /\ ReadyHasItsFile /\ InUseIsReady /\ DocumentFontIsHeld

-----------------------------------------------------------------------------
(* A call that is not there, and one that is over, know nothing.           *)
LEMMA EndedCalls ==
    /\ Idle \in CallRec /\ Done \in CallRec /\ NoDraft \in DraftRec
    /\ Idle.at = "idle" /\ Done.at = "done" /\ Idle.file \in Files
    /\ NoDraft.revision = 0 /\ NoDraft.font = NoFont
<1>1. PICK f \in Files : f = CHOOSE g \in Files : TRUE
  BY KindsAssumption
<1>2. Idle = [op |-> "upload", at |-> "idle", file |-> f, bytes |-> "good", stale |-> FALSE]
  BY <1>1 DEF Idle
<1>3. Idle \in CallRec /\ Idle.at = "idle" /\ Idle.file \in Files
  BY <1>2 DEF CallRec, AssetOps, Steps, Bytes
<1>4. Done \in CallRec /\ Done.at = "done"
  BY <1>3 DEF Done, CallRec, Steps
<1>5. NoDraft \in DraftRec /\ NoDraft.revision = 0 /\ NoDraft.font = NoFont
  BY DEF NoDraft, DraftRec, BrandRoles
<1> QED
  BY <1>3, <1>4, <1>5

(* Nothing is said of a call that is over.                                 *)
LEMMA EndedKnowNothing ==
    ASSUME NEW r, r.at \in {"idle", "done"}, NEW d, d.revision <= revision
    PROVE  Knows(r, d) /\ Sent(r, d)
  BY DEF Knows, Sent

(* The next step of a call.                                                *)
LEMMA NextStep ==
    ASSUME MediaTypeOK, NEW c \in Calls, NEW at \in Steps, NEW r, r = To(c, at)
    PROVE  /\ r \in CallRec /\ r.at = at
           /\ at # "done" => r.file = call[c].file /\ r.op = call[c].op /\ r.stale = call[c].stale
<1>1. call[c] \in CallRec
  BY DEF MediaTypeOK, AssetTypeOK, CallRec
<1>2. CASE at = "done"
  BY <1>2, EndedCalls DEF To
<1>3. CASE at # "done"
  <2>1. r = [call[c] EXCEPT !.at = at]
    BY <1>3 DEF To
  <2> QED
    BY <1>1, <2>1 DEF CallRec
<1> QED
  BY <1>2, <1>3

(* What a step of one call on the files F leaves to the others: they are   *)
(* overtaken, or what they know is untouched.                              *)
Overtakes(c, F) ==
    \A x \in Calls \ {c} :
        /\ call'[x] = call[x] \/ call'[x] = [call[x] EXCEPT !.stale = TRUE]
        /\ InFlight(x) /\ ~call'[x].stale => call[x].file \notin F
        /\ draft'[x] = draft[x]

(* Calls overtaken on the files F: the flag is all that changes in them.   *)
LEMMA StaledCalls ==
    ASSUME MediaTypeOK, NEW c, NEW F,
           UNCHANGED draft \/ \E d : draft' = [draft EXCEPT ![c] = d]
    PROVE  /\ call' = Staled(c, F) => Overtakes(c, F) /\ call' \in [Calls -> CallRec]
           /\ \A r \in CallRec : call' = [Staled(c, F) EXCEPT ![c] = r] =>
                Overtakes(c, F) /\ call' \in [Calls -> CallRec] /\ (c \in Calls => call'[c] = r)
           /\ \A r \in CallRec : call' = [call EXCEPT ![c] = r] =>
                Overtakes(c, {}) /\ call' \in [Calls -> CallRec] /\ (c \in Calls => call'[c] = r)
<1>1. \A x \in Calls : call[x] \in CallRec
  BY DEF MediaTypeOK, AssetTypeOK, CallRec
<1>2. \A x \in Calls : [call[x] EXCEPT !.stale = TRUE] \in CallRec /\ [call[x] EXCEPT !.stale = TRUE].stale
  BY <1>1 DEF CallRec
<1>3. Staled(c, F) \in [Calls -> CallRec]
  BY <1>1, <1>2 DEF Staled
<1>4. \A x \in Calls \ {c} :
        /\ Staled(c, F)[x] = call[x] \/ Staled(c, F)[x] = [call[x] EXCEPT !.stale = TRUE]
        /\ InFlight(x) /\ ~Staled(c, F)[x].stale => call[x].file \notin F
  BY <1>2 DEF Staled
<1>5. \A x \in Calls \ {c} : draft'[x] = draft[x]
  BY DEF MediaTypeOK, BrandTypeOK
<1>6. ASSUME call' = Staled(c, F) PROVE Overtakes(c, F) /\ call' \in [Calls -> CallRec]
  BY <1>3, <1>4, <1>5, <1>6 DEF Overtakes
<1>7. ASSUME NEW r \in CallRec, call' = [Staled(c, F) EXCEPT ![c] = r]
      PROVE  Overtakes(c, F) /\ call' \in [Calls -> CallRec] /\ (c \in Calls => call'[c] = r)
  <2>1. \A x \in Calls \ {c} : call'[x] = Staled(c, F)[x]
    BY <1>3, <1>7
  <2>2. call' \in [Calls -> CallRec] /\ (c \in Calls => call'[c] = r)
    BY <1>3, <1>7
  <2> QED
    BY <1>4, <1>5, <2>1, <2>2 DEF Overtakes
<1>8. ASSUME NEW r \in CallRec, call' = [call EXCEPT ![c] = r]
      PROVE  Overtakes(c, {}) /\ call' \in [Calls -> CallRec] /\ (c \in Calls => call'[c] = r)
  <2>1. call \in [Calls -> CallRec]
    BY DEF MediaTypeOK, AssetTypeOK, CallRec
  <2> QED
    BY <1>5, <1>8, <2>1 DEF Overtakes
<1> QED
  BY <1>6, <1>7, <1>8

(* What the others know stays so. *)
LEMMA OthersKnow ==
    ASSUME MediaInv, NEW c, NEW F, Overtakes(c, F),
           \A f \in Files \ F : /\ row'[f] = row[f] /\ object'[f] = object[f] /\ link'[f] = link[f]
                                /\ f \in attached' <=> f \in attached
                                /\ f \in track' <=> f \in track,
           font' = font \/ font' = NoFont \/ font' \in F,
           savedFonts \subseteq savedFonts', revision' \in Nat, revision <= revision',
           revision' = revision => text' = text /\ source' = source
    PROVE  \A x \in Calls \ {c} : Knows(call[x], draft[x])' /\ Sent(call[x], draft[x])'
<1> SUFFICES ASSUME NEW x \in Calls \ {c} PROVE Knows(call[x], draft[x])' /\ Sent(call[x], draft[x])'
  OBVIOUS
<1>1. call[x] \in CallRec /\ draft[x] \in DraftRec /\ revision \in Nat
  BY DEF MediaInv, MediaTypeOK, AssetTypeOK, BrandTypeOK, CallRec, DraftRec
<1>2. /\ call'[x].at = call[x].at /\ call'[x].file = call[x].file /\ call'[x].op = call[x].op
      /\ ~call'[x].stale => ~call[x].stale /\ call'[x] = call[x]
  BY <1>1 DEF Overtakes, CallRec
<1>3. draft'[x] = draft[x] /\ draft[x].revision \in Nat /\ call[x].file \in Files
  BY <1>1 DEF Overtakes, CallRec, DraftRec
<1>4. Knows(call[x], draft[x]) /\ Sent(call[x], draft[x])
  BY DEF MediaInv, CallsKnow
<1>5. Sent(call[x], draft[x])'
  BY <1>1, <1>2, <1>3, <1>4 DEF Sent, Fits, Mergeable
<1>6. CASE call'[x].stale
  BY <1>5, <1>6 DEF Knows
<1>7. CASE ~call'[x].stale /\ ~InFlight(x)
  <2>1. call'[x].at \in {"idle", "done"}
    BY <1>2, <1>7 DEF InFlight
  <2> QED
    BY <1>5, <2>1 DEF Knows
<1>8. CASE ~call'[x].stale /\ InFlight(x)
  <2>1. call[x].file \in Files \ F /\ call'[x] = call[x] /\ ~call[x].stale
    BY <1>2, <1>3, <1>8 DEF Overtakes
  <2>2. call[x].file # font => call[x].file # font'
    BY <1>3, <2>1, NoFontAssumption
  <2> QED
    BY <1>3, <1>4, <1>5, <2>1, <2>2 DEF Knows, InUse
<1> QED
  BY <1>6, <1>7, <1>8

-----------------------------------------------------------------------------
(* A call that only looks: what it knows from now on must be so.           *)
LEMMA Reads ==
    ASSUME MediaInv, NEW c \in Calls, NEW r \in CallRec, NEW d \in DraftRec,
           call' = [call EXCEPT ![c] = r], draft' = [draft EXCEPT ![c] = d],
           UNCHANGED <<bucket, row, expired, object, attached, track, trackUsed, link, raced,
                       font, savedFonts, takenOut>>,
           revision' \in Nat, revision <= revision', text' \in Texts \cup {Blank},
           source' \in {"none", "manual", "site"}, revision' = revision => text' = text /\ source' = source,
           Knows(r, d), Sent(r, d)'
    PROVE  MediaInv'
<1>1. MediaTypeOK
  BY DEF MediaInv
<1>2. Overtakes(c, {}) /\ call' \in [Calls -> CallRec] /\ call'[c] = r
  BY <1>1, StaledCalls
<1>3. draft' \in [Calls -> DraftRec] /\ draft'[c] = d
  BY <1>1 DEF MediaTypeOK, BrandTypeOK, DraftRec
<1>4. \A x \in Calls \ {c} : Knows(call[x], draft[x])' /\ Sent(call[x], draft[x])'
  BY <1>2, OthersKnow
<1>5. Knows(call[c], draft[c])' /\ Sent(call[c], draft[c])'
  <2>1. Knows(r, d)'
    BY DEF Knows, InUse
  <2> QED
    BY <1>2, <1>3, <2>1
<1>6. CallsKnow'
  BY <1>4, <1>5 DEF CallsKnow
<1>7. MediaTypeOK'
  BY <1>1, <1>2, <1>3 DEF MediaTypeOK, AssetTypeOK, BrandTypeOK, CallRec, DraftRec
<1>8. (UsedAsTheirKind /\ PartsHaveWriters /\ ReadyHasItsFile /\ InUseIsReady /\ DocumentFontIsHeld)'
  BY DEF MediaInv, UsedAsTheirKind, PartsHaveWriters, ReadyHasItsFile, InUseIsReady, InUse, DocumentFontIsHeld
<1> QED
  BY <1>6, <1>7, <1>8 DEF MediaInv

(* A call that only looks moves on when what it now relies on is so.       *)
LEMMA Looks ==
    ASSUME MediaInv, NEW c \in Calls, NEW r \in CallRec, call' = [call EXCEPT ![c] = r],
           UNCHANGED <<bucket, row, expired, object, attached, track, trackUsed, link, raced>>,
           UNCHANGED brandVars, Knows(r, draft[c]), Sent(r, draft[c])
    PROVE  MediaInv'
<1>1. draft \in [Calls -> DraftRec] /\ revision \in Nat /\ text \in Texts \cup {Blank} /\ source \in {"none", "manual", "site"}
  BY DEF MediaInv, MediaTypeOK, BrandTypeOK, DraftRec
<1>2. PICK d : d = draft[c]
  OBVIOUS
<1>3. d \in DraftRec /\ draft' = [draft EXCEPT ![c] = d]
  BY <1>1, <1>2 DEF brandVars
<1>4. /\ UNCHANGED <<font, savedFonts, takenOut>>
      /\ revision' = revision /\ text' = text /\ source' = source
  BY DEF brandVars
<1>5. Sent(r, d)' /\ Knows(r, d)
  BY <1>2, <1>4 DEF Sent, Mergeable, Fits
<1>6. revision' \in Nat /\ revision <= revision' /\ text' \in Texts \cup {Blank} /\ source' \in {"none", "manual", "site"}
  BY <1>1, <1>4
<1> QED
  BY <1>3, <1>4, <1>5, <1>6, Reads

(* A call that writes to its file: if nobody overtook it, a file that is   *)
(* READY is left whole, and one in use is left READY.                      *)
LEMMA Writes ==
    ASSUME MediaInv, NEW c \in Calls, NEW f \in Files, f = call[c].file,
           NEW at \in Steps, NEW r, r = To(c, at), Write(c, f, at),
           UNCHANGED brandVars, UNCHANGED link,
           row' \in [Files -> States],
           object' \in [Files -> [bytes : Bytes \cup {"none", "partial"}, by : Calls \cup {NoCall}]],
           attached' \subseteq Images, track' \subseteq Sounds, trackUsed' \subseteq track',
           \A g \in Files \ {f} : /\ row'[g] = row[g] /\ object'[g] = object[g]
                                  /\ g \in attached' <=> g \in attached
                                  /\ g \in track' <=> g \in track,
           object'[f].by = NoCall \/ object'[f].bytes = "partial",
           ~call[c].stale /\ f \notin raced =>
               /\ row'[f] = "READY" => object'[f] = Stored("good")
               /\ InUse(f)' => row'[f] = "READY",
           NEW d, d = draft[c], at # "done" => Knows(r, d)' /\ Sent(r, d)
    PROVE  MediaInv'
<1>1. MediaTypeOK /\ draft[c] \in DraftRec
  BY DEF MediaInv, MediaTypeOK, BrandTypeOK, DraftRec
<1>2. r \in CallRec /\ r.at = at
  BY <1>1, NextStep
<1>3. call' = [Staled(c, {f}) EXCEPT ![c] = r] /\ UNCHANGED draft
  BY DEF Write, brandVars
<1>4. Overtakes(c, {f}) /\ call' \in [Calls -> CallRec] /\ call'[c] = r
  BY <1>1, <1>2, <1>3, StaledCalls
<1>5. UNCHANGED <<revision, text, source, font, savedFonts, takenOut>> /\ revision \in Nat
  BY <1>1 DEF brandVars, MediaTypeOK, BrandTypeOK
<1>6. \A x \in Calls \ {c} : Knows(call[x], draft[x])' /\ Sent(call[x], draft[x])'
  BY <1>4, <1>5, OthersKnow
<1>7. Knows(call[c], draft[c])' /\ Sent(call[c], draft[c])'
  <2>1. CASE at # "done"
    <3>1. Sent(r, d)'
      BY <1>5, <2>1 DEF Sent, Mergeable, Fits
    <3> QED
      BY <1>3, <1>4, <2>1, <3>1
  <2>2. CASE at = "done"
    <3>1. d.revision <= revision' /\ draft'[c] = d
      BY <1>3, <1>5 DEF MediaInv, CallsKnow, Sent
    <3>2. Knows(r, d)' /\ Sent(r, d)'
      BY <1>2, <2>2, <3>1 DEF Knows, Sent
    <3> QED
      BY <1>4, <3>1, <3>2
  <2> QED
    BY <2>1, <2>2
<1>8. CallsKnow'
  BY <1>6, <1>7 DEF CallsKnow
<1>9. /\ raced' = IF call[c].stale THEN raced \cup {f} ELSE raced
      /\ UNCHANGED <<bucket, expired>>
  BY DEF Write
<1>10. MediaTypeOK'
  BY <1>1, <1>3, <1>4, <1>5, <1>9, KindsAssumption, ZenonT(30) DEF MediaTypeOK, AssetTypeOK, BrandTypeOK, CallRec, Files
<1>11. ReadyHasItsFile' /\ InUseIsReady'
  BY <1>9 DEF MediaInv, ReadyHasItsFile, InUseIsReady, InUse
<1>12. (UsedAsTheirKind /\ PartsHaveWriters /\ DocumentFontIsHeld)'
  BY <1>5, <1>9 DEF MediaInv, UsedAsTheirKind, PartsHaveWriters, DocumentFontIsHeld
<1> QED
  BY <1>8, <1>10, <1>11, <1>12 DEF MediaInv

(* Initially nothing is stored, used or under way.                         *)
LEMMA InitiallyMedia == MediaInit => MediaInv
<1> SUFFICES ASSUME MediaInit PROVE MediaInv
  OBVIOUS
<1>1. call = [c \in Calls |-> Idle] /\ draft = [c \in Calls |-> NoDraft] /\ revision = 0
  BY DEF MediaInit
<1>2. MediaTypeOK
  <2>1. AssetTypeOK
    BY <1>1, EndedCalls DEF MediaInit, AssetInit, AssetTypeOK, CallRec, States, NoObject
  <2>2. BrandTypeOK
    BY <1>1, EndedCalls DEF MediaInit, BrandTypeOK, DraftRec
  <2> QED
    BY <2>1, <2>2 DEF MediaTypeOK
<1>3. CallsKnow
  <2>1. \A c \in Calls : call[c] = Idle /\ draft[c].revision <= revision
    BY <1>1, EndedCalls
  <2> QED
    BY <2>1, EndedCalls, EndedKnowNothing DEF CallsKnow
<1>4. UsedAsTheirKind /\ PartsHaveWriters /\ ReadyHasItsFile /\ InUseIsReady /\ DocumentFontIsHeld
  BY NoFontAssumption DEF MediaInit, AssetInit, NoObject, UsedAsTheirKind, PartsHaveWriters, ReadyHasItsFile, InUseIsReady, InUse,
     DocumentFontIsHeld, Files
<1> QED
  BY <1>2, <1>3, <1>4 DEF MediaInv

(* A step to the next point of a call changes no file.                     *)
LEMMA LooksOn ==
    ASSUME MediaInv, NEW c \in Calls, NEW at \in Steps, Look(c, at), UNCHANGED brandVars,
           NEW r, r = To(c, at), at # "done" => Knows(r, draft[c]) /\ Sent(r, draft[c])
    PROVE  MediaInv'
<1>1. r \in CallRec /\ r.at = at
  BY NextStep DEF MediaInv
<1>2. Knows(r, draft[c]) /\ Sent(r, draft[c])
  <2>1. CASE at # "done"
    BY <2>1
  <2>2. CASE at = "done"
    BY <1>1, <2>2, EndedKnowNothing DEF MediaInv, CallsKnow, Sent
  <2> QED
    BY <2>1, <2>2
<1>3. /\ call' = [call EXCEPT ![c] = r]
      /\ UNCHANGED <<bucket, row, expired, object, attached, track, trackUsed, link, raced>>
  BY DEF Look
<1> QED
  BY <1>1, <1>2, <1>3, Looks

(* The steps that only look: each passes on what it saw.                   *)
Checks(c) ==
    \/ ValidateFile(c) \/ ReadContent(c) \/ CountAttachments(c) \/ IsAudioTrack(c) \/ IsBrandAsset(c)
    \/ FindTrack(c) \/ CountTrackUses(c) \/ Dies(c)

(* The checks before a removal, a READY mark or a cleanup: an answer stops *)
(* the call or lets it go on.                                              *)
LEMMA ChecksKeepMedia ==
    ASSUME MediaInv, NEW c \in Calls, Checks(c), UNCHANGED brandVars
    PROVE  MediaInv'
<1>1. PICK at \in Steps :
        /\ Look(c, at)
        /\ \/ at = "done"
           \/ call[c].at = "validate" /\ at = "discard"
           \/ call[c].at = "read" /\ at = "mark" /\ object[call[c].file].bytes = "good"
           \/ call[c].at = "read" /\ at = "discard"
           \/ call[c].at = "uses" /\ at = "isTrack" /\ call[c].file \notin attached
           \/ call[c].at = "isTrack" /\ at = "isBrand" /\ call[c].file \notin track
           \/ call[c].at = "isBrand" /\ at = "delete" /\ link[call[c].file] = "none"
           \/ call[c].at = "exists" /\ at = "insertTrack"
           \/ call[c].at = "trackUses" /\ at = "dropTrack"
  BY DEF Checks, ValidateFile, ReadContent, CountAttachments, IsAudioTrack, IsBrandAsset, FindTrack,
         CountTrackUses, Dies, Steps
<1>2. PICK r : r = To(c, at)
  OBVIOUS
<1>3. ASSUME at # "done" PROVE Knows(r, draft[c]) /\ Sent(r, draft[c])
  <2>1. r.at = at /\ r.file = call[c].file /\ r.op = call[c].op /\ r.stale = call[c].stale
    BY <1>2, <1>3, NextStep DEF MediaInv
  <2>2. Knows(call[c], draft[c]) /\ Sent(call[c], draft[c])
    BY DEF MediaInv, CallsKnow
  <2>3. object[call[c].file].bytes = "good" => object[call[c].file] = Stored("good")
    BY DEF MediaInv, MediaTypeOK, AssetTypeOK, PartsHaveWriters, Stored, CallRec
  <2>4. Knows(r, draft[c])
    BY <1>1, <1>3, <2>1, <2>2, <2>3 DEF Knows, InUse
  <2>5. Sent(r, draft[c])
    BY <1>1, <1>3, <2>1, <2>2 DEF Sent
  <2> QED
    BY <2>4, <2>5
<1> QED
  BY <1>1, <1>2, <1>3, LooksOn

-----------------------------------------------------------------------------
(* The steps of uploads, cleanup and removal that write a file or its row. *)
ObjectRec == [bytes : Bytes \cup {"none", "partial"}, by : Calls \cup {NoCall}]

(* A step of a call that writes an object, and overtakes the others on     *)
(* that file.                                                              *)
LEMMA WritesObject ==
    ASSUME MediaInv, NEW c \in Calls, NEW at \in Steps, NEW o \in ObjectRec,
           SetObject(c, o, at), UNCHANGED brandVars,
           o.by = NoCall \/ o.bytes = "partial",
           ~call[c].stale => row[call[c].file] # "READY" \/ o = object[call[c].file],
           NEW r, r = To(c, at),
           at # "done" => Knows(r, draft[c])' /\ Sent(r, draft[c])
    PROVE  MediaInv'
<1>1. PICK f \in Files : f = call[c].file
  BY DEF MediaInv, MediaTypeOK, AssetTypeOK
<1>2. /\ object' = [object EXCEPT ![f] = o] /\ Write(c, f, at)
      /\ row' = row /\ attached' = attached /\ track' = track /\ trackUsed' = trackUsed /\ link' = link
  BY <1>1 DEF SetObject
<1>3. MediaTypeOK /\ UsedAsTheirKind /\ ReadyHasItsFile /\ InUseIsReady
  BY DEF MediaInv
<1>4. object' \in [Files -> ObjectRec] /\ object'[f] = o /\ \A g \in Files \ {f} : object'[g] = object[g]
  BY <1>1, <1>2, <1>3 DEF MediaTypeOK, AssetTypeOK, ObjectRec
<1>5. ~call[c].stale /\ f \notin raced => /\ row'[f] = "READY" => object'[f] = Stored("good")
                                          /\ InUse(f)' => row'[f] = "READY"
  BY <1>1, <1>2, <1>3, <1>4 DEF ReadyHasItsFile, InUseIsReady, InUse
<1>6. row' \in [Files -> States] /\ attached' \subseteq Images /\ track' \subseteq Sounds /\ trackUsed' \subseteq track'
  BY <1>2, <1>3 DEF MediaTypeOK, AssetTypeOK, UsedAsTheirKind
<1>7. PICK d : d = draft[c]
  OBVIOUS
<1>8. at # "done" => Knows(r, d)' /\ Sent(r, d)
  <2>1. d = draft'[c]
    BY <1>7 DEF brandVars
  <2> QED
    BY <1>7, <2>1
<1> QED
  BY <1>1, <1>2, <1>4, <1>5, <1>6, <1>7, <1>8, Writes DEF ObjectRec

(* A step of a call that writes a row of its file, and overtakes the       *)
(* others on it.                                                           *)
LEMMA WritesRow ==
    ASSUME MediaInv, NEW c \in Calls, NEW at \in Steps, NEW s \in States,
           SetRow(c, s, at), UNCHANGED brandVars,
           ~call[c].stale => /\ s = "READY" => object[call[c].file] = Stored("good")
                             /\ s # "READY" => row[call[c].file] # "READY" \/ ~InUse(call[c].file),
           NEW r, r = To(c, at),
           at # "done" => Knows(r, draft[c])' /\ Sent(r, draft[c])
    PROVE  MediaInv'
<1>1. PICK f \in Files : f = call[c].file
  BY DEF MediaInv, MediaTypeOK, AssetTypeOK
<1>2. /\ row' = [row EXCEPT ![f] = s] /\ Write(c, f, at)
      /\ object' = object /\ attached' = attached /\ track' = track /\ trackUsed' = trackUsed /\ link' = link
  BY <1>1 DEF SetRow
<1>3. MediaTypeOK /\ UsedAsTheirKind /\ PartsHaveWriters /\ InUseIsReady
  BY DEF MediaInv
<1>4. row' \in [Files -> States] /\ row'[f] = s /\ \A g \in Files \ {f} : row'[g] = row[g]
  BY <1>1, <1>2, <1>3 DEF MediaTypeOK, AssetTypeOK
<1>5. ~call[c].stale /\ f \notin raced => /\ row'[f] = "READY" => object'[f] = Stored("good")
                                          /\ InUse(f)' => row'[f] = "READY"
  BY <1>1, <1>2, <1>3, <1>4 DEF InUseIsReady, InUse
<1>6. /\ object' \in [Files -> [bytes : Bytes \cup {"none", "partial"}, by : Calls \cup {NoCall}]]
      /\ attached' \subseteq Images /\ track' \subseteq Sounds /\ trackUsed' \subseteq track'
      /\ object'[f].by = NoCall \/ object'[f].bytes = "partial"
  BY <1>2, <1>3 DEF MediaTypeOK, AssetTypeOK, UsedAsTheirKind, PartsHaveWriters
<1>7. PICK d : d = draft[c]
  OBVIOUS
<1>8. at # "done" => Knows(r, d)' /\ Sent(r, d)
  <2>1. d = draft'[c]
    BY <1>7 DEF brandVars
  <2> QED
    BY <1>7, <2>1
<1> QED
  BY <1>1, <1>2, <1>4, <1>5, <1>6, <1>7, <1>8, Writes

FileSteps(c) ==
    \/ OpenFile(c) \/ FinishFile(c) \/ BreakFile(c) \/ Discard(c) \/ EraseFile(c) \/ SweepFile(c)

(* Objects are written, finished, discarded and erased.                    *)
LEMMA FileStepsKeepMedia ==
    ASSUME MediaInv, NEW c \in Calls, FileSteps(c), UNCHANGED brandVars
    PROVE  MediaInv'
<1>1. call[c].file \in Files /\ object[call[c].file] \in ObjectRec /\ call[c].bytes \in Bytes
  BY DEF MediaInv, MediaTypeOK, AssetTypeOK, ObjectRec
<1>2. Knows(call[c], draft[c]) /\ Sent(call[c], draft[c])
  BY DEF MediaInv, CallsKnow
<1>3. NoObject \in ObjectRec /\ NoObject.by = NoCall
  BY DEF NoObject, ObjectRec
<1>4. \A b \in Bytes : Stored(b) \in ObjectRec /\ Stored(b).by = NoCall
  BY DEF Stored, ObjectRec
<1>5. PICK at \in Steps, o \in ObjectRec :
        /\ SetObject(c, o, at)
        /\ \/ call[c].at = "open" /\ at = "writing"
           \/ call[c].at = "writing" /\ at \in {"discard", "validate"}
           \/ call[c].at \in {"discard", "sweep"} /\ at = "fail"
           \/ call[c].at \in {"open", "writing", "erase"} /\ at = "done"
        /\ o.by = NoCall \/ o.bytes = "partial"
  <2>1. CASE OpenFile(c)
    <3>1. PICK p : p = [bytes |-> "partial", by |-> c]
      OBVIOUS
    <3>2. p \in ObjectRec /\ p.bytes = "partial"
      BY <3>1 DEF ObjectRec
    <3>3. SetObject(c, p, "writing") \/ SetObject(c, NoObject, "done")
      BY <2>1, <3>1 DEF OpenFile
    <3>4. call[c].at = "open" /\ "writing" \in Steps /\ "done" \in Steps
      BY <2>1 DEF OpenFile, Steps
    <3> QED
      BY <1>3, <3>2, <3>3, <3>4
  <2>2. CASE FinishFile(c)
    <3>1. PICK o : o = IF object[call[c].file].by = c THEN Stored(call[c].bytes) ELSE object[call[c].file]
      OBVIOUS
    <3>2. o \in ObjectRec /\ (o.by = NoCall \/ o.bytes = "partial")
      BY <1>1, <1>4, <3>1 DEF MediaInv, PartsHaveWriters
    <3>3. SetObject(c, o, "discard") \/ SetObject(c, o, "validate")
      BY <2>2, <3>1 DEF FinishFile
    <3>4. call[c].at = "writing" /\ "discard" \in Steps /\ "validate" \in Steps
      BY <2>2 DEF FinishFile, Steps
    <3> QED
      BY <3>2, <3>3, <3>4
  <2>3. CASE BreakFile(c) \/ EraseFile(c)
    BY <1>3, <2>3 DEF BreakFile, EraseFile, Steps
  <2>4. CASE Discard(c) \/ SweepFile(c)
    BY <1>3, <2>4 DEF Discard, SweepFile, Steps
  <2> QED
    BY <2>1, <2>2, <2>3, <2>4 DEF FileSteps
<1>6. ~call[c].stale => row[call[c].file] # "READY"
  BY <1>2, <1>5 DEF Knows
<1>7. PICK r : r = To(c, at)
  OBVIOUS
<1>8. ASSUME at # "done" PROVE Knows(r, draft[c])' /\ Sent(r, draft[c])
  <2>1. r.at = at /\ r.file = call[c].file /\ r.op = call[c].op /\ r.stale = call[c].stale
    BY <1>7, <1>8, NextStep DEF MediaInv
  <2>2. row' = row
    BY <1>5 DEF SetObject
  <2>3. Knows(r, draft[c])'
    BY <1>2, <1>5, <1>8, <2>1, <2>2 DEF Knows
  <2>4. Sent(r, draft[c])
    BY <1>2, <1>5, <1>8, <2>1 DEF Sent
  <2> QED
    BY <2>3, <2>4
<1> QED
  BY <1>5, <1>6, <1>7, <1>8, WritesObject

RowSteps(c) == MarkFailed(c) \/ MarkReady(c) \/ MarkDeleted(c)

(* A row is marked READY, FAILED or DELETED.                               *)
LEMMA RowStepsKeepMedia ==
    ASSUME MediaInv, NEW c \in Calls, RowSteps(c), UNCHANGED brandVars
    PROVE  MediaInv'
<1>1. call[c].file \in Files /\ row \in [Files -> States]
  BY DEF MediaInv, MediaTypeOK, AssetTypeOK
<1>2. Knows(call[c], draft[c]) /\ Sent(call[c], draft[c])
  BY DEF MediaInv, CallsKnow
<1>3. PICK at \in Steps, s \in States :
        /\ SetRow(c, s, at)
        /\ \/ call[c].at = "fail" /\ at = "done" /\ s = "FAILED"
           \/ call[c].at = "mark" /\ at = "done" /\ s = "READY"
           \/ call[c].at = "delete" /\ at = "erase" /\ s = "DELETED"
  BY DEF RowSteps, MarkFailed, MarkReady, MarkDeleted, Steps, States
<1>4. ~call[c].stale => /\ s = "READY" => object[call[c].file] = Stored("good")
                        /\ s # "READY" => row[call[c].file] # "READY" \/ ~InUse(call[c].file)
  BY <1>2, <1>3 DEF Knows
<1>5. PICK r : r = To(c, at)
  OBVIOUS
<1>6. ASSUME at # "done" PROVE Knows(r, draft[c])' /\ Sent(r, draft[c])
  <2>1. r.at = "erase" /\ r.file = call[c].file /\ r.op = call[c].op
    BY <1>3, <1>5, <1>6, NextStep DEF MediaInv
  <2>2. row'[r.file] = "DELETED"
    BY <1>1, <1>3, <1>6, <2>1 DEF SetRow
  <2>3. Sent(r, draft[c])
    BY <1>2, <2>1 DEF Sent
  <2> QED
    BY <2>1, <2>2, <2>3 DEF Knows
<1> QED
  BY <1>3, <1>4, <1>5, <1>6, WritesRow

(* The steps that put a file to use, or take it out of use.                *)
UseSteps(c) == Attach(c) \/ InsertTrack(c) \/ AttachTrack(c) \/ Detach(c) \/ DropTrack(c)

(* A file joins a message, a film or the Brand DNA.                        *)
LEMMA UseStepsKeepMedia ==
    ASSUME MediaInv, NEW c \in Calls, UseSteps(c), UNCHANGED brandVars
    PROVE  MediaInv'
<1>1. PICK f \in Files : f = call[c].file
  BY DEF MediaInv, MediaTypeOK, AssetTypeOK
<1>2. Knows(call[c], draft[c]) /\ Sent(call[c], draft[c]) /\ MediaTypeOK /\ UsedAsTheirKind
      /\ PartsHaveWriters /\ InUseIsReady /\ ReadyHasItsFile
  BY DEF MediaInv, CallsKnow
<1>3. CASE Look(c, "done")
  <2>1. PICK r : r = To(c, "done")
    OBVIOUS
  <2> QED
    BY <1>3, <2>1, LooksOn DEF Steps
<1>4. CASE ~Look(c, "done")
  <2>1. PICK at \in Steps :
          /\ SetUses(c, at)
          /\ attached' \subseteq Images /\ track' \subseteq Sounds /\ trackUsed' \subseteq track'
          /\ \A g \in Files \ {f} : (g \in attached' <=> g \in attached) /\ (g \in track' <=> g \in track)
          /\ \/ call[c].at = "insert" /\ at = "done"
             \/ call[c].at = "insertTrack" /\ at = "done"
             \/ attached' \subseteq attached /\ track' \subseteq track /\ at = "done"
             \/ /\ attached' \subseteq attached /\ track' \subseteq track /\ f \notin track'
                /\ call[c].at = "dropTrack" /\ at = "delete"
    <3>1. attached \subseteq Images /\ track \subseteq Sounds /\ trackUsed \subseteq track
      BY <1>2 DEF UsedAsTheirKind, MediaTypeOK, AssetTypeOK
    <3>2. "done" \in Steps /\ "delete" \in Steps
      BY DEF Steps
    <3>3. CASE Attach(c)
      BY <1>1, <1>2, <3>1, <3>2, <3>3 DEF Attach, Sent
    <3>4. CASE InsertTrack(c)
      BY <1>1, <1>2, <1>4, <3>1, <3>2, <3>4 DEF InsertTrack, Sent
    <3>5. CASE AttachTrack(c)
      BY <1>1, <1>4, <3>1, <3>2, <3>5 DEF AttachTrack
    <3>6. CASE Detach(c)
      BY <1>1, <3>1, <3>2, <3>6 DEF Detach
    <3>7. CASE DropTrack(c)
      BY <1>1, <3>1, <3>2, <3>7 DEF DropTrack
    <3> QED
      BY <3>3, <3>4, <3>5, <3>6, <3>7 DEF UseSteps
  <2>2. row' = row /\ object' = object /\ link' = link /\ Write(c, f, at)
    BY <1>1, <2>1 DEF SetUses
  <2>3. ~call[c].stale /\ f \notin raced => /\ row'[f] = "READY" => object'[f] = Stored("good")
                                            /\ InUse(f)' => row'[f] = "READY"
    <3>1. ~call[c].stale /\ f \notin raced => /\ row[f] = "READY" => object[f] = Stored("good")
                                              /\ InUse(f) => row[f] = "READY"
      BY <1>2 DEF ReadyHasItsFile, InUseIsReady
    <3>2. ~call[c].stale /\ call[c].at \in {"insert", "insertTrack"} => row[f] = "READY"
      BY <1>1, <1>2 DEF Knows
    <3> QED
      BY <2>1, <2>2, <3>1, <3>2 DEF InUse
  <2>4. PICK r, d : r = To(c, at) /\ d = draft[c]
    OBVIOUS
  <2>5. ASSUME at # "done" PROVE Knows(r, d)' /\ Sent(r, d)
    <3>1. r.at = "delete" /\ r.file = f
      BY <1>1, <1>2, <2>1, <2>4, <2>5, NextStep
    <3>2. f \in Sounds /\ f \notin track'
      BY <1>1, <1>2, <2>1, <2>5 DEF Sent
    <3>3. f \notin attached' /\ link'[f] = "none"
      BY <1>2, <2>1, <2>2, <3>2, KindsAssumption
         DEF UsedAsTheirKind, MediaTypeOK, AssetTypeOK, BrandRoles
    <3> QED
      BY <1>2, <2>4, <3>1, <3>2, <3>3 DEF Knows, Sent, InUse
  <2>6. /\ row' \in [Files -> States]
        /\ object' \in [Files -> [bytes : Bytes \cup {"none", "partial"}, by : Calls \cup {NoCall}]]
        /\ object'[f].by = NoCall \/ object'[f].bytes = "partial"
    BY <1>2, <2>2 DEF MediaTypeOK, AssetTypeOK, PartsHaveWriters
  <2> QED
    BY <1>1, <2>1, <2>2, <2>3, <2>4, <2>5, <2>6, Writes
<1> QED
  BY <1>3, <1>4

-----------------------------------------------------------------------------
(* A call that arrives: what it read on the way in is so.                  *)
LEMMA Arrives ==
    ASSUME MediaInv, NEW c \in Calls, NEW op \in AssetOps \cup BrandOps, NEW f \in Files,
           NEW b \in Bytes, NEW at \in Steps, Arrive(c, op, f, b, at),
           NEW d \in DraftRec, draft' = [draft EXCEPT ![c] = d], d.revision <= revision,
           UNCHANGED <<revision, text, source, font, savedFonts, takenOut>>,
           NEW s, s = [op |-> op, at |-> at, file |-> f, bytes |-> b, stale |-> FALSE],
           at # "done" => Knows(s, d) /\ Sent(s, d)
    PROVE  MediaInv'
<1>1. PICK r : r = IF at = "done" THEN Done ELSE s
  OBVIOUS
<1>2. r \in CallRec
  BY <1>1, EndedCalls DEF CallRec
<1>3. /\ call' = [call EXCEPT ![c] = r]
      /\ UNCHANGED <<bucket, row, expired, object, attached, track, trackUsed, link, raced>>
  BY <1>1 DEF Arrive
<1>4. Knows(r, d) /\ Sent(r, d)
  <2>1. CASE at = "done"
    BY <1>1, <2>1, EndedCalls, EndedKnowNothing
  <2>2. CASE at # "done"
    BY <1>1, <2>2
  <2> QED
    BY <2>1, <2>2
<1>5. Sent(r, d)'
  BY <1>4 DEF Sent, Mergeable, Fits
<1>6. /\ revision' = revision /\ text' = text /\ source' = source
      /\ UNCHANGED <<bucket, row, expired, object, attached, track, trackUsed, link, raced,
                     font, savedFonts, takenOut>>
  BY <1>3
<1>7. revision' \in Nat /\ revision <= revision' /\ text' \in Texts \cup {Blank} /\ source' \in {"none", "manual", "site"}
  BY <1>6 DEF MediaInv, MediaTypeOK, BrandTypeOK
<1> QED
  BY <1>2, <1>3, <1>4, <1>5, <1>6, <1>7, Reads

AssetArrivals(c, f) ==
    \/ \E b \in Bytes : BeginUpload(c, f, b)
    \/ BeginComplete(c, f) \/ BeginRemove(c, f) \/ BeginAttach(c, f) \/ BeginRegister(c, f)
    \/ BeginAttachTrack(c, f) \/ BeginRemoveTrack(c, f) \/ BeginCleanup(c, f)
    \/ f \in attached /\ BeginDetach(c, f, "detach")
    \/ f \in trackUsed /\ BeginDetach(c, f, "detachTrack")
    \/ BeginDropLink(c, f)

(* Uploads, cleanup, removals and attachments arrive.                      *)
LEMMA AssetArrivalsKeepMedia ==
    ASSUME MediaInv, NEW c \in Calls, NEW f \in Files, AssetArrivals(c, f), UNCHANGED brandVars
    PROVE  MediaInv'
<1>1. PICK d : d = draft[c]
  OBVIOUS
<1>2. d \in DraftRec /\ draft' = [draft EXCEPT ![c] = d] /\ d.revision <= revision
  BY <1>1 DEF MediaInv, MediaTypeOK, BrandTypeOK, DraftRec, CallsKnow, Sent, brandVars
<1>3. track \subseteq Sounds
  BY DEF MediaInv, UsedAsTheirKind
<1>4. PICK op \in AssetOps \cup BrandOps, b \in Bytes, at \in Steps :
        /\ Arrive(c, op, f, b, at)
        /\ \/ at = "done"
           \/ at \in {"fail", "open", "read", "sweep"} /\ row[f] = "PENDING"
           \/ at = "insert" /\ row[f] = "READY" /\ f \in Images
           \/ at = "exists" /\ row[f] = "READY" /\ f \in Sounds
           \/ at = "trackUses" /\ f \in Sounds
           \/ at \in {"uses", "insertUse"}
           \/ at = "drop" /\ op # "save"
           \/ at = "unlink" /\ op = "dropLink"
  <2>1. "good" \in Bytes /\ \A a \in {"done", "fail", "open", "read", "sweep", "insert", "exists", "trackUses",
                                       "uses", "insertUse", "drop", "unlink"} : a \in Steps
    BY DEF Bytes, Steps
  <2>2. CASE \E b \in Bytes : BeginUpload(c, f, b)
    BY <2>1, <2>2 DEF BeginUpload, AssetOps
  <2>3. CASE BeginComplete(c, f)
    BY <2>1, <2>3 DEF BeginComplete, AssetOps
  <2>4. CASE BeginRemove(c, f) \/ BeginAttach(c, f) \/ BeginRegister(c, f)
    BY <2>1, <2>4 DEF BeginRemove, BeginAttach, BeginRegister, AssetOps
  <2>5. CASE BeginAttachTrack(c, f) \/ BeginRemoveTrack(c, f) \/ BeginCleanup(c, f)
    BY <1>3, <2>1, <2>5 DEF BeginAttachTrack, BeginRemoveTrack, BeginCleanup, AssetOps
  <2>6. CASE BeginDetach(c, f, "detach") \/ BeginDetach(c, f, "detachTrack")
    BY <2>1, <2>6 DEF BeginDetach, AssetOps
  <2>7. CASE BeginDropLink(c, f)
    BY <2>1, <2>7 DEF BeginDropLink, BrandOps
  <2> QED
    BY <2>2, <2>3, <2>4, <2>5, <2>6, <2>7 DEF AssetArrivals
<1>r. PICK r : r = [op |-> op, at |-> at, file |-> f, bytes |-> b, stale |-> FALSE]
  OBVIOUS
<1>5. ASSUME at # "done" PROVE Knows(r, d) /\ Sent(r, d)
  <2>1. r.at = at /\ r.op = op /\ r.file = f
    BY <1>r
  <2>2. Knows(r, d)
    BY <1>4, <1>5, <2>1 DEF Knows
  <2>3. Sent(r, d)
    BY <1>2, <1>4, <1>5, <2>1 DEF Sent
  <2> QED
    BY <2>2, <2>3
<1> QED
  <2>1. UNCHANGED <<revision, text, source, font, savedFonts, takenOut>>
    BY DEF brandVars
  <2> QED
    BY <1>2, <1>4, <1>5, <1>r, <2>1, Arrives

BrandArrivals(c) ==
    \/ \E f \in Files, r \in BrandRoles : BeginAddLink(c, f, r) \/ BeginSetRole(c, f, r)
    \/ \E t \in Texts \cup {Blank}, g \in Fonts \cup {NoFont} : BeginSave(c, t, g)
    \/ \E t \in Texts, o \in BOOLEAN : BeginSuggest(c, t, o)

(* Requests about the Brand DNA arrive.                                    *)
LEMMA BrandArrivalsKeepMedia ==
    ASSUME MediaInv, NEW c \in Calls, BrandArrivals(c)
    PROVE  MediaInv'
<1>1. MediaTypeOK /\ revision \in Nat /\ draft \in [Calls -> DraftRec]
  BY DEF MediaInv, MediaTypeOK, BrandTypeOK, DraftRec
<1>2. /\ "good" \in Bytes /\ {"addLink", "setRole", "save", "suggest"} \subseteq AssetOps \cup BrandOps
      /\ {"limit", "put", "linked", "commit", "done"} \subseteq Steps
  BY DEF Bytes, BrandOps, Steps
<1>3. CASE \E f \in Files, r \in BrandRoles : BeginAddLink(c, f, r) \/ BeginSetRole(c, f, r)
  <2>1. PICK f \in Files, k \in BrandRoles : BeginAddLink(c, f, k) \/ BeginSetRole(c, f, k)
    BY <1>3
  <2>2. PICK d : d = [NoDraft EXCEPT !.role = k]
    OBVIOUS
  <2>3. d \in DraftRec /\ d.revision = 0 /\ d.role = k /\ d.revision <= revision
    BY <1>1, <2>2, EndedCalls DEF DraftRec
  <2>4. PICK op \in {"addLink", "setRole"}, at \in {"limit", "put"} :
          /\ Arrive(c, op, f, "good", at) /\ row[f] = "READY" /\ Fits(f, k)
          /\ op = "setRole" => link[f] # "none" /\ at = "put"
          /\ op = "addLink" => at = "limit"
    BY <2>1 DEF BeginAddLink, BeginSetRole, Drafted
  <2>5. /\ draft' = [draft EXCEPT ![c] = d]
        /\ UNCHANGED <<revision, text, source, font, savedFonts, takenOut>>
    BY <2>1, <2>2 DEF BeginAddLink, BeginSetRole, Drafted, KeepDocument
  <2>r. PICK r : r = [op |-> op, at |-> at, file |-> f, bytes |-> "good", stale |-> FALSE]
    OBVIOUS
  <2>6. ASSUME at # "done" PROVE Knows(r, d) /\ Sent(r, d)
    <3>1. r.at = at /\ r.op = op /\ r.file = f
      BY <2>r
    <3> QED
      BY <1>1, <2>3, <2>4, <3>1 DEF Knows, Sent
  <2> QED
    BY <1>2, <2>3, <2>4, <2>5, <2>6, <2>r, Arrives
<1>4. CASE \E t \in Texts \cup {Blank}, g \in Fonts \cup {NoFont} : BeginSave(c, t, g)
  <2>1. PICK t \in Texts \cup {Blank}, g \in Fonts \cup {NoFont} : BeginSave(c, t, g)
    BY <1>4
  <2>2. PICK d : d = [NoDraft EXCEPT !.revision = revision, !.text = t, !.font = g]
    OBVIOUS
  <2>3. d \in DraftRec /\ d.revision = revision /\ d.font = g /\ d.revision <= revision
    <3>1. PICK n \in Nat : n = revision
      BY <1>1
    <3>2. PICK e \in DraftRec : e = NoDraft
      BY EndedCalls
    <3>3. d = [e EXCEPT !.revision = n, !.text = t, !.font = g]
      BY <2>2, <3>1, <3>2
    <3>4. d \in DraftRec /\ d.revision = n /\ d.font = g
      BY <3>3 DEF DraftRec
    <3> QED
      BY <3>1, <3>4
  <2>4. PICK f : f = IF g = NoFont THEN Idle.file ELSE g
    OBVIOUS
  <2>5. f \in Files /\ (g # NoFont => f = g)
    BY <2>4, EndedCalls DEF Files
  <2>6. /\ Arrive(c, "save", f, "good", "linked") /\ draft' = [draft EXCEPT ![c] = d]
        /\ UNCHANGED <<revision, text, source, font, savedFonts, takenOut>>
    BY <2>1, <2>2, <2>4 DEF BeginSave, Drafted, KeepDocument
  <2>r. PICK r : r = [op |-> "save", at |-> "linked", file |-> f, bytes |-> "good", stale |-> FALSE]
    OBVIOUS
  <2>7. Knows(r, d) /\ Sent(r, d)
    <3>1. r.at = "linked" /\ r.op = "save" /\ r.file = f
      BY <2>r
    <3> QED
      BY <1>1, <2>3, <2>5, <3>1 DEF Knows, Sent
  <2> QED
    BY <1>2, <2>3, <2>5, <2>6, <2>7, <2>r, Arrives
<1>5. CASE \E t \in Texts, o \in BOOLEAN : BeginSuggest(c, t, o)
  <2>1. PICK t \in Texts, o \in BOOLEAN : BeginSuggest(c, t, o)
    BY <1>5
  <2>2. PICK e : e = [NoDraft EXCEPT !.text = t, !.overwrite = o]
    OBVIOUS
  <2>3. PICK d : d = IF Mergeable(e) THEN [e EXCEPT !.revision = revision, !.tries = 1] ELSE draft[c]
    OBVIOUS
  <2>4. e \in DraftRec /\ e.overwrite = o
    BY <2>2, EndedCalls DEF DraftRec
  <2>5. d \in DraftRec /\ d.revision <= revision /\ (Mergeable(e) => d.overwrite = o)
    <3>1. draft[c] \in DraftRec /\ draft[c].revision <= revision
      BY <1>1 DEF MediaInv, CallsKnow, Sent
    <3>2. CASE Mergeable(e)
      <4>1. PICK n \in Nat : n = revision
        BY <1>1
      <4>2. d = [e EXCEPT !.revision = n, !.tries = 1]
        BY <2>3, <3>2, <4>1
      <4>3. d \in DraftRec /\ d.revision = n /\ d.overwrite = e.overwrite
        <5>1. PICK k \in 0..2 : k = 1
          OBVIOUS
        <5>2. d = [e EXCEPT !.revision = n, !.tries = k]
          BY <4>2, <5>1
        <5> QED
          BY <2>4, <5>2 DEF DraftRec
      <4> QED
        BY <2>4, <4>1, <4>3
    <3> QED
      BY <2>3, <3>1, <3>2
  <2>6. PICK at \in {"commit", "done"} :
          Arrive(c, "suggest", Idle.file, "good", at) /\ (at = "commit" <=> Mergeable(e))
    BY <2>1, <2>2 DEF BeginSuggest
  <2>7. /\ draft' = [draft EXCEPT ![c] = d]
        /\ UNCHANGED <<revision, text, source, font, savedFonts, takenOut>>
    <3>1. /\ IF Mergeable(e) THEN ReadAndMerge(c, e, 1) ELSE UNCHANGED draft
          /\ UNCHANGED <<revision, text, source, font, savedFonts, takenOut>>
      BY <2>1, <2>2 DEF BeginSuggest, KeepDocument
    <3> QED
      BY <1>1, <2>3, <3>1 DEF ReadAndMerge
  <2>r. PICK r : r = [op |-> "suggest", at |-> at, file |-> Idle.file, bytes |-> "good", stale |-> FALSE]
    OBVIOUS
  <2>8. ASSUME at # "done" PROVE Knows(r, d) /\ Sent(r, d)
    <3>1. r.at = "commit" /\ r.op = "suggest" /\ Mergeable(d)
      BY <2>4, <2>5, <2>6, <2>8, <2>r DEF Mergeable
    <3> QED
      BY <1>1, <2>5, <3>1 DEF Knows, Sent
  <2> QED
    BY <1>2, <2>5, <2>6, <2>7, <2>8, <2>r, EndedCalls, Arrives, ZenonT(30)
<1> QED
  BY <1>3, <1>4, <1>5 DEF BrandArrivals

-----------------------------------------------------------------------------
(* What happens to a file outside of the calls.                            *)
LEMMA CreateUploadKeepsMedia ==
    ASSUME MediaInv, NEW f \in Files, CreateUpload(f), UNCHANGED brandVars
    PROVE  MediaInv'
<1>1. MediaTypeOK /\ CallsKnow /\ UsedAsTheirKind /\ PartsHaveWriters
      /\ ReadyHasItsFile /\ InUseIsReady /\ DocumentFontIsHeld
  BY DEF MediaInv
<1>2. /\ row[f] = "none" /\ row' = [row EXCEPT ![f] = "PENDING"]
      /\ UNCHANGED <<bucket, expired, object, attached, track, trackUsed, link, call, raced>>
      /\ UNCHANGED <<revision, text, source, font, draft, savedFonts, takenOut>>
  BY DEF CreateUpload, brandVars
<1>3. row \in [Files -> States] /\ row' \in [Files -> States]
      /\ row'[f] = "PENDING" /\ \A g \in Files \ {f} : row'[g] = row[g]
  BY <1>1, <1>2 DEF MediaTypeOK, AssetTypeOK, States
<1>4. MediaTypeOK'
  BY <1>1, <1>2, <1>3 DEF MediaTypeOK, AssetTypeOK, BrandTypeOK
<1>5. CallsKnow'
  <2> SUFFICES ASSUME NEW x \in Calls PROVE (Knows(call[x], draft[x]) /\ Sent(call[x], draft[x]))'
    BY DEF CallsKnow
  <2>1. Knows(call[x], draft[x]) /\ Sent(call[x], draft[x]) /\ call[x].file \in Files
    BY <1>1 DEF CallsKnow, MediaTypeOK, AssetTypeOK
  <2>2. call'[x] = call[x] /\ draft'[x] = draft[x]
    BY <1>2
  <2>3. Sent(call[x], draft[x])'
    BY <1>2, <2>1, <2>2 DEF Sent, Mergeable, Fits
  <2>4. row[call[x].file] \in {"PENDING", "READY", "DELETED"} => row'[call[x].file] = row[call[x].file]
    BY <1>2, <1>3, <2>1
  <2>5. Knows(call[x], draft[x])'
    BY <1>2, <2>1, <2>2, <2>4 DEF Knows, InUse
  <2> QED
    BY <2>3, <2>5
<1>6. (UsedAsTheirKind /\ PartsHaveWriters /\ ReadyHasItsFile /\ InUseIsReady /\ DocumentFontIsHeld)'
  BY <1>1, <1>2, <1>3 DEF UsedAsTheirKind, PartsHaveWriters, ReadyHasItsFile, InUseIsReady, InUse, DocumentFontIsHeld
<1> QED
  BY <1>4, <1>5, <1>6 DEF MediaInv

(* The time of an upload ends: the cleanup may take it from here on.       *)
LEMMA UploadTimeEndsKeepsMedia ==
    ASSUME MediaInv, NEW f \in Files, UploadTimeEnds(f), UNCHANGED brandVars
    PROVE  MediaInv'
<1>1. /\ UNCHANGED <<bucket, row, object, attached, track, trackUsed, link, call, raced>>
      /\ UNCHANGED <<revision, text, source, font, draft, savedFonts, takenOut>>
      /\ expired' \subseteq Files
  BY DEF UploadTimeEnds, brandVars, MediaInv, MediaTypeOK, AssetTypeOK
<1>2. MediaTypeOK'
  BY <1>1 DEF MediaInv, MediaTypeOK, AssetTypeOK, BrandTypeOK
<1>3. CallsKnow'
  BY <1>1 DEF MediaInv, CallsKnow, Knows, Sent, InUse, Mergeable, Fits
<1>4. (UsedAsTheirKind /\ PartsHaveWriters /\ ReadyHasItsFile /\ InUseIsReady /\ DocumentFontIsHeld)'
  BY <1>1 DEF MediaInv, UsedAsTheirKind, PartsHaveWriters, ReadyHasItsFile, InUseIsReady, InUse, DocumentFontIsHeld
<1> QED
  BY <1>2, <1>3, <1>4 DEF MediaInv

(* A browser writes the object by the signed address, beside every call.   *)
LEMMA DirectUploadKeepsMedia ==
    ASSUME MediaInv, NEW f \in Files, NEW b \in Bytes, DirectUpload(f, b), UNCHANGED brandVars
    PROVE  MediaInv'
<1>1. MediaTypeOK /\ UsedAsTheirKind /\ PartsHaveWriters
      /\ ReadyHasItsFile /\ InUseIsReady /\ DocumentFontIsHeld
  BY DEF MediaInv
<1>2. /\ object[f] = NoObject /\ object' = [object EXCEPT ![f] = Stored(b)] /\ call' = Staled(NoCall, {f})
      /\ UNCHANGED <<bucket, row, expired, attached, track, trackUsed, link, raced>>
      /\ UNCHANGED <<revision, text, source, font, draft, savedFonts, takenOut>>
  BY DEF DirectUpload, brandVars
<1>3. Overtakes(NoCall, {f}) /\ call' \in [Calls -> CallRec]
  BY <1>1, <1>2, StaledCalls
<1>4. Stored(b) \in ObjectRec /\ Stored(b).by = NoCall
  BY DEF Stored, ObjectRec
<1>5. object' \in [Files -> ObjectRec] /\ object'[f] = Stored(b) /\ \A g \in Files \ {f} : object'[g] = object[g]
  BY <1>1, <1>2, <1>4 DEF MediaTypeOK, AssetTypeOK, ObjectRec
<1>6. CallsKnow'
  <2>1. revision' \in Nat /\ revision <= revision'
    BY <1>1, <1>2 DEF MediaTypeOK, BrandTypeOK
  <2>2. \A x \in Calls \ {NoCall} : Knows(call[x], draft[x])' /\ Sent(call[x], draft[x])'
    BY <1>2, <1>3, <1>5, <2>1, OthersKnow
  <2> QED
    BY <2>2, KindsAssumption DEF CallsKnow
<1>7. MediaTypeOK'
  BY <1>1, <1>2, <1>3, <1>5 DEF MediaTypeOK, AssetTypeOK, BrandTypeOK, CallRec, ObjectRec
<1>8. row[f] = "READY" => f \in raced
  BY <1>1, <1>2 DEF ReadyHasItsFile, NoObject, Stored
<1>9. (UsedAsTheirKind /\ PartsHaveWriters /\ ReadyHasItsFile /\ InUseIsReady /\ DocumentFontIsHeld)'
  BY <1>1, <1>2, <1>4, <1>5, <1>8
     DEF UsedAsTheirKind, PartsHaveWriters, ReadyHasItsFile, InUseIsReady, InUse, DocumentFontIsHeld
<1> QED
  BY <1>6, <1>7, <1>9 DEF MediaInv

-----------------------------------------------------------------------------
(* The steps of Brand DNA that only look at links and the document.        *)
BrandChecks(c) == CheckRevision(c) \/ CheckFonts(c) \/ Conflict(c)

(* The check of a link, and the fonts of a document that is to be saved.   *)
LEMMA BrandChecksKeepMedia ==
    ASSUME MediaInv, NEW c \in Calls, BrandChecks(c)
    PROVE  MediaInv'
<1>1. UNCHANGED brandVars
  BY DEF BrandChecks, CheckRevision, CheckFonts, Conflict, KeepBrand
<1>2. PICK at \in Steps :
        /\ Look(c, at)
        /\ \/ at = "done"
           \/ call[c].at = "linked" /\ at = "fonts"
           \/ /\ call[c].at = "fonts" /\ at = "commit"
              /\ draft[c].font = NoFont \/ link[draft[c].font] = "FONT"
           \/ call[c].at = "commit" /\ at = "retry" /\ call[c].op = "suggest"
  BY DEF BrandChecks, CheckRevision, CheckFonts, Conflict, Steps
<1>3. PICK r : r = To(c, at)
  OBVIOUS
<1>4. ASSUME at # "done" PROVE Knows(r, draft[c]) /\ Sent(r, draft[c])
  <2>1. r.at = at /\ r.file = call[c].file /\ r.op = call[c].op /\ r.stale = call[c].stale
    BY <1>3, <1>4, NextStep DEF MediaInv
  <2>2. Knows(call[c], draft[c]) /\ Sent(call[c], draft[c])
    BY DEF MediaInv, CallsKnow
  <2>3. Knows(r, draft[c])
    BY <1>2, <1>4, <2>1, <2>2 DEF Knows, Sent
  <2>4. Sent(r, draft[c])
    BY <1>2, <1>4, <2>1, <2>2 DEF Sent
  <2> QED
    BY <2>3, <2>4
<1> QED
  BY <1>1, <1>2, <1>3, <1>4, LooksOn

(* The count of links is read before a link is put.                        *)
LEMMA CheckLimitKeepsMedia ==
    ASSUME MediaInv, NEW c \in Calls, CheckLimit(c)
    PROVE  MediaInv'
<1>1. PICK at \in {"put", "done"} : Look(c, at)
  BY DEF CheckLimit
<1>2. PICK r, d : r = To(c, at) /\ d = draft[c]
  OBVIOUS
<1>3. /\ call[c].at = "limit" /\ revision' = IF revision = 0 THEN 1 ELSE revision
      /\ UNCHANGED <<text, source, font, draft, savedFonts, takenOut>>
  BY DEF CheckLimit
<1>4. MediaTypeOK /\ at \in Steps
  BY <1>1 DEF MediaInv, Steps
<1>5. r \in CallRec /\ r.at = at
      /\ (at # "done" => r.file = call[c].file /\ r.op = call[c].op /\ r.stale = call[c].stale)
  BY <1>2, <1>4, NextStep
<1>6. Knows(call[c], d) /\ Sent(call[c], d) /\ d \in DraftRec /\ draft' = [draft EXCEPT ![c] = d]
  BY <1>2, <1>3, <1>4 DEF MediaInv, CallsKnow, MediaTypeOK, BrandTypeOK, DraftRec
<1>7. revision' \in Nat /\ revision <= revision' /\ d.revision <= revision' /\ d.revision <= revision
  BY <1>3, <1>4, <1>6 DEF MediaTypeOK, BrandTypeOK, Sent, DraftRec
<1>8. Knows(r, d) /\ Sent(r, d)'
  <2>1. CASE at = "done"
    BY <1>5, <1>7, <2>1 DEF Knows, Sent
  <2>2. CASE at = "put"
    BY <1>3, <1>5, <1>6, <1>7, <2>2 DEF Knows, Sent, Fits
  <2> QED
    BY <1>1, <2>1, <2>2
<1>9. /\ call' = [call EXCEPT ![c] = r]
      /\ UNCHANGED <<bucket, row, expired, object, attached, track, trackUsed, link, raced,
                     font, savedFonts, takenOut>>
      /\ text' = text /\ source' = source
  BY <1>1, <1>2, <1>3 DEF Look
<1>10. text' \in Texts \cup {Blank} /\ source' \in {"none", "manual", "site"}
  BY <1>4, <1>9 DEF MediaTypeOK, BrandTypeOK
<1> QED
  BY <1>5, <1>6, <1>7, <1>8, <1>9, <1>10, Reads

(* Suggestions.                                                            *)
LEMMA CommitSuggestionKeepsMedia ==
    ASSUME MediaInv, NEW c \in Calls, CommitSuggestion(c)
    PROVE  MediaInv'
<1>1. PICK r, d : r = Done /\ d = NoDraft
  OBVIOUS
<1>2. MediaTypeOK
  BY DEF MediaInv
<1>3. r \in CallRec /\ d \in DraftRec /\ r.at = "done" /\ d.revision = 0
  BY <1>1, EndedCalls
<1>4. /\ revision' = revision + 1 /\ text' = draft[c].text /\ source' = "site"
      /\ draft' = [draft EXCEPT ![c] = d] /\ UNCHANGED <<font, savedFonts, takenOut>>
  BY <1>1 DEF CommitSuggestion
<1>5. /\ call' = [call EXCEPT ![c] = r]
      /\ UNCHANGED <<bucket, row, expired, object, attached, track, trackUsed, link, raced,
                     font, savedFonts, takenOut>>
  BY <1>1, <1>4 DEF CommitSuggestion, Look, To
<1>6. revision \in Nat /\ revision' \in Nat /\ revision <= revision' /\ revision' # revision /\ d.revision <= revision'
  BY <1>2, <1>3, <1>4 DEF MediaTypeOK, BrandTypeOK
<1>7. Knows(r, d) /\ Sent(r, d)'
  BY <1>3, <1>6 DEF Knows, Sent
<1>8. text' \in Texts \cup {Blank} /\ source' \in {"none", "manual", "site"}
  BY <1>2, <1>4 DEF MediaTypeOK, BrandTypeOK
<1> QED
  BY <1>3, <1>4, <1>5, <1>6, <1>7, <1>8, Reads

(* A suggestion that lost the race is merged once more into the document   *)
(* of now.                                                                 *)
LEMMA RetrySuggestionKeepsMedia ==
    ASSUME MediaInv, NEW c \in Calls, RetrySuggestion(c)
    PROVE  MediaInv'
<1>1. PICK at \in {"commit", "done"} : Look(c, at) /\ (at = "commit" => Mergeable(draft[c]))
  BY DEF RetrySuggestion
<1>2. MediaTypeOK /\ at \in Steps /\ draft[c] \in DraftRec /\ revision \in Nat
  BY <1>1 DEF MediaInv, MediaTypeOK, BrandTypeOK, DraftRec, Steps
<1>3. PICK r, e : r = To(c, at) /\ e = draft[c]
  OBVIOUS
<1>4. PICK n \in Nat, k \in 0..2 : n = revision /\ k = 2
  BY <1>2
<1>5. PICK d : d = [e EXCEPT !.revision = n, !.tries = k]
  OBVIOUS
<1>6. d \in DraftRec /\ d.revision = n /\ d.overwrite = e.overwrite /\ d.font = e.font
  BY <1>2, <1>3, <1>5 DEF DraftRec
<1>7. draft' = [draft EXCEPT ![c] = d] /\ UNCHANGED <<revision, text, source, font, savedFonts, takenOut>>
  BY <1>3, <1>4, <1>5 DEF RetrySuggestion, ReadAndMerge, KeepDocument
<1>8. r \in CallRec /\ r.at = at
      /\ (at # "done" => r.file = call[c].file /\ r.op = call[c].op /\ r.stale = call[c].stale)
  BY <1>2, <1>3, NextStep
<1>9. call[c].at = "retry" => call[c].op = "suggest"
  BY DEF MediaInv, CallsKnow, Sent
<1>10. Knows(r, d) /\ Sent(r, d)
  <2>1. CASE at = "done"
    BY <1>2, <1>4, <1>6, <1>8, <2>1 DEF Knows, Sent
  <2>2. CASE at = "commit"
    <3>1. Mergeable(d) /\ call[c].op = "suggest"
      BY <1>1, <1>3, <1>6, <1>9, <2>2 DEF Mergeable, RetrySuggestion
    <3> QED
      BY <1>2, <1>4, <1>6, <1>8, <2>2, <3>1 DEF Knows, Sent
  <2> QED
    BY <1>1, <2>1, <2>2
<1>11. Sent(r, d)'
  BY <1>7, <1>10 DEF Sent, Mergeable, Fits
<1>12. /\ call' = [call EXCEPT ![c] = r]
       /\ UNCHANGED <<bucket, row, expired, object, attached, track, trackUsed, link, raced,
                      font, savedFonts, takenOut>>
       /\ revision' = revision /\ text' = text /\ source' = source
  BY <1>1, <1>3, <1>7 DEF Look
<1>13. revision' \in Nat /\ revision <= revision' /\ text' \in Texts \cup {Blank} /\ source' \in {"none", "manual", "site"}
  BY <1>2, <1>12 DEF MediaTypeOK, BrandTypeOK
<1> QED
  BY <1>6, <1>7, <1>8, <1>10, <1>11, <1>12, <1>13, Reads

-----------------------------------------------------------------------------
(* Saving a document, and letting go of a link.                            *)
LEMMA CommitSaveKeepsMedia ==
    ASSUME MediaInv, NEW c \in Calls, CommitSave(c)
    PROVE  MediaInv'
<1>1. MediaTypeOK /\ UsedAsTheirKind /\ PartsHaveWriters /\ ReadyHasItsFile /\ InUseIsReady /\ DocumentFontIsHeld
      /\ Knows(call[c], draft[c]) /\ Sent(call[c], draft[c])
  BY DEF MediaInv, CallsKnow
<1>2. PICK d \in DraftRec, old \in Fonts \cup {NoFont} : d = draft[c] /\ old = font
  BY <1>1 DEF MediaTypeOK, BrandTypeOK, DraftRec
<1>3. PICK dropped : dropped = {old} \ {NoFont, d.font}
  OBVIOUS
<1>4. PICK r, e : /\ e = NoDraft
                  /\ r = IF dropped = {} THEN Done
                         ELSE [op |-> "save", at |-> "drop", file |-> CHOOSE f \in dropped : TRUE,
                               bytes |-> "good", stale |-> FALSE]
  OBVIOUS
<1>5. /\ call[c].at = "commit" /\ call[c].op = "save" /\ d.revision = revision
      /\ revision' = revision + 1 /\ text' = d.text /\ font' = d.font
      /\ source' = IF d.text = text THEN source ELSE IF d.text = Blank THEN "none" ELSE "manual"
      /\ savedFonts' = savedFonts \cup ({d.font} \ {NoFont})
      /\ call' = [Staled(c, {old, d.font}) EXCEPT ![c] = r]
      /\ raced' = IF call[c].stale THEN raced \cup ({d.font} \ {NoFont}) ELSE raced
      /\ draft' = [draft EXCEPT ![c] = e]
      /\ UNCHANGED <<bucket, row, expired, object, attached, track, trackUsed, link, takenOut>>
  BY <1>2, <1>3, <1>4 DEF CommitSave, SaveDocument
<1>6. old \in Fonts \cup {NoFont} /\ d.font \in Fonts \cup {NoFont} /\ revision \in Nat
      /\ (old # NoFont => old \in savedFonts) /\ Fonts \subseteq Files
  BY <1>1, <1>2 DEF MediaTypeOK, BrandTypeOK, UsedAsTheirKind, DraftRec, Files
<1>7. /\ r \in CallRec /\ r.at \in {"done", "drop"}
      /\ r.at = "drop" => r.op = "save" /\ r.file = old /\ r.file # font' /\ r.file \in savedFonts'
  <2>1. CASE dropped = {}
    BY <1>4, <2>1, EndedCalls
  <2>2. CASE dropped # {}
    <3>1. old # NoFont /\ old # d.font /\ dropped = {old}
      BY <1>3, <2>2
    <3>2. (CHOOSE f \in dropped : TRUE) = old
      BY <3>1
    <3>3. r = [op |-> "save", at |-> "drop", file |-> old, bytes |-> "good", stale |-> FALSE]
      BY <1>4, <2>2, <3>2
    <3> QED
      BY <1>5, <1>6, <3>1, <3>3 DEF CallRec, BrandOps, Steps, Bytes
  <2> QED
    BY <2>1, <2>2
<1>8. e \in DraftRec /\ e.revision = 0 /\ e.font = NoFont
  BY <1>4, EndedCalls
<1>9. Overtakes(c, {old, d.font}) /\ call' \in [Calls -> CallRec] /\ call'[c] = r
  BY <1>1, <1>5, <1>7, StaledCalls
<1>10. draft' \in [Calls -> DraftRec] /\ draft'[c] = e
  BY <1>1, <1>5, <1>8 DEF MediaTypeOK, BrandTypeOK, DraftRec
<1>11. revision' \in Nat /\ revision <= revision' /\ revision' # revision /\ e.revision <= revision'
  BY <1>5, <1>6, <1>8
<1>12. \A x \in Calls \ {c} : Knows(call[x], draft[x])' /\ Sent(call[x], draft[x])'
  <2>1. savedFonts \subseteq savedFonts' /\ font' \in {old, d.font}
    BY <1>5
  <2> QED
    BY <1>5, <1>9, <1>11, <2>1, OthersKnow
<1>13. Knows(call[c], draft[c])' /\ Sent(call[c], draft[c])'
  <2>1. Knows(r, e)' /\ Sent(r, e)'
    BY <1>5, <1>7, <1>11 DEF Knows, Sent
  <2> QED
    BY <1>9, <1>10, <2>1
<1>14. CallsKnow'
  BY <1>12, <1>13 DEF CallsKnow
<1>15. MediaTypeOK'
  <2>1. AssetTypeOK'
    BY <1>1, <1>5, <1>6, <1>9 DEF MediaTypeOK, AssetTypeOK, CallRec
  <2>2. text' \in Texts \cup {Blank} /\ source' \in {"none", "manual", "site"} /\ font' \in Fonts \cup {NoFont}
    BY <1>1, <1>2, <1>5, <1>6 DEF MediaTypeOK, BrandTypeOK, DraftRec
  <2>3. savedFonts' \subseteq Fonts /\ takenOut' \subseteq Files
    BY <1>1, <1>5, <1>6 DEF MediaTypeOK, BrandTypeOK
  <2>4. BrandTypeOK'
    BY <1>10, <1>11, <2>2, <2>3 DEF BrandTypeOK, DraftRec
  <2> QED
    BY <2>1, <2>4 DEF MediaTypeOK
<1>16. (UsedAsTheirKind /\ PartsHaveWriters /\ ReadyHasItsFile /\ InUseIsReady)'
  BY <1>1, <1>5 DEF UsedAsTheirKind, PartsHaveWriters, ReadyHasItsFile, InUseIsReady, InUse
<1>17. DocumentFontIsHeld'
  <2> SUFFICES ASSUME font' \in Fonts \ (raced' \cup takenOut') PROVE link'[font'] = "FONT"
    BY DEF DocumentFontIsHeld
  <2>1. d.font # NoFont /\ ~call[c].stale
    BY <1>5, <1>6, NoFontAssumption
  <2>2. link[call[c].file] = "FONT" /\ call[c].file = d.font
    BY <1>1, <1>2, <1>5, <2>1 DEF Knows, Sent
  <2> QED
    BY <1>5, <2>2
<1> QED
  BY <1>14, <1>15, <1>16, <1>17 DEF MediaInv

(* The removal a released font is given starts at its checks, or is none.  *)
LEMMA ReleasedCalls ==
    ASSUME NEW f \in Files
    PROVE  Releasing(f) \in CallRec /\ Releasing(f).at \in {"uses", "done"}
<1>1. PICK r : r = [op |-> "remove", at |-> "uses", file |-> f, bytes |-> "good", stale |-> FALSE]
  OBVIOUS
<1>2. r \in CallRec /\ r.at = "uses"
  BY <1>1 DEF CallRec, AssetOps, Steps, Bytes
<1> QED
  BY <1>1, <1>2, EndedCalls DEF Releasing

LinkDrops(c) == DropLink(c) \/ DropOldFont(c)

(* A link is removed by a request, or a font by the save that replaced it. *)
LEMMA LinkDropsKeepMedia ==
    ASSUME MediaInv, NEW c \in Calls, LinkDrops(c)
    PROVE  MediaInv'
<1>1. MediaTypeOK /\ UsedAsTheirKind /\ PartsHaveWriters /\ ReadyHasItsFile /\ InUseIsReady /\ DocumentFontIsHeld
      /\ Knows(call[c], draft[c]) /\ Sent(call[c], draft[c])
  BY DEF MediaInv, CallsKnow
<1>2. PICK f \in Files, d \in DraftRec : f = call[c].file /\ d = draft[c]
  BY <1>1 DEF MediaTypeOK, AssetTypeOK, BrandTypeOK, DraftRec
<1>r. PICK r : r = Releasing(f)
  OBVIOUS
<1>3. /\ link' = [link EXCEPT ![f] = "none"] /\ call' = [Staled(c, {f}) EXCEPT ![c] = r]
      /\ raced' = IF call[c].stale THEN raced \cup {f} ELSE raced
      /\ UNCHANGED <<bucket, row, expired, object, attached, track, trackUsed>>
      /\ UNCHANGED <<revision, text, source, font, draft, savedFonts>>
      /\ \/ takenOut' = takenOut \cup {f}
         \/ takenOut' = takenOut /\ call[c].at = "drop" /\ call[c].op = "save"
  <2>1. CASE DropLink(c)
    BY <1>2, <1>r, <2>1 DEF DropLink, Unlink, KeepDocument
  <2>2. CASE DropOldFont(c)
    BY <1>2, <1>r, <2>2 DEF DropOldFont, Unlink, KeepBrand, brandVars
  <2> QED
    BY <2>1, <2>2 DEF LinkDrops
<1>4. r \in CallRec /\ r.at \in {"uses", "done"}
  BY <1>r, ReleasedCalls
<1>5. Overtakes(c, {f}) /\ call' \in [Calls -> CallRec] /\ call'[c] = r
  BY <1>1, <1>3, <1>4, StaledCalls
<1>6. revision \in Nat /\ d.revision <= revision /\ revision' \in Nat /\ revision <= revision'
  BY <1>1, <1>2, <1>3 DEF MediaTypeOK, BrandTypeOK, Sent
<1>7. link' \in [Files -> BrandRoles \cup {"none"}] /\ link'[f] = "none" /\ \A g \in Files \ {f} : link'[g] = link[g]
  BY <1>1, <1>3 DEF MediaTypeOK, AssetTypeOK
<1>8. \A x \in Calls \ {c} : Knows(call[x], draft[x])' /\ Sent(call[x], draft[x])'
  BY <1>3, <1>5, <1>6, <1>7, OthersKnow
<1>9. Knows(call[c], draft[c])' /\ Sent(call[c], draft[c])'
  <2>1. Knows(r, d)' /\ Sent(r, d)'
    BY <1>3, <1>4, <1>6 DEF Knows, Sent
  <2> QED
    BY <1>2, <1>3, <1>5, <2>1
<1>10. CallsKnow'
  BY <1>8, <1>9 DEF CallsKnow
<1>11. MediaTypeOK'
  <2>1. AssetTypeOK'
    BY <1>1, <1>3, <1>5, <1>7 DEF MediaTypeOK, AssetTypeOK, CallRec
  <2>2. takenOut' \subseteq Files
    BY <1>1, <1>2, <1>3 DEF MediaTypeOK, BrandTypeOK
  <2>3. BrandTypeOK'
    BY <1>1, <1>3, <2>2 DEF MediaTypeOK, BrandTypeOK
  <2> QED
    BY <2>1, <2>3 DEF MediaTypeOK
<1>12. (UsedAsTheirKind /\ PartsHaveWriters /\ ReadyHasItsFile /\ InUseIsReady)'
  BY <1>1, <1>3, <1>7 DEF UsedAsTheirKind, PartsHaveWriters, ReadyHasItsFile, InUseIsReady, InUse
<1>13. DocumentFontIsHeld'
  <2> SUFFICES ASSUME font \in Fonts \ (raced' \cup takenOut') PROVE link'[font] = "FONT"
    BY <1>3 DEF DocumentFontIsHeld
  <2>1. font # f
    BY <1>1, <1>2, <1>3 DEF Knows
  <2>2. link[font] = "FONT" /\ font \in Files
    BY <1>1, <1>3 DEF DocumentFontIsHeld, Files
  <2> QED
    BY <1>7, <2>1, <2>2
<1> QED
  BY <1>10, <1>11, <1>12, <1>13 DEF MediaInv

(* A link is put, and displaces the logo or the font before it.            *)
LEMMA PutLinkKeepsMedia ==
    ASSUME MediaInv, NEW c \in Calls, PutLink(c)
    PROVE  MediaInv'
<1>1. MediaTypeOK /\ UsedAsTheirKind /\ PartsHaveWriters /\ ReadyHasItsFile /\ InUseIsReady /\ DocumentFontIsHeld
      /\ Knows(call[c], draft[c]) /\ Sent(call[c], draft[c])
  BY DEF MediaInv, CallsKnow
<1>2. PICK f \in Files, d \in DraftRec : f = call[c].file /\ d = draft[c]
  BY <1>1 DEF MediaTypeOK, AssetTypeOK, BrandTypeOK, DraftRec
<1>3. PICK out : out = Displaced(f, d.role)
  OBVIOUS
<1>4. out \subseteq Files \ {f} /\ \A g \in out : link[g] = "LOGO"
  BY <1>3 DEF Displaced
<1>5. PICK r, e : r = (IF out = {} THEN Done ELSE Releasing(CHOOSE g \in out : TRUE)) /\ e = NoDraft
  OBVIOUS
<1>6. PICK lives \in BOOLEAN : lives <=> call[c].op = "addLink" \/ link[f] # "none"
  OBVIOUS
<1>7. /\ call[c].at = "put"
      /\ link' = [g \in Files |-> IF g \in out THEN "none" ELSE IF g = f /\ lives THEN d.role ELSE link[g]]
      /\ call' = [Staled(c, out \cup {f}) EXCEPT ![c] = r]
      /\ raced' = IF call[c].stale THEN raced \cup out \cup {f} ELSE raced
      /\ takenOut' = takenOut \ {f} /\ draft' = [draft EXCEPT ![c] = e]
      /\ UNCHANGED <<bucket, row, expired, object, attached, track, trackUsed, savedFonts>>
      /\ UNCHANGED <<revision, text, source, font>>
  BY <1>2, <1>3, <1>5, <1>6 DEF PutLink, KeepDocument
<1>8. r \in CallRec /\ r.at \in {"uses", "done"}
  <2>1. CASE out = {}
    BY <1>5, <2>1, EndedCalls
  <2>2. CASE out # {}
    <3>1. PICK g \in Files : g = CHOOSE h \in out : TRUE
      BY <1>4, <2>2
    <3> QED
      BY <1>5, <2>2, <3>1, ReleasedCalls
  <2> QED
    BY <2>1, <2>2
<1>9. Overtakes(c, out \cup {f}) /\ call' \in [Calls -> CallRec] /\ call'[c] = r
  BY <1>1, <1>7, <1>8, StaledCalls
<1>10. e \in DraftRec /\ e.revision = 0
  BY <1>5, EndedCalls
<1>11. draft' \in [Calls -> DraftRec] /\ draft'[c] = e
  BY <1>1, <1>7, <1>10 DEF MediaTypeOK, BrandTypeOK, DraftRec
<1>12. revision \in Nat /\ revision' \in Nat /\ revision <= revision'
  BY <1>1, <1>7 DEF MediaTypeOK, BrandTypeOK
<1>13. d.role \in BrandRoles /\ Fits(f, d.role)
  BY <1>1, <1>2, <1>7 DEF DraftRec, Sent
<1>14. /\ link' \in [Files -> BrandRoles \cup {"none"}]
       /\ \A g \in out : link'[g] = "none"
       /\ link'[f] = IF lives THEN d.role ELSE link[f]
       /\ \A g \in Files \ (out \cup {f}) : link'[g] = link[g]
  <2>1. link \in [Files -> BrandRoles \cup {"none"}]
    BY <1>1 DEF MediaTypeOK, AssetTypeOK
  <2> QED
    BY <1>4, <1>7, <1>13, <2>1
<1>15. \A x \in Calls \ {c} : Knows(call[x], draft[x])' /\ Sent(call[x], draft[x])'
  BY <1>7, <1>9, <1>12, <1>14, OthersKnow
<1>16. Knows(call[c], draft[c])' /\ Sent(call[c], draft[c])'
  <2>1. Knows(r, e)' /\ Sent(r, e)'
    BY <1>7, <1>8, <1>10, <1>12 DEF Knows, Sent
  <2> QED
    BY <1>9, <1>11, <2>1
<1>17. CallsKnow'
  BY <1>15, <1>16 DEF CallsKnow
<1>18. MediaTypeOK'
  <2>1. AssetTypeOK'
    BY <1>1, <1>4, <1>7, <1>9, <1>14 DEF MediaTypeOK, AssetTypeOK, CallRec
  <2>2. BrandTypeOK'
    BY <1>1, <1>7, <1>11 DEF MediaTypeOK, BrandTypeOK, DraftRec
  <2> QED
    BY <2>1, <2>2 DEF MediaTypeOK
<1>19. UsedAsTheirKind'
  <2>1. ASSUME NEW g \in Files
        PROVE  (link'[g] = "FONT" => g \in Fonts) /\ (link'[g] \in {"LOGO", "IMAGE"} => g \in Images)
    BY <1>1, <1>13, <1>14, <2>1 DEF UsedAsTheirKind, Fits, BrandRoles
  <2> QED
    BY <1>1, <1>7, <2>1 DEF UsedAsTheirKind
<1>20. InUseIsReady'
  <2> SUFFICES ASSUME NEW g \in Files \ raced', InUse(g)' PROVE row'[g] = "READY"
    BY DEF InUseIsReady
  <2>1. g \notin raced /\ (g = f => ~call[c].stale) /\ row' = row
    BY <1>7
  <2>2. CASE g = f
    BY <1>1, <1>2, <1>7, <2>1, <2>2 DEF Knows
  <2>3. CASE g # f
    BY <1>1, <1>7, <1>14, <2>1, <2>3 DEF InUseIsReady, InUse
  <2> QED
    BY <2>2, <2>3
<1>21. (PartsHaveWriters /\ ReadyHasItsFile)'
  BY <1>1, <1>7 DEF PartsHaveWriters, ReadyHasItsFile
<1>22. DocumentFontIsHeld'
  <2> SUFFICES ASSUME font \in Fonts \ (raced' \cup takenOut') PROVE link'[font] = "FONT"
    BY <1>7 DEF DocumentFontIsHeld
  <2>1. font \in Files /\ font \notin Images /\ font \notin raced
    BY <1>7, KindsAssumption DEF Files
  <2>2. font \notin out
    BY <1>1, <1>4, <2>1 DEF UsedAsTheirKind
  <2>3. CASE font = f
    <3>1. ~call[c].stale
      BY <1>7, <2>3
    <3>2. lives
      BY <1>1, <1>2, <1>6, <1>7, <3>1 DEF Knows, Sent
    <3> QED
      BY <1>13, <1>14, <2>1, <2>3, <3>2 DEF Fits
  <2>4. CASE font # f
    <3>1. link[font] = "FONT"
      BY <1>1, <1>7, <2>1, <2>4 DEF DocumentFontIsHeld
    <3> QED
      BY <1>14, <2>1, <2>2, <2>4, <3>1
  <2> QED
    BY <2>3, <2>4
<1> QED
  BY <1>17, <1>18, <1>19, <1>20, <1>21, <1>22 DEF MediaInv

-----------------------------------------------------------------------------
(* Every step is one of those above.                                       *)
UploadSteps == \E f \in Files : CreateUpload(f) \/ UploadTimeEnds(f) \/ \E b \in Bytes : DirectUpload(f, b)

(* The next-state relation as the disjunction of the groups above.         *)
LEMMA StepsOfMedia ==
    ASSUME MediaNext
    PROVE  \/ UNCHANGED brandVars /\ UploadSteps
           \/ \E c \in Calls, f \in Files : AssetArrivals(c, f) /\ UNCHANGED brandVars
           \/ \E c \in Calls : UNCHANGED brandVars /\ (Checks(c) \/ FileSteps(c) \/ RowSteps(c) \/ UseSteps(c))
           \/ \E c \in Calls : BrandArrivals(c) \/ BrandChecks(c) \/ CheckLimit(c) \/ CommitSuggestion(c)
           \/ \E c \in Calls : RetrySuggestion(c) \/ CommitSave(c) \/ LinkDrops(c) \/ PutLink(c)
<1>1. Requests \subseteq Calls /\ Edits \subseteq Calls
  BY DEF Calls
<1>2. CASE AssetNext /\ UNCHANGED brandVars
  <2>1. CASE UploadSteps
    BY <1>2, <2>1
  <2>2. CASE \E c \in Requests, f \in Files :
               \/ \E b \in Bytes : BeginUpload(c, f, b)
               \/ BeginComplete(c, f) \/ BeginRemove(c, f) \/ BeginAttach(c, f) \/ BeginRegister(c, f)
               \/ BeginAttachTrack(c, f) \/ BeginRemoveTrack(c, f) \/ BeginCleanup(c, f)
               \/ f \in attached /\ BeginDetach(c, f, "detach")
               \/ f \in trackUsed /\ BeginDetach(c, f, "detachTrack")
    <3>1. \E c \in Calls, f \in Files : AssetArrivals(c, f)
      BY <1>1, <2>2 DEF AssetArrivals
    <3> QED
      BY <1>2, <3>1
  <2>3. CASE \E c \in Calls : Checks(c) \/ FileSteps(c) \/ RowSteps(c) \/ UseSteps(c)
    BY <1>2, <2>3
  <2> QED
    BY <1>2, <2>1, <2>2, <2>3 DEF AssetNext, UploadSteps, Checks, FileSteps, RowSteps, UseSteps
<1>3. CASE BrandNext
  <2>1. CASE \E c \in Edits, f \in Files : BeginDropLink(c, f)
    <3>1. PICK c \in Calls, f \in Files : BeginDropLink(c, f)
      BY <1>1, <2>1
    <3>2. AssetArrivals(c, f) /\ UNCHANGED brandVars
      BY <3>1 DEF AssetArrivals, BeginDropLink, KeepBrand
    <3> QED
      BY <3>2
  <2>2. CASE \E c \in Edits : BrandArrivals(c)
    BY <1>1, <2>2
  <2>3. CASE \E c \in Calls : BrandChecks(c) \/ CheckLimit(c) \/ CommitSuggestion(c)
    BY <2>3
  <2>4. CASE \E c \in Calls : RetrySuggestion(c) \/ CommitSave(c) \/ LinkDrops(c) \/ PutLink(c)
    BY <2>4
  <2> QED
    BY <1>3, <2>1, <2>2, <2>3, <2>4 DEF BrandNext, BrandArrivals, BrandChecks, LinkDrops
<1> QED
  BY <1>2, <1>3 DEF MediaNext

(* Every step keeps the invariant.                                         *)
LEMMA MediaIsKept == MediaInv /\ [MediaNext]_mediaVars => MediaInv'
<1> SUFFICES ASSUME MediaInv, [MediaNext]_mediaVars PROVE MediaInv'
  OBVIOUS
<1>1. CASE UNCHANGED mediaVars
  <2>1. /\ UNCHANGED <<bucket, row, expired, object, attached, track, trackUsed, link, call, raced>>
        /\ UNCHANGED <<revision, text, source, font, draft, savedFonts, takenOut>>
    BY <1>1 DEF mediaVars, assetVars, brandVars
  <2>2. MediaTypeOK'
    BY <2>1 DEF MediaInv, MediaTypeOK, AssetTypeOK, BrandTypeOK
  <2>3. CallsKnow'
    BY <2>1 DEF MediaInv, CallsKnow, Knows, Sent, InUse, Mergeable, Fits
  <2>4. (UsedAsTheirKind /\ PartsHaveWriters /\ ReadyHasItsFile /\ InUseIsReady /\ DocumentFontIsHeld)'
    BY <2>1 DEF MediaInv, UsedAsTheirKind, PartsHaveWriters, ReadyHasItsFile, InUseIsReady, InUse,
                DocumentFontIsHeld
  <2> QED
    BY <2>2, <2>3, <2>4 DEF MediaInv
<1>2. CASE MediaNext
  <2>1. CASE UNCHANGED brandVars /\ UploadSteps
    BY <2>1, CreateUploadKeepsMedia, UploadTimeEndsKeepsMedia, DirectUploadKeepsMedia DEF UploadSteps
  <2>2. CASE \E c \in Calls, f \in Files : AssetArrivals(c, f) /\ UNCHANGED brandVars
    BY <2>2, AssetArrivalsKeepMedia
  <2>3. CASE \E c \in Calls : UNCHANGED brandVars /\ (Checks(c) \/ FileSteps(c) \/ RowSteps(c) \/ UseSteps(c))
    BY <2>3, ChecksKeepMedia, FileStepsKeepMedia, RowStepsKeepMedia, UseStepsKeepMedia
  <2>4. CASE \E c \in Calls : BrandArrivals(c) \/ BrandChecks(c) \/ CheckLimit(c) \/ CommitSuggestion(c)
    BY <2>4, BrandArrivalsKeepMedia, BrandChecksKeepMedia, CheckLimitKeepsMedia, CommitSuggestionKeepsMedia
  <2>5. CASE \E c \in Calls : RetrySuggestion(c) \/ CommitSave(c) \/ LinkDrops(c) \/ PutLink(c)
    BY <2>5, RetrySuggestionKeepsMedia, CommitSaveKeepsMedia, LinkDropsKeepMedia, PutLinkKeepsMedia
  <2> QED
    BY <1>2, <2>1, <2>2, <2>3, <2>4, <2>5, StepsOfMedia
<1> QED
  BY <1>1, <1>2

(* Which steps write a row, a link or the text.                            *)
LEMMA WhatMediaStepsWrite ==
    ASSUME MediaNext
    PROVE  /\ \/ row' = row \/ \E f \in Files : CreateUpload(f)
              \/ \E c \in Calls : RowSteps(c)
           /\ link' = link \/ \E c \in Calls : LinkDrops(c) \/ PutLink(c)
           /\ text' = text \/ \E c \in Calls : CommitSuggestion(c) \/ CommitSave(c)
<1>1. CASE UNCHANGED brandVars /\ UploadSteps
  BY <1>1 DEF brandVars, UploadSteps, CreateUpload, UploadTimeEnds, DirectUpload
<1>2. CASE \E c \in Calls, f \in Files : AssetArrivals(c, f) /\ UNCHANGED brandVars
  BY <1>2 DEF brandVars, AssetArrivals, BeginUpload, BeginComplete, BeginRemove, BeginAttach, BeginRegister,
              BeginAttachTrack, BeginRemoveTrack, BeginCleanup, BeginDetach, BeginDropLink, Arrive
<1>3. CASE \E c \in Calls : UNCHANGED brandVars /\ (Checks(c) \/ FileSteps(c) \/ RowSteps(c) \/ UseSteps(c))
  <2>1. PICK c \in Calls : UNCHANGED brandVars /\ (Checks(c) \/ FileSteps(c) \/ RowSteps(c) \/ UseSteps(c))
    BY <1>3
  <2>2. text' = text
    BY <2>1 DEF brandVars
  <2>3. CASE Checks(c)
    BY <2>2, <2>3 DEF Checks, ValidateFile, ReadContent, CountAttachments, IsAudioTrack, IsBrandAsset, FindTrack,
                      CountTrackUses, Dies, Look
  <2>4. CASE FileSteps(c)
    BY <2>2, <2>4 DEF FileSteps, OpenFile, FinishFile, BreakFile, Discard, EraseFile, SweepFile, SetObject
  <2>5. CASE RowSteps(c)
    BY <2>2, <2>5 DEF RowSteps, MarkFailed, MarkReady, MarkDeleted, SetRow
  <2>6. CASE UseSteps(c)
    BY <2>2, <2>6 DEF UseSteps, Attach, InsertTrack, AttachTrack, Detach, DropTrack, SetUses, Look
  <2> QED
    BY <2>1, <2>3, <2>4, <2>5, <2>6
<1>4. CASE \E c \in Calls : BrandArrivals(c) \/ BrandChecks(c) \/ CheckLimit(c) \/ CommitSuggestion(c)
  <2>1. PICK c \in Calls : BrandArrivals(c) \/ BrandChecks(c) \/ CheckLimit(c) \/ CommitSuggestion(c)
    BY <1>4
  <2>2. CASE BrandArrivals(c)
    BY <2>2 DEF BrandArrivals, BeginAddLink, BeginSetRole, BeginSave, BeginSuggest, Drafted, KeepDocument, Arrive
  <2>3. CASE BrandChecks(c)
    BY <2>3 DEF BrandChecks, CheckRevision, CheckFonts, Conflict, KeepBrand, brandVars, Look
  <2>4. CASE CheckLimit(c) \/ CommitSuggestion(c)
    BY <2>4 DEF CheckLimit, CommitSuggestion, Look
  <2> QED
    BY <2>1, <2>2, <2>3, <2>4
<1>5. CASE \E c \in Calls : RetrySuggestion(c) \/ CommitSave(c) \/ LinkDrops(c) \/ PutLink(c)
  <2>1. PICK c \in Calls : RetrySuggestion(c) \/ CommitSave(c) \/ LinkDrops(c) \/ PutLink(c)
    BY <1>5
  <2>2. CASE RetrySuggestion(c)
    BY <2>2 DEF RetrySuggestion, KeepDocument, Look
  <2>3. CASE CommitSave(c)
    BY <2>3 DEF CommitSave, SaveDocument
  <2>4. CASE LinkDrops(c)
    BY <2>4 DEF LinkDrops, DropLink, DropOldFont, Unlink, KeepDocument, KeepBrand, brandVars
  <2>5. CASE PutLink(c)
    BY <2>5 DEF PutLink, KeepDocument
  <2> QED
    BY <2>1, <2>2, <2>3, <2>4, <2>5
<1> QED
  BY <1>1, <1>2, <1>3, <1>4, <1>5, StepsOfMedia

-----------------------------------------------------------------------------
(* No step that knows its file brings a deleted row back: who does was     *)
(* overtaken.                                                              *)
LEMMA NothingDeletedReturns ==
    ASSUME MediaInv, [MediaNext]_mediaVars
    PROVE  [\A f \in Files : row[f] = "DELETED" /\ row'[f] # "DELETED" => f \in raced']_assetVars
<1> SUFFICES ASSUME NEW f \in Files, row[f] = "DELETED", row'[f] # "DELETED" PROVE f \in raced'
  OBVIOUS
<1>1. row' # row /\ row \in [Files -> States]
  BY DEF MediaInv, MediaTypeOK, AssetTypeOK
<1>2. MediaNext
  BY <1>1 DEF mediaVars, assetVars
<1>3. CASE \E g \in Files : CreateUpload(g)
  <2>1. PICK g \in Files : row[g] = "none" /\ row' = [row EXCEPT ![g] = "PENDING"]
    BY <1>3 DEF CreateUpload
  <2>2. f # g
    BY <2>1
  <2> QED
    BY <1>1, <2>1, <2>2
<1>4. CASE \E c \in Calls : RowSteps(c)
  <2>1. PICK c \in Calls : RowSteps(c)
    BY <1>4
  <2>2. Knows(call[c], draft[c]) /\ call[c].file \in Files
    BY DEF MediaInv, CallsKnow, MediaTypeOK, AssetTypeOK
  <2>3. \E s \in States, at \in Steps :
          /\ SetRow(c, s, at)
          /\ s = "DELETED" \/ call[c].at \in {"fail", "mark"}
    BY <2>1 DEF RowSteps, MarkFailed, MarkReady, MarkDeleted, States, Steps
  <2>4. PICK s \in States, at \in Steps :
          /\ row' = [row EXCEPT ![call[c].file] = s]
          /\ raced' = IF call[c].stale THEN raced \cup {call[c].file} ELSE raced
          /\ s = "DELETED" \/ call[c].at \in {"fail", "mark"}
    BY <2>3 DEF SetRow, Write
  <2>5. f = call[c].file /\ s # "DELETED"
    BY <1>1, <2>2, <2>4
  <2>6. call[c].stale
    BY <2>2, <2>4, <2>5 DEF Knows
  <2> QED
    BY <2>4, <2>5, <2>6
<1> QED
  BY <1>1, <1>2, <1>3, <1>4, WhatMediaStepsWrite

(* A suggestion that may not overwrite replaces what is blank, or was      *)
(* suggested itself.                                                       *)
LEMMA NothingTypedIsReplaced ==
    ASSUME MediaInv, [MediaNext]_mediaVars
    PROVE  [\A c \in Calls : call[c].op = "suggest" /\ ~draft[c].overwrite /\ text' # text
                               /\ draft'[c] # draft[c] => source # "manual" \/ text = Blank]_mediaVars
<1> SUFFICES ASSUME NEW c \in Calls, call[c].op = "suggest", ~draft[c].overwrite, text' # text,
                    draft'[c] # draft[c]
             PROVE  source # "manual" \/ text = Blank
  OBVIOUS
<1>1. MediaNext
  BY DEF mediaVars, brandVars
<1>2. PICK x \in Calls : CommitSuggestion(x) \/ CommitSave(x)
  BY <1>1, WhatMediaStepsWrite
<1>3. x = c
  <2>1. draft' = [draft EXCEPT ![x] = NoDraft]
    BY <1>2 DEF CommitSuggestion, CommitSave, SaveDocument
  <2> QED
    BY <2>1 DEF MediaInv, MediaTypeOK, BrandTypeOK
<1>4. call[c].at = "commit" /\ draft[c].revision = revision
  BY <1>2, <1>3 DEF CommitSuggestion, CommitSave, SaveDocument
<1>5. Mergeable(draft[c])
  BY <1>4 DEF MediaInv, CallsKnow, Sent
<1> QED
  BY <1>5 DEF Mergeable

(* A font that loses its link was in a saved document, or a request        *)
(* removes it.                                                             *)
LEMMA NoNewFontIsDropped ==
    ASSUME MediaInv, [MediaNext]_mediaVars
    PROVE  [\A f \in Fonts : link[f] = "FONT" /\ link'[f] = "none" =>
              f \in savedFonts \/ \E c \in Calls : call[c].op = "dropLink" /\ call[c].file = f]_mediaVars
<1> SUFFICES ASSUME NEW f \in Fonts, link[f] = "FONT", link'[f] = "none"
             PROVE  f \in savedFonts \/ \E c \in Calls : call[c].op = "dropLink" /\ call[c].file = f
  OBVIOUS
<1>1. MediaNext /\ link' # link
  BY DEF mediaVars, assetVars
<1>2. PICK c \in Calls : LinkDrops(c) \/ PutLink(c)
  BY <1>1, WhatMediaStepsWrite
<1>3. link \in [Files -> BrandRoles \cup {"none"}] /\ f \in Files
  BY DEF MediaInv, MediaTypeOK, AssetTypeOK, Files
<1>4. Sent(call[c], draft[c]) /\ draft[c].role \in BrandRoles
  BY DEF MediaInv, CallsKnow, MediaTypeOK, BrandTypeOK
<1>5. CASE LinkDrops(c)
  <2>1. /\ link' = [link EXCEPT ![call[c].file] = "none"]
        /\ call[c].at = "unlink" \/ (call[c].at = "drop" /\ call[c].op = "save")
    BY <1>5 DEF LinkDrops, DropLink, DropOldFont, Unlink
  <2>2. f = call[c].file
    BY <1>3, <2>1
  <2> QED
    BY <1>4, <2>1, <2>2 DEF Sent
<1>6. CASE PutLink(c)
  <2>1. PICK out : /\ out = Displaced(call[c].file, draft[c].role)
                   /\ \/ f \in out
                      \/ link'[f] \in {draft[c].role, link[f]}
    BY <1>3, <1>6 DEF PutLink
  <2>2. f \notin out
    BY <2>1 DEF Displaced
  <2> QED
    BY <1>4, <2>1, <2>2 DEF BrandRoles
<1> QED
  BY <1>2, <1>5, <1>6

(* Media and Brand DNA keep their invariant, for any files, calls and      *)
(* texts.                                                                  *)
THEOREM MediaInvariant == MediaSpec => []MediaInv
<1>1. MediaInit => MediaInv
  BY InitiallyMedia
<1>2. MediaInv /\ [MediaNext]_mediaVars => MediaInv'
  BY MediaIsKept
<1> QED
  BY <1>1, <1>2, PTL DEF MediaSpec

(* A READY asset has its whole file; what a message, a film or the Brand   *)
(* DNA uses is READY; the font of the document is linked; and a deleted    *)
(* asset returns only when an upload raced its removal (asset.service.ts,  *)
(* brand.service.ts).                                                      *)
THEOREM FilesAreAlwaysThere == MediaSpec => FilesAreThere
<1>1. MediaInv => MediaTypeOK /\ ReadyHasItsFile /\ InUseIsReady /\ DocumentFontIsHeld
  BY DEF MediaInv
<1>2. MediaInv /\ [MediaNext]_mediaVars =>
        [\A f \in Files : row[f] = "DELETED" /\ row'[f] # "DELETED" => f \in raced']_assetVars
  BY NothingDeletedReturns
<1> QED
  BY <1>1, <1>2, MediaInvariant, PTL DEF MediaSpec, FilesAreThere, DeletedStaysDeleted

(* A suggestion replaces nothing a person typed, and no save drops a font  *)
(* that was linked since it read the links (brand.service.ts).             *)
THEOREM WorkIsNeverTakenAway == MediaSpec => PeoplesWorkIsKept
<1>1. MediaInv /\ [MediaNext]_mediaVars =>
        [\A c \in Calls : call[c].op = "suggest" /\ ~draft[c].overwrite /\ text' # text
                            /\ draft'[c] # draft[c] => source # "manual" \/ text = Blank]_mediaVars
  BY NothingTypedIsReplaced
<1>2. MediaInv /\ [MediaNext]_mediaVars =>
        [\A f \in Fonts : link[f] = "FONT" /\ link'[f] = "none" =>
           f \in savedFonts \/ \E c \in Calls : call[c].op = "dropLink" /\ call[c].file = f]_mediaVars
  BY NoNewFontIsDropped
<1> QED
  BY <1>1, <1>2, MediaInvariant, PTL DEF MediaSpec, PeoplesWorkIsKept, TypedTextIsKept, NewFontsStay

-----------------------------------------------------------------------------
(***************************************************************************)
(* The chat: what a request is charged.                                    *)
(***************************************************************************)
MeterRec == [input : Nat, output : Nat, calls : 0..MaxCalls, unreported : Nat]

(* The meter of a request counts, and a charge is the price of what it     *)
(* counted.                                                                *)
BillInv ==
    /\ meter \in MeterRec /\ meter.unreported <= meter.calls
    /\ bill.n > 0 => bill.usage \in MeterRec /\ bill.units = Price(bill.usage)
    /\ bill.units \in 0..MaxCharge

(* The rates and limits of the pricing are natural numbers.                *)
LEMMA Prices ==
    /\ InputRate \in Nat /\ OutputRate \in Nat /\ MinCharge \in Nat /\ MaxCharge \in Nat
    /\ UnreportedCharge \in Nat /\ UnitCost \in Nat \ {0} /\ Grain \in Nat \ {0} /\ MinCharge <= MaxCharge
  BY PricingAssumption

(* Division with remainder.                                                *)
LEMMA Division ==
    ASSUME NEW a \in Nat, NEW b \in Nat \ {0}
    PROVE  a \div b \in Nat /\ b * (a \div b) <= a /\ a < b * (a \div b) + b
  BY Z3

(* Products of naturals are naturals.                                      *)
LEMMA ProductsAreNat == ASSUME NEW a \in Nat, NEW b \in Nat PROVE a * b \in Nat
  BY Z3

(* Multiplication by a natural is monotonic.                               *)
LEMMA ProductsGrow ==
    ASSUME NEW a \in Nat, NEW b \in Int, NEW c \in Int, b <= c
    PROVE  a * b <= a * c /\ a * b \in Int /\ a * c \in Int
  BY Z3

(* The exact price to the nearest grain: half a grain off at most.         *)
(* Rounded up to whole units: less than a unit more.                       *)
LEMMA UnitsCoverCost ==
    ASSUME NEW cost \in Nat
    PROVE  /\ Units(cost) \in Nat
           /\ 2 * Grain * (cost - Units(cost) * UnitCost) <= UnitCost
           /\ Units(cost) > 0 => (Units(cost) - 1) * UnitCost < cost
<1>1. UnitCost \in Nat \ {0} /\ Grain \in Nat \ {0}
  BY Prices
<1>2. PICK w \in Nat : w = cost * Grain
  BY <1>1, ProductsAreNat
<1>3. PICK x \in Nat : x = (2 * w + UnitCost) \div (2 * UnitCost)
  BY <1>1, Division
<1>4. PICK y \in Nat : y = UnitCost * x
  BY <1>1, ProductsAreNat
<1>5. 2 * y <= 2 * w + UnitCost /\ 2 * w + UnitCost < 2 * y + 2 * UnitCost
  <2>1. 2 * w + UnitCost \in Nat /\ 2 * UnitCost \in Nat \ {0}
    BY <1>1
  <2>2. /\ (2 * UnitCost) * x <= 2 * w + UnitCost
        /\ 2 * w + UnitCost < (2 * UnitCost) * x + 2 * UnitCost
    BY <1>3, <2>1, Division
  <2>3. (2 * UnitCost) * x = 2 * y
    BY <1>1, <1>4, Z3
  <2> QED
    BY <2>2, <2>3
<1>6. PICK u \in Nat : u = (x + Grain - 1) \div Grain
  BY <1>1, Division
<1>7. PICK v \in Nat : v = Grain * u
  BY <1>1, ProductsAreNat
<1>8. v <= x + Grain - 1 /\ x <= v
  <2>1. x + Grain - 1 \in Nat
    BY <1>1
  <2>2. Grain * u <= x + Grain - 1 /\ x + Grain - 1 < Grain * u + Grain
    BY <1>1, <1>6, <2>1, Division
  <2> QED
    BY <1>1, <1>7, <2>2
<1>9. Units(cost) = u
  <2>1. 2 * cost * Grain = 2 * w
    BY <1>1, <1>2, Z3
  <2> QED
    BY <1>3, <1>6, <2>1 DEF Units, CeilDiv
<1>10. PICK z \in Nat : z = UnitCost * v
  BY <1>1, ProductsAreNat
<1>11. y <= z
  BY <1>1, <1>4, <1>8, <1>10, ProductsGrow
<1>12. 2 * Grain * (cost - u * UnitCost) = 2 * w - 2 * z
  BY <1>1, <1>2, <1>7, <1>10, Z3
<1>13. 2 * w - 2 * z <= UnitCost
  BY <1>1, <1>5, <1>11
<1>14. ASSUME u > 0 PROVE (u - 1) * UnitCost < cost
  <2>1. PICK p \in Nat : p = UnitCost * (u - 1)
    <3>1. u - 1 \in Nat
      BY <1>14
    <3> QED
      BY <1>1, <3>1, ProductsAreNat
  <2>2. (u - 1) * UnitCost = p
    BY <1>1, <2>1, Z3
  <2>3. PICK k \in Int : k = UnitCost * (x - 1)
    BY <1>1, Z3
  <2>4. k = y - UnitCost
    BY <1>1, <1>4, <2>3, Z3
  <2>5. Grain * p <= k
    <3>1. v - Grain <= x - 1
      BY <1>1, <1>8
    <3>2. UnitCost * (v - Grain) <= UnitCost * (x - 1)
      BY <1>1, <3>1, ProductsGrow
    <3>3. UnitCost * (v - Grain) = Grain * p
      BY <1>1, <1>7, <2>1, Z3
    <3> QED
      BY <2>3, <3>2, <3>3
  <2>6. 2 * k <= 2 * w - UnitCost
    BY <1>1, <1>5, <2>4
  <2>7. CASE p >= cost
    <3>1. Grain * p >= Grain * cost
      BY <1>1, <2>7, ProductsGrow
    <3>2. Grain * cost = w /\ Grain * p \in Nat
      BY <1>1, <1>2, Z3
    <3> QED
      BY <1>1, <2>5, <2>6, <3>1, <3>2
  <2> QED
    BY <2>2, <2>7
<1> QED
  BY <1>9, <1>12, <1>13, <1>14


(* What was counted costs a natural number.                                *)
LEMMA CostIsNat == ASSUME NEW m \in MeterRec PROVE Cost(m) \in Nat
<1>1. m.input \in Nat /\ m.output \in Nat
  BY DEF MeterRec
<1> QED
  BY <1>1, Prices, ProductsAreNat DEF Cost

(* A price never passes the maximum charge.                                *)
LEMMA PriceIsBounded ==
    ASSUME NEW m \in MeterRec
    PROVE  Price(m) \in 0..MaxCharge
<1>1. Units(Cost(m)) \in Nat
  BY CostIsNat, UnitsCoverCost
<1> QED
  BY <1>1, Prices DEF Price, SmallerOf, LargerOf

(* A price covers the provider cost it is for, up to half a grain, unless  *)
(* it was capped or nothing was reported.                                  *)
LEMMA PriceCoversCost ==
    ASSUME NEW m \in MeterRec, NEW p, p = Price(m)
    PROVE  /\ p >= MinCharge
           /\ \/ p = MaxCharge
              \/ /\ 2 * Grain * (Cost(m) - p * UnitCost) <= UnitCost
                 /\ m.unreported > 0 => p >= UnreportedCharge
           /\ p <= LargerOf(MinCharge, UnreportedCharge) \/ (p - 1) * UnitCost < Cost(m)
<1>1. PICK c \in Nat, u \in Nat : c = Cost(m) /\ u = Units(c)
  BY CostIsNat, UnitsCoverCost
<1>2. 2 * Grain * (c - u * UnitCost) <= UnitCost /\ (u > 0 => (u - 1) * UnitCost < c)
  BY <1>1, UnitsCoverCost
<1>3. PICK l \in Nat : l = IF m.unreported > 0 THEN LargerOf(u, UnreportedCharge) ELSE u
  BY Prices DEF LargerOf
<1>4. p = SmallerOf(MaxCharge, LargerOf(MinCharge, l))
  BY <1>1, <1>3 DEF Price
<1>5. p \in Nat /\ p >= MinCharge /\ p <= MaxCharge
  BY <1>3, <1>4, Prices DEF SmallerOf, LargerOf
<1>6. p = MaxCharge \/ (p >= l /\ l >= u)
  BY <1>3, <1>4, Prices DEF SmallerOf, LargerOf
<1>7. ASSUME p # MaxCharge
      PROVE  /\ 2 * Grain * (Cost(m) - p * UnitCost) <= UnitCost
             /\ m.unreported > 0 => p >= UnreportedCharge
  <2>1. p >= u /\ p >= l
    BY <1>3, <1>5, <1>6, <1>7
  <2>2. m.unreported > 0 => p >= UnreportedCharge
    BY <1>1, <1>3, <1>5, <2>1, Prices DEF LargerOf
  <2>3. 2 * Grain * (c - p * UnitCost) <= 2 * Grain * (c - u * UnitCost)
    <3>1. UnitCost * u <= UnitCost * p
      BY <1>1, <1>5, <2>1, Prices, ProductsGrow
    <3>2. PICK a \in Nat, b \in Nat : a = u * UnitCost /\ b = p * UnitCost
      BY <1>1, <1>5, Prices, ProductsAreNat
    <3>3. a = UnitCost * u /\ b = UnitCost * p
      BY <1>1, <1>5, <3>2, Prices, Z3
    <3>4. 2 * Grain \in Nat /\ c - b <= c - a /\ c - b \in Int /\ c - a \in Int
      BY <1>1, <3>1, <3>2, <3>3, Prices
    <3> QED
      BY <3>2, <3>4, ProductsGrow
  <2>4. 2 * Grain * (c - p * UnitCost) <= UnitCost
    <3>1. PICK a \in Int, b \in Int : a = 2 * Grain * (c - p * UnitCost) /\ b = 2 * Grain * (c - u * UnitCost)
      BY <1>1, <1>5, Prices, Z3
    <3> QED
      BY <1>2, <2>3, <3>1, Prices
  <2>5. 2 * Grain * (Cost(m) - p * UnitCost) <= UnitCost
    BY <1>1, <2>4, Zenon
  <2> QED
    BY <2>2, <2>5
<1>8. ASSUME p > LargerOf(MinCharge, UnreportedCharge)
      PROVE  (p - 1) * UnitCost < Cost(m)
  <2>1. p <= u /\ u > 0
    BY <1>1, <1>3, <1>4, <1>5, <1>8, Prices DEF SmallerOf, LargerOf
  <2>2. PICK a \in Int, b \in Int : a = UnitCost * (p - 1) /\ b = UnitCost * (u - 1)
    BY <1>1, <1>5, Prices, Z3
  <2>3. a <= b
    BY <1>1, <1>5, <2>1, <2>2, Prices, ProductsGrow
  <2>4. a = (p - 1) * UnitCost /\ b = (u - 1) * UnitCost
    BY <1>1, <1>5, <2>2, Prices, Z3
  <2>5. b < c
    BY <1>2, <2>1, <2>4, Zenon
  <2>6. a < Cost(m)
    BY <1>1, <2>3, <2>5
  <2> QED
    BY <2>4, <2>6, Zenon
<1>9. p > LargerOf(MinCharge, UnreportedCharge) \/ p <= LargerOf(MinCharge, UnreportedCharge)
  BY <1>5, Prices DEF LargerOf
<1> QED
  BY <1>5, <1>7, <1>8, <1>9, Zenon

(* Counting never loses a count or makes one up.                           *)
LEMMA Counts ==
    ASSUME NEW m \in MeterRec, m.calls < MaxCalls, m.unreported <= m.calls, NEW r \in Reports,
           NEW k, k = Record(m, TokenCount(r.input), TokenCount(r.output))
    PROVE  k \in MeterRec /\ k.unreported <= k.calls
<1>1. /\ m.input \in Nat /\ m.output \in Nat /\ m.unreported \in Nat
      /\ m.calls + 1 \in 0..MaxCalls /\ m.unreported + 1 <= m.calls + 1
  BY CallsAssumption DEF MeterRec
<1>2. r.input \in Int /\ r.output \in Int
  BY CallsAssumption
<1>3. PICK i \in Nat, o \in Nat : i = Counted(TokenCount(r.input)) /\ o = Counted(TokenCount(r.output))
  BY <1>2 DEF Counted, TokenCount, Unknown
<1>4. PICK n \in 0..MaxCalls, u \in Nat, a \in Nat, b \in Nat :
        n = m.calls + 1 /\ u = m.unreported + 1 /\ a = m.input + i /\ b = m.output + o
  BY <1>1
<1>5. CASE k = [m EXCEPT !.calls = n, !.unreported = u]
  BY <1>1, <1>4, <1>5 DEF MeterRec
<1>6. CASE k = [m EXCEPT !.calls = n, !.input = a, !.output = b]
  <2>1. k = [input |-> a, output |-> b, calls |-> n, unreported |-> m.unreported]
    BY <1>6 DEF MeterRec
  <2> QED
    BY <1>1, <1>4, <2>1 DEF MeterRec
<1>7. k = [m EXCEPT !.calls = n, !.unreported = u] \/ k = [m EXCEPT !.calls = n, !.input = a, !.output = b]
  BY <1>3, <1>4 DEF Record
<1> QED
  BY <1>5, <1>6, <1>7

(* A request starts with an empty meter.                                   *)
LEMMA NewMeterIsEmpty == NewMeter \in MeterRec /\ NewMeter.unreported <= NewMeter.calls
  BY CallsAssumption DEF NewMeter, MeterRec

(* Every step keeps the bill: calls are counted by Record, and only Charge *)
(* writes a bill.                                                          *)
LEMMA BillIsKept == BillInv /\ [ChatNext]_chatVars => BillInv'
<1> SUFFICES ASSUME BillInv, [ChatNext]_chatVars PROVE BillInv'
  OBVIOUS
<1>1. CASE UNCHANGED <<meter, bill>>
  BY <1>1 DEF BillInv
<1>2. CASE \E words \in Sayings : BeginTurn(words)
  BY <1>2, NewMeterIsEmpty, Prices DEF BeginTurn, BillInv, NoBill
<1>3. CASE CallAnswers
  <2>1. PICK r \in Reports : meter' = Record(meter, TokenCount(r.input), TokenCount(r.output))
    BY <1>3 DEF CallAnswers
  <2>2. meter' \in MeterRec /\ meter'.unreported <= meter'.calls
    BY <1>3, <2>1, Counts DEF CallAnswers, BillInv
  <2> QED
    BY <1>3, <2>2 DEF CallAnswers, BillInv
<1>4. CASE Charge /\ meter' = NewMeter
  <2>1. PICK b, p, m : b = bill' /\ p = Price(meter) /\ m = meter
    OBVIOUS
  <2>2. b.usage = m /\ b.units = p
    BY <1>4, <2>1 DEF Charge
  <2>3. p \in 0..MaxCharge
    BY <2>1, PriceIsBounded DEF BillInv
  <2> QED
    BY <1>4, <2>1, <2>2, <2>3, NewMeterIsEmpty DEF BillInv
<1>5. CASE EndWithout
  BY <1>5, NewMeterIsEmpty DEF EndWithout, BillInv
<1> QED
  BY <1>1, <1>2, <1>3, <1>4, <1>5
     DEF ChatNext, chatVars, SaveMessage, StartSave, CommitFilm, SaveFails, CommitLeft, EndGeneration, EndChat

(* The units charged for a request cover what its provider calls cost, and *)
(* no more than rounding on top, whatever the provider reports (credit-    *)
(* pricing.ts, usage-meter.ts).                                            *)
THEOREM ChargesCoverCosts == ChatSpec => []ChargeCoversCost
<1>1. ChatInit => BillInv
  BY NewMeterIsEmpty, Prices DEF ChatInit, BillInv, NoBill
<1>2. BillInv /\ [ChatNext]_chatVars => BillInv'
  BY BillIsKept
<1>3. BillInv => ChargeCoversCost
  <2> SUFFICES ASSUME BillInv, bill.n > 0 PROVE ChargeCoversCost
    BY DEF ChargeCoversCost
  <2>1. PICK m \in MeterRec, p \in 0..MaxCharge : m = bill.usage /\ p = bill.units /\ p = Price(m)
    BY DEF BillInv
  <2> QED
    BY <2>1, PriceCoversCost DEF ChargeCoversCost
<1> QED
  BY <1>1, <1>2, <1>3, PTL DEF ChatSpec


-----------------------------------------------------------------------------
(* The transcript.                                                         *)
MessageRec == [role : Speakers, text : Sayings \cup {Reply}, n : 1..MaxTurns, at : Nat]
SaveRec == [n : 1..MaxTurns, expected : Nat, at : Nat]
RunRec == [saved : Nat, n : 1..MaxTurns,
           tokens : [input : Nat \cup {Unknown}, output : Nat \cup {Unknown}]]
TurnRec(h, s) == [n : 0..MaxTurns, pc : {"idle", "read", "asking"}, text : Sayings \cup {Reply},
                  history : {h}, sent : {s}, expected : Nat, saves : Nat, saving : Nat, saved : Nat]

ChatTyped ==
    /\ clock \in Nat /\ projectRevision \in Nat \ {0}
    /\ messages \subseteq MessageRec /\ \A m \in messages : m.at \in 1..clock /\ m.n <= turn.n
    /\ left \subseteq SaveRec /\ \A s \in left : s.at \in 1..clock /\ s.n <= turn.n
    /\ turn \in TurnRec(turn.history, turn.sent)
    /\ turn.saving <= clock /\ turn.saved <= projectRevision
    /\ turn.pc # "idle" => turn.n > 0 /\ turn.text \in Sayings
    /\ turn.saving > 0 \/ turn.saved > 0 => turn.pc = "asking"
    /\ turn.saving = 0 \/ turn.saved = 0
    /\ runRows \subseteq RunRec /\ \A run \in runRows : run.saved \in 2..projectRevision
    /\ bill.n \in 0..turn.n

(* What an answer to request n may be dated: after the request, and before *)
(* whatever later requests have written or have under way.                 *)
InOrder(n, at) ==
    /\ \E m \in messages : m.role = "user" /\ m.n = n /\ m.at < at
    /\ \A m \in messages : m.n > n => m.at > at
    /\ \A s \in left : s.n > n => s.at > at
    /\ turn.saving > 0 /\ turn.n > n => turn.saving > at

(* Saves that are under way are answers already.                           *)
AnswersInOrder ==
    /\ \A m \in messages : m.role = "assistant" => InOrder(m.n, m.at)
    /\ \A s \in left : InOrder(s.n, s.at)
    /\ turn.saving > 0 => InOrder(turn.n, turn.saving)

None(speaker, n) == \A m \in messages : m.role = speaker => m.n # n
One(speaker, n) == \E m : {x \in messages : x.n = n /\ x.role = speaker} = {m}

(* How far the running request got shows in the chat; no save of it was    *)
(* left behind, and none of a request that was charged.                    *)
TurnShows ==
    /\ turn.pc # "idle" => bill.n = 0
    /\ bill.n > 0 => bill.n = turn.n /\ One("user", turn.n) /\ One("assistant", turn.n)
    /\ turn.pc # "idle" \/ bill.n > 0 => \A s \in left : s.n < turn.n
    /\ turn.pc = "read" => None("user", turn.n) /\ None("assistant", turn.n)
    /\ turn.pc = "asking" =>
         /\ One("user", turn.n)
         /\ turn.saved = 0 => None("assistant", turn.n)
         /\ turn.saved > 0 => One("assistant", turn.n)

(* The row of the save of the running request is its own, and still open.  *)
OwnRun == \A run \in runRows : run.saved = turn.saved => run.n = turn.n /\ run.tokens = NoTokens

ChatInv == BillInv /\ ChatTyped /\ AnswersInOrder /\ TurnShows /\ OwnRun

(* Initially nobody has said anything.                                     *)
LEMMA InitiallyChat == ChatInit => ChatInv
<1> SUFFICES ASSUME ChatInit PROVE ChatInv
  OBVIOUS
<1>1. BillInv
  BY NewMeterIsEmpty, Prices DEF ChatInit, BillInv, NoBill
<1>2. /\ messages = {} /\ runRows = {} /\ projectRevision = 1 /\ clock = 0 /\ left = {} /\ turn = NoTurn(0)
      /\ bill.n = 0
  BY DEF ChatInit, NoBill
<1>3. /\ turn.n = 0 /\ turn.pc = "idle" /\ turn.saving = 0 /\ turn.saved = 0
      /\ turn \in TurnRec(turn.history, turn.sent)
  BY <1>2, CallsAssumption DEF NoTurn, TurnRec
<1>4. ChatTyped
  BY <1>2, <1>3 DEF ChatTyped
<1>5. AnswersInOrder /\ TurnShows /\ OwnRun
  BY <1>2, <1>3 DEF AnswersInOrder, TurnShows, OwnRun
<1> QED
  BY <1>1, <1>4, <1>5 DEF ChatInv

(* What the request and its end leave of the local variables.              *)
LEMMA EndedTurn ==
    ASSUME ChatTyped, turn' = NoTurn(turn.n)
    PROVE  /\ turn' \in TurnRec(turn'.history, turn'.sent)
           /\ turn'.n = turn.n /\ turn'.pc = "idle" /\ turn'.saving = 0 /\ turn'.saved = 0
<1>1. turn.n \in 0..MaxTurns
  BY DEF ChatTyped, TurnRec
<1> QED
  BY <1>1 DEF NoTurn, TurnRec

(* A message is added: the ones before it and the saves under way stay in  *)
(* order when it is in order itself.                                       *)
LEMMA Speaks ==
    ASSUME ChatInv, NEW x \in MessageRec, messages' = messages \cup {x}, x.at \in 1..clock', clock <= clock',
           x.n <= turn.n, turn'.n = turn.n, left' \subseteq left,
           turn'.saving \in {0, turn.saving},
           \A m \in messages : m.role = "assistant" /\ x.n > m.n => x.at > m.at,
           \A s \in left' : x.n > s.n => x.at > s.at,
           turn'.saving > 0 /\ x.n > turn.n => x.at > turn'.saving,
           x.role = "assistant" => InOrder(x.n, x.at)
    PROVE  AnswersInOrder'
<1>1. \A n \in Nat, at \in Nat : InOrder(n, at) /\ (x.n > n => x.at > at) => InOrder(n, at)'
  BY DEF InOrder, ChatInv, ChatTyped, TurnRec
<1>2. x.n \in Nat /\ x.at \in Nat /\ x.role \in Speakers
  BY CallsAssumption DEF MessageRec
<1>3. ASSUME NEW m \in messages', m.role = "assistant" PROVE InOrder(m.n, m.at)'
  <2>1. CASE m = x
    BY <1>1, <1>2, <1>3, <2>1
  <2>2. CASE m \in messages
    <3>1. m.n \in Nat /\ m.at \in Nat /\ InOrder(m.n, m.at)
      BY <1>3, <2>2, CallsAssumption DEF ChatInv, ChatTyped, MessageRec, AnswersInOrder
    <3> QED
      BY <1>1, <1>3, <2>2, <3>1
  <2> QED
    BY <1>3, <2>1, <2>2
<1>4. ASSUME NEW s \in left' PROVE InOrder(s.n, s.at)'
  <2>1. s.n \in Nat /\ s.at \in Nat /\ InOrder(s.n, s.at)
    BY <1>4, CallsAssumption DEF ChatInv, ChatTyped, SaveRec, AnswersInOrder
  <2> QED
    BY <1>1, <1>4, <2>1
<1>5. ASSUME turn'.saving > 0 PROVE InOrder(turn.n, turn.saving)' 
  <2>1. turn.n \in Nat /\ turn.saving \in Nat /\ turn'.saving = turn.saving /\ InOrder(turn.n, turn.saving)
    BY <1>5, CallsAssumption DEF ChatInv, ChatTyped, TurnRec, AnswersInOrder
  <2>2. InOrder(turn.n, turn.saving)'
    BY <1>1, <1>5, <2>1
  <2> QED
    BY <2>2
<1> QED
  BY <1>3, <1>4, <1>5 DEF AnswersInOrder

(* Messages of one request and role, when one is added.                    *)
LEMMA OneMore ==
    ASSUME NEW x, messages' = messages \cup {x}, NEW speaker, NEW n
    PROVE  /\ x.n = n /\ x.role = speaker /\ None(speaker, n) => One(speaker, n)'
           /\ x.n # n \/ x.role # speaker =>
                (One(speaker, n) => One(speaker, n)') /\ (None(speaker, n) => None(speaker, n)')
<1>1. ASSUME x.n = n, x.role = speaker, None(speaker, n) PROVE One(speaker, n)'
  <2>1. {y \in messages' : y.n = n /\ y.role = speaker} = {x}
    BY <1>1 DEF None
  <2> QED
    BY <2>1 DEF One
<1>2. ASSUME x.n # n \/ x.role # speaker
      PROVE  (One(speaker, n) => One(speaker, n)') /\ (None(speaker, n) => None(speaker, n)')
  <2>1. {y \in messages' : y.n = n /\ y.role = speaker} = {y \in messages : y.n = n /\ y.role = speaker}
    BY <1>2
  <2>2. One(speaker, n) => One(speaker, n)'
    BY <2>1 DEF One
  <2>3. None(speaker, n) => None(speaker, n)'
    BY <1>2 DEF None
  <2> QED
    BY <2>2, <2>3
<1> QED
  BY <1>1, <1>2

(* A request takes the next number, past every message and save.           *)
LEMMA BeginKeepsChat ==
    ASSUME ChatInv, NEW words \in Sayings, BeginTurn(words)
    PROVE  ChatTyped' /\ AnswersInOrder' /\ TurnShows' /\ OwnRun'
<1>1. PICK h, r, t : h = RecentMessages /\ r = projectRevision /\ t = NoTurn(turn.n + 1)
  OBVIOUS
<1>2. /\ turn.pc = "idle" /\ turn.n < MaxTurns
      /\ turn' = [t EXCEPT !.pc = "read", !.text = words, !.history = h, !.expected = r]
      /\ bill' = NoBill /\ UNCHANGED <<messages, runRows, projectRevision, clock, left>>
  BY <1>1 DEF BeginTurn
<1>3. turn.n \in 0..MaxTurns /\ projectRevision \in Nat \ {0} /\ turn.saving = 0
  BY <1>2, CallsAssumption DEF ChatInv, ChatTyped, TurnRec
<1>4. PICK k \in 1..MaxTurns : k = turn.n + 1
  BY <1>2, <1>3, CallsAssumption
<1>5. turn' = [n |-> k, pc |-> "read", text |-> words, history |-> h, sent |-> <<>>,
               expected |-> r, saves |-> 0, saving |-> 0, saved |-> 0]
  BY <1>1, <1>2, <1>4 DEF NoTurn
<1>6. /\ turn'.n = k /\ turn'.pc = "read" /\ turn'.text = words /\ turn'.saving = 0 /\ turn'.saved = 0
      /\ turn' \in TurnRec(turn'.history, turn'.sent)
  BY <1>1, <1>3, <1>5, CallsAssumption DEF TurnRec
<1>7. bill'.n = 0
  BY <1>2 DEF NoBill
<1>8. (\A m \in messages : m.n <= turn.n /\ m.n \in Nat) /\ (\A s \in left : s.n <= turn.n /\ s.n \in Nat)
  BY CallsAssumption DEF ChatInv, ChatTyped, MessageRec, SaveRec
<1>9. ChatTyped'
  BY <1>2, <1>3, <1>4, <1>6, <1>7, <1>8 DEF ChatInv, ChatTyped
<1>10. AnswersInOrder'
  BY <1>2, <1>6 DEF ChatInv, AnswersInOrder, InOrder
<1>11. TurnShows'
  <2>1. None("user", k)' /\ None("assistant", k)' /\ \A s \in left : s.n < k
    BY <1>2, <1>3, <1>4, <1>8 DEF None
  <2> QED
    BY <1>2, <1>6, <1>7, <2>1 DEF TurnShows
<1>12. OwnRun'
  BY <1>2, <1>6 DEF ChatInv, ChatTyped, OwnRun
<1> QED
  BY <1>9, <1>10, <1>11, <1>12

(* The message of the user is written, after everything before it.         *)
LEMMA SaveMessageKeepsChat ==
    ASSUME ChatInv, SaveMessage
    PROVE  ChatTyped' /\ AnswersInOrder' /\ TurnShows' /\ OwnRun'
<1>1. PICK x, s : /\ x = [role |-> "user", text |-> turn.text, n |-> turn.n, at |-> clock + 1]
                  /\ s = BuildMessages(turn.history, turn.text)
  OBVIOUS
<1>2. /\ turn.pc = "read" /\ clock' = clock + 1 /\ messages' = messages \cup {x}
      /\ turn' = [turn EXCEPT !.pc = "asking", !.sent = s]
      /\ UNCHANGED <<runRows, projectRevision, meter, left, bill>>
  BY <1>1 DEF SaveMessage, Say
<1>3. /\ clock \in Nat /\ turn.n \in 1..MaxTurns /\ turn.text \in Sayings
      /\ turn \in TurnRec(turn.history, turn.sent) /\ turn.saving = 0 /\ turn.saved = 0
  BY <1>2, CallsAssumption DEF ChatInv, ChatTyped, TurnRec
<1>4. /\ turn'.n = turn.n /\ turn'.pc = "asking" /\ turn'.text = turn.text
      /\ turn'.saving = 0 /\ turn'.saved = 0 /\ turn' \in TurnRec(turn'.history, turn'.sent)
  BY <1>2, <1>3 DEF TurnRec
<1>5. x \in MessageRec /\ x.role = "user" /\ x.n = turn.n /\ x.at = clock + 1
  BY <1>1, <1>3 DEF MessageRec, Speakers
<1>6. ChatTyped'
  BY <1>2, <1>3, <1>4, <1>5 DEF ChatInv, ChatTyped
<1>7. AnswersInOrder'
  <2>1. /\ x.at \in 1..clock' /\ clock <= clock' /\ x.n <= turn.n
        /\ \A m \in messages : x.at > m.at
        /\ \A t \in left' : x.at > t.at
    BY <1>2, <1>3, <1>5, CallsAssumption DEF ChatInv, ChatTyped
  <2> QED
    BY <1>2, <1>4, <1>5, <2>1, Speaks
<1>8. TurnShows'
  <2>1. None("user", turn.n) /\ None("assistant", turn.n)
    BY <1>2 DEF ChatInv, TurnShows
  <2>2. One("user", turn.n)' /\ None("assistant", turn.n)'
    <3>1. PICK k : k = turn.n
      OBVIOUS
    <3>2. One("user", k)' /\ None("assistant", k)'
      BY <1>2, <1>5, <2>1, <3>1, OneMore
    <3> QED
      BY <1>4, <3>1, <3>2
  <2> QED
    BY <1>2, <1>4, <2>2 DEF ChatInv, TurnShows
<1>9. OwnRun'
  BY <1>2, <1>4 DEF ChatInv, OwnRun
<1> QED
  BY <1>6, <1>7, <1>8, <1>9

(* An answer of the provider touches the meter alone.                      *)
LEMMA CallAnswersKeepsChat ==
    ASSUME ChatInv, CallAnswers
    PROVE  ChatTyped' /\ AnswersInOrder' /\ TurnShows' /\ OwnRun'
<1>1. UNCHANGED <<messages, runRows, projectRevision, clock, turn, left, bill>>
  BY DEF CallAnswers
<1> QED
  BY <1>1 DEF ChatInv, ChatTyped, AnswersInOrder, InOrder, TurnShows, One, None, OwnRun

(* A save takes its instant before it runs.                                *)
LEMMA StartSaveKeepsChat ==
    ASSUME ChatInv, StartSave
    PROVE  ChatTyped' /\ AnswersInOrder' /\ TurnShows' /\ OwnRun'
<1>1. PICK c \in Nat, v \in Nat : c = clock + 1 /\ v = turn.saves + 1
  BY DEF ChatInv, ChatTyped, TurnRec
<1>2. /\ turn.pc = "asking" /\ turn.saving = 0 /\ turn.saved = 0 /\ clock' = c
      /\ turn' = [turn EXCEPT !.saving = c, !.saves = v]
      /\ UNCHANGED <<messages, runRows, projectRevision, meter, left, bill>>
  BY <1>1 DEF StartSave
<1>3. clock \in Nat /\ turn.n \in 1..MaxTurns /\ turn \in TurnRec(turn.history, turn.sent) /\ c > clock
  BY <1>1, <1>2, CallsAssumption DEF ChatInv, ChatTyped, TurnRec
<1>4. /\ turn'.n = turn.n /\ turn'.pc = "asking" /\ turn'.text = turn.text
      /\ turn'.saving = c /\ turn'.saved = 0 /\ turn' \in TurnRec(turn'.history, turn'.sent)
  BY <1>1, <1>2, <1>3 DEF TurnRec
<1>5. ChatTyped'
  BY <1>1, <1>2, <1>3, <1>4 DEF ChatInv, ChatTyped
<1>6. AnswersInOrder'
  <2>1. /\ \A m \in messages : m.at \in Nat /\ m.at < c /\ m.n <= turn.n /\ m.n \in Nat
        /\ \A s \in left : s.at \in Nat /\ s.at < c /\ s.n <= turn.n /\ s.n \in Nat
    BY <1>1, <1>3, CallsAssumption DEF ChatInv, ChatTyped, MessageRec, SaveRec
  <2>2. \A n \in Nat, at \in Nat : InOrder(n, at) /\ at < c => InOrder(n, at)'
    BY <1>2, <1>3, <1>4 DEF InOrder
  <2>3. \E m \in messages : m.role = "user" /\ m.n = turn.n
    BY <1>2 DEF ChatInv, TurnShows, One
  <2>4. InOrder(turn.n, turn.saving)'
    BY <1>2, <1>3, <1>4, <2>1, <2>3 DEF InOrder
  <2> QED
    BY <1>2, <1>4, <2>1, <2>2, <2>4 DEF ChatInv, AnswersInOrder
<1>7. TurnShows'
  BY <1>2, <1>4 DEF ChatInv, TurnShows, One, None
<1>8. OwnRun'
  BY <1>2, <1>4 DEF ChatInv, OwnRun
<1> QED
  BY <1>5, <1>6, <1>7, <1>8

(* A save commits: the answer carries the instant the save began.          *)
LEMMA Stores ==
    ASSUME ChatTyped, NEW n \in 1..MaxTurns, NEW at \in Nat, NEW expected, Store(n, expected, at)
    PROVE  \E x \in MessageRec, run \in RunRec :
             /\ x.role = "assistant" /\ x.n = n /\ x.at = at /\ messages' = messages \cup {x}
             /\ run.n = n /\ run.saved = projectRevision + 1 /\ run.tokens = NoTokens
             /\ runRows' = runRows \cup {run}
             /\ projectRevision' = projectRevision + 1 /\ clock' = clock
<1>1. PICK x, run, t : /\ x = [role |-> "assistant", text |-> Reply, n |-> n, at |-> at]
                       /\ run = [saved |-> projectRevision + 1, n |-> n, tokens |-> t]
                       /\ t = NoTokens
  OBVIOUS
<1>2. x \in MessageRec /\ x.role = "assistant" /\ x.n = n /\ x.at = at
  BY <1>1 DEF MessageRec, Speakers
<1>3. t \in [input : Nat \cup {Unknown}, output : Nat \cup {Unknown}]
  BY <1>1 DEF NoTokens
<1>4. projectRevision + 1 \in Nat
  BY DEF ChatTyped
<1>5. run \in RunRec /\ run.n = n /\ run.saved = projectRevision + 1 /\ run.tokens = t
  BY <1>1, <1>3, <1>4 DEF RunRec
<1>6. /\ messages' = messages \cup {x} /\ runRows' = runRows \cup {run}
      /\ projectRevision' = projectRevision + 1 /\ clock' = clock
  BY <1>1 DEF Store, Say
<1> QED
  BY <1>1, <1>2, <1>5, <1>6

(* The save of the running request adds the answer and its row.            *)
LEMMA CommitFilmKeepsChat ==
    ASSUME ChatInv, CommitFilm
    PROVE  ChatTyped' /\ AnswersInOrder' /\ TurnShows' /\ OwnRun'
<1>1. /\ turn.saving > 0 /\ Store(turn.n, turn.expected, turn.saving)
      /\ turn' = [turn EXCEPT !.saving = 0, !.saved = projectRevision + 1]
      /\ UNCHANGED <<meter, left, bill>>
  BY DEF CommitFilm
<1>2. /\ clock \in Nat /\ turn.n \in 1..MaxTurns /\ turn \in TurnRec(turn.history, turn.sent)
      /\ turn.saving \in 1..clock /\ turn.pc = "asking" /\ turn.saved = 0
      /\ projectRevision \in Nat \ {0} /\ bill.n = 0 /\ ChatTyped
  BY <1>1, CallsAssumption DEF ChatInv, ChatTyped, TurnRec, TurnShows
<1>3. PICK x \in MessageRec, run \in RunRec :
        /\ x.role = "assistant" /\ x.n = turn.n /\ x.at = turn.saving /\ messages' = messages \cup {x}
        /\ run.n = turn.n /\ run.saved = projectRevision + 1 /\ run.tokens = NoTokens
        /\ runRows' = runRows \cup {run}
        /\ projectRevision' = projectRevision + 1 /\ clock' = clock
  BY <1>1, <1>2, Stores
<1>4. PICK r \in Nat : r = projectRevision + 1
  BY <1>2
<1>5. /\ turn'.n = turn.n /\ turn'.pc = "asking" /\ turn'.text = turn.text
      /\ turn'.saving = 0 /\ turn'.saved = r /\ turn' \in TurnRec(turn'.history, turn'.sent)
  BY <1>1, <1>2, <1>4 DEF TurnRec
<1>6. ChatTyped'
  BY <1>1, <1>2, <1>3, <1>4, <1>5 DEF ChatTyped
<1>7. AnswersInOrder'
  <2>1. \A m \in messages : m.role = "assistant" /\ x.n > m.n => x.at > m.at
    BY <1>1, <1>3 DEF ChatInv, AnswersInOrder, InOrder
  <2>2. \A s \in left : x.n > s.n => x.at > s.at
    BY <1>1, <1>3 DEF ChatInv, AnswersInOrder, InOrder
  <2>3. InOrder(x.n, x.at)
    BY <1>1, <1>3 DEF ChatInv, AnswersInOrder
  <2>4. x.at \in 1..clock' /\ clock <= clock' /\ x.n <= turn.n
    BY <1>2, <1>3
  <2> QED
    BY <1>1, <1>3, <1>5, <2>1, <2>2, <2>3, <2>4, Speaks
<1>8. TurnShows'
  <2>1. None("assistant", turn.n) /\ One("user", turn.n)
    BY <1>2 DEF ChatInv, TurnShows
  <2>2. One("user", turn.n)' /\ One("assistant", turn.n)'
    <3>1. PICK k : k = turn.n
      OBVIOUS
    <3>2. One("user", k)' /\ One("assistant", k)'
      BY <1>3, <2>1, <3>1, OneMore
    <3> QED
      BY <1>5, <3>1, <3>2
  <2>3. r > 0
    BY <1>2, <1>4
  <2> QED
    BY <1>1, <1>2, <1>5, <2>2, <2>3 DEF ChatInv, TurnShows
<1>9. OwnRun'
  BY <1>2, <1>3, <1>4, <1>5 DEF ChatTyped, OwnRun
<1> QED
  BY <1>6, <1>7, <1>8, <1>9

(* A save of the running request fails and adds nothing.                   *)
LEMMA SaveFailsKeepsChat ==
    ASSUME ChatInv, SaveFails
    PROVE  ChatTyped' /\ AnswersInOrder' /\ TurnShows' /\ OwnRun'
<1>1. /\ turn.saving > 0 /\ turn' = [turn EXCEPT !.saving = 0]
      /\ UNCHANGED <<messages, runRows, projectRevision, clock, meter, left, bill>>
  BY DEF SaveFails
<1>2. turn \in TurnRec(turn.history, turn.sent) /\ turn.pc = "asking" /\ clock \in Nat
  BY <1>1 DEF ChatInv, ChatTyped
<1>3. /\ turn'.n = turn.n /\ turn'.pc = "asking" /\ turn'.text = turn.text
      /\ turn'.saving = 0 /\ turn'.saved = turn.saved /\ turn' \in TurnRec(turn'.history, turn'.sent)
  BY <1>1, <1>2 DEF TurnRec
<1>4. ChatTyped'
  BY <1>1, <1>2, <1>3 DEF ChatInv, ChatTyped
<1>5. AnswersInOrder'
  BY <1>1, <1>3 DEF ChatInv, AnswersInOrder, InOrder
<1>6. TurnShows'
  <2>1. bill.n = 0 /\ (\A s \in left : s.n < turn.n) /\ One("user", turn.n)
        /\ (turn.saved = 0 => None("assistant", turn.n)) /\ (turn.saved > 0 => One("assistant", turn.n))
    BY <1>2 DEF ChatInv, TurnShows
  <2>2. (One("user", turn.n) => One("user", turn.n)') /\ (One("assistant", turn.n) => One("assistant", turn.n)')
        /\ (None("assistant", turn.n) => None("assistant", turn.n)')
    BY <1>1, <1>3 DEF One, None
  <2> QED
    BY <1>1, <1>3, <2>1, <2>2 DEF TurnShows
<1>7. OwnRun'
  BY <1>1, <1>3 DEF ChatInv, OwnRun
<1> QED
  BY <1>4, <1>5, <1>6, <1>7

(* A save that was left behind commits beside a later request, dated       *)
(* before it.                                                              *)
LEMMA CommitLeftKeepsChat ==
    ASSUME ChatInv, NEW s \in left, CommitLeft(s)
    PROVE  ChatTyped' /\ AnswersInOrder' /\ TurnShows' /\ OwnRun'
<1>1. left' = left \ {s} /\ UNCHANGED <<turn, meter, bill>>
  BY DEF CommitLeft
<1>2. /\ clock \in Nat /\ s \in SaveRec /\ s.n \in 1..MaxTurns /\ s.at \in 1..clock /\ s.n <= turn.n
      /\ turn \in TurnRec(turn.history, turn.sent) /\ turn.n \in Nat /\ projectRevision \in Nat \ {0} /\ ChatTyped
  BY CallsAssumption DEF ChatInv, ChatTyped, SaveRec, TurnRec
<1>3. CASE UNCHANGED <<messages, runRows, projectRevision, clock>>
  <2>1. ChatTyped'
    BY <1>1, <1>3 DEF ChatInv, ChatTyped
  <2>2. AnswersInOrder'
    BY <1>1, <1>3 DEF ChatInv, AnswersInOrder, InOrder
  <2>3. TurnShows' /\ OwnRun'
    BY <1>1, <1>3 DEF ChatInv, TurnShows, One, None, OwnRun
  <2> QED
    BY <2>1, <2>2, <2>3
<1>4. CASE Store(s.n, s.expected, s.at)
  <2>1. PICK x \in MessageRec, run \in RunRec :
          /\ x.role = "assistant" /\ x.n = s.n /\ x.at = s.at /\ messages' = messages \cup {x}
          /\ run.n = s.n /\ run.saved = projectRevision + 1 /\ run.tokens = NoTokens
          /\ runRows' = runRows \cup {run}
          /\ projectRevision' = projectRevision + 1 /\ clock' = clock
    BY <1>2, <1>4, Stores
  <2>2. ChatTyped'
    <3>1. projectRevision + 1 \in Nat \ {0} /\ projectRevision + 1 \in 2..(projectRevision + 1)
          /\ turn.saved \in Nat /\ turn.saved <= projectRevision + 1
      BY <1>2 DEF ChatTyped, TurnRec
    <3>2. runRows' \subseteq RunRec /\ \A k \in runRows' : k.saved \in 2..projectRevision'
      BY <1>2, <2>1, <3>1 DEF ChatTyped
    <3>3. messages' \subseteq MessageRec /\ \A m \in messages' : m.at \in 1..clock' /\ m.n <= turn'.n
      BY <1>1, <1>2, <2>1 DEF ChatTyped
    <3>4. left' \subseteq SaveRec /\ \A t \in left' : t.at \in 1..clock' /\ t.n <= turn'.n
      BY <1>1, <1>2, <2>1 DEF ChatTyped
    <3> QED
      BY <1>1, <1>2, <2>1, <3>1, <3>2, <3>3, <3>4 DEF ChatTyped
  <2>3. AnswersInOrder'
    <3>1. \A m \in messages : m.role = "assistant" /\ x.n > m.n => x.at > m.at
      BY <2>1 DEF ChatInv, AnswersInOrder, InOrder
    <3>2. \A t \in left' : x.n > t.n => x.at > t.at
      BY <1>1, <2>1 DEF ChatInv, AnswersInOrder, InOrder
    <3>3. InOrder(x.n, x.at) /\ x.at \in 1..clock' /\ clock <= clock' /\ x.n <= turn.n /\ x.n \in Nat
      BY <1>2, <2>1, CallsAssumption DEF ChatInv, AnswersInOrder
    <3> QED
      BY <1>1, <1>2, <2>1, <3>1, <3>2, <3>3, Speaks
  <2>4. TurnShows'
    <3>1. turn.pc # "idle" \/ bill.n > 0 => x.n # turn.n
      BY <1>2, <2>1, CallsAssumption DEF ChatInv, TurnShows
    <3>2. PICK k : k = turn.n
      OBVIOUS
    <3>3. ASSUME NEW speaker \in Speakers, x.n # k
          PROVE  (One(speaker, turn.n) => One(speaker, turn.n)') /\ (None(speaker, turn.n) => None(speaker, turn.n)')
      <4>1. (One(speaker, k) => One(speaker, k)') /\ (None(speaker, k) => None(speaker, k)')
        BY <2>1, <3>3, OneMore
      <4>2. turn'.n = k
        BY <1>1, <3>2
      <4> QED
        BY <3>2, <4>1, <4>2
    <3>4. \A t \in left' : t \in left
      BY <1>1
    <3>5. CASE turn.pc = "idle" /\ ~(bill.n > 0)
      BY <1>1, <3>5 DEF TurnShows
    <3>6. CASE turn.pc # "idle" \/ bill.n > 0
      <4>1. x.n # k /\ "user" \in Speakers /\ "assistant" \in Speakers
        BY <3>1, <3>2, <3>6 DEF Speakers
      <4>2. /\ One("user", turn.n) => One("user", turn.n)'
            /\ One("assistant", turn.n) => One("assistant", turn.n)'
            /\ None("user", turn.n) => None("user", turn.n)'
            /\ None("assistant", turn.n) => None("assistant", turn.n)'
        BY <3>3, <4>1
      <4> QED
        BY <1>1, <3>4, <3>6, <4>2 DEF ChatInv, TurnShows
    <3> QED
      BY <3>5, <3>6
  <2>5. OwnRun'
    BY <1>1, <1>2, <2>1 DEF ChatInv, ChatTyped, OwnRun, TurnRec
  <2> QED
    BY <2>2, <2>3, <2>4, <2>5
<1> QED
  BY <1>3, <1>4 DEF CommitLeft

(* A generation ends: its tokens are written and it is charged.            *)
LEMMA EndGenerationKeepsChat ==
    ASSUME ChatInv, EndGeneration
    PROVE  ChatTyped' /\ AnswersInOrder' /\ TurnShows' /\ OwnRun'
<1>1. PICK t : t = Tokens(meter)
  OBVIOUS
<1>2. /\ turn.pc = "asking" /\ turn.saved > 0 /\ Charge /\ turn' = NoTurn(turn.n)
      /\ \/ runRows' = (runRows \ RowsOfSave) \cup {[run EXCEPT !.tokens = t] : run \in RowsOfSave}
         \/ runRows' = runRows
      /\ UNCHANGED <<messages, projectRevision, clock, left>>
  BY <1>1 DEF EndGeneration
<1>3. /\ turn'.n = turn.n /\ turn'.pc = "idle" /\ turn'.saving = 0 /\ turn'.saved = 0
      /\ turn' \in TurnRec(turn'.history, turn'.sent) /\ bill'.n = turn.n /\ turn.n \in 1..MaxTurns
      /\ turn.saving = 0
  BY <1>2, EndedTurn, CallsAssumption DEF ChatInv, ChatTyped, Charge, TurnRec
<1>4. t \in [input : Nat \cup {Unknown}, output : Nat \cup {Unknown}]
  BY <1>1 DEF ChatInv, BillInv, Tokens, NoTokens, MeterRec
<1>5. runRows' \subseteq RunRec /\ \A run \in runRows' : run.saved \in 2..projectRevision
  <2>1. ASSUME NEW run \in RowsOfSave, NEW k, k = [run EXCEPT !.tokens = t]
        PROVE  k \in RunRec /\ k.saved \in 2..projectRevision
    BY <1>4, <2>1 DEF RowsOfSave, ChatInv, ChatTyped, RunRec
  <2> QED
    BY <1>2, <2>1 DEF ChatInv, ChatTyped
<1>6. ChatTyped'
  BY <1>2, <1>3, <1>5, CallsAssumption DEF ChatInv, ChatTyped
<1>7. AnswersInOrder'
  BY <1>2, <1>3 DEF ChatInv, AnswersInOrder, InOrder
<1>8. TurnShows'
  <2>1. One("user", turn.n) /\ One("assistant", turn.n) /\ \A s \in left : s.n < turn.n
    BY <1>2 DEF ChatInv, TurnShows
  <2>2. One("user", turn.n)' /\ One("assistant", turn.n)'
    BY <1>2, <1>3, <2>1 DEF One
  <2> QED
    BY <1>2, <1>3, <2>1, <2>2 DEF TurnShows
<1>9. OwnRun'
  BY <1>3, <1>5 DEF ChatInv, ChatTyped, OwnRun
<1> QED
  BY <1>6, <1>7, <1>8, <1>9

(* A plain answer is added and charged.                                    *)
LEMMA EndChatKeepsChat ==
    ASSUME ChatInv, EndChat
    PROVE  ChatTyped' /\ AnswersInOrder' /\ TurnShows' /\ OwnRun'
<1>1. PICK x : x = [role |-> "assistant", text |-> Reply, n |-> turn.n, at |-> clock + 1]
  OBVIOUS
<1>2. /\ turn.pc = "asking" /\ turn.saved = 0 /\ turn.saving = 0 /\ clock' = clock + 1
      /\ messages' = messages \cup {x} /\ Charge /\ turn' = NoTurn(turn.n)
      /\ UNCHANGED <<runRows, projectRevision, left>>
  BY <1>1 DEF EndChat, Say
<1>3. /\ turn'.n = turn.n /\ turn'.pc = "idle" /\ turn'.saving = 0 /\ turn'.saved = 0
      /\ turn' \in TurnRec(turn'.history, turn'.sent) /\ bill'.n = turn.n /\ turn.n \in 1..MaxTurns
      /\ clock \in Nat
  BY <1>2, EndedTurn, CallsAssumption DEF ChatInv, ChatTyped, Charge, TurnRec
<1>4. x \in MessageRec /\ x.role = "assistant" /\ x.n = turn.n /\ x.at = clock + 1
  BY <1>1, <1>3 DEF MessageRec, Speakers
<1>5. ChatTyped'
  BY <1>2, <1>3, <1>4, CallsAssumption DEF ChatInv, ChatTyped
<1>6. AnswersInOrder'
  <2>1. /\ x.at \in 1..clock' /\ clock <= clock' /\ x.n <= turn.n
        /\ \A m \in messages : x.at > m.at
        /\ \A t \in left' : x.at > t.at
    BY <1>2, <1>3, <1>4, CallsAssumption DEF ChatInv, ChatTyped
  <2>2. InOrder(x.n, x.at)
    <3>1. \E m \in messages : m.role = "user" /\ m.n = turn.n
      BY <1>2 DEF ChatInv, TurnShows, One
    <3> QED
      BY <1>2, <1>3, <1>4, <2>1, <3>1, CallsAssumption DEF ChatInv, ChatTyped, InOrder, MessageRec, SaveRec
  <2> QED
    BY <1>2, <1>3, <1>4, <2>1, <2>2, Speaks
<1>7. TurnShows'
  <2>1. None("assistant", turn.n) /\ One("user", turn.n) /\ \A s \in left : s.n < turn.n
    BY <1>2 DEF ChatInv, TurnShows
  <2>2. One("user", turn.n)' /\ One("assistant", turn.n)'
    <3>1. PICK k : k = turn.n
      OBVIOUS
    <3>2. One("user", k)' /\ One("assistant", k)'
      BY <1>2, <1>4, <2>1, <3>1, OneMore
    <3> QED
      BY <1>3, <3>1, <3>2
  <2> QED
    BY <1>2, <1>3, <2>1, <2>2 DEF TurnShows
<1>8. OwnRun'
  BY <1>2, <1>3 DEF ChatInv, ChatTyped, OwnRun
<1> QED
  BY <1>5, <1>6, <1>7, <1>8

(* A request ends with no charge; a save still under way is left behind.   *)
LEMMA EndWithoutKeepsChat ==
    ASSUME ChatInv, EndWithout
    PROVE  ChatTyped' /\ AnswersInOrder' /\ TurnShows' /\ OwnRun'
<1>1. PICK s : s = [n |-> turn.n, expected |-> turn.expected, at |-> turn.saving]
  OBVIOUS
<1>2. /\ turn.pc # "idle" /\ turn' = NoTurn(turn.n)
      /\ left' = IF turn.saving = 0 THEN left ELSE left \cup {s}
      /\ UNCHANGED <<messages, runRows, projectRevision, clock, bill>>
  BY <1>1 DEF EndWithout
<1>3. /\ turn'.n = turn.n /\ turn'.pc = "idle" /\ turn'.saving = 0 /\ turn'.saved = 0
      /\ turn' \in TurnRec(turn'.history, turn'.sent) /\ turn.n \in 1..MaxTurns
      /\ clock \in Nat /\ bill.n = 0 /\ turn.saving \in 0..clock /\ turn.expected \in Nat
  BY <1>2, EndedTurn, CallsAssumption DEF ChatInv, ChatTyped, TurnRec, TurnShows
<1>4. s \in SaveRec /\ s.n = turn.n /\ s.at = turn.saving
  BY <1>1, <1>3 DEF SaveRec
<1>5. ChatTyped'
  BY <1>2, <1>3, <1>4, CallsAssumption DEF ChatInv, ChatTyped
<1>6. AnswersInOrder'
  <2>1. \A n \in Nat, at \in Nat : InOrder(n, at) => InOrder(n, at)'
    BY <1>2, <1>3, <1>4 DEF InOrder
  <2>2. /\ \A m \in messages : m.n \in Nat /\ m.at \in Nat
        /\ \A t \in left' : t.n \in Nat /\ t.at \in Nat /\ InOrder(t.n, t.at)
    BY <1>2, <1>3, <1>4, CallsAssumption DEF ChatInv, ChatTyped, MessageRec, SaveRec, AnswersInOrder
  <2> QED
    BY <1>2, <1>3, <2>1, <2>2 DEF ChatInv, AnswersInOrder
<1>7. TurnShows' /\ OwnRun'
  BY <1>2, <1>3 DEF ChatInv, ChatTyped, TurnShows, OwnRun
<1> QED
  BY <1>5, <1>6, <1>7

(* Every step keeps the invariant.                                         *)
LEMMA ChatIsKept == ChatInv /\ [ChatNext]_chatVars => ChatInv'
<1> SUFFICES ASSUME ChatInv, [ChatNext]_chatVars PROVE ChatInv'
  OBVIOUS
<1>1. BillInv'
  BY BillIsKept DEF ChatInv
<1>2. CASE UNCHANGED chatVars
  <2>1. UNCHANGED <<messages, runRows, projectRevision, clock, turn, left, bill>>
    BY <1>2 DEF chatVars
  <2> QED
    BY <1>1, <2>1, ZenonT(30) DEF ChatInv, ChatTyped, AnswersInOrder, InOrder, TurnShows, One, None, OwnRun
<1>3. CASE ChatNext
  <2>1. ChatTyped' /\ AnswersInOrder' /\ TurnShows' /\ OwnRun'
    BY <1>3, BeginKeepsChat, SaveMessageKeepsChat, CallAnswersKeepsChat, StartSaveKeepsChat, CommitFilmKeepsChat,
       SaveFailsKeepsChat, CommitLeftKeepsChat, EndGenerationKeepsChat, EndChatKeepsChat, EndWithoutKeepsChat
       DEF ChatNext
  <2> QED
    BY <1>1, <2>1 DEF ChatInv
<1> QED
  BY <1>2, <1>3

(* What the invariant says to the reader of a chat.                        *)
LEMMA ChatInvMeans == ChatInv => ChatTypeOK /\ RepliesFollowTheirRequest /\ ChargedTurnsAreAnswered
<1> SUFFICES ASSUME ChatInv PROVE ChatTypeOK /\ RepliesFollowTheirRequest /\ ChargedTurnsAreAnswered
  OBVIOUS
<1>1. ChatTypeOK
  <2>1. messages \subseteq [role : Speakers, text : Sayings \cup {Reply}, n : 1..MaxTurns, at : 1..clock]
    BY DEF ChatInv, ChatTyped, MessageRec
  <2>2. runRows \subseteq [saved : 2..projectRevision, n : 1..MaxTurns,
                          tokens : [input : Nat \cup {Unknown}, output : Nat \cup {Unknown}]]
    BY DEF ChatInv, ChatTyped, RunRec
  <2>3. turn.n \in 0..MaxTurns /\ turn.pc \in {"idle", "read", "asking"}
    BY DEF ChatInv, ChatTyped, TurnRec
  <2>4. /\ {meter.input, meter.output} \subseteq Nat
        /\ meter.unreported \in 0..meter.calls /\ meter.calls \in 0..MaxCalls /\ bill.units \in 0..MaxCharge
    BY CallsAssumption DEF ChatInv, BillInv, MeterRec
  <2> QED
    BY <2>1, <2>2, <2>3, <2>4 DEF ChatInv, ChatTyped, ChatTypeOK
<1>2. RepliesFollowTheirRequest
  BY DEF ChatInv, AnswersInOrder, InOrder, RepliesFollowTheirRequest
<1>3. ChargedTurnsAreAnswered
  <2> SUFFICES ASSUME bill.n > 0, NEW speaker \in Speakers
               PROVE  Cardinality({m \in messages : m.n = bill.n /\ m.role = speaker}) = 1
    BY DEF ChargedTurnsAreAnswered
  <2>1. One(speaker, turn.n) /\ bill.n = turn.n
    BY DEF ChatInv, TurnShows, Speakers
  <2>2. PICK m : {x \in messages : x.n = bill.n /\ x.role = speaker} = {m}
    BY <2>1 DEF One
  <2> QED
    BY <2>2, FS_Singleton
<1> QED
  BY <1>1, <1>2, <1>3

(* Only the end of a generation rewrites a row, and it writes its own.     *)
LEMMA TokensGoToTheirRun ==
    ASSUME ChatInv, [ChatNext]_chatVars
    PROVE  [\A run \in runRows : run \notin runRows' =>
              /\ run.n = turn.n /\ run.tokens = NoTokens
              /\ [run EXCEPT !.tokens = Tokens(meter)] \in runRows']_chatVars
<1> SUFFICES ASSUME NEW run \in runRows, run \notin runRows'
             PROVE  /\ run.n = turn.n /\ run.tokens = NoTokens
                    /\ [run EXCEPT !.tokens = Tokens(meter)] \in runRows'
  OBVIOUS
<1>1. ~(runRows \subseteq runRows')
  OBVIOUS
<1>2. ChatNext
  BY <1>1 DEF chatVars
<1>3. EndGeneration
  BY <1>1, <1>2
     DEF ChatNext, BeginTurn, SaveMessage, CallAnswers, StartSave, CommitFilm, SaveFails, CommitLeft, Store, EndChat,
         EndWithout
<1>4. run \in RowsOfSave /\ [run EXCEPT !.tokens = Tokens(meter)] \in runRows'
  BY <1>3 DEF EndGeneration
<1>5. run.n = turn.n /\ run.tokens = NoTokens
  BY <1>4 DEF ChatInv, OwnRun, RowsOfSave
<1> QED
  BY <1>4, <1>5

-----------------------------------------------------------------------------
(* What is sent to the model.  A turn is what one side said in one go.     *)
Words == Sayings \cup {Reply}
Turns == [role : Speakers, text : Seq(Words)]

TextsOf(turns) == [i \in 1..Len(turns) |-> turns[i].text]

LEMMA TextsAreTyped ==
    ASSUME NEW turns \in Seq(Turns)
    PROVE  TextsOf(turns) \in Seq(Seq(Words)) /\ Len(TextsOf(turns)) = Len(turns)
<1>0. PICK A : A = Seq(Words)
  OBVIOUS
<1>1. PICK n \in Nat : n = Len(turns)
  BY LenProperties
<1>2. ASSUME NEW i \in 1..n PROVE turns[i].text \in A
  <2>1. turns[i] \in Turns
    BY <1>1, ElementOfSeq
  <2> QED
    BY <1>0, <2>1 DEF Turns
<1>3. TextsOf(turns) \in [1..n -> A]
  BY <1>1, <1>2 DEF TextsOf
<1> QED
  BY <1>0, <1>1, <1>3

LEMMA SpokenIsFlat ==
    ASSUME NEW turns \in Seq(Turns)
    PROVE  Spoken(turns) = FlattenSeq(TextsOf(turns)) /\ Spoken(turns) \in Seq(Words)
<1>1. DOMAIN turns = 1..Len(turns)
  BY LenProperties
<1>2. Spoken(turns) = FlattenSeq(TextsOf(turns))
  BY <1>1 DEF Spoken, TextsOf
<1>3. FlattenSeq(TextsOf(turns)) \in Seq(Words)
  <2>1. TextsOf(turns) \in Seq(Seq(Words))
    BY TextsAreTyped
  <2> QED
    BY <2>1, FlattenIsTyped
<1> QED
  BY <1>2, <1>3

(* Another turn is spoken last,                                            *)
LEMMA SpokenWithTurn ==
    ASSUME NEW turns \in Seq(Turns), NEW t \in Turns
    PROVE  /\ Append(turns, t) \in Seq(Turns)
           /\ Spoken(Append(turns, t)) = Spoken(turns) \o t.text
<1>1. PICK n \in Nat : n = Len(turns)
  BY LenProperties
<1>2. PICK more \in Seq(Turns) : more = Append(turns, t)
  BY AppendProperties
<1>3. Len(more) = n + 1 /\ more[n + 1] = t /\ \A i \in 1..n : more[i] = turns[i]
  BY <1>1, <1>2, AppendProperties
<1>4. PICK texts \in Seq(Seq(Words)), all \in Seq(Seq(Words)), x \in Seq(Words) :
        texts = TextsOf(turns) /\ all = TextsOf(more) /\ x = t.text
  BY TextsAreTyped DEF Turns
<1>5. all = Append(texts, x)
  <2>1. PICK A : A = Seq(Words)
    OBVIOUS
  <2>2. Len(texts) = n /\ Len(all) = n + 1
    BY <1>1, <1>3, <1>4, TextsAreTyped
  <2>3. PICK b \in Seq(A) : b = Append(texts, x)
    BY <1>4, <2>1, AppendProperties
  <2>4. Len(b) = n + 1 /\ b[n + 1] = x /\ \A i \in 1..n : b[i] = texts[i]
    BY <1>4, <2>1, <2>2, <2>3, AppendProperties
  <2>5. ASSUME NEW i \in 1..(n + 1) PROVE all[i] = b[i]
    <3>1. all[i] = more[i].text
      BY <1>3, <1>4 DEF TextsOf
    <3>2. CASE i = n + 1
      BY <1>3, <1>4, <2>4, <3>1, <3>2
    <3>3. CASE i # n + 1
      <4>1. i \in 1..n
        BY <3>3
      <4>2. texts[i] = turns[i].text
        BY <1>1, <1>4, <4>1 DEF TextsOf
      <4> QED
        BY <1>3, <2>4, <3>1, <4>1, <4>2
    <3> QED
      BY <3>2, <3>3
  <2>6. all \in Seq(A)
    BY <1>4, <2>1
  <2> QED
    BY <2>2, <2>3, <2>4, <2>5, <2>6, SeqEqual
<1>6. FlattenSeq(all) = FlattenSeq(texts) \o x
  BY <1>5, FlattenOfAppend
<1> QED
  BY <1>2, <1>4, <1>6, SpokenIsFlat

(* and the first turn first.                                               *)
LEMMA SpokenFromFirst ==
    ASSUME NEW turns \in Seq(Turns), turns # <<>>
    PROVE  /\ Tail(turns) \in Seq(Turns)
           /\ Spoken(turns) = turns[1].text \o Spoken(Tail(turns))
<1>1. PICK n \in Nat \ {0} : n = Len(turns)
  BY EmptySeq
<1>2. PICK rest \in Seq(Turns) : rest = Tail(turns)
  BY HeadTailProperties
<1>3. Len(rest) = n - 1 /\ \A i \in 1..(n - 1) : rest[i] = turns[i + 1]
  BY <1>1, <1>2, HeadTailProperties
<1>4. PICK all \in Seq(Seq(Words)), texts \in Seq(Seq(Words)) : all = TextsOf(turns) /\ texts = TextsOf(rest)
  BY TextsAreTyped
<1>5. Len(all) = n /\ Len(texts) = n - 1
  BY <1>1, <1>3, <1>4, TextsAreTyped
<1>6. all # <<>>
  BY <1>1, <1>5
<1>7. texts = Tail(all)
  <2>1. PICK A : A = Seq(Words)
    OBVIOUS
  <2>2. PICK b \in Seq(A) : b = Tail(all)
    BY <1>6, <2>1, HeadTailProperties
  <2>3. Len(b) = n - 1 /\ \A i \in 1..(n - 1) : b[i] = all[i + 1]
    BY <1>4, <1>5, <1>6, <2>1, <2>2, HeadTailProperties
  <2>4. ASSUME NEW i \in 1..(n - 1) PROVE texts[i] = b[i]
    <3>1. texts[i] = rest[i].text
      BY <1>3, <1>4 DEF TextsOf
    <3>2. i + 1 \in 1..n
      BY <1>1
    <3>3. all[i + 1] = turns[i + 1].text
      BY <1>1, <1>4, <3>2 DEF TextsOf
    <3> QED
      BY <1>3, <2>3, <3>1, <3>3
  <2>5. texts \in Seq(A)
    BY <1>4, <2>1
  <2> QED
    BY <1>5, <2>2, <2>3, <2>4, <2>5, SeqEqual
<1>8. FlattenSeq(all) = all[1] \o FlattenSeq(Tail(all))
  BY <1>6, FlattenOfFirst
<1>9. all[1] = turns[1].text
  BY <1>1, <1>4 DEF TextsOf
<1> QED
  BY <1>2, <1>4, <1>7, <1>8, <1>9, SpokenIsFlat

(* The last turn apart from the others.                                    *)
LEMMA FrontAndLast ==
    ASSUME NEW A, NEW s \in Seq(A), s # <<>>
    PROVE  /\ Front(s) \in Seq(A) /\ Last(s) \in A /\ Last(s) = s[Len(s)]
           /\ Len(Front(s)) = Len(s) - 1 /\ \A i \in 1..(Len(s) - 1) : Front(s)[i] = s[i]
           /\ s = Append(Front(s), Last(s))
<1>1. PICK n \in Nat \ {0} : n = Len(s)
  BY EmptySeq
<1>2. Last(s) = s[n] /\ s[n] \in A
  <2>1. n \in 1..Len(s)
    BY <1>1
  <2> QED
    BY <1>1, <2>1, ElementOfSeq DEF Last
<1>3. Front(s) = SubSeq(s, 1, n - 1)
  BY <1>1 DEF Front
<1>4. /\ Front(s) \in Seq(A) /\ Len(Front(s)) = n - 1 /\ \A i \in 1..(n - 1) : Front(s)[i] = s[i]
  <2>1. \A i \in 1..(n - 1) : s[i] \in A
    BY <1>1, ElementOfSeq
  <2>2. /\ SubSeq(s, 1, n - 1) \in Seq(A)
        /\ Len(SubSeq(s, 1, n - 1)) = IF 1 <= n - 1 THEN (n - 1) - 1 + 1 ELSE 0
        /\ \A i \in 1..((n - 1) - 1 + 1) : SubSeq(s, 1, n - 1)[i] = s[1 + i - 1]
    BY <1>1, <2>1, SubSeqProperties
  <2> QED
    BY <1>1, <1>3, <2>2
<1>5. s = Append(Front(s), Last(s))
  <2>1. PICK f \in Seq(A), l \in A : f = Front(s) /\ l = Last(s)
    BY <1>2, <1>4
  <2>2. PICK b \in Seq(A) : b = Append(f, l)
    BY AppendProperties
  <2>3. Len(b) = n /\ b[n] = l /\ \A i \in 1..(n - 1) : b[i] = f[i]
    <3>1. Len(f) = n - 1
      BY <1>4, <2>1
    <3>2. Len(b) = Len(f) + 1 /\ b[Len(f) + 1] = l /\ \A i \in 1..Len(f) : b[i] = f[i]
      BY <2>2, AppendProperties
    <3> QED
      BY <1>1, <3>1, <3>2
  <2>4. ASSUME NEW i \in 1..n PROVE s[i] = b[i]
    <3>1. CASE i = n
      BY <1>2, <2>1, <2>3, <3>1
    <3>2. CASE i # n
      <4>1. i \in 1..(n - 1)
        BY <3>2
      <4> QED
        BY <1>4, <2>1, <2>3, <4>1
    <3> QED
      BY <3>1, <3>2
  <2> QED
    BY <1>1, <2>1, <2>2, <2>3, <2>4, SeqEqual
<1> QED
  BY <1>1, <1>2, <1>4, <1>5

-----------------------------------------------------------------------------
(* JoinRuns: the turns so far.                                             *)
Joining(f, history) ==
    f = [n \in 0..Len(history) |-> IF n = 0 THEN <<>> ELSE WithMessage(f[n - 1], history[n])]

LEMMA JoinUnfolds ==
    ASSUME NEW history
    PROVE  JoinRuns(history) = (CHOOSE f : Joining(f, history))[Len(history)]
BY DEF JoinRuns, Joining

(* The two sides alternate.                                                *)
Alternate(turns) == \A i \in 2..Len(turns) : turns[i].role # turns[i - 1].role

(* What a message makes of the turns before it.                            *)
Joins(turns, m, next) ==
    /\ next \in Seq(Turns) /\ next # <<>> /\ Last(next).role = m.role
    /\ Spoken(next) = Append(Spoken(turns), m.text)
    /\ Alternate(turns) => Alternate(next)
    /\ turns = <<>> =>
         Len(next) = 1 /\ next[1].role = m.role /\ next[1].text = <<m.text>>
    /\ turns # <<>> =>
         /\ next[1].role = turns[1].role
         /\ Last(turns).role # m.role => Len(next) = Len(turns) + 1 /\ next[1] = turns[1]
         /\ Last(turns).role = m.role =>
              /\ Len(next) = Len(turns)
              /\ Len(turns) = 1 => Len(next[1].text) = Len(turns[1].text) + 1
              /\ Len(turns) > 1 => next[1] = turns[1]

(* A message goes on with its side's turn or begins one.                   *)
LEMMA MessageJoins ==
    ASSUME NEW turns \in Seq(Turns), NEW m \in MessageRec
    PROVE  Joins(turns, m, WithMessage(turns, m))
<1>0. PICK next : next = WithMessage(turns, m)
  OBVIOUS
<1> SUFFICES Joins(turns, m, next)
  BY <1>0
<1>1. m.role \in Speakers /\ m.text \in Words
  BY DEF MessageRec, Words
<1>2. PICK n \in Nat : n = Len(turns)
  BY LenProperties
<1>3. CASE turns # <<>> /\ Last(turns).role = m.role
  <2>1. n # 0
    BY <1>2, <1>3, EmptySeq
  <2>2. PICK front \in Seq(Turns), last \in Turns : front = Front(turns) /\ last = Last(turns)
    BY <1>3, FrontAndLast
  <2>3. /\ last = turns[n] /\ Len(front) = n - 1 /\ turns = Append(front, last)
        /\ \A i \in 1..(n - 1) : front[i] = turns[i]
    BY <1>2, <1>3, <2>2, FrontAndLast
  <2>4. PICK said \in Seq(Words) : said = last.text
    BY DEF Turns
  <2>5. PICK longer \in Seq(Words) : longer = Append(said, m.text)
    BY <1>1, AppendProperties
  <2>6. PICK t \in Turns : t = [last EXCEPT !.text = longer]
    BY DEF Turns
  <2>7. t.role = m.role /\ t.role = last.role /\ t.text = longer
    BY <1>3, <2>2, <2>6 DEF Turns
  <2>8. next = [turns EXCEPT ![n] = t]
    BY <1>0, <1>2, <1>3, <2>3, <2>4, <2>5, <2>6 DEF WithMessage
  <2>9. n \in 1..Len(turns)
    BY <1>2, <2>1
  <2>10. next \in Seq(Turns) /\ Len(next) = n /\ \A i \in 1..n : next[i] = IF i = n THEN t ELSE turns[i]
    BY <1>2, <2>8, <2>9, ExceptSeq
  <2>11. next = Append(front, t)
    <3>1. PICK b \in Seq(Turns) : b = Append(front, t)
      BY AppendProperties
    <3>2. Len(b) = n /\ b[n] = t /\ \A i \in 1..(n - 1) : b[i] = front[i]
      <4>1. Len(b) = Len(front) + 1 /\ b[Len(front) + 1] = t /\ \A i \in 1..Len(front) : b[i] = front[i]
        BY <3>1, AppendProperties
      <4> QED
        BY <2>3, <4>1
    <3>3. ASSUME NEW i \in 1..n PROVE next[i] = b[i]
      <4>1. CASE i = n
        BY <2>10, <3>2, <4>1
      <4>2. CASE i # n
        <5>1. i \in 1..(n - 1)
          BY <4>2
        <5> QED
          BY <2>3, <2>10, <3>2, <4>2, <5>1
      <4> QED
        BY <4>1, <4>2
    <3> QED
      BY <2>10, <3>1, <3>2, <3>3, SeqEqual
  <2>12. Spoken(next) = Append(Spoken(turns), m.text)
    <3>1. PICK before \in Seq(Words) : before = Spoken(front)
      BY SpokenIsFlat
    <3>2. Spoken(turns) = before \o said /\ Spoken(next) = before \o longer
      BY <2>3, <2>4, <2>7, <2>11, <3>1, SpokenWithTurn
    <3>3. before \o Append(said, m.text) = Append(before \o said, m.text)
      BY <1>1
    <3> QED
      BY <2>5, <3>2, <3>3
  <2>13. Alternate(turns) => Alternate(next)
    <3> SUFFICES ASSUME Alternate(turns), NEW i \in 2..n PROVE next[i].role # next[i - 1].role
      BY <2>10 DEF Alternate
    <3>1. turns[i].role # turns[i - 1].role /\ i \in 1..n /\ i - 1 \in 1..n /\ i - 1 # n
      BY <1>2 DEF Alternate
    <3>2. next[i].role = turns[i].role /\ next[i - 1] = turns[i - 1]
      BY <2>3, <2>7, <2>10, <3>1
    <3> QED
      BY <3>1, <3>2
  <2>14. Last(next).role = m.role /\ next # <<>>
    BY <2>1, <2>7, <2>9, <2>10 DEF Last
  <2>15. 1 \in 1..n /\ next[1].role = turns[1].role
    <3>1. 1 \in 1..n
      BY <2>1
    <3> QED
      BY <2>3, <2>7, <2>10, <3>1
  <2>16. n = 1 => Len(next[1].text) = Len(turns[1].text) + 1
    <3>1. Len(longer) = Len(said) + 1
      BY <1>1, <2>5, AppendProperties
    <3> QED
      BY <2>3, <2>4, <2>7, <2>10, <2>15, <3>1
  <2>17. n > 1 => next[1] = turns[1]
    BY <2>10, <2>15
  <2> QED
    BY <1>2, <1>3, <2>10, <2>12, <2>13, <2>14, <2>15, <2>16, <2>17 DEF Joins
<1>4. CASE ~(turns # <<>> /\ Last(turns).role = m.role)
  <2>1. PICK said \in Seq(Words) : said = <<m.text>>
    <3>1. PICK w \in Words : w = m.text
      BY <1>1
    <3>2. <<w>> \in Seq(Words)
      OBVIOUS
    <3> QED
      BY <3>1, <3>2
  <2>2. PICK t \in Turns : t = [role |-> m.role, text |-> said]
    BY <1>1, <2>1 DEF Turns
  <2>3. t.role = m.role /\ t.text = said
    BY <2>2
  <2>4. next = Append(turns, t)
    BY <1>0, <1>4, <2>1, <2>2 DEF WithMessage
  <2>5. /\ next \in Seq(Turns) /\ Len(next) = n + 1 /\ next[n + 1] = t
        /\ \A i \in 1..n : next[i] = turns[i]
    BY <1>2, <2>4, AppendProperties
  <2>6. Spoken(next) = Append(Spoken(turns), m.text)
    <3>1. PICK before \in Seq(Words) : before = Spoken(turns)
      BY SpokenIsFlat
    <3>2. Spoken(next) = before \o said
      BY <2>3, <2>4, <3>1, SpokenWithTurn
    <3>3. before \o <<m.text>> = Append(before, m.text)
      BY <1>1
    <3> QED
      BY <2>1, <3>1, <3>2, <3>3
  <2>7. Last(next).role = m.role /\ next # <<>>
    BY <1>2, <2>3, <2>5 DEF Last
  <2>8. CASE turns = <<>>
    <3>1. n = 0
      BY <1>2, <2>8
    <3>2. next[1] = t /\ Len(next) = 1
      BY <2>5, <3>1
    <3>3. Alternate(next)
      BY <3>2 DEF Alternate
    <3> QED
      BY <2>1, <2>3, <2>5, <2>6, <2>7, <2>8, <3>2, <3>3 DEF Joins
  <2>9. CASE turns # <<>>
    <3>1. n # 0 /\ Last(turns) = turns[n] /\ Last(turns).role # m.role
      BY <1>2, <1>4, <2>9, EmptySeq DEF Last
    <3>2. 1 \in 1..n /\ next[1] = turns[1]
      BY <2>5, <3>1
    <3>3. Alternate(turns) => Alternate(next)
      <4> SUFFICES ASSUME Alternate(turns), NEW i \in 2..(n + 1) PROVE next[i].role # next[i - 1].role
        BY <2>5 DEF Alternate
      <4>1. CASE i = n + 1
        <5>1. i - 1 = n /\ n \in 1..n
          BY <3>1, <4>1
        <5> QED
          BY <2>3, <2>5, <3>1, <4>1, <5>1
      <4>2. CASE i # n + 1
        <5>1. i \in 2..Len(turns) /\ i \in 1..n /\ i - 1 \in 1..n
          BY <1>2, <4>2
        <5>2. turns[i].role # turns[i - 1].role
          BY <5>1 DEF Alternate
        <5> QED
          BY <2>5, <5>1, <5>2
      <4> QED
        BY <4>1, <4>2
    <3> QED
      BY <1>2, <2>5, <2>6, <2>7, <2>9, <3>1, <3>2, <3>3 DEF Joins
  <2> QED
    BY <2>8, <2>9
<1> QED
  BY <1>3, <1>4

(* The joining of a history exists.                                        *)
LEMMA JoiningExists ==
    ASSUME NEW history \in Seq(MessageRec)
    PROVE  \E f \in [0..Len(history) -> Seq(Turns)] : Joining(f, history)
<1>1. PICK n \in Nat : n = Len(history)
  BY LenProperties
<1>2. PICK A : A = Seq(Turns)
  OBVIOUS
<1>3. PICK none \in A : none = <<>>
  BY <1>2, NothingIsASeq, Zenon
<1>4. PICK step \in [1..n -> [A -> A]] :
        \A i \in 1..n : \A x \in A : step[i][x] = WithMessage(x, history[i])
  <2>1. ASSUME NEW i \in 1..n, NEW x \in A PROVE WithMessage(x, history[i]) \in A
    <3>1. history[i] \in MessageRec
      BY <1>1, ElementOfSeq
    <3> QED
      BY <1>2, <3>1, MessageJoins DEF Joins
  <2> DEFINE st == [i \in 1..n |-> [x \in A |-> WithMessage(x, history[i])]]
  <2>2. st \in [1..n -> [A -> A]]
    BY <2>1
  <2> QED
    BY <2>2
<1>5. PICK f : Follows(f, n, A, none, step)
  BY GoesOn
<1>6. f \in [0..n -> A] /\ f[0] = none /\ \A i \in 1..n : f[i] = step[i][f[i - 1]]
  BY <1>5 DEF Follows
<1>7. ASSUME NEW i \in 1..n PROVE f[i] = WithMessage(f[i - 1], history[i])
  <2>1. f[i - 1] \in A
    BY <1>6
  <2> QED
    BY <1>4, <1>6, <2>1
<1>8. ASSUME NEW k \in 0..n PROVE f[k] = IF k = 0 THEN <<>> ELSE WithMessage(f[k - 1], history[k])
  <2>1. CASE k = 0
    BY <1>3, <1>6, <2>1
  <2>2. CASE k # 0
    <3>1. k \in 1..n
      BY <2>2
    <3> QED
      BY <1>7, <2>2, <3>1
  <2> QED
    BY <2>1, <2>2
<1>9. Joining(f, history)
  BY <1>1, <1>6, <1>8 DEF Joining
<1> QED
  BY <1>1, <1>2, <1>6, <1>9

LEMMA JoinsStepByStep ==
    ASSUME NEW history \in Seq(MessageRec), NEW n, n = Len(history)
    PROVE  \E f : /\ f[0] = <<>> /\ \A i \in 1..n : f[i] = WithMessage(f[i - 1], history[i])
                  /\ JoinRuns(history) = f[n]
<1>1. n \in Nat
  BY LenProperties
<1>2. PICK f : f = CHOOSE g : Joining(g, history)
  OBVIOUS
<1>3. Joining(f, history)
  BY <1>2, JoiningExists
<1>4. f = [k \in 0..n |-> IF k = 0 THEN <<>> ELSE WithMessage(f[k - 1], history[k])]
  BY <1>3 DEF Joining
<1>5. \A k \in 0..n : f[k] = IF k = 0 THEN <<>> ELSE WithMessage(f[k - 1], history[k])
  BY <1>4
<1>6. 0 \in 0..n /\ \A i \in 1..n : i \in 0..n /\ i # 0
  BY <1>1
<1>7. f[0] = <<>> /\ \A i \in 1..n : f[i] = WithMessage(f[i - 1], history[i])
  BY <1>5, <1>6
<1> QED
  BY <1>2, <1>7, JoinUnfolds

-----------------------------------------------------------------------------
(* The first message of the user, or the place behind the last message.    *)
FirstIs(history, n, first) ==
    /\ first \in 1..(n + 1)
    /\ \A j \in 1..(first - 1) : history[j].role = "assistant"
    /\ first <= n => history[first].role = "user"

LEMMA FirstOfUserIs ==
    ASSUME NEW history \in Seq(MessageRec), NEW n, n = Len(history)
    PROVE  FirstIs(history, n, FirstOfUser(history))
<1>1. n \in Nat /\ DOMAIN history = 1..n
  BY LenProperties
<1>2. ASSUME NEW i \in 1..n PROVE history[i].role \in {"user", "assistant"}
  <2>1. history[i] \in MessageRec
    BY ElementOfSeq
  <2> QED
    BY <2>1 DEF MessageRec, Speakers
<1> DEFINE T == {i \in 1..n : history[i].role = "user"}
<1>3. CASE T = {}
  <2>1. FirstOfUser(history) = n + 1
    BY <1>1, <1>3 DEF FirstOfUser
  <2>2. \A j \in 1..n : history[j].role = "assistant"
    BY <1>2, <1>3
  <2> QED
    BY <1>1, <2>1, <2>2 DEF FirstIs
<1>4. CASE T # {}
  <2>1. T \subseteq Nat
    BY <1>1
  <2>2. PICK i \in T : \A k \in T : i <= k
    <3> HIDE DEF T
    <3> QED
      BY <1>4, <2>1, LeastOf
  <2>3. i \in 1..n /\ history[i].role = "user" /\ \A j \in 1..(i - 1) : history[j].role = "assistant"
    <3>1. ASSUME NEW j \in 1..(i - 1) PROVE history[j].role = "assistant"
      <4>1. i \in 1..n
        BY <2>2
      <4>2. j \in 1..n /\ ~(i <= j)
        BY <1>1, <4>1
      <4> QED
        BY <1>2, <2>2, <4>2
    <3> QED
      BY <2>2, <3>1
  <2>4. PICK q : q = FirstOfUser(history)
    OBVIOUS
  <2>5. q \in 1..n /\ history[q].role = "user" /\ \A j \in 1..(q - 1) : history[j].role = "assistant"
    BY <1>1, <2>3, <2>4 DEF FirstOfUser
  <2>6. q \in 1..(n + 1)
    BY <1>1, <2>5
  <2> QED
    BY <2>4, <2>5, <2>6 DEF FirstIs
<1> QED
  BY <1>3, <1>4

LEMMA FirstIsOne ==
    ASSUME NEW history, NEW n \in Nat, NEW a, NEW b, FirstIs(history, n, a), FirstIs(history, n, b)
    PROVE  a = b
<1>1. a \in 1..(n + 1) /\ b \in 1..(n + 1)
  BY DEF FirstIs
<1>2. ~(a < b)
  <2> SUFFICES ASSUME a < b PROVE FALSE
    OBVIOUS
  <2>1. a \in 1..(b - 1) /\ a <= n
    BY <1>1
  <2> QED
    BY <2>1 DEF FirstIs
<1>3. ~(b < a)
  <2> SUFFICES ASSUME b < a PROVE FALSE
    OBVIOUS
  <2>1. b \in 1..(a - 1) /\ b <= n
    BY <1>1
  <2> QED
    BY <2>1 DEF FirstIs
<1> QED
  BY <1>1, <1>2, <1>3

-----------------------------------------------------------------------------
(* The texts of a history from one message to another.                     *)
TextsFrom(history, a, b) == [i \in 1..(b - a + 1) |-> history[a + i - 1].text]

(* What the turns of the first k messages are: the sides alternate, the    *)
(* texts are those of the messages, and the turn in front holds the        *)
(* replies before the first message of the user, if there are any.         *)
JoinedSoFar(turns, history, k, first) ==
    /\ turns \in Seq(Turns) /\ Alternate(turns)
    /\ Spoken(turns) = TextsFrom(history, 1, k)
    /\ k = 0 => turns = <<>>
    /\ k > 0 =>
         /\ turns # <<>> /\ Last(turns).role = history[k].role /\ turns[1].role = history[1].role
         /\ first > 1 /\ k < first => Len(turns) = 1 /\ Len(turns[1].text) = k
         /\ first > 1 /\ k >= first => Len(turns) > 1 /\ Len(turns[1].text) = first - 1

LEMMA NothingSpoken == Spoken(<<>>) = <<>>
<1>1. <<>> \in Seq(Turns)
  BY NothingIsASeq
<1>2. TextsOf(<<>>) = <<>>
  BY DEF TextsOf
<1>3. FlattenSeq(<<>>) = <<>>
  BY DEF FlattenSeq
<1> QED
  BY <1>1, <1>2, <1>3, SpokenIsFlat

LEMMA OneMoreText ==
    ASSUME NEW history, NEW n \in Nat, \A i \in 1..n : history[i].text \in Words,
           NEW k \in 1..n
    PROVE  TextsFrom(history, 1, k) = Append(TextsFrom(history, 1, k - 1), history[k].text)
<1>1. PICK s : s = TextsFrom(history, 1, k - 1)
  OBVIOUS
<1>2. PICK t : t = TextsFrom(history, 1, k)
  OBVIOUS
<1>3. s = [i \in 1..(k - 1) |-> history[i].text]
  BY <1>1 DEF TextsFrom
<1>4. t = [i \in 1..k |-> history[i].text]
  BY <1>2 DEF TextsFrom
<1>5. PICK w \in Words : w = history[k].text
  OBVIOUS
<1>6. s \in Seq(Words) /\ Len(s) = k - 1
  BY <1>3
<1>7. t \in Seq(Words) /\ Len(t) = k
  BY <1>4
<1>8. PICK u \in Seq(Words) : u = Append(s, w)
  BY <1>6, AppendProperties
<1>9. Len(u) = k /\ u[k] = w /\ \A i \in 1..(k - 1) : u[i] = s[i]
  <2>1. Len(u) = Len(s) + 1 /\ u[Len(s) + 1] = w /\ \A i \in 1..Len(s) : u[i] = s[i]
    BY <1>6, <1>8, AppendProperties
  <2> QED
    BY <1>6, <2>1
<1>10. ASSUME NEW i \in 1..k PROVE t[i] = u[i]
  <2>1. CASE i = k
    BY <1>4, <1>5, <1>9, <2>1
  <2>2. CASE i # k
    <3>1. i \in 1..(k - 1)
      BY <2>2
    <3> QED
      BY <1>3, <1>4, <1>9, <3>1
  <2> QED
    BY <2>1, <2>2
<1>11. t = u
  BY <1>7, <1>8, <1>9, <1>10, SeqEqual
<1> QED
  BY <1>1, <1>2, <1>5, <1>8, <1>11

LEMMA RunsAreJoined ==
    ASSUME NEW history \in Seq(MessageRec), NEW n, n = Len(history), NEW first, FirstIs(history, n, first)
    PROVE  JoinedSoFar(JoinRuns(history), history, n, first)
<1>1. n \in Nat
  BY LenProperties
<1>2. PICK f : /\ f[0] = <<>> /\ \A i \in 1..n : f[i] = WithMessage(f[i - 1], history[i])
               /\ JoinRuns(history) = f[n]
  BY JoinsStepByStep
<1>3. ASSUME NEW i \in 1..n PROVE history[i] \in MessageRec /\ history[i].text \in Words
  <2>1. history[i] \in MessageRec
    BY ElementOfSeq
  <2> QED
    BY <2>1 DEF MessageRec, Words
<1> DEFINE T == {k \in 0..n : JoinedSoFar(f[k], history, k, first)}
<1>4. 0 \in T
  <2>1. TextsFrom(history, 1, 0) = <<>>
    BY DEF TextsFrom
  <2>2. <<>> \in Seq(Turns)
    BY NothingIsASeq
  <2>3. Alternate(<<>>)
    BY DEF Alternate
  <2>4. JoinedSoFar(<<>>, history, 0, first)
    BY <2>1, <2>2, <2>3, NothingSpoken DEF JoinedSoFar
  <2> QED
    BY <1>1, <1>2, <2>4
<1>5. ASSUME NEW k \in 1..n, k - 1 \in T PROVE k \in T
  <2>0. first \in Nat
    BY <1>1 DEF FirstIs
  <2>1. PICK turns \in Seq(Turns) : turns = f[k - 1]
    BY <1>5 DEF JoinedSoFar
  <2>2. JoinedSoFar(turns, history, k - 1, first)
    BY <1>5, <2>1
  <2>3. PICK m \in MessageRec : m = history[k]
    BY <1>3
  <2>4. PICK next : next = f[k] /\ next = WithMessage(turns, m)
    BY <1>2, <2>1, <2>3
  <2>12. Joins(turns, m, next)
    BY <2>4, MessageJoins
  <2>13. k \in 0..n
    BY <1>1
  <2>5. /\ next \in Seq(Turns) /\ next # <<>> /\ Last(next).role = m.role
        /\ Spoken(next) = Append(Spoken(turns), m.text)
        /\ Alternate(turns) => Alternate(next)
    BY <2>12 DEF Joins
  <2>6. turns = <<>> => Len(next) = 1 /\ next[1].role = m.role /\ next[1].text = <<m.text>>
    BY <2>12 DEF Joins
  <2>7. turns # <<>> =>
          /\ next[1].role = turns[1].role
          /\ Last(turns).role # m.role => Len(next) = Len(turns) + 1 /\ next[1] = turns[1]
          /\ Last(turns).role = m.role =>
               /\ Len(next) = Len(turns)
               /\ Len(turns) = 1 => Len(next[1].text) = Len(turns[1].text) + 1
               /\ Len(turns) > 1 => next[1] = turns[1]
    BY <2>12 DEF Joins
  <2>8. Spoken(next) = TextsFrom(history, 1, k)
    <3>1. Spoken(turns) = TextsFrom(history, 1, k - 1)
      BY <2>2 DEF JoinedSoFar
    <3> QED
      BY <1>1, <1>3, <2>3, <2>5, <3>1, OneMoreText
  <2>9. Alternate(next)
    BY <2>2, <2>5 DEF JoinedSoFar
  <2>10. CASE k = 1
    <3>1. turns = <<>>
      BY <2>2, <2>10 DEF JoinedSoFar
    <3>2. Len(next) = 1 /\ next[1].role = history[1].role /\ next[1].text = <<m.text>>
      BY <2>3, <2>6, <2>10, <3>1
    <3>3. Len(next[1].text) = 1
      BY <3>2
    <3>4. k > 0 /\ (first > 1 => k < first)
      BY <2>0, <2>10
    <3>5. JoinedSoFar(next, history, k, first)
      BY <2>0, <2>3, <2>5, <2>8, <2>9, <2>10, <3>2, <3>3, <3>4 DEF JoinedSoFar
    <3> QED
      BY <2>4, <2>13, <3>5
  <2>11. CASE k # 1
    <3>1. k - 1 > 0 /\ k - 1 \in Nat
      BY <2>11
    <3>2. /\ turns # <<>> /\ Last(turns).role = history[k - 1].role /\ turns[1].role = history[1].role
          /\ first > 1 /\ k - 1 < first => Len(turns) = 1 /\ Len(turns[1].text) = k - 1
          /\ first > 1 /\ k - 1 >= first => Len(turns) > 1 /\ Len(turns[1].text) = first - 1
      BY <2>2, <3>1 DEF JoinedSoFar
    <3>3. next[1].role = history[1].role
      BY <2>7, <3>2
    <3>4. ASSUME first > 1, k < first PROVE Len(next) = 1 /\ Len(next[1].text) = k
      <4>1. k - 1 < first /\ k \in 1..(first - 1) /\ k - 1 \in 1..(first - 1)
        BY <2>0, <3>1, <3>4
      <4>2. history[k - 1].role = "assistant" /\ m.role = "assistant"
        BY <2>3, <4>1 DEF FirstIs
      <4>3. Len(turns) = 1 /\ Len(turns[1].text) = k - 1 /\ Last(turns).role = m.role
        BY <3>2, <3>4, <4>1, <4>2
      <4>4. Len(next) = 1 /\ Len(next[1].text) = (k - 1) + 1
        BY <2>7, <3>2, <4>3
      <4> QED
        BY <4>4
    <3>5. ASSUME first > 1, k >= first PROVE Len(next) > 1 /\ Len(next[1].text) = first - 1
      <4>1. Len(turns) \in Nat
        BY LenProperties
      <4>2. CASE k = first
        <5>1. k - 1 < first /\ k - 1 \in 1..(first - 1) /\ first <= n
          BY <2>0, <3>1, <4>2
        <5>2. history[k - 1].role = "assistant" /\ m.role = "user"
          BY <2>3, <4>2, <5>1 DEF FirstIs
        <5>3. Len(turns) = 1 /\ Len(turns[1].text) = k - 1 /\ Last(turns).role # m.role
          BY <3>2, <3>5, <5>1, <5>2
        <5>4. Len(next) = 2 /\ next[1] = turns[1]
          BY <2>7, <3>2, <5>3
        <5> QED
          BY <4>2, <5>3, <5>4
      <4>3. CASE k # first
        <5>1. k - 1 >= first
          BY <2>0, <3>5, <4>3
        <5>2. Len(turns) > 1 /\ Len(turns[1].text) = first - 1
          BY <3>2, <3>5, <5>1
        <5>3. next[1] = turns[1] /\ Len(next) >= Len(turns)
          BY <2>7, <3>2, <4>1, <5>2
        <5>4. Len(next) \in Nat
          BY <2>5, LenProperties
        <5> QED
          BY <4>1, <5>2, <5>3, <5>4
      <4> QED
        BY <4>2, <4>3
    <3>6. JoinedSoFar(next, history, k, first)
      BY <2>3, <2>5, <2>8, <2>9, <3>3, <3>4, <3>5 DEF JoinedSoFar
    <3> QED
      BY <2>4, <2>13, <3>6
  <2> QED
    BY <2>10, <2>11
<1>6. n \in T
  <2>1. \A k \in 0..n : k \in T
    <3> HIDE DEF T
    <3> QED
      BY <1>1, <1>4, <1>5, UpTo
  <2>2. n \in 0..n
    BY <1>1
  <2> HIDE DEF T
  <2> QED
    BY <2>1, <2>2
<1> QED
  BY <1>2, <1>6

(* Dropping the replies in front leaves what is said from the first        *)
(* message of the user on.                                                 *)
LEMMA RepliesAreDropped ==
    ASSUME NEW history \in Seq(MessageRec), NEW n, n = Len(history), NEW first, FirstIs(history, n, first),
           NEW kept, kept = DropReplies(JoinRuns(history))
    PROVE  /\ kept \in Seq(Turns) /\ Alternate(kept)
           /\ kept # <<>> => kept[1].role = "user"
           /\ Spoken(kept) = TextsFrom(history, first, n)
<1>1. n \in Nat /\ first \in 1..(n + 1)
  BY LenProperties DEF FirstIs
<1>2. PICK turns : turns = JoinRuns(history)
  OBVIOUS
<1>3. JoinedSoFar(turns, history, n, first)
  BY <1>2, RunsAreJoined
<1>4. turns \in Seq(Turns) /\ Alternate(turns) /\ Spoken(turns) = TextsFrom(history, 1, n)
  BY <1>3 DEF JoinedSoFar
<1>5. CASE n = 0
  <2>1. turns = <<>> /\ first = 1
    BY <1>1, <1>3, <1>5 DEF JoinedSoFar
  <2>2. kept = turns
    BY <1>2, <2>1 DEF DropReplies
  <2> QED
    BY <1>4, <1>5, <2>1, <2>2
<1>6. CASE n # 0 /\ first = 1
  <2>1. turns # <<>> /\ turns[1].role = history[1].role
    BY <1>1, <1>3, <1>6 DEF JoinedSoFar
  <2>2. history[1].role = "user"
    BY <1>1, <1>6 DEF FirstIs
  <2>3. Head(turns) = turns[1]
    BY <1>4, <2>1
  <2>4. kept = turns
    BY <1>2, <2>1, <2>2, <2>3 DEF DropReplies
  <2> QED
    BY <1>4, <1>6, <2>1, <2>2, <2>4
<1>7. CASE n # 0 /\ first # 1
  <2>1. turns # <<>> /\ turns[1].role = history[1].role
    BY <1>1, <1>3, <1>7 DEF JoinedSoFar
  <2>2. history[1].role = "assistant"
    <3>1. 1 \in 1..(first - 1)
      BY <1>1, <1>7
    <3> QED
      BY <3>1 DEF FirstIs
  <2>3. Head(turns) = turns[1]
    BY <1>4, <2>1
  <2>4. kept = Tail(turns)
    BY <1>2, <2>1, <2>2, <2>3 DEF DropReplies
  <2>5. kept \in Seq(Turns) /\ Len(kept) = Len(turns) - 1 /\ \A i \in 1..(Len(turns) - 1) : kept[i] = turns[i + 1]
    BY <1>4, <2>1, <2>4, HeadTailProperties
  <2>6. PICK m \in Nat \ {0} : m = Len(turns)
    BY <1>4, <2>1, EmptySeq
  <2>7. Alternate(kept)
    <3> SUFFICES ASSUME NEW i \in 2..(m - 1) PROVE kept[i].role # kept[i - 1].role
      BY <2>5, <2>6 DEF Alternate
    <3>1. i + 1 \in 2..m /\ i \in 1..(m - 1) /\ i - 1 \in 1..(m - 1) /\ (i + 1) - 1 = i /\ (i - 1) + 1 = i
      BY <2>6
    <3>2. turns[i + 1].role # turns[i].role
      BY <1>4, <2>6, <3>1 DEF Alternate
    <3> QED
      BY <2>5, <2>6, <3>1, <3>2
  <2>8. kept # <<>> => kept[1].role = "user"
    <3> SUFFICES ASSUME kept # <<>> PROVE kept[1].role = "user"
      OBVIOUS
    <3>1. 2 \in 2..m /\ 1 \in 1..(m - 1) /\ 2 \in 1..m
      BY <2>5, <2>6, EmptySeq
    <3>2. turns[2].role # turns[1].role /\ kept[1] = turns[2]
      <4>1. turns[2].role # turns[2 - 1].role /\ kept[1] = turns[1 + 1]
        BY <1>4, <2>5, <2>6, <3>1 DEF Alternate
      <4> QED
        BY <4>1
    <3>3. turns[2] \in Turns
      BY <1>4, <2>6, <3>1, ElementOfSeq
    <3> QED
      BY <2>1, <2>2, <3>2, <3>3 DEF Turns, Speakers
  <2>9. PICK lead \in Seq(Words) : lead = turns[1].text
    <3>1. turns[1] \in Turns
      <4>1. 1 \in 1..Len(turns)
        BY <2>6
      <4> QED
        BY <1>4, <4>1, ElementOfSeq
    <3> QED
      BY <3>1 DEF Turns
  <2>10. Len(lead) = first - 1
    <3>1. first > 1 /\ n > 0
      BY <1>1, <1>7
    <3>2. CASE n < first
      <4>1. first - 1 = n
        BY <1>1, <3>2
      <4> QED
        BY <1>3, <2>9, <3>1, <3>2, <4>1 DEF JoinedSoFar
    <3>3. CASE n >= first
      BY <1>3, <2>9, <3>1, <3>3 DEF JoinedSoFar
    <3> QED
      BY <1>1, <3>2, <3>3
  <2>11. PICK said \in Seq(Words) : said = Spoken(kept)
    BY <2>5, SpokenIsFlat
  <2>12. PICK all \in Seq(Words) : all = Spoken(turns)
    BY <1>4, SpokenIsFlat
  <2>13. all = lead \o said
    BY <1>4, <2>1, <2>4, <2>9, <2>11, <2>12, SpokenFromFirst
  <2>14. Len(all) = n /\ \A i \in 1..n : all[i] = history[i].text
    <3>1. all = [i \in 1..n |-> history[i].text]
      <4>1. TextsFrom(history, 1, n) = [i \in 1..n |-> history[i].text]
        BY <1>1 DEF TextsFrom
      <4> QED
        BY <1>4, <2>12, <4>1
    <3> QED
      BY <1>1, <3>1
  <2>15. Len(said) = n - (first - 1) /\ \A i \in 1..(n - (first - 1)) : said[i] = all[(first - 1) + i]
    <3>1. Len(all) = Len(lead) + Len(said) /\ Len(said) \in Nat
      BY <2>13, ConcatProperties, LenProperties
    <3>2. \A i \in 1..(Len(lead) + Len(said)) : all[i] = IF i <= Len(lead) THEN lead[i] ELSE said[i - Len(lead)]
      BY <2>13, ConcatProperties
    <3>3. Len(said) = n - (first - 1)
      BY <1>1, <2>10, <2>14, <3>1
    <3>4. ASSUME NEW i \in 1..(n - (first - 1)) PROVE said[i] = all[(first - 1) + i]
      <4>1. /\ (first - 1) + i \in 1..(Len(lead) + Len(said)) /\ ~((first - 1) + i <= Len(lead))
            /\ ((first - 1) + i) - Len(lead) = i
        BY <1>1, <2>10, <3>3
      <4> QED
        BY <3>2, <4>1
    <3> QED
      BY <3>3, <3>4
  <2>16. said = TextsFrom(history, first, n)
    <3>1. TextsFrom(history, first, n) = [i \in 1..(n - (first - 1)) |-> history[(first - 1) + i].text]
      <4>1. /\ n - first + 1 = n - (first - 1)
            /\ \A i \in 1..(n - (first - 1)) : first + i - 1 = (first - 1) + i
        BY <1>1
      <4> QED
        BY <4>1 DEF TextsFrom
    <3>2. ASSUME NEW i \in 1..(n - (first - 1)) PROVE said[i] = history[(first - 1) + i].text
      <4>1. (first - 1) + i \in 1..n
        BY <1>1
      <4> QED
        BY <2>14, <2>15, <4>1
    <3>3. said = [i \in 1..(n - (first - 1)) |-> said[i]]
      BY <2>15
    <3> QED
      BY <3>1, <3>2, <3>3
  <2> QED
    BY <2>5, <2>7, <2>8, <2>11, <2>16
<1> QED
  BY <1>5, <1>6, <1>7

-----------------------------------------------------------------------------
(* The turns that are kept and the new message.                            *)
Request(kept, said) ==
    IF kept # <<>> /\ Last(kept).role = "user"
    THEN Append(Front(kept), [role |-> "user", text |-> Append(Last(kept).text, said)])
    ELSE Append(kept, [role |-> "user", text |-> Append(<<>>, said)])

LEMMA RequestUnfolds ==
    ASSUME NEW history, NEW said
    PROVE  BuildMessages(history, said) = Request(DropReplies(JoinRuns(WithoutRepeats(history, said))), said)
BY DEF BuildMessages, NormalizeHistory, Request

(* It starts and ends with the user, the sides alternate, and it says what *)
(* the turns say and then the new message.                                 *)
LEMMA RequestIsBuilt ==
    ASSUME NEW kept \in Seq(Turns), Alternate(kept), kept # <<>> => kept[1].role = "user",
           NEW said \in Words, NEW sent, sent = Request(kept, said)
    PROVE  /\ sent \in Seq(Turns) /\ sent # <<>> /\ Alternate(sent)
           /\ Head(sent).role = "user" /\ Last(sent).role = "user"
           /\ Spoken(sent) = Append(Spoken(kept), said)
<1>1. PICK n \in Nat : n = Len(kept)
  BY LenProperties
<1>2. CASE kept # <<>> /\ Last(kept).role = "user"
  <2>1. n # 0
    BY <1>1, <1>2, EmptySeq
  <2>2. PICK front \in Seq(Turns), last \in Turns : front = Front(kept) /\ last = Last(kept)
    BY <1>2, FrontAndLast
  <2>3. /\ last = kept[n] /\ Len(front) = n - 1 /\ kept = Append(front, last)
        /\ \A i \in 1..(n - 1) : front[i] = kept[i]
    BY <1>1, <1>2, <2>2, FrontAndLast
  <2>4. PICK heard \in Seq(Words) : heard = last.text
    BY DEF Turns
  <2>5. PICK longer \in Seq(Words) : longer = Append(heard, said)
    BY AppendProperties
  <2>6. PICK t \in Turns : t = [role |-> "user", text |-> longer]
    BY DEF Turns, Speakers
  <2>7. t.role = "user" /\ t.text = longer
    BY <2>6
  <2>8. sent = Append(front, t)
    BY <1>2, <2>2, <2>4, <2>5, <2>6 DEF Request
  <2>9. /\ sent \in Seq(Turns) /\ Len(sent) = n /\ sent[n] = t
        /\ \A i \in 1..(n - 1) : sent[i] = kept[i]
    <3>1. /\ sent \in Seq(Turns) /\ Len(sent) = Len(front) + 1 /\ sent[Len(front) + 1] = t
          /\ \A i \in 1..Len(front) : sent[i] = front[i]
      BY <2>8, AppendProperties
    <3> QED
      BY <2>3, <3>1
  <2>10. \A i \in 1..n : sent[i].role = kept[i].role
    <3> SUFFICES ASSUME NEW i \in 1..n PROVE sent[i].role = kept[i].role
      OBVIOUS
    <3>1. CASE i = n
      BY <1>2, <2>2, <2>3, <2>7, <2>9, <3>1
    <3>2. CASE i # n
      <4>1. i \in 1..(n - 1)
        BY <3>2
      <4> QED
        BY <2>9, <4>1
    <3> QED
      BY <3>1, <3>2
  <2>11. Alternate(sent)
    <3> SUFFICES ASSUME NEW i \in 2..n PROVE sent[i].role # sent[i - 1].role
      BY <2>9 DEF Alternate
    <3>1. i \in 1..n /\ i - 1 \in 1..n /\ i \in 2..Len(kept)
      BY <1>1
    <3>2. kept[i].role # kept[i - 1].role
      BY <3>1 DEF Alternate
    <3> QED
      BY <2>10, <3>1, <3>2
  <2>12. sent # <<>> /\ Head(sent).role = "user" /\ Last(sent).role = "user"
    <3>1. 1 \in 1..n
      BY <2>1
    <3>2. sent # <<>> /\ Head(sent) = sent[1] /\ Last(sent) = t
      BY <2>1, <2>9 DEF Last
    <3> QED
      BY <1>2, <2>7, <2>10, <3>1, <3>2
  <2>13. Spoken(sent) = Append(Spoken(kept), said)
    <3>1. PICK before \in Seq(Words) : before = Spoken(front)
      BY SpokenIsFlat
    <3>2. Spoken(kept) = before \o heard /\ Spoken(sent) = before \o longer
      BY <2>3, <2>4, <2>7, <2>8, <3>1, SpokenWithTurn
    <3>3. before \o Append(heard, said) = Append(before \o heard, said)
      OBVIOUS
    <3> QED
      BY <2>5, <3>2, <3>3
  <2> QED
    BY <2>9, <2>11, <2>12, <2>13
<1>3. CASE ~(kept # <<>> /\ Last(kept).role = "user")
  <2>1. PICK heard \in Seq(Words) : heard = Append(<<>>, said)
    <3>1. Append(<<>>, said) \in Seq(Words)
      OBVIOUS
    <3> QED
      BY <3>1
  <2>2. PICK t \in Turns : t = [role |-> "user", text |-> heard]
    BY DEF Turns, Speakers
  <2>3. t.role = "user" /\ t.text = heard
    BY <2>2
  <2>4. sent = Append(kept, t)
    BY <1>3, <2>1, <2>2 DEF Request
  <2>5. /\ sent \in Seq(Turns) /\ Len(sent) = n + 1 /\ sent[n + 1] = t
        /\ \A i \in 1..n : sent[i] = kept[i]
    BY <1>1, <2>4, AppendProperties
  <2>6. Spoken(sent) = Append(Spoken(kept), said)
    <3>1. PICK before \in Seq(Words) : before = Spoken(kept)
      BY SpokenIsFlat
    <3>2. Spoken(sent) = before \o heard
      BY <2>3, <2>4, <3>1, SpokenWithTurn
    <3>3. before \o Append(<<>>, said) = Append(before, said)
      OBVIOUS
    <3> QED
      BY <2>1, <3>1, <3>2, <3>3
  <2>7. sent # <<>> /\ Head(sent) = sent[1] /\ Last(sent) = t
    BY <1>1, <2>5 DEF Last
  <2>8. Head(sent).role = "user" /\ Alternate(sent)
    <3>1. CASE n = 0
      <4>1. sent[1] = t /\ Len(sent) = 1
        BY <2>5, <3>1
      <4> QED
        BY <2>3, <2>7, <4>1 DEF Alternate
    <3>2. CASE n # 0
      <4>1. kept # <<>> /\ Last(kept) = kept[n] /\ 1 \in 1..n /\ n \in 1..n
        BY <1>1, <3>2 DEF Last
      <4>2. kept[n] \in Turns
        BY <1>1, <4>1, ElementOfSeq
      <4>3. kept[n].role # "user" /\ kept[1].role = "user"
        BY <1>3, <4>1
      <4>4. Head(sent).role = "user"
        BY <2>5, <2>7, <4>1, <4>3
      <4>5. ASSUME NEW i \in 2..(n + 1) PROVE sent[i].role # sent[i - 1].role
        <5>1. CASE i = n + 1
          <6>1. i - 1 = n
            BY <5>1
          <6> QED
            BY <2>3, <2>5, <4>1, <4>3, <5>1, <6>1
        <5>2. CASE i # n + 1
          <6>1. i \in 2..Len(kept) /\ i \in 1..n /\ i - 1 \in 1..n
            BY <1>1, <5>2
          <6>2. kept[i].role # kept[i - 1].role
            BY <6>1 DEF Alternate
          <6> QED
            BY <2>5, <6>1, <6>2
        <5> QED
          BY <5>1, <5>2
      <4> QED
        BY <2>5, <4>4, <4>5 DEF Alternate
    <3> QED
      BY <3>1, <3>2
  <2> QED
    BY <2>3, <2>5, <2>6, <2>7, <2>8
<1> QED
  BY <1>2, <1>3

(* What a request sends of the window it read.                             *)
KeptOf(window, said) ==
    SubSeq(window, FirstOfUser(window), Len(window) - Cardinality(Repeats(window, said)))

LEMMA WindowIsSent ==
    ASSUME NEW window \in Seq(MessageRec), NEW said \in Words,
           NEW sent, sent = BuildMessages(window, said)
    PROVE  /\ sent # <<>> /\ Alternate(sent)
           /\ Head(sent).role = "user" /\ Last(sent).role = "user"
           /\ Spoken(sent) = Append([i \in DOMAIN KeptOf(window, said) |-> KeptOf(window, said)[i].text], said)
<1>1. PICK n \in Nat : n = Len(window)
  BY LenProperties
<1>2. PICK k \in 0..n : k = n - Cardinality(Repeats(window, said))
  <2>1. DOMAIN window = 1..n
    BY <1>1, LenProperties
  <2>2. Repeats(window, said) \in SUBSET (1..n)
    BY <2>1 DEF Repeats
  <2>3. IsFiniteSet(1..n) /\ Cardinality(1..n) = n
    BY FS_Interval
  <2>4. IsFiniteSet(Repeats(window, said)) /\ Cardinality(Repeats(window, said)) <= n
    BY <2>2, <2>3, FS_Subset
  <2>5. Cardinality(Repeats(window, said)) \in Nat
    BY <2>4, FS_CardinalityType
  <2> QED
    BY <2>4, <2>5
<1>3. PICK history : history = WithoutRepeats(window, said)
  OBVIOUS
<1>4. history = SubSeq(window, 1, k)
  BY <1>1, <1>2, <1>3 DEF WithoutRepeats
<1>5. history \in Seq(MessageRec) /\ Len(history) = k /\ \A i \in 1..k : history[i] = window[i]
  <2>1. \A i \in 1..k : window[i] \in MessageRec
    <3> SUFFICES ASSUME NEW i \in 1..k PROVE window[i] \in MessageRec
      OBVIOUS
    <3>1. i \in 1..Len(window)
      BY <1>1
    <3> QED
      BY <3>1, ElementOfSeq
  <2>2. /\ SubSeq(window, 1, k) \in Seq(MessageRec)
        /\ Len(SubSeq(window, 1, k)) = IF 1 <= k THEN k - 1 + 1 ELSE 0
        /\ \A i \in 1..(k - 1 + 1) : SubSeq(window, 1, k)[i] = window[1 + i - 1]
    BY <2>1, SubSeqProperties
  <2> QED
    BY <1>4, <2>2
<1>6. PICK first : first = FirstOfUser(window)
  OBVIOUS
<1>7. FirstIs(window, n, first)
  BY <1>1, <1>6, FirstOfUserIs
<1>8. PICK kept : kept = DropReplies(JoinRuns(history))
  OBVIOUS
<1>9. sent = Request(kept, said)
  BY <1>3, <1>8, RequestUnfolds
<1>10. PICK part : part = KeptOf(window, said)
  OBVIOUS
<1>11. part = SubSeq(window, first, k)
  BY <1>1, <1>2, <1>6, <1>10 DEF KeptOf
<1>12. kept \in Seq(Turns) /\ Alternate(kept) /\ (kept # <<>> => kept[1].role = "user")
       /\ Spoken(kept) = [i \in DOMAIN part |-> part[i].text]
  <2>1. first \in 1..(n + 1)
    BY <1>7 DEF FirstIs
  <2>2. CASE first <= k
    <3>1. FirstIs(history, k, first)
      <4>1. \A j \in 1..(first - 1) : j \in 1..k /\ history[j] = window[j]
        BY <1>5, <2>1, <2>2
      <4>2. first \in 1..k /\ history[first] = window[first] /\ first <= n
        BY <1>5, <2>1, <2>2
      <4> QED
        BY <1>7, <4>1, <4>2 DEF FirstIs
    <3>2. kept \in Seq(Turns) /\ Alternate(kept)
      BY <1>5, <1>8, <3>1, RepliesAreDropped
    <3>3. kept # <<>> => kept[1].role = "user"
      BY <1>5, <1>8, <3>1, RepliesAreDropped
    <3>4. Spoken(kept) = TextsFrom(history, first, k)
      BY <1>5, <1>8, <3>1, RepliesAreDropped
    <3>5. /\ Len(part) = k - first + 1 /\ DOMAIN part = 1..(k - first + 1)
          /\ \A i \in 1..(k - first + 1) : part[i] = window[first + i - 1]
      <4>1. \A i \in first..k : window[i] \in MessageRec
        <5> SUFFICES ASSUME NEW i \in first..k PROVE window[i] \in MessageRec
          OBVIOUS
        <5>1. i \in 1..Len(window)
          BY <1>1, <2>1
        <5> QED
          BY <5>1, ElementOfSeq
      <4>2. /\ SubSeq(window, first, k) \in Seq(MessageRec)
            /\ Len(SubSeq(window, first, k)) = IF first <= k THEN k - first + 1 ELSE 0
            /\ \A i \in 1..(k - first + 1) : SubSeq(window, first, k)[i] = window[first + i - 1]
        BY <2>1, <4>1, SubSeqProperties
      <4>3. DOMAIN part = 1..Len(part)
        BY <1>11, <4>2, LenProperties
      <4> QED
        BY <1>11, <2>2, <4>2, <4>3
    <3>6. ASSUME NEW i \in 1..(k - first + 1) PROVE history[first + i - 1].text = part[i].text
      <4>1. first + i - 1 \in 1..k
        BY <2>1
      <4> QED
        BY <1>5, <3>5, <4>1
    <3>7. TextsFrom(history, first, k) = [i \in DOMAIN part |-> part[i].text]
      BY <3>5, <3>6 DEF TextsFrom
    <3> QED
      BY <3>2, <3>3, <3>4, <3>7
  <2>3. CASE ~(first <= k)
    <3>1. FirstIs(history, k, k + 1)
      <4>1. \A j \in 1..k : j \in 1..(first - 1) /\ history[j] = window[j]
        BY <1>5, <2>1, <2>3
      <4> QED
        BY <1>7, <4>1 DEF FirstIs
    <3>2. kept \in Seq(Turns) /\ Alternate(kept)
      BY <1>5, <1>8, <3>1, RepliesAreDropped
    <3>3. kept # <<>> => kept[1].role = "user"
      BY <1>5, <1>8, <3>1, RepliesAreDropped
    <3>4. Spoken(kept) = TextsFrom(history, k + 1, k)
      BY <1>5, <1>8, <3>1, RepliesAreDropped
    <3>5. part = <<>>
      BY <1>11, <2>1, <2>3, SubSeqEmpty
    <3>6. TextsFrom(history, k + 1, k) = <<>>
      BY DEF TextsFrom
    <3>7. [i \in DOMAIN part |-> part[i].text] = <<>>
      BY <3>5
    <3> QED
      BY <3>2, <3>3, <3>4, <3>6, <3>7
  <2> QED
    BY <2>1, <2>2, <2>3
<1>13. /\ sent # <<>> /\ Alternate(sent)
       /\ Head(sent).role = "user" /\ Last(sent).role = "user"
       /\ Spoken(sent) = Append(Spoken(kept), said)
  BY <1>9, <1>12, RequestIsBuilt
<1> QED
  BY <1>10, <1>12, <1>13

-----------------------------------------------------------------------------
(* The window: the newest messages, as they were said.                     *)
Dated(those) == [m \in those |-> m.at]

LEMMA ByTimeIsInLine ==
    ASSUME NEW those
    PROVE  ByTime(those) = [i \in 1..Cardinality(those) |-> AtPlace(those, Dated(those), i)]
<1>1. ASSUME NEW m \in those PROVE {o \in those : o.at < m.at} = Below(those, Dated(those), m)
  BY DEF Below, Dated
<1>2. ASSUME NEW i \in 1..Cardinality(those)
      PROVE  (CHOOSE m \in those : Cardinality({o \in those : o.at < m.at}) = i - 1) = AtPlace(those, Dated(those), i)
  <2>1. \A m \in those : Cardinality({o \in those : o.at < m.at}) = i - 1 <=> Cardinality(Below(those, Dated(those), m)) = i - 1
    BY <1>1
  <2> QED
    BY <2>1 DEF AtPlace
<1> QED
  BY <1>2 DEF ByTime

LEMMA NewestAreRead ==
    ASSUME IsFiniteSet(messages), messages \subseteq MessageRec,
           \A a, b \in messages : a.at = b.at => a = b,
           NEW window, window = RecentMessages
    PROVE  /\ window \in Seq(MessageRec)
           /\ \A m \in messages : ~Contains(window, m) => \A i \in DOMAIN window : m.at < window[i].at
<1>1. PICK key : key = Dated(messages)
  OBVIOUS
<1>2. key \in [messages -> Int] /\ \A m \in messages : key[m] = m.at
  BY <1>1 DEF Dated, MessageRec
<1>3. PICK n : n = Cardinality(messages)
  OBVIOUS
<1>4. /\ n \in Nat
      /\ \A i \in 1..n : AtPlace(messages, key, i) \in messages
      /\ \A i, j \in 1..n : i < j => key[AtPlace(messages, key, i)] < key[AtPlace(messages, key, j)]
      /\ \A m \in messages : \E i \in 1..n : AtPlace(messages, key, i) = m
  BY <1>2, <1>3, LinedUp
<1>5. PICK all : all = ByTime(messages)
  OBVIOUS
<1>6. all = [i \in 1..n |-> AtPlace(messages, key, i)]
  BY <1>1, <1>3, <1>5, ByTimeIsInLine
<1>7. all \in [1..n -> messages] /\ Len(all) = n
  BY <1>4, <1>6
<1>8. \A i, j \in 1..n : i < j => all[i].at < all[j].at
  <2> SUFFICES ASSUME NEW i \in 1..n, NEW j \in 1..n, i < j PROVE all[i].at < all[j].at
    OBVIOUS
  <2>1. key[all[i]] < key[all[j]]
    BY <1>4, <1>6
  <2> QED
    BY <1>2, <1>7, <2>1
<1>9. \A m \in messages : \E i \in 1..n : all[i] = m
  BY <1>4, <1>6
<1>10. PICK first \in 1..(n + 1) : window = SubSeq(all, first, n)
  <2>1. RecentMessages = SubSeq(all, IF n > HistoryLimit THEN n - HistoryLimit + 1 ELSE 1, n)
    BY <1>5, <1>7 DEF RecentMessages
  <2>2. (IF n > HistoryLimit THEN n - HistoryLimit + 1 ELSE 1) \in 1..(n + 1)
    BY <1>4, CallsAssumption
  <2> QED
    BY <2>1, <2>2
<1>11. /\ window \in Seq(MessageRec) /\ DOMAIN window = 1..(n - first + 1) /\ Len(window) = n - first + 1
       /\ \A i \in 1..(n - first + 1) : window[i] = all[first + i - 1]
  <2>1. \A i \in first..n : all[i] \in MessageRec
    BY <1>4, <1>7
  <2>2. /\ SubSeq(all, first, n) \in Seq(MessageRec)
        /\ Len(SubSeq(all, first, n)) = IF first <= n THEN n - first + 1 ELSE 0
        /\ \A i \in 1..(n - first + 1) : SubSeq(all, first, n)[i] = all[first + i - 1]
    BY <1>4, <2>1, SubSeqProperties
  <2>3. Len(window) = n - first + 1
    BY <1>4, <1>10, <2>2
  <2>4. DOMAIN window = 1..Len(window)
    BY <1>10, <2>2, LenProperties
  <2> QED
    BY <1>10, <2>2, <2>3, <2>4
<1>12. ASSUME NEW m \in messages, ~Contains(window, m), NEW i \in DOMAIN window PROVE m.at < window[i].at
  <2>1. PICK j \in 1..n : all[j] = m
    BY <1>9
  <2>2. ~(j >= first)
    <3> SUFFICES ASSUME j >= first PROVE FALSE
      OBVIOUS
    <3>1. j - first + 1 \in 1..(n - first + 1) /\ first + (j - first + 1) - 1 = j
      BY <1>4
    <3>2. window[j - first + 1] = m
      BY <1>11, <2>1, <3>1
    <3> QED
      BY <1>11, <1>12, <3>1, <3>2 DEF Contains
  <2>3. i \in 1..(n - first + 1) /\ first + i - 1 \in 1..n /\ j < first + i - 1
    <3>1. i \in 1..(n - first + 1) /\ first \in 1..(n + 1)
      BY <1>11
    <3> QED
      BY <1>4, <2>2, <3>1
  <2>4. window[i] = all[first + i - 1]
    BY <1>11, <2>3
  <2> QED
    BY <1>8, <2>1, <2>3, <2>4
<1> QED
  BY <1>11, <1>12

-----------------------------------------------------------------------------
(* No two rows are dated alike, those to come included.                    *)
TimesDiffer ==
    /\ \A a, b \in messages : a.at = b.at => a = b
    /\ \A a, b \in left : a.at = b.at => a = b
    /\ \A m \in messages, s \in left : m.at # s.at
    /\ turn.saving > 0 =>
         (\A m \in messages : m.at # turn.saving) /\ (\A s \in left : s.at # turn.saving)

(* What is not in the window is older, or an answer that came later.       *)
OlderThanWindow(window, n) ==
    \A m \in messages : m.n < n /\ ~Contains(window, m) =>
        m.role = "assistant" \/ \A i \in DOMAIN window : m.at < window[i].at

SentInv ==
    /\ IsFiniteSet(messages) /\ TimesDiffer
    /\ turn.pc # "idle" =>
         turn.history \in Seq(MessageRec) /\ OlderThanWindow(turn.history, turn.n)
    /\ turn.sent # <<>> =>
         turn.pc = "asking" /\ turn.sent = BuildMessages(turn.history, turn.text)

LEMMA InitiallySent == ChatInit => SentInv
<1> SUFFICES ASSUME ChatInit PROVE SentInv
  OBVIOUS
<1>1. messages = {} /\ left = {} /\ turn = NoTurn(0)
  BY DEF ChatInit
<1>2. turn.pc = "idle" /\ turn.sent = <<>> /\ turn.saving = 0
  BY <1>1 DEF NoTurn
<1>3. IsFiniteSet(messages)
  BY <1>1, FS_EmptySet
<1> QED
  BY <1>1, <1>2, <1>3 DEF SentInv, TimesDiffer

(* A row is added with a date of its own.                                  *)
LEMMA DatesStayApart ==
    ASSUME ChatTyped, TimesDiffer, NEW x, messages' = messages \cup {x}, \A m \in messages : m.at # x.at,
           left' \subseteq left, \A s \in left' : s.at # x.at,
           turn'.saving = 0 \/ (turn'.saving = turn.saving /\ turn.saving # x.at)
    PROVE  TimesDiffer'
<1>1. turn.saving \in Nat
  BY DEF ChatTyped, TurnRec
<1>2. \A a, b \in messages' : a.at = b.at => a = b
  BY DEF TimesDiffer
<1>3. (\A a, b \in left' : a.at = b.at => a = b) /\ (\A m \in messages', s \in left' : m.at # s.at)
  BY DEF TimesDiffer
<1>4. ASSUME turn'.saving > 0
      PROVE  (\A m \in messages' : m.at # turn'.saving) /\ (\A s \in left' : s.at # turn'.saving)
  <2>1. turn'.saving = turn.saving /\ turn.saving # x.at
    BY <1>4
  <2> QED
    BY <1>4, <2>1 DEF TimesDiffer
<1> QED
  BY <1>2, <1>3, <1>4 DEF TimesDiffer

(* Rows of the request itself, and answers, leave the window as it is.     *)
LEMMA WindowStays ==
    ASSUME NEW window, NEW n, OlderThanWindow(window, n), NEW x, messages' \subseteq messages \cup {x},
           x.role = "assistant" \/ ~(x.n < n)
    PROVE  OlderThanWindow(window, n)'
BY DEF OlderThanWindow

(* The request ended: it has no window, and sends nothing.                 *)
LEMMA EndedSends ==
    ASSUME turn' = NoTurn(turn.n)
    PROVE  turn'.pc = "idle" /\ turn'.sent = <<>> /\ turn'.saving = 0 /\ turn'.n = turn.n
BY DEF NoTurn

LEMMA MessagesStayFinite ==
    ASSUME IsFiniteSet(messages), NEW x, messages' = messages \cup {x}
    PROVE  IsFiniteSet(messages')
BY FS_AddElement

LEMMA BeginSends ==
    ASSUME ChatInv, SentInv, NEW words \in Sayings, BeginTurn(words)
    PROVE  SentInv'
<1>1. PICK h, r, t : h = RecentMessages /\ r = projectRevision /\ t = NoTurn(turn.n + 1)
  OBVIOUS
<1>2. /\ turn' = [t EXCEPT !.pc = "read", !.text = words, !.history = h, !.expected = r]
      /\ UNCHANGED <<messages, left>>
  BY <1>1 DEF BeginTurn
<1>3. turn'.sent = <<>> /\ turn'.saving = 0 /\ turn'.history = h /\ turn'.n = turn.n + 1 /\ turn'.pc = "read"
  BY <1>1, <1>2 DEF NoTurn
<1>4. turn.n \in Nat /\ messages \subseteq MessageRec
  BY CallsAssumption DEF ChatInv, ChatTyped, TurnRec
<1>5. /\ h \in Seq(MessageRec)
      /\ \A m \in messages : ~Contains(h, m) => \A i \in DOMAIN h : m.at < h[i].at
  <2>1. IsFiniteSet(messages) /\ \A a, b \in messages : a.at = b.at => a = b
    BY DEF SentInv, TimesDiffer
  <2> QED
    BY <1>1, <1>4, <2>1, NewestAreRead
<1>6. \A m \in messages' : m.n < turn'.n /\ ~Contains(turn'.history, m) =>
        m.role = "assistant" \/ \A i \in DOMAIN turn'.history : m.at < turn'.history[i].at
  BY <1>2, <1>3, <1>5
<1>7. TimesDiffer'
  BY <1>2, <1>3 DEF SentInv, TimesDiffer
<1>8. IsFiniteSet(messages')
  BY <1>2 DEF SentInv
<1> QED
  BY <1>3, <1>5, <1>6, <1>7, <1>8 DEF SentInv, OlderThanWindow

LEMMA SaveMessageSends ==
    ASSUME ChatInv, SentInv, SaveMessage
    PROVE  SentInv'
<1>1. PICK x : x = [role |-> "user", text |-> turn.text, n |-> turn.n, at |-> clock']
  OBVIOUS
<1>2. messages' = messages \cup {x} /\ x.at = clock + 1 /\ x.n = turn.n /\ left' = left /\ turn.pc = "read"
  BY <1>1 DEF SaveMessage, Say
<1>3. PICK b : b = BuildMessages(turn.history, turn.text)
  OBVIOUS
<1>4. turn' = [turn EXCEPT !.pc = "asking", !.sent = b]
  BY <1>3 DEF SaveMessage
<1>5. turn \in TurnRec(turn.history, turn.sent)
  BY DEF ChatInv, ChatTyped
<1>6. /\ turn'.history = turn.history /\ turn'.n = turn.n /\ turn'.text = turn.text
      /\ turn'.pc = "asking" /\ turn'.sent = b /\ turn'.saving = turn.saving
  BY <1>4, <1>5 DEF TurnRec
<1>7. clock \in Nat /\ turn.saving = 0 /\ turn.n \in Nat
  BY <1>2, <1>5, CallsAssumption DEF ChatInv, ChatTyped, TurnRec
<1>8. (\A m \in messages : m.at \in 1..clock) /\ \A s \in left : s.at \in 1..clock
  BY DEF ChatInv, ChatTyped
<1>9. TimesDiffer'
  <2>1. \A m \in messages : m.at # x.at
    BY <1>2, <1>7, <1>8
  <2>2. \A s \in left' : s.at # x.at
    BY <1>2, <1>7, <1>8
  <2>3. turn'.saving = 0
    BY <1>6, <1>7
  <2>4. TimesDiffer /\ ChatTyped /\ left' \subseteq left
    BY <1>2 DEF SentInv, ChatInv
  <2> QED
    BY <1>2, <2>1, <2>2, <2>3, <2>4, DatesStayApart
<1>10. OlderThanWindow(turn.history, turn.n)' /\ turn.history \in Seq(MessageRec)
  <2>1. OlderThanWindow(turn.history, turn.n) /\ turn.history \in Seq(MessageRec)
    BY <1>2 DEF SentInv
  <2> QED
    BY <1>2, <1>6, <1>7, <2>1 DEF OlderThanWindow
<1>11. IsFiniteSet(messages')
  BY <1>2, MessagesStayFinite DEF SentInv
<1> QED
  BY <1>3, <1>6, <1>9, <1>10, <1>11 DEF SentInv

(* A step of a request that leaves its window and what it sent.            *)
SameRequest ==
    /\ turn'.history = turn.history /\ turn'.n = turn.n /\ turn'.text = turn.text
    /\ turn'.pc = turn.pc /\ turn'.sent = turn.sent

LEMMA SameRequestSends ==
    ASSUME ChatInv, SentInv, SameRequest, TimesDiffer', NEW x, x.role = "assistant",
           messages' = messages \cup {x} \/ messages' = messages
    PROVE  SentInv'
<1>1. IsFiniteSet(messages')
  BY MessagesStayFinite DEF SentInv
<1>2. ASSUME turn.pc # "idle"
      PROVE  turn'.history \in Seq(MessageRec) /\ OlderThanWindow(turn.history, turn.n)'
  <2>1. OlderThanWindow(turn.history, turn.n) /\ turn.history \in Seq(MessageRec)
    BY <1>2 DEF SentInv
  <2> QED
    BY <2>1 DEF SameRequest, OlderThanWindow
<1> QED
  BY <1>1, <1>2 DEF SentInv, SameRequest

LEMMA SavingSends ==
    ASSUME ChatInv, SentInv, StartSave \/ SaveFails \/ CallAnswers
    PROVE  SentInv'
<1>1. turn \in TurnRec(turn.history, turn.sent) /\ clock \in Nat /\ turn.saving <= clock /\ turn.saving \in Nat
  BY DEF ChatInv, ChatTyped, TurnRec
<1>2. messages' = messages /\ left' = left
  BY DEF StartSave, SaveFails, CallAnswers
<1>3. SameRequest
  BY <1>1 DEF StartSave, SaveFails, CallAnswers, SameRequest, TurnRec
<1>4. turn'.saving = 0 \/ turn'.saving = turn.saving \/ turn'.saving = clock + 1
  BY <1>1 DEF StartSave, SaveFails, CallAnswers, TurnRec
<1>5. (\A m \in messages : m.at \in 1..clock) /\ \A s \in left : s.at \in 1..clock
  BY DEF ChatInv, ChatTyped
<1>6. TimesDiffer'
  <2>1. ASSUME turn'.saving > 0
        PROVE  (\A m \in messages : m.at # turn'.saving) /\ (\A s \in left : s.at # turn'.saving)
    <3>1. CASE turn'.saving = turn.saving
      BY <2>1, <3>1 DEF SentInv, TimesDiffer
    <3>2. CASE turn'.saving = clock + 1
      BY <1>1, <1>5, <3>2
    <3> QED
      BY <1>4, <2>1, <3>1, <3>2
  <2> QED
    BY <1>2, <2>1 DEF SentInv, TimesDiffer
<1>7. PICK x : x = [role |-> "assistant"]
  OBVIOUS
<1>8. x.role = "assistant"
  BY <1>7
<1> QED
  BY <1>2, <1>3, <1>6, <1>8, SameRequestSends

LEMMA CommitFilmSends ==
    ASSUME ChatInv, SentInv, CommitFilm
    PROVE  SentInv'
<1>1. /\ turn \in TurnRec(turn.history, turn.sent) /\ turn.saving > 0 /\ turn.saving \in Nat
      /\ turn.n \in 1..MaxTurns /\ ChatTyped
  BY CallsAssumption DEF CommitFilm, ChatInv, ChatTyped, TurnRec
<1>2. Store(turn.n, turn.expected, turn.saving)
  BY DEF CommitFilm
<1>3. PICK x \in MessageRec : x.role = "assistant" /\ x.at = turn.saving /\ messages' = messages \cup {x}
  BY <1>1, <1>2, Stores
<1>4. PICK r : r = projectRevision + 1
  OBVIOUS
<1>5. turn' = [turn EXCEPT !.saving = 0, !.saved = r] /\ left' = left
  BY <1>4 DEF CommitFilm
<1>6. SameRequest /\ turn'.saving = 0
  BY <1>1, <1>5 DEF SameRequest, TurnRec
<1>7. TimesDiffer'
  <2>1. (\A m \in messages : m.at # x.at) /\ (\A s \in left' : s.at # x.at) /\ TimesDiffer
    BY <1>1, <1>3, <1>5 DEF SentInv, TimesDiffer
  <2> QED
    BY <1>1, <1>3, <1>5, <1>6, <2>1, DatesStayApart
<1> QED
  BY <1>3, <1>6, <1>7, SameRequestSends

LEMMA CommitLeftSends ==
    ASSUME ChatInv, SentInv, NEW s \in left, CommitLeft(s)
    PROVE  SentInv'
<1>1. left' = left \ {s} /\ turn' = turn
  BY DEF CommitLeft
<1>2. SameRequest
  BY <1>1 DEF SameRequest
<1>3. s \in SaveRec /\ s.n \in 1..MaxTurns /\ s.at \in Nat /\ ChatTyped
  BY DEF ChatInv, ChatTyped, SaveRec
<1>4. CASE UNCHANGED messages
  <2>1. TimesDiffer'
    BY <1>1, <1>4 DEF SentInv, TimesDiffer
  <2>2. PICK x : x = [role |-> "assistant"]
    OBVIOUS
  <2>3. x.role = "assistant"
    BY <2>2
  <2> QED
    BY <1>2, <1>4, <2>1, <2>3, SameRequestSends
<1>5. CASE Store(s.n, s.expected, s.at)
  <2>1. PICK x \in MessageRec : x.role = "assistant" /\ x.at = s.at /\ messages' = messages \cup {x}
    BY <1>3, <1>5, Stores
  <2>2. (\A m \in messages : m.at # x.at) /\ TimesDiffer
    BY <2>1 DEF SentInv, TimesDiffer
  <2>3. \A o \in left' : o.at # x.at
    BY <1>1, <2>1 DEF SentInv, TimesDiffer
  <2>4. turn'.saving = 0 \/ (turn'.saving = turn.saving /\ turn.saving # x.at)
    <3>1. turn.saving > 0 => turn.saving # x.at
      BY <2>1 DEF SentInv, TimesDiffer
    <3>2. turn.saving \in Nat
      BY <1>3 DEF ChatTyped, TurnRec
    <3> QED
      BY <1>1, <3>1, <3>2
  <2>5. left' \subseteq left
    BY <1>1
  <2>6. TimesDiffer'
    BY <1>3, <2>1, <2>2, <2>3, <2>4, <2>5, DatesStayApart
  <2> QED
    BY <1>2, <2>1, <2>6, SameRequestSends
<1> QED
  BY <1>4, <1>5 DEF CommitLeft

LEMMA EndsSend ==
    ASSUME ChatInv, SentInv, EndGeneration \/ EndChat \/ EndWithout
    PROVE  SentInv'
<1>1. turn' = NoTurn(turn.n)
  BY DEF EndGeneration, EndChat, EndWithout
<1>2. turn'.pc = "idle" /\ turn'.sent = <<>> /\ turn'.saving = 0
  BY <1>1, EndedSends
<1>3. clock \in Nat /\ turn.saving \in Nat /\ ChatTyped
  BY DEF ChatInv, ChatTyped, TurnRec
<1>4. IsFiniteSet(messages')
  <2>1. CASE EndGeneration \/ EndWithout
    BY <2>1 DEF EndGeneration, EndWithout, SentInv
  <2>2. CASE EndChat
    <3>1. PICK x : messages' = messages \cup {x}
      BY <2>2 DEF EndChat, Say
    <3> QED
      BY <3>1, MessagesStayFinite DEF SentInv
  <2> QED
    BY <2>1, <2>2
<1>5. TimesDiffer'
  <2>1. CASE EndGeneration
    BY <1>2, <2>1 DEF EndGeneration, SentInv, TimesDiffer
  <2>2. CASE EndChat
    <3>1. PICK x : x = [role |-> "assistant", text |-> Reply, n |-> turn.n, at |-> clock']
      OBVIOUS
    <3>2. messages' = messages \cup {x} /\ x.at = clock + 1 /\ left' = left
      BY <2>2, <3>1 DEF EndChat, Say
    <3>3. (\A m \in messages : m.at \in 1..clock) /\ \A s \in left : s.at \in 1..clock
      BY DEF ChatInv, ChatTyped
    <3>4. (\A m \in messages : m.at # x.at) /\ \A s \in left' : s.at # x.at
      BY <1>3, <3>2, <3>3
    <3>5. TimesDiffer /\ left' \subseteq left
      BY <3>2 DEF SentInv
    <3> QED
      BY <1>2, <1>3, <3>2, <3>4, <3>5, DatesStayApart
  <2>3. CASE EndWithout
    <3>1. messages' = messages
      BY <2>3 DEF EndWithout
    <3>2. CASE turn.saving = 0
      <4>1. left' = left
        BY <2>3, <3>2 DEF EndWithout
      <4> QED
        BY <1>2, <3>1, <4>1 DEF SentInv, TimesDiffer
    <3>3. CASE turn.saving # 0
      <4>1. PICK s : s = [n |-> turn.n, expected |-> turn.expected, at |-> turn.saving]
        OBVIOUS
      <4>2. left' = left \cup {s} /\ s.at = turn.saving /\ turn.saving > 0
        BY <1>3, <2>3, <3>3, <4>1 DEF EndWithout
      <4>3. (\A m \in messages : m.at # s.at) /\ \A o \in left : o.at # s.at
        BY <4>2 DEF SentInv, TimesDiffer
      <4> QED
        BY <1>2, <3>1, <4>2, <4>3 DEF SentInv, TimesDiffer
    <3> QED
      BY <3>2, <3>3
  <2> QED
    BY <2>1, <2>2, <2>3
<1> QED
  BY <1>2, <1>4, <1>5 DEF SentInv

LEMMA SentIsKept == ChatInv /\ SentInv /\ [ChatNext]_chatVars => SentInv'
<1> SUFFICES ASSUME ChatInv, SentInv, [ChatNext]_chatVars PROVE SentInv'
  OBVIOUS
<1>1. CASE UNCHANGED chatVars
  <2>1. UNCHANGED <<messages, turn, left>>
    BY <1>1 DEF chatVars
  <2> QED
    BY <2>1 DEF SentInv, TimesDiffer, OlderThanWindow
<1>2. CASE ChatNext
  BY <1>2, BeginSends, SaveMessageSends, SavingSends, CommitFilmSends, CommitLeftSends, EndsSend DEF ChatNext
<1> QED
  BY <1>1, <1>2

LEMMA SentMeans == ChatInv /\ SentInv => ProviderAcceptsMessages /\ EverythingSaidIsSent
<1> SUFFICES ASSUME ChatInv, SentInv, turn.sent # <<>>
             PROVE  ProviderAcceptsMessages /\ EverythingSaidIsSent
  BY DEF ProviderAcceptsMessages, EverythingSaidIsSent
<1>1. PICK window, said, sent : window = turn.history /\ said = turn.text /\ sent = turn.sent
  OBVIOUS
<1>2. turn.pc = "asking" /\ sent = BuildMessages(window, said)
  BY <1>1 DEF SentInv
<1>3. window \in Seq(MessageRec) /\ OlderThanWindow(window, turn.n)
  BY <1>1, <1>2 DEF SentInv
<1>4. said \in Words
  BY <1>1, <1>2 DEF ChatInv, ChatTyped, Words
<1>5. /\ sent # <<>> /\ Alternate(sent)
      /\ Head(sent).role = "user" /\ Last(sent).role = "user"
      /\ Spoken(sent) = Append([i \in DOMAIN KeptOf(window, said) |-> KeptOf(window, said)[i].text], said)
  BY <1>2, <1>3, <1>4, WindowIsSent
<1>6. ProviderAcceptsMessages
  BY <1>1, <1>5 DEF ProviderAcceptsMessages, Alternate
<1>7. EverythingSaidIsSent
  <2>1. ASSUME NEW m \in messages, m.n < turn.n, ~Contains(window, m)
        PROVE  \A i \in DOMAIN window : m.at < window[i].at \/ m.role = "assistant"
    BY <1>3, <2>1 DEF OlderThanWindow
  <2> QED
    BY <1>1, <1>5, <2>1 DEF EverythingSaidIsSent, KeptOf
<1> QED
  BY <1>6, <1>7

-----------------------------------------------------------------------------
(* What is sent of the chat starts with the user, the two sides alternate, *)
(* and it is all the window holds, each message once and in the order it   *)
(* was said (buildMessages, normalizeHistory).  A reply stands after its   *)
(* request and before the next one, a charged request shows one message    *)
(* and one reply, and the tokens of a generation go to its own row, once   *)
(* (motion-graph.repository.ts, generation-billing.ts).                    *)
THEOREM TranscriptIsWhole == ChatSpec => ChatIsWhole
<1>1. ChatInit => ChatInv /\ SentInv
  BY InitiallyChat, InitiallySent
<1>2. ChatInv /\ SentInv /\ [ChatNext]_chatVars => ChatInv' /\ SentInv'
  BY ChatIsKept, SentIsKept
<1>3. ChatInv /\ [ChatNext]_chatVars =>
        [\A run \in runRows : run \notin runRows' =>
           /\ run.n = turn.n /\ run.tokens = NoTokens
           /\ [run EXCEPT !.tokens = Tokens(meter)] \in runRows']_chatVars
  BY TokensGoToTheirRun
<1>4. ChatInv /\ SentInv =>
        /\ ChatTypeOK /\ ProviderAcceptsMessages /\ EverythingSaidIsSent
        /\ RepliesFollowTheirRequest /\ ChargedTurnsAreAnswered
  BY ChatInvMeans, SentMeans
<1> QED
  BY <1>1, <1>2, <1>3, <1>4, PTL DEF ChatSpec, ChatIsWhole, RunsKeepTheirOwnTokens

-----------------------------------------------------------------------------
(***************************************************************************)
(* The credit history.  The invariant says in which order the rows of an   *)
(* entry come, and that a reader's cursor splits the list into what was    *)
(* shown and what is still to come.                                        *)
(***************************************************************************)

(* How the rows of an entry begin, and how those of a generation end.      *)
Opens(r) ==
    \/ r.entry \in Grants /\ r.kind = "GRANT" /\ r.amount = GrantUnits
    \/ r.entry \in Expiries /\ r.kind = "EXPIRE" /\ r.amount = -GrantUnits
    \/ r.entry \in Generations /\ r.kind = "RESERVE" /\ r.amount = -HoldUnits

Closes(r) ==
    /\ r.entry \in Generations
    /\ \/ r.kind = "SETTLE" /\ \E c \in Costs : r.amount = HoldUnits - c
       \/ r.kind = "REFUND" /\ r.amount = HoldUnits

(* The rows of an entry: none, one that opens it, or with it one that      *)
(* closes it; one more at most is under way, and it is the next.           *)
RowsInOrder(e) ==
    /\ \A r, s \in begun : r.entry = e /\ s.entry = e => r = s
    /\ \/ RowsOf(e) = {} /\ \A s \in begun : s.entry = e => Opens(s)
       \/ \E r \in rows : /\ RowsOf(e) = {r} /\ Opens(r)
                          /\ \A s \in begun : s.entry = e => r.kind = "RESERVE" /\ Closes(s)
       \/ \E r, s \in rows : /\ RowsOf(e) = {r, s} /\ Opens(r) /\ r.kind = "RESERVE" /\ Closes(s)
                             /\ \A t \in begun : t.entry # e

RowsInv ==
    /\ rows \subseteq Line /\ begun \subseteq Line /\ now \in 0..MaxTime /\ IsFiniteSet(rows)
    /\ \A r \in rows \cup begun : r.at <= now
    /\ \A e \in Entries : RowsInOrder(e)

(* While pages are read, a line that was shown is not after the cursor,    *)
(* and what is unchanged was shown or is.                                  *)
ReaderInv ==
    /\ pc \in {"new", "paging", "done"}
    /\ cursor \in [at : 0..MaxTime, entry : Entries] \cup {NoCursor}
    /\ lines \subseteq Line /\ firstRows \subseteq Line
    /\ pc = "new" => lines = {} /\ cursor = NoCursor
    /\ pc # "new" => firstRows \subseteq rows
    /\ PagesNeverRepeat /\ LinesSayWhatHappened
    /\ \A l \in lines : l.entry \in ListedEntries /\ (pc # "done" => ~After(cursor, l.entry))
    /\ \A e \in ListedEntries : Unchanged(e) /\ pc # "new" =>
          \/ pc = "paging" /\ After(cursor, e)
          \/ \E l \in lines : l.entry = e /\ l.amount = Net(e)
    /\ pc # "new" /\ rows = firstRows => \A l \in lines : l.amount = Net(l.entry)

HistoryInv == RowsInv /\ ReaderInv

-----------------------------------------------------------------------------
(* The order of the list: by the time of the newest row, then by id.       *)
TimeOf(e) == CHOOSE t \in Nat : IsTimeOf(e, t)

Before(e, f) == TimeOf(e) > TimeOf(f) \/ (TimeOf(e) = TimeOf(f) /\ e > f)

(* A listed entry has one time, that of its newest row.                    *)
LEMMA ListedAreTimed ==
    ASSUME RowsInv, NEW e \in ListedEntries
    PROVE  /\ e \in Nat /\ e \in Entries /\ TimeOf(e) \in 0..now /\ IsTimeOf(e, TimeOf(e))
           /\ \A t \in Nat : IsTimeOf(e, t) => t = TimeOf(e)
<1>1. e \in Entries /\ e \in Nat /\ RowsOf(e) # {} /\ now \in Nat
  BY HistoryAssumption DEF ListedEntries, RowsInv
<1>2. \A r \in RowsOf(e) : r.at \in Nat /\ r.at <= now
  BY DEF RowsInv, RowsOf, Line
<1>3. \E t \in Nat : IsTimeOf(e, t)
  <2>1. CASE \E r \in rows : RowsOf(e) = {r}
    BY <1>2, <2>1 DEF IsTimeOf
  <2>2. CASE \E r, s \in rows : RowsOf(e) = {r, s}
    <3>1. PICK r \in rows, s \in rows : RowsOf(e) = {r, s}
      BY <2>2
    <3>2. r.at \in Nat /\ s.at \in Nat
      BY <1>2, <3>1
    <3>3. CASE r.at <= s.at
      BY <3>1, <3>2, <3>3 DEF IsTimeOf
    <3>4. CASE s.at <= r.at
      BY <3>1, <3>2, <3>4 DEF IsTimeOf
    <3> QED
      BY <3>2, <3>3, <3>4
  <2> QED
    BY <1>1, <2>1, <2>2 DEF RowsInv, RowsInOrder
<1>4. TimeOf(e) \in Nat /\ IsTimeOf(e, TimeOf(e))
  BY <1>3 DEF TimeOf
<1>5. TimeOf(e) <= now
  BY <1>2, <1>4 DEF IsTimeOf
<1>6. \A t \in Nat : IsTimeOf(e, t) => t = TimeOf(e)
  BY <1>2, <1>4 DEF IsTimeOf
<1> QED
  BY <1>1, <1>4, <1>5, <1>6

(* The list is in that order.                                              *)
LEMMA InFrontIsBefore ==
    ASSUME RowsInv, NEW e \in ListedEntries, NEW f \in ListedEntries
    PROVE  InFront(e, f) <=> Before(e, f)
<1>1. PICK t \in Nat, u \in Nat : t = TimeOf(e) /\ u = TimeOf(f) /\ IsTimeOf(e, t) /\ IsTimeOf(f, u)
  BY ListedAreTimed
<1>2. e \in Nat /\ f \in Nat
  BY ListedAreTimed
<1>3. \A r \in RowsOf(e) \cup RowsOf(f) : r.at \in Nat
  BY DEF RowsInv, RowsOf, Line
<1>4. ASSUME InFront(e, f) PROVE Before(e, f)
  <2>1. PICK r \in RowsOf(e) : \A s \in RowsOf(f) : Precedes(Point(r.at, e), Point(s.at, f))
    BY <1>4 DEF InFront
  <2>2. PICK s \in RowsOf(f) : s.at = u
    BY <1>1 DEF IsTimeOf
  <2>3. r.at <= t /\ (r.at > u \/ (r.at = u /\ e > f))
    BY <1>1, <2>1, <2>2 DEF IsTimeOf, Precedes, Point
  <2> QED
    BY <1>1, <1>2, <1>3, <2>3 DEF Before
<1>5. ASSUME Before(e, f) PROVE InFront(e, f)
  <2>1. PICK r \in RowsOf(e) : r.at = t
    BY <1>1 DEF IsTimeOf
  <2>2. ASSUME NEW s \in RowsOf(f) PROVE t > s.at \/ (t = s.at /\ e > f)
    <3>1. s.at <= u /\ s.at \in Nat
      BY <1>1, <1>3 DEF IsTimeOf
    <3> QED
      BY <1>1, <1>2, <1>5, <3>1 DEF Before
  <2> QED
    BY <2>1, <2>2 DEF InFront, Precedes, Point
<1> QED
  BY <1>4, <1>5

(* What is after a cursor, from the time of the entry. *)
LEMMA AfterByTime ==
    ASSUME RowsInv, NEW e \in ListedEntries, NEW c, c.at \in Nat, c.entry \in Nat
    PROVE  After(c, e) <=> c.at > TimeOf(e) \/ (c.at = TimeOf(e) /\ c.entry > e)
<1>1. PICK t \in Nat : t = TimeOf(e) /\ IsTimeOf(e, t) /\ e \in Nat
  BY ListedAreTimed
<1>2. \A r \in RowsOf(e) : r.at \in Nat /\ r.at <= t
  BY <1>1 DEF RowsInv, RowsOf, Line, IsTimeOf
<1>3. PICK r \in RowsOf(e) : r.at = t
  BY <1>1 DEF IsTimeOf
<1>4. After(c, e) <=> \A s \in RowsOf(e) : c.at > s.at \/ (c.at = s.at /\ c.entry > e)
  BY DEF After, Precedes, Point
<1> QED
  BY <1>1, <1>2, <1>3, <1>4

(* The order is strict and total.                                          *)
LEMMA BeforeIsAnOrder ==
    ASSUME RowsInv, NEW e \in ListedEntries, NEW f \in ListedEntries
    PROVE  /\ ~Before(e, e)
           /\ e # f => Before(e, f) \/ Before(f, e)
           /\ \A g \in ListedEntries : Before(e, f) /\ Before(f, g) => Before(e, g)
<1>1. \A g \in ListedEntries : TimeOf(g) \in Nat /\ g \in Nat
  BY ListedAreTimed
<1> QED
  BY <1>1 DEF Before


-----------------------------------------------------------------------------
(* A page of the list.                                                     *)
InFrontOf(x, A) == {f \in A : InFront(f, x)}

(* There are finitely many entries to list.                                *)
LEMMA ListedAreFinite == RowsInv => IsFiniteSet(ListedEntries) /\ IsFiniteSet(Entries)
BY HistoryAssumption, FS_Subset DEF ListedEntries

(* What is on the page stands in front of what is left for the next ones.  *)
LEMMA PageIsInFront ==
  ASSUME RowsInv, NEW n \in Nat, NEW A, A \subseteq ListedEntries,
         NEW x \in Newest(n, A), NEW y \in A \ Newest(n, A)
  PROVE  Before(x, y)
<1>1. IsFiniteSet(A) /\ x \in A /\ y \in A
  BY ListedAreFinite, FS_Subset DEF Newest
<1>2. IsFiniteSet(InFrontOf(x, A)) /\ IsFiniteSet(InFrontOf(y, A))
  BY <1>1, FS_Subset DEF InFrontOf
<1>3. Cardinality(InFrontOf(x, A)) < n /\ ~ (Cardinality(InFrontOf(y, A)) < n)
  BY <1>1 DEF Newest, InFrontOf
<1>4. Cardinality(InFrontOf(x, A)) \in Nat /\ Cardinality(InFrontOf(y, A)) \in Nat
  BY <1>2, FS_CardinalityType
<1>5. SUFFICES ASSUME Before(y, x) PROVE FALSE
  <2>1. x # y
    BY <1>3
  <2> QED
    BY <1>1, <1>5, <2>1, BeforeIsAnOrder
<1>6. InFrontOf(y, A) \subseteq InFrontOf(x, A)
  <2> SUFFICES ASSUME NEW f \in A, InFront(f, y) PROVE InFront(f, x)
    BY DEF InFrontOf
  <2>1. Before(f, y)
    BY <1>1, InFrontIsBefore
  <2>2. Before(f, x)
    BY <1>1, <1>5, <2>1, BeforeIsAnOrder
  <2> QED
    BY <1>1, <2>2, InFrontIsBefore
<1>7. Cardinality(InFrontOf(y, A)) <= Cardinality(InFrontOf(x, A))
  BY <1>2, <1>6, FS_Subset
<1> QED
  BY <1>3, <1>4, <1>7

(* A page with room left has everything.                                   *)
LEMMA PageWithRoomIsAll ==
  ASSUME RowsInv, NEW n \in Nat, NEW A, A \subseteq ListedEntries,
         Cardinality(Newest(n, A)) < n
  PROVE  Newest(n, A) = A
<1> DEFINE Rest == A \ Newest(n, A)
           Ahead(y) == {f \in Rest : InFront(f, y)}
           Aheads == {Ahead(y) : y \in Rest}
<1>1. Newest(n, A) \subseteq A
  BY DEF Newest
<1>2. SUFFICES ASSUME Rest # {} PROVE FALSE
  BY <1>1
<1>3. IsFiniteSet(A) /\ IsFiniteSet(Rest) /\ IsFiniteSet(Newest(n, A))
  BY <1>1, ListedAreFinite, FS_Subset
<1>4. PICK m \in Aheads : \A t \in Aheads : t \subseteq m => t = m
  <2>1. Aheads \subseteq SUBSET Rest /\ Aheads # {}
    BY <1>2
  <2> HIDE DEF Aheads, Rest
  <2> QED
    BY <1>3, <2>1, SmallestSubset
<1>5. PICK y \in Rest : m = Ahead(y)
  OBVIOUS
<1>6. Ahead(y) = {}
  <2>1. SUFFICES ASSUME NEW z \in Ahead(y) PROVE FALSE
    OBVIOUS
  <2>2. z \in Rest /\ z \in ListedEntries /\ y \in ListedEntries /\ Before(z, y)
    BY <2>1, <1>5, InFrontIsBefore
  <2>3. Ahead(z) \subseteq Ahead(y)
    <3> SUFFICES ASSUME NEW f \in Rest, InFront(f, z) PROVE InFront(f, y)
      OBVIOUS
    <3>1. f \in ListedEntries
      OBVIOUS
    <3>2. Before(f, z)
      BY <2>2, <3>1, InFrontIsBefore
    <3>3. Before(f, y)
      BY <2>2, <3>1, <3>2, BeforeIsAnOrder
    <3> QED
      BY <2>2, <3>1, <3>3, InFrontIsBefore
  <2>4. z \in Ahead(z)
    BY <1>4, <1>5, <2>1, <2>2, <2>3
  <2> QED
    BY <2>2, <2>4, InFrontIsBefore, BeforeIsAnOrder
<1>7. InFrontOf(y, A) \subseteq Newest(n, A)
  BY <1>6 DEF InFrontOf
<1>8. Cardinality(InFrontOf(y, A)) <= Cardinality(Newest(n, A)) /\ IsFiniteSet(InFrontOf(y, A))
  BY <1>3, <1>7, FS_Subset
<1>9. Cardinality(InFrontOf(y, A)) \in Nat /\ Cardinality(Newest(n, A)) \in Nat
  BY <1>3, <1>8, FS_CardinalityType
<1>10. Cardinality(InFrontOf(y, A)) < n
  BY <1>8, <1>9
<1> QED
  BY <1>5, <1>10 DEF Newest, InFrontOf

(* What fits on a page is on it.                                           *)
LEMMA WhatFitsIsOnThePage ==
  ASSUME RowsInv, NEW n \in Nat, NEW A, A \subseteq ListedEntries, Cardinality(A) <= n
  PROVE  Newest(n, A) = A
<1>1. IsFiniteSet(A)
  BY ListedAreFinite, FS_Subset
<1>2. ASSUME NEW x \in A PROVE Cardinality(InFrontOf(x, A)) < n
  <2>1. InFrontOf(x, A) \subseteq A \ {x}
    BY InFrontIsBefore, BeforeIsAnOrder DEF InFrontOf
  <2>2. IsFiniteSet(A \ {x}) /\ Cardinality(A \ {x}) = Cardinality(A) - 1
    BY <1>1, FS_RemoveElement
  <2>3. Cardinality(InFrontOf(x, A)) <= Cardinality(A \ {x}) /\ IsFiniteSet(InFrontOf(x, A))
    BY <2>1, <2>2, FS_Subset
  <2>4. Cardinality(InFrontOf(x, A)) \in Nat /\ Cardinality(A) \in Nat
    BY <1>1, <2>3, FS_CardinalityType
  <2> QED
    BY <2>2, <2>3, <2>4
<1> QED
  BY <1>2 DEF Newest, InFrontOf


-----------------------------------------------------------------------------
(* Amounts.                                                                *)
Amounts(S) == [r \in S |-> r.amount]

(* The sum of a set of rows or lines is a sum over a function.             *)
LEMMA SumOfAmounts ==
  ASSUME NEW S, IsFiniteSet(S)
  PROVE  MapThenSumSet(LAMBDA r : r.amount, S) = SumFunctionOnSet(Amounts(S), S)
<1> DEFINE Folds(g) == g = [s \in SUBSET S |->
                              IF s = {} THEN 0
                              ELSE (CHOOSE x \in s : TRUE).amount + g[s \ {CHOOSE x \in s : TRUE}]]
<1>1. MapThenSumSet(LAMBDA r : r.amount, S) = (CHOOSE g : Folds(g))[S]
  BY DEF MapThenSumSet, MapThenFoldSet
<1>2. ASSUME NEW g PROVE Folds(g) <=> IsSum(g, Amounts(S), S)
  <2>1. ASSUME NEW s \in SUBSET S
        PROVE  SumStep(g, Amounts(S), s)
                 = IF s = {} THEN 0
                   ELSE (CHOOSE x \in s : TRUE).amount + g[s \ {CHOOSE x \in s : TRUE}]
    BY <2>1 DEF SumStep, Some, Amounts
  <2> QED
    BY <2>1 DEF IsSum
<1>3. PICK h : IsSum(h, Amounts(S), S)
  BY SumExists
<1> HIDE DEF Folds
<1>4. Folds(CHOOSE g : Folds(g))
  BY <1>2, <1>3
<1>5. (CHOOSE g : Folds(g)) = h
  BY <1>2, <1>3, <1>4, SumIsUnique
<1>6. SumFunctionOnSet(Amounts(S), S) = h[S]
  BY <1>3, SumOfPart
<1> QED
  BY <1>1, <1>5, <1>6

(* The sum of one row is its amount.                                       *)
LEMMA SumOfOne ==
  ASSUME NEW f, NEW x, f[x] \in Int
  PROVE  SumFunctionOnSet(f, {x}) = f[x]
<1>1. SumFunctionOnSet(f, {x}) = f[x] + SumFunctionOnSet(f, {x} \ {x})
  BY SumWithout, FS_Singleton, ZenonT(30)
<1>2. {x} \ {x} = {}
  OBVIOUS
<1> QED
  BY <1>1, <1>2, SumOfNone

(* Two rows have the sum of their amounts.                                 *)
LEMMA SumOfTwo ==
  ASSUME NEW f, NEW x, NEW y, x # y, f[x] \in Int, f[y] \in Int
  PROVE  SumFunctionOnSet(f, {x, y}) = f[x] + f[y]
<1>1. IsFiniteSet({x, y})
  <2>1. {x, y} = {y} \cup {x}
    OBVIOUS
  <2>2. IsFiniteSet({y})
    BY FS_Singleton
  <2> QED
    BY <2>1, <2>2, FS_AddElement
<1>2. SumFunctionOnSet(f, {x, y}) = f[x] + SumFunctionOnSet(f, {x, y} \ {x})
  BY <1>1, SumWithout
<1>3. {x, y} \ {x} = {y}
  OBVIOUS
<1> QED
  BY <1>2, <1>3, SumOfOne

(* What a line says of the rows of its entry.                              *)
LEMMA LineIsTrue ==
  ASSUME RowsInv, NEW e \in ListedEntries
  PROVE  /\ Net(e) \in Int /\ KindOf(e) \in Kinds
         /\ KindOf(e) = "SETTLE" => Net(e) < 0
         /\ KindOf(e) = "REFUND" => Net(e) = 0
<1>1. e \in Entries /\ RowsOf(e) # {} /\ HoldUnits \in Nat \ {0} /\ GrantUnits \in Nat \ {0}
  BY HistoryAssumption DEF ListedEntries
<1>2. IsFiniteSet(RowsOf(e)) /\ \A r \in RowsOf(e) : r.amount \in Int
  BY FS_Subset DEF RowsInv, RowsOf, Line
<1>3. Net(e) = SumFunctionOnSet(Amounts(RowsOf(e)), RowsOf(e))
  BY <1>2, SumOfAmounts DEF Net
<1>4. Net(e) \in Int
  BY <1>2, <1>3, SumIsInteger DEF Amounts
<1>5. CASE \E r \in rows : RowsOf(e) = {r} /\ Opens(r)
  <2>1. PICK r \in rows : RowsOf(e) = {r} /\ Opens(r)
    BY <1>5
  <2>2. Net(e) = r.amount
    BY <1>2, <1>3, <2>1, SumOfOne DEF Amounts
  <2>3. \/ r.kind \in {"GRANT", "EXPIRE"} /\ KindOf(e) = r.kind
        \/ r.kind = "RESERVE" /\ KindOf(e) = "SETTLE" /\ r.amount = -HoldUnits
    BY <2>1 DEF Opens, KindOf, Has
  <2> QED
    BY <1>1, <1>4, <2>2, <2>3 DEF Kinds
<1>6. CASE \E r, s \in rows : RowsOf(e) = {r, s} /\ Opens(r) /\ r.kind = "RESERVE" /\ Closes(s)
  <2>1. PICK r \in rows, s \in rows :
          RowsOf(e) = {r, s} /\ Opens(r) /\ r.kind = "RESERVE" /\ Closes(s)
    BY <1>6
  <2>2. r # s /\ r.amount = -HoldUnits
    BY <2>1 DEF Opens, Closes
  <2>3. Net(e) = r.amount + s.amount
    BY <1>2, <1>3, <2>1, <2>2, SumOfTwo DEF Amounts
  <2>4. CASE s.kind = "REFUND" /\ s.amount = HoldUnits
    <3>1. KindOf(e) = "REFUND"
      BY <2>1, <2>4 DEF KindOf, Has
    <3> QED
      BY <1>1, <1>4, <2>2, <2>3, <2>4, <3>1 DEF Kinds
  <2>5. CASE s.kind = "SETTLE" /\ \E c \in Costs : s.amount = HoldUnits - c
    <3>1. KindOf(e) = "SETTLE"
      BY <2>1, <2>5 DEF KindOf, Has
    <3>2. PICK c \in Costs : s.amount = HoldUnits - c /\ c \in Nat \ {0}
      BY <2>5, HistoryAssumption
    <3> QED
      BY <1>1, <1>4, <2>2, <2>3, <3>1, <3>2 DEF Kinds
  <2> QED
    BY <2>1, <2>4, <2>5 DEF Closes
<1> QED
  BY <1>1, <1>5, <1>6 DEF RowsInv, RowsInOrder

(* The lines of a page are those of its entries.                           *)
LEMMA LinesOfEntries ==
  ASSUME RowsInv, NEW page, page \subseteq ListedEntries, NEW l
  PROVE  l \in LinesOf(page) <=> \E e \in page : l = LineOf(e, TimeOf(e))
<1>1. ASSUME l \in LinesOf(page) PROVE \E e \in page : l = LineOf(e, TimeOf(e))
  <2>1. PICK e \in page, r \in rows : l = LineOf(e, r.at) /\ IsTimeOf(l.entry, l.at)
    BY <1>1 DEF LinesOf
  <2>2. l.entry = e /\ l.at = r.at /\ r.at \in Nat
    BY <2>1 DEF LineOf, RowsInv, Line
  <2>3. r.at = TimeOf(e)
    BY <2>1, <2>2, ListedAreTimed
  <2> QED
    BY <2>1, <2>3
<1>2. ASSUME NEW e \in page, l = LineOf(e, TimeOf(e)) PROVE l \in LinesOf(page)
  <2>1. IsTimeOf(e, TimeOf(e))
    BY ListedAreTimed
  <2>2. PICK r \in rows : r.at = TimeOf(e)
    BY <2>1 DEF IsTimeOf, RowsOf
  <2>3. l.entry = e /\ l.at = TimeOf(e) /\ l = LineOf(e, r.at)
    BY <1>2, <2>2 DEF LineOf
  <2> QED
    BY <2>1, <2>3 DEF LinesOf
<1> QED
  BY <1>1, <1>2


-----------------------------------------------------------------------------
(* The ledger keeps its rows in order.                                     *)

(* A row begins: its entry has none under way, and it is the next one.     *)
LEMMA BeginKeepsRows ==
  ASSUME RowsInv, NEW e \in Entries, NEW k \in Kinds, NEW a \in Int, BeginRow(e, k, a),
         NEW w, w = [entry |-> e, kind |-> k, amount |-> a, at |-> now],
         \/ RowsOf(e) = {} /\ Opens(w)
         \/ \E r \in rows : RowsOf(e) = {r} /\ Opens(r) /\ r.kind = "RESERVE" /\ Closes(w)
  PROVE  RowsInv'
<1>1. begun' = begun \cup {w} /\ rows' = rows /\ now' = now /\ (\A s \in begun : s.entry # e)
  BY DEF BeginRow, Waiting
<1>2. now \in Nat /\ w \in Line /\ w.entry = e /\ w.at = now
  BY DEF RowsInv, Line
<1>3. begun' \subseteq Line /\ \A r \in rows' \cup begun' : r.at <= now'
  BY <1>1, <1>2 DEF RowsInv
<1>4. ASSUME NEW f \in Entries PROVE RowsOf(f)' = RowsOf(f)
  BY <1>1 DEF RowsOf
<1>5. ASSUME NEW f \in Entries PROVE RowsInOrder(f)'
  <2>1. CASE f = e
    <3>1. \A s \in begun' : s.entry = e => s = w
      BY <1>1
    <3>2. \A r, s \in begun' : r.entry = e /\ s.entry = e => r = s
      BY <3>1
    <3>3. CASE RowsOf(e) = {} /\ Opens(w)
      BY <1>4, <2>1, <3>1, <3>2, <3>3 DEF RowsInOrder, Opens
    <3>4. CASE \E r \in rows : RowsOf(e) = {r} /\ Opens(r) /\ r.kind = "RESERVE" /\ Closes(w)
      BY <1>1, <1>4, <2>1, <3>1, <3>2, <3>4 DEF RowsInOrder, Opens, Closes
    <3> QED
      BY <3>3, <3>4
  <2>2. CASE f # e
    <3>1. \A s \in begun' : s.entry = f => s \in begun
      BY <1>1, <1>2, <2>2
    <3>2. RowsInOrder(f)
      BY DEF RowsInv
    <3> QED
      BY <1>1, <1>2, <1>4, <2>2, <3>1, <3>2 DEF RowsInOrder, Opens, Closes
  <2> QED
    BY <2>1, <2>2
<1> QED
  BY <1>1, <1>3, <1>5 DEF RowsInv

(* A transaction ends: its row is the next one of its entry, or nothing.   *)
LEMMA EndKeepsRows ==
  ASSUME RowsInv, NEW w \in begun, End(w)
  PROVE  RowsInv'
<1>1. begun' = begun \ {w} /\ now' = now /\ (rows' = rows \cup {w} \/ rows' = rows)
  BY DEF End
<1>2. w \in Line /\ w.entry \in Entries /\ rows' \subseteq Line /\ begun' \subseteq Line /\ IsFiniteSet(rows')
  BY <1>1, FS_AddElement DEF RowsInv, Line
<1>3. \A r \in rows' \cup begun' : r.at <= now'
  BY <1>1 DEF RowsInv
<1>4. ASSUME NEW f \in Entries PROVE RowsInOrder(f)'
  <2>1. RowsInOrder(f)
    BY DEF RowsInv
  <2>2. \A r, s \in begun' : r.entry = f /\ s.entry = f => r = s
    BY <1>1, <2>1 DEF RowsInOrder
  <2>3. CASE RowsOf(f)' = RowsOf(f)
    <3>1. \A r \in rows : r \in rows'
      BY <1>1
    <3> QED
      BY <1>1, <2>1, <2>2, <2>3, <3>1 DEF RowsInOrder, Opens, Closes
  <2>4. CASE RowsOf(f)' # RowsOf(f)
    <3>1. w.entry = f /\ rows' = rows \cup {w} /\ RowsOf(f)' = RowsOf(f) \cup {w}
      BY <1>1, <2>4 DEF RowsOf
    <3>2. \A s \in begun' : s.entry # f
      BY <1>1, <2>1, <3>1 DEF RowsInOrder
    <3>3. CASE RowsOf(f) = {} /\ Opens(w)
      <4>1. RowsOf(f)' = {w} /\ w \in rows'
        BY <3>1, <3>3
      <4> QED
        BY <2>2, <3>2, <3>3, <4>1 DEF RowsInOrder, Opens
    <3>4. CASE \E r \in rows : RowsOf(f) = {r} /\ Opens(r) /\ r.kind = "RESERVE" /\ Closes(w)
      <4>1. PICK r \in rows : RowsOf(f) = {r} /\ Opens(r) /\ r.kind = "RESERVE" /\ Closes(w)
        BY <3>4
      <4>2. RowsOf(f)' = {r, w} /\ w \in rows' /\ r \in rows'
        BY <3>1, <4>1
      <4> QED
        BY <2>2, <3>2, <4>1, <4>2 DEF RowsInOrder, Opens, Closes
    <3> QED
      BY <2>1, <3>1, <3>3, <3>4 DEF RowsInOrder
  <2> QED
    BY <2>3, <2>4
<1> QED
  BY <1>1, <1>2, <1>3, <1>4 DEF RowsInv

(* An open generation has the row of its hold and no other.                *)
LEMMA OpenHasOneRow ==
  ASSUME RowsInv, NEW e \in Entries, Open(e)
  PROVE  \E r \in rows : RowsOf(e) = {r} /\ Opens(r) /\ r.kind = "RESERVE"
<1>1. RowsInOrder(e)
  BY DEF RowsInv
<1>2. RowsOf(e) # {}
  BY DEF Open, Has
<1>3. ASSUME NEW r \in rows, NEW s \in rows, RowsOf(e) = {r, s}, Closes(s) PROVE FALSE
  BY <1>3 DEF Open, Has, Closes
<1> QED
  BY <1>1, <1>2, <1>3 DEF RowsInOrder, Open, Has

(* Every step keeps the rows in order.                                     *)
LEMMA StepKeepsRows == RowsInv /\ [HistoryNext]_historyVars => RowsInv'
<1> SUFFICES ASSUME RowsInv, [HistoryNext]_historyVars PROVE RowsInv'
  OBVIOUS
<1> USE HistoryAssumption DEF Entries
<1>1. CASE UNCHANGED <<rows, begun, now>>
  BY <1>1 DEF RowsInv, RowsInOrder, RowsOf, Opens, Closes
<1>2. CASE Tick
  BY <1>2 DEF RowsInv, RowsInOrder, RowsOf, Opens, Closes, Tick, Line
<1>3. ASSUME NEW e \in Grants, Grant(e) PROVE RowsInv'
  <2>1. Opens([entry |-> e, kind |-> "GRANT", amount |-> GrantUnits, at |-> now])
    BY DEF Opens
  <2> QED
    BY <1>3, <2>1, BeginKeepsRows DEF Grant, Kinds
<1>4. ASSUME NEW e \in Expiries, Expire(e) PROVE RowsInv'
  <2>1. Opens([entry |-> e, kind |-> "EXPIRE", amount |-> -GrantUnits, at |-> now])
    BY DEF Opens
  <2> QED
    BY <1>4, <2>1, BeginKeepsRows DEF Expire, Kinds
<1>5. ASSUME NEW e \in Generations, Reserve(e) PROVE RowsInv'
  <2>1. Opens([entry |-> e, kind |-> "RESERVE", amount |-> -HoldUnits, at |-> now])
    BY DEF Opens
  <2> QED
    BY <1>5, <2>1, BeginKeepsRows DEF Reserve, Kinds
<1>6. ASSUME NEW e \in Generations, Settle(e) PROVE RowsInv'
  <2>1. PICK c \in Costs : BeginRow(e, "SETTLE", HoldUnits - c)
    BY <1>6 DEF Settle
  <2>2. Closes([entry |-> e, kind |-> "SETTLE", amount |-> HoldUnits - c, at |-> now])
    BY DEF Closes
  <2>3. HoldUnits - c \in Int
    OBVIOUS
  <2> QED
    BY <1>6, <2>1, <2>2, <2>3, OpenHasOneRow, BeginKeepsRows DEF Settle, Kinds
<1>7. ASSUME NEW e \in Generations, Refund(e) PROVE RowsInv'
  <2>1. Closes([entry |-> e, kind |-> "REFUND", amount |-> HoldUnits, at |-> now])
    BY DEF Closes
  <2> QED
    BY <1>7, <2>1, OpenHasOneRow, BeginKeepsRows DEF Refund, Kinds
<1>8. ASSUME NEW w \in begun, End(w) PROVE RowsInv'
  BY <1>8, EndKeepsRows
<1> QED
  BY <1>1, <1>2, <1>3, <1>4, <1>5, <1>6, <1>7, <1>8 DEF HistoryNext, ReadPage, historyVars


-----------------------------------------------------------------------------
(* The reader.                                                             *)

(* Rows are only added, and a row comes with the time it began: an entry   *)
(* that changes moves away from what is after the cursor, or stays.        *)
LEMMA RowsGrow ==
  RowsInv /\ [HistoryNext]_historyVars =>
    /\ rows \subseteq rows'
    /\ UNCHANGED Reader \/ ReadPage
<1> SUFFICES ASSUME RowsInv, [HistoryNext]_historyVars
             PROVE  rows \subseteq rows' /\ (UNCHANGED Reader \/ ReadPage)
  OBVIOUS
<1>1. CASE UNCHANGED historyVars
  BY <1>1 DEF historyVars, Reader
<1>2. CASE Tick
  BY <1>2 DEF Tick, Reader
<1>3. ASSUME NEW e, NEW k, NEW a, BeginRow(e, k, a) PROVE rows \subseteq rows' /\ UNCHANGED Reader
  BY <1>3 DEF BeginRow, Reader
<1>4. ASSUME NEW w \in begun, End(w) PROVE rows \subseteq rows' /\ UNCHANGED Reader
  BY <1>4 DEF End, Reader
<1>5. CASE ReadPage
  BY <1>5 DEF ReadPage
<1> QED
  BY <1>1, <1>2, <1>3, <1>4, <1>5 DEF HistoryNext, Grant, Expire, Reserve, Settle, Refund

(* What the reader knows stays true while the ledger grows.                *)
LEMMA GrowingKeepsReader ==
  ASSUME RowsInv, ReaderInv, rows \subseteq rows', UNCHANGED Reader
  PROVE  ReaderInv'
<1>1. pc' = pc /\ cursor' = cursor /\ lines' = lines /\ firstRows' = firstRows
  BY DEF Reader
<1>2. ASSUME NEW e PROVE RowsOf(e) \subseteq RowsOf(e)'
  BY DEF RowsOf
<1>3. ListedEntries \subseteq ListedEntries'
  BY <1>2 DEF ListedEntries
<1>4. ASSUME NEW e, After(cursor, e)' PROVE After(cursor, e)
  BY <1>1, <1>2, <1>4 DEF After
<1>5. \A l \in lines' : l.entry \in ListedEntries' /\ (pc' # "done" => ~After(cursor, l.entry)')
  BY <1>1, <1>3, <1>4 DEF ReaderInv
<1>6. ASSUME NEW e \in ListedEntries', Unchanged(e)', pc # "new"
      PROVE  RowsOf(e)' = RowsOf(e) /\ Unchanged(e) /\ e \in ListedEntries
  BY <1>1, <1>2, <1>6 DEF ReaderInv, Unchanged, RowsOf, ListedEntries
<1>7. ASSUME NEW e \in ListedEntries', Unchanged(e)', pc' # "new"
      PROVE  \/ pc' = "paging" /\ After(cursor, e)'
             \/ \E l \in lines' : l.entry = e /\ l.amount = Net(e)'
  <2>1. RowsOf(e)' = RowsOf(e) /\ Unchanged(e) /\ e \in ListedEntries
    BY <1>1, <1>6, <1>7
  <2>2. (After(cursor, e)' <=> After(cursor, e)) /\ Net(e)' = Net(e)
    BY <1>1, <2>1 DEF After, Net, MapThenSumSet, MapThenFoldSet
  <2> QED
    BY <1>1, <1>7, <2>1, <2>2 DEF ReaderInv
<1>8. ASSUME pc # "new", rows' = firstRows PROVE \A l \in lines' : l.amount = Net(l.entry)'
  <2>1. rows' = rows
    BY <1>8 DEF ReaderInv
  <2>2. \A e : RowsOf(e)' = RowsOf(e)
    BY <2>1 DEF RowsOf
  <2>3. \A e : Net(e)' = Net(e)
    BY <2>2 DEF Net, MapThenSumSet, MapThenFoldSet
  <2> QED
    BY <1>1, <1>8, <2>1, <2>3 DEF ReaderInv
<1>9. (pc' # "new" => firstRows' \subseteq rows') /\ (pc' = "new" => lines' = {} /\ cursor' = NoCursor)
  BY <1>1 DEF ReaderInv
<1>10. PagesNeverRepeat' /\ LinesSayWhatHappened'
  BY <1>1 DEF ReaderInv, PagesNeverRepeat, LinesSayWhatHappened
<1> QED
  BY <1>1, <1>5, <1>7, <1>8, <1>9, <1>10 DEF ReaderInv, NoCursor, Point

(* A page: nothing on it was shown before, and what is left for the next   *)
(* pages is after the cursor.                                              *)
LEMMA PageIsRead ==
  ASSUME RowsInv, ReaderInv, ReadPage,
         NEW found, found = Newest(Limit + 1, {e \in ListedEntries : After(cursor, e)}),
         NEW page, page = Newest(Limit, found)
  PROVE  /\ page \subseteq ListedEntries /\ \A e \in page : After(cursor, e)
         /\ lines' = lines \cup LinesOf(page)
         /\ pc' \in {"paging", "done"}
         /\ pc' = "done" => \A e \in ListedEntries : After(cursor, e) => e \in page
         /\ cursor' \in [at : 0..MaxTime, entry : Entries] \cup {NoCursor}
         /\ pc' = "paging" => /\ \A e \in page : ~After(cursor', e)
                              /\ \A e \in ListedEntries : After(cursor, e) /\ e \notin page => After(cursor', e)
                              /\ \A e \in ListedEntries : After(cursor', e) => After(cursor, e)
<1> DEFINE Left == {e \in ListedEntries : After(cursor, e)}
<1>1. /\ pc # "done" /\ lines' = lines \cup LinesOf(page) /\ UNCHANGED <<rows, begun, now>>
      /\ IF Cardinality(found) > Limit
         THEN /\ pc' = "paging"
              /\ \E e \in CursorEntry(found, page) : \E at \in 0..now :
                   IsTimeOf(e, at) /\ cursor' = EncodeCursor(at, e)
         ELSE pc' = "done" /\ UNCHANGED cursor
  BY DEF ReadPage
<1>2. Limit \in Nat /\ Limit + 1 \in Nat
  BY HistoryAssumption
<1>3. found \subseteq Left /\ page \subseteq found /\ Left \subseteq ListedEntries
  BY DEF Newest
<1>4. IsFiniteSet(found) /\ Cardinality(found) \in Nat
  BY <1>3, ListedAreFinite, FS_Subset, FS_CardinalityType
<1>5. CASE ~ (Cardinality(found) > Limit)
  <2>1. pc' = "done" /\ cursor' = cursor
    BY <1>1, <1>5
  <2>2. Cardinality(found) < Limit + 1
    BY <1>2, <1>4, <1>5
  <2>3. found = Left
    BY <1>2, <1>3, <2>2, PageWithRoomIsAll
  <2>4. page = found
    BY <1>2, <1>3, <1>4, <1>5, WhatFitsIsOnThePage
  <2> QED
    BY <1>1, <1>3, <2>1, <2>3, <2>4 DEF ReaderInv
<1>6. CASE Cardinality(found) > Limit
  <2>1. PICK k \in CursorEntry(found, page), at \in 0..now : IsTimeOf(k, at) /\ cursor' = EncodeCursor(at, k)
    BY <1>1, <1>6
  <2>2. k \in page /\ k \in ListedEntries /\ (\A f \in page \ {k} : InFront(f, k)) /\ at \in Nat
    BY <1>3, <2>1 DEF CursorEntry, RowsInv
  <2>3. at = TimeOf(k) /\ k \in Nat /\ k \in Entries
    BY <2>1, <2>2, ListedAreTimed
  <2>4. cursor' = [at |-> TimeOf(k), entry |-> k]
    BY <2>1, <2>3 DEF EncodeCursor, Point
  <2>5. ASSUME NEW e \in ListedEntries PROVE After(cursor', e) <=> Before(k, e)
    <3>1. e \in Nat /\ TimeOf(e) \in Nat /\ TimeOf(k) \in Nat
      BY <2>2, ListedAreTimed DEF RowsInv
    <3>2. cursor'.at = TimeOf(k) /\ cursor'.entry = k /\ cursor'.at \in Nat /\ cursor'.entry \in Nat
      BY <2>3, <2>4, <3>1
    <3> QED
      BY <3>2, AfterByTime DEF Before
  <2>6. ASSUME NEW e \in page PROVE ~After(cursor', e)
    <3>1. e \in ListedEntries
      BY <1>3
    <3>2. e = k \/ Before(e, k)
      BY <2>2, <3>1, InFrontIsBefore
    <3>3. ~Before(k, e)
      BY <2>2, <3>1, <3>2, BeforeIsAnOrder
    <3> QED
      BY <2>5, <3>1, <3>3
  <2>7. ASSUME NEW e \in Left, e \notin page PROVE After(cursor', e)
    <3>1. CASE e \in found
      BY <1>2, <1>3, <2>2, <2>5, <2>7, <3>1, PageIsInFront
    <3>2. CASE e \notin found
      <4>1. k \in Newest(Limit + 1, Left) /\ e \in Left \ Newest(Limit + 1, Left)
        BY <1>3, <2>2, <3>2
      <4>2. Before(k, e)
        BY <1>2, <1>3, <4>1, PageIsInFront
      <4> QED
        BY <2>5, <4>2
    <3> QED
      BY <3>1, <3>2
  <2>8. ASSUME NEW e \in ListedEntries, After(cursor', e) PROVE After(cursor, e)
    <3>1. Before(k, e) /\ After(cursor, k)
      BY <1>3, <2>2, <2>5, <2>8
    <3>2. cursor.at \in Nat /\ cursor.entry \in Nat
      <4>1. MaxTime \in Nat /\ Entries \subseteq Nat
        BY HistoryAssumption
      <4>2. CASE cursor = NoCursor
        BY <4>1, <4>2 DEF NoCursor, Point
      <4>3. CASE cursor \in [at : 0..MaxTime, entry : Entries]
        <5>1. cursor.at \in 0..MaxTime /\ cursor.entry \in Entries
          BY <4>3
        <5>2. cursor.at \in Nat
          BY <4>1, <5>1
        <5>3. cursor.entry \in Nat
          BY <4>1, <5>1
        <5> QED
          BY <5>2, <5>3
      <4> QED
        BY <4>2, <4>3 DEF ReaderInv
    <3>3. (cursor.at > TimeOf(k) \/ (cursor.at = TimeOf(k) /\ cursor.entry > k))
      BY <2>2, <3>1, <3>2, AfterByTime
    <3>4. e \in Nat /\ TimeOf(e) \in Nat /\ TimeOf(k) \in Nat
      BY <2>2, ListedAreTimed DEF RowsInv
    <3>5. cursor.at > TimeOf(e) \/ (cursor.at = TimeOf(e) /\ cursor.entry > e)
      BY <2>3, <3>1, <3>2, <3>3, <3>4 DEF Before
    <3> QED
      BY <3>2, <3>5, AfterByTime
  <2>9. cursor' \in [at : 0..MaxTime, entry : Entries]
    BY <2>1, <2>3, HistoryAssumption DEF EncodeCursor, Point, RowsInv
  <2> QED
    BY <1>1, <1>3, <1>6, <2>6, <2>7, <2>8, <2>9
<1> QED
  BY <1>5, <1>6


(* A page keeps what the reader was told, and adds what it reads.          *)
LEMMA ReadingKeepsReader ==
  ASSUME RowsInv, ReaderInv, ReadPage
  PROVE  ReaderInv'
<1>1. PICK found : found = Newest(Limit + 1, {e \in ListedEntries : After(cursor, e)})
  OBVIOUS
<1>2. PICK page : page = Newest(Limit, found)
  OBVIOUS
<1>3. /\ page \subseteq ListedEntries /\ \A e \in page : After(cursor, e)
      /\ lines' = lines \cup LinesOf(page)
      /\ pc' \in {"paging", "done"}
      /\ pc' = "done" => \A e \in ListedEntries : After(cursor, e) => e \in page
      /\ cursor' \in [at : 0..MaxTime, entry : Entries] \cup {NoCursor}
      /\ pc' = "paging" => /\ \A e \in page : ~After(cursor', e)
                           /\ \A e \in ListedEntries : After(cursor, e) /\ e \notin page => After(cursor', e)
                           /\ \A e \in ListedEntries : After(cursor', e) => After(cursor, e)
  BY <1>1, <1>2, PageIsRead
<1>4. /\ rows' = rows /\ pc # "done" /\ firstRows' = IF pc = "new" THEN rows ELSE firstRows
      /\ \A e : RowsOf(e)' = RowsOf(e)
  BY DEF ReadPage, RowsOf
<1>5. /\ ListedEntries' = ListedEntries
      /\ \A e : (After(cursor, e)' <=> After(cursor', e))
  BY <1>4 DEF ListedEntries, After
<1>6. \A e : Net(e)' = Net(e)
  BY <1>4 DEF Net, MapThenSumSet, MapThenFoldSet
<1>7. ASSUME NEW l \in LinesOf(page)
      PROVE  /\ l.entry \in page /\ l.amount = Net(l.entry) /\ l \in Line
             /\ l = LineOf(l.entry, TimeOf(l.entry))
             /\ l.kind = "SETTLE" => l.amount < 0
             /\ l.kind = "REFUND" => l.amount = 0
  <2>1. PICK e \in page : l = LineOf(e, TimeOf(e))
    BY <1>3, LinesOfEntries
  <2>2. l.entry = e /\ l.kind = KindOf(e) /\ l.amount = Net(e) /\ l.at = TimeOf(e)
    BY <2>1 DEF LineOf
  <2>3. e \in ListedEntries /\ e \in Entries /\ TimeOf(e) \in Nat
    BY <1>3, ListedAreTimed DEF RowsInv
  <2>4. /\ Net(e) \in Int /\ KindOf(e) \in Kinds
        /\ KindOf(e) = "SETTLE" => Net(e) < 0
        /\ KindOf(e) = "REFUND" => Net(e) = 0
    BY <2>3, LineIsTrue
  <2> QED
    BY <2>1, <2>2, <2>3, <2>4 DEF LineOf, Line
<1>8. ASSUME NEW e \in page
      PROVE  LineOf(e, TimeOf(e)) \in LinesOf(page) /\ LineOf(e, TimeOf(e)).entry = e
             /\ LineOf(e, TimeOf(e)).amount = Net(e)
  BY <1>3, LinesOfEntries DEF LineOf
<1>9. \A l \in lines : l.entry \in ListedEntries /\ l.entry \notin page
  BY <1>3, <1>4 DEF ReaderInv
<1>10. PagesNeverRepeat'
  <2> SUFFICES ASSUME NEW a \in lines', NEW b \in lines', a.entry = b.entry PROVE a = b
    BY DEF PagesNeverRepeat
  <2>1. CASE a \in lines /\ b \in lines
    BY <2>1 DEF ReaderInv, PagesNeverRepeat
  <2>2. CASE a \in LinesOf(page) /\ b \in LinesOf(page)
    BY <1>7, <2>2
  <2> QED
    BY <1>3, <1>7, <1>9, <2>1, <2>2
<1>11. LinesSayWhatHappened'
  BY <1>3, <1>7 DEF ReaderInv, LinesSayWhatHappened
<1>12. \A l \in lines' : l.entry \in ListedEntries' /\ (pc' # "done" => ~After(cursor, l.entry)')
  <2> SUFFICES ASSUME NEW l \in lines'
               PROVE  l.entry \in ListedEntries /\ (pc' # "done" => ~After(cursor', l.entry))
    BY <1>5
  <2>1. CASE l \in lines
    BY <1>3, <1>4, <1>9, <2>1 DEF ReaderInv
  <2>2. CASE l \in LinesOf(page)
    BY <1>3, <1>7, <2>2
  <2> QED
    BY <1>3, <2>1, <2>2
<1>13. ASSUME NEW e \in ListedEntries', Unchanged(e)'
       PROVE  \/ pc' = "paging" /\ After(cursor, e)'
              \/ \E l \in lines' : l.entry = e /\ l.amount = Net(e)'
  <2>1. e \in ListedEntries
    BY <1>5
  <2>2. CASE After(cursor, e)
    <3>1. CASE e \in page
      BY <1>3, <1>6, <1>8, <3>1
    <3>2. CASE e \notin page
      BY <1>3, <1>5, <2>1, <2>2, <3>2
    <3> QED
      BY <3>1, <3>2
  <2>3. CASE ~After(cursor, e) /\ pc # "new"
    <3>1. Unchanged(e)
      BY <1>4, <1>13, <2>3 DEF Unchanged
    <3>2. PICK l \in lines : l.entry = e /\ l.amount = Net(e)
      BY <2>1, <2>3, <3>1 DEF ReaderInv
    <3> QED
      BY <1>3, <1>6, <3>2
  <2>4. CASE pc = "new"
    <3>1. cursor = NoCursor
      BY <2>4 DEF ReaderInv
    <3>2. \A r \in RowsOf(e) : r.at \in Nat /\ r.at < MaxTime + 1
      BY HistoryAssumption DEF RowsInv, RowsOf, Line
    <3>3. After(cursor, e)
      BY <3>1, <3>2, HistoryAssumption DEF After, Precedes, NoCursor, Point
    <3> QED
      BY <2>2, <3>3
  <2> QED
    BY <2>2, <2>3, <2>4
<1>14. ASSUME rows' = firstRows' PROVE \A l \in lines' : l.amount = Net(l.entry)'
  <2>1. \A l \in lines : l.amount = Net(l.entry)
    BY <1>4, <1>14 DEF ReaderInv
  <2> QED
    BY <1>3, <1>6, <1>7, <2>1
<1>15. firstRows' \subseteq rows' /\ firstRows' \subseteq Line /\ lines' \subseteq Line /\ pc' # "new"
  BY <1>3, <1>4, <1>7 DEF ReaderInv, RowsInv
<1>16. NoCursor' = NoCursor
  BY DEF NoCursor, Point
<1> QED
  BY <1>3, <1>10, <1>11, <1>12, <1>13, <1>14, <1>15, <1>16 DEF ReaderInv

(* Where it starts: nothing is written and nothing read.                   *)
LEMMA HistoryBegins == HistoryInit => HistoryInv
<1> SUFFICES ASSUME HistoryInit PROVE HistoryInv
  OBVIOUS
<1>1. RowsInv
  BY HistoryAssumption, FS_EmptySet DEF HistoryInit, RowsInv, RowsInOrder, RowsOf, Opens
<1>2. ReaderInv
  BY DEF HistoryInit, ReaderInv, NoCursor, PagesNeverRepeat, LinesSayWhatHappened, ListedEntries, RowsOf
<1> QED
  BY <1>1, <1>2 DEF HistoryInv

(* Every step keeps the invariant of the history.                          *)
LEMMA HistoryGoesOn == HistoryInv /\ [HistoryNext]_historyVars => HistoryInv'
<1> SUFFICES ASSUME HistoryInv, [HistoryNext]_historyVars PROVE HistoryInv'
  OBVIOUS
<1>1. RowsInv' /\ rows \subseteq rows' /\ (UNCHANGED Reader \/ ReadPage)
  BY StepKeepsRows, RowsGrow DEF HistoryInv
<1>2. CASE UNCHANGED Reader
  BY <1>1, <1>2, GrowingKeepsReader DEF HistoryInv
<1>3. CASE ReadPage
  BY <1>1, <1>3, ReadingKeepsReader DEF HistoryInv
<1> QED
  BY <1>1, <1>2, <1>3 DEF HistoryInv

-----------------------------------------------------------------------------
(* What the reader has when it is done.                                    *)

(* A history read while nothing was written: entry by entry, the lines and *)
(* the rows have the same sums.                                            *)
LEMMA QuietAddsUp == HistoryInv => QuietHistoryAddsUp
<1> SUFFICES ASSUME HistoryInv, pc = "done", rows = firstRows
             PROVE  MapThenSumSet(LAMBDA r : r.amount, lines) = MapThenSumSet(LAMBDA r : r.amount, rows)
  BY DEF QuietHistoryAddsUp
<1> DEFINE net == [e \in ListedEntries |-> Net(e)]
           rowEntry == [r \in rows |-> r.entry]
           lineEntry == [l \in lines |-> l.entry]
<1> USE DEF HistoryInv
<1>1. IsFiniteSet(rows) /\ IsFiniteSet(ListedEntries)
  BY ListedAreFinite DEF RowsInv
<1>2. IsFiniteSet(lines)
  <2>1. lineEntry \in [lines -> ListedEntries]
    BY DEF ReaderInv
  <2>2. \A a, b \in lines : lineEntry[a] = lineEntry[b] => a = b
    BY DEF ReaderInv, PagesNeverRepeat
  <2>3. lineEntry \in Injection(lines, ListedEntries)
    BY <2>1, <2>2 DEF Injection, IsInjective
  <2> QED
    BY <1>1, <2>3, FS_Injection
<1>3. ASSUME NEW e \in ListedEntries
      PROVE  net[e] = SumFunctionOnSet(Amounts(rows), {r \in rows : rowEntry[r] = e})
  <2>1. IsFiniteSet(RowsOf(e)) /\ RowsOf(e) = {r \in rows : rowEntry[r] = e} /\ RowsOf(e) \subseteq rows
    BY <1>1, FS_Subset DEF RowsOf
  <2>2. Net(e) = SumFunctionOnSet(Amounts(RowsOf(e)), RowsOf(e))
    BY <2>1, SumOfAmounts DEF Net
  <2>3. \A r \in RowsOf(e) : Amounts(RowsOf(e))[r] = Amounts(rows)[r]
    BY <2>1 DEF Amounts
  <2>4. SumFunctionOnSet(Amounts(RowsOf(e)), RowsOf(e)) = SumFunctionOnSet(Amounts(rows), RowsOf(e))
    <3>1. PICK f, g, S : f = Amounts(RowsOf(e)) /\ g = Amounts(rows) /\ S = RowsOf(e)
      OBVIOUS
    <3>2. SumFunctionOnSet(f, S) = SumFunctionOnSet(g, S)
      BY ONLY <2>1, <2>3, <3>1, SumOfSame, ZenonT(30)
    <3> QED
      BY <3>1, <3>2
  <2> QED
    BY <2>1, <2>2, <2>4
<1>4. ASSUME NEW e \in ListedEntries
      PROVE  net[e] = SumFunctionOnSet(Amounts(lines), {l \in lines : lineEntry[l] = e})
  <2>1. Unchanged(e)
    BY DEF Unchanged, RowsOf
  <2>2. PICK l \in lines : l.entry = e /\ l.amount = Net(e)
    BY <2>1 DEF ReaderInv
  <2>3. {a \in lines : lineEntry[a] = e} = {l}
    BY <2>2 DEF ReaderInv, PagesNeverRepeat
  <2>4. Amounts(lines)[l] = Net(e) /\ Amounts(lines)[l] \in Int
    BY <2>2 DEF Amounts, ReaderInv, Line
  <2> QED
    BY <2>3, <2>4, SumOfOne
<1>5. /\ \A r \in rows : Amounts(rows)[r] \in Int /\ rowEntry[r] \in ListedEntries
      /\ \A l \in lines : Amounts(lines)[l] \in Int /\ lineEntry[l] \in ListedEntries
  BY DEF Amounts, RowsInv, ReaderInv, Line, ListedEntries, RowsOf
<1> HIDE DEF net, rowEntry, lineEntry
<1>6. PICK f, g, h, S, T, E : /\ f = Amounts(rows) /\ S = rows /\ h = Amounts(lines) /\ T = lines
                              /\ g = net /\ E = ListedEntries
  OBVIOUS
<1>7. SumFunctionOnSet(g, E) = SumFunctionOnSet(f, S)
  <2>1. PICK key : key = rowEntry
    OBVIOUS
  <2>2. /\ IsFiniteSet(S) /\ IsFiniteSet(E) /\ \A x \in S : f[x] \in Int /\ key[x] \in E
        /\ \A e \in E : g[e] = SumFunctionOnSet(f, Group(S, key, e))
    BY <1>1, <1>3, <1>5, <1>6, <2>1 DEF Group
  <2> QED
    BY ONLY <2>2, SumOfGroups
<1>8. SumFunctionOnSet(g, E) = SumFunctionOnSet(h, T)
  <2>1. PICK key : key = lineEntry
    OBVIOUS
  <2>2. /\ IsFiniteSet(T) /\ IsFiniteSet(E) /\ \A x \in T : h[x] \in Int /\ key[x] \in E
        /\ \A e \in E : g[e] = SumFunctionOnSet(h, Group(T, key, e))
    BY <1>1, <1>2, <1>4, <1>5, <1>6, <2>1 DEF Group
  <2> QED
    BY ONLY <2>2, SumOfGroups
<1> QED
  BY <1>1, <1>2, <1>6, <1>7, <1>8, SumOfAmounts

(* The history, read page by page while the ledger moves: each line once,  *)
(* every entry that stood still among them, and in a quiet ledger the      *)
(* balance itself (listHistory, credit.service.ts).                        *)
THEOREM HistoryAddsUp == HistorySpec => []PagesAddUp
<1>1. HistoryInv => PagesAddUp
  <2> SUFFICES ASSUME HistoryInv PROVE PagesAddUp
    OBVIOUS
  <2>1. HistoryTypeOK
    BY DEF HistoryInv, RowsInv, ReaderInv, HistoryTypeOK, NoCursor
  <2>2. NothingUnchangedIsSkipped
    BY DEF HistoryInv, ReaderInv, NothingUnchangedIsSkipped
  <2>3. PagesNeverRepeat /\ LinesSayWhatHappened
    BY DEF HistoryInv, ReaderInv
  <2> QED
    BY <2>1, <2>2, <2>3, QuietAddsUp DEF PagesAddUp
<1> QED
  BY <1>1, HistoryBegins, HistoryGoesOn, PTL DEF HistorySpec

-----------------------------------------------------------------------------
(***************************************************************************)
(* Workspaces and signing in (SignIn, Workspaces), for any number of       *)
(* people, teams, requests, sign-in flows, logins and logouts.             *)
(***************************************************************************)

(* A transaction that provisions a person holds their row, and what it     *)
(* found about their personal workspace is still so.                       *)
HoldsOwnRow == \A l \in Logins : login[l].at \in {"home", "commit"} => rowLock[login[l].who] = l
HomeIsNew ==
    \A l \in Logins : login[l].at = "commit" /\ login[l].newHome => Home(login[l].who) \notin existing

ProvisionInv == ProvisionedWholeAndOnce /\ LoginsNeverCollide /\ HoldsOwnRow /\ HomeIsNew

(* Sessions are opened last.                                               *)
SessionsLast ==
    \A l \in Logins :
        /\ session[l] = NoSession \/ session[l].state # "none"
        /\ session[l] # NoSession => login[l].at = "done"

(* A flow is stored by the login that made it, and nobody else will.       *)
Storing(l) == login[l].at \in {"exists", "store"}
StoresItsOwn ==
    /\ \A l \in Logins : Storing(l) => login[l].attempt \in Attempts /\ attempt[login[l].attempt] = "unused"
    /\ \A k, l \in Logins : Storing(k) /\ Storing(l) /\ login[k].attempt = login[l].attempt => k = l
    /\ \A l \in Logins : login[l].at = "consume" => login[l].attempt \in Attempts

(* A flow is spent by one login, and gone.                                 *)
Spent(l) ==
    /\ login[l].attempt \in Attempts
    /\ login[l].at \in {"exchange", "upsert", "home", "commit", "session"} \/ session[l] # NoSession
SpentOnce ==
    /\ \A l \in Logins : Spent(l) => attempt[login[l].attempt] = "gone"
    /\ \A k, l \in Logins : Spent(k) /\ Spent(l) /\ login[k].attempt = login[l].attempt => k = l

FlowInv == SessionsLast /\ StoresItsOwn /\ SpentOnce

(* The provider is told by the logout whose update found the session.      *)
LogoutInv ==
    /\ \A x \in Logouts :
        /\ logout[x].at \in {"revoke", "provider", "done"} => session[logout[x].session] # NoSession
        /\ logout[x].at \in {"provider", "done"} => session[logout[x].session].state = "revoked"
        /\ logout[x].at = "provider" => told[logout[x].session] = 0
    /\ \A x, y \in Logouts :
        logout[x].at = "provider" /\ logout[y].at = "provider" /\ logout[x].session = logout[y].session => x = y
    /\ \A s \in Logins : told[s] = 0 \/ (told[s] = 1 /\ session[s].state = "revoked")

(* A request that is under way is about a workspace that is there, and a   *)
(* fresh decision to write leaves an owner.                                *)
AboutExisting ==
    \A e \in TeamEdits :
        edit[e].at \notin {"idle", "done"} =>
            \/ edit[e].op = "create" /\ edit[e].at = "authorize"
            \/ edit[e].op # "create" /\ edit[e].ws \in existing
FreshDecision(e) ==
    LET c == edit[e]
    IN \/ c.op = "update" /\ c.to = "owner"
       \/ role[c.ws][c.target] # "owner"
       \/ \E u \in Users : u # c.target /\ role[c.ws][u] = "owner"
FreshDecisions ==
    \A e \in TeamEdits :
        edit[e].at = "write" /\ edit[e].op \in {"update", "remove"} /\ ~edit[e].stale => FreshDecision(e)

EditInv == AboutExisting /\ FreshDecisions

AccountsInv == TypeOK /\ ProvisionInv /\ FlowInv /\ LogoutInv /\ EditInv

-----------------------------------------------------------------------------
(* The invariant holds initially. *)
LEMMA AccountsInitially == Init => AccountsInv
<1> SUFFICES ASSUME Init PROVE AccountsInv
  OBVIOUS
<1> USE UsersAssumption, NamesAssumption DEF Init, InitCalls, InitRows
<1>1. (CHOOSE u \in Users : TRUE) \in Users /\ (CHOOSE w \in Workspaces : TRUE) \in Workspaces
  BY DEF Workspaces
<1>2. Logins # {} => (CHOOSE l \in Logins : TRUE) \in Logins
  OBVIOUS
<1>3. WorkspaceTypeOK
  <2>1. known \subseteq Users /\ existing \subseteq Workspaces /\ renamed \subseteq Workspaces
    BY DEF Workspaces
  <2>2. role \in [Workspaces -> [Users -> Roles \cup {NoRow}]]
    BY DEF Workspaces, Roles
  <2>3. edit \in [TeamEdits -> [at : EditSteps, op : EditOps, by : Users, ws : Workspaces,
                               target : Users, to : Roles, stale : BOOLEAN]]
    BY <1>1 DEF NoEdit, Over, EditSteps, EditOps, Roles
  <2> QED
    BY <2>1, <2>2, <2>3 DEF WorkspaceTypeOK
<1>4. AuthTypeOK
  <2>1. EndedLogin \in [at : LoginSteps, op : LoginOps, who : Users,
                       attempt : Attempts \cup {NoAttempt}, newHome : BOOLEAN]
    BY <1>1 DEF EndedLogin, LoginSteps, LoginOps
  <2>2. login \in [Logins -> [at : LoginSteps, op : LoginOps, who : Users,
                             attempt : Attempts \cup {NoAttempt}, newHome : BOOLEAN]]
    BY <2>1 DEF LoginSteps
  <2>3. session \in [Logins -> [user : Users \cup {NoRow},
                               state : {"none", "live", "expired", "revoked"}]]
    BY DEF NoSession
  <2>4. logout \in [Logouts -> [at : {"idle", "revoke", "provider", "done", "refused"},
                               session : Logins]]
    BY <1>2
  <2>5. /\ attempt \in [Attempts -> {"unused", "open", "lapsed", "gone"}]
        /\ rowLock \in [Users -> Logins \cup {NoLogin}]
        /\ grants \in [Users -> 0..2] /\ told \in [Logins -> Nat]
    OBVIOUS
  <2> QED
    BY <2>2, <2>3, <2>4, <2>5 DEF AuthTypeOK
<1>5. ProvisionInv
  <2>1. \A u \in Users : u \in known <=> Home(u) \in existing
    BY ZenonT(60) DEF Home
  <2> QED
    BY <2>1 DEF ProvisionInv, ProvisionedWholeAndOnce, LoginsNeverCollide, HoldsOwnRow, HomeIsNew,
        EndedLogin
<1>6. FlowInv
  BY DEF FlowInv, SessionsLast, StoresItsOwn, Storing, SpentOnce, Spent, EndedLogin, NoSession
<1>7. LogoutInv
  BY DEF LogoutInv
<1>8. EditInv
  BY DEF EditInv, AboutExisting, FreshDecisions, NoEdit, Over
<1> QED
  BY <1>3, <1>4, <1>5, <1>6, <1>7, <1>8 DEF AccountsInv, TypeOK

(* Every step keeps the types. *)
LEMMA WorkspaceTypesKept ==
    ASSUME TypeOK, EditNext \/ AuthNext \/ UNCHANGED vars PROVE WorkspaceTypeOK'
<1> USE UsersAssumption DEF TypeOK, WorkspaceTypeOK
<1>1. NoEdit \in [at : EditSteps, op : EditOps, by : Users, ws : Workspaces,
                           target : Users, to : Roles, stale : BOOLEAN]
  BY DEF NoEdit, EditSteps, EditOps, Roles, Workspaces
<1>2. Over \in [at : EditSteps, op : EditOps, by : Users, ws : Workspaces,
                           target : Users, to : Roles, stale : BOOLEAN]
  BY <1>1 DEF Over, EditSteps
<1>3. ASSUME NEW e, NEW w
      PROVE  StaleAfter(e, w) \in [TeamEdits -> [at : EditSteps, op : EditOps, by : Users, ws : Workspaces,
                               target : Users, to : Roles, stale : BOOLEAN]]
  BY DEF StaleAfter
<1>4. ASSUME NEW e \in TeamEdits, Refuse(e) PROVE WorkspaceTypeOK'
  BY <1>2, <1>4 DEF Refuse
<1>5. ASSUME NEW e \in TeamEdits, NEW to \in EditSteps, Step(e, to), UNCHANGED <<known, existing, role, renamed>>
      PROVE  WorkspaceTypeOK'
  BY <1>5 DEF Step
<1>6. ASSUME NEW e \in TeamEdits, NEW r \in Roles \cup {NoRow}, WriteRow(e, r) PROVE WorkspaceTypeOK'
  BY <1>2, <1>3, <1>6 DEF WriteRow
<1>7. ASSUME NEW e \in TeamEdits, NEW op \in EditOps, NEW u \in Users, NEW w \in Workspaces, NEW v \in Users,
             NEW r \in Roles, Ask(e, op, u, w, v, r) PROVE WorkspaceTypeOK'
  BY <1>7 DEF Ask, EditSteps
<1>8. ASSUME NEW e \in TeamEdits, CreateTeam(e) PROVE WorkspaceTypeOK'
  BY <1>2, <1>8 DEF CreateTeam, Workspaces, Roles
<1>9. ASSUME NEW e \in TeamEdits, Authorize(e) PROVE WorkspaceTypeOK'
  BY <1>4, <1>5, <1>9 DEF Authorize, EditSteps
<1>10. ASSUME NEW e \in TeamEdits, ReadTarget(e) PROVE WorkspaceTypeOK'
  <2>1. \/ edit' = [edit EXCEPT ![e].at = "write"] /\ UNCHANGED <<known, existing, role, renamed>>
        \/ \E to \in {"write", "count"} : Step(e, to) /\ UNCHANGED <<known, existing, role, renamed>>
        \/ Refuse(e)
    BY <1>10 DEF ReadTarget
  <2>2. {"write", "count"} \subseteq EditSteps
    BY DEF EditSteps
  <2>3. CASE edit' = [edit EXCEPT ![e].at = "write"] /\ UNCHANGED <<known, existing, role, renamed>>
    BY <2>2, <2>3
  <2> QED
    BY <1>4, <1>5, <2>1, <2>2, <2>3
<1>11. ASSUME NEW e \in TeamEdits, CountOwners(e) PROVE WorkspaceTypeOK'
  BY <1>4, <1>5, <1>11 DEF CountOwners, EditSteps
<1>12. ASSUME NEW e \in TeamEdits, AddMember(e) \/ UpdateMember(e) \/ RemoveMember(e) PROVE WorkspaceTypeOK'
  BY <1>6, <1>12 DEF AddMember, UpdateMember, RemoveMember
<1>13. ASSUME NEW e \in TeamEdits, Rename(e) PROVE WorkspaceTypeOK'
  BY <1>2, <1>13 DEF Rename
<1>14. ASSUME NEW l \in Logins, CommitProvision(l) PROVE WorkspaceTypeOK'
  <2>1. login[l].who \in Users /\ Home(login[l].who) \in Workspaces
    BY DEF AuthTypeOK, Workspaces
  <2>2. CASE UNCHANGED workspaceVars
    BY <2>2 DEF workspaceVars
  <2>3. CASE /\ known' = known \cup {login[l].who} /\ existing' = existing \cup {Home(login[l].who)}
             /\ role' = [role EXCEPT ![Home(login[l].who)][login[l].who] = IF @ = NoRow THEN "owner" ELSE @]
             /\ edit' = StaleAfter(NoRow, Home(login[l].who)) \/ edit' = edit
             /\ UNCHANGED renamed
    <3>1. known' \subseteq Users /\ existing' \subseteq Workspaces /\ renamed' \subseteq Workspaces
      BY <2>1, <2>3
    <3>2. role' \in [Workspaces -> [Users -> Roles \cup {NoRow}]]
      BY <2>1, <2>3 DEF Roles
    <3> QED
      BY <1>3, <2>3, <3>1, <3>2
  <2> QED
    BY <1>14, <2>2, <2>3 DEF CommitProvision
<1>15. CASE UNCHANGED workspaceVars
  BY <1>15 DEF workspaceVars
<1>16. CASE EditNext
  BY <1>16, <1>4, <1>7, <1>8, <1>9, <1>10, <1>11, <1>12, <1>13, SMTT(30) DEF EditNext, EditDies
<1>17. CASE AuthNext
  BY <1>14, <1>15, <1>17, ZenonT(60) DEF AuthNext, LoginStep, Begin, CheckExists, StoreAttempt, ArriveLogin, Consume,
     Exchange, UpsertUser, FindHome, OpenSession, LoginDies, ResolveSession, Revoke, TellProvider,
     AttemptLapses, SessionExpires, KeepRows, KeepAuth
<1> QED
  BY <1>15, <1>16, <1>17 DEF vars

(* Every step keeps the types of logins, attempts and sessions.            *)
LEMMA AuthTypesKept ==
    ASSUME TypeOK, AuthNext \/ UNCHANGED authVars PROVE AuthTypeOK'
<1> DEFINE Login == [at : LoginSteps, op : LoginOps, who : Users,
                     attempt : Attempts \cup {NoAttempt}, newHome : BOOLEAN]
           Session == [user : Users \cup {NoRow}, state : {"none", "live", "expired", "revoked"}]
<1> USE UsersAssumption, NamesAssumption DEF TypeOK, AuthTypeOK
<1>1. EndedLogin \in Login
  BY DEF EndedLogin, LoginSteps, LoginOps
<1>2. ASSUME NEW l \in Logins, NEW to \in LoginSteps, LoginTo(l, to) PROVE login' \in [Logins -> Login]
  BY <1>1, <1>2 DEF LoginTo
<1>3. ASSUME NEW l \in Logins, Unlock(l) PROVE rowLock' \in [Users -> Logins \cup {NoLogin}]
  BY <1>3 DEF Unlock
<1>4. ASSUME NEW l \in Logins, NEW op \in {"signUp", "google"}, NEW u \in Users, NEW a \in Attempts,
             Begin(l, op, u, a) PROVE AuthTypeOK'
  BY <1>4 DEF Begin, KeepRows, LoginSteps, LoginOps
<1>5. ASSUME NEW l \in Logins, NEW op \in {"password", "complete"}, NEW a \in Attempts \cup {NoAttempt},
             ArriveLogin(l, op, a) PROVE AuthTypeOK'
  <2>1. [login[l] EXCEPT !.at = IF op = "complete" THEN "consume" ELSE "exchange", !.op = op,
                         !.attempt = a] \in Login
    <3>1. (IF op = "complete" THEN "consume" ELSE "exchange") \in LoginSteps /\ op \in LoginOps
      BY DEF LoginSteps, LoginOps
    <3>2. login[l] \in Login
      OBVIOUS
    <3> QED
      BY <3>1, <3>2
  <2>2. login' = [login EXCEPT ![l] = [login[l] EXCEPT !.at = IF op = "complete" THEN "consume" ELSE "exchange",
                                                       !.op = op, !.attempt = a]]
    BY <1>5 DEF ArriveLogin
  <2> QED
    BY <1>5, <2>1, <2>2 DEF ArriveLogin, KeepRows
<1>6. ASSUME NEW l \in Logins, CheckExists(l) PROVE AuthTypeOK'
  BY <1>2, <1>6 DEF CheckExists, KeepRows, LoginSteps
<1>7. ASSUME NEW l \in Logins, StoreAttempt(l) PROVE AuthTypeOK'
  <2>1. attempt' \in [Attempts -> {"unused", "open", "lapsed", "gone"}]
    BY <1>7 DEF StoreAttempt
  <2>2. login' \in [Logins -> Login]
    BY <1>2, <1>7 DEF StoreAttempt, LoginSteps
  <2> QED
    BY <1>7, <2>1, <2>2 DEF StoreAttempt, KeepRows
<1>8. ASSUME NEW l \in Logins, Consume(l) PROVE AuthTypeOK'
  BY <1>2, <1>8 DEF Consume, KeepRows, LoginSteps
<1>9. ASSUME NEW l \in Logins, Exchange(l) PROVE AuthTypeOK'
  <2>1. login' \in [Logins -> Login]
    <3>1. CASE LoginTo(l, "done")
      BY <1>2, <3>1 DEF LoginSteps
    <3>2. ASSUME NEW u \in Users, login' = [login EXCEPT ![l].at = "upsert", ![l].who = u]
          PROVE  login' \in [Logins -> Login]
      <4>1. [login[l] EXCEPT !.at = "upsert", !.who = u] \in Login
        <5>1. "upsert" \in LoginSteps /\ login[l] \in Login
          BY DEF LoginSteps
        <5> QED
          BY <5>1
      <4>2. login' = [login EXCEPT ![l] = [login[l] EXCEPT !.at = "upsert", !.who = u]]
        BY <3>2
      <4> QED
        BY <4>1, <4>2
    <3> QED
      BY <1>9, <3>1, <3>2 DEF Exchange
  <2> QED
    BY <1>9, <2>1 DEF Exchange, KeepRows
<1>10. ASSUME NEW l \in Logins, UpsertUser(l) PROVE AuthTypeOK'
  <2>1. login' \in [Logins -> Login]
    BY <1>2, <1>10 DEF UpsertUser, LoginSteps
  <2> QED
    BY <1>10, <2>1 DEF UpsertUser
<1>11. ASSUME NEW l \in Logins, FindHome(l) PROVE AuthTypeOK'
  <2> DEFINE r == [login[l] EXCEPT !.at = "commit", !.newHome = Home(login[l].who) \notin existing]
  <2>1. (Home(login[l].who) \notin existing) \in BOOLEAN
    OBVIOUS
  <2>2. r \in Login
    <3>1. "commit" \in LoginSteps /\ login[l] \in Login
      BY DEF LoginSteps
    <3> QED
      BY <2>1, <3>1
  <2>3. login' = [login EXCEPT ![l] = r]
    BY <1>11 DEF FindHome
  <2> QED
    BY <1>11, <2>2, <2>3 DEF FindHome, KeepRows
<1>12. ASSUME NEW l \in Logins, CommitProvision(l) PROVE AuthTypeOK'
  <2>1. login' \in [Logins -> Login] /\ rowLock' \in [Users -> Logins \cup {NoLogin}]
    BY <1>2, <1>3, <1>12 DEF CommitProvision, LoginSteps
  <2>2. grants' \in [Users -> 0..2]
    BY <1>12 DEF CommitProvision
  <2> QED
    BY <1>12, <2>1, <2>2 DEF CommitProvision
<1>13. ASSUME NEW l \in Logins, OpenSession(l) PROVE AuthTypeOK'
  <2>1. login' \in [Logins -> Login]
    BY <1>2, <1>13 DEF OpenSession, LoginSteps
  <2>2. session' \in [Logins -> Session]
    BY <1>13 DEF OpenSession
  <2> QED
    BY <1>13, <2>1, <2>2 DEF OpenSession
<1>14. ASSUME NEW l \in Logins, LoginDies(l) PROVE AuthTypeOK'
  <2>1. login' \in [Logins -> Login] /\ rowLock' \in [Users -> Logins \cup {NoLogin}]
    BY <1>2, <1>3, <1>14 DEF LoginDies, LoginSteps
  <2> QED
    BY <1>14, <2>1 DEF LoginDies
<1>15. ASSUME NEW x \in Logouts, NEW s \in Logins, ResolveSession(x, s) PROVE AuthTypeOK'
  BY <1>15 DEF ResolveSession, KeepAuth
<1>16. ASSUME NEW x \in Logouts, Revoke(x) PROVE AuthTypeOK'
  <2>1. session' \in [Logins -> Session]
    BY <1>16 DEF Revoke
  <2>2. logout' \in [Logouts -> [at : {"idle", "revoke", "provider", "done", "refused"}, session : Logins]]
    BY <1>16, ZenonT(30) DEF Revoke, LogoutTo
  <2> QED
    BY <1>16, <2>1, <2>2 DEF Revoke, KeepAuth
<1>17. ASSUME NEW x \in Logouts, TellProvider(x) PROVE AuthTypeOK'
  BY <1>17 DEF TellProvider, LogoutTo, KeepAuth
<1>18. ASSUME NEW a \in Attempts, AttemptLapses(a) PROVE AuthTypeOK'
  BY <1>18 DEF AttemptLapses
<1>19. ASSUME NEW s \in Logins, SessionExpires(s) PROVE AuthTypeOK'
  BY <1>19, ZenonT(60) DEF SessionExpires, KeepAuth
<1>20. CASE UNCHANGED authVars
  BY <1>20 DEF authVars
<1>21. CASE AuthNext
  BY <1>4, <1>5, <1>6, <1>7, <1>8, <1>9, <1>10, <1>11, <1>12, <1>13, <1>14, <1>15, <1>16, <1>17, <1>18,
     <1>19, <1>21 DEF AuthNext, LoginStep
<1> QED
  BY <1>20, <1>21

-----------------------------------------------------------------------------
(* Effects: what a step may do to the rows that provisioning writes.       *)
LEMMA HomesComeByProvision ==
    ASSUME TypeOK, Next \/ UNCHANGED vars
    PROVE  \/ /\ known' = known /\ grants' = grants
              /\ \A u \in Users : Home(u) \in existing' <=> Home(u) \in existing
           \/ \E l \in Logins : CommitProvision(l)
<1> USE UsersAssumption
<1>1. CASE EditNext /\ UNCHANGED authVars
  BY <1>1, SMTT(30) DEF EditNext, Ask, CreateTeam, Authorize, ReadTarget, CountOwners, AddMember, UpdateMember,
     RemoveMember, Rename, EditDies, Refuse, WriteRow, authVars, TypeOK, WorkspaceTypeOK
<1>2. CASE UNCHANGED vars
  BY <1>2 DEF vars, workspaceVars, authVars
<1>3. CASE AuthNext
  <2>1. ASSUME NEW l \in Logins, ~CommitProvision(l), LoginStep(l) \/ LoginDies(l)
        PROVE  UNCHANGED <<workspaceVars, grants>>
    BY <2>1 DEF LoginStep, CheckExists, StoreAttempt, Consume, Exchange, UpsertUser, FindHome,
       OpenSession, LoginDies, KeepRows
  <2>2. ASSUME NEW l \in Logins,
               \/ \E op \in {"signUp", "google"}, u \in Users, a \in Attempts : Begin(l, op, u, a)
               \/ \E op \in {"password", "complete"}, a \in Attempts \cup {NoAttempt} : ArriveLogin(l, op, a)
        PROVE  UNCHANGED <<workspaceVars, grants>>
    BY <2>2 DEF Begin, ArriveLogin, KeepRows
  <2>3. CASE \/ \E x \in Logouts : (\E s \in Logins : ResolveSession(x, s)) \/ Revoke(x) \/ TellProvider(x)
             \/ \E a \in Attempts : AttemptLapses(a)
             \/ \E s \in Logins : SessionExpires(s)
    BY <2>3 DEF ResolveSession, Revoke, TellProvider, AttemptLapses, SessionExpires, KeepAuth,
       workspaceVars
  <2> QED
    BY <1>3, <2>1, <2>2, <2>3 DEF AuthNext, workspaceVars
<1> QED
  BY <1>1, <1>2, <1>3 DEF Next

(* Effects: how one login moves, and who has the lock after it.            *)
LEMMA LoginsMove ==
    ASSUME TypeOK, Next \/ UNCHANGED vars
    PROVE  \/ login' = login /\ rowLock' = rowLock
           \/ \E l \in Logins :
                /\ \A k \in Logins : k # l => login'[k] = login[k]
                /\ \/ UpsertUser(l) \/ FindHome(l) \/ CommitProvision(l)
                   \/ /\ login'[l].at \notin {"home", "commit", "collided"}
                      /\ rowLock' = rowLock \/ Unlock(l)
                      /\ login[l].at \in {"home", "commit"} => Unlock(l)
<1>1. CASE EditNext /\ UNCHANGED authVars
  BY <1>1 DEF authVars
<1>2. CASE UNCHANGED vars
  BY <1>2 DEF vars, authVars
<1>3. CASE AuthNext
  <2> USE DEF TypeOK, AuthTypeOK
  <2>1. ASSUME NEW l \in Logins, NEW to, LoginTo(l, to)
        PROVE  /\ \A k \in Logins : k # l => login'[k] = login[k]
               /\ login'[l].at = to
    BY <2>1 DEF LoginTo, EndedLogin
  <2>2. ASSUME NEW l \in Logins, NEW op \in {"signUp", "google"}, NEW u \in Users, NEW a \in Attempts,
               Begin(l, op, u, a)
        PROVE  /\ \A k \in Logins : k # l => login'[k] = login[k]
               /\ login'[l].at \notin {"home", "commit", "collided"} /\ rowLock' = rowLock
               /\ login[l].at \notin {"home", "commit"}
    BY <2>2 DEF Begin, KeepRows
  <2>3. ASSUME NEW l \in Logins, NEW op \in {"password", "complete"}, NEW a \in Attempts \cup {NoAttempt},
               ArriveLogin(l, op, a)
        PROVE  /\ \A k \in Logins : k # l => login'[k] = login[k]
               /\ login'[l].at \notin {"home", "commit", "collided"} /\ rowLock' = rowLock
               /\ login[l].at \notin {"home", "commit"}
    BY <2>3 DEF ArriveLogin, KeepRows
  <2>4. ASSUME NEW l \in Logins, CheckExists(l) \/ StoreAttempt(l) \/ Consume(l) \/ Exchange(l) \/ OpenSession(l)
        PROVE  /\ \A k \in Logins : k # l => login'[k] = login[k]
               /\ login'[l].at \notin {"home", "commit", "collided"} /\ rowLock' = rowLock
               /\ login[l].at \notin {"home", "commit"}
    BY <2>1, <2>4 DEF CheckExists, StoreAttempt, Consume, Exchange, OpenSession, KeepRows
  <2>5. ASSUME NEW l \in Logins, LoginDies(l)
        PROVE  /\ \A k \in Logins : k # l => login'[k] = login[k]
               /\ login'[l].at \notin {"home", "commit", "collided"} /\ Unlock(l)
    BY <2>1, <2>5 DEF LoginDies
  <2>6. ASSUME NEW l \in Logins, UpsertUser(l) \/ FindHome(l) \/ CommitProvision(l)
        PROVE  \A k \in Logins : k # l => login'[k] = login[k]
    BY <2>1, <2>6 DEF UpsertUser, FindHome, CommitProvision
  <2>7. CASE \/ \E x \in Logouts : (\E s \in Logins : ResolveSession(x, s)) \/ Revoke(x) \/ TellProvider(x)
             \/ \E a \in Attempts : AttemptLapses(a)
             \/ \E s \in Logins : SessionExpires(s)
    BY <2>7 DEF ResolveSession, Revoke, TellProvider, AttemptLapses, SessionExpires, KeepAuth
  <2> QED
    BY <1>3, <2>2, <2>3, <2>4, <2>5, <2>6, <2>7 DEF AuthNext, LoginStep
<1> QED
  BY <1>1, <1>2, <1>3 DEF Next

(* Effects: flows and sessions, of one login l.  It makes a flow, comes    *)
(* with a link or a password, stores, consumes or keeps its flow, and      *)
(* opens its session at the end.                                           *)
Moves(l) == \A k \in Logins : k # l => login'[k] = login[k]
Keeps(l) == Moves(l) /\ login'[l].attempt = login[l].attempt
MakesFlow(l) ==
    /\ Moves(l) /\ login[l].at = "idle" /\ Storing(l)' /\ UNCHANGED <<attempt, session>>
    /\ login'[l].attempt \in Attempts /\ attempt[login'[l].attempt] = "unused"
    /\ \A k \in Logins : login[k].attempt # login'[l].attempt
Comes(l) ==
    /\ Moves(l) /\ login[l].at = "idle" /\ UNCHANGED <<attempt, session>>
    /\ \/ login'[l].at = "exchange" /\ login'[l].attempt = NoAttempt
       \/ login'[l].at = "consume" /\ login'[l].attempt \in Attempts
GoesToStore(l) ==
    Keeps(l) /\ login[l].at = "exists" /\ login'[l].at = "store" /\ UNCHANGED <<attempt, session>>
StoresFlow(l) ==
    /\ Keeps(l) /\ login[l].at = "store" /\ login'[l].at = "done" /\ UNCHANGED session
    /\ attempt'[login[l].attempt] = "open"
    /\ \A a \in Attempts \ {login[l].attempt} :
        attempt'[a] = IF attempt[a] = "lapsed" THEN "gone" ELSE attempt[a]
ConsumesFlow(l) ==
    /\ Keeps(l) /\ login[l].at = "consume" /\ login'[l].at = "exchange" /\ UNCHANGED session
    /\ attempt[login[l].attempt] = "open"
    /\ attempt'[login[l].attempt] = "gone"
    /\ \A a \in Attempts \ {login[l].attempt} : attempt'[a] = attempt[a]
GoesAhead(l) ==
    /\ Keeps(l) /\ UNCHANGED <<attempt, session>>
    /\ login[l].at \in {"exchange", "upsert", "home", "commit"}
    /\ login'[l].at \in {"upsert", "home", "commit", "session", "collided"}
Ends(l) ==
    Keeps(l) /\ login[l].at \notin {"idle", "done"} /\ login'[l].at = "done" /\ UNCHANGED <<attempt, session>>
FlowOpens(l) ==
    /\ Keeps(l) /\ login[l].at = "session" /\ login'[l].at = "done" /\ UNCHANGED attempt
    /\ \A k \in Logins : k # l => session'[k] = session[k]
    /\ session'[l] # NoSession /\ session'[l].state = "live"
FlowStep(l) ==
    \/ MakesFlow(l) \/ Comes(l) \/ GoesToStore(l) \/ StoresFlow(l) \/ ConsumesFlow(l)
    \/ GoesAhead(l) \/ Ends(l) \/ FlowOpens(l)
SessionChanges(s) ==
    /\ UNCHANGED <<login, attempt>>
    /\ \A k \in Logins : k # s => session'[k] = session[k]
    /\ session[s] # NoSession /\ session'[s] # NoSession /\ session'[s].state # "none"
FlowLapses(a) ==
    /\ UNCHANGED <<login, session>> /\ attempt[a] = "open" /\ attempt'[a] = "lapsed"
    /\ \A b \in Attempts \ {a} : attempt'[b] = attempt[b]

(* What one step does to logins, attempts and sessions: one login takes    *)
(* its step, one session changes, or one attempt lapses.                   *)
LEMMA FlowsMove ==
    ASSUME TypeOK, StoresItsOwn, LogoutInv, Next \/ UNCHANGED vars
    PROVE  \/ UNCHANGED <<login, attempt, session>>
           \/ \E l \in Logins : FlowStep(l) \/ SessionChanges(l)
           \/ \E a \in Attempts : FlowLapses(a)
<1>1. CASE (EditNext /\ UNCHANGED authVars) \/ UNCHANGED vars
  BY <1>1 DEF vars, authVars
<1>2. CASE AuthNext
  <2> USE DEF TypeOK, AuthTypeOK
  <2>1. ASSUME NEW l \in Logins, NEW to, LoginTo(l, to)
        PROVE  Keeps(l) /\ login'[l].at = to
    BY <2>1 DEF LoginTo, EndedLogin, Keeps, Moves
  <2>2. ASSUME NEW l \in Logins, NEW op \in {"signUp", "google"}, NEW u \in Users, NEW a \in Attempts,
               Begin(l, op, u, a)
        PROVE  MakesFlow(l)
    BY <2>2 DEF Begin, KeepRows, Storing, MakesFlow, Moves
  <2>3. ASSUME NEW l \in Logins, NEW op \in {"password", "complete"}, NEW a \in Attempts \cup {NoAttempt},
               ArriveLogin(l, op, a)
        PROVE  Comes(l)
    <3>1. login' = [login EXCEPT ![l] = [login[l] EXCEPT !.at = IF op = "complete" THEN "consume" ELSE "exchange",
                                                         !.op = op, !.attempt = a]]
      BY <2>3 DEF ArriveLogin
    <3>2. login[l] \in [at : LoginSteps, op : LoginOps, who : Users,
                        attempt : Attempts \cup {NoAttempt}, newHome : BOOLEAN]
      OBVIOUS
    <3>3. /\ login'[l].at = IF op = "complete" THEN "consume" ELSE "exchange"
          /\ login'[l].attempt = a
      BY <3>1, <3>2
    <3>4. Moves(l)
      BY <3>1 DEF Moves
    <3> QED
      BY <2>3, <3>3, <3>4 DEF ArriveLogin, KeepRows, Comes
  <2>4. ASSUME NEW l \in Logins, CheckExists(l)
        PROVE  GoesToStore(l) \/ Ends(l)
    BY <2>1, <2>4 DEF CheckExists, KeepRows, GoesToStore, Ends
  <2>5. ASSUME NEW l \in Logins, StoreAttempt(l), StoresItsOwn
        PROVE  StoresFlow(l)
    BY <2>1, <2>5 DEF StoreAttempt, KeepRows, StoresFlow, StoresItsOwn, Storing
  <2>6. ASSUME NEW l \in Logins, Consume(l), StoresItsOwn
        PROVE  ConsumesFlow(l) \/ Ends(l)
    BY <2>1, <2>6 DEF Consume, KeepRows, ConsumesFlow, Ends, StoresItsOwn
  <2>7. ASSUME NEW l \in Logins, Exchange(l)
        PROVE  GoesAhead(l) \/ Ends(l)
    <3>1. CASE LoginTo(l, "done")
      BY <2>1, <2>7, <3>1 DEF Exchange, KeepRows, Ends
    <3>2. ASSUME NEW u \in Users, login' = [login EXCEPT ![l].at = "upsert", ![l].who = u]
          PROVE  Keeps(l) /\ login'[l].at = "upsert"
      <4>1. login' = [login EXCEPT ![l] = [login[l] EXCEPT !.at = "upsert", !.who = u]]
        BY <3>2
      <4>2. login[l] \in [at : LoginSteps, op : LoginOps, who : Users,
                          attempt : Attempts \cup {NoAttempt}, newHome : BOOLEAN]
        OBVIOUS
      <4>3. login'[l].at = "upsert" /\ login'[l].attempt = login[l].attempt
        BY <4>1, <4>2
      <4>4. Moves(l)
        BY <4>1 DEF Moves
      <4> QED
        BY <4>3, <4>4 DEF Keeps
    <3> QED
      BY <2>7, <3>1, <3>2 DEF Exchange, KeepRows, GoesAhead
  <2>8. ASSUME NEW l \in Logins, UpsertUser(l) \/ CommitProvision(l)
        PROVE  GoesAhead(l)
    BY <2>1, <2>8 DEF UpsertUser, CommitProvision, GoesAhead
  <2>9. ASSUME NEW l \in Logins, FindHome(l)
        PROVE  GoesAhead(l)
    BY <2>9 DEF FindHome, KeepRows, GoesAhead, Keeps, Moves
  <2>10. ASSUME NEW l \in Logins, OpenSession(l)
        PROVE  FlowOpens(l)
    BY <2>1, <2>10 DEF OpenSession, NoSession, FlowOpens
  <2>11. ASSUME NEW l \in Logins, LoginDies(l)
        PROVE  Ends(l)
    BY <2>1, <2>11 DEF LoginDies, Ends
  <2>12. ASSUME NEW x \in Logouts, NEW s \in Logins, ResolveSession(x, s) \/ TellProvider(x)
         PROVE  UNCHANGED <<login, attempt, session>>
    BY <2>12 DEF ResolveSession, TellProvider, KeepAuth
  <2>13. ASSUME NEW x \in Logouts, Revoke(x)
         PROVE  \E s \in Logins : SessionChanges(s)
    <3> DEFINE s == logout[x].session
    <3>1. s \in Logins /\ session[s] # NoSession
      BY <2>13 DEF Revoke, LogoutInv
    <3>2. session' = [session EXCEPT ![s].state = "revoked"] /\ UNCHANGED <<login, attempt>>
      BY <2>13 DEF Revoke, KeepAuth
    <3>3. session' = [session EXCEPT ![s] = session'[s]] /\ session'[s].state = "revoked"
      BY <3>1, <3>2
    <3>4. SessionChanges(s)
      BY <3>1, <3>2, <3>3 DEF NoSession, SessionChanges
    <3> QED
      BY <3>1, <3>4
  <2>14. ASSUME NEW s \in Logins, SessionExpires(s)
         PROVE  SessionChanges(s)
    BY <2>14 DEF SessionExpires, KeepAuth, NoSession, SessionChanges
  <2>15. ASSUME NEW a \in Attempts, AttemptLapses(a)
         PROVE  FlowLapses(a)
    BY <2>15 DEF AttemptLapses, FlowLapses
  <2>16. ASSUME NEW l \in Logins, LoginStep(l) \/ LoginDies(l)
         PROVE  FlowStep(l)
    BY <2>4, <2>5, <2>6, <2>7, <2>8, <2>9, <2>10, <2>11, <2>16 DEF LoginStep, FlowStep
  <2> QED
    BY <1>2, <2>2, <2>3, <2>12, <2>13, <2>14, <2>15, <2>16 DEF AuthNext, FlowStep
<1> QED
  BY <1>1, <1>2 DEF Next

-----------------------------------------------------------------------------
(* Provisioning: who holds a person's row is alone with it, so what it     *)
(* found is still so when it commits.                                      *)
LEMMA ProvisionInvKept ==
    ASSUME TypeOK, ProvisionInv, Next \/ UNCHANGED vars PROVE ProvisionInv'
<1> USE NamesAssumption DEF TypeOK, AuthTypeOK, ProvisionInv
<1>1. ASSUME NEW u, NEW v, Home(u) = Home(v) PROVE u = v
  BY <1>1 DEF Home
<1>2. HoldsOwnRow'
  <2>1. CASE login' = login /\ rowLock' = rowLock
    BY <2>1 DEF HoldsOwnRow
  <2>2. ASSUME NEW l \in Logins, \A k \in Logins : k # l => login'[k] = login[k], Unlock(l),
               login'[l].at \notin {"home", "commit"}
        PROVE  HoldsOwnRow'
    BY <2>2 DEF HoldsOwnRow, Unlock
  <2>3. ASSUME NEW l \in Logins, \A k \in Logins : k # l => login'[k] = login[k], rowLock' = rowLock,
               login'[l].at \notin {"home", "commit"}
        PROVE  HoldsOwnRow'
    BY <2>3 DEF HoldsOwnRow
  <2>4. ASSUME NEW l \in Logins, UpsertUser(l) PROVE HoldsOwnRow'
    BY <2>4 DEF HoldsOwnRow, UpsertUser, LoginTo
  <2>5. ASSUME NEW l \in Logins, FindHome(l) PROVE HoldsOwnRow'
    BY <2>5 DEF HoldsOwnRow, FindHome, KeepRows
  <2>6. ASSUME NEW l \in Logins, CommitProvision(l)
        PROVE  Unlock(l) /\ login'[l].at \notin {"home", "commit"}
    BY <2>6 DEF CommitProvision, LoginTo
  <2> QED
    BY <2>1, <2>2, <2>3, <2>4, <2>5, <2>6, LoginsMove
<1>3. ASSUME NEW l \in Logins, CommitProvision(l)
      PROVE  ProvisionedWholeAndOnce' /\ LoginsNeverCollide' /\ HomeIsNew'
  <2>1. /\ login[l].at = "commit" /\ ~(login[l].newHome /\ Home(login[l].who) \in existing)
        /\ login[l].who \in Users
    BY <1>3 DEF CommitProvision, HomeIsNew
  <2>2. /\ known' = known \cup {login[l].who} /\ existing' = existing \cup {Home(login[l].who)}
        /\ grants' = [grants EXCEPT ![login[l].who] = IF @ = 0 THEN 1 ELSE @]
        /\ LoginTo(l, "session")
    BY <1>3, <2>1 DEF CommitProvision
  <2>3. login'[l].at = "session" /\ \A k \in Logins : k # l => login'[k] = login[k]
    BY <2>2 DEF LoginTo
  <2>4. ProvisionedWholeAndOnce'
    <3> SUFFICES ASSUME NEW u \in Users
                 PROVE  /\ grants'[u] = (IF u \in known' THEN 1 ELSE 0)
                        /\ u \in known' <=> Home(u) \in existing'
      BY DEF ProvisionedWholeAndOnce
    <3>1. grants[u] = (IF u \in known THEN 1 ELSE 0) /\ (u \in known <=> Home(u) \in existing)
      BY DEF ProvisionedWholeAndOnce
    <3>2. Home(u) \in existing' <=> (u = login[l].who \/ Home(u) \in existing)
      BY <1>1, <2>2
    <3> QED
      BY <2>1, <2>2, <3>1, <3>2
  <2>5. LoginsNeverCollide'
    BY <2>3 DEF LoginsNeverCollide
  <2>6. HomeIsNew'
    <3> SUFFICES ASSUME NEW k \in Logins, login'[k].at = "commit", login'[k].newHome
                 PROVE  Home(login'[k].who) \notin existing'
      BY DEF HomeIsNew
    <3>1. k # l /\ login'[k] = login[k]
      BY <2>3
    <3>2. login[k].who # login[l].who
      BY <2>1, <3>1 DEF HoldsOwnRow
    <3>3. Home(login[k].who) \notin existing
      BY <3>1 DEF HomeIsNew
    <3> QED
      BY <1>1, <2>2, <3>1, <3>2, <3>3
  <2> QED
    BY <2>4, <2>5, <2>6
<1>4. ASSUME known' = known, grants' = grants, \A u \in Users : Home(u) \in existing' <=> Home(u) \in existing,
             \A l \in Logins : ~CommitProvision(l)
      PROVE  ProvisionedWholeAndOnce' /\ LoginsNeverCollide' /\ HomeIsNew'
  <2>1. ProvisionedWholeAndOnce'
    BY <1>4 DEF ProvisionedWholeAndOnce
  <2>2. CASE login' = login
    BY <1>4, <2>1, <2>2 DEF LoginsNeverCollide, HomeIsNew
  <2>3. ASSUME NEW l \in Logins, \A k \in Logins : k # l => login'[k] = login[k],
               login'[l].at \notin {"commit", "collided"}
        PROVE  LoginsNeverCollide' /\ HomeIsNew'
    BY <1>4, <2>3 DEF LoginsNeverCollide, HomeIsNew
  <2>4. ASSUME NEW l \in Logins, UpsertUser(l)
        PROVE  login'[l].at \notin {"commit", "collided"}
    BY <2>4 DEF UpsertUser, LoginTo
  <2>5. ASSUME NEW l \in Logins, FindHome(l) PROVE LoginsNeverCollide' /\ HomeIsNew'
    BY <2>5 DEF FindHome, KeepRows, workspaceVars, LoginsNeverCollide, HomeIsNew
  <2> QED
    BY <1>4, <2>1, <2>2, <2>3, <2>4, <2>5, LoginsMove
<1> QED
  BY <1>2, <1>3, <1>4, HomesComeByProvision

(* Flows: only the login that made a flow stores it, and only one gets it. *)
LEMMA FlowInvKept ==
    ASSUME TypeOK, FlowInv, LogoutInv, Next \/ UNCHANGED vars PROVE FlowInv'
<1> USE NamesAssumption DEF FlowInv
<1> DEFINE Same(k) == login'[k].attempt = login[k].attempt
           InTime(k) == login[k].at = "consume" => login[k].attempt \in Attempts
(* It is enough to look at the logins that store or have spent a flow after the step. *)
<1>1. ASSUME \A k \in Logins : Spent(k)' => Spent(k) /\ Same(k),
             \A a \in Attempts : attempt[a] = "gone" => attempt'[a] = "gone"
      PROVE  SpentOnce'
  <2>1. ASSUME NEW k \in Logins, Spent(k)' PROVE attempt'[login'[k].attempt] = "gone"
    BY <1>1, <2>1 DEF SpentOnce, Spent
  <2>2. ASSUME NEW k \in Logins, NEW m \in Logins, Spent(k)', Spent(m)',
               login'[k].attempt = login'[m].attempt
        PROVE  k = m
    BY <1>1, <2>2 DEF SpentOnce
  <2> QED
    BY <2>1, <2>2 DEF SpentOnce
<1>2. ASSUME \A k \in Logins : Storing(k)' => Storing(k) /\ Same(k)
                                              /\ attempt'[login[k].attempt] = attempt[login[k].attempt],
             \A k \in Logins : InTime(k)'
      PROVE  StoresItsOwn'
  <2>1. ASSUME NEW k \in Logins, Storing(k)'
        PROVE  login'[k].attempt \in Attempts /\ attempt'[login'[k].attempt] = "unused"
    BY <1>2, <2>1 DEF StoresItsOwn
  <2>2. ASSUME NEW k \in Logins, NEW m \in Logins, Storing(k)', Storing(m)',
               login'[k].attempt = login'[m].attempt
        PROVE  k = m
    BY <1>2, <2>2 DEF StoresItsOwn
  <2> QED
    BY <1>2, <2>1, <2>2 DEF StoresItsOwn
<1>3. ASSUME \A k \in Logins : login'[k].at = "done" \/ (login'[k] = login[k] /\ session'[k] = session[k])
                               \/ session'[k] = NoSession,
             \A k \in Logins : session'[k] = session[k] \/ session'[k].state = "live"
      PROVE  SessionsLast'
  BY <1>3 DEF SessionsLast, NoSession
<1>4. \A k \in Logins : InTime(k)
  BY DEF StoresItsOwn
<1>5. ASSUME NEW l \in Logins, login[l].at # "done" PROVE session[l] = NoSession
  BY <1>5 DEF SessionsLast
<1>6. CASE UNCHANGED <<login, attempt, session>>
  BY <1>6 DEF SessionsLast, StoresItsOwn, SpentOnce, Storing, Spent
<1>7. ASSUME NEW l \in Logins, Moves(l), UNCHANGED <<attempt, session>>, login[l].at # "done",
             InTime(l)', ~Storing(l)', Same(l) \/ ~Spent(l)', Spent(l)' => Spent(l)
      PROVE  FlowInv'
  <2>1. \A k \in Logins : Storing(k)' => Storing(k) /\ Same(k)
    BY <1>7 DEF Moves, Storing
  <2>2. \A k \in Logins : Spent(k)' => Spent(k) /\ Same(k)
    BY <1>7 DEF Moves, Spent
  <2>3. \A k \in Logins : InTime(k)'
    BY <1>4, <1>7 DEF Moves
  <2>4. \A k \in Logins : (login'[k] = login[k] /\ session'[k] = session[k]) \/ session'[k] = NoSession
    BY <1>5, <1>7 DEF Moves
  <2> QED
    BY <1>1, <1>2, <1>3, <1>7, <2>1, <2>2, <2>3, <2>4
<1>8. ASSUME NEW l \in Logins, MakesFlow(l) PROVE FlowInv'
  <2>1. login[l].at # "done" /\ login'[l].at # "consume" /\ ~Spent(l)'
    BY <1>5, <1>8 DEF MakesFlow, Storing, Spent
  <2>2. \A k \in Logins : k # l => login'[k] = login[k]
    BY <1>8 DEF MakesFlow, Moves
  <2>3. StoresItsOwn'
    <3>1. \A k \in Logins : Storing(k)' => login'[k].attempt \in Attempts /\ attempt'[login'[k].attempt] = "unused"
      BY <1>8, <2>2 DEF MakesFlow, Storing, StoresItsOwn
    <3>2. \A k, m \in Logins : Storing(k)' /\ Storing(m)' /\ login'[k].attempt = login'[m].attempt => k = m
      BY <1>8, <2>2 DEF MakesFlow, Storing, StoresItsOwn
    <3>3. \A k \in Logins : InTime(k)'
      BY <1>4, <2>1, <2>2
    <3> QED
      BY <3>1, <3>2, <3>3 DEF StoresItsOwn
  <2>4. \A k \in Logins : Spent(k)' => Spent(k) /\ Same(k)
    BY <1>8, <2>1, <2>2 DEF MakesFlow, Spent
  <2>5. SessionsLast'
    BY <1>3, <1>5, <1>8, <2>1, <2>2 DEF MakesFlow
  <2> QED
    BY <1>1, <1>8, <2>3, <2>4, <2>5 DEF MakesFlow
<1>9. ASSUME NEW l \in Logins, Comes(l) PROVE FlowInv'
  <2>1. /\ Moves(l) /\ UNCHANGED <<attempt, session>> /\ login[l].at # "done" /\ InTime(l)' /\ ~Storing(l)'
        /\ ~Spent(l)'
    BY <1>5, <1>9 DEF Comes, Storing, Spent
  <2> QED
    BY <1>7, <2>1
<1>10. ASSUME NEW l \in Logins, GoesAhead(l) \/ Ends(l), login[l].at # "done" PROVE FlowInv'
  <2>1. /\ Moves(l) /\ UNCHANGED <<attempt, session>> /\ InTime(l)' /\ ~Storing(l)' /\ Same(l)
        /\ Spent(l)' => Spent(l)
    BY <1>5, <1>10 DEF GoesAhead, Ends, Keeps, Storing, Spent
  <2> QED
    BY <1>7, <1>10, <2>1
<1>11. ASSUME NEW l \in Logins, GoesToStore(l) PROVE FlowInv'
  <2>1. /\ Moves(l) /\ UNCHANGED <<attempt, session>> /\ login[l].at # "done" /\ login'[l].at # "consume"
        /\ Same(l) /\ Storing(l) /\ ~Spent(l)'
    BY <1>5, <1>11 DEF GoesToStore, Keeps, Storing, Spent
  <2>2. \A k \in Logins : Storing(k)' => Storing(k) /\ Same(k)
    BY <2>1 DEF Moves, Storing
  <2>3. \A k \in Logins : Spent(k)' => Spent(k) /\ Same(k)
    BY <2>1 DEF Moves, Spent
  <2>4. \A k \in Logins : InTime(k)'
    BY <1>4, <2>1 DEF Moves
  <2>5. \A k \in Logins : (login'[k] = login[k] /\ session'[k] = session[k]) \/ session'[k] = NoSession
    BY <1>5, <2>1 DEF Moves
  <2> QED
    BY <1>1, <1>2, <1>3, <2>1, <2>2, <2>3, <2>4, <2>5
<1>12. ASSUME NEW l \in Logins, StoresFlow(l) PROVE FlowInv'
  <2>1. /\ Moves(l) /\ UNCHANGED session /\ login[l].at # "done" /\ login'[l].at = "done"
        /\ Same(l) /\ Storing(l) /\ ~Storing(l)' /\ ~Spent(l)'
    BY <1>5, <1>12 DEF StoresFlow, Keeps, Storing, Spent
  <2>2. attempt[login[l].attempt] = "unused"
    BY <2>1 DEF StoresItsOwn
  <2>3. \A a \in Attempts : attempt[a] = "gone" => attempt'[a] = "gone"
    BY <1>12, <2>2 DEF StoresFlow
  <2>4. \A k \in Logins : Spent(k)' => Spent(k) /\ Same(k)
    BY <2>1 DEF Moves, Spent
  <2>5. ASSUME NEW k \in Logins, Storing(k)'
        PROVE  Storing(k) /\ Same(k) /\ attempt'[login[k].attempt] = attempt[login[k].attempt]
    <3>1. k # l /\ Storing(k) /\ Same(k)
      BY <2>1, <2>5 DEF Moves, Storing
    <3>2. login[k].attempt \in Attempts \ {login[l].attempt} /\ attempt[login[k].attempt] = "unused"
      BY <2>1, <3>1 DEF StoresItsOwn
    <3> QED
      BY <1>12, <3>1, <3>2 DEF StoresFlow
  <2>6. \A k \in Logins : InTime(k)'
    BY <1>4, <2>1 DEF Moves
  <2>7. \A k \in Logins : (login'[k] = login[k] /\ session'[k] = session[k]) \/ session'[k] = NoSession
    BY <1>5, <2>1 DEF Moves
  <2> QED
    BY <1>1, <1>2, <1>3, <2>1, <2>3, <2>4, <2>5, <2>6, <2>7
<1>13. ASSUME NEW l \in Logins, ConsumesFlow(l) PROVE FlowInv'
  <2>1. /\ Moves(l) /\ UNCHANGED session /\ login[l].at = "consume" /\ login'[l].at = "exchange"
        /\ Same(l) /\ ~Storing(l)' /\ login[l].attempt \in Attempts
    BY <1>4, <1>13 DEF ConsumesFlow, Keeps, Storing
  <2>2. \A a \in Attempts : attempt'[a] = attempt[a] \/ (a = login[l].attempt /\ attempt[a] = "open" /\ attempt'[a] = "gone")
    BY <1>13 DEF ConsumesFlow
  <2>3. \A k \in Logins : k # l => login'[k] = login[k] /\ (Spent(k)' <=> Spent(k))
    BY <2>1 DEF Moves, Spent
  <2>4. \A k \in Logins : k # l /\ Spent(k) => login[k].attempt \in Attempts /\ attempt[login[k].attempt] = "gone"
    BY DEF SpentOnce, Spent
  <2>5. attempt'[login'[l].attempt] = "gone" /\ attempt[login[l].attempt] # "gone"
    BY <1>13, <2>1 DEF ConsumesFlow
  <2>6. SpentOnce'
    <3>1. ASSUME NEW k \in Logins, Spent(k)' PROVE attempt'[login'[k].attempt] = "gone"
      BY <2>2, <2>3, <2>4, <2>5, <3>1
    <3>2. ASSUME NEW k \in Logins, NEW m \in Logins, Spent(k)', Spent(m)', login'[k].attempt = login'[m].attempt
          PROVE  k = m
      BY <2>1, <2>3, <2>4, <2>5, <3>2 DEF SpentOnce
    <3> QED
      BY <3>1, <3>2 DEF SpentOnce
  <2>7. ASSUME NEW k \in Logins, Storing(k)'
        PROVE  Storing(k) /\ Same(k) /\ attempt'[login[k].attempt] = attempt[login[k].attempt]
    <3>1. Storing(k) /\ Same(k)
      BY <2>1, <2>7 DEF Moves, Storing
    <3>2. login[k].attempt \in Attempts /\ attempt[login[k].attempt] = "unused"
      BY <3>1 DEF StoresItsOwn
    <3> QED
      BY <2>2, <3>1, <3>2
  <2>8. \A k \in Logins : InTime(k)'
    BY <1>4, <2>1 DEF Moves
  <2>9. \A k \in Logins : (login'[k] = login[k] /\ session'[k] = session[k]) \/ session'[k] = NoSession
    BY <1>5, <2>1 DEF Moves
  <2> QED
    BY <1>2, <1>3, <2>1, <2>6, <2>7, <2>8, <2>9
<1>14. ASSUME NEW l \in Logins, FlowOpens(l) PROVE FlowInv'
  <2>1. /\ Moves(l) /\ UNCHANGED attempt /\ login[l].at = "session" /\ login'[l].at = "done" /\ Same(l)
        /\ \A k \in Logins : k # l => session'[k] = session[k]
        /\ session'[l].state = "live"
    BY <1>14 DEF FlowOpens, Keeps
  <2>2. \A k \in Logins : Storing(k)' => Storing(k) /\ Same(k)
    BY <2>1 DEF Moves, Storing
  <2>3. \A k \in Logins : Spent(k)' => Spent(k) /\ Same(k)
    BY <2>1 DEF Moves, Spent
  <2>4. \A k \in Logins : InTime(k)'
    BY <1>4, <2>1 DEF Moves
  <2>5. SessionsLast'
    BY <1>3, <2>1 DEF Moves
  <2> QED
    BY <1>1, <1>2, <2>1, <2>2, <2>3, <2>4, <2>5
<1>15. ASSUME NEW s \in Logins, SessionChanges(s) PROVE FlowInv'
  <2>1. \A k \in Logins : (session[k] # NoSession) <=> (session'[k] # NoSession)
    BY <1>15 DEF SessionChanges
  <2>2. SessionsLast'
    BY <1>15, <2>1 DEF SessionChanges, SessionsLast
  <2>3. \A k \in Logins : /\ Spent(k)' => Spent(k) /\ Same(k)
                          /\ Storing(k)' => Storing(k) /\ Same(k)
    BY <1>15, <2>1 DEF SessionChanges, Spent, Storing
  <2> QED
    BY <1>1, <1>2, <1>4, <1>15, <2>2, <2>3 DEF SessionChanges
<1>16. ASSUME NEW a \in Attempts, FlowLapses(a) PROVE FlowInv'
  <2>1. UNCHANGED <<login, session>>
    BY <1>16 DEF FlowLapses
  <2>2. \A k \in Logins : /\ Spent(k)' => Spent(k) /\ Same(k)
                          /\ Storing(k)' => Storing(k) /\ Same(k)
    BY <2>1 DEF Spent, Storing
  <2>3. \A k \in Logins : Storing(k) => attempt'[login[k].attempt] = attempt[login[k].attempt]
    BY <1>16 DEF FlowLapses, StoresItsOwn
  <2>4. \A b \in Attempts : attempt[b] = "gone" => attempt'[b] = "gone"
    BY <1>16 DEF FlowLapses
  <2>5. SessionsLast'
    BY <2>1 DEF SessionsLast
  <2> QED
    BY <1>1, <1>2, <1>4, <2>1, <2>2, <2>3, <2>4, <2>5
<1> QED
  BY <1>6, <1>8, <1>9, <1>10, <1>11, <1>12, <1>13, <1>14, <1>15, <1>16, FlowsMove DEF FlowStep, FlowInv, GoesAhead, Ends

(* Logouts: of two that meet, one finds the session unrevoked.             *)
LEMMA LogoutInvKept ==
    ASSUME TypeOK, FlowInv, LogoutInv, Next \/ UNCHANGED vars PROVE LogoutInv'
<1> USE DEF TypeOK, AuthTypeOK
<1>1. ASSUME NEW x \in Logouts, NEW s \in Logins, ResolveSession(x, s) PROVE LogoutInv'
  BY <1>1 DEF ResolveSession, KeepAuth, LogoutInv
<1>2. ASSUME NEW x \in Logouts, Revoke(x) PROVE LogoutInv'
  BY <1>2 DEF Revoke, LogoutTo, KeepAuth, LogoutInv, NoSession
<1>3. ASSUME NEW x \in Logouts, TellProvider(x) PROVE LogoutInv'
  BY <1>3 DEF TellProvider, LogoutTo, KeepAuth, LogoutInv
<1>4. ASSUME NEW s \in Logins, SessionExpires(s) PROVE LogoutInv'
  BY <1>4 DEF SessionExpires, KeepAuth, LogoutInv, NoSession
<1>5. ASSUME NEW l \in Logins, OpenSession(l) PROVE LogoutInv'
  <2>1. session[l] = NoSession
    BY <1>5 DEF OpenSession, FlowInv, SessionsLast
  <2> QED
    BY <1>5, <2>1 DEF OpenSession, LogoutInv, NoSession
<1>6. CASE UNCHANGED <<session, logout, told>>
  BY <1>6 DEF LogoutInv
<1>7. CASE AuthNext
  <2>1. ASSUME NEW l \in Logins, LoginStep(l) \/ LoginDies(l), ~OpenSession(l)
        PROVE  UNCHANGED <<session, logout, told>>
    BY <2>1 DEF LoginStep, LoginDies, CheckExists, StoreAttempt, Consume, Exchange, UpsertUser, FindHome,
       CommitProvision, KeepRows
  <2>2. ASSUME NEW l \in Logins,
               \/ \E op \in {"signUp", "google"}, u \in Users, a \in Attempts : Begin(l, op, u, a)
               \/ \E op \in {"password", "complete"}, a \in Attempts \cup {NoAttempt} : ArriveLogin(l, op, a)
        PROVE  UNCHANGED <<session, logout, told>>
    BY <2>2 DEF Begin, ArriveLogin, KeepRows
  <2>3. ASSUME NEW a \in Attempts, AttemptLapses(a) PROVE UNCHANGED <<session, logout, told>>
    BY <2>3 DEF AttemptLapses
  <2> QED
    BY <1>1, <1>2, <1>3, <1>4, <1>5, <1>6, <1>7, <2>1, <2>2, <2>3 DEF AuthNext
<1> QED
  BY <1>6, <1>7 DEF Next, vars, authVars
-----------------------------------------------------------------------------
(* More than one owner means one besides the target. *)
LEMMA AnotherOwner ==
    ASSUME NEW w, NEW v, Cardinality(Owners(w)) > 1
    PROVE  \E u \in Users : u # v /\ role[w][u] = "owner"
<1> SUFFICES ASSUME \A u \in Users : role[w][u] = "owner" => u = v PROVE FALSE
  OBVIOUS
<1>1. Owners(w) = {} \/ Owners(w) = {v}
  BY DEF Owners
<1>2. Cardinality({}) = 0 /\ Cardinality({v}) = 1
  BY FS_EmptySet, FS_Singleton
<1> QED
  BY <1>1, <1>2

(* Edits: a write of a membership makes every decision on it stale, so a   *)
(* decision that is fresh was made on the rows that are there.             *)
LEMMA EditInvKept ==
    ASSUME TypeOK, EditInv, Next \/ UNCHANGED vars PROVE EditInv'
<1> USE UsersAssumption DEF TypeOK, WorkspaceTypeOK, EditInv
<1>1. CASE UNCHANGED workspaceVars
  BY <1>1 DEF workspaceVars, AboutExisting, FreshDecisions, FreshDecision
(* One request goes on and no row of a membership is written. *)
<1>2. ASSUME NEW e \in TeamEdits, \A x \in TeamEdits : x # e => edit'[x] = edit[x], UNCHANGED role,
             existing \subseteq existing',
             edit'[e].at \notin {"idle", "done"} =>
                \/ edit'[e].op = "create" /\ edit'[e].at = "authorize"
                \/ edit'[e].op # "create" /\ edit'[e].ws \in existing,
             edit'[e].at = "write" /\ edit'[e].op \in {"update", "remove"} => FreshDecision(e)'
      PROVE  EditInv'
  <2>1. AboutExisting'
    BY <1>2 DEF AboutExisting
  <2>2. FreshDecisions'
    BY <1>2 DEF FreshDecisions, FreshDecision
  <2> QED
    BY <2>1, <2>2
<1>3. ASSUME NEW e \in TeamEdits, NEW op \in EditOps, NEW u \in Users, NEW w \in Workspaces, NEW v \in Users,
             NEW r \in Roles, op # "create" => w \in existing, Ask(e, op, u, w, v, r)
      PROVE  EditInv'
  BY <1>2, <1>3 DEF Ask
<1>4. ASSUME NEW e \in TeamEdits, Refuse(e) PROVE EditInv'
  BY <1>2, <1>4 DEF Refuse, Over, NoEdit
<1>5. ASSUME NEW e \in TeamEdits, NEW to, Step(e, to), UNCHANGED <<known, existing, role, renamed>>,
             edit[e].at \notin {"idle", "done"}, edit[e].op # "create",
             to = "write" /\ edit[e].op \in {"update", "remove"} => FreshDecision(e)
      PROVE  EditInv'
  <2>1. /\ edit'[e].op = edit[e].op /\ edit'[e].ws = edit[e].ws /\ edit'[e].target = edit[e].target
        /\ edit'[e].to = edit[e].to /\ edit'[e].at = to
    BY <1>5 DEF Step
  <2>2. \A x \in TeamEdits : x # e => edit'[x] = edit[x]
    BY <1>5 DEF Step
  <2>3. to = "write" /\ edit[e].op \in {"update", "remove"} => FreshDecision(e)'
    BY <1>5, <2>1 DEF FreshDecision
  <2>4. edit[e].ws \in existing
    BY <1>5 DEF AboutExisting
  <2> QED
    BY <1>2, <1>5, <2>1, <2>2, <2>3, <2>4
<1>6. ASSUME NEW e \in TeamEdits, Authorize(e) PROVE EditInv'
  BY <1>4, <1>5, <1>6 DEF Authorize
<1>7. ASSUME NEW e \in TeamEdits, ReadTarget(e) PROVE EditInv'
  <2>1. CASE edit' = [edit EXCEPT ![e].at = "write"] /\ edit[e].op = "add"
             /\ UNCHANGED <<known, existing, role, renamed>>
    <3>1. edit[e].ws \in existing
      BY <1>7, <2>1 DEF ReadTarget, AboutExisting
    <3> QED
      BY <1>2, <2>1, <3>1
  <2>2. CASE Refuse(e)
    BY <1>4, <2>2
  <2>3. ASSUME NEW to, Step(e, to), to \in {"count", "write"}, UNCHANGED <<known, existing, role, renamed>>,
               edit[e].at = "target", edit[e].op # "add", edit[e].op # "create",
               to = "write" => ~(role[edit[e].ws][edit[e].target] = "owner"
                                 /\ (edit[e].op = "remove" \/ edit[e].to # "owner"))
        PROVE  EditInv'
    BY <1>5, <2>3 DEF FreshDecision
  <2>4. edit[e].op # "create"
    BY <1>7 DEF ReadTarget, AboutExisting
  <2> QED
    BY <1>7, <2>1, <2>2, <2>3, <2>4 DEF ReadTarget
<1>8. ASSUME NEW e \in TeamEdits, CountOwners(e) PROVE EditInv'
  <2>1. CASE Step(e, "write") /\ Cardinality(Owners(edit[e].ws)) > 1
    <3>1. FreshDecision(e)
      BY <2>1, AnotherOwner DEF FreshDecision
    <3>2. edit[e].at = "count" /\ edit[e].op # "create" /\ UNCHANGED <<known, existing, role, renamed>>
      BY <1>8, <2>1 DEF CountOwners, AboutExisting, Refuse
    <3> QED
      BY <1>5, <2>1, <3>1, <3>2
  <2> QED
    BY <1>4, <1>8, <2>1 DEF CountOwners
<1>9. ASSUME NEW e \in TeamEdits, Rename(e) PROVE EditInv'
  BY <1>2, <1>9 DEF Rename, Over, NoEdit
<1>10. ASSUME NEW e \in TeamEdits, CreateTeam(e) PROVE EditInv'
  <2>1. /\ \A x \in TeamEdits : x # e => edit'[x] = edit[x]
        /\ edit'[e].at = "done" /\ existing \subseteq existing' /\ edit[e].ws \notin existing
        /\ \A w \in Workspaces : w # edit[e].ws => role'[w] = role[w]
    BY <1>10 DEF CreateTeam, Over, NoEdit
  <2>2. AboutExisting'
    BY <2>1 DEF AboutExisting
  <2>3. ASSUME NEW x \in TeamEdits, edit'[x].at = "write", edit'[x].op \in {"update", "remove"}, ~edit'[x].stale
        PROVE  FreshDecision(x)'
    <3>1. edit'[x] = edit[x] /\ edit[x].ws \in existing
      BY <2>1, <2>3 DEF AboutExisting
    <3>2. role'[edit[x].ws] = role[edit[x].ws]
      BY <2>1, <3>1
    <3>3. FreshDecision(x)
      BY <2>3, <3>1 DEF FreshDecisions
    <3> QED
      BY <3>1, <3>2, <3>3 DEF FreshDecision
  <2> QED
    BY <2>2, <2>3 DEF FreshDecisions
(* A row of w's membership is written. *)
<1>11. ASSUME NEW w \in Workspaces, existing \subseteq existing',
              \A v \in Workspaces : v # w => role'[v] = role[v],
              \A x \in TeamEdits : \/ edit'[x].at = "done"
                                   \/ edit'[x] = edit[x] /\ (edit[x].at # "write" \/ edit[x].ws # w)
                                   \/ edit'[x] = [edit[x] EXCEPT !.stale = TRUE]
       PROVE  EditInv'
  <2>1. AboutExisting'
    <3> SUFFICES ASSUME NEW x \in TeamEdits, edit'[x].at \notin {"idle", "done"}
                 PROVE  \/ edit'[x].op = "create" /\ edit'[x].at = "authorize"
                        \/ edit'[x].op # "create" /\ edit'[x].ws \in existing
      BY <1>11 DEF AboutExisting
    <3>1. edit'[x] = edit[x] \/ edit'[x] = [edit[x] EXCEPT !.stale = TRUE]
      BY <1>11
    <3>2. edit'[x].at = edit[x].at /\ edit'[x].op = edit[x].op /\ edit'[x].ws = edit[x].ws
      BY <3>1
    <3> QED
      BY <3>2 DEF AboutExisting
  <2>2. ASSUME NEW x \in TeamEdits, edit'[x].at = "write", edit'[x].op \in {"update", "remove"}, ~edit'[x].stale
        PROVE  FreshDecision(x)'
    <3>1. edit'[x] = edit[x] /\ edit[x].ws # w
      <4>1. edit'[x] # [edit[x] EXCEPT !.stale = TRUE]
        BY <2>2
      <4> QED
        BY <1>11, <2>2, <4>1
    <3>2. role'[edit[x].ws] = role[edit[x].ws]
      BY <1>11, <3>1
    <3>3. FreshDecision(x)
      BY <2>2, <3>1 DEF FreshDecisions
    <3> QED
      BY <3>1, <3>2, <3>3 DEF FreshDecision
  <2> QED
    BY <2>1, <2>2 DEF FreshDecisions
<1>12. ASSUME NEW e \in TeamEdits, NEW r, WriteRow(e, r) PROVE EditInv'
  <2>1. \A v \in Workspaces : v # edit[e].ws => role'[v] = role[v]
    BY <1>12 DEF WriteRow
  <2>2. edit'[e].at = "done"
    BY <1>12 DEF WriteRow, StaleAfter, Over, NoEdit
  <2>3. ASSUME NEW x \in TeamEdits, x # e
        PROVE  \/ edit'[x] = edit[x] /\ (edit[x].at # "write" \/ edit[x].ws # edit[e].ws)
               \/ edit'[x] = [edit[x] EXCEPT !.stale = TRUE]
    BY <1>12, <2>3 DEF WriteRow, StaleAfter
  <2>4. edit[e].ws \in Workspaces /\ existing' = existing
    BY <1>12 DEF WriteRow
  <2>5. \A x \in TeamEdits : \/ edit'[x].at = "done"
                             \/ edit'[x] = edit[x] /\ (edit[x].at # "write" \/ edit[x].ws # edit[e].ws)
                             \/ edit'[x] = [edit[x] EXCEPT !.stale = TRUE]
    BY <2>2, <2>3
  <2> QED
    BY <1>11, <2>1, <2>4, <2>5
<1>13. ASSUME NEW l \in Logins, CommitProvision(l) PROVE EditInv'
  <2> DEFINE u == login[l].who
             h == Home(u)
  <2>1. h \in Workspaces /\ u \in Users
    BY DEF AuthTypeOK, Workspaces
  <2>2. CASE role[h][u] # NoRow
    <3>1. role' = role /\ edit' = edit /\ existing \subseteq existing'
      BY <1>13, <2>1, <2>2 DEF CommitProvision, workspaceVars
    <3> QED
      BY <3>1 DEF AboutExisting, FreshDecisions, FreshDecision
  <2>3. CASE role[h][u] = NoRow /\ ~UNCHANGED workspaceVars
    <3>1. /\ existing \subseteq existing' /\ \A v \in Workspaces : v # h => role'[v] = role[v]
          /\ edit' = StaleAfter(NoRow, h)
      BY <1>13, <2>1, <2>3 DEF CommitProvision
    <3>2. ASSUME NEW x \in TeamEdits
          PROVE  \/ edit'[x] = edit[x] /\ (edit[x].at # "write" \/ edit[x].ws # h)
                 \/ edit'[x] = [edit[x] EXCEPT !.stale = TRUE]
      BY <3>1 DEF StaleAfter
    <3>3. \A x \in TeamEdits : \/ edit'[x].at = "done"
                               \/ edit'[x] = edit[x] /\ (edit[x].at # "write" \/ edit[x].ws # h)
                               \/ edit'[x] = [edit[x] EXCEPT !.stale = TRUE]
      BY <3>2
    <3> HIDE DEF h
    <3> QED
      BY <1>11, <2>1, <3>1, <3>3
  <2> QED
    BY <1>1, <2>2, <2>3
<1>14. CASE EditNext
  BY <1>14, <1>3, <1>4, <1>6, <1>7, <1>8, <1>9, <1>10, <1>12
     DEF EditNext, EditDies, AddMember, UpdateMember, RemoveMember
<1>15. CASE AuthNext
  BY <1>1, <1>13, <1>15, ZenonT(60)
     DEF AuthNext, LoginStep, Begin, CheckExists, StoreAttempt, ArriveLogin, Consume,
     Exchange, UpsertUser, FindHome, OpenSession, LoginDies, ResolveSession, Revoke, TellProvider,
     AttemptLapses, SessionExpires, KeepRows, KeepAuth
<1> QED
  BY <1>1, <1>14, <1>15 DEF Next, vars

-----------------------------------------------------------------------------
(* Every step keeps the invariant of accounts and workspaces.              *)
LEMMA AccountsInvKept ==
    ASSUME AccountsInv, Next \/ UNCHANGED vars PROVE AccountsInv'
<1>1. TypeOK /\ ProvisionInv /\ FlowInv /\ LogoutInv /\ EditInv
  BY DEF AccountsInv
<1>2. StoresItsOwn
  BY <1>1 DEF FlowInv
<1>3. WorkspaceTypeOK'
  BY <1>1, WorkspaceTypesKept DEF Next, vars, authVars
<1>4. AuthTypeOK'
  BY <1>1, AuthTypesKept DEF Next, vars
<1> QED
  BY <1>1, <1>2, <1>3, <1>4, ProvisionInvKept, FlowInvKept, LogoutInvKept, EditInvKept DEF AccountsInv, TypeOK

(* What the properties need holds in every reachable state: provisioning,  *)
(* sign-in flows, logouts and membership decisions each by an invariant of *)
(* their own.                                                              *)
THEOREM AccountsInvariant == Spec => []AccountsInv
<1>1. Init => AccountsInv
  BY AccountsInitially
<1>2. AccountsInv /\ [Next]_vars => AccountsInv'
  BY AccountsInvKept
<1> QED
  BY <1>1, <1>2, PTL DEF Spec

(* Logins and logouts that overlap, die and are repeated leave a person    *)
(* with the account, the workspace and the one grant, or with none of      *)
(* them; no two first logins collide; a link opens one session; logouts    *)
(* agree on the session and tell the provider once (auth.service.ts and    *)
(* auth.repository.ts).                                                    *)
THEOREM AccountsStayWhole == Spec => []AccountsAreWhole
<1>1. AccountsInv => AccountsAreWhole
  <2> SUFFICES ASSUME AccountsInv PROVE AccountsAreWhole
    OBVIOUS
  <2> USE DEF AccountsInv
  <2>1. OneSessionPerAttempt
    <3> SUFFICES ASSUME NEW a \in Attempts
                 PROVE  Cardinality({l \in Logins : login[l].attempt = a /\ session[l] # NoSession}) <= 1
      BY DEF OneSessionPerAttempt
    <3> DEFINE S == {l \in Logins : login[l].attempt = a /\ session[l] # NoSession}
    <3>1. \A k, l \in S : k = l
      BY DEF FlowInv, SpentOnce, Spent
    <3> SUFFICES Cardinality(S) <= 1
      OBVIOUS
    <3> HIDE DEF S
    <3>2. CASE S = {}
      BY <3>2, FS_EmptySet
    <3>3. ASSUME NEW l \in S PROVE Cardinality(S) <= 1
      <4>1. S = {l}
        BY <3>1
      <4>2. Cardinality({l}) = 1
        BY FS_Singleton
      <4> QED
        BY <4>1, <4>2
    <3> QED
      BY <3>2, <3>3
  <2>2. LogoutsAgree
    BY DEF LogoutsAgree, LogoutInv
  <2> QED
    BY <2>1, <2>2 DEF AccountsAreWhole, ProvisionInv
<1> QED
  BY <1>1, AccountsInvariant, PTL

(* What a step writes into a membership: a write of a request, a founder's *)
(* row, or the row of a person's own workspace.                            *)
LEMMA RolesMove ==
    ASSUME TypeOK, Next \/ UNCHANGED vars
    PROVE  \/ UNCHANGED role
           \/ \E e \in TeamEdits : \/ AddMember(e) \/ UpdateMember(e) \/ RemoveMember(e)
                                   \/ CreateTeam(e)
           \/ \E u \in Users : /\ role[Home(u)][u] = NoRow
                               /\ role' = [role EXCEPT ![Home(u)][u] = "owner"]
<1> USE DEF TypeOK
<1>1. CASE UNCHANGED vars
  BY <1>1 DEF vars, workspaceVars
<1>2. CASE EditNext
  BY <1>2 DEF EditNext, Ask, Authorize, ReadTarget, CountOwners, Rename, EditDies, Refuse
<1>3. ASSUME NEW l \in Logins, CommitProvision(l), role' # role
      PROVE  \E u \in Users : /\ role[Home(u)][u] = NoRow
                              /\ role' = [role EXCEPT ![Home(u)][u] = "owner"]
  <2>1. login[l].who \in Users /\ Home(login[l].who) \in Workspaces
    BY DEF AuthTypeOK, Workspaces
  <2>2. role' = [role EXCEPT ![Home(login[l].who)][login[l].who] = IF @ = NoRow THEN "owner" ELSE @]
    BY <1>3 DEF CommitProvision, workspaceVars
  <2>3. role[Home(login[l].who)][login[l].who] = NoRow
    BY <1>3, <2>1, <2>2 DEF WorkspaceTypeOK
  <2> QED
    BY <2>1, <2>2, <2>3
<1>4. CASE AuthNext
  BY <1>3, <1>4, ZenonT(60) DEF AuthNext, LoginStep, Begin, CheckExists, StoreAttempt, ArriveLogin, Consume,
     Exchange, UpsertUser, FindHome, OpenSession, LoginDies, ResolveSession, Revoke, TellProvider,
     AttemptLapses, SessionExpires, KeepRows, KeepAuth, workspaceVars
<1> QED
  BY <1>1, <1>2, <1>4 DEF Next

(* A workspace loses its last owner only by a stale decision or by an      *)
(* invitation that overwrites a role: updateMember and removeMember of     *)
(* workspace.repository.ts keep an owner whenever nothing came between     *)
(* their count and their write.                                            *)
THEOREM AnOwnerIsKept == Spec => FreshDecisionsKeepAnOwner
<1> DEFINE Kept == \A w \in Workspaces :
                     Owners(w) # {} /\ Owners(w)' = {} =>
                        \E e \in TeamEdits : Ended(e) /\ edit[e].ws = w /\ (edit[e].stale \/ edit[e].op = "add")
<1>1. AccountsInv /\ [Next]_vars => [Kept]_workspaceVars
  <2> SUFFICES ASSUME AccountsInv, Next \/ UNCHANGED vars,
                      NEW w \in Workspaces, Owners(w) # {}, Owners(w)' = {}
               PROVE  \E e \in TeamEdits : Ended(e) /\ edit[e].ws = w /\ (edit[e].stale \/ edit[e].op = "add")
    OBVIOUS
  <2> USE DEF AccountsInv, TypeOK, WorkspaceTypeOK
  <2>1. \E u \in Users : role[w][u] = "owner" /\ role'[w][u] # "owner"
    BY DEF Owners
  <2>2. role'[w] # role[w] /\ \A u \in Users : role'[w][u] # "owner"
    BY <2>1 DEF Owners
  <2>3. ASSUME NEW e \in TeamEdits, NEW r, WriteRow(e, r) PROVE edit[e].ws = w /\ edit'[e].at = "done"
                                                            /\ role'[w] = [role[w] EXCEPT ![edit[e].target] = r]
    BY <2>2, <2>3 DEF WriteRow, StaleAfter, Over, NoEdit
  <2>4. ASSUME NEW e \in TeamEdits, AddMember(e) PROVE Ended(e) /\ edit[e].ws = w /\ edit[e].op = "add"
    BY <2>3, <2>4 DEF AddMember, Ended
  <2>5. ASSUME NEW e \in TeamEdits, NEW r, WriteRow(e, r), edit[e].at = "write",
               edit[e].op \in {"update", "remove"},
               edit[e].op = "update" => r = IF role[edit[e].ws][edit[e].target] = NoRow THEN NoRow ELSE edit[e].to
        PROVE  Ended(e) /\ edit[e].ws = w /\ edit[e].stale
    <3>1. edit[e].ws = w /\ Ended(e) /\ role'[w] = [role[w] EXCEPT ![edit[e].target] = r]
          /\ edit[e].target \in Users
      BY <2>3, <2>5 DEF Ended
    <3>2. \A u \in Users : u # edit[e].target => role'[w][u] = role[w][u]
      BY <3>1
    <3>3. role[w][edit[e].target] = "owner" /\ \A u \in Users : u # edit[e].target => role[w][u] # "owner"
      BY <2>1, <2>2, <3>2
    <3>4. role'[w][edit[e].target] = r /\ r # "owner"
      BY <2>2, <3>1
    <3>5. ~FreshDecision(e)
      BY <2>5, <3>1, <3>3, <3>4 DEF FreshDecision
    <3> QED
      BY <2>5, <3>1, <3>5 DEF EditInv, FreshDecisions
  <2>6. ASSUME NEW e \in TeamEdits, UpdateMember(e) \/ RemoveMember(e)
        PROVE  Ended(e) /\ edit[e].ws = w /\ edit[e].stale
    BY <2>5, <2>6 DEF UpdateMember, RemoveMember
  <2>7. ASSUME NEW e \in TeamEdits, CreateTeam(e) PROVE FALSE
    <3>1. edit[e].ws = w /\ role'[w][edit[e].by] = "owner" /\ edit[e].by \in Users
      BY <2>2, <2>7 DEF CreateTeam
    <3> QED
      BY <2>2, <3>1
  <2>8. ASSUME NEW u \in Users, role' = [role EXCEPT ![Home(u)][u] = "owner"] PROVE FALSE
    <3>1. Home(u) \in Workspaces
      BY DEF Workspaces
    <3>2. w = Home(u) /\ role'[w][u] = "owner"
      BY <2>2, <2>8, <3>1
    <3> QED
      BY <2>2, <3>2
  <2> QED
    BY <2>2, <2>4, <2>6, <2>7, <2>8, RolesMove
<1> QED
  BY <1>1, AccountsInvariant, PTL DEF Spec, FreshDecisionsKeepAnOwner

(* Nobody who is out of a workspace gets back in except by an invitation,  *)
(* by founding it or by signing in to their own: updateMember is an UPDATE *)
(* and writes no row that is gone (workspace.repository.ts).               *)
THEOREM WhoIsRemovedStaysOut == Spec => RemovedStaysOut
<1> DEFINE Out == \A w \in Workspaces, u \in Users :
                    role[w][u] = NoRow /\ role'[w][u] # NoRow =>
                      \/ w = Home(u)
                      \/ \E e \in TeamEdits : /\ edit[e].ws = w /\ edit'[e].at = "done" /\ edit[e].at # "done"
                                          /\ \/ edit[e].op = "add" /\ edit[e].target = u
                                             \/ edit[e].op = "create" /\ edit[e].by = u
<1>1. AccountsInv /\ [Next]_vars => [Out]_workspaceVars
  <2> SUFFICES ASSUME AccountsInv, Next \/ UNCHANGED vars, NEW w \in Workspaces, NEW u \in Users,
                      role[w][u] = NoRow, role'[w][u] # NoRow, w # Home(u)
               PROVE  \E e \in TeamEdits : /\ edit[e].ws = w /\ edit'[e].at = "done" /\ edit[e].at # "done"
                                       /\ \/ edit[e].op = "add" /\ edit[e].target = u
                                          \/ edit[e].op = "create" /\ edit[e].by = u
    OBVIOUS
  <2> USE DEF AccountsInv, TypeOK, WorkspaceTypeOK
  <2>1. ASSUME NEW e \in TeamEdits, NEW r, WriteRow(e, r)
        PROVE  edit[e].ws = w /\ edit[e].target = u /\ r # NoRow /\ edit'[e].at = "done"
    BY <2>1 DEF WriteRow, StaleAfter, Over, NoEdit
  <2>2. ASSUME NEW e \in TeamEdits, AddMember(e)
        PROVE  /\ edit[e].ws = w /\ edit'[e].at = "done" /\ edit[e].at # "done"
               /\ edit[e].op = "add" /\ edit[e].target = u
    BY <2>1, <2>2 DEF AddMember
  <2>3. ASSUME NEW e \in TeamEdits, UpdateMember(e) \/ RemoveMember(e) PROVE FALSE
    BY <2>1, <2>3 DEF UpdateMember, RemoveMember
  <2>4. ASSUME NEW e \in TeamEdits, CreateTeam(e)
        PROVE  /\ edit[e].ws = w /\ edit'[e].at = "done" /\ edit[e].at # "done"
               /\ edit[e].op = "create" /\ edit[e].by = u
    BY <2>4 DEF CreateTeam, Over, NoEdit
  <2>5. ASSUME NEW v \in Users, role' = [role EXCEPT ![Home(v)][v] = "owner"] PROVE FALSE
    <3>1. w = Home(v) => u # v
      OBVIOUS
    <3>2. role'[w][u] = role[w][u]
      BY <2>5, <3>1
    <3> QED
      BY <3>2
  <2> QED
    BY <2>2, <2>3, <2>4, <2>5, RolesMove
<1> QED
  BY <1>1, AccountsInvariant, PTL DEF Spec, RemovedStaysOut
=============================================================================
