---------------------------- MODULE BrandProfile ----------------------------
(***************************************************************************)
(* Brand DNA: src/services/brand.service.ts over                           *)
(* src/repositories/brand.repository.ts and packages/brand/brand-dna.ts,   *)
(* composed with the assets its links refer to.  Of the document one text  *)
(* field and the file of one uploaded font are kept; the rest are more     *)
(* fields of the same kinds.                                               *)
(***************************************************************************)
EXTENDS Assets

CONSTANTS
    Texts,      \* what may be written in the field
    MaxLinks    \* MAX_BRAND_ASSETS

Blank == "blank"
NoFont == "no font"

ASSUME NoFontAssumption == NoFont \notin Files

VARIABLES
    revision,   \* 0 while there is no profile
    text,       \* the field
    source,     \* its provenance: none, manual or site
    font,       \* the font file the document points at
    draft,      \* what each call read or was sent
    savedFonts, \* history: files some saved document pointed at
    takenOut    \* history: files removed from the brand by removeAsset

brandVars == <<revision, text, source, font, draft, savedFonts, takenOut>>
mediaVars == <<assetVars, brandVars>>

NoDraft == [revision |-> 0, text |-> Blank, font |-> NoFont, role |-> "IMAGE",
            overwrite |-> FALSE, tries |-> 0]

BrandTypeOK ==
    /\ revision \in Nat
    /\ text \in Texts \cup {Blank} /\ source \in {"none", "manual", "site"}
    /\ font \in Fonts \cup {NoFont}
    /\ draft \in [Calls -> [revision : Nat, text : Texts \cup {Blank}, font : Fonts \cup {NoFont},
                            role : BrandRoles, overwrite : BOOLEAN, tries : 0..2]]
    /\ savedFonts \subseteq Fonts /\ takenOut \subseteq Files

MediaTypeOK == AssetTypeOK /\ BrandTypeOK

MediaInit ==
    /\ AssetInit
    /\ call = [c \in Calls |-> Idle]
    /\ revision = 0 /\ text = Blank /\ source = "none" /\ font = NoFont
    /\ draft = [c \in Calls |-> NoDraft] /\ savedFonts = {} /\ takenOut = {}

Drafted(c, d, op, f, at) == draft' = [draft EXCEPT ![c] = d] /\ Arrive(c, op, f, "good", at)
KeepDocument == UNCHANGED <<revision, text, source, font>>
KeepBrand == UNCHANGED brandVars

\* requireKindForRole
Fits(f, r) == IF r = "FONT" THEN f \in Fonts ELSE f \in Images

(***************************************************************************)
(* Links.                                                                  *)
(***************************************************************************)
\* listAssets shows the links whose file is READY.
Listed == {f \in Files : link[f] # "none" /\ row[f] = "READY"}

BeginAddLink(c, f, r) ==
    /\ row[f] = "READY" /\ Fits(f, r)
    /\ Drafted(c, [NoDraft EXCEPT !.role = r], "addLink", f, "limit")
    /\ KeepDocument /\ UNCHANGED <<savedFonts, takenOut>>

\* ensureProfile, then the count.
CheckLimit(c) ==
    /\ call[c].at = "limit"
    /\ revision' = IF revision = 0 THEN 1 ELSE revision
    /\ Look(c, IF Cardinality(Listed) >= MaxLinks /\ call[c].file \notin Listed THEN "done" ELSE "put")
    /\ UNCHANGED <<text, source, font, draft, savedFonts, takenOut>>

BeginSetRole(c, f, r) ==
    /\ link[f] # "none" /\ row[f] = "READY" /\ Fits(f, r)
    /\ Drafted(c, [NoDraft EXCEPT !.role = r], "setRole", f, "put")
    /\ KeepDocument /\ UNCHANGED <<savedFonts, takenOut>>

\* A logo displaces the previous one, whose file is released.
Displaced(f, r) == {g \in Files \ {f} : r = "LOGO" /\ link[g] = "LOGO"}

\* release(): AssetService.remove of a file the brand let go, which starts by
\* reading it again; its refusals and errors are swallowed.
Releasing(f) == IF row[f] = "READY"
                  THEN [op |-> "remove", at |-> "uses", file |-> f, bytes |-> "good", stale |-> FALSE]
                  ELSE Done

\* putAsset and updateAsset, one transaction each; an UPDATE of a link that
\* is gone changes nothing.
PutLink(c) ==
    LET f == call[c].file
        r == draft[c].role
        out == Displaced(f, r)
        lives == call[c].op = "addLink" \/ link[f] # "none"
    IN /\ call[c].at = "put"
       /\ link' = [g \in Files |-> IF g \in out THEN "none" ELSE IF g = f /\ lives THEN r ELSE link[g]]
       /\ call' = [Staled(c, out \cup {f}) EXCEPT ![c] =
                     IF out = {} THEN Done ELSE Releasing(CHOOSE g \in out : TRUE)]
       /\ raced' = IF call[c].stale THEN raced \cup out \cup {f} ELSE raced
       /\ takenOut' = takenOut \ {f}
       /\ draft' = [draft EXCEPT ![c] = NoDraft]
       /\ UNCHANGED <<bucket, row, expired, object, attached, track, trackUsed, savedFonts>>
       /\ KeepDocument

\* removeAsset: the link, then the file.  The document is not looked at.
BeginDropLink(c, f) == link[f] # "none" /\ Arrive(c, "dropLink", f, "good", "unlink") /\ KeepBrand

Unlink(c, next) ==
    LET f == call[c].file
    IN /\ link' = [link EXCEPT ![f] = "none"]
       /\ call' = [Staled(c, {f}) EXCEPT ![c] = next]
       /\ raced' = IF call[c].stale THEN raced \cup {f} ELSE raced
       /\ UNCHANGED <<bucket, row, expired, object, attached, track, trackUsed>>

DropLink(c) ==
    /\ call[c].at = "unlink" /\ Unlink(c, Releasing(call[c].file))
    /\ takenOut' = takenOut \cup {call[c].file}
    /\ KeepDocument /\ UNCHANGED <<draft, savedFonts>>

(***************************************************************************)
(* update(): a person saves the document a tab loaded at some revision.    *)
(***************************************************************************)
BeginSave(c, t, g) ==
    /\ Drafted(c, [NoDraft EXCEPT !.revision = revision, !.text = t, !.font = g], "save",
               IF g = NoFont THEN Idle.file ELSE g, "linked")
    /\ KeepDocument /\ UNCHANGED <<savedFonts, takenOut>>

CheckRevision(c) ==
    call[c].at = "linked" /\ Look(c, IF draft[c].revision = revision THEN "fonts" ELSE "done") /\ KeepBrand

\* A font may only point at font files this brand holds.
\* Mutant: any uploaded font file will do.
CheckFontsLoosely(c) == call[c].at = "fonts" /\ Look(c, "commit") /\ KeepBrand
CheckFonts(c) ==
    /\ call[c].at = "fonts"
    /\ Look(c, IF draft[c].font = NoFont \/ (draft[c].font \in Listed /\ link[draft[c].font] = "FONT")
                 THEN "commit" ELSE "done")
    /\ KeepBrand

\* saveProfile at the revision that was read: it, or nothing, is written.
\* applyBrandEdit marks what changed as manual, or as nobody's when blank.
SaveDocument(c, dropped) ==
    LET d == draft[c]
    IN /\ call[c].at = "commit" /\ call[c].op = "save" /\ d.revision = revision
       /\ revision' = revision + 1
       /\ text' = d.text /\ font' = d.font
       /\ source' = IF d.text = text THEN source ELSE IF d.text = Blank THEN "none" ELSE "manual"
       /\ savedFonts' = savedFonts \cup ({d.font} \ {NoFont})
       /\ call' = [Staled(c, {font, d.font}) EXCEPT ![c] =
                     IF dropped = {} THEN Done
                     ELSE [op |-> "save", at |-> "drop", file |-> CHOOSE f \in dropped : TRUE,
                           bytes |-> "good", stale |-> FALSE]]
       /\ raced' = IF call[c].stale THEN raced \cup ({d.font} \ {NoFont}) ELSE raced
       /\ draft' = [draft EXCEPT ![c] = NoDraft]
       /\ UNCHANGED <<bucket, row, expired, object, attached, track, trackUsed, link, takenOut>>

\* Mutant: every font file of the brand that is not in use is swept away.
CommitSaveSweeping(c) == SaveDocument(c, {f \in Fonts : link[f] = "FONT"} \ {draft[c].font})
CommitSave(c) == SaveDocument(c, {font} \ {NoFont, draft[c].font})

\* Files the previous version used and this one does not lose their link.
DropOldFont(c) ==
    /\ call[c].at = "drop" /\ call[c].op = "save"
    /\ Unlink(c, Releasing(call[c].file)) /\ KeepBrand

(***************************************************************************)
(* applySuggestion(): merge into what was read, save at its revision, and  *)
(* once more when someone saved in between.                                *)
(***************************************************************************)
\* mergeBrandSuggestion: typed text is kept unless it may be overwritten.
Mergeable(d) == d.overwrite \/ source # "manual" \/ text = Blank

ReadAndMerge(c, d, tries) ==
    draft' = [draft EXCEPT ![c] = [d EXCEPT !.revision = revision, !.tries = tries]]

BeginSuggest(c, t, o) ==
    LET d == [NoDraft EXCEPT !.text = t, !.overwrite = o]
    IN /\ Arrive(c, "suggest", Idle.file, "good", IF Mergeable(d) THEN "commit" ELSE "done")
       /\ IF Mergeable(d) THEN ReadAndMerge(c, d, 1) ELSE UNCHANGED draft
       /\ KeepDocument /\ UNCHANGED <<savedFonts, takenOut>>

CommitSuggestion(c) ==
    /\ call[c].at = "commit" /\ call[c].op = "suggest" /\ draft[c].revision = revision
    /\ revision' = revision + 1 /\ text' = draft[c].text /\ source' = "site"
    /\ Look(c, "done") /\ draft' = [draft EXCEPT ![c] = NoDraft]
    /\ UNCHANGED <<font, savedFonts, takenOut>>

\* Someone saved in between: a person is told, a suggestion is tried again.
Conflict(c) ==
    /\ call[c].at = "commit" /\ draft[c].revision # revision
    /\ Look(c, IF call[c].op = "suggest" /\ draft[c].tries = 1 THEN "retry" ELSE "done") /\ KeepBrand

\* Mutant: the retry saves the merge of the first read.
RetrySuggestionUnmerged(c) ==
    /\ call[c].at = "retry" /\ Look(c, "commit")
    /\ ReadAndMerge(c, draft[c], 2)
    /\ KeepDocument /\ UNCHANGED <<savedFonts, takenOut>>
RetrySuggestion(c) ==
    /\ call[c].at = "retry"
    /\ Look(c, IF Mergeable(draft[c]) THEN "commit" ELSE "done")
    /\ ReadAndMerge(c, draft[c], 2)
    /\ KeepDocument /\ UNCHANGED <<savedFonts, takenOut>>

BrandNext ==
    \/ \E c \in Edits :
       \/ \E f \in Files : BeginDropLink(c, f) \/ \E r \in BrandRoles : BeginAddLink(c, f, r) \/ BeginSetRole(c, f, r)
       \/ \E t \in Texts \cup {Blank}, g \in Fonts \cup {NoFont} : BeginSave(c, t, g)
       \/ \E t \in Texts, o \in BOOLEAN : BeginSuggest(c, t, o)
    \/ \E c \in Calls :
       \/ CheckLimit(c) \/ PutLink(c) \/ DropLink(c)
       \/ CheckRevision(c) \/ CheckFonts(c) \/ CommitSave(c) \/ DropOldFont(c)
       \/ CommitSuggestion(c) \/ Conflict(c) \/ RetrySuggestion(c)

MediaNext == BrandNext \/ (AssetNext /\ UNCHANGED brandVars)
MediaSpec == MediaInit /\ [][MediaNext]_mediaVars

(***************************************************************************)
(* Properties.                                                             *)
(***************************************************************************)

\* What a person typed is never replaced by a suggestion that may not, also
\* when the person saves between its merge and its save.
TypedTextIsKept ==
    [][\A c \in Calls : call[c].op = "suggest" /\ ~draft[c].overwrite /\ text' # text
                          /\ draft'[c] # draft[c] => source # "manual" \/ text = Blank]_mediaVars

\* The document points at a font file the brand holds, unless the file was
\* taken out through the list of files, or by requests that overtook another.
DocumentFontIsHeld ==
    font \in Fonts \ (raced \cup takenOut) => link[font] = "FONT"

\* Saving sweeps away font files earlier versions used, never one that was
\* uploaded and linked but is in no saved document yet.
NewFontsStay ==
    [][\A f \in Fonts : link[f] = "FONT" /\ link'[f] = "none" =>
          f \in savedFonts \/ \E c \in Calls : call[c].op = "dropLink" /\ call[c].file = f]_mediaVars

\* Rows, links and stored files agree, over the steps of any requests: what
\* is READY, in use or named by the Brand DNA has its file, and what was
\* deleted stays deleted.
FilesAreThere ==
    /\ [](MediaTypeOK /\ ReadyHasItsFile /\ InUseIsReady /\ DocumentFontIsHeld)
    /\ DeletedStaysDeleted

\* What a person typed or uploaded for the brand is not taken away by what
\* the server does on the side: suggestions, and sweeps of old fonts.
PeoplesWorkIsKept == TypedTextIsKept /\ NewFontsStay
=============================================================================
