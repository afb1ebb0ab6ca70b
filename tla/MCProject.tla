------------------------------ MODULE MCProject ------------------------------
(* What is kept around a project, on small instances: its media and brand, *)
(* its chat, and the history of what its requests cost.  The three share   *)
(* no variable: a behaviour is of one of them, picked with the initial     *)
(* state, and the other two stand still.                                   *)
EXTENDS BrandProfile, ChatTurns, CreditHistory, TLC
CONSTANTS img1, img2, aud, fnt, r1, r2, r3, b1, b2, b3, t1, t2, hello, again

VARIABLE part

-----------------------------------------------------------------------------
(* Media and Brand DNA.                                                    *)

\* The file f in state s; every other file was deleted long ago.
Only(f, s) == row = [g \in Files |-> IF g = f THEN s ELSE "DELETED"]
Stores(o) == object = [f \in Files |-> IF row[f] \in {"PENDING", "READY"} THEN o ELSE NoObject]
InitCalls(C) == call = [c \in Calls |-> IF c \in C THEN Idle ELSE Done]
Unused == attached = {} /\ track = {} /\ trackUsed = {} /\ link = [f \in Files |-> "none"]
Unwritten == revision = 0 /\ text = Blank /\ source = "none" /\ font = NoFont /\ savedFonts = {}
Written(g) == revision = 1 /\ text = Blank /\ source = "none" /\ font = g /\ savedFonts = {g} \ {NoFont}

\* Requests on one upload, which has no bytes yet or all of them: three with
\* the local store, two with Supabase; ...
UploadInit ==
    /\ bucket \in {"local", "supabase"} /\ Unused /\ Unwritten
    /\ Only(img1, "none") \/ Only(img1, "PENDING")
    /\ InitCalls(IF bucket = "local" /\ row[img1] = "PENDING" THEN {r1, r2, r3} ELSE {r1, r2})
\* ... three on a finished image, ...
ImageInit ==
    /\ Only(img1, "READY") /\ bucket = "local" /\ Unused /\ Unwritten
    /\ InitCalls({r1, r2, b1})
\* ... three on a track in use or not, ...
TrackInit ==
    /\ Only(aud, "READY") /\ bucket = "local" /\ Unwritten
    /\ attached = {} /\ link = [f \in Files |-> "none"]
    /\ track \in SUBSET {aud} /\ trackUsed \in SUBSET track /\ InitCalls({r1, r2, r3})
\* ... three on a brand font, in the document or not, ...
FontInit ==
    /\ Only(fnt, "READY") /\ bucket = "local"
    /\ attached = {} /\ track = {} /\ trackUsed = {}
    /\ link = [f \in Files |-> IF f = fnt THEN "FONT" ELSE "none"]
    /\ \E g \in {NoFont, fnt} : Written(g)
    /\ \E C \in {{b1, b2}, {b1, r1}} : InitCalls(C)
\* ... and two on two images of a brand that may hold one.
LogoInit ==
    /\ row = [f \in Files |-> IF f \in Images THEN "READY" ELSE "DELETED"]
    /\ bucket = "local" /\ Unused /\ Unwritten /\ InitCalls({b1, b2})

MCMediaInit ==
    /\ UploadInit \/ ImageInit \/ TrackInit \/ FontInit \/ LogoInit
    /\ \E o \in {NoObject, Stored("good")} : Stores(o) /\ (row[img1] = "PENDING" \/ o # NoObject)
    /\ expired = {} /\ raced = {} /\ takenOut = {} /\ draft = [c \in Calls |-> NoDraft]

-----------------------------------------------------------------------------
(* The chat: a call with one usable count, and one with none.              *)
MCReports == {[input |-> -2, output |-> 3], [input |-> -1, output |-> -1]}

-----------------------------------------------------------------------------
StillMedia == MediaInit /\ bucket = "local"

MCInit ==
    \/ part = "media" /\ MCMediaInit /\ ChatInit /\ HistoryInit
    \/ part = "chat" /\ ChatInit /\ StillMedia /\ HistoryInit
    \/ part = "history" /\ HistoryInit /\ StillMedia /\ ChatInit

MCNext ==
    \/ part = "media" /\ MediaNext /\ UNCHANGED <<part, chatVars, historyVars>>
    \/ part = "chat" /\ ChatNext /\ UNCHANGED <<part, mediaVars, historyVars>>
    \/ part = "history" /\ HistoryNext /\ UNCHANGED <<part, mediaVars, chatVars>>

MCSpec == MCInit /\ [][MCNext]_<<part, mediaVars, chatVars, historyVars>>

\* What people write is interchangeable.
Symmetry == Permutations(Sayings)
=============================================================================
