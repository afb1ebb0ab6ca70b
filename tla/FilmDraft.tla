------------------------------ MODULE FilmDraft ------------------------------
(***************************************************************************)
(* What a run makes of a film: the media the request brings along, the two *)
(* files the agent drafts in its workspace, and the gate between a draft   *)
(* and the saved project (resolveGenerationAssets, resolveGenerationAudio, *)
(* createMotifyAgentRunner, the two tools, validateMotifyGeneration).      *)
(*                                                                         *)
(* One run at a time, and one tool call at a time (AgentRun has both       *)
(* race); people edit the project, its media and the brand at any time.    *)
(* A composition is known by whether its markup is accepted, the media     *)
(* tokens its text names, and those of them that are placed: an image in a *)
(* visible source, a track as the source of an <audio> element.            *)
(***************************************************************************)
EXTENDS ProviderErrors, FiniteSets

CONSTANTS
    Pictures,      \* images of the workspace; an asset's token is the asset
    Tracks,      \* tracks of the music library, likewise
    Htmls,       \* compositions
    Timelines,   \* timelines
    Broken,      \* the timelines among them that are no valid module
    Starter,     \* the film of a new project
    Contents,    \* what a tool call may pass for the two files
    Absent,      \* content that is left out, a blank file, media not given
    Faults,      \* errors of the model provider
    MaxRetries,  \* maxValidationRetries
    MaxRuns,     \* bound: requests
    MaxEdits     \* bound: edits by people

MediaTokens == Pictures \cup Tracks
Films == [html : Htmls, js : Timelines]

\* Both files are left out of the call.
LeftOut == [html |-> Absent, js |-> Absent]

ASSUME FilmAssumption ==
    /\ Htmls \subseteq [accepted : BOOLEAN, placed : SUBSET MediaTokens, named : SUBSET MediaTokens]
    /\ \A h \in Htmls : h.placed \subseteq h.named
    /\ Broken \subseteq Timelines /\ Starter \in Films
    /\ LeftOut \in Contents
    /\ Contents \subseteq [html : Htmls \cup {Absent}, js : Timelines \cup {Absent}]
    /\ Pictures \cap Tracks = {} /\ Absent \notin Htmls \cup Timelines \cup Films
    /\ Faults \subseteq Seq(Layer) \ {<<>>}
    /\ {MaxRetries, MaxRuns, MaxEdits} \subseteq Nat

VARIABLES
    project,    \* the saved film and its revision
    imageRole,  \* project_assets: the role of each attached image
    soundtrack, \* project_audio_tracks
    brand,      \* images the brand lets a film use
    agent,        \* the run's local variables
    answer,     \* of the last request
    runs, edits \* history: how many of either so far

filmVars == <<project, imageRole, soundtrack, brand, agent, answer, runs, edits>>
People == <<imageRole, soundtrack, brand, edits>>

ImageRoles == {"none", "ASSET", "REFERENCE"}

(* required, optional: the tokens the gate asks for and lets pass.         *)
(* existing: the project as it was loaded.  html, js: the workspace files. *)
(* draft: the film being saved; whole: whether the call passed content.    *)
(* saved: the film this run saved; told: the last one it was told is       *)
(* saved; reported: the workspace was found valid as it is now.            *)
NoAgent == [pc |-> "none", required |-> {}, optional |-> {}, existing |-> Absent,
          expected |-> 0, html |-> Absent, js |-> Absent, failures |-> 0,
          draft |-> Absent, whole |-> FALSE, conflict |-> FALSE,
          saved |-> Absent, told |-> Absent, reported |-> FALSE]

FilmTypeOK ==
    /\ project.film \in Films /\ project.revision \in 1..(1 + MaxRuns + MaxEdits)
    /\ imageRole \in [Pictures -> ImageRoles] /\ soundtrack \subseteq Tracks /\ brand \subseteq Pictures
    /\ agent.pc \in {"none", "resolved", "asking", "saving"}
    /\ agent.required \subseteq MediaTokens /\ agent.optional \subseteq Pictures
    /\ {agent.existing, agent.draft, agent.saved, agent.told} \subseteq Films \cup {Absent}
    /\ agent.html \in Htmls \cup {Absent} /\ agent.js \in Timelines \cup {Absent}
    /\ agent.failures \in 0..MaxRetries /\ agent.expected \in 0..project.revision
    /\ answer \in {"none"} \cup DOMAIN HttpStatus

FilmInit ==
    /\ project = [film |-> Starter, revision |-> 1]
    /\ imageRole = [a \in Pictures |-> "none"] /\ soundtrack = {}
    /\ brand \in SUBSET Pictures
    /\ agent = NoAgent /\ answer = "none" /\ runs = 0 /\ edits = 0

-----------------------------------------------------------------------------
(* What the request brings along.                                          *)

With(images) ==
    [a \in Pictures |-> IF images[a] = "none" THEN imageRole[a] ELSE images[a]]

(* The images and tracks of a request are attached to the project and used *)
(* alone; a request that gives none uses what is attached.  Images for     *)
(* reference are shown to the model, not placed.  The brand is read anew.  *)
ResolveMedia(images, tracks) ==
    /\ agent.pc = "none" /\ runs < MaxRuns
    /\ imageRole' = IF images = Absent THEN imageRole ELSE With(images)
    /\ soundtrack' = IF tracks = Absent THEN soundtrack ELSE soundtrack \cup tracks
    /\ LET used == IF images = Absent THEN imageRole ELSE images
       IN  agent' = [NoAgent EXCEPT !.pc = "resolved", !.optional = brand,
              !.required = {a \in Pictures : used[a] = "ASSET"}
                             \cup (IF tracks = Absent THEN soundtrack ELSE tracks)]
    /\ runs' = runs + 1 /\ answer' = "none"
    /\ UNCHANGED <<project, brand, edits>>

(* loadForGraph and seedProjectFiles: the agent finds the saved film in    *)
(* its workspace.  Image tokens the film has stay legal.                   *)
Load(revision) ==
    /\ agent.pc = "resolved"
    /\ agent' = [agent EXCEPT !.pc = "asking", !.existing = project.film, !.expected = revision,
                  !.html = project.film.html, !.js = project.film.js,
                  !.optional = @ \cup (project.film.html.named \cap Pictures)]
    /\ UNCHANGED <<project, answer, runs, People>>

-----------------------------------------------------------------------------
(* The gate.                                                               *)

ValidateHtml(film) == film.html.accepted

ValidateTimeline(film) == film.js \notin Broken

\* Mutant: it is enough that the text names a token.
ValidateTokensNamed(film, required, optional) ==
    required \subseteq film.html.named /\ film.html.named \subseteq required \cup optional

(* validateAssetTokens and validateAudioTokens *)
ValidateTokens(film, required, optional) ==
    required \subseteq film.html.placed /\ film.html.named \subseteq required \cup optional

(* validateMotifyGeneration finds no error; warnings do not count.         *)
Valid(film, required, optional) ==
    ValidateHtml(film) /\ ValidateTimeline(film) /\ ValidateTokens(film, required, optional)

(* completeGeneration: content in the call wins over the file.             *)
Completed(content) ==
    [html |-> IF content.html # Absent THEN content.html ELSE agent.html,
     js   |-> IF content.js # Absent THEN content.js ELSE agent.js]

Complete(film) == film.html # Absent /\ film.js # Absent

(* The report of validate_generation. *)
ReportsValid(film) == Valid(film, agent.required, agent.optional)

\* Mutant: finalize_generation is not given the optional tokens.
GateForgetting(film) == Valid(film, agent.required, {})

(* The report finalize_generation makes of its own. *)
Gate(film) == Valid(film, agent.required, agent.optional)

(* noteValidationFailure: one failure too many ends the run, as invalid    *)
(* unless it has an outcome (buildFinalizedResponse).                      *)
Outcome(otherwise) ==
    IF agent.saved # Absent THEN "generation"
    ELSE IF agent.conflict THEN "REVISION_CONFLICT" ELSE otherwise

EndRequest(response) == agent' = NoAgent /\ answer' = response

\* Mutant: the first attempt is not counted.
NoteFailureLate ==
    IF agent.failures > MaxRetries
    THEN EndRequest(Outcome("GENERATION_INVALID"))
    ELSE agent' = [agent EXCEPT !.failures = @ + 1] /\ UNCHANGED answer

NoteFailure ==
    IF agent.failures = MaxRetries
    THEN EndRequest(Outcome("GENERATION_INVALID"))
    ELSE agent' = [agent EXCEPT !.failures = @ + 1] /\ UNCHANGED answer

-----------------------------------------------------------------------------
(* The agent.                                                              *)

(* write_file and edit_file; a file may end up blank. *)
WriteHtml(html) ==
    /\ agent.pc = "asking" /\ agent' = [agent EXCEPT !.html = html, !.reported = FALSE]
    /\ UNCHANGED <<project, answer, runs, People>>

WriteTimeline(js) ==
    /\ agent.pc = "asking" /\ agent' = [agent EXCEPT !.js = js, !.reported = FALSE]
    /\ UNCHANGED <<project, answer, runs, People>>

(* validate_generation *)
ValidateDraft(content) ==
    LET film == Completed(content) IN
    /\ agent.pc = "asking"
    /\ IF Complete(film) /\ ReportsValid(film)
       THEN /\ agent' = [agent EXCEPT !.reported = @ \/ content = LeftOut]
            /\ UNCHANGED answer
       ELSE NoteFailure
    /\ UNCHANGED <<project, runs, People>>

Told(film) == agent' = [agent EXCEPT !.told = film] /\ UNCHANGED answer

\* Mutant: any call after the save is told that it saved.
RepeatFinalizeKindly(film) == Told(film)

(* A film saved earlier in the run: the same one is saved, another is not. *)
RepeatFinalize(film) ==
    IF film = agent.saved THEN Told(film) ELSE UNCHANGED <<agent, answer>>

\* Mutant: the check is not there.
UntouchedNever(film, content) == FALSE

(* The workspace as it was seeded, and no content in the call. *)
Untouched(film, content) == content = LeftOut /\ film = agent.existing

(* finalize_generation up to the save. *)
FinalizeDraft(content) ==
    LET film == Completed(content) IN
    /\ agent.pc = "asking"
    /\ CASE ~Complete(film) -> NoteFailure
         [] Complete(film) /\ agent.saved # Absent -> RepeatFinalize(film)
         [] Complete(film) /\ agent.saved = Absent ->
              IF Untouched(film, content) \/ ~Gate(film)
              THEN NoteFailure
              ELSE /\ agent' = [agent EXCEPT !.pc = "saving", !.draft = film,
                                         !.whole = content # LeftOut]
                   /\ UNCHANGED answer
    /\ UNCHANGED <<project, runs, People>>

(* overwriteForGraph and onFinalized. *)
OverwriteFilm ==
    /\ agent.pc = "saving"
    /\ IF project.revision = agent.expected
       THEN /\ project' = [film |-> agent.draft, revision |-> project.revision + 1]
            /\ agent' = [agent EXCEPT !.pc = "asking", !.draft = Absent, !.whole = FALSE,
                                  !.saved = agent.draft, !.told = agent.draft]
       ELSE /\ agent' = [agent EXCEPT !.pc = "asking", !.draft = Absent, !.whole = FALSE,
                                  !.conflict = TRUE]
            /\ UNCHANGED project
    /\ UNCHANGED <<answer, runs, People>>

ProviderFailures == {NormalizeProviderError(error) : error \in Faults}

(* The last message, the step limit, an empty reply, or a provider error.  *)
EndRun ==
    /\ agent.pc = "asking"
    /\ \/ \E response \in {"chat", "GENERATION_INVALID", "PROVIDER_OUTPUT_INVALID"} :
            EndRequest(Outcome(response))
       \/ \E code \in ProviderFailures : EndRequest(Outcome(code))
    /\ UNCHANGED <<project, runs, People>>

-----------------------------------------------------------------------------
(* People.                                                                 *)

EditOnce == edits < MaxEdits /\ edits' = edits + 1

(* ProjectService.update: the editor checks no film. *)
PatchFilm(film) ==
    /\ EditOnce
    /\ project' = [film |-> film, revision |-> project.revision + 1]
    /\ UNCHANGED <<imageRole, soundtrack, brand, agent, answer, runs>>

DetachAsset(a) ==
    /\ EditOnce /\ imageRole[a] # "none"
    /\ imageRole' = [imageRole EXCEPT ![a] = "none"]
    /\ UNCHANGED <<project, soundtrack, brand, agent, answer, runs>>

DetachTrack(t) ==
    /\ EditOnce /\ t \in soundtrack
    /\ soundtrack' = soundtrack \ {t}
    /\ UNCHANGED <<project, imageRole, brand, agent, answer, runs>>

ChangeBrand(images) ==
    /\ EditOnce /\ images # brand
    /\ brand' = images
    /\ UNCHANGED <<project, imageRole, soundtrack, agent, answer, runs>>

-----------------------------------------------------------------------------
AgentStep ==
    \/ \E revision \in 1..project.revision : Load(revision)
    \/ \E content \in Contents : ValidateDraft(content) \/ FinalizeDraft(content)
    \/ \E html \in Htmls \cup {Absent} : WriteHtml(html)
    \/ \E js \in Timelines \cup {Absent} : WriteTimeline(js)
    \/ OverwriteFilm \/ EndRun

FilmNext ==
    \/ \E images \in [Pictures -> ImageRoles] \cup {Absent}, tracks \in (SUBSET Tracks) \cup {Absent} :
            ResolveMedia(images, tracks)
    \/ AgentStep
    \/ \E film \in Films : PatchFilm(film)
    \/ \E a \in Pictures : DetachAsset(a)
    \/ \E t \in Tracks : DetachTrack(t)
    \/ \E images \in SUBSET Pictures : ChangeBrand(images)

FilmSpec == FilmInit /\ [][FilmNext]_filmVars

-----------------------------------------------------------------------------
(* Properties.                                                             *)

AgentSaves == project' # project /\ agent.pc = "saving" /\ agent'.pc = "asking"

(* docs/api.md:211: what the request brings along is in the film, and not  *)
(* just named in it.  A token the agent may not use is in no film it       *)
(* saves: it comes with the request, is the brand's or was in the very     *)
(* film that is replaced, so what somebody took out meanwhile stays out.   *)
SavedFilmUsesTheMedia ==
    [][AgentSaves =>
        LET html == project'.film.html IN
        /\ agent.required \subseteq html.placed
        /\ html.named \cap Tracks \subseteq agent.required
        /\ html.named \subseteq agent.required \cup agent.optional
        /\ agent.existing = project.film]_filmVars

(* motify-agent.ts:149: "Saving it back untouched would report success for *)
(* work that never happened": a save that passes no content changes the    *)
(* film that is there.                                                     *)
NoWorkIsNotSaved ==
    [][AgentSaves /\ ~agent.whole => project'.film # project.film]_filmVars

(* What validate_generation calls valid, finalize_generation takes, but    *)
(* for the film as it was, whatever changed outside in between.            *)
ValidMeansSavable ==
    [][agent.reported /\ agent.saved = Absent /\ FinalizeDraft(LeftOut) =>
          agent'.pc = "saving" \/ Completed(LeftOut) = agent.existing]_filmVars

(* motify-agent.ts:139: 'saying "saved" would be false': what the agent is *)
(* told is saved is the film this run has saved.                           *)
ToldIsTrue == agent.told = agent.saved

(* The layers around an SDK's error do not hide it: up to three of them,   *)
(* whatever their names and messages say, answer as the error itself does. *)
Masked ==
    {error \in Faults :
        LET origin == error[Len(error)] IN
        /\ Len(error) <= 4 /\ origin.status # NoStatus
        /\ \A i \in 1..(Len(error) - 1) : error[i].status = NoStatus
        /\ error[1].overloaded = origin.overloaded
        /\ NormalizeProviderError(error) # NormalizeProviderError(<<origin>>)}

LayersHideNoStatus == Masked = {}

(* The gate of a save looks at the film that is saved, with the tokens of   *)
(* its request, and no earlier verdict or change outside gets in between.  *)
GateIsTrue == SavedFilmUsesTheMedia /\ ValidMeansSavable

(* The agent and the client are told what happened: saved or not, changed   *)
(* or not, and which failure it was.                                       *)
AnswersAreTrue == [](FilmTypeOK /\ ToldIsTrue /\ LayersHideNoStatus) /\ NoWorkIsNotSaved
=============================================================================
