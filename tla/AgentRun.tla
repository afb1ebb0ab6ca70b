------------------------------- MODULE AgentRun -------------------------------
(***************************************************************************)
(* Agent runs on one project: createMotifyAgentRunner, its validate and    *)
(* finalize tools, and the revision-checked save of the film, next to      *)
(* people who save or archive the same project (ProjectService).           *)
(*                                                                         *)
(* The agent's loop is LangGraph's: a model turn asks for some tool calls, *)
(* all of them run concurrently, and the next turn starts when they are    *)
(* over.  An abort rejects the loop at once, without waiting for them.     *)
(* What the model asks for and whether a draft is valid is any choice.     *)
(***************************************************************************)
EXTENDS Integers, Sequences, FiniteSets, SequencesExt

CONSTANTS
    Runs,             \* generation requests for the project
    Editors,          \* browser tabs that PATCH or DELETE the project
    Calls,            \* slots for the tool calls of one model turn
    MaxRetries,       \* maxValidationRetries
    MaxSteps,         \* bound: the recursion limit, in model turns
    MaxEdits,         \* bound: revisions saved by editors
    MaxStoreFailures  \* bound: statements that fail or whose answer is lost

ASSUME BoundsAssumption ==
    /\ {MaxRetries, MaxSteps, MaxEdits, MaxStoreFailures} \subseteq Nat
    /\ Runs \cap Editors = {} /\ IsFiniteSet(Calls)
    /\ "creator" \notin Runs

VARIABLES
    writes,        \* revision n of the project is writes[n]
    archived,      \* projects.archived_at is set
    transcript,    \* the project's messages: who and which run
    runRows,       \* generation_runs
    run,           \* run[r]: the local variables of run r
    calls,         \* calls[r][c]: how far tool call c of run r is
    response,      \* response[r]: what run r answered
    known,         \* known[e]: the revision editor e last loaded
    storeFailures  \* history: failed statements so far

runVars == <<writes, archived, transcript, runRows, run, calls, response, known,
             storeFailures>>

-----------------------------------------------------------------------------
(* A write remembers who made it and which revision its author had in      *)
(* front of them; revision 1 is the project as it was created.             *)
Write == [by : Runs \cup Editors \cup {"creator"}, seen : Nat]

Revision == Len(writes)

Locals == [pc : {"new", "loaded", "asking", "acting", "ended"},
           existing : Nat, expected : Nat, failures : Nat, gaveUp : BOOLEAN,
           finalized : {"no", "overwritten", "conflict"}, saved : Nat,
           steps : Nat]

CallStates == {"idle", "validate", "finalize", "saving", "stored", "refused"}

Responses == [type : {"none", "notFound", "generation", "conflict", "invalid",
                      "chat", "failed"}, revision : Nat]

RunTypeOK ==
    /\ writes \in Seq(Write) /\ archived \in BOOLEAN
    /\ transcript \in Seq([run : Runs, role : {"user", "assistant"}])
    /\ runRows \subseteq [run : Runs, status : {"COMPLETED", "FAILED"}, saved : Nat]
    /\ run \in [Runs -> Locals]
    /\ calls \in [Runs -> [Calls -> CallStates]]
    /\ response \in [Runs -> Responses]
    /\ known \in [Editors -> 1..Revision]
    /\ storeFailures \in 0..MaxStoreFailures

Answer(type, revision) == [type |-> type, revision |-> revision]

Idle == [c \in Calls |-> "idle"]

(* One statement fails, or its answer does not come back. *)
StoreFails == storeFailures < MaxStoreFailures /\ storeFailures' = storeFailures + 1

Say(r, role) == transcript' = Append(transcript, [run |-> r, role |-> role])

-----------------------------------------------------------------------------
RunInit ==
    /\ writes = <<[by |-> "creator", seen |-> 0]>>
    /\ archived = FALSE
    /\ transcript = <<>> /\ runRows = {}
    /\ run = [r \in Runs |-> [pc |-> "new", existing |-> 0, expected |-> 0,
                              failures |-> 0, gaveUp |-> FALSE, finalized |-> "no",
                              saved |-> 0, steps |-> 0]]
    /\ calls = [r \in Runs |-> Idle]
    /\ response = [r \in Runs |-> Answer("none", 0)]
    /\ known = [e \in Editors |-> 1]
    /\ storeFailures = 0

(* loadForGraph, then expectedRevision = input.revision ?? existing.revision. *)
(* The client sends a revision it has seen, or none.                       *)
Load(r) ==
    /\ run[r].pc = "new"
    /\ IF archived
       THEN /\ response' = [response EXCEPT ![r] = Answer("notFound", 0)]
            /\ run' = [run EXCEPT ![r].pc = "ended"]
       ELSE /\ \E revision \in 1..Revision :
                run' = [run EXCEPT ![r] = [@ EXCEPT !.pc = "loaded",
                                                    !.existing = Revision,
                                                    !.expected = revision]]
            /\ UNCHANGED response
    /\ UNCHANGED <<writes, archived, transcript, runRows, calls, known, storeFailures>>

(* appendMessage of the user's turn; a failure fails the request. *)
SaveUserTurn(r) ==
    /\ run[r].pc = "loaded"
    /\ \/ /\ Say(r, "user")
          /\ run' = [run EXCEPT ![r].pc = "asking"]
          /\ UNCHANGED <<response, storeFailures>>
       \/ /\ StoreFails
          /\ run' = [run EXCEPT ![r].pc = "ended"]
          /\ response' = [response EXCEPT ![r] = Answer("failed", 0)]
          /\ UNCHANGED transcript
    /\ UNCHANGED <<writes, archived, runRows, calls, known>>

\* Mutant: the recursion limit does not count turns that call tools.
ActUncounted(r) ==
    /\ run[r].pc = "asking" /\ ~run[r].gaveUp
    /\ \E asked \in [Calls -> {"idle", "validate", "finalize"}] :
        /\ asked # Idle
        /\ calls' = [calls EXCEPT ![r] = asked]
    /\ run' = [run EXCEPT ![r].pc = "acting"]
    /\ UNCHANGED <<writes, archived, transcript, runRows, response, known, storeFailures>>

(* The model answers with tool calls. *)
Act(r) ==
    /\ run[r].pc = "asking" /\ ~run[r].gaveUp
    /\ run[r].steps < MaxSteps
    /\ \E asked \in [Calls -> {"idle", "validate", "finalize"}] :
        /\ asked # Idle
        /\ calls' = [calls EXCEPT ![r] = asked]
    /\ run' = [run EXCEPT ![r] = [@ EXCEPT !.pc = "acting", !.steps = run[r].steps + 1]]
    /\ UNCHANGED <<writes, archived, transcript, runRows, response, known, storeFailures>>

(* Every call has an answer: back to the model. *)
Ask(r) ==
    /\ run[r].pc = "acting" /\ calls[r] = Idle
    /\ run' = [run EXCEPT ![r].pc = "asking"]
    /\ UNCHANGED <<writes, archived, transcript, runRows, calls, response, known,
                   storeFailures>>

(* noteValidationFailure *)
NoteFailure(r) ==
    run' = [run EXCEPT ![r] = [@ EXCEPT
        !.failures = run[r].failures + 1,
        !.gaveUp = run[r].gaveUp \/ run[r].failures + 1 > MaxRetries]]

(* validate_generation *)
Validate(r, c) ==
    /\ calls[r][c] = "validate"
    /\ calls' = [calls EXCEPT ![r][c] = "idle"]
    /\ UNCHANGED run \/ NoteFailure(r)
    /\ UNCHANGED <<writes, archived, transcript, runRows, response, known, storeFailures>>

Saved(r) == run[r].finalized = "overwritten"

\* Mutant: finalize_generation forgets that this run has saved already.
FinalizeAgain(r, c) ==
    /\ calls[r][c] = "finalize"
    /\ \/ calls' = [calls EXCEPT ![r][c] = "saving"] /\ UNCHANGED run
       \/ calls' = [calls EXCEPT ![r][c] = "idle"] /\ NoteFailure(r)
    /\ UNCHANGED <<writes, archived, transcript, runRows, response, known, storeFailures>>

(* finalize_generation up to its first await: an incomplete draft counts   *)
(* as a failure; a film saved earlier in the run makes the call a no-op;   *)
(* an unchanged or invalid draft counts as a failure; else it is saved.    *)
Finalize(r, c) ==
    /\ calls[r][c] = "finalize"
    /\ \/ calls' = [calls EXCEPT ![r][c] = "idle"] /\ NoteFailure(r)
       \/ Saved(r) /\ calls' = [calls EXCEPT ![r][c] = "idle"] /\ UNCHANGED run
       \/ ~Saved(r) /\ calls' = [calls EXCEPT ![r][c] = "saving"] /\ UNCHANGED run
    /\ UNCHANGED <<writes, archived, transcript, runRows, response, known, storeFailures>>

\* Mutant: the save overwrites whatever revision is there.
Unchecked(r) == ~archived

Matches(r) == ~archived /\ Revision = run[r].expected

(* overwriteForGraph: one transaction for the film, the reply and the row  *)
(* of generation_runs, if the revision is the expected one.                *)
Overwrite(r, c) ==
    /\ calls[r][c] = "saving"
    /\ IF Matches(r)
       THEN /\ writes' = Append(writes, [by |-> r, seen |-> run[r].existing])
            /\ runRows' = runRows \cup
                 {[run |-> r, status |-> "COMPLETED", saved |-> Revision + 1]}
            /\ Say(r, "assistant")
            /\ calls' = [calls EXCEPT ![r][c] = "stored"]
       ELSE /\ calls' = [calls EXCEPT ![r][c] = "refused"]
            /\ UNCHANGED <<writes, runRows, transcript>>
    /\ UNCHANGED <<archived, run, response, known, storeFailures>>

\* Mutant: an overwrite that matched no row counts as saved.
FinalizedAnyway(r, c) ==
    /\ calls[r][c] \in {"stored", "refused"}
    /\ run' = [run EXCEPT ![r] = [@ EXCEPT !.finalized = "overwritten",
                                           !.saved = run[r].expected + 1]]
    /\ calls' = [calls EXCEPT ![r][c] = "idle"]
    /\ UNCHANGED <<writes, archived, transcript, runRows, response, known, storeFailures>>

(* onFinalized, when the transaction's answer is back.  What it saved is   *)
(* the revision the UPDATE returned.                                       *)
Finalized(r, c) ==
    /\ calls[r][c] \in {"stored", "refused"}
    /\ run' = [run EXCEPT ![r] =
            IF calls[r][c] = "stored"
            THEN [@ EXCEPT !.finalized = "overwritten", !.saved = run[r].expected + 1]
            ELSE [@ EXCEPT !.finalized = "conflict"]]
    /\ calls' = [calls EXCEPT ![r][c] = "idle"]
    /\ UNCHANGED <<writes, archived, transcript, runRows, response, known, storeFailures>>

-----------------------------------------------------------------------------
(* How a run ends.                                                         *)

(* The loop is over when the model says so or fails, between its turns, or *)
(* as soon as the run is cut off, also with tool calls still running.      *)
Stopping(r) == run[r].pc = "asking" \/ (run[r].pc = "acting" /\ run[r].gaveUp)

Respond(r, answer) ==
    /\ response' = [response EXCEPT ![r] = answer]
    /\ run' = [run EXCEPT ![r].pc = "ended"]

(* The abort of noteValidationFailure, or LangGraph's recursion limit. *)
CutOff(r) == run[r].gaveUp \/ (run[r].pc = "asking" /\ run[r].steps = MaxSteps)

(* buildFinalizedResponse, for a run that saved or met a conflict. *)
FinalizedResponse(r) ==
    IF Saved(r) THEN Answer("generation", run[r].saved)
                ELSE Answer("conflict", run[r].existing)

(* The save throws, before the commit or after it.  The tool node reports  *)
(* that to the model, or lets it end the run.                              *)
SaveFails(r, c) ==
    /\ calls[r][c] \in {"saving", "stored"}
    /\ StoreFails
    /\ calls' = [calls EXCEPT ![r][c] = "idle"]
    /\ \/ UNCHANGED <<run, response>>
       \/ /\ run[r].pc = "acting" /\ ~run[r].gaveUp
          /\ Respond(r, IF run[r].finalized = "no" THEN Answer("failed", 0)
                                                  ELSE FinalizedResponse(r))
    /\ UNCHANGED <<writes, archived, transcript, runRows, known>>

(* A run whose tool recorded an outcome answers with it, however it ended: *)
(* by its last message, a provider error, the step limit, or cut off.      *)
EndFinalized(r) ==
    /\ Stopping(r)
    /\ run[r].finalized # "no"
    /\ Respond(r, FinalizedResponse(r))
    /\ UNCHANGED <<writes, archived, transcript, runRows, calls, known, storeFailures>>

(* giveUp: cut off, or out of steps.  recordRun may fail quietly. *)
GiveUp(r) ==
    /\ Stopping(r) /\ run[r].finalized = "no"
    /\ CutOff(r)
    /\ Respond(r, Answer("invalid", 0))
    /\ \/ /\ runRows' = runRows \cup {[run |-> r, status |-> "FAILED", saved |-> 0]}
          /\ UNCHANGED storeFailures
       \/ StoreFails /\ UNCHANGED runRows
    /\ UNCHANGED <<writes, archived, transcript, calls, known>>

(* The model ends its turn with text and nothing was saved. *)
Chat(r) ==
    /\ run[r].pc = "asking" /\ run[r].finalized = "no" /\ ~run[r].gaveUp
    /\ Respond(r, Answer("chat", 0))
    /\ Say(r, "assistant")
    /\ UNCHANGED <<writes, archived, runRows, calls, known, storeFailures>>

(* A provider error, an empty reply, or a chat message that was not stored. *)
RunFails(r) ==
    /\ run[r].pc = "asking" /\ run[r].finalized = "no" /\ ~run[r].gaveUp
    /\ Respond(r, Answer("failed", 0))
    /\ UNCHANGED <<writes, archived, transcript, runRows, calls, known, storeFailures>>

-----------------------------------------------------------------------------
(* People.                                                                 *)

Edits == Cardinality({n \in 2..Revision : writes[n].by \in Editors})

\* Mutant: the revision of a PATCH is not part of its WHERE.
PatchBlindly(e) ==
    /\ ~archived /\ Edits < MaxEdits
    /\ writes' = Append(writes, [by |-> e, seen |-> known[e]])
    /\ known' = [known EXCEPT ![e] = Revision + 1]
    /\ UNCHANGED <<archived, transcript, runRows, run, calls, response, storeFailures>>

(* ProjectService.update: a PATCH on the revision the editor knows.  A     *)
(* stale one is answered with the current revision, which is reloaded.     *)
Patch(e) ==
    /\ ~archived /\ Edits < MaxEdits
    /\ IF known[e] = Revision
       THEN /\ writes' = Append(writes, [by |-> e, seen |-> known[e]])
            /\ known' = [known EXCEPT ![e] = Revision + 1]
       ELSE /\ known' = [known EXCEPT ![e] = Revision]
            /\ UNCHANGED writes
    /\ UNCHANGED <<archived, transcript, runRows, run, calls, response, storeFailures>>

(* ProjectService.remove; the archive counts as a revision. *)
Archive(e) ==
    /\ ~archived /\ Edits < MaxEdits
    /\ known[e] = Revision
    /\ archived' = TRUE
    /\ writes' = Append(writes, [by |-> e, seen |-> known[e]])
    /\ UNCHANGED <<transcript, runRows, run, calls, response, known, storeFailures>>

-----------------------------------------------------------------------------
CallStep(r) ==
    \E c \in Calls : \/ Validate(r, c) \/ Finalize(r, c)
                     \/ Overwrite(r, c) \/ Finalized(r, c)

EndStep(r) == EndFinalized(r) \/ GiveUp(r) \/ Chat(r) \/ RunFails(r)

RunNext ==
    \/ \E r \in Runs : \/ Load(r) \/ SaveUserTurn(r) \/ Act(r) \/ Ask(r)
                       \/ CallStep(r) \/ EndStep(r)
                       \/ \E c \in Calls : SaveFails(r, c)
    \/ \E e \in Editors : Patch(e) \/ Archive(e)

RunSpec == RunInit /\ [][RunNext]_runVars

(* The process is up, the database answers, and the model never stops      *)
(* answering: with tool calls, as long as the recursion limit lets it.     *)
(* That it ever ends its turn by itself is not assumed.                    *)
RunFairness ==
    \A r \in Runs :
        /\ WF_runVars(Load(r) \/ SaveUserTurn(r) \/ Act(r) \/ Ask(r))
        /\ \A c \in Calls : WF_runVars(\/ Validate(r, c) \/ Finalize(r, c)
                                       \/ Overwrite(r, c) \/ Finalized(r, c))
        /\ WF_runVars(CutOff(r) /\ (GiveUp(r) \/ EndFinalized(r)))

RunFairSpec == RunSpec /\ RunFairness

-----------------------------------------------------------------------------
(* Properties.                                                             *)

(* No edit is lost: whoever wrote a revision, an agent after minutes of    *)
(* work or a person, had the revision before it in front of them.          *)
NoLostUpdate == \A n \in 1..Revision : writes[n].seen = n - 1

SavedBy(r) == {n \in 1..Revision : writes[n].by = r}

(* A run saves at most one revision, whatever the agent asks for.          *)
OneSavePerRun == \A r \in Runs : Cardinality(SavedBy(r)) <= 1

(* A "generation" answer names the revision that holds this run's film,    *)
(* and generation_runs and the transcript have it too.                     *)
ReportedFilmIsSaved ==
    \A r \in Runs : response[r].type = "generation" =>
        /\ SavedBy(r) = {response[r].revision}
        /\ [run |-> r, status |-> "COMPLETED", saved |-> response[r].revision] \in runRows
        /\ Contains(transcript, [run |-> r, role |-> "assistant"])

Error(r) == response[r].type \in {"notFound", "conflict", "invalid", "failed"}

(* "Nothing is charged when the user gets nothing", and the other way      *)
(* round: an answer that gives the credits back saved no film.  Of an      *)
(* agent that makes one call at a time, and a database that answers.       *)
ErrorMeansNotSaved == \A r \in Runs : Error(r) => SavedBy(r) = {}

(* "The film still had errors after n attempts, so it was not saved." *)
GaveUpMeansNotSaved ==
    \A r \in Runs : response[r].type = "invalid" => SavedBy(r) = {}

(* Every run answers: a model that keeps failing validation is cut off,    *)
(* and one that never stops calling tools runs out of steps.               *)
EveryRunAnswers == \A r \in Runs : <>(run[r].pc = "ended")
=============================================================================
