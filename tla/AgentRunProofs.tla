---------------------------- MODULE AgentRunProofs ----------------------------
(***************************************************************************)
(* Theorems about AgentRun, for any number of runs, editors and concurrent *)
(* tool calls, any retry limit and any number of failures; and about the   *)
(* player of the films it writes (Playback).                               *)
(***************************************************************************)
EXTENDS AgentRun, Playback, FiniteSetTheorems, SequenceTheorems, WellFoundedInduction, TLAPS

(* The revision a run saves on is one its author had in front of them.     *)
LoadedInTime ==
    \A r \in Runs :
        /\ run[r].expected <= run[r].existing /\ run[r].existing <= Revision
        /\ run[r].pc = "new" => run[r].existing = 0
        /\ run[r].pc \in {"loaded", "asking", "acting"} => run[r].existing # 0
        /\ \A c \in Calls : calls[r][c] # "idle" => run[r].existing # 0

(* What a run has saved is the revision after the one it loaded. *)
SavesOnLoaded ==
    \A r \in Runs : \A n \in 1..Revision :
        writes[n].by = r => run[r].existing # 0 /\ n = run[r].expected + 1

(* The film, the row of generation_runs and the reply of a run are there.  *)
Stored(r) ==
    /\ run[r].expected + 1 \in 1..Revision /\ writes[run[r].expected + 1].by = r
    /\ [run |-> r, status |-> "COMPLETED", saved |-> run[r].expected + 1] \in runRows
    /\ \E i \in 1..Len(transcript) : transcript[i] = [run |-> r, role |-> "assistant"]

(* Whoever says it has saved has. *)
SavedIsStored ==
    \A r \in Runs :
        /\ (\E c \in Calls : calls[r][c] = "stored") => Stored(r)
        /\ Saved(r) => Stored(r) /\ run[r].saved = run[r].expected + 1
        /\ response[r].type = "generation" =>
                Stored(r) /\ response[r].revision = run[r].expected + 1

AgentInv == RunTypeOK /\ NoLostUpdate /\ LoadedInTime /\ SavesOnLoaded /\ SavedIsStored

-----------------------------------------------------------------------------
(* The invariant holds initially. *)
LEMMA AgentInitEstablishes == RunInit => AgentInv
<1> SUFFICES ASSUME RunInit PROVE AgentInv
  OBVIOUS
<1> USE BoundsAssumption
<1>1. RunTypeOK
  <2>1. writes \in Seq(Write) /\ Len(writes) = 1
    <3>1. [by |-> "creator", seen |-> 0] \in Write
      BY DEF Write
    <3> QED
      BY <3>1 DEF RunInit
  <2>2. run \in [Runs -> Locals]
    BY DEF RunInit, Locals
  <2>3. calls \in [Runs -> [Calls -> CallStates]] /\ response \in [Runs -> Responses]
    BY DEF RunInit, Idle, CallStates, Responses, Answer
  <2>4. transcript \in Seq([run : Runs, role : {"user", "assistant"}])
    BY DEF RunInit
  <2>5. known \in [Editors -> 1..Len(writes)] /\ storeFailures \in 0..MaxStoreFailures /\ archived \in BOOLEAN
    <3>1. 1 \in 1..Len(writes) /\ 0 \in 0..MaxStoreFailures
      BY <2>1, BoundsAssumption
    <3> QED
      BY <3>1 DEF RunInit
  <2>6. runRows \subseteq [run : Runs, status : {"COMPLETED", "FAILED"}, saved : Nat]
    BY DEF RunInit
  <2> QED
    BY <2>1, <2>2, <2>3, <2>4, <2>5, <2>6 DEF RunTypeOK, Revision
<1>2. Len(writes) = 1 /\ writes[1] = [by |-> "creator", seen |-> 0]
  BY DEF RunInit
<1>3. NoLostUpdate /\ SavesOnLoaded
  BY <1>2 DEF NoLostUpdate, SavesOnLoaded, Revision
<1>4. LoadedInTime /\ SavedIsStored
  BY <1>2 DEF RunInit, LoadedInTime, SavedIsStored, Saved, Revision, Answer, Idle
<1> QED
  BY <1>1, <1>3, <1>4 DEF AgentInv

(* Changed local variables of a run are local variables. *)
LEMMA LocalsChanged ==
    ASSUME BoundsAssumption, NEW old \in Locals
    PROVE  /\ \A pc \in {"new", "loaded", "asking", "acting", "ended"}, k \in Nat, x \in Nat, y \in Nat :
                /\ [old EXCEPT !.pc = pc] \in Locals
                /\ [old EXCEPT !.pc = pc, !.steps = k] \in Locals
                /\ [old EXCEPT !.pc = pc, !.existing = x, !.expected = y] \in Locals
           /\ \A k \in Nat, g \in BOOLEAN : [old EXCEPT !.failures = k, !.gaveUp = g] \in Locals
           /\ \A f \in {"no", "overwritten", "conflict"}, k \in Nat :
                /\ [old EXCEPT !.finalized = f, !.saved = k] \in Locals
                /\ [old EXCEPT !.finalized = f] \in Locals
BY DEF Locals

(* Every step keeps the types. *)
LEMMA AgentTypesKept == RunTypeOK /\ [RunNext]_runVars => RunTypeOK'
<1> SUFFICES ASSUME RunTypeOK, [RunNext]_runVars PROVE RunTypeOK'
  OBVIOUS
<1> DEFINE Turns == [run : Runs, role : {"user", "assistant"}]
<1> DEFINE Rows == [run : Runs, status : {"COMPLETED", "FAILED"}, saved : Nat]
<1>0. /\ writes \in Seq(Write) /\ known \in [Editors -> 1..Len(writes)] /\ Len(writes) \in Nat
      /\ archived \in BOOLEAN /\ transcript \in Seq(Turns) /\ runRows \subseteq Rows
      /\ run \in [Runs -> Locals] /\ calls \in [Runs -> [Calls -> CallStates]]
      /\ response \in [Runs -> Responses] /\ storeFailures \in 0..MaxStoreFailures
      /\ MaxStoreFailures \in Nat
  BY BoundsAssumption DEF RunTypeOK, Revision
<1>1. SUFFICES
        /\ writes' \in Seq(Write) /\ known' \in [Editors -> 1..Len(writes')]
        /\ archived' \in BOOLEAN /\ transcript' \in Seq(Turns) /\ runRows' \subseteq Rows
        /\ run' \in [Runs -> Locals] /\ calls' \in [Runs -> [Calls -> CallStates]]
        /\ response' \in [Runs -> Responses] /\ storeFailures' \in 0..MaxStoreFailures
  BY DEF RunTypeOK, Revision
<1>2. writes' \in Seq(Write) /\ known' \in [Editors -> 1..Len(writes')] /\ archived' \in BOOLEAN
  <2>1. CASE UNCHANGED <<writes, known, archived>>
    BY <1>0, <2>1
  <2>2. ASSUME NEW r \in Runs, NEW c \in Calls, Overwrite(r, c), Matches(r)
        PROVE  /\ writes' \in Seq(Write) /\ known' \in [Editors -> 1..Len(writes')]
               /\ archived' \in BOOLEAN
    <3>1. [by |-> r, seen |-> run[r].existing] \in Write
      BY <1>0 DEF Write, Locals
    <3>2. writes' = Append(writes, [by |-> r, seen |-> run[r].existing])
      BY <2>2 DEF Overwrite
    <3>3. writes' \in Seq(Write) /\ Len(writes') = Len(writes) + 1
      BY <1>0, <3>1, <3>2
    <3> QED
      BY <1>0, <2>2, <3>3 DEF Overwrite
  <2>3. ASSUME NEW e \in Editors, Patch(e) \/ Archive(e)
        PROVE  /\ writes' \in Seq(Write) /\ known' \in [Editors -> 1..Len(writes')]
               /\ archived' \in BOOLEAN
    <3>1. CASE writes' = writes
      <4>1. known' = [known EXCEPT ![e] = Len(writes)]
        BY <1>0, <2>3, <3>1 DEF Patch, Archive, Revision
      <4>2. Len(writes) \in 1..Len(writes)
        BY <1>0
      <4> QED
        BY <1>0, <2>3, <3>1, <4>1, <4>2 DEF Patch, Archive
    <3>2. CASE writes' = Append(writes, [by |-> e, seen |-> known[e]])
      <4>1. [by |-> e, seen |-> known[e]] \in Write
        BY <1>0 DEF Write
      <4>2. writes' \in Seq(Write) /\ Len(writes') = Len(writes) + 1
        BY <1>0, <3>2, <4>1
      <4>3. known' = known \/ known' = [known EXCEPT ![e] = Len(writes) + 1]
        BY <2>3, <3>2 DEF Patch, Archive, Revision
      <4>4. \A n \in 1..Len(writes) : n \in 1..Len(writes')
        BY <1>0, <4>2
      <4>5. known' \in [Editors -> 1..Len(writes')]
        <5>1. CASE known' = known
          BY <1>0, <4>4, <5>1
        <5>2. CASE known' = [known EXCEPT ![e] = Len(writes) + 1]
          <6>1. Len(writes) + 1 \in 1..Len(writes')
            BY <1>0, <4>2
          <6> QED
            BY <1>0, <4>4, <5>2, <6>1
        <5> QED
          BY <4>3, <5>1, <5>2
      <4> QED
        BY <1>0, <2>3, <4>2, <4>5 DEF Patch, Archive
    <3> QED
      BY <2>3, <3>1, <3>2 DEF Patch, Archive
  <2> QED
    BY <2>1, <2>2, <2>3, ZenonT(60) DEF RunNext, runVars, Load, SaveUserTurn, Act, Ask, CallStep, Validate, Finalize,
       Overwrite, Finalized, EndStep, EndFinalized, GiveUp, Chat, RunFails, SaveFails
<1>3. transcript' \in Seq(Turns)
  <2>1. ASSUME NEW r \in Runs, NEW role \in {"user", "assistant"}, Say(r, role)
        PROVE  transcript' \in Seq(Turns)
    <3> DEFINE turn == [run |-> r, role |-> role]
    <3>1. turn \in Turns /\ transcript' = Append(transcript, turn)
      BY <2>1 DEF Say
    <3> HIDE DEF Turns, turn
    <3> QED
      BY <1>0, <3>1
  <2> HIDE DEF Turns
  <2> QED
    BY <1>0, <2>1, ZenonT(60) DEF RunNext, runVars, Load, SaveUserTurn, Act, Ask, CallStep, Validate, Finalize,
       Overwrite, Finalized, EndStep, EndFinalized, GiveUp, Chat, RunFails, SaveFails, Patch, Archive
<1>4. runRows' \subseteq Rows
  <2>1. ASSUME NEW r \in Runs, NEW c \in Calls, Overwrite(r, c) PROVE runRows' \subseteq Rows
    <3>1. [run |-> r, status |-> "COMPLETED", saved |-> Revision + 1] \in Rows
      BY <1>0 DEF Revision
    <3> HIDE DEF Rows
    <3> QED
      BY <1>0, <2>1, <3>1 DEF Overwrite
  <2>2. ASSUME NEW r \in Runs, GiveUp(r) PROVE runRows' \subseteq Rows
    <3>1. [run |-> r, status |-> "FAILED", saved |-> 0] \in Rows
      OBVIOUS
    <3> HIDE DEF Rows
    <3> QED
      BY <1>0, <2>2, <3>1 DEF GiveUp
  <2> HIDE DEF Rows
  <2> QED
    BY <1>0, <2>1, <2>2 DEF RunNext, runVars, Load, SaveUserTurn, Act, Ask, CallStep, Validate, Finalize,
       Finalized, EndStep, EndFinalized, Chat, RunFails, SaveFails, Patch, Archive
<1>5. calls' \in [Runs -> [Calls -> CallStates]]
  <2>1. ASSUME NEW r \in Runs, NEW c \in Calls, NEW s \in CallStates
        PROVE  [calls EXCEPT ![r][c] = s] \in [Runs -> [Calls -> CallStates]]
    BY <1>0
  <2>2. {"idle", "saving", "stored", "refused"} \subseteq CallStates
    BY DEF CallStates
  <2>3. ASSUME NEW r \in Runs, NEW c \in Calls, NEW s \in {"idle", "saving", "stored", "refused"},
               calls' = [calls EXCEPT ![r][c] = s]
        PROVE  calls' \in [Runs -> [Calls -> CallStates]]
    BY <2>1, <2>2, <2>3
  <2>4. ASSUME NEW r \in Runs, Act(r) PROVE calls' \in [Runs -> [Calls -> CallStates]]
    BY <1>0, <2>4 DEF Act, CallStates
  <2>5. ASSUME NEW r \in Runs, NEW c \in Calls,
               Validate(r, c) \/ Finalize(r, c) \/ Overwrite(r, c) \/ Finalized(r, c) \/ SaveFails(r, c)
        PROVE  \E s \in {"idle", "saving", "stored", "refused"} : calls' = [calls EXCEPT ![r][c] = s]
    BY <2>5 DEF Validate, Finalize, Overwrite, Finalized, SaveFails
  <2>6. CASE UNCHANGED calls
    BY <1>0, <2>6
  <2>7. ASSUME calls' # calls
        PROVE  \E r \in Runs : \/ Act(r)
                               \/ \E c \in Calls : \/ Validate(r, c) \/ Finalize(r, c)
                                                   \/ Overwrite(r, c) \/ Finalized(r, c)
                                                   \/ SaveFails(r, c)
    BY <2>7 DEF RunNext, runVars, Load, SaveUserTurn, Ask, CallStep, EndStep, EndFinalized, GiveUp, Chat,
       RunFails, Patch, Archive
  <2> QED
    BY <2>3, <2>4, <2>5, <2>6, <2>7
<1>6. response' \in [Runs -> Responses]
  <2>1. ASSUME NEW r \in Runs
        PROVE  /\ FinalizedResponse(r) \in Responses
               /\ \A t \in {"notFound", "invalid", "chat", "failed"} : Answer(t, 0) \in Responses
    BY <1>0 DEF FinalizedResponse, Answer, Responses, Locals
  <2>2. ASSUME NEW r \in Runs, response' # response,
               \/ Load(r) \/ SaveUserTurn(r) \/ EndStep(r)
               \/ \E c \in Calls : SaveFails(r, c)
        PROVE  \E answer \in Responses : response' = [response EXCEPT ![r] = answer]
    BY <2>1, <2>2 DEF Load, SaveUserTurn, EndStep, EndFinalized, GiveUp, Chat, RunFails, SaveFails,
       Respond
  <2>3. ASSUME response' # response
        PROVE  \E r \in Runs : \/ Load(r) \/ SaveUserTurn(r) \/ EndStep(r)
                               \/ \E c \in Calls : SaveFails(r, c)
    BY <2>3 DEF RunNext, runVars, Act, Ask, CallStep, Validate, Finalize, Overwrite, Finalized, Patch, Archive
  <2> QED
    BY <1>0, <2>2, <2>3
<1>7. storeFailures' \in 0..MaxStoreFailures
  <2>1. StoreFails \/ UNCHANGED storeFailures
    BY ZenonT(60) DEF RunNext, runVars, Load, SaveUserTurn, Act, Ask, CallStep, Validate, Finalize, Overwrite,
       Finalized, EndStep, EndFinalized, GiveUp, Chat, RunFails, SaveFails, Patch, Archive
  <2> QED
    BY <1>0, <2>1 DEF StoreFails
<1>8. run' \in [Runs -> Locals]
  <2> DEFINE Changed(r) == \E new \in Locals : run' = [run EXCEPT ![r] = new]
  <2>1. \A r \in Runs : run[r] \in Locals
    BY <1>0
  <2>2. ASSUME NEW r \in Runs, Load(r) PROVE Changed(r)
    <3>1. CASE archived
      BY <2>1, <2>2, <3>1, BoundsAssumption, LocalsChanged DEF Load
    <3>2. CASE ~archived
      <4>1. PICK revision \in 1..Revision :
              run' = [run EXCEPT ![r] = [run[r] EXCEPT !.pc = "loaded", !.existing = Revision,
                                                       !.expected = revision]]
        BY <2>2, <3>2 DEF Load
      <4>2. Revision \in Nat /\ revision \in Nat
        BY <1>0 DEF Revision
      <4> QED
        BY <2>1, <4>1, <4>2, BoundsAssumption, LocalsChanged
    <3> QED
      BY <3>1, <3>2
  <2>3. ASSUME NEW r \in Runs, SaveUserTurn(r) \/ Ask(r) PROVE Changed(r)
    BY <2>1, <2>3, BoundsAssumption, LocalsChanged DEF SaveUserTurn, Ask
  <2>4. ASSUME NEW r \in Runs, Act(r) PROVE Changed(r)
    <3>1. run[r].steps + 1 \in Nat
      BY <2>1 DEF Locals
    <3> QED
      BY <2>1, <2>4, <3>1, BoundsAssumption, LocalsChanged DEF Act
  <2>5. ASSUME NEW r \in Runs, NoteFailure(r) PROVE Changed(r)
    <3> DEFINE gaveUp == run[r].gaveUp \/ run[r].failures + 1 > MaxRetries
    <3>1. run[r].failures + 1 \in Nat /\ gaveUp \in BOOLEAN
      BY <2>1 DEF Locals
    <3>2. run' = [run EXCEPT ![r] = [run[r] EXCEPT !.failures = run[r].failures + 1, !.gaveUp = gaveUp]]
      BY <2>5 DEF NoteFailure
    <3> HIDE DEF gaveUp
    <3> QED
      BY <2>1, <3>1, <3>2, BoundsAssumption, LocalsChanged
  <2>6. ASSUME NEW r \in Runs, NEW c \in Calls, Finalized(r, c) PROVE Changed(r)
    <3>1. run[r].expected + 1 \in Nat
      BY <2>1 DEF Locals
    <3> QED
      BY <2>1, <2>6, <3>1, BoundsAssumption, LocalsChanged DEF Finalized
  <2>7. ASSUME NEW r \in Runs, NEW answer, Respond(r, answer) PROVE Changed(r)
    BY <2>1, <2>7, BoundsAssumption, LocalsChanged DEF Respond
  <2>8. \A r \in Runs : Changed(r) => run' \in [Runs -> Locals]
    BY <1>0
  <2> HIDE DEF Changed
  <2>9. ASSUME run' # run PROVE \E r \in Runs : Changed(r)
    BY ZenonT(60), <2>2, <2>3, <2>4, <2>5, <2>6, <2>7, <2>9 DEF RunNext, runVars, CallStep, Validate, Finalize,
       Overwrite, EndStep, EndFinalized, GiveUp, Chat, RunFails, SaveFails, Patch, Archive
  <2> QED
    BY <1>0, <2>8, <2>9
<1> QED
  BY <1>2, <1>3, <1>4, <1>5, <1>6, <1>7, <1>8

-----------------------------------------------------------------------------
(* What a step may do to the local variables of a run, to one of its calls *)
(* and to its answer.                                                      *)
LocalStep(r) ==
    \/ run'[r] = run[r]
    \/ /\ run[r].pc = "new" /\ run'[r].pc = "loaded"
       /\ run'[r].existing = Revision /\ run'[r].expected \in 1..Revision
       /\ UNCHANGED <<writes, calls, response>>
       /\ run'[r].finalized = run[r].finalized
    \/ /\ run'[r].existing = run[r].existing /\ run'[r].expected = run[r].expected
       /\ \/ run'[r].pc = "ended" \/ run'[r].pc = run[r].pc
          \/ {run[r].pc, run'[r].pc} \subseteq {"loaded", "asking", "acting"}
       /\ \/ run'[r].finalized = run[r].finalized /\ run'[r].saved = run[r].saved
          \/ run'[r].finalized = "conflict"
          \/ /\ run'[r].finalized = "overwritten" /\ run'[r].saved = run[r].expected + 1
             /\ \E c \in Calls : calls[r][c] = "stored"

CallMoves(r, c) ==
    \/ calls'[r][c] \in {calls[r][c], "idle"}
    \/ calls'[r][c] # "stored" /\ (run[r].pc = "asking" \/ calls[r][c] # "idle")
    \/ calls'[r][c] = "stored" /\ Overwrite(r, c) /\ Matches(r)

AnswerStep(r) ==
    \/ response'[r] = response[r]
    \/ response'[r].type # "generation"
    \/ Saved(r) /\ response'[r].revision = run[r].saved

(* What was written stays, and one revision is written at a time, by who   *)
(* had the last one in front of them, or by a run's save.                  *)
LEMMA HistoryGrows ==
    RunTypeOK /\ [RunNext]_runVars =>
        /\ Revision <= Revision' /\ \A n \in 1..Revision : writes'[n] = writes[n]
        /\ runRows \subseteq runRows'
        /\ Len(transcript) <= Len(transcript)'
        /\ \A i \in 1..Len(transcript) : transcript'[i] = transcript[i]
        /\ \A n \in 1..Revision' : n \notin 1..Revision =>
                /\ n = Revision + 1
                /\ \/ \E r \in Runs, c \in Calls :
                        /\ Overwrite(r, c) /\ Matches(r)
                        /\ writes'[n] = [by |-> r, seen |-> run[r].existing]
                   \/ \E e \in Editors : writes'[n] = [by |-> e, seen |-> Revision]
<1> SUFFICES ASSUME RunTypeOK, [RunNext]_runVars
             PROVE  /\ Revision <= Revision' /\ \A n \in 1..Revision : writes'[n] = writes[n]
                    /\ runRows \subseteq runRows'
                    /\ Len(transcript) <= Len(transcript)'
                    /\ \A i \in 1..Len(transcript) : transcript'[i] = transcript[i]
                    /\ \A n \in 1..Revision' : n \notin 1..Revision =>
                            /\ n = Revision + 1
                            /\ \/ \E r \in Runs, c \in Calls :
                                    /\ Overwrite(r, c) /\ Matches(r)
                                    /\ writes'[n] = [by |-> r, seen |-> run[r].existing]
                               \/ \E e \in Editors : writes'[n] = [by |-> e, seen |-> Revision]
  OBVIOUS
<1>1. \/ UNCHANGED writes
      \/ \E r \in Runs, c \in Calls :
            /\ Overwrite(r, c) /\ Matches(r)
            /\ writes' = Append(writes, [by |-> r, seen |-> run[r].existing])
      \/ \E e \in Editors : writes' = Append(writes, [by |-> e, seen |-> Revision])
  <2>1. ASSUME writes' # writes
        PROVE  \/ \E r \in Runs, c \in Calls : Overwrite(r, c)
               \/ \E e \in Editors : Patch(e) \/ Archive(e)
    BY <2>1, ZenonT(60) DEF RunNext, runVars, Load, SaveUserTurn, Act, Ask, CallStep, Validate, Finalize,
       Finalized, EndStep, EndFinalized, GiveUp, Chat, RunFails, SaveFails
  <2>2. ASSUME NEW r \in Runs, NEW c \in Calls, Overwrite(r, c), writes' # writes
        PROVE  Matches(r) /\ writes' = Append(writes, [by |-> r, seen |-> run[r].existing])
    BY <2>2 DEF Overwrite
  <2>3. ASSUME NEW e \in Editors, Patch(e) \/ Archive(e), writes' # writes
        PROVE  writes' = Append(writes, [by |-> e, seen |-> Revision])
    BY <2>3 DEF Patch, Archive
  <2> QED
    BY <2>1, <2>2, <2>3
<1>2. writes \in Seq(Write) /\ Len(writes) \in Nat
  BY DEF RunTypeOK
<1>3. UNCHANGED transcript \/ \E r \in Runs, role \in {"user", "assistant"} : Say(r, role)
  BY ZenonT(60) DEF RunNext, runVars, Load, SaveUserTurn, Act, Ask, CallStep, Validate, Finalize, Overwrite,
     Finalized, EndStep, EndFinalized, GiveUp, Chat, RunFails, SaveFails, Patch, Archive
<1>4. transcript \in Seq([run : Runs, role : {"user", "assistant"}]) /\ Len(transcript) \in Nat
  BY DEF RunTypeOK
<1>5. runRows \subseteq runRows'
  BY ZenonT(60) DEF RunNext, runVars, Load, SaveUserTurn, Act, Ask, CallStep, Validate, Finalize, Overwrite,
     Finalized, EndStep, EndFinalized, GiveUp, Chat, RunFails, SaveFails, Patch, Archive
<1>6. /\ Len(transcript) <= Len(transcript)'
      /\ \A i \in 1..Len(transcript) : transcript'[i] = transcript[i]
  <2>1. CASE UNCHANGED transcript
    BY <1>4, <2>1
  <2>2. ASSUME NEW r \in Runs, NEW role \in {"user", "assistant"}, Say(r, role)
        PROVE  /\ Len(transcript) <= Len(transcript)'
               /\ \A i \in 1..Len(transcript) : transcript'[i] = transcript[i]
    <3> DEFINE turn == [run |-> r, role |-> role]
    <3>1. transcript' = Append(transcript, turn)
      BY <2>2 DEF Say
    <3> HIDE DEF turn
    <3> QED
      BY <1>4, <3>1
  <2> QED
    BY <1>3, <2>1, <2>2
<1>7. ASSUME NEW w, writes' = Append(writes, w)
      PROVE  /\ Revision' = Revision + 1 /\ writes'[Revision + 1] = w
             /\ \A n \in 1..Revision : writes'[n] = writes[n]
  BY <1>2, <1>7 DEF Revision
<1>8. CASE UNCHANGED writes
  BY <1>2, <1>5, <1>6, <1>8 DEF Revision
<1>9. ASSUME NEW r \in Runs, NEW c \in Calls, Overwrite(r, c), Matches(r),
             writes' = Append(writes, [by |-> r, seen |-> run[r].existing])
      PROVE  /\ Revision' = Revision + 1 /\ \A n \in 1..Revision : writes'[n] = writes[n]
             /\ writes'[Revision + 1] = [by |-> r, seen |-> run[r].existing]
  BY <1>7, <1>9
<1>10. ASSUME NEW e \in Editors, writes' = Append(writes, [by |-> e, seen |-> Revision])
       PROVE  /\ Revision' = Revision + 1 /\ \A n \in 1..Revision : writes'[n] = writes[n]
              /\ writes'[Revision + 1] = [by |-> e, seen |-> Revision]
  BY <1>7, <1>10
<1>11. Revision' = Revision + 1 => \A n \in 1..Revision' : n \notin 1..Revision => n = Revision + 1
  BY <1>2 DEF Revision
<1>12. Revision \in Nat
  BY <1>2 DEF Revision
<1>13. CASE Revision' = Revision + 1 /\ \A n \in 1..Revision : writes'[n] = writes[n]
  <2>1. ASSUME NEW n \in 1..Revision', n \notin 1..Revision
        PROVE  \/ \E r \in Runs, c \in Calls :
                    /\ Overwrite(r, c) /\ Matches(r)
                    /\ writes'[n] = [by |-> r, seen |-> run[r].existing]
               \/ \E e \in Editors : writes'[n] = [by |-> e, seen |-> Revision]
    <3>1. n = Revision + 1
      BY <1>11, <1>13, <2>1
    <3>2. writes' # writes
      BY <1>12, <1>13 DEF Revision
    <3> QED
      BY <1>1, <1>9, <1>10, <3>1, <3>2
  <2> QED
    <3>1. Revision <= Revision'
      BY <1>12, <1>13
    <3>2. \A n \in 1..Revision' : n \notin 1..Revision =>
            /\ n = Revision + 1
            /\ \/ \E r \in Runs, c \in Calls :
                    /\ Overwrite(r, c) /\ Matches(r)
                    /\ writes'[n] = [by |-> r, seen |-> run[r].existing]
               \/ \E e \in Editors : writes'[n] = [by |-> e, seen |-> Revision]
      BY <1>11, <1>13, <2>1
    <3> QED
      BY <1>5, <1>6, <1>13, <3>1, <3>2
<1> QED
  BY <1>1, <1>8, <1>9, <1>10, <1>13

(* What a step does to the local variables of a run. *)
LEMMA LocalSteps == RunTypeOK /\ [RunNext]_runVars => \A r \in Runs : LocalStep(r)
<1> SUFFICES ASSUME RunTypeOK, [RunNext]_runVars, NEW r \in Runs PROVE LocalStep(r)
  OBVIOUS
<1>1. run[r] \in Locals /\ run \in [Runs -> Locals]
  BY DEF RunTypeOK
<1> DEFINE Kept == run'[r].existing = run[r].existing /\ run'[r].expected = run[r].expected
<1> DEFINE Answers(q) == \E answer : Respond(q, answer)
<1> DEFINE SameFilm == run'[r].finalized = run[r].finalized /\ run'[r].saved = run[r].saved
<1>2. CASE Load(r)
  <2>1. CASE archived
    <3>1. run'[r] = [run[r] EXCEPT !.pc = "ended"]
      BY <1>1, <1>2, <2>1 DEF Load
    <3>2. Kept /\ SameFilm /\ run'[r].pc = "ended"
      BY <1>1, <3>1 DEF Locals
    <3> QED
      BY <3>2 DEF LocalStep
  <2>2. CASE ~archived
    <3>1. PICK revision \in 1..Revision :
            run'[r] = [run[r] EXCEPT !.pc = "loaded", !.existing = Revision, !.expected = revision]
      BY <1>1, <1>2, <2>2 DEF Load
    <3>2. /\ run'[r].pc = "loaded" /\ run'[r].existing = Revision /\ run'[r].expected = revision
          /\ run'[r].finalized = run[r].finalized
      BY <1>1, <3>1 DEF Locals
    <3> QED
      BY <1>2, <2>2, <3>2 DEF Load, LocalStep
  <2> QED
    BY <2>1, <2>2
<1>3. CASE SaveUserTurn(r) \/ Act(r) \/ Ask(r)
  <2>1. run[r].pc \in {"loaded", "asking", "acting"}
    BY <1>3 DEF SaveUserTurn, Act, Ask
  <2>2. PICK pc \in {"asking", "acting", "ended"} :
            \/ run'[r] = [run[r] EXCEPT !.pc = pc]
            \/ run'[r] = [run[r] EXCEPT !.pc = pc, !.steps = run[r].steps + 1]
    <3>1. SaveUserTurn(r) => \/ run'[r] = [run[r] EXCEPT !.pc = "asking"]
                             \/ run'[r] = [run[r] EXCEPT !.pc = "ended"]
      BY <1>1 DEF SaveUserTurn
    <3>2. Act(r) => run'[r] = [run[r] EXCEPT !.pc = "acting", !.steps = run[r].steps + 1]
      BY <1>1 DEF Act
    <3>3. Ask(r) => run'[r] = [run[r] EXCEPT !.pc = "asking"]
      BY <1>1 DEF Ask
    <3> QED
      BY <1>3, <3>1, <3>2, <3>3
  <2>3. Kept /\ SameFilm /\ run'[r].pc = pc
    BY <1>1, <2>2 DEF Locals
  <2> QED
    BY <2>1, <2>3 DEF LocalStep
<1>4. CASE NoteFailure(r)
  <2>1. PICK k, g : run'[r] = [run[r] EXCEPT !.failures = k, !.gaveUp = g]
    BY <1>1, <1>4 DEF NoteFailure
  <2>2. Kept /\ SameFilm /\ run'[r].pc = run[r].pc
    BY <1>1, <2>1 DEF Locals
  <2> QED
    BY <2>2 DEF LocalStep
<1>5. ASSUME NEW c \in Calls, Finalized(r, c) PROVE LocalStep(r)
  <2>1. CASE calls[r][c] = "stored"
    <3>1. run'[r] = [run[r] EXCEPT !.finalized = "overwritten", !.saved = run[r].expected + 1]
      BY <1>1, <1>5, <2>1 DEF Finalized
    <3>2. /\ Kept /\ run'[r].pc = run[r].pc /\ run'[r].finalized = "overwritten"
          /\ run'[r].saved = run[r].expected + 1
      BY <1>1, <3>1 DEF Locals
    <3> QED
      BY <2>1, <3>2 DEF LocalStep
  <2>2. CASE calls[r][c] # "stored"
    <3>1. run'[r] = [run[r] EXCEPT !.finalized = "conflict"]
      BY <1>1, <1>5, <2>2 DEF Finalized
    <3>2. Kept /\ run'[r].pc = run[r].pc /\ run'[r].finalized = "conflict"
      BY <1>1, <3>1 DEF Locals
    <3> QED
      BY <3>2 DEF LocalStep
  <2> QED
    BY <2>1, <2>2
<1>6. ASSUME Answers(r) PROVE LocalStep(r)
  <2>1. run'[r] = [run[r] EXCEPT !.pc = "ended"]
    BY <1>1, <1>6 DEF Respond
  <2>2. Kept /\ SameFilm /\ run'[r].pc = "ended"
    BY <1>1, <2>1 DEF Locals
  <2> QED
    BY <2>2 DEF LocalStep
<1>7. CASE run'[r] = run[r]
  BY <1>7 DEF LocalStep
<1>8. ASSUME NEW q \in Runs, run'[r] # run[r],
             \/ Load(q) \/ SaveUserTurn(q) \/ Act(q) \/ Ask(q) \/ NoteFailure(q)
             \/ \E c \in Calls : Finalized(q, c)
             \/ Answers(q)
      PROVE  q = r
  BY <1>1, <1>8 DEF Load, SaveUserTurn, Act, Ask, NoteFailure, Finalized, Respond
<1> HIDE DEF Answers
<1>9. ASSUME run'[r] # run[r]
      PROVE  \E q \in Runs : \/ Load(q) \/ SaveUserTurn(q) \/ Act(q) \/ Ask(q) \/ NoteFailure(q)
                             \/ \E c \in Calls : Finalized(q, c)
                             \/ Answers(q)
  <2>1. \A q \in Runs : EndStep(q) => Answers(q)
    BY DEF EndStep, EndFinalized, GiveUp, Chat, RunFails, Answers
  <2>2. \A q \in Runs, c \in Calls : SaveFails(q, c) /\ run' # run => Answers(q)
    BY DEF SaveFails, Answers
  <2>3. \A q \in Runs, c \in Calls : (Validate(q, c) \/ Finalize(q, c)) /\ run' # run => NoteFailure(q)
    BY DEF Validate, Finalize
  <2> QED
    <3>1. PICK q \in Runs : \/ Load(q) \/ SaveUserTurn(q) \/ Act(q) \/ Ask(q) \/ EndStep(q)
                            \/ \E c \in Calls : Validate(q, c) \/ Finalize(q, c) \/ Finalized(q, c)
                            \/ \E c \in Calls : SaveFails(q, c)
      BY <1>9 DEF RunNext, runVars, CallStep, Overwrite, Patch, Archive
    <3>2. run' # run
      BY <1>9
    <3>3. ASSUME EndStep(q) \/ \E c \in Calls : SaveFails(q, c) PROVE Answers(q)
      BY <2>1, <2>2, <3>2, <3>3
    <3>4. ASSUME NEW c \in Calls, Validate(q, c) \/ Finalize(q, c) PROVE NoteFailure(q)
      BY <2>3, <3>2, <3>4
    <3> QED
      BY <3>1, <3>3, <3>4
<1> QED
  BY <1>2, <1>3, <1>4, <1>5, <1>6, <1>7, <1>8, <1>9

(* What a step does to a call. *)
LEMMA CallMovesAsSaid == RunTypeOK /\ [RunNext]_runVars => \A r \in Runs, c \in Calls : CallMoves(r, c)
<1> SUFFICES ASSUME RunTypeOK, [RunNext]_runVars, NEW r \in Runs, NEW c \in Calls PROVE CallMoves(r, c)
  OBVIOUS
<1>1. calls \in [Runs -> [Calls -> CallStates]]
  BY DEF RunTypeOK
<1>2. CASE calls'[r][c] = calls[r][c]
  BY <1>2 DEF CallMoves
<1>3. ASSUME NEW q \in Runs, Act(q) PROVE CallMoves(r, c)
  <2>1. CASE q = r
    BY <1>1, <1>3, <2>1 DEF Act, CallMoves
  <2>2. CASE q # r
    BY <1>1, <1>3, <2>2 DEF Act, CallMoves
  <2> QED
    BY <2>1, <2>2
<1>4. ASSUME NEW q \in Runs, NEW d \in Calls, calls'[r][c] # calls[r][c],
             \/ Validate(q, d) \/ Finalize(q, d) \/ Overwrite(q, d) \/ Finalized(q, d)
             \/ SaveFails(q, d)
      PROVE  CallMoves(r, c)
  <2>1. PICK s \in {"idle", "saving", "stored", "refused"} :
            /\ calls' = [calls EXCEPT ![q][d] = s]
            /\ s # "idle" => calls[q][d] # "idle"
            /\ s = "stored" => Overwrite(q, d) /\ Matches(q)
    BY <1>4 DEF Validate, Finalize, Overwrite, Finalized, SaveFails
  <2>2. q = r /\ d = c
    BY <1>1, <1>4, <2>1
  <2>3. calls'[r][c] = s
    BY <1>1, <2>1, <2>2
  <2> QED
    BY <2>1, <2>2, <2>3 DEF CallMoves
<1>5. ASSUME calls' # calls
      PROVE  \E q \in Runs : \/ Act(q)
                             \/ \E d \in Calls : \/ Validate(q, d) \/ Finalize(q, d)
                                                 \/ Overwrite(q, d) \/ Finalized(q, d)
                                                 \/ SaveFails(q, d)
  BY <1>5 DEF RunNext, runVars, Load, SaveUserTurn, Ask, CallStep, EndStep, EndFinalized, GiveUp, Chat,
     RunFails, Patch, Archive
<1> QED
  BY <1>2, <1>3, <1>4, <1>5

(* What a step does to the answer of a run. *)
LEMMA AnswerSteps == RunTypeOK /\ [RunNext]_runVars => \A r \in Runs : AnswerStep(r)
<1> SUFFICES ASSUME RunTypeOK, [RunNext]_runVars, NEW r \in Runs, response'[r] # response[r]
             PROVE  AnswerStep(r)
  BY DEF AnswerStep
<1>1. response \in [Runs -> Responses]
  BY DEF RunTypeOK
<1>2. PICK q \in Runs : \/ Load(q) \/ SaveUserTurn(q) \/ EndStep(q)
                        \/ \E c \in Calls : SaveFails(q, c)
  BY DEF RunNext, runVars, Act, Ask, CallStep, Validate, Finalize, Overwrite, Finalized, Patch, Archive
<1>3. PICK answer :
        /\ response' = [response EXCEPT ![q] = answer]
        /\ \/ answer = FinalizedResponse(q)
           \/ \E t \in {"notFound", "invalid", "chat", "failed"} : answer = Answer(t, 0)
  BY <1>2 DEF Load, SaveUserTurn, EndStep, EndFinalized, GiveUp, Chat, RunFails, SaveFails, Respond
<1>4. q = r /\ response'[r] = answer
  BY <1>1, <1>3
<1> QED
  BY <1>3, <1>4 DEF AnswerStep, FinalizedResponse, Answer, Saved

-----------------------------------------------------------------------------
(* The parts of the invariant are kept. *)
LEMMA StoredStays ==
    ASSUME RunTypeOK, [RunNext]_runVars, NEW r \in Runs, Stored(r), run'[r].expected = run[r].expected
    PROVE  Stored(r)'
<1>1. /\ Revision \in Nat /\ Revision' \in Nat /\ Len(transcript) \in Nat /\ Len(transcript)' \in Nat
      /\ run[r].expected \in Nat
  BY AgentTypesKept DEF RunTypeOK, Revision, Locals
<1> DEFINE n == run[r].expected + 1
<1>2. n \in 1..Revision' /\ writes'[n].by = r
  BY <1>1, HistoryGrows DEF Stored
<1>3. [run |-> r, status |-> "COMPLETED", saved |-> n] \in runRows'
  BY HistoryGrows DEF Stored
<1>4. \E i \in 1..Len(transcript)' : transcript'[i] = [run |-> r, role |-> "assistant"]
  BY <1>1, HistoryGrows DEF Stored
<1> QED
  BY <1>2, <1>3, <1>4 DEF Stored

(* What a run may save on it has loaded, and what it loaded is no newer    *)
(* than the film.                                                          *)
LEMMA LoadedKept == AgentInv /\ [RunNext]_runVars => LoadedInTime'
<1> SUFFICES ASSUME AgentInv, [RunNext]_runVars, NEW r \in Runs
             PROVE  /\ run'[r].expected <= run'[r].existing /\ run'[r].existing <= Revision'
                    /\ run'[r].pc = "new" => run'[r].existing = 0
                    /\ run'[r].pc \in {"loaded", "asking", "acting"} => run'[r].existing # 0
                    /\ \A c \in Calls : calls'[r][c] # "idle" => run'[r].existing # 0
  BY DEF LoadedInTime
<1>1. /\ run[r] \in Locals /\ run'[r] \in Locals
      /\ Revision \in Nat /\ Revision' \in Nat /\ Revision <= Revision'
  BY AgentTypesKept, HistoryGrows DEF AgentInv, RunTypeOK, Revision
<1>2. /\ run[r].expected <= run[r].existing /\ run[r].existing <= Revision
      /\ run[r].pc = "new" => run[r].existing = 0
      /\ run[r].pc \in {"loaded", "asking", "acting"} => run[r].existing # 0
      /\ \A c \in Calls : calls[r][c] # "idle" => run[r].existing # 0
  BY DEF AgentInv, LoadedInTime
<1>3. LocalStep(r)
  BY LocalSteps DEF AgentInv
<1>4. \A c \in Calls : calls'[r][c] # "idle" => calls[r][c] # "idle" \/ run[r].pc = "asking"
  BY CallMovesAsSaid DEF CallMoves, AgentInv, Overwrite
<1>5. CASE run'[r] = run[r]
  BY <1>1, <1>2, <1>4, <1>5 DEF Locals
<1>6. CASE /\ run[r].pc = "new" /\ run'[r].pc = "loaded"
           /\ run'[r].existing = Revision /\ run'[r].expected \in 1..Revision
  <2>1. run'[r].expected <= Revision /\ Revision # 0
    BY <1>1, <1>6
  <2> QED
    BY <1>1, <1>6, <2>1
<1>7. CASE /\ run'[r].existing = run[r].existing /\ run'[r].expected = run[r].expected
           /\ \/ run'[r].pc = "ended" \/ run'[r].pc = run[r].pc
              \/ {run[r].pc, run'[r].pc} \subseteq {"loaded", "asking", "acting"}
  <2>1. run'[r].expected <= run'[r].existing /\ run'[r].existing <= Revision'
    BY <1>1, <1>2, <1>7 DEF Locals
  <2>2. /\ run'[r].pc = "new" => run[r].pc = "new"
        /\ run'[r].pc \in {"loaded", "asking", "acting"} => run[r].pc \in {"loaded", "asking", "acting"}
    BY <1>7
  <2> QED
    BY <1>2, <1>4, <1>7, <2>1, <2>2
<1> QED
  BY <1>3, <1>5, <1>6, <1>7 DEF LocalStep

(* No step loses an edit that a run did not load.                          *)
LEMMA EditsKept == AgentInv /\ [RunNext]_runVars => NoLostUpdate'
<1> SUFFICES ASSUME AgentInv, [RunNext]_runVars, NEW n \in 1..Revision' PROVE writes'[n].seen = n - 1
  BY DEF NoLostUpdate
<1>1. Revision \in Nat /\ \A r \in Runs : run[r] \in Locals
  BY DEF AgentInv, RunTypeOK, Revision
<1>2. CASE n \in 1..Revision
  BY <1>2, HistoryGrows DEF AgentInv, NoLostUpdate
<1>3. CASE n \notin 1..Revision
  <2>1. n = Revision + 1
    BY <1>3, HistoryGrows DEF AgentInv
  <2>2. ASSUME NEW r \in Runs, Matches(r) PROVE run[r].existing = Revision
    BY <1>1, <2>2 DEF Matches, AgentInv, LoadedInTime, Locals
  <2>3. \/ \E r \in Runs : Matches(r) /\ writes'[n] = [by |-> r, seen |-> run[r].existing]
        \/ \E e \in Editors : writes'[n] = [by |-> e, seen |-> Revision]
    BY <1>3, HistoryGrows DEF AgentInv
  <2>4. ASSUME NEW q, NEW k, writes'[n] = [by |-> q, seen |-> k] PROVE writes'[n].seen = k
    BY <2>4
  <2>5. writes'[n].seen = Revision
    BY <2>2, <2>3, <2>4
  <2> QED
    BY <1>1, <2>1, <2>5
<1> QED
  BY <1>2, <1>3

(* A run saves on top of the revision it loaded.                           *)
LEMMA SavesKept == AgentInv /\ [RunNext]_runVars => SavesOnLoaded'
<1> SUFFICES ASSUME AgentInv, [RunNext]_runVars, NEW r \in Runs, NEW n \in 1..Revision', writes'[n].by = r
             PROVE  run'[r].existing # 0 /\ n = run'[r].expected + 1
  BY DEF SavesOnLoaded
<1>1. Revision \in Nat /\ run[r] \in Locals
  BY DEF AgentInv, RunTypeOK, Revision
<1>2. run[r].existing # 0 /\ n = run[r].expected + 1
  <2>1. CASE n \in 1..Revision
    BY <2>1, HistoryGrows DEF AgentInv, SavesOnLoaded
  <2>2. CASE n \notin 1..Revision
    <3>1. /\ n = Revision + 1
          /\ \/ \E q \in Runs, c \in Calls :
                    /\ Overwrite(q, c) /\ Matches(q)
                    /\ writes'[n] = [by |-> q, seen |-> run[q].existing]
             \/ \E e \in Editors : writes'[n] = [by |-> e, seen |-> Revision]
      BY <2>2, HistoryGrows DEF AgentInv
    <3>2. r \notin Editors
      BY BoundsAssumption
    <3>3. PICK c \in Calls : Overwrite(r, c) /\ Matches(r)
      <4>1. ASSUME NEW q, NEW k, writes'[n] = [by |-> q, seen |-> k] PROVE q = r
        BY <4>1
      <4> QED
        BY <3>1, <3>2, <4>1
    <3> QED
      BY <3>1, <3>3 DEF Overwrite, Matches, AgentInv, LoadedInTime
  <2> QED
    BY <2>1, <2>2
<1>3. run[r].pc # "new"
  BY <1>2 DEF AgentInv, LoadedInTime
<1> QED
  BY <1>2, <1>3, LocalSteps DEF LocalStep, AgentInv

(* What a run was told is saved is stored.                                 *)
LEMMA StoredKept == AgentInv /\ [RunNext]_runVars => SavedIsStored'
<1> SUFFICES ASSUME AgentInv, [RunNext]_runVars, NEW r \in Runs
             PROVE  /\ (\E c \in Calls : calls'[r][c] = "stored") => Stored(r)'
                    /\ Saved(r)' => Stored(r)' /\ run'[r].saved = run'[r].expected + 1
                    /\ response'[r].type = "generation" =>
                            Stored(r)' /\ response'[r].revision = run'[r].expected + 1
  BY DEF SavedIsStored
<1>1. /\ (\E c \in Calls : calls[r][c] = "stored") => Stored(r)
      /\ Saved(r) => Stored(r) /\ run[r].saved = run[r].expected + 1
      /\ response[r].type = "generation" =>
            Stored(r) /\ response[r].revision = run[r].expected + 1
  BY DEF AgentInv, SavedIsStored
<1>2. RunTypeOK /\ RunTypeOK' /\ run[r] \in Locals /\ run'[r] \in Locals
  BY AgentTypesKept DEF AgentInv, RunTypeOK
<1>3. /\ LocalStep(r) /\ AnswerStep(r) /\ \A c \in Calls : CallMoves(r, c)
  BY <1>2, LocalSteps, AnswerSteps, CallMovesAsSaid
<1>4. Stored(r) => run[r].pc # "new"
  BY DEF Stored, AgentInv, LoadedInTime, SavesOnLoaded
<1>5. Stored(r) => run'[r].expected = run[r].expected
  BY <1>3, <1>4 DEF LocalStep
<1>6. Stored(r) => Stored(r)'
  BY <1>2, <1>5, StoredStays
<1>7. ASSUME NEW c \in Calls, calls'[r][c] = "stored" PROVE Stored(r)'
  <2>1. CASE calls[r][c] = "stored"
    BY <1>1, <1>6, <2>1
  <2>2. CASE Overwrite(r, c) /\ Matches(r)
    <3>1. /\ writes' = Append(writes, [by |-> r, seen |-> run[r].existing])
          /\ transcript' = Append(transcript, [run |-> r, role |-> "assistant"])
          /\ [run |-> r, status |-> "COMPLETED", saved |-> Revision + 1] \in runRows'
          /\ Revision = run[r].expected /\ run' = run
      BY <2>2 DEF Overwrite, Say, Matches
    <3>2. writes \in Seq(Write) /\ transcript \in Seq([run : Runs, role : {"user", "assistant"}])
      BY <1>2 DEF RunTypeOK
    <3>3. Revision' = Revision + 1 /\ writes'[Revision + 1].by = r /\ Revision \in Nat
      BY <3>1, <3>2 DEF Revision
    <3>4. transcript'[Len(transcript)'] = [run |-> r, role |-> "assistant"]
          /\ Len(transcript)' \in 1..Len(transcript)'
      BY <3>1, <3>2
    <3>5. run'[r].expected + 1 = Revision + 1 /\ Revision + 1 \in 1..Revision'
      BY <3>1, <3>3
    <3>6. /\ writes'[run'[r].expected + 1].by = r
          /\ [run |-> r, status |-> "COMPLETED", saved |-> run'[r].expected + 1] \in runRows'
      BY <3>1, <3>3, <3>5
    <3>7. \E i \in 1..Len(transcript)' : transcript'[i] = [run |-> r, role |-> "assistant"]
      BY <3>4
    <3> QED
      BY <3>5, <3>6, <3>7 DEF Stored
  <2> QED
    BY <1>3, <1>7, <2>1, <2>2 DEF CallMoves
<1>8. ASSUME Saved(r)' PROVE Stored(r)' /\ run'[r].saved = run'[r].expected + 1
  <2>1. \/ Saved(r) /\ run'[r].saved = run[r].saved
        \/ run'[r].saved = run[r].expected + 1 /\ \E c \in Calls : calls[r][c] = "stored"
        \/ run[r].pc = "new" /\ Saved(r)
    BY <1>3, <1>8 DEF LocalStep, Saved
  <2> QED
    BY <1>1, <1>4, <1>5, <1>6, <2>1
<1>9. ASSUME response'[r].type = "generation"
      PROVE  Stored(r)' /\ response'[r].revision = run'[r].expected + 1
  BY <1>1, <1>3, <1>5, <1>6, <1>9 DEF AnswerStep
<1> QED
  BY <1>7, <1>8, <1>9

(* The invariant of every behaviour of RunSpec. *)
LEMMA AgentInvariance == RunSpec => []AgentInv
<1>1. AgentInv /\ [RunNext]_runVars => AgentInv'
  BY AgentTypesKept, EditsKept, LoadedKept, SavesKept, StoredKept DEF AgentInv
<1> QED
  BY <1>1, AgentInitEstablishes, PTL DEF RunSpec

-----------------------------------------------------------------------------
(* Local variables, calls and answers have the shape the code gives them.  *)
THEOREM AgentTypes == RunSpec => []RunTypeOK
<1>1. AgentInv => RunTypeOK
  BY DEF AgentInv
<1> QED
  BY <1>1, AgentInvariance, PTL

(* However many runs, tool calls and people save one project at once, each *)
(* revision is written by who had the one before it in front of them: the  *)
(* WHERE of overwriteForGraph and of the PATCH names that revision, and an *)
(* agent names one it loaded.                                              *)
THEOREM NoEditIsLost == RunSpec => []NoLostUpdate
<1>1. AgentInv => NoLostUpdate
  BY DEF AgentInv
<1> QED
  BY <1>1, AgentInvariance, PTL

(* A run saves at most one film, however many finalize calls are in flight:*)
(* a second save would need the revision the first one replaced.           *)
THEOREM RunsSaveOnce == RunSpec => []OneSavePerRun
<1>1. AgentInv => OneSavePerRun
  <2> SUFFICES ASSUME AgentInv, NEW r \in Runs PROVE Cardinality(SavedBy(r)) <= 1
    BY DEF OneSavePerRun
  <2>1. SavedBy(r) \subseteq {run[r].expected + 1}
    BY DEF AgentInv, SavesOnLoaded, SavedBy
  <2>2. IsFiniteSet({run[r].expected + 1}) /\ Cardinality({run[r].expected + 1}) = 1
    BY FS_Singleton
  <2> QED
    BY <2>1, <2>2, FS_Subset
<1> QED
  BY <1>1, AgentInvariance, PTL

(* An answer that shows a film names the revision that holds it, and the   *)
(* row of generation_runs and the reply were committed with it.            *)
THEOREM ReportedFilmsAreThere == RunSpec => []ReportedFilmIsSaved
<1>1. AgentInv => ReportedFilmIsSaved
  <2> SUFFICES ASSUME AgentInv, NEW r \in Runs, response[r].type = "generation"
               PROVE  /\ SavedBy(r) = {response[r].revision}
                      /\ [run |-> r, status |-> "COMPLETED", saved |-> response[r].revision] \in runRows
                      /\ Contains(transcript, [run |-> r, role |-> "assistant"])
    BY DEF ReportedFilmIsSaved
  <2>1. Stored(r) /\ response[r].revision = run[r].expected + 1
    BY DEF AgentInv, SavedIsStored
  <2>2. SavedBy(r) = {run[r].expected + 1}
    BY <2>1 DEF AgentInv, SavesOnLoaded, SavedBy, Stored
  <2> QED
    BY <2>1, <2>2 DEF Stored, Contains
<1> QED
  BY <1>1, AgentInvariance, PTL
-----------------------------------------------------------------------------
(* An agent that makes one call at a time, over a database that answers.   *)

OneCall == \A c, d \in Calls : c = d

(* A call runs only while its run waits for it; a save is under way only   *)
(* if the run has none; a film that was saved is known to the run, or to   *)
(* the call that saved it; who answered is over.                           *)
OneAtATime(r) ==
    /\ \A c \in Calls :
        /\ calls[r][c] # "idle" => run[r].pc = "acting" /\ ~run[r].gaveUp
        /\ calls[r][c] \in {"saving", "stored", "refused"} => ~Saved(r)
    /\ SavedBy(r) # {} => Saved(r) \/ \E c \in Calls : calls[r][c] = "stored"
    /\ response[r].type # "none" => run[r].pc = "ended"
    /\ Error(r) => SavedBy(r) = {}

SequentialInv == AgentInv /\ \A r \in Runs : OneAtATime(r)

(* What a run has saved changes by its own overwrite and by nothing else. *)
LEMMA SavedByMoves ==
    ASSUME AgentInv, [RunNext]_runVars, NEW r \in Runs
    PROVE  SavedBy(r)' = SavedBy(r) \/ \E c \in Calls : Overwrite(r, c) /\ Matches(r)
<1>1. SUFFICES ASSUME ~ \E c \in Calls : Overwrite(r, c) /\ Matches(r)
               PROVE  SavedBy(r)' = SavedBy(r)
  OBVIOUS
<1>2. /\ Revision \in Nat /\ Revision' \in Nat /\ Revision <= Revision'
      /\ \A n \in 1..Revision : writes'[n] = writes[n] /\ n \in 1..Revision'
  BY AgentTypesKept, HistoryGrows DEF AgentInv, RunTypeOK, Revision
<1>3. ASSUME NEW n \in 1..Revision', n \notin 1..Revision PROVE writes'[n].by # r
  <2>1. \/ \E q \in Runs, c \in Calls :
             /\ Overwrite(q, c) /\ Matches(q)
             /\ writes'[n] = [by |-> q, seen |-> run[q].existing]
        \/ \E e \in Editors : writes'[n] = [by |-> e, seen |-> Revision]
    BY <1>3, HistoryGrows DEF AgentInv
  <2>2. ASSUME NEW q, NEW k, writes'[n] = [by |-> q, seen |-> k] PROVE writes'[n].by = q
    BY <2>2
  <2>3. r \notin Editors
    BY BoundsAssumption
  <2> QED
    BY <1>1, <2>1, <2>2, <2>3
<1> QED
  BY <1>2, <1>3 DEF SavedBy

(* A step of somebody else. *)
LEMMA OthersLeaveIt ==
    ASSUME AgentInv, [RunNext]_runVars, NEW r \in Runs, OneAtATime(r),
           run'[r] = run[r], calls'[r] = calls[r], response'[r] = response[r],
           SavedBy(r)' = SavedBy(r)
    PROVE  OneAtATime(r)'
BY DEF OneAtATime, Saved, Error

(* Over a database that answers, a run whose calls follow one another      *)
(* knows of all it saved.                                                  *)
LEMMA OneAtATimeKept ==
    ASSUME OneCall, MaxStoreFailures = 0
    PROVE  SequentialInv /\ [RunNext]_runVars => SequentialInv'
<1> SUFFICES ASSUME SequentialInv, [RunNext]_runVars, NEW r \in Runs PROVE OneAtATime(r)'
  <2>1. AgentInv /\ [RunNext]_runVars => AgentInv'
    BY AgentTypesKept, EditsKept, LoadedKept, SavesKept, StoredKept DEF AgentInv
  <2> QED
    BY <2>1 DEF SequentialInv
<1>1. /\ AgentInv /\ OneAtATime(r)
      /\ run \in [Runs -> Locals] /\ calls \in [Runs -> [Calls -> CallStates]]
      /\ response \in [Runs -> Responses] /\ run[r] \in Locals
      /\ calls[r] \in [Calls -> CallStates] /\ ~StoreFails
  BY DEF SequentialInv, AgentInv, RunTypeOK, StoreFails
<1>2. SavedBy(r)' = SavedBy(r) \/ \E c \in Calls : Overwrite(r, c) /\ Matches(r)
  BY <1>1, SavedByMoves
<1>3. CASE UNCHANGED runVars
  <2>1. SavedBy(r)' = SavedBy(r)
    BY <1>3 DEF runVars, SavedBy, Revision
  <2> QED
    BY <1>1, <1>3, <2>1, OthersLeaveIt DEF runVars
<1>4. ASSUME NEW q \in Runs, q # r,
             \/ Load(q) \/ SaveUserTurn(q) \/ Act(q) \/ Ask(q)
             \/ CallStep(q) \/ EndStep(q)
             \/ \E c \in Calls : SaveFails(q, c)
      PROVE  OneAtATime(r)'
  <2>1. run'[r] = run[r]
    BY <1>1, <1>4 DEF Load, SaveUserTurn, Act, Ask, CallStep, Validate, Finalize, Overwrite,
       Finalized, EndStep, EndFinalized, GiveUp, Chat, RunFails, SaveFails, NoteFailure, Respond
  <2>2. calls'[r] = calls[r]
    BY <1>1, <1>4 DEF Load, SaveUserTurn, Act, Ask, CallStep, Validate, Finalize, Overwrite,
       Finalized, EndStep, EndFinalized, GiveUp, Chat, RunFails, SaveFails
  <2>3. response'[r] = response[r]
    BY <1>1, <1>4 DEF Load, SaveUserTurn, Act, Ask, CallStep, Validate, Finalize, Overwrite,
       Finalized, EndStep, EndFinalized, GiveUp, Chat, RunFails, SaveFails, Respond
  <2>4. SavedBy(r)' = SavedBy(r)
    <3>1. ASSUME NEW c \in Calls, Overwrite(r, c), Matches(r) PROVE FALSE
      <4>1. calls'[r][c] = "stored" /\ calls[r][c] = "saving"
        BY <1>1, <3>1 DEF Overwrite
      <4> QED
        BY <2>2, <4>1
    <3> QED
      BY <1>2, <3>1
  <2> QED
    BY <1>1, <2>1, <2>2, <2>3, <2>4, OthersLeaveIt
<1>5. ASSUME NEW e \in Editors, Patch(e) \/ Archive(e) PROVE OneAtATime(r)'
  <2>1. run' = run /\ calls' = calls /\ response' = response
    BY <1>5 DEF Patch, Archive
  <2>2. SavedBy(r)' = SavedBy(r)
    <3>1. ASSUME NEW c \in Calls, Overwrite(r, c), Matches(r) PROVE FALSE
      BY <1>1, <2>1, <3>1 DEF Overwrite
    <3> QED
      BY <1>2, <3>1
  <2> QED
    BY <1>1, <2>1, <2>2, OthersLeaveIt
<1>6. ASSUME Load(r) \/ SaveUserTurn(r) \/ Act(r) \/ Ask(r) PROVE OneAtATime(r)'
  <2>1. SavedBy(r)' = SavedBy(r)
    BY <1>6 DEF Load, SaveUserTurn, Act, Ask, SavedBy, Revision
  <2>2. run[r].pc = "new" => SavedBy(r) = {}
    BY <1>1 DEF AgentInv, LoadedInTime, SavesOnLoaded, SavedBy
  <2>3. CASE Load(r)
    <3>1. /\ calls' = calls /\ run'[r].pc # "acting" /\ run'[r].finalized = run[r].finalized
          /\ \/ response'[r] = response[r] /\ run'[r].pc = "loaded"
             \/ response'[r] = Answer("notFound", 0) /\ run'[r].pc = "ended"
      <4>1. CASE archived
        BY <1>1, <2>3, <4>1 DEF Load, Locals
      <4>2. CASE ~archived
        <5>1. PICK revision \in 1..Revision :
                run' = [run EXCEPT ![r] = [run[r] EXCEPT !.pc = "loaded", !.existing = Revision,
                                                         !.expected = revision]]
          BY <2>3, <4>2 DEF Load
        <5>2. calls' = calls /\ response' = response
          BY <2>3, <4>2 DEF Load
        <5>3. run'[r] = [run[r] EXCEPT !.pc = "loaded", !.existing = Revision, !.expected = revision]
          BY <1>1, <5>1
        <5> QED
          BY <1>1, <5>2, <5>3 DEF Locals
      <4> QED
        BY <4>1, <4>2
    <3> QED
      BY <1>1, <2>1, <2>2, <2>3, <3>1 DEF OneAtATime, Saved, Error, Load, Answer
  <2>4. CASE SaveUserTurn(r)
    <3>1. /\ calls' = calls /\ run'[r].pc = "asking" /\ run'[r].finalized = run[r].finalized
          /\ run[r].pc = "loaded" /\ response' = response
      BY <1>1, <2>4 DEF SaveUserTurn, Locals
    <3> QED
      BY <1>1, <2>1, <3>1 DEF OneAtATime, Saved, Error
  <2>5. CASE Act(r)
    <3>1. /\ run'[r].pc = "acting" /\ run'[r].finalized = run[r].finalized
          /\ run'[r].gaveUp = run[r].gaveUp /\ ~run[r].gaveUp
          /\ run[r].pc = "asking" /\ response' = response
          /\ \A c \in Calls : calls'[r][c] \in {"idle", "validate", "finalize"}
      BY <1>1, <2>5 DEF Act, Locals
    <3>2. \A c \in Calls : calls[r][c] = "idle"
      BY <1>1, <3>1 DEF OneAtATime
    <3> QED
      BY <1>1, <2>1, <3>1, <3>2 DEF OneAtATime, Saved, Error
  <2>6. CASE Ask(r)
    <3>1. /\ calls' = calls /\ run'[r].pc = "asking" /\ run'[r].finalized = run[r].finalized
          /\ run[r].pc = "acting" /\ response' = response
          /\ \A c \in Calls : calls[r][c] = "idle"
      BY <1>1, <2>6 DEF Ask, Locals, Idle
    <3> QED
      BY <1>1, <2>1, <3>1 DEF OneAtATime, Saved, Error
  <2> QED
    BY <1>6, <2>3, <2>4, <2>5, <2>6
<1>7. ASSUME NEW c \in Calls, Validate(r, c) \/ Finalize(r, c) PROVE OneAtATime(r)'
  <2>1. SavedBy(r)' = SavedBy(r) /\ response' = response
    BY <1>7 DEF Validate, Finalize, SavedBy, Revision
  <2>2. /\ calls[r][c] \in {"validate", "finalize"} /\ run[r].pc = "acting" /\ ~run[r].gaveUp
        /\ \A d \in Calls : d = c
    BY <1>1, <1>7 DEF Validate, Finalize, OneAtATime, OneCall
  <2>3. run'[r].finalized = run[r].finalized /\ run'[r].pc = run[r].pc
    <3>1. CASE NoteFailure(r)
      <4> DEFINE gaveUp == run[r].gaveUp \/ run[r].failures + 1 > MaxRetries
      <4>1. run'[r] = [run[r] EXCEPT !.failures = run[r].failures + 1, !.gaveUp = gaveUp]
        BY <1>1, <3>1 DEF NoteFailure
      <4> HIDE DEF gaveUp
      <4> QED
        BY <1>1, <4>1 DEF Locals
    <3>2. CASE run' = run
      BY <3>2
    <3> QED
      BY <1>7, <3>1, <3>2 DEF Validate, Finalize
  <2>4. \/ calls'[r][c] = "idle"
        \/ calls'[r][c] = "saving" /\ ~Saved(r) /\ run' = run
    BY <1>1, <1>7 DEF Validate, Finalize
  <2> QED
    BY <1>1, <2>1, <2>2, <2>3, <2>4 DEF OneAtATime, Saved, Error
<1>8. ASSUME NEW c \in Calls, Overwrite(r, c) PROVE OneAtATime(r)'
  <2>1. /\ response' = response /\ run' = run /\ calls[r][c] = "saving"
        /\ run[r].pc = "acting" /\ ~run[r].gaveUp /\ ~Saved(r) /\ \A d \in Calls : d = c
    BY <1>1, <1>8 DEF Overwrite, OneAtATime, OneCall
  <2>2. \/ calls'[r][c] = "stored"
        \/ calls'[r][c] = "refused" /\ SavedBy(r)' = SavedBy(r)
    BY <1>1, <1>2, <1>8 DEF Overwrite, SavedBy, Revision
  <2>3. SavedBy(r) = {} /\ response[r].type = "none"
    BY <1>1, <2>1 DEF OneAtATime, Responses
  <2> QED
    BY <2>1, <2>2, <2>3 DEF OneAtATime, Saved, Error
<1>9. ASSUME NEW c \in Calls, Finalized(r, c) PROVE OneAtATime(r)'
  <2>1. /\ response' = response /\ calls[r][c] \in {"stored", "refused"} /\ calls'[r][c] = "idle"
        /\ run[r].pc = "acting" /\ ~run[r].gaveUp /\ ~Saved(r) /\ \A d \in Calls : d = c
        /\ SavedBy(r)' = SavedBy(r)
    BY <1>1, <1>9 DEF Finalized, OneAtATime, OneCall, SavedBy, Revision
  <2>2. /\ run'[r].pc = "acting"
        /\ run'[r].finalized = IF calls[r][c] = "stored" THEN "overwritten" ELSE "conflict"
    BY <1>1, <1>9, <2>1 DEF Finalized, Locals
  <2>3. response[r].type = "none"
    BY <1>1, <2>1 DEF OneAtATime
  <2> QED
    BY <1>1, <2>1, <2>2, <2>3 DEF OneAtATime, Saved, Error
<1>10. ASSUME EndStep(r) PROVE OneAtATime(r)'
  <2>1. calls' = calls /\ SavedBy(r)' = SavedBy(r)
    BY <1>10 DEF EndStep, EndFinalized, GiveUp, Chat, RunFails, SavedBy, Revision
  <2>2. \A c \in Calls : calls[r][c] = "idle"
    BY <1>1, <1>10 DEF EndStep, EndFinalized, GiveUp, Chat, RunFails, Stopping, OneAtATime
  <2>3. /\ run'[r].pc = "ended" /\ run'[r].finalized = run[r].finalized
        /\ Saved(r) => response'[r].type = "generation"
    BY <1>1, <1>10 DEF EndStep, EndFinalized, GiveUp, Chat, RunFails, Respond, Locals, Saved,
       FinalizedResponse, Answer
  <2> QED
    BY <1>1, <2>1, <2>2, <2>3 DEF OneAtATime, Saved, Error
<1>11. ASSUME NEW c \in Calls, SaveFails(r, c) PROVE OneAtATime(r)'
  BY <1>1, <1>11 DEF SaveFails
<1>12. CASE \E q \in Runs : \/ Load(q) \/ SaveUserTurn(q) \/ Act(q) \/ Ask(q)
                            \/ CallStep(q) \/ EndStep(q)
                            \/ \E c \in Calls : SaveFails(q, c)
  BY <1>4, <1>6, <1>7, <1>8, <1>9, <1>10, <1>11, <1>12 DEF CallStep
<1> QED
  BY <1>3, <1>5, <1>12 DEF RunNext

(* An answer that gives the credits back saved no film, if the agent makes *)
(* one call at a time and no statement fails: the answer comes when no     *)
(* call is left, and then the run knows what it saved.                     *)
THEOREM ErrorsSaveNothing ==
    ASSUME OneCall, MaxStoreFailures = 0
    PROVE  RunSpec => []ErrorMeansNotSaved
<1>1. RunInit => SequentialInv
  <2>1. RunInit => \A r \in Runs : OneAtATime(r)
    <3> SUFFICES ASSUME RunInit, NEW r \in Runs PROVE OneAtATime(r)
      OBVIOUS
    <3>1. SavedBy(r) = {}
      <4>1. writes = <<[by |-> "creator", seen |-> 0]>>
        BY DEF RunInit
      <4>2. \A n \in 1..Len(writes) : writes[n].by = "creator"
        BY <4>1
      <4> QED
        BY <4>2, BoundsAssumption DEF SavedBy, Revision
    <3> QED
      BY <3>1 DEF RunInit, OneAtATime, Saved, Idle, Answer
  <2> QED
    BY <2>1, AgentInitEstablishes DEF SequentialInv
<1>2. SequentialInv /\ [RunNext]_runVars => SequentialInv'
  BY OneAtATimeKept
<1>3. SequentialInv => ErrorMeansNotSaved
  BY DEF SequentialInv, OneAtATime, ErrorMeansNotSaved
<1> QED
  BY <1>1, <1>2, <1>3, PTL DEF RunSpec

-----------------------------------------------------------------------------
(****************************************************************************)
(* The player of a film.                                                     *)
(****************************************************************************)
(* Where the film is, and who was told: while it plays, a listener is      *)
(* behind by no more than the clock since the last notification, and a     *)
(* timeline that runs on while nothing plays is at its end.                *)
TransportTyped ==
    /\ position \in 0..length /\ length \in Lengths /\ paused \in BOOLEAN /\ playing \in BOOLEAN
    /\ since \in 0..Throttle
    /\ heard \in [Listeners -> [time : 0..Duration, playing : BOOLEAN] \cup {Deaf}]

KnowInv ==
    /\ TransportTyped /\ ListenersKnow
    /\ \A n \in Listeners : heard[n] # Deaf /\ playing => TimeAt(position) - heard[n].time <= since
    /\ ~paused /\ ~playing => position = length
    /\ playing => ~paused

(* What a layer shows is an opacity and a text. *)
Overrides == [opacity : {"dim", Unset}, text : Texts \cup {Unset}]

ShowInv ==
    /\ override \in [Layers -> Overrides]
    /\ shown = [l \in Layers |-> [opacity |-> shown[l].opacity, text |-> shown[l].text]]
    /\ \A l \in Layers : shown[l].opacity \in {"dim", Film}
    /\ OverridesShow

(* The layers of a tween that have a speed: with the first of them, the    *)
(* speed the tween was built with is noted, and stays noted.               *)
Over(t) == {l \in Layers : t \in TweensOf[l] /\ speed[l] # Unset}

SpeedInv ==
    /\ speed \in [Layers -> 1..8 \cup {Unset}]
    /\ scale \in [Tweens -> Nat] /\ baseline \in [Tweens -> Nat]
    /\ ease \in [Layers -> AllEases \cup {Unset}] /\ easing \in [Tweens -> AllEases \cup {"own"}]
    /\ \A t \in Tweens : baseline[t] = IF Over(t) = {} THEN 0 ELSE OwnScale[t]
    /\ TweensRunAsShown

PlayerInv == KnowInv /\ ShowInv /\ SpeedInv

-----------------------------------------------------------------------------
(* The smaller of two.                                                     *)
LEMMA MinOfTwo ==
    ASSUME NEW a \in Int, NEW b \in Int
    PROVE  Min({a, b}) = IF a < b THEN a ELSE b
<1>1. \E x \in {a, b} : \A y \in {a, b} : x <= y
  <2>1. CASE a <= b
    BY <2>1
  <2>2. CASE b <= a
    BY <2>2
  <2> QED
    BY <2>1, <2>2
<1> QED
  BY <1>1 DEF Min

(* And the larger.                                                         *)
LEMMA MaxOfTwo ==
    ASSUME NEW a \in Int, NEW b \in Int
    PROVE  Max({a, b}) = IF a < b THEN b ELSE a
<1>1. \E x \in {a, b} : \A y \in {a, b} : x >= y
  <2>1. CASE a <= b
    BY <2>1
  <2>2. CASE b <= a
    BY <2>2
  <2> QED
    BY <2>1, <2>2
<1> QED
  BY <1>1 DEF Max

(* A finite set of integers has a greatest. *)
LEMMA Greatest ==
    ASSUME NEW S, IsFiniteSet(S), S # {}, S \subseteq Int
    PROVE  Max(S) \in S /\ \A y \in S : Max(S) >= y
<1> DEFINE T == {s \in SUBSET S : s # {} /\ ~ \E x \in s : \A y \in s : x >= y}
<1>1. T = {}
  <2> SUFFICES ASSUME T # {} PROVE FALSE
    OBVIOUS
  <2>1. IsWellFoundedOn(StrictSubsetOrdering(S), SUBSET S)
    BY FS_StrictSubsetOrderingWellFounded, FS_FiniteSubsetsOfFinite
  <2>2. T \subseteq SUBSET S
    OBVIOUS
  <2>3. PICK m \in T : \A t \in T : ~ (<<t, m>> \in StrictSubsetOrdering(S))
    <3> HIDE DEF T
    <3> QED
      BY <2>1, <2>2, WFMin
  <2>4. PICK x \in m : TRUE
    OBVIOUS
  <2>5. m \ {x} \notin T
    BY <2>3, <2>4 DEF StrictSubsetOrdering
  <2>6. CASE m \ {x} = {}
    BY <2>4, <2>6
  <2>7. CASE m \ {x} # {}
    <3>1. PICK y \in m \ {x} : \A z \in m \ {x} : y >= z
      BY <2>5, <2>7
    <3>2. x \in Int /\ y \in Int /\ m \subseteq Int
      BY <2>4, <3>1
    <3>3. CASE x >= y
      <4>1. \A z \in m : x >= z
        BY <3>1, <3>2, <3>3
      <4> QED
        BY <2>4, <4>1
    <3>4. CASE y >= x
      <4>1. \A z \in m : y >= z
        BY <3>1, <3>2, <3>4
      <4> QED
        BY <3>1, <4>1
    <3> QED
      BY <3>2, <3>3, <3>4
  <2> QED
    BY <2>6, <2>7
<1>2. \E x \in S : \A y \in S : x >= y
  BY <1>1
<1> QED
  BY <1>2 DEF Max

(* Products of naturals are natural,                                       *)
LEMMA ProductIsNat == ASSUME NEW a \in Nat, NEW b \in Nat PROVE a * b \in Nat
  BY Z3

(* and quotients.                                                          *)
LEMMA QuotientIsNat == ASSUME NEW a \in Nat, NEW b \in Nat \ {0} PROVE a \div b \in Nat
  BY Z3

-----------------------------------------------------------------------------
(* FlattenSeq: the function it defines, and its value.                     *)
IsFlat(f, seqs) == f = [i \in 1..Len(seqs) |-> IF i = 1 THEN seqs[i] ELSE f[i - 1] \o seqs[i]]

(* What it is at a sequence that is not empty.                             *)
LEMMA FlatUnfolds ==
    ASSUME NEW seqs, Len(seqs) # 0
    PROVE  FlattenSeq(seqs) = (CHOOSE f : IsFlat(f, seqs))[Len(seqs)]
BY DEF FlattenSeq, IsFlat

(* There is one such function at most, by the longest prefix on which two  *)
(* agree,                                                                  *)
LEMMA FlatIsUnique ==
    ASSUME NEW seqs, Len(seqs) \in Nat, NEW f, NEW g, IsFlat(f, seqs), IsFlat(g, seqs)
    PROVE  f = g
<1> DEFINE n == Len(seqs)
           Agree == {i \in 1..n : \A j \in 1..i : f[j] = g[j]}
<1>1. CASE n = 0
  BY <1>1 DEF IsFlat
<1>2. CASE n # 0
  <2>1. f[1] = seqs[1] /\ g[1] = seqs[1] /\ 1 \in 1..n
    BY <1>2 DEF IsFlat
  <2>2. 1 \in Agree
    <3>1. \A j \in 1..1 : j = 1
      OBVIOUS
    <3> QED
      BY <2>1, <3>1
  <2>3. IsFiniteSet(Agree) /\ Agree \subseteq Int
    <3>1. IsFiniteSet(1..n)
      BY FS_Interval
    <3>2. Agree \subseteq 1..n
      OBVIOUS
    <3>3. IsFiniteSet(Agree)
      <4> HIDE DEF Agree, n
      <4> QED
        BY <3>1, <3>2, FS_Subset
    <3> QED
      BY <3>2, <3>3
  <2>4. PICK m : m = Max(Agree)
    OBVIOUS
  <2>5. m \in Agree
    <3> HIDE DEF Agree
    <3> QED
      BY <2>2, <2>3, <2>4, Greatest
  <2>6. \A i \in Agree : i <= m
    <3>1. \A y \in Agree : m >= y
      <4> HIDE DEF Agree
      <4> QED
        BY <2>2, <2>3, <2>4, Greatest
    <3> QED
      BY <2>3, <2>5, <3>1
  <2>7. m = n
    <3> SUFFICES ASSUME m # n PROVE FALSE
      OBVIOUS
    <3>1. m + 1 \in 1..n /\ m + 1 # 1 /\ m \in 1..n /\ (m + 1) - 1 = m
      BY <2>5
    <3>2. f[m + 1] = f[m] \o seqs[m + 1] /\ g[m + 1] = g[m] \o seqs[m + 1]
      BY <3>1 DEF IsFlat
    <3>3. \A j \in 1..(m + 1) : j \in 1..m \/ j = m + 1
      BY <3>1
    <3>4. f[m] = g[m] /\ \A j \in 1..m : f[j] = g[j]
      BY <2>5, <3>1
    <3>5. m + 1 \in Agree
      BY <3>1, <3>2, <3>3, <3>4
    <3> QED
      BY <2>6, <3>1, <3>5
  <2>8. \A j \in 1..n : f[j] = g[j]
    BY <2>5, <2>7
  <2>9. f = [i \in 1..n |-> f[i]] /\ g = [i \in 1..n |-> g[i]]
    BY DEF IsFlat
  <2> QED
    BY <2>8, <2>9
<1> QED
  BY <1>1, <1>2

(* so any function that is built so gives its value.                       *)
LEMMA FlatIs ==
    ASSUME NEW seqs, Len(seqs) \in Nat \ {0}, NEW f, IsFlat(f, seqs)
    PROVE  FlattenSeq(seqs) = f[Len(seqs)]
<1>1. IsFlat((CHOOSE g : IsFlat(g, seqs)), seqs)
  OBVIOUS
<1>2. (CHOOSE g : IsFlat(g, seqs)) = f
  BY <1>1, FlatIsUnique
<1> QED
  BY <1>2, FlatUnfolds

(* The pieces on the spans of a layer, one after the other, are all pieces. *)
LEMMA TextIsWhole ==
    ASSUME NEW S, NEW pieces \in Seq(S), NEW spans \in Nat
    PROVE  FlattenSeq(TextOverride(spans, pieces)) = pieces
<1> DEFINE seqs == TextOverride(spans, pieces)
           n == Len(pieces)
<1>0. n \in Nat
  BY LenProperties
<1>1. CASE spans = 0
  <2> DEFINE f == [i \in 1..1 |-> pieces]
  <2>1. seqs = <<pieces>> /\ Len(seqs) = 1 /\ seqs[1] = pieces
    BY <1>1 DEF TextOverride
  <2>2. IsFlat(f, seqs)
    BY <2>1 DEF IsFlat
  <2>3. Len(seqs) \in Nat \ {0} /\ f[Len(seqs)] = pieces
    BY <2>1
  <2>4. FlattenSeq(seqs) = f[Len(seqs)]
    <3> HIDE DEF f, seqs
    <3> QED
      BY <2>2, <2>3, FlatIs
  <2> QED
    BY <2>3, <2>4
<1>2. CASE spans # 0
  <2> DEFINE f == [i \in 1..spans |-> IF i < spans THEN SubSeq(pieces, 1, IF i < n THEN i ELSE n) ELSE pieces]
  <2>1. seqs = [i \in 1..spans |-> IF i < spans THEN SubSeq(pieces, i, IF i < n THEN i ELSE n)
                                                ELSE SubSeq(pieces, i, n)]
    BY <1>0, <1>2, MinOfTwo DEF TextOverride
  <2>2. Len(seqs) = spans
    BY <1>2, <2>1
  <2>3. f[1] = seqs[1]
    <3>1. SubSeq(pieces, 1, n) = pieces
      BY SubSeqFull
    <3>2. 1 \in 1..spans
      BY <1>2
    <3>3. CASE 1 < spans
      BY <2>1, <3>2, <3>3
    <3>4. CASE spans = 1
      BY <2>1, <3>1, <3>4
    <3> QED
      BY <1>2, <3>3, <3>4
  <2>4. ASSUME NEW i \in 1..spans, i # 1 PROVE f[i] = f[i - 1] \o seqs[i]
    <3>1. i - 1 \in 1..spans /\ i - 1 < spans /\ f[i - 1] = SubSeq(pieces, 1, IF i - 1 < n THEN i - 1 ELSE n)
      BY <2>4
    <3>2. CASE i <= n
      <4>1. f[i - 1] = SubSeq(pieces, 1, i - 1)
        BY <1>0, <3>1, <3>2
      <4>2. ASSUME NEW k \in i..n
            PROVE SubSeq(pieces, 1, k) = SubSeq(pieces, 1, i - 1) \o SubSeq(pieces, i, k)
        <5>1. i - 1 \in 1..n /\ k \in (i - 1)..n /\ (i - 1) + 1 = i
          BY <1>0, <2>4, <3>2, <4>2
        <5> QED
          BY <5>1, ConcatAdjacentSubSeq
      <4>3. CASE i < spans
        <5>1. f[i] = SubSeq(pieces, 1, IF i < n THEN i ELSE n)
          BY <4>3
        <5>2. seqs[i] = SubSeq(pieces, i, IF i < n THEN i ELSE n)
          BY <2>1, <4>3
        <5>3. (IF i < n THEN i ELSE n) = i /\ i \in i..n
          BY <1>0, <3>2
        <5> HIDE DEF f, seqs
        <5> QED
          BY <4>1, <4>2, <5>1, <5>2, <5>3
      <4>4. CASE i = spans
        <5>1. f[i] = pieces /\ SubSeq(pieces, 1, n) = pieces
          BY <4>4, SubSeqFull
        <5>2. seqs[i] = SubSeq(pieces, i, n)
          BY <2>1, <4>4
        <5>3. n \in i..n
          BY <1>0, <3>2
        <5> HIDE DEF f, seqs
        <5> QED
          BY <4>1, <4>2, <5>1, <5>2, <5>3
      <4>5. i < spans \/ i = spans
        OBVIOUS
      <4> HIDE DEF f, seqs
      <4> QED
        BY <4>3, <4>4, <4>5
    <3>3. CASE i > n
      <4>1. f[i - 1] = pieces
        BY <1>0, <3>1, <3>3, SubSeqFull
      <4>2. seqs[i] = << >>
        BY <1>0, <2>1, <3>3, SubSeqEmpty
      <4>3. f[i] = pieces
        BY <1>0, <3>3, SubSeqFull
      <4> QED
        BY <4>1, <4>2, <4>3, ConcatEmptySeq
    <3>4. i <= n \/ i > n
      BY <1>0
    <3> HIDE DEF f, seqs
    <3> QED
      BY <3>2, <3>3, <3>4
  <2>5. IsFlat(f, seqs)
    BY <2>2, <2>3, <2>4 DEF IsFlat
  <2>6. f[spans] = pieces
    BY <1>2
  <2> QED
    BY <1>2, <2>2, <2>5, <2>6, FlatIs
<1> QED
  BY <1>1, <1>2

-----------------------------------------------------------------------------
(* The transport.                                                          *)
LEMMA TimesAreNat ==
    /\ \A pos \in Nat : TimeAt(pos) = (IF Duration < pos THEN Duration ELSE pos) /\ TimeAt(pos) \in 0..Duration
    /\ \A t \in Time : t \in Nat
    /\ \A t \in Nat : FrameTime(t) \in Nat
<1>1. Duration \in Nat /\ Frame \in Nat \ {0} /\ Lengths \cup {Duration} \subseteq Int
  BY PlaybackAssumption
<1>2. \A pos \in Nat : TimeAt(pos) = (IF Duration < pos THEN Duration ELSE pos)
  BY <1>1, MinOfTwo DEF TimeAt
<1>3. \A t \in Time : t \in Nat
  <2>1. IsFiniteSet(Lengths \cup {Duration})
    BY PlaybackAssumption, FS_AddElement
  <2>2. Max(Lengths \cup {Duration}) \in Int
    BY <1>1, <2>1, Greatest
  <2> QED
    BY <2>2 DEF Time
<1>4. ASSUME NEW t \in Nat PROVE FrameTime(t) \in Nat
  <2>1. PICK m \in Nat : m = Max({0, Min({Duration, t})})
    BY <1>1, MinOfTwo, MaxOfTwo
  <2>2. PICK h \in Nat : h = Frame \div 2
    BY <1>1, QuotientIsNat
  <2>3. PICK q \in Nat : q = (m + h) \div Frame
    BY <1>1, QuotientIsNat
  <2>4. q * Frame \in Nat
    BY <1>1, ProductIsNat
  <2> QED
    BY <2>1, <2>2, <2>3, <2>4 DEF FrameTime
<1> QED
  BY <1>1, <1>2, <1>3, <1>4

(* Everyone who listens is told at a step: what they heard is so.          *)
LEMMA EveryoneIsTold ==
    ASSUME KnowInv, length' \in Lengths, position' \in 0..length', paused' \in BOOLEAN, playing' \in BOOLEAN,
           since' \in 0..Throttle, Emit(position', playing'),
           playing' => ~paused', ~paused' /\ ~playing' => position' = length'
    PROVE  KnowInv'
<1>1. PICK time \in 0..Duration : time = TimeAt(position') /\ time = TimeAt(position)'
  <2>1. position' \in Nat /\ TimeAt(position)' = TimeAt(position')
    BY PlaybackAssumption DEF TimeAt
  <2> QED
    BY <2>1, TimesAreNat
<1>2. \A n \in Listeners : heard'[n] = Deaf \/ heard'[n] = [time |-> time, playing |-> playing']
  BY <1>1 DEF Emit
<1>3. heard' \in [Listeners -> [time : 0..Duration, playing : BOOLEAN] \cup {Deaf}]
  <2>1. heard' = [n \in Listeners |-> heard'[n]]
    BY DEF Emit
  <2> QED
    BY <1>1, <1>2, <2>1
<1>4. \A n \in Listeners : heard'[n] # Deaf => heard'[n].time = time /\ heard'[n].playing = playing'
  BY <1>2
<1>5. time - time = 0 /\ 0 \in 0..(Throttle - 1) /\ 0 <= since'
  BY PlaybackAssumption
<1>6. TransportTyped'
  BY <1>3 DEF TransportTyped
<1>7. ListenersKnow'
  BY <1>1, <1>4, <1>5 DEF ListenersKnow
<1> QED
  BY <1>1, <1>4, <1>5, <1>6, <1>7 DEF KnowInv

(* A seek tells everyone where it stopped.                                 *)
LEMMA SeeksKnow ==
    ASSUME KnowInv, NEW t \in Nat, NEW len \in Lengths, SeekTo(t, len), length' = len
    PROVE  KnowInv'
<1>1. PICK to \in Nat : to = Min({FrameTime(t), len}) /\ to <= len
  <2>1. PICK f \in Nat : f = FrameTime(t)
    BY TimesAreNat
  <2>2. len \in Nat
    BY PlaybackAssumption
  <2> QED
    BY <2>1, <2>2, MinOfTwo
<1>2. position' = to /\ paused' = TRUE /\ playing' = FALSE /\ Emit(to, FALSE)
  BY <1>1 DEF SeekTo
<1>3. since' \in 0..Throttle
  BY PlaybackAssumption DEF SeekTo, Later, Due, KnowInv, TransportTyped
<1>4. position' \in 0..length' /\ paused' /\ ~playing' /\ Emit(position', playing')
  <2>1. position' \in 0..length'
    BY <1>1, <1>2, PlaybackAssumption
  <2>2. Emit(position', playing')
    BY <1>2 DEF Emit
  <2> QED
    BY <1>2, <2>1, <2>2
<1>5. paused' \in BOOLEAN /\ playing' \in BOOLEAN /\ length' \in Lengths
  BY <1>2
<1> QED
  BY <1>3, <1>4, <1>5, EveryoneIsTold

(* play, pause, restart and seek tell everyone.                            *)
LEMMA TransportKnows ==
    ASSUME KnowInv, \/ Play \/ Pause \/ Restart \/ \E t \in Time : Seek(t)
    PROVE  KnowInv'
<1>1. /\ position \in 0..length /\ length \in Lengths /\ length \in Nat /\ since \in 0..Throttle
      /\ Throttle \in Nat \ {0} /\ paused \in BOOLEAN /\ playing \in BOOLEAN
  BY PlaybackAssumption DEF KnowInv, TransportTyped
<1>2. CASE Play
  <2>1. PICK from \in {0, position} :
          position' = from /\ paused' = FALSE /\ playing' = TRUE /\ Emit(from, TRUE) /\ length' = length
          /\ since' = IF from # position THEN Later(0) ELSE since
    BY <1>2 DEF Play
  <2>2. since' \in 0..Throttle
    BY <1>1, <2>1 DEF Later, Due
  <2>3. position' \in 0..length' /\ playing' /\ ~paused' /\ Emit(position', playing')
    BY <1>1, <2>1 DEF Emit
  <2>4. paused' \in BOOLEAN /\ playing' \in BOOLEAN /\ length' \in Lengths
    BY <1>1, <2>1
  <2> QED
    BY <2>2, <2>3, <2>4, EveryoneIsTold
<1>3. CASE Pause
  BY <1>1, <1>3, EveryoneIsTold DEF Pause
<1>4. CASE Restart
  <2>1. position' \in 0..length' /\ playing' /\ ~paused' /\ Emit(position', playing') /\ since' = since
    BY <1>1, <1>4 DEF Restart, Emit
  <2>2. paused' \in BOOLEAN /\ playing' \in BOOLEAN /\ length' \in Lengths
    BY <1>1, <1>4 DEF Restart
  <2> QED
    BY <1>1, <2>1, <2>2, EveryoneIsTold
<1>5. CASE \E t \in Time : Seek(t)
  BY <1>1, <1>5, SeeksKnow, TimesAreNat DEF Seek
<1> QED
  BY <1>2, <1>3, <1>4, <1>5

(* A frame that tells nobody leaves everyone less than the throttle        *)
(* behind.                                                                 *)
LEMMA FramesKnow ==
    ASSUME KnowInv, NEW d \in 1..MaxGap, Advance(d) PROVE KnowInv'
<1>1. /\ position \in Nat /\ length \in Lengths /\ length \in Nat /\ since \in 0..Throttle
      /\ Throttle \in Nat \ {0} /\ d \in Nat \ {0} /\ Duration \in Nat
  BY PlaybackAssumption DEF KnowInv, TransportTyped
<1>2. PICK to \in 0..length : to = Min({position + d, length}) /\ to = IF position + d < length THEN position + d ELSE length
  BY <1>1, MinOfTwo
<1>3. /\ ~paused /\ position < length /\ position' = to /\ playing' = (to < length)
      /\ since' = Later(d) /\ UNCHANGED <<length, paused>>
      /\ IF Due(d) \/ to = length THEN Emit(to, to < length) ELSE UNCHANGED heard
  BY <1>2 DEF Advance
<1>4. playing /\ paused \in BOOLEAN /\ playing' \in BOOLEAN /\ ~paused'
  BY <1>1, <1>3 DEF KnowInv, TransportTyped
<1>5. since' \in 0..Throttle
  BY <1>1, <1>3 DEF Later, Due
<1>6. CASE Due(d) \/ to = length
  <2>1. position' \in 0..length' /\ Emit(position', playing') /\ length' \in Lengths /\ paused' \in BOOLEAN
    BY <1>1, <1>2, <1>3, <1>4, <1>6
  <2>2. ~paused' /\ ~playing' => position' = length'
    BY <1>1, <1>2, <1>3
  <2> QED
    BY <1>4, <1>5, <2>1, <2>2, EveryoneIsTold
<1>7. CASE ~Due(d) /\ to # length
  <2>1. to = position + d /\ playing' /\ heard' = heard /\ since' = since + d /\ since + d < Throttle
    <3>1. to < length /\ to = position + d
      BY <1>1, <1>2, <1>7
    <3>2. since + d < Throttle
      BY <1>1, <1>7 DEF Due
    <3> QED
      BY <1>1, <1>3, <1>7, <3>1, <3>2 DEF Later
  <2>2. PICK a \in 0..Duration, b \in 0..Duration :
          a = TimeAt(position) /\ b = TimeAt(position)' /\ a <= b /\ b <= a + d
    <3>1. TimeAt(position)' = TimeAt(position')
      BY DEF TimeAt
    <3> QED
      BY <1>1, <1>2, <1>3, <2>1, <3>1, TimesAreNat
  <2>3. ASSUME NEW n \in Listeners, heard'[n] # Deaf
        PROVE  heard'[n].playing = playing' /\ b - heard'[n].time \in 0..(Throttle - 1) /\ b - heard'[n].time <= since'
    <3>1. heard[n].playing = playing /\ a - heard[n].time \in 0..(Throttle - 1) /\ a - heard[n].time <= since
      BY <1>4, <2>1, <2>2, <2>3 DEF KnowInv, ListenersKnow
    <3>2. heard[n].time \in Nat /\ heard[n].playing \in BOOLEAN
      BY <2>1, <2>3, <1>1 DEF KnowInv, TransportTyped
    <3> QED
      BY <1>1, <1>4, <2>1, <2>2, <3>1, <3>2
  <2>4. TransportTyped'
    BY <1>1, <1>2, <1>3, <1>4, <1>5, <2>1 DEF KnowInv, TransportTyped
  <2>5. ListenersKnow'
    BY <1>4, <2>1, <2>2, <2>3 DEF ListenersKnow
  <2> QED
    BY <1>4, <2>1, <2>2, <2>3, <2>4, <2>5 DEF KnowInv
<1> QED
  BY <1>6, <1>7

(* While the timeline stands nobody falls behind.                          *)
LEMMA StandsKnow ==
    ASSUME KnowInv, NEW d \in 1..MaxGap, Stand(d) PROVE KnowInv'
<1>1. /\ position \in 0..length /\ length \in Lengths /\ length \in Nat /\ since \in 0..Throttle
      /\ Throttle \in Nat \ {0} /\ d \in Nat \ {0} /\ Duration \in Nat
      /\ paused \in BOOLEAN /\ playing \in BOOLEAN
  BY PlaybackAssumption DEF KnowInv, TransportTyped
<1>2. since' = (IF since + d < Throttle THEN since + d ELSE Throttle) /\ UNCHANGED <<position, length, paused>>
  BY <1>1, MinOfTwo DEF Stand
<1>3. since' \in 0..Throttle /\ since <= since'
  BY <1>1, <1>2
<1>4. CASE UNCHANGED <<playing, heard>>
  <2>1. TimeAt(position)' = TimeAt(position)
    BY <1>2 DEF TimeAt
  <2>2. \A n \in Listeners : heard[n] # Deaf /\ playing => TimeAt(position) - heard[n].time <= since'
    <3>1. \A n \in Listeners : heard[n] # Deaf /\ playing => TimeAt(position) - heard[n].time \in 0..(Throttle - 1)
      BY DEF KnowInv, ListenersKnow
    <3> QED
      BY <1>1, <1>3, <3>1 DEF KnowInv
  <2>3. TransportTyped'
    BY <1>2, <1>3, <1>4 DEF KnowInv, TransportTyped
  <2>4. ListenersKnow'
    BY <1>2, <1>4, <2>1 DEF KnowInv, ListenersKnow
  <2> QED
    BY <1>2, <1>4, <2>1, <2>2, <2>3, <2>4 DEF KnowInv
<1>5. CASE ~paused /\ playing' = FALSE /\ Emit(position, FALSE)
  <2>1. position = length
    BY <1>1, <1>5 DEF Stand
  <2>2. position' \in 0..length' /\ ~playing' /\ Emit(position', playing') /\ position' = length'
    BY <1>1, <1>2, <1>5, <2>1
  <2>3. paused' \in BOOLEAN /\ playing' \in BOOLEAN /\ length' \in Lengths
    BY <1>1, <1>2, <1>5
  <2> QED
    BY <1>3, <2>2, <2>3, EveryoneIsTold
<1> QED
  BY <1>4, <1>5 DEF Stand

(* An edit tells everyone too.                                             *)
LEMMA EditsKnow ==
    ASSUME KnowInv,
           \E l \in Layers : \/ \E patch \in Patches : SetOverride(l, patch)
                             \/ \E asked \in Speeds \cup {Unset}, askedEase \in Eases \cup {Unset} :
                                    SetAnimationOverride(l, asked, askedEase)
    PROVE  KnowInv'
<1>1. /\ position \in 0..length /\ length \in Lengths /\ length \in Nat /\ since \in 0..Throttle
      /\ paused \in BOOLEAN /\ playing \in BOOLEAN /\ position \in Nat
  BY PlaybackAssumption DEF KnowInv, TransportTyped
<1>2. CASE \E l \in Layers, patch \in Patches : SetOverride(l, patch)
  <2>1. UNCHANGED <<position, length, paused, playing, since>> /\ Emit(position, playing)
    BY <1>2 DEF SetOverride
  <2>2. Emit(position', playing')
    BY <2>1
  <2>3. (playing' => ~paused') /\ (~paused' /\ ~playing' => position' = length')
    BY <2>1 DEF KnowInv
  <2> QED
    BY <1>1, <2>1, <2>2, <2>3, EveryoneIsTold
<1>3. CASE \E l \in Layers, asked \in Speeds \cup {Unset}, askedEase \in Eases \cup {Unset} :
                SetAnimationOverride(l, asked, askedEase)
  <2>1. length' \in Lengths /\ SeekTo(TimeAt(position), length')
    BY <1>1, <1>3 DEF SetAnimationOverride
  <2>2. PICK t \in Nat, len \in Lengths : t = TimeAt(position) /\ len = length'
    BY <1>1, <2>1, TimesAreNat
  <2> QED
    BY <2>1, <2>2, SeeksKnow
<1> QED
  BY <1>2, <1>3

(* Who subscribes is told at once.                                         *)
LEMMA ListenersComeAndGo ==
    ASSUME KnowInv, NEW n \in Listeners, Subscribe(n) \/ Unsubscribe(n) PROVE KnowInv'
<1>1. /\ position \in Nat /\ length \in Lengths /\ since \in 0..Throttle /\ playing \in BOOLEAN /\ Throttle \in Nat \ {0}
      /\ Duration \in Nat
  BY PlaybackAssumption DEF KnowInv, TransportTyped
<1>2. PICK time \in 0..Duration : time = TimeAt(position) /\ TimeAt(position)' = time
  <2>1. TimeAt(position)' = TimeAt(position)
    BY DEF TimeAt, Subscribe, Unsubscribe
  <2> QED
    BY <1>1, <2>1, TimesAreNat
<1>3. PICK new \in [time : 0..Duration, playing : BOOLEAN] \cup {Deaf} :
        /\ heard' = [heard EXCEPT ![n] = new]
        /\ new # Deaf => new.time = time /\ new.playing = playing
        /\ UNCHANGED <<position, length, paused, playing, since>>
  BY <1>1, <1>2 DEF Subscribe, Unsubscribe
<1>4. TransportTyped'
  BY <1>3 DEF KnowInv, TransportTyped
<1>5. ListenersKnow'
  <2> SUFFICES ASSUME NEW k \in Listeners, heard'[k] # Deaf
               PROVE /\ heard'[k].playing = playing
                     /\ playing => ~paused /\ time - heard'[k].time \in 0..(Throttle - 1)
                     /\ ~playing => heard'[k].time = time
    BY <1>2, <1>3 DEF ListenersKnow
  <2>1. CASE k = n
    <3>1. heard'[k] = new
      BY <1>3, <2>1 DEF KnowInv, TransportTyped
    <3>2. time - time = 0 /\ 0 \in 0..(Throttle - 1)
      BY <1>1
    <3> QED
      BY <1>3, <3>1, <3>2 DEF KnowInv
  <2>2. CASE k # n
    BY <1>2, <1>3, <2>2 DEF KnowInv, TransportTyped, ListenersKnow
  <2> QED
    BY <2>1, <2>2
<1>6. \A k \in Listeners : heard'[k] # Deaf /\ playing => time - heard'[k].time <= since
  <2> SUFFICES ASSUME NEW k \in Listeners, heard'[k] # Deaf, playing PROVE time - heard'[k].time <= since
    OBVIOUS
  <2>1. CASE k = n
    <3>1. heard'[k] = new
      BY <1>3, <2>1 DEF KnowInv, TransportTyped
    <3>2. new # Deaf
      BY <3>1
    <3>3. new.time = time
      BY <1>3, <3>2
    <3>4. time - time <= since
      BY <1>1
    <3> QED
      BY <3>1, <3>3, <3>4
  <2>2. CASE k # n
    BY <1>2, <1>3, <2>2 DEF KnowInv, TransportTyped
  <2> QED
    BY <2>1, <2>2
<1> QED
  BY <1>2, <1>3, <1>4, <1>5, <1>6 DEF KnowInv

-----------------------------------------------------------------------------
(* What the layers show.                                                   *)
LEMMA ShowsAgain ==
    ASSUME NEW o \in [Layers -> Overrides], NEW s,
           \A l \in Layers : s[l].opacity \in {"dim", Film},
           override' = o, shown' = Apply(o, s)
    PROVE  ShowInv'
<1>1. shown' = [l \in Layers |->
        [opacity |-> IF o[l].opacity = Unset THEN s[l].opacity ELSE o[l].opacity,
         text |-> IF o[l].text = Unset THEN s[l].text ELSE TextOverride(Spans[l], o[l].text)]]
  BY DEF Apply
<1>2. ASSUME NEW l \in Layers
      PROVE  /\ shown'[l] = [opacity |-> shown'[l].opacity, text |-> shown'[l].text]
             /\ shown'[l].opacity \in {"dim", Film}
             /\ o[l].opacity # Unset => shown'[l].opacity = o[l].opacity
             /\ o[l].text # Unset => FlattenSeq(shown'[l].text) = o[l].text
  <2>1. o[l].opacity \in {"dim", Unset} /\ o[l].text \in Texts \cup {Unset}
    BY DEF Overrides
  <2>2. /\ shown'[l].opacity = IF o[l].opacity = Unset THEN s[l].opacity ELSE o[l].opacity
        /\ shown'[l].text = IF o[l].text = Unset THEN s[l].text ELSE TextOverride(Spans[l], o[l].text)
        /\ shown'[l] = [opacity |-> shown'[l].opacity, text |-> shown'[l].text]
    BY <1>1
  <2>3. ASSUME o[l].text # Unset PROVE FlattenSeq(shown'[l].text) = o[l].text
    <3>1. Spans[l] \in Nat
      BY PlaybackAssumption
    <3>2. PICK pieces \in Texts : pieces = o[l].text
      BY <2>1, <2>3
    <3>3. pieces \in Seq(Range(pieces))
      BY PlaybackAssumption
    <3>4. FlattenSeq(TextOverride(Spans[l], pieces)) = pieces
      BY <3>1, <3>3, TextIsWhole
    <3> QED
      BY <2>2, <2>3, <3>2, <3>4
  <2> QED
    BY <2>1, <2>2, <2>3
<1>3. shown' = [l \in Layers |-> [opacity |-> shown'[l].opacity, text |-> shown'[l].text]]
  BY <1>1, <1>2
<1>4. OverridesShow'
  BY <1>2 DEF OverridesShow
<1> QED
  BY <1>2, <1>3, <1>4 DEF ShowInv

(* What the timeline renders.                                              *)
LEMMA RendersShow ==
    ASSUME ShowInv
    PROVE  /\ \A l \in Layers : Rendered[l].opacity = Film /\ Rendered[l].text = shown[l].text
           /\ Rendered = [l \in Layers |-> [opacity |-> Rendered[l].opacity, text |-> Rendered[l].text]]
<1>1. ASSUME NEW l \in Layers
      PROVE [shown[l] EXCEPT !.opacity = Film] = [opacity |-> Film, text |-> shown[l].text]
  <2>1. PICK a, b : shown[l] = [opacity |-> a, text |-> b] /\ b = shown[l].text
    BY DEF ShowInv
  <2> QED
    BY <2>1
<1> QED
  BY <1>1 DEF Rendered

(* Every step but restart that renders applies the overrides again.        *)
LEMMA TransportShows ==
    ASSUME ShowInv, PlaybackNext,
           ~ \E l \in Layers, patch \in Patches : SetOverride(l, patch)
    PROVE  ShowInv'
<1>1. override' = override
  BY DEF PlaybackNext, Play, Pause, Restart, Seek, Advance, Stand, SetAnimationOverride, Subscribe, Unsubscribe, KeepEdits
<1>2. \/ shown' = Apply(override, shown)
      \/ shown' = Apply(override, Rendered)
      \/ shown' = shown /\ (position' = position \/ position' = 0)
      \/ shown' = Rendered /\ position' = 0
  BY DEF PlaybackNext, Play, Pause, Restart, Seek, Advance, Stand, SetAnimationOverride, Subscribe, Unsubscribe
<1>3. override \in [Layers -> Overrides] /\ \A l \in Layers : shown[l].opacity \in {"dim", Film}
  BY DEF ShowInv
<1>4. \A l \in Layers : Rendered[l].opacity \in {"dim", Film}
  BY RendersShow
<1>5. CASE shown' = Apply(override, shown) \/ shown' = Apply(override, Rendered)
  BY <1>1, <1>3, <1>4, <1>5, ShowsAgain
<1>6. CASE shown' = shown /\ (position' = position \/ position' = 0)
  <2>1. OverridesShow'
    BY <1>1, <1>6 DEF ShowInv, OverridesShow
  <2> QED
    BY <1>1, <1>6, <2>1 DEF ShowInv
<1>7. CASE shown' = Rendered /\ position' = 0
  <2>1. OverridesShow'
    BY <1>1, <1>7, RendersShow DEF ShowInv, OverridesShow
  <2>2. shown' = [l \in Layers |-> [opacity |-> shown'[l].opacity, text |-> shown'[l].text]]
    BY <1>7, RendersShow
  <2> QED
    BY <1>1, <1>3, <1>4, <1>7, <2>1, <2>2 DEF ShowInv
<1> QED
  BY <1>2, <1>5, <1>6, <1>7

(* An override that is set shows.                                          *)
LEMMA EditsShow ==
    ASSUME ShowInv, NEW l \in Layers, NEW patch \in Patches, SetOverride(l, patch)
    PROVE  ShowInv'
<1>1. PICK new : new = Patched(override[l], patch)
  OBVIOUS
<1>2. PICK o : o = [override EXCEPT ![l] = new] /\ override' = o /\ shown' = Apply(o, shown)
  BY <1>1 DEF SetOverride
<1>3. override[l] \in Overrides /\ override \in [Layers -> Overrides]
  BY DEF ShowInv
<1>4. new \in Overrides
  <2>1. CASE patch \in [opacity : {"dim", Unset}]
    <3>1. new = [opacity |-> patch.opacity, text |-> override[l].text]
      BY <1>1, <1>3, <2>1 DEF Overrides, Patched
    <3> QED
      BY <1>3, <2>1, <3>1 DEF Overrides
  <2>2. CASE patch \in [text : Texts]
    <3>1. new = [opacity |-> override[l].opacity, text |-> patch.text]
      BY <1>1, <1>3, <2>2 DEF Overrides, Patched
    <3> QED
      BY <1>3, <2>2, <3>1 DEF Overrides
  <2> QED
    BY <2>1, <2>2 DEF Patches
<1>5. o \in [Layers -> Overrides]
  BY <1>2, <1>3, <1>4
<1> QED
  BY <1>2, <1>5, ShowsAgain DEF ShowInv

-----------------------------------------------------------------------------
(* How fast the tweens run, and with which ease.                           *)
LEMMA SpeedsAreKept ==
    ASSUME SpeedInv, UNCHANGED <<speed, ease, scale, easing, baseline>> PROVE SpeedInv'
BY DEF SpeedInv, TweensRunAsShown, SpeedOf, EaseOf, Over

(* A speed that is set scales what the tween was built with.               *)
LEMMA EditsScale ==
    ASSUME SpeedInv, NEW l \in Layers, NEW asked \in Speeds \cup {Unset},
           NEW askedEase \in Eases \cup {Unset}, SetAnimationOverride(l, asked, askedEase)
    PROVE  SpeedInv'
<1>1. /\ TweensOf \in [Layers -> SUBSET Tweens] /\ OwnScale \in [Tweens -> Nat \ {0}]
      /\ Speeds \subseteq Int /\ Unset \notin 1..8
  BY PlaybackAssumption
<1>2. PICK next \in 1..8 : next = IF asked = Unset THEN SpeedOf(l) ELSE Max({1, Min({8, asked})})
  <2>1. CASE asked = Unset
    <3>1. speed[l] \in 1..8 \cup {Unset}
      BY DEF SpeedInv
    <3> QED
      BY <2>1, <3>1 DEF SpeedOf
  <2>2. CASE asked # Unset
    <3>1. PICK m \in Int : m = Min({8, asked}) /\ m <= 8
      BY <1>1, <2>2, MinOfTwo
    <3>2. \A a, b \in Int : Max({a, b}) = IF a < b THEN b ELSE a
      BY MaxOfTwo
    <3>3. Max({1, m}) = IF 1 < m THEN m ELSE 1
      BY <3>2
    <3>4. (IF 1 < m THEN m ELSE 1) \in 1..8
      BY <3>1
    <3>5. Max({1, m}) \in 1..8
      BY <3>3, <3>4
    <3> QED
      BY <2>2, <3>1, <3>5
  <2> QED
    BY <2>1, <2>2
<1>3. /\ speed' = [speed EXCEPT ![l] = next]
      /\ scale' = [t \in Tweens |-> IF t \in TweensOf[l] THEN (Baseline(t) * next) \div 4 ELSE scale[t]]
      /\ baseline' = [t \in Tweens |-> IF t \in TweensOf[l] THEN Baseline(t) ELSE baseline[t]]
  BY <1>2 DEF SetAnimationOverride
<1>4. /\ speed' \in [Layers -> 1..8 \cup {Unset}] /\ speed'[l] = next /\ next # Unset
      /\ \A k \in Layers \ {l} : speed'[k] = speed[k]
  BY <1>1, <1>3 DEF SpeedInv
<1>5. PICK nextEase \in AllEases : nextEase = IF askedEase = Unset THEN EaseOf(l) ELSE askedEase
  BY DEF SpeedInv, EaseOf, AllEases
<1>6. /\ ease' = [ease EXCEPT ![l] = nextEase]
       /\ easing' = [t \in Tweens |-> IF t \in TweensOf[l] THEN nextEase ELSE easing[t]]
  BY <1>5 DEF SetAnimationOverride
<1>7. /\ ease' \in [Layers -> AllEases \cup {Unset}] /\ EaseOf(l)' = nextEase
       /\ \A k \in Layers \ {l} : EaseOf(k)' = EaseOf(k)
  <2>1. nextEase # Unset
    BY PlaybackAssumption DEF AllEases
  <2> QED
    BY <1>6, <2>1 DEF SpeedInv, EaseOf
<1>8. easing' \in [Tweens -> AllEases \cup {"own"}]
  BY <1>6 DEF SpeedInv
<1>9. \A t \in Tweens : Over(t)' = IF t \in TweensOf[l] THEN Over(t) \cup {l} ELSE Over(t)
  BY <1>1, <1>4 DEF Over
<1>10. \A t \in Tweens : Baseline(t) = OwnScale[t]
  <2> SUFFICES ASSUME NEW t \in Tweens PROVE Baseline(t) = OwnScale[t]
    OBVIOUS
  <2>1. OwnScale[t] \in Nat \ {0} /\ baseline[t] = IF Over(t) = {} THEN 0 ELSE OwnScale[t]
    BY <1>1 DEF SpeedInv
  <2>2. Over(t) = {} => scale[t] = OwnScale[t]
    BY DEF SpeedInv, TweensRunAsShown, Over
  <2> QED
    BY <2>1, <2>2 DEF Baseline
<1>11. \A t \in Tweens : (OwnScale[t] * next) \div 4 \in Nat
  <2> SUFFICES ASSUME NEW t \in Tweens PROVE (OwnScale[t] * next) \div 4 \in Nat
    OBVIOUS
  <2>1. OwnScale[t] * next \in Nat
    BY <1>1, ProductIsNat
  <2> QED
    BY <2>1, QuotientIsNat
<1>12. /\ scale' = [t \in Tweens |-> IF t \in TweensOf[l] THEN (OwnScale[t] * next) \div 4 ELSE scale[t]]
      /\ baseline' = [t \in Tweens |-> IF t \in TweensOf[l] THEN OwnScale[t] ELSE baseline[t]]
  BY <1>3, <1>10
<1>13. scale' \in [Tweens -> Nat] /\ baseline' \in [Tweens -> Nat]
  BY <1>1, <1>11, <1>12 DEF SpeedInv
<1>14. \A t \in Tweens : baseline'[t] = IF Over(t)' = {} THEN 0 ELSE OwnScale[t]
  BY <1>9, <1>12 DEF SpeedInv
<1>15. TweensRunAsShown'
  <2> SUFFICES ASSUME NEW t \in Tweens
               PROVE  IF Over(t)' = {} THEN scale'[t] = OwnScale[t] /\ easing'[t] = "own"
                      ELSE \E k \in Over(t)' : /\ scale'[t] = (OwnScale[t] * SpeedOf(k)') \div 4
                                               /\ easing'[t] = EaseOf(k)'
    BY DEF TweensRunAsShown, Over
  <2>1. CASE t \in TweensOf[l]
    <3>1. SpeedOf(l)' = next /\ EaseOf(l)' = nextEase
      BY <1>4, <1>7 DEF SpeedOf
    <3>2. scale'[t] = (OwnScale[t] * next) \div 4 /\ easing'[t] = nextEase /\ l \in Over(t)'
      BY <1>9, <1>12, <1>6, <2>1
    <3> QED
      BY <3>1, <3>2
  <2>2. CASE t \notin TweensOf[l]
    <3>1. scale'[t] = scale[t] /\ easing'[t] = easing[t] /\ Over(t)' = Over(t) /\ l \notin Over(t)
      BY <1>9, <1>12, <1>6, <2>2 DEF Over
    <3>2. \A k \in Over(t) : SpeedOf(k)' = SpeedOf(k) /\ EaseOf(k)' = EaseOf(k)
      BY <1>4, <1>7, <3>1 DEF SpeedOf, Over
    <3>3. IF Over(t) = {} THEN scale[t] = OwnScale[t] /\ easing[t] = "own"
          ELSE \E k \in Over(t) : scale[t] = (OwnScale[t] * SpeedOf(k)) \div 4 /\ easing[t] = EaseOf(k)
      BY DEF SpeedInv, TweensRunAsShown, Over
    <3> QED
      BY <3>1, <3>2, <3>3
  <2> QED
    BY <2>1, <2>2
<1> QED
  BY <1>4, <1>13, <1>14, <1>15, <1>7, <1>8 DEF SpeedInv

-----------------------------------------------------------------------------
(* The player when it is built.                                            *)
LEMMA PlayerStarts == PlaybackInit => PlayerInv
<1> SUFFICES ASSUME PlaybackInit PROVE PlayerInv
  OBVIOUS
<1>1. /\ Duration \in Nat /\ Throttle \in Nat \ {0} /\ Lengths \subseteq Nat /\ OwnScale \in [Tweens -> Nat \ {0}]
      /\ Unset # "dim"
  BY PlaybackAssumption
<1>2. KnowInv
  <2>1. TransportTyped
    <3>1. length \in Lengths /\ length \in Nat /\ position = 0 /\ since = Throttle
      BY <1>1 DEF PlaybackInit
    <3>2. heard \in [Listeners -> [time : 0..Duration, playing : BOOLEAN] \cup {Deaf}]
      BY DEF PlaybackInit
    <3>3. paused \in BOOLEAN /\ playing \in BOOLEAN
      BY DEF PlaybackInit
    <3>4. position \in 0..length /\ since \in 0..Throttle
      BY <1>1, <3>1
    <3> QED
      BY <3>1, <3>2, <3>3, <3>4 DEF TransportTyped
  <2> QED
    BY <1>1, <2>1 DEF PlaybackInit, KnowInv, ListenersKnow
<1>3. ShowInv
  BY DEF PlaybackInit, ShowInv, Overrides, OverridesShow
<1>4. SpeedInv
  <2>1. \A t \in Tweens : Over(t) = {}
    BY DEF PlaybackInit, Over
  <2>2. TweensRunAsShown
    BY <2>1 DEF PlaybackInit, TweensRunAsShown, Over
  <2> QED
    BY <1>1, <2>1, <2>2 DEF PlaybackInit, SpeedInv
<1> QED
  BY <1>2, <1>3, <1>4 DEF PlayerInv

(* Every step keeps the invariant.                                         *)
LEMMA PlayerKept == PlayerInv /\ [PlaybackNext]_playbackVars => PlayerInv'
<1> SUFFICES ASSUME PlayerInv, [PlaybackNext]_playbackVars PROVE PlayerInv'
  OBVIOUS
<1> USE DEF PlayerInv
<1>1. CASE UNCHANGED playbackVars
  <2>1. KnowInv'
    BY <1>1 DEF playbackVars, KnowInv, TransportTyped, ListenersKnow, TimeAt
  <2>2. ShowInv'
    BY <1>1 DEF playbackVars, ShowInv, OverridesShow
  <2> QED
    BY <1>1, <2>1, <2>2, SpeedsAreKept DEF playbackVars
<1>2. CASE PlaybackNext
  <2>1. KnowInv'
    BY <1>2, TransportKnows, FramesKnow, StandsKnow, EditsKnow, ListenersComeAndGo DEF PlaybackNext
  <2>2. ShowInv'
    BY <1>2, TransportShows, EditsShow
  <2>3. CASE \E l \in Layers, asked \in Speeds \cup {Unset}, askedEase \in Eases \cup {Unset} :
                SetAnimationOverride(l, asked, askedEase)
    BY <2>1, <2>2, <2>3, EditsScale
  <2>4. CASE ~ \E l \in Layers, asked \in Speeds \cup {Unset}, askedEase \in Eases \cup {Unset} :
                SetAnimationOverride(l, asked, askedEase)
    <3>1. UNCHANGED <<speed, ease, scale, easing, baseline>>
      BY <1>2, <2>4
         DEF PlaybackNext, Play, Pause, Restart, Seek, Advance, Stand, SetOverride, Subscribe, Unsubscribe, KeepEdits
    <3> QED
      BY <2>1, <2>2, <3>1, SpeedsAreKept
  <2> QED
    BY <2>3, <2>4
<1> QED
  BY <1>1, <1>2

(* For any film, listeners, throttle and edits: who listens knows where    *)
(* the film is and whether it plays, overrides show with their text whole, *)
(* and a tween runs as the editor shows for one of its layers (runtime.ts).*)
THEOREM PlayerStaysTrue == PlaybackSpec => []PlayerIsTrue
<1>1. PlaybackInit => PlayerInv
  BY PlayerStarts
<1>2. PlayerInv /\ [PlaybackNext]_playbackVars => PlayerInv'
  BY PlayerKept
<1>3. PlayerInv => PlayerIsTrue
  <2> SUFFICES ASSUME PlayerInv PROVE PlayerIsTrue
    OBVIOUS
  <2>1. PlaybackTypeOK
    BY DEF PlayerInv, KnowInv, TransportTyped, ShowInv, Overrides, SpeedInv, PlaybackTypeOK
  <2> QED
    BY <2>1 DEF PlayerInv, KnowInv, ShowInv, SpeedInv, PlayerIsTrue
<1> QED
  BY <1>1, <1>2, <1>3, PTL DEF PlaybackSpec
=============================================================================
