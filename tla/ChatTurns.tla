------------------------------ MODULE ChatTurns ------------------------------
(***************************************************************************)
(* The chat of one project: what is stored of it, which part of it a new   *)
(* request sends to the model (listRecentMessages, buildMessages,          *)
(* normalizeHistory), and what the request is metered and priced at        *)
(* (UsageMeter, recordModelUsage, recordRunUsage, priceUsage).             *)
(*                                                                         *)
(* The project run lock lets one request run at a time, and its agent has  *)
(* one save under way at a time (AgentRun has them race).  A request may   *)
(* still leave a save behind that is under way: the validation limit cuts  *)
(* a run off without waiting for it, and so does a restart.                *)
(*                                                                         *)
(* A statement takes the next instant of the database's clock; a           *)
(* transaction's rows carry the instant it began.                          *)
(***************************************************************************)
EXTENDS Integers, Sequences, FiniteSets, SequencesExt

CONSTANTS
    Sayings,          \* what people write; two requests may say the same
    Reports,        \* what a provider reports of a call: input and output
    HistoryLimit,   \* how many stored messages a request sends along
    InputRate, OutputRate,   \* cost of a token
    UnitCost,       \* cost that one unit (a hundredth of a credit) stands for
    Grain,          \* steps of a unit that costs are rounded to first
    MinCharge, MaxCharge, UnreportedCharge,
    MaxTurns,       \* bound: requests
    MaxCalls,       \* bound: model calls in a request
    MaxSaves        \* bound: saves a request tries

ASSUME PricingAssumption ==
    /\ {InputRate, OutputRate, MinCharge, MaxCharge, UnreportedCharge} \subseteq Nat
    /\ {UnitCost, Grain} \subseteq Nat \ {0}
    /\ MinCharge <= MaxCharge

ASSUME CallsAssumption ==
    /\ {MaxTurns, MaxCalls, HistoryLimit} \subseteq Nat
    /\ Reports \subseteq [input : Int, output : Int]

VARIABLES
    messages,   \* rows of messages: role, text, the request's number, created_at
    runRows,    \* completed rows of generation_runs
    projectRevision,   \* projects.revision
    clock,      \* the database's clock
    turn,       \* the running request: its number and local variables
    meter,      \* its UsageMeter
    left,       \* saves that were under way when their request ended
    bill        \* what the last request was priced at, if it was charged

chatVars == <<messages, runRows, projectRevision, clock, turn, meter, left, bill>>

-----------------------------------------------------------------------------
(* Stored messages and what is sent of them.                               *)

Speakers == {"user", "assistant"}

\* What the model said in a request.
Reply == "reply"

(* No two rows carry one instant: each stands behind those before it.      *)
ByTime(rows) ==
    [i \in 1..Cardinality(rows) |->
        CHOOSE m \in rows : Cardinality({o \in rows : o.at < m.at}) = i - 1]

(* listRecentMessages: the newest rows, back in reading order.             *)
RecentMessages ==
    LET ordered == ByTime(messages)
        first == IF Len(ordered) > HistoryLimit THEN Len(ordered) - HistoryLimit + 1 ELSE 1
    IN  SubSeq(ordered, first, Len(ordered))

(* Runs of one role become one turn; a turn's text is the list of texts    *)
(* joined in it.                                                           *)
WithMessage(turns, m) ==
    IF turns # <<>> /\ Last(turns).role = m.role
    THEN [turns EXCEPT ![Len(turns)].text = Append(@, m.text)]
    ELSE Append(turns, [role |-> m.role, text |-> <<m.text>>])

JoinRuns(history) ==
    LET turns[n \in 0..Len(history)] ==
            IF n = 0 THEN <<>> ELSE WithMessage(turns[n - 1], history[n])
    IN  turns[Len(history)]

DropReplies(turns) ==
    IF turns # <<>> /\ Head(turns).role = "assistant" THEN Tail(turns) ELSE turns

\* Mutant: a reply whose question is outside the window stays first.
NormalizeKeepingReplies(history) ==
    LET turns == JoinRuns(history)
        open == turns # <<>> /\ Last(turns).role = "user"
    IN  [turns |-> IF open THEN Front(turns) ELSE turns,
         unanswered |-> IF open THEN Last(turns).text ELSE <<>>]

(* normalizeHistory *)
NormalizeHistory(history) ==
    LET turns == DropReplies(JoinRuns(history))
        open == turns # <<>> /\ Last(turns).role = "user"
    IN  [turns |-> IF open THEN Front(turns) ELSE turns,
         unanswered |-> IF open THEN Last(turns).text ELSE <<>>]

SaysAgain(m, text) == m.role = "user" /\ m.text = text

(* The messages at the end that say what this request says. *)
Repeats(history, text) ==
    {i \in DOMAIN history : \A j \in i..Len(history) : SaysAgain(history[j], text)}

WithoutRepeats(history, text) ==
    SubSeq(history, 1, Len(history) - Cardinality(Repeats(history, text)))

\* Mutant: what got no reply is left out of the request.
BuildForgetting(history, text) ==
    Append(NormalizeHistory(WithoutRepeats(history, text)).turns,
           [role |-> "user", text |-> <<text>>])

(* buildMessages: what got no reply travels in front of the new message.   *)
BuildMessages(history, text) ==
    LET earlier == NormalizeHistory(WithoutRepeats(history, text))
    IN  Append(earlier.turns, [role |-> "user", text |-> Append(earlier.unanswered, text)])

-----------------------------------------------------------------------------
(* Metering and pricing.                                                   *)

\* A count the provider did not give, or gave as no count at all.
Unknown == -1

\* Mutant: whatever the provider gave is added up.
TokenCountAsGiven(n) == n

TokenCount(n) == IF n >= 0 THEN n ELSE Unknown

Counted(n) == IF n = Unknown THEN 0 ELSE n

NewMeter == [input |-> 0, output |-> 0, calls |-> 0, unreported |-> 0]

(* UsageMeter.record *)
Record(m, input, output) ==
    IF input = Unknown /\ output = Unknown
    THEN [m EXCEPT !.calls = @ + 1, !.unreported = @ + 1]
    ELSE [m EXCEPT !.calls = @ + 1, !.input = @ + Counted(input),
                   !.output = @ + Counted(output)]

NoTokens == [input |-> Unknown, output |-> Unknown]

(* currentUsageTokens *)
Tokens(m) == IF m.calls = m.unreported THEN NoTokens
             ELSE [input |-> m.input, output |-> m.output]

Cost(m) == m.input * InputRate + m.output * OutputRate

CeilDiv(a, b) == (a + b - 1) \div b

LargerOf(a, b) == IF a > b THEN a ELSE b

SmallerOf(a, b) == IF a < b THEN a ELSE b

\* Mutant: the price is rounded to the nearest unit.
NearestUnits(cost) == (2 * cost + UnitCost) \div (2 * UnitCost)

(* The exact price to the nearest grain, then up to whole units.           *)
Units(cost) == CeilDiv((2 * cost * Grain + UnitCost) \div (2 * UnitCost), Grain)

(* priceUsage *)
Price(m) ==
    LET measured == Units(Cost(m))
        units == IF m.unreported > 0 THEN LargerOf(measured, UnreportedCharge) ELSE measured
    IN  SmallerOf(MaxCharge, LargerOf(MinCharge, units))

-----------------------------------------------------------------------------
(* A request's local variables: the history it read, what it sent, the     *)
(* revision it may overwrite, the saves it tried, the instant the one      *)
(* under way began and the revision it saved (0: none).                    *)
NoTurn(n) == [n |-> n, pc |-> "idle", text |-> Reply, history |-> <<>>, sent |-> <<>>,
              expected |-> 0, saves |-> 0, saving |-> 0, saved |-> 0]

NoBill == [n |-> 0, units |-> 0, usage |-> NewMeter]

ChatTypeOK ==
    /\ messages \subseteq [role : Speakers, text : Sayings \cup {Reply}, n : 1..MaxTurns,
                           at : 1..clock]
    /\ runRows \subseteq [saved : 2..projectRevision, n : 1..MaxTurns,
                          tokens : [input : Nat \cup {Unknown}, output : Nat \cup {Unknown}]]
    /\ turn.n \in 0..MaxTurns /\ turn.pc \in {"idle", "read", "asking"}
    /\ turn.saving <= clock /\ turn.saved <= projectRevision
    /\ {meter.input, meter.output} \subseteq Nat
    /\ meter.unreported \in 0..meter.calls /\ meter.calls \in 0..MaxCalls
    /\ bill.n \in 0..turn.n /\ bill.units \in 0..MaxCharge

ChatInit ==
    /\ messages = {} /\ runRows = {} /\ projectRevision = 1 /\ clock = 0
    /\ turn = NoTurn(0) /\ meter = NewMeter /\ left = {} /\ bill = NoBill

Say(role, text, n, at) ==
    messages' = messages \cup {[role |-> role, text |-> text, n |-> n, at |-> at]}

(* loadForGraph and listRecentMessages, under the lock. *)
BeginTurn(text) ==
    /\ turn.pc = "idle" /\ turn.n < MaxTurns
    /\ turn' = [NoTurn(turn.n + 1) EXCEPT !.pc = "read", !.text = text,
                    !.history = RecentMessages, !.expected = projectRevision]
    /\ meter' = NewMeter /\ bill' = NoBill
    /\ UNCHANGED <<messages, runRows, projectRevision, clock, left>>

(* appendMessage of the request, then the agent is called. *)
SaveMessage ==
    /\ turn.pc = "read"
    /\ clock' = clock + 1
    /\ Say("user", turn.text, turn.n, clock')
    /\ turn' = [turn EXCEPT !.pc = "asking",
                    !.sent = BuildMessages(turn.history, turn.text)]
    /\ UNCHANGED <<runRows, projectRevision, meter, left, bill>>

(* handleLLMEnd: a model call of the request answered. *)
CallAnswers ==
    /\ turn.pc = "asking" /\ meter.calls < MaxCalls
    /\ \E report \in Reports :
        meter' = Record(meter, TokenCount(report.input), TokenCount(report.output))
    /\ UNCHANGED <<messages, runRows, projectRevision, clock, turn, left, bill>>

(* overwriteForGraph begins its transaction. *)
StartSave ==
    /\ turn.pc = "asking" /\ turn.saving = 0 /\ turn.saved = 0
    /\ turn.saves < MaxSaves
    /\ clock' = clock + 1
    /\ turn' = [turn EXCEPT !.saving = clock', !.saves = @ + 1]
    /\ UNCHANGED <<messages, runRows, projectRevision, meter, left, bill>>

\* Mutant: the reply is dated when it is committed.
StoreDatedNow(n, expected, at) ==
    /\ projectRevision = expected
    /\ projectRevision' = projectRevision + 1
    /\ clock' = clock + 1
    /\ Say("assistant", Reply, n, clock')
    /\ runRows' = runRows \cup {[saved |-> projectRevision + 1, n |-> n, tokens |-> NoTokens]}

(* The transaction commits, if the project is still the one it was made    *)
(* from: the film, the reply and the row of generation_runs.               *)
Store(n, expected, at) ==
    /\ projectRevision = expected
    /\ projectRevision' = projectRevision + 1
    /\ Say("assistant", Reply, n, at)
    /\ runRows' = runRows \cup {[saved |-> projectRevision + 1, n |-> n, tokens |-> NoTokens]}
    /\ UNCHANGED clock

CommitFilm ==
    /\ turn.saving > 0
    /\ Store(turn.n, turn.expected, turn.saving)
    /\ turn' = [turn EXCEPT !.saving = 0, !.saved = projectRevision + 1]
    /\ UNCHANGED <<meter, left, bill>>

(* A save that found another revision, or failed. *)
SaveFails ==
    /\ turn.saving > 0
    /\ turn' = [turn EXCEPT !.saving = 0]
    /\ UNCHANGED <<messages, runRows, projectRevision, clock, meter, left, bill>>

(* A save that outlived its request. *)
CommitLeft(s) ==
    /\ left' = left \ {s}
    /\ \/ Store(s.n, s.expected, s.at)
       \/ UNCHANGED <<messages, runRows, projectRevision, clock>>
    /\ UNCHANGED <<turn, meter, bill>>

Charge == bill' = [n |-> turn.n, units |-> Price(meter), usage |-> meter]

\* Mutant: the tokens go to every row of the project that has none.
RowsWithoutTokens == {row \in runRows : row.tokens = NoTokens}

RowsOfSave == {row \in runRows : row.saved = turn.saved}

(* A saved film ends the request well, whatever happens after it.          *)
(* recordRunUsage may fail quietly.                                        *)
EndGeneration ==
    /\ turn.pc = "asking" /\ turn.saved > 0
    /\ \/ LET filled == RowsOfSave
          IN  runRows' = (runRows \ filled)
                           \cup {[row EXCEPT !.tokens = Tokens(meter)] : row \in filled}
       \/ UNCHANGED runRows
    /\ Charge
    /\ turn' = NoTurn(turn.n) /\ meter' = NewMeter
    /\ UNCHANGED <<messages, projectRevision, clock, left>>

\* Mutant: a reply in plain text is answered but not stored.
EndChatUnsaved ==
    /\ turn.pc = "asking" /\ turn.saved = 0 /\ turn.saving = 0
    /\ clock' = clock + 1
    /\ Charge
    /\ turn' = NoTurn(turn.n) /\ meter' = NewMeter
    /\ UNCHANGED <<messages, runRows, projectRevision, left>>

(* The model answered with text and saved nothing. *)
EndChat ==
    /\ turn.pc = "asking" /\ turn.saved = 0 /\ turn.saving = 0
    /\ clock' = clock + 1
    /\ Say("assistant", Reply, turn.n, clock')
    /\ Charge
    /\ turn' = NoTurn(turn.n) /\ meter' = NewMeter
    /\ UNCHANGED <<runRows, projectRevision, left>>

(* The request fails or is cut off with nothing saved, or the server       *)
(* restarts.  A save under way is left behind: its result is not known.    *)
EndWithout ==
    /\ turn.pc # "idle"
    /\ left' = IF turn.saving = 0 THEN left
               ELSE left \cup {[n |-> turn.n, expected |-> turn.expected, at |-> turn.saving]}
    /\ turn' = NoTurn(turn.n) /\ meter' = NewMeter
    /\ UNCHANGED <<messages, runRows, projectRevision, clock, bill>>

ChatNext ==
    \/ \E text \in Sayings : BeginTurn(text)
    \/ SaveMessage \/ CallAnswers
    \/ StartSave \/ CommitFilm \/ SaveFails
    \/ \E s \in left : CommitLeft(s)
    \/ EndGeneration \/ EndChat \/ EndWithout

ChatSpec == ChatInit /\ [][ChatNext]_chatVars

-----------------------------------------------------------------------------
(* Properties.                                                             *)

(* Whatever was stored by requests that failed, were repeated or cut off,  *)
(* and wherever the window begins, what is sent starts with the user, the  *)
(* two sides alternate, and the user has the last word: providers refuse   *)
(* anything else ("messages.0.role is invalid").                           *)
ProviderAcceptsMessages ==
    turn.sent # <<>> =>
        /\ Head(turn.sent).role = "user" /\ Last(turn.sent).role = "user"
        /\ \A i \in 2..Len(turn.sent) : turn.sent[i].role # turn.sent[i - 1].role

Spoken(turns) == FlattenSeq([i \in DOMAIN turns |-> turns[i].text])

FirstOfUser(history) ==
    IF \E i \in DOMAIN history : history[i].role = "user"
    THEN CHOOSE i \in DOMAIN history :
            /\ history[i].role = "user"
            /\ \A j \in 1..(i - 1) : history[j].role = "assistant"
    ELSE Len(history) + 1

(* Nothing is lost or said twice on the way: the newest messages from the  *)
(* first question in the window on go out in the order they were said,     *)
(* without the ones at the end this request repeats, and then the request. *)
EverythingSaidIsSent ==
    turn.sent # <<>> =>
        LET earlier == {m \in messages : m.n < turn.n}
            window == turn.history
            kept == SubSeq(window, FirstOfUser(window),
                           Len(window) - Cardinality(Repeats(window, turn.text)))
        IN  /\ Spoken(turn.sent) = Append([i \in DOMAIN kept |-> kept[i].text], turn.text)
            /\ \A m \in earlier : ~Contains(window, m) =>
                \A i \in DOMAIN window : m.at < window[i].at \/ m.role = "assistant"

(* In the order the transcript is read, the reply to a request stands      *)
(* after it and before the next one, also when it was committed later.     *)
RepliesFollowTheirRequest ==
    \A reply \in messages : reply.role = "assistant" =>
        /\ \E m \in messages : m.role = "user" /\ m.n = reply.n /\ m.at < reply.at
        /\ \A m \in messages : m.n > reply.n => m.at > reply.at

(* Who is charged has been answered, and the chat shows both.              *)
ChargedTurnsAreAnswered ==
    bill.n > 0 =>
        \A role \in Speakers :
            Cardinality({m \in messages : m.n = bill.n /\ m.role = role}) = 1

(* credit-pricing.ts: "a charge is never a fraction under the cost", but   *)
(* for half a grain of rounding noise and the ceiling; a call nobody       *)
(* reported costs at least an average generation; and never is a charge    *)
(* more than a unit above the largest of cost, floor and that average.     *)
ChargeCoversCost ==
    bill.n > 0 =>
        /\ bill.units >= MinCharge
        /\ \/ bill.units = MaxCharge
           \/ /\ 2 * Grain * (Cost(bill.usage) - bill.units * UnitCost) <= UnitCost
              /\ bill.usage.unreported > 0 => bill.units >= UnreportedCharge
        /\ \/ bill.units <= LargerOf(MinCharge, UnreportedCharge)
           \/ (bill.units - 1) * UnitCost < Cost(bill.usage)

(* A row of generation_runs gets its token counts once, from the run that  *)
(* saved it, when the run is over: all it spent, or none.                  *)
RunsKeepTheirOwnTokens ==
    [][\A run \in runRows : run \notin runRows' =>
          /\ run.n = turn.n /\ run.tokens = NoTokens
          /\ [run EXCEPT !.tokens = Tokens(meter)] \in runRows']_chatVars

(* The transcript is whole and in order, the provider accepts what is sent  *)
(* of it, nothing of it is left out, and runs and charges match it.        *)
ChatIsWhole ==
    /\ [](ChatTypeOK /\ ProviderAcceptsMessages /\ EverythingSaidIsSent
             /\ RepliesFollowTheirRequest /\ ChargedTurnsAreAnswered)
    /\ RunsKeepTheirOwnTokens
=============================================================================
