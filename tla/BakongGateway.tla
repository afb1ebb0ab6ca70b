---------------------------- MODULE BakongGateway ----------------------------
(***************************************************************************)
(* What Payments takes for granted of Bakong's answers: the client and the *)
(* sandbox of packages/bakong, and what refresh and simulatePayment make   *)
(* of a transaction.  One open checkout in USD; several requests look it   *)
(* up, or in sandbox mode decide its outcome, at once.                     *)
(*                                                                         *)
(* Bakong and the payer's bank are external: a transfer may be of another  *)
(* amount, currency or receiver, the names in other letters, and a request *)
(* may come back with an error, with nonsense or not at all.  An amount is *)
(* a binary fraction: a hundred times it misses the whole cents by a trace,*)
(* here one of Parts of a cent.                                      *)
(***************************************************************************)
EXTENDS Integers, FiniteSets

CONSTANTS
    Price,   \* amountMinor
    Parts,   \* of a cent
    Lookups  \* requests that ask about the checkout

ASSUME PriceAssumption == Price \in Nat \ {0} /\ Parts \in Nat /\ Parts > 2

VARIABLES
    sandbox,  \* BAKONG_MODE=sandbox
    status,
    transfer,     \* what the payer's bank has done
    results,  \* SandboxBakongGateway.results, for this checkout
    lookup,   \* a request: what it is at and what it was answered
    overdue,  \* the grace period is over
    told      \* history: whether the bank, or a developer for it, ever said that
              \* the whole price had arrived, and that something else had

gatewayVars == <<sandbox, status, transfer, results, lookup, overdue, told>>

Outcomes == {"paid", "failed", "wrong_amount", "expired"}
Names == {"ours", "OURS ", "another"}
Currencies == {"USD", "usd", "KHR"}
Transfers == [to : Names, currency : Currencies,
              amount : {Parts * c + e : c \in Price - 1 .. Price + 1, e \in -1..1}]
Nothing == [status |-> "NOT_FOUND"]
Rejected == [status |-> "FAILED"]
Paid(t) == [status |-> "PAID", transaction |-> t]
Thrown == [status |-> "thrown"]

\* The whole price, to us, in dollars, whatever the letters and the trace.
Whole(t) == t.to # "another" /\ t.currency # "KHR" /\ t.amount \in Parts * Price - 1 .. Parts * Price + 1
SaysWhole(answer) == answer.status = "PAID" /\ Whole(answer.transaction)
Says(answer) == IF SaysWhole(answer) THEN "whole" ELSE "other"

GatewayTypeOK ==
    /\ sandbox \in BOOLEAN /\ overdue \in BOOLEAN
    /\ status \in {"PENDING", "PAID", "FAILED", "EXPIRED"}
    /\ \A a \in {transfer, results} : a.status \in {"NOT_FOUND", "FAILED", "PAID"}
    /\ \A c \in Lookups : /\ lookup[c].at \in {"idle", "read", "simulate", "answered"}
                          /\ lookup[c].answer.status \in {"NOT_FOUND", "FAILED", "PAID"}
    /\ told \subseteq {"whole", "other"}
    /\ IF sandbox THEN transfer = Nothing ELSE results = Nothing

Resting == [at |-> "idle", late |-> FALSE, outcome |-> "paid", answer |-> Nothing]

GatewayInit ==
    /\ sandbox \in BOOLEAN /\ status = "PENDING" /\ transfer = Nothing /\ results = Nothing
    /\ lookup = [c \in Lookups |-> Resting] /\ overdue = FALSE /\ told = {}

Goes(c, l) == lookup' = [lookup EXCEPT ![c] = l]

(***************************************************************************)
(* External: the payer's bank, the clock, a restart.                       *)
(***************************************************************************)
PayersBank ==
    /\ ~sandbox /\ ~overdue /\ transfer = Nothing
    /\ transfer' \in {Rejected} \cup {Paid(t) : t \in Transfers} /\ told' = {Says(transfer')}
    /\ UNCHANGED <<sandbox, status, results, lookup, overdue>>

GraceEnds ==
    /\ ~overdue /\ overdue' = TRUE
    /\ UNCHANGED <<sandbox, status, transfer, results, lookup, told>>

\* Simulated results live in memory.
RestartServer ==
    /\ sandbox /\ results # Nothing
    /\ results' = Nothing /\ lookup' = [c \in Lookups |-> Resting]
    /\ UNCHANGED <<sandbox, status, transfer, overdue, told>>

(***************************************************************************)
(* A request.                                                              *)
(***************************************************************************)

\* getPayment: the stored payment is read.
ReadPayment(c) ==
    /\ lookup[c].at = "idle" /\ status = "PENDING"
    /\ Goes(c, [Resting EXCEPT !.at = "read"])
    /\ UNCHANGED <<sandbox, status, transfer, results, overdue, told>>

\* simulatePayment, up to its second statement.
ReadToSimulate(c, outcome) ==
    /\ sandbox /\ lookup[c].at = "idle" /\ status = "PENDING"
    /\ Goes(c, [Resting EXCEPT !.at = "simulate", !.outcome = outcome])
    /\ UNCHANGED <<sandbox, status, transfer, results, overdue, told>>

\* Envelopes of the Open API: what the bank has done, or an error of Bakong's.
Envelope(code, error, data) == [code |-> code, error |-> error, data |-> data]
Replies ==
    {Envelope(1, 15, Nothing), Envelope(1, 0, Nothing), Envelope(0, 0, Nothing)} \cup
    CASE transfer = Nothing -> {Envelope(1, 1, Nothing)}
      [] transfer = Rejected -> {Envelope(1, 3, Nothing)}
      [] OTHER -> {Envelope(0, 0, transfer)}
\* No response in time, a status that is not ok, or a body that is no JSON.
Unreadable == Envelope(-1, 0, Nothing)

\* Mutant: whatever is not found or paid has failed.
CheckTransactionByMd5Harsh(reply) ==
    CASE reply.code = 0 /\ reply.data # Nothing -> reply.data
      [] reply.error = 1 -> Nothing
      [] OTHER -> Rejected

\* checkTransactionByMd5 over post
CheckTransactionByMd5(reply) ==
    CASE reply.code = 0 /\ reply.data # Nothing -> reply.data
      [] reply.error = 1 -> Nothing
      [] reply.error = 3 -> Rejected
      [] OTHER -> Thrown

\* Mutant: a failed call is not caught before the answer is looked at.
AnsweredUncaught(c, answer) == Goes(c, [Resting EXCEPT !.at = "answered", !.answer = answer])

\* The time was taken when the call was sent.  One that failed is caught and
\* leaves the payment as it is.
Answered(c, answer) ==
    \E late \in {FALSE, overdue} :
        Goes(c, IF answer = Thrown THEN Resting
                ELSE [Resting EXCEPT !.at = "answered", !.answer = answer, !.late = late])

AskBakong(c) ==
    /\ ~sandbox /\ lookup[c].at = "read"
    /\ \E reply \in Replies \cup {Unreadable} : Answered(c, CheckTransactionByMd5(reply))
    /\ UNCHANGED <<sandbox, status, transfer, results, overdue, told>>

AskSandbox(c) ==
    /\ sandbox /\ lookup[c].at = "read" /\ Answered(c, results)
    /\ UNCHANGED <<sandbox, status, transfer, results, overdue, told>>

\* simulate: a cent short for wrong_amount, rounded from the price.
Simulated(outcome, e) ==
    IF outcome = "failed" THEN Rejected
    ELSE Paid([to |-> "ours", currency |-> "USD",
               amount |-> Parts * (IF outcome = "wrong_amount" THEN Price - 1 ELSE Price) + e])

\* The result is set, and looked up in the same step.
Simulate(c) ==
    /\ lookup[c].at = "simulate" /\ lookup[c].outcome # "expired"
    /\ \E e \in -1..1 :
         LET answer == Simulated(lookup[c].outcome, e)
         IN results' = answer /\ told' = told \cup {Says(answer)} /\ Answered(c, answer)
    /\ UNCHANGED <<sandbox, status, transfer, overdue>>

SimulateExpiry(c) ==
    /\ lookup[c].at = "simulate" /\ lookup[c].outcome = "expired"
    /\ status' = IF status = "PENDING" THEN "EXPIRED" ELSE status
    /\ Goes(c, Resting)
    /\ UNCHANGED <<sandbox, transfer, results, overdue, told>>

\* Mutant: cut off instead of rounded.
ToMinorFloor(amount) == amount \div Parts
\* toMinor: Math.round
ToMinor(amount) == (2 * amount + Parts) \div (2 * Parts)

\* findMismatch: names and currencies are compared in one case, without blanks.
FindMismatch(t) ==
    t.to \notin {"ours", "OURS "} \/ t.currency \notin {"USD", "usd"} \/ ToMinor(t.amount) # Price

\* refresh, after the lookup: what becomes of a payment that is still PENDING.
VerdictOn(l) ==
    CASE l.answer.status = "PAID" -> IF FindMismatch(l.answer.transaction) THEN "FAILED" ELSE "PAID"
      [] l.answer.status = "FAILED" -> "FAILED"
      [] OTHER -> IF l.late THEN "EXPIRED" ELSE "PENDING"

Settle(c) ==
    /\ lookup[c].at = "answered"
    /\ status' = IF status = "PENDING" THEN VerdictOn(lookup[c]) ELSE status
    /\ Goes(c, Resting)
    /\ UNCHANGED <<sandbox, transfer, results, overdue, told>>

\* A statement fails, and the request with it.
GiveUp(c) ==
    /\ lookup[c].at # "idle" /\ Goes(c, Resting)
    /\ UNCHANGED <<sandbox, status, transfer, results, overdue, told>>

GatewayNext ==
    \/ PayersBank \/ GraceEnds \/ RestartServer
    \/ \E c \in Lookups : \/ ReadPayment(c) \/ \E o \in Outcomes : ReadToSimulate(c, o)
                          \/ AskBakong(c) \/ AskSandbox(c) \/ Simulate(c) \/ SimulateExpiry(c)
                          \/ Settle(c) \/ GiveUp(c)

GatewaySpec == GatewayInit /\ [][GatewayNext]_gatewayVars

(***************************************************************************)
(* Properties.                                                             *)
(***************************************************************************)

\* A checkout is PAID only on the word that its whole price arrived, and
\* FAILED only on the word that something else did; never on an error of
\* Bakong's, and in the sandbox as a developer has decided.
SettledAsTold ==
    /\ status = "PAID" => "whole" \in told
    /\ status = "FAILED" => "other" \in told

\* Money that arrived whole is never turned away, however it is written and
\* whenever it is asked for: what Payments takes for PAID are all the whole
\* transfers there are.
WholePaymentIsHonoured ==
    SaysWhole(transfer) => /\ status \in {"PENDING", "PAID"}
                           /\ \A c \in Lookups : lookup[c].at = "answered" =>
                                 VerdictOn(lookup[c]) \in {"PENDING", "PAID"}

\* Bakong's answers, errors and amounts are taken for what they mean, never
\* for more or for less (bakong/client.ts, payment.service.ts verdict).
AnswersMeanWhatTheySay == GatewayTypeOK /\ SettledAsTold /\ WholePaymentIsHonoured
=============================================================================
