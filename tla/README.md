# Motify backend: models, checks and proofs

TLA+ models of the parts of this backend in which an order of steps nobody wrote a test for can cost
a user money or work: credits, payments, generation requests, agent runs, and what is kept around a
project. Every definition is a translation of the source it is mapped to in `PROJECT.json` ("map");
the properties are aimed at the hazards listed there. `MC*.tla` and `*.cfg` are the instances TLC
checks, `*Proofs.tla` the theorems TLAPS proves.

Paths are relative to the repository root; `services/x.ts` stands for `src/services/x.ts`.

## 1. Inventory

### Components, their state and their operations

| component | state | operations | what must be right |
|---|---|---|---|
| **Credit ledger transactions** (`repositories/credit.repository.ts`, migrations 0014, 0016) | `credit_accounts`, `credit_ledger` | `reserve`, `settle`, `refund`, `releaseStaleHolds`; the balance trigger; top-ups by payments | a hold is closed once, by a charge or a refund; a balance is the sum of its rows and never negative; a request costs at most what its tokens cost |
| **Credit batches and expiry** (migration 0020, `expireCredits`) | `credit_grants`, `credit_grant_uses` | the `credit_ledger_grants` trigger on every ledger row; the expiry sweep | units of a batch are neither lost nor invented; each row draws soonest-expiring first; refunds go back where they came from; permanent credits never expire |
| **Generation billing, pricing, usage meter** (`services/generation-billing.ts`, `services/credit-pricing.ts`, `packages/ai/usage`) | a meter per request | `begin`, `complete`, `abandon`, `releaseStale`; `record`, `priceUsage` | what the user got is what they paid for; a charge covers what the tokens cost |
| **Credit history** (`services/credit.service.ts`) | none of its own | `listHistory`, `listEntries` | pages neither repeat nor skip while rows are written |
| **Project run lock** (`services/project-run-lock.ts`) | leases in memory | `acquire`, `release` | one generation per project; nobody locked out by a request that is over |
| **Generation requests** (`services/generation.service.ts`) | none of its own | `sendMessage`, `runMessage` | every way out closes the hold and gives the lease back |
| **Agent runs** (`packages/ai/agent`) | local variables of a run, shared by its tool calls | the model loop, `validate_generation`, `finalize_generation`, the abort, the recursion limit | what is answered is what was saved |
| **Film validation and media** (`packages/ai/validation`, `services/generation.service.ts`) | the agent's workspace, attached media | resolving assets and audio, the gate, writes and saves | a saved film uses the media the request brought; what is called valid can be saved |
| **Provider errors** (`packages/ai/agent/errors.ts` and the answers made of them) | none | `readStatus`, `normalizeProviderError` | layers around an error do not hide it |
| **Project revisions, chat** (`repositories/motion-graph.repository.ts`, `repositories/project.repository.ts`) | `projects`, `messages`, `generation_runs` | load, save user turn, overwrite, record run and usage, patch, archive; `buildMessages` | no edit is lost; what is sent is a conversation the provider takes, and all of it |
| **Payments and subscriptions** (`services/payment.service.ts`, `repositories/payment.repository.ts`) | `payments`, `workspace_subscriptions`, grant rows of the ledger | `createCheckout`, `getPayment`, `simulatePayment`, `reconcilePending`, `refresh`, `activate`, `grantMissingCredits` | money that arrived is honoured, once, whatever failed on the way; a payment is worth a whole period, at the price that was shown |
| **Bakong client** (`packages/bakong`) | simulated results in memory | `checkTransactionByMd5`, `simulate` | an error of Bakong's settles nothing; a whole transfer is recognised |
| **Server timers and shutdown** (`server.ts`) | timers, pool, signals | hold sweep, expiry sweep, payment reconciler, shutdown | everything left behind is picked up; nobody connected is cut off from the pool |
| **Workspaces and members** (`services/workspace.service.ts`) | members, roles | create, rename, add, change, remove, leave | a workspace keeps an owner; who was removed stays out |
| **Sign-in and sessions** (`services/auth.service.ts`, `repositories/auth.repository.ts`) | attempts, sessions, users, personal workspaces | start, callback, provision, revoke | an attempt is used once; one account, one workspace, one signup grant |
| **Assets, audio library, object storage** (`services/asset.service.ts`, `services/audio.service.ts`, `packages/object-storage`) | asset rows, stored objects, references | upload, complete, attach, detach, remove, clean up | what is in use is there; a deleted asset stays deleted |
| **Brand DNA** (`services/brand.service.ts`) | revisioned document, linked files | save, suggest, link, clean up | no save is overwritten; no file in use is removed |
| **Swarm skill** (`.agents/skills/swarm/scripts`) | table files, a cache of them | `create`, `run`, batching, filters | a result once reported is in the file; every row is asked once and accounted for once |
| **Film runtime** (`packages/motify-runtime/runtime.ts`) | timeline, overrides, listeners | play, pause, seek, restart, overrides, speeds | listeners know where the film is; an edit survives the next frame |
| HTTP layer, configuration other than plans and packs, skills, references, prompts, scripts and evals | little or none | see `PROJECT.json` "components" | functions of their input, or content |

### How they interact

    POST /v1/projects/:id/messages
      GenerationService.sendMessage
        └ project run lock: acquire ───────────── leases (memory)
            └ runMessage: assets, audio, brand
                ├ GenerationBilling.begin ─────── RESERVE row ┐
                ├ agent run ── tools ── overwriteForGraph ── projects (revision), messages, runs
                └ complete | abandon ──────────── SETTLE / REFUND row ┤── triggers: balance, batches
            └ release                                                 │
    timers: hold sweep ────────────────────────── REFUND row          ┤
            expiry sweep ──────────────────────── EXPIRE row          ┤
            payment reconciler ┐                                      │
    polls of a payment ────────┴ refresh ── Bakong ── activate: PAID + subscription + grant row
    sign-in ── provision: user + personal workspace + owner + account + SIGNUP_GRANT row

Everything shared is in PostgreSQL, except the leases, the timers' flags, simulated payments and the
files in object storage. What transactions exclude is decided by which row each of them locks first:
the account row in the credit repository, the payment row and then the subscription row in `activate`,
the users row in `provision`, and no lock but a revision in the WHERE of the project's and the brand's
updates. Assets and workspace members have neither: their requests are chains of single statements.

### What is hard here

- *Concurrency*: a slow request and the sweep of its hold; a poll and the reconciler on one payment;
  two payments on one subscription; two tool calls of one model turn; browser tabs and an agent on one
  project; two owners who remove each other; two first logins; two swarm runs on one table.
- *Stale reads*: the list a sweep selected; the balance an overrun is capped by; the time a verdict on
  a payment compares with, taken before the lookup; the revision an agent started from; the row an
  upload verified; the list of plans a buyer picked from before the settings changed.
- *Failure*: a commit whose answer is lost, a server that stops between RESERVE and SETTLE, Bakong
  being down when the money has arrived, an abort in the middle of a save, a shutdown under load.
- *Time*: leases, stale ages, QR expiry and grace, credit expiry, subscription periods, upload times.

The list with its lines, and the property that would notice each of them going wrong, is
`PROJECT.json` "hazards".

## 2. Modules

### Credits

`CreditTransactions` is the database's view of holds. A session is a request or a sweep. Each
transaction of `DatabaseCreditRepository` is three steps: `LockBalance` (the `SELECT ... FOR UPDATE` on
the account, enabled only while nobody holds the row), `ReadHold`, and the last statement with the
commit: `Reserve`, `RefuseReserve`, `Settle`, `Refund` or `SkipClose`. `Post` is an insert with the
constraints of the tables (`Accepts`: unique per kind and reference, amounts of the right sign, balance
not negative) and the balance trigger of migration 0014. `SweepSelect` picks stale holds without any
lock and `SweepNext` comes to them one at a time, each in a transaction of its own; `Age` makes a hold
stale at any moment after it was opened, so a sweep may meet a request that is about to settle.
`RollBack`, `Crash` and the lost commit answer inside `Reserve`, `Settle` and `Refund` are the failures.
Costs are any value the constants allow, below, at and above the hold.

`HoldLifecycle` is the abstract specification: a hold is opened once and is charged once or returned
once. `ImplementsHoldLifecycle` maps the ledger rows of a request to it.

`CreditLedger` says which credits are spent: one account, one transaction per step (what makes that
legitimate is the previous module: transactions of one account exclude each other). `Draw` and `GiveBack`
are the two loops of the trigger `credit_ledger_grants`. `Moved` says in closed form what such a loop
takes of each batch: what is left of the request after the batches before it, up to what the batch has.
`GrantLoops` has the loops as the database runs them, row by row with the rest in a variable; the two are
the same for any batches (`LoopsMoveWhatIsSaid`), and TLC compares them on every input of up to three
(`LoopsMoveTheSame`). `Post` applies a ledger row, its batches and its uses, and notes in `refused` when a
constraint would have refused it. `GrantPlan`, `BuyPack`, `Reserve`, `Settle`, `Refund`, `ExpireSelect`,
`ExpireBatch`, `SweepStops` are the callers. `expired` is history, used by properties only. Batches that
expire together are drawn from in the order of their creation and given back to in any order, as the two
ORDER BY of the trigger say.

`CreditHistory` reads the history page by page while transactions write: a row carries the time its
transaction began and is seen when it commits, in any order, so rows appear behind the reader. A line
stands at its newest row's time and moves when the hold is closed. `ReadPage` is the grouped query with
its `having`, its order and its one row more than fits; `EncodeCursor` keeps the database's precision.

### Requests, agents, films and chat

`GenerationRequests` is lease, hold and run against one clock. A request walks `CheckAccess`, `Acquire`,
`Begin`, `RunEnds`, `Close`, `Release`; `Sweep` is `releaseStale`, `Restart` loses the leases and the
requests in flight, `Tick` is time. The TTL of the lease and the age of a stale hold are both meant to
be longer than any run, and no code makes them so: the model lets a run take as long as it likes, and
the properties say what a run is promised until it is that old and what it is promised afterwards. The
store's error branch (503) cannot be reached with the in-memory store and is not modelled; several
server processes would each have their own leases, which `project-run-lock.ts:13` rules out.

`AgentRun` is tool calls and saves. The loop is LangGraph's: `Ask` starts a model turn, `Act` the tool
calls the turn asked for, and all of them run concurrently, step by step: `Validate`; `Finalize` (the
checks before the first await), `Overwrite` (the update on the loaded revision and the rows written with
it), `Finalized` (what the outcome does to the run's variables), `SaveFails` (a failed save, or one
whose answer was lost after its commit). `CutOff` says when the loop may end without the model ending
it: the validation limit aborts at once, with calls still in flight, the recursion limit between turns.
`EndFinalized`, `GiveUp`, `Chat`, `RunFails` are the answers. `Patch` and `Archive` are the people. The
specification is `RunSpec`, with `RunInit` and `RunNext`, so that it can stand beside another in one run.
`writes` remembers for every revision who wrote it and which revision its author had in front of them.

`FilmDraft` is what a run makes of a film, one call at a time: `ResolveMedia` (images and tracks the
request brings, or those attached before), `Load` (the workspace seeded with the saved film, whose
tokens stay legal), `WriteHtml`, `WriteTimeline`, `ValidateDraft`, `FinalizeDraft` with its refusals (a
film that is incomplete, untouched, invalid, or another than the one saved before), `OverwriteFilm`, and
the ends of a run. People patch the film, detach media and change the brand at any time. A composition
is known by whether its markup is accepted, the media tokens its text names and those that are placed;
what the parsers say is a verdict. `ProviderErrors` has `ReadStatus` over layers of wrapped errors.

`ChatTurns` is the chat of one project: the window of recent messages (`RecentMessages`), how it becomes
a conversation (`NormalizeHistory`, `BuildMessages`), the meter (`TokenCount`, `Record`) and the price
(`Price`, on integers: a count of the smallest cost, a grain for the rounding to micro-amounts, a unit).
Rows carry the time their transaction began; a save may outlive its request (`CommitLeft`).

### Payments and the server

`Payments` is checkouts, polls and the reconciler, statement by statement. `FindCheckout` and
`CreateCheckout` are the two halves of `createCheckout`; `Pay` is the bank (one outcome per QR, at the
latest when the grace period ends, by someone the QR was shown to); `Ask` starts `refresh` for a poll or
for the reconciler, `Lookup` is Bakong's answer or its failure, `Verdict` decides (amount and currency,
expiry and grace), `Close` writes FAILED or EXPIRED, and `activate` is `LockPayment`, `ReadSubscription`,
`Activate`, with `Abort` for a transaction that fails. `GrantMissing` is the backfill. A payment of a plan
sold without credits (`Creditless`) is paid and grants nothing (`Grants`, the early return of `grant`),
and the backfill leaves it alone. A statement that waits for a row lock is a step that is not enabled yet.
Merged or left out: `markChecked` is one step with the statement after it; `checked` is dropped when a
payment is settled and nobody reads it any more; of a period only its end is kept.

`ReconcilerPass` is the same timer over more payments than a pass takes: `ListPending` takes the oldest,
`RefreshNext` is one refresh as a step, a lookup that fails is caught, a statement that throws ends the
pass, and lookups of the payments in `Bad` fail whenever they are tried. `CheckoutTerms` is a checkout
under settings that change over a restart: `Start` parses or refuses them, `Pick` keeps an old list in
the client, `OpenCheckout` resolves the id and reuses or creates a row, `SettleTerms` compares and grants
what the row says. `BakongGateway` is what `Payments` takes for granted of an answer: envelopes, errors
and unreadable replies, transfers of another amount, currency or receiver, amounts that are not whole
binary fractions, the sandbox with its results in memory, and `FindMismatch`.

`ServerLife` is `startServer` from listening to the end of the pool: requests on their connections,
passes of the three timers, the reconciler's flag, and `Signal`, `Closed`, `CutConnections`, `Finish`,
`PoolEnded` of the shutdown. A handler whose connection was cut runs on, as Node lets it.

### Accounts, media, brand

`Workspaces` has each request as its awaited statements (`Authorize`, `ReadTarget`, `CountOwners`, the
write), with no transaction around them; `stale` remembers that the membership was written after the
request's last read. `SignIn` composes it with sign-up, sign-in, provisioning in one transaction (whose
upsert of the users row makes logins of one person take turns), sessions and logout.

`Assets` has uploads, completion, attachment and removal of images, audio tracks and brand files, row
and object apart, in the local store (a stream that creates with `wx`, fails and unlinks) and in
Supabase (a signed upload at any time), and the retention clean-up. `BrandProfile` extends it with the
revision-checked document (one text field and one font stand for it), links with their limit and the
displaced logo, suggestions that retry once, and the sweep of fonts a save dropped.

### The swarm skill and the film runtime

`SwarmBatching` cuts rows into batches and puts answers back; `Swarm` is `create` (eviction, numbers,
the file, the cache) and `run` (load, dispatch over workers, merge, save by compare-and-edit) as the
code between two awaits, over sessions whose memory is lost. A run is as wide as its `concurrency`
option asks, clamped to 1 and `MaxSubagents` (`EffectiveConcurrency`, kept in the run's `width`), and
automatic batching counts on that width. `RowFilter` evaluates filters over columns
that may be missing, null or nested; filters nest up to `MaxNesting` deep, and what is evaluated is a
function on them. `Playback` is the player: the timeline is gsap's and external;
play, pause, seek, restart, frames, overrides, speeds and eases, listeners with their throttle. A patch of
a layer's animation, of its speed alone too, writes the ease that is shown for the layer into its tweens.

### How modules are composed

Refinement: `HoldLifecycle` under `CreditTransactions`. Extension with shared state: `SignIn` over
`Workspaces` (provisioning writes memberships that requests are deciding on), `BrandProfile` over
`Assets` (links keep files alive, releases remove them), `Swarm` over `SwarmBatching`, `FilmDraft` over
`ProviderErrors`. Some `MC` modules put several specifications that share no variable side by side for
one TLC run: a variable `part` picks one of them with the initial state and the others stand still
(`MCHoldsAndRuns`, `MCCreditLedger`, `MCGenerationRequests`, `MCCheckouts`, `MCServer`, `MCProject`,
`MCAgentWork`).

## 3. Runs

A property of a run is often a conjunction of named parts, each with a comment of its own in its module:
`BooksAgree` is five invariants of the ledger, `ChatIsWhole` five invariants and an action property.
Parts that a run checks are checked one by one; they are joined because they answer one question.

Every property has mutants in `PROJECT.json`, usually one for each of its parts: a plausible bug in the
mapped code that makes TLC find it violated under the run's own configuration. Mutated forms stand
beside the definitions they change, under a comment that begins with "Mutant". The type invariants of
`AgentRun`, `GenerationRequests` and `Payments` are proved (section 4) and not listed in a run.

| run | properties | question | instance and why it is enough |
|---|---|---|---|
| `HoldsAndRuns` | `BooksAreTrue`, `WritesAreAccepted`, `ChargeWithinCost`, `ImplementsHoldLifecycle`, `EveryHoldIsClosed`, `ErrorMeansNotSaved`, `EveryRunAnswers` | Does any interleaving, rollback, crash or lost answer close a hold twice, spend a unit twice, refuse a decided write, or overcharge? Is every hold closed in the end? And with one call at a time and a database that answers, does an error answer of a run mean that nothing was saved, and does every run answer? | *holds*: one account (accounts share no row), two requests that compete for 4 units with holds of 3, so the second hold is capped; costs 1 (surplus) and 6 (overrun beyond hold and balance); one top-up that arrives at any point; a sweep with limit 1, so that it must come back; two failures. Several sweeps at once are covered by the proofs, which fix no number. *runs*: two runs, one editor, one retry, two turns: with one call a turn, two failures reach the validation limit, and two turns with fewer the recursion limit. |
| `CreditLedger` | `BooksAgree`, `RefundRestoresBatches`, `UnitsMoveInOrder`, `PastDueBatchesEndEmpty`, `EveryTurnComes` | Do batches, uses and balance stay consistent through draws, surpluses, overruns, refunds and expiries? Do past-due batches end empty? And does the reconciler come to every payment? | *ledger*: two plan batches with any order of expiries, one pack, two generations, hold 3, costs below, near and above it, sweep limit 1, a clock of two ticks: a hold straddles both batches and permanent credits, and a refund finds its batch expired. *pass*: three payments, a pass takes two, one of them has lookups that always fail, one more failure anywhere; any number of them from before credits were granted. |
| `CreditLedger_permanent_first` | `ChargesSpendSoonestFirst` | *violation*: docs/api.md:183 | the *ledger* of `CreditLedger` |
| `AgentRun_safety` | `NoLostUpdate`, `OneSavePerRun`, `ReportedFilmIsSaved` | Is an edit ever lost, is a film ever saved twice, is what is reported as saved there? | Two runs, two calls per turn, two turns, one editor, one edit or archive, one failure: enough for two saves to overlap within a run, between runs and with a person. |
| `AgentRun_gave_up_saved` | `GaveUpMeansNotSaved` | *violation*: motify-agent.ts:235 | one run, two calls |
| `GenerationRequests` | `LocksFollowTheirRequests`, `HoldsFollowTheirRequests`, `ResultsAreCharged`, `GateIsTrue`, `AnswersAreTrue` | How do lease, hold, sweep and restart fit together, however long a run takes? Does a saved film use its media, is an agent told what is so? | *requests*: three requests for one project (projects share nothing), TTL and stale age 2, clock to 4: a run outlives its lease, the next takes it and outlives its own. One failure or restart. *film*: a request with a failure allowed and one edit by a person, an image and a track, all compositions over them; errors of up to three layers. |
| `Payments_safety` | `PaidIsHonoured`, `PaidOnceAndForGood`, `NoPeriodLost`, `TermsAreKept` | Is money honoured, settled once, credited in the same commit and worth a whole period? Does a checkout keep the terms it showed? | *payments*: two checkouts of one plan, with credits or without, in a workspace whose period ends in the run; a poll and the reconciler, statement by statement, one failure, clock to 4: renewals before and after the end of the period. No throttle (`MinInterval` 0): checks overlap as often as they can; `Server` has the throttle. *terms*: one row, two buyers of whom one is an owner, five settings: reordered packs at another price, a pack and the plan withdrawn, a pack twice, a list too long. One row is enough because terms of different rows are compared with their own views only; it can be reused by both buyers. |
| `Server` | `PaymentsEnd`, `ShutdownIsSafe`, `ServerGoesOn`, `AnswersMeanWhatTheySay` | Does every payment arrive and every checkout end? Does shutdown leave anyone connected without the pool, or two reconcilers at once? Is an answer of Bakong's read for what it says? | *payments*: a payment of a plan or a pack and an old one without credits, one outage, no subscription yet. *server*: two connections, two passes of the reconciler, one sweep, both signals. *bakong*: a price of two cents with three neighbours of each amount, names and currencies in several spellings, two lookups at once, both modes. |
| `Payments_first_period` | `NoPeriodLost` | *violation*: docs/api.md:167 | two payments, first subscription |
| `Accounts` | `AccountsAreWhole`, `FreshDecisionsKeepAnOwner`, `RemovedStaysOut`, `LoginsEnd` | Is provisioning whole and once, does every login end, do memberships only change as someone decided? | Two people; two requests on a team they share, or on which one is no member; or three logins with one attempt and two logouts from an empty database; or a request beside a first login. |
| `Project` | `FilesAreThere`, `PeoplesWorkIsKept`, `ChatIsWhole`, `ChargeCoversCost`, `PagesAddUp` | Are files that are offered there, is the brand's document intact, is what the chat sends accepted and complete, what does a request cost, what do history pages show? | *media*: up to three calls, on one upload, a finished image, a track or a font, and two on two images of a brand that may hold one. *chat*: four requests of two texts, a window of three messages, three model calls with usable or unusable counts, costs around floor, ceiling and a half grain. *history*: two generations, a grant, an expiry, pages of one line, two instants. |
| `AgentWork` | `ResultsAreKept`, `OppositeTakesTheRest`, `PlayerIsTrue` | Does the swarm ask every row once and keep results? Do filters split a table? Does the player tell the truth? | *swarm*: a table of three rows with two runs on it, one that asks for more workers than the two there may be and one for none, or one run while two more tables are made and the limit is two; sizes automatic, uniform and per row; one new session. *filter*: eight values for two columns, five kinds of predicate, nested twice. *playback*: a film of five units and timelines that are shorter or longer, two layers that share a tween, two edits, each of a speed, an ease or both; one ease besides the default. |

`CHECK_DEADLOCK FALSE` everywhere: every request, payment and clock of an instance is used up in the
end. Symmetry is used only where a run has no liveness property.

### Bounds

`MaxFailures`, `MaxStoreFailures`, `MaxThrows`, `MaxTime`, `MaxSteps`, `MaxEdits`, `MaxChanges`, `MaxGap`,
`MaxSessions`, `MaxRuns`, `MaxTurns`, `MaxCalls`, `MaxSaves` and `MaxNesting` are bounds of the models and
not of the code (`MaxSteps` stands for LangGraph's recursion limit). `MaxLinks`, `MaxPacks`, `MaxTables`,
`MaxBatchSize`, `MaxSubagents` and `MaxRetries` are limits of the code, made small. Limits, ages and
prices keep their relation to each other, not their size. In `Payments`, failures stop before the last
tick: one that came when the clock stands still would have nothing after it.

### Fairness, and why the code justifies it

- `HoldsAndRuns`, holds: a sweep's steps are weakly fair (the timer of `server.ts:258`), and its wait for
  an account row is strongly fair: PostgreSQL grants a row lock in the order of arrival, and every holder
  is inside a short transaction. A transaction that has read goes on. Requests are *not* assumed to reach
  their end: a lost one is what the sweep is for. `Age` is time.
- `CreditLedger`: the expiry timer fires again and again, and a sweep comes to the batches it selected.
  Nothing is assumed of generations.
- `ReconcilerPass`: the timer ticks and a pass goes on from payment to payment; a QR is settled or it
  expires; seconds go by. Polls are not assumed, nor that a lookup ever succeeds.
- `HoldsAndRuns`, runs: the process is up and each tool call makes progress; a model that always asks for
  more calls is allowed, one that never ends its turn by itself too.
- `Payments`: the clock ticks; calls of Bakong end, with an answer or a failure; the reconciler comes to
  every pending payment in turn (strong fairness of `Ask(Reconciler, p)`: a poll may disable it by the
  throttle again and again). That it comes to every payment is what `ReconcilerPass` shows, for fewer
  lookups that always fail than a pass takes. Polls are not assumed: a browser may be closed.
- `ServerLife`: a query ends, a pass ends (its list is limited and its calls time out), the ten seconds of
  the forced exit pass, and what Node calls back is called back. Of requests nothing is assumed: a handler
  may wait for the model for ever.
- `SignIn`: Node's event loop and the database run a login on. A waiting upsert needs no strong fairness:
  who holds the row goes on or dies, and there are finitely many logins.
- A merged run is fair only to the part its behaviour is of: what stands still is at rest, where fairness
  asks for nothing (`HoldsAndRuns`), or the fairness is conditional on `part`.

## 4. Proofs

Theorems hold for every value of the constants that the named assumptions allow; the runs show the same
properties on one instance each. `PROJECT.json` "theorems" names the property each one states. An
invariant of a run is seldom inductive alone, so each proof module strengthens it first, shows that the
initial states establish the stronger one and that each action keeps it, and derives the properties.
Several of the modules rest on *effect lemmas*, one step per action, that say what a step may do to one
variable; the lemmas on the parts of the invariant then speak of effects and no longer of actions.

### `Sums`: what the folds of the community modules promise

Balances, batches and history lines are sums over sets, and `SumFunctionOnSet` computes them by a fold in
an order that CHOOSE picks. The provers cannot use an induction theorem of the library (it takes an
operator as its parameter), so the laws of sums are proved by a smallest counterexample: the subsets of a
finite set for which a claim fails have, if there are any, a minimal member under inclusion
(`SmallestSubset`, from the well-founded subset ordering), and the claim holds for everything strictly
inside it. That gives existence and uniqueness of the fold's function, and from them that the order does
not matter: `SumWithout`, `SumWithOneMore`, `SumOfParts`, `SumChanged`, `SumOfGroups` and the bounds.

Its second half serves what is built place after place. A recursive function on `0..n` is a CHOOSE, and
has the value its equation says only if some function satisfies it: `GoesOn` builds one from any step,
`UpTo` is the induction that goes with it. `FlattenUnfolds`, `FlattenOfAppend` and `FlattenOfFirst` do
this for `FlattenSeq`; `LinedUp` puts a finite set whose members rank differently in one line, place by
place. The sorts of the code (batches by expiry, messages by time) are written as that line, because
the library's sort enumerates permutations and cannot be unfolded.

### `CreditTransactionsProofs`: any number of accounts, requests, top-ups and sweeps

Assumed: `UnitsAssumption` (holds, minimum, grants and packs are positive, costs natural),
`NamesAssumption` (names of different kinds differ). Proved: `TypeCorrectness` (with it, no balance is
ever negative), `BooksStayTrue` (every balance is the sum of its ledger rows), `HoldsCloseOnce`,
`ChargesStayWithinCost`, `DecidedWritesAreAccepted` and `Implementation`, the refinement of
`HoldLifecycle`.

`IInv` is needed because `ClosedOnce` holds only if a transaction about to write still sees what it
read, `ReadsAreFresh`; that is true because the account row is locked by whoever is in a transaction
about it, `LockHeld`; and what a request may still do is tied to the rows it has in the ledger,
`SessionsInRole` and `RowsInOrder`. `PostRows` says what an insert does to the rows of every reference
and is what the lemmas rest on. A step of the transactions is a step of the lifecycle or a stutter
because at most one row of a reference appears in it. The sum needs the ledger to stay finite
(`EntriesFinite`).

### `CreditLedgerProofs`: any generations, plans and packs, any number of batches

Assumed: `UnitsAssumption` (grants, holds and limits are positive, costs natural), `PaymentsAssumption`
(no payment is for a plan and a pack; finitely many generations). Proved: `LedgerInvariant`,
`BooksAlwaysAgree`, `RefundsRestore` and `UnitsMoveAsPromised`: the draw of a hold and that of an overrun
take what expires soonest first and permanent credits last, a surplus and a refund go back the other way
round, and the sweep takes only what is past its time. (What a surplus leaves a generation charged with
is another matter: `CreditLedger_permanent_first`.) And, of the trigger
itself, `LoopsMoveWhatIsSaid`: its loop over any finite set of batches, in any order of theirs, moves
what `Moved` says. Round by round, what the loop moved is what was asked or all that the batches visited
had; the batches not visited yet come after them in the order, and those with nothing change nothing.

`LedgerInv` adds to the invariants of the run what a generation's uses have to do with the state of its
hold (`HoldsMatchUses`: never more than it reserved, nothing once it is returned; without it a surplus
could find too little to give back and the trigger would refuse the row), that what the sweep has listed
was due (`DueArePast`: batches are listed in one statement and emptied in another), and that finitely
many payments were granted. `LoopMoves` says what a loop of the trigger moves of each batch, and the
rest of the module rests on it: each gives at most what it has, together they give what is asked or all
they have, and a batch gives only when those before it are empty.

### `GenerationRequestsProofs`: any number of requests and projects, runs of any length

Assumed: `TimesAssumption` (TTL and stale age are positive), `NamesAssumption`. `AnyRunInv` ties a lease
to a request that is still inside, with the expiry it was given (`LeaseHasHolder`), and a request that
has not reserved to an empty hold. Three invariants build on it: a request inside and younger than its
TTL has the lease (`InsideHasLease`; kept by another request's `Acquire`, because such a lease is in
force), a live run's hold is open until it is stale (`LiveHold`), and what a request ended with decides
how its hold is closed (`OutcomeIsCharged`). `LocksAreTheRequests` and `HoldsAreTheRequests` join the
results the run's properties join.

The film a request drafts (`FilmDraft`) is proved in the same module: `GateStaysTrue` and
`AnswersStayTrue`, for any media, compositions, timelines, tool calls and edits by people, and layers of
any statuses around a provider's error. Assumed is `FilmAssumption`: a composition names what it places,
pictures are no tracks, what is left out of a call is no file, and an error has at least one layer.
`FilmInv` ties the run's local variables to what is outside: a draft that is being saved went through
the gate with the tokens of its own request, and unless the call brought content it differs from what
was loaded (`DraftIsChecked`); a verdict of `validate_generation` is about the files as they are; and
while the project has the revision the run expects, its film is the one the run loaded
(`LoadedIsCurrent`). The last one is why it does not matter that the expected revision comes from the
client and may be old: revisions only grow, so the two are equal only if nothing came in between.

### `AgentRunProofs`: any number of runs, turns, tool calls at once, and editors

Assumed: `BoundsAssumption` (the bounds are natural numbers, a turn has finitely many calls, names
differ). `AgentInv` is `TypeOK`, `NoLostUpdate` and three parts: the revision a run loaded is one there
was when it began (`LoadedInTime`); whatever a run saved is the revision right after the one it loaded
(`SavesOnLoaded`), which is why two calls in flight cannot both save; and a call, a run or an answer
that says "saved" has its revision, its row of `generation_runs` and its reply (`SavedIsStored`).
`HistoryGrows`, `LocalSteps`, `CallMovesAsSaid` and `AnswerSteps` are the effects.

`ErrorsSaveNothing` has two hypotheses of its own: `OneCall` (the agent makes one call at a time) and
`MaxFailures = 0` (no statement fails). Both are needed: `AgentRun_gave_up_saved` breaks the property
with two calls at once, and a commit whose answer is lost makes the run believe it saved nothing.
`HoldsAndRuns` has the same property on an instance.

The player (`Playback`) is here too: `PlayerStaysTrue`, for any film, layers, speeds, eases, texts, listeners
and throttle. `PlaybackAssumption`: lengths are natural numbers and finitely many, frames and throttle
are positive, a tween has a scale of its own, a text is a sequence, and "not set" is none of the values.
`PlayerInv` has three parts. A listener is behind by no more than the clock since the last notification,
and a timeline runs on while nothing plays only at its end (`KnowInv`). What a layer shows is its override
(`ShowInv`); that a text put over spans is whole needs laws of `FlattenSeq`, argued by the longest prefix
on which two flattenings agree (`FlatIsUnique`, `TextIsWhole`). And the speed a tween was built with is
noted exactly while one of its layers has a speed (`SpeedInv`), which is why speeds never compound; and a
tween one of whose layers was edited runs with the speed and the ease shown for one and the same layer.

### `PaymentsProofs`: payments, terms, Bakong's answers, the life of the process

*`Payments`: any number of payments, members and polls, and failures at any moment.* Assumed:
`TimesAssumption` (times are natural numbers and a period is positive), `NamesAssumption`,
`NoneAssumption` (the absent value is no row). `PaymentsInv` is `TypeOK`, `PaidIsCredited` and: a row
that is not there has no past (`NoRowNoPast`); what a check was told is still so, and was asked at a time
no later than now (`ChecksToldTrue`, behind `MoneyIsHonoured`: a bank that said "not found" after the
grace period will never take the money); a check with the payment's row locked is alone and the payment
is PENDING (`RowLocks`, behind `SettledPaymentsStay`); how a payment ended agrees with the bank
(`EndsAgree`). `RowSteps`, `CreditSteps`, `BankSteps`, `CheckSteps`, `ShownSteps` and `OneMoves` are the
effects.

`PeriodsAddUp` has the further assumption that the workspace has a subscription row from the start
(`None \notin Subscriptions`), and an invariant of its own: of two activations only one holds that row,
and has what it says (`SubscriptionLock`). Without the assumption the theorem is false, and
`Payments_first_period` shows how.

*`CheckoutTerms`: any settings over any restarts, any buyers.* Assumed: `SettingsAssumption` (plans and
packs have integer prices and credits, ids of plans are no numbers). `TermsInv`: packs of one list differ
(`PacksDiffer`; the id of a pack is its credits, so a pack picked from an old list is another one only if
it grants something else), what a buyer picked stood in the list it came from (`PickedIsListed`), a row
is paid what it asks for or nothing (`RowsKeepTerms`), and every view a buyer got is of the row as it is
(`ViewsAreOfRows`). `CheckoutsKeepTheirTerms` follows: nothing of it looks at the settings of the moment.

*`BakongGateway`: any price and any fineness of amounts.* Assumed: `PriceAssumption` (a positive price,
amounts finer than half a cent). `GatewayInv`: an answer on its way is one the bank has given in the
state it is in now (`AnswersWereTold`, `LookupsTyped`); `RoundingIsExact` is the arithmetic of
`round(amount * 100)`: an amount within less than half a cent of the price is the price.

*`ServerLife`: any number of connections, passes and sweeps.* Assumed: `WorkersAssumption` (the kinds of
workers are disjoint). `ServerInv`: an interval is set only in a phase that wants it (`TimersFitPhase`),
past the connections nobody is left waiting (`NoneConnected`), and the reconciler's flag is up while a
pass is (`OnePass`).

### `ProjectProofs`: media, brand, chat, history, and the people of a project

*Media and Brand DNA: any files, calls and texts.* Assumed: `KindsAssumption` (a file is of one kind,
there is one at least), `NoFontAssumption`. `MediaInv` says of every call, at each of its awaits, what it
may still rely on (`Knows`), unless somebody wrote to its file since it looked: that is what the history
variable `stale` notes and what the theorems leave room for, "deleted by a request that did not see the
attachment". With it, what a call was sent fits the step it is at (`Sent`), and whoever writes an object
has no more than a part of a file under it (`PartsHaveWriters`). `FilesAreAlwaysThere` and
`WorkIsNeverTakenAway` follow.

*Chat: any texts, reports and prices.* Assumed: `CallsAssumption` (reports are pairs of integers, counts
of anything; bounds are numbers), `PricingAssumption`. `ChargesCoverCosts` is the arithmetic of
`priceUsage` with its two roundings, over `BillInv`. `TranscriptIsWhole` states `ChatIsWhole`. Of what
is stored: saves under way count as answers in the order of the transcript (`AnswersInOrder`), how far a
request got shows in it (`TurnShows`), and the row of its save is its own (`OwnRun`). Of what is sent: no
two rows carry one instant, those of saves under way included (`TimesDiffer`), so the window a request
read is the newest part of one line (`NewestAreRead`), and what is stored later is not older than it or
is an answer (`OlderThanWindow`). The rest is about any sequence of messages (`WindowIsSent`): joining
runs leaves turns that alternate and say the same texts in the same order, dropping the repeats at the
end and the replies at the front drops nothing else, and what is left ends with the user.

*Credit history: any entries, page size and amounts, commits in any order between two pages.* Assumed:
`HistoryAssumption` (finitely many entries, each of one kind; units are positive). The order of the list
is that of `TimeOf`, the newest row's time, then of ids (`InFrontIsBefore`, `BeforeIsAnOrder`).
`PageIsInFront`, `PageWithRoomIsAll` and `WhatFitsIsOnThePage` say what `order by ... limit` gives.
`HistoryInv` is that rows of an entry come in order, one under way at most (`RowsInOrder`), and that
nothing that was shown is after the cursor, while what has not changed was shown or is (`ReaderInv`): a
row that commits later can only move its entry to the front, whatever time it carries. That a quiet
history adds up to the balance is `SumOfGroups` twice, over the rows by entry and over the lines.

*Workspaces and sign-in: any number of people, teams, requests, logins and logouts.* Assumed:
`UsersAssumption` (somebody is there, no request is called like "no row", a person's own workspace is no
team), `NamesAssumption` of `SignIn`. Proved: `AccountsStayWhole`, `AnOwnerIsKept` and
`WhoIsRemovedStaysOut`, from `AccountsInv`: a login that provisions a person holds their users row and
what it found about their workspace is still so (`HoldsOwnRow`, `HomeIsNew`: the upsert makes logins of
one person take turns, and no request can touch a workspace that is not there yet); a flow is stored by
the login that made it and spent by one (`FlowInv`); the provider is told by the logout whose update
found the session (`LogoutInv`); and a decision to take an owner away, made by a request nobody has
overtaken, still leaves another owner (`EditInv`).

### `SwarmProofs`: any number of tables, runs, rows and sessions

Assumed: `LimitsAssumption` (a batch has room for a row, a run for a call) and `SwarmAssumption` (there
are rows and finitely many tables, names of tables and runs differ, a batch size is nothing, an integer,
or an integer for each row: it need not be positive, the code clamps it). `ResultsStayKept` is the run's
property; five of its parts are theorems too. For `RowFilter`: `FilterAssumption` (filters nest finitely
deep; those a run is given are filters), and nothing on rows, columns and values.

*Cutting rows.* `Lists(s, M)` says that a sequence has every member of `M` once; `CutsUp(units, M)` that
a sequence of non-empty batches does. `Within`, the code's filters and groups, is a function over the
places of a sequence and not the library's recursive `SelectSeq`, so it can be unfolded; what it takes,
in which places, is argued by the smallest place where a claim fails, like the sums. `ChunksCut` is the
arithmetic of `createBatches`; `FlattenCuts` puts the cuts of groups together: with a size for each row,
groups are told apart by their size and numbered by their first row. `BatchesCut` has the three cases of
`resolveBatchGroups`, and with automatic batching that there are no more calls than workers as long as
the rows fit in that many full batches (above that the code makes more, see section 5).

*Runs.* `WorkInv` says of a run that dispatches: its units cut up the matched rows but those no prompt
could be made for (`Dispatched`), which count as failed; what was answered was asked; and all workers are
at work or nothing is left to take, which is `WorkersGoOn`. At the end completed and failed rows add up
to the matched ones (`Accounted`).

*Tables.* `TablesInv` is about `create`: tables are numbered in the order they were made
(`TablesNumbered`, `TablesWritten`), and each table still on the list of a call that evicts has
`MAX_TABLES - 1` younger ones (`TablesEvicted`). The list is read once and files are emptied some awaits
later, so it needs that files of younger tables do not disappear in between except by becoming empty.

*Results.* `KeptInv` ties the three places a result is in: the run's array, the entry of the cache and
the file. An array and an entry belong to one table (`Owning`); while nothing saves a table that no two
calls met on, the cache holds what its file holds (`Synced`); and a run that is saving knows what the file
held and adds to it (`OnItsWay`: that is why the compare-and-edit succeeds and loses nothing). That two
calls met is the history variable `overlapped`; `Alone` and `Pending` are what its absence gives.
`CompletedIsKept` is not inductive without these, since a file is written from an array that was read
from the file some awaits, or a session, before.

*Filters.* `Nested[d]` are the filters at most `d` deep. That `evaluateFilter` and the opposite are the
functions their equations say is shown depth by depth (`EvaluateExists`, `OppositeExists`), and so is
that the opposite of a filter is one and fails exactly when the filter holds (`OppositeNests`,
`OppositeFails`); `OppositesShareTheRows` is the run's property. What `readColumn` returns does not
matter to it, only that the same value is compared.

### What is only model-checked

- Liveness (`EveryHoldIsClosed`, `PastDueBatchesEndEmpty`, `EveryTurnComes`, `EveryRunAnswers`,
  `PaymentsEnd`, `ServerGoesOn`, `LoginsEnd`): fairness and ENABLED are outside what the prover handles.

Every invariant and every action property of a passing run is also a theorem.

## 5. Where the code and its documentation part

Shown by a run (`PROJECT.json` "findings"):

- docs/api.md:183 "spends the credits that expire soonest first, then permanent credits": a surplus goes
  back to plan batches first (0020_credit_expiry.sql:76), so a generation can end charged to permanent
  credits while a plan credit it had drawn is back in its batch (`CreditLedger_permanent_first`: a plan
  batch of 2, permanent credits, a hold of 3, a cost of 1). Each row by itself keeps the order:
  `UnitsMoveInOrder`.
- The validation limit can answer "it was not saved" for a film that another call of the turn is saving
  (`AgentRun_gave_up_saved`; motify-agent.ts:235).
- The first two payments of a workspace, settled together, give one period for two: before the first
  one there is no subscription row to lock (`Payments_first_period`; docs/api.md:167).

Met while modelling, without a run of their own. The properties above are stated so that they say what
the code does keep in these cases.

Credits and payments:

- docs/api.md:264 says `permanent` credits never expire; plan credits past their expiry and not swept
  yet are shown among them, as balance and batches are two reads (`credit.service.ts:119`).
- docs/api.md:156,183 credit "the member who paid"; the code grants to the row's `createdBy`, also when
  another owner reused the checkout and paid it (`payment.repository.ts:57,79`).
- docs/api.md:150 says that asking again while a checkout is open returns it; two requests that overlap
  both find none (`payment.service.ts:189`).
- docs/api.md:156 says Bakong is asked at most once in 3 seconds per payment; the throttle is read
  before the call and written after it (`payment.service.ts:261`).
- The period of an open checkout is taken from the settings when it is settled, unlike its price and
  credits (`payment.service.ts:284`). billing-plans.ts:13 still says "Not granted yet".
- `simulatePayment` divides by 100 in any currency. `CREDIT_RESERVE` or `CREDIT_MIN_CHARGE` below 0.005
  pass validation and round to 0 units (`env.ts:49–51,193–194`); a reserve of 0 makes every request 402
  (`generation-billing.ts:96`).
- As many payments whose lookups always fail as a pass takes, or one row whose statements throw on every
  pass, keep the others from the reconciler (`payment.service.ts:245`); `EveryTurnComes` is about fewer.

Agents and projects:

- docs/credits.md:192 "REVISION_CONFLICT (nothing saved)", and the comment at motify-agent.ts:135–139:
  two finalize calls of one model turn can answer 409 for a film that the first of them saved, and the
  hold is given back.
- docs/api.md:237 calls `details.currentRevision` of a conflict "the revision to reload"; the agent
  answers the one it loaded when it began (`motify-agent.ts:361`).
- motify-agent.ts:211 says a turn "is rolled back"; the user's message stays in the chat.
- docs/api.md:211 and audio.service.ts:127–128: the soundtrack of a project accumulates over edits.
- `project-run-lock.ts:35` and `server.ts:192` say that no run is longer than 15 minutes; nothing ends
  one. `GenerationRequests` says what happens to it: another run may start beside it, and its film is
  free if the sweep came first. It never takes away the other's lease, and its hold is not closed twice.

Workspaces:

- workspace.service.ts:56 'The last workspace owner cannot be demoted.': two owners who demote each other
  at once leave none, and `addMember` overwrites the role of the last owner without counting.
  `FreshDecisionsKeepAnOwner` says what holds for decisions nobody overtook: it is the guard of one
  request after another, and would not notice these.

Assets (calls that race; `FilesAreThere` excepts the files one of them wrote on an old read):

- An attachment between the checks of `remove` and its update leaves a project that uses a deleted file
  (`asset.service.ts:152`).
- `complete` writes READY whatever the row has become since it was read: it brings back an asset that was
  deleted or failed meanwhile, and its file is gone (`asset.service.ts:113`).
- A second upload of the same file fails on the first's file and its handler removes that file, which the
  first may have been told is stored (`local-filesystem.ts:60`).

Swarm skill:

- Runs whose saves of one table overlap lose the later edit without notice, and every later save of that
  process (`table.ts:541`); `CompletedIsKept` excepts tables two calls met on. Automatic batching makes
  more calls than `maxSubagents` above 500 rows (`batching.ts:62`). Groups of failures leave out results
  that cannot be parsed (`types.ts:140`). A table evicted during a run makes its save throw. Equality of
  objects in filters depends on the order of keys (`filter.ts:5`).

Film runtime:

- A patch of a layer's speed alone gives its tweens the ease that is shown for the layer, `power3.inOut` if
  none was set, and takes the one each was built with away; what it was is noted and never read
  (`runtime.ts:113,117`). `TweensRunAsShown` has it so.

## 6. Not modelled

- Charging switched off (`enforced` false): no hold is taken and no state shared. A signup grant of 0
  (`SIGNUP_CREDITS=0`): accounts start with credits in every module that has them.
- `createForGraph`: every request of the service names a project. FAILED rows of `generation_runs` are in
  `AgentRun` and left out of `ChatTurns`, where nobody reads them.
- Prompts, references, skills' texts, evals, the content checks of compositions and the text of a QR:
  functions of text or content; the models take their verdict as any choice. `motify-runtime/reference`
  and `motify-references` are sample films, data to the program.
- HTTP, rate limits, request parsing (a 400 has no effect on state), configuration beyond plans, packs
  and the Bakong mode, logging.
- Membership that changes during a run: `overwriteForGraph` does not ask for it, and no document says
  what should happen.
- Titles, tags and the search of the audio library.
- Of the player: `destroy`, presets, listeners that call back into it, and text
  nodes beside the spans of a split text. After `restart()` overrides are not on show until the next
  frame; `OverridesShow` says so.

## 7. Plan

What is left, in this order:

1. Compositions: `GenerationRequests` with `AgentRun` for one request (what is answered, saved and
   charged), and `Payments` with `CreditLedger` through the grant row.
2. `HoldLifecycle` under `GenerationRequests` too, so that both refine the same life of a hold.
3. What `readColumn` returns for any path, as a property of its own.
