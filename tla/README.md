# A verification of the BBQ shipment agent

TLA+ specifications of `bbq_shipment_agent`, the TLC models that check them, and
theorems about them that TLAPS proves. Paths below are relative to the
repository; `review.py` alone means `src/bbq_shipment_agent/review.py`.

## 1. The system

A run plans how some twenty packets of frozen barbecue reach their recipients.
It reads recipients (B1), validates and repairs their addresses (B2, B3),
consolidates doorsteps (B4), enumerates configurations of box, gel packs, carrier
and ship date (C1, C2), drops those that arrive too warm (C3), finds the cheapest
plan that uses at most two carriers (C5) and turns it into a manifest (C6). An
operator then reviews the manifest, by hand or with a narrator, and approves or
rejects it (D2). Everything that was decided is appended to a ledger of JSONL
files (E). A web server runs the same pipeline on a worker thread and serves the
review to a browser.

| Part | State it keeps | Operations | Meets the others through | What is hard | What makes it correct |
|---|---|---|---|---|---|
| Solver and manifest (`planning/solve.py`, `planning/manifest.py`) | none | `shipment_options`, `solve_carriers`, `Solve.best`, `runners_up`, `assemble_manifest` | called by planning and by every edit | ties, subsets that strand someone, Saturdays | the greedy answer is the optimum; the manifest says what the plan does |
| Review session (`review.py`) | shipments, exclusions, the edit held back, history, the current plan, the end | `propose`, `confirm`, `discard`, `approve`, `reject` | solver, quoter, ledger; called by the routes, the command line, the narrator's tools | a candidate built at one moment and committed at another; an approval that fails between two appends | nobody lost, the gate holds, the record is the plan |
| Run service (`ui/service.py`) | the registry of jobs; per job its state, its controller, its LaunchDarkly client | `start`, the worker `_execute`, `_park_for_review`, `close`, `close_all` | worker thread, request threads, shutdown hook | two owners of one client; late writes of the state | one run at a time, one close per client |
| Review routes (`ui/app.py`) | the turn lock of a review | edit, confirm, discard, say, say-stream, approve, reject, abandon | session, narrator, controller | check before lock; a turn that outlives its request | one decision per run; every turn ends |
| Narrator and tools (`agents/narrator.py`, `agents/tools.py`) | the message list, the turns | `open`, `say`, the tool loop, the scope guard | session; a model behind a network | it edits what the operator also edits; suppression undoes words and not deeds | it cannot end a review; its loop ends |
| Ledger (`ledger/`) | four append-only files | `append`, `iter_records`, the view that folds a stream | appended to by the run, the session, the narrator, several processes | no lock; torn writes; cached numbers | the fold is the last word; nothing acknowledged is lost unnoticed |
| Quoting (`planning/rates.py`) | a cache on disk | `quote`, `pin_carriers` | every solve | retries, a pin, a cache that remembers an old pin | a plan is never priced against a short carrier set |
| Recipients (`recipients/`) | none | extraction, `validate_recipients`, `repair_addresses`, `dedupe_recipients` | validator, model, planning | answers that are missing, double or foreign | every input recipient ends in exactly one list |
| Planning (`plan.py`, `planning/remediation.py`) | the result of a run | `plan_run`, `_record_planning`, `remediate_all` | all of the above | shadow mode, a repair loop that fails half way | nothing is acted on that was only shadowed; the reason is recorded |
| Run setup (`run.py`, `capabilities.py`, `context.py`, `agent_configs.py`) | evaluated capabilities, agent configurations and their snapshot on disk, the run row | `initialize_run`, `write_snapshot`, `_evaluate`, `record_run_reasons` | LaunchDarkly, ledger, every agent | one JSON field rewritten whole by three writers; a cache that must not overrule an answer | one value per capability; a line's hash leads to its text; the row accounts for the run |
| Driver (`drive.py`) | the loop, its attempts | post a run, poll it, break off | HTTP routes of the service | a service that others use, runs that park | every wait ends; a due start is made |
| Physics and tables (`planning/thermal.py`, `lanes.py`, `catalog.py`, `load.py`, `configurations.py`) | none | the thermal gate, lanes, boxes | solver | real arithmetic | a configuration above 4.4 °C never passes |
| Command line, wiring, views | none of their own | argument handling, construction, the review loop, rendering | all | what is built when, and by whom closed | – |

`PROJECT.json` lists the hazards of this code at their lines, and for each the
properties that would notice it going wrong.

## 2. The modules

| Module | Models | Notes |
|---|---|---|
| `CarrierSolve` | C5 and C6, as operators | extended by the next two |
| `SolveEdits` | re-solving after exclusions and pins | holds the reference definition of an optimal plan |
| `ReviewSession` | `ReviewSession` and what it appends | uses `CarrierSolve` for every solve |
| `SlotLease` | what the service promises about running | abstract specification |
| `RunService` | `RunService`, `RunJob`, `ReviewController`, the review routes, narrator turns | implements `SlotLease` |
| `Ledger` | one stream: writers, file, fold | |
| `Conversation` | the narrator, its tools and its guard, over a review | extends `ReviewSession` |
| `Drive` | the driver, beside a browser, over the service | extends `RunService` |
| `RunLifecycle` | a run from A1 to its close: snapshot, capabilities, run row, invocation lines | |
| `RateQuoter` | `ShippoQuoter` and its cache file, for one lane over several runs | C2 and C4 are its callers |
| `Planning` | `plan_run` with B2, B3, B4 | what the solver answers is open |
| `CarrierSolveProofs`, `SolveEditsProofs` | theorems about the solver | the first is cited by the second and by the next |
| `ReviewProofs` | theorems about `ReviewSession` and `Conversation` | |
| `ServiceProofs` | theorems about `RunService` and `Drive` | |
| `LedgerProofs`, `RunLifecycleProofs`, `RateQuoterProofs`, `PlanningProofs` | theorems about the module of that name | |
| `MC...` | the instances TLC checks | |

A definition whose comment begins with *Fault* belongs to no specification. It
is a plausible mistake in the definition after it; put in that definition's
place it must make one property fail, which shows that the property is about the
code. `PROJECT.json` pairs them under `mutants`, and `map` names the source
lines of every definition.

### CarrierSolve and SolveEdits

An option keeps what the solver reads of an `EvaluatedConfiguration`: cost,
temperature, date, carrier, and one number for the rest of the sort key. Carriers
and dates are numbers in sorting order, costs whole numbers (the code adds floats
and rounds to cents). `min(candidates, key=_order)` becomes the least members
under one field after another, and so does the ranking of covering plans.
`first` and `last` spell the sorted tuple of carriers, which with the size decides
ties as Python's comparison of tuples does.

`SolveEdits` has one variable, the options of each shipment. Its initial states
are every assignment of small option sets to three shipments, so the properties
compare the solver with a search over all choices (`Choices`) on thousands of
inputs, and again after every exclusion and first pin.

### ReviewSession

| Code | Model |
|---|---|
| `_shipments`, each with `required_ship_date` | `shipments`, a function from keys to a date or `None` |
| `_excluded`, seeded with B4's suppressions | `excluded` |
| `_pending` | `pending`, empty or one record of edit and candidate |
| `history` | `history`, edits with their outcome |
| `solve`, `manifest` | `manifest` |
| `terminal` | `terminal` (`approved_with_exclusions` counts as approved) |
| the shipment rows and run records on disk | `ledger`, `runRecord` |

`propose` is three actions, one per outcome, with the same order of checks. An
edit that raises changes nothing and is no action. `confirm` commits the stored
candidate and looks at nothing else, as the code does. `approve` either completes
or breaks off after any number of its rows (`ApproveFails`). What C1 to C3 answer
for a shipment is the constant `Input`: within a session the quoter answers from
its cache and the thermal model is pure. The roster may pin a shipment to any
date (`Pinned`); an edit only to a candidate date (`ShipDates`).

### RunService and SlotLease

A job has its state, the place of its worker, its client and how often that was
closed. A request is a small program: admitted (`Check`), then the lock
(`Acquire`), then its action under the lock, then `Release`; the points between
which other threads run are the points where the code reads something shared and
writes something later. `propose` solves between reading the session and writing
it, so an edit takes two steps; so does an approval. A streamed turn is a second
thread (`voice`) whose request only drains its queue, and `Disconnect` is the
reader leaving. Of the session the module keeps whether an edit is pending and
how the review ended; `ReviewSession` has the rest.

`SlotLease` says: one holder, taken only when free, never by the same job twice.
`OneRunAtATime` is that specification under the mapping *holder = the jobs that
run or await review, served = the jobs ever started*.

### Conversation

`Conversation` is `ReviewSession` with a voice. A turn is `Open` or `Say`, any
number of tool calls up to the bound of the loop, and an end: `Answers` (the guard
passes or withholds the reply), `ModelGoes` (`ModelUnavailable`, after which the
front end has no narrator) or `TurnRaises`. A tool call is a step of the session
(`Propose`, `Confirm`) and appends its result to `messages` in the same step. The
operator acts between turns, and during a streamed turn whose reader has left.
Of the messages the module keeps those that report a change: the property about
forgetting is about them. The opening is not judged, and a guard with no client to
ask (`enforcing` false) judges nothing.

| Code | Model |
|---|---|
| `Narrator.messages` | `messages`, the tool results that report a change |
| `_say`'s loop variable, `before`, `turn.tools_called`, `on_delta` | the fields of `turn` |
| the narrator set to `None` by a front end | `narrator = "gone"` |
| the invocation line of a turn | a member of `lines` |
| – | `changes`, `shown`, `raised`: history, read by no action |

### Drive

`Drive` adds to `RunService` a driver and somebody at the browser. A refused start
(409) and a poll that finds the run going on change nothing but the time, so they
are no actions; what matters is that the loop is at `due` until a start is
accepted and at `watching` until its run stops. A run of depth `extract` never
parks. `LoseSight` is an answer that is not 200, which ends the wait while the run
may go on (`drive.py:537`); a start whose address names no run is not waited for at
all (`drive.py:525`). `Break` is a form the app would refuse and a server that is gone,
`Refused` any other answer that is neither a run nor a 409. What a
session draws at random is a choice. The jobs are divided: `DriverJobs` are those of
the driver's own runs, one after another, and `BrowserJobs` those of everybody else's.

### RunLifecycle

One run at a time on a snapshot that outlives it. `Fetch` is the whole of A1's
reading: every agent's config and every image's own, each from LaunchDarkly or, if
LaunchDarkly is silent, from the file, which is read once; then the tool contract.
`WriteSnapshot` merges what is usable into what is there and archives the
variations only images were served. `OpenRow` appends the row. From there each
stage appends what it appends: an evaluation before its value is used, a line
after the model was asked, the row's later versions. `BreaksOff` at any point is
an append that fails, anything else that raises, or the end of the process.

| Code | Model |
|---|---|
| the snapshot file, agent entries and `agent#variation` entries | `snapshot`, `archive`; `committed` is their history |
| `run.agent_configs`, `run.image_configs` | `run.agents`, `run.perImage` |
| `run._capabilities` | `run.values` |
| the folded run row: keys of `evaluation_reasons`, `cap_snapshot` | `row` |
| the streams `capability_evaluations`, `agent_invocations` | `evaluations`, `lines` |

### Ledger

A line is a record or garbage; the file may end in a torn tail. An append claims
a number (from the file, or from its writer's cache) and writes later. A write is
a single `O_APPEND` call, so lines do not mix, and an interrupted one leaves a
fragment, to which the next line is glued. `Folded` is DuckDB's `arg_max(f, seq)`
grouped by merge key: with equal numbers it may return any of them, so it is a
set. Each entity has one owner, the thread that carries its run; that is how the
program uses the ledger and it is an assumption of the model (`Owner`).

The number is not the per-file monotonic counter that `docs/design.md:489` calls
it: two writers that both read the file before either writes number their lines
alike (`ledger/writer.py:116`). The fold is right all the same as long as an entity
has one writer, which is what `FoldIsLatest` says.

### RateQuoter

An answer keeps how many services each carrier quoted and which carriers sent a
message that is worth a retry; the parcels are the variants of one box. `quote`
is `Recall` when the cache answers, else `Ask`, one `Fetch` per attempt, and `Keep`
or `Raise`; `pin_carriers` is the call that is made while `pinned` is empty. C2
enumerates the variants once; `Remediate` is C4 doing so again. The file is
written whole after every answer, and `Tear` is a crash in the middle of that; the
next start reads it as empty. Runs follow each other; two processes that share
the file at once are not modelled.

With the same boxes in every run the reference parcel of a lane stays the same, so
its first answer fixes the pin for as long as the file stands, and the check of a
cached answer against the pin (`rates.py:331`) never fails. That is why the first
answer matters: `pin_carriers` requires nobody, and an answer that stayed short
through all its retries is cached and pins the lane for good. The class documents
that the cache must be cleared by hand.

### Planning

A list of recipients is a set of records with a position. `id` tells entries of
the input apart, `key` is all the code has. `Init` takes a roster, whose keys
`load_roster` makes unique and whose people may be pinned to a date, or what B1
read off screenshots, where keys may repeat and nobody is pinned. B3 exists only
for a run with screenshots, as in `wiring.repair_model`. A reply of the agent is a
list of at most `MaxReply` proposals, with keys it was asked about or not; an
escalation, silence and a proposal the validator refuses end alike, as an entry of
`escalated`. The validator is a function, as its cache makes it within a run.
`Publish` leaves open whom C3 finds infeasible; `NoManifest` is the run that no
subset of carriers covers.

## 3. The runs

| Run | Instance | Bounds, and why they are enough |
|---|---|---|
| `solve` | 3 shipments, 3 carriers, 2 dates of which one a Saturday, a pool with ties | at most 2 options per shipment: three shipments with two carriers each already make every way of needing, tying and stranding under a cap of two |
| `review` | 5 recipients, 3 carriers, 3 edits | three edits are the least that hold one back, overtake it and act after; two shipments fix the carriers, two can move them, one starts outside the plan |
| `review_once` | the same | a violation, see below |
| `service` | 1 job, 2 requests, 1 tool call a turn, fairness | the hazards are between two requests, or a request and the worker |
| `abandoned` | as `service`, without fairness | a violation, see below |
| `conversation` | 3 recipients, 3 carriers, 2 edits, 2 turns of 2 tool calls | the opening, which is not judged, and a turn that is; an edit to hold back and a call to confirm it; one shipment whose pin leaves no plan |
| `drive` | 2 driven runs and 1 of the browser's, 1 request, which abandons; a session that waits and one that does not; fairness | a second start is behind the driver's own run, watched, lost sight of or parked, or behind the browser's, before it or after it |
| `ledger` | 2 appenders, 2 entities, 1 field, 2 values, 4 lines | two stale claims and two later lines of one entity |
| `quoter` | 2 carriers, 2 parcels, 8 answers, 2 attempts, 3 runs, fairness | one attempt to fall short and one to make good; a run that fills the file, one that finds it torn, one that finds it full |
| `quoter_raises` | 2 runs | a violation, see below |
| `lifecycle` | 4 texts of 2 variations, one with a tool Python lacks, 2 images, any number of runs | two texts of one variation for an edit in the console, two variations for the archive, two images to be served one each; a second run reads what the first left |
| `planning` | 3 people, 4 addresses of 3 doorsteps, 2 dates, replies of 2 | three rows are the least that put a pin before, after and against another at one doorstep; two records of one key beside a third |

What the passing runs show:

* `solve`: the greedy solver has a plan exactly when one exists and none is
  cheaper; the winner uses all its carriers; the Saturday flag names a real
  Saturday shipment; runners-up are other plans; pins never cheapen, exclusions
  never make dearer.
* `review`: `NoRecipientLost`, `GateHolds`, `CarriersMoveByConsent`,
  `HistoryExplainsThePlan` through edits held back, overtaken and confirmed late;
  `LedgerHoldsThePlan`, `ApprovalIsComplete` through approvals that broke off;
  `EndIsFinal` although `confirm` does not ask whether the review has ended.
* `service`: one decision per run, one close per client, a review on offer keeps
  its client, what is shown is what is recorded, and, under fairness, every lock
  is freed and every finished run's client is closed.
* `conversation`: every change a tool made is named by the ledger line of its turn,
  also when the reply was withheld or the model went away; a withheld reply was
  never on the screen; the model forgets only what was withheld or lost with a turn
  that raised.
* `drive`: the service implements the lease, with starts from two sides, of which one
  may have lost sight of its own run; under fairness every wait of the driver ends, and
  a start that is due is made provided parked reviews are ended by somebody and others
  stop starting runs at some time. In an instance they always do, for `BrowserJobs` is
  finite; the premise is there because the code gives the driver no turn of its own.
  With one request two admitted decisions never meet in this run: `service` checks
  what they leave behind, and `ImplementsLease` that they never retake the slot.
* `lifecycle`: every invocation ran on a text that is or was in the committed file,
  up to two exceptions (`WithoutAnEntry`, below); an agent switched off in the
  console is not revived by a cache; the row accounts for the run wherever it broke
  off; no run takes another's fallback.
* `ledger`: the fold is the last word on a field, and an acknowledged line is in
  every log that can be read.
* `quoter`: what planning reads of a variant has every pinned carrier, C4 is told
  what C2 was told, a run that got through makes the next one free, and rate
  limiting is never a hang.
* `planning`: every key of the input is on the manifest and every entry on one
  list of it (but for the finding below); a doorstep keeps a parcel per pinned
  date and nobody is folded onto a parcel that does not suit; every address that
  ships was returned by the validator; the result and the manifest agree on who
  needs a human, and a shadow run ships what a run without an agent ships.

No run lists a type invariant: those of `RunService`, `Ledger`, `RateQuoter`,
`Planning` and `RunLifecycle` are theorems. Deadlock is not checked in any run,
because every one of these systems may stop: a review after its end and its
bound of edits, a conversation over it, a service after its shutdown, a ledger at its bound of lines or
with a log no one has repaired.

### What the code does not do as documented

The first three are runs that TLC must find violated, with the trace as the account.

* `review_once` (`review.py:428`). Hold an edit back, exclude someone with an
  edit that is applied at once, then confirm: the stored candidate predates the
  exclusion, so the excluded shipment is in the plan again and still on the
  excluded list. `planning/manifest.py:202` says every recipient appears in
  exactly one.
* `abandoned` (`ui/app.py:340`). A request reads the job's state before it takes
  the turn lock. An abandon that was admitted while an approval was at work acts once
  the approval is over, and the approved run stays shown as abandoned, which
  `ui/service.py:108` defines as *nothing recorded*. The property asks only when the
  lock is free, so that a decision between its record and the job's state is not taken
  for the bug. A rejection can be overtaken in the same way.
* `quoter_raises` (`planning/rates.py:339`). The loop stops at an answer with every
  pinned carrier, but what it returns is the attempt with the most quotes, and on
  a tie the earliest. An earlier, rate-limited attempt with as many quotes and
  without a pinned carrier wins, and the run stops with `QuotingUnavailable`
  although the last answer had everything; `rates.py:251` says to raise if it
  *cannot*.

The next two are stated as properties that no run lists; naming one as an INVARIANT
of the configuration gives the trace.

* `NoInterleavedTurns`, in `MCRunService.cfg` (`ui/app.py:439`). When the reader of a
  streamed turn leaves, the generator frees the lock while the turn's thread is still
  at work, so turns do overlap; the comment at `ui/app.py:392` says they do not.
* `RepairReturnsEveryone`, in `MCPlanning.cfg` (`recipients/repair.py:311`). Records are
  kept by key, and B1 does not make keys unique. Of two records with one key that
  both need repair the first comes back neither repaired nor escalated, and with
  `planner-mode` on it is on no list of the manifest; the docstring of
  `repair_addresses` promises one of the two. `EachEntryOnOneList` names this as its
  one exception. Its key is accounted for all the same, so D1's check by keys passes.

The others were met while modelling. The models behave as the code does, and the
properties are stated so as to hold of it.

* `review.py:589-613`. `_close` writes `evaluation_reasons` from the run alone, so what
  planning put there (the screenshots read, why B3 was unavailable, who was
  consolidated) is gone from the folded row; `run.py:386` says a later append has to
  merge. `TheRowIsExplained` therefore claims A1's part only.
* `wiring.py:447-450` says the names of the screenshots go on the run record at A1;
  the row A1 appends lacks them, so a run that breaks off in B1 leaves lines
  whose image no row names.
* `agent_configs.py:485-491`, `run.py:353`. The two exceptions of `HashesResolve`. If no
  run-wide config was usable nothing is written, although images may have been
  served one each; and a variation whose text is edited between two fetches of one
  A1 is in the file with one text and on a line with the other.
* `narrator.py:317`. *One ledger line per operator turn*, but a turn that raises
  anything but `ModelUnavailable` leaves none. `ToolsAreTraced` excepts it.
* `tools.py:331`. Proposing and confirming are two tools so that a model cannot
  apply a run-wide change on its own; it is offered both and may call one after
  the other. What can be said is that the ledger tells who did it.
* `planning/solve.py:130-136`. The docstring of `carriers_used` says that *a subset can
  win while using fewer than it contains*, and a test is named for it
  (`tests/test_solve.py:282`, which asserts only that no more are used).
  `BestUsesAllItsCarriers` says the opposite, and holds: the subset without the idle
  carrier has the same rows at the same cost, and the size in the ranking key puts
  it first. Only a plan that loses can hold an idle carrier, so the two names a manifest
  could take its carriers from never differ.
* `drive.py:521`. Waiting for a run is called the only way the next start is not
  refused; a run that parks ends the wait and keeps the slot. Nor is a start that is
  due ever certain: the loop polls, and a browser that starts a run between any two
  polls keeps it waiting for good. Both are premises of `DueStartsAreMade`.

### Fairness

Safety runs have none. `drive` adds to what `service` assumes that the driver's loop
goes on, by polling, posting or giving up; losing sight of a run, an unexpected answer
and the interrupt are left free, so no wait ends by them. The premises about parked
reviews and other starts are part of the property, not of the specification. `quoter` assumes weak fairness of a run's steps: it is one
thread, and each call to the service returns or raises. `service` assumes weak fairness of each worker, of each
admitted request and of each narrator turn: they are threads the operating system
runs, none waits for a lock (the turn lock is tried, never waited for), and the
calls they block on have time limits or fail. Nothing is assumed of operators, of
readers of a stream or of the shutdown. A response's generator is assumed to be
started once its thread is.

## 4. The theorems

TLC checks the instances above; these hold for every value of the constants.

* `CarrierSolveProofs`: `OneRanksFirst`, for any finite set of shipments and any options:
  of the covering plans of a run the ranking leaves exactly one. Of a shipment's options
  no such thing is claimed: the model's option has the fields of the sort key and no
  other, so that two options the code's key does not tell apart are one to it. The lemmas
  before it say what the solver's operators
  return. A cost is a sum, defined by recursion on the set of shipments, so its facts
  (it is a number, it falls with its terms, taking one shipment out takes its cost out)
  need induction. `SubsetInduction` states it without a predicate: a family that
  contains every subset of a finite set whose proper subsets it contains has them all,
  because a counterexample of least cardinality would have none below it. `BestIs` (the
  best plan covers, and no covering plan ranks before it) and `ChoiceBeaten` (the plan
  of the carriers a choice uses costs no more than the choice) carry the rest.
* `SolveEditsProofs`: `Typing`, `SolverIsOptimal`, `NoIdleCarrier`, `SaturdayFlagIsTrue`,
  `RunnersUpDiffer`, `EditsAreMonotonic`: all five properties of the run `solve`, for
  any finite run. The greedy choice is optimal because each shipment takes its cheapest
  option of a subset by itself, and every choice within the cap is a choice of the
  subset it uses. The best plan uses all its carriers because the plan of those it uses
  has the same rows, and fewer carriers rank first. An edit is monotonic because the
  plans of the run it leaves are plans of the run it meets, or lack one row.
* `ServiceProofs`, on `RunService`: `TypeCorrect`, `NeverClosedTwice`, `DecidedOnce`,
  `OfferHasItsClient`, `PageShowsTheDecision`, `ImplementsLease`. None of the properties
  is inductive. The invariant `IInv` adds who owns a client at each place of the worker
  (so that two closers cannot both reach it), that a request that acts holds the turn
  lock of its job and that a job's state follows its worker. The two about what
  the page shows need `OfferInv` beside it: the lock is held by a request of that job
  which is inside; a worker or a request about to close a client has written an ended
  state first; and a closed client or a recorded end whose job is not yet over is
  that of the lock's holder, one step from writing it. `WorkerFits` makes the
  worker's late writes harmless to it. The refinement follows step by step: `Start` is
  `Take`, a write of an ended state is `GiveUp` or a stutter, everything else a stutter.
* `ServiceProofs`, on `Drive`: `DriveIsTheService`, `DrivenSlotIsALease`,
  `VerdictsAreFinal`. A driven service is a behaviour of `RunService`, so what is proved
  of that holds of it, the lease for one. `VerdictsStand`,
  which no run lists, says that a run reported as failed or finished stays so: it
  never had a review, hence no request is about it.
* `LedgerProofs`: `TypeCorrect`, `FoldIsFaithful`, `NothingLostInSilence`. The
  numbers of one owner's lines rise with their position although the file's do not,
  and a writer's next number is above all of its own; that is the invariant
  `arg_max` needs. An acknowledged line that is not in the file was glued to a
  fragment, and then the file has garbage or a torn tail and cannot be read.
* `ReviewProofs`, on the edits: `NobodyLost`, `GateIsFinal`, `HistoryIsComplete`,
  `EndStands`, for reviews of any length. The invariant `IInv` speaks of the candidate
  held back as well as of the shipments: whom it lacks is excluded by now or is the
  one its own edit takes out; its pins passed the gate; its edits are in the
  history; and nothing is held back once a review is approved.
* `ReviewProofs`, on the plan: `ReviewTypes`, `LedgerIsThePlan`, `NobodyIsLeftOut`,
  `OnlyConsentMoves`. `PlanInv` says that the manifest on show is the solve of the
  shipments and exclusions of this moment, through edits held back, overtaken and
  confirmed late, and that an open review has no record. With what the solver returns
  (`SolvedFacts`) the rest follows: the record's cost is the sum of the rows an approval
  wrote, whatever an earlier one left; the rows are everyone in the run whom somebody
  can carry; and an edit applied at once was compared with the carriers the session
  really uses, which is why it cannot move them.
* `ReviewProofs`, on the conversation: `ConversationIsAReview`, `VoiceLosesNobody`,
  `VoiceNeedsConsent`, `EveryToolIsTraced`,
  `WithheldIsUnseen`, `OnlyWithheldIsForgotten`, for any number of turns and tool
  calls. The first says that a conversation is a behaviour of `ReviewSession`, so that
  module's theorems hold of it; the next two are instances. `VoiceInv` orders
  the turns: no change, line or reply is of a turn that has not begun, the turn in
  progress has no line yet and holds the names of the tools it called, only a turn
  that cannot be withheld is streamed, and whatever is in `messages` beyond the
  turn's start is of the turn, which is why cutting there forgets nothing else.
* `RunLifecycleProofs`: `LifecycleTypes`, `RowExplains`, `OffStaysOff`, `FallbackStays`,
  `HashesJoin`, for any texts, variations, images and consoles. `RowInv` ties the
  place of the run to what is known and recorded there (each capability asked for in
  its turn, the row opened before the first line); `ConfigsAreSound` says that what A1
  captured was served or cached for want of an answer; `TextInv` that the file's
  entries and what A1 captured are committed once the row is open. The step that
  needs an argument is the archive: of the images with one variation the last has the
  entry, and it exists (`LastImage`).
* `RateQuoterProofs`: `QuoterTypes`, `PinIsHonoured`, `AnswersAreStable`,
  `RerunsAreFree`, for any carriers, parcels, answers and number of attempts. The
  invariant ties three memories together: the pin is the carriers of the cached
  reference parcel, what the run was told is what is cached, and what is cached
  covers the pin. So nothing is fetched twice, and a file that a finished run left
  answers every question of the next.
* `PlanningProofs`: `PlanningTypes`, `NobodyUnaccounted`, `ResultMatchesManifest`,
  `AddressesAreChecked`, `OneListEach`, `EachPinShips`, `FoldsHaveParcels`, for any
  list of people, any verdicts and replies of any length. `IInv` follows the keys from
  stage to stage; the steps that need an argument are B3's, where an original must
  exist for every key that is escalated (`OriginalExists`), and B4's, where the holder
  of a slot must be a record at the same doorstep (`HolderHolds`). The last three
  theorems are about entries, of which two may share a key, and need a second
  invariant beside it, `EntryInv`: no two eligible records are of one entry, none is
  also escalated, every entry is one or the other unless a repair by key took it for
  another, and what ships are the holders. B3 keeps it because a key is adjudicated
  once (`RepairApart`), B4 because a holder holds its slot for itself.

Assumptions are those the modules name (`SolveAssumption`, `EditsAssumption`,
`ReviewAssumption`, `ServiceAssumption`, `LedgerAssumption`, `QuoterAssumption`,
`PlanningAssumption`, `ConversationAssumption`, `DriveAssumption`,
`LifecycleAssumption`). They say that constants are of their kind, that a run has
finitely many shipments (a sum over infinitely many means nothing), and that `None`
is none of the values it is told apart from, plans and manifests included.

Only model-checked: the five liveness properties (`TurnLockIsFreed`,
`EndedRunReleasesItsClient`, `RunEnds`, `WaitsEnd`, `DueStartsAreMade`), which TLAPS
does not reach. Every other property of a passing run is a theorem.

## 5. What is not modelled

Text and rendering, the DuckDB load, rate arithmetic and physics are outside by
their nature; see `components` in `PROJECT.json` for every part and the reason. The
LaunchDarkly and model calls appear only through their outcomes. The process dying
is modelled for the ledger, the snapshot and a run; the service keeps nothing across
a restart, by design.

Inside the parts that are modelled these are left out: the exchange with a model in
B1 and B3 (only its result and its line are kept), the lines of the guard's judge,
the event log of a job and the stream that reads it, uploads and pages, the
argument parser and the printing of the command line, the recorded doubles of
quoter, validator and model.

Three hazards have no property. A response's generator that the framework never
starts would keep a turn lock for good (`ui/app.py:421`); the code cannot see that. A
run that parks just after `close_all` is not closed (`ui/service.py:277`); the process
ends. A reference quote that stayed short of carriers pins its lane until somebody
clears the cache (`planning/rates.py:485`); that is documented.

## 6. The plan

What is left, in the order in which it matters.

1. `approve` in `ReviewSession` split into its appends, under `RunService`'s turn that
   a reader left running: the record's cost and carriers against its rows.
2. `Extraction`: B1's loop over images with its nudge and retry, and the repair agent's
   loop under its budget; both hand over to `Planning` and leave lines that
   `RunLifecycle` has.
3. Theorems: an abstract specification of the ledger (a set of acknowledged facts, read
   whole or refused) that `Ledger` is proved to implement; types of `Conversation` and
   `Drive`.
4. Two processes on one quote cache and one snapshot file.
