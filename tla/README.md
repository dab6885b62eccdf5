# Vault Voice: a formal model of the call, the booking and what follows it

TLA+ models of the voice agent, from a caller's words to the quarterly figure, checked
with TLC on small instances; all of the safety but two properties is proved with TLAPS for
every value of the constants. Every definition is translated
from the TypeScript (and one SQL migration) under `src/`; `PROJECT.json` maps each to the
lines it models and lists the runs, a mutant for each property, the hazards and the
theorems.

## 1. The system

A caller talks to the agent. The *runtime* drives a pure *state machine* with what the
classifier, the extractor and the validators make of each turn. A call ends in a pending
booking, a hand-off to a human, or nothing. The control plane commits a pending booking
to the contractor's CRM with a *saga*, and an hourly cron re-reads each committed job
after 24 hours, 72 hours and 7 days to measure whether the contractor had to correct it.
Nightly jobs triage those corrections and sweep old recordings and transcripts; on the
15th after each quarter a figure is published, once.

| Component | State it keeps | Operations | Interacts with | What is hard |
|---|---|---|---|---|
| Slot book (`conversation/slot-book.ts`, `contracts/slots.ts`) | per slot: value, confidence, verdict, confirmed | fill, confirm, unconfirm | the machine | a confirmation that outlives its value |
| Call machine (`conversation/machine.ts`, `contracts/states.ts`) | state, slots, failures per slot, escalation, outcome | `transition` on 9 events, `advance`, `nextPrompt` | returns effects to the runtime | slots in any order, a hazard at any point, retry limits, guards |
| Call runtime (`runtime/runtime.ts`, `booking.ts`) | machine context, `expecting`, `done`, recorder flag, FAQ budget | start, hear, hearPartial, requestHuman, callerHungUp; performs effects | voice session, extractor, validators, recorder, booking sink | several entry points in flight, state read before an await and used after |
| Emergency classifier, card redaction, yes and question (`safety/`, `compliance/pci.ts`) | none | pure functions of the words | runtime, before any model | a mishearing, a worse hazard beside, a yes inside a no |
| Extraction, FAQ, triage models (`extraction/`, `faq/`, `triage/`, `groq/`, `anthropic/`) | the FAQ index | one call to a vendor, its reply judged | runtime, triage | outage, refusal, defect of ours and silence look alike |
| Validators (`validators/`, `runtime/validate.ts`) | none | phone, address, window | runtime, geocoder | boundaries, changes of clocks |
| Utterances (`utterance/`) | none | a line for each effect | runtime | that only the catalog and committed answers are spoken |
| Recording decision, consent, DPA (`compliance/`) | none | pure decision | runtime | the stricter of two jurisdictions |
| Booking saga (`workflows/saga.ts`, `booking.ts`) | journal, compensations, attempts | commit steps, retry, rollback, text | CRM adapter, journal, SMS | lost answers, crash and re-run, partial rollback |
| CRM adapters (`crm/housecall.ts`, `jobber.ts`, `snapshot.ts`) | none (the vendor's records) | upsert, locate, create, revoke, read | the vendor's HTTP API | timeouts that acted, failures inside a 200 |
| Outcome poller (`workflows/poller.ts`, `outcomes.ts`, `db/stores.ts`, the cron route) | `completed_polls`, observations | batch, due test, observe, diff, record | CRM adapter, one DB transaction | batch limit, failures inside one transaction, respelled fields |
| Triage and labels (`workflows/triage.ts`, `contracts/booking.ts`) | labels on observations | classify, audit sample, human label | poller's rows, a model | which observation counts, rows that are always declined |
| Publication (`workflows/publication.ts`, `telemetry/publication.ts`, migration 0004) | append-only ledger | cohort, gates, publish | DB, metrics | publish once, never select, SQL and TypeScript alike |
| Metrics and invoices (`telemetry/metrics.ts`, `billing/invoice.ts`) | none | pure functions | labels, turns | one booking judged in three places |
| Retention and archive (`workflows/retention.ts`, `compliance/archive.ts`) | call rows, the carrier's media | nightly sweep | DB, the carrier | two systems, no common transaction |
| Tenancy and schema (`db/`), dashboard, agent worker, evaluation harness | tables | I/O | all | third-party code, row-level security |

What makes each correct:

- *Slot book and machine*: nothing is booked that the caller did not agree to or a
  validator rejected; the call stands in a state that lacks something and goes past none
  that does; it ends once, consistently; a hazard excludes a booking; failures reach a
  human in time; the caller is never left in silence.
- *Runtime*: no tape without consent or before the notice is due; what the next turn is
  taken to answer is what was asked; one ending, carried through to `finish()`.
- *The words of a turn*: the worst hazard stated is acted on; a card number that stands by
  itself is not kept; nothing is said of the business that its owner did not write; nobody
  but the caller is charged with the caller's silence.
- *Saga*: no write twice; no text without a job; a rollback undoes what this booking
  recorded and nothing else; a commit is final; every booking is settled.
- *Poller*: a poll is consumed only by a look made when it was due, up to one look for
  each overlap of two invocations; every poll is made in the end, and what it reports is
  what the contractor changed.
- *Reporting*: the published figure, the dashboard and the invoice agree on each
  booking; every failure counts against the agent; a figure is neither chosen nor redone.
- *Retention*: a tombstone is true, nothing goes early, everything goes in the end, and
  the figures stay.

## 2. The modules

| Module | Models | Extends |
|---|---|---|
| `SlotBook` | the book's operations over a function from slots to entries | |
| `CallMachine` | `transition()`: one operator per event, `Advance`, `NextPrompt` | `SlotBook` |
| `CallLifecycle` | abstract: a call is live, perhaps interrupted once, and ends once; implemented by `Conversation` and `CallRuntime` | |
| `Conversation` | any stream of events delivered to the machine | `CallMachine` |
| `CallMachineProofs` | lemmas: what each event makes of any context, for the three modules of theorems that follow a call | `CallMachine`, `TLAPS` |
| `ConversationProofs` | theorems of `Conversation` | `Conversation`, `CallMachineProofs` |
| `RecordingRules` | consent of both ends, the addendum, the mode of recording | |
| `CallRuntime` | the runtime's tasks, awaits and effects around the machine | `CallMachine`, `RecordingRules` |
| `CallRuntimeProofs` | theorems of `CallRuntime` | `CallRuntime`, `CallMachineProofs` |
| `Speech` | a yes, a question, a card number | |
| `Hazards` | the emergency classifier with the code's lexicon | `Speech` |
| `Utterances` | the line spoken for an effect | `CallMachine`, `Hazards` |
| `Validators` | phone, address, window | `Speech` |
| `ModelCalls` | what a reply of Anthropic's or Groq's is taken for, at three call sites | |
| `Dialogue` | one call, turn by turn, from words to words | `Utterances`, `ModelCalls`, `Validators` |
| `DialogueProofs` | theorems of `Dialogue` | `Dialogue`, `CallMachineProofs` |
| `CrmWire` | the verdict on an answer of either CRM | |
| `BookingPromise` | abstract: the job, then the text, then a commit that is final | |
| `BookingSaga` | `commitBooking()`, `Saga` and an adapter's writes; implements `BookingPromise` | `CrmWire` |
| `BookingSagaProofs` | theorems of `BookingSaga` | `BookingSaga`, `TLAPS` |
| `CrmJobs` | a job in either CRM, changed there, read back and diffed | `CrmWire` |
| `OutcomePoller` | the cron route, `runOutcomePolls()` and its stores | |
| `OutcomeProofs` | theorems of `OutcomePoller` and of `CrmJobs` | both, `TLAPS` |
| `OutcomeLabels` | which observation and label count; the cohort in SQL, the figures, the invoice | |
| `Reporting` | polls, triage, audit and publication over the same rows | `OutcomeLabels`, `ModelCalls` |
| `ReportingProofs` | theorems of `Reporting` | `Reporting`, `TLAPS` |
| `TurnMetrics` | the figures defined on calls and turns, and their budgets | |
| `Retention` | the nightly sweep, the carrier and the call rows | `TurnMetrics` |
| `RetentionProofs` | theorems of `Retention` | `Retention`, `TLAPS` |
| `MC*` | constants for TLC | |

The same machine operators are used by `Conversation`, `CallRuntime` and `Dialogue`: the
theorems are about the machine under any stream of events, and both others change the
context through `Transition` alone. `CallRuntime` has the interleavings and takes what was
heard as given; `Dialogue` has what was heard and handles one turn at a time. What
`CallMachineProofs` says of an event it says of any context and any event of the code, so
the three modules of theorems share it; `Conversation` and `CallRuntime` both implement
`CallLifecycle`.

### How state and actions correspond to the code

*The machine.* `ctx` is `MachineContext`. Each event of `MachineEvent` is an operator of
`CallMachine` that returns the context and effects `applyEvent()` would, or rejects;
`Transition` then applies `Advance` and appends the prompt, as `transition()` does.
`Advance` is the code's loop unrolled: `Step` is one iteration, and their number is bounded
by the number of states. A value is a member of a small set, `Garbled` one that the slot's
schema rejects; confidence is whether it reaches the threshold (`sure`).

*The runtime.* Each call of an entry point is a task, and an action is the code between
two awaits. `frames[t]` is what the task waits for. A transition returns at most one
effect (`OneThingToSay`, proved in `ConversationProofs`), so one frame is enough.
Rendering and speaking a line are one await, as are extraction and validation. The pair of
parties is chosen at the start and `RecordingDecision` settles the mode. `offered` (the
value last said to be confirmed) and `overlapped` (a turn has begun while another was in
flight) are observers. `BargesAgain` says whether the caller may talk over the agent a
second time; the first time is always possible.

*The dialogue.* `turn` is the turn being handled: what was said, what the process holds of
it, and the step `hear()` is at. Each model call answers with any reply of the instance:
an object, or one of the failures of the vendor. Texts are strings, read by `Words` as the
code's tokenizers read them; a slot's values are records with a field of their own. A tuple
in `spoken` is a sentence of the catalog with what it is filled with. `Held`, `HazardIn`,
`YesIn` and `QuestionIn` are what our own code reads in a text, as the entry points do.

*The saga.* `at[b]` is the awaited call of the worker of booking `b`: finding the
customer, the request of a step, its journal record, or the rollback. `Deliveries` are
the pairs of what the vendor did and what came back; `CrmWire` gives the adapter's verdict,
and the journal may reject a write or a read: `journal.completed()` is awaited inside
`commitBooking()`'s `try`, so a read that rejects undoes the booking with the compensations
registered so far. `unread` observes which bookings are undone for that reason, and
`BookingPromise` has it as `forgotten`. `Rerun` is a crash at any await, or an operator's
retry, followed by `commitBooking()` from the top with the same journal. Compensations are
rebuilt by replaying the journal, as in the code. All bookings share one phone number, the
only way two of them can meet in the CRM.

*A job read back.* A slot is the set of the parts a vendor stores it in, each labelled by
its field, so that a part that is cut short or omitted is one less in the set. A field of a
job means what we sent or what the contractor put there, and is spelled our way or the
vendor's; it may also be omitted. `readJob()`, `jobStatus()`, `normalize()` and
`diffBooking()` act on those three.

*The crons.* An invocation of the poller or of the sweep holds one transaction from its
query to its end: its writes appear at `Return`, an update waits for a row another
invocation has updated, a rejected statement aborts the rest and frees its rows, and
`Dies` rolls back. The poller has any number of invocations in flight: `completed_polls`
is incremented relative to what the row then holds, and `overtaken` observes how often it
had moved since the invocation read it. An observation is the day of its look. A batch is
the set of rows it still has to take, taken oldest first; rows of the same age come in any
order, and any of them may miss the limit, as `ORDER BY` leaves it open. What the carrier
deleted stays deleted. Triage reads, judges and labels in one step of `Reporting`, since
its transaction touches one column that nothing else writes.

### Abstractions, and what is external

- Vendors are external: a CRM answers a repeated idempotency key (`X-Request-Id` at
  Jobber) as before, and refuses a write that names a customer it does not have; models
  and the geocoder may answer anything of their kind.
- Wording, tracing, logging, prompts, token counts, backoff lengths, payload layout and the
  slot book's revision counter are left out. Text is in lower case and without accents.
- The polygon test of the service area is a set of addresses; the embedding of the FAQ a
  table of similarities; the audit's hash a set of bookings; the area codes a parameter.
- Rates are pairs of counts, never fractions; the price of a booking is one.
- `Readings`, `Elusive`, `Tasks`, `BargesAgain`, `MaxRuns`, `MaxTouches`, `Days`,
  `MaxDay`, `FirstMonth` and `LastMonth` bound inputs. `MaxAttempts`, `MaxFaqAnswers`, the
  batch limits (`Limits`, of which an invocation of the poller takes any), the gates and
  the retention windows are constants of the code with smaller values.

## 3. The runs

Deadlock is not checked where a system may rightly stop: a call that is over, bookings
that are settled, a calendar at its last day. `Conversation` never stops (a call that is
over keeps rejecting events), so deadlock is checked there.

| Run | Bounds | What it shows |
|---|---|---|
| `Conversation_events` | two values, one outside the area; a name heard well, badly or garbled, refused by a validator, or not found; an address that is corrected; failure limit 2 | `BookedAsAgreed`, `EndingIsConsistent`, `HazardNeverBooks`, `NeitherShortNorPast`, `FailuresBelowLimit`, `OneThingToSay`, types; the refinement `ImplementsLifecycle` |
| `CallRuntime_turns` | three tasks, six pairs of parties, one FAQ answer, a phone and an address that are corrected, failure limit 2, any line may be silent where the code allows it, the control plane may refuse, one barge-in; symmetric tasks | `NoticeBeforeTape`; `ConfirmedAsOffered` and `ExpectsWhatIsOwed`, of a call in which no turn has overlapped another |
| `CallRuntime_live` | two tasks, barge-in again and again, a pair of parties for each mode, no FAQ, failure limit 1 | `OneEnding`; the refinement `ImplementsLifecycle`; `EndingsAreReached` under fairness |
| `Dialogue_turn` | twelve utterances, nine failing replies and either vendor, eight geocoder answers, five windows (too soon, past closing, at opening, a week long, across the hour that autumn repeats), an index of two tenants | `CardsAndOnlyCards`, `WorstHazardActs`, `SpokenIsCommitted`, `WindowsAreStaffed`, `FailuresAreChargedFairly` |
| `BookingSaga_crash` | Jobber; two bookings of one number, a customer who may be there already, two attempts, two runs each; a request answered, cut off after the write, throttled or turned down; texts unsent or lost; a journal that may reject a record or a read | `WrittenOnce`, `ConfirmedMeansJob`, `RecordedWorkIsUndone`, `OneTextPerRun`, `RevokesOnlyItsOwn`; the refinement `KeepsThePromise`; `EveryBookingIsSettled` under fairness |
| `CrmJobs_readback` | two touches by contractor or vendor, every outage of either vendor | `CorrectionsAreTheContractors`, `SurvivalIsTold` |
| `OutcomePoller_week` | two bookings a day apart, batches of one and of two, days 0, 1 and 8, two invocations in flight, rejected statements and invocations cut off | `ConsumedPollsWereMade`; `EveryPollIsMade` under fairness |
| `Reporting_quarter` | two bookings of one tenant, two polls each, a batch of three, every kind of reply, one booking sampled, months 5 and 6 | `CohortAgreesWithTelemetry`, `NeverBilledForOurError`, `BacklogNeverFlatters`, `SampleAloneDecides`, `FirstFigureStands`; `EveryCorrectionIsLabelled` under fairness |
| `Retention_sweep` | three calls, two of them recorded and one recording never deleted, two overlapping runs, a batch of two, windows of one and two days, six days | `TombstoneMeansGone`, `NothingForgottenEarly`, `FiguresOutliveTheWords`; `EveryPromiseIsKept` under fairness |
| `Conversation_area`, `CallRuntime_tape`, `Dialogue_negation` | small | one disagreement each, section 5 |

Why the bounds are enough. Two values tell a kept confirmation from a given one, and one
of them outside the area exercises the guard; the two slots with more than one reading
cover both confirmation policies and every verdict. A limit of two has a failure that is
retried and one that is not. In the runtime two tasks are what it takes for one to act
during another's await, and three let a third meet both. The six parties are the ways to
each mode: two one-party ends, a withheld number, a strict end on either side, a lapsed
addendum, a tenant nobody has configured. The utterances of `Dialogue_turn` state a hazard
with a misheard letter, two hazards at once, a word one letter away from one, a card in
groups and in one breath, a phone number with a postcode, a phone number with a card. Of
the windows two are accepted that no single opening covers, the week and the repeated hour,
so that the property has to say what does hold of them. In the saga two bookings share a
customer and two runs place a crash anywhere; two attempts have a retry and a last try. A
batch of one with two bookings is full, as 200 of 201 would be; two invocations of the
poller are what it takes for one to consume a poll another has read, and by the last day
every poll is due, so that one may also be late. Months 5 and 6 are the
last of one quarter and the first of the next, so a figure can be published with polls
still to come; two polls are an earlier observation and a later one. Two touches suffice
for one field edited and another respelled or omitted, or for one field both.

### Fairness

- `Conversation`, `Dialogue`, `CrmJobs`: none; the caller and the contractor decide.
- `CallRuntime`: `WF_vars(Resume(t))`, every port call that was made resolves. Tasks are
  promises on one event loop, which awaits each port without a limit of its own, so a port
  that never settles is outside what it can promise. No entry point is fair.
- `BookingSaga`: `WF_vars(Works(b))`: the HTTP transport and the journal answer or throw
  and the backoff timer fires. A crash (`Rerun`) is never required, and bounded.
- `OutcomePoller`: the hourly cron keeps being invoked and an invocation keeps going
  (`WF`); `SF` on observing each booking, a job that is read again and again is read and
  stored in the end, since an outage ends; and there comes a time when the platform cuts
  no invocation off. Reads and statements may fail at any time.
- `Retention`: the same of its nightly cron, with `SF` on deleting each recording the
  carrier does not refuse, and a time after which the database accepts its tombstones.
- `Reporting`: `WF` on the nightly triage of each tenant, and nothing else: neither polls
  nor audits nor publication are owed. Labels differ from run to run, so a run that labels
  nothing is not a step, and weak fairness says that something the model can tell is
  labelled when it is asked again and again.

## 4. The proofs

TLAPS proves every invariant of the passing runs but two, their action properties and
their refinements, for every value of the constants; what it cannot prove is listed at the
end of this section. The assumptions of the modules are the only ones, but for one
hypothesis of `WindowsHold`, named below. Each `IInv` was an invariant of a TLC run before
it was proved, and each module then has the same shape: the initial state, one lemma per
action with a step per conjunct the action can disturb, and the theorems. The type
invariants of `CallRuntime` and `BookingSaga` (`TypeCorrect`) are part of their `IInv`,
and proved only.

**`CallMachineProofs`** holds what the next three modules share, as lemmas about an
arbitrary context `c`: what each event makes of it (`...Good`, `...Sendable`), that the
unrolled `advance()` suffices (`AdvanceSound`: each `Step` lowers the number of
`StepsLeft`), what prompt comes next and that there is one (`SomethingToAsk`), how a call
may move (`Goes`, and `GoesCases` in the terms of `CallLifecycle`), and that an event of a
live call does not end it without saying so (`NoSilentEnding`).

**`ConversationProofs`**, for any values, readings, service area and failure limit. `IInv`
is `TypeOK`; `Sound(ctx)` (a booked context holds satisfied and confirmed slots, the
ending is consistent, live counters are below the limit); `~CanLeave(ctx)`, the machine is
settled; `Passed`, no state was passed without its slots; `Answered`, one effect which
fits the context it comes with, or a reason for none; `HazardHeld`; and `AgreedWith`, a
confirmed slot holds what the caller agreed to. `BookedAsAgreed` speaks of the moment of
booking, but what makes it true is that confirmations were honest at every earlier one,
and that the machine leaves CONFIRM only when nothing is pending. `FailuresBelowLimit`
needs that a call at its limit is over. `OneThingToSay` needs `Passed`: a settled machine
stands in a state for which something is missing, so there is a prompt. `RefinesLifecycle`
maps each step to an `Interrupt`, an `End` or a stutter.

**`CallRuntimeProofs`**, for any number of tasks, any readings and any lines that fall
silent. What an await returns to may be another call than the one it left, so `IInv` says
that what *each* task waits for still agrees with the machine: a task that escalates or
hands off does so in a call that was taken away, one that submits does so in a booked
call, and is alone (`Ending`); an emergency has a task that is telling it its guidance
(`Under`); a recorder that is being started may run (`Taping`). `Goes` is what makes it
stable: the machine only moves on as its phases allow, so an agreement once true stays
true. It is also all that `RefinesLifecycle` asks: whichever task sends an event, and
however long ago the call it was meant for ended, the step is an `Interrupt`, an `End` or
a stutter. `OneEndingPerCall` and `TheNoticeComesFirst` hold under barge-in too; the
second also takes a lemma about `RecordingDecision` for every table of area codes. What
the agent asks and the next turn answers agrees only as long as turns do not overlap, and
that is part of the formula, not a hypothesis: `~overlapped => TurnsFit` (one task talks
at a time, the prompt it says is the one the machine asks for, and what is expected next
answers it) is inductive on top of `IInv`, since an overlap is never forgotten. It gives
`NoCrossedWires` and `AgreedMeansOffered`, whichever lines fall silent and whatever
hazard, human request or hang-up is in flight beside the turn.

**`DialogueProofs`**, for any texts, replies, opening hours, tenants and indices. `IInv`
is that the machine is at rest (`MachineFits`), that a live call is at a question and
expects its answer (`Stands`), that a value being validated is one the caller gave
(`Answered`), that giving up on a dependency ends the call (`GivenUp`), that a call
escalated as an emergency was told the guidance and the transfer of the hazard heard in
its last turn, and that no hazard was heard in any other (`Alarm`), that the window in the
book is one that was heard and staffed (`Agreed`), and `SpokenIsCommitted` itself.
`FailuresHold` follows `FaultOf` through the retry, the detour and the answer: an outage,
a refusal or a defect of ours never counts against the caller, and what a model garbles (a
reply that is no object, or one its schema refuses) is a fault of the model that the code
counts like silence, which the property says of it. What a text says is a function of the
text that stays opaque, and the theorems say what holds whatever that function is:

- `HazardsHold` is about `WorstRuleActs`, the form of `WorstHazardActs` that speaks of the
  rules of the lexicon and not of a listener: if a rule fires on the words, the call ends
  as an emergency with the guidance and the transfer of the worst rule that fires
  (`WorstIsClassified`: `classify()` returns the first rule of the greatest severity), and
  if none does, the call is not taken for one. That the rules fire where a listener would
  hear a hazard cannot be proved of a language; `WorstHazardActs` checks it of the
  instance's texts.
- `WindowsHold` has the hypothesis that the zone's offset is a whole number of minutes. One
  opening holds both ends of an agreed window, and unless the window lasts a week, every
  minute whose local time lies between theirs: that is all `validateWindow()` looks at. What
  it does not give, an opening that covers the window, is in section 5.

**`BookingSagaProofs`**, for any bookings, deliveries, attempts and runs, and either CRM.
`IInv` is `TypeOK` and, of each booking, that its journal is a prefix of the steps that
ends where the worker is (`Forward`); that a step was written to the CRM only if its
idempotency key has been seen there, and at most once, and that a job exists exactly if
its key does (`Written`); that a customer it created cannot be created again and is gone
once undone (`Undone`); that what is told or reported is journaled (`Reported`); that a
worker that undoes a booking knows every compensation the journal implies unless the
booking is `unread`; and that the texts are fewer than the runs until this run has sent
its own (`Counted`, which is `OneTextPerRun`). `WrittenOnce` is not inductive without the
keys: a retry is harmless because the vendor remembers, not because the worker does.
`Undone` needs that a deletion the adapter takes for done was done: the assumption on
`Deliveries` is that a vendor who did not act says so or says nothing (`Declines`), and a
lemma that the adapter then does not take the customer for deleted. `SagaKeepsThePromise`
proves the refinement of `BookingPromise`: the write of the job is `Schedule`, a text that
was sent `Tell`, what a run reports `Commit` or `GiveUp`, and everything else a stutter.
The promise says of a booking that was told or committed that it is not given up, unless
its run is `forgotten`: one the journal would not tell of it. `RollbackIsComplete` has the
same exception and no other.

**`OutcomeProofs`**, what is measured of a committed booking. Of `OutcomePoller`, for any
bookings, instants, limits, failures and invocations in flight: `Owed` says that every
poll an invocation is about to consume was earned by a look of its own, made when the poll
it had read as owed was due (`Earned`), and stored in the same transaction;
`OvertakenAtMost`, that a counter is overtaken no more often than it is incremented.
`ConsumedPollsWereMade` then says of the n-th poll what is true of it: it stands for a
look made when the n-th was due, or as many polls earlier as it was overtaken. Of
`CrmJobs`, for any number of touches and any outages: `JobInv` is the types and that
*every* last look was right when it was taken; a later edit does not make it wrong,
because a look records what it saw. The work is in one action: reading a job, slot by slot
and vendor by vendor. The assumption is that an outage tells nothing (no answer, an error
status, or at Jobber errors or no data): the adapters take a 404 and `data.job: null` for
a deleted job, and nothing else.

**`RetentionProofs`**, for any calls, windows and limits, and any number of sweeps that
overlap, fail or die. `Sweeping` is the point: what an invocation holds as `gone` is gone
from the carrier, *whoever* deleted it, and what it holds in its batch had expired by its
own clock, which is never ahead. So a tombstone is true although the two systems share no
transaction, and a sweep that was rolled back has told no lie. `NoFigureIsForgotten` is
the action property: the figures of `TurnMetrics` are functions of the lengths, speakers
and times of turns over sets of their indices, a redaction changes the words alone
(`RedactedIs`), and so every figure is the same function of the same arguments
(`FiguresIgnoreWords`).

**`ReportingProofs`**, for any bookings and contractors, model replies, audits, gates and
months. `IInv` is small: the types, `InOrder` (a row's instant is its place in the table,
so there is one latest row of a booking) and `OneReportEach`. The theorems are mostly
about operators. `CohortAgreesWithTelemetry` needs that `DISTINCT ON ... ORDER BY` and
`latestPerBooking()` pick the same row, and that each count is then the cardinality of the
same set. `NeverBilledForOurError` follows one booking through `Judged` and `WaiverFor`.
`BacklogNeverFlatters` compares the table with one that lacks a label, where a set of our
errors can only grow: neither their count nor the published number falls nor is more
billed, as long as the same rate is published, and only an audited label can change which
rate that is. `SampleAloneDecides` shows that no gate reads a field an observation sets.
`FirstFigureStands` needs the unique index: `Publish` adds a report for a window that has
none.

### What is only model-checked, and why

- Liveness: `EndingsAreReached`, `EveryBookingIsSettled`, `EveryPollIsMade`,
  `EveryCorrectionIsLabelled`, `EveryPromiseIsKept`. The prover does not do fairness.
- `CardsAndOnlyCards`: it compares what the recursive functions of `Speech` make of a text,
  character by character, with a table of the instance. What they compute of every text
  takes an induction over texts, which the installed provers cannot instantiate.
- `WorstHazardActs`, which says the same of what a listener hears in a text; that the rules
  hear as much is a fact about the instance's texts. `HazardsHold` proves the rest.
- The three disagreements of section 5, which are counterexamples.

## 5. Where the code and its documents disagree

Each of these is a run TLC must find violated; `PROJECT.json` quotes the documents.

- `Conversation_area`: the service-area guard runs on the way out of QUALIFY only, and a
  later correction of the address is booked wherever it is.
- `CallRuntime_tape`: a hang-up during `recorder.begin()` finishes the call before
  `recorderStarted` is set; the tape then runs with nobody left to stop it.
- `Dialogue_negation`: "that isn't right" is taken for a yes, since the apostrophe is gone
  before the negations are looked for and "right" is found among the affirmatives.

Other behaviour met while modelling, which the properties above are stated around. In the
call:

- A request for a human, or an extraction that fails twice, while a hazard's guidance is
  being spoken transfers the caller first, and then once more after the guidance.
- When `bookingSink.submit()` rejects, the exception leaves before `finish()`, and the call
  stays unfinished; `EndingsAreReached` is checked with a sink that accepts.
- Once a turn has overlapped another, `expecting` may still name the previous read-back
  when a yes is handled: a caller who corrects a phone number and says yes while the new
  one is still being read confirms it. Without `~overlapped`, TLC violates both
  `ConfirmedAsOffered` and `ExpectsWhatIsOwed`.
- `ReadBack` does not ask whether its line produced audio (`runtime.ts:357-360`), so a value
  may be confirmed that was never heard, where `slot-book.ts:147` says the caller heard it.
- A name its validator refuses after IDENTIFY was left stays in the book: the machine has no
  way back to that state, and nothing left to ask in CONFIRM.
- A hazard heard while the closing line of a booked call is spoken is not acted on.
- A phone number and a card in one breath make one run of digits whose first group has more
  than six, which is not redacted, although `pci.ts:10-15` and `COMPLIANCE.md:18,122` say
  that no card number is kept. The instance has that text, and the property says it.
- `schedule.ts:119` compares days of the week and looks at the two ends of a window only.
  A window that ends a week later passes, and so does one across the hour that autumn
  repeats whose local times read in order; both are windows "we can actually staff" by the
  comment at `schedule.ts:77-80`. Both are accepted in the instance.
- `google.ts:81-86` means a refused key to crash loudly, but `validateAddress()` catches
  every throw: the address is stored unverified, and without a place on the map.
- A model's reply that parses but is no object, or that its schema refuses, counts as a
  silence of the caller (`extractor.ts:243-248`), where `groq/errors.ts:32-38` says that a
  model's failure must not be taken for one.

In the booking:

- A lost answer to the customer's POST makes the retry take its own customer for one who was
  there; the rollback keeps it, though the CRM is reported clean.
- Two bookings of one number under way at once: the rollback of the one that created the
  customer deletes it under the other's job.
- A commit whose job was written and its record rejected leaves that job in the CRM of a
  booking reported as rolled back.
- A run that dies between the text and its record, or whose record is refused, lets the next
  one send the text again: the only way `OneTextPerRun` leaves for a second.
- A re-run whose read of the journal is rejected (`saga.ts:127`) rolls back with the
  compensations registered so far. It may report ROLLED_BACK with a recorded customer still
  in the CRM, or undo a booking that was told or committed. This is `unread`, the exception
  in `RecordedWorkIsUndone` and in the promise.

After it:

- Two overlapping invocations of the poller consume two polls of a booking for one moment,
  since the increment is relative, though `stores.ts:176-183` gives that overlap as the
  reason for it: a booking may be looked at twice at 24 hours and never at 72. This is
  `overtaken`.
- The store offers every unfinished booking older than a day, so more of them than the
  limit delays newer bookings' polls.
- A statement rejected in the poller's transaction aborts it: bookings reported as polled
  are then polled again.
- A cancellation whose status the vendor omits is not seen; half a name or a second address
  line no longer returned is reported as a correction, where `types.ts:107` says absence
  never is one.
- A human's label stays with the observation it was given to; the next poll's row starts
  without one.
- A backlog of declined rows, or of recordings the carrier refuses, as long as the batch
  limit starves the rest; the instances have limits above it.
- An outage of the model may change the basis of the published figure: unlabelled rows
  count as ours, and too few audited ones publish the raw rate. The other way round, the
  loss of an audited label that disagreed may lift the agreement to its floor and lower
  the published number, where `groq-triager.test.ts:126` says every failure pushes it up.
  One audited booking is too few for that in the instance; the theorem covers all.
- An invoice may be drawn before the last poll of a booking, and bill what a later look
  finds corrected.
- A new `METHODOLOGY_VERSION` lets a published window be published again; a second
  invocation for the same one returns an id that is not in the ledger.
- A sweep that dies after the carrier's deletion leaves a recording without its tombstone
  until the next run's 404.

## 6. Not modelled, and the plan

Not modelled: the evaluation harness (`eval/`, a driver of the same machine for tests); the
agent worker (a thin Python worker around the same effects, over a third-party audio
loop); the pages of the dashboard (I/O); row-level security (the database's); `tcpa.ts` (a
type that confines a text to the number the caller gave); `auditDisclosure()` (a report
over stored calls); the LLM utterer and the catalog's wording; prompts and the schemas of
slots; the matched span of a hazard; a payload that `PendingBookingPayloadSchema.parse()`
(`stores.ts:172`) refuses, which throws for the whole batch of a poll; two invocations that
observe a booking in the same millisecond, whose rows `onConflictDoNothing` would make one.

Done of the plan: the call (machine, runtime, words), the booking, its outcome, the figures
and the sweep, each with its theorems; the two abstract specifications, `CallLifecycle` and
`BookingPromise`, implemented by the modules that promise them.

Left:

1. `CallRuntime`'s events as steps of `Conversation`, with the observers that takes, so that
   `BookedAsAgreed` carries over to a call whose turns overlap.
2. An increment of `completed_polls` made absolute, with `overtaken` dropped, once the code
   is changed.
3. A prover with induction over sequences, for `CardsAndOnlyCards` and for the tokenizers.

## 7. Running

    tlc -workers 2 -config Conversation_events.cfg MCConversation
    for m in *Proofs.tla; do tlapm $m; done

A run's module is `MC` followed by the first part of its name. The longest runs take up to
three minutes.
