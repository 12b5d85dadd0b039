# Verification of repete

repete is an unattended equity-trading agent: scheduled cycles read a broker
account, reconcile it with an append-only ledger, send entries and exits
through risk rails and a judging model, and learn from what closed. This
directory holds TLA+ models of the parts whose correctness depends on the order
in which things happen, the TLC runs that check them on small instances, and
theorems about them that TLAPS checks for every value of the constants.
`PROJECT.json` lists, under "map", every definition that stands for code with the
lines it models, under "hazards" what can go wrong and which property would
notice, and under "theorems" what is proved.

## 1. The system

### Parts

| Part | State it keeps | Operations | Interacts with |
|---|---|---|---|
| Trading cycle (`src/main.py`, `_run_cycle`) | none across runs; positions, open trades and news in memory for one run | bootstrap (preflight, halt, account), kill switch, reconcile, adopt, stops, symbol loop (exit, entry), finalize | broker, ledger, HALT file, rails, judge, memory |
| Risk rails (`src/risk.py`) | HALT file; today's trade counter and equity high-water mark (files) | halt engage/mode/markers, `pre_trade_checks`, `pure_checks`, `rail_census`, sizing, brackets | cycle, backtest, swing scan, flatten recovery |
| Flatten recovery (`src/flatten_recovery.py`) | two marker lines inside the HALT file | one attempt per quarter hour of the session, up to a cap | broker, HALT file, ledger |
| Operator's switch (`scripts/halt.py`) | the HALT file | engage (freeze or exits), clear, status | everything that reads HALT |
| Broker client (`src/broker.py`) | a retry budget per cycle; the exchange account is the state | account, positions, submit, cancel, flatten, read retries | exchange |
| Ledger and store (`src/ledger.py`, `src/store.py`) | append-only events (JSONL or SQLite); a trade's outcome is a later record | log a decision, close a trade, open trades, events | all |
| Swing scan (`src/swing_scan.py`) | none | at most one entry per half hour | cycle code, broker, ledger |
| Scheduler (`scripts/scheduler.py`), watchdog (`src/watchdog.py`) | jobs fired this minute; heartbeat file | fire each job at its minute, abandon it after 30 minutes; catch up a missed cycle; alert | all jobs |
| Judge (`src/llm.py`, `src/llm_client.py`, `src/llm_shadow.py`) and what it reads (`src/memory.py`, `src/research.py`) | none; shadow rows | review a signal, fall back, clamp, shadow; assemble and cut the prompt | cycle, model vendors, ledger |
| News (`src/market_context.py`, `src/news_memory.py`) | the file of the day, the memory | fetch, distil, validate nominations, recall | cycle, judge |
| Learning loop (`src/learn.py`, `src/lessons.py`, `src/judgments.py`, `src/counterfactual.py`) | lessons, judgments, notes, all append-only | evaluate, resolve, grade, promote, refute, retire, merge | ledger, model, cycle (which runs a pass at its end) |
| Preflight (`src/preflight.py`) | none | check the deployed configuration before a cycle | every reader of the configuration |
| Publisher (`publisher/`) | subscribers, tokens, entitlements, run log, bucket levels | sign-up, login, opt-out, billing events, daily broadcast, rate limit | ledger (read only), mail, Stripe |
| Posts (`src/daily_posts.py`, `src/x_poster.py`, `src/backfill_posts.py`) | plan marker, archive, journal | plan, review, recaps, backfill | ledger, cycle, X |
| Gates (`src/gatespec.py`, `scripts/register_gate.py`, `scripts/run_gate.py`) | registrations frozen by hash, trials log, verdicts | register, run arm by arm, record | backtest |
| Research record (`src/recall.py`, `scripts/recall.py`) | sections, registrations, verdicts, readings | join, audit, calibrate | gates |
| Strategies, backtest, statistics | none | computation over bars | cycle, gates |
| Monitors (`src/health.py`, ...) and public pages | receipts | read the ledger and tell | ledger, operator |

The parts do not share memory. They share files (HALT, the counters, the
JSONL stores), the broker account, and the clock. Under the container one
scheduler loop runs the jobs one after the other, except that a cycle is started
through a shell: the timeout kills the shell and the cycle goes on as an orphan.
Under launchd each job has its own timetable and nothing keeps two of them
apart.

### What is hard, and what makes each part correct

- **HALT and flatten recovery.** The file is emptied and then filled, by
  processes that may be killed, while the operator removes it. One incident
  must send a bounded number of liquidations, an open book must not be
  forgotten, the switch must not fire over its own freeze, retries must end.
- **Cycle, broker, ledger.** Two stores are written one after the other. Each
  trade is closed once and only after its position left; a holding is booked
  once; a rerun doubles neither entry nor exit; when the cycle's picture is
  right, ledger and account agree; a stop on record is a stop that rests.
- **Scheduler and watchdog.** Jobs watch each other from one loop, through a
  ledger that may be torn. A day without a completed cycle is rescued or
  reported, and no job keeps the loop.
- **Risk rails.** The account is read once and the views are kept by hand.
  Limits hold of the real book after every entry, no rail traps a position (but
  for a cap on order value and a holding period that ends), the
  drawdown latch and the day's cap survive cycles and damage, and the census
  names what really refused.
- **Judge and news.** A model may not answer, answer garbage or late. It may
  only shrink an order, is credited with its own answers, and reads what it was
  to read or the ledger says what it did not.
- **Learning loop.** Evidence is written by three writers in passes that can be
  cut short. A trade counts once for a lesson, never before it was observable
  and never for the lesson it produced; a closed lesson stays closed; the
  evaluator catches up.
- **Publisher and posts.** Nobody is mailed twice a day, an opt-out link works,
  billing events in any order leave the right tier, a client gets what its
  bucket allows, a plan or recap is published once.
- **Gates and research.** Nothing locks the logs: what was checked may be stale
  when it is acted on. No registration is begun once its verdict is known, a
  verdict says what was measured, simulators do not peek, statistics keep their
  promise at the boundary.

## 2. Modules and code

Every module below is a component with its own variables and next-state
relation, unless it says otherwise. A definition commented as a bug or a
mutant stands before the definition it spoils; it is not used by any
specification, it is the plausible mistake under which the run was seen to find
the property violated.

### Halt and operations

**HaltSwitch.** `halt` is the HALT file as the readers see it: on, mode,
who engaged it, the pending marker, the attempt count. A blank body reads as
freeze with no marker. A write is `Open` then `Flush`, because `_rewrite_halt`
and `engage_halt` open with "w"; a file removed in between is written as an
orphan. `Account` is the daily-loss test and `_kill_switch_fired`,
`KillFlatten`/`KillVerify`/`Mark` its three tries and the marker,
`Bump`/`RecoveryFlatten`/`RecoveryVerify`/`Unmark` the recovery run,
`CheckEntry`/`SubmitEntry` an order whose halt check is older than its
submission. `Overlap` selects launchd or the scheduler. `spent` is a ghost:
liquidations the recovery has sent in this incident.

**TradingDay.** `now` counts half steps: a minute at which jobs are due, and the
rest of the ten minutes before the next. `Pass` is one look at the table,
`StartNext` starts the first waiting job, `Abandon` is the timeout, after which a
cycle lives on in `orphans`. A cycle's end is two steps (`Completes`: the
`cycle_complete` event; `CycleEnds`: the heartbeat), because it may crash
between them. The quiet hours are shortened to the longest job, so every delay
that can push a job out of its minute is there.

**Watch.** The event store as lines of a file, `Torn` for one that does not
parse, or as SQLite; how a cycle ends in it; the watchdog and the catch-up that
read it in processes of their own and speak through the alert channels.

**OpsSignals.** Heartbeat, deploy drift, the degradation objective, the
mirror's receipt, the heat trap and the verdict of `health.py` on them, over
days of five slots (the last one is tomorrow in UTC, the ledger's dates).

### The live cycle

**TradeCycle.** `orders` and `pos` are the broker, keyed by the client order id
(symbol, action, day); `trades` the ledger; the rest is a run's local memory. A
run goes stale-order sweep, reconcile, adopt, snapshot, then for each symbol
cancel, submit, record. The environment fills, stops out, kills or refuses
orders, loses replies, closes by hand, kills processes. `Faults` names what an
instance allows. Assumptions about the broker: an id is taken once; shares
reserved by a resting leg cannot be sold; whether an account may go short is a
switch.

**RiskRails** and **RailCensus.** `peak` and `count` are the two files, 0 for a
file that does not exist and -1 for one that cannot be read; `positions` and
`open_trades` are the cycle's views, `book` and `trades` what they are views of.
`pure_checks` and `pre_trade_checks` return the set of rails that refuse an
order: the code raises the first, and the order is refused when the set is not
empty. A limit is off at 0 only, as the code's truth test has it: a negative one
refuses. `age` counts a trade's days and `early` says that today's cycle comes
before the hour of its entry, for the swing guard counts whole days. Prices, equity and the regime change
between cycles. `RailCensus` is the second implementation of the checks that a
refusal is recorded with.

**LiveCycle** is five components and a pure part of the live code that share no
state, in one module so that the properties over them can be stated and proved
together:

- *EntryScan*: which symbols are looked at, in which order, who owns a position
  and is asked about it, which signals become orders, cooldowns and entry caps;
  one symbol a step, on bars read once.
- *StopGuard*: legs at the broker, the stop a record carries, its repair from
  the broker's side and the chandelier trail, for two cycles at once beside
  fills, failures and deaths.
- *BrokerReads*: timeout, retries and budget of a cycle's calls, and beneath them
  the requests that the SDK itself sends again (429 and 504, writes included). A
  call is one request of the SDK; `cancel_open_orders` is several.
- *Sizing*: `unprotectable_entry`, `bracket_prices`, `size_order`, the judge's
  scale and the order that is placed, in stages.
- *JudgeCall*: `review_signal` over `complete_detailed`, the shadows, and what
  `_process_signal` does with the answer.
- *SwingScan*: the half-hourly scan on the positions and trades it booted with,
  beside cycles, stops, operators and kills.

What the cycle starts from is named in it too, as the instances `Pre` (Preflight)
and `Brain` (News, both below); `MCLive` gives them their values.

**Preflight.** A configuration is edited key by key; `fails` and `warned` are
what the checks say of it, and the readers' fallbacks are modelled as what each
then makes of the value. **News**: the hourly brain and the cycle's own refresh
over one file of the day. **JudgePrompt**: what of the closed trades, lessons,
knowledge, news and dossier reaches the judge; a text is its length.

### Learning and research

**LessonLife** is the abstract lesson book: a lesson is created once, scored
while it is open by trades whose outcome is known and never by its own, and kept
once closed. **LearningLoop** implements it (`ImplementsLife`). A trade id stands
for its decision, judgment and outcome. `evidence` counts the records of a trade
for each side of a lesson. A pass is a program counter over
`evaluate_closed_trades`, `resolve_realized` with `resolve_counterfactuals`,
`run_transitions` and, in the weekly run, `apply_meta_merge`; every appended
record is a step and `Kill` may come between any two. What the model answers,
and whether it answers, is a choice; `Readable` fixes which trades it can make
something of. `quiet` is the age of a lesson in days, capped one past staleness.

**JudgeScore**: one row per decision, resolved later, and the numbers read off
the log. **GateFreeze**: spec file, registrations, snapshot, runs arm by arm,
trials log, verdicts. `desk` is what a registrar has checked and not yet
appended (`Register`, then `AppendRow`); a run verifies spec and data (`Start`),
loads the data (`load_bars_file`), measures and at last records. Every rule of
`gatespec` has its clause; what an arm measures on the data, and how its trades
compare with the baseline's, is the constant `Measured`, by arm and data. It
depends on `config.yaml` in the code too, which no registration freezes.
**Recall**: the record joined by section and id, with the same two windows:
`asked` (a registrar between its look for a verdict and its append) and
`running` (a gate between its look at the registration and its verdict).
**Simulator**: `simulate` and `simulate_ensemble`, bar by bar, over the same
bars. **DrawdownClock**: the decaying peak. **Statistics**: bootstrap intervals,
the simulated judge, random entries, counterfactual replays. **Strategies**:
thirteen strategies over dealt price histories in exact fractions.
**Research** extends GateFreeze and has the others as the instances `Sim`,
`Clock`, `Stat`, `Rec`, `Score` and `Strat`; they share no state. Their joint
properties are stated there, so that the run and the proofs are about the same
definitions.

### Publisher and posts

**Publisher**: a handler is one step, except the opt-out by link, which commits
twice, and a digest run, which mails one address at a time and only then records
that it ran. **RateLimit**: integer levels per client, refilled when the client
is next seen, forgotten when there are too many. **Posts**: plan, review, recaps
and backfill over a marker, an archive and a journal. A post that X did not take
is two steps after the attempt, the archive's row (`_archive`) and the
degradation in the ledger (`_ledger_degradation`); a failed write of either is
swallowed and a kill may come before each.

### Instances and proofs

`MCHaltSwitch`, `MCOperations`, `MCTradeCycle`, `MCRiskRails`, `MCTradingDay`,
`MCLive`, `MCResearch` and `MCPublisher` give constants their values;
`LearningLoop` needs no module for that. Several of them put components that
share no state side by side, with a variable `part` (or `about`) that says which
of them a behaviour is about: one run then asks of each what it would have been
asked alone. The proof modules are `HaltSwitchProofs` (watchdog included),
`TradeCycleProofs`, `RiskRailsProofs`, `LearningLoopProofs`, `PublisherProofs`
(rate limiter and posts included), `ResearchProofs` (gates included),
`LiveProofs` (preflight, news and signals included) and `TradingDayProofs`.

### Abstractions to know about

- TradeCycle trades long lots with a bracket; shorts are RiskRails's subject.
- HaltSwitch: two orphaned writers that flush the same file leave the last
  body. The marker and the attempt count are read in one step.
- TradingDay has one orphan per kind of cycle and one outage.
- RiskRails has one strategy and integer values, and tells sectors apart only
  for the sector cap; stops fill between cycles only; equity does not follow the
  book; every open trade has a time of entry.
- In GateFreeze the file `data` stands for the snapshot and its auxiliary files.
  In Recall any number of registrars may hold one row and any number of runs one
  prior, until `Over` ends the last of them.
- StopGuard's positions are long; a price is a level of a small scale.
- Sizing: money is whole units. The floor of the smallest of some amounts over
  the price is the smallest of the floors, so the share count is exact.
- LearningLoop runs one pass at a time; a due blocked entry may wait for its
  bars; the day that ages lessons also ends the horizon. The model's answer
  names a lesson at most once (the code would count each repetition). A lesson
  drawn from a close appears together with the outcome.
- DrawdownClock has a half-life of one bar. Statistics' means are in sixths,
  exact for up to three trades. Strategies leave out floating point.
- Publisher.Begin and EntryScan.Begin are chains of IF and ELSE, as the code's
  early returns are ordered.

## 3. The runs

| Run | Module | What is checked | Bounds, and why they are enough |
|---|---|---|---|
| halt_safety | MCHaltSwitch | MarkedUnlessKilled, SpentBounded, KillNeverReenters; WatchHonest | one cycle and the job, two symbols (a flatten can close one and not the other), two attempts (first and last differ), one kill, three operator commands (engage, clear, engage again), two breaches; the watchdog over two days, two cycles a day, four records, one kill and one change |
| operations | MCOperations | RetriesEnd, NoDaySlips, SchedulerReturns | overlapping jobs, one symbol, one of each fault; all kinds of job of an afternoon, a timeout of six half steps (30 minutes), one outage |
| trade_sequential | MCTradeCycle | OutcomeOnce, LedgerAgrees, BookCap, OneLot; OneLotRerun | two symbols under a cap of one, two days, four starts, three faults: enough for a loss, a rerun and a repair; the second instance runs a cycle and a scan beside orders that stay unfilled, with three starts and one fault |
| trade_overlap (violated) | TradeCycle | OutcomeOnce | a catch-up beside a cycle, no fault |
| day_close (violated) | MCTradingDay | CloseRescued | the table of operations |
| rails_safety | MCRiskRails | TypeOK, ExitsRun, DailyCapHolds, RailsBind, LatchHoldsUndamaged | five risk sections chosen so that each rail is once the only one to bind, one of them with a holding period of two days; two symbols of one sector, one with a stop; equities one drawdown apart; one damaged file |
| learn_safety | LearningLoop | TypeOK, EvidenceKept, EvidenceEmbargoed, ImplementsLife, EvaluatorCatchesUp | two trades against a limit of one call (one is always deferred), one of them readable, three lessons so that a merge has a target, two citations, one kill or failed call, thresholds of two, stale after a day |
| learn_twice (violated) | LearningLoop | EvidenceOnce | the same without faults |
| publish | MCPublisher | LinksWork, MailedOnce, TierAgrees, BucketBound; PostsHonest | two readers and two digest runs over two days, one fault; two pending billing events (one may overtake the other); two clients and a table of one level; two days of posts, three runs, one trouble |
| live | MCLive | ScansKept, InputsHonest, StopsRest, EntriesSafe, JudgeKept, RetriesBounded, SignalsTrue, NoStepBack | three symbols (core, own universe, outside), two enabled strategies, one that only exits; two cycles, three stop levels and four orders at the broker; four risk sections; every judge configuration; three calls of a cycle, in each attempt of which the SDK may send once more, against a budget of five seconds |
| research | MCResearch | SimulatorsHonest, VerdictsHonest, RecordHonest, StrategiesSound, GoalpostStays | three bars of two symbols; six bars of the drawdown clock; nine specs that between them name every rule a clause may have, two contents of the data, one registrar and one runner, and an author who goes between two specs once one was checked; two specs of one section, two priors and two processes under way; samples of at most three trades; thirteen days of six price shapes dealt to four symbols |
| tom_window (violated) | MCResearch | WindowHeld | the same |

The properties after a semicolon, ScansKept, InputsHonest, SignalsTrue and the
research ones are conjunctions of the properties of one or more components, each
defined and commented where the component is. CHECK_DEADLOCK is off where the
system really comes to rest at its bounds. Every property of a passing run has a
mutant: a plausible bug of the mapped code under which the same run finds it
violated. The type invariants of HaltSwitch, TradeCycle and TradingDay are proved and not
run.

### What the violated runs show

- *trade_overlap*: launchd may start the catch-up while the 15:45 cycle is still
  running; both append an outcome for one trade.
- *day_close*: any `cycle_complete` of the day, the 9:35 one included, keeps the
  catch-up from running a missed close.
- *learn_twice*: `evaluate_closed_trades` does not ask whether a citation has
  already evidenced the lesson; a trade deferred by the call limit counts twice.
- *tom_window*: the SELL of `tom_tilt` is true on the last day of the old month,
  so it signals a sale on the close of the very day it bought at the open of. The
  simulators act on it. A live exit is held back by the swing guard
  (`min_holding_days: 2`, `config.yaml:869`), so with the shipped settings an early
  sale happens live only when the month's last weekday is a Monday.

### Fairness

- HaltSwitch: a process that has begun goes on (WF), a cycle's loop over its
  symbols ends (SF on EndCycle, since the loop may be re-entered), the job fires
  every quarter hour of the session (SF on StartJob: it is enabled again and
  again, `scripts/scheduler.py` JOBS), sessions come and go. Nothing is
  assumed of the operator, the broker's success or the end of the loss.
- TradingDay: the loop passes, starts what waits, abandons at the timeout, and
  time goes on. Nothing is assumed of the jobs: a cycle may hang for ever.
- LearningLoop: WF of the pass as a whole, because every cycle ends with one. No
  fairness of closes, of the model or of the choice of merge.

## 4. The theorems

Each holds for every value of the constants that the named assumptions of the
module allow. TLC evaluates those assumptions on every run that extends the
module. Where a theorem assumes more than that (no overlap, no shorting), the
hypothesis is in its statement and its reason is below.

### Halt (HaltSwitchProofs)

`Typing`. `RetryBudget`, `KillsOnce` and `OpenBookIsMarked` assume `~Overlap`,
the scheduler's loop; under launchd two recovery runs can count one attempt
between them.

- SpentBounded is not inductive: the count in the file bounds what was sent only
  if the body in the file, or the body about to be written, accounts for it at
  each point of a run. `BudgetInv` says so label by label (`RunAccounts`).
- `ReenterInv`: only the kill switch writes its name and it always freezes, and
  a cycle that is past its halt check began without such a halt, since with one
  process at a time nobody could have engaged one since.
- `MarkedInv`: until a process is killed, what the kill switch left is marked or
  still being worked on, and whoever removes a marker has seen the book empty.

- `NobodyDeceived` is about Watch, from `WatchInv`. `Kept`: what was acknowledged
  is the ledger less the line now being written, unless a torn line is in it.
  `Settled`: a cycle about to end has appended since anybody was last killed, so
  its own record says what the watchdog will read. `Ends` and `Alarmed` tie what
  was reached and what was said to the records; `Earned` is the ping.

### Market day (TradingDayProofs)

`DayTyping` needs `AtWork`: only a cycle or the catch-up is at work, nothing runs
in a container that is down. `NoDaySlipsBy` needs `ThisMinute` and `Looked`. When
the minute of a watching job ends with the loop free, the job has been fired; what
was fired in this minute waits for its turn, is about to look or has left the
trace of its look. A job that has begun since the firing has run for no time, so
the timeout cannot have taken it before it looked.

### Trading cycle (TradeCycleProofs)

The invariants are proved in this order, each from those before it.

- `CycleTyping`; `ClosedOnce` (no overlap) from `OnceInv`: the sets a run took
  its trades from still hold open trades only, and a run never has both sets at
  once. trade_overlap is the counterexample without the hypothesis.
- `OneLotHeld`: no entry adds to a position and no exit sells what is not held,
  with overlapping, rerun and killed processes, if orders are for the day (as
  the code sends them) and the account does not go short. `LotInv` says that one
  order at most reserves a lot, and that a run which does not see a position has
  either sold it or finds today's entry id taken. OneLotRerun is the same
  property of a second instance, which meets the hypothesis too.
- `BookedOnce` (processes one after the other): `CalmInv`, that reconciliation
  works on a book at rest, and `EntryInv`, that each symbol has no more trades
  than entries sent and exits died, with slack for whoever is about to book one.
- `LedgerStaysTrue` assumes also that broker reads succeed and only cycles run:
  `AgreeInv` says that a cycle that has reconciled and adopted has one open trade
  for each position it sees and keeps both in step. A failed read skips the
  reconciliation; a scan enters without it.
- `CapHeld`: `CapInv` counts what the only run does not see, entries whose reply
  was lost and exits that died; the book exceeds the cap by no more.

### Risk rails (RiskRailsProofs)

`RailsTyping`; `ExitsAlwaysRun`, a fact about the checks from the types: of all
the rails only the cap on an order's value and the swing guard can refuse the exit
of a held position, and the guard no longer once the trade is older than its
holding period;
`DayCapped` from `CapInv` (the counter covers the entries made); `LatchKept` from
`LatchInv` (undamaged, the file equals the highest equity read).

`RailsAlwaysBind` says that an entry leaves the real book within every limit.
The rails see the cycle's views only, so the invariant is `ViewsTrue`: the views
are the book and the ledger, every holding has its open trade and, after
reconciliation, every open trade its holding. The rest is arithmetic over sums
of the book: gross, net and open risk after an entry are those before it with one
symbol's share changed (`SumChanges`), which is what the rails compared.
`CensusAndChecksAgree` compares the two implementations rail by rail (`Says`).

The sums are `SumFunction` over a finite set of symbols. The library's induction
theorems need an operator as a parameter, which no installed prover can
instantiate. For finite sets there is a way round: the strict subset ordering is
well founded, so a set of counterexamples has a smallest element (`LeastSubset`),
and a smallest counterexample to a fact about sums is refuted in one step.

### Live cycle and swing scan (LiveProofs)

- `RetriesAreBounded`: `Charged` says that what a retried call has lost is
  charged, and that a call that is over lost at most one attempt more, an attempt
  being all that the SDK sends of it (`Longest`). A write is attempted once; it
  goes out again only inside that attempt, after an answer of 429 or 504. A 504
  may follow an order that arrived; what keeps the second one out is the client
  order id, TradeCycle's subject.
- `StopsAreReal`, and `NoneFalls` under `NothingStepsBack`: StopsRest is inductive
  with the types, for any number of cycles: a cycle raises only legs that still
  rest, and records what it raised.
- `PositionsAreHeard` and the cooldown half of `NothingStepsBack` from `ScanInv`
  (`Owed`): what the scan has yet to visit is as it was when the cycle began.
- `EntriesAreSafe` from `SizeInv`: every stage of the sizing has what the ones
  before it found out (`Inputs`), then products and floors.
- `JudgeIsKept` from `CallInv`: a decision is taken on the review of its own
  request (`Honest`), and its shadows saw that prompt.
- Swing scan: `EnteredOnceADay` (`IdSpent`), `OneEntryAPass` and
  `EntriesAreRecorded` (`OneSent`: an order the pass knows of ends its sending),
  `HaltIsHeeded` (`Passed`), `CapIsHeld` (`Room`).
  With PositionsAreHeard they make `ScansAreKept`.
- `SignalsTold` is about OpsSignals, from `SignalsInv`: nothing on record is of a
  later time (`Past`, or a record of tomorrow would count today), a cycle has
  completed exactly if the ledger says so for this Eastern day, `SavedTrue` puts
  the mirror's receipt behind every backup that was due, `Arming` has a cycle with
  a bare position report it after the last completion, `BreachOnce` and
  `AlertRecorded` find today's record before a second alarm.
- `ClearedMeansWritten` is NoReaderFallsBack and NotShutOut of Preflight for every
  well-formed configuration (`Formed`), where the run edits two sound ones twice:
  a cycle trades on what the checks found nothing against, and each reader's
  fallback is behind a check.
- `NewsIsTodays` is WatchFresh of News, from `NewsInv`: whatever a reader may find
  in the file or a process may still write to it was validated on its day, and a
  cycle's own is today's, since no cycle outlives its day.

### Learning loop (LearningLoopProofs)

`LearnTyping` with `Counter`. `ClosedLessonsStay`: status changes are prepared as
a list and applied one record at a time; `TerminalInv` says that every lesson on
the list is still open and is on it once. `EmbargoHolds`: `EmbargoInv` follows a
trade from where a pass reads it to where it is written as evidence.
`PassesKeepTheBook` is the refinement: with `OpenInv` (what a pass scores is
open) every step is a step of LessonLife under the mapping in LearningLoop, or a
stutter. `OutcomesCountOnce`: as long as no closed trade has missed a pass, a
trade waits for the evaluator only on its list (`OnceInv`); a resolved citation
is graded or the pass is still at it (`GradedInv`). learn_twice is the
counterexample once a trade has been deferred.

### Publisher and posts (PublisherProofs)

- `TierFollowsBilling` (`TierKept`: the newest undelivered event is the last one
  sent), `LinkLives` (`TokensKept`), `OneDigestADay` (`MailSeen`: what has mailed
  and finished will be found by the guard, and what has not makes the day odd).
- `BucketBounded` from `Window`: what was spent in the window and what could be
  spent now are together within the bound, also when a level is forgotten, since
  a bucket is full again before it is (`KeepAssumption`, `publisher/config.py`).
- `PostedOnce` from `PostsInv`: what a process has in hand follows from where it
  is (`Shapes`), there is one plan on a day whose runs came one at a time
  (`OnePlan`), and a trade in the one hand that lost no step is about to be
  published only if it has not been, while what was published is in the archive or
  on its way into it (`TradeInv`). A row of a post that X did not take has its
  degradation in the ledger or the process that is about to write it, unless that
  was killed in between or the ledger could not be written (`untold`).

### Research (ResearchProofs)

- `VerdictsAreHonest` and `KnownResultsFreeze` from `GateInv`: a run is of a spec
  registered before it began, the data it loaded is the snapshot of the spec or
  was replaced under it (`Fresh`), its workers return what is measured on that
  data, and it is judged when every arm is back; a clause looks at the spec's own
  arms only (`ClausesLocal`, `MarkApplied`). The freeze excepts what was in flight:
  a registrar that had passed the check before the verdict came may append the row
  it passed it with, once.
- `StrategiesHold`: each of the thirteen is shown to `Keeps`: what it answers to
  a flat position, and to one bought or shorted on this bar, are not opposites.
  That is arithmetic of fractions and ranks: the bands an entry needs lie inside
  those an exit needs (`BandsKeep`), a bar above its average is not below it.
  `NothingMissing` says that a strategy with its `required_lookback` compares
  only values it has, strategy by strategy. `WalkOK` gives each book the sides
  its strategy can take and gem one leg. Two strategies are excepted in the
  property itself: `meanrev`, whose RSI remembers a fall that its short average
  has forgotten, may enter and leave on one bar; `tom_tilt` is tom_window.
- `SimulatorsHold` from `SimInv`. `Balanced` and `Due` are sums over the closed
  trades, the holdings and the refusals; every operation of a book is shown to
  keep them (`ExitIs`, `OpenIs`, `LegsIs`, `QueueIs`, `OfferIs`), each with a
  twin that says that equal books stay equal. `Alike` is that relation between
  the two simulators inside a bar, where one works through its orders and its
  legs before the other. `Raised` dates the last raise of every stop.
- `NewLowHeld` (part of it) from `Clocked`: trough and peak have both been
  equities of this run, so at a new low no bar was counted as stable and the peak
  has not decayed.
- `RecordHeld` joins three components. *Statistics*: the replicates are kept in
  order (`SortedIs`), and are nothing for an arm paired with itself; the ends of
  an interval are places among them (`Ends`, `EndsWiden`: division by a constant
  that is not known, so uniqueness of quotients first). `DrawnAsOften` counts the
  draws of a scale of the simulated judge: they are an interval between two
  partial sums of the histogram. *Recall* (`RecordOK`): the verdicts of a section
  fall into disjoint classes (`Partitioned`). A reading that is scored is of the
  prior that is registered; the verdict it is scored by was run under that prior
  too, unless a registration and a run of the spec crossed or its registration was
  lost (`Rightful`, with the ghost `overtaken`). *JudgeScore* (`ScoreOK`): a call has one
  judgment in the log and a resolution assesses that call, so counting rows is
  counting calls (`Imaged`).

Sums are the fold of the community modules. `Sums`/`SumIs` replace it by a
function over the subsets of the set it sums over, whose value does not depend on
the order (`SumRemove`, `SumAdd`); the rest is by smallest counterexample, as
above.

### Assumptions on constants

Most say that a bound is a natural number or a set finite. The others:

- EntryScan: the default owner is an enabled-or-not strategy that needs no
  cross-section (`ma_crossover`, `src/strategies/__init__.py:29`); the core lists
  a symbol once, as `config.yaml` does. Preflight does not check that (section 6).
- Sizing: while brackets are on their base width is positive (`config.yaml:877`),
  which preflight does not check either; the judge's scale is clamped to 0 .. 4
  quarters, which JudgeKept is about.
- RiskRails: prices, equities and quantities are positive; a limit is any
  integer; the set of symbols is finite.
- RateLimit: a bucket is full again before it is forgotten.
- Posts: no trade has the name of a date; both name the things a run posts.
- Watch: equity is positive, and a line that does not parse is no record.
- OpsSignals: weekdays are days, counted from 0.
- Preflight: the configurations a deployment starts from are well formed. News: a
  nomination list is finite, and the cap on nominations is a natural number.
- SwingScan: `max_open_positions` is at least 1 (`config.yaml` sets it).
- Research: order and ensemble list a name once (`config.yaml`), bars are of
  whole numbers with the close between low and high, sizes are positive. A
  strategy's settings are as `config.yaml` has them where its logic needs it
  (`WellSet`): entry bands inside exit bands, the short average within the long
  one, a window in which a percentage can be told from its neighbour, and for
  swing_sectors a time stop of a day at least (0 turns reclaim's off; swing_sectors
  has no such case and with 0 would sell on the bar it entered). The judge's
  calibration has positive scales, trades and sections are finite sets.
- TradingDay: the table lists a job once, the catch-up and the watchdog are jobs
  and not cycles, the catch-up's minute is before the bell.

### Model-checked only

- Liveness: RetriesEnd, SchedulerReturns, EvaluatorCatchesUp. The prover has no
  ENABLED.
- InputsHonest as a whole: its preflight and its watchlist are proved, JudgePrompt's
  part and BudgetFair and RecallBounded of News are not. These are about folds over
  sequences of lengths and would need induction over data.
- OneLotRerun as written: it names a second instance inside a run's module.
  `OneLotHeld` is about every instance, that one included.

## 5. Not modelled, and why

- Public pages and the feed: rendering over the ledger; they change no trading
  state.
- Maintenance and data scripts, probes, sweeps and shell wrappers: run by hand,
  alone, on files nothing else writes.
- Knowledge base, data files, deployment descriptors.
- Inside modelled parts: correlation and the macro and credit blocks, exit-price
  lookup and fill quality, post-exit notes, the weekly review and the rendered
  lessons, the wording of prompts and the distiller's format, launchd's calendar
  and the morning jobs, the summary ratios, intraday fills, financing of shorts
  and regimes of the simulators, text search of the record.

## 6. Seen while modelling

Observations about the code that no run carries, for whoever maintains it.

*HALT.* A cycle killed between engaging HALT and writing the marker leaves an
open book under a freeze that nothing retries (`docs/runbooks.md:133` says the
flatten retries itself). `_rewrite_halt` can re-create a file the operator
removed. Clearing HALT does not stop a recovery run already past its check, and
the attempt that fails last is not charged to the budget.
`docs/incident_response.md:42` engages with `touch HALT`, which reads as freeze,
not exits. An order whose rail check has passed goes out after HALT.

*Cycle.* A queued fill can be written off before it happens; an exit that died
is adopted again, so one holding may carry two trades over time. A reply lost
on an entry hides a position from the cap until the next cycle. A stop that fires
after the positions were read, and then a strategy's exit, sell twice on an
account that may go short. A refused exit after the legs were cancelled leaves
the position without a stop until the next sweep. Buying power is not decremented
inside a cycle. Overlapping cycles can send an alarm twice.

*Scan and sizes.* A symbol listed twice in the core is visited twice and may be
re-entered in the pass of its exit; preflight looks for duplicates in the ETF
lists only (`preflight.py:407-437`). Nor does it check that `stop_atr_mult` is
positive: 0 would put the stop at the price. Without an ATR an entry goes out
without a stop. The guard uses an ATR of 14 bars while the bracket uses the
configured period. A short whose take-profit is not positive degrades to a
market order without legs. A NaN scale passes the clamp and `int()` of it ends
the cycle. `already_held` cannot be reached. `credit_blocked` and
`macro_blocked` say "shared by live" but the cycle never calls them.

*Judge.* A veto also blocks exits, although `main.py:1640-1645` says that
blocking a sell would trap a position. An outage with an empty exception message
leaves no degradation in the ledger. `host_warnings` prints a default of "block"
for `on_unavailable` where the reader's is "approve". `_BLOCK_MARKERS` lacks
"research", so its loss is not named and "trades (cut)" is reported too often;
the dossier's note of omissions is dropped when there is no room for it; budgets
do not count headings; the trades budget can cut the losers that were forced into
the sample; the CAUTION of the lessons block comes last and goes first;
`winners[-0:]` takes all winners when the quota leaves none.
`blocked_approve_accuracy` is inverted (`judgments.py:242`) and counts the
approvals of the fallback as the judge's (`main.py:1743`);
`recent_outcomes_block` filters by kind only, so six old fallback rows still show
as the judge's. `research.py` takes `hist[-5:]` of a newest-first history, so the
oldest news are given as recent.

*Swing scan.* It never runs the daily-loss kill switch and skips cooldown, entry
cap, relative volume, contraction, the earnings blackout and the guard against
unprotectable entries. A vetoed candidate is asked about again in each pass. A
lost reply lets a second entry into the pass. Its rows of refused entries omit
the judge's verdict (`judgments.py:80-83`) and those of vetoes the stop.

*Scheduler and watchdog.* A job that overruns 15:45 or 16:15 makes the loop miss
that minute altogether. Orphaned cycles mean two cycles can overlap in the
container too. The watchdog and the catch-up never call `store.configure`, so
under `storage.backend: sqlite` they read the JSONL ledger: an alarm each day, and
a catch-up that reruns a completed cycle. An append after a torn tail joins the
torn line. An unreadable ledger makes the watchdog's drawdown latch read "not
engaged", which is silent on weekends. A second cycle that dies after a first one
completed is not seen. Watch leaves out the watchdog's news problem
(`watchdog.py:218-223`), so it is silent more often than the code. `heat_trap_armed` keeps
reporting the trap of a crashed cycle.

*Preflight.* NaN and booleans pass as positive numbers. `exclude_etfs` that cover
the whole core empty a universe unnoticed. Only the last line of a JSONL file is
looked at. A negative risk limit is not refused; it is true in the code's tests,
so it refuses every entry. The broker falls back to paper when live is not
confirmed.

*Rails.* A corrupt trade counter stops entries, and the next recorded exit
rewrites it to one and reopens the cap. An unreadable equity peak is reseeded
from the live equity before any entry reads it, so the breaker is forgiven at
once. The order-value cap applies to exits as well, and so does the swing guard
until its days are over. `_rail_census_safe` passes
neither peak nor strategy view, so its census leaves those rails out.

*News.* Every closed trade counts as linked to news, and hourly refreshes as
separate mentions. The interleaving of feeds stops once one section is empty
(`market_context.py:240-247` says INTERLEAVE). A distiller that answers nothing
leaves no event from the hourly job.

*Learning.* `max_llm_calls_per_cycle` limits trades evaluated, not calls: with a
model that answers nothing, every unevaluated trade costs a call in every pass. A
pass killed between a trade's evidence and its mark counts that evidence again. A
judgment resolved by a pass that died before grading is never graded. One lesson
named twice in a merge passes the "at least two" test. A trade with two outcomes is
evaluated twice in one pass.

*Gates and research.* `gatespec.validate` never checks that `candidate` names an
arm: the run ends in a KeyError after it was logged. A spec can be registered
anew while its gate runs (`run_gate.py` looks at the registration when it starts
and appends minutes later), and a registrar that looked for a verdict before one
came appends after it (`register_gate.py:281`, `:320`). The snapshot is hashed and
then loaded again. Neither the audit nor `calibrate` (`recall.py:671-698`) compares
a verdict's spec hash with the registration, so a reading of a later prior can be
scored by the verdict of an earlier one: behaviours of Recall reach that, and
ScoredFairly excepts them by name. `calibrate` can also raise a KeyError
(`recall.py:697`). The simulators size and check on the close of
the same bar where `backtest.py:14` says next open, and call `decay_clock` with a
peak not yet raised (`backtest.py:573`, `:1016`). `gem` and `vol_lever` exit only
on a month's first bar.

*Posts.* The 9:35 slot ignores the plan marker, so a slot after a catch-up posts
twice. `posted_ids` takes the recap of a close for the entry's. Without a base
URL, or after a failed journal write, a backfill posts again; it says "Position
still open" of closed trades and journals shorts as "buy". The review uses the
UTC day.
