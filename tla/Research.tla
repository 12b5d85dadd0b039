------------------------------- MODULE Research -------------------------------
(***************************************************************************)
(* The research side as one module: the simulators, the drawdown clock,    *)
(* the gate, its statistics, the record of its results, the judge's score  *)
(* and the strategies.  They share no state; a behaviour is about one of   *)
(* them (part), and what each of them promises is stated here.             *)
(***************************************************************************)
EXTENDS GateFreeze

VARIABLE part

CONSTANTS Order, Ensemble, DayBars, NoBar, Sides, Sizes, Rails, Filters, Slip, Fee, StartCash, Cap,
          MinDays, Cooldown, EntryCap, Width, Reach, Trail, Trailing, Charge, MaxBars
VARIABLES both, t, today, phase, todo, ens, solo
Sim == INSTANCE Simulator
sim == <<both, t, today, phase, todo, ens, solo>>

CONSTANTS Equities, CapPct, Grace, MaxMarks
VARIABLES equity, peak, trough, stable, decay, peak_file, past
Clock == INSTANCE DrawdownClock WITH file <- peak_file, MaxBars <- MaxMarks
clock == <<equity, peak, trough, stable, decay, peak_file, past>>

CONSTANTS Keys, Pnls, Resamples, AlphaInverse, Comparisons, Redraws, Histograms, Vetoes, Versions,
          BarPrices, Dates
VARIABLES kind, baseline, candidate, paired, diffs, attempts, refused, calibration, cache,
          expected, cut, case
Stat == INSTANCE Statistics
stats == <<kind, baseline, candidate, paired, diffs, attempts, refused, calibration, cache,
           expected, cut, case>>

CONSTANTS Sections, SpecKeys, Trailered, Headers, MaxEdits, MaxPriors, MaxVerdicts, MaxReadings, MaxFlight,
          None
VARIABLES text, header, regs, asked, running, rows, read, anchors, overtaken
Rec == INSTANCE Recall WITH Keys <- SpecKeys
record == <<text, header, regs, asked, running, rows, read, anchors, overtaken>>

CONSTANTS Profits, Confidences, Unstated, MinN, MaxResolutions
VARIABLES log, calls
Score == INSTANCE JudgeScore
score == <<log, calls>>

CONSTANTS Listed, Paths, Calendar, Bills, Sectors, Params, MaxEvents
VARIABLES path, day, book, events
Strat == INSTANCE Strategies WITH Order <- Listed
walk == <<path, day, book, events>>

ASSUME SimulatorAssumption == Sim!SimulatorConstants
ASSUME ClockAssumption == Clock!ClockConstants
ASSUME StrategiesAssumption == Strat!StrategiesConstants
ASSUME StatisticsAssumption == Stat!StatisticsConstants
ASSUME RecallAssumption == Rec!RecallConstants
ASSUME JudgeScoreAssumption == Score!JudgeScoreConstants

-----------------------------------------------------------------------------
\* Simulator's three: the books balance, the two simulators agree where they
\* do the same, and no order fills on a bar before the next.  DrawdownClock's:
\* a book at its lowest is not released.
SimulatorsHonest ==
  /\ part = "simulator" => Sim!BooksBalance /\ Sim!SiblingsAgree /\ Sim!NoPeek
  /\ part = "clock" => Clock!NewLowBlocks

\* What the record says of a result.  Statistics' four: intervals, the judge's
\* haircuts, random entries, and counterfactual replays.  Recall's two: the
\* printed ratios count what ran, and a reading is scored only as it was made.
\* JudgeScore's two: the judge is scored for its own calls, all of them and
\* once, and is shown its own.
RecordHonest ==
  /\ part = "statistics" =>
       Stat!IntervalsHonest /\ Stat!JudgeHonest /\ Stat!EntriesInRange /\ Stat!SidesMirror
  /\ part = "record" => Rec!RatiosComplete /\ Rec!ScoredFairly
  /\ part = "score" => Score!ScoreEarned /\ Score!ShownEarned

\* Strategies' three: no comparison of a missing value, exits that fit what
\* is held, and no bar that is both an entry and an exit.
StrategiesSound ==
  part = "strategies" => Strat!NeverDies /\ Strat!ExitsFit /\ Strat!NoChurn

\* Strategies': tom_tilt holds what it buys into the next month.
WindowHeld == part = "strategies" => Strat!WindowHeld
=============================================================================
