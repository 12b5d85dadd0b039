----------------------------- MODULE Statistics -----------------------------
(***************************************************************************)
(* The instruments a verdict rests on: the bootstrap intervals of          *)
(* src/significance.py, the simulated judge of src/judge_model.py, the     *)
(* random entries of src/randombaseline.py that decaycheck.py compares the *)
(* live trades with, and the replay of blocked entries of                  *)
(* src/counterfactual.py.  The generator of random numbers is a choice; a  *)
(* mean is in sixths, exact for up to three trades.                        *)
(***************************************************************************)
EXTENDS Integers, Sequences, FiniteSets, FiniteSetsExt, Functions

CONSTANTS
  Keys,        \* trades, 1 .. 3
  Pnls,        \* what one made
  Resamples, AlphaInverse, Comparisons,  \* of the bootstrap; ALPHA = 1 / AlphaInverse
  Redraws,     \* _MAX_REDRAWS
  Histograms,  \* scale_histogram of a calibration, scale in quarters -> decisions
  Vetoes,      \* decisions it vetoed
  Versions,    \* context versions of the judge
  BarPrices,   \* low and high of a replayed bar
  Dates        \* dates a bar may carry

VARIABLES
  kind,                      \* the instrument a behaviour is about
  baseline, candidate,       \* arms: trade -> P&L
  paired,                    \* compare_paired or compare
  diffs, attempts, refused,  \* replicates drawn; redraws of the next; no interval
  calibration, cache,        \* judge_calibration.json, and what the process keeps of it
  expected, cut,             \* config's context version; the last haircut, or none
  case                       \* inputs of the pure functions

stats == <<kind, baseline, candidate, paired, diffs, attempts, refused,
           calibration, cache, expected, cut, case>>

Nothing == [none |-> TRUE]

Positive == Nat \ {0}

\* Whole numbers; an interval of less than everything; and a judge's scales
\* above the 0 of a veto.
StatisticsConstants ==
  /\ IsFiniteSet(Keys) /\ Pnls \subseteq Int
  /\ Resamples \in Positive /\ AlphaInverse \in Nat \ {0, 1} /\ Comparisons \subseteq Positive
  /\ \A h \in Histograms : /\ DOMAIN h \subseteq Positive /\ IsFiniteSet(DOMAIN h)
                           /\ \A s \in DOMAIN h : h[s] \in Nat
  /\ Vetoes \subseteq Nat /\ BarPrices \subseteq Int /\ IsFiniteSet(Dates)

-----------------------------------------------------------------------------
(* significance.py.                                                        *)

Sixths(sum, n) == (6 * sum) \div n
Mean(arm) == Sixths(SumFunctionOnSet(arm, DOMAIN arm), Cardinality(DOMAIN arm))

\* round(sqrt(n)) for n up to 6.
_block_length(n) == IF n <= 2 THEN 1 ELSE 2

\* The n indices one replicate draws, in blocks that wrap around.
Draws(n) ==
  LET b == _block_length(n)
      blocks == (n + b - 1) \div b
  IN {[i \in 1 .. n |-> (((starts[((i - 1) \div b) + 1] - 1) + ((i - 1) % b)) % n) + 1] :
        starts \in [1 .. blocks -> 1 .. n]}

InOrder(S) ==
  [k \in 1 .. Cardinality(S) |-> CHOOSE x \in S : Cardinality({y \in S : y <= x}) = k]
Drawn(arm, draw) == \* sum and number of the arm's trades among the keys drawn
  LET at == {i \in DOMAIN draw : draw[i] \in DOMAIN arm}
  IN [sum |-> SumFunctionOnSet([i \in at |-> arm[draw[i]]], at), n |-> Cardinality(at)]
\* Keys by their place among the keys of the arms.
At(keys, draw) == [i \in DOMAIN draw |-> keys[draw[i]]]

\* One index draw for both arms; a replicate may hold no trade of one.
Paired(b, c) ==
  LET keys == InOrder(DOMAIN b \cup DOMAIN c)
  IN {<<Drawn(b, At(keys, d)), Drawn(c, At(keys, d))>> : d \in Draws(Len(keys))}
Plain(b, c) ==
  {<<Drawn(b, At(InOrder(DOMAIN b), d)), Drawn(c, At(InOrder(DOMAIN c), e))>> :
     d \in Draws(Cardinality(DOMAIN b)), e \in Draws(Cardinality(DOMAIN c))}
Replicates == IF paired THEN Paired(baseline, candidate) ELSE Plain(baseline, candidate)

\* The places of the interval's ends among the sorted replicates.
Ceiling(a, b) == -((-a) \div b)
lo_i(k) == Resamples \div (2 * k * AlphaInverse) + 1
hi_i(k) == LET q == 2 * k * AlphaInverse
           IN Min({Ceiling((q - 1) * Resamples, q), Resamples})

\* A paired interval reflects the replicates around the estimate.
Interval(k) ==
  LET theta == Mean(candidate) - Mean(baseline)
      ends == <<diffs[lo_i(k)], diffs[hi_i(k)]>>
  IN IF paired THEN [low |-> 2 * theta - ends[2], high |-> 2 * theta - ends[1]]
     ELSE [low |-> ends[1], high |-> ends[2]]
significant(ci) == ci.low > 0
not_worse(ci) == ci.high > 0

\* disjoint_report: a pure filter, as the trades kept against the removed.
disjoint_report(b, c) ==
  IF DOMAIN c \subseteq DOMAIN b /\ DOMAIN c # DOMAIN b /\ DOMAIN c # {}
  THEN [removed |-> Restrict(b, DOMAIN b \ DOMAIN c), kept |-> c] ELSE Nothing

Arms == UNION {[ks -> Pnls] : ks \in (SUBSET Keys) \ {{}}}

\* The replicates in order, with one more.
Sorted(xs, x) ==
  LET at == Cardinality({i \in DOMAIN xs : xs[i] <= x}) + 1
  IN [i \in 1 .. Len(xs) + 1 |-> IF i < at THEN xs[i] ELSE IF i = at THEN x ELSE xs[i - 1]]

Replicate ==
  /\ ~refused /\ Len(diffs) < Resamples /\ attempts < Redraws
  /\ \E r \in Replicates :
       IF r[1].n = 0 \/ r[2].n = 0
       THEN attempts' = attempts + 1 /\ diffs' = diffs
       ELSE /\ attempts' = 0
            /\ diffs' = Sorted(diffs, Sixths(r[2].sum, r[2].n) - Sixths(r[1].sum, r[1].n))
  /\ UNCHANGED <<kind, baseline, candidate, paired, refused, calibration, cache, expected, cut, case>>
Refuse ==
  /\ ~refused /\ attempts = Redraws
  /\ refused' = TRUE
  /\ UNCHANGED <<kind, baseline, candidate, paired, diffs, attempts, calibration, cache, expected, cut, case>>

-----------------------------------------------------------------------------
(* judge_model.py.  A calibration of v vetoes and a histogram of h         *)
(* decisions splits [0, 1) in v + h equal parts.                           *)

Calibrations == [hist : Histograms, vetoes : Vetoes, version : Versions]
Whole(cal) == cal.vetoes + SumFunctionOnSet(cal.hist, DOMAIN cal.hist)

\* The parts of each scale, the veto's as those of 0, and where they end.
Parts(cal) ==
  IF cal.vetoes = 0 THEN cal.hist
  ELSE [s \in {0} \cup DOMAIN cal.hist |-> IF s = 0 THEN cal.vetoes ELSE cal.hist[s]]
_cdf(cal) ==
  [s \in DOMAIN Parts(cal) |-> SumFunctionOnSet(Parts(cal), {x \in DOMAIN Parts(cal) : x <= s})]

scale_for(cal, u) ==
  LET above == {s \in DOMAIN _cdf(cal) : u < _cdf(cal)[s]}
  IN IF above = {} THEN 4 ELSE Min(above)

\* load_calibration checks the version of what it kept, too.
Usable(cal) == cal.version = expected
Loaded == IF cache # Nothing THEN cache ELSE calibration

\* One simulated verdict; an unusable calibration stops the run instead.
Judge(u) ==
  /\ cache' = IF cache # Nothing THEN cache ELSE IF Usable(Loaded) THEN Loaded ELSE Nothing
  /\ cut' = IF Usable(Loaded) THEN [by |-> Loaded.version, scale |-> scale_for(Loaded, u)] ELSE Nothing
  /\ UNCHANGED <<kind, baseline, candidate, paired, diffs, attempts, refused, calibration, expected, case>>

\* calibrate_judge.py writes a new file; the judge's inputs change.
Recalibrate ==
  /\ calibration' \in Calibrations
  /\ cut' = Nothing
  /\ UNCHANGED <<kind, baseline, candidate, paired, diffs, attempts, refused, cache, expected, case>>
NewVersion ==
  /\ expected' \in Versions \ {expected} /\ cut' = Nothing
  /\ UNCHANGED <<kind, baseline, candidate, paired, diffs, attempts, refused, calibration, cache, case>>

-----------------------------------------------------------------------------
(* randombaseline.py.                                                      *)

\* A trade's length on a series with bars of these dates, in order.
holding_bars(dates, entry, exit) ==
  LET from == {k \in DOMAIN dates : dates[k] >= entry}
      upto == {k \in DOMAIN dates : dates[k] <= exit}
  IN IF from = {} \/ upto = {} \/ Max(upto) <= Min(from) THEN 0 ELSE Max(upto) - Min(from)

\* The bars a random entry decides on, fills at the open of and leaves at
\* the close of.
random_entry(n, holding) ==
  IF holding < 1 THEN {}
  ELSE {[decided |-> i, filled |-> i + 1, left |-> i + holding] : i \in 1 .. n - holding}

-----------------------------------------------------------------------------
(* counterfactual.py.  A blocked entry at price 0; a bar is [low, high,    *)
(* close]; the profit is in units.                                         *)

Gain(short, price) == IF short THEN -price ELSE price
StopHit(short, bar, stop) == IF short THEN bar.high >= stop ELSE bar.low <= stop
TpHit(short, bar, tp) == IF short THEN bar.low <= tp ELSE bar.high >= tp

simulate_veto_counterfactual(bars, short, stop, tp) ==
  LET out == {i \in DOMAIN bars : StopHit(short, bars[i], stop) \/ TpHit(short, bars[i], tp)}
  IN IF out = {} THEN [reason |-> "horizon_close", gain |-> Gain(short, bars[Len(bars)].close)]
     ELSE IF StopHit(short, bars[Min(out)], stop)
     THEN [reason |-> "stop_loss", gain |-> Gain(short, stop)]
     ELSE [reason |-> "take_profit", gain |-> Gain(short, tp)]

Bars == {b \in [low : BarPrices, high : BarPrices, close : BarPrices] :
           b.low <= b.close /\ b.close <= b.high}
Mirror(bars) ==
  [i \in DOMAIN bars |-> [low |-> -bars[i].high, high |-> -bars[i].low, close |-> -bars[i].close]]

-----------------------------------------------------------------------------
OneTrade == [k \in {1} |-> 0]
OneBar == [bars |-> <<[low |-> 0, high |-> 0, close |-> 0]>>, dates |-> <<1>>]
Init ==
  /\ kind \in {"bootstrap", "judge", "replay"}
  /\ diffs = <<>> /\ attempts = 0 /\ refused = FALSE /\ cache = Nothing /\ cut = Nothing
  /\ IF kind = "bootstrap" THEN baseline \in Arms /\ candidate \in Arms /\ paired \in BOOLEAN
     ELSE baseline = OneTrade /\ candidate = OneTrade /\ paired = FALSE
  /\ IF kind = "judge" THEN calibration \in Calibrations /\ expected \in Versions
     ELSE calibration = Nothing /\ expected = 0
  /\ IF kind = "replay"
     THEN \/ \E n \in 1 .. 2 : case \in [bars : [1 .. n -> Bars], dates : {<<1>>}]
          \/ case \in [bars : {OneBar.bars}, dates : {InOrder(D) : D \in (SUBSET Dates) \ {{}}}]
     ELSE case = OneBar

Next ==
  \/ kind = "bootstrap" /\ (Replicate \/ Refuse)
  \/ kind = "judge" /\ (Recalibrate \/ NewVersion \/ \E u \in 0 .. Whole(Loaded) - 1 : Judge(u))

Spec == Init /\ [][Next]_stats

-----------------------------------------------------------------------------
\* Every interval is one: its ends in order, so that what is significant is
\* not worse; more comparisons only widen it; and arms that made the same
\* trades differ by nothing when they are paired.
IntervalsHonest ==
  kind = "bootstrap" /\ Len(diffs) = Resamples =>
    /\ \A k \in Comparisons :
         /\ Interval(k).low <= Interval(k).high
         /\ significant(Interval(k)) => not_worse(Interval(k))
         /\ \A j \in Comparisons : j < k =>
              Interval(k).low <= Interval(j).low /\ Interval(j).high <= Interval(k).high
    /\ paired /\ candidate = baseline =>
         \A k \in Comparisons : Interval(k) = [low |-> 0, high |-> 0]
    /\ LET d == disjoint_report(baseline, candidate)
       IN d # Nothing => DOMAIN d.removed \cup DOMAIN d.kept = DOMAIN baseline

\* The simulated judge draws each scale as often as the live one gave it, and
\* no haircut comes from a calibration of another judge, kept or not.
JudgeHonest ==
  kind = "judge" =>
    /\ cut # Nothing => cut.by = expected
    /\ LET drawn(s) == Cardinality({u \in 0 .. Whole(calibration) - 1 : scale_for(calibration, u) = s})
       IN /\ drawn(0) = calibration.vetoes
          /\ \A s \in DOMAIN calibration.hist : drawn(s) = calibration.hist[s]

\* A random entry decides before it fills, fills before it leaves and never
\* runs off the bars, for any trade the series can hold.
EntriesInRange ==
  kind = "replay" => \A entry, exit \in Dates :
    LET n == Len(case.dates)
    IN \A e \in random_entry(n, holding_bars(case.dates, entry, exit)) :
         1 <= e.decided /\ e.decided < e.filled /\ e.filled <= e.left /\ e.left <= n

\* A blocked short is replayed as the mirror image of a blocked buy.
SidesMirror ==
  kind = "replay" => \A stop \in {-2, -1}, tp \in {1, 2} :
    simulate_veto_counterfactual(case.bars, FALSE, stop, tp)
      = simulate_veto_counterfactual(Mirror(case.bars), TRUE, -stop, -tp)
=============================================================================
