----------------------------- MODULE MCResearch -----------------------------
(* The research side on small instances: the simulators, the drawdown      *)
(* clock, the gate, its statistics, the record of its results, the judge's *)
(* score and the strategies.  They share no state; a behaviour is about    *)
(* one of them.                                                            *)
EXTENDS Research, TLC

(* The simulators: a day that falls through a stop to where no stop fits,  *)
(* a day that rises to a target; the second symbol may have no bar, and    *)
(* can be held only where the two simulators run beside each other.        *)
MCOrder == <<"a", "b">>
MCNames == <<"dip", "trend">>
Falling == [open |-> 4, low |-> 1, high |-> 5, close |-> 2]
Rising == [open |-> 5, low |-> 4, high |-> 7, close |-> 6]
Sinking == [Falling EXCEPT !.close = 3]
MCBars == {Rising, Falling, Sinking}
MCSides == [n \in {"dip", "trend"} |-> IF n = "dip" THEN {"buy", "short"} ELSE {"short"}]

(* The gate: arms that do better, worse and with nothing to compare, and   *)
(* otherwise on other data; specs that name each kind of clause.           *)
MCMissing == -100
Says(better, kept) ==
  [rule \in INTERVAL_RULES \cup PAIRED_RULES |->
     IF rule \in {"not_worse", "not_worse_paired"} THEN kept ELSE better]
Summary(pf, dd, n, ret, deployed) ==
  [pf |-> pf, dd |-> dd, n |-> n, ret |-> ret, win |-> n, hold |-> 10, deployed |-> deployed,
   symbol |-> "SPY", bench |-> 6, bench_dd |-> 4, hold_dd |-> 12,
   closed |-> TRUE, keyed |-> TRUE, against |-> Says(FALSE, TRUE)]
Baseline == Summary(10, 5, 20, 4, 50)
Wide == [Summary(12, 6, 30, 9, 60) EXCEPT !.against = Says(TRUE, TRUE)]
Narrow ==
  [Summary(11, 0, 5, 2, 10) EXCEPT !.bench = MCMissing, !.win = MCMissing, !.keyed = FALSE]
MCMeasured ==
  "baseline" :> <<Baseline, Summary(14, 5, 20, 12, 50)>>
  @@ "wide" :> <<Wide, Summary(9, 8, 12, 1, 60)>>
  @@ "narrow" :> <<Narrow, [Narrow EXCEPT !.closed = FALSE, !.pf = 13]>>
Clause(rule, arg) ==
  [rule |-> rule, arg |-> arg, order |-> <<>>, metric |-> "", better |-> "high", symbol |-> "SPY"]
Sweep(metric, better) ==
  [Clause("no_interior_optimum", 0) EXCEPT
     !.order = <<"baseline", "wide", "narrow">>, !.metric = metric, !.better = better]
Plain ==
  [claim |-> "DIAGNOSTIC", judge |-> "off", arms |-> <<"baseline", "wide">>, candidate |-> "",
   family |-> {}, clauses |-> {Clause("pf_gt_baseline", 0), Clause("maxdd_within", 1)},
   snapshot |-> 1]
Edge ==
  [Plain EXCEPT !.judge = "on", !.claim = "EDGE", !.arms = <<"baseline", "narrow", "wide">>,
                !.family = {"narrow", "wide"},
                !.clauses = {Clause("min_trades", 5), Clause("not_worse", 0)}]
MCSpecs ==
  {Plain, Edge,
   [Plain EXCEPT !.clauses = {Clause("significantly_better", 0), Clause("not_worse_paired", 0),
                              Clause("significantly_better_paired", 0),
                              Clause("beats_benchmark_risk_adjusted", 0)}],
   [Plain EXCEPT !.snapshot = 2, !.arms = <<"baseline">>,
                 !.clauses = {Clause("beats_benchmark_symbol", 0), Clause("beats_buy_hold", 0),
                              Clause("beats_exposure_matched", 0), Clause("enablement_gate", 0),
                              Clause("deployment_at_least", 40)}],
   [Plain EXCEPT !.candidate = "lost"],
   [Plain EXCEPT !.judge = "undeclared"],
   [Plain EXCEPT !.arms = <<"wide">>],
   [Plain EXCEPT !.snapshot = 2, !.arms = <<"baseline", "wide", "narrow">>, !.candidate = "narrow",
                 !.clauses = {Sweep("pf", "high"), Sweep("dd", "low")}],
   [Plain EXCEPT !.arms = <<"baseline", "wide", "narrow">>,
                 !.clauses = {Sweep("win", "high"), Clause("maxdd_within", 0),
                              [Clause("beats_benchmark_risk_adjusted", 0) EXCEPT !.symbol = "QQQ"]}]}

(* The statistics. *)
MCPnls == {-1, 2}
MCPrices == -2 .. 2
MCHistograms == {2 :> 1 @@ 4 :> 3, 1 :> 2 @@ 2 :> 1 @@ 4 :> 1}

(* The record: two specs of one section. *)
MCKeys == "s1a" :> "S1" @@ "s1b" :> "S1"
MCHeaders == {"s1a" :> "S1" @@ "s1b" :> None, "s1a" :> "S2" @@ "s1b" :> "S1"}

(* The strategies: months of four weekdays, six shapes of a price dealt to *)
(* four symbols in six ways.                                               *)
MCListed == <<"a", "b", "c", "d">>
MCCalendar == [d \in 1 .. 13 |-> [month |-> (d - 1) \div 4, left |-> 3 - ((d - 1) % 4)]]
NoReturn == [n |-> 0, d |-> 0]
MCBills ==
  [d \in 1 .. 13 |-> IF d < 5 THEN NoReturn ELSE [n |-> IF d < 10 THEN 2 ELSE 3, d |-> 2]]
Shapes ==
  << <<4, 4, 14, 14, 14, 13, 12, 14, 11, 12, 16, 17, 15>>,
     <<20, 18, 16, 14, 12, 10, 9, 11, 13, 16, 14, 12, 11>>,
     <<20, 20, 16, 12, 8, 8, 9, 13, 14, 12, 9, 8, 9>>,
     <<12, 16, 15, 8, 7, 9, 10, 13, 10, 15, 11, 16, 12>>,
     <<9, 9, 9, 14, 14, 13, 12, 9, 14, 8, 15, 15, 9>>,
     <<24, 20, 16, 17, 18, 18, 19, 23, 24, 20, 21, 22, 22>> >>
MonthVols == <<2, 3, 1, 4>>
Dealt(k) ==
  [s \in ToSet(MCListed) |->
    LET i == CHOOSE i \in 1 .. 4 : MCListed[i] = s IN
    [d \in 1 .. 13 |->
      LET x == Shapes[((i + k) % 6) + 1][d] IN
      [high |-> x + 1, low |-> x - 1, close |-> x,
       vol |-> IF d % 4 = 1 THEN MonthVols[(d + 3) \div 4] ELSE 1 + ((d * (i + 1) + k) % 4)]]]
MCPaths == {Dealt(k) : k \in 0 .. 5}
MCSectors == "x" :> {"a"} @@ "y" :> {"b"} @@ "z" :> {"c", "d"}
TomTilt == "tom_tilt" :> [hold_days |-> 2]
MCParams ==
  "ma_crossover" :> [fast |-> 2, slow |-> 3]
  @@ "tsmom" :> [momentum |-> 2, skip |-> 1, trend |-> 3, index |-> 2, symbol |-> "a"]
  @@ "xsmom" :> [lookback |-> 2, skip |-> 1, top |-> 25, exit |-> 50, bottom |-> 25]
  @@ "donchian" :> [entry |-> 3, exit |-> 2, trend |-> 3]
  @@ "meanrev" :> [rsi |-> 2, history |-> 4, buy_below |-> 10, trend |-> 6, exit |-> 3,
                   max_hold |-> 2]
  @@ "reclaim" :> [sector |-> 6, laggards |-> 2, constituents |-> 1, trend |-> 4, base |-> 2,
                   slope |-> 1, below |-> 1, buffer |-> 20, max_hold |-> 3]
  @@ "swing_sectors" :> [high |-> 4, count |-> 2, min_drawdown |-> 12, min_ranked |-> 2,
                         sma |-> 2, slope |-> 1, atr |-> 2, zone |-> 75, recovered |-> 5,
                         buffer |-> 3, max_hold |-> 2]
  @@ "hi52" :> [high |-> 4, top |-> 25, exit |-> 50, floor |-> 90]
  @@ "lowvol" :> [period |-> 2, bottom |-> 25, exit |-> 50]
  @@ "trend_hold" :> [ma |-> 3]
  @@ TomTilt
  @@ "vol_lever" :> [lookback |-> 2, readings |-> 2, enter |-> 90, exit |-> 100]
  @@ "gem" :> [us |-> "a", intl |-> "b", bonds |-> "c", lookback |-> 3]

-----------------------------------------------------------------------------
Parts == {"simulator", "clock", "gate", "statistics", "record", "score", "strategies"}

\* Once a registrar has checked a spec the author goes between it and another.
Begun == IF registrations # <<>> THEN {registrations[1].spec} ELSE {desk[g].row.spec : g \in InFlight}
Other(spec) == IF spec = Plain THEN Edge ELSE Plain

\* Two processes are under way, or a prior is read, before the section is
\* written: the ratios do not look at readings, nor the scores at sections.
Crossing == Cardinality(asked) + Cardinality(running) = 2

MCInit ==
  /\ part \in Parts
  /\ IF part # "gate" THEN file = Plain /\ data = 1 ELSE TRUE
  /\ IF part # "statistics" THEN kind = "replay" /\ case = Stat!OneBar ELSE TRUE
  /\ IF part # "strategies" THEN path = Dealt(0) ELSE TRUE
  /\ Sim!Init /\ Clock!Init /\ Init /\ Stat!Init /\ Rec!Init /\ Score!Init /\ Strat!Init
  /\ part # "simulator" => ~both
  /\ part # "clock" => equity = 14 /\ decay
  /\ part # "record" => header["s1b"] = None

MCNext ==
  /\ UNCHANGED part
  /\ \/ /\ part = "simulator" /\ Sim!Next /\ today'["a"] \in {Rising, Falling}
        /\ today'["b"] \in {NoBar, IF both THEN Sinking ELSE Falling}
        /\ UNCHANGED <<clock, gate, stats, record, score, walk>>
     \/ part = "clock" /\ Clock!Next /\ UNCHANGED <<sim, gate, stats, record, score, walk>>
     \/ /\ part = "gate" /\ Next
        /\ file' # file /\ Begun # {} => file' \in Begun \cup {Other(f) : f \in Begun}
        /\ UNCHANGED <<sim, clock, stats, record, score, walk>>
     \/ part = "statistics" /\ Stat!Next /\ UNCHANGED <<sim, clock, gate, record, score, walk>>
     \/ /\ part = "record" /\ Rec!Next
        /\ text' # text => text'["S1"].trailer \in {None, {"s1a"}, DOMAIN regs}
        /\ [id |-> "s1b", prior |-> 2] \notin asked'
        /\ Crossing' => {e.id : e \in asked' \cup running'} = {"s1a"}
        /\ Crossing' \/ read' # <<>> =>
             text' = [s \in Sections |-> None] /\ header["s1b"] = None
        /\ read' # read => Last(read').id = "s1a"
        /\ UNCHANGED <<sim, clock, gate, stats, score, walk>>
     \/ part = "score" /\ Score!Next /\ UNCHANGED <<sim, clock, gate, stats, record, walk>>
     \/ /\ part = "strategies" /\ Strat!Next
        /\ events' # events =>
             \E n \in {"xsmom", "meanrev", "reclaim", "swing_sectors"} : book'[n]["d"] # book[n]["d"]
        /\ UNCHANGED <<sim, clock, gate, stats, record, score>>

MCSpec == MCInit /\ [][MCNext]_<<part, sim, clock, gate, stats, record, score, walk>>

=============================================================================
