------------------------------- MODULE MCLive --------------------------------
(* The parts of a live cycle on small instances: its preflight, its news,  *)
(* its scan, stops, reads, sizes and judge (LiveCycle), what the judge     *)
(* reads, the signals it leaves, and the scan of swing_sectors between the *)
(* cycles.  They share no state; a behaviour is about one of them.  The    *)
(* signals are looked at three times: the mirror over a weekend, and two   *)
(* days of cycles with traps or with alarms.                               *)
EXTENDS LiveCycle, OpsSignals, TLC

VARIABLE part

(* The scan. *)
MCCores == {<<"SPY", "a">>, <<"SPY">>}
MCEnabled == <<"dip", "trend">>
MCWide == [n \in Strategies |-> IF n = "trend" THEN {"w"} ELSE {}]
MCCooldown == [n \in Strategies |-> IF n = "dip" THEN 1 ELSE 0]
MCCap == [n \in Strategies |-> IF n = "dip" THEN 1 ELSE 0]

(* The sizes. *)
Common ==
  [brackets |-> TRUE, base |-> 2, high |-> 3, own |-> 0, tp |-> 0, risk_pct |-> 5, target |-> 0,
   per_trade |-> 10, max_position |-> 20, max_order |-> 0, floor |-> TRUE]
MCSettings ==
  {Common,
   [Common EXCEPT !.own = 4, !.risk_pct = 0, !.target = 20],
   [Common EXCEPT !.tp = 6, !.max_order = 6],
   [Common EXCEPT !.brackets = FALSE, !.floor = FALSE]}

(* The judge. *)
MCModels ==
  {m \in [enabled : BOOLEAN, key : {"set", "absent", "keyless"}, fallback_model : BOOLEAN,
          on_unavailable : {"approve", "block", "junk"}, candidates : {<<>>, <<"x", "y">>}] :
     ~m.enabled => m.key = "set" /\ m.candidates = <<>>}
MCReplies ==
  [verdict : {"approve", "downsize", "veto", "maybe"}, scale : {-1, 0, 1, 2, 4, 98, 97, 99}]

(* The scan of swing_sectors. *)
MCOrder == <<"a", "w">>

(* The preflight: what is deployed, and a sound configuration unlike it. *)
MCNumbers ==
  "risk_per_trade_pct" :> 8 @@ "max_position_pct" :> 20 @@ "daily_loss_limit_pct" :> 3
  @@ "min_holding_days" :> 1 @@ "max_order_value_usd" :> 0 @@ "max_trades_per_day" :> 15
  @@ "max_drawdown_pct" :> 25 @@ "max_portfolio_heat_pct" :> 25 @@ "min_universe_fraction" :> 80
  @@ "broker_timeout_sec" :> 30 @@ "broker_retry_attempts" :> 2 @@ "broker_retry_budget_sec" :> 60
  @@ "max_attempts" :> 4 @@ "auto_retry_flatten" :> -97 @@ "net_min" :> -30 @@ "net_max" :> 130
  @@ "timeout_seconds" :> 60 @@ "sma_period" :> 50 @@ "vol_period" :> 20 @@ "max_per_sector" :> 3
MCOn ==
  {"daily_bars", "brackets", "llm_enabled", "base_url", "env", "regime", "spy_only", "gem_legs",
   "enabled", "concentration", "memory_writable", "shorting_enabled", "incident_owner"}
MCOff == {"confirmed", "exclude_etfs", "short_bottom_fraction", "endpoint_down"}
MCDeployed ==
  "band" :> "block" @@ "mode" :> "paper" @@ "provider" :> "anthropic" @@ "key" :> "sound"
  @@ "on_unavailable" :> "block" @@ "universe" :> "core" @@ "backend" :> "jsonl"
  @@ "tail" :> "whole" @@ "heartbeat_path" :> "default" @@ "halt_path" :> "default"
  @@ "channel" :> "webhook" @@ "budgets" :> "fit" @@ "symbols" :> {"a", "SPY"}
  @@ "sectors" :> [kind |-> "map", of |-> "x" :> {"a"} @@ "y" :> {"w"}]
  @@ "etfs" :> [given |-> TRUE, list |-> <<"SPY">>]
  @@ "sector_etfs" :> [given |-> TRUE, list |-> <<"SPY">>]
  @@ MCNumbers @@ [k \in MCOn \cup MCOff |-> k \in MCOn]
MCSound ==
  {MCDeployed,
   [MCDeployed EXCEPT !["provider"] = "local", !["key"] = "absent", !["universe"] = "sectors",
      !["short_bottom_fraction"] = TRUE, !["on_unavailable"] = "approve",
      !["backend"] = "sqlite", !["exclude_etfs"] = TRUE, !["brackets"] = FALSE]}
pre == <<cfg, fails, warned, boot, edits>>

(* The news. *)
MCFeeds == {<<<<Dead, Dead>>, <<Dead>>>>, <<<<2, 2>>, <<1>>>>, <<<<2, 0>>, <<2>>>>}
MCNominations == {<<"u", "n", "n", "m">>}
brain == <<today, file, memory, events, where, fetched, distilled, watch, shown, refreshes, closes,
           fitted, told>>

(* What the judge reads. *)
CONSTANTS Failed, SampleSize, Quota, Lookback, RecallCap, DossierCap, Note, MaxSample
VARIABLES shape, past, prompt
MCBlocks == {"book", "trades", "research", "lessons", "knowledge", "market_context",
             "news_memory", "scoreboard", "calibration", "regime"}
MCShapes ==
  {[total |-> t, named |-> [b \in MCBlocks |-> IF b \in named THEN 2 ELSE 0]] :
     t \in {12, 40}, named \in {MCBlocks}}
  \cup {[total |-> 12, named |-> [b \in MCBlocks |-> 0]]}
MCAssembled ==
  {[b \in MCBlocks |-> IF b \in big THEN 4 ELSE 1] :
     big \in {{}, {"lessons", "news_memory"}, MCBlocks}}
MCLabel ==
  [b \in MCBlocks |->
     IF b \in {"trades", "research", "lessons", "knowledge", "regime"} THEN 1 ELSE 0]
MCTools == {<<>>, <<2, Failed, 1, 1>>}
Read == INSTANCE JudgePrompt WITH
  Configs <- MCShapes, config <- shape, closed <- past,
  Assembled <- MCAssembled, Label <- MCLabel, Tools <- MCTools
brief == <<shape, past, prompt>>

Parts == {"news", "prompt", "preflight", "swing", "scan", "stops", "sizes", "judge", "reads", "mirror", "traps", "alarms"}

MCInit ==
  /\ part \in Parts
  /\ IF part # "judge" THEN llm = CHOOSE m \in MCModels : ~m.enabled ELSE TRUE
  /\ Init /\ CallInit /\ GuardInit /\ SizeInit /\ ReadsInit /\ SignalsInit /\ SwingInit
  /\ IF part = "preflight" THEN Pre!Init
     ELSE cfg = <<>> /\ fails = {} /\ warned = {} /\ boot = "off" /\ edits = 0
  /\ Brain!Init /\ Read!Init /\ (part # "prompt" => shape = CHOOSE c \in MCShapes : TRUE)
  /\ part # "sizes" => set = Common
  /\ part # "scan" => core = <<"SPY">>

OpsNext ==
  \/ part = "mirror" /\ (Mirror \/ Tick)
  \/ part = "traps" /\ SignalsNext /\ clock' < 7 /\ receipt' = receipt /\ drifted' = drifted
     /\ (cycle = "run" => cycle' # "run")
  \/ part = "alarms" /\ SignalsNext /\ clock' < 7 /\ receipt' = receipt /\ bare' = bare

MCNext ==
  /\ UNCHANGED part
  /\ \/ /\ part \notin {"preflight", "swing", "news", "prompt"}
        /\ UNCHANGED <<pre, swing, brain, brief>>
        /\ \/ /\ part = "scan" /\ Next /\ owner'["SPY"] = None
              /\ UNCHANGED <<guard, sizing, judge, reads, ops>>
           \/ part = "stops" /\ GuardNext /\ UNCHANGED <<scan, sizing, judge, reads, ops>>
           \/ part = "sizes" /\ SizeNext /\ UNCHANGED <<scan, guard, judge, reads, ops>>
           \/ part = "judge" /\ CallNext /\ UNCHANGED <<scan, guard, sizing, reads, ops>>
           \/ part = "reads" /\ ReadsNext /\ UNCHANGED <<scan, guard, sizing, judge, ops>>
           \/ OpsNext /\ UNCHANGED <<scan, guard, sizing, judge, reads>>
     \/ /\ UNCHANGED <<scan, guard, sizing, judge, reads, ops>>
        /\ \/ part = "preflight" /\ Pre!Next /\ UNCHANGED <<swing, brain, brief>>
           \/ part = "swing" /\ SwingNext /\ UNCHANGED <<pre, brain, brief>>
           \/ part = "news" /\ Brain!Next /\ UNCHANGED <<pre, swing, brief>>
           \/ part = "prompt" /\ Read!Next /\ UNCHANGED <<pre, swing, brain>>

MCSpec == MCInit /\ [][MCNext]_<<part, scan, guard, sizing, judge, reads, ops, swing, pre, brain, brief>>

\* What a cycle starts from: a configuration that preflight clears means what
\* it says and does not refuse every entry; the news it scans by is today's
\* and validated, was read from all its sources, and is recalled as it was;
\* and its judge reads what it was to read, its share of losers with it, or
\* the ledger names what it did not.
InputsHonest ==
  /\ part = "preflight" => Pre!NoReaderFallsBack /\ Pre!NotShutOut
  /\ part = "news" => Brain!WatchFresh /\ Brain!BudgetFair /\ Brain!RecallBounded
  /\ part = "prompt" => Read!EvictionTold /\ Read!BudgetsSuffice /\ Read!LosersRead
=============================================================================
