------------------------------- MODULE Preflight -------------------------------
(***************************************************************************)
(* What a cycle asks of its configuration before anything else             *)
(* (src/preflight.py), and what the rest of the program then makes of the  *)
(* same values.                                                            *)
(*                                                                         *)
(* A configuration is edited key by key; each cycle reads it, runs the     *)
(* checks and, when they find nothing, trades on it.  A key that is         *)
(* missing, no number or a boolean has a value of its own.  The readers    *)
(* never raise on such values: most fall back to a default, which is why   *)
(* the checks must refuse them first.                                      *)
(***************************************************************************)
EXTENDS Integers, FiniteSets, Sequences, SequencesExt

CONSTANTS
  Stocks,        \* symbols of the core and the sectors
  Funds,         \* symbols of core funds, etfs and sector_etfs
  Sound,         \* configurations a deployment starts from
  MaxEdits       \* bound: edits of a configuration

Absent == -99
Junk   == -98    \* not a number
Yes    == -97    \* a boolean, which Python counts among the ints

VARIABLES
  cfg,           \* config.yaml, the environment, the account and the host
  fails, warned, \* what the last preflight found
  at,            \* "off", or "cycle" while one trades
  edits

pre == <<cfg, fails, warned, at, edits>>

IsNumber(v) == v \notin {Absent, Junk}
Number(v) == IF v = Yes THEN 1 ELSE v
IsPlain(v) == v \notin {Absent, Junk, Yes}
Bad(tag, holds) == IF holds THEN {tag} ELSE {}

-----------------------------------------------------------------------------
(* The checks.                                                             *)

REQUIRED_POSITIVE_RISK ==
  {"risk_per_trade_pct", "max_position_pct", "daily_loss_limit_pct", "min_holding_days"}
DISABLEABLE_RISK == {"max_order_value_usd", "max_trades_per_day"}
PERCENT_OF_EQUITY_RAILS ==
  {"risk_per_trade_pct", "max_position_pct", "daily_loss_limit_pct", "max_drawdown_pct",
   "max_portfolio_heat_pct"}
OPS == {"broker_timeout_sec", "broker_retry_attempts", "broker_retry_budget_sec"}

risk_numbers(c) ==
  {k \in REQUIRED_POSITIVE_RISK : ~IsNumber(c[k]) \/ Number(c[k]) <= 0}
  \cup {k \in DISABLEABLE_RISK : ~IsNumber(c[k]) \/ Number(c[k]) < 0}
  \cup {k \in PERCENT_OF_EQUITY_RAILS : IsPlain(c[k]) /\ c[k] > 100}
  \cup Bad("min_universe_fraction",
           LET v == c["min_universe_fraction"] IN v # Absent /\ ~(IsPlain(v) /\ v \in 0 .. 100))
  \cup {k \in OPS : c[k] # Absent /\ ~(IsPlain(c[k]) /\ c[k] >= 0)}
  \cup Bad("max_attempts", c["max_attempts"] # Absent /\ ~(IsPlain(c["max_attempts"]) /\ c["max_attempts"] > 0))
  \cup Bad("auto_retry_flatten", c["auto_retry_flatten"] \notin {Absent, Yes})

\* The account the mode names must be the one that is traded.
interlock(c) ==
  Bad("mode", c["mode"] = "other") \cup Bad("timeframe", ~c["daily_bars"])
  \cup Bad("interlock", c["mode"] = "live" /\ ~c["confirmed"])

\* A risk per trade above the heat cap, while no bracket gives a stop.
heat_trap(c) ==
  Bad("heat_trap",
      /\ Number(c["max_portfolio_heat_pct"]) > 0
      /\ Number(c["risk_per_trade_pct"]) > Number(c["max_portfolio_heat_pct"])
      /\ ~c["brackets"])

\* A net exposure band whose floor is not below its ceiling.
net_band(c) ==
  Bad("net_exposure_pct", c["band"] = "junk" \/
      (c["band"] = "block" /\ ~(IsPlain(c["net_min"]) /\ IsPlain(c["net_max"]) /\ c["net_min"] < c["net_max"])))

needs_key(c) == c["provider"] # "local"    \* an unknown one reads as the default
key_shape_fail(c) == c["key"] \in {"pasted twice", "foreign", "cut"}

\* A bug: any policy will do, as the reader has a default.
judgeAnyPolicy(c) ==
  IF ~c["llm_enabled"] THEN {} ELSE
  Bad("provider", c["provider"] = "other")
  \cup IF needs_key(c) THEN Bad("key", c["key"] = "absent" \/ key_shape_fail(c))
       ELSE Bad("base_url", ~c["base_url"])
judge(c) ==
  IF ~c["llm_enabled"] THEN {} ELSE
  Bad("provider", c["provider"] = "other")
  \cup (IF needs_key(c) THEN Bad("key", c["key"] = "absent" \/ key_shape_fail(c))
        ELSE Bad("base_url", ~c["base_url"]))
  \cup Bad("on_unavailable", c["on_unavailable"] = "other")
  \cup Bad("timeout_seconds", c["timeout_seconds"] # Absent
                              /\ ~(IsNumber(c["timeout_seconds"]) /\ Number(c["timeout_seconds"]) > 0))

regime(c) ==
  IF ~c["regime"] THEN {"regime"} ELSE
  Bad("sma_period", ~(IsNumber(c["sma_period"]) /\ Number(c["sma_period"]) >= 1))
  \cup Bad("vol_period", ~(IsNumber(c["vol_period"]) /\ Number(c["vol_period"]) >= 2))

\* The stocks of the sectors; two lists that share one are refused.
Mapped(c) == UNION {c["sectors"].of[x] : x \in DOMAIN c["sectors"].of}
sectors(c) ==
  IF c["sectors"].kind = "absent" THEN {} ELSE
  Bad("sectors", \/ c["sectors"].kind = "junk"
                 \/ \E x \in DOMAIN c["sectors"].of : c["sectors"].of[x] = {}
                 \/ \E x, y \in DOMAIN c["sectors"].of :
                      x # y /\ c["sectors"].of[x] \cap c["sectors"].of[y] # {})

Twice(list) == Cardinality(ToSet(list)) < Len(list)
etfs(c) ==
  Bad("etfs", c["etfs"].given /\
      (c["etfs"].list = <<>> \/ ToSet(c["etfs"].list) \ c["symbols"] # {} \/ Twice(c["etfs"].list)))
  \cup Bad("exclude_etfs", c["exclude_etfs"] /\ c["etfs"].list = <<>>)
sector_etfs(c) ==
  Bad("sector_etfs", c["sector_etfs"].given /\
      (c["sector_etfs"].list = <<>> \/ Twice(c["sector_etfs"].list)
       \/ ToSet(c["sector_etfs"].list) \cap Mapped(c) # {}))

\* The strategy's universe is one that exists and is not empty.
universe(c) ==
  Bad("universe", \/ c["universe"] = "other"
                  \/ c["universe"] = "sectors" /\ c["sectors"].kind # "junk" /\ DOMAIN c["sectors"].of = {}
                  \/ c["universe"] = "sector_etfs" /\ c["sector_etfs"].list = <<>>
                  \/ c["universe"] = "spy_only" /\ ~c["spy_only"]
                  \/ c["universe"] = "gem_legs" /\ ~c["gem_legs"])

concentration(c) ==
  Bad("sector_concentration",
      c["concentration"] /\ ~(IsPlain(c["max_per_sector"]) /\ c["max_per_sector"] >= 1))

\* The ledger: its last line as JSONL, all of it in a database, where its last
\* record must be an object too.
_ledger_tail_fails(c) ==
  Bad("ledger", c["tail"] = "torn" \/ (c["backend"] = "sqlite" /\ c["tail"] \in {"torn before", "no object"}))
\* Paths that only a health check may move.
_state_path_fails(c) == {k \in {"heartbeat_path", "halt_path"} : c[k] = "moved"}

run(c) ==
  risk_numbers(c) \cup interlock(c) \cup heat_trap(c) \cup net_band(c) \cup judge(c)
  \cup Bad("env", ~c["env"]) \cup regime(c) \cup sectors(c) \cup etfs(c) \cup sector_etfs(c)
  \cup universe(c) \cup concentration(c) \cup Bad("memory", ~c["memory_writable"])
  \cup _ledger_tail_fails(c) \cup _state_path_fails(c)

\* Once the broker has answered: an account that may not short.
run_account_checks(c) ==
  Bad("shorting", ~c["shorting_enabled"] /\ c["enabled"] /\ c["short_bottom_fraction"])

\* Said, and never a reason to stop.
probe(c) == ~needs_key(c) /\ (~c["base_url"] \/ c["endpoint_down"])
host_warnings(c) ==
  Bad("nobody is told", c["channel"] = "log-only" /\ ~c["incident_owner"])
  \cup Bad("judge unreachable", c["llm_enabled"] /\ probe(c))
warnings(c) ==
  Bad("oversubscribed", c["budgets"] = "over") \cup Bad("unbounded", c["budgets"] = "unbounded")

-----------------------------------------------------------------------------
(* The readers.                                                            *)

max_attempts(c) ==
  IF IsNumber(c["max_attempts"]) /\ Number(c["max_attempts"]) > 0 THEN Number(c["max_attempts"]) ELSE 4
timeout_seconds(c) ==
  IF IsNumber(c["timeout_seconds"]) /\ Number(c["timeout_seconds"]) > 0
  THEN Number(c["timeout_seconds"]) ELSE 60
unavailable_policy(c) == IF c["on_unavailable"] = "block" THEN "block" ELSE "approve"
_create(c) == c["provider"] # "other" /\ (needs_key(c) => c["key"] = "sound") /\ (~needs_key(c) => c["base_url"])
LiveAccount(c) == c["mode"] = "live" /\ c["confirmed"]
HasStop(c) == c["brackets"]

universe_for(c) ==
  (CASE c["universe"] = "core" -> c["symbols"]
     [] c["universe"] = "sectors" -> Mapped(c)
     [] c["universe"] = "sector_etfs" -> ToSet(c["sector_etfs"].list)
     [] c["universe"] = "spy_only" -> IF c["spy_only"] THEN {"SPY"} ELSE {}
     [] c["universe"] = "gem_legs" -> IF c["gem_legs"] THEN {"SPY"} ELSE {}
     [] OTHER -> {})
  \ (IF c["exclude_etfs"] THEN ToSet(c["etfs"].list) ELSE {})

\* The heat cap refuses an entry without a stop on its own charge.
AloneTooHot(c) ==
  /\ ~HasStop(c) /\ Number(c["max_portfolio_heat_pct"]) > 0
  /\ Number(c["risk_per_trade_pct"]) > Number(c["max_portfolio_heat_pct"])

\* At this net exposure the band refuses the smallest buy, the smallest short.
NoBuy(c, net) == c["band"] = "block" /\ IsNumber(c["net_max"]) /\ net + 1 > Number(c["net_max"])
NoShort(c, net) == c["band"] = "block" /\ IsNumber(c["net_min"]) /\ net - 1 < Number(c["net_min"])

\* Whether a sector without a position has a place for one.
PlaceInSector(c) == ~c["concentration"] \/ Number(c["max_per_sector"]) > 0
\* The share of its symbols without which a cycle does not enter.
min_fraction(c) == IF c["min_universe_fraction"] = Absent THEN 80 ELSE Number(c["min_universe_fraction"])

-----------------------------------------------------------------------------

Edit(key, value) ==
  /\ at = "off" /\ edits < MaxEdits /\ edits' = edits + 1
  /\ cfg[key] # value /\ cfg' = [cfg EXCEPT ![key] = value]
  /\ UNCHANGED <<fails, warned, at>>

\* A cycle boots: the checks of the configuration, then those of the account.
Boot ==
  /\ at = "off"
  /\ fails' = IF run(cfg) # {} THEN run(cfg) ELSE run_account_checks(cfg)
  /\ warned' = IF run(cfg) # {} THEN {} ELSE warnings(cfg) \cup host_warnings(cfg)
  /\ at' = IF fails' = {} THEN "cycle" ELSE "off"
  /\ UNCHANGED <<cfg, edits>>

Finish == at = "cycle" /\ at' = "off" /\ UNCHANGED <<cfg, fails, warned, edits>>

Lists == [given : BOOLEAN, list : {<<>>} \cup {<<x>> : x \in Funds} \cup {<<x, x>> : x \in Funds}]
Groups ==
  {[kind |-> k, of |-> [x \in {} |-> {}]] : k \in {"absent", "junk", "map"}}
  \cup {[kind |-> "map", of |-> f] : f \in [{"x", "y"} -> SUBSET Stocks]}

\* The values a key may be edited to.
Values(key) ==
  CASE key \in REQUIRED_POSITIVE_RISK -> {Junk, Yes, 0, 8, 101}
    [] key \in DISABLEABLE_RISK -> {Absent, -1, 0}
    [] key \in {"max_drawdown_pct", "max_portfolio_heat_pct"} -> {0, 4, 25, 101}
    [] key = "min_universe_fraction" -> {Absent, Junk, -1, 0, 80, 150}
    [] key \in OPS -> {Absent, -1, 30}
    [] key = "max_attempts" -> {Absent, Junk, Yes, 0, 2}
    [] key = "auto_retry_flatten" -> {Absent, Junk, Yes}
    [] key \in {"net_min", "net_max"} -> {Absent, Junk, Yes, -30, 0, 130}
    [] key = "timeout_seconds" -> {Absent, Junk, -1, 0, 30}
    [] key \in {"sma_period", "vol_period"} -> {Absent, Junk, Yes, 0, 1, 20}
    [] key = "max_per_sector" -> {Absent, Junk, Yes, 0, 3}
    [] key = "band" -> {"absent", "junk", "block"}
    [] key = "mode" -> {"paper", "live", "other"}
    [] key = "provider" -> {"anthropic", "local", "other"}
    [] key = "key" -> {"sound", "absent", "pasted twice", "foreign", "cut"}
    [] key = "on_unavailable" -> {"absent", "approve", "block", "other"}
    [] key = "universe" -> {"core", "sectors", "sector_etfs", "spy_only", "gem_legs", "other"}
    [] key = "sectors" -> Groups
    [] key \in {"etfs", "sector_etfs"} -> Lists
    [] key = "backend" -> {"jsonl", "sqlite"}
    [] key = "tail" -> {"empty", "whole", "torn", "torn before", "no object"}
    [] key \in {"heartbeat_path", "halt_path"} -> {"default", "moved"}
    [] key = "channel" -> {"webhook", "desktop", "log-only"}
    [] key = "budgets" -> {"fit", "over", "unbounded"}
    [] key = "symbols" -> {}
    [] OTHER -> BOOLEAN

\* What a configuration holds: a number or what stands for none, a switch, or
\* one of the words a reader knows or another.
Numeric == {"max_attempts", "timeout_seconds", "min_universe_fraction", "max_per_sector",
            "risk_per_trade_pct", "max_portfolio_heat_pct", "net_min", "net_max"}
Switches == {"llm_enabled", "confirmed", "brackets", "base_url", "exclude_etfs", "spy_only", "gem_legs",
             "concentration", "enabled", "short_bottom_fraction", "shorting_enabled"}
Worded == {"band", "mode", "provider", "key", "on_unavailable", "universe", "heartbeat_path", "halt_path"}
Formed(c) ==
  /\ Numeric \cup Switches \cup Worded \cup {"sectors", "etfs", "sector_etfs", "symbols"} \subseteq DOMAIN c
  /\ \A key \in Numeric : c[key] \in Int
  /\ \A key \in Switches : c[key] \in BOOLEAN
  /\ \A key \in Worded : c[key] \in Values(key)
  /\ c["sectors"] \in Groups /\ c["etfs"] \in Lists /\ c["sector_etfs"] \in Lists
  /\ c["symbols"] # {}

Init == cfg \in Sound /\ fails = {} /\ warned = {} /\ at = "off" /\ edits = 0
Next == (\E key \in DOMAIN cfg : \E value \in Values(key) : Edit(key, value)) \/ Boot \/ Finish
Spec == Init /\ [][Next]_pre

-----------------------------------------------------------------------------
\* What a cycle trades on is what the operator wrote: no reader falls back to
\* a default for a value that was given, an order is of the account the mode
\* names, and the freeze and the monitors look at one file.
NoReaderFallsBack ==
  at = "cycle" =>
    /\ cfg["max_attempts"] # Absent => max_attempts(cfg) = cfg["max_attempts"]
    /\ cfg["llm_enabled"] /\ cfg["timeout_seconds"] # Absent => timeout_seconds(cfg) = Number(cfg["timeout_seconds"])
    /\ cfg["llm_enabled"] /\ cfg["on_unavailable"] # "absent" =>
         unavailable_policy(cfg) = cfg["on_unavailable"]
    /\ cfg["mode"] = "live" <=> LiveAccount(cfg)
    /\ cfg["halt_path"] = "default" /\ cfg["heartbeat_path"] = "default"

\* A configuration that is cleared does not refuse every entry by itself: a
\* judge that is asked can be called, some symbol may be entered unless the
\* funds taken out are all there is, and no rail is shut for every order.
NotShutOut ==
  at = "cycle" =>
    /\ cfg["llm_enabled"] => _create(cfg)
    /\ universe_for(cfg) # {} \/ (cfg["exclude_etfs"] /\ cfg["etfs"].list # <<>>)
    /\ ~AloneTooHot(cfg) /\ PlaceInSector(cfg) /\ min_fraction(cfg) \in 0 .. 100
    /\ \A net \in {Number(cfg["net_min"]), Number(cfg["net_max"])} : ~(NoBuy(cfg, net) /\ NoShort(cfg, net))
    /\ cfg["enabled"] /\ cfg["short_bottom_fraction"] => cfg["shorting_enabled"]
=============================================================================
