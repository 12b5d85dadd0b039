----------------------------- MODULE RailCensus -----------------------------
(***************************************************************************)
(* The census of the rails (rail_census and first_refusing_rail of         *)
(* src/risk.py), a second implementation of pure_checks that a refused     *)
(* entry is recorded with: one verdict for every rail of PURE_RAILS, where *)
(* pure_checks stops at the first.  pure_checks of RiskRails is the set of *)
(* rails that refuse; the one the code raises is the first in PURE_RAILS.  *)
(***************************************************************************)
EXTENDS RiskRails

Unknown == -2   \* an argument the caller leaves out

\* "refuses", "clears", or "na": disabled, or of another action.
Verdict(asked, refuses) == IF ~asked THEN "na" ELSE IF refuses THEN "refuses" ELSE "clears"

PURE_RAILS == <<"zero_qty", "order_value_cap", "drawdown", "max_open_positions",
                "strategy_slots", "position_cap", "regime_exposure", "net_exposure",
                "desync_sell", "desync_cover", "direction_conflict", "sector_concentration">>

\* The net exposure with the order in it.
Projected(o) == Net(positions) + (IF o.action = "buy" THEN Value(o) ELSE -Value(o))

\* mine: the strategy's open entries; p: the peak.  Either may be Unknown.
rail_census(o, p, mine) ==
  LET entry == o.action \in Entries
      value == Value(o)
      mv    == MarketValue(o.symbol, positions)
      new   == o.symbol \notin Held(positions)
      net   == Projected(o)
      asked(limit) == entry /\ risk[limit] # 0
  IN [zero_qty |-> Verdict(TRUE, o.qty <= 0),
      order_value_cap |-> Verdict(risk["max_order_value_usd"] # 0,
                                  value > risk["max_order_value_usd"]),
      drawdown |-> Verdict(asked("max_drawdown_pct") /\ p # Unknown,
                           drawdown_over(equity, p, risk["max_drawdown_pct"])),
      max_open_positions |-> Verdict(asked("max_open_positions"),
        Cardinality(Held(positions)) >= risk["max_open_positions"] /\ new),
      strategy_slots |-> Verdict(asked("max_per_strategy") /\ mine # Unknown,
                                 mine >= risk["max_per_strategy"] /\ new),
      position_cap |-> Verdict(entry, (Abs(mv) + value) * 100 > equity * risk["max_position_pct"]),
      regime_exposure |-> Verdict(asked("down_max_gross_pct") /\ down,
        (Gross(positions) + value) * 100 > equity * risk["down_max_gross_pct"]),
      net_exposure |->
        IF o.action = "buy" THEN Verdict(asked("net_max"), net * 100 > equity * risk["net_max"])
        ELSE Verdict(asked("net_min"), net * 100 < equity * risk["net_min"]),
      desync_sell |-> Verdict(o.action = "sell", mv <= 0),
      desync_cover |-> Verdict(o.action = "cover", mv >= 0),
      direction_conflict |-> Verdict(entry, IF o.action = "short" THEN mv > 0 ELSE mv < 0),
      sector_concentration |-> Verdict(asked("max_per_sector") /\ SectorOf[o.symbol] # NoSector,
        sector_open_count(o.symbol, positions) >= risk["max_per_sector"])]

Refusers(census) == {i \in DOMAIN PURE_RAILS : census[PURE_RAILS[i]] = "refuses"}
first_refusing_rail(census) ==
  IF Refusers(census) = {} THEN "none" ELSE PURE_RAILS[Min(Refusers(census))]

\* _rail_census_safe passes neither the slots in use nor the peak.
_rail_census_safe(o) == rail_census(o, Unknown, Unknown)

\* Every order pure_checks may be asked about.
Orders == [action : Entries \cup Exits, symbol : Symbols, qty : Quantities]
OpenEntries == Cardinality({s \in Symbols : open_trades[s] # NoTrade})

\* The census and pure_checks are two implementations of the same rails and
\* must not drift apart: on any order, asked with everything pure_checks
\* knows, the census refuses by the same rails and names one of them; as
\* main.py asks, it accuses no rail that clears the order.
CensusAgrees ==
  cycle => \A o \in Orders :
    LET refused == pure_checks(o, PeakNow)
        full == rail_census(o, PeakNow, OpenEntries)
        Named(c) == {PURE_RAILS[i] : i \in Refusers(c)}
    IN /\ Named(full) = refused
       /\ first_refusing_rail(full) \in (IF refused = {} THEN {"none"} ELSE refused)
       /\ Named(_rail_census_safe(o)) \subseteq refused

\* The limits of RiskRails on what an entry may do to the book, and the
\* census' agreement with the rails that keep them.
RailsBind == LimitsHold /\ []CensusAgrees
=============================================================================
