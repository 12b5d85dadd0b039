----------------------------- MODULE MCRiskRails -----------------------------
(* Instances of RiskRails: risk sections that leave each other's rails   *)
(* room to bind.                                                            *)
EXTENDS RailCensus, TLC

CONSTANTS A, B, Tech

Off == [l \in Limits |-> 0]
Drawdown == [Off EXCEPT !["max_drawdown_pct"] = 10, !["max_trades_per_day"] = 1,
                        !["max_position_pct"] = 50]
Slots == [Off EXCEPT !["max_position_pct"] = 50, !["max_per_sector"] = 1,
                     !["max_order_value_usd"] = 5, !["net_max"] = 40, !["net_min"] = -30]
Exposure == [Off EXCEPT !["max_position_pct"] = 60, !["down_max_gross_pct"] = 70,
                        !["max_portfolio_heat_pct"] = 25, !["risk_per_trade_pct"] = 10,
                        !["net_max"] = 80, !["net_min"] = -60]
Counts == [Off EXCEPT !["max_position_pct"] = 60, !["max_open_positions"] = 1,
                      !["min_holding_days"] = 2]
Strategy == [Off EXCEPT !["max_position_pct"] = 60, !["max_per_strategy"] = 1]
Sections == {Drawdown, Slots, Exposure, Counts, Strategy}
Sectors == [s \in {A, B} |-> Tech]
Stops == A :> 1 @@ B :> 0
=============================================================================
