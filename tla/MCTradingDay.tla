---------------------------- MODULE MCTradingDay ----------------------------
(* The afternoon of a market day in half steps: 9:35, 9:45, the quiet     *)
(* hours, 15:35, 15:45, 15:55, 16:05, 16:15 and the night.                 *)
EXTENDS TradingDay, TLC

CONSTANTS open, close, catchUp, watchdog, retry, scan

Table == <<open, close, catchUp, watchdog, retry, scan>>
Firings ==
  open :> {0} @@ scan :> {0, 10} @@ retry :> {2, 12} @@ close :> {12}
  @@ catchUp :> {14} @@ watchdog :> {18}
Session == 0 .. 15
=============================================================================
