----------------------------- MODULE MCTradeCycle -----------------------------
(* TradeCycle with symbols that are interchangeable: cycles one after the  *)
(* other over two days and, on variables of its own, a second instance     *)
(* whose orders may wait while the day's cycle or scan is run again.       *)
EXTENDS TradeCycle, TLC

VARIABLE part

CONSTANTS Reruns, Rescans, RerunFaults
VARIABLES day2, orders2, pos2, trades2, pc2, view2, todo2, left2, opened2, legged2, act2,
          starts2, faults2, wrong2
Rerun == INSTANCE TradeCycle WITH
  Runs <- Reruns, Scans <- Rescans, MaxStarts <- 3, MaxPositions <- 0,
  Faults <- RerunFaults, MaxFaults <- 1,
  day <- day2, orders <- orders2, pos <- pos2, trades <- trades2, pc <- pc2, view <- view2,
  todo <- todo2, left <- left2, opened <- opened2, legged <- legged2, act <- act2,
  starts <- starts2, faults <- faults2, wrong <- wrong2
rerun == <<day2, orders2, pos2, trades2, pc2, view2, todo2, left2, opened2, legged2, act2,
           starts2, faults2, wrong2>>

MCInit == part \in {"sequential", "rerun"} /\ Init /\ Rerun!Init
MCNext ==
  /\ UNCHANGED part
  /\ \/ part = "sequential" /\ Next /\ UNCHANGED rerun
     \/ part = "rerun" /\ Rerun!Next /\ UNCHANGED vars
MCSpec == MCInit /\ [][MCNext]_<<part, vars, rerun>>

\* TradeCycle's, of the reruns: no entry and no exit of a day is doubled.
OneLotRerun == Rerun!OneLot

Symmetry == Permutations(Symbols)
=============================================================================
