---------------------------- MODULE MCHaltSwitch ----------------------------
(* Instances of HaltSwitch small enough for TLC; and one of Watch, which    *)
(* tells of a halt as of a cycle that did not run.  They share no state, a  *)
(* behaviour is about one of them.                                          *)
EXTENDS HaltSwitch, Watch, TLC

CONSTANTS c1, c2, AAPL, MSFT

Symmetry == Permutations({AAPL, MSFT})

CONSTANT MaxRecords   \* bound: records in the two ledgers
VARIABLE part

MCInit ==
  /\ part \in {"halt", "watch"} /\ Init /\ WatchInit
  /\ part = "halt" => backend = "jsonl" /\ webhook = "unset" /\ ~banner
  /\ part = "watch" => book = {} /\ ~session /\ (banner <=> webhook = "unset")

MCNext ==
  /\ UNCHANGED part
  /\ \/ part = "halt" /\ Next /\ UNCHANGED watch
     \/ /\ part = "watch" /\ WatchNext /\ Len(file') + Len(db') <= MaxRecords
        /\ UNCHANGED vars
     \/ part = "watch" /\ UNCHANGED <<vars, watch>>   \* at its bounds it rests

MCSpec == MCInit /\ [][MCNext]_<<part, vars, watch>>
=============================================================================
