------------------------------- MODULE SwingScan -------------------------------
(***************************************************************************)
(* The half-hourly scan of swing_sectors (src/swing_scan.py): between the  *)
(* trading cycles it waits for the price of an armed symbol to come into   *)
(* the zone the last completed bars gave it, and enters at most one.       *)
(*                                                                         *)
(* The scan boots as a cycle does (src/main.py, _bootstrap_cycle) and      *)
(* works on the positions and trades it reads then.  Meanwhile the day's   *)
(* cycle may enter the same symbol under the same client order id, stops   *)
(* fill, the operator halts, and the scan may be killed between any two    *)
(* steps.                                                                  *)
(***************************************************************************)
EXTENDS Integers, Sequences, FiniteSets, SequencesExt

CONSTANTS
  Order,         \* the symbols, the least loved first
  Zone,          \* prices an armed symbol is entered at
  Quotes,        \* what the broker may quote
  MaxDrift,      \* max_entry_drift_bps, in steps of a quote
  MaxOpen,       \* max_open_positions
  MaxTrades,     \* max_trades_per_day
  NoQuote,
  MaxPasses, MaxFaults, MaxHalts   \* bounds

\* config.yaml sets a cap.
ASSUME CapAssumption == MaxOpen \in Nat \ {0}

Armable == Range(Order)

VARIABLES
  halt,          \* the HALT file's mode, "none" without
  held,          \* the broker's positions
  coids,         \* client order ids the broker has seen today
  traded,        \* the trades of the day, as the counter file has them
  day,           \* today's number
  pc,            \* where the pass is
  believed,      \* the positions it read when it booted
  unquoted,      \* armed symbols without a quote yet
  in_zone,       \* armed symbols with a quote in their zone: symbol, live
  said, rows,    \* this pass's ledger events and decisions
  passes, faults, halts,
  orders,        \* ghost: orders accepted today, by symbol
  entered,       \* ghost: the orders accepted from this pass
  unheard,       \* ghost: the scan's orders of today it knows nothing of
  beside,        \* ghost: the day's cycle has entered during this pass
  defied         \* ghost: scan orders accepted since the operator halted

pass   == <<pc, believed, unquoted, in_zone, said, rows>>
ghosts == <<orders, entered, unheard, beside, defied>>
swing  == <<halt, held, coids, traded, day, pass, passes, faults, halts, ghosts>>

-----------------------------------------------------------------------------
(* The pass.                                                               *)

Goes(at, words) == pc' = at /\ said' = said \cup words /\ UNCHANGED rows
Onward(at, words) == Goes(at, words) /\ UNCHANGED <<believed, unquoted, in_zone>>
Ends(words) == Onward("off", words)
World == <<halt, held, coids, traded, day, passes, halts>>

\* _bootstrap_cycle: a configuration or an account that is refused, or a HALT,
\* ends the pass with its reason in the ledger.  A judge that does not answer
\* the probe is reported, and never ends it.  (A flatten that is pending is
\* retried here as in HaltSwitch.)
Boot ==
  /\ pc = "off" /\ passes < MaxPasses
  /\ passes' = passes + 1 /\ entered' = {}
  /\ \E probe \in {{}, {"judge_unreachable"}} :
       \/ pc' = "off" /\ said' = {"preflight_failure"} \cup probe /\ UNCHANGED believed
       \/ halt = "freeze" /\ pc' = "off" /\ said' = {"halted_cycle_skipped"} \cup probe
          /\ UNCHANGED believed
       \/ halt = "exits" /\ pc' = "off" /\ said' = {"halted_exits_only"} \cup probe
          /\ UNCHANGED believed
       \/ halt = "none" /\ pc' = "fetch" /\ said' = probe /\ believed' = held
  /\ unquoted' = <<>> /\ in_zone' = <<>> /\ rows' = {}
  /\ UNCHANGED <<halt, held, coids, traded, day, faults, halts, orders, unheard, beside, defied>>

\* find_candidates: the armed symbols that are not held.
find_candidates(armed) == SelectSeq(Order, LAMBDA s : s \in armed \ believed)

\* A closed market, a clock or bars that do not come end the pass; so does a
\* reason to refuse entries.
Fetch ==
  /\ pc = "fetch"
  /\ \/ Ends({})
     \/ Ends({"swing_scan_entries_blocked"})
     \/ \E armed \in SUBSET Armable :
          Goes("quote", {}) /\ unquoted' = find_candidates(armed) /\ UNCHANGED <<believed, in_zone>>
  /\ UNCHANGED <<World, faults, ghosts>>

Quote ==
  /\ pc = "quote" /\ unquoted # <<>>
  /\ \E live \in Quotes \cup {NoQuote} :
       in_zone' = IF live \in Zone THEN Append(in_zone, [symbol |-> Head(unquoted), live |-> live])
                  ELSE in_zone
  /\ unquoted' = Tail(unquoted)
  /\ UNCHANGED <<pc, believed, said, rows, World, faults, ghosts>>

\* A strategy that is not enabled only says what it would enter.
Quoted ==
  /\ pc = "quote" /\ unquoted = <<>>
  /\ \/ in_zone = <<>> /\ Ends({})
     \/ in_zone # <<>> /\ Ends({"swing_scan_candidate"})
     \/ in_zone # <<>> /\ Goes("review", {}) /\ UNCHANGED <<believed, unquoted, in_zone>>
  /\ UNCHANGED <<World, faults, ghosts>>

Cand == Head(in_zone)
Decision(kind) == <<Cand.symbol, kind>>

\* The candidate is answered with a row, and the next one is looked at.
Refuse(kind) ==
  /\ rows' = rows \cup {Decision(kind)}
  /\ in_zone' = Tail(in_zone)
  /\ pc' = IF Len(in_zone) = 1 THEN "off" ELSE "review"
  /\ UNCHANGED <<believed, unquoted, said>>

\* The judge may veto, cut the order to nothing or be unavailable; then the
\* configuration blocks or goes on without it.
Judged ==
  /\ pc = "review"
  /\ \/ \E kind \in {"degraded_block", "veto", "downsize_zero_qty"} : Refuse(kind)
     \/ \E words \in {{}, {"degradation"}} : Onward("rails", words)
  /\ UNCHANGED <<World, faults, ghosts>>

\* pre_trade_checks: the HALT file and the counter are read again, the
\* positions are those of the boot.
MayTrade == halt = "none" /\ traded < MaxTrades /\ Cardinality(believed) < MaxOpen

Rails ==
  /\ pc = "rails"
  /\ \/ Refuse("rails_reject")
     \/ MayTrade /\ Onward("drift", {})
  /\ UNCHANGED <<World, faults, ghosts>>

entry_drift_ok(live, fresh) == fresh - live \in -MaxDrift .. MaxDrift

\* Without a fresh quote the drift is not checked, and the ledger says so.
Drift ==
  /\ pc = "drift"
  /\ \/ Onward("submit", {"drift_guard"})
     \/ \E fresh \in Quotes :
          IF entry_drift_ok(Cand.live, fresh) THEN Onward("submit", {}) ELSE Refuse("entry_drift")
  /\ UNCHANGED <<World, faults, ghosts>>

\* The client order id of an entry: once a day.  A bug: once a pass.
coidPass(s) == <<s, passes>>
coid(s) == <<s, day>>

Accept(s, id) ==
  /\ coids' = coids \cup {id} /\ held' = held \cup {s}
  /\ orders' = [orders EXCEPT ![s] = @ + 1]

\* The order is refused, or accepted and heard of, or accepted and its reply
\* lost; the last looks like the first.
Submit ==
  /\ pc = "submit"
  /\ LET s == Cand.symbol IN
     \/ Refuse("order error") /\ UNCHANGED <<held, coids, faults, ghosts>>
     \/ /\ coid(s) \notin coids /\ Accept(s, coid(s))
        /\ entered' = entered \cup {s}
        /\ defied' = IF halt = "none" THEN defied ELSE defied + 1
        /\ UNCHANGED beside
        /\ \/ Onward("record_trade", {}) /\ UNCHANGED <<unheard, faults>>
           \/ faults < MaxFaults /\ faults' = faults + 1
              /\ unheard' = unheard \cup {s} /\ Refuse("order error")
  /\ UNCHANGED <<halt, traded, day, passes, halts>>

record_trade ==
  /\ pc = "record_trade" /\ Onward("record", {})
  /\ traded' = traded + 1
  /\ UNCHANGED <<halt, held, coids, day, passes, halts, faults, ghosts>>

\* The decision, the judgment and the post; the pass is over.
Record ==
  /\ pc = "record" /\ pc' = "off" /\ rows' = rows \cup {Decision("executed")}
  /\ UNCHANGED <<believed, unquoted, in_zone, said>>
  /\ UNCHANGED <<World, faults, ghosts>>

Crash ==
  /\ pc # "off" /\ faults < MaxFaults /\ faults' = faults + 1
  /\ Ends({"crash"})
  /\ unheard' = IF pc \in {"record_trade", "record"} THEN unheard \cup {Cand.symbol} ELSE unheard
  /\ UNCHANGED <<World, orders, entered, beside, defied>>

-----------------------------------------------------------------------------
(* Around it.                                                              *)

\* The day's cycle enters the symbol, on positions it has read itself.
CycleEnters(s) ==
  /\ s \notin held /\ halt = "none" /\ traded < MaxTrades /\ Cardinality(held) < MaxOpen
  /\ coid(s) \notin coids /\ Accept(s, coid(s))
  /\ traded' = traded + 1 /\ beside' = (beside \/ pc # "off")
  /\ UNCHANGED <<halt, day, pass, passes, halts, faults, entered, unheard, defied>>

StopFilled(s) ==
  /\ s \in held /\ held' = held \ {s}
  /\ UNCHANGED <<halt, coids, traded, day, pass, passes, halts, faults, ghosts>>

OperatorHalts(mode) ==
  /\ halt = "none" /\ halts < MaxHalts /\ halts' = halts + 1
  /\ halt' = mode /\ defied' = 0
  /\ UNCHANGED <<held, coids, traded, day, pass, passes, faults, orders, entered, unheard, beside>>

OperatorClears ==
  /\ halt # "none" /\ halt' = "none"
  /\ UNCHANGED <<held, coids, traded, day, pass, passes, halts, faults, ghosts>>

\* No pass crosses a night.
NextDay ==
  /\ pc = "off" /\ passes < MaxPasses /\ passes > 0 /\ day = 1
  /\ day' = 2 /\ coids' = {} /\ traded' = 0
  /\ orders' = [s \in Armable |-> 0] /\ unheard' = {} /\ entered' = {}
  /\ UNCHANGED <<halt, held, pass, passes, halts, faults, beside, defied>>

SwingInit ==
  /\ halt = "none" /\ held = {} /\ coids = {} /\ traded = 0 /\ day = 1
  /\ pc = "off" /\ believed = {} /\ unquoted = <<>> /\ in_zone = <<>> /\ said = {} /\ rows = {}
  /\ passes = 0 /\ faults = 0 /\ halts = 0
  /\ orders = [s \in Armable |-> 0] /\ entered = {} /\ unheard = {} /\ beside = FALSE /\ defied = 0

SwingNext ==
  \/ Boot \/ Fetch \/ Quote \/ Quoted \/ Judged \/ Rails \/ Drift \/ Submit \/ record_trade
  \/ Record \/ Crash
  \/ \E s \in Armable : CycleEnters(s) \/ StopFilled(s)
  \/ \E mode \in {"exits", "freeze"} : OperatorHalts(mode)
  \/ OperatorClears \/ NextDay

SwingSpec == SwingInit /\ [][SwingNext]_swing

-----------------------------------------------------------------------------
\* A symbol is entered once a day: not again after its stop has filled, not
\* again where the reply was lost or the pass killed, and not beside the cycle.
OnceADay == \A s \in Armable : orders[s] <= 1

\* A pass enters one symbol, and one more for every reply it lost.
OneAPass == Cardinality(entered) <= 1 + Cardinality(entered \cap unheard)

\* The scan exceeds the book's cap only with what it could not know of: a reply
\* that was lost, or an entry of the cycle while it ran.
CapHeld == ~beside /\ faults = 0 => Cardinality(held) <= MaxOpen

\* What the broker accepted is in the ledger once the pass is over, but for
\* lost replies and kills.
Recorded ==
  pc = "off" => \A s \in entered \ unheard : <<s, "executed">> \in rows

\* After the operator halts, the scan sends at most the one order whose rails
\* had passed.
HaltHeeded == defied <= 1
=============================================================================
