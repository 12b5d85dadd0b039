------------------------------- MODULE LiveCycle -------------------------------
(* What a live cycle does to its book in one place: its scan (EntryScan),  *)
(* the stops of its positions (StopGuard), the calls by which it reads     *)
(* them (BrokerReads), the size of an entry (Sizing), what the judge makes *)
(* of it (JudgeCall), and the scan of swing_sectors between two cycles     *)
(* (SwingScan); and what it starts from: the configuration its preflight   *)
(* clears (Preflight) and the news it scans by (News).  They share no      *)
(* state.                                                                  *)
EXTENDS EntryScan, BrokerReads, StopGuard, Sizing, JudgeCall, SwingScan

(* The preflight. *)
CONSTANTS Listed, Funds, Sound, MaxEdits
VARIABLES cfg, fails, warned, boot, edits
Pre == INSTANCE Preflight WITH Stocks <- Listed, at <- boot
ASSUME PreflightAssumption == \A c \in Sound : Pre!Formed(c)

(* The news. *)
CONSTANTS Universe, Flaggable, Nominations, Wires, Feeds, Dead, Total, Reserved, MaxItems,
          MaxNominations, Retention, MaxNewsItems, NoContext, Torn, MaxDay, MaxRefreshes, MaxCloses
VARIABLES today, file, memory, events, where, fetched, distilled, watch, shown, refreshes, closes,
          fitted, told
Brain == INSTANCE News WITH day <- today, said <- events, at <- where, ctx <- distilled
ASSUME NewsAssumption == Brain!NewsConstants

\* The scans: a cycle's hears the exits of what it holds (EntryScan); that of
\* swing_sectors enters a symbol once a day, one a pass, within the cap, in the
\* ledger and not against a halt.
ScansKept == ExitsHeard /\ OnceADay /\ OneAPass /\ CapHeld /\ Recorded /\ HaltHeeded

\* What no step may do: take a symbol back within the cooldown of a strategy's
\* own exit, or lower the stop of a position that is held.
NoStepBack == CooldownHolds /\ StopsOnlyRise

\* An order is within its caps, and a long has a real stop.
EntriesSafe == SizedSafely /\ NeverNaked

\* A judge never enlarges an order, what it is credited with is what a model
\* said, and every shadow row joins a decision.
JudgeKept == JudgeOnlyShrinks /\ CreditWhereDue /\ ShadowsJoin
=============================================================================
