------------------------------- MODULE StopGuard -------------------------------
(***************************************************************************)
(* The protective stops of a position (src/main.py): the leg that rests at *)
(* the broker, the stop a ledger record carries, its repair from the       *)
(* broker's side and the chandelier trail that raises it.                  *)
(*                                                                         *)
(* Two cycles may run at once.  Each reads the resting legs, later raises  *)
(* those it has read, and may close a position by cancelling its legs and  *)
(* then selling.  Positions are long; a price is a level of a small scale. *)
(***************************************************************************)
EXTENDS Integers, FiniteSets

CONSTANTS
  Stocks, Cycles,
  Levels,        \* bound: stop levels
  MaxId,         \* bound: orders at the broker
  MaxErrors      \* bound: failures of the broker and deaths of a cycle

ASSUME GuardAssumption ==
  Levels \subseteq Nat /\ IsFiniteSet(Levels) /\ MaxId \in Nat /\ MaxErrors \in Nat

VARIABLES
  pos,           \* stocks held at the broker
  legs,          \* resting stop legs at the broker: id, stock, price
  ids,           \* orders so far
  book,          \* open ledger records: the recorded stop of each, NoRecord
  phase,         \* of each cycle: "off", "read", "attached", "trailing"
  view,          \* a cycle's open records, with the stops it found for them
  seen,          \* the legs a cycle read for its trail
  selling,       \* stocks whose legs a cycle has cancelled, to sell them
  current,       \* ghost: stocks of a cycle's view that have not been bought since
  stripped,      \* ghost: stocks that lost their legs to an exit
  errors

broker  == <<pos, legs, ids>>
inCycle == <<phase, view, seen, selling, current>>
guard   == <<broker, book, inCycle, stripped, errors>>

NoRecord == -1   \* no open record
NoStop == -2     \* a record without a stop
Fail == errors < MaxErrors /\ errors' = errors + 1

Resting(s) == {l \in legs : l.stock = s}
Tightest(ls) == CHOOSE l \in ls : \A m \in ls : m.price <= l.price

-----------------------------------------------------------------------------
(* What a record learns from the broker.                                   *)

\* A bug: a failed lookup answers with a usual distance.
_resting_stopsGuess(s, ok) == IF ok THEN Resting(s) ELSE {[id |-> 0, stock |-> s, price |-> 2]}
\* Nothing if the lookup fails: never an invented stop.
_resting_stops(s, ok) == IF ok THEN Resting(s) ELSE {}

_adopted_stop_fields(ls) == IF ls = {} THEN NoStop ELSE Tightest(ls).price

\* An entry with its bracket: the order, then the record.
Enter(s, p) ==
  /\ s \notin pos /\ book[s] = NoRecord /\ Resting(s) = {} /\ ids < MaxId
  /\ \A c \in Cycles : s \notin selling[c]
  /\ pos' = pos \cup {s} /\ ids' = ids + 1
  /\ legs' = legs \cup {[id |-> ids + 1, stock |-> s, price |-> p]}
  /\ stripped' = stripped \ {s}
  /\ \/ book' = [book EXCEPT ![s] = p] /\ UNCHANGED errors
     \/ UNCHANGED book /\ Fail       \* the cycle dies before the record
  /\ current' = [c \in Cycles |-> current[c] \ {s}]
  /\ UNCHANGED <<phase, view, seen, selling>>

\* A position without a record is taken over with the stop that rests for it.
adopt(s, ok) ==
  /\ s \in pos /\ book[s] = NoRecord
  /\ book' = [book EXCEPT ![s] = _adopted_stop_fields(_resting_stops(s, ok))]
  /\ IF ok THEN UNCHANGED errors ELSE Fail
  /\ UNCHANGED <<broker, inCycle, stripped>>

open_buys(c) ==
  /\ phase[c] = "off"
  /\ phase' = [phase EXCEPT ![c] = "read"] /\ view' = [view EXCEPT ![c] = book]
  /\ current' = [current EXCEPT ![c] = Stocks]
  /\ UNCHANGED <<broker, book, seen, selling, stripped, errors>>

\* Fill the missing stops of the view; those that stay missing are reported.
attach_broker_stops(c, ok) ==
  /\ phase[c] = "read"
  /\ LET mended == [s \in Stocks |-> IF view[c][s] = NoStop
                                     THEN _adopted_stop_fields(_resting_stops(s, ok))
                                     ELSE view[c][s]]
     IN view' = [view EXCEPT ![c] = mended]
  /\ phase' = [phase EXCEPT ![c] = "attached"]
  /\ IF ok THEN UNCHANGED errors ELSE Fail
  /\ UNCHANGED <<broker, book, seen, selling, current, stripped>>

-----------------------------------------------------------------------------
(* The trail.                                                              *)

\* The tightest leg of each stock; a lookup that fails ends the pass.
open_stop_orders(c) ==
  /\ phase[c] = "attached"
  /\ phase' = [phase EXCEPT ![c] = "trailing"]
  /\ seen' = [seen EXCEPT ![c] = {Tightest(Resting(s)) : s \in {t \in Stocks : Resting(t) # {}}}]
  /\ UNCHANGED <<broker, book, view, selling, current, stripped, errors>>

\* The level of the trail moves both ways: with the highs of the window, and
\* against the width of the range.
Raises(leg, new_stop) == new_stop > leg.price

\* The broker replaces an order that is still open, under a new id.
replace_stop(leg, new_stop) ==
  IF leg \in legs /\ ids < MaxId
  THEN legs' = (legs \ {leg}) \cup {[leg EXCEPT !.id = ids + 1, !.price = new_stop]}
       /\ ids' = ids + 1
  ELSE UNCHANGED <<legs, ids>>

update_trailing_stops(c, leg) ==
  /\ phase[c] = "trailing" /\ leg \in seen[c]
  /\ seen' = [seen EXCEPT ![c] = @ \ {leg}]
  /\ \/ UNCHANGED <<legs, ids>>
     \/ \E new_stop \in Levels :
          /\ view[c][leg.stock] # NoRecord /\ Raises(leg, new_stop)
          /\ replace_stop(leg, new_stop)
  /\ UNCHANGED <<pos, book, phase, view, selling, current, stripped, errors>>

-----------------------------------------------------------------------------
(* The exit of a position whose record says it has legs.                   *)

cancel_open_orders(c, s) ==
  /\ phase[c] \in {"attached", "trailing"} /\ s \in pos /\ view[c][s] \in Levels
  /\ legs' = legs \ Resting(s)
  /\ selling' = [selling EXCEPT ![c] = @ \cup {s}] /\ stripped' = stripped \cup {s}
  /\ UNCHANGED <<pos, ids, book, phase, view, seen, current, errors>>

\* The sale is made and recorded, or is refused and the position stays.
Sell(c, s) ==
  /\ s \in selling[c]
  /\ selling' = [selling EXCEPT ![c] = @ \ {s}]
  /\ \/ /\ s \in pos /\ pos' = pos \ {s} /\ book' = [book EXCEPT ![s] = NoRecord]
        /\ view' = [view EXCEPT ![c][s] = NoRecord] /\ UNCHANGED errors
     \/ UNCHANGED <<pos, book, view>> /\ Fail
     \/ s \notin pos /\ UNCHANGED <<pos, book, view, errors>>
  /\ UNCHANGED <<legs, ids, phase, seen, current, stripped>>

\* The cycle is over, or dies.
_finalize_cycle(c) ==
  /\ phase[c] # "off" /\ selling[c] = {}
  /\ phase' = [phase EXCEPT ![c] = "off"]
  /\ view' = [view EXCEPT ![c] = [s \in Stocks |-> NoRecord]]
  /\ seen' = [seen EXCEPT ![c] = {}]
  /\ UNCHANGED <<broker, book, selling, current, stripped, errors>>

\* A leg fills; the reconciliation of a later cycle closes the record.
LegFills(leg) ==
  /\ leg \in legs /\ leg.stock \in pos
  /\ pos' = pos \ {leg.stock} /\ legs' = legs \ Resting(leg.stock)
  /\ UNCHANGED <<ids, book, inCycle, stripped, errors>>

reconcile(s) ==
  /\ s \notin pos /\ book[s] # NoRecord
  /\ book' = [book EXCEPT ![s] = NoRecord]
  /\ UNCHANGED <<broker, inCycle, stripped, errors>>

-----------------------------------------------------------------------------
GuardInit ==
  /\ pos = {} /\ legs = {} /\ ids = 0 /\ book = [s \in Stocks |-> NoRecord]
  /\ phase = [c \in Cycles |-> "off"]
  /\ view = [c \in Cycles |-> [s \in Stocks |-> NoRecord]]
  /\ seen = [c \in Cycles |-> {}] /\ selling = [c \in Cycles |-> {}]
  /\ current = [c \in Cycles |-> {}] /\ stripped = {} /\ errors = 0

GuardNext ==
  \/ \E s \in Stocks, p \in Levels : Enter(s, p)
  \/ \E s \in Stocks, ok \in BOOLEAN : adopt(s, ok)
  \/ \E c \in Cycles :
       \/ open_buys(c) \/ open_stop_orders(c) \/ _finalize_cycle(c)
       \/ \E ok \in BOOLEAN : attach_broker_stops(c, ok)
       \/ \E leg \in seen[c] : update_trailing_stops(c, leg)
       \/ \E s \in Stocks : cancel_open_orders(c, s) \/ Sell(c, s)
  \/ \E leg \in legs : LegFills(leg)
  \/ \E s \in Stocks : reconcile(s)

GuardSpec == GuardInit /\ [][GuardNext]_guard

GuardTypeOK ==
  /\ pos \subseteq Stocks /\ ids \in 0 .. MaxId /\ errors \in 0 .. MaxErrors
  /\ legs \subseteq [id : 1 .. MaxId, stock : Stocks, price : Levels]
  /\ book \in [Stocks -> Levels \cup {NoStop, NoRecord}]
  /\ phase \in [Cycles -> {"off", "read", "attached", "trailing"}]
  /\ view \in [Cycles -> [Stocks -> Levels \cup {NoStop, NoRecord}]]
  /\ seen \in [Cycles -> SUBSET [id : 1 .. MaxId, stock : Stocks, price : Levels]]
  /\ selling \in [Cycles -> SUBSET Stocks]
  /\ current \in [Cycles -> SUBSET Stocks]
  /\ stripped \subseteq Stocks

\* A position's stop is never lowered while it is held, however the level of
\* the trail moves and however many cycles trail it.
StopsOnlyRise ==
  [][\A s \in Stocks :
       s \in pos /\ s \in pos' /\ Resting(s) # {} /\ Resting(s)' # {} =>
         Tightest(Resting(s)).price <= Tightest(Resting(s)').price]_guard

\* The stop a record carries never flatters the risk: as long as the position
\* is held and no exit has taken its legs, one rests at least as tight.
StopsRest ==
  \A s \in pos \ stripped : \A p \in {book[s]} \cup {view[c][s] : c \in {d \in Cycles : s \in current[d]}} :
    p \in Levels => \E l \in Resting(s) : l.price >= p
=============================================================================
