------------------------------ MODULE TradeCycle ------------------------------
(***************************************************************************)
(* One trading cycle against the broker and the ledger (src/main.py, with  *)
(* the intraday scan of src/swing_scan.py): the snapshot of the positions, *)
(* the reconciliation of the ledger with it, the adoption of untracked     *)
(* positions, the exits and entries, and the ledger record that follows    *)
(* each order.  Broker and ledger are two stores written one after the     *)
(* other, by processes that may be killed in between, rerun on the same    *)
(* day or run side by side.                                                *)
(*                                                                         *)
(* Quantities are in lots: an entry buys one lot, with a stop leg that     *)
(* rests once it is filled.  What a strategy, the judge and the rails      *)
(* decide is a choice; the one rail modelled is the cap on open positions, *)
(* because it reads the positions the cycle keeps by itself.               *)
(***************************************************************************)
EXTENDS Integers, Sequences, FiniteSets

CONSTANTS
  Runs,          \* processes: the cycle, its catch-up, the swing scan
  Scans,         \* those of them that are the swing scan
  Symbols,
  Days,          \* bound: trading days, numbered from 1
  MaxStarts,     \* bound: processes started
  MaxPositions,  \* risk.max_open_positions; 0 is no cap
  Faults,        \* what the environment does in this instance
  MaxFaults      \* bound: faults that happen one at a time

(* overlap    two processes at once             (launchd; not scheduler.py)  *)
(* late       an order may wait while another process starts                *)
(* overnight  an order may wait into the next day                           *)
(* short      the broker sells shares the account does not hold             *)
(* crash      a process is killed                                           *)
(* lost       an order is accepted and its reply is lost                    *)
(* refused    an order is refused                                           *)
(* dies       an accepted order is cancelled by the broker, unfilled        *)
(* error      a broker call other than an order raises                      *)
(* manual     a position is closed by hand                                  *)
Switches == {"overlap", "late", "overnight", "short"}
Counted  == {"crash", "lost", "refused", "dies", "error", "manual"}

ASSUME ProcessesAssumption == Scans \subseteq Runs
ASSUME SymbolsAssumption == IsFiniteSet(Symbols)
ASSUME BoundsAssumption ==
  /\ Days \in Nat \ {0} /\ MaxStarts \in Nat
  /\ MaxPositions \in Nat /\ MaxFaults \in Nat
ASSUME FaultsAssumption == Faults \subseteq Switches \cup Counted

Actions == {"buy", "sell", "cover"}
Ids     == Symbols \X Actions \X (1 .. Days)     \* client order ids

VARIABLES
  day,
  orders,   \* the broker: each client order id's order
  pos,      \* the broker: lots held, negative when short
  trades,   \* the ledger: executed entries, with their outcomes counted
  pc,
  view,     \* each run's positions, read at its start and kept by itself
  todo,     \* ledger trades it has yet to reconcile
  left,     \* symbols it has yet to adopt, then to trade
  opened,   \* its snapshot of the open trades
  legged,   \* those of them it knows to have a protective leg
  act,      \* the order it is about to send
  starts, faults,
  wrong     \* ghost: has reconciliation closed a trade still held?

broker == <<orders, pos>>
local  == <<view, todo, left, opened, legged, act>>
vars   == <<day, broker, trades, pc, local, starts, faults, wrong>>

-----------------------------------------------------------------------------
(* The broker.  An entry is live, then its leg rests, then the leg is      *)
(* stopped out or cancelled; an exit is live, then filled.                 *)

NoOrder == [st |-> "none", qty |-> 0, heard |-> FALSE]
Coid(s, a) == <<s, a, day>>

\* heard: ghost, did the reply reach the sender?
Sent(qty, heard) == [st |-> "live", qty |-> qty, heard |-> heard]

LiveOf(s, a) == {c \in Ids : c[1] = s /\ c[2] = a /\ orders[c].st = "live"}
RestingOf(s) == {c \in Ids : c[1] = s /\ orders[c].st = "resting"}

\* Lots a resting leg or a live sell reserves.
Reserved(s) ==
  Cardinality(UNION {{c} \X (1 .. orders[c].qty) : c \in RestingOf(s) \cup LiveOf(s, "sell")})

\* Mutant: the order is sent without its client order id.
AcceptsUnkeyed(c, qty) ==
  \/ c[2] # "sell"
  \/ pos[c[1]] > 0 /\ pos[c[1]] - Reserved(c[1]) >= qty
  \/ pos[c[1]] <= 0 /\ "short" \in Faults

\* A client order id is taken once.  Shares that are reserved cannot be sold.
Accepts(c, qty) ==
  /\ orders[c].st = "none"
  /\ \/ c[2] # "sell"
     \/ pos[c[1]] > 0 /\ pos[c[1]] - Reserved(c[1]) >= qty
     \/ pos[c[1]] <= 0 /\ "short" \in Faults

\* cancel_open_orders: a live order dies with its legs, a resting leg goes.
Cancelled(s, some) ==
  [c \in Ids |->
     IF c \notin some \/ c[1] # s THEN orders[c]
     ELSE [orders[c] EXCEPT !.st = CASE @ = "live"    -> "dead"
                                     [] @ = "resting" -> "filled"
                                     [] OTHER         -> @]]

Spend(f) == f \in Faults /\ faults < MaxFaults /\ faults' = faults + 1

Fill(c) ==
  /\ orders[c].st = "live"
  /\ orders' = [orders EXCEPT ![c].st = IF c[2] = "buy" THEN "resting" ELSE "filled"]
  /\ pos' = [pos EXCEPT ![c[1]] =
               IF c[2] = "sell" THEN @ - orders[c].qty ELSE @ + orders[c].qty]
  /\ UNCHANGED <<day, trades, pc, local, starts, faults, wrong>>

StopFires(c) ==
  /\ orders[c].st = "resting"
  /\ orders' = [orders EXCEPT ![c].st = "stopped"]
  /\ pos' = [pos EXCEPT ![c[1]] = @ - orders[c].qty]
  /\ UNCHANGED <<day, trades, pc, local, starts, faults, wrong>>

OrderDies(c) ==
  /\ Spend("dies")
  /\ orders[c].st = "live"
  /\ orders' = [orders EXCEPT ![c].st = "dead"]
  /\ UNCHANGED <<day, pos, trades, pc, local, starts, wrong>>

ManualClose(s) ==
  /\ Spend("manual")
  /\ pos[s] # 0
  /\ pos' = [pos EXCEPT ![s] = 0]
  /\ orders' = Cancelled(s, Ids)
  /\ UNCHANGED <<day, trades, pc, local, starts, wrong>>

NothingLive == \A c \in Ids : orders[c].st # "live"

NewDay ==
  /\ day < Days
  /\ \A p \in Runs : pc[p] = "idle"
  /\ NothingLive \/ "overnight" \in Faults
  /\ day' = day + 1
  /\ UNCHANGED <<broker, trades, pc, local, starts, faults, wrong>>

-----------------------------------------------------------------------------
(* The ledger.  A trade's outcomes are separate records; it is open while  *)
(* it has none.                                                            *)

\* Mutant: a trade with an outcome is still open.
open_buysAll == DOMAIN trades
open_buys == {t \in DOMAIN trades : trades[t].outcomes = 0}
OpenOf(s, ts) == {t \in ts : trades[t].symbol = s}
IsFirst(t, ts) == t \in ts /\ \A u \in ts : t <= u   \* in ledger order

WithOutcome(t) == [trades EXCEPT ![t].outcomes = @ + 1]
Entry(s, oid, bracket) ==
  [symbol |-> s, order |-> oid, bracket |-> bracket, outcomes |-> 0]

NoId  == <<>>
NoAct == [symbol |-> "none", action |-> "none", qty |-> 0]

-----------------------------------------------------------------------------
(* A run.                                                                  *)

Goto(p, l) == pc' = [pc EXCEPT ![p] = l]
Held(p)    == {s \in Symbols : view[p][s] # 0}

\* Mutant: positions that cannot be read are taken for none.
BeginBlind(p) ==
  /\ pc[p] = "idle" /\ starts < MaxStarts
  /\ "overlap" \in Faults \/ \A q \in Runs : pc[q] = "idle"
  /\ NothingLive \/ "late" \in Faults
  /\ starts' = starts + 1
  /\ view' = [view EXCEPT ![p] = [s \in Symbols |-> 0]]
  /\ Goto(p, IF p \in Scans THEN "snapshot" ELSE "stale")
  /\ UNCHANGED <<day, broker, trades, todo, left, opened, legged, act, faults, wrong>>

\* _bootstrap_cycle, as far as broker.positions().
Begin(p) ==
  /\ pc[p] = "idle" /\ starts < MaxStarts
  /\ "overlap" \in Faults \/ \A q \in Runs : pc[q] = "idle"
  /\ NothingLive \/ "late" \in Faults
  /\ starts' = starts + 1
  /\ view' = [view EXCEPT ![p] = pos]
  /\ Goto(p, IF p \in Scans THEN "snapshot" ELSE "stale")
  /\ UNCHANGED <<day, broker, trades, todo, left, opened, legged, act, faults, wrong>>

\* reconcile_closed_positions: the open trades whose symbol is not held.
Stale(p) ==
  /\ pc[p] = "stale"
  /\ todo' = [todo EXCEPT ![p] = {t \in open_buys : trades[t].symbol \notin Held(p)}]
  /\ Goto(p, "reconcile")
  /\ UNCHANGED <<day, broker, trades, view, left, opened, legged, act, starts, faults, wrong>>

\* What get_order says of the entry; "error" when it has no id or the call
\* raised, and the entry is taken for a filled one.
EntryStatus(t) ==
  LET oid == trades[t].order
  IN  IF oid = NoId THEN "error"
      ELSE CASE orders[oid].st = "live" -> "live"
             [] orders[oid].st = "dead" -> "dead"
             [] OTHER -> "filled"

\* One of them: kept while its entry is live, written off when the entry died,
\* otherwise closed at whatever exit price resolve_exit_price finds.  Without
\* one it stays open.
Reconcile(p) ==
  /\ pc[p] = "reconcile" /\ todo[p] # {}
  /\ \E t \in todo[p] :
       LET Keep  == UNCHANGED <<trades, wrong>>
           Close == /\ trades' = WithOutcome(t)
                    /\ wrong' = (\/ wrong
                                 \/ pos[trades[t].symbol] > 0
                                 \/ EntryStatus(t) = "live")
       IN /\ IsFirst(t, todo[p])
          /\ todo' = [todo EXCEPT ![p] = @ \ {t}]
          /\ \/ EntryStatus(t) = "live" /\ Keep /\ UNCHANGED faults
             \/ /\ EntryStatus(t) = "dead" /\ trades' = WithOutcome(t)
                /\ UNCHANGED <<wrong, faults>>
             \/ EntryStatus(t) \in {"filled", "error"} /\ Close /\ UNCHANGED faults
             \/ Spend("error") /\ (Keep \/ Close)
  /\ UNCHANGED <<day, broker, pc, view, left, opened, legged, act, starts>>

\* adopt_untracked_positions: the held symbols without an open trade.
Untracked(p) ==
  /\ pc[p] = "reconcile" /\ todo[p] = {}
  /\ left' = [left EXCEPT ![p] = {s \in Held(p) : OpenOf(s, open_buys) = {}}]
  /\ Goto(p, "adopt")
  /\ UNCHANGED <<day, broker, trades, view, todo, opened, legged, act, starts, faults, wrong>>

\* One of them, as "oto" when a stop leg rests.  The lookup fails open.
Adopt(p) ==
  /\ pc[p] = "adopt"
  /\ \E s \in left[p] :
       /\ left' = [left EXCEPT ![p] = @ \ {s}]
       /\ \/ /\ trades' = Append(trades, Entry(s, NoId, RestingOf(s) # {}))
             /\ UNCHANGED faults
          \/ Spend("error") /\ trades' = Append(trades, Entry(s, NoId, FALSE))
  /\ UNCHANGED <<day, broker, pc, view, todo, opened, legged, act, starts, wrong>>

\* open_buys(), then attach_broker_stops on the records without a stop.
Snapshot(p) ==
  /\ \/ pc[p] = "adopt" /\ left[p] = {}
     \/ pc[p] = "snapshot"
  /\ opened' = [opened EXCEPT ![p] = open_buys]
  /\ LET recorded == {t \in open_buys : trades[t].bracket}
         resting  == {t \in open_buys : RestingOf(trades[t].symbol) # {}}
     IN \/ legged' = [legged EXCEPT ![p] = recorded \cup resting] /\ UNCHANGED faults
        \/ Spend("error") /\ legged' = [legged EXCEPT ![p] = recorded]
  /\ left' = [left EXCEPT ![p] = Symbols]
  /\ Goto(p, "trade")
  /\ UNCHANGED <<day, broker, trades, view, todo, act, starts, wrong>>

-----------------------------------------------------------------------------
(* The symbol loop.                                                        *)

Hold(p) ==
  /\ pc[p] = "trade"
  /\ \E s \in left[p] : left' = [left EXCEPT ![p] = @ \ {s}]
  /\ UNCHANGED <<day, broker, trades, pc, view, todo, opened, legged, act, starts, faults, wrong>>

\* The owner of a held symbol exits: legs first if the trade has any.
DecideExit(p) ==
  /\ pc[p] = "trade" /\ p \notin Scans
  /\ \E s \in left[p] \cap Held(p) :
       LET q == view[p][s]
           owned == OpenOf(s, opened[p])
       IN /\ act' = [act EXCEPT ![p] =
                       [symbol |-> s, action |-> IF q > 0 THEN "sell" ELSE "cover",
                        qty |-> IF q > 0 THEN q ELSE -q]]
          /\ Goto(p, IF \E t \in owned \cap legged[p] : IsFirst(t, owned)
                     THEN "cancel" ELSE "submit")
          /\ left' = [left EXCEPT ![p] = @ \ {s}]
  /\ UNCHANGED <<day, broker, trades, view, todo, opened, legged, starts, faults, wrong>>

CapAllows(p) == MaxPositions = 0 \/ Cardinality(Held(p)) < MaxPositions

DecideEntry(p) ==
  /\ pc[p] = "trade" /\ CapAllows(p)
  /\ \E s \in left[p] \ Held(p) :
       /\ act' = [act EXCEPT ![p] = [symbol |-> s, action |-> "buy", qty |-> 1]]
       /\ left' = [left EXCEPT ![p] = @ \ {s}]
  /\ Goto(p, "submit")
  /\ UNCHANGED <<day, broker, trades, view, todo, opened, legged, starts, faults, wrong>>

\* cancel_open_orders, order by order; when it raises the exit is skipped.
CancelLegs(p) ==
  /\ pc[p] = "cancel"
  /\ \/ orders' = Cancelled(act[p].symbol, Ids) /\ Goto(p, "submit") /\ UNCHANGED faults
     \/ /\ Spend("error")
        /\ \E some \in SUBSET {c \in Ids : c[1] = act[p].symbol} :
             orders' = Cancelled(act[p].symbol, some)
        /\ Goto(p, "trade")
  /\ UNCHANGED <<day, pos, trades, local, starts, wrong>>

\* Mutant: the cycle's own positions do not learn of its orders.
SubmitUnseen(p) ==
  /\ pc[p] = "submit"
  /\ LET a == act[p]
         c == Coid(a.symbol, a.action)
     IN \/ /\ Accepts(c, a.qty)
           /\ orders' = [orders EXCEPT ![c] = Sent(a.qty, TRUE)]
           /\ Goto(p, "record")
        \/ ~Accepts(c, a.qty) /\ Goto(p, "trade") /\ UNCHANGED orders
  /\ UNCHANGED <<day, pos, trades, local, starts, faults, wrong>>

\* The order, under the client order id of its symbol, action and day.  On
\* an error nothing is recorded, though the broker may have taken it.
Submit(p) ==
  /\ pc[p] = "submit"
  /\ LET a == act[p]
         c == Coid(a.symbol, a.action)
         Send(heard) == /\ Accepts(c, a.qty)
                        /\ orders' = [orders EXCEPT ![c] = Sent(a.qty, heard)]
     IN \/ /\ Send(TRUE) /\ Goto(p, "record")
           /\ view' = [view EXCEPT ![p][a.symbol] = IF a.action = "buy" THEN a.qty ELSE 0]
           /\ UNCHANGED faults
        \/ Spend("lost") /\ Send(FALSE) /\ Goto(p, "trade") /\ UNCHANGED view
        \/ ~Accepts(c, a.qty) /\ Goto(p, "trade") /\ UNCHANGED <<orders, view, faults>>
        \/ Spend("refused") /\ Goto(p, "trade") /\ UNCHANGED <<orders, view>>
  /\ UNCHANGED <<day, pos, trades, todo, left, opened, legged, act, starts, wrong>>

\* Mutant: an exit leaves its trade open for the next reconciliation.
RecordNoOutcome(p) ==
  /\ pc[p] = "record"
  /\ LET a == act[p]
     IN IF a.action = "buy"
        THEN trades' = Append(trades, Entry(a.symbol, Coid(a.symbol, "buy"), TRUE))
        ELSE UNCHANGED trades
  /\ Goto(p, "trade")
  /\ UNCHANGED <<day, broker, local, starts, faults, wrong>>

\* log_decision of an entry; the outcome, at once, of the trade an exit closes.
Record(p) ==
  /\ pc[p] = "record"
  /\ LET a == act[p]
         owned == OpenOf(a.symbol, opened[p])
         new == Len(trades) + 1
     IN \/ /\ a.action = "buy"
           /\ trades' = Append(trades, Entry(a.symbol, Coid(a.symbol, "buy"), TRUE))
           /\ opened' = [opened EXCEPT ![p] = @ \cup {new}]
           /\ legged' = [legged EXCEPT ![p] = @ \cup {new}]
           /\ left' = [left EXCEPT ![p] = IF p \in Scans THEN {} ELSE @]
        \/ /\ a.action # "buy" /\ owned = {}
           /\ UNCHANGED <<trades, opened, legged, left>>
        \/ /\ a.action # "buy"
           /\ \E t \in owned : /\ IsFirst(t, owned)
                              /\ trades' = WithOutcome(t)
                              /\ opened' = [opened EXCEPT ![p] = @ \ {t}]
           /\ UNCHANGED <<legged, left>>
  /\ Goto(p, "trade")
  /\ UNCHANGED <<day, broker, view, todo, act, starts, faults, wrong>>

Flat == [s \in Symbols |-> 0]
AtRest(p) ==
  /\ Goto(p, "idle")
  /\ view' = [view EXCEPT ![p] = Flat] /\ act' = [act EXCEPT ![p] = NoAct]
  /\ todo' = [todo EXCEPT ![p] = {}] /\ left' = [left EXCEPT ![p] = {}]
  /\ opened' = [opened EXCEPT ![p] = {}] /\ legged' = [legged EXCEPT ![p] = {}]

Finish(p) ==
  /\ pc[p] = "trade" /\ left[p] = {}
  /\ AtRest(p)
  /\ UNCHANGED <<day, broker, trades, starts, faults, wrong>>

Crash(p) ==
  /\ Spend("crash") /\ pc[p] # "idle"
  /\ AtRest(p)
  /\ UNCHANGED <<day, broker, trades, starts, wrong>>

-----------------------------------------------------------------------------
Init ==
  /\ day = 1
  /\ orders = [c \in Ids |-> NoOrder] /\ pos = Flat /\ trades = <<>>
  /\ pc = [p \in Runs |-> "idle"]
  /\ view = [p \in Runs |-> Flat] /\ act = [p \in Runs |-> NoAct]
  /\ todo = [p \in Runs |-> {}] /\ left = [p \in Runs |-> {}]
  /\ opened = [p \in Runs |-> {}] /\ legged = [p \in Runs |-> {}]
  /\ starts = 0 /\ faults = 0 /\ wrong = FALSE

Step(p) ==
  \/ Begin(p) \/ Stale(p) \/ Reconcile(p) \/ Untracked(p) \/ Adopt(p)
  \/ Snapshot(p) \/ Hold(p) \/ DecideExit(p) \/ DecideEntry(p)
  \/ CancelLegs(p) \/ Submit(p) \/ Record(p) \/ Finish(p)

Next ==
  \/ \E p \in Runs : Step(p) \/ Crash(p)
  \/ \E c \in Ids : Fill(c) \/ StopFires(c) \/ OrderDies(c)
  \/ \E s \in Symbols : ManualClose(s)
  \/ NewDay

Spec == Init /\ [][Next]_vars

-----------------------------------------------------------------------------
(* Properties.                                                             *)

Trade == [symbol : Symbols, order : Ids \cup {NoId}, bracket : BOOLEAN, outcomes : Nat]
Order == [st : {"none", "live", "filled", "resting", "stopped", "dead"}, qty : Nat, heard : BOOLEAN]
Decision == [symbol : Symbols, action : Actions, qty : Nat] \cup {NoAct}

\* Every variable has its type, and what a run remembers of the ledger is in it.
TypeOK ==
  /\ day \in 1 .. Days /\ orders \in [Ids -> Order] /\ pos \in [Symbols -> Int]
  /\ trades \in Seq(Trade)
  /\ pc \in [Runs -> {"idle", "stale", "reconcile", "adopt", "snapshot", "trade",
                      "cancel", "submit", "record"}]
  /\ view \in [Runs -> [Symbols -> Int]] /\ act \in [Runs -> Decision]
  /\ todo \in [Runs -> SUBSET DOMAIN trades] /\ left \in [Runs -> SUBSET Symbols]
  /\ opened \in [Runs -> SUBSET DOMAIN trades] /\ legged \in [Runs -> SUBSET DOMAIN trades]
  /\ starts \in Nat /\ faults \in Nat /\ wrong \in BOOLEAN

\* One lot a symbol: whatever is killed, lost, refused or rerun on the same
\* day, no entry adds to a position and no exit sells what is not held
\* (main.py's client order ids; "entries never add to one", swing_scan.py).
OneLot == \A s \in Symbols : pos[s] \in {0, 1}

\* A trade is closed once: no trade gets a second outcome, which would count
\* its profit twice in everything that learns from the ledger.
OutcomeOnce == \A t \in DOMAIN trades : trades[t].outcomes <= 1

\* Reconciliation writes off only trades whose position has left the account
\* (reconcile_closed_positions: "were exited broker-side").
NeverClosesHeld == ~wrong

\* A cycle that ends with its own picture of the positions equal to the
\* broker's leaves a ledger that agrees: one open trade for every position
\* and none without, whatever crashed or was lost before it.
CycleAgrees ==
  \A p \in Runs \ Scans :
    pc[p] = "trade" /\ left[p] = {} /\ view[p] = pos /\ NothingLive =>
      \A s \in Symbols :
        Cardinality(OpenOf(s, open_buys)) = IF pos[s] = 0 THEN 0 ELSE 1

Dead(a) == {c \in Ids : c[2] = a /\ orders[c].st = "dead"}
Unheard == {c \in Ids : c[2] = "buy" /\ orders[c].st # "none" /\ ~orders[c].heard}

\* Symbols held and not on the way out, or on the way in.
Book == {s \in Symbols : \/ pos[s] # 0 /\ LiveOf(s, "sell") = {}
                         \/ LiveOf(s, "buy") # {}}

\* The book never holds, or has on order, more positions than the cap
\* (risk.max_open_positions, read from the positions the cycle keeps), save
\* for one for every entry whose reply was lost and every exit that died:
\* those are what the cycle's own picture gets wrong.
BookCap ==
  MaxPositions > 0 =>
    Cardinality(Book) <= MaxPositions + Cardinality(Dead("sell")) + Cardinality(Unheard)

Bought(s) == {c \in Ids : c[1] = s /\ c[2] = "buy" /\ orders[c].st # "none"}

\* The ledger books a holding once: it has no more trades of a symbol than
\* entries were sent for it, and exits of it died.  An exit's outcome is
\* written when the order is accepted; only if that order dies is the
\* position adopted again (adopt_untracked_positions).
TradePerEntry ==
  \A s \in Symbols :
    Cardinality(OpenOf(s, DOMAIN trades)) <=
      Cardinality(Bought(s)) + Cardinality({c \in Dead("sell") : c[1] = s})

\* The ledger agrees with the book: after a cycle they show the same holdings,
\* what is booked was entered once, and nothing still held is written off.
LedgerAgrees == CycleAgrees /\ TradePerEntry /\ NeverClosesHeld
=============================================================================
