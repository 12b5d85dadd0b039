--------------------------- MODULE TradeCycleProofs ---------------------------
(***************************************************************************)
(* TLAPS proofs about TradeCycle, for any symbols, days, bounds and        *)
(* faults: the type invariant; a trade is closed at most once by runs that *)
(* do not overlap; one lot a symbol; the ledger's agreement with the book; *)
(* the cap on positions.  Every invariant takes a part of its own          *)
(* (OnceInv, LotInv, CalmInv, EntryInv, AgreeInv, CapInv), in that order,  *)
(* each proved from those before it.                                       *)
(***************************************************************************)
EXTENDS TradeCycle, FiniteSetTheorems, TLAPS

\* Appending an entry, or counting an outcome, leaves a ledger that has every
\* record it had.
LEMMA LedgerGrows ==
  ASSUME NEW L \in Seq(Trade), NEW r \in Trade
  PROVE  Append(L, r) \in Seq(Trade) /\ DOMAIN L \subseteq DOMAIN Append(L, r)
BY DEF Trade

LEMMA OutcomeCounted ==
  ASSUME trades \in Seq(Trade), NEW t \in DOMAIN trades
  PROVE  /\ WithOutcome(t) \in Seq(Trade)
         /\ DOMAIN WithOutcome(t) = DOMAIN trades
         /\ WithOutcome(t)[t].outcomes = trades[t].outcomes + 1
         /\ \A u \in DOMAIN trades \ {t} : WithOutcome(t)[u] = trades[u]
<1> DEFINE new == [trades[t] EXCEPT !.outcomes = @ + 1]
<1>1. trades[t] \in Trade
  OBVIOUS
<1>2. new \in Trade /\ new.outcomes = trades[t].outcomes + 1
  BY <1>1 DEF Trade
<1>3. WithOutcome(t) = [trades EXCEPT ![t] = new]
  BY DEF WithOutcome
<1> HIDE DEF new
<1> QED
  BY <1>2, <1>3

LEMMA NewEntryType ==
  ASSUME NEW s \in Symbols, NEW oid \in Ids \cup {NoId}, NEW b \in BOOLEAN
  PROVE  Entry(s, oid, b) \in Trade
BY DEF Entry, Trade

\* What the broker does to its orders keeps them orders.
LEMMA OrdersStay ==
  ASSUME orders \in [Ids -> Order], NEW s, NEW some
  PROVE  Cancelled(s, some) \in [Ids -> Order]
BY DEF Cancelled, Order

LEMMA StatusStays ==
  ASSUME orders \in [Ids -> Order], NEW c \in Ids,
         NEW st \in {"none", "live", "filled", "resting", "stopped", "dead"}
  PROVE  [orders EXCEPT ![c].st = st] \in [Ids -> Order]
BY DEF Order

-----------------------------------------------------------------------------
(* Type correctness.                                                       *)

LEMMA TypeInit == Init => TypeOK
<1> SUFFICES ASSUME Init PROVE TypeOK
  OBVIOUS
<1> USE DEF Init, Flat
<1>1. day \in 1 .. Days
  BY BoundsAssumption
<1>2. orders \in [Ids -> Order] /\ pos \in [Symbols -> Int]
  BY DEF NoOrder, Order
<1>3. trades \in Seq(Trade) /\ DOMAIN trades = {}
  OBVIOUS
<1>4. view \in [Runs -> [Symbols -> Int]] /\ act \in [Runs -> Decision]
  BY DEF Decision
<1>5. /\ todo \in [Runs -> SUBSET DOMAIN trades] /\ left \in [Runs -> SUBSET Symbols]
      /\ opened \in [Runs -> SUBSET DOMAIN trades] /\ legged \in [Runs -> SUBSET DOMAIN trades]
  BY <1>3
<1> QED
  BY <1>1, <1>2, <1>3, <1>4, <1>5 DEF TypeOK

Labels == {"idle", "stale", "reconcile", "adopt", "snapshot", "trade",
           "cancel", "submit", "record"}

LEMMA TypeNext == TypeOK /\ [Next]_vars => TypeOK'
<1> SUFFICES ASSUME TypeOK, [Next]_vars PROVE TypeOK'
  OBVIOUS
<1> USE DEF TypeOK, local, broker, Goto
<1>1. ASSUME NEW p \in Runs, Begin(p) PROVE TypeOK'
  BY <1>1 DEF Begin
<1>2. ASSUME NEW p \in Runs, Stale(p) PROVE TypeOK'
  <2>1. open_buys \subseteq DOMAIN trades
    BY DEF open_buys
  <2>2. todo' \in [Runs -> SUBSET DOMAIN trades]
    BY <1>2, <2>1 DEF Stale
  <2> QED
    BY <1>2, <2>2 DEF Stale
<1>3. ASSUME NEW p \in Runs, Reconcile(p) PROVE TypeOK'
  <2>1. PICK t \in todo[p] :
          /\ todo' = [todo EXCEPT ![p] = @ \ {t}]
          /\ trades' \in {trades, WithOutcome(t)}
          /\ faults' \in {faults, faults + 1}
          /\ wrong' \in BOOLEAN
    BY <1>3 DEF Reconcile, Spend
  <2>2. trades' \in Seq(Trade) /\ DOMAIN trades' = DOMAIN trades
    BY <2>1, OutcomeCounted
  <2>3. /\ todo' \in [Runs -> SUBSET DOMAIN trades'] /\ faults' \in Nat
        /\ opened \in [Runs -> SUBSET DOMAIN trades'] /\ legged \in [Runs -> SUBSET DOMAIN trades']
    BY <2>1, <2>2
  <2>4. UNCHANGED <<day, broker, pc, view, left, opened, legged, act, starts>>
    BY <1>3 DEF Reconcile
  <2> QED
    BY <2>1, <2>2, <2>3, <2>4
<1>4. ASSUME NEW p \in Runs, Untracked(p) PROVE TypeOK'
  <2>1. left' \in [Runs -> SUBSET Symbols]
    BY <1>4 DEF Untracked, Held
  <2> QED
    BY <1>4, <2>1 DEF Untracked
<1>5. ASSUME NEW p \in Runs, Adopt(p) PROVE TypeOK'
  <2>1. PICK s \in left[p], b \in BOOLEAN :
          /\ left' = [left EXCEPT ![p] = @ \ {s}]
          /\ trades' = Append(trades, Entry(s, NoId, b))
          /\ faults' \in {faults, faults + 1}
    BY <1>5 DEF Adopt, Spend
  <2>2. Entry(s, NoId, b) \in Trade
    BY <2>1, NewEntryType
  <2>3. trades' \in Seq(Trade) /\ DOMAIN trades \subseteq DOMAIN trades'
    BY <2>1, <2>2, LedgerGrows
  <2>4. /\ left' \in [Runs -> SUBSET Symbols] /\ faults' \in Nat
        /\ todo \in [Runs -> SUBSET DOMAIN trades'] /\ opened \in [Runs -> SUBSET DOMAIN trades']
        /\ legged \in [Runs -> SUBSET DOMAIN trades']
    BY <2>1, <2>3
  <2>5. UNCHANGED <<day, broker, pc, view, todo, opened, legged, act, starts, wrong>>
    BY <1>5 DEF Adopt
  <2> QED
    BY <2>3, <2>4, <2>5
<1>6. ASSUME NEW p \in Runs, Snapshot(p) PROVE TypeOK'
  <2>1. open_buys \subseteq DOMAIN trades
    BY DEF open_buys
  <2> DEFINE recorded == {t \in open_buys : trades[t].bracket}
             resting  == {t \in open_buys : RestingOf(trades[t].symbol) # {}}
  <2>a. recorded \subseteq DOMAIN trades /\ recorded \cup resting \subseteq DOMAIN trades
    BY <2>1
  <2>b. /\ opened' = [opened EXCEPT ![p] = open_buys] /\ left' = [left EXCEPT ![p] = Symbols]
        /\ \/ legged' = [legged EXCEPT ![p] = recorded \cup resting]
           \/ legged' = [legged EXCEPT ![p] = recorded]
        /\ faults' \in {faults, faults + 1}
    BY <1>6 DEF Snapshot, Spend
  <2> HIDE DEF recorded, resting
  <2>2. /\ opened' \in [Runs -> SUBSET DOMAIN trades] /\ legged' \in [Runs -> SUBSET DOMAIN trades]
        /\ left' \in [Runs -> SUBSET Symbols] /\ faults' \in Nat
    <3>1. opened' \in [Runs -> SUBSET DOMAIN trades] /\ left' \in [Runs -> SUBSET Symbols]
      BY <2>1, <2>b
    <3>2. PICK r : r \subseteq DOMAIN trades /\ legged' = [legged EXCEPT ![p] = r]
      BY <2>a, <2>b
    <3>3. legged' \in [Runs -> SUBSET DOMAIN trades]
      BY <3>2
    <3>4. faults' \in Nat
      BY <2>b
    <3> QED
      BY <3>1, <3>3, <3>4
  <2>3. /\ UNCHANGED <<day, broker, trades, view, todo, act, starts, wrong>>
        /\ pc' = [pc EXCEPT ![p] = "trade"]
    BY <1>6 DEF Snapshot
  <2> QED
    BY <2>2, <2>3
<1>7. ASSUME NEW p \in Runs, Hold(p) PROVE TypeOK'
  BY <1>7 DEF Hold
<1>8. ASSUME NEW p \in Runs, DecideExit(p) PROVE TypeOK'
  <2>1. PICK s \in left[p] \cap Held(p) :
          /\ act' = [act EXCEPT ![p] =
                       [symbol |-> s, action |-> IF view[p][s] > 0 THEN "sell" ELSE "cover",
                        qty |-> IF view[p][s] > 0 THEN view[p][s] ELSE -view[p][s]]]
          /\ left' = [left EXCEPT ![p] = @ \ {s}]
          /\ pc' \in [Runs -> Labels]
    BY <1>8 DEF DecideExit, Labels
  <2>2. act' \in [Runs -> Decision]
    BY <2>1 DEF Decision, Actions
  <2>3. UNCHANGED <<day, broker, trades, view, todo, opened, legged, starts, faults, wrong>>
    BY <1>8 DEF DecideExit
  <2> QED
    BY <2>1, <2>2, <2>3 DEF Labels
<1>9. ASSUME NEW p \in Runs, DecideEntry(p) PROVE TypeOK'
  <2>1. act' \in [Runs -> Decision] /\ left' \in [Runs -> SUBSET Symbols]
    BY <1>9 DEF DecideEntry, Decision, Actions
  <2> QED
    BY <1>9, <2>1 DEF DecideEntry
<1>10. ASSUME NEW p \in Runs, CancelLegs(p) PROVE TypeOK'
  <2>1. orders' \in [Ids -> Order]
    BY <1>10, OrdersStay DEF CancelLegs
  <2>a. /\ pc' = [pc EXCEPT ![p] = "submit"] \/ pc' = [pc EXCEPT ![p] = "trade"]
        /\ faults' \in {faults, faults + 1}
    BY <1>10 DEF CancelLegs, Spend
  <2>b. pc' \in [Runs -> Labels]
    BY <2>a DEF Labels
  <2>2. pc' \in [Runs -> Labels] /\ faults' \in Nat
    BY <2>a, <2>b
  <2> QED
    BY <1>10, <2>1, <2>2 DEF CancelLegs, Labels
<1>11. ASSUME NEW p \in Runs, Submit(p) PROVE TypeOK'
  <2> DEFINE a == act[p]
             c == Coid(a.symbol, a.action)
             sent(heard) == Sent(a.qty, heard)
             shown == IF a.action = "buy" THEN a.qty ELSE 0
  <2>1. /\ UNCHANGED orders \/ \E heard \in BOOLEAN : orders' = [orders EXCEPT ![c] = sent(heard)]
        /\ UNCHANGED view \/ view' = [view EXCEPT ![p][a.symbol] = shown]
        /\ pc' = [pc EXCEPT ![p] = "record"] \/ pc' = [pc EXCEPT ![p] = "trade"]
        /\ faults' \in {faults, faults + 1}
        /\ UNCHANGED <<day, pos, trades, todo, left, opened, legged, act, starts, wrong>>
    BY <1>11 DEF Submit, Spend
  <2>2. (\A heard \in BOOLEAN : sent(heard) \in Order) /\ shown \in Int
    BY DEF Decision, NoAct, Order, Sent
  <2> HIDE DEF c, sent, shown
  <2>3. orders' \in [Ids -> Order]
    BY <2>1, <2>2
  <2>4. view' \in [Runs -> [Symbols -> Int]]
    <3>1. CASE UNCHANGED view
      BY <3>1
    <3>2. CASE view' = [view EXCEPT ![p][a.symbol] = shown]
      <4> DEFINE shared == [view[p] EXCEPT ![a.symbol] = shown]
      <4>1. shared \in [Symbols -> Int]
        BY <2>2
      <4>2. view' = [view EXCEPT ![p] = shared]
        BY <3>2
      <4> HIDE DEF shared
      <4> QED
        BY <4>1, <4>2
    <3> QED
      BY <2>1, <3>1, <3>2
  <2>5. pc' \in [Runs -> Labels] /\ faults' \in Nat
    BY <2>1 DEF Labels
  <2> QED
    BY <2>1, <2>3, <2>4, <2>5 DEF Labels
<1>12. ASSUME NEW p \in Runs, Record(p) PROVE TypeOK'
  <2> DEFINE a == act[p]
  <2>1. UNCHANGED <<day, broker, view, todo, act, starts, faults, wrong>>
        /\ pc' = [pc EXCEPT ![p] = "trade"]
    BY <1>12 DEF Record
  <2>2. CASE /\ a.action = "buy"
             /\ trades' = Append(trades, Entry(a.symbol, Coid(a.symbol, "buy"), TRUE))
             /\ opened' = [opened EXCEPT ![p] = @ \cup {Len(trades) + 1}]
             /\ legged' = [legged EXCEPT ![p] = @ \cup {Len(trades) + 1}]
             /\ left' = [left EXCEPT ![p] = IF p \in Scans THEN {} ELSE @]
    <3>1. a.symbol \in Symbols
      BY <2>2 DEF Decision, NoAct
    <3>2. Coid(a.symbol, "buy") \in Ids
      BY <3>1 DEF Coid, Ids, Actions
    <3>3. Entry(a.symbol, Coid(a.symbol, "buy"), TRUE) \in Trade
      BY <3>1, <3>2, NewEntryType
    <3>4. /\ trades' \in Seq(Trade) /\ DOMAIN trades \subseteq DOMAIN trades'
          /\ Len(trades) + 1 \in DOMAIN trades'
      <4>1. trades' = Append(trades, Entry(a.symbol, Coid(a.symbol, "buy"), TRUE))
        BY <2>2
      <4> DEFINE r == Entry(a.symbol, Coid(a.symbol, "buy"), TRUE)
      <4>2. r \in Trade /\ trades' = Append(trades, r)
        BY <3>3, <4>1
      <4> HIDE DEF r
      <4> QED
        BY <4>2, LedgerGrows
    <3>5. /\ opened' \in [Runs -> SUBSET DOMAIN trades']
          /\ legged' \in [Runs -> SUBSET DOMAIN trades']
          /\ todo \in [Runs -> SUBSET DOMAIN trades'] /\ left' \in [Runs -> SUBSET Symbols]
      BY <2>2, <3>4
    <3> QED
      BY <2>1, <3>4, <3>5
  <2>3. CASE UNCHANGED <<trades, opened, legged, left>>
    BY <2>1, <2>3
  <2>4. ASSUME NEW t \in opened[p], trades' = WithOutcome(t),
               opened' = [opened EXCEPT ![p] = @ \ {t}], UNCHANGED <<legged, left>>
        PROVE  TypeOK'
    <3>1. trades' \in Seq(Trade) /\ DOMAIN trades' = DOMAIN trades
      BY <2>4, OutcomeCounted
    <3>2. opened' \in [Runs -> SUBSET DOMAIN trades']
      BY <2>4, <3>1
    <3> QED
      BY <2>1, <2>4, <3>1, <3>2
  <2> QED
    BY <1>12, <2>2, <2>3, <2>4 DEF Record, OpenOf
<1>13. ASSUME NEW p \in Runs, AtRest(p),
              UNCHANGED <<day, broker, trades, starts, wrong>>, faults' \in Nat
       PROVE  TypeOK'
  BY <1>13 DEF AtRest, Flat, Decision
<1>14. ASSUME NEW p \in Runs, Finish(p) PROVE TypeOK'
  BY <1>13, <1>14 DEF Finish
<1>15. ASSUME NEW p \in Runs, Crash(p) PROVE TypeOK'
  BY <1>13, <1>15 DEF Crash, Spend
<1>16. ASSUME NEW c \in Ids, Fill(c) PROVE TypeOK'
  <2>1. orders' \in [Ids -> Order]
    BY <1>16, StatusStays DEF Fill
  <2>2. c[1] \in Symbols /\ orders[c].qty \in Nat
    BY DEF Ids, Order
  <2>3. pos' \in [Symbols -> Int]
    BY <1>16, <2>2 DEF Fill
  <2> QED
    BY <1>16, <2>1, <2>3 DEF Fill
<1>17. ASSUME NEW c \in Ids, StopFires(c) PROVE TypeOK'
  <2>1. orders' \in [Ids -> Order]
    BY <1>17, StatusStays DEF StopFires
  <2>2. c[1] \in Symbols /\ orders[c].qty \in Nat
    BY DEF Ids, Order
  <2>3. pos' \in [Symbols -> Int]
    BY <1>17, <2>2 DEF StopFires
  <2> QED
    BY <1>17, <2>1, <2>3 DEF StopFires
<1>18. ASSUME NEW c \in Ids, OrderDies(c) PROVE TypeOK'
  <2>1. orders' \in [Ids -> Order]
    BY <1>18, StatusStays DEF OrderDies
  <2> QED
    BY <1>18, <2>1 DEF OrderDies, Spend
<1>19. ASSUME NEW s \in Symbols, ManualClose(s) PROVE TypeOK'
  <2>1. orders' \in [Ids -> Order] /\ pos' \in [Symbols -> Int]
    BY <1>19, OrdersStay DEF ManualClose
  <2> QED
    BY <1>19, <2>1 DEF ManualClose, Spend
<1>20. CASE NewDay
  <2>1. day' \in 1 .. Days
    BY <1>20, BoundsAssumption DEF NewDay
  <2> QED
    BY <1>20, <2>1 DEF NewDay
<1>21. CASE UNCHANGED vars
  BY <1>21 DEF vars
<1> QED
  BY <1>1, <1>2, <1>3, <1>4, <1>5, <1>6, <1>7, <1>8, <1>9, <1>10, <1>11, <1>12,
     <1>14, <1>15, <1>16, <1>17, <1>18, <1>19, <1>20, <1>21 DEF Next, Step

\* Type correctness: every variable has its type, and what a run remembers of
\* the ledger is in the ledger (the structures of main.py's cycle).
THEOREM CycleTyping == Spec => []TypeOK
<1>1. Init => TypeOK
  BY TypeInit
<1>2. TypeOK /\ [Next]_vars => TypeOK'
  BY TypeNext
<1> QED
  BY <1>1, <1>2, PTL DEF Spec

-----------------------------------------------------------------------------
(* A trade is closed once.  Both places that close trades take them from a *)
(* set read earlier, the trades to reconcile and the cycle's snapshot; the *)
(* invariant says that such a set still holds open trades only, because no *)
(* two runs are under way and a run never has both sets at once.           *)

OneRun == \A p, q \in Runs : p # q => pc[p] = "idle" \/ pc[q] = "idle"

Remembers(p) ==
  /\ todo[p] \subseteq open_buys /\ opened[p] \subseteq open_buys
  /\ todo[p] # {} => pc[p] = "reconcile"
  /\ opened[p] # {} => pc[p] \in {"trade", "cancel", "submit", "record"}

OnceInv == OneRun /\ (\A p \in Runs : Remembers(p)) /\ OutcomeOnce

\* A run under way is the only one, and the others remember nothing.
LEMMA AloneRun ==
  ASSUME OnceInv, NEW p \in Runs, pc[p] # "idle"
  PROVE  \A q \in Runs \ {p} : pc[q] = "idle" /\ todo[q] = {} /\ opened[q] = {}
BY DEF OnceInv, OneRun, Remembers

\* A step of the run under way that leaves the ledger alone.
LEMMA LedgerKept ==
  ASSUME TypeOK, OnceInv, NEW p \in Runs, trades' = trades,
         \A q \in Runs \ {p} : pc'[q] = pc[q] /\ todo'[q] = todo[q] /\ opened'[q] = opened[q],
         pc[p] # "idle" \/ \A q \in Runs : pc[q] = "idle",
         Remembers(p)'
  PROVE  OnceInv'
<1>1. open_buys' = open_buys
  BY DEF open_buys
<1>2. \A q \in Runs \ {p} : pc'[q] = "idle" /\ Remembers(q)'
  BY <1>1, AloneRun DEF OnceInv, Remembers
<1>3. OneRun'
  BY <1>2 DEF OneRun
<1>4. OutcomeOnce'
  BY DEF OnceInv, OutcomeOnce
<1> QED
  BY <1>2, <1>3, <1>4 DEF OnceInv

\* A step that counts the outcome of a trade that was open.
LEMMA LedgerCloses ==
  ASSUME TypeOK, OnceInv, NEW p \in Runs, pc[p] # "idle",
         NEW t \in open_buys, trades' = WithOutcome(t),
         \A q \in Runs \ {p} : pc'[q] = pc[q] /\ todo'[q] = todo[q] /\ opened'[q] = opened[q],
         todo'[p] \subseteq open_buys \ {t}, opened'[p] \subseteq open_buys \ {t},
         todo'[p] # {} => pc'[p] = "reconcile",
         opened'[p] # {} => pc'[p] \in {"trade", "cancel", "submit", "record"}
  PROVE  OnceInv'
<1>1. t \in DOMAIN trades /\ trades[t].outcomes = 0 /\ trades \in Seq(Trade)
  BY DEF open_buys, TypeOK
<1>2. /\ DOMAIN trades' = DOMAIN trades /\ trades'[t].outcomes = 1
      /\ \A u \in DOMAIN trades \ {t} : trades'[u] = trades[u]
  BY <1>1, OutcomeCounted
<1>3. open_buys \ {t} \subseteq open_buys'
  BY <1>2 DEF open_buys
<1>4. OutcomeOnce'
  BY <1>1, <1>2 DEF OutcomeOnce, OnceInv
<1>5. \A q \in Runs \ {p} : pc'[q] = "idle" /\ todo'[q] = {} /\ opened'[q] = {}
  BY AloneRun
<1>6. OneRun'
  BY <1>5 DEF OneRun
<1>7. \A q \in Runs : Remembers(q)'
  BY <1>3, <1>5 DEF Remembers
<1> QED
  BY <1>4, <1>6, <1>7 DEF OnceInv

\* A step that books a new trade.
LEMMA LedgerBooks ==
  ASSUME TypeOK, OnceInv, NEW p \in Runs, pc[p] # "idle",
         NEW r \in Trade, r.outcomes = 0, trades' = Append(trades, r),
         \A q \in Runs \ {p} : pc'[q] = pc[q] /\ todo'[q] = todo[q] /\ opened'[q] = opened[q],
         todo'[p] = {}, opened'[p] \subseteq open_buys \cup {Len(trades) + 1},
         opened'[p] # {} => pc'[p] \in {"trade", "cancel", "submit", "record"}
  PROVE  OnceInv'
<1>1. trades \in Seq(Trade)
  BY DEF TypeOK
<1>2. /\ DOMAIN trades' = DOMAIN trades \cup {Len(trades) + 1}
      /\ trades'[Len(trades) + 1] = r
      /\ \A u \in DOMAIN trades : trades'[u] = trades[u]
  BY <1>1
<1>3. open_buys' = open_buys \cup {Len(trades) + 1}
  <2>1. Len(trades) + 1 \notin DOMAIN trades
    BY <1>1
  <2> QED
    BY <1>2, <2>1 DEF open_buys
<1>4. OutcomeOnce'
  BY <1>2 DEF OutcomeOnce, OnceInv
<1>5. \A q \in Runs \ {p} : pc'[q] = "idle" /\ todo'[q] = {} /\ opened'[q] = {}
  BY AloneRun
<1>6. OneRun'
  BY <1>5 DEF OneRun
<1>7. \A q \in Runs : Remembers(q)'
  BY <1>3, <1>5 DEF Remembers
<1> QED
  BY <1>4, <1>6, <1>7 DEF OnceInv

LEMMA OnceNext ==
  ASSUME "overlap" \notin Faults, TypeOK, TypeOK', OnceInv, [Next]_vars
  PROVE  OnceInv'
<1>0. \A p \in Runs : Remembers(p)
  BY DEF OnceInv
<1> USE <1>0 DEF TypeOK, local, broker, Goto
<1>1. ASSUME NEW p \in Runs, Begin(p) PROVE OnceInv'
  <2>1. \A q \in Runs : pc[q] = "idle"
    BY <1>1 DEF Begin
  <2>2. /\ trades' = trades /\ todo' = todo /\ opened' = opened
        /\ \A q \in Runs \ {p} : pc'[q] = pc[q]
    BY <1>1 DEF Begin
  <2>3. todo[p] = {} /\ opened[p] = {}
    BY <2>1 DEF Remembers
  <2>4. Remembers(p)'
    BY <2>2, <2>3 DEF Remembers
  <2> QED
    BY <2>1, <2>2, <2>4, LedgerKept
<1>2. ASSUME NEW p \in Runs, Stale(p) PROVE OnceInv'
  <2>1. /\ pc[p] = "stale" /\ pc' = [pc EXCEPT ![p] = "reconcile"]
        /\ trades' = trades /\ opened' = opened
        /\ todo' = [todo EXCEPT ![p] = {t \in open_buys : trades[t].symbol \notin Held(p)}]
    BY <1>2 DEF Stale
  <2>2. open_buys' = open_buys /\ opened[p] = {}
    BY <2>1 DEF open_buys, Remembers
  <2>3. Remembers(p)'
    BY <2>1, <2>2 DEF Remembers
  <2> QED
    BY <2>1, <2>3, LedgerKept
<1>3. ASSUME NEW p \in Runs, Reconcile(p) PROVE OnceInv'
  <2>1. PICK t \in todo[p] :
          /\ todo' = [todo EXCEPT ![p] = @ \ {t}]
          /\ trades' = trades \/ trades' = WithOutcome(t)
    BY <1>3 DEF Reconcile
  <2>2. pc[p] = "reconcile" /\ pc' = pc /\ opened' = opened
    BY <1>3 DEF Reconcile
  <2>3. t \in open_buys /\ opened[p] = {} /\ todo'[p] \subseteq open_buys \ {t}
    BY <2>1, <2>2 DEF Remembers
  <2>4. \A q \in Runs \ {p} : todo'[q] = todo[q]
    BY <2>1
  <2>5. CASE trades' = trades
    <3>1. open_buys' = open_buys
      BY <2>5 DEF open_buys
    <3>2. Remembers(p)'
      BY <2>2, <2>3, <3>1 DEF Remembers
    <3> QED
      BY <2>2, <2>4, <2>5, <3>2, LedgerKept
  <2>6. CASE trades' = WithOutcome(t)
    BY <2>2, <2>3, <2>4, <2>6, LedgerCloses
  <2> QED
    BY <2>1, <2>5, <2>6
<1>4. ASSUME NEW p \in Runs, Untracked(p) PROVE OnceInv'
  <2>1. /\ pc[p] = "reconcile" /\ pc' = [pc EXCEPT ![p] = "adopt"]
        /\ todo[p] = {} /\ todo' = todo /\ trades' = trades /\ opened' = opened
    BY <1>4 DEF Untracked
  <2>2. opened[p] = {}
    BY <2>1 DEF Remembers
  <2>3. Remembers(p)'
    BY <2>1, <2>2 DEF Remembers
  <2> QED
    BY <2>1, <2>3, LedgerKept
<1>5. ASSUME NEW p \in Runs, Adopt(p) PROVE OnceInv'
  <2>1. PICK s \in left[p], b \in BOOLEAN : trades' = Append(trades, Entry(s, NoId, b))
    BY <1>5 DEF Adopt
  <2>2. pc[p] = "adopt" /\ pc' = pc /\ todo' = todo /\ opened' = opened
    BY <1>5 DEF Adopt
  <2>3. todo[p] = {} /\ opened[p] = {}
    BY <2>2 DEF Remembers
  <2> DEFINE r == Entry(s, NoId, b)
  <2>4. r \in Trade /\ r.outcomes = 0 /\ trades' = Append(trades, r)
    BY <2>1, NewEntryType DEF Entry
  <2> HIDE DEF r
  <2> QED
    BY <2>2, <2>3, <2>4, LedgerBooks
<1>6. ASSUME NEW p \in Runs, Snapshot(p) PROVE OnceInv'
  <2>1. /\ pc[p] \in {"adopt", "snapshot"} /\ pc' = [pc EXCEPT ![p] = "trade"]
        /\ todo' = todo /\ trades' = trades /\ opened' = [opened EXCEPT ![p] = open_buys]
    BY <1>6 DEF Snapshot
  <2>2. open_buys' = open_buys /\ todo[p] = {}
    BY <2>1 DEF open_buys, Remembers
  <2>3. Remembers(p)'
    BY <2>1, <2>2 DEF Remembers
  <2> QED
    BY <2>1, <2>3, LedgerKept
<1>7. ASSUME NEW p \in Runs, pc[p] \in {"trade", "cancel", "submit"},
             \E l \in {"trade", "cancel", "submit", "record"} : pc' = [pc EXCEPT ![p] = l],
             UNCHANGED <<trades, todo, opened>>
      PROVE  OnceInv'
  <2>1. open_buys' = open_buys /\ todo[p] = {}
    BY <1>7 DEF open_buys, Remembers
  <2>2. Remembers(p)'
    BY <1>7, <2>1 DEF Remembers
  <2> QED
    BY <1>7, <2>2, LedgerKept
<1>8. ASSUME NEW p \in Runs, Hold(p) \/ DecideExit(p) \/ DecideEntry(p) PROVE OnceInv'
  <2>1. /\ pc[p] = "trade" /\ UNCHANGED <<trades, todo, opened>>
        /\ \/ pc' = pc \/ pc' = [pc EXCEPT ![p] = "cancel"]
           \/ pc' = [pc EXCEPT ![p] = "submit"]
    BY <1>8 DEF Hold, DecideExit, DecideEntry
  <2>2. pc = [pc EXCEPT ![p] = "trade"]
    BY <2>1
  <2> QED
    BY <1>7, <2>1, <2>2
<1>9. ASSUME NEW p \in Runs, CancelLegs(p) \/ Submit(p) PROVE OnceInv'
  <2>1. /\ pc[p] \in {"cancel", "submit"} /\ UNCHANGED <<trades, todo, opened>>
        /\ \/ pc' = [pc EXCEPT ![p] = "trade"] \/ pc' = [pc EXCEPT ![p] = "submit"]
           \/ pc' = [pc EXCEPT ![p] = "record"]
    BY <1>9 DEF CancelLegs, Submit
  <2> QED
    BY <1>7, <2>1
<1>10. ASSUME NEW p \in Runs, Record(p) PROVE OnceInv'
  <2> DEFINE a == act[p]
             r == Entry(a.symbol, Coid(a.symbol, "buy"), TRUE)
  <2>1. pc[p] = "record" /\ pc' = [pc EXCEPT ![p] = "trade"] /\ todo' = todo
    BY <1>10 DEF Record
  <2>2. todo[p] = {} /\ opened[p] \subseteq open_buys
    BY <2>1 DEF Remembers
  <2>3. CASE /\ a.action = "buy" /\ trades' = Append(trades, r)
             /\ opened' = [opened EXCEPT ![p] = @ \cup {Len(trades) + 1}]
    <3>1. a.symbol \in Symbols
      BY <2>3 DEF Decision, NoAct
    <3>2. Coid(a.symbol, "buy") \in Ids
      BY <3>1 DEF Coid, Ids, Actions
    <3>3. r \in Trade /\ r.outcomes = 0
      BY <3>1, <3>2, NewEntryType DEF Entry
    <3>4. trades' = Append(trades, r) /\ opened' = [opened EXCEPT ![p] = @ \cup {Len(trades) + 1}]
      BY <2>3
    <3> HIDE DEF r
    <3> QED
      BY <2>1, <2>2, <3>3, <3>4, LedgerBooks
  <2>4. CASE UNCHANGED <<trades, opened>>
    <3>1. open_buys' = open_buys
      BY <2>4 DEF open_buys
    <3>2. Remembers(p)'
      BY <2>1, <2>2, <2>4, <3>1 DEF Remembers
    <3> QED
      BY <2>1, <2>4, <3>2, LedgerKept
  <2>5. ASSUME NEW t \in opened[p], trades' = WithOutcome(t),
               opened' = [opened EXCEPT ![p] = @ \ {t}]
        PROVE  OnceInv'
    <3>1. t \in open_buys /\ opened'[p] \subseteq open_buys \ {t}
      BY <2>2, <2>5
    <3> QED
      BY <2>1, <2>2, <2>5, <3>1, LedgerCloses
  <2> QED
    BY <1>10, <2>3, <2>4, <2>5 DEF Record, OpenOf
<1>11. ASSUME NEW p \in Runs, pc[p] # "idle", AtRest(p), trades' = trades PROVE OnceInv'
  <2>1. todo'[p] = {} /\ opened'[p] = {}
    BY <1>11 DEF AtRest
  <2>2. Remembers(p)'
    BY <2>1 DEF Remembers
  <2> QED
    BY <1>11, <2>2, LedgerKept DEF AtRest
<1>12. ASSUME NEW p \in Runs, Finish(p) \/ Crash(p) PROVE OnceInv'
  BY <1>11, <1>12 DEF Finish, Crash
<1>13. ASSUME UNCHANGED <<trades, pc, todo, opened>> PROVE OnceInv'
  <2>1. open_buys' = open_buys
    BY <1>13 DEF open_buys
  <2> QED
    BY <1>13, <2>1 DEF OnceInv, OneRun, Remembers, OutcomeOnce
<1>14. ASSUME NEW c \in Ids, Fill(c) \/ StopFires(c) \/ OrderDies(c) PROVE OnceInv'
  BY <1>13, <1>14 DEF Fill, StopFires, OrderDies
<1>15. ASSUME NEW s \in Symbols, ManualClose(s) PROVE OnceInv'
  BY <1>13, <1>15 DEF ManualClose
<1>16. CASE NewDay \/ UNCHANGED vars
  BY <1>13, <1>16 DEF NewDay, vars
<1> QED
  BY <1>1, <1>2, <1>3, <1>4, <1>5, <1>6, <1>8, <1>9, <1>10, <1>12, <1>14, <1>15, <1>16
     DEF Next, Step

\* Runs that do not overlap close a trade once, whatever is killed, lost or
\* refused on the way (main.py: reconcile_closed_positions and the exit's
\* handle_close, the only writers of outcomes).
THEOREM ClosedOnce == "overlap" \notin Faults => (Spec => []OutcomeOnce)
<1> SUFFICES ASSUME "overlap" \notin Faults PROVE Spec => []OutcomeOnce
  OBVIOUS
<1>1. Init => OnceInv
  <2> SUFFICES ASSUME Init PROVE OnceInv
    OBVIOUS
  <2>1. OneRun /\ OutcomeOnce
    BY DEF Init, OneRun, OutcomeOnce
  <2>2. \A p \in Runs : Remembers(p)
    BY DEF Init, Remembers
  <2> QED
    BY <2>1, <2>2 DEF OnceInv
<1>2. TypeOK /\ TypeOK' /\ OnceInv /\ [Next]_vars => OnceInv'
  BY OnceNext
<1>3. OnceInv => OutcomeOnce
  BY DEF OnceInv
<1> QED
  BY <1>1, <1>2, <1>3, CycleTyping, PTL DEF Spec

-----------------------------------------------------------------------------
(* One lot a symbol.  A live order is of today, and an entry is live only    *)
(* while nothing is held; whatever reserves the lot is alone to do so.  A    *)
(* run that does not see a position has either been the one to sell it or    *)
(* finds today's client order id of an entry taken.                          *)

Acting == {"cancel", "submit", "record"}
Reserving == {c \in Ids : orders[c].st = "resting" \/ (c[2] = "sell" /\ orders[c].st = "live")}

LotOrders ==
  /\ \A c \in Ids : orders[c].st = "live" =>
       /\ c[3] = day /\ orders[c].qty = 1 /\ c[2] # "cover"
       /\ c[2] = "buy" => pos[c[1]] = 0
  /\ \A c \in Reserving : orders[c].qty = 1 /\ pos[c[1]] = 1
  /\ \A c, d \in Reserving : c[1] = d[1] => c = d

EntryUsed(s) == orders[<<s, "buy", day>>].st # "none"

Acts(p) ==
  pc[p] \in Acting =>
    /\ act[p].symbol \in Symbols \ left[p] /\ act[p].action \in {"buy", "sell"} /\ act[p].qty = 1
    /\ pc[p] = "cancel" => act[p].action = "sell"
    /\ pc[p] # "record" => (act[p].action = "buy" <=> view[p][act[p].symbol] = 0)

Knows(p) ==
  \A s \in Symbols :
    pc[p] # "idle" /\ view[p][s] = 0 /\ pos[s] # 0 =>
      \/ EntryUsed(s)
      \/ /\ s \notin left[p] /\ pc[p] \in Acting \cup {"trade"}
         /\ ~(pc[p] = "submit" /\ act[p].symbol = s /\ act[p].action = "buy")

Views(p) == view[p] \in [Symbols -> {0, 1}]

LotInv == OneLot /\ LotOrders /\ \A p \in Runs : Acts(p) /\ Knows(p) /\ Views(p)

\* A step of one run that leaves the broker alone.
LEMMA LotKept ==
  ASSUME LotInv, NEW p \in Runs, UNCHANGED <<day, orders, pos>>,
         \A q \in Runs \ {p} : /\ pc'[q] = pc[q] /\ view'[q] = view[q]
                               /\ left'[q] = left[q] /\ act'[q] = act[q],
         Acts(p)', Knows(p)', Views(p)'
  PROVE  LotInv'
<1>1. OneLot' /\ LotOrders'
  BY DEF LotInv, OneLot, LotOrders, Reserving
<1>2. ASSUME NEW q \in Runs \ {p} PROVE Acts(q)' /\ Knows(q)' /\ Views(q)'
  <2>1. Acts(q) /\ Knows(q) /\ Views(q)
    BY DEF LotInv
  <2>2. Acts(q)'
    BY <2>1 DEF Acts
  <2>3. Knows(q)'
    BY <2>1 DEF Knows, EntryUsed
  <2>4. Views(q)'
    BY <2>1 DEF Views
  <2> QED BY <2>2, <2>3, <2>4
<1> QED
  BY <1>1, <1>2 DEF LotInv

\* A step that changes orders and positions: nothing is held that was not,
\* save by an entry of today, and no client order id is given back.
LEMMA LotBroker ==
  ASSUME LotInv, UNCHANGED <<day, local>>, OneLot', LotOrders',
         \A p \in Runs : pc'[p] = pc[p] \/ (pc[p] = "cancel" /\ pc'[p] \in {"submit", "trade"}),
         \A c \in Ids : orders[c].st # "none" => orders'[c].st # "none",
         \A s \in Symbols : pos'[s] # 0 => pos[s] # 0 \/ EntryUsed(s),
         TypeOK
  PROVE  LotInv'
<1> SUFFICES ASSUME NEW p \in Runs PROVE Acts(p)' /\ Knows(p)' /\ Views(p)'
  BY DEF LotInv
<1>1. Acts(p) /\ Knows(p) /\ Views(p)
  BY DEF LotInv
<1>2. Acts(p)' /\ Views(p)'
  BY <1>1 DEF Acts, Views, local, Acting
<1>3. ASSUME NEW s \in Symbols, EntryUsed(s) PROVE EntryUsed(s)'
  <2>1. <<s, "buy", day>> \in Ids
    BY DEF Ids, Actions, TypeOK
  <2> QED BY <1>3, <2>1 DEF EntryUsed
<1>4. Knows(p)'
  BY <1>1, <1>3 DEF Knows, Acts, local, Acting
<1> QED BY <1>2, <1>4

\* Where one lot is held the order that reserves it is the only one.
LEMMA ReservedLots ==
  ASSUME TypeOK, LotInv, NEW s \in Symbols
  PROVE  /\ Reserved(s) \in Nat
         /\ Reserved(s) = 0 => RestingOf(s) = {} /\ LiveOf(s, "sell") = {}
<1> DEFINE R == RestingOf(s) \cup LiveOf(s, "sell")
           lots == UNION {{c} \X (1 .. orders[c].qty) : c \in R}
<1>1. \A c \in R : c \in Ids /\ orders[c].qty = 1
  BY DEF RestingOf, LiveOf, LotInv, LotOrders, Reserving
<1>2. \A c, d \in R : c = d
  BY DEF RestingOf, LiveOf, LotInv, LotOrders, Reserving
<1>3. lots = {} \/ \E c \in R : lots = {<<c, 1>>}
  <2>1. ASSUME NEW c \in R PROVE lots = {<<c, 1>>}
    <3>1. R = {c}
      BY <1>2
    <3>2. 1 .. orders[c].qty = {1}
      BY <1>1
    <3>3. {{d} \X (1 .. orders[d].qty) : d \in R} = {{c} \X {1}}
      BY <3>1, <3>2
    <3>4. {c} \X {1} = {<<c, 1>>}
      OBVIOUS
    <3> QED BY <3>3, <3>4
  <2> QED BY <2>1
<1>4. IsFiniteSet(lots) /\ Cardinality(lots) \in Nat
  <2> HIDE DEF lots
  <2>1. CASE lots = {}
    BY <2>1, FS_EmptySet
  <2>2. ASSUME NEW c \in R, lots = {<<c, 1>>} PROVE IsFiniteSet(lots) /\ Cardinality(lots) \in Nat
    <3>1. PICK x : lots = {x}
      BY <2>2
    <3>2. IsFiniteSet({x}) /\ Cardinality({x}) = 1
      BY FS_Singleton
    <3> QED BY <3>1, <3>2
  <2> QED BY <1>3, <2>1, <2>2
<1>5. Reserved(s) = Cardinality(lots)
  BY DEF Reserved
<1>6. ASSUME Reserved(s) = 0, NEW c \in R PROVE FALSE
  <2>1. <<c, 1>> \in {c} \X (1 .. orders[c].qty)
    BY <1>1
  <2>2. <<c, 1>> \in lots
    BY <2>1
  <2>3. lots = {}
    <3> HIDE DEF lots
    <3> QED BY <1>4, <1>5, <1>6, FS_EmptySet
  <2> QED BY <2>2, <2>3
<1> QED BY <1>4, <1>5, <1>6

\* The order a run sends: an entry where nothing is held and no entry of
\* today was sent, an exit where the lot is held and nothing reserves it.
LEMMA LotSent ==
  ASSUME TypeOK, LotInv, "short" \notin Faults,
         NEW s \in Symbols, NEW a \in {"buy", "sell"}, NEW heard \in BOOLEAN,
         Accepts(Coid(s, a), 1), a = "buy" => pos[s] = 0,
         orders' = [orders EXCEPT ![Coid(s, a)] = Sent(1, heard)],
         UNCHANGED <<day, pos>>
  PROVE  OneLot' /\ LotOrders' /\ (a = "sell" => pos[s] = 1)
<1> DEFINE n == Coid(s, a)
<1>1. n \in Ids /\ n[1] = s /\ n[2] = a /\ n[3] = day /\ orders[n].st = "none"
  BY DEF Coid, Ids, Actions, TypeOK, Accepts
<1>2. OneLot' /\ pos[s] \in {0, 1}
  BY DEF LotInv, OneLot
<1>3. orders'[n].st = "live" /\ orders'[n].qty = 1
  BY <1>1 DEF TypeOK, Sent
<1>4. \A c \in Ids \ {n} : orders'[c] = orders[c]
  BY DEF TypeOK
<1> HIDE DEF n
<1>5. a = "sell" => pos[s] = 1 /\ RestingOf(s) = {} /\ LiveOf(s, "sell") = {}
  <2> SUFFICES ASSUME a = "sell" PROVE pos[s] = 1 /\ Reserved(s) = 0
    BY ReservedLots
  <2>0. Reserved(s) \in Nat
    BY ReservedLots
  <2>1. pos[s] > 0 /\ pos[s] - Reserved(s) >= 1
    BY <1>1 DEF Accepts, Coid
  <2> QED BY <1>2, <2>0, <2>1
<1>6. \A c \in Ids : orders'[c].st = "live" =>
        /\ c[3] = day /\ orders'[c].qty = 1 /\ c[2] # "cover"
        /\ c[2] = "buy" => pos[c[1]] = 0
  BY <1>1, <1>3, <1>4 DEF LotInv, LotOrders
<1>7. Reserving' = IF a = "sell" THEN Reserving \cup {n} ELSE Reserving
  BY <1>1, <1>3, <1>4 DEF Reserving
<1>8. a = "sell" => \A c \in Reserving : c[1] # s
  BY <1>5 DEF Reserving, RestingOf, LiveOf
<1>9. \A c \in Reserving' : orders'[c].qty = 1 /\ pos[c[1]] = 1
  BY <1>1, <1>3, <1>4, <1>5, <1>7 DEF LotInv, LotOrders, Reserving
<1>10. \A c, d \in Reserving' : c[1] = d[1] => c = d
  BY <1>1, <1>7, <1>8 DEF LotInv, LotOrders
<1> QED BY <1>2, <1>5, <1>6, <1>9, <1>10 DEF LotOrders

LEMMA LotFill ==
  ASSUME TypeOK, LotInv, NEW c \in Ids, Fill(c)
  PROVE  LotInv'
<1> DEFINE s == c[1]
<1>1. /\ s \in Symbols /\ orders[c].st = "live" /\ orders[c].qty = 1 /\ c[3] = day
      /\ c[2] \in {"buy", "sell"} /\ pos \in [Symbols -> {0, 1}]
  BY DEF Fill, Ids, Actions, LotInv, LotOrders, OneLot, TypeOK
<1>2. /\ pos[s] = IF c[2] = "buy" THEN 0 ELSE 1
      /\ pos' = [pos EXCEPT ![s] = 1 - pos[s]]
  <2>1. pos[s] = IF c[2] = "buy" THEN 0 ELSE 1
    BY <1>1 DEF LotInv, LotOrders, Reserving
  <2>2. pos' = [pos EXCEPT ![s] = IF c[2] = "buy" THEN pos[s] + 1 ELSE pos[s] - 1]
    BY <1>1 DEF Fill
  <2>3. CASE c[2] = "buy"
    <3>1. pos[s] = 0 /\ pos' = [pos EXCEPT ![s] = pos[s] + 1]
      BY <2>1, <2>2, <2>3
    <3> QED BY <2>3, <3>1
  <2>4. CASE c[2] = "sell"
    <3>1. pos[s] = 1 /\ pos' = [pos EXCEPT ![s] = pos[s] - 1]
      BY <2>1, <2>2, <2>4
    <3> QED BY <2>4, <3>1
  <2> QED BY <1>1, <2>3, <2>4
<1>3. /\ orders'[c].st = IF c[2] = "buy" THEN "resting" ELSE "filled"
      /\ orders'[c].qty = 1 /\ \A d \in Ids \ {c} : orders'[d] = orders[d]
      /\ UNCHANGED <<day, pc, local>>
  BY <1>1 DEF Fill, TypeOK
<1>4. \A d \in Reserving : d[1] = s => d = c
  BY <1>1, <1>2 DEF LotInv, LotOrders, Reserving
<1>5. Reserving' = IF c[2] = "buy" THEN Reserving \cup {c} ELSE Reserving \ {c}
  BY <1>1, <1>3 DEF Reserving
<1>6. OneLot'
  BY <1>1, <1>2 DEF OneLot
<1>7. \A d \in Ids \ {c} : orders[d].st = "live" /\ d[2] = "buy" => d[1] # s
  <2> SUFFICES ASSUME NEW d \in Ids \ {c}, orders[d].st = "live", d[2] = "buy", d[1] = s
               PROVE FALSE
    OBVIOUS
  <2>1. pos[s] = 0 /\ d[3] = day
    BY DEF LotInv, LotOrders
  <2>2. c[2] = "buy"
    BY <1>2, <2>1
  <2>3. c = <<s, "buy", day>> /\ d = <<s, "buy", day>>
    BY <1>1, <2>1, <2>2 DEF Ids
  <2> QED BY <2>3
<1> HIDE DEF s
<1>8. \A d \in Ids : orders'[d].st = "live" =>
        /\ d[3] = day /\ orders'[d].qty = 1 /\ d[2] # "cover"
        /\ d[2] = "buy" => pos'[d[1]] = 0
  BY <1>1, <1>2, <1>3, <1>7 DEF LotInv, LotOrders, Ids
<1>9. \A d \in Reserving' : orders'[d].qty = 1 /\ pos'[d[1]] = 1
  <2>1. \A d \in Reserving \ {c} : orders'[d].qty = 1 /\ pos'[d[1]] = 1
    BY <1>1, <1>2, <1>3, <1>4 DEF LotInv, LotOrders, Ids, Reserving
  <2>2. c[2] = "buy" => pos'[c[1]] = 1
    BY <1>1, <1>2 DEF s
  <2> QED BY <1>3, <1>5, <2>1, <2>2
<1>10. \A d, e \in Reserving' : d[1] = e[1] => d = e
  BY <1>4, <1>5 DEF LotInv, LotOrders, s
<1>11. LotOrders'
  BY <1>3, <1>8, <1>9, <1>10 DEF LotOrders
<1>12. \A r \in Symbols : pos'[r] # 0 => pos[r] # 0 \/ EntryUsed(r)
  <2>1. c[2] = "buy" => EntryUsed(s)
    <3>1. c[2] = "buy" => c = <<s, "buy", day>>
      BY <1>1 DEF Ids, s
    <3> QED BY <1>1, <3>1 DEF EntryUsed
  <2> QED BY <1>1, <1>2, <2>1
<1>13. \A d \in Ids : orders[d].st # "none" => orders'[d].st # "none"
  BY <1>3
<1> QED BY <1>3, <1>6, <1>11, <1>12, <1>13, LotBroker

\* Orders that only end, or lose their leg, and a position no larger.
LEMMA LotEnds ==
  ASSUME TypeOK, LotInv, NEW s \in Symbols, UNCHANGED <<day, local>>,
         \A p \in Runs : pc'[p] = pc[p] \/ (pc[p] = "cancel" /\ pc'[p] \in {"submit", "trade"}),
         \A c \in Ids : /\ orders'[c].qty = orders[c].qty
                        /\ orders'[c].st # orders[c].st =>
                             orders'[c].st \in {"filled", "stopped", "dead"},
         \/ UNCHANGED pos
         \/ /\ pos' = [pos EXCEPT ![s] = 0]
            /\ \A c \in Ids : c[1] = s /\ c \in Reserving => c \notin Reserving'
  PROVE  LotInv'
<1>1. \A r \in Symbols : pos'[r] = pos[r] \/ pos'[r] = 0
  BY DEF TypeOK
<1>2. OneLot'
  BY <1>1 DEF LotInv, OneLot
<1>3. Reserving' \subseteq Reserving
  BY DEF Reserving
<1>4. \A c \in Ids : orders'[c].st = "live" => orders[c].st = "live"
  OBVIOUS
<1>5. \A c \in Ids : orders'[c].st = "live" =>
        /\ c[3] = day /\ orders'[c].qty = 1 /\ c[2] # "cover"
        /\ c[2] = "buy" => pos'[c[1]] = 0
  BY <1>1, <1>4 DEF LotInv, LotOrders, Ids
<1>6. \A c \in Reserving' : orders'[c].qty = 1 /\ pos'[c[1]] = 1
  <2> SUFFICES ASSUME NEW c \in Reserving' PROVE orders'[c].qty = 1 /\ pos'[c[1]] = 1
    OBVIOUS
  <2>1. c \in Reserving /\ c \in Ids /\ c[1] \in Symbols
    BY <1>3 DEF Reserving, Ids
  <2>2. pos'[c[1]] = pos[c[1]]
    BY <2>1 DEF TypeOK
  <2> QED BY <2>1, <2>2 DEF LotInv, LotOrders
<1>7. LotOrders'
  BY <1>3, <1>5, <1>6 DEF LotInv, LotOrders
<1>8. \A c \in Ids : orders[c].st # "none" => orders'[c].st # "none"
  OBVIOUS
<1> QED BY <1>1, <1>2, <1>7, <1>8, LotBroker

LEMMA CancelEnds ==
  ASSUME TypeOK, NEW s \in Symbols, NEW some, orders' = Cancelled(s, some)
  PROVE  \A c \in Ids : /\ orders'[c].qty = orders[c].qty
                        /\ orders'[c].heard = orders[c].heard
                        /\ orders'[c].st # orders[c].st =>
                             /\ c[1] = s /\ c \in some
                             /\ \/ orders[c].st = "live" /\ orders'[c].st = "dead"
                                \/ orders[c].st = "resting" /\ orders'[c].st = "filled"
                        /\ c[1] = s /\ c \in some => orders'[c].st \notin {"live", "resting"}
BY DEF Cancelled, TypeOK, Order

LEMMA LotEnvironment ==
  ASSUME TypeOK, LotInv,
         \/ \E c \in Ids : Fill(c) \/ StopFires(c) \/ OrderDies(c)
         \/ \E s \in Symbols : ManualClose(s)
  PROVE  LotInv'
<1>1. ASSUME NEW c \in Ids, StopFires(c) PROVE LotInv'
  <2>1. /\ c[1] \in Symbols /\ orders[c].qty = 1 /\ pos[c[1]] = 1 /\ c \in Reserving
        /\ \A d \in Reserving : d[1] = c[1] => d = c
    BY <1>1 DEF StopFires, Ids, LotInv, LotOrders, Reserving
  <2>2. /\ orders'[c].qty = orders[c].qty /\ orders'[c].st = "stopped"
        /\ \A d \in Ids \ {c} : orders'[d] = orders[d]
        /\ UNCHANGED <<day, pc, local>>
    BY <1>1 DEF StopFires, TypeOK
  <2>3. pos' = [pos EXCEPT ![c[1]] = 0]
    BY <1>1, <2>1 DEF StopFires
  <2>4. c \notin Reserving'
    BY <2>2 DEF Reserving
  <2>5. \A d \in Ids : d[1] = c[1] /\ d \in Reserving => d \notin Reserving'
    BY <2>1, <2>4
  <2> QED BY <2>1, <2>2, <2>3, <2>5, LotEnds
<1>2. ASSUME NEW c \in Ids, OrderDies(c) PROVE LotInv'
  <2>1. /\ orders'[c].qty = orders[c].qty /\ orders'[c].st = "dead"
        /\ \A d \in Ids \ {c} : orders'[d] = orders[d]
        /\ UNCHANGED <<day, pos, pc, local>> /\ c[1] \in Symbols
    BY <1>2 DEF OrderDies, TypeOK, Ids
  <2> QED BY <2>1, LotEnds
<1>3. ASSUME NEW s \in Symbols, ManualClose(s) PROVE LotInv'
  <2>1. orders' = Cancelled(s, Ids) /\ pos' = [pos EXCEPT ![s] = 0] /\ UNCHANGED <<day, pc, local>>
    BY <1>3 DEF ManualClose
  <2>2. \A c \in Ids : /\ orders'[c].qty = orders[c].qty
                       /\ orders'[c].st # orders[c].st => orders'[c].st \in {"filled", "stopped", "dead"}
                       /\ c[1] = s => orders'[c].st \notin {"live", "resting"}
    BY <2>1, CancelEnds
  <2>3. \A c \in Ids : c[1] = s => c \notin Reserving'
    BY <2>2 DEF Reserving
  <2> QED BY <2>1, <2>2, <2>3, LotEnds
<1> QED BY <1>1, <1>2, <1>3, LotFill

LEMMA LotNext ==
  ASSUME TypeOK, TypeOK', LotInv, [Next]_vars, Faults \cap {"short", "overnight"} = {}
  PROVE  LotInv'
<1> USE DEF Goto
<1>0. ASSUME NEW p \in Runs PROVE Acts(p) /\ Knows(p) /\ Views(p)
  BY DEF LotInv
<1>1. ASSUME NEW p \in Runs, Begin(p) PROVE LotInv'
  <2>1. /\ UNCHANGED <<day, orders, pos, left, act>>
        /\ pc' = [pc EXCEPT ![p] = IF p \in Scans THEN "snapshot" ELSE "stale"]
        /\ view' = [view EXCEPT ![p] = pos]
    BY <1>1 DEF Begin, broker
  <2>2. pc'[p] \notin Acting /\ view'[p] = pos /\ pos' = pos
    BY <2>1 DEF TypeOK, Acting
  <2>3. Views(p)'
    BY <2>2 DEF Views, LotInv, OneLot, TypeOK
  <2>4. Acts(p)' /\ Knows(p)'
    BY <2>2 DEF Acts, Knows
  <2> QED BY <2>1, <2>3, <2>4, LotKept DEF TypeOK
\* between the orders a run's view stays, and it takes symbols off its list
<1>2. ASSUME NEW p \in Runs, UNCHANGED <<day, orders, pos, view, act>>, pc[p] # "idle",
             \A q \in Runs \ {p} : pc'[q] = pc[q] /\ left'[q] = left[q],
             pc'[p] \notin Acting,
             pc[p] \in Acting \cup {"trade"} => pc'[p] = "trade" /\ left'[p] \subseteq left[p]
      PROVE  LotInv'
  <2>1. Views(p)' /\ Acts(p)'
    BY <1>0, <1>2 DEF Views, Acts
  <2>2. Knows(p)'
    BY <1>0, <1>2 DEF Knows, EntryUsed, Acting
  <2> QED BY <1>2, <2>1, <2>2, LotKept
<1>3. ASSUME NEW p \in Runs,
             Stale(p) \/ Reconcile(p) \/ Untracked(p) \/ Adopt(p) \/ Snapshot(p) \/ Hold(p) \/ Record(p)
      PROVE  LotInv'
  <2>1. CASE Stale(p) \/ Reconcile(p) \/ Untracked(p)
    <3>1. /\ UNCHANGED <<day, orders, pos, view, act>> /\ pc[p] \in {"stale", "reconcile"}
          /\ \A q \in Runs \ {p} : pc'[q] = pc[q] /\ left'[q] = left[q]
          /\ pc'[p] \in {"reconcile", "adopt"}
      BY <2>1 DEF Stale, Reconcile, Untracked, broker, TypeOK
    <3> QED BY <1>2, <3>1 DEF Acting
  <2>2. CASE Adopt(p) \/ Snapshot(p)
    <3>1. /\ UNCHANGED <<day, orders, pos, view, act>> /\ pc[p] \in {"adopt", "snapshot"}
          /\ \A q \in Runs \ {p} : pc'[q] = pc[q] /\ left'[q] = left[q]
          /\ pc'[p] \in {"adopt", "trade"}
      BY <2>2 DEF Adopt, Snapshot, broker, TypeOK
    <3> QED BY <1>2, <3>1 DEF Acting
  <2>3. CASE Hold(p) \/ Record(p)
    <3>1. /\ UNCHANGED <<day, orders, pos, view, act>> /\ pc[p] \in {"trade", "record"}
          /\ \A q \in Runs \ {p} : pc'[q] = pc[q] /\ left'[q] = left[q]
          /\ pc'[p] = "trade" /\ left'[p] \subseteq left[p]
      BY <2>3 DEF Hold, Record, broker, TypeOK
    <3> QED BY <1>2, <3>1 DEF Acting
  <2> QED BY <1>3, <2>1, <2>2, <2>3
\* a decision
<1>4. ASSUME NEW p \in Runs, NEW s \in left[p], pc[p] = "trade",
             UNCHANGED <<day, orders, pos, view>>, left' = [left EXCEPT ![p] = @ \ {s}],
             NEW a \in {"buy", "sell"}, a = "buy" <=> view[p][s] = 0,
             act' = [act EXCEPT ![p] = [symbol |-> s, action |-> a, qty |-> 1]],
             pc' = [pc EXCEPT ![p] = "submit"] \/ (a = "sell" /\ pc' = [pc EXCEPT ![p] = "cancel"])
      PROVE  LotInv'
  <2>1. /\ act'[p].symbol = s /\ act'[p].action = a /\ act'[p].qty = 1
        /\ left'[p] = left[p] \ {s} /\ pc'[p] \in {"submit", "cancel"} /\ (pc'[p] = "cancel" => a = "sell") /\ s \in Symbols
        /\ \A q \in Runs \ {p} : /\ pc'[q] = pc[q] /\ view'[q] = view[q]
                                 /\ left'[q] = left[q] /\ act'[q] = act[q]
    BY <1>4 DEF TypeOK
  <2>2. Views(p)' /\ Acts(p)'
    BY <1>0, <1>4, <2>1 DEF Views, Acts
  <2>3. Knows(p)'
    BY <1>0, <1>4, <2>1 DEF Knows, EntryUsed, Acting
  <2> QED BY <1>4, <2>1, <2>2, <2>3, LotKept
<1>5. ASSUME NEW p \in Runs, DecideExit(p) PROVE LotInv'
  <2>1. PICK s \in left[p] \cap Held(p) :
          /\ act' = [act EXCEPT ![p] =
                       [symbol |-> s, action |-> IF view[p][s] > 0 THEN "sell" ELSE "cover",
                        qty |-> IF view[p][s] > 0 THEN view[p][s] ELSE -view[p][s]]]
          /\ left' = [left EXCEPT ![p] = @ \ {s}]
          /\ pc' = [pc EXCEPT ![p] = "submit"] \/ pc' = [pc EXCEPT ![p] = "cancel"]
    BY <1>5 DEF DecideExit
  <2>2. view[p][s] = 1 /\ view[p][s] > 0
    BY <1>0 DEF Views, Held
  <2>3. act' = [act EXCEPT ![p] = [symbol |-> s, action |-> "sell", qty |-> 1]]
    BY <2>1, <2>2
  <2>4. pc[p] = "trade" /\ UNCHANGED <<day, orders, pos, view>>
    BY <1>5 DEF DecideExit, broker
  <2>5. "sell" \in {"buy", "sell"} /\ ("sell" = "buy" <=> view[p][s] = 0)
    BY <2>2
  <2>6. pc' = [pc EXCEPT ![p] = "submit"] \/ ("sell" = "sell" /\ pc' = [pc EXCEPT ![p] = "cancel"])
    BY <2>1
  <2> QED BY <1>4, <2>1, <2>3, <2>4, <2>5, <2>6
<1>6. ASSUME NEW p \in Runs, DecideEntry(p) PROVE LotInv'
  <2>1. PICK s \in left[p] \ Held(p) :
          /\ act' = [act EXCEPT ![p] = [symbol |-> s, action |-> "buy", qty |-> 1]]
          /\ left' = [left EXCEPT ![p] = @ \ {s}]
    BY <1>6 DEF DecideEntry
  <2>2. view[p][s] = 0
    BY <2>1 DEF Held, TypeOK
  <2>3. /\ pc[p] = "trade" /\ UNCHANGED <<day, orders, pos, view>>
        /\ pc' = [pc EXCEPT ![p] = "submit"]
    BY <1>6 DEF DecideEntry, broker
  <2> QED BY <1>4, <2>1, <2>2, <2>3
<1>7. ASSUME NEW p \in Runs, CancelLegs(p) PROVE LotInv'
  <2>1. /\ act[p].symbol \in Symbols /\ UNCHANGED <<day, pos, local>> /\ pc[p] = "cancel"
        /\ \E some : orders' = Cancelled(act[p].symbol, some)
        /\ (pc' = [pc EXCEPT ![p] = "submit"] \/ pc' = [pc EXCEPT ![p] = "trade"])
    BY <1>0, <1>7 DEF CancelLegs, Acts, Acting, local
  <2>2. PICK some : orders' = Cancelled(act[p].symbol, some)
    BY <2>1
  <2>3. \A c \in Ids : /\ orders'[c].qty = orders[c].qty
                       /\ orders'[c].st # orders[c].st => orders'[c].st \in {"filled", "stopped", "dead"}
    BY <2>1, <2>2, CancelEnds
  <2>4. \A q \in Runs : pc'[q] = pc[q] \/ (pc[q] = "cancel" /\ pc'[q] \in {"submit", "trade"})
    BY <2>1 DEF TypeOK
  <2> QED BY <2>1, <2>3, <2>4, LotEnds
<1>8. ASSUME NEW p \in Runs, Submit(p) PROVE LotInv'
  <2> DEFINE s == act[p].symbol
             a == act[p].action
  <2>1. /\ pc[p] = "submit" /\ s \in Symbols \ left[p] /\ a \in {"buy", "sell"} /\ act[p].qty = 1
        /\ a = "buy" <=> view[p][s] = 0
    BY <1>0, <1>8 DEF Submit, Acts, Acting
  <2>2. /\ UNCHANGED <<day, pos, left, act>> /\ pc'[p] \in {"record", "trade"}
        /\ \A q \in Runs \ {p} : pc'[q] = pc[q] /\ view'[q] = view[q]
    BY <1>8 DEF Submit, TypeOK
  <2>3. view'[p] = view[p] \/ (pc'[p] = "record" /\ view'[p] = [view[p] EXCEPT ![s] = IF a = "buy" THEN 1 ELSE 0])
    <3>1. \/ view' = view
          \/ /\ pc' = [pc EXCEPT ![p] = "record"]
             /\ view' = [view EXCEPT ![p][s] = IF a = "buy" THEN act[p].qty ELSE 0]
      BY <1>8 DEF Submit
    <3>2. CASE view' = view
      BY <3>2
    <3>3. CASE /\ pc' = [pc EXCEPT ![p] = "record"]
               /\ view' = [view EXCEPT ![p][s] = IF a = "buy" THEN act[p].qty ELSE 0]
      <4> DEFINE shown == [view[p] EXCEPT ![s] = IF a = "buy" THEN act[p].qty ELSE 0]
      <4>1. view' = [view EXCEPT ![p] = shown]
        BY <3>3
      <4>2. shown = [view[p] EXCEPT ![s] = IF a = "buy" THEN 1 ELSE 0]
        BY <2>1
      <4> HIDE DEF shown
      <4>3. view'[p] = shown /\ pc'[p] = "record"
        BY <3>3, <4>1 DEF TypeOK
      <4> QED BY <4>2, <4>3
    <3> QED BY <3>1, <3>2, <3>3
  <2>4. ASSUME UNCHANGED <<orders, view>>, pc'[p] = "trade" PROVE LotInv'
    <3>1. Views(p)' /\ Acts(p)'
      BY <1>0, <2>4 DEF Views, Acts, Acting
    <3>2. Knows(p)'
      BY <1>0, <2>1, <2>2, <2>4 DEF Knows, EntryUsed, Acting
    <3> QED BY <2>2, <2>4, <3>1, <3>2, LotKept
  <2>5. ASSUME NEW heard \in BOOLEAN, Accepts(Coid(s, a), 1),
               orders' = [orders EXCEPT ![Coid(s, a)] = Sent(1, heard)]
        PROVE  LotInv'
    <3>1. <<s, "buy", day>> \in Ids /\ Coid(s, a) \in Ids
      BY <2>1 DEF Coid, Ids, Actions, TypeOK
    <3>2. a = "buy" => pos[s] = 0
      BY <1>0, <2>1, <2>5 DEF Knows, EntryUsed, Accepts, Coid, TypeOK
    <3>3. OneLot' /\ LotOrders'
      BY <2>1, <2>2, <2>5, <3>2, LotSent
    <3>4. \A r \in Symbols : EntryUsed(r) => EntryUsed(r)'
      <4>1. \A c \in Ids : orders[c].st # "none" => orders'[c].st # "none"
        BY <2>5, <3>1 DEF Sent, TypeOK
      <4>2. \A r \in Symbols : <<r, "buy", day>> \in Ids
        BY DEF Ids, Actions, TypeOK
      <4> QED BY <2>2, <4>1, <4>2 DEF EntryUsed
    <3>5. a = "buy" => EntryUsed(s)'
      BY <2>2, <2>5, <3>1 DEF EntryUsed, Coid, Sent, TypeOK
    <3>6. ASSUME NEW q \in Runs \ {p} PROVE Acts(q)' /\ Knows(q)' /\ Views(q)'
      <4>1. Acts(q)' /\ Views(q)'
        BY <1>0, <2>2 DEF Acts, Views
      <4>2. Knows(q)'
        BY <1>0, <2>2, <3>4 DEF Knows
      <4> QED BY <4>1, <4>2
    <3>7. Acts(p)'
      BY <2>1, <2>2 DEF Acts, Acting
    <3>8. Views(p)'
      BY <1>0, <2>3 DEF Views
    <3>9. Knows(p)'
      <4> SUFFICES ASSUME NEW r \in Symbols, view'[p][r] = 0, pos[r] # 0
                   PROVE  EntryUsed(r)' \/ r \notin left[p]
        BY <2>2 DEF Knows, Acting
      <4>1. CASE r = s
        BY <2>1, <4>1
      <4>2. CASE r # s
        <5>1. view[p][r] = 0
          BY <2>3, <4>2 DEF TypeOK
        <5>2. EntryUsed(r) \/ r \notin left[p]
          BY <1>0, <2>1, <5>1 DEF Knows
        <5> QED BY <3>4, <5>2
      <4> QED BY <4>1, <4>2
    <3> QED BY <3>3, <3>6, <3>7, <3>8, <3>9 DEF LotInv
  <2> QED BY <1>8, <2>1, <2>4, <2>5 DEF Submit, TypeOK
<1>9. ASSUME NEW p \in Runs, Finish(p) \/ Crash(p) PROVE LotInv'
  <2>1. /\ pc'[p] = "idle" /\ view'[p] = Flat /\ UNCHANGED <<day, orders, pos>>
        /\ \A q \in Runs \ {p} : /\ pc'[q] = pc[q] /\ view'[q] = view[q]
                                 /\ left'[q] = left[q] /\ act'[q] = act[q]
    BY <1>9 DEF Finish, Crash, AtRest, broker, TypeOK
  <2>2. Acts(p)' /\ Knows(p)' /\ Views(p)'
    BY <2>1 DEF Acts, Knows, Views, Flat, Acting
  <2> QED BY <2>1, <2>2, LotKept
<1>10. CASE NewDay
  <2>1. /\ \A c \in Ids : orders[c].st # "live"
        /\ \A p \in Runs : pc[p] = "idle"
        /\ UNCHANGED <<orders, pos, pc, local>>
    BY <1>10 DEF NewDay, NothingLive, broker
  <2>2. OneLot' /\ LotOrders'
    BY <2>1 DEF LotInv, OneLot, LotOrders, Reserving
  <2>3. \A p \in Runs : Acts(p)' /\ Knows(p)' /\ Views(p)'
    BY <1>0, <2>1 DEF Acts, Knows, Views, local, Acting
  <2> QED BY <2>2, <2>3 DEF LotInv
<1>11. CASE UNCHANGED vars
  <2>1. OneLot' /\ LotOrders'
    BY <1>11 DEF LotInv, OneLot, LotOrders, Reserving, vars, broker
  <2>2. \A p \in Runs : Acts(p)' /\ Knows(p)' /\ Views(p)'
    BY <1>0, <1>11 DEF Acts, Knows, Views, EntryUsed, vars, local, broker
  <2> QED BY <2>1, <2>2 DEF LotInv
<1> QED
  BY <1>1, <1>3, <1>5, <1>6, <1>7, <1>8, <1>9, <1>10, <1>11, LotEnvironment DEF Next, Step

\* One lot a symbol, whatever overlaps, is killed, lost, refused or rerun on
\* the same day: no entry adds to a position and no exit sells what is not
\* held (main.py's client order ids), if orders are for the day and the broker
\* sells nothing short.
THEOREM OneLotHeld == Faults \cap {"short", "overnight"} = {} => (Spec => []OneLot)
<1> SUFFICES ASSUME Faults \cap {"short", "overnight"} = {} PROVE Spec => []OneLot
  OBVIOUS
<1>1. Init => LotInv
  <2> SUFFICES ASSUME Init PROVE LotInv
    OBVIOUS
  <2>1. /\ \A c \in Ids : orders[c].st = "none"
        /\ pos = Flat /\ \A p \in Runs : pc[p] = "idle" /\ view[p] = Flat
    BY DEF Init, NoOrder
  <2>2. OneLot /\ LotOrders
    BY <2>1 DEF OneLot, LotOrders, Reserving, Flat
  <2>3. \A p \in Runs : Acts(p) /\ Knows(p) /\ Views(p)
    BY <2>1 DEF Acts, Knows, Views, Flat, Acting
  <2> QED BY <2>2, <2>3 DEF LotInv
<1>2. TypeOK /\ TypeOK' /\ LotInv /\ [Next]_vars => LotInv'
  BY LotNext
<1>3. LotInv => OneLot
  BY DEF LotInv
<1> QED
  BY <1>1, <1>2, <1>3, CycleTyping, PTL DEF Spec

-----------------------------------------------------------------------------
(* Runs one after the other, and orders that are settled before the next     *)
(* run: what the ledger then owes to the book.                               *)

\* Fills, stops, deaths, closes and cancellations concern one symbol, start no
\* order, and put a symbol on the book only by the death of an exit.
Settles(s) ==
  /\ UNCHANGED <<day, trades, local, wrong>>
  /\ \A c \in Ids :
       /\ orders'[c].heard = orders[c].heard
       /\ orders'[c].st # orders[c].st =>
            c[1] = s /\ orders[c].st \in {"live", "resting"} /\ orders'[c].st \notin {"none", "live"}
  /\ \A r \in Symbols : pos'[r] # pos[r] =>
       r = s /\ (pos'[r] = 0 \/ LiveOf(r, "buy") # {})
  /\ \A r \in Book' \ Book : r = s /\ \E c \in Dead("sell")' \ Dead("sell") : c[1] = s

LEMMA BookSettles ==
  ASSUME TypeOK, LotInv, NEW s \in Symbols,
         \A c \in Ids : orders'[c].st # orders[c].st => c[1] = s /\ orders'[c].st # "live",
         \A r \in Symbols : pos'[r] = pos[r] \/ (r = s /\ pos'[r] = 0),
         \/ \E c \in Dead("sell")' \ Dead("sell") : c[1] = s
         \/ pos'[s] = 0 /\ LiveOf(s, "buy")' = {}
         \/ UNCHANGED pos /\ \A c \in Ids : c[2] = "sell" => orders'[c].st = orders[c].st
  PROVE  \A r \in Book' \ Book : r = s /\ \E c \in Dead("sell")' \ Dead("sell") : c[1] = s
<1> SUFFICES ASSUME NEW r \in Book', r \notin Book
             PROVE  r = s /\ \E c \in Dead("sell")' \ Dead("sell") : c[1] = s
  OBVIOUS
<1>0. r \in Symbols
  BY DEF Book
<1>1. LiveOf(r, "buy")' \subseteq LiveOf(r, "buy")
  BY DEF LiveOf
<1>2. r = s
  <2> SUFFICES ASSUME r # s PROVE FALSE
    OBVIOUS
  <2>1. pos'[r] = pos[r] /\ LiveOf(r, "sell") = LiveOf(r, "sell")'
    BY <1>0 DEF LiveOf
  <2> QED BY <1>1, <2>1 DEF Book
<1>3. ASSUME pos'[s] = 0, LiveOf(s, "buy")' = {} PROVE FALSE
  BY <1>2, <1>3 DEF Book
<1>4. ASSUME UNCHANGED pos, \A c \in Ids : c[2] = "sell" => orders'[c].st = orders[c].st PROVE FALSE
  <2>1. LiveOf(s, "sell")' = LiveOf(s, "sell")
    BY <1>4 DEF LiveOf
  <2> QED BY <1>1, <1>2, <1>4, <2>1 DEF Book
<1> QED BY <1>2, <1>3, <1>4

\* While a lot is held no entry of its symbol is live.
LEMMA HeldNotBought ==
  ASSUME LotInv, NEW s \in Symbols, pos[s] # 0
  PROVE  LiveOf(s, "buy") = {}
BY DEF LotInv, LotOrders, LiveOf

LEMMA EnvironmentSettles ==
  ASSUME TypeOK, LotInv,
         \/ \E c \in Ids : Fill(c) \/ StopFires(c) \/ OrderDies(c)
         \/ \E s \in Symbols : ManualClose(s)
  PROVE  \E s \in Symbols : Settles(s) /\ UNCHANGED pc
<1>0. \A c \in Ids : c[1] \in Symbols /\ c[2] \in Actions
  BY DEF Ids
<1>1. ASSUME NEW c \in Ids, Fill(c) PROVE Settles(c[1]) /\ UNCHANGED pc
  <2> DEFINE s == c[1]
  <2>1. /\ orders[c].st = "live" /\ orders'[c].st \in {"resting", "filled"}
        /\ orders'[c].heard = orders[c].heard /\ orders'[c].qty = orders[c].qty
        /\ \A d \in Ids \ {c} : orders'[d] = orders[d]
        /\ \A r \in Symbols \ {s} : pos'[r] = pos[r]
        /\ UNCHANGED <<day, trades, pc, local, wrong>>
    BY <1>1 DEF Fill, TypeOK, Order
  <2>2. orders[c].qty = 1 /\ c[2] \in {"buy", "sell"}
    BY <1>0, <2>1 DEF LotInv, LotOrders, Actions
  <2>3. CASE c[2] = "buy"
    <3>1. LiveOf(s, "buy") # {}
      BY <2>1, <2>3 DEF LiveOf
    <3>2. s \in Book
      BY <1>0, <3>1 DEF Book
    <3>3. ASSUME NEW r \in Book', r \notin Book PROVE FALSE
      <4>1. r # s /\ r \in Symbols
        BY <3>2, <3>3 DEF Book
      <4>2. pos'[r] = pos[r] /\ LiveOf(r, "buy")' = LiveOf(r, "buy") /\ LiveOf(r, "sell")' = LiveOf(r, "sell")
        BY <2>1, <4>1 DEF LiveOf
      <4> QED BY <3>3, <4>2 DEF Book
    <3> QED BY <2>1, <3>1, <3>3 DEF Settles
  <2>4. CASE c[2] = "sell"
    <3>1. pos[s] = 1
      BY <1>0, <2>1, <2>4 DEF LotInv, LotOrders, Reserving
    <3>2. pos'[s] = 0
      BY <1>0, <1>1, <2>2, <2>4, <3>1 DEF Fill, TypeOK
    <3>3. LiveOf(s, "buy")' = {}
      BY <1>0, <2>1, <3>1, HeldNotBought DEF LiveOf
    <3>4. \A r \in Book' \ Book : r = s /\ \E d \in Dead("sell")' \ Dead("sell") : d[1] = s
      BY <1>0, <2>1, <3>2, <3>3, BookSettles
    <3> QED BY <2>1, <3>2, <3>4 DEF Settles
  <2> QED BY <2>2, <2>3, <2>4
<1>2. ASSUME NEW c \in Ids, StopFires(c) PROVE Settles(c[1]) /\ UNCHANGED pc
  <2> DEFINE s == c[1]
  <2>1. /\ orders[c].st = "resting" /\ orders'[c].st = "stopped"
        /\ orders'[c].heard = orders[c].heard
        /\ \A d \in Ids \ {c} : orders'[d] = orders[d]
        /\ \A r \in Symbols \ {s} : pos'[r] = pos[r]
        /\ UNCHANGED <<day, trades, pc, local, wrong>>
    BY <1>2 DEF StopFires, TypeOK, Order
  <2>2. pos[s] = 1 /\ orders[c].qty = 1
    BY <1>0, <2>1 DEF LotInv, LotOrders, Reserving
  <2>3. pos'[s] = 0
    BY <1>0, <1>2, <2>2 DEF StopFires, TypeOK
  <2>4. LiveOf(s, "buy")' = {}
    BY <1>0, <2>1, <2>2, HeldNotBought DEF LiveOf
  <2>5. \A r \in Book' \ Book : r = s /\ \E d \in Dead("sell")' \ Dead("sell") : d[1] = s
    BY <1>0, <2>1, <2>3, <2>4, BookSettles
  <2> QED BY <2>1, <2>3, <2>5 DEF Settles
<1>3. ASSUME NEW c \in Ids, OrderDies(c) PROVE Settles(c[1]) /\ UNCHANGED pc
  <2>1. /\ orders[c].st = "live" /\ orders'[c].st = "dead"
        /\ orders'[c].heard = orders[c].heard
        /\ \A d \in Ids \ {c} : orders'[d] = orders[d]
        /\ UNCHANGED <<day, pos, trades, pc, local, wrong>>
    BY <1>3 DEF OrderDies, TypeOK, Order
  <2>2. c[2] = "sell" => c \in Dead("sell")' \ Dead("sell")
    BY <2>1 DEF Dead
  <2>3. c[2] # "sell" => \A d \in Ids : d[2] = "sell" => orders'[d].st = orders[d].st
    BY <2>1
  <2>4. \A r \in Book' \ Book : r = c[1] /\ \E d \in Dead("sell")' \ Dead("sell") : d[1] = c[1]
    BY <1>0, <2>1, <2>2, <2>3, BookSettles
  <2> QED BY <2>1, <2>4 DEF Settles
<1>4. ASSUME NEW s \in Symbols, ManualClose(s) PROVE Settles(s) /\ UNCHANGED pc
  <2>1. /\ UNCHANGED <<day, trades, pc, local, wrong>> /\ orders' = Cancelled(s, Ids)
        /\ pos' = [pos EXCEPT ![s] = 0]
    BY <1>4 DEF ManualClose
  <2>2. /\ pos'[s] = 0 /\ \A r \in Symbols \ {s} : pos'[r] = pos[r]
    BY <2>1 DEF TypeOK
  <2>3. \A c \in Ids : /\ orders'[c].heard = orders[c].heard
                       /\ orders'[c].st # orders[c].st =>
                            c[1] = s /\ orders[c].st \in {"live", "resting"} /\ orders'[c].st \in {"dead", "filled"}
                       /\ c[1] = s => orders'[c].st # "live"
    BY <2>1, CancelEnds
  <2>4. LiveOf(s, "buy")' = {}
    BY <2>3 DEF LiveOf
  <2>5. \A r \in Book' \ Book : r = s /\ \E d \in Dead("sell")' \ Dead("sell") : d[1] = s
    BY <2>2, <2>3, <2>4, BookSettles
  <2> QED BY <2>1, <2>2, <2>3, <2>5 DEF Settles
<1> QED BY <1>0, <1>1, <1>2, <1>3, <1>4

LEMMA CancelSettles ==
  ASSUME TypeOK, LotInv, NEW p \in Runs, CancelLegs(p)
  PROVE  Settles(act[p].symbol) /\ act[p].symbol \in Symbols
<1> DEFINE s == act[p].symbol
<1>1. s \in Symbols /\ UNCHANGED <<day, pos, trades, local, wrong>>
  BY DEF CancelLegs, LotInv, Acts, Acting
<1>2. PICK some : orders' = Cancelled(s, some)
  BY DEF CancelLegs
<1>3. \A c \in Ids : /\ orders'[c].heard = orders[c].heard
                     /\ orders'[c].st # orders[c].st =>
                          /\ c[1] = s /\ orders[c].st \in {"live", "resting"}
                          /\ orders'[c].st \in {"dead", "filled"}
                          /\ orders[c].st = "live" => orders'[c].st = "dead"
  BY <1>1, <1>2, CancelEnds
<1>4. CASE \E c \in Ids : c[2] = "sell" /\ orders[c].st = "live" /\ orders'[c].st # "live"
  <2>1. PICK c \in Ids : c[2] = "sell" /\ orders[c].st = "live" /\ orders'[c].st # "live"
    BY <1>4
  <2>2. c \in Dead("sell")' \ Dead("sell") /\ c[1] = s
    BY <1>3, <2>1 DEF Dead
  <2>3. \A r \in Book' \ Book : r = s /\ \E d \in Dead("sell")' \ Dead("sell") : d[1] = s
    BY <1>1, <1>3, <2>2, BookSettles
  <2> QED BY <1>1, <1>3, <2>3 DEF Settles
<1>5. CASE \A c \in Ids : c[2] = "sell" /\ orders[c].st = "live" => orders'[c].st = "live"
  <2>1. \A r \in Symbols : LiveOf(r, "sell")' = LiveOf(r, "sell") /\ LiveOf(r, "buy")' \subseteq LiveOf(r, "buy")
    BY <1>3, <1>5 DEF LiveOf
  <2>2. Book' \subseteq Book
    BY <1>1, <2>1 DEF Book
  <2> QED BY <1>1, <1>3, <2>2 DEF Settles
<1> QED BY <1>4, <1>5

\* What an outcome, and a new entry, change of the ledger.
LEMMA TradeClosed ==
  ASSUME TypeOK, NEW t \in open_buys, trades' = WithOutcome(t)
  PROVE  /\ DOMAIN trades' = DOMAIN trades
         /\ \A u \in DOMAIN trades : trades'[u].symbol = trades[u].symbol
         /\ open_buys' = open_buys \ {t}
<1>1. t \in DOMAIN trades /\ trades[t].outcomes = 0 /\ trades \in Seq(Trade)
  BY DEF open_buys, TypeOK
<1>2. /\ DOMAIN trades' = DOMAIN trades /\ trades'[t].outcomes = 1
      /\ \A u \in DOMAIN trades \ {t} : trades'[u] = trades[u]
  BY <1>1, OutcomeCounted
<1>3. trades'[t].symbol = trades[t].symbol
  <2>1. trades[t] \in Trade
    BY <1>1
  <2> QED BY <1>1, <2>1 DEF WithOutcome, Trade
<1> QED BY <1>1, <1>2, <1>3 DEF open_buys

LEMMA TradeBooked ==
  ASSUME TypeOK, NEW r \in Trade, r.outcomes = 0, trades' = Append(trades, r)
  PROVE  /\ DOMAIN trades' = DOMAIN trades \cup {Len(trades) + 1}
         /\ Len(trades) + 1 \notin DOMAIN trades
         /\ trades'[Len(trades) + 1] = r
         /\ \A u \in DOMAIN trades : trades'[u] = trades[u]
         /\ open_buys' = open_buys \cup {Len(trades) + 1}
<1>1. trades \in Seq(Trade)
  BY DEF TypeOK
<1>2. /\ DOMAIN trades' = DOMAIN trades \cup {Len(trades) + 1}
      /\ Len(trades) + 1 \notin DOMAIN trades
      /\ trades'[Len(trades) + 1] = r
      /\ \A u \in DOMAIN trades : trades'[u] = trades[u]
  BY <1>1
<1> QED BY <1>2 DEF open_buys

\* Reconciliation works on a book at rest: since the positions were read only
\* stops and closes by hand have happened, so what it does not see is not held.
Calm(p) ==
  pc[p] \in {"stale", "reconcile"} =>
    NothingLive /\ \A s \in Symbols : view[p][s] = 0 => pos[s] = 0

CalmInv ==
  /\ \A p \in Runs : Calm(p) /\ \A t \in todo[p] : view[p][trades[t].symbol] = 0
  /\ NeverClosesHeld

Sequential == Faults \cap Switches = {}

LEMMA OthersIdle ==
  ASSUME OnceInv, NEW p \in Runs, pc[p] # "idle" \/ \A q \in Runs : pc[q] = "idle"
  PROVE  \A q \in Runs \ {p} : pc[q] = "idle" /\ todo[q] = {} /\ opened[q] = {}
BY AloneRun DEF OnceInv, Remembers

\* What Settles leaves of a calm run.
LEMMA CalmSettles ==
  ASSUME TypeOK, CalmInv, NEW s \in Symbols, Settles(s),
         \A p \in Runs : pc'[p] = pc[p] \/ pc'[p] \notin {"stale", "reconcile"}
  PROVE  CalmInv'
<1>1. NothingLive => NothingLive' /\ \A r \in Symbols : pos[r] = 0 => pos'[r] = 0
  BY DEF NothingLive, Settles, LiveOf
<1>2. \A p \in Runs : Calm(p)'
  BY <1>1 DEF CalmInv, Calm, Settles, local
<1> QED BY <1>2 DEF CalmInv, NeverClosesHeld, Settles, local

LEMMA CalmNext ==
  ASSUME TypeOK, OnceInv, LotInv, CalmInv, [Next]_vars, Sequential
  PROVE  CalmInv'
<1> USE DEF Goto
<1>0. "overlap" \notin Faults /\ "late" \notin Faults
  BY DEF Sequential, Switches
<1>a. \A p \in Runs : todo[p] # {} => pc[p] = "reconcile"
  BY DEF OnceInv, Remembers
\* a step of one run is a step of the only run under way
<1>1. ASSUME NEW p \in Runs, pc[p] # "idle" \/ \A q \in Runs : pc[q] = "idle",
             \A q \in Runs \ {p} : pc'[q] = pc[q] /\ todo'[q] = todo[q],
             Calm(p)', \A t \in todo'[p] : view'[p][trades'[t].symbol] = 0, wrong' = wrong
      PROVE  CalmInv'
  <2>1. \A q \in Runs \ {p} : pc'[q] = "idle" /\ todo'[q] = {}
    BY <1>1, OthersIdle
  <2>2. \A q \in Runs \ {p} : Calm(q)' /\ \A t \in todo'[q] : view'[q][trades'[t].symbol] = 0
    BY <2>1 DEF Calm
  <2> QED BY <1>1, <2>2 DEF CalmInv, NeverClosesHeld
<1>2. ASSUME NEW p \in Runs, Begin(p) PROVE CalmInv'
  <2>1. /\ NothingLive /\ UNCHANGED <<orders, pos, todo, wrong>> /\ \A q \in Runs : pc[q] = "idle"
        /\ view'[p] = pos /\ \A q \in Runs \ {p} : pc'[q] = pc[q]
    BY <1>0, <1>2 DEF Begin, broker, TypeOK
  <2>2. Calm(p)'
    BY <2>1 DEF Calm, NothingLive
  <2>3. todo'[p] = {}
    BY <1>a, <2>1
  <2> QED BY <1>1, <2>1, <2>2, <2>3
<1>3. ASSUME NEW p \in Runs, Stale(p) PROVE CalmInv'
  <2>1. /\ UNCHANGED <<orders, pos, view, trades, wrong>> /\ pc[p] = "stale"
        /\ todo'[p] = {t \in open_buys : trades[t].symbol \notin Held(p)}
        /\ \A q \in Runs \ {p} : pc'[q] = pc[q] /\ todo'[q] = todo[q]
    BY <1>3 DEF Stale, broker, TypeOK
  <2>2. Calm(p)'
    BY <2>1 DEF CalmInv, Calm, NothingLive
  <2>3. \A t \in todo'[p] : view'[p][trades'[t].symbol] = 0
    <3>1. \A t \in open_buys : trades[t].symbol \in Symbols
      <4> SUFFICES ASSUME NEW t \in open_buys PROVE trades[t].symbol \in Symbols
        OBVIOUS
      <4>1. trades[t] \in Trade
        BY DEF TypeOK, open_buys
      <4> QED BY <4>1 DEF Trade
    <3> QED BY <2>1, <3>1 DEF Held
  <2> QED BY <1>1, <2>1, <2>2, <2>3
<1>4. ASSUME NEW p \in Runs, Reconcile(p) PROVE CalmInv'
  <2>1. PICK t \in todo[p] :
          /\ todo' = [todo EXCEPT ![p] = @ \ {t}]
          /\ \/ trades' = trades /\ wrong' = wrong
             \/ trades' = WithOutcome(t) /\ wrong' = wrong
             \/ /\ trades' = WithOutcome(t)
                /\ wrong' = (wrong \/ pos[trades[t].symbol] > 0 \/ EntryStatus(t) = "live")
    BY <1>4 DEF Reconcile
  <2>2. pc[p] = "reconcile" /\ UNCHANGED <<orders, pos, pc, view>>
    BY <1>4 DEF Reconcile, broker
  <2>3. t \in open_buys /\ t \in DOMAIN trades /\ trades[t] \in Trade
    BY <2>1 DEF OnceInv, Remembers, open_buys, TypeOK
  <2>4. NothingLive /\ pos[trades[t].symbol] = 0
    BY <2>1, <2>2, <2>3 DEF CalmInv, Calm, Trade
  <2>5. EntryStatus(t) # "live"
    BY <2>3, <2>4 DEF EntryStatus, NothingLive, Trade
  <2>6. wrong' = wrong
    <3>1. ~wrong /\ ~(pos[trades[t].symbol] > 0)
      BY <2>4 DEF CalmInv, NeverClosesHeld
    <3> QED BY <2>1, <2>5, <3>1, Zenon DEF TypeOK
  <2>7. DOMAIN trades' = DOMAIN trades /\ \A u \in DOMAIN trades : trades'[u].symbol = trades[u].symbol
    BY <2>1, <2>3, TradeClosed
  <2>8. todo'[p] \subseteq todo[p] /\ todo[p] \subseteq DOMAIN trades /\ \A q \in Runs \ {p} : todo'[q] = todo[q]
    BY <2>1 DEF TypeOK
  <2>9. \A u \in todo'[p] : view'[p][trades'[u].symbol] = 0
    BY <2>2, <2>7, <2>8 DEF CalmInv
  <2>10. Calm(p)'
    BY <2>2 DEF CalmInv, Calm, NothingLive
  <2> QED BY <1>1, <2>2, <2>6, <2>8, <2>9, <2>10
\* the rest of a run
<1>5. ASSUME NEW p \in Runs, pc[p] # "idle", todo'[p] = {}, pc'[p] \notin {"stale", "reconcile"}, wrong' = wrong,
             \A q \in Runs \ {p} : pc'[q] = pc[q] /\ todo'[q] = todo[q]
      PROVE  CalmInv'
  <2>1. Calm(p)'
    BY <1>5 DEF Calm
  <2> QED BY <1>1, <1>5, <2>1
<1>6. ASSUME NEW p \in Runs,
             \/ Untracked(p) \/ Adopt(p) \/ Snapshot(p) \/ Hold(p) \/ DecideExit(p)
             \/ DecideEntry(p) \/ Submit(p) \/ Record(p) \/ Finish(p) \/ Crash(p)
      PROVE  CalmInv'
  <2>1. CASE Untracked(p) \/ Adopt(p)
    <3>1. /\ pc[p] # "idle" /\ pc'[p] \notin {"stale", "reconcile"} /\ wrong' = wrong /\ todo'[p] = {}
          /\ \A q \in Runs \ {p} : pc'[q] = pc[q] /\ todo'[q] = todo[q]
      BY <1>a, <2>1 DEF Untracked, Adopt, TypeOK
    <3> QED BY <1>5, <3>1
  <2>2. CASE Snapshot(p) \/ Hold(p) \/ DecideExit(p) \/ DecideEntry(p)
    <3>1. /\ pc[p] # "idle" /\ pc'[p] \notin {"stale", "reconcile"} /\ wrong' = wrong /\ todo'[p] = {}
          /\ \A q \in Runs \ {p} : pc'[q] = pc[q] /\ todo'[q] = todo[q]
      BY <1>a, <2>2 DEF Snapshot, Hold, DecideExit, DecideEntry, TypeOK
    <3> QED BY <1>5, <3>1
  <2>3. CASE Submit(p) \/ Record(p)
    <3>1. /\ pc[p] # "idle" /\ pc'[p] \notin {"stale", "reconcile"} /\ wrong' = wrong /\ todo'[p] = {}
          /\ \A q \in Runs \ {p} : pc'[q] = pc[q] /\ todo'[q] = todo[q]
      BY <1>a, <2>3 DEF Submit, Record, TypeOK
    <3> QED BY <1>5, <3>1
  <2>4. CASE Finish(p) \/ Crash(p)
    <3>1. /\ pc[p] # "idle" /\ pc'[p] \notin {"stale", "reconcile"} /\ wrong' = wrong /\ todo'[p] = {}
          /\ \A q \in Runs \ {p} : pc'[q] = pc[q] /\ todo'[q] = todo[q]
      BY <2>4 DEF Finish, Crash, AtRest, TypeOK
    <3> QED BY <1>5, <3>1
  <2> QED BY <1>6, <2>1, <2>2, <2>3, <2>4
<1>7. ASSUME NEW p \in Runs, CancelLegs(p) PROVE CalmInv'
  <2>1. \A q \in Runs : pc'[q] = pc[q] \/ pc'[q] \notin {"stale", "reconcile"}
    BY <1>7 DEF CancelLegs, TypeOK
  <2> QED BY <1>7, <2>1, CancelSettles, CalmSettles
<1>8. ASSUME \/ \E c \in Ids : Fill(c) \/ StopFires(c) \/ OrderDies(c)
             \/ \E s \in Symbols : ManualClose(s)
      PROVE  CalmInv'
  BY <1>8, EnvironmentSettles, CalmSettles
<1>9. CASE NewDay \/ UNCHANGED vars
  <2>1. UNCHANGED <<orders, pos, trades, pc, view, todo, wrong>>
    BY <1>9 DEF NewDay, vars, broker, local
  <2> QED BY <2>1 DEF CalmInv, Calm, NothingLive, NeverClosesHeld
<1> QED
  BY <1>2, <1>3, <1>4, <1>6, <1>7, <1>8, <1>9 DEF Next, Step

-----------------------------------------------------------------------------
(* A holding is booked once.  A symbol has slack while more entries of it    *)
(* were sent, and exits of it died, than trades were booked; whatever is on  *)
(* the book has an open trade or slack, and a run that is about to book a    *)
(* trade has slack for it.                                                   *)

Open(s)   == OpenOf(s, open_buys)
Booked(s) == OpenOf(s, DOMAIN trades)
Exits(s)  == {c \in Dead("sell") : c[1] = s}
Within(s) == Cardinality(Booked(s)) <= Cardinality(Bought(s)) + Cardinality(Exits(s))
Slack(s)  == Cardinality(Booked(s)) < Cardinality(Bought(s)) + Cardinality(Exits(s))
Told(s)   == Open(s) # {} \/ Slack(s)

Owed(p) ==
  /\ pc[p] \in {"stale", "reconcile"} => \A s \in Held(p) : Told(s)
  /\ pc[p] = "adopt" => \A s \in left[p] : Slack(s)
  /\ pc[p] = "record" /\ (act[p].action = "buy" \/ act[p].symbol \in Book) => Slack(act[p].symbol)

EntryInv ==
  /\ \A s \in Symbols : Within(s)
  /\ \A s \in Book : Told(s)
  /\ \A p \in Runs : Owed(p)

LEMMA IdsFinite == IsFiniteSet(Ids)
<1>1. IsFiniteSet({"buy"}) /\ IsFiniteSet({"sell"}) /\ IsFiniteSet({"cover"})
  BY FS_Singleton
<1>2. IsFiniteSet({"buy"} \cup {"sell"})
  BY <1>1, FS_Union
<1>3. IsFiniteSet(({"buy"} \cup {"sell"}) \cup {"cover"})
  BY <1>1, <1>2, FS_Union
<1>4. Actions = ({"buy"} \cup {"sell"}) \cup {"cover"}
  BY DEF Actions
<1>5. IsFiniteSet(Actions) /\ IsFiniteSet(1 .. Days)
  BY <1>3, <1>4, FS_Interval, BoundsAssumption
<1>6. IsFiniteSet(Actions \X (1 .. Days)) /\ IsFiniteSet(Symbols \X Actions)
  BY <1>5, FS_Product, SymbolsAssumption
<1>7. IsFiniteSet((Symbols \X Actions) \X (1 .. Days))
  BY <1>5, <1>6, FS_Product
<1> DEFINE pairs == (Symbols \X Actions) \X (1 .. Days)
           flat == [x \in pairs |-> <<x[1][1], x[1][2], x[2]>>]
<1>8. flat \in Surjection(pairs, Ids)
  <2>1. flat \in [pairs -> Ids]
    BY DEF Ids
  <2>2. ASSUME NEW c \in Ids PROVE \E x \in pairs : flat[x] = c
    <3>1. PICK s \in Symbols, a \in Actions, d \in 1 .. Days : c = <<s, a, d>>
      BY DEF Ids
    <3>2. <<<<s, a>>, d>> \in pairs /\ flat[<<<<s, a>>, d>>] = c
      BY <3>1
    <3> QED BY <3>2
  <2> QED BY <2>1, <2>2 DEF Surjection
<1> QED BY <1>7, <1>8, FS_Surjection

LEMMA Counts ==
  ASSUME TypeOK, NEW s
  PROVE  /\ IsFiniteSet(Booked(s)) /\ IsFiniteSet(Bought(s)) /\ IsFiniteSet(Exits(s))
         /\ Cardinality(Booked(s)) \in Nat /\ Cardinality(Bought(s)) \in Nat
         /\ Cardinality(Exits(s)) \in Nat
<1>1. Booked(s) \subseteq 1 .. Len(trades) /\ IsFiniteSet(1 .. Len(trades))
  <2>1. trades \in Seq(Trade)
    BY DEF TypeOK
  <2>2. DOMAIN trades = 1 .. Len(trades) /\ Len(trades) \in Nat
    BY <2>1
  <2> QED BY <2>2, FS_Interval DEF Booked, OpenOf
<1>2. Bought(s) \subseteq Ids /\ Exits(s) \subseteq Ids
  BY DEF Bought, Exits, Dead
<1>3. IsFiniteSet(Booked(s)) /\ IsFiniteSet(Bought(s)) /\ IsFiniteSet(Exits(s))
  BY <1>1, <1>2, IdsFinite, FS_Subset
<1> QED BY <1>3, FS_CardinalityType

\* Slack is not lost while nothing is booked, and an entry sent or an exit
\* that died makes some.
LEMMA SlackGrows ==
  ASSUME TypeOK, NEW s \in Symbols, Within(s), Booked(s)' = Booked(s),
         Bought(s) \subseteq Bought(s)', Exits(s) \subseteq Exits(s)'
  PROVE  /\ Within(s)' /\ (Slack(s) => Slack(s)')
         /\ Bought(s)' # Bought(s) \/ Exits(s)' # Exits(s) => Slack(s)'
<1>1. /\ Cardinality(Booked(s)) \in Nat /\ Cardinality(Bought(s)) \in Nat
      /\ Cardinality(Exits(s)) \in Nat
  BY Counts
<1>2. /\ IsFiniteSet(Bought(s)') /\ IsFiniteSet(Exits(s)')
      /\ Cardinality(Bought(s)') \in Nat /\ Cardinality(Exits(s)') \in Nat
  <2>1. Bought(s)' \subseteq Ids /\ Exits(s)' \subseteq Ids
    BY DEF Bought, Exits, Dead
  <2> QED BY <2>1, IdsFinite, FS_Subset, FS_CardinalityType
<1>3. /\ Cardinality(Bought(s)) <= Cardinality(Bought(s)')
      /\ Cardinality(Bought(s)') = Cardinality(Bought(s)) => Bought(s)' = Bought(s)
  BY <1>2, FS_Subset
<1>4. /\ Cardinality(Exits(s)) <= Cardinality(Exits(s)')
      /\ Cardinality(Exits(s)') = Cardinality(Exits(s)) => Exits(s)' = Exits(s)
  BY <1>2, FS_Subset
<1>5. PICK k \in Nat, b \in Nat, e \in Nat, b2 \in Nat, e2 \in Nat :
        /\ k = Cardinality(Booked(s)) /\ b = Cardinality(Bought(s)) /\ e = Cardinality(Exits(s))
        /\ b2 = Cardinality(Bought(s)') /\ e2 = Cardinality(Exits(s)')
  BY <1>1, <1>2
<1>6. k <= b + e /\ b <= b2 /\ e <= e2
  BY <1>3, <1>4, <1>5 DEF Within
<1>7. Within(s)' <=> k <= b2 + e2
  BY <1>5 DEF Within
<1>8. (Slack(s) <=> k < b + e) /\ (Slack(s)' <=> k < b2 + e2)
  BY <1>5 DEF Slack
<1>9. Bought(s)' # Bought(s) \/ Exits(s)' # Exits(s) => b # b2 \/ e # e2
  BY <1>3, <1>4, <1>5
<1> QED BY <1>6, <1>7, <1>8, <1>9

\* A step of the only run that leaves orders, positions and ledger alone.
LEMMA EntryKept ==
  ASSUME TypeOK, OnceInv, EntryInv, NEW p \in Runs, pc[p] # "idle" \/ \A q \in Runs : pc[q] = "idle",
         UNCHANGED <<orders, pos, trades>>, \A q \in Runs \ {p} : pc'[q] = pc[q], Owed(p)'
  PROVE  EntryInv'
<1>1. \A s \in Symbols : Within(s)'
  BY DEF EntryInv, Within, Booked, OpenOf, Bought, Exits, Dead
<1>2. \A s \in Book' : Told(s)'
  BY DEF EntryInv, Told, Open, open_buys, OpenOf, Slack, Booked, Bought, Exits, Dead, Book, LiveOf
<1>3. \A q \in Runs \ {p} : pc'[q] = "idle"
  BY OthersIdle
<1> QED BY <1>1, <1>2, <1>3 DEF EntryInv, Owed

\* A step that settles orders.
LEMMA EntrySettles ==
  ASSUME TypeOK, LotInv, EntryInv, NEW s \in Symbols, Settles(s),
         \A p \in Runs : pc'[p] = pc[p] \/ pc'[p] \in {"submit", "trade"}
  PROVE  EntryInv'
<1>1. UNCHANGED <<trades, view, left, act>>
  BY DEF Settles, local
<1>2. \A r \in Symbols : Booked(r)' = Booked(r) /\ Open(r)' = Open(r) /\ Bought(r)' = Bought(r)
  BY <1>1 DEF Booked, Open, open_buys, OpenOf, Bought, Settles
<1>3. \A r \in Symbols : Exits(r) \subseteq Exits(r)'
  BY DEF Exits, Dead, Settles
<1>4. \A r \in Symbols : /\ Within(r)' /\ (Slack(r) => Slack(r)')
                         /\ Exits(r)' # Exits(r) => Slack(r)'
  BY <1>2, <1>3, SlackGrows DEF EntryInv
<1>5. \A r \in Symbols : Told(r) => Told(r)'
  BY <1>2, <1>4 DEF Told
<1>6. ASSUME NEW r \in Book', r \notin Book PROVE Slack(r)'
  <2>1. r = s /\ \E c \in Dead("sell")' \ Dead("sell") : c[1] = s
    BY <1>6 DEF Settles
  <2>2. Exits(s)' # Exits(s)
    BY <2>1 DEF Exits
  <2> QED BY <1>4, <2>1, <2>2
<1>7. \A r \in Book' : Told(r)'
  <2>1. Book \subseteq Symbols
    BY DEF Book
  <2> QED BY <1>5, <1>6, <2>1 DEF EntryInv, Told
<1>8. ASSUME NEW p \in Runs PROVE Owed(p)'
  <2>1. Owed(p)
    BY DEF EntryInv
  <2>2. pc'[p] \in {"stale", "reconcile"} => \A r \in Held(p)' : Told(r)'
    BY <1>1, <1>5, <2>1 DEF Owed, Held
  <2>3. pc'[p] = "adopt" => \A r \in left'[p] : Slack(r)'
    BY <1>1, <1>4, <2>1 DEF Owed, TypeOK
  <2>4. ASSUME pc'[p] = "record", act'[p].action = "buy" \/ act'[p].symbol \in Book'
        PROVE  Slack(act[p].symbol)'
    <3>1. pc[p] = "record" /\ act' = act
      BY <1>1, <2>4
    <3>2. act[p].symbol \in Symbols
      BY <3>1 DEF LotInv, Acts, Acting
    <3> DEFINE r == act[p].symbol
    <3>3. Slack(r)'
      BY <1>4, <1>6, <2>1, <2>4, <3>1, <3>2 DEF Owed
    <3> QED BY <3>3
  <2> QED BY <2>2, <2>3, <2>4 DEF Owed
<1> QED BY <1>4, <1>7, <1>8 DEF EntryInv

\* A trade booked where there is slack.
LEMMA EntryBooks ==
  ASSUME TypeOK, OnceInv, EntryInv, NEW p \in Runs, pc[p] # "idle",
         NEW s \in Symbols, Slack(s), NEW r \in Trade, r.outcomes = 0, r.symbol = s,
         trades' = Append(trades, r), UNCHANGED <<orders, pos>>,
         \A q \in Runs \ {p} : pc'[q] = pc[q]
  PROVE  /\ \A x \in Symbols \ {s} : Slack(x)' <=> Slack(x)
         /\ Owed(p)' => EntryInv'
<1> DEFINE new == Len(trades) + 1
<1>1. /\ DOMAIN trades' = DOMAIN trades \cup {new} /\ new \notin DOMAIN trades
      /\ trades'[new] = r /\ \A u \in DOMAIN trades : trades'[u] = trades[u]
      /\ open_buys' = open_buys \cup {new} /\ open_buys \subseteq DOMAIN trades
  BY TradeBooked DEF open_buys
<1> HIDE DEF new
<1>2. \A x \in Symbols \ {s} : Booked(x)' = Booked(x) /\ Open(x)' = Open(x)
  BY <1>1 DEF Booked, Open, OpenOf
<1>3. Booked(s)' = Booked(s) \cup {new} /\ new \notin Booked(s) /\ new \in Open(s)'
  BY <1>1 DEF Booked, Open, OpenOf
<1>4. \A x \in Symbols : Bought(x)' = Bought(x) /\ Exits(x)' = Exits(x)
  BY DEF Bought, Exits, Dead
<1>5. \A x \in Symbols \ {s} : (Slack(x)' <=> Slack(x)) /\ (Within(x)' <=> Within(x))
  BY <1>2, <1>4 DEF Slack, Within
<1>6. Within(s)'
  <2>1. Cardinality(Booked(s)') = Cardinality(Booked(s)) + 1
    <3>1. IsFiniteSet(Booked(s))
      BY Counts
    <3> QED BY <1>3, <3>1, FS_AddElement
  <2>2. PICK k \in Nat, b \in Nat, e \in Nat :
          k = Cardinality(Booked(s)) /\ b = Cardinality(Bought(s)) /\ e = Cardinality(Exits(s))
    BY Counts
  <2>3. k < b + e
    BY <2>2 DEF Slack
  <2>4. Within(s)' <=> k + 1 <= b + e
    BY <1>4, <2>1, <2>2 DEF Within
  <2> QED BY <2>3, <2>4
<1>7. Book' = Book
  BY DEF Book, LiveOf
<1>8. \A x \in Book' : Told(x)'
  BY <1>2, <1>3, <1>5, <1>7 DEF EntryInv, Told, Book
<1>9. \A q \in Runs \ {p} : Owed(q)'
  BY OthersIdle DEF Owed
<1> QED BY <1>5, <1>6, <1>8, <1>9 DEF EntryInv

\* A trade closed that is off the book or leaves slack.
LEMMA EntryCloses ==
  ASSUME TypeOK, OnceInv, EntryInv, NEW p \in Runs, pc[p] # "idle",
         NEW t \in open_buys, trades' = WithOutcome(t), UNCHANGED <<orders, pos>>,
         \A q \in Runs \ {p} : pc'[q] = pc[q],
         trades[t].symbol \in Book => Slack(trades[t].symbol)
  PROVE  /\ \A x \in Symbols : x # trades[t].symbol => (Told(x) => Told(x)')
         /\ Owed(p)' => EntryInv'
<1>1. /\ DOMAIN trades' = DOMAIN trades
      /\ \A u \in DOMAIN trades : trades'[u].symbol = trades[u].symbol
      /\ open_buys' = open_buys \ {t} /\ open_buys \subseteq DOMAIN trades
  BY TradeClosed DEF open_buys
<1>2. \A x \in Symbols : Booked(x)' = Booked(x) /\ Bought(x)' = Bought(x) /\ Exits(x)' = Exits(x)
  BY <1>1 DEF Booked, OpenOf, Bought, Exits, Dead
<1>3. \A x \in Symbols : (Slack(x)' <=> Slack(x)) /\ (Within(x)' <=> Within(x))
  BY <1>2 DEF Slack, Within
<1>4. \A x \in Symbols : x # trades[t].symbol => Open(x)' = Open(x)
  BY <1>1 DEF Open, OpenOf
<1>5. Book' = Book
  BY DEF Book, LiveOf
<1>6. \A x \in Book' : Told(x)'
  BY <1>3, <1>4, <1>5 DEF EntryInv, Told, Book
<1>7. \A q \in Runs \ {p} : Owed(q)'
  BY OthersIdle DEF Owed
<1> QED BY <1>3, <1>4, <1>6, <1>7 DEF EntryInv, Told

LEMMA EntryNext ==
  ASSUME TypeOK, OnceInv, LotInv, LotInv', CalmInv, EntryInv, [Next]_vars, Sequential
  PROVE  EntryInv'
<1> USE DEF Goto
<1>0. "overlap" \notin Faults /\ "late" \notin Faults /\ "short" \notin Faults
  BY DEF Sequential, Switches
<1>1. ASSUME NEW p \in Runs, Begin(p) PROVE EntryInv'
  <2>1. /\ NothingLive /\ UNCHANGED <<orders, pos, trades>> /\ \A q \in Runs : pc[q] = "idle"
        /\ view'[p] = pos /\ \A q \in Runs \ {p} : pc'[q] = pc[q]
        /\ pc'[p] \in {"stale", "snapshot"}
    BY <1>0, <1>1 DEF Begin, broker, TypeOK
  <2>2. \A s \in Held(p)' : s \in Book'
    BY <2>1 DEF Held, Book, LiveOf, NothingLive
  <2>3. \A s \in Book' : Told(s)'
    BY <2>1 DEF EntryInv, Told, Open, open_buys, OpenOf, Slack, Booked, Bought, Exits, Dead, Book, LiveOf
  <2>4. Owed(p)'
    BY <2>1, <2>2, <2>3 DEF Owed
  <2> QED BY <2>1, <2>4, EntryKept
<1>2. ASSUME NEW p \in Runs, Stale(p) PROVE EntryInv'
  <2>1. /\ UNCHANGED <<orders, pos, trades, view>> /\ pc[p] = "stale" /\ pc'[p] = "reconcile"
        /\ \A q \in Runs \ {p} : pc'[q] = pc[q]
    BY <1>2 DEF Stale, broker, TypeOK
  <2>2. \A s \in Symbols : Told(s)' <=> Told(s)
    BY <2>1 DEF Told, Open, open_buys, OpenOf, Slack, Booked, Bought, Exits, Dead
  <2>3. Held(p)' = Held(p) /\ Held(p) \subseteq Symbols
    BY <2>1 DEF Held
  <2>4. Owed(p)'
    BY <2>1, <2>2, <2>3 DEF Owed, EntryInv
  <2> QED BY <2>1, <2>4, EntryKept
<1>3. ASSUME NEW p \in Runs, Reconcile(p) PROVE EntryInv'
  <2>1. PICK t \in todo[p] : trades' = trades \/ trades' = WithOutcome(t)
    BY <1>3 DEF Reconcile
  <2>2. pc[p] = "reconcile" /\ UNCHANGED <<orders, pos, pc, view>>
    BY <1>3 DEF Reconcile, broker
  <2>3. /\ t \in open_buys /\ trades[t] \in Trade /\ view[p][trades[t].symbol] = 0
        /\ Held(p)' = Held(p) /\ Held(p) \subseteq Symbols
    BY <2>1, <2>2 DEF OnceInv, Remembers, open_buys, TypeOK, CalmInv, Held
  <2>4. trades[t].symbol \notin Held(p) /\ trades[t].symbol \in Symbols
    BY <2>3 DEF Held, Trade
  <2>5. trades[t].symbol \notin Book
    BY <2>2, <2>3, <2>4 DEF CalmInv, Calm, NothingLive, Book, LiveOf
  <2>6. CASE trades' = trades
    <3>1. \A s \in Symbols : Told(s)' <=> Told(s)
      BY <2>2, <2>6 DEF Told, Open, open_buys, OpenOf, Slack, Booked, Bought, Exits, Dead
    <3>2. Owed(p)'
      BY <2>2, <2>3, <3>1 DEF Owed, EntryInv
    <3> QED BY <2>2, <2>6, <3>2, EntryKept
  <2>7. CASE trades' = WithOutcome(t)
    <3>1. /\ \A x \in Symbols : x # trades[t].symbol => (Told(x) => Told(x)')
          /\ Owed(p)' => EntryInv'
      BY <2>2, <2>3, <2>5, <2>7, EntryCloses
    <3>2. Owed(p)'
      BY <2>2, <2>3, <2>4, <3>1 DEF Owed, EntryInv
    <3> QED BY <3>1, <3>2
  <2> QED BY <2>1, <2>6, <2>7
<1>4. ASSUME NEW p \in Runs, Untracked(p) PROVE EntryInv'
  <2>1. /\ UNCHANGED <<orders, pos, trades, view>> /\ pc[p] = "reconcile" /\ pc'[p] = "adopt"
        /\ left'[p] = {s \in Held(p) : Open(s) = {}}
        /\ \A q \in Runs \ {p} : pc'[q] = pc[q]
    BY <1>4 DEF Untracked, broker, TypeOK, Open
  <2>2. \A s \in Symbols : Slack(s)' <=> Slack(s)
    BY <2>1 DEF Slack, Booked, OpenOf, Bought, Exits, Dead
  <2>3. \A s \in left'[p] : Slack(s) /\ s \in Symbols
    BY <2>1 DEF EntryInv, Owed, Told, Held
  <2>4. Owed(p)'
    BY <2>1, <2>2, <2>3 DEF Owed
  <2> QED BY <2>1, <2>4, EntryKept
<1>5. ASSUME NEW p \in Runs, Adopt(p) PROVE EntryInv'
  <2>1. PICK s \in left[p], b \in BOOLEAN :
          /\ left' = [left EXCEPT ![p] = @ \ {s}]
          /\ trades' = Append(trades, Entry(s, NoId, b))
    BY <1>5 DEF Adopt
  <2>2. pc[p] = "adopt" /\ UNCHANGED <<orders, pos, pc>>
    BY <1>5 DEF Adopt, broker
  <2>3. s \in Symbols /\ Slack(s) /\ left'[p] = left[p] \ {s} /\ left[p] \subseteq Symbols
    BY <2>1, <2>2 DEF TypeOK, EntryInv, Owed
  <2>4. Entry(s, NoId, b) \in Trade /\ Entry(s, NoId, b).outcomes = 0 /\ Entry(s, NoId, b).symbol = s
    BY <2>3, NewEntryType DEF Entry
  <2>5. /\ \A x \in Symbols \ {s} : Slack(x)' <=> Slack(x)
        /\ Owed(p)' => EntryInv'
    <3> DEFINE r == Entry(s, NoId, b)
    <3>1. r \in Trade /\ r.outcomes = 0 /\ r.symbol = s /\ trades' = Append(trades, r)
      BY <2>1, <2>4
    <3> HIDE DEF r
    <3> QED BY <2>2, <2>3, <3>1, EntryBooks
  <2>6. Owed(p)'
    BY <2>2, <2>3, <2>5 DEF Owed, EntryInv
  <2> QED BY <2>5, <2>6
<1>6. ASSUME NEW p \in Runs, pc[p] # "idle", UNCHANGED <<orders, pos, trades>>,
             \A q \in Runs \ {p} : pc'[q] = pc[q],
             pc'[p] \notin {"stale", "reconcile", "adopt", "record"}
      PROVE  EntryInv'
  <2>1. Owed(p)'
    BY <1>6 DEF Owed
  <2> QED BY <1>6, <2>1, EntryKept
<1>7. ASSUME NEW p \in Runs, Snapshot(p) \/ Hold(p) \/ DecideExit(p) \/ DecideEntry(p) \/ Finish(p) \/ Crash(p)
      PROVE  EntryInv'
  <2>1. CASE Snapshot(p) \/ Hold(p)
    <3>1. /\ pc[p] # "idle" /\ UNCHANGED <<orders, pos, trades>> /\ pc'[p] = "trade"
          /\ \A q \in Runs \ {p} : pc'[q] = pc[q]
      BY <2>1 DEF Snapshot, Hold, broker, TypeOK
    <3> QED BY <1>6, <3>1
  <2>2. CASE DecideExit(p) \/ DecideEntry(p)
    <3>1. /\ pc[p] # "idle" /\ UNCHANGED <<orders, pos, trades>> /\ pc'[p] \in {"cancel", "submit"}
          /\ \A q \in Runs \ {p} : pc'[q] = pc[q]
      BY <2>2 DEF DecideExit, DecideEntry, broker, TypeOK
    <3> QED BY <1>6, <3>1
  <2>3. CASE Finish(p) \/ Crash(p)
    <3>1. /\ pc[p] # "idle" /\ UNCHANGED <<orders, pos, trades>> /\ pc'[p] = "idle"
          /\ \A q \in Runs \ {p} : pc'[q] = pc[q]
      BY <2>3 DEF Finish, Crash, AtRest, broker, TypeOK
    <3> QED BY <1>6, <3>1
  <2> QED BY <1>7, <2>1, <2>2, <2>3
<1>8. ASSUME NEW p \in Runs, Submit(p) PROVE EntryInv'
  <2>0. pc[p] = "submit" /\ act[p].symbol \in Symbols /\ act[p].action \in {"buy", "sell"} /\ act[p].qty = 1
    BY <1>8 DEF Submit, LotInv, Acts, Acting
  <2>a. PICK s \in Symbols, a \in {"buy", "sell"} : s = act[p].symbol /\ a = act[p].action
    BY <2>0
  <2> DEFINE n == Coid(s, a)
  <2>1. pc[p] = "submit" /\ s \in Symbols /\ a \in {"buy", "sell"} /\ act[p].qty = 1
    BY <2>0, <2>a
  <2>2. /\ UNCHANGED <<pos, trades, act>> /\ pc'[p] \in {"record", "trade"}
        /\ \A q \in Runs \ {p} : pc'[q] = pc[q]
    BY <1>8 DEF Submit, TypeOK
  <2>3. CASE UNCHANGED orders /\ pc'[p] = "trade"
    BY <1>6, <2>1, <2>2, <2>3
  <2>4. ASSUME NEW heard \in BOOLEAN, Accepts(n, 1), orders' = [orders EXCEPT ![n] = Sent(1, heard)]
        PROVE  EntryInv'
    <3>0. PICK c0 \in Ids : c0 = n
      BY <2>1 DEF Coid, Ids, Actions, TypeOK
    <3>1. /\ c0 \in Ids /\ c0[1] = s /\ c0[2] = a /\ orders[c0].st = "none" /\ orders'[c0].st = "live"
          /\ \A c \in Ids \ {c0} : orders'[c] = orders[c]
      BY <2>1, <2>4, <3>0 DEF Coid, Ids, Actions, TypeOK, Accepts, Sent
    <3>2. \A r \in Symbols : /\ Booked(r)' = Booked(r) /\ Open(r)' = Open(r)
                             /\ Bought(r) \subseteq Bought(r)' /\ Exits(r)' = Exits(r)
      BY <2>2, <3>1 DEF Booked, Open, open_buys, OpenOf, Bought, Exits, Dead
    <3>3. \A r \in Symbols : Within(r)' /\ (Slack(r) => Slack(r)') /\ (Bought(r)' # Bought(r) => Slack(r)')
      BY <3>2, SlackGrows DEF EntryInv
    <3>4. a = "buy" => Slack(s)'
      <4>1. a = "buy" => c0 \in Bought(s)' /\ c0 \notin Bought(s)
        BY <3>1 DEF Bought
      <4> QED BY <2>1, <3>3, <4>1
    <3>5. \A r \in Symbols : r \in Book' => r \in Book \/ (r = s /\ a = "buy")
      <4> SUFFICES ASSUME NEW r \in Symbols, r \in Book', ~(r = s /\ a = "buy") PROVE r \in Book
        OBVIOUS
      <4>1. LiveOf(r, "buy")' \subseteq LiveOf(r, "buy") /\ LiveOf(r, "sell") \subseteq LiveOf(r, "sell")'
        BY <3>1 DEF LiveOf
      <4> QED BY <2>2, <4>1 DEF Book
    <3>6. \A r \in Book' : Told(r)'
      BY <3>2, <3>3, <3>4, <3>5 DEF EntryInv, Told, Book
    <3>7. a = "sell" => s \notin Book'
      <4> SUFFICES ASSUME a = "sell" PROVE s \notin Book'
        OBVIOUS
      <4>1. pos[s] # 0
        BY <1>0, <2>4, <3>0, <3>1 DEF Accepts, TypeOK
      <4>2. LiveOf(s, "buy")' = {}
        BY <2>1, <3>1, <4>1, HeldNotBought DEF LiveOf
      <4>3. c0 \in LiveOf(s, "sell")'
        BY <3>1 DEF LiveOf
      <4> QED BY <4>2, <4>3 DEF Book
    <3>8. Owed(p)'
      BY <2>a, <2>1, <2>2, <3>4, <3>7 DEF Owed
    <3>9. \A q \in Runs \ {p} : Owed(q)'
      BY <2>1, <2>2, OthersIdle DEF Owed
    <3> QED BY <3>3, <3>6, <3>8, <3>9 DEF EntryInv
  <2> QED BY <1>8, <2>a, <2>1, <2>3, <2>4 DEF Submit, TypeOK
<1>9. ASSUME NEW p \in Runs, Record(p) PROVE EntryInv'
  <2> DEFINE s == act[p].symbol
             r == Entry(s, Coid(s, "buy"), TRUE)
  <2>1. /\ pc[p] = "record" /\ UNCHANGED <<orders, pos>> /\ pc'[p] = "trade" /\ s \in Symbols
        /\ \A q \in Runs \ {p} : pc'[q] = pc[q]
    BY <1>9 DEF Record, broker, TypeOK, LotInv, Acts, Acting
  <2>2. Owed(p)'
    BY <2>1 DEF Owed
  <2>3. CASE act[p].action = "buy" /\ trades' = Append(trades, r)
    <3>1. Coid(s, "buy") \in Ids
      BY <2>1 DEF Coid, Ids, Actions, TypeOK
    <3>2. r \in Trade /\ r.outcomes = 0 /\ r.symbol = s /\ trades' = Append(trades, r)
      BY <2>1, <2>3, <3>1, NewEntryType DEF Entry
    <3>3. Slack(s)
      BY <2>1, <2>3 DEF EntryInv, Owed
    <3> HIDE DEF r
    <3> QED BY <2>1, <2>2, <3>2, <3>3, EntryBooks
  <2>4. CASE UNCHANGED trades
    BY <1>6, <2>1, <2>4
  <2>5. ASSUME NEW t \in OpenOf(s, opened[p]), trades' = WithOutcome(t) PROVE EntryInv'
    <3>1. t \in open_buys /\ trades[t].symbol = s
      BY <2>5 DEF OpenOf, OnceInv, Remembers
    <3>2. s \in Book => Slack(s)
      BY <2>1 DEF EntryInv, Owed
    <3> QED BY <2>1, <2>2, <2>5, <3>1, <3>2, EntryCloses
  <2> QED BY <1>9, <2>3, <2>4, <2>5 DEF Record
<1>10. ASSUME NEW p \in Runs, CancelLegs(p) PROVE EntryInv'
  <2>1. \A q \in Runs : pc'[q] = pc[q] \/ pc'[q] \in {"submit", "trade"}
    BY <1>10 DEF CancelLegs, TypeOK
  <2> QED BY <1>10, <2>1, CancelSettles, EntrySettles
<1>11. ASSUME \/ \E c \in Ids : Fill(c) \/ StopFires(c) \/ OrderDies(c)
              \/ \E s \in Symbols : ManualClose(s)
       PROVE  EntryInv'
  BY <1>11, EnvironmentSettles, EntrySettles
<1>12. CASE NewDay \/ UNCHANGED vars
  <2>1. UNCHANGED <<orders, pos, trades, pc, view, left, act>>
    BY <1>12 DEF NewDay, vars, broker, local
  <2>2. \A s \in Symbols : (Within(s)' <=> Within(s)) /\ (Slack(s)' <=> Slack(s)) /\ (Told(s)' <=> Told(s))
    BY <2>1 DEF Within, Told, Open, open_buys, OpenOf, Slack, Booked, Bought, Exits, Dead
  <2>3. Book' = Book /\ Book \subseteq Symbols /\ \A p \in Runs : Held(p)' = Held(p) /\ Held(p) \subseteq Symbols
    BY <2>1 DEF Book, LiveOf, Held
  <2>4. \A p \in Runs : Owed(p)'
    <3> SUFFICES ASSUME NEW p \in Runs PROVE Owed(p)'
      OBVIOUS
    <3>1. Owed(p) /\ left[p] \subseteq Symbols
      BY DEF EntryInv, TypeOK
    <3>2. pc[p] = "record" => act[p].symbol \in Symbols
      BY DEF LotInv, Acts, Acting
    <3>3. CASE pc[p] = "record"
      <4>1. PICK s \in Symbols : s = act[p].symbol
        BY <3>2, <3>3
      <4>2. Slack(s)' <=> Slack(s)
        BY <2>2
      <4> QED BY <2>1, <2>3, <3>1, <3>3, <4>1, <4>2 DEF Owed
    <3>4. CASE pc[p] # "record"
      BY <2>1, <2>2, <2>3, <3>1, <3>4 DEF Owed
    <3> QED BY <3>3, <3>4
  <2> QED BY <2>2, <2>3, <2>4 DEF EntryInv
<1> QED
  BY <1>1, <1>2, <1>3, <1>4, <1>5, <1>7, <1>8, <1>9, <1>10, <1>11, <1>12 DEF Next, Step

-----------------------------------------------------------------------------
(* A cycle that has reconciled and adopted has one open trade for every      *)
(* position it sees and none without, and keeps both in step.                *)

OneOpen == \A t, u \in open_buys : trades[t].symbol = trades[u].symbol => t = u

Shows(p) ==
  /\ pc[p] # "snapshot"
  /\ pc[p] = "reconcile" => (\A t \in open_buys : trades[t].symbol \in Held(p) \/ t \in todo[p])
  /\ pc[p] = "adopt" =>
       /\ left[p] \subseteq Held(p)
       /\ \A s \in Symbols : Open(s) # {} <=> s \in Held(p) \ left[p]
  /\ pc[p] \in Acting \cup {"trade"} => opened[p] = open_buys
  /\ pc[p] \in {"trade", "cancel", "submit"} => \A s \in Symbols : Open(s) # {} <=> s \in Held(p)
  /\ pc[p] = "record" =>
       /\ act[p].symbol \in Held(p) <=> act[p].action = "buy"
       /\ \A s \in Symbols : Open(s) # {} <=> IF s = act[p].symbol THEN act[p].action # "buy"
                                                                  ELSE s \in Held(p)

AgreeInv == OneOpen /\ \A p \in Runs : Shows(p)

\* A step of the only run that leaves the ledger alone.
LEMMA AgreeKept ==
  ASSUME OnceInv, AgreeInv, NEW p \in Runs, pc[p] # "idle" \/ \A q \in Runs : pc[q] = "idle",
         UNCHANGED trades, \A q \in Runs \ {p} : pc'[q] = pc[q], Shows(p)'
  PROVE  AgreeInv'
<1>1. OneOpen'
  BY DEF AgreeInv, OneOpen, open_buys
<1>2. \A q \in Runs \ {p} : Shows(q)'
  BY OthersIdle DEF Shows, Acting
<1> QED BY <1>1, <1>2 DEF AgreeInv

\* Reconciliation closes a trade.
LEMMA AgreeReconcile ==
  ASSUME TypeOK, OnceInv, CalmInv, AgreeInv, "error" \notin Faults, NEW p \in Runs, Reconcile(p)
  PROVE  AgreeInv'
<1>1. PICK t \in todo[p] :
        /\ todo' = [todo EXCEPT ![p] = @ \ {t}]
        /\ EntryStatus(t) = "live" \/ trades' = WithOutcome(t)
  BY DEF Reconcile, Spend
<1>2. pc[p] = "reconcile" /\ UNCHANGED <<pc, view>>
  BY DEF Reconcile
<1>3. t \in open_buys /\ t \in DOMAIN trades /\ trades[t] \in Trade
  BY <1>1 DEF OnceInv, Remembers, open_buys, TypeOK
<1>4. EntryStatus(t) # "live"
  BY <1>2, <1>3 DEF EntryStatus, CalmInv, Calm, NothingLive, Trade
<1>5. trades' = WithOutcome(t)
  BY <1>1, <1>4
<1>6. /\ \A u \in DOMAIN trades : trades'[u].symbol = trades[u].symbol
      /\ open_buys' = open_buys \ {t} /\ open_buys \subseteq DOMAIN trades
  BY <1>3, <1>5, TradeClosed DEF open_buys
<1>7. OneOpen'
  BY <1>6 DEF AgreeInv, OneOpen
<1>8. todo'[p] = todo[p] \ {t}
  BY <1>1 DEF TypeOK
<1>9. Shows(p)'
  BY <1>2, <1>6, <1>8 DEF AgreeInv, Shows, Held, Acting
<1>10. \A q \in Runs \ {p} : Shows(q)'
  BY <1>2, OthersIdle DEF Shows, Acting
<1> QED BY <1>7, <1>9, <1>10 DEF AgreeInv

\* A trade is booked of a symbol that has none open.
LEMMA AgreeBooks ==
  ASSUME TypeOK, OnceInv, AgreeInv, NEW p \in Runs, pc[p] # "idle",
         NEW s \in Symbols, Open(s) = {}, NEW r \in Trade, r.outcomes = 0, r.symbol = s,
         trades' = Append(trades, r), \A q \in Runs \ {p} : pc'[q] = pc[q]
  PROVE  /\ open_buys' = open_buys \cup {Len(trades) + 1}
         /\ Open(s)' # {} /\ \A x \in Symbols \ {s} : Open(x)' = Open(x)
         /\ Shows(p)' => AgreeInv'
<1> DEFINE new == Len(trades) + 1
<1>1. /\ new \notin DOMAIN trades /\ trades'[new] = r
      /\ \A u \in DOMAIN trades : trades'[u] = trades[u]
      /\ open_buys' = open_buys \cup {new} /\ open_buys \subseteq DOMAIN trades
  BY TradeBooked DEF open_buys
<1> HIDE DEF new
<1>2. Open(s)' # {} /\ \A x \in Symbols \ {s} : Open(x)' = Open(x)
  BY <1>1 DEF Open, OpenOf
<1>3. \A u \in open_buys : trades[u].symbol # s
  BY DEF Open, OpenOf
<1>4. OneOpen'
  <2>1. \A u \in open_buys : trades'[u] = trades[u] /\ trades'[u].symbol # s
    BY <1>1, <1>3
  <2>2. trades'[new].symbol = s
    BY <1>1
  <2> SUFFICES ASSUME NEW t \in open_buys', NEW u \in open_buys', trades'[t].symbol = trades'[u].symbol
               PROVE  t = u
    BY DEF OneOpen
  <2>3. \/ t \in open_buys /\ u \in open_buys
        \/ t = new /\ u = new
    BY <1>1, <2>1, <2>2
  <2>4. CASE t \in open_buys /\ u \in open_buys
    <3>1. trades[t].symbol = trades[u].symbol
      BY <2>1, <2>4
    <3> QED BY <2>4, <3>1 DEF AgreeInv, OneOpen
  <2> QED BY <2>3, <2>4
<1>5. \A q \in Runs \ {p} : Shows(q)'
  BY OthersIdle DEF Shows, Acting
<1> QED BY <1>1, <1>2, <1>4, <1>5 DEF AgreeInv, new

\* The outcome of an exit closes the one trade of its symbol.
LEMMA AgreeCloses ==
  ASSUME TypeOK, OnceInv, AgreeInv, NEW p \in Runs, pc[p] # "idle",
         NEW s \in Symbols, NEW t \in Open(s), trades' = WithOutcome(t),
         \A q \in Runs \ {p} : pc'[q] = pc[q]
  PROVE  /\ open_buys' = open_buys \ {t}
         /\ Open(s)' = {} /\ \A x \in Symbols \ {s} : Open(x)' = Open(x)
         /\ Shows(p)' => AgreeInv'
<1>1. t \in open_buys /\ trades[t].symbol = s
  BY DEF Open, OpenOf
<1>2. /\ \A u \in DOMAIN trades : trades'[u].symbol = trades[u].symbol
      /\ open_buys' = open_buys \ {t} /\ open_buys \subseteq DOMAIN trades
  BY <1>1, TradeClosed DEF open_buys
<1>3. Open(s)' = {} /\ \A x \in Symbols \ {s} : Open(x)' = Open(x)
  BY <1>1, <1>2 DEF AgreeInv, OneOpen, Open, OpenOf
<1>4. OneOpen'
  BY <1>2 DEF AgreeInv, OneOpen
<1>5. \A q \in Runs \ {p} : Shows(q)'
  BY OthersIdle DEF Shows, Acting
<1> QED BY <1>2, <1>3, <1>4, <1>5 DEF AgreeInv

LEMMA AgreeNext ==
  ASSUME TypeOK, OnceInv, LotInv, CalmInv, AgreeInv, [Next]_vars, Sequential,
         "error" \notin Faults, Scans = {}
  PROVE  AgreeInv'
<1> USE DEF Goto
<1>0. "overlap" \notin Faults /\ "late" \notin Faults
  BY DEF Sequential, Switches
<1>a. ASSUME UNCHANGED trades PROVE open_buys' = open_buys /\ \A s \in Symbols : Open(s)' = Open(s)
  BY <1>a DEF open_buys, Open, OpenOf
<1>1. ASSUME NEW p \in Runs, Begin(p) PROVE AgreeInv'
  <2>1. /\ pc'[p] = "stale" /\ UNCHANGED trades /\ \A q \in Runs : pc[q] = "idle"
        /\ \A q \in Runs \ {p} : pc'[q] = pc[q]
    BY <1>0, <1>1 DEF Begin, TypeOK
  <2>2. Shows(p)'
    BY <2>1 DEF Shows, Acting
  <2> QED BY <2>1, <2>2, AgreeKept
<1>2. ASSUME NEW p \in Runs, Stale(p) PROVE AgreeInv'
  <2>1. /\ pc[p] = "stale" /\ pc'[p] = "reconcile" /\ UNCHANGED <<trades, view>>
        /\ todo'[p] = {t \in open_buys : trades[t].symbol \notin Held(p)}
        /\ \A q \in Runs \ {p} : pc'[q] = pc[q]
    BY <1>2 DEF Stale, TypeOK
  <2>2. Shows(p)'
    BY <1>a, <2>1 DEF Shows, Held, Acting
  <2> QED BY <2>1, <2>2, AgreeKept
<1>3. ASSUME NEW p \in Runs, Untracked(p) PROVE AgreeInv'
  <2>1. /\ pc[p] = "reconcile" /\ pc'[p] = "adopt" /\ UNCHANGED <<trades, view>> /\ todo[p] = {}
        /\ left'[p] = {s \in Held(p) : Open(s) = {}}
        /\ \A q \in Runs \ {p} : pc'[q] = pc[q]
    BY <1>3 DEF Untracked, TypeOK, Open
  <2>2. \A s \in Symbols : Open(s) # {} => s \in Held(p)
    BY <2>1 DEF AgreeInv, Shows, Open, OpenOf
  <2>3. Held(p)' = Held(p)
    BY <2>1 DEF Held
  <2>4. Shows(p)'
    BY <1>a, <2>1, <2>2, <2>3 DEF Shows, Acting
  <2> QED BY <2>1, <2>4, AgreeKept
<1>4. ASSUME NEW p \in Runs, Adopt(p) PROVE AgreeInv'
  <2>1. PICK s \in left[p], b \in BOOLEAN :
          /\ left' = [left EXCEPT ![p] = @ \ {s}]
          /\ trades' = Append(trades, Entry(s, NoId, b))
    BY <1>4 DEF Adopt
  <2>2. pc[p] = "adopt" /\ UNCHANGED <<pc, view>> /\ left'[p] = left[p] \ {s} /\ s \in Symbols
    BY <1>4, <2>1 DEF Adopt, TypeOK
  <2>3. s \in Held(p) /\ Open(s) = {} /\ Held(p)' = Held(p)
    BY <2>1, <2>2 DEF AgreeInv, Shows, Held
  <2>4. Entry(s, NoId, b) \in Trade /\ Entry(s, NoId, b).outcomes = 0 /\ Entry(s, NoId, b).symbol = s
    BY <2>2, NewEntryType DEF Entry
  <2>5. /\ Open(s)' # {} /\ \A x \in Symbols \ {s} : Open(x)' = Open(x)
        /\ Shows(p)' => AgreeInv'
    <3> DEFINE r == Entry(s, NoId, b)
    <3>1. r \in Trade /\ r.outcomes = 0 /\ r.symbol = s /\ trades' = Append(trades, r)
      BY <2>1, <2>4
    <3> HIDE DEF r
    <3> QED BY <2>2, <2>3, <3>1, AgreeBooks
  <2>6. Shows(p)'
    BY <2>2, <2>3, <2>5 DEF AgreeInv, Shows, Acting
  <2> QED BY <2>5, <2>6
<1>5. ASSUME NEW p \in Runs, Snapshot(p) PROVE AgreeInv'
  <2>1. /\ pc[p] = "adopt" /\ left[p] = {} /\ pc'[p] = "trade" /\ UNCHANGED <<trades, view>>
        /\ opened'[p] = open_buys /\ \A q \in Runs \ {p} : pc'[q] = pc[q]
    BY <1>5 DEF Snapshot, TypeOK, AgreeInv, Shows
  <2>2. Shows(p)'
    BY <1>a, <2>1 DEF AgreeInv, Shows, Held, Acting
  <2> QED BY <2>1, <2>2, AgreeKept
<1>6. ASSUME NEW p \in Runs, Hold(p) \/ DecideExit(p) \/ DecideEntry(p) PROVE AgreeInv'
  <2>1. /\ pc[p] = "trade" /\ pc'[p] \in {"trade", "cancel", "submit"} /\ UNCHANGED <<trades, view, opened>>
        /\ \A q \in Runs \ {p} : pc'[q] = pc[q]
    BY <1>6 DEF Hold, DecideExit, DecideEntry, TypeOK
  <2>2. Shows(p)'
    BY <1>a, <2>1 DEF AgreeInv, Shows, Held, Acting
  <2> QED BY <2>1, <2>2, AgreeKept
<1>7. ASSUME NEW p \in Runs, CancelLegs(p) PROVE AgreeInv'
  <2>1. /\ pc[p] = "cancel" /\ pc'[p] \in {"trade", "submit"} /\ UNCHANGED <<trades, view, opened>>
        /\ \A q \in Runs \ {p} : pc'[q] = pc[q]
    BY <1>7 DEF CancelLegs, TypeOK, local
  <2>2. Shows(p)'
    BY <1>a, <2>1 DEF AgreeInv, Shows, Held, Acting
  <2> QED BY <2>1, <2>2, AgreeKept
<1>8. ASSUME NEW p \in Runs, Submit(p) PROVE AgreeInv'
  <2>0. pc[p] = "submit" /\ act[p].symbol \in Symbols /\ act[p].action \in {"buy", "sell"} /\ act[p].qty = 1
    BY <1>8 DEF Submit, LotInv, Acts, Acting
  <2>1. PICK s \in Symbols, a \in {"buy", "sell"} : s = act[p].symbol /\ a = act[p].action
    BY <2>0
  <2>2. /\ UNCHANGED <<trades, opened, act>> /\ \A q \in Runs \ {p} : pc'[q] = pc[q]
    BY <1>8 DEF Submit, TypeOK
  <2>3. \/ UNCHANGED view /\ pc'[p] = "trade"
        \/ pc'[p] = "record" /\ view' = [view EXCEPT ![p][s] = IF a = "buy" THEN 1 ELSE 0]
    BY <1>8, <2>0, <2>1 DEF Submit, TypeOK
  <2>4. a = "buy" <=> view[p][s] = 0
    BY <2>0, <2>1 DEF LotInv, Acts, Acting
  <2>5. CASE UNCHANGED view /\ pc'[p] = "trade"
    <3>1. Shows(p)'
      BY <1>a, <2>0, <2>2, <2>5 DEF AgreeInv, Shows, Held, Acting
    <3> QED BY <2>0, <2>2, <3>1, AgreeKept
  <2>6. CASE pc'[p] = "record" /\ view' = [view EXCEPT ![p][s] = IF a = "buy" THEN 1 ELSE 0]
    <3> DEFINE shown == [view[p] EXCEPT ![s] = IF a = "buy" THEN 1 ELSE 0]
    <3>1. view' = [view EXCEPT ![p] = shown]
      BY <2>6
    <3>2. /\ shown[s] = (IF a = "buy" THEN 1 ELSE 0)
          /\ \A x \in Symbols \ {s} : shown[x] = view[p][x]
      BY DEF TypeOK
    <3> HIDE DEF shown
    <3>3. view'[p] = shown
      BY <3>1 DEF TypeOK
    <3>4. (s \in Held(p)' <=> a = "buy") /\ \A x \in Symbols \ {s} : x \in Held(p)' <=> x \in Held(p)
      BY <3>2, <3>3 DEF Held
    <3>5. \A x \in Symbols : Open(x) # {} <=> x \in Held(p)
      BY <2>0 DEF AgreeInv, Shows
    <3>6. s \in Held(p) <=> a # "buy"
      BY <2>4 DEF Held
    <3>7. act'[p].symbol = s /\ act'[p].action = a /\ opened'[p] = open_buys
      BY <2>0, <2>1, <2>2 DEF AgreeInv, Shows, Acting
    <3>8. Shows(p)'
      BY <1>a, <2>2, <2>6, <3>4, <3>5, <3>6, <3>7 DEF Shows, Acting
    <3> QED BY <2>0, <2>2, <3>8, AgreeKept
  <2> QED BY <2>3, <2>5, <2>6
<1>9. ASSUME NEW p \in Runs, Record(p) PROVE AgreeInv'
  <2>0. /\ pc[p] = "record" /\ pc'[p] = "trade" /\ UNCHANGED view
        /\ \A q \in Runs \ {p} : pc'[q] = pc[q]
    BY <1>9 DEF Record, TypeOK
  <2>1. PICK s \in Symbols : s = act[p].symbol
    BY <2>0 DEF LotInv, Acts, Acting
  <2>2. /\ opened[p] = open_buys /\ (s \in Held(p) <=> act[p].action = "buy")
        /\ \A x \in Symbols : Open(x) # {} <=> IF x = s THEN act[p].action # "buy" ELSE x \in Held(p)
    BY <2>0, <2>1 DEF AgreeInv, Shows, Acting
  <2>3. Held(p)' = Held(p)
    BY <2>0 DEF Held
  <2> DEFINE r == Entry(s, Coid(s, "buy"), TRUE)
  <2>4. CASE /\ act[p].action = "buy" /\ trades' = Append(trades, r)
             /\ opened' = [opened EXCEPT ![p] = @ \cup {Len(trades) + 1}]
    <3>1. Coid(s, "buy") \in Ids
      BY DEF Coid, Ids, Actions, TypeOK
    <3>2. r \in Trade /\ r.outcomes = 0 /\ r.symbol = s /\ trades' = Append(trades, r)
      BY <2>4, <3>1, NewEntryType DEF Entry
    <3> HIDE DEF r
    <3>3. Open(s) = {}
      BY <2>2, <2>4
    <3>4. /\ open_buys' = open_buys \cup {Len(trades) + 1}
          /\ Open(s)' # {} /\ \A x \in Symbols \ {s} : Open(x)' = Open(x)
          /\ Shows(p)' => AgreeInv'
      BY <2>0, <3>2, <3>3, AgreeBooks
    <3>5. opened'[p] = open_buys'
      BY <2>2, <2>4, <3>4 DEF TypeOK
    <3>6. Shows(p)'
      BY <2>0, <2>2, <2>3, <2>4, <3>4, <3>5 DEF Shows, Acting
    <3> QED BY <3>4, <3>6
  <2>5. ASSUME NEW t \in OpenOf(s, opened[p]), trades' = WithOutcome(t), act[p].action # "buy",
               opened' = [opened EXCEPT ![p] = @ \ {t}]
        PROVE  AgreeInv'
    <3>1. t \in Open(s)
      BY <2>2 DEF Open
    <3>2. /\ open_buys' = open_buys \ {t}
          /\ Open(s)' = {} /\ \A x \in Symbols \ {s} : Open(x)' = Open(x)
          /\ Shows(p)' => AgreeInv'
      BY <2>0, <2>5, <3>1, AgreeCloses
    <3>3. opened'[p] = open_buys'
      BY <2>2, <2>5, <3>2 DEF TypeOK
    <3>4. Shows(p)'
      BY <2>0, <2>2, <2>3, <2>5, <3>2, <3>3 DEF Shows, Acting
    <3> QED BY <3>2, <3>4
  <2>6. ~(act[p].action # "buy" /\ OpenOf(s, opened[p]) = {})
    BY <2>2 DEF Open
  <2> QED BY <1>9, <2>1, <2>4, <2>5, <2>6 DEF Record
<1>10. ASSUME NEW p \in Runs, Finish(p) \/ Crash(p) PROVE AgreeInv'
  <2>1. /\ pc[p] # "idle" /\ pc'[p] = "idle" /\ UNCHANGED trades
        /\ \A q \in Runs \ {p} : pc'[q] = pc[q]
    BY <1>10 DEF Finish, Crash, AtRest, TypeOK
  <2>2. Shows(p)'
    BY <2>1 DEF Shows, Acting
  <2> QED BY <2>1, <2>2, AgreeKept
<1>11. ASSUME UNCHANGED <<trades, pc, local>> PROVE AgreeInv'
  <2>1. UNCHANGED <<trades, pc, view, todo, left, opened, act>>
    BY <1>11 DEF local
  <2>2. OneOpen'
    BY <2>1, <1>a DEF AgreeInv, OneOpen
  <2>3. \A p \in Runs : Shows(p)'
    BY <2>1, <1>a DEF AgreeInv, Shows, Held
  <2> QED BY <2>2, <2>3 DEF AgreeInv
<1>12. ASSUME \/ \E c \in Ids : Fill(c) \/ StopFires(c) \/ OrderDies(c)
              \/ \E s \in Symbols : ManualClose(s)
       PROVE  AgreeInv'
  BY <1>11, <1>12, EnvironmentSettles DEF Settles
<1>13. CASE NewDay \/ UNCHANGED vars
  BY <1>11, <1>13 DEF NewDay, vars, local
<1> QED
  BY <1>1, <1>2, <1>3, <1>4, <1>5, <1>6, <1>7, <1>8, <1>9, <1>10, <1>12, <1>13, AgreeReconcile
     DEF Next, Step

LEMMA SequentialInit == Init => OnceInv /\ LotInv /\ CalmInv /\ EntryInv /\ AgreeInv
<1> SUFFICES ASSUME Init PROVE OnceInv /\ LotInv /\ CalmInv /\ EntryInv /\ AgreeInv
  OBVIOUS
<1>0. /\ trades = <<>> /\ DOMAIN trades = {} /\ pos = Flat /\ ~wrong
      /\ \A c \in Ids : orders[c].st = "none"
      /\ \A p \in Runs : pc[p] = "idle" /\ view[p] = Flat /\ todo[p] = {} /\ opened[p] = {}
  BY DEF Init, NoOrder
<1>1. OnceInv
  BY <1>0 DEF OnceInv, OneRun, Remembers, OutcomeOnce
<1>2. LotInv
  <2>1. OneLot /\ LotOrders
    BY <1>0 DEF OneLot, LotOrders, Reserving, Flat
  <2>2. \A p \in Runs : Acts(p) /\ Knows(p) /\ Views(p)
    BY <1>0 DEF Acts, Knows, Views, Flat, Acting
  <2> QED BY <2>1, <2>2 DEF LotInv
<1>3. CalmInv
  BY <1>0 DEF CalmInv, Calm, NeverClosesHeld
<1>4. open_buys = {}
  BY <1>0 DEF open_buys
<1>5. EntryInv
  <2>1. \A s \in Symbols : Booked(s) = {} /\ Bought(s) = {} /\ Exits(s) = {}
    BY <1>0 DEF Booked, OpenOf, Bought, Exits, Dead
  <2>2. \A s \in Symbols : Within(s)
    BY <2>1, FS_EmptySet DEF Within
  <2>3. Book = {}
    BY <1>0 DEF Book, LiveOf, Flat
  <2>4. \A p \in Runs : Owed(p)
    BY <1>0 DEF Owed
  <2> QED BY <2>2, <2>3, <2>4 DEF EntryInv
<1>6. AgreeInv
  BY <1>0, <1>4 DEF AgreeInv, OneOpen, Shows, Acting
<1> QED BY <1>1, <1>2, <1>3, <1>5, <1>6

LEMMA EntryWithin == EntryInv => TradePerEntry
BY DEF EntryInv, Within, Booked, Exits, TradePerEntry

LEMMA AgreeAgrees == TypeOK /\ AgreeInv => CycleAgrees
<1> SUFFICES ASSUME TypeOK, AgreeInv, NEW p \in Runs \ Scans,
                    pc[p] = "trade", view[p] = pos, NEW s \in Symbols
             PROVE  Cardinality(OpenOf(s, open_buys)) = IF pos[s] = 0 THEN 0 ELSE 1
  BY DEF CycleAgrees
<1>1. Open(s) # {} <=> pos[s] # 0
  BY DEF AgreeInv, Shows, Held
<1>2. \A t, u \in Open(s) : t = u
  BY DEF AgreeInv, OneOpen, Open, OpenOf
<1>3. CASE Open(s) = {}
  BY <1>1, <1>3, FS_EmptySet DEF Open
<1>4. CASE Open(s) # {}
  <2>1. PICK t : Open(s) = {t}
    BY <1>2, <1>4
  <2>2. Cardinality({t}) = 1
    BY FS_Singleton
  <2> QED BY <1>1, <1>4, <2>1, <2>2 DEF Open
<1> QED BY <1>3, <1>4

LEMMA SequentialHolds ==
  ASSUME Sequential PROVE Spec => [](TypeOK /\ OnceInv /\ LotInv /\ CalmInv /\ EntryInv)
<1> DEFINE Inv == OnceInv /\ LotInv /\ CalmInv /\ EntryInv
<1>1. Init => Inv
  BY SequentialInit
<1>2. TypeOK /\ TypeOK' /\ Inv /\ [Next]_vars => Inv'
  <2> SUFFICES ASSUME TypeOK, TypeOK', Inv, [Next]_vars PROVE Inv'
    OBVIOUS
  <2>1. OnceInv'
    BY OnceNext DEF Sequential, Switches
  <2>2. Faults \cap {"short", "overnight"} = {}
    BY DEF Sequential, Switches
  <2>3. LotInv'
    BY <2>2, LotNext
  <2>4. CalmInv'
    BY CalmNext
  <2>5. EntryInv'
    BY <2>3, EntryNext
  <2> QED BY <2>1, <2>3, <2>4, <2>5
<1> QED
  BY <1>1, <1>2, CycleTyping, PTL DEF Spec

\* The ledger books a holding once and reconciliation writes off nothing that
\* is held (adopt_untracked_positions, reconcile_closed_positions), for cycles
\* and scans one after the other, whatever is killed, lost, refused or raises.
THEOREM BookedOnce == Sequential => (Spec => [](TradePerEntry /\ NeverClosesHeld))
<1> SUFFICES ASSUME Sequential PROVE Spec => [](TradePerEntry /\ NeverClosesHeld)
  OBVIOUS
<1>1. EntryInv /\ CalmInv => TradePerEntry /\ NeverClosesHeld
  BY EntryWithin DEF CalmInv
<1> QED
  BY <1>1, SequentialHolds, PTL

\* A cycle leaves a ledger that agrees with the broker, one open trade for
\* every position and none without (reconcile_closed_positions, adopt_untracked_
\* positions and the records that follow the orders), if every broker read
\* succeeds and nothing enters but cycles.
THEOREM LedgerStaysTrue ==
  Sequential /\ "error" \notin Faults /\ Scans = {} => (Spec => []LedgerAgrees)
<1> SUFFICES ASSUME Sequential, "error" \notin Faults, Scans = {} PROVE Spec => []LedgerAgrees
  OBVIOUS
<1>1. Init => AgreeInv
  BY SequentialInit
<1>2. TypeOK /\ OnceInv /\ LotInv /\ CalmInv /\ EntryInv /\ AgreeInv /\ [Next]_vars => AgreeInv'
  BY AgreeNext
<1>3. TypeOK /\ CalmInv /\ EntryInv /\ AgreeInv => LedgerAgrees
  BY AgreeAgrees, EntryWithin DEF LedgerAgrees, CalmInv
<1> QED
  BY <1>1, <1>2, <1>3, SequentialHolds, PTL DEF Spec

-----------------------------------------------------------------------------
(* The cap on positions.  What the only run does not see of the book is what *)
(* it was never told: entries whose reply was lost and exits that died.      *)

Unseen == Cardinality(Dead("sell")) + Cardinality(Unheard)

CapInv ==
  /\ BookCap
  /\ \A p \in Runs :
       /\ pc[p] # "idle" => Cardinality(Book \ Held(p)) <= Unseen
       /\ MaxPositions > 0 /\ pc[p] = "submit" /\ act[p].action = "buy" =>
            Cardinality(Held(p)) < MaxPositions

LEMMA SymbolSets ==
  ASSUME NEW S \in SUBSET Symbols
  PROVE  IsFiniteSet(S) /\ Cardinality(S) \in Nat
BY SymbolsAssumption, FS_Subset, FS_CardinalityType

LEMMA IdSets ==
  ASSUME NEW S \in SUBSET Ids
  PROVE  IsFiniteSet(S) /\ Cardinality(S) \in Nat
BY IdsFinite, FS_Subset, FS_CardinalityType

\* Nothing unseen is forgotten; another exit that died, or another entry whose
\* reply was lost, is one more.
LEMMA UnseenGrows ==
  ASSUME Dead("sell") \subseteq Dead("sell")', Unheard \subseteq Unheard'
  PROVE  /\ Unseen \in Nat /\ Unseen' \in Nat /\ Unseen <= Unseen'
         /\ Dead("sell")' # Dead("sell") \/ Unheard' # Unheard => Unseen + 1 <= Unseen'
<1>1. /\ Dead("sell") \in SUBSET Ids /\ Unheard \in SUBSET Ids
      /\ Dead("sell")' \in SUBSET Ids /\ Unheard' \in SUBSET Ids
  BY DEF Dead, Unheard
<1>2. /\ IsFiniteSet(Dead("sell")') /\ Cardinality(Dead("sell")') \in Nat
      /\ IsFiniteSet(Unheard') /\ Cardinality(Unheard') \in Nat
      /\ Cardinality(Dead("sell")) \in Nat /\ Cardinality(Unheard) \in Nat
  BY <1>1, IdSets
<1>3. /\ Cardinality(Dead("sell")) <= Cardinality(Dead("sell")')
      /\ Cardinality(Dead("sell")') = Cardinality(Dead("sell")) => Dead("sell")' = Dead("sell")
  BY <1>2, FS_Subset
<1>4. /\ Cardinality(Unheard) <= Cardinality(Unheard')
      /\ Cardinality(Unheard') = Cardinality(Unheard) => Unheard' = Unheard
  BY <1>2, FS_Subset
<1>5. PICK d \in Nat, u \in Nat, d2 \in Nat, u2 \in Nat :
        /\ d = Cardinality(Dead("sell")) /\ u = Cardinality(Unheard)
        /\ d2 = Cardinality(Dead("sell")') /\ u2 = Cardinality(Unheard')
  BY <1>2
<1>6. Unseen = d + u /\ Unseen' = d2 + u2
  BY <1>5 DEF Unseen
<1>7. d <= d2 /\ u <= u2 /\ (Dead("sell")' # Dead("sell") \/ Unheard' # Unheard => d # d2 \/ u # u2)
  BY <1>3, <1>4, <1>5
<1> QED BY <1>6, <1>7

LEMMA UnseenTotal ==
  /\ Unseen = Cardinality(Dead("sell")) + Cardinality(Unheard)
  /\ Cardinality(Dead("sell")) \in Nat /\ Cardinality(Unheard) \in Nat
  /\ BookCap <=> (MaxPositions > 0 => Cardinality(Book) <= MaxPositions + Unseen)
<1>1. Dead("sell") \in SUBSET Ids /\ Unheard \in SUBSET Ids
  BY DEF Dead, Unheard
<1>2. Cardinality(Dead("sell")) \in Nat /\ Cardinality(Unheard) \in Nat
  BY <1>1, IdSets
<1>3. Book \in SUBSET Symbols
  BY DEF Book
<1>4. Cardinality(Book) \in Nat /\ MaxPositions \in Nat
  BY <1>3, SymbolSets, BoundsAssumption
<1> QED BY <1>2, <1>4 DEF Unseen, BookCap

\* A book that loses symbols, or gains one that is unseen.
LEMMA CapGrows ==
  ASSUME NEW B \in SUBSET Symbols, NEW B2 \in SUBSET Symbols, NEW s \in Symbols,
         NEW n \in Nat, NEW k \in Nat, NEW k2 \in Nat, Cardinality(B) <= n + k, k <= k2,
         B2 \subseteq B \/ (B2 \subseteq B \cup {s} /\ k + 1 <= k2)
  PROVE  Cardinality(B2) <= n + k2
<1>1. IsFiniteSet(B) /\ Cardinality(B) \in Nat /\ Cardinality(B2) \in Nat
  BY SymbolSets
<1>2. CASE B2 \subseteq B
  BY <1>1, <1>2, FS_Subset
<1>3. CASE B2 \subseteq B \cup {s} /\ k + 1 <= k2
  <2>1. IsFiniteSet(B \cup {s}) /\ Cardinality(B \cup {s}) <= Cardinality(B) + 1 /\ Cardinality(B \cup {s}) \in Nat
    BY <1>1, FS_AddElement
  <2>2. Cardinality(B2) <= Cardinality(B \cup {s})
    BY <1>3, <2>1, FS_Subset
  <2> QED BY <1>1, <1>3, <2>1, <2>2
<1> QED BY <1>2, <1>3

\* What a settling leaves of the cap.
LEMMA CapSettles ==
  ASSUME TypeOK, CapInv, NEW s \in Symbols, Settles(s),
         \A p \in Runs : pc'[p] = pc[p] \/ (pc[p] = "cancel" /\ act[p].action # "buy")
  PROVE  CapInv'
<1>1. Dead("sell") \subseteq Dead("sell")' /\ Unheard \subseteq Unheard'
  BY DEF Dead, Unheard, Settles
<1>2. PICK k \in Nat, k2 \in Nat :
        /\ k = Unseen /\ k2 = Unseen' /\ k <= k2
        /\ Book' \subseteq Book \/ (Book' \subseteq Book \cup {s} /\ k + 1 <= k2)
  <2>1. Book' \subseteq Book \/ (Book' \subseteq Book \cup {s} /\ Dead("sell")' # Dead("sell"))
    BY DEF Settles
  <2> QED BY <1>1, <2>1, UnseenGrows
<1>3. Book \in SUBSET Symbols /\ Book' \in SUBSET Symbols
  BY DEF Book
<1>4. BookCap'
  <2> SUFFICES ASSUME MaxPositions > 0
               PROVE  Cardinality(Book') <= MaxPositions + k2
    <3>1. (BookCap <=> (MaxPositions > 0 => Cardinality(Book) <= MaxPositions + Unseen))'
      BY UnseenTotal, PTL
    <3> QED BY <1>2, <3>1
  <2>1. MaxPositions \in Nat
    BY BoundsAssumption
  <2>2. Cardinality(Book) <= MaxPositions + k
    BY <1>2, UnseenTotal DEF CapInv, BookCap
  <2> QED BY <1>2, <1>3, <2>1, <2>2, CapGrows
<1>5. ASSUME NEW p \in Runs, pc'[p] # "idle" PROVE Cardinality((Book \ Held(p))') <= Unseen'
  <2>1. Held(p)' = Held(p) /\ pc[p] # "idle"
    BY <1>5 DEF Held, Settles, local
  <2>2. PICK B \in SUBSET Symbols, B2 \in SUBSET Symbols : B = Book \ Held(p) /\ B2 = (Book \ Held(p))'
    BY <1>3
  <2>3. Cardinality(B) <= 0 + k
    BY <1>2, <2>1, <2>2, SymbolSets DEF CapInv
  <2>4. B2 \subseteq B \/ (B2 \subseteq B \cup {s} /\ k + 1 <= k2)
    BY <1>2, <2>1, <2>2
  <2>5. Cardinality(B2) <= 0 + k2
    BY <1>2, <2>3, <2>4, CapGrows
  <2> QED BY <1>2, <2>2, <2>5
<1>6. ASSUME NEW p \in Runs, MaxPositions > 0, pc'[p] = "submit", act'[p].action = "buy"
      PROVE  Cardinality(Held(p)') < MaxPositions
  <2>1. Held(p)' = Held(p) /\ act'[p] = act[p] /\ pc[p] = "submit"
    BY <1>6 DEF Held, Settles, local
  <2> QED BY <1>6, <2>1 DEF CapInv
<1> QED BY <1>4, <1>5, <1>6 DEF CapInv

\* A union of two sets of symbols.
LEMMA SymbolUnion ==
  ASSUME NEW A \in SUBSET Symbols, NEW B \in SUBSET Symbols, NEW C \in SUBSET (A \cup B)
  PROVE  Cardinality(C) <= Cardinality(A) + Cardinality(B)
<1>1. /\ IsFiniteSet(A) /\ IsFiniteSet(B) /\ IsFiniteSet(A \cup B)
      /\ Cardinality(A) \in Nat /\ Cardinality(B) \in Nat /\ Cardinality(A \cap B) \in Nat
      /\ Cardinality(A \cup B) \in Nat /\ Cardinality(C) \in Nat
  BY SymbolSets
<1>2. Cardinality(A \cup B) = Cardinality(A) + Cardinality(B) - Cardinality(A \cap B)
  BY <1>1, FS_Union
<1>3. Cardinality(C) <= Cardinality(A \cup B)
  BY <1>1, FS_Subset
<1> QED BY <1>1, <1>2, <1>3

\* An order that was heard of: an entry joins the run's positions, an exit
\* leaves them and the book.
LEMMA CapHeard ==
  ASSUME TypeOK, LotInv, CapInv, NEW p \in Runs, pc[p] = "submit", "short" \notin Faults,
         NEW s \in Symbols, s = act[p].symbol, NEW a \in {"buy", "sell"}, a = act[p].action,
         Accepts(Coid(s, a), 1), orders' = [orders EXCEPT ![Coid(s, a)] = Sent(1, TRUE)],
         UNCHANGED pos, view' = [view EXCEPT ![p][s] = IF a = "buy" THEN 1 ELSE 0]
  PROVE  BookCap' /\ Cardinality((Book \ Held(p))') <= Unseen'
<1> DEFINE c == Coid(s, a)
<1>1. /\ c \in Ids /\ c[1] = s /\ c[2] = a
      /\ orders[c].st = "none" /\ orders'[c].st = "live" /\ orders'[c].heard
      /\ \A d \in Ids \ {c} : orders'[d] = orders[d]
  BY DEF Coid, Ids, Actions, TypeOK, Accepts, Sent
<1>2. /\ view'[p][s] = (IF a = "buy" THEN 1 ELSE 0)
      /\ \A r \in Symbols \ {s} : view'[p][r] = view[p][r]
  <2>1. view'[p] = [view[p] EXCEPT ![s] = IF a = "buy" THEN 1 ELSE 0] /\ view[p] \in [Symbols -> Int]
    BY DEF TypeOK
  <2> QED BY <2>1
<1> HIDE DEF c
<1>3. Dead("sell")' = Dead("sell") /\ Unheard' = Unheard
  BY <1>1 DEF Dead, Unheard
<1>4. PICK k \in Nat : k = Unseen /\ k = Unseen'
  BY <1>3, UnseenGrows DEF Unseen
<1>5. PICK B \in SUBSET Symbols, B2 \in SUBSET Symbols, H \in SUBSET Symbols, H2 \in SUBSET Symbols :
        B = Book /\ B2 = Book' /\ H = Held(p) /\ H2 = Held(p)'
  BY DEF Book, Held
<1>6. Cardinality(B \ H) <= k
  BY <1>4, <1>5 DEF CapInv
<1>7. MaxPositions > 0 => Cardinality(B) <= MaxPositions + k
  BY <1>4, <1>5, UnseenTotal DEF CapInv
<1>8. SUFFICES Cardinality(B2 \ H2) <= k /\ (MaxPositions > 0 => Cardinality(B2) <= MaxPositions + k)
  <2>1. (BookCap <=> (MaxPositions > 0 => Cardinality(Book) <= MaxPositions + Unseen))'
    BY UnseenTotal, PTL
  <2> QED BY <1>4, <1>5, <2>1
<1>9. \A r \in Symbols \ {s} : r \in B2 <=> r \in B
  <2> SUFFICES ASSUME NEW r \in Symbols \ {s} PROVE r \in B2 <=> r \in B
    OBVIOUS
  <2>1. LiveOf(r, "buy")' = LiveOf(r, "buy") /\ LiveOf(r, "sell")' = LiveOf(r, "sell")
    <3>1. \A d \in Ids : d[1] = r => orders'[d] = orders[d]
      BY <1>1
    <3> QED BY <3>1 DEF LiveOf
  <2> QED BY <1>5, <2>1 DEF Book
<1>10. MaxPositions \in Nat
  BY BoundsAssumption
<1>11. Cardinality(B \ H) \in Nat /\ Cardinality(B2 \ H2) \in Nat /\ Cardinality(B) \in Nat /\ Cardinality(H) \in Nat
  BY SymbolSets
<1>12. CASE a = "buy"
  <2>1. H2 = H \cup {s}
    BY <1>2, <1>5, <1>12 DEF Held
  <2>2. B2 \ H2 \subseteq B \ H
    BY <1>9, <2>1
  <2>3. Cardinality(B2 \ H2) <= k
    BY <1>4, <1>6, <1>11, <2>2, SymbolSets, FS_Subset
  <2>4. ASSUME MaxPositions > 0 PROVE Cardinality(B2) <= MaxPositions + k
    <3>1. Cardinality(H) < MaxPositions
      BY <1>5, <1>12, <2>4 DEF CapInv
    <3>2. Cardinality({s}) = 1
      BY FS_Singleton
    <3>3. Cardinality(H2) <= Cardinality(H) + Cardinality({s})
      BY <2>1, SymbolUnion
    <3>4. Cardinality(B2) <= Cardinality(H2) + Cardinality(B \ H)
      BY <1>9, <2>1, SymbolUnion
    <3>5. Cardinality(H2) \in Nat /\ Cardinality(B2) \in Nat
      BY SymbolSets
    <3> QED BY <1>4, <1>6, <1>10, <1>11, <3>1, <3>2, <3>3, <3>4, <3>5
  <2> QED BY <2>3, <2>4
<1>13. CASE a = "sell"
  <2>1. pos[s] # 0
    BY <1>1, <1>13 DEF Accepts, c, TypeOK
  <2>2. LiveOf(s, "buy")' = {}
    <3>1. \A d \in Ids : d[2] = "buy" => orders'[d] = orders[d]
      BY <1>1, <1>13
    <3>2. LiveOf(s, "buy") = {}
      BY <2>1, HeldNotBought
    <3> QED BY <3>1, <3>2 DEF LiveOf
  <2>3. c \in LiveOf(s, "sell")'
    BY <1>1, <1>13 DEF LiveOf
  <2>4. s \notin B2
    BY <1>5, <2>2, <2>3 DEF Book
  <2>5. B2 \subseteq B /\ B2 \ H2 \subseteq B \ H
    <3>1. \A r \in Symbols \ {s} : r \in H2 <=> r \in H
      BY <1>2, <1>5 DEF Held
    <3> QED BY <1>9, <2>4, <3>1
  <2>6. Cardinality(B2) <= Cardinality(B) /\ Cardinality(B2 \ H2) <= Cardinality(B \ H)
    BY <2>5, SymbolSets, FS_Subset
  <2>7. Cardinality(B2) \in Nat
    BY SymbolSets
  <2> QED BY <1>4, <1>6, <1>7, <1>10, <1>11, <2>6, <2>7
<1> QED BY <1>12, <1>13

\* An order whose reply was lost: the book gains an entry that is unseen.
LEMMA CapLost ==
  ASSUME TypeOK, LotInv, CapInv, NEW p \in Runs, pc[p] = "submit", "short" \notin Faults,
         NEW s \in Symbols, s = act[p].symbol, NEW a \in {"buy", "sell"}, a = act[p].action,
         Accepts(Coid(s, a), 1), orders' = [orders EXCEPT ![Coid(s, a)] = Sent(1, FALSE)],
         UNCHANGED <<pos, view>>
  PROVE  BookCap' /\ Cardinality((Book \ Held(p))') <= Unseen'
<1> DEFINE c == Coid(s, a)
<1>1. /\ c \in Ids /\ c[1] = s /\ c[2] = a
      /\ orders[c].st = "none" /\ orders'[c].st = "live" /\ ~orders'[c].heard
      /\ \A d \in Ids \ {c} : orders'[d] = orders[d]
  BY DEF Coid, Ids, Actions, TypeOK, Accepts, Sent
<1>2. a = "sell" => pos[s] # 0
  BY DEF Accepts, Coid, TypeOK
<1> HIDE DEF c
<1>3. Dead("sell")' = Dead("sell") /\ Unheard \subseteq Unheard' /\ (a = "buy" => Unheard' # Unheard)
  <2>1. Dead("sell")' = Dead("sell") /\ Unheard \subseteq Unheard'
    BY <1>1 DEF Dead, Unheard
  <2>2. a = "buy" => c \in Unheard' /\ c \notin Unheard
    BY <1>1 DEF Unheard
  <2> QED BY <2>1, <2>2
<1>4. PICK k \in Nat, k2 \in Nat : k = Unseen /\ k2 = Unseen' /\ k <= k2 /\ (a = "buy" => k + 1 <= k2)
  BY <1>3, UnseenGrows
<1>5. PICK B \in SUBSET Symbols, B2 \in SUBSET Symbols, H \in SUBSET Symbols :
        B = Book /\ B2 = Book' /\ H = Held(p) /\ H = Held(p)'
  BY DEF Book, Held
<1>6. B2 \subseteq B \cup {s}
  <2> SUFFICES ASSUME NEW r \in Symbols \ {s}, r \in B2 PROVE r \in B
    OBVIOUS
  <2>1. \A d \in Ids : d[1] = r => orders'[d] = orders[d]
    BY <1>1
  <2>2. LiveOf(r, "buy")' = LiveOf(r, "buy") /\ LiveOf(r, "sell")' = LiveOf(r, "sell")
    BY <2>1 DEF LiveOf
  <2> QED BY <1>5, <2>2 DEF Book
<1>7. a = "sell" => s \notin B2
  <2> SUFFICES ASSUME a = "sell" PROVE s \notin B2
    OBVIOUS
  <2>1. c \in LiveOf(s, "sell")'
    BY <1>1 DEF LiveOf
  <2>2. \A d \in Ids : d[2] = "buy" => orders'[d] = orders[d]
    BY <1>1
  <2>3. LiveOf(s, "buy")' = {}
    BY <1>2, <2>2, HeldNotBought DEF LiveOf
  <2> QED BY <1>5, <2>1, <2>3 DEF Book
<1>8. Cardinality(B2 \ H) <= 0 + k2
  <2>1. Cardinality(B \ H) <= 0 + k
    <3>1. Cardinality(B \ H) <= k
      BY <1>4, <1>5 DEF CapInv
    <3> QED BY <3>1
  <2>2. B2 \ H \subseteq B \ H \/ (B2 \ H \subseteq (B \ H) \cup {s} /\ k + 1 <= k2)
    BY <1>4, <1>6, <1>7
  <2>3. k <= k2
    BY <1>4
  <2> QED BY <2>1, <2>2, <2>3, CapGrows
<1>9. MaxPositions > 0 => Cardinality(B2) <= MaxPositions + k2
  <2> SUFFICES ASSUME MaxPositions > 0 PROVE Cardinality(B2) <= MaxPositions + k2
    OBVIOUS
  <2>0. PICK n \in Nat : n = MaxPositions
    BY BoundsAssumption
  <2>1. Cardinality(B) <= n + k
    BY <1>4, <1>5, <2>0, UnseenTotal DEF CapInv
  <2>2. B2 \subseteq B \/ (B2 \subseteq B \cup {s} /\ k + 1 <= k2)
    BY <1>4, <1>6, <1>7
  <2>3. k <= k2
    BY <1>4
  <2>4. Cardinality(B2) <= n + k2
    BY <2>1, <2>2, <2>3, CapGrows
  <2> QED BY <2>0, <2>4
<1>10. (BookCap <=> (MaxPositions > 0 => Cardinality(Book) <= MaxPositions + Unseen))'
  BY UnseenTotal, PTL
<1> QED BY <1>4, <1>5, <1>8, <1>9, <1>10

LEMMA CapNext ==
  ASSUME TypeOK, OnceInv, LotInv, CapInv, [Next]_vars, Sequential
  PROVE  CapInv'
<1> USE DEF Goto
<1>0. {"overlap", "late", "short"} \cap Faults = {}
  BY DEF Sequential, Switches
<1>a. \A p \in Runs : pc[p] # "idle" => \A q \in Runs \ {p} : pc[q] = "idle"
  BY AloneRun, <1>0 DEF OnceInv
\* a step of one run is a step of the only run under way
<1>1. ASSUME NEW p \in Runs, \A q \in Runs \ {p} : pc'[q] = "idle", BookCap',
             pc'[p] # "idle" => Cardinality((Book \ Held(p))') <= Unseen',
             MaxPositions > 0 /\ pc'[p] = "submit" /\ act'[p].action = "buy" =>
               Cardinality(Held(p)') < MaxPositions
      PROVE  CapInv'
  <2>1. ASSUME NEW q \in Runs
        PROVE  /\ pc'[q] # "idle" => Cardinality((Book \ Held(q))') <= Unseen'
               /\ MaxPositions > 0 /\ pc'[q] = "submit" /\ act'[q].action = "buy" =>
                    Cardinality(Held(q)') < MaxPositions
    <3>1. CASE q = p
      BY <1>1, <3>1
    <3>2. CASE q # p
      BY <1>1, <3>2
    <3> QED BY <3>1, <3>2
  <2> QED BY <1>1, <2>1 DEF CapInv
<1>2. ASSUME UNCHANGED <<orders, pos>> PROVE Book' = Book /\ Unseen' = Unseen /\ BookCap'
  <2>1. Book' = Book /\ Dead("sell")' = Dead("sell") /\ Unheard' = Unheard
    BY <1>2 DEF Book, LiveOf, Dead, Unheard
  <2> QED BY <2>1 DEF CapInv, BookCap, Unseen
\* one that leaves the broker and the run's positions alone
<1>3. ASSUME NEW p \in Runs, pc[p] # "idle", UNCHANGED <<orders, pos>>,
             \A q \in Runs \ {p} : pc'[q] = pc[q], view'[p] = view[p],
             MaxPositions > 0 /\ pc'[p] = "submit" /\ act'[p].action = "buy" =>
               Cardinality(Held(p)) < MaxPositions
      PROVE  CapInv'
  <2>1. Book' = Book /\ Unseen' = Unseen /\ BookCap' /\ Held(p)' = Held(p)
    BY <1>2, <1>3 DEF Held
  <2>2. Cardinality((Book \ Held(p))') <= Unseen'
    BY <1>3, <2>1 DEF CapInv
  <2> QED BY <1>1, <1>3, <1>a, <2>1, <2>2
<1>4. ASSUME NEW p \in Runs, Begin(p) PROVE CapInv'
  <2>1. /\ NothingLive /\ UNCHANGED <<orders, pos>> /\ \A q \in Runs : pc[q] = "idle"
        /\ view'[p] = pos /\ pc'[p] \in {"snapshot", "stale"} /\ \A q \in Runs \ {p} : pc'[q] = pc[q]
    BY <1>0, <1>4 DEF Begin, broker, TypeOK
  <2>2. (Book \ Held(p))' = {}
    BY <2>1 DEF Book, Held, NothingLive, LiveOf
  <2>3. Unseen' \in Nat
    <3>1. Unseen \in Nat
      BY UnseenTotal DEF Unseen
    <3> QED BY <1>2, <2>1, <3>1
  <2>4. Cardinality((Book \ Held(p))') <= Unseen'
    BY <2>2, <2>3, FS_EmptySet
  <2> QED BY <1>1, <1>2, <2>1, <2>4
<1>5. ASSUME NEW p \in Runs,
             \/ Stale(p) \/ Reconcile(p) \/ Untracked(p) \/ Adopt(p) \/ Snapshot(p)
             \/ Hold(p) \/ DecideExit(p) \/ Record(p)
      PROVE  CapInv'
  <2>1. CASE Stale(p) \/ Reconcile(p) \/ Untracked(p) \/ Adopt(p) \/ Snapshot(p) \/ Hold(p) \/ Record(p)
    <3>1. CASE Stale(p) \/ Reconcile(p)
      <4>1. /\ pc[p] # "idle" /\ UNCHANGED <<orders, pos, view>> /\ pc'[p] # "submit"
            /\ \A q \in Runs \ {p} : pc'[q] = pc[q]
        BY <3>1 DEF Stale, Reconcile, broker, TypeOK
      <4> QED BY <1>3, <4>1
    <3>2. CASE Untracked(p) \/ Adopt(p)
      <4>1. /\ pc[p] # "idle" /\ UNCHANGED <<orders, pos, view>> /\ pc'[p] # "submit"
            /\ \A q \in Runs \ {p} : pc'[q] = pc[q]
        BY <3>2 DEF Untracked, Adopt, broker, TypeOK
      <4> QED BY <1>3, <4>1
    <3>3. CASE Snapshot(p) \/ Hold(p) \/ Record(p)
      <4>1. /\ pc[p] # "idle" /\ UNCHANGED <<orders, pos, view>> /\ pc'[p] # "submit"
            /\ \A q \in Runs \ {p} : pc'[q] = pc[q]
        BY <3>3 DEF Snapshot, Hold, Record, broker, TypeOK
      <4> QED BY <1>3, <4>1
    <3> QED BY <2>1, <3>1, <3>2, <3>3
  <2>2. CASE DecideExit(p)
    <3>1. /\ pc[p] # "idle" /\ UNCHANGED <<orders, pos, view>> /\ act'[p].action # "buy"
          /\ \A q \in Runs \ {p} : pc'[q] = pc[q]
      BY <2>2 DEF DecideExit, broker, TypeOK
    <3> QED BY <1>3, <3>1
  <2> QED BY <1>5, <2>1, <2>2
<1>6. ASSUME NEW p \in Runs, DecideEntry(p) PROVE CapInv'
  <2>1. /\ pc[p] # "idle" /\ UNCHANGED <<orders, pos, view>> /\ CapAllows(p)
        /\ \A q \in Runs \ {p} : pc'[q] = pc[q]
    BY <1>6 DEF DecideEntry, broker, TypeOK
  <2>2. MaxPositions > 0 => Cardinality(Held(p)) < MaxPositions
    BY <2>1 DEF CapAllows
  <2> QED BY <1>3, <2>1, <2>2
<1>7. ASSUME NEW p \in Runs, CancelLegs(p) PROVE CapInv'
  <2>1. /\ pc[p] = "cancel" /\ act[p].action # "buy" /\ \A q \in Runs \ {p} : pc'[q] = pc[q]
    BY <1>7 DEF CancelLegs, TypeOK, LotInv, Acts, Acting
  <2> QED BY <1>7, <2>1, CancelSettles, CapSettles
<1>8. ASSUME NEW p \in Runs, Submit(p) PROVE CapInv'
  <2>1. /\ pc[p] = "submit" /\ UNCHANGED <<pos, act>> /\ pc'[p] \in {"record", "trade"}
        /\ \A q \in Runs \ {p} : pc'[q] = pc[q]
    BY <1>8 DEF Submit, TypeOK
  <2>2. PICK s \in Symbols, a \in {"buy", "sell"} : s = act[p].symbol /\ a = act[p].action /\ act[p].qty = 1
    BY <2>1 DEF LotInv, Acts, Acting
  <2>3. \/ /\ Accepts(Coid(s, a), 1) /\ orders' = [orders EXCEPT ![Coid(s, a)] = Sent(1, TRUE)]
           /\ view' = [view EXCEPT ![p][s] = IF a = "buy" THEN 1 ELSE 0]
        \/ /\ Accepts(Coid(s, a), 1) /\ orders' = [orders EXCEPT ![Coid(s, a)] = Sent(1, FALSE)]
           /\ view' = view
        \/ UNCHANGED <<orders, view>>
    BY <1>8, <2>2 DEF Submit
  <2>4. CASE /\ Accepts(Coid(s, a), 1) /\ orders' = [orders EXCEPT ![Coid(s, a)] = Sent(1, TRUE)]
             /\ view' = [view EXCEPT ![p][s] = IF a = "buy" THEN 1 ELSE 0]
    <3>1. BookCap' /\ Cardinality((Book \ Held(p))') <= Unseen'
      BY <1>0, <2>1, <2>2, <2>4, CapHeard
    <3>2. pc'[p] # "submit" /\ \A q \in Runs \ {p} : pc'[q] = "idle"
      BY <1>a, <2>1
    <3> QED BY <1>1, <3>1, <3>2
  <2>5. CASE /\ Accepts(Coid(s, a), 1) /\ orders' = [orders EXCEPT ![Coid(s, a)] = Sent(1, FALSE)]
             /\ view' = view
    <3>1. BookCap' /\ Cardinality((Book \ Held(p))') <= Unseen'
      BY <1>0, <2>1, <2>2, <2>5, CapLost
    <3>2. pc'[p] # "submit" /\ \A q \in Runs \ {p} : pc'[q] = "idle"
      BY <1>a, <2>1
    <3> QED BY <1>1, <3>1, <3>2
  <2>6. CASE UNCHANGED <<orders, view>>
    BY <1>3, <2>1, <2>6
  <2> QED BY <2>3, <2>4, <2>5, <2>6
<1>9. ASSUME NEW p \in Runs, Finish(p) \/ Crash(p) PROVE CapInv'
  <2>1. /\ pc[p] # "idle" /\ UNCHANGED <<orders, pos>> /\ pc'[p] = "idle"
        /\ \A q \in Runs \ {p} : pc'[q] = pc[q]
    BY <1>9 DEF Finish, Crash, AtRest, broker, TypeOK
  <2> QED BY <1>1, <1>2, <1>a, <2>1
<1>10. ASSUME \/ \E c \in Ids : Fill(c) \/ StopFires(c) \/ OrderDies(c)
              \/ \E s \in Symbols : ManualClose(s)
       PROVE  CapInv'
  BY <1>10, EnvironmentSettles, CapSettles
<1>11. CASE NewDay \/ UNCHANGED vars
  <2>1. UNCHANGED <<orders, pos, pc, view, act>>
    BY <1>11 DEF NewDay, vars, broker, local
  <2>2. Book' = Book /\ Unseen' = Unseen /\ BookCap' /\ \A p \in Runs : Held(p)' = Held(p)
    BY <1>2, <2>1 DEF Held
  <2> QED BY <2>1, <2>2 DEF CapInv
<1> QED
  BY <1>4, <1>5, <1>6, <1>7, <1>8, <1>9, <1>10, <1>11 DEF Next, Step

\* The cap on open positions (risk.max_open_positions) holds of the book, save
\* for one for every entry whose reply was lost and every exit that died, for
\* cycles and scans one after the other.
THEOREM CapHeld == Sequential => (Spec => []BookCap)
<1> SUFFICES ASSUME Sequential PROVE Spec => []BookCap
  OBVIOUS
<1>1. Init => CapInv
  <2> SUFFICES ASSUME Init PROVE CapInv
    OBVIOUS
  <2>1. Book = {}
    BY DEF Init, Flat, Book, LiveOf, NoOrder
  <2>2. Cardinality(Book) = 0
    BY <2>1, FS_EmptySet
  <2>3. MaxPositions > 0 => Cardinality(Book) <= MaxPositions + Unseen
    BY <2>2, UnseenTotal, BoundsAssumption DEF Unseen
  <2>4. \A p \in Runs : pc[p] = "idle"
    BY DEF Init
  <2> QED BY <2>3, <2>4, UnseenTotal DEF CapInv
<1>2. TypeOK /\ OnceInv /\ LotInv /\ CapInv /\ [Next]_vars => CapInv'
  BY CapNext
<1>3. CapInv => BookCap
  BY DEF CapInv
<1> QED
  BY <1>1, <1>2, <1>3, SequentialHolds, PTL DEF Spec
=============================================================================
