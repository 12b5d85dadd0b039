-------------------------------- MODULE Simulator --------------------------------
(***************************************************************************)
(* The two historical simulators of src/backtest.py, simulate (one         *)
(* strategy, long only) and simulate_ensemble (several strategies, shorts, *)
(* margin, a census of every signal), over the same bars.                  *)
(*                                                                         *)
(* A bar is handled in order: the orders of earlier bars are filled at its *)
(* open, the legs of the positions are looked at, the strategies look at   *)
(* its close, the book is marked.  What a strategy says, the size of an    *)
(* order and the verdict of the rails are choices; when both simulators    *)
(* run they get the same ones, as they call the same functions.  Prices    *)
(* and slippage are integers.                                              *)
(***************************************************************************)
EXTENDS Integers, Sequences, FiniteSets, FiniteSetsExt, Functions

CONSTANTS
  Order,         \* the symbols, in the order they are scanned
  Ensemble,      \* the enabled strategies, by priority
  DayBars,       \* daily bars: open, low, high, close
  NoBar,         \* a symbol that has none today
  Sides,         \* the entries a strategy may ask for
  Sizes,         \* shares of an order
  Rails,         \* what may refuse an entry when it would fill
  Filters,       \* what may refuse a signal
  Slip, Fee, StartCash,
  Cap,           \* max_trades_per_day
  MinDays,       \* min_holding_days
  Cooldown,      \* days out after an exit
  EntryCap,      \* max_entries_per_cycle
  Width, Reach,  \* distance of stop and take-profit, 0 for none
  Trail,         \* distance of the trailing stop
  Trailing,      \* strategies whose stop trails
  Charge,        \* a day's interest on borrowed cash
  MaxBars        \* bound: the length of the history

VARIABLES
  both,          \* does simulate run beside simulate_ensemble?
  t,             \* the bar
  today,         \* of each symbol
  phase,         \* "open", "legs", "close", "mark", "done", "raised"
  todo,          \* what the phase still has to handle
  ens, solo      \* the books of the two

sim == <<both, t, today, phase, todo, ens, solo>>

Symbols == Range(Order)
Owners == Range(Ensemble)
Flat == [qty |-> 0]
Reasons == Rails \cup Filters \cup
  {"daily_cap", "already_held", "cooldown", "unprotectable_entry", "entry_cap", "expired_unfilled"}
Entries == {"buy", "short"}
Fine == "fine"     \* nothing refuses

\* What a run is given: symbols and strategies listed once, bars of numbers,
\* orders of a share at least.
SimulatorConstants ==
  /\ Order \in Seq(Symbols) /\ Ensemble \in Seq(Owners) /\ Ensemble # <<>>
  /\ IsInjective(Order) /\ IsInjective(Ensemble)
  /\ DayBars \subseteq [open : Int, low : Int, high : Int, close : Int]
  /\ Sizes \subseteq Nat \ {0}
  /\ IsFiniteSet(Rails) /\ IsFiniteSet(Filters)
  /\ {Slip, Fee, StartCash, Width, Reach, Trail, Charge} \subseteq Int

NewBook ==
  [cash |-> StartCash, pos |-> [s \in Symbols |-> Flat], pending |-> <<>>, fills |-> 0,
   last_exit |-> [s \in Symbols |-> [n \in Owners |-> 0]], closed |-> <<>>,
   signals |-> 0, executed |-> 0, blocked |-> [r \in Reasons |-> 0], paid |-> 0,
   queued |-> [n \in Owners |-> 0]]

HeldIn(b) == {s \in Symbols : b.pos[s] # Flat}
Block(b, r) == [b EXCEPT !.blocked[r] = @ + 1]

-----------------------------------------------------------------------------
(* Entries and exits.                                                      *)

\* A bug: a cover pays what a sale would bring, without its slippage.
_exitFree(b, s, price, reason) ==
  LET p == b.pos[s]
      fill == IF p.qty < 0 THEN price + Slip ELSE price - Slip
  IN [b EXCEPT !.cash = @ + p.qty * price - Fee, !.pos[s] = Flat, !.last_exit[s][p.owner] = t,
               !.closed = Append(@, [symbol |-> s, owner |-> p.owner, qty |-> p.qty,
                                     from |-> p.at, entry |-> p.avg, to |-> t, exit |-> fill,
                                     reason |-> reason, raised |-> p.raised])]
\* The slippage costs in either direction.
_exit(b, s, price, reason) ==
  LET p == b.pos[s]
      fill == IF p.qty < 0 THEN price + Slip ELSE price - Slip
  IN [b EXCEPT !.cash = @ + p.qty * fill - Fee, !.pos[s] = Flat, !.last_exit[s][p.owner] = t,
               !.closed = Append(@, [symbol |-> s, owner |-> p.owner, qty |-> p.qty,
                                     from |-> p.at, entry |-> p.avg, to |-> t, exit |-> fill,
                                     reason |-> reason, raised |-> p.raised])]

\* The profit of a trade, its two fees paid.
pnl(trade) == (trade.exit - trade.entry) * trade.qty - 2 * Fee

Open(b, o, qty) ==
  LET dir == IF o.action = "short" THEN -1 ELSE 1
      fill == today[o.symbol].open + dir * Slip
      stop == fill - dir * Width
  IN [b EXCEPT !.cash = @ - (dir * qty * fill + Fee), !.fills = @ + 1, !.executed = @ + 1,
               !.pos[o.symbol] =
                 [qty |-> dir * qty, avg |-> fill, at |-> t, owner |-> o.owner, hw |-> fill,
                  stop |-> IF stop > 0 THEN stop ELSE 0, raised |-> 0,
                  tp |-> IF Reach = 0 \/ stop <= 0 THEN 0 ELSE fill + dir * Reach]]

\* simulate_ensemble at the open: an order of an earlier bar.
Fill(b, o, qty, rail) ==
  IF o.action \in Entries
  THEN IF b.fills >= Cap THEN Block(b, "daily_cap")
       ELSE IF o.symbol \in HeldIn(b) THEN Block(b, "already_held")
       ELSE IF rail \in Rails THEN Block(b, rail) ELSE Open(b, o, qty)
  ELSE IF o.symbol \in HeldIn(b)
  THEN [_exit(b, o.symbol, today[o.symbol].open, "strategy_sell") EXCEPT !.fills = @ + 1]
  ELSE b

\* simulate at the open.
FillSolo(b, o, qty, rail) ==
  IF o.action = "buy"
  THEN IF b.fills >= Cap \/ rail \in Rails THEN b ELSE Open(b, o, qty)
  ELSE IF o.symbol \in HeldIn(b)
  THEN [_exit(b, o.symbol, today[o.symbol].open, "strategy_sell") EXCEPT !.fills = @ + 1]
  ELSE b

-----------------------------------------------------------------------------
(* The legs: the stop before the take-profit, and the trail after both, so *)
(* that a stop raised by today's high cannot fire on today's low.          *)

trail(p, bar) ==
  LET hw == Max({p.hw, bar.high}) IN
  IF p.owner \in Trailing /\ hw - Trail > p.stop
  THEN [p EXCEPT !.hw = hw, !.stop = hw - Trail, !.raised = t]
  ELSE [p EXCEPT !.hw = IF p.owner \in Trailing THEN hw ELSE @]

StopHit(p, bar) ==
  p.stop > 0 /\ IF p.qty < 0 THEN bar.high >= p.stop ELSE bar.low <= p.stop
TpHit(p, bar) ==
  p.tp > 0 /\ IF p.qty < 0 THEN bar.low <= p.tp ELSE bar.high >= p.tp

Legs(b, s) ==
  LET p == b.pos[s]
      bar == today[s] IN
  IF s \notin HeldIn(b) THEN b
  ELSE IF StopHit(p, bar) THEN _exit(b, s, p.stop, "stop_loss")
  ELSE IF TpHit(p, bar) THEN _exit(b, s, p.tp, "take_profit")
  ELSE [b EXCEPT !.pos[s] = trail(p, bar)]

-----------------------------------------------------------------------------
(* The close.                                                              *)

Queue(b, s, action, n) ==
  [b EXCEPT !.pending = Append(@, [symbol |-> s, action |-> action, owner |-> n]),
            !.queued[n] = @ + (IF action \in Entries THEN 1 ELSE 0)]

cooldown_blocked(b, s, n) == b.last_exit[s][n] > 0 /\ t - b.last_exit[s][n] < Cooldown

\* A holding is looked at by its owner only, and not before its days are over.
Holding(b, s, leave) ==
  LET p == b.pos[s] IN
  IF leave /\ t - p.at >= MinDays
  THEN Queue(b, s, IF p.qty < 0 THEN "cover" ELSE "sell", p.owner) ELSE b

\* Why a signal is not queued, if it is not.
Refused(b, s, n, refuse) ==
  IF cooldown_blocked(b, s, n) THEN "cooldown"
  ELSE IF refuse \in Filters THEN refuse
  ELSE IF today[s].close <= Width THEN "unprotectable_entry"
  ELSE IF b.queued[n] >= EntryCap THEN "entry_cap"
  ELSE Fine

\* One strategy in its turn.  A filter that is about the market and not about
\* the strategy ends the turns, as an order does.
Market == {"credit", "macro"}
Offer(acc, s, n, want, refuse) ==
  LET b == [acc.book EXCEPT !.signals = @ + 1]
      why == Refused(b, s, n, refuse)
  IN IF acc.over \/ want \notin Entries THEN acc
     ELSE IF why = Fine THEN [book |-> Queue(b, s, want, n), over |-> TRUE]
     ELSE [book |-> Block(b, why), over |-> why \in Market]

Close(b, s, leave, wants, refuse) ==
  LET turn[i \in 0 .. Len(Ensemble)] ==
        IF i = 0 THEN [book |-> b, over |-> FALSE]
        ELSE Offer(turn[i - 1], s, Ensemble[i], wants[Ensemble[i]], refuse)
  IN IF s \in HeldIn(b) THEN Holding(b, s, leave) ELSE turn[Len(Ensemble)].book

\* simulate asks its one strategy.
CloseSolo(b, s, leave, want, refuse) ==
  LET n == Ensemble[1] IN
  IF s \in HeldIn(b) THEN Holding(b, s, leave)
  ELSE IF want = "buy" /\ Refused(b, s, n, refuse) = Fine THEN Queue(b, s, "buy", n) ELSE b

-----------------------------------------------------------------------------
\* A bar arrives.  Its day has no fills and no orders of its own yet.
NextBar(bars) ==
  /\ phase = "mark" /\ t < MaxBars
  /\ t' = t + 1 /\ today' = bars /\ phase' = "open"
  /\ LET fresh(b) == [b EXCEPT !.fills = 0, !.queued = [n \in Owners |-> 0], !.pending = <<>>]
     IN ens' = fresh(ens) /\ solo' = fresh(solo)
  /\ todo' = ens.pending
  /\ UNCHANGED both

\* An order of a symbol without a bar stays pending.
AtOpen(qty, rail) ==
  /\ phase = "open" /\ todo # <<>> /\ todo' = Tail(todo)
  /\ LET o == Head(todo)
         wait(b) == [b EXCEPT !.pending = Append(@, o)] IN
     IF today[o.symbol] = NoBar
     THEN ens' = wait(ens) /\ solo' = IF both THEN wait(solo) ELSE solo
     ELSE /\ ens' = Fill(ens, o, qty, rail)
          /\ solo' = IF both THEN FillSolo(solo, o, qty, rail) ELSE solo
  /\ UNCHANGED <<both, t, today, phase>>

Phase(from, to, items) ==
  /\ phase = from /\ todo = <<>> /\ phase' = to /\ todo' = items
  /\ UNCHANGED <<both, t, today, ens, solo>>

\* A symbol without a bar is passed over.
Skip ==
  /\ phase \in {"legs", "close"} /\ todo # <<>> /\ today[Head(todo)] = NoBar
  /\ todo' = Tail(todo)
  /\ UNCHANGED <<both, t, today, phase, ens, solo>>

\* The trail is not written for a short; the run is refused.
Unsupported(b, s) ==
  /\ s \in HeldIn(b) /\ b.pos[s].qty < 0 /\ b.pos[s].owner \in Trailing
  /\ ~StopHit(b.pos[s], today[s]) /\ ~TpHit(b.pos[s], today[s])

InLegs ==
  /\ phase = "legs" /\ todo # <<>> /\ today[Head(todo)] # NoBar
  /\ ~Unsupported(ens, Head(todo)) /\ todo' = Tail(todo)
  /\ ens' = Legs(ens, Head(todo))
  /\ solo' = IF both THEN Legs(solo, Head(todo)) ELSE solo
  /\ UNCHANGED <<both, t, today, phase>>

Refuse ==
  /\ phase = "legs" /\ todo # <<>> /\ today[Head(todo)] # NoBar /\ Unsupported(ens, Head(todo))
  /\ phase' = "raised" /\ todo' = <<>>
  /\ UNCHANGED <<both, t, today, ens, solo>>

\* simulate has no market filters: beside it they are off.
AtClose(leave, wants, refuse) ==
  /\ phase = "close" /\ todo # <<>> /\ today[Head(todo)] # NoBar /\ todo' = Tail(todo)
  /\ both => refuse \notin Market
  /\ ens' = Close(ens, Head(todo), leave, wants, refuse)
  /\ solo' = IF both THEN CloseSolo(solo, Head(todo), leave, wants[Ensemble[1]], refuse) ELSE solo
  /\ UNCHANGED <<both, t, today, phase>>

\* Borrowed cash is paid for.
Mark ==
  /\ phase = "close" /\ todo = <<>> /\ phase' = "mark"
  /\ ens' = IF ens.cash < 0 /\ ~both THEN [ens EXCEPT !.cash = @ - Charge, !.paid = @ + Charge] ELSE ens
  /\ UNCHANGED <<both, t, today, todo, solo>>

\* The entries among orders.
Asking(orders) == Cardinality({i \in DOMAIN orders : orders[i].action \in Entries})
Expire(b) ==
  [b EXCEPT !.blocked["expired_unfilled"] = @ + Asking(b.pending), !.pending = <<>>]

\* The history ends: what is open is sold at the last close.
Sold(b, s, price) == IF s \in HeldIn(b) THEN _exit(b, s, price, "end_of_data") ELSE b
Liquidate(b, last) ==
  LET left[i \in 0 .. Len(Order)] ==
        IF i = 0 THEN b ELSE Sold(left[i - 1], Order[i], last[Order[i]])
  IN left[Len(Order)]
End(last) ==
  /\ phase = "mark" /\ t > 0 /\ phase' = "done"
  /\ \A s \in Symbols : today[s] # NoBar => last[s] = today[s].close
  /\ ens' = Expire(Liquidate(ens, last))
  /\ solo' = IF both THEN [Liquidate(solo, last) EXCEPT !.pending = <<>>] ELSE solo
  /\ UNCHANGED <<both, t, today, todo>>

Init ==
  /\ both \in BOOLEAN
  /\ t = 0 /\ today = [s \in Symbols |-> NoBar] /\ phase = "mark" /\ todo = <<>>
  /\ ens = NewBook /\ solo = NewBook

Closes == {bar.close : bar \in DayBars}
\* With simulate beside it, the one strategy that is enabled goes long.
Answers ==
  IF both THEN {w \in [Owners -> {"hold", "buy"}] : \A n \in Owners : n # Ensemble[1] => w[n] = "hold"}
  ELSE {w \in [Owners -> {"hold"} \cup Entries] : \A n \in Owners : w[n] \in Sides[n] \cup {"hold"}}

Next ==
  \/ \E bars \in [Symbols -> DayBars \cup {NoBar}] : NextBar(bars)
  \/ \E qty \in Sizes, rail \in Rails \cup {Fine} : AtOpen(qty, rail)
  \/ Phase("open", "legs", Order) \/ InLegs \/ Refuse \/ Phase("legs", "close", Order) \/ Skip
  \/ \E leave \in BOOLEAN, wants \in Answers, refuse \in Filters \cup {Fine} :
       AtClose(leave, wants, refuse)
  \/ Mark
  \/ \E last \in [Symbols -> Closes] : End(last)

Spec == Init /\ [][Next]_sim

BookOK(b) ==
  /\ {b.cash, b.paid} \subseteq Int /\ {b.fills, b.signals, b.executed} \subseteq Nat
  /\ \A s \in HeldIn(b) : b.pos[s].owner \in Owners /\ b.pos[s].at \in 1 .. t /\ b.pos[s].stop \in Nat
  /\ \A i \in DOMAIN b.pending : b.pending[i].symbol \in Symbols /\ b.pending[i].owner \in Owners
  /\ b.blocked \in [Reasons -> Nat] /\ b.queued \in [Owners -> 0 .. EntryCap]
TypeOK ==
  /\ both \in BOOLEAN /\ t \in 0 .. MaxBars /\ today \in [Symbols -> DayBars \cup {NoBar}]
  /\ phase \in {"open", "legs", "close", "mark", "done", "raised"}
  /\ BookOK(ens) /\ BookOK(solo)

Total(f, S) == FoldFunctionOnSet(+, 0, f, S)

\* The books balance, long and short: the cash is what the run began with, the
\* profits of the closed trades and the cost of the open ones; and every
\* signal is an entry, a refusal with its reason, or an order still pending.
BooksBalance ==
  /\ \A b \in {ens, solo} :
       b.cash = StartCash - b.paid
                  + Total([i \in DOMAIN b.closed |-> pnl(b.closed[i])], DOMAIN b.closed)
                  - Total([s \in HeldIn(b) |-> b.pos[s].qty * b.pos[s].avg + Fee], HeldIn(b))
  /\ ens.signals = ens.executed + Total(ens.blocked, Reasons) + Asking(ens.pending)
                   + (IF phase = "open" THEN Asking(todo) ELSE 0)

\* One strategy, long only: the two simulators make the same trades.
SiblingsAgree ==
  both => /\ ens.closed = solo.closed /\ ens.pos = solo.pos
          /\ ens.cash = solo.cash /\ ens.pending = solo.pending

\* No trade ends at a stop that the bar it ends in had raised.
NoPeek ==
  \A b \in {ens, solo} : \A i \in DOMAIN b.closed :
    b.closed[i].reason = "stop_loss" => b.closed[i].raised < b.closed[i].to
=============================================================================
