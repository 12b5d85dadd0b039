------------------------------ MODULE RiskRails ------------------------------
(***************************************************************************)
(* The rails every order must pass (pre_trade_checks and pure_checks of    *)
(* src/risk.py) and the state they read: two files that outlive the cycle  *)
(* -- the equity peak and the day's trade count -- and two views a cycle   *)
(* takes at its start and keeps current by itself, of the positions and of *)
(* the open trades (_run_cycle of src/main.py).                            *)
(*                                                                         *)
(* Values are whole units: a position is a number of shares, negative when *)
(* short, and a price a small number.  Which signal, judge and size an     *)
(* entry comes from is a choice; the rails alone must keep the book        *)
(* within its limits.  HALT and the daily loss are HaltSwitch's subject.   *)
(***************************************************************************)
EXTENDS Integers, Sequences, FiniteSets, FiniteSetsExt, Functions

CONSTANTS
  Symbols,
  NoSector,
  SectorOf,       \* each symbol's sector
  StopAt,         \* the distance of its protective stop, 0 when it has none
  Configs,        \* risk sections of config.yaml
  Equities, Prices, Quantities,
  MaxCount,       \* bound: trades and entries counted in a day, a limit above the caps
  MaxCorruptions  \* bound: times a state file becomes unreadable

Entries == {"buy", "short"}
Exits   == {"sell", "cover"}

\* A limit of 0 disables its rail, except max_position_pct.
Limits == {"max_order_value_usd", "max_trades_per_day", "max_drawdown_pct",
           "max_open_positions", "max_per_strategy", "max_position_pct",
           "down_max_gross_pct", "net_max", "net_min", "max_per_sector",
           "max_portfolio_heat_pct", "risk_per_trade_pct", "min_holding_days"}

ASSUME SymbolsAssumption ==
  /\ IsFiniteSet(Symbols)
  /\ SectorOf \in [Symbols -> {SectorOf[s] : s \in Symbols}]
  /\ StopAt \in [Symbols -> Nat]
ASSUME ValuesAssumption ==
  /\ Equities \subseteq Nat \ {0} /\ Prices \subseteq Nat \ {0}
  /\ Quantities \subseteq Nat \ {0}
ASSUME ConfigsAssumption == Configs \subseteq [Limits -> Int]
ASSUME BoundsAssumption == MaxCount \in Nat \ {0} /\ MaxCorruptions \in Nat

\* What a state file holds beside the numbers the program writes in it.
Unseeded   == 0
Unreadable == -1

VARIABLES
  risk,         \* the configuration, chosen once
  price, down,  \* each symbol's price; is the regime a down one?
  peak,         \* memory/.equity_highwater.json
  count,        \* memory/.trade_counts.json, today's entry
  book,         \* the broker: shares held
  trades,       \* the ledger: each symbol's open trade
  age,          \* days since its entry_ts, by the calendar
  equity,       \* of the account, as the cycle read it
  positions,    \* the cycle's view of the book
  open_trades,  \* the cycle's view of the open trades
  early,        \* the trades entered at a later hour than the cycle's
  cycle, todo,  \* is a cycle trading, and the symbols it has yet to look at
  top,          \* ghost: the highest equity any cycle has read
  made,         \* ghost: entries made today
  corruptions, recount  \* recount: ghost, was today's count unreadable?

files  == <<peak, count>>
market == <<price, down, equity>>
views  == <<positions, open_trades>>
times  == <<age, early>>
ghosts == <<top, made, corruptions, recount>>
vars   == <<risk, market, files, book, trades, views, times, cycle, todo, ghosts>>

NoTrade == [action |-> "none", qty |-> 0, entry |-> 0, stop |-> 0]
Trade   == [action : Entries, qty : Quantities, entry : Prices, stop : Int] \cup {NoTrade}
Shares  == Quantities \cup {-q : q \in Quantities} \cup {0}

-----------------------------------------------------------------------------
(* The files.                                                              *)

Abs(n) == IF n < 0 THEN -n ELSE n
Higher(a, b) == IF a > b THEN a ELSE b

\* read_high_water: 0 before the file exists; an unreadable file is a peak
\* above every equity.
read_high_water == IF peak = Unseeded THEN 0 ELSE peak

\* A bug: the peak follows the equity down.
PeakFollows(e) == e

\* update_high_water: an unreadable file is reseeded from the equity.
PeakAfter(e) == IF peak = Unreadable THEN e ELSE Higher(read_high_water, e)

Ratchet(e) == peak' = IF risk["max_drawdown_pct"] # 0 THEN PeakAfter(e) ELSE peak

drawdown_over(e, p, pct) == p > 0 /\ (p - e) * 100 >= pct * p

\* _trades_today fails closed; record_trade counts from 0 over a file it
\* cannot read.
AtCapLate == count = Unreadable \/ count > risk["max_trades_per_day"]   \* a bug
AtCap == count = Unreadable \/ count >= risk["max_trades_per_day"]
OneMore(n) == IF n < MaxCount THEN n + 1 ELSE n
Counted == IF count = Unreadable THEN 1 ELSE OneMore(count)

-----------------------------------------------------------------------------
(* The rails.  An order is [action, symbol, qty]; they read the cycle's    *)
(* views and not the book.                                                 *)

Value(o) == o.qty * price[o.symbol]
MarketValue(s, view) == view[s] * price[s]
Held(view) == {s \in Symbols : view[s] # 0}
Gross(view) == SumFunction([s \in Symbols |-> Abs(MarketValue(s, view))])
Net(view)   == SumFunction([s \in Symbols |-> MarketValue(s, view)])
sector_open_count(symbol, view) ==
  Cardinality({s \in Held(view) \ {symbol} : SectorOf[s] = SectorOf[symbol]})

\* portfolio_heat: what the open trades lose if every stop is hit, in
\* hundredths of a unit.
PerTrade == equity * risk["risk_per_trade_pct"]
StopRisk(action, qty, entry, stop) ==
  LET dist == IF action = "short" THEN stop - entry ELSE entry - stop
  IN IF stop = 0 THEN PerTrade ELSE 100 * qty * Higher(dist, 0)
Risked(t) == IF t = NoTrade THEN 0 ELSE StopRisk(t.action, t.qty, t.entry, t.stop)
portfolio_heat(trs) == SumFunction([s \in Symbols |-> Risked(trs[s])])

\* bracket_prices: below the price of a long, above that of a short.
StopPrice(action, s) ==
  IF StopAt[s] = 0 THEN 0
  ELSE IF action = "short" THEN price[s] + StopAt[s] ELSE Higher(price[s] - StopAt[s], 0)

\* A rail that fires adds its name to the refusals; their order in the code
\* decides only which one the ledger names.
Rail(name, fires) == IF fires THEN {name} ELSE {}

drawdown(p) == risk["max_drawdown_pct"] # 0 /\ drawdown_over(equity, p, risk["max_drawdown_pct"])

EntryRails(o, p) ==
  LET view == positions
      new == o.symbol \notin Held(view)
      net == Net(view) + (IF o.action = "buy" THEN Value(o) ELSE -Value(o))
      mine == Cardinality({s \in Symbols : open_trades[s] # NoTrade})
  IN UNION {
    Rail("drawdown", drawdown(p)),
    Rail("max_open_positions", risk["max_open_positions"] # 0 /\ new
         /\ Cardinality(Held(view)) >= risk["max_open_positions"]),
    Rail("strategy_slots", risk["max_per_strategy"] # 0 /\ new /\ mine >= risk["max_per_strategy"]),
    Rail("position_cap", (Abs(MarketValue(o.symbol, view)) + Value(o)) * 100
                           > equity * risk["max_position_pct"]),
    Rail("regime_exposure", risk["down_max_gross_pct"] # 0 /\ down
         /\ (Gross(view) + Value(o)) * 100 > equity * risk["down_max_gross_pct"]),
    Rail("net_exposure",
         \/ o.action = "buy" /\ risk["net_max"] # 0 /\ net * 100 > equity * risk["net_max"]
         \/ o.action = "short" /\ risk["net_min"] # 0 /\ net * 100 < equity * risk["net_min"]),
    Rail("direction_conflict",
         \/ o.action = "short" /\ MarketValue(o.symbol, view) > 0
         \/ o.action = "buy" /\ MarketValue(o.symbol, view) < 0),
    Rail("sector_concentration", risk["max_per_sector"] # 0 /\ SectorOf[o.symbol] # NoSector
         /\ sector_open_count(o.symbol, view) >= risk["max_per_sector"]) }

ExitRails(o) ==
  Rail("desync_sell", o.action = "sell" /\ MarketValue(o.symbol, positions) <= 0)
  \cup Rail("desync_cover", o.action = "cover" /\ MarketValue(o.symbol, positions) >= 0)

pure_checks(o, p) ==
  Rail("zero_qty", o.qty <= 0)
  \cup Rail("order_value_cap",
            risk["max_order_value_usd"] # 0 /\ Value(o) > risk["max_order_value_usd"])
  \cup IF o.action \in Entries THEN EntryRails(o, p) ELSE ExitRails(o)

\* A bug, until 2026-08-02: the day's cap refuses exits too.
DailyCapAll(o) == risk["max_trades_per_day"] # 0 /\ AtCap
DailyCap(o) == o.action \in Entries /\ risk["max_trades_per_day"] # 0 /\ AtCap

Heat(o) ==
  /\ o.action \in Entries /\ risk["max_portfolio_heat_pct"] > 0
  /\ portfolio_heat(open_trades)
       + StopRisk(o.action, o.qty, price[o.symbol], StopPrice(o.action, o.symbol))
       > equity * risk["max_portfolio_heat_pct"]

\* Whole days are counted: one is over only at the hour of the entry.
DaysHeld(s) == IF s \in early THEN age[s] - 1 ELSE age[s]

swing_guard(o) ==
  /\ o.action \in Exits /\ risk["min_holding_days"] > 0 /\ open_trades[o.symbol] # NoTrade
  /\ DaysHeld(o.symbol) < risk["min_holding_days"]

\* The rails that refuse order o, with the peak p; HALT is HaltSwitch's and
\* the correlation cap reads bars.
pre_trade_checks(o, p) ==
  UNION {Rail("daily_cap", DailyCap(o)), pure_checks(o, p), Rail("heat", Heat(o)),
         Rail("swing_guard", swing_guard(o))}

\* The peak an order is checked against: pre_trade_checks ratchets it first.
PeakNow == IF risk["max_drawdown_pct"] # 0 THEN PeakAfter(equity) ELSE 0

-----------------------------------------------------------------------------
Init ==
  /\ risk \in Configs
  /\ price \in [Symbols -> Prices] /\ down = FALSE /\ equity \in Equities
  /\ peak = Unseeded /\ count = 0
  /\ book = [s \in Symbols |-> 0] /\ positions = book
  /\ trades = [s \in Symbols |-> NoTrade] /\ open_trades = trades
  /\ age = [s \in Symbols |-> 0] /\ early = {}
  /\ cycle = FALSE /\ todo = {}
  /\ top = 0 /\ made = 0 /\ corruptions = 0 /\ recount = FALSE

\* A cycle reads the account, the positions, the prices and the regime,
\* ratchets the peak, and reconciles the ledger with the positions.
Begin(e, p) ==
  /\ ~cycle
  /\ equity' = e /\ price' = p /\ down' \in BOOLEAN
  /\ Ratchet(e)
  /\ top' = Higher(top, e)
  /\ trades' = [s \in Symbols |-> IF book[s] = 0 THEN NoTrade ELSE trades[s]]
  /\ positions' = book /\ open_trades' = trades'
  /\ early' \in SUBSET {s \in Symbols : trades'[s] # NoTrade /\ age[s] > 0}
  /\ cycle' = TRUE /\ todo' = Symbols
  /\ UNCHANGED <<risk, count, book, age, made, corruptions, recount>>

Order(action, s, qty) == [action |-> action, symbol |-> s, qty |-> qty]
Signed(o) == IF o.action = "short" THEN -o.qty ELSE o.qty

\* A bug, until 2026-08-04: what is not a buy leaves the view.
ViewAfterBuy(o) == [positions EXCEPT ![o.symbol] = IF o.action = "buy" THEN o.qty ELSE 0]
\* A bug: the value of the position is kept for its shares.
ViewByValue(o) == [positions EXCEPT ![o.symbol] = IF o.action \in Entries THEN Signed(o) * price[o.symbol] ELSE 0]
ViewAfter(o) == [positions EXCEPT ![o.symbol] = IF o.action \in Entries THEN Signed(o) ELSE 0]

\* An entry on a symbol not held: a held one is its owner's alone.
Enter(o) ==
  /\ cycle /\ o.symbol \in todo /\ positions[o.symbol] = 0
  /\ pre_trade_checks(o, PeakNow) = {}
  /\ Ratchet(equity)
  /\ count' = Counted
  /\ book' = [book EXCEPT ![o.symbol] = Signed(o)]
  /\ positions' = ViewAfter(o)
  /\ LET t == [action |-> o.action, qty |-> o.qty, entry |-> price[o.symbol],
               stop |-> StopPrice(o.action, o.symbol)]
     IN trades' = [trades EXCEPT ![o.symbol] = t] /\ open_trades' = [open_trades EXCEPT ![o.symbol] = t]
  /\ age' = [age EXCEPT ![o.symbol] = 0] /\ early' = early \ {o.symbol}
  /\ todo' = todo \ {o.symbol}
  /\ made' = OneMore(made)
  /\ UNCHANGED <<risk, market, cycle, top, corruptions, recount>>

\* The full exit of a held symbol, by the sign of its position.
ExitOrder(s) == Order(IF positions[s] > 0 THEN "sell" ELSE "cover", s, Abs(positions[s]))

Exit(s) ==
  /\ cycle /\ s \in todo /\ positions[s] # 0
  /\ pre_trade_checks(ExitOrder(s), PeakNow) = {}
  /\ Ratchet(equity)
  /\ count' = Counted
  /\ book' = [book EXCEPT ![s] = 0]
  /\ positions' = ViewAfter(ExitOrder(s))
  /\ trades' = [trades EXCEPT ![s] = NoTrade]
  /\ open_trades' = [open_trades EXCEPT ![s] = NoTrade]
  /\ todo' = todo \ {s}
  /\ UNCHANGED <<risk, market, times, cycle, ghosts>>

\* A symbol passed over: no signal, or a refused order; a refusal behind the
\* day's cap has ratcheted the peak.
PassOver(s) ==
  /\ cycle /\ s \in todo
  /\ todo' = todo \ {s}
  /\ Ratchet(equity) \/ UNCHANGED peak
  /\ UNCHANGED <<risk, market, count, book, trades, views, times, cycle, ghosts>>

End ==
  /\ cycle /\ todo = {}
  /\ cycle' = FALSE
  /\ positions' = [s \in Symbols |-> 0] /\ open_trades' = [s \in Symbols |-> NoTrade]
  /\ early' = {}
  /\ UNCHANGED <<risk, market, files, book, trades, age, todo, ghosts>>

\* bound: past the holding period a day more makes no difference.
Older(n) == IF n <= risk["min_holding_days"] /\ risk["min_holding_days"] > 0 THEN n + 1 ELSE n

NewDay ==
  /\ ~cycle
  /\ count' = IF count = Unreadable THEN Unreadable ELSE 0
  /\ made' = 0 /\ recount' = (count = Unreadable)
  /\ age' = [s \in Symbols |-> IF trades[s] = NoTrade THEN 0 ELSE Older(age[s])]
  /\ UNCHANGED <<risk, market, peak, book, trades, views, early, cycle, todo, top, corruptions>>

\* Between cycles the broker fills a protective stop.
StopFills(s) ==
  /\ ~cycle /\ book[s] # 0
  /\ book' = [book EXCEPT ![s] = 0]
  /\ UNCHANGED <<risk, market, files, trades, views, times, cycle, todo, ghosts>>

\* docs/runbooks.md: after a review the operator removes the peak.
OperatorResets ==
  /\ ~cycle /\ peak # Unseeded
  /\ peak' = Unseeded /\ top' = 0
  /\ UNCHANGED <<risk, market, count, book, trades, views, times, cycle, todo, made, corruptions, recount>>

\* A file is damaged, by hand or by the disk.
Damage ==
  /\ corruptions < MaxCorruptions
  /\ corruptions' = corruptions + 1
  /\ \/ peak \notin {Unseeded, Unreadable} /\ peak' = Unreadable /\ UNCHANGED <<count, recount>>
     \/ count # Unreadable /\ count' = Unreadable /\ recount' = TRUE /\ UNCHANGED peak
  /\ UNCHANGED <<risk, market, book, trades, views, times, cycle, todo, top, made>>

Next ==
  \/ \E e \in Equities, p \in [Symbols -> Prices] : Begin(e, p)
  \/ \E s \in Symbols : Exit(s) \/ PassOver(s) \/ StopFills(s)
  \/ \E a \in Entries, s \in Symbols, q \in Quantities : Enter(Order(a, s, q))
  \/ End \/ NewDay \/ OperatorResets \/ Damage

Spec == Init /\ [][Next]_vars

-----------------------------------------------------------------------------
TypeOK ==
  /\ risk \in Configs /\ price \in [Symbols -> Prices] /\ down \in BOOLEAN
  /\ equity \in Equities
  /\ peak \in Equities \cup {Unseeded, Unreadable}
  /\ count \in 0 .. MaxCount \cup {Unreadable}
  /\ book \in [Symbols -> Shares] /\ positions \in [Symbols -> Shares]
  /\ trades \in [Symbols -> Trade] /\ open_trades \in [Symbols -> Trade]
  /\ age \in [Symbols -> Nat] /\ early \subseteq Symbols
  /\ cycle \in BOOLEAN /\ todo \subseteq Symbols
  /\ top \in Equities \cup {0} /\ made \in 0 .. MaxCount
  /\ corruptions \in 0 .. MaxCorruptions /\ recount \in BOOLEAN

Opens(s) == book[s] = 0 /\ book'[s] # 0

\* The limits hold of the real book after every entry, whatever the cycle did
\* before it: the account is read once and the views are the cycle's own, so
\* what it has already traded must count in them.
Within(bk, trs, s) ==
  LET held == {x \in Symbols : bk[x] # 0}
      worth(x) == bk[x] * price[x]
      gross == SumFunction([x \in Symbols |-> Abs(worth(x))])
      net == SumFunction([x \in Symbols |-> worth(x)])
      Limit(name, n) == risk[name] = 0 \/ n <= risk[name]
  IN /\ Abs(worth(s)) * 100 <= equity * risk["max_position_pct"]
     /\ Limit("max_open_positions", Cardinality(held))
     /\ Limit("max_per_strategy", Cardinality(held))
     /\ down => Limit("down_max_gross_pct", (gross * 100) \div equity)
     /\ bk[s] > 0 /\ risk["net_max"] # 0 => net * 100 <= equity * risk["net_max"]
     /\ bk[s] < 0 /\ risk["net_min"] # 0 => net * 100 >= equity * risk["net_min"]
     /\ SectorOf[s] # NoSector =>
          Limit("max_per_sector", Cardinality({x \in held : SectorOf[x] = SectorOf[s]}))
     /\ risk["max_portfolio_heat_pct"] > 0 =>
          portfolio_heat(trs) <= equity * risk["max_portfolio_heat_pct"]

LimitsHold == [][\A s \in Symbols : Opens(s) => Within(book', trades', s)]_vars

\* No rail traps a position: whatever the state of the files and of the other
\* rails, the exit of a held position is refused by nothing but the order
\* value cap and, until its holding period is over, the swing guard.
ExitsRun ==
  \A s \in todo : positions[s] # 0 =>
    LET refused == pre_trade_checks(ExitOrder(s), PeakNow)
    IN /\ refused \subseteq {"order_value_cap", "swing_guard"}
       /\ age[s] > risk["min_holding_days"] => "swing_guard" \notin refused

\* The day's entries stay within the cap that record_trade's counter keeps in
\* a file, unless that file became unreadable.
DailyCapHolds ==
  risk["max_trades_per_day"] > 0 /\ ~recount => made <= risk["max_trades_per_day"]

\* The drawdown breaker is a latch: once the account is max_drawdown_pct below
\* the highest equity a cycle has read, nothing is entered until the equity
\* is back or the operator resets the peak (docs/runbooks.md: "clearing it is
\* a human decision").
InDrawdown ==
  /\ risk["max_drawdown_pct"] # 0
  /\ drawdown_over(equity, top, risk["max_drawdown_pct"])
Latched == InDrawdown => \A s \in Symbols : ~Opens(s)

\* The same while no state file has been damaged.
LatchHoldsUndamaged == [][corruptions = 0 => Latched]_vars
=============================================================================
