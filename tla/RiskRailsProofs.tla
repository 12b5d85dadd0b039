--------------------------- MODULE RiskRailsProofs ---------------------------
(***************************************************************************)
(* Theorems about RiskRails and RailCensus for every finite set of symbols *)
(* and every set of prices, equities and risk sections: typing; that no    *)
(* rail traps a held position; that the day's cap binds as long as its     *)
(* file is readable; that the drawdown breaker is a latch as long as no    *)
(* file is damaged; that an entry leaves the book within every limit; and  *)
(* that the census of a refusal agrees with the checks that refused.       *)
(***************************************************************************)
EXTENDS RailCensus, FiniteSetTheorems, TLAPS

USE DEF Unseeded, Unreadable

-----------------------------------------------------------------------------
(* The helpers.                                                            *)

LEMMA HigherOne == ASSUME NEW a \in Int, NEW b \in Int
                   PROVE  /\ Higher(a, b) \in {a, b}
                          /\ Higher(a, b) >= a /\ Higher(a, b) >= b
  BY DEF Higher

LEMMA AbsPositive == ASSUME NEW n \in Int, n # 0
                     PROVE  Abs(n) \in Nat /\ Abs(n) > 0
  BY DEF Abs

LEMMA OneMoreBounded == ASSUME NEW n \in 0 .. MaxCount
                        PROVE  OneMore(n) \in 0 .. MaxCount
  BY BoundsAssumption DEF OneMore

LEMMA OneMoreMonotone == ASSUME NEW m \in Int, NEW n \in Int, m <= n
                         PROVE  OneMore(m) <= OneMore(n) /\ OneMore(m) <= m + 1
  BY BoundsAssumption DEF OneMore

LEMMA FiresNot == ASSUME NEW name, NEW fires, Rail(name, fires) = {}
                  PROVE  ~fires
  BY DEF Rail

\* The day's cap and the drawdown rail are among those an entry has passed.
LEMMA EntryPassed ==
  ASSUME NEW o, NEW p, o.action \in Entries, pre_trade_checks(o, p) = {}
  PROVE  ~DailyCap(o) /\ ~drawdown(p)
<1>1. Rail("daily_cap", DailyCap(o)) = {} /\ pure_checks(o, p) = {}
  BY DEF pre_trade_checks
<1>2. EntryRails(o, p) = {}
  BY <1>1 DEF pure_checks
<1>3. Rail("drawdown", drawdown(p)) \subseteq EntryRails(o, p)
  BY DEF EntryRails
<1> QED
  BY <1>1, <1>2, <1>3, FiresNot

-----------------------------------------------------------------------------
(* Typing.                                                                 *)

LEMMA PeakTyped == ASSUME TypeOK, NEW e \in Equities
                   PROVE  PeakAfter(e) \in Equities
<1>1. CASE peak = Unreadable
  BY <1>1 DEF PeakAfter
<1>2. CASE peak # Unreadable
  <2>1. peak \in Nat /\ e \in Nat /\ e > 0 /\ read_high_water = peak
    BY <1>2, ValuesAssumption DEF TypeOK, read_high_water
  <2>2. PeakAfter(e) = Higher(peak, e)
    BY <1>2, <2>1 DEF PeakAfter
  <2>3. CASE peak \in Equities
    BY <2>1, <2>2, <2>3, HigherOne
  <2>4. CASE peak = Unseeded
    BY <2>1, <2>2, <2>4 DEF Higher
  <2> QED
    BY <1>2, <2>3, <2>4 DEF TypeOK
<1> QED
  BY <1>1, <1>2

LEMMA RatchetTyped == ASSUME TypeOK, NEW e \in Equities, Ratchet(e)
                      PROVE  peak' \in Equities \cup {Unseeded, Unreadable}
  BY PeakTyped DEF Ratchet, TypeOK

LEMMA CountedTyped == ASSUME TypeOK
                      PROVE  Counted \in 0 .. MaxCount \cup {Unreadable}
  BY OneMoreBounded, BoundsAssumption DEF TypeOK, Counted

LEMMA EntryTyped == ASSUME NEW a \in Entries, NEW s \in Symbols, NEW q \in Quantities
                    PROVE  /\ Order(a, s, q).action = a /\ Order(a, s, q).symbol = s
                           /\ Order(a, s, q).qty = q /\ Signed(Order(a, s, q)) \in Shares
  BY ValuesAssumption DEF Order, Signed, Shares

LEMMA StopTyped == ASSUME TypeOK, NEW a, NEW s \in Symbols
                   PROVE  StopPrice(a, s) \in Int
<1>1. price[s] \in Int /\ StopAt[s] \in Int
  BY SymbolsAssumption, ValuesAssumption DEF TypeOK
<1> QED
  BY <1>1 DEF StopPrice, Higher

LEMMA SharesInt == ASSUME NEW n \in Shares PROVE n \in Int
<1>1. \A q \in Quantities : q \in Int /\ -q \in Int
  BY ValuesAssumption
<1> QED
  BY <1>1 DEF Shares

LEMMA NoTradeTyped == NoTrade \in Trade
  BY DEF Trade

\* Every variable keeps its type: the views and the ledger hold what the
\* book can hold, and the files what the program or their damage writes.
THEOREM RailsTyping == Spec => []TypeOK
<1>1. Init => TypeOK
  <2> SUFFICES ASSUME Init PROVE TypeOK
    OBVIOUS
  <2>1. book \in [Symbols -> Shares] /\ positions \in [Symbols -> Shares]
    BY DEF Init, Shares
  <2>2. trades \in [Symbols -> Trade] /\ open_trades \in [Symbols -> Trade]
    BY NoTradeTyped DEF Init
  <2>3. 0 \in 0 .. MaxCount /\ 0 \in 0 .. MaxCorruptions
    BY BoundsAssumption
  <2> QED
    BY <2>1, <2>2, <2>3 DEF Init, TypeOK
<1>2. TypeOK /\ [Next]_vars => TypeOK'
  <2> SUFFICES ASSUME TypeOK, [Next]_vars PROVE TypeOK'
    OBVIOUS
  <2> USE DEF vars, market, files, views, times, ghosts
  <2>1. ASSUME NEW e \in Equities, NEW p \in [Symbols -> Prices], Begin(e, p) PROVE TypeOK'
    <3>1. peak' \in Equities \cup {Unseeded, Unreadable}
      BY <2>1, RatchetTyped DEF Begin
    <3>2. trades' \in [Symbols -> Trade] /\ open_trades' \in [Symbols -> Trade]
      BY <2>1, NoTradeTyped DEF Begin, TypeOK
    <3>3. top' \in Equities \cup {0}
      <4>1. top \in Int /\ e \in Int
        BY ValuesAssumption DEF TypeOK
      <4> QED
        BY <2>1, <4>1, HigherOne DEF Begin, TypeOK
    <3> QED
      BY <2>1, <3>1, <3>2, <3>3 DEF Begin, TypeOK
  <2>2. ASSUME NEW a \in Entries, NEW s \in Symbols, NEW q \in Quantities, Enter(Order(a, s, q))
        PROVE  TypeOK'
    <3> DEFINE o == Order(a, s, q)
               t == [action |-> o.action, qty |-> o.qty, entry |-> price[o.symbol],
                     stop |-> StopPrice(o.action, o.symbol)]
    <3>1. o.action \in Entries /\ o.symbol \in Symbols /\ o.qty \in Quantities /\ Signed(o) \in Shares
      BY EntryTyped
    <3>2. t \in Trade
      <4>1. price[o.symbol] \in Prices /\ StopPrice(o.action, o.symbol) \in Int
        BY <3>1, StopTyped DEF TypeOK
      <4> HIDE DEF o
      <4> QED
        BY <3>1, <4>1 DEF Trade
    <3>3. trades' = [trades EXCEPT ![o.symbol] = t] /\ open_trades' = [open_trades EXCEPT ![o.symbol] = t]
      BY <2>2 DEF Enter
    <3>4. book' = [book EXCEPT ![o.symbol] = Signed(o)]
          /\ positions' = [positions EXCEPT ![o.symbol] = Signed(o)]
      BY <2>2, <3>1 DEF Enter, ViewAfter
    <3>5. peak' \in Equities \cup {Unseeded, Unreadable} /\ count' \in 0 .. MaxCount \cup {Unreadable}
      BY <2>2, RatchetTyped, CountedTyped DEF Enter, TypeOK
    <3>6. made' \in 0 .. MaxCount
      BY <2>2, OneMoreBounded DEF Enter, TypeOK
    <3>7. UNCHANGED <<risk, market, cycle, top, corruptions, recount>> /\ todo' \subseteq Symbols
      BY <2>2 DEF Enter, TypeOK
    <3>10. age' \in [Symbols -> Nat] /\ early' \subseteq Symbols
      BY <2>2 DEF Enter, TypeOK
    <3> HIDE DEF o, t
    <3>8. trades' \in [Symbols -> Trade] /\ open_trades' \in [Symbols -> Trade]
      BY <3>1, <3>2, <3>3 DEF TypeOK
    <3>9. book' \in [Symbols -> Shares] /\ positions' \in [Symbols -> Shares]
      BY <3>1, <3>4 DEF TypeOK
    <3> QED
      BY <3>5, <3>6, <3>7, <3>8, <3>9, <3>10 DEF TypeOK
  <2>3. ASSUME NEW s \in Symbols, Exit(s) PROVE TypeOK'
    <3>1. ViewAfter(ExitOrder(s)) = [positions EXCEPT ![s] = 0]
      BY DEF ViewAfter, ExitOrder, Order, Entries
    <3>2. book' \in [Symbols -> Shares] /\ positions' \in [Symbols -> Shares]
      BY <2>3, <3>1 DEF Exit, TypeOK, Shares
    <3>3. trades' \in [Symbols -> Trade] /\ open_trades' \in [Symbols -> Trade]
      BY <2>3, NoTradeTyped DEF Exit, TypeOK
    <3>4. peak' \in Equities \cup {Unseeded, Unreadable} /\ count' \in 0 .. MaxCount \cup {Unreadable}
      BY <2>3, RatchetTyped, CountedTyped DEF Exit, TypeOK
    <3> QED
      BY <2>3, <3>2, <3>3, <3>4 DEF Exit, TypeOK
  <2>4. ASSUME NEW s \in Symbols, PassOver(s) PROVE TypeOK'
    <3>1. peak' \in Equities \cup {Unseeded, Unreadable}
      BY <2>4, RatchetTyped DEF PassOver, TypeOK
    <3> QED
      BY <2>4, <3>1 DEF PassOver, TypeOK
  <2>5. ASSUME NEW s \in Symbols, StopFills(s) PROVE TypeOK'
    BY <2>5 DEF StopFills, TypeOK, Shares
  <2>6. CASE End
    BY <2>6, NoTradeTyped DEF End, TypeOK, Shares
  <2>7. CASE NewDay
    <3>1. \A n \in Nat : Older(n) \in Nat
      BY DEF Older
    <3>2. age' \in [Symbols -> Nat]
      BY <2>7, <3>1 DEF NewDay, TypeOK
    <3> QED
      BY <2>7, <3>2, BoundsAssumption DEF NewDay, TypeOK
  <2>8. CASE OperatorResets
    BY <2>8 DEF OperatorResets, TypeOK
  <2>9. CASE Damage
    <3>1. corruptions' \in 0 .. MaxCorruptions
      BY <2>9, BoundsAssumption DEF Damage, TypeOK
    <3>2. peak' \in Equities \cup {Unseeded, Unreadable}
      BY <2>9 DEF Damage, TypeOK
    <3>3. count' \in 0 .. MaxCount \cup {Unreadable} /\ recount' \in BOOLEAN
      BY <2>9 DEF Damage, TypeOK
    <3> QED
      BY <2>9, <3>1, <3>2, <3>3 DEF Damage, TypeOK
  <2>10. CASE UNCHANGED vars
    BY <2>10 DEF TypeOK
  <2> QED
    BY <2>1, <2>2, <2>3, <2>4, <2>5, <2>6, <2>7, <2>8, <2>9, <2>10 DEF Next
<1> QED
  BY <1>1, <1>2, PTL DEF Spec

-----------------------------------------------------------------------------
(* Exits.                                                                  *)

\* No rail traps a position: an exit is the full position, on the side that
\* closes it; the order value cap and the swing guard alone look at more than
\* that, and the guard at nothing but the days it is held.
THEOREM ExitsAlwaysRun == Spec => []ExitsRun
<1>1. TypeOK => ExitsRun
  <2> SUFFICES ASSUME TypeOK, NEW s \in Symbols, positions[s] # 0
               PROVE  /\ pre_trade_checks(ExitOrder(s), PeakNow)
                           \subseteq {"order_value_cap", "swing_guard"}
                      /\ age[s] > risk["min_holding_days"] =>
                           "swing_guard" \notin pre_trade_checks(ExitOrder(s), PeakNow)
    BY DEF ExitsRun, TypeOK
  <2> DEFINE o == ExitOrder(s)
  <2>1. positions[s] \in Int /\ price[s] \in Nat /\ price[s] > 0
    <3>1. positions[s] \in Shares /\ price[s] \in Prices
      BY DEF TypeOK
    <3>2. price[s] \in Nat \ {0}
      BY <3>1, ValuesAssumption
    <3>3. price[s] \in Nat /\ price[s] > 0
      BY <3>2
    <3> QED
      BY <3>1, <3>3, SharesInt
  <2>2. o.symbol = s /\ o.qty = Abs(positions[s]) /\ o.action \notin Entries
    BY DEF ExitOrder, Order, Entries
  <2>3. o.action = "sell" => positions[s] > 0
    BY <2>1 DEF ExitOrder, Order
  <2>4. o.action = "cover" => positions[s] < 0
    BY <2>1 DEF ExitOrder, Order
  <2> HIDE DEF o
  <2>5. o.qty > 0
    BY <2>1, <2>2, AbsPositive
  <2>6. ExitRails(o) = {}
    <3>1. MarketValue(s, positions) = positions[s] * price[s]
      BY DEF MarketValue
    <3>2. positions[s] > 0 => positions[s] * price[s] > 0
      BY <2>1
    <3>3. positions[s] < 0 => positions[s] * price[s] < 0
      BY <2>1
    <3>4. o.action = "sell" => ~(MarketValue(s, positions) <= 0)
      BY <2>1, <2>3, <3>1, <3>2
    <3>5. o.action = "cover" => ~(MarketValue(s, positions) >= 0)
      BY <2>1, <2>4, <3>1, <3>3
    <3> QED
      BY <2>2, <3>4, <3>5 DEF ExitRails, Rail
  <2>7. Rail("zero_qty", o.qty <= 0) = {}
    BY <2>1, <2>2, <2>5, AbsPositive DEF Rail
  <2>8. pure_checks(o, PeakNow) \subseteq {"order_value_cap"}
    BY <2>2, <2>6, <2>7 DEF pure_checks, Rail
  <2>9. Rail("daily_cap", DailyCap(o)) = {} /\ Rail("heat", Heat(o)) = {}
    BY <2>2 DEF Rail, DailyCap, Heat
  <2>10. age[s] > risk["min_holding_days"] => Rail("swing_guard", swing_guard(o)) = {}
    <3>1. risk["min_holding_days"] \in Int /\ age[s] \in Nat
      BY ConfigsAssumption DEF TypeOK, Limits
    <3>2. age[s] > risk["min_holding_days"] => ~(DaysHeld(s) < risk["min_holding_days"])
      BY <3>1 DEF DaysHeld
    <3> QED
      BY <2>2, <3>2 DEF swing_guard, Rail
  <2>11. pre_trade_checks(o, PeakNow)
           = pure_checks(o, PeakNow) \cup Rail("swing_guard", swing_guard(o))
    BY <2>9 DEF pre_trade_checks
  <2>12. Rail("swing_guard", swing_guard(o)) \subseteq {"swing_guard"}
    BY DEF Rail
  <2> QED
    BY <2>8, <2>10, <2>11, <2>12 DEF o
<1> QED
  BY <1>1, RailsTyping, PTL

-----------------------------------------------------------------------------
(* The day's cap.                                                          *)

\* A counter that has been readable all day counts at least the entries: it
\* counts exits too.
CountCovers == ~recount => count # Unreadable /\ made <= count
CapInv == TypeOK /\ CountCovers /\ DailyCapHolds

LEMMA CapStep == ASSUME CapInv, TypeOK', [Next]_vars PROVE CapInv'
<1> USE DEF vars, market, files, views, times, ghosts
<1>1. count \in Int /\ made \in Int /\ risk["max_trades_per_day"] \in Int
  BY ConfigsAssumption, BoundsAssumption DEF CapInv, TypeOK, Limits
<1>2. ASSUME NEW a \in Entries, NEW s \in Symbols, NEW q \in Quantities, Enter(Order(a, s, q))
      PROVE  CountCovers' /\ DailyCapHolds'
  <2>1. risk["max_trades_per_day"] > 0 => ~AtCap
    BY <1>2, EntryTyped, EntryPassed DEF Enter, DailyCap
  <2>2. ~recount => made <= count /\ count' = OneMore(count) /\ made' = OneMore(made)
    BY <1>2 DEF Enter, Counted, CapInv, CountCovers
  <2>3. UNCHANGED <<risk, recount>>
    BY <1>2 DEF Enter
  <2>4. ~recount => made' <= count' /\ made' <= made + 1
    BY <1>1, <2>2, OneMoreMonotone
  <2>5. ~recount => count' # Unreadable
    BY <1>1, <2>2, OneMoreBounded, BoundsAssumption DEF CapInv, TypeOK, CountCovers
  <2>6. risk["max_trades_per_day"] > 0 /\ ~recount => made + 1 <= risk["max_trades_per_day"]
    BY <1>1, <2>1, <2>2 DEF AtCap
  <2>7. made' \in Int
    BY BoundsAssumption DEF TypeOK
  <2> QED
    BY <1>1, <2>3, <2>4, <2>5, <2>6, <2>7 DEF CountCovers, DailyCapHolds
<1>3. ASSUME NEW s \in Symbols, Exit(s) PROVE CountCovers' /\ DailyCapHolds'
  <2>1. UNCHANGED <<risk, recount, made>>
    BY <1>3 DEF Exit
  <2>2. ~recount => count' = OneMore(count)
    BY <1>3 DEF Exit, Counted, CapInv, CountCovers
  <2>3. ~recount => count' # Unreadable /\ count <= count'
    BY <1>1, <2>2, OneMoreBounded, BoundsAssumption DEF CapInv, TypeOK, CountCovers, OneMore
  <2>4. count' \in Int
    BY BoundsAssumption DEF TypeOK
  <2> QED
    BY <1>1, <2>1, <2>3, <2>4 DEF CapInv, CountCovers, DailyCapHolds
<1>4. ASSUME NewDay PROVE CountCovers' /\ DailyCapHolds'
  <2>1. made' = 0 /\ risk' = risk /\ (~recount' => count' = 0)
    BY <1>4 DEF NewDay
  <2> QED
    BY <1>1, <2>1 DEF CountCovers, DailyCapHolds, Unreadable
<1>5. ASSUME Damage PROVE CountCovers' /\ DailyCapHolds'
  BY <1>5 DEF Damage, CapInv, CountCovers, DailyCapHolds
<1>6. ASSUME UNCHANGED <<risk, count, made, recount>> PROVE CountCovers' /\ DailyCapHolds'
  BY <1>6 DEF CapInv, CountCovers, DailyCapHolds
<1>7. ASSUME NEW e \in Equities, NEW p \in [Symbols -> Prices], Begin(e, p)
      PROVE  CountCovers' /\ DailyCapHolds'
  BY <1>6, <1>7 DEF Begin
<1>8. ASSUME NEW s \in Symbols, PassOver(s) \/ StopFills(s)
      PROVE  CountCovers' /\ DailyCapHolds'
  BY <1>6, <1>8 DEF PassOver, StopFills
<1>9. ASSUME End \/ OperatorResets \/ UNCHANGED vars PROVE CountCovers' /\ DailyCapHolds'
  BY <1>6, <1>9 DEF End, OperatorResets
<1>10. CountCovers' /\ DailyCapHolds'
  BY <1>2, <1>3, <1>4, <1>5, <1>7, <1>8, <1>9 DEF Next
<1> QED
  BY <1>10 DEF CapInv

\* As long as the counter's file has been readable, the day's entries are
\* within max_trades_per_day, whatever exits, cycles and damage to the other
\* file come between them.
THEOREM DayCapped == Spec => []DailyCapHolds
<1>1. ASSUME Init PROVE CountCovers /\ DailyCapHolds
  <2>1. count = 0 /\ made = 0 /\ risk["max_trades_per_day"] \in Int
    BY <1>1, ConfigsAssumption DEF Init, Limits
  <2> QED
    BY <2>1 DEF CountCovers, DailyCapHolds, Unreadable
<1>2. CapInv /\ TypeOK' /\ [Next]_vars => CapInv'
  BY CapStep
<1>3. Init /\ TypeOK => CapInv
  BY <1>1 DEF CapInv
<1>4. CapInv => DailyCapHolds
  BY DEF CapInv
<1> QED
  BY <1>2, <1>3, <1>4, RailsTyping, PTL DEF Spec

-----------------------------------------------------------------------------
(* The drawdown latch.                                                     *)

\* While no file is damaged the peak on file is the highest equity any cycle
\* has read, and the cycle under way has read no higher one.
PeakTrue == corruptions = 0 /\ risk["max_drawdown_pct"] # 0 => peak = top
LatchInv == TypeOK /\ PeakTrue /\ (cycle => equity <= top)

LEMMA RatchetKeeps ==
  ASSUME LatchInv, cycle, corruptions = 0, risk["max_drawdown_pct"] # 0
  PROVE  PeakAfter(equity) = top
<1>1. peak = top /\ top \in Nat /\ equity \in Nat /\ equity <= top
  BY ValuesAssumption DEF LatchInv, PeakTrue, TypeOK
<1> QED
  BY <1>1 DEF PeakAfter, read_high_water, Higher

LEMMA LatchStep == ASSUME LatchInv, TypeOK', [Next]_vars PROVE LatchInv'
<1> USE DEF vars, market, files, views, times, ghosts
<1>1. ASSUME NEW e \in Equities, NEW p \in [Symbols -> Prices], Begin(e, p) PROVE LatchInv'
  <2>1. e \in Nat /\ top \in Nat /\ top' = Higher(top, e) /\ equity' = e
    BY <1>1, ValuesAssumption DEF Begin, LatchInv, TypeOK
  <2>2. UNCHANGED <<risk, corruptions>> /\ Ratchet(e)
    BY <1>1 DEF Begin
  <2>3. equity' <= top'
    BY <2>1 DEF Higher
  <2>4. PeakTrue'
    BY <2>1, <2>2 DEF LatchInv, PeakTrue, Ratchet, PeakAfter, read_high_water
  <2> QED
    BY <2>3, <2>4 DEF LatchInv
<1>2. ASSUME cycle, Ratchet(equity) \/ UNCHANGED peak,
             UNCHANGED <<risk, equity, cycle, top, corruptions>>
      PROVE  LatchInv'
  <2>1. PeakTrue'
    BY <1>2, RatchetKeeps DEF Ratchet, LatchInv, PeakTrue
  <2> QED
    BY <1>2, <2>1 DEF LatchInv
<1>3. CASE \E a \in Entries, s \in Symbols, q \in Quantities : Enter(Order(a, s, q))
  BY <1>2, <1>3 DEF Enter
<1>4. CASE \E s \in Symbols : Exit(s) \/ PassOver(s)
  BY <1>2, <1>4 DEF Exit, PassOver
<1>5. CASE (\E s \in Symbols : StopFills(s)) \/ End \/ NewDay \/ UNCHANGED vars
  BY <1>5 DEF StopFills, End, NewDay, LatchInv, PeakTrue
<1>6. CASE OperatorResets
  BY <1>6 DEF OperatorResets, LatchInv, PeakTrue
<1>7. CASE Damage
  <2>1. corruptions \in Nat /\ corruptions' # 0
    BY <1>7, BoundsAssumption DEF Damage, LatchInv, TypeOK
  <2> QED
    BY <1>7, <2>1 DEF Damage, LatchInv, PeakTrue
<1> QED
  BY <1>1, <1>3, <1>4, <1>5, <1>6, <1>7 DEF Next

LEMMA LatchRefuses == ASSUME LatchInv, [Next]_vars, corruptions = 0 PROVE Latched
<1> SUFFICES ASSUME InDrawdown, NEW s \in Symbols, Opens(s) PROVE FALSE
  BY DEF Latched
<1> USE DEF vars, market, files, views, times, ghosts
<1>1. ASSUME NEW a \in Entries, NEW x \in Symbols, NEW q \in Quantities, Enter(Order(a, x, q))
      PROVE  FALSE
  <2>1. ~drawdown(PeakNow) /\ cycle
    BY <1>1, EntryTyped, EntryPassed DEF Enter
  <2>2. PeakNow = top
    BY <2>1, RatchetKeeps DEF PeakNow, InDrawdown
  <2> QED
    BY <2>1, <2>2 DEF drawdown, InDrawdown
<1>2. ASSUME NEW x \in Symbols, Exit(x) \/ PassOver(x) \/ StopFills(x) PROVE FALSE
  BY <1>2 DEF Exit, PassOver, StopFills, Opens, LatchInv, TypeOK
<1>3. book' = book => FALSE
  BY DEF Opens
<1>4. CASE \E e \in Equities, p \in [Symbols -> Prices] : Begin(e, p)
  BY <1>3, <1>4 DEF Begin
<1>5. CASE End \/ NewDay \/ OperatorResets \/ Damage \/ UNCHANGED vars
  BY <1>3, <1>5 DEF End, NewDay, OperatorResets, Damage
<1> QED
  BY <1>1, <1>2, <1>4, <1>5 DEF Next

\* Undamaged, the breaker is a latch: below the limit from the highest equity
\* any cycle has read, no step of any cycle enters a position.
THEOREM LatchKept == Spec => LatchHoldsUndamaged
<1>1. Init /\ TypeOK => LatchInv
  BY DEF Init, LatchInv, PeakTrue
<1>2. LatchInv /\ TypeOK' /\ [Next]_vars => LatchInv'
  BY LatchStep
<1>3. LatchInv /\ [Next]_vars => [corruptions = 0 => Latched]_vars
  BY LatchRefuses
<1> QED
  BY <1>1, <1>2, <1>3, RailsTyping, PTL DEF Spec, LatchHoldsUndamaged
-----------------------------------------------------------------------------
(* Sums over a finite set.  SumFunctionOnSet adds up its terms one chosen  *)
(* index at a time; what it computes does not depend on the choice.        *)

\* Among some subsets of a finite set one has no smaller one: what stands
\* here for induction on finite sets.
LEMMA LeastSubset ==
  ASSUME NEW S, IsFiniteSet(S), NEW T \in SUBSET SUBSET S, T # {}
  PROVE  \E A \in T : \A B \in SUBSET A : B # A => B \notin T
<1>1. PICK A \in T : \A B \in T : ~ (<<B, A>> \in StrictSubsetOrdering(S))
  <2>1. IsWellFoundedOn(StrictSubsetOrdering(S), SUBSET S)
    BY FS_StrictSubsetOrderingWellFounded, FS_FiniteSubsetsOfFinite
  <2> QED
    BY <2>1, WFMin
<1> QED
  BY <1>1 DEF StrictSubsetOrdering

Chosen(A) == CHOOSE x \in A : TRUE

\* I gives the sum of f over each subset of S, taken one chosen element at a time.
Adds(I, f, S) ==
  I = [A \in SUBSET S |-> IF A = {} THEN 0 ELSE f[Chosen(A)] + I[A \ {Chosen(A)}]]

LEMMA ChosenIn == ASSUME NEW A, A # {} PROVE Chosen(A) \in A
  BY DEF Chosen

LEMMA Added ==
  ASSUME NEW S, NEW f, NEW I, Adds(I, f, S), NEW A \in SUBSET S
  PROVE  I[A] = IF A = {} THEN 0 ELSE f[Chosen(A)] + I[A \ {Chosen(A)}]
  BY DEF Adds

LEMMA SumIs ==
  ASSUME NEW f, NEW S, \E I : Adds(I, f, S)
  PROVE  \E I : Adds(I, f, S) /\ SumFunctionOnSet(f, S) = I[S]
<1> DEFINE J == CHOOSE I : Adds(I, f, S)
<1>1. Adds(J, f, S)
  OBVIOUS
<1>2. SumFunctionOnSet(f, S) = J[S]
  BY DEF SumFunctionOnSet, FoldFunctionOnSet, MapThenFoldSet, Adds, Chosen
<1> QED
  BY <1>1, <1>2

\* Two functions that agree on R have the same sums over its subsets,
\* whatever larger set a sum is taken in.
LEMMA AddsAgree ==
  ASSUME NEW S, IsFiniteSet(S), NEW R \in SUBSET S, NEW f, NEW g, NEW I, NEW J,
         Adds(I, f, S), Adds(J, g, R), \A x \in R : f[x] = g[x]
  PROVE  \A A \in SUBSET R : I[A] = J[A]
<1> DEFINE T == {A \in SUBSET R : I[A] # J[A]}
<1>1. SUFFICES ASSUME T # {} PROVE FALSE
  OBVIOUS
<1>2. PICK A \in T : \A B \in SUBSET A : B # A => B \notin T
  <2>1. T \in SUBSET SUBSET S
    OBVIOUS
  <2> HIDE DEF T
  <2> QED
    BY <1>1, <2>1, LeastSubset
<1>3. A \in SUBSET R /\ A \in SUBSET S /\ I[A] # J[A]
  BY <1>2
<1> HIDE DEF T
<1>4. /\ I[A] = IF A = {} THEN 0 ELSE f[Chosen(A)] + I[A \ {Chosen(A)}]
      /\ J[A] = IF A = {} THEN 0 ELSE g[Chosen(A)] + J[A \ {Chosen(A)}]
  BY <1>3, Added
<1>5. CASE A = {}
  BY <1>3, <1>4, <1>5
<1>6. CASE A # {}
  <2>1. Chosen(A) \in A
    BY <1>6, ChosenIn
  <2>2. I[A \ {Chosen(A)}] = J[A \ {Chosen(A)}]
    BY <1>2, <1>3, <2>1 DEF T
  <2>3. f[Chosen(A)] = g[Chosen(A)]
    BY <1>3, <2>1
  <2> QED
    BY <1>3, <1>4, <1>6, <2>2, <2>3
<1> QED
  BY <1>5, <1>6

LEMMA AddsExist ==
  ASSUME NEW S, IsFiniteSet(S), NEW f
  PROVE  \E I : Adds(I, f, S)
<1> DEFINE T == {A \in SUBSET S : ~ \E I : Adds(I, f, A)}
<1>1. SUFFICES ASSUME T # {} PROVE FALSE
  <2>1. S \in SUBSET S
    OBVIOUS
  <2> QED
    BY <2>1
<1>2. PICK A \in T : \A B \in SUBSET A : B # A => B \notin T
  <2>1. T \in SUBSET SUBSET S
    OBVIOUS
  <2> HIDE DEF T
  <2> QED
    BY <1>1, <2>1, LeastSubset
<1>3. ASSUME NEW B \in SUBSET A, B # A PROVE \E I : Adds(I, f, B)
  BY <1>2, <1>3
<1> DEFINE K == [B \in SUBSET A |-> IF B = {} THEN 0
                   ELSE f[Chosen(B)] + SumFunctionOnSet(f, B \ {Chosen(B)})]
<1>4. ASSUME NEW B \in SUBSET A, B # A
      PROVE  SumFunctionOnSet(f, B) = K[B]
  <2>1. PICK I : Adds(I, f, B) /\ SumFunctionOnSet(f, B) = I[B]
    BY <1>3, <1>4, SumIs
  <2>2. I[B] = IF B = {} THEN 0 ELSE f[Chosen(B)] + I[B \ {Chosen(B)}]
    BY <2>1, Added
  <2>3. CASE B = {}
    BY <2>1, <2>2, <2>3
  <2>4. CASE B # {}
    <3> DEFINE C == B \ {Chosen(B)}
    <3>1. C \in SUBSET A /\ C # A /\ C \in SUBSET B
      BY <1>4, <2>4, ChosenIn
    <3>2. PICK J : Adds(J, f, C) /\ SumFunctionOnSet(f, C) = J[C]
      BY <1>3, <3>1, SumIs
    <3>3. IsFiniteSet(B)
      BY FS_Subset
    <3>4. I[C] = J[C]
      BY <2>1, <3>1, <3>2, <3>3, AddsAgree
    <3> QED
      BY <2>1, <2>2, <2>4, <3>2, <3>4
  <2> QED
    BY <2>3, <2>4
<1>5. Adds(K, f, A)
  <2>1. ASSUME NEW B \in SUBSET A, B # {}
        PROVE  SumFunctionOnSet(f, B \ {Chosen(B)}) = K[B \ {Chosen(B)}]
    <3>1. B \ {Chosen(B)} \in SUBSET A /\ B \ {Chosen(B)} # A
      BY <2>1, ChosenIn
    <3> HIDE DEF K
    <3> QED
      BY <1>4, <3>1
  <2>2. K = [B \in SUBSET A |-> IF B = {} THEN 0
                   ELSE f[Chosen(B)] + K[B \ {Chosen(B)}]]
    BY <2>1
  <2> HIDE DEF K
  <2> QED
    BY <2>2 DEF Adds
<1> QED
  BY <1>2, <1>5

LEMMA SumSame ==
  ASSUME NEW S, IsFiniteSet(S), NEW f, NEW g, \A x \in S : f[x] = g[x]
  PROVE  SumFunctionOnSet(f, S) = SumFunctionOnSet(g, S)
<1>1. PICK I : Adds(I, f, S) /\ SumFunctionOnSet(f, S) = I[S]
  BY AddsExist, SumIs
<1>2. PICK J : Adds(J, g, S) /\ SumFunctionOnSet(g, S) = J[S]
  BY AddsExist, SumIs
<1>3. S \in SUBSET S
  OBVIOUS
<1>4. \A A \in SUBSET S : I[A] = J[A]
  BY <1>1, <1>2, <1>3, AddsAgree
<1> QED
  BY <1>1, <1>2, <1>3, <1>4

LEMMA SumStep ==
  ASSUME NEW S, IsFiniteSet(S), NEW f, S # {}
  PROVE  SumFunctionOnSet(f, S) = f[Chosen(S)] + SumFunctionOnSet(f, S \ {Chosen(S)})
<1> DEFINE C == S \ {Chosen(S)}
<1>1. PICK I : Adds(I, f, S) /\ SumFunctionOnSet(f, S) = I[S]
  BY AddsExist, SumIs
<1>2. I[S] = f[Chosen(S)] + I[C]
  BY <1>1, Added
<1>3. C \in SUBSET S /\ IsFiniteSet(C)
  BY FS_Subset
<1>4. PICK J : Adds(J, f, C) /\ SumFunctionOnSet(f, C) = J[C]
  BY <1>3, AddsExist, SumIs
<1>5. I[C] = J[C]
  BY <1>1, <1>3, <1>4, AddsAgree
<1> QED
  BY <1>1, <1>2, <1>4, <1>5

LEMMA SumType ==
  ASSUME NEW S, IsFiniteSet(S), NEW f, \A x \in S : f[x] \in Int
  PROVE  SumFunctionOnSet(f, S) \in Int
<1> DEFINE T == {A \in SUBSET S : SumFunctionOnSet(f, A) \notin Int}
<1>1. SUFFICES ASSUME T # {} PROVE FALSE
  <2>1. S \in SUBSET S
    OBVIOUS
  <2> QED
    BY <2>1
<1>2. PICK A \in T : \A B \in SUBSET A : B # A => B \notin T
  <2>1. T \in SUBSET SUBSET S
    OBVIOUS
  <2> HIDE DEF T
  <2> QED
    BY <1>1, <2>1, LeastSubset
<1>3. IsFiniteSet(A)
  BY FS_Subset
<1>4. CASE A = {}
  <2>1. PICK I : Adds(I, f, {}) /\ SumFunctionOnSet(f, {}) = I[{}]
    BY AddsExist, SumIs, FS_EmptySet
  <2>2. I[{}] = 0
    BY <2>1, Added
  <2> QED
    BY <1>2, <1>4, <2>1, <2>2
<1>5. CASE A # {}
  <2>1. Chosen(A) \in A
    BY <1>5, ChosenIn
  <2>2. SumFunctionOnSet(f, A \ {Chosen(A)}) \in Int
    BY <1>2, <2>1
  <2>3. f[Chosen(A)] \in Int
    BY <2>1
  <2>4. SumFunctionOnSet(f, A) = f[Chosen(A)] + SumFunctionOnSet(f, A \ {Chosen(A)})
    BY <1>3, <1>5, SumStep
  <2> QED
    BY <1>2, <2>2, <2>3, <2>4
<1> QED
  BY <1>4, <1>5

\* Any element may be taken first.
LEMMA SumWithout ==
  ASSUME NEW S, IsFiniteSet(S), NEW f, \A x \in S : f[x] \in Int
  PROVE  \A x \in S : SumFunctionOnSet(f, S) = f[x] + SumFunctionOnSet(f, S \ {x})
<1> DEFINE Splits(A) ==
             \A x \in A : SumFunctionOnSet(f, A) = f[x] + SumFunctionOnSet(f, A \ {x})
           T == {A \in SUBSET S : ~ Splits(A)}
<1>1. SUFFICES ASSUME T # {} PROVE FALSE
  <2>1. S \in SUBSET S
    OBVIOUS
  <2> QED
    BY <2>1
<1>2. PICK A \in T : \A B \in SUBSET A : B # A => B \notin T
  <2>1. T \in SUBSET SUBSET S
    OBVIOUS
  <2> HIDE DEF T
  <2> QED
    BY <1>1, <2>1, LeastSubset
<1>3. A \in SUBSET S /\ IsFiniteSet(A) /\ ~ Splits(A)
  BY <1>2, FS_Subset
<1>4. ASSUME NEW B \in SUBSET A, B # A PROVE Splits(B)
  BY <1>2, <1>3, <1>4
<1> HIDE DEF T
<1>5. PICK x \in A : SumFunctionOnSet(f, A) # f[x] + SumFunctionOnSet(f, A \ {x})
  BY <1>3
<1> DEFINE c == Chosen(A)
           both == (A \ {c}) \ {x}
<1>6. c \in A
  BY <1>5, ChosenIn
<1>7. SumFunctionOnSet(f, A) = f[c] + SumFunctionOnSet(f, A \ {c})
  BY <1>3, <1>6, SumStep
<1>8. c # x
  BY <1>5, <1>7
<1>9. SumFunctionOnSet(f, A \ {c}) = f[x] + SumFunctionOnSet(f, both)
  <2>1. A \ {c} \in SUBSET A /\ A \ {c} # A /\ x \in A \ {c}
    BY <1>5, <1>6, <1>8
  <2> QED
    BY <1>4, <2>1
<1>10. SumFunctionOnSet(f, A \ {x}) = f[c] + SumFunctionOnSet(f, both)
  <2>1. A \ {x} \in SUBSET A /\ A \ {x} # A /\ c \in A \ {x} /\ both = (A \ {x}) \ {c}
    BY <1>5, <1>6, <1>8
  <2> HIDE DEF both, c
  <2> QED
    BY <1>4, <2>1
<1>11. f[c] \in Int /\ f[x] \in Int /\ SumFunctionOnSet(f, both) \in Int
  <2>1. IsFiniteSet(both) /\ both \in SUBSET S
    BY <1>3, FS_Subset
  <2> QED
    BY <1>3, <1>6, <2>1, SumType
<1> HIDE DEF c, both
<1> QED
  BY <1>5, <1>7, <1>9, <1>10, <1>11

\* A sum over the symbols after one term has changed.
LEMMA SumChanges ==
  ASSUME NEW f \in [Symbols -> Int], NEW g \in [Symbols -> Int], NEW s \in Symbols,
         \A x \in Symbols \ {s} : g[x] = f[x]
  PROVE  /\ SumFunction(f) \in Int
         /\ SumFunction(g) = SumFunction(f) - f[s] + g[s]
<1> DEFINE R == Symbols \ {s}
<1>1. IsFiniteSet(Symbols) /\ IsFiniteSet(R)
  BY SymbolsAssumption, FS_RemoveElement
<1>2. SumFunction(f) = SumFunctionOnSet(f, Symbols) /\ SumFunction(g) = SumFunctionOnSet(g, Symbols)
  BY DEF SumFunction
<1>3. SumFunctionOnSet(f, Symbols) = f[s] + SumFunctionOnSet(f, R)
  BY <1>1, SumWithout
<1>4. SumFunctionOnSet(g, Symbols) = g[s] + SumFunctionOnSet(g, R)
  BY <1>1, SumWithout
<1>5. SumFunctionOnSet(f, R) = SumFunctionOnSet(g, R)
  BY <1>1, SumSame
<1>6. SumFunctionOnSet(f, R) \in Int
  BY <1>1, SumType
<1>7. f[s] \in Int /\ g[s] \in Int
  OBVIOUS
<1> QED
  BY <1>2, <1>3, <1>4, <1>5, <1>6, <1>7

-----------------------------------------------------------------------------
(* The views.                                                              *)

\* A cycle's views are the book and the ledger, every holding has its open
\* trade, and after reconciliation every open trade its holding.
ViewsTrue ==
  /\ cycle => /\ positions = book /\ open_trades = trades
              /\ \A s \in Symbols : trades[s] # NoTrade => book[s] # 0
  /\ \A s \in Symbols : book[s] # 0 => trades[s] # NoTrade

LEMMA EntryMoves ==
  ASSUME TypeOK, NEW a \in Entries, NEW s \in Symbols, NEW q \in Quantities,
         Enter(Order(a, s, q))
  PROVE  LET t == [action |-> a, qty |-> q, entry |-> price[s], stop |-> StopPrice(a, s)]
         IN  /\ Signed(Order(a, s, q)) # 0 /\ UNCHANGED <<risk, price, equity, down>>
             /\ book' = [book EXCEPT ![s] = Signed(Order(a, s, q))]
             /\ positions' = [positions EXCEPT ![s] = Signed(Order(a, s, q))]
             /\ t # NoTrade
             /\ trades' = [trades EXCEPT ![s] = t]
             /\ open_trades' = [open_trades EXCEPT ![s] = t]
<1> DEFINE o == Order(a, s, q)
           t == [action |-> a, qty |-> q, entry |-> price[s], stop |-> StopPrice(a, s)]
<1>1. o.action = a /\ o.symbol = s /\ o.qty = q
  BY EntryTyped
<1>2. q \in Nat /\ q # 0
  BY ValuesAssumption
<1>3. Signed(o) # 0
  BY <1>1, <1>2 DEF Signed
<1>4. UNCHANGED <<risk, price, equity, down>>
  BY DEF Enter, market
<1>5. book' = [book EXCEPT ![s] = Signed(o)]
  BY <1>1 DEF Enter
<1>6. positions' = [positions EXCEPT ![s] = Signed(o)]
  BY <1>1 DEF Enter, ViewAfter
<1>7. t # NoTrade
  <2>1. a # "none"
    BY DEF Entries
  <2> QED
    BY <2>1 DEF NoTrade
<1>8. trades' = [trades EXCEPT ![s] = t] /\ open_trades' = [open_trades EXCEPT ![s] = t]
  BY <1>1 DEF Enter
<1> HIDE DEF t, o
<1> QED
  BY <1>3, <1>4, <1>5, <1>6, <1>7, <1>8 DEF t, o

LEMMA ViewsStep == ASSUME TypeOK, ViewsTrue, [Next]_vars PROVE ViewsTrue'
<1> USE DEF vars, market, files, views, times, ghosts
<1>1. ASSUME NEW e \in Equities, NEW p \in [Symbols -> Prices], Begin(e, p) PROVE ViewsTrue'
  BY <1>1 DEF Begin, ViewsTrue, TypeOK
<1>2. ASSUME NEW a \in Entries, NEW s \in Symbols, NEW q \in Quantities, Enter(Order(a, s, q))
      PROVE  ViewsTrue'
  <2> DEFINE n == Signed(Order(a, s, q))
             t == [action |-> a, qty |-> q, entry |-> price[s], stop |-> StopPrice(a, s)]
  <2>1. /\ n # 0 /\ book' = [book EXCEPT ![s] = n] /\ positions' = [positions EXCEPT ![s] = n]
        /\ t # NoTrade /\ trades' = [trades EXCEPT ![s] = t]
        /\ open_trades' = [open_trades EXCEPT ![s] = t]
    BY <1>2, EntryMoves
  <2> HIDE DEF n, t
  <2>2. cycle /\ cycle'
    BY <1>2 DEF Enter
  <2> QED
    BY <2>1, <2>2 DEF ViewsTrue, TypeOK
<1>3. ASSUME NEW s \in Symbols, Exit(s) PROVE ViewsTrue'
  <2>1. ViewAfter(ExitOrder(s)) = [positions EXCEPT ![s] = 0]
    BY DEF ViewAfter, ExitOrder, Order, Entries
  <2> QED
    BY <1>3, <2>1 DEF Exit, ViewsTrue, TypeOK
<1>4. ASSUME NEW s \in Symbols, PassOver(s) \/ StopFills(s) PROVE ViewsTrue'
  BY <1>4 DEF PassOver, StopFills, ViewsTrue, TypeOK
<1>5. CASE End \/ NewDay \/ OperatorResets \/ Damage \/ UNCHANGED vars
  BY <1>5 DEF End, NewDay, OperatorResets, Damage, ViewsTrue
<1> QED
  BY <1>1, <1>2, <1>3, <1>4, <1>5 DEF Next

-----------------------------------------------------------------------------
(* The limits.                                                             *)

LEMMA Magnitude ==
  ASSUME NEW q \in Nat, NEW p \in Nat
  PROVE  Abs(q * p) = q * p /\ Abs((-q) * p) = q * p /\ (-q) * p = -(q * p) /\ q * p \in Nat
<1>1. q * p \in Nat /\ (-q) * p = -(q * p)
  OBVIOUS
<1>2. PICK v \in Nat : v = q * p /\ (-q) * p = -v
  BY <1>1
<1>3. Abs(v) = v /\ Abs(-v) = v
  BY DEF Abs
<1> QED
  BY <1>1, <1>2, <1>3

\* One more holding adds its worth to the exposures, its name to the counts
\* and its stop's distance to the heat.
LEMMA Exposures ==
  ASSUME TypeOK, NEW s \in Symbols, positions[s] = 0, NEW n \in Int,
         NEW bk, bk = [positions EXCEPT ![s] = n]
  PROVE  /\ Gross(positions) \in Int /\ Net(positions) \in Int
         /\ Gross(bk) = Gross(positions) + Abs(n * price[s])
         /\ Net(bk) = Net(positions) + n * price[s]
<1>1. \A x \in Symbols : positions[x] \in Int /\ price[x] \in Int
  <2> SUFFICES ASSUME NEW x \in Symbols PROVE positions[x] \in Int /\ price[x] \in Int
    OBVIOUS
  <2>1. positions[x] \in Shares /\ price[x] \in Prices
    BY DEF TypeOK
  <2>2. positions[x] \in Int
    BY <2>1, SharesInt
  <2>3. price[x] \in Nat \ {0}
    BY <2>1, ValuesAssumption
  <2> QED
    BY <2>2, <2>3
<1>2. \A x \in Symbols : bk[x] \in Int
  BY <1>1 DEF TypeOK
<1>3. MarketValue(s, positions) = 0 /\ MarketValue(s, bk) = n * price[s]
  BY <1>1 DEF MarketValue, TypeOK
<1>4. \A x \in Symbols \ {s} : MarketValue(x, bk) = MarketValue(x, positions)
  BY DEF MarketValue, TypeOK
<1>5. \A x \in Symbols : MarketValue(x, positions) \in Int /\ MarketValue(x, bk) \in Int
  BY <1>1, <1>2 DEF MarketValue
<1>6. \A m \in Int : Abs(m) \in Int
  BY DEF Abs
<1>7. Abs(0) = 0
  BY DEF Abs
<1>8. Gross(positions) \in Int /\ Gross(bk) = Gross(positions) + Abs(n * price[s])
  <2> DEFINE f == [x \in Symbols |-> Abs(MarketValue(x, positions))]
             g == [x \in Symbols |-> Abs(MarketValue(x, bk))]
  <2>1. f \in [Symbols -> Int] /\ g \in [Symbols -> Int]
    BY <1>5, <1>6
  <2>2. \A x \in Symbols \ {s} : g[x] = f[x]
    BY <1>4
  <2>3. f[s] = 0 /\ g[s] = Abs(n * price[s])
    BY <1>3, <1>7
  <2>4. Gross(positions) = SumFunction(f) /\ Gross(bk) = SumFunction(g)
    BY DEF Gross
  <2> HIDE DEF f, g
  <2>5. SumFunction(f) \in Int /\ SumFunction(g) = SumFunction(f) - f[s] + g[s]
    BY <2>1, <2>2, SumChanges
  <2>6. g[s] \in Int
    BY <2>1
  <2> QED
    BY <2>3, <2>4, <2>5, <2>6
<1>9. Net(positions) \in Int /\ Net(bk) = Net(positions) + n * price[s]
  <2> DEFINE f == [x \in Symbols |-> MarketValue(x, positions)]
             g == [x \in Symbols |-> MarketValue(x, bk)]
  <2>1. f \in [Symbols -> Int] /\ g \in [Symbols -> Int]
    BY <1>5
  <2>2. \A x \in Symbols \ {s} : g[x] = f[x]
    BY <1>4
  <2>3. f[s] = 0 /\ g[s] = n * price[s]
    BY <1>3
  <2>4. Net(positions) = SumFunction(f) /\ Net(bk) = SumFunction(g)
    BY DEF Net
  <2> HIDE DEF f, g
  <2>5. SumFunction(f) \in Int /\ SumFunction(g) = SumFunction(f) - f[s] + g[s]
    BY <2>1, <2>2, SumChanges
  <2>6. g[s] \in Int
    BY <2>1
  <2> QED
    BY <2>3, <2>4, <2>5, <2>6
<1> QED
  BY <1>8, <1>9

LEMMA OneMoreHeld ==
  ASSUME TypeOK, NEW s \in Symbols, positions[s] = 0, NEW n \in Int, n # 0,
         NEW bk, bk = [positions EXCEPT ![s] = n]
  PROVE  /\ Cardinality(Held(positions)) \in Nat
         /\ Cardinality(Held(bk)) = Cardinality(Held(positions)) + 1
         /\ sector_open_count(s, positions) \in Nat
         /\ Cardinality({x \in Held(bk) : SectorOf[x] = SectorOf[s]}) = sector_open_count(s, positions) + 1
<1> DEFINE peers == {x \in Held(positions) \ {s} : SectorOf[x] = SectorOf[s]}
<1>1. Held(bk) = Held(positions) \cup {s} /\ s \notin Held(positions)
  BY DEF Held, TypeOK
<1>2. {x \in Held(bk) : SectorOf[x] = SectorOf[s]} = peers \cup {s} /\ s \notin peers
  BY <1>1
<1>3. IsFiniteSet(Held(positions)) /\ IsFiniteSet(peers)
  <2>1. Held(positions) \in SUBSET Symbols /\ peers \in SUBSET Symbols
    BY DEF Held
  <2> QED
    BY <2>1, SymbolsAssumption, FS_Subset
<1>4. sector_open_count(s, positions) = Cardinality(peers)
  BY DEF sector_open_count
<1> HIDE DEF peers
<1>5. /\ Cardinality(Held(positions)) \in Nat /\ Cardinality(peers) \in Nat
      /\ Cardinality(Held(positions) \cup {s}) = Cardinality(Held(positions)) + 1
      /\ Cardinality(peers \cup {s}) = Cardinality(peers) + 1
  BY <1>1, <1>2, <1>3, FS_AddElement, FS_CardinalityType
<1> QED
  BY <1>1, <1>2, <1>4, <1>5

LEMMA HeatAdds ==
  ASSUME TypeOK, NEW s \in Symbols, open_trades[s] = NoTrade,
         NEW t \in Trade, t # NoTrade, NEW trs, trs = [open_trades EXCEPT ![s] = t]
  PROVE  /\ portfolio_heat(open_trades) \in Int
         /\ StopRisk(t.action, t.qty, t.entry, t.stop) \in Int
         /\ portfolio_heat(trs) = portfolio_heat(open_trades) + StopRisk(t.action, t.qty, t.entry, t.stop)
<1>1. ASSUME NEW u \in Trade PROVE Risked(u) \in Int
  <2>1. CASE u = NoTrade
    BY <2>1 DEF Risked
  <2>2. CASE u # NoTrade
    <3>1. PICK act \in Entries, qty \in Quantities, entry \in Prices, stop \in Int :
            u = [action |-> act, qty |-> qty, entry |-> entry, stop |-> stop]
      BY <2>2 DEF Trade
    <3>2. u.action = act /\ u.qty = qty /\ u.entry = entry /\ u.stop = stop
      BY <3>1
    <3>3. qty \in Int /\ entry \in Int /\ equity \in Int /\ risk["risk_per_trade_pct"] \in Int
      BY ValuesAssumption, ConfigsAssumption DEF TypeOK, Limits
    <3>4. PICK dist \in Int : dist = Higher(IF act = "short" THEN stop - entry ELSE entry - stop, 0)
      BY <3>3 DEF Higher
    <3>5. PerTrade \in Int
      BY <3>3 DEF PerTrade
    <3>6. Risked(u) = IF stop = 0 THEN PerTrade ELSE 100 * qty * dist
      BY <2>2, <3>2, <3>4 DEF Risked, StopRisk
    <3> QED
      BY <3>3, <3>4, <3>5, <3>6
  <2> QED
    BY <2>1, <2>2
<1> DEFINE f == [x \in Symbols |-> Risked(open_trades[x])]
           g == [x \in Symbols |-> Risked(trs[x])]
<1>2. trs \in [Symbols -> Trade] /\ open_trades \in [Symbols -> Trade]
  BY DEF TypeOK
<1>3. f \in [Symbols -> Int] /\ g \in [Symbols -> Int]
  BY <1>1, <1>2
<1>4. \A x \in Symbols \ {s} : g[x] = f[x]
  BY DEF TypeOK
<1>5. f[s] = 0 /\ g[s] = StopRisk(t.action, t.qty, t.entry, t.stop)
  BY <1>2 DEF Risked
<1>6. portfolio_heat(open_trades) = SumFunction(f) /\ portfolio_heat(trs) = SumFunction(g)
  BY DEF portfolio_heat
<1> HIDE DEF f, g
<1>7. SumFunction(f) \in Int /\ SumFunction(g) = SumFunction(f) - f[s] + g[s]
  BY <1>3, <1>4, SumChanges
<1>8. g[s] \in Int
  BY <1>3
<1> QED
  BY <1>5, <1>6, <1>7, <1>8

\* The conditions under which the rails of an entry refuse.
NoSlot(o)  == risk["max_open_positions"] # 0 /\ o.symbol \notin Held(positions)
                /\ Cardinality(Held(positions)) >= risk["max_open_positions"]
NoOwn(o)   == risk["max_per_strategy"] # 0 /\ o.symbol \notin Held(positions)
                /\ OpenEntries >= risk["max_per_strategy"]
TooLarge(o) == (Abs(MarketValue(o.symbol, positions)) + Value(o)) * 100
                 > equity * risk["max_position_pct"]
TooGross(o) == risk["down_max_gross_pct"] # 0 /\ down
                 /\ (Gross(positions) + Value(o)) * 100 > equity * risk["down_max_gross_pct"]
TooLong(o)  == o.action = "buy" /\ risk["net_max"] # 0
                 /\ Projected(o) * 100 > equity * risk["net_max"]
TooShort(o) == o.action = "short" /\ risk["net_min"] # 0
                 /\ Projected(o) * 100 < equity * risk["net_min"]
Opposite(o) == \/ o.action = "short" /\ MarketValue(o.symbol, positions) > 0
               \/ o.action = "buy" /\ MarketValue(o.symbol, positions) < 0
Crowded(o)  == risk["max_per_sector"] # 0 /\ SectorOf[o.symbol] # NoSector
                 /\ sector_open_count(o.symbol, positions) >= risk["max_per_sector"]

LEMMA Fires == ASSUME NEW x, NEW name, NEW fires
               PROVE  x \in Rail(name, fires) <=> x = name /\ fires
  BY DEF Rail

LEMMA EntryRefusals ==
  ASSUME NEW o, NEW p, NEW x
  PROVE  x \in EntryRails(o, p) <=>
           \/ x = "drawdown" /\ drawdown(p)
           \/ x = "max_open_positions" /\ NoSlot(o)
           \/ x = "strategy_slots" /\ NoOwn(o)
           \/ x = "position_cap" /\ TooLarge(o)
           \/ x = "regime_exposure" /\ TooGross(o)
           \/ x = "net_exposure" /\ (TooLong(o) \/ TooShort(o))
           \/ x = "direction_conflict" /\ Opposite(o)
           \/ x = "sector_concentration" /\ Crowded(o)
<1>1. EntryRails(o, p) = UNION {
        Rail("drawdown", drawdown(p)), Rail("max_open_positions", NoSlot(o)),
        Rail("strategy_slots", NoOwn(o)), Rail("position_cap", TooLarge(o)),
        Rail("regime_exposure", TooGross(o)), Rail("net_exposure", TooLong(o) \/ TooShort(o)),
        Rail("direction_conflict", Opposite(o)), Rail("sector_concentration", Crowded(o)) }
  BY Zenon DEF EntryRails, NoSlot, NoOwn, OpenEntries, TooLarge, TooGross, TooLong, TooShort,
     Projected, Opposite, Crowded
<1>2. ASSUME NEW a, NEW b, NEW c, NEW d, NEW e, NEW f, NEW g, NEW h
      PROVE  x \in UNION {a, b, c, d, e, f, g, h} <=>
               x \in a \/ x \in b \/ x \in c \/ x \in d \/ x \in e \/ x \in f \/ x \in g \/ x \in h
  OBVIOUS
<1>3. /\ x \in Rail("drawdown", drawdown(p)) <=> x = "drawdown" /\ drawdown(p)
      /\ x \in Rail("max_open_positions", NoSlot(o)) <=> x = "max_open_positions" /\ NoSlot(o)
      /\ x \in Rail("strategy_slots", NoOwn(o)) <=> x = "strategy_slots" /\ NoOwn(o)
      /\ x \in Rail("position_cap", TooLarge(o)) <=> x = "position_cap" /\ TooLarge(o)
  BY DEF Rail
<1>4. /\ x \in Rail("regime_exposure", TooGross(o)) <=> x = "regime_exposure" /\ TooGross(o)
      /\ x \in Rail("net_exposure", TooLong(o) \/ TooShort(o))
           <=> x = "net_exposure" /\ (TooLong(o) \/ TooShort(o))
      /\ x \in Rail("direction_conflict", Opposite(o)) <=> x = "direction_conflict" /\ Opposite(o)
      /\ x \in Rail("sector_concentration", Crowded(o)) <=> x = "sector_concentration" /\ Crowded(o)
  BY DEF Rail
<1>5. x \in EntryRails(o, p) <=>
        \/ x \in Rail("drawdown", drawdown(p)) \/ x \in Rail("max_open_positions", NoSlot(o))
        \/ x \in Rail("strategy_slots", NoOwn(o)) \/ x \in Rail("position_cap", TooLarge(o))
        \/ x \in Rail("regime_exposure", TooGross(o))
        \/ x \in Rail("net_exposure", TooLong(o) \/ TooShort(o))
        \/ x \in Rail("direction_conflict", Opposite(o))
        \/ x \in Rail("sector_concentration", Crowded(o))
  BY <1>1, <1>2
<1> QED
  BY <1>3, <1>4, <1>5

\* An entry that no rail refuses has been found to leave room.
LEMMA EntryCleared ==
  ASSUME NEW o, NEW p, o.action \in Entries, pre_trade_checks(o, p) = {}
  PROVE  /\ ~ NoSlot(o) /\ ~ NoOwn(o) /\ ~ TooLarge(o) /\ ~ TooGross(o)
         /\ ~ TooLong(o) /\ ~ TooShort(o) /\ ~ Crowded(o) /\ ~ Heat(o)
<1>1. pure_checks(o, p) = {} /\ Rail("heat", Heat(o)) = {}
  BY DEF pre_trade_checks
<1>2. EntryRails(o, p) = {}
  BY <1>1 DEF pure_checks
<1> QED
  BY <1>1, <1>2, EntryRefusals, Fires, Zenon

\* What the counts, the exposures and the heat leave of a share of equity.
LEMMA PartOf ==
  ASSUME NEW n \in Int, NEW e \in Nat, e # 0, NEW pct \in Int, n * 100 <= e * pct
  PROVE  (n * 100) \div e <= pct
  OBVIOUS

LEMMA EntryWithin ==
  ASSUME TypeOK, TypeOK', ViewsTrue, NEW a \in Entries, NEW s \in Symbols, NEW q \in Quantities,
         Enter(Order(a, s, q))
  PROVE  Within(book', trades', s)
<1> DEFINE o == Order(a, s, q)
           n == Signed(o)
           value == q * price[s]
           shown == [positions EXCEPT ![s] = n]
<1>1. o.action = a /\ o.symbol = s /\ o.qty = q /\ q \in Nat /\ q # 0 /\ n \in Int /\ n # 0
  <2>1. q \in Nat /\ q # 0 /\ n \in Int
    BY EntryTyped, ValuesAssumption, SharesInt
  <2> QED
    BY <2>1, EntryTyped, EntryMoves
<1>2. cycle /\ positions[s] = 0 /\ pre_trade_checks(o, PeakNow) = {}
  BY <1>1 DEF Enter
<1>3. positions = book /\ open_trades = trades /\ open_trades[s] = NoTrade
      /\ Held(positions) = {x \in Symbols : open_trades[x] # NoTrade}
  BY <1>2 DEF ViewsTrue, Held
<1>4. book' = shown
  BY <1>3, EntryMoves
<1>5. price[s] \in Nat /\ price[s] # 0 /\ equity \in Nat /\ equity # 0
  BY ValuesAssumption DEF TypeOK
<1>6. n = IF a = "short" THEN -q ELSE q
  BY <1>1 DEF Signed
<1>7. /\ value \in Nat /\ Value(o) = value /\ Abs(n * price[s]) = value
      /\ n * price[s] = IF a = "short" THEN -value ELSE value
  <2>1. Value(o) = value
    BY <1>1 DEF Value
  <2> QED
    BY <1>1, <1>5, <1>6, <2>1, Magnitude
<1>8. PICK v \in Nat : v = value
  BY <1>7
<1>9. MarketValue(s, positions) = 0 /\ Abs(MarketValue(s, positions)) = 0
  BY <1>2, <1>5 DEF MarketValue, Abs
<1>10. \A l \in Limits : risk[l] \in Int
  BY ConfigsAssumption DEF TypeOK
<1> HIDE DEF n, value, shown
<1>11. ~ Heat(o) /\ s \notin Held(positions)
  BY <1>1, <1>2, EntryCleared DEF Held
\* The name's own share.
<1>12. Abs(book'[s] * price[s]) * 100 <= equity * risk["max_position_pct"]
  <2>1. ~ ((Abs(MarketValue(s, positions)) + Value(o)) * 100 > equity * risk["max_position_pct"])
    BY <1>1, <1>2, EntryCleared DEF TooLarge
  <2>2. PICK cap \in Int : cap = equity * risk["max_position_pct"]
    BY <1>5, <1>10 DEF Limits
  <2>3. v * 100 <= cap
    BY <1>7, <1>8, <1>9, <2>1, <2>2
  <2>4. Abs(book'[s] * price[s]) = v
    BY <1>4, <1>7, <1>8 DEF shown, TypeOK
  <2> QED
    BY <2>2, <2>3, <2>4
\* The slots, the strategy's and the sector's.
<1>13. /\ Cardinality(Held(positions)) \in Nat /\ sector_open_count(s, positions) \in Nat
       /\ Cardinality(Held(book')) = Cardinality(Held(positions)) + 1
       /\ Cardinality({x \in Held(book') : SectorOf[x] = SectorOf[s]}) = sector_open_count(s, positions) + 1
  BY <1>1, <1>2, <1>4, OneMoreHeld DEF shown
<1>14. risk["max_open_positions"] = 0 \/ Cardinality(Held(book')) <= risk["max_open_positions"]
  <2>1. ~ (risk["max_open_positions"] # 0 /\ Cardinality(Held(positions)) >= risk["max_open_positions"])
    BY <1>1, <1>2, <1>11, EntryCleared DEF NoSlot
  <2>2. risk["max_open_positions"] \in Int
    BY <1>10 DEF Limits
  <2> QED
    BY <1>13, <2>1, <2>2
<1>15. risk["max_per_strategy"] = 0 \/ Cardinality(Held(book')) <= risk["max_per_strategy"]
  <2>1. ~ (risk["max_per_strategy"] # 0 /\ Cardinality(Held(positions)) >= risk["max_per_strategy"])
    BY <1>1, <1>2, <1>3, <1>11, EntryCleared DEF NoOwn, OpenEntries
  <2>2. risk["max_per_strategy"] \in Int
    BY <1>10 DEF Limits
  <2> QED
    BY <1>13, <2>1, <2>2
<1>16. SectorOf[s] # NoSector =>
         \/ risk["max_per_sector"] = 0
         \/ Cardinality({x \in Held(book') : SectorOf[x] = SectorOf[s]}) <= risk["max_per_sector"]
  <2>1. ~ (risk["max_per_sector"] # 0 /\ SectorOf[s] # NoSector
             /\ sector_open_count(s, positions) >= risk["max_per_sector"])
    BY <1>1, <1>2, EntryCleared DEF Crowded
  <2>2. risk["max_per_sector"] \in Int
    BY <1>10 DEF Limits
  <2> QED
    BY <1>13, <2>1, <2>2
\* The exposures.
<1>17. /\ Gross(positions) \in Int /\ Net(positions) \in Int
       /\ Gross(book') = Gross(positions) + v
       /\ Net(book') = Net(positions) + (IF a = "short" THEN -v ELSE v)
  <2>1. PICK bk : bk = shown
    OBVIOUS
  <2>2. /\ Gross(positions) \in Int /\ Net(positions) \in Int
        /\ Gross(bk) = Gross(positions) + Abs(n * price[s])
        /\ Net(bk) = Net(positions) + n * price[s]
    BY <1>1, <1>2, <2>1, Exposures DEF shown
  <2>3. bk = book'
    BY <1>4, <2>1
  <2> QED
    BY <1>7, <1>8, <2>2, <2>3
<1>18. down => \/ risk["down_max_gross_pct"] = 0
               \/ (Gross(book') * 100) \div equity <= risk["down_max_gross_pct"]
  <2> SUFFICES ASSUME down, risk["down_max_gross_pct"] # 0
               PROVE  (Gross(book') * 100) \div equity <= risk["down_max_gross_pct"]
    OBVIOUS
  <2>1. ~ ((Gross(positions) + Value(o)) * 100 > equity * risk["down_max_gross_pct"])
    BY <1>1, <1>2, EntryCleared DEF TooGross
  <2>2. risk["down_max_gross_pct"] \in Int
    BY <1>10 DEF Limits
  <2>3. PICK cap \in Int : cap = equity * risk["down_max_gross_pct"]
    BY <1>5, <2>2
  <2>4. Gross(book') \in Int /\ Gross(book') * 100 <= cap
    BY <1>7, <1>8, <1>17, <2>1, <2>3
  <2> QED
    BY <1>5, <2>2, <2>3, <2>4, PartOf
<1>19. (book'[s] > 0 <=> a # "short") /\ (book'[s] < 0 <=> a = "short")
  BY <1>1, <1>4, <1>6 DEF shown, TypeOK
<1>20. book'[s] > 0 /\ risk["net_max"] # 0 => Net(book') * 100 <= equity * risk["net_max"]
  <2> SUFFICES ASSUME a = "buy", risk["net_max"] # 0
               PROVE  Net(book') * 100 <= equity * risk["net_max"]
    BY <1>19 DEF Entries
  <2>1. ~ ((Net(positions) + Value(o)) * 100 > equity * risk["net_max"])
    BY <1>1, <1>2, EntryCleared DEF TooLong, Projected
  <2>2. PICK cap \in Int : cap = equity * risk["net_max"]
    BY <1>5, <1>10 DEF Limits
  <2> QED
    BY <1>7, <1>8, <1>17, <2>1, <2>2
<1>21. book'[s] < 0 /\ risk["net_min"] # 0 => Net(book') * 100 >= equity * risk["net_min"]
  <2> SUFFICES ASSUME a = "short", risk["net_min"] # 0
               PROVE  Net(book') * 100 >= equity * risk["net_min"]
    BY <1>19
  <2>1. ~ ((Net(positions) + (-Value(o))) * 100 < equity * risk["net_min"])
    BY <1>1, <1>2, EntryCleared DEF TooShort, Projected
  <2>2. PICK cap \in Int : cap = equity * risk["net_min"]
    BY <1>5, <1>10 DEF Limits
  <2> QED
    BY <1>7, <1>8, <1>17, <2>1, <2>2
\* The heat.
<1>22. risk["max_portfolio_heat_pct"] > 0 =>
         portfolio_heat(trades') <= equity * risk["max_portfolio_heat_pct"]
  <2> SUFFICES ASSUME risk["max_portfolio_heat_pct"] > 0
               PROVE  portfolio_heat(trades') <= equity * risk["max_portfolio_heat_pct"]
    OBVIOUS
  <2> DEFINE t == [action |-> a, qty |-> q, entry |-> price[s], stop |-> StopPrice(a, s)]
  <2>1. /\ t.action = a /\ t.qty = q /\ t.entry = price[s] /\ t.stop = StopPrice(a, s)
        /\ t # NoTrade /\ trades' = [trades EXCEPT ![s] = t]
    BY EntryMoves
  <2>2. t \in Trade
    <3>1. price[s] \in Prices /\ StopPrice(a, s) \in Int
      BY StopTyped DEF TypeOK
    <3> QED
      BY <3>1 DEF Trade
  <2> HIDE DEF t
  <2>3. trades' = [open_trades EXCEPT ![s] = t]
    BY <1>3, <2>1
  <2>4. PICK trs : trs = [open_trades EXCEPT ![s] = t]
    OBVIOUS
  <2>5. /\ portfolio_heat(open_trades) \in Int
        /\ StopRisk(t.action, t.qty, t.entry, t.stop) \in Int
        /\ portfolio_heat(trs) = portfolio_heat(open_trades) + StopRisk(t.action, t.qty, t.entry, t.stop)
    BY <1>3, <2>1, <2>2, <2>4, HeatAdds
  <2>6. StopRisk(t.action, t.qty, t.entry, t.stop)
          = StopRisk(o.action, o.qty, price[o.symbol], StopPrice(o.action, o.symbol))
    BY <1>1, <2>1
  <2>7. ~ (portfolio_heat(open_trades)
             + StopRisk(o.action, o.qty, price[o.symbol], StopPrice(o.action, o.symbol))
             > equity * risk["max_portfolio_heat_pct"])
    BY <1>1, <1>11 DEF Heat
  <2>8. PICK cap \in Int : cap = equity * risk["max_portfolio_heat_pct"]
    BY <1>5, <1>10 DEF Limits
  <2>9. portfolio_heat(trs) <= cap
    BY <2>5, <2>6, <2>7, <2>8
  <2> QED
    BY <2>3, <2>4, <2>8, <2>9
<1>23. /\ Held(book') = {x \in Symbols : book'[x] # 0}
       /\ Gross(book') = SumFunction([x \in Symbols |-> Abs(book'[x] * price[x])])
       /\ Net(book') = SumFunction([x \in Symbols |-> book'[x] * price[x]])
  BY DEF Held, Gross, Net, MarketValue
<1> HIDE DEF o
<1> QED
  BY <1>12, <1>14, <1>15, <1>16, <1>18, <1>20, <1>21, <1>22, <1>23 DEF Within

\* Nothing but an entry opens a position.
LEMMA OnlyEntriesOpen ==
  ASSUME TypeOK, [Next]_vars, NEW s \in Symbols, Opens(s)
  PROVE  \E a \in Entries, q \in Quantities : Enter(Order(a, s, q))
<1> USE DEF vars, market, files, views, times, ghosts
<1>1. book[s] = 0 /\ book'[s] # 0
  BY DEF Opens
<1>2. ASSUME NEW x \in Symbols, Exit(x) \/ PassOver(x) \/ StopFills(x) PROVE FALSE
  BY <1>1, <1>2 DEF Exit, PassOver, StopFills, TypeOK
<1>3. ASSUME NEW e \in Equities, NEW p \in [Symbols -> Prices], Begin(e, p) PROVE FALSE
  BY <1>1, <1>3 DEF Begin
<1>4. ~ (End \/ NewDay \/ OperatorResets \/ Damage \/ UNCHANGED vars)
  BY <1>1 DEF End, NewDay, OperatorResets, Damage
<1>5. PICK a \in Entries, x \in Symbols, q \in Quantities : Enter(Order(a, x, q))
  BY <1>2, <1>3, <1>4 DEF Next
<1>6. x = s
  BY <1>1, <1>5, EntryMoves DEF TypeOK
<1> QED
  BY <1>5, <1>6

LEMMA LimitsStep ==
  ASSUME TypeOK, TypeOK', ViewsTrue, [Next]_vars
  PROVE  \A s \in Symbols : Opens(s) => Within(book', trades', s)
  BY OnlyEntriesOpen, EntryWithin

-----------------------------------------------------------------------------
(* The census.                                                             *)

LEMMA Refuses == ASSUME NEW asked, NEW refuses
                 PROVE  Verdict(asked, refuses) = "refuses" <=> asked /\ refuses
  BY DEF Verdict

LEMMA LeastOf ==
  ASSUME NEW S \in SUBSET Nat, S # {}
  PROVE  \E x \in S : \A y \in S : x <= y
<1> DEFINE R == OpToRel(<, Nat)
<1>1. IsWellFoundedOn(R, Nat)
  BY NatLessThanWellFounded
<1>2. \A x, y \in Nat : <<y, x>> \in R <=> y < x
  BY DEF OpToRel
<1> HIDE DEF R
<1>3. \E x \in S : \A y \in S : ~ (<<y, x>> \in R)
  BY <1>1, WFMin
<1>4. PICK x \in S : \A y \in S : ~ (<<y, x>> \in R)
  BY <1>3
<1>5. ASSUME NEW y \in S PROVE x <= y
  <2>1. x \in Nat /\ y \in Nat /\ ~ (<<y, x>> \in R)
    BY <1>4
  <2>2. ~ (y < x)
    BY <1>2, <2>1
  <2> QED
    BY <2>1, <2>2
<1> QED
  BY <1>5

Named(census) == {PURE_RAILS[i] : i \in Refusers(census)}

\* What both implementations say of an order, rail by rail.
Says(o, p, x) ==
  LET entry == o.action \in Entries
  IN \/ x = "zero_qty" /\ o.qty <= 0
     \/ x = "order_value_cap" /\ risk["max_order_value_usd"] # 0
          /\ Value(o) > risk["max_order_value_usd"]
     \/ x = "drawdown" /\ entry /\ drawdown(p)
     \/ x = "max_open_positions" /\ entry /\ NoSlot(o)
     \/ x = "strategy_slots" /\ entry /\ NoOwn(o)
     \/ x = "position_cap" /\ entry /\ TooLarge(o)
     \/ x = "regime_exposure" /\ entry /\ TooGross(o)
     \/ x = "net_exposure" /\ entry /\ (TooLong(o) \/ TooShort(o))
     \/ x = "desync_sell" /\ o.action = "sell" /\ MarketValue(o.symbol, positions) <= 0
     \/ x = "desync_cover" /\ o.action = "cover" /\ MarketValue(o.symbol, positions) >= 0
     \/ x = "direction_conflict" /\ entry /\ Opposite(o)
     \/ x = "sector_concentration" /\ entry /\ Crowded(o)

LEMMA ChecksSay ==
  ASSUME NEW o \in Orders, NEW p, NEW x
  PROVE  x \in pure_checks(o, p) <=> Says(o, p, x)
<1>1. CASE o.action \in Entries
  <2>1. o.action # "sell" /\ o.action # "cover"
    BY <1>1 DEF Entries
  <2>2. pure_checks(o, p) = (Rail("zero_qty", o.qty <= 0)
          \cup Rail("order_value_cap",
                    risk["max_order_value_usd"] # 0 /\ Value(o) > risk["max_order_value_usd"]))
          \cup EntryRails(o, p)
    BY <1>1 DEF pure_checks
  <2>3. x \in pure_checks(o, p) <=>
          \/ x = "zero_qty" /\ o.qty <= 0
          \/ x = "order_value_cap" /\ risk["max_order_value_usd"] # 0
               /\ Value(o) > risk["max_order_value_usd"]
          \/ x \in EntryRails(o, p)
    BY <2>2 DEF Rail
  <2> QED
    BY <1>1, <2>1, <2>3, EntryRefusals, Zenon DEF Says
<1>2. CASE o.action \notin Entries
  <2>1. x \in pure_checks(o, p) <=>
          \/ x = "zero_qty" /\ o.qty <= 0
          \/ x = "order_value_cap" /\ risk["max_order_value_usd"] # 0
               /\ Value(o) > risk["max_order_value_usd"]
          \/ x = "desync_sell" /\ o.action = "sell" /\ MarketValue(o.symbol, positions) <= 0
          \/ x = "desync_cover" /\ o.action = "cover" /\ MarketValue(o.symbol, positions) >= 0
    BY <1>2 DEF pure_checks, ExitRails, Rail
  <2> QED
    BY <1>2, <2>1, Zenon DEF Says
<1> QED
  BY <1>1, <1>2

LEMMA CensusSays ==
  ASSUME NEW o \in Orders, NEW p, p # Unknown, OpenEntries # Unknown, NEW x
  PROVE  x \in Named(rail_census(o, p, OpenEntries)) <=> Says(o, p, x)
<1> DEFINE c == rail_census(o, p, OpenEntries)
           entry == o.action \in Entries
<1>1. x \in Named(c) <=>
        \/ x = "zero_qty" /\ c.zero_qty = "refuses"
        \/ x = "order_value_cap" /\ c.order_value_cap = "refuses"
        \/ x = "drawdown" /\ c.drawdown = "refuses"
        \/ x = "max_open_positions" /\ c.max_open_positions = "refuses"
        \/ x = "strategy_slots" /\ c.strategy_slots = "refuses"
        \/ x = "position_cap" /\ c.position_cap = "refuses"
        \/ x = "regime_exposure" /\ c.regime_exposure = "refuses"
        \/ x = "net_exposure" /\ c.net_exposure = "refuses"
        \/ x = "desync_sell" /\ c.desync_sell = "refuses"
        \/ x = "desync_cover" /\ c.desync_cover = "refuses"
        \/ x = "direction_conflict" /\ c.direction_conflict = "refuses"
        \/ x = "sector_concentration" /\ c.sector_concentration = "refuses"
  <2> HIDE DEF c
  <2>1. DOMAIN PURE_RAILS = 1 .. 12
    BY DEF PURE_RAILS
  <2>2. x \in Named(c) <=> \E i \in 1 .. 12 : x = PURE_RAILS[i] /\ c[PURE_RAILS[i]] = "refuses"
    BY <2>1 DEF Named, Refusers
  <2>3. \A i : i \in 1 .. 12 <=> i = 1 \/ i = 2 \/ i = 3 \/ i = 4 \/ i = 5 \/ i = 6
                               \/ i = 7 \/ i = 8 \/ i = 9 \/ i = 10 \/ i = 11 \/ i = 12
    OBVIOUS
  <2>4. /\ PURE_RAILS[1] = "zero_qty" /\ PURE_RAILS[2] = "order_value_cap"
        /\ PURE_RAILS[3] = "drawdown" /\ PURE_RAILS[4] = "max_open_positions"
        /\ PURE_RAILS[5] = "strategy_slots" /\ PURE_RAILS[6] = "position_cap"
        /\ PURE_RAILS[7] = "regime_exposure" /\ PURE_RAILS[8] = "net_exposure"
        /\ PURE_RAILS[9] = "desync_sell" /\ PURE_RAILS[10] = "desync_cover"
        /\ PURE_RAILS[11] = "direction_conflict" /\ PURE_RAILS[12] = "sector_concentration"
    BY DEF PURE_RAILS
  <2>5. x \in Named(c) <=>
          \/ x = PURE_RAILS[1] /\ c[PURE_RAILS[1]] = "refuses"
          \/ x = PURE_RAILS[2] /\ c[PURE_RAILS[2]] = "refuses"
          \/ x = PURE_RAILS[3] /\ c[PURE_RAILS[3]] = "refuses"
          \/ x = PURE_RAILS[4] /\ c[PURE_RAILS[4]] = "refuses"
          \/ x = PURE_RAILS[5] /\ c[PURE_RAILS[5]] = "refuses"
          \/ x = PURE_RAILS[6] /\ c[PURE_RAILS[6]] = "refuses"
          \/ x = PURE_RAILS[7] /\ c[PURE_RAILS[7]] = "refuses"
          \/ x = PURE_RAILS[8] /\ c[PURE_RAILS[8]] = "refuses"
          \/ x = PURE_RAILS[9] /\ c[PURE_RAILS[9]] = "refuses"
          \/ x = PURE_RAILS[10] /\ c[PURE_RAILS[10]] = "refuses"
          \/ x = PURE_RAILS[11] /\ c[PURE_RAILS[11]] = "refuses"
          \/ x = PURE_RAILS[12] /\ c[PURE_RAILS[12]] = "refuses"
    BY <2>2, <2>3
  <2> QED
    BY <2>4, <2>5
<1>2. o.action \in {"buy", "short", "sell", "cover"}
      /\ (entry <=> o.action \in {"buy", "short"})
  BY DEF Orders, Entries, Exits
<1>3. /\ c.zero_qty = "refuses" <=> o.qty <= 0
      /\ c.order_value_cap = "refuses" <=>
           risk["max_order_value_usd"] # 0 /\ Value(o) > risk["max_order_value_usd"]
      /\ c.drawdown = "refuses" <=> entry /\ drawdown(p)
      /\ c.max_open_positions = "refuses" <=> entry /\ NoSlot(o)
  BY DEF rail_census, Verdict, drawdown, NoSlot
<1>4. /\ c.strategy_slots = "refuses" <=> entry /\ NoOwn(o)
      /\ c.position_cap = "refuses" <=> entry /\ TooLarge(o)
      /\ c.regime_exposure = "refuses" <=> entry /\ TooGross(o)
  BY DEF rail_census, Verdict, NoOwn, TooLarge, TooGross
<1>5. c.net_exposure = "refuses" <=> entry /\ (TooLong(o) \/ TooShort(o))
  BY <1>2 DEF rail_census, Verdict, TooLong, TooShort
<1>6. /\ c.desync_sell = "refuses" <=>
           o.action = "sell" /\ MarketValue(o.symbol, positions) <= 0
      /\ c.desync_cover = "refuses" <=>
           o.action = "cover" /\ MarketValue(o.symbol, positions) >= 0
  BY DEF rail_census, Verdict
<1>7. /\ c.direction_conflict = "refuses" <=> entry /\ Opposite(o)
      /\ c.sector_concentration = "refuses" <=> entry /\ Crowded(o)
  BY <1>2 DEF rail_census, Verdict, Opposite, Crowded
<1> DEFINE nothing == o.qty <= 0
           dear == Value(o) > risk["max_order_value_usd"]
           unowned == MarketValue(o.symbol, positions) <= 0
           uncovered == MarketValue(o.symbol, positions) >= 0
<1>8. Says(o, p, x) <=>
        \/ x = "zero_qty" /\ nothing
        \/ x = "order_value_cap" /\ risk["max_order_value_usd"] # 0 /\ dear
        \/ x = "drawdown" /\ entry /\ drawdown(p)
        \/ x = "max_open_positions" /\ entry /\ NoSlot(o)
        \/ x = "strategy_slots" /\ entry /\ NoOwn(o)
        \/ x = "position_cap" /\ entry /\ TooLarge(o)
        \/ x = "regime_exposure" /\ entry /\ TooGross(o)
        \/ x = "net_exposure" /\ entry /\ (TooLong(o) \/ TooShort(o))
        \/ x = "desync_sell" /\ o.action = "sell" /\ unowned
        \/ x = "desync_cover" /\ o.action = "cover" /\ uncovered
        \/ x = "direction_conflict" /\ entry /\ Opposite(o)
        \/ x = "sector_concentration" /\ entry /\ Crowded(o)
  BY Zenon DEF Says
<1> HIDE DEF c, entry, nothing, dear, unowned, uncovered
<1>9. /\ c.zero_qty = "refuses" <=> nothing
      /\ c.order_value_cap = "refuses" <=> risk["max_order_value_usd"] # 0 /\ dear
      /\ c.desync_sell = "refuses" <=> o.action = "sell" /\ unowned
      /\ c.desync_cover = "refuses" <=> o.action = "cover" /\ uncovered
  BY <1>3, <1>6, Zenon DEF nothing, dear, unowned, uncovered
<1>10. /\ c.drawdown = "refuses" <=> entry /\ drawdown(p)
       /\ c.max_open_positions = "refuses" <=> entry /\ NoSlot(o)
  BY <1>3
<1>11. x \in Named(c) <=> Says(o, p, x)
  BY <1>1, <1>4, <1>5, <1>7, <1>8, <1>9, <1>10
<1> QED
  BY <1>11 DEF c

\* Asked as main.py asks, without the slots and the peak, two rails fall out.
LEMMA SafeCensusSays ==
  ASSUME NEW o \in Orders, NEW p, p # Unknown, OpenEntries # Unknown
  PROVE  Named(_rail_census_safe(o)) \subseteq Named(rail_census(o, p, OpenEntries))
<1> DEFINE safe == rail_census(o, Unknown, Unknown)
           full == rail_census(o, p, OpenEntries)
<1>1. \A r \in {PURE_RAILS[i] : i \in DOMAIN PURE_RAILS} : safe[r] = "refuses" => full[r] = "refuses"
  <2>1. {PURE_RAILS[i] : i \in DOMAIN PURE_RAILS} \subseteq
          {"zero_qty", "order_value_cap", "drawdown", "max_open_positions",
           "strategy_slots", "position_cap", "regime_exposure", "net_exposure",
           "desync_sell", "desync_cover", "direction_conflict", "sector_concentration"}
    BY DEF PURE_RAILS
  <2>2. /\ safe.zero_qty = full.zero_qty /\ safe.order_value_cap = full.order_value_cap
        /\ safe.drawdown = "na" /\ safe.strategy_slots = "na"
        /\ safe.max_open_positions = full.max_open_positions
        /\ safe.position_cap = full.position_cap /\ safe.regime_exposure = full.regime_exposure
        /\ safe.net_exposure = full.net_exposure /\ safe.desync_sell = full.desync_sell
        /\ safe.desync_cover = full.desync_cover
        /\ safe.direction_conflict = full.direction_conflict
        /\ safe.sector_concentration = full.sector_concentration
    BY DEF rail_census, Verdict
  <2> HIDE DEF safe
  <2>3. \A r \in {"zero_qty", "order_value_cap", "drawdown", "max_open_positions",
           "strategy_slots", "position_cap", "regime_exposure", "net_exposure",
           "desync_sell", "desync_cover", "direction_conflict", "sector_concentration"} :
          safe[r] = full[r] \/ safe[r] = "na"
    BY <2>2
  <2> HIDE DEF full
  <2> QED
    BY <2>1, <2>3
<1>2. _rail_census_safe(o) = safe
  BY DEF _rail_census_safe
<1> HIDE DEF safe, full
<1>3. Named(safe) \subseteq Named(full)
  BY <1>1 DEF Named, Refusers
<1> QED
  BY <1>2, <1>3 DEF full

\* first_refusing_rail names a rail that refuses, if one does.
LEMMA FirstNamed ==
  ASSUME NEW c
  PROVE  first_refusing_rail(c) \in (IF Named(c) = {} THEN {"none"} ELSE Named(c))
<1>1. CASE Refusers(c) = {}
  BY <1>1 DEF first_refusing_rail, Named
<1>2. CASE Refusers(c) # {}
  <2>1. DOMAIN PURE_RAILS = 1 .. 12
    BY DEF PURE_RAILS
  <2>2. Refusers(c) \in SUBSET Nat
    BY <2>1 DEF Refusers
  <2>3. \E x \in Refusers(c) : \A y \in Refusers(c) : x <= y
    BY <1>2, <2>2, LeastOf
  <2>4. Min(Refusers(c)) \in Refusers(c)
    BY <2>3 DEF Min
  <2> QED
    BY <1>2, <2>4 DEF first_refusing_rail, Named
<1> QED
  BY <1>1, <1>2

\* Whatever is disabled, held or asked, the census and the checks refuse the
\* same orders by the same rails.
THEOREM CensusAndChecksAgree == Spec => []CensusAgrees
<1>1. TypeOK => CensusAgrees
  <2> SUFFICES ASSUME TypeOK, NEW o \in Orders
               PROVE  LET refused == pure_checks(o, PeakNow)
                          full == rail_census(o, PeakNow, OpenEntries)
                          Names(c) == {PURE_RAILS[i] : i \in Refusers(c)}
                      IN /\ Names(full) = refused
                         /\ first_refusing_rail(full) \in (IF refused = {} THEN {"none"} ELSE refused)
                         /\ Names(_rail_census_safe(o)) \subseteq refused
    BY DEF CensusAgrees
  <2>1. PeakNow # Unknown
    <3>1. PeakNow \in Equities \cup {0}
      BY PeakTyped DEF PeakNow, TypeOK
    <3> QED
      BY <3>1, ValuesAssumption DEF Unknown
  <2>2. OpenEntries # Unknown
    <3>1. IsFiniteSet({s \in Symbols : open_trades[s] # NoTrade})
      BY SymbolsAssumption, FS_Subset
    <3>2. OpenEntries \in Nat
      BY <3>1, FS_CardinalityType DEF OpenEntries
    <3> QED
      BY <3>2 DEF Unknown
  <2> DEFINE full == rail_census(o, PeakNow, OpenEntries)
  <2>3. \A x : x \in Named(full) <=> Says(o, PeakNow, x)
    BY <2>1, <2>2, CensusSays
  <2>4. \A x : x \in pure_checks(o, PeakNow) <=> Says(o, PeakNow, x)
    BY ChecksSay
  <2> HIDE DEF full
  <2>5. Named(full) = pure_checks(o, PeakNow)
    <3>1. \A x : x \in Named(full) <=> x \in pure_checks(o, PeakNow)
      BY <2>3, <2>4
    <3> QED
      BY <3>1
  <2>6. Named(_rail_census_safe(o)) \subseteq Named(full)
    BY <2>1, <2>2, SafeCensusSays DEF full
  <2>7. first_refusing_rail(full) \in (IF Named(full) = {} THEN {"none"} ELSE Named(full))
    BY FirstNamed
  <2> QED
    BY <2>5, <2>6, <2>7 DEF Named, full
<1> QED
  BY <1>1, RailsTyping, PTL

\* Whatever a cycle has already traded, an entry leaves the book within every
\* limit of its section, and the census of a refusal names the rails that
\* refused: the properties RiskRails and RailCensus are run with.
THEOREM RailsAlwaysBind == Spec => RailsBind
<1>1. Init => ViewsTrue
  BY DEF Init, ViewsTrue
<1>2. TypeOK /\ ViewsTrue /\ [Next]_vars => ViewsTrue'
  BY ViewsStep
<1>3. TypeOK /\ TypeOK' /\ ViewsTrue /\ [Next]_vars
        => [\A s \in Symbols : Opens(s) => Within(book', trades', s)]_vars
  BY LimitsStep
<1>4. Spec => LimitsHold
  BY <1>1, <1>2, <1>3, RailsTyping, PTL DEF Spec, LimitsHold
<1> QED
  BY <1>4, CensusAndChecksAgree, PTL DEF RailsBind
=============================================================================
