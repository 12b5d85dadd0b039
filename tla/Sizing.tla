--------------------------------- MODULE Sizing ---------------------------------
(***************************************************************************)
(* How many shares an entry buys and which stop protects them: the guard   *)
(* of main.py's scan, bracket_prices and size_order of src/risk.py, the    *)
(* judge's scale, and the order that main.py then places.                  *)
(*                                                                         *)
(* Money and prices are whole units and multiples of the ATR are integers. *)
(* The number of shares is exact: the code takes the floor of the smallest *)
(* of some amounts over the price, which is the smallest of the floors.    *)
(***************************************************************************)
EXTENDS Integers, FiniteSets, FiniteSetsExt

CONSTANTS
  Settings,      \* risk sections of config.yaml, with the strategy's own stop width
  Equities, Powers, Prices,
  Atrs,          \* the ATR, 0 where it is unavailable
  Vols,          \* realized volatility in percent, 0 where the history is thin
  Scales         \* the judge's scale, in quarters

\* config.yaml: while brackets are on they have a width; the judge's scale is
\* clamped.
ASSUME SizeAssumption ==
  /\ Settings \subseteq
       [brackets : BOOLEAN, base : Nat \ {0}, high : Nat, own : Nat, tp : Nat, risk_pct : Nat,
        target : Nat, per_trade : Nat, max_position : Nat, max_order : Nat, floor : BOOLEAN]
  /\ Prices \subseteq Nat \ {0} /\ Scales \subseteq 0 .. 4
  /\ Equities \cup Powers \cup Atrs \cup Vols \subseteq Nat

VARIABLES
  set,           \* the configuration
  signal,        \* action, price, atr, vol, high (is the market's volatility high?)
  account,       \* equity, buying power
  stage,         \* "idle", "signal", "priced", "sized", or what became of it
  bracket,       \* stop and take-profit, NoBracket without
  full, qty      \* shares sized, shares the judge leaves

sizing == <<set, signal, account, stage, bracket, full, qty>>

NoBracket == [stop |-> 0, tp |-> 0]
NoSignal == [action |-> "none", price |-> 0, atr |-> 0, vol |-> 0, high |-> FALSE]

Larger(a, b)  == IF a > b THEN a ELSE b
Smaller(a, b) == IF a < b THEN a ELSE b

-----------------------------------------------------------------------------
(* The stop.                                                               *)

\* The stop's width: a strategy's own wins over both of the configuration's.
Width == IF set.own > 0 THEN set.own
         ELSE IF set.high > 0 /\ signal.high THEN set.high ELSE set.base

\* A bug: the guard knows the base width only.
unprotectable_entryBase ==
  /\ set.brackets /\ signal.atr > 0
  /\ set.base > 0 /\ signal.price - set.base * signal.atr <= 0

\* Would the widest stop of any regime be at or below zero?
unprotectable_entry ==
  LET mult == IF set.own > 0 THEN set.own ELSE Larger(set.base, set.high) IN
  /\ set.brackets /\ signal.atr > 0
  /\ mult > 0 /\ signal.price - mult * signal.atr <= 0

\* A bug: only the stop is looked at.
bracket_pricesStop ==
  LET dir == IF signal.action = "short" THEN -1 ELSE 1
      stop == signal.price - dir * Width * signal.atr
      tp == IF set.tp = 0 THEN 0 ELSE signal.price + dir * set.tp * signal.atr
  IN IF ~set.brackets \/ signal.atr = 0 \/ stop <= 0 THEN NoBracket ELSE [stop |-> stop, tp |-> tp]

\* The leg that can go below zero is the stop of a long and the take-profit
\* of a short.
bracket_prices ==
  LET dir == IF signal.action = "short" THEN -1 ELSE 1
      stop == signal.price - dir * Width * signal.atr
      tp == IF set.tp = 0 THEN 0 ELSE signal.price + dir * set.tp * signal.atr
  IN IF ~set.brackets \/ signal.atr = 0 THEN NoBracket
     ELSE IF signal.action = "short" /\ set.tp > 0 /\ tp <= 0 THEN NoBracket
     ELSE IF stop <= 0 THEN NoBracket
     ELSE [stop |-> stop, tp |-> tp]

-----------------------------------------------------------------------------
(* The size.                                                               *)

\* target over realized volatility, clamped, in percent.
vol_scale ==
  IF set.target = 0 \/ signal.vol = 0 THEN 100
  ELSE Smaller(Larger((set.target * 100) \div signal.vol, 50), 150)

\* The stop tells the risk of a share only if it is on the side that loses.
_risk_sizing_active ==
  /\ set.risk_pct > 0 /\ bracket.stop # 0
  /\ IF signal.action = "short" THEN bracket.stop > signal.price
     ELSE bracket.stop < signal.price
Distance == IF signal.action = "short" THEN bracket.stop - signal.price
            ELSE signal.price - bracket.stop

Wanted ==
  IF _risk_sizing_active
  THEN (account.equity * set.risk_pct) \div (100 * Distance)
  ELSE (account.equity * set.per_trade * vol_scale) \div (10000 * signal.price)

\* What the caps allow: the share of the equity, the buying power and the
\* order value, which 0 disables.
Ceiling ==
  Min({(account.equity * set.max_position) \div (100 * signal.price),
       account.power \div signal.price}
      \cup (IF set.max_order > 0 THEN {set.max_order \div signal.price} ELSE {}))

\* A bug: the floor of one share looks at the order value cap only.
size_orderFloor ==
  LET n == Smaller(Wanted, Ceiling) IN
  IF n = 0 /\ set.floor /\ (set.max_order = 0 \/ signal.price <= set.max_order) THEN 1
  ELSE Larger(n, 0)
size_order ==
  LET n == Smaller(Wanted, Ceiling) IN
  IF n = 0 /\ set.floor /\ Ceiling > 0 THEN 1 ELSE Larger(n, 0)

-----------------------------------------------------------------------------
Signal(action, price, atr, vol, high, equity, power) ==
  /\ stage = "idle" /\ stage' = "signal"
  /\ signal' = [action |-> action, price |-> price, atr |-> atr, vol |-> vol, high |-> high]
  /\ account' = [equity |-> equity, power |-> power]
  /\ UNCHANGED <<set, bracket, full, qty>>

\* The scan drops a long or short it could not protect.
Guard ==
  /\ stage = "signal" /\ unprotectable_entry /\ stage' = "held"
  /\ UNCHANGED <<set, signal, account, bracket, full, qty>>

Price ==
  /\ stage = "signal" /\ ~unprotectable_entry /\ stage' = "priced"
  /\ bracket' = bracket_prices
  /\ UNCHANGED <<set, signal, account, full, qty>>

Size ==
  /\ stage = "priced" /\ stage' = "sized"
  /\ full' = size_order
  /\ UNCHANGED <<set, signal, account, bracket, qty>>

\* The judge only shrinks, and what it cuts below a share is not an order
\* (downsize_zero_qty).
Judge(scale) ==
  /\ stage = "sized"
  /\ qty' = (full * scale) \div 4
  /\ stage' = IF qty' = 0 THEN "zero" ELSE IF bracket = NoBracket THEN "plain" ELSE "bracket"
  /\ UNCHANGED <<set, signal, account, bracket, full>>

NextSignal ==
  /\ stage \in {"held", "zero", "plain", "bracket"} /\ stage' = "idle"
  /\ signal' = NoSignal /\ account' = [equity |-> 0, power |-> 0]
  /\ bracket' = NoBracket /\ full' = 0 /\ qty' = 0 /\ UNCHANGED set

SizeInit ==
  /\ set \in Settings /\ signal = NoSignal /\ account = [equity |-> 0, power |-> 0]
  /\ stage = "idle" /\ bracket = NoBracket /\ full = 0 /\ qty = 0

SizeNext ==
  \/ \E action \in {"buy", "short"}, price \in Prices, atr \in Atrs, vol \in Vols,
        high \in BOOLEAN, equity \in Equities, power \in Powers :
       Signal(action, price, atr, vol, high, equity, power)
  \/ Guard \/ Price \/ Size
  \/ \E scale \in Scales : Judge(scale)
  \/ NextSignal

SizeSpec == SizeInit /\ [][SizeNext]_sizing

SizeTypeOK ==
  /\ set \in Settings
  /\ stage \in {"idle", "signal", "held", "priced", "sized", "zero", "plain", "bracket"}
  /\ bracket.stop \in Nat /\ bracket.tp \in Nat /\ full \in Nat /\ qty \in 0 .. full

Ordered == stage \in {"plain", "bracket"}

\* No order the sizing lets out can be refused by a value cap or the broker's
\* buying power, and one sized by its stop loses no more at the stop than its
\* share of the equity, or is the single share of the floor.
SizedSafely ==
  Ordered =>
    /\ qty * signal.price <= account.power
    /\ qty * signal.price * 100 <= account.equity * set.max_position
    /\ set.max_order > 0 => qty * signal.price <= set.max_order
    /\ _risk_sizing_active /\ qty > 1 =>
         qty * Distance * 100 <= account.equity * set.risk_pct

\* A long that passes the guard while brackets are on and the ATR is known
\* is never placed without a stop, in any volatility regime and whatever
\* width its strategy asks for; and the stop is a real one.  The legs placed
\* with an order, of a short too, are prices an order can have.
NeverNaked ==
  /\ Ordered /\ signal.action = "buy" /\ set.brackets /\ signal.atr > 0 =>
       stage = "bracket" /\ bracket.stop < signal.price
  /\ Ordered /\ bracket # NoBracket => bracket.stop > 0 /\ bracket.tp >= 0
=============================================================================
