----------------------------- MODULE Strategies -----------------------------
(***************************************************************************)
(* The strategies of src/strategies, walked over daily bars: each module's *)
(* required_lookback, prepare and generate, with a book of its own.  The   *)
(* price paths are drawn at the start and revealed bar by bar.             *)
(*                                                                         *)
(* A price and everything computed of prices is a fraction, compared       *)
(* exactly; realised volatility comes with the bar.  Reasons, indicator    *)
(* records and rounding are left out.                                      *)
(***************************************************************************)
EXTENDS Integers, Sequences, FiniteSets, FiniteSetsExt, Functions

CONSTANTS
  Order,       \* the symbols, in the order the bars are listed
  Paths,       \* the sets of bars there may be: symbol -> [high, low, close, vol] by day
  Calendar,    \* day -> [month, left]: its month, and the weekdays after it in that month
  Bills,       \* day -> the T-bill return over the lookback, or NoRatio
  Sectors,     \* the sectors map: name -> symbols
  Params,      \* strategy -> its parameters
  MaxEvents    \* bound: what happens to a book between two bars

VARIABLES
  path,        \* the bars of this walk
  day,         \* today
  book,        \* strategy -> symbol -> the position it owns
  events

walk == <<path, day, book, events>>

Symbols == Range(Order)
Names == DOMAIN Params
Unknown == 0      \* the entry of a position the ledger has no record of
Flat == [side |-> "none", since |-> Unknown]

Positive == Nat \ {0}

\* What config.yaml sets: windows of a bar at least, the short average within
\* the long one, and bands to leave by that lie outside those to enter by.
WellSet(n, p) ==
  CASE n = "ma_crossover" -> {p.fast, p.slow} \subseteq Positive /\ p.fast <= p.slow
    [] n = "tsmom" -> {p.momentum, p.skip, p.index} \subseteq Nat /\ p.trend \in Positive
    [] n = "xsmom" -> /\ {p.lookback, p.skip, p.top, p.exit, p.bottom} \subseteq Nat
                      /\ p.top <= p.exit /\ p.exit <= 100 - p.bottom
    [] n = "donchian" -> {p.entry, p.exit} \subseteq Positive /\ p.trend \in Nat
    [] n = "meanrev" -> /\ {p.rsi, p.trend, p.exit} \subseteq Positive /\ p.history \in Nat
                        /\ p.exit <= p.trend /\ p.rsi <= p.history + 1
    [] n = "reclaim" -> /\ {p.below, p.base, p.slope, p.max_hold} \subseteq Nat
                        /\ p.trend \in Positive /\ p.buffer \in 0 .. 100
                        /\ (100 - p.buffer) * (p.trend + 1) <= 100 * p.trend
    [] n = "swing_sectors" -> /\ {p.high, p.sma, p.max_hold} \subseteq Positive
                              /\ {p.min_drawdown, p.recovered, p.buffer} \subseteq 0 .. 100
                              /\ p.recovered < p.min_drawdown
    [] n = "lowvol" -> {p.bottom, p.exit} \subseteq Nat /\ p.bottom <= p.exit
    [] n = "hi52" -> {p.top, p.exit} \subseteq Nat /\ p.top <= p.exit
    [] n = "trend_hold" -> p.ma \in Positive
    [] n = "tom_tilt" -> p.hold_days \in Nat
    [] n = "vol_lever" -> p.readings \in Positive /\ {p.enter, p.exit} \subseteq Nat /\ p.enter <= p.exit
    [] n = "gem" -> {p.us, p.intl, p.bonds} \subseteq Symbols

Modules == {"ma_crossover", "tsmom", "xsmom", "donchian", "meanrev", "reclaim", "lowvol", "hi52",
            "swing_sectors", "trend_hold", "tom_tilt", "vol_lever", "gem"}
StrategiesConstants ==
  /\ Order \in Seq(Range(Order)) /\ Calendar \in Seq([month : Nat, left : Nat]) /\ Calendar # <<>>
  /\ Paths \subseteq [Symbols -> Seq([high : Nat, low : Nat, close : Positive, vol : Nat])]
  /\ \A x \in Paths, s \in Symbols :
       /\ Len(x[s]) = Len(Calendar)
       /\ \A d \in DOMAIN x[s] : x[s][d].low <= x[s][d].close /\ x[s][d].close <= x[s][d].high
  /\ Names \subseteq Modules /\ \A n \in Names : WellSet(n, Params[n])

-----------------------------------------------------------------------------
(* base.py.  A missing value is less than nothing and more than nothing.   *)

Frac(n, d) == [n |-> n, d |-> d]
NoRatio == Frac(0, 0)
Px(x) == Frac(x, 1)
Below(a, b) == a # NoRatio /\ b # NoRatio /\ a.n * b.d < b.n * a.d
Same(a, b) == a # NoRatio /\ b # NoRatio /\ a.n * b.d = b.n * a.d
AtMost(a, b) == Below(a, b) \/ Same(a, b)
Times(a, pct) == IF a = NoRatio THEN NoRatio ELSE Frac(a.n * pct, a.d * 100)

LastOf(xs, n) == SubSeq(xs, Len(xs) - n + 1, Len(xs))
Back(xs, n) == SubSeq(xs, 1, Len(xs) - n)
Sum(xs, from, to) == SumFunctionOnSet(xs, from .. to)
Highest(bars) == Max({bars[i].high : i \in DOMAIN bars})
Lowest(bars) == Min({bars[i].low : i \in DOMAIN bars})
Last(xs) == xs[Len(xs)]
ClosesOf(bars) == [i \in DOMAIN bars |-> bars[i].close]

sma(xs, p) ==
  IF Len(xs) < p \/ p = 0 THEN NoRatio ELSE Frac(Sum(xs, Len(xs) - p + 1, Len(xs)), p)

\* Growth from then to the skipped end; over one.
total_return(xs, back, skip) ==
  LET end == Len(xs) - skip
      start == end - back
  IN IF start < 1 \/ end < 1 THEN NoRatio ELSE Frac(xs[end], xs[start])

true_range(before, bar) ==
  Max({bar.high - bar.low, bar.high - before, before - bar.high,
       bar.low - before, before - bar.low})
atr(bars, p) ==
  IF Len(bars) < p + 1 THEN NoRatio
  ELSE LET w == LastOf(bars, p + 1)
       IN Frac(Sum([i \in 1 .. p |-> true_range(w[i].close, w[i + 1])], 1, p), p)

\* Wilder's averages of gains and losses, both scaled by the same power of
\* the period, which the ratio does not see.
Smoothed(moves, p) ==
  LET upto[k \in p .. Len(moves)] ==
        IF k = p THEN Sum(moves, 1, p) ELSE upto[k - 1] * (p - 1) + moves[k] * p ^ (k - p)
  IN upto[Len(moves)]
rsi_below(xs, p, cut) ==
  LET moves == [i \in 1 .. Len(xs) - 1 |-> xs[i + 1] - xs[i]]
      gain == Smoothed([i \in DOMAIN moves |-> Max({moves[i], 0})], p)
      loss == Smoothed([i \in DOMAIN moves |-> Max({-moves[i], 0})], p)
  IN Len(xs) >= p + 1 /\ loss # 0 /\ 100 * gain < cut * (gain + loss)

\* The k-th of the values xs in order: fewer than k lie below it, and k or
\* more not above it.
Nth(xs, k) ==
  xs[CHOOSE i \in DOMAIN xs :
       /\ Cardinality({j \in DOMAIN xs : Below(xs[j], xs[i])}) < k
       /\ Cardinality({j \in DOMAIN xs : AtMost(xs[j], xs[i])}) >= k]
Median(xs) ==
  LET n == Cardinality(DOMAIN xs)
  IN IF n % 2 = 1 THEN Nth(xs, n \div 2 + 1)
     ELSE LET a == Nth(xs, n \div 2) b == Nth(xs, n \div 2 + 1)
          IN Frac(a.n * b.d + b.n * a.d, 2 * a.d * b.d)

\* The place of a symbol among those with a value, from 0.  sorted() is
\* stable: equal values stay in the order of the bars.
Ranked(value) == {x \in Symbols : value[x] # NoRatio}
Place(s) == CHOOSE i \in DOMAIN Order : Order[i] = s
Rank(value, down, s) ==
  Cardinality({x \in Ranked(value) :
    \/ IF down THEN Below(value[s], value[x]) ELSE Below(value[x], value[s])
    \/ Same(value[s], value[x]) /\ Place(x) < Place(s)})

Bars(s) == SubSeq(path[s], 1, day)
Closes(s) == ClosesOf(Bars(s))
Close(s) == Px(Last(Closes(s)))
NewMonth == day > 1 /\ Calendar[day].month # Calendar[day - 1].month
TooLong(pos, limit) == pos.since # Unknown /\ day - pos.since >= limit

-----------------------------------------------------------------------------
(* One operator per strategy: what it signals for a symbol it holds as pos.*)
(* p is its parameters.  A strategy without the bars it needs holds.       *)

\* A bug: one bar too few, as if today's average were enough.
required_lookbackShort(n, p) == IF n = "ma_crossover" THEN p.slow ELSE 0
required_lookback(n, p) ==
  CASE n = "ma_crossover" -> p.slow + 1
    [] n = "tsmom" -> Max({p.momentum + p.skip, p.trend, p.index}) + 1
    [] n = "xsmom" -> p.lookback + p.skip + 1
    [] n = "donchian" -> Max({p.entry, p.exit, p.trend}) + 1
    [] n = "meanrev" -> Max({p.trend, p.history}) + 1
    [] n = "reclaim" -> Max({p.trend + p.below, p.base + p.slope}) + 1
    [] n = "swing_sectors" -> p.high + 1
    [] n = "trend_hold" -> p.ma + 1
    [] OTHER -> 2
Enough(n, s, p) == day >= required_lookback(n, p)

ma_crossover(s, pos, p) ==
  LET xs == Closes(s)
      fast == sma(xs, p.fast)             slow == sma(xs, p.slow)
      fast0 == sma(Back(xs, 1), p.fast)   slow0 == sma(Back(xs, 1), p.slow)
  IN CASE pos = Flat /\ AtMost(fast0, slow0) /\ Below(slow, fast) -> "buy"
       [] pos # Flat /\ AtMost(slow0, fast0) /\ Below(fast, slow) -> "sell"
       [] OTHER -> "hold"

IndexOk(p) ==
  p.index = 0 \/ day < p.index \/ Below(sma(Closes(p.symbol), p.index), Close(p.symbol))
tsmom(s, pos, p) ==
  LET mom == total_return(Closes(s), p.momentum, p.skip)
      trend == sma(Closes(s), p.trend)
  IN CASE pos = Flat /\ Below(Px(1), mom) /\ Below(trend, Close(s)) /\ IndexOk(p) -> "buy"
       [] pos # Flat /\ (AtMost(mom, Px(1)) \/ Below(Close(s), trend)) -> "sell"
       [] OTHER -> "hold"

\* A bug, as it was before positions had a side: a short is sold.
xsmomBlind(s, pos, p) ==
  LET mom == [x \in Symbols |-> total_return(Closes(x), p.lookback, p.skip)]
      n == Cardinality(Ranked(mom))
      rank == Rank(mom, TRUE, s)
  IN IF n < 4 \/ mom[s] = NoRatio THEN "hold" ELSE
     CASE pos # Flat /\ 100 * rank >= p.exit * n -> "sell"
       [] pos = Flat /\ 100 * rank < p.top * n /\ Below(Px(1), mom[s]) -> "buy"
       [] pos = Flat /\ p.bottom > 0 /\ 100 * rank >= (100 - p.bottom) * n
          /\ Below(mom[s], Px(1)) -> "short"
       [] OTHER -> "hold"
xsmom(s, pos, p) ==
  LET mom == [x \in Symbols |-> total_return(Closes(x), p.lookback, p.skip)]
      n == Cardinality(Ranked(mom))
      rank == Rank(mom, TRUE, s)
  IN IF n < 4 \/ mom[s] = NoRatio THEN "hold" ELSE
     CASE pos.side = "short" /\ 100 * rank < p.exit * n -> "cover"
       [] pos.side = "long" /\ 100 * rank >= p.exit * n -> "sell"
       [] pos = Flat /\ 100 * rank < p.top * n /\ Below(Px(1), mom[s]) -> "buy"
       [] pos = Flat /\ p.bottom > 0 /\ 100 * rank >= (100 - p.bottom) * n
          /\ Below(mom[s], Px(1)) -> "short"
       [] OTHER -> "hold"

donchian(s, pos, p) ==
  LET before == Back(Bars(s), 1)
      trend == sma(Closes(s), p.trend)
  IN CASE pos = Flat /\ Last(Closes(s)) > Highest(LastOf(before, p.entry))
          /\ (trend = NoRatio \/ Below(trend, Close(s))) -> "buy"
       [] pos # Flat /\ Last(Closes(s)) < Lowest(LastOf(before, p.exit)) -> "sell"
       [] OTHER -> "hold"

meanrev(s, pos, p) ==
  LET xs == Closes(s)
  IN CASE pos = Flat /\ Below(sma(xs, p.trend), Close(s))
          /\ rsi_below(LastOf(xs, p.history + 1), p.rsi, p.buy_below) -> "buy"
       [] pos # Flat /\ (Below(sma(xs, p.exit), Close(s)) \/ TooLong(pos, p.max_hold)) -> "sell"
       [] OTHER -> "hold"

\* The sectors whose constituents stand lowest against their own average.
Distance(x, period) ==
  LET m == sma(Closes(x), period)
  IN IF m = NoRatio THEN NoRatio ELSE Frac(Last(Closes(x)) * m.d, m.n)
Laggards(p) ==
  LET usable(c) == {x \in Symbols \cap Sectors[c] : Distance(x, p.sector) # NoRatio}
      scored == {c \in DOMAIN Sectors : Cardinality(usable(c)) >= p.constituents}
      score(c) == Median([x \in usable(c) |-> Distance(x, p.sector)])
  IN {c \in scored : Cardinality({d \in scored : Below(score(d), score(c))}) < p.laggards}
_below_for(xs, period, n) ==
  /\ Len(xs) >= period + n + 1
  /\ \A i \in 1 .. n : Below(Px(Last(Back(xs, i))), sma(Back(xs, i), period))
reclaim(s, pos, p) ==
  LET xs == Closes(s)
      prior == Back(xs, 1)
      base == sma(prior, p.base)
      trend0 == sma(prior, p.trend)
  IN CASE pos # Flat /\ (Below(Close(s), Times(sma(xs, p.trend), 100 - p.buffer))
                         \/ (p.max_hold > 0 /\ TooLong(pos, p.max_hold))) -> "sell"
       [] pos = Flat /\ \E c \in Laggards(p) : s \in Sectors[c]
          /\ _below_for(xs, p.trend, p.below)
          /\ Below(base, Px(Last(prior))) /\ Below(sma(Back(prior, p.slope), p.base), base)
          /\ AtMost(Px(Last(prior)), trend0) /\ Below(trend0, Close(s)) -> "buy"
       [] OTHER -> "hold"

lowvol(s, pos, p) ==
  LET vols == [x \in Symbols |-> IF day < p.period + 2 \/ Last(Bars(x)).vol = 0 THEN NoRatio
                                 ELSE Px(Last(Bars(x)).vol)]
      n == Cardinality(Ranked(vols))
      rank == Rank(vols, FALSE, s)
  IN IF n < 4 \/ vols[s] = NoRatio THEN "hold" ELSE
     CASE pos = Flat /\ 100 * rank < p.bottom * n -> "buy"
       [] pos # Flat /\ 100 * rank >= p.exit * n -> "sell"
       [] OTHER -> "hold"

proximity(x, high) ==
  IF day < high THEN NoRatio ELSE Frac(Last(Closes(x)), Highest(LastOf(Bars(x), high)))
hi52(s, pos, p) ==
  LET prox == [x \in Symbols |-> proximity(x, p.high)]
      n == Cardinality(Ranked(prox))
      rank == Rank(prox, TRUE, s)
  IN IF n < 4 \/ prox[s] = NoRatio THEN "hold" ELSE
     CASE pos # Flat /\ 100 * rank >= p.exit * n -> "sell"
       [] pos = Flat /\ 100 * rank < p.top * n /\ AtMost(Frac(p.floor, 100), prox[s]) -> "buy"
       [] OTHER -> "hold"

\* swing_sectors: the deepest drawdowns that are deep enough; then a close
\* above a base that does not fall, and inside the zone over it.
Deep(x, p, pct) ==       \* drawdown_pct >= pct
  proximity(x, p.high) # NoRatio /\ AtMost(proximity(x, p.high), Frac(100 - pct, 100))
laggards(p) ==
  LET prox == [x \in Symbols |-> proximity(x, p.high)]
  IN {x \in Ranked(prox) : Rank(prox, FALSE, x) < p.count /\ Deep(x, p, p.min_drawdown)}
\* assess: the zone, as twice its bounds over a common denominator, or NoRatio.
assess(s, p) ==
  LET base == sma(Closes(s), p.sma)
      before == sma(Back(Closes(s), p.slope), p.sma)
      a == atr(Bars(s), p.atr)
      ranked == {x \in Symbols : proximity(x, p.high) # NoRatio}
  IN IF /\ Cardinality(ranked) >= p.min_ranked /\ s \in laggards(p)
        /\ NoRatio \notin {base, before, a}
        /\ Below(base, Close(s)) /\ AtMost(before, base)
     THEN [low |-> base, high |-> Frac(100 * base.n * a.d + p.zone * a.n * base.d, 100 * base.d * a.d)]
     ELSE NoRatio
InZone(zone, price) == zone # NoRatio /\ AtMost(zone.low, price) /\ AtMost(price, zone.high)
swing_sectors(s, pos, p) ==
  CASE pos # Flat /\ (AtMost(Frac(100 - p.recovered, 100), proximity(s, p.high))
                      \/ Below(Close(s), Times(sma(Closes(s), p.sma), 100 - p.buffer))
                      \/ TooLong(pos, p.max_hold)) -> "sell"
    [] pos = Flat /\ InZone(assess(s, p), Close(s)) -> "buy"
    [] OTHER -> "hold"

trend_hold(s, pos, p) ==
  LET line == sma(Closes(s), p.ma)
  IN CASE pos # Flat /\ Below(Close(s), line) -> "sell"
       [] pos = Flat /\ Below(line, Close(s)) -> "buy"
       [] OTHER -> "hold"

trading_day_of_month == Cardinality({d \in 1 .. day : Calendar[d].month = Calendar[day].month})
tom_tilt(s, pos, p) ==
  CASE pos = Flat /\ Calendar[day].left = 1 -> "buy"
    [] pos # Flat /\ trading_day_of_month >= p.hold_days -> "sell"
    [] OTHER -> "hold"

\* The readings at the months' first bars, as far as each has its lookback.
month_starts(p) ==
  {i \in 2 .. day : Calendar[i].month # Calendar[i - 1].month /\ i >= p.lookback + 1}
month_start_vols(s, p) == [i \in month_starts(p) |-> Px(path[s][i].vol)]
vol_lever(s, pos, p) ==
  LET vols == month_start_vols(s, p)
      latest == vols[Max(month_starts(p))]
  IN IF ~NewMonth \/ Cardinality(month_starts(p)) < p.readings THEN "hold" ELSE
     CASE pos = Flat /\ Below(latest, Times(Median(vols), p.enter)) -> "buy"
       [] pos # Flat /\ Below(Times(Median(vols), p.exit), latest) -> "sell"
       [] OTHER -> "hold"

\* gem: this month's leg, on a month's first bar only.
Target(p) ==
  LET us == total_return(Closes(p.us), p.lookback, 0)
      intl == total_return(Closes(p.intl), p.lookback, 0)
      win == IF AtMost(intl, us) THEN us ELSE intl
  IN IF ~NewMonth \/ NoRatio \in {us, intl, Bills[day]} THEN "none"
     ELSE IF AtMost(win, Bills[day]) THEN p.bonds
     ELSE IF AtMost(intl, us) THEN p.us ELSE p.intl
gem(s, pos, p) ==
  IF Target(p) = "none" THEN "hold" ELSE
  CASE pos # Flat /\ s # Target(p) -> "sell"
    [] pos = Flat /\ s = Target(p) -> "buy"
    [] OTHER -> "hold"

Signal(n, s, pos, p) ==
  CASE n = "ma_crossover" -> ma_crossover(s, pos, p)
    [] n = "tsmom" -> tsmom(s, pos, p)
    [] n = "xsmom" -> xsmom(s, pos, p)
    [] n = "donchian" -> donchian(s, pos, p)
    [] n = "meanrev" -> meanrev(s, pos, p)
    [] n = "reclaim" -> reclaim(s, pos, p)
    [] n = "lowvol" -> lowvol(s, pos, p)
    [] n = "hi52" -> hi52(s, pos, p)
    [] n = "swing_sectors" -> swing_sectors(s, pos, p)
    [] n = "trend_hold" -> trend_hold(s, pos, p)
    [] n = "tom_tilt" -> tom_tilt(s, pos, p)
    [] n = "vol_lever" -> vol_lever(s, pos, p)
    [] n = "gem" -> gem(s, pos, p)
generate(n, s, pos) == IF Enough(n, s, Params[n]) THEN Signal(n, s, pos, Params[n]) ELSE "hold"

-----------------------------------------------------------------------------
(* The walk.                                                               *)

Init ==
  /\ path \in Paths /\ day = 1
  /\ book = [n \in Names |-> [s \in Symbols |-> Flat]]
  /\ events = 0

Filled(pos, action) ==
  CASE action = "buy" -> [side |-> "long", since |-> day]
    [] action = "short" -> [side |-> "short", since |-> day]
    [] action \in {"sell", "cover"} -> Flat
    [] OTHER -> pos

\* The close's signals are filled before the next bar.
NextBar ==
  /\ day < Len(Calendar)
  /\ day' = day + 1
  /\ book' = [n \in Names |-> [s \in Symbols |->
                Filled(book[n][s], generate(n, s, book[n][s]))]]
  /\ UNCHANGED <<path, events>>

\* A position is found with no record of its entry, or a stop closes one.
Adopt(n, s) ==
  /\ events < MaxEvents /\ book[n][s] = Flat
  /\ book' = [book EXCEPT ![n][s] = [side |-> "long", since |-> Unknown]]
  /\ events' = events + 1
  /\ UNCHANGED <<path, day>>
StopFills(n, s) ==
  /\ events < MaxEvents /\ book[n][s] # Flat
  /\ book' = [book EXCEPT ![n][s] = Flat]
  /\ events' = events + 1
  /\ UNCHANGED <<path, day>>

Next == NextBar \/ \E n \in Names, s \in Symbols : Adopt(n, s) \/ StopFills(n, s)

Spec == Init /\ [][Next]_walk

-----------------------------------------------------------------------------
\* A strategy that says it has the bars it needs has them: whatever it then
\* compares unasked exists.  A None compared would end the whole cycle.
Compared(n, s, p) ==
  LET xs == Closes(s)
  IN CASE n = "ma_crossover" -> {sma(xs, p.slow), sma(xs, p.fast),
                                 sma(Back(xs, 1), p.slow), sma(Back(xs, 1), p.fast)}
       [] n = "tsmom" -> {total_return(xs, p.momentum, p.skip), sma(xs, p.trend)}
       [] n = "meanrev" -> {sma(LastOf(xs, p.history + 1), p.rsi), sma(xs, p.trend), sma(xs, p.exit)}
       [] n = "trend_hold" -> {sma(xs, p.ma)}
       [] OTHER -> {}
NeverDies ==
  \A n \in Names, s \in Symbols :
    Enough(n, s, Params[n]) => NoRatio \notin Compared(n, s, Params[n])

\* An exit closes the side that is held: no strategy sells a short, covers a
\* long, or exits what it does not hold; and one that rotates holds one leg.
ExitsFit ==
  /\ \A n \in Names, s \in Symbols :
       LET action == generate(n, s, book[n][s])
       IN /\ action = "cover" => book[n][s].side = "short"
          /\ action = "sell" => book[n][s].side = "long"
          /\ action \in {"buy", "short"} => book[n][s] = Flat
  /\ "gem" \in Names => Cardinality({s \in Symbols : book["gem"][s].side = "long"
                                        /\ book["gem"][s].since # Unknown}) <= 1

\* No bar is both an entry and an exit: what is bought on a close would not
\* be sold on the same one.  tom_tilt is the exception, see WindowHeld, and
\* so is meanrev, whose index remembers a fall that its exit average forgot.
NoChurn ==
  \A n \in Names \ {"tom_tilt", "meanrev"}, s \in Symbols :
    /\ generate(n, s, Flat) = "buy" => generate(n, s, [side |-> "long", since |-> day]) # "sell"
    /\ generate(n, s, Flat) = "short" => generate(n, s, [side |-> "short", since |-> day]) # "cover"

\* The window of tom_tilt, as its module states it: what is bought for the
\* turn of a month is sold in the month after, on its third trading day.
WindowHeld ==
  \A s \in Symbols :
    /\ book["tom_tilt"][s].since # Unknown
    /\ generate("tom_tilt", s, book["tom_tilt"][s]) = "sell"
    => Calendar[day].month # Calendar[book["tom_tilt"][s].since].month
=============================================================================
