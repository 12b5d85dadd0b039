------------------------------ MODULE DrawdownClock ------------------------------
(***************************************************************************)
(* The drawdown rail over many bars, with the decay of the peak that the   *)
(* simulators can switch on (src/risk.py: decay_clock, decayed_peak), and  *)
(* the view of the rail an operator gets (drawdown_state).                 *)
(*                                                                         *)
(* Equity is a natural; the half-life is one bar, so the gap that remains  *)
(* after k bars is the gap over 2^k and every comparison is exact.         *)
(***************************************************************************)
EXTENDS Integers, Sequences, FiniteSets

CONSTANTS
  Equities,
  CapPct,        \* max_drawdown_pct
  Grace,         \* grace_bars
  MaxBars        \* bound: bars of a behaviour

VARIABLES
  equity, peak,
  trough, stable, \* the clock: the lowest equity since the peak, bars since it
  decay,         \* drawdown_decay.enabled
  file,          \* the peak on disk: "ok", "unseeded", "unreadable"
  past           \* ghost: every equity so far

clock == <<equity, peak, trough, stable, decay, file, past>>

\* An account is never below nothing, and a percentage is one.
ClockConstants == Equities \subseteq Nat /\ {CapPct, Grace} \subseteq Nat

\* A bug: the bars since the last high are counted.
decay_clockSinceHigh(e) ==
  IF e >= peak THEN [trough |-> peak, stable |-> 0]
  ELSE [trough |-> IF e < trough THEN e ELSE trough, stable |-> stable + 1]
decay_clock(e) ==
  IF e >= peak THEN [trough |-> peak, stable |-> 0]
  ELSE IF e < trough THEN [trough |-> e, stable |-> 0]
  ELSE [trough |-> trough, stable |-> stable + 1]

\* What k half-lives divide the gap by.
Halvings(k) ==
  LET by[i \in 0 .. k] == IF i = 0 THEN 1 ELSE 2 * by[i - 1] IN by[k]

\* The drawdown from the decayed peak e + (peak - e) / 2^k is at the cap.
decayed_peak_over(e, p, bars) ==
  LET k == IF decay /\ bars > Grace THEN bars - Grace ELSE 0 IN
  p > e /\ (p - e) * 100 >= CapPct * (e * Halvings(k) + (p - e))

drawdown_over(e, p) == p > 0 /\ p > e /\ (p - e) * 100 >= CapPct * p

\* What the operator is shown of an equity and the file of the peak.
drawdown_state(e) ==
  IF file = "unreadable" THEN [known |-> TRUE, engaged |-> TRUE]
  ELSE [known |-> TRUE, engaged |-> file = "ok" /\ drawdown_over(e, peak)]

Blocked == decayed_peak_over(equity, peak, stable)

Bar(e) ==
  /\ Len(past) < MaxBars
  /\ equity' = e /\ past' = Append(past, e)
  /\ trough' = decay_clock(e).trough /\ stable' = decay_clock(e).stable
  /\ peak' = IF e > peak THEN e ELSE peak
  /\ UNCHANGED <<decay, file>>

Damage == file' \in {"ok", "unseeded", "unreadable"} /\ UNCHANGED <<equity, peak, trough, stable, decay, past>>

\* No position can be open before the second bar, so the clock starts at the cash.
Init ==
  /\ equity \in Equities /\ peak = equity /\ trough = equity /\ stable = 0
  /\ decay \in BOOLEAN /\ file = "ok" /\ past = <<equity>>

Next == (\E e \in Equities : Bar(e)) \/ Damage

Spec == Init /\ [][Next]_clock

TypeOK ==
  /\ equity \in Equities /\ peak \in Equities
  /\ trough \in Equities /\ stable \in 0 .. MaxBars
  /\ decay \in BOOLEAN /\ file \in {"ok", "unseeded", "unreadable"}
  /\ past \in Seq(Equities)

Released == drawdown_over(equity, peak) /\ ~Blocked

\* A drawdown at the cap blocks entries while the book is at its lowest of
\* the whole run, the rail lets go only with the decay on, and the monitor,
\* which knows no decay, never calls a blocked book healthy.
NewLowBlocks ==
  /\ Released => decay /\ \E i \in 1 .. Len(past) - 1 : past[i] <= equity
  /\ Blocked /\ file # "unseeded" => drawdown_state(equity).engaged
=============================================================================
