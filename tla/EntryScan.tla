------------------------------- MODULE EntryScan -------------------------------
(***************************************************************************)
(* The scan of a trading cycle (src/main.py, _run_cycle): which symbols    *)
(* are looked at, in which order, which strategy is asked about each, and  *)
(* which of its signals become orders.                                     *)
(*                                                                         *)
(* A cycle reads its bars once, then handles one symbol per step.  What a  *)
(* strategy, the judge, the rails of RiskRails and the broker answer is a  *)
(* choice.  Between cycles stops fill, the operator halts or edits the     *)
(* configuration, and days pass.                                           *)
(***************************************************************************)
EXTENDS Integers, Sequences, FiniteSets, SequencesExt

CONSTANTS
  Symbols,       \* all of them, "SPY" among them
  Cores,         \* what cfg["symbols"] may be: sequences of symbols
  Outside,       \* symbols the news may nominate
  Enabled,       \* the enabled strategies by priority
  Disabled,      \* strategies of the registry that only exit
  Unknown,       \* an owner that has left the registry
  DefaultOwner,
  Wide,          \* symbols of a strategy's own universe, {} for the core's
  CrossSection,  \* strategies that rank their universe
  Cooldown,      \* days a strategy stays out after its own exit
  EntryCap,      \* max_entries_per_cycle of a strategy, 0 for none
  NewsCap,       \* max_news_entries_per_cycle
  MinKept, OfAsked,   \* min_universe_fraction: MinKept of OfAsked
  MinTrades,     \* closed trades before the live kill-list judges a strategy
  None, Untracked,    \* no position; a position without a record
  MaxNow, MaxClosed, MaxLost   \* bounds: half days, closed trades, lost symbols

Strategies == Range(Enabled) \cup Disabled
Owners == Strategies \cup {Unknown}

\* config.yaml lists a symbol once, DEFAULT_OWNER ranks nothing.
ASSUME ScanAssumption ==
  /\ IsFiniteSet(Symbols) /\ "SPY" \in Symbols /\ Outside \subseteq Symbols
  /\ \A c \in Cores : c \in Seq(Symbols) /\ IsInjective(c)
  /\ Enabled \in Seq(Strategies) /\ DefaultOwner \in Strategies \ CrossSection
  /\ Unknown \notin Strategies /\ None # Untracked /\ {None, Untracked} \cap Owners = {}
  /\ \A n \in Strategies : Wide[n] \subseteq Symbols /\ Cooldown[n] \in Nat
  /\ MaxNow \in Nat /\ NewsCap \in Nat /\ None \notin 0 .. MaxNow

VARIABLES
  now,           \* half days: the 09:35 and the 15:45 pass of each day
  core,          \* cfg["symbols"]
  owner,         \* of each position: its record's strategy, Untracked or None
  closed,        \* closed trades: strategy, symbol, time, profit
  at,            \* the cycle: "off", "scan"
  queue,         \* scan_symbols still to come
  lost,          \* symbols whose bars fail to come or are stale
  blocked,       \* why entries are refused: "none", "datacheck", "universe", "halt"
  nominated,
  last_exit,     \* the exits the cooldown reads, taken before the scan
  entries, news, \* entries of this cycle, by strategy and by nomination
  asked,         \* ghost: positions of this cycle whose owner was asked for an exit
  start          \* ghost: the positions this cycle began with

plan  == <<queue, lost, blocked, nominated, last_exit>>
tally == <<entries, news, asked>>
scan  == <<now, core, owner, closed, at, plan, tally, start>>

Held == {s \in Symbols : owner[s] # None}
NoEntries == [n \in Strategies |-> 0]

-----------------------------------------------------------------------------
(* What is scanned.                                                        *)

rotate_scan_order(syms) ==
  IF Len(syms) < 2 THEN syms
  ELSE LET offset == (now \div 2) % Len(syms)
       IN SubSeq(syms, offset + 1, Len(syms)) \o SubSeq(syms, 1, offset)

universe_for(n) == IF Wide[n] = {} THEN Range(core) ELSE Wide[n]

\* The new members of a set after the symbols of a sequence, in some order.
And(syms, more) == syms \o SetToSeq(more \ Range(syms))

\* A bug: positions outside every universe are not scanned.
scan_symbolsFlat(noms) ==
  And(And(rotate_scan_order(core), UNION {universe_for(Enabled[i]) : i \in DOMAIN Enabled}), noms)

scan_symbols(noms) ==
  And(And(And(rotate_scan_order(core), UNION {universe_for(Enabled[i]) : i \in DOMAIN Enabled}),
          noms),
      Held)

\* Under a halt only the positions, and SPY for its benchmark.
halted_symbols == And(SetToSeq(Held), {"SPY"})

-----------------------------------------------------------------------------
(* Who may enter.                                                          *)

OwnerOf(s) == IF owner[s] = Untracked THEN DefaultOwner ELSE owner[s]

\* The symbols strategy n ranks: its universe and whatever the book holds.
prepare_one(n) ==
  (universe_for(n) \cup {s \in Symbols : start[s] \notin {None, Untracked}}) \ lost
Ranked(n, s) == n \in CrossSection => s \in prepare_one(n)

\* The latest exit of each strategy from each symbol.
last_exits ==
  [n \in Owners |-> [s \in Symbols |->
     LET d == {t.at : t \in {u \in closed : u.strategy = n /\ u.symbol = s}}
     IN IF d = {} THEN None ELSE CHOOSE x \in d : \A y \in d : y <= x]]

\* A bug: dates are compared, and a night counts for a day.
cooldown_blockedDates(n, s) ==
  Cooldown[n] > 0 /\ last_exit[n][s] # None /\ (now \div 2) - (last_exit[n][s] \div 2) < Cooldown[n]
cooldown_blocked(n, s) ==
  Cooldown[n] > 0 /\ last_exit[n][s] # None /\ (now - last_exit[n][s]) \div 2 < Cooldown[n]

\* A strategy whose closed trades lose more than they win is retired.
strategy_live_stats(n) == {t \in closed : t.strategy = n}
live_kill_blocked(n) ==
  LET live == strategy_live_stats(n) IN
  /\ Cardinality(live) >= MinTrades
  /\ Cardinality({t \in live : t.won}) < Cardinality({t \in live : ~t.won})

\* Strategy n may be asked about the flat symbol s.
Consulted(n, s) ==
  /\ s \in nominated \/ s \in universe_for(n)
  /\ ~cooldown_blocked(n, s)
  /\ EntryCap[n] > 0 => entries[n] < EntryCap[n]

\* What a signal that was reviewed may come to.  A judge that is down or cuts
\* the order to nothing, a moved price and a refused bracket stop only entries,
\* legs that cannot be cancelled only exits.
Fate(entry) ==
  {"executed", "veto", "rail", "order error"}
    \cup (IF entry THEN {"unavailable", "downsize", "drift", "no bracket"} ELSE {"legs"})

process_signal(entry, n) ==
  IF entry /\ blocked # "none" THEN {blocked}
  ELSE IF entry /\ live_kill_blocked(n) THEN {"unavailable", "veto", "downsize", "live_kill"}
  ELSE Fate(entry)

-----------------------------------------------------------------------------
\* A cycle begins: the halt, the news, the bars and the checks on them.  The
\* loss of SPY aborts it; too few usable symbols or a vendor that disagrees
\* refuse its entries, and a halt has the last word on why.
Begin(halted, noms, gone, disagree) ==
  /\ at = "off" /\ Cardinality(closed) <= MaxClosed
  /\ LET noms_ == IF halted THEN {} ELSE noms \ Range(core)
         syms == IF halted THEN halted_symbols ELSE scan_symbols(noms_)
         have == Range(syms) \ gone
     IN /\ "SPY" \in have
        /\ queue' = syms /\ lost' = gone /\ nominated' = noms_
        /\ blocked' = IF halted THEN "halt"
                      ELSE IF Cardinality(have) * OfAsked < MinKept * Len(syms) THEN "universe"
                      ELSE IF disagree THEN "datacheck" ELSE "none"
  /\ last_exit' = last_exits
  /\ at' = "scan" /\ entries' = NoEntries /\ news' = 0 /\ asked' = {} /\ start' = owner
  /\ UNCHANGED <<now, core, owner, closed>>

s_ == Head(queue)
Turn == at = "scan" /\ queue # <<>> /\ queue' = Tail(queue)
Still == UNCHANGED <<now, core, at, lost, blocked, nominated, last_exit, start>>

\* No usable bars: the symbol is passed over.
Skip ==
  /\ Turn /\ s_ \in lost
  /\ UNCHANGED <<owner, closed, tally>> /\ Still

\* A position: only its owner is asked, and only for an exit.
Position ==
  /\ Turn /\ s_ \notin lost /\ s_ \in Held
  /\ LET n == OwnerOf(s_) IN
       IF n \notin Strategies
       THEN UNCHANGED <<owner, closed, asked>>
       ELSE /\ asked' = asked \cup (IF Ranked(n, s_) THEN {s_} ELSE {})
            /\ \/ UNCHANGED <<owner, closed>>
               \/ /\ Ranked(n, s_) /\ "executed" \in process_signal(FALSE, n)
                  /\ owner' = [owner EXCEPT ![s_] = None]
                  /\ \E won \in BOOLEAN :
                       closed' = IF owner[s_] = Untracked THEN closed
                                 ELSE closed \cup {[strategy |-> n, symbol |-> s_,
                                                    at |-> now, won |-> won]}
  /\ UNCHANGED <<entries, news>> /\ Still

\* A flat symbol: the strategies in the order of their priority, until one of
\* those that want it is executed.
Flat ==
  /\ Turn /\ s_ \notin lost /\ s_ \notin Held
  /\ \/ UNCHANGED <<owner, tally>>
     \/ /\ s_ \in nominated => news < NewsCap
        /\ \E i \in DOMAIN Enabled :
             /\ Consulted(Enabled[i], s_) /\ Ranked(Enabled[i], s_)
             /\ "executed" \in process_signal(TRUE, Enabled[i])
             /\ owner' = [owner EXCEPT ![s_] = Enabled[i]]
             /\ entries' = [entries EXCEPT ![Enabled[i]] = @ + 1]
        /\ news' = IF s_ \in nominated THEN news + 1 ELSE news
        /\ UNCHANGED asked
  /\ UNCHANGED closed /\ Still

\* The scan is over, or the cycle dies; either way the next starts afresh.
End ==
  /\ at = "scan"
  /\ at' = "off" /\ queue' = <<>>
  /\ lost' = {} /\ blocked' = "none" /\ nominated' = {} /\ start' = [s \in Symbols |-> None]
  /\ last_exit' = [n \in Owners |-> [s \in Symbols |-> None]]
  /\ entries' = NoEntries /\ news' = 0 /\ asked' = {}
  /\ UNCHANGED <<now, core, owner, closed>>

\* A stop fills and the ledger hears of it, or a position without a record, or
\* one of an owner long gone, is found at the broker.
StopFills(s) ==
  /\ at = "off" /\ owner[s] # None
  /\ owner' = [owner EXCEPT ![s] = None]
  /\ closed' = IF owner[s] = Untracked THEN closed
               ELSE closed \cup {[strategy |-> owner[s], symbol |-> s, at |-> now, won |-> FALSE]}
  /\ UNCHANGED <<now, core, at, plan, tally, start>>

Inherit(s) ==
  /\ at = "off" /\ owner[s] = None /\ now = 0 /\ closed = {}
  /\ \E o \in {Untracked, Unknown} \cup Disabled : owner' = [owner EXCEPT ![s] = o]
  /\ UNCHANGED <<now, core, closed, at, plan, tally, start>>

NextPass ==
  /\ at = "off" /\ now < MaxNow
  /\ now' = now + 1 /\ core' \in Cores
  /\ UNCHANGED <<owner, closed, at, plan, tally, start>>

-----------------------------------------------------------------------------
Init ==
  /\ now = 0 /\ core \in Cores
  /\ owner = [s \in Symbols |-> None] /\ closed = {}
  /\ at = "off" /\ queue = <<>> /\ lost = {} /\ blocked = "none" /\ nominated = {}
  /\ last_exit = [n \in Owners |-> [s \in Symbols |-> None]]
  /\ entries = NoEntries /\ news = 0 /\ asked = {} /\ start = [s \in Symbols |-> None]

Next ==
  \/ \E halted, disagree \in BOOLEAN, noms \in SUBSET Outside, gone \in SUBSET Symbols :
       Cardinality(gone) <= MaxLost /\ Begin(halted, noms, gone, disagree)
  \/ Skip \/ Position \/ Flat \/ End
  \/ \E s \in Symbols : StopFills(s) \/ Inherit(s)
  \/ NextPass

Spec == Init /\ [][Next]_scan

TypeOK ==
  /\ now \in 0 .. MaxNow /\ core \in Cores
  /\ owner \in [Symbols -> Owners \cup {None, Untracked}]
  /\ closed \subseteq [strategy : Owners, symbol : Symbols, at : 0 .. MaxNow, won : BOOLEAN]
  /\ at \in {"off", "scan"} /\ queue \in Seq(Symbols) /\ lost \subseteq Symbols
  /\ blocked \in {"none", "datacheck", "universe", "halt"} /\ nominated \subseteq Symbols
  /\ last_exit \in [Owners -> [Symbols -> (0 .. MaxNow) \cup {None}]]
  /\ entries \in [Strategies -> Nat] /\ news \in 0 .. NewsCap
  /\ asked \subseteq Symbols /\ start \in [Symbols -> Owners \cup {None, Untracked}]

\* When the scan has run, every position the cycle began with whose owner is
\* known and whose bars are usable was put to its owner, who could rank it,
\* whatever the configuration dropped since the entry and whatever refused
\* the cycle's entries.
ExitsHeard ==
  at = "scan" /\ queue = <<>> =>
    \A s \in Symbols :
      start[s] # None /\ start[s] # Unknown /\ s \notin lost => s \in asked

\* No strategy takes a symbol within its cooldown of its own last exit there,
\* in this cycle or an earlier one.
CooldownHolds ==
  [][\A s \in Symbols :
       owner[s] = None /\ owner'[s] \in Range(Enabled) /\ at = "scan" =>
         \A t \in closed : t.strategy = owner'[s] /\ t.symbol = s =>
           now - t.at >= 2 * Cooldown[owner'[s]]]_scan
=============================================================================
