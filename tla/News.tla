--------------------------------- MODULE News ---------------------------------
(***************************************************************************)
(* The news brain (src/market_context.py, src/news_memory.py) and the part *)
(* of the trading cycle that reads it (src/main.py, _market_context).      *)
(*                                                                         *)
(* Every hour the brain fetches the wire and the feeds, merges them within *)
(* a budget, has a model distil them, lets deterministic code validate the *)
(* nominations, and overwrites one file.  The cycle reads that file, or    *)
(* refreshes it itself when there is none of today; so two refreshes can   *)
(* be under way, either may die between two steps, and either may be read  *)
(* half written.  What was said is appended to a memory that the judge     *)
(* is shown later.                                                         *)
(***************************************************************************)
EXTENDS Integers, Sequences, FiniteSets, SequencesExt, FiniteSetsExt

CONSTANTS
  Universe,       \* cfg["symbols"]
  Flaggable,      \* sets of symbols a distillation may flag
  Nominations,    \* sequences of symbols it may nominate
  Wires,          \* the wire's items a fetch may bring, how many
  Feeds,          \* what the feeds may bring: by source, by section, how many
                  \* fresh items, Dead when it does not answer
  Dead,
  Total, Reserved,       \* max_headlines, rss_reserved_slots
  MaxItems,              \* max_items of a source
  MaxNominations,
  Retention,             \* retention_days of the memory
  MaxNewsItems,          \* MAX_NEWS_ITEMS of the dossier
  NoContext,             \* no file, no context
  Torn,                  \* a file that is not JSON
  MaxDay, MaxRefreshes, MaxCloses   \* bounds

Processes == {"brain", "cycle"}

NewsConstants ==
  (\A raw \in Nominations : raw \in Seq(Range(raw))) /\ MaxNominations \in Nat

VARIABLES
  day,
  file,           \* market_context.json
  memory,         \* news_memory.jsonl
  said,           \* today's ledger events
  at,             \* where a process is
  fetched,        \* what it fetched
  ctx,            \* what it distilled
  watch,          \* the cycle's nominated watchlist
  shown,          \* what the cycle's judge is shown: the context, the recollection
  refreshes, closes,
  fitted,         \* ghost: the symbols that passed validation today
  told            \* ghost: the distillations recorded: their day and their symbols

world == <<day, file, memory, said>>
run   == <<at, fetched, ctx>>
use   == <<watch, shown>>
news  == <<world, run, use, refreshes, closes, fitted, told>>

-----------------------------------------------------------------------------
(* The headline budget.                                                    *)

Least(a, b) == IF a < b THEN a ELSE b
Take(q, n) == SubSeq(q, 1, Least(n, Len(q)))

\* One source's items: its sections in turns as long as every one that
\* answered has another, what is left of them one after the other, and of
\* that the first max_items.
_fetch_rss_source(sections) ==
  LET live == SelectSeq(sections, LAMBDA f : f # Dead)
      turns == IF live = <<>> THEN 0 ELSE Min({Len(live[j]) : j \in DOMAIN live})
  IN Take(FlattenSeq([i \in 1..turns |-> [j \in DOMAIN live |-> live[j][i]]])
          \o FlattenSeq([j \in DOMAIN live |-> SubSeq(live[j], turns + 1, Len(live[j]))]),
          MaxItems)

\* The sources' items in turns: everybody's first, everybody's second...
RoundRobin(by_source) ==
  LET longest == Max({0} \cup {Len(by_source[s]) : s \in DOMAIN by_source})
      Round(k) == LET still == SelectSeq(by_source, LAMBDA q : Len(q) >= k)
                  IN [j \in DOMAIN still |-> still[j][k]]
  IN FlattenSeq([k \in 1..longest |-> Round(k)])

\* merge_budget: the feeds first take their reserve, the wire what is left;
\* what neither of them used goes to whoever has more.
merge_budget(wire, by_source) ==
  LET taken == Take(RoundRobin(by_source), Least(Reserved, Total))
      given == Take(wire, Total - Len(taken)) \o taken
      more  == SelectSeq(wire \o FlattenSeq(by_source), LAMBDA x : x \notin Range(given))
  IN given \o Take(more, Total - Len(given))

Items(source, section, n) == [k \in 1..n |-> <<source, section, k>>]

\* The wire's headlines, none when it fails.
fetch_headlines(w) == Items(0, 0, w)

\* What parse_rss finds fresh in a section; a dead one brings nothing.
parse_rss(s, c, n) == IF n = Dead THEN Dead ELSE Items(s, c, n)

fetch_rss_by_source(f) ==
  [s \in DOMAIN f |-> _fetch_rss_source([c \in DOMAIN f[s] |-> parse_rss(s, c, f[s][c])])]

headlines(p) == merge_budget(fetched[p].wire, fetched[p].rss)

-----------------------------------------------------------------------------
(* A refresh.                                                              *)

Goes(p, where) == at' = [at EXCEPT ![p] = where]

\* Mutant: the file's date is not looked at.
loadAnyDay == IF file \notin {NoContext, Torn} THEN file ELSE NoContext

\* The context a reader gets: today's, or none.
load == IF file \notin {NoContext, Torn} /\ file.date = day THEN file ELSE NoContext

\* refresh returns: to the hourly job, which ends, or to the cycle, which
\* goes on with the nominations or says that it has none.
Returns(p, c) ==
  IF p = "brain" THEN Goes(p, "off") /\ UNCHANGED watch
  ELSE /\ Goes(p, "scan")
       /\ watch' = IF c = NoContext THEN {} ELSE c.nominations \ Universe

Degraded(p, c) == IF p = "cycle" /\ c = NoContext THEN {"degradation"} ELSE {}
Forgets(p) == fetched' = [fetched EXCEPT ![p] = NoContext] /\ ctx' = [ctx EXCEPT ![p] = NoContext]

Fetch(p) ==
  /\ at[p] = "fetch"
  /\ \E w \in Wires, f \in Feeds : fetched' = [fetched EXCEPT ![p] =
       [wire |-> fetch_headlines(w), rss |-> fetch_rss_by_source(f)]]
  /\ Goes(p, "distill")
  /\ UNCHANGED <<world, ctx, use, refreshes, closes, fitted, told>>

\* Without a headline there is nothing to distil, and the ledger says so.
NoHeadlines(p) ==
  /\ at[p] = "distill" /\ headlines(p) = <<>>
  /\ Returns(p, NoContext) /\ Forgets(p)
  /\ said' = said \cup {"news_sources"} \cup Degraded(p, NoContext)
  /\ UNCHANGED <<day, file, memory, shown, refreshes, closes, fitted, told>>

\* No model, or no usable answer.
NotDistilled(p) ==
  /\ at[p] = "distill" /\ headlines(p) # <<>>
  /\ Returns(p, NoContext) /\ Forgets(p)
  /\ said' = said \cup Degraded(p, NoContext)
  /\ UNCHANGED <<day, file, memory, shown, refreshes, closes, fitted, told>>

\* validate_nominations: of what was nominated and is new, the first few with
\* fresh bars and enough of them ("fit").
Fit(raw, fit) == {i \in DOMAIN raw : raw[i] \notin Universe /\ raw[i] \in fit}
Before(raw, fit, i) == {raw[j] : j \in {k \in Fit(raw, fit) : k < i}}
Taken(raw, fit) ==
  {i \in Fit(raw, fit) :
     raw[i] \notin Before(raw, fit, i) /\ Cardinality(Before(raw, fit, i)) < MaxNominations}
validate_nominations(raw, fit) == {raw[i] : i \in Taken(raw, fit)}

Distil(p) ==
  /\ at[p] = "distill" /\ headlines(p) # <<>>
  /\ \E flags \in Flaggable, raw \in Nominations :
     \E fit \in SUBSET (Range(raw) \ Universe) :
       LET chosen == validate_nominations(raw, fit)
       IN /\ ctx' = [ctx EXCEPT ![p] = [date |-> day, flags |-> flags, nominations |-> chosen]]
          /\ fitted' = fitted \cup fit
  /\ fetched' = [fetched EXCEPT ![p] = NoContext]
  /\ Goes(p, "open")
  /\ UNCHANGED <<world, use, refreshes, closes, told>>

\* An answer of the wrong shape raises: the cycle goes on without, the hourly
\* job is gone.
Raises(p) ==
  /\ at[p] = "distill" /\ headlines(p) # <<>>
  /\ Returns(p, NoContext) /\ Forgets(p)
  /\ said' = said \cup Degraded(p, NoContext)
  /\ UNCHANGED <<day, file, memory, shown, refreshes, closes, fitted, told>>

\* The file is truncated and then filled.
Open(p) ==
  /\ at[p] = "open"
  /\ file' = Torn
  /\ Goes(p, "dump")
  /\ UNCHANGED <<day, memory, said, fetched, ctx, use, refreshes, closes, fitted, told>>

\* Who fills it after another has, since it was opened, may leave the end of
\* the other's text behind its own.
Dump(p) ==
  /\ at[p] = "dump"
  /\ \/ file' = ctx[p]
     \/ file # Torn /\ file' = Torn
  /\ Goes(p, "record")
  /\ UNCHANGED <<day, memory, said, fetched, ctx, use, refreshes, closes, fitted, told>>

\* It cannot be opened, or cannot be filled: no context.
WriteFails(p) ==
  /\ at[p] \in {"open", "dump"}
  /\ Returns(p, NoContext) /\ Forgets(p)
  /\ said' = said \cup Degraded(p, NoContext)
  /\ UNCHANGED <<day, file, memory, shown, refreshes, closes, fitted, told>>

\* record_context: a row for every symbol flagged or nominated, unless the
\* store fails, and an event whatever came of it.
record_context(p) ==
  \E kept \in {{}, ctx[p].flags \cup ctx[p].nominations} :
    memory' = memory \o SetToSeq({[day |-> day, symbol |-> s, kind |-> "mention"] : s \in kept})

Record(p) ==
  /\ at[p] = "record"
  /\ record_context(p)
  /\ said' = said \cup {"market_context", "news_sources", "news_memory"}
  /\ told' = Append(told, [day |-> day, symbols |-> ctx[p].flags \cup ctx[p].nominations])
  /\ Returns(p, ctx[p]) /\ Forgets(p)
  /\ UNCHANGED <<day, file, shown, refreshes, closes, fitted>>

-----------------------------------------------------------------------------
(* Who refreshes, and who reads.                                           *)

HourlyRefresh ==
  /\ at["brain"] = "off" /\ refreshes < MaxRefreshes
  /\ refreshes' = refreshes + 1
  /\ Goes("brain", "fetch")
  /\ UNCHANGED <<world, fetched, ctx, use, closes, fitted, told>>

\* The cycle takes today's context, or refreshes it inline.
CycleLoads ==
  /\ at["cycle"] = "off" /\ "cycle" \notin said
  /\ IF load # NoContext
     THEN Goes("cycle", "scan") /\ watch' = load.nominations \ Universe
     ELSE Goes("cycle", "fetch") /\ UNCHANGED watch
  /\ said' = said \cup {"cycle"}
  /\ UNCHANGED <<day, file, memory, fetched, ctx, shown, refreshes, closes, fitted, told>>

\* history: what the memory has of a symbol within its retention, the newest
\* first.
history(s) == Reverse(SelectSeq(memory, LAMBDA r : r.symbol = s /\ r.day >= day - Retention))
Of(s, kind) == Len(SelectSeq(history(s), LAMBDA r : r.kind = kind))

\* format_block: nothing without a mention.
format_block(s) ==
  [mentions |-> Of(s, "mention"),
   outcomes |-> IF Of(s, "mention") = 0 THEN 0 ELSE Of(s, "outcome")]

\* The dossier's news: the last few rows of that, which are the oldest.
_news_on_symbol(s) ==
  SubSeq(history(s), Max({1, Len(history(s)) - MaxNewsItems + 1}), Len(history(s)))

Remembered == {memory[i].symbol : i \in DOMAIN memory}

\* The judge of an entry is shown the context the file has by then, and what
\* is remembered of the symbol.
Review ==
  /\ at["cycle"] = "scan"
  /\ \E s \in Remembered \cup watch \cup Universe :
       shown' = [context |-> load, symbol |-> s, recall |-> format_block(s),
                 dossier |-> _news_on_symbol(s), day |-> day]
  /\ Goes("cycle", "reviewed")
  /\ UNCHANGED <<world, fetched, ctx, watch, refreshes, closes, fitted, told>>

CycleEnds ==
  /\ at["cycle"] \in {"scan", "reviewed"}
  /\ Goes("cycle", "off") /\ watch' = {} /\ shown' = NoContext
  /\ UNCHANGED <<world, fetched, ctx, refreshes, closes, fitted, told>>

\* record_outcome: the cycle closes a trade, with or without news before it.
TradeCloses ==
  /\ at["cycle"] = "scan" /\ closes < MaxCloses
  /\ closes' = closes + 1
  /\ \E s \in Universe :
       memory' = Append(memory, [day |-> day, symbol |-> s, kind |-> "outcome"])
  /\ UNCHANGED <<day, file, said, run, use, refreshes, fitted, told>>

Dies(p) ==
  /\ at[p] # "off"
  /\ Goes(p, "off") /\ Forgets(p)
  /\ IF p = "cycle" THEN watch' = {} /\ shown' = NoContext ELSE UNCHANGED use
  /\ UNCHANGED <<world, refreshes, closes, fitted, told>>

\* Midnight.  A cycle is over by then; an hourly refresh on a machine that
\* sleeps may not be.
NextDay ==
  /\ day < MaxDay /\ at["cycle"] = "off"
  /\ day' = day + 1 /\ said' = {} /\ fitted' = {}
  /\ UNCHANGED <<file, memory, run, use, refreshes, closes, told>>

Init ==
  /\ day = 0 /\ file = NoContext /\ memory = <<>> /\ said = {}
  /\ at = [p \in Processes |-> "off"]
  /\ fetched = [p \in Processes |-> NoContext] /\ ctx = [p \in Processes |-> NoContext]
  /\ watch = {} /\ shown = NoContext
  /\ refreshes = 0 /\ closes = 0 /\ fitted = {} /\ told = <<>>

Refresh(p) ==
  \/ Fetch(p) \/ NoHeadlines(p) \/ NotDistilled(p) \/ Distil(p) \/ Raises(p)
  \/ Open(p) \/ Dump(p) \/ WriteFails(p) \/ Record(p) \/ Dies(p)

Next ==
  \/ \E p \in Processes : Refresh(p)
  \/ HourlyRefresh \/ CycleLoads \/ Review \/ CycleEnds \/ TradeCloses \/ NextDay

Spec == Init /\ [][Next]_news

-----------------------------------------------------------------------------
(* Properties.                                                             *)

\* A symbol the cycle scans because the news named it was validated today,
\* whoever refreshed, died or wrote in between, is not one of the universe's,
\* and there are few of them.
WatchFresh ==
  at["cycle"] \in {"scan", "reviewed"} =>
    watch \subseteq fitted \ Universe /\ Cardinality(watch) <= MaxNominations

\* Nothing offered is left out while there is room, nothing is read twice,
\* the feeds get their reserve and every source its share of it.
BudgetFair ==
  \A p \in Processes : fetched[p] # NoContext =>
    LET h == headlines(p)
        rss == FlattenSeq(fetched[p].rss)
        sources == {s \in DOMAIN fetched[p].rss : fetched[p].rss[s] # <<>>}
        Read(from) == Cardinality(Range(h) \cap Range(from))
    IN /\ Len(h) = Least(Total, Len(fetched[p].wire) + Len(rss))
       /\ Cardinality(Range(h)) = Len(h)
       /\ Read(rss) >= Least(Reserved, Len(rss))
       /\ \A s \in sources :
            Read(fetched[p].rss[s]) >=
              Least(Len(fetched[p].rss[s]), Reserved \div Cardinality(sources))

\* What the judge is told a symbol has been in the news for is never more
\* than the refreshes of the retention window that named it, trades are
\* never recalled without a mention, and the dossier is of that window and
\* that symbol too.
RecallBounded ==
  shown # NoContext =>
    /\ shown.recall.mentions <=
         Cardinality({i \in DOMAIN told :
           told[i].day >= shown.day - Retention /\ shown.symbol \in told[i].symbols})
    /\ shown.recall.mentions = 0 => shown.recall.outcomes = 0
    /\ \A r \in Range(shown.dossier) :
         r.symbol = shown.symbol /\ r.day >= shown.day - Retention

=============================================================================
