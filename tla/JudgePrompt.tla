----------------------------- MODULE JudgePrompt ------------------------------
(***************************************************************************)
(* What the judge reads (context_for_llm of src/memory.py, the dossier of  *)
(* src/research.py): a sample of the closed trades with losers forced into *)
(* it, then lessons, knowledge, news, the judge's own record, each within  *)
(* a budget, and all of it cut at a cap.  What the cut removes is named in *)
(* the ledger.                                                             *)
(*                                                                         *)
(* A text is its length, in units; a row of the sample is one unit.        *)
(***************************************************************************)
EXTENDS Integers, Sequences, FiniteSets, SequencesExt, FiniteSetsExt

CONSTANTS
  Configs,      \* total: max_context_chars; named: budgets by block, 0 unset
  Assembled,    \* what there is to say, a length by block
  Label,        \* the length of a block's heading
  Tools,        \* what the dossier's tools may answer: sequences of lengths, Failed
  Failed,
  SampleSize,   \* trades of a sample (10)
  Quota,        \* negative_example_quota, in tenths
  Lookback,     \* review_lookback_trades
  RecallCap,    \* the news memory's budget when none is named (600)
  DossierCap,   \* the dossier's (900)
  Note,         \* the length of "n finding(s) omitted"
  MaxSample     \* bound

VARIABLES
  config,
  closed,       \* the closed trades: won, and how like the signal at hand
  prompt        \* what the judge was last given, what was said of it

brief == <<config, closed, prompt>>

Least(a, b) == IF a < b THEN a ELSE b
Most(a, b) == IF a > b THEN a ELSE b
Take(q, n) == SubSeq(q, 1, Least(n, Len(q)))

-----------------------------------------------------------------------------
(* The sample.                                                             *)

\* Python's q[-n:], all of q for n = 0.
FromEnd(q, n) == IF n = 0 THEN q ELSE SubSeq(q, Most(1, Len(q) - n + 1), Len(q))

Recent == FromEnd(closed, Lookback)
Losers(q) == SelectSeq(q, LAMBDA t : ~t.won)
Winners(q) == SelectSeq(q, LAMBDA t : t.won)

\* How many of a sample's n must be losers.
Forced(n, losers) == Least(Most((n * Quota) \div 10, IF losers = 0 THEN 0 ELSE 1), losers)

\* balanced_trade_sample: the last losers and the last winners, shuffled.
balanced_trade_sample ==
  LET n == Least(Len(Recent), SampleSize)
      losers == Forced(n, Len(Losers(Recent)))
      picked == FromEnd(Losers(Recent), losers) \o FromEnd(Winners(Recent), n - losers)
  IN IF Recent = <<>> THEN {<<>>}
     ELSE {[i \in DOMAIN picked |-> picked[p[i]]] :
             p \in {f \in [DOMAIN picked -> DOMAIN picked] : IsInjective(f)}}

\* sorted by score, the best first, ties as they come.
Ranked(q) ==
  LET likes == {q[i].like : i \in DOMAIN q}
      ByRank == SetToSortSeq(likes, LAMBDA a, b : a > b)
  IN FlattenSeq([k \in DOMAIN ByRank |-> SelectSeq(q, LAMBDA t : t.like = ByRank[k])])

\* A bug: the most similar trades, whatever they came to.
similarUnforced == Take(Ranked(Recent), SampleSize)

\* similar_trade_sample: the most similar losers first get their places, then
\* whoever is most similar; shown in the order of similarity.
similar_trade_sample ==
  LET ranked == Ranked(Recent)
      n == Least(Len(ranked), SampleSize)
      losers == Forced(n, Len(Losers(ranked)))
      kept == Take(Losers(ranked), losers)
      others == SelectSeq(ranked, LAMBDA t : t \notin Range(kept))
      keep == Range(kept) \cup Range(Take(others, n - losers))
  IN Take(SelectSeq(ranked, LAMBDA t : t \in keep), n)

Samples(signal) == IF signal THEN {similar_trade_sample} ELSE balanced_trade_sample

-----------------------------------------------------------------------------
(* The budgets.                                                            *)

Blocks == <<"book", "trades", "research", "lessons", "knowledge", "market_context",
            "news_memory", "scoreboard", "calibration", "regime">>
Always == {"trades", "lessons", "calibration", "regime"}
Unmarked == {"research"}           \* the block _BLOCK_MARKERS does not list

\* context_budgets: what is named, or else a share of the total, or 0: no
\* budget.  The knowledge's label is part of its budget.
context_budgets(c) ==
  LET cfg_or(b, fallback) == IF c.named[b] # 0 THEN c.named[b] ELSE fallback
  IN [b \in Range(Blocks) |->
        CASE b = "lessons" -> cfg_or(b, c.total \div 2)
          [] b = "knowledge" -> cfg_or(b, c.total \div 4) + Label[b]
          [] b \in {"market_context", "scoreboard"} -> cfg_or(b, c.total \div 4)
          [] b = "news_memory" -> cfg_or(b, RecallCap)
          [] OTHER -> cfg_or(b, 0)]

Budgeted(c) == MapThenSumSet(LAMBDA b : context_budgets(c)[b], Range(Blocks))
budget_unbounded(c) == {b \in Range(Blocks) : context_budgets(c)[b] = 0}

\* A finding's line and the end of it; a tool that failed has one too, and the
\* heading names it.
line(tool) == (IF tool = Failed THEN 1 ELSE tool) + 1

\* to_block: the findings that fit, whole, and a note on the others if that
\* fits too.
to_block(tools, budget) ==
  LET Line(i) == line(tools[i])
      Used[i \in 0..Len(tools)] ==
        IF i = 0 THEN Label["research"]
        ELSE IF Used[i - 1] + Line(i) > budget THEN Used[i - 1] ELSE Used[i - 1] + Line(i)
      used == Used[Len(tools)]
      dropped == Cardinality({i \in DOMAIN tools : Used[i] = Used[i - 1]})
  IN IF dropped > 0 /\ used + Note + 1 <= budget THEN used + Note + 1 ELSE used

\* A block's text, sliced to its budget: where there is none, as it is.
Sliced(budget, length) == IF budget = 0 THEN length ELSE Least(budget, length)

\* A block in the prompt, its heading with it; 0 when it is left out.
Block(b, budget, size, rows, tools) ==
  CASE b = "trades" -> Label[b] + Sliced(budget, Most(1, Len(rows)))
    [] b = "research" ->
         IF tools = <<>> THEN 0 ELSE to_block(tools, IF budget = 0 THEN DossierCap ELSE budget)
    [] b = "knowledge" ->
         IF size = 0 THEN 0 ELSE Label[b] + Sliced(budget - Label[b], size)
    [] OTHER ->
         IF size = 0 /\ b \notin Always THEN 0 ELSE Label[b] + Sliced(budget, size)

\* Where a block begins, with one unit between two of them.
Before(b) == {Blocks[i] : i \in 1..(SelectInSeq(Blocks, LAMBDA x : x = b) - 1)}
Starts(length) ==
  [b \in Range(Blocks) |->
     MapThenSumSet(LAMBDA x : IF length[x] = 0 THEN 0 ELSE length[x] + 1, Before(b))]

\* _evicted_blocks: of the blocks with a marker, those the cap leaves out, and
\* the one it falls into: it has not come to the next marker.
_evicted_blocks(length, at, whole, cap) ==
  LET marked == {b \in Range(Blocks) \ Unmarked : length[b] > 0}
      NextMarker(b) == Min({whole} \cup {at[m] : m \in {x \in marked : at[x] > at[b]}})
  IN [lost |-> {b \in marked : at[b] >= cap},
      cut  |-> {b \in marked : at[b] < cap /\ cap < whole /\ cap < NextMarker(b)}]

-----------------------------------------------------------------------------
(* The judge is asked, with a signal at hand or for a lesson without one.  *)

Unasked == [asked |-> FALSE]

context_for_llm(rows, size, tools) ==
  LET budget == context_budgets(config)
      length == [b \in Range(Blocks) |-> Block(b, budget[b], size[b], rows, tools)]
      at == Starts(length)
      whole == at["regime"] + length["regime"]
      cap == config.total
  IN [asked |-> TRUE, length |-> length, at |-> at, rows |-> rows,
      given |-> Least(cap, whole),
      read |-> Take(IF budget["trades"] = 0 THEN rows ELSE Take(rows, budget["trades"]),
                    Most(0, cap - at["trades"] - Label["trades"])),
      evicted |-> IF whole > cap THEN _evicted_blocks(length, at, whole, cap)
                  ELSE [lost |-> {}, cut |-> {}]]

Ask ==
  /\ ~prompt.asked
  /\ \E signal \in BOOLEAN, size \in Assembled, tools \in Tools :
     \E rows \in Samples(signal) :
       prompt' = context_for_llm(rows, size, tools)
  /\ UNCHANGED <<config, closed>>

Answered == prompt.asked /\ prompt' = Unasked /\ UNCHANGED <<config, closed>>

TradeCloses ==
  /\ ~prompt.asked /\ Len(closed) < MaxSample
  /\ \E won \in BOOLEAN, like \in {0, 1} :
       closed' = Append(closed, [id |-> Len(closed), won |-> won, like |-> like])
  /\ UNCHANGED <<config, prompt>>

Init == config \in Configs /\ closed = <<>> /\ prompt = Unasked
Next == Ask \/ Answered \/ TradeCloses
Spec == Init /\ [][Next]_brief

-----------------------------------------------------------------------------
(* Properties.                                                             *)

\* Whether a block reached the judge to its end.
Reached(b) == prompt.at[b] + prompt.length[b] <= prompt.given

\* No block that has a marker is cut without the ledger naming it, and none is
\* named as lost of which the judge read anything.
EvictionTold ==
  prompt.asked =>
    /\ \A b \in Range(Blocks) \ Unmarked :
         prompt.length[b] > 0 /\ ~Reached(b) => b \in prompt.evicted.lost \cup prompt.evicted.cut
    /\ \A b \in prompt.evicted.lost : prompt.at[b] >= prompt.given

\* A configuration that names every budget and leaves room for them, for the
\* headings and for what stands between the blocks, never has a block cut,
\* however much there is to say.
BudgetsSuffice ==
  prompt.asked /\ budget_unbounded(config) = {} =>
    LET headings == MapThenSumSet(LAMBDA b : Label[b], Range(Blocks) \ {"knowledge"})
    IN Budgeted(config) + headings + Len(Blocks) - 1 <= config.total
       => \A b \in Range(Blocks) : Reached(b)

\* The sample holds its share of the losers there are among the recent trades,
\* and has no more rows than it may; if no row's budget is too small for it,
\* that share is read by the judge.
LosersRead ==
  prompt.asked =>
    LET n == Least(Len(Recent), SampleSize)
        share == Forced(n, Len(Losers(Recent)))
        budget == context_budgets(config)["trades"]
    IN /\ Len(prompt.rows) <= SampleSize
       /\ Len(Losers(prompt.rows)) >= share
       /\ (budget = 0 \/ budget >= SampleSize) /\ Reached("trades")
            => Len(Losers(prompt.read)) >= share
=============================================================================
