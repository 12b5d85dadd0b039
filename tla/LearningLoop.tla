----------------------------- MODULE LearningLoop -----------------------------
(***************************************************************************)
(* The learning loop (src/learn.py over src/lessons.py and                 *)
(* src/judgments.py): lessons are hypotheses in an append-only book; each  *)
(* closed trade is held against them once by a model, each resolved        *)
(* judgment scores the lessons it cited, and a lifecycle pass promotes,    *)
(* refutes or retires them.  One pass runs at the end of every cycle       *)
(* (inline_pass) and one a week (full_run), which may also merge lessons.  *)
(* A pass may be killed between any two records it appends.                *)
(*                                                                         *)
(* A trade id stands for its decision, its judgment and its outcome.  What *)
(* the model answers is a choice.                                          *)
(***************************************************************************)
EXTENDS Integers, Sequences, FiniteSets, FiniteSetsExt

CONSTANTS
  Trades, Lessons,
  Book,        \* the lessons in the book at the start
  NoTrade,     \* the source of a lesson that no trade created
  Readable,    \* sets of trades: the model can make something of one of them
  MaxCites,    \* lessons a judgment may cite
  Limit,       \* model calls in a pass
  PromoteAt, Ratio, RefuteAt,   \* learning.promotion_* and refutation_*
  Stale,       \* days without evidence after which a lesson is retired
  MaxFaults    \* bound: passes killed and model calls that failed

ASSUME SetsAssumption ==
  Book \subseteq Lessons /\ NoTrade \notin Trades /\ Readable \subseteq SUBSET Trades
ASSUME NumbersAssumption ==
  /\ {MaxCites, Stale, MaxFaults} \subseteq Nat
  /\ {Limit, PromoteAt, Ratio, RefuteAt} \subseteq Nat \ {0}

Relations == {"supports", "contradicts"}
TERMINAL  == {"refuted", "retired"}

VARIABLES
  stage,      \* each trade: none, open, closed; or vetoed, due
  closed,     \* the ledger's outcomes, oldest first
  cites,      \* lessons the trade's judgment cited
  resolved,   \* trades whose judgment has a resolution
  status, source,
  evidence,   \* how often a trade counts for and against a lesson
  quiet,      \* days since a lesson's last evidence
  evaluated,  \* trades with a trade_evaluated mark
  readable,   \* one of the sets, chosen once
  pc, cont,
  todo, live, \* what a pass read at its start: trades, lessons; what it merges into
  calls,      \* trades it has evaluated
  cur, found, \* the trade (or merged lesson) at hand, the evidence still to append
  moves,      \* the status changes still to append
  faults,
  deferred    \* ghost: has a closed trade missed the pass after its close?

trades == <<stage, closed, cites, resolved>>
book   == <<status, source, evidence, quiet>>
pass   == <<pc, cont, todo, live, calls, cur, found, moves>>
vars   == <<trades, book, evaluated, readable, pass, faults, deferred>>

Live     == {l \in Lessons : status[l] \in {"candidate", "active"}}
Unused   == {l \in Lessons : status[l] = "none"}
Trial(l) == {t \in Trades : \E rel \in Relations : evidence[l][rel][t] > 0}
Total(l, rel) == MapThenSumSet(LAMBDA t : evidence[l][rel][t], Trades)

-----------------------------------------------------------------------------
(* Between the passes.                                                     *)

\* A judged entry, executed or blocked; the judge names the lessons it used.
Decide(t) ==
  /\ pc = "idle" /\ stage[t] = "none"
  /\ \E to \in {"open", "vetoed"} : stage' = [stage EXCEPT ![t] = to]
  /\ \E c \in SUBSET (Lessons \ Unused) :
       Cardinality(c) <= MaxCites /\ cites' = [cites EXCEPT ![t] = c]
  /\ UNCHANGED <<closed, resolved, book, evaluated, readable, pass, faults, deferred>>

\* add_lesson: a new candidate.
AddLesson(l, from) ==
  /\ status' = [status EXCEPT ![l] = "candidate"]
  /\ source' = [source EXCEPT ![l] = from]
  /\ quiet'  = [quiet EXCEPT ![l] = 0]

\* handle_close: the outcome, then perhaps a lesson from it.
Close(t) ==
  /\ pc = "idle" /\ stage[t] = "open"
  /\ stage' = [stage EXCEPT ![t] = "closed"]
  /\ closed' = Append(closed, t)
  /\ \/ UNCHANGED <<status, source, quiet>>
     \/ Unused # {} /\ AddLesson(CHOOSE l \in Unused : TRUE, t)
  /\ UNCHANGED <<cites, resolved, evidence, evaluated, readable, pass, faults, deferred>>

\* A day: lessons age, and the horizon of the blocked entries passes.
NewDay ==
  /\ pc = "idle"
  /\ quiet' = [l \in Lessons |-> IF l \in Live /\ quiet[l] <= Stale THEN quiet[l] + 1 ELSE quiet[l]]
  /\ stage' = [t \in Trades |-> IF stage[t] = "vetoed" THEN "due" ELSE stage[t]]
  /\ UNCHANGED <<closed, cites, resolved, status, source, evidence, evaluated, readable,
                 pass, faults, deferred>>

-----------------------------------------------------------------------------
(* evaluate_closed_trades                                                  *)

Goto(l) == pc' = l /\ UNCHANGED <<cont, found>>

\* Append the evidence fs, then go on at l.
AppendAll(fs, l) ==
  /\ found' = fs
  /\ IF fs = {} THEN pc' = l /\ cont' = "idle" ELSE pc' = "evidence" /\ cont' = l

Start ==
  /\ pc = "idle"
  /\ todo' = closed
  /\ live' = Live /\ calls' = 0
  /\ Goto("evaluate")
  /\ UNCHANGED <<trades, book, evaluated, readable, cur, moves, faults, deferred>>

\* A trade with its mark is passed over.
PassOver ==
  /\ pc = "evaluate" /\ todo # <<>> /\ calls < Limit /\ Head(todo) \in evaluated
  /\ todo' = Tail(todo)
  /\ UNCHANGED <<trades, book, evaluated, readable, pc, cont, live, calls, cur, found, moves,
                 faults, deferred>>

Due == todo # <<>> /\ calls < Limit /\ Head(todo) \notin evaluated

\* A bug: a trade is held against the lesson it created.
CandidatesAll(t) == live
Candidates(t) == {l \in live : source[l] # t}

Evaluate ==
  /\ pc = "evaluate" /\ Due
  /\ Candidates(Head(todo)) # {} /\ Head(todo) \in readable
  /\ todo' = Tail(todo) /\ cur' = Head(todo)
  /\ \E said \in [Candidates(Head(todo)) -> Relations \cup {"unrelated"}] :
       AppendAll({<<l, said[l], Head(todo)>> : l \in {x \in DOMAIN said : said[x] # "unrelated"}},
                 "mark")
  /\ UNCHANGED <<trades, book, evaluated, readable, live, calls, moves, faults, deferred>>

\* A bug: trades that need no model call are marked past the limit.
EvaluateNothingPast ==
  /\ pc = "evaluate" /\ todo # <<>> /\ Head(todo) \notin evaluated
  /\ Candidates(Head(todo)) = {}
  /\ todo' = Tail(todo) /\ cur' = Head(todo)
  /\ Goto("mark")
  /\ UNCHANGED <<trades, book, evaluated, readable, live, calls, moves, faults, deferred>>

EvaluateNothing ==
  /\ pc = "evaluate" /\ Due
  /\ Candidates(Head(todo)) = {}
  /\ todo' = Tail(todo) /\ cur' = Head(todo)
  /\ Goto("mark")
  /\ UNCHANGED <<trades, book, evaluated, readable, live, calls, moves, faults, deferred>>

Spend == faults < MaxFaults /\ faults' = faults + 1

\* A bug: a call without an answer uses up the pass.
EvaluateFailsCounted ==
  /\ pc = "evaluate" /\ Due
  /\ Candidates(Head(todo)) # {}
  /\ IF Head(todo) \in readable THEN Spend ELSE UNCHANGED faults
  /\ todo' = Tail(todo) /\ deferred' = TRUE /\ calls' = calls + 1
  /\ UNCHANGED <<trades, book, evaluated, readable, pc, cont, live, cur, found, moves>>

\* No answer, or one that cannot be parsed: nothing is written, the next
\* trade has its turn and this one the next pass.
EvaluateFails ==
  /\ pc = "evaluate" /\ Due
  /\ Candidates(Head(todo)) # {}
  /\ IF Head(todo) \in readable THEN Spend ELSE UNCHANGED faults
  /\ todo' = Tail(todo) /\ deferred' = TRUE
  /\ UNCHANGED <<trades, book, evaluated, readable, pc, cont, live, calls, cur, found, moves>>

\* One evidence record.
AddEvidence ==
  /\ pc = "evidence"
  /\ \E f \in found :
       /\ evidence' = [evidence EXCEPT ![f[1]][f[2]][f[3]] = @ + 1]
       /\ quiet' = [quiet EXCEPT ![f[1]] = 0]
       /\ found' = found \ {f}
       /\ IF found = {f} THEN pc' = cont /\ cont' = "idle" ELSE UNCHANGED <<pc, cont>>
  /\ UNCHANGED <<trades, status, source, evaluated, readable, todo, live, calls, cur,
                 moves, faults, deferred>>

MarkEvaluated ==
  /\ pc = "mark"
  /\ evaluated' = evaluated \cup {cur}
  /\ calls' = calls + 1 /\ cur' = NoTrade
  /\ Goto("evaluate")
  /\ UNCHANGED <<trades, book, readable, todo, live, moves, faults, deferred>>

EndEvaluate ==
  /\ pc = "evaluate" /\ (todo = <<>> \/ calls >= Limit)
  /\ deferred' = (deferred \/ \E i \in DOMAIN todo : todo[i] \notin evaluated)
  /\ todo' = <<>> /\ live' = {} /\ calls' = 0
  /\ Goto("resolve")
  /\ UNCHANGED <<trades, book, evaluated, readable, cur, moves, faults>>

-----------------------------------------------------------------------------
(* resolve_realized, resolve_counterfactuals, grade_cited_lessons          *)

Outcome == {t \in Trades : stage[t] = "closed"}
\* A bug: a blocked entry is resolved before its horizon has passed.
ObservedEarly == {t \in Trades : stage[t] \in {"closed", "vetoed", "due"}}
Observed == {t \in Trades : stage[t] \in {"closed", "due"}}

\* Outcomes first, then the blocked entries; the resolution is appended before
\* the lessons are graded.
Resolve ==
  /\ pc = "resolve"
  /\ \E t \in Observed \ resolved :
       /\ t \in Outcome \/ Outcome \subseteq resolved
       /\ resolved' = resolved \cup {t} /\ cur' = t
  /\ Goto("grade")
  /\ UNCHANGED <<stage, closed, cites, book, evaluated, readable, todo, live, calls, moves,
                 faults, deferred>>

\* A bug: a lesson is scored again by a trade that has evidenced it.
GradedTwice == cites[cur] \cap Live
\* A bug: a lesson closed since the citation is scored.
GradedClosed == {l \in cites[cur] : cur \notin Trial(l)}
Graded == {l \in cites[cur] \cap Live : cur \notin Trial(l)}

Grade ==
  /\ pc = "grade"
  /\ \E rel \in Relations : AppendAll({<<l, rel, cur>> : l \in Graded}, "resolve")
  /\ cur' = NoTrade
  /\ UNCHANGED <<trades, book, evaluated, readable, todo, live, calls, moves, faults, deferred>>

-----------------------------------------------------------------------------
(* run_transitions and apply_meta_merge                                    *)

Judged == {l \in Lessons : status[l] \notin TERMINAL \cup {"none"}}

\* apply_transitions: refutation before retirement before promotion.
apply_transitions ==
  LET sup(l) == Total(l, "supports")
      con(l) == Total(l, "contradicts")
      refuted == {l \in Judged : con(l) >= sup(l) /\ sup(l) + con(l) >= RefuteAt}
      retired == {l \in Judged \ refuted : quiet[l] > Stale}
      active  == {l \in Judged \ (refuted \cup retired) :
                    /\ status[l] = "candidate"
                    /\ sup(l) >= PromoteAt /\ sup(l) >= Ratio * con(l)}
  IN (refuted \X {"refuted"}) \cup (retired \X {"retired"}) \cup (active \X {"active"})

\* Every outcome has been used; a counterfactual may wait for its bars.
EndResolve ==
  /\ pc = "resolve" /\ Outcome \subseteq resolved
  /\ moves' = apply_transitions
  /\ Goto("change")
  /\ UNCHANGED <<trades, book, evaluated, readable, todo, live, calls, cur, faults, deferred>>

ChangeStatus ==
  /\ pc = "change"
  /\ \E m \in moves : status' = [status EXCEPT ![m[1]] = m[2]] /\ moves' = moves \ {m}
  /\ UNCHANGED <<trades, source, evidence, quiet, evaluated, readable, pc, cont, todo, live,
                 calls, cur, found, faults, deferred>>

\* A bug: any lesson of the book is merged.
MergeableAll == Lessons \ Unused
Mergeable == Live

\* The weekly pass merges lessons into a new candidate; one named twice counts
\* as two.
Merge ==
  /\ pc = "change" /\ moves = {}
  /\ Cardinality(Mergeable) >= 2 /\ Unused # {}
  /\ LET new == CHOOSE l \in Unused : TRUE
     IN AddLesson(new, NoTrade) /\ live' = {new}
  /\ \E from \in (SUBSET Mergeable) \ {{}} : moves' = from \X {"retired"}
  /\ Goto("merge")
  /\ UNCHANGED <<trades, evidence, evaluated, readable, todo, calls, cur, faults, deferred>>

Inherited(from, new) ==
  {e \in Relations \X Trades :
     evidence[from][e[1]][e[2]] > 0 /\ evidence[new][e[1]][e[2]] = 0}

\* One source after another: its evidence that the others had not, ...
Inherit ==
  /\ pc = "merge"
  /\ \E m \in moves, new \in live :
       /\ AppendAll({<<new, e[1], e[2]>> : e \in Inherited(m[1], new)}, "retire")
       /\ cur' = m[1] /\ moves' = moves \ {m}
  /\ UNCHANGED <<trades, book, evaluated, readable, todo, live, calls, faults, deferred>>

\* ... then its retirement.
Retire ==
  /\ pc = "retire"
  /\ status' = [status EXCEPT ![cur] = "retired"] /\ cur' = NoTrade
  /\ Goto("merge")
  /\ UNCHANGED <<trades, source, evidence, quiet, evaluated, readable, todo, live, calls,
                 moves, faults, deferred>>

Ends == /\ pc' = "idle" /\ cont' = "idle" /\ todo' = <<>> /\ live' = {} /\ calls' = 0
        /\ cur' = NoTrade /\ found' = {} /\ moves' = {}

Finish ==
  /\ pc \in {"change", "merge"} /\ moves = {}
  /\ Ends
  /\ UNCHANGED <<trades, book, evaluated, readable, faults, deferred>>

\* The process is killed, or an exception ends the pass.
Kill ==
  /\ pc # "idle" /\ Spend
  /\ deferred' = TRUE
  /\ Ends
  /\ UNCHANGED <<trades, book, evaluated, readable>>

-----------------------------------------------------------------------------
Init ==
  /\ stage = [t \in Trades |-> "none"] /\ closed = <<>>
  /\ cites = [t \in Trades |-> {}] /\ resolved = {}
  /\ status = [l \in Lessons |-> IF l \in Book THEN "candidate" ELSE "none"]
  /\ source = [l \in Lessons |-> NoTrade]
  /\ evidence = [l \in Lessons |-> [rel \in Relations |-> [t \in Trades |-> 0]]]
  /\ quiet = [l \in Lessons |-> 0]
  /\ evaluated = {} /\ readable \in Readable
  /\ pc = "idle" /\ cont = "idle" /\ todo = <<>> /\ live = {} /\ calls = 0
  /\ cur = NoTrade /\ found = {} /\ moves = {}
  /\ faults = 0 /\ deferred = FALSE

Step ==
  \/ Start \/ PassOver \/ Evaluate \/ EvaluateNothing \/ EvaluateFails \/ AddEvidence \/ MarkEvaluated
  \/ EndEvaluate \/ Resolve \/ Grade \/ EndResolve \/ ChangeStatus \/ Merge
  \/ Inherit \/ Retire \/ Finish

Next ==
  \/ \E t \in Trades : Decide(t) \/ Close(t)
  \/ NewDay \/ Step \/ Kill

Spec == Init /\ [][Next]_vars

\* Passes keep coming, and one that has begun goes on.
LiveSpec == Spec /\ WF_vars(Step)

-----------------------------------------------------------------------------
TypeOK ==
  /\ stage \in [Trades -> {"none", "open", "closed", "vetoed", "due"}]
  /\ closed \in Seq(Trades) /\ cites \in [Trades -> SUBSET Lessons] /\ resolved \subseteq Trades
  /\ status \in [Lessons -> {"none", "candidate", "active"} \cup TERMINAL]
  /\ source \in [Lessons -> Trades \cup {NoTrade}]
  /\ evidence \in [Lessons -> [Relations -> [Trades -> Nat]]]
  /\ quiet \in [Lessons -> 0 .. Stale + 1]
  /\ evaluated \subseteq Trades /\ readable \in Readable
  /\ pc \in {"idle", "evaluate", "evidence", "mark", "resolve", "grade", "change",
             "merge", "retire"}
  /\ cont \in {"idle", "mark", "resolve", "retire"}
  /\ todo \in Seq(Trades) /\ live \subseteq Lessons /\ calls \in 0 .. Limit
  /\ cur \in Trades \cup Lessons \cup {NoTrade} /\ found \subseteq Lessons \X Relations \X Trades
  /\ moves \subseteq Lessons \X {"active", "refuted", "retired"}
  /\ faults \in 0 .. MaxFaults /\ deferred \in BOOLEAN

\* A trade never counts twice on one side of a lesson, though two passes over
\* it write evidence and merges copy it ("never double-count", learn.py).
EvidenceOnce ==
  \A l \in Lessons, rel \in Relations, t \in Trades : evidence[l][rel][t] <= 1

\* ... as long as every closed trade was evaluated in the first pass after its
\* close: then the citations, graded later, find it already in the book.
EvidenceOnceInTime == ~deferred => EvidenceOnce

\* A lesson is evidenced by outcomes the program had seen, never by the trade
\* it was drawn from, whether the evaluator, a citation or a merge wrote it.
EvidenceEmbargoed ==
  \A l \in Lessons : \A t \in Trial(l) : stage[t] \in {"closed", "due"} /\ source[l] # t

\* The passes keep the book's promise: with the trades whose outcome can be
\* observed as what is known, and the trades on trial as a lesson's score, every
\* step of the loop is one of LessonLife or changes nothing there.
Known  == {t \in Trades : stage[t] \in {"closed", "due"}}
Credit == [l \in Lessons |-> Trial(l)]
Life   == INSTANCE LessonLife WITH known <- Known, credit <- Credit
ImplementsLife == Life!Spec

\* Refuted and retired are terminal: no later pass, kill or merge brings a
\* lesson back into the prompt.
TerminalForGood ==
  [][\A l \in Lessons : status[l] \in TERMINAL => status'[l] = status[l]]_vars

\* Between the passes every resolved judgment has scored the lessons it cited
\* that are still live, unless a pass was killed after the resolution.
CitationsGraded ==
  pc = "idle" /\ faults = 0 =>
    \A t \in resolved : \A l \in cites[t] \cap Live : t \in Trial(l)

\* No outcome is lost on a lesson, and none counts twice.
EvidenceKept == EvidenceOnceInTime /\ CitationsGraded

\* The evaluator catches up: again and again every closed trade the model can
\* read is evaluated, however many it cannot read stand before it in the
\* ledger and however the passes are killed and capped.
EvaluatorCatchesUp ==
  []<>(\A t \in Trades : stage[t] = "closed" /\ t \in readable => t \in evaluated)
=============================================================================
