------------------------------ MODULE JudgeScore ------------------------------
(***************************************************************************)
(* The judge's score (src/judgments.py): one row per decision, written by  *)
(* the cycle or the half-hourly scan, resolved later by what the trade, or *)
(* the trade that was not made, came to; and the numbers that are read off *)
(* the log and shown to the judge.                                         *)
(*                                                                         *)
(* The log is appended to and never amended: it still holds rows from      *)
(* before a fallback was marked (2026-08-21), and two passes at once may   *)
(* resolve a row twice.                                                    *)
(***************************************************************************)
EXTENDS Integers, Sequences, FiniteSets, FiniteSetsExt, Functions

CONSTANTS
  Profits,       \* what a decision may come to, in percent
  Confidences,   \* what the judge may state, in tenths; Unstated
  Unstated,
  MinN,          \* min_n, resolved rows a rate is read from
  MaxRows, MaxResolutions   \* bounds

NoVerdict == "none"

JudgeScoreConstants == Profits \subseteq Int

VARIABLES
  log,           \* judgments.jsonl
  calls          \* ghost: who decided what, a row each, and its profit

score == <<log, calls>>

-----------------------------------------------------------------------------
(* The rows.                                                               *)

Calls ==
  [by : {"model", "fallback", "nobody"}, verdict : {"approve", "downsize", "veto"},
   blocked : BOOLEAN, where : {"cycle", "scan"}, old : BOOLEAN,
   profit : Profits, confidence : Confidences]

\* A fallback approves, and says nothing of its confidence; without a review
\* there is no verdict; the rows from before the mark are the cycle's.
Possible(c) ==
  /\ c.by = "fallback" => c.verdict = "approve"
  /\ c.by # "model" => c.confidence = Unstated
  /\ c.by = "nobody" => c.blocked /\ c.where = "cycle" /\ c.verdict = "approve"
  /\ c.verdict = "veto" => ~c.blocked
  /\ c.old => c.by = "fallback" /\ ~c.blocked /\ c.where = "cycle"

Refused == [kind |-> "rails", verdict |-> "rails_reject", executed |-> FALSE,
            judge_verdict |-> NoVerdict, confidence |-> Unstated, text |-> "rail"]

\* log_judgment, as the cycle and the scan call it.  What a rail blocks after
\* the review has the review's verdict beside it, but for the scan.
log_judgment(c, degraded_block) ==
  CASE c.by = "nobody" -> Refused
    [] c.by = "fallback" /\ degraded_block ->
         [Refused EXCEPT !.kind = "degraded", !.verdict = "degraded_block"]
    [] c.blocked /\ ~(c.by = "fallback" /\ degraded_block) /\ c.by # "nobody" ->
         [Refused EXCEPT !.judge_verdict = IF c.where = "cycle" THEN c.verdict ELSE NoVerdict]
    [] OTHER ->
         [kind |-> IF c.by = "fallback" /\ ~c.old THEN "degraded" ELSE "llm",
          verdict |-> c.verdict, executed |-> c.verdict # "veto", judge_verdict |-> NoVerdict,
          confidence |-> c.confidence, text |-> IF c.by = "fallback" THEN "fallback" ELSE "model"]

\* Where the log holds a judgment, and where one of these resolved.
Judgments == {k \in DOMAIN log : log[k].event = "judgment"}
Resolutions(id) == {k \in DOMAIN log : log[k].event = "resolution" /\ log[k].id = id}

Decide ==
  /\ Len(calls) < MaxRows
  /\ \E c \in {x \in Calls : Possible(x)}, degraded_block \in BOOLEAN :
       /\ degraded_block => c.by = "fallback" /\ ~c.old
       /\ calls' = Append(calls, c)
       /\ log' = Append(log, [event |-> "judgment", id |-> Len(calls) + 1,
                              row |-> log_judgment(c, degraded_block)])

\* replay: the judgments, each with its last resolution or none.
replay ==
  [id \in {log[k].id : k \in Judgments} |->
    LET of == Resolutions(id)
    IN [id |-> id, row |-> log[CHOOSE k \in Judgments : log[k].id = id].row,
        resolved |-> of # {}, good |-> of # {} /\ log[Max(of)].good]]

\* assess: what was done is good if it paid, what was not if it would not have.
assess(executed, profit) == IF executed THEN profit > 0 ELSE profit <= 0

\* log_resolution, by a pass that found the row unresolved; another may have
\* resolved it since.
Resolve ==
  /\ Cardinality(DOMAIN log \ Judgments) < MaxResolutions
  /\ \E k \in Judgments :
       log' = Append(log, [event |-> "resolution", id |-> log[k].id,
                good |-> assess(log[k].row.executed, calls[log[k].id].profit)])
  /\ UNCHANGED calls

Init == log = <<>> /\ calls = <<>>
Next == Decide \/ Resolve
Spec == Init /\ [][Next]_score

-----------------------------------------------------------------------------
(* The numbers.                                                            *)

Rows == Range(replay)

_was_actually_judged(j) == j.row.kind = "llm" /\ j.row.text # "fallback"

llm == {j \in Rows : _was_actually_judged(j) /\ j.resolved}
vetoes == {j \in llm : j.row.verdict = "veto"}
approves == {j \in llm : j.row.executed}
downsizes == {j \in approves : j.row.verdict = "downsize"}
rails == {j \in Rows : j.row.kind = "rails" /\ j.resolved}
blocked_approves == {j \in rails : j.row.judge_verdict = "approve"}

NoRate == <<0, 0>>
_rate(items) ==
  IF Cardinality(items) < MinN THEN NoRate
  ELSE <<Cardinality({j \in items : j.good}), Cardinality(items)>>

\* calibration_metrics, the counts of which the rates are.
calibration_metrics ==
  [n_resolved |-> Cardinality(llm), veto_precision |-> _rate(vetoes),
   approve_accuracy |-> _rate(approves), n_downsizes |-> Cardinality(downsizes),
   rails_block_precision |-> _rate(rails), blocked_approve_accuracy |-> _rate(blocked_approves)]

\* recent_outcomes_block goes by the kind.
recent_outcomes_block == {j \in Rows : j.resolved /\ j.row.kind = "llm"}

\* confidence_calibration: per stated tenth, how many and how many won.
confidence_calibration(tenth) ==
  LET stated == {j \in recent_outcomes_block : j.row.executed /\ j.row.confidence = tenth}
  IN <<Cardinality({j \in stated : j.good}), Cardinality(stated)>>

-----------------------------------------------------------------------------
(* Properties.                                                             *)

\* What the model decided, and what of all there was to decide paid.
Vetoed == {i \in DOMAIN calls : calls[i].by = "model" /\ calls[i].verdict = "veto"}
Approved == {i \in DOMAIN calls :
              calls[i].by = "model" /\ calls[i].verdict # "veto" /\ ~calls[i].blocked}
Paid == {i \in DOMAIN calls : calls[i].profit > 0}

\* The calls of these that have come to something, and the share that was
\* right.
Resolved(i) == \E e \in Range(log) : e.event = "resolution" /\ e.id = i
Share(made, right) ==
  LET due == {i \in made : Resolved(i)}
  IN IF Cardinality(due) < MinN THEN NoRate ELSE <<Cardinality(due \cap right), Cardinality(due)>>

\* The judge is scored for what it did, all of it and nothing else, once: its
\* vetoes by what they spared, its approvals by what they earned, however the
\* log came to be; a rail's blocks are never its own.
ScoreEarned ==
  /\ calibration_metrics.veto_precision = Share(Vetoed, DOMAIN calls \ Paid)
  /\ calibration_metrics.approve_accuracy = Share(Approved, Paid)
  /\ calibration_metrics.n_resolved = Cardinality(vetoes) + Cardinality(approves)
  /\ \A j \in rails : calls[j.id].blocked

\* What the judge is shown as its own calls were its own, or are as old as
\* the mark; and its confidence is held against trades that were made.
ShownEarned ==
  /\ \A j \in recent_outcomes_block : calls[j.id].by = "model" \/ calls[j.id].old
  /\ \A tenth \in Confidences \ {Unstated} :
       confidence_calibration(tenth)[2] =
         Cardinality({i \in Approved : calls[i].confidence = tenth /\ Resolved(i)})
=============================================================================
