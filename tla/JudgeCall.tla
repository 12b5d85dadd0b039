----------------------------- MODULE JudgeCall -----------------------------
(***************************************************************************)
(* One signal before the model judge: review_signal of src/llm.py over     *)
(* complete_detailed of src/llm_client.py, the shadow judges of            *)
(* src/llm_shadow.py that read the same prompt, and what main.py's         *)
(* _process_signal does with the answer.  The vendor's replies and its     *)
(* failures are choices.  Scales are in halves: 2 is the full size.        *)
(***************************************************************************)
EXTENDS Integers, Sequences, FiniteSets

CONSTANTS
  Models,      \* llm sections: enabled, key, fallback_model, on_unavailable, candidates
  Replies,     \* verdict and scale a model may answer with
  Entered,     \* shares an entry is sized to
  MaxSignals   \* bound: signals looked at

ASSUME CallAssumption ==
  /\ Models \subseteq [enabled : BOOLEAN, key : {"set", "absent", "keyless"}, fallback_model : BOOLEAN,
                       on_unavailable : STRING, candidates : Seq(STRING)]
  /\ Replies \subseteq [verdict : STRING, scale : Int]
  /\ Entered \subseteq Nat

NaN == 99        \* json.loads reads a literal NaN
Missing == 98    \* no scale in the reply
NotANumber == 97 \* null, a word

VARIABLES
  llm,         \* the configuration
  step,        \* where the signal is
  request,     \* its action, and the shares it would trade
  review,      \* the dict review_signal returned
  answered,    \* ghost: what a model answered, if it did
  shadows,     \* rows of llm_shadow_log for this signal
  todo,        \* shadow candidates left
  outcome,     \* what became of the signal
  count        \* signals so far

judge == <<llm, step, request, review, answered, shadows, todo, outcome, count>>

Nothing == [none |-> TRUE]
Entries == {"buy", "short"}
Exits == {"sell", "cover"}
Prompt == "sha"        \* the hash of the prompt a judged signal is sent
NoPrompt == "none"

-----------------------------------------------------------------------------
(* src/llm_client.py and src/llm.py.                                       *)

needs_key == llm.key # "keyless"
_key_present == ~needs_key \/ llm.key = "set"

\* unavailable_policy: a value that is neither is the default.
unavailable_policy == IF llm.on_unavailable = "block" THEN "block" ELSE "approve"

Clamped(scale) == IF scale < 0 THEN 0 ELSE IF scale > 2 THEN 2 ELSE scale
\* A bug: only the lower end is clamped.
_clamp_scaleFloor(scale) == IF scale = Missing THEN 2 ELSE IF scale < 0 THEN 0 ELSE scale
\* min and max let a NaN through.
_clamp_scale(scale) ==
  IF scale = Missing THEN 2 ELSE IF scale = NaN THEN NaN ELSE Clamped(scale)

\* The rule-based review in the judge's place.  An empty error message is no
\* sign of degradation to the callers that test for one.
Fallback(reason, message, block) ==
  [verdict |-> "approve", scale |-> 2, degraded |-> message, reason |-> reason,
   block |-> block, prompt |-> NoPrompt, judged |-> FALSE]

Off == Fallback("", FALSE, FALSE)
Unavailable(reason, message) == Fallback(reason, message, unavailable_policy = "block")

\* A usable reply has a known verdict and a scale that is a number.
Usable(reply) ==
  reply.verdict \in {"approve", "downsize", "veto"} /\ reply.scale # NotANumber
Parsed(reply) ==
  IF Usable(reply)
  THEN [verdict |-> reply.verdict, scale |-> _clamp_scale(reply.scale), degraded |-> FALSE,
        reason |-> "", block |-> FALSE, prompt |-> Prompt, judged |-> TRUE]
  ELSE Unavailable("parse", TRUE)

\* A bug, until the audit of 2026-08-21: only the text of the default review
\* is one.
is_fallback_reviewText(r) == ~r.judged /\ r.reason # "absent_key"
is_fallback_review(r) == r.degraded \/ ~r.judged

\* complete_detailed: the primary model, then one retry on the fallback.
Answers ==
  [first : BOOLEAN, second : BOOLEAN, message : BOOLEAN, reply : Replies]
Answered(a) == a.first \/ (llm.fallback_model /\ a.second)

review_signal(a) ==
  CASE ~llm.enabled -> Off
    [] llm.enabled /\ ~_key_present -> Unavailable("absent_key", TRUE)
    [] llm.enabled /\ _key_present /\ ~Answered(a) -> Unavailable("api", a.message)
    [] OTHER -> Parsed(a.reply)

-----------------------------------------------------------------------------
Idle == [action |-> "none", full |-> 0]
NoReview == Off

CallInit ==
  /\ llm \in Models
  /\ step = "idle" /\ request = Idle /\ review = NoReview /\ answered = Nothing
  /\ shadows = {} /\ todo = <<>> /\ outcome = Nothing /\ count = 0

Ask(action, full) ==
  /\ step = "idle" /\ count < MaxSignals
  /\ step' = "review" /\ request' = [action |-> action, full |-> full] /\ count' = count + 1
  /\ outcome' = Nothing /\ shadows' = {}
  /\ UNCHANGED <<llm, review, answered, todo>>

Review(a) ==
  /\ step = "review"
  /\ review' = review_signal(a)
  /\ answered' = IF llm.enabled /\ _key_present /\ Answered(a) THEN a.reply ELSE Nothing
  /\ todo' = llm.candidates
  /\ step' = "shadow"
  /\ UNCHANGED <<llm, request, shadows, outcome, count>>

\* log_comparison: a row per candidate, whether it answered, failed or could
\* not be parsed; a row that cannot be written is skipped.
Shadow(ok, written) ==
  /\ step = "shadow" /\ todo # <<>>
  /\ shadows' = IF written
       THEN shadows \cup {[candidate |-> Head(todo), ok |-> ok, prompt |-> review.prompt]}
       ELSE shadows
  /\ todo' = Tail(todo)
  /\ UNCHANGED <<llm, step, request, review, answered, outcome, count>>

Row(kind, executed, qty) ==
  [kind |-> kind, executed |-> executed, qty |-> qty, prompt |-> review.prompt,
   degradation |-> review.degraded]

\* A bug: what could not be judged is refused whatever it is.
RefusedAny == review.block
Refused == request.action \in Entries /\ review.block

\* The signal's end: unjudged entries may be refused, a veto refuses anything,
\* an entry is shrunk and an exit goes out whole.  int() of a NaN ends the
\* cycle.
Decide ==
  /\ step = "shadow" /\ todo = <<>>
  /\ outcome' =
       IF Refused THEN Row("degraded", FALSE, 0)
       ELSE IF review.verdict = "veto" THEN Row("llm", FALSE, 0)
       ELSE IF request.action \in Exits THEN Row("none", TRUE, request.full)
       ELSE IF review.scale = NaN THEN Row("none", FALSE, 0)
       ELSE LET qty == (request.full * review.scale) \div 2
            IN IF qty = 0 THEN Row("rails", FALSE, 0)
               ELSE Row(IF is_fallback_review(review) THEN "degraded" ELSE "llm", TRUE, qty)
  /\ step' = IF request.action \in Entries /\ ~Refused /\ review.verdict # "veto" /\ review.scale = NaN
              THEN "dead" ELSE "idle"
  /\ UNCHANGED <<llm, request, review, answered, shadows, todo, count>>

\* The next cycle starts a process of its own.
NextCycle ==
  /\ step = "dead" /\ step' = "idle"
  /\ UNCHANGED <<llm, request, review, answered, shadows, todo, outcome, count>>

CallNext ==
  \/ \E action \in Entries \cup Exits, full \in Entered : Ask(action, full)
  \/ \E a \in Answers : Review(a)
  \/ \E ok, written \in BOOLEAN : Shadow(ok, written)
  \/ Decide \/ NextCycle

CallSpec == CallInit /\ [][CallNext]_judge

-----------------------------------------------------------------------------
CallTypeOK ==
  /\ step \in {"idle", "review", "shadow", "dead"}
  /\ review.scale \in {0, 1, 2, NaN}
  /\ count \in 0 .. MaxSignals

Decided == outcome # Nothing

\* What the judge can do is shrink: no entry is larger than its size, no exit
\* smaller; nothing is refused that the judge did not veto but an entry it
\* could not judge under the policy that says so; and an exit no judge
\* answered for always goes out.
JudgeOnlyShrinks ==
  Decided =>
    /\ outcome.qty <= request.full
    /\ request.action \in Exits => outcome.qty \in {0, request.full}
    /\ request.action \in Exits /\ ~outcome.executed =>
         answered # Nothing /\ answered.verdict = "veto"
    /\ outcome.kind = "degraded" /\ ~outcome.executed =>
         request.action \in Entries /\ llm.on_unavailable = "block"

\* The judge's record is scored against outcomes: an entry is credited to it
\* exactly when it was one answer of the judge that let it through.
CreditWhereDue ==
  Decided /\ request.action \in Entries =>
    /\ outcome.kind = "llm" => answered # Nothing /\ Usable(answered)
    /\ outcome.executed /\ outcome.kind = "degraded" => answered = Nothing \/ ~Usable(answered)

\* A shadow's row joins the decision it shadowed: it carries the prompt the
\* judge answered, and none when no judge did.
ShadowsJoin ==
  Decided => \A row \in shadows : row.prompt = outcome.prompt
=============================================================================
