------------------------------ MODULE BrokerReads -------------------------------
(***************************************************************************)
(* What a cycle loses to a broker that does not answer (src/broker.py): a  *)
(* timeout on every send, retries of the reads, a budget of seconds for    *)
(* all the retries of a cycle.  Beneath them the SDK sends a request again *)
(* that the broker answered with 429 or 504, reads and writes alike.  A    *)
(* call is one request of the SDK; a method of Broker that makes several   *)
(* (cancel_open_orders) is several calls.                                  *)
(***************************************************************************)
EXTENDS Integers

CONSTANTS
  Timeout,       \* seconds of a send: to connect and to be answered
  Attempts,      \* ops.broker_retry_attempts: extra attempts
  Budget,        \* ops.broker_retry_budget_sec
  Backoff,       \* seconds before a retry
  SdkRetries,    \* RESTClient._retry: what the SDK sends again
  SdkWait,       \* RESTClient._retry_wait: seconds before it does
  MaxCalls       \* bound: calls of one cycle

ASSUME ReadsAssumption ==
  {Timeout, Attempts, Budget, Backoff, SdkRetries, SdkWait, MaxCalls} \subseteq Nat

VARIABLES
  calls,         \* calls made by the cycle
  call,          \* the current one: "none", "read", "write"
  attempt,       \* of the current call
  tries,         \* sends of the current attempt
  took,          \* seconds of the current attempt before its last send
  spent,         \* RetryBudget.spent
  sent,          \* ghost: how often the current call went out
  waited         \* ghost: seconds of the cycle's calls, their pauses included

reads == <<calls, call, attempt, tries, took, spent, sent, waited>>

Lower(a, b) == IF a < b THEN a ELSE b

remaining(n) == IF n < Budget THEN Budget - n ELSE 0

Connect(kind) ==
  /\ call = "none" /\ calls < MaxCalls
  /\ call' = kind /\ calls' = calls + 1 /\ attempt' = 0 /\ tries' = 1 /\ took' = 0 /\ sent' = 1
  /\ UNCHANGED <<spent, waited>>

\* 429 or 504: the SDK waits and sends again, inside the attempt.
Resend(elapsed) ==
  /\ call # "none" /\ tries <= SdkRetries
  /\ tries' = tries + 1 /\ sent' = sent + 1 /\ took' = took + elapsed + SdkWait
  /\ UNCHANGED <<calls, call, attempt, spent, waited>>

CallEnds == call' = "none" /\ attempt' = 0 /\ tries' = 0 /\ took' = 0 /\ sent' = 0

\* An answer, or a refusal: an APIError, the SDK's last 429 included, is not
\* tried again.
Answer(elapsed) ==
  /\ call # "none" /\ CallEnds
  /\ waited' = waited + took + elapsed
  /\ UNCHANGED <<calls, spent>>

\* charge: the seconds of a failed attempt and of the pause after it.
charge(elapsed) == spent + took + elapsed
Pause(elapsed) == Lower(Backoff, remaining(charge(elapsed)))

\* A bug: each call may use the budget up by itself.
MayRetryEach(elapsed) == call = "read" /\ attempt < Attempts /\ remaining(took + elapsed) > 0
MayRetry(elapsed) ==
  call = "read" /\ attempt < Attempts /\ remaining(charge(elapsed)) > 0

\* A connection fails or times out: the call is tried again after a pause.
Retry(elapsed) ==
  /\ MayRetry(elapsed)
  /\ spent' = charge(elapsed) + Pause(elapsed)
  /\ waited' = waited + took + elapsed + Pause(elapsed)
  /\ attempt' = attempt + 1 /\ sent' = sent + 1 /\ tries' = 1 /\ took' = 0
  /\ UNCHANGED <<calls, call>>

\* It fails for good.  The last attempt is not charged to the budget; an
\* earlier one that uses it up is.
Raise(elapsed) ==
  /\ call # "none" /\ ~MayRetry(elapsed) /\ CallEnds
  /\ spent' = IF call = "read" /\ attempt < Attempts THEN charge(elapsed) ELSE spent
  /\ waited' = waited + took + elapsed
  /\ UNCHANGED calls

\* The next cycle builds a Broker with a budget of its own.
NewCycle ==
  /\ call = "none" /\ calls > 0
  /\ calls' = 0 /\ spent' = 0 /\ waited' = 0
  /\ UNCHANGED <<call, attempt, tries, took, sent>>

ReadsInit ==
  /\ calls = 0 /\ call = "none" /\ attempt = 0 /\ tries = 0 /\ took = 0 /\ spent = 0
  /\ sent = 0 /\ waited = 0

ReadsNext ==
  \/ \E kind \in {"read", "write"} : Connect(kind)
  \/ \E elapsed \in 0 .. Timeout :
       Resend(elapsed) \/ Answer(elapsed) \/ Retry(elapsed) \/ Raise(elapsed)
  \/ NewCycle

ReadsSpec == ReadsInit /\ [][ReadsNext]_reads

\* The longest attempt: the SDK's every send times out but for its status.
Longest == Timeout + SdkRetries * (Timeout + SdkWait)

ReadsTypeOK ==
  /\ calls \in 0 .. MaxCalls /\ call \in {"none", "read", "write"}
  /\ attempt \in 0 .. Attempts /\ tries \in 0 .. SdkRetries + 1
  /\ took \in Nat /\ spent \in Nat /\ sent \in Nat /\ waited \in Nat

\* A cycle whose every connection fails or hangs waits for the broker no
\* longer than its budget and one attempt of each of its calls, which
\* overshoots the budget or is not charged to it; and a write goes out again
\* only when the broker answered the send before, as often as the SDK does
\* that, never after a failure that leaves unknown whether it arrived.
RetriesBounded ==
  /\ waited <= Budget + calls * Longest
  /\ call = "write" => sent = tries /\ sent <= SdkRetries + 1
=============================================================================
