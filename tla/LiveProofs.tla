------------------------------ MODULE LiveProofs -------------------------------
(***************************************************************************)
(* What a live cycle does to its book, for every set of symbols,           *)
(* strategies, universes and configurations: positions are heard, the      *)
(* cooldown is kept, stops are neither lowered nor invented; what a broker *)
(* that does not answer can cost it; what the scan of swing_sectors may    *)
(* send between two cycles; what the operator is told; what a preflight    *)
(* lets through and which news a cycle scans by.                           *)
(***************************************************************************)
EXTENDS LiveCycle, OpsSignals, FiniteSetTheorems, TLAPS

-----------------------------------------------------------------------------
(* Greatest elements, and sequences made of sets.                          *)

LEMMA LeastOf ==
  ASSUME NEW S \in SUBSET Nat, S # {}
  PROVE  \E x \in S : \A y \in S : x <= y
<1> DEFINE R == OpToRel(<, Nat)
<1>1. IsWellFoundedOn(R, Nat)
  BY NatLessThanWellFounded
<1>2. \A x, y \in Nat : <<y, x>> \in R <=> y < x
  BY DEF OpToRel
<1> HIDE DEF R
<1>3. \E x \in S : \A y \in S : ~ (<<y, x>> \in R)
  BY <1>1, WFMin
<1>4. PICK x \in S : \A y \in S : ~ (<<y, x>> \in R)
  BY <1>3
<1>5. ASSUME NEW y \in S PROVE x <= y
  <2>1. x \in Nat /\ y \in Nat /\ ~ (<<y, x>> \in R)
    BY <1>4
  <2>2. ~ (y < x)
    BY <1>2, <2>1
  <2> QED BY <2>1, <2>2
<1> QED BY <1>5

\* Of the numbers above each element the greatest has the fewest.
LEMMA GreatestOf ==
  ASSUME NEW S \in SUBSET Nat, IsFiniteSet(S), S # {}
  PROVE  \E x \in S : \A y \in S : y <= x
<1> DEFINE Above(x) == {z \in S : z > x}
           Counts == {Cardinality(Above(x)) : x \in S}
<1>1. ASSUME NEW x \in S PROVE IsFiniteSet(Above(x)) /\ Cardinality(Above(x)) \in Nat
  BY FS_Subset, FS_CardinalityType
<1>2. Counts \in SUBSET Nat /\ Counts # {}
  BY <1>1
<1> HIDE DEF Above
<1>3. PICK x \in S : \A y \in S : Cardinality(Above(x)) <= Cardinality(Above(y))
  <2>1. PICK k \in Counts : \A j \in Counts : k <= j
    BY <1>2, LeastOf
  <2> QED BY <2>1
<1>4. ASSUME NEW y \in S, y > x PROVE FALSE
  <2>1. Above(y) \subseteq Above(x) /\ y \in Above(x) /\ y \notin Above(y)
    <3>1. \A z \in S : z > y => z > x
      BY <1>4
    <3>2. ~ (y > y)
      OBVIOUS
    <3> QED BY <1>4, <3>1, <3>2, Zenon DEF Above
  <2>2. Cardinality(Above(y)) <= Cardinality(Above(x)) /\ Cardinality(Above(y)) # Cardinality(Above(x))
    BY <1>1, <2>1, FS_Subset
  <2> QED BY <1>1, <1>3, <2>2
<1> QED BY <1>4

LEMMA SetSequence ==
  ASSUME NEW S, IsFiniteSet(S)
  PROVE  SetToSeq(S) \in Seq(S) /\ IsInjective(SetToSeq(S)) /\ Range(SetToSeq(S)) = S
<1> DEFINE n == Cardinality(S)
<1>1. n \in Nat /\ ExistsBijection(1 .. n, S)
  BY FS_CardinalityType
<1>2. \E f \in [1 .. n -> S] : IsInjective(f)
  BY <1>1 DEF ExistsBijection, Bijection, Injection, IsInjective
<1>3. PICK f : f = SetToSeq(S) /\ f \in [1 .. n -> S] /\ IsInjective(f)
  BY <1>2 DEF SetToSeq
<1>4. Cardinality(1 .. n) = n /\ f \in Injection(1 .. n, S)
  BY <1>1, <1>3, FS_Interval DEF Injection
<1>5. f \in Surjection(1 .. n, S)
  BY <1>4, FS_Injection
<1>6. Range(f) = S
  BY <1>3, <1>5 DEF Surjection, Range
<1>7. f \in Seq(S)
  BY <1>1, <1>3
<1> QED BY <1>3, <1>6, <1>7

LEMMA SequenceRange ==
  ASSUME NEW S, NEW q \in Seq(S)
  PROVE  /\ Range(q) \subseteq S /\ (q = <<>> <=> Range(q) = {})
         /\ q # <<>> => /\ Head(q) \in Range(q) /\ Tail(q) \in Seq(S)
                        /\ Range(q) = {Head(q)} \cup Range(Tail(q))
                        /\ IsInjective(q) => IsInjective(Tail(q)) /\ Head(q) \notin Range(Tail(q))
<1>1. PICK n \in Nat : n = Len(q)
  OBVIOUS
<1>2. DOMAIN q = 1 .. n /\ \A i \in 1 .. n : q[i] \in S
  BY <1>1
<1>3. Range(q) \subseteq S /\ (q = <<>> <=> Range(q) = {})
  <2>1. q = <<>> <=> n = 0
    BY <1>1
  <2>2. n = 0 <=> 1 .. n = {}
    <3>1. n # 0 => 1 \in 1 .. n
      BY <1>1
    <3> QED BY <3>1
  <2>3. Range(q) = {} <=> 1 .. n = {}
    BY <1>2, Zenon DEF Range
  <2> QED BY <1>2, <2>1, <2>2, <2>3 DEF Range
<1>4. ASSUME q # <<>>
      PROVE  /\ Head(q) \in Range(q) /\ Tail(q) \in Seq(S)
             /\ Range(q) = {Head(q)} \cup Range(Tail(q))
             /\ IsInjective(q) => IsInjective(Tail(q)) /\ Head(q) \notin Range(Tail(q))
  <2>1. /\ n > 0 /\ Head(q) = q[1] /\ Tail(q) \in Seq(S) /\ DOMAIN Tail(q) = 1 .. n - 1
        /\ \A i \in 1 .. n - 1 : Tail(q)[i] = q[i + 1]
    BY <1>1, <1>4
  <2>2. \A x : x \in Range(q) <=> x \in {Head(q)} \cup Range(Tail(q))
    <3>1. ASSUME NEW x \in Range(q) PROVE x \in {Head(q)} \cup Range(Tail(q))
      <4>1. PICK i \in 1 .. n : x = q[i]
        BY <1>2 DEF Range
      <4>2. i = 1 \/ (i - 1 \in 1 .. n - 1 /\ Tail(q)[i - 1] = q[i])
        BY <2>1, <4>1
      <4> QED BY <2>1, <4>1, <4>2 DEF Range
    <3>2. ASSUME NEW x \in {Head(q)} \cup Range(Tail(q)) PROVE x \in Range(q)
      BY <1>2, <2>1, <3>2 DEF Range
    <3> QED BY <3>1, <3>2
  <2>3. ASSUME IsInjective(q) PROVE IsInjective(Tail(q)) /\ Head(q) \notin Range(Tail(q))
    <3>1. \A i, j \in 1 .. n : q[i] = q[j] => i = j
      BY <1>2, <2>3 DEF IsInjective
    <3>2. ASSUME NEW i \in 1 .. n - 1, NEW j \in 1 .. n - 1, Tail(q)[i] = Tail(q)[j] PROVE i = j
      BY <2>1, <3>1, <3>2
    <3>3. ASSUME NEW i \in 1 .. n - 1, Tail(q)[i] = q[1] PROVE FALSE
      BY <2>1, <3>1, <3>3
    <3> QED BY <2>1, <3>2, <3>3 DEF IsInjective, Range
  <2> QED BY <2>1, <2>2, <2>3 DEF Range
<1> QED BY <1>3, <1>4

LEMMA SequenceJoin ==
  ASSUME NEW S, NEW p \in Seq(S), NEW q \in Seq(S)
  PROVE  /\ p \o q \in Seq(S) /\ Range(p \o q) = Range(p) \cup Range(q)
         /\ IsInjective(p) /\ IsInjective(q) /\ Range(p) \cap Range(q) = {} => IsInjective(p \o q)
<1>1. PICK m \in Nat, n \in Nat : m = Len(p) /\ n = Len(q)
  OBVIOUS
<1>2. DOMAIN p = 1 .. m /\ DOMAIN q = 1 .. n
  BY <1>1
<1>3. PICK r : r = p \o q
  OBVIOUS
<1>4. /\ r \in Seq(S) /\ DOMAIN r = 1 .. m + n
      /\ \A i \in 1 .. m : r[i] = p[i]
      /\ \A i \in m + 1 .. m + n : i - m \in 1 .. n /\ r[i] = q[i - m]
  BY <1>1, <1>3
<1>5. Range(r) = Range(p) \cup Range(q)
  <2>1. ASSUME NEW i \in 1 .. m + n PROVE r[i] \in Range(p) \cup Range(q)
    <3>1. i \in 1 .. m \/ i \in m + 1 .. m + n
      OBVIOUS
    <3> QED BY <1>2, <1>4, <3>1 DEF Range
  <2>2. ASSUME NEW i \in 1 .. m PROVE p[i] \in Range(r)
    <3>1. i \in 1 .. m + n
      OBVIOUS
    <3> QED BY <1>4, <3>1 DEF Range
  <2>3. ASSUME NEW i \in 1 .. n PROVE q[i] \in Range(r)
    <3>1. i + m \in m + 1 .. m + n /\ i + m \in 1 .. m + n /\ (i + m) - m = i
      OBVIOUS
    <3> QED BY <1>4, <3>1 DEF Range
  <2> QED BY <1>2, <1>4, <2>1, <2>2, <2>3 DEF Range
<1>6. ASSUME IsInjective(p), IsInjective(q), Range(p) \cap Range(q) = {} PROVE IsInjective(r)
  <2> SUFFICES ASSUME NEW i \in 1 .. m + n, NEW j \in 1 .. m + n, r[i] = r[j] PROVE i = j
    BY <1>4 DEF IsInjective
  <2>1. (i \in 1 .. m \/ i \in m + 1 .. m + n) /\ (j \in 1 .. m \/ j \in m + 1 .. m + n)
    OBVIOUS
  <2>2. CASE i \in 1 .. m /\ j \in 1 .. m
    BY <1>2, <1>4, <1>6, <2>2 DEF IsInjective
  <2>3. CASE i \in m + 1 .. m + n /\ j \in m + 1 .. m + n
    <3>1. i - m \in 1 .. n /\ j - m \in 1 .. n /\ q[i - m] = q[j - m]
      BY <1>4, <2>3
    <3>2. i - m = j - m
      BY <1>2, <1>6, <3>1 DEF IsInjective
    <3> QED BY <3>2
  <2>4. CASE i \in 1 .. m /\ j \in m + 1 .. m + n
    BY <1>2, <1>4, <1>6, <2>4 DEF Range
  <2>5. CASE j \in 1 .. m /\ i \in m + 1 .. m + n
    BY <1>2, <1>4, <1>6, <2>5 DEF Range
  <2> QED BY <2>1, <2>2, <2>3, <2>4, <2>5
<1> QED BY <1>3, <1>4, <1>5, <1>6

-----------------------------------------------------------------------------
(* The reads.                                                              *)

LEMMA Numbers ==
  /\ Timeout \in Nat /\ Attempts \in Nat /\ Budget \in Nat /\ Backoff \in Nat /\ MaxCalls \in Nat
  /\ SdkRetries \in Nat /\ SdkWait \in Nat
BY ReadsAssumption

LEMMA Multiples ==
  ASSUME NEW n \in Nat, NEW m \in Nat, n <= m, NEW k \in Nat
  PROVE  n * k \in Nat /\ m * k \in Nat /\ n * k <= m * k /\ (n + 1) * k = n * k + k
<1>1. PICK d \in Nat : m = n + d
  BY m - n \in Nat
<1>2. m * k = n * k + d * k /\ d * k \in Nat /\ n * k \in Nat
  BY <1>1
<1> QED BY <1>2

LEMMA LongestIs ==
  Longest \in Nat
BY Numbers, Multiples DEF Longest

\* Calls that are over.
over == IF call = "none" THEN calls ELSE calls - 1

\* While a call is retried the seconds lost so far are all charged, and within
\* the budget; a call that is over may have lost the seconds of one more
\* attempt.  The seconds of the current attempt are those of its sends but the
\* last.  A write is never attempted again.
Charged ==
  /\ ReadsTypeOK /\ over \in Nat
  /\ waited <= spent + over * Longest
  /\ waited <= Budget + over * Longest
  /\ call = "none" => took = 0
  /\ call # "none" => tries \in 1 .. SdkRetries + 1 /\ took <= (tries - 1) * (Timeout + SdkWait)
  /\ call = "write" => sent = tries

LEMMA OneMore ==
  ASSUME NEW n \in Nat
  PROVE  n * Longest \in Nat /\ (n + 1) * Longest = n * Longest + Longest
BY LongestIs, Multiples

\* An attempt lasts no longer than all the sends that the SDK makes of it.
LEMMA AttemptEnds ==
  ASSUME Charged, call # "none", NEW elapsed \in 0 .. Timeout
  PROVE  took + elapsed \in 0 .. Longest
<1> USE Numbers
<1>1. PICK n \in 0 .. SdkRetries, k \in Nat : n = tries - 1 /\ k = Timeout + SdkWait
  BY DEF Charged
<1>2. n * k \in Nat /\ SdkRetries * k \in Nat /\ n * k <= SdkRetries * k
  BY <1>1, Multiples
<1>3. took \in Nat /\ took <= n * k /\ Longest = Timeout + SdkRetries * k
  BY <1>1 DEF Charged, ReadsTypeOK, Longest
<1> QED BY <1>2, <1>3

LEMMA ChargedStep ==
  ASSUME Charged, [ReadsNext]_reads
  PROVE  Charged'
<1> USE Numbers, LongestIs
<1>1. /\ calls \in Nat /\ spent \in Nat /\ waited \in Nat /\ took \in Nat /\ over \in Nat
      /\ over * Longest \in Nat /\ (over + 1) * Longest = over * Longest + Longest
      /\ waited <= spent + over * Longest /\ waited <= Budget + over * Longest
  BY OneMore DEF Charged, ReadsTypeOK
<1>2. ASSUME NEW kind \in {"read", "write"}, Connect(kind) PROVE Charged'
  <2>1. over' = over /\ calls' \in 0 .. MaxCalls /\ call' = kind /\ spent' = spent /\ waited' = waited
    BY <1>1, <1>2 DEF Connect, Charged, ReadsTypeOK, over
  <2>2. /\ attempt' = 0 /\ tries' = 1 /\ took' = 0 /\ sent' = 1
        /\ (tries' - 1) * (Timeout + SdkWait) = 0
    BY <1>2, Multiples DEF Connect
  <2> QED BY <1>1, <2>1, <2>2 DEF Charged, ReadsTypeOK
<1>3. ASSUME NEW elapsed \in 0 .. Timeout, Resend(elapsed) PROVE Charged'
  <2>1. PICK n \in Nat, k \in Nat : n = tries - 1 /\ k = Timeout + SdkWait
    BY <1>3 DEF Resend, Charged
  <2>2. n * k \in Nat /\ (n + 1) * k = n * k + k
    BY Multiples
  <2>3. took <= n * k /\ took' = took + elapsed + SdkWait /\ tries' = n + 2 - 0
    BY <1>3, <2>1 DEF Resend, Charged
  <2>4. took' \in Nat /\ took' <= (n + 1) * k /\ tries' - 1 = n + 1
    BY <1>1, <2>1, <2>2, <2>3
  <2>5. took' <= (tries' - 1) * (Timeout + SdkWait)
    BY <2>1, <2>4
  <2>6. tries' \in 1 .. SdkRetries + 1 /\ sent' \in Nat /\ UNCHANGED <<calls, call, attempt, spent, waited>>
        /\ over' = over /\ (call = "write" => sent' = tries') /\ call # "none"
    BY <1>3 DEF Resend, Charged, ReadsTypeOK, over
  <2>7. ReadsTypeOK'
    BY <1>1, <2>4, <2>6 DEF Charged, ReadsTypeOK
  <2>8. waited' <= spent' + over' * Longest /\ waited' <= Budget + over' * Longest /\ over' \in Nat
    BY <1>1, <2>6
  <2> QED BY <2>5, <2>6, <2>7, <2>8 DEF Charged
<1>4. ASSUME NEW elapsed \in 0 .. Timeout, Answer(elapsed) PROVE Charged'
  <2>1. took + elapsed \in 0 .. Longest
    BY <1>4, AttemptEnds DEF Answer
  <2>2. over' = over + 1 /\ spent' = spent /\ waited' = waited + (took + elapsed)
    BY <1>1, <1>4 DEF Answer, CallEnds, over
  <2>3. waited' \in Nat /\ waited' <= spent + over' * Longest /\ waited' <= Budget + over' * Longest
    BY <1>1, <2>1, <2>2
  <2> QED BY <1>1, <1>4, <2>2, <2>3 DEF Answer, CallEnds, Charged, ReadsTypeOK
<1>5. ASSUME NEW elapsed \in 0 .. Timeout, Retry(elapsed) PROVE Charged'
  <2>1. /\ call = "read" /\ attempt < Attempts /\ over' = over /\ UNCHANGED <<calls, call>>
    BY <1>5 DEF Retry, MayRetry, over
  <2>2. PICK e \in Nat : e = took + elapsed
    BY <1>1
  <2>3. spent + e < Budget
    BY <1>1, <1>5, <2>2 DEF Retry, MayRetry, remaining, charge
  <2>4. Pause(elapsed) \in 0 .. Budget - (spent + e)
    BY <1>1, <2>2, <2>3 DEF Pause, Lower, remaining, charge
  <2>5. /\ spent' = spent + e + Pause(elapsed) /\ waited' = waited + e + Pause(elapsed)
        /\ attempt' = attempt + 1 /\ sent' = sent + 1 /\ tries' = 1 /\ took' = 0
    BY <1>1, <1>5, <2>2, <2>4 DEF Retry, charge
  <2>6. spent' \in Nat /\ spent' <= Budget /\ waited' \in Nat /\ waited' + spent = spent' + waited
    BY <1>1, <2>3, <2>4, <2>5
  <2>7. waited' <= spent' + over * Longest /\ waited' <= Budget + over * Longest
    <3>1. PICK r \in Nat, s \in Nat, r2 \in Nat, s2 \in Nat, x \in Nat :
            r = waited /\ s = spent /\ r2 = waited' /\ s2 = spent' /\ x = over * Longest
      BY <1>1, <2>6
    <3>2. r <= s + x /\ r2 + s = s2 + r /\ s2 <= Budget
      BY <1>1, <2>6, <3>1
    <3>3. r2 <= s2 + x /\ r2 <= Budget + x
      BY <3>2
    <3> QED BY <3>1, <3>3
  <2>8. (tries' - 1) * (Timeout + SdkWait) = 0
    BY <2>5
  <2> QED BY <1>1, <2>1, <2>5, <2>6, <2>7, <2>8 DEF Charged, ReadsTypeOK
<1>6. ASSUME NEW elapsed \in 0 .. Timeout, Raise(elapsed) PROVE Charged'
  <2>1. took + elapsed \in 0 .. Longest
    BY <1>6, AttemptEnds DEF Raise
  <2>2. over' = over + 1 /\ spent' \in Nat /\ spent' >= spent /\ waited' = waited + (took + elapsed)
    BY <1>1, <1>6 DEF Raise, CallEnds, charge, over
  <2>3. waited' \in Nat /\ waited' <= spent' + over' * Longest /\ waited' <= Budget + over' * Longest
    <3>1. PICK r \in Nat, s \in Nat, s2 \in Nat, x \in Nat, l \in Nat, e \in Nat :
            /\ e <= l /\ r = waited /\ s = spent /\ s2 = spent' /\ x = over * Longest /\ l = Longest
            /\ e = took + elapsed
      BY <1>1, <2>1, <2>2
    <3>2. waited' = r + e /\ over' * Longest = x + l /\ r <= s + x /\ r <= Budget + x /\ s <= s2
      BY <1>1, <2>2, <3>1
    <3>3. r + e <= s2 + (x + l) /\ r + e <= Budget + (x + l) /\ r + e \in Nat
      BY <3>1, <3>2
    <3> QED BY <3>1, <3>2, <3>3
  <2> QED BY <1>1, <1>6, <2>2, <2>3 DEF Raise, CallEnds, Charged, ReadsTypeOK
<1>7. CASE NewCycle
  BY <1>1, <1>7, OneMore DEF NewCycle, Charged, ReadsTypeOK, over
<1>8. CASE UNCHANGED reads
  BY <1>8 DEF reads, Charged, ReadsTypeOK, over
<1> QED BY <1>2, <1>3, <1>4, <1>5, <1>6, <1>7, <1>8 DEF ReadsNext

\* A cycle waits for the broker at most its retry budget and one attempt of
\* each call (src/broker.py, RetryBudget), an attempt with all the sends the
\* SDK makes of it; and an order goes out again only when the broker answered
\* it 429 or 504, at most as often as the SDK retries: for every timeout,
\* budget and number of attempts and of the SDK's retries.
THEOREM RetriesAreBounded == ReadsSpec => []RetriesBounded
<1>1. ReadsInit => Charged
  BY Numbers, LongestIs, OneMore DEF ReadsInit, Charged, ReadsTypeOK, over
<1>2. Charged /\ [ReadsNext]_reads => Charged'
  BY ChargedStep
<1>3. Charged => RetriesBounded
  <2> SUFFICES ASSUME Charged PROVE RetriesBounded
    OBVIOUS
  <2>1. over \in Nat /\ calls \in Nat /\ over <= calls
    BY DEF Charged, ReadsTypeOK, over
  <2>2. PICK x \in Nat, y \in Nat : x = over * Longest /\ y = calls * Longest /\ x <= y
    BY <2>1, LongestIs, Multiples
  <2>3. waited <= Budget + x /\ waited \in Nat
    BY <2>2 DEF Charged, ReadsTypeOK
  <2>4. waited <= Budget + calls * Longest
    BY <2>2, <2>3, Numbers
  <2> QED BY <2>4 DEF Charged, RetriesBounded
<1> QED BY <1>1, <1>2, <1>3, PTL DEF ReadsSpec

-----------------------------------------------------------------------------
(* The stops.                                                              *)

Leg == [id : 1 .. MaxId, stock : Stocks, price : Levels]

LEMMA TightestIs ==
  ASSUME NEW ls \in SUBSET Leg, ls # {}
  PROVE  Tightest(ls) \in ls /\ \A m \in ls : m.price <= Tightest(ls).price
<1> DEFINE prices == {l.price : l \in ls}
<1>1. prices \in SUBSET Nat /\ prices # {} /\ prices \subseteq Levels
  BY GuardAssumption DEF Leg
<1>2. IsFiniteSet(prices)
  BY <1>1, GuardAssumption, FS_Subset
<1> HIDE DEF prices
<1>3. PICK x \in prices : \A y \in prices : y <= x
  BY <1>1, <1>2, GreatestOf
<1>4. \E l \in ls : \A m \in ls : m.price <= l.price
  BY <1>3 DEF prices
<1> QED BY <1>4 DEF Tightest

LEMMA RestingIs ==
  ASSUME GuardTypeOK, NEW s \in Stocks
  PROVE  /\ Resting(s) \in SUBSET Leg
         /\ _adopted_stop_fields(Resting(s)) \in Levels \cup {NoStop}
         /\ \A ok \in BOOLEAN : _adopted_stop_fields(_resting_stops(s, ok)) \in Levels =>
              \E l \in Resting(s) : l.price >= _adopted_stop_fields(_resting_stops(s, ok))
         /\ \A ok \in BOOLEAN :
              _adopted_stop_fields(_resting_stops(s, ok)) \in Levels \cup {NoStop}
<1>1. Resting(s) \in SUBSET Leg
  BY DEF Resting, GuardTypeOK, Leg
<1>2. Resting(s) # {} => Tightest(Resting(s)) \in Resting(s) /\ Tightest(Resting(s)).price \in Levels
  BY <1>1, TightestIs DEF Leg
<1>3. NoStop \notin Levels
  BY GuardAssumption DEF NoStop
<1>4. \A p \in Levels : p >= p
  BY GuardAssumption
<1>5. _adopted_stop_fields({}) = NoStop
  BY DEF _adopted_stop_fields
<1>6. \A ok \in BOOLEAN : _resting_stops(s, ok) \in {Resting(s), {}}
  BY DEF _resting_stops
<1>7. Resting(s) # {} => _adopted_stop_fields(Resting(s)) = Tightest(Resting(s)).price
  BY DEF _adopted_stop_fields
<1> QED BY <1>1, <1>2, <1>3, <1>4, <1>5, <1>6, <1>7

LEMMA GuardTyping ==
  ASSUME GuardTypeOK, [GuardNext]_guard
  PROVE  GuardTypeOK'
<1> USE GuardAssumption
<1>1. ASSUME NEW s \in Stocks, NEW p \in Levels, Enter(s, p) PROVE GuardTypeOK'
  BY <1>1 DEF Enter, Fail, GuardTypeOK
<1>2. ASSUME NEW s \in Stocks, NEW ok \in BOOLEAN, adopt(s, ok) PROVE GuardTypeOK'
  BY <1>2, RestingIs DEF adopt, Fail, GuardTypeOK, broker, inCycle
<1>3. ASSUME NEW c \in Cycles, open_buys(c) PROVE GuardTypeOK'
  BY <1>3 DEF open_buys, GuardTypeOK, broker
<1>4. ASSUME NEW c \in Cycles, open_stop_orders(c) PROVE GuardTypeOK'
  <2>1. {Tightest(Resting(s)) : s \in {t \in Stocks : Resting(t) # {}}} \subseteq Leg
    BY RestingIs, TightestIs
  <2> QED BY <1>4, <2>1 DEF open_stop_orders, GuardTypeOK, broker, Leg
<1>5. ASSUME NEW c \in Cycles, _finalize_cycle(c) PROVE GuardTypeOK'
  BY <1>5 DEF _finalize_cycle, GuardTypeOK, broker
<1>6. ASSUME NEW c \in Cycles, NEW ok \in BOOLEAN, attach_broker_stops(c, ok) PROVE GuardTypeOK'
  <2> DEFINE mended == [s \in Stocks |-> IF view[c][s] = NoStop
                                         THEN _adopted_stop_fields(_resting_stops(s, ok))
                                         ELSE view[c][s]]
  <2>1. mended \in [Stocks -> Levels \cup {NoStop, NoRecord}]
    BY RestingIs DEF GuardTypeOK
  <2>2. view' = [view EXCEPT ![c] = mended]
    BY <1>6 DEF attach_broker_stops
  <2> HIDE DEF mended
  <2> QED BY <1>6, <2>1, <2>2 DEF attach_broker_stops, Fail, GuardTypeOK, broker
<1>7. ASSUME NEW c \in Cycles, NEW leg \in seen[c], update_trailing_stops(c, leg) PROVE GuardTypeOK'
  <2>1. leg \in Leg
    BY DEF GuardTypeOK, Leg
  <2>2. ASSUME NEW new_stop \in Levels, replace_stop(leg, new_stop)
        PROVE  legs' \subseteq Leg /\ ids' \in 0 .. MaxId
    <3>1. ids < MaxId => ids + 1 \in 0 .. MaxId /\ ids + 1 \in 1 .. MaxId
      BY DEF GuardTypeOK
    <3>2. ids < MaxId => [leg EXCEPT !.id = ids + 1, !.price = new_stop] \in Leg
      BY <2>1, <3>1 DEF Leg
    <3> HIDE DEF Leg
    <3>3. legs \subseteq Leg
      BY DEF GuardTypeOK, Leg
    <3>4. CASE leg \in legs /\ ids < MaxId
      BY <2>2, <3>1, <3>2, <3>3, <3>4 DEF replace_stop
    <3>5. CASE ~ (leg \in legs /\ ids < MaxId)
      BY <2>2, <3>3, <3>5 DEF replace_stop, GuardTypeOK
    <3> QED BY <3>4, <3>5
  <2>3. legs' \subseteq Leg /\ ids' \in 0 .. MaxId
    BY <1>7, <2>2 DEF update_trailing_stops, GuardTypeOK, Leg
  <2> QED BY <1>7, <2>3 DEF update_trailing_stops, GuardTypeOK, Leg
<1>8. ASSUME NEW c \in Cycles, NEW s \in Stocks, cancel_open_orders(c, s) PROVE GuardTypeOK'
  BY <1>8 DEF cancel_open_orders, GuardTypeOK
<1>9. ASSUME NEW c \in Cycles, NEW s \in Stocks, Sell(c, s) PROVE GuardTypeOK'
  <2>1. view' \in [Cycles -> [Stocks -> Levels \cup {NoStop, NoRecord}]]
    <3>1. view' = view \/ view' = [view EXCEPT ![c] = [view[c] EXCEPT ![s] = NoRecord]]
      BY <1>9 DEF Sell
    <3>2. [view[c] EXCEPT ![s] = NoRecord] \in [Stocks -> Levels \cup {NoStop, NoRecord}]
      BY DEF GuardTypeOK
    <3> QED BY <3>1, <3>2 DEF GuardTypeOK
  <2>2. book' \in [Stocks -> Levels \cup {NoStop, NoRecord}] /\ errors' \in 0 .. MaxErrors
    BY <1>9 DEF Sell, Fail, GuardTypeOK
  <2>3. pos' \subseteq Stocks /\ selling' \in [Cycles -> SUBSET Stocks]
    BY <1>9 DEF Sell, GuardTypeOK
  <2> QED BY <1>9, <2>1, <2>2, <2>3 DEF Sell, GuardTypeOK
<1>10. ASSUME NEW leg \in legs, LegFills(leg) PROVE GuardTypeOK'
  BY <1>10 DEF LegFills, GuardTypeOK, inCycle
<1>11. ASSUME NEW s \in Stocks, reconcile(s) PROVE GuardTypeOK'
  BY <1>11 DEF reconcile, GuardTypeOK, broker, inCycle
<1>12. CASE UNCHANGED guard
  BY <1>12 DEF guard, broker, inCycle, GuardTypeOK
<1> QED
  BY <1>1, <1>2, <1>3, <1>4, <1>5, <1>6, <1>7, <1>8, <1>9, <1>10, <1>11, <1>12 DEF GuardNext

\* The stops that records claim for a stock, and a leg that rests as tight.
Records(s) == {book[s]} \cup {view[c][s] : c \in {d \in Cycles : s \in current[d]}}
Rests(s, p) == \E l \in Resting(s) : l.price >= p

LEMMA StopsStep ==
  ASSUME GuardTypeOK, GuardTypeOK', StopsRest, [GuardNext]_guard
  PROVE  StopsRest'
<1> USE GuardAssumption
<1>1. \A s \in pos \ stripped : \A p \in Records(s) \cap Levels : Rests(s, p)
  BY DEF StopsRest, Records, Rests
<1>2. NoRecord \notin Levels /\ NoStop \notin Levels
  BY DEF NoRecord, NoStop
<1>3. SUFFICES ASSUME NEW s \in pos' \ stripped', NEW p \in Records(s)' \cap Levels
               PROVE  Rests(s, p)'
  BY DEF StopsRest, Records, Rests
<1>4. s \in Stocks /\ p \in Nat /\ p >= p
  <2>1. p \in Levels /\ s \in pos'
    BY <1>3
  <2>2. p \in Nat
    BY <2>1
  <2> QED BY <2>1, <2>2 DEF GuardTypeOK
\* A stock that was held before, whose claims are old or true and whose legs stay.
<1>5. ASSUME s \in pos \ stripped, p \in Records(s) \/ Rests(s, p), Rests(s, p) => Rests(s, p)'
      PROVE  Rests(s, p)'
  BY <1>1, <1>3, <1>5
<1>6. ASSUME UNCHANGED legs PROVE Rests(s, p) => Rests(s, p)'
  BY <1>6 DEF Rests, Resting
<1>7. ASSUME NEW t \in Stocks, NEW q \in Levels, Enter(t, q) PROVE Rests(s, p)'
  <2>1. [id |-> ids + 1, stock |-> t, price |-> q] \in legs'
    BY <1>7 DEF Enter
  <2>2. CASE s = t
    <3>1. p = q
      BY <1>2, <1>3, <1>7, <2>2 DEF Enter, Records, GuardTypeOK
    <3> QED BY <1>4, <2>1, <2>2, <3>1 DEF Rests, Resting
  <2>3. CASE s # t
    <3>1. s \in pos \ stripped /\ Records(s)' = Records(s)
      <4>1. \A c \in Cycles : s \in current'[c] <=> s \in current[c]
        BY <1>7, <2>3 DEF Enter
      <4>2. book'[s] = book[s] /\ view' = view
        BY <1>4, <1>7, <2>3 DEF Enter, GuardTypeOK
      <4>3. s \in pos /\ s \notin stripped
        BY <1>3, <1>7, <2>3 DEF Enter
      <4> QED BY <4>1, <4>2, <4>3 DEF Records
    <3>2. Rests(s, p) => Rests(s, p)'
      BY <1>7 DEF Enter, Rests, Resting
    <3> QED BY <1>3, <1>5, <3>1, <3>2
  <2> QED BY <2>2, <2>3
<1>8. ASSUME NEW t \in Stocks, NEW ok \in BOOLEAN, adopt(t, ok) PROVE Rests(s, p)'
  <2>1. p \in Records(s) \/ (s = t /\ p = _adopted_stop_fields(_resting_stops(s, ok)))
    BY <1>3, <1>8 DEF adopt, Records, GuardTypeOK, inCycle
  <2>2. p \in Records(s) \/ Rests(s, p)
    BY <1>3, <1>4, <2>1, RestingIs DEF Rests
  <2> QED BY <1>3, <1>5, <1>6, <1>8, <2>2 DEF adopt, broker
<1>9. ASSUME NEW c \in Cycles, open_buys(c) PROVE Rests(s, p)'
  <2>1. p \in Records(s)
    <3>1. \A d \in Cycles : view'[d] = IF d = c THEN book ELSE view[d]
      BY <1>9 DEF open_buys, GuardTypeOK
    <3>2. \A d \in Cycles : d # c => current'[d] = current[d]
      BY <1>9 DEF open_buys, GuardTypeOK
    <3> QED BY <1>3, <1>9, <3>1, <3>2 DEF open_buys, Records
  <2> QED BY <1>3, <1>5, <1>6, <1>9, <2>1 DEF open_buys, broker
<1>10. ASSUME NEW c \in Cycles, open_stop_orders(c) PROVE Rests(s, p)'
  BY <1>3, <1>5, <1>6, <1>10 DEF open_stop_orders, broker, Records
<1>11. ASSUME NEW c \in Cycles, _finalize_cycle(c) PROVE Rests(s, p)'
  <2>1. p \in Records(s)
    <3>1. \A d \in Cycles : view'[d][s] = NoRecord \/ view'[d] = view[d]
      BY <1>4, <1>11 DEF _finalize_cycle, GuardTypeOK
    <3> QED BY <1>2, <1>3, <1>11, <3>1 DEF _finalize_cycle, Records
  <2> QED BY <1>3, <1>5, <1>6, <1>11, <2>1 DEF _finalize_cycle, broker
<1>12. ASSUME NEW c \in Cycles, NEW ok \in BOOLEAN, attach_broker_stops(c, ok) PROVE Rests(s, p)'
  <2>1. \A d \in Cycles : \/ view'[d][s] = view[d][s]
                          \/ view'[d][s] = _adopted_stop_fields(_resting_stops(s, ok))
    BY <1>4, <1>12 DEF attach_broker_stops, GuardTypeOK
  <2>2. p \in Records(s) \/ p = _adopted_stop_fields(_resting_stops(s, ok))
    BY <1>3, <1>12, <2>1 DEF attach_broker_stops, Records
  <2>3. p \in Records(s) \/ Rests(s, p)
    BY <1>3, <1>4, <2>2, RestingIs DEF Rests
  <2> QED BY <1>3, <1>5, <1>6, <1>12, <2>3 DEF attach_broker_stops, broker
<1>13. ASSUME NEW c \in Cycles, NEW leg \in seen[c], update_trailing_stops(c, leg) PROVE Rests(s, p)'
  <2>1. s \in pos \ stripped /\ p \in Records(s)
    BY <1>3, <1>13 DEF update_trailing_stops, Records
  <2>2. CASE UNCHANGED legs
    BY <1>5, <1>6, <2>1, <2>2
  <2>3. CASE \E new_stop \in Levels : Raises(leg, new_stop) /\ replace_stop(leg, new_stop)
    <3>1. PICK new_stop \in Levels : Raises(leg, new_stop) /\ replace_stop(leg, new_stop)
      BY <2>3
    <3>2. CASE UNCHANGED legs
      BY <1>5, <1>6, <2>1, <3>2
    <3>3. CASE leg \in legs /\ legs' = (legs \ {leg}) \cup {[leg EXCEPT !.id = ids + 1, !.price = new_stop]}
      <4>1. leg.price \in Nat /\ new_stop \in Nat /\ p \in Nat /\ new_stop > leg.price
        <5>1. leg \in Leg /\ new_stop \in Nat
          BY <3>1 DEF GuardTypeOK, Leg
        <5> QED BY <1>4, <3>1, <5>1 DEF Leg, Raises
      <4>2. /\ [leg EXCEPT !.id = ids + 1, !.price = new_stop].stock = leg.stock
            /\ [leg EXCEPT !.id = ids + 1, !.price = new_stop].price = new_stop
        BY <3>3 DEF GuardTypeOK
      <4>3. leg.price >= p => new_stop >= p
        BY <4>1
      <4>4. ASSUME NEW l \in legs, l.stock = s, l.price >= p PROVE \E m \in legs' : m.stock = s /\ m.price >= p
        BY <3>3, <4>2, <4>3, <4>4
      <4> QED BY <1>5, <2>1, <4>4 DEF Rests, Resting
    <3> QED BY <3>1, <3>2, <3>3 DEF replace_stop
  <2> QED BY <1>13, <2>2, <2>3 DEF update_trailing_stops
<1>14. ASSUME NEW c \in Cycles, NEW t \in Stocks, cancel_open_orders(c, t) PROVE Rests(s, p)'
  <2>1. s \in pos \ stripped /\ s # t /\ p \in Records(s)
    BY <1>3, <1>14 DEF cancel_open_orders, Records
  <2>2. Rests(s, p) => Rests(s, p)'
    BY <1>14, <2>1 DEF cancel_open_orders, Rests, Resting
  <2> QED BY <1>5, <2>1, <2>2
<1>15. ASSUME NEW c \in Cycles, NEW t \in Stocks, Sell(c, t) PROVE Rests(s, p)'
  <2>1. /\ book'[s] \in {book[s], NoRecord}
        /\ \A d \in Cycles : view'[d][s] \in {view[d][s], NoRecord}
    <3>1. book' = book \/ book' = [book EXCEPT ![t] = NoRecord]
      BY <1>15 DEF Sell
    <3>2. view' = view \/ view' = [view EXCEPT ![c] = [view[c] EXCEPT ![t] = NoRecord]]
      BY <1>15 DEF Sell
    <3>3. \A d \in Cycles : view'[d] = view[d] \/ view'[d] = [view[d] EXCEPT ![t] = NoRecord]
      BY <3>2 DEF GuardTypeOK
    <3>4. \A d \in Cycles : [view[d] EXCEPT ![t] = NoRecord][s] \in {view[d][s], NoRecord}
      BY <1>4 DEF GuardTypeOK
    <3>5. book'[s] \in {book[s], NoRecord}
      BY <1>4, <3>1 DEF GuardTypeOK
    <3> QED BY <3>3, <3>4, <3>5
  <2>2. p \in Records(s)
    BY <1>2, <1>3, <1>15, <2>1 DEF Sell, Records
  <2>3. s \in pos \ stripped
    BY <1>3, <1>15 DEF Sell
  <2> QED BY <1>5, <1>6, <1>15, <2>2, <2>3 DEF Sell
<1>16. ASSUME NEW leg \in legs, LegFills(leg) PROVE Rests(s, p)'
  <2>1. s \in pos \ stripped /\ s # leg.stock /\ p \in Records(s)
    BY <1>3, <1>16 DEF LegFills, Records, inCycle
  <2>2. Rests(s, p) => Rests(s, p)'
    BY <1>16, <2>1 DEF LegFills, Rests, Resting
  <2> QED BY <1>5, <2>1, <2>2
<1>17. ASSUME NEW t \in Stocks, reconcile(t) PROVE Rests(s, p)'
  <2>1. p \in Records(s)
    BY <1>2, <1>3, <1>17 DEF reconcile, Records, GuardTypeOK, inCycle
  <2> QED BY <1>3, <1>5, <1>6, <1>17, <2>1 DEF reconcile, broker
<1>18. CASE UNCHANGED guard
  BY <1>3, <1>5, <1>6, <1>18 DEF guard, broker, inCycle, Records
<1> QED
  BY <1>7, <1>8, <1>9, <1>10, <1>11, <1>12, <1>13, <1>14, <1>15, <1>16, <1>17, <1>18 DEF GuardNext

\* The stop a record carries never flatters the risk (src/main.py,
\* _adopted_stop_fields, attach_broker_stops): while a position is held and no
\* exit has taken its legs, one rests at least as tight as every record and
\* every cycle's view of it says, for any number of overlapping cycles.
THEOREM StopsAreReal == GuardSpec => []StopsRest
<1>1. GuardInit => GuardTypeOK /\ StopsRest
  BY GuardAssumption DEF GuardInit, GuardTypeOK, StopsRest
<1>2. GuardTypeOK /\ StopsRest /\ [GuardNext]_guard => GuardTypeOK' /\ StopsRest'
  BY GuardTyping, StopsStep
<1> QED BY <1>1, <1>2, PTL DEF GuardSpec

LEMMA NoStopFalls ==
  ASSUME GuardTypeOK, GuardTypeOK', [GuardNext]_guard,
         NEW s \in Stocks, s \in pos, s \in pos', Resting(s) # {}, Resting(s)' # {}
  PROVE  Tightest(Resting(s)).price <= Tightest(Resting(s)').price
<1>1. PICK old, new : old = Resting(s) /\ new = Resting(s)'
  OBVIOUS
<1>2. old \in SUBSET Leg /\ new \in SUBSET Leg /\ old # {} /\ new # {}
  BY <1>1 DEF GuardTypeOK, Leg, Resting
<1>3. PICK best, next : /\ best = Tightest(old) /\ next = Tightest(new) /\ best \in old
                        /\ \A m \in new : m.price <= next.price
  BY <1>2, TightestIs
<1>4. best.price \in Nat /\ \A m \in new : m.price \in Nat
  BY <1>2, <1>3, GuardAssumption DEF Leg
<1>5. next \in new
  BY <1>2, <1>3, TightestIs
<1>6. SUFFICES \E m \in new : best.price <= m.price
  <2> SUFFICES ASSUME NEW m \in new, best.price <= m.price PROVE best.price <= next.price
    BY <1>1, <1>3
  <2>1. m.price <= next.price /\ m.price \in Nat /\ next.price \in Nat
    BY <1>3, <1>4, <1>5
  <2> QED BY <1>4, <2>1
<1>7. CASE old \subseteq new
  BY <1>3, <1>4, <1>7
<1>8. ASSUME NEW c \in Cycles, NEW leg \in seen[c], update_trailing_stops(c, leg)
      PROVE  \E m \in new : best.price <= m.price
  <2>1. CASE UNCHANGED legs
    BY <1>1, <1>7, <2>1 DEF Resting
  <2>2. CASE \E new_stop \in Levels : Raises(leg, new_stop) /\ replace_stop(leg, new_stop)
    <3>1. PICK new_stop \in Levels : Raises(leg, new_stop) /\ replace_stop(leg, new_stop)
      BY <2>2
    <3>2. CASE UNCHANGED legs
      BY <1>1, <1>7, <3>2 DEF Resting
    <3>3. CASE leg \in legs /\ legs' = (legs \ {leg}) \cup {[leg EXCEPT !.id = ids + 1, !.price = new_stop]}
      <4>1. leg.price \in Nat /\ new_stop \in Nat /\ new_stop > leg.price
        <5>1. leg \in Leg /\ new_stop \in Nat
          BY <3>1, GuardAssumption DEF GuardTypeOK, Leg
        <5> QED BY <3>1, <5>1, GuardAssumption DEF Leg, Raises
      <4>2. /\ [leg EXCEPT !.id = ids + 1, !.price = new_stop].stock = leg.stock
            /\ [leg EXCEPT !.id = ids + 1, !.price = new_stop].price = new_stop
        BY <3>3 DEF GuardTypeOK
      <4>3. best.stock = s /\ best \in legs
        BY <1>1, <1>3 DEF Resting
      <4>4. CASE best = leg
        <5>1. PICK m : m = [leg EXCEPT !.id = ids + 1, !.price = new_stop]
          OBVIOUS
        <5>2. m \in new
          BY <1>1, <3>3, <4>2, <4>3, <4>4, <5>1 DEF Resting
        <5>3. best.price <= m.price
          BY <4>1, <4>2, <4>4, <5>1
        <5> QED BY <5>2, <5>3
      <4>5. CASE best # leg
        BY <1>1, <1>4, <3>3, <4>3, <4>5 DEF Resting
      <4> QED BY <4>4, <4>5
    <3> QED BY <3>1, <3>2, <3>3 DEF replace_stop
  <2> QED BY <1>8, <2>1, <2>2 DEF update_trailing_stops
<1>9. ASSUME NEW c \in Cycles, NEW t \in Stocks, cancel_open_orders(c, t)
      PROVE  old \subseteq new
  BY <1>1, <1>2, <1>9 DEF cancel_open_orders, Resting
<1>10. ASSUME NEW leg \in legs, LegFills(leg) PROVE old \subseteq new
  BY <1>1, <1>10 DEF LegFills, Resting
<1>11. ASSUME NEW t \in Stocks, NEW p \in Levels, Enter(t, p) PROVE old \subseteq new
  BY <1>1, <1>11 DEF Enter, Resting
<1>12. ASSUME UNCHANGED legs PROVE old \subseteq new
  BY <1>1, <1>12 DEF Resting
<1>13. CASE UNCHANGED guard
  BY <1>7, <1>12, <1>13 DEF guard, broker
<1> QED
  BY <1>7, <1>8, <1>9, <1>10, <1>11, <1>12, <1>13
  DEF GuardNext, adopt, open_buys, open_stop_orders, _finalize_cycle, attach_broker_stops, Sell,
      reconcile, broker

\* A position's stop is never lowered while it is held (src/main.py,
\* update_trailing_stops), whatever the trail's level does and however many
\* cycles trail it.
THEOREM NoneFalls == GuardSpec => StopsOnlyRise
<1>1. GuardInit => GuardTypeOK
  BY GuardAssumption DEF GuardInit, GuardTypeOK
<1>2. GuardTypeOK /\ [GuardNext]_guard => GuardTypeOK'
  BY GuardTyping
<1>3. ASSUME GuardTypeOK, GuardTypeOK', [GuardNext]_guard
      PROVE  [\A s \in Stocks :
                s \in pos /\ s \in pos' /\ Resting(s) # {} /\ Resting(s)' # {} =>
                  Tightest(Resting(s)).price <= Tightest(Resting(s)').price]_guard
  BY <1>3, NoStopFalls
<1> QED BY <1>1, <1>2, <1>3, PTL DEF GuardSpec, StopsOnlyRise

-----------------------------------------------------------------------------
(* What the scan visits.                                                   *)

LEMMA AndOf ==
  ASSUME NEW syms \in Seq(Symbols), IsInjective(syms), NEW more \in SUBSET Symbols
  PROVE  /\ And(syms, more) \in Seq(Symbols) /\ IsInjective(And(syms, more))
         /\ Range(And(syms, more)) = Range(syms) \cup more
<1> DEFINE rest == more \ Range(syms)
<1>1. IsFiniteSet(rest) /\ rest \subseteq Symbols
  BY ScanAssumption, FS_Subset
<1>2. SetToSeq(rest) \in Seq(rest) /\ IsInjective(SetToSeq(rest)) /\ Range(SetToSeq(rest)) = rest
  BY <1>1, SetSequence
<1>3. PICK q : q = SetToSeq(rest)
  OBVIOUS
<1>4. And(syms, more) = syms \o q
  BY <1>3 DEF And
<1>5. Range(syms) \cap rest = {} /\ Range(syms) \cup rest = Range(syms) \cup more
  OBVIOUS
<1> HIDE DEF rest
<1>6. q \in Seq(Symbols)
  <2>1. PICK n \in Nat : n = Len(q) /\ q \in [1 .. n -> rest]
    BY <1>2, <1>3
  <2>2. q \in [1 .. n -> Symbols]
    BY <1>1, <2>1
  <2> QED BY <2>1, <2>2
<1>7. IsInjective(q) /\ Range(q) = rest
  BY <1>2, <1>3
<1>8. /\ syms \o q \in Seq(Symbols) /\ Range(syms \o q) = Range(syms) \cup Range(q)
      /\ Range(syms) \cap Range(q) = {} => IsInjective(syms \o q)
  BY <1>6, <1>7, SequenceJoin
<1> QED BY <1>4, <1>5, <1>7, <1>8

LEMMA RotateOf ==
  ASSUME NEW syms \in Seq(Symbols), IsInjective(syms), now \in Nat
  PROVE  rotate_scan_order(syms) \in Seq(Symbols) /\ IsInjective(rotate_scan_order(syms))
<1>1. CASE Len(syms) < 2
  BY <1>1 DEF rotate_scan_order
<1>2. CASE ~ (Len(syms) < 2)
  <2>1. PICK n \in Nat, o \in Nat : n = Len(syms) /\ o = (now \div 2) % n /\ o < n
    BY <1>2
  <2>2. PICK p, q : p = SubSeq(syms, o + 1, n) /\ q = SubSeq(syms, 1, o)
    OBVIOUS
  <2>3. /\ p \in Seq(Symbols) /\ DOMAIN p = 1 .. n - o
        /\ \A i \in 1 .. n - o : p[i] = syms[o + i] /\ o + i \in 1 .. n
    <3>1. o + 1 \in Nat \ {0} /\ n - o \in Nat /\ \A i \in 1 .. n - o : o + i \in 1 .. n
      BY <2>1
    <3>2. p = [i \in 1 .. n - o |-> syms[o + i]]
      BY <2>1, <2>2, <3>1
    <3>3. \A i \in 1 .. n - o : syms[o + i] \in Symbols
      BY <2>1, <3>1
    <3>4. p \in Seq(Symbols)
      BY <3>1, <3>2, <3>3
    <3> QED BY <3>1, <3>2, <3>4
  <2>4. q \in Seq(Symbols) /\ DOMAIN q = 1 .. o /\ \A i \in 1 .. o : q[i] = syms[i] /\ i \in 1 .. n
    BY <2>1, <2>2
  <2>5. \A i, j \in 1 .. n : syms[i] = syms[j] => i = j
    BY <2>1 DEF IsInjective
  <2>6. IsInjective(p)
    <3> SUFFICES ASSUME NEW i \in 1 .. n - o, NEW j \in 1 .. n - o, p[i] = p[j] PROVE i = j
      BY <2>3 DEF IsInjective
    <3>1. o + i = o + j
      BY <2>3, <2>5
    <3> QED BY <2>1, <3>1
  <2>7. IsInjective(q)
    BY <2>4, <2>5 DEF IsInjective
  <2>8. Range(p) \cap Range(q) = {}
    <3> SUFFICES ASSUME NEW i \in 1 .. n - o, NEW j \in 1 .. o, p[i] = q[j] PROVE FALSE
      BY <2>3, <2>4 DEF Range
    <3>1. o + i = j
      BY <2>3, <2>4, <2>5
    <3> QED BY <2>1, <3>1
  <2>9. rotate_scan_order(syms) = p \o q
    BY <1>2, <2>1, <2>2 DEF rotate_scan_order
  <2> QED BY <2>3, <2>4, <2>6, <2>7, <2>8, <2>9, SequenceJoin
<1> QED BY <1>1, <1>2

\* A cycle's list names a symbol once, and every position.
LEMMA ScansThePositions ==
  ASSUME TypeOK, NEW noms \in SUBSET Symbols
  PROVE  /\ scan_symbols(noms) \in Seq(Symbols) /\ IsInjective(scan_symbols(noms))
         /\ Held \subseteq Range(scan_symbols(noms))
         /\ halted_symbols \in Seq(Symbols) /\ IsInjective(halted_symbols)
         /\ Held \subseteq Range(halted_symbols)
<1>1. core \in Seq(Symbols) /\ IsInjective(core) /\ now \in Nat
  BY ScanAssumption DEF TypeOK
<1>2. Range(core) \subseteq Symbols
  BY <1>1 DEF Range
<1>3. \A i \in DOMAIN Enabled : universe_for(Enabled[i]) \subseteq Symbols
  <2>1. \A i \in DOMAIN Enabled : Enabled[i] \in Strategies
    BY DEF Strategies, Range
  <2> QED BY <1>2, <2>1, ScanAssumption DEF universe_for
<1>4. PICK wide : wide = UNION {universe_for(Enabled[i]) : i \in DOMAIN Enabled} /\ wide \in SUBSET Symbols
  BY <1>3
<1>5. PICK p : p = rotate_scan_order(core) /\ p \in Seq(Symbols) /\ IsInjective(p)
  BY <1>1, RotateOf
<1>6. PICK q : q = And(p, wide) /\ q \in Seq(Symbols) /\ IsInjective(q)
  BY <1>4, <1>5, AndOf
<1>7. PICK r : r = And(q, noms) /\ r \in Seq(Symbols) /\ IsInjective(r)
  BY <1>6, AndOf
<1>8. Held \in SUBSET Symbols
  BY DEF Held
<1>9. scan_symbols(noms) = And(r, Held)
  BY <1>4, <1>5, <1>6, <1>7 DEF scan_symbols
<1>10. IsFiniteSet(Held)
  BY <1>8, ScanAssumption, FS_Subset
<1>11. PICK h : h = SetToSeq(Held) /\ h \in Seq(Symbols) /\ IsInjective(h) /\ Range(h) = Held
  BY <1>8, <1>10, SetSequence
<1>12. halted_symbols = And(h, {"SPY"}) /\ {"SPY"} \in SUBSET Symbols
  BY <1>11, ScanAssumption DEF halted_symbols
<1> QED BY <1>7, <1>8, <1>9, <1>11, <1>12, AndOf

LEMMA LatestExit ==
  ASSUME TypeOK
  PROVE  /\ last_exits \in [Owners -> [Symbols -> (0 .. MaxNow) \cup {None}]]
         /\ \A t \in closed : /\ last_exits[t.strategy][t.symbol] \in 0 .. MaxNow
                              /\ t.at <= last_exits[t.strategy][t.symbol]
<1> DEFINE exits(n, s) == {t.at : t \in {u \in closed : u.strategy = n /\ u.symbol = s}}
           latest(n, s) == IF exits(n, s) = {} THEN None
                           ELSE CHOOSE x \in exits(n, s) : \A y \in exits(n, s) : y <= x
<1>1. \A n \in Owners, s \in Symbols : last_exits[n][s] = latest(n, s)
  BY DEF last_exits
<1>2. ASSUME NEW n \in Owners, NEW s \in Symbols, exits(n, s) # {}
      PROVE  latest(n, s) \in 0 .. MaxNow /\ \A y \in exits(n, s) : y <= latest(n, s)
  <2>1. exits(n, s) \subseteq 0 .. MaxNow
    BY DEF TypeOK
  <2>2. IsFiniteSet(0 .. MaxNow) /\ 0 .. MaxNow \subseteq Nat
    BY ScanAssumption, FS_Interval
  <2>3. IsFiniteSet(exits(n, s)) /\ exits(n, s) \in SUBSET Nat
    BY <2>1, <2>2, FS_Subset
  <2>4. PICK d : d = exits(n, s)
    OBVIOUS
  <2>5. \E x \in d : \A y \in d : y <= x
    BY <1>2, <2>3, <2>4, GreatestOf
  <2>6. latest(n, s) = CHOOSE x \in d : \A y \in d : y <= x
    BY <1>2, <2>4
  <2> QED BY <2>1, <2>4, <2>5, <2>6
<1>3. last_exits \in [Owners -> [Symbols -> (0 .. MaxNow) \cup {None}]]
  <2>1. \A n \in Owners, s \in Symbols : latest(n, s) \in (0 .. MaxNow) \cup {None}
    BY <1>2
  <2> HIDE DEF latest
  <2>2. last_exits = [n \in Owners |-> [s \in Symbols |-> latest(n, s)]]
    BY DEF last_exits, latest
  <2> QED BY <2>1, <2>2
<1>4. ASSUME NEW t \in closed
      PROVE  /\ last_exits[t.strategy][t.symbol] \in 0 .. MaxNow
             /\ t.at <= last_exits[t.strategy][t.symbol]
  <2>1. t.strategy \in Owners /\ t.symbol \in Symbols /\ t.at \in exits(t.strategy, t.symbol)
    BY DEF TypeOK
  <2> HIDE DEF exits, latest
  <2>2. exits(t.strategy, t.symbol) # {}
    BY <2>1
  <2> QED BY <1>1, <1>2, <2>1, <2>2
<1> QED BY <1>3, <1>4

-----------------------------------------------------------------------------
(* The scan.                                                               *)

LEMMA OwnersOf ==
  /\ Strategies \subseteq Owners /\ Unknown \in Owners /\ None \notin Owners /\ Untracked \notin Owners
  /\ None # Untracked /\ None # Unknown /\ Owners \ {Unknown} \subseteq Strategies
  /\ \A i \in DOMAIN Enabled : Enabled[i] \in Strategies
BY ScanAssumption DEF Owners, Strategies, Range

\* What an exit adds to the closed trades.
Exit(n, s, won) == [strategy |-> n, symbol |-> s, at |-> now, won |-> won]

LEMMA ClosedOf ==
  ASSUME TypeOK, NEW s \in Symbols, NEW n \in Owners,
         closed' = closed \/ \E won \in BOOLEAN : closed' = closed \cup {Exit(n, s, won)}
  PROVE  /\ closed' \subseteq [strategy : Owners, symbol : Symbols, at : 0 .. MaxNow, won : BOOLEAN]
         /\ \A t \in closed' \ closed : t.symbol = s /\ t.at = now
<1>1. \A won \in BOOLEAN :
        /\ Exit(n, s, won) \in [strategy : Owners, symbol : Symbols, at : 0 .. MaxNow, won : BOOLEAN]
        /\ Exit(n, s, won).symbol = s /\ Exit(n, s, won).at = now
  BY DEF Exit, TypeOK
<1>2. closed \subseteq [strategy : Owners, symbol : Symbols, at : 0 .. MaxNow, won : BOOLEAN]
  BY DEF TypeOK
<1> HIDE DEF TypeOK
<1> QED BY <1>1, <1>2

LEMMA PositionCloses ==
  ASSUME TypeOK, Position, s_ \in Symbols
  PROVE  closed' = closed \/ (\E n \in Owners, won \in BOOLEAN : closed' = closed \cup {Exit(n, s_, won)})
<1>1. CASE OwnerOf(s_) \notin Strategies
  BY <1>1 DEF Position
<1>2. CASE OwnerOf(s_) \in Strategies
  <2>1. \/ closed' = closed
        \/ \E won \in BOOLEAN :
             closed' = IF owner[s_] = Untracked THEN closed
                       ELSE closed \cup {[strategy |-> OwnerOf(s_), symbol |-> s_,
                                          at |-> now, won |-> won]}
    BY <1>2 DEF Position
  <2> QED BY <1>2, <2>1, OwnersOf DEF Exit
<1> QED BY <1>1, <1>2

LEMMA ScanTyping ==
  ASSUME TypeOK, [Next]_scan
  PROVE  TypeOK'
<1> USE OwnersOf
<1>1. ASSUME NEW halted \in BOOLEAN, NEW disagree \in BOOLEAN, NEW noms \in SUBSET Outside,
             NEW gone \in SUBSET Symbols, Begin(halted, noms, gone, disagree)
      PROVE  TypeOK'
  <2>1. PICK noms_ : noms_ = (IF halted THEN {} ELSE noms \ Range(core)) /\ noms_ \in SUBSET Symbols
    BY ScanAssumption
  <2>2. /\ queue' = (IF halted THEN halted_symbols ELSE scan_symbols(noms_))
        /\ nominated' = noms_ /\ lost' = gone
        /\ blocked' \in {"none", "datacheck", "universe", "halt"}
    BY <1>1, <2>1 DEF Begin
  <2>3. queue' \in Seq(Symbols)
    BY <2>1, <2>2, ScansThePositions
  <2>4. last_exit' = last_exits /\ at' = "scan" /\ entries' = NoEntries /\ news' = 0 /\ asked' = {}
        /\ start' = owner /\ UNCHANGED <<now, core, owner, closed>>
    BY <1>1 DEF Begin
  <2> QED BY <2>1, <2>2, <2>3, <2>4, LatestExit, ScanAssumption DEF TypeOK, NoEntries
<1>2. ASSUME Turn PROVE s_ \in Symbols /\ queue' \in Seq(Symbols)
  BY <1>2 DEF Turn, s_, TypeOK
<1>3. CASE Skip
  BY <1>2, <1>3 DEF Skip, Still, Turn, tally, TypeOK
<1>4. CASE Position
  <2>1. owner' \in [Symbols -> Owners \cup {None, Untracked}] /\ asked' \subseteq Symbols
    BY <1>2, <1>4 DEF Position, TypeOK
  <2>2. closed' \subseteq [strategy : Owners, symbol : Symbols, at : 0 .. MaxNow, won : BOOLEAN]
    BY <1>2, <1>4, PositionCloses, ClosedOf DEF Position
  <2> QED BY <1>2, <1>4, <2>1, <2>2 DEF Position, Still, Turn, TypeOK
<1>5. CASE Flat
  <2>1. owner' \in [Symbols -> Owners \cup {None, Untracked}] /\ asked' \subseteq Symbols
    BY <1>2, <1>5 DEF Flat, tally, TypeOK
  <2>2. entries' \in [Strategies -> Nat] /\ news' \in 0 .. NewsCap
    <3>1. CASE UNCHANGED tally
      BY <3>1 DEF tally, TypeOK
    <3>2. CASE ~ UNCHANGED tally
      <4>1. /\ s_ \in nominated => news < NewsCap
            /\ \E n \in Strategies : entries' = [entries EXCEPT ![n] = @ + 1]
            /\ news' = IF s_ \in nominated THEN news + 1 ELSE news
        BY <1>5, <3>2 DEF Flat
      <4>2. news' \in 0 .. NewsCap
        BY <4>1, ScanAssumption DEF TypeOK
      <4> QED BY <4>1, <4>2 DEF TypeOK
    <3> QED BY <3>1, <3>2
  <2> QED BY <1>2, <1>5, <2>1, <2>2 DEF Flat, Still, Turn, TypeOK
<1>6. CASE End
  BY <1>6, ScanAssumption DEF End, NoEntries, TypeOK
<1>7. ASSUME NEW s \in Symbols, StopFills(s) PROVE TypeOK'
  <2>1. owner' \in [Symbols -> Owners \cup {None, Untracked}]
    BY <1>7 DEF StopFills, TypeOK
  <2>2. closed' \subseteq [strategy : Owners, symbol : Symbols, at : 0 .. MaxNow, won : BOOLEAN]
    <3>1. CASE owner[s] = Untracked
      BY <1>7, <3>1 DEF StopFills, TypeOK
    <3>2. CASE owner[s] # Untracked
      <4>1. owner[s] \in Owners /\ closed' = closed \cup {Exit(owner[s], s, FALSE)}
        BY <1>7, <3>2 DEF StopFills, TypeOK, Exit
      <4> QED BY <4>1, ClosedOf
    <3> QED BY <3>1, <3>2
  <2> QED BY <1>7, <2>1, <2>2 DEF StopFills, TypeOK, plan, tally
<1>8. ASSUME NEW s \in Symbols, Inherit(s) PROVE TypeOK'
  <2>1. {Untracked, Unknown} \cup Disabled \subseteq Owners \cup {None, Untracked}
    BY DEF Strategies
  <2> QED BY <1>8, <2>1 DEF Inherit, TypeOK, plan, tally
<1>9. CASE NextPass
  BY <1>9, ScanAssumption DEF NextPass, TypeOK, plan, tally
<1>10. CASE UNCHANGED scan
  BY <1>10 DEF scan, plan, tally, TypeOK
<1> QED BY <1>1, <1>3, <1>4, <1>5, <1>6, <1>7, <1>8, <1>9, <1>10 DEF Next

\* The positions a scan still owes their owner, and the exits that those of the
\* cycle have to keep away from: what it has yet to visit is as it was.
Owed ==
  /\ IsInjective(queue)
  /\ \A s \in Symbols : start[s] # None /\ start[s] # Unknown /\ s \notin lost =>
       s \in asked \/ (s \in Range(queue) /\ owner[s] = start[s])
  /\ \A t \in closed : t.symbol \in Range(queue) =>
       /\ last_exit[t.strategy][t.symbol] \in 0 .. MaxNow
       /\ t.at <= last_exit[t.strategy][t.symbol]

ScanInv ==
  /\ TypeOK
  /\ \A t \in closed : t.at <= now
  /\ at = "scan" => Owed

LEMMA NextSymbol ==
  ASSUME TypeOK, Turn
  PROVE  /\ s_ \in Range(queue) /\ s_ \in Symbols /\ Range(queue') \subseteq Range(queue)
         /\ \A s \in Range(queue) : s # s_ => s \in Range(queue')
         /\ IsInjective(queue) => IsInjective(queue') /\ s_ \notin Range(queue')
<1>1. queue \in Seq(Symbols) /\ queue # <<>> /\ queue' = Tail(queue) /\ s_ = Head(queue)
  BY DEF TypeOK, Turn, s_
<1>2. /\ Range(queue) \subseteq Symbols /\ Head(queue) \in Range(queue)
      /\ Range(queue) = {Head(queue)} \cup Range(Tail(queue))
      /\ IsInjective(queue) => IsInjective(Tail(queue)) /\ Head(queue) \notin Range(Tail(queue))
  BY <1>1, SequenceRange
<1> QED BY <1>1, <1>2

\* The owner of a position that was held when the cycle began may rank it.
LEMMA MayBeAsked ==
  ASSUME TypeOK, NEW s \in Symbols, s \notin lost,
         owner[s] = start[s], start[s] # None, start[s] # Unknown
  PROVE  OwnerOf(s) \in Strategies /\ Ranked(OwnerOf(s), s)
<1>1. CASE start[s] = Untracked
  BY <1>1, ScanAssumption DEF OwnerOf, Ranked
<1>2. CASE start[s] # Untracked
  BY <1>2, OwnersOf DEF OwnerOf, Ranked, prepare_one, TypeOK
<1> QED BY <1>1, <1>2

LEMMA ScanStep ==
  ASSUME ScanInv, [Next]_scan
  PROVE  ScanInv'
<1> USE OwnersOf
<1>1. TypeOK /\ TypeOK' /\ (\A t \in closed : t.at <= now) /\ (at = "scan" => Owed) /\ now \in Nat
  BY ScanTyping, ScanAssumption DEF ScanInv, TypeOK
<1>2. ASSUME NEW halted \in BOOLEAN, NEW disagree \in BOOLEAN, NEW noms \in SUBSET Outside,
             NEW gone \in SUBSET Symbols, Begin(halted, noms, gone, disagree)
      PROVE  ScanInv'
  <2>1. PICK noms_ : noms_ = (IF halted THEN {} ELSE noms \ Range(core)) /\ noms_ \in SUBSET Symbols
    BY ScanAssumption
  <2>2. /\ queue' = (IF halted THEN halted_symbols ELSE scan_symbols(noms_))
        /\ last_exit' = last_exits /\ start' = owner /\ UNCHANGED <<now, owner, closed>>
    BY <1>2, <2>1 DEF Begin
  <2>3. IsInjective(queue') /\ Held \subseteq Range(queue')
    BY <1>1, <2>1, <2>2, ScansThePositions
  <2>4. \A s \in Symbols : owner[s] # None => s \in Range(queue')
    BY <2>3 DEF Held
  <2> QED BY <1>1, <2>2, <2>3, <2>4, LatestExit DEF ScanInv, Owed
<1>3. CASE Skip
  <2>1. Turn /\ s_ \in lost /\ UNCHANGED <<now, owner, closed, asked, at, lost, last_exit, start>>
    BY <1>3 DEF Skip, Still, tally
  <2>2. at = "scan" /\ Owed
    BY <1>1, <2>1 DEF Turn
  <2> QED BY <1>1, <2>1, <2>2, NextSymbol DEF ScanInv, Owed
<1>4. CASE Position
  <2>1. Turn /\ s_ \notin lost /\ s_ \in Held /\ UNCHANGED <<now, at, lost, last_exit, start>>
    BY <1>4 DEF Position, Still
  <2>2. at = "scan" /\ Owed /\ owner[s_] # None
    BY <1>1, <2>1 DEF Turn, Held
  <2>3. /\ \A t \in closed' \ closed : t.symbol = s_ /\ t.at = now
        /\ \A s \in Symbols : s # s_ => owner'[s] = owner[s]
        /\ asked \subseteq asked'
        /\ OwnerOf(s_) \in Strategies /\ Ranked(OwnerOf(s_), s_) => s_ \in asked'
    <3>1. s_ \in Symbols /\ (\A t \in closed' \ closed : t.symbol = s_ /\ t.at = now)
      BY <1>1, <1>4, <2>1, NextSymbol, PositionCloses, ClosedOf
    <3>2. \A s \in Symbols : s # s_ => owner'[s] = owner[s]
      BY <1>1, <1>4 DEF Position, TypeOK
    <3>3. asked \subseteq asked' /\ (OwnerOf(s_) \in Strategies /\ Ranked(OwnerOf(s_), s_) => s_ \in asked')
      BY <1>4 DEF Position
    <3> QED BY <3>1, <3>2, <3>3
  <2>4. \A t \in closed' : t.at <= now
    BY <1>1, <2>3
  <2>5. ASSUME start[s_] # None, start[s_] # Unknown PROVE s_ \in asked'
    <3>1. s_ \in asked \/ owner[s_] = start[s_]
      BY <1>1, <2>1, <2>2, <2>5, NextSymbol DEF Owed
    <3> QED BY <1>1, <2>1, <2>3, <2>5, <3>1, NextSymbol, MayBeAsked
  <2>6. Owed'
    <3>1. IsInjective(queue')
      BY <1>1, <2>1, <2>2, NextSymbol DEF Owed
    <3>2. ASSUME NEW s \in Symbols, start[s] # None, start[s] # Unknown, s \notin lost
          PROVE  s \in asked' \/ (s \in Range(queue') /\ owner'[s] = start[s])
      BY <1>1, <2>1, <2>2, <2>3, <2>5, <3>2, NextSymbol DEF Owed
    <3>3. ASSUME NEW t \in closed', t.symbol \in Range(queue')
          PROVE  /\ last_exit[t.strategy][t.symbol] \in 0 .. MaxNow
                 /\ t.at <= last_exit[t.strategy][t.symbol]
      <4>1. t \in closed /\ t.symbol \in Range(queue)
        BY <1>1, <2>1, <2>2, <2>3, <3>3, NextSymbol DEF Owed
      <4> QED BY <2>2, <4>1 DEF Owed
    <3> QED BY <2>1, <3>1, <3>2, <3>3 DEF Owed
  <2> QED BY <1>1, <2>1, <2>4, <2>6 DEF ScanInv
<1>5. CASE Flat
  <2>1. Turn /\ s_ \notin Held /\ UNCHANGED <<now, closed, asked, at, lost, last_exit, start>>
    BY <1>5 DEF Flat, Still, tally
  <2>2. at = "scan" /\ Owed /\ owner[s_] = None
    BY <1>1, <2>1, NextSymbol DEF Turn, Held
  <2>3. \A s \in Symbols : s # s_ => owner'[s] = owner[s]
    BY <1>1, <1>5 DEF Flat, TypeOK
  <2>4. Owed'
    <3>1. IsInjective(queue')
      BY <1>1, <2>1, <2>2, NextSymbol DEF Owed
    <3>2. ASSUME NEW s \in Symbols, start[s] # None, start[s] # Unknown, s \notin lost
          PROVE  s \in asked \/ (s \in Range(queue') /\ owner'[s] = start[s])
      BY <1>1, <2>1, <2>2, <2>3, <3>2, NextSymbol DEF Owed
    <3>3. ASSUME NEW t \in closed, t.symbol \in Range(queue')
          PROVE  /\ last_exit[t.strategy][t.symbol] \in 0 .. MaxNow
                 /\ t.at <= last_exit[t.strategy][t.symbol]
      BY <1>1, <2>1, <2>2, <3>3, NextSymbol DEF Owed
    <3> QED BY <2>1, <3>1, <3>2, <3>3 DEF Owed
  <2> QED BY <1>1, <2>1, <2>4 DEF ScanInv
<1>6. CASE End
  BY <1>1, <1>6 DEF End, ScanInv
<1>7. ASSUME NEW s \in Symbols, StopFills(s) PROVE ScanInv'
  <2>1. at' = "off" /\ now' = now /\ \A t \in closed' \ closed : t.at = now
    BY <1>7 DEF StopFills
  <2> QED BY <1>1, <2>1 DEF ScanInv
<1>8. ASSUME NEW s \in Symbols, Inherit(s) PROVE ScanInv'
  BY <1>1, <1>8 DEF Inherit, ScanInv
<1>9. CASE NextPass
  <2>1. at' = "off" /\ now' = now + 1 /\ closed' = closed
    BY <1>9 DEF NextPass
  <2>2. \A t \in closed : t.at \in Nat
    BY <1>1, ScanAssumption DEF TypeOK
  <2> QED BY <1>1, <2>1, <2>2 DEF ScanInv
<1>10. CASE UNCHANGED scan
  BY <1>1, <1>10 DEF scan, plan, tally, ScanInv, Owed
<1> QED BY <1>2, <1>3, <1>4, <1>5, <1>6, <1>7, <1>8, <1>9, <1>10 DEF Next

LEMMA ScanInvHolds == Spec => []ScanInv
<1>1. Init => ScanInv
  BY ScanAssumption, OwnersOf DEF Init, ScanInv, TypeOK, NoEntries
<1>2. ScanInv /\ [Next]_scan => ScanInv'
  BY ScanStep
<1> QED BY <1>1, <1>2, PTL DEF Spec

\* When a scan has run, every position it began with whose bars came was put to
\* its owner, who could rank it (src/main.py, the scan of _run_cycle; DEFAULT_OWNER
\* in src/strategies/__init__.py), for every universe and configuration.
THEOREM PositionsAreHeard == Spec => []ExitsHeard
<1>1. ScanInv => ExitsHeard
  <2> SUFFICES ASSUME ScanInv, at = "scan", queue = <<>> PROVE ExitsHeard
    BY DEF ExitsHeard
  <2>1. Range(queue) = {}
    BY SequenceRange DEF ScanInv, TypeOK
  <2> QED BY <2>1 DEF ScanInv, Owed, ExitsHeard
<1> QED BY <1>1, ScanInvHolds, PTL

\* Only a flat symbol is entered, by a strategy that is past its cooldown.
LEMMA StaysOut ==
  ASSUME ScanInv, [Next]_scan, NEW s \in Symbols, owner[s] = None, owner'[s] \in Range(Enabled),
         at = "scan", NEW t \in closed, t.strategy = owner'[s], t.symbol = s
  PROVE  now - t.at >= 2 * Cooldown[owner'[s]]
<1> USE OwnersOf
<1>1. owner'[s] # owner[s]
  BY DEF Range
<1>2. Flat /\ s = s_
  <2>1. ASSUME Position PROVE owner'[s] = owner[s]
    BY <2>1 DEF Position, Held, ScanInv, TypeOK
  <2>2. ASSUME Flat PROVE s = s_
    BY <1>1, <2>2 DEF Flat, ScanInv, TypeOK
  <2> QED
    BY <1>1, <2>1, <2>2 DEF Next, Begin, Skip, End, StopFills, Inherit, NextPass, scan
<1>3. Turn /\ Owed /\ TypeOK
  BY <1>2 DEF Flat, ScanInv
<1>4. PICK i \in DOMAIN Enabled : /\ ~ cooldown_blocked(Enabled[i], s) /\ owner'[s] = Enabled[i]
  <2>1. owner' # owner
    BY <1>1
  <2>2. s_ \in Symbols /\ owner \in [Symbols -> Owners \cup {None, Untracked}]
    BY <1>3, NextSymbol DEF TypeOK
  <2>3. PICK i \in DOMAIN Enabled : /\ Consulted(Enabled[i], s_)
                                    /\ owner' = [owner EXCEPT ![s_] = Enabled[i]]
    BY <1>2, <2>1 DEF Flat
  <2> QED BY <1>2, <2>2, <2>3 DEF Consulted
<1>5. PICK n, x : n = owner'[s] /\ n \in Strategies /\ x = last_exit[n][s]
  BY <1>4
<1>6. x \in Nat /\ x # None /\ t.at <= x
  BY <1>2, <1>3, <1>5, NextSymbol, ScanAssumption DEF Owed
<1>7. Cooldown[n] \in Nat /\ now \in Nat /\ t.at \in Nat /\ t.at <= now
  BY <1>3, <1>5, ScanAssumption DEF ScanInv, TypeOK
<1>8. CASE Cooldown[n] = 0
  BY <1>5, <1>7, <1>8
<1>9. CASE Cooldown[n] # 0
  <2>1. ~ ((now - x) \div 2 < Cooldown[n])
    BY <1>4, <1>5, <1>6, <1>7, <1>9 DEF cooldown_blocked
  <2>2. PICK c \in Nat, m \in Nat, a \in Nat : c = Cooldown[n] /\ m = now /\ a = t.at
    BY <1>7
  <2>3. m - x >= 2 * c
    BY <1>6, <2>1, <2>2
  <2>4. m - a >= 2 * c
    BY <1>6, <2>2, <2>3
  <2> QED BY <1>5, <2>2, <2>4
<1> QED BY <1>8, <1>9

\* No strategy takes a symbol back within its cooldown of its own exit there
\* (src/main.py, cooldown_blocked), in this cycle or a later one, and no stop of
\* a held position is lowered (NoneFalls).
THEOREM NothingStepsBack == Spec /\ GuardSpec => NoStepBack
<1>1. ASSUME ScanInv, [Next]_scan
      PROVE  [\A s \in Symbols :
                owner[s] = None /\ owner'[s] \in Range(Enabled) /\ at = "scan" =>
                  \A t \in closed : t.strategy = owner'[s] /\ t.symbol = s =>
                    now - t.at >= 2 * Cooldown[owner'[s]]]_scan
  BY <1>1, StaysOut
<1>2. Spec => CooldownHolds
  BY <1>1, ScanInvHolds, PTL DEF Spec, CooldownHolds
<1> QED BY <1>2, NoneFalls, PTL DEF NoStepBack

-----------------------------------------------------------------------------
(* The sizes.                                                              *)

Setting ==
  [brackets : BOOLEAN, base : Nat \ {0}, high : Nat, own : Nat, tp : Nat, risk_pct : Nat,
   target : Nat, per_trade : Nat, max_position : Nat, max_order : Nat, floor : BOOLEAN]
SignalType ==
  [action : {"buy", "short"}, price : Nat \ {0}, atr : Nat, vol : Nat, high : BOOLEAN]

\* The inputs of a size while a signal is looked at.
Inputs ==
  /\ set \in Setting /\ signal \in SignalType
  /\ account \in [equity : Nat, power : Nat]

LEMMA Quotient ==
  ASSUME NEW a \in Nat, NEW b \in Nat \ {0}, NEW q \in Nat, q <= a \div b
  PROVE  q * b <= a
<1>1. PICK d \in Nat : d = a \div b
  OBVIOUS
<1>2. d * b <= a
  BY <1>1
<1>3. q * b <= d * b
  BY <1>1
<1>4. q * b \in Nat /\ d * b \in Nat
  OBVIOUS
<1> QED BY <1>2, <1>3, <1>4

LEMMA Quotients ==
  ASSUME NEW a \in Nat, NEW b \in Nat \ {0}
  PROVE  a \div b \in Nat
OBVIOUS

LEMMA WidthOf ==
  ASSUME Inputs
  PROVE  /\ Width \in Nat /\ Width > 0
         /\ \A mult \in Nat : mult = (IF set.own > 0 THEN set.own ELSE Larger(set.base, set.high)) =>
              mult > 0 /\ Width <= mult
BY DEF Inputs, Setting, SignalType, Width, Larger

LEMMA BracketOf ==
  ASSUME Inputs
  PROVE  /\ bracket_prices.stop \in Nat /\ bracket_prices.tp \in Nat
         /\ bracket_prices = NoBracket \/ bracket_prices.stop > 0
         /\ signal.action = "buy" /\ set.brackets /\ signal.atr > 0 /\ ~unprotectable_entry =>
              bracket_prices # NoBracket /\ bracket_prices.stop < signal.price
<1>1. PICK w \in Nat, p \in Nat, a \in Nat, x \in Nat :
        w = Width /\ w > 0 /\ p = signal.price /\ p > 0 /\ a = signal.atr /\ x = w * a
  BY WidthOf DEF Inputs, SignalType
<1>2. PICK tp \in Nat, y \in Nat : tp = set.tp /\ y = tp * a
  BY <1>1 DEF Inputs, Setting
<1>3. CASE signal.action = "short"
  <2>1. bracket_prices = IF ~set.brackets \/ a = 0 THEN NoBracket
                         ELSE IF tp > 0 /\ (IF tp = 0 THEN 0 ELSE p - y) <= 0 THEN NoBracket
                         ELSE IF p + x <= 0 THEN NoBracket
                         ELSE [stop |-> p + x, tp |-> IF tp = 0 THEN 0 ELSE p - y]
    <3>1. p - (-1) * w * a = p + x /\ p + (-1) * tp * a = p - y
      BY <1>1, <1>2
    <3> QED BY <1>1, <1>2, <1>3, <3>1 DEF bracket_prices
  <2> QED BY <1>1, <1>2, <1>3, <2>1 DEF NoBracket
<1>4. CASE signal.action # "short"
  <2>1. bracket_prices = IF ~set.brackets \/ a = 0 THEN NoBracket
                         ELSE IF p - x <= 0 THEN NoBracket
                         ELSE [stop |-> p - x, tp |-> IF tp = 0 THEN 0 ELSE p + y]
    <3>1. p - 1 * w * a = p - x /\ p + 1 * tp * a = p + y
      BY <1>1, <1>2
    <3> QED BY <1>1, <1>2, <1>4, <3>1 DEF bracket_prices
  <2>2. ASSUME set.brackets, a > 0, ~unprotectable_entry PROVE p - x > 0 /\ x > 0
    <3>1. PICK m \in Nat : m = (IF set.own > 0 THEN set.own ELSE Larger(set.base, set.high))
      BY DEF Inputs, Setting, Larger
    <3>2. m > 0 /\ w <= m
      BY <1>1, <3>1, WidthOf
    <3>3. ~ (p - m * a <= 0)
      BY <1>1, <2>2, <3>1, <3>2 DEF unprotectable_entry
    <3>4. x <= m * a
      BY <1>1, <3>2
    <3>5. m * a \in Nat /\ x > 0
      BY <1>1, <2>2
    <3> QED BY <1>1, <3>3, <3>4, <3>5
  <2> QED BY <1>1, <1>2, <2>1, <2>2 DEF NoBracket
<1> QED BY <1>3, <1>4

\* The smallest of the caps, and what each of them says of a number of shares.
LEMMA CeilingOf ==
  ASSUME Inputs
  PROVE  /\ Ceiling \in Nat
         /\ \A q \in Nat : q <= Ceiling =>
              /\ q * signal.price <= account.power
              /\ q * signal.price * 100 <= account.equity * set.max_position
              /\ set.max_order > 0 => q * signal.price <= set.max_order
<1>1. PICK p \in Nat \ {0}, e \in Nat, f \in Nat, m \in Nat, o \in Nat :
        /\ p = signal.price /\ e = account.equity /\ f = account.power
        /\ m = set.max_position /\ o = set.max_order
  BY DEF Inputs, SignalType, Setting
<1>2. e * m \in Nat /\ 100 * p \in Nat \ {0}
  BY <1>1
<1>3. (e * m) \div (100 * p) \in Nat /\ f \div p \in Nat /\ o \div p \in Nat
  BY <1>1, <1>2, Quotients
<1>4. PICK caps : caps = {(e * m) \div (100 * p), f \div p} \cup (IF o > 0 THEN {o \div p} ELSE {})
  OBVIOUS
<1>5. caps \in SUBSET Nat /\ caps # {}
  BY <1>3, <1>4
<1>6. PICK c \in caps : \A y \in caps : c <= y
  BY <1>5, LeastOf
<1>7. Ceiling \in caps /\ \A y \in caps : Ceiling <= y
  <2>1. Ceiling = Min(caps)
    BY <1>1, <1>4 DEF Ceiling
  <2> QED BY <1>6, <2>1 DEF Min
<1>8. PICK k \in Nat : k = Ceiling
  BY <1>5, <1>7
<1>9. ASSUME NEW q \in Nat, q <= k
      PROVE  q * p <= f /\ q * p * 100 <= e * m /\ (o > 0 => q * p <= o)
  <2>1. q <= f \div p /\ q <= (e * m) \div (100 * p) /\ (o > 0 => q <= o \div p)
    BY <1>3, <1>4, <1>7, <1>8, <1>9
  <2>2. q * p <= f /\ q * (100 * p) <= e * m /\ (o > 0 => q * p <= o)
    BY <1>2, <2>1, Quotient
  <2>3. q * p * 100 = q * (100 * p)
    BY <1>1
  <2> QED BY <2>2, <2>3
<1> QED BY <1>1, <1>8, <1>9

LEMMA SizeOf ==
  ASSUME Inputs, bracket = bracket_prices
  PROVE  /\ size_order \in Nat /\ size_order <= Ceiling
         /\ _risk_sizing_active => Distance \in Nat \ {0}
         /\ _risk_sizing_active /\ size_order > 1 =>
              size_order * Distance * 100 <= account.equity * set.risk_pct
<1>1. PICK p \in Nat \ {0}, e \in Nat, c \in Nat : p = signal.price /\ e = account.equity /\ c = Ceiling
  BY CeilingOf DEF Inputs, SignalType
<1>2. bracket.stop \in Nat
  BY BracketOf
<1>3. _risk_sizing_active => Distance \in Nat \ {0}
  BY <1>1, <1>2 DEF _risk_sizing_active, Distance
<1>4. _risk_sizing_active =>
        Wanted \in Nat /\ \A q \in Nat : q <= Wanted => q * Distance * 100 <= e * set.risk_pct
  <2> SUFFICES ASSUME _risk_sizing_active
               PROVE  Wanted \in Nat /\ \A q \in Nat : q <= Wanted => q * Distance * 100 <= e * set.risk_pct
    OBVIOUS
  <2>1. PICK d \in Nat \ {0}, r \in Nat : d = Distance /\ r = set.risk_pct
    BY <1>3 DEF Inputs, Setting
  <2>2. e * r \in Nat /\ 100 * d \in Nat \ {0}
    BY <1>1, <2>1
  <2>3. Wanted = (e * r) \div (100 * d)
    BY <1>1, <2>1 DEF Wanted
  <2>4. ASSUME NEW q \in Nat, q <= Wanted PROVE q * d * 100 <= e * r
    <3>1. q * (100 * d) <= e * r
      BY <2>2, <2>3, <2>4, Quotient
    <3>2. q * d * 100 = q * (100 * d)
      BY <2>1
    <3> QED BY <3>1, <3>2
  <2>5. Wanted \in Nat
    BY <2>2, <2>3, Quotients
  <2> QED BY <2>1, <2>4, <2>5
<1>5. Wanted \in Nat
  <2>1. CASE _risk_sizing_active
    BY <1>4, <2>1
  <2>2. CASE ~ _risk_sizing_active
    <3>1. vol_scale \in Nat
      <4>1. CASE set.target = 0 \/ signal.vol = 0
        BY <4>1 DEF vol_scale
      <4>2. CASE ~ (set.target = 0 \/ signal.vol = 0)
        <5>1. PICK q \in Nat : q = (set.target * 100) \div signal.vol
          <6>1. PICK t \in Nat, v \in Nat \ {0} : t = set.target /\ v = signal.vol
            BY <4>2 DEF Inputs, Setting, SignalType
          <6>2. t * 100 \in Nat
            OBVIOUS
          <6> QED BY <6>1, <6>2, Quotients
        <5>2. vol_scale = Smaller(Larger(q, 50), 150)
          BY <4>2, <5>1 DEF vol_scale
        <5> QED BY <5>2 DEF Smaller, Larger
      <4> QED BY <4>1, <4>2
    <3>2. PICK t \in Nat, v \in Nat : t = set.per_trade /\ v = vol_scale
      BY <3>1 DEF Inputs, Setting
    <3>3. e * t \in Nat
      BY <1>1
    <3>4. e * t * v \in Nat /\ 10000 * p \in Nat \ {0}
      BY <1>1, <3>3
    <3>5. Wanted = (e * t * v) \div (10000 * p)
      BY <1>1, <2>2, <3>2 DEF Wanted
    <3> QED BY <3>4, <3>5, Quotients
  <2> QED BY <2>1, <2>2
<1>6. PICK w \in Nat : w = Wanted
  BY <1>5
<1>7. /\ size_order \in Nat /\ size_order <= c
      /\ size_order <= w \/ size_order = 1
  BY <1>1, <1>6 DEF size_order, Smaller, Larger
<1>8. _risk_sizing_active /\ size_order > 1 => size_order * Distance * 100 <= e * set.risk_pct
  <2>1. size_order > 1 => size_order <= w
    BY <1>7
  <2> QED BY <1>4, <1>6, <1>7, <2>1
<1> QED BY <1>1, <1>3, <1>7, <1>8

\* Every stage has what the ones before it found out.
SizeInv ==
  /\ set \in Setting
  /\ stage \in {"idle", "signal", "held", "priced", "sized", "zero", "plain", "bracket"}
  /\ stage # "idle" => Inputs
  /\ stage \in {"priced", "sized", "plain", "bracket"} =>
       ~unprotectable_entry /\ bracket = bracket_prices
  /\ stage \in {"sized", "plain", "bracket"} => full = size_order
  /\ stage \in {"plain", "bracket"} =>
       qty \in 0 .. full /\ (stage = "plain" <=> bracket = NoBracket)

LEMMA SizeStep ==
  ASSUME SizeInv, [SizeNext]_sizing
  PROVE  SizeInv'
<1> USE SizeAssumption
<1>1. ASSUME NEW action \in {"buy", "short"}, NEW price \in Prices, NEW atr \in Atrs, NEW vol \in Vols,
             NEW high \in BOOLEAN, NEW equity \in Equities, NEW power \in Powers,
             Signal(action, price, atr, vol, high, equity, power)
      PROVE  SizeInv'
  <2>1. signal' \in SignalType /\ account' \in [equity : Nat, power : Nat]
    BY <1>1 DEF Signal, SignalType
  <2> QED BY <1>1, <2>1 DEF Signal, SizeInv, Inputs
<1>2. CASE Guard
  BY <1>2 DEF Guard, SizeInv, Inputs
<1>3. CASE Price
  BY <1>3 DEF Price, SizeInv, Inputs, unprotectable_entry, bracket_prices, Width
<1>4. CASE Size
  <2>1. size_order' = size_order
    BY <1>4 DEF Size, size_order, Wanted, Ceiling, _risk_sizing_active, Distance, vol_scale
  <2> QED BY <1>4, <2>1 DEF Size, SizeInv, Inputs, unprotectable_entry, bracket_prices, Width
<1>5. ASSUME NEW scale \in Scales, Judge(scale) PROVE SizeInv'
  <2>1. size_order' = size_order /\ UNCHANGED <<set, signal, account, bracket, full>>
    BY <1>5 DEF Judge, size_order, Wanted, Ceiling, _risk_sizing_active, Distance, vol_scale
  <2>2. stage = "sized" /\ Inputs /\ bracket = bracket_prices /\ full = size_order
    BY <1>5 DEF Judge, SizeInv
  <2>3. qty' \in 0 .. full
    <3>1. PICK n \in Nat : n = full
      BY <2>2, SizeOf
    <3>2. PICK k \in 0 .. 4 : k = scale
      OBVIOUS
    <3>3. n * k \in Nat /\ n * k <= n * 4
      BY <3>1, <3>2
    <3>4. (n * k) \div 4 \in 0 .. n
      BY <3>3
    <3> QED BY <1>5, <3>1, <3>2, <3>4 DEF Judge
  <2>4. /\ stage' \in {"zero", "plain", "bracket"}
        /\ stage' \in {"plain", "bracket"} => (stage' = "plain" <=> bracket = NoBracket)
    BY <1>5 DEF Judge
  <2>5. Inputs' /\ ~unprotectable_entry' /\ bracket_prices' = bracket_prices
    BY <1>5, <2>1, <2>2 DEF SizeInv, Judge, Inputs, unprotectable_entry, bracket_prices, Width
  <2> QED BY <2>1, <2>2, <2>3, <2>4, <2>5 DEF SizeInv, Inputs
<1>6. CASE NextSignal
  BY <1>6 DEF NextSignal, SizeInv
<1>7. CASE UNCHANGED sizing
  <2>1. size_order' = size_order
    BY <1>7 DEF sizing, size_order, Wanted, Ceiling, _risk_sizing_active, Distance, vol_scale
  <2>2. unprotectable_entry' = unprotectable_entry /\ bracket_prices' = bracket_prices
    BY <1>7 DEF sizing, unprotectable_entry, bracket_prices, Width
  <2> QED BY <1>7, <2>1, <2>2 DEF sizing, SizeInv, Inputs
<1> QED BY <1>1, <1>2, <1>3, <1>4, <1>5, <1>6, <1>7 DEF SizeNext

LEMMA EntryIsSafe ==
  ASSUME SizeInv, Ordered
  PROVE  SizedSafely /\ NeverNaked
<1>1. /\ Inputs /\ ~unprotectable_entry /\ bracket = bracket_prices /\ full = size_order
      /\ qty \in 0 .. full /\ (stage = "plain" <=> bracket = NoBracket)
      /\ stage \in {"plain", "bracket"}
  BY DEF SizeInv, Ordered
<1>2. PICK n \in Nat, q \in Nat : n = full /\ q = qty /\ q <= n /\ n <= Ceiling
  BY <1>1, SizeOf
<1>3. /\ qty * signal.price <= account.power
      /\ qty * signal.price * 100 <= account.equity * set.max_position
      /\ set.max_order > 0 => qty * signal.price <= set.max_order
  <2>1. Ceiling \in Nat
    BY <1>1, CeilingOf
  <2>2. q <= Ceiling
    BY <1>2, <2>1
  <2> QED BY <1>1, <1>2, <2>2, CeilingOf
<1>4. _risk_sizing_active /\ qty > 1 => qty * Distance * 100 <= account.equity * set.risk_pct
  <2> SUFFICES ASSUME _risk_sizing_active, q > 1
               PROVE  q * Distance * 100 <= account.equity * set.risk_pct
    BY <1>2
  <2>1. PICK d \in Nat \ {0}, x \in Nat :
          d = Distance /\ x = account.equity * set.risk_pct /\ n * d * 100 <= x
    <3>1. n > 1
      BY <1>2
    <3>2. account.equity * set.risk_pct \in Nat
      BY <1>1 DEF Inputs, Setting
    <3> QED BY <1>1, <1>2, <3>1, <3>2, SizeOf
  <2>2. q * d <= n * d
    BY <1>2
  <2>3. q * d \in Nat /\ n * d \in Nat
    OBVIOUS
  <2>4. q * d * 100 <= x
    BY <2>1, <2>2, <2>3
  <2> QED BY <2>1, <2>4
<1>5. NeverNaked
  BY <1>1, BracketOf DEF NeverNaked, Ordered
<1> QED BY <1>3, <1>4, <1>5 DEF SizedSafely

\* An order the sizing lets out is within the concentration cap, the order value
\* cap and the buying power, loses no more at its stop than the configured share
\* of the equity, and a long that could be protected is (src/risk.py, size_order,
\* bracket_prices, unprotectable_entry), at every price, equity and volatility.
THEOREM EntriesAreSafe == SizeSpec => []EntriesSafe
<1>1. SizeInit => SizeInv
  BY SizeAssumption DEF SizeInit, SizeInv, Setting
<1>2. SizeInv /\ [SizeNext]_sizing => SizeInv'
  BY SizeStep
<1>3. SizeInv => EntriesSafe
  BY EntryIsSafe DEF EntriesSafe, SizedSafely, NeverNaked
<1> QED BY <1>1, <1>2, <1>3, PTL DEF SizeSpec

-----------------------------------------------------------------------------
(* The judge.                                                              *)

\* What a review says and where it comes from: a usable reply is passed on, its
\* scale clamped, and anything else is an approval nobody is credited with.
Honest(r, reply) ==
  /\ r.verdict \in {"approve", "downsize", "veto"} /\ r.scale \in {0, 1, 2, NaN}
  /\ r.judged => reply # Nothing /\ Usable(reply) /\ r.verdict = reply.verdict
                 /\ ~r.degraded /\ ~r.block
  /\ ~r.judged => r.verdict = "approve" /\ r.scale = 2 /\ (reply = Nothing \/ ~Usable(reply))
  /\ r.block => llm.on_unavailable = "block"
  /\ r.judged \in BOOLEAN /\ r.degraded \in BOOLEAN /\ r.block \in BOOLEAN

LEMMA ReviewIsHonest ==
  ASSUME llm \in Models, NEW a \in Answers,
         NEW reply, reply = IF llm.enabled /\ _key_present /\ Answered(a) THEN a.reply ELSE Nothing
  PROVE  Honest(review_signal(a), reply)
<1> USE CallAssumption
<1>1. /\ llm.enabled \in BOOLEAN /\ _key_present \in BOOLEAN /\ Answered(a) \in BOOLEAN
      /\ a.message \in BOOLEAN /\ a.reply \in [verdict : STRING, scale : Int]
  BY DEF Answers, Answered, _key_present, needs_key
<1>3. ASSUME NEW reason, NEW message \in BOOLEAN
      PROVE  Honest(Unavailable(reason, message), Nothing)
  BY DEF Honest, Unavailable, Fallback, unavailable_policy
<1>4. Honest(Off, Nothing)
  BY DEF Honest, Off, Fallback
<1>5. ASSUME NEW r \in [verdict : STRING, scale : Int] PROVE Honest(Parsed(r), r)
  <2>1. CASE Usable(r)
    <3>1. _clamp_scale(r.scale) \in {0, 1, 2, NaN}
      BY DEF _clamp_scale, Clamped
    <3>2. r # Nothing
      <4>1. DOMAIN r = {"verdict", "scale"} /\ DOMAIN Nothing = {"none"}
        BY DEF Nothing
      <4> QED BY <4>1
    <3>3. Parsed(r) = [verdict |-> r.verdict, scale |-> _clamp_scale(r.scale), degraded |-> FALSE,
                       reason |-> "", block |-> FALSE, prompt |-> Prompt, judged |-> TRUE]
      BY <2>1 DEF Parsed
    <3>4. r.verdict \in {"approve", "downsize", "veto"}
      BY <2>1 DEF Usable
    <3>5. PICK h, v, c : h = Parsed(r) /\ v = r.verdict /\ c = _clamp_scale(r.scale)
      OBVIOUS
    <3>6. h = [verdict |-> v, scale |-> c, degraded |-> FALSE, reason |-> "", block |-> FALSE,
               prompt |-> Prompt, judged |-> TRUE]
      BY <3>3, <3>5
    <3>7. h.verdict = v /\ h.scale = c /\ h.judged = TRUE /\ h.degraded = FALSE /\ h.block = FALSE
      BY <3>6
    <3> QED BY <2>1, <3>1, <3>2, <3>4, <3>5, <3>7, Zenon DEF Honest
  <2>2. CASE ~ Usable(r)
    BY <2>2 DEF Parsed, Honest, Unavailable, Fallback, unavailable_policy
  <2> QED BY <2>1, <2>2
<1>6. CASE ~ llm.enabled
  BY <1>4, <1>6 DEF review_signal
<1>7. CASE llm.enabled /\ ~ _key_present
  BY <1>3, <1>7 DEF review_signal
<1>8. CASE llm.enabled /\ _key_present /\ ~ Answered(a)
  BY <1>1, <1>3, <1>8 DEF review_signal
<1>9. CASE llm.enabled /\ _key_present /\ Answered(a)
  BY <1>1, <1>5, <1>9 DEF review_signal
<1> QED BY <1>1, <1>6, <1>7, <1>8, <1>9

\* A decision is taken on the review of its own request, and its shadows saw
\* the prompt of that review.
CallInv ==
  /\ llm \in Models
  /\ step \in {"idle", "review", "shadow", "dead"}
  /\ step \in {"review", "shadow"} =>
       outcome = Nothing /\ request \in [action : Entries \cup Exits, full : Entered]
  /\ step = "review" => shadows = {}
  /\ \A row \in shadows : row.prompt = review.prompt
  /\ step = "shadow" => Honest(review, answered)
  /\ step \in {"idle", "dead"} /\ Decided => JudgeOnlyShrinks /\ CreditWhereDue /\ outcome.prompt = review.prompt

LEMMA DecidesWell ==
  ASSUME CallInv, Decide
  PROVE  (JudgeOnlyShrinks /\ CreditWhereDue)' /\ outcome'.prompt = review.prompt
<1>1. /\ Honest(review, answered) /\ UNCHANGED <<llm, request, review, answered>>
      /\ request.action \in Entries \cup Exits /\ request.full \in Nat
  BY CallAssumption DEF Decide, CallInv
<1>2. Entries \cap Exits = {}
  BY DEF Entries, Exits
<1>3. CASE Refused
  <2>1. outcome' = Row("degraded", FALSE, 0)
    BY <1>3 DEF Decide
  <2> QED
    BY <1>1, <1>2, <1>3, <2>1 DEF Row, Refused, Honest, JudgeOnlyShrinks, CreditWhereDue
<1>4. CASE ~ Refused /\ review.verdict = "veto"
  <2>1. outcome' = Row("llm", FALSE, 0)
    BY <1>4 DEF Decide
  <2>2. review.judged
    BY <1>1, <1>4 DEF Honest
  <2> QED
    BY <1>1, <1>2, <1>4, <2>1, <2>2 DEF Row, Honest, JudgeOnlyShrinks, CreditWhereDue
<1>5. CASE ~ Refused /\ review.verdict # "veto" /\ request.action \in Exits
  <2>1. outcome' = Row("none", TRUE, request.full)
    BY <1>5 DEF Decide
  <2> QED
    BY <1>1, <1>2, <1>5, <2>1 DEF Row, JudgeOnlyShrinks, CreditWhereDue
<1>6. CASE ~ Refused /\ review.verdict # "veto" /\ request.action \notin Exits
  <2>1. CASE review.scale = NaN
    <3>1. outcome' = Row("none", FALSE, 0)
      BY <1>6, <2>1 DEF Decide
    <3> QED
      BY <1>1, <1>2, <1>6, <3>1 DEF Row, JudgeOnlyShrinks, CreditWhereDue
  <2>2. CASE review.scale # NaN
    <3>0. PICK k \in 0 .. 2, n \in Nat : k = review.scale /\ n = request.full
      BY <1>1, <2>2 DEF Honest
    <3>1. PICK q : k = review.scale /\ n = request.full /\ q = (n * k) \div 2
      BY <3>0
    <3>2. q \in 0 .. n
      <4>1. n * k \in Nat /\ n * k <= n * 2
        OBVIOUS
      <4>2. (n * k) \div 2 \in 0 .. n
        BY <4>1
      <4> QED BY <3>1, <4>2
    <3>3. outcome' = IF q = 0 THEN Row("rails", FALSE, 0)
                     ELSE Row(IF is_fallback_review(review) THEN "degraded" ELSE "llm", TRUE, q)
      BY <1>6, <2>2, <3>1 DEF Decide
    <3>4. CASE q = 0
      <4>1. outcome' = Row("rails", FALSE, 0)
        BY <3>3, <3>4
      <4> QED
        BY <1>1, <1>2, <1>6, <4>1 DEF Row, JudgeOnlyShrinks, CreditWhereDue
    <3>5. CASE q # 0 /\ is_fallback_review(review)
      <4>1. outcome' = Row("degraded", TRUE, q) /\ ~review.judged
        BY <1>1, <3>3, <3>5 DEF is_fallback_review, Honest
      <4> QED
        BY <1>1, <1>2, <1>6, <3>1, <3>2, <4>1 DEF Row, Honest, JudgeOnlyShrinks, CreditWhereDue
    <3>6. CASE q # 0 /\ ~ is_fallback_review(review)
      <4>1. outcome' = Row("llm", TRUE, q) /\ review.judged
        BY <1>1, <3>3, <3>6 DEF is_fallback_review, Honest
      <4> QED
        BY <1>1, <1>2, <1>6, <3>1, <3>2, <4>1 DEF Row, Honest, JudgeOnlyShrinks, CreditWhereDue
    <3> QED BY <3>4, <3>5, <3>6
  <2> QED BY <2>1, <2>2
<1>7. outcome'.prompt = review.prompt
  BY DEF Decide, Row
<1> QED BY <1>3, <1>4, <1>5, <1>6, <1>7

LEMMA CallStep ==
  ASSUME CallInv, [CallNext]_judge
  PROVE  CallInv'
<1>1. ASSUME NEW action \in Entries \cup Exits, NEW size \in Entered, Ask(action, size) PROVE CallInv'
  BY <1>1 DEF Ask, CallInv, Decided
<1>2. ASSUME NEW a \in Answers, Review(a) PROVE CallInv'
  <2>1. PICK reply : reply = answered'
    OBVIOUS
  <2>2. Honest(review_signal(a), reply)
    BY <1>2, <2>1, ReviewIsHonest DEF Review, CallInv
  <2>3. Honest(review, answered)'
    BY <1>2, <2>1, <2>2 DEF Review, Honest
  <2> QED BY <1>2, <2>3 DEF Review, CallInv
<1>3. ASSUME NEW ok \in BOOLEAN, NEW written \in BOOLEAN, Shadow(ok, written) PROVE CallInv'
  <2>1. Honest(review, answered)' /\ \A row \in shadows' : row.prompt = review.prompt
    BY <1>3 DEF Shadow, CallInv, Honest
  <2> QED BY <1>3, <2>1 DEF Shadow, CallInv
<1>4. CASE Decide
  BY <1>4, DecidesWell DEF Decide, CallInv
<1>5. CASE NextCycle
  BY <1>5 DEF NextCycle, CallInv, Decided, JudgeOnlyShrinks, CreditWhereDue
<1>6. CASE UNCHANGED judge
  BY <1>6 DEF judge, CallInv, Decided, JudgeOnlyShrinks, CreditWhereDue, Honest
<1> QED BY <1>1, <1>2, <1>3, <1>4, <1>5, <1>6 DEF CallNext

\* The judge only shrinks an entry, is credited with its own answers, and its
\* shadows join the decision (src/llm.py, review_signal; src/main.py, the judge in
\* _run_cycle), for every configuration, reply and size.
THEOREM JudgeIsKept == CallSpec => []JudgeKept
<1>1. CallInit => CallInv
  BY DEF CallInit, CallInv, Decided
<1>2. CallInv /\ [CallNext]_judge => CallInv'
  BY CallStep
<1>3. CallInv => JudgeKept
  BY DEF CallInv, JudgeKept, JudgeOnlyShrinks, CreditWhereDue, ShadowsJoin, Decided
<1> QED BY <1>1, <1>2, <1>3, PTL DEF CallSpec

-----------------------------------------------------------------------------
(* The scan of swing_sectors: once a day.                                  *)

\* An order of today has used up its client order id.
IdSpent ==
  /\ orders \in [Armable -> {0, 1}]
  /\ \A s \in Armable : orders[s] = 1 => coid(s) \in coids

LEMMA OrderCounted ==
  ASSUME IdSpent, NEW s, coid(s) \notin coids, Accept(s, coid(s)), day' = day
  PROVE  IdSpent'
<1>1. s \in Armable => orders[s] = 0
  BY DEF IdSpent
<1>2. orders' = [orders EXCEPT ![s] = orders[s] + 1] /\ orders \in [Armable -> {0, 1}]
  BY DEF Accept, IdSpent
<1>3. orders' \in [Armable -> {0, 1}]
  <2>1. CASE s \in Armable
    <3>1. orders[s] + 1 = 1
      BY <1>1, <2>1
    <3> QED BY <1>2, <3>1
  <2>2. CASE s \notin Armable
    <3>1. orders' = orders
      BY <1>2, <2>2
    <3> QED BY <1>2, <3>1
  <2> QED BY <2>1, <2>2
<1>4. \A t \in Armable : t # s => orders'[t] = orders[t]
  BY <1>2
<1> QED BY <1>3, <1>4 DEF Accept, IdSpent, coid

\* No symbol is entered twice on a day by the scan and the cycle together
\* (src/swing_scan.py, the client order id of an entry).
THEOREM EnteredOnceADay == SwingSpec => []OnceADay
<1>1. SwingInit => IdSpent
  BY DEF SwingInit, IdSpent
<1>2. ASSUME IdSpent, [SwingNext]_swing PROVE IdSpent'
  <2>1. ASSUME UNCHANGED <<orders, coids, day>> PROVE IdSpent'
    BY <1>2, <2>1 DEF IdSpent, coid
  <2>2. CASE Submit
    <3>1. CASE UNCHANGED <<orders, coids>>
      BY <2>1, <2>2, <3>1 DEF Submit
    <3>2. CASE coid(Cand.symbol) \notin coids /\ Accept(Cand.symbol, coid(Cand.symbol))
      BY <1>2, <2>2, <3>2, OrderCounted DEF Submit
    <3> QED BY <2>2, <3>1, <3>2 DEF Submit, ghosts
  <2>3. ASSUME NEW s \in Armable, CycleEnters(s) PROVE IdSpent'
    BY <1>2, <2>3, OrderCounted DEF CycleEnters
  <2>4. CASE NextDay
    BY <2>4 DEF NextDay, IdSpent
  <2>5. CASE UNCHANGED swing
    BY <2>1, <2>5 DEF swing, ghosts
  <2>6. ASSUME \/ Boot \/ Fetch \/ Quote \/ Quoted \/ Judged \/ Rails \/ Drift \/ record_trade
               \/ Record \/ Crash \/ OperatorClears
               \/ \E s \in Armable : StopFilled(s)
               \/ \E mode \in {"exits", "freeze"} : OperatorHalts(mode)
        PROVE  UNCHANGED <<orders, day>> /\ (coids' = coids)
    BY <2>6 DEF Boot, Fetch, Quote, Quoted, Judged, Rails, Drift, record_trade, Record, Crash,
                OperatorClears, StopFilled, OperatorHalts, World, ghosts
  <2> QED BY <1>2, <2>1, <2>2, <2>3, <2>4, <2>5, <2>6 DEF SwingNext
<1>3. IdSpent => OnceADay
  BY DEF IdSpent, OnceADay
<1> QED BY <1>1, <1>2, <1>3, PTL DEF SwingSpec

-----------------------------------------------------------------------------
(* One a pass, and in the ledger.                                          *)

\* An order the pass knows of ends its sending: what is left of the pass is the
\* record of it.
Known == entered \ unheard
Recording == pc \in {"record_trade", "record"}

OneSent ==
  /\ IsFiniteSet(entered)
  /\ \A s, t \in Known : s = t
  /\ pc # "off" /\ ~Recording => Known = {}
  /\ Recording => Known \subseteq {Cand.symbol}
  /\ pc = "off" => \A s \in Known : <<s, "executed">> \in rows

\* Steps that send nothing and neither end nor begin the recording.
LEMMA NothingSent ==
  ASSUME OneSent, UNCHANGED <<entered, unheard>>, pc # "off", ~Recording,
         pc' \notin {"record_trade", "record"}
  PROVE  OneSent'
BY DEF OneSent, Known, Recording

LEMMA OneSentStep ==
  ASSUME OneSent, [SwingNext]_swing
  PROVE  OneSent'
<1>1. ASSUME UNCHANGED <<entered, unheard, pc, rows, in_zone>> PROVE OneSent'
  BY <1>1 DEF OneSent, Known, Recording, Cand, Decision
<1>2. CASE Boot
  BY <1>2, FS_EmptySet DEF Boot, OneSent, Known, Recording
<1>3. CASE Fetch
  BY <1>3, NothingSent DEF Fetch, Ends, Onward, Goes, ghosts, Recording
<1>4. CASE Quote
  BY <1>4, NothingSent DEF Quote, ghosts, Recording
<1>5. CASE Quoted
  BY <1>5, NothingSent DEF Quoted, Ends, Onward, Goes, ghosts, Recording
<1>6. CASE Judged
  BY <1>6, NothingSent DEF Judged, Refuse, Onward, Goes, ghosts, Recording
<1>7. CASE Rails
  BY <1>7, NothingSent DEF Rails, Refuse, Onward, Goes, ghosts, Recording
<1>8. CASE Drift
  BY <1>8, NothingSent DEF Drift, Refuse, Onward, Goes, ghosts, Recording
<1>9. CASE Submit
  <2>1. pc = "submit" /\ Known = {}
    BY <1>9 DEF Submit, OneSent, Recording
  <2>2. CASE Refuse("order error") /\ UNCHANGED ghosts
    BY <2>1, <2>2, NothingSent DEF Refuse, ghosts, Recording
  <2>3. CASE /\ entered' = entered \cup {Cand.symbol} /\ unheard' = unheard
             /\ Onward("record_trade", {})
    <3>1. Known' \subseteq {Cand.symbol} /\ Cand' = Cand /\ pc' = "record_trade"
      BY <2>1, <2>3 DEF Known, Onward, Goes, Cand
    <3>2. IsFiniteSet(entered')
      BY <2>3, FS_AddElement DEF OneSent
    <3> QED BY <3>1, <3>2 DEF OneSent, Recording
  <2>4. CASE /\ entered' = entered \cup {Cand.symbol} /\ unheard' = unheard \cup {Cand.symbol}
             /\ Refuse("order error")
    <3>1. Known' = {} /\ pc' \in {"off", "review"}
      BY <2>1, <2>4 DEF Known, Refuse
    <3>2. IsFiniteSet(entered')
      BY <2>4, FS_AddElement DEF OneSent
    <3> QED BY <3>1, <3>2 DEF OneSent, Recording
  <2> QED BY <1>9, <2>2, <2>3, <2>4 DEF Submit
<1>10. CASE record_trade
  <2>1. pc' = "record" /\ UNCHANGED <<entered, unheard, in_zone>> /\ Recording
    BY <1>10 DEF record_trade, Onward, Goes, ghosts, Recording
  <2> QED BY <2>1 DEF OneSent, Known, Recording, Cand
<1>11. CASE Record
  <2>1. /\ pc' = "off" /\ UNCHANGED <<entered, unheard>> /\ Recording
        /\ <<Cand.symbol, "executed">> \in rows'
    BY <1>11 DEF Record, ghosts, Recording, Decision
  <2> QED BY <2>1 DEF OneSent, Known, Recording
<1>12. CASE Crash
  <2>1. pc' = "off" /\ entered' = entered /\ Known' = {}
    BY <1>12 DEF Crash, Ends, Onward, Goes, OneSent, Known, Recording
  <2> QED BY <2>1 DEF OneSent, Recording
<1>13. ASSUME NEW s \in Armable, CycleEnters(s) PROVE OneSent'
  BY <1>1, <1>13 DEF CycleEnters, pass
<1>14. ASSUME NEW s \in Armable, StopFilled(s) PROVE OneSent'
  BY <1>1, <1>14 DEF StopFilled, pass, ghosts
<1>15. ASSUME NEW mode \in {"exits", "freeze"}, OperatorHalts(mode) PROVE OneSent'
  BY <1>1, <1>15 DEF OperatorHalts, pass
<1>16. CASE OperatorClears
  BY <1>1, <1>16 DEF OperatorClears, pass, ghosts
<1>17. CASE NextDay
  BY <1>17, FS_EmptySet DEF NextDay, pass, OneSent, Known, Recording
<1>18. CASE UNCHANGED swing
  BY <1>1, <1>18 DEF swing, pass, ghosts
<1> QED
  BY <1>2, <1>3, <1>4, <1>5, <1>6, <1>7, <1>8, <1>9, <1>10, <1>11, <1>12, <1>13, <1>14, <1>15,
     <1>16, <1>17, <1>18 DEF SwingNext

LEMMA OneSentHolds == SwingSpec => []OneSent
<1>1. SwingInit => OneSent
  BY FS_EmptySet DEF SwingInit, OneSent, Known, Recording
<1>2. OneSent /\ [SwingNext]_swing => OneSent'
  BY OneSentStep
<1> QED BY <1>1, <1>2, PTL DEF SwingSpec

\* A pass sends one order, and one more for every reply it lost
\* (src/swing_scan.py, the loop over the candidates).
THEOREM OneEntryAPass == SwingSpec => []OneAPass
<1>1. ASSUME OneSent PROVE OneAPass
  <2>1. IsFiniteSet(entered) /\ (\A s, t \in Known : s = t)
    BY <1>1 DEF OneSent
  <2>2. IsFiniteSet(entered \cap unheard) /\ Cardinality(entered \cap unheard) \in Nat
    BY <2>1, FS_Subset, FS_CardinalityType
  <2>3. CASE Known = {}
    <3>1. entered = entered \cap unheard
      BY <2>3 DEF Known
    <3>2. PICK n \in Nat : n = Cardinality(entered \cap unheard) /\ n = Cardinality(entered)
      BY <2>2, <3>1
    <3> QED BY <3>2 DEF OneAPass
  <2>4. CASE Known # {}
    <3>1. PICK s \in Known : Known = {s}
      BY <2>1, <2>4
    <3>2. entered = (entered \cap unheard) \cup {s} /\ s \notin entered \cap unheard
      BY <3>1 DEF Known
    <3>3. Cardinality(entered) = Cardinality(entered \cap unheard) + 1
      BY <2>2, <3>2, FS_AddElement
    <3>4. PICK n \in Nat : n = Cardinality(entered \cap unheard) /\ n + 1 = Cardinality(entered)
      BY <2>2, <3>3
    <3> QED BY <3>4 DEF OneAPass
  <2> QED BY <2>3, <2>4
<1> QED BY <1>1, OneSentHolds, PTL

\* What the broker accepted is in the ledger once the pass is over, but for lost
\* replies and kills (src/swing_scan.py, the record of an execution).
THEOREM EntriesAreRecorded == SwingSpec => []Recorded
<1>1. OneSent => Recorded
  BY DEF OneSent, Known, Recorded
<1> QED BY <1>1, OneSentHolds, PTL

-----------------------------------------------------------------------------
(* Halts.                                                                  *)

\* Before an order is sent under a halt its rails had passed without it.
Passed ==
  /\ defied \in {0, 1}
  /\ pc \in {"drift", "submit"} /\ halt # "none" => defied = 0

\* After the operator halts the scan sends at most one order
\* (src/swing_scan.py; src/risk.py, the HALT check of pre_trade_checks).
THEOREM HaltIsHeeded == SwingSpec => []HaltHeeded
<1>1. SwingInit => Passed
  BY DEF SwingInit, Passed
<1>2. ASSUME Passed, [SwingNext]_swing PROVE Passed'
  <2>1. ASSUME UNCHANGED <<defied, halt>>, pc' = pc \/ pc' \notin {"drift", "submit"} PROVE Passed'
    BY <1>2, <2>1 DEF Passed
  <2>2. CASE Boot
    BY <2>1, <2>2 DEF Boot
  <2>3. CASE Fetch
    BY <2>1, <2>3 DEF Fetch, Ends, Onward, Goes, World, ghosts
  <2>4. CASE Quote
    BY <2>1, <2>4 DEF Quote, World, ghosts
  <2>5. CASE Quoted
    BY <2>1, <2>5 DEF Quoted, Ends, Onward, Goes, World, ghosts
  <2>6. CASE Judged
    BY <2>1, <2>6 DEF Judged, Refuse, Onward, Goes, World, ghosts
  <2>7. CASE Rails
    <3>1. CASE Refuse("rails_reject")
      BY <2>1, <2>7, <3>1 DEF Rails, Refuse, World, ghosts
    <3>2. CASE MayTrade /\ Onward("drift", {})
      BY <1>2, <2>7, <3>2 DEF Rails, MayTrade, World, ghosts, Passed
    <3> QED BY <2>7, <3>1, <3>2 DEF Rails
  <2>8. CASE Drift
    <3>1. pc = "drift" /\ UNCHANGED <<defied, halt>>
      BY <2>8 DEF Drift, World, ghosts
    <3> QED BY <1>2, <3>1 DEF Passed
  <2>9. CASE Submit
    <3>1. pc = "submit" /\ halt' = halt
      BY <2>9 DEF Submit
    <3>2. CASE Refuse("order error") /\ UNCHANGED ghosts
      BY <2>1, <3>1, <3>2 DEF Refuse, ghosts
    <3>3. CASE /\ defied' = IF halt = "none" THEN defied ELSE defied + 1
               /\ Onward("record_trade", {}) \/ Refuse("order error")
      <4>1. defied' \in {0, 1}
        <5>1. defied \in {0, 1} /\ (halt # "none" => defied = 0)
          BY <1>2, <3>1 DEF Passed
        <5>2. defied' = IF halt = "none" THEN defied ELSE defied + 1
          BY <3>3
        <5> QED BY <5>1, <5>2
      <4> QED BY <3>3, <4>1 DEF Onward, Goes, Refuse, Passed
    <3> QED BY <2>9, <3>2, <3>3 DEF Submit
  <2>10. CASE record_trade
    BY <2>1, <2>10 DEF record_trade, Onward, Goes, ghosts
  <2>11. CASE Record
    BY <2>1, <2>11 DEF Record, World, ghosts
  <2>12. CASE Crash
    BY <2>1, <2>12 DEF Crash, Ends, Onward, Goes, World
  <2>13. ASSUME NEW s \in Armable, CycleEnters(s) PROVE Passed'
    BY <2>1, <2>13 DEF CycleEnters, pass
  <2>14. ASSUME NEW s \in Armable, StopFilled(s) PROVE Passed'
    BY <2>1, <2>14 DEF StopFilled, pass, ghosts
  <2>15. ASSUME NEW mode \in {"exits", "freeze"}, OperatorHalts(mode) PROVE Passed'
    BY <2>15 DEF OperatorHalts, Passed
  <2>16. CASE OperatorClears
    BY <1>2, <2>16 DEF OperatorClears, ghosts, Passed
  <2>17. CASE NextDay
    BY <2>1, <2>17 DEF NextDay, pass
  <2>18. CASE UNCHANGED swing
    BY <2>1, <2>18 DEF swing, pass, ghosts
  <2> QED
    BY <1>2, <2>2, <2>3, <2>4, <2>5, <2>6, <2>7, <2>8, <2>9, <2>10, <2>11, <2>12, <2>13, <2>14,
       <2>15, <2>16, <2>17, <2>18 DEF SwingNext
<1>3. Passed => HaltHeeded
  BY DEF Passed, HaltHeeded
<1> QED BY <1>1, <1>2, <1>3, PTL DEF SwingSpec

-----------------------------------------------------------------------------
(* The cap.                                                                *)

Sending == {"fetch", "quote", "review", "rails", "drift", "submit"}

\* Undisturbed, a pass has seen all that is held, and its rails left room.
Room ==
  /\ IsFiniteSet(held) /\ IsFiniteSet(believed)
  /\ ~beside /\ faults = 0 =>
       /\ Cardinality(held) <= MaxOpen
       /\ pc \in Sending => held \subseteq believed
       /\ pc \in {"drift", "submit"} => Cardinality(believed) < MaxOpen
  /\ faults \in Nat /\ beside \in BOOLEAN

LEMMA RoomStep ==
  ASSUME MaxOpen \in Nat, Room, [SwingNext]_swing
  PROVE  Room'
<1>1. ASSUME UNCHANGED <<held, believed, beside>>, faults' \in Nat, faults' = 0 => faults = 0,
             pc' \in Sending => pc \in Sending,
             pc' \in {"drift", "submit"} => pc \in {"drift", "submit"}
      PROVE  Room'
  BY <1>1 DEF Room
<1> USE DEF Sending
<1>2. CASE Boot
  <2>1. UNCHANGED <<held, beside, faults>> /\ pc = "off" /\ believed' \in {believed, held}
        /\ pc' \notin {"drift", "submit"} /\ (pc' \in Sending => believed' = held)
    BY <1>2 DEF Boot
  <2> QED BY <2>1 DEF Room
<1>3. CASE Fetch
  BY <1>1, <1>3 DEF Fetch, Ends, Onward, Goes, World, ghosts, Room
<1>4. CASE Quote
  BY <1>1, <1>4 DEF Quote, World, ghosts, Room
<1>5. CASE Quoted
  BY <1>1, <1>5 DEF Quoted, Ends, Onward, Goes, World, ghosts, Room
<1>6. CASE Judged
  BY <1>1, <1>6 DEF Judged, Refuse, Onward, Goes, World, ghosts, Room
<1>7. CASE Rails
  <2>1. CASE Refuse("rails_reject")
    BY <1>1, <1>7, <2>1 DEF Rails, Refuse, World, ghosts, Room
  <2>2. CASE MayTrade /\ Onward("drift", {})
    BY <1>7, <2>2 DEF Rails, MayTrade, Onward, Goes, World, ghosts, Room
  <2> QED BY <1>7, <2>1, <2>2 DEF Rails
<1>8. CASE Drift
  BY <1>1, <1>8 DEF Drift, Refuse, Onward, Goes, World, ghosts, Room
<1>9. CASE Submit
  <2>1. pc = "submit" /\ believed' = believed
    BY <1>9 DEF Submit, Refuse, Onward
  <2>2. CASE Refuse("order error") /\ UNCHANGED <<held, faults, ghosts>>
    BY <1>1, <2>1, <2>2 DEF Refuse, ghosts, Room
  <2>3. CASE /\ held' = held \cup {Cand.symbol} /\ pc' = "record_trade"
             /\ beside' = beside /\ faults' = faults
    <3>1. IsFiniteSet(held')
      BY <2>3, FS_AddElement DEF Room
    <3>2. ASSUME ~beside, faults = 0 PROVE Cardinality(held') <= MaxOpen
      <4>1. held \subseteq believed /\ Cardinality(believed) < MaxOpen
        BY <2>1, <3>2 DEF Room
      <4>2. Cardinality(held) \in Nat /\ Cardinality(believed) \in Nat
        BY FS_CardinalityType DEF Room
      <4>3. Cardinality(held) <= Cardinality(believed)
        BY <4>1, FS_Subset DEF Room
      <4>4. Cardinality(held') \in {Cardinality(held), Cardinality(held) + 1}
        BY <2>3, FS_AddElement DEF Room
      <4>5. PICK h \in Nat, v \in Nat : h = Cardinality(held) /\ v = Cardinality(believed)
        BY <4>2
      <4>6. PICK n \in {h, h + 1} : n = Cardinality(held')
        BY <4>4, <4>5
      <4>7. h <= v /\ v < MaxOpen
        BY <4>1, <4>3, <4>5
      <4>8. n <= MaxOpen
        BY <4>5, <4>6, <4>7
      <4> QED BY <4>6, <4>8
    <3> QED BY <2>1, <2>3, <3>1, <3>2 DEF Room
  <2>4. CASE held' = held \cup {Cand.symbol} /\ beside' = beside /\ faults' = faults + 1
    <3>1. IsFiniteSet(held')
      BY <2>4, FS_AddElement DEF Room
    <3>2. faults' \in Nat /\ faults' # 0
      BY <2>4 DEF Room
    <3> QED BY <2>1, <2>4, <3>1, <3>2 DEF Room
  <2> QED BY <1>9, <2>2, <2>3, <2>4 DEF Submit, Accept, Onward, Goes
<1>10. CASE record_trade
  BY <1>1, <1>10 DEF record_trade, Onward, Goes, ghosts, Room
<1>11. CASE Record
  BY <1>1, <1>11 DEF Record, World, ghosts, Room
<1>12. CASE Crash
  BY <1>1, <1>12 DEF Crash, Ends, Onward, Goes, World, Room
<1>13. ASSUME NEW s \in Armable, CycleEnters(s) PROVE Room'
  <2>1. /\ Cardinality(held) < MaxOpen /\ held' = held \cup {s}
        /\ UNCHANGED <<believed, pc, faults>>
        /\ beside' = (beside \/ pc # "off")
    BY <1>13 DEF CycleEnters, Accept, pass
  <2>2. IsFiniteSet(held') /\ Cardinality(held') \in {Cardinality(held), Cardinality(held) + 1}
        /\ Cardinality(held) \in Nat
    BY <2>1, FS_AddElement, FS_CardinalityType DEF Room
  <2>3. Cardinality(held') <= MaxOpen
    BY <2>1, <2>2
  <2>4. ~beside' => pc \notin Sending
    BY <2>1
  <2> QED BY <2>1, <2>2, <2>3, <2>4 DEF Room
<1>14. ASSUME NEW s \in Armable, StopFilled(s) PROVE Room'
  <2>1. held' = held \ {s} /\ UNCHANGED <<believed, pc, faults, beside>>
    BY <1>14 DEF StopFilled, pass, ghosts
  <2>2. /\ IsFiniteSet(held') /\ Cardinality(held') <= Cardinality(held)
        /\ Cardinality(held) \in Nat /\ Cardinality(held') \in Nat
    BY <2>1, FS_Subset, FS_CardinalityType DEF Room
  <2>3. PICK h \in Nat, n \in Nat : h = Cardinality(held) /\ n = Cardinality(held') /\ n <= h
    BY <2>2
  <2>4. h <= MaxOpen => n <= MaxOpen
    BY <2>3
  <2> QED BY <2>1, <2>2, <2>3, <2>4 DEF Room
<1>15. ASSUME NEW mode \in {"exits", "freeze"}, OperatorHalts(mode) PROVE Room'
  BY <1>1, <1>15 DEF OperatorHalts, pass, Room
<1>16. CASE OperatorClears
  BY <1>1, <1>16 DEF OperatorClears, pass, ghosts, Room
<1>17. CASE NextDay
  BY <1>1, <1>17 DEF NextDay, pass, Room
<1>18. CASE UNCHANGED swing
  BY <1>1, <1>18 DEF swing, pass, ghosts, Room
<1> QED
  BY <1>2, <1>3, <1>4, <1>5, <1>6, <1>7, <1>8, <1>9, <1>10, <1>11, <1>12, <1>13, <1>14, <1>15,
     <1>16, <1>17, <1>18 DEF SwingNext

\* The scan exceeds max_open_positions only with what it could not know of: a
\* lost reply, a kill or an entry of the cycle during a pass
\* (src/risk.py, pre_trade_checks).
THEOREM CapIsHeld == SwingSpec => []CapHeld
<1> USE CapAssumption
<1>1. SwingInit => Room
  <2>1. IsFiniteSet({}) /\ Cardinality({}) <= MaxOpen
    BY FS_EmptySet
  <2> SUFFICES ASSUME SwingInit PROVE Room
    OBVIOUS
  <2>2. held = {} /\ believed = {} /\ pc = "off" /\ faults = 0 /\ beside = FALSE
    BY DEF SwingInit
  <2> QED BY <2>1, <2>2 DEF Room, Sending
<1>2. Room /\ [SwingNext]_swing => Room'
  BY RoomStep
<1>3. Room => CapHeld
  BY DEF Room, CapHeld
<1> QED BY <1>1, <1>2, <1>3, PTL DEF SwingSpec

-----------------------------------------------------------------------------
\* Both scans keep what a position and an account may ask of them (src/main.py,
\* the scan of _run_cycle; src/swing_scan.py), for every universe, set of
\* strategies, zone and cap.
THEOREM ScansAreKept == Spec /\ SwingSpec => []ScansKept
BY PositionsAreHeard, EnteredOnceADay, OneEntryAPass, CapIsHeld, EntriesAreRecorded, HaltIsHeeded,
   PTL DEF ScansKept

-----------------------------------------------------------------------------
(* The signals (OpsSignals).                                               *)

Entry == [event : Events, at : Times]

\* Nothing on record is of a later time.
Past ==
  /\ \A i \in DOMAIN ledger : ledger[i].at <= clock
  /\ heartbeat <= clock /\ receipt <= clock

\* A mirror is due at its hour; saved is what was verified since.
SavedTrue ==
  saved <=> receipt # Never /\ \A d \in Weekdays : 5 * d + 2 <= clock => 5 * d + 2 <= receipt

IsTrap(i) == ledger[i].event = "heat_trap_armed"
IsEnd(i)  == ledger[i].event = "cycle_complete"

\* A cycle that runs with a bare position has said so since the last completion.
Arming ==
  cycle \in {"run", "closing"} /\ bare =>
    \E i \in DOMAIN ledger : IsTrap(i) /\ \A k \in DOMAIN ledger : IsEnd(k) => k < i

\* One breach a day, and a record of every alert.
BreachOnce ==
  \A i, j \in DOMAIN ledger :
    /\ ledger[i].event = "slo_breach" /\ ledger[j].event = "slo_breach"
    /\ UtcDay(ledger[i].at) = UtcDay(ledger[j].at)
    => i = j
AlertRecorded ==
  \A d \in DOMAIN alerts :
    /\ alerts[d] \in {0, 1}
    /\ alerts[d] = 1 =>
         \E i \in DOMAIN ledger : ledger[i].event = "deploy_drift" /\ UtcDay(ledger[i].at) = d

SignalsInv ==
  /\ SignalsTypeOK /\ Past /\ (done <=> cycle_completed_today) /\ SavedTrue
  /\ (trapped => heat_trap_armed) /\ Arming /\ BreachOnce /\ AlertRecorded

\* A day has five slots.
LEMMA FiveSlots ==
  ASSUME NEW t \in Nat
  PROVE  /\ EtDay(t) \in Nat /\ 5 * EtDay(t) <= t /\ t < 5 * EtDay(t) + 5
         /\ t % 5 = t - 5 * EtDay(t)
         /\ UtcDay(t) \in Nat /\ 5 * UtcDay(t) <= t + 1 /\ t + 1 < 5 * UtcDay(t) + 5
BY DEF EtDay, UtcDay

\* Only days of the calendar are counted.
LEMMA DaysCounted == SignalsTypeOK => UtcDay(clock) \in DOMAIN alerts
<1> SUFFICES ASSUME SignalsTypeOK PROVE UtcDay(clock) \in DOMAIN alerts
  OBVIOUS
<1>1. PICK c \in Nat : c = clock /\ c <= 5 * Days + 4
  BY SignalsAssumption DEF SignalsTypeOK, Times
<1>2. PICK u \in Nat : u = UtcDay(c) /\ 5 * u <= c + 1
  BY <1>1, FiveSlots
<1>3. u <= Days + 1
  BY <1>1, <1>2, SignalsAssumption
<1> QED BY <1>1, <1>2, <1>3, SignalsAssumption DEF SignalsTypeOK

\* What a step writes comes after what there is, at this time.
Logged(new) ==
  /\ ledger' \in Seq(Entry) /\ clock' = clock
  /\ \A i \in DOMAIN ledger : i \in DOMAIN ledger' /\ ledger'[i] = ledger[i]
  /\ \A i \in DOMAIN ledger' :
       i \notin DOMAIN ledger =>
         ledger'[i].event \in new /\ ledger'[i].at = clock /\ \A k \in DOMAIN ledger : k < i

LEMMA LogsOne ==
  ASSUME SignalsTypeOK, NEW event \in Events, log_event(event), clock' = clock
  PROVE  /\ Logged({event}) /\ Len(ledger') = Len(ledger) + 1
         /\ Len(ledger) + 1 \in DOMAIN ledger' /\ ledger'[Len(ledger) + 1].event = event
         /\ \A i \in DOMAIN ledger' : i \notin DOMAIN ledger => i = Len(ledger) + 1
<1>1. ledger \in Seq(Entry) /\ clock \in Times
  BY DEF SignalsTypeOK, Entry
<1> DEFINE e == [event |-> event, at |-> clock]
<1>2. e \in Entry /\ e.event = event /\ e.at = clock
  BY <1>1 DEF Entry
<1>3. ledger' = Append(ledger, e)
  BY DEF log_event
<1> HIDE DEF e
<1>4. /\ ledger' \in Seq(Entry) /\ Len(ledger') = Len(ledger) + 1
      /\ DOMAIN ledger = 1 .. Len(ledger) /\ DOMAIN ledger' = 1 .. Len(ledger) + 1
      /\ Len(ledger) \in Nat
      /\ \A i \in 1 .. Len(ledger) : ledger'[i] = ledger[i]
      /\ ledger'[Len(ledger) + 1] = e
  BY <1>1, <1>2, <1>3
<1>5. \A i \in DOMAIN ledger' :
        i \notin DOMAIN ledger => i = Len(ledger) + 1 /\ \A k \in DOMAIN ledger : k < i
  BY <1>4
<1> QED BY <1>2, <1>4, <1>5 DEF Logged

\* There was room for one more.
LEMMA RoomForOne ==
  ASSUME SignalsTypeOK, LedgerRoom, Len(ledger') = Len(ledger) + 1
  PROVE  Len(ledger') <= MaxEvents
<1>1. PICK len \in Nat : len = Len(ledger)
  BY DEF SignalsTypeOK
<1>2. PICK most \in Nat : most = MaxEvents
  BY SignalsAssumption
<1>3. len < most
  BY <1>1, <1>2 DEF LedgerRoom
<1>4. len + 1 <= most
  BY <1>3
<1> QED BY <1>1, <1>2, <1>4

\* Time is counted in slots.
LEMMA TimesCounted ==
  /\ Times \subseteq Nat /\ \A t \in Times : t <= 5 * Days + 4
  /\ \A t \in Times \cup {Never} : t \in Int
BY SignalsAssumption DEF Times, Never

\* Nothing is logged.
LEMMA LogsNone ==
  ASSUME SignalsTypeOK, UNCHANGED <<ledger, clock>> PROVE Logged({})
BY DEF SignalsTypeOK, Logged, Entry

\* check_deploy_drift's two records.
LEMMA LogsTwo ==
  ASSUME SignalsTypeOK, clock' = clock,
         ledger' = ledger \o <<[event |-> "degradation", at |-> clock],
                               [event |-> "deploy_drift", at |-> clock]>>
  PROVE  /\ Logged({"degradation", "deploy_drift"})
         /\ \E i \in DOMAIN ledger' : /\ ledger'[i].event = "deploy_drift"
                                      /\ ledger'[i].at = clock
<1> DEFINE d == [event |-> "degradation", at |-> clock]
           e == [event |-> "deploy_drift", at |-> clock]
<1>1. ledger \in Seq(Entry) /\ clock \in Times /\ Len(ledger) \in Nat
  BY DEF SignalsTypeOK, Entry
<1>2. /\ d \in Entry /\ d.event = "degradation" /\ d.at = clock
      /\ e \in Entry /\ e.event = "deploy_drift" /\ e.at = clock
  BY <1>1 DEF Entry, Events
<1>3. ledger' = ledger \o <<d, e>>
  OBVIOUS
<1> HIDE DEF d, e
<1>4. /\ <<d, e>> \in Seq(Entry) /\ Len(<<d, e>>) = 2 /\ <<d, e>>[1] = d /\ <<d, e>>[2] = e
  BY <1>2
<1>5. /\ ledger' \in Seq(Entry) /\ DOMAIN ledger = 1 .. Len(ledger)
      /\ DOMAIN ledger' = 1 .. Len(ledger) + 2
      /\ \A i \in 1 .. Len(ledger) : ledger'[i] = ledger[i]
      /\ ledger'[Len(ledger) + 1] = d /\ ledger'[Len(ledger) + 2] = e
  BY <1>1, <1>2, <1>3, <1>4
<1>6. \A i \in DOMAIN ledger' :
        i \notin DOMAIN ledger =>
          i \in {Len(ledger) + 1, Len(ledger) + 2} /\ \A k \in DOMAIN ledger : k < i
  BY <1>1, <1>5
<1>7. Len(ledger) + 2 \in DOMAIN ledger'
  BY <1>1, <1>5
<1>8. ASSUME NEW i \in DOMAIN ledger', i \notin DOMAIN ledger
      PROVE  /\ ledger'[i].event \in {"degradation", "deploy_drift"} /\ ledger'[i].at = clock
             /\ \A k \in DOMAIN ledger : k < i
  BY <1>2, <1>5, <1>6, <1>8
<1>9. \A i \in DOMAIN ledger : i \in DOMAIN ledger' /\ ledger'[i] = ledger[i]
  BY <1>1, <1>5
<1>10. Logged({"degradation", "deploy_drift"})
  BY <1>5, <1>8, <1>9 DEF Logged
<1> QED BY <1>2, <1>5, <1>7, <1>10

\* What a record says stays said, if what is logged is of other kinds.
LEMMA PastStays ==
  ASSUME SignalsInv, NEW new, Logged(new), heartbeat' \in {heartbeat, clock},
         receipt' \in {receipt, clock}
  PROVE  Past'
BY DEF SignalsInv, SignalsTypeOK, Past, Logged, Times

LEMMA DoneStays ==
  ASSUME SignalsInv, NEW new, Logged(new), "cycle_complete" \notin new
  PROVE  cycle_completed_today' <=> cycle_completed_today
BY DEF cycle_completed_today, Has, Logged

LEMMA TrapStays ==
  ASSUME SignalsInv, NEW new, Logged(new), "cycle_complete" \notin new
  PROVE  heat_trap_armed => heat_trap_armed'
<1>1. \A k \in DOMAIN ledger' : IsEnd(k)' => k \in DOMAIN ledger /\ IsEnd(k)
  BY DEF Logged, IsEnd
<1> QED BY <1>1 DEF heat_trap_armed, Logged, IsEnd

LEMMA ArmingStays ==
  ASSUME SignalsInv, NEW new, Logged(new), "cycle_complete" \notin new, bare' = bare,
         cycle' \in {"run", "closing"} => cycle \in {"run", "closing"}
  PROVE  Arming'
<1>1. \A k \in DOMAIN ledger' : IsEnd(k)' => k \in DOMAIN ledger /\ IsEnd(k)
  BY DEF Logged, IsEnd
<1>2. \A k \in DOMAIN ledger : IsTrap(k) => k \in DOMAIN ledger' /\ IsTrap(k)'
  BY DEF Logged, IsTrap
<1>3. SUFFICES ASSUME cycle' \in {"run", "closing"}, bare'
               PROVE  \E i \in DOMAIN ledger' :
                        IsTrap(i)' /\ \A k \in DOMAIN ledger' : IsEnd(k)' => k < i
  BY DEF Arming
<1>4. PICK i \in DOMAIN ledger : IsTrap(i) /\ \A k \in DOMAIN ledger : IsEnd(k) => k < i
  BY <1>3 DEF SignalsInv, Arming
<1> QED BY <1>1, <1>2, <1>4

LEMMA BreachStays ==
  ASSUME SignalsInv, NEW new, Logged(new), "slo_breach" \notin new
  PROVE  BreachOnce'
<1>1. \A k \in DOMAIN ledger' :
        ledger'[k].event = "slo_breach" => k \in DOMAIN ledger /\ ledger'[k] = ledger[k]
  BY DEF Logged
<1> QED BY <1>1 DEF SignalsInv, BreachOnce

LEMMA AlertStays ==
  ASSUME SignalsInv, NEW new, Logged(new), alerts' = alerts
  PROVE  AlertRecorded'
BY DEF SignalsInv, AlertRecorded, Logged

\* A step that logs nothing but what its cycle reports: everything it does not
\* touch is as it was.
LEMMA ReportKeeps ==
  ASSUME SignalsInv, NEW new \in SUBSET Events, Logged(new), Len(ledger') <= MaxEvents,
         "cycle_complete" \notin new, "slo_breach" \notin new,
         UNCHANGED <<receipt, world, done, saved, trapped, alerts>>,
         heartbeat' \in {heartbeat, clock},
         cycle' \in {"off", "run", "closing", "over", "dead"},
         cycle' \in {"run", "closing"} => cycle \in {"run", "closing"}
  PROVE  SignalsInv'
<1>1. SignalsTypeOK'
  BY DEF SignalsInv, SignalsTypeOK, Logged, Entry, world
<1>2. Past'
  BY PastStays
<1>3. done' <=> cycle_completed_today'
  BY DoneStays DEF SignalsInv
<1>4. SavedTrue'
  BY DEF SignalsInv, SavedTrue, Logged
<1>5. trapped' => heat_trap_armed'
  BY TrapStays DEF SignalsInv
<1>6. Arming'
  BY ArmingStays DEF world
<1>7. BreachOnce' /\ AlertRecorded'
  BY BreachStays, AlertStays
<1> QED BY <1>1, <1>2, <1>3, <1>4, <1>5, <1>6, <1>7 DEF SignalsInv

\* Every step of the cycles, the mirror and time keeps what the signals rest on.
LEMMA SignalsStep == SignalsInv /\ [SignalsNext]_ops => SignalsInv'
<1> SUFFICES ASSUME SignalsInv, [SignalsNext]_ops PROVE SignalsInv'
  OBVIOUS
<1>0. /\ SignalsTypeOK /\ Past /\ (done <=> cycle_completed_today) /\ SavedTrue
      /\ (trapped => heat_trap_armed) /\ Arming /\ BreachOnce /\ AlertRecorded
  BY DEF SignalsInv
<1>a. Len(ledger) \in Nat /\ Len(ledger) <= MaxEvents
  BY <1>0 DEF SignalsTypeOK
<1>1. CASE CycleBegins
  <2>1. /\ cycle' = "run" /\ clock' = clock /\ LedgerRoom
        /\ UNCHANGED <<heartbeat, receipt, bare, drifted, done, saved, trapped, alerts>>
    BY <1>1 DEF CycleBegins, world, hindsight
  <2>2. CASE bare
    <3>1. log_event("heat_trap_armed") /\ "heat_trap_armed" \in Events
      BY <1>1, <2>2 DEF CycleBegins, Events
    <3>2. /\ Logged({"heat_trap_armed"}) /\ Len(ledger') = Len(ledger) + 1
          /\ Len(ledger) + 1 \in DOMAIN ledger'
          /\ ledger'[Len(ledger) + 1].event = "heat_trap_armed"
      BY <1>0, <2>1, <3>1, LogsOne
    <3>a. Len(ledger') <= MaxEvents
      BY <1>0, <2>1, <3>2, RoomForOne
    <3>3. SignalsTypeOK'
      BY <1>0, <2>1, <3>2, <3>a DEF SignalsTypeOK, Logged, Entry
    <3>4. Past' /\ (done' <=> cycle_completed_today') /\ BreachOnce' /\ AlertRecorded'
      BY <1>0, <2>1, <3>2, PastStays, DoneStays, BreachStays, AlertStays
    <3>5. SavedTrue' /\ (trapped' => heat_trap_armed')
      BY <1>0, <2>1, <3>2, TrapStays DEF SavedTrue
    <3>6. Arming'
      <4>1. \A k \in DOMAIN ledger' : IsEnd(k)' => k \in DOMAIN ledger
        BY <3>2 DEF Logged, IsEnd
      <4>2. Len(ledger) + 1 \notin DOMAIN ledger
        BY <1>0, <1>a DEF SignalsTypeOK
      <4>3. \A k \in DOMAIN ledger' : IsEnd(k)' => k < Len(ledger) + 1
        BY <3>2, <4>1, <4>2 DEF Logged
      <4> QED BY <3>2, <4>3 DEF Arming, IsTrap
    <3> QED BY <3>3, <3>4, <3>5, <3>6 DEF SignalsInv
  <2>3. CASE ~bare
    <3>1. UNCHANGED <<ledger, clock>>
      BY <1>1, <2>1, <2>3 DEF CycleBegins
    <3>2. Logged({})
      BY <1>0, <3>1, LogsNone
    <3>3. SignalsTypeOK'
      BY <1>0, <2>1, <3>1 DEF SignalsTypeOK
    <3>4. Past' /\ (done' <=> cycle_completed_today') /\ BreachOnce' /\ AlertRecorded'
      BY <1>0, <2>1, <3>2, PastStays, DoneStays, BreachStays, AlertStays
    <3>5. SavedTrue' /\ (trapped' => heat_trap_armed')
      BY <1>0, <2>1, <3>2, TrapStays DEF SavedTrue
    <3>6. Arming'
      BY <2>1, <2>3 DEF Arming
    <3> QED BY <3>3, <3>4, <3>5, <3>6 DEF SignalsInv
  <2> QED BY <2>2, <2>3
<1>2. CASE Degrades
  <2>1. /\ cycle = "run" /\ log_event("degradation") /\ LedgerRoom
        /\ UNCHANGED <<clock, heartbeat, receipt, cycle, world, done, saved, trapped, alerts>>
    BY <1>2 DEF Degrades, hindsight
  <2>2. "degradation" \in Events /\ {"degradation"} \in SUBSET Events
    BY DEF Events
  <2>3. Logged({"degradation"}) /\ Len(ledger') = Len(ledger) + 1
    BY <1>0, <2>1, <2>2, LogsOne
  <2>4. Len(ledger') <= MaxEvents
    BY <1>0, <2>1, <2>3, RoomForOne
  <2> QED BY <2>1, <2>2, <2>3, <2>4, ReportKeeps
<1>3. CASE check_deploy_drift
  <2>1. /\ cycle = "run" /\ cycle' \in {"closing", "dead"}
        /\ UNCHANGED <<clock, heartbeat, receipt, world, done, saved, trapped>>
    BY <1>3 DEF check_deploy_drift
  <2>2. CASE drifted /\ ~Already
    <3>1. /\ ledger' = ledger \o <<[event |-> "degradation", at |-> clock],
                                   [event |-> "deploy_drift", at |-> clock]>>
          /\ Len(ledger) + 2 <= MaxEvents
      BY <1>3, <2>2 DEF check_deploy_drift
    <3> DEFINE new == {"degradation", "deploy_drift"}
    <3>2. /\ Logged(new)
          /\ \E i \in DOMAIN ledger' :
               ledger'[i].event = "deploy_drift" /\ ledger'[i].at = clock
      BY <1>0, <2>1, <3>1, LogsTwo
    <3>3. Len(ledger') = Len(ledger) + 2 /\ Len(ledger') <= MaxEvents
      <4>1. ledger \in Seq(Entry)
        BY <1>0 DEF SignalsTypeOK, Entry
      <4> QED BY <1>a, <3>1, <4>1
    <3>4. new \in SUBSET Events /\ "cycle_complete" \notin new /\ "slo_breach" \notin new
      BY DEF Events
    <3> HIDE DEF new
    <3>5. CASE alerts' = alerts
      BY <2>1, <3>2, <3>3, <3>4, <3>5, ReportKeeps
    <3>6. CASE alerts' = [alerts EXCEPT ![UtcDay(clock)] = @ + 1]
      <4> DEFINE u == UtcDay(clock)
      <4>1. u \in DOMAIN alerts
        BY <1>0, DaysCounted
      <4>2. ~Has("deploy_drift", UtcDay, clock)
        BY <2>2 DEF Already
      <4>3. alerts[u] = 0
        BY <1>0, <4>1, <4>2 DEF AlertRecorded, Has
      <4>4. /\ alerts'[u] = 1 /\ DOMAIN alerts' = DOMAIN alerts
            /\ \A d \in DOMAIN alerts : d # u => alerts'[d] = alerts[d]
            /\ alerts' \in [0 .. Days + 1 -> Nat]
        BY <1>0, <3>6, <4>1, <4>3 DEF SignalsTypeOK
      <4>5. AlertRecorded'
        <5>1. ASSUME NEW d \in DOMAIN alerts, d # u
              PROVE  /\ alerts'[d] \in {0, 1}
                     /\ alerts'[d] = 1 =>
                          \E i \in DOMAIN ledger' :
                            ledger'[i].event = "deploy_drift" /\ UtcDay(ledger'[i].at) = d
          BY <1>0, <3>2, <4>4, <5>1 DEF AlertRecorded, Logged
        <5>2. \E i \in DOMAIN ledger' :
                ledger'[i].event = "deploy_drift" /\ UtcDay(ledger'[i].at) = u
          BY <3>2
        <5> QED BY <4>4, <5>1, <5>2 DEF AlertRecorded
      <4>6. SignalsTypeOK'
        BY <1>0, <2>1, <3>2, <3>3, <4>4 DEF SignalsTypeOK, Logged, Entry, world
      <4>7. Past' /\ (done' <=> cycle_completed_today') /\ BreachOnce'
        BY <1>0, <2>1, <3>2, <3>4, PastStays, DoneStays, BreachStays
      <4>8. SavedTrue' /\ (trapped' => heat_trap_armed')
        BY <1>0, <2>1, <3>2, <3>4, TrapStays DEF SavedTrue
      <4>9. Arming'
        BY <2>1, <3>2, <3>4, ArmingStays DEF world
      <4> QED BY <4>5, <4>6, <4>7, <4>8, <4>9 DEF SignalsInv
    <3> QED BY <1>3, <2>2, <3>5, <3>6 DEF check_deploy_drift
  <2>3. CASE ~(drifted /\ ~Already)
    <3>1. UNCHANGED <<ledger, alerts>>
      BY <1>3, <2>3 DEF check_deploy_drift
    <3>2. Logged({}) /\ Len(ledger') <= MaxEvents
      BY <1>0, <1>a, <2>1, <3>1, LogsNone
    <3>3. {} \in SUBSET Events
      OBVIOUS
    <3> QED BY <2>1, <3>1, <3>2, <3>3, ReportKeeps
  <2> QED BY <2>2, <2>3
<1>4. CASE Complete
  <2>1. /\ cycle = "closing" /\ cycle' = "over" /\ done' = TRUE /\ trapped' = bare
        /\ log_event("cycle_complete") /\ LedgerRoom
        /\ UNCHANGED <<clock, heartbeat, receipt, bare, drifted, saved, alerts>>
    BY <1>4 DEF Complete, world
  <2>2. "cycle_complete" \in Events
    BY DEF Events
  <2> DEFINE n == Len(ledger) + 1
  <2>3. /\ Logged({"cycle_complete"}) /\ Len(ledger') = n
        /\ n \in DOMAIN ledger' /\ ledger'[n].event = "cycle_complete"
        /\ \A i \in DOMAIN ledger' : i \notin DOMAIN ledger => i = n
    BY <1>0, <2>1, <2>2, LogsOne
  <2>a. Len(ledger') <= MaxEvents
    BY <1>0, <2>1, <2>3, RoomForOne
  <2>4. SignalsTypeOK'
    BY <1>0, <2>1, <2>2, <2>3, <2>a DEF SignalsTypeOK, Logged, Entry
  <2>5. Past' /\ BreachOnce' /\ AlertRecorded'
    BY <1>0, <2>1, <2>3, PastStays, BreachStays, AlertStays
  <2>6. n \notin DOMAIN ledger
    BY <1>0, <1>a DEF SignalsTypeOK
  <2>7. cycle_completed_today'
    BY <2>1, <2>3, <2>6 DEF cycle_completed_today, Has, Logged
  <2>8. SavedTrue' /\ Arming'
    BY <1>0, <2>1 DEF SavedTrue, Arming
  <2>9. trapped' => heat_trap_armed'
    <3>1. SUFFICES ASSUME bare PROVE heat_trap_armed'
      BY <2>1
    <3>2. PICK i \in DOMAIN ledger : IsTrap(i) /\ \A k \in DOMAIN ledger : IsEnd(k) => k < i
      BY <1>0, <2>1, <3>1 DEF Arming
    <3>3. i \in DOMAIN ledger' /\ ledger'[i].event = "heat_trap_armed"
      BY <2>3, <3>2 DEF Logged, IsTrap
    <3>4. ASSUME NEW j \in DOMAIN ledger', NEW k \in DOMAIN ledger', i < j, j < k,
                 ledger'[j].event = "cycle_complete", ledger'[k].event = "cycle_complete"
          PROVE  FALSE
      <4>0. \A x \in DOMAIN ledger' : x \in Nat
        BY <2>4 DEF SignalsTypeOK
      <4>1. j \notin DOMAIN ledger
        <5>1. SUFFICES ASSUME j \in DOMAIN ledger PROVE FALSE
          OBVIOUS
        <5>2. j < i
          BY <2>3, <3>2, <3>4, <5>1 DEF Logged, IsEnd
        <5> QED BY <3>3, <3>4, <4>0, <5>2
      <4>2. k \notin DOMAIN ledger
        <5>1. SUFFICES ASSUME k \in DOMAIN ledger PROVE FALSE
          OBVIOUS
        <5>2. k < i
          BY <2>3, <3>2, <3>4, <5>1 DEF Logged, IsEnd
        <5> QED BY <3>3, <3>4, <4>0, <5>2
      <4>3. j = n /\ k = n
        BY <2>3, <3>4, <4>1, <4>2
      <4> QED BY <3>4, <4>0, <4>3
    <3> QED BY <3>3, <3>4 DEF heat_trap_armed
  <2> QED BY <2>1, <2>4, <2>5, <2>7, <2>8, <2>9 DEF SignalsInv
<1>5. CASE check_degradation_slo
  <2>1. /\ cycle = "over" /\ cycle' = "dead" /\ LedgerRoom
        /\ UNCHANGED <<clock, heartbeat, receipt, world, done, saved, trapped, alerts>>
    BY <1>5 DEF check_degradation_slo, hindsight
  <2>2. CASE UNCHANGED ledger
    <3>1. Logged({}) /\ Len(ledger') <= MaxEvents /\ {} \in SUBSET Events
      BY <1>0, <1>a, <2>1, <2>2, LogsNone
    <3> QED BY <2>1, <3>1, ReportKeeps
  <2>3. CASE ~UNCHANGED ledger
    <3>1. ~Has("slo_breach", UtcDay, clock) /\ log_event("slo_breach")
      BY <1>5, <2>3 DEF check_degradation_slo
    <3>2. "slo_breach" \in Events
      BY DEF Events
    <3> DEFINE n == Len(ledger) + 1
    <3>3. /\ Logged({"slo_breach"}) /\ Len(ledger') = n
          /\ \A i \in DOMAIN ledger' : i \notin DOMAIN ledger => i = n
      BY <1>0, <2>1, <3>1, <3>2, LogsOne
    <3>a. Len(ledger') <= MaxEvents
      BY <1>0, <2>1, <3>3, RoomForOne
    <3>4. SignalsTypeOK'
      BY <1>0, <2>1, <3>3, <3>a DEF SignalsTypeOK, Logged, Entry, world
    <3>5. Past' /\ (done' <=> cycle_completed_today') /\ AlertRecorded'
      BY <1>0, <2>1, <3>3, PastStays, DoneStays, AlertStays
    <3>6. SavedTrue' /\ (trapped' => heat_trap_armed')
      BY <1>0, <2>1, <3>3, TrapStays DEF SavedTrue
    <3>7. Arming'
      BY <2>1 DEF Arming
    <3>8. BreachOnce'
      <4>1. ASSUME NEW i \in DOMAIN ledger', i \in DOMAIN ledger,
                   ledger'[i].event = "slo_breach", UtcDay(ledger'[i].at) = UtcDay(clock)
            PROVE  FALSE
        BY <3>1, <3>3, <4>1 DEF Has, Logged
      <4>2. ASSUME NEW i \in DOMAIN ledger', NEW j \in DOMAIN ledger',
                   ledger'[i].event = "slo_breach", ledger'[j].event = "slo_breach",
                   UtcDay(ledger'[i].at) = UtcDay(ledger'[j].at)
            PROVE  i = j
        <5>1. CASE i \in DOMAIN ledger /\ j \in DOMAIN ledger
          BY <1>0, <3>3, <4>2, <5>1 DEF BreachOnce, Logged
        <5>2. CASE i \notin DOMAIN ledger /\ j \notin DOMAIN ledger
          BY <3>3, <5>2
        <5>3. CASE i \in DOMAIN ledger /\ j \notin DOMAIN ledger
          BY <3>3, <4>1, <4>2, <5>3 DEF Logged
        <5>4. CASE i \notin DOMAIN ledger /\ j \in DOMAIN ledger
          BY <3>3, <4>1, <4>2, <5>4 DEF Logged
        <5> QED BY <5>1, <5>2, <5>3, <5>4
      <4> QED BY <4>2 DEF BreachOnce
    <3> QED BY <3>4, <3>5, <3>6, <3>7, <3>8 DEF SignalsInv
  <2> QED BY <2>2, <2>3
<1>6. CASE Die \/ write_heartbeat
  <2>1. /\ cycle' \in {"dead", "off"} /\ heartbeat' \in {heartbeat, clock}
        /\ UNCHANGED <<clock, ledger, receipt, world, done, saved, trapped, alerts>>
    BY <1>6 DEF Die, write_heartbeat, hindsight
  <2>2. Logged({}) /\ Len(ledger') <= MaxEvents /\ {} \in SUBSET Events
    BY <1>0, <1>a, <2>1, LogsNone
  <2> QED BY <2>1, <2>2, ReportKeeps
<1>7. CASE Mirror
  <2>1. /\ receipt' = clock /\ saved' = TRUE
        /\ UNCHANGED <<clock, ledger, heartbeat, cycle, bare, drifted, done, trapped, alerts>>
    BY <1>7 DEF Mirror, world
  <2>2. SignalsTypeOK'
    BY <1>0, <2>1 DEF SignalsTypeOK
  <2>3. Logged({})
    BY <1>0, <2>1, LogsNone
  <2>4. /\ Past' /\ (done' <=> cycle_completed_today') /\ BreachOnce' /\ AlertRecorded'
        /\ (trapped' => heat_trap_armed')
    BY <1>0, <2>1, <2>3, PastStays, DoneStays, BreachStays, AlertStays, TrapStays
  <2>5. Arming'
    BY <2>1, <2>3, ArmingStays
  <2>6. SavedTrue'
    <3>1. clock \in Nat /\ clock # Never
      BY <1>0, SignalsAssumption DEF SignalsTypeOK, Times, Never
    <3> QED BY <2>1, <3>1 DEF SavedTrue
  <2> QED BY <2>2, <2>4, <2>5, <2>6 DEF SignalsInv
<1>8. CASE Changes
  <2>1. /\ cycle = "off" /\ bare' \in BOOLEAN /\ drifted' \in BOOLEAN
        /\ UNCHANGED <<clock, ledger, heartbeat, receipt, cycle, done, saved, trapped, alerts>>
    BY <1>0, <1>8 DEF Changes, hindsight, SignalsTypeOK
  <2>2. SignalsTypeOK'
    BY <1>0, <2>1 DEF SignalsTypeOK
  <2>3. Logged({})
    BY <1>0, <2>1, LogsNone
  <2>4. /\ Past' /\ (done' <=> cycle_completed_today') /\ BreachOnce' /\ AlertRecorded'
        /\ (trapped' => heat_trap_armed')
    BY <1>0, <2>1, <2>3, PastStays, DoneStays, BreachStays, AlertStays, TrapStays
  <2>5. Arming' /\ SavedTrue'
    BY <1>0, <2>1 DEF Arming, SavedTrue
  <2> QED BY <2>2, <2>4, <2>5 DEF SignalsInv
<1>9. CASE Tick
  <2>1. /\ cycle = "off" /\ clock < 5 * Days + 4 /\ clock' = clock + 1
        /\ done' = (done /\ EtDay(clock + 1) = EtDay(clock))
        /\ saved' = (saved /\ ~(Weekday(clock + 1) /\ (clock + 1) % 5 = 2))
        /\ UNCHANGED <<ledger, heartbeat, receipt, cycle, bare, drifted, trapped, alerts>>
    BY <1>9 DEF Tick, world
  <2>2. PICK c \in Nat : c = clock /\ c <= 5 * Days + 4
    BY <1>0, SignalsAssumption DEF SignalsTypeOK, Times
  <2>b. \A i \in DOMAIN ledger : ledger[i].at \in Nat /\ ledger[i].at <= clock
    <3>0. ledger \in Seq(Entry)
      BY <1>0 DEF SignalsTypeOK, Entry
    <3>1. \A i \in DOMAIN ledger : ledger[i] \in Entry
      BY <3>0
    <3>2. \A i \in DOMAIN ledger : ledger[i].at \in Nat
      BY <3>1, TimesCounted DEF Entry
    <3> QED BY <1>0, <3>2 DEF Past
  <2>3. c + 1 \in Times /\ c + 1 \in Nat
    BY <2>1, <2>2, SignalsAssumption DEF Times
  <2>4. SignalsTypeOK'
    BY <1>0, <2>1, <2>2, <2>3 DEF SignalsTypeOK
  <2>5. Past'
    <3>1. heartbeat \in Int /\ receipt \in Int /\ heartbeat <= c /\ receipt <= c
      <4>1. heartbeat \in Int /\ receipt \in Int
        BY <1>0, TimesCounted DEF SignalsTypeOK
      <4>2. heartbeat <= clock /\ receipt <= clock
        BY <1>0 DEF Past
      <4> QED BY <2>2, <4>1, <4>2
    <3>2. \A i \in DOMAIN ledger : ledger[i].at \in Nat /\ ledger[i].at <= c
      BY <2>2, <2>b
    <3>3. \A i \in DOMAIN ledger : ledger[i].at <= c + 1
      BY <3>2
    <3>4. heartbeat <= c + 1 /\ receipt <= c + 1
      BY <3>1
    <3> QED BY <2>1, <2>2, <3>3, <3>4 DEF Past
  <2>6. done' <=> cycle_completed_today'
    <3>1. ASSUME NEW i \in DOMAIN ledger, EtDay(c + 1) # EtDay(c)
          PROVE  EtDay(ledger[i].at) # EtDay(c + 1)
      <4>1. PICK a \in Nat : a = ledger[i].at /\ a <= c
        BY <2>2, <2>b
      <4>2. PICK p \in Nat : p = EtDay(a) /\ 5 * p <= a /\ a < 5 * p + 5
        BY FiveSlots
      <4>3. PICK q \in Nat : q = EtDay(c) /\ 5 * q <= c /\ c < 5 * q + 5
        BY FiveSlots
      <4>4. PICK r \in Nat : r = EtDay(c + 1) /\ 5 * r <= c + 1 /\ c + 1 < 5 * r + 5
        BY <2>3, FiveSlots
      <4>5. r # q
        BY <3>1, <4>3, <4>4
      <4>6. q < r /\ p <= q
        BY <4>1, <4>2, <4>3, <4>4, <4>5
      <4> QED BY <4>1, <4>2, <4>4, <4>6
    <3>2. CASE EtDay(c + 1) = EtDay(c)
      BY <1>0, <2>1, <2>2, <3>2 DEF cycle_completed_today, Has
    <3>3. CASE EtDay(c + 1) # EtDay(c)
      BY <2>1, <2>2, <3>1, <3>3 DEF cycle_completed_today, Has
    <3> QED BY <3>2, <3>3
  <2>7. SavedTrue'
    <3>1. PICK v \in Int : v = receipt /\ v <= c
      <4>1. receipt \in Int
        BY <1>0, TimesCounted DEF SignalsTypeOK
      <4>2. receipt <= clock
        BY <1>0 DEF Past
      <4> QED BY <2>2, <4>1, <4>2
    <3>2. PICK e \in Nat : /\ e = EtDay(c + 1) /\ 5 * e <= c + 1 /\ c + 1 < 5 * e + 5
                           /\ (c + 1) % 5 = c + 1 - 5 * e
      <4>1. PICK n \in Nat : n = c + 1
        BY <2>3
      <4>2. /\ EtDay(n) \in Nat /\ 5 * EtDay(n) <= n /\ n < 5 * EtDay(n) + 5
            /\ n % 5 = n - 5 * EtDay(n)
        BY FiveSlots
      <4> QED BY <4>1, <4>2
    <3>3. CASE Weekday(c + 1) /\ (c + 1) % 5 = 2
      <4>1. e \in Weekdays /\ 5 * e + 2 = c + 1
        BY <3>2, <3>3 DEF Weekday
      <4>2. ~(5 * e + 2 <= v)
        BY <3>1, <4>1
      <4>3. 5 * e + 2 <= clock' /\ ~(5 * e + 2 <= receipt')
        BY <2>1, <2>2, <3>1, <4>1, <4>2
      <4>4. ~saved'
        BY <2>1, <2>2, <3>3
      <4> QED BY <4>1, <4>3, <4>4 DEF SavedTrue
    <3>4. CASE ~(Weekday(c + 1) /\ (c + 1) % 5 = 2)
      <4>1. ASSUME NEW d \in Weekdays PROVE 5 * d + 2 <= c + 1 <=> 5 * d + 2 <= c
        <5>1. d \in Nat
          BY SignalsAssumption
        <5>2. 5 * d + 2 # c + 1
          <6>1. SUFFICES ASSUME 5 * d + 2 = c + 1 PROVE FALSE
            OBVIOUS
          <6>2. e = d
            BY <3>2, <5>1, <6>1
          <6>3. (c + 1) % 5 = 2
            BY <3>2, <5>1, <6>1, <6>2
          <6> QED BY <3>2, <3>4, <6>2, <6>3 DEF Weekday
        <5> QED BY <5>1, <5>2
      <4> QED BY <1>0, <2>1, <2>2, <3>4, <4>1 DEF SavedTrue
    <3> QED BY <3>3, <3>4
  <2>8. (trapped' => heat_trap_armed') /\ Arming' /\ BreachOnce' /\ AlertRecorded'
    BY <1>0, <2>1 DEF heat_trap_armed, Arming, BreachOnce, AlertRecorded
  <2> QED BY <2>4, <2>5, <2>6, <2>7, <2>8 DEF SignalsInv
<1>10. CASE UNCHANGED ops
  <2>1. UNCHANGED <<clock, ledger, heartbeat, receipt, cycle, bare, drifted, done, saved, trapped,
                    alerts>>
    BY <1>10 DEF ops, world, hindsight
  <2>2. SignalsTypeOK' /\ Past' /\ SavedTrue'
    BY <1>0, <2>1 DEF SignalsTypeOK, Past, SavedTrue
  <2>3. (done' <=> cycle_completed_today') /\ (trapped' => heat_trap_armed')
    BY <1>0, <2>1 DEF cycle_completed_today, Has, heat_trap_armed
  <2>4. Arming' /\ BreachOnce' /\ AlertRecorded'
    BY <1>0, <2>1 DEF Arming, IsTrap, IsEnd, BreachOnce, AlertRecorded
  <2> QED BY <2>2, <2>3, <2>4 DEF SignalsInv
<1> QED BY <1>1, <1>2, <1>3, <1>4, <1>5, <1>6, <1>7, <1>8, <1>9, <1>10 DEF SignalsNext

\* No slot but the third of a day is the hour of a backup.
LEMMA NoBackupNow ==
  ASSUME NEW c \in Nat, NEW d \in Nat, c % 5 # 2
  PROVE  5 * d + 2 <= c <=> 5 * d + 2 < c
<1>1. PICK e \in Nat : 5 * e <= c /\ c < 5 * e + 5 /\ c % 5 = c - 5 * e
  BY FiveSlots
<1>2. 5 * d + 2 # c
  <2>1. SUFFICES ASSUME 5 * d + 2 = c PROVE FALSE
    OBVIOUS
  <2>2. d = e
    BY <1>1, <2>1
  <2> QED BY <1>1, <2>1, <2>2
<1> QED BY <1>2

\* What the invariant says of the verdict.
LEMMA VerdictFollows == SignalsInv => VerdictTrue
<1> SUFFICES ASSUME SignalsInv PROVE VerdictTrue
  OBVIOUS
<1>0. /\ SignalsTypeOK /\ Past /\ (done <=> cycle_completed_today) /\ SavedTrue
      /\ (trapped => heat_trap_armed)
  BY DEF SignalsInv
<1>1. PICK c \in Nat : c = clock
  BY <1>0, TimesCounted DEF SignalsTypeOK
<1>2. PICK h \in Int : h = heartbeat
  BY <1>0, TimesCounted DEF SignalsTypeOK
<1>3. PICK v \in Int : v = receipt
  BY <1>0, TimesCounted DEF SignalsTypeOK
<1>4. ASSUME cycle_was_due, heartbeat # Never, EtDay(heartbeat) = EtDay(clock)
      PROVE  CycleMissed <=> ~done
  <2>1. h \in Nat
    BY <1>0, <1>2, <1>4, TimesCounted DEF SignalsTypeOK
  <2>2. PICK p \in Nat : p = EtDay(h) /\ 5 * p <= h /\ h < 5 * p + 5
    BY <2>1, FiveSlots
  <2>3. PICK q \in Nat : q = EtDay(c) /\ 5 * q <= c /\ c < 5 * q + 5
    BY FiveSlots
  <2>4. p = q
    BY <1>1, <1>2, <1>4, <2>2, <2>3
  <2>5. ~(c - h > 5)
    BY <2>1, <2>2, <2>3, <2>4
  <2>6. ~Stale
    BY <1>1, <1>2, <2>5 DEF Stale
  <2> QED BY <1>0, <1>4, <2>6 DEF CycleMissed
<1>5. CycleMissed => ~done \/ heartbeat = Never \/ Stale
  BY <1>0 DEF CycleMissed
<1>6. ASSUME clock % 5 # 2, last_backup_due # {}
      PROVE  offhost_mirror_overdue <=> ~saved
  <2>1. \A d \in Weekdays : d \in Nat /\ (5 * d + 2 <= clock <=> 5 * d + 2 < clock)
    BY <1>1, <1>6, NoBackupNow, SignalsAssumption
  <2>2. \A d \in Weekdays : 5 * d + 2 <= receipt <=> ~(receipt < 5 * d + 2)
    <3>1. \A d \in Nat : 5 * d + 2 <= v <=> ~(v < 5 * d + 2)
      OBVIOUS
    <3> QED BY <1>3, <2>1, <3>1
  <2>3. offhost_mirror_overdue <=>
          \E d \in Weekdays : 5 * d + 2 < clock /\ (receipt = Never \/ receipt < 5 * d + 2)
    BY DEF offhost_mirror_overdue, last_backup_due
  <2>4. \E d \in Weekdays : 5 * d + 2 < clock
    BY <1>6 DEF last_backup_due
  <2> QED BY <1>0, <2>1, <2>2, <2>3, <2>4 DEF SavedTrue
<1> QED BY <1>0, <1>4, <1>5, <1>6 DEF VerdictTrue

\* What the invariant says of the alarms.
LEMMA AlarmsFollow == SignalsInv => AlarmsOnce
<1> SUFFICES ASSUME SignalsInv PROVE AlarmsOnce
  OBVIOUS
<1>0. SignalsTypeOK /\ BreachOnce /\ AlertRecorded
  BY DEF SignalsInv
<1> DEFINE of(event, d) ==
      {i \in DOMAIN ledger : ledger[i].event = event /\ UtcDay(ledger[i].at) = d}
<1>1. ASSUME NEW event, NEW d PROVE IsFiniteSet(of(event, d))
  <2>1. DOMAIN ledger = 1 .. Len(ledger) /\ Len(ledger) \in Nat
    BY <1>0 DEF SignalsTypeOK
  <2>2. IsFiniteSet(DOMAIN ledger)
    BY <2>1, FS_Interval
  <2> QED BY <2>2, FS_Subset
<1>2. ASSUME NEW d PROVE Cardinality(of("slo_breach", d)) <= 1
  <2> DEFINE slo == of("slo_breach", d)
  <2>1. \A i, j \in slo : i = j
    BY <1>0 DEF BreachOnce
  <2> HIDE DEF slo
  <2>2. ASSUME slo = {} PROVE Cardinality(slo) <= 1
    <3>1. Cardinality(slo) = 0
      BY <2>2, FS_EmptySet
    <3> QED BY <3>1
  <2>3. ASSUME slo # {} PROVE Cardinality(slo) <= 1
    <3>1. PICK i : slo = {i}
      BY <2>1, <2>3
    <3>2. Cardinality(slo) = 1
      BY <3>1, FS_Singleton
    <3> QED BY <3>2
  <2> QED BY <2>2, <2>3 DEF slo
<1>3. ASSUME NEW d \in DOMAIN alerts
      PROVE  alerts[d] <= 1 /\ alerts[d] <= Cardinality(of("deploy_drift", d))
  <2> DEFINE drift == of("deploy_drift", d)
  <2>1. alerts[d] \in {0, 1} /\ (alerts[d] = 1 => drift # {})
    BY <1>0 DEF AlertRecorded
  <2>2. IsFiniteSet(drift)
    BY <1>1
  <2> HIDE DEF drift
  <2>3. Cardinality(drift) \in Nat /\ (drift # {} => Cardinality(drift) # 0)
    BY <2>2, FS_CardinalityType, FS_EmptySet
  <2>4. PICK n \in Nat : n = Cardinality(drift)
    BY <2>3
  <2>5. alerts[d] <= n /\ alerts[d] <= 1
    BY <2>1, <2>3, <2>4
  <2> QED BY <2>4, <2>5 DEF drift
<1> QED BY <1>2, <1>3 DEF AlarmsOnce

\* At the beginning nothing happened and nothing is on record.
LEMMA SignalsStart == SignalsInit => SignalsInv
<1> SUFFICES ASSUME SignalsInit PROVE SignalsInv
  OBVIOUS
<1>1. /\ clock = 0 /\ ledger = <<>> /\ heartbeat = Never /\ receipt = Never /\ cycle = "off"
      /\ bare = FALSE /\ drifted = FALSE /\ done = FALSE /\ saved = FALSE /\ trapped = FALSE
      /\ alerts = [d \in 0 .. Days + 1 |-> 0]
  BY DEF SignalsInit
<1>2. DOMAIN ledger = {} /\ Len(ledger) = 0
  BY <1>1
<1>3. 0 \in Times /\ Never <= 0 /\ 0 <= MaxEvents
  BY SignalsAssumption DEF Times, Never
<1>4. SignalsTypeOK
  <2>1. <<>> \in Seq(Entry)
    OBVIOUS
  <2>2. ledger \in Seq([event : Events, at : Times])
    BY <1>1, <2>1 DEF Entry
  <2>3. alerts \in [0 .. Days + 1 -> Nat] /\ {bare, drifted, done, saved, trapped} \subseteq BOOLEAN
    BY <1>1
  <2> QED BY <1>1, <1>2, <1>3, <2>2, <2>3 DEF SignalsTypeOK
<1>5. Past /\ Arming /\ BreachOnce /\ ~cycle_completed_today
  BY <1>1, <1>2, <1>3 DEF Past, Arming, BreachOnce, cycle_completed_today, Has
<1>6. SavedTrue /\ AlertRecorded
  BY <1>1 DEF SavedTrue, AlertRecorded
<1> QED BY <1>1, <1>4, <1>5, <1>6 DEF SignalsInv

\* What the operator is told is true, in the evening as over a weekend, and told
\* once, however many cycles of a day run and wherever they die: the verdict on
\* the cycle of the day, on the mirror and on the trap of src/health.py, and the
\* once-a-day alarms of src/main.py, for every calendar of weekdays and limit.
THEOREM SignalsTold == SignalsSpec => []SignalsTrue
<1>1. SignalsInit => SignalsInv
  BY SignalsStart
<1>2. SignalsInv /\ [SignalsNext]_ops => SignalsInv'
  BY SignalsStep
<1>3. SignalsInv => SignalsTrue
  BY VerdictFollows, AlarmsFollow DEF SignalsTrue
<1> QED BY <1>1, <1>2, <1>3, PTL DEF SignalsSpec

-----------------------------------------------------------------------------
(* The preflight (Preflight).                                              *)

\* A configuration is well formed, and one that is traded on was cleared.
PreInv ==
  /\ Pre!Formed(cfg)
  /\ boot = "cycle" => Pre!run(cfg) = {} /\ Pre!run_account_checks(cfg) = {}

\* What an edit may put under a key that is compared.
LEMMA NumbersStay ==
  ASSUME NEW key \in Pre!Numeric PROVE Pre!Values(key) \subseteq Int
<1> USE DEF Pre!REQUIRED_POSITIVE_RISK, Pre!DISABLEABLE_RISK, Pre!OPS
<1>1. {Pre!Absent, Pre!Junk, Pre!Yes} \subseteq Int
  BY DEF Pre!Absent, Pre!Junk, Pre!Yes
<1>2. CASE key = "risk_per_trade_pct"
  BY <1>1, <1>2 DEF Pre!Values
<1>3. CASE key = "max_portfolio_heat_pct"
  BY <1>3 DEF Pre!Values
<1>4. CASE key = "min_universe_fraction"
  BY <1>1, <1>4 DEF Pre!Values
<1>5. CASE key = "max_attempts"
  BY <1>1, <1>5 DEF Pre!Values
<1>6. CASE key = "net_min"
  BY <1>1, <1>6 DEF Pre!Values
<1>9. CASE key = "net_max"
  BY <1>1, <1>9 DEF Pre!Values
<1>7. CASE key = "timeout_seconds"
  BY <1>1, <1>7 DEF Pre!Values
<1>8. CASE key = "max_per_sector"
  BY <1>1, <1>8 DEF Pre!Values
<1> QED BY <1>2, <1>3, <1>4, <1>5, <1>6, <1>7, <1>8, <1>9 DEF Pre!Numeric

LEMMA SwitchesStay ==
  ASSUME NEW key \in Pre!Switches PROVE Pre!Values(key) = BOOLEAN
BY DEF Pre!Switches, Pre!Values, Pre!REQUIRED_POSITIVE_RISK, Pre!DISABLEABLE_RISK, Pre!OPS

LEMMA ListsStay ==
  /\ Pre!Values("sectors") = Pre!Groups /\ Pre!Values("symbols") = {}
  /\ Pre!Values("etfs") = Pre!Lists /\ Pre!Values("sector_etfs") = Pre!Lists
BY DEF Pre!Values, Pre!REQUIRED_POSITIVE_RISK, Pre!DISABLEABLE_RISK, Pre!OPS

\* An edit keeps a configuration well formed.
LEMMA EditsKeepForm ==
  ASSUME Pre!Formed(cfg), NEW key \in DOMAIN cfg, NEW value \in Pre!Values(key),
         cfg' = [cfg EXCEPT ![key] = value]
  PROVE  Pre!Formed(cfg')
<1>1. DOMAIN cfg' = DOMAIN cfg
  OBVIOUS
<1>2. \A k \in DOMAIN cfg : cfg'[k] = IF k = key THEN value ELSE cfg[k]
  OBVIOUS
<1>3. \A k \in Pre!Numeric : k \in DOMAIN cfg /\ cfg[k] \in Int
  BY DEF Pre!Formed
<1>4. \A k \in Pre!Numeric : cfg'[k] \in Int
  BY <1>2, <1>3, NumbersStay
<1>5. \A k \in Pre!Switches : k \in DOMAIN cfg /\ cfg[k] \in BOOLEAN
  BY DEF Pre!Formed
<1>6. \A k \in Pre!Switches : cfg'[k] \in BOOLEAN
  BY <1>2, <1>5, SwitchesStay
<1>7. \A k \in Pre!Worded : k \in DOMAIN cfg /\ cfg[k] \in Pre!Values(k)
  BY DEF Pre!Formed
<1>8. \A k \in Pre!Worded : cfg'[k] \in Pre!Values(k)
  BY <1>2, <1>7
<1>9. /\ {"sectors", "etfs", "sector_etfs", "symbols"} \subseteq DOMAIN cfg
      /\ cfg["sectors"] \in Pre!Groups /\ cfg["etfs"] \in Pre!Lists
      /\ cfg["sector_etfs"] \in Pre!Lists /\ cfg["symbols"] # {}
  BY DEF Pre!Formed
<1>10. /\ cfg'["sectors"] \in Pre!Groups /\ cfg'["etfs"] \in Pre!Lists
       /\ cfg'["sector_etfs"] \in Pre!Lists /\ cfg'["symbols"] # {}
  BY <1>2, <1>9, ListsStay
<1>11. Pre!Numeric \cup Pre!Switches \cup Pre!Worded \cup {"sectors", "etfs", "sector_etfs", "symbols"}
         \subseteq DOMAIN cfg
  BY DEF Pre!Formed
<1> QED BY <1>1, <1>4, <1>6, <1>8, <1>10, <1>11 DEF Pre!Formed

\* Edits happen between cycles, and a cycle begins with the checks.
LEMMA PreStep == PreInv /\ [Pre!Next]_(Pre!pre) => PreInv'
<1> SUFFICES ASSUME PreInv, [Pre!Next]_(Pre!pre) PROVE PreInv'
  OBVIOUS
<1>1. ASSUME NEW key \in DOMAIN cfg, NEW value \in Pre!Values(key), Pre!Edit(key, value)
      PROVE  PreInv'
  <2>1. boot = "off" /\ boot' = boot /\ cfg' = [cfg EXCEPT ![key] = value]
    BY <1>1 DEF Pre!Edit
  <2>2. Pre!Formed(cfg')
    BY <2>1, EditsKeepForm DEF PreInv
  <2> QED BY <2>1, <2>2 DEF PreInv
<1>2. CASE Pre!Boot
  BY <1>2 DEF Pre!Boot, PreInv
<1>3. CASE Pre!Finish
  BY <1>3 DEF Pre!Finish, PreInv
<1>4. CASE UNCHANGED Pre!pre
  BY <1>4 DEF Pre!pre, PreInv
<1> QED BY <1>1, <1>2, <1>3, <1>4 DEF Pre!Next

\* What the checks found nothing against.
LEMMA Cleared ==
  ASSUME Pre!run(cfg) = {}
  PROVE  /\ Pre!risk_numbers(cfg) = {} /\ Pre!interlock(cfg) = {} /\ Pre!heat_trap(cfg) = {}
         /\ Pre!net_band(cfg) = {} /\ Pre!judge(cfg) = {} /\ Pre!sectors(cfg) = {}
         /\ Pre!etfs(cfg) = {} /\ Pre!sector_etfs(cfg) = {} /\ Pre!universe(cfg) = {}
         /\ Pre!concentration(cfg) = {} /\ Pre!_state_path_fails(cfg) = {}
BY DEF Pre!run

\* No reader falls back.
LEMMA ReadersKeep == PreInv => Pre!NoReaderFallsBack
<1> SUFFICES ASSUME PreInv, boot = "cycle" PROVE Pre!NoReaderFallsBack
  BY DEF Pre!NoReaderFallsBack
<1>0. Pre!Formed(cfg) /\ Pre!run(cfg) = {}
  BY DEF PreInv
<1>1. cfg["max_attempts"] # Pre!Absent => Pre!max_attempts(cfg) = cfg["max_attempts"]
  <2>1. Pre!Bad("max_attempts", cfg["max_attempts"] # Pre!Absent
             /\ ~(Pre!IsPlain(cfg["max_attempts"]) /\ cfg["max_attempts"] > 0)) = {}
    BY <1>0, Cleared DEF Pre!risk_numbers
  <2> QED BY <2>1 DEF Pre!Bad, Pre!IsPlain, Pre!max_attempts, Pre!IsNumber, Pre!Number
<1>2. ASSUME cfg["llm_enabled"]
      PROVE  /\ cfg["timeout_seconds"] # Pre!Absent =>
                  Pre!timeout_seconds(cfg) = Pre!Number(cfg["timeout_seconds"])
             /\ cfg["on_unavailable"] # "absent" =>
                  Pre!unavailable_policy(cfg) = cfg["on_unavailable"]
  <2>1. /\ Pre!Bad("on_unavailable", cfg["on_unavailable"] = "other") = {}
        /\ Pre!Bad("timeout_seconds", cfg["timeout_seconds"] # Pre!Absent
             /\ ~(Pre!IsNumber(cfg["timeout_seconds"]) /\ Pre!Number(cfg["timeout_seconds"]) > 0)) = {}
    BY <1>0, <1>2, Cleared DEF Pre!judge
  <2>2. cfg["on_unavailable"] \in {"absent", "approve", "block", "other"}
    BY <1>0 DEF Pre!Formed, Pre!Worded, Pre!Values, Pre!REQUIRED_POSITIVE_RISK,
                Pre!DISABLEABLE_RISK, Pre!OPS
  <2>3. /\ cfg["on_unavailable"] # "other"
        /\ cfg["timeout_seconds"] # Pre!Absent =>
             Pre!IsNumber(cfg["timeout_seconds"]) /\ Pre!Number(cfg["timeout_seconds"]) > 0
    BY <2>1 DEF Pre!Bad
  <2> QED BY <2>2, <2>3 DEF Pre!timeout_seconds, Pre!unavailable_policy
<1>3. cfg["mode"] = "live" <=> Pre!LiveAccount(cfg)
  <2>1. Pre!Bad("interlock", cfg["mode"] = "live" /\ ~cfg["confirmed"]) = {}
    BY <1>0, Cleared DEF Pre!interlock
  <2> QED BY <2>1 DEF Pre!Bad, Pre!LiveAccount
<1>4. cfg["halt_path"] = "default" /\ cfg["heartbeat_path"] = "default"
  <2>1. cfg["halt_path"] # "moved" /\ cfg["heartbeat_path"] # "moved"
    BY <1>0, Cleared DEF Pre!_state_path_fails
  <2>2. {cfg["halt_path"], cfg["heartbeat_path"]} \subseteq {"default", "moved"}
    BY <1>0 DEF Pre!Formed, Pre!Worded, Pre!Values, Pre!REQUIRED_POSITIVE_RISK,
                Pre!DISABLEABLE_RISK, Pre!OPS
  <2> QED BY <2>1, <2>2
<1> QED BY <1>1, <1>2, <1>3, <1>4 DEF Pre!NoReaderFallsBack

\* A list that is not empty names something.
LEMMA ListNames ==
  ASSUME NEW l \in Pre!Lists, l.list # <<>> PROVE Pre!ToSet(l.list) # {}
<1>1. 1 \in DOMAIN l.list
  BY DEF Pre!Lists
<1> QED BY <1>1 DEF Pre!ToSet

\* A configuration that is cleared lets some entry through.
LEMMA EntriesPass == PreInv => Pre!NotShutOut
<1> SUFFICES ASSUME PreInv, boot = "cycle" PROVE Pre!NotShutOut
  BY DEF Pre!NotShutOut
<1>0. Pre!Formed(cfg) /\ Pre!run(cfg) = {} /\ Pre!run_account_checks(cfg) = {}
  BY DEF PreInv
<1>a. /\ \A k \in Pre!Numeric : cfg[k] \in Int
      /\ \A k \in Pre!Switches : cfg[k] \in BOOLEAN
      /\ \A k \in Pre!Worded : cfg[k] \in Pre!Values(k)
  BY <1>0 DEF Pre!Formed
<1>1. cfg["llm_enabled"] => Pre!_create(cfg)
  <2>1. SUFFICES ASSUME cfg["llm_enabled"] PROVE Pre!_create(cfg)
    OBVIOUS
  <2>2. /\ cfg["provider"] # "other"
        /\ Pre!needs_key(cfg) => cfg["key"] # "absent" /\ ~Pre!key_shape_fail(cfg)
        /\ ~Pre!needs_key(cfg) => cfg["base_url"]
    BY <1>0, <2>1, Cleared DEF Pre!judge, Pre!Bad
  <2>3. cfg["key"] \in {"sound", "absent", "pasted twice", "foreign", "cut"}
    BY <1>a DEF Pre!Worded, Pre!Values, Pre!REQUIRED_POSITIVE_RISK, Pre!DISABLEABLE_RISK, Pre!OPS
  <2> QED BY <2>2, <2>3 DEF Pre!_create, Pre!key_shape_fail
<1>2. Pre!universe_for(cfg) # {} \/ (cfg["exclude_etfs"] /\ cfg["etfs"].list # <<>>)
  <2>1. CASE cfg["exclude_etfs"]
    <3>1. cfg["etfs"].list # <<>>
      BY <1>0, <2>1, Cleared DEF Pre!etfs, Pre!Bad
    <3> QED BY <2>1, <3>1
  <2>2. CASE ~cfg["exclude_etfs"]
    <3>1. /\ cfg["universe"] # "other"
          /\ ~(/\ cfg["universe"] = "sectors" /\ cfg["sectors"].kind # "junk"
               /\ DOMAIN cfg["sectors"].of = {})
          /\ ~(cfg["universe"] = "sector_etfs" /\ cfg["sector_etfs"].list = <<>>)
          /\ ~(cfg["universe"] = "spy_only" /\ ~cfg["spy_only"])
          /\ ~(cfg["universe"] = "gem_legs" /\ ~cfg["gem_legs"])
      BY <1>0, Cleared DEF Pre!universe, Pre!Bad
    <3>2. cfg["universe"] \in {"core", "sectors", "sector_etfs", "spy_only", "gem_legs", "other"}
      BY <1>a DEF Pre!Worded, Pre!Values, Pre!REQUIRED_POSITIVE_RISK, Pre!DISABLEABLE_RISK, Pre!OPS
    <3>3. CASE cfg["universe"] = "core"
      BY <1>0, <2>2, <3>3 DEF Pre!universe_for, Pre!Formed
    <3>4. CASE cfg["universe"] = "sectors"
      <4>1. cfg["sectors"] \in Pre!Groups
        BY <1>0 DEF Pre!Formed
      <4>2. \/ cfg["sectors"].kind \in {"absent", "junk", "map"} /\ DOMAIN cfg["sectors"].of = {}
            \/ cfg["sectors"].kind = "map" /\ DOMAIN cfg["sectors"].of = {"x", "y"}
        BY <4>1 DEF Pre!Groups
      <4>3. cfg["sectors"].kind # "junk"
        BY <1>0, <4>2, Cleared DEF Pre!sectors, Pre!Bad
      <4>4. cfg["sectors"].kind = "map" /\ "x" \in DOMAIN cfg["sectors"].of
        BY <3>1, <3>4, <4>2, <4>3
      <4>5. cfg["sectors"].of["x"] # {}
        BY <1>0, <4>4, Cleared DEF Pre!sectors, Pre!Bad
      <4>6. Pre!Mapped(cfg) # {}
        BY <4>4, <4>5 DEF Pre!Mapped
      <4> QED BY <2>2, <3>4, <4>6 DEF Pre!universe_for
    <3>5. CASE cfg["universe"] = "sector_etfs"
      <4>1. cfg["sector_etfs"] \in Pre!Lists /\ cfg["sector_etfs"].list # <<>>
        BY <1>0, <3>1, <3>5 DEF Pre!Formed
      <4> QED BY <2>2, <3>5, <4>1, ListNames DEF Pre!universe_for
    <3>6. CASE cfg["universe"] \in {"spy_only", "gem_legs"}
      BY <2>2, <3>1, <3>6 DEF Pre!universe_for
    <3> QED BY <3>1, <3>2, <3>3, <3>4, <3>5, <3>6
  <2> QED BY <1>a, <2>1, <2>2 DEF Pre!Switches
<1>3. ~Pre!AloneTooHot(cfg)
  BY <1>0, Cleared DEF Pre!heat_trap, Pre!Bad, Pre!AloneTooHot, Pre!HasStop
<1>4. Pre!PlaceInSector(cfg)
  <2>1. cfg["concentration"] => Pre!IsPlain(cfg["max_per_sector"]) /\ cfg["max_per_sector"] >= 1
    BY <1>0, Cleared DEF Pre!concentration, Pre!Bad
  <2>2. cfg["max_per_sector"] \in Int
    BY <1>a DEF Pre!Numeric
  <2> QED BY <2>1, <2>2 DEF Pre!PlaceInSector, Pre!IsPlain, Pre!Number
<1>5. Pre!min_fraction(cfg) \in 0 .. 100
  <2>1. cfg["min_universe_fraction"] # Pre!Absent =>
          Pre!IsPlain(cfg["min_universe_fraction"]) /\ cfg["min_universe_fraction"] \in 0 .. 100
    BY <1>0, Cleared DEF Pre!risk_numbers, Pre!Bad
  <2> QED BY <2>1 DEF Pre!min_fraction, Pre!IsPlain, Pre!Number
<1>6. ASSUME NEW net \in {Pre!Number(cfg["net_min"]), Pre!Number(cfg["net_max"])},
             Pre!NoBuy(cfg, net), Pre!NoShort(cfg, net)
      PROVE  FALSE
  <2>1. cfg["band"] = "block"
    BY <1>6 DEF Pre!NoBuy
  <2>2. /\ Pre!IsPlain(cfg["net_min"]) /\ Pre!IsPlain(cfg["net_max"])
        /\ cfg["net_min"] < cfg["net_max"]
    BY <1>0, <2>1, Cleared DEF Pre!net_band, Pre!Bad
  <2>3. Pre!Number(cfg["net_min"]) = cfg["net_min"] /\ Pre!Number(cfg["net_max"]) = cfg["net_max"]
    BY <2>2 DEF Pre!IsPlain, Pre!Number
  <2>4. PICK low \in Int : low = cfg["net_min"]
    BY <1>a DEF Pre!Numeric
  <2>5. PICK high \in Int : high = cfg["net_max"]
    BY <1>a DEF Pre!Numeric
  <2>6. low < high /\ net \in {low, high} /\ net + 1 > high /\ net - 1 < low
    BY <1>6, <2>2, <2>3, <2>4, <2>5 DEF Pre!NoBuy, Pre!NoShort
  <2> QED BY <2>4, <2>5, <2>6
<1>7. cfg["enabled"] /\ cfg["short_bottom_fraction"] => cfg["shorting_enabled"]
  BY <1>0, <1>a DEF Pre!run_account_checks, Pre!Bad, Pre!Switches
<1> QED BY <1>1, <1>2, <1>3, <1>4, <1>5, <1>6, <1>7 DEF Pre!NotShutOut

\* The configuration a cycle trades on means what it says and does not refuse
\* every entry by itself, whatever was edited since the last one: the checks
\* of src/preflight.py leave nothing to the fallbacks of the readers.
THEOREM ClearedMeansWritten == Pre!Spec => [](Pre!NoReaderFallsBack /\ Pre!NotShutOut)
<1>1. Pre!Init => PreInv
  BY PreflightAssumption DEF Pre!Init, PreInv
<1>2. PreInv /\ [Pre!Next]_(Pre!pre) => PreInv'
  BY PreStep
<1>3. PreInv => Pre!NoReaderFallsBack /\ Pre!NotShutOut
  BY ReadersKeep, EntriesPass
<1> QED BY <1>1, <1>2, <1>3, PTL DEF Pre!Spec

-----------------------------------------------------------------------------
(* The news (News).                                                        *)

\* What is validated is few, has passed validation, and is none of the universe's.
Vetted(S, passed) == S \subseteq passed \ Universe /\ Cardinality(S) <= MaxNominations

\* A context is of its day, and was validated if that is today.
Dated(c, date, passed) ==
  c.date \in Int /\ c.date <= date /\ (c.date = date => Vetted(c.nominations, passed))

Places == {"off", "fetch", "distill", "open", "dump", "record", "scan", "reviewed"}
Writing == {"open", "dump", "record"}
Scanning == {"scan", "reviewed"}

\* Whatever a reader may find or a writer may write was validated on its day;
\* a cycle's own is today's.
NewsInv ==
  /\ today \in Int
  /\ where \in [Brain!Processes -> Places] /\ DOMAIN distilled = Brain!Processes
  /\ file \notin {NoContext, Torn} => Dated(file, today, fitted)
  /\ \A p \in Brain!Processes : where[p] \in Writing => Dated(distilled[p], today, fitted)
  /\ where["cycle"] \in Writing => distilled["cycle"].date = today
  /\ where["cycle"] \in Scanning => Vetted(watch, fitted)

\* The instance counts as this module does.
LEMMA SameCount == ASSUME NEW S PROVE Brain!Cardinality(S) = Cardinality(S)
BY DEF Brain!Cardinality, Cardinality

\* No more than max_nominations: before the last one there were fewer.
LEMMA FewNominated ==
  ASSUME NEW raw, raw \in Seq(Brain!Range(raw)), MaxNominations \in Nat, NEW fit
  PROVE  /\ Brain!validate_nominations(raw, fit) \subseteq fit \ Universe
         /\ Cardinality(Brain!validate_nominations(raw, fit)) <= MaxNominations
<1> DEFINE J == Brain!Taken(raw, fit)
           V == {raw[i] : i \in J}
           Earlier(i) == Brain!Before(raw, fit, i)
<1>1. Brain!validate_nominations(raw, fit) = V
  BY DEF Brain!validate_nominations
<1>2. V \subseteq fit \ Universe
  BY DEF Brain!Taken, Brain!Fit
<1>a. /\ DOMAIN raw = 1 .. Len(raw) /\ Len(raw) \in Nat /\ IsFiniteSet(DOMAIN raw)
      /\ IsFiniteSet(Brain!Range(raw))
  <2>1. DOMAIN raw = 1 .. Len(raw) /\ Len(raw) \in Nat /\ IsFiniteSet(DOMAIN raw)
    BY FS_Interval
  <2>2. raw \in Surjection(DOMAIN raw, Brain!Range(raw))
    BY DEF Surjection, Brain!Range
  <2> QED BY <2>1, <2>2, FS_Surjection
<1>b. /\ J \in SUBSET DOMAIN raw
      /\ \A i \in J : i \in Brain!Fit(raw, fit) /\ raw[i] \notin Earlier(i)
                    /\ Cardinality(Earlier(i)) < MaxNominations
  <2>1. J \subseteq Brain!Fit(raw, fit)
    BY DEF Brain!Taken
  <2>2. Brain!Fit(raw, fit) \subseteq DOMAIN raw
    BY DEF Brain!Fit
  <2>3. \A i \in J : raw[i] \notin Earlier(i) /\ Cardinality(Earlier(i)) < MaxNominations
    BY SameCount DEF Brain!Taken
  <2> QED BY <2>1, <2>2, <2>3
<1>3. Cardinality(V) <= MaxNominations
  <2>1. IsFiniteSet(J) /\ J \in SUBSET Nat
    BY <1>a, <1>b, FS_Subset
  <2>2. ASSUME J = {} PROVE Cardinality(V) <= MaxNominations
    <3>1. V = {}
      BY <2>2
    <3>2. Cardinality(V) = 0
      BY <3>1, FS_EmptySet
    <3> QED BY <3>2
  <2>3. ASSUME J # {} PROVE Cardinality(V) <= MaxNominations
    <3>1. PICK i \in J : \A y \in J : y <= i
      BY <2>1, <2>3, GreatestOf
    <3>2. V \subseteq Earlier(i) \cup {raw[i]}
      <4>1. ASSUME NEW y \in J, y # i PROVE raw[y] \in Earlier(i)
        <5>1. y \in Nat /\ i \in Nat /\ y <= i
          BY <2>1, <3>1
        <5>2. y < i /\ y \in Brain!Fit(raw, fit)
          BY <1>b, <4>1, <5>1
        <5> QED BY <5>2 DEF Brain!Before
      <4> QED BY <4>1
    <3>3. IsFiniteSet(Earlier(i))
      <4>1. Earlier(i) \subseteq Brain!Range(raw)
        BY DEF Brain!Before, Brain!Fit, Brain!Range
      <4> QED BY <1>a, <4>1, FS_Subset
    <3>4. raw[i] \notin Earlier(i) /\ Cardinality(Earlier(i)) < MaxNominations
      BY <1>b
    <3> HIDE DEF V, Earlier
    <3>5. /\ IsFiniteSet(Earlier(i) \cup {raw[i]})
          /\ Cardinality(Earlier(i) \cup {raw[i]}) = Cardinality(Earlier(i)) + 1
      BY <3>3, <3>4, FS_AddElement
    <3>6. Cardinality(V) <= Cardinality(Earlier(i) \cup {raw[i]})
      BY <3>2, <3>5, FS_Subset
    <3>7. Cardinality(Earlier(i)) \in Nat /\ Cardinality(V) \in Nat
      BY <3>2, <3>3, <3>5, FS_Subset, FS_CardinalityType
    <3>8. PICK c \in Nat : c = Cardinality(Earlier(i))
      BY <3>7
    <3>9. PICK v \in Nat : v = Cardinality(V)
      BY <3>7
    <3>10. v <= c + 1 /\ c < MaxNominations
      BY <3>4, <3>5, <3>6, <3>8, <3>9
    <3>11. v <= MaxNominations
      BY <3>10
    <3> QED BY <3>9, <3>11
  <2> HIDE DEF J
  <2> QED BY <2>2, <2>3
<1> QED BY <1>1, <1>2, <1>3

\* Nothing needs no validation.
LEMMA NoneVetted == Vetted({}, fitted)
<1>1. Cardinality({}) = 0
  BY FS_EmptySet
<1> QED BY <1>1, NewsAssumption DEF Vetted, Brain!NewsConstants

\* One process moves, and what it leaves behind was validated.
LEMMA OneMoves ==
  ASSUME NewsInv, today' = today, fitted \subseteq fitted',
         NEW p \in Brain!Processes, NEW place \in Places, where' = [where EXCEPT ![p] = place],
         file' \in {file, Torn} \/ Dated(file', today, fitted'),
         DOMAIN distilled' = Brain!Processes,
         \A q \in Brain!Processes : q # p => distilled'[q] = distilled[q],
         place \in Writing => Dated(distilled'[p], today, fitted'),
         p = "cycle" /\ place \in Writing => distilled'[p].date = today,
         p = "cycle" /\ place \in Scanning => Vetted(watch', fitted'),
         p # "cycle" => watch' = watch
  PROVE  NewsInv'
<1>1. /\ where' \in [Brain!Processes -> Places] /\ where'[p] = place
      /\ \A q \in Brain!Processes : q # p => where'[q] = where[q]
  BY DEF NewsInv
<1>2. file' \notin {NoContext, Torn} => Dated(file', today', fitted')
  BY DEF NewsInv, Dated, Vetted
<1>3. \A q \in Brain!Processes : where'[q] \in Writing => Dated(distilled'[q], today', fitted')
  BY <1>1 DEF NewsInv, Dated, Vetted
<1>4. "cycle" \in Brain!Processes
  BY DEF Brain!Processes
<1>5. where'["cycle"] \in Writing => distilled'["cycle"].date = today'
  BY <1>1, <1>4 DEF NewsInv
<1>6. where'["cycle"] \in Scanning => Vetted(watch', fitted')
  BY <1>1, <1>4 DEF NewsInv, Vetted
<1> QED BY <1>1, <1>2, <1>3, <1>5, <1>6 DEF NewsInv

\* A process that has nothing to show goes on without.
LEMMA ReturnsEmpty ==
  ASSUME NewsInv, NEW p \in Brain!Processes, Brain!Returns(p, NoContext), Brain!Forgets(p),
         UNCHANGED <<today, file, fitted>>
  PROVE  NewsInv'
<1>1. /\ DOMAIN distilled' = Brain!Processes
      /\ \A q \in Brain!Processes : q # p => distilled'[q] = distilled[q]
  BY DEF Brain!Forgets, NewsInv
<1>2. CASE p = "brain"
  <2>1. where' = [where EXCEPT ![p] = "off"] /\ watch' = watch
    BY <1>2 DEF Brain!Returns, Brain!Goes
  <2>2. "off" \in Places /\ "off" \notin Writing \cup Scanning
    BY DEF Places, Writing, Scanning
  <2> QED BY <1>1, <1>2, <2>1, <2>2, OneMoves
<1>3. CASE p = "cycle"
  <2>1. where' = [where EXCEPT ![p] = "scan"] /\ watch' = {}
    BY <1>3 DEF Brain!Returns, Brain!Goes
  <2>2. "scan" \in Places /\ "scan" \notin Writing
    BY DEF Places, Writing
  <2>3. Vetted(watch', fitted')
    BY <2>1, NoneVetted
  <2> QED BY <1>1, <1>3, <2>1, <2>2, <2>3, OneMoves
<1> QED BY <1>2, <1>3 DEF Brain!Processes

\* A process moves without touching what was validated.
LEMMA Walks ==
  ASSUME NewsInv, NEW p \in Brain!Processes, NEW place \in Places,
         where' = [where EXCEPT ![p] = place],
         UNCHANGED <<today, fitted, watch>>, distilled' = distilled, file' \in {file, Torn},
         place \in Writing => where[p] \in Writing,
         p = "cycle" /\ place \in Scanning => where[p] \in Scanning
  PROVE  NewsInv'
<1>1. place \in Writing => Dated(distilled'[p], today, fitted')
  BY DEF NewsInv
<1>2. p = "cycle" /\ place \in Writing => distilled'[p].date = today
  BY DEF NewsInv
<1>3. p = "cycle" /\ place \in Scanning => Vetted(watch', fitted')
  BY DEF NewsInv
<1>4. DOMAIN distilled' = Brain!Processes
  BY DEF NewsInv
<1> QED BY <1>1, <1>2, <1>3, <1>4, OneMoves

\* Every step of a refresh, a cycle or time keeps what is shown validated.
LEMMA NewsStep == NewsInv /\ [Brain!Next]_(Brain!news) => NewsInv'
<1> SUFFICES ASSUME NewsInv, [Brain!Next]_(Brain!news) PROVE NewsInv'
  OBVIOUS
<1>0. /\ today \in Int /\ where \in [Brain!Processes -> Places] /\ DOMAIN distilled = Brain!Processes
      /\ file \notin {NoContext, Torn} => Dated(file, today, fitted)
      /\ where["cycle"] \in Scanning => Vetted(watch, fitted)
  BY DEF NewsInv
<1> USE DEF Brain!Goes
<1>1. ASSUME NEW p \in Brain!Processes, Brain!Refresh(p) PROVE NewsInv'
  <2>1. CASE Brain!Fetch(p)
    <3>1. where' = [where EXCEPT ![p] = "distill"] /\ UNCHANGED <<today, fitted, watch, distilled, file>>
      BY <2>1 DEF Brain!Fetch, Brain!world, Brain!use
    <3>2. "distill" \in Places /\ "distill" \notin Writing \cup Scanning
      BY DEF Places, Writing, Scanning
    <3> QED BY <3>1, <3>2, Walks
  <2>2. CASE Brain!NoHeadlines(p) \/ Brain!NotDistilled(p) \/ Brain!Raises(p) \/ Brain!WriteFails(p)
    <3>1. Brain!Returns(p, NoContext) /\ Brain!Forgets(p) /\ UNCHANGED <<today, file, fitted>>
      BY <2>2 DEF Brain!NoHeadlines, Brain!NotDistilled, Brain!Raises, Brain!WriteFails
    <3> QED BY <3>1, ReturnsEmpty
  <2>3. CASE Brain!Distil(p)
    <3>1. /\ where' = [where EXCEPT ![p] = "open"] /\ UNCHANGED <<today, file, watch>>
      BY <2>3 DEF Brain!Distil, Brain!world, Brain!use
    <3>a. PICK flags \in Flaggable, raw \in Nominations :
            \E fit \in SUBSET (Brain!Range(raw) \ Universe) :
              /\ distilled' = [distilled EXCEPT ![p] =
                   [date |-> today, flags |-> flags,
                    nominations |-> Brain!validate_nominations(raw, fit)]]
              /\ fitted' = fitted \cup fit
      BY <2>3 DEF Brain!Distil
    <3>2. PICK fit \in SUBSET (Brain!Range(raw) \ Universe) :
              /\ distilled' = [distilled EXCEPT ![p] =
                   [date |-> today, flags |-> flags,
                    nominations |-> Brain!validate_nominations(raw, fit)]]
              /\ fitted' = fitted \cup fit
      BY <3>a
    <3> DEFINE chosen == Brain!validate_nominations(raw, fit)
    <3>3. chosen \subseteq fit \ Universe /\ Cardinality(chosen) <= MaxNominations
      BY FewNominated, NewsAssumption DEF Brain!NewsConstants
    <3> HIDE DEF chosen
    <3>4. /\ distilled'[p] = [date |-> today, flags |-> flags, nominations |-> chosen]
          /\ DOMAIN distilled' = Brain!Processes /\ fitted \subseteq fitted'
          /\ \A q \in Brain!Processes : q # p => distilled'[q] = distilled[q]
      BY <1>0, <3>2 DEF chosen
    <3>5. Vetted(chosen, fitted')
      BY <3>2, <3>3 DEF Vetted
    <3>6. Dated(distilled'[p], today, fitted') /\ distilled'[p].date = today
      <4>1. distilled'[p].date = today /\ distilled'[p].nominations = chosen
        BY <3>4
      <4>2. today <= today
        BY <1>0
      <4> QED BY <1>0, <3>5, <4>1, <4>2 DEF Dated
    <3>7. "open" \in Places /\ "open" \notin Scanning
      BY DEF Places, Scanning
    <3> QED BY <3>1, <3>4, <3>6, <3>7, OneMoves
  <2>4. CASE Brain!Open(p)
    <3>1. /\ where[p] = "open" /\ where' = [where EXCEPT ![p] = "dump"] /\ file' = Torn
          /\ UNCHANGED <<today, fitted, watch, distilled>>
      BY <2>4 DEF Brain!Open, Brain!use
    <3>2. "dump" \in Places /\ "open" \in Writing /\ "dump" \notin Scanning
      BY DEF Places, Writing, Scanning
    <3> QED BY <3>1, <3>2, Walks
  <2>5. CASE Brain!Dump(p)
    <3>1. /\ where[p] = "dump" /\ where' = [where EXCEPT ![p] = "record"]
          /\ file' \in {distilled[p], Torn} /\ UNCHANGED <<today, fitted, watch, distilled>>
      BY <2>5 DEF Brain!Dump, Brain!use
    <3>2. /\ "record" \in Places /\ "record" \notin Scanning
          /\ {"dump", "record"} \subseteq Writing
      BY DEF Places, Writing, Scanning
    <3>3. Dated(distilled[p], today, fitted) /\ (p = "cycle" => distilled[p].date = today)
      BY <3>1, <3>2 DEF NewsInv
    <3>4. file' \in {file, Torn} \/ Dated(file', today, fitted')
      BY <3>1, <3>3
    <3> QED BY <1>0, <3>1, <3>2, <3>3, <3>4, OneMoves
  <2>6. CASE Brain!Record(p)
    <3>1. /\ where[p] = "record" /\ Brain!Returns(p, distilled[p]) /\ Brain!Forgets(p)
          /\ UNCHANGED <<today, file, fitted>>
      BY <2>6 DEF Brain!Record
    <3>2. /\ DOMAIN distilled' = Brain!Processes
          /\ \A q \in Brain!Processes : q # p => distilled'[q] = distilled[q]
      BY <1>0, <3>1 DEF Brain!Forgets
    <3>3. CASE p = "brain"
      <4>1. where' = [where EXCEPT ![p] = "off"] /\ watch' = watch
        BY <3>1, <3>3 DEF Brain!Returns
      <4>2. "off" \in Places /\ "off" \notin Writing \cup Scanning
        BY DEF Places, Writing, Scanning
      <4> QED BY <3>1, <3>2, <3>3, <4>1, <4>2, OneMoves
    <3>4. CASE p = "cycle"
      <4>1. /\ where' = [where EXCEPT ![p] = "scan"]
            /\ watch' = IF distilled[p] = NoContext THEN {} ELSE distilled[p].nominations \ Universe
        BY <3>1, <3>4 DEF Brain!Returns
      <4>2. Dated(distilled[p], today, fitted) /\ distilled[p].date = today
        BY <3>1, <3>4 DEF NewsInv, Writing
      <4>3. Vetted(distilled[p].nominations, fitted)
        BY <4>2 DEF Dated
      <4>4. distilled[p].nominations \ Universe = distilled[p].nominations
        BY <4>3 DEF Vetted
      <4>5. Vetted(watch', fitted')
        BY <3>1, <4>1, <4>3, <4>4, NoneVetted
      <4>6. "scan" \in Places /\ "scan" \notin Writing
        BY DEF Places, Writing
      <4> QED BY <3>1, <3>2, <3>4, <4>1, <4>5, <4>6, OneMoves
    <3> QED BY <3>3, <3>4 DEF Brain!Processes
  <2>7. CASE Brain!Dies(p)
    <3>1. /\ where' = [where EXCEPT ![p] = "off"] /\ Brain!Forgets(p)
          /\ UNCHANGED <<today, file, fitted>> /\ (p # "cycle" => watch' = watch)
      BY <2>7 DEF Brain!Dies, Brain!world, Brain!use
    <3>2. /\ DOMAIN distilled' = Brain!Processes
          /\ \A q \in Brain!Processes : q # p => distilled'[q] = distilled[q]
      BY <1>0, <3>1 DEF Brain!Forgets
    <3>3. "off" \in Places /\ "off" \notin Writing \cup Scanning
      BY DEF Places, Writing, Scanning
    <3> QED BY <3>1, <3>2, <3>3, OneMoves
  <2> QED BY <1>1, <2>1, <2>2, <2>3, <2>4, <2>5, <2>6, <2>7 DEF Brain!Refresh
<1>a. "brain" \in Brain!Processes /\ "cycle" \in Brain!Processes
  BY DEF Brain!Processes
<1>2. CASE Brain!HourlyRefresh
  <2>1. where' = [where EXCEPT !["brain"] = "fetch"] /\ UNCHANGED <<today, fitted, watch, distilled, file>>
    BY <1>2 DEF Brain!HourlyRefresh, Brain!world, Brain!use
  <2>2. "fetch" \in Places /\ "fetch" \notin Writing \cup Scanning
    BY DEF Places, Writing, Scanning
  <2> QED BY <1>a, <2>1, <2>2, Walks
<1>3. CASE Brain!CycleLoads
  <2>1. UNCHANGED <<today, fitted, distilled, file>>
    BY <1>3 DEF Brain!CycleLoads
  <2>2. CASE Brain!load # NoContext
    <3>1. where' = [where EXCEPT !["cycle"] = "scan"] /\ watch' = Brain!load.nominations \ Universe
      BY <1>3, <2>2 DEF Brain!CycleLoads
    <3>2. Brain!load = file /\ file \notin {NoContext, Torn} /\ file.date = today
      BY <2>2 DEF Brain!load
    <3>3. Vetted(file.nominations, fitted)
      BY <1>0, <3>2 DEF Dated
    <3>4. file.nominations \ Universe = file.nominations
      BY <3>3 DEF Vetted
    <3>5. Vetted(watch', fitted')
      BY <2>1, <3>1, <3>2, <3>3, <3>4
    <3>6. "scan" \in Places /\ "scan" \notin Writing
      BY DEF Places, Writing
    <3> QED BY <1>0, <1>a, <2>1, <3>1, <3>5, <3>6, OneMoves
  <2>3. CASE Brain!load = NoContext
    <3>1. where' = [where EXCEPT !["cycle"] = "fetch"] /\ watch' = watch
      BY <1>3, <2>3 DEF Brain!CycleLoads
    <3>2. "fetch" \in Places /\ "fetch" \notin Writing \cup Scanning
      BY DEF Places, Writing, Scanning
    <3> QED BY <1>a, <2>1, <3>1, <3>2, Walks
  <2> QED BY <2>2, <2>3
<1>4. CASE Brain!Review
  <2>1. /\ where["cycle"] = "scan" /\ where' = [where EXCEPT !["cycle"] = "reviewed"]
        /\ UNCHANGED <<today, fitted, watch, distilled, file>>
    BY <1>4 DEF Brain!Review, Brain!world
  <2>2. "reviewed" \in Places /\ "scan" \in Scanning /\ "reviewed" \notin Writing
    BY DEF Places, Writing, Scanning
  <2> QED BY <1>a, <2>1, <2>2, Walks
<1>5. CASE Brain!CycleEnds
  <2>1. where' = [where EXCEPT !["cycle"] = "off"] /\ UNCHANGED <<today, fitted, distilled, file>>
    BY <1>5 DEF Brain!CycleEnds, Brain!world
  <2>2. "off" \in Places /\ "off" \notin Writing \cup Scanning
    BY DEF Places, Writing, Scanning
  <2> QED BY <1>0, <1>a, <2>1, <2>2, OneMoves
<1>6. CASE Brain!TradeCloses
  <2>1. UNCHANGED <<today, where, fitted, watch, distilled, file>>
    BY <1>6 DEF Brain!TradeCloses, Brain!run, Brain!use
  <2> QED BY <2>1 DEF NewsInv
<1>7. CASE Brain!NextDay
  <2>1. /\ where["cycle"] = "off" /\ today' = today + 1 /\ UNCHANGED <<where, distilled, file>>
    BY <1>7 DEF Brain!NextDay, Brain!run
  <2>2. ASSUME NEW c, Dated(c, today, fitted) PROVE Dated(c, today', fitted')
    <3>1. PICK n \in Int : n = today
      BY <1>0
    <3>2. PICK d \in Int : d = c.date
      BY <2>2 DEF Dated
    <3>3. d <= n /\ n + 1 = today'
      BY <2>1, <2>2, <3>1, <3>2 DEF Dated
    <3>4. d <= n + 1 /\ d # n + 1
      BY <3>3
    <3> QED BY <3>2, <3>3, <3>4 DEF Dated
  <2>3. "off" \notin Writing \cup Scanning
    BY DEF Writing, Scanning
  <2>4. today' \in Int
    BY <1>0, <2>1
  <2> QED BY <2>1, <2>2, <2>3, <2>4 DEF NewsInv
<1>8. CASE UNCHANGED Brain!news
  BY <1>8 DEF Brain!news, Brain!world, Brain!run, Brain!use, NewsInv
<1> QED BY <1>1, <1>2, <1>3, <1>4, <1>5, <1>6, <1>7, <1>8 DEF Brain!Next

\* What a cycle scans because the news named it was validated today, whoever
\* refreshed, died or wrote in between, is none of the universe's, and is few
\* (src/market_context.py, src/main.py), for every budget and every answer.
THEOREM NewsIsTodays == Brain!Spec => []Brain!WatchFresh
<1>1. Brain!Init => NewsInv
  BY DEF Brain!Init, NewsInv, Places, Writing, Scanning, Brain!Processes
<1>2. NewsInv /\ [Brain!Next]_(Brain!news) => NewsInv'
  BY NewsStep
<1>3. NewsInv => Brain!WatchFresh
  <2>1. SUFFICES ASSUME NewsInv, where["cycle"] \in {"scan", "reviewed"}
                 PROVE  watch \subseteq fitted \ Universe /\ Cardinality(watch) <= MaxNominations
    BY SameCount DEF Brain!WatchFresh
  <2>2. Vetted(watch, fitted)
    BY <2>1 DEF NewsInv, Scanning
  <2> QED BY <2>2 DEF Vetted
<1> QED BY <1>1, <1>2, <1>3, PTL DEF Brain!Spec
=============================================================================
