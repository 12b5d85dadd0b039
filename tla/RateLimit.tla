------------------------------- MODULE RateLimit -------------------------------
(***************************************************************************)
(* The publisher's rate limiter (publisher/ratelimit.py): one bucket for   *)
(* everything, stricter ones for sign-in links and for billing, each with  *)
(* a level per client that is refilled when the client is next seen, and   *)
(* forgotten when there are too many clients.                              *)
(*                                                                         *)
(* Levels are integers: Unit of them make a token.                         *)
(***************************************************************************)
EXTENDS Integers, FiniteSets

CONSTANTS
  Clients, Absent,
  Buckets,       \* the global one, and those of some paths: auth, billing
  Rate, Burst,   \* of each bucket, in parts of a token, per tick and at most
  Unit,          \* parts that make a token
  MaxKeys,       \* levels a bucket keeps before it forgets old ones (10_000)
  Keep,          \* ticks after which a level may be forgotten (600 s)
  MaxTime        \* bound: ticks

ASSUME BucketsAssumption == {"global"} \subseteq Buckets /\ Buckets \subseteq {"global", "auth", "billing"}
ASSUME RatesAssumption ==
  /\ Rate \in [Buckets -> Nat] /\ Burst \in [Buckets -> Nat]
  /\ {MaxKeys, Keep, MaxTime} \subseteq Nat /\ Unit \in Nat \ {0}
\* publisher/config.py: a bucket is full again before it is forgotten.
ASSUME KeepAssumption == \A b \in Buckets : Rate[b] * Keep >= Burst[b]
ASSUME AbsentAssumption == Absent \notin [tokens : Int, ts : Int]

VARIABLES
  now,
  levels,        \* what a bucket has noted of a client
  since, spent   \* ghost: the start of a window, the tokens spent in it

limit == <<now, levels, since, spent>>

Least(i, j) == IF i <= j THEN i ELSE j

\* A bug: the refill is not capped.
tokensUncapped(b, c) ==
  IF levels[b][c] = Absent THEN Burst[b]
  ELSE levels[b][c].tokens + (now - levels[b][c].ts) * Rate[b]

tokens(b, c) ==
  IF levels[b][c] = Absent THEN Burst[b]
  ELSE Least(Burst[b], levels[b][c].tokens + (now - levels[b][c].ts) * Rate[b])

allow(b, c) == tokens(b, c) >= Unit

\* A bug: whatever is not of this moment is forgotten.
prunedAll(l) ==
  [c \in Clients |-> IF l[c] # Absent /\ l[c].ts < now THEN Absent ELSE l[c]]
pruned(l) ==
  [c \in Clients |-> IF l[c] # Absent /\ l[c].ts < now - Keep THEN Absent ELSE l[c]]

\* A bucket's levels after client c was seen.
Seen(b, c) ==
  LET left == tokens(b, c) - (IF allow(b, c) THEN Unit ELSE 0)
      noted == [levels[b] EXCEPT ![c] = [tokens |-> left, ts |-> now]]
  IN IF allow(b, c) /\ Cardinality({d \in Clients : noted[d] # Absent}) > MaxKeys
     THEN pruned(noted) ELSE noted

\* The buckets a request passes (a path of its own or only the global one); each is charged even if another refuses.
Passes(path) == {"global", path}

check(path, c) ==
  /\ levels' = [b \in Buckets |-> IF b \in Passes(path) THEN Seen(b, c) ELSE levels[b]]
  /\ spent' = [b \in Buckets |->
                 IF b \in Passes(path) /\ allow(b, c)
                 THEN [spent[b] EXCEPT ![c] = @ + 1] ELSE spent[b]]
  /\ UNCHANGED <<now, since>>

Tick == now < MaxTime /\ now' = now + 1 /\ UNCHANGED <<levels, since, spent>>

\* Any moment may be the start of the window we count in.
Watch ==
  /\ since' = now
  /\ spent' = [b \in Buckets |-> [c \in Clients |-> 0]]
  /\ UNCHANGED <<now, levels>>

LimitInit ==
  /\ now = 0 /\ since = 0
  /\ levels = [b \in Buckets |-> [c \in Clients |-> Absent]]
  /\ spent = [b \in Buckets |-> [c \in Clients |-> 0]]

LimitNext ==
  \/ \E path \in Buckets, c \in Clients : check(path, c)
  \/ Tick \/ Watch

LimitSpec == LimitInit /\ [][LimitNext]_limit

LimitTypeOK ==
  /\ now \in 0 .. MaxTime /\ since \in 0 .. now
  /\ \A b \in Buckets, c \in Clients :
       levels[b][c] # Absent =>
         levels[b][c].tokens \in 0 .. Burst[b] /\ levels[b][c].ts \in 0 .. now
  /\ spent \in [Buckets -> [Clients -> Nat]]

\* In every window a client gets from a bucket at most its burst and what the
\* bucket refills meanwhile, although levels are forgotten under load.
BucketBound ==
  \A b \in Buckets, c \in Clients : spent[b][c] * Unit <= Burst[b] + Rate[b] * (now - since)
=============================================================================
