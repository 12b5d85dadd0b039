---------------------------- MODULE PublisherProofs ----------------------------
(***************************************************************************)
(* What the publisher promises its readers and its customers, for every    *)
(* list, every number of digest runs and days, and every interleaving of   *)
(* requests, billing events, runs and their deaths; what its rate limiter  *)
(* lets through; and how often the bot's own posts are published.          *)
(***************************************************************************)
EXTENDS Publisher, RateLimit, Posts, TLAPS

Kinds == {"grant", "revoke"}
RunRecord == [pc : {"idle", "mailing", "already", "refused", "done", "killed"},
              day : 0 .. Days, dry : BOOLEAN, only : People \cup {Everyone},
              todo : SUBSET People, mailed : Nat]

-----------------------------------------------------------------------------
(* Sequences of billing events.                                            *)

LEMMA FirstRemoved ==
  ASSUME NEW s \in Seq(Kinds), s # <<>>
  PROVE  /\ RemoveAt(s, 1) \in Seq(Kinds)
         /\ RemoveAt(s, 1) = <<>> => Len(s) = 1
         /\ RemoveAt(s, 1) # <<>> => Last(RemoveAt(s, 1)) = Last(s)
<1>1. Len(s) \in Nat /\ Len(s) > 0 /\ s = [i \in 1 .. Len(s) |-> s[i]]
  OBVIOUS
<1> DEFINE rest == SubSeq(s, 2, Len(s))
<1>2. RemoveAt(s, 1) = rest
  <2>1. SubSeq(s, 1, 0) = <<>>
    OBVIOUS
  <2>2. rest \in Seq(Kinds) /\ <<>> \o rest = rest
    BY <1>1
  <2>3. RemoveAt(s, 1) = SubSeq(s, 1, 0) \o rest
    BY DEF RemoveAt
  <2> QED BY <2>1, <2>2, <2>3
<1>3. /\ rest \in Seq(Kinds) /\ Len(rest) = Len(s) - 1
      /\ \A i \in 1 .. Len(rest) : rest[i] = s[i + 1]
  BY <1>1
<1> HIDE DEF rest
<1>4. ASSUME rest = <<>> PROVE Len(s) = 1
  <2>1. Len(rest) = 0
    BY <1>4
  <2>2. PICK n \in Nat : n = Len(s)
    BY <1>1
  <2>3. 0 = n - 1
    BY <1>3, <2>1, <2>2
  <2>4. n = 1
    BY <2>3
  <2> QED BY <2>2, <2>4
<1>5. rest # <<>> => Last(rest) = Last(s)
  BY <1>1, <1>3 DEF Last
<1> QED BY <1>2, <1>3, <1>4, <1>5

LEMMA Removed ==
  ASSUME NEW s \in Seq(Kinds), NEW i \in DOMAIN s
  PROVE  RemoveAt(s, i) \in Seq(Kinds)
<1>1. i \in 1 .. Len(s) /\ Len(s) \in Nat
  OBVIOUS
<1>2. SubSeq(s, 1, i - 1) \in Seq(Kinds) /\ SubSeq(s, i + 1, Len(s)) \in Seq(Kinds)
  BY <1>1
<1> QED BY <1>2 DEF RemoveAt

LEMMA Appended ==
  ASSUME NEW s \in Seq(Kinds), NEW k \in Kinds
  PROVE  Append(s, k) \in Seq(Kinds) /\ Append(s, k) # <<>> /\ Last(Append(s, k)) = k
BY DEF Last

-----------------------------------------------------------------------------
(* Types.                                                                  *)

LEMMA TypingStep ==
  ASSUME TypeOK, [Next]_vars
  PROVE  TypeOK'
<1> USE NumbersAssumption, SetsAssumption DEF web, stripe, mail
<1>1. ASSUME NEW e \in People, RequestLink(e) \/ Verify(e) \/ AccountUnsubscribe(e) PROVE TypeOK'
  BY <1>1 DEF RequestLink, Verify, AccountUnsubscribe, unsubscribe, upsert_subscriber, TypeOK
<1>2. ASSUME NEW e \in People, NEW kind \in Kinds, Emit(e, kind),
             UNCHANGED <<day, web, gate, mail, faults>>
      PROVE  TypeOK'
  <2>1. events' \in [People -> Seq(Kinds)]
    BY <1>2, Appended DEF Emit, TypeOK, Kinds
  <2>2. paying' \in [People -> {"none", "grant", "revoke"}]
    BY <1>2 DEF Emit, TypeOK, Kinds
  <2> QED BY <1>2, <2>1, <2>2 DEF Emit, TypeOK, Kinds
<1>3. ASSUME NEW e \in People, create_checkout(e) \/ Bills(e) PROVE TypeOK'
  BY <1>2, <1>3 DEF create_checkout, Bills, Kinds
<1>4. ASSUME NEW e \in People, Deliver(e) PROVE TypeOK'
  <2>1. PICK i \in DOMAIN events[e] :
          /\ handle_webhook(e, events[e][i])
          /\ \/ events' = [events EXCEPT ![e] = RemoveAt(@, i)] /\ UNCHANGED faults
             \/ UNCHANGED events /\ Spend
          /\ overtaken' = IF i > 1 THEN overtaken \cup {e} ELSE overtaken
          /\ UNCHANGED <<day, login, session, leaving, answered, gate, paying, mail>>
    BY <1>4 DEF Deliver
  <2>2. events[e] \in Seq(Kinds) /\ events[e][i] \in Kinds
    BY DEF TypeOK, Kinds
  <2>3. events' \in [People -> Seq(Kinds)] /\ faults' \in 0 .. MaxFaults
    <3>1. RemoveAt(events[e], i) \in Seq(Kinds)
      BY <2>2, Removed
    <3>2. events \in [People -> Seq(Kinds)] /\ faults \in 0 .. MaxFaults
      BY DEF TypeOK, Kinds
    <3>3. CASE events' = [events EXCEPT ![e] = RemoveAt(@, i)] /\ UNCHANGED faults
      BY <3>1, <3>2, <3>3
    <3>4. CASE UNCHANGED events /\ Spend
      BY <3>2, <3>4 DEF Spend
    <3> QED BY <2>1, <3>3, <3>4
  <2>4. rows' \in [People -> Nat] /\ status' \in [People -> {"none", "active", "unsubscribed"}]
    <3>1. rows \in [People -> Nat] /\ status \in [People -> {"none", "active", "unsubscribed"}]
      BY DEF TypeOK
    <3>2. CASE events[e][i] = "grant"
      BY <2>1, <3>1, <3>2 DEF handle_webhook, upsert_subscriber, grant
    <3>3. CASE events[e][i] # "grant"
      BY <2>1, <3>1, <3>3 DEF handle_webhook, revoke
    <3> QED BY <3>2, <3>3
  <2> QED BY <2>1, <2>3, <2>4 DEF TypeOK, Kinds
<1>5. ASSUME NEW r \in Runs, NEW e \in People,
             unsubscribe_page(r, e) \/ Confirm(r, e) \/ ConfirmDone(r, e)
      PROVE  TypeOK'
  <2>1. CASE unsubscribe_page(r, e)
    BY <2>1 DEF unsubscribe_page, vars, TypeOK
  <2>2. CASE Confirm(r, e)
    <3>1. token' \in [Runs -> [People -> {"none", "live", "used"}]]
      BY <2>2 DEF Confirm, consume_token, TypeOK
    <3>2. leaving' \subseteq Runs \X People
      BY <2>2 DEF Confirm, TypeOK
    <3> QED BY <2>2, <3>1, <3>2 DEF Confirm, TypeOK
  <2>3. CASE ConfirmDone(r, e)
    <3>1. status' \in [People -> {"none", "active", "unsubscribed"}]
      BY <2>3 DEF ConfirmDone, unsubscribe, TypeOK
    <3>2. leaving' \subseteq Runs \X People /\ answered' \subseteq Runs \X People
      BY <2>3 DEF ConfirmDone, TypeOK
    <3> QED BY <2>3, <3>1, <3>2 DEF ConfirmDone, TypeOK
  <2> QED BY <1>5, <2>1, <2>2, <2>3
<1>6. ASSUME NEW r \in Runs, NEW e \in People, Mail(r, e) PROVE TypeOK'
  <2>1. PICK got \in {"notoken"} \cup send(r) :
          /\ run' = [run EXCEPT ![r].todo = @ \ {e}, ![r].mailed = @ + (IF got = "ok" THEN 1 ELSE 0)]
          /\ IF got = "notoken" THEN UNCHANGED token ELSE issue_token(r, e)
          /\ inbox' = IF got \in {"ok", "unanswered"} /\ ~run[r].dry
                      THEN [inbox EXCEPT ![r] = @ \cup {e}] ELSE inbox
          /\ odd' = IF got = "unanswered" THEN odd \cup {run[r].day} ELSE odd
          /\ IF got = "ok" THEN UNCHANGED faults ELSE Spend
    BY <1>6 DEF Mail
  <2>2. run \in [Runs -> RunRecord] /\ run[r].day \in 0 .. Days
    BY DEF TypeOK, RunRecord
  <2>3. run' \in [Runs -> RunRecord]
    <3>1. run[r] \in RunRecord
      BY <2>2
    <3>2. PICK more \in {0, 1} : more = IF got = "ok" THEN 1 ELSE 0
      OBVIOUS
    <3>3. run[r].todo \ {e} \in SUBSET People /\ run[r].mailed + more \in Nat
      BY <3>1 DEF RunRecord
    <3>4. [run[r] EXCEPT !.todo = @ \ {e}, !.mailed = @ + more] \in RunRecord
      BY <3>1, <3>3 DEF RunRecord
    <3>5. run' = [run EXCEPT ![r] = [run[r] EXCEPT !.todo = @ \ {e}, !.mailed = @ + more]]
      BY <2>1, <2>2, <3>2
    <3> QED BY <2>2, <3>4, <3>5
  <2>4. token' \in [Runs -> [People -> {"none", "live", "used"}]]
    <3>1. token \in [Runs -> [People -> {"none", "live", "used"}]]
      BY DEF TypeOK
    <3>2. [token[r] EXCEPT ![e] = "live"] \in [People -> {"none", "live", "used"}]
      BY <3>1
    <3>3. [token EXCEPT ![r] = [token[r] EXCEPT ![e] = "live"]]
            \in [Runs -> [People -> {"none", "live", "used"}]]
      BY <3>1, <3>2
    <3> QED BY <2>1, <3>1, <3>3 DEF issue_token
  <2>5. inbox' \in [Runs -> SUBSET People] /\ odd' \subseteq 0 .. Days
    BY <2>1, <2>2 DEF TypeOK
  <2>6. faults' \in 0 .. MaxFaults
    BY <2>1 DEF Spend, TypeOK
  <2> QED BY <1>6, <2>3, <2>4, <2>5, <2>6 DEF Mail, TypeOK, RunRecord
<1>7. ASSUME NEW r \in Runs, NEW dry \in BOOLEAN, NEW only \in People \cup {Everyone},
             NEW force \in BOOLEAN, Begin(r, dry, only, force)
      PROVE  TypeOK'
  <2>1. PICK pc \in {"already", "refused", "mailing"}, todo \in SUBSET People :
          run' = [run EXCEPT ![r] = [pc |-> pc, day |-> day, dry |-> dry, only |-> only,
                                     mailed |-> 0, todo |-> todo]]
    BY <1>7 DEF Begin, active_emails
  <2>2. run' \in [Runs -> RunRecord]
    BY <2>1 DEF TypeOK, RunRecord
  <2>3. odd' \subseteq 0 .. Days
    BY <1>7 DEF Begin, TypeOK
  <2> QED BY <1>7, <2>2, <2>3 DEF Begin, TypeOK, RunRecord
<1>8. ASSUME NEW r \in Runs, _record(r) \/ Kill(r) PROVE TypeOK'
  <2>1. run' \in [Runs -> RunRecord]
    <3>1. run \in [Runs -> RunRecord] /\ run[r] \in RunRecord
      BY DEF TypeOK, RunRecord
    <3>2. /\ [run[r] EXCEPT !.pc = "done"] \in RunRecord
          /\ [run[r] EXCEPT !.pc = "killed", !.todo = {}] \in RunRecord
      BY <3>1 DEF RunRecord
    <3> QED BY <1>8, <3>1, <3>2 DEF _record, Kill
  <2>2. run[r].day \in 0 .. Days
    BY DEF TypeOK, RunRecord
  <2>3. odd' \subseteq 0 .. Days /\ faults' \in 0 .. MaxFaults
    BY <1>8, <2>2 DEF _record, Kill, Spend, TypeOK
  <2> QED BY <1>8, <2>1, <2>3 DEF _record, Kill, TypeOK, RunRecord
<1>9. CASE Restart
  <2>1. faults' \in 0 .. MaxFaults
    BY <1>9 DEF Restart, Spend, TypeOK
  <2>2. leaving' \subseteq Runs \X People /\ answered' \subseteq Runs \X People
    BY <1>9 DEF Restart, TypeOK
  <2> QED BY <1>9, <2>1, <2>2 DEF Restart, TypeOK
<1>10. ASSUME GateMoves \/ NewDay PROVE TypeOK'
  <2>1. CASE GateMoves
    BY <2>1 DEF GateMoves, TypeOK
  <2>2. CASE NewDay
    BY <2>2 DEF NewDay, TypeOK
  <2> QED BY <1>10, <2>1, <2>2
<1>11. CASE UNCHANGED vars
  BY <1>11 DEF vars, TypeOK
<1> QED BY <1>1, <1>3, <1>4, <1>5, <1>6, <1>7, <1>8, <1>9, <1>10, <1>11 DEF Next

LEMMA TypingHolds == Spec => []TypeOK
<1>1. ASSUME Init PROVE TypeOK
  <2>1. 0 \in 0 .. Days /\ 0 \in 0 .. MaxFaults
    BY NumbersAssumption
  <2>2. run \in [Runs -> RunRecord]
    BY <1>1, <2>1 DEF Init, Idle, RunRecord
  <2>3. events \in [People -> Seq(Kinds)]
    BY <1>1 DEF Init, Kinds
  <2>4. token \in [Runs -> [People -> {"none", "live", "used"}]]
    BY <1>1 DEF Init
  <2> QED BY <1>1, <2>1, <2>2, <2>3, <2>4 DEF Init, TypeOK, RunRecord, Kinds
<1> QED BY <1>1, TypingStep, PTL DEF Spec
-----------------------------------------------------------------------------
(* The inductive invariants.                                               *)

\* The newest undelivered event is the last one sent, so the one that empties
\* the queue decides the tier.
TierKept ==
  \A e \in People :
    /\ paying[e] = "none" => events[e] = <<>> /\ rows[e] = 0
    /\ e \notin overtaken =>
         /\ events[e] # <<>> => Last(events[e]) = paying[e]
         /\ events[e] = <<>> => (rows[e] > 0 <=> paying[e] = "grant")

\* A run's mail carries a token, and a burnt one has its thread or its answer.
TokensKept ==
  \A r \in Runs :
    /\ run[r].pc = "idle" => inbox[r] = {}
    /\ \A e \in People :
         /\ e \in inbox[r] => token[r][e] \in {"live", "used"}
         /\ token[r][e] = "used" => <<r, e>> \in leaving \cup answered

\* What has mailed and is finished will be found by _already_ran_today, and
\* what is not finished makes the day odd for whoever begins.
MailSeen ==
  \A r \in Runs :
    /\ run[r].pc \in {"idle", "already", "refused"} => inbox[r] = {}
    /\ inbox[r] # {} => run[r].mailed > 0 \/ run[r].day \in odd
    /\ run[r].pc = "killed" => run[r].day \in odd
SameDay(r, q) == r # q /\ run[r].day = run[q].day
OneMailing ==
  \A r, q \in Runs :
    SameDay(r, q) /\ (Underway(r) \/ inbox[r] # {}) /\ (Underway(q) \/ inbox[q] # {})
      => run[r].day \in odd
-----------------------------------------------------------------------------
(* The tier follows the last billing event.                                *)

LEMMA TierStep ==
  ASSUME TypeOK, TypeOK', TierKept, [Next]_vars
  PROVE  TierKept'
<1> DEFINE Paid(e) ==
      /\ paying[e] = "none" => events[e] = <<>> /\ rows[e] = 0
      /\ e \notin overtaken =>
           /\ events[e] # <<>> => Last(events[e]) = paying[e]
           /\ events[e] = <<>> => (rows[e] > 0 <=> paying[e] = "grant")
<1>1. \A e \in People : Paid(e)
  BY DEF TierKept
<1>2. SUFFICES \A e \in People : Paid(e)'
  BY DEF TierKept
<1>3. ASSUME UNCHANGED <<rows, events, paying, overtaken>> PROVE \A e \in People : Paid(e)'
  BY <1>1, <1>3
<1>4. ASSUME NEW e \in People, NEW kind \in Kinds, Emit(e, kind), UNCHANGED rows
      PROVE  \A p \in People : Paid(p)'
  <2>1. events \in [People -> Seq(Kinds)] /\ paying \in [People -> {"none", "grant", "revoke"}]
    BY DEF TypeOK, Kinds
  <2>2. /\ events'[e] = Append(events[e], kind) /\ paying'[e] = kind
        /\ \A p \in People \ {e} : events'[p] = events[p] /\ paying'[p] = paying[p]
        /\ UNCHANGED <<rows, overtaken>>
    BY <1>4, <2>1 DEF Emit
  <2>3. events'[e] # <<>> /\ Last(events'[e]) = kind /\ kind # "none"
    BY <2>1, <2>2, Appended DEF Kinds
  <2>4. Paid(e)'
    BY <2>2, <2>3
  <2>5. ASSUME NEW p \in People \ {e} PROVE Paid(p)'
    BY <1>1, <2>2, <2>5
  <2> QED BY <2>4, <2>5
<1>5. ASSUME NEW e \in People, Deliver(e) PROVE \A p \in People : Paid(p)'
  <2>1. PICK i \in DOMAIN events[e] :
          /\ handle_webhook(e, events[e][i])
          /\ \/ events' = [events EXCEPT ![e] = RemoveAt(@, i)] /\ UNCHANGED faults
             \/ UNCHANGED events /\ Spend
          /\ overtaken' = IF i > 1 THEN overtaken \cup {e} ELSE overtaken
          /\ UNCHANGED <<day, login, session, leaving, answered, gate, paying, mail>>
    BY <1>5 DEF Deliver
  <2>2. /\ events \in [People -> Seq(Kinds)] /\ rows \in [People -> Nat]
        /\ paying \in [People -> {"none", "grant", "revoke"}]
    BY DEF TypeOK, Kinds
  <2>3. PICK queue \in Seq(Kinds) : queue = events[e]
    BY <2>2
  <2>4. queue # <<>> /\ i \in Nat /\ i >= 1 /\ paying[e] # "none"
    BY <1>1, <2>1, <2>3
  <2>5. /\ rows'[e] = IF events[e][i] = "grant" THEN rows[e] + 1 ELSE 0
        /\ \A p \in People \ {e} : rows'[p] = rows[p]
    BY <2>1, <2>2 DEF handle_webhook, grant, revoke
  <2>6. /\ events'[e] = RemoveAt(queue, i) \/ events'[e] = queue
        /\ \A p \in People \ {e} : events'[p] = events[p] /\ (p \in overtaken' <=> p \in overtaken)
    BY <2>1, <2>2, <2>3
  <2>7. ASSUME NEW p \in People \ {e} PROVE Paid(p)'
    BY <1>1, <2>1, <2>5, <2>6, <2>7
  <2>8. Paid(e)'
    <3>1. paying'[e] # "none"
      BY <2>1, <2>4
    <3>2. CASE i > 1
      BY <2>1, <3>1, <3>2
    <3>3. CASE i = 1
      <4>1. /\ RemoveAt(queue, 1) = <<>> => Len(queue) = 1
            /\ RemoveAt(queue, 1) # <<>> => Last(RemoveAt(queue, 1)) = Last(queue)
        BY <2>4, FirstRemoved
      <4>2. e \notin overtaken' => e \notin overtaken /\ Last(queue) = paying[e]
        BY <1>1, <2>1, <2>3, <2>4, <3>3
      <4>3. paying'[e] = paying[e]
        BY <2>1
      <4>4. ASSUME e \notin overtaken', events'[e] # <<>> PROVE Last(events'[e]) = paying'[e]
        BY <2>6, <3>3, <4>1, <4>2, <4>3, <4>4
      <4>5. ASSUME e \notin overtaken', events'[e] = <<>>
            PROVE  rows'[e] > 0 <=> paying'[e] = "grant"
        <5>1. Len(queue) = 1
          BY <2>4, <2>6, <3>3, <4>1, <4>5
        <5>2. events[e][i] = paying[e]
          BY <2>3, <3>3, <4>2, <4>5, <5>1 DEF Last
        <5> QED BY <2>2, <2>5, <4>3, <5>2
      <4> QED BY <3>1, <4>4, <4>5
    <3> QED BY <2>4, <3>2, <3>3
  <2> QED BY <2>7, <2>8
<1> HIDE DEF Paid
<1>6. ASSUME NEW e \in People,
             \/ RequestLink(e) \/ Verify(e) \/ AccountUnsubscribe(e)
      PROVE  UNCHANGED <<rows, events, paying, overtaken>>
  BY <1>6 DEF RequestLink, Verify, AccountUnsubscribe, stripe
<1>7. ASSUME NEW e \in People, create_checkout(e) \/ Bills(e) PROVE \A p \in People : Paid(p)'
  BY <1>4, <1>7 DEF create_checkout, Bills, Kinds, web
<1>8. ASSUME NEW r \in Runs, NEW e \in People,
             unsubscribe_page(r, e) \/ Confirm(r, e) \/ ConfirmDone(r, e) \/ Mail(r, e)
      PROVE  UNCHANGED <<rows, events, paying, overtaken>>
  BY <1>8 DEF unsubscribe_page, Confirm, ConfirmDone, Mail, stripe, web, vars
<1>9. ASSUME NEW r \in Runs, NEW dry \in BOOLEAN, NEW only \in People \cup {Everyone},
             NEW force \in BOOLEAN, Begin(r, dry, only, force)
      PROVE  UNCHANGED <<rows, events, paying, overtaken>>
  BY <1>9 DEF Begin, stripe, web
<1>10. ASSUME NEW r \in Runs, _record(r) \/ Kill(r)
       PROVE  UNCHANGED <<rows, events, paying, overtaken>>
  BY <1>10 DEF _record, Kill, stripe, web
<1>11. ASSUME Restart \/ GateMoves \/ NewDay \/ UNCHANGED vars
       PROVE  UNCHANGED <<rows, events, paying, overtaken>>
  BY <1>11 DEF Restart, GateMoves, NewDay, vars, stripe, web
<1> QED BY <1>3, <1>5, <1>6, <1>7, <1>8, <1>9, <1>10, <1>11 DEF Next

\* However often billing events are repeated, lost or answered late, an address
\* whose events have all been delivered in order has the tier of the last one
\* (handle_webhook, entitlements.grant and revoke).
THEOREM TierFollowsBilling == Spec => []TierAgrees
<1>1. ASSUME Init PROVE TierKept
  BY <1>1 DEF Init, TierKept
<1>2. ASSUME TypeOK, TierKept PROVE TierAgrees
  BY <1>2 DEF TypeOK, TierKept, TierAgrees, tier
<1>3. Spec => []TierKept
  BY <1>1, TierStep, TypingHolds, PTL DEF Spec
<1> QED BY <1>2, <1>3, TypingHolds, PTL

-----------------------------------------------------------------------------
(* The link in a digest.                                                   *)

LEMMA TokensStep ==
  ASSUME TypeOK, TokensKept, [Next]_vars
  PROVE  TokensKept'
<1> DEFINE TokenKept(r) ==
      /\ run[r].pc = "idle" => inbox[r] = {}
      /\ \A e \in People :
           /\ e \in inbox[r] => token[r][e] \in {"live", "used"}
           /\ token[r][e] = "used" => <<r, e>> \in leaving \cup answered
<1>1. \A r \in Runs : TokenKept(r)
  BY DEF TokensKept
<1>2. SUFFICES \A r \in Runs : TokenKept(r)'
  BY DEF TokensKept
<1>3. /\ token \in [Runs -> [People -> {"none", "live", "used"}]]
      /\ run \in [Runs -> RunRecord] /\ inbox \in [Runs -> SUBSET People]
  BY DEF TypeOK, RunRecord
<1>4. ASSUME UNCHANGED <<run, inbox, token>>, leaving \cup answered \subseteq leaving' \cup answered'
      PROVE  \A r \in Runs : TokenKept(r)'
  BY <1>1, <1>4
<1>5. ASSUME NEW r \in Runs, NEW e \in People, Confirm(r, e) PROVE \A q \in Runs : TokenKept(q)'
  <2>1. /\ UNCHANGED <<run, inbox, answered>> /\ leaving' = leaving \cup {<<r, e>>}
        /\ token' = [token EXCEPT ![r][e] = "used"]
    BY <1>5 DEF Confirm, consume_token
  <2>2. token'[r][e] = "used"
    BY <1>3, <2>1
  <2>3. ASSUME NEW q \in Runs, NEW p \in People, <<q, p>> # <<r, e>> PROVE token'[q][p] = token[q][p]
    BY <1>3, <2>1, <2>3
  <2> QED BY <1>1, <2>1, <2>2, <2>3
<1>6. ASSUME NEW r \in Runs, NEW e \in People, Mail(r, e) PROVE \A q \in Runs : TokenKept(q)'
  <2>1. PICK got \in {"notoken"} \cup send(r) :
          /\ run' = [run EXCEPT ![r].todo = @ \ {e}, ![r].mailed = @ + (IF got = "ok" THEN 1 ELSE 0)]
          /\ IF got = "notoken" THEN UNCHANGED token ELSE issue_token(r, e)
          /\ inbox' = IF got \in {"ok", "unanswered"} /\ ~run[r].dry
                      THEN [inbox EXCEPT ![r] = @ \cup {e}] ELSE inbox
    BY <1>6 DEF Mail
  <2>2. /\ run[r].pc = "mailing" /\ UNCHANGED <<leaving, answered>>
        /\ \A q \in Runs : run'[q].pc = run[q].pc
    BY <1>3, <1>6, <2>1 DEF Mail, Underway, web, RunRecord
  <2>3. ASSUME NEW q \in Runs, NEW p \in People
        PROVE  \/ token'[q][p] = token[q][p] /\ (p \in inbox'[q] => p \in inbox[q])
               \/ token'[q][p] = "live" /\ q = r
    <3>1. CASE got = "notoken"
      BY <2>1, <3>1
    <3>2. CASE got # "notoken" /\ <<q, p>> = <<r, e>>
      BY <1>3, <2>1, <3>2 DEF issue_token
    <3>3. CASE got # "notoken" /\ <<q, p>> # <<r, e>>
      <4>1. token'[q][p] = token[q][p]
        BY <1>3, <2>1, <3>3 DEF issue_token
      <4>2. p \in inbox'[q] => p \in inbox[q]
        BY <1>3, <2>1, <3>3
      <4> QED BY <4>1, <4>2
    <3> QED BY <3>1, <3>2, <3>3
  <2>4. ASSUME NEW q \in Runs, run'[q].pc = "idle" PROVE inbox'[q] = {}
    <3>1. q # r /\ inbox[q] = {}
      BY <1>1, <2>2, <2>4
    <3> QED BY <1>3, <2>1, <3>1
  <2> QED BY <1>1, <2>2, <2>3, <2>4
<1>7. ASSUME UNCHANGED <<token, inbox, leaving, answered>>,
             \A q \in Runs : run'[q].pc = "idle" => run[q].pc = "idle"
      PROVE  \A q \in Runs : TokenKept(q)'
  BY <1>1, <1>7
<1> HIDE DEF TokenKept
<1>8. ASSUME NEW e \in People, RequestLink(e) \/ Verify(e) \/ AccountUnsubscribe(e)
             \/ create_checkout(e) \/ Bills(e) \/ Deliver(e)
      PROVE  UNCHANGED <<run, inbox, token, leaving, answered>>
  BY <1>8 DEF RequestLink, Verify, AccountUnsubscribe, create_checkout, Bills, Deliver, mail, web
<1>9. ASSUME NEW r \in Runs, NEW e \in People, unsubscribe_page(r, e) \/ ConfirmDone(r, e)
      PROVE  /\ UNCHANGED <<run, inbox, token>>
             /\ leaving \cup answered \subseteq leaving' \cup answered'
  BY <1>9 DEF unsubscribe_page, ConfirmDone, mail, web, vars
<1>10. ASSUME NEW r \in Runs, NEW dry \in BOOLEAN, NEW only \in People \cup {Everyone},
              NEW force \in BOOLEAN, Begin(r, dry, only, force)
       PROVE  \A q \in Runs : TokenKept(q)'
  <2>1. PICK pc \in {"already", "refused", "mailing"}, todo \in SUBSET People :
          run' = [run EXCEPT ![r] = [pc |-> pc, day |-> day, dry |-> dry, only |-> only,
                                     mailed |-> 0, todo |-> todo]]
    BY <1>10 DEF Begin, active_emails
  <2>2. UNCHANGED <<token, inbox, leaving, answered>>
    BY <1>10 DEF Begin, web
  <2>3. \A q \in Runs : run'[q].pc = "idle" => run[q].pc = "idle"
    BY <1>3, <2>1
  <2> QED BY <1>7, <2>2, <2>3
<1>11. ASSUME NEW r \in Runs, _record(r) \/ Kill(r) PROVE \A q \in Runs : TokenKept(q)'
  <2>1. UNCHANGED <<token, inbox, leaving, answered>>
    BY <1>11 DEF _record, Kill, web
  <2>2. \A q \in Runs : run'[q].pc = "idle" => run[q].pc = "idle"
    BY <1>3, <1>11 DEF _record, Kill, RunRecord
  <2> QED BY <1>7, <2>1, <2>2
<1>12. ASSUME Restart \/ GateMoves \/ NewDay \/ UNCHANGED vars
       PROVE  /\ UNCHANGED <<run, inbox, token>>
              /\ leaving \cup answered \subseteq leaving' \cup answered'
  BY <1>12 DEF Restart, GateMoves, NewDay, mail, web, vars
<1> QED BY <1>4, <1>5, <1>6, <1>8, <1>9, <1>10, <1>11, <1>12 DEF Next

\* Nobody but its reader ends the life of a digest's link: page views, scanners
\* and restarts of the service leave it alone (app.py, unsubscribe_page).
THEOREM LinkLives == Spec => []LinksWork
<1>1. ASSUME Init PROVE TokensKept
  BY <1>1 DEF Init, TokensKept
<1>2. ASSUME TypeOK, TokensKept PROVE LinksWork
  <2>1. SUFFICES ASSUME NEW r \in Runs, NEW e \in inbox[r],
                        ~(<<r, e>> \in leaving \cup answered)
                 PROVE  Valid(r, e) \/ day >= run[r].day + TTL
    BY DEF LinksWork
  <2>2. e \in People /\ token[r][e] = "live"
    BY <1>2, <2>1 DEF TypeOK, TokensKept
  <2>3. day \in Nat /\ run[r].day + TTL \in Nat
    BY <1>2, NumbersAssumption DEF TypeOK
  <2> QED BY <2>2, <2>3 DEF Valid
<1>3. Spec => []TokensKept
  BY <1>1, TokensStep, TypingHolds, PTL DEF Spec
<1> QED BY <1>2, <1>3, TypingHolds, PTL
-----------------------------------------------------------------------------
(* One digest a day.                                                       *)

LEMMA MailStep ==
  ASSUME TypeOK, MailSeen, OneMailing, [Next]_vars
  PROVE  MailSeen' /\ OneMailing'
<1> DEFINE Told(r) ==
      /\ run[r].pc \in {"idle", "already", "refused"} => inbox[r] = {}
      /\ inbox[r] # {} => run[r].mailed > 0 \/ run[r].day \in odd
      /\ run[r].pc = "killed" => run[r].day \in odd
<1> DEFINE Busy(r) == Underway(r) \/ inbox[r] # {}
<1>1. /\ run \in [Runs -> RunRecord] /\ inbox \in [Runs -> SUBSET People]
      /\ \A r \in Runs : run[r] \in RunRecord
  BY DEF TypeOK, RunRecord
<1>2. \A r \in Runs : Told(r)
  BY DEF MailSeen
<1>3. \A r, q \in Runs : SameDay(r, q) /\ Busy(r) /\ Busy(q) => run[r].day \in odd
  BY DEF OneMailing
<1>4. SUFFICES /\ \A r \in Runs : Told(r)'
               /\ \A r, q \in Runs : (SameDay(r, q) /\ Busy(r) /\ Busy(q) => run[r].day \in odd)'
  BY DEF MailSeen, OneMailing
\* Steps that only make days odd and runs no busier than they were.
<1>5. ASSUME odd \subseteq odd', \A r \in Runs : run'[r].day = run[r].day /\ (Busy(r)' => Busy(r))
      PROVE  \A r, q \in Runs : (SameDay(r, q) /\ Busy(r) /\ Busy(q) => run[r].day \in odd)'
  BY <1>3, <1>5 DEF SameDay
<1>6. ASSUME UNCHANGED <<run, inbox, odd>>
      PROVE  /\ \A r \in Runs : Told(r)'
             /\ \A r, q \in Runs : (SameDay(r, q) /\ Busy(r) /\ Busy(q) => run[r].day \in odd)'
  BY <1>2, <1>3, <1>6 DEF SameDay, Underway
<1>7. ASSUME NEW r \in Runs, NEW e \in People, Mail(r, e)
      PROVE  /\ \A q \in Runs : Told(q)'
             /\ \A p, q \in Runs : (SameDay(p, q) /\ Busy(p) /\ Busy(q) => run[p].day \in odd)'
  <2>1. PICK got \in {"notoken"} \cup send(r) :
          /\ run' = [run EXCEPT ![r].todo = @ \ {e}, ![r].mailed = @ + (IF got = "ok" THEN 1 ELSE 0)]
          /\ inbox' = IF got \in {"ok", "unanswered"} /\ ~run[r].dry
                      THEN [inbox EXCEPT ![r] = @ \cup {e}] ELSE inbox
          /\ odd' = IF got = "unanswered" THEN odd \cup {run[r].day} ELSE odd
    BY <1>7 DEF Mail
  <2>2. PICK more \in {0, 1} : more = IF got = "ok" THEN 1 ELSE 0
    OBVIOUS
  <2>3. run' = [run EXCEPT ![r] = [run[r] EXCEPT !.todo = @ \ {e}, !.mailed = @ + more]]
    BY <1>1, <2>1, <2>2
  <2>4. /\ run'[r].pc = "mailing" /\ run[r].pc = "mailing" /\ run'[r].day = run[r].day
        /\ run'[r].mailed = run[r].mailed + more /\ run[r].mailed \in Nat
        /\ \A q \in Runs \ {r} : run'[q] = run[q] /\ inbox'[q] = inbox[q]
    <3>1. run[r].pc = "mailing" /\ run[r].mailed \in Nat
      BY <1>1, <1>7 DEF Mail, Underway, RunRecord
    <3>2. run'[r] = [run[r] EXCEPT !.todo = @ \ {e}, !.mailed = @ + more]
      BY <1>1, <2>3
    <3>3. run'[r].pc = run[r].pc /\ run'[r].day = run[r].day /\ run'[r].mailed = run[r].mailed + more
      BY <1>1, <3>2 DEF RunRecord
    <3>4. ASSUME NEW q \in Runs \ {r} PROVE run'[q] = run[q] /\ inbox'[q] = inbox[q]
      BY <1>1, <2>1, <2>3, <3>4
    <3> QED BY <3>1, <3>3, <3>4
  <2>5. odd \subseteq odd'
    BY <2>1
  <2>6. ASSUME NEW q \in Runs \ {r} PROVE Told(q)'
    BY <1>2, <2>4, <2>5, <2>6
  <2>7. Told(r)'
    <3>1. ASSUME inbox'[r] # {} PROVE run'[r].mailed > 0 \/ run'[r].day \in odd'
      <4>1. CASE got = "ok"
        BY <2>2, <2>4, <4>1
      <4>2. CASE got = "unanswered"
        BY <2>1, <2>4, <4>2
      <4>3. CASE got \notin {"ok", "unanswered"}
        <5>1. run[r].mailed > 0 \/ run[r].day \in odd
          BY <1>2, <2>1, <3>1, <4>3
        <5>2. more = 0
          BY <2>2, <4>3
        <5> QED BY <2>4, <2>5, <5>1, <5>2
      <4> QED BY <4>1, <4>2, <4>3
    <3> QED BY <2>4, <3>1
  <2>8. \A q \in Runs : run'[q].day = run[q].day /\ (Busy(q)' => Busy(q))
    BY <2>4 DEF Underway
  <2> QED BY <1>5, <2>5, <2>6, <2>7, <2>8
<1>8. ASSUME NEW r \in Runs, NEW dry \in BOOLEAN, NEW only \in People \cup {Everyone},
             NEW force \in BOOLEAN, Begin(r, dry, only, force)
      PROVE  /\ \A q \in Runs : Told(q)'
             /\ \A p, q \in Runs : (SameDay(p, q) /\ Busy(p) /\ Busy(q) => run[p].day \in odd)'
  <2>1. PICK pc \in {"already", "refused", "mailing"}, todo \in SUBSET People :
          /\ run' = [run EXCEPT ![r] = [pc |-> pc, day |-> day, dry |-> dry, only |-> only,
                                        mailed |-> 0, todo |-> todo]]
          /\ ~force /\ _already_ran_today(day) => pc = "already"
    <3> DEFINE asList == IF only = Everyone THEN active_emails ELSE {only}
               refused ==
                 IF ~force /\ _already_ran_today(day) THEN "already"
                 ELSE IF \/ only # Everyone /\ only \notin active_emails
                         \/ asList = {}
                         \/ Cap > 0 /\ Cardinality(asList) > Cap THEN "refused"
                 ELSE "mailing"
    <3>1. PICK empty \in {{}, {"free"}, {"free", "paid"}} :
            run' = [run EXCEPT ![r] =
              [pc |-> refused, day |-> day, dry |-> dry, only |-> only, mailed |-> 0,
               todo |-> IF refused = "mailing" THEN {e \in asList : tier(e) \notin empty} ELSE {}]]
      BY <1>8 DEF Begin
    <3>2. refused \in {"already", "refused", "mailing"}
      OBVIOUS
    <3>3. ~force /\ _already_ran_today(day) => refused = "already"
      OBVIOUS
    <3>4. refused = "mailing" => asList \subseteq People
      BY DEF active_emails
    <3> HIDE DEF refused, asList
    <3>5. (IF refused = "mailing" THEN {e \in asList : tier(e) \notin empty} ELSE {}) \in SUBSET People
      BY <3>4
    <3> QED BY <3>1, <3>2, <3>3, <3>5
  <2>2. /\ run[r].pc = "idle" /\ inbox[r] = {} /\ UNCHANGED inbox
        /\ odd' = IF force \/ \E q \in Runs : Underway(q) THEN odd \cup {day} ELSE odd
    BY <1>2, <1>8 DEF Begin
  <2>3. /\ run'[r].pc = pc /\ run'[r].day = day
        /\ \A q \in Runs \ {r} : run'[q] = run[q]
    BY <1>1, <2>1
  <2>4. \A q \in Runs : Told(q)'
    <3>1. ASSUME NEW q \in Runs \ {r} PROVE Told(q)'
      BY <1>2, <2>2, <2>3, <3>1
    <3>2. Told(r)'
      BY <2>1, <2>2, <2>3
    <3> QED BY <3>1, <3>2
  <2>5. ASSUME NEW q \in Runs \ {r}, SameDay(r, q)', Busy(r)', Busy(q)' PROVE day \in odd'
    <3>1. pc = "mailing" /\ run[q].day = day /\ Busy(q)
      BY <2>2, <2>3, <2>5 DEF SameDay, Underway
    <3>2. CASE force \/ Underway(q)
      BY <2>2, <3>2
    <3>3. CASE ~force /\ ~Underway(q)
      <4>1. inbox[q] # {} /\ ~_already_ran_today(day)
        BY <2>1, <3>1, <3>3
      <4>2. run[q].pc \in {"done", "killed"}
        BY <1>1, <1>2, <3>3, <4>1 DEF RunRecord, Underway
      <4>3. run[q].pc = "done" => ~(run[q].mailed > 0)
        BY <3>1, <4>1 DEF _already_ran_today
      <4>4. day \in odd
        BY <1>2, <3>1, <4>1, <4>2, <4>3
      <4> QED BY <2>2, <4>4
    <3> QED BY <3>2, <3>3
  <2>6. ASSUME NEW p \in Runs, NEW q \in Runs, SameDay(p, q)', Busy(p)', Busy(q)'
        PROVE  run'[p].day \in odd'
    <3>1. CASE p = r
      BY <2>3, <2>5, <2>6, <3>1 DEF SameDay
    <3>2. CASE q = r
      <4>1. SameDay(r, p)' /\ run'[p].day = day
        BY <2>3, <2>6, <3>2 DEF SameDay
      <4> QED BY <2>5, <2>6, <3>2, <4>1 DEF SameDay
    <3>3. CASE p # r /\ q # r
      <4>1. SameDay(p, q) /\ Busy(p) /\ Busy(q)
        BY <2>2, <2>3, <2>6, <3>3 DEF SameDay, Underway
      <4> QED BY <1>3, <2>2, <2>3, <3>3, <4>1
    <3> QED BY <3>1, <3>2, <3>3
  <2> QED BY <2>4, <2>6
<1>9. ASSUME NEW r \in Runs, _record(r) \/ Kill(r)
      PROVE  /\ \A q \in Runs : Told(q)'
             /\ \A p, q \in Runs : (SameDay(p, q) /\ Busy(p) /\ Busy(q) => run[p].day \in odd)'
  <2>1. /\ run[r].pc = "mailing" /\ UNCHANGED inbox /\ odd \subseteq odd'
        /\ run'[r].day = run[r].day /\ run'[r].mailed = run[r].mailed
        /\ run'[r].pc = "done" \/ (run'[r].pc = "killed" /\ run[r].day \in odd')
        /\ \A q \in Runs \ {r} : run'[q] = run[q]
    BY <1>1, <1>9 DEF _record, Kill, Underway, RunRecord
  <2>2. \A q \in Runs : run'[q].day = run[q].day /\ (Busy(q)' => Busy(q))
    BY <2>1 DEF Underway
  <2>3. \A q \in Runs : Told(q)'
    BY <1>2, <2>1
  <2> QED BY <1>5, <2>1, <2>2, <2>3
<1>10. ASSUME NEW e \in People, RequestLink(e) \/ Verify(e) \/ AccountUnsubscribe(e)
              \/ create_checkout(e) \/ Bills(e) \/ Deliver(e)
       PROVE  UNCHANGED <<run, inbox, odd>>
  BY <1>10 DEF RequestLink, Verify, AccountUnsubscribe, create_checkout, Bills, Deliver, mail
<1>11. ASSUME NEW r \in Runs, NEW e \in People,
              unsubscribe_page(r, e) \/ Confirm(r, e) \/ ConfirmDone(r, e)
       PROVE  UNCHANGED <<run, inbox, odd>>
  BY <1>11 DEF unsubscribe_page, Confirm, ConfirmDone, mail, vars
<1>12. ASSUME Restart \/ GateMoves \/ NewDay \/ UNCHANGED vars
       PROVE  UNCHANGED <<run, inbox, odd>>
  BY <1>12 DEF Restart, GateMoves, NewDay, mail, vars
<1> QED BY <1>6, <1>7, <1>8, <1>9, <1>10, <1>11, <1>12 DEF Next

\* Nobody gets two digests of a day unless somebody forced, overlapped or
\* killed a run of that day or a mail's answer was lost: the guard of
\* send_digest reads the log of runs, which is written after the last mail.
THEOREM OneDigestADay == Spec => []MailedOnce
<1>1. ASSUME Init PROVE MailSeen /\ OneMailing
  BY <1>1 DEF Init, Idle, MailSeen, OneMailing, Underway
<1>2. ASSUME OneMailing PROVE MailedOnce
  BY <1>2 DEF OneMailing, MailedOnce, SameDay
<1>3. Spec => [](MailSeen /\ OneMailing)
  BY <1>1, MailStep, TypingHolds, PTL DEF Spec
<1> QED BY <1>2, <1>3, PTL

-----------------------------------------------------------------------------
(* The rate limiter's bound for every set of clients and buckets, every    *)
(* rate, burst and size of the table, and windows of every length.         *)

Level == [tokens : Nat, ts : Nat]

LimitTypingInv ==
  /\ LimitTypeOK
  /\ levels \in [Buckets -> [Clients -> Level \cup {Absent}]]

LEMMA Numbers ==
  /\ MaxKeys \in Nat /\ Keep \in Nat /\ MaxTime \in Nat /\ Unit \in Nat /\ Unit > 0
  /\ \A b \in Buckets : Rate[b] \in Nat /\ Burst[b] \in Nat /\ Keep * Rate[b] >= Burst[b]
<1>1. \A b \in Buckets : Rate[b] \in Nat /\ Burst[b] \in Nat
  BY RatesAssumption
<1>2. ASSUME NEW b \in Buckets PROVE Keep * Rate[b] >= Burst[b]
  BY <1>1, RatesAssumption, KeepAssumption
<1> QED BY <1>1, <1>2, RatesAssumption

LEMMA LevelNotAbsent == \A l \in Level : l # Absent
BY AbsentAssumption DEF Level

LEMMA Times ==
  ASSUME NEW r \in Nat, NEW a \in Nat, NEW b \in Nat
  PROVE  /\ a * r \in Nat /\ (a + 1) * r = a * r + r
         /\ a <= b => a * r <= b * r
<1>1. a * r \in Nat /\ (a + 1) * r = a * r + r
  OBVIOUS
<1>2. ASSUME a <= b PROVE a * r <= b * r
  <2>1. (b - a) * r >= 0
    BY <1>2
  <2>2. b * r = (b - a) * r + a * r
    BY <1>2
  <2> QED BY <1>1, <2>1, <2>2
<1> QED BY <1>1, <1>2

\* What a client could take now is within the burst.
LEMMA TokensType ==
  ASSUME LimitTypingInv, NEW b \in Buckets, NEW c \in Clients
  PROVE  tokens(b, c) \in 0 .. Burst[b]
<1>1. Burst[b] \in Nat /\ Rate[b] \in Nat
  BY Numbers
<1>2. CASE levels[b][c] = Absent
  BY <1>1, <1>2 DEF tokens
<1>3. CASE levels[b][c] # Absent
  <2>1. levels[b][c].tokens \in 0 .. Burst[b] /\ now - levels[b][c].ts \in Nat
    BY <1>1, <1>3 DEF LimitTypingInv, LimitTypeOK
  <2>2. (now - levels[b][c].ts) * Rate[b] \in Nat
    BY <1>1, <2>1, Times
  <2> QED BY <1>1, <1>3, <2>1, <2>2 DEF tokens, Least
<1> QED BY <1>2, <1>3

\* A level that is old enough to be forgotten has been refilled.
LEMMA OldIsFull ==
  ASSUME LimitTypingInv, NEW b \in Buckets, NEW c \in Clients, levels[b][c] # Absent,
         levels[b][c].ts < now - Keep
  PROVE  tokens(b, c) = Burst[b]
<1>1. /\ Burst[b] \in Nat /\ Rate[b] \in Nat /\ Keep \in Nat /\ Keep * Rate[b] >= Burst[b]
  BY Numbers
<1>2. levels[b][c].tokens \in Nat /\ now - levels[b][c].ts \in Nat /\ Keep <= now - levels[b][c].ts
  BY <1>1 DEF LimitTypingInv, LimitTypeOK
<1>3. (now - levels[b][c].ts) * Rate[b] >= Keep * Rate[b]
  BY <1>1, <1>2, Times
<1>4. (now - levels[b][c].ts) * Rate[b] \in Nat /\ Keep * Rate[b] \in Nat
  BY <1>1, <1>2, Times
<1> QED BY <1>1, <1>2, <1>3, <1>4 DEF tokens, Least

Left(b, c) == tokens(b, c) - (IF allow(b, c) THEN Unit ELSE 0)
Noted(b, c) == [levels[b] EXCEPT ![c] = [tokens |-> Left(b, c), ts |-> now]]

LEMMA NotedType ==
  ASSUME LimitTypingInv, NEW b \in Buckets, NEW c \in Clients
  PROVE  /\ Left(b, c) \in 0 .. Burst[b]
         /\ Noted(b, c) \in [Clients -> Level \cup {Absent}]
         /\ Noted(b, c)[c] = [tokens |-> Left(b, c), ts |-> now]
         /\ \A d \in Clients \ {c} : Noted(b, c)[d] = levels[b][d]
         /\ Seen(b, c) = Noted(b, c) \/ Seen(b, c) = pruned(Noted(b, c))
<1>1. Burst[b] \in Nat /\ Unit \in Nat /\ now \in Nat
  BY Numbers DEF LimitTypingInv, LimitTypeOK
<1>2. Left(b, c) \in 0 .. Burst[b]
  BY <1>1, TokensType DEF Left, allow
<1>3. levels[b] \in [Clients -> Level \cup {Absent}]
  BY DEF LimitTypingInv
<1>4. [tokens |-> Left(b, c), ts |-> now] \in Level
  BY <1>1, <1>2 DEF Level
<1>5. Seen(b, c) = Noted(b, c) \/ Seen(b, c) = pruned(Noted(b, c))
  BY DEF Seen, Noted, Left
<1> QED BY <1>2, <1>3, <1>4, <1>5 DEF Noted

\* Looking at a client takes a token of it if it may have one, and nothing
\* else: what is forgotten was full.
LEMMA SeenTakes ==
  ASSUME LimitTypingInv, NEW b \in Buckets, NEW c \in Clients, NEW d \in Clients,
         levels'[b] = Seen(b, c), UNCHANGED now
  PROVE  tokens(b, d)' = IF d = c THEN Left(b, c) ELSE tokens(b, d)
<1> DEFINE noted == Noted(b, c)
<1>1. /\ Burst[b] \in Nat /\ Rate[b] \in Nat /\ Keep \in Nat /\ now \in Nat
  BY Numbers DEF LimitTypingInv, LimitTypeOK
<1>4. \/ levels'[b] = noted
      \/ levels'[b] = [x \in Clients |->
                         IF noted[x] # Absent /\ noted[x].ts < now - Keep THEN Absent ELSE noted[x]]
  BY NotedType DEF pruned
<1>2. CASE d = c
  <2>1. noted[c] = [tokens |-> Left(b, c), ts |-> now] /\ noted[c] # Absent
    <3>1. noted[c] = [tokens |-> Left(b, c), ts |-> now] /\ Left(b, c) \in Nat
      BY <1>1, NotedType
    <3>2. noted[c] \in Level
      BY <1>1, <3>1 DEF Level
    <3> QED BY <3>1, <3>2, LevelNotAbsent
  <2>2. ~(noted[c].ts < now - Keep)
    BY <1>1, <2>1
  <2>3. levels'[b][c] = noted[c]
    <3> HIDE DEF noted
    <3> QED BY <1>4, <2>2
  <2>4. (now - now) * Rate[b] = 0
    BY <1>1
  <2>5. Left(b, c) \in 0 .. Burst[b]
    BY NotedType
  <2> QED BY <1>1, <1>2, <2>1, <2>3, <2>4, <2>5 DEF tokens, Least
<1>3. CASE d # c
  <2>1. noted[d] = levels[b][d]
    BY <1>3, NotedType
  <2>2. \/ levels'[b][d] = levels[b][d]
        \/ levels'[b][d] = Absent /\ levels[b][d] # Absent /\ levels[b][d].ts < now - Keep
    <3> HIDE DEF noted
    <3> QED BY <1>4, <2>1
  <2>3. CASE levels'[b][d] = levels[b][d]
    BY <1>3, <2>3 DEF tokens
  <2>4. CASE levels'[b][d] = Absent /\ levels[b][d] # Absent /\ levels[b][d].ts < now - Keep
    BY <1>3, <2>4, OldIsFull DEF tokens
  <2> QED BY <2>2, <2>3, <2>4
<1> QED BY <1>2, <1>3

LEMMA SeenType ==
  ASSUME LimitTypingInv, NEW b \in Buckets, NEW c \in Clients
  PROVE  /\ Seen(b, c) \in [Clients -> Level \cup {Absent}]
         /\ \A d \in Clients : Seen(b, c)[d] # Absent =>
              Seen(b, c)[d].tokens \in 0 .. Burst[b] /\ Seen(b, c)[d].ts \in 0 .. now
<1> DEFINE noted == Noted(b, c)
<1>1. now \in Nat /\ Burst[b] \in Nat
  BY Numbers DEF LimitTypingInv, LimitTypeOK
<1>2. \/ Seen(b, c) = noted
      \/ Seen(b, c) = [x \in Clients |->
                         IF noted[x] # Absent /\ noted[x].ts < now - Keep THEN Absent ELSE noted[x]]
  BY NotedType DEF pruned
<1>3. noted \in [Clients -> Level \cup {Absent}]
  BY NotedType
<1>4. ASSUME NEW d \in Clients, noted[d] # Absent
      PROVE  noted[d].tokens \in 0 .. Burst[b] /\ noted[d].ts \in 0 .. now
  <2>1. CASE d = c
    <3>1. noted[c] = [tokens |-> Left(b, c), ts |-> now] /\ Left(b, c) \in 0 .. Burst[b]
      BY NotedType
    <3> QED BY <1>1, <2>1, <3>1
  <2>2. CASE d # c
    <3>1. noted[d] = levels[b][d]
      BY <2>2, NotedType
    <3> QED BY <1>4, <3>1 DEF LimitTypingInv, LimitTypeOK
  <2> QED BY <2>1, <2>2
<1> HIDE DEF noted
<1>5. Seen(b, c) \in [Clients -> Level \cup {Absent}]
  BY <1>2, <1>3
<1>6. \A d \in Clients : Seen(b, c)[d] # Absent => Seen(b, c)[d] = noted[d] /\ noted[d] # Absent
  BY <1>2
<1> QED BY <1>4, <1>5, <1>6

-----------------------------------------------------------------------------
LEMMA LimitTypingStep ==
  ASSUME LimitTypingInv, [LimitNext]_limit
  PROVE  LimitTypingInv'
<1> USE Numbers
<1>1. ASSUME NEW path \in Buckets, NEW c \in Clients, check(path, c) PROVE LimitTypingInv'
  <2>1. /\ now' = now /\ since' = since
        /\ levels' = [b \in Buckets |-> IF b \in Passes(path) THEN Seen(b, c) ELSE levels[b]]
        /\ spent' = [b \in Buckets |->
                       IF b \in Passes(path) /\ allow(b, c)
                       THEN [spent[b] EXCEPT ![c] = @ + 1] ELSE spent[b]]
    BY <1>1 DEF check
  <2>2. levels' \in [Buckets -> [Clients -> Level \cup {Absent}]]
    BY <2>1, SeenType DEF LimitTypingInv
  <2>3. ASSUME NEW b \in Buckets, NEW d \in Clients, levels'[b][d] # Absent
        PROVE  levels'[b][d].tokens \in 0 .. Burst[b] /\ levels'[b][d].ts \in 0 .. now
    <3>1. CASE b \in Passes(path)
      BY <2>1, <2>3, <3>1, SeenType
    <3>2. CASE b \notin Passes(path)
      BY <2>1, <2>3, <3>2 DEF LimitTypingInv, LimitTypeOK
    <3> QED BY <3>1, <3>2
  <2>4. spent' \in [Buckets -> [Clients -> Nat]]
    <3>1. ASSUME NEW b \in Buckets PROVE spent'[b] \in [Clients -> Nat]
      <4>1. spent[b] \in [Clients -> Nat]
        BY DEF LimitTypingInv, LimitTypeOK
      <4> QED BY <2>1, <4>1
    <3> QED BY <2>1, <3>1
  <2> QED BY <2>1, <2>2, <2>3, <2>4 DEF LimitTypingInv, LimitTypeOK
<1>2. CASE Tick
  BY <1>2 DEF Tick, LimitTypingInv, LimitTypeOK
<1>3. CASE Watch
  BY <1>3 DEF Watch, LimitTypingInv, LimitTypeOK
<1>4. CASE UNCHANGED limit
  BY <1>4 DEF limit, LimitTypingInv, LimitTypeOK
<1> QED BY <1>1, <1>2, <1>3, <1>4 DEF LimitNext

(* What was spent in the window and what could be spent now are together   *)
(* within the bound.                                                       *)
Window ==
  \A b \in Buckets, c \in Clients :
    spent[b][c] * Unit + tokens(b, c) <= Burst[b] + Rate[b] * (now - since)

LEMMA WindowStep ==
  ASSUME LimitTypingInv, Window, [LimitNext]_limit, LimitTypingInv'
  PROVE  Window'
<1> SUFFICES ASSUME NEW b \in Buckets, NEW c \in Clients
             PROVE  spent'[b][c] * Unit + tokens(b, c)' <= Burst[b] + Rate[b] * (now' - since')
  BY DEF Window
<1>1. /\ Unit \in Nat /\ Burst[b] \in Nat /\ Rate[b] \in Nat
      /\ now \in Nat /\ since \in Nat /\ now - since \in Nat
      /\ spent[b] \in [Clients -> Nat] /\ spent[b][c] \in Nat
      /\ tokens(b, c) \in 0 .. Burst[b]
  BY Numbers, TokensType DEF LimitTypingInv, LimitTypeOK
<1>2. spent[b][c] * Unit + tokens(b, c) <= Burst[b] + Rate[b] * (now - since)
  BY DEF Window
<1>3. /\ spent[b][c] * Unit \in Nat /\ (spent[b][c] + 1) * Unit = spent[b][c] * Unit + Unit
      /\ Rate[b] * (now - since) \in Nat
      /\ Rate[b] * ((now - since) + 1) = Rate[b] * (now - since) + Rate[b]
  BY <1>1, Times
<1>4. ASSUME NEW path \in Buckets, NEW d \in Clients, check(path, d)
      PROVE  spent'[b][c] * Unit + tokens(b, c)' <= Burst[b] + Rate[b] * (now' - since')
  <2>1. /\ now' = now /\ since' = since
        /\ levels'[b] = IF b \in Passes(path) THEN Seen(b, d) ELSE levels[b]
        /\ spent'[b] = IF b \in Passes(path) /\ allow(b, d)
                       THEN [spent[b] EXCEPT ![d] = @ + 1] ELSE spent[b]
    BY <1>4 DEF check
  <2>2. CASE b \in Passes(path)
    <3>1. tokens(b, c)' = IF c = d THEN Left(b, d) ELSE tokens(b, c)
      BY <2>1, <2>2, SeenTakes
    <3>2. spent'[b][c] = IF c = d /\ allow(b, d) THEN spent[b][c] + 1 ELSE spent[b][c]
      BY <1>1, <2>1, <2>2
    <3> QED BY <1>1, <1>2, <1>3, <2>1, <3>1, <3>2 DEF Left
  <2>3. CASE b \notin Passes(path)
    <3>1. tokens(b, c)' = tokens(b, c)
      BY <2>1, <2>3 DEF tokens
    <3> QED BY <1>2, <2>1, <2>3, <3>1
  <2> QED BY <2>2, <2>3
<1>5. CASE Tick
  <2>1. now' = now + 1 /\ since' = since /\ levels' = levels /\ spent' = spent
    BY <1>5 DEF Tick
  <2>2. tokens(b, c)' \in Int /\ tokens(b, c)' <= tokens(b, c) + Rate[b]
    <3>1. CASE levels[b][c] = Absent
      BY <1>1, <2>1, <3>1 DEF tokens
    <3>2. CASE levels[b][c] # Absent
      <4>1. levels[b][c].tokens \in 0 .. Burst[b] /\ levels[b][c].ts \in 0 .. now
        BY <3>2 DEF LimitTypingInv, LimitTypeOK
      <4>2. now - levels[b][c].ts \in Nat /\ now' - levels[b][c].ts = (now - levels[b][c].ts) + 1
        BY <1>1, <2>1, <4>1
      <4>3. /\ (now' - levels[b][c].ts) * Rate[b] = (now - levels[b][c].ts) * Rate[b] + Rate[b]
            /\ (now - levels[b][c].ts) * Rate[b] \in Nat
        BY <1>1, <4>2, Times
      <4> QED BY <1>1, <2>1, <3>2, <4>1, <4>3 DEF tokens, Least
    <3> QED BY <3>1, <3>2
  <2>3. now' - since' = (now - since) + 1
    BY <1>1, <2>1
  <2> QED BY <1>1, <1>2, <1>3, <2>1, <2>2, <2>3
<1>6. CASE Watch
  <2>1. since' = now /\ now' = now /\ levels' = levels /\ spent'[b][c] = 0
    BY <1>6 DEF Watch
  <2>2. tokens(b, c)' = tokens(b, c)
    BY <2>1 DEF tokens
  <2> QED BY <1>1, <2>1, <2>2
<1>7. CASE UNCHANGED limit
  <2>1. now' = now /\ since' = since /\ levels' = levels /\ spent' = spent
    BY <1>7 DEF limit
  <2>2. tokens(b, c)' = tokens(b, c)
    BY <2>1 DEF tokens
  <2> QED BY <1>2, <2>1, <2>2
<1> QED BY <1>4, <1>5, <1>6, <1>7 DEF LimitNext

\* Over a window of any length a client gets from a bucket at most its burst
\* and what the bucket refills meanwhile (publisher/ratelimit.py), for every
\* rate and number of clients, although levels are forgotten under load.
THEOREM BucketBounded == LimitSpec => [](LimitTypeOK /\ BucketBound)
<1>1. LimitInit => LimitTypingInv /\ Window
  <2> SUFFICES ASSUME LimitInit PROVE LimitTypingInv /\ Window
    OBVIOUS
  <2>1. LimitTypingInv
    BY Numbers DEF LimitInit, LimitTypingInv, LimitTypeOK
  <2>2. ASSUME NEW b \in Buckets, NEW c \in Clients
        PROVE  spent[b][c] * Unit + tokens(b, c) <= Burst[b] + Rate[b] * (now - since)
    <3>1. tokens(b, c) = Burst[b] /\ spent[b][c] = 0 /\ now - since = 0
      BY DEF LimitInit, tokens
    <3> QED BY <3>1, Numbers
  <2> QED BY <2>1, <2>2 DEF Window
<1>2. LimitTypingInv /\ Window /\ [LimitNext]_limit => LimitTypingInv' /\ Window'
  BY LimitTypingStep, WindowStep
<1>3. LimitTypingInv => LimitTypeOK
  BY DEF LimitTypingInv
<1>4. LimitTypingInv /\ Window => BucketBound
  <2> SUFFICES ASSUME LimitTypingInv, Window, NEW b \in Buckets, NEW c \in Clients
               PROVE  spent[b][c] * Unit <= Burst[b] + Rate[b] * (now - since)
    BY DEF BucketBound
  <2>1. /\ tokens(b, c) \in 0 .. Burst[b] /\ Burst[b] \in Nat
        /\ spent[b][c] * Unit \in Nat /\ Rate[b] * (now - since) \in Nat
    BY Numbers, TokensType, Times DEF LimitTypingInv, LimitTypeOK
  <2> QED BY <2>1 DEF Window
<1> QED BY <1>1, <1>2, <1>3, <1>4, PTL DEF LimitSpec

-----------------------------------------------------------------------------
(* The bot's own posts.                                                    *)

Statuses == {"none", "posted", "failed", "x_disabled", "dry_run", "no_credentials"}
WorkRecord ==
  [job : {"none", "plan", "review", "cycle", "backfill"},
   pc : {"idle", "mark", "gather", "journal", "next", "post", "archive", "tell"},
   post : Posts \cup {NoPost}, linked : BOOLEAN, todo : SUBSET Trades, known : SUBSET Trades,
   live : BOOLEAN, status : Statuses]
Row == [post : Posts, status : Statuses, linked : BOOLEAN]

PostsTypes ==
  /\ date \in 1 .. PostDays /\ hour \in {"early", "plan", "late"} /\ marker \in 0 .. PostDays
  /\ conf \in [enabled : BOOLEAN, dry : BOOLEAN, keys : BOOLEAN, base : BOOLEAN]
  /\ opened \subseteq Trades /\ closed \subseteq opened /\ journaled \subseteq Trades
  /\ archive \subseteq Row /\ degraded \subseteq Posts
  /\ work \in [Workers -> WorkRecord]
  /\ tweets \in [Posts -> Nat] /\ again \subseteq 1 .. PostDays /\ excused \subseteq Trades
  /\ untold \subseteq Posts

\* Where a process is says what it has in hand.
Shape(w) ==
  /\ work[w].pc = "idle" => work[w] = AtRest
  /\ work[w].pc \in {"mark", "gather"} => work[w].job = "plan" /\ work[w].post = NoPost
  /\ work[w].pc = "next" => work[w].job = "backfill" /\ work[w].post = NoPost
  /\ work[w].pc = "journal" => work[w].post \in Recaps
  /\ work[w].pc \in {"post", "archive", "tell"} => work[w].post \in Posts
  /\ \A d \in 1 .. PostDays :
       work[w].post = Plan(d) => work[w].job = "plan" /\ d = date
  /\ work[w].job # "backfill" => work[w].todo = {}
  /\ work[w].job = "plan" => work[w].pc \in {"mark", "gather", "post", "archive", "tell"}
  /\ work[w].job = "plan" /\ work[w].pc \in {"post", "archive", "tell"} => work[w].post = Plan(date)
  /\ work[w].pc = "archive" /\ work[w].status = "posted" => tweets[work[w].post] > 0
Shapes == \A w \in Workers : Shape(w)

\* On a day whose plan had one run at a time, and no slot after a catch-up: one
\* process has the plan, and publishes it once and only below the marker.
OnePlan ==
  /\ \A v, w \in Workers : v # w => ~(work[v].job = "plan" /\ work[w].job = "plan")
  /\ tweets[Plan(date)] > 0 => marker = date
  /\ \A w \in Workers :
       work[w].job = "plan" =>
         /\ work[w].pc \in {"mark", "gather", "post"} => tweets[Plan(date)] = 0
         /\ work[w].pc # "mark" => marker = date
PlanInv ==
  /\ PlanOnce
  /\ \A d \in 1 .. PostDays : d > date => tweets[Plan(d)] = 0
  /\ marker <= date
  /\ date \in again \/ OnePlan

\* A trade that lost no step and was in one hand at a time: who is about to
\* publish finds nothing published, and what was published is in the archive or
\* on its way there.
Holds(w, t) == t \in TradeOf(work[w].post) \cup work[w].todo
Carries(w, t) ==
  work[w].pc = "archive" /\ work[w].post = Entry(t) /\ work[w].status = "posted" /\ work[w].linked
InOneHand(t) == \A v, w \in Workers : v # w => ~(Holds(v, t) /\ Holds(w, t))
Unpublished(w, t) ==
  /\ t \in work[w].todo => tweets[Entry(t)] = 0 /\ t \notin TradeOf(work[w].post)
  /\ work[w].pc \in {"journal", "post"} =>
       /\ work[w].post = Entry(t) => tweets[Entry(t)] = 0
       /\ work[w].post = Exit(t) => tweets[Exit(t)] = 0
  /\ work[w].pc = "archive" /\ work[w].post = Entry(t) /\ tweets[Entry(t)] > 0 =>
       work[w].status = "posted"
  /\ work[w].pc \in {"post", "archive"} /\ work[w].post \in {Entry(t), Exit(t)} => work[w].linked
Archived(t) ==
  tweets[Entry(t)] > 0 => t \in posted_ids \/ \E w \in Workers : Carries(w, t)
NotYet(t) ==
  /\ t \notin opened => tweets[Entry(t)] = 0 /\ \A w \in Workers : ~Holds(w, t)
  /\ t \notin closed => tweets[Exit(t)] = 0 /\ \A w \in Workers : work[w].post # Exit(t)
TradeInv(t) ==
  /\ tweets[Entry(t)] <= 1 /\ tweets[Exit(t)] <= 1
  /\ InOneHand(t) /\ (\A w \in Workers : Unpublished(w, t)) /\ Archived(t) /\ NotYet(t)
RecapInv == conf.base => \A t \in Trades \ excused : TradeInv(t)

PostsInv == PostsTypes /\ Shapes /\ PlanInv /\ RecapInv /\ ArchiveTrue

-----------------------------------------------------------------------------
LEMMA PostNames ==
  /\ \A t, u \in Trades :
       /\ Entry(t) # Exit(u) /\ (Entry(t) = Entry(u) => t = u) /\ (Exit(t) = Exit(u) => t = u)
       /\ Entry(t) # NoPost /\ Exit(t) # NoPost
       /\ Entry(t) \in Posts /\ Exit(t) \in Posts /\ Entry(t) \in Recaps /\ Exit(t) \in Recaps
       /\ Entry(t)[2] = t /\ Exit(t)[2] = t
  /\ \A d \in 1 .. PostDays :
       /\ Plan(d) \in Posts /\ Review(d) \in Posts /\ Plan(d) # NoPost /\ Review(d) # NoPost
       /\ \A e \in 1 .. PostDays : Plan(d) # Review(e) /\ (Plan(d) = Plan(e) => d = e)
       /\ \A t \in Trades : {Plan(d), Review(d)} \cap {Entry(t), Exit(t)} = {}
  /\ NoPost \notin Posts
  BY DEF Posts, Recaps, Plan, Review, Entry, Exit, NoPost

LEMMA TradesOf ==
  /\ \A t \in Trades : TradeOf(Entry(t)) = {t} /\ TradeOf(Exit(t)) = {t}
  /\ \A d \in 1 .. PostDays : TradeOf(Plan(d)) = {} /\ TradeOf(Review(d)) = {}
  /\ TradeOf(NoPost) = {}
<1>1. \A t \in Trades : TradeOf(Entry(t)) = {t} /\ TradeOf(Exit(t)) = {t}
  BY DEF TradeOf, Entry, Exit
<1>2. \A d \in 1 .. PostDays : TradeOf(Plan(d)) = {} /\ TradeOf(Review(d)) = {}
  BY PostsAssumption DEF TradeOf, Plan, Review
<1>3. TradeOf(NoPost) = {}
  BY PostsAssumption DEF TradeOf, NoPost
<1> QED BY <1>1, <1>2, <1>3

LEMMA RecapsAre == \A post \in Recaps : post \in Posts /\ \E t \in Trades : post \in {Entry(t), Exit(t)} /\ post[2] = t
  BY DEF Recaps, Posts, Entry, Exit

LEMMA PostsAre ==
  \A post \in Posts :
    \/ \E d \in 1 .. PostDays : post \in {Plan(d), Review(d)}
    \/ post \in Recaps
  BY DEF Posts

LEMMA AtRestRecord == AtRest \in WorkRecord
  BY DEF AtRest, WorkRecord, Statuses

LEMMA SetOne ==
  ASSUME NEW w \in Workers, NEW new \in WorkRecord, work \in [Workers -> WorkRecord], Set(w, new)
  PROVE  /\ work' \in [Workers -> WorkRecord]
         /\ work'[w] = new /\ \A v \in Workers \ {w} : work'[v] = work[v]
  BY DEF Set

\* What each action leaves in the hands of its process.
LEMMA NewWork ==
  ASSUME PostsTypes, Shapes, NEW w \in Workers
  PROVE  /\ [AtRest EXCEPT !.job = "plan", !.pc = "mark"] \in WorkRecord
         /\ [work[w] EXCEPT !.pc = "gather"] \in WorkRecord
         /\ [work[w] EXCEPT !.pc = "post", !.post = Plan(date)] \in WorkRecord
         /\ [AtRest EXCEPT !.job = "review", !.pc = "post", !.post = Review(date)] \in WorkRecord
         /\ \A t \in Trades :
              /\ [AtRest EXCEPT !.job = "cycle", !.pc = "journal", !.post = Entry(t)] \in WorkRecord
              /\ [AtRest EXCEPT !.job = "cycle", !.pc = "journal", !.post = Exit(t)] \in WorkRecord
         /\ \A live \in BOOLEAN, todo \in SUBSET Trades :
              [AtRest EXCEPT !.job = "backfill", !.pc = "next", !.live = live, !.todo = todo,
                             !.known = journaled] \in WorkRecord
         /\ \A t \in Trades, pc \in {"post", "journal"} :
              [work[w] EXCEPT !.todo = @ \ {t}, !.post = Entry(t), !.linked = conf.base,
                              !.pc = pc] \in WorkRecord
         /\ \A l \in BOOLEAN : [work[w] EXCEPT !.pc = "post", !.linked = l] \in WorkRecord
         /\ \A s \in Statuses :
              [work[w] EXCEPT !.pc = "archive", !.status = s] \in WorkRecord
         /\ [work[w] EXCEPT !.pc = "tell"] \in WorkRecord
         /\ [work[w] EXCEPT !.pc = "next", !.post = NoPost, !.status = "none"] \in WorkRecord
<1> USE PostNames DEF PostsTypes
<1> DEFINE mine == work[w]
<1>1. mine \in WorkRecord
  OBVIOUS
<1>2. AtRest \in WorkRecord
  BY AtRestRecord
<1>3. conf.base \in BOOLEAN
  OBVIOUS
<1> HIDE DEF mine
<1>4. \A t \in Trades, pc \in {"post", "journal"} :
        [mine EXCEPT !.todo = @ \ {t}, !.post = Entry(t), !.linked = conf.base, !.pc = pc] \in WorkRecord
  BY <1>1, <1>3 DEF WorkRecord
<1>5. /\ [mine EXCEPT !.pc = "gather"] \in WorkRecord
      /\ [mine EXCEPT !.pc = "post", !.post = Plan(date)] \in WorkRecord
      /\ \A l \in BOOLEAN : [mine EXCEPT !.pc = "post", !.linked = l] \in WorkRecord
  BY <1>1 DEF WorkRecord
<1>6. /\ \A s \in Statuses : [mine EXCEPT !.pc = "archive", !.status = s] \in WorkRecord
      /\ [mine EXCEPT !.pc = "tell"] \in WorkRecord
      /\ [mine EXCEPT !.pc = "next", !.post = NoPost, !.status = "none"] \in WorkRecord
  BY <1>1 DEF WorkRecord, Statuses
<1>7. /\ [AtRest EXCEPT !.job = "plan", !.pc = "mark"] \in WorkRecord
      /\ [AtRest EXCEPT !.job = "review", !.pc = "post", !.post = Review(date)] \in WorkRecord
      /\ \A t \in Trades :
           /\ [AtRest EXCEPT !.job = "cycle", !.pc = "journal", !.post = Entry(t)] \in WorkRecord
           /\ [AtRest EXCEPT !.job = "cycle", !.pc = "journal", !.post = Exit(t)] \in WorkRecord
  BY <1>2 DEF WorkRecord
<1>8. \A live \in BOOLEAN, todo \in SUBSET Trades :
        [AtRest EXCEPT !.job = "backfill", !.pc = "next", !.live = live, !.todo = todo,
                       !.known = journaled] \in WorkRecord
  BY <1>2 DEF WorkRecord
<1> QED BY <1>4, <1>5, <1>6, <1>7, <1>8 DEF mine

-----------------------------------------------------------------------------
(* What a step of one process, w, has to show.                             *)

OnlyThis(w) == \A v \in Workers \ {w} : work'[v] = work[v]
NoneUnsent == \A post \in Posts : tweets'[post] >= tweets[post]

LEMMA ShapesStay ==
  ASSUME PostsTypes, PostsTypes', Shapes, NEW w \in Workers, OnlyThis(w), date' = date, NoneUnsent,
         Shape(w)'
  PROVE  Shapes'
<1> SUFFICES ASSUME NEW v \in Workers \ {w} PROVE Shape(v)'
  BY DEF Shapes
<1>1. Shape(v) /\ work'[v] = work[v]
  BY DEF Shapes, OnlyThis
<1>2. work[v].pc = "archive" => work[v].post \in Posts /\ tweets'[work[v].post] >= tweets[work[v].post]
  BY <1>1 DEF Shape, NoneUnsent
<1>3. \A post \in Posts : tweets[post] \in Nat /\ tweets'[post] \in Nat
  BY DEF PostsTypes
<1> QED BY <1>1, <1>2, <1>3 DEF Shape

LEMMA PlanStays ==
  ASSUME PostsTypes, PostsTypes', PlanInv, NEW w \in Workers, OnlyThis(w), date' = date,
         \A d \in 1 .. PostDays : tweets'[Plan(d)] = tweets[Plan(d)],
         again \subseteq again', marker' \in {marker, date},
         date \notin again' /\ work'[w].job = "plan" =>
           /\ \A v \in Workers \ {w} : work[v].job # "plan"
           /\ work'[w].pc \in {"mark", "gather", "post"} => tweets[Plan(date)] = 0
           /\ work'[w].pc # "mark" => marker' = date
  PROVE  PlanInv'
<1>1. PlanOnce' /\ (\A d \in 1 .. PostDays : d > date => tweets'[Plan(d)] = 0) /\ marker' <= date
  BY DEF PlanInv, PlanOnce, PostsTypes
<1>2. ASSUME date \notin again' PROVE OnePlan'
  <2>1. OnePlan
    BY <1>2 DEF PlanInv
  <2>2. date \in 1 .. PostDays /\ tweets'[Plan(date)] = tweets[Plan(date)]
    BY DEF PostsTypes
  <2>3. tweets'[Plan(date)] > 0 => marker' = date
    BY <2>1, <2>2 DEF OnePlan
  <2>4. ASSUME NEW u \in Workers, NEW v \in Workers, u # v
        PROVE  ~(work'[u].job = "plan" /\ work'[v].job = "plan")
    BY <1>2, <2>1, <2>4 DEF OnePlan, OnlyThis
  <2>5. ASSUME NEW v \in Workers, work'[v].job = "plan"
        PROVE  /\ work'[v].pc \in {"mark", "gather", "post"} => tweets'[Plan(date)] = 0
               /\ work'[v].pc # "mark" => marker' = date
    BY <1>2, <2>1, <2>2, <2>5 DEF OnePlan, OnlyThis
  <2> QED BY <2>3, <2>4, <2>5 DEF OnePlan
<1> QED BY <1>1, <1>2 DEF PlanInv

LEMMA TradeStays ==
  ASSUME NEW w \in Workers, NEW t \in Trades, OnlyThis(w), TradeInv(t),
         tweets'[Entry(t)] = tweets[Entry(t)], tweets'[Exit(t)] = tweets[Exit(t)],
         opened \subseteq opened', closed \subseteq closed', archive \subseteq archive',
         Holds(w, t)' => t \in opened' /\ \A v \in Workers \ {w} : ~Holds(v, t),
         work'[w].post = Exit(t) => t \in closed',
         Unpublished(w, t)',
         Carries(w, t) => Carries(w, t)' \/ t \in posted_ids'
  PROVE  TradeInv(t)'
<1>1. ASSUME NEW v \in Workers \ {w}
      PROVE  /\ Holds(v, t)' <=> Holds(v, t)
             /\ Carries(v, t)' <=> Carries(v, t)
             /\ Unpublished(v, t)' <=> Unpublished(v, t)
             /\ work'[v].post = work[v].post
  <2>1. work'[v] = work[v]
    BY DEF OnlyThis
  <2>2. Holds(v, t)' <=> Holds(v, t)
    BY <2>1 DEF Holds, TradeOf
  <2>3. Carries(v, t)' <=> Carries(v, t)
    BY <2>1 DEF Carries
  <2>4. Unpublished(v, t)' <=> Unpublished(v, t)
    BY <2>1 DEF Unpublished, TradeOf
  <2> QED BY <2>1, <2>2, <2>3, <2>4
<1>2. InOneHand(t)'
  <2> SUFFICES ASSUME NEW u \in Workers, NEW v \in Workers, u # v PROVE ~(Holds(u, t)' /\ Holds(v, t)')
    BY DEF InOneHand
  <2>1. CASE u = w
    BY <2>1, <1>1
  <2>2. CASE v = w
    BY <2>2, <1>1
  <2>3. CASE u # w /\ v # w
    BY <2>3, <1>1 DEF TradeInv, InOneHand
  <2> QED BY <2>1, <2>2, <2>3
<1>3. \A v \in Workers : Unpublished(v, t)'
  BY <1>1 DEF TradeInv
<1>4. t \in posted_ids => t \in posted_ids'
  BY DEF posted_ids, TradeOf
<1>5. Archived(t)'
  <2> SUFFICES ASSUME tweets'[Entry(t)] > 0, t \notin posted_ids'
               PROVE  \E v \in Workers : Carries(v, t)'
    BY DEF Archived
  <2>1. PICK v \in Workers : Carries(v, t)
    BY <1>4 DEF TradeInv, Archived
  <2> QED BY <2>1, <1>1
<1>6. NotYet(t)'
  <2>1. ASSUME t \notin opened' PROVE tweets'[Entry(t)] = 0 /\ \A v \in Workers : ~Holds(v, t)'
    BY <2>1, <1>1 DEF TradeInv, NotYet
  <2>2. ASSUME t \notin closed'
        PROVE  tweets'[Exit(t)] = 0 /\ \A v \in Workers : work'[v].post # Exit(t)
    BY <2>2, <1>1 DEF TradeInv, NotYet
  <2> QED BY <2>1, <2>2 DEF NotYet
<1>7. tweets'[Entry(t)] <= 1 /\ tweets'[Exit(t)] <= 1
  BY DEF TradeInv
<1> QED BY <1>2, <1>3, <1>5, <1>6, <1>7 DEF TradeInv

LEMMA ArchiveStays ==
  ASSUME PostsTypes, PostsTypes', ArchiveTrue, NoneUnsent, archive' = archive,
         NEW w \in Workers, OnlyThis(w),
         degraded \subseteq degraded', untold \subseteq untold',
         work[w].pc = "tell" => work[w].post \in degraded' \cup untold'
  PROVE  ArchiveTrue'
<1> SUFFICES ASSUME NEW row \in archive
             PROVE  /\ row.status = "posted" => tweets'[row.post] > 0
                    /\ row.status \in {"failed", "no_credentials"} =>
                         \/ row.post \in degraded' \cup untold'
                         \/ \E v \in Workers : work'[v].pc = "tell" /\ work'[v].post = row.post
  BY DEF ArchiveTrue, At
<1>1. row.post \in Posts
  BY DEF PostsTypes, Row
<1>2. tweets'[row.post] >= tweets[row.post] /\ tweets'[row.post] \in Nat /\ tweets[row.post] \in Nat
  BY <1>1 DEF NoneUnsent, PostsTypes
<1>3. row.status = "posted" => tweets[row.post] > 0
  BY DEF ArchiveTrue
<1>4. ASSUME row.status \in {"failed", "no_credentials"}, row.post \notin degraded' \cup untold'
      PROVE  \E v \in Workers : work'[v].pc = "tell" /\ work'[v].post = row.post
  <2>1. PICK v \in Workers : work[v].pc = "tell" /\ work[v].post = row.post
    BY <1>4 DEF ArchiveTrue, At
  <2>2. v # w
    BY <1>4, <2>1
  <2> QED BY <2>1, <2>2 DEF OnlyThis
<1> QED BY <1>2, <1>3, <1>4

\* A process that has no trade in hand after its step.
LEMMA LetsGo ==
  ASSUME RecapInv, NEW w \in Workers, OnlyThis(w), conf'.base = conf.base, excused \subseteq excused',
         tweets' = tweets, opened' = opened, closed' = closed, archive \subseteq archive',
         work'[w].todo = {}, \A t \in Trades : t \notin TradeOf(work'[w].post),
         \A t \in Trades \ excused' : Carries(w, t) => t \in posted_ids'
  PROVE  RecapInv'
<1> SUFFICES ASSUME conf.base, NEW t \in Trades \ excused' PROVE TradeInv(t)'
  BY DEF RecapInv
<1>1. TradeInv(t)
  BY DEF RecapInv
<1>2. t \notin TradeOf(work'[w].post) /\ work'[w].post \notin {Entry(t), Exit(t)}
  BY TradesOf
<1>3. ~Holds(w, t)' /\ Unpublished(w, t)'
  BY <1>2 DEF Holds, Unpublished, TradeOf
<1> QED BY <1>1, <1>2, <1>3, TradeStays

LEMMA PlanBegins ==
  ASSUME PostsInv, NEW w \in Workers, Catchup(w) \/ PlanSlot(w)
  PROVE  PostsInv'
<1> DEFINE new == [AtRest EXCEPT !.job = "plan", !.pc = "mark"]
<1>1. /\ work[w].pc = "idle" /\ Set(w, new) /\ UNCHANGED <<date, hour, conf, files, ledger, tweets, excused, untold>>
      /\ again' = again \/ again' = again \cup {date}
      /\ date \notin again' => marker # date /\ ~Planning(w)
  BY DEF Catchup, PlanSlot, should_catchup, Start, At, files, ledger
<1>2. PostsTypes /\ Shapes /\ PlanInv /\ RecapInv /\ ArchiveTrue /\ work[w] = AtRest
  BY <1>1 DEF PostsInv, Shapes, Shape
<1>3. work' \in [Workers -> WorkRecord] /\ work'[w] = new /\ OnlyThis(w)
  BY <1>1, <1>2, NewWork, SetOne DEF PostsTypes, OnlyThis
<1>4. /\ new.job = "plan" /\ new.pc = "mark" /\ new.post = NoPost /\ new.todo = {}
      /\ new.status = "none" /\ AtRest.pc = "idle"
  BY DEF AtRest
<1> HIDE DEF new
<1>5. PostsTypes'
  BY <1>1, <1>2, <1>3 DEF PostsTypes, files, ledger
<1>6. NoneUnsent /\ date' = date
  BY <1>1, <1>2 DEF NoneUnsent, PostsTypes
<1>7. Shapes'
  <2>1. Shape(w)'
    BY <1>3, <1>4, PostNames DEF Shape, AtRest
  <2> QED BY <1>2, <1>3, <1>5, <1>6, <2>1, ShapesStay
<1>8. PlanInv'
  <2>1. date \notin again' => (\A v \in Workers \ {w} : work[v].job # "plan") /\ marker # date
    BY <1>1 DEF Planning
  <2>2. date \notin again' => tweets[Plan(date)] = 0
    <3>1. date \notin again' => OnePlan /\ date \notin again
      BY <1>1, <1>2 DEF PlanInv
    <3>2. tweets[Plan(date)] \in Nat
      BY <1>2, PostNames DEF PostsTypes
    <3> QED BY <2>1, <3>1, <3>2 DEF OnePlan
  <2>3. marker' = marker /\ again \subseteq again' /\ tweets' = tweets
    BY <1>1 DEF files
  <2> QED BY <1>2, <1>3, <1>4, <1>5, <1>6, <2>1, <2>2, <2>3, PlanStays
<1>9. RecapInv'
  <2>1. \A t \in Trades : ~Carries(w, t)
    BY <1>2, <1>4 DEF Carries
  <2> QED BY <1>1, <1>2, <1>3, <1>4, <2>1, TradesOf, LetsGo DEF files, ledger
<1>10. ArchiveTrue'
  BY <1>1, <1>2, <1>3, <1>5, <1>6, ArchiveStays DEF files
<1> QED BY <1>5, <1>7, <1>8, <1>9, <1>10 DEF PostsInv

LEMMA PlanGoesOn ==
  ASSUME PostsInv, NEW w \in Workers, write_plan_marker(w) \/ Gather(w)
  PROVE  PostsInv'
<1>1. PICK new \in WorkRecord :
        /\ Set(w, new) /\ new.todo = {}
        /\ \/ new = [work[w] EXCEPT !.pc = "gather"] /\ work[w].pc = "mark" /\ marker' = date
           \/ new = AtRest /\ marker' = marker
           \/ /\ new = [work[w] EXCEPT !.pc = "post", !.post = Plan(date)]
              /\ work[w].pc = "gather" /\ marker' = marker
        /\ work[w].pc \in {"mark", "gather"} /\ work[w].job = "plan" /\ work[w].post = NoPost
        /\ work[w].todo = {}
        /\ UNCHANGED <<date, hour, conf, journaled, archive, degraded, ledger, tweets, again, excused, untold>>
  <2>1. /\ work[w].pc \in {"mark", "gather"} /\ work[w].job = "plan" /\ work[w].post = NoPost
        /\ work[w].todo = {} /\ work[w] \in WorkRecord
    BY DEF PostsInv, Shapes, Shape, write_plan_marker, Gather, At, PostsTypes
  <2>2. CASE write_plan_marker(w)
    <3> DEFINE new == [work[w] EXCEPT !.pc = "gather"]
    <3>1. new \in WorkRecord
      BY NewWork DEF PostsInv
    <3>2. new.todo = {}
      BY <2>1 DEF WorkRecord
    <3> QED BY <2>1, <2>2, <3>1, <3>2 DEF write_plan_marker, At, ghosts
  <2>3. CASE Gather(w)
    <3> DEFINE new == [work[w] EXCEPT !.pc = "post", !.post = Plan(date)]
    <3>1. new \in WorkRecord /\ AtRest \in WorkRecord
      BY NewWork, AtRestRecord DEF PostsInv
    <3>2. new.todo = {} /\ AtRest.todo = {}
      BY <2>1 DEF WorkRecord, AtRest
    <3> QED BY <2>1, <2>3, <3>1, <3>2 DEF Gather, At, ghosts, files
  <2> QED BY <2>2, <2>3
<1>2. PostsTypes /\ Shapes /\ PlanInv /\ RecapInv /\ ArchiveTrue /\ work[w] \in WorkRecord
  BY DEF PostsInv, PostsTypes
<1>3. work' \in [Workers -> WorkRecord] /\ work'[w] = new /\ OnlyThis(w)
  BY <1>1, <1>2, SetOne DEF PostsTypes, OnlyThis
<1>4. date \in 1 .. PostDays
  BY <1>2 DEF PostsTypes
<1>5. PostsTypes'
  BY <1>1, <1>2, <1>3 DEF PostsTypes, ledger
<1>6. NoneUnsent /\ date' = date
  BY <1>1, <1>2 DEF NoneUnsent, PostsTypes
<1>7. \/ new.pc = "gather" /\ new.post = NoPost /\ new.job = "plan" /\ marker' = date /\ work[w].pc = "mark"
      \/ new = AtRest /\ marker' = marker
      \/ new.pc = "post" /\ new.post = Plan(date) /\ new.job = "plan" /\ marker' = marker /\ work[w].pc = "gather"
  BY <1>1, <1>2 DEF WorkRecord
<1>8. Shapes'
  <2>1. Shape(w)'
    BY <1>1, <1>3, <1>4, <1>6, <1>7, PostNames DEF Shape, AtRest
  <2> QED BY <1>2, <1>3, <1>5, <1>6, <2>1, ShapesStay
<1>9. PlanInv'
  <2>1. date \notin again =>
          /\ \A v \in Workers \ {w} : work[v].job # "plan"
          /\ tweets[Plan(date)] = 0
          /\ work[w].pc # "mark" => marker = date
    BY <1>1, <1>2 DEF PlanInv, OnePlan
  <2>2. marker' \in {marker, date} /\ again' = again /\ tweets' = tweets
    BY <1>1
  <2>3. AtRest.job = "none"
    BY DEF AtRest
  <2>4. date \notin again' /\ work'[w].job = "plan" =>
          /\ \A v \in Workers \ {w} : work[v].job # "plan"
          /\ work'[w].pc \in {"mark", "gather", "post"} => tweets[Plan(date)] = 0
          /\ work'[w].pc # "mark" => marker' = date
    <3> SUFFICES ASSUME date \notin again, new.job = "plan"
                 PROVE  /\ \A v \in Workers \ {w} : work[v].job # "plan"
                        /\ tweets[Plan(date)] = 0
                        /\ marker' = date
      BY <1>3, <2>2
    <3>1. work[w].pc # "mark" => marker = date
      BY <2>1
    <3>2. marker' = date
      BY <1>7, <2>3, <3>1
    <3> QED BY <2>1, <3>2
  <2>5. \A d \in 1 .. PostDays : tweets'[Plan(d)] = tweets[Plan(d)]
    BY <2>2
  <2> QED BY <1>2, <1>3, <1>5, <1>6, <2>2, <2>4, <2>5, PlanStays
<1>10. RecapInv'
  <2>1. \A t \in Trades : ~Carries(w, t)
    BY <1>1 DEF Carries
  <2>2. \A t \in Trades : t \notin TradeOf(new.post)
    BY <1>4, <1>7, TradesOf DEF AtRest
  <2> QED BY <1>1, <1>2, <1>3, <2>1, <2>2, LetsGo DEF ledger
<1>11. ArchiveTrue'
  BY <1>1, <1>2, <1>3, <1>5, <1>6, ArchiveStays
<1> QED BY <1>5, <1>8, <1>9, <1>10, <1>11 DEF PostsInv

LEMMA ReviewBegins ==
  ASSUME PostsInv, NEW w \in Workers, ReviewSlot(w)
  PROVE  PostsInv'
<1> DEFINE new == [AtRest EXCEPT !.job = "review", !.pc = "post", !.post = Review(date)]
<1>1. /\ work[w].pc = "idle" /\ Set(w, new)
      /\ UNCHANGED <<date, hour, conf, files, ledger, tweets, again, excused, untold>>
  BY DEF ReviewSlot, Start, At, files, ledger, ghosts
<1>2. /\ PostsTypes /\ Shapes /\ PlanInv /\ RecapInv /\ ArchiveTrue /\ work[w] = AtRest
      /\ date \in 1 .. PostDays
  BY <1>1 DEF PostsInv, Shapes, Shape, PostsTypes
<1>3. work' \in [Workers -> WorkRecord] /\ work'[w] = new /\ OnlyThis(w)
  BY <1>1, <1>2, NewWork, SetOne DEF PostsTypes, OnlyThis
<1>4. /\ new.job = "review" /\ new.pc = "post" /\ new.post = Review(date) /\ new.todo = {}
      /\ new.status = "none" /\ AtRest.pc = "idle"
  BY DEF AtRest
<1> HIDE DEF new
<1>5. PostsTypes'
  BY <1>1, <1>2, <1>3 DEF PostsTypes, files, ledger
<1>6. NoneUnsent /\ date' = date
  BY <1>1, <1>2 DEF NoneUnsent, PostsTypes
<1>7. Shapes'
  <2>1. Shape(w)'
    BY <1>2, <1>3, <1>4, PostNames DEF Shape
  <2> QED BY <1>2, <1>3, <1>5, <1>6, <2>1, ShapesStay
<1>8. PlanInv'
  BY <1>1, <1>2, <1>3, <1>4, <1>5, <1>6, PlanStays DEF files
<1>9. RecapInv'
  <2>1. \A t \in Trades : ~Carries(w, t)
    BY <1>2, <1>4 DEF Carries
  <2> QED BY <1>1, <1>2, <1>3, <1>4, <2>1, TradesOf, LetsGo DEF files, ledger
<1>10. ArchiveTrue'
  BY <1>1, <1>2, <1>3, <1>5, <1>6, ArchiveStays DEF files
<1> QED BY <1>5, <1>7, <1>8, <1>9, <1>10 DEF PostsInv

LEMMA FreeHands ==
  ASSUME NEW w \in Workers, NEW t, t \notin InHand(w)
  PROVE  \A v \in Workers \ {w} : ~Holds(v, t)
  BY DEF InHand, Holds

LEMMA TradeOpensOrCloses ==
  ASSUME PostsInv, NEW w \in Workers, NEW u \in Trades, Opens(w, u) \/ Closes(w, u)
  PROVE  PostsInv'
<1>1. PICK post \in {Entry(u), Exit(u)} :
        /\ work[w].pc = "idle"
        /\ Set(w, [AtRest EXCEPT !.job = "cycle", !.pc = "journal", !.post = post])
        /\ UNCHANGED <<date, hour, conf, files, tweets, again, untold>>
        /\ \/ /\ post = Entry(u) /\ u \notin opened /\ opened' = opened \cup {u}
              /\ closed' = closed /\ excused' = excused
           \/ /\ post = Exit(u) /\ u \in opened \ closed /\ closed' = closed \cup {u}
              /\ opened' = opened /\ excused' = excused \cup ({u} \cap InHand(w))
  <2>1. CASE Opens(w, u)
    BY <2>1 DEF Opens, Start, At, ghosts, files
  <2>2. CASE Closes(w, u)
    BY <2>2 DEF Closes, Start, At, Excuse, files
  <2> QED BY <2>1, <2>2
<1> DEFINE new == [AtRest EXCEPT !.job = "cycle", !.pc = "journal", !.post = post]
<1>2. PostsTypes /\ Shapes /\ PlanInv /\ RecapInv /\ ArchiveTrue /\ work[w] = AtRest
  BY <1>1 DEF PostsInv, Shapes, Shape
<1>3. work' \in [Workers -> WorkRecord] /\ work'[w] = new /\ OnlyThis(w)
  BY <1>1, <1>2, NewWork, SetOne DEF PostsTypes, OnlyThis
<1>4. /\ new.job = "cycle" /\ new.pc = "journal" /\ new.post = post /\ new.todo = {}
      /\ new.status = "none" /\ AtRest.pc = "idle"
  BY DEF AtRest
<1> HIDE DEF new
<1>5. PostsTypes'
  BY <1>1, <1>2, <1>3 DEF PostsTypes, files
<1>6. NoneUnsent /\ date' = date
  BY <1>1, <1>2 DEF NoneUnsent, PostsTypes
<1>7. Shapes'
  <2>1. Shape(w)'
    BY <1>1, <1>3, <1>4, PostNames DEF Shape
  <2> QED BY <1>2, <1>3, <1>5, <1>6, <2>1, ShapesStay
<1>8. PlanInv'
  BY <1>1, <1>2, <1>3, <1>4, <1>5, <1>6, PlanStays DEF files
<1>9. RecapInv'
  <2> SUFFICES ASSUME conf'.base, NEW t \in Trades \ excused' PROVE TradeInv(t)'
    BY DEF RecapInv
  <2>1. TradeInv(t) /\ tweets' = tweets /\ archive' = archive
    BY <1>1, <1>2 DEF RecapInv, files
  <2>2. opened \subseteq opened' /\ closed \subseteq closed'
    BY <1>1
  <2>3. ~Carries(w, t)
    BY <1>2, <1>4 DEF Carries
  <2>4. CASE t # u
    <3>1. t \notin TradeOf(new.post) /\ new.post \notin {Entry(t), Exit(t)}
      BY <1>1, <1>4, <2>4, TradesOf, PostNames
    <3>2. ~Holds(w, t)' /\ Unpublished(w, t)'
      BY <1>3, <1>4, <3>1 DEF Holds, Unpublished, TradeOf
    <3> QED BY <1>3, <1>4, <2>1, <2>2, <2>3, <3>1, <3>2, TradeStays
  <2>5. CASE t = u
    <3>1. t \in opened' /\ (new.post = Exit(t) => t \in closed') /\ \A v \in Workers \ {w} : ~Holds(v, t)
      <4>1. CASE post = Entry(u)
        BY <1>1, <1>4, <2>1, <2>5, <4>1, PostNames DEF TradeInv, NotYet
      <4>2. CASE post = Exit(u)
        BY <1>1, <1>4, <2>5, <4>2, FreeHands, PostNames
      <4> QED BY <1>1, <4>1, <4>2
    <3>2. /\ post = Entry(t) => tweets[Entry(t)] = 0
          /\ post = Exit(t) => tweets[Exit(t)] = 0
      BY <1>1, <2>1, <2>5, PostNames DEF TradeInv, NotYet
    <3>3. Unpublished(w, t)'
      BY <1>3, <1>4, <2>1, <3>2 DEF Unpublished
    <3> QED BY <1>3, <1>4, <2>1, <2>2, <2>3, <3>1, <3>3, TradeStays
  <2> QED BY <2>4, <2>5
<1>10. ArchiveTrue'
  BY <1>1, <1>2, <1>3, <1>5, <1>6, ArchiveStays DEF files
<1> QED BY <1>5, <1>7, <1>8, <1>9, <1>10 DEF PostsInv

LEMMA BackfillBegins ==
  ASSUME PostsInv, NEW w \in Workers, Backfill(w)
  PROVE  PostsInv'
<1>1. PICK live \in BOOLEAN :
        /\ work[w].pc = "idle"
        /\ Set(w, [AtRest EXCEPT !.job = "backfill", !.pc = "next", !.live = live,
                                 !.todo = opened \ posted_ids, !.known = journaled])
        /\ excused' = excused \cup ((opened \ posted_ids) \cap InHand(w))
        /\ UNCHANGED <<date, hour, conf, files, ledger, tweets, again, untold>>
  BY DEF Backfill, Start, At, Excuse, pending_buys
<1> DEFINE new == [AtRest EXCEPT !.job = "backfill", !.pc = "next", !.live = live,
                                 !.todo = opened \ posted_ids, !.known = journaled]
<1>2. PostsTypes /\ Shapes /\ PlanInv /\ RecapInv /\ ArchiveTrue /\ work[w] = AtRest
  BY <1>1 DEF PostsInv, Shapes, Shape
<1>3. work' \in [Workers -> WorkRecord] /\ work'[w] = new /\ OnlyThis(w)
  <2>1. opened \ posted_ids \in SUBSET Trades
    BY <1>2 DEF PostsTypes
  <2>2. new \in WorkRecord
    BY <1>2, <2>1, NewWork
  <2> QED BY <1>1, <1>2, <2>2, SetOne DEF PostsTypes, OnlyThis
<1>4. /\ new.job = "backfill" /\ new.pc = "next" /\ new.post = NoPost
      /\ new.todo = opened \ posted_ids /\ new.status = "none" /\ AtRest.pc = "idle"
  BY DEF AtRest
<1> HIDE DEF new
<1>5. PostsTypes'
  BY <1>1, <1>2, <1>3 DEF PostsTypes, files, ledger
<1>6. NoneUnsent /\ date' = date
  BY <1>1, <1>2 DEF NoneUnsent, PostsTypes
<1>7. Shapes'
  <2>1. Shape(w)'
    BY <1>3, <1>4, PostNames DEF Shape
  <2> QED BY <1>2, <1>3, <1>5, <1>6, <2>1, ShapesStay
<1>8. PlanInv'
  BY <1>1, <1>2, <1>3, <1>4, <1>5, <1>6, PlanStays DEF files
<1>9. RecapInv'
  <2> SUFFICES ASSUME conf'.base, NEW t \in Trades \ excused' PROVE TradeInv(t)'
    BY DEF RecapInv
  <2>1. TradeInv(t) /\ tweets' = tweets /\ archive' = archive /\ opened' = opened /\ closed' = closed
    BY <1>1, <1>2 DEF RecapInv, files, ledger
  <2>2. ~Carries(w, t)
    BY <1>2, <1>4 DEF Carries
  <2>3. new.post \notin {Entry(t), Exit(t)} /\ TradeOf(new.post) = {}
    BY <1>4, PostNames, TradesOf
  <2>4. ASSUME t \in opened \ posted_ids
        PROVE  (\A v \in Workers \ {w} : ~Holds(v, t)) /\ tweets[Entry(t)] = 0
    <3>1. \A v \in Workers \ {w} : ~Holds(v, t)
      BY <1>1, <2>4, FreeHands
    <3>2. \A v \in Workers : ~Carries(v, t)
      BY <2>2, <3>1, TradesOf DEF Carries, Holds
    <3>3. tweets[Entry(t)] \in Nat
      BY <1>2, PostNames DEF PostsTypes
    <3> QED BY <2>1, <2>4, <3>1, <3>2, <3>3 DEF TradeInv, Archived
  <2>5. Holds(w, t)' => t \in opened \ posted_ids
    BY <1>3, <1>4, <2>3 DEF Holds, TradeOf
  <2>6. Unpublished(w, t)'
    BY <1>3, <1>4, <2>1, <2>3, <2>4 DEF Unpublished, TradeOf
  <2> QED BY <1>3, <1>4, <2>1, <2>2, <2>3, <2>4, <2>5, <2>6, TradeStays
<1>10. ArchiveTrue'
  BY <1>1, <1>2, <1>3, <1>5, <1>6, ArchiveStays DEF files
<1> QED BY <1>5, <1>7, <1>8, <1>9, <1>10 DEF PostsInv

LEMMA BackfillPicks ==
  ASSUME PostsInv, NEW w \in Workers, Pick(w)
  PROVE  PostsInv'
<1>1. /\ PostsTypes /\ Shapes /\ PlanInv /\ RecapInv /\ ArchiveTrue
      /\ work[w] \in WorkRecord /\ work[w].pc = "next" /\ work[w].job = "backfill"
      /\ UNCHANGED <<date, hour, conf, files, ledger, tweets, again, excused, untold>>
  BY DEF PostsInv, PostsTypes, Shapes, Shape, Pick, At, ghosts
<1>2. PICK new \in WorkRecord :
        /\ Set(w, new) /\ new.todo \subseteq work[w].todo /\ new.job # "plan"
        /\ \/ new = AtRest
           \/ /\ new.job = "backfill" /\ new.pc \in {"post", "journal"} /\ new.linked = conf.base
              /\ \E u \in work[w].todo : new.post = Entry(u) /\ u \notin new.todo
  <2>1. CASE Set(w, AtRest)
    BY <2>1, AtRestRecord DEF AtRest
  <2>2. CASE \E u \in work[w].todo :
               Set(w, [work[w] EXCEPT !.todo = @ \ {u}, !.post = Entry(u), !.linked = conf.base,
                                      !.pc = IF u \in work[w].known THEN "post" ELSE "journal"])
    <3>1. PICK u \in work[w].todo :
               Set(w, [work[w] EXCEPT !.todo = @ \ {u}, !.post = Entry(u), !.linked = conf.base,
                                      !.pc = IF u \in work[w].known THEN "post" ELSE "journal"])
      BY <2>2
    <3> DEFINE pc == IF u \in work[w].known THEN "post" ELSE "journal"
    <3> DEFINE new == [work[w] EXCEPT !.todo = @ \ {u}, !.post = Entry(u), !.linked = conf.base,
                                      !.pc = pc]
    <3>2. pc \in {"post", "journal"} /\ u \in Trades
      BY <1>1 DEF WorkRecord
    <3> HIDE DEF pc
    <3>3. new \in WorkRecord
      BY <1>1, <3>2, NewWork
    <3>4. /\ new.todo = work[w].todo \ {u} /\ new.job = "backfill" /\ new.pc = pc
          /\ new.linked = conf.base /\ new.post = Entry(u)
      BY <1>1 DEF WorkRecord
    <3>5. Set(w, new)
      BY <3>1 DEF pc
    <3> HIDE DEF new
    <3> QED BY <3>2, <3>3, <3>4, <3>5
  <2> QED BY <2>1, <2>2 DEF Pick
<1>3. work' \in [Workers -> WorkRecord] /\ work'[w] = new /\ OnlyThis(w)
  BY <1>1, <1>2, SetOne DEF PostsTypes, OnlyThis
<1>4. /\ work[w].todo \subseteq Trades
      /\ AtRest.pc = "idle" /\ AtRest.post = NoPost /\ AtRest.todo = {} /\ AtRest.job = "none"
  BY <1>1 DEF WorkRecord, AtRest
<1>5. PostsTypes'
  BY <1>1, <1>3 DEF PostsTypes, files, ledger
<1>6. NoneUnsent /\ date' = date
  BY <1>1 DEF NoneUnsent, PostsTypes
<1>7. Shapes'
  <2>1. Shape(w)'
    <3>1. CASE new = AtRest
      BY <1>3, <1>4, <3>1, PostNames DEF Shape
    <3>2. CASE new # AtRest
      <4>1. PICK u \in Trades : new.post = Entry(u)
        BY <1>2, <1>4, <3>2
      <4>2. /\ new.post \in Posts /\ new.post \in Recaps
            /\ \A d \in 1 .. PostDays : new.post # Plan(d)
        BY <4>1, PostNames
      <4>3. new.job = "backfill" /\ new.pc \in {"post", "journal"}
        BY <1>2, <3>2
      <4> QED BY <1>3, <4>2, <4>3 DEF Shape
    <3> QED BY <3>1, <3>2
  <2> QED BY <1>1, <1>3, <1>5, <1>6, <2>1, ShapesStay
<1>8. PlanInv'
  BY <1>1, <1>2, <1>3, <1>5, <1>6, PlanStays DEF files
<1>9. RecapInv'
  <2> SUFFICES ASSUME conf'.base, NEW t \in Trades \ excused' PROVE TradeInv(t)'
    BY DEF RecapInv
  <2>1. TradeInv(t) /\ tweets' = tweets /\ archive' = archive /\ opened' = opened /\ closed' = closed
    BY <1>1 DEF RecapInv, files, ledger
  <2>2. ~Carries(w, t)
    BY <1>1 DEF Carries
  <2>3. new.post # Exit(t)
    BY <1>2, <1>4, PostNames
  <2>4. t \in TradeOf(new.post) => t \in work[w].todo /\ t \notin new.todo /\ new.post = Entry(t)
    BY <1>2, <1>4, TradesOf
  <2>5. Holds(w, t)' => t \in work[w].todo
    BY <1>2, <1>3, <2>4 DEF Holds, TradeOf
  <2>6. t \in work[w].todo => (\A v \in Workers \ {w} : ~Holds(v, t)) /\ t \in opened /\ tweets[Entry(t)] = 0
    BY <2>1 DEF TradeInv, InOneHand, NotYet, Unpublished, Holds
  <2>7. new.post = Entry(t) => t \in work[w].todo /\ t \notin new.todo /\ new.linked
    <3>1. new.post = Entry(t) => t \in TradeOf(new.post) /\ new # AtRest
      BY <1>4, TradesOf, PostNames
    <3> QED BY <1>1, <1>2, <2>4, <3>1
  <2>8. /\ t \in new.todo => tweets'[Entry(t)] = 0 /\ t \notin TradeOf(new.post)
        /\ new.post = Entry(t) => tweets'[Entry(t)] = 0 /\ new.linked
        /\ new.pc # "archive"
    BY <1>2, <1>4, <2>1, <2>4, <2>6, <2>7
  <2>9. Unpublished(w, t)'
    BY <1>3, <2>3, <2>8 DEF Unpublished, TradeOf
  <2> QED BY <1>3, <2>1, <2>2, <2>3, <2>5, <2>6, <2>9, TradeStays
<1>10. ArchiveTrue'
  BY <1>1, <1>3, <1>5, <1>6, ArchiveStays DEF files
<1> QED BY <1>5, <1>7, <1>8, <1>9, <1>10 DEF PostsInv

LEMMA EntryIsAdded ==
  ASSUME PostsInv, NEW w \in Workers, add_entry(w)
  PROVE  PostsInv'
<1>1. /\ PostsTypes /\ Shapes /\ PlanInv /\ RecapInv /\ ArchiveTrue
      /\ work[w] \in WorkRecord /\ work[w].pc = "journal" /\ work[w].post \in Recaps /\ work[w].job # "plan"
      /\ UNCHANGED <<date, hour, conf, marker, archive, degraded, ledger, tweets, again, untold>>
  BY DEF PostsInv, PostsTypes, Shapes, Shape, add_entry, At
<1>2. PICK u \in Trades : work[w].post \in {Entry(u), Exit(u)} /\ work[w].post[2] = u
  BY <1>1, RecapsAre
<1>3. PICK l \in BOOLEAN :
        /\ Set(w, [work[w] EXCEPT !.pc = "post", !.linked = l])
        /\ \/ l = conf.base /\ excused' = excused /\ journaled' = journaled \cup {u}
           \/ excused' = excused \cup {u} /\ journaled' = journaled
  <2>1. conf.base \in BOOLEAN /\ (work[w].linked /\ work[w].job = "backfill") \in BOOLEAN
    BY <1>1 DEF PostsTypes
  <2>2. [work[w] EXCEPT !.pc = "post", !.linked = @ /\ work[w].job = "backfill"]
          = [work[w] EXCEPT !.pc = "post", !.linked = work[w].linked /\ work[w].job = "backfill"]
    BY <1>1 DEF WorkRecord
  <2>3. CASE /\ journaled' = journaled \cup {work[w].post[2]}
             /\ Set(w, [work[w] EXCEPT !.pc = "post", !.linked = conf.base])
             /\ UNCHANGED <<troubles, excused>>
    BY <1>2, <2>1, <2>3
  <2>4. CASE /\ UNCHANGED journaled /\ Excuse({work[w].post[2]})
             /\ Set(w, [work[w] EXCEPT !.pc = "post", !.linked = @ /\ work[w].job = "backfill"])
    BY <1>2, <2>1, <2>2, <2>4 DEF Excuse
  <2> QED BY <2>3, <2>4 DEF add_entry
<1> DEFINE new == [work[w] EXCEPT !.pc = "post", !.linked = l]
<1>4. new \in WorkRecord
  BY <1>1, NewWork
<1>5. work' \in [Workers -> WorkRecord] /\ work'[w] = new /\ OnlyThis(w)
  BY <1>1, <1>3, <1>4, SetOne DEF PostsTypes, OnlyThis
<1>6. /\ new.pc = "post" /\ new.linked = l /\ new.post = work[w].post /\ new.todo = work[w].todo
      /\ new.job = work[w].job
  BY <1>1 DEF WorkRecord
<1> HIDE DEF new
<1>7. PostsTypes'
  BY <1>1, <1>3, <1>5 DEF PostsTypes, ledger
<1>8. NoneUnsent /\ date' = date
  BY <1>1 DEF NoneUnsent, PostsTypes
<1>9. Shapes'
  <2>1. Shape(w)'
    BY <1>1, <1>2, <1>5, <1>6, PostNames DEF Shape, Shapes
  <2> QED BY <1>1, <1>5, <1>7, <1>8, <2>1, ShapesStay
<1>10. PlanInv'
  BY <1>1, <1>5, <1>6, <1>7, <1>8, PlanStays
<1>11. RecapInv'
  <2> SUFFICES ASSUME conf'.base, NEW t \in Trades \ excused' PROVE TradeInv(t)'
    BY DEF RecapInv
  <2>1. TradeInv(t) /\ tweets' = tweets /\ archive' = archive /\ opened' = opened /\ closed' = closed
    BY <1>1, <1>3 DEF RecapInv, ledger
  <2>2. ~Carries(w, t) /\ (Holds(w, t)' <=> Holds(w, t))
    BY <1>1, <1>5, <1>6 DEF Carries, Holds, TradeOf
  <2>3. Holds(w, t) => t \in opened /\ \A v \in Workers \ {w} : ~Holds(v, t)
    BY <2>1 DEF TradeInv, InOneHand, NotYet
  <2>4. work[w].post = Exit(t) => t \in closed
    BY <2>1 DEF TradeInv, NotYet
  <2>5. work[w].post \in {Entry(t), Exit(t)} => l
    BY <1>1, <1>2, <1>3, PostNames
  <2>6. Unpublished(w, t)
    BY <2>1 DEF TradeInv
  <2>7. Unpublished(w, t)'
    BY <1>1, <1>5, <1>6, <2>1, <2>5, <2>6 DEF Unpublished, TradeOf
  <2> QED BY <1>5, <1>6, <2>1, <2>2, <2>3, <2>4, <2>7, TradeStays
<1>12. ArchiveTrue'
  BY <1>1, <1>5, <1>7, <1>8, ArchiveStays
<1> QED BY <1>7, <1>9, <1>10, <1>11, <1>12 DEF PostsInv

LEMMA PostIsAnswered ==
  ASSUME PostsInv, NEW w \in Workers, post_text(w)
  PROVE  PostsInv'
<1>1. /\ PostsTypes /\ Shapes /\ PlanInv /\ RecapInv /\ ArchiveTrue
      /\ work[w] \in WorkRecord /\ work[w].pc = "post" /\ work[w].post \in Posts
      /\ UNCHANGED <<date, hour, conf, files, ledger, again, untold>>
  BY DEF PostsInv, PostsTypes, Shapes, Shape, post_text, At
<1> DEFINE post == work[w].post
<1>2. PICK s \in Statuses \ {"none"} :
        /\ Set(w, [work[w] EXCEPT !.pc = "archive", !.status = s])
        /\ \/ s # "posted" /\ tweets' = tweets /\ excused' = excused
           \/ s = "posted" /\ tweets' = [tweets EXCEPT ![post] = @ + 1] /\ excused' = excused
           \/ /\ s = "failed" /\ tweets' = [tweets EXCEPT ![post] = @ + 1]
              /\ excused' = excused \cup TradeOf(post)
  <2>1. Kept(w) # "send" => Kept(w) \in Statuses \ {"none", "posted"}
    BY DEF Kept, Statuses
  <2>2. {"posted", "failed"} \subseteq Statuses \ {"none"}
    BY DEF Statuses
  <2> QED BY <2>1, <2>2 DEF post_text, Answered, Excuse
<1> DEFINE new == [work[w] EXCEPT !.pc = "archive", !.status = s]
<1>3. new \in WorkRecord
  BY <1>1, NewWork
<1>4. work' \in [Workers -> WorkRecord] /\ work'[w] = new /\ OnlyThis(w)
  BY <1>1, <1>2, <1>3, SetOne DEF PostsTypes, OnlyThis
<1>5. /\ new.pc = "archive" /\ new.status = s /\ new.post = post /\ new.todo = work[w].todo
      /\ new.job = work[w].job /\ new.linked = work[w].linked
  BY <1>1 DEF WorkRecord
<1> HIDE DEF new
<1>6. /\ tweets' \in [Posts -> Nat] /\ NoneUnsent
      /\ \A p \in Posts \ {post} : tweets'[p] = tweets[p]
      /\ s = "posted" => tweets'[post] = tweets[post] + 1 /\ excused' = excused
      /\ \/ s # "posted" /\ TradeOf(post) \subseteq excused'
         \/ s = "posted" \/ tweets' = tweets
  BY <1>1, <1>2 DEF NoneUnsent, PostsTypes
<1>7. PostsTypes'
  <2>1. excused' \subseteq Trades
    BY <1>1, <1>2 DEF PostsTypes, TradeOf
  <2> QED BY <1>1, <1>4, <1>6, <2>1 DEF PostsTypes, files, ledger
<1>8. date' = date /\ Shape(w)
  BY <1>1 DEF Shapes
<1>9. Shapes'
  <2>1. s = "posted" => tweets'[post] > 0
    BY <1>1, <1>6 DEF PostsTypes
  <2>2. Shape(w)'
    BY <1>1, <1>4, <1>5, <1>8, <2>1 DEF Shape
  <2> QED BY <1>1, <1>4, <1>6, <1>7, <1>8, <2>2, ShapesStay
<1>10. PlanInv'
  <2>1. CASE \A d \in 1 .. PostDays : post # Plan(d)
    <3>1. \A d \in 1 .. PostDays : tweets'[Plan(d)] = tweets[Plan(d)]
      BY <1>6, <2>1, PostNames
    <3>2. work[w].job # "plan"
      BY <1>1, <1>8, <2>1 DEF Shape, PostsTypes
    <3> QED BY <1>1, <1>4, <1>5, <1>7, <1>8, <3>1, <3>2, PlanStays DEF files
  <2>2. CASE post = Plan(date) /\ work[w].job = "plan"
    <3>1. date \in 1 .. PostDays /\ \A d \in 1 .. PostDays : tweets[Plan(d)] \in Nat
      BY <1>1, PostNames DEF PostsTypes
    <3>2. \A d \in 1 .. PostDays : d # date => tweets'[Plan(d)] = tweets[Plan(d)]
      BY <1>6, <2>2, <3>1, PostNames
    <3>3. ASSUME date \notin again
          PROVE  /\ \A v \in Workers \ {w} : work[v].job # "plan"
                 /\ tweets[Plan(date)] = 0 /\ marker = date
      BY <1>1, <2>2, <3>3 DEF PlanInv, OnePlan
    <3>4. date \notin again => tweets'[Plan(date)] <= 1
      <4>1. tweets'[Plan(date)] \in {tweets[Plan(date)], tweets[Plan(date)] + 1}
        BY <1>1, <1>2, <2>2 DEF PostsTypes
      <4> QED BY <3>3, <4>1
    <3>5. again' = again /\ marker' = marker
      BY <1>1 DEF files
    <3>6. PlanOnce'
      BY <1>1, <1>8, <3>1, <3>2, <3>4, <3>5 DEF PlanInv, PlanOnce
    <3>7. (\A d \in 1 .. PostDays : d > date => tweets'[Plan(d)] = 0) /\ marker' <= date
      BY <1>1, <3>1, <3>2, <3>5 DEF PlanInv
    <3>8. ASSUME date \notin again PROVE OnePlan'
      <4>1. \A v \in Workers : work'[v].job = "plan" => v = w
        BY <1>4, <3>3, <3>8 DEF OnlyThis
      <4> QED BY <1>4, <1>5, <1>8, <3>3, <3>5, <3>8, <4>1 DEF OnePlan
    <3> QED BY <1>8, <3>5, <3>6, <3>7, <3>8 DEF PlanInv
  <2> QED BY <1>1, <1>8, <2>1, <2>2 DEF Shape
<1>11. RecapInv'
  <2> SUFFICES ASSUME conf'.base, NEW t \in Trades \ excused' PROVE TradeInv(t)'
    BY DEF RecapInv
  <2>1. /\ TradeInv(t) /\ archive' = archive /\ opened' = opened /\ closed' = closed
        /\ Entry(t) \in Posts /\ Exit(t) \in Posts /\ Entry(t) # Exit(t)
    BY <1>1, <1>2, PostNames DEF RecapInv, files, ledger
  <2>2. ~Carries(w, t) /\ (Holds(w, t)' <=> Holds(w, t))
    BY <1>1, <1>4, <1>5 DEF Carries, Holds, TradeOf
  <2>3. Holds(w, t) => t \in opened /\ \A v \in Workers \ {w} : ~Holds(v, t)
    BY <2>1 DEF TradeInv, InOneHand, NotYet
  <2>4. post = Exit(t) => t \in closed
    BY <2>1 DEF TradeInv, NotYet
  <2>5. Unpublished(w, t) /\ tweets[Entry(t)] \in Nat /\ tweets[Exit(t)] \in Nat
    BY <1>1, <2>1 DEF TradeInv, PostsTypes
  <2>6. CASE tweets'[Entry(t)] = tweets[Entry(t)] /\ tweets'[Exit(t)] = tweets[Exit(t)]
    <3>1. post = Entry(t) => tweets[Entry(t)] = 0
      BY <1>1, <2>5 DEF Unpublished
    <3>2. Unpublished(w, t)'
      BY <1>1, <1>4, <1>5, <2>5, <2>6, <3>1 DEF Unpublished, TradeOf
    <3> QED BY <1>4, <1>5, <2>1, <2>2, <2>3, <2>4, <2>6, <3>2, TradeStays
  <2>7. CASE ~(tweets'[Entry(t)] = tweets[Entry(t)] /\ tweets'[Exit(t)] = tweets[Exit(t)])
    <3>1. post \in {Entry(t), Exit(t)} /\ t \in TradeOf(post)
      BY <1>6, <2>1, <2>7, TradesOf
    <3>2. s = "posted"
      BY <1>6, <2>7, <3>1
    <3>3. Holds(w, t) /\ t \notin work[w].todo
      BY <2>5, <3>1 DEF Holds, Unpublished
    <3>4. work[w].linked /\ tweets[post] = 0 /\ tweets'[post] = 1
      BY <1>1, <1>6, <2>5, <3>1, <3>2 DEF Unpublished
    <3>5. \A p \in {Entry(t), Exit(t)} \ {post} : tweets'[p] = tweets[p]
      BY <1>6, <2>1
    <3>6. tweets'[Entry(t)] <= 1 /\ tweets'[Exit(t)] <= 1
      BY <2>1, <3>1, <3>4, <3>5 DEF TradeInv
    <3>7. ASSUME NEW v \in Workers \ {w} PROVE ~Holds(v, t)' /\ Unpublished(v, t)' /\ work'[v].post # Exit(t)
      <4>1. work'[v] = work[v] /\ ~Holds(v, t)
        BY <1>4, <2>3, <3>3 DEF OnlyThis
      <4>2. work[v].post \notin {Entry(t), Exit(t)} /\ t \notin work[v].todo
        BY <4>1, TradesOf DEF Holds
      <4> QED BY <4>1, <4>2 DEF Holds, Unpublished, TradeOf
    <3>8. InOneHand(t)'
      BY <3>7 DEF InOneHand
    <3>9. Unpublished(w, t)'
      BY <1>4, <1>5, <3>1, <3>2, <3>3, <3>4 DEF Unpublished, TradeOf
    <3>10. Archived(t)'
      <4>1. CASE post = Entry(t)
        BY <1>4, <1>5, <3>2, <3>4, <4>1 DEF Archived, Carries
      <4>2. CASE post = Exit(t)
        <5>1. tweets'[Entry(t)] = tweets[Entry(t)] /\ (t \in posted_ids => t \in posted_ids')
          BY <2>1, <3>5, <4>2 DEF posted_ids, TradeOf
        <5>2. \A v \in Workers : ~Carries(v, t)
          BY <2>1, <2>2, <2>3, <3>3, TradesOf DEF Carries, Holds
        <5> QED BY <2>1, <5>1, <5>2 DEF TradeInv, Archived
      <4> QED BY <3>1, <4>1, <4>2
    <3>11. NotYet(t)'
      <4>1. t \in opened'
        BY <2>1, <2>3, <3>3
      <4>2. t \notin closed' => tweets'[Exit(t)] = 0 /\ \A v \in Workers : work'[v].post # Exit(t)
        <5>1. t \notin closed' => tweets[Exit(t)] = 0 /\ post = Entry(t)
          BY <2>1, <2>4, <3>1 DEF TradeInv, NotYet
        <5> QED BY <1>4, <1>5, <2>1, <3>5, <3>7, <5>1
      <4> QED BY <4>1, <4>2 DEF NotYet
    <3> QED BY <3>6, <3>7, <3>8, <3>9, <3>10, <3>11 DEF TradeInv
  <2> QED BY <2>6, <2>7
<1>12. ArchiveTrue'
  BY <1>1, <1>4, <1>6, <1>7, ArchiveStays DEF files
<1> QED BY <1>7, <1>9, <1>10, <1>11, <1>12 DEF PostsInv

\* A process that finishes a post goes on with the backfill, or is at rest.
LEMMA PostFinished ==
  ASSUME PostsTypes, Shapes, NEW w \in Workers, Finished(w), work[w].pc \in {"archive", "tell"}
  PROVE  \E new \in WorkRecord :
           /\ Set(w, new) /\ new.todo = work[w].todo /\ new.post = NoPost
           /\ new = AtRest \/ (new.pc = "next" /\ new.job = "backfill" /\ work[w].job = "backfill")
<1>1. work[w] \in WorkRecord /\ Shape(w)
  BY DEF PostsTypes, Shapes
<1>2. CASE work[w].job = "backfill"
  <2> DEFINE new == [work[w] EXCEPT !.pc = "next", !.post = NoPost, !.status = "none"]
  <2>1. new \in WorkRecord
    BY NewWork
  <2>2. new.todo = work[w].todo /\ new.post = NoPost /\ new.pc = "next" /\ new.job = "backfill"
    BY <1>1, <1>2 DEF WorkRecord
  <2>3. Set(w, new)
    BY <1>2 DEF Finished
  <2> HIDE DEF new
  <2> QED BY <1>2, <2>1, <2>2, <2>3
<1>3. CASE work[w].job # "backfill"
  BY <1>1, <1>3, AtRestRecord DEF Finished, AtRest, Shape
<1> QED BY <1>2, <1>3

LEMMA PostIsArchived ==
  ASSUME PostsInv, NEW w \in Workers, _archive(w)
  PROVE  PostsInv'
<1>1. /\ PostsTypes /\ Shapes /\ PlanInv /\ RecapInv /\ ArchiveTrue
      /\ work[w] \in WorkRecord /\ work[w].pc = "archive" /\ work[w].post \in Posts
      /\ Shape(w)
      /\ UNCHANGED <<date, hour, conf, marker, journaled, degraded, ledger, tweets, again, untold>>
  BY DEF PostsInv, PostsTypes, Shapes, Shape, _archive, At
<1> DEFINE row == [post |-> work[w].post, status |-> work[w].status, linked |-> work[w].linked]
<1>2. \/ archive' = archive \cup {row} /\ excused' = excused
      \/ archive' = archive /\ excused' = excused \cup TradeOf(work[w].post)
  BY DEF _archive, Excuse
<1>3. PICK new \in WorkRecord :
        /\ Set(w, new) /\ new.todo = work[w].todo
        /\ \/ /\ work[w].status \in {"no_credentials", "failed"} /\ new.pc = "tell"
              /\ new.post = work[w].post /\ new.job = work[w].job
           \/ /\ work[w].status \notin {"no_credentials", "failed"} /\ new.post = NoPost
              /\ new = AtRest \/ (new.pc = "next" /\ new.job = "backfill" /\ work[w].job = "backfill")
  <2>1. CASE work[w].status \in {"no_credentials", "failed"}
    <3> DEFINE new == [work[w] EXCEPT !.pc = "tell"]
    <3>1. new \in WorkRecord
      BY <1>1, NewWork
    <3>2. new.todo = work[w].todo /\ new.post = work[w].post /\ new.pc = "tell" /\ new.job = work[w].job
      BY <1>1 DEF WorkRecord
    <3>3. Set(w, new)
      BY <2>1 DEF _archive
    <3> HIDE DEF new
    <3> QED BY <2>1, <3>1, <3>2, <3>3
  <2>2. CASE work[w].status \notin {"no_credentials", "failed"}
    <3>1. Finished(w)
      BY <2>2 DEF _archive
    <3> QED BY <1>1, <2>2, <3>1, PostFinished
  <2> QED BY <2>1, <2>2
<1>4. work' \in [Workers -> WorkRecord] /\ work'[w] = new /\ OnlyThis(w)
  BY <1>1, <1>3, SetOne DEF PostsTypes, OnlyThis
<1>5. AtRest.job = "none" /\ AtRest.pc = "idle" /\ AtRest.todo = {}
  BY DEF AtRest
<1>6. PostsTypes'
  <2>1. row \in Row
    BY <1>1 DEF Row, WorkRecord
  <2>2. archive' \subseteq Row /\ excused' \subseteq Trades
    BY <1>1, <1>2, <2>1 DEF PostsTypes, TradeOf
  <2> QED BY <1>1, <1>4, <2>2 DEF PostsTypes, ledger
<1>7. NoneUnsent /\ date' = date
  BY <1>1 DEF NoneUnsent, PostsTypes
<1>8. Shapes'
  <2>1. Shape(w)'
    BY <1>1, <1>3, <1>4, <1>5, PostNames DEF Shape
  <2> QED BY <1>1, <1>4, <1>6, <1>7, <2>1, ShapesStay
<1>9. PlanInv'
  <2>1. date \notin again' /\ work'[w].job = "plan" =>
          /\ \A v \in Workers \ {w} : work[v].job # "plan"
          /\ work'[w].pc \in {"mark", "gather", "post"} => tweets[Plan(date)] = 0
          /\ work'[w].pc # "mark" => marker' = date
    BY <1>1, <1>3, <1>4, <1>5 DEF PlanInv, OnePlan
  <2> QED BY <1>1, <1>4, <1>6, <1>7, <2>1, PlanStays
<1>10. RecapInv'
  <2> SUFFICES ASSUME conf'.base, NEW t \in Trades \ excused' PROVE TradeInv(t)'
    BY DEF RecapInv
  <2>1. /\ TradeInv(t) /\ tweets' = tweets /\ archive \subseteq archive' /\ opened' = opened
        /\ closed' = closed
    BY <1>1, <1>2 DEF RecapInv, ledger
  <2>2. Holds(w, t)' => Holds(w, t)
    BY <1>3, <1>4, TradesOf DEF Holds, TradeOf
  <2>3. Holds(w, t) => t \in opened /\ \A v \in Workers \ {w} : ~Holds(v, t)
    BY <2>1 DEF TradeInv, InOneHand, NotYet
  <2>4. work'[w].post = Exit(t) => t \in closed'
    BY <1>3, <1>4, <2>1, PostNames DEF TradeInv, NotYet
  <2>5. Unpublished(w, t)'
    <3>1. work'[w].pc \notin {"journal", "post", "archive"}
      BY <1>3, <1>4, <1>5
    <3>2. TradeOf(work'[w].post) \subseteq TradeOf(work[w].post) /\ work'[w].todo = work[w].todo
      BY <1>3, <1>4, TradesOf
    <3> QED BY <2>1, <3>1, <3>2 DEF TradeInv, Unpublished, TradeOf
  <2>6. ASSUME Carries(w, t) PROVE t \in posted_ids'
    <3>1. t \in TradeOf(work[w].post)
      BY <2>6, TradesOf DEF Carries
    <3>2. row \in archive'
      BY <1>2, <3>1
    <3>3. row.status = "posted" /\ row.linked /\ row.post = work[w].post
      BY <2>6 DEF Carries
    <3> QED BY <3>1, <3>2, <3>3 DEF posted_ids, TradeOf
  <2> QED BY <1>4, <2>1, <2>2, <2>3, <2>4, <2>5, <2>6, TradeStays
<1>11. ArchiveTrue'
  <2> SUFFICES ASSUME NEW r \in archive'
               PROVE  /\ r.status = "posted" => tweets'[r.post] > 0
                      /\ r.status \in {"failed", "no_credentials"} =>
                           \/ r.post \in degraded' \cup untold'
                           \/ \E v \in Workers : work'[v].pc = "tell" /\ work'[v].post = r.post
    BY DEF ArchiveTrue, At
  <2>1. CASE r \in archive
    <3>1. /\ r.status = "posted" => tweets[r.post] > 0
          /\ r.status \in {"failed", "no_credentials"} =>
               \/ r.post \in degraded \cup untold
               \/ \E v \in Workers : work[v].pc = "tell" /\ work[v].post = r.post
      BY <2>1, <1>1 DEF ArchiveTrue, At
    <3>2. \A v \in Workers : work[v].pc = "tell" => work'[v] = work[v]
      BY <1>1, <1>4 DEF OnlyThis
    <3> QED BY <1>1, <3>1, <3>2
  <2>2. CASE r = row
    <3>1. r.status = work[w].status /\ r.post = work[w].post
      BY <2>2
    <3>2. r.status \in {"failed", "no_credentials"} => work'[w].pc = "tell" /\ work'[w].post = r.post
      BY <1>3, <1>4, <3>1
    <3> QED BY <1>1, <3>1, <3>2 DEF Shape
  <2> QED BY <1>2, <2>1, <2>2
<1> QED BY <1>6, <1>8, <1>9, <1>10, <1>11 DEF PostsInv

LEMMA FailureIsTold ==
  ASSUME PostsInv, NEW w \in Workers, _ledger_degradation(w)
  PROVE  PostsInv'
<1>1. /\ PostsTypes /\ Shapes /\ PlanInv /\ RecapInv /\ ArchiveTrue
      /\ work[w] \in WorkRecord /\ work[w].pc = "tell" /\ work[w].post \in Posts
      /\ Finished(w)
      /\ UNCHANGED <<date, hour, conf, marker, journaled, archive, ledger, tweets, again, excused>>
  BY DEF PostsInv, PostsTypes, Shapes, Shape, _ledger_degradation, At
<1>2. \/ degraded' = degraded \cup {work[w].post} /\ untold' = untold
      \/ untold' = untold \cup {work[w].post} /\ degraded' = degraded
  BY DEF _ledger_degradation
<1>3. PICK new \in WorkRecord :
        /\ Set(w, new) /\ new.todo = work[w].todo /\ new.post = NoPost
        /\ new = AtRest \/ (new.pc = "next" /\ new.job = "backfill" /\ work[w].job = "backfill")
  BY <1>1, PostFinished
<1>4. work' \in [Workers -> WorkRecord] /\ work'[w] = new /\ OnlyThis(w)
  BY <1>1, <1>3, SetOne DEF PostsTypes, OnlyThis
<1>5. AtRest.job = "none" /\ AtRest.pc = "idle" /\ AtRest.todo = {}
  BY DEF AtRest
<1>6. PostsTypes'
  BY <1>1, <1>2, <1>4 DEF PostsTypes, ledger
<1>7. NoneUnsent /\ date' = date
  BY <1>1 DEF NoneUnsent, PostsTypes
<1>8. Shapes'
  <2>1. Shape(w)'
    BY <1>3, <1>4, <1>5, PostNames DEF Shape
  <2> QED BY <1>1, <1>4, <1>6, <1>7, <2>1, ShapesStay
<1>9. PlanInv'
  BY <1>1, <1>3, <1>4, <1>5, <1>6, <1>7, PlanStays
<1>10. RecapInv'
  <2> SUFFICES ASSUME conf'.base, NEW t \in Trades \ excused' PROVE TradeInv(t)'
    BY DEF RecapInv
  <2>1. /\ TradeInv(t) /\ tweets' = tweets /\ archive' = archive /\ opened' = opened
        /\ closed' = closed
    BY <1>1 DEF RecapInv, ledger
  <2>2. Holds(w, t)' => Holds(w, t)
    BY <1>3, <1>4, TradesOf DEF Holds, TradeOf
  <2>3. Holds(w, t) => t \in opened /\ \A v \in Workers \ {w} : ~Holds(v, t)
    BY <2>1 DEF TradeInv, InOneHand, NotYet
  <2>4. work'[w].post \notin {Entry(t), Exit(t)} /\ t \notin TradeOf(work'[w].post)
    BY <1>3, <1>4, PostNames, TradesOf
  <2>5. Unpublished(w, t)'
    BY <1>3, <1>4, <2>1, <2>4 DEF TradeInv, Unpublished, TradeOf
  <2>6. ~Carries(w, t)
    BY <1>1 DEF Carries
  <2> QED BY <1>4, <2>1, <2>2, <2>3, <2>4, <2>5, <2>6, TradeStays
<1>11. ArchiveTrue'
  BY <1>1, <1>2, <1>4, <1>6, <1>7, ArchiveStays
<1> QED BY <1>6, <1>8, <1>9, <1>10, <1>11 DEF PostsInv

LEMMA PosterIsKilled ==
  ASSUME PostsInv, NEW w \in Workers, Killed(w)
  PROVE  PostsInv'
<1>1. /\ PostsTypes /\ Shapes /\ PlanInv /\ RecapInv /\ ArchiveTrue
      /\ Set(w, AtRest)
      /\ excused' = excused \cup (IF work[w].pc = "archive" /\ work[w].status = "posted"
                                  THEN TradeOf(work[w].post) ELSE {})
      /\ untold' = untold \cup (IF work[w].pc = "tell" THEN {work[w].post} ELSE {})
      /\ UNCHANGED <<date, hour, conf, files, ledger, tweets, again>>
  BY DEF PostsInv, Killed, At, Excuse
<1>2. work' \in [Workers -> WorkRecord] /\ work'[w] = AtRest /\ OnlyThis(w)
  BY <1>1, AtRestRecord, SetOne DEF PostsTypes, OnlyThis
<1>3. AtRest.job = "none" /\ AtRest.pc = "idle" /\ AtRest.todo = {} /\ AtRest.post = NoPost
  BY DEF AtRest
<1>4. PostsTypes'
  <2>1. excused' \subseteq Trades
    BY <1>1 DEF PostsTypes, TradeOf
  <2>2. untold' \subseteq Posts
    BY <1>1 DEF PostsTypes, Shapes, Shape
  <2> QED BY <1>1, <1>2, <2>1, <2>2 DEF PostsTypes, files, ledger
<1>5. NoneUnsent /\ date' = date
  BY <1>1 DEF NoneUnsent, PostsTypes
<1>6. Shapes'
  <2>1. Shape(w)'
    BY <1>2, <1>3, PostNames DEF Shape
  <2> QED BY <1>1, <1>2, <1>4, <1>5, <2>1, ShapesStay
<1>7. PlanInv'
  BY <1>1, <1>2, <1>3, <1>4, <1>5, PlanStays DEF files
<1>8. RecapInv'
  <2>1. \A t \in Trades \ excused' : ~Carries(w, t)
    BY <1>1, TradesOf DEF Carries
  <2> QED BY <1>1, <1>2, <1>3, <2>1, TradesOf, LetsGo DEF files, ledger
<1>9. ArchiveTrue'
  BY <1>1, <1>2, <1>4, <1>5, ArchiveStays DEF files
<1> QED BY <1>4, <1>6, <1>7, <1>8, <1>9 DEF PostsInv

\* The operator and the clock move only while every process is at rest.
LEMMA WorldMoves ==
  ASSUME PostsInv, Configure \/ HourPasses
  PROVE  PostsInv'
<1>1. /\ PostsTypes /\ Shapes /\ PlanInv /\ RecapInv /\ ArchiveTrue
      /\ \A w \in Workers : work[w] = AtRest
      /\ UNCHANGED <<files, ledger, work, tweets, again, excused, untold>>
  BY DEF PostsInv, Shapes, Shape, Configure, HourPasses, At, ghosts
<1>2. AtRest.job = "none" /\ AtRest.pc = "idle" /\ AtRest.todo = {} /\ AtRest.post = NoPost
  BY DEF AtRest
<1>3. /\ conf' \in [enabled : BOOLEAN, dry : BOOLEAN, keys : BOOLEAN, base : BOOLEAN]
      /\ conf'.base = conf.base
  <2>1. CASE Configure
    <3>1. PICK key \in {"enabled", "dry", "keys"} : conf' = [conf EXCEPT ![key] = ~@]
      BY <2>1 DEF Configure
    <3>2. conf \in [enabled : BOOLEAN, dry : BOOLEAN, keys : BOOLEAN, base : BOOLEAN]
      BY <1>1 DEF PostsTypes
    <3>3. CASE key = "enabled"
      BY <3>1, <3>2, <3>3
    <3>4. CASE key = "dry"
      BY <3>1, <3>2, <3>4
    <3>5. CASE key = "keys"
      BY <3>1, <3>2, <3>5
    <3> QED BY <3>3, <3>4, <3>5
  <2>2. CASE HourPasses
    BY <1>1, <2>2 DEF HourPasses, PostsTypes
  <2> QED BY <2>1, <2>2
<1>4. /\ date' \in {date, date + 1} /\ date' \in 1 .. PostDays /\ date \in 1 .. PostDays
      /\ hour' \in {"early", "plan", "late"}
  <2>1. date \in 1 .. PostDays /\ PostDays \in Nat
    BY <1>1, PostsAssumption DEF PostsTypes
  <2>2. CASE Configure
    BY <1>1, <2>1, <2>2 DEF Configure, PostsTypes
  <2>3. CASE HourPasses
    BY <1>1, <2>1, <2>3 DEF HourPasses, PostsTypes
  <2> QED BY <2>2, <2>3
<1>5. PostsTypes'
  BY <1>1, <1>3, <1>4 DEF PostsTypes, files, ledger
<1>6. Shapes'
  BY <1>1, <1>2, PostNames DEF Shapes, Shape
<1>7. PlanInv'
  <2>1. PlanOnce' /\ marker' <= date' /\ \A d \in 1 .. PostDays : d > date' => tweets'[Plan(d)] = 0
    BY <1>1, <1>4 DEF PlanInv, PlanOnce, files, PostsTypes
  <2>2. \A w \in Workers : work'[w].job # "plan"
    BY <1>1, <1>2
  <2>3. date' \notin again' /\ tweets'[Plan(date')] > 0 => marker' = date'
    <3>1. CASE date' = date
      BY <1>1, <3>1 DEF PlanInv, OnePlan, files
    <3>2. CASE date' = date + 1
      BY <1>1, <1>4, <3>2 DEF PlanInv, PostsTypes
    <3> QED BY <1>4, <3>1, <3>2
  <2> QED BY <2>1, <2>2, <2>3 DEF PlanInv, OnePlan
<1>8. RecapInv'
  <2> SUFFICES ASSUME conf'.base, NEW t \in Trades \ excused' PROVE TradeInv(t)'
    BY DEF RecapInv
  <2>1. TradeInv(t)
    BY <1>1, <1>3 DEF RecapInv
  <2> QED BY <1>1, <2>1 DEF TradeInv, InOneHand, Holds, TradeOf, Unpublished, Archived, Carries,
                          NotYet, posted_ids, files, ledger
<1>9. ArchiveTrue'
  BY <1>1 DEF ArchiveTrue, At, files
<1> QED BY <1>5, <1>6, <1>7, <1>8, <1>9 DEF PostsInv

LEMMA PostsBegin == PostsInit => PostsInv
<1> SUFFICES ASSUME PostsInit PROVE PostsInv
  OBVIOUS
<1>1. /\ \A w \in Workers : work[w] = AtRest
      /\ AtRest.job = "none" /\ AtRest.pc = "idle" /\ AtRest.todo = {} /\ AtRest.post = NoPost
  BY DEF PostsInit, AtRest
<1>2. \A p \in Posts : tweets[p] = 0
  BY DEF PostsInit
<1>3. PostsTypes
  <2>1. work \in [Workers -> WorkRecord] /\ tweets \in [Posts -> Nat]
    BY AtRestRecord DEF PostsInit
  <2>2. 1 \in 1 .. PostDays /\ 0 \in 0 .. PostDays
    BY PostsAssumption
  <2> QED BY <2>1, <2>2 DEF PostsInit, PostsTypes
<1>4. Shapes
  BY <1>1, PostNames DEF Shapes, Shape
<1>5. PlanInv
  BY <1>1, <1>2, <1>3, PostNames DEF PlanInv, PlanOnce, OnePlan, PostsInit, PostsTypes
<1>6. RecapInv
  <2> SUFFICES ASSUME NEW t \in Trades PROVE TradeInv(t)
    BY DEF RecapInv
  <2>1. tweets[Entry(t)] = 0 /\ tweets[Exit(t)] = 0
    BY <1>2, PostNames
  <2>2. \A w \in Workers : ~Holds(w, t) /\ work[w].post # Exit(t)
    BY <1>1, PostNames, TradesOf DEF Holds
  <2>3. \A w \in Workers : Unpublished(w, t)
    BY <1>1, PostNames DEF Unpublished
  <2> QED BY <2>1, <2>2, <2>3 DEF TradeInv, InOneHand, Archived, NotYet
<1>7. ArchiveTrue
  BY DEF ArchiveTrue, PostsInit
<1> QED BY <1>3, <1>4, <1>5, <1>6, <1>7 DEF PostsInv

LEMMA PostsGoOn == PostsInv /\ [PostsNext]_posts => PostsInv'
<1> SUFFICES ASSUME PostsInv, [PostsNext]_posts PROVE PostsInv'
  OBVIOUS
<1>1. ASSUME NEW w \in Workers,
             \/ Catchup(w) \/ PlanSlot(w) \/ write_plan_marker(w) \/ Gather(w) \/ ReviewSlot(w)
             \/ Backfill(w) \/ Pick(w) \/ add_entry(w) \/ post_text(w) \/ _archive(w)
             \/ _ledger_degradation(w) \/ Killed(w)
             \/ \E t \in Trades : Opens(w, t) \/ Closes(w, t)
      PROVE  PostsInv'
  BY <1>1, PlanBegins, PlanGoesOn, ReviewBegins, TradeOpensOrCloses, BackfillBegins, BackfillPicks,
     EntryIsAdded, PostIsAnswered, PostIsArchived, FailureIsTold, PosterIsKilled
<1>2. CASE Configure \/ HourPasses
  BY <1>2, WorldMoves
<1>3. CASE UNCHANGED posts
  BY <1>3 DEF posts, files, ledger, ghosts, PostsInv, PostsTypes, Shapes, Shape, PlanInv, PlanOnce,
              OnePlan, RecapInv, TradeInv, InOneHand, Holds, TradeOf, Unpublished, Archived, Carries,
              NotYet, posted_ids, ArchiveTrue, At
<1> QED BY <1>1, <1>2, <1>3 DEF PostsNext

\* The plan of a day is published once, a trade's recaps once, and archive and
\* ledger say what became of every post (daily_posts.py, backfill_posts.py,
\* x_poster.py), but for the exceptions that PlanOnce and RecapOnce name.
THEOREM PostedOnce == PostsSpec => []PostsHonest
<1>1. PostsInv => PostsHonest
  BY DEF PostsInv, PostsHonest, PlanInv, RecapInv, TradeInv, RecapOnce
<1> QED BY <1>1, PostsBegin, PostsGoOn, PTL DEF PostsSpec

=============================================================================
