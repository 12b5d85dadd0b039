------------------------------- MODULE Publisher -------------------------------
(***************************************************************************)
(* The publisher (publisher/): a mailing list with one-time links, paid    *)
(* tiers granted by billing events, and the daily digest.  The web service *)
(* and each digest run are processes of their own over one database and    *)
(* one log of runs; requests are served by threads of the service.         *)
(*                                                                         *)
(* A handler is one step, except the opt-out by link, which commits twice, *)
(* and a digest run, which reads its guard and its recipients, then mails  *)
(* one address at a time and only then records that it ran.                *)
(***************************************************************************)
EXTENDS Integers, Sequences, FiniteSets, SequencesExt

CONSTANTS
  People, Runs,
  Everyone,     \* a run without --to
  Days,         \* bound: days of the model
  TTL,          \* days an opt-out link lives
  Cap,          \* max_recipients_per_run, 0 for none
  MaxRows, MaxPending,   \* bounds: rows and undelivered events when a payment is made
  MaxFaults     \* bound: faults of the processes, the mail and the network

ASSUME SetsAssumption == Everyone \notin People
ASSUME NumbersAssumption == {Days, TTL, Cap, MaxRows, MaxPending, MaxFaults} \subseteq Nat

VARIABLES
  day,
  status,        \* subscribers: none, active, unsubscribed
  rows,          \* live entitlement rows of each address
  login,         \* addresses with an unused sign-in link
  session,       \* addresses signed in
  token,         \* opt-out token of each run's mail: none, live, used
  leaving,       \* threads of /unsubscribe/confirm between their two commits
  gate,          \* is the revenue gate open?
  events,        \* billing events of each address that are still to be delivered
  paying,        \* ghost: what the last of its events said
  overtaken,     \* ghost: addresses with an event delivered before an older one
  run,           \* each digest run
  inbox,         \* who received a run's digest
  answered,      \* ghost: opt-outs by link that were answered, or died
  odd,           \* ghost: days with a forced, overlapping, killed or unanswered run
  faults

web    == <<status, rows, login, session, leaving, answered>>
stripe == <<events, paying, overtaken>>
mail   == <<token, run, inbox, odd>>
vars   == <<day, web, gate, stripe, mail, faults>>

Spend == faults < MaxFaults /\ faults' = faults + 1

Idle == [pc |-> "idle", day |-> 0, dry |-> FALSE, only |-> Everyone, todo |-> {}, mailed |-> 0]

-----------------------------------------------------------------------------
(* The tables.                                                             *)

upsert_subscriber(e) ==
  status' = [status EXCEPT ![e] = "active"]
active_emails == {e \in People : status[e] = "active"}
tier(e) == IF rows[e] > 0 THEN "paid" ELSE "free"

grant(e) == rows' = [rows EXCEPT ![e] = @ + 1]
\* A bug: one row is revoked, and every renewal had added one.
revokeOne(e) == rows' = [rows EXCEPT ![e] = IF @ > 0 THEN @ - 1 ELSE 0]
revoke(e) == rows' = [rows EXCEPT ![e] = 0]

\* The token of run r's mail to e, within its time and not yet used.
Valid(r, e) == token[r][e] = "live" /\ day < run[r].day + TTL

issue_token(r, e) == token' = [token EXCEPT ![r][e] = "live"]
consume_token(r, e) == Valid(r, e) /\ token' = [token EXCEPT ![r][e] = "used"]

-----------------------------------------------------------------------------
(* Signing in and out.                                                     *)

\* Anyone may ask for a link to any address; asking makes it a subscriber.
RequestLink(e) ==
  /\ upsert_subscriber(e)
  /\ login' = login \cup {e}
  /\ UNCHANGED <<day, rows, session, leaving, answered, gate, stripe, mail, faults>>

Verify(e) ==
  /\ e \in login
  /\ login' = login \ {e} /\ session' = session \cup {e}
  /\ UNCHANGED <<day, status, rows, leaving, answered, gate, stripe, mail, faults>>

require_session(e) == e \in session

unsubscribe(e) ==
  status' = [status EXCEPT ![e] = IF @ = "none" THEN @ ELSE "unsubscribed"]

\* POST /unsubscribe, by a signed-in reader.
AccountUnsubscribe(e) ==
  /\ require_session(e)
  /\ unsubscribe(e)
  /\ UNCHANGED <<day, rows, login, session, leaving, answered, gate, stripe, mail, faults>>

\* A bug: the page burns the token it shows.
unsubscribe_pageBurns(r, e) ==
  /\ e \in inbox[r]
  /\ IF Valid(r, e) THEN token' = [token EXCEPT ![r][e] = "used"] ELSE UNCHANGED token
  /\ UNCHANGED <<day, web, gate, stripe, run, inbox, odd, faults>>

\* GET /unsubscribe, by the reader or by a scanner of their mail: changes nothing.
unsubscribe_page(r, e) ==
  /\ e \in inbox[r]
  /\ UNCHANGED vars

\* POST /unsubscribe/confirm burns the token ...
Confirm(r, e) ==
  /\ e \in inbox[r]
  /\ consume_token(r, e)
  /\ leaving' = leaving \cup {<<r, e>>}
  /\ UNCHANGED <<day, status, rows, login, session, answered, gate, stripe, run, inbox, odd,
                 faults>>

\* ... and then opts the address out.
ConfirmDone(r, e) ==
  /\ <<r, e>> \in leaving
  /\ leaving' = leaving \ {<<r, e>>} /\ answered' = answered \cup {<<r, e>>}
  /\ unsubscribe(e)
  /\ UNCHANGED <<day, rows, login, session, gate, stripe, mail, faults>>

\* The service is restarted: its threads are gone, its sessions are in cookies.
Restart ==
  /\ leaving # {} /\ Spend
  /\ leaving' = {} /\ answered' = answered \cup leaving
  /\ UNCHANGED <<day, status, rows, login, session, gate, stripe, mail>>

-----------------------------------------------------------------------------
(* Billing.                                                                *)

\* revenue_gate: the track record grows, the attestations are lines of a file
\* that may be taken back.
revenue_gate == gate
GateMoves == gate' = ~gate /\ UNCHANGED <<day, web, stripe, mail, faults>>

Emit(e, kind) ==
  /\ Len(events[e]) < MaxPending /\ (kind = "grant" => rows[e] < MaxRows)
  /\ events' = [events EXCEPT ![e] = Append(@, kind)]
  /\ paying' = [paying EXCEPT ![e] = kind]
  /\ UNCHANGED overtaken

create_checkout(e) ==
  /\ require_session(e) /\ revenue_gate
  /\ Emit(e, "grant")
  /\ UNCHANGED <<day, web, gate, mail, faults>>

\* A renewal is paid, or fails, or the subscription ends.
Bills(e) ==
  /\ paying[e] # "none"
  /\ \E kind \in {"grant", "revoke"} : Emit(e, kind)
  /\ UNCHANGED <<day, web, gate, mail, faults>>

\* handle_webhook: what a delivered event does.
handle_webhook(e, kind) ==
  IF kind = "grant"
  THEN revenue_gate /\ upsert_subscriber(e) /\ grant(e)
  ELSE revoke(e) /\ UNCHANGED status

\* A grant that finds the gate closed is answered 400 and stays for a retry, as
\* does an event whose answer is lost.
Deliver(e) ==
  \E i \in DOMAIN events[e] :
    /\ handle_webhook(e, events[e][i])
    /\ \/ events' = [events EXCEPT ![e] = RemoveAt(@, i)] /\ UNCHANGED faults
       \/ UNCHANGED events /\ Spend
    /\ overtaken' = IF i > 1 THEN overtaken \cup {e} ELSE overtaken
    /\ UNCHANGED <<day, login, session, leaving, answered, gate, paying, mail>>

-----------------------------------------------------------------------------
(* The digest.                                                             *)

\* A bug: only a run for everyone counts.
_already_ran_todayFull(d) ==
  \E r \in Runs : run[r].pc = "done" /\ run[r].day = d /\ run[r].only = Everyone /\ run[r].mailed > 0
_already_ran_today(d) ==
  \E r \in Runs : run[r].pc = "done" /\ run[r].day = d /\ run[r].mailed > 0

Underway(r) == run[r].pc = "mailing"

\* The checks of a run in their order; one that is refused records its reason
\* and no mail.  A tier with nothing to report is left out; what the free tier
\* sees, the paid tier sees too.
Begin(r, dry, only, force) ==
  /\ run[r].pc = "idle"
  /\ \E empty \in {{}, {"free"}, {"free", "paid"}} :
       LET asList == IF only = Everyone THEN active_emails ELSE {only}
           refused ==
             IF ~force /\ _already_ran_today(day) THEN "already"
             ELSE IF \/ only # Everyone /\ only \notin active_emails
                     \/ asList = {}
                     \/ Cap > 0 /\ Cardinality(asList) > Cap THEN "refused"
             ELSE "mailing"
       IN run' = [run EXCEPT ![r] =
            [pc |-> refused, day |-> day, dry |-> dry, only |-> only, mailed |-> 0,
             todo |-> IF refused = "mailing" THEN {e \in asList : tier(e) \notin empty} ELSE {}]]
  /\ odd' = IF force \/ \E q \in Runs : Underway(q) THEN odd \cup {day} ELSE odd
  /\ UNCHANGED <<day, web, gate, stripe, token, inbox, faults>>

\* What the mail to one address may come to; a dry run writes the outbox file.
send(r) == IF run[r].dry THEN {"ok"} ELSE {"ok", "failed", "unanswered"}

\* One address: a token, then the mail.  A failure of either is noted and the
\* next address has its turn; a mail whose answer was lost counts as a failure.
Mail(r, e) ==
  /\ Underway(r) /\ e \in run[r].todo
  /\ \E got \in {"notoken"} \cup send(r) :
       /\ run' = [run EXCEPT ![r].todo = @ \ {e}, ![r].mailed = @ + (IF got = "ok" THEN 1 ELSE 0)]
       /\ IF got = "notoken" THEN UNCHANGED token ELSE issue_token(r, e)
       /\ inbox' = IF got \in {"ok", "unanswered"} /\ ~run[r].dry
                   THEN [inbox EXCEPT ![r] = @ \cup {e}] ELSE inbox
       /\ odd' = IF got = "unanswered" THEN odd \cup {run[r].day} ELSE odd
       /\ IF got = "ok" THEN UNCHANGED faults ELSE Spend
  /\ UNCHANGED <<day, web, gate, stripe>>

\* The line of the run log, after the last mail.
_record(r) ==
  /\ Underway(r) /\ run[r].todo = {}
  /\ run' = [run EXCEPT ![r].pc = "done"]
  /\ UNCHANGED <<day, web, gate, stripe, token, inbox, odd, faults>>

\* The run is killed before its line is written.
Kill(r) ==
  /\ Underway(r) /\ Spend
  /\ run' = [run EXCEPT ![r].pc = "killed", ![r].todo = {}]
  /\ odd' = odd \cup {run[r].day}
  /\ UNCHANGED <<day, web, gate, stripe, token, inbox>>

\* A day passes; sign-in links last minutes.
NewDay ==
  /\ day < Days
  /\ day' = day + 1 /\ login' = {}
  /\ UNCHANGED <<status, rows, session, leaving, answered, gate, stripe, mail, faults>>

-----------------------------------------------------------------------------
Init ==
  /\ day = 0
  /\ status = [e \in People |-> "none"] /\ rows = [e \in People |-> 0]
  /\ login = {} /\ session = {} /\ leaving = {} /\ answered = {}
  /\ token = [r \in Runs |-> [e \in People |-> "none"]]
  /\ gate = FALSE
  /\ events = [e \in People |-> <<>>] /\ paying = [e \in People |-> "none"] /\ overtaken = {}
  /\ run = [r \in Runs |-> Idle] /\ inbox = [r \in Runs |-> {}] /\ odd = {}
  /\ faults = 0

Next ==
  \/ \E e \in People :
       \/ RequestLink(e) \/ Verify(e) \/ AccountUnsubscribe(e)
       \/ create_checkout(e) \/ Bills(e) \/ Deliver(e)
  \/ \E r \in Runs, e \in People :
       unsubscribe_page(r, e) \/ Confirm(r, e) \/ ConfirmDone(r, e) \/ Mail(r, e)
  \/ \E r \in Runs, dry \in BOOLEAN, only \in People \cup {Everyone}, force \in BOOLEAN :
       Begin(r, dry, only, force)
  \/ \E r \in Runs : _record(r) \/ Kill(r)
  \/ Restart \/ GateMoves \/ NewDay

Spec == Init /\ [][Next]_vars

-----------------------------------------------------------------------------
TypeOK ==
  /\ day \in 0 .. Days
  /\ status \in [People -> {"none", "active", "unsubscribed"}]
  /\ rows \in [People -> Nat]
  /\ login \subseteq People /\ session \subseteq People
  /\ token \in [Runs -> [People -> {"none", "live", "used"}]]
  /\ leaving \subseteq Runs \X People /\ answered \subseteq Runs \X People
  /\ gate \in BOOLEAN
  /\ events \in [People -> Seq({"grant", "revoke"})]
  /\ paying \in [People -> {"none", "grant", "revoke"}] /\ overtaken \subseteq People
  /\ run \in [Runs -> [pc : {"idle", "mailing", "already", "refused", "done", "killed"},
                       day : 0 .. Days, dry : BOOLEAN, only : People \cup {Everyone},
                       todo : SUBSET People, mailed : Nat]]
  /\ inbox \in [Runs -> SUBSET People]
  /\ odd \subseteq 0 .. Days
  /\ faults \in 0 .. MaxFaults

\* The link in a digest works for its whole life, whoever has fetched it
\* meanwhile (app.py, unsubscribe_page): only its reader's confirmation ends it.
LinksWork ==
  \A r \in Runs : \A e \in inbox[r] :
    Valid(r, e) \/ day >= run[r].day + TTL \/ <<r, e>> \in leaving \cup answered

\* Nobody receives two digests of one day, unless a run of that day was forced,
\* overlapped another, was killed or sent mail it took for lost.
MailedOnce ==
  \A r, q \in Runs :
    r # q /\ inbox[r] \cap inbox[q] # {} => run[r].day # run[q].day \/ run[r].day \in odd

\* When every billing event has been delivered, each address has the tier its
\* last event gave it, however often events were repeated, unless one was
\* overtaken by a later one.
TierAgrees ==
  \A e \in People \ overtaken :
    events[e] = <<>> => (tier(e) = "paid" <=> paying[e] = "grant")
=============================================================================
