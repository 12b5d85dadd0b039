--------------------------------- MODULE Posts ---------------------------------
(***************************************************************************)
(* The public posts (src/daily_posts.py, src/x_poster.py,                  *)
(* src/backfill_posts.py and the recaps of src/main.py): the morning's     *)
(* plan, the evening's review, a recap of every entry and exit, and a      *)
(* backfill that posts the entries whose recap never went out.             *)
(*                                                                         *)
(* Each is a process of its own over three files: the marker of the last   *)
(* plan, the archive of posts and the journal.  A process may be killed    *)
(* between any two steps, a tweet's reply may be lost, and writing the     *)
(* archive or the journal may fail, which no process notices.              *)
(***************************************************************************)
EXTENDS Naturals, FiniteSets

CONSTANTS
  Workers,       \* processes that may run at once
  Trades,
  PostDays,      \* bound: days; the model's are all weekdays but the last
  MaxRuns,       \* bound: processes started
  MaxTroubles    \* bound: faults

\* The name of a trade is not a date, and every bound is a number.
ASSUME PostsAssumption ==
  /\ {PostDays, MaxRuns, MaxTroubles} \subseteq Nat /\ PostDays > 0
  /\ Trades \cap (1 .. PostDays) = {} /\ "post" \notin Trades

VARIABLES
  date, hour,     \* "early", "plan" from 9:35, "late"
  marker,        \* day in memory/last_plan_post, 0 without
  conf,          \* x_posting: enabled, dry, keys, base
  opened, closed,   \* trades the ledger has executed, has closed
  journaled,     \* trades with an entry in the journal
  archive,       \* rows of the archive: post, status, linked
  degraded,      \* posts the ledger has a degradation for
  work,          \* each process: pc, and what it works on
  runs, troubles,
  tweets,        \* ghost: how often each post was published
  again,         \* ghost: days whose plan was run beside another, or by its slot after one
  excused,       \* ghost: trades with a step lost, or in two hands
  untold         \* ghost: posts whose degradation was lost on its way to the ledger

files  == <<marker, journaled, archive, degraded>>
ledger == <<opened, closed>>
ghosts == <<tweets, again, excused, untold>>
posts  == <<date, hour, conf, files, ledger, work, runs, troubles, ghosts>>

Plan(d) == <<"plan", d>>
Review(d) == <<"review", d>>
Entry(t) == <<"entry", t>>
Exit(t) == <<"exit", t>>
Recaps == {Entry(t) : t \in Trades} \cup {Exit(t) : t \in Trades}
Posts == {Plan(d) : d \in 1 .. PostDays} \cup {Review(d) : d \in 1 .. PostDays} \cup Recaps

NoPost == <<"no", "post">>
AtRest == [job |-> "none", pc |-> "idle", post |-> NoPost, linked |-> FALSE, todo |-> {},
         known |-> {}, live |-> TRUE, status |-> "none"]

Trouble == troubles < MaxTroubles /\ troubles' = troubles + 1
Set(w, new) == work' = [work EXCEPT ![w] = new]
At(w, pc) == work[w].pc = pc
Start(w, new) == At(w, "idle") /\ runs < MaxRuns /\ runs' = runs + 1 /\ Set(w, new)

Weekday == date < PostDays
TradeOf(post) == {post[2]} \cap Trades
Excuse(trades) == excused' = excused \cup trades
\* Trades other processes have in hand.
InHand(w) == UNION {TradeOf(work[v].post) \cup work[v].todo : v \in Workers \ {w}}

-----------------------------------------------------------------------------
(* The plan and the review.                                                *)

\* A bug: any weekday morning.
should_catchupAnyway == Weekday /\ hour # "early"
should_catchup == Weekday /\ hour # "early" /\ marker # date

Planning(w) == \E v \in Workers \ {w} : work[v].job = "plan"

\* The hourly refresh looks at the marker ...
Catchup(w) ==
  /\ should_catchup
  /\ Start(w, [AtRest EXCEPT !.job = "plan", !.pc = "mark"])
  /\ again' = IF Planning(w) THEN again \cup {date} ELSE again
  /\ UNCHANGED <<date, hour, conf, files, ledger, troubles, tweets, excused, untold>>

\* ... and the slot at 9:35 does not.
PlanSlot(w) ==
  /\ Weekday /\ hour = "plan"
  /\ Start(w, [AtRest EXCEPT !.job = "plan", !.pc = "mark"])
  /\ again' = IF Planning(w) \/ marker = date THEN again \cup {date} ELSE again
  /\ UNCHANGED <<date, hour, conf, files, ledger, troubles, tweets, excused, untold>>

\* The attempt is recorded before anything is posted.
write_plan_marker(w) ==
  /\ At(w, "mark") /\ marker' = date
  /\ Set(w, [work[w] EXCEPT !.pc = "gather"])
  /\ UNCHANGED <<date, hour, conf, journaled, archive, degraded, ledger, runs, troubles, ghosts>>

\* A HALT, or SPY's bars missing or stale: no post today, and the ledger says so.
Gather(w) ==
  /\ At(w, "gather")
  /\ \/ Set(w, AtRest)
     \/ Set(w, [work[w] EXCEPT !.pc = "post", !.post = Plan(date)])
  /\ UNCHANGED <<date, hour, conf, files, ledger, runs, troubles, ghosts>>

ReviewSlot(w) ==
  /\ Weekday /\ hour = "late"
  /\ Start(w, [AtRest EXCEPT !.job = "review", !.pc = "post", !.post = Review(date)])
  /\ UNCHANGED <<date, hour, conf, files, ledger, troubles, ghosts>>

-----------------------------------------------------------------------------
(* The recaps.                                                             *)

\* A cycle has entered or closed a trade, and the ledger has it.
Opens(w, t) ==
  /\ t \notin opened /\ opened' = opened \cup {t} /\ UNCHANGED closed
  /\ Start(w, [AtRest EXCEPT !.job = "cycle", !.pc = "journal", !.post = Entry(t)])
  /\ UNCHANGED <<date, hour, conf, files, troubles, ghosts>>
Closes(w, t) ==
  /\ t \in opened \ closed /\ closed' = closed \cup {t} /\ UNCHANGED opened
  /\ Start(w, [AtRest EXCEPT !.job = "cycle", !.pc = "journal", !.post = Exit(t)])
  /\ Excuse({t} \cap InHand(w))
  /\ UNCHANGED <<date, hour, conf, files, troubles, tweets, again, untold>>

\* The archive's rows that were published with a link name their trade, be it
\* its entry or its exit.
posted_ids ==
  {t \in Trades : \E row \in archive : row.status = "posted" /\ row.linked /\ t \in TradeOf(row.post)}
pending_buys(already) == opened \ already

Backfill(w) ==
  /\ \E live \in BOOLEAN :
       LET todo == pending_buys(posted_ids) IN
       Start(w, [AtRest EXCEPT !.job = "backfill", !.pc = "next", !.live = live, !.todo = todo,
                             !.known = journaled])
  /\ Excuse(pending_buys(posted_ids) \cap InHand(w))
  /\ UNCHANGED <<date, hour, conf, files, ledger, troubles, tweets, again, untold>>

Pick(w) ==
  /\ At(w, "next")
  /\ \/ work[w].todo = {} /\ Set(w, AtRest)
     \/ \E t \in work[w].todo :
          Set(w, [work[w] EXCEPT !.todo = @ \ {t}, !.post = Entry(t), !.linked = conf.base,
                                 !.pc = IF t \in work[w].known THEN "post" ELSE "journal"])
  /\ UNCHANGED <<date, hour, conf, files, ledger, runs, troubles, ghosts>>

\* add_entry never raises.  The cycle links what was written; the backfill
\* links in any case.
add_entry(w) ==
  /\ At(w, "journal")
  /\ LET t == work[w].post[2] IN
     \/ /\ journaled' = journaled \cup {t}
        /\ Set(w, [work[w] EXCEPT !.pc = "post", !.linked = conf.base])
        /\ UNCHANGED <<troubles, excused>>
     \/ /\ Trouble /\ UNCHANGED journaled
        /\ Set(w, [work[w] EXCEPT !.pc = "post", !.linked = @ /\ work[w].job = "backfill"])
        /\ Excuse({t})
  /\ UNCHANGED <<date, hour, conf, marker, archive, degraded, ledger, runs, tweets, again, untold>>

-----------------------------------------------------------------------------
(* Delivery.                                                               *)

Dry(w) == conf.dry \/ ~work[w].live

\* What becomes of a post before X is asked.
Kept(w) ==
  CASE ~conf.enabled -> "x_disabled"
    [] conf.enabled /\ Dry(w) -> "dry_run"
    [] conf.enabled /\ ~Dry(w) /\ ~conf.keys -> "no_credentials"
    [] OTHER -> "send"

Answered(w, status) == Set(w, [work[w] EXCEPT !.pc = "archive", !.status = status])

\* X publishes, or refuses, or publishes and its reply is lost.
post_text(w) ==
  /\ At(w, "post")
  /\ LET post == work[w].post IN
     \/ Kept(w) # "send" /\ Answered(w, Kept(w)) /\ UNCHANGED <<troubles, tweets, excused>>
     \/ /\ Kept(w) = "send" /\ Answered(w, "posted") /\ UNCHANGED <<troubles, excused>>
        /\ tweets' = [tweets EXCEPT ![post] = @ + 1]
     \/ Kept(w) = "send" /\ Trouble /\ Answered(w, "failed") /\ UNCHANGED <<tweets, excused>>
     \/ /\ Kept(w) = "send" /\ Trouble /\ Answered(w, "failed")
        /\ tweets' = [tweets EXCEPT ![post] = @ + 1] /\ Excuse(TradeOf(post))
  /\ UNCHANGED <<date, hour, conf, files, ledger, runs, again, untold>>

Finished(w) ==
  Set(w, IF work[w].job = "backfill"
         THEN [work[w] EXCEPT !.pc = "next", !.post = NoPost, !.status = "none"] ELSE AtRest)

\* A failed write loses the row and nothing else.
_archive(w) ==
  /\ At(w, "archive")
  /\ LET mine == work[w] IN
     \/ /\ archive' = archive \cup {[post |-> mine.post, status |-> mine.status, linked |-> mine.linked]}
        /\ UNCHANGED <<troubles, excused>>
     \/ Trouble /\ UNCHANGED archive /\ Excuse(TradeOf(mine.post))
  /\ IF work[w].status \in {"no_credentials", "failed"}
     THEN Set(w, [work[w] EXCEPT !.pc = "tell"]) ELSE Finished(w)
  /\ UNCHANGED <<date, hour, conf, marker, journaled, degraded, ledger, runs, tweets, again, untold>>

\* A post that X did not take is told to the ledger after its row is written; a
\* failed write is swallowed here too.
_ledger_degradation(w) ==
  /\ At(w, "tell")
  /\ \/ degraded' = degraded \cup {work[w].post} /\ UNCHANGED <<troubles, untold>>
     \/ Trouble /\ untold' = untold \cup {work[w].post} /\ UNCHANGED degraded
  /\ Finished(w)
  /\ UNCHANGED <<date, hour, conf, marker, journaled, archive, ledger, runs, tweets, again, excused>>

-----------------------------------------------------------------------------
(* Around them.                                                            *)

Killed(w) ==
  /\ ~At(w, "idle") /\ Trouble /\ Set(w, AtRest)
  /\ Excuse(IF At(w, "archive") /\ work[w].status = "posted" THEN TradeOf(work[w].post) ELSE {})
  /\ untold' = untold \cup (IF At(w, "tell") THEN {work[w].post} ELSE {})
  /\ UNCHANGED <<date, hour, conf, files, ledger, runs, tweets, again>>

\* The operator turns posting on, leaves dry runs, or sets the keys.
Configure ==
  /\ \E key \in {"enabled", "dry", "keys"} :
       conf[key] = (key = "dry") /\ conf' = [conf EXCEPT ![key] = ~@]
  /\ \A w \in Workers : At(w, "idle")
  /\ UNCHANGED <<date, hour, files, ledger, work, runs, troubles, ghosts>>

HourPasses ==
  /\ \A w \in Workers : At(w, "idle")
  /\ \/ hour = "early" /\ hour' = "plan" /\ UNCHANGED date
     \/ hour = "plan" /\ hour' = "late" /\ UNCHANGED date
     \/ hour = "late" /\ date < PostDays /\ hour' = "early" /\ date' = date + 1
  /\ UNCHANGED <<conf, files, ledger, work, runs, troubles, ghosts>>

PostsInit ==
  /\ date = 1 /\ hour = "early" /\ marker = 0
  /\ conf \in [enabled : BOOLEAN, dry : BOOLEAN, keys : BOOLEAN, base : BOOLEAN]
  /\ opened = {} /\ closed = {} /\ journaled = {} /\ archive = {} /\ degraded = {}
  /\ work = [w \in Workers |-> AtRest] /\ runs = 0 /\ troubles = 0
  /\ tweets = [post \in Posts |-> 0] /\ again = {} /\ excused = {} /\ untold = {}

PostsNext ==
  \/ \E w \in Workers :
       \/ Catchup(w) \/ PlanSlot(w) \/ write_plan_marker(w) \/ Gather(w) \/ ReviewSlot(w)
       \/ Backfill(w) \/ Pick(w) \/ add_entry(w) \/ post_text(w) \/ _archive(w)
       \/ _ledger_degradation(w) \/ Killed(w)
       \/ \E t \in Trades : Opens(w, t) \/ Closes(w, t)
  \/ Configure \/ HourPasses

PostsSpec == PostsInit /\ [][PostsNext]_posts

-----------------------------------------------------------------------------
\* The plan of a day is published once, however often the catch-up looks, a
\* post fails or a run is killed, unless its slot comes after a catch-up or two
\* runs overlap.
PlanOnce == \A d \in 1 .. PostDays : tweets[Plan(d)] <= 1 \/ d \in again

\* An entry's recap is published once, by its cycle or by a backfill, and an
\* exit's once, where links are configured, unless a step was lost or two
\* processes had the trade in hand.
RecapOnce == conf.base => \A t \in Trades \ excused : tweets[Entry(t)] <= 1 /\ tweets[Exit(t)] <= 1

\* The archive calls published what was, and where it says that X did not take
\* a post that was to be published, its process is about to tell the ledger or
\* the ledger has a degradation, unless the process was killed on the way there
\* or the ledger could not be written.
ArchiveTrue ==
  \A row \in archive :
    /\ row.status = "posted" => tweets[row.post] > 0
    /\ row.status \in {"failed", "no_credentials"} =>
         \/ row.post \in degraded \cup untold
         \/ \E w \in Workers : At(w, "tell") /\ work[w].post = row.post

\* All three: the plan and the recaps are published once, and the archive and
\* the ledger say what became of them.
PostsHonest == PlanOnce /\ RecapOnce /\ ArchiveTrue
=============================================================================
