------------------------------ MODULE TradingDay ------------------------------
(***************************************************************************)
(* A market day of the container (scripts/scheduler.py, src/watchdog.py,   *)
(* run_cycle of src/main.py): one loop that runs the jobs due this minute  *)
(* one after the other, each in a subprocess abandoned after thirty        *)
(* minutes, and three of those jobs that watch each other -- the close     *)
(* cycle, the catch-up that reruns a missed cycle before the bell, and the *)
(* watchdog that says so when nothing completed.                           *)
(*                                                                         *)
(* A job starts only in its own minute, and only if the loop is free then. *)
(* So time goes in half steps: a minute at which jobs are due (DueAt) and  *)
(* the rest of the ten minutes before the next one.  The quiet hours are   *)
(* shortened to the length of the longest job, and the days follow each    *)
(* other as the five weekdays of the JOBS table do.                        *)
(***************************************************************************)
EXTENDS Integers, Sequences, FiniteSets

CONSTANTS
  JOBS,        \* the jobs in the order of the table, without repetition
  Cycles,      \* those that are a trading cycle: the open and the close one
  Close,       \* the close one
  CatchUp, Watchdog,
  Late,        \* the cycle the catch-up runs inside its own process
  Idle,        \* no job
  DueAt,       \* the half steps at which each job is due
  Last,        \* the last half step of a day
  MarketOpen,  \* the half steps at which catchup() finds the market open
  Limit,       \* half steps in subprocess.run's timeout
  MaxOutages   \* bound: times the container goes down

Jobs == {JOBS[i] : i \in DOMAIN JOBS}
Kinds == Cycles \cup {Late}

\* The watchdog and the catch-up are jobs, not cycles; the catch-up's minute is
\* before the bell (JOBS: 15:55).
ASSUME JobsAssumption ==
  /\ JOBS \in Seq(Jobs) /\ \A i, k \in DOMAIN JOBS : JOBS[i] = JOBS[k] => i = k
  /\ {CatchUp, Watchdog} \subseteq Jobs /\ CatchUp # Watchdog
  /\ {CatchUp, Watchdog} \cap Cycles = {} /\ Idle \notin Jobs
ASSUME ClockAssumption ==
  /\ Last \in Nat /\ Limit \in Nat \ {0} /\ MaxOutages \in Nat
  /\ DueAt[CatchUp] \subseteq MarketOpen

VARIABLES
  now,
  up,         \* is the scheduler process alive?
  fired,      \* jobs already fired in this minute; lost with the process
  queue,      \* jobs of the pass under way still to run, in the table's order
  cur, phase, \* the running job, and how far its cycle is
  elapsed,    \* half steps since it started
  orphans,    \* cycles that go on after their shell was killed, and how far
  completed,  \* the ledger: cycles with a cycle_complete of today
  beat,       \* is the heartbeat file of today?
  alerted,    \* has the watchdog alerted today?
  rescued,    \* ghost: has the catch-up run its late cycle today?
  outages

loop == <<fired, queue>>
job  == <<cur, phase, elapsed>>
seen == <<completed, beat, alerted, rescued>>
vars == <<now, up, loop, job, orphans, seen, outages>>

Phases == {"work", "done"}

Init ==
  /\ now = 0 /\ up = TRUE /\ fired = {} /\ queue = {}
  /\ cur = Idle /\ phase = "none" /\ elapsed = 0
  /\ orphans = [c \in Cycles |-> "none"]
  /\ completed = {} /\ beat = FALSE /\ alerted = FALSE /\ rescued = FALSE
  /\ outages = 0

-----------------------------------------------------------------------------
(* The loop.                                                               *)

due(j) == now \in DueAt[j]
Unfired == {j \in Jobs : due(j) /\ j \notin fired}

\* One pass over the table, for the minute in which it starts: what is due
\* is fired once, whatever the time is when its turn comes.
Pass ==
  /\ up /\ cur = Idle /\ queue = {} /\ Unfired # {}
  /\ queue' = Unfired
  /\ fired' = fired \cup Unfired
  /\ UNCHANGED <<now, up, job, orphans, seen, outages>>

Starts(j) == IF j \in Cycles THEN "work" ELSE "start"

Before(j, k) == \E a, b \in DOMAIN JOBS : JOBS[a] = j /\ JOBS[b] = k /\ a < b

StartNext ==
  /\ up /\ cur = Idle
  /\ \E j \in queue :
       /\ \A k \in queue : ~Before(k, j)
       /\ cur' = j /\ queue' = queue \ {j}
       /\ phase' = Starts(j) /\ elapsed' = 0
  /\ UNCHANGED <<now, up, fired, orphans, seen, outages>>

Returns == cur' = Idle /\ phase' = "none" /\ elapsed' = 0

\* The timeout kills the process the scheduler started.  The catch-up and
\* the small jobs are that process; a cycle is a child of `sh -c`, and only
\* the shell dies.
Outlives == cur \in Cycles /\ phase \in Phases

\* A bug: the timeout waits for the child that outlives the shell.
AbandonWaiting ==
  /\ cur # Idle /\ elapsed = Limit /\ ~Outlives
  /\ Returns
  /\ UNCHANGED <<now, up, loop, orphans, seen, outages>>

Abandon ==
  /\ cur # Idle /\ elapsed = Limit
  /\ Returns
  /\ orphans' = IF Outlives THEN [orphans EXCEPT ![cur] = phase] ELSE orphans
  /\ UNCHANGED <<now, up, loop, seen, outages>>

\* Time passes while a job runs, while the loop has nothing to fire, or
\* while the container is down.
Waits == queue = {} /\ Unfired = {}
MayPass == up => (cur # Idle /\ elapsed < Limit) \/ (cur = Idle /\ Waits)

Tick ==
  /\ MayPass
  /\ now' = IF now = Last THEN 0 ELSE now + 1
  /\ fired' = {}
  /\ elapsed' = IF cur = Idle THEN 0 ELSE elapsed + 1
  /\ IF now = Last
     THEN completed' = {} /\ beat' = FALSE /\ alerted' = FALSE /\ rescued' = FALSE
     ELSE UNCHANGED seen
  /\ UNCHANGED <<up, queue, cur, phase, orphans, outages>>

-----------------------------------------------------------------------------
(* The jobs.                                                               *)

Kind == IF cur = CatchUp THEN Late ELSE cur

\* _finalize_cycle records cycle_complete, and run_cycle goes on.
Completes ==
  /\ cur # Idle /\ phase = "work"
  /\ phase' = "done" /\ completed' = completed \cup {Kind}
  /\ UNCHANGED <<now, up, loop, cur, elapsed, orphans, beat, alerted, rescued, outages>>

\* run_cycle's finally: the heartbeat is written whether the cycle completed,
\* returned early or crashed.  The shell goes on to publish the site.
CycleEnds ==
  /\ cur # Idle /\ phase \in Phases
  /\ beat' = TRUE
  /\ \/ cur \in Cycles /\ phase' = "publish" /\ UNCHANGED <<cur, elapsed>>
     \/ Returns
  /\ UNCHANGED <<now, up, loop, orphans, completed, alerted, rescued, outages>>

\* catchup()
Ran == completed # {}                                     \* completed_on
NoActionByHeartbeat == now \notin MarketOpen \/ beat       \* until 2026-07-26
NoAction == now \notin MarketOpen \/ Ran

CatchUpLeaves ==
  /\ cur = CatchUp /\ phase = "start" /\ NoAction
  /\ Returns
  /\ UNCHANGED <<now, up, loop, orphans, seen, outages>>

CatchUpRuns ==
  /\ cur = CatchUp /\ phase = "start" /\ ~NoAction
  /\ phase' = "work" /\ rescued' = TRUE
  /\ UNCHANGED <<now, up, loop, cur, elapsed, orphans, completed, beat, alerted, outages>>

\* check(): the process ran today, and it got somewhere.
Problem == ~beat \/ ~Ran

WatchdogChecks ==
  /\ cur = Watchdog /\ phase = "start"
  /\ alerted' = (alerted \/ Problem)
  /\ Returns
  /\ UNCHANGED <<now, up, loop, orphans, completed, beat, rescued, outages>>

\* Every other job, and a publish, leave this state alone and take their time.
OtherEnds ==
  /\ cur # Idle
  /\ \/ phase = "publish"
     \/ phase = "start" /\ cur \notin {CatchUp, Watchdog}
  /\ Returns
  /\ UNCHANGED <<now, up, loop, orphans, seen, outages>>

OrphanCompletes(c) ==
  /\ orphans[c] = "work"
  /\ orphans' = [orphans EXCEPT ![c] = "done"]
  /\ completed' = completed \cup {c}
  /\ UNCHANGED <<now, up, loop, job, beat, alerted, rescued, outages>>

OrphanEnds(c) ==
  /\ orphans[c] \in Phases
  /\ orphans' = [orphans EXCEPT ![c] = "none"]
  /\ beat' = TRUE
  /\ UNCHANGED <<now, up, loop, job, completed, alerted, rescued, outages>>

-----------------------------------------------------------------------------
(* The container goes down with everything that runs in it, and comes back *)
(* with an empty `fired`.                                                  *)

Outage ==
  /\ up /\ outages < MaxOutages
  /\ up' = FALSE /\ outages' = outages + 1
  /\ fired' = {} /\ queue' = {} /\ Returns
  /\ orphans' = [c \in Cycles |-> "none"]
  /\ UNCHANGED <<now, seen>>

Recover ==
  /\ ~up
  /\ up' = TRUE
  /\ UNCHANGED <<now, loop, job, orphans, seen, outages>>

Next ==
  \/ Pass \/ StartNext \/ Abandon \/ Tick
  \/ Completes \/ CycleEnds \/ CatchUpLeaves \/ CatchUpRuns \/ WatchdogChecks
  \/ OtherEnds
  \/ \E c \in Cycles : OrphanCompletes(c) \/ OrphanEnds(c)
  \/ Outage \/ Recover

Spec == Init /\ [][Next]_vars

\* The loop and the clock run; a job, an orphan or an outage may last.
Fairness == WF_vars(Pass) /\ WF_vars(StartNext) /\ WF_vars(Abandon) /\ WF_vars(Tick)
LiveSpec == Spec /\ Fairness

-----------------------------------------------------------------------------
TypeOK ==
  /\ now \in 0 .. Last /\ up \in BOOLEAN /\ fired \subseteq Jobs
  /\ queue \subseteq Jobs /\ cur \in Jobs \cup {Idle}
  /\ phase \in {"none", "start", "publish"} \cup Phases /\ elapsed \in 0 .. Limit
  /\ orphans \in [Cycles -> {"none"} \cup Phases]
  /\ completed \subseteq Kinds
  /\ beat \in BOOLEAN /\ alerted \in BOOLEAN /\ rescued \in BOOLEAN
  /\ outages \in 0 .. MaxOutages

\* Is the loop alive and free when the minute of job j is over?
LeavesFree(j) == now \in DueAt[j] /\ now' # now /\ up /\ cur = Idle

\* What the two have left behind when their minute is over.
Watched ==
  /\ LeavesFree(CatchUp) => Ran \/ rescued
  /\ LeavesFree(Watchdog) => alerted \/ Ran

\* No market day slips by.  A cycle that crashed, was killed or never started is
\* no reason to leave the day without one: when the catch-up's minute has passed
\* and the loop was free to serve it, some cycle completed today or the late one
\* was run (catchup asks the ledger, not the heartbeat that a crashed cycle
\* stamps).  And silence at 16:15 means a completed cycle: when the watchdog's
\* minute has passed with the loop free, it alerted or the ledger holds one.
NoDaySlips == [][Watched]_vars

\* No job keeps the loop: whatever is running, a cycle that hangs or one that
\* leaves an orphan behind, the loop is free again.
SchedulerReturns == (cur # Idle) ~> (cur = Idle)

\* What docs/slo.md and catchup() promise of a machine that slept through
\* 15:45: when the catch-up's minute has passed and the loop was free to serve
\* it, the close cycle has completed, or the catch-up has run it late.
CloseRescued ==
  [][LeavesFree(CatchUp) => Close \in completed \/ rescued]_vars

=============================================================================
