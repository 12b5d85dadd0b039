--------------------------- MODULE TradingDayProofs ---------------------------
(***************************************************************************)
(* Theorems about a market day of the container (TradingDay): whatever the *)
(* table of jobs, the length of the timeout and the number of outages, no  *)
(* day slips by that the jobs which watch it were free to notice.          *)
(***************************************************************************)
EXTENDS TradingDay, TLAPS

LEMMA JobTypes ==
  /\ CatchUp \in Jobs /\ Watchdog \in Jobs /\ CatchUp # Watchdog
  /\ CatchUp \notin Cycles /\ Watchdog \notin Cycles
  /\ Idle \notin Jobs /\ CatchUp # Idle /\ Watchdog # Idle
  BY JobsAssumption

\* Nothing runs in a container that is down, and only a cycle, or the late one
\* inside the catch-up, can be at work.
AtWork ==
  /\ ~up => cur = Idle
  /\ phase \in Phases => cur \in Cycles \cup {CatchUp}

\* What was fired was fired in this minute: a job that has begun since then has
\* run for no time at all, because a tick forgets what was fired.
ThisMinute ==
  /\ \A j \in fired : due(j)
  /\ fired # {} /\ cur # Idle => elapsed = 0

\* A watching job that was fired in this minute waits for its turn, is about to
\* look, or has left the trace of its look.
Begins(j) == j \in queue \/ (cur = j /\ phase = "start")
Looked ==
  /\ CatchUp \in fired => Begins(CatchUp) \/ Ran \/ rescued
  /\ Watchdog \in fired => Begins(Watchdog) \/ alerted \/ Ran

DayInv == TypeOK /\ AtWork /\ ThisMinute /\ Looked

-----------------------------------------------------------------------------
LEMMA DayStarts == Init => DayInv
<1> SUFFICES ASSUME Init PROVE DayInv
  OBVIOUS
<1>1. orphans \in [Cycles -> {"none"} \cup Phases] /\ phase \notin Phases
  BY DEF Init, Phases
<1>2. now \in 0 .. Last /\ elapsed \in 0 .. Limit /\ outages \in 0 .. MaxOutages
  BY ClockAssumption DEF Init
<1>3. TypeOK
  BY <1>1, <1>2 DEF Init, TypeOK
<1> QED BY <1>1, <1>3 DEF Init, DayInv, AtWork, ThisMinute, Looked

LEMMA TypesKept == ASSUME TypeOK, AtWork, [Next]_vars PROVE TypeOK'
<1> USE ClockAssumption DEF TypeOK, Phases, loop, job, seen
<1>1. CASE Pass
  BY <1>1 DEF Pass, Unfired
<1>2. CASE StartNext
  BY <1>2 DEF StartNext, Starts
<1>3. CASE Abandon
  BY <1>3 DEF Abandon, Returns, Outlives
<1>4. CASE Tick
  <2>1. now' \in 0 .. Last
    BY <1>4 DEF Tick
  <2>2. elapsed' \in 0 .. Limit
    <3>1. CASE cur = Idle
      BY <1>4, <3>1 DEF Tick
    <3>2. CASE cur # Idle
      BY <1>4, <3>2 DEF Tick, MayPass, AtWork
    <3> QED BY <3>1, <3>2
  <2>3. fired' = {} /\ UNCHANGED <<up, queue, cur, phase, orphans, outages>>
    BY <1>4 DEF Tick
  <2>4. /\ completed' \subseteq Kinds /\ beat' \in BOOLEAN /\ alerted' \in BOOLEAN
        /\ rescued' \in BOOLEAN
    BY <1>4 DEF Tick
  <2> QED BY <2>1, <2>2, <2>3, <2>4
<1>5. CASE Completes
  BY <1>5 DEF Completes, Kind, Kinds, AtWork
<1>6. CASE CycleEnds
  BY <1>6 DEF CycleEnds, Returns
<1>7. CASE CatchUpLeaves \/ CatchUpRuns \/ WatchdogChecks \/ OtherEnds
  <2>1. CASE CatchUpLeaves
    BY <2>1 DEF CatchUpLeaves, Returns
  <2>2. CASE CatchUpRuns
    BY <2>2 DEF CatchUpRuns
  <2>3. CASE WatchdogChecks
    <3>1. alerted' \in BOOLEAN
      BY <2>3 DEF WatchdogChecks
    <3> QED BY <2>3, <3>1 DEF WatchdogChecks, Returns
  <2>4. CASE OtherEnds
    BY <2>4 DEF OtherEnds, Returns
  <2> QED BY <1>7, <2>1, <2>2, <2>3, <2>4
<1>8. ASSUME NEW c \in Cycles, OrphanCompletes(c) \/ OrphanEnds(c) PROVE TypeOK'
  BY <1>8 DEF OrphanCompletes, OrphanEnds, Kinds
<1>9. CASE Outage
  <2>1. orphans' \in [Cycles -> {"none"} \cup Phases] /\ outages' \in 0 .. MaxOutages
    BY <1>9 DEF Outage
  <2>2. /\ up' = FALSE /\ fired' = {} /\ queue' = {}
        /\ cur' = Idle /\ phase' = "none" /\ elapsed' = 0 /\ UNCHANGED <<now, seen>>
    BY <1>9 DEF Outage, Returns
  <2>3. 0 \in 0 .. Limit
    OBVIOUS
  <2> QED BY <2>1, <2>2, <2>3
<1>10. CASE Recover
  BY <1>10 DEF Recover
<1>11. CASE UNCHANGED vars
  BY <1>11 DEF vars
<1> QED BY <1>1, <1>2, <1>3, <1>4, <1>5, <1>6, <1>7, <1>8, <1>9, <1>10, <1>11 DEF Next

LEMMA RestKept == ASSUME DayInv, [Next]_vars PROVE (AtWork /\ ThisMinute /\ Looked)'
<1> USE JobTypes DEF DayInv, AtWork, ThisMinute, Looked, Begins, Ran, due, Phases, loop, job, seen
<1>1. CASE Pass
  BY <1>1 DEF Pass, Unfired
<1>2. CASE StartNext
  BY <1>2 DEF StartNext, Starts, TypeOK
<1>3. CASE Abandon
  <2>1. fired = {}
    BY <1>3, ClockAssumption DEF Abandon
  <2> QED BY <1>3, <2>1 DEF Abandon, Returns
<1>4. CASE Tick
  BY <1>4 DEF Tick, MayPass
<1>5. CASE Completes
  BY <1>5 DEF Completes
<1>6. CASE CycleEnds
  BY <1>6 DEF CycleEnds, Returns
<1>7. CASE CatchUpLeaves
  <2>1. CatchUp \in fired => Ran
    \* The catch-up's minute is before the bell, so it left because a cycle ran.
    BY <1>7, ClockAssumption DEF CatchUpLeaves, NoAction
  <2> QED BY <1>7, <2>1 DEF CatchUpLeaves, Returns
<1>8. CASE CatchUpRuns
  BY <1>8 DEF CatchUpRuns
<1>9. CASE WatchdogChecks
  BY <1>9 DEF WatchdogChecks, Returns, Problem
<1>10. CASE OtherEnds
  BY <1>10 DEF OtherEnds, Returns
<1>11. ASSUME NEW c \in Cycles, OrphanCompletes(c) \/ OrphanEnds(c)
       PROVE (AtWork /\ ThisMinute /\ Looked)'
  BY <1>11 DEF OrphanCompletes, OrphanEnds
<1>12. CASE Outage
  BY <1>12 DEF Outage, Returns
<1>13. CASE Recover
  BY <1>13 DEF Recover
<1>14. CASE UNCHANGED vars
  BY <1>14 DEF vars
<1> QED BY <1>1, <1>2, <1>3, <1>4, <1>5, <1>6, <1>7, <1>8, <1>9, <1>10, <1>11, <1>12, <1>13,
           <1>14 DEF Next

LEMMA DayKept == Spec => []DayInv
<1>1. DayInv /\ [Next]_vars => DayInv'
  BY TypesKept, RestKept DEF DayInv
<1> QED BY <1>1, DayStarts, PTL DEF Spec

\* The state of the scheduler, of the jobs' traces and of the clock has its type.
THEOREM DayTyping == Spec => []TypeOK
BY DayKept, PTL DEF DayInv

-----------------------------------------------------------------------------
\* The minute of a job passes, with the loop free, only when it has been fired.
LEMMA FreeMeansFired ==
  ASSUME DayInv, [Next]_vars, NEW j \in Jobs, LeavesFree(j)
  PROVE  j \in fired /\ ~Begins(j)
<1>1. Tick
  BY DEF LeavesFree, Next, vars, Pass, StartNext, Abandon, Completes, CycleEnds, CatchUpLeaves,
         CatchUpRuns, WatchdogChecks, OtherEnds, OrphanCompletes, OrphanEnds, Outage, Recover
<1>2. Waits /\ cur = Idle
  BY <1>1 DEF Tick, MayPass, LeavesFree
<1> QED BY <1>2, JobTypes DEF Waits, Unfired, due, LeavesFree, Begins

\* No market day slips by: when the minute of the catch-up has passed and the
\* loop was free to serve it, a cycle has completed or was rerun (catchup());
\* when the watchdog's has, it alerted or a cycle has completed (check()).
THEOREM NoDaySlipsBy == Spec => NoDaySlips
<1>1. DayInv /\ [Next]_vars => [Watched]_vars
  <2> SUFFICES ASSUME DayInv, [Next]_vars PROVE Watched
    OBVIOUS
  <2> QED BY FreeMeansFired, JobTypes DEF DayInv, Looked, Watched
<1> QED BY <1>1, DayKept, PTL DEF Spec, NoDaySlips

=============================================================================
