-------------------------------- MODULE Watch ---------------------------------
(***************************************************************************)
(* Who notices that the bot has stopped: the event store (src/store.py),   *)
(* how a cycle ends in it (run_cycle of src/main.py), and the watchdog and *)
(* the catch-up that read it in processes of their own (src/watchdog.py)   *)
(* and speak through src/alerting.py.                                      *)
(*                                                                         *)
(* A JSONL file is lines: a record, or Torn, what does not parse.  A       *)
(* process that is killed while it appends may leave a part of its line,   *)
(* or the line without its newline; the next record then joins that line.  *)
(***************************************************************************)
EXTENDS Integers, Sequences, SequencesExt

CONSTANTS
  Weekdays, LastDay,     \* days 0 .. LastDay; the cycles' are Weekdays
  Levels,                \* equity
  LimitPct,              \* risk.max_drawdown_pct
  Webhooks,              \* ALERT_WEBHOOK_URL: "unset", "up", "down"
  Torn, Never, Damaged,
  MaxCycles, MaxKills, MaxChanges   \* bounds: cycles a day, kills, changes

Names ==
  {"aborted", "cycle_crashed", "cycle_complete", "cycle_timing", "cycle_margin_low", "ops_alert"}
Record == [event : Names, day : Nat, equity : Levels]

\* Equity is positive, and what does not parse is no record.
ASSUME WatchAssumption == Levels \subseteq Nat \ {0} /\ Torn \notin Record

VARIABLES
  today,
  backend,               \* storage.backend
  file, unfinished,      \* the JSONL ledger; has its last line no newline?
  db,                    \* the ledger's rows in SQLite
  heartbeat,             \* day of the last one, Never
  highwater,             \* memory/.equity_highwater.json: 0 before, Damaged
  halted,                \* HALT: "no", "freeze", "exits"
  equity, judge, webhook, banner,   \* the world
  cycle,                 \* where it is: "off", "run", "end"
  completed,             \* did _run_cycle return True?
  looked,                \* what the watchdog last did: "none", "calm", or how it told
  ping,                  \* what the monitor outside last heard: [day, success]
  acked,                 \* ghost: the records whose append returned
  finished,              \* ghost: has a cycle reached its end today?
  truth,                 \* ghost: was all well when the watchdog looked?
  rerun,                 \* ghost: did a catch-up repeat a recorded, readable day?
  starts, margins, kills, changes

disk   == <<file, unfinished, db>>
world  == <<backend, equity, halted, judge, webhook, banner>>
ghosts == <<truth, rerun>>
watch  == <<today, disk, heartbeat, highwater, world, cycle, completed, looked, ping, acked,
            finished, ghosts, starts, margins, kills, changes>>

-----------------------------------------------------------------------------
(* store.py.                                                               *)

\* JsonlStore.append: to the end of the file, whatever is there.
AppendTo(lines, open_line, r) ==
  IF open_line THEN Append(Front(lines), Torn) ELSE Append(lines, r)

\* SqliteStore.append commits or leaves nothing.
append(kind, r) ==
  /\ acked' = [acked EXCEPT ![kind] = Append(@, r)]
  /\ IF kind = "sqlite" THEN db' = Append(db, r) /\ UNCHANGED <<file, unfinished>>
     ELSE file' = AppendTo(file, unfinished, r) /\ unfinished' = FALSE /\ UNCHANGED db

\* A bug: a line that does not parse is skipped.
read_allSkips(kind) ==
  IF kind = "sqlite" THEN db ELSE SelectSeq(file, LAMBDA l : l # Torn)
\* read_all: one torn line and nothing is read.
Unreadable == <<Torn>>
read_all(kind) ==
  CASE kind = "sqlite" -> db
    [] kind = "jsonl" /\ Torn \in Range(file) -> Unreadable
    [] OTHER -> file

\* Killed within an append of r: nothing, a part, or all but the newline.
KilledAppending(kind, r) ==
  /\ UNCHANGED <<db, acked>>
  /\ \/ UNCHANGED <<file, unfinished>>
     \/ /\ kind = "jsonl" /\ unfinished' = TRUE
        /\ file' \in {AppendTo(file, unfinished, l) : l \in {r, Torn}}

Event(name) == [event |-> name, day |-> today, equity |-> equity]

-----------------------------------------------------------------------------
(* The cycle.  Its process configures the backend; until then, JSONL.      *)

Begin ==
  /\ cycle = "off" /\ today \in Weekdays /\ starts < MaxCycles
  /\ cycle' = "run" /\ completed' = FALSE /\ starts' = starts + 1
  /\ UNCHANGED <<today, disk, heartbeat, highwater, world, looked, ping, acked, finished, ghosts,
                 margins, kills, changes>>

\* An early return: it has not completed, and says why in the ledger.
Abort ==
  /\ cycle = "run" /\ cycle' = "end"
  /\ \E kind \in {"jsonl", backend} : append(kind, Event("aborted"))
  /\ UNCHANGED <<today, heartbeat, highwater, world, completed, looked, ping, finished, ghosts,
                 starts, margins, kills, changes>>

\* log_cycle_crash, for anything that is raised before the end.
CycleCrashes ==
  /\ cycle = "run" /\ cycle' = "end"
  /\ \E kind \in {"jsonl", backend} : append(kind, Event("cycle_crashed"))
  /\ highwater' \in {highwater, IF highwater = Damaged \/ equity > highwater THEN equity ELSE highwater}
  /\ UNCHANGED <<today, heartbeat, world, completed, looked, ping, finished, ghosts, starts,
                 margins, kills, changes>>

\* To the end: the ledger was read on the way.
ToTheEnd == halted # "freeze" /\ read_all(backend) # Unreadable
Complete ==
  /\ cycle = "run" /\ ToTheEnd
  /\ cycle' = "end" /\ completed' = TRUE /\ finished' = TRUE
  /\ highwater' = IF highwater = Damaged \/ equity > highwater THEN equity ELSE highwater
  /\ append(backend, Event("cycle_complete"))
  /\ UNCHANGED <<today, heartbeat, world, looked, ping, ghosts, starts, margins, kills, changes>>

\* What run_cycle does last, however it ended.
write_heartbeat == heartbeat' = today

\* A bug, until the flag: it ran, so it worked.
heartbeat_pingRan == ping' = [day |-> today, success |-> TRUE]
heartbeat_ping == ping' = [day |-> today, success |-> completed]

\* record_cycle_timing: the margin to the close, alarmed once a day.
AlreadyAlarmed(records) == \E r \in Range(records) : r.event = "cycle_margin_low" /\ r.day = today
record_cycle_timing(thin) ==
  IF thin /\ read_all(backend) # Unreadable /\ ~AlreadyAlarmed(read_all(backend))
  THEN append(backend, Event("cycle_margin_low")) /\ margins' = margins + 1
  ELSE UNCHANGED <<disk, acked, margins>>

End ==
  /\ cycle = "end" /\ cycle' = "off"
  /\ write_heartbeat /\ heartbeat_ping
  /\ \E thin \in BOOLEAN : record_cycle_timing(thin)
  /\ UNCHANGED <<today, highwater, world, completed, looked, finished, ghosts, starts, kills, changes>>

\* Anywhere; who dies writing cycle_complete has reached the end.
Killed ==
  /\ cycle # "off" /\ cycle' = "off" /\ kills < MaxKills /\ kills' = kills + 1
  /\ LET ending == cycle = "run" /\ ToTheEnd IN
     /\ KilledAppending(backend, Event(IF ending THEN "cycle_complete" ELSE "cycle_timing"))
     /\ finished' = (finished \/ (ending /\ file' # file))
  /\ UNCHANGED <<today, heartbeat, highwater, world, completed, looked, ping, ghosts, starts,
                 margins, changes>>

-----------------------------------------------------------------------------
(* The watchdog's processes, which configure no backend.                   *)

WatchdogStore == "jsonl"
_all_records == read_all(WatchdogStore)

Ended(records, day) == \E r \in Range(records) : r.event = "cycle_complete" /\ r.day = day

\* A bug: not False is as good as True.
completed_onLax(day) ==
  IF _all_records = Unreadable \/ Ended(_all_records, day) THEN "True" ELSE "False"
\* None when the ledger cannot be read.
completed_on(day) ==
  CASE _all_records = Unreadable -> "None"
    [] _all_records # Unreadable /\ Ended(_all_records, day) -> "True"
    [] OTHER -> "False"

last_known_equity(records) ==
  LET ends == SelectSeq(records, LAMBDA r : r # Torn /\ r.event = "cycle_complete")
  IN IF ends = <<>> THEN Never ELSE Last(ends).equity

Breached(level, peak) == 100 * (peak - level) >= LimitPct * peak

\* drawdown_state: unknown is not engaged, an unreadable peak is.
drawdown_state(level) ==
  /\ level # Never
  /\ (highwater = Damaged \/ (highwater > 0 /\ Breached(level, highwater)))

CycleProblem ==
  /\ today \in Weekdays
  /\ heartbeat # today \/ completed_on(today) # "True"

check ==
  {p \in {"cycle", "halt", "drawdown", "judge"} :
     CASE p = "cycle" -> CycleProblem
       [] p = "halt" -> halted # "no"
       [] p = "drawdown" -> drawdown_state(last_known_equity(_all_records))
       [] p = "judge" -> ~judge}

\* send: the first channel that carries it; the log always does.
channel == IF webhook # "unset" THEN "webhook" ELSE IF banner THEN "desktop" ELSE "log-only"
send == IF webhook = "up" THEN "webhook" ELSE IF banner THEN "desktop" ELSE "log-only"

\* What a reader of the ledger's truth would say.
AllWell ==
  /\ today \in Weekdays => finished
  /\ halted = "no" /\ judge
  /\ LET own == last_known_equity(read_all(backend)) IN
     own # Never /\ highwater \notin {0, Damaged} => ~Breached(own, highwater)

Look ==
  /\ cycle = "off" /\ today \in Weekdays /\ looked = "none"
  /\ truth' = AllWell
  /\ IF check = {} THEN looked' = "calm" /\ UNCHANGED <<disk, acked>>
     ELSE looked' = send /\ append(WatchdogStore, Event("ops_alert"))
  /\ UNCHANGED <<today, heartbeat, highwater, world, cycle, completed, ping, finished, rerun, starts,
                 margins, kills, changes>>

\* The late cycle; its run is Begin's.
catchup ==
  /\ cycle = "off" /\ today \in Weekdays /\ starts < MaxCycles
  /\ completed_on(today) # "True"
  /\ cycle' = "run" /\ completed' = FALSE /\ starts' = starts + 1
  /\ rerun' = (rerun \/ (completed_on(today) = "False" /\ Ended(acked[backend], today)))
  /\ UNCHANGED <<today, disk, heartbeat, highwater, world, looked, ping, acked, finished, truth,
                 margins, kills, changes>>

-----------------------------------------------------------------------------
World ==
  /\ cycle = "off" /\ changes < MaxChanges /\ changes' = changes + 1
  /\ \/ equity' \in Levels \ {equity} /\ UNCHANGED <<halted, judge, webhook, highwater>>
     \/ halted' \in {"no", "freeze", "exits"} \ {halted} /\ UNCHANGED <<equity, judge, webhook, highwater>>
     \/ judge' = ~judge /\ UNCHANGED <<equity, halted, webhook, highwater>>
     \/ webhook = "up" /\ webhook' = "down" /\ UNCHANGED <<equity, halted, judge, highwater>>
     \/ highwater' = Damaged /\ UNCHANGED <<equity, halted, judge, webhook>>
  /\ UNCHANGED <<today, disk, heartbeat, backend, banner, cycle, completed, looked, ping, acked,
                 finished, ghosts, starts, margins, kills>>

\* The operator deletes a line that does not parse; what is left is the history.
Repair ==
  /\ cycle = "off"
  /\ \E i \in {j \in DOMAIN file : file[j] = Torn} : file' = RemoveAt(file, i)
  /\ unfinished' = FALSE /\ acked' = [acked EXCEPT !["jsonl"] = file']
  /\ UNCHANGED <<today, db, heartbeat, highwater, world, cycle, completed, looked, ping, finished,
                 ghosts, starts, margins, kills, changes>>

NextDay ==
  /\ cycle = "off" /\ today < LastDay /\ today' = today + 1
  /\ finished' = FALSE /\ looked' = "none" /\ starts' = 0 /\ margins' = 0
  /\ UNCHANGED <<disk, heartbeat, highwater, world, cycle, completed, ping, acked, ghosts, kills, changes>>

WatchInit ==
  /\ today = 0 /\ backend \in {"jsonl", "sqlite"} /\ file = <<>> /\ unfinished = FALSE /\ db = <<>>
  /\ heartbeat = Never /\ highwater = 0 /\ halted = "no" /\ judge = TRUE
  /\ equity \in {e \in Levels : \A f \in Levels : f <= e}
  /\ webhook \in Webhooks /\ banner \in BOOLEAN
  /\ cycle = "off" /\ completed = FALSE /\ looked = "none" /\ ping = [day |-> 0, success |-> FALSE]
  /\ acked = [kind \in {"jsonl", "sqlite"} |-> <<>>] /\ finished = FALSE /\ truth = TRUE /\ rerun = FALSE
  /\ starts = 0 /\ margins = 0 /\ kills = 0 /\ changes = 0

WatchNext ==
  \/ Begin \/ Abort \/ CycleCrashes \/ Complete \/ End \/ Killed
  \/ Look \/ catchup \/ World \/ Repair \/ NextDay

WatchSpec == WatchInit /\ [][WatchNext]_watch

-----------------------------------------------------------------------------
(* Properties.                                                             *)

\* A watchdog that stays silent has seen a day on which a cycle reached its
\* end, trading was not halted and the breaker stood open, whatever of the
\* ledger was torn or written elsewhere.
SilenceIsCalm == looked = "calm" => truth

\* An append that returned is in every later read, in order, or that read
\* fails as a whole: no record is missing from a history that reads well.
NothingMissing ==
  \A kind \in {"jsonl", "sqlite"} :
    LET read == read_all(kind) IN
    read # Unreadable =>
      Len(acked[kind]) <= Len(read) /\ SubSeq(read, 1, Len(acked[kind])) = acked[kind]

\* The monitor outside hears of success only on a day on which a cycle reached
\* its end, and the thin margin is alarmed once a day.
PingEarned == (ping.success /\ ping.day = today => finished) /\ margins <= 1

\* The catch-up repeats a day whose end is recorded only when the ledger cannot
\* be read, as long as the cycle's ledger is the one it reads.
NoNeedlessRerun == backend = "jsonl" => ~rerun

\* Nobody is deceived: a silent watchdog has seen a day without a fault, even if
\* the ledger is torn or another, no record is missing from what reads well, the
\* monitor hears of success only from a cycle that had it, and the catch-up
\* repeats no day without need.
WatchHonest == SilenceIsCalm /\ NothingMissing /\ PingEarned /\ NoNeedlessRerun
=============================================================================
