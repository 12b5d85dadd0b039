------------------------------ MODULE OpsSignals -------------------------------
(***************************************************************************)
(* What the operator is told: the events a cycle leaves in the ledger, its *)
(* once-a-day alarms (src/main.py), the verdict of src/health.py on them,  *)
(* and the receipt of the off-host mirror.                                 *)
(*                                                                         *)
(* A day has five slots: until the cycle at 15:45, until the backup at     *)
(* 17:00, until its two hours of grace are over, until 20:00, and until    *)
(* midnight.  The last one is tomorrow in UTC, the dates of the ledger.    *)
(***************************************************************************)
EXTENDS Integers, Sequences, FiniteSets

CONSTANTS
  Weekdays,      \* the days of Days with a cycle and a backup
  Days,          \* bound: the last day
  Limit,         \* ops.max_degradations_per_day
  MaxEvents      \* bound: events in the ledger
Never == -1

ASSUME SignalsAssumption == Weekdays \subseteq Nat /\ Days \in Nat /\ MaxEvents \in Nat

VARIABLES
  clock,
  ledger,        \* events, in order: [event, at]
  heartbeat,     \* time of the last one, Never before
  receipt,       \* time of the last verified mirror, Never before
  cycle,         \* where it is: "off", "run", "closing", "over", "dead"
  bare,          \* is there a position without a known stop?
  drifted,       \* does the running code differ from the reviewed one?
  done,          \* ghost: has a cycle completed on this Eastern day?
  saved,         \* ghost: was a mirror verified since the last due backup?
  trapped,       \* ghost: what the last cycle to complete found of `bare`
  alerts         \* ghost: drift alerts sent, by UTC day

world  == <<bare, drifted>>
hindsight == <<done, saved, trapped, alerts>>
ops    == <<clock, ledger, heartbeat, receipt, cycle, world, hindsight>>

EtDay(t)  == t \div 5
UtcDay(t) == (t + 1) \div 5
Weekday(t) == EtDay(t) \in Weekdays

Has(event, day(_), t) ==
  \E i \in DOMAIN ledger : ledger[i].event = event /\ day(ledger[i].at) = day(t)
log_event(event) == ledger' = Append(ledger, [event |-> event, at |-> clock])
LedgerRoom == Len(ledger) < MaxEvents

-----------------------------------------------------------------------------
(* The cycle.                                                              *)

CycleBegins ==
  /\ cycle = "off" /\ Weekday(clock) /\ LedgerRoom
  /\ cycle' = "run"
  /\ IF bare THEN log_event("heat_trap_armed") ELSE UNCHANGED ledger
  /\ UNCHANGED <<clock, heartbeat, receipt, world, hindsight>>

\* A guard lets something pass because it could not look.
Degrades ==
  /\ cycle = "run" /\ LedgerRoom /\ log_event("degradation")
  /\ UNCHANGED <<clock, heartbeat, receipt, cycle, world, hindsight>>

\* A bug: the alarm of an earlier cycle is not looked for.
AlreadyNever == FALSE
Already == Has("deploy_drift", UtcDay, clock)

\* check_deploy_drift: two records, then the alert.  A cycle that dies between
\* them leaves the day without the alert.
check_deploy_drift ==
  /\ cycle = "run" /\ Len(ledger) + 2 <= MaxEvents
  /\ IF drifted /\ ~Already
     THEN /\ ledger' = ledger \o <<[event |-> "degradation", at |-> clock],
                                   [event |-> "deploy_drift", at |-> clock]>>
          /\ \/ alerts' = [alerts EXCEPT ![UtcDay(clock)] = @ + 1] /\ cycle' = "closing"
             \/ UNCHANGED alerts /\ cycle' = "dead"
     ELSE cycle' = "closing" /\ UNCHANGED <<ledger, alerts>>
  /\ UNCHANGED <<clock, heartbeat, receipt, world, done, saved, trapped>>

Complete ==
  /\ cycle = "closing" /\ LedgerRoom /\ log_event("cycle_complete")
  /\ cycle' = "over" /\ done' = TRUE /\ trapped' = bare
  /\ UNCHANGED <<clock, heartbeat, receipt, world, saved, alerts>>

\* At the limit one slo_breach is recorded, for the day of UTC.
check_degradation_slo ==
  /\ cycle = "over" /\ LedgerRoom /\ cycle' = "dead"
  /\ IF /\ Cardinality({i \in DOMAIN ledger : ledger[i].event = "degradation"
                              /\ UtcDay(ledger[i].at) = UtcDay(clock)}) >= Limit
        /\ ~Has("slo_breach", UtcDay, clock)
     THEN log_event("slo_breach") ELSE UNCHANGED ledger
  /\ UNCHANGED <<clock, heartbeat, receipt, world, hindsight>>

\* A cycle that dies anywhere writes the heartbeat, unless it is killed.
Die ==
  /\ cycle \in {"run", "closing", "over"} /\ cycle' \in {"dead", "off"}
  /\ UNCHANGED <<clock, ledger, heartbeat, receipt, world, hindsight>>

write_heartbeat ==
  /\ cycle = "dead" /\ cycle' = "off" /\ heartbeat' = clock
  /\ UNCHANGED <<clock, ledger, receipt, world, hindsight>>

-----------------------------------------------------------------------------
(* The rest of the world.                                                  *)

Mirror ==
  /\ receipt' = clock /\ saved' = TRUE
  /\ UNCHANGED <<clock, ledger, heartbeat, cycle, world, done, trapped, alerts>>

Changes ==
  /\ cycle = "off"
  /\ \/ bare' = ~bare /\ UNCHANGED drifted
     \/ drifted' = ~drifted /\ UNCHANGED bare
  /\ UNCHANGED <<clock, ledger, heartbeat, receipt, cycle, hindsight>>

\* No cycle lasts from one slot into another.
Tick ==
  /\ cycle = "off" /\ clock < 5 * Days + 4
  /\ clock' = clock + 1
  /\ done' = (done /\ EtDay(clock') = EtDay(clock))
  /\ saved' = (saved /\ ~(Weekday(clock') /\ clock' % 5 = 2))
  /\ UNCHANGED <<ledger, heartbeat, receipt, cycle, world, trapped, alerts>>

-----------------------------------------------------------------------------
(* health.status.                                                          *)

cycle_was_due == Weekday(clock) /\ clock % 5 >= 1

\* A bug, until 2026-08-03: due by the Eastern date, completed by that of UTC.
cycle_completed_todayUtc == Has("cycle_complete", UtcDay, clock)
cycle_completed_today == Has("cycle_complete", EtDay, clock)

Stale == clock - heartbeat > 5
CycleMissed ==
  \/ heartbeat = Never
  \/ cycle_was_due /\ (Stale \/ ~cycle_completed_today)

\* The backups of weekdays whose two hours of grace are over; one of them is not
\* on the mirror if the last is not.
last_backup_due == {t \in {5 * d + 2 : d \in Weekdays} : t < clock}
offhost_mirror_overdue == \E due \in last_backup_due : receipt = Never \/ receipt < due

\* What a cycle reported since the last completion, or the last completed one:
\* no two cycles have completed since.
heat_trap_armed ==
  \E i \in DOMAIN ledger :
    /\ ledger[i].event = "heat_trap_armed"
    /\ \A j, k \in DOMAIN ledger :
         ~(/\ i < j /\ j < k
           /\ ledger[j].event = "cycle_complete" /\ ledger[k].event = "cycle_complete")

SignalsInit ==
  /\ clock = 0 /\ ledger = <<>> /\ heartbeat = Never /\ receipt = Never
  /\ cycle = "off" /\ bare = FALSE /\ drifted = FALSE
  /\ done = FALSE /\ saved = FALSE /\ trapped = FALSE
  /\ alerts = [d \in 0 .. Days + 1 |-> 0]

SignalsNext ==
  \/ CycleBegins \/ Degrades \/ check_deploy_drift \/ Complete \/ check_degradation_slo
  \/ Die \/ write_heartbeat \/ Mirror \/ Changes \/ Tick

SignalsSpec == SignalsInit /\ [][SignalsNext]_ops

Events == {"heat_trap_armed", "degradation", "deploy_drift", "cycle_complete", "slo_breach"}
Times == 0 .. 5 * Days + 4

SignalsTypeOK ==
  /\ clock \in Times /\ ledger \in Seq([event : Events, at : Times])
  /\ Len(ledger) <= MaxEvents
  /\ heartbeat \in Times \cup {Never} /\ receipt \in Times \cup {Never}
  /\ cycle \in {"off", "run", "closing", "over", "dead"}
  /\ {bare, drifted, done, saved, trapped} \subseteq BOOLEAN
  /\ alerts \in [0 .. Days + 1 -> Nat]

\* The verdict on the cycle and on the mirror is neither a false alarm nor a
\* false calm, in the evening as over a weekend: a cycle that is due and has
\* left a heartbeat is missed exactly if none completed on this Eastern day,
\* a mirror is overdue exactly if none was verified since the last due one,
\* and a trap that the last complete cycle found is still reported.
VerdictTrue ==
  /\ cycle_was_due /\ cycle = "off" /\ heartbeat # Never /\ EtDay(heartbeat) = EtDay(clock) =>
       (CycleMissed <=> ~done)
  /\ CycleMissed => ~done \/ heartbeat = Never \/ Stale
  /\ clock % 5 # 2 /\ last_backup_due # {} => (offhost_mirror_overdue <=> ~saved)
  /\ trapped => heat_trap_armed

\* However many cycles of a day find the code drifted or the budget of
\* degradations spent, and wherever they die, the operator is alerted once a
\* day and the ledger holds the record of every alert.
AlarmsOnce ==
  \A d \in DOMAIN alerts :
    /\ alerts[d] <= 1
    /\ LET of(event) == {i \in DOMAIN ledger : ledger[i].event = event /\ UtcDay(ledger[i].at) = d}
       IN Cardinality(of("slo_breach")) <= 1 /\ alerts[d] <= Cardinality(of("deploy_drift"))

\* What the operator is told is true, and told once.
SignalsTrue == VerdictTrue /\ AlarmsOnce
=============================================================================
