---------------------------- MODULE MCOperations -----------------------------
(* What must go on by itself, on small instances: the scheduler's day      *)
(* (TradingDay) and the retries of a flatten (HaltSwitch), under the       *)
(* fairness of each.  They share no state; a behaviour is about one of     *)
(* them.                                                                   *)
(*                                                                         *)
(* The day in half steps: 9:35, 9:45, the quiet hours, 15:35, 15:45,       *)
(* 15:55, 16:05, 16:15 and the night.                                      *)
EXTENDS TradingDay, TLC

VARIABLE part

CONSTANTS open, close, catchUp, watchdog, retry, scan
Table == <<open, close, catchUp, watchdog, retry, scan>>
Firings ==
  open :> {0} @@ scan :> {0, 10} @@ retry :> {2, 12} @@ close :> {12}
  @@ catchUp :> {14} @@ watchdog :> {18}
Session == 0 .. 15

CONSTANTS HaltCycles, Job, Operator, Symbols, MaxAttempts, Tries, Overlap, AtomicCommands,
          MaxCrashes, MaxCommands, MaxBreaches
VARIABLES halt, book, breach, session, pc, cont, out, n, orphan, spent, budget
Halt == INSTANCE HaltSwitch WITH Cycles <- HaltCycles
incident == <<halt, book, breach, session, pc, cont, out, n, orphan, spent, budget>>

MCInit == part \in {"halt", "day"} /\ Init /\ Halt!Init
MCNext ==
  /\ UNCHANGED part
  /\ \/ part = "halt" /\ Halt!Next /\ UNCHANGED vars
     \/ part = "day" /\ Next /\ UNCHANGED incident

\* The fairness of each, for the behaviours that are about it.
Halts(A) == part = "halt" /\ A
Days(A) == part = "day" /\ A
MCFairness ==
  /\ \A a \in Halt!Actors : WF_incident(Halts(Halt!Open(a))) /\ WF_incident(Halts(Halt!Flush(a)))
  /\ \A c \in HaltCycles :
       /\ WF_incident(Halts(Halt!Account(c) \/ Halt!KillFlatten(c) \/ Halt!KillVerify(c)
                            \/ Halt!Mark(c) \/ Halt!CycleRecovers(c) \/ Halt!SubmitEntry(c)))
       /\ SF_incident(Halts(Halt!EndCycle(c)))
  /\ \A p \in Halt!Procs : WF_incident(Halts(Halt!Recovery(p)))
  /\ SF_incident(Halts(Halt!StartJob)) /\ WF_incident(Halts(Halt!Clock))
  /\ WF_vars(Days(Pass)) /\ WF_vars(Days(StartNext)) /\ WF_vars(Days(Abandon)) /\ WF_vars(Days(Tick))

MCSpec == MCInit /\ [][MCNext]_<<part, vars, incident>> /\ MCFairness

\* HaltSwitch's: a pending flatten is worked off, abandoned at the cap or
\* cancelled, never retried for ever.
RetriesEnd == Halt!RetriesEnd
=============================================================================
