------------------------------ MODULE HaltSwitch ------------------------------
(***************************************************************************)
(* The HALT file and everything that reads, writes or acts on it: the      *)
(* daily-loss kill switch of a trading cycle (src/main.py), the flatten    *)
(* retry that finishes what the kill switch could not                      *)
(* (src/flatten_recovery.py), the operator's switch (scripts/halt.py) and  *)
(* the per-order halt rail (src/risk.py).                                  *)
(*                                                                         *)
(* The file is rewritten with open("w"): it is emptied first and filled    *)
(* afterwards, so every writer takes two steps, Open and Flush, and a      *)
(* crash between them leaves an empty file behind.  A writer whose file is *)
(* removed in between fills a file nobody can see.                         *)
(***************************************************************************)
EXTENDS Naturals, FiniteSets

CONSTANTS
  Cycles,         \* processes that run a trading cycle
  Job,            \* the flatten-retry job
  Operator,       \* the person at scripts/halt.py
  Symbols,        \* what the book may hold
  MaxAttempts,    \* risk.kill_switch.max_attempts
  Tries,          \* _KILL_SWITCH_INCYCLE_TRIES
  Overlap,        \* may two jobs run at once?  launchd: yes, scheduler.py: no
  AtomicCommands, \* does an operator command check and write in one step?
  MaxCrashes,     \* bound: processes killed half way
  MaxCommands,    \* bound: operator commands
  MaxBreaches     \* bound: times the day's loss crosses the limit

Procs  == Cycles \cup {Job}
Actors == Procs \cup {Operator}

ASSUME ActorsAssumption == Job \notin Cycles /\ Operator \notin Procs
ASSUME NumbersAssumption ==
  /\ MaxAttempts \in Nat \ {0} /\ Tries \in Nat \ {0}
  /\ MaxCrashes \in Nat /\ MaxCommands \in Nat /\ MaxBreaches \in Nat
ASSUME SwitchesAssumption == Overlap \in BOOLEAN /\ AtomicCommands \in BOOLEAN

VARIABLES
  halt,     \* the HALT file
  book,     \* symbols the broker holds a position in
  breach,   \* is the day's loss past the limit?
  session,  \* is the retry window (the regular session) open?
  pc,       \* where each actor is
  cont,     \* where it goes after the write it is in
  out,      \* the body it is about to write
  n,        \* the kill switch's in-cycle try it is on
  orphan,   \* was the file it opened removed before it wrote?
  spent,    \* ghost: recovery liquidations since HALT was engaged or cleared
  budget    \* what is left of each bound

procVars == <<pc, cont, out, n, orphan>>
vars == <<halt, book, breach, session, procVars, spent, budget>>

-----------------------------------------------------------------------------
(* The file.  A "blank" mode line reads as freeze: an unknown halt is a    *)
(* total halt.  An unreadable or empty body has no marker.                 *)

NoHalt == [on |-> FALSE, mode |-> "blank", by |-> "nobody",
           pending |-> FALSE, attempts |-> 0]
Blank  == [NoHalt EXCEPT !.on = TRUE]
Engaged(who, mode) == [Blank EXCEPT !.by = who, !.mode = mode]

check_halt      == halt.on
halt_mode       == IF halt.mode = "exits" THEN "exits" ELSE "freeze"
flatten_pending == halt.on /\ halt.pending

\* Mutant: the kill switch engages the friendlier mode.
KillBodyExits == Engaged("kill", "exits")
KillBody == Engaged("kill", "freeze")

\* Start rewriting the file as body, then go on at next.
Rewrite(a, body, next) ==
  /\ out'  = [out EXCEPT ![a] = body]
  /\ cont' = [cont EXCEPT ![a] = next]
  /\ pc'   = [pc EXCEPT ![a] = "open"]

Goto(a, l) == pc' = [pc EXCEPT ![a] = l] /\ UNCHANGED <<out, cont>>

Open(a) ==
  /\ pc[a] = "open"
  /\ halt' = Blank
  /\ orphan' = [orphan EXCEPT ![a] = FALSE]
  /\ spent' = IF cont[a] = "kflatten" THEN 0 ELSE spent
  /\ Goto(a, "flush")
  /\ UNCHANGED <<book, breach, session, n, budget>>

Flush(a) ==
  /\ pc[a] = "flush"
  /\ halt' = IF orphan[a] THEN halt ELSE out[a]
  /\ pc' = [pc EXCEPT ![a] = cont[a]]
  /\ out' = [out EXCEPT ![a] = NoHalt] /\ cont' = [cont EXCEPT ![a] = "idle"]
  /\ UNCHANGED <<book, breach, session, n, orphan, spent, budget>>

-----------------------------------------------------------------------------
(* A trading cycle: bootstrap, then the kill switch, then orders.          *)

MayStart == Overlap \/ \A q \in Procs : pc[q] = "idle"

\* _bootstrap_cycle: freeze ends the cycle, after one recovery attempt when
\* a flatten is pending; exits runs it with entries blocked.
StartCycle(c) ==
  /\ pc[c] = "idle" /\ MayStart
  /\ \/ ~check_halt /\ Goto(c, "account")
     \/ check_halt /\ halt_mode = "exits" /\ Goto(c, "account_exits")
     \/ check_halt /\ halt_mode = "freeze" /\ flatten_pending /\ Goto(c, "recover")
  /\ UNCHANGED <<halt, book, breach, session, n, orphan, spent, budget>>

\* broker.account(), and the kill switch's verdict on it.
Account(c) ==
  /\ pc[c] \in {"account", "account_exits"}
  /\ \/ /\ breach
        /\ Rewrite(c, KillBody, "kflatten")
        /\ n' = [n EXCEPT ![c] = 1]
     \/ /\ ~breach
        /\ Goto(c, IF pc[c] = "account" THEN "trade" ELSE "exits")
        /\ UNCHANGED n
     \/ Goto(c, "idle") /\ UNCHANGED n    \* the call raised: the cycle dies
  /\ UNCHANGED <<halt, book, breach, session, orphan, spent, budget>>

\* broker.flatten_all(): closes all, some or none, raising or not.
KillFlatten(c) ==
  /\ pc[c] = "kflatten"
  /\ book' \in SUBSET book
  /\ Goto(c, "kverify")
  /\ UNCHANGED <<halt, breach, session, n, orphan, spent, budget>>

\* Mutant: a flatten that did not raise is taken for a complete one.
KillVerifyTrusting(c) ==
  /\ pc[c] = "kverify"
  /\ Goto(c, "idle")
  /\ UNCHANGED <<halt, book, breach, session, n, orphan, spent, budget>>

\* Success is the broker reporting an empty book; an unreadable book is not.
KillVerify(c) ==
  /\ pc[c] = "kverify"
  /\ \/ book = {} /\ Goto(c, "idle") /\ UNCHANGED n
     \/ n[c] < Tries /\ Goto(c, "kflatten") /\ n' = [n EXCEPT ![c] = @ + 1]
     \/ n[c] >= Tries /\ Goto(c, "mark") /\ UNCHANGED n
  /\ UNCHANGED <<halt, book, breach, session, orphan, spent, budget>>

\* mark_flatten_pending: reads the body here, writes it back two steps later.
Mark(c) ==
  /\ pc[c] = "mark"
  /\ \/ ~halt.on /\ Goto(c, "idle")
     \/ halt.on /\ Rewrite(c, IF halt.pending THEN halt
                              ELSE [halt EXCEPT !.pending = TRUE, !.attempts = 0], "idle")
  /\ UNCHANGED <<halt, book, breach, session, n, orphan, spent, budget>>

\* The halt rail of pre_trade_checks, then the order, some time later.
CheckEntry(c) ==
  /\ pc[c] = "trade"
  /\ ~check_halt
  /\ Goto(c, "submit")
  /\ UNCHANGED <<halt, book, breach, session, n, orphan, spent, budget>>

SubmitEntry(c) ==
  /\ pc[c] = "submit"
  /\ \/ \E s \in Symbols \ book : book' = book \cup {s}
     \/ UNCHANGED book    \* drift guard, or the broker refused
  /\ Goto(c, "trade")
  /\ UNCHANGED <<halt, breach, session, n, orphan, spent, budget>>

StrategyExit(c) ==
  /\ pc[c] \in {"trade", "exits"}
  /\ \E s \in book : book' = book \ {s}
  /\ UNCHANGED <<halt, breach, session, procVars, spent, budget>>

EndCycle(c) ==
  /\ pc[c] \in {"trade", "exits"}
  /\ Goto(c, "idle")
  /\ UNCHANGED <<halt, book, breach, session, n, orphan, spent, budget>>

-----------------------------------------------------------------------------
(* One flatten_recovery.run, from the job or from a frozen cycle.          *)

\* Mutant: the cap compared with <= instead of <.
MayRecoverAtCap == flatten_pending /\ session /\ halt.attempts <= MaxAttempts
\* Mutant: gives up one attempt early.
MayRecoverEarly == flatten_pending /\ session /\ halt.attempts + 1 < MaxAttempts
MayRecover == flatten_pending /\ session /\ halt.attempts < MaxAttempts

StartJob ==
  /\ pc[Job] = "idle" /\ MayStart
  /\ MayRecover
  /\ Goto(Job, "bump")
  /\ UNCHANGED <<halt, book, breach, session, n, orphan, spent, budget>>

CycleRecovers(c) ==
  /\ pc[c] = "recover"
  /\ Goto(c, IF MayRecover THEN "bump" ELSE "idle")
  /\ UNCHANGED <<halt, book, breach, session, n, orphan, spent, budget>>

\* record_flatten_attempt: without a file there is nothing to count, and the
\* attempt goes ahead all the same.
Bump(p) ==
  /\ pc[p] = "bump"
  /\ \/ halt.on /\ Rewrite(p, [halt EXCEPT !.attempts = @ + 1], "rflatten")
     \/ ~halt.on /\ Goto(p, "rflatten")
  /\ UNCHANGED <<halt, book, breach, session, n, orphan, spent, budget>>

RecoveryFlatten(p) ==
  /\ pc[p] = "rflatten"
  /\ book' \in SUBSET book
  /\ spent' = spent + 1
  /\ Goto(p, "rverify")
  /\ UNCHANGED <<halt, breach, session, n, orphan, budget>>

\* Flat: recovered.  Anything else: retrying, or abandoned at the cap.
RecoveryVerify(p) ==
  /\ pc[p] = "rverify"
  /\ \/ book = {} /\ Goto(p, "unmark")
     \/ Goto(p, "idle")
  /\ UNCHANGED <<halt, book, breach, session, n, orphan, spent, budget>>

\* clear_flatten_pending: drops the markers, leaves the halt engaged.
Unmark(p) ==
  /\ pc[p] = "unmark"
  /\ \/ ~halt.on /\ Goto(p, "idle")
     \/ halt.on /\ Rewrite(p, [halt EXCEPT !.pending = FALSE, !.attempts = 0], "idle")
  /\ UNCHANGED <<halt, book, breach, session, n, orphan, spent, budget>>

-----------------------------------------------------------------------------
(* The operator, the market and the machine.                               *)

\* halt.py engage: refuses when a halt is live, whatever its mode.
OperatorEngages(mode) ==
  /\ pc[Operator] = "idle" /\ budget.commands > 0
  /\ ~check_halt
  /\ budget' = [budget EXCEPT !.commands = @ - 1]
  /\ \/ AtomicCommands /\ halt' = Engaged("manual", mode) /\ UNCHANGED <<pc, cont, out>>
     \/ ~AtomicCommands /\ Rewrite(Operator, Engaged("manual", mode), "idle") /\ UNCHANGED halt
  /\ UNCHANGED <<book, breach, session, n, orphan, spent>>

\* halt.py --clear, or rm HALT.
OperatorClears ==
  /\ pc[Operator] = "idle" /\ budget.commands > 0
  /\ halt.on
  /\ budget' = [budget EXCEPT !.commands = @ - 1]
  /\ halt' = NoHalt
  /\ orphan' = [a \in Actors |-> TRUE]
  /\ spent' = 0
  /\ UNCHANGED <<book, breach, session, pc, cont, out, n>>

\* A protective leg fills, or a close sent earlier does.
BrokerCloses(s) ==
  /\ s \in book
  /\ book' = book \ {s}
  /\ UNCHANGED <<halt, breach, session, procVars, spent, budget>>

LossGrows ==
  /\ ~breach /\ book # {} /\ budget.breaches > 0
  /\ breach' = TRUE
  /\ budget' = [budget EXCEPT !.breaches = @ - 1]
  /\ UNCHANGED <<halt, book, session, procVars, spent>>

\* The session opens or closes; a new session measures its loss afresh.
Clock ==
  /\ session' = ~session
  /\ breach' = (breach /\ session)
  /\ UNCHANGED <<halt, book, procVars, spent, budget>>

\* SIGKILL, power loss; the scheduler's timeout, for a job it runs without a shell.
Crash(p) ==
  /\ pc[p] # "idle" /\ budget.crashes > 0
  /\ budget' = [budget EXCEPT !.crashes = @ - 1]
  /\ Goto(p, "idle")
  /\ UNCHANGED <<halt, book, breach, session, n, orphan, spent>>

Init ==
  /\ halt = NoHalt
  /\ book \in SUBSET Symbols
  /\ breach = FALSE /\ session \in BOOLEAN
  /\ pc = [a \in Actors |-> "idle"] /\ cont = [a \in Actors |-> "idle"]
  /\ out = [a \in Actors |-> NoHalt]
  /\ n = [a \in Actors |-> 0] /\ orphan = [a \in Actors |-> FALSE]
  /\ spent = 0
  /\ budget = [crashes |-> MaxCrashes, commands |-> MaxCommands, breaches |-> MaxBreaches]

Cycle(c) ==
  \/ StartCycle(c) \/ Account(c) \/ KillFlatten(c) \/ KillVerify(c) \/ Mark(c)
  \/ CheckEntry(c) \/ SubmitEntry(c) \/ StrategyExit(c) \/ EndCycle(c)
  \/ CycleRecovers(c)

Recovery(p) == Bump(p) \/ RecoveryFlatten(p) \/ RecoveryVerify(p) \/ Unmark(p)

Environment ==
  \/ \E mode \in {"exits", "freeze"} : OperatorEngages(mode)
  \/ OperatorClears
  \/ \E s \in Symbols : BrokerCloses(s)
  \/ LossGrows \/ Clock
  \/ \E p \in Procs : Crash(p)

Next ==
  \/ \E a \in Actors : Open(a) \/ Flush(a)
  \/ \E c \in Cycles : Cycle(c)
  \/ StartJob
  \/ \E p \in Procs : Recovery(p)
  \/ Environment

Spec == Init /\ [][Next]_vars

\* A process that has begun goes on; a cycle's loop over its symbols ends;
\* the job fires every quarter hour of a session; sessions come and go.
Fairness ==
  /\ \A a \in Actors : WF_vars(Open(a)) /\ WF_vars(Flush(a))
  /\ \A c \in Cycles :
       /\ WF_vars(Account(c) \/ KillFlatten(c) \/ KillVerify(c) \/ Mark(c)
                  \/ CycleRecovers(c) \/ SubmitEntry(c))
       /\ SF_vars(EndCycle(c))
  /\ \A p \in Procs : WF_vars(Recovery(p))
  /\ SF_vars(StartJob)
  /\ WF_vars(Clock)

LiveSpec == Spec /\ Fairness

-----------------------------------------------------------------------------
(* What must hold.                                                         *)

Body == [on : BOOLEAN, mode : {"blank", "exits", "freeze"},
         by : {"nobody", "kill", "manual"}, pending : BOOLEAN, attempts : Nat]

Labels == {"idle", "account", "account_exits", "recover", "open", "flush",
           "kflatten", "kverify", "mark", "trade", "submit", "exits",
           "bump", "rflatten", "rverify", "unmark"}

TypeOK ==
  /\ halt \in Body /\ book \subseteq Symbols
  /\ breach \in BOOLEAN /\ session \in BOOLEAN
  /\ pc \in [Actors -> Labels] /\ cont \in [Actors -> Labels]
  /\ out \in [Actors -> Body]
  /\ n \in [Actors -> 0..Tries] /\ orphan \in [Actors -> BOOLEAN]
  /\ spent \in Nat
  /\ budget \in [crashes : Nat, commands : Nat, breaches : Nat]

\* The retry budget bounds what is DONE, not only what is counted: however
\* runs crash and whatever the operator does meanwhile, one incident sends
\* the broker at most max_attempts automatic liquidations.
SpentBounded == spent <= MaxAttempts

AtRest == \A p \in Procs : pc[p] = "idle"

\* A book left open under the kill switch's own halt, with nobody working on
\* it, carries the marker that makes the retry job come back for it.
NoForgottenBook ==
  AtRest /\ halt.on /\ halt.by = "kill" /\ book # {} => halt.pending

\* ... as long as no process was killed half way.  Interrupted writes, broker
\* calls that close some of the book and operator commands do not lose it.
MarkedUnlessKilled == budget.crashes = MaxCrashes => NoForgottenBook

\* The freeze the kill switch engages keeps every later cycle from entering
\* the kill switch again: it never engages over its own live halt.
KillNeverReenters ==
  [][\A c \in Cycles : pc[c] = "open" /\ pc'[c] = "flush" /\ cont[c] = "kflatten"
       => ~(halt.on /\ halt.by = "kill")]_vars

\* A pending flatten does not stay pending for ever: the job works it off,
\* gives it up at the cap, or the operator cancels it.
RetriesEnd ==
  (AtRest /\ flatten_pending)
    ~> (AtRest /\ (~flatten_pending \/ halt.attempts >= MaxAttempts))
=============================================================================
