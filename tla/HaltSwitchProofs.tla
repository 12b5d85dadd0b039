--------------------------- MODULE HaltSwitchProofs ---------------------------
(***************************************************************************)
(* What holds of HaltSwitch for every number of processes, every book and  *)
(* every value of the caps, and of Watch for every calendar and number of  *)
(* kills.  The retry budget needs jobs that do not overlap, which is how   *)
(* scheduler.py runs them.                                                 *)
(***************************************************************************)
EXTENDS HaltSwitch, Watch, SequenceTheorems, TLAPS

\* No body but a marked one authorises anything: risk.engage_halt, an emptied
\* file and no file at all carry no marker and no attempts.
LEMMA Unmarked ==
  /\ NoHalt \in Body /\ ~NoHalt.pending /\ NoHalt.attempts = 0
  /\ Blank \in Body /\ ~Blank.pending /\ Blank.attempts = 0
BY DEF Blank, NoHalt, Body

LEMMA EngagedUnmarked ==
  ASSUME NEW who \in {"nobody", "kill", "manual"}, NEW mode \in {"blank", "exits", "freeze"}
  PROVE  /\ Engaged(who, mode) \in Body
         /\ ~Engaged(who, mode).pending /\ Engaged(who, mode).attempts = 0
BY DEF Engaged, Blank, NoHalt, Body

LEMMA RewrittenType ==
  ASSUME NEW h \in Body, NEW b \in BOOLEAN, NEW k \in Nat
  PROVE  /\ [h EXCEPT !.pending = b, !.attempts = k] \in Body
         /\ [h EXCEPT !.attempts = k] \in Body
         /\ h.attempts + 1 \in Nat
         /\ [h EXCEPT !.pending = b, !.attempts = k].attempts = k
         /\ [h EXCEPT !.pending = b, !.attempts = k].pending = b
         /\ [h EXCEPT !.pending = b, !.attempts = k].on = h.on
<1>1. [h EXCEPT !.pending = b, !.attempts = k] \in Body
  BY DEF Body
<1>2. [h EXCEPT !.attempts = k] \in Body
  BY DEF Body
<1>3. h.attempts + 1 \in Nat
  BY DEF Body
<1>4. /\ [h EXCEPT !.pending = b, !.attempts = k].attempts = k
      /\ [h EXCEPT !.pending = b, !.attempts = k].pending = b
      /\ [h EXCEPT !.pending = b, !.attempts = k].on = h.on
  BY DEF Body
<1> QED BY <1>1, <1>2, <1>3, <1>4

\* Every variable keeps its type, at every step, whatever the constants.
THEOREM Typing == Spec => []TypeOK
<1> USE NumbersAssumption
<1>1. Init => TypeOK
  <2> SUFFICES ASSUME Init PROVE TypeOK
    OBVIOUS
  <2> USE Unmarked DEF Init
  <2>1. pc \in [Actors -> Labels] /\ cont \in [Actors -> Labels]
    BY DEF Labels
  <2>2. out \in [Actors -> Body] /\ n \in [Actors -> 0..Tries] /\ orphan \in [Actors -> BOOLEAN]
    OBVIOUS
  <2>3. budget \in [crashes : Nat, commands : Nat, breaches : Nat]
    OBVIOUS
  <2> QED BY <2>1, <2>2, <2>3 DEF TypeOK
<1>2. TypeOK /\ [Next]_vars => TypeOK'
  <2> SUFFICES ASSUME TypeOK, [Next]_vars PROVE TypeOK'
    OBVIOUS
  <2> USE Unmarked, EngagedUnmarked DEF TypeOK, Labels, Goto, Rewrite, procVars
  <2>1. ASSUME NEW a \in Actors, Open(a) PROVE TypeOK'
    BY <2>1 DEF Open
  <2>2. ASSUME NEW a \in Actors, Flush(a) PROVE TypeOK'
    BY <2>2 DEF Flush
  <2>3. ASSUME NEW c \in Cycles, Cycle(c) PROVE TypeOK'
    <3> c \in Actors
      BY DEF Actors, Procs
    <3>1. CASE StartCycle(c) BY <3>1 DEF StartCycle
    <3>2. CASE Account(c) BY <3>2 DEF Account, KillBody
    <3>3. CASE KillFlatten(c) BY <3>3 DEF KillFlatten
    <3>4. CASE KillVerify(c) BY <3>4 DEF KillVerify
    <3>5. CASE Mark(c)
      <4>1. [halt EXCEPT !.pending = TRUE, !.attempts = 0] \in Body
        BY RewrittenType
      <4> QED BY <3>5, <4>1 DEF Mark
    <3>6. CASE CheckEntry(c) BY <3>6 DEF CheckEntry
    <3>7. CASE SubmitEntry(c) BY <3>7 DEF SubmitEntry
    <3>8. CASE StrategyExit(c) BY <3>8 DEF StrategyExit
    <3>9. CASE EndCycle(c) BY <3>9 DEF EndCycle
    <3>10. CASE CycleRecovers(c) BY <3>10 DEF CycleRecovers
    <3> QED BY <2>3, <3>1, <3>2, <3>3, <3>4, <3>5, <3>6, <3>7, <3>8, <3>9, <3>10 DEF Cycle
  <2>4. CASE StartJob
    BY <2>4 DEF StartJob, Actors, Procs
  <2>5. ASSUME NEW p \in Procs, Recovery(p) PROVE TypeOK'
    <3> p \in Actors
      BY DEF Actors
    <3>1. CASE Bump(p)
      <4>1. [halt EXCEPT !.attempts = @ + 1] \in Body
        BY RewrittenType
      <4> QED BY <3>1, <4>1 DEF Bump
    <3>2. CASE RecoveryFlatten(p) BY <3>2 DEF RecoveryFlatten
    <3>3. CASE RecoveryVerify(p) BY <3>3 DEF RecoveryVerify
    <3>4. CASE Unmark(p)
      <4>1. [halt EXCEPT !.pending = FALSE, !.attempts = 0] \in Body
        BY RewrittenType
      <4> QED BY <3>4, <4>1 DEF Unmark
    <3> QED BY <2>5, <3>1, <3>2, <3>3, <3>4 DEF Recovery
  <2>6. CASE Environment
    <3>1. ASSUME NEW mode \in {"exits", "freeze"}, OperatorEngages(mode) PROVE TypeOK'
      BY <3>1 DEF OperatorEngages, Actors
    <3>2. CASE OperatorClears BY <3>2 DEF OperatorClears
    <3>3. ASSUME NEW s \in Symbols, BrokerCloses(s) PROVE TypeOK'
      BY <3>3 DEF BrokerCloses
    <3>4. CASE LossGrows BY <3>4 DEF LossGrows
    <3>5. CASE Clock BY <3>5 DEF Clock
    <3>6. ASSUME NEW p \in Procs, Crash(p) PROVE TypeOK'
      BY <3>6 DEF Crash, Actors
    <3> QED BY <2>6, <3>1, <3>2, <3>3, <3>4, <3>5, <3>6 DEF Environment
  <2>7. CASE UNCHANGED vars
    BY <2>7 DEF vars
  <2> QED BY <2>1, <2>2, <2>3, <2>4, <2>5, <2>6, <2>7 DEF Next
<1> QED BY <1>1, <1>2, PTL DEF Spec

-----------------------------------------------------------------------------
(* The retry budget.  The counter in the file bounds the liquidations that *)
(* were sent only if, at every point of a run, the body in the file or the *)
(* body about to be written accounts for them.                             *)

Writing(p) == pc[p] \in {"open", "flush"}

\* scheduler.py: one job at a time.
OneAtATime == \A p, q \in Procs : pc[p] # "idle" /\ pc[q] # "idle" => p = q

\* The operator's body never carries the marker.
OperatorUnmarked ==
  /\ pc[Operator] \in {"idle", "open", "flush"} /\ cont[Operator] = "idle"
  /\ ~out[Operator].pending /\ out[Operator].attempts = 0

FileAccounts ==
  /\ spent <= MaxAttempts /\ halt.attempts <= MaxAttempts
  /\ halt.pending => halt.on /\ spent <= halt.attempts

\* What each point of a process's run may rely on.
RunAccounts(p) ==
  /\ pc[p] \in {"kflatten", "kverify", "mark"} => spent = 0
  /\ pc[p] = "bump" => spent < MaxAttempts /\ halt.attempts < MaxAttempts
  /\ pc[p] = "rflatten" =>
       spent < MaxAttempts /\ (halt.pending => spent < halt.attempts)
  /\ pc[p] = "flush" => ~halt.pending
  /\ Writing(p) =>
       /\ cont[p] \in {"idle", "kflatten", "rflatten"}
       /\ out[p].attempts <= MaxAttempts
       /\ out[p].pending => out[p].on /\ spent <= out[p].attempts
  /\ Writing(p) /\ cont[p] = "kflatten" => ~out[p].pending
  /\ pc[p] = "flush" /\ cont[p] = "kflatten" => spent = 0
  /\ Writing(p) /\ cont[p] = "rflatten" =>
       spent < MaxAttempts /\ (out[p].pending => spent < out[p].attempts)

BudgetInv ==
  /\ OneAtATime /\ OperatorUnmarked /\ FileAccounts
  /\ \A p \in Procs : RunAccounts(p)

LEMMA BudgetStep ==
  ASSUME ~Overlap, TypeOK, BudgetInv, [Next]_vars
  PROVE  BudgetInv'
<1> USE NumbersAssumption, ActorsAssumption, Unmarked
<1> USE DEF TypeOK, Goto, Rewrite, procVars, Actors
<1>0. \A a \in Actors : out[a].attempts \in Nat /\ halt.attempts \in Nat
  BY DEF Body
<1>1. ASSUME NEW a \in Actors, Open(a) PROVE BudgetInv'
  BY <1>1 DEF Open, BudgetInv, OneAtATime, OperatorUnmarked, FileAccounts, RunAccounts, Writing
<1>2. ASSUME NEW a \in Actors, Flush(a) PROVE BudgetInv'
  BY <1>2 DEF Flush, BudgetInv, OneAtATime, OperatorUnmarked, FileAccounts, RunAccounts, Writing
<1>3. ASSUME NEW c \in Cycles, Cycle(c) PROVE BudgetInv'
  <2> c \in Procs
    BY DEF Procs
  <2> USE DEF BudgetInv, OneAtATime, OperatorUnmarked, FileAccounts, RunAccounts, Writing
  <2>1. CASE StartCycle(c) BY <2>1 DEF StartCycle, MayStart
  <2>2. CASE Account(c) BY <2>2, EngagedUnmarked DEF Account, KillBody
  <2>3. CASE KillFlatten(c) BY <2>3 DEF KillFlatten
  <2>4. CASE KillVerify(c) BY <2>4 DEF KillVerify
  <2>5. CASE Mark(c)
    <3> HIDE DEF OneAtATime, RunAccounts
    <3>1. \A q \in Procs \ {c} : pc[q] = "idle" /\ pc'[q] = "idle"
      BY <2>5 DEF Mark, Body, OneAtATime
    <3>2. \A q \in Procs \ {c} : RunAccounts(q)'
      BY <3>1 DEF RunAccounts
    <3>3. RunAccounts(c) /\ RunAccounts(c)'
      <4> HIDE DEF BudgetInv
      <4> DEFINE marked == [halt EXCEPT !.pending = TRUE, !.attempts = 0]
      <4>0. marked.attempts = 0 /\ marked.on = halt.on
        <5> halt \in Body
          OBVIOUS
        <5> HIDE DEF TypeOK, BudgetInv
        <5> QED BY RewrittenType
      <4> HIDE DEF marked
      <4>1. \/ pc'[c] = "idle"
            \/ /\ pc'[c] = "open" /\ cont'[c] = "idle" /\ halt.on
               /\ out'[c] = (IF halt.pending THEN halt ELSE marked)
        BY <2>5 DEF Mark, marked
      <4>2. UNCHANGED halt /\ (UNCHANGED spent \/ pc'[c] = "rverify")
        BY <2>5 DEF Mark
      <4>3. RunAccounts(c) /\ FileAccounts /\ spent \in Nat /\ halt.attempts \in Nat
        BY DEF BudgetInv, Body
      <4>4. pc[c] = "mark"
        BY <2>5 DEF Mark
      <4> QED BY <4>0, <4>1, <4>2, <4>3, <4>4 DEF RunAccounts
    <3>4. OneAtATime' /\ OperatorUnmarked'
      BY <2>5, <3>1 DEF Mark, Body, OneAtATime
    <3>5. FileAccounts'
      BY <2>5, <3>3 DEF Mark, Body, RunAccounts
    <3> QED BY <3>2, <3>3, <3>4, <3>5
  <2>6. CASE CheckEntry(c) BY <2>6 DEF CheckEntry
  <2>7. CASE SubmitEntry(c) BY <2>7 DEF SubmitEntry
  <2>8. CASE StrategyExit(c) BY <2>8 DEF StrategyExit
  <2>9. CASE EndCycle(c) BY <2>9 DEF EndCycle
  <2>10. CASE CycleRecovers(c)
    <3> HIDE DEF OneAtATime, RunAccounts
    <3>1. \A q \in Procs \ {c} : pc[q] = "idle" /\ pc'[q] = "idle"
      BY <2>10 DEF CycleRecovers, MayRecover, flatten_pending, OneAtATime
    <3>2. \A q \in Procs \ {c} : RunAccounts(q)'
      BY <3>1 DEF RunAccounts
    <3>3. RunAccounts(c) /\ RunAccounts(c)'
      <4> HIDE DEF BudgetInv
      <4>1. \/ pc'[c] = "idle"
            \/ pc'[c] = "bump" /\ halt.pending /\ halt.attempts < MaxAttempts
        BY <2>10 DEF CycleRecovers, Body, MayRecover, flatten_pending
      <4>2. UNCHANGED halt /\ (UNCHANGED spent \/ pc'[c] = "rverify")
        BY <2>10 DEF CycleRecovers
      <4>3. RunAccounts(c) /\ FileAccounts /\ spent \in Nat /\ halt.attempts \in Nat
        BY DEF BudgetInv, Body
      <4>4. pc[c] = "recover"
        BY <2>10 DEF CycleRecovers
      <4> QED BY <4>1, <4>2, <4>3, <4>4 DEF RunAccounts
    <3>4. OneAtATime' /\ OperatorUnmarked'
      BY <2>10, <3>1 DEF CycleRecovers, MayRecover, flatten_pending, OneAtATime
    <3>5. FileAccounts'
      BY <2>10, <3>3 DEF CycleRecovers, MayRecover, flatten_pending, RunAccounts
    <3> QED BY <3>2, <3>3, <3>4, <3>5
  <2> QED BY <1>3, <2>1, <2>2, <2>3, <2>4, <2>5, <2>6, <2>7, <2>8, <2>9, <2>10 DEF Cycle
<1>4. CASE StartJob
  <2> USE DEF BudgetInv, OneAtATime, OperatorUnmarked, FileAccounts, RunAccounts, Writing
  <2> Job \in Procs
    BY DEF Procs
  <2> HIDE DEF OneAtATime, RunAccounts
  <2>1. \A q \in Procs \ {Job} : pc[q] = "idle" /\ pc'[q] = "idle"
    BY <1>4 DEF StartJob, MayStart, MayRecover, flatten_pending, Body, OneAtATime
  <2>2. \A q \in Procs \ {Job} : RunAccounts(q)'
    BY <2>1 DEF RunAccounts
  <2>3. RunAccounts(Job) /\ RunAccounts(Job)'
    BY <1>4 DEF StartJob, MayStart, MayRecover, flatten_pending, Body, RunAccounts
  <2>4. OneAtATime' /\ OperatorUnmarked'
    BY <1>4, <2>1 DEF StartJob, MayStart, MayRecover, flatten_pending, Body, OneAtATime
  <2>5. FileAccounts'
    BY <1>4, <2>3 DEF StartJob, MayStart, MayRecover, flatten_pending, Body, RunAccounts
  <2> QED BY <2>2, <2>3, <2>4, <2>5
<1>5. ASSUME NEW p \in Procs, Recovery(p) PROVE BudgetInv'
  <2> USE DEF BudgetInv, OneAtATime, OperatorUnmarked, FileAccounts, RunAccounts, Writing
  <2>1. CASE Bump(p)
    <3> HIDE DEF OneAtATime, RunAccounts
    <3>1. \A q \in Procs \ {p} : pc[q] = "idle" /\ pc'[q] = "idle"
      BY <2>1 DEF Bump, Body, OneAtATime
    <3>2. \A q \in Procs \ {p} : RunAccounts(q)'
      BY <3>1 DEF RunAccounts
    <3>3. RunAccounts(p) /\ RunAccounts(p)'
      <4> HIDE DEF BudgetInv
      <4>1. \/ pc'[p] = "rflatten" /\ ~halt.on
            \/ /\ pc'[p] = "open" /\ cont'[p] = "rflatten"
               /\ out'[p].attempts = halt.attempts + 1 /\ out'[p].pending = halt.pending /\ out'[p].on
        BY <2>1 DEF Bump, Body
      <4>2. UNCHANGED halt /\ (UNCHANGED spent \/ pc'[p] = "rverify")
        BY <2>1 DEF Bump
      <4>3. RunAccounts(p) /\ FileAccounts /\ spent \in Nat /\ halt.attempts \in Nat
        BY DEF BudgetInv, Body
      <4>4. pc[p] = "bump"
        BY <2>1 DEF Bump
      <4> QED BY <4>1, <4>2, <4>3, <4>4 DEF RunAccounts
    <3>4. OneAtATime' /\ OperatorUnmarked'
      BY <2>1, <3>1 DEF Bump, Body, OneAtATime
    <3>5. FileAccounts'
      BY <2>1, <3>3 DEF Bump, Body, RunAccounts
    <3> QED BY <3>2, <3>3, <3>4, <3>5
  <2>2. CASE RecoveryFlatten(p)
    <3> HIDE DEF OneAtATime, RunAccounts
    <3>1. \A q \in Procs \ {p} : pc[q] = "idle" /\ pc'[q] = "idle"
      BY <2>2 DEF RecoveryFlatten, Body, OneAtATime
    <3>2. \A q \in Procs \ {p} : RunAccounts(q)'
      BY <3>1 DEF RunAccounts
    <3>3. RunAccounts(p) /\ RunAccounts(p)'
      <4> HIDE DEF BudgetInv
      <4>1. pc[p] = "rflatten" /\ pc'[p] = "rverify" /\ spent' = spent + 1
        BY <2>2 DEF RecoveryFlatten, Body
      <4>2. UNCHANGED halt /\ (UNCHANGED spent \/ pc'[p] = "rverify")
        BY <2>2 DEF RecoveryFlatten
      <4>3. RunAccounts(p) /\ FileAccounts /\ spent \in Nat /\ halt.attempts \in Nat
        BY DEF BudgetInv, Body
      <4>4. pc[p] = "rflatten"
        BY <2>2 DEF RecoveryFlatten
      <4> QED BY <4>1, <4>2, <4>3, <4>4 DEF RunAccounts
    <3>4. OneAtATime' /\ OperatorUnmarked'
      BY <2>2, <3>1 DEF RecoveryFlatten, Body, OneAtATime
    <3>5. FileAccounts'
      BY <2>2, <3>3 DEF RecoveryFlatten, Body, RunAccounts
    <3> QED BY <3>2, <3>3, <3>4, <3>5
  <2>3. CASE RecoveryVerify(p) BY <2>3 DEF RecoveryVerify
  <2>4. CASE Unmark(p)
    <3> HIDE DEF OneAtATime, RunAccounts
    <3>1. \A q \in Procs \ {p} : pc[q] = "idle" /\ pc'[q] = "idle"
      BY <2>4 DEF Unmark, Body, OneAtATime
    <3>2. \A q \in Procs \ {p} : RunAccounts(q)'
      BY <3>1 DEF RunAccounts
    <3>3. RunAccounts(p) /\ RunAccounts(p)'
      <4> HIDE DEF BudgetInv
      <4> DEFINE cleared == [halt EXCEPT !.pending = FALSE, !.attempts = 0]
      <4>0. cleared.attempts = 0 /\ ~cleared.pending
        BY RewrittenType
      <4> HIDE DEF cleared
      <4>1. \/ pc'[p] = "idle"
            \/ pc'[p] = "open" /\ cont'[p] = "idle" /\ out'[p] = cleared
        BY <2>4 DEF Unmark, cleared
      <4>2. UNCHANGED halt /\ (UNCHANGED spent \/ pc'[p] = "rverify")
        BY <2>4 DEF Unmark
      <4>3. RunAccounts(p) /\ FileAccounts /\ spent \in Nat /\ halt.attempts \in Nat
        BY DEF BudgetInv, Body
      <4>4. pc[p] = "unmark"
        BY <2>4 DEF Unmark
      <4> QED BY <4>0, <4>1, <4>2, <4>3, <4>4 DEF RunAccounts
    <3>4. OneAtATime' /\ OperatorUnmarked'
      BY <2>4, <3>1 DEF Unmark, Body, OneAtATime
    <3>5. FileAccounts'
      BY <2>4, <3>3 DEF Unmark, Body, RunAccounts
    <3> QED BY <3>2, <3>3, <3>4, <3>5
  <2> QED BY <1>5, <2>1, <2>2, <2>3, <2>4 DEF Recovery
<1>6. CASE Environment
  <2> USE DEF BudgetInv, OneAtATime, OperatorUnmarked, FileAccounts, RunAccounts, Writing
  <2>1. ASSUME NEW mode \in {"exits", "freeze"}, OperatorEngages(mode) PROVE BudgetInv'
    <3>1. /\ ~Engaged("manual", mode).pending /\ Engaged("manual", mode).attempts = 0
          /\ \A p \in Procs : p # Operator
      BY EngagedUnmarked
    <3>2. \A p \in Procs : pc'[p] = pc[p] /\ out'[p] = out[p] /\ cont'[p] = cont[p]
      BY <2>1, <3>1 DEF OperatorEngages
    <3>3. UNCHANGED halt \/ (~halt'.pending /\ halt'.attempts = 0)
      BY <2>1, <3>1 DEF OperatorEngages
    <3>4. OperatorUnmarked'
      BY <2>1, <3>1 DEF OperatorEngages
    <3>5. UNCHANGED spent
      BY <2>1 DEF OperatorEngages
    <3>6. OneAtATime' /\ FileAccounts'
      BY <3>2, <3>3, <3>5
    <3>7. \A p \in Procs : RunAccounts(p)'
      <4> HIDE DEF RunAccounts, BudgetInv
      <4> TAKE p \in Procs
      <4>1. RunAccounts(p) /\ FileAccounts
        BY DEF BudgetInv
      <4> QED BY <3>2, <3>3, <3>5, <4>1 DEF RunAccounts
    <3> HIDE DEF OneAtATime, OperatorUnmarked, FileAccounts, RunAccounts
    <3> QED BY <3>4, <3>6, <3>7
  <2>2. CASE OperatorClears
    <3>1. UNCHANGED <<pc, cont, out>> /\ halt' = NoHalt /\ spent' = 0
      BY <2>2 DEF OperatorClears
    <3>2. OneAtATime' /\ OperatorUnmarked' /\ FileAccounts'
      BY <3>1
    <3>3. \A p \in Procs : RunAccounts(p)'
      <4> HIDE DEF RunAccounts, BudgetInv
      <4> TAKE p \in Procs
      <4>1. RunAccounts(p) /\ FileAccounts /\ out[p].attempts \in Nat
        BY <1>0 DEF BudgetInv
      <4> QED BY <3>1, <4>1 DEF RunAccounts
    <3> HIDE DEF OneAtATime, OperatorUnmarked, FileAccounts, RunAccounts
    <3> QED BY <3>2, <3>3
  <2>3. ASSUME NEW s \in Symbols, BrokerCloses(s) PROVE BudgetInv'
    BY <2>3 DEF BrokerCloses
  <2>4. CASE LossGrows BY <2>4 DEF LossGrows
  <2>5. CASE Clock BY <2>5 DEF Clock
  <2>6. ASSUME NEW p \in Procs, Crash(p) PROVE BudgetInv'
    BY <2>6 DEF Crash
  <2> QED BY <1>6, <2>1, <2>2, <2>3, <2>4, <2>5, <2>6 DEF Environment
<1>7. CASE UNCHANGED vars
  BY <1>7 DEF vars, BudgetInv, OneAtATime, OperatorUnmarked, FileAccounts, RunAccounts, Writing
<1> QED BY <1>1, <1>2, <1>3, <1>4, <1>5, <1>6, <1>7 DEF Next

\* The file and the runs under way account for each other where jobs do not
\* overlap.
LEMMA BudgetHolds == ~Overlap => (Spec => []BudgetInv)
<1> SUFFICES ASSUME ~Overlap PROVE Spec => []BudgetInv
  OBVIOUS
<1>1. Init => BudgetInv
  BY NumbersAssumption, ActorsAssumption, Unmarked
  DEF Init, BudgetInv, OneAtATime, OperatorUnmarked, FileAccounts, RunAccounts, Writing, Actors
<1>2. TypeOK /\ BudgetInv /\ [Next]_vars => BudgetInv'
  BY BudgetStep
<1> QED BY <1>1, <1>2, Typing, PTL DEF Spec

\* Where jobs do not overlap, one incident sends the broker at most
\* max_attempts automatic liquidations, whatever crashes and whatever the
\* operator does, for every cap and every number of processes.
THEOREM RetryBudget == ~Overlap => (Spec => []SpentBounded)
<1>1. BudgetInv => SpentBounded
  BY DEF BudgetInv, FileAccounts, SpentBounded
<1> QED BY <1>1, BudgetHolds, PTL

-----------------------------------------------------------------------------
(* The kill switch's own halt.  While one is live no process is on its way *)
(* to trade or to engage another.                                          *)

KillHalt == halt.on /\ halt.by = "kill"

\* Only the kill switch writes its name, and it always freezes.
Freezes(body) == body.by = "kill" => body.mode = "freeze"
KillsFreeze ==
  Freezes(halt) /\ (\A p \in Procs : Freezes(out[p])) /\ out[Operator].by # "kill"

\* Where a cycle may be that found no halt of the kill switch when it began;
\* nor does a file that is being written hold one.
Fresh(p) ==
  \/ pc[p] \in {"account", "account_exits", "trade", "submit", "exits", "flush"}
  \/ pc[p] = "open" /\ cont[p] = "kflatten"
FreshSeesNone == \A p \in Procs : Fresh(p) => ~KillHalt

ReenterInv == KillsFreeze /\ FreshSeesNone

LEMMA KillBodies ==
  /\ Blank.by = "nobody" /\ NoHalt.by = "nobody" /\ ~NoHalt.on
  /\ KillBody.by = "kill" /\ KillBody.mode = "freeze" /\ KillBody.on /\ KillBody \in Body
  /\ \A mode : Engaged("manual", mode).by = "manual"
BY DEF Engaged, Blank, NoHalt, KillBody, Body

\* A rewritten body keeps its author and its mode.
LEMMA RewrittenAuthor ==
  ASSUME NEW h \in Body, NEW b, NEW k
  PROVE  /\ [h EXCEPT !.pending = b, !.attempts = k].by = h.by
         /\ [h EXCEPT !.pending = b, !.attempts = k].mode = h.mode
         /\ [h EXCEPT !.pending = b, !.attempts = k].pending = b
         /\ [h EXCEPT !.attempts = k].by = h.by
         /\ [h EXCEPT !.attempts = k].mode = h.mode
         /\ [h EXCEPT !.attempts = k].pending = h.pending
BY DEF Body

\* While one process is under way the others rest.
LEMMA Alone ==
  ASSUME OneAtATime, NEW p \in Procs, pc[p] # "idle"
  PROVE  \A q \in Procs \ {p} : pc[q] = "idle"
BY DEF OneAtATime

LEMMA AloneStarts ==
  ASSUME ~Overlap, MayStart
  PROVE  \A q \in Procs : pc[q] = "idle"
BY DEF MayStart

LEMMA ReenterStep ==
  ASSUME ~Overlap, TypeOK, BudgetInv, BudgetInv', ReenterInv, [Next]_vars
  PROVE  ReenterInv'
<1> DEFINE Others(p) == \A q \in Procs \ {p} : pc[q] = "idle"
           Only(p) == \A a \in Actors \ {p} : pc'[a] = pc[a] /\ cont'[a] = cont[a] /\ out'[a] = out[a]
<1>0. \A p \in Procs : p \in Actors /\ p # Operator
  BY ActorsAssumption DEF Actors
<1>1. /\ OneAtATime /\ OperatorUnmarked /\ KillsFreeze /\ FreshSeesNone
      /\ halt \in Body /\ out \in [Actors -> Body] /\ Operator \in Actors
      /\ pc \in [Actors -> Labels] /\ cont \in [Actors -> Labels]
  BY DEF ReenterInv, BudgetInv, TypeOK, Actors
<1>2. \A p \in Procs : pc[p] # "idle" => Others(p)
  BY <1>1, Alone
\* A step of one process, the others being idle.
<1>3. ASSUME NEW p \in Procs, Others(p), Only(p), Freezes(halt'), Freezes(out'[p]),
             Fresh(p)' => ~KillHalt'
      PROVE  ReenterInv'
  <2>1. \A q \in Procs \ {p} : pc'[q] = "idle" /\ out'[q] = out[q]
    BY <1>0, <1>3
  <2>2. out'[Operator] = out[Operator]
    BY <1>0, <1>1, <1>3
  <2>3. KillsFreeze'
    BY <1>1, <1>3, <2>1, <2>2 DEF KillsFreeze
  <2>4. FreshSeesNone'
    BY <1>3, <2>1 DEF FreshSeesNone, Fresh
  <2> QED BY <2>3, <2>4 DEF ReenterInv
\* A step that leaves the file and what is about to be written to it.
<1>4. ASSUME NEW p \in Procs, NEW l \in Labels \ {"open", "flush"}, Others(p), Goto(p, l),
             UNCHANGED halt, l \in {"account", "account_exits", "trade", "submit", "exits"} => ~KillHalt
      PROVE  ReenterInv'
  <2>1. (KillHalt' <=> KillHalt) /\ Freezes(halt') /\ Freezes(out'[p])
    BY <1>1, <1>4 DEF KillHalt, KillsFreeze, Goto
  <2>2. Only(p) /\ pc'[p] = l
    BY <1>0, <1>1, <1>4 DEF Goto
  <2> QED BY <1>3, <1>4, <2>1, <2>2 DEF Fresh
\* A step that begins to rewrite the file.
<1>5. ASSUME NEW p \in Procs, NEW body, NEW next, Rewrite(p, body, next), Others(p),
             UNCHANGED halt, Freezes(body), next = "kflatten" => ~KillHalt
      PROVE  ReenterInv'
  <2>1. (KillHalt' <=> KillHalt) /\ Freezes(halt')
    BY <1>1, <1>5 DEF KillHalt, KillsFreeze
  <2>2. Only(p) /\ pc'[p] = "open" /\ cont'[p] = next /\ out'[p] = body
    BY <1>0, <1>1, <1>5 DEF Rewrite
  <2> QED BY <1>3, <1>5, <2>1, <2>2 DEF Fresh
\* A step that only the file may feel, and not for the worse.
<1>6. ASSUME UNCHANGED <<pc, cont, out>>, Freezes(halt'), KillHalt' => KillHalt
      PROVE  ReenterInv'
  BY <1>1, <1>6 DEF ReenterInv, KillsFreeze, FreshSeesNone, Fresh
<1>7. ASSUME NEW a \in Actors, Open(a) PROVE ReenterInv'
  <2>1. /\ halt' = Blank /\ pc[a] = "open" /\ pc' = [pc EXCEPT ![a] = "flush"]
        /\ UNCHANGED <<out, cont>>
    BY <1>7 DEF Open, Goto
  <2>2. ~KillHalt' /\ Freezes(halt')
    BY <2>1, KillBodies DEF KillHalt, Freezes
  <2> QED BY <1>1, <2>1, <2>2 DEF ReenterInv, KillsFreeze, FreshSeesNone
<1>8. ASSUME NEW a \in Actors, Flush(a) PROVE ReenterInv'
  <2>1. /\ halt' = halt \/ halt' = out[a]
        /\ pc[a] = "flush" /\ pc' = [pc EXCEPT ![a] = cont[a]]
        /\ out' = [out EXCEPT ![a] = NoHalt] /\ cont' = [cont EXCEPT ![a] = "idle"]
    BY <1>8 DEF Flush
  <2>2. CASE a = Operator
    <3>1. out[a].by # "kill"
      BY <1>1, <2>2 DEF KillsFreeze
    <3>2. \A p \in Procs : pc'[p] = pc[p] /\ out'[p] = out[p] /\ cont'[p] = cont[p]
      BY <1>0, <1>1, <2>1, <2>2
    <3>3. (KillHalt' => KillHalt) /\ Freezes(halt')
      BY <1>1, <2>1, <3>1 DEF KillHalt, KillsFreeze, Freezes
    <3>4. FreshSeesNone'
      BY <1>1, <3>2, <3>3 DEF FreshSeesNone, Fresh
    <3>5. out'[Operator].by # "kill"
      BY <1>1, <2>1, <2>2, KillBodies
    <3> QED BY <1>1, <3>2, <3>3, <3>4, <3>5 DEF ReenterInv, KillsFreeze
  <2>3. CASE a \in Procs
    <3>1. Only(a) /\ pc'[a] = cont[a] /\ out'[a] = NoHalt
      BY <1>1, <2>1
    <3>2. cont[a] \in {"idle", "kflatten", "rflatten"}
      BY <2>1, <2>3 DEF BudgetInv, RunAccounts, Writing
    <3>3. Freezes(halt') /\ Freezes(out'[a])
      BY <1>1, <2>1, <2>3, <3>1, KillBodies DEF KillsFreeze, Freezes
    <3>4. ~Fresh(a)'
      BY <3>1, <3>2 DEF Fresh
    <3> QED BY <1>2, <1>3, <2>1, <2>3, <3>1, <3>3, <3>4
  <2> QED BY <2>2, <2>3 DEF Actors
<1>9. ASSUME NEW c \in Cycles, Cycle(c) PROVE ReenterInv'
  <2>0. c \in Procs
    BY DEF Procs
  <2>1. CASE StartCycle(c)
    <3>1. Others(c)
      BY <2>1, AloneStarts DEF StartCycle
    <3>2. \/ Goto(c, "account") /\ ~KillHalt
          \/ Goto(c, "account_exits") /\ ~KillHalt
          \/ Goto(c, "recover")
      BY <1>1, <2>1 DEF StartCycle, check_halt, halt_mode, KillHalt, KillsFreeze, Freezes
    <3> QED BY <1>4, <2>0, <2>1, <3>1, <3>2 DEF StartCycle, Labels
  <2>2. CASE Account(c)
    <3>1. pc[c] \in {"account", "account_exits"} /\ ~KillHalt /\ Others(c)
      BY <1>1, <1>2, <2>0, <2>2 DEF Account, FreshSeesNone, Fresh
    <3>2. \/ Rewrite(c, KillBody, "kflatten")
          \/ \E l \in {"trade", "exits", "idle"} : Goto(c, l)
      BY <2>2 DEF Account
    <3>3. UNCHANGED halt /\ Freezes(KillBody)
      BY <2>2, KillBodies DEF Account, Freezes
    <3>4. CASE Rewrite(c, KillBody, "kflatten")
      BY <1>5, <2>0, <3>1, <3>3, <3>4
    <3>5. CASE \E l \in {"trade", "exits", "idle"} : Goto(c, l)
      BY <1>4, <2>0, <3>1, <3>3, <3>5 DEF Labels
    <3> QED BY <3>2, <3>4, <3>5
  <2>3. CASE KillFlatten(c) \/ KillVerify(c) \/ CycleRecovers(c)
    <3>1. /\ Others(c) /\ UNCHANGED halt
          /\ \E l \in {"kverify", "idle", "kflatten", "mark", "bump"} : Goto(c, l)
      BY <1>2, <2>0, <2>3 DEF KillFlatten, KillVerify, CycleRecovers
    <3> QED BY <1>4, <2>0, <3>1 DEF Labels
  <2>4. CASE Mark(c)
    <3>1. Others(c) /\ UNCHANGED halt
      BY <1>2, <2>0, <2>4 DEF Mark
    <3> DEFINE body == IF halt.pending THEN halt ELSE [halt EXCEPT !.pending = TRUE, !.attempts = 0]
    <3>2. Goto(c, "idle") \/ Rewrite(c, body, "idle")
      BY <2>4 DEF Mark
    <3>3. Freezes(body)
      BY <1>1, RewrittenAuthor DEF KillsFreeze, Freezes
    <3> HIDE DEF body
    <3> QED BY <1>4, <1>5, <2>0, <3>1, <3>2, <3>3 DEF Labels
  <2>5. CASE CheckEntry(c) \/ SubmitEntry(c) \/ EndCycle(c)
    <3>1. Fresh(c) /\ Others(c) /\ UNCHANGED halt
      BY <1>2, <2>0, <2>5 DEF CheckEntry, SubmitEntry, EndCycle, Fresh
    <3>2. \E l \in {"submit", "trade", "idle"} : Goto(c, l)
      BY <2>5 DEF CheckEntry, SubmitEntry, EndCycle
    <3> QED BY <1>1, <1>4, <2>0, <3>1, <3>2 DEF Labels, FreshSeesNone
  <2>6. CASE StrategyExit(c)
    BY <1>1, <1>6, <2>6 DEF StrategyExit, procVars, KillsFreeze, KillHalt
  <2> QED BY <1>9, <2>1, <2>2, <2>3, <2>4, <2>5, <2>6 DEF Cycle
<1>10. CASE StartJob
  <2>1. Others(Job) /\ Goto(Job, "bump") /\ UNCHANGED halt /\ Job \in Procs
    BY <1>10, AloneStarts DEF StartJob, Procs
  <2> QED BY <1>4, <2>1 DEF Labels
<1>11. ASSUME NEW p \in Procs, Recovery(p) PROVE ReenterInv'
  <2>1. Others(p) /\ UNCHANGED halt
    BY <1>2, <1>11 DEF Recovery, Bump, RecoveryFlatten, RecoveryVerify, Unmark
  <2>2. \/ \E l \in {"rflatten", "rverify", "unmark", "idle"} : Goto(p, l)
        \/ Rewrite(p, [halt EXCEPT !.attempts = @ + 1], "rflatten")
        \/ Rewrite(p, [halt EXCEPT !.pending = FALSE, !.attempts = 0], "idle")
    BY <1>11 DEF Recovery, Bump, RecoveryFlatten, RecoveryVerify, Unmark
  <2>3. CASE \E l \in {"rflatten", "rverify", "unmark", "idle"} : Goto(p, l)
    BY <1>4, <2>1, <2>3 DEF Labels
  <2>4. CASE Rewrite(p, [halt EXCEPT !.attempts = @ + 1], "rflatten")
    <3>1. Freezes([halt EXCEPT !.attempts = @ + 1])
      BY <1>1, RewrittenAuthor DEF KillsFreeze, Freezes
    <3> QED BY <1>5, <2>1, <2>4, <3>1
  <2>5. CASE Rewrite(p, [halt EXCEPT !.pending = FALSE, !.attempts = 0], "idle")
    <3>1. Freezes([halt EXCEPT !.pending = FALSE, !.attempts = 0])
      BY <1>1, RewrittenAuthor DEF KillsFreeze, Freezes
    <3> QED BY <1>5, <2>1, <2>5, <3>1
  <2> QED BY <2>2, <2>3, <2>4, <2>5
<1>12. CASE Environment
  <2>1. ASSUME NEW mode \in {"exits", "freeze"}, OperatorEngages(mode) PROVE ReenterInv'
    <3>1. /\ Engaged("manual", mode).by # "kill"
          /\ \A p \in Procs : pc'[p] = pc[p] /\ cont'[p] = cont[p] /\ out'[p] = out[p]
      BY <1>0, <1>1, <2>1, KillBodies DEF OperatorEngages, Rewrite
    <3>2. (KillHalt' => KillHalt) /\ Freezes(halt') /\ out'[Operator].by # "kill"
      BY <1>1, <2>1, <3>1 DEF OperatorEngages, Rewrite, KillHalt, KillsFreeze, Freezes
    <3> QED BY <1>1, <3>1, <3>2 DEF ReenterInv, KillsFreeze, FreshSeesNone, Fresh
  <2>2. CASE OperatorClears
    BY <1>6, <2>2, KillBodies DEF OperatorClears, KillHalt, Freezes
  <2>3. ASSUME \/ \E s \in Symbols : BrokerCloses(s)
               \/ LossGrows \/ Clock
        PROVE  ReenterInv'
    BY <1>1, <1>6, <2>3 DEF BrokerCloses, LossGrows, Clock, procVars, KillsFreeze, KillHalt
  <2>4. ASSUME NEW p \in Procs, Crash(p) PROVE ReenterInv'
    BY <1>2, <1>4, <2>4 DEF Crash, Labels
  <2> QED BY <1>12, <2>1, <2>2, <2>3, <2>4 DEF Environment
<1>13. CASE UNCHANGED vars
  BY <1>1, <1>6, <1>13 DEF vars, procVars, KillsFreeze, KillHalt
<1> QED BY <1>7, <1>8, <1>9, <1>10, <1>11, <1>12, <1>13 DEF Next

LEMMA ReenterHolds == ~Overlap => (Spec => []ReenterInv)
<1> SUFFICES ASSUME ~Overlap PROVE Spec => []ReenterInv
  OBVIOUS
<1>1. Init => ReenterInv
  BY ActorsAssumption, KillBodies
  DEF Init, ReenterInv, KillsFreeze, Freezes, FreshSeesNone, Fresh, Actors
<1>2. TypeOK /\ BudgetInv /\ BudgetInv' /\ ReenterInv /\ [Next]_vars => ReenterInv'
  BY ReenterStep
<1> QED BY <1>1, <1>2, Typing, BudgetHolds, PTL DEF Spec

\* The halt that the kill switch engages stops every later cycle before its
\* loss check (_bootstrap_cycle), so the kill switch never engages over its
\* own live halt and never wipes the marker and the count of attempts in it.
THEOREM KillsOnce == ~Overlap => (Spec => KillNeverReenters)
<1> SUFFICES ASSUME ~Overlap PROVE Spec => KillNeverReenters
  OBVIOUS
<1>1. ASSUME ReenterInv
      PROVE  [\A c \in Cycles : pc[c] = "open" /\ pc'[c] = "flush" /\ cont[c] = "kflatten"
                => ~(halt.on /\ halt.by = "kill")]_vars
  BY <1>1 DEF ReenterInv, FreshSeesNone, Fresh, KillHalt, Procs
<1> QED BY <1>1, ReenterHolds, PTL DEF KillNeverReenters

-----------------------------------------------------------------------------
(* A book left open is marked.  Until a process is killed, what the kill   *)
(* switch left is marked or still being worked on, and only an empty book  *)
(* loses its marker.                                                       *)

Unkilled == budget.crashes = MaxCrashes
Working(p) == pc[p] \in {"kflatten", "kverify", "mark"} \/ (pc[p] = "open" /\ out[p].pending)
Marked == KillHalt /\ book # {} => halt.pending \/ \E p \in Procs : Working(p)
Emptied(p) ==
  \/ pc[p] = "unmark"
  \/ Writing(p) /\ out[p].by = "kill" /\ ~out[p].pending /\ cont[p] # "kflatten"
EmptiedFirst == \A p \in Procs : Emptied(p) => book = {}

MarkedInv == budget.crashes <= MaxCrashes /\ (Unkilled => Marked /\ EmptiedFirst)

LEMMA MarkedStep ==
  ASSUME ~Overlap, TypeOK, BudgetInv, ReenterInv, MarkedInv, [Next]_vars
  PROVE  MarkedInv'
<1> DEFINE Others(p) == \A q \in Procs \ {p} : pc[q] = "idle"
           Only(p) == \A a \in Actors \ {p} : pc'[a] = pc[a] /\ cont'[a] = cont[a] /\ out'[a] = out[a]
<1>0. \A p \in Procs : p \in Actors /\ p # Operator
  BY ActorsAssumption DEF Actors
<1>1. /\ OneAtATime /\ OperatorUnmarked /\ KillsFreeze /\ FreshSeesNone
      /\ halt \in Body /\ out \in [Actors -> Body] /\ Operator \in Actors
      /\ pc \in [Actors -> Labels] /\ cont \in [Actors -> Labels]
      /\ budget \in [crashes : Nat, commands : Nat, breaches : Nat]
  BY DEF ReenterInv, BudgetInv, TypeOK, Actors
<1>2. \A p \in Procs : pc[p] # "idle" => Others(p)
  BY <1>1, Alone
\* Every step but a crash leaves the bound on crashes.
<1>3. ASSUME budget'.crashes = budget.crashes, Unkilled => Marked' /\ EmptiedFirst'
      PROVE  MarkedInv'
  BY <1>3 DEF MarkedInv, Unkilled
<1>4. Unkilled => Marked /\ EmptiedFirst
  BY DEF MarkedInv
\* A step of one process, the others being idle.
<1>5. ASSUME NEW p \in Procs, Others(p), Only(p), budget'.crashes = budget.crashes,
             Unkilled /\ KillHalt' /\ book' # {} => halt'.pending \/ Working(p)',
             Unkilled /\ Emptied(p)' => book' = {}
      PROVE  MarkedInv'
  <2>1. \A q \in Procs \ {p} : pc'[q] = "idle"
    BY <1>0, <1>5
  <2>2. Unkilled => EmptiedFirst'
    BY <1>5, <2>1 DEF EmptiedFirst, Emptied, Writing
  <2>3. Unkilled => Marked'
    BY <1>5 DEF Marked
  <2> QED BY <1>3, <1>5, <2>2, <2>3
\* A process that is not at work on the halt, the others being idle, has a
\* marked one before it.
<1>6. ASSUME NEW p \in Procs, Others(p), ~Working(p), Unkilled, KillHalt, book # {}
      PROVE  halt.pending
  BY <1>4, <1>6 DEF Marked, Working
\* A step that leaves the file and what is about to be written to it.
<1>7. ASSUME NEW p \in Procs, NEW l \in Labels \ {"open", "flush", "unmark"}, Others(p), Goto(p, l),
             UNCHANGED <<halt, budget>>, book' \subseteq book,
             l \in {"kflatten", "kverify", "mark"} \/ ~Working(p) \/ book' = {}
      PROVE  MarkedInv'
  <2>1. Only(p) /\ pc'[p] = l
    BY <1>0, <1>1, <1>7 DEF Goto
  <2>2. ~Emptied(p)' /\ (l \in {"kflatten", "kverify", "mark"} => Working(p)')
    BY <1>7, <2>1 DEF Emptied, Writing, Working
  <2>3. Unkilled /\ KillHalt' /\ book' # {} => halt'.pending \/ Working(p)'
    <3>1. KillHalt' <=> KillHalt
      BY <1>7 DEF KillHalt
    <3> QED BY <1>6, <1>7, <2>2, <3>1
  <2> QED BY <1>5, <1>7, <2>1, <2>2, <2>3
\* A step that begins to rewrite the file.
<1>8. ASSUME NEW p \in Procs, NEW body, NEW next, Rewrite(p, body, next), Others(p),
             UNCHANGED <<halt, book, budget>>,
             Unkilled /\ KillHalt /\ book # {} => halt.pending \/ body.pending,
             Unkilled /\ body.by = "kill" /\ ~body.pending /\ next # "kflatten" => book = {}
      PROVE  MarkedInv'
  <2>1. Only(p) /\ pc'[p] = "open" /\ cont'[p] = next /\ out'[p] = body
    BY <1>0, <1>1, <1>8 DEF Rewrite
  <2>2. KillHalt' <=> KillHalt
    BY <1>8 DEF KillHalt
  <2> QED BY <1>5, <1>8, <2>1, <2>2 DEF Emptied, Writing, Working
\* A step that only the file or the book may feel.
<1>9. ASSUME UNCHANGED <<pc, cont, out>>, budget'.crashes = budget.crashes,
             book' \subseteq book, KillHalt' => UNCHANGED halt
      PROVE  MarkedInv'
  <2>1. ASSUME Unkilled PROVE Marked' /\ EmptiedFirst'
    <3>1. EmptiedFirst'
      BY <1>4, <1>9, <2>1 DEF EmptiedFirst, Emptied, Writing
    <3>2. Marked'
      BY <1>4, <1>9, <2>1 DEF Marked, KillHalt, Working
    <3> QED BY <3>1, <3>2
  <2> QED BY <1>3, <1>9, <2>1
<1>10. ASSUME NEW a \in Actors, Open(a) PROVE MarkedInv'
  <2>1. /\ halt' = Blank /\ pc[a] = "open" /\ pc' = [pc EXCEPT ![a] = "flush"]
        /\ UNCHANGED <<out, cont, book, budget>>
    BY <1>10 DEF Open, Goto
  <2>2. ~KillHalt'
    BY <2>1, KillBodies DEF KillHalt
  <2>3. \A p \in Procs : Emptied(p)' => Emptied(p)
    BY <1>0, <1>1, <2>1 DEF Emptied, Writing
  <2> QED BY <1>3, <1>4, <2>1, <2>2, <2>3 DEF Marked, EmptiedFirst
<1>11. ASSUME NEW a \in Actors, Flush(a) PROVE MarkedInv'
  <2>1. /\ halt' = halt \/ halt' = out[a]
        /\ pc[a] = "flush" /\ pc' = [pc EXCEPT ![a] = cont[a]]
        /\ out' = [out EXCEPT ![a] = NoHalt] /\ cont' = [cont EXCEPT ![a] = "idle"]
        /\ UNCHANGED <<book, budget>>
    BY <1>11 DEF Flush
  <2>2. CASE a = Operator
    <3>1. out[a].by # "kill"
      BY <1>1, <2>2 DEF KillsFreeze
    <3>2. \A p \in Procs : pc'[p] = pc[p] /\ out'[p] = out[p] /\ cont'[p] = cont[p]
      BY <1>0, <1>1, <2>1, <2>2
    <3>3. KillHalt' => UNCHANGED halt
      BY <2>1, <3>1 DEF KillHalt
    <3>4. ASSUME Unkilled PROVE Marked' /\ EmptiedFirst'
      <4>1. \A p \in Procs : (Working(p)' <=> Working(p)) /\ (Emptied(p)' <=> Emptied(p))
        BY <3>2 DEF Working, Emptied, Writing
      <4> QED BY <1>4, <2>1, <3>3, <3>4, <4>1 DEF Marked, EmptiedFirst, KillHalt
    <3> QED BY <1>3, <2>1, <3>4
  <2>3. CASE a \in Procs
    <3>1. Only(a) /\ pc'[a] = cont[a] /\ out'[a] = NoHalt
      BY <1>1, <2>1
    <3>2. cont[a] \in {"idle", "kflatten", "rflatten"}
      BY <2>1, <2>3 DEF BudgetInv, RunAccounts, Writing
    <3>3. ~KillHalt
      BY <1>1, <2>1, <2>3 DEF FreshSeesNone, Fresh
    <3>4. ASSUME Unkilled, KillHalt', book' # {} PROVE halt'.pending \/ Working(a)'
      <4>1. halt' = out[a] /\ out[a].by = "kill"
        BY <2>1, <3>3, <3>4 DEF KillHalt
      <4>2. ~Emptied(a)
        BY <1>4, <2>1, <2>3, <3>4 DEF EmptiedFirst
      <4> QED BY <2>1, <3>1, <4>1, <4>2 DEF Emptied, Writing, Working
    <3>5. ~Emptied(a)'
      BY <3>1, <3>2 DEF Emptied, Writing
    <3> QED BY <1>2, <1>5, <2>1, <2>3, <3>1, <3>4, <3>5
  <2> QED BY <2>2, <2>3 DEF Actors
<1>12. ASSUME NEW c \in Cycles, Cycle(c) PROVE MarkedInv'
  <2>0. c \in Procs
    BY DEF Procs
  <2>1. CASE StartCycle(c)
    <3>1. Others(c) /\ ~Working(c) /\ UNCHANGED <<halt, book, budget>>
      BY <2>0, <2>1, AloneStarts DEF StartCycle, Working
    <3>2. \E l \in {"account", "account_exits", "recover"} : Goto(c, l)
      BY <2>1 DEF StartCycle
    <3> QED BY <1>7, <2>0, <3>1, <3>2 DEF Labels
  <2>2. CASE Account(c)
    <3>1. /\ pc[c] \in {"account", "account_exits"} /\ ~KillHalt /\ Others(c) /\ ~Working(c)
          /\ UNCHANGED <<halt, book, budget>>
      BY <1>1, <1>2, <2>0, <2>2 DEF Account, FreshSeesNone, Fresh, Working
    <3>2. \/ Rewrite(c, KillBody, "kflatten")
          \/ \E l \in {"trade", "exits", "idle"} : Goto(c, l)
      BY <2>2 DEF Account
    <3>3. CASE Rewrite(c, KillBody, "kflatten")
      BY <1>8, <2>0, <3>1, <3>3
    <3>4. CASE \E l \in {"trade", "exits", "idle"} : Goto(c, l)
      BY <1>7, <2>0, <3>1, <3>4 DEF Labels
    <3> QED BY <3>2, <3>3, <3>4
  <2>3. CASE KillFlatten(c)
    BY <1>2, <1>7, <2>0, <2>3 DEF KillFlatten, Labels
  <2>4. CASE KillVerify(c)
    BY <1>2, <1>7, <2>0, <2>4 DEF KillVerify, Labels
  <2>5. CASE CycleRecovers(c)
    <3>1. Others(c) /\ ~Working(c) /\ UNCHANGED <<halt, book, budget>>
      BY <1>2, <2>0, <2>5 DEF CycleRecovers, Working
    <3>2. \E l \in {"bump", "idle"} : Goto(c, l)
      BY <2>5 DEF CycleRecovers
    <3> QED BY <1>7, <2>0, <3>1, <3>2 DEF Labels
  <2>6. CASE Mark(c)
    <3>1. Others(c) /\ UNCHANGED <<halt, book, budget>> /\ pc[c] = "mark"
      BY <1>2, <2>0, <2>6 DEF Mark
    <3>2. CASE ~halt.on
      <4>1. ~KillHalt' /\ Goto(c, "idle")
        BY <2>6, <3>1, <3>2 DEF Mark, KillHalt
      <4>2. Only(c) /\ pc'[c] = "idle"
        BY <1>0, <1>1, <2>0, <4>1 DEF Goto
      <4> QED BY <1>5, <2>0, <3>1, <4>1, <4>2 DEF Emptied, Writing
    <3>3. CASE halt.on
      <4> DEFINE body == IF halt.pending THEN halt ELSE [halt EXCEPT !.pending = TRUE, !.attempts = 0]
      <4>1. Rewrite(c, body, "idle") /\ body.pending
        BY <1>1, <2>6, <3>3, RewrittenAuthor DEF Mark
      <4> HIDE DEF body
      <4> QED BY <1>8, <2>0, <3>1, <4>1
    <3> QED BY <3>2, <3>3
  <2>7. CASE CheckEntry(c) \/ SubmitEntry(c) \/ EndCycle(c)
    <3>1. Fresh(c) /\ Others(c) /\ UNCHANGED <<halt, budget>>
      BY <1>2, <2>0, <2>7 DEF CheckEntry, SubmitEntry, EndCycle, Fresh
    <3>2. PICK l \in {"submit", "trade", "idle"} : Goto(c, l)
      BY <2>7 DEF CheckEntry, SubmitEntry, EndCycle
    <3>3. ~KillHalt'
      BY <1>1, <2>0, <3>1 DEF FreshSeesNone, KillHalt
    <3>4. Only(c) /\ pc'[c] = l
      BY <1>0, <1>1, <2>0, <3>2 DEF Goto
    <3> QED BY <1>5, <2>0, <3>1, <3>3, <3>4 DEF Emptied, Writing
  <2>8. CASE StrategyExit(c)
    BY <1>9, <2>8 DEF StrategyExit, procVars
  <2> QED BY <1>12, <2>1, <2>2, <2>3, <2>4, <2>5, <2>6, <2>7, <2>8 DEF Cycle
<1>13. CASE StartJob
  <2>1. /\ Others(Job) /\ Goto(Job, "bump") /\ UNCHANGED <<halt, book, budget>> /\ Job \in Procs
        /\ ~Working(Job)
    BY <1>13, AloneStarts DEF StartJob, Procs, Working
  <2> QED BY <1>7, <2>1 DEF Labels
<1>14. ASSUME NEW p \in Procs, Recovery(p) PROVE MarkedInv'
  <2>1. /\ Others(p) /\ ~Working(p) /\ UNCHANGED <<halt, budget>> /\ book' \subseteq book
        /\ pc[p] \in {"bump", "rflatten", "rverify", "unmark"}
    BY <1>2, <1>14 DEF Recovery, Bump, RecoveryFlatten, RecoveryVerify, Unmark, Working
  <2>2. CASE \E l \in {"rflatten", "rverify", "idle"} : Goto(p, l)
    BY <1>7, <2>1, <2>2 DEF Labels
  <2>3. CASE Bump(p)
    <3> DEFINE body == [halt EXCEPT !.attempts = @ + 1]
    <3>1. body.by = halt.by /\ body.pending = halt.pending
      BY <1>1, RewrittenAuthor
    <3>2. Goto(p, "rflatten") \/ (halt.on /\ Rewrite(p, body, "rflatten") /\ UNCHANGED book)
      BY <2>3 DEF Bump
    <3> HIDE DEF body
    <3>3. Unkilled /\ KillHalt /\ book # {} => halt.pending
      BY <1>6, <2>1
    <3>4. CASE halt.on /\ Rewrite(p, body, "rflatten") /\ UNCHANGED book
      <4>1. body.by = "kill" => KillHalt
        BY <3>1, <3>4 DEF KillHalt
      <4> QED BY <1>8, <2>1, <3>1, <3>3, <3>4, <4>1
    <3> QED BY <2>2, <3>2, <3>4
  <2>4. CASE RecoveryVerify(p)
    <3>1. Goto(p, "idle") \/ (Goto(p, "unmark") /\ book = {})
      BY <2>4 DEF RecoveryVerify
    <3>2. CASE Goto(p, "unmark") /\ book = {}
      <4>1. Only(p) /\ book' = {}
        BY <1>0, <1>1, <2>1, <3>2 DEF Goto
      <4> QED BY <1>5, <2>1, <4>1
    <3> QED BY <2>2, <3>1, <3>2
  <2>5. CASE Unmark(p)
    <3> DEFINE body == [halt EXCEPT !.pending = FALSE, !.attempts = 0]
    <3>1. Unkilled => book = {}
      BY <1>4, <2>5 DEF EmptiedFirst, Emptied, Unmark
    <3>2. Goto(p, "idle") \/ (Rewrite(p, body, "idle") /\ UNCHANGED book)
      BY <2>5 DEF Unmark
    <3> HIDE DEF body
    <3> QED BY <1>8, <2>1, <2>2, <3>1, <3>2
  <2>6. CASE RecoveryFlatten(p)
    BY <2>2, <2>6 DEF RecoveryFlatten
  <2> QED BY <1>14, <2>3, <2>4, <2>5, <2>6 DEF Recovery
<1>15. CASE Environment
  <2>1. ASSUME NEW mode \in {"exits", "freeze"}, OperatorEngages(mode) PROVE MarkedInv'
    <3>1. /\ Engaged("manual", mode).by # "kill" /\ UNCHANGED book
          /\ \A p \in Procs : pc'[p] = pc[p] /\ cont'[p] = cont[p] /\ out'[p] = out[p]
          /\ budget'.crashes = budget.crashes
      BY <1>0, <1>1, <2>1, KillBodies DEF OperatorEngages, Rewrite
    <3>2. KillHalt' => UNCHANGED halt
      BY <2>1, <3>1 DEF OperatorEngages, KillHalt
    <3>3. ASSUME Unkilled PROVE Marked' /\ EmptiedFirst'
      <4>1. \A p \in Procs : (Working(p)' <=> Working(p)) /\ (Emptied(p)' <=> Emptied(p))
        BY <3>1 DEF Working, Emptied, Writing
      <4> QED BY <1>4, <3>1, <3>2, <3>3, <4>1 DEF Marked, EmptiedFirst, KillHalt
    <3> QED BY <1>3, <3>1, <3>3
  <2>2. CASE OperatorClears
    <3>1. ~KillHalt' /\ UNCHANGED <<pc, cont, out, book>> /\ budget'.crashes = budget.crashes
      BY <1>1, <2>2, KillBodies DEF OperatorClears, KillHalt
    <3> QED BY <1>9, <3>1
  <2>3. ASSUME \/ \E s \in Symbols : BrokerCloses(s)
               \/ LossGrows \/ Clock
        PROVE  MarkedInv'
    <3>1. UNCHANGED <<pc, cont, out, halt>> /\ book' \subseteq book /\ budget'.crashes = budget.crashes
      BY <1>1, <2>3 DEF BrokerCloses, LossGrows, Clock, procVars
    <3> QED BY <1>9, <3>1
  <2>4. ASSUME NEW p \in Procs, Crash(p) PROVE MarkedInv'
    <3>1. PICK k \in Nat : k = budget.crashes
      BY <1>1
    <3>2. budget'.crashes = k - 1 /\ k <= MaxCrashes
      BY <1>1, <2>4, <3>1 DEF Crash, MarkedInv
    <3> QED BY <3>2, NumbersAssumption DEF MarkedInv, Unkilled
  <2> QED BY <1>15, <2>1, <2>2, <2>3, <2>4 DEF Environment
<1>16. CASE UNCHANGED vars
  BY <1>9, <1>16 DEF vars, procVars
<1> QED BY <1>10, <1>11, <1>12, <1>13, <1>14, <1>15, <1>16 DEF Next

\* A kill switch that could not empty the book leaves it marked for the retry
\* job (mark_flatten_pending), and only an empty book loses the marker
\* (clear_flatten_pending), whatever the broker closed and the operator did.
THEOREM OpenBookIsMarked == ~Overlap => (Spec => []MarkedUnlessKilled)
<1> SUFFICES ASSUME ~Overlap PROVE Spec => []MarkedUnlessKilled
  OBVIOUS
<1>1. Init => MarkedInv
  BY NumbersAssumption, KillBodies
  DEF Init, MarkedInv, Marked, EmptiedFirst, Emptied, Writing, KillHalt, Actors
<1>2. TypeOK /\ BudgetInv /\ ReenterInv /\ MarkedInv /\ [Next]_vars => MarkedInv'
  BY MarkedStep
<1>3. MarkedInv => MarkedUnlessKilled
  BY DEF MarkedInv, Unkilled, Marked, Working, MarkedUnlessKilled, NoForgottenBook, AtRest, KillHalt
<1> QED BY <1>1, <1>2, <1>3, Typing, BudgetHolds, ReenterHolds, PTL DEF Spec

-----------------------------------------------------------------------------
(* The watchdog and the store.                                             *)

Line == Record \cup {Torn}

WatchTypeOK ==
  /\ today \in Nat /\ backend \in {"jsonl", "sqlite"} /\ equity \in Levels
  /\ file \in Seq(Line) /\ db \in Seq(Record) /\ acked \in [{"jsonl", "sqlite"} -> Seq(Line)]
  /\ unfinished \in BOOLEAN /\ (unfinished => file # <<>>)
  /\ highwater \in Levels \cup {0, Damaged}
  /\ completed \in BOOLEAN /\ ping \in [day : Nat, success : BOOLEAN]

\* What was acknowledged is what there is, less a line that may be unfinished.
Kept ==
  /\ acked["sqlite"] = db
  /\ Torn \notin Range(file) => acked["jsonl"] = IF unfinished THEN Front(file) ELSE file

\* Who has got so far as to end has appended since anybody was killed.
Settled == cycle = "end" \/ backend = "sqlite" => ~unfinished

\* The ends of cycles in the file are the ledger's own, and those of today true.
Ends ==
  \A i \in DOMAIN file :
    file[i] # Torn /\ file[i].event = "cycle_complete" =>
      backend = "jsonl" /\ file[i].day <= today /\ (file[i].day = today => finished)

\* The alarm of today is on record, and no later append can tear it.
IsAlarm(line) == line # Torn /\ line.event = "cycle_margin_low" /\ line.day = today
Alarmed ==
  /\ margins \in {0, 1}
  /\ margins = 1 =>
       \/ backend = "sqlite" /\ \E i \in DOMAIN db : IsAlarm(db[i])
       \/ /\ backend = "jsonl"
          /\ \E i \in DOMAIN file : IsAlarm(file[i]) /\ (unfinished => i # Len(file))

\* Who says that it completed reached the end today, and so did who said so.
Earned ==
  /\ cycle # "off" /\ completed => finished
  /\ ping.day <= today /\ (ping.success /\ ping.day = today => finished)

WatchInv ==
  /\ WatchTypeOK /\ Kept /\ Settled /\ Ends /\ Alarmed /\ Earned
  /\ SilenceIsCalm /\ NoNeedlessRerun

\* Front leaves out the last element.
LEMMA FrontOf ==
  ASSUME NEW s \in Seq(Line), s # <<>>
  PROVE  /\ Front(s) \in Seq(Line) /\ Len(Front(s)) = Len(s) - 1
         /\ \A i \in 1 .. Len(s) - 1 : Front(s)[i] = s[i]
<1>0. Len(s) \in Nat /\ Len(s) >= 1
  OBVIOUS
<1>1. 1 \in Int /\ Len(s) - 1 \in Int /\ \A i \in 1 .. Len(s) - 1 : s[i] \in Line
  BY <1>0
<1>2. /\ Front(s) \in Seq(Line)
      /\ Len(Front(s)) = IF 1 <= Len(s) - 1 THEN (Len(s) - 1) - 1 + 1 ELSE 0
      /\ \A i \in 1 .. (Len(s) - 1) - 1 + 1 : Front(s)[i] = s[1 + i - 1]
  BY <1>1, SubSeqProperties DEF Front
<1>3. Len(Front(s)) = Len(s) - 1
  <2>1. PICK len \in Nat : len = Len(s) /\ len >= 1
    BY <1>0
  <2>2. Len(Front(s)) = IF 1 <= len - 1 THEN (len - 1) - 1 + 1 ELSE 0
    BY <2>1, <1>2
  <2>3. Len(Front(s)) = len - 1
    BY <2>1, <2>2
  <2> QED BY <2>1, <2>3
<1>4. ASSUME NEW i \in 1 .. Len(s) - 1 PROVE Front(s)[i] = s[i]
  <2>1. i \in 1 .. (Len(s) - 1) - 1 + 1 /\ 1 + i - 1 = i
    BY <1>0
  <2> QED BY <2>1, <1>2
<1> QED BY <1>2, <1>3, <1>4

\* t is s with the line l at its end, or with its unfinished last line torn; every
\* other line is where it was.
Grown(s, open, l, t) ==
  /\ t \in Seq(Line) /\ t # <<>>
  /\ \A i \in DOMAIN t : t[i] \in {Torn, l} \/ (i \in DOMAIN s /\ t[i] = s[i])
  /\ \A i \in DOMAIN s : (open => i # Len(s)) => i \in DOMAIN t /\ t[i] = s[i] /\ i # Len(t)
  /\ Torn \notin Range(t) => ~open /\ Torn \notin Range(s) /\ t = Append(s, l) /\ Front(t) = s

\* JsonlStore.append does no more than that.
LEMMA AppendedTo ==
  ASSUME NEW s \in Seq(Line), NEW open \in BOOLEAN, open => s # <<>>, NEW l \in Line
  PROVE  Grown(s, open, l, AppendTo(s, open, l))
<1> DEFINE t == AppendTo(s, open, l)
<1>1. CASE open
  <2>1. Len(s) \in Nat /\ Len(s) >= 1
    BY <1>1
  <2>2. /\ Front(s) \in Seq(Line) /\ Len(Front(s)) = Len(s) - 1
        /\ \A i \in 1 .. Len(s) - 1 : Front(s)[i] = s[i]
    BY <1>1, FrontOf
  <2>3. Torn \in Line
    BY DEF Line
  <2>4. /\ t = Append(Front(s), Torn) /\ t \in Seq(Line) /\ Len(t) = Len(s)
        /\ t[Len(t)] = Torn
        /\ \A i \in 1 .. Len(s) - 1 : t[i] = s[i]
    BY <1>1, <2>1, <2>2, <2>3 DEF AppendTo
  <2>5. t # <<>> /\ DOMAIN t = 1 .. Len(t) /\ DOMAIN s = 1 .. Len(s) /\ Len(t) \in DOMAIN t
    BY <2>1, <2>4
  <2>6. Torn \in Range(t)
    BY <2>4, <2>5 DEF Range
  <2>7. ASSUME NEW i \in DOMAIN t PROVE t[i] \in {Torn, l} \/ (i \in DOMAIN s /\ t[i] = s[i])
    BY <2>1, <2>4, <2>5
  <2>8. ASSUME NEW i \in DOMAIN s, i # Len(s) PROVE i \in DOMAIN t /\ t[i] = s[i] /\ i # Len(t)
    BY <2>1, <2>4, <2>5, <2>8
  <2> QED BY <1>1, <2>4, <2>5, <2>6, <2>7, <2>8 DEF Grown
<1>2. CASE ~open
  <2>1. /\ t = Append(s, l) /\ t \in Seq(Line) /\ Len(t) = Len(s) + 1 /\ t[Len(t)] = l
        /\ \A i \in 1 .. Len(s) : t[i] = s[i]
    BY <1>2 DEF AppendTo
  <2>2. t # <<>> /\ DOMAIN t = 1 .. Len(t) /\ DOMAIN s = 1 .. Len(s) /\ Len(s) \in Nat
    BY <2>1
  <2>3. Front(t) = s
    BY <2>1, <2>2 DEF Front
  <2>4. Torn \in Range(s) => Torn \in Range(t)
    BY <2>1, <2>2 DEF Range
  <2> QED BY <1>2, <2>1, <2>2, <2>3, <2>4 DEF Grown
<1> QED BY <1>1, <1>2

\* RemoveAt takes out the one element and keeps every other.
LEMMA RemovedAt ==
  ASSUME NEW s \in Seq(Line), NEW k \in DOMAIN s, NEW t, t = RemoveAt(s, k)
  PROVE  /\ t \in Seq(Line)
         /\ \A i \in DOMAIN t : \E j \in DOMAIN s : t[i] = s[j]
         /\ \A j \in DOMAIN s : j # k => \E i \in DOMAIN t : t[i] = s[j]
<1>1. k \in 1 .. Len(s) /\ Len(s) \in Nat
  OBVIOUS
<1>2. /\ SubSeq(s, 1, k - 1) \in Seq(Line) /\ Len(SubSeq(s, 1, k - 1)) = k - 1
      /\ \A i \in 1 .. k - 1 : SubSeq(s, 1, k - 1)[i] = s[i]
  BY <1>1
<1>3. /\ SubSeq(s, k + 1, Len(s)) \in Seq(Line) /\ Len(SubSeq(s, k + 1, Len(s))) = Len(s) - k
      /\ \A i \in 1 .. Len(s) - k : SubSeq(s, k + 1, Len(s))[i] = s[k + i]
  BY <1>1
<1>4. /\ t \in Seq(Line) /\ Len(t) = Len(s) - 1
      /\ \A i \in 1 .. Len(s) - 1 : t[i] = IF i < k THEN s[i] ELSE s[i + 1]
  <2> DEFINE left == SubSeq(s, 1, k - 1)
             right == SubSeq(s, k + 1, Len(s))
  <2>1. t = left \o right
    BY DEF RemoveAt
  <2> HIDE DEF left, right
  <2>2. /\ left \in Seq(Line) /\ Len(left) = k - 1 /\ right \in Seq(Line) /\ Len(right) = Len(s) - k
        /\ \A i \in 1 .. k - 1 : left[i] = s[i]
        /\ \A i \in 1 .. Len(s) - k : right[i] = s[k + i]
    BY <1>2, <1>3 DEF left, right
  <2>3. left \o right \in Seq(Line) /\ Len(left \o right) = Len(left) + Len(right)
    BY <2>2, ConcatProperties
  <2>4. \A i \in 1 .. Len(left) + Len(right) :
          (left \o right)[i] = IF i <= Len(left) THEN left[i] ELSE right[i - Len(left)]
    BY <2>2, ConcatProperties
  <2>5. ASSUME NEW i \in 1 .. Len(s) - 1 PROVE t[i] = IF i < k THEN s[i] ELSE s[i + 1]
    <3>1. CASE i < k
      BY <3>1, <1>1, <2>1, <2>2, <2>4
    <3>2. CASE i >= k
      <4>1. i - (k - 1) \in 1 .. Len(s) - k /\ k + (i - (k - 1)) = i + 1
        BY <3>2, <1>1
      <4>2. i \in 1 .. Len(left) + Len(right) /\ ~(i <= Len(left)) /\ i - Len(left) = i - (k - 1)
        BY <3>2, <1>1, <2>2
      <4>3. t[i] = right[i - (k - 1)]
        BY <4>2, <2>1, <2>4
      <4>4. right[i - (k - 1)] = s[i + 1]
        BY <4>1, <2>2
      <4> QED BY <4>3, <4>4, <3>2, <1>1
    <3> QED BY <3>1, <3>2, <1>1
  <2>6. Len(t) = Len(s) - 1
    BY <2>1, <2>2, <2>3, <1>1
  <2> QED BY <2>1, <2>3, <2>5, <2>6
<1>5. ASSUME NEW j \in DOMAIN s, j # k PROVE \E i \in DOMAIN t : t[i] = s[j]
  <2>1. CASE j < k
    BY <2>1, <1>1, <1>4, <1>5
  <2>2. CASE j > k
    <3>1. j - 1 \in 1 .. Len(s) - 1 /\ ~(j - 1 < k) /\ (j - 1) + 1 = j
      BY <2>2, <1>1, <1>5
    <3> QED BY <3>1, <1>4
  <2> QED BY <2>1, <2>2, <1>1, <1>5
<1>6. ASSUME NEW i \in DOMAIN t PROVE \E j \in DOMAIN s : t[i] = s[j]
  <2>1. i \in 1 .. Len(s) - 1 /\ i \in DOMAIN s /\ i + 1 \in DOMAIN s
    BY <1>1, <1>4
  <2> QED BY <2>1, <1>4
<1> QED BY <1>4, <1>5, <1>6

\* The lines that no append can tear are still there.
Lasting ==
  /\ \A i \in DOMAIN file :
       (unfinished => i # Len(file)) =>
         i \in DOMAIN file' /\ file'[i] = file[i] /\ (unfinished' => i # Len(file'))
  /\ \A i \in DOMAIN db : i \in DOMAIN db' /\ db'[i] = db[i]

LedgerTyped ==
  /\ file \in Seq(Line) /\ db \in Seq(Record) /\ acked \in [{"jsonl", "sqlite"} -> Seq(Line)]
  /\ unfinished \in BOOLEAN /\ (unfinished => file # <<>>)

\* A record that its process has written, in either ledger.
LEMMA AppendKeeps ==
  ASSUME WatchInv, NEW kind \in {"jsonl", "sqlite"}, NEW r \in Record, append(kind, r),
         UNCHANGED <<today, backend>>, finished => finished',
         r.event = "cycle_complete" => kind = backend /\ r.day = today /\ finished'
  PROVE  /\ LedgerTyped' /\ Kept' /\ Ends' /\ Lasting
         /\ unfinished' = IF kind = "jsonl" THEN FALSE ELSE unfinished
<1> USE DEF WatchInv, WatchTypeOK
<1>0. r \in Line /\ WatchAssumption
  BY WatchAssumption DEF Line
<1>1. CASE kind = "sqlite"
  <2>1. db' = Append(db, r) /\ UNCHANGED <<file, unfinished>>
    BY <1>1 DEF append
  <2>2. /\ acked' \in [{"jsonl", "sqlite"} -> Seq(Line)]
        /\ acked'["sqlite"] = Append(acked["sqlite"], r) /\ acked'["jsonl"] = acked["jsonl"]
    BY <1>0, <1>1 DEF append
  <2>3. db' \in Seq(Record) /\ \A i \in DOMAIN db : i \in DOMAIN db' /\ db'[i] = db[i]
    BY <2>1
  <2>4. Kept'
    BY <2>1, <2>2 DEF Kept
  <2>5. Ends'
    BY <2>1 DEF Ends
  <2> QED BY <1>1, <2>1, <2>2, <2>3, <2>4, <2>5 DEF LedgerTyped, Lasting
<1>2. CASE kind = "jsonl"
  <2>1. file' = AppendTo(file, unfinished, r) /\ unfinished' = FALSE /\ db' = db
    BY <1>2 DEF append
  <2>2. /\ acked' \in [{"jsonl", "sqlite"} -> Seq(Line)]
        /\ acked'["jsonl"] = Append(acked["jsonl"], r) /\ acked'["sqlite"] = acked["sqlite"]
    BY <1>0, <1>2 DEF append
  <2> HIDE DEF WatchInv, WatchTypeOK
  <2>0. file \in Seq(Line) /\ unfinished \in BOOLEAN /\ (unfinished => file # <<>>)
    BY DEF WatchInv, WatchTypeOK
  <2>3. Grown(file, unfinished, r, file')
    BY <2>0, <2>1, <1>0, AppendedTo
  <2>4. Kept'
    BY <2>1, <2>2, <2>3 DEF Kept, WatchInv, WatchTypeOK, Grown
  <2>5. Ends'
    <3>1. ASSUME NEW i \in DOMAIN file', file'[i] # Torn, file'[i].event = "cycle_complete"
          PROVE  backend' = "jsonl" /\ file'[i].day <= today' /\ (file'[i].day = today' => finished')
      <4>1. CASE file'[i] = r
        <5>1. r.day = today /\ kind = backend /\ finished' /\ today \in Nat
          BY <4>1, <3>1 DEF WatchInv, WatchTypeOK
        <5> QED BY <5>1, <4>1, <1>2
      <4>2. CASE i \in DOMAIN file /\ file'[i] = file[i]
        BY <4>2, <3>1 DEF Ends, WatchInv
      <4> QED BY <4>1, <4>2, <3>1, <2>3 DEF Grown
    <3> QED BY <3>1 DEF Ends
  <2>6. LedgerTyped' /\ Lasting
    BY <2>1, <2>2, <2>3 DEF LedgerTyped, Lasting, WatchInv, WatchTypeOK, Grown
  <2> QED BY <1>2, <2>1, <2>4, <2>5, <2>6
<1> QED BY <1>1, <1>2

\* A record whose process was killed within the append.
LEMMA KilledKeeps ==
  ASSUME WatchInv, NEW r \in Record, KilledAppending(backend, r),
         UNCHANGED <<today, backend>>, finished => finished',
         r.event = "cycle_complete" => r.day = today /\ (file' # file => finished')
  PROVE  /\ LedgerTyped' /\ Kept' /\ Ends' /\ Lasting
         /\ backend = "sqlite" => unfinished' = unfinished
<1> USE DEF WatchInv, WatchTypeOK
<1>0. r \in Line /\ Torn \in Line
  BY DEF Line
<1>1. CASE UNCHANGED <<file, unfinished>>
  <2>1. UNCHANGED <<file, unfinished, db, acked>>
    BY <1>1 DEF KilledAppending
  <2>2. Kept' /\ Ends' /\ LedgerTyped' /\ Lasting
    BY <2>1 DEF Kept, Ends, LedgerTyped, Lasting
  <2> QED BY <2>1, <2>2
<1>2. CASE ~UNCHANGED <<file, unfinished>>
  <2>1. /\ backend = "jsonl" /\ unfinished' = TRUE /\ UNCHANGED <<db, acked>>
        /\ file' \in {AppendTo(file, unfinished, l) : l \in {r, Torn}}
    BY <1>2 DEF KilledAppending
  <2>2. PICK l \in {r, Torn} : file' = AppendTo(file, unfinished, l)
    BY <2>1
  <2> HIDE DEF WatchInv, WatchTypeOK
  <2>0. file \in Seq(Line) /\ unfinished \in BOOLEAN /\ (unfinished => file # <<>>)
    BY DEF WatchInv, WatchTypeOK
  <2> l \in Line
    BY <1>0
  <2>3. Grown(file, unfinished, l, file')
    BY <2>0, <2>2, AppendedTo
  <2>4. Kept'
    BY <2>1, <2>3 DEF Kept, WatchInv, WatchTypeOK, Grown
  <2>5. Ends'
    <3>1. CASE file' = file
      BY <3>1 DEF Ends, WatchInv, WatchTypeOK
    <3>2. CASE file' # file
      BY <3>2, <2>1, <2>2, <2>3 DEF Ends, WatchInv, WatchTypeOK, Grown
    <3> QED BY <3>1, <3>2
  <2>6. LedgerTyped' /\ Lasting
    BY <2>1, <2>3 DEF LedgerTyped, Lasting, WatchInv, WatchTypeOK, Grown
  <2> QED BY <2>1, <2>4, <2>5, <2>6
<1> QED BY <1>1, <1>2

\* A torn line that is deleted was nobody's record.
LEMMA RepairKeeps ==
  ASSUME WatchInv, Repair
  PROVE  LedgerTyped' /\ Kept' /\ Ends' /\ Alarmed' /\ unfinished' = FALSE
<1> USE DEF WatchInv, WatchTypeOK
<1>1. PICK k \in DOMAIN file : file[k] = Torn /\ file' = RemoveAt(file, k)
  BY DEF Repair
<1>2. /\ unfinished' = FALSE /\ UNCHANGED <<db, backend, today, finished, margins>>
      /\ acked' = [acked EXCEPT !["jsonl"] = file']
  BY DEF Repair, world
<1>3. /\ file' \in Seq(Line)
      /\ \A i \in DOMAIN file' : \E j \in DOMAIN file : file'[i] = file[j]
      /\ \A j \in DOMAIN file : j # k => \E i \in DOMAIN file' : file'[i] = file[j]
  BY <1>1, RemovedAt
<1>4. LedgerTyped' /\ Kept'
  BY <1>2, <1>3 DEF LedgerTyped, Kept
<1>5. Ends'
  BY <1>2, <1>3 DEF Ends
<1>6. Alarmed'
  BY <1>1, <1>2, <1>3 DEF Alarmed, IsAlarm
<1> QED BY <1>2, <1>4, <1>5, <1>6

\* What Event makes is a record of today, and no torn line.
LEMMA EventOfToday ==
  ASSUME WatchTypeOK, NEW name \in Names
  PROVE  /\ Event(name) \in Record /\ Event(name) # Torn
         /\ Event(name).event = name /\ Event(name).day = today
BY WatchAssumption DEF WatchTypeOK, Event, Record

\* A step that leaves the ledgers alone.
LEMMA LedgerRests ==
  ASSUME WatchInv, UNCHANGED <<disk, acked, today, backend, margins>>, finished => finished'
  PROVE  LedgerTyped' /\ Kept' /\ Ends' /\ Alarmed'
BY DEF WatchInv, WatchTypeOK, LedgerTyped, Kept, Ends, Alarmed, IsAlarm, disk

\* An alarm on record survives what is written after it.
LEMMA AlarmLasts ==
  ASSUME WatchInv, Lasting, UNCHANGED <<today, backend, margins>>
  PROVE  Alarmed'
<1>1. margins' \in {0, 1} /\ (margins' = 1 => margins = 1)
  BY DEF WatchInv, Alarmed
<1>2. ASSUME margins = 1, backend = "sqlite" PROVE \E i \in DOMAIN db' : IsAlarm(db[i])' 
  BY <1>2 DEF WatchInv, Alarmed, Lasting, IsAlarm
<1>3. ASSUME margins = 1, backend = "jsonl"
      PROVE  \E i \in DOMAIN file' : IsAlarm(file[i])' /\ (unfinished' => i # Len(file'))
  BY <1>3 DEF WatchInv, Alarmed, Lasting, IsAlarm
<1> QED BY <1>1, <1>2, <1>3 DEF WatchInv, WatchTypeOK, Alarmed

\* The watchdog is silent only if there is nothing to tell.
LEMMA CalmIsTrue ==
  ASSUME WatchInv, today \in Weekdays, check = {}
  PROVE  AllWell
<1>1. ~CycleProblem /\ halted = "no" /\ judge /\ ~drawdown_state(last_known_equity(_all_records))
  <2>1. "cycle" \notin check /\ "halt" \notin check /\ "drawdown" \notin check /\ "judge" \notin check
    OBVIOUS
  <2> QED BY <2>1 DEF check
<1>2. completed_on(today) = "True"
  BY <1>1 DEF CycleProblem
<1>3. _all_records # Unreadable /\ Ended(_all_records, today)
  BY <1>2 DEF completed_on
<1>4. Torn \notin Range(file) /\ _all_records = file
  BY <1>3 DEF _all_records, read_all, WatchdogStore
<1>5. PICK i \in DOMAIN file : file[i].event = "cycle_complete" /\ file[i].day = today
  BY <1>3, <1>4 DEF Ended, Range
<1>6. file[i] # Torn
  BY <1>4 DEF Range
<1>7. backend = "jsonl" /\ finished
  BY <1>5, <1>6 DEF WatchInv, Ends
<1>8. read_all(backend) = _all_records
  BY <1>7 DEF _all_records, WatchdogStore
<1>9. highwater # 0 /\ highwater # Damaged => highwater > 0
  BY WatchAssumption DEF WatchInv, WatchTypeOK
<1>10. ASSUME NEW own, own = last_known_equity(_all_records), own # Never,
              highwater \notin {0, Damaged}
       PROVE  ~Breached(own, highwater)
  BY <1>1, <1>9, <1>10 DEF drawdown_state
<1> QED BY <1>1, <1>7, <1>8, <1>10 DEF AllWell

\* What the watchdog takes for a day without an end had none that was acknowledged.
LEMMA NoEndUnseen ==
  ASSUME WatchInv, backend = "jsonl", completed_on(today) = "False"
  PROVE  ~Ended(acked[backend], today)
<1>1. _all_records # Unreadable /\ ~Ended(_all_records, today)
  BY DEF completed_on
<1>2. Torn \notin Range(file) /\ _all_records = file
  BY <1>1 DEF _all_records, read_all, WatchdogStore
<1>3. acked["jsonl"] = IF unfinished THEN Front(file) ELSE file
  BY <1>2 DEF WatchInv, Kept
<1>4. CASE unfinished
  <2>1. file \in Seq(Line) /\ file # <<>>
    BY <1>4 DEF WatchInv, WatchTypeOK
  <2>2. /\ Front(file) \in Seq(Line) /\ Len(Front(file)) = Len(file) - 1
        /\ \A i \in 1 .. Len(file) - 1 : Front(file)[i] = file[i]
    BY <2>1, FrontOf
  <2>3. ASSUME NEW i \in DOMAIN Front(file) PROVE i \in DOMAIN file /\ Front(file)[i] = file[i]
    <3>1. i \in 1 .. Len(file) - 1 /\ Len(file) \in Nat /\ DOMAIN file = 1 .. Len(file)
      BY <2>1, <2>2
    <3> QED BY <3>1, <2>2
  <2>4. Range(Front(file)) \subseteq Range(file)
    BY <2>3 DEF Range
  <2> QED BY <1>1, <1>2, <1>3, <1>4, <2>4 DEF Ended
<1>5. CASE ~unfinished
  BY <1>1, <1>2, <1>3, <1>5
<1> QED BY <1>4, <1>5

\* record_cycle_timing: the alarm is recorded where the next look finds it.
LEMMA TimingKeeps ==
  ASSUME WatchInv, cycle = "end", NEW thin \in BOOLEAN, record_cycle_timing(thin),
         UNCHANGED <<today, backend, finished>>
  PROVE  LedgerTyped' /\ Kept' /\ Ends' /\ Alarmed' /\ (backend = "sqlite" => ~unfinished')
<1>0. WatchTypeOK /\ ~unfinished /\ backend \in {"jsonl", "sqlite"}
  BY DEF WatchInv, Settled, WatchTypeOK
<1>1. CASE UNCHANGED <<disk, acked, margins>>
  <2>1. LedgerTyped' /\ Kept' /\ Ends' /\ Alarmed'
    BY <1>1, LedgerRests
  <2> QED BY <1>0, <1>1, <2>1 DEF disk
<1>2. CASE ~UNCHANGED <<disk, acked, margins>>
  <2> DEFINE r == Event("cycle_margin_low")
  <2>1. /\ read_all(backend) # Unreadable /\ ~AlreadyAlarmed(read_all(backend))
        /\ append(backend, r) /\ margins' = margins + 1
    BY <1>2 DEF record_cycle_timing
  <2>2. r \in Record /\ r # Torn /\ r.event = "cycle_margin_low" /\ r.day = today
    BY <1>0, EventOfToday DEF Names
  <2> HIDE DEF r
  <2>3. /\ LedgerTyped' /\ Kept' /\ Ends' /\ Lasting
        /\ unfinished' = IF backend = "jsonl" THEN FALSE ELSE unfinished
    BY <1>0, <2>1, <2>2, AppendKeeps
  <2>4. CASE backend = "sqlite"
    <3>1. read_all(backend) = db /\ db' = Append(db, r) /\ db \in Seq(Record)
      BY <2>4, <2>1, <1>0 DEF read_all, append, WatchTypeOK
    <3>2. margins = 0
      BY <2>1, <2>4, <3>1 DEF WatchInv, Alarmed, IsAlarm, AlreadyAlarmed, Range
    <3>3. Len(db) + 1 \in DOMAIN db' /\ db'[Len(db) + 1] = r
      BY <3>1
    <3> QED BY <2>1, <2>2, <2>3, <2>4, <3>2, <3>3, <1>0 DEF Alarmed, IsAlarm
  <2>5. CASE backend = "jsonl"
    <3>1. /\ read_all(backend) = file /\ file' = Append(file, r) /\ file \in Seq(Line)
          /\ unfinished' = FALSE
      BY <2>5, <2>1, <1>0 DEF read_all, append, AppendTo, WatchTypeOK
    <3>2. margins = 0
      BY <2>1, <2>5, <3>1 DEF WatchInv, Alarmed, IsAlarm, AlreadyAlarmed, Range
    <3>3. Len(file) + 1 \in DOMAIN file' /\ file'[Len(file) + 1] = r
      BY <3>1
    <3> QED BY <2>1, <2>2, <2>3, <2>5, <3>1, <3>2, <3>3 DEF Alarmed, IsAlarm
  <2> QED BY <2>4, <2>5, <1>0
<1> QED BY <1>1, <1>2

\* No step breaks what is on disk, what was said or what is still to be said.
LEMMA WatchStep == WatchInv /\ [WatchNext]_watch => WatchInv'
<1> SUFFICES ASSUME WatchInv, [WatchNext]_watch PROVE WatchInv'
  OBVIOUS
<1>0. /\ WatchTypeOK /\ Kept /\ Settled /\ Ends /\ Alarmed /\ Earned
      /\ SilenceIsCalm /\ NoNeedlessRerun
  BY DEF WatchInv
<1>1. CASE Begin
  <2>1. LedgerTyped' /\ Kept' /\ Ends' /\ Alarmed'
    BY <1>1, LedgerRests DEF Begin, world
  <2>2. WatchTypeOK'
    BY <1>0, <1>1, <2>1 DEF Begin, WatchTypeOK, LedgerTyped, world
  <2>3. Settled' /\ Earned' /\ SilenceIsCalm' /\ NoNeedlessRerun'
    BY <1>0, <1>1 DEF Begin, Settled, Earned, SilenceIsCalm, NoNeedlessRerun, world, disk, ghosts
  <2> QED BY <2>1, <2>2, <2>3 DEF WatchInv
<1>2. ASSUME NEW name \in {"aborted", "cycle_crashed"}, NEW kind \in {"jsonl", backend},
             append(kind, Event(name)), cycle' = "end", cycle = "run",
             highwater' \in {highwater, IF highwater = Damaged \/ equity > highwater
                                        THEN equity ELSE highwater},
             UNCHANGED <<today, world, completed, looked, ping, finished, ghosts, margins>>
      PROVE  WatchInv'
  <2>1. name \in Names /\ kind \in {"jsonl", "sqlite"} /\ UNCHANGED <<backend, equity>>
    BY <1>0, <1>2 DEF Names, WatchTypeOK, world
  <2>2. Event(name) \in Record /\ Event(name).event # "cycle_complete"
    BY <1>0, <2>1, EventOfToday
  <2>3. /\ LedgerTyped' /\ Kept' /\ Ends' /\ Lasting
        /\ unfinished' = IF kind = "jsonl" THEN FALSE ELSE unfinished
    BY <1>2, <2>1, <2>2, AppendKeeps
  <2>4. Alarmed'
    BY <1>2, <2>1, <2>3, AlarmLasts
  <2>5. WatchTypeOK'
    BY <1>0, <1>2, <2>1, <2>3 DEF WatchTypeOK, LedgerTyped
  <2>6. Settled'
    BY <1>0, <1>2, <2>1, <2>3 DEF Settled
  <2>7. Earned' /\ SilenceIsCalm' /\ NoNeedlessRerun'
    BY <1>0, <1>2, <2>1 DEF Earned, SilenceIsCalm, NoNeedlessRerun, ghosts
  <2> QED BY <2>3, <2>4, <2>5, <2>6, <2>7 DEF WatchInv
<1>3. CASE Abort
  <2>1. PICK kind \in {"jsonl", backend} : append(kind, Event("aborted"))
    BY <1>3 DEF Abort
  <2> QED BY <1>2, <1>3, <2>1 DEF Abort
<1>4. CASE CycleCrashes
  <2>1. PICK kind \in {"jsonl", backend} : append(kind, Event("cycle_crashed"))
    BY <1>4 DEF CycleCrashes
  <2> QED BY <1>2, <1>4, <2>1 DEF CycleCrashes
<1>5. CASE Complete
  <2>1. /\ cycle' = "end" /\ completed' = TRUE /\ finished' = TRUE
        /\ append(backend, Event("cycle_complete"))
        /\ UNCHANGED <<today, backend, equity, looked, ping, truth, rerun, margins>>
    BY <1>5 DEF Complete, world, ghosts
  <2>2. Event("cycle_complete") \in Record /\ Event("cycle_complete").day = today
    BY <1>0, EventOfToday DEF Names
  <2>3. backend \in {"jsonl", "sqlite"}
    BY <1>0 DEF WatchTypeOK
  <2>4. /\ LedgerTyped' /\ Kept' /\ Ends' /\ Lasting
        /\ unfinished' = IF backend = "jsonl" THEN FALSE ELSE unfinished
    BY <2>1, <2>2, <2>3, AppendKeeps
  <2>5. Alarmed'
    BY <2>1, <2>4, AlarmLasts
  <2>6. WatchTypeOK'
    BY <1>0, <1>5, <2>1, <2>4 DEF Complete, WatchTypeOK, LedgerTyped
  <2>7. Settled' /\ Earned' /\ SilenceIsCalm' /\ NoNeedlessRerun'
    BY <1>0, <2>1, <2>3, <2>4 DEF Settled, Earned, SilenceIsCalm, NoNeedlessRerun
  <2> QED BY <2>4, <2>5, <2>6, <2>7 DEF WatchInv
<1>6. CASE End
  <2>1. /\ cycle = "end" /\ cycle' = "off" /\ ping' = [day |-> today, success |-> completed]
        /\ UNCHANGED <<today, backend, equity, highwater, completed, looked, finished, truth, rerun>>
    BY <1>6 DEF End, heartbeat_ping, world, ghosts
  <2>2. PICK thin \in BOOLEAN : record_cycle_timing(thin)
    BY <1>6 DEF End
  <2>3. LedgerTyped' /\ Kept' /\ Ends' /\ Alarmed' /\ (backend = "sqlite" => ~unfinished')
    BY <2>1, <2>2, TimingKeeps
  <2>4. WatchTypeOK'
    BY <1>0, <2>1, <2>3 DEF WatchTypeOK, LedgerTyped
  <2>5. Earned'
    BY <1>0, <2>1 DEF Earned, WatchTypeOK
  <2>6. Settled' /\ SilenceIsCalm' /\ NoNeedlessRerun'
    BY <1>0, <2>1, <2>3 DEF Settled, SilenceIsCalm, NoNeedlessRerun
  <2> QED BY <2>3, <2>4, <2>5, <2>6 DEF WatchInv
<1>7. CASE Killed
  <2>1. /\ cycle' = "off"
        /\ UNCHANGED <<today, backend, equity, highwater, completed, looked, ping, truth, rerun,
                       margins>>
    BY <1>7 DEF Killed, world, ghosts
  <2>2. PICK name \in {"cycle_complete", "cycle_timing"} :
          /\ KilledAppending(backend, Event(name))
          /\ finished' = (finished \/ (name = "cycle_complete" /\ file' # file))
    BY <1>7 DEF Killed
  <2>3. name \in Names
    BY DEF Names
  <2>4. Event(name) \in Record /\ Event(name).day = today /\ Event(name).event = name
    BY <1>0, <2>3, EventOfToday
  <2>5. finished => finished'
    BY <2>2
  <2>6. /\ LedgerTyped' /\ Kept' /\ Ends' /\ Lasting
        /\ backend = "sqlite" => unfinished' = unfinished
    BY <2>1, <2>2, <2>4, <2>5, KilledKeeps
  <2>7. Alarmed'
    BY <2>1, <2>6, AlarmLasts
  <2>8. WatchTypeOK'
    BY <1>0, <2>1, <2>6 DEF WatchTypeOK, LedgerTyped
  <2>9. Settled' /\ Earned' /\ SilenceIsCalm' /\ NoNeedlessRerun'
    BY <1>0, <2>1, <2>5, <2>6 DEF Settled, Earned, SilenceIsCalm, NoNeedlessRerun
  <2> QED BY <2>6, <2>7, <2>8, <2>9 DEF WatchInv
<1>8. CASE Look
  <2>1. /\ cycle = "off" /\ today \in Weekdays /\ truth' = AllWell
        /\ UNCHANGED <<today, backend, equity, highwater, cycle, completed, ping, finished, rerun,
                       margins>>
    BY <1>8 DEF Look, world
  <2>2. CASE check = {}
    <3>1. UNCHANGED <<disk, acked>>
      BY <1>8, <2>2 DEF Look
    <3>2. LedgerTyped' /\ Kept' /\ Ends' /\ Alarmed'
      BY <2>1, <3>1, LedgerRests
    <3>3. SilenceIsCalm'
      BY <2>1, <2>2, CalmIsTrue DEF SilenceIsCalm
    <3>4. WatchTypeOK' /\ Settled' /\ Earned' /\ NoNeedlessRerun'
      BY <1>0, <2>1, <3>1, <3>2
         DEF WatchTypeOK, LedgerTyped, Settled, Earned, NoNeedlessRerun, disk
    <3> QED BY <3>2, <3>3, <3>4 DEF WatchInv
  <2>3. CASE check # {}
    <3>1. looked' = send /\ append(WatchdogStore, Event("ops_alert"))
      BY <1>8, <2>3 DEF Look
    <3>2. SilenceIsCalm'
      BY <3>1 DEF SilenceIsCalm, send
    <3>3. Event("ops_alert") \in Record /\ Event("ops_alert").event # "cycle_complete"
      BY <1>0, EventOfToday DEF Names
    <3>4. WatchdogStore \in {"jsonl", "sqlite"} /\ WatchdogStore = "jsonl"
      BY DEF WatchdogStore
    <3>5. LedgerTyped' /\ Kept' /\ Ends' /\ Lasting /\ unfinished' = FALSE
      BY <2>1, <3>1, <3>3, <3>4, AppendKeeps
    <3>6. Alarmed'
      BY <2>1, <3>5, AlarmLasts
    <3>7. WatchTypeOK' /\ Settled' /\ Earned' /\ NoNeedlessRerun'
      BY <1>0, <2>1, <3>5 DEF WatchTypeOK, LedgerTyped, Settled, Earned, NoNeedlessRerun
    <3> QED BY <3>2, <3>5, <3>6, <3>7 DEF WatchInv
  <2> QED BY <2>2, <2>3
<1>9. CASE catchup
  <2>1. /\ cycle' = "run" /\ completed' = FALSE
        /\ rerun' = (rerun \/ (completed_on(today) = "False" /\ Ended(acked[backend], today)))
        /\ UNCHANGED <<today, disk, highwater, backend, equity, looked, ping, acked, finished,
                       truth, margins>>
    BY <1>9 DEF catchup, world
  <2>2. LedgerTyped' /\ Kept' /\ Ends' /\ Alarmed'
    BY <2>1, LedgerRests
  <2>3. NoNeedlessRerun'
    BY <1>0, <2>1, NoEndUnseen DEF NoNeedlessRerun
  <2>4. WatchTypeOK' /\ Settled' /\ Earned' /\ SilenceIsCalm'
    BY <1>0, <2>1, <2>2 DEF WatchTypeOK, LedgerTyped, Settled, Earned, SilenceIsCalm, disk
  <2> QED BY <2>2, <2>3, <2>4 DEF WatchInv
<1>10. CASE World
  <2>1. /\ equity' \in Levels /\ highwater' \in {highwater, Damaged}
        /\ UNCHANGED <<today, disk, backend, cycle, completed, looked, ping, acked, finished,
                       truth, rerun, margins>>
    BY <1>0, <1>10 DEF World, WatchTypeOK, ghosts
  <2>2. LedgerTyped' /\ Kept' /\ Ends' /\ Alarmed'
    BY <2>1, LedgerRests
  <2>3. WatchTypeOK'
    BY <1>0, <2>1, <2>2 DEF WatchTypeOK, LedgerTyped
  <2>4. Settled' /\ Earned' /\ SilenceIsCalm' /\ NoNeedlessRerun'
    BY <1>0, <2>1 DEF Settled, Earned, SilenceIsCalm, NoNeedlessRerun, disk
  <2> QED BY <2>2, <2>3, <2>4 DEF WatchInv
<1>11. CASE Repair
  <2>1. LedgerTyped' /\ Kept' /\ Ends' /\ Alarmed' /\ unfinished' = FALSE
    BY <1>11, RepairKeeps
  <2>2. UNCHANGED <<today, backend, equity, highwater, cycle, completed, looked, ping, finished,
                    truth, rerun>>
    BY <1>11 DEF Repair, world, ghosts
  <2>3. WatchTypeOK' /\ Settled' /\ Earned' /\ SilenceIsCalm' /\ NoNeedlessRerun'
    BY <1>0, <2>1, <2>2
       DEF WatchTypeOK, LedgerTyped, Settled, Earned, SilenceIsCalm, NoNeedlessRerun
  <2> QED BY <2>1, <2>3 DEF WatchInv
<1>12. CASE NextDay
  <2>1. /\ cycle = "off" /\ today' = today + 1 /\ looked' = "none" /\ margins' = 0
        /\ UNCHANGED <<file, unfinished, db, backend, equity, highwater, cycle, completed, ping,
                       acked, truth, rerun>>
    BY <1>12 DEF NextDay, world, disk, ghosts
  <2>2. WatchTypeOK'
    <3>1. today' \in Nat
      BY <1>0, <2>1 DEF WatchTypeOK
    <3> QED BY <1>0, <2>1, <3>1 DEF WatchTypeOK
  <2>3. Kept' /\ Settled'
    BY <1>0, <2>1 DEF Kept, Settled
  <2>a. Alarmed' /\ SilenceIsCalm' /\ NoNeedlessRerun'
    BY <1>0, <2>1 DEF Alarmed, SilenceIsCalm, NoNeedlessRerun
  <2>4. Ends'
    <3>1. ASSUME NEW i \in DOMAIN file, file[i] # Torn, file[i].event = "cycle_complete"
          PROVE  backend = "jsonl" /\ file[i].day <= today + 1 /\ file[i].day # today + 1
      <4>1. file[i] \in Record
        BY <1>0, <3>1 DEF WatchTypeOK, Line
      <4>2. PICK d \in Nat : d = file[i].day
        BY <4>1 DEF Record
      <4>3. backend = "jsonl" /\ d <= today /\ today \in Nat
        BY <1>0, <3>1, <4>2 DEF Ends, WatchTypeOK
      <4> QED BY <4>2, <4>3
    <3> QED BY <2>1, <3>1 DEF Ends
  <2>5. Earned'
    <3>1. PICK d \in Nat : d = ping.day
      BY <1>0 DEF WatchTypeOK
    <3>2. d <= today /\ today \in Nat
      BY <1>0, <3>1 DEF Earned, WatchTypeOK
    <3>3. d <= today + 1 /\ d # today + 1
      BY <3>1, <3>2
    <3> QED BY <2>1, <3>1, <3>3 DEF Earned
  <2> QED BY <2>2, <2>3, <2>a, <2>4, <2>5 DEF WatchInv
<1>13. CASE UNCHANGED watch
  <2>1. UNCHANGED <<today, disk, highwater, backend, equity, cycle, completed, looked, ping, acked,
                    finished, truth, rerun, margins>>
    BY <1>13 DEF watch, world, ghosts
  <2>2. LedgerTyped' /\ Kept' /\ Ends' /\ Alarmed'
    BY <2>1, LedgerRests
  <2>3. WatchTypeOK' /\ Settled' /\ Earned' /\ SilenceIsCalm' /\ NoNeedlessRerun'
    BY <1>0, <2>1, <2>2
       DEF WatchTypeOK, LedgerTyped, Settled, Earned, SilenceIsCalm, NoNeedlessRerun, disk
  <2> QED BY <2>2, <2>3 DEF WatchInv
<1> QED BY <1>1, <1>3, <1>4, <1>5, <1>6, <1>7, <1>8, <1>9, <1>10, <1>11, <1>12, <1>13 DEF WatchNext

\* What reads well is what was acknowledged, and perhaps one line more.
LEMMA NothingIsMissing == WatchInv => NothingMissing
<1> SUFFICES ASSUME WatchInv, NEW kind \in {"jsonl", "sqlite"}, read_all(kind) # Unreadable
             PROVE  LET read == read_all(kind) IN
                    /\ Len(acked[kind]) <= Len(read)
                    /\ SubSeq(read, 1, Len(acked[kind])) = acked[kind]
  BY DEF NothingMissing
<1>0. WatchTypeOK /\ Kept
  BY DEF WatchInv
<1>1. CASE kind = "sqlite"
  <2>1. read_all(kind) = db /\ acked[kind] = db /\ db \in Seq(Record)
    BY <1>0, <1>1 DEF read_all, Kept, WatchTypeOK
  <2>2. SubSeq(db, 1, Len(db)) = db /\ Len(db) \in Nat
    BY <2>1, SubSeqFull
  <2> QED BY <2>1, <2>2
<1>2. CASE kind = "jsonl"
  <2>1. Torn \notin Range(file) /\ read_all(kind) = file
    BY <1>2 DEF read_all
  <2>2. acked[kind] = IF unfinished THEN Front(file) ELSE file
    BY <1>0, <1>2, <2>1 DEF Kept
  <2>3. file \in Seq(Line) /\ Len(file) \in Nat /\ (unfinished => file # <<>>)
    BY <1>0 DEF WatchTypeOK
  <2>4. CASE unfinished
    <3>1. Len(Front(file)) = Len(file) - 1
      BY <2>3, <2>4, FrontOf
    <3>2. SubSeq(file, 1, Len(file) - 1) = Front(file)
      BY DEF Front
    <3>3. Len(file) - 1 <= Len(file)
      BY <2>3
    <3> QED BY <2>1, <2>2, <2>4, <3>1, <3>2, <3>3
  <2>5. CASE ~unfinished
    <3>1. SubSeq(file, 1, Len(file)) = file
      BY <2>3, SubSeqFull
    <3> QED BY <2>1, <2>2, <2>3, <2>5, <3>1
  <2> QED BY <2>4, <2>5
<1> QED BY <1>1, <1>2

\* Nobody is deceived, whatever is torn, killed or written elsewhere, on any day:
\* the watchdog's silence, a history that reads well, a ping of success and the
\* decision not to repeat a day.
THEOREM NobodyDeceived == WatchSpec => []WatchHonest
<1>1. WatchInit => WatchInv
  <2> SUFFICES ASSUME WatchInit PROVE WatchInv
    OBVIOUS
  <2>1. WatchTypeOK
    <3>1. <<>> \in Seq(Line) /\ <<>> \in Seq(Record)
      OBVIOUS
    <3>2. acked \in [{"jsonl", "sqlite"} -> Seq(Line)]
      BY <3>1 DEF WatchInit
    <3>3. ping \in [day : Nat, success : BOOLEAN]
      BY DEF WatchInit
    <3> QED BY <3>1, <3>2, <3>3 DEF WatchInit, WatchTypeOK
  <2>2. Kept /\ Settled
    BY DEF WatchInit, Kept, Settled, Range
  <2>4. Ends /\ Alarmed
    BY DEF WatchInit, Ends, Alarmed
  <2>3. Earned /\ SilenceIsCalm /\ NoNeedlessRerun
    BY DEF WatchInit, Earned, SilenceIsCalm, NoNeedlessRerun
  <2> QED BY <2>1, <2>2, <2>3, <2>4 DEF WatchInv
<1>2. WatchInv => WatchHonest
  <2> SUFFICES ASSUME WatchInv PROVE WatchHonest
    OBVIOUS
  <2>1. PingEarned
    BY DEF WatchInv, Earned, Alarmed, PingEarned
  <2> QED BY <2>1, NothingIsMissing DEF WatchInv, WatchHonest
<1> QED BY <1>1, <1>2, WatchStep, PTL DEF WatchSpec
=============================================================================
