-------------------------- MODULE LearningLoopProofs --------------------------
(***************************************************************************)
(* What holds of LearningLoop for every book, every number of trades and   *)
(* every threshold, whatever the model answers and whenever a pass dies.   *)
(***************************************************************************)
EXTENDS LearningLoop, TLAPS

\* Where a pass can be.
Labels == {"idle", "evaluate", "evidence", "mark", "resolve", "grade", "change",
           "merge", "retire"}

\* A label to come back to is kept only while evidence is being appended, and
\* a trade is marked only under the limit.  What is marked or graded is a trade.
Counter ==
  /\ pc # "evidence" => cont = "idle"
  /\ pc = "mark" \/ cont = "mark" => calls < Limit
  /\ pc \in {"mark", "grade"} \/ cont = "mark" => cur \in Trades

\* What a lifecycle pass decides: at most one move a lesson, out of a status
\* that is not terminal.
LEMMA Transitions ==
  /\ apply_transitions \subseteq Lessons \X {"active", "refuted", "retired"}
  /\ \A m \in apply_transitions : status[m[1]] \notin TERMINAL \cup {"none"}
  /\ \A m, k \in apply_transitions : m[1] = k[1] => m = k
<1> DEFINE sup(l) == Total(l, "supports")
           con(l) == Total(l, "contradicts")
           refuted == {l \in Judged : con(l) >= sup(l) /\ sup(l) + con(l) >= RefuteAt}
           retired == {l \in Judged \ refuted : quiet[l] > Stale}
           active == {l \in Judged \ (refuted \cup retired) :
                        /\ status[l] = "candidate"
                        /\ sup(l) >= PromoteAt /\ sup(l) >= Ratio * con(l)}
<1>1. apply_transitions =
        (refuted \X {"refuted"}) \cup (retired \X {"retired"}) \cup (active \X {"active"})
  BY DEF apply_transitions
<1>2. /\ refuted \subseteq Judged /\ retired \subseteq Judged /\ active \subseteq Judged
      /\ refuted \cap retired = {} /\ refuted \cap active = {} /\ retired \cap active = {}
  OBVIOUS
<1>3. Judged \subseteq Lessons /\ \A l \in Judged : status[l] \notin TERMINAL \cup {"none"}
  BY DEF Judged
<1> HIDE DEF refuted, retired, active
<1> QED BY <1>1, <1>2, <1>3

LEMMA NewLesson ==
  ASSUME Unused # {}
  PROVE  (CHOOSE l \in Unused : TRUE) \in Unused
OBVIOUS

-----------------------------------------------------------------------------
(* Types.                                                                  *)

TypingInv == TypeOK /\ Counter

LEMMA AppendAllType ==
  ASSUME TypingInv, NEW fs \in SUBSET (Lessons \X Relations \X Trades),
         NEW l \in {"mark", "resolve", "retire"}, AppendAll(fs, l),
         l = "mark" => calls' < Limit /\ cur' \in Trades
  PROVE  /\ pc' \in Labels /\ cont' \in {"idle", "mark", "resolve", "retire"}
         /\ found' \subseteq Lessons \X Relations \X Trades
         /\ Counter'
BY DEF AppendAll, TypingInv, Counter, Labels

LEMMA GotoType ==
  ASSUME TypingInv, NEW l \in Labels \ {"evidence"}, Goto(l), pc # "evidence",
         l = "mark" => calls' < Limit, l \in {"mark", "grade"} => cur' \in Trades
  PROVE  /\ pc' \in Labels /\ cont' \in {"idle", "mark", "resolve", "retire"}
         /\ found' \subseteq Lessons \X Relations \X Trades
         /\ Counter'
BY DEF Goto, TypingInv, TypeOK, Counter, Labels

LEMMA EndsType ==
  ASSUME TypingInv, Ends
  PROVE  /\ pc' \in Labels /\ cont' \in {"idle", "mark", "resolve", "retire"}
         /\ todo' \in Seq(Trades) /\ live' \subseteq Lessons /\ calls' \in 0 .. Limit
         /\ cur' \in Trades \cup Lessons \cup {NoTrade}
         /\ found' \subseteq Lessons \X Relations \X Trades
         /\ moves' \subseteq Lessons \X {"active", "refuted", "retired"}
         /\ Counter'
BY NumbersAssumption DEF Ends, TypingInv, TypeOK, Counter, Labels

LEMMA CountedType ==
  ASSUME NEW e \in [Lessons -> [Relations -> [Trades -> Nat]]],
         NEW l \in Lessons, NEW rel \in Relations, NEW t \in Trades
  PROVE  [e EXCEPT ![l][rel][t] = @ + 1] \in [Lessons -> [Relations -> [Trades -> Nat]]]
<1>1. e[l] \in [Relations -> [Trades -> Nat]] /\ e[l][rel] \in [Trades -> Nat]
  OBVIOUS
<1>2. [e[l][rel] EXCEPT ![t] = @ + 1] \in [Trades -> Nat]
  BY <1>1
<1>3. [e[l] EXCEPT ![rel] = [e[l][rel] EXCEPT ![t] = @ + 1]] \in [Relations -> [Trades -> Nat]]
  BY <1>1, <1>2
<1> QED BY <1>3

LEMMA AddLessonType ==
  ASSUME TypeOK, NEW l \in Lessons, NEW from \in Trades \cup {NoTrade}, AddLesson(l, from)
  PROVE  /\ status' \in [Lessons -> {"none", "candidate", "active"} \cup TERMINAL]
         /\ source' \in [Lessons -> Trades \cup {NoTrade}]
         /\ quiet' \in [Lessons -> 0 .. Stale + 1]
BY NumbersAssumption DEF AddLesson, TypeOK

LEMMA LearnTypingInv == Spec => []TypingInv
<1>1. ASSUME Init PROVE TypingInv
  <2> USE <1>1, SetsAssumption, NumbersAssumption DEF Init
  <2>1. stage \in [Trades -> {"none", "open", "closed", "vetoed", "due"}]
    OBVIOUS
  <2>2. closed \in Seq(Trades) /\ todo \in Seq(Trades)
    OBVIOUS
  <2>3. cites \in [Trades -> SUBSET Lessons]
    OBVIOUS
  <2>4. status \in [Lessons -> {"none", "candidate", "active"} \cup TERMINAL]
    OBVIOUS
  <2>5. source \in [Lessons -> Trades \cup {NoTrade}] /\ quiet \in [Lessons -> 0 .. Stale + 1]
    OBVIOUS
  <2>6. evidence \in [Lessons -> [Relations -> [Trades -> Nat]]]
    OBVIOUS
  <2>7. calls \in 0 .. Limit /\ faults \in 0 .. MaxFaults /\ calls < Limit
    OBVIOUS
  <2> QED BY <2>1, <2>2, <2>3, <2>4, <2>5, <2>6, <2>7 DEF TypingInv, TypeOK, Counter
<1>2. TypingInv /\ [Next]_vars => TypingInv'
  <2> SUFFICES ASSUME TypingInv, [Next]_vars PROVE TypingInv'
    OBVIOUS
  <2> USE NumbersAssumption, SetsAssumption DEF trades, book, pass
  <2>1. ASSUME NEW t \in Trades, Decide(t) PROVE TypingInv'
    <3>1. stage' \in [Trades -> {"none", "open", "closed", "vetoed", "due"}]
      BY <2>1 DEF Decide, TypingInv, TypeOK
    <3>2. cites' \in [Trades -> SUBSET Lessons]
      BY <2>1 DEF Decide, TypingInv, TypeOK
    <3> QED BY <2>1, <3>1, <3>2 DEF Decide, TypingInv, TypeOK, Counter
  <2>2. ASSUME NEW t \in Trades, Close(t) PROVE TypingInv'
    <3>1. /\ stage' \in [Trades -> {"none", "open", "closed", "vetoed", "due"}]
          /\ closed' \in Seq(Trades)
      BY <2>2 DEF Close, TypingInv, TypeOK
    <3>2. /\ status' \in [Lessons -> {"none", "candidate", "active"} \cup TERMINAL]
          /\ source' \in [Lessons -> Trades \cup {NoTrade}]
          /\ quiet' \in [Lessons -> 0 .. Stale + 1]
      <4>1. CASE UNCHANGED <<status, source, quiet>>
        BY <4>1 DEF TypingInv, TypeOK
      <4>2. ASSUME NEW l \in Lessons, AddLesson(l, t)
            PROVE  /\ status' \in [Lessons -> {"none", "candidate", "active"} \cup TERMINAL]
                   /\ source' \in [Lessons -> Trades \cup {NoTrade}]
                   /\ quiet' \in [Lessons -> 0 .. Stale + 1]
        BY <4>2, AddLessonType DEF TypingInv, TypeOK
      <4> QED BY <2>2, <4>1, <4>2, NewLesson DEF Close, Unused
    <3> QED BY <2>2, <3>1, <3>2 DEF Close, TypingInv, TypeOK, Counter
  <2>3. CASE NewDay
    <3>1. stage' \in [Trades -> {"none", "open", "closed", "vetoed", "due"}]
      BY <2>3 DEF NewDay, TypingInv, TypeOK
    <3>2. quiet' \in [Lessons -> 0 .. Stale + 1]
      BY <2>3 DEF NewDay, TypingInv, TypeOK
    <3> QED BY <2>3, <3>1, <3>2 DEF NewDay, TypingInv, TypeOK, Counter
  <2>4. CASE Start
    BY <2>4, SMTT(60) DEF Start, Goto, TypingInv, TypeOK, Counter, Live
  <2>5. CASE PassOver
    <3>1. todo' \in Seq(Trades)
      BY <2>5 DEF PassOver, TypingInv, TypeOK
    <3> QED BY <2>5, <3>1 DEF PassOver, TypingInv, TypeOK, Counter
  <2>6. CASE Evaluate
    <3>1. Head(todo) \in Trades /\ Tail(todo) \in Seq(Trades) /\ calls < Limit
      BY <2>6 DEF Evaluate, Due, TypingInv, TypeOK
    <3>2. Candidates(Head(todo)) \subseteq Lessons
      BY DEF Candidates, TypingInv, TypeOK
    <3>3. PICK said \in [Candidates(Head(todo)) -> Relations \cup {"unrelated"}] :
            AppendAll({<<l, said[l], Head(todo)>> :
                         l \in {x \in DOMAIN said : said[x] # "unrelated"}}, "mark")
      BY <2>6, Zenon DEF Evaluate
    <3> DEFINE facts ==
          {<<l, said[l], Head(todo)>> : l \in {x \in DOMAIN said : said[x] # "unrelated"}}
    <3>4. facts \in SUBSET (Lessons \X Relations \X Trades) /\ AppendAll(facts, "mark")
      BY <3>1, <3>2, <3>3
    <3>5. calls' < Limit /\ cur' \in Trades
      BY <2>6, <3>1 DEF Evaluate
    <3> HIDE DEF facts
    <3>6. /\ pc' \in Labels /\ cont' \in {"idle", "mark", "resolve", "retire"}
          /\ found' \subseteq Lessons \X Relations \X Trades
          /\ Counter'
      BY <3>4, <3>5, AppendAllType
    <3> QED BY <2>6, <3>1, <3>6 DEF Evaluate, TypingInv, TypeOK, Labels
  <2>7. CASE EvaluateNothing
    BY <2>7 DEF EvaluateNothing, Due, Goto, TypingInv, TypeOK, Counter
  <2>8. CASE EvaluateFails
    <3>1. todo' \in Seq(Trades) /\ deferred' \in BOOLEAN
      BY <2>8 DEF EvaluateFails, Due, TypingInv, TypeOK
    <3>2. faults' \in 0 .. MaxFaults
      BY <2>8 DEF EvaluateFails, Spend, TypingInv, TypeOK
    <3> QED BY <2>8, <3>1, <3>2 DEF EvaluateFails, TypingInv, TypeOK, Counter
  <2>9. CASE AddEvidence
    <3>1. PICK f \in found :
            /\ evidence' = [evidence EXCEPT ![f[1]][f[2]][f[3]] = @ + 1]
            /\ quiet' = [quiet EXCEPT ![f[1]] = 0]
            /\ found' = found \ {f}
            /\ IF found = {f} THEN pc' = cont /\ cont' = "idle" ELSE UNCHANGED <<pc, cont>>
      BY <2>9 DEF AddEvidence
    <3>2. f \in Lessons \X Relations \X Trades
      BY DEF TypingInv, TypeOK
    <3>3. f[1] \in Lessons /\ f[2] \in Relations /\ f[3] \in Trades
      BY <3>2
    <3>4. evidence' \in [Lessons -> [Relations -> [Trades -> Nat]]]
      BY <3>1, <3>3, CountedType DEF TypingInv, TypeOK
    <3>5. quiet' \in [Lessons -> 0 .. Stale + 1]
      BY <3>1, <3>3 DEF TypingInv, TypeOK
    <3> QED BY <2>9, <3>1, <3>4, <3>5 DEF AddEvidence, TypingInv, TypeOK, Counter
  <2>10. CASE MarkEvaluated
    <3>1. cur \in Trades
      BY <2>10 DEF TypingInv, Counter, MarkEvaluated
    <3>2. calls' \in 0 .. Limit /\ evaluated' \subseteq Trades
      BY <2>10, <3>1 DEF MarkEvaluated, TypingInv, TypeOK, Counter
    <3>3. Counter' /\ pc' = "evaluate" /\ cont' = cont
      BY <2>10 DEF MarkEvaluated, Goto, TypingInv, Counter
    <3> QED BY <2>10, <3>2, <3>3 DEF MarkEvaluated, Goto, TypingInv, TypeOK
  <2>11. CASE EndEvaluate
    BY <2>11 DEF EndEvaluate, Goto, TypingInv, TypeOK, Counter
  <2>12. CASE Resolve
    BY <2>12 DEF Resolve, Observed, Goto, TypingInv, TypeOK, Counter
  <2>13. CASE Grade
    <3>1. PICK rel \in Relations : AppendAll({<<l, rel, cur>> : l \in Graded}, "resolve")
      BY <2>13 DEF Grade
    <3>2. Graded \subseteq Lessons /\ cur \in Trades
      BY <2>13 DEF Graded, Live, Grade, TypingInv, Counter
    <3> DEFINE facts == {<<l, rel, cur>> : l \in Graded}
    <3>3. facts \in SUBSET (Lessons \X Relations \X Trades)
      BY <3>2
    <3> HIDE DEF facts
    <3>4. AppendAll(facts, "resolve")
      BY <3>1 DEF facts
    <3>5. /\ pc' \in Labels /\ cont' \in {"idle", "mark", "resolve", "retire"}
          /\ found' \subseteq Lessons \X Relations \X Trades
          /\ Counter'
      BY <3>3, <3>4, AppendAllType
    <3> QED BY <2>13, <3>5 DEF Grade, TypingInv, TypeOK, Labels
  <2>14. CASE EndResolve
    BY <2>14, Transitions DEF EndResolve, Goto, TypingInv, TypeOK, Counter
  <2>15. CASE ChangeStatus
    BY <2>15 DEF ChangeStatus, TypingInv, TypeOK, Counter, TERMINAL
  <2>16. CASE Merge
    BY <2>16, SMTT(60), NewLesson DEF Merge, AddLesson, Mergeable, Live, Unused, Goto, TypingInv, TypeOK, Counter
  <2>17. CASE Inherit
    <3>1. PICK m \in moves, new \in live :
            /\ AppendAll({<<new, e[1], e[2]>> : e \in Inherited(m[1], new)}, "retire")
            /\ cur' = m[1] /\ moves' = moves \ {m}
      BY <2>17 DEF Inherit
    <3>2. m[1] \in Lessons /\ new \in Lessons
      BY DEF TypingInv, TypeOK
    <3> DEFINE facts == {<<new, e[1], e[2]>> : e \in Inherited(m[1], new)}
    <3>3. facts \in SUBSET (Lessons \X Relations \X Trades)
      BY <3>2 DEF Inherited
    <3> HIDE DEF facts
    <3>4. AppendAll(facts, "retire")
      BY <3>1 DEF facts
    <3>5. /\ pc' \in Labels /\ cont' \in {"idle", "mark", "resolve", "retire"}
          /\ found' \subseteq Lessons \X Relations \X Trades
          /\ Counter'
      BY <3>3, <3>4, AppendAllType
    <3>6. moves' \subseteq Lessons \X {"active", "refuted", "retired"}
      BY <3>1 DEF TypingInv, TypeOK
    <3> QED BY <2>17, <3>1, <3>2, <3>5, <3>6 DEF Inherit, TypingInv, TypeOK, Labels
  <2>18. CASE Retire
    BY <2>18 DEF Retire, Goto, TypingInv, TypeOK, Counter, TERMINAL
  <2>19. CASE Finish
    BY <2>19, EndsType DEF Finish, TypingInv, TypeOK, Labels
  <2>20. CASE Kill
    <3>1. faults' \in 0 .. MaxFaults
      BY <2>20 DEF Kill, Spend, TypingInv, TypeOK
    <3> QED BY <2>20, <3>1, EndsType DEF Kill, TypingInv, TypeOK, Labels
  <2>21. CASE UNCHANGED vars
    BY <2>21 DEF vars, TypingInv, TypeOK, Counter
  <2> QED
    BY <2>1, <2>2, <2>3, <2>4, <2>5, <2>6, <2>7, <2>8, <2>9, <2>10, <2>11, <2>12, <2>13,
       <2>14, <2>15, <2>16, <2>17, <2>18, <2>19, <2>20, <2>21 DEF Next, Step
<1> QED BY <1>1, <1>2, PTL DEF Spec

\* Type correctness of the learning loop: no answer of the model and no kill
\* leaves a record, a counter or a label outside its domain.
THEOREM LearnTyping == Spec => []TypeOK
BY LearnTypingInv, PTL DEF TypingInv

-----------------------------------------------------------------------------
(* Terminal lessons.  A status is written from a list made earlier, the    *)
(* moves of a lifecycle pass or the sources of a merge; the invariant says *)
(* that the lessons on the list are still open, each listed once.          *)

Open(l) == status[l] \notin TERMINAL \cup {"none"}

MovesOpen ==
  /\ \A m \in moves : Open(m[1])
  /\ \A m, k \in moves : m[1] = k[1] => m = k

SourceOpen ==
  pc = "retire" \/ cont = "retire" =>
    cur \in Lessons /\ Open(cur) /\ \A m \in moves : m[1] # cur

TerminalInv == TypingInv /\ MovesOpen /\ SourceOpen

Kept == \A l \in Lessons : status[l] \in TERMINAL => status'[l] = status[l]

\* A new lesson takes an unused id, so every lesson in the book keeps its status.
LEMMA AddLessonKeeps ==
  ASSUME TypeOK, NEW l \in Unused, NEW from, AddLesson(l, from)
  PROVE  /\ \A k \in Lessons : status[k] # "none" => status'[k] = status[k] /\ source'[k] = source[k]
         /\ status'[l] = "candidate" /\ source'[l] = from /\ l \in Lessons /\ status[l] = "none"
         /\ \A k \in Lessons \ {l} : status'[k] = status[k] /\ source'[k] = source[k]
BY DEF AddLesson, Unused, TypeOK

LEMMA TerminalStep ==
  ASSUME TerminalInv, [Next]_vars, TypingInv'
  PROVE  MovesOpen' /\ SourceOpen' /\ Kept
<1> USE DEF TerminalInv, trades, book, pass
<1>1. ASSUME UNCHANGED status, UNCHANGED <<moves, cur>>,
             pc' = "retire" \/ cont' = "retire" => pc = "retire" \/ cont = "retire"
      PROVE  MovesOpen' /\ SourceOpen' /\ Kept
  BY <1>1 DEF MovesOpen, SourceOpen, Kept, Open
<1>2. ASSUME UNCHANGED <<status, moves>>, pc' # "retire", cont' # "retire"
      PROVE  MovesOpen' /\ SourceOpen' /\ Kept
  BY <1>2 DEF MovesOpen, SourceOpen, Kept, Open
<1>3. ASSUME NEW t \in Trades, Decide(t) PROVE MovesOpen' /\ SourceOpen' /\ Kept
  BY <1>1, <1>3 DEF Decide
<1>4. ASSUME NEW t \in Trades, Close(t) PROVE MovesOpen' /\ SourceOpen' /\ Kept
  <2>1. CASE UNCHANGED status
    BY <1>1, <1>4, <2>1 DEF Close
  <2>2. ASSUME NEW l \in Unused, AddLesson(l, t) PROVE MovesOpen' /\ SourceOpen' /\ Kept
    <3>1. \A k \in Lessons : status[k] # "none" => status'[k] = status[k]
      BY <2>2, AddLessonKeeps DEF TypingInv
    <3>2. \A m \in moves : m[1] \in Lessons
      BY DEF TypingInv, TypeOK
    <3>3. UNCHANGED <<moves, cur, pc, cont>>
      BY <1>4 DEF Close
    <3> QED BY <3>1, <3>2, <3>3 DEF MovesOpen, SourceOpen, Kept, Open, TERMINAL
  <2> QED BY <1>4, <2>1, <2>2, NewLesson DEF Close
<1>5. CASE NewDay
  BY <1>1, <1>5 DEF NewDay
<1>6. CASE Start
  BY <1>1, <1>6 DEF Start, Goto
<1>7. CASE PassOver
  BY <1>1, <1>7 DEF PassOver
<1>8. CASE Evaluate
  BY <1>2, <1>8 DEF Evaluate, AppendAll
<1>9. CASE EvaluateNothing
  BY <1>2, <1>9 DEF EvaluateNothing, Goto, TypingInv, Counter
<1>10. CASE EvaluateFails
  BY <1>1, <1>10 DEF EvaluateFails
<1>11. CASE AddEvidence
  BY <1>1, <1>11 DEF AddEvidence
<1>12. CASE MarkEvaluated
  BY <1>2, <1>12 DEF MarkEvaluated, Goto, TypingInv, Counter
<1>13. CASE EndEvaluate
  BY <1>1, <1>13 DEF EndEvaluate, Goto
<1>14. CASE Resolve
  BY <1>2, <1>14 DEF Resolve, Goto, TypingInv, Counter
<1>15. CASE Grade
  BY <1>2, <1>15 DEF Grade, AppendAll
<1>16. CASE EndResolve
  BY <1>16, Transitions DEF EndResolve, Goto, TypingInv, Counter, MovesOpen, SourceOpen, Kept, Open
<1>17. CASE ChangeStatus
  <2>1. PICK m \in moves : status' = [status EXCEPT ![m[1]] = m[2]] /\ moves' = moves \ {m}
    BY <1>17 DEF ChangeStatus
  <2>2. m[1] \in Lessons /\ \A k \in moves : k[1] \in Lessons
    BY DEF TypingInv, TypeOK
  <2>3. \A l \in Lessons : l # m[1] => status'[l] = status[l]
    BY <2>1, <2>2 DEF TypingInv, TypeOK
  <2>4. MovesOpen' /\ Kept
    BY <2>1, <2>2, <2>3 DEF MovesOpen, Open, Kept
  <2>5. SourceOpen'
    BY <1>17 DEF ChangeStatus, SourceOpen, TypingInv, Counter
  <2> QED BY <2>4, <2>5
<1>18. CASE Merge
  <2>1. PICK l \in Unused : AddLesson(l, NoTrade)
    BY <1>18, NewLesson DEF Merge
  <2>2. /\ \A k \in Lessons : status[k] # "none" => status'[k] = status[k]
    BY <2>1, AddLessonKeeps DEF TypingInv
  <2>3. PICK from \in SUBSET Mergeable : moves' = from \X {"retired"}
    BY <1>18 DEF Merge
  <2>4. \A k \in from : k \in Lessons /\ Open(k) /\ status[k] # "none"
    BY DEF Mergeable, Live, Open, TERMINAL
  <2>5. MovesOpen'
    BY <2>2, <2>3, <2>4 DEF MovesOpen, Open
  <2>6. Kept
    BY <2>2 DEF Kept, TERMINAL
  <2>7. SourceOpen'
    BY <1>18 DEF Merge, Goto, SourceOpen, TypingInv, Counter
  <2> QED BY <2>5, <2>6, <2>7
<1>19. CASE Inherit
  <2>1. PICK m \in moves : cur' = m[1] /\ moves' = moves \ {m}
    BY <1>19 DEF Inherit
  <2>2. UNCHANGED status /\ m[1] \in Lessons
    BY <1>19 DEF Inherit, TypingInv, TypeOK
  <2> QED BY <2>1, <2>2 DEF MovesOpen, SourceOpen, Kept, Open
<1>20. CASE Retire
  <2>1. /\ status' = [status EXCEPT ![cur] = "retired"] /\ UNCHANGED moves
        /\ cur \in Lessons /\ Open(cur) /\ \A m \in moves : m[1] # cur
    BY <1>20 DEF Retire, SourceOpen
  <2>2. \A l \in Lessons : l # cur => status'[l] = status[l]
    BY <2>1 DEF TypingInv, TypeOK
  <2>3. \A m \in moves : m[1] \in Lessons
    BY DEF TypingInv, TypeOK
  <2>4. MovesOpen' /\ Kept
    BY <2>1, <2>2, <2>3 DEF MovesOpen, Open, Kept
  <2>5. SourceOpen'
    BY <1>20 DEF Retire, Goto, SourceOpen, TypingInv, Counter
  <2> QED BY <2>4, <2>5
<1>21. ASSUME Ends, UNCHANGED status PROVE MovesOpen' /\ SourceOpen' /\ Kept
  BY <1>21 DEF Ends, MovesOpen, SourceOpen, Kept
<1>22. CASE UNCHANGED vars
  BY <1>1, <1>22 DEF vars
<1> QED
  BY <1>3, <1>4, <1>5, <1>6, <1>7, <1>8, <1>9, <1>10, <1>11, <1>12, <1>13, <1>14, <1>15,
     <1>16, <1>17, <1>18, <1>19, <1>20, <1>21, <1>22 DEF Next, Step, Finish, Kill

\* A refuted or retired lesson never returns to the prompt (lessons.py:
\* "refuted/retired are terminal"), whatever passes are killed and merged.
THEOREM ClosedLessonsStay == Spec => TerminalForGood
<1>1. Init => MovesOpen /\ SourceOpen
  BY DEF Init, MovesOpen, SourceOpen
<1>2. TerminalInv /\ [Next]_vars /\ TypingInv' => TerminalInv'
  BY TerminalStep DEF TerminalInv
<1>3. TerminalInv /\ [Next]_vars /\ TypingInv' =>
        [\A l \in Lessons : status[l] \in TERMINAL => status'[l] = status[l]]_vars
  BY TerminalStep DEF Kept
<1> QED BY <1>1, <1>2, <1>3, LearnTypingInv, PTL DEF Spec, TerminalInv, TerminalForGood

-----------------------------------------------------------------------------
(* The embargo.  Three writers add evidence: the evaluator, from the       *)
(* closed trades and live lessons it read at its start; the grading of     *)
(* citations, from a judgment made before the trade's outcome; a merge,    *)
(* from other lessons.  The invariant follows the trades and the lessons   *)
(* from where they were read to where they are written.                    *)

InBook(l) == status[l] # "none"
Observable(t) == stage[t] \in {"closed", "due"}

\* A lesson is drawn from a trade that closed; a citation names an older one.
SourcesClosed ==
  \A l \in Lessons : source[l] \in Trades => stage[source[l]] = "closed"
CitesOlder ==
  \A t \in Trades : \A l \in cites[t] : InBook(l) /\ source[l] # t
EvidenceSeen ==
  \A l \in Lessons, rel \in Relations, t \in Trades :
    evidence[l][rel][t] > 0 => InBook(l) /\ Observable(t) /\ source[l] # t

\* What a pass has read, chosen and not yet written.
ListsClosed ==
  /\ \A i \in DOMAIN closed : stage[closed[i]] = "closed"
  /\ \A i \in DOMAIN todo : stage[todo[i]] = "closed"
FoundSeen == \A f \in found : InBook(f[1]) /\ Observable(f[3]) /\ source[f[1]] # f[3]
LiveInBook ==
  \A l \in live :
    InBook(l) /\ (pc \in {"merge", "retire"} \/ cont = "retire" => source[l] = NoTrade)
CurSeen == pc = "grade" => Observable(cur)

EmbargoInv ==
  /\ TypingInv
  /\ SourcesClosed /\ CitesOlder /\ EvidenceSeen
  /\ ListsClosed /\ FoundSeen /\ LiveInBook /\ CurSeen

BookPart == SourcesClosed /\ CitesOlder /\ EvidenceSeen
PassPart == ListsClosed /\ FoundSeen /\ LiveInBook /\ CurSeen

LEMMA EmbargoBook ==
  ASSUME EmbargoInv, [Next]_vars, TypingInv'
  PROVE  BookPart'
<1> USE DEF EmbargoInv, BookPart, trades, book, pass
<1>1. ASSUME UNCHANGED <<stage, cites, source, evidence>>,
             \A l \in Lessons : InBook(l) => InBook(l)'
      PROVE  BookPart'
  <2>1. SourcesClosed'
    BY <1>1 DEF SourcesClosed
  <2>2. CitesOlder'
    BY <1>1 DEF CitesOlder, TypingInv, TypeOK
  <2>3. EvidenceSeen'
    BY <1>1 DEF EvidenceSeen, Observable
  <2> QED BY <2>1, <2>2, <2>3
<1>2. ASSUME UNCHANGED <<stage, cites, source, evidence, status>> PROVE BookPart'
  BY <1>1, <1>2 DEF InBook
<1>3. ASSUME NEW t \in Trades, Decide(t) PROVE BookPart'
  <2>1. PICK to \in {"open", "vetoed"}, c \in SUBSET (Lessons \ Unused) :
          stage' = [stage EXCEPT ![t] = to] /\ cites' = [cites EXCEPT ![t] = c]
    BY <1>3 DEF Decide
  <2>2. stage[t] = "none" /\ UNCHANGED <<source, status, evidence>>
    BY <1>3 DEF Decide
  <2>3. \A u \in Trades : u # t => stage'[u] = stage[u] /\ cites'[u] = cites[u]
    BY <2>1 DEF TypingInv, TypeOK
  <2>4. cites'[t] = c /\ \A l \in c : l \in Lessons /\ InBook(l) /\ source[l] # t
    BY <2>1, <2>2 DEF TypingInv, TypeOK, Unused, InBook, SourcesClosed
  <2>5. SourcesClosed'
    BY <2>2, <2>3 DEF SourcesClosed
  <2>6. CitesOlder'
    BY <2>2, <2>3, <2>4 DEF CitesOlder, InBook
  <2>7. EvidenceSeen'
    BY <2>2, <2>3 DEF EvidenceSeen, Observable, InBook
  <2> QED BY <2>5, <2>6, <2>7
<1>4. ASSUME NEW t \in Trades, Close(t) PROVE BookPart'
  <2>1. /\ stage[t] = "open" /\ stage' = [stage EXCEPT ![t] = "closed"]
        /\ UNCHANGED <<cites, evidence>>
    BY <1>4 DEF Close
  <2>2. /\ stage'[t] = "closed" /\ \A u \in Trades : u # t => stage'[u] = stage[u]
        /\ \A u \in Trades : stage[u] = "closed" => stage'[u] = "closed"
        /\ \A u \in Trades : Observable(u) => Observable(u)'
    BY <2>1 DEF TypingInv, TypeOK, Observable
  <2>3. CASE UNCHANGED <<status, source>>
    <3>1. SourcesClosed'
      BY <2>2, <2>3 DEF SourcesClosed
    <3>2. CitesOlder'
      BY <2>1, <2>3 DEF CitesOlder, InBook
    <3>3. EvidenceSeen'
      BY <2>1, <2>2, <2>3 DEF EvidenceSeen, InBook
    <3> QED BY <3>1, <3>2, <3>3
  <2>4. ASSUME NEW l \in Unused, AddLesson(l, t) PROVE BookPart'
    <3>1. /\ \A k \in Lessons : InBook(k) => InBook(k)' /\ source'[k] = source[k]
          /\ \A k \in Lessons \ {l} : source'[k] = source[k]
          /\ source'[l] = t /\ l \in Lessons /\ ~InBook(l)
      BY <2>4, AddLessonKeeps DEF TypingInv, InBook
    <3>2. SourcesClosed'
      BY <2>2, <3>1 DEF SourcesClosed
    <3>3. CitesOlder'
      BY <2>1, <3>1 DEF CitesOlder, TypingInv, TypeOK
    <3>4. EvidenceSeen'
      BY <2>1, <2>2, <3>1 DEF EvidenceSeen
    <3> QED BY <3>2, <3>3, <3>4
  <2> QED BY <1>4, <2>3, <2>4, NewLesson DEF Close
<1>5. CASE NewDay
  <2>1. /\ \A u \in Trades : stage[u] = "closed" => stage'[u] = "closed"
        /\ \A u \in Trades : Observable(u) => Observable(u)'
    BY <1>5 DEF NewDay, TypingInv, TypeOK, Observable
  <2>2. UNCHANGED <<cites, source, status, evidence>>
    BY <1>5 DEF NewDay
  <2>3. SourcesClosed'
    BY <2>1, <2>2 DEF SourcesClosed
  <2>4. CitesOlder'
    BY <2>2 DEF CitesOlder, InBook
  <2>5. EvidenceSeen'
    BY <2>1, <2>2 DEF EvidenceSeen, InBook
  <2> QED BY <2>3, <2>4, <2>5
<1>6. CASE AddEvidence
  <2>1. PICK f \in found : evidence' = [evidence EXCEPT ![f[1]][f[2]][f[3]] = @ + 1]
    BY <1>6 DEF AddEvidence
  <2>2. f[1] \in Lessons /\ f[2] \in Relations /\ f[3] \in Trades
    BY DEF TypingInv, TypeOK
  <2>3. UNCHANGED <<stage, cites, source, status>>
    BY <1>6 DEF AddEvidence
  <2>4. ASSUME NEW l \in Lessons, NEW rel \in Relations, NEW t \in Trades,
               evidence'[l][rel][t] > 0, ~(l = f[1] /\ t = f[3])
        PROVE  evidence[l][rel][t] > 0
    BY <2>1, <2>2, <2>4 DEF TypingInv, TypeOK
  <2>5. EvidenceSeen'
    BY <2>2, <2>3, <2>4 DEF EvidenceSeen, FoundSeen, InBook, Observable
  <2>6. SourcesClosed' /\ CitesOlder'
    BY <2>3 DEF SourcesClosed, CitesOlder, InBook
  <2> QED BY <2>5, <2>6
<1>7. CASE ChangeStatus
  <2>1. PICK m \in moves : status' = [status EXCEPT ![m[1]] = m[2]]
    BY <1>7 DEF ChangeStatus
  <2>2. m[1] \in Lessons /\ m[2] # "none"
    BY DEF TypingInv, TypeOK
  <2>3. \A l \in Lessons : InBook(l) => InBook(l)'
    BY <2>1, <2>2 DEF TypingInv, TypeOK, InBook
  <2> QED BY <1>1, <1>7, <2>3 DEF ChangeStatus
<1>8. CASE Merge
  <2>1. PICK l \in Unused : AddLesson(l, NoTrade)
    BY <1>8, NewLesson DEF Merge
  <2>2. /\ \A k \in Lessons : InBook(k) => InBook(k)' /\ source'[k] = source[k]
        /\ \A k \in Lessons \ {l} : source'[k] = source[k]
        /\ source'[l] = NoTrade /\ l \in Lessons /\ ~InBook(l)
    BY <2>1, AddLessonKeeps DEF TypingInv, InBook
  <2>3. UNCHANGED <<stage, cites, evidence>>
    BY <1>8 DEF Merge
  <2>4. SourcesClosed'
    BY <2>2, <2>3, SetsAssumption DEF SourcesClosed
  <2>5. CitesOlder'
    BY <2>2, <2>3 DEF CitesOlder, TypingInv, TypeOK
  <2>6. EvidenceSeen'
    BY <2>2, <2>3 DEF EvidenceSeen, Observable
  <2> QED BY <2>4, <2>5, <2>6
<1>9. CASE Retire
  <2>1. \A l \in Lessons : InBook(l) => InBook(l)'
    BY <1>9 DEF Retire, TypingInv, TypeOK, InBook
  <2> QED BY <1>1, <1>9, <2>1 DEF Retire
<1>10. ASSUME Start \/ PassOver \/ Evaluate \/ EvaluateNothing \/ EvaluateFails
              \/ MarkEvaluated \/ EndEvaluate
       PROVE  BookPart'
  BY <1>2, <1>10 DEF Start, PassOver, Evaluate, EvaluateNothing, EvaluateFails,
                     MarkEvaluated, EndEvaluate
<1>11. ASSUME Resolve \/ Grade \/ EndResolve \/ Inherit \/ Finish \/ Kill PROVE BookPart'
  BY <1>2, <1>11 DEF Resolve, Grade, EndResolve, Inherit, Finish, Kill
<1>12. CASE UNCHANGED vars
  BY <1>2, <1>12 DEF vars
<1> QED
  BY <1>3, <1>4, <1>5, <1>6, <1>7, <1>8, <1>9, <1>10, <1>11, <1>12 DEF Next, Step

\* The steps of a pass that append nothing to the book and read nothing new.
LEMMA PassFrame ==
  ASSUME EmbargoInv, TypingInv',
         \A t \in Trades : stage[t] = "closed" => stage'[t] = "closed",
         \A t \in Trades : Observable(t) => Observable(t)',
         \A l \in Lessons : InBook(l) => InBook(l)' /\ source'[l] = source[l]
  PROVE  /\ UNCHANGED <<closed, todo>> => ListsClosed'
         /\ found' \subseteq found => FoundSeen'
         /\ live' \subseteq live /\ (pc' \in {"merge", "retire"} \/ cont' = "retire"
              => pc \in {"merge", "retire"} \/ cont = "retire") => LiveInBook'
         /\ (pc' = "grade" => pc = "grade" /\ cur' = cur) => CurSeen'
<1> USE DEF EmbargoInv
<1>1. ASSUME UNCHANGED <<closed, todo>> PROVE ListsClosed'
  BY <1>1 DEF ListsClosed, TypingInv, TypeOK
<1>2. ASSUME found' \subseteq found PROVE FoundSeen'
  <2>1. \A f \in found : f[1] \in Lessons /\ f[3] \in Trades
    BY DEF TypingInv, TypeOK
  <2> QED BY <1>2, <2>1 DEF FoundSeen
<1>3. ASSUME live' \subseteq live,
             pc' \in {"merge", "retire"} \/ cont' = "retire"
               => pc \in {"merge", "retire"} \/ cont = "retire"
      PROVE  LiveInBook'
  <2>1. live \subseteq Lessons
    BY DEF TypingInv, TypeOK
  <2> QED BY <1>3, <2>1 DEF LiveInBook
<1>4. ASSUME pc' = "grade" => pc = "grade" /\ cur' = cur PROVE CurSeen'
  BY <1>4 DEF CurSeen, TypingInv, Counter
<1> QED BY <1>1, <1>2, <1>3, <1>4

\* New entries of the list of evidence to append.
LEMMA AppendAllSeen ==
  ASSUME NEW fs, NEW l, AppendAll(fs, l), UNCHANGED <<stage, status, source>>,
         \A f \in fs : InBook(f[1]) /\ Observable(f[3]) /\ source[f[1]] # f[3]
  PROVE  FoundSeen'
BY DEF AppendAll, FoundSeen, InBook, Observable

LEMMA EmbargoPass ==
  ASSUME EmbargoInv, [Next]_vars, TypingInv'
  PROVE  PassPart'
<1> USE DEF EmbargoInv, PassPart, trades, book, pass
<1> DEFINE Still == UNCHANGED <<stage, status, source>>
<1>1. ASSUME Still
      PROVE  /\ \A t \in Trades : stage[t] = "closed" => stage'[t] = "closed"
             /\ \A t \in Trades : Observable(t) => Observable(t)'
             /\ \A l \in Lessons : InBook(l) => InBook(l)' /\ source'[l] = source[l]
  BY <1>1 DEF Observable, InBook
<1>2. ASSUME NEW t \in Trades, Decide(t) PROVE PassPart'
  <2>1. /\ \A u \in Trades : stage[u] = "closed" => stage'[u] = "closed"
        /\ \A u \in Trades : Observable(u) => Observable(u)'
    BY <1>2 DEF Decide, TypingInv, TypeOK, Observable
  <2>2. UNCHANGED <<status, source, closed, pass>>
    BY <1>2 DEF Decide
  <2> QED BY <2>1, <2>2, PassFrame DEF InBook
<1>3. ASSUME NEW t \in Trades, Close(t) PROVE PassPart'
  <2>1. /\ stage[t] = "open" /\ stage' = [stage EXCEPT ![t] = "closed"]
        /\ closed' = Append(closed, t) /\ UNCHANGED <<pass>> /\ pc = "idle"
    BY <1>3 DEF Close
  <2>2. /\ stage'[t] = "closed"
        /\ \A u \in Trades : stage[u] = "closed" => stage'[u] = "closed"
        /\ \A u \in Trades : Observable(u) => Observable(u)'
    BY <2>1 DEF TypingInv, TypeOK, Observable
  <2>3. \A l \in Lessons : InBook(l) => InBook(l)' /\ source'[l] = source[l]
    <3>1. CASE UNCHANGED <<status, source>>
      BY <3>1 DEF InBook
    <3>2. ASSUME NEW k \in Unused, AddLesson(k, t)
          PROVE  \A l \in Lessons : InBook(l) => InBook(l)' /\ source'[l] = source[l]
      BY <3>2, AddLessonKeeps DEF TypingInv, InBook
    <3> QED BY <1>3, <3>1, <3>2, NewLesson DEF Close
  <2>4. ListsClosed'
    <3>1. closed \in Seq(Trades) /\ todo \in Seq(Trades)
      BY DEF TypingInv, TypeOK
    <3>2. \A i \in DOMAIN closed' : closed'[i] = t \/ (i \in DOMAIN closed /\ closed'[i] = closed[i])
      BY <2>1, <3>1
    <3>3. \A i \in DOMAIN closed : closed[i] \in Trades
      BY <3>1
    <3>4. \A i \in DOMAIN todo : todo[i] \in Trades
      BY <3>1
    <3> QED BY <2>1, <2>2, <3>2, <3>3, <3>4 DEF ListsClosed
  <2>5. FoundSeen'
    <3>1. \A f \in found : f[1] \in Lessons /\ f[3] \in Trades
      BY DEF TypingInv, TypeOK
    <3> QED BY <2>1, <2>2, <2>3, <3>1 DEF FoundSeen
  <2>6. LiveInBook'
    <3>1. live \subseteq Lessons
      BY DEF TypingInv, TypeOK
    <3> QED BY <2>1, <2>3, <3>1 DEF LiveInBook, TypingInv, Counter
  <2> QED BY <2>1, <2>4, <2>5, <2>6 DEF CurSeen
<1>4. CASE NewDay
  <2>1. /\ \A u \in Trades : stage[u] = "closed" => stage'[u] = "closed"
        /\ \A u \in Trades : Observable(u) => Observable(u)'
    BY <1>4 DEF NewDay, TypingInv, TypeOK, Observable
  <2>2. UNCHANGED <<status, source, closed, pass>>
    BY <1>4 DEF NewDay
  <2> QED BY <2>1, <2>2, PassFrame DEF InBook
<1>5. CASE Start
  <2>1. Still /\ UNCHANGED <<closed, found>> /\ todo' = closed /\ live' = Live
        /\ pc' = "evaluate" /\ cont' = "idle"
    BY <1>5 DEF Start, Goto, TypingInv, Counter
  <2>2. ListsClosed'
    BY <2>1 DEF ListsClosed
  <2>3. LiveInBook'
    BY <2>1 DEF LiveInBook, Live, InBook
  <2> QED BY <1>1, <2>1, <2>2, <2>3, PassFrame
<1>6. ASSUME todo # <<>>, todo' = Tail(todo), UNCHANGED <<stage, closed>>
      PROVE  ListsClosed' /\ Head(todo) \in Trades /\ stage[Head(todo)] = "closed"
  <2>1. todo \in Seq(Trades)
    BY DEF TypingInv, TypeOK
  <2>2. 1 \in DOMAIN todo /\ Head(todo) = todo[1]
    BY <1>6, <2>1
  <2>3. \A i \in DOMAIN Tail(todo) : i + 1 \in DOMAIN todo /\ Tail(todo)[i] = todo[i + 1]
    BY <1>6, <2>1
  <2> QED BY <1>6, <2>1, <2>2, <2>3 DEF ListsClosed
<1>7. CASE PassOver
  BY <1>1, <1>6, <1>7, PassFrame DEF PassOver
<1>8. CASE Evaluate
  <2>1. /\ Still /\ UNCHANGED <<closed, live>> /\ pc = "evaluate"
        /\ todo # <<>> /\ todo' = Tail(todo)
    BY <1>8 DEF Evaluate, Due
  <2>2. PICK said \in [Candidates(Head(todo)) -> Relations \cup {"unrelated"}] :
          AppendAll({<<l, said[l], Head(todo)>> :
                       l \in {x \in DOMAIN said : said[x] # "unrelated"}}, "mark")
    BY <1>8, Zenon DEF Evaluate
  <2>3. \A l \in Candidates(Head(todo)) : InBook(l) /\ source[l] # Head(todo)
    BY DEF Candidates, LiveInBook
  <2>4. Observable(Head(todo))
    BY <1>6, <2>1 DEF Observable
  <2> DEFINE facts ==
        {<<l, said[l], Head(todo)>> : l \in {x \in DOMAIN said : said[x] # "unrelated"}}
  <2>5. \A f \in facts : InBook(f[1]) /\ Observable(f[3]) /\ source[f[1]] # f[3]
    BY <2>3, <2>4
  <2>6. AppendAll(facts, "mark")
    BY <2>2
  <2> HIDE DEF facts
  <2>7. FoundSeen'
    BY <2>1, <2>5, <2>6, AppendAllSeen
  <2>8. pc' \notin {"grade", "merge", "retire"} /\ cont' # "retire"
    BY <2>6 DEF AppendAll
  <2> QED BY <1>1, <1>6, <2>1, <2>7, <2>8, PassFrame
<1>9. CASE EvaluateNothing
  <2>1. /\ Still /\ UNCHANGED <<closed, live, found, cont>> /\ pc = "evaluate" /\ pc' = "mark"
        /\ todo # <<>> /\ todo' = Tail(todo)
    BY <1>9 DEF EvaluateNothing, Due, Goto
  <2> QED BY <1>1, <1>6, <2>1, PassFrame
<1>10. CASE EvaluateFails
  <2>1. /\ Still /\ UNCHANGED <<closed, live, found, pc, cont, cur>>
        /\ todo # <<>> /\ todo' = Tail(todo)
    BY <1>10 DEF EvaluateFails, Due
  <2> QED BY <1>1, <1>6, <2>1, PassFrame
<1>11. CASE AddEvidence
  <2>1. /\ Still /\ UNCHANGED <<closed, todo, live, cur>> /\ found' \subseteq found
        /\ (pc' = cont /\ cont' = "idle") \/ UNCHANGED <<pc, cont>>
    BY <1>11 DEF AddEvidence
  <2>2. cont \in {"idle", "mark", "resolve", "retire"}
    BY DEF TypingInv, TypeOK
  <2> QED BY <1>1, <2>1, <2>2, PassFrame
<1>12. CASE MarkEvaluated
  <2>1. Still /\ UNCHANGED <<closed, todo, live, found, cont>> /\ pc' = "evaluate"
    BY <1>12 DEF MarkEvaluated, Goto
  <2> QED BY <1>1, <2>1, PassFrame
<1>13. CASE EndEvaluate
  <2>1. Still /\ UNCHANGED <<closed, found, cont>> /\ pc' = "resolve" /\ todo' = <<>> /\ live' = {}
    BY <1>13 DEF EndEvaluate, Goto
  <2>2. ListsClosed'
    BY <2>1 DEF ListsClosed
  <2>3. live' \subseteq live
    BY <2>1
  <2> QED BY <1>1, <2>1, <2>2, <2>3, PassFrame
<1>14. CASE Resolve
  <2>1. Still /\ UNCHANGED <<closed, todo, live, found, cont>> /\ pc' = "grade" /\ cur' \in Observed
    BY <1>14 DEF Resolve, Goto
  <2>2. CurSeen'
    BY <2>1 DEF Observed, CurSeen, Observable
  <2> QED BY <1>1, <2>1, <2>2, PassFrame
<1>15. CASE Grade
  <2>1. Still /\ UNCHANGED <<closed, todo, live>> /\ pc = "grade"
    BY <1>15 DEF Grade
  <2>2. PICK rel \in Relations : AppendAll({<<l, rel, cur>> : l \in Graded}, "resolve")
    BY <1>15 DEF Grade
  <2>3. cur \in Trades /\ Observable(cur)
    BY <2>1 DEF TypingInv, Counter, CurSeen
  <2>4. \A l \in Graded : InBook(l) /\ source[l] # cur
    BY <2>3 DEF Graded, CitesOlder
  <2> DEFINE facts == {<<l, rel, cur>> : l \in Graded}
  <2>5. \A f \in facts : InBook(f[1]) /\ Observable(f[3]) /\ source[f[1]] # f[3]
    BY <2>3, <2>4
  <2>6. AppendAll(facts, "resolve")
    BY <2>2
  <2> HIDE DEF facts
  <2>7. FoundSeen'
    BY <2>1, <2>5, <2>6, AppendAllSeen
  <2>8. pc' \notin {"grade", "merge", "retire"} /\ cont' # "retire"
    BY <2>6 DEF AppendAll
  <2> QED BY <1>1, <2>1, <2>7, <2>8, PassFrame
<1>16. CASE EndResolve
  <2>1. Still /\ UNCHANGED <<closed, todo, live, found, cont>> /\ pc' = "change"
    BY <1>16 DEF EndResolve, Goto
  <2> QED BY <1>1, <2>1, PassFrame
<1>17. CASE ChangeStatus
  <2>1. PICK m \in moves : status' = [status EXCEPT ![m[1]] = m[2]]
    BY <1>17 DEF ChangeStatus
  <2>2. m[1] \in Lessons /\ m[2] # "none"
    BY DEF TypingInv, TypeOK
  <2>3. \A l \in Lessons : InBook(l) => InBook(l)'
    BY <2>1, <2>2 DEF TypingInv, TypeOK, InBook
  <2>4. UNCHANGED <<stage, source, closed, todo, live, found, pc, cont, cur>>
    BY <1>17 DEF ChangeStatus
  <2> QED BY <2>3, <2>4, PassFrame DEF Observable
<1>18. CASE Merge
  <2>1. PICK l \in Unused : AddLesson(l, NoTrade) /\ live' = {l}
    BY <1>18, NewLesson DEF Merge
  <2>2. /\ \A k \in Lessons : InBook(k) => InBook(k)' /\ source'[k] = source[k]
        /\ source'[l] = NoTrade /\ InBook(l)'
    BY <2>1, AddLessonKeeps DEF TypingInv, InBook
  <2>3. UNCHANGED <<stage, closed, todo, found, cont>> /\ pc' = "merge"
    BY <1>18 DEF Merge, Goto
  <2>4. LiveInBook'
    BY <2>1, <2>2 DEF LiveInBook
  <2> QED BY <2>2, <2>3, <2>4, PassFrame DEF Observable
<1>19. CASE Inherit
  <2>1. Still /\ UNCHANGED <<closed, todo, live>> /\ pc = "merge"
    BY <1>19 DEF Inherit
  <2>2. PICK m \in moves, new \in live :
          AppendAll({<<new, e[1], e[2]>> : e \in Inherited(m[1], new)}, "retire")
    BY <1>19 DEF Inherit
  <2>3. /\ m[1] \in Lessons /\ new \in Lessons
        /\ InBook(new) /\ source[new] = NoTrade
    BY <2>1 DEF TypingInv, TypeOK, LiveInBook
  <2>4. \A e \in Inherited(m[1], new) : e[2] \in Trades /\ Observable(e[2])
    BY <2>3 DEF Inherited, EvidenceSeen
  <2> DEFINE facts == {<<new, e[1], e[2]>> : e \in Inherited(m[1], new)}
  <2>5. \A f \in facts : InBook(f[1]) /\ Observable(f[3]) /\ source[f[1]] # f[3]
    BY <2>3, <2>4, SetsAssumption
  <2>6. AppendAll(facts, "retire")
    BY <2>2
  <2> HIDE DEF facts
  <2>7. FoundSeen'
    BY <2>1, <2>5, <2>6, AppendAllSeen
  <2>8. pc' # "grade"
    BY <2>6 DEF AppendAll
  <2> QED BY <1>1, <2>1, <2>7, <2>8, PassFrame
<1>20. CASE Retire
  <2>1. \A l \in Lessons : InBook(l) => InBook(l)'
    BY <1>20 DEF Retire, TypingInv, TypeOK, InBook
  <2>2. UNCHANGED <<stage, source, closed, todo, live, found, cont>> /\ pc = "retire" /\ pc' = "merge"
    BY <1>20 DEF Retire, Goto
  <2> QED BY <2>1, <2>2, PassFrame DEF Observable
<1>21. ASSUME Ends, Still, UNCHANGED closed PROVE PassPart'
  BY <1>21 DEF Ends, ListsClosed, FoundSeen, LiveInBook, CurSeen
<1>22. CASE UNCHANGED vars
  BY <1>1, <1>22, PassFrame DEF vars
<1> QED
  BY <1>2, <1>3, <1>4, <1>5, <1>7, <1>8, <1>9, <1>10, <1>11, <1>12, <1>13, <1>14, <1>15,
     <1>16, <1>17, <1>18, <1>19, <1>20, <1>21, <1>22 DEF Next, Step, Finish, Kill

\* No lesson is scored by a trade whose outcome was not yet observable, nor by
\* the trade it was drawn from (learn.py: "a trade never provides evidence for
\* the lesson it created"), for every book, limit and history of merges.
THEOREM EmbargoHolds == Spec => []EvidenceEmbargoed
<1>1. Init => BookPart /\ PassPart
  BY SetsAssumption DEF Init, BookPart, PassPart, SourcesClosed, CitesOlder, EvidenceSeen,
     ListsClosed, FoundSeen, LiveInBook, CurSeen
<1>2. EmbargoInv /\ [Next]_vars /\ TypingInv' => EmbargoInv'
  BY EmbargoBook, EmbargoPass DEF EmbargoInv, BookPart, PassPart
<1>3. EmbargoInv => EvidenceEmbargoed
  BY DEF EmbargoInv, EvidenceSeen, EvidenceEmbargoed, Trial, Observable
<1>4. TypingInv /\ BookPart /\ PassPart => EmbargoInv
  BY DEF EmbargoInv, BookPart, PassPart
<1> QED BY <1>1, <1>2, <1>3, <1>4, LearnTypingInv, PTL DEF Spec

-----------------------------------------------------------------------------
(* The refinement: LearningLoop implements LessonLife.  What a pass still  *)
(* has to write goes to open lessons.  Its lists were made earlier: the    *)
(* lessons it evaluates or merges into, and the evidence to append; no     *)
(* status changes while they are in use, but for the sources of a merge,   *)
(* which are none of them.                                                 *)

Merging == pc \in {"merge", "retire"} \/ cont = "retire"

LiveOpen ==
  /\ \A l \in live : Open(l)
  /\ pc \in {"resolve", "grade", "change"} \/ cont = "resolve" => live = {}
  /\ Merging => \A m \in moves : m[1] \notin live
  /\ pc = "retire" \/ cont = "retire" => cur \notin live

FoundOpen ==
  /\ pc # "evidence" => found = {}
  /\ \A f \in found : Open(f[1])

OpenInv == TypingInv /\ LiveOpen /\ FoundOpen

LEMMA AppendAllOpen ==
  ASSUME NEW fs, NEW l, l # "evidence", AppendAll(fs, l), UNCHANGED status,
         \A f \in fs : Open(f[1])
  PROVE  FoundOpen'
BY DEF AppendAll, FoundOpen, Open

\* A new lesson closes none, nor does a step that writes no status.
LEMMA OpenLists ==
  ASSUME OpenInv, \A k \in Lessons : status[k] # "none" => status'[k] = status[k]
  PROVE  /\ \A l \in live : Open(l)'
         /\ \A f \in found : Open(f[1])'
<1>1. live \subseteq Lessons /\ \A f \in found : f[1] \in Lessons
  BY DEF OpenInv, TypingInv, TypeOK
<1> QED BY <1>1 DEF OpenInv, LiveOpen, FoundOpen, Open

LEMMA OpenStep ==
  ASSUME OpenInv, [Next]_vars, TypingInv'
  PROVE  LiveOpen' /\ FoundOpen'
<1> USE DEF OpenInv, trades, book, pass
<1>1. ASSUME \A k \in Lessons : status[k] # "none" => status'[k] = status[k], UNCHANGED pass
      PROVE  LiveOpen' /\ FoundOpen'
  BY <1>1, OpenLists DEF LiveOpen, FoundOpen, Merging
<1>2. ASSUME NEW t \in Trades, Decide(t) PROVE LiveOpen' /\ FoundOpen'
  BY <1>1, <1>2 DEF Decide
<1>3. ASSUME NEW t \in Trades, Close(t) PROVE LiveOpen' /\ FoundOpen'
  <2>1. \A k \in Lessons : status[k] # "none" => status'[k] = status[k]
    <3>1. ASSUME NEW l \in Unused, AddLesson(l, t)
          PROVE  \A k \in Lessons : status[k] # "none" => status'[k] = status[k]
      BY <3>1, AddLessonKeeps DEF TypingInv
    <3> QED BY <1>3, <3>1, NewLesson DEF Close
  <2> QED BY <1>1, <1>3, <2>1 DEF Close
<1>4. CASE NewDay
  BY <1>1, <1>4 DEF NewDay
<1>5. CASE Start
  BY <1>5 DEF Start, Goto, LiveOpen, FoundOpen, Merging, Live, Open, TERMINAL, TypingInv, Counter
<1>6. CASE PassOver
  BY <1>6 DEF PassOver, LiveOpen, FoundOpen, Merging, Open
<1>7. CASE Evaluate
  <2>1. /\ UNCHANGED <<status, live, moves>> /\ pc = "evaluate"
    BY <1>7 DEF Evaluate
  <2>2. PICK said \in [Candidates(Head(todo)) -> Relations \cup {"unrelated"}] :
          AppendAll({<<l, said[l], Head(todo)>> :
                       l \in {x \in DOMAIN said : said[x] # "unrelated"}}, "mark")
    BY <1>7, Zenon DEF Evaluate
  <2> DEFINE facts ==
        {<<l, said[l], Head(todo)>> : l \in {x \in DOMAIN said : said[x] # "unrelated"}}
  <2>3. \A f \in facts : Open(f[1])
    BY DEF Candidates, LiveOpen
  <2>4. AppendAll(facts, "mark")
    BY <2>2
  <2> HIDE DEF facts
  <2>5. FoundOpen'
    BY <2>1, <2>3, <2>4, AppendAllOpen
  <2>6. pc' \in {"mark", "evidence"} /\ cont' \in {"idle", "mark"}
    BY <2>4 DEF AppendAll
  <2> QED BY <2>1, <2>5, <2>6 DEF LiveOpen, Merging, Open
<1>8. CASE EvaluateNothing
  BY <1>8 DEF EvaluateNothing, Goto, LiveOpen, FoundOpen, Merging, Open, TypingInv, Counter
<1>9. CASE EvaluateFails
  BY <1>9 DEF EvaluateFails, LiveOpen, FoundOpen, Merging, Open
<1>10. CASE AddEvidence
  <2>1. PICK f \in found :
          /\ found' = found \ {f}
          /\ IF found = {f} THEN pc' = cont /\ cont' = "idle" ELSE UNCHANGED <<pc, cont>>
    BY <1>10 DEF AddEvidence
  <2>2. UNCHANGED <<status, live, moves, cur>> /\ pc = "evidence"
    BY <1>10 DEF AddEvidence
  <2>3. cont \in {"idle", "mark", "resolve", "retire"}
    BY DEF TypingInv, TypeOK
  <2>4. FoundOpen'
    BY <2>1, <2>2 DEF FoundOpen, Open
  <2> QED BY <2>1, <2>2, <2>3, <2>4 DEF LiveOpen, Merging, Open
<1>11. CASE MarkEvaluated
  BY <1>11 DEF MarkEvaluated, Goto, LiveOpen, FoundOpen, Merging, Open, TypingInv, Counter
<1>12. CASE EndEvaluate
  BY <1>12 DEF EndEvaluate, Goto, LiveOpen, FoundOpen, Merging, Open, TypingInv, Counter
<1>13. CASE Resolve
  BY <1>13 DEF Resolve, Goto, LiveOpen, FoundOpen, Merging, Open, TypingInv, Counter
<1>14. CASE Grade
  <2>1. /\ UNCHANGED <<status, live, moves>> /\ pc = "grade" /\ live = {}
    BY <1>14 DEF Grade, LiveOpen
  <2>2. PICK rel \in Relations : AppendAll({<<l, rel, cur>> : l \in Graded}, "resolve")
    BY <1>14 DEF Grade
  <2> DEFINE facts == {<<l, rel, cur>> : l \in Graded}
  <2>3. \A f \in facts : Open(f[1])
    BY DEF Graded, Live, Open, TERMINAL
  <2>4. AppendAll(facts, "resolve")
    BY <2>2
  <2> HIDE DEF facts
  <2>5. FoundOpen'
    BY <2>1, <2>3, <2>4, AppendAllOpen
  <2>6. pc' \in {"resolve", "evidence"} /\ cont' \in {"idle", "resolve"}
    BY <2>4 DEF AppendAll
  <2> QED BY <2>1, <2>5, <2>6 DEF LiveOpen, Merging, Open
<1>15. CASE EndResolve
  BY <1>15 DEF EndResolve, Goto, LiveOpen, FoundOpen, Merging, Open, TypingInv, Counter
<1>16. CASE ChangeStatus
  BY <1>16 DEF ChangeStatus, LiveOpen, FoundOpen, Merging, Open, TypingInv, Counter
<1>17. CASE Merge
  <2>1. PICK l \in Unused : AddLesson(l, NoTrade) /\ live' = {l}
    BY <1>17, NewLesson DEF Merge
  <2>2. /\ l \in Lessons /\ status'[l] = "candidate"
    BY <2>1, AddLessonKeeps DEF TypingInv
  <2>3. PICK from \in SUBSET Mergeable : moves' = from \X {"retired"}
    BY <1>17 DEF Merge
  <2>4. l \notin from
    BY <2>1 DEF Mergeable, Live, Unused
  <2>5. pc' = "merge" /\ cont' = "idle" /\ found' = {}
    BY <1>17 DEF Merge, Goto, FoundOpen, TypingInv, Counter
  <2> QED BY <2>1, <2>2, <2>3, <2>4, <2>5 DEF LiveOpen, FoundOpen, Merging, Open, TERMINAL
<1>18. CASE Inherit
  <2>1. /\ UNCHANGED <<status, live>> /\ pc = "merge"
    BY <1>18 DEF Inherit
  <2>2. PICK m \in moves, new \in live :
          /\ AppendAll({<<new, e[1], e[2]>> : e \in Inherited(m[1], new)}, "retire")
          /\ cur' = m[1] /\ moves' = moves \ {m}
    BY <1>18 DEF Inherit
  <2> DEFINE facts == {<<new, e[1], e[2]>> : e \in Inherited(m[1], new)}
  <2>3. \A f \in facts : Open(f[1])
    BY DEF LiveOpen
  <2>4. AppendAll(facts, "retire")
    BY <2>2
  <2> HIDE DEF facts
  <2>5. FoundOpen'
    BY <2>1, <2>3, <2>4, AppendAllOpen
  <2>6. pc' \in {"retire", "evidence"} /\ cont' \in {"idle", "retire"}
    BY <2>4 DEF AppendAll
  <2> QED BY <2>1, <2>2, <2>5, <2>6 DEF LiveOpen, Merging, Open
<1>19. CASE Retire
  <2>1. /\ status' = [status EXCEPT ![cur] = "retired"] /\ UNCHANGED <<live, moves>>
        /\ pc = "retire" /\ pc' = "merge" /\ cont' = "idle" /\ found' = {} /\ cur \notin live
    BY <1>19 DEF Retire, Goto, LiveOpen, FoundOpen, TypingInv, Counter
  <2>2. \A l \in live : status'[l] = status[l]
    BY <2>1 DEF TypingInv, TypeOK
  <2> QED BY <2>1, <2>2 DEF LiveOpen, FoundOpen, Merging, Open
<1>20. ASSUME Ends PROVE LiveOpen' /\ FoundOpen'
  BY <1>20 DEF Ends, LiveOpen, FoundOpen, Merging
<1>21. CASE UNCHANGED vars
  BY <1>1, <1>21 DEF vars
<1> QED
  BY <1>2, <1>3, <1>4, <1>5, <1>6, <1>7, <1>8, <1>9, <1>10, <1>11, <1>12, <1>13, <1>14,
     <1>15, <1>16, <1>17, <1>18, <1>19, <1>20, <1>21 DEF Next, Step, Finish, Kill
-----------------------------------------------------------------------------
(* The steps.                                                              *)

Unseen == UNCHANGED <<status, source>> /\ UNCHANGED <<stage, evidence>>

\* What one more count of a trade leaves of the evidence.
LEMMA Counted ==
  ASSUME NEW e \in [Lessons -> [Relations -> [Trades -> Nat]]],
         NEW l \in Lessons, NEW rel \in Relations, NEW t \in Trades,
         NEW k \in Lessons, NEW side \in Relations, NEW u \in Trades,
         NEW next, next = [e EXCEPT ![l][rel][t] = @ + 1]
  PROVE  next[k][side][u] =
           IF k = l /\ side = rel /\ u = t THEN e[k][side][u] + 1 ELSE e[k][side][u]
<1>1. e[l] \in [Relations -> [Trades -> Nat]] /\ e[l][rel] \in [Trades -> Nat]
  OBVIOUS
<1>2. CASE k # l
  BY <1>2
<1>3. CASE k = l /\ side # rel
  BY <1>1, <1>3
<1>4. CASE k = l /\ side = rel
  BY <1>1, <1>4
<1> QED BY <1>2, <1>3, <1>4

LEMMA Stutters ==
  ASSUME Unseen
  PROVE  UNCHANGED Life!life
BY DEF Unseen, Life!life, Known, Credit, Trial

LEMMA StepImplements ==
  ASSUME TypingInv, MovesOpen, SourceOpen, EmbargoInv, OpenInv, [Next]_vars
  PROVE  [Life!Next]_Life!life
<1> USE DEF trades, book, pass
<1>1. ASSUME UNCHANGED evidence PROVE UNCHANGED Credit
  BY <1>1 DEF Credit, Trial
<1>2. ASSUME UNCHANGED stage PROVE UNCHANGED Known
  BY <1>2 DEF Known
<1>3. ASSUME NEW t \in Trades, Decide(t) PROVE UNCHANGED Life!life
  <2>1. \A u \in Trades : stage'[u] \in {"closed", "due"} <=> stage[u] \in {"closed", "due"}
    BY <1>3 DEF Decide, TypingInv, TypeOK
  <2>2. UNCHANGED Known
    BY <2>1 DEF Known
  <2> QED BY <1>1, <1>3, <2>2 DEF Decide, Life!life
<1>4. ASSUME NEW t \in Trades, Close(t) PROVE Life!Next
  <2>1. /\ stage[t] = "open" /\ stage'[t] = "closed"
        /\ \A u \in Trades : u # t => stage'[u] = stage[u]
    BY <1>4 DEF Close, TypingInv, TypeOK
  <2>2. t \notin Known /\ Known' = Known \cup {t}
    BY <2>1 DEF Known
  <2>3. UNCHANGED Credit
    BY <1>1, <1>4 DEF Close
  <2>4. CASE UNCHANGED <<status, source, quiet>>
    BY <2>2, <2>3, <2>4 DEF Life!Next, Life!Learn
  <2>5. ASSUME NEW l \in Unused, AddLesson(l, t) PROVE Life!Next
    <3>1. l \in Lessons /\ Life!Create(l, t)
      BY <2>3, <2>5 DEF Unused, AddLesson, Life!Create
    <3> QED BY <2>2, <3>1 DEF Life!Draw, Life!Next
  <2> QED BY <1>4, <2>4, <2>5, NewLesson DEF Close
<1>5. CASE NewDay
  <2>1. \A u \in Trades : stage[u] \in {"closed", "due"} => stage'[u] = stage[u]
    BY <1>5 DEF NewDay, TypingInv, TypeOK
  <2>2. Known \subseteq Known' /\ UNCHANGED Credit
    BY <1>1, <1>5, <2>1 DEF NewDay, Known
  <2> QED BY <1>5, <2>2 DEF NewDay, Life!Next, Life!Learn
<1>6. CASE AddEvidence
  <2>1. PICK f \in found : evidence' = [evidence EXCEPT ![f[1]][f[2]][f[3]] = @ + 1]
    BY <1>6 DEF AddEvidence
  <2>2. f[1] \in Lessons /\ f[2] \in Relations /\ f[3] \in Trades
    BY DEF TypingInv, TypeOK
  <2>3. f[3] \in Known /\ source[f[1]] # f[3] /\ Life!IsOpen(f[1])
    BY <2>2 DEF EmbargoInv, FoundSeen, Observable, Known, OpenInv, FoundOpen, Open, Life!IsOpen,
                TypingInv, TypeOK
  <2>4. Credit' = [Credit EXCEPT ![f[1]] = @ \cup {f[3]}]
    <3>1. ASSUME NEW l \in Lessons, NEW rel \in Relations, NEW t \in Trades
          PROVE  evidence'[l][rel][t] =
                   IF l = f[1] /\ rel = f[2] /\ t = f[3] THEN evidence[l][rel][t] + 1
                                                       ELSE evidence[l][rel][t]
      <4>1. evidence \in [Lessons -> [Relations -> [Trades -> Nat]]]
        BY DEF TypingInv, TypeOK
      <4> QED BY <2>1, <2>2, <4>1, Counted
    <3>2. \A l \in Lessons, rel \in Relations, t \in Trades : evidence[l][rel][t] \in Nat
      BY DEF TypingInv, TypeOK
    <3>3. ASSUME NEW l \in Lessons
          PROVE  Trial(l)' = IF l = f[1] THEN Trial(l) \cup {f[3]} ELSE Trial(l)
      BY <2>2, <3>1, <3>2 DEF Trial
    <3> QED BY <2>2, <3>3 DEF Credit
  <2>5. UNCHANGED <<status, source>> /\ UNCHANGED Known
    BY <1>2, <1>6 DEF AddEvidence
  <2> QED BY <2>2, <2>3, <2>4, <2>5 DEF Life!Score, Life!Next
<1>7. ASSUME NEW l \in Lessons, NEW to \in {"active", "refuted", "retired"}, Open(l),
             status' = [status EXCEPT ![l] = to], UNCHANGED source, UNCHANGED <<stage, evidence>>
      PROVE  Life!Next
  <2>1. Life!IsOpen(l)
    BY <1>7 DEF Open, Life!IsOpen, TypingInv, TypeOK
  <2> QED BY <1>1, <1>2, <1>7, <2>1 DEF Life!Advance, Life!Next
<1>8. CASE ChangeStatus
  <2>1. PICK m \in moves : status' = [status EXCEPT ![m[1]] = m[2]]
    BY <1>8 DEF ChangeStatus
  <2>2. m[1] \in Lessons /\ m[2] \in {"active", "refuted", "retired"} /\ Open(m[1])
    BY DEF TypingInv, TypeOK, MovesOpen
  <2> QED BY <1>7, <1>8, <2>1, <2>2 DEF ChangeStatus
<1>9. CASE Retire
  BY <1>7, <1>9 DEF Retire, SourceOpen
<1>10. CASE Merge
  <2>1. PICK l \in Unused : AddLesson(l, NoTrade)
    BY <1>10, NewLesson DEF Merge
  <2>2. UNCHANGED Credit /\ UNCHANGED Known
    BY <1>1, <1>2, <1>10 DEF Merge
  <2>3. l \in Lessons /\ Life!MergeInto(l)
    BY <2>1, <2>2 DEF Unused, AddLesson, Life!Create, Life!MergeInto
  <2> QED BY <2>3 DEF Life!Next
<1>11. ASSUME \/ Start \/ PassOver \/ Evaluate \/ EvaluateNothing \/ EvaluateFails
              \/ MarkEvaluated \/ EndEvaluate
       PROVE  Unseen
  BY <1>11 DEF Unseen, Start, PassOver, Evaluate, EvaluateNothing, EvaluateFails,
               MarkEvaluated, EndEvaluate
<1>12. ASSUME Resolve \/ Grade \/ EndResolve \/ Inherit \/ Finish \/ Kill PROVE Unseen
  BY <1>12 DEF Unseen, Resolve, Grade, EndResolve, Inherit, Finish, Kill
<1>13. CASE UNCHANGED vars
  BY <1>13, Stutters DEF vars, Unseen
<1> QED
  BY <1>3, <1>4, <1>5, <1>6, <1>8, <1>9, <1>10, <1>11, <1>12, <1>13, Stutters DEF Next, Step

Strong == TerminalInv /\ EmbargoInv /\ OpenInv

LEMMA StrongHolds == Spec => []Strong
<1>1. Init => MovesOpen /\ SourceOpen /\ BookPart /\ PassPart /\ LiveOpen /\ FoundOpen
  BY SetsAssumption DEF Init, MovesOpen, SourceOpen, BookPart, PassPart, SourcesClosed,
     CitesOlder, EvidenceSeen, ListsClosed, FoundSeen, LiveInBook, CurSeen, LiveOpen, FoundOpen,
     Merging
<1>2. TypingInv /\ Init => Strong
  BY <1>1 DEF Strong, TerminalInv, EmbargoInv, OpenInv, BookPart, PassPart
<1>3. Strong /\ [Next]_vars /\ TypingInv' => Strong'
  BY TerminalStep, EmbargoBook, EmbargoPass, OpenStep
  DEF Strong, TerminalInv, EmbargoInv, OpenInv, BookPart, PassPart
<1> QED BY <1>2, <1>3, LearnTypingInv, PTL DEF Spec


\* The passes, killed anywhere, implement the lesson book: no lesson is created
\* twice, scored by a trade it was drawn from or whose outcome is not known, or
\* moved or scored once it is closed (lessons.py's lifecycle), for every book.
THEOREM PassesKeepTheBook == Spec => ImplementsLife
<1>1. Init => Life!Init
  <2> SUFFICES ASSUME Init PROVE Life!Init
    OBVIOUS
  <2>1. Known = {}
    BY DEF Init, Known
  <2>2. Credit = [l \in Lessons |-> {}]
    BY DEF Init, Credit, Trial
  <2> QED BY <2>1, <2>2 DEF Init, Life!Init
<1>2. Strong /\ [Next]_vars => [Life!Next]_Life!life
  BY StepImplements DEF Strong, TerminalInv
<1> QED BY <1>1, <1>2, StrongHolds, PTL DEF Spec, ImplementsLife, Life!Spec

-----------------------------------------------------------------------------
(* Each outcome counts, and counts once.  A trade is on trial for a lesson *)
(* only after its mark, or while the pass that will mark it writes what it *)
(* found; so what a citation or a merge adds later is not yet there.  That *)
(* holds as long as no closed trade has missed a pass: a trade waits for   *)
(* the evaluator in no other way than on the list of the pass.  A citation *)
(* that was resolved is graded, or the pass is still at it.                *)

Marking == pc = "mark" \/ cont = "mark"

ClosedTrades == \A t \in Trades : stage[t] = "closed" <=> \E i \in DOMAIN closed : closed[i] = t
ResolvedSeen == \A t \in resolved : Observable(t)
FoundCur ==
  /\ cont = "mark" => \A f \in found : f[3] = cur
  /\ found # {} => cont \in {"mark", "resolve", "retire"}

FoundNew == \A f \in found : evidence[f[1]][f[2]][f[3]] = 0
TriedMarked ==
  \A l \in Lessons : \A t \in Trial(l) :
    stage[t] = "closed" => t \in evaluated \/ (t = cur /\ Marking)
Awaited ==
  \A t \in Trades : stage[t] = "closed" /\ t \notin evaluated =>
    \/ pc = "idle"
    \/ (pc = "evaluate" \/ Marking) /\ \E i \in DOMAIN todo : todo[i] = t
    \/ t = cur /\ Marking
OnceInv == ~deferred => FoundNew /\ EvidenceOnce /\ TriedMarked /\ Awaited

GradedInv ==
  faults = 0 =>
    \A t \in resolved : \A l \in cites[t] \cap Live :
      \/ t \in Trial(l)
      \/ pc = "grade" /\ t = cur
      \/ \E f \in found : f[1] = l /\ f[3] = t

Lists == ClosedTrades /\ ResolvedSeen /\ FoundCur
KeptInv == TerminalInv /\ EmbargoInv /\ OpenInv /\ Lists /\ OnceInv /\ GradedInv

LEMMA Appended ==
  ASSUME NEW s \in Seq(Trades), NEW t \in Trades, NEW next, next = Append(s, t), NEW u
  PROVE  (\E i \in DOMAIN next : next[i] = u) <=> (u = t \/ \E i \in DOMAIN s : s[i] = u)
<1>1. /\ DOMAIN s = 1 .. Len(s) /\ DOMAIN next = 1 .. Len(s) + 1 /\ Len(s) \in Nat
      /\ next[Len(s) + 1] = t /\ \A i \in 1 .. Len(s) : next[i] = s[i]
  OBVIOUS
<1>2. Len(s) + 1 \in DOMAIN next /\ DOMAIN s \subseteq DOMAIN next
      /\ \A i \in DOMAIN next : i = Len(s) + 1 \/ i \in DOMAIN s
  BY <1>1
<1> QED BY <1>1, <1>2

LEMMA ListsStep ==
  ASSUME KeptInv, [Next]_vars, TypingInv'
  PROVE  Lists'
<1> USE DEF KeptInv, Lists, trades, book, pass
<1>1. ASSUME UNCHANGED <<stage, closed>> PROVE ClosedTrades'
  BY <1>1 DEF ClosedTrades
<1>2. ASSUME UNCHANGED <<stage, resolved>> PROVE ResolvedSeen'
  BY <1>2 DEF ResolvedSeen, Observable
<1>3. ASSUME UNCHANGED <<found, cont, cur>> PROVE FoundCur'
  BY <1>3 DEF FoundCur
<1>4. ASSUME found' = {} PROVE FoundCur'
  BY <1>4 DEF FoundCur
<1>5. \A t \in resolved : t \in Trades
  BY DEF OpenInv, TypingInv, TypeOK
<1>6. ASSUME NEW t \in Trades, Decide(t) PROVE Lists'
  <2>1. /\ stage[t] = "none" /\ stage'[t] \in {"open", "vetoed"}
        /\ \A u \in Trades \ {t} : stage'[u] = stage[u]
    BY <1>6 DEF Decide, OpenInv, TypingInv, TypeOK
  <2>2. ClosedTrades'
    BY <1>6, <2>1 DEF Decide, ClosedTrades
  <2>3. ResolvedSeen'
    BY <1>5, <1>6, <2>1 DEF Decide, ResolvedSeen, Observable
  <2> QED BY <1>3, <1>6, <2>2, <2>3 DEF Decide
<1>7. ASSUME NEW t \in Trades, Close(t) PROVE Lists'
  <2>1. /\ stage[t] = "open" /\ stage'[t] = "closed" /\ closed' = Append(closed, t)
        /\ \A u \in Trades \ {t} : stage'[u] = stage[u]
    BY <1>7 DEF Close, OpenInv, TypingInv, TypeOK
  <2>2. \A u : (\E i \in DOMAIN closed' : closed'[i] = u) <=>
               (u = t \/ \E i \in DOMAIN closed : closed[i] = u)
    <3>1. PICK before \in Seq(Trades) : before = closed
      BY DEF OpenInv, TypingInv, TypeOK
    <3>2. PICK after : after = closed'
      OBVIOUS
    <3>3. \A u : (\E i \in DOMAIN after : after[i] = u) <=>
                 (u = t \/ \E i \in DOMAIN before : before[i] = u)
      BY <2>1, <3>1, <3>2, Appended
    <3> QED BY <3>1, <3>2, <3>3
  <2>3. ClosedTrades'
    BY <2>1, <2>2 DEF ClosedTrades
  <2>4. ResolvedSeen'
    BY <1>5, <1>7, <2>1 DEF Close, ResolvedSeen, Observable
  <2> QED BY <1>3, <1>7, <2>3, <2>4 DEF Close
<1>8. CASE NewDay
  <2>1. /\ \A u \in Trades : Observable(u) => Observable(u)'
        /\ \A u \in Trades : stage'[u] = "closed" <=> stage[u] = "closed"
    BY <1>8 DEF NewDay, OpenInv, TypingInv, TypeOK, Observable
  <2>2. ClosedTrades' /\ ResolvedSeen'
    BY <1>5, <1>8, <2>1 DEF NewDay, ClosedTrades, ResolvedSeen
  <2> QED BY <1>3, <1>8, <2>2 DEF NewDay
<1>9. CASE Evaluate
  <2>1. /\ cur' = Head(todo)
        /\ \E said : AppendAll({<<l, said[l], Head(todo)>> :
                        l \in {x \in DOMAIN said : said[x] # "unrelated"}}, "mark")
    BY <1>9 DEF Evaluate
  <2>2. FoundCur'
    BY <2>1 DEF AppendAll, FoundCur
  <2> QED BY <1>1, <1>2, <1>9, <2>2 DEF Evaluate
<1>10. CASE AddEvidence
  <2>1. PICK f \in found :
          /\ found' = found \ {f}
          /\ IF found = {f} THEN pc' = cont /\ cont' = "idle" ELSE UNCHANGED <<pc, cont>>
    BY <1>10 DEF AddEvidence
  <2>2. FoundCur'
    BY <1>10, <2>1 DEF AddEvidence, FoundCur
  <2> QED BY <1>1, <1>2, <1>10, <2>2 DEF AddEvidence
<1>11. CASE Resolve
  <2>1. PICK t \in Observed : resolved' = resolved \cup {t}
    BY <1>11 DEF Resolve
  <2>2. ResolvedSeen'
    BY <1>11, <2>1 DEF Resolve, ResolvedSeen, Observable, Observed
  <2>3. found' = {}
    BY <1>11 DEF Resolve, Goto, OpenInv, FoundOpen
  <2> QED BY <1>1, <1>4, <1>11, <2>2, <2>3 DEF Resolve
<1>12. CASE Grade
  <2>1. FoundCur'
    BY <1>12 DEF Grade, AppendAll, FoundCur
  <2> QED BY <1>1, <1>2, <1>12, <2>1 DEF Grade
<1>13. CASE Inherit
  <2>1. FoundCur'
    BY <1>13 DEF Inherit, AppendAll, FoundCur
  <2> QED BY <1>1, <1>2, <1>13, <2>1 DEF Inherit
<1>14. ASSUME Start \/ EvaluateNothing \/ MarkEvaluated \/ EndEvaluate \/ EndResolve
              \/ Merge \/ Retire
       PROVE  Lists'
  <2>1. UNCHANGED <<stage, closed, resolved>> /\ found' = {}
    BY <1>14 DEF Start, EvaluateNothing, MarkEvaluated, EndEvaluate, EndResolve, Merge, Retire,
                 Goto, OpenInv, FoundOpen
  <2> QED BY <1>1, <1>2, <1>4, <2>1
<1>15. ASSUME PassOver \/ EvaluateFails \/ ChangeStatus PROVE Lists'
  <2>1. UNCHANGED <<stage, closed, resolved, found, cont, cur>>
    BY <1>15 DEF PassOver, EvaluateFails, ChangeStatus
  <2> QED BY <1>1, <1>2, <1>3, <2>1
<1>16. ASSUME Finish \/ Kill PROVE Lists'
  <2>1. UNCHANGED <<stage, closed, resolved>> /\ found' = {}
    BY <1>16 DEF Finish, Kill, Ends
  <2> QED BY <1>1, <1>2, <1>4, <2>1
<1>17. CASE UNCHANGED vars
  BY <1>1, <1>2, <1>3, <1>17 DEF vars
<1> QED
  BY <1>6, <1>7, <1>8, <1>9, <1>10, <1>11, <1>12, <1>13, <1>14, <1>15, <1>16, <1>17
  DEF Next, Step

LEMMA Rest ==
  ASSUME NEW s \in Seq(Trades), s # <<>>
  PROVE  \A u : (\E i \in DOMAIN s : s[i] = u) <=>
               (u = Head(s) \/ \E i \in DOMAIN Tail(s) : Tail(s)[i] = u)
<1> SUFFICES ASSUME NEW u
             PROVE  (\E i \in DOMAIN s : s[i] = u) <=>
                      (u = Head(s) \/ \E i \in DOMAIN Tail(s) : Tail(s)[i] = u)
  OBVIOUS
<1> DEFINE rest == Tail(s)
<1>1. /\ DOMAIN s = 1 .. Len(s) /\ Len(s) \in Nat /\ Len(s) > 0 /\ Head(s) = s[1]
      /\ DOMAIN rest = 1 .. Len(s) - 1 /\ \A i \in 1 .. Len(s) - 1 : rest[i] = s[i + 1]
  OBVIOUS
<1> HIDE DEF rest
<1>2. ASSUME NEW i \in DOMAIN s, i # 1 PROVE i - 1 \in DOMAIN rest /\ rest[i - 1] = s[i]
  BY <1>1, <1>2
<1>3. ASSUME NEW i \in DOMAIN rest PROVE i + 1 \in DOMAIN s /\ s[i + 1] = rest[i]
  BY <1>1, <1>3
<1>4. 1 \in DOMAIN s
  BY <1>1
<1>5. ASSUME NEW i \in DOMAIN s, s[i] = u
      PROVE  u = Head(s) \/ \E j \in DOMAIN rest : rest[j] = u
  <2>1. CASE i = 1
    BY <1>1, <1>5, <2>1
  <2>2. CASE i # 1
    BY <1>2, <1>5, <2>2
  <2> QED BY <2>1, <2>2
<1>6. ASSUME NEW j \in DOMAIN rest, rest[j] = u PROVE \E i \in DOMAIN s : s[i] = u
  BY <1>3, <1>6
<1>7. u = Head(s) => \E i \in DOMAIN s : s[i] = u
  BY <1>1, <1>4
<1> QED BY <1>5, <1>6, <1>7 DEF rest

LEMMA Untried ==
  ASSUME TypingInv, NEW l \in Lessons, NEW rel \in Relations, NEW t \in Trades
  PROVE  evidence[l][rel][t] \in Nat /\ (t \notin Trial(l) => evidence[l][rel][t] = 0)
BY DEF TypingInv, TypeOK, Trial

\* Where no trade is being marked every closed one has its mark.
LEMMA AllMarked ==
  ASSUME KeptInv, ~deferred, pc \notin {"idle", "evaluate"}, ~Marking
  PROVE  \A t \in Trades : stage[t] = "closed" => t \in evaluated
BY DEF KeptInv, OnceInv, Awaited

LEMMA OnceStep ==
  ASSUME KeptInv, [Next]_vars, TypingInv'
  PROVE  OnceInv'
<1> DEFINE OncePart == FoundNew /\ EvidenceOnce /\ TriedMarked /\ Awaited
<1> SUFFICES ASSUME ~deferred' PROVE OncePart'
  BY DEF OnceInv
<1> USE DEF trades, book, pass
<1>1. /\ TypingInv /\ Counter /\ EmbargoInv /\ FoundOpen /\ Lists
      /\ todo \in Seq(Trades) /\ live \subseteq Lessons
  BY DEF KeptInv, OpenInv, TypingInv, TypeOK
<1>2. ASSUME ~deferred PROVE FoundNew /\ EvidenceOnce /\ TriedMarked /\ Awaited
  BY <1>2 DEF KeptInv, OnceInv
<1>3. pc # "evidence" => found = {} /\ cont = "idle"
  BY <1>1 DEF FoundOpen, Counter
<1>4. ASSUME UNCHANGED evidence PROVE (\A l \in Lessons : Trial(l)' = Trial(l)) /\ (~deferred => EvidenceOnce')
  BY <1>2, <1>4 DEF Trial, EvidenceOnce
<1>5. ASSUME UNCHANGED evidence, found' \subseteq found, ~deferred PROVE FoundNew'
  BY <1>2, <1>5 DEF FoundNew
\* Between the passes.
<1>6. ASSUME pc = "idle", UNCHANGED <<evidence, evaluated, pass, deferred>>,
             \A t \in Trades : stage'[t] = "closed" => stage[t] = "closed" \/ stage[t] = "open"
      PROVE  OncePart'
  <2>1. \A l \in Lessons : \A t \in Trial(l) : Observable(t)
    BY <1>1 DEF EmbargoInv, EvidenceSeen, Trial
  <2>2. ~Marking /\ ~deferred
    BY <1>3, <1>6 DEF Marking
  <2>3. TriedMarked'
    BY <1>2, <1>4, <1>6, <2>1, <2>2 DEF TriedMarked, Observable, Trial
  <2> QED BY <1>4, <1>5, <1>6, <2>2, <2>3 DEF Awaited
<1>7. ASSUME NEW t \in Trades, Decide(t) PROVE OncePart'
  BY <1>1, <1>6, <1>7 DEF Decide, TypingInv, TypeOK
<1>8. ASSUME NEW t \in Trades, Close(t) PROVE OncePart'
  BY <1>1, <1>6, <1>8 DEF Close, TypingInv, TypeOK
<1>9. CASE NewDay
  BY <1>1, <1>6, <1>9 DEF NewDay, TypingInv, TypeOK
\* The evaluator.
<1>10. CASE Start
  <2>1. /\ pc = "idle" /\ pc' = "evaluate" /\ todo' = closed /\ ~deferred /\ ~Marking
        /\ UNCHANGED <<stage, evidence, evaluated, found>>
    BY <1>3, <1>10 DEF Start, Goto, Marking
  <2>2. TriedMarked'
    BY <1>2, <1>4, <2>1 DEF TriedMarked
  <2>3. Awaited'
    BY <1>1, <2>1 DEF Awaited, Lists, ClosedTrades
  <2> QED BY <1>4, <1>5, <2>1, <2>2, <2>3
<1>11. ASSUME pc = "evaluate", todo # <<>>
       PROVE  /\ ~Marking /\ stage[Head(todo)] = "closed" /\ Head(todo) \in Trades
              /\ \A u : (\E i \in DOMAIN todo : todo[i] = u) =>
                   (u = Head(todo) \/ \E i \in DOMAIN Tail(todo) : Tail(todo)[i] = u)
  <2>1. 1 \in DOMAIN todo /\ Head(todo) = todo[1] /\ Head(todo) \in Trades
    BY <1>1, <1>11
  <2>2. ~Marking
    BY <1>3, <1>11 DEF Marking
  <2>3. stage[Head(todo)] = "closed"
    BY <1>1, <2>1 DEF EmbargoInv, ListsClosed
  <2>4. \A u : (\E i \in DOMAIN todo : todo[i] = u) =>
               (u = Head(todo) \/ \E i \in DOMAIN Tail(todo) : Tail(todo)[i] = u)
    <3>1. PICK s \in Seq(Trades) : s = todo /\ s # <<>>
      BY <1>1, <1>11
    <3>2. \A u : (\E i \in DOMAIN s : s[i] = u) <=>
                 (u = Head(s) \/ \E i \in DOMAIN Tail(s) : Tail(s)[i] = u)
      BY <3>1, Rest, Zenon
    <3> QED BY <3>1, <3>2
  <2> QED BY <2>1, <2>2, <2>3, <2>4
<1>12. CASE PassOver
  <2>1. /\ pc = "evaluate" /\ todo # <<>> /\ Head(todo) \in evaluated /\ todo' = Tail(todo) /\ ~deferred
        /\ UNCHANGED <<stage, evidence, evaluated, found, pc, cont, cur>>
    BY <1>12 DEF PassOver
  <2>2. TriedMarked'
    BY <1>2, <1>4, <2>1 DEF TriedMarked, Marking
  <2>3. Awaited'
    BY <1>2, <1>11, <2>1 DEF Awaited, Marking
  <2> QED BY <1>4, <1>5, <2>1, <2>2, <2>3
\* A trade is taken from the list: it has no evidence yet.
<1>13. ASSUME pc = "evaluate", Due, todo' = Tail(todo), cur' = Head(todo), Marking',
              UNCHANGED <<stage, evidence, evaluated, deferred>>
       PROVE  /\ EvidenceOnce' /\ TriedMarked' /\ Awaited'
              /\ \A l \in Lessons, rel \in Relations : evidence'[l][rel][Head(todo)] = 0
  <2>1. ~deferred /\ todo # <<>> /\ Head(todo) \notin evaluated
    BY <1>13 DEF Due
  <2>2. TriedMarked'
    BY <1>2, <1>4, <1>11, <1>13, <2>1 DEF TriedMarked
  <2>3. Awaited'
    BY <1>2, <1>11, <1>13, <2>1 DEF Awaited
  <2>4. \A l \in Lessons : Head(todo) \notin Trial(l)
    BY <1>2, <1>11, <1>13, <2>1 DEF TriedMarked
  <2> QED BY <1>1, <1>4, <1>11, <1>13, <2>1, <2>2, <2>3, <2>4, Untried
<1>14. CASE Evaluate
  <2>1. PICK said \in [Candidates(Head(todo)) -> Relations \cup {"unrelated"}] :
          AppendAll({<<l, said[l], Head(todo)>> :
                       l \in {x \in DOMAIN said : said[x] # "unrelated"}}, "mark")
    BY <1>14, Zenon DEF Evaluate
  <2> DEFINE facts ==
        {<<l, said[l], Head(todo)>> : l \in {x \in DOMAIN said : said[x] # "unrelated"}}
  <2>2. \A f \in facts : f[1] \in Lessons /\ f[2] \in Relations /\ f[3] = Head(todo)
    BY <1>1 DEF Candidates
  <2>3. AppendAll(facts, "mark")
    BY <2>1
  <2> HIDE DEF facts
  <2>4. Marking' /\ found' = facts
    BY <2>3 DEF AppendAll, Marking
  <2>5. /\ EvidenceOnce' /\ TriedMarked' /\ Awaited'
        /\ \A l \in Lessons, rel \in Relations : evidence'[l][rel][Head(todo)] = 0
    BY <1>13, <1>14, <2>4 DEF Evaluate
  <2>6. FoundNew'
    BY <2>2, <2>4, <2>5 DEF FoundNew
  <2> QED BY <2>5, <2>6
<1>15. CASE EvaluateNothing
  <2>1. Marking' /\ found' = {}
    BY <1>3, <1>15 DEF EvaluateNothing, Goto, Marking
  <2>2. EvidenceOnce' /\ TriedMarked' /\ Awaited'
    BY <1>13, <1>15, <2>1 DEF EvaluateNothing
  <2> QED BY <2>1, <2>2 DEF FoundNew
<1>16. CASE AddEvidence
  <2>1. PICK f \in found :
          /\ evidence' = [evidence EXCEPT ![f[1]][f[2]][f[3]] = @ + 1]
          /\ found' = found \ {f}
          /\ IF found = {f} THEN pc' = cont /\ cont' = "idle" ELSE UNCHANGED <<pc, cont>>
    BY <1>16 DEF AddEvidence
  <2>2. /\ pc = "evidence" /\ ~deferred
        /\ UNCHANGED <<stage, evaluated, cur, todo, deferred>>
    BY <1>16 DEF AddEvidence
  <2>3. /\ \A g \in found : /\ g[1] \in Lessons /\ g[2] \in Relations /\ g[3] \in Trades
                            /\ g = <<g[1], g[2], g[3]>>
        /\ evidence \in [Lessons -> [Relations -> [Trades -> Nat]]]
    <3>1. found \subseteq Lessons \X Relations \X Trades
      BY <1>1 DEF TypingInv, TypeOK
    <3>2. \A g \in Lessons \X Relations \X Trades :
            /\ g[1] \in Lessons /\ g[2] \in Relations /\ g[3] \in Trades
            /\ g = <<g[1], g[2], g[3]>>
      OBVIOUS
    <3> QED BY <1>1, <3>1, <3>2 DEF TypingInv, TypeOK
  <2>4. ASSUME NEW l \in Lessons, NEW rel \in Relations, NEW t \in Trades
        PROVE  evidence'[l][rel][t] =
                 IF l = f[1] /\ rel = f[2] /\ t = f[3] THEN evidence[l][rel][t] + 1 ELSE evidence[l][rel][t]
    BY <2>1, <2>3, Counted
  <2>5. evidence[f[1]][f[2]][f[3]] = 0
    BY <1>2, <2>2 DEF FoundNew
  <2>6. FoundNew'
    <3>1. ASSUME NEW g \in found \ {f} PROVE evidence'[g[1]][g[2]][g[3]] = 0
      <4>1. ~(g[1] = f[1] /\ g[2] = f[2] /\ g[3] = f[3])
        BY <2>3
      <4> QED BY <1>2, <2>2, <2>3, <2>4, <4>1 DEF FoundNew
    <3> QED BY <2>1, <3>1 DEF FoundNew
  <2>7. EvidenceOnce'
    <3>1. ASSUME NEW l \in Lessons, NEW rel \in Relations, NEW t \in Trades
          PROVE  evidence'[l][rel][t] <= 1
      BY <1>2, <2>2, <2>4, <2>5 DEF EvidenceOnce
    <3> QED BY <3>1 DEF EvidenceOnce
  <2>8. cont \in {"mark", "resolve", "retire"} /\ (cont = "mark" => f[3] = cur)
    BY <1>1 DEF Lists, FoundCur
  <2>9. Marking' <=> Marking
    BY <2>1, <2>2, <2>8 DEF Marking
  <2>10. ASSUME NEW l \in Lessons, NEW t \in Trial(l)'
         PROVE  t \in Trial(l) \/ t = f[3]
    BY <2>4 DEF Trial
  <2>11. stage[f[3]] = "closed" => f[3] \in evaluated \/ (f[3] = cur /\ Marking)
    BY <1>1, <2>2, <2>3, <2>8, AllMarked DEF Marking
  <2>12. TriedMarked'
    BY <1>2, <2>2, <2>9, <2>10, <2>11 DEF TriedMarked
  <2>13. Awaited'
    BY <1>2, <2>2, <2>9 DEF Awaited
  <2> QED BY <2>6, <2>7, <2>12, <2>13
<1>17. CASE MarkEvaluated
  <2>1. /\ pc = "mark" /\ pc' = "evaluate" /\ evaluated' = evaluated \cup {cur} /\ ~deferred
        /\ UNCHANGED <<stage, evidence, todo, found>>
    BY <1>17 DEF MarkEvaluated, Goto
  <2>2. TriedMarked'
    BY <1>2, <1>4, <2>1 DEF TriedMarked
  <2>3. Awaited'
    BY <1>2, <2>1 DEF Awaited
  <2> QED BY <1>4, <1>5, <2>1, <2>2, <2>3
\* From here on every closed trade has its mark.
<1>18. ASSUME \A t \in Trades : stage[t] = "closed" => t \in evaluated, ~deferred,
              UNCHANGED <<stage, evaluated, evidence>>
       PROVE  EvidenceOnce' /\ TriedMarked' /\ Awaited' /\ (found' \subseteq found => FoundNew')
  BY <1>4, <1>5, <1>18 DEF TriedMarked, Awaited, Trial
<1>19. CASE EndEvaluate
  <2>1. /\ pc = "evaluate" /\ ~deferred /\ (\A i \in DOMAIN todo : todo[i] \in evaluated)
        /\ UNCHANGED <<stage, evidence, evaluated, found>> /\ ~Marking
    BY <1>3, <1>19 DEF EndEvaluate, Goto, Marking
  <2>2. \A t \in Trades : stage[t] = "closed" => t \in evaluated
    BY <1>2, <2>1 DEF Awaited
  <2> QED BY <1>18, <2>1, <2>2
<1>20. ASSUME pc \in {"resolve", "grade", "change", "merge", "retire"}, ~deferred,
              UNCHANGED <<stage, evaluated, evidence>>
       PROVE  EvidenceOnce' /\ TriedMarked' /\ Awaited' /\ (found' \subseteq found => FoundNew')
  BY <1>3, <1>18, <1>20, AllMarked DEF Marking
<1>21. CASE Grade
  <2>1. PICK rel \in Relations : AppendAll({<<l, rel, cur>> : l \in Graded}, "resolve")
    BY <1>21 DEF Grade
  <2>2. pc = "grade" /\ ~deferred /\ UNCHANGED <<stage, evaluated, evidence>> /\ cur \in Trades
    BY <1>1, <1>21 DEF Grade, Counter
  <2>3. \A l \in Graded : l \in Lessons /\ cur \notin Trial(l)
    BY DEF Graded, Live
  <2>4. FoundNew'
    <3>1. found' = {<<l, rel, cur>> : l \in Graded}
      BY <2>1 DEF AppendAll
    <3>2. \A l \in Graded : evidence'[l][rel][cur] = 0
      BY <1>1, <2>2, <2>3, Untried
    <3> QED BY <3>1, <3>2 DEF FoundNew
  <2> QED BY <1>20, <2>2, <2>4
<1>22. CASE Inherit
  <2>1. PICK m \in moves, new \in live :
          AppendAll({<<new, e[1], e[2]>> : e \in Inherited(m[1], new)}, "retire")
    BY <1>22 DEF Inherit
  <2>2. pc = "merge" /\ ~deferred /\ UNCHANGED <<stage, evaluated, evidence>>
    BY <1>22 DEF Inherit
  <2>3. FoundNew'
    <3>1. found' = {<<new, e[1], e[2]>> : e \in Inherited(m[1], new)}
      BY <2>1 DEF AppendAll
    <3>2. \A e \in Inherited(m[1], new) : evidence'[new][e[1]][e[2]] = 0
      BY <2>2 DEF Inherited
    <3> QED BY <3>1, <3>2 DEF FoundNew
  <2> QED BY <1>20, <2>2, <2>3
<1>23. ASSUME Resolve \/ EndResolve \/ ChangeStatus \/ Merge \/ Retire PROVE OncePart'
  <2>1. /\ pc \in {"resolve", "grade", "change", "merge", "retire"} /\ ~deferred
        /\ UNCHANGED <<stage, evaluated, evidence, found>>
    BY <1>23 DEF Resolve, EndResolve, ChangeStatus, Merge, AddLesson, Retire, Goto
  <2> QED BY <1>20, <2>1
<1>24. CASE Finish
  <2>1. /\ pc \in {"resolve", "grade", "change", "merge", "retire"} /\ ~deferred
        /\ UNCHANGED <<stage, evaluated, evidence>> /\ found' = {}
    BY <1>24 DEF Finish, Ends
  <2> QED BY <1>20, <2>1
<1>25. CASE EvaluateFails
  BY <1>25 DEF EvaluateFails
<1>26. CASE Kill
  BY <1>26 DEF Kill
<1>27. CASE UNCHANGED vars
  <2>1. UNCHANGED <<stage, evaluated, evidence, found, pc, cont, cur, todo, deferred>>
    BY <1>27 DEF vars
  <2> QED BY <1>2, <1>4, <1>5, <2>1 DEF TriedMarked, Awaited, Marking, Trial
<1> QED
  BY <1>7, <1>8, <1>9, <1>10, <1>12, <1>14, <1>15, <1>16, <1>17, <1>19, <1>21, <1>22,
     <1>23, <1>24, <1>25, <1>26, <1>27 DEF Next, Step

LEMMA GradedStep ==
  ASSUME KeptInv, [Next]_vars, TypingInv'
  PROVE  GradedInv'
<1> DEFINE Done(t, l) ==
      \/ t \in Trial(l)
      \/ pc = "grade" /\ t = cur
      \/ \E f \in found : f[1] = l /\ f[3] = t
<1> SUFFICES ASSUME faults' = 0, NEW t \in resolved', NEW l \in cites'[t] \cap Live'
             PROVE  Done(t, l)'
  BY DEF GradedInv
<1> USE DEF trades, book, pass
<1>1. /\ TypingInv /\ TypingInv' /\ EmbargoInv /\ FoundOpen /\ ResolvedSeen /\ Kept
      /\ resolved \subseteq Trades /\ l \in Lessons
  BY TerminalStep DEF KeptInv, OpenInv, Lists, Live, TypingInv, TypeOK
<1>2. faults \in Nat /\ faults' \in Nat
  BY <1>1, NumbersAssumption DEF TypingInv, TypeOK
<1>3. pc # "evidence" => found = {}
  BY <1>1 DEF FoundOpen
\* A cited lesson that is open now was open before.
<1>4. ASSUME t \in resolved, cites'[t] = cites[t], faults = 0 PROVE Done(t, l)
  <2>1. status[l] # "none"
    BY <1>1, <1>4 DEF EmbargoInv, CitesOlder, InBook
  <2>2. l \in Live
    <3>1. status[l] \in {"none", "candidate", "active"} \cup TERMINAL
      BY <1>1 DEF TypingInv, TypeOK
    <3>2. status'[l] \notin TERMINAL
      BY DEF Live, TERMINAL
    <3> QED BY <1>1, <2>1, <3>1, <3>2 DEF Kept, Live
  <2> QED BY <1>4, <2>2 DEF KeptInv, GradedInv
<1>5. ASSUME pc \notin {"grade", "evidence"}, UNCHANGED <<resolved, evidence, faults>>,
             cites'[t] = cites[t]
      PROVE  Done(t, l)'
  <2>1. t \in Trial(l)
    BY <1>3, <1>4, <1>5
  <2> QED BY <1>5, <2>1 DEF Trial
<1>6. ASSUME NEW u \in Trades, Decide(u) PROVE Done(t, l)'
  <2>1. stage[u] = "none" /\ pc = "idle" /\ UNCHANGED <<resolved, evidence, faults>>
    BY <1>6 DEF Decide
  <2>2. t \in resolved /\ t # u
    BY <1>1, <2>1 DEF ResolvedSeen, Observable
  <2>3. cites'[t] = cites[t]
    BY <1>1, <1>6, <2>2 DEF Decide, TypingInv, TypeOK
  <2> QED BY <1>5, <2>1, <2>3
<1>7. ASSUME NEW u \in Trades, Close(u) PROVE Done(t, l)'
  BY <1>5, <1>7 DEF Close
<1>8. ASSUME NewDay \/ Start \/ PassOver \/ Evaluate \/ EvaluateNothing \/ MarkEvaluated
             \/ EndEvaluate
      PROVE  Done(t, l)'
  BY <1>5, <1>8 DEF NewDay, Start, PassOver, Evaluate, EvaluateNothing, MarkEvaluated, EndEvaluate
<1>9. ASSUME EndResolve \/ ChangeStatus \/ Merge \/ Inherit \/ Retire \/ Finish PROVE Done(t, l)'
  <2>1. pc \notin {"grade", "evidence"} /\ UNCHANGED <<resolved, evidence, faults, cites>>
    BY <1>9 DEF EndResolve, ChangeStatus, Merge, Inherit, Retire, Finish
  <2> QED BY <1>5, <2>1
<1>10. CASE EvaluateFails
  <2>1. UNCHANGED faults /\ pc = "evaluate" /\ UNCHANGED <<resolved, evidence, cites>>
    BY <1>2, <1>10 DEF EvaluateFails, Spend
  <2> QED BY <1>5, <2>1
<1>11. CASE AddEvidence
  <2>1. PICK f \in found :
          /\ evidence' = [evidence EXCEPT ![f[1]][f[2]][f[3]] = @ + 1]
          /\ found' = found \ {f}
    BY <1>11 DEF AddEvidence
  <2>2. UNCHANGED <<resolved, cites, faults, cur>> /\ pc = "evidence"
    BY <1>11 DEF AddEvidence
  <2>3. /\ f[1] \in Lessons /\ f[2] \in Relations /\ f[3] \in Trades
        /\ evidence \in [Lessons -> [Relations -> [Trades -> Nat]]]
    BY <1>1 DEF TypingInv, TypeOK
  <2>4. ASSUME NEW rel \in Relations, NEW u \in Trades
        PROVE  evidence'[l][rel][u] =
                 IF l = f[1] /\ rel = f[2] /\ u = f[3] THEN evidence[l][rel][u] + 1
                 ELSE evidence[l][rel][u]
    BY <1>1, <2>1, <2>3, Counted
  <2>5. \A rel \in Relations, u \in Trades : evidence[l][rel][u] \in Nat
    BY <1>1, <2>3
  <2>6. Done(t, l)
    BY <1>4, <2>2
  <2>7. CASE t \in Trial(l)
    BY <2>4, <2>5, <2>7 DEF Trial
  <2>8. ASSUME NEW g \in found, g[1] = l, g[3] = t PROVE Done(t, l)'
    <3>1. CASE g = f
      <4>1. evidence'[l][f[2]][t] > 0
        BY <1>1, <2>3, <2>4, <2>5, <2>8, <3>1
      <4> QED BY <2>3, <2>8, <3>1, <4>1 DEF Trial
    <3>2. CASE g # f
      BY <2>1, <2>8, <3>2
    <3> QED BY <3>1, <3>2
  <2> QED BY <2>2, <2>6, <2>7, <2>8
<1>12. CASE Resolve
  <2>1. PICK u : resolved' = resolved \cup {u} /\ cur' = u
    BY <1>12 DEF Resolve
  <2>2. /\ pc = "resolve" /\ pc' = "grade" /\ UNCHANGED <<evidence, faults, cites>>
    BY <1>12 DEF Resolve, Goto
  <2>3. CASE t \in resolved
    <3>1. t \in Trial(l)
      BY <1>3, <1>4, <2>2, <2>3
    <3> QED BY <2>2, <3>1 DEF Trial
  <2> QED BY <2>1, <2>2, <2>3
<1>13. CASE Grade
  <2>1. PICK rel \in Relations : found' = {<<k, rel, cur>> : k \in Graded}
    BY <1>13 DEF Grade, AppendAll
  <2>2. UNCHANGED <<resolved, cites, faults, evidence, status>> /\ pc = "grade"
    BY <1>13 DEF Grade
  <2>3. t \in Trial(l) \/ t = cur
    BY <1>3, <1>4, <2>2
  <2>4. CASE t \in Trial(l)
    BY <2>2, <2>4 DEF Trial
  <2>5. CASE t = cur /\ t \notin Trial(l)
    <3>1. l \in Graded
      BY <2>2, <2>5 DEF Graded, Live
    <3>2. <<l, rel, cur>> \in found'
      BY <2>1, <3>1
    <3> QED BY <2>5, <3>2
  <2> QED BY <2>3, <2>4, <2>5
<1>14. CASE Kill
  BY <1>2, <1>14 DEF Kill, Spend
<1>15. CASE UNCHANGED vars
  <2>1. UNCHANGED <<resolved, cites, faults, evidence, found, pc, cur>>
    BY <1>15 DEF vars
  <2>2. Done(t, l)
    BY <1>4, <2>1
  <2> QED BY <2>1, <2>2 DEF Trial
<1> QED
  BY <1>6, <1>7, <1>8, <1>9, <1>10, <1>11, <1>12, <1>13, <1>14, <1>15 DEF Next, Step

\* A trade evaluated in the first pass after its close counts once for or
\* against a lesson ("never double-count", learn.py), whoever writes it, and
\* every citation of a resolved judgment has scored its lesson unless a pass
\* was killed; for every book, limit and threshold.
THEOREM OutcomesCountOnce == Spec => []EvidenceKept
<1>1. ASSUME Init PROVE Lists /\ OnceInv /\ GradedInv
  <2>1. Lists
    BY <1>1 DEF Init, Lists, ClosedTrades, ResolvedSeen, FoundCur
  <2>2. \A l \in Lessons, rel \in Relations, t \in Trades : evidence[l][rel][t] = 0
    BY <1>1 DEF Init
  <2>3. OnceInv
    BY <1>1, <2>2 DEF Init, OnceInv, FoundNew, EvidenceOnce, TriedMarked, Awaited, Trial
  <2>4. GradedInv
    BY <1>1 DEF Init, GradedInv
  <2> QED BY <2>1, <2>3, <2>4
<1>2. Strong /\ Lists /\ OnceInv /\ GradedInv => KeptInv
  BY DEF Strong, KeptInv
<1>3. KeptInv /\ [Next]_vars /\ TypingInv' => Lists' /\ OnceInv' /\ GradedInv'
  BY ListsStep, OnceStep, GradedStep
<1>4. KeptInv => EvidenceKept
  <2> SUFFICES ASSUME KeptInv PROVE EvidenceOnceInTime /\ CitationsGraded
    BY DEF EvidenceKept
  <2>1. EvidenceOnceInTime
    BY DEF KeptInv, OnceInv, EvidenceOnceInTime
  <2>2. pc = "idle" => found = {}
    BY DEF KeptInv, OpenInv, FoundOpen
  <2>3. CitationsGraded
    BY <2>2 DEF KeptInv, GradedInv, CitationsGraded
  <2> QED BY <2>1, <2>3
<1>5. Strong => TypingInv
  BY DEF Strong, TerminalInv
<1> QED BY <1>1, <1>2, <1>3, <1>4, <1>5, StrongHolds, PTL DEF Spec
=============================================================================
