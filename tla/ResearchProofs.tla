---------------------------- MODULE ResearchProofs ----------------------------
(***************************************************************************)
(* The research side for every value of the constants: a verdict says what *)
(* its registration asked and a known result freezes the registrations;    *)
(* every registered strategy's signal rests on the window it declares; the *)
(* simulators' books balance, rest and repeat whatever ran beside them;    *)
(* and the record says of a result only what was earned.                   *)
(***************************************************************************)
EXTENDS Research, FiniteSetTheorems, FunctionTheorems, SequenceTheorems,
        WellFoundedInduction, NaturalsInduction, TLAPS

Row     == [spec : Specs, freeze_override : BOOLEAN]
Verdict == [spec : Specs, data : Datas, drifted : BOOLEAN, judged : BOOLEAN,
            trial : SUBSET DOMAIN Measured, passed : BOOLEAN]
Done    == [name : DOMAIN Measured, summary : {Measured[a][d] : a \in DOMAIN Measured, d \in Datas}]
Trial   == [spec : Specs, arm : DOMAIN Measured]
Desk    == [phase : {"idle", "checked"}, row : Row \cup {<<>>}]
Run     == [phase : {"idle", "verified", "arms", "judge"}, spec : Specs \cup {<<>>},
            data : Datas \cup {<<>>}, drifted : BOOLEAN, done : Seq(Done)]

RowsOK ==
  /\ file \in Specs /\ data \in Datas
  /\ registrations \in Seq(Row) /\ verdicts \in Seq(Verdict)
  /\ desk \in [Registrars -> Desk] /\ runs \in [Runners -> Run]

\* A registrar that goes to append holds a row that passed the freeze.
DeskOK ==
  \A g \in InFlight : /\ desk[g].row \in Row
                      /\ desk[g].row.spec.claim = "EDGE" => desk[g].row.freeze_override

\* What was registered, of a spec.
Registrations(spec) == \E k \in DOMAIN registrations : registrations[k].spec = spec

Measures(done, m) == \A i \in DOMAIN done : done[i].summary = m[done[i].name]

\* A run is of a valid spec that was registered before it began; the data it
\* loaded is the snapshot, or was replaced under it; what its workers returned
\* is what was measured on it; and it is judged only when every arm is back
\* and logged.
RunOK(run) ==
  /\ run.spec \in Specs /\ Registrations(run.spec) /\ validate(run.spec)
  /\ run.phase = "verified" => run.done = <<>>
  /\ run.phase # "verified" => /\ run.data \in Datas
                               /\ run.data = run.spec.snapshot \/ run.drifted
                               /\ Measures(run.done, MeasuredOn(run.data))
  /\ run.phase = "judge" =>
       \A a \in ToSet(run.spec.arms) :
         /\ [spec |-> run.spec, arm |-> a] \in trials
         /\ \E i \in DOMAIN run.done : run.done[i].name = a

\* The data a run verified is still there, or it was replaced since.
Fresh(run) == run.phase = "verified" => data = run.spec.snapshot \/ run.drifted

RunsOK == \A r \in Runners : Fresh(runs[r]) /\ (runs[r].phase # "idle" => RunOK(runs[r]))

VerdictHonest(v) ==
  LET m == MeasuredOn(v.data)
  IN /\ Registrations(v.spec)
     /\ v.data = v.spec.snapshot \/ v.drifted
     /\ v.spec.judge = "on" => v.judged
     /\ \A a \in ToSet(v.spec.arms) : [spec |-> v.spec, arm |-> a] \in trials
     /\ v.passed => \A c \in v.spec.clauses, a \in v.trial : Clears(c, m["baseline"], m[a], m)
     /\ ~v.passed => \E c \in v.spec.clauses, a \in v.trial : ~Clears(c, m["baseline"], m[a], m)

VerdictsOK == \A i \in DOMAIN verdicts : VerdictHonest(verdicts[i])

GateInv ==
  /\ RowsOK /\ DeskOK /\ RunsOK /\ VerdictsOK /\ EdgeNeedsReason
  /\ verdicts # <<>> => registrations # <<>>

-----------------------------------------------------------------------------
Arms(names, m) == [a \in ToSet(names) |-> m[a]]

\* In whatever order the workers finish, a spec is judged on its own arms.
LEMMA InOrder ==
  ASSUME NEW done \in Seq(Done), NEW names, NEW m, Measures(done, m),
         \A a \in ToSet(names) : \E i \in DOMAIN done : done[i].name = a
  PROVE  in_spec_order(done, names) = Arms(names, m)
<1>1. ASSUME NEW a \in ToSet(names)
      PROVE  (CHOOSE d \in ToSet(done) : d.name = a).summary = m[a]
  <2>1. PICK i \in DOMAIN done : done[i].name = a
    BY <1>1
  <2>2. done[i] \in ToSet(done)
    BY DEF ToSet
  <2>3. \A d \in ToSet(done) : d.summary = m[d.name]
    BY DEF ToSet, Measures
  <2>4. (CHOOSE d \in ToSet(done) : d.name = a) \in ToSet(done)
        /\ (CHOOSE d \in ToSet(done) : d.name = a).name = a
    BY <2>1, <2>2
  <2> QED BY <2>3, <2>4
<1> QED BY <1>1 DEF in_spec_order, Arms

\* A clause of a valid spec looks at the arms of the spec only.
LEMMA ClausesLocal ==
  ASSUME NEW c, NEW names, NEW m, NEW base, NEW cand, ValidClause(c, ToSet(names))
  PROVE  Clears(c, base, cand, Arms(names, m)) <=> Clears(c, base, cand, m)
<1>1. CASE c.rule = "no_interior_optimum"
  <2>1. ToSet(c.order) \subseteq ToSet(names)
    BY <1>1 DEF ValidClause, GRID_RULES
  <2>2. \A i \in DOMAIN c.order : c.order[i] \in ToSet(names)
    BY <2>1 DEF ToSet
  <2>3. Response(c, Arms(names, m)) = Response(c, m)
    BY <2>2 DEF Arms, Response
  <2> QED BY <1>1, <2>3 DEF Clears, INTERVAL_RULES, PAIRED_RULES
<1>2. CASE c.rule # "no_interior_optimum"
  <2>1. c.rule \in COMPARATIVE_RULES \cup SELF_RULES
    BY <1>2 DEF ValidClause, GRID_RULES
  <2> QED BY <1>2, <2>1 DEF Clears, COMPARATIVE_RULES, SELF_RULES, INTERVAL_RULES,
        PAIRED_RULES, SYMBOL_RULES
<1> QED BY <1>1, <1>2

\* ... so its pass mark is the one applied to the measurements.
LEMMA MarkApplied ==
  ASSUME NEW m, NEW spec, validate(spec), NEW a \in ToSet(spec.arms)
  PROVE  evaluate(spec, Arms(spec.arms, m), a) <=>
           \A c \in spec.clauses : Clears(c, m["baseline"], m[a], m)
<1>1. "baseline" \in ToSet(spec.arms)
  <2>1. PICK names \in Seq(STRING) :
          names = spec.arms /\ names # <<>> /\ names[1] = "baseline"
    BY DEF validate
  <2>2. 1 \in DOMAIN names
    BY <2>1
  <2> QED BY <2>1, <2>2 DEF ToSet
<1>2. Arms(spec.arms, m)["baseline"] = m["baseline"] /\ Arms(spec.arms, m)[a] = m[a]
  BY <1>1 DEF Arms
<1>3. \A c \in spec.clauses : ValidClause(c, ToSet(spec.arms))
  BY DEF validate
<1>4. ASSUME NEW c \in spec.clauses
      PROVE  Clears(c, m["baseline"], m[a], Arms(spec.arms, m))
               <=> Clears(c, m["baseline"], m[a], m)
  <2>1. PICK base, cand, names :
          base = m["baseline"] /\ cand = m[a] /\ names = spec.arms
    OBVIOUS
  <2>2. ValidClause(c, ToSet(names))
    BY <1>3, <2>1
  <2>3. Clears(c, base, cand, Arms(names, m)) <=> Clears(c, base, cand, m)
    BY <2>2, ClausesLocal
  <2> QED BY <2>1, <2>3
<1> QED BY <1>2, <1>4 DEF evaluate

-----------------------------------------------------------------------------
(* A verdict stays honest while the logs only grow, and so does a run.     *)

Grows ==
  /\ \A k \in DOMAIN registrations :
       k \in DOMAIN registrations' /\ registrations'[k] = registrations[k]
  /\ trials \subseteq trials'

LEMMA HonestStays ==
  ASSUME Grows, NEW v, VerdictHonest(v)
  PROVE  VerdictHonest(v)'
BY DEF Grows, VerdictHonest, Registrations

LEMMA RunStays ==
  ASSUME Grows, NEW run, RunOK(run)
  PROVE  RunOK(run)'
BY DEF Grows, RunOK, Registrations

\* Steps that leave the logs of registrations and verdicts alone.
LEMMA LogsStay ==
  ASSUME GateInv, UNCHANGED <<registrations, verdicts>>, trials \subseteq trials'
  PROVE  /\ Grows /\ VerdictsOK' /\ EdgeNeedsReason'
         /\ (verdicts # <<>> => registrations # <<>>)'
<1>1. Grows
  BY DEF Grows
<1>2. VerdictsOK'
  BY <1>1, HonestStays DEF GateInv, VerdictsOK
<1> QED BY <1>1, <1>2 DEF GateInv, EdgeNeedsReason

\* Whoever leaves the runs and the data alone leaves the runs in order.
LEMMA RunsStay ==
  ASSUME GateInv, Grows, UNCHANGED <<data, runs>>
  PROVE  RunsOK'
<1> SUFFICES ASSUME NEW r \in Runners
             PROVE  Fresh(runs[r])' /\ ((runs[r].phase # "idle")' => RunOK(runs[r])')
  BY DEF RunsOK
<1>1. PICK run : run = runs[r] /\ run = runs'[r]
  OBVIOUS
<1>2. Fresh(run)' /\ (run.phase # "idle" => RunOK(run)')
  BY <1>1, RunStays DEF GateInv, RunsOK, Fresh
<1> QED BY <1>1, <1>2 DEF Fresh, RunOK

LEMMA RegisterStep ==
  ASSUME GateInv, NEW g \in Registrars, NEW reason \in BOOLEAN, Register(g, reason)
  PROVE  GateInv'
<1> DEFINE row == [spec |-> file, freeze_override |-> freeze_violation(file) /\ reason]
           held == [phase |-> "checked", row |-> row]
<1>1. /\ row \in Row /\ held \in Desk /\ desk' = [desk EXCEPT ![g] = held]
      /\ UNCHANGED <<file, data, registrations, verdicts, trials, runs>>
      /\ row.spec.claim = "EDGE" => row.freeze_override
  BY DEF Register, MayRegister, GateInv, RowsOK, Row, Desk, freeze_violation
<1>2. held.phase = "checked" /\ held.row = row
  OBVIOUS
<1> HIDE DEF row, held
<1>3. /\ Grows /\ VerdictsOK' /\ EdgeNeedsReason'
      /\ (verdicts # <<>> => registrations # <<>>)'
  BY <1>1, LogsStay
<1>4. RowsOK'
  BY <1>1 DEF GateInv, RowsOK
<1>5. DeskOK'
  BY <1>1, <1>2 DEF GateInv, RowsOK, DeskOK, InFlight
<1>6. RunsOK'
  BY <1>1, <1>3, RunsStay
<1> QED BY <1>3, <1>4, <1>5, <1>6 DEF GateInv

LEMMA AppendStep ==
  ASSUME GateInv, NEW g \in Registrars, AppendRow(g)
  PROVE  GateInv'
<1>1. PICK row \in Row : row = desk[g].row /\ (row.spec.claim = "EDGE" => row.freeze_override)
  BY DEF AppendRow, GateInv, DeskOK, InFlight
<1>2. /\ registrations' = Append(registrations, row) /\ desk' = [desk EXCEPT ![g] = AtRest]
      /\ UNCHANGED <<file, data, verdicts, trials, runs>>
  BY <1>1 DEF AppendRow
<1>3. /\ registrations' \in Seq(Row) /\ registrations' # <<>>
      /\ \A k \in DOMAIN registrations :
           k \in DOMAIN registrations' /\ registrations'[k] = registrations[k]
      /\ \A k \in DOMAIN registrations' \ DOMAIN registrations : registrations'[k] = row
  BY <1>2 DEF GateInv, RowsOK
<1>4. Grows
  BY <1>2, <1>3 DEF Grows
<1>5. RowsOK' /\ DeskOK'
  <2>1. AtRest \in Desk /\ AtRest.phase = "idle"
    BY DEF AtRest, Desk
  <2> QED BY <1>2, <1>3, <2>1 DEF GateInv, RowsOK, DeskOK, InFlight
<1>6. RunsOK'
  BY <1>2, <1>4, RunsStay
<1>7. VerdictsOK'
  BY <1>2, <1>4, HonestStays DEF GateInv, VerdictsOK
<1>8. EdgeNeedsReason'
  BY <1>1, <1>3 DEF GateInv, EdgeNeedsReason
<1> QED BY <1>3, <1>5, <1>6, <1>7, <1>8 DEF GateInv

LEMMA InterruptedStep ==
  ASSUME GateInv, NEW g \in Registrars, Interrupted(g)
  PROVE  GateInv'
<1>1. /\ desk' = [desk EXCEPT ![g] = AtRest]
      /\ UNCHANGED <<file, data, registrations, verdicts, trials, runs>>
      /\ AtRest \in Desk /\ AtRest.phase = "idle"
  BY DEF Interrupted, AtRest, Desk
<1>2. /\ Grows /\ VerdictsOK' /\ EdgeNeedsReason'
      /\ (verdicts # <<>> => registrations # <<>>)'
  BY <1>1, LogsStay
<1>3. RowsOK' /\ DeskOK'
  BY <1>1 DEF GateInv, RowsOK, DeskOK, InFlight
<1> QED BY <1>1, <1>2, <1>3, RunsStay DEF GateInv

\* A runner changes; the others and the registrations stay.
LEMMA RunnerStep ==
  ASSUME GateInv, NEW r \in Runners, NEW run \in Run, runs' = [runs EXCEPT ![r] = run],
         UNCHANGED <<file, data, registrations, verdicts, desk>>, trials \subseteq trials',
         Fresh(run), run.phase # "idle" => RunOK(run)'
  PROVE  GateInv'
<1>1. /\ Grows /\ VerdictsOK' /\ EdgeNeedsReason'
      /\ (verdicts # <<>> => registrations # <<>>)'
  BY LogsStay
<1>2. /\ runs' \in [Runners -> Run] /\ runs'[r] = run
      /\ \A q \in Runners \ {r} : runs'[q] = runs[q]
  BY DEF GateInv, RowsOK
<1>3. RowsOK' /\ DeskOK'
  BY <1>2 DEF GateInv, RowsOK, DeskOK, InFlight
<1>4. ASSUME NEW q \in Runners
      PROVE  Fresh(runs[q])' /\ ((runs[q].phase # "idle")' => RunOK(runs[q])')
  <2>1. CASE q = r
    BY <1>2, <2>1 DEF RunOK, Fresh
  <2>2. CASE q # r
    <3>1. PICK other : other = runs[q] /\ other = runs'[q]
      BY <1>2, <2>2
    <3>2. Fresh(other)' /\ (other.phase # "idle" => RunOK(other)')
      BY <1>1, <3>1, RunStays DEF GateInv, RunsOK, Fresh
    <3> QED BY <3>1, <3>2 DEF RunOK, Fresh
  <2> QED BY <2>1, <2>2
<1>6. RunsOK'
  BY <1>4 DEF RunsOK
<1> QED BY <1>1, <1>3, <1>6 DEF GateInv

LEMMA StartStep ==
  ASSUME GateInv, NEW r \in Runners, Start(r)
  PROVE  GateInv'
<1>1. PICK run, was : run = [Idle EXCEPT !.phase = "verified", !.spec = was] /\ was = file
  OBVIOUS
<1>2. was \in Specs
  BY <1>1 DEF GateInv, RowsOK
<1>3. PICK rest : rest = Idle /\ rest \in Run /\ rest.done = <<>>
  <2>1. Idle \in Run
    BY DEF Run, Idle
  <2>2. Idle.done = <<>>
    BY DEF Idle
  <2> QED BY <2>1, <2>2
<1>4. /\ run \in Run /\ run.phase = "verified" /\ run.spec = file /\ run.done = <<>>
  BY <1>1, <1>2, <1>3 DEF Run
<1>5. \E k \in DOMAIN registrations : registrations[k].spec = file
  <2>1. registrations \in Seq(Row) /\ registrations # <<>>
    BY DEF Start, check_frozen, Registered, GateInv, RowsOK
  <2>2. Len(registrations) \in DOMAIN registrations
    BY <2>1
  <2> QED BY <2>2 DEF Start, check_frozen, Frozen, Last
<1>6. /\ runs' = [runs EXCEPT ![r] = run] /\ data = file.snapshot /\ validate(file)
      /\ UNCHANGED <<file, data, registrations, verdicts, trials, desk>>
  BY <1>1 DEF Start, verify_data
<1>7. RunOK(run)'
  BY <1>4, <1>5, <1>6 DEF RunOK, Registrations, GateInv, RowsOK
<1>8. Fresh(run)
  BY <1>4, <1>6 DEF Fresh
<1> QED BY <1>4, <1>6, <1>7, <1>8, RunnerStep

\* The bars a run loads are the ones it verified, or they were replaced since.
LEMMA LoadStep ==
  ASSUME GateInv, NEW r \in Runners, load_bars_file(r)
  PROVE  GateInv'
<1>1. PICK old \in Run : old = runs[r] /\ old.phase = "verified" /\ RunOK(old) /\ Fresh(old)
  BY DEF load_bars_file, GateInv, RowsOK, RunsOK
<1>2. PICK run, was : run = [old EXCEPT !.phase = "arms", !.data = was] /\ was = data
  OBVIOUS
<1>3. was \in Datas
  BY <1>2 DEF GateInv, RowsOK
<1>4. /\ run \in Run /\ run.phase = "arms" /\ run.data = data
      /\ run.spec = old.spec /\ run.drifted = old.drifted /\ run.done = old.done
  BY <1>2, <1>3 DEF Run
<1>5. /\ runs' = [runs EXCEPT ![r] = run]
      /\ UNCHANGED <<file, data, registrations, verdicts, trials, desk>>
  BY <1>1, <1>2 DEF load_bars_file
<1>6. Measures(run.done, MeasuredOn(run.data))
  BY <1>1, <1>4 DEF RunOK, Measures
<1>7. RunOK(run)'
  BY <1>1, <1>4, <1>5, <1>6 DEF RunOK, Fresh, Registrations, GateInv, RowsOK
<1>8. Fresh(run)
  BY <1>4 DEF Fresh
<1> QED BY <1>4, <1>5, <1>7, <1>8, RunnerStep

LEMMA ArmStep ==
  ASSUME GateInv, NEW r \in Runners, NEW a \in DOMAIN Measured, run_arm(r, a)
  PROVE  GateInv'
<1>1. PICK old \in Run : old = runs[r] /\ old.phase = "arms" /\ RunOK(old)
  BY DEF run_arm, GateInv, RowsOK, RunsOK
<1>2. PICK m : m = MeasuredOn(old.data)
  OBVIOUS
<1> DEFINE row == [name |-> a, summary |-> Measured[a][old.data]]
           run == [old EXCEPT !.done = Append(@, row)]
<1>3. row \in Done /\ old.done \in Seq(Done) /\ row.name = a /\ row.summary = m[a]
  BY <1>1, <1>2 DEF Done, Run, RunOK, MeasuredOn
<1> HIDE DEF row
<1>4. Append(old.done, row) \in Seq(Done)
  BY <1>3
<1>5. /\ run \in Run /\ run.phase = "arms" /\ run.spec = old.spec /\ run.data = old.data
      /\ run.drifted = old.drifted /\ run.done = Append(old.done, row)
  BY <1>1, <1>4 DEF Run
<1>6. /\ runs' = [runs EXCEPT ![r] = run]
      /\ UNCHANGED <<file, data, registrations, verdicts, trials, desk>>
  BY <1>1 DEF run_arm, row
<1> HIDE DEF run
<1>7. Measures(run.done, m)
  <2>1. Measures(old.done, m)
    BY <1>1, <1>2 DEF RunOK
  <2> QED BY <1>3, <1>5, <2>1 DEF Measures
<1>8. RunOK(run)'
  BY <1>1, <1>2, <1>5, <1>6, <1>7 DEF RunOK, Registrations
<1>9. Fresh(run)
  BY <1>5 DEF Fresh
<1> QED BY <1>5, <1>6, <1>8, <1>9, RunnerStep

\* Whoever is tried is an arm of the spec, and what is recorded is what the
\* pass mark says of its measurements.
LEMMA RecordStep ==
  ASSUME GateInv, NEW r \in Runners, NEW acted \in BOOLEAN, Record(r, acted)
  PROVE  GateInv'
<1>1. PICK run \in Run : run = runs[r] /\ run.phase = "judge" /\ RunOK(run)
  BY DEF Record, GateInv, RowsOK, RunsOK
<1>2. PICK m : m = MeasuredOn(run.data)
  OBVIOUS
<1> DEFINE spec  == run.spec
           arms  == in_spec_order(run.done, spec.arms)
           trial == OnTrial(spec)
           v     == [spec |-> spec, data |-> run.data, drifted |-> run.drifted,
                     judged |-> acted, trial |-> trial,
                     passed |-> \A a \in trial : evaluate(spec, arms, a)]
           recorded == (spec.judge = "on" => acted) /\ trial \subseteq DOMAIN arms
<1>3. /\ verdicts' = IF recorded THEN Append(verdicts, v) ELSE verdicts
      /\ runs' = [runs EXCEPT ![r] = Idle]
      /\ UNCHANGED <<file, data, registrations, trials, desk>>
  BY <1>1 DEF Record
<1>4. Idle \in Run /\ Idle.phase = "idle"
  BY DEF Idle, Run
<1>5. Fresh(Idle)
  BY <1>4 DEF Fresh
<1>6. CASE ~recorded
  BY <1>3, <1>4, <1>5, <1>6, RunnerStep
<1>7. CASE recorded
  <2>1. /\ run.done \in Seq(Done) /\ Measures(run.done, m)
        /\ \A a \in ToSet(spec.arms) : \E i \in DOMAIN run.done : run.done[i].name = a
    BY <1>1, <1>2 DEF Run, RunOK
  <2>2. arms = Arms(spec.arms, m)
    BY <2>1, InOrder
  <2>3. trial \subseteq ToSet(spec.arms)
    BY <1>7, <2>2 DEF Arms
  <2>4. ToSet(spec.arms) \subseteq DOMAIN Measured
    <3>1. \A i \in DOMAIN run.done : run.done[i] \in Done
      BY <2>1
    <3> QED BY <2>1, <3>1 DEF Done
  <2>5. validate(spec)
    BY <1>1 DEF RunOK
  <2>6. ASSUME NEW a \in trial
        PROVE  evaluate(spec, arms, a) <=>
                 \A c \in spec.clauses : Clears(c, m["baseline"], m[a], m)
    BY <2>2, <2>3, <2>5, MarkApplied
  <2>7. v.passed <=> \A a \in trial :
          \A c \in spec.clauses : Clears(c, m["baseline"], m[a], m)
    BY <2>6
  <2> HIDE DEF trial
  <2>8. VerdictHonest(v)
    <3>1. Registrations(spec) /\ (run.data = spec.snapshot \/ run.drifted)
      BY <1>1 DEF RunOK
    <3>2. \A a \in ToSet(spec.arms) : [spec |-> spec, arm |-> a] \in trials
      BY <1>1 DEF RunOK
    <3>3. /\ v.spec = spec /\ v.judged = acted /\ v.trial = trial
          /\ v.data = run.data /\ v.drifted = run.drifted
      OBVIOUS
    <3> HIDE DEF v
    <3>4. MeasuredOn(v.data) = m
      BY <1>2, <3>3
    <3> QED BY <1>7, <2>7, <3>1, <3>2, <3>3, <3>4 DEF VerdictHonest
  <2>9. v \in Verdict
    BY <1>1, <2>3, <2>4 DEF Verdict, Run, RunOK
  <2> HIDE DEF v
  <2>10. Grows
    BY <1>3 DEF Grows
  <2>11. /\ verdicts' \in Seq(Verdict)
         /\ \A i \in DOMAIN verdicts' :
              verdicts'[i] = v \/ (i \in DOMAIN verdicts /\ verdicts'[i] = verdicts[i])
    <3>1. PICK before \in Seq(Verdict) : before = verdicts
      BY DEF GateInv, RowsOK
    <3>2. verdicts' = Append(before, v)
      BY <1>3, <1>7, <3>1
    <3> QED BY <2>9, <3>1, <3>2
  <2>12. VerdictsOK'
    <3> SUFFICES ASSUME NEW i \in DOMAIN verdicts' PROVE VerdictHonest(verdicts[i])'
      BY DEF VerdictsOK
    <3>1. PICK w : w = verdicts'[i] /\ VerdictHonest(w)
      BY <2>8, <2>11 DEF GateInv, VerdictsOK
    <3>2. VerdictHonest(w)'
      BY <2>10, <3>1, HonestStays
    <3> QED BY <3>1, <3>2 DEF VerdictHonest
  <2>13. RowsOK' /\ DeskOK'
    BY <1>3, <1>4, <2>11 DEF GateInv, RowsOK, DeskOK, InFlight
  <2>14. RunsOK'
    <3> SUFFICES ASSUME NEW q \in Runners
                 PROVE  Fresh(runs[q])' /\ ((runs[q].phase # "idle")' => RunOK(runs[q])')
      BY DEF RunsOK
    <3>1. PICK other : other = runs'[q] /\ (other = Idle \/ other = runs[q])
      BY <1>3 DEF GateInv, RowsOK
    <3>2. Fresh(other) /\ (other.phase # "idle" => RunOK(other))
      BY <1>4, <1>5, <3>1 DEF GateInv, RunsOK
    <3>3. Fresh(other)' /\ (other.phase # "idle" => RunOK(other)')
      BY <1>3, <2>10, <3>2, RunStays DEF Fresh
    <3> QED BY <3>1, <3>3 DEF RunOK, Fresh
  <2>15. registrations' # <<>>
    BY <1>1, <1>3 DEF RunOK, Registrations, GateInv, RowsOK
  <2>16. EdgeNeedsReason'
    BY <1>3 DEF GateInv, EdgeNeedsReason
  <2> QED BY <2>12, <2>13, <2>14, <2>15, <2>16 DEF GateInv
<1> QED BY <1>6, <1>7

\* The data is replaced: whoever had verified it and not yet read it is marked.
LEMMA DriftStep ==
  ASSUME GateInv, Drift
  PROVE  GateInv'
<1>1. /\ data' \in Datas /\ UNCHANGED <<file, registrations, verdicts, trials, desk>>
      /\ runs' = [r \in Runners |-> IF runs[r].phase = "verified"
                                    THEN [runs[r] EXCEPT !.drifted = TRUE] ELSE runs[r]]
  BY DEF Drift
<1>2. /\ Grows /\ VerdictsOK' /\ EdgeNeedsReason'
      /\ (verdicts # <<>> => registrations # <<>>)'
  BY <1>1, LogsStay
<1>3. ASSUME NEW r \in Runners
      PROVE  /\ runs'[r] \in Run
             /\ Fresh(runs[r])' /\ ((runs[r].phase # "idle")' => RunOK(runs[r])')
  <2>1. PICK old \in Run : old = runs[r] /\ (old.phase # "idle" => RunOK(old))
    BY DEF GateInv, RowsOK, RunsOK
  <2>2. CASE old.phase = "verified"
    <3>1. PICK run : run = [old EXCEPT !.drifted = TRUE]
      OBVIOUS
    <3>2. /\ run \in Run /\ run.phase = "verified" /\ run.spec = old.spec
          /\ run.done = old.done /\ run.drifted
      BY <2>2, <3>1 DEF Run
    <3>3. RunOK(run)
      BY <2>1, <2>2, <3>2 DEF RunOK
    <3>4. Fresh(run)' /\ RunOK(run)'
      BY <1>2, <3>2, <3>3, RunStays DEF Fresh
    <3>5. runs'[r] = run
      BY <1>1, <2>1, <2>2, <3>1
    <3> QED BY <3>2, <3>4, <3>5 DEF Fresh, RunOK
  <2>3. CASE old.phase # "verified"
    <3>1. runs'[r] = old
      BY <1>1, <2>1, <2>3
    <3>2. Fresh(old)' /\ (old.phase # "idle" => RunOK(old)')
      BY <1>2, <2>1, <2>3, RunStays DEF Fresh
    <3> QED BY <3>1, <3>2 DEF Fresh, RunOK
  <2> QED BY <2>2, <2>3
<1>4. RowsOK' /\ DeskOK'
  BY <1>1, <1>3 DEF GateInv, RowsOK, DeskOK, InFlight
<1>5. RunsOK'
  BY <1>3 DEF RunsOK
<1> QED BY <1>2, <1>4, <1>5 DEF GateInv

LEMMA GateStep ==
  ASSUME GateInv, [Next]_gate
  PROVE  GateInv'
<1>1. ASSUME NEW g \in Registrars, NEW reason \in BOOLEAN, Register(g, reason) PROVE GateInv'
  BY <1>1, RegisterStep
<1>2. ASSUME NEW g \in Registrars, AppendRow(g) PROVE GateInv'
  BY <1>2, AppendStep
<1>3. ASSUME NEW g \in Registrars, Interrupted(g) PROVE GateInv'
  BY <1>3, InterruptedStep
<1>4. ASSUME NEW r \in Runners, Start(r) PROVE GateInv'
  BY <1>4, StartStep
<1>5. ASSUME NEW r \in Runners, load_bars_file(r) PROVE GateInv'
  BY <1>5, LoadStep
<1>6. ASSUME NEW r \in Runners, LogTrials(r) PROVE GateInv'
  <2>1. PICK old \in Run : old = runs[r] /\ old.phase = "arms" /\ RunOK(old)
    BY <1>6 DEF LogTrials, GateInv, RowsOK, RunsOK
  <2> DEFINE run == [old EXCEPT !.phase = "judge"]
  <2>2. /\ run \in Run /\ run.spec = old.spec /\ run.done = old.done /\ run.phase = "judge"
        /\ run.data = old.data /\ run.drifted = old.drifted
    BY DEF Run
  <2>3. /\ runs' = [runs EXCEPT ![r] = run]
        /\ UNCHANGED <<file, data, registrations, verdicts, desk>>
    BY <1>6, <2>1 DEF LogTrials
  <2>4. \A a \in ToSet(run.spec.arms) :
          /\ [spec |-> run.spec, arm |-> a] \in trials'
          /\ \E i \in DOMAIN run.done : run.done[i].name = a
    <3>1. \A d \in ToSet(old.done) : \E i \in DOMAIN old.done : old.done[i] = d
      BY DEF ToSet
    <3> QED BY <1>6, <2>1, <2>2, <3>1 DEF LogTrials
  <2> HIDE DEF run
  <2>5. RunOK(run)'
    BY <2>1, <2>2, <2>3, <2>4 DEF RunOK, Registrations
  <2>6. Fresh(run) /\ trials \subseteq trials'
    BY <1>6, <2>2 DEF Fresh, LogTrials
  <2> QED BY <2>2, <2>3, <2>5, <2>6, RunnerStep
<1>7. ASSUME NEW r \in Runners, Killed(r) PROVE GateInv'
  <2>1. Idle \in Run /\ Idle.phase = "idle"
    BY DEF Idle, Run
  <2>2. Fresh(Idle)
    BY <2>1 DEF Fresh
  <2> QED BY <1>7, <2>1, <2>2, RunnerStep DEF Killed
<1>8. ASSUME NEW r \in Runners, NEW a \in DOMAIN Measured, run_arm(r, a) PROVE GateInv'
  BY <1>8, ArmStep
<1>9. ASSUME NEW r \in Runners, NEW acted \in BOOLEAN, Record(r, acted) PROVE GateInv'
  BY <1>9, RecordStep
<1>10. CASE Edit \/ UNCHANGED gate
  <2>1. file' \in Specs /\ UNCHANGED <<data, registrations, verdicts, trials, desk, runs>>
    BY <1>10 DEF Edit, gate, GateInv, RowsOK
  <2>2. RowsOK' /\ DeskOK'
    BY <2>1 DEF GateInv, RowsOK, DeskOK, InFlight
  <2> QED BY <2>1, <2>2, LogsStay, RunsStay DEF GateInv
<1>11. CASE Drift
  BY <1>11, DriftStep
<1> QED BY <1>1, <1>2, <1>3, <1>4, <1>5, <1>6, <1>7, <1>8, <1>9, <1>10, <1>11 DEF Next

LEMMA GateAlways == Spec => []GateInv
<1>1. Init => GateInv
  <2> SUFFICES ASSUME Init PROVE GateInv
    OBVIOUS
  <2>1. RowsOK
    BY DEF Init, RowsOK, Idle, Run, AtRest, Desk
  <2>2. RunsOK /\ DeskOK
    BY DEF Init, RunsOK, Fresh, Idle, DeskOK, InFlight, AtRest
  <2> QED BY <2>1, <2>2 DEF Init, GateInv, VerdictsOK, EdgeNeedsReason
<1>2. GateInv /\ [Next]_gate => GateInv'
  BY GateStep
<1> QED BY <1>1, <1>2, PTL DEF Spec

\* Whatever the order of the workers, the edits of the file, the data replaced
\* under a run and the runs that die, a verdict is of a spec that was
\* registered and of the snapshot it names, unless that was replaced between
\* its check and its loading; it says of every arm on trial what its
\* measurements on that data say, and leaves every arm in the trials log
\* (run_gate.main).
THEOREM VerdictsAreHonest == Spec => [](VerdictsHonest /\ EdgeNeedsReason)
<1>1. GateInv => VerdictsHonest /\ EdgeNeedsReason
  BY DEF GateInv, VerdictsOK, VerdictHonest, Registrations, VerdictsHonest
<1> QED BY <1>1, GateAlways, PTL

\* Once a verdict is known no registrar passes the check any more, and what is
\* appended is what one that had passed it was holding, once each
\* (register_gate.main).
THEOREM KnownResultsFreeze == Spec => GoalpostStays
<1> DEFINE Held == registrations' # registrations =>
                     \E g \in InFlight : /\ InFlight' = InFlight \ {g}
                                        /\ registrations' = Append(registrations, desk[g].row)
<1>1. ASSUME GateInv, [Next]_gate, verdicts # <<>>
      PROVE  InFlight' \subseteq InFlight /\ Held
  <2>1. registrations # <<>> /\ desk \in [Registrars -> Desk]
    BY <1>1 DEF GateInv, RowsOK
  <2>2. ASSUME NEW g \in Registrars, NEW reason \in BOOLEAN, Register(g, reason) PROVE FALSE
    BY <1>1, <2>1, <2>2 DEF Register, MayRegister, Registered, has_verdict
  <2>3. AtRest.phase = "idle"
    BY DEF AtRest
  <2>4. ASSUME NEW g \in Registrars, AppendRow(g) PROVE InFlight' \subseteq InFlight /\ Held
    <3>1. g \in InFlight /\ desk' = [desk EXCEPT ![g] = AtRest]
          /\ registrations' = Append(registrations, desk[g].row)
      BY <2>4 DEF AppendRow, InFlight
    <3>2. InFlight' = InFlight \ {g}
      BY <2>1, <2>3, <3>1 DEF InFlight
    <3> QED BY <3>1, <3>2
  <2>5. ASSUME NEW g \in Registrars, Interrupted(g) PROVE InFlight' \subseteq InFlight /\ Held
    BY <2>1, <2>3, <2>5 DEF Interrupted, InFlight
  <2>6. CASE UNCHANGED <<desk, registrations>>
    BY <2>6 DEF InFlight
  <2> QED BY <1>1, <2>2, <2>4, <2>5, <2>6
        DEF Next, Start, load_bars_file, LogTrials, Killed, run_arm, Record, Edit, Drift, gate
<1>2. GateInv /\ [Next]_gate =>
        [verdicts # <<>> => InFlight' \subseteq InFlight /\ Held]_gate
  BY <1>1
<1> QED BY <1>2, GateAlways, PTL DEF Spec, GoalpostStays

(* Numbers and sums. *)

LEMMA LeastOf ==
  ASSUME NEW S \in SUBSET Nat, S # {}
  PROVE  \E x \in S : \A y \in S : x <= y
<1> DEFINE R == OpToRel(<, Nat)
<1>1. IsWellFoundedOn(R, Nat)
  BY NatLessThanWellFounded
<1>2. \A x, y \in Nat : <<y, x>> \in R <=> y < x
  BY DEF OpToRel
<1> HIDE DEF R
<1>3. \E x \in S : \A y \in S : ~ (<<y, x>> \in R)
  BY <1>1, WFMin
<1>4. PICK x \in S : \A y \in S : ~ (<<y, x>> \in R)
  BY <1>3
<1>5. ASSUME NEW y \in S PROVE x <= y
  <2>1. x \in Nat /\ y \in Nat /\ ~ (<<y, x>> \in R)
    BY <1>4
  <2>2. ~ (y < x)
    BY <1>2, <2>1
  <2> QED BY <2>1, <2>2
<1> QED BY <1>5

SumOf(f, S) == MapThenSumSet(LAMBDA x : f[x], S)
Pick(s) == CHOOSE x \in s : TRUE

\* g sums f over the subsets of S in D, an element at a time.
Sums(g, f, D) ==
  g = [s \in D |-> IF s = {} THEN 0 ELSE f[Pick(s)] + g[s \ {Pick(s)}]]

Small(S, n) == {s \in SUBSET S : Cardinality(s) <= n}

LEMMA Picked ==
  ASSUME NEW s, s # {}
  PROVE  Pick(s) \in s
  BY DEF Pick

LEMMA SmallStep ==
  ASSUME NEW S, IsFiniteSet(S), NEW n \in Nat, NEW f, NEW g, Sums(g, f, Small(S, n))
  PROVE  \E h : Sums(h, f, Small(S, n + 1))
<1> DEFINE h == [s \in Small(S, n + 1) |-> IF s = {} THEN 0 ELSE f[Pick(s)] + g[s \ {Pick(s)}]]
<1>1. \A s \in Small(S, n) : s \in Small(S, n + 1) /\ h[s] = g[s]
  <2> SUFFICES ASSUME NEW s \in Small(S, n) PROVE s \in Small(S, n + 1) /\ h[s] = g[s]
    OBVIOUS
  <2>1. IsFiniteSet(s) /\ Cardinality(s) \in Nat
    BY FS_Subset, FS_CardinalityType DEF Small
  <2>2. s \in Small(S, n + 1)
    BY <2>1 DEF Small
  <2> QED BY <2>2 DEF Sums
<1>2. \A s \in Small(S, n + 1) : s # {} => s \ {Pick(s)} \in Small(S, n)
  <2> SUFFICES ASSUME NEW s \in Small(S, n + 1), s # {} PROVE s \ {Pick(s)} \in Small(S, n)
    OBVIOUS
  <2>1. IsFiniteSet(s) /\ Cardinality(s) \in Nat /\ s \subseteq S /\ Cardinality(s) <= n + 1
    BY FS_Subset, FS_CardinalityType DEF Small
  <2>2. Cardinality(s \ {Pick(s)}) = Cardinality(s) - 1
    BY <2>1, Picked, FS_RemoveElement
  <2> QED BY <2>1, <2>2 DEF Small
<1> HIDE DEF h
<1>3. h = [s \in Small(S, n + 1) |-> IF s = {} THEN 0 ELSE f[Pick(s)] + h[s \ {Pick(s)}]]
  <2>1. h = [s \in Small(S, n + 1) |-> IF s = {} THEN 0 ELSE f[Pick(s)] + g[s \ {Pick(s)}]]
    BY DEF h
  <2>2. \A s \in Small(S, n + 1) : s # {} => h[s \ {Pick(s)}] = g[s \ {Pick(s)}]
    BY <1>1, <1>2
  <2> QED BY <2>1, <2>2
<1> QED BY <1>3 DEF Sums

LEMMA SumsExist ==
  ASSUME NEW S, IsFiniteSet(S), NEW f
  PROVE  \E g : Sums(g, f, SUBSET S)
<1> DEFINE N == {n \in Nat : ~ \E g : Sums(g, f, Small(S, n))}
<1>1. N = {}
  <2> SUFFICES ASSUME N # {} PROVE FALSE
    OBVIOUS
  <2>1. PICK n \in N : \A m \in N : n <= m
    BY LeastOf
  <2>2. CASE n = 0
    <3>1. Small(S, 0) = {{}}
      BY FS_EmptySet, FS_Subset, FS_CardinalityType DEF Small
    <3>2. Sums([s \in {{}} |-> 0], f, {{}})
      BY DEF Sums
    <3> QED BY <2>2, <3>1, <3>2
  <2>3. CASE n # 0
    <3>1. n - 1 \in Nat /\ n - 1 \notin N /\ (n - 1) + 1 = n
      BY <2>1, <2>3
    <3>2. PICK g : Sums(g, f, Small(S, n - 1))
      BY <3>1
    <3>3. \E h : Sums(h, f, Small(S, n))
      BY <3>1, <3>2, SmallStep
    <3> QED BY <3>3
  <2> QED BY <2>2, <2>3
<1>2. Cardinality(S) \in Nat /\ Small(S, Cardinality(S)) = SUBSET S
  BY FS_Subset, FS_CardinalityType DEF Small
<1>3. Cardinality(S) \notin N
  BY <1>1
<1>4. \E g : Sums(g, f, Small(S, Cardinality(S)))
  BY <1>2, <1>3
<1> QED BY <1>2, <1>4

LEMMA SumIs ==
  ASSUME NEW f, NEW S, IsFiniteSet(S)
  PROVE  \E g : Sums(g, f, SUBSET S) /\ SumOf(f, S) = g[S]
<1> DEFINE P(g) == g = [s \in SUBSET S |-> IF s = {} THEN 0 ELSE f[Pick(s)] + g[s \ {Pick(s)}]]
           i == CHOOSE g : P(g)
<1>1. \E g : P(g)
  <2>1. PICK g : Sums(g, f, SUBSET S)
    BY SumsExist
  <2>2. P(g)
    BY <2>1 DEF Sums
  <2> QED BY <2>2
<1>2. P(i)
  <2> HIDE DEF P
  <2> QED BY <1>1
<1>3. SumOf(f, S) = i[S]
  BY DEF SumOf, MapThenSumSet, MapThenFoldSet, Pick
<1>4. Sums(i, f, SUBSET S)
  <2> HIDE DEF i
  <2> QED BY <1>2 DEF Sums
<1> HIDE DEF i
<1> QED BY <1>3, <1>4

LEMMA SmallerSet ==
  ASSUME NEW T, IsFiniteSet(T), NEW x \in T
  PROVE  /\ Cardinality(T) \in Nat /\ Cardinality(T) # 0 /\ IsFiniteSet(T \ {x})
         /\ Cardinality(T \ {x}) \in Nat /\ Cardinality(T \ {x}) = Cardinality(T) - 1
<1>1. IsFiniteSet(T \ {x})
  BY FS_Subset
<1>2. Cardinality(T) \in Nat /\ Cardinality(T \ {x}) \in Nat
  BY <1>1, FS_CardinalityType
<1>3. Cardinality(T \ {x}) = Cardinality(T) - 1
  BY FS_RemoveElement
<1> QED BY <1>1, <1>2, <1>3

\* A claim that a set of the smallest counterexample refutes holds of all.
LEMMA SumsInt ==
  ASSUME NEW f, NEW S, IsFiniteSet(S), \A x \in S : f[x] \in Int, NEW g, Sums(g, f, SUBSET S)
  PROVE  \A T \in SUBSET S : g[T] \in Int
<1> DEFINE N == {n \in Nat : \E T \in SUBSET S : Cardinality(T) = n /\ g[T] \notin Int}
<1>1. N = {}
  <2> SUFFICES ASSUME N # {} PROVE FALSE
    OBVIOUS
  <2>1. PICK n \in N : \A m \in N : n <= m
    BY LeastOf
  <2>2. PICK T \in SUBSET S : Cardinality(T) = n /\ g[T] \notin Int
    BY <2>1
  <2>3. T # {}
    <3>1. g[{}] = 0 /\ 0 \in Int
      BY DEF Sums
    <3>2. g[T] # 0
      BY <2>2, <3>1
    <3> QED BY <3>1, <3>2
  <2>4. Pick(T) \in T
    BY <2>3, Picked
  <2>5. g[T] = f[Pick(T)] + g[T \ {Pick(T)}]
    BY <2>3 DEF Sums
  <2>6. IsFiniteSet(T)
    BY FS_Subset
  <2>7. Cardinality(T \ {Pick(T)}) \in Nat /\ ~ (n <= Cardinality(T \ {Pick(T)}))
    BY <2>2, <2>4, <2>6, SmallerSet
  <2>8. g[T \ {Pick(T)}] \in Int
    BY <2>1, <2>7
  <2> QED BY <2>2, <2>4, <2>5, <2>8
<1>2. SUFFICES ASSUME NEW T \in SUBSET S, g[T] \notin Int PROVE FALSE
  OBVIOUS
<1>3. Cardinality(T) \in N
  BY <1>2, FS_Subset, FS_CardinalityType
<1> QED BY <1>1, <1>3

AnyOrder(g, f, S) == \A T \in SUBSET S : \A x \in T : g[T] = f[x] + g[T \ {x}]
LEMMA SumsStep ==
  ASSUME NEW f, NEW S, IsFiniteSet(S), \A x \in S : f[x] \in Int, NEW g, Sums(g, f, SUBSET S)
  PROVE  AnyOrder(g, f, S)
<1> USE DEF AnyOrder
<1> DEFINE Bad(T) == \E x \in T : g[T] # f[x] + g[T \ {x}]
           N == {n \in Nat : \E T \in SUBSET S : Cardinality(T) = n /\ Bad(T)}
<1>1. N = {}
  <2> SUFFICES ASSUME N # {} PROVE FALSE
    OBVIOUS
  <2>1. PICK n \in N : \A m \in N : n <= m
    BY LeastOf
  <2>2. PICK T \in SUBSET S : Cardinality(T) = n /\ Bad(T)
    BY <2>1
  <2>3. PICK x \in T : g[T] # f[x] + g[T \ {x}]
    BY <2>2
  <2>4. PICK p \in T : p = Pick(T)
    BY <2>3, Picked
  <2>5. g[T] = f[p] + g[T \ {p}]
    BY <2>3, <2>4 DEF Sums
  <2>6. p # x
    BY <2>3, <2>5
  <2>7. IsFiniteSet(T)
    BY FS_Subset
  <2>8. \A y \in T : ~ Bad(T \ {y})
    <3> SUFFICES ASSUME NEW y \in T PROVE ~ Bad(T \ {y})
      OBVIOUS
    <3>1. Cardinality(T \ {y}) \in Nat /\ ~ (n <= Cardinality(T \ {y}))
      BY <2>2, <2>7, SmallerSet
    <3>2. Cardinality(T \ {y}) \notin N
      BY <2>1, <3>1
    <3>3. T \ {y} \in SUBSET S
      OBVIOUS
    <3> HIDE DEF Bad
    <3> QED BY <3>1, <3>2, <3>3
  <2>9. g[T \ {p}] = f[x] + g[(T \ {p}) \ {x}]
    BY <2>6, <2>8
  <2>10. g[T \ {x}] = f[p] + g[(T \ {x}) \ {p}]
    BY <2>6, <2>8
  <2>11. (T \ {x}) \ {p} = (T \ {p}) \ {x} /\ (T \ {p}) \ {x} \in SUBSET S
    OBVIOUS
  <2>12. PICK r \in Int : r = g[(T \ {p}) \ {x}]
    BY <2>11, SumsInt
  <2>13. PICK u, v \in Int : u = f[x] /\ v = f[p]
    OBVIOUS
  <2>14. g[T] = v + (u + r) /\ g[T \ {x}] = v + r
    BY <2>5, <2>9, <2>10, <2>11, <2>12, <2>13
  <2>15. g[T] # u + (v + r)
    BY <2>3, <2>13, <2>14
  <2> QED BY <2>12, <2>13, <2>14, <2>15
<1>2. SUFFICES ASSUME NEW T \in SUBSET S, Bad(T) PROVE FALSE
  OBVIOUS
<1>3. Cardinality(T) \in Nat
  BY FS_Subset, FS_CardinalityType
<1>4. Cardinality(T) \in N
  BY <1>2, <1>3
<1> QED BY <1>1, <1>4

LEMMA SumsSame ==
  ASSUME NEW f, NEW f2, NEW S, IsFiniteSet(S), \A x \in S : f[x] = f2[x],
         NEW g, Sums(g, f, SUBSET S), NEW g2, Sums(g2, f2, SUBSET S)
  PROVE  \A T \in SUBSET S : g[T] = g2[T]
<1> DEFINE N == {n \in Nat : \E T \in SUBSET S : Cardinality(T) = n /\ g[T] # g2[T]}
<1>1. N = {}
  <2> SUFFICES ASSUME N # {} PROVE FALSE
    OBVIOUS
  <2>1. PICK n \in N : \A m \in N : n <= m
    BY LeastOf
  <2>2. PICK T \in SUBSET S : Cardinality(T) = n /\ g[T] # g2[T]
    BY <2>1
  <2>3. T # {}
    <3>1. g[{}] = 0 /\ g2[{}] = 0
      BY DEF Sums
    <3> QED BY <2>2, <3>1
  <2>4. PICK p \in T : p = Pick(T)
    BY <2>3, Picked
  <2>5. g[T] = f[p] + g[T \ {p}] /\ g2[T] = f2[p] + g2[T \ {p}]
    BY <2>3, <2>4 DEF Sums
  <2>6. IsFiniteSet(T)
    BY FS_Subset
  <2>7. Cardinality(T \ {p}) \in Nat /\ ~ (n <= Cardinality(T \ {p}))
    <3> HIDE DEF N
    <3>1. /\ Cardinality(T) \in Nat /\ Cardinality(T \ {p}) \in Nat
          /\ Cardinality(T \ {p}) = Cardinality(T) - 1
      BY <2>6, SmallerSet
    <3>2. PICK k \in Nat, c \in Nat : k = Cardinality(T \ {p}) /\ c = Cardinality(T)
      BY <3>1
    <3>3. n = c /\ k = c - 1
      BY <2>2, <3>1, <3>2
    <3>4. ~ (n <= k)
      BY <3>3
    <3> QED BY <3>2, <3>4
  <2>8. g[T \ {p}] = g2[T \ {p}]
    BY <2>1, <2>7
  <2> QED BY <2>2, <2>4, <2>5, <2>8
<1>2. SUFFICES ASSUME NEW T \in SUBSET S, g[T] # g2[T] PROVE FALSE
  OBVIOUS
<1>3. Cardinality(T) \in N
  BY <1>2, FS_Subset, FS_CardinalityType
<1> QED BY <1>1, <1>3

\* The sum over a finite set: nothing for none, a number, a member at a time
\* in any order, and what the values on the set say.
LEMMA SumEmpty ==
  ASSUME NEW f
  PROVE  SumOf(f, {}) = 0
<1>1. IsFiniteSet({})
  BY FS_EmptySet
<1>2. PICK g : Sums(g, f, SUBSET {}) /\ SumOf(f, {}) = g[{}]
  BY <1>1, SumIs
<1> QED BY <1>2 DEF Sums

LEMMA SumInt ==
  ASSUME NEW f, NEW S, IsFiniteSet(S), \A x \in S : f[x] \in Int
  PROVE  SumOf(f, S) \in Int
<1>1. PICK g : Sums(g, f, SUBSET S) /\ SumOf(f, S) = g[S]
  BY SumIs
<1> QED BY <1>1, SumsInt

LEMMA SumSame ==
  ASSUME NEW f, NEW f2, NEW S, IsFiniteSet(S), \A x \in S : f[x] = f2[x]
  PROVE  SumOf(f, S) = SumOf(f2, S)
<1>1. PICK g : Sums(g, f, SUBSET S) /\ SumOf(f, S) = g[S]
  BY SumIs
<1>2. PICK g2 : Sums(g2, f2, SUBSET S) /\ SumOf(f2, S) = g2[S]
  BY SumIs
<1>3. \A T \in SUBSET S : g[T] = g2[T]
  BY <1>1, <1>2, SumsSame
<1> QED BY <1>1, <1>2, <1>3

Splits(f, S, x) == SumOf(f, S) = f[x] + SumOf(f, S \ {x})
LEMMA SumRemove ==
  ASSUME NEW f, NEW S, IsFiniteSet(S), \A x \in S : f[x] \in Int, NEW x \in S
  PROVE  Splits(f, S, x)
<1>1. PICK g : Sums(g, f, SUBSET S) /\ SumOf(f, S) = g[S]
  BY SumIs
<1>2. IsFiniteSet(S \ {x})
  BY FS_Subset
<1>3. PICK g2 : Sums(g2, f, SUBSET (S \ {x})) /\ SumOf(f, S \ {x}) = g2[S \ {x}]
  BY <1>2, SumIs
<1> DEFINE h == [T \in SUBSET (S \ {x}) |-> g[T]]
<1>4. Sums(h, f, SUBSET (S \ {x}))
  <2>1. \A T \in SUBSET (S \ {x}) : T \in SUBSET S /\ T \ {Pick(T)} \in SUBSET (S \ {x})
    OBVIOUS
  <2>2. \A T \in SUBSET (S \ {x}) : g[T] = IF T = {} THEN 0 ELSE f[Pick(T)] + g[T \ {Pick(T)}]
    BY <1>1, <2>1 DEF Sums
  <2>3. h = [T \in SUBSET (S \ {x}) |-> IF T = {} THEN 0 ELSE f[Pick(T)] + h[T \ {Pick(T)}]]
    BY <2>1, <2>2
  <2> QED BY <2>3 DEF Sums
<1>5. h[S \ {x}] = g[S \ {x}]
  OBVIOUS
<1> HIDE DEF h
<1>6. \A T \in SUBSET (S \ {x}) : h[T] = g2[T]
  <2>1. PICK R : R = S \ {x}
    OBVIOUS
  <2>2. IsFiniteSet(R) /\ Sums(h, f, SUBSET R) /\ Sums(g2, f, SUBSET R)
    BY <1>2, <1>3, <1>4, <2>1
  <2>3. \A T \in SUBSET R : h[T] = g2[T]
    BY <2>2, SumsSame
  <2> QED BY <2>1, <2>3
<1>7. g[S] = f[x] + g[S \ {x}]
  <2>1. S \in SUBSET S
    OBVIOUS
  <2>2. AnyOrder(g, f, S)
    BY <1>1, SumsStep
  <2> QED BY <2>1, <2>2 DEF AnyOrder
<1> QED BY <1>1, <1>3, <1>5, <1>6, <1>7 DEF Splits

LEMMA SumAdd ==
  ASSUME NEW f, NEW S, IsFiniteSet(S), NEW x, x \notin S, \A y \in S \cup {x} : f[y] \in Int
  PROVE  SumOf(f, S \cup {x}) = f[x] + SumOf(f, S)
<1>1. IsFiniteSet(S \cup {x}) /\ (S \cup {x}) \ {x} = S /\ x \in S \cup {x}
  BY FS_AddElement
<1>2. SumOf(f, S \cup {x}) = f[x] + SumOf(f, (S \cup {x}) \ {x})
  BY <1>1, SumRemove DEF Splits
<1> QED BY <1>1, <1>2

LEMMA SumNat ==
  ASSUME NEW f, NEW S, IsFiniteSet(S), \A x \in S : f[x] \in Nat
  PROVE  SumOf(f, S) \in Nat
<1> DEFINE N == {n \in Nat : \E T \in SUBSET S : Cardinality(T) = n /\ SumOf(f, T) \notin Nat}
<1>1. N = {}
  <2> SUFFICES ASSUME N # {} PROVE FALSE
    OBVIOUS
  <2>1. PICK n \in N : \A m \in N : n <= m
    BY LeastOf
  <2>2. PICK T \in SUBSET S : Cardinality(T) = n /\ SumOf(f, T) \notin Nat
    BY <2>1
  <2>3. T # {}
    BY <2>2, SumEmpty
  <2>4. PICK p : p \in T
    BY <2>3
  <2>5. IsFiniteSet(T)
    BY FS_Subset
  <2>6. Cardinality(T \ {p}) \in Nat /\ ~ (n <= Cardinality(T \ {p}))
    <3> HIDE DEF N
    <3>1. /\ Cardinality(T) \in Nat /\ Cardinality(T \ {p}) \in Nat
          /\ Cardinality(T \ {p}) = Cardinality(T) - 1
      BY <2>4, <2>5, SmallerSet
    <3>2. PICK k \in Nat, c \in Nat : k = Cardinality(T \ {p}) /\ c = Cardinality(T)
      BY <3>1
    <3>3. n = c /\ k = c - 1
      BY <2>2, <3>1, <3>2
    <3>4. ~ (n <= k)
      BY <3>3
    <3> QED BY <3>2, <3>4
  <2>7. SumOf(f, T \ {p}) \in Nat
    BY <2>1, <2>6
  <2>8. \A x \in T : f[x] \in Int
    OBVIOUS
  <2>9. SumOf(f, T) = f[p] + SumOf(f, T \ {p})
    BY <2>4, <2>5, <2>8, SumRemove DEF Splits
  <2> QED BY <2>2, <2>4, <2>7, <2>9
<1>2. SUFFICES ASSUME SumOf(f, S) \notin Nat PROVE FALSE
  OBVIOUS
<1>3. Cardinality(S) \in N
  BY <1>2, FS_CardinalityType
<1> QED BY <1>1, <1>3

DailyBar == [high : Nat, low : Nat, close : Nat \ {0}, vol : Nat]
Fractions == {Strat!NoRatio} \cup [n : Nat, d : Nat \ {0}]

\* The walk is within its calendar, over bars of the kind the constants allow.
Walked == path \in Paths /\ day \in 1 .. Len(Calendar)

LEMMA SameSum ==
  ASSUME NEW f, NEW S
  PROVE  Strat!SumFunctionOnSet(f, S) = SumOf(f, S)
BY DEF Strat!SumFunctionOnSet, Strat!FoldFunctionOnSet, Strat!MapThenFoldSet,
       SumOf, MapThenSumSet, MapThenFoldSet

LEMMA SameCard ==
  ASSUME NEW S
  PROVE  Strat!Cardinality(S) = Cardinality(S)
BY DEF Strat!Cardinality, Cardinality, Strat!IsFiniteSet, IsFiniteSet

LEMMA MaxExists ==
  ASSUME NEW S, IsFiniteSet(S), S # {}, S \subseteq Int
  PROVE  \E x \in S : \A y \in S : x >= y
<1> DEFINE Bad(T) == T # {} /\ \A x \in T : \E y \in T : ~ (x >= y)
           N == {n \in Nat : \E T \in SUBSET S : Cardinality(T) = n /\ Bad(T)}
<1>1. N = {}
  <2> SUFFICES ASSUME N # {} PROVE FALSE
    OBVIOUS
  <2>1. PICK n \in N : \A m \in N : n <= m
    BY LeastOf
  <2>2. PICK T \in SUBSET S : Cardinality(T) = n /\ Bad(T)
    BY <2>1
  <2>3. PICK x : x \in T
    BY <2>2
  <2>4. IsFiniteSet(T)
    BY FS_Subset
  <2>5. Cardinality(T \ {x}) \in Nat /\ ~ (n <= Cardinality(T \ {x})) /\ T \ {x} \in SUBSET S
    <3> HIDE DEF Bad
    <3>1. /\ Cardinality(T) \in Nat /\ Cardinality(T \ {x}) \in Nat
          /\ Cardinality(T \ {x}) = Cardinality(T) - 1
      BY <2>3, <2>4, SmallerSet
    <3>2. Cardinality(T) = n
      BY <2>2
    <3>3. T \ {x} \in SUBSET S
      OBVIOUS
    <3>4. PICK a, b \in Nat : a = Cardinality(T) /\ b = Cardinality(T \ {x}) /\ b = a - 1
      BY <3>1
    <3>5. ~ (n <= b)
      BY <3>2, <3>4
    <3> QED BY <3>3, <3>4, <3>5
  <2>6. ~ Bad(T \ {x})
    <3> HIDE DEF Bad
    <3> QED BY <2>1, <2>5
  <2>7. CASE T \ {x} = {}
    BY <2>2, <2>3, <2>7
  <2>8. CASE T \ {x} # {}
    <3>1. PICK m \in T \ {x} : \A y \in T \ {x} : m >= y
      BY <2>6, <2>8
    <3>2. CASE m >= x
      BY <2>2, <3>1, <3>2
    <3>3. CASE ~ (m >= x)
      BY <2>2, <2>3, <3>1, <3>3
    <3> QED BY <3>2, <3>3
  <2> QED BY <2>7, <2>8
<1>2. SUFFICES ASSUME Bad(S) PROVE FALSE
  OBVIOUS
<1>3. Cardinality(S) \in N
  BY <1>2, FS_CardinalityType
<1> QED BY <1>1, <1>3

LEMMA MaxTop ==
  ASSUME NEW S, IsFiniteSet(S), S # {}, S \subseteq Int
  PROVE  Strat!Max(S) \in S /\ \A y \in S : Strat!Max(S) >= y
BY MaxExists DEF Strat!Max

LEMMA MinBottom ==
  ASSUME NEW S, S # {}, S \subseteq Nat
  PROVE  Strat!Min(S) \in S /\ \A y \in S : Strat!Min(S) <= y
BY LeastOf DEF Strat!Min

LEMMA MaxOfTwo ==
  ASSUME NEW a \in Int, NEW b \in Int
  PROVE  Strat!Max({a, b}) \in Int /\ Strat!Max({a, b}) >= a /\ Strat!Max({a, b}) >= b
<1>1. IsFiniteSet({} \cup {a})
  BY FS_EmptySet, FS_AddElement
<1>2. IsFiniteSet(({} \cup {a}) \cup {b})
  BY <1>1, FS_AddElement
<1>3. ({} \cup {a}) \cup {b} = {a, b}
  OBVIOUS
<1> QED BY <1>2, <1>3, MaxTop

LEMMA MaxOfThree ==
  ASSUME NEW a \in Int, NEW b \in Int, NEW c \in Int
  PROVE  /\ Strat!Max({a, b, c}) \in Int /\ Strat!Max({a, b, c}) >= a
         /\ Strat!Max({a, b, c}) >= b /\ Strat!Max({a, b, c}) >= c
<1>1. IsFiniteSet({a, b, c})
  <2>1. IsFiniteSet({} \cup {a})
    BY FS_EmptySet, FS_AddElement
  <2>2. IsFiniteSet(({} \cup {a}) \cup {b})
    BY <2>1, FS_AddElement
  <2>3. IsFiniteSet((({} \cup {a}) \cup {b}) \cup {c})
    BY <2>2, FS_AddElement
  <2>4. (({} \cup {a}) \cup {b}) \cup {c} = {a, b, c}
    OBVIOUS
  <2> QED BY <2>3, <2>4
<1> QED BY <1>1, MaxTop

LEMMA SymbolsFinite == IsFiniteSet(Strat!Symbols)
<1>1. PICK n \in Nat : DOMAIN Listed = 1 .. n
  BY StrategiesAssumption DEF Strat!StrategiesConstants
<1>2. IsFiniteSet(1 .. n)
  BY FS_Interval
<1>3. Strat!Symbols = {Listed[i] : i \in 1 .. n}
  BY <1>1 DEF Strat!Symbols, Strat!Range
<1>4. IsFiniteSet({Listed[i] : i \in 1 .. n})
  <2> DEFINE f == [i \in 1 .. n |-> Listed[i]]
  <2>1. f \in Surjection(1 .. n, {Listed[i] : i \in 1 .. n})
    BY DEF Surjection
  <2> QED BY <1>2, <2>1, FS_Surjection
<1> QED BY <1>3, <1>4

\* What is counted of symbols is a number.
LEMMA Counted ==
  ASSUME NEW S \in SUBSET Strat!Symbols
  PROVE  IsFiniteSet(S) /\ Strat!Cardinality(S) \in Nat /\ Strat!Cardinality(S) = Cardinality(S)
<1>1. IsFiniteSet(S)
  BY SymbolsFinite, FS_Subset
<1> QED BY <1>1, SameCard, FS_CardinalityType

LEMMA BarsAre ==
  ASSUME Walked, NEW s \in Strat!Symbols
  PROVE  /\ day \in Nat \ {0}
         /\ Strat!Bars(s) \in Seq(DailyBar) /\ Len(Strat!Bars(s)) = day
         /\ \A i \in 1 .. day : /\ Strat!Bars(s)[i] = path[s][i] /\ Strat!Bars(s)[i] \in DailyBar
                                /\ Strat!Bars(s)[i].low <= Strat!Bars(s)[i].close
                                /\ Strat!Bars(s)[i].close <= Strat!Bars(s)[i].high
<1>1. PICK x : x = path[s]
  OBVIOUS
<1>2. Calendar \in Seq([month : Nat, left : Nat]) /\ Len(Calendar) \in Nat
  BY StrategiesAssumption DEF Strat!StrategiesConstants
<1>3. x \in Seq(DailyBar) /\ Len(x) = Len(Calendar)
  BY <1>1, StrategiesAssumption DEF Walked, Strat!StrategiesConstants, DailyBar, Strat!Positive
<1>4. \A d \in DOMAIN x : x[d].low <= x[d].close /\ x[d].close <= x[d].high
  BY <1>1, StrategiesAssumption DEF Walked, Strat!StrategiesConstants
<1>5. PICK n \in Nat, e \in Nat : n = Len(x) /\ e = day /\ e \in 1 .. n /\ e # 0
  BY <1>2, <1>3 DEF Walked
<1>6. /\ SubSeq(x, 1, e) \in Seq(DailyBar) /\ Len(SubSeq(x, 1, e)) = e
      /\ \A i \in 1 .. e : SubSeq(x, 1, e)[i] = x[i] /\ x[i] \in DailyBar /\ i \in DOMAIN x
  BY <1>3, <1>5, SubSeqProperties
<1>7. Strat!Bars(s) = SubSeq(x, 1, e)
  BY <1>1, <1>5 DEF Strat!Bars
<1> QED BY <1>1, <1>4, <1>5, <1>6, <1>7

LEMMA ClosesAre ==
  ASSUME Walked, NEW s \in Strat!Symbols
  PROVE  /\ Strat!Closes(s) \in Seq(Nat \ {0}) /\ Len(Strat!Closes(s)) = day
         /\ \A i \in 1 .. day : Strat!Closes(s)[i] = Strat!Bars(s)[i].close
<1>1. PICK n \in Nat, b \in Seq(DailyBar) : n = day /\ b = Strat!Bars(s) /\ Len(b) = n
  BY BarsAre
<1>2. DOMAIN b = 1 .. n /\ \A i \in 1 .. n : b[i] \in DailyBar
  BY <1>1
<1>3. Strat!Closes(s) = [i \in 1 .. n |-> b[i].close]
  BY <1>1, <1>2 DEF Strat!Closes, Strat!ClosesOf
<1>4. \A i \in 1 .. n : b[i].close \in Nat \ {0}
  BY <1>2 DEF DailyBar
<1>5. [i \in 1 .. n |-> b[i].close] \in Seq(Nat \ {0}) /\ Len([i \in 1 .. n |-> b[i].close]) = n
  BY <1>4
<1> QED BY <1>1, <1>3, <1>5

LEMMA BackIs ==
  ASSUME NEW S, NEW xs \in Seq(S), NEW n \in Nat, n <= Len(xs)
  PROVE  /\ Strat!Back(xs, n) \in Seq(S) /\ Len(Strat!Back(xs, n)) = Len(xs) - n
         /\ \A i \in 1 .. Len(xs) - n : Strat!Back(xs, n)[i] = xs[i]
<1>1. PICK k \in Nat : k = Len(xs) /\ n <= k
  OBVIOUS
<1>2. PICK e \in Nat : e = k - n
  <2>1. k - n \in Nat
    BY <1>1
  <2> QED BY <2>1
<1>3. /\ SubSeq(xs, 1, e) \in Seq(S) /\ Len(SubSeq(xs, 1, e)) = e
      /\ \A i \in 1 .. e : SubSeq(xs, 1, e)[i] = xs[i]
  BY <1>1, <1>2, SubSeqProperties
<1> QED BY <1>1, <1>2, <1>3 DEF Strat!Back

LEMMA LastOfIs ==
  ASSUME NEW S, NEW xs \in Seq(S), NEW n \in Nat \ {0}, n <= Len(xs)
  PROVE  /\ Strat!LastOf(xs, n) \in Seq(S) /\ Len(Strat!LastOf(xs, n)) = n
         /\ \A i \in 1 .. n : Strat!LastOf(xs, n)[i] = xs[Len(xs) - n + i]
<1>1. PICK k \in Nat : k = Len(xs) /\ n <= k
  OBVIOUS
<1>2. PICK b \in Nat \ {0} : b = k - n + 1 /\ b <= k
  <2>1. k - n + 1 \in Nat \ {0} /\ k - n + 1 <= k
    BY <1>1
  <2> QED BY <2>1
<1>3. /\ SubSeq(xs, b, k) \in Seq(S) /\ Len(SubSeq(xs, b, k)) = k - b + 1
      /\ \A i \in 1 .. k - b + 1 : SubSeq(xs, b, k)[i] = xs[b + i - 1]
  BY <1>1, <1>2, SubSeqProperties
<1>4. k - b + 1 = n /\ \A i \in 1 .. n : b + i - 1 = k - n + i
  BY <1>2
<1> QED BY <1>1, <1>2, <1>3, <1>4 DEF Strat!LastOf

LEMMA SmaIs ==
  ASSUME NEW xs \in Seq(Nat), NEW p \in Nat
  PROVE  /\ Strat!sma(xs, p) \in Fractions
         /\ p # 0 /\ p <= Len(xs) =>
              /\ Strat!sma(xs, p) # Strat!NoRatio
              /\ Strat!sma(xs, p) = [n |-> SumOf(xs, Len(xs) - p + 1 .. Len(xs)), d |-> p]
              /\ SumOf(xs, Len(xs) - p + 1 .. Len(xs)) \in Nat
<1>1. PICK k \in Nat : k = Len(xs) /\ \A i \in 1 .. k : xs[i] \in Nat
  OBVIOUS
<1>2. CASE k < p \/ p = 0
  <2>1. Strat!sma(xs, p) = Strat!NoRatio
    BY <1>1, <1>2 DEF Strat!sma
  <2> QED BY <1>1, <1>2, <2>1 DEF Fractions
<1>3. CASE ~ (k < p \/ p = 0)
  <2>1. PICK b \in Nat \ {0} : b = k - p + 1
    BY <1>3
  <2>2. IsFiniteSet(b .. k) /\ \A i \in b .. k : xs[i] \in Nat
    <3>1. IsFiniteSet(b .. k)
      BY <1>1, <2>1, FS_Interval
    <3>2. \A i \in b .. k : i \in 1 .. k
      BY <1>1, <2>1
    <3> QED BY <1>1, <3>1, <3>2
  <2>3. SumOf(xs, b .. k) \in Nat
    BY <2>2, SumNat
  <2>4. Strat!sma(xs, p) = [n |-> SumOf(xs, b .. k), d |-> p]
    BY <1>1, <1>3, <2>1, SameSum DEF Strat!sma, Strat!Frac, Strat!Sum
  <2>5. Strat!sma(xs, p) # Strat!NoRatio
    BY <1>3, <2>4 DEF Strat!NoRatio, Strat!Frac
  <2> QED BY <1>1, <1>3, <2>1, <2>3, <2>4, <2>5 DEF Fractions
<1> QED BY <1>2, <1>3

LEMMA ReturnIs ==
  ASSUME NEW xs \in Seq(Nat \ {0}), NEW back \in Nat, NEW skip \in Nat
  PROVE  /\ Strat!total_return(xs, back, skip) \in Fractions
         /\ back + skip + 1 <= Len(xs) => Strat!total_return(xs, back, skip) # Strat!NoRatio
<1>1. PICK k \in Nat : k = Len(xs) /\ \A i \in 1 .. k : xs[i] \in Nat \ {0}
  OBVIOUS
<1>2. PICK e \in Int, b \in Int : e = k - skip /\ b = e - back
  OBVIOUS
<1>3. Strat!total_return(xs, back, skip) = IF b < 1 \/ e < 1 THEN Strat!NoRatio ELSE [n |-> xs[e], d |-> xs[b]]
  BY <1>1, <1>2 DEF Strat!total_return, Strat!Frac
<1>4. CASE b < 1 \/ e < 1
  BY <1>1, <1>2, <1>3, <1>4 DEF Fractions
<1>5. CASE ~ (b < 1 \/ e < 1)
  <2>1. e \in 1 .. k /\ b \in 1 .. k
    BY <1>2, <1>5
  <2>2. [n |-> xs[e], d |-> xs[b]] \in [n : Nat, d : Nat \ {0}] /\ xs[b] # 0
    BY <1>1, <2>1
  <2> QED BY <1>3, <1>5, <2>2 DEF Fractions, Strat!NoRatio, Strat!Frac
<1> QED BY <1>4, <1>5

\* What lies below another value does not lie above or level with it.
LEMMA OneWay ==
  ASSUME NEW a \in Fractions, NEW b \in Fractions, Strat!Below(a, b)
  PROVE  ~ Strat!AtMost(b, a) /\ ~ Strat!Below(b, a)
<1>1. a # Strat!NoRatio /\ b # Strat!NoRatio /\ a.n * b.d < b.n * a.d
  BY DEF Strat!Below
<1>2. PICK i, j, k, l \in Nat : i = a.n /\ j = a.d /\ k = b.n /\ l = b.d
  BY <1>1 DEF Fractions
<1>3. PICK u, v \in Nat : u = i * l /\ v = k * j
  BY <1>2
<1>4. u < v
  BY <1>1, <1>2, <1>3
<1>5. ~ (v < u) /\ v # u
  BY <1>4
<1> QED BY <1>2, <1>3, <1>5 DEF Strat!AtMost, Strat!Below, Strat!Same

\* A share of a smaller count is no more than a share of a larger.
LEMMA Shares ==
  ASSUME NEW a \in Int, NEW b \in Int, a <= b, NEW n \in Nat
  PROVE  a * n \in Int /\ b * n \in Int /\ a * n <= b * n
<1>1. (b - a) * n >= 0
  OBVIOUS
<1> QED BY <1>1

LEMMA PriceIs ==
  ASSUME Walked, NEW s \in Strat!Symbols
  PROVE  /\ Strat!Close(s) \in Fractions
         /\ Strat!Last(Strat!Closes(s)) \in Nat \ {0}
         /\ Strat!Last(Strat!Closes(s)) = Strat!Bars(s)[day].close
         /\ Strat!Close(s) = [n |-> Strat!Last(Strat!Closes(s)), d |-> 1]
<1>1. PICK k \in Nat \ {0} : k = day
  BY BarsAre
<1>2. Strat!Closes(s) \in Seq(Nat \ {0}) /\ Len(Strat!Closes(s)) = k
  BY <1>1, ClosesAre
<1>3. Strat!Last(Strat!Closes(s)) = Strat!Closes(s)[k]
  BY <1>2 DEF Strat!Last
<1>4. Strat!Closes(s)[k] \in Nat \ {0} /\ Strat!Closes(s)[k] = Strat!Bars(s)[k].close
  BY <1>1, <1>2, ClosesAre
<1> QED BY <1>1, <1>3, <1>4 DEF Strat!Close, Strat!Px, Strat!Frac, Fractions

Bought == [side |-> "long", since |-> day]
Shorted == [side |-> "short", since |-> day]

\* What a strategy would do with what it just entered is not to leave it.
Keeps(flat, bought, shorted) ==
  /\ flat = "buy" => bought # "sell"
  /\ flat = "short" => shorted # "cover"

LEMMA Owned == Bought # Strat!Flat /\ Bought.side = "long" /\ Shorted # Strat!Flat /\ Shorted.side = "short"
BY DEF Bought, Shorted, Strat!Flat

LEMMA MaCrossoverKeeps ==
  ASSUME Walked, NEW s \in Strat!Symbols, NEW p, Strat!WellSet("ma_crossover", p)
  PROVE  Keeps(Strat!ma_crossover(s, Strat!Flat, p), Strat!ma_crossover(s, Bought, p),
               Strat!ma_crossover(s, Shorted, p))
<1>1. p.fast \in Nat /\ p.slow \in Nat
  BY DEF Strat!WellSet, Strat!Positive
<1>2. Strat!Closes(s) \in Seq(Nat)
  BY ClosesAre
<1>3. PICK f, l \in Fractions : f = Strat!sma(Strat!Closes(s), p.fast) /\ l = Strat!sma(Strat!Closes(s), p.slow)
  BY <1>1, <1>2, SmaIs
<1>4. Strat!Below(l, f) => ~ Strat!Below(f, l)
  BY OneWay
<1> QED BY <1>3, <1>4, Owned DEF Strat!ma_crossover, Keeps

LEMMA TsmomKeeps ==
  ASSUME Walked, NEW s \in Strat!Symbols, NEW p, Strat!WellSet("tsmom", p)
  PROVE  Keeps(Strat!tsmom(s, Strat!Flat, p), Strat!tsmom(s, Bought, p), Strat!tsmom(s, Shorted, p))
<1>1. p.momentum \in Nat /\ p.skip \in Nat /\ p.trend \in Nat
  BY DEF Strat!WellSet, Strat!Positive
<1>2. Strat!Closes(s) \in Seq(Nat) /\ Strat!Closes(s) \in Seq(Nat \ {0})
  BY ClosesAre
<1>3. PICK m, l, c, o \in Fractions :
        /\ m = Strat!total_return(Strat!Closes(s), p.momentum, p.skip)
        /\ l = Strat!sma(Strat!Closes(s), p.trend)
        /\ c = Strat!Close(s) /\ o = Strat!Px(1)
  <2>1. Strat!Px(1) \in Fractions
    BY DEF Strat!Px, Strat!Frac, Fractions
  <2>2. Strat!total_return(Strat!Closes(s), p.momentum, p.skip) \in Fractions
    BY <1>1, <1>2, ReturnIs
  <2>3. Strat!sma(Strat!Closes(s), p.trend) \in Fractions
    BY <1>1, <1>2, SmaIs
  <2> QED BY <2>1, <2>2, <2>3, PriceIs
<1>4. (Strat!Below(o, m) => ~ Strat!AtMost(m, o)) /\ (Strat!Below(l, c) => ~ Strat!Below(c, l))
  BY OneWay
<1> QED BY <1>3, <1>4, Owned DEF Strat!tsmom, Keeps

LEMMA TrendHoldKeeps ==
  ASSUME Walked, NEW s \in Strat!Symbols, NEW p, Strat!WellSet("trend_hold", p)
  PROVE  Keeps(Strat!trend_hold(s, Strat!Flat, p), Strat!trend_hold(s, Bought, p),
               Strat!trend_hold(s, Shorted, p))
<1>1. p.ma \in Nat
  BY DEF Strat!WellSet, Strat!Positive
<1>2. Strat!Closes(s) \in Seq(Nat)
  BY ClosesAre
<1>3. PICK l, c \in Fractions : l = Strat!sma(Strat!Closes(s), p.ma) /\ c = Strat!Close(s)
  BY <1>1, <1>2, SmaIs, PriceIs
<1>4. Strat!Below(l, c) => ~ Strat!Below(c, l)
  BY OneWay
<1> QED BY <1>3, <1>4, Owned DEF Strat!trend_hold, Keeps

\* A rank and the number of the ranked are numbers.
LEMMA RankIs ==
  ASSUME NEW value, NEW down, NEW s
  PROVE  /\ Strat!Cardinality(Strat!Ranked(value)) \in Nat
         /\ Strat!Rank(value, down, s) \in Nat
<1>1. Strat!Ranked(value) \in SUBSET Strat!Symbols
  BY DEF Strat!Ranked
<1> DEFINE R == {x \in Strat!Ranked(value) :
                  \/ IF down THEN Strat!Below(value[s], value[x]) ELSE Strat!Below(value[x], value[s])
                  \/ Strat!Same(value[s], value[x]) /\ Strat!Place(x) < Strat!Place(s)}
<1>2. R \in SUBSET Strat!Symbols
  BY <1>1
<1>3. Strat!Rank(value, down, s) = Strat!Cardinality(R)
  BY DEF Strat!Rank
<1> HIDE DEF R
<1> QED BY <1>1, <1>2, <1>3, Counted

\* Bands: the share to enter by lies inside the share to leave by.
LEMMA BandsKeep ==
  ASSUME NEW r \in Nat, NEW n \in Nat, NEW a \in Nat, NEW b \in Nat, a <= b
  PROVE  100 * r < a * n => ~ (100 * r >= b * n)
<1>1. PICK u, v \in Int : u = a * n /\ v = b * n /\ u <= v
  BY Shares
<1> QED BY <1>1

LEMMA XsmomKeeps ==
  ASSUME NEW s \in Strat!Symbols, NEW p, Strat!WellSet("xsmom", p)
  PROVE  Keeps(Strat!xsmom(s, Strat!Flat, p), Strat!xsmom(s, Bought, p), Strat!xsmom(s, Shorted, p))
<1>1. /\ p.top \in Nat /\ p.exit \in Nat /\ p.bottom \in Nat
      /\ p.top <= p.exit /\ p.exit <= 100 - p.bottom
  BY DEF Strat!WellSet
<1> DEFINE mom == [x \in Strat!Symbols |-> Strat!total_return(Strat!Closes(x), p.lookback, p.skip)]
<1>2. PICK n, r \in Nat : n = Strat!Cardinality(Strat!Ranked(mom)) /\ r = Strat!Rank(mom, TRUE, s)
  <2> HIDE DEF mom
  <2> QED BY RankIs
<1>3. 100 * r < p.top * n => ~ (100 * r >= p.exit * n)
  BY <1>1, BandsKeep
<1>4. 100 * r >= (100 - p.bottom) * n => ~ (100 * r < p.exit * n)
  <2>1. PICK u, v \in Int : u = p.exit * n /\ v = (100 - p.bottom) * n /\ u <= v
    BY <1>1, Shares
  <2> QED BY <2>1
<1>5. \A pos : Strat!xsmom(s, pos, p) =
        IF n < 4 \/ mom[s] = Strat!NoRatio THEN "hold" ELSE
        CASE pos.side = "short" /\ 100 * r < p.exit * n -> "cover"
          [] pos.side = "long" /\ 100 * r >= p.exit * n -> "sell"
          [] pos = Strat!Flat /\ 100 * r < p.top * n /\ Strat!Below(Strat!Px(1), mom[s]) -> "buy"
          [] pos = Strat!Flat /\ p.bottom > 0 /\ 100 * r >= (100 - p.bottom) * n
             /\ Strat!Below(mom[s], Strat!Px(1)) -> "short"
          [] OTHER -> "hold"
  BY <1>2 DEF Strat!xsmom
<1> HIDE DEF mom
<1>6. Strat!Flat.side = "none"
  BY DEF Strat!Flat
<1>7. Strat!xsmom(s, Strat!Flat, p) = "buy" => 100 * r < p.top * n /\ ~ (n < 4 \/ mom[s] = Strat!NoRatio)
  BY <1>5, <1>6
<1>8. Strat!xsmom(s, Strat!Flat, p) = "short" => 100 * r >= (100 - p.bottom) * n
  BY <1>5, <1>6
<1>9. Strat!xsmom(s, Bought, p) = "sell" => 100 * r >= p.exit * n
  BY <1>5, Owned
<1>10. Strat!xsmom(s, Shorted, p) = "cover" => 100 * r < p.exit * n
  BY <1>5, Owned
<1> QED BY <1>3, <1>4, <1>7, <1>8, <1>9, <1>10 DEF Keeps

LEMMA LowvolKeeps ==
  ASSUME NEW s \in Strat!Symbols, NEW p, Strat!WellSet("lowvol", p)
  PROVE  Keeps(Strat!lowvol(s, Strat!Flat, p), Strat!lowvol(s, Bought, p), Strat!lowvol(s, Shorted, p))
<1>1. p.bottom \in Nat /\ p.exit \in Nat /\ p.bottom <= p.exit
  BY DEF Strat!WellSet
<1> DEFINE vols == [x \in Strat!Symbols |->
                      IF day < p.period + 2 \/ Strat!Last(Strat!Bars(x)).vol = 0 THEN Strat!NoRatio
                      ELSE Strat!Px(Strat!Last(Strat!Bars(x)).vol)]
<1>2. PICK n, r \in Nat : n = Strat!Cardinality(Strat!Ranked(vols)) /\ r = Strat!Rank(vols, FALSE, s)
  <2> HIDE DEF vols
  <2> QED BY RankIs
<1>3. 100 * r < p.bottom * n => ~ (100 * r >= p.exit * n)
  BY <1>1, BandsKeep
<1>4. \A pos : Strat!lowvol(s, pos, p) =
        IF n < 4 \/ vols[s] = Strat!NoRatio THEN "hold" ELSE
        CASE pos = Strat!Flat /\ 100 * r < p.bottom * n -> "buy"
          [] pos # Strat!Flat /\ 100 * r >= p.exit * n -> "sell"
          [] OTHER -> "hold"
  BY <1>2 DEF Strat!lowvol
<1> HIDE DEF vols
<1>5. Strat!lowvol(s, Strat!Flat, p) = "buy" => 100 * r < p.bottom * n
  BY <1>4
<1>6. Strat!lowvol(s, Strat!Flat, p) # "short"
  BY <1>4
<1>7. Strat!lowvol(s, Bought, p) = "sell" => 100 * r >= p.exit * n
  BY <1>4, Owned
<1> QED BY <1>3, <1>5, <1>6, <1>7 DEF Keeps

LEMMA Hi52Keeps ==
  ASSUME NEW s \in Strat!Symbols, NEW p, Strat!WellSet("hi52", p)
  PROVE  Keeps(Strat!hi52(s, Strat!Flat, p), Strat!hi52(s, Bought, p), Strat!hi52(s, Shorted, p))
<1>1. p.top \in Nat /\ p.exit \in Nat /\ p.top <= p.exit
  BY DEF Strat!WellSet
<1> DEFINE prox == [x \in Strat!Symbols |-> Strat!proximity(x, p.high)]
<1>2. PICK n, r \in Nat : n = Strat!Cardinality(Strat!Ranked(prox)) /\ r = Strat!Rank(prox, TRUE, s)
  <2> HIDE DEF prox
  <2> QED BY RankIs
<1>3. 100 * r < p.top * n => ~ (100 * r >= p.exit * n)
  BY <1>1, BandsKeep
<1>4. \A pos : Strat!hi52(s, pos, p) =
        IF n < 4 \/ prox[s] = Strat!NoRatio THEN "hold" ELSE
        CASE pos # Strat!Flat /\ 100 * r >= p.exit * n -> "sell"
          [] pos = Strat!Flat /\ 100 * r < p.top * n
             /\ Strat!AtMost(Strat!Frac(p.floor, 100), prox[s]) -> "buy"
          [] OTHER -> "hold"
  BY <1>2 DEF Strat!hi52
<1> HIDE DEF prox
<1>5. Strat!hi52(s, Strat!Flat, p) = "buy" => 100 * r < p.top * n
  BY <1>4
<1>6. Strat!hi52(s, Strat!Flat, p) # "short"
  BY <1>4
<1>7. Strat!hi52(s, Bought, p) = "sell" => 100 * r >= p.exit * n
  BY <1>4, Owned
<1> QED BY <1>3, <1>5, <1>6, <1>7 DEF Keeps

LEMMA HighestIs ==
  ASSUME NEW bars \in Seq(DailyBar), Len(bars) # 0
  PROVE  /\ Strat!Highest(bars) \in Nat
         /\ \A i \in 1 .. Len(bars) : Strat!Highest(bars) >= bars[i].high
<1> DEFINE H == {bars[i].high : i \in DOMAIN bars}
<1>1. PICK k \in Nat \ {0} : k = Len(bars) /\ DOMAIN bars = 1 .. k
  OBVIOUS
<1>2. \A i \in 1 .. k : bars[i].high \in Nat
  <2>1. \A i \in 1 .. k : bars[i] \in DailyBar
    BY <1>1
  <2> QED BY <2>1 DEF DailyBar
<1>3. IsFiniteSet(H)
  <2> DEFINE f == [i \in 1 .. k |-> bars[i].high]
  <2>1. f \in Surjection(1 .. k, H)
    BY <1>1 DEF Surjection
  <2>2. IsFiniteSet(1 .. k)
    BY FS_Interval
  <2> HIDE DEF f, H
  <2> QED BY <2>1, <2>2, FS_Surjection
<1>4. H \subseteq Nat /\ bars[1].high \in H
  BY <1>1, <1>2
<1>5. Strat!Max(H) \in H /\ \A y \in H : Strat!Max(H) >= y
  <2> HIDE DEF H
  <2>1. H \subseteq Int /\ H # {}
    BY <1>4
  <2> QED BY <1>3, <2>1, MaxTop
<1>6. \A i \in 1 .. k : bars[i].high \in H
  BY <1>1
<1>7. Strat!Highest(bars) = Strat!Max(H)
  BY DEF Strat!Highest
<1> HIDE DEF H
<1> QED BY <1>1, <1>4, <1>5, <1>6, <1>7

LEMMA LowestIs ==
  ASSUME NEW bars \in Seq(DailyBar), Len(bars) # 0
  PROVE  /\ Strat!Lowest(bars) \in Nat
         /\ \A i \in 1 .. Len(bars) : Strat!Lowest(bars) <= bars[i].low
<1> DEFINE L == {bars[i].low : i \in DOMAIN bars}
<1>1. PICK k \in Nat \ {0} : k = Len(bars) /\ DOMAIN bars = 1 .. k
  OBVIOUS
<1>2. \A i \in 1 .. k : bars[i].low \in Nat
  <2>1. \A i \in 1 .. k : bars[i] \in DailyBar
    BY <1>1
  <2> QED BY <2>1 DEF DailyBar
<1>3. L \subseteq Nat /\ bars[1].low \in L
  BY <1>1, <1>2
<1>4. Strat!Min(L) \in L /\ \A y \in L : Strat!Min(L) <= y
  <2> HIDE DEF L
  <2> QED BY <1>3, MinBottom
<1>5. \A i \in 1 .. k : bars[i].low \in L
  BY <1>1
<1>6. Strat!Lowest(bars) = Strat!Min(L)
  BY DEF Strat!Lowest
<1> HIDE DEF L
<1> QED BY <1>1, <1>3, <1>4, <1>5, <1>6

\* A breakout closes above the high of the bar before, a breakdown below its
\* low: one bar is not both.
LEMMA DonchianKeeps ==
  ASSUME Walked, NEW s \in Strat!Symbols, NEW p, Strat!WellSet("donchian", p),
         Strat!required_lookback("donchian", p) <= day
  PROVE  Keeps(Strat!donchian(s, Strat!Flat, p), Strat!donchian(s, Bought, p),
               Strat!donchian(s, Shorted, p))
<1>1. p.entry \in Nat \ {0} /\ p.exit \in Nat \ {0} /\ p.trend \in Nat
  BY DEF Strat!WellSet, Strat!Positive
<1>2. PICK k \in Nat, b \in Seq(DailyBar) :
        k = day /\ b = Strat!Bars(s) /\ Len(b) = k /\ p.entry + 1 <= k /\ p.exit + 1 <= k
  <2>1. /\ Strat!Max({p.entry, p.exit, p.trend}) \in Int
        /\ Strat!Max({p.entry, p.exit, p.trend}) >= p.entry
        /\ Strat!Max({p.entry, p.exit, p.trend}) >= p.exit
    <3>1. p.entry \in Int /\ p.exit \in Int /\ p.trend \in Int
      BY <1>1
    <3> QED BY <3>1, MaxOfThree
  <2>2. Strat!Max({p.entry, p.exit, p.trend}) + 1 <= day /\ day \in Nat
    BY BarsAre DEF Strat!required_lookback
  <2> QED BY <1>1, <2>1, <2>2, BarsAre
<1>3. PICK q \in Seq(DailyBar) : q = Strat!Back(b, 1) /\ Len(q) = k - 1 /\ q[k - 1] = b[k - 1]
  <2>1. k - 1 \in 1 .. k - 1 /\ 1 <= Len(b)
    BY <1>1, <1>2
  <2>2. /\ Strat!Back(b, 1) \in Seq(DailyBar) /\ Len(Strat!Back(b, 1)) = Len(b) - 1
        /\ \A i \in 1 .. Len(b) - 1 : Strat!Back(b, 1)[i] = b[i]
    BY <2>1, BackIs
  <2> QED BY <1>2, <2>1, <2>2
<1>4. \A n \in Nat \ {0} : n <= k - 1 =>
        /\ Strat!LastOf(q, n) \in Seq(DailyBar) /\ Len(Strat!LastOf(q, n)) = n
        /\ Strat!LastOf(q, n)[n] = b[k - 1]
  <2> SUFFICES ASSUME NEW n \in Nat \ {0}, n <= k - 1
               PROVE  /\ Strat!LastOf(q, n) \in Seq(DailyBar) /\ Len(Strat!LastOf(q, n)) = n
                      /\ Strat!LastOf(q, n)[n] = b[k - 1]
    OBVIOUS
  <2>1. n <= Len(q) /\ n \in 1 .. n /\ Len(q) - n + n = k - 1
    BY <1>2, <1>3
  <2> QED BY <1>3, <2>1, LastOfIs
<1>5. PICK h, l \in Nat :
        /\ h = Strat!Highest(Strat!LastOf(q, p.entry)) /\ h >= b[k - 1].high
        /\ l = Strat!Lowest(Strat!LastOf(q, p.exit)) /\ l <= b[k - 1].low
  <2>1. p.entry <= k - 1 /\ p.exit <= k - 1
    BY <1>1, <1>2
  <2>2. \A n \in Nat \ {0} : n \in 1 .. n
    OBVIOUS
  <2>3. /\ Strat!Highest(Strat!LastOf(q, p.entry)) \in Nat
        /\ Strat!Highest(Strat!LastOf(q, p.entry)) >= b[k - 1].high
    BY <1>1, <1>4, <2>1, <2>2, HighestIs
  <2>4. /\ Strat!Lowest(Strat!LastOf(q, p.exit)) \in Nat
        /\ Strat!Lowest(Strat!LastOf(q, p.exit)) <= b[k - 1].low
    BY <1>1, <1>4, <2>1, <2>2, LowestIs
  <2> QED BY <2>3, <2>4
<1>6. PICK u, v \in Nat : u = b[k - 1].high /\ v = b[k - 1].low /\ v <= u
  <2>1. k - 1 \in 1 .. k
    BY <1>1, <1>2
  <2>2. /\ b[k - 1] \in DailyBar /\ b[k - 1].low <= b[k - 1].close
        /\ b[k - 1].close <= b[k - 1].high
    BY <1>2, <2>1, BarsAre
  <2>3. PICK x, y, z \in Nat : x = b[k - 1].low /\ y = b[k - 1].close /\ z = b[k - 1].high /\ x <= y /\ y <= z
    BY <2>2 DEF DailyBar
  <2>4. x <= z
    BY <2>3
  <2> QED BY <2>3, <2>4
<1>7. PICK c \in Nat : c = Strat!Last(Strat!Closes(s))
  BY PriceIs
<1>8. c > h => ~ (c < l)
  BY <1>5, <1>6
<1>9. Strat!donchian(s, Strat!Flat, p) = "buy" => c > h
  BY <1>2, <1>3, <1>5, <1>7 DEF Strat!donchian
<1>10. Strat!donchian(s, Bought, p) = "sell" => c < l
  BY <1>2, <1>3, <1>5, <1>7, Owned DEF Strat!donchian
<1>11. Strat!donchian(s, Strat!Flat, p) # "short"
  BY DEF Strat!donchian
<1> QED BY <1>8, <1>9, <1>10, <1>11 DEF Keeps

LEMMA GemKeeps ==
  ASSUME NEW s, NEW p
  PROVE  Keeps(Strat!gem(s, Strat!Flat, p), Strat!gem(s, Bought, p), Strat!gem(s, Shorted, p))
BY Owned DEF Strat!gem, Keeps

\* A position entered today has not been held too long.
LEMMA NotTooLong ==
  ASSUME day \in Nat, NEW limit \in Nat, limit > 0
  PROVE  ~ Strat!TooLong(Bought, limit)
BY DEF Strat!TooLong, Bought

\* How near its high a symbol stands.
LEMMA ProximityIs ==
  ASSUME Walked, NEW s \in Strat!Symbols, NEW h \in Nat \ {0}, h <= day
  PROVE  /\ Strat!proximity(s, h) \in [n : Nat, d : Nat \ {0}]
         /\ Strat!proximity(s, h) # Strat!NoRatio
<1>1. PICK k \in Nat, b \in Seq(DailyBar) : k = day /\ h <= k /\ b = Strat!Bars(s) /\ Len(b) = k
  BY BarsAre
<1>2. /\ Strat!LastOf(b, h) \in Seq(DailyBar) /\ Len(Strat!LastOf(b, h)) = h
      /\ Strat!LastOf(b, h)[h] = b[k]
  <2>1. h \in 1 .. h /\ k - h + h = k
    BY <1>1
  <2> QED BY <1>1, <2>1, LastOfIs
<1>3. PICK t1 \in Nat : t1 = Strat!Highest(Strat!LastOf(b, h)) /\ t1 >= b[k].high
  <2>1. h \in 1 .. h /\ h # 0
    OBVIOUS
  <2> QED BY <1>2, <2>1, HighestIs
<1>4. b[k] \in DailyBar /\ b[k].close <= b[k].high
  <2>1. k \in 1 .. k
    BY <1>1
  <2> QED BY <1>1, <2>1, BarsAre
<1>5. PICK c, u \in Nat : c = b[k].close /\ u = b[k].high /\ c # 0 /\ c <= u
  BY <1>4 DEF DailyBar
<1>6. t1 # 0
  BY <1>3, <1>5
<1>7. Strat!proximity(s, h) = [n |-> Strat!Last(Strat!Closes(s)), d |-> t1]
  BY <1>1, <1>3 DEF Strat!proximity, Strat!Frac
<1> QED BY <1>6, <1>7, PriceIs DEF Strat!NoRatio, Strat!Frac

\* What is at least as deep as the drawdown to enter by has not recovered.
LEMMA DeepIsNotRecovered ==
  ASSUME NEW x \in Fractions, NEW m \in 0 .. 100, NEW r \in 0 .. 100, r < m,
         Strat!AtMost(x, Strat!Frac(100 - m, 100))
  PROVE  ~ Strat!AtMost(Strat!Frac(100 - r, 100), x)
<1> DEFINE a == Strat!Frac(100 - m, 100)
           b == Strat!Frac(100 - r, 100)
<1>1. /\ a = [n |-> 100 - m, d |-> 100] /\ b = [n |-> 100 - r, d |-> 100]
      /\ a # Strat!NoRatio /\ b # Strat!NoRatio
  BY DEF Strat!Frac, Strat!NoRatio
<1> HIDE DEF a, b
<1>2. x # Strat!NoRatio
  BY <1>1 DEF Strat!AtMost, Strat!Below, Strat!Same, a
<1>3. PICK i \in Nat, j \in Nat \ {0} : i = x.n /\ j = x.d
  BY <1>2 DEF Fractions
<1>4. i * 100 <= (100 - m) * j
  <2>1. x.n * a.d <= a.n * x.d
    <3>1. PICK u, v \in Int : u = x.n * a.d /\ v = a.n * x.d
      BY <1>1, <1>3
    <3>2. u < v \/ u = v
      BY <3>1 DEF Strat!AtMost, Strat!Below, Strat!Same, a
    <3> QED BY <3>1, <3>2
  <2> QED BY <1>1, <1>3, <2>1
<1>5. (100 - m) * j < (100 - r) * j
  <2>1. (m - r) * j > 0
    BY <1>3
  <2> QED BY <1>3, <2>1
<1>6. ~ ((100 - r) * j <= i * 100)
  BY <1>3, <1>4, <1>5
<1>7. SUFFICES ASSUME Strat!AtMost(b, x) PROVE FALSE
  BY DEF b
<1>8. b.n * x.d <= x.n * b.d
  <2>1. PICK u, v \in Int : u = b.n * x.d /\ v = x.n * b.d
    BY <1>1, <1>3
  <2>2. u < v \/ u = v
    BY <1>7, <2>1 DEF Strat!AtMost, Strat!Below, Strat!Same
  <2> QED BY <2>1, <2>2
<1> QED BY <1>1, <1>3, <1>6, <1>8

\* What closes above an average does not close below a part of it.
LEMMA AboveIsNotBelow ==
  ASSUME NEW m \in Fractions, NEW c \in Nat, NEW q \in 0 .. 100,
         Strat!Below(m, [n |-> c, d |-> 1])
  PROVE  ~ Strat!Below([n |-> c, d |-> 1], Strat!Times(m, q))
<1>1. m # Strat!NoRatio
  BY DEF Strat!Below
<1>2. PICK i \in Nat, j \in Nat \ {0} : i = m.n /\ j = m.d
  BY <1>1 DEF Fractions
<1>3. i < c * j
  BY <1>1, <1>2 DEF Strat!Below
<1>4. Strat!Times(m, q) = [n |-> i * q, d |-> j * 100]
  BY <1>1, <1>2 DEF Strat!Times, Strat!Frac
<1>5. PICK k \in Nat : k = c * j
  BY <1>2
<1>6. i * q <= i * 100
  <2>1. i * (100 - q) >= 0
    BY <1>2
  <2> QED BY <1>2, <2>1
<1>7. c * (j * 100) = k * 100
  BY <1>2, <1>5
<1>8. ~ (c * (j * 100) < i * q)
  BY <1>2, <1>3, <1>5, <1>6, <1>7
<1> QED BY <1>2, <1>4, <1>8 DEF Strat!Below

LEMMA SwingSectorsKeeps ==
  ASSUME Walked, NEW s \in Strat!Symbols, NEW p, Strat!WellSet("swing_sectors", p),
         Strat!required_lookback("swing_sectors", p) <= day
  PROVE  Keeps(Strat!swing_sectors(s, Strat!Flat, p), Strat!swing_sectors(s, Bought, p),
               Strat!swing_sectors(s, Shorted, p))
<1>1. /\ p.high \in Nat \ {0} /\ p.sma \in Nat \ {0} /\ p.min_drawdown \in 0 .. 100
      /\ p.recovered \in 0 .. 100 /\ p.buffer \in 0 .. 100 /\ p.max_hold \in Nat /\ p.max_hold > 0
      /\ p.recovered < p.min_drawdown
  BY DEF Strat!WellSet, Strat!Positive
<1>2. day \in Nat /\ p.high <= day
  BY <1>1, BarsAre DEF Strat!required_lookback
<1>3. PICK x \in Fractions, c \in Nat, m \in Fractions :
        /\ x = Strat!proximity(s, p.high) /\ Strat!Close(s) = [n |-> c, d |-> 1]
        /\ m = Strat!sma(Strat!Closes(s), p.sma)
  <2>1. Strat!proximity(s, p.high) \in Fractions
    BY <1>1, <1>2, ProximityIs DEF Fractions
  <2>2. Strat!Closes(s) \in Seq(Nat)
    BY ClosesAre
  <2>3. Strat!sma(Strat!Closes(s), p.sma) \in Fractions
    BY <1>1, <2>2, SmaIs
  <2> QED BY <2>1, <2>3, PriceIs
<1>4. SUFFICES ASSUME Strat!swing_sectors(s, Strat!Flat, p) = "buy", Strat!swing_sectors(s, Bought, p) = "sell"
               PROVE  FALSE
  <2>1. Strat!swing_sectors(s, Strat!Flat, p) # "short"
    BY DEF Strat!swing_sectors
  <2> QED BY <2>1 DEF Keeps
<1>5. Strat!assess(s, p) # Strat!NoRatio
  BY <1>4 DEF Strat!swing_sectors, Strat!InZone
<1>6. s \in Strat!laggards(p) /\ Strat!Below(m, Strat!Close(s))
  BY <1>3, <1>5 DEF Strat!assess
<1>7. Strat!AtMost(x, Strat!Frac(100 - p.min_drawdown, 100))
  BY <1>3, <1>6 DEF Strat!laggards, Strat!Deep
<1>8. ~ Strat!AtMost(Strat!Frac(100 - p.recovered, 100), x)
  BY <1>1, <1>7, DeepIsNotRecovered
<1>9. ~ Strat!Below(Strat!Close(s), Strat!Times(m, 100 - p.buffer))
  <2>1. 100 - p.buffer \in 0 .. 100
    BY <1>1
  <2> QED BY <1>3, <1>6, <2>1, AboveIsNotBelow
<1>10. ~ Strat!TooLong(Bought, p.max_hold)
  BY <1>1, <1>2, NotTooLong
<1> QED BY <1>3, <1>4, <1>8, <1>9, <1>10, Owned DEF Strat!swing_sectors

\* Above yesterday's average by so much is not below today's by the buffer:
\* the new close alone cannot pull the average that far up.
LEMMA ReclaimArithmetic ==
  ASSUME NEW p \in Nat \ {0}, NEW q \in 0 .. 100, q * (p + 1) <= 100 * p,
         NEW c \in Nat, NEW old \in Nat, NEW sum \in Nat, NEW new \in Nat,
         sum < c * p, new + old = sum + c
  PROVE  ~ (c * (p * 100) < new * q)
<1>1. PICK u \in Nat : u = c * p
  OBVIOUS
<1>2. new <= u + c
  BY <1>1
<1>3. new * q <= (u + c) * q
  <2>1. ((u + c) - new) * q >= 0
    BY <1>1, <1>2
  <2> QED BY <1>1, <2>1
<1>4. (u + c) * q = c * (q * (p + 1))
  BY <1>1
<1>5. c * (q * (p + 1)) <= c * (100 * p)
  <2>1. c * (100 * p - q * (p + 1)) >= 0
    OBVIOUS
  <2> QED BY <2>1
<1>6. c * (p * 100) = c * (100 * p)
  OBVIOUS
<1> QED BY <1>3, <1>4, <1>5, <1>6

LEMMA RestOf ==
  ASSUME NEW f \in 0 .. 100
  PROVE  100 - f \in 0 .. 100
OBVIOUS

LEMMA Windows ==
  ASSUME NEW k \in Nat, NEW w \in Nat \ {0}, w + 1 <= k
  PROVE  \E a, z \in Nat \ {0} :
           /\ a = k - w /\ z = k - 1 /\ a <= z /\ z < k /\ a < k /\ w <= z /\ w <= k
           /\ z - w + 1 = a /\ k - w + 1 = a + 1
<1>1. /\ k - w \in Nat \ {0} /\ k - 1 \in Nat \ {0} /\ k - w <= k - 1 /\ k - 1 < k /\ k - w < k
      /\ w <= k - 1 /\ w <= k /\ (k - 1) - w + 1 = k - w /\ k - w + 1 = (k - w) + 1
  OBVIOUS
<1> QED BY <1>1

LEMMA ReclaimKeeps ==
  ASSUME Walked, NEW s \in Strat!Symbols, NEW p, Strat!WellSet("reclaim", p),
         Strat!required_lookback("reclaim", p) <= day
  PROVE  Keeps(Strat!reclaim(s, Strat!Flat, p), Strat!reclaim(s, Bought, p),
               Strat!reclaim(s, Shorted, p))
<1>1. /\ p.trend \in Nat \ {0} /\ p.below \in Nat /\ p.base \in Nat /\ p.slope \in Nat
      /\ p.buffer \in 0 .. 100 /\ p.max_hold \in Nat
      /\ (100 - p.buffer) * (p.trend + 1) <= 100 * p.trend
  BY DEF Strat!WellSet, Strat!Positive
<1>2. PICK k \in Nat, xs \in Seq(Nat), w \in Nat \ {0} :
        /\ k = day /\ xs = Strat!Closes(s) /\ Len(xs) = k /\ w = p.trend /\ w + 1 <= k
  <2>1. PICK a, b \in Int : a = p.trend + p.below /\ b = p.base + p.slope
    BY <1>1
  <2>2. Strat!Max({a, b}) \in Int /\ Strat!Max({a, b}) >= a
    BY MaxOfTwo
  <2>3. Strat!Max({a, b}) + 1 <= day /\ day \in Nat
    BY <2>1, BarsAre DEF Strat!required_lookback
  <2>4. p.trend + 1 <= day
    BY <1>1, <2>1, <2>2, <2>3
  <2>5. Strat!Closes(s) \in Seq(Nat) /\ Len(Strat!Closes(s)) = day
    BY ClosesAre
  <2> QED BY <1>1, <2>3, <2>4, <2>5
<1>3. PICK ys \in Seq(Nat) : ys = Strat!Back(xs, 1) /\ Len(ys) = k - 1 /\ \A i \in 1 .. k - 1 : ys[i] = xs[i]
  <2>1. 1 <= Len(xs)
    BY <1>2
  <2>2. /\ Strat!Back(xs, 1) \in Seq(Nat) /\ Len(Strat!Back(xs, 1)) = Len(xs) - 1
        /\ \A i \in 1 .. Len(xs) - 1 : Strat!Back(xs, 1)[i] = xs[i]
    BY <2>1, BackIs
  <2> QED BY <1>2, <2>2
<1>4. PICK c \in Nat : c = xs[k] /\ Strat!Close(s) = [n |-> c, d |-> 1]
  <2>1. Strat!Last(xs) = xs[k]
    BY <1>2 DEF Strat!Last
  <2> QED BY <1>2, <2>1, PriceIs
<1>18. PICK a \in Nat \ {0}, z \in Nat \ {0} :
         /\ a = k - w /\ z = k - 1 /\ a <= z /\ z < k /\ a < k /\ w <= z /\ w <= k
         /\ z - w + 1 = a /\ k - w + 1 = a + 1
  BY <1>2, Windows
<1> DEFINE S0 == a .. z
           S1 == a + 1 .. k
<1>5. (\A i \in 1 .. k : xs[i] \in Nat) /\ IsFiniteSet(S0) /\ IsFiniteSet(S1)
  <2>1. \A i \in 1 .. k : xs[i] \in Nat
    BY <1>2
  <2>2. a + 1 \in Int
    OBVIOUS
  <2>3. IsFiniteSet(a .. z)
    BY FS_Interval
  <2>4. IsFiniteSet(a + 1 .. k)
    BY <2>2, FS_Interval
  <2> QED BY <2>1, <2>3, <2>4
<1>6. PICK t0 \in Fractions, sum \in Nat :
        t0 = Strat!sma(ys, w) /\ t0 = [n |-> sum, d |-> w] /\ sum = SumOf(xs, S0)
  <2>1. w # 0 /\ w <= Len(ys) /\ Len(ys) - w + 1 = a /\ Len(ys) = z
    <3>1. Len(ys) = z
      BY <1>3, <1>18
    <3> QED BY <1>18, <3>1
  <2>2. /\ Strat!sma(ys, w) \in Fractions
        /\ Strat!sma(ys, w) = [n |-> SumOf(ys, Len(ys) - w + 1 .. Len(ys)), d |-> w]
        /\ SumOf(ys, Len(ys) - w + 1 .. Len(ys)) \in Nat
    BY <2>1, SmaIs
  <2>3. SumOf(ys, S0) = SumOf(xs, S0)
    <3>1. \A i \in S0 : ys[i] = xs[i]
      <4>1. \A i \in S0 : i \in 1 .. z
        BY <1>18
      <4> QED BY <1>3, <1>18, <4>1
    <3>2. \A i \in S0 : ys[i] = xs[i]
      BY <3>1
    <3> HIDE DEF S0
    <3> QED BY <1>5, <3>2, SumSame
  <2> QED BY <2>1, <2>2, <2>3
<1>7. PICK t1 \in Fractions, new \in Nat :
        t1 = Strat!sma(xs, w) /\ t1 = [n |-> new, d |-> w] /\ new = SumOf(xs, S1)
  <2>1. w # 0 /\ w <= Len(xs) /\ Len(xs) - w + 1 = a + 1 /\ Len(xs) = k
    BY <1>2, <1>18
  <2>2. /\ Strat!sma(xs, w) \in Fractions
        /\ Strat!sma(xs, w) = [n |-> SumOf(xs, Len(xs) - w + 1 .. Len(xs)), d |-> w]
        /\ SumOf(xs, Len(xs) - w + 1 .. Len(xs)) \in Nat
    BY <2>1, SmaIs
  <2> QED BY <2>1, <2>2
<1>8. PICK old \in Nat : new + old = sum + c
  <2>1. a \in S0 /\ k \in S1 /\ S0 \ {a} = S1 \ {k}
    <3>1. \A i \in Int : (i \in S0 /\ i # a) <=> (i \in S1 /\ i # k)
      BY <1>18
    <3>2. a \in S0 /\ k \in S1 /\ S0 \subseteq Int /\ S1 \subseteq Int
      BY <1>18
    <3> HIDE DEF S0, S1
    <3> QED BY <3>1, <3>2
  <2>2. (\A i \in S0 : xs[i] \in Int) /\ (\A i \in S1 : xs[i] \in Int)
    <3>1. (\A i \in S0 : i \in 1 .. k) /\ (\A i \in S1 : i \in 1 .. k)
      BY <1>18
    <3> HIDE DEF S0, S1
    <3> QED BY <1>5, <3>1
  <2> HIDE DEF S0, S1
  <2>3. PICK r \in Int : r = SumOf(xs, S0 \ {a})
    <3>1. IsFiniteSet(S0 \ {a})
      BY <1>5, FS_Subset
    <3>2. \A i \in S0 \ {a} : xs[i] \in Int
      BY <2>2
    <3>3. SumOf(xs, S0 \ {a}) \in Int
      BY <3>1, <3>2, SumInt
    <3> QED BY <3>3
  <2>4. SumOf(xs, S0) = xs[a] + SumOf(xs, S0 \ {a})
    <3>1. IsFiniteSet(S0) /\ (\A i \in S0 : xs[i] \in Int) /\ a \in S0
      BY <1>5, <2>1, <2>2
    <3>2. Splits(xs, S0, a)
      BY <3>1, SumRemove
    <3> QED BY <3>2 DEF Splits
  <2>5. SumOf(xs, S1) = xs[k] + SumOf(xs, S1 \ {k})
    <3>1. IsFiniteSet(S1) /\ (\A i \in S1 : xs[i] \in Int) /\ k \in S1
      BY <1>5, <2>1, <2>2
    <3>2. Splits(xs, S1, k)
      BY <3>1, SumRemove
    <3> QED BY <3>2 DEF Splits
  <2>6. PICK o \in Nat : o = xs[a]
    BY <1>5, <1>18
  <2>7. sum = o + r /\ new = c + r
    BY <1>4, <1>6, <1>7, <2>1, <2>3, <2>4, <2>5, <2>6
  <2>8. new + o = sum + c
    BY <2>3, <2>6, <2>7
  <2> QED BY <2>8
<1> HIDE DEF S0, S1
<1>9. SUFFICES ASSUME Strat!reclaim(s, Strat!Flat, p) = "buy", Strat!reclaim(s, Bought, p) = "sell"
               PROVE  FALSE
  <2>1. Strat!reclaim(s, Strat!Flat, p) # "short"
    BY DEF Strat!reclaim
  <2> QED BY <2>1 DEF Keeps
<1>10. Strat!Below(t0, Strat!Close(s))
  BY <1>2, <1>3, <1>6, <1>9 DEF Strat!reclaim
<1>11. sum < c * w
  BY <1>4, <1>6, <1>10 DEF Strat!Below
<1>12. Strat!Below(Strat!Close(s), Strat!Times(t1, 100 - p.buffer))
  <2>1. ~ (p.max_hold > 0 /\ Strat!TooLong(Bought, p.max_hold))
    BY <1>1, <1>2, NotTooLong
  <2> QED BY <1>2, <1>7, <1>9, <2>1, Owned DEF Strat!reclaim
<1>13. PICK q \in 0 .. 100 : q = 100 - p.buffer /\ q * (w + 1) <= 100 * w
  <2>1. p.buffer \in 0 .. 100
    BY <1>1
  <2>2. 100 - p.buffer \in 0 .. 100
    BY <2>1, RestOf
  <2> QED BY <1>1, <1>2, <2>2
<1>14. t1 # Strat!NoRatio
  BY <1>2, <1>7 DEF Strat!NoRatio, Strat!Frac
<1>15. Strat!Times(t1, q) = [n |-> new * q, d |-> w * 100]
  BY <1>7, <1>14 DEF Strat!Times, Strat!Frac
<1>16. c * (w * 100) < new * q
  BY <1>4, <1>12, <1>13, <1>15 DEF Strat!Below
<1>17. ~ (c * (w * 100) < new * q)
  BY <1>8, <1>11, <1>13, ReclaimArithmetic
<1> QED BY <1>16, <1>17

Whole(xs) == \A i \in DOMAIN xs : xs[i] \in [n : Nat, d : {1}]

LEMMA WholeOrder ==
  ASSUME NEW a \in [n : Nat, d : {1}], NEW b \in [n : Nat, d : {1}]
  PROVE  (Strat!Below(a, b) <=> a.n < b.n) /\ (Strat!AtMost(a, b) <=> a.n <= b.n)
<1>1. PICK i \in Nat, j \in Nat : i = a.n /\ j = b.n /\ a.d = 1 /\ b.d = 1
  OBVIOUS
<1>2. a # Strat!NoRatio /\ b # Strat!NoRatio
  BY DEF Strat!NoRatio, Strat!Frac
<1>3. (Strat!Below(a, b) <=> i < j) /\ (Strat!Same(a, b) <=> i = j)
  BY <1>1, <1>2 DEF Strat!Below, Strat!Same
<1> QED BY <1>1, <1>3 DEF Strat!AtMost

LEMMA NthIs ==
  ASSUME NEW xs, IsFiniteSet(DOMAIN xs), Whole(xs), NEW k \in Nat \ {0}, k <= Cardinality(DOMAIN xs)
  PROVE  Strat!Nth(xs, k) \in [n : Nat, d : {1}]
<1> DEFINE UpTo(m) == {j \in DOMAIN xs : xs[j].n <= m}
           N == {m \in Nat : k <= Cardinality(UpTo(m))}
<1>1. \A T \in SUBSET (DOMAIN xs) : IsFiniteSet(T) /\ Cardinality(T) \in Nat
  BY FS_Subset, FS_CardinalityType
<1>2. \A i \in DOMAIN xs : xs[i].n \in Nat
  BY DEF Whole
<1>3. N # {}
  <2> DEFINE V == {xs[i].n : i \in DOMAIN xs}
  <2>1. IsFiniteSet(V)
    <3> DEFINE f == [i \in DOMAIN xs |-> xs[i].n]
    <3>1. f \in Surjection(DOMAIN xs, V)
      BY DEF Surjection
    <3> HIDE DEF f, V
    <3> QED BY <3>1, FS_Surjection
  <2>2. DOMAIN xs # {}
    <3>1. SUFFICES ASSUME DOMAIN xs = {} PROVE FALSE
      OBVIOUS
    <3>2. Cardinality({}) = 0
      BY FS_EmptySet
    <3> QED BY <3>1, <3>2
  <2>3. PICK i0 : i0 \in DOMAIN xs
    BY <2>2
  <2>4. xs[i0].n \in V /\ V \subseteq Nat
    BY <1>2, <2>3
  <2>5. PICK m \in V : \A y \in V : m >= y
    <3>1. V # {} /\ V \subseteq Int
      BY <2>4
    <3> HIDE DEF V
    <3> QED BY <2>1, <3>1, MaxExists
  <2>6. UpTo(m) = DOMAIN xs
    <3>1. \A i \in DOMAIN xs : xs[i].n \in V
      OBVIOUS
    <3> HIDE DEF V
    <3>2. \A i \in DOMAIN xs : xs[i].n <= m
      BY <2>4, <2>5, <3>1
    <3> QED BY <3>2
  <2>7. m \in N
    BY <2>4, <2>5, <2>6
  <2> QED BY <2>7
<1>4. PICK m \in N : \A y \in N : m <= y
  <2>1. N \in SUBSET Nat
    OBVIOUS
  <2> HIDE DEF N
  <2> QED BY <1>3, <2>1, LeastOf
<1> DEFINE Under == {j \in DOMAIN xs : xs[j].n < m}
<1>5. Cardinality(Under) \in Nat /\ Cardinality(UpTo(m)) \in Nat
  BY <1>1
<1>6. Cardinality(Under) < k
  <2>1. CASE m = 0
    <3>1. Under = {}
      BY <1>2, <2>1
    <3> QED BY <3>1, FS_EmptySet
  <2>2. CASE m # 0
    <3>1. m - 1 \in Nat /\ ~ (m <= m - 1)
      BY <2>2
    <3>2. m - 1 \notin N
      BY <1>4, <3>1
    <3>3. UpTo(m - 1) = Under
      BY <1>2, <2>2
    <3>4. ~ (k <= Cardinality(Under))
      BY <3>1, <3>2, <3>3
    <3> HIDE DEF Under, UpTo
    <3> QED BY <1>5, <3>4
  <2> QED BY <2>1, <2>2
<1>7. PICK i \in DOMAIN xs : xs[i].n = m
  <2>1. SUFFICES ASSUME \A i \in DOMAIN xs : xs[i].n # m PROVE FALSE
    OBVIOUS
  <2>2. UpTo(m) = Under
    BY <1>2, <2>1
  <2>3. k <= Cardinality(UpTo(m))
    BY <1>4
  <2> HIDE DEF Under, UpTo
  <2> QED BY <1>5, <1>6, <2>2, <2>3
<1>8. /\ {j \in DOMAIN xs : Strat!Below(xs[j], xs[i])} = Under
      /\ {j \in DOMAIN xs : Strat!AtMost(xs[j], xs[i])} = UpTo(m)
  <2>1. \A j \in DOMAIN xs : /\ Strat!Below(xs[j], xs[i]) <=> xs[j].n < m
                             /\ Strat!AtMost(xs[j], xs[i]) <=> xs[j].n <= m
    BY <1>7, WholeOrder DEF Whole
  <2> QED BY <2>1
<1>9. \E j \in DOMAIN xs :
        /\ Strat!Cardinality({e \in DOMAIN xs : Strat!Below(xs[e], xs[j])}) < k
        /\ Strat!Cardinality({e \in DOMAIN xs : Strat!AtMost(xs[e], xs[j])}) >= k
  <2>1. k <= Cardinality(UpTo(m))
    BY <1>4
  <2> HIDE DEF Under, UpTo
  <2>2. Strat!Cardinality(Under) < k /\ Strat!Cardinality(UpTo(m)) >= k
    BY <1>5, <1>6, <2>1, SameCard
  <2> QED BY <1>8, <2>2
<1>10. \E j \in DOMAIN xs : Strat!Nth(xs, k) = xs[j]
  BY <1>9 DEF Strat!Nth
<1> QED BY <1>10 DEF Whole

LEMMA MedianIs ==
  ASSUME NEW xs, IsFiniteSet(DOMAIN xs), Whole(xs), DOMAIN xs # {}
  PROVE  Strat!Median(xs) \in [n : Nat, d : Nat \ {0}]
<1>1. PICK n \in Nat : n = Cardinality(DOMAIN xs) /\ n = Strat!Cardinality(DOMAIN xs) /\ n # 0
  BY SameCard, FS_CardinalityType, FS_EmptySet
<1>2. CASE n % 2 = 1
  <2>1. n \div 2 + 1 \in Nat \ {0} /\ n \div 2 + 1 <= n
    BY <1>1, <1>2
  <2>2. Strat!Nth(xs, n \div 2 + 1) \in [n : Nat, d : {1}]
    BY <1>1, <2>1, NthIs
  <2>3. Strat!Median(xs) = Strat!Nth(xs, n \div 2 + 1)
    BY <1>1, <1>2 DEF Strat!Median
  <2> QED BY <2>2, <2>3
<1>3. CASE n % 2 # 1
  <2>1. n \div 2 \in Nat \ {0} /\ n \div 2 <= n /\ n \div 2 + 1 \in Nat \ {0} /\ n \div 2 + 1 <= n
    BY <1>1, <1>3
  <2>2. PICK a, b \in [n : Nat, d : {1}] : a = Strat!Nth(xs, n \div 2) /\ b = Strat!Nth(xs, n \div 2 + 1)
    BY <1>1, <2>1, NthIs
  <2>3. Strat!Median(xs) = [n |-> a.n * b.d + b.n * a.d, d |-> 2 * a.d * b.d]
    BY <1>1, <1>3, <2>2 DEF Strat!Median, Strat!Frac
  <2>4. a.n * b.d + b.n * a.d \in Nat /\ 2 * a.d * b.d \in Nat \ {0}
    <3>1. PICK i, j \in Nat : i = a.n /\ j = b.n /\ a.d = 1 /\ b.d = 1
      OBVIOUS
    <3>2. i * 1 + j * 1 \in Nat /\ 2 * 1 * 1 \in Nat \ {0}
      OBVIOUS
    <3> QED BY <3>1, <3>2
  <2> QED BY <2>3, <2>4
<1> QED BY <1>2, <1>3

\* What lies under a share of a value does not lie over a larger share of it.
LEMMA SharesKeep ==
  ASSUME NEW x \in [n : Nat, d : Nat \ {0}], NEW m \in [n : Nat, d : Nat \ {0}],
         NEW a \in Nat, NEW b \in Nat, a <= b, Strat!Below(x, Strat!Times(m, a))
  PROVE  ~ Strat!Below(Strat!Times(m, b), x)
<1>1. m # Strat!NoRatio
  BY DEF Strat!NoRatio, Strat!Frac
<1>2. PICK i, k \in Nat, j, l \in Nat \ {0} : i = x.n /\ j = x.d /\ k = m.n /\ l = m.d
  OBVIOUS
<1>3. /\ Strat!Times(m, a) = [n |-> k * a, d |-> l * 100]
      /\ Strat!Times(m, b) = [n |-> k * b, d |-> l * 100]
  BY <1>1, <1>2 DEF Strat!Times, Strat!Frac
<1>4. i * (l * 100) < (k * a) * j
  BY <1>2, <1>3 DEF Strat!Below
<1>5. (k * a) * j <= (k * b) * j
  <2>1. PICK y \in Nat : y = k * j
    BY <1>2
  <2>2. a * y <= b * y
    BY <2>1, Shares
  <2>3. (k * a) * j = a * y /\ (k * b) * j = b * y
    BY <1>2, <2>1
  <2> QED BY <2>2, <2>3
<1>6. ~ ((k * b) * j < i * (l * 100))
  <2>1. PICK u, v, w \in Int : u = i * (l * 100) /\ v = (k * a) * j /\ w = (k * b) * j
    BY <1>2
  <2> QED BY <1>4, <1>5, <2>1
<1> QED BY <1>2, <1>3, <1>6 DEF Strat!Below

LEMMA VolLeverKeeps ==
  ASSUME Walked, NEW s \in Strat!Symbols, NEW p, Strat!WellSet("vol_lever", p)
  PROVE  Keeps(Strat!vol_lever(s, Strat!Flat, p), Strat!vol_lever(s, Bought, p),
               Strat!vol_lever(s, Shorted, p))
<1>1. p.readings \in Nat \ {0} /\ p.enter \in Nat /\ p.exit \in Nat /\ p.enter <= p.exit
  BY DEF Strat!WellSet, Strat!Positive
<1>2. SUFFICES ASSUME Strat!vol_lever(s, Strat!Flat, p) = "buy", Strat!vol_lever(s, Bought, p) = "sell"
               PROVE  FALSE
  <2>1. Strat!vol_lever(s, Strat!Flat, p) # "short"
    BY DEF Strat!vol_lever
  <2> QED BY <2>1 DEF Keeps
<1> DEFINE D == Strat!month_starts(p)
           xs == Strat!month_start_vols(s, p)
<1>3. PICK k \in Nat : k = day
  BY BarsAre
<1>4. D \subseteq 2 .. k /\ IsFiniteSet(D)
  <2>1. D \subseteq 2 .. k
    BY <1>3 DEF Strat!month_starts
  <2>2. IsFiniteSet(2 .. k)
    BY FS_Interval
  <2> HIDE DEF D
  <2> QED BY <2>1, <2>2, FS_Subset
<1>5. D # {}
  <2>1. Strat!Cardinality(D) = Cardinality(D)
    BY SameCard
  <2>2. ~ (Strat!Cardinality(D) < p.readings)
    BY <1>2 DEF Strat!vol_lever
  <2>3. Cardinality({}) = 0
    BY FS_EmptySet
  <2> HIDE DEF D
  <2> QED BY <1>1, <2>1, <2>2, <2>3
<1>6. Strat!Max(D) \in D
  <2>1. D \subseteq Int
    BY <1>4
  <2> HIDE DEF D
  <2> QED BY <1>4, <1>5, <2>1, MaxTop
<1>7. DOMAIN xs = D /\ \A i \in D : xs[i] \in [n : Nat, d : {1}]
  <2>1. xs = [i \in D |-> [n |-> path[s][i].vol, d |-> 1]]
    BY DEF Strat!month_start_vols, Strat!Px, Strat!Frac
  <2>2. \A i \in D : path[s][i].vol \in Nat
    <3> SUFFICES ASSUME NEW i \in D PROVE path[s][i].vol \in Nat
      OBVIOUS
    <3>1. i \in 1 .. k
      <4> HIDE DEF D
      <4> QED BY <1>4
    <3>2. path[s][i] \in DailyBar
      BY <1>3, <3>1, BarsAre
    <3> QED BY <3>2 DEF DailyBar
  <2> HIDE DEF D, xs
  <2> QED BY <2>1, <2>2
<1>8. PICK x \in [n : Nat, d : Nat \ {0}] : x = xs[Strat!Max(D)]
  <2> HIDE DEF D, xs
  <2>1. xs[Strat!Max(D)] \in [n : Nat, d : {1}]
    BY <1>6, <1>7
  <2> QED BY <2>1
<1>9. PICK m \in [n : Nat, d : Nat \ {0}] : m = Strat!Median(xs)
  <2> HIDE DEF D, xs
  <2> QED BY <1>4, <1>5, <1>7, MedianIs DEF Whole
<1>10. Strat!Below(x, Strat!Times(m, p.enter))
  BY <1>2, <1>8, <1>9 DEF Strat!vol_lever
<1>11. Strat!Below(Strat!Times(m, p.exit), x)
  BY <1>2, <1>8, <1>9, Owned DEF Strat!vol_lever
<1> QED BY <1>1, <1>10, <1>11, SharesKeep

LEMMA NamesAre ==
  ASSUME NEW n \in Strat!Names
  PROVE  n \in Strat!Modules /\ Strat!WellSet(n, Params[n])
BY StrategiesAssumption DEF Strat!StrategiesConstants

LEMMA GenerateKeeps ==
  ASSUME Walked, NEW n \in Strat!Names \ {"tom_tilt", "meanrev"}, NEW s \in Strat!Symbols
  PROVE  Keeps(Strat!generate(n, s, Strat!Flat), Strat!generate(n, s, Bought), Strat!generate(n, s, Shorted))
<1>1. PICK p : p = Params[n] /\ Strat!WellSet(n, p) /\ n \in Strat!Modules
  BY NamesAre
<1>2. CASE ~ Strat!Enough(n, s, p)
  BY <1>1, <1>2 DEF Strat!generate, Keeps
<1>3. CASE Strat!Enough(n, s, p)
  <2>2. \A pos : Strat!generate(n, s, pos) = Strat!Signal(n, s, pos, p)
    BY <1>1, <1>3 DEF Strat!generate
  <2>3. SUFFICES Keeps(Strat!Signal(n, s, Strat!Flat, p), Strat!Signal(n, s, Bought, p),
                       Strat!Signal(n, s, Shorted, p))
    BY <2>2
  <2>4. Strat!required_lookback(n, p) <= day
    BY <1>3 DEF Strat!Enough
  <2>5. CASE n = "ma_crossover"
    <3>1. \A pos : Strat!Signal(n, s, pos, p) = Strat!ma_crossover(s, pos, p)
      BY <2>5 DEF Strat!Signal
    <3> QED BY <1>1, <2>5, <3>1, MaCrossoverKeeps
  <2>6. CASE n = "tsmom"
    <3>1. \A pos : Strat!Signal(n, s, pos, p) = Strat!tsmom(s, pos, p)
      BY <2>6 DEF Strat!Signal
    <3> QED BY <1>1, <2>6, <3>1, TsmomKeeps
  <2>7. CASE n = "xsmom"
    <3>1. \A pos : Strat!Signal(n, s, pos, p) = Strat!xsmom(s, pos, p)
      BY <2>7 DEF Strat!Signal
    <3> QED BY <1>1, <2>7, <3>1, XsmomKeeps
  <2>8. CASE n = "donchian"
    <3>1. \A pos : Strat!Signal(n, s, pos, p) = Strat!donchian(s, pos, p)
      BY <2>8 DEF Strat!Signal
    <3> QED BY <1>1, <2>4, <2>8, <3>1, DonchianKeeps
  <2>9. CASE n = "reclaim"
    <3>1. \A pos : Strat!Signal(n, s, pos, p) = Strat!reclaim(s, pos, p)
      BY <2>9 DEF Strat!Signal
    <3> QED BY <1>1, <2>4, <2>9, <3>1, ReclaimKeeps
  <2>10. CASE n = "lowvol"
    <3>1. \A pos : Strat!Signal(n, s, pos, p) = Strat!lowvol(s, pos, p)
      BY <2>10 DEF Strat!Signal
    <3> QED BY <1>1, <2>10, <3>1, LowvolKeeps
  <2>11. CASE n = "hi52"
    <3>1. \A pos : Strat!Signal(n, s, pos, p) = Strat!hi52(s, pos, p)
      BY <2>11 DEF Strat!Signal
    <3> QED BY <1>1, <2>11, <3>1, Hi52Keeps
  <2>12. CASE n = "swing_sectors"
    <3>1. \A pos : Strat!Signal(n, s, pos, p) = Strat!swing_sectors(s, pos, p)
      BY <2>12 DEF Strat!Signal
    <3> QED BY <1>1, <2>4, <2>12, <3>1, SwingSectorsKeeps
  <2>13. CASE n = "trend_hold"
    <3>1. \A pos : Strat!Signal(n, s, pos, p) = Strat!trend_hold(s, pos, p)
      BY <2>13 DEF Strat!Signal
    <3> QED BY <1>1, <2>13, <3>1, TrendHoldKeeps
  <2>14. CASE n = "vol_lever"
    <3>1. \A pos : Strat!Signal(n, s, pos, p) = Strat!vol_lever(s, pos, p)
      BY <2>14 DEF Strat!Signal
    <3> QED BY <1>1, <2>14, <3>1, VolLeverKeeps
  <2>15. CASE n = "gem"
    <3>1. \A pos : Strat!Signal(n, s, pos, p) = Strat!gem(s, pos, p)
      BY <2>15 DEF Strat!Signal
    <3> QED BY <3>1, GemKeeps
  <2> QED BY <1>1, <2>5, <2>6, <2>7, <2>8, <2>9, <2>10, <2>11, <2>12, <2>13, <2>14, <2>15 DEF Strat!Modules
<1> QED BY <1>2, <1>3

LEMMA NothingMissing ==
  ASSUME Walked, NEW n \in Strat!Names, NEW s \in Strat!Symbols, Strat!Enough(n, s, Params[n])
  PROVE  Strat!NoRatio \notin Strat!Compared(n, s, Params[n])
<1>1. PICK p : p = Params[n] /\ Strat!WellSet(n, p) /\ n \in Strat!Modules
  BY NamesAre
<1>2. PICK k \in Nat \ {0} : k = day /\ Strat!required_lookback(n, p) <= k
  BY <1>1, BarsAre DEF Strat!Enough
<1>3. PICK xs : /\ xs = Strat!Closes(s) /\ xs \in Seq(Nat) /\ xs \in Seq(Nat \ {0}) /\ Len(xs) = k
  BY <1>2, ClosesAre
<1>4. CASE n = "ma_crossover"
  <2>1. /\ p.fast \in Nat /\ p.slow \in Nat /\ p.fast # 0 /\ p.slow # 0 /\ p.fast <= p.slow
        /\ p.slow + 1 <= k
    BY <1>1, <1>2, <1>4 DEF Strat!WellSet, Strat!Positive, Strat!required_lookback
  <2>2. PICK f, l \in Nat : f = p.fast /\ l = p.slow /\ f <= l /\ l + 1 <= k
    BY <2>1
  <2>3. f <= k /\ l <= k /\ f <= k - 1 /\ l <= k - 1 /\ 1 <= k
    BY <2>2
  <2>4. /\ Strat!Back(xs, 1) \in Seq(Nat) /\ Len(Strat!Back(xs, 1)) = Len(xs) - 1
    <3>1. 1 <= Len(xs) /\ xs \in Seq(Nat)
      BY <1>3, <2>3
    <3> QED BY <3>1, BackIs
  <2>5. /\ Strat!sma(xs, f) # Strat!NoRatio /\ Strat!sma(xs, l) # Strat!NoRatio
        /\ Strat!sma(Strat!Back(xs, 1), f) # Strat!NoRatio
        /\ Strat!sma(Strat!Back(xs, 1), l) # Strat!NoRatio
    <3>1. Strat!sma(xs, f) # Strat!NoRatio /\ Strat!sma(xs, l) # Strat!NoRatio
      BY <1>3, <2>1, <2>2, <2>3, SmaIs
    <3>2. f \in Nat \ {0} /\ l \in Nat \ {0}
      BY <2>1, <2>2
    <3>3. PICK ys : ys = Strat!Back(xs, 1) /\ ys \in Seq(Nat) /\ Len(ys) = k - 1
      BY <1>3, <2>4
    <3>4. Strat!sma(ys, f) # Strat!NoRatio /\ Strat!sma(ys, l) # Strat!NoRatio
      BY <2>3, <3>2, <3>3, SmaIs
    <3> QED BY <3>1, <3>3, <3>4
  <2> QED BY <1>1, <1>3, <1>4, <2>2, <2>5 DEF Strat!Compared
<1>5. CASE n = "tsmom"
  <2>1. /\ p.momentum \in Nat /\ p.skip \in Nat /\ p.index \in Nat /\ p.trend \in Nat /\ p.trend # 0
    BY <1>1, <1>5 DEF Strat!WellSet, Strat!Positive
  <2>2. PICK a, b, c \in Nat : a = p.momentum + p.skip /\ b = p.trend /\ c = p.index
    BY <2>1
  <2>3. PICK m \in Int : m = Strat!Max({a, b, c}) /\ m >= a /\ m >= b
    <3>1. a \in Int /\ b \in Int /\ c \in Int
      OBVIOUS
    <3>2. Strat!Max({a, b, c}) \in Int /\ Strat!Max({a, b, c}) >= a /\ Strat!Max({a, b, c}) >= b
      BY <3>1, MaxOfThree
    <3> QED BY <3>2
  <2>4. m + 1 <= k
    BY <1>2, <1>5, <2>2, <2>3 DEF Strat!required_lookback
  <2>5. a + 1 <= k /\ b <= k
    BY <2>3, <2>4
  <2>6. Strat!total_return(xs, p.momentum, p.skip) # Strat!NoRatio
    BY <1>3, <2>1, <2>2, <2>5, ReturnIs
  <2>7. Strat!sma(xs, p.trend) # Strat!NoRatio
    BY <1>3, <2>1, <2>2, <2>5, SmaIs
  <2> QED BY <1>1, <1>3, <1>5, <2>6, <2>7 DEF Strat!Compared
<1>6. CASE n = "meanrev"
  <2>1. /\ p.rsi \in Nat \ {0} /\ p.trend \in Nat \ {0} /\ p.exit \in Nat \ {0} /\ p.history \in Nat
        /\ p.exit <= p.trend /\ p.rsi <= p.history + 1
    BY <1>1, <1>6 DEF Strat!WellSet, Strat!Positive
  <2>2. PICK r, b, e \in Nat \ {0}, h \in Nat :
          r = p.rsi /\ b = p.trend /\ e = p.exit /\ h = p.history /\ e <= b /\ r <= h + 1
    BY <2>1
  <2>3. PICK m \in Int : m = Strat!Max({b, h}) /\ m >= b /\ m >= h
    <3>1. b \in Int /\ h \in Int
      OBVIOUS
    <3>2. Strat!Max({b, h}) \in Int /\ Strat!Max({b, h}) >= b /\ Strat!Max({b, h}) >= h
      BY <3>1, MaxOfTwo
    <3> QED BY <3>2
  <2>4. m + 1 <= k
    BY <1>2, <1>6, <2>2, <2>3 DEF Strat!required_lookback
  <2>5. b <= k /\ e <= k /\ h + 1 <= k /\ h + 1 \in Nat \ {0}
    BY <2>2, <2>3, <2>4
  <2>6. Strat!LastOf(xs, h + 1) \in Seq(Nat) /\ Len(Strat!LastOf(xs, h + 1)) = h + 1
    BY <1>3, <2>5, LastOfIs
  <2>7. /\ Strat!sma(Strat!LastOf(xs, h + 1), r) # Strat!NoRatio
        /\ Strat!sma(xs, b) # Strat!NoRatio /\ Strat!sma(xs, e) # Strat!NoRatio
    <3>1. Strat!sma(xs, b) # Strat!NoRatio /\ Strat!sma(xs, e) # Strat!NoRatio
      BY <1>3, <2>5, SmaIs
    <3>2. PICK ys : ys = Strat!LastOf(xs, h + 1) /\ ys \in Seq(Nat) /\ Len(ys) = h + 1
      BY <2>6
    <3>3. Strat!sma(ys, r) # Strat!NoRatio
      BY <2>2, <3>2, SmaIs
    <3> QED BY <3>1, <3>2, <3>3
  <2> QED BY <1>1, <1>3, <1>6, <2>2, <2>7 DEF Strat!Compared
<1>7. CASE n = "trend_hold"
  <2>1. PICK m \in Nat \ {0} : m = p.ma /\ m + 1 <= k
    BY <1>1, <1>2, <1>7 DEF Strat!WellSet, Strat!Positive, Strat!required_lookback
  <2>2. m <= k
    BY <2>1
  <2>3. Strat!sma(xs, m) # Strat!NoRatio
    BY <1>3, <2>1, <2>2, SmaIs
  <2> QED BY <1>1, <1>3, <1>7, <2>1, <2>3 DEF Strat!Compared
<1>8. CASE n \notin {"ma_crossover", "tsmom", "meanrev", "trend_hold"}
  BY <1>8 DEF Strat!Compared
<1> QED BY <1>4, <1>5, <1>6, <1>7, <1>8

Position == [side : {"none", "long", "short"}, since : Nat]

\* What a strategy may hold: only one of them sells short.
Holds(n, pos) ==
  /\ pos \in Position
  /\ pos # Strat!Flat => pos.side = "long" \/ (n = "xsmom" /\ pos.side = "short")

\* What a strategy may do with what it holds.
Fits(n, pos, action) ==
  /\ action \in {"buy", "sell", "hold", "short", "cover"}
  /\ action = "cover" => pos.side = "short"
  /\ action = "sell" => pos.side = "long"
  /\ action \in {"buy", "short"} => pos = Strat!Flat
  /\ action = "short" => n = "xsmom"

LEMMA GenerateFits ==
  ASSUME NEW n \in Strat!Names, NEW s, NEW pos, Holds(n, pos)
  PROVE  Fits(n, pos, Strat!generate(n, s, pos))
<1>1. PICK p : p = Params[n] /\ n \in Strat!Modules
  BY NamesAre
<1>2. CASE ~ Strat!Enough(n, s, p)
  BY <1>1, <1>2 DEF Strat!generate, Fits
<1>3. CASE Strat!Enough(n, s, p)
  <2>1. Strat!generate(n, s, pos) = Strat!Signal(n, s, pos, p)
    BY <1>1, <1>3 DEF Strat!generate
  <2>2. CASE n = "ma_crossover"
    BY <2>1, <2>2 DEF Strat!Signal, Strat!ma_crossover, Fits, Holds
  <2>3. CASE n = "tsmom"
    BY <2>1, <2>3 DEF Strat!Signal, Strat!tsmom, Fits, Holds
  <2>4. CASE n = "xsmom"
    BY <2>1, <2>4 DEF Strat!Signal, Strat!xsmom, Fits, Holds
  <2>5. CASE n = "donchian"
    BY <2>1, <2>5 DEF Strat!Signal, Strat!donchian, Fits, Holds
  <2>6. CASE n = "meanrev"
    BY <2>1, <2>6 DEF Strat!Signal, Strat!meanrev, Fits, Holds
  <2>7. CASE n = "reclaim"
    BY <2>1, <2>7 DEF Strat!Signal, Strat!reclaim, Fits, Holds
  <2>8. CASE n = "lowvol"
    BY <2>1, <2>8 DEF Strat!Signal, Strat!lowvol, Fits, Holds
  <2>9. CASE n = "hi52"
    BY <2>1, <2>9 DEF Strat!Signal, Strat!hi52, Fits, Holds
  <2>10. CASE n = "swing_sectors"
    BY <2>1, <2>10 DEF Strat!Signal, Strat!swing_sectors, Fits, Holds
  <2>11. CASE n = "trend_hold"
    BY <2>1, <2>11 DEF Strat!Signal, Strat!trend_hold, Fits, Holds
  <2>12. CASE n = "tom_tilt"
    BY <2>1, <2>12 DEF Strat!Signal, Strat!tom_tilt, Fits, Holds
  <2>13. CASE n = "vol_lever"
    BY <2>1, <2>13 DEF Strat!Signal, Strat!vol_lever, Fits, Holds
  <2>14. CASE n = "gem"
    BY <2>1, <2>14 DEF Strat!Signal, Strat!gem, Fits, Holds
  <2> QED BY <1>1, <2>2, <2>3, <2>4, <2>5, <2>6, <2>7, <2>8, <2>9, <2>10, <2>11, <2>12, <2>13, <2>14
       DEF Strat!Modules
<1> QED BY <1>2, <1>3

\* The walk, what each strategy holds, and the one leg of the strategy that
\* rotates.
Leg(pos) == pos.side = "long" /\ pos.since # Strat!Unknown
WalkOK ==
  /\ Walked
  /\ book \in [Strat!Names -> [Strat!Symbols -> Position]]
  /\ \A n \in Strat!Names, s \in Strat!Symbols : Holds(n, book[n][s])
  /\ "gem" \in Strat!Names => \A s, u \in Strat!Symbols : Leg(book["gem"][s]) /\ Leg(book["gem"][u]) => s = u

\* A strategy that rotates keeps what it holds, or holds its target at most.
LEMMA GemRotates ==
  ASSUME NEW s \in Strat!Symbols, "gem" \in Strat!Names,
         NEW pos, Holds("gem", pos), Leg(Strat!Filled(pos, Strat!generate("gem", s, pos)))
  PROVE  IF Strat!Enough("gem", s, Params["gem"]) /\ Strat!Target(Params["gem"]) # "none"
         THEN s = Strat!Target(Params["gem"]) ELSE Leg(pos)
<1>1. PICK p : p = Params["gem"]
  OBVIOUS
<1>2. CASE Strat!Enough("gem", s, p) /\ Strat!Target(p) # "none"
  <2>1. Strat!generate("gem", s, pos) = Strat!gem(s, pos, p)
    BY <1>1, <1>2 DEF Strat!generate, Strat!Signal
  <2>2. CASE s # Strat!Target(p)
    <3>1. Strat!Filled(pos, Strat!generate("gem", s, pos)) = Strat!Flat
      BY <1>2, <2>1, <2>2 DEF Strat!gem, Strat!Filled
    <3> QED BY <3>1 DEF Leg, Strat!Flat
  <2> QED BY <1>1, <1>2, <2>2
<1>3. CASE ~ (Strat!Enough("gem", s, p) /\ Strat!Target(p) # "none")
  <2>1. Strat!generate("gem", s, pos) = "hold"
    BY <1>1, <1>3 DEF Strat!generate, Strat!Signal, Strat!gem
  <2>2. Strat!Filled(pos, "hold") = pos
    BY DEF Strat!Filled
  <2> QED BY <1>1, <1>3, <2>1, <2>2
<1> QED BY <1>2, <1>3

LEMMA FilledHolds ==
  ASSUME day \in Nat, NEW n, NEW pos, Holds(n, pos), NEW action, Fits(n, pos, action)
  PROVE  Holds(n, Strat!Filled(pos, action))
<1>1. Strat!Flat \in Position
  BY DEF Strat!Flat, Strat!Unknown, Position
<1>2. [side |-> "long", since |-> day] \in Position /\ [side |-> "short", since |-> day] \in Position
  BY DEF Position
<1> QED BY <1>1, <1>2 DEF Strat!Filled, Holds, Fits

LEMMA WalkStarts == Strat!Init => WalkOK
<1> SUFFICES ASSUME Strat!Init PROVE WalkOK
  OBVIOUS
<1>1. Walked
  <2>1. PICK k \in Nat : k = Len(Calendar) /\ k # 0
    BY StrategiesAssumption DEF Strat!StrategiesConstants
  <2> QED BY <2>1 DEF Strat!Init, Walked
<1>2. Strat!Flat \in Position /\ ~ Leg(Strat!Flat)
  BY DEF Strat!Flat, Strat!Unknown, Position, Leg
<1>3. \A n \in Strat!Names, s \in Strat!Symbols : book[n][s] = Strat!Flat
  BY DEF Strat!Init
<1>4. book \in [Strat!Names -> [Strat!Symbols -> Position]]
  BY <1>2 DEF Strat!Init
<1> QED BY <1>1, <1>2, <1>3, <1>4 DEF WalkOK, Holds

LEMMA WalkStep == WalkOK /\ [Strat!Next]_(Strat!walk) => WalkOK'
<1> SUFFICES ASSUME WalkOK, [Strat!Next]_(Strat!walk) PROVE WalkOK'
  OBVIOUS
<1>1. CASE Strat!NextBar
  <2>1. Walked' /\ day \in Nat
    <3>1. PICK k, d \in Nat : k = Len(Calendar) /\ d = day /\ d \in 1 .. k
      BY StrategiesAssumption DEF Strat!StrategiesConstants, WalkOK, Walked
    <3>2. d < k /\ day' = d + 1 /\ path' = path
      BY <1>1, <3>1 DEF Strat!NextBar
    <3>3. d + 1 \in 1 .. k
      BY <3>1, <3>2
    <3> QED BY <3>1, <3>2, <3>3 DEF WalkOK, Walked
  <2> DEFINE After(n, s) == Strat!Filled(book[n][s], Strat!generate(n, s, book[n][s]))
  <2>2. book' = [n \in Strat!Names |-> [s \in Strat!Symbols |-> After(n, s)]]
    BY <1>1 DEF Strat!NextBar
  <2>3. \A n \in Strat!Names, s \in Strat!Symbols : Holds(n, After(n, s))
    BY <2>1, GenerateFits, FilledHolds DEF WalkOK
  <2>4. \A n \in Strat!Names, s \in Strat!Symbols : After(n, s) \in Position
    BY <2>3 DEF Holds
  <2>5. ASSUME "gem" \in Strat!Names, NEW s \in Strat!Symbols, NEW u \in Strat!Symbols,
               Leg(After("gem", s)), Leg(After("gem", u))
        PROVE  s = u
    <3>1. \A x, y : Strat!Enough("gem", x, Params["gem"]) <=> Strat!Enough("gem", y, Params["gem"])
      BY DEF Strat!Enough
    <3>2. Holds("gem", book["gem"][s]) /\ Holds("gem", book["gem"][u])
      BY <2>5 DEF WalkOK
    <3>3. IF Strat!Enough("gem", s, Params["gem"]) /\ Strat!Target(Params["gem"]) # "none"
          THEN s = Strat!Target(Params["gem"]) ELSE Leg(book["gem"][s])
      BY <2>5, <3>2, GemRotates
    <3>4. IF Strat!Enough("gem", u, Params["gem"]) /\ Strat!Target(Params["gem"]) # "none"
          THEN u = Strat!Target(Params["gem"]) ELSE Leg(book["gem"][u])
      BY <2>5, <3>2, GemRotates
    <3> QED BY <2>5, <3>1, <3>3, <3>4 DEF WalkOK
  <2> HIDE DEF After
  <2>6. \A n \in Strat!Names, s \in Strat!Symbols : book'[n][s] = After(n, s)
    BY <2>2
  <2>7. book' \in [Strat!Names -> [Strat!Symbols -> Position]]
    BY <2>2, <2>4
  <2> QED BY <2>1, <2>3, <2>5, <2>6, <2>7 DEF WalkOK, Holds, Leg
<1>2. CASE \E n \in Strat!Names, s \in Strat!Symbols : Strat!Adopt(n, s) \/ Strat!StopFills(n, s)
  <2>1. PICK n \in Strat!Names, s \in Strat!Symbols : Strat!Adopt(n, s) \/ Strat!StopFills(n, s)
    BY <1>2
  <2>2. PICK pos \in Position :
          /\ book' = [book EXCEPT ![n][s] = pos] /\ ~ Leg(pos) /\ Holds(n, pos)
    <3>1. [side |-> "long", since |-> Strat!Unknown] \in Position /\ Strat!Flat \in Position
      BY DEF Strat!Flat, Strat!Unknown, Position
    <3>2. ~ Leg([side |-> "long", since |-> Strat!Unknown]) /\ ~ Leg(Strat!Flat)
      BY DEF Leg, Strat!Flat
    <3> QED BY <2>1, <3>1, <3>2 DEF Strat!Adopt, Strat!StopFills, Holds
  <2>3. path' = path /\ day' = day
    BY <2>1 DEF Strat!Adopt, Strat!StopFills
  <2>4. book' \in [Strat!Names -> [Strat!Symbols -> Position]]
    BY <2>2 DEF WalkOK
  <2>5. \A m \in Strat!Names, u \in Strat!Symbols :
          book'[m][u] = IF m = n /\ u = s THEN pos ELSE book[m][u]
    BY <2>2 DEF WalkOK
  <2> QED BY <2>2, <2>3, <2>4, <2>5 DEF WalkOK, Walked, Holds, Leg
<1>3. CASE UNCHANGED Strat!walk
  BY <1>3 DEF Strat!walk, WalkOK, Walked, Holds, Leg
<1> QED BY <1>1, <1>2, <1>3 DEF Strat!Next

LEMMA WalkSound == WalkOK => StrategiesSound
<1> SUFFICES ASSUME WalkOK PROVE StrategiesSound
  OBVIOUS
<1>1. Strat!NeverDies
  BY NothingMissing DEF WalkOK, Strat!NeverDies
<1>2. Strat!NoChurn
  BY GenerateKeeps DEF WalkOK, Strat!NoChurn, Keeps, Bought, Shorted
<1>3. Strat!ExitsFit
  <2>1. \A n \in Strat!Names, s \in Strat!Symbols :
          Fits(n, book[n][s], Strat!generate(n, s, book[n][s]))
    BY GenerateFits DEF WalkOK
  <2>2. ASSUME "gem" \in Strat!Names
        PROVE  Strat!Cardinality({s \in Strat!Symbols : book["gem"][s].side = "long"
                                     /\ book["gem"][s].since # Strat!Unknown}) <= 1
    <3> DEFINE L == {s \in Strat!Symbols : Leg(book["gem"][s])}
    <3>1. \A s, u \in L : s = u
      BY <2>2 DEF WalkOK
    <3>2. L = {} \/ \E s \in Strat!Symbols : L = {s}
      <4>1. CASE L # {}
        <5>1. PICK s : s \in L
          BY <4>1
        <5>2. L = {s}
          BY <3>1, <5>1
        <5> QED BY <5>1, <5>2
      <4> QED BY <4>1
    <3>3. Cardinality(L) <= 1
      <4> HIDE DEF L
      <4>1. CASE L = {}
        BY <4>1, FS_EmptySet
      <4>2. CASE \E s \in Strat!Symbols : L = {s}
        <5>1. PICK s : L = {s}
          BY <4>2
        <5>2. Cardinality({s}) = 1
          BY FS_Singleton
        <5> QED BY <5>1, <5>2
      <4> QED BY <3>2, <4>1, <4>2
    <3>4. Strat!Cardinality(L) = Cardinality(L)
      BY SameCard
    <3>5. L = {s \in Strat!Symbols : book["gem"][s].side = "long"
                                     /\ book["gem"][s].since # Strat!Unknown}
      BY DEF Leg
    <3> HIDE DEF L
    <3> QED BY <3>3, <3>4, <3>5
  <2> QED BY <2>1, <2>2 DEF Strat!ExitsFit, Fits
<1> QED BY <1>1, <1>2, <1>3 DEF StrategiesSound

\* The strategies: no comparison of a value that is missing, exits that fit
\* what is held, at most one leg of the one that rotates, and no bar that is
\* both an entry and an exit: for every universe, prices and parameters.
THEOREM StrategiesHold == Strat!Spec => []StrategiesSound
<1>1. WalkOK /\ [Strat!Next]_(Strat!walk) => WalkOK'
  BY WalkStep
<1> QED BY WalkStarts, <1>1, WalkSound, PTL DEF Strat!Spec

(* Functions defined by recursion over 0 .. n. *)

\* A step function unfolds from a start.
Unfolded(f, n, a, step) ==
  f = [i \in 0 .. n |-> IF i = 0 THEN a ELSE step[<<f[i - 1], i>>]]

LEMMA Unfolds ==
  ASSUME NEW D, NEW a \in D, NEW n \in Nat, NEW step \in [D \X (1 .. n) -> D]
  PROVE  \E f \in [0 .. n -> D] : Unfolded(f, n, a, step)
<1> DEFINE Up(m) == \E f \in [0 .. m -> D] : Unfolded(f, m, a, step)
           N == {m \in 0 .. n : ~ Up(m)}
<1>1. N = {}
  <2> SUFFICES ASSUME N # {} PROVE FALSE
    OBVIOUS
  <2>0. N \in SUBSET Nat
    <3> HIDE DEF Up
    <3> QED OBVIOUS
  <2>1. PICK m \in N : \A k \in N : m <= k
    <3> HIDE DEF N
    <3> QED BY <2>0, LeastOf
  <2>2. CASE m = 0
    <3> DEFINE f == [i \in 0 .. 0 |-> a]
    <3>1. f \in [0 .. 0 -> D] /\ Unfolded(f, 0, a, step)
      BY DEF Unfolded
    <3>2. Up(0)
      BY <3>1
    <3> HIDE DEF Up
    <3> QED BY <2>1, <2>2, <3>2
  <2>3. CASE m # 0
    <3>1. m \in 1 .. n /\ m - 1 \in 0 .. n /\ m - 1 \notin N
      <4> HIDE DEF Up
      <4> QED BY <2>1, <2>3
    <3>2. PICK f \in [0 .. m - 1 -> D] : Unfolded(f, m - 1, a, step)
      BY <3>1
    <3> DEFINE g == [i \in 0 .. m |-> IF i = m THEN step[<<f[m - 1], m>>] ELSE f[i]]
    <3>3. step[<<f[m - 1], m>>] \in D
      <4>1. f[m - 1] \in D
        BY <3>1, <3>2
      <4>2. <<f[m - 1], m>> \in D \X (1 .. n)
        BY <3>1, <4>1
      <4> QED BY <4>2
    <3>4. g \in [0 .. m -> D]
      BY <3>1, <3>2, <3>3
    <3>5. \A i \in 0 .. m : g[i] = IF i = 0 THEN a ELSE step[<<g[i - 1], i>>]
      <4> SUFFICES ASSUME NEW i \in 0 .. m
                   PROVE  g[i] = IF i = 0 THEN a ELSE step[<<g[i - 1], i>>]
        OBVIOUS
      <4>1. CASE i = m
        <5>1. i # 0 /\ i - 1 \in 0 .. m /\ i - 1 # m
          BY <3>1, <4>1
        <5>2. g[i - 1] = f[m - 1]
          BY <4>1, <5>1
        <5> QED BY <4>1, <5>1, <5>2
      <4>2. CASE i # m
        <5>1. i \in 0 .. m - 1 /\ g[i] = f[i]
          BY <3>1, <4>2
        <5>2. f[i] = IF i = 0 THEN a ELSE step[<<f[i - 1], i>>]
          BY <3>2, <5>1 DEF Unfolded
        <5>3. i # 0 => i - 1 \in 0 .. m /\ i - 1 # m
          BY <3>1, <5>1
        <5>4. i # 0 => g[i - 1] = f[i - 1]
          BY <5>3
        <5> QED BY <5>1, <5>2, <5>4
      <4> QED BY <4>1, <4>2
    <3>6. Unfolded(g, m, a, step)
      <4>1. g = [i \in 0 .. m |-> g[i]]
        BY <3>4
      <4> HIDE DEF g
      <4> QED BY <3>5, <4>1 DEF Unfolded
    <3>7. Up(m)
      <4> HIDE DEF g
      <4> QED BY <3>4, <3>6
    <3> HIDE DEF Up
    <3> QED BY <2>1, <3>7
  <2> QED BY <2>2, <2>3
<1>2. n \in 0 .. n
  OBVIOUS
<1>3. Up(n)
  <2> HIDE DEF Up
  <2> QED BY <1>1, <1>2
<1> QED BY <1>3

(* The drawdown clock. *)

LEMMA HalvingsIs ==
  ASSUME NEW k \in Nat
  PROVE  Clock!Halvings(k) \in Nat \ {0} /\ (k = 0 => Clock!Halvings(k) = 1)
<1> DEFINE P(f) == f = [i \in 0 .. k |-> IF i = 0 THEN 1 ELSE 2 * f[i - 1]]
           by == CHOOSE f : P(f)
           D == Nat \ {0}
           step == [p \in D \X (1 .. k) |-> 2 * p[1]]
<1>1. \E f : P(f) /\ f \in [0 .. k -> D]
  <2>1. step \in [D \X (1 .. k) -> D] /\ 1 \in D
    OBVIOUS
  <2>2. PICK f \in [0 .. k -> D] : Unfolded(f, k, 1, step)
    <3> HIDE DEF step, D
    <3> QED BY <2>1, Unfolds
  <2>3. \A i \in 0 .. k : i # 0 => step[<<f[i - 1], i>>] = 2 * f[i - 1]
    <3> SUFFICES ASSUME NEW i \in 0 .. k, i # 0 PROVE step[<<f[i - 1], i>>] = 2 * f[i - 1]
      OBVIOUS
    <3>1. i - 1 \in 0 .. k /\ i \in 1 .. k
      OBVIOUS
    <3>2. f[i - 1] \in D
      BY <3>1
    <3>3. <<f[i - 1], i>> \in D \X (1 .. k)
      BY <3>1, <3>2
    <3> QED BY <3>3
  <2> HIDE DEF step
  <2>4. P(f)
    BY <2>2, <2>3 DEF Unfolded
  <2> QED BY <2>4
<1>2. P(by)
  <2> HIDE DEF P
  <2> QED BY <1>1
<1>3. \A i \in 0 .. k : by[i] \in D
  <2> HIDE DEF by
  <2> DEFINE N == {i \in 0 .. k : by[i] \notin D}
  <2> SUFFICES ASSUME N # {} PROVE FALSE
    OBVIOUS
  <2>1. N \in SUBSET Nat
    OBVIOUS
  <2>2. PICK i \in N : \A j \in N : i <= j
    BY <2>1, LeastOf
  <2>3. i # 0
    BY <1>2, <2>2
  <2>4. i - 1 \in 0 .. k /\ i - 1 \notin N
    BY <2>2, <2>3
  <2>5. by[i - 1] \in D
    BY <2>4
  <2>6. by[i] = 2 * by[i - 1]
    BY <1>2, <2>2, <2>3
  <2> QED BY <2>2, <2>5, <2>6
<1>4. Clock!Halvings(k) = by[k]
  BY DEF Clock!Halvings
<1> HIDE DEF by
<1>5. by[k] \in D /\ (k = 0 => by[k] = 1)
  BY <1>2, <1>3
<1> QED BY <1>4, <1>5

\* The clock runs on only below a low that an earlier bar had already seen.
Clocked ==
  /\ equity \in Equities /\ peak \in Equities /\ stable \in Nat /\ decay \in BOOLEAN
  /\ peak_file \in {"ok", "unseeded", "unreadable"}
  /\ past \in Seq(Equities) /\ past # <<>> /\ past[Len(past)] = equity
  /\ \E i \in 1 .. Len(past) : past[i] = peak
  /\ \E i \in 1 .. Len(past) : past[i] = trough
  /\ stable > 0 => trough <= equity /\ \E i \in 1 .. Len(past) - 1 : past[i] = trough

LEMMA GrownBy ==
  ASSUME NEW e \in Equities, past \in Seq(Equities), past # <<>>
  PROVE  /\ Append(past, e) \in Seq(Equities) /\ Append(past, e) # <<>>
         /\ Len(Append(past, e)) - 1 = Len(past) /\ Append(past, e)[Len(Append(past, e))] = e
         /\ \A i \in 1 .. Len(past) : i \in 1 .. Len(Append(past, e)) /\ Append(past, e)[i] = past[i]
         /\ Len(Append(past, e)) \in 1 .. Len(Append(past, e))
OBVIOUS

LEMMA ClockStarts == Clock!Init => Clocked
<1> SUFFICES ASSUME Clock!Init PROVE Clocked
  OBVIOUS
<1>1. past = <<equity>> /\ equity \in Equities /\ peak = equity /\ trough = equity /\ stable = 0
  BY DEF Clock!Init
<1>2. past \in Seq(Equities) /\ past # <<>> /\ Len(past) = 1 /\ past[1] = equity /\ 1 \in 1 .. Len(past)
  BY <1>1
<1> QED BY <1>1, <1>2 DEF Clocked, Clock!Init

LEMMA ClockTicks == Clocked /\ [Clock!Next]_(Clock!clock) => Clocked'
<1> SUFFICES ASSUME Clocked, [Clock!Next]_(Clock!clock) PROVE Clocked'
  OBVIOUS
<1>1. ASSUME NEW e \in Equities, Clock!Bar(e) PROVE Clocked'
  <2> DEFINE q == Append(past, e)
  <2>0. past \in Seq(Equities) /\ past # <<>> /\ past' = q /\ equity' = e
    BY <1>1 DEF Clocked, Clock!Bar
  <2>1. /\ q \in Seq(Equities) /\ q # <<>> /\ Len(q) - 1 = Len(past) /\ q[Len(q)] = e
        /\ Len(q) \in 1 .. Len(q)
        /\ \A i \in 1 .. Len(past) : i \in 1 .. Len(q) /\ q[i] = past[i]
    BY <2>0, GrownBy
  <2> HIDE DEF q
  <2>2. equity' \in Equities /\ decay' \in BOOLEAN /\ peak_file' \in {"ok", "unseeded", "unreadable"}
    BY <1>1 DEF Clocked, Clock!Bar
  <2>3. past' \in Seq(Equities) /\ past' # <<>> /\ past'[Len(past')] = equity'
    BY <2>0, <2>1
  <2>4. peak' \in Equities /\ \E i \in 1 .. Len(past') : past'[i] = peak'
    BY <1>1, <2>0, <2>1 DEF Clocked, Clock!Bar
  <2>5. \E i \in 1 .. Len(q) - 1 : q[i] = trough
    <3>1. PICK i \in 1 .. Len(past) : past[i] = trough
      BY DEF Clocked
    <3>2. i \in 1 .. Len(q) - 1 /\ q[i] = trough
      BY <2>1, <3>1
    <3> QED BY <3>2
  <2>6. \E i \in 1 .. Len(q) - 1 : q[i] = peak
    <3>1. PICK i \in 1 .. Len(past) : past[i] = peak
      BY DEF Clocked
    <3>2. i \in 1 .. Len(q) - 1 /\ q[i] = peak
      BY <2>1, <3>1
    <3> QED BY <3>2
  <2>7. \A i \in 1 .. Len(q) - 1 : i \in 1 .. Len(q)
    <3>1. Len(q) \in Nat
      BY <2>1
    <3> QED BY <3>1
  <2>8. trough' = Clock!decay_clock(e).trough /\ stable' = Clock!decay_clock(e).stable
    BY <1>1 DEF Clock!Bar
  <2>9. e \in Nat /\ peak \in Nat /\ stable \in Nat
    BY ClockAssumption DEF Clocked, Clock!ClockConstants
  <2>10. trough \in Nat
    <3>1. PICK i \in 1 .. Len(past) : past[i] = trough
      BY DEF Clocked
    <3>2. past[i] \in Equities
      BY <2>0, <3>1
    <3> QED BY <3>1, <3>2, ClockAssumption DEF Clock!ClockConstants
  <2>11. CASE e >= peak
    <3>1. trough' = peak /\ stable' = 0
      BY <2>8, <2>11 DEF Clock!decay_clock
    <3> QED BY <2>0, <2>2, <2>3, <2>4, <2>6, <2>7, <3>1 DEF Clocked
  <2>12. CASE ~ (e >= peak) /\ e < trough
    <3>1. trough' = e /\ stable' = 0
      BY <2>8, <2>12 DEF Clock!decay_clock
    <3> QED BY <2>0, <2>1, <2>2, <2>3, <2>4, <3>1 DEF Clocked
  <2>13. CASE ~ (e >= peak) /\ ~ (e < trough)
    <3>1. trough' = trough /\ stable' = stable + 1
      BY <2>8, <2>13 DEF Clock!decay_clock
    <3>2. trough' <= equity' /\ stable' \in Nat
      BY <2>0, <2>9, <2>10, <2>13, <3>1
    <3> QED BY <2>0, <2>2, <2>3, <2>4, <2>5, <2>7, <3>1, <3>2 DEF Clocked
  <2> QED BY <2>11, <2>12, <2>13
<1>2. CASE Clock!Damage
  BY <1>2 DEF Clocked, Clock!Damage
<1>3. CASE UNCHANGED Clock!clock
  BY <1>3 DEF Clocked, Clock!clock
<1> QED BY <1>1, <1>2, <1>3 DEF Clock!Next

LEMMA Dearer ==
  ASSUME NEW e \in Nat, NEW p \in Nat, NEW c \in Nat, NEW by \in Nat \ {0}, p > e
  PROVE  c * (e * by + (p - e)) >= c * p /\ (by = 1 => c * (e * by + (p - e)) = c * p)
<1>1. PICK m \in Nat : by = m + 1
  <2>1. by - 1 \in Nat /\ by = (by - 1) + 1
    OBVIOUS
  <2> QED BY <2>1
<1>2. PICK g \in Nat : p = e + g
  <2>1. p - e \in Nat /\ p = e + (p - e)
    OBVIOUS
  <2> QED BY <2>1
<1>3. PICK k \in Nat : k = e * m
  <2>1. e * m \in Nat
    OBVIOUS
  <2> QED BY <2>1
<1>4. e * by = k + e
  <2>1. e * (m + 1) = e * m + e
    OBVIOUS
  <2> QED BY <1>1, <1>3, <2>1
<1>5. e * by + (p - e) = k + p
  BY <1>2, <1>4
<1>6. c * (k + p) = c * k + c * p /\ c * k \in Nat /\ c * p \in Nat
  OBVIOUS
<1>7. c * (k + p) >= c * p
  BY <1>6
<1>8. by = 1 => e * by = e
  OBVIOUS
<1>9. by = 1 => e * by + (p - e) = p
  BY <1>8
<1> QED BY <1>5, <1>7, <1>9

LEMMA ClockHolds == Clocked => Clock!NewLowBlocks
<1> SUFFICES ASSUME Clocked PROVE Clock!NewLowBlocks
  OBVIOUS
<1>1. /\ equity \in Nat /\ peak \in Nat /\ CapPct \in Nat /\ Grace \in Nat
      /\ stable \in Nat
  BY ClockAssumption DEF Clocked, Clock!ClockConstants
<1> DEFINE k == IF decay /\ stable > Grace THEN stable - Grace ELSE 0
<1>2. k \in Nat
  BY <1>1
<1>3. PICK by \in Nat \ {0} : by = Clock!Halvings(k) /\ (k = 0 => by = 1)
  <2> HIDE DEF k
  <2> QED BY <1>2, HalvingsIs
<1>4. Clock!Blocked <=>
        peak > equity /\ (peak - equity) * 100 >= CapPct * (equity * by + (peak - equity))
  BY <1>3 DEF Clock!Blocked, Clock!decayed_peak_over
<1>5. Clock!drawdown_over(equity, peak) <=>
        peak > 0 /\ peak > equity /\ (peak - equity) * 100 >= CapPct * peak
  BY DEF Clock!drawdown_over
<1>6. PICK e, p, c \in Nat : e = equity /\ p = peak /\ c = CapPct
  BY <1>1
<1>7. PICK over, plain, gap \in Int :
        over = c * (e * by + (p - e)) /\ plain = c * p /\ gap = (p - e) * 100
  BY <1>6
<1>8. p > e => over >= plain /\ (by = 1 => over = plain)
  BY <1>6, <1>7, Dearer
<1>9. Clock!Blocked <=> p > e /\ gap >= over
  BY <1>4, <1>6, <1>7
<1>10. Clock!drawdown_over(equity, peak) <=> p > 0 /\ p > e /\ gap >= plain
  BY <1>5, <1>6, <1>7
<1>11. Clock!Blocked => Clock!drawdown_over(equity, peak)
  BY <1>6, <1>7, <1>8, <1>9, <1>10
<1>12. ASSUME Clock!Released PROVE decay /\ \E i \in 1 .. Len(past) - 1 : past[i] <= equity
  <2>1. by # 1
    BY <1>7, <1>8, <1>9, <1>10, <1>12 DEF Clock!Released
  <2>2. k # 0
    BY <1>3, <2>1
  <2>3. decay /\ stable > 0
    BY <1>1, <2>2
  <2>4. trough <= equity /\ \E i \in 1 .. Len(past) - 1 : past[i] = trough
    BY <2>3 DEF Clocked
  <2> QED BY <2>3, <2>4
<1>13. ASSUME Clock!Blocked, peak_file # "unseeded" PROVE Clock!drawdown_state(equity).engaged
  <2>1. peak_file \in {"ok", "unreadable"}
    BY <1>13 DEF Clocked
  <2>2. CASE peak_file = "ok"
    BY <1>11, <1>13, <2>2 DEF Clock!drawdown_state
  <2>3. CASE peak_file = "unreadable"
    BY <2>3 DEF Clock!drawdown_state
  <2> QED BY <2>1, <2>2, <2>3
<1> QED BY <1>12, <1>13 DEF Clock!NewLowBlocks

\* The monitor and the decayed rail agree, whatever the cap and the grace: a
\* book at its lowest is never released (DrawdownClock's property).
THEOREM NewLowHeld == Clock!Spec => []Clock!NewLowBlocks
<1>1. Clock!Spec => []Clocked
  BY ClockStarts, ClockTicks, PTL DEF Clock!Spec
<1> QED BY <1>1, ClockHolds, PTL

(* The simulators: what a book is made of. *)

Lot ==
  [qty : Int \ {0}, avg : Int, at : Int, owner : Sim!Owners, hw : Int, stop : Int, raised : Int,
   tp : Int]
Ask == [symbol : Sim!Symbols, action : {"buy", "short", "sell", "cover"}, owner : Sim!Owners]
Endings == {"strategy_sell", "stop_loss", "take_profit", "end_of_data"}
Trip ==
  [symbol : Sim!Symbols, owner : Sim!Owners, qty : Int, from : Int, entry : Int, to : Int,
   exit : Int, reason : Endings, raised : Int]
Books ==
  [cash : Int, pos : [Sim!Symbols -> {Sim!Flat} \cup Lot], pending : Seq(Ask), fills : Nat,
   last_exit : [Sim!Symbols -> [Sim!Owners -> Nat]], closed : Seq(Trip),
   signals : Nat, executed : Nat, blocked : [Sim!Reasons -> Nat], paid : Int,
   queued : [Sim!Owners -> Nat]]

\* What the trades brought, what the open positions cost, what a signal is due.
Won(q) == SumOf([i \in DOMAIN q |-> Sim!pnl(q[i])], DOMAIN q)
Tied(pos) ==
  SumOf([s \in {s \in Sim!Symbols : pos[s] # Sim!Flat} |-> pos[s].qty * pos[s].avg + Fee],
        {s \in Sim!Symbols : pos[s] # Sim!Flat})
Balanced(b) == b.cash = StartCash - b.paid + Won(b.closed) - Tied(b.pos)
Due(b) == b.signals - (b.executed + SumOf(b.blocked, Sim!Reasons) + Sim!Asking(b.pending))

LEMMA SimConstants ==
  /\ Order \in Seq(Sim!Symbols) /\ Ensemble \in Seq(Sim!Owners) /\ Ensemble # <<>>
  /\ \A i, j \in DOMAIN Order : Order[i] = Order[j] => i = j
  /\ \A i, j \in DOMAIN Ensemble : Ensemble[i] = Ensemble[j] => i = j
  /\ DayBars \subseteq [open : Int, low : Int, high : Int, close : Int]
  /\ Sizes \subseteq Nat \ {0}
  /\ IsFiniteSet(Rails) /\ IsFiniteSet(Filters)
  /\ Slip \in Int /\ Fee \in Int /\ StartCash \in Int /\ Width \in Int /\ Reach \in Int
  /\ Trail \in Int /\ Charge \in Int
<1>1. IsFiniteSet(Rails) /\ IsFiniteSet(Filters)
  BY SimulatorAssumption DEF Sim!SimulatorConstants, Sim!IsFiniteSet, IsFiniteSet
<1>2. /\ Order \in Seq(Sim!Symbols) /\ Ensemble \in Seq(Sim!Owners) /\ Ensemble # <<>>
      /\ Sim!IsInjective(Order) /\ Sim!IsInjective(Ensemble)
      /\ DayBars \subseteq [open : Int, low : Int, high : Int, close : Int]
      /\ Sizes \subseteq Nat \ {0}
      /\ {Slip, Fee, StartCash, Width, Reach, Trail, Charge} \subseteq Int
  BY SimulatorAssumption DEF Sim!SimulatorConstants
<1> QED BY <1>1, <1>2 DEF Sim!IsInjective

LEMMA RangeFinite ==
  ASSUME NEW S, NEW q \in Seq(S), S = {q[i] : i \in DOMAIN q}
  PROVE  IsFiniteSet(S)
<1>1. PICK n \in Nat : n = Len(q) /\ DOMAIN q = 1 .. n
  BY LenProperties
<1>2. IsFiniteSet(1 .. n)
  BY FS_Interval
<1> DEFINE f == [i \in 1 .. n |-> q[i]]
<1>3. f \in Surjection(1 .. n, S)
  BY <1>1 DEF Surjection
<1> QED BY <1>2, <1>3, FS_Surjection

LEMMA SimFinite ==
  IsFiniteSet(Sim!Symbols) /\ IsFiniteSet(Sim!Reasons) /\ \A S \in SUBSET Sim!Symbols : IsFiniteSet(S)
<1>1. IsFiniteSet(Sim!Symbols)
  BY SimConstants, RangeFinite DEF Sim!Symbols, Sim!Range
<1>2. IsFiniteSet(Sim!Reasons)
  <2>1. IsFiniteSet(Rails \cup Filters)
    BY SimConstants, FS_Union
  <2>2. IsFiniteSet((Rails \cup Filters) \cup {"daily_cap"})
    BY <2>1, FS_AddElement
  <2>3. IsFiniteSet(((Rails \cup Filters) \cup {"daily_cap"}) \cup {"already_held"})
    BY <2>2, FS_AddElement
  <2>4. IsFiniteSet((((Rails \cup Filters) \cup {"daily_cap"}) \cup {"already_held"}) \cup {"cooldown"})
    BY <2>3, FS_AddElement
  <2>5. IsFiniteSet(((((Rails \cup Filters) \cup {"daily_cap"}) \cup {"already_held"}) \cup {"cooldown"})
          \cup {"unprotectable_entry"})
    BY <2>4, FS_AddElement
  <2>6. IsFiniteSet((((((Rails \cup Filters) \cup {"daily_cap"}) \cup {"already_held"}) \cup {"cooldown"})
          \cup {"unprotectable_entry"}) \cup {"entry_cap"})
    BY <2>5, FS_AddElement
  <2>7. IsFiniteSet(((((((Rails \cup Filters) \cup {"daily_cap"}) \cup {"already_held"}) \cup {"cooldown"})
          \cup {"unprotectable_entry"}) \cup {"entry_cap"}) \cup {"expired_unfilled"})
    BY <2>6, FS_AddElement
  <2>8. Sim!Reasons =
         ((((((Rails \cup Filters) \cup {"daily_cap"}) \cup {"already_held"}) \cup {"cooldown"})
          \cup {"unprotectable_entry"}) \cup {"entry_cap"}) \cup {"expired_unfilled"}
    BY DEF Sim!Reasons
  <2> QED BY <2>7, <2>8
<1> QED BY <1>1, <1>2, FS_Subset

LEMMA SumBump ==
  ASSUME NEW S, IsFiniteSet(S), NEW f \in [S -> Int], NEW x \in S, NEW k \in Int
  PROVE  SumOf([f EXCEPT ![x] = @ + k], S) = SumOf(f, S) + k
<1> DEFINE g == [f EXCEPT ![x] = @ + k]
<1>1. g \in [S -> Int] /\ g[x] = f[x] + k /\ \A y \in S \ {x} : g[y] = f[y]
  OBVIOUS
<1> HIDE DEF g
<1>2. PICK R : R = S \ {x}
  OBVIOUS
<1>3. IsFiniteSet(R) /\ x \notin R /\ R \cup {x} = S
  BY <1>2, FS_RemoveElement
<1>4. SumOf(g, R) = SumOf(f, R)
  BY <1>1, <1>2, <1>3, SumSame
<1>5. SumOf(f, R) \in Int
  BY <1>2, <1>3, SumInt
<1>6. Splits(f, S, x)
  BY SumRemove
<1>7. Splits(g, S, x)
  BY <1>1, SumRemove
<1>8. SumOf(f, S) = f[x] + SumOf(f, R) /\ SumOf(g, S) = g[x] + SumOf(g, R)
  BY <1>2, <1>6, <1>7 DEF Splits
<1>9. f[x] \in Int
  OBVIOUS
<1>10. PICK u, r \in Int : u = f[x] /\ r = SumOf(f, R)
  BY <1>5, <1>9
<1>11. SumOf(f, S) = u + r /\ SumOf(g, S) = (u + k) + r
  BY <1>1, <1>4, <1>8, <1>10
<1>12. SumOf(g, S) = SumOf(f, S) + k
  BY <1>10, <1>11
<1> QED BY <1>12 DEF g

LEMMA SimTotal ==
  ASSUME NEW f, NEW S
  PROVE  Sim!Total(f, S) = SumOf(f, S)
BY DEF Sim!Total, Sim!FoldFunctionOnSet, Sim!MapThenFoldSet, SumOf, MapThenSumSet, MapThenFoldSet

(* Entries among orders. *)

Asked(q) == {i \in DOMAIN q : q[i].action \in Sim!Entries}
LEMMA AskingIs ==
  ASSUME NEW q \in Seq(Ask)
  PROVE  /\ Sim!Asking(q) = Cardinality(Asked(q)) /\ IsFiniteSet(Asked(q))
         /\ Sim!Asking(q) \in Nat
<1>1. PICK n \in Nat : n = Len(q) /\ DOMAIN q = 1 .. n
  BY LenProperties
<1>2. IsFiniteSet(1 .. n)
  BY FS_Interval
<1>3. IsFiniteSet(Asked(q))
  <2>1. Asked(q) \subseteq 1 .. n
    BY <1>1 DEF Asked
  <2> QED BY <1>2, <2>1, FS_Subset
<1>4. Sim!Asking(q) = Cardinality(Asked(q))
  BY DEF Sim!Asking, Asked, Sim!Cardinality, Cardinality, Sim!IsFiniteSet, IsFiniteSet
<1>5. Cardinality(Asked(q)) \in Nat
  BY <1>3, FS_CardinalityType
<1> QED BY <1>3, <1>4, <1>5

LEMMA AskingNone == Sim!Asking(<<>>) = 0
<1>1. Asked(<<>>) = {} /\ <<>> \in Seq(Ask)
  BY DEF Asked
<1> QED BY <1>1, AskingIs, FS_EmptySet

LEMMA AskingMore ==
  ASSUME NEW q \in Seq(Ask), NEW o \in Ask
  PROVE  Sim!Asking(Append(q, o)) = Sim!Asking(q) + (IF o.action \in Sim!Entries THEN 1 ELSE 0)
<1>1. PICK n \in Nat : n = Len(q) /\ DOMAIN q = 1 .. n
  BY LenProperties
<1>2. /\ Append(q, o) \in Seq(Ask) /\ DOMAIN Append(q, o) = 1 .. n + 1
      /\ \A i \in 1 .. n : Append(q, o)[i] = q[i] /\ Append(q, o)[n + 1] = o
  BY <1>1
<1>3. Append(q, o)[n + 1] = o
  BY <1>1
<1>4. CASE o.action \in Sim!Entries
  <2>1. Asked(Append(q, o)) = Asked(q) \cup {n + 1} /\ n + 1 \notin Asked(q)
    BY <1>1, <1>2, <1>3, <1>4 DEF Asked
  <2>2. Cardinality(Asked(q) \cup {n + 1}) = Cardinality(Asked(q)) + 1
    BY <2>1, AskingIs, FS_AddElement
  <2> QED BY <1>2, <1>4, <2>1, <2>2, AskingIs
<1>5. CASE o.action \notin Sim!Entries
  <2>1. Asked(Append(q, o)) = Asked(q)
    BY <1>1, <1>2, <1>3, <1>5 DEF Asked
  <2>2. PICK u \in Nat : u = Sim!Asking(q) /\ u = Sim!Asking(Append(q, o))
    BY <1>2, <2>1, AskingIs
  <2> QED BY <1>5, <2>2
<1> QED BY <1>4, <1>5

LEMMA Rest ==
  ASSUME NEW S, NEW q \in Seq(S), q # <<>>
  PROVE  /\ Head(q) \in S /\ Tail(q) \in Seq(S) /\ Len(q) - 1 \in Nat /\ Head(q) = q[1]
         /\ DOMAIN Tail(q) = 1 .. Len(q) - 1 /\ DOMAIN q = 1 .. Len(q) /\ 1 \in DOMAIN q
         /\ \A i \in 1 .. Len(q) - 1 : Tail(q)[i] = q[i + 1] /\ i + 1 \in DOMAIN q
OBVIOUS

LEMMA AskingRest ==
  ASSUME NEW q \in Seq(Ask), q # <<>>
  PROVE  Sim!Asking(q) = Sim!Asking(Tail(q)) + (IF Head(q).action \in Sim!Entries THEN 1 ELSE 0)
<1>1. PICK n \in Nat : n = Len(q) - 1 /\ DOMAIN q = 1 .. n + 1 /\ DOMAIN Tail(q) = 1 .. n
  <2>1. Len(q) - 1 \in Nat /\ Len(q) = (Len(q) - 1) + 1
    BY Rest
  <2> QED BY <2>1, Rest
<1>2. /\ Tail(q) \in Seq(Ask) /\ Head(q) = q[1]
      /\ \A i \in 1 .. n : Tail(q)[i] = q[i + 1]
  BY <1>1, Rest
<1> DEFINE R == Asked(q) \ {1}
<1>3. ExistsBijection(Asked(Tail(q)), R)
  <2> DEFINE f == [i \in Asked(Tail(q)) |-> i + 1]
  <2>1. \A i \in Asked(Tail(q)) : i \in 1 .. n /\ i + 1 \in R
    BY <1>1, <1>2 DEF Asked
  <2>2. \A i \in R : i - 1 \in Asked(Tail(q)) /\ i = (i - 1) + 1
    <3> SUFFICES ASSUME NEW i \in R PROVE i - 1 \in Asked(Tail(q)) /\ i = (i - 1) + 1
      OBVIOUS
    <3>1. i \in 1 .. n + 1 /\ i # 1 /\ q[i].action \in Sim!Entries
      BY <1>1 DEF Asked
    <3>2. i - 1 \in 1 .. n /\ i = (i - 1) + 1
      BY <3>1
    <3>3. Tail(q)[i - 1] = q[i]
      BY <1>2, <3>2
    <3> QED BY <1>1, <3>1, <3>2, <3>3 DEF Asked
  <2>3. f \in Injection(Asked(Tail(q)), R)
    BY <2>1 DEF Injection, IsInjective
  <2>4. f \in Surjection(Asked(Tail(q)), R)
    BY <2>1, <2>2 DEF Surjection
  <2> QED BY <2>3, <2>4 DEF ExistsBijection, Bijection
<1>4. Cardinality(R) = Cardinality(Asked(Tail(q))) /\ IsFiniteSet(Asked(Tail(q)))
  BY <1>2, <1>3, AskingIs, FS_Bijection
<1>5. CASE Head(q).action \in Sim!Entries
  <2>1. 1 \in Asked(q)
    BY <1>1, <1>2, <1>5 DEF Asked
  <2>2. Cardinality(R) = Cardinality(Asked(q)) - 1
    BY <2>1, AskingIs, FS_RemoveElement
  <2>3. PICK u, v \in Nat : u = Cardinality(Asked(q)) /\ v = Cardinality(R)
    BY <1>2, <1>4, AskingIs, FS_CardinalityType
  <2>4. u = v + 1
    BY <2>2, <2>3
  <2> QED BY <1>2, <1>4, <1>5, <2>3, <2>4, AskingIs
<1>6. CASE Head(q).action \notin Sim!Entries
  <2>1. R = Asked(q)
    BY <1>2, <1>6 DEF Asked
  <2>2. PICK u \in Nat : u = Sim!Asking(q) /\ u = Sim!Asking(Tail(q))
    BY <1>2, <1>4, <2>1, AskingIs
  <2> QED BY <1>6, <2>2
<1> QED BY <1>5, <1>6

(* The simulators: exits and entries. *)

In(pos) == {s \in Sim!Symbols : pos[s] # Sim!Flat}
Places == [Sim!Symbols -> {Sim!Flat} \cup Lot]

LEMMA LotIs ==
  ASSUME NEW pos \in Places, NEW s \in In(pos)
  PROVE  pos[s] \in Lot /\ s \in Sim!Symbols
BY DEF Places, In

LEMMA NotFlat == \A p \in Lot : p # Sim!Flat
<1> SUFFICES ASSUME NEW p \in Lot, p = Sim!Flat PROVE FALSE
  OBVIOUS
<1>1. p.qty # 0
  BY DEF Lot
<1>2. p.qty = 0
  BY DEF Sim!Flat
<1> QED BY <1>1, <1>2

LEMMA PnlInt == \A d \in Trip : Sim!pnl(d) \in Int
<1> SUFFICES ASSUME NEW d \in Trip PROVE Sim!pnl(d) \in Int
  OBVIOUS
<1>1. PICK from, to, qty, fee \in Int : from = d.entry /\ to = d.exit /\ qty = d.qty /\ fee = Fee
  BY SimConstants DEF Trip
<1>2. PICK move \in Int : move = to - from
  OBVIOUS
<1>3. PICK won \in Int : won = move * qty
  OBVIOUS
<1>4. Sim!pnl(d) = won - 2 * fee
  BY <1>1, <1>2, <1>3 DEF Sim!pnl
<1> QED BY <1>4

LEMMA WonMore ==
  ASSUME NEW q \in Seq(Trip), NEW c \in Trip
  PROVE  /\ Append(q, c) \in Seq(Trip) /\ Won(q) \in Int /\ Sim!pnl(c) \in Int
         /\ Won(Append(q, c)) = Won(q) + Sim!pnl(c)
<1>1. PICK n \in Nat : n = Len(q) /\ DOMAIN q = 1 .. n
  BY LenProperties
<1>2. /\ Append(q, c) \in Seq(Trip) /\ DOMAIN Append(q, c) = 1 .. n + 1
      /\ \A i \in 1 .. n : Append(q, c)[i] = q[i]
  BY <1>1
<1>3. Append(q, c)[n + 1] = c
  BY <1>1
<1>4. \A d \in Trip : Sim!pnl(d) \in Int
  BY PnlInt
<1> DEFINE f == [i \in 1 .. n + 1 |-> Sim!pnl(Append(q, c)[i])]
           g == [i \in 1 .. n |-> Sim!pnl(q[i])]
<1>5. \A i \in 1 .. n + 1 : Append(q, c)[i] \in Trip
  BY <1>2
<1>6. \A i \in 1 .. n + 1 : f[i] \in Int
  BY <1>4, <1>5
<1>7. f[n + 1] = Sim!pnl(c)
  <2>1. n + 1 \in 1 .. n + 1
    OBVIOUS
  <2>2. f[n + 1] = Sim!pnl(Append(q, c)[n + 1])
    BY <2>1
  <2> QED BY <1>3, <2>2
<1>8. \A i \in 1 .. n : f[i] = g[i]
  BY <1>2
<1>9. Won(q) = SumOf(g, 1 .. n) /\ Won(Append(q, c)) = SumOf(f, 1 .. n + 1)
  BY <1>1, <1>2 DEF Won
<1> HIDE DEF f, g
<1>10. PICK S, x : S = 1 .. n /\ x = n + 1
  OBVIOUS
<1>11. IsFiniteSet(S) /\ x \notin S /\ S \cup {x} = 1 .. n + 1
  <2>1. IsFiniteSet(1 .. n)
    BY FS_Interval
  <2> QED BY <1>10, <2>1
<1>12. SumOf(f, S \cup {x}) = f[x] + SumOf(f, S)
  BY <1>6, <1>11, SumAdd
<1>13. SumOf(f, S) = SumOf(g, S)
  BY <1>8, <1>10, <1>11, SumSame
<1>14. SumOf(f, S) \in Int
  BY <1>6, <1>11, SumInt
<1>15. PICK u, v \in Int : u = SumOf(g, S) /\ v = Sim!pnl(c)
  BY <1>4, <1>13, <1>14
<1>16. f[x] = v /\ SumOf(f, S) = u /\ Won(q) = u
  BY <1>7, <1>9, <1>10, <1>13, <1>15
<1>17. Won(Append(q, c)) = v + u
  BY <1>9, <1>11, <1>12, <1>16
<1> QED BY <1>2, <1>15, <1>16, <1>17

Cost(pos, s) == pos[s].qty * pos[s].avg + Fee
LEMMA CostInt ==
  ASSUME NEW pos \in Places, NEW s \in In(pos)
  PROVE  Cost(pos, s) \in Int
<1>1. pos[s].qty \in Int /\ pos[s].avg \in Int
  BY LotIs DEF Lot
<1> QED BY <1>1, SimConstants DEF Cost

LEMMA TiedIs ==
  ASSUME NEW pos \in Places
  PROVE  /\ IsFiniteSet(In(pos)) /\ In(pos) \subseteq Sim!Symbols
         /\ \A f : (\A s \in In(pos) : f[s] = Cost(pos, s)) => Tied(pos) = SumOf(f, In(pos))
         /\ Tied(pos) \in Int
<1>1. In(pos) \subseteq Sim!Symbols
  BY DEF In
<1>2. IsFiniteSet(In(pos))
  BY <1>1, SimFinite
<1> DEFINE g == [s \in In(pos) |-> Cost(pos, s)]
<1>3. Tied(pos) = SumOf(g, In(pos))
  BY DEF Tied, In, Cost
<1>4. \A s \in In(pos) : g[s] = Cost(pos, s) /\ g[s] \in Int
  BY CostInt
<1> HIDE DEF g
<1>5. SumOf(g, In(pos)) \in Int
  BY <1>2, <1>4, SumInt
<1>6. ASSUME NEW f, \A s \in In(pos) : f[s] = Cost(pos, s) PROVE Tied(pos) = SumOf(f, In(pos))
  <2>1. \A s \in In(pos) : g[s] = f[s]
    BY <1>4, <1>6
  <2>2. SumOf(g, In(pos)) = SumOf(f, In(pos))
    BY <1>2, <2>1, SumSame
  <2> QED BY <1>3, <2>2
<1> QED BY <1>1, <1>2, <1>3, <1>5, <1>6

LEMMA TiedMore ==
  ASSUME NEW pos \in Places, NEW s \in Sim!Symbols, s \notin In(pos), NEW p \in Lot
  PROVE  /\ [pos EXCEPT ![s] = p] \in Places
         /\ In([pos EXCEPT ![s] = p]) = In(pos) \cup {s}
         /\ Tied([pos EXCEPT ![s] = p]) = Tied(pos) + (p.qty * p.avg + Fee)
<1> DEFINE new == [pos EXCEPT ![s] = p]
<1>1. new \in Places /\ new[s] = p /\ \A u \in Sim!Symbols \ {s} : new[u] = pos[u]
  BY DEF Places
<1> HIDE DEF new
<1>2. In(new) = In(pos) \cup {s}
  BY <1>1, NotFlat DEF In
<1> DEFINE f == [u \in Sim!Symbols |-> Cost(new, u)]
<1>3. \A u \in In(new) : f[u] = Cost(new, u) /\ f[u] \in Int
  BY <1>1, CostInt DEF In
<1>4. \A u \in In(pos) : f[u] = Cost(pos, u)
  BY <1>1 DEF In, Cost
<1>5. f[s] = p.qty * p.avg + Fee
  BY <1>1 DEF Cost
<1> HIDE DEF f
<1>6. Tied(new) = SumOf(f, In(new))
  BY <1>1, <1>3, TiedIs
<1>7. Tied(pos) = SumOf(f, In(pos)) /\ Tied(pos) \in Int /\ IsFiniteSet(In(pos))
  BY <1>4, TiedIs
<1>8. SumOf(f, In(pos) \cup {s}) = f[s] + SumOf(f, In(pos))
  BY <1>2, <1>3, <1>7, SumAdd
<1>9. f[s] \in Int
  BY <1>2, <1>3
<1>10. PICK u, v \in Int : u = f[s] /\ v = Tied(pos)
  BY <1>7, <1>9
<1>11. Tied(new) = v + u
  BY <1>2, <1>6, <1>7, <1>8, <1>10
<1> QED BY <1>1, <1>2, <1>5, <1>10, <1>11 DEF new

LEMMA TiedLess ==
  ASSUME NEW pos \in Places, NEW s \in In(pos)
  PROVE  /\ [pos EXCEPT ![s] = Sim!Flat] \in Places
         /\ In([pos EXCEPT ![s] = Sim!Flat]) = In(pos) \ {s}
         /\ Tied(pos) = Tied([pos EXCEPT ![s] = Sim!Flat]) + (pos[s].qty * pos[s].avg + Fee)
<1> DEFINE new == [pos EXCEPT ![s] = Sim!Flat]
<1>1. new \in Places /\ new[s] = Sim!Flat /\ \A u \in Sim!Symbols \ {s} : new[u] = pos[u]
  BY DEF Places, In
<1> HIDE DEF new
<1>2. In(new) = In(pos) \ {s} /\ s \in Sim!Symbols
  BY <1>1 DEF In
<1>3. s \notin In(new) /\ pos[s] \in Lot
  BY <1>2, LotIs
<1>4. pos = [new EXCEPT ![s] = pos[s]]
  <2>1. pos = [u \in Sim!Symbols |-> pos[u]] /\ new = [u \in Sim!Symbols |-> new[u]]
    BY <1>1 DEF Places
  <2> QED BY <1>1, <2>1
<1>5. PICK p \in Lot : p = pos[s]
  BY <1>3
<1>6. Tied([new EXCEPT ![s] = p]) = Tied(new) + (p.qty * p.avg + Fee)
  BY <1>1, <1>2, <1>3, TiedMore
<1> QED BY <1>1, <1>2, <1>4, <1>5, <1>6 DEF new

\* The cost of a position is not in its stop.
LEMMA TiedKept ==
  ASSUME NEW pos \in Places, NEW s \in In(pos), NEW p \in Lot, p.qty = pos[s].qty, p.avg = pos[s].avg
  PROVE  /\ [pos EXCEPT ![s] = p] \in Places /\ In([pos EXCEPT ![s] = p]) = In(pos)
         /\ Tied([pos EXCEPT ![s] = p]) = Tied(pos)
<1> DEFINE new == [pos EXCEPT ![s] = p]
<1>1. /\ new \in Places /\ new[s] = p /\ \A u \in Sim!Symbols \ {s} : new[u] = pos[u]
      /\ s \in Sim!Symbols
  BY DEF Places, In
<1> HIDE DEF new
<1>2. In(new) = In(pos)
  BY <1>1, NotFlat DEF In
<1> DEFINE f == [u \in Sim!Symbols |-> Cost(new, u)]
<1>3. \A u \in In(new) : f[u] = Cost(new, u)
  BY DEF In
<1>4. \A u \in In(pos) : f[u] = Cost(pos, u)
  BY <1>1 DEF In, Cost
<1> HIDE DEF f
<1>5. Tied(new) = SumOf(f, In(new)) /\ Tied(pos) = SumOf(f, In(pos))
  BY <1>1, <1>3, <1>4, TiedIs
<1> QED BY <1>1, <1>2, <1>5 DEF new

(* The simulators: what an operation does to a book. *)

\* No trade ended at a stop raised on the bar it ended in; no stop was raised
\* after bar n, nor on it for the symbols of S.
Honest(b) == \A i \in DOMAIN b.closed : b.closed[i].reason = "stop_loss" => b.closed[i].raised < b.closed[i].to
Raised(pos, S, n) == \A s \in In(pos) : pos[s].raised <= n /\ (s \in S => pos[s].raised < n)

\* What the two simulators share.
Alike(a, b) ==
  /\ a.cash = b.cash /\ a.pos = b.pos /\ a.pending = b.pending /\ a.fills = b.fills
  /\ a.last_exit = b.last_exit /\ a.closed = b.closed /\ a.queued = b.queued /\ a.paid = b.paid
\* What an operation leaves alone that moves neither cash nor shares.
Rested(a, b) ==
  /\ a.cash = b.cash /\ a.pos = b.pos /\ a.last_exit = b.last_exit /\ a.closed = b.closed
  /\ a.paid = b.paid

LEMMA BookIs ==
  ASSUME NEW b \in Books
  PROVE  /\ b.cash \in Int /\ b.pos \in Places /\ b.pending \in Seq(Ask) /\ b.fills \in Nat
         /\ b.last_exit \in [Sim!Symbols -> [Sim!Owners -> Nat]] /\ b.closed \in Seq(Trip)
         /\ b.signals \in Nat /\ b.executed \in Nat /\ b.blocked \in [Sim!Reasons -> Nat]
         /\ b.paid \in Int /\ b.queued \in [Sim!Owners -> Nat]
         /\ Sim!HeldIn(b) = In(b.pos)
BY DEF Books, Places, Sim!HeldIn, In

LEMMA RestedSame ==
  ASSUME NEW a \in Books, NEW b \in Books, Rested(a, b)
  PROVE  (Balanced(b) => Balanced(a)) /\ (Honest(b) => Honest(a))
BY DEF Rested, Balanced, Honest

LEMMA AlikeSame ==
  ASSUME NEW a \in Books, NEW b \in Books, Alike(a, b)
  PROVE  (Balanced(b) => Balanced(a)) /\ (Honest(b) => Honest(a))
BY DEF Alike, Balanced, Honest

LEMMA HonestMore ==
  ASSUME NEW a, NEW b \in Books, Honest(b), NEW c \in Trip, a.closed = Append(b.closed, c),
         c.reason = "stop_loss" => c.raised < c.to
  PROVE  Honest(a)
<1>1. PICK n \in Nat : n = Len(b.closed) /\ DOMAIN b.closed = 1 .. n
  BY BookIs, LenProperties
<1>2. /\ DOMAIN a.closed = 1 .. n + 1 /\ \A i \in 1 .. n : a.closed[i] = b.closed[i]
      /\ a.closed[n + 1] = c
  BY <1>1, BookIs
<1> QED BY <1>1, <1>2 DEF Honest

LEMMA ExitIs ==
  ASSUME NEW b \in Books, NEW s \in In(b.pos), NEW price \in Int, NEW reason \in Endings, t \in Nat
  PROVE  /\ Sim!_exit(b, s, price, reason) \in Books
         /\ Sim!_exit(b, s, price, reason).pos = [b.pos EXCEPT ![s] = Sim!Flat]
         /\ Sim!_exit(b, s, price, reason).pending = b.pending
         /\ Due(Sim!_exit(b, s, price, reason)) = Due(b)
         /\ Balanced(b) => Balanced(Sim!_exit(b, s, price, reason))
         /\ Honest(b) /\ (reason = "stop_loss" => b.pos[s].raised < t) =>
              Honest(Sim!_exit(b, s, price, reason))
<1>1. PICK p \in Lot : p = b.pos[s] /\ s \in Sim!Symbols
  BY BookIs, LotIs
<1>2. PICK fill \in Int : fill = IF p.qty < 0 THEN price + Slip ELSE price - Slip
  <2>1. price + Slip \in Int /\ price - Slip \in Int
    BY SimConstants
  <2> QED BY <2>1
<1> DEFINE trip == [symbol |-> s, owner |-> p.owner, qty |-> p.qty, from |-> p.at, entry |-> p.avg,
                    to |-> t, exit |-> fill, reason |-> reason, raised |-> p.raised]
           c == Sim!_exit(b, s, price, reason)
<1>3. c = [b EXCEPT !.cash = @ + p.qty * fill - Fee, !.pos[s] = Sim!Flat, !.last_exit[s][p.owner] = t,
                    !.closed = Append(@, trip)]
  BY <1>1, <1>2 DEF Sim!_exit
<1> HIDE DEF c
<1>4. trip \in Trip
  BY <1>1, <1>2 DEF Lot, Trip
<1>5. /\ trip.reason = reason /\ trip.raised = p.raised /\ trip.to = t /\ trip.exit = fill
      /\ trip.entry = p.avg /\ trip.qty = p.qty
  OBVIOUS
<1> HIDE DEF trip
<1>6. /\ c.cash = b.cash + p.qty * fill - Fee /\ c.pos = [b.pos EXCEPT ![s] = Sim!Flat]
      /\ c.pending = b.pending /\ c.fills = b.fills /\ c.closed = Append(b.closed, trip)
      /\ c.signals = b.signals /\ c.executed = b.executed /\ c.blocked = b.blocked
      /\ c.paid = b.paid /\ c.queued = b.queued
      /\ c.last_exit = [b.last_exit EXCEPT ![s][p.owner] = t]
  BY <1>3 DEF Books
<1>7. c.pos \in Places /\ Tied(b.pos) = Tied(c.pos) + (p.qty * p.avg + Fee)
  <2>1. b.pos \in Places
    BY BookIs
  <2>2. /\ [b.pos EXCEPT ![s] = Sim!Flat] \in Places
        /\ Tied(b.pos) = Tied([b.pos EXCEPT ![s] = Sim!Flat]) + (b.pos[s].qty * b.pos[s].avg + Fee)
    BY <2>1, TiedLess
  <2> QED BY <1>1, <1>6, <2>2
<1>8. c.closed \in Seq(Trip) /\ Won(c.closed) = Won(b.closed) + Sim!pnl(trip) /\ Won(b.closed) \in Int
  BY <1>4, <1>6, BookIs, WonMore
<1>9. p.qty \in Int /\ p.avg \in Int /\ p.owner \in Sim!Owners
  BY <1>1 DEF Lot
<1>10. PICK x, y \in Int : x = p.qty * fill /\ y = p.qty * p.avg
  BY <1>2, <1>9
<1>11. c.cash \in Int
  <2>1. PICK m, e \in Int : m = b.cash /\ e = Fee
    BY BookIs, SimConstants
  <2>2. c.cash = m + x - e
    BY <1>6, <1>10, <2>1
  <2> QED BY <1>10, <2>1, <2>2
<1>12. c.last_exit \in [Sim!Symbols -> [Sim!Owners -> Nat]]
  BY <1>1, <1>6, <1>9, BookIs
<1>13. c \in Books
  <2>1. c = [cash |-> c.cash, pos |-> c.pos, pending |-> c.pending, fills |-> c.fills,
             last_exit |-> c.last_exit, closed |-> c.closed, signals |-> c.signals,
             executed |-> c.executed, blocked |-> c.blocked, paid |-> c.paid, queued |-> c.queued]
    BY <1>3 DEF Books
  <2>2. /\ c.pending \in Seq(Ask) /\ c.fills \in Nat /\ c.signals \in Nat /\ c.executed \in Nat
        /\ c.blocked \in [Sim!Reasons -> Nat] /\ c.paid \in Int /\ c.queued \in [Sim!Owners -> Nat]
    BY <1>6, BookIs
  <2> QED BY <1>7, <1>8, <1>11, <1>12, <2>1, <2>2 DEF Books, Places
<1>14. Due(c) = Due(b)
  BY <1>6 DEF Due
<1>15. ASSUME Balanced(b) PROVE Balanced(c)
  <2>1. Sim!pnl(trip) = (fill - p.avg) * p.qty - 2 * Fee
    BY <1>5 DEF Sim!pnl
  <2>2. (fill - p.avg) * p.qty = p.qty * fill - p.qty * p.avg
    BY <1>2, <1>9
  <2>3. PICK w, u, v, e, m, d \in Int : /\ w = Won(b.closed) /\ u = Tied(b.pos) /\ v = Tied(c.pos)
                                    /\ e = Fee /\ m = b.cash /\ d = StartCash - b.paid
    <3>1. Tied(b.pos) \in Int /\ Tied(c.pos) \in Int
      BY <1>7, BookIs, TiedIs
    <3>2. StartCash - b.paid \in Int
      BY SimConstants, BookIs
    <3> QED BY <1>8, <3>1, <3>2, SimConstants, BookIs
  <2>4. u = v + (y + e) /\ Won(c.closed) = w + (x - y - 2 * e) /\ c.cash = m + x - e
    BY <1>6, <1>7, <1>8, <1>10, <2>1, <2>2, <2>3
  <2>5. m = d + w - u
    BY <1>15, <2>3 DEF Balanced
  <2>6. c.cash = d + Won(c.closed) - v
    BY <1>10, <2>3, <2>4, <2>5
  <2> QED BY <1>6, <2>3, <2>6 DEF Balanced
<1>16. ASSUME Honest(b), reason = "stop_loss" => b.pos[s].raised < t PROVE Honest(c)
  BY <1>1, <1>4, <1>5, <1>6, <1>16, HonestMore
<1> QED BY <1>6, <1>13, <1>14, <1>15, <1>16 DEF c

LEMMA ExitTwin ==
  ASSUME NEW a \in Books, NEW b \in Books, Alike(a, b), NEW s \in In(b.pos), NEW price, NEW reason
  PROVE  Alike(Sim!_exit(a, s, price, reason), Sim!_exit(b, s, price, reason))
BY DEF Alike, Sim!_exit, Books

(* The simulators: the orders at the open. *)

LEMMA BlockIs ==
  ASSUME NEW b \in Books, NEW r \in Sim!Reasons
  PROVE  /\ Sim!Block(b, r) \in Books /\ Due(Sim!Block(b, r)) = Due(b) - 1
         /\ Alike(Sim!Block(b, r), b) /\ Rested(Sim!Block(b, r), b)
<1> DEFINE c == Sim!Block(b, r)
<1>1. c = [b EXCEPT !.blocked[r] = @ + 1]
  BY DEF Sim!Block
<1> HIDE DEF c
<1>2. c \in Books
  <2>1. c = [b EXCEPT !.blocked = [b.blocked EXCEPT ![r] = @ + 1]]
    BY <1>1
  <2>2. [b.blocked EXCEPT ![r] = @ + 1] \in [Sim!Reasons -> Nat]
    BY BookIs
  <2> QED BY <2>1, <2>2 DEF Books
<1>3. Alike(c, b) /\ Rested(c, b)
  BY <1>1 DEF Alike, Rested, Books
<1>4. /\ c.signals = b.signals /\ c.executed = b.executed /\ c.pending = b.pending
      /\ c.blocked = [b.blocked EXCEPT ![r] = @ + 1]
  BY <1>1 DEF Books
<1>5. b.blocked \in [Sim!Reasons -> Int]
  BY BookIs
<1>6. SumOf(c.blocked, Sim!Reasons) = SumOf(b.blocked, Sim!Reasons) + 1
  BY <1>4, <1>5, SimFinite, SumBump
<1>7. SumOf(b.blocked, Sim!Reasons) \in Int /\ Sim!Asking(b.pending) \in Nat
  BY <1>5, SimFinite, SumInt, AskingIs, BookIs
<1>8. PICK u, v, x, y \in Int : /\ u = SumOf(b.blocked, Sim!Reasons) /\ v = Sim!Asking(b.pending)
                                /\ x = b.signals /\ y = b.executed
  BY <1>7, BookIs
<1>9. Due(c) = x - (y + (u + 1) + v) /\ Due(b) = x - (y + u + v)
  BY <1>4, <1>6, <1>8 DEF Due
<1>10. Due(c) = Due(b) - 1
  BY <1>8, <1>9
<1> QED BY <1>2, <1>3, <1>10 DEF c

LEMMA Filled ==
  ASSUME NEW b \in Books
  PROVE  /\ [b EXCEPT !.fills = @ + 1] \in Books /\ Due([b EXCEPT !.fills = @ + 1]) = Due(b)
         /\ Rested([b EXCEPT !.fills = @ + 1], b) /\ [b EXCEPT !.fills = @ + 1].pending = b.pending
<1> DEFINE c == [b EXCEPT !.fills = @ + 1]
<1>1. c \in Books
  <2>1. b.fills + 1 \in Nat
    BY BookIs
  <2> QED BY <2>1 DEF Books
<1>2. Rested(c, b) /\ c.pending = b.pending
  BY DEF Rested, Books
<1>3. c.signals = b.signals /\ c.executed = b.executed /\ c.blocked = b.blocked
  BY DEF Books
<1> HIDE DEF c
<1>4. Due(c) = Due(b)
  BY <1>2, <1>3 DEF Due
<1> QED BY <1>1, <1>2, <1>4 DEF c

LEMMA OpenIs ==
  ASSUME NEW b \in Books, NEW o \in Ask, o.symbol \notin In(b.pos), NEW qty \in Sizes, t \in Nat,
         today[o.symbol] \in DayBars
  PROVE  /\ Sim!Open(b, o, qty) \in Books /\ Due(Sim!Open(b, o, qty)) = Due(b) - 1
         /\ Sim!Open(b, o, qty).pending = b.pending
         /\ \E p \in Lot : p.raised = 0 /\ Sim!Open(b, o, qty).pos = [b.pos EXCEPT ![o.symbol] = p]
         /\ Balanced(b) => Balanced(Sim!Open(b, o, qty))
         /\ Honest(b) => Honest(Sim!Open(b, o, qty))
<1>1. PICK dir \in {-1, 1} : dir = IF o.action = "short" THEN -1 ELSE 1
  OBVIOUS
<1>2. today[o.symbol].open \in Int
  BY SimConstants
<1>3. PICK fill \in Int : fill = today[o.symbol].open + dir * Slip
  <2>1. dir * Slip \in Int
    BY SimConstants
  <2> QED BY <1>2, <2>1
<1>4. PICK stop \in Int : stop = fill - dir * Width
  <2>1. dir * Width \in Int
    BY SimConstants
  <2> QED BY <2>1
<1> DEFINE p == [qty |-> dir * qty, avg |-> fill, at |-> t, owner |-> o.owner, hw |-> fill,
                 stop |-> IF stop > 0 THEN stop ELSE 0, raised |-> 0,
                 tp |-> IF Reach = 0 \/ stop <= 0 THEN 0 ELSE fill + dir * Reach]
           c == Sim!Open(b, o, qty)
<1>5. c = [b EXCEPT !.cash = @ - (dir * qty * fill + Fee), !.fills = @ + 1, !.executed = @ + 1,
                    !.pos[o.symbol] = p]
  BY <1>1, <1>3, <1>4 DEF Sim!Open
<1> HIDE DEF c
<1>6. qty \in Nat \ {0}
  BY SimConstants
<1>7. dir * qty \in Int \ {0}
  BY <1>1, <1>6
<1>8. fill + dir * Reach \in Int
  BY <1>1, SimConstants
<1>9. p \in Lot
  BY <1>4, <1>7, <1>8 DEF Lot, Ask
<1>10. p.raised = 0 /\ p.qty = dir * qty /\ p.avg = fill
  OBVIOUS
<1> HIDE DEF p
<1>11. /\ c.cash = b.cash - (p.qty * p.avg + Fee) /\ c.pos = [b.pos EXCEPT ![o.symbol] = p]
       /\ c.pending = b.pending /\ c.fills = b.fills + 1 /\ c.last_exit = b.last_exit
       /\ c.closed = b.closed /\ c.signals = b.signals /\ c.executed = b.executed + 1
       /\ c.blocked = b.blocked /\ c.paid = b.paid /\ c.queued = b.queued
  BY <1>5, <1>10 DEF Books
<1>12. o.symbol \in Sim!Symbols
  BY DEF Ask
<1>13. c.pos \in Places /\ Tied(c.pos) = Tied(b.pos) + (p.qty * p.avg + Fee) /\ Tied(b.pos) \in Int
  <2>1. b.pos \in Places
    BY BookIs
  <2>2. /\ [b.pos EXCEPT ![o.symbol] = p] \in Places
        /\ Tied([b.pos EXCEPT ![o.symbol] = p]) = Tied(b.pos) + (p.qty * p.avg + Fee)
    BY <1>9, <1>12, <2>1, TiedMore
  <2> QED BY <1>11, <2>1, <2>2, TiedIs
<1>14. PICK x, e, m, u \in Int : /\ x = p.qty * p.avg /\ e = Fee /\ m = b.cash /\ u = Tied(b.pos)
  <2>1. p.qty \in Int /\ p.avg \in Int
    BY <1>9 DEF Lot
  <2>2. p.qty * p.avg \in Int
    BY <2>1
  <2> QED BY <1>13, <2>2, SimConstants, BookIs
<1>15. c.cash = m - (x + e) /\ Tied(c.pos) = u + (x + e)
  BY <1>11, <1>13, <1>14
<1>16. c \in Books
  <2>1. c = [cash |-> c.cash, pos |-> c.pos, pending |-> c.pending, fills |-> c.fills,
             last_exit |-> c.last_exit, closed |-> c.closed, signals |-> c.signals,
             executed |-> c.executed, blocked |-> c.blocked, paid |-> c.paid, queued |-> c.queued]
    BY <1>5 DEF Books
  <2>2. /\ c.pending \in Seq(Ask) /\ c.signals \in Nat /\ c.closed \in Seq(Trip)
        /\ c.blocked \in [Sim!Reasons -> Nat] /\ c.paid \in Int /\ c.queued \in [Sim!Owners -> Nat]
        /\ c.last_exit \in [Sim!Symbols -> [Sim!Owners -> Nat]]
    BY <1>11, BookIs
  <2>3. c.fills \in Nat /\ c.executed \in Nat
    BY <1>11, BookIs
  <2>4. c.cash \in Int
    BY <1>14, <1>15
  <2> QED BY <1>13, <2>1, <2>2, <2>3, <2>4 DEF Books, Places
<1>17. Due(c) = Due(b) - 1
  <2>1. SumOf(b.blocked, Sim!Reasons) \in Int /\ Sim!Asking(b.pending) \in Nat
    BY SimFinite, SumInt, AskingIs, BookIs
  <2>2. PICK z, v, g, y \in Int : /\ z = SumOf(b.blocked, Sim!Reasons) /\ v = Sim!Asking(b.pending)
                                  /\ g = b.signals /\ y = b.executed
    BY <2>1, BookIs
  <2>3. Due(c) = g - ((y + 1) + z + v) /\ Due(b) = g - (y + z + v)
    BY <1>11, <2>2 DEF Due
  <2> QED BY <2>2, <2>3
<1>18. ASSUME Balanced(b) PROVE Balanced(c)
  <2>1. PICK d, w \in Int : d = StartCash - b.paid /\ w = Won(b.closed)
    <3>1. Won(b.closed) \in Int
      <4>1. \A q \in Seq(Trip) : Won(q) \in Int
        <5> SUFFICES ASSUME NEW q \in Seq(Trip) PROVE Won(q) \in Int
          OBVIOUS
        <5> DEFINE f == [i \in DOMAIN q |-> Sim!pnl(q[i])]
        <5>1. PICK n \in Nat : n = Len(q) /\ DOMAIN q = 1 .. n
          BY LenProperties
        <5>5. \A d \in Trip : Sim!pnl(d) \in Int
          BY PnlInt
        <5>2. \A i \in 1 .. n : f[i] \in Int
          BY <5>1, <5>5
        <5>3. IsFiniteSet(1 .. n)
          BY FS_Interval
        <5>4. Won(q) = SumOf(f, 1 .. n)
          BY <5>1 DEF Won
        <5> HIDE DEF f
        <5> QED BY <5>2, <5>3, <5>4, SumInt
      <4> QED BY <4>1, BookIs
    <3>2. StartCash - b.paid \in Int
      BY SimConstants, BookIs
    <3> QED BY <3>1, <3>2
  <2>2. m = d + w - u
    BY <1>14, <1>18, <2>1 DEF Balanced
  <2>3. c.cash = d + w - Tied(c.pos)
    BY <1>14, <1>15, <2>1, <2>2
  <2> QED BY <1>11, <2>1, <2>3 DEF Balanced
<1>19. ASSUME Honest(b) PROVE Honest(c)
  BY <1>11, <1>19 DEF Honest
<1> QED BY <1>9, <1>10, <1>11, <1>16, <1>17, <1>18, <1>19 DEF c

LEMMA OpenTwin ==
  ASSUME NEW a \in Books, NEW b \in Books, Alike(a, b), NEW o \in Ask, NEW qty
  PROVE  Alike(Sim!Open(a, o, qty), Sim!Open(b, o, qty))
<1> DEFINE c == Sim!Open(a, o, qty)
           d == Sim!Open(b, o, qty)
<1>1. /\ c.pending = d.pending /\ c.last_exit = d.last_exit /\ c.closed = d.closed
      /\ c.queued = d.queued /\ c.paid = d.paid
  <2>1. \A x \in Books : LET y == Sim!Open(x, o, qty) IN
          /\ y.pending = x.pending /\ y.last_exit = x.last_exit /\ y.closed = x.closed
          /\ y.queued = x.queued /\ y.paid = x.paid
    BY DEF Sim!Open, Books
  <2> HIDE DEF c, d
  <2>2. /\ c.pending = a.pending /\ c.last_exit = a.last_exit /\ c.closed = a.closed
        /\ c.queued = a.queued /\ c.paid = a.paid
    BY <2>1 DEF c
  <2>3. /\ d.pending = b.pending /\ d.last_exit = b.last_exit /\ d.closed = b.closed
        /\ d.queued = b.queued /\ d.paid = b.paid
    BY <2>1 DEF d
  <2> QED BY <2>2, <2>3 DEF Alike
<1>2. c.fills = d.fills
  BY DEF Alike, Sim!Open, Books
<1>3. c.cash = d.cash
  BY DEF Alike, Sim!Open, Books
<1>4. c.pos = d.pos
  <2> DEFINE dir == IF o.action = "short" THEN -1 ELSE 1
             fill == today[o.symbol].open + dir * Slip
             stop == fill - dir * Width
             L == [qty |-> dir * qty, avg |-> fill, at |-> t, owner |-> o.owner, hw |-> fill,
                   stop |-> IF stop > 0 THEN stop ELSE 0, raised |-> 0,
                   tp |-> IF Reach = 0 \/ stop <= 0 THEN 0 ELSE fill + dir * Reach]
  <2>1. \A x \in Books : Sim!Open(x, o, qty).pos = [x.pos EXCEPT ![o.symbol] = L]
    BY DEF Sim!Open, Books
  <2> HIDE DEF c, d, L
  <2>2. c.pos = [a.pos EXCEPT ![o.symbol] = L] /\ d.pos = [b.pos EXCEPT ![o.symbol] = L]
    BY <2>1 DEF c, d
  <2> QED BY <2>2 DEF Alike
<1> HIDE DEF c, d
<1>5. Alike(c, d)
  BY <1>1, <1>2, <1>3, <1>4 DEF Alike
<1> QED BY <1>5 DEF c, d

LEMMA RaisedOpen ==
  ASSUME NEW pos \in Places, NEW s \in Sim!Symbols, NEW p \in Lot, p.raised = 0, NEW n \in Nat \ {0},
         NEW S, Raised(pos, S, n)
  PROVE  Raised([pos EXCEPT ![s] = p], S, n)
BY DEF Raised, In, Places

LEMMA RaisedLess ==
  ASSUME NEW pos \in Places, NEW s \in Sim!Symbols, NEW n, NEW S, Raised(pos, S, n)
  PROVE  Raised([pos EXCEPT ![s] = Sim!Flat], S, n)
BY DEF Raised, In, Places

LEMMA FillIs ==
  ASSUME NEW b \in Books, NEW o \in Ask, NEW qty \in Sizes, NEW rail, t \in Nat \ {0},
         today[o.symbol] \in DayBars
  PROVE  /\ Sim!Fill(b, o, qty, rail) \in Books /\ Sim!Fill(b, o, qty, rail).pending = b.pending
         /\ Due(Sim!Fill(b, o, qty, rail)) = Due(b) - (IF o.action \in Sim!Entries THEN 1 ELSE 0)
         /\ Balanced(b) => Balanced(Sim!Fill(b, o, qty, rail))
         /\ Honest(b) => Honest(Sim!Fill(b, o, qty, rail))
         /\ Raised(b.pos, Sim!Symbols, t) => Raised(Sim!Fill(b, o, qty, rail).pos, Sim!Symbols, t)
         /\ In(Sim!Fill(b, o, qty, rail).pos) \subseteq In(b.pos) \cup {o.symbol}
<1> DEFINE c == Sim!Fill(b, o, qty, rail)
<1>0. o.symbol \in Sim!Symbols /\ b.pos \in Places /\ Sim!HeldIn(b) = In(b.pos) /\ t \in Nat
  BY BookIs DEF Ask
<1>d. PICK due \in Int : due = Due(b)
  <2>1. SumOf(b.blocked, Sim!Reasons) \in Int /\ Sim!Asking(b.pending) \in Nat
    BY SimFinite, SumInt, AskingIs, BookIs
  <2> QED BY <2>1, BookIs DEF Due
<1>1. ASSUME NEW r \in Sim!Reasons, c = Sim!Block(b, r), o.action \in Sim!Entries
      PROVE  /\ c \in Books /\ c.pending = b.pending /\ Due(c) = due - 1
             /\ Balanced(b) => Balanced(c)
             /\ Honest(b) => Honest(c)
             /\ c.pos = b.pos
  <2>1. c \in Books /\ Due(c) = due - 1 /\ Alike(c, b) /\ Rested(c, b)
    BY <1>1, <1>d, BlockIs
  <2> HIDE DEF c
  <2> QED BY <2>1, AlikeSame DEF Alike
<1>2. CASE o.action \in Sim!Entries /\ b.fills >= Cap
  <2>1. c = Sim!Block(b, "daily_cap") /\ "daily_cap" \in Sim!Reasons
    BY <1>2 DEF Sim!Fill, Sim!Reasons
  <2>2. /\ c \in Books /\ c.pending = b.pending /\ Due(c) = due - 1 /\ c.pos = b.pos
        /\ Balanced(b) => Balanced(c)
        /\ Honest(b) => Honest(c)
    BY <1>1, <1>2, <2>1
  <2> HIDE DEF c
  <2> QED BY <1>2, <1>d, <2>2 DEF c
<1>3. CASE o.action \in Sim!Entries /\ ~ (b.fills >= Cap) /\ o.symbol \in In(b.pos)
  <2>1. c = Sim!Block(b, "already_held") /\ "already_held" \in Sim!Reasons
    BY <1>0, <1>3 DEF Sim!Fill, Sim!Reasons
  <2>2. /\ c \in Books /\ c.pending = b.pending /\ Due(c) = due - 1 /\ c.pos = b.pos
        /\ Balanced(b) => Balanced(c)
        /\ Honest(b) => Honest(c)
    BY <1>1, <1>3, <2>1
  <2> HIDE DEF c
  <2> QED BY <1>3, <1>d, <2>2 DEF c
<1>4. CASE o.action \in Sim!Entries /\ ~ (b.fills >= Cap) /\ o.symbol \notin In(b.pos) /\ rail \in Rails
  <2>1. c = Sim!Block(b, rail) /\ rail \in Sim!Reasons
    BY <1>0, <1>4 DEF Sim!Fill, Sim!Reasons
  <2>2. /\ c \in Books /\ c.pending = b.pending /\ Due(c) = due - 1 /\ c.pos = b.pos
        /\ Balanced(b) => Balanced(c)
        /\ Honest(b) => Honest(c)
    BY <1>1, <1>4, <2>1
  <2> HIDE DEF c
  <2> QED BY <1>4, <1>d, <2>2 DEF c
<1>5. CASE o.action \in Sim!Entries /\ ~ (b.fills >= Cap) /\ o.symbol \notin In(b.pos) /\ rail \notin Rails
  <2>1. c = Sim!Open(b, o, qty)
    BY <1>0, <1>5 DEF Sim!Fill
  <2> HIDE DEF c
  <2>2. /\ c \in Books /\ Due(c) = due - 1 /\ c.pending = b.pending
        /\ \E p \in Lot : p.raised = 0 /\ c.pos = [b.pos EXCEPT ![o.symbol] = p]
        /\ Balanced(b) => Balanced(c) 
        /\ Honest(b) => Honest(c)
    BY <1>0, <1>5, <1>d, <2>1, OpenIs
  <2>3. PICK p \in Lot : p.raised = 0 /\ c.pos = [b.pos EXCEPT ![o.symbol] = p]
    BY <2>2
  <2>4. Raised(b.pos, Sim!Symbols, t) => Raised(c.pos, Sim!Symbols, t)
    BY <1>0, <2>3, RaisedOpen
  <2>5. In(c.pos) \subseteq In(b.pos) \cup {o.symbol}
    BY <1>0, <1>5, <2>3, TiedMore
  <2> QED BY <1>5, <1>d, <2>2, <2>4, <2>5 DEF c
<1>6. CASE o.action \notin Sim!Entries /\ o.symbol \in In(b.pos)
  <2> DEFINE e == Sim!_exit(b, o.symbol, today[o.symbol].open, "strategy_sell")
  <2>1. c = [e EXCEPT !.fills = @ + 1]
    BY <1>0, <1>6 DEF Sim!Fill
  <2> HIDE DEF c
  <2>2. today[o.symbol].open \in Int /\ "strategy_sell" \in Endings /\ "strategy_sell" # "stop_loss"
    BY SimConstants DEF Endings
  <2>3. /\ e \in Books /\ e.pos = [b.pos EXCEPT ![o.symbol] = Sim!Flat] /\ e.pending = b.pending
        /\ Due(e) = Due(b) 
        /\ Balanced(b) => Balanced(e) 
        /\ Honest(b) => Honest(e)
    BY <1>0, <1>6, <2>2, ExitIs
  <2> HIDE DEF e
  <2>4. c \in Books /\ Due(c) = Due(e) /\ Rested(c, e) /\ c.pending = e.pending
    BY <2>1, <2>3, Filled
  <2>5. (Balanced(b) => Balanced(c)) /\ (Honest(b) => Honest(c)) /\ c.pos = e.pos
    BY <2>3, <2>4, RestedSame DEF Rested
  <2>6. Raised(b.pos, Sim!Symbols, t) => Raised(c.pos, Sim!Symbols, t)
    <3>1. Raised(b.pos, Sim!Symbols, t) => Raised([b.pos EXCEPT ![o.symbol] = Sim!Flat], Sim!Symbols, t)
      BY <1>0, RaisedLess
    <3> QED BY <2>3, <2>5, <3>1
  <2>7. In(c.pos) \subseteq In(b.pos) \cup {o.symbol}
    BY <1>0, <1>6, <2>3, <2>5, TiedLess
  <2> QED BY <1>6, <1>d, <2>3, <2>4, <2>5, <2>6, <2>7 DEF c
<1>7. CASE o.action \notin Sim!Entries /\ o.symbol \notin In(b.pos)
  <2>1. c = b
    BY <1>0, <1>7 DEF Sim!Fill
  <2> HIDE DEF c
  <2> QED BY <1>7, <1>d, <2>1 DEF c
<1> QED BY <1>2, <1>3, <1>4, <1>5, <1>6, <1>7

\* Where an order goes long and is not held yet, the simulators fill it alike.
LEMMA FillTwin ==
  ASSUME NEW a \in Books, NEW b \in Books, Alike(a, b), NEW o \in Ask, NEW qty \in Sizes, NEW rail,
         t \in Nat \ {0}, today[o.symbol] \in DayBars,
         o.action # "short", o.action = "buy" => o.symbol \notin In(b.pos)
  PROVE  /\ Sim!FillSolo(a, o, qty, rail) \in Books
         /\ Alike(Sim!FillSolo(a, o, qty, rail), Sim!Fill(b, o, qty, rail))
<1>0. /\ o.symbol \in Sim!Symbols /\ a.pos \in Places /\ t \in Nat /\ a.pos = b.pos /\ a.fills = b.fills
      /\ Sim!HeldIn(a) = In(a.pos) /\ Sim!HeldIn(b) = In(b.pos)
      /\ (o.action \in Sim!Entries <=> o.action = "buy")
  BY BookIs DEF Ask, Alike, Sim!Entries
<1> DEFINE c == Sim!FillSolo(a, o, qty, rail)
           d == Sim!Fill(b, o, qty, rail)
<1>1. CASE o.action = "buy" /\ (b.fills >= Cap \/ rail \in Rails)
  <2>1. PICK r \in Sim!Reasons : d = Sim!Block(b, r)
    BY <1>0, <1>1 DEF Sim!Fill, Sim!Reasons
  <2>2. c = a
    BY <1>0, <1>1 DEF Sim!FillSolo
  <2>3. Alike(d, b)
    BY <2>1, BlockIs
  <2> HIDE DEF c, d
  <2>4. Alike(c, d)
    BY <2>2, <2>3 DEF Alike
  <2> QED BY <2>2, <2>4 DEF c, d
<1>2. CASE o.action = "buy" /\ ~ (b.fills >= Cap \/ rail \in Rails)
  <2>1. c = Sim!Open(a, o, qty) /\ d = Sim!Open(b, o, qty)
    BY <1>0, <1>2 DEF Sim!Fill, Sim!FillSolo
  <2> HIDE DEF c, d
  <2>2. c \in Books
    BY <1>0, <1>2, <2>1, OpenIs
  <2>3. Alike(c, d)
    BY <2>1, OpenTwin
  <2> QED BY <2>2, <2>3 DEF c, d
<1>3. CASE o.action # "buy" /\ o.symbol \in In(b.pos)
  <2> DEFINE e(x) == Sim!_exit(x, o.symbol, today[o.symbol].open, "strategy_sell")
  <2>1. c = [e(a) EXCEPT !.fills = @ + 1] /\ d = [e(b) EXCEPT !.fills = @ + 1]
    BY <1>0, <1>3 DEF Sim!Fill, Sim!FillSolo
  <2>2. today[o.symbol].open \in Int /\ "strategy_sell" \in Endings
    BY SimConstants DEF Endings
  <2>3. e(a) \in Books /\ e(b) \in Books
    BY <1>0, <1>3, <2>2, ExitIs
  <2>4. Alike(e(a), e(b))
    BY <1>3, ExitTwin
  <2>5. PICK x, y \in Books : x = e(a) /\ y = e(b)
    BY <2>3
  <2> HIDE DEF c, d, e
  <2>6. c \in Books
    BY <2>1, <2>3, Filled
  <2>7. Alike([x EXCEPT !.fills = @ + 1], [y EXCEPT !.fills = @ + 1])
    BY <2>4, <2>5 DEF Alike, Books
  <2>8. Alike(c, d)
    BY <2>1, <2>5, <2>7
  <2> QED BY <2>6, <2>8 DEF c, d
<1>4. CASE o.action # "buy" /\ o.symbol \notin In(b.pos)
  BY <1>0, <1>4 DEF Sim!Fill, Sim!FillSolo
<1> QED BY <1>1, <1>2, <1>3, <1>4

(* The simulators: the legs. *)

LEMMA TrailIs ==
  ASSUME NEW p \in Lot, NEW bar \in DayBars, t \in Nat
  PROVE  /\ Sim!trail(p, bar) \in Lot /\ Sim!trail(p, bar).qty = p.qty /\ Sim!trail(p, bar).avg = p.avg
         /\ Sim!trail(p, bar).raised = p.raised \/ Sim!trail(p, bar).raised = t
<1>1. bar.high \in Int /\ p.hw \in Int
  BY SimConstants DEF Lot
<1>2. PICK hw \in Int : hw = Sim!Max({p.hw, bar.high})
  <2>1. Sim!Max({p.hw, bar.high}) = Strat!Max({p.hw, bar.high})
    BY DEF Sim!Max, Strat!Max
  <2>2. Strat!Max({p.hw, bar.high}) \in Int
    BY <1>1, MaxOfTwo
  <2> QED BY <2>1, <2>2
<1>3. hw - Trail \in Int
  BY SimConstants
<1>4. \/ Sim!trail(p, bar) = [p EXCEPT !.hw = hw, !.stop = hw - Trail, !.raised = t]
      \/ Sim!trail(p, bar) = [p EXCEPT !.hw = hw]
      \/ Sim!trail(p, bar) = [p EXCEPT !.hw = p.hw]
  BY <1>2 DEF Sim!trail, Lot
<1>5. CASE Sim!trail(p, bar) = [p EXCEPT !.hw = hw, !.stop = hw - Trail, !.raised = t]
  <2>1. PICK k, n \in Int : k = hw - Trail /\ n = t
    BY <1>3
  <2>2. Sim!trail(p, bar) = [p EXCEPT !.hw = hw, !.stop = k, !.raised = n]
    BY <1>5, <2>1
  <2>3. [p EXCEPT !.hw = hw, !.stop = k, !.raised = n] \in Lot
    BY DEF Lot
  <2> QED BY <2>1, <2>2, <2>3 DEF Lot
<1>6. CASE \/ Sim!trail(p, bar) = [p EXCEPT !.hw = hw]
           \/ Sim!trail(p, bar) = [p EXCEPT !.hw = p.hw]
  <2>1. PICK k \in Int : Sim!trail(p, bar) = [p EXCEPT !.hw = k]
    BY <1>1, <1>6
  <2> QED BY <2>1 DEF Lot
<1> QED BY <1>4, <1>5, <1>6

LEMMA LegsIs ==
  ASSUME NEW b \in Books, NEW s \in Sim!Symbols, today[s] \in DayBars, t \in Nat, NEW S, s \in S
  PROVE  /\ Sim!Legs(b, s) \in Books /\ Sim!Legs(b, s).pending = b.pending
         /\ Due(Sim!Legs(b, s)) = Due(b)
         /\ Balanced(b) => Balanced(Sim!Legs(b, s))
         /\ Honest(b) /\ Raised(b.pos, S, t) => Honest(Sim!Legs(b, s))
         /\ Raised(b.pos, S, t) => Raised(Sim!Legs(b, s).pos, S \ {s}, t)
         /\ In(Sim!Legs(b, s).pos) \subseteq In(b.pos)
<1> DEFINE c == Sim!Legs(b, s)
<1>0. b.pos \in Places /\ Sim!HeldIn(b) = In(b.pos)
  BY BookIs
<1>1. CASE s \notin In(b.pos)
  <2>1. c = b
    BY <1>0, <1>1 DEF Sim!Legs
  <2>2. Raised(b.pos, S, t) => Raised(b.pos, S \ {s}, t)
    BY DEF Raised
  <2> HIDE DEF c
  <2> QED BY <2>1, <2>2 DEF c
<1>2. ASSUME s \in In(b.pos), NEW price \in Int, NEW reason \in Endings, c = Sim!_exit(b, s, price, reason)
      PROVE  /\ c \in Books /\ c.pending = b.pending /\ Due(c) = Due(b)
             /\ Balanced(b) => Balanced(c)
             /\ Honest(b) /\ Raised(b.pos, S, t) => Honest(c)
             /\ Raised(b.pos, S, t) => Raised(c.pos, S \ {s}, t)
             /\ In(c.pos) \subseteq In(b.pos)
  <2> HIDE DEF c
  <2>1. /\ c \in Books /\ c.pos = [b.pos EXCEPT ![s] = Sim!Flat] /\ c.pending = b.pending
        /\ Due(c) = Due(b)
        /\ Balanced(b) => Balanced(c)
        /\ Honest(b) /\ (reason = "stop_loss" => b.pos[s].raised < t) => Honest(c)
    BY <1>2, ExitIs
  <2>2. Raised(b.pos, S, t) => b.pos[s].raised < t
    BY <1>2 DEF Raised
  <2>3. Raised(b.pos, S, t) => Raised([b.pos EXCEPT ![s] = Sim!Flat], S, t)
    BY <1>0, RaisedLess
  <2>4. Raised(b.pos, S, t) => Raised(c.pos, S \ {s}, t)
    BY <2>1, <2>3 DEF Raised
  <2>5. In(c.pos) \subseteq In(b.pos)
    BY <1>0, <1>2, <2>1, TiedLess
  <2> QED BY <2>1, <2>2, <2>4, <2>5
<1>3. CASE s \in In(b.pos)
  <2>1. PICK p \in Lot : p = b.pos[s]
    BY <1>0, <1>3, LotIs
  <2>2. p.stop \in Int /\ p.tp \in Int
    BY DEF Lot
  <2>3. CASE Sim!StopHit(p, today[s])
    <3>1. c = Sim!_exit(b, s, p.stop, "stop_loss") /\ "stop_loss" \in Endings
      BY <1>0, <1>3, <2>1, <2>3 DEF Sim!Legs, Endings
    <3> HIDE DEF c
    <3> QED BY <1>2, <1>3, <2>2, <3>1 DEF c
  <2>4. CASE ~ Sim!StopHit(p, today[s]) /\ Sim!TpHit(p, today[s])
    <3>1. c = Sim!_exit(b, s, p.tp, "take_profit") /\ "take_profit" \in Endings
      BY <1>0, <1>3, <2>1, <2>4 DEF Sim!Legs, Endings
    <3> HIDE DEF c
    <3> QED BY <1>2, <1>3, <2>2, <3>1 DEF c
  <2>5. CASE ~ Sim!StopHit(p, today[s]) /\ ~ Sim!TpHit(p, today[s])
    <3>1. c = [b EXCEPT !.pos[s] = Sim!trail(p, today[s])]
      BY <1>0, <1>3, <2>1, <2>5 DEF Sim!Legs
    <3>2. PICK q \in Lot : /\ q = Sim!trail(p, today[s]) /\ q.qty = p.qty /\ q.avg = p.avg
                           /\ q.raised = p.raised \/ q.raised = t
      BY TrailIs
    <3> HIDE DEF c
    <3>3. c.pos = [b.pos EXCEPT ![s] = q] /\ c.cash = b.cash /\ c.pending = b.pending
          /\ c.closed = b.closed /\ c.signals = b.signals /\ c.executed = b.executed
          /\ c.blocked = b.blocked /\ c.paid = b.paid
      BY <3>1, <3>2 DEF Books
    <3>4. c.pos \in Places /\ In(c.pos) = In(b.pos) /\ Tied(c.pos) = Tied(b.pos)
      BY <1>0, <1>3, <2>1, <3>2, <3>3, TiedKept
    <3>5. c \in Books
      <4>1. c = [b EXCEPT !.pos = c.pos]
        BY <3>1, <3>3 DEF Books
      <4> QED BY <3>4, <4>1 DEF Books, Places
    <3>6. Due(c) = Due(b)
      BY <3>3 DEF Due
    <3>7. Balanced(b) => Balanced(c)
      BY <3>3, <3>4 DEF Balanced
    <3>8. Honest(b) => Honest(c)
      BY <3>3 DEF Honest
    <3>9. Raised(b.pos, S, t) => Raised(c.pos, S \ {s}, t)
      <4> SUFFICES ASSUME Raised(b.pos, S, t), NEW u \in In(c.pos)
                   PROVE  c.pos[u].raised <= t /\ (u \in S \ {s} => c.pos[u].raised < t)
        BY DEF Raised
      <4>1. u \in In(b.pos) /\ u \in Sim!Symbols
        BY <3>4 DEF In
      <4>2. CASE u = s
        <5>1. c.pos[u] = q
          BY <1>0, <3>3, <4>1, <4>2 DEF Places
        <5>2. p.raised <= t
          BY <1>3, <2>1 DEF Raised
        <5> QED BY <3>2, <4>2, <5>1, <5>2
      <4>3. CASE u # s
        <5>1. c.pos[u] = b.pos[u]
          BY <1>0, <3>3, <4>1, <4>3 DEF Places
        <5> QED BY <4>1, <4>3, <5>1 DEF Raised
      <4> QED BY <4>2, <4>3
    <3> QED BY <3>3, <3>4, <3>5, <3>6, <3>7, <3>8, <3>9 DEF c
  <2> QED BY <2>3, <2>4, <2>5
<1> QED BY <1>1, <1>3

LEMMA LegsTwin ==
  ASSUME NEW a \in Books, NEW b \in Books, Alike(a, b), NEW s \in Sim!Symbols
  PROVE  Alike(Sim!Legs(a, s), Sim!Legs(b, s))
<1>1. a.pos = b.pos /\ Sim!HeldIn(a) = In(a.pos) /\ Sim!HeldIn(b) = In(b.pos)
  BY BookIs DEF Alike
<1> DEFINE p == b.pos[s]
<1>2. CASE s \notin In(b.pos)
  BY <1>1, <1>2 DEF Sim!Legs
<1>3. CASE s \in In(b.pos) /\ Sim!StopHit(p, today[s])
  <2>1. /\ Sim!Legs(a, s) = Sim!_exit(a, s, p.stop, "stop_loss")
        /\ Sim!Legs(b, s) = Sim!_exit(b, s, p.stop, "stop_loss")
    BY <1>1, <1>3 DEF Sim!Legs
  <2> QED BY <1>3, <2>1, ExitTwin
<1>4. CASE s \in In(b.pos) /\ ~ Sim!StopHit(p, today[s]) /\ Sim!TpHit(p, today[s])
  <2>1. /\ Sim!Legs(a, s) = Sim!_exit(a, s, p.tp, "take_profit")
        /\ Sim!Legs(b, s) = Sim!_exit(b, s, p.tp, "take_profit")
    BY <1>1, <1>4 DEF Sim!Legs
  <2> QED BY <1>4, <2>1, ExitTwin
<1>5. CASE s \in In(b.pos) /\ ~ Sim!StopHit(p, today[s]) /\ ~ Sim!TpHit(p, today[s])
  <2>1. PICK q : q = Sim!trail(p, today[s])
    OBVIOUS
  <2>2. Sim!Legs(a, s) = [a EXCEPT !.pos[s] = q] /\ Sim!Legs(b, s) = [b EXCEPT !.pos[s] = q]
    BY <1>1, <1>5, <2>1 DEF Sim!Legs
  <2> QED BY <2>2 DEF Alike, Books
<1> QED BY <1>2, <1>3, <1>4, <1>5

(* The simulators: the close. *)

LEMMA QueueIs ==
  ASSUME NEW b \in Books, NEW s \in Sim!Symbols, NEW action \in {"buy", "short", "sell", "cover"},
         NEW n \in Sim!Owners
  PROVE  /\ Sim!Queue(b, s, action, n) \in Books /\ Rested(Sim!Queue(b, s, action, n), b)
         /\ [symbol |-> s, action |-> action, owner |-> n] \in Ask
         /\ Sim!Queue(b, s, action, n).pending =
              Append(b.pending, [symbol |-> s, action |-> action, owner |-> n])
         /\ Due(Sim!Queue(b, s, action, n)) = Due(b) - (IF action \in Sim!Entries THEN 1 ELSE 0)
<1> DEFINE o == [symbol |-> s, action |-> action, owner |-> n]
           c == Sim!Queue(b, s, action, n)
<1>1. PICK k \in {0, 1} : k = IF action \in Sim!Entries THEN 1 ELSE 0
  OBVIOUS
<1>2. o \in Ask
  BY DEF Ask
<1>3. c = [b EXCEPT !.pending = Append(@, o), !.queued[n] = @ + k]
  BY <1>1 DEF Sim!Queue
<1>4. o.action = action
  OBVIOUS
<1> HIDE DEF o, c
<1>5. c = [b EXCEPT !.pending = Append(b.pending, o), !.queued = [b.queued EXCEPT ![n] = @ + k]]
  BY <1>3
<1>6. Append(b.pending, o) \in Seq(Ask) /\ [b.queued EXCEPT ![n] = @ + k] \in [Sim!Owners -> Nat]
  BY <1>2, BookIs
<1>7. c \in Books
  BY <1>5, <1>6 DEF Books
<1>8. Rested(c, b) /\ c.pending = Append(b.pending, o) /\ c.signals = b.signals
      /\ c.executed = b.executed /\ c.blocked = b.blocked
  BY <1>5 DEF Rested, Books
<1>9. Sim!Asking(Append(b.pending, o)) = Sim!Asking(b.pending) + k
  BY <1>1, <1>2, <1>4, AskingMore, BookIs
<1>10. SumOf(b.blocked, Sim!Reasons) \in Int /\ Sim!Asking(b.pending) \in Nat
  BY SimFinite, SumInt, AskingIs, BookIs
<1>11. PICK z, v, g, y \in Int : /\ z = SumOf(b.blocked, Sim!Reasons) /\ v = Sim!Asking(b.pending)
                                /\ g = b.signals /\ y = b.executed
  BY <1>10, BookIs
<1>12. Due(c) = g - (y + z + (v + k)) /\ Due(b) = g - (y + z + v)
  BY <1>8, <1>9, <1>11 DEF Due
<1>13. Due(c) = Due(b) - k
  BY <1>11, <1>12
<1> QED BY <1>1, <1>2, <1>7, <1>8, <1>13 DEF c, o

LEMMA QueueTwin ==
  ASSUME NEW a \in Books, NEW b \in Books, Alike(a, b), NEW s, NEW action, NEW n
  PROVE  Alike(Sim!Queue(a, s, action, n), Sim!Queue(b, s, action, n))
BY DEF Alike, Sim!Queue, Books

LEMMA Signalled ==
  ASSUME NEW b \in Books
  PROVE  /\ [b EXCEPT !.signals = @ + 1] \in Books /\ Rested([b EXCEPT !.signals = @ + 1], b)
         /\ Alike([b EXCEPT !.signals = @ + 1], b) /\ Due([b EXCEPT !.signals = @ + 1]) = Due(b) + 1
         /\ Due(b) \in Int
<1> DEFINE c == [b EXCEPT !.signals = @ + 1]
<1>1. c \in Books
  <2>1. b.signals + 1 \in Nat
    BY BookIs
  <2> QED BY <2>1 DEF Books
<1>2. Rested(c, b) /\ Alike(c, b)
  BY DEF Rested, Alike, Books
<1>3. c.signals = b.signals + 1 /\ c.executed = b.executed /\ c.blocked = b.blocked /\ c.pending = b.pending
  BY DEF Books
<1> HIDE DEF c
<1>4. SumOf(b.blocked, Sim!Reasons) \in Int /\ Sim!Asking(b.pending) \in Nat
  BY SimFinite, SumInt, AskingIs, BookIs
<1>5. PICK z, v, g, y \in Int : /\ z = SumOf(b.blocked, Sim!Reasons) /\ v = Sim!Asking(b.pending)
                               /\ g = b.signals /\ y = b.executed
  BY <1>4, BookIs
<1>6. Due(c) = (g + 1) - (y + z + v) /\ Due(b) = g - (y + z + v)
  BY <1>3, <1>5 DEF Due
<1>7. Due(c) = Due(b) + 1 /\ Due(b) \in Int
  BY <1>5, <1>6
<1> QED BY <1>1, <1>2, <1>7 DEF c

QueuedAs(b, s, action, n) ==
  /\ Sim!Queue(b, s, action, n) \in Books /\ Rested(Sim!Queue(b, s, action, n), b)
  /\ [symbol |-> s, action |-> action, owner |-> n] \in Ask
  /\ Sim!Queue(b, s, action, n).pending =
       Append(b.pending, [symbol |-> s, action |-> action, owner |-> n])
  /\ Due(Sim!Queue(b, s, action, n)) = Due(b) - (IF action \in Sim!Entries THEN 1 ELSE 0)

LEMMA QueuedFine ==
  ASSUME NEW b \in Books, NEW s \in Sim!Symbols, NEW action \in {"buy", "short", "sell", "cover"},
         NEW n \in Sim!Owners
  PROVE  QueuedAs(b, s, action, n)
BY QueueIs DEF QueuedAs

LEMMA HoldingIs ==
  ASSUME NEW b \in Books, NEW s \in In(b.pos), NEW leave
  PROVE  /\ Sim!Holding(b, s, leave) \in Books /\ Rested(Sim!Holding(b, s, leave), b)
         /\ Due(Sim!Holding(b, s, leave)) = Due(b)
         /\ \/ Sim!Holding(b, s, leave) = b
            \/ \E o \in Ask : /\ o.symbol = s /\ o.action \in {"sell", "cover"}
                              /\ Sim!Holding(b, s, leave).pending = Append(b.pending, o)
<1>1. PICK p \in Lot : p = b.pos[s] /\ s \in Sim!Symbols
  BY BookIs, LotIs
<1> DEFINE c == Sim!Holding(b, s, leave)
<1>2. CASE leave /\ t - p.at >= MinDays
  <2>1. PICK action \in {"sell", "cover"} : action = IF p.qty < 0 THEN "cover" ELSE "sell"
    OBVIOUS
  <2>2. c = Sim!Queue(b, s, action, p.owner) /\ p.owner \in Sim!Owners
    BY <1>1, <1>2, <2>1 DEF Sim!Holding, Lot
  <2> HIDE DEF c
  <2> DEFINE o == [symbol |-> s, action |-> action, owner |-> p.owner]
  <2>3. /\ c \in Books /\ Rested(c, b) /\ o \in Ask /\ c.pending = Append(b.pending, o)
        /\ Due(c) = Due(b) - (IF action \in Sim!Entries THEN 1 ELSE 0)
    <3>1. PICK n \in Sim!Owners : n = p.owner /\ c = Sim!Queue(b, s, action, n)
      BY <2>2
    <3>2. action \in {"buy", "short", "sell", "cover"}
      BY <2>1
    <3>3. o = [symbol |-> s, action |-> action, owner |-> n]
      BY <3>1
    <3>4. s \in Sim!Symbols
      BY <1>1
    <3> HIDE DEF o
    <3>5. PICK e : e = Sim!Queue(b, s, action, n)
      OBVIOUS
    <3>6. /\ e \in Books /\ Rested(e, b)
          /\ [symbol |-> s, action |-> action, owner |-> n] \in Ask
          /\ e.pending = Append(b.pending, [symbol |-> s, action |-> action, owner |-> n])
          /\ Due(e) = Due(b) - (IF action \in Sim!Entries THEN 1 ELSE 0)
      <4>1. QueuedAs(b, s, action, n)
        BY <3>2, <3>4, QueuedFine
      <4> QED BY <3>5, <4>1 DEF QueuedAs
    <3>7. e = c
      BY <3>1, <3>5
    <3> QED BY <3>3, <3>6, <3>7
  <2>4. action \notin Sim!Entries
    BY <2>1 DEF Sim!Entries
  <2>5. Due(c) = Due(b)
    <3>1. PICK d \in Int : d = Due(b)
      BY Signalled
    <3> QED BY <2>3, <2>4, <3>1
  <2>6. o.symbol = s /\ o.action \in {"sell", "cover"}
    BY <2>1
  <2> HIDE DEF o
  <2> QED BY <2>3, <2>5, <2>6 DEF c
<1>3. CASE ~ (leave /\ t - p.at >= MinDays)
  <2>1. c = b
    BY <1>1, <1>3 DEF Sim!Holding
  <2> QED BY <2>1 DEF Rested
<1> QED BY <1>2, <1>3

LEMMA HoldingTwin ==
  ASSUME NEW a \in Books, NEW b \in Books, Alike(a, b), NEW s, NEW leave
  PROVE  Alike(Sim!Holding(a, s, leave), Sim!Holding(b, s, leave))
<1>1. a.pos = b.pos
  BY DEF Alike
<1> DEFINE action == IF b.pos[s].qty < 0 THEN "cover" ELSE "sell"
<1>2. CASE leave /\ t - b.pos[s].at >= MinDays
  <2>1. /\ Sim!Holding(a, s, leave) = Sim!Queue(a, s, action, b.pos[s].owner)
        /\ Sim!Holding(b, s, leave) = Sim!Queue(b, s, action, b.pos[s].owner)
    BY <1>1, <1>2 DEF Sim!Holding
  <2> QED BY <2>1, QueueTwin
<1>3. CASE ~ (leave /\ t - b.pos[s].at >= MinDays)
  BY <1>1, <1>3 DEF Sim!Holding
<1> QED BY <1>2, <1>3

\* A refusal has a reason of the census.
LEMMA RefusedIs ==
  ASSUME NEW b, NEW s, NEW n, NEW refuse \in Filters \cup {Sim!Fine}
  PROVE  Sim!Refused(b, s, n, refuse) = Sim!Fine \/ Sim!Refused(b, s, n, refuse) \in Sim!Reasons
BY DEF Sim!Refused, Sim!Reasons

Accs == [book : Books, over : BOOLEAN]
Wanted == {"hold", "buy", "short"}
LEMMA OfferIs ==
  ASSUME NEW acc \in Accs, NEW s \in Sim!Symbols, NEW n \in Sim!Owners, NEW want \in Wanted,
         NEW refuse \in Filters \cup {Sim!Fine}
  PROVE  /\ Sim!Offer(acc, s, n, want, refuse) \in Accs
         /\ Rested(Sim!Offer(acc, s, n, want, refuse).book, acc.book)
         /\ Due(Sim!Offer(acc, s, n, want, refuse).book) = Due(acc.book)
<1>1. PICK a \in Books : a = acc.book
  BY DEF Accs
<1>2. PICK b \in Books : b = [a EXCEPT !.signals = @ + 1] /\ Rested(b, a) /\ Due(b) = Due(a) + 1
                         /\ Due(a) \in Int
  BY Signalled
<1> DEFINE d == Sim!Offer(acc, s, n, want, refuse)
           why == Sim!Refused(b, s, n, refuse)
<1>3. CASE acc.over \/ want \notin Sim!Entries
  <2>1. d = acc
    BY <1>3 DEF Sim!Offer
  <2> QED BY <2>1 DEF Rested
<1>4. CASE ~ (acc.over \/ want \notin Sim!Entries) /\ why = Sim!Fine
  <2>1. d = [book |-> Sim!Queue(b, s, want, n), over |-> TRUE]
    BY <1>1, <1>2, <1>4 DEF Sim!Offer
  <2>2. want \in {"buy", "short", "sell", "cover"} /\ want \in Sim!Entries
    BY <1>4 DEF Sim!Entries
  <2>3. PICK c \in Books : c = Sim!Queue(b, s, want, n) /\ Rested(c, b) /\ Due(c) = Due(b) - 1
    <3>1. /\ Sim!Queue(b, s, want, n) \in Books /\ Rested(Sim!Queue(b, s, want, n), b)
          /\ Due(Sim!Queue(b, s, want, n)) = Due(b) - (IF want \in Sim!Entries THEN 1 ELSE 0)
      BY <2>2, QueueIs
    <3>2. Due(Sim!Queue(b, s, want, n)) = Due(b) - 1
      BY <2>2, <3>1
    <3> QED BY <3>1, <3>2
  <2>4. d \in Accs /\ d.book = c
    BY <2>1, <2>3 DEF Accs
  <2> HIDE DEF d
  <2>5. Rested(c, a)
    BY <1>2, <2>3 DEF Rested
  <2>6. Due(c) = Due(a)
    <3>1. PICK x \in Int : x = Due(a)
      BY <1>2
    <3> QED BY <1>2, <2>3, <3>1
  <2> QED BY <1>1, <2>4, <2>5, <2>6 DEF d
<1>5. CASE ~ (acc.over \/ want \notin Sim!Entries) /\ why # Sim!Fine
  <2>1. PICK o \in BOOLEAN : d = [book |-> Sim!Block(b, why), over |-> o]
    <3>1. (why \in Sim!Market) \in BOOLEAN
      OBVIOUS
    <3>2. d = [book |-> Sim!Block(b, why), over |-> why \in Sim!Market]
      BY <1>1, <1>2, <1>5 DEF Sim!Offer
    <3> HIDE DEF d
    <3> QED BY <3>1, <3>2
  <2>2. why \in Sim!Reasons
    BY <1>5, RefusedIs
  <2> HIDE DEF why
  <2>3. PICK c \in Books : c = Sim!Block(b, why) /\ Rested(c, b) /\ Due(c) = Due(b) - 1
    BY <2>2, BlockIs
  <2>4. d \in Accs /\ d.book = c
    <3> HIDE DEF d
    <3> QED BY <2>1, <2>3 DEF Accs
  <2> HIDE DEF d
  <2>5. Rested(c, a)
    BY <1>2, <2>3 DEF Rested
  <2>6. Due(c) = Due(a)
    <3>1. PICK x \in Int : x = Due(a)
      BY <1>2
    <3> QED BY <1>2, <2>3, <3>1
  <2> QED BY <1>1, <2>4, <2>5, <2>6 DEF d
<1> QED BY <1>3, <1>4, <1>5

\* The turns of the strategies at a close, the last of them what Close leaves.
Turns(f, b, s, wants, refuse) ==
  /\ DOMAIN f = 0 .. Len(Ensemble) /\ f[0] = [book |-> b, over |-> FALSE]
  /\ \A i \in 1 .. Len(Ensemble) :
       f[i] = Sim!Offer(f[i - 1], s, Ensemble[i], wants[Ensemble[i]], refuse)

LEMMA TurnsIs ==
  ASSUME NEW b \in Books, NEW s \in Sim!Symbols, s \notin In(b.pos), NEW leave,
         NEW wants \in [Sim!Owners -> Wanted], NEW refuse \in Filters \cup {Sim!Fine}
  PROVE  \E f : Turns(f, b, s, wants, refuse) /\ Sim!Close(b, s, leave, wants, refuse) = f[Len(Ensemble)].book
<1>0. PICK n \in Nat : n = Len(Ensemble) /\ \A i \in 1 .. n : Ensemble[i] \in Sim!Owners
  <2>1. Len(Ensemble) \in Nat
    BY SimConstants
  <2> QED BY <2>1, SimConstants
<1> DEFINE off(acc, i) == Sim!Offer(acc, s, Ensemble[i], wants[Ensemble[i]], refuse)
           P(f) == f = [i \in 0 .. Len(Ensemble) |->
                          IF i = 0 THEN [book |-> b, over |-> FALSE]
                          ELSE Sim!Offer(f[i - 1], s, Ensemble[i], wants[Ensemble[i]], refuse)]
           turn == CHOOSE f : P(f)
           a == [book |-> b, over |-> FALSE]
           step == [p \in Accs \X (1 .. n) |-> off(p[1], p[2])]
<1>1. a \in Accs
  BY DEF Accs
<1>2. \A acc \in Accs : \A i \in 1 .. n : off(acc, i) \in Accs
  <2> SUFFICES ASSUME NEW acc \in Accs, NEW i \in 1 .. n PROVE off(acc, i) \in Accs
    OBVIOUS
  <2>1. Ensemble[i] \in Sim!Owners /\ wants[Ensemble[i]] \in Wanted
    BY <1>0
  <2> QED BY <2>1, OfferIs
<1>3. step \in [Accs \X (1 .. n) -> Accs]
  <2> HIDE DEF off
  <2> QED BY <1>2
<1>4. \A acc \in Accs : \A i \in 1 .. n : step[<<acc, i>>] = off(acc, i)
  <2> HIDE DEF off
  <2> QED OBVIOUS
<1>5. PICK f \in [0 .. n -> Accs] : Unfolded(f, n, a, step)
  <2> HIDE DEF step, a
  <2> QED BY <1>1, <1>3, Unfolds
<1>6. P(f)
  <2>1. \A i \in 0 .. n : i # 0 => step[<<f[i - 1], i>>] = off(f[i - 1], i)
    <3> SUFFICES ASSUME NEW i \in 0 .. n, i # 0 PROVE step[<<f[i - 1], i>>] = off(f[i - 1], i)
      OBVIOUS
    <3>1. i - 1 \in 0 .. n /\ i \in 1 .. n
      OBVIOUS
    <3>2. f[i - 1] \in Accs
      BY <3>1
    <3> HIDE DEF step, off
    <3> QED BY <1>4, <3>1, <3>2
  <2>2. f = [i \in 0 .. n |-> IF i = 0 THEN a ELSE step[<<f[i - 1], i>>]]
    BY <1>5 DEF Unfolded
  <2>3. f = [i \in 0 .. n |-> IF i = 0 THEN a ELSE off(f[i - 1], i)]
    <3> HIDE DEF step, off, a
    <3> QED BY <2>1, <2>2
  <2> QED BY <1>0, <2>3
<1>7. P(turn)
  <2> HIDE DEF P
  <2> QED BY <1>6
<1>8. Sim!Close(b, s, leave, wants, refuse) = turn[Len(Ensemble)].book
  <2>1. s \notin Sim!HeldIn(b)
    BY BookIs
  <2> QED BY <2>1 DEF Sim!Close
<1> HIDE DEF turn
<1>9. Turns(turn, b, s, wants, refuse)
  <2>1. DOMAIN turn = 0 .. Len(Ensemble) /\ turn[0] = [book |-> b, over |-> FALSE]
    BY <1>0, <1>7
  <2>2. ASSUME NEW i \in 1 .. Len(Ensemble)
        PROVE  turn[i] = Sim!Offer(turn[i - 1], s, Ensemble[i], wants[Ensemble[i]], refuse)
    <3>1. i \in 0 .. Len(Ensemble) /\ i # 0
      BY <1>0
    <3> QED BY <1>7, <3>1
  <2> QED BY <2>1, <2>2 DEF Turns
<1> QED BY <1>8, <1>9

LEMMA CloseIs ==
  ASSUME NEW b \in Books, NEW s \in Sim!Symbols, NEW leave,
         NEW wants \in [Sim!Owners -> Wanted], NEW refuse \in Filters \cup {Sim!Fine}
  PROVE  /\ Sim!Close(b, s, leave, wants, refuse) \in Books
         /\ Rested(Sim!Close(b, s, leave, wants, refuse), b)
         /\ Due(Sim!Close(b, s, leave, wants, refuse)) = Due(b)
<1>1. CASE s \in In(b.pos)
  <2>1. Sim!Close(b, s, leave, wants, refuse) = Sim!Holding(b, s, leave)
    BY <1>1, BookIs DEF Sim!Close
  <2> QED BY <1>1, <2>1, HoldingIs
<1>2. CASE s \notin In(b.pos)
  <2>1. PICK f : Turns(f, b, s, wants, refuse) /\ Sim!Close(b, s, leave, wants, refuse) = f[Len(Ensemble)].book
    BY <1>2, TurnsIs
  <2>2. PICK n \in Nat : n = Len(Ensemble) /\ \A i \in 1 .. n : Ensemble[i] \in Sim!Owners
    <3>1. Len(Ensemble) \in Nat
      BY SimConstants
    <3> QED BY <3>1, SimConstants
  <2> DEFINE Good(i) == f[i] \in Accs /\ Rested(f[i].book, b) /\ Due(f[i].book) = Due(b)
             N == {i \in 0 .. n : ~ Good(i)}
  <2>3. N = {}
    <3> SUFFICES ASSUME N # {} PROVE FALSE
      OBVIOUS
    <3>0. N \in SUBSET Nat
      <4> HIDE DEF Good
      <4> QED OBVIOUS
    <3>1. PICK i \in N : \A j \in N : i <= j
      <4> HIDE DEF N
      <4> QED BY <3>0, LeastOf
    <3>2. CASE i = 0
      <4>1. f[0] = [book |-> b, over |-> FALSE]
        BY <2>1 DEF Turns
      <4>2. Good(0)
        BY <4>1 DEF Accs, Rested
      <4> HIDE DEF Good
      <4> QED BY <3>1, <3>2, <4>2
    <3>3. CASE i # 0
      <4>1. i \in 1 .. n /\ i - 1 \in 0 .. n /\ i - 1 \notin N
        <5> HIDE DEF Good
        <5> QED BY <3>1, <3>3
      <4>2. Good(i - 1)
        <5> HIDE DEF Good
        <5> QED BY <4>1
      <4>3. f[i] = Sim!Offer(f[i - 1], s, Ensemble[i], wants[Ensemble[i]], refuse)
        BY <2>1, <2>2, <4>1 DEF Turns
      <4>4. PICK acc \in Accs : acc = f[i - 1]
        BY <4>2
      <4>5. Ensemble[i] \in Sim!Owners /\ wants[Ensemble[i]] \in Wanted
        BY <2>2, <4>1
      <4>6. f[i] \in Accs /\ Rested(f[i].book, acc.book) /\ Due(f[i].book) = Due(acc.book)
        BY <4>3, <4>4, <4>5, OfferIs
      <4>7. Good(i)
        BY <4>2, <4>4, <4>6 DEF Rested
      <4> HIDE DEF Good
      <4> QED BY <3>1, <4>7
    <3> QED BY <3>2, <3>3
  <2>4. Good(n)
    <3>1. n \in 0 .. n
      OBVIOUS
    <3> HIDE DEF Good
    <3> QED BY <2>3, <3>1
  <2>5. f[n].book \in Books
    BY <2>4 DEF Accs
  <2> QED BY <2>1, <2>2, <2>4, <2>5
<1> QED BY <1>1, <1>2

\* One strategy that goes long or holds: both simulators close alike, and what
\* they queue is a sale, or a purchase of what is not held.
LEMMA CloseTwin ==
  ASSUME NEW a \in Books, NEW b \in Books, Alike(a, b), NEW s \in Sim!Symbols, NEW leave,
         NEW wants \in [Sim!Owners -> Wanted], NEW refuse \in Filters \cup {Sim!Fine},
         wants[Ensemble[1]] \in {"hold", "buy"},
         \A n \in Sim!Owners : n # Ensemble[1] => wants[n] = "hold"
  PROVE  /\ Sim!CloseSolo(a, s, leave, wants[Ensemble[1]], refuse) \in Books
         /\ Alike(Sim!CloseSolo(a, s, leave, wants[Ensemble[1]], refuse),
                  Sim!Close(b, s, leave, wants, refuse))
         /\ \/ Sim!Close(b, s, leave, wants, refuse).pending = b.pending
            \/ \E o \in Ask : /\ o.symbol = s /\ o.action \in {"buy", "sell", "cover"}
                              /\ o.action = "buy" => s \notin In(b.pos)
                              /\ Sim!Close(b, s, leave, wants, refuse).pending = Append(b.pending, o)
<1> DEFINE n == Ensemble[1]
           c == Sim!CloseSolo(a, s, leave, wants[n], refuse)
           d == Sim!Close(b, s, leave, wants, refuse)
<1>0. PICK m \in Nat : m = Len(Ensemble) /\ m # 0 /\ \A i \in 1 .. m : Ensemble[i] \in Sim!Owners
  <2>1. Len(Ensemble) \in Nat /\ Len(Ensemble) # 0
    BY SimConstants
  <2> QED BY <2>1, SimConstants
<1>n. n \in Sim!Owners
  BY <1>0
<1>a. /\ a.pos = b.pos /\ a.last_exit = b.last_exit /\ a.queued = b.queued
      /\ Sim!HeldIn(a) = In(b.pos) /\ Sim!HeldIn(b) = In(b.pos)
  BY BookIs DEF Alike
<1>1. CASE s \in In(b.pos)
  <2>1. c = Sim!Holding(a, s, leave) /\ d = Sim!Holding(b, s, leave)
    BY <1>1, <1>a DEF Sim!CloseSolo, Sim!Close
  <2> HIDE DEF c, d
  <2>2. c \in Books
    BY <1>1, <1>a, <2>1, HoldingIs
  <2>3. Alike(c, d)
    BY <2>1, HoldingTwin
  <2>4. d = b \/ \E o \in Ask : /\ o.symbol = s /\ o.action \in {"sell", "cover"}
                                /\ d.pending = Append(b.pending, o)
    BY <1>1, <2>1, HoldingIs
  <2> QED BY <1>1, <2>2, <2>3, <2>4 DEF c, d
<1>2. CASE s \notin In(b.pos)
  <2>1. PICK f : Turns(f, b, s, wants, refuse) /\ d = f[m].book
    BY <1>0, <1>2, TurnsIs
  <2>2. \A i \in 2 .. m : Ensemble[i] # n
    <3> SUFFICES ASSUME NEW i \in 2 .. m, Ensemble[i] = Ensemble[1] PROVE FALSE
      OBVIOUS
    <3>1. i \in DOMAIN Ensemble /\ 1 \in DOMAIN Ensemble /\ i # 1
      BY <1>0, SimConstants
    <3> QED BY <3>1, SimConstants
  <2>3. \A i \in 2 .. m : f[i] = f[i - 1]
    <3> SUFFICES ASSUME NEW i \in 2 .. m PROVE f[i] = f[i - 1]
      OBVIOUS
    <3>1. Ensemble[i] # n /\ Ensemble[i] \in Sim!Owners /\ i \in 1 .. m
      BY <1>0, <2>2
    <3>2. wants[Ensemble[i]] = "hold"
      BY <3>1
    <3>3. f[i] = Sim!Offer(f[i - 1], s, Ensemble[i], "hold", refuse)
      BY <1>0, <2>1, <3>1, <3>2 DEF Turns
    <3> QED BY <3>3 DEF Sim!Offer, Sim!Entries
  <2>4. f[m] = f[1]
    <3> DEFINE N == {i \in 1 .. m : f[i] # f[1]}
    <3> SUFFICES ASSUME N # {} PROVE FALSE
      BY <1>0
    <3>1. N \in SUBSET Nat
      OBVIOUS
    <3>2. PICK i \in N : \A j \in N : i <= j
      BY <3>1, LeastOf
    <3>3. i # 1 /\ i \in 2 .. m
      BY <3>2
    <3>4. i - 1 \in 1 .. m /\ i - 1 \notin N
      BY <3>2, <3>3
    <3>5. f[i - 1] = f[1] /\ f[i] = f[i - 1]
      BY <2>3, <3>3, <3>4
    <3> QED BY <3>2, <3>5
  <2>5. d = Sim!Offer([book |-> b, over |-> FALSE], s, n, wants[n], refuse).book
    <3>1. 1 \in 1 .. Len(Ensemble) /\ 1 - 1 = 0
      BY <1>0
    <3>2. f[1] = Sim!Offer(f[0], s, n, wants[n], refuse)
      BY <2>1, <3>1 DEF Turns
    <3>3. f[0] = [book |-> b, over |-> FALSE]
      BY <2>1 DEF Turns
    <3> HIDE DEF d
    <3> QED BY <2>1, <2>4, <3>2, <3>3
  <2>6. PICK x \in Books : x = [b EXCEPT !.signals = @ + 1] /\ Alike(x, b) /\ Rested(x, b)
    BY Signalled
  <2> DEFINE why == Sim!Refused(x, s, n, refuse)
  <2>7. why = Sim!Refused(a, s, n, refuse)
    BY <1>a, <2>6 DEF Sim!Refused, Sim!cooldown_blocked, Alike
  <2>8. CASE wants[n] = "hold"
    <3>1. d = b /\ c = a
      BY <1>2, <1>a, <2>5, <2>8 DEF Sim!CloseSolo, Sim!Offer, Sim!Entries
    <3> HIDE DEF c, d
    <3> QED BY <3>1 DEF c, d
  <2>9. CASE wants[n] = "buy" /\ why = Sim!Fine
    <3>1. c = Sim!Queue(a, s, "buy", n)
      BY <1>2, <1>a, <2>7, <2>9 DEF Sim!CloseSolo
    <3>2. d = Sim!Queue(x, s, "buy", n)
      <4>1. Sim!Offer([book |-> b, over |-> FALSE], s, n, "buy", refuse)
              = [book |-> Sim!Queue(x, s, "buy", n), over |-> TRUE]
        BY <2>6, <2>9 DEF Sim!Offer, Sim!Entries
      <4> HIDE DEF d
      <4> QED BY <2>5, <2>9, <4>1
    <3>3. Alike(a, x)
      BY <2>6 DEF Alike
    <3> HIDE DEF c, d
    <3>4. c \in Books
      BY <1>n, <3>1, QueueIs
    <3>5. Alike(c, d)
      BY <3>1, <3>2, <3>3, QueueTwin
    <3> DEFINE o == [symbol |-> s, action |-> "buy", owner |-> n]
    <3>6. o \in Ask /\ d.pending = Append(x.pending, o)
      BY <1>n, <3>2, QueueIs
    <3>7. x.pending = b.pending /\ o.symbol = s /\ o.action = "buy"
      BY <2>6 DEF Alike
    <3> HIDE DEF o
    <3> QED BY <1>2, <3>4, <3>5, <3>6, <3>7 DEF c, d
  <2>10. CASE wants[n] = "buy" /\ why # Sim!Fine
    <3>1. c = a
      BY <1>2, <1>a, <2>7, <2>10 DEF Sim!CloseSolo
    <3>2. d = Sim!Block(x, why)
      <4>1. Sim!Offer([book |-> b, over |-> FALSE], s, n, "buy", refuse)
              = [book |-> Sim!Block(x, why), over |-> why \in Sim!Market]
        BY <2>6, <2>10 DEF Sim!Offer, Sim!Entries
      <4> HIDE DEF d, why
      <4> QED BY <2>5, <2>10, <4>1
    <3>3. why \in Sim!Reasons
      BY <2>10, RefusedIs
    <3> HIDE DEF c, d, why
    <3>4. Alike(d, x)
      BY <3>2, <3>3, BlockIs
    <3>5. Alike(c, d) /\ d.pending = b.pending
      BY <2>6, <3>1, <3>4 DEF Alike
    <3> QED BY <3>1, <3>5 DEF c, d
  <2> QED BY <2>8, <2>9, <2>10
<1> QED BY <1>1, <1>2

(* The simulators: the end of the history. *)

Sales(f, b, last) ==
  /\ DOMAIN f = 0 .. Len(Order) /\ f[0] = b
  /\ \A i \in 1 .. Len(Order) : f[i] = Sim!Sold(f[i - 1], Order[i], last[Order[i]])

LEMMA SoldIs ==
  ASSUME NEW b \in Books, NEW s \in Sim!Symbols, NEW price \in Int, t \in Nat
  PROVE  /\ Sim!Sold(b, s, price) \in Books /\ Due(Sim!Sold(b, s, price)) = Due(b)
         /\ Balanced(b) => Balanced(Sim!Sold(b, s, price))
         /\ Honest(b) => Honest(Sim!Sold(b, s, price))
         /\ Raised(b.pos, {}, t) => Raised(Sim!Sold(b, s, price).pos, {}, t)
<1>0. Sim!HeldIn(b) = In(b.pos) /\ b.pos \in Places
  BY BookIs
<1>1. CASE s \in In(b.pos)
  <2>1. Sim!Sold(b, s, price) = Sim!_exit(b, s, price, "end_of_data")
    BY <1>0, <1>1 DEF Sim!Sold
  <2>2. "end_of_data" \in Endings /\ "end_of_data" # "stop_loss"
    BY DEF Endings
  <2>3. PICK c \in Books :
          /\ c = Sim!_exit(b, s, price, "end_of_data") /\ Due(c) = Due(b)
          /\ c.pos = [b.pos EXCEPT ![s] = Sim!Flat]
          /\ Balanced(b) => Balanced(c)
          /\ Honest(b) => Honest(c)
    BY <1>1, <2>2, ExitIs
  <2>4. Raised(b.pos, {}, t) => Raised([b.pos EXCEPT ![s] = Sim!Flat], {}, t)
    BY <1>0, RaisedLess
  <2> QED BY <2>1, <2>3, <2>4
<1>2. CASE s \notin In(b.pos)
  <2>1. Sim!Sold(b, s, price) = b
    BY <1>0, <1>2 DEF Sim!Sold
  <2> QED BY <2>1
<1> QED BY <1>1, <1>2

LEMMA SoldTwin ==
  ASSUME NEW a \in Books, NEW b \in Books, Alike(a, b), NEW s \in Sim!Symbols, NEW price \in Int
  PROVE  Alike(Sim!Sold(a, s, price), Sim!Sold(b, s, price))
<1>0. Sim!HeldIn(b) = In(b.pos) /\ Sim!HeldIn(a) = In(b.pos)
  BY BookIs DEF Alike
<1>1. CASE s \in In(b.pos)
  <2>1. /\ Sim!Sold(b, s, price) = Sim!_exit(b, s, price, "end_of_data")
        /\ Sim!Sold(a, s, price) = Sim!_exit(a, s, price, "end_of_data")
    BY <1>0, <1>1 DEF Sim!Sold
  <2> QED BY <1>1, <2>1, ExitTwin
<1>2. CASE s \notin In(b.pos)
  BY <1>0, <1>2 DEF Sim!Sold
<1> QED BY <1>1, <1>2

LEMMA SalesIs ==
  ASSUME NEW b \in Books, NEW last \in [Sim!Symbols -> Int], t \in Nat
  PROVE  \E f : Sales(f, b, last) /\ Sim!Liquidate(b, last) = f[Len(Order)]
                /\ \A i \in 0 .. Len(Order) : f[i] \in Books
<1>0. PICK n \in Nat : n = Len(Order) /\ \A i \in 1 .. n : Order[i] \in Sim!Symbols
  <2>1. Len(Order) \in Nat
    BY SimConstants
  <2> QED BY <2>1, SimConstants
<1> DEFINE sell(c, i) == Sim!Sold(c, Order[i], last[Order[i]])
           P(f) == f = [i \in 0 .. Len(Order) |->
                          IF i = 0 THEN b ELSE Sim!Sold(f[i - 1], Order[i], last[Order[i]])]
           left == CHOOSE f : P(f)
           step == [p \in Books \X (1 .. n) |-> sell(p[1], p[2])]
<1>2. \A c \in Books : \A i \in 1 .. n : sell(c, i) \in Books
  <2> SUFFICES ASSUME NEW c \in Books, NEW i \in 1 .. n PROVE sell(c, i) \in Books
    OBVIOUS
  <2>1. Order[i] \in Sim!Symbols /\ last[Order[i]] \in Int
    BY <1>0
  <2> QED BY <2>1, SoldIs
<1>3. step \in [Books \X (1 .. n) -> Books]
  <2> HIDE DEF sell
  <2> QED BY <1>2
<1>4. \A c \in Books : \A i \in 1 .. n : step[<<c, i>>] = sell(c, i)
  <2> HIDE DEF sell
  <2> QED OBVIOUS
<1>5. PICK f \in [0 .. n -> Books] : Unfolded(f, n, b, step)
  <2> HIDE DEF step
  <2> QED BY <1>3, Unfolds
<1>6. P(f)
  <2>1. \A i \in 0 .. n : i # 0 => step[<<f[i - 1], i>>] = sell(f[i - 1], i)
    <3> SUFFICES ASSUME NEW i \in 0 .. n, i # 0 PROVE step[<<f[i - 1], i>>] = sell(f[i - 1], i)
      OBVIOUS
    <3>1. i - 1 \in 0 .. n /\ i \in 1 .. n
      OBVIOUS
    <3>2. f[i - 1] \in Books
      BY <3>1
    <3> HIDE DEF step, sell
    <3> QED BY <1>4, <3>1, <3>2
  <2>2. f = [i \in 0 .. n |-> IF i = 0 THEN b ELSE step[<<f[i - 1], i>>]]
    BY <1>5 DEF Unfolded
  <2>3. f = [i \in 0 .. n |-> IF i = 0 THEN b ELSE sell(f[i - 1], i)]
    <3> HIDE DEF step, sell
    <3> QED BY <2>1, <2>2
  <2> QED BY <1>0, <2>3
<1>7. P(left)
  <2> HIDE DEF P
  <2> QED BY <1>6
<1>8. Sim!Liquidate(b, last) = left[Len(Order)]
  BY DEF Sim!Liquidate
<1> HIDE DEF left
<1>9. Sales(left, b, last)
  <2>1. DOMAIN left = 0 .. Len(Order) /\ left[0] = b
    BY <1>0, <1>7
  <2>2. ASSUME NEW i \in 1 .. Len(Order)
        PROVE  left[i] = Sim!Sold(left[i - 1], Order[i], last[Order[i]])
    <3>1. i \in 0 .. Len(Order) /\ i # 0
      BY <1>0
    <3> QED BY <1>7, <3>1
  <2> QED BY <2>1, <2>2 DEF Sales
<1>10. \A i \in 0 .. n : left[i] \in Books
  <2> DEFINE N == {i \in 0 .. n : left[i] \notin Books}
  <2> SUFFICES ASSUME N # {} PROVE FALSE
    OBVIOUS
  <2>1. N \in SUBSET Nat
    OBVIOUS
  <2>2. PICK i \in N : \A j \in N : i <= j
    <3> HIDE DEF N
    <3> QED BY <2>1, LeastOf
  <2>3. i # 0
    BY <1>9, <2>2 DEF Sales
  <2>4. i - 1 \in 0 .. n /\ i - 1 \notin N /\ i \in 1 .. n
    BY <2>2, <2>3
  <2>5. left[i - 1] \in Books
    BY <2>4
  <2>6. left[i] = sell(left[i - 1], i)
    BY <1>0, <1>9, <2>4 DEF Sales
  <2>7. sell(left[i - 1], i) \in Books
    <3> HIDE DEF sell
    <3> QED BY <1>2, <2>4, <2>5
  <2> QED BY <2>2, <2>6, <2>7
<1> QED BY <1>0, <1>8, <1>9, <1>10

LEMMA LiquidateIs ==
  ASSUME NEW b \in Books, NEW last \in [Sim!Symbols -> Int], t \in Nat
  PROVE  /\ Sim!Liquidate(b, last) \in Books /\ Due(Sim!Liquidate(b, last)) = Due(b)
         /\ Balanced(b) => Balanced(Sim!Liquidate(b, last))
         /\ Honest(b) => Honest(Sim!Liquidate(b, last))
         /\ Raised(b.pos, {}, t) => Raised(Sim!Liquidate(b, last).pos, {}, t)
<1>0. PICK n \in Nat : n = Len(Order) /\ \A i \in 1 .. n : Order[i] \in Sim!Symbols
  <2>1. Len(Order) \in Nat
    BY SimConstants
  <2> QED BY <2>1, SimConstants
<1>1. PICK f : Sales(f, b, last) /\ Sim!Liquidate(b, last) = f[n] /\ \A i \in 0 .. n : f[i] \in Books
  BY <1>0, SalesIs
<1> DEFINE Good(c) == /\ c \in Books /\ Due(c) = Due(b)
                      /\ Balanced(b) => Balanced(c)
                      /\ Honest(b) => Honest(c)
                      /\ Raised(b.pos, {}, t) => Raised(c.pos, {}, t)
           N == {i \in 0 .. n : ~ Good(f[i])}
<1>2. Good(b)
  OBVIOUS
<1>3. N = {}
  <2> SUFFICES ASSUME N # {} PROVE FALSE
    OBVIOUS
  <2>1. N \in SUBSET Nat
    <3> HIDE DEF Good
    <3> QED OBVIOUS
  <2>2. PICK i \in N : \A j \in N : i <= j
    <3> HIDE DEF N
    <3> QED BY <2>1, LeastOf
  <2>3. i # 0
    <3> HIDE DEF Good
    <3> QED BY <1>1, <1>2, <2>2 DEF Sales
  <2>4. i - 1 \in 0 .. n /\ i - 1 \notin N /\ i \in 1 .. n
    <3> HIDE DEF Good
    <3> QED BY <2>2, <2>3
  <2>5. Good(f[i - 1])
    <3> HIDE DEF Good
    <3> QED BY <2>4
  <2>6. f[i] = Sim!Sold(f[i - 1], Order[i], last[Order[i]])
    BY <1>0, <1>1, <2>4 DEF Sales
  <2>7. Order[i] \in Sim!Symbols /\ last[Order[i]] \in Int
    BY <1>0, <2>4
  <2>8. Good(f[i])
    BY <2>5, <2>6, <2>7, SoldIs
  <2> HIDE DEF Good
  <2> QED BY <2>2, <2>8
<1>4. Good(f[n])
  <2>1. n \in 0 .. n
    OBVIOUS
  <2> HIDE DEF Good
  <2> QED BY <1>3, <2>1
<1> QED BY <1>1, <1>4

LEMMA LiquidateTwin ==
  ASSUME NEW a \in Books, NEW b \in Books, Alike(a, b), NEW last \in [Sim!Symbols -> Int], t \in Nat
  PROVE  Alike(Sim!Liquidate(a, last), Sim!Liquidate(b, last))
<1>0. PICK n \in Nat : n = Len(Order) /\ \A i \in 1 .. n : Order[i] \in Sim!Symbols
  <2>1. Len(Order) \in Nat
    BY SimConstants
  <2> QED BY <2>1, SimConstants
<1>1. PICK f : Sales(f, a, last) /\ Sim!Liquidate(a, last) = f[n] /\ \A i \in 0 .. n : f[i] \in Books
  BY <1>0, SalesIs
<1>2. PICK g : Sales(g, b, last) /\ Sim!Liquidate(b, last) = g[n] /\ \A i \in 0 .. n : g[i] \in Books
  BY <1>0, SalesIs
<1> DEFINE N == {i \in 0 .. n : ~ Alike(f[i], g[i])}
<1>3. N = {}
  <2> SUFFICES ASSUME N # {} PROVE FALSE
    OBVIOUS
  <2>1. N \in SUBSET Nat
    OBVIOUS
  <2>2. PICK i \in N : \A j \in N : i <= j
    <3> HIDE DEF N
    <3> QED BY <2>1, LeastOf
  <2>3. i # 0
    BY <1>1, <1>2, <2>2 DEF Sales
  <2>4. i - 1 \in 0 .. n /\ i - 1 \notin N /\ i \in 1 .. n
    BY <2>2, <2>3
  <2>5. Alike(f[i - 1], g[i - 1]) /\ f[i - 1] \in Books /\ g[i - 1] \in Books
    BY <1>1, <1>2, <2>4
  <2>6. /\ f[i] = Sim!Sold(f[i - 1], Order[i], last[Order[i]])
        /\ g[i] = Sim!Sold(g[i - 1], Order[i], last[Order[i]])
    BY <1>0, <1>1, <1>2, <2>4 DEF Sales
  <2>7. Order[i] \in Sim!Symbols /\ last[Order[i]] \in Int
    BY <1>0, <2>4
  <2>8. Alike(f[i], g[i])
    BY <2>5, <2>6, <2>7, SoldTwin
  <2> QED BY <2>2, <2>8
<1>4. n \in 0 .. n
  OBVIOUS
<1> QED BY <1>1, <1>2, <1>3, <1>4

(* The simulators: the invariant. *)

SimTyped ==
  /\ both \in BOOLEAN /\ t \in Nat /\ today \in [Sim!Symbols -> DayBars \cup {NoBar}]
  /\ phase \in {"open", "legs", "close", "mark", "done", "raised"}
  /\ ens \in Books /\ solo \in Books
  /\ phase # "mark" => t # 0
  /\ phase = "open" => todo \in Seq(Ask)
  /\ phase \in {"legs", "close"} =>
       todo \in Seq(Sim!Symbols) /\ \A i, j \in DOMAIN todo : todo[i] = todo[j] => i = j

\* The symbols whose stops today has not raised yet.
Unraised ==
  IF phase = "open" THEN Sim!Symbols
  ELSE IF phase = "legs" THEN {todo[i] : i \in DOMAIN todo} ELSE {}

\* Between two steps the books balance, no stop was raised too early, and a
\* signal is due only for an order the open still has to look at.
BookKept ==
  /\ Balanced(ens) /\ Honest(ens) /\ Raised(ens.pos, Unraised, t)
  /\ Due(ens) = IF phase = "open" THEN Sim!Asking(todo) ELSE 0

\* The second simulator is the first's twin, or does not run.
NoRun(b) == b.cash = StartCash /\ b.paid = 0 /\ b.closed = <<>> /\ In(b.pos) = {}
Twinned == IF both THEN Alike(solo, ens) ELSE NoRun(solo)

\* Orders of a strategy that goes long: one for a symbol, a purchase of what
\* is not held.
Tidy(q, held) ==
  \A i \in DOMAIN q :
    /\ q[i].action # "short" /\ (q[i].action = "buy" => q[i].symbol \notin held)
    /\ \A j \in DOMAIN q : q[i].symbol = q[j].symbol => i = j
Apart ==
  both =>
    /\ Tidy(ens.pending, In(ens.pos))
    /\ phase = "open" =>
         /\ Tidy(todo, In(ens.pos))
         /\ \A i \in DOMAIN ens.pending :
              /\ today[ens.pending[i].symbol] = NoBar
              /\ \A j \in DOMAIN todo : ens.pending[i].symbol # todo[j].symbol
    /\ phase = "legs" => \A i \in DOMAIN ens.pending : today[ens.pending[i].symbol] = NoBar
    /\ phase = "close" =>
         \A i \in DOMAIN ens.pending : \A j \in DOMAIN todo :
           ens.pending[i].symbol = todo[j] => today[todo[j]] = NoBar

SimInv == SimTyped /\ BookKept /\ Twinned /\ Apart

LEMMA TidyMore ==
  ASSUME NEW q \in Seq(Ask), NEW o \in Ask, NEW held, Tidy(q, held),
         o.action # "short", o.action = "buy" => o.symbol \notin held,
         \A i \in DOMAIN q : q[i].symbol # o.symbol
  PROVE  Tidy(Append(q, o), held)
<1>1. PICK n \in Nat : n = Len(q) /\ DOMAIN q = 1 .. n
  BY LenProperties
<1>2. DOMAIN Append(q, o) = 1 .. n + 1 /\ \A i \in 1 .. n : Append(q, o)[i] = q[i]
  BY <1>1
<1>3. Append(q, o)[n + 1] = o
  BY <1>1
<1>4. PICK r : r = Append(q, o)
  OBVIOUS
<1>5. \A i \in 1 .. n + 1 : i \in 1 .. n \/ i = n + 1
  OBVIOUS
<1> QED BY <1>1, <1>2, <1>3, <1>4, <1>5 DEF Tidy

LEMMA TidyRest ==
  ASSUME NEW q \in Seq(Ask), q # <<>>, NEW held, Tidy(q, held)
  PROVE  Tidy(Tail(q), held) /\ \A j \in DOMAIN Tail(q) : Tail(q)[j].symbol # Head(q).symbol
<1>1. PICK n \in Nat : n = Len(q) - 1 /\ DOMAIN Tail(q) = 1 .. n
  BY Rest
<1>2. /\ 1 \in DOMAIN q /\ Head(q) = q[1]
      /\ \A i \in 1 .. n : Tail(q)[i] = q[i + 1] /\ i + 1 \in DOMAIN q
  BY <1>1, Rest
<1>3. \A i, j \in 1 .. n : (i + 1 = j + 1 => i = j) /\ i + 1 # 1
  OBVIOUS
<1> QED BY <1>1, <1>2, <1>3 DEF Tidy

LEMMA TidyHeld ==
  ASSUME NEW q, NEW held, Tidy(q, held), NEW other,
         \A i \in DOMAIN q : q[i].symbol \in other => q[i].symbol \in held
  PROVE  Tidy(q, other)
BY DEF Tidy

LEMMA NoRunIs ==
  ASSUME NEW b \in Books, NoRun(b)
  PROVE  Balanced(b) /\ Honest(b)
<1>1. Won(b.closed) = 0
  <2>1. Won(<<>>) = SumOf([i \in DOMAIN <<>> |-> Sim!pnl(<<>>[i])], {})
    BY DEF Won
  <2> QED BY <2>1, SumEmpty DEF NoRun
<1>2. Tied(b.pos) = 0
  <2>1. In(b.pos) = {} /\ b.pos \in Places
    BY BookIs DEF NoRun
  <2>2. Tied(b.pos) = SumOf([s \in {} |-> 0], {})
    BY <2>1, TiedIs
  <2> QED BY <2>2, SumEmpty
<1>3. PICK d \in Int : d = StartCash
  BY SimConstants
<1> QED BY <1>1, <1>2, <1>3 DEF NoRun, Balanced, Honest

LEMMA SimStarts == Sim!Init => SimInv
<1> SUFFICES ASSUME Sim!Init PROVE SimInv
  OBVIOUS
<1>1. /\ both \in BOOLEAN /\ t = 0 /\ today = [s \in Sim!Symbols |-> NoBar] /\ phase = "mark"
      /\ ens = Sim!NewBook /\ solo = Sim!NewBook
  BY DEF Sim!Init
<1> DEFINE b == Sim!NewBook
<1>2. b \in Books
  BY SimConstants DEF Sim!NewBook, Books
<1>3. NoRun(b)
  BY DEF Sim!NewBook, NoRun, In
<1>4. /\ b.pending = <<>> /\ b.signals = 0 /\ b.executed = 0
      /\ b.blocked = [r \in Sim!Reasons |-> 0]
  BY DEF Sim!NewBook
<1> HIDE DEF b
<1>5. Due(b) = 0
  <2>1. SumOf(b.blocked, Sim!Reasons) = 0
    <3> DEFINE N == {k \in Nat : \E S \in SUBSET Sim!Reasons : Cardinality(S) = k /\ SumOf(b.blocked, S) # 0}
    <3>1. N = {}
      <4> SUFFICES ASSUME N # {} PROVE FALSE
        OBVIOUS
      <4>1. PICK k \in N : \A m \in N : k <= m
        BY LeastOf
      <4>2. PICK S \in SUBSET Sim!Reasons : Cardinality(S) = k /\ SumOf(b.blocked, S) # 0
        BY <4>1
      <4>3. IsFiniteSet(S)
        BY SimFinite, FS_Subset
      <4>4. PICK x : x \in S
        BY <4>2, SumEmpty
      <4>5. PICK R : R = S \ {x}
        OBVIOUS
      <4>6. IsFiniteSet(R) /\ Cardinality(R) \in Nat /\ ~ (k <= Cardinality(R)) /\ R \in SUBSET Sim!Reasons
        <5>1. /\ IsFiniteSet(R) /\ Cardinality(S) \in Nat /\ Cardinality(R) \in Nat
              /\ Cardinality(R) = Cardinality(S) - 1
          BY <4>3, <4>4, <4>5, SmallerSet
        <5>2. PICK u, v \in Nat : u = Cardinality(S) /\ v = Cardinality(R) /\ v = u - 1
          BY <5>1
        <5>3. ~ (k <= v)
          BY <4>2, <5>2
        <5> QED BY <4>5, <5>1, <5>2, <5>3
      <4>7. SumOf(b.blocked, R) = 0
        BY <4>1, <4>6
      <4>8. \A y \in S : b.blocked[y] = 0 /\ b.blocked[y] \in Int
        BY <1>4
      <4>9. Splits(b.blocked, S, x)
        BY <4>3, <4>4, <4>8, SumRemove
      <4>10. SumOf(b.blocked, S) = 0 + 0
        BY <4>4, <4>5, <4>7, <4>8, <4>9 DEF Splits
      <4> QED BY <4>2, <4>10
    <3>2. Cardinality(Sim!Reasons) \in Nat
      BY SimFinite, FS_CardinalityType
    <3> QED BY <3>1, <3>2
  <2> QED BY <1>4, <2>1, AskingNone DEF Due
<1>6. Raised(b.pos, Unraised, t)
  BY <1>3 DEF NoRun, Raised
<1>7. SimTyped
  BY <1>1, <1>2 DEF SimTyped, b
<1>8. BookKept
  BY <1>1, <1>2, <1>3, <1>5, <1>6, NoRunIs DEF BookKept, b
<1>9. Twinned
  BY <1>1, <1>3 DEF Twinned, Alike, b
<1>10. Apart
  BY <1>1, <1>4 DEF Apart, Tidy, b
<1> QED BY <1>7, <1>8, <1>9, <1>10 DEF SimInv

LEMMA SimFacts ==
  ASSUME SimInv
  PROVE  /\ ens \in Books /\ solo \in Books /\ t \in Nat /\ ens.pos \in Places
         /\ ens.pending \in Seq(Ask) /\ Sim!HeldIn(ens) = In(ens.pos)
         /\ In(ens.pos) \subseteq Sim!Symbols
BY BookIs DEF SimInv, SimTyped, In

\* A bar arrives.
LEMMA SimBar ==
  ASSUME SimInv, NEW bars \in [Sim!Symbols -> DayBars \cup {NoBar}], Sim!NextBar(bars)
  PROVE  SimInv'
<1> DEFINE fresh(b) == [b EXCEPT !.fills = 0, !.queued = [n \in Sim!Owners |-> 0], !.pending = <<>>]
<1>1. /\ phase = "mark" /\ t' = t + 1 /\ today' = bars /\ phase' = "open"
      /\ todo' = ens.pending /\ both' = both /\ ens' = fresh(ens) /\ solo' = fresh(solo)
  BY DEF Sim!NextBar
<1>2. ens \in Books /\ solo \in Books /\ t \in Nat /\ ens.pending \in Seq(Ask)
  BY SimFacts
<1>3. \A b \in Books :
        /\ fresh(b) \in Books /\ Rested(fresh(b), b) /\ fresh(b).pending = <<>>
        /\ fresh(b).signals = b.signals /\ fresh(b).executed = b.executed /\ fresh(b).blocked = b.blocked
  <2> SUFFICES ASSUME NEW b \in Books
               PROVE  /\ fresh(b) \in Books /\ Rested(fresh(b), b) /\ fresh(b).pending = <<>>
                      /\ fresh(b).signals = b.signals /\ fresh(b).executed = b.executed
                      /\ fresh(b).blocked = b.blocked
    OBVIOUS
  <2>1. [n \in Sim!Owners |-> 0] \in [Sim!Owners -> Nat] /\ <<>> \in Seq(Ask) /\ 0 \in Nat
    OBVIOUS
  <2>2. fresh(b) \in Books
    BY <2>1 DEF Books
  <2>3. Rested(fresh(b), b)
    BY DEF Books, Rested
  <2>4. /\ fresh(b).pending = <<>>
        /\ fresh(b).signals = b.signals /\ fresh(b).executed = b.executed
        /\ fresh(b).blocked = b.blocked
    BY DEF Books
  <2> QED BY <2>2, <2>3, <2>4
<1>4. \A a, b \in Books : Alike(a, b) => Alike(fresh(a), fresh(b))
  BY DEF Alike, Books
<1>5. \A b \in Books : NoRun(b) => NoRun(fresh(b))
  BY DEF NoRun, Books
<1> HIDE DEF fresh
<1>6. SimTyped'
  BY <1>1, <1>2, <1>3 DEF SimInv, SimTyped
<1>7. BookKept'
  <2>1. Balanced(ens') /\ Honest(ens') /\ ens'.pos = ens.pos
    BY <1>1, <1>2, <1>3, RestedSame DEF SimInv, BookKept, Rested
  <2>2. Raised(ens'.pos, Sim!Symbols, t')
    <3> SUFFICES ASSUME NEW s \in In(ens.pos) PROVE ens.pos[s].raised <= t + 1 /\ ens.pos[s].raised < t + 1
      BY <1>1, <2>1 DEF Raised
    <3>1. ens.pos[s].raised <= t
      BY DEF SimInv, BookKept, Raised
    <3>2. ens.pos[s].raised \in Int
      BY SimFacts, LotIs DEF Lot
    <3> QED BY <1>2, <3>1, <3>2
  <2>3. Due(ens') = Sim!Asking(todo')
    <3>1. Due(ens) = 0
      BY <1>1 DEF SimInv, BookKept
    <3>2. SumOf(ens.blocked, Sim!Reasons) \in Int /\ Sim!Asking(ens.pending) \in Nat
      BY <1>2, SimFinite, SumInt, AskingIs, BookIs
    <3>3. PICK z, v, g, y \in Int : /\ z = SumOf(ens.blocked, Sim!Reasons) /\ v = Sim!Asking(ens.pending)
                                    /\ g = ens.signals /\ y = ens.executed
      BY <1>2, <3>2, BookIs
    <3>4. Due(ens) = g - (y + z + v)
      BY <3>3 DEF Due
    <3>5. Due(ens') = g - (y + z + 0)
      BY <1>1, <1>2, <1>3, <3>3, AskingNone DEF Due
    <3>6. Due(ens') = v
      BY <3>1, <3>3, <3>4, <3>5
    <3> QED BY <1>1, <3>3, <3>6
  <2> QED BY <1>1, <2>1, <2>2, <2>3 DEF BookKept, Unraised
<1>8. Twinned'
  BY <1>1, <1>2, <1>4, <1>5 DEF SimInv, Twinned
<1>9. Apart'
  <2>1. ens'.pending = <<>> /\ ens'.pos = ens.pos
    BY <1>1, <1>2, <1>3 DEF Rested
  <2> QED BY <1>1, <2>1 DEF SimInv, Apart, Tidy
<1> QED BY <1>6, <1>7, <1>8, <1>9 DEF SimInv

\* An order waits for a bar.
LEMMA WaitIs ==
  ASSUME NEW b \in Books, NEW o \in Ask
  PROVE  /\ [b EXCEPT !.pending = Append(@, o)] \in Books /\ Rested([b EXCEPT !.pending = Append(@, o)], b)
         /\ [b EXCEPT !.pending = Append(@, o)].pending = Append(b.pending, o)
         /\ Due([b EXCEPT !.pending = Append(@, o)]) = Due(b) - (IF o.action \in Sim!Entries THEN 1 ELSE 0)
         /\ NoRun(b) => NoRun([b EXCEPT !.pending = Append(@, o)])
<1>1. PICK k \in {0, 1} : k = IF o.action \in Sim!Entries THEN 1 ELSE 0
  OBVIOUS
<1> DEFINE c == [b EXCEPT !.pending = Append(@, o)]
<1>2. c \in Books
  <2>1. Append(b.pending, o) \in Seq(Ask)
    BY BookIs
  <2> QED BY <2>1 DEF Books
<1>3. Rested(c, b) /\ (NoRun(b) => NoRun(c))
  BY DEF Rested, Books, NoRun
<1>4. /\ c.pending = Append(b.pending, o) /\ c.signals = b.signals /\ c.executed = b.executed
      /\ c.blocked = b.blocked
  BY DEF Books
<1> HIDE DEF c
<1>5. Sim!Asking(Append(b.pending, o)) = Sim!Asking(b.pending) + k
  BY <1>1, AskingMore, BookIs
<1>6. SumOf(b.blocked, Sim!Reasons) \in Int /\ Sim!Asking(b.pending) \in Nat
  BY SimFinite, SumInt, AskingIs, BookIs
<1>7. PICK z, v, g, y \in Int : /\ z = SumOf(b.blocked, Sim!Reasons) /\ v = Sim!Asking(b.pending)
                                /\ g = b.signals /\ y = b.executed
  BY <1>6, BookIs
<1>8. Due(c) = g - (y + z + (v + k)) /\ Due(b) = g - (y + z + v)
  BY <1>4, <1>5, <1>7 DEF Due
<1>9. Due(c) = Due(b) - k
  BY <1>7, <1>8
<1> QED BY <1>1, <1>2, <1>3, <1>4, <1>9 DEF c

LEMMA WaitTwin ==
  ASSUME NEW a \in Books, NEW b \in Books, Alike(a, b), NEW o
  PROVE  Alike([a EXCEPT !.pending = Append(@, o)], [b EXCEPT !.pending = Append(@, o)])
BY DEF Alike, Books

\* An order at the open.
LEMMA SimOpen ==
  ASSUME SimInv, NEW qty \in Sizes, NEW rail, Sim!AtOpen(qty, rail)
  PROVE  SimInv'
<1>1. /\ phase = "open" /\ todo # <<>> /\ todo' = Tail(todo) /\ both' = both /\ t' = t
      /\ today' = today /\ phase' = phase
  BY DEF Sim!AtOpen
<1>2. /\ ens \in Books /\ solo \in Books /\ t \in Nat \ {0} /\ todo \in Seq(Ask) /\ both \in BOOLEAN
      /\ today \in [Sim!Symbols -> DayBars \cup {NoBar}]
  BY <1>1 DEF SimInv, SimTyped
<1>3. PICK o \in Ask : o = Head(todo)
  BY <1>1, <1>2, Rest
<1>4. Tail(todo) \in Seq(Ask) /\ o.symbol \in Sim!Symbols
  BY <1>1, <1>2, <1>3, Rest DEF Ask
<1>5. PICK k \in {0, 1} : k = IF o.action \in Sim!Entries THEN 1 ELSE 0
  OBVIOUS
<1>6. PICK due, left \in Int : due = Due(ens) /\ left = Sim!Asking(Tail(todo)) /\ due = left + k
  <2>1. Due(ens) = Sim!Asking(todo)
    BY <1>1 DEF SimInv, BookKept
  <2>2. Sim!Asking(todo) = Sim!Asking(Tail(todo)) + k
    BY <1>1, <1>2, <1>3, <1>5, AskingRest
  <2>3. Sim!Asking(Tail(todo)) \in Nat
    BY <1>4, AskingIs
  <2> QED BY <2>1, <2>2, <2>3
<1>7. Balanced(ens) /\ Honest(ens) /\ Raised(ens.pos, Sim!Symbols, t)
  BY <1>1 DEF SimInv, BookKept, Unraised
\* What both alternatives have to show.
<1>8. ASSUME ens' \in Books, solo' \in Books, Due(ens') = Due(ens) - k, Balanced(ens'), Honest(ens'),
             Raised(ens'.pos, Sim!Symbols, t), Twinned'
      PROVE  SimTyped' /\ BookKept' /\ Twinned'
  <2>1. SimTyped'
    BY <1>1, <1>4, <1>8 DEF SimInv, SimTyped
  <2>2. Due(ens') = Sim!Asking(todo')
    <3>1. Due(ens') = left
      <4>1. due - k = left
        BY <1>5, <1>6
      <4>2. Due(ens') = due - k
        BY <1>6, <1>8
      <4> QED BY <4>1, <4>2
    <3> QED BY <1>1, <1>6, <3>1
  <2>3. BookKept'
    BY <1>1, <1>8, <2>2 DEF BookKept, Unraised
  <2> QED BY <1>8, <2>1, <2>3
<1>9. both => /\ Tidy(todo, In(ens.pos)) /\ Tidy(ens.pending, In(ens.pos))
              /\ \A i \in DOMAIN ens.pending :
                   /\ today[ens.pending[i].symbol] = NoBar
                   /\ \A j \in DOMAIN todo : ens.pending[i].symbol # todo[j].symbol
  BY <1>1 DEF SimInv, Apart
<1>10. both => /\ Tidy(Tail(todo), In(ens.pos))
               /\ \A j \in DOMAIN Tail(todo) : Tail(todo)[j].symbol # o.symbol
               /\ \A i \in DOMAIN ens.pending : ens.pending[i].symbol # o.symbol
               /\ \A j \in DOMAIN Tail(todo) : \E i \in DOMAIN todo : Tail(todo)[j] = todo[i]
               /\ o.action # "short" /\ (o.action = "buy" => o.symbol \notin In(ens.pos))
  <2> SUFFICES ASSUME both
               PROVE  /\ Tidy(Tail(todo), In(ens.pos))
                      /\ \A j \in DOMAIN Tail(todo) : Tail(todo)[j].symbol # o.symbol
                      /\ \A i \in DOMAIN ens.pending : ens.pending[i].symbol # o.symbol
                      /\ \A j \in DOMAIN Tail(todo) : \E i \in DOMAIN todo : Tail(todo)[j] = todo[i]
                      /\ o.action # "short" /\ (o.action = "buy" => o.symbol \notin In(ens.pos))
    OBVIOUS
  <2>1. 1 \in DOMAIN todo /\ o = todo[1]
    BY <1>1, <1>2, <1>3, Rest
  <2>2. \A j \in DOMAIN Tail(todo) : \E i \in DOMAIN todo : Tail(todo)[j] = todo[i]
    BY <1>1, <1>2, Rest
  <2>3. Tidy(Tail(todo), In(ens.pos)) /\ \A j \in DOMAIN Tail(todo) : Tail(todo)[j].symbol # o.symbol
    BY <1>1, <1>2, <1>3, <1>9, TidyRest
  <2>4. o.action # "short" /\ (o.action = "buy" => o.symbol \notin In(ens.pos))
    BY <1>9, <2>1 DEF Tidy
  <2> QED BY <1>9, <2>1, <2>2, <2>3, <2>4
<1>11. CASE today[o.symbol] = NoBar
  <2> DEFINE wait(b) == [b EXCEPT !.pending = Append(@, o)]
  <2>1. ens' = wait(ens) /\ solo' = IF both THEN wait(solo) ELSE solo
    BY <1>3, <1>11 DEF Sim!AtOpen
  <2>2. \A b \in Books : /\ wait(b) \in Books /\ Rested(wait(b), b) /\ wait(b).pending = Append(b.pending, o)
                         /\ Due(wait(b)) = Due(b) - k
                         /\ NoRun(b) => NoRun(wait(b))
    BY <1>5, WaitIs
  <2>3. Alike(solo, ens) => Alike(wait(solo), wait(ens))
    BY <1>2, WaitTwin
  <2> HIDE DEF wait
  <2>4. ens' \in Books /\ solo' \in Books /\ Due(ens') = Due(ens) - k /\ Rested(ens', ens)
    BY <1>2, <2>1, <2>2
  <2>5. Balanced(ens') /\ Honest(ens') /\ ens'.pos = ens.pos
    BY <1>2, <1>7, <2>4, RestedSame DEF Rested
  <2>6. Twinned'
    BY <1>1, <1>2, <2>1, <2>3 DEF SimInv, Twinned
  <2>7. SimTyped' /\ BookKept' /\ Twinned'
    BY <1>7, <1>8, <2>4, <2>5, <2>6
  <2>8. Apart'
    <3> SUFFICES ASSUME both
                 PROVE  /\ Tidy(ens'.pending, In(ens'.pos)) /\ Tidy(todo', In(ens'.pos))
                        /\ \A i \in DOMAIN ens'.pending :
                             /\ today[ens'.pending[i].symbol] = NoBar
                             /\ \A j \in DOMAIN todo' : ens'.pending[i].symbol # todo'[j].symbol
      BY <1>1 DEF Apart
    <3>1. ens'.pending = Append(ens.pending, o) /\ ens.pending \in Seq(Ask)
      BY <1>2, <2>1, <2>2, BookIs
    <3>2. Tidy(ens'.pending, In(ens.pos))
      BY <1>9, <1>10, <3>1, TidyMore
    <3>3. \A i \in DOMAIN ens'.pending : (i \in DOMAIN ens.pending /\ ens'.pending[i] = ens.pending[i])
                                         \/ ens'.pending[i] = o
      <4>1. PICK n \in Nat : n = Len(ens.pending) /\ DOMAIN ens.pending = 1 .. n
        BY <3>1, LenProperties
      <4> QED BY <3>1, <4>1
    <3> QED BY <1>1, <1>9, <1>10, <1>11, <2>5, <3>2, <3>3
  <2> QED BY <2>7, <2>8 DEF SimInv
<1>12. CASE today[o.symbol] # NoBar
  <2>1. ens' = Sim!Fill(ens, o, qty, rail) /\ solo' = IF both THEN Sim!FillSolo(solo, o, qty, rail) ELSE solo
    BY <1>3, <1>12 DEF Sim!AtOpen
  <2>2. today[o.symbol] \in DayBars
    BY <1>2, <1>4, <1>12
  <2>3. /\ ens' \in Books /\ ens'.pending = ens.pending /\ Due(ens') = Due(ens) - k
        /\ Balanced(ens') /\ Honest(ens') /\ Raised(ens'.pos, Sim!Symbols, t)
        /\ In(ens'.pos) \subseteq In(ens.pos) \cup {o.symbol}
    BY <1>2, <1>5, <1>7, <2>1, <2>2, FillIs
  <2>4. solo' \in Books /\ Twinned'
    <3>1. CASE both
      <4>1. Alike(solo, ens)
        BY <3>1 DEF SimInv, Twinned
      <4>2. solo' \in Books /\ Alike(solo', ens')
        BY <1>2, <1>10, <2>1, <2>2, <3>1, <4>1, FillTwin
      <4> QED BY <1>1, <3>1, <4>2 DEF Twinned
    <3>2. CASE ~ both
      BY <1>1, <1>2, <2>1, <3>2 DEF SimInv, Twinned
    <3> QED BY <3>1, <3>2
  <2>5. SimTyped' /\ BookKept' /\ Twinned'
    BY <1>8, <2>3, <2>4
  <2>6. Apart'
    <3> SUFFICES ASSUME both
                 PROVE  /\ Tidy(ens'.pending, In(ens'.pos)) /\ Tidy(todo', In(ens'.pos))
                        /\ \A i \in DOMAIN ens'.pending :
                             /\ today[ens'.pending[i].symbol] = NoBar
                             /\ \A j \in DOMAIN todo' : ens'.pending[i].symbol # todo'[j].symbol
      BY <1>1 DEF Apart
    <3>1. Tidy(ens.pending, In(ens'.pos))
      BY <1>9, <1>10, <2>3, TidyHeld
    <3>2. Tidy(Tail(todo), In(ens'.pos))
      <4>1. \A i \in DOMAIN Tail(todo) :
              Tail(todo)[i].symbol \in In(ens'.pos) => Tail(todo)[i].symbol \in In(ens.pos)
        BY <1>10, <2>3
      <4>2. Tidy(Tail(todo), In(ens.pos))
        BY <1>10
      <4> QED BY <4>1, <4>2, TidyHeld
    <3> QED BY <1>1, <1>9, <1>10, <2>3, <3>1, <3>2
  <2> QED BY <2>5, <2>6 DEF SimInv
<1> QED BY <1>11, <1>12

\* The phases of a bar follow each other.
LEMMA SimPhase ==
  ASSUME SimInv, NEW to,
         \/ to = "legs" /\ Sim!Phase("open", "legs", Order)
         \/ to = "close" /\ Sim!Phase("legs", "close", Order)
  PROVE  SimInv'
<1>1. /\ phase' = to /\ todo' = Order /\ todo = <<>> /\ both' = both /\ t' = t /\ today' = today
      /\ ens' = ens /\ solo' = solo
      /\ (phase = "open" /\ to = "legs") \/ (phase = "legs" /\ to = "close")
  <2>1. CASE to = "legs" /\ Sim!Phase("open", "legs", Order)
    BY <2>1 DEF Sim!Phase
  <2>2. CASE to = "close" /\ Sim!Phase("legs", "close", Order)
    BY <2>2 DEF Sim!Phase
  <2> QED BY <2>1, <2>2
<1>2. SimTyped'
  BY <1>1, SimConstants DEF SimInv, SimTyped
<1>3. BookKept'
  <2>1. Due(ens) = 0
    <3>1. phase = "open" => Due(ens) = Sim!Asking(<<>>)
      BY <1>1 DEF SimInv, BookKept
    <3>2. phase = "legs" => Due(ens) = 0
      BY DEF SimInv, BookKept
    <3> QED BY <1>1, <3>1, <3>2, AskingNone
  <2>2. phase = "open" => Raised(ens.pos, Sim!Symbols, t)
    BY DEF SimInv, BookKept, Unraised
  <2>3. {Order[i] : i \in DOMAIN Order} = Sim!Symbols
    BY DEF Sim!Symbols, Sim!Range
  <2>4. phase = "legs" => Raised(ens.pos, {}, t)
    BY DEF SimInv, BookKept, Raised
  <2> QED BY <1>1, <2>1, <2>2, <2>3, <2>4 DEF SimInv, BookKept, Unraised
<1>4. Twinned'
  BY <1>1 DEF SimInv, Twinned
<1>5. Apart'
  <2> SUFFICES ASSUME both
               PROVE  /\ Tidy(ens.pending, In(ens.pos))
                      /\ \A i \in DOMAIN ens.pending : today[ens.pending[i].symbol] = NoBar
    BY <1>1 DEF Apart
  <2> QED BY <1>1 DEF SimInv, Apart
<1> QED BY <1>2, <1>3, <1>4, <1>5 DEF SimInv

LEMMA OnceRest ==
  ASSUME NEW S, NEW q \in Seq(S), q # <<>>, \A i, j \in DOMAIN q : q[i] = q[j] => i = j
  PROVE  /\ Head(q) \in S /\ Tail(q) \in Seq(S)
         /\ \A i, j \in DOMAIN Tail(q) : Tail(q)[i] = Tail(q)[j] => i = j
         /\ {Tail(q)[i] : i \in DOMAIN Tail(q)} = {q[i] : i \in DOMAIN q} \ {Head(q)}
         /\ \A j \in DOMAIN Tail(q) : Tail(q)[j] # Head(q) /\ \E i \in DOMAIN q : Tail(q)[j] = q[i]
         /\ 1 \in DOMAIN q /\ Head(q) = q[1]
<1>2. PICK n \in Nat : n = Len(q) - 1 /\ DOMAIN Tail(q) = 1 .. n /\ DOMAIN q = 1 .. n + 1
  <2>1. Len(q) - 1 \in Nat /\ Len(q) = (Len(q) - 1) + 1
    BY Rest
  <2> QED BY <2>1, Rest
<1>3. /\ Head(q) \in S /\ Tail(q) \in Seq(S) /\ Head(q) = q[1] /\ 1 \in DOMAIN q
      /\ \A i \in 1 .. n : Tail(q)[i] = q[i + 1] /\ i + 1 \in DOMAIN q
  BY <1>2, Rest
<1>4. \A i, j \in 1 .. n : (i + 1 = j + 1 => i = j) /\ i + 1 # 1
  OBVIOUS
<1>5. \A i, j \in DOMAIN Tail(q) : Tail(q)[i] = Tail(q)[j] => i = j
  BY <1>2, <1>3, <1>4
<1>6. \A j \in DOMAIN Tail(q) : Tail(q)[j] # Head(q) /\ \E i \in DOMAIN q : Tail(q)[j] = q[i]
  BY <1>2, <1>3, <1>4
<1>7. {Tail(q)[i] : i \in DOMAIN Tail(q)} = {q[i] : i \in DOMAIN q} \ {Head(q)}
  <2>1. \A i \in DOMAIN q : i = 1 \/ (i - 1 \in 1 .. n /\ i = (i - 1) + 1)
    BY <1>2
  <2>2. \A i \in DOMAIN q : q[i] = Head(q) \/ \E j \in DOMAIN Tail(q) : Tail(q)[j] = q[i]
    <3> SUFFICES ASSUME NEW i \in DOMAIN q, i # 1 PROVE \E j \in DOMAIN Tail(q) : Tail(q)[j] = q[i]
      BY <1>3
    <3>1. i - 1 \in DOMAIN Tail(q) /\ i = (i - 1) + 1
      BY <1>2, <2>1
    <3>2. Tail(q)[i - 1] = q[i]
      BY <1>2, <1>3, <3>1
    <3> QED BY <3>1, <3>2
  <2>3. \A x : x \in {Tail(q)[i] : i \in DOMAIN Tail(q)} => x \in {q[i] : i \in DOMAIN q} \ {Head(q)}
    BY <1>6
  <2>4. \A x : x \in {q[i] : i \in DOMAIN q} \ {Head(q)} => x \in {Tail(q)[i] : i \in DOMAIN Tail(q)}
    <3> SUFFICES ASSUME NEW i \in DOMAIN q, q[i] # Head(q)
                 PROVE  q[i] \in {Tail(q)[j] : j \in DOMAIN Tail(q)}
      OBVIOUS
    <3>1. PICK j \in DOMAIN Tail(q) : Tail(q)[j] = q[i]
      BY <2>2
    <3> QED BY <3>1
  <2> QED BY <2>3, <2>4
<1> QED BY <1>3, <1>5, <1>6, <1>7

LEMMA TodoRest ==
  ASSUME SimInv, phase \in {"legs", "close"}, todo # <<>>
  PROVE  /\ Head(todo) \in Sim!Symbols /\ Tail(todo) \in Seq(Sim!Symbols)
         /\ \A i, j \in DOMAIN Tail(todo) : Tail(todo)[i] = Tail(todo)[j] => i = j
         /\ {Tail(todo)[i] : i \in DOMAIN Tail(todo)} = {todo[i] : i \in DOMAIN todo} \ {Head(todo)}
         /\ \A j \in DOMAIN Tail(todo) : Tail(todo)[j] # Head(todo) /\ \E i \in DOMAIN todo : Tail(todo)[j] = todo[i]
         /\ 1 \in DOMAIN todo /\ Head(todo) = todo[1]
<1>1. todo \in Seq(Sim!Symbols) /\ \A i, j \in DOMAIN todo : todo[i] = todo[j] => i = j
  BY DEF SimInv, SimTyped
<1> QED BY <1>1, OnceRest

LEMMA SimSkip ==
  ASSUME SimInv, Sim!Skip
  PROVE  SimInv'
<1>1. /\ phase \in {"legs", "close"} /\ todo # <<>> /\ todo' = Tail(todo) /\ phase' = phase
      /\ both' = both /\ t' = t /\ today' = today /\ ens' = ens /\ solo' = solo
  BY DEF Sim!Skip
<1>2. SimTyped'
  BY <1>1, TodoRest DEF SimInv, SimTyped
<1>3. BookKept'
  BY <1>1, TodoRest DEF SimInv, BookKept, Unraised, Raised
<1>4. Twinned'
  BY <1>1 DEF SimInv, Twinned
<1>5. Apart'
  BY <1>1, TodoRest DEF SimInv, Apart
<1> QED BY <1>2, <1>3, <1>4, <1>5 DEF SimInv

LEMMA SimLegs ==
  ASSUME SimInv, Sim!InLegs
  PROVE  SimInv'
<1>1. /\ phase = "legs" /\ todo # <<>> /\ todo' = Tail(todo) /\ phase' = phase
      /\ both' = both /\ t' = t /\ today' = today
      /\ ens' = Sim!Legs(ens, Head(todo)) /\ solo' = IF both THEN Sim!Legs(solo, Head(todo)) ELSE solo
      /\ today[Head(todo)] # NoBar
  BY DEF Sim!InLegs
<1> DEFINE S == {todo[i] : i \in DOMAIN todo}
<1>2. PICK s \in Sim!Symbols : s = Head(todo) /\ s \in S
  BY <1>1, TodoRest
<1>3. /\ ens \in Books /\ solo \in Books /\ t \in Nat /\ today[s] \in DayBars
      /\ Balanced(ens) /\ Honest(ens) /\ Raised(ens.pos, S, t) /\ Due(ens) = 0
  BY <1>1, <1>2 DEF SimInv, SimTyped, BookKept, Unraised
<1> HIDE DEF S
<1>4. /\ ens' \in Books /\ ens'.pending = ens.pending /\ Due(ens') = 0 /\ Balanced(ens') /\ Honest(ens')
      /\ Raised(ens'.pos, S \ {s}, t) /\ In(ens'.pos) \subseteq In(ens.pos)
  BY <1>1, <1>2, <1>3, LegsIs
<1>5. solo' \in Books /\ Twinned'
  <2>1. CASE both
    <3>1. Alike(solo, ens)
      BY <2>1 DEF SimInv, Twinned
    <3>2. solo' \in Books
      BY <1>1, <1>2, <1>3, <2>1, LegsIs
    <3>3. Alike(solo', ens')
      BY <1>1, <1>2, <1>3, <2>1, <3>1, LegsTwin
    <3> QED BY <1>1, <2>1, <3>2, <3>3 DEF Twinned
  <2>2. CASE ~ both
    BY <1>1, <1>3, <2>2 DEF SimInv, Twinned
  <2> QED BY <2>1, <2>2
<1>6. SimTyped'
  BY <1>1, <1>4, <1>5, TodoRest DEF SimInv, SimTyped
<1>7. BookKept'
  <2>1. {todo'[i] : i \in DOMAIN todo'} = S \ {s}
    <3>1. {Tail(todo)[i] : i \in DOMAIN Tail(todo)} = {todo[i] : i \in DOMAIN todo} \ {Head(todo)}
      BY <1>1, TodoRest
    <3>2. PICK r : r = Tail(todo) /\ todo' = r
      BY <1>1
    <3> QED BY <1>2, <3>1, <3>2 DEF S
  <2> QED BY <1>1, <1>4, <2>1 DEF BookKept, Unraised
<1>8. Apart'
  <2> SUFFICES ASSUME both
               PROVE  /\ Tidy(ens'.pending, In(ens'.pos))
                      /\ \A i \in DOMAIN ens'.pending : today[ens'.pending[i].symbol] = NoBar
    BY <1>1 DEF Apart
  <2>1. /\ Tidy(ens.pending, In(ens.pos))
        /\ \A i \in DOMAIN ens.pending : today[ens.pending[i].symbol] = NoBar
    BY <1>1 DEF SimInv, Apart
  <2>2. Tidy(ens.pending, In(ens'.pos))
    BY <1>4, <2>1, TidyHeld
  <2> QED BY <1>4, <2>1, <2>2
<1> QED BY <1>5, <1>6, <1>7, <1>8 DEF SimInv

LEMMA SimRefuse ==
  ASSUME SimInv, Sim!Refuse
  PROVE  SimInv'
<1>1. /\ phase = "legs" /\ phase' = "raised" /\ both' = both /\ t' = t /\ today' = today
      /\ ens' = ens /\ solo' = solo
  BY DEF Sim!Refuse
<1> QED BY <1>1 DEF SimInv, SimTyped, BookKept, Unraised, Raised, Twinned, Apart

LEMMA SimClose ==
  ASSUME SimInv, NEW leave, NEW wants \in Sim!Answers, NEW refuse \in Filters \cup {Sim!Fine},
         Sim!AtClose(leave, wants, refuse)
  PROVE  SimInv'
<1>1. /\ phase = "close" /\ todo # <<>> /\ todo' = Tail(todo) /\ phase' = phase
      /\ both' = both /\ t' = t /\ today' = today /\ today[Head(todo)] # NoBar
      /\ ens' = Sim!Close(ens, Head(todo), leave, wants, refuse)
      /\ solo' = IF both THEN Sim!CloseSolo(solo, Head(todo), leave, wants[Ensemble[1]], refuse) ELSE solo
  BY DEF Sim!AtClose
<1>2. PICK s \in Sim!Symbols : s = Head(todo)
  BY <1>1, TodoRest
<1>3. /\ ens \in Books /\ solo \in Books /\ t \in Nat
      /\ Balanced(ens) /\ Honest(ens) /\ Raised(ens.pos, {}, t) /\ Due(ens) = 0
  BY <1>1 DEF SimInv, SimTyped, BookKept, Unraised
<1>4. wants \in [Sim!Owners -> Wanted]
  BY DEF Sim!Answers, Sim!Entries, Wanted
<1>5. ens' \in Books /\ Rested(ens', ens) /\ Due(ens') = 0
  BY <1>1, <1>2, <1>3, <1>4, CloseIs
<1>6. both => /\ solo' \in Books /\ Alike(solo', ens')
              /\ \/ ens'.pending = ens.pending
                 \/ \E o \in Ask : /\ o.symbol = s /\ o.action \in {"buy", "sell", "cover"}
                                   /\ o.action = "buy" => s \notin In(ens.pos)
                                   /\ ens'.pending = Append(ens.pending, o)
  <2> SUFFICES ASSUME both
               PROVE  /\ solo' \in Books /\ Alike(solo', ens')
                      /\ \/ ens'.pending = ens.pending
                         \/ \E o \in Ask : /\ o.symbol = s /\ o.action \in {"buy", "sell", "cover"}
                                           /\ o.action = "buy" => s \notin In(ens.pos)
                                           /\ ens'.pending = Append(ens.pending, o)
    OBVIOUS
  <2>1. Alike(solo, ens)
    BY DEF SimInv, Twinned
  <2>2. Ensemble[1] \in Sim!Owners
    BY SimConstants
  <2>3. wants[Ensemble[1]] \in {"hold", "buy"} /\ \A n \in Sim!Owners : n # Ensemble[1] => wants[n] = "hold"
    BY <2>2 DEF Sim!Answers
  <2>4. PICK c, d : /\ c = Sim!CloseSolo(solo, s, leave, wants[Ensemble[1]], refuse)
                    /\ d = Sim!Close(ens, s, leave, wants, refuse)
    OBVIOUS
  <2>5. /\ c \in Books /\ Alike(c, d)
        /\ \/ d.pending = ens.pending
           \/ \E o \in Ask : /\ o.symbol = s /\ o.action \in {"buy", "sell", "cover"}
                             /\ o.action = "buy" => s \notin In(ens.pos)
                             /\ d.pending = Append(ens.pending, o)
    <3>1. Sim!CloseSolo(solo, s, leave, wants[Ensemble[1]], refuse) \in Books
      BY <1>3, <1>4, <2>1, <2>3, CloseTwin
    <3>2. Alike(Sim!CloseSolo(solo, s, leave, wants[Ensemble[1]], refuse),
                Sim!Close(ens, s, leave, wants, refuse))
      BY <1>3, <1>4, <2>1, <2>3, CloseTwin
    <3>3. \/ Sim!Close(ens, s, leave, wants, refuse).pending = ens.pending
          \/ \E o \in Ask : /\ o.symbol = s /\ o.action \in {"buy", "sell", "cover"}
                            /\ o.action = "buy" => s \notin In(ens.pos)
                            /\ Sim!Close(ens, s, leave, wants, refuse).pending = Append(ens.pending, o)
      BY <1>3, <1>4, <2>1, <2>3, CloseTwin
    <3> QED BY <2>4, <3>1, <3>2, <3>3
  <2>6. solo' = c /\ ens' = d
    BY <1>1, <1>2, <2>4
  <2> QED BY <2>5, <2>6
<1>7. solo' \in Books /\ Twinned'
  BY <1>1, <1>3, <1>6 DEF SimInv, Twinned
<1>8. SimTyped'
  BY <1>1, <1>5, <1>7, TodoRest DEF SimInv, SimTyped
<1>9. BookKept'
  <2>1. Balanced(ens') /\ Honest(ens') /\ ens'.pos = ens.pos
    BY <1>3, <1>5, RestedSame DEF Rested
  <2> QED BY <1>1, <1>3, <1>5, <2>1 DEF BookKept, Unraised
<1>10. Apart'
  <2> SUFFICES ASSUME both
               PROVE  /\ Tidy(ens'.pending, In(ens'.pos))
                      /\ \A i \in DOMAIN ens'.pending : \A j \in DOMAIN todo' :
                           ens'.pending[i].symbol = todo'[j] => today[todo'[j]] = NoBar
    BY <1>1 DEF Apart
  <2>1. /\ Tidy(ens.pending, In(ens.pos)) /\ ens'.pos = ens.pos /\ ens.pending \in Seq(Ask)
        /\ \A i \in DOMAIN ens.pending : \A j \in DOMAIN todo :
             ens.pending[i].symbol = todo[j] => today[todo[j]] = NoBar
    BY <1>1, <1>3, <1>5, BookIs DEF SimInv, Apart, Rested
  <2>2. /\ \A j \in DOMAIN todo' : todo'[j] # s /\ \E i \in DOMAIN todo : todo'[j] = todo[i]
        /\ 1 \in DOMAIN todo /\ s = todo[1]
    BY <1>1, <1>2, TodoRest
  <2>3. \A i \in DOMAIN ens.pending : ens.pending[i].symbol # s
    BY <1>1, <1>2, <2>1, <2>2
  <2>4. CASE ens'.pending = ens.pending
    BY <2>1, <2>2, <2>4
  <2>5. ASSUME NEW o \in Ask, o.symbol = s, o.action \in {"buy", "sell", "cover"},
               o.action = "buy" => s \notin In(ens.pos), ens'.pending = Append(ens.pending, o)
        PROVE  /\ Tidy(ens'.pending, In(ens'.pos))
               /\ \A i \in DOMAIN ens'.pending : \A j \in DOMAIN todo' :
                    ens'.pending[i].symbol = todo'[j] => today[todo'[j]] = NoBar
    <3>1. Tidy(Append(ens.pending, o), In(ens.pos))
      BY <2>1, <2>3, <2>5, TidyMore
    <3>2. \A i \in DOMAIN ens'.pending : (i \in DOMAIN ens.pending /\ ens'.pending[i] = ens.pending[i])
                                         \/ ens'.pending[i] = o
      <4>1. PICK n \in Nat : n = Len(ens.pending) /\ DOMAIN ens.pending = 1 .. n
        BY <2>1, LenProperties
      <4> QED BY <2>1, <2>5, <4>1
    <3> QED BY <2>1, <2>2, <2>5, <3>1, <3>2
  <2> QED BY <1>6, <2>4, <2>5
<1> QED BY <1>7, <1>8, <1>9, <1>10 DEF SimInv

LEMMA SimMark ==
  ASSUME SimInv, Sim!Mark
  PROVE  SimInv'
<1>1. /\ phase = "close" /\ phase' = "mark" /\ both' = both /\ t' = t /\ today' = today
      /\ todo' = todo /\ solo' = solo
      /\ ens' = IF ens.cash < 0 /\ ~both THEN [ens EXCEPT !.cash = @ - Charge, !.paid = @ + Charge] ELSE ens
  BY DEF Sim!Mark
<1>2. CASE ens' = ens
  BY <1>1, <1>2 DEF SimInv, SimTyped, BookKept, Unraised, Raised, Twinned, Apart
<1>3. CASE ~ both /\ ens' = [ens EXCEPT !.cash = @ - Charge, !.paid = @ + Charge]
  <2>1. ens \in Books /\ Charge \in Int
    BY SimConstants DEF SimInv, SimTyped
  <2>2. ens.cash - Charge \in Int /\ ens.paid + Charge \in Int
    BY <2>1, BookIs
  <2>3. ens' \in Books
    BY <1>3, <2>1, <2>2 DEF Books
  <2>4. /\ ens'.cash = ens.cash - Charge /\ ens'.paid = ens.paid + Charge /\ ens'.pos = ens.pos
        /\ ens'.closed = ens.closed /\ ens'.signals = ens.signals /\ ens'.executed = ens.executed
        /\ ens'.blocked = ens.blocked /\ ens'.pending = ens.pending
    BY <1>3, <2>1 DEF Books
  <2>5. Balanced(ens')
    <3>1. Balanced(ens)
      BY DEF SimInv, BookKept
    <3>2. PICK u : u = Won(ens.closed) - Tied(ens.pos)
      OBVIOUS
    <3>3. Won(ens.closed) \in Int /\ Tied(ens.pos) \in Int
      <4>1. \A q \in Seq(Trip) : Won(q) \in Int
        <5> SUFFICES ASSUME NEW q \in Seq(Trip) PROVE Won(q) \in Int
          OBVIOUS
        <5> DEFINE f == [i \in DOMAIN q |-> Sim!pnl(q[i])]
        <5>1. PICK n \in Nat : n = Len(q) /\ DOMAIN q = 1 .. n
          BY LenProperties
        <5>2. \A d \in Trip : Sim!pnl(d) \in Int
          BY PnlInt
        <5>3. \A i \in 1 .. n : f[i] \in Int
          BY <5>1, <5>2
        <5>4. IsFiniteSet(1 .. n)
          BY FS_Interval
        <5>5. Won(q) = SumOf(f, 1 .. n)
          BY <5>1 DEF Won
        <5> HIDE DEF f
        <5> QED BY <5>3, <5>4, <5>5, SumInt
      <4> QED BY <2>1, <4>1, BookIs, TiedIs
    <3>4. PICK w, v, m, p, g, d \in Int :
            /\ w = Won(ens.closed) /\ v = Tied(ens.pos) /\ m = ens.cash /\ p = ens.paid
            /\ g = Charge /\ d = StartCash
      BY <2>1, <3>3, BookIs, SimConstants
    <3>5. m = d - p + w - v
      BY <3>1, <3>4 DEF Balanced
    <3>6. m - g = d - (p + g) + w - v
      BY <3>4, <3>5
    <3> QED BY <2>4, <3>4, <3>6 DEF Balanced
  <2>6. Honest(ens') /\ Due(ens') = 0
    BY <1>1, <2>4 DEF SimInv, BookKept, Honest, Due
  <2>7. Raised(ens'.pos, {}, t)
    BY <2>4 DEF SimInv, BookKept, Raised
  <2>8. SimTyped'
    BY <1>1, <2>3 DEF SimInv, SimTyped
  <2>9. BookKept'
    BY <1>1, <2>5, <2>6, <2>7 DEF BookKept, Unraised
  <2> QED BY <1>1, <1>3, <2>8, <2>9 DEF SimInv, Twinned, Apart
<1> QED BY <1>1, <1>2, <1>3

\* What is left pending expires, and its entries are counted.
LEMMA ExpireIs ==
  ASSUME NEW b \in Books
  PROVE  /\ Sim!Expire(b) \in Books /\ Rested(Sim!Expire(b), b) /\ Sim!Expire(b).pending = <<>>
         /\ Due(Sim!Expire(b)) = Due(b)
<1>1. PICK k \in Nat : k = Sim!Asking(b.pending)
  BY AskingIs, BookIs
<1> DEFINE c == Sim!Expire(b)
           r == "expired_unfilled"
<1>2. c = [b EXCEPT !.blocked = [b.blocked EXCEPT ![r] = @ + k], !.pending = <<>>]
  BY <1>1 DEF Sim!Expire
<1> HIDE DEF c
<1>3. r \in Sim!Reasons
  BY DEF Sim!Reasons
<1> HIDE DEF r
<1>4. [b.blocked EXCEPT ![r] = @ + k] \in [Sim!Reasons -> Nat] /\ <<>> \in Seq(Ask)
  <2>1. PICK f \in [Sim!Reasons -> Nat] : f = b.blocked
    BY BookIs
  <2>2. [f EXCEPT ![r] = @ + k] \in [Sim!Reasons -> Nat]
    BY <1>3
  <2> QED BY <2>1, <2>2
<1>5. c \in Books
  BY <1>2, <1>4 DEF Books
<1>6. /\ Rested(c, b) /\ c.pending = <<>> /\ c.signals = b.signals /\ c.executed = b.executed
      /\ c.blocked = [b.blocked EXCEPT ![r] = @ + k]
  BY <1>2 DEF Rested, Books
<1>7. SumOf(c.blocked, Sim!Reasons) = SumOf(b.blocked, Sim!Reasons) + k
  <2>1. b.blocked \in [Sim!Reasons -> Int]
    BY BookIs
  <2> QED BY <1>3, <1>6, <2>1, SimFinite, SumBump
<1>8. SumOf(b.blocked, Sim!Reasons) \in Int
  BY SimFinite, SumInt, BookIs
<1>9. PICK z, g, y \in Int : z = SumOf(b.blocked, Sim!Reasons) /\ g = b.signals /\ y = b.executed
  BY <1>8, BookIs
<1>10. Due(c) = g - (y + (z + k) + 0) /\ Due(b) = g - (y + z + k)
  BY <1>1, <1>6, <1>7, <1>9, AskingNone DEF Due
<1>11. Due(c) = Due(b)
  BY <1>9, <1>10
<1> QED BY <1>5, <1>6, <1>11 DEF c

LEMMA ClearedIs ==
  ASSUME NEW b \in Books
  PROVE  /\ [b EXCEPT !.pending = <<>>] \in Books /\ [b EXCEPT !.pending = <<>>].pending = <<>>
         /\ [b EXCEPT !.pending = <<>>].cash = b.cash /\ [b EXCEPT !.pending = <<>>].pos = b.pos
         /\ [b EXCEPT !.pending = <<>>].fills = b.fills /\ [b EXCEPT !.pending = <<>>].last_exit = b.last_exit
         /\ [b EXCEPT !.pending = <<>>].closed = b.closed /\ [b EXCEPT !.pending = <<>>].queued = b.queued
         /\ [b EXCEPT !.pending = <<>>].paid = b.paid
<1> DEFINE c == [b EXCEPT !.pending = <<>>]
<1>1. <<>> \in Seq(Ask)
  OBVIOUS
<1>2. c \in Books
  BY <1>1 DEF Books
<1>3. /\ c.pending = <<>> /\ c.cash = b.cash /\ c.pos = b.pos /\ c.fills = b.fills
      /\ c.last_exit = b.last_exit /\ c.closed = b.closed /\ c.queued = b.queued /\ c.paid = b.paid
  BY DEF Books
<1> QED BY <1>2, <1>3

LEMMA SimEnd ==
  ASSUME SimInv, NEW last \in [Sim!Symbols -> Sim!Closes], Sim!End(last)
  PROVE  SimInv'
<1>1. /\ phase = "mark" /\ t > 0 /\ phase' = "done" /\ both' = both /\ t' = t /\ today' = today
      /\ ens' = Sim!Expire(Sim!Liquidate(ens, last))
      /\ solo' = IF both THEN [Sim!Liquidate(solo, last) EXCEPT !.pending = <<>>] ELSE solo
  BY DEF Sim!End
<1>2. last \in [Sim!Symbols -> Int]
  <2>1. Sim!Closes \subseteq Int
    BY SimConstants DEF Sim!Closes
  <2> QED BY <2>1
<1>3. /\ ens \in Books /\ solo \in Books /\ t \in Nat
      /\ Balanced(ens) /\ Honest(ens) /\ Raised(ens.pos, {}, t) /\ Due(ens) = 0
  BY <1>1 DEF SimInv, SimTyped, BookKept, Unraised
<1>4. PICK e \in Books : /\ e = Sim!Liquidate(ens, last) /\ Due(e) = 0 /\ Balanced(e) /\ Honest(e)
                         /\ Raised(e.pos, {}, t)
  BY <1>2, <1>3, LiquidateIs
<1>5. /\ ens' \in Books /\ Rested(ens', e) /\ ens'.pending = <<>> /\ Due(ens') = 0
  BY <1>1, <1>4, ExpireIs
<1>6. Balanced(ens') /\ Honest(ens') /\ ens'.pos = e.pos
  BY <1>4, <1>5, RestedSame DEF Rested
<1>7. solo' \in Books /\ Twinned'
  <2>1. CASE both
    <3>1. Alike(solo, ens)
      BY <2>1 DEF SimInv, Twinned
    <3>2. PICK f \in Books : f = Sim!Liquidate(solo, last)
      BY <1>2, <1>3, LiquidateIs
    <3>3. Alike(f, e)
      BY <1>2, <1>3, <1>4, <3>1, <3>2, LiquidateTwin
    <3>4. solo' = [f EXCEPT !.pending = <<>>]
      BY <1>1, <2>1, <3>2
    <3>5. solo' \in Books
      BY <3>4, ClearedIs
    <3>6. ens' = Sim!Expire(e)
      BY <1>1, <1>4
    <3>7. ens'.fills = e.fills /\ ens'.queued = e.queued
      BY <3>6 DEF Sim!Expire, Books
    <3>8. Alike(solo', ens')
      BY <1>5, <3>3, <3>4, <3>7, ClearedIs DEF Alike, Rested
    <3> QED BY <1>1, <2>1, <3>5, <3>8 DEF Twinned
  <2>2. CASE ~ both
    BY <1>1, <1>3, <2>2 DEF SimInv, Twinned
  <2> QED BY <2>1, <2>2
<1>8. SimTyped'
  BY <1>1, <1>3, <1>5, <1>7 DEF SimInv, SimTyped
<1>9. BookKept'
  BY <1>1, <1>4, <1>5, <1>6 DEF BookKept, Unraised
<1>10. Apart'
  BY <1>1, <1>5 DEF Apart, Tidy
<1> QED BY <1>7, <1>8, <1>9, <1>10 DEF SimInv

LEMMA SimStep == SimInv /\ [Sim!Next]_(Sim!sim) => SimInv'
<1> SUFFICES ASSUME SimInv, [Sim!Next]_(Sim!sim) PROVE SimInv'
  OBVIOUS
<1>1. CASE UNCHANGED Sim!sim
  BY <1>1 DEF Sim!sim, SimInv, SimTyped, BookKept, Unraised, Twinned, Apart
<1>2. ASSUME NEW bars \in [Sim!Symbols -> DayBars \cup {NoBar}], Sim!NextBar(bars) PROVE SimInv'
  BY <1>2, SimBar
<1>3. ASSUME NEW qty \in Sizes, NEW rail \in Rails \cup {Sim!Fine}, Sim!AtOpen(qty, rail) PROVE SimInv'
  BY <1>3, SimOpen
<1>4. ASSUME NEW leave \in BOOLEAN, NEW wants \in Sim!Answers, NEW refuse \in Filters \cup {Sim!Fine},
             Sim!AtClose(leave, wants, refuse)
      PROVE  SimInv'
  BY <1>4, SimClose
<1>5. ASSUME NEW last \in [Sim!Symbols -> Sim!Closes], Sim!End(last) PROVE SimInv'
  BY <1>5, SimEnd
<1> QED BY <1>1, <1>2, <1>3, <1>4, <1>5, SimPhase, SimSkip, SimLegs, SimRefuse, SimMark DEF Sim!Next

LEMMA SimHolds == SimInv => Sim!BooksBalance /\ Sim!SiblingsAgree /\ Sim!NoPeek
<1> SUFFICES ASSUME SimInv PROVE Sim!BooksBalance /\ Sim!SiblingsAgree /\ Sim!NoPeek
  OBVIOUS
<1>1. ens \in Books /\ solo \in Books /\ Balanced(ens) /\ Honest(ens)
  BY DEF SimInv, SimTyped, BookKept
<1>2. Balanced(solo) /\ Honest(solo)
  BY <1>1, AlikeSame, NoRunIs DEF SimInv, Twinned
<1>3. Sim!SiblingsAgree
  BY DEF SimInv, Twinned, Alike, Sim!SiblingsAgree
<1>4. Sim!NoPeek
  BY <1>1, <1>2 DEF Honest, Sim!NoPeek
<1>5. \A b \in {ens, solo} :
        b.cash = StartCash - b.paid
                   + Sim!Total([i \in DOMAIN b.closed |-> Sim!pnl(b.closed[i])], DOMAIN b.closed)
                   - Sim!Total([s \in Sim!HeldIn(b) |-> b.pos[s].qty * b.pos[s].avg + Fee], Sim!HeldIn(b))
  BY <1>1, <1>2, SimTotal DEF Balanced, Won, Tied, Sim!HeldIn
<1>6. ens.signals = ens.executed + Sim!Total(ens.blocked, Sim!Reasons) + Sim!Asking(ens.pending)
                    + (IF phase = "open" THEN Sim!Asking(todo) ELSE 0)
  <2>1. SumOf(ens.blocked, Sim!Reasons) \in Int /\ Sim!Asking(ens.pending) \in Nat
    BY <1>1, SimFinite, SumInt, AskingIs, BookIs
  <2>2. phase = "open" => Sim!Asking(todo) \in Nat
    BY AskingIs DEF SimInv, SimTyped
  <2>3. PICK z, v, g, y, w \in Int :
          /\ z = SumOf(ens.blocked, Sim!Reasons) /\ v = Sim!Asking(ens.pending)
          /\ g = ens.signals /\ y = ens.executed
          /\ w = IF phase = "open" THEN Sim!Asking(todo) ELSE 0
    <3>1. PICK w \in Int : w = IF phase = "open" THEN Sim!Asking(todo) ELSE 0
      BY <2>2
    <3>2. ens.signals \in Int /\ ens.executed \in Int
      BY <1>1, BookIs
    <3> QED BY <2>1, <3>1, <3>2
  <2>4. g - (y + z + v) = w
    BY <2>3 DEF SimInv, BookKept, Due
  <2>5. g = y + z + v + w
    BY <2>3, <2>4
  <2>6. Sim!Total(ens.blocked, Sim!Reasons) = z
    BY <2>3, SimTotal
  <2> QED BY <2>3, <2>5, <2>6
<1> QED BY <1>3, <1>4, <1>5, <1>6 DEF Sim!BooksBalance

\* Whatever the bars, the strategies, their answers and the rails: the books of
\* both simulators balance and no signal is lost, the two agree where they do
\* the same, no trade ends at a stop its own bar had raised (Simulator), and
\* a book at its lowest is not released (DrawdownClock).
THEOREM SimulatorsHold == Sim!Spec /\ Clock!Spec => []SimulatorsHonest
<1>1. Sim!Spec => []SimInv
  BY SimStarts, SimStep, PTL DEF Sim!Spec
<1>2. SimInv /\ Clock!NewLowBlocks => SimulatorsHonest
  BY SimHolds DEF SimulatorsHonest
<1> QED BY <1>1, <1>2, NewLowHeld, PTL

(* The judge's score. *)

Call == {c \in Score!Calls : Score!Possible(c)}
Rulings(c) ==
  {Score!log_judgment(c, d) : d \in {d \in BOOLEAN : d => c.by = "fallback" /\ ~c.old}}

\* What the rows say of the calls: the judge's own are llm rows with a text of
\* the model's, and a rail's are of blocked entries.
LEMMA RulingIs ==
  ASSUME NEW c \in Call, NEW r \in Rulings(c)
  PROVE  /\ Score!_was_actually_judged([row |-> r]) <=> c.by = "model" /\ ~c.blocked
         /\ c.by = "model" /\ ~c.blocked =>
              /\ r.verdict = c.verdict /\ r.executed = (c.verdict # "veto")
              /\ r.confidence = c.confidence /\ r.kind = "llm"
         /\ r.kind = "rails" => c.blocked
         /\ r.kind = "llm" => (c.by = "model" /\ ~c.blocked) \/ (c.old /\ r.confidence = Unstated)
         /\ r.executed \in BOOLEAN
<1>1. PICK d \in BOOLEAN : (d => c.by = "fallback" /\ ~c.old) /\ r = Score!log_judgment(c, d)
  BY DEF Rulings
<1>2. /\ c.by \in {"model", "fallback", "nobody"} /\ c.verdict \in {"approve", "downsize", "veto"}
      /\ c.blocked \in BOOLEAN /\ c.old \in BOOLEAN /\ Score!Possible(c)
  BY DEF Call, Score!Calls
<1> DEFINE z == Score!Refused
<1>3. /\ z.kind = "rails" /\ z.executed = FALSE /\ z.text = "rail"
      /\ [z EXCEPT !.kind = "degraded", !.verdict = "degraded_block"].kind = "degraded"
      /\ [z EXCEPT !.kind = "degraded", !.verdict = "degraded_block"].executed = FALSE
      /\ \A v : /\ [z EXCEPT !.judge_verdict = v].kind = "rails"
                /\ [z EXCEPT !.judge_verdict = v].executed = FALSE
  BY DEF Score!Refused
<1>4. CASE c.by = "nobody"
  <2>1. r = z
    BY <1>1, <1>4 DEF Score!log_judgment
  <2> QED BY <1>2, <1>3, <1>4, <2>1 DEF Score!Possible, Score!_was_actually_judged
<1>5. CASE c.by = "fallback" /\ d
  <2>1. r = [z EXCEPT !.kind = "degraded", !.verdict = "degraded_block"]
    BY <1>1, <1>5 DEF Score!log_judgment
  <2> QED BY <1>2, <1>3, <1>5, <2>1 DEF Score!_was_actually_judged
<1>6. CASE c.by # "nobody" /\ ~(c.by = "fallback" /\ d) /\ c.blocked
  <2>1. \E v : r = [z EXCEPT !.judge_verdict = v]
    BY <1>1, <1>6 DEF Score!log_judgment
  <2>2. PICK v : r = [z EXCEPT !.judge_verdict = v]
    BY <2>1
  <2>3. r.kind = "rails" /\ r.executed = FALSE
    BY <1>3, <2>2
  <2> QED BY <1>6, <2>3 DEF Score!_was_actually_judged
<1>7. CASE c.by # "nobody" /\ ~(c.by = "fallback" /\ d) /\ ~c.blocked
  <2>1. r = [kind |-> IF c.by = "fallback" /\ ~c.old THEN "degraded" ELSE "llm",
             verdict |-> c.verdict, executed |-> c.verdict # "veto",
             judge_verdict |-> Score!NoVerdict, confidence |-> c.confidence,
             text |-> IF c.by = "fallback" THEN "fallback" ELSE "model"]
    BY <1>1, <1>7 DEF Score!log_judgment
  <2>2. /\ r.kind = IF c.by = "fallback" /\ ~c.old THEN "degraded" ELSE "llm"
        /\ r.verdict = c.verdict /\ r.executed = (c.verdict # "veto") /\ r.confidence = c.confidence
        /\ r.text = IF c.by = "fallback" THEN "fallback" ELSE "model"
    BY <2>1
  <2>3. c.by = "model" \/ c.by = "fallback"
    BY <1>2, <1>7
  <2>4. c.by = "fallback" => c.confidence = Unstated
    BY <1>2 DEF Score!Possible
  <2>5. CASE c.by = "model"
    <3>1. ~c.old
      BY <1>2, <2>5 DEF Score!Possible
    <3>2. r.kind = "llm" /\ r.text = "model"
      BY <2>2, <2>5
    <3>3. r.executed \in BOOLEAN
      BY <2>2
    <3> QED BY <1>7, <2>2, <2>5, <3>2, <3>3 DEF Score!_was_actually_judged
  <2>6. CASE c.by = "fallback"
    <3>1. r.text = "fallback" /\ r.kind # "rails" /\ (r.kind = "llm" => c.old)
      BY <2>2, <2>6
    <3>2. r.executed \in BOOLEAN
      BY <2>2
    <3> QED BY <2>2, <2>4, <2>6, <3>1, <3>2 DEF Score!_was_actually_judged
  <2> QED BY <2>3, <2>5, <2>6
<1> QED BY <1>4, <1>5, <1>6, <1>7

Note == [event : {"judgment"}, id : Nat, row : UNION {Rulings(c) : c \in Call}]
        \cup [event : {"resolution"}, id : Nat, good : BOOLEAN]

\* The log has one judgment of each call, as it was made, and resolutions of
\* these by what the calls came to.
ScoreOK ==
  /\ calls \in Seq(Call) /\ log \in Seq(Note)
  /\ \A k \in Score!Judgments : log[k].id \in DOMAIN calls /\ log[k].row \in Rulings(calls[log[k].id])
  /\ \A k, l \in Score!Judgments : log[k].id = log[l].id => k = l
  /\ \A i \in DOMAIN calls : \E k \in Score!Judgments : log[k].id = i
  /\ \A k \in DOMAIN log \ Score!Judgments :
       \E l \in Score!Judgments :
         /\ log[k].id = log[l].id
         /\ log[k].good = Score!assess(log[l].row.executed, calls[log[l].id].profit)

LEMMA ScoreStarts == Score!Init => ScoreOK
<1> SUFFICES ASSUME Score!Init PROVE ScoreOK
  OBVIOUS
<1>1. log = <<>> /\ calls = <<>> /\ DOMAIN log = {} /\ DOMAIN calls = {}
  BY DEF Score!Init
<1>2. calls \in Seq(Call) /\ log \in Seq(Note)
  BY <1>1
<1> QED BY <1>1, <1>2 DEF ScoreOK, Score!Judgments

LEMMA Appended ==
  ASSUME NEW S, NEW q \in Seq(S), NEW e \in S
  PROVE  /\ Append(q, e) \in Seq(S) /\ Len(q) \in Nat
         /\ DOMAIN q = 1 .. Len(q) /\ DOMAIN Append(q, e) = 1 .. Len(q) + 1
         /\ \A i \in 1 .. Len(q) : Append(q, e)[i] = q[i] /\ q[i] \in S
         /\ Append(q, e)[Len(q) + 1] = e
BY LenProperties, AppendProperties

LEMMA ScoreDecides == ScoreOK /\ Score!Decide => ScoreOK'
<1> SUFFICES ASSUME ScoreOK, Score!Decide PROVE ScoreOK'
  OBVIOUS
<1>1. PICK c \in Call, d \in BOOLEAN :
        /\ d => c.by = "fallback" /\ ~c.old
        /\ calls' = Append(calls, c)
        /\ log' = Append(log, [event |-> "judgment", id |-> Len(calls) + 1,
                               row |-> Score!log_judgment(c, d)])
  BY DEF Score!Decide, Call
<1> DEFINE e == [event |-> "judgment", id |-> Len(calls) + 1, row |-> Score!log_judgment(c, d)]
<1>2. calls \in Seq(Call) /\ log \in Seq(Note)
  BY DEF ScoreOK
<1>3. PICK m \in Nat : m = Len(calls)
  BY <1>2, LenProperties
<1>4. PICK n \in Nat : n = Len(log)
  BY <1>2, LenProperties
<1>5. Score!log_judgment(c, d) \in Rulings(c)
  BY <1>1 DEF Rulings
<1>6. e \in Note /\ e.event = "judgment" /\ e.id = m + 1 /\ e.row \in Rulings(c)
  BY <1>3, <1>5 DEF Note
<1> HIDE DEF e
<1>7. log' = Append(log, e) /\ calls' = Append(calls, c)
  BY <1>1 DEF e
<1>8. /\ calls' \in Seq(Call) /\ DOMAIN calls = 1 .. m /\ DOMAIN calls' = 1 .. m + 1
      /\ \A i \in 1 .. m : calls'[i] = calls[i]
      /\ calls'[m + 1] = c
  BY <1>2, <1>3, <1>7, Appended
<1>9. /\ log' \in Seq(Note) /\ DOMAIN log = 1 .. n /\ DOMAIN log' = 1 .. n + 1
      /\ \A i \in 1 .. n : log'[i] = log[i]
      /\ log'[n + 1] = e
  BY <1>2, <1>4, <1>6, <1>7, Appended
<1>10. Score!Judgments' = Score!Judgments \cup {n + 1}
  BY <1>6, <1>9 DEF Score!Judgments
<1>11. \A k \in Score!Judgments :
          k \in 1 .. n /\ log'[k] = log[k] /\ log[k].id \in 1 .. m /\ calls'[log[k].id] = calls[log[k].id]
  <2>1. \A k \in Score!Judgments : k \in 1 .. n /\ log'[k] = log[k] /\ log[k].id \in 1 .. m
    BY <1>8, <1>9 DEF ScoreOK, Score!Judgments
  <2> QED BY <2>1, <1>8
<1>12. \A k \in Score!Judgments' : log'[k].id \in DOMAIN calls' /\ log'[k].row \in Rulings(calls'[log'[k].id])
  <2>1. ASSUME NEW k \in Score!Judgments
        PROVE  log'[k].id \in DOMAIN calls' /\ log'[k].row \in Rulings(calls'[log'[k].id])
    <3>1. log[k].row \in Rulings(calls[log[k].id])
      BY DEF ScoreOK
    <3> QED BY <3>1, <1>8, <1>11
  <2>2. log'[n + 1].id \in DOMAIN calls' /\ log'[n + 1].row \in Rulings(calls'[log'[n + 1].id])
    BY <1>6, <1>8, <1>9
  <2> QED BY <2>1, <2>2, <1>10
<1>13. \A k, l \in Score!Judgments' : log'[k].id = log'[l].id => k = l
  <2>1. ASSUME NEW k \in Score!Judgments, NEW l \in Score!Judgments, log'[k].id = log'[l].id
        PROVE  k = l
    <3>1. log[k].id = log[l].id
      BY <2>1, <1>11
    <3> QED BY <3>1 DEF ScoreOK
  <2>2. \A k \in Score!Judgments : log'[k].id # log'[n + 1].id
    BY <1>6, <1>9, <1>11
  <2> QED BY <2>1, <2>2, <1>10
<1>14. \A i \in DOMAIN calls' : \E k \in Score!Judgments' : log'[k].id = i
  <2>1. ASSUME NEW i \in 1 .. m PROVE \E k \in Score!Judgments' : log'[k].id = i
    <3>1. PICK k \in Score!Judgments : log[k].id = i
      BY <1>8 DEF ScoreOK
    <3> QED BY <3>1, <1>10, <1>11
  <2>2. \E k \in Score!Judgments' : log'[k].id = m + 1
    BY <1>6, <1>9, <1>10
  <2> QED BY <2>1, <2>2, <1>8
<1>15. \A k \in DOMAIN log' \ Score!Judgments' :
         \E l \in Score!Judgments' :
           /\ log'[k].id = log'[l].id
           /\ log'[k].good = Score!assess(log'[l].row.executed, calls'[log'[l].id].profit)
  <2> SUFFICES ASSUME NEW k \in DOMAIN log' \ Score!Judgments'
               PROVE  \E l \in Score!Judgments' :
                        /\ log'[k].id = log'[l].id
                        /\ log'[k].good = Score!assess(log'[l].row.executed, calls'[log'[l].id].profit)
    OBVIOUS
  <2>1. k \in DOMAIN log \ Score!Judgments /\ log'[k] = log[k]
    BY <1>9, <1>10
  <2>2. PICK l \in Score!Judgments :
          /\ log[k].id = log[l].id
          /\ log[k].good = Score!assess(log[l].row.executed, calls[log[l].id].profit)
    BY <2>1 DEF ScoreOK
  <2>3. log'[l] = log[l] /\ calls'[log[l].id] = calls[log[l].id]
    BY <1>11
  <2> QED BY <2>1, <2>2, <2>3, <1>10
<1> QED BY <1>8, <1>9, <1>12, <1>13, <1>14, <1>15 DEF ScoreOK

LEMMA Assessed ==
  ASSUME NEW x, NEW p
  PROVE  Score!assess(x, p) \in BOOLEAN
<1>1. CASE x
  BY <1>1 DEF Score!assess
<1>2. CASE ~x
  BY <1>2 DEF Score!assess
<1> QED BY <1>1, <1>2

LEMMA ScoreResolves == ScoreOK /\ Score!Resolve => ScoreOK'
<1> SUFFICES ASSUME ScoreOK, Score!Resolve PROVE ScoreOK'
  OBVIOUS
<1>1. PICK j \in Score!Judgments :
        log' = Append(log, [event |-> "resolution", id |-> log[j].id,
                 good |-> Score!assess(log[j].row.executed, calls[log[j].id].profit)])
  BY DEF Score!Resolve
<1> DEFINE e == [event |-> "resolution", id |-> log[j].id,
                 good |-> Score!assess(log[j].row.executed, calls[log[j].id].profit)]
<1>2. calls \in Seq(Call) /\ log \in Seq(Note) /\ calls' = calls
  BY DEF ScoreOK, Score!Resolve
<1>3. PICK n \in Nat : n = Len(log)
  BY <1>2, LenProperties
<1>4. log[j].id \in DOMAIN calls /\ log[j].row \in Rulings(calls[log[j].id])
  BY DEF ScoreOK
<1>5. calls[log[j].id] \in Call /\ log[j].id \in Nat
  BY <1>2, <1>4, LenProperties
<1>6. Score!assess(log[j].row.executed, calls[log[j].id].profit) \in BOOLEAN
  BY Assessed
<1>7. e \in Note /\ e.event = "resolution" /\ e.id = log[j].id
      /\ e.good = Score!assess(log[j].row.executed, calls[log[j].id].profit)
  BY <1>5, <1>6 DEF Note
<1> HIDE DEF e
<1>8. log' = Append(log, e)
  BY <1>1 DEF e
<1>9. /\ log' \in Seq(Note) /\ DOMAIN log = 1 .. n /\ DOMAIN log' = 1 .. n + 1
      /\ \A i \in 1 .. n : log'[i] = log[i]
      /\ log'[n + 1] = e
  BY <1>2, <1>3, <1>7, <1>8, Appended
<1>10. Score!Judgments' = Score!Judgments
  BY <1>7, <1>9 DEF Score!Judgments
<1>11. \A k \in Score!Judgments : log'[k] = log[k]
  BY <1>9 DEF Score!Judgments
<1>12. \A k \in DOMAIN log' \ Score!Judgments' :
         \E l \in Score!Judgments' :
           /\ log'[k].id = log'[l].id
           /\ log'[k].good = Score!assess(log'[l].row.executed, calls'[log'[l].id].profit)
  <2> SUFFICES ASSUME NEW k \in DOMAIN log' \ Score!Judgments'
               PROVE  \E l \in Score!Judgments' :
                        /\ log'[k].id = log'[l].id
                        /\ log'[k].good = Score!assess(log'[l].row.executed, calls'[log'[l].id].profit)
    OBVIOUS
  <2>1. CASE k = n + 1
    BY <2>1, <1>2, <1>7, <1>9, <1>10, <1>11
  <2>2. CASE k # n + 1
    <3>1. k \in DOMAIN log \ Score!Judgments /\ log'[k] = log[k]
      BY <2>2, <1>9, <1>10
    <3>2. PICK l \in Score!Judgments :
            /\ log[k].id = log[l].id
            /\ log[k].good = Score!assess(log[l].row.executed, calls[log[l].id].profit)
      BY <3>1 DEF ScoreOK
    <3> QED BY <3>1, <3>2, <1>2, <1>10, <1>11
  <2> QED BY <2>1, <2>2
<1>13. /\ \A k \in Score!Judgments' :
             log'[k].id \in DOMAIN calls' /\ log'[k].row \in Rulings(calls'[log'[k].id])
       /\ \A k, l \in Score!Judgments' : log'[k].id = log'[l].id => k = l
       /\ \A i \in DOMAIN calls' : \E k \in Score!Judgments' : log'[k].id = i
  <2>1. ASSUME NEW k \in Score!Judgments
        PROVE  log[k].id \in DOMAIN calls /\ log[k].row \in Rulings(calls[log[k].id])
    BY DEF ScoreOK
  <2>2. ASSUME NEW k \in Score!Judgments, NEW l \in Score!Judgments, log'[k].id = log'[l].id
        PROVE  k = l
    <3>1. log[k].id = log[l].id
      BY <2>2, <1>11
    <3> QED BY <3>1 DEF ScoreOK
  <2>3. ASSUME NEW i \in DOMAIN calls PROVE \E k \in Score!Judgments : log'[k].id = i
    <3>1. PICK k \in Score!Judgments : log[k].id = i
      BY DEF ScoreOK
    <3> QED BY <3>1, <1>11
  <2> QED BY <2>1, <2>2, <2>3, <1>2, <1>10, <1>11
<1> QED BY <1>2, <1>9, <1>12, <1>13 DEF ScoreOK

LEMMA ScoreHolds == Score!Spec => []ScoreOK
<1>1. ScoreOK /\ [Score!Next]_(Score!score) => ScoreOK'
  <2> SUFFICES ASSUME ScoreOK, [Score!Next]_(Score!score) PROVE ScoreOK'
    OBVIOUS
  <2>1. CASE Score!Decide
    BY <2>1, ScoreDecides
  <2>2. CASE Score!Resolve
    BY <2>2, ScoreResolves
  <2>3. CASE UNCHANGED Score!score
    BY <2>3 DEF Score!score, ScoreOK, Score!Judgments
  <2> QED BY <2>1, <2>2, <2>3 DEF Score!Next
<1> QED BY <1>1, ScoreStarts, PTL DEF Score!Spec

LEMMA ScoreCard ==
  ASSUME NEW S
  PROVE  Score!Cardinality(S) = Cardinality(S)
BY DEF Score!Cardinality, Cardinality, Score!IsFiniteSet, IsFiniteSet

\* A row of the judge's record is that of its call, resolved as the call was.
Tells(r, i) ==
  /\ r.id = i /\ r.row \in Rulings(calls[i]) /\ (r.resolved <=> Score!Resolved(i))
  /\ Score!Resolved(i) => r.good = Score!assess(r.row.executed, calls[i].profit)

LEMMA Replayed ==
  ASSUME ScoreOK
  PROVE  /\ DOMAIN Score!replay = DOMAIN calls
         /\ \A i \in DOMAIN calls : Tells(Score!replay[i], i)
<1>1. {log[k].id : k \in Score!Judgments} = DOMAIN calls
  <2>1. ASSUME NEW i \in DOMAIN calls PROVE i \in {log[k].id : k \in Score!Judgments}
    <3>1. PICK k \in Score!Judgments : log[k].id = i
      BY DEF ScoreOK
    <3> QED BY <3>1
  <2>2. ASSUME NEW k \in Score!Judgments PROVE log[k].id \in DOMAIN calls
    BY DEF ScoreOK
  <2> QED BY <2>1, <2>2
<1>2. ASSUME NEW i \in DOMAIN calls PROVE Tells(Score!replay[i], i)
  <2> DEFINE of == Score!Resolutions(i)
             j == CHOOSE k \in Score!Judgments : log[k].id = i
             r == Score!replay[i]
  <2>1. /\ r.id = i /\ r.row = log[j].row /\ r.resolved = (of # {})
        /\ r.good = (of # {} /\ log[Score!Max(of)].good)
    BY <1>1 DEF Score!replay
  <2>2. \E k \in Score!Judgments : log[k].id = i
    BY DEF ScoreOK
  <2>3. j \in Score!Judgments /\ log[j].id = i
    BY <2>2
  <2> HIDE DEF j, r
  <2>4. r.row \in Rulings(calls[i])
    BY <2>1, <2>3 DEF ScoreOK
  <2>5. of # {} <=> Score!Resolved(i)
    BY DEF Score!Resolutions, Score!Resolved, Score!Range
  <2>6. ASSUME Score!Resolved(i) PROVE r.good = Score!assess(r.row.executed, calls[i].profit)
    <3>1. PICK n \in Nat : n = Len(log) /\ DOMAIN log = 1 .. n
      BY LenProperties DEF ScoreOK
    <3>2. of \subseteq 1 .. n /\ of # {}
      BY <2>5, <2>6, <3>1 DEF Score!Resolutions
    <3>3. IsFiniteSet(of) /\ of \subseteq Int
      <4>1. IsFiniteSet(1 .. n)
        BY FS_Interval
      <4> HIDE DEF of
      <4>2. IsFiniteSet(of)
        BY <3>2, <4>1, FS_Subset
      <4>3. of \subseteq Int
        BY <3>2
      <4> QED BY <4>2, <4>3
    <3>4. Score!Max(of) \in of
      <4> HIDE DEF of
      <4> QED BY <3>2, <3>3, MaxExists DEF Score!Max
    <3>5. PICK k : k = Score!Max(of)
      OBVIOUS
    <3>6. k \in DOMAIN log \ Score!Judgments /\ log[k].id = i
      BY <3>4, <3>5 DEF Score!Resolutions, Score!Judgments
    <3>7. PICK l \in Score!Judgments :
            /\ log[k].id = log[l].id
            /\ log[k].good = Score!assess(log[l].row.executed, calls[log[l].id].profit)
      BY <3>6 DEF ScoreOK
    <3>8. l = j
      BY <2>3, <3>6, <3>7 DEF ScoreOK
    <3>9. log[k].good = Score!assess(r.row.executed, calls[i].profit)
      BY <2>1, <2>3, <3>7, <3>8
    <3>10. Score!assess(r.row.executed, calls[i].profit) \in BOOLEAN
      BY Assessed
    <3>11. r.good = (TRUE /\ log[k].good)
      BY <2>1, <3>2, <3>5
    <3> HIDE DEF of
    <3> QED BY <3>9, <3>10, <3>11
  <2>7. r.resolved <=> Score!Resolved(i)
    BY <2>1, <2>5
  <2> QED BY <2>1, <2>4, <2>6, <2>7 DEF Tells, r
<1> QED BY <1>1, <1>2 DEF Score!replay

LEMMA Reported ==
  ASSUME ScoreOK, NEW D \in SUBSET DOMAIN calls
  PROVE  Score!Cardinality({Score!replay[i] : i \in D}) = Score!Cardinality(D) /\ IsFiniteSet(D)
<1>1. PICK n \in Nat : n = Len(calls) /\ DOMAIN calls = 1 .. n
  BY LenProperties DEF ScoreOK
<1>2. IsFiniteSet(D)
  <2>1. IsFiniteSet(1 .. n)
    BY FS_Interval
  <2> QED BY <1>1, <2>1, FS_Subset
<1> DEFINE f == [i \in D |-> Score!replay[i]]
           T == {Score!replay[i] : i \in D}
<1>3. \A i \in D : f[i].id = i
  BY Replayed DEF Tells
<1>4. f \in Bijection(D, T)
  BY <1>3 DEF Bijection, Injection, Surjection, IsInjective
<1>5. ExistsBijection(D, T)
  BY <1>4 DEF ExistsBijection
<1>6. Cardinality(T) = Cardinality(D)
  BY <1>2, <1>5, FS_Bijection
<1> QED BY <1>2, <1>6, ScoreCard

\* The judge's own calls that came to something, told.
LEMMA LlmIs ==
  ASSUME ScoreOK
  PROVE  Score!llm = {Score!replay[i] : i \in {i \in DOMAIN calls :
           /\ calls[i].by = "model" /\ ~calls[i].blocked /\ Score!Resolved(i)}}
<1> DEFINE D == {i \in DOMAIN calls :
                  /\ calls[i].by = "model" /\ ~calls[i].blocked /\ Score!Resolved(i)}
<1>1. ASSUME NEW i \in DOMAIN calls
      PROVE  /\ Score!replay[i] \in Score!Rows
             /\ Score!_was_actually_judged(Score!replay[i]) /\ Score!replay[i].resolved <=> i \in D
  <2>1. /\ Score!replay[i].row \in Rulings(calls[i]) /\ calls[i] \in Call
        /\ (Score!replay[i].resolved <=> Score!Resolved(i))
    BY Replayed, LenProperties DEF Tells, ScoreOK
  <2>2. Score!_was_actually_judged([row |-> Score!replay[i].row])
          <=> calls[i].by = "model" /\ ~calls[i].blocked
    BY <2>1, RulingIs
  <2> QED BY <2>1, <2>2, Replayed DEF Score!_was_actually_judged, Score!Rows, Score!Range
<1>2. ASSUME NEW j \in Score!Rows PROVE \E i \in DOMAIN calls : j = Score!replay[i]
  BY Replayed DEF Score!Rows, Score!Range
<1>3. Score!llm \subseteq {Score!replay[i] : i \in D}
  BY <1>1, <1>2 DEF Score!llm
<1>4. {Score!replay[i] : i \in D} \subseteq Score!llm
  BY <1>1 DEF Score!llm
<1> QED BY <1>3, <1>4

\* The image of a finite set.
LEMMA Imaged ==
  ASSUME NEW D, IsFiniteSet(D), NEW f, NEW T, T = {f[i] : i \in D}
  PROVE  IsFiniteSet(T)
<1> DEFINE g == [i \in D |-> f[i]]
<1>1. g \in Surjection(D, T)
  BY DEF Surjection
<1> QED BY <1>1, FS_Surjection

\* A share of the record's rows is the share of the calls they tell of.
LEMMA Shared ==
  ASSUME ScoreOK, NEW made \in SUBSET DOMAIN calls, NEW right,
         NEW items, items = {Score!replay[i] : i \in {i \in made : Score!Resolved(i)}},
         \A i \in made : Score!Resolved(i) => (Score!replay[i].good <=> i \in right)
  PROVE  Score!_rate(items) = Score!Share(made, right)
<1> DEFINE due == {i \in made : Score!Resolved(i)}
<1>1. Score!Cardinality(items) = Score!Cardinality(due)
  BY Reported
<1>2. {j \in items : j.good} = {Score!replay[i] : i \in due \cap right}
  <2>1. ASSUME NEW j \in items, j.good PROVE j \in {Score!replay[i] : i \in due \cap right}
    <3>1. PICK i \in due : j = Score!replay[i]
      OBVIOUS
    <3> QED BY <2>1, <3>1
  <2>2. ASSUME NEW i \in due \cap right PROVE Score!replay[i] \in {j \in items : j.good}
    OBVIOUS
  <2> QED BY <2>1, <2>2
<1>3. Score!Cardinality({j \in items : j.good}) = Score!Cardinality(due \cap right)
  BY <1>2, Reported
<1> QED BY <1>1, <1>3 DEF Score!_rate, Score!Share

LEMMA EarnedIs == ScoreOK => Score!ScoreEarned
<1> SUFFICES ASSUME ScoreOK PROVE Score!ScoreEarned
  OBVIOUS
<1> DEFINE D == {i \in DOMAIN calls : calls[i].by = "model" /\ ~calls[i].blocked /\ Score!Resolved(i)}
<1>1. Score!llm = {Score!replay[i] : i \in D}
  BY LlmIs
<1>2. ASSUME NEW i \in DOMAIN calls
      PROVE  /\ calls[i] \in Call /\ Score!replay[i].row \in Rulings(calls[i])
             /\ Score!replay[i].id = i /\ (Score!replay[i].resolved <=> Score!Resolved(i))
             /\ Score!Resolved(i) => Score!replay[i].good
                                       = Score!assess(Score!replay[i].row.executed, calls[i].profit)
             /\ calls[i].profit \in Int /\ Score!Possible(calls[i]) /\ calls[i].blocked \in BOOLEAN
  <2>1. calls[i] \in Call
    BY LenProperties DEF ScoreOK
  <2>2. calls[i].profit \in Int
    BY <2>1, JudgeScoreAssumption DEF Call, Score!Calls, Score!JudgeScoreConstants
  <2> QED BY <2>1, <2>2, Replayed DEF Tells, Call, Score!Calls
<1>3. \A i \in D : /\ Score!replay[i].row.verdict = calls[i].verdict
                   /\ Score!replay[i].row.executed = (calls[i].verdict # "veto")
  BY <1>2, RulingIs
<1>4. Score!calibration_metrics.veto_precision = Score!Share(Score!Vetoed, DOMAIN calls \ Score!Paid)
  <2>1. Score!vetoes = {Score!replay[i] : i \in {i \in Score!Vetoed : Score!Resolved(i)}}
    <3>1. {i \in D : Score!replay[i].row.verdict = "veto"} = {i \in Score!Vetoed : Score!Resolved(i)}
      BY <1>2, <1>3 DEF Score!Vetoed, Score!Possible
    <3>2. Score!vetoes = {Score!replay[i] : i \in {i \in D : Score!replay[i].row.verdict = "veto"}}
      <4> HIDE DEF D
      <4> QED BY <1>1 DEF Score!vetoes
    <3> QED BY <3>1, <3>2
  <2>2. ASSUME NEW i \in Score!Vetoed, Score!Resolved(i)
        PROVE  Score!replay[i].good <=> i \in DOMAIN calls \ Score!Paid
    <3>1. i \in D /\ i \in DOMAIN calls /\ calls[i].verdict = "veto"
      BY <1>2, <2>2 DEF Score!Vetoed, Score!Possible
    <3>2. Score!replay[i].row.executed = FALSE
      BY <1>3, <3>1
    <3>3. Score!replay[i].good = (calls[i].profit <= 0)
      BY <1>2, <2>2, <3>1, <3>2 DEF Score!assess
    <3>4. PICK p \in Int : p = calls[i].profit
      BY <1>2, <3>1
    <3>5. Score!replay[i].good <=> ~ (p > 0)
      <4>1. CASE p > 0
        <5>1. ~ (calls[i].profit <= 0)
          BY <3>4, <4>1
        <5> QED BY <3>3, <4>1, <5>1
      <4>2. CASE ~ (p > 0)
        <5>1. calls[i].profit <= 0
          BY <3>4, <4>2
        <5> QED BY <3>3, <4>2, <5>1
      <4> QED BY <4>1, <4>2
    <3> QED BY <3>1, <3>4, <3>5 DEF Score!Paid
  <2>3. Score!Vetoed \in SUBSET DOMAIN calls
    BY DEF Score!Vetoed
  <2>4. Score!_rate(Score!vetoes) = Score!Share(Score!Vetoed, DOMAIN calls \ Score!Paid)
    BY <2>1, <2>2, <2>3, Shared
  <2> QED BY <2>4 DEF Score!calibration_metrics
<1>5. Score!calibration_metrics.approve_accuracy = Score!Share(Score!Approved, Score!Paid)
  <2>1. Score!approves = {Score!replay[i] : i \in {i \in Score!Approved : Score!Resolved(i)}}
    <3>1. {i \in D : Score!replay[i].row.executed} = {i \in Score!Approved : Score!Resolved(i)}
      BY <1>2, <1>3 DEF Score!Approved
    <3>2. Score!approves = {Score!replay[i] : i \in {i \in D : Score!replay[i].row.executed}}
      <4> HIDE DEF D
      <4> QED BY <1>1 DEF Score!approves
    <3> QED BY <3>1, <3>2
  <2>2. ASSUME NEW i \in Score!Approved, Score!Resolved(i)
        PROVE  Score!replay[i].good <=> i \in Score!Paid
    <3>1. i \in D /\ i \in DOMAIN calls /\ calls[i].verdict # "veto"
      BY <2>2 DEF Score!Approved
    <3>2. Score!replay[i].row.executed = TRUE
      BY <1>3, <3>1
    <3>3. Score!replay[i].good = (calls[i].profit > 0)
      BY <1>2, <2>2, <3>1, <3>2 DEF Score!assess
    <3> QED BY <1>2, <3>1, <3>3 DEF Score!Paid
  <2>3. Score!Approved \in SUBSET DOMAIN calls
    BY DEF Score!Approved
  <2>4. Score!_rate(Score!approves) = Score!Share(Score!Approved, Score!Paid)
    BY <2>1, <2>2, <2>3, Shared
  <2> QED BY <2>4 DEF Score!calibration_metrics
<1>6. Score!calibration_metrics.n_resolved = Score!Cardinality(Score!vetoes) + Score!Cardinality(Score!approves)
  <2>1. Score!llm = Score!vetoes \cup Score!approves /\ Score!vetoes \cap Score!approves = {}
    <3>1. ASSUME NEW j \in Score!llm PROVE j.row.executed = (j.row.verdict # "veto")
      <4>1. PICK i \in D : j = Score!replay[i]
        BY <1>1
      <4> QED BY <1>3, <4>1
    <3> QED BY <3>1 DEF Score!vetoes, Score!approves
  <2>2. IsFiniteSet(Score!llm)
    <3>1. D \in SUBSET DOMAIN calls
      OBVIOUS
    <3>2. IsFiniteSet(D)
      <4> HIDE DEF D
      <4> QED BY <3>1, Reported
    <3> HIDE DEF D
    <3> QED BY <1>1, <3>2, Imaged
  <2>3. IsFiniteSet(Score!vetoes) /\ IsFiniteSet(Score!approves)
    BY <2>1, <2>2, FS_Subset
  <2>4. PICK v, a \in Nat : v = Cardinality(Score!vetoes) /\ a = Cardinality(Score!approves)
    BY <2>3, FS_CardinalityType
  <2>5. Cardinality(Score!llm) = v + a
    <3>1. Cardinality(Score!llm) = v + a - Cardinality(Score!vetoes \cap Score!approves)
      BY <2>1, <2>3, <2>4, FS_Union
    <3>2. Cardinality(Score!vetoes \cap Score!approves) = 0
      BY <2>1, FS_EmptySet
    <3> QED BY <3>1, <3>2
  <2> QED BY <2>4, <2>5, ScoreCard DEF Score!calibration_metrics
<1>7. ASSUME NEW j \in Score!rails PROVE calls[j.id].blocked
  <2>1. PICK i \in DOMAIN calls : j = Score!replay[i]
    BY Replayed DEF Score!rails, Score!Rows, Score!Range
  <2>2. j.row.kind = "rails"
    BY DEF Score!rails
  <2>3. Score!replay[i].row.kind = "rails" => calls[i].blocked
    BY <1>2, RulingIs
  <2> QED BY <1>2, <2>1, <2>2, <2>3
<1> QED BY <1>4, <1>5, <1>6, <1>7 DEF Score!ScoreEarned

LEMMA ShownIs == ScoreOK => Score!ShownEarned
<1> SUFFICES ASSUME ScoreOK PROVE Score!ShownEarned
  OBVIOUS
<1>1. ASSUME NEW i \in DOMAIN calls
      PROVE  /\ calls[i] \in Call /\ Score!replay[i].row \in Rulings(calls[i])
             /\ Score!replay[i].id = i /\ (Score!replay[i].resolved <=> Score!Resolved(i))
  BY Replayed, LenProperties DEF Tells, ScoreOK
<1>2. ASSUME NEW j \in Score!recent_outcomes_block
      PROVE  \E i \in DOMAIN calls : /\ j = Score!replay[i] /\ Score!Resolved(i)
                                     /\ j.row.kind = "llm"
  BY <1>1, Replayed DEF Score!recent_outcomes_block, Score!Rows, Score!Range
<1>3. ASSUME NEW j \in Score!recent_outcomes_block PROVE calls[j.id].by = "model" \/ calls[j.id].old
  <2>1. PICK i \in DOMAIN calls : j = Score!replay[i] /\ j.row.kind = "llm"
    BY <1>2
  <2> QED BY <1>1, <2>1, RulingIs
<1>4. ASSUME NEW tenth \in Confidences \ {Unstated}
      PROVE  Score!confidence_calibration(tenth)[2] =
               Score!Cardinality({i \in Score!Approved :
                                    calls[i].confidence = tenth /\ Score!Resolved(i)})
  <2> DEFINE stated == {j \in Score!recent_outcomes_block :
                          j.row.executed /\ j.row.confidence = tenth}
             D == {i \in Score!Approved : calls[i].confidence = tenth /\ Score!Resolved(i)}
  <2>1. ASSUME NEW j \in stated PROVE j \in {Score!replay[i] : i \in D}
    <3>1. PICK i \in DOMAIN calls : j = Score!replay[i] /\ Score!Resolved(i) /\ j.row.kind = "llm"
      BY <1>2
    <3>2. calls[i].by = "model" /\ ~calls[i].blocked
      <4>1. (calls[i].by = "model" /\ ~calls[i].blocked) \/ j.row.confidence = Unstated
        BY <1>1, <3>1, RulingIs
      <4>2. j.row.confidence # Unstated
        OBVIOUS
      <4> QED BY <4>1, <4>2
    <3>3. j.row.executed = (calls[i].verdict # "veto") /\ j.row.confidence = calls[i].confidence
      <4>1. /\ Score!replay[i].row.executed = (calls[i].verdict # "veto")
            /\ Score!replay[i].row.confidence = calls[i].confidence
        BY <1>1, <3>1, <3>2, RulingIs
      <4> QED BY <3>1, <4>1
    <3>4. i \in D
      BY <3>1, <3>2, <3>3 DEF Score!Approved
    <3> QED BY <3>1, <3>4
  <2>2. ASSUME NEW i \in D PROVE Score!replay[i] \in stated
    <3>1. i \in DOMAIN calls /\ calls[i].by = "model" /\ ~calls[i].blocked /\ calls[i].verdict # "veto"
      BY DEF Score!Approved
    <3>2. /\ Score!replay[i].row.kind = "llm" /\ Score!replay[i].row.executed = TRUE
          /\ Score!replay[i].row.confidence = tenth
      <4> DEFINE r == Score!replay[i].row
      <4>1. r \in Rulings(calls[i]) /\ calls[i] \in Call
        BY <1>1, <3>1
      <4> HIDE DEF r
      <4>2. r.kind = "llm" /\ r.executed = (calls[i].verdict # "veto") /\ r.confidence = calls[i].confidence
        BY <3>1, <4>1, RulingIs
      <4> USE DEF r
      <4> QED BY <3>1, <4>2
    <3>3. Score!replay[i] \in Score!Rows /\ Score!replay[i].resolved
      BY <1>1, <3>1, Replayed DEF Score!Rows, Score!Range
    <3> QED BY <3>2, <3>3 DEF Score!recent_outcomes_block
  <2>3. stated = {Score!replay[i] : i \in D} /\ D \in SUBSET DOMAIN calls
    BY <2>1, <2>2 DEF Score!Approved
  <2>4. Score!confidence_calibration(tenth)[2] = Score!Cardinality(stated)
    BY DEF Score!confidence_calibration
  <2> HIDE DEF D, stated
  <2>5. Score!Cardinality(stated) = Score!Cardinality(D)
    BY <2>3, Reported
  <2> QED BY <2>4, <2>5 DEF D
<1> QED BY <1>3, <1>4 DEF Score!ShownEarned

(* The research record. *)

LEMMA RecSum ==
  ASSUME NEW f, NEW S
  PROVE  Rec!SumFunctionOnSet(f, S) = SumOf(f, S)
BY DEF Rec!SumFunctionOnSet, Rec!FoldFunctionOnSet, Rec!MapThenFoldSet, SumOf, MapThenSumSet,
       MapThenFoldSet

LEMMA RecCard ==
  ASSUME NEW S
  PROVE  Rec!Cardinality(S) = Cardinality(S)
BY DEF Rec!Cardinality, Cardinality, Rec!IsFiniteSet, IsFiniteSet

LEMMA Disjoint ==
  ASSUME NEW A, NEW B, IsFiniteSet(A), IsFiniteSet(B), A \cap B = {}
  PROVE  /\ IsFiniteSet(A \cup B) /\ Cardinality(A) \in Nat /\ Cardinality(B) \in Nat
         /\ Cardinality(A \cup B) = Cardinality(A) + Cardinality(B)
<1>1. PICK a, b \in Nat : a = Cardinality(A) /\ b = Cardinality(B)
  BY FS_CardinalityType
<1>2. Cardinality(A \cap B) = 0
  BY FS_EmptySet
<1>3. IsFiniteSet(A \cup B) /\ Cardinality(A \cup B) = a + b - Cardinality(A \cap B)
  BY <1>1, FS_Union
<1> QED BY <1>1, <1>2, <1>3

Class(A, f, s) == {a \in A : f[a] = s}

\* A set is as large as its parts together.
LEMMA Partitioned ==
  ASSUME NEW A, IsFiniteSet(A), NEW S, IsFiniteSet(S), NEW f, \A a \in A : f[a] \in S,
         NEW g, \A s \in S : g[s] = Cardinality(Class(A, f, s))
  PROVE  SumOf(g, S) = Cardinality(A)
<1> DEFINE Of(T) == {a \in A : f[a] \in T}
           Bad(T) == SumOf(g, T) # Cardinality(Of(T))
           N == {n \in Nat : \E T \in SUBSET S : Cardinality(T) = n /\ Bad(T)}
<1> USE DEF Class
<1>1. \A s \in S : IsFiniteSet({a \in A : f[a] = s}) /\ g[s] \in Nat
  <2>1. ASSUME NEW s \in S PROVE IsFiniteSet({a \in A : f[a] = s}) /\ g[s] \in Nat
    <3>1. IsFiniteSet({a \in A : f[a] = s})
      BY FS_Subset
    <3> QED BY <3>1, FS_CardinalityType
  <2> QED BY <2>1
<1>2. N = {}
  <2> SUFFICES ASSUME N # {} PROVE FALSE
    OBVIOUS
  <2>1. PICK n \in N : \A m \in N : n <= m
    BY LeastOf
  <2>2. PICK T \in SUBSET S : Cardinality(T) = n /\ Bad(T)
    BY <2>1
  <2>3. IsFiniteSet(T)
    BY FS_Subset
  <2>4. T # {}
    <3>1. Of({}) = {}
      OBVIOUS
    <3>2. SumOf(g, {}) = 0 /\ Cardinality({}) = 0
      BY SumEmpty, FS_EmptySet
    <3> QED BY <2>2, <3>1, <3>2
  <2>5. PICK s : s \in T
    BY <2>4
  <2> DEFINE R == T \ {s}
  <2>6. R \in SUBSET S /\ IsFiniteSet(R) /\ s \notin R /\ T = R \cup {s} /\ s \in S
    BY <2>3, <2>5, FS_Subset
  <2>7. Cardinality(R) \in Nat /\ ~ (n <= Cardinality(R))
    <3>1. PICK a, b \in Nat : a = Cardinality(T) /\ b = Cardinality(R) /\ b = a - 1
      BY <2>3, <2>5, SmallerSet
    <3>2. ~ (n <= b)
      BY <2>2, <3>1
    <3> QED BY <3>1, <3>2
  <2>8. ~ Bad(R)
    <3> HIDE DEF Bad, R
    <3> QED BY <2>1, <2>6, <2>7
  <2>9. SumOf(g, T) = g[s] + SumOf(g, R)
    <3> HIDE DEF R
    <3>1. ASSUME NEW y \in R \cup {s} PROVE g[y] \in Int
      <4>1. y \in S
        BY <2>6
      <4>2. g[y] \in Nat
        BY <1>1, <4>1
      <4> QED BY <4>2
    <3> QED BY <2>6, <3>1, SumAdd
  <2>10. Cardinality(Of(T)) = Cardinality(Of(R)) + g[s]
    <3>1. Of(T) = Of(R) \cup {a \in A : f[a] = s} /\ Of(R) \cap {a \in A : f[a] = s} = {}
      BY <2>6
    <3>2. IsFiniteSet(Of(R))
      BY FS_Subset
    <3> DEFINE P == Of(R)
               Q == {a \in A : f[a] = s}
    <3>3. IsFiniteSet(P) /\ IsFiniteSet(Q) /\ P \cap Q = {} /\ Of(T) = P \cup Q
      BY <1>1, <2>6, <3>1, <3>2
    <3>4. g[s] = Cardinality(Q)
      BY <2>6
    <3> HIDE DEF P, Q
    <3>5. Cardinality(P \cup Q) = Cardinality(P) + Cardinality(Q)
      BY <3>3, Disjoint
    <3>6. Cardinality(Of(T)) = Cardinality(P) + g[s]
      BY <3>3, <3>4, <3>5
    <3> QED BY <3>6 DEF P
  <2>11. PICK x, y \in Nat : x = g[s] /\ y = Cardinality(Of(R))
    <3>1. IsFiniteSet(Of(R))
      BY FS_Subset
    <3> QED BY <1>1, <2>6, <3>1, FS_CardinalityType
  <2>12. SumOf(g, R) = y
    BY <2>8, <2>11
  <2> HIDE DEF Of, R
  <2>13. SumOf(g, T) = Cardinality(Of(T))
    BY <2>9, <2>10, <2>11, <2>12
  <2> QED BY <2>2, <2>13
<1>3. SumOf(g, S) = Cardinality(Of(S))
  <2>1. Cardinality(S) \in Nat /\ S \in SUBSET S
    BY FS_CardinalityType
  <2> QED BY <1>2, <2>1
<1>4. Of(S) = A
  OBVIOUS
<1> QED BY <1>3, <1>4

Ruling == [id : Rec!Ids, under : Int, passed : BOOLEAN]
Reading == [id : Rec!Ids, prior : Int, quote : Int, direction : Rec!Directions]

\* A verdict was run under the prior that is registered, and nobody who asked
\* before it came may still append, unless the spec was overtaken.
Rightful(row) ==
  \/ row.id \in overtaken
  \/ /\ row.under = regs[row.id] /\ regs[row.id] # 0
     /\ \A e \in asked : e.id # row.id

RecordOK ==
  /\ regs \in [Rec!Ids -> Nat] /\ rows \in Seq(Ruling) /\ read \in Seq(Reading)
  /\ asked \subseteq [id : Rec!Ids, prior : Nat]
  /\ running \subseteq [id : Rec!Ids, under : Nat \ {0}]
  /\ \A k \in DOMAIN rows : Rightful(rows[k])

LEMMA RecordHolds == Rec!Spec => []RecordOK
<1>1. Rec!Init => RecordOK
  <2> SUFFICES ASSUME Rec!Init PROVE RecordOK
    OBVIOUS
  <2>1. /\ rows = <<>> /\ read = <<>> /\ DOMAIN rows = {} /\ regs \in [Rec!Ids -> Nat]
        /\ asked = {} /\ running = {}
    BY DEF Rec!Init
  <2>2. rows \in Seq(Ruling) /\ read \in Seq(Reading)
    BY <2>1
  <2> QED BY <2>1, <2>2 DEF RecordOK
<1>2. RecordOK /\ [Rec!Next]_(Rec!record) => RecordOK'
  <2> SUFFICES ASSUME RecordOK, [Rec!Next]_(Rec!record) PROVE RecordOK'
    OBVIOUS
  <2>1. \A k \in DOMAIN rows : rows[k] \in Ruling /\ rows[k].id \in Rec!Ids
    <3>1. ASSUME NEW k \in DOMAIN rows PROVE rows[k] \in Ruling
      BY LenProperties DEF RecordOK
    <3> QED BY <3>1 DEF Ruling
  <2>2. ASSUME NEW s, NEW tr, Rec!Write(s, tr) PROVE RecordOK'
    BY <2>2 DEF Rec!Write, RecordOK, Rightful
  <2>3. ASSUME NEW i \in Rec!Ids, NEW p \in 1 .. MaxPriors, Rec!Register(i, p) PROVE RecordOK'
    <3> DEFINE e == [id |-> i, prior |-> p]
    <3>1. /\ asked' = asked \cup {e}
          /\ regs[i] > 0 => \A k \in DOMAIN rows : rows[k].id # i
          /\ UNCHANGED <<regs, running, rows, read, overtaken>>
      BY <2>3 DEF Rec!Register
    <3>2. e \in [id : Rec!Ids, prior : Nat] /\ e.id = i
      OBVIOUS
    <3> HIDE DEF e
    <3>3. ASSUME NEW k \in DOMAIN rows PROVE Rightful(rows[k])'
      <4>1. PICK n \in Nat : n = regs[i]
        BY DEF RecordOK
      <4>2. n > 0 => rows[k].id # i
        BY <3>1, <4>1
      <4>3. Rightful(rows[k]) /\ (regs[i] # 0 => rows[k].id # i)
        BY <4>1, <4>2 DEF RecordOK
      <4> QED BY <3>1, <3>2, <4>3 DEF Rightful
    <3> QED BY <3>1, <3>2, <3>3 DEF RecordOK
  <2>4. ASSUME NEW a \in asked, Rec!AppendRow(a) PROVE RecordOK'
    <3>1. /\ regs' = [regs EXCEPT ![a.id] = a.prior]
          /\ UNCHANGED <<asked, running, rows, read, overtaken>>
      BY <2>4 DEF Rec!AppendRow
    <3>2. a.id \in Rec!Ids /\ a.prior \in Nat
      BY DEF RecordOK
    <3>3. regs' \in [Rec!Ids -> Nat] /\ \A i \in Rec!Ids \ {a.id} : regs'[i] = regs[i]
      BY <3>1, <3>2 DEF RecordOK
    <3>4. ASSUME NEW k \in DOMAIN rows PROVE Rightful(rows[k])'
      <4>1. Rightful(rows[k]) /\ rows[k].id \in Rec!Ids
        BY <2>1 DEF RecordOK
      <4>2. CASE rows[k].id = a.id
        BY <3>1, <4>1, <4>2 DEF Rightful
      <4>3. CASE rows[k].id # a.id
        BY <3>1, <3>3, <4>1, <4>3 DEF Rightful
      <4> QED BY <4>2, <4>3
    <3> QED BY <3>1, <3>3, <3>4 DEF RecordOK
  <2>5. ASSUME NEW i \in Rec!Ids, Rec!LoseRows(i) PROVE RecordOK'
    <3>1. /\ regs' = [regs EXCEPT ![i] = 0] /\ overtaken' = overtaken \cup {i}
          /\ UNCHANGED <<asked, running, rows, read>>
      BY <2>5 DEF Rec!LoseRows
    <3>2. regs' \in [Rec!Ids -> Nat] /\ \A j \in Rec!Ids \ {i} : regs'[j] = regs[j]
      BY <3>1 DEF RecordOK
    <3>3. ASSUME NEW k \in DOMAIN rows PROVE Rightful(rows[k])'
      <4>1. Rightful(rows[k]) /\ rows[k].id \in Rec!Ids
        BY <2>1 DEF RecordOK
      <4>2. CASE rows[k].id = i
        BY <3>1, <4>2 DEF Rightful
      <4>3. CASE rows[k].id # i
        BY <3>1, <3>2, <4>1, <4>3 DEF Rightful
      <4> QED BY <4>2, <4>3
    <3> QED BY <3>1, <3>2, <3>3 DEF RecordOK
  <2>6. ASSUME NEW i \in Rec!Ids, Rec!Begin(i) PROVE RecordOK'
    <3>1. /\ running' = running \cup {[id |-> i, under |-> regs[i]]} /\ regs[i] > 0
          /\ UNCHANGED <<regs, asked, rows, read, overtaken>>
      BY <2>6 DEF Rec!Begin
    <3>2. regs[i] \in Nat \ {0}
      BY <3>1 DEF RecordOK
    <3> QED BY <3>1, <3>2 DEF RecordOK, Rightful
  <2>7. ASSUME NEW run \in running, NEW p \in BOOLEAN, Rec!Rule(run, p) PROVE RecordOK'
    <3> DEFINE e == [id |-> run.id, under |-> run.under, passed |-> p]
    <3>1. /\ rows' = Append(rows, e) /\ UNCHANGED <<regs, asked, running, read>>
          /\ overtaken' = IF Rec!Overtook(run) THEN overtaken \cup {run.id} ELSE overtaken
      BY <2>7 DEF Rec!Rule
    <3>2. run.id \in Rec!Ids /\ run.under \in Nat \ {0}
      BY DEF RecordOK
    <3>3. e \in Ruling /\ e.id = run.id /\ e.under = run.under
      BY <3>2 DEF Ruling
    <3> HIDE DEF e
    <3>4. Rightful(e)'
      <4>1. CASE Rec!Overtook(run)
        BY <3>1, <3>3, <4>1 DEF Rightful
      <4>2. CASE ~Rec!Overtook(run)
        <5>1. regs[run.id] = run.under /\ \A a \in asked : a.id # run.id
          BY <4>2 DEF Rec!Overtook
        <5> QED BY <3>1, <3>2, <3>3, <5>1 DEF Rightful
      <4> QED BY <4>1, <4>2
    <3>5. PICK n \in Nat : n = Len(rows)
      BY LenProperties DEF RecordOK
    <3>6. /\ rows' \in Seq(Ruling) /\ DOMAIN rows = 1 .. n /\ DOMAIN rows' = 1 .. n + 1
          /\ \A k \in 1 .. n : rows'[k] = rows[k]
          /\ rows'[n + 1] = e
      BY <3>1, <3>3, <3>5, Appended DEF RecordOK
    <3>7. \A k \in 1 .. n + 1 : k \in 1 .. n \/ k = n + 1
      OBVIOUS
    <3>8. ASSUME NEW k \in DOMAIN rows' PROVE Rightful(rows[k])'
      <4>1. CASE k = n + 1
        BY <3>4, <3>6, <4>1 DEF Rightful
      <4>2. CASE k \in 1 .. n
        <5>1. Rightful(rows[k]) /\ rows'[k] = rows[k]
          BY <3>6, <4>2 DEF RecordOK
        <5> QED BY <3>1, <5>1 DEF Rightful
      <4> QED BY <3>6, <3>7, <4>1, <4>2
    <3> QED BY <3>1, <3>6, <3>8 DEF RecordOK
  <2>8. CASE Rec!Over
    <3>1. /\ asked' \subseteq asked /\ running' \subseteq running
          /\ UNCHANGED <<regs, rows, read, overtaken>>
      BY <2>8 DEF Rec!Over
    <3>2. \A k \in DOMAIN rows : Rightful(rows[k])'
      BY <3>1 DEF RecordOK, Rightful
    <3> QED BY <3>1, <3>2 DEF RecordOK
  <2>9. ASSUME NEW i \in Rec!Ids, NEW p \in 1 .. MaxPriors, NEW q \in 1 .. MaxPriors,
               NEW d \in Rec!Directions, Rec!Read(i, p, q, d)
        PROVE  RecordOK'
    <3> DEFINE e == [id |-> i, prior |-> p, quote |-> q, direction |-> d]
    <3>1. read' = Append(read, e) /\ UNCHANGED <<regs, asked, running, rows, overtaken>>
      BY <2>9 DEF Rec!Read
    <3>2. e \in Reading
      BY DEF Reading
    <3> HIDE DEF e
    <3>3. read' \in Seq(Reading)
      BY <3>1, <3>2, AppendProperties DEF RecordOK
    <3> QED BY <3>1, <3>3 DEF RecordOK, Rightful
  <2>10. CASE Rec!cmd_anchors
    BY <2>10 DEF Rec!cmd_anchors, RecordOK, Rightful
  <2>11. CASE UNCHANGED Rec!record
    BY <2>11 DEF Rec!record, RecordOK, Rightful
  <2> QED BY <2>2, <2>3, <2>4, <2>5, <2>6, <2>7, <2>8, <2>9, <2>10, <2>11
          DEF Rec!Next
<1> QED BY <1>1, <1>2, PTL DEF Rec!Spec

LEMMA RecMax ==
  ASSUME NEW S, IsFiniteSet(S), S # {}, S \subseteq Int
  PROVE  Rec!Max(S) \in S
BY MaxExists DEF Rec!Max

\* The last row of an id is one of its rows.
LEMMA Latest ==
  ASSUME NEW Q, NEW q \in Seq(Q), NEW i, i \in {q[k].id : k \in DOMAIN q}
  PROVE  Rec!LatestOf(q, i) \in DOMAIN q /\ q[Rec!LatestOf(q, i)].id = i
<1>1. PICK n \in Nat : n = Len(q) /\ DOMAIN q = 1 .. n
  BY LenProperties
<1> DEFINE K == {k \in DOMAIN q : q[k].id = i}
<1>2. K # {} /\ K \subseteq 1 .. n
  BY <1>1
<1>3. IsFiniteSet(1 .. n)
  BY FS_Interval
<1> HIDE DEF K
<1>4. IsFiniteSet(K)
  BY <1>2, <1>3, FS_Subset
<1>5. K \subseteq Int
  BY <1>2
<1>6. Rec!Max(K) \in K
  BY <1>2, <1>4, <1>5, RecMax
<1>7. Rec!LatestOf(q, i) \in K
  BY <1>6 DEF K, Rec!LatestOf
<1> QED BY <1>7 DEF K

LEMMA RegisteredIs ==
  ASSUME RecordOK
  PROVE  /\ IsFiniteSet(Rec!Registered) /\ IsFiniteSet(Rec!sections)
         /\ \A S \in SUBSET Rec!Registered : IsFiniteSet(S)
<1>1. Rec!Registered \in SUBSET Rec!Ids /\ Rec!sections \in SUBSET Sections
  BY DEF Rec!Registered, Rec!sections
<1>2. IsFiniteSet(Rec!Ids) /\ IsFiniteSet(Sections)
  BY RecallAssumption DEF Rec!RecallConstants, Rec!IsFiniteSet, IsFiniteSet
<1>3. IsFiniteSet(Rec!Registered) /\ IsFiniteSet(Rec!sections)
  BY <1>1, <1>2, FS_Subset
<1> QED BY <1>3, FS_Subset

\* What an audit that finds nothing has found.
LEMMA Audited ==
  ASSUME Rec!audit = {}
  PROVE  /\ \A i \in Rec!Registered : SpecKeys[i] \in Rec!sections
         /\ \A k \in DOMAIN rows : regs[rows[k].id] # 0
         /\ anchors \in {None, Rec!build_anchors}
<1> DEFINE A == {"no section" : i \in {i \in Rec!Registered : SpecKeys[i] \notin Rec!sections}}
           B == {"no registration" : k \in {k \in DOMAIN rows : regs[rows[k].id] = 0}}
           C == {"no trailer" : s \in {s \in Rec!sections \cap Trailered : text[s].trailer = None}}
           E == {"stale anchors" : s \in {s \in {None} : anchors \notin {None, Rec!build_anchors}}}
           F == {"reading" : i \in {i \in DOMAIN Rec!readings : ~Rec!validate_reading(Rec!readings[i])}}
           D == IF Rec!Mislabelled # {} THEN {"trailer"} ELSE E \cup F
<1>1. Rec!audit = IF Rec!Torn # {} THEN {"join"} ELSE UNION {A, B, C, D}
  BY DEF Rec!audit
<1>2. A = {} /\ B = {} /\ D = {}
  <2> HIDE DEF A, B, C, D
  <2>1. Rec!Torn = {}
    BY <1>1
  <2>2. UNION {A, B, C, D} = {}
    BY <1>1, <2>1
  <2> QED BY <2>2
<1>3. E = {}
  <2> HIDE DEF E, F
  <2> QED BY <1>2
<1>4. ASSUME NEW i \in Rec!Registered PROVE SpecKeys[i] \in Rec!sections
  BY <1>2
<1>5. ASSUME NEW k \in DOMAIN rows PROVE regs[rows[k].id] # 0
  BY <1>2
<1>6. anchors \in {None, Rec!build_anchors}
  BY <1>3
<1> QED BY <1>4, <1>5, <1>6

LEMMA RatiosAre == RecordOK => Rec!RatiosComplete
<1> SUFFICES ASSUME RecordOK, Rec!audit = {}
             PROVE  /\ Rec!SumFunctionOnSet([s \in Rec!sections |-> Rec!gate_result(s).of], Rec!sections)
                         = Rec!Cardinality({rows[k].id : k \in DOMAIN rows})
                    /\ anchors # None => \A s \in Rec!sections : anchors[s].body = text[s].body
  BY DEF Rec!RatiosComplete
<1> DEFINE A == {rows[k].id : k \in DOMAIN rows}
           f == [i \in A |-> SpecKeys[i]]
           g == [s \in Rec!sections |-> Rec!gate_result(s).of]
<1>1. ASSUME NEW i \in A PROVE i \in Rec!Registered /\ f[i] \in Rec!sections
  <2>1. PICK k \in DOMAIN rows : rows[k].id = i
    OBVIOUS
  <2>2. rows[k] \in Ruling
    BY LenProperties DEF RecordOK
  <2>3. i \in Rec!Ids /\ regs[i] \in Nat /\ regs[i] # 0
    BY <2>1, <2>2, Audited DEF Ruling, RecordOK
  <2>4. i \in Rec!Registered
    BY <2>3 DEF Rec!Registered
  <2> QED BY <2>4, Audited
<1>2. IsFiniteSet(A) /\ IsFiniteSet(Rec!sections)
  BY <1>1, RegisteredIs
<1>3. ASSUME NEW s \in Rec!sections PROVE g[s] = Cardinality({a \in A : f[a] = s})
  <2>1. DOMAIN Rec!latest_verdicts = A
    BY DEF Rec!latest_verdicts
  <2>2. Rec!Ran(s) = {a \in A : f[a] = s}
    BY <1>1, <2>1 DEF Rec!Ran, Rec!specs_by_section
  <2> QED BY <2>2, RecCard DEF Rec!gate_result
<1>4. SumOf(g, Rec!sections) = Cardinality(A)
  <2> DEFINE S == Rec!sections
  <2>1. (\A a \in A : f[a] \in S) /\ (\A s \in S : g[s] = Cardinality(Class(A, f, s)))
    BY <1>1, <1>3 DEF Class
  <2>2. IsFiniteSet(A) /\ IsFiniteSet(S)
    BY <1>2
  <2> HIDE DEF A, f, g, S
  <2>3. SumOf(g, S) = Cardinality(A)
    BY <2>1, <2>2, Partitioned
  <2> QED BY <2>3 DEF S
<1>5. Rec!SumFunctionOnSet(g, Rec!sections) = Rec!Cardinality(A)
  BY <1>4, RecSum, RecCard
<1>6. ASSUME anchors # None, NEW s \in Rec!sections PROVE anchors[s].body = text[s].body
  <2>1. anchors = Rec!build_anchors
    BY <1>6, Audited
  <2> QED BY <2>1 DEF Rec!build_anchors
<1> QED BY <1>5, <1>6

LEMMA ScoredIs == RecordOK => Rec!ScoredFairly
<1> SUFFICES ASSUME RecordOK, ~Rec!Dies PROVE Rec!ScoredFairly
  BY DEF Rec!ScoredFairly
<1> DEFINE R == Rec!Registered
           Z == Rec!Scored
           C(d, p) == {i \in Z : Rec!direction(i) = d /\ Rec!latest_verdicts[i].passed = p}
           U(d) == {i \in R \ Z : Rec!direction(i) = d}
           pt == C("expected_pass", TRUE)
           pf == C("expected_pass", FALSE)
           ft == C("expected_fail", TRUE)
           ff == C("expected_fail", FALSE)
           m == U("mixed")
           n == U("no_expectation_stated")
           u == U("unread")
<1>1. ASSUME NEW i \in DOMAIN Rec!latest_verdicts
      PROVE  /\ Rec!latest_verdicts[i] \in Ruling
             /\ i \in overtaken \/ Rec!latest_verdicts[i].under = regs[i]
  <2>1. i \in {rows[k].id : k \in DOMAIN rows} /\ Rec!latest_verdicts[i] = rows[Rec!LatestOf(rows, i)]
    BY DEF Rec!latest_verdicts
  <2>2. PICK k \in DOMAIN rows : k = Rec!LatestOf(rows, i) /\ rows[k].id = i
    BY <2>1, Latest DEF RecordOK
  <2>3. rows[k] \in Ruling
    BY LenProperties DEF RecordOK
  <2> QED BY <2>1, <2>2, <2>3 DEF RecordOK, Rightful
<1>2. ASSUME NEW i \in DOMAIN Rec!readings
      PROVE  /\ Rec!readings[i].direction \in Rec!Directions
             /\ Rec!readings[i].id = i /\ Rec!readings[i].prior = regs[i]
  <2>1. i \in {read[k].id : k \in DOMAIN read} /\ Rec!readings[i] = read[Rec!LatestOf(read, i)]
    BY DEF Rec!readings
  <2>2. Rec!readings[i].id = i
    BY <2>1, Latest DEF RecordOK
  <2>3. Rec!validate_reading(Rec!readings[i])
    BY DEF Rec!Dies
  <2> QED BY <2>2, <2>3 DEF Rec!validate_reading
<1>3. ASSUME NEW i \in R \ Z
      PROVE  Rec!direction(i) \in {"mixed", "no_expectation_stated", "unread"}
  <2>1. Rec!direction(i) \notin {"expected_pass", "expected_fail"}
    BY DEF Rec!Dies
  <2> QED BY <1>2, <2>1 DEF Rec!direction, Rec!Directions
<1>4. ASSUME NEW i \in Z
      PROVE  /\ i \in R /\ Rec!direction(i) \in {"expected_pass", "expected_fail"}
             /\ i \in DOMAIN Rec!latest_verdicts /\ Rec!latest_verdicts[i].passed \in BOOLEAN
             /\ i \in DOMAIN Rec!readings
  BY <1>1 DEF Rec!Scored, Ruling, Rec!direction
<1>5. /\ R = Z \cup (R \ Z) /\ Z = (pt \cup pf) \cup (ft \cup ff) /\ R \ Z = (m \cup n) \cup u
      /\ pt \cap pf = {} /\ ft \cap ff = {} /\ (pt \cup pf) \cap (ft \cup ff) = {}
      /\ m \cap n = {} /\ (m \cup n) \cap u = {} /\ Z \cap (R \ Z) = {} /\ pt \cap ff = {}
  <2>1. Z = (pt \cup pf) \cup (ft \cup ff)
    BY <1>4
  <2>2. R \ Z = (m \cup n) \cup u
    BY <1>3
  <2>3. pt \cap pf = {} /\ ft \cap ff = {} /\ (pt \cup pf) \cap (ft \cup ff) = {} /\ pt \cap ff = {}
    OBVIOUS
  <2>4. m \cap n = {} /\ (m \cup n) \cap u = {}
    OBVIOUS
  <2> QED BY <1>4, <2>1, <2>2, <2>3, <2>4
<1>6. \A S \in SUBSET R : IsFiniteSet(S)
  BY RegisteredIs
<1>7. /\ pt \in SUBSET R /\ pf \in SUBSET R /\ ft \in SUBSET R /\ ff \in SUBSET R
      /\ m \in SUBSET R /\ n \in SUBSET R /\ u \in SUBSET R /\ Z \in SUBSET R
  BY <1>4
<1>8. /\ Rec!cells("expected_pass", TRUE) = Cardinality(pt)
      /\ Rec!cells("expected_pass", FALSE) = Cardinality(pf)
      /\ Rec!cells("expected_fail", TRUE) = Cardinality(ft)
      /\ Rec!cells("expected_fail", FALSE) = Cardinality(ff)
      /\ Rec!counts("mixed") = Cardinality(m)
      /\ Rec!counts("no_expectation_stated") = Cardinality(n)
      /\ Rec!counts("unread") = Cardinality(u)
  BY RecCard DEF Rec!cells, Rec!counts
<1> HIDE DEF pt, pf, ft, ff, m, n, u
<1>9. /\ Cardinality(Z) = Cardinality(pt) + Cardinality(pf) + (Cardinality(ft) + Cardinality(ff))
      /\ Cardinality(pt) \in Nat /\ Cardinality(pf) \in Nat /\ Cardinality(ft) \in Nat
      /\ Cardinality(ff) \in Nat
  <2>1. /\ Cardinality(pt \cup pf) = Cardinality(pt) + Cardinality(pf)
        /\ Cardinality(pt) \in Nat /\ Cardinality(pf) \in Nat
    BY <1>5, <1>6, <1>7, Disjoint
  <2>2. /\ Cardinality(ft \cup ff) = Cardinality(ft) + Cardinality(ff)
        /\ Cardinality(ft) \in Nat /\ Cardinality(ff) \in Nat
    BY <1>5, <1>6, <1>7, Disjoint
  <2>3. IsFiniteSet(pt \cup pf) /\ IsFiniteSet(ft \cup ff)
    BY <1>6, <1>7
  <2>4. Cardinality((pt \cup pf) \cup (ft \cup ff)) = Cardinality(pt \cup pf) + Cardinality(ft \cup ff)
    BY <1>5, <2>3, Disjoint
  <2> QED BY <1>5, <2>1, <2>2, <2>4
<1>10. /\ Cardinality(R \ Z) = Cardinality(m) + Cardinality(n) + Cardinality(u)
       /\ Cardinality(m) \in Nat /\ Cardinality(n) \in Nat /\ Cardinality(u) \in Nat
  <2>1. /\ Cardinality(m \cup n) = Cardinality(m) + Cardinality(n)
        /\ Cardinality(m) \in Nat /\ Cardinality(n) \in Nat
    BY <1>5, <1>6, <1>7, Disjoint
  <2>2. IsFiniteSet(m \cup n) /\ IsFiniteSet(u)
    BY <1>6, <1>7
  <2>3. /\ Cardinality((m \cup n) \cup u) = Cardinality(m \cup n) + Cardinality(u)
        /\ Cardinality(u) \in Nat
    BY <1>5, <2>2, Disjoint
  <2> QED BY <1>5, <2>1, <2>3
<1>11. Cardinality(R) = Cardinality(Z) + Cardinality(R \ Z)
  <2>1. IsFiniteSet(Z) /\ IsFiniteSet(R \ Z)
    BY <1>6, <1>7
  <2>2. Cardinality(Z \cup (R \ Z)) = Cardinality(Z) + Cardinality(R \ Z)
    BY <1>5, <2>1, Disjoint
  <2> QED BY <1>5, <2>2
<1>12. PICK c1, c2, c3, c4, c5, c6, c7 \in Nat :
         /\ c1 = Cardinality(pt) /\ c2 = Cardinality(pf) /\ c3 = Cardinality(ft)
         /\ c4 = Cardinality(ff) /\ c5 = Cardinality(m) /\ c6 = Cardinality(n)
         /\ c7 = Cardinality(u)
  BY <1>9, <1>10
<1>13. /\ Rec!cells("expected_pass", TRUE) + Rec!cells("expected_pass", FALSE)
          + Rec!cells("expected_fail", TRUE) + Rec!cells("expected_fail", FALSE)
          + Rec!counts("mixed") + Rec!counts("no_expectation_stated") + Rec!counts("unread")
            = c1 + c2 + c3 + c4 + c5 + c6 + c7
       /\ Rec!cells("expected_pass", TRUE) + Rec!cells("expected_fail", FALSE) = c1 + c4
  BY <1>8, <1>12
<1>14. Rec!Cardinality(R) = c1 + c2 + c3 + c4 + c5 + c6 + c7
  BY <1>9, <1>10, <1>11, <1>12, RecCard
<1>15. Rec!Cardinality(Z) = c1 + c2 + (c3 + c4)
  BY <1>9, <1>12, RecCard
<1>16. Rec!hits <= Rec!Cardinality(Z)
  <2>1. Rec!hits = c1 + c4
    BY <1>13 DEF Rec!hits
  <2>2. c1 + c4 <= c1 + c2 + (c3 + c4)
    OBVIOUS
  <2> QED BY <1>15, <2>1, <2>2
<1>17. ASSUME NEW i \in Z
       PROVE  /\ Rec!readings[i].prior = regs[i]
              /\ i \in overtaken \/ Rec!latest_verdicts[i].under = regs[i]
  BY <1>1, <1>2, <1>4
<1> QED BY <1>13, <1>14, <1>16, <1>17 DEF Rec!ScoredFairly

(* The instruments. *)

LEMMA StatSum ==
  ASSUME NEW f, NEW S
  PROVE  Stat!SumFunctionOnSet(f, S) = SumOf(f, S)
BY DEF Stat!SumFunctionOnSet, Stat!FoldFunctionOnSet, Stat!MapThenFoldSet, SumOf, MapThenSumSet,
       MapThenFoldSet

LEMMA StatCard ==
  ASSUME NEW S
  PROVE  Stat!Cardinality(S) = Cardinality(S)
BY DEF Stat!Cardinality, Cardinality, Stat!IsFiniteSet, IsFiniteSet

LEMMA StatMax ==
  ASSUME NEW S, IsFiniteSet(S), S # {}, S \subseteq Int
  PROVE  Stat!Max(S) \in S /\ \A y \in S : Stat!Max(S) >= y
BY MaxExists DEF Stat!Max

LEMMA StatMin ==
  ASSUME NEW S, S # {}, S \subseteq Nat
  PROVE  Stat!Min(S) \in S /\ \A y \in S : Stat!Min(S) <= y
BY LeastOf DEF Stat!Min

\* More parts, none of them negative, do not come to less.
LEMMA SumMono ==
  ASSUME NEW f, NEW S, IsFiniteSet(S), \A x \in S : f[x] \in Nat, NEW T \in SUBSET S
  PROVE  SumOf(f, T) \in Nat /\ SumOf(f, S) \in Nat /\ SumOf(f, T) <= SumOf(f, S)
<1> DEFINE Bad(U) == ~ (SumOf(f, T) <= SumOf(f, T \cup U))
           N == {n \in Nat : \E U \in SUBSET (S \ T) : Cardinality(U) = n /\ Bad(U)}
<1>1. ASSUME NEW U \in SUBSET S PROVE IsFiniteSet(U) /\ SumOf(f, U) \in Nat
  <2>1. IsFiniteSet(U)
    BY FS_Subset
  <2> QED BY <2>1, SumNat
<1>2. N = {}
  <2> SUFFICES ASSUME N # {} PROVE FALSE
    OBVIOUS
  <2>1. PICK n \in N : \A m \in N : n <= m
    BY LeastOf
  <2>2. PICK U \in SUBSET (S \ T) : Cardinality(U) = n /\ Bad(U)
    BY <2>1
  <2>3. IsFiniteSet(U) /\ IsFiniteSet(S \ T)
    BY <1>1
  <2>4. U # {}
    <3>1. ~ Bad({})
      <4>1. T \cup {} = T
        OBVIOUS
      <4>2. PICK t0 \in Nat : t0 = SumOf(f, T)
        BY <1>1
      <4> QED BY <4>1, <4>2
    <3> QED BY <2>2, <3>1
  <2>5. PICK x : x \in U
    BY <2>4
  <2> DEFINE V == U \ {x}
  <2>6. V \in SUBSET (S \ T) /\ x \notin T \cup V /\ T \cup U = (T \cup V) \cup {x} /\ x \in S
    BY <2>5
  <2>7. Cardinality(V) \in Nat /\ ~ (n <= Cardinality(V))
    <3>1. PICK a, b \in Nat : a = Cardinality(U) /\ b = Cardinality(V) /\ b = a - 1
      BY <2>3, <2>5, SmallerSet
    <3>2. ~ (n <= b)
      BY <2>2, <3>1
    <3> QED BY <3>1, <3>2
  <2>8. ~ Bad(V)
    <3> HIDE DEF Bad, V
    <3> QED BY <2>1, <2>6, <2>7
  <2> HIDE DEF V
  <2>9. SumOf(f, T \cup U) = f[x] + SumOf(f, T \cup V)
    <3>1. IsFiniteSet(T \cup V) /\ T \cup V \in SUBSET S
      BY <1>1, <2>6
    <3>2. \A y \in (T \cup V) \cup {x} : f[y] \in Int
      <4>1. \A y \in S : f[y] \in Int
        OBVIOUS
      <4> QED BY <4>1, <2>6
    <3> QED BY <2>6, <3>1, <3>2, SumAdd
  <2>10. PICK a, b, c \in Nat : a = SumOf(f, T) /\ b = SumOf(f, T \cup V) /\ c = f[x]
    <3>1. T \cup V \in SUBSET S
      BY <2>6
    <3> QED BY <1>1, <2>6, <3>1
  <2>11. a <= b
    BY <2>8, <2>10
  <2>12. SumOf(f, T \cup U) = c + b /\ a <= c + b
    BY <2>9, <2>10, <2>11
  <2> QED BY <2>2, <2>10, <2>12
<1>3. SumOf(f, T) <= SumOf(f, T \cup (S \ T))
  <2>1. IsFiniteSet(S \ T)
    BY <1>1
  <2>2. Cardinality(S \ T) \in Nat /\ S \ T \in SUBSET (S \ T)
    BY <2>1, FS_CardinalityType
  <2> QED BY <1>2, <2>2
<1>4. T \cup (S \ T) = S
  OBVIOUS
<1> QED BY <1>1, <1>3, <1>4

\* A calibration's parts, and how many there are in all.
LEMMA PartsAre ==
  ASSUME NEW cal \in Stat!Calibrations
  PROVE  /\ IsFiniteSet(DOMAIN Stat!Parts(cal)) /\ DOMAIN Stat!Parts(cal) \subseteq Nat
         /\ \A s \in DOMAIN Stat!Parts(cal) : Stat!Parts(cal)[s] \in Nat
         /\ SumOf(Stat!Parts(cal), DOMAIN Stat!Parts(cal)) = Stat!Whole(cal)
         /\ \A s \in DOMAIN cal.hist : /\ s \in DOMAIN Stat!Parts(cal) /\ s # 0
                                       /\ Stat!Parts(cal)[s] = cal.hist[s]
         /\ cal.vetoes = 0 => 0 \notin DOMAIN Stat!Parts(cal)
         /\ cal.vetoes # 0 => 0 \in DOMAIN Stat!Parts(cal) /\ Stat!Parts(cal)[0] = cal.vetoes
<1> DEFINE h == cal.hist
           P == Stat!Parts(cal)
<1>1. /\ DOMAIN h \subseteq Nat \ {0} /\ IsFiniteSet(DOMAIN h) /\ \A s \in DOMAIN h : h[s] \in Nat
      /\ cal.vetoes \in Nat
  <2>1. h \in Histograms /\ cal.vetoes \in Vetoes
    BY DEF Stat!Calibrations
  <2>2. /\ \A x \in Histograms : /\ DOMAIN x \subseteq Nat \ {0} /\ IsFiniteSet(DOMAIN x)
                                 /\ \A s \in DOMAIN x : x[s] \in Nat
        /\ Vetoes \subseteq Nat
    BY StatisticsAssumption DEF Stat!StatisticsConstants, Stat!Positive, Stat!IsFiniteSet, IsFiniteSet
  <2> QED BY <2>1, <2>2
<1>2. PICK H \in Int : H = SumOf(h, DOMAIN h)
  BY <1>1, SumNat
<1>3. Stat!Whole(cal) = cal.vetoes + H
  BY <1>2, StatSum DEF Stat!Whole
<1>4. CASE cal.vetoes = 0
  <2>1. P = h
    BY <1>4 DEF Stat!Parts
  <2>2. Stat!Whole(cal) = H
    BY <1>3, <1>4
  <2> QED BY <1>1, <1>2, <1>4, <2>1, <2>2
<1>5. CASE cal.vetoes # 0
  <2>1. /\ DOMAIN P = {0} \cup DOMAIN h /\ P[0] = cal.vetoes
        /\ \A s \in DOMAIN h : s # 0 /\ P[s] = h[s]
    BY <1>1, <1>5 DEF Stat!Parts
  <2> HIDE DEF P
  <2>2. IsFiniteSet(DOMAIN P)
    <3>1. IsFiniteSet(DOMAIN h \cup {0})
      BY <1>1, FS_AddElement
    <3>2. DOMAIN P = DOMAIN h \cup {0}
      BY <2>1
    <3> QED BY <3>1, <3>2
  <2>3. ASSUME NEW s \in DOMAIN P PROVE P[s] \in Nat /\ s \in Nat
    BY <1>1, <2>1
  <2>4. SumOf(P, DOMAIN h) = H
    BY <1>1, <1>2, <2>1, SumSame
  <2>5. SumOf(P, DOMAIN h \cup {0}) = P[0] + SumOf(P, DOMAIN h)
    <3>1. 0 \notin DOMAIN h
      BY <1>1
    <3>2. \A y \in DOMAIN h \cup {0} : P[y] \in Int
      BY <2>1, <2>3
    <3> QED BY <1>1, <3>1, <3>2, SumAdd
  <2>6. DOMAIN P = DOMAIN h \cup {0}
    BY <2>1
  <2>7. SumOf(P, DOMAIN P) = Stat!Whole(cal)
    BY <1>3, <2>1, <2>4, <2>5, <2>6
  <2> QED BY <1>5, <2>1, <2>2, <2>3, <2>7 DEF P
<1> QED BY <1>1, <1>4, <1>5

Under(D, s) == {x \in D : x < s}
Upto(D, s) == {x \in D : x <= s}

LEMMA CdfIs ==
  ASSUME NEW cal, NEW P, P = Stat!Parts(cal), NEW D, D = DOMAIN P
  PROVE  /\ DOMAIN Stat!_cdf(cal) = D
         /\ \A s \in D : Stat!_cdf(cal)[s] = SumOf(P, Upto(D, s))
BY StatSum DEF Stat!_cdf, Upto

\* What lies below a scale's parts, and below those and its own.
LEMMA EndsAre ==
  ASSUME NEW P, NEW D, IsFiniteSet(D), D \subseteq Nat, \A x \in D : P[x] \in Nat, NEW s \in D
  PROVE  /\ SumOf(P, Under(D, s)) \in Nat /\ SumOf(P, Upto(D, s)) \in Nat
         /\ SumOf(P, Upto(D, s)) = P[s] + SumOf(P, Under(D, s))
         /\ SumOf(P, D) \in Nat /\ SumOf(P, Upto(D, s)) <= SumOf(P, D)
         /\ \A y \in D : y < s => SumOf(P, Upto(D, y)) <= SumOf(P, Under(D, s))
<1> DEFINE B == Under(D, s)
           F == Upto(D, s)
<1>1. B \in SUBSET D /\ F \in SUBSET D /\ s \notin B /\ F = B \cup {s}
  <2>1. \A x \in D : x <= s <=> x < s \/ x = s
    <3>1. \A x \in Nat : x <= s <=> x < s \/ x = s
      OBVIOUS
    <3> QED BY <3>1
  <2>2. ~ (s < s)
    <3>1. \A x \in Nat : ~ (x < x)
      OBVIOUS
    <3> QED BY <3>1
  <2>3. \A x : x \in F <=> x \in B \/ x = s
    BY <2>1 DEF Under, Upto
  <2>4. B \in SUBSET D /\ F \in SUBSET D /\ s \notin B
    BY <2>2 DEF Under, Upto
  <2> HIDE DEF B, F
  <2> QED BY <2>3, <2>4
<1>2. IsFiniteSet(B) /\ IsFiniteSet(F)
  BY <1>1, FS_Subset
<1>3. SumOf(P, B) \in Nat /\ SumOf(P, F) \in Nat /\ SumOf(P, D) \in Nat /\ SumOf(P, F) <= SumOf(P, D)
  <2> HIDE DEF B, F
  <2> QED BY <1>1, SumMono
<1>4. SumOf(P, F) = P[s] + SumOf(P, B)
  <2>1. \A y \in B \cup {s} : P[y] \in Int
    <3> HIDE DEF B
    <3> QED BY <1>1
  <2> HIDE DEF B, F
  <2>2. SumOf(P, B \cup {s}) = P[s] + SumOf(P, B)
    BY <1>1, <1>2, <2>1, SumAdd
  <2> QED BY <1>1, <2>2
<1>5. ASSUME NEW y \in D, y < s PROVE SumOf(P, Upto(D, y)) <= SumOf(P, B)
  <2> DEFINE Y == Upto(D, y)
  <2>1. Y \in SUBSET B
    <3>1. \A x, z \in Nat : x <= z /\ z < s => x < s
      OBVIOUS
    <3> QED BY <1>5, <3>1 DEF Under, Upto
  <2>2. \A x \in B : P[x] \in Nat
    BY <1>1
  <2> HIDE DEF Y, B
  <2>3. SumOf(P, Y) <= SumOf(P, B)
    BY <1>2, <2>1, <2>2, SumMono
  <2> QED BY <2>3 DEF Y
<1> QED BY <1>3, <1>4, <1>5

\* The draw falls to a scale where its parts lie, and nowhere else.
LEMMA DrawnIs ==
  ASSUME NEW cal \in Stat!Calibrations, NEW P, P = Stat!Parts(cal), NEW D, D = DOMAIN P,
         NEW s \in D, NEW u \in 0 .. Stat!Whole(cal) - 1
  PROVE  Stat!scale_for(cal, u) = s
           <=> SumOf(P, Under(D, s)) <= u /\ u < SumOf(P, Upto(D, s))
<1>1. /\ IsFiniteSet(D) /\ D \subseteq Nat /\ \A x \in D : P[x] \in Nat
      /\ SumOf(P, D) = Stat!Whole(cal)
  BY PartsAre
<1> DEFINE F(x) == SumOf(P, Upto(D, x))
           above == {x \in D : u < F(x)}
<1>2. PICK b, w \in Nat : b = SumOf(P, Under(D, s)) /\ w = SumOf(P, D)
  BY <1>1, EndsAre
<1>3. ASSUME NEW x \in D PROVE F(x) \in Nat
  BY <1>1, EndsAre
<1>4. \A y \in D : y < s => F(y) <= b
  BY <1>1, <1>2, EndsAre
<1>5. u \in Nat /\ u < w
  <2>1. w = Stat!Whole(cal)
    BY <1>1, <1>2
  <2> QED BY <1>2, <2>1
<1>6. above # {} /\ above \subseteq Nat
  <2>1. PICK m \in D : \A x \in D : m >= x
    <3>1. D \subseteq Int /\ D # {}
      BY <1>1
    <3> QED BY <1>1, <3>1, MaxExists
  <2>2. Upto(D, m) = D
    BY <1>1, <2>1 DEF Upto
  <2>3. F(m) = w
    BY <1>2, <2>2
  <2>4. m \in above
    BY <1>5, <2>1, <2>3
  <2> QED BY <1>1, <2>4
<1>7. Stat!scale_for(cal, u) = Stat!Min(above)
  <2>1. {x \in DOMAIN Stat!_cdf(cal) : u < Stat!_cdf(cal)[x]} = above
    BY CdfIs
  <2> QED BY <1>6, <2>1 DEF Stat!scale_for
<1>8. PICK a : a = Stat!Min(above) /\ a \in above /\ \A x \in above : a <= x
  <2> HIDE DEF above
  <2> QED BY <1>6, StatMin
<1>9. ASSUME b <= u, u < F(s) PROVE a = s
  <2>1. s \in above /\ a <= s
    BY <1>8, <1>9
  <2>2. ASSUME a < s PROVE FALSE
    <3>1. PICK c \in Nat : c = F(a) /\ a \in D
      BY <1>3, <1>8
    <3>2. c <= b /\ u < c
      BY <1>4, <1>8, <2>2, <3>1
    <3> QED BY <1>2, <1>5, <1>9, <3>1, <3>2
  <2>3. a \in Nat /\ s \in Nat
    BY <1>1, <1>8
  <2> QED BY <2>1, <2>2, <2>3
<1>10. ASSUME a = s PROVE b <= u /\ u < F(s)
  <2>1. u < F(s)
    BY <1>8, <1>10
  <2> DEFINE below == Under(D, s)
  <2>2. CASE below = {}
    <3>1. b = 0
      BY <1>2, <2>2, SumEmpty
    <3> QED BY <1>5, <2>1, <3>1
  <2>3. CASE below # {}
    <3>1. IsFiniteSet(below) /\ below \subseteq Int
      <4>1. below \in SUBSET D
        BY DEF Under
      <4>2. IsFiniteSet(below)
        BY <1>1, <4>1, FS_Subset
      <4> HIDE DEF below
      <4> QED BY <1>1, <4>1, <4>2
    <3>2. PICK m \in below : \A x \in below : m >= x
      <4> HIDE DEF below
      <4> QED BY <2>3, <3>1, MaxExists
    <3>3. m \in D /\ m < s /\ m \in Nat /\ s \in Nat
      BY <1>1, <3>2 DEF Under
    <3>4. Upto(D, m) = below
      <4>1. ASSUME NEW x \in D, x <= m PROVE x < s
        <5>1. x \in Nat
          BY <1>1
        <5> QED BY <3>3, <4>1, <5>1
      <4>2. ASSUME NEW x \in D, x < s PROVE x <= m
        <5>1. m >= x /\ x \in Nat
          BY <1>1, <3>2, <4>2 DEF Under
        <5> QED BY <3>3, <5>1
      <4> QED BY <4>1, <4>2 DEF Under, Upto
    <3>5. F(m) = b
      BY <1>2, <3>4
    <3>6. m \notin above
      <4>1. ASSUME m \in above PROVE FALSE
        <5>1. s <= m
          BY <1>8, <1>10, <4>1
        <5> QED BY <3>3, <5>1
      <4> QED BY <4>1
    <3>7. ~ (u < b)
      BY <3>3, <3>5, <3>6
    <3> QED BY <1>2, <1>5, <2>1, <3>7
  <2> QED BY <2>2, <2>3
<1> HIDE DEF above
<1> QED BY <1>2, <1>7, <1>8, <1>9, <1>10

\* As many draws fall to a scale as it has parts.
THEOREM DrawnAsOften ==
  ASSUME NEW cal \in Stat!Calibrations, NEW s \in DOMAIN Stat!Parts(cal)
  PROVE  Stat!Cardinality({u \in 0 .. Stat!Whole(cal) - 1 : Stat!scale_for(cal, u) = s})
           = Stat!Parts(cal)[s]
<1> DEFINE P == Stat!Parts(cal)
           D == DOMAIN P
           L == {u \in 0 .. Stat!Whole(cal) - 1 : Stat!scale_for(cal, u) = s}
<1>1. /\ IsFiniteSet(D) /\ D \subseteq Nat /\ (\A x \in D : P[x] \in Nat) /\ s \in D
      /\ SumOf(P, D) = Stat!Whole(cal)
  BY PartsAre
<1> HIDE DEF D, P
<1>2. PICK b, f, w, p \in Nat :
        /\ b = SumOf(P, Under(D, s)) /\ f = SumOf(P, Upto(D, s))
        /\ w = SumOf(P, D) /\ p = P[s] /\ f = p + b /\ f <= w
  <2>1. /\ SumOf(P, Under(D, s)) \in Nat /\ SumOf(P, Upto(D, s)) \in Nat
        /\ SumOf(P, Upto(D, s)) = P[s] + SumOf(P, Under(D, s))
        /\ SumOf(P, D) \in Nat /\ SumOf(P, Upto(D, s)) <= SumOf(P, D)
    BY <1>1, EndsAre
  <2> QED BY <1>1, <2>1
<1>3. ASSUME NEW u \in 0 .. w - 1 PROVE Stat!scale_for(cal, u) = s <=> b <= u /\ u < f
  <2>1. u \in 0 .. Stat!Whole(cal) - 1
    BY <1>1, <1>2
  <2>2. P = Stat!Parts(cal) /\ D = DOMAIN P
    BY DEF P, D
  <2>3. Stat!scale_for(cal, u) = s <=> SumOf(P, Under(D, s)) <= u /\ u < SumOf(P, Upto(D, s))
    BY <1>1, <2>1, <2>2, DrawnIs
  <2> QED BY <1>2, <2>3
<1>4. L = b .. f - 1
  <2>1. L = {u \in 0 .. w - 1 : Stat!scale_for(cal, u) = s}
    BY <1>1, <1>2
  <2>2. L = {u \in 0 .. w - 1 : b <= u /\ u < f}
    BY <1>3, <2>1
  <2>3. \A u : u \in 0 .. w - 1 /\ b <= u /\ u < f <=> u \in b .. f - 1
    <3>1. f <= w
      BY <1>2
    <3> QED BY <3>1
  <2> HIDE DEF L
  <2> QED BY <2>2, <2>3
<1>5. Cardinality(b .. f - 1) = p
  <2>1. PICK e \in Int : e = f - 1
    OBVIOUS
  <2>2. Cardinality(b .. e) = IF b > e THEN 0 ELSE e - b + 1
    BY FS_Interval
  <2>3. (IF b > e THEN 0 ELSE e - b + 1) = p
    <3>1. f = p + b
      BY <1>2
    <3> QED BY <2>1, <3>1
  <2> QED BY <2>1, <2>2, <2>3
<1> QED BY <1>2, <1>4, <1>5, StatCard DEF P

JudgeOK ==
  kind = "judge" => /\ calibration \in Stat!Calibrations
                    /\ cut = Stat!Nothing \/ cut.by = expected

LEMMA JudgeIs == JudgeOK => Stat!JudgeHonest
<1> SUFFICES ASSUME JudgeOK, kind = "judge" PROVE Stat!JudgeHonest
  BY DEF Stat!JudgeHonest
<1> DEFINE D(s) == {u \in 0 .. Stat!Whole(calibration) - 1 : Stat!scale_for(calibration, u) = s}
           P == Stat!Parts(calibration)
<1>1. calibration \in Stat!Calibrations /\ (cut # Stat!Nothing => cut.by = expected)
  BY DEF JudgeOK
<1>2. ASSUME NEW s \in DOMAIN calibration.hist
      PROVE  Stat!Cardinality(D(s)) = calibration.hist[s]
  <2>1. s \in DOMAIN P /\ P[s] = calibration.hist[s]
    BY <1>1, PartsAre
  <2> QED BY <1>1, <2>1, DrawnAsOften
<1>3. Stat!Cardinality(D(0)) = calibration.vetoes
  <2>1. CASE calibration.vetoes # 0
    <3>1. 0 \in DOMAIN P /\ P[0] = calibration.vetoes
      BY <1>1, <2>1, PartsAre
    <3> QED BY <1>1, <3>1, DrawnAsOften
  <2>2. CASE calibration.vetoes = 0
    <3>1. 0 \notin DOMAIN P /\ DOMAIN P \subseteq Nat
      BY <1>1, <2>2, PartsAre
    <3>2. ASSUME NEW u, Stat!scale_for(calibration, u) = 0 PROVE FALSE
      <4> DEFINE above == {s \in DOMAIN Stat!_cdf(calibration) : u < Stat!_cdf(calibration)[s]}
      <4>1. above \subseteq DOMAIN P
        BY DEF Stat!_cdf
      <4>2. Stat!scale_for(calibration, u) = IF above = {} THEN 4 ELSE Stat!Min(above)
        BY DEF Stat!scale_for
      <4>3. above # {} => Stat!Min(above) \in DOMAIN P
        <5> HIDE DEF above, P
        <5> QED BY <3>1, <4>1, StatMin
      <4> HIDE DEF above, P
      <4> QED BY <3>1, <3>2, <4>2, <4>3
    <3>3. D(0) = {}
      BY <3>2
    <3>4. Stat!Cardinality({}) = 0
      BY StatCard, FS_EmptySet
    <3> QED BY <2>2, <3>3, <3>4
  <2> QED BY <2>1, <2>2
<1> QED BY <1>1, <1>2, <1>3 DEF Stat!JudgeHonest

\* A function on 1 .. n is a sequence of that length.
LEMMA FunIsSeq ==
  ASSUME NEW n \in Nat, NEW T, NEW f \in [1 .. n -> T]
  PROVE  f \in Seq(T) /\ Len(f) = n
OBVIOUS

(* The bootstrap. *)

Ordered(xs) == \A i, j \in 1 .. Len(xs) : i <= j => xs[i] <= xs[j]

Below(xs, x) == {i \in 1 .. Len(xs) : xs[i] <= x}

\* In an ordered sequence what is no larger comes first.
LEMMA BelowIs ==
  ASSUME NEW xs \in Seq(Int), Ordered(xs), NEW x \in Int
  PROVE  \E k \in 0 .. Len(xs) : Below(xs, x) = 1 .. k /\ Cardinality(Below(xs, x)) = k
<1> DEFINE B == Below(xs, x)
<1>1. PICK n \in Nat : n = Len(xs)
  OBVIOUS
<1>2. B \subseteq 1 .. n /\ \A i \in 1 .. n : i \in B <=> xs[i] <= x
  BY <1>1 DEF Below
<1>3. IsFiniteSet(1 .. n)
  BY FS_Interval
<1>4. IsFiniteSet(B)
  BY <1>2, <1>3, FS_Subset
<1> HIDE DEF B
<1>5. \E k \in 0 .. n : B = 1 .. k
  <2>1. CASE B = {}
    <3>1. B = 1 .. 0 /\ 0 \in 0 .. n
      BY <2>1
    <3> QED BY <3>1
  <2>2. CASE B # {}
    <3>1. PICK k \in B : \A i \in B : k >= i
      <4>1. B \subseteq Int
        BY <1>2
      <4> QED BY <1>4, <2>2, <4>1, MaxExists
    <3>2. ASSUME NEW i \in 1 .. n, i <= k PROVE i \in B
      <4>1. k \in 1 .. n /\ xs[k] <= x
        BY <1>2, <3>1
      <4>2. xs[i] <= xs[k]
        BY <1>1, <3>2, <4>1 DEF Ordered
      <4>3. PICK a, b \in Int : a = xs[i] /\ b = xs[k]
        BY <1>1, <4>1
      <4>4. a <= x
        BY <4>1, <4>2, <4>3
      <4> QED BY <1>2, <4>3, <4>4
    <3>3. k \in 1 .. n
      BY <1>2, <3>1
    <3>4. ASSUME NEW i \in B PROVE i \in 1 .. k
      <4>1. i \in 1 .. n /\ k >= i
        BY <1>2, <3>1
      <4> QED BY <3>3, <4>1
    <3>5. ASSUME NEW i \in 1 .. k PROVE i \in B
      <4>1. i \in 1 .. n /\ i <= k
        BY <3>3
      <4> QED BY <3>2, <4>1
    <3>6. B = 1 .. k
      BY <3>4, <3>5
    <3>7. k \in 0 .. n
      BY <3>3
    <3> QED BY <3>6, <3>7
  <2> QED BY <2>1, <2>2
<1>6. PICK k \in 0 .. n : B = 1 .. k
  BY <1>5
<1>7. Cardinality(1 .. k) = k
  <2>1. k \in Nat
    OBVIOUS
  <2>2. Cardinality(1 .. k) = IF 1 > k THEN 0 ELSE k - 1 + 1
    BY <2>1, FS_Interval
  <2> QED BY <2>1, <2>2
<1> QED BY <1>1, <1>6, <1>7 DEF B

\* One more in its place keeps them in order, and they were all there before.
LEMMA SortedIs ==
  ASSUME NEW xs \in Seq(Int), Ordered(xs), NEW x \in Int
  PROVE  /\ Stat!Sorted(xs, x) \in Seq(Int) /\ Ordered(Stat!Sorted(xs, x))
         /\ Len(Stat!Sorted(xs, x)) = Len(xs) + 1
         /\ \A i \in 1 .. Len(xs) + 1 :
              Stat!Sorted(xs, x)[i] = x \/ \E j \in 1 .. Len(xs) : Stat!Sorted(xs, x)[i] = xs[j]
<1> DEFINE ys == Stat!Sorted(xs, x)
<1>1. PICK n \in Nat : n = Len(xs)
  OBVIOUS
<1>2. PICK k \in 0 .. n : Below(xs, x) = 1 .. k /\ Cardinality(Below(xs, x)) = k
  BY <1>1, BelowIs
<1>3. ys = [i \in 1 .. n + 1 |-> IF i < k + 1 THEN xs[i] ELSE IF i = k + 1 THEN x ELSE xs[i - 1]]
  <2>1. {i \in DOMAIN xs : xs[i] <= x} = Below(xs, x)
    BY DEF Below
  <2>2. Stat!Cardinality({i \in DOMAIN xs : xs[i] <= x}) = k
    BY <1>2, <2>1, StatCard
  <2> QED BY <1>1, <2>2 DEF Stat!Sorted
<1>4. \A i \in 1 .. n : xs[i] \in Int
  BY <1>1
<1>5. ASSUME NEW i \in 1 .. n PROVE i <= k <=> xs[i] <= x
  <2>1. i \in Below(xs, x) <=> xs[i] <= x
    BY <1>1 DEF Below
  <2>2. i \in Below(xs, x) <=> i <= k
    BY <1>2
  <2> QED BY <2>1, <2>2
<1>6. \A i, j \in 1 .. n : i <= j => xs[i] <= xs[j]
  BY <1>1 DEF Ordered
<1>7. ASSUME NEW i \in 1 .. n + 1
      PROVE  /\ ys[i] \in Int /\ (ys[i] = x \/ \E j \in 1 .. n : ys[i] = xs[j])
             /\ i < k + 1 => i \in 1 .. n /\ ys[i] = xs[i]
             /\ i = k + 1 => ys[i] = x
             /\ i > k + 1 => i - 1 \in 1 .. n /\ ys[i] = xs[i - 1]
  <2>1. CASE i < k + 1
    <3>1. i \in 1 .. n /\ ys[i] = xs[i]
      BY <1>3, <2>1
    <3> QED BY <1>4, <2>1, <3>1
  <2>2. CASE i = k + 1
    BY <1>3, <2>2
  <2>3. CASE i > k + 1
    <3>1. i - 1 \in 1 .. n /\ ys[i] = xs[i - 1]
      BY <1>3, <2>3
    <3> QED BY <1>4, <2>3, <3>1
  <2> QED BY <2>1, <2>2, <2>3
<1>8. ys \in [1 .. n + 1 -> Int]
  BY <1>3, <1>7
<1> HIDE DEF ys
<1>9. n + 1 \in Nat /\ ys \in Seq(Int) /\ Len(ys) = n + 1
  BY <1>8, FunIsSeq
<1>10. ASSUME NEW i \in 1 .. n + 1, NEW j \in 1 .. n + 1, i <= j PROVE ys[i] <= ys[j]
  <2>1. PICK a, b \in Int : a = ys[i] /\ b = ys[j]
    BY <1>7
  <2>2. CASE j < k + 1
    <3>1. i < k + 1
      BY <1>10, <2>2
    <3> QED BY <1>6, <1>7, <1>10, <2>2, <3>1
  <2>3. CASE j = k + 1
    <3>1. CASE i = k + 1
      BY <2>1, <2>3, <3>1
    <3>2. CASE i < k + 1
      <4>1. i <= k
        BY <3>2
      <4> QED BY <1>5, <1>7, <2>3, <3>2, <4>1
    <3> QED BY <1>10, <2>3, <3>1, <3>2
  <2>4. CASE j > k + 1
    <3>1. PICK m \in 1 .. n : m = j - 1 /\ b = xs[m] /\ ~ (m <= k)
      BY <1>7, <2>1, <2>4
    <3>2. ~ (b <= x)
      BY <1>5, <3>1
    <3>3. CASE i > k + 1
      <4>1. PICK l \in 1 .. n : l = i - 1 /\ a = xs[l]
        BY <1>7, <2>1, <3>3
      <4>2. l <= m
        BY <1>10, <3>1, <4>1
      <4> QED BY <1>6, <2>1, <3>1, <4>1, <4>2
    <3>4. CASE i = k + 1
      <4>1. a = x
        BY <1>7, <2>1, <3>4
      <4> QED BY <2>1, <3>2, <4>1
    <3>5. CASE i < k + 1
      <4>1. i \in 1 .. n /\ a = xs[i] /\ i <= k
        BY <1>7, <2>1, <3>5
      <4>2. a <= x
        BY <1>5, <4>1
      <4> QED BY <2>1, <3>2, <4>2
    <3> QED BY <3>3, <3>4, <3>5
  <2> QED BY <2>2, <2>3, <2>4
<1>11. Ordered(ys)
  BY <1>9, <1>10 DEF Ordered
<1> QED BY <1>1, <1>7, <1>9, <1>11 DEF ys

\* What an arm made of the keys drawn is a whole number.
LEMMA DrawnInt ==
  ASSUME NEW arm \in Stat!Arms, NEW n \in Nat, NEW draw, DOMAIN draw = 1 .. n
  PROVE  Stat!Drawn(arm, draw).sum \in Int /\ Stat!Drawn(arm, draw).n \in Nat
<1> DEFINE at == {i \in DOMAIN draw : draw[i] \in DOMAIN arm}
           f == [i \in at |-> arm[draw[i]]]
<1>1. IsFiniteSet(at)
  <2>1. IsFiniteSet(1 .. n)
    BY FS_Interval
  <2>2. at \in SUBSET (1 .. n)
    OBVIOUS
  <2> HIDE DEF at
  <2> QED BY <2>1, <2>2, FS_Subset
<1>2. ASSUME NEW i \in at PROVE f[i] \in Int
  <2>1. PICK ks \in SUBSET Keys : arm \in [ks -> Pnls]
    BY DEF Stat!Arms
  <2>2. Pnls \subseteq Int
    BY StatisticsAssumption DEF Stat!StatisticsConstants
  <2> QED BY <2>1, <2>2
<1>3. Stat!Drawn(arm, draw) = [sum |-> Stat!SumFunctionOnSet(f, at), n |-> Stat!Cardinality(at)]
  BY DEF Stat!Drawn
<1> HIDE DEF f, at
<1>4. Stat!SumFunctionOnSet(f, at) \in Int
  BY <1>1, <1>2, StatSum, SumInt
<1>5. Stat!Cardinality(at) \in Nat
  BY <1>1, StatCard, FS_CardinalityType
<1> QED BY <1>3, <1>4, <1>5

\* Keys in order, as many as there are.
LEMMA InOrderIs ==
  ASSUME NEW S, IsFiniteSet(S)
  PROVE  Cardinality(S) \in Nat /\ DOMAIN Stat!InOrder(S) = 1 .. Cardinality(S)
         /\ Len(Stat!InOrder(S)) = Cardinality(S)
<1>1. PICK n \in Nat : n = Cardinality(S)
  BY FS_CardinalityType
<1>2. Stat!Cardinality(S) = n
  BY <1>1, StatCard
<1>3. PICK f : f = Stat!InOrder(S)
  OBVIOUS
<1>4. f \in [1 .. n -> {f[i] : i \in 1 .. n}] /\ DOMAIN f = 1 .. n
  BY <1>2, <1>3 DEF Stat!InOrder
<1>5. Len(f) = n
  BY <1>4, FunIsSeq
<1> QED BY <1>1, <1>3, <1>4, <1>5

BootOK ==
  kind = "bootstrap" =>
    /\ baseline \in Stat!Arms /\ candidate \in Stat!Arms
    /\ diffs \in Seq(Int) /\ Ordered(diffs)
    /\ paired = TRUE /\ candidate = baseline => \A i \in 1 .. Len(diffs) : diffs[i] = 0

LEMMA ArmIs ==
  ASSUME NEW arm \in Stat!Arms
  PROVE  /\ IsFiniteSet(DOMAIN arm) /\ DOMAIN arm # {}
         /\ \A k \in DOMAIN arm : arm[k] \in Int
<1>0. PICK ks \in (SUBSET Keys) \ {{}} : arm \in [ks -> Pnls]
  BY DEF Stat!Arms
<1>1. ks \in SUBSET Keys /\ ks # {} /\ arm \in [ks -> Pnls]
  <2>1. ks \in SUBSET Keys /\ arm \in [ks -> Pnls]
    BY <1>0
  <2>2. ks \notin {{}}
    BY <1>0
  <2> QED BY <2>1, <2>2
<1>2. Pnls \subseteq Int /\ IsFiniteSet(Keys)
  BY StatisticsAssumption DEF Stat!StatisticsConstants, Stat!IsFiniteSet, IsFiniteSet
<1>3. IsFiniteSet(ks)
  BY <1>1, <1>2, FS_Subset
<1>4. DOMAIN arm = ks
  BY <1>1
<1>5. ASSUME NEW k \in ks PROVE arm[k] \in Int
  BY <1>1, <1>2
<1> QED BY <1>1, <1>3, <1>4, <1>5

LEMMA SixthsInt ==
  ASSUME NEW s \in Int, NEW n \in Nat, n # 0
  PROVE  Stat!Sixths(s, n) \in Int
BY DEF Stat!Sixths

\* A replicate is two sums of whole numbers, the same ones when the arms are
\* paired and the same.
LEMMA ReplicateIs ==
  ASSUME BootOK, kind = "bootstrap", NEW r \in Stat!Replicates
  PROVE  /\ r[1].sum \in Int /\ r[1].n \in Nat /\ r[2].sum \in Int /\ r[2].n \in Nat
         /\ paired = TRUE /\ candidate = baseline => r[1] = r[2]
<1> DEFINE b == baseline
           c == candidate
<1>1. b \in Stat!Arms /\ c \in Stat!Arms
  BY DEF BootOK
<1>2. IsFiniteSet(DOMAIN b) /\ IsFiniteSet(DOMAIN c)
  BY <1>1, ArmIs
<1>3. ASSUME NEW n \in Nat, NEW d \in Stat!Draws(n), NEW keys
      PROVE  DOMAIN Stat!At(keys, d) = 1 .. n
  <2>1. DOMAIN d = 1 .. n
    BY DEF Stat!Draws
  <2> QED BY <2>1 DEF Stat!At
<1>4. CASE paired = TRUE
  <2> DEFINE K == DOMAIN b \cup DOMAIN c
             keys == Stat!InOrder(K)
  <2>1. IsFiniteSet(K)
    BY <1>2, FS_Union
  <2>2. Len(keys) \in Nat
    <3> HIDE DEF K
    <3> QED BY <2>1, InOrderIs
  <2>3. PICK d \in Stat!Draws(Len(keys)) :
          r = <<Stat!Drawn(b, Stat!At(keys, d)), Stat!Drawn(c, Stat!At(keys, d))>>
    BY <1>4 DEF Stat!Replicates, Stat!Paired
  <2> HIDE DEF keys, b, c
  <2>4. PICK at : at = Stat!At(keys, d)
    OBVIOUS
  <2>5. DOMAIN at = 1 .. Len(keys)
    BY <1>3, <2>2, <2>4
  <2>6. /\ Stat!Drawn(b, at).sum \in Int /\ Stat!Drawn(b, at).n \in Nat
        /\ Stat!Drawn(c, at).sum \in Int /\ Stat!Drawn(c, at).n \in Nat
    BY <1>1, <2>2, <2>5, DrawnInt
  <2>7. r[1] = Stat!Drawn(b, at) /\ r[2] = Stat!Drawn(c, at)
    BY <2>3, <2>4
  <2>8. c = b => r[1] = r[2]
    BY <2>7
  <2> QED BY <2>6, <2>7, <2>8 DEF b, c
<1>5. CASE paired # TRUE
  <2> DEFINE kb == Stat!InOrder(DOMAIN b)
             kc == Stat!InOrder(DOMAIN c)
             nb == Stat!Cardinality(DOMAIN b)
             nc == Stat!Cardinality(DOMAIN c)
  <2>1. nb \in Nat /\ nc \in Nat
    BY <1>2, StatCard, FS_CardinalityType
  <2>2. PICK d \in Stat!Draws(nb), e \in Stat!Draws(nc) :
          r = <<Stat!Drawn(b, Stat!At(kb, d)), Stat!Drawn(c, Stat!At(kc, e))>>
    <3>1. r \in Stat!Plain(b, c)
      BY <1>5 DEF Stat!Replicates
    <3> QED BY <3>1 DEF Stat!Plain
  <2> HIDE DEF kb, kc, nb, nc, b, c
  <2>3. PICK x, y : x = Stat!At(kb, d) /\ y = Stat!At(kc, e)
    OBVIOUS
  <2>4. DOMAIN x = 1 .. nb /\ DOMAIN y = 1 .. nc
    BY <1>3, <2>1, <2>3
  <2>5. /\ Stat!Drawn(b, x).sum \in Int /\ Stat!Drawn(b, x).n \in Nat
        /\ Stat!Drawn(c, y).sum \in Int /\ Stat!Drawn(c, y).n \in Nat
    BY <1>1, <2>1, <2>4, DrawnInt
  <2>6. r[1] = Stat!Drawn(b, x) /\ r[2] = Stat!Drawn(c, y)
    BY <2>2, <2>3
  <2> QED BY <1>5, <2>5, <2>6 DEF b, c
<1> QED BY <1>4, <1>5

\* One more replicate keeps them in order, and at nothing when nothing differs.
LEMMA ReplicateKeeps ==
  ASSUME BootOK, kind = "bootstrap", Stat!Replicate
  PROVE  BootOK'
<1>1. PICK r \in Stat!Replicates :
        IF r[1].n = 0 \/ r[2].n = 0
        THEN diffs' = diffs
        ELSE diffs' = Stat!Sorted(diffs, Stat!Sixths(r[2].sum, r[2].n) - Stat!Sixths(r[1].sum, r[1].n))
  BY DEF Stat!Replicate
<1>2. kind' = kind /\ baseline' = baseline /\ candidate' = candidate /\ paired' = paired
  BY DEF Stat!Replicate
<1>3. /\ r[1].sum \in Int /\ r[1].n \in Nat /\ r[2].sum \in Int /\ r[2].n \in Nat
      /\ paired = TRUE /\ candidate = baseline => r[1] = r[2]
  BY ReplicateIs
<1>4. /\ baseline \in Stat!Arms /\ candidate \in Stat!Arms
      /\ diffs \in Seq(Int) /\ Ordered(diffs)
      /\ paired = TRUE /\ candidate = baseline => \A i \in 1 .. Len(diffs) : diffs[i] = 0
  BY DEF BootOK
<1>5. CASE diffs' = diffs
  BY <1>2, <1>4, <1>5 DEF BootOK, Ordered, Stat!Arms
<1>6. CASE diffs' # diffs
  <2>1. r[1].n # 0 /\ r[2].n # 0
    BY <1>1, <1>6
  <2>2. PICK a, b \in Int : a = Stat!Sixths(r[1].sum, r[1].n) /\ b = Stat!Sixths(r[2].sum, r[2].n)
    BY <1>3, <2>1, SixthsInt
  <2>3. PICK x \in Int : x = b - a
    OBVIOUS
  <2>4. diffs' = Stat!Sorted(diffs, x)
    BY <1>1, <2>1, <2>2, <2>3
  <2>5. /\ diffs' \in Seq(Int) /\ Ordered(diffs') /\ Len(diffs') = Len(diffs) + 1
        /\ \A i \in 1 .. Len(diffs) + 1 : diffs'[i] = x \/ \E j \in 1 .. Len(diffs) : diffs'[i] = diffs[j]
    BY <1>4, <2>4, SortedIs
  <2>6. ASSUME paired = TRUE, candidate = baseline, NEW i \in 1 .. Len(diffs') PROVE diffs'[i] = 0
    <3>1. a = b
      BY <1>3, <2>2, <2>6
    <3>2. x = 0
      BY <2>3, <3>1
    <3>3. i \in 1 .. Len(diffs) + 1
      BY <2>5
    <3>4. diffs'[i] = x \/ \E j \in 1 .. Len(diffs) : diffs'[i] = diffs[j]
      BY <2>5, <3>3
    <3> QED BY <1>4, <2>6, <3>2, <3>4
  <2>7. Ordered(diffs)'
    BY <2>5 DEF Ordered
  <2> QED BY <1>2, <1>4, <2>5, <2>6, <2>7 DEF BootOK, Stat!Arms
<1> QED BY <1>5, <1>6

(* Division, and the places of an interval's ends. *)

LEMMA DivIs ==
  ASSUME NEW z \in Int, NEW q \in Nat, q > 0
  PROVE  \E d \in Int, p \in Int : d = z \div q /\ p = q * d /\ p <= z /\ z < p + q
<1>1. z \div q \in Int
  OBVIOUS
<1>2. q * (z \div q) <= z
  OBVIOUS
<1>3. z < q * (z \div q) + q
  OBVIOUS
<1>4. PICK d \in Int : d = z \div q
  BY <1>1
<1>5. q * d \in Int /\ q * d <= z /\ z < q * d + q
  BY <1>2, <1>3, <1>4
<1> QED BY <1>4, <1>5

LEMMA DivOnly ==
  ASSUME NEW z \in Int, NEW q \in Nat, q > 0, NEW e \in Int, q * e <= z, z < q * e + q
  PROVE  z \div q = e
<1>1. PICK d \in Int, p \in Int : d = z \div q /\ p = q * d /\ p <= z /\ z < p + q
  BY DivIs
<1>2. PICK g \in Int : g = d - e
  OBVIOUS
<1>3. PICK s \in Int : s = q * e
  OBVIOUS
<1>4. q * g = p - s
  BY <1>1, <1>2, <1>3
<1>5. q * g < q /\ -q < q * g
  BY <1>1, <1>3, <1>4
<1>6. g = 0
  <2>1. CASE g >= 1
    <3>1. q * g >= q
      BY <2>1
    <3> QED BY <1>5, <3>1
  <2>2. CASE g <= -1
    <3>1. q * g <= -q
      BY <2>2
    <3> QED BY <1>5, <3>1
  <2> QED BY <1>2, <2>1, <2>2
<1> QED BY <1>1, <1>2, <1>6

\* The two ends' places: above the lowest share and below the highest.
LEMMA Ends ==
  ASSUME NEW k \in Comparisons
  PROVE  \E a \in Nat : /\ a = Resamples \div (2 * k * AlphaInverse)
                        /\ a + 1 <= Resamples - a
                        /\ Stat!lo_i(k) = a + 1 /\ Stat!hi_i(k) = Resamples - a
<1>1. k \in Nat \ {0} /\ AlphaInverse \in Nat \ {0, 1} /\ Resamples \in Nat \ {0}
  BY StatisticsAssumption DEF Stat!StatisticsConstants, Stat!Positive
<1>2. PICK q \in Nat : q = 2 * k * AlphaInverse /\ q >= 4
  <2>1. PICK u, v \in Nat : k = 1 + u /\ AlphaInverse = 2 + v
    <3>1. /\ k - 1 \in Nat /\ AlphaInverse - 2 \in Nat
          /\ k = 1 + (k - 1) /\ AlphaInverse = 2 + (AlphaInverse - 2)
      BY <1>1
    <3> QED BY <3>1
  <2>2. 2 * k * AlphaInverse = 4 + 2 * v + 4 * u + 2 * (u * v) /\ u * v \in Nat
    BY <2>1
  <2> QED BY <2>2
<1>3. PICK R \in Nat : R = Resamples /\ R >= 1
  BY <1>1
<1>4. PICK a, p \in Int : a = R \div q /\ p = q * a /\ p <= R /\ R < p + q
  BY <1>2, <1>3, DivIs
<1>5. a >= 0 /\ p >= 4 * a
  <2>1. CASE a <= -1
    <3>1. q * a <= -q
      BY <1>2, <2>1
    <3> QED BY <1>2, <1>3, <1>4, <3>1
  <2>2. CASE a >= 0
    <3>1. q * a >= 4 * a
      BY <1>2, <2>2
    <3> QED BY <1>4, <2>2, <3>1
  <2> QED BY <2>1, <2>2
<1>6. a + 1 <= R - a
  <2>1. CASE a = 0
    BY <1>3, <2>1
  <2>2. CASE a >= 1
    BY <1>4, <1>5, <2>2
  <2> QED BY <1>5, <2>1, <2>2
<1>7. Stat!Ceiling((q - 1) * R, q) = R - a
  <2>1. PICK z, e \in Int : z = -((q - 1) * R) /\ e = a - R
    BY <1>2
  <2>2. PICK s \in Int : s = q * R
    BY <1>2
  <2>3. z = R - s
    <3>1. (q - 1) * R = q * R - R
      BY <1>2
    <3> QED BY <2>1, <2>2, <3>1
  <2>4. q * e = p - s
    BY <1>2, <1>3, <1>4, <2>1, <2>2
  <2>5. q * e <= z /\ z < q * e + q
    BY <1>2, <1>4, <2>3, <2>4
  <2>6. z \div q = e
    <3>1. q > 0
      BY <1>2
    <3> QED BY <2>5, <3>1, DivOnly
  <2> QED BY <2>1, <2>6 DEF Stat!Ceiling
<1>8. Stat!lo_i(k) = a + 1
  BY <1>2, <1>3, <1>4 DEF Stat!lo_i
<1>9. Stat!hi_i(k) = R - a
  <2>1. Stat!hi_i(k) = Stat!Min({R - a, R})
    BY <1>2, <1>3, <1>7 DEF Stat!hi_i
  <2>2. Stat!Min({R - a, R}) = R - a
    <3>1. PICK b \in Nat : b = R - a /\ b <= R
      BY <1>4, <1>5, <1>6
    <3>2. {b, R} \subseteq Nat
      OBVIOUS
    <3>3. PICK x : x = Stat!Min({b, R}) /\ x \in {b, R} /\ \A y \in {b, R} : x <= y
      BY <3>2, StatMin
    <3>4. x <= b
      BY <3>3
    <3> QED BY <3>1, <3>3, <3>4
  <2> QED BY <2>1, <2>2
<1>10. a = Resamples \div (2 * k * AlphaInverse) /\ a \in Nat
  BY <1>2, <1>3, <1>4, <1>5
<1> QED BY <1>3, <1>6, <1>8, <1>9, <1>10

\* The more comparisons, the nearer the ends are to the outermost.
LEMMA EndsWiden ==
  ASSUME NEW R \in Nat, NEW A \in Nat, A >= 2, NEW j \in Nat, NEW k \in Nat, 1 <= j, j < k
  PROVE  R \div (2 * k * A) <= R \div (2 * j * A)
<1>1. PICK p, q \in Nat : p = 2 * j * A /\ q = 2 * k * A
  OBVIOUS
<1>2. p > 0 /\ p <= q
  <2>1. PICK d \in Nat : k = j + d
    <3>1. k - j \in Nat /\ k = j + (k - j)
      OBVIOUS
    <3> QED BY <3>1
  <2>2. q = p + 2 * (d * A) /\ d * A \in Nat
    BY <1>1, <2>1
  <2>3. p >= 2
    <3>1. PICK i, B \in Nat : j = 1 + i /\ A = 1 + B
      <4>1. j - 1 \in Nat /\ j = 1 + (j - 1) /\ A - 1 \in Nat /\ A = 1 + (A - 1)
        OBVIOUS
      <4> QED BY <4>1
    <3>2. p = 2 + 2 * i + 2 * B + 2 * (i * B) /\ i * B \in Nat
      BY <1>1, <3>1
    <3> QED BY <3>2
  <2> QED BY <1>1, <2>2, <2>3
<1>3. PICK a, m \in Int : a = R \div p /\ m = p * a /\ m <= R /\ R < m + p
  BY <1>2, DivIs
<1>4. PICK b, n \in Int : b = R \div q /\ n = q * b /\ n <= R /\ R < n + q
  BY <1>2, DivIs
<1>5. ASSUME b > a PROVE FALSE
  <2>1. b >= 0
    <3>1. CASE b <= -1
      <4>1. q * b <= -q
        BY <3>1, <1>2
      <4> QED BY <1>4, <4>1
    <3> QED BY <3>1
  <2>2. PICK d, e \in Nat : b = a + 1 + d /\ q = p + e
    <3>1. b - a - 1 \in Nat /\ b = a + 1 + (b - a - 1) /\ q - p \in Nat /\ q = p + (q - p)
      BY <1>2, <1>5
    <3> QED BY <3>1
  <2>3. q * b = p * b + e * b
    BY <2>2
  <2>4. p * b = p * a + p + p * d
    BY <2>2
  <2>5. PICK w, x \in Int : w = e * b /\ x = p * d
    OBVIOUS
  <2>6. w >= 0 /\ x >= 0
    BY <2>1, <2>5
  <2>7. n = m + p + x + w
    BY <1>3, <1>4, <2>3, <2>4, <2>5
  <2> QED BY <1>3, <1>4, <2>6, <2>7
<1> QED BY <1>1, <1>3, <1>4, <1>5

LEMMA MeanInt ==
  ASSUME NEW arm \in Stat!Arms
  PROVE  Stat!Mean(arm) \in Int
<1>1. IsFiniteSet(DOMAIN arm) /\ DOMAIN arm # {} /\ \A k \in DOMAIN arm : arm[k] \in Int
  BY ArmIs
<1>2. PICK s \in Int : s = Stat!SumFunctionOnSet(arm, DOMAIN arm)
  BY <1>1, StatSum, SumInt
<1>3. PICK n \in Nat : n = Stat!Cardinality(DOMAIN arm) /\ n # 0
  BY <1>1, StatCard, FS_CardinalityType, FS_EmptySet
<1> QED BY <1>2, <1>3, SixthsInt DEF Stat!Mean

Full == BootOK /\ kind = "bootstrap" /\ Len(diffs) = Resamples

\* The replicates an interval ends at, in order.
LEMMA EndValues ==
  ASSUME Full, NEW k \in Comparisons
  PROVE  /\ diffs[Stat!lo_i(k)] \in Int /\ diffs[Stat!hi_i(k)] \in Int
         /\ diffs[Stat!lo_i(k)] <= diffs[Stat!hi_i(k)]
         /\ paired = TRUE /\ candidate = baseline =>
              diffs[Stat!lo_i(k)] = 0 /\ diffs[Stat!hi_i(k)] = 0
<1>1. PICK a \in Nat : /\ a + 1 <= Resamples - a
                       /\ Stat!lo_i(k) = a + 1 /\ Stat!hi_i(k) = Resamples - a
  BY Ends
<1>2. PICK R \in Nat : R = Resamples /\ R = Len(diffs)
  BY StatisticsAssumption DEF Stat!StatisticsConstants, Stat!Positive, Full
<1>3. PICK l, h \in 1 .. R : l = a + 1 /\ h = R - a /\ l <= h
  BY <1>1, <1>2
<1>4. /\ diffs \in Seq(Int) /\ Ordered(diffs)
      /\ paired = TRUE /\ candidate = baseline => \A i \in 1 .. Len(diffs) : diffs[i] = 0
  BY DEF Full, BootOK
<1>5. diffs[l] \in Int /\ diffs[h] \in Int /\ diffs[l] <= diffs[h]
  BY <1>2, <1>3, <1>4 DEF Ordered
<1>6. Stat!lo_i(k) = l /\ Stat!hi_i(k) = h
  BY <1>1, <1>2, <1>3
<1> QED BY <1>2, <1>4, <1>5, <1>6

LEMMA EndValuesWiden ==
  ASSUME Full, NEW j \in Comparisons, NEW k \in Comparisons, j < k
  PROVE  diffs[Stat!lo_i(k)] <= diffs[Stat!lo_i(j)] /\ diffs[Stat!hi_i(j)] <= diffs[Stat!hi_i(k)]
<1>1. PICK R \in Nat : R = Resamples /\ R = Len(diffs)
  BY StatisticsAssumption DEF Stat!StatisticsConstants, Stat!Positive, Full
<1>2. AlphaInverse \in Nat /\ AlphaInverse >= 2 /\ j \in Nat /\ k \in Nat /\ 1 <= j
  BY StatisticsAssumption DEF Stat!StatisticsConstants, Stat!Positive
<1>3. PICK a \in Nat : /\ a = R \div (2 * j * AlphaInverse) /\ a + 1 <= R - a
                       /\ Stat!lo_i(j) = a + 1 /\ Stat!hi_i(j) = R - a
  BY <1>1, Ends
<1>4. PICK b \in Nat : /\ b = R \div (2 * k * AlphaInverse) /\ b + 1 <= R - b
                       /\ Stat!lo_i(k) = b + 1 /\ Stat!hi_i(k) = R - b
  BY <1>1, Ends
<1>5. b <= a
  <2>1. R \div (2 * k * AlphaInverse) <= R \div (2 * j * AlphaInverse)
    BY <1>2, EndsWiden
  <2> QED BY <1>3, <1>4, <2>1
<1>6. PICK lj, hj, lk, hk \in 1 .. R :
        /\ lj = Stat!lo_i(j) /\ hj = Stat!hi_i(j) /\ lk = Stat!lo_i(k) /\ hk = Stat!hi_i(k)
        /\ lk <= lj /\ hj <= hk
  BY <1>3, <1>4, <1>5
<1>7. Ordered(diffs)
  BY DEF Full, BootOK
<1>8. diffs[lk] <= diffs[lj] /\ diffs[hj] <= diffs[hk]
  BY <1>1, <1>6, <1>7 DEF Ordered
<1> QED BY <1>6, <1>8

LEMMA IntervalsAre == BootOK => Stat!IntervalsHonest
<1> SUFFICES ASSUME Full PROVE Stat!IntervalsHonest
  BY DEF Stat!IntervalsHonest, Full
<1>1. baseline \in Stat!Arms /\ candidate \in Stat!Arms
  BY DEF Full, BootOK
<1>2. PICK theta \in Int : /\ theta = Stat!Mean(candidate) - Stat!Mean(baseline)
                           /\ candidate = baseline => theta = 0
  <2>1. PICK c, b \in Int : c = Stat!Mean(candidate) /\ b = Stat!Mean(baseline)
    BY <1>1, MeanInt
  <2> QED BY <2>1
<1> DEFINE L(k) == diffs[Stat!lo_i(k)]
           H(k) == diffs[Stat!hi_i(k)]
<1>3. ASSUME NEW k \in Comparisons
      PROVE  /\ L(k) \in Int /\ H(k) \in Int /\ L(k) <= H(k)
             /\ paired = TRUE /\ candidate = baseline => L(k) = 0 /\ H(k) = 0
             /\ paired = TRUE => Stat!Interval(k) = [low |-> 2 * theta - H(k), high |-> 2 * theta - L(k)]
             /\ paired # TRUE => Stat!Interval(k) = [low |-> L(k), high |-> H(k)]
  <2>1. /\ L(k) \in Int /\ H(k) \in Int /\ L(k) <= H(k)
        /\ paired = TRUE /\ candidate = baseline => L(k) = 0 /\ H(k) = 0
    BY EndValues
  <2>2. /\ paired = TRUE => Stat!Interval(k) = [low |-> 2 * theta - H(k), high |-> 2 * theta - L(k)]
        /\ paired # TRUE => Stat!Interval(k) = [low |-> L(k), high |-> H(k)]
    BY <1>2 DEF Stat!Interval
  <2> QED BY <2>1, <2>2
<1>4. ASSUME NEW j \in Comparisons, NEW k \in Comparisons, j < k
      PROVE  L(k) <= L(j) /\ H(j) <= H(k)
  BY <1>4, EndValuesWiden
<1> HIDE DEF L, H
<1>5. ASSUME NEW k \in Comparisons
      PROVE  /\ Stat!Interval(k).low <= Stat!Interval(k).high
             /\ Stat!significant(Stat!Interval(k)) => Stat!not_worse(Stat!Interval(k))
             /\ \A j \in Comparisons : j < k =>
                  /\ Stat!Interval(k).low <= Stat!Interval(j).low
                  /\ Stat!Interval(j).high <= Stat!Interval(k).high
             /\ paired /\ candidate = baseline => Stat!Interval(k) = [low |-> 0, high |-> 0]
  <2>1. PICK l, h \in Int : l = L(k) /\ h = H(k) /\ l <= h
    BY <1>3
  <2>2. PICK x, y \in Int : /\ x = Stat!Interval(k).low /\ y = Stat!Interval(k).high /\ x <= y
    <3>1. CASE paired = TRUE
      <4>1. Stat!Interval(k).low = 2 * theta - h /\ Stat!Interval(k).high = 2 * theta - l
        BY <1>3, <2>1, <3>1
      <4> QED BY <2>1, <4>1
    <3>2. CASE paired # TRUE
      <4>1. Stat!Interval(k) = [low |-> l, high |-> h]
        BY <1>3, <2>1, <3>2
      <4> QED BY <2>1, <4>1
    <3> QED BY <3>1, <3>2
  <2>3. Stat!significant(Stat!Interval(k)) => Stat!not_worse(Stat!Interval(k))
    BY <2>2 DEF Stat!significant, Stat!not_worse
  <2>4. ASSUME NEW j \in Comparisons, j < k
        PROVE  /\ Stat!Interval(k).low <= Stat!Interval(j).low
               /\ Stat!Interval(j).high <= Stat!Interval(k).high
    <3>1. PICK lj, hj \in Int : lj = L(j) /\ hj = H(j)
      BY <1>3
    <3>2. l <= lj /\ hj <= h
      BY <1>4, <2>1, <2>4, <3>1
    <3>3. CASE paired = TRUE
      <4>1. /\ Stat!Interval(k).low = 2 * theta - h /\ Stat!Interval(k).high = 2 * theta - l
            /\ Stat!Interval(j).low = 2 * theta - hj /\ Stat!Interval(j).high = 2 * theta - lj
        BY <1>3, <2>1, <3>1, <3>3
      <4> QED BY <3>2, <4>1
    <3>4. CASE paired # TRUE
      <4>1. /\ Stat!Interval(k) = [low |-> l, high |-> h]
            /\ Stat!Interval(j) = [low |-> lj, high |-> hj]
        BY <1>3, <2>1, <3>1, <3>4
      <4> QED BY <3>2, <4>1
    <3> QED BY <3>3, <3>4
  <2>5. ASSUME paired = TRUE, candidate = baseline PROVE Stat!Interval(k) = [low |-> 0, high |-> 0]
    <3>1. theta = 0 /\ l = 0 /\ h = 0
      BY <1>2, <1>3, <2>1, <2>5
    <3>2. 2 * theta - h = 0 /\ 2 * theta - l = 0
      BY <3>1
    <3>3. Stat!Interval(k) = [low |-> 2 * theta - h, high |-> 2 * theta - l]
      BY <1>3, <2>1, <2>5
    <3> QED BY <3>2, <3>3
  <2> QED BY <2>2, <2>3, <2>4, <2>5
<1>6. LET d == Stat!disjoint_report(baseline, candidate)
      IN d # Stat!Nothing => DOMAIN d.removed \cup DOMAIN d.kept = DOMAIN baseline
  <2> DEFINE d == Stat!disjoint_report(baseline, candidate)
             S == DOMAIN baseline \ DOMAIN candidate
  <2>1. CASE d = Stat!Nothing
    BY <2>1
  <2>2. CASE d # Stat!Nothing
    <3>1. /\ DOMAIN candidate \subseteq DOMAIN baseline
          /\ d = [removed |-> Stat!Restrict(baseline, S), kept |-> candidate]
      BY <2>2 DEF Stat!disjoint_report
    <3>2. d.removed = Stat!Restrict(baseline, S) /\ d.kept = candidate
      <4> HIDE DEF d, S
      <4> QED BY <3>1
    <3>3. DOMAIN Stat!Restrict(baseline, S) = S
      BY DEF Stat!Restrict
    <3> HIDE DEF d
    <3>4. DOMAIN d.removed \cup DOMAIN d.kept = DOMAIN baseline
      BY <3>1, <3>2, <3>3
    <3> QED BY <3>4 DEF d
  <2> QED BY <2>1, <2>2
<1> QED BY <1>5, <1>6 DEF Stat!IntervalsHonest

ReplayOK ==
  kind = "replay" =>
    /\ case.bars \in Seq([low : Int, high : Int, close : Int]) /\ case.bars # <<>>
    /\ \E n \in Nat : DOMAIN case.dates = 1 .. n /\ Len(case.dates) = n

\* Bars between two of a series' number no more than it has.
LEMMA HeldBarsInt ==
  ASSUME NEW dates, NEW n \in Nat, DOMAIN dates = 1 .. n, NEW entry, NEW exit
  PROVE  Stat!holding_bars(dates, entry, exit) \in Int
<1> DEFINE from == {k \in DOMAIN dates : dates[k] >= entry}
           upto == {k \in DOMAIN dates : dates[k] <= exit}
<1>1. from \subseteq 1 .. n /\ upto \subseteq 1 .. n
  OBVIOUS
<1>2. Stat!holding_bars(dates, entry, exit)
        = IF from = {} \/ upto = {} \/ Stat!Max(upto) <= Stat!Min(from)
          THEN 0 ELSE Stat!Max(upto) - Stat!Min(from)
  BY DEF Stat!holding_bars
<1> HIDE DEF from, upto
<1>3. CASE from = {} \/ upto = {}
  BY <1>2, <1>3
<1>4. CASE from # {} /\ upto # {}
  <2>1. IsFiniteSet(1 .. n)
    BY FS_Interval
  <2>2. IsFiniteSet(upto)
    BY <1>1, <2>1, FS_Subset
  <2>3. upto \subseteq Int /\ from \subseteq Nat
    BY <1>1
  <2>4. Stat!Max(upto) \in Int
    BY <1>4, <2>2, <2>3, StatMax
  <2>5. Stat!Min(from) \in Int
    <3>1. from # {} /\ from \subseteq Nat
      BY <1>4, <2>3
    <3>2. PICK x : x = Stat!Min(from) /\ x \in from
      BY <3>1, StatMin
    <3>3. x \in Nat
      BY <3>1, <3>2
    <3> QED BY <3>2, <3>3
  <2>6. Stat!Max(upto) - Stat!Min(from) \in Int
    BY <2>4, <2>5
  <2> QED BY <1>2, <2>6
<1> QED BY <1>3, <1>4

LEMMA EntriesAre == ReplayOK => Stat!EntriesInRange
<1> SUFFICES ASSUME ReplayOK, kind = "replay", NEW entry \in Dates, NEW exit \in Dates,
                    NEW e \in Stat!random_entry(Len(case.dates),
                                                Stat!holding_bars(case.dates, entry, exit))
             PROVE  1 <= e.decided /\ e.decided < e.filled /\ e.filled <= e.left
                    /\ e.left <= Len(case.dates)
  BY DEF Stat!EntriesInRange
<1>1. PICK n \in Nat : DOMAIN case.dates = 1 .. n /\ Len(case.dates) = n
  BY DEF ReplayOK
<1>2. PICK h \in Int : h = Stat!holding_bars(case.dates, entry, exit)
  BY <1>1, HeldBarsInt
<1>3. e \in Stat!random_entry(n, h)
  BY <1>1, <1>2
<1>4. ~ (h < 1)
  BY <1>3 DEF Stat!random_entry
<1>5. PICK i \in 1 .. n - h : e = [decided |-> i, filled |-> i + 1, left |-> i + h]
  BY <1>3, <1>4 DEF Stat!random_entry
<1>6. 1 <= i /\ i < i + 1 /\ i + 1 <= i + h /\ i + h <= n
  BY <1>4
<1>7. e.decided = i /\ e.filled = i + 1 /\ e.left = i + h
  BY <1>5
<1> QED BY <1>1, <1>6, <1>7

\* A bar the stop or the target is hit on, and its mirror image.
LEMMA MirrorIs ==
  ASSUME NEW bars \in Seq([low : Int, high : Int, close : Int]), NEW i \in 1 .. Len(bars),
         NEW s \in Int, NEW p \in Int
  PROVE  /\ Stat!StopHit(FALSE, bars[i], s) <=> Stat!StopHit(TRUE, Stat!Mirror(bars)[i], -s)
         /\ Stat!TpHit(FALSE, bars[i], p) <=> Stat!TpHit(TRUE, Stat!Mirror(bars)[i], -p)
         /\ Stat!Mirror(bars)[i].close = -bars[i].close
<1>1. PICK l, h, c \in Int : bars[i] = [low |-> l, high |-> h, close |-> c]
  <2>1. PICK r : r = bars[i] /\ r \in [low : Int, high : Int, close : Int]
    BY ElementOfSeq
  <2>2. /\ r = [low |-> r.low, high |-> r.high, close |-> r.close]
        /\ r.low \in Int /\ r.high \in Int /\ r.close \in Int
    BY <2>1
  <2> QED BY <2>1, <2>2
<1>2. Stat!Mirror(bars)[i] = [low |-> -h, high |-> -l, close |-> -c]
  BY <1>1 DEF Stat!Mirror
<1>3. /\ bars[i].low = l /\ bars[i].high = h /\ bars[i].close = c
      /\ Stat!Mirror(bars)[i].low = -h /\ Stat!Mirror(bars)[i].high = -l
      /\ Stat!Mirror(bars)[i].close = -c
  BY <1>1, <1>2
<1>4. (l <= s <=> -l >= -s) /\ (h >= p <=> -h <= -p)
  OBVIOUS
<1> QED BY <1>3, <1>4 DEF Stat!StopHit, Stat!TpHit

LEMMA SidesAre == ReplayOK => Stat!SidesMirror
<1> SUFFICES ASSUME ReplayOK, kind = "replay", NEW s \in {-2, -1}, NEW p \in {1, 2}
             PROVE  Stat!simulate_veto_counterfactual(case.bars, FALSE, s, p)
                      = Stat!simulate_veto_counterfactual(Stat!Mirror(case.bars), TRUE, -s, -p)
  BY DEF Stat!SidesMirror
<1> DEFINE bars == case.bars
           flip == Stat!Mirror(bars)
           out == {i \in DOMAIN bars : Stat!StopHit(FALSE, bars[i], s) \/ Stat!TpHit(FALSE, bars[i], p)}
           twin == {i \in DOMAIN flip : Stat!StopHit(TRUE, flip[i], -s) \/ Stat!TpHit(TRUE, flip[i], -p)}
<1>1. PICK n \in Nat \ {0} : n = Len(bars) /\ DOMAIN bars = 1 .. n
  BY DEF ReplayOK
<1>2. bars \in Seq([low : Int, high : Int, close : Int]) /\ s \in Int /\ p \in Int
  BY DEF ReplayOK
<1>3. DOMAIN flip = 1 .. n /\ Len(flip) = n
  <2>1. DOMAIN flip = 1 .. n
    BY <1>1 DEF Stat!Mirror
  <2>2. PICK f : f = flip
    OBVIOUS
  <2>3. f \in [1 .. n -> {f[i] : i \in 1 .. n}]
    BY <1>1, <2>2 DEF Stat!Mirror
  <2> HIDE DEF flip
  <2> QED BY <2>1, <2>2, <2>3, FunIsSeq
<1> HIDE DEF bars, flip
<1>4. ASSUME NEW i \in 1 .. n
      PROVE  /\ Stat!StopHit(FALSE, bars[i], s) <=> Stat!StopHit(TRUE, flip[i], -s)
             /\ Stat!TpHit(FALSE, bars[i], p) <=> Stat!TpHit(TRUE, flip[i], -p)
             /\ flip[i].close = -bars[i].close
  BY <1>1, <1>2, MirrorIs DEF flip
<1>5. out = twin /\ out \subseteq 1 .. n
  BY <1>1, <1>3, <1>4
<1>6. Stat!Gain(FALSE, s) = s /\ Stat!Gain(TRUE, -s) = s /\ Stat!Gain(FALSE, p) = p /\ Stat!Gain(TRUE, -p) = p
  BY <1>2 DEF Stat!Gain
<1>7. Stat!Gain(TRUE, flip[n].close) = Stat!Gain(FALSE, bars[n].close)
  <2>1. n \in 1 .. n
    OBVIOUS
  <2>2. PICK c \in Int : c = bars[n].close
    <3>1. PICK r : r = bars[n] /\ r \in [low : Int, high : Int, close : Int]
      BY <1>1, <1>2, <2>1, ElementOfSeq
    <3>2. r.close \in Int
      BY <3>1
    <3> QED BY <3>1, <3>2
  <2>3. flip[n].close = -c
    BY <1>4, <2>1, <2>2
  <2> QED BY <2>2, <2>3 DEF Stat!Gain
<1>8. Stat!simulate_veto_counterfactual(bars, FALSE, s, p)
        = IF out = {} THEN [reason |-> "horizon_close", gain |-> Stat!Gain(FALSE, bars[n].close)]
          ELSE IF Stat!StopHit(FALSE, bars[Stat!Min(out)], s)
          THEN [reason |-> "stop_loss", gain |-> Stat!Gain(FALSE, s)]
          ELSE [reason |-> "take_profit", gain |-> Stat!Gain(FALSE, p)]
  BY <1>1 DEF Stat!simulate_veto_counterfactual
<1>9. Stat!simulate_veto_counterfactual(flip, TRUE, -s, -p)
        = IF twin = {} THEN [reason |-> "horizon_close", gain |-> Stat!Gain(TRUE, flip[n].close)]
          ELSE IF Stat!StopHit(TRUE, flip[Stat!Min(twin)], -s)
          THEN [reason |-> "stop_loss", gain |-> Stat!Gain(TRUE, -s)]
          ELSE [reason |-> "take_profit", gain |-> Stat!Gain(TRUE, -p)]
  BY <1>3 DEF Stat!simulate_veto_counterfactual
<1> HIDE DEF out, twin
<1>10. CASE out = {}
  BY <1>5, <1>7, <1>8, <1>9, <1>10 DEF bars, flip
<1>11. CASE out # {}
  <2>1. PICK m : m = Stat!Min(out) /\ m \in 1 .. n
    <3>1. out \subseteq Nat
      BY <1>5
    <3> QED BY <1>5, <1>11, <3>1, StatMin
  <2>2. Stat!StopHit(FALSE, bars[m], s) <=> Stat!StopHit(TRUE, flip[m], -s)
    BY <1>4, <2>1
  <2>3. PICK x, y : /\ x = Stat!simulate_veto_counterfactual(bars, FALSE, s, p)
                    /\ y = Stat!simulate_veto_counterfactual(flip, TRUE, -s, -p)
    OBVIOUS
  <2>4. CASE Stat!StopHit(FALSE, bars[m], s)
    <3>1. x = [reason |-> "stop_loss", gain |-> Stat!Gain(FALSE, s)]
      BY <1>8, <1>11, <2>1, <2>3, <2>4
    <3>2. y = [reason |-> "stop_loss", gain |-> Stat!Gain(TRUE, -s)]
      BY <1>5, <1>9, <1>11, <2>1, <2>2, <2>3, <2>4
    <3> QED BY <1>6, <2>3, <3>1, <3>2 DEF bars, flip
  <2>5. CASE ~ Stat!StopHit(FALSE, bars[m], s)
    <3>1. x = [reason |-> "take_profit", gain |-> Stat!Gain(FALSE, p)]
      BY <1>8, <1>11, <2>1, <2>3, <2>5
    <3>2. y = [reason |-> "take_profit", gain |-> Stat!Gain(TRUE, -p)]
      BY <1>5, <1>9, <1>11, <2>1, <2>2, <2>3, <2>5
    <3> QED BY <1>6, <2>3, <3>1, <3>2 DEF bars, flip
  <2> QED BY <2>4, <2>5
<1> QED BY <1>10, <1>11

StatOK == BootOK /\ JudgeOK /\ ReplayOK

LEMMA BarsInt == Stat!Bars \subseteq [low : Int, high : Int, close : Int]
<1>1. BarPrices \subseteq Int
  BY StatisticsAssumption DEF Stat!StatisticsConstants
<1> QED BY <1>1 DEF Stat!Bars

LEMMA StatStarts == Stat!Init => StatOK
<1> SUFFICES ASSUME Stat!Init PROVE StatOK
  OBVIOUS
<1>1. BootOK
  <2>1. diffs = <<>>
    BY DEF Stat!Init
  <2>2. diffs \in Seq(Int) /\ Len(diffs) = 0
    BY <2>1
  <2>3. kind = "bootstrap" => baseline \in Stat!Arms /\ candidate \in Stat!Arms
    BY DEF Stat!Init
  <2> QED BY <2>2, <2>3 DEF BootOK, Ordered
<1>2. JudgeOK
  BY DEF Stat!Init, JudgeOK
<1>3. ASSUME kind = "replay" PROVE ReplayOK
  <2>1. CASE \E n \in 1 .. 2 : case \in [bars : [1 .. n -> Stat!Bars], dates : {<<1>>}]
    <3>1. PICK n \in 1 .. 2 : case \in [bars : [1 .. n -> Stat!Bars], dates : {<<1>>}]
      BY <2>1
    <3>2. PICK f : f = case.bars /\ f \in [1 .. n -> Stat!Bars]
      BY <3>1
    <3>3. f \in [1 .. n -> [low : Int, high : Int, close : Int]]
      BY <3>2, BarsInt
    <3>4. n \in Nat /\ n # 0
      BY <3>1
    <3>5. f \in Seq([low : Int, high : Int, close : Int]) /\ Len(f) = n
      BY <3>3, <3>4, FunIsSeq
    <3>6. f # <<>>
      BY <3>4, <3>5
    <3>7. case.dates = <<1>>
      BY <3>1
    <3>8. DOMAIN case.dates = 1 .. 1 /\ Len(case.dates) = 1
      BY <3>7
    <3> QED BY <3>2, <3>5, <3>6, <3>8 DEF ReplayOK
  <2>2. CASE case \in [bars : {Stat!OneBar.bars},
                       dates : {Stat!InOrder(D) : D \in (SUBSET Dates) \ {{}}}]
    <3>1. case.bars = <<[low |-> 0, high |-> 0, close |-> 0]>>
      BY <2>2 DEF Stat!OneBar
    <3>2. PICK D \in SUBSET Dates : case.dates = Stat!InOrder(D)
      BY <2>2
    <3>3. IsFiniteSet(D)
      <4>1. IsFiniteSet(Dates)
        BY StatisticsAssumption DEF Stat!StatisticsConstants, Stat!IsFiniteSet, IsFiniteSet
      <4> QED BY <4>1, FS_Subset
    <3>4. PICK n \in Nat : DOMAIN case.dates = 1 .. n /\ Len(case.dates) = n
      BY <3>2, <3>3, InOrderIs
    <3>5. case.bars \in Seq([low : Int, high : Int, close : Int]) /\ case.bars # <<>>
      BY <3>1
    <3> QED BY <3>4, <3>5 DEF ReplayOK
  <2> QED BY <1>3, <2>1, <2>2 DEF Stat!Init
<1>4. ReplayOK
  BY <1>3 DEF ReplayOK
<1> QED BY <1>1, <1>2, <1>4 DEF StatOK

LEMMA StatKeeps == StatOK /\ [Stat!Next]_(Stat!stats) => StatOK'
<1> SUFFICES ASSUME StatOK, [Stat!Next]_(Stat!stats) PROVE StatOK'
  OBVIOUS
<1>1. CASE UNCHANGED Stat!stats
  BY <1>1 DEF StatOK, BootOK, JudgeOK, ReplayOK, Ordered, Stat!stats, Stat!Arms, Stat!Calibrations
<1>2. ASSUME kind = "bootstrap", Stat!Replicate PROVE StatOK'
  <2>1. kind' = kind
    BY <1>2 DEF Stat!Replicate
  <2>2. BootOK'
    BY <1>2, ReplicateKeeps DEF StatOK
  <2> QED BY <1>2, <2>1, <2>2 DEF StatOK, JudgeOK, ReplayOK
<1>3. ASSUME kind = "bootstrap", Stat!Refuse PROVE StatOK'
  BY <1>3 DEF Stat!Refuse, StatOK, BootOK, JudgeOK, ReplayOK, Ordered, Stat!Arms
<1>4. ASSUME kind = "judge", Stat!Recalibrate PROVE StatOK'
  BY <1>4 DEF Stat!Recalibrate, StatOK, BootOK, JudgeOK, ReplayOK, Stat!Calibrations
<1>5. ASSUME kind = "judge", Stat!NewVersion PROVE StatOK'
  BY <1>5 DEF Stat!NewVersion, StatOK, BootOK, JudgeOK, ReplayOK, Stat!Calibrations
<1>6. ASSUME kind = "judge", NEW u, Stat!Judge(u) PROVE StatOK'
  <2>1. kind' = kind /\ calibration' = calibration /\ expected' = expected
    BY <1>6 DEF Stat!Judge
  <2>2. cut' = Stat!Nothing \/ cut'.by = expected'
    <3>1. CASE Stat!Usable(Stat!Loaded)
      <4>1. cut' = [by |-> Stat!Loaded.version, scale |-> Stat!scale_for(Stat!Loaded, u)]
        BY <1>6, <3>1 DEF Stat!Judge
      <4>2. cut'.by = Stat!Loaded.version
        BY <4>1
      <4>3. Stat!Loaded.version = expected
        BY <3>1 DEF Stat!Usable
      <4> QED BY <2>1, <4>2, <4>3
    <3>2. CASE ~ Stat!Usable(Stat!Loaded)
      BY <1>6, <3>2 DEF Stat!Judge
    <3> QED BY <3>1, <3>2
  <2>3. calibration' \in Stat!Calibrations
    BY <1>6, <2>1 DEF StatOK, JudgeOK
  <2> QED BY <1>6, <2>1, <2>2, <2>3 DEF StatOK, BootOK, JudgeOK, ReplayOK, Stat!Nothing, Stat!Calibrations
<1> QED BY <1>1, <1>2, <1>3, <1>4, <1>5, <1>6 DEF Stat!Next

LEMMA StatHolds == Stat!Spec => []StatOK
BY StatStarts, StatKeeps, PTL DEF Stat!Spec

\* Whatever the record says of a result is earned: the intervals, the
\* haircuts and the replays; the printed ratios and the scored readings; and
\* the judge's own score.
THEOREM RecordHeld == Stat!Spec /\ Rec!Spec /\ Score!Spec => []RecordHonest
<1>1. StatOK /\ RecordOK /\ ScoreOK => RecordHonest
  BY IntervalsAre, JudgeIs, EntriesAre, SidesAre, RatiosAre, ScoredIs, EarnedIs, ShownIs
  DEF StatOK, RecordHonest
<1> QED BY <1>1, StatHolds, RecordHolds, ScoreHolds, PTL
===============================================================================
