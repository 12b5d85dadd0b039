----------------------------- MODULE GateFreeze -----------------------------
(***************************************************************************)
(* Pre-registered gates: a spec is validated (src/gatespec.py), frozen by  *)
(* its hash in research/registrations.jsonl (scripts/register_gate.py),    *)
(* and run, arm by arm, to one verdict (scripts/run_gate.py), while the    *)
(* author edits the file and the data on disk changes.  Nothing locks the  *)
(* logs: what a registrar or a runner checked may be stale when it writes. *)
(* One spec id; a spec is its own digest.  What the simulator measures of  *)
(* an arm on the data, and how the statistics compare its trades with the  *)
(* baseline's, is the constant Measured.                                   *)
(***************************************************************************)
EXTENDS Integers, Sequences, FiniteSets, SequencesExt, FiniteSetsExt

CONSTANTS
  Specs,       \* the contents the spec file may have
  Measured,    \* arm -> data -> summary; Missing for what it lacks
  Missing,
  Datas,       \* the contents the snapshot file may have
  Registrars,  \* register_gate processes
  Runners,     \* run_gate processes
  MaxRows      \* bound: rows in the registrations and in the verdicts

VARIABLES
  file,           \* research/specs/<id>.yaml
  data,           \* the snapshot on disk
  registrations, verdicts, trials,   \* the append-only logs
  desk,           \* what each registrar is about to append
  runs            \* what each runner holds

gate == <<file, data, registrations, verdicts, trials, desk, runs>>

-----------------------------------------------------------------------------
(* gatespec.validate.                                                      *)

INTERVAL_RULES == {"significantly_better", "not_worse"}
PAIRED_RULES == {"significantly_better_paired", "not_worse_paired"}
COMPARATIVE_RULES == {"pf_gt_baseline", "maxdd_within"} \cup INTERVAL_RULES \cup PAIRED_RULES
SYMBOL_RULES == {"beats_benchmark_symbol", "beats_benchmark_risk_adjusted"}
SELF_RULES == {"enablement_gate", "min_trades", "beats_buy_hold", "beats_exposure_matched",
               "deployment_at_least"} \cup SYMBOL_RULES
GRID_RULES == {"no_interior_optimum"}
GRID_METRICS == {"pf", "ret", "win", "dd", "deployed", "n"}

ValidClause(c, arms) ==
  /\ c.rule \in COMPARATIVE_RULES \cup SELF_RULES \cup GRID_RULES
  /\ c.rule = "deployment_at_least" => c.arg \in 1 .. 100
  /\ c.rule \in SYMBOL_RULES => c.symbol # ""
  /\ c.rule \in GRID_RULES =>
       /\ c.metric \in GRID_METRICS /\ c.better \in {"high", "low"}
       /\ Len(c.order) >= 3 /\ IsInjective(c.order) /\ ToSet(c.order) \subseteq arms

validate(spec) ==
  LET arms == ToSet(spec.arms)
  IN /\ spec.arms \in Seq(STRING) /\ spec.arms # <<>> /\ spec.clauses # {}
     /\ IsInjective(spec.arms) /\ spec.arms[1] = "baseline"
     /\ {c.rule : c \in spec.clauses} \cap COMPARATIVE_RULES # {} => Len(spec.arms) >= 2
     /\ \A c \in spec.clauses : ValidClause(c, arms)
     /\ spec.candidate = "" \/ spec.family = {}
     /\ spec.family # {} => /\ Cardinality(spec.family) >= 2
                            /\ spec.family \subseteq arms \ {"baseline"}

\* registrations(): the id's most recent row.
Registered == registrations # <<>>
Frozen == Last(registrations).spec

-----------------------------------------------------------------------------
(* register_gate.py.                                                       *)

has_verdict == verdicts # <<>>
\* A claim of an edge is refused on every venue, by one rule or another,
\* unless the author gives a reason, which the row keeps.
freeze_violation(spec) == spec.claim = "EDGE"

\* Bugs: the known result does not stop a re-registration; neither does the
\* freeze stop one that follows a row.
MayRegisterLate(spec, reason) == freeze_violation(spec) => reason
MayRegisterAgain(spec, reason) ==
  /\ Registered => ~has_verdict
  /\ freeze_violation(spec) => reason \/ Registered
MayRegister(spec, reason) ==
  /\ Registered => ~has_verdict
  /\ freeze_violation(spec) => reason

AtRest == [phase |-> "idle", row |-> <<>>]

\* The file, the registrations and the verdicts are read ...
Register(g, reason) ==
  /\ desk[g].phase = "idle"
  /\ validate(file) /\ file.judge # "undeclared"
  /\ ~(Registered /\ Frozen = file)        \* already registered, unchanged
  /\ MayRegister(file, reason)
  /\ desk' = [desk EXCEPT ![g] = [phase |-> "checked",
       row |-> [spec |-> file, freeze_override |-> freeze_violation(file) /\ reason]]]
  /\ UNCHANGED <<file, data, registrations, verdicts, trials, runs>>

\* ... and then the row is appended, whatever was recorded meanwhile.
AppendRow(g) ==
  /\ desk[g].phase = "checked" /\ Len(registrations) < MaxRows
  /\ registrations' = Append(registrations, desk[g].row)
  /\ desk' = [desk EXCEPT ![g] = AtRest]
  /\ UNCHANGED <<file, data, verdicts, trials, runs>>

Interrupted(g) ==
  /\ desk[g].phase # "idle"
  /\ desk' = [desk EXCEPT ![g] = AtRest]
  /\ UNCHANGED <<file, data, registrations, verdicts, trials, runs>>

InFlight == {g \in Registrars : desk[g].phase = "checked"}

-----------------------------------------------------------------------------
(* run_gate.evaluate: one candidate against the baseline.  Percentages are *)
(* whole numbers; a clause that cannot be scored fails.                    *)

Lacks(x) == x = Missing

\* backtest.enablement_gate; pf in tenths.
enablement_gate(s) ==
  /\ s.ret > 0 /\ s.n >= 15 /\ s.pf >= 13
  /\ \/ s.ret >= s.hold
     \/ s.ret * 10 >= 7 * s.hold /\ 2 * s.dd <= s.hold_dd
     \/ s.deployed < 50 /\ s.ret * 100 >= s.hold * s.deployed

\* The metric along the declared order, and the place of its first optimum.
Response(c, arms) == [i \in DOMAIN c.order |-> arms[c.order[i]][c.metric]]
Optimum(vals, better) ==
  Min({i \in DOMAIN vals : \A j \in DOMAIN vals :
         IF better = "low" THEN vals[i] <= vals[j] ELSE vals[j] <= vals[i]})

Clears(c, base, cand, arms) ==
  CASE c.rule = "enablement_gate" -> enablement_gate(cand)
    [] c.rule = "pf_gt_baseline" -> cand.pf > base.pf
    [] c.rule = "maxdd_within" -> cand.dd <= base.dd + c.arg
    [] c.rule = "min_trades" -> cand.n >= c.arg
    [] c.rule = "beats_buy_hold" -> cand.ret >= cand.hold
    [] c.rule = "beats_exposure_matched" -> cand.ret * 100 >= cand.hold * cand.deployed
    [] c.rule = "deployment_at_least" -> cand.deployed >= c.arg
    [] c.rule \in INTERVAL_RULES -> base.closed /\ cand.closed /\ cand.against[c.rule]
    [] c.rule \in PAIRED_RULES ->
         /\ base.closed /\ cand.closed /\ base.keyed /\ cand.keyed
         /\ cand.against[c.rule]
    [] c.rule = "beats_benchmark_symbol" ->
         /\ ~Lacks(cand.bench) /\ cand.symbol = c.symbol
         /\ cand.ret >= cand.bench
    [] c.rule = "beats_benchmark_risk_adjusted" ->
         /\ ~Lacks(cand.bench) /\ ~Lacks(cand.bench_dd) /\ cand.symbol = c.symbol
         /\ cand.bench_dd # 0 /\ cand.dd # 0
         /\ cand.ret * cand.bench_dd >= cand.bench * cand.dd
    [] c.rule = "no_interior_optimum" ->
         LET vals == Response(c, arms)
         IN /\ \A i \in DOMAIN vals : ~Lacks(vals[i])
            /\ Optimum(vals, c.better) \in {1, Len(vals)}

evaluate(spec, arms, candidate) ==
  \A c \in spec.clauses : Clears(c, arms["baseline"], arms[candidate], arms)

default_candidate(spec) ==
  IF spec.candidate # "" THEN spec.candidate
  ELSE IF Len(spec.arms) > 1 THEN spec.arms[2] ELSE spec.arms[1]

\* The arms the pass mark is applied to, all of which must clear it.
OnTrial(spec) == IF spec.family # {} THEN spec.family ELSE {default_candidate(spec)}

\* A bug: the results are taken in the order the workers finished.
AsFinished(done, arms) ==
  [a \in ToSet(arms) |-> done[CHOOSE i \in DOMAIN arms : arms[i] = a].summary]
in_spec_order(done, arms) ==
  [a \in ToSet(arms) |-> (CHOOSE d \in ToSet(done) : d.name = a).summary]

-----------------------------------------------------------------------------
(* run_gate.main.                                                          *)

\* drifted is a ghost: the data changed between its check and its loading.
Idle == [phase |-> "idle", spec |-> <<>>, data |-> <<>>, drifted |-> FALSE, done |-> <<>>]

Init ==
  /\ file \in Specs /\ data \in Datas
  /\ registrations = <<>> /\ verdicts = <<>> /\ trials = {}
  /\ desk = [g \in Registrars |-> AtRest] /\ runs = [r \in Runners |-> Idle]

\* check_frozen and verify_data.
check_frozen(spec) == Registered /\ spec = Frozen
verify_data(spec) == data = spec.snapshot

Start(r) ==
  /\ runs[r].phase = "idle" /\ Len(verdicts) < MaxRows
  /\ validate(file) /\ check_frozen(file) /\ verify_data(file)
  /\ runs' = [runs EXCEPT ![r] = [Idle EXCEPT !.phase = "verified", !.spec = file]]
  /\ UNCHANGED <<file, data, registrations, verdicts, trials, desk>>

\* The bars are read from the file again once it is verified.
load_bars_file(r) ==
  /\ runs[r].phase = "verified"
  /\ runs' = [runs EXCEPT ![r].phase = "arms", ![r].data = data]
  /\ UNCHANGED <<file, data, registrations, verdicts, trials, desk>>

\* run_arm: a worker of the pool finishes an arm, in any order.
run_arm(r, a) ==
  /\ runs[r].phase = "arms" /\ a \in ToSet(runs[r].spec.arms)
  /\ \A i \in DOMAIN runs[r].done : runs[r].done[i].name # a
  /\ runs' = [runs EXCEPT ![r].done = Append(@, [name |-> a,
                                                     summary |-> Measured[a][runs[r].data]])]
  /\ UNCHANGED <<file, data, registrations, verdicts, trials, desk>>

\* Every arm's row is logged before the run is judged, refused or not.
LogTrials(r) ==
  /\ runs[r].phase = "arms"
  /\ ToSet(runs[r].spec.arms) \subseteq {d.name : d \in ToSet(runs[r].done)}
  /\ trials' = trials \cup {[spec |-> runs[r].spec, arm |-> a] : a \in ToSet(runs[r].spec.arms)}
  /\ runs' = [runs EXCEPT ![r].phase = "judge"]
  /\ UNCHANGED <<file, data, registrations, verdicts, desk>>

\* A spec that declares the judge is refused when its model never acted; one
\* whose candidate is no arm of it dies here, for no check came before.
Record(r, acted) ==
  LET spec == runs[r].spec
      arms == in_spec_order(runs[r].done, spec.arms)
      judged == spec.judge = "on" => acted
      lost == ~(OnTrial(spec) \subseteq DOMAIN arms)
  IN /\ runs[r].phase = "judge" /\ Len(verdicts) < MaxRows
     /\ IF judged /\ ~lost
        THEN verdicts' = Append(verdicts,
               [spec |-> spec, data |-> runs[r].data, drifted |-> runs[r].drifted,
                judged |-> acted, trial |-> OnTrial(spec),
                passed |-> \A a \in OnTrial(spec) : evaluate(spec, arms, a)])
        ELSE verdicts' = verdicts
     /\ runs' = [runs EXCEPT ![r] = Idle]
     /\ UNCHANGED <<file, data, registrations, trials, desk>>

Killed(r) ==
  /\ runs[r].phase # "idle"
  /\ runs' = [runs EXCEPT ![r] = Idle]
  /\ UNCHANGED <<file, data, registrations, verdicts, trials, desk>>

\* The author edits the spec; the data is rebuilt.
Edit == file' \in Specs \ {file} /\ UNCHANGED <<data, registrations, verdicts, trials, desk, runs>>
Drift ==
  /\ data' \in Datas \ {data}
  /\ runs' = [r \in Runners |-> IF runs[r].phase = "verified"
                               THEN [runs[r] EXCEPT !.drifted = TRUE] ELSE runs[r]]
  /\ UNCHANGED <<file, registrations, verdicts, trials, desk>>

Next ==
  \/ \E g \in Registrars :
       AppendRow(g) \/ Interrupted(g) \/ \E reason \in BOOLEAN : Register(g, reason)
  \/ \E r \in Runners :
       \/ Start(r) \/ load_bars_file(r) \/ LogTrials(r) \/ Killed(r)
       \/ \E a \in DOMAIN Measured : run_arm(r, a)
       \/ \E acted \in BOOLEAN : Record(r, acted)
  \/ Edit \/ Drift

Spec == Init /\ [][Next]_gate

-----------------------------------------------------------------------------
TypeOK ==
  /\ file \in Specs /\ data \in Datas
  /\ registrations \in BoundedSeq([spec : Specs, freeze_override : BOOLEAN], MaxRows)
  /\ \A i \in DOMAIN verdicts : verdicts[i].spec \in Specs /\ verdicts[i].passed \in BOOLEAN
  /\ trials \subseteq [spec : Specs, arm : DOMAIN Measured]
  /\ \A g \in Registrars : desk[g].phase \in {"idle", "checked"}
  /\ \A r \in Runners : runs[r].phase \in {"idle", "verified", "arms", "judge"}

MeasuredOn(d) == [a \in DOMAIN Measured |-> Measured[a][d]]

\* A pass means what the registration says, however many workers ran the
\* arms and in whatever order they finished, and whatever happened to the
\* file meanwhile: the verdict's spec is one that was registered, its data
\* the snapshot it names unless that was replaced between its check and its
\* loading, every arm on trial beat the pass mark on its own measurement of
\* that data, a declared judge acted, and the trials log has all its arms.
VerdictsHonest ==
  \A i \in DOMAIN verdicts :
    LET v == verdicts[i]
        arms == MeasuredOn(v.data)
    IN /\ \E k \in DOMAIN registrations : registrations[k].spec = v.spec
       /\ v.data = v.spec.snapshot \/ v.drifted
       /\ v.spec.judge = "on" => v.judged
       /\ \A a \in ToSet(v.spec.arms) : [spec |-> v.spec, arm |-> a] \in trials
       /\ v.passed => \A c \in v.spec.clauses, a \in v.trial :
            Clears(c, arms["baseline"], arms[a], arms)
       /\ ~v.passed => \E c \in v.spec.clauses, a \in v.trial :
            ~Clears(c, arms["baseline"], arms[a], arms)

\* An edge is claimed only by rows that say why the freeze does not hold.
EdgeNeedsReason ==
  \A k \in DOMAIN registrations :
    registrations[k].spec.claim = "EDGE" => registrations[k].freeze_override

\* Once a result is known the pass mark stays where it is, but for what was in
\* flight: no further registration passes the check, and a row is appended only
\* by a registrar that had passed it, the row it passed it with, and once.
GoalpostStays ==
  [][verdicts # <<>> =>
       /\ InFlight' \subseteq InFlight
       /\ registrations' # registrations =>
            \E g \in InFlight : /\ InFlight' = InFlight \ {g}
                               /\ registrations' = Append(registrations, desk[g].row)]_gate
=============================================================================
