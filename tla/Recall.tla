------------------------------- MODULE Recall -------------------------------
(***************************************************************************)
(* The research record and what is asked of it: src/recall.py and          *)
(* scripts/recall.py.  Five layers are written apart - the sections of     *)
(* the record with their trailers, the spec files, the registrations, the  *)
(* verdicts and the readings of priors - and joined by section and id.     *)
(* Where two derivations disagree the query raises and does not choose.    *)
(* A body stands for its own hash, a prior for the hash of its spec.       *)
(* Nothing locks the logs: a registrar appends minutes after it looked for *)
(* a verdict, a gate minutes after it looked for the registration.         *)
(***************************************************************************)
EXTENDS Integers, Sequences, FiniteSets, FiniteSetsExt, Functions

CONSTANTS
  Sections,      \* the section keys the record may have
  Keys,          \* spec id -> the section its id derives
  Trailered,     \* the sections written since trailers are required
  Headers,       \* what the first lines of the spec files may say
  MaxEdits, MaxPriors, MaxVerdicts, MaxReadings, MaxFlight,    \* bounds
  None

Ids == DOMAIN Keys
RecallConstants == IsFiniteSet(Sections) /\ IsFiniteSet(Ids)
Directions == {"expected_pass", "expected_fail", "mixed", "no_expectation_stated"}

VARIABLES
  text,       \* section -> [body, trailer], or None while it is not written
  header,     \* spec id -> the section its file's first line names, or None
  regs,       \* spec id -> the prior it is registered with; 0: not registered
  asked,      \* the registrations that were checked and may be appended
  running,    \* the gates that began, of the prior that was registered then
  rows,       \* verdicts.jsonl; `under` is the prior the run was frozen with
  read,       \* prior_readings.jsonl
  anchors,    \* the manifest on disk, or None
  overtaken   \* ghost: the specs that were re-registered while a gate ran,
              \* or lost their registration

record == <<text, header, regs, asked, running, rows, read, anchors, overtaken>>

-----------------------------------------------------------------------------
(* The queries.                                                            *)

Registered == {i \in Ids : regs[i] > 0}
sections == {s \in Sections : text[s] # None}

\* The last row of an id counts: re-runs and second readings append.
LatestOf(log, i) == Max({k \in DOMAIN log : log[k].id = i})
latest_verdicts == [i \in {rows[k].id : k \in DOMAIN rows} |-> rows[LatestOf(rows, i)]]
readings == [i \in {read[k].id : k \in DOMAIN read} |-> read[LatestOf(read, i)]]

\* join: raises when an id and its file name different sections.
Torn == {i \in Registered : header[i] \notin {None, Keys[i]}}
specs_by_section(s) == {i \in Registered : Keys[i] = s}

\* gate_result: passed of how many, among the section's ids that have run.
Ran(s) == specs_by_section(s) \cap DOMAIN latest_verdicts
gate_result(s) == [passed |-> Cardinality({i \in Ran(s) : latest_verdicts[i].passed}),
                   of |-> Cardinality(Ran(s))]

\* build_anchors raises when a trailer declares what does not join.
Mislabelled == {s \in sections : text[s].trailer \notin {None, specs_by_section(s)}}
build_anchors ==
  [s \in sections |->
    [body |-> text[s].body, specs |-> specs_by_section(s),
     spec_source |-> IF text[s].trailer # None THEN "id+header+trailer"
                     ELSE IF specs_by_section(s) # {} THEN "id+header" ELSE "no registration"]]

\* validate_reading.  A bug: the quote is looked for, the hash is not compared.
validate_readingQuote(r) ==
  r.direction \in Directions /\ regs[r.id] > 0 /\ r.quote = regs[r.id]
validate_reading(r) ==
  /\ r.direction \in Directions
  /\ regs[r.id] > 0 /\ r.prior = regs[r.id]
  /\ r.quote = regs[r.id]

\* audit: every way the layers disagree.
audit ==
  IF Torn # {} THEN {"join"}
  ELSE UNION {
    {"no section" : i \in {i \in Registered : Keys[i] \notin sections}},
    {"no registration" : k \in {k \in DOMAIN rows : regs[rows[k].id] = 0}},
    {"no trailer" : s \in {s \in sections \cap Trailered : text[s].trailer = None}},
    IF Mislabelled # {} THEN {"trailer"}
    ELSE {"stale anchors" : s \in {s \in {None} : anchors \notin {None, build_anchors}}}
         \cup {"reading" : i \in {i \in DOMAIN readings : ~validate_reading(readings[i])}}}

\* calibrate: each registration in a cell of the table or in a count beside
\* it.  It raises on a reading that does not hold; and one of an expected
\* direction whose spec has not run falls to the counts, which have no such
\* key.
direction(i) == IF i \in DOMAIN readings THEN readings[i].direction ELSE "unread"
Scored == {i \in Registered : /\ direction(i) \in {"expected_pass", "expected_fail"}
                              /\ i \in DOMAIN latest_verdicts}
cells(d, passed) == Cardinality({i \in Scored : direction(i) = d
                                               /\ latest_verdicts[i].passed = passed})
counts(d) == Cardinality({i \in Registered \ Scored : direction(i) = d})
Dies == \/ Torn # {}
        \/ \E i \in DOMAIN readings : ~validate_reading(readings[i])
        \/ \E i \in Registered \ Scored : direction(i) \in {"expected_pass", "expected_fail"}
hits == cells("expected_pass", TRUE) + cells("expected_fail", FALSE)

-----------------------------------------------------------------------------
(* Who writes the layers.                                                  *)

Init ==
  /\ text = [s \in Sections |-> None]
  /\ header \in Headers
  /\ regs = [i \in Ids |-> 0] /\ asked = {} /\ running = {}
  /\ rows = <<>> /\ read = <<>> /\ anchors = None /\ overtaken = {}

\* The author writes a section, or edits one, with or without its trailer.
Body(s) == IF text[s] = None THEN 0 ELSE text[s].body

Write(s, trailer) ==
  /\ Body(s) < MaxEdits
  /\ text' = [text EXCEPT ![s] = [body |-> Body(s) + 1, trailer |-> trailer]]
  /\ UNCHANGED <<header, regs, asked, running, rows, read, anchors, overtaken>>

\* register_gate: a known result freezes the prior.  It is looked for ...
Free == Cardinality(asked) + Cardinality(running) < MaxFlight

Register(i, prior) ==
  /\ prior # regs[i] /\ Free
  /\ regs[i] > 0 => \A k \in DOMAIN rows : rows[k].id # i
  /\ asked' = asked \cup {[id |-> i, prior |-> prior]}
  /\ UNCHANGED <<text, header, regs, running, rows, read, anchors, overtaken>>

\* ... before the row is appended, by one registrar or by several that asked.
AppendRow(a) ==
  /\ regs' = [regs EXCEPT ![a.id] = a.prior]
  /\ UNCHANGED <<text, header, asked, running, rows, read, anchors, overtaken>>

\* The rows of a spec that ran are lost, by a merge or by hand.
LoseRows(i) ==
  /\ regs[i] > 0 /\ \E k \in DOMAIN rows : rows[k].id = i
  /\ regs' = [regs EXCEPT ![i] = 0] /\ overtaken' = overtaken \cup {i}
  /\ UNCHANGED <<text, header, asked, running, rows, read, anchors>>

\* run_gate: the registration is checked ...
Begin(i) ==
  /\ regs[i] > 0 /\ Free
  /\ running' = running \cup {[id |-> i, under |-> regs[i]]}
  /\ UNCHANGED <<text, header, regs, asked, rows, read, anchors, overtaken>>

\* ... and minutes later the verdict of what was registered then is appended,
\* by one run of it or by several.
Overtook(run) == regs[run.id] # run.under \/ \E a \in asked : a.id = run.id

Rule(run, passed) ==
  /\ Len(rows) < MaxVerdicts
  /\ rows' = Append(rows, [id |-> run.id, under |-> run.under, passed |-> passed])
  /\ overtaken' = IF Overtook(run) THEN overtaken \cup {run.id} ELSE overtaken
  /\ UNCHANGED <<text, header, regs, asked, running, read, anchors>>

\* The last process that held it ends, or is killed.
Over ==
  /\ \/ \E a \in asked : asked' = asked \ {a} /\ running' = running
     \/ \E run \in running : running' = running \ {run} /\ asked' = asked
  /\ UNCHANGED <<text, header, regs, rows, read, anchors, overtaken>>

\* Somebody reads a prior, the one registered or another, and quotes words
\* that it shares with others.
Read(i, prior, quote, d) ==
  /\ regs[i] > 0 /\ Len(read) < MaxReadings
  /\ read' = Append(read, [id |-> i, prior |-> prior, quote |-> quote, direction |-> d])
  /\ UNCHANGED <<text, header, regs, asked, running, rows, anchors, overtaken>>

\* recall.py anchors.
cmd_anchors ==
  /\ Torn = {} /\ Mislabelled = {}
  /\ anchors' = build_anchors
  /\ UNCHANGED <<text, header, regs, asked, running, rows, read, overtaken>>

Next ==
  \/ \E s \in Sections, t \in {None} \cup SUBSET Ids : Write(s, t)
  \/ \E i \in Ids : LoseRows(i) \/ Begin(i) \/ \E p \in 1 .. MaxPriors : Register(i, p)
  \/ \E a \in asked : AppendRow(a)
  \/ \E run \in running, p \in BOOLEAN : Rule(run, p)
  \/ Over
  \/ \E i \in Ids, p \in 1 .. MaxPriors, q \in 1 .. MaxPriors, d \in Directions : Read(i, p, q, d)
  \/ cmd_anchors

Spec == Init /\ [][Next]_record

-----------------------------------------------------------------------------
\* What the tools print can be trusted when audit finds nothing: the ratios
\* of the sections together count every spec that ran, once; the manifest
\* on disk, if there is one, is that of the record as it stands.
RatiosComplete ==
  audit = {} =>
    /\ SumFunctionOnSet([s \in sections |-> gate_result(s).of], sections)
         = Cardinality({rows[k].id : k \in DOMAIN rows})
    /\ anchors # None => \A s \in sections : anchors[s].body = text[s].body

\* The calibration, when it is printed at all, counts every registration
\* once, and a scored prediction is of the prior that is registered: nobody
\* can score a re-written prior with a reading of the old one.  The verdict it
\* is scored by was run under that prior too, unless the spec was registered
\* anew while its gate ran, or its registration was lost: nothing compares
\* what a verdict was run under with what it is scored for.
ScoredFairly ==
  ~Dies =>
    /\ cells("expected_pass", TRUE) + cells("expected_pass", FALSE)
       + cells("expected_fail", TRUE) + cells("expected_fail", FALSE)
       + counts("mixed") + counts("no_expectation_stated") + counts("unread")
         = Cardinality(Registered)
    /\ hits <= Cardinality(Scored)
    /\ \A i \in Scored : /\ readings[i].prior = regs[i]
                         /\ i \in overtaken \/ latest_verdicts[i].under = regs[i]
=============================================================================
