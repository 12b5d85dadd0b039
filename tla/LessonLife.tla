------------------------------ MODULE LessonLife ------------------------------
(***************************************************************************)
(* What the lesson book (src/lessons.py) promises, without the passes that *)
(* keep it: a lesson is created once, drawn from a trade that has closed   *)
(* or merged from others; while it is open it is scored by trades whose    *)
(* outcome is known, never by its own; and a refuted or retired lesson     *)
(* keeps its status and its score for good.                                *)
(***************************************************************************)
CONSTANTS Trades, Lessons, Book, NoTrade

VARIABLES
  status,  \* none, candidate, active, refuted, retired
  source,  \* the trade a lesson was drawn from
  known,   \* trades whose outcome the program can observe
  credit   \* trades that count for or against a lesson

life == <<status, source, known, credit>>

IsOpen(l) == status[l] \in {"candidate", "active"}

Init ==
  /\ status = [l \in Lessons |-> IF l \in Book THEN "candidate" ELSE "none"]
  /\ source = [l \in Lessons |-> NoTrade]
  /\ known = {} /\ credit = [l \in Lessons |-> {}]

\* Outcomes become known, and are not forgotten.
Learn ==
  /\ known \subseteq known'
  /\ UNCHANGED <<status, source, credit>>

Create(l, from) ==
  /\ status[l] = "none"
  /\ status' = [status EXCEPT ![l] = "candidate"]
  /\ source' = [source EXCEPT ![l] = from]
  /\ UNCHANGED credit

\* A lesson from the trade that has just closed; its outcome is news.
Draw(l, t) == t \notin known /\ Create(l, t) /\ known' = known \cup {t}

MergeInto(l) == Create(l, NoTrade) /\ UNCHANGED known

\* The lifecycle moves forward only.
Advance(l, to) ==
  /\ IsOpen(l)
  /\ status' = [status EXCEPT ![l] = to]
  /\ UNCHANGED <<source, known, credit>>

Score(l, t) ==
  /\ IsOpen(l) /\ t \in known /\ source[l] # t
  /\ credit' = [credit EXCEPT ![l] = @ \cup {t}]
  /\ UNCHANGED <<status, source, known>>

Next ==
  \/ Learn
  \/ \E l \in Lessons : \/ MergeInto(l)
                        \/ \E t \in Trades : Draw(l, t) \/ Score(l, t)
                        \/ \E to \in {"active", "refuted", "retired"} : Advance(l, to)

Spec == Init /\ [][Next]_life
=============================================================================
