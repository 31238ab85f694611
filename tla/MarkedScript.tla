---------------------------- MODULE MarkedScript ----------------------------
(***************************************************************************)
(* One script from the marker's answer to a settled total: the merge of    *)
(* SchemeMarks or CriteriaMarks, what the run and the review queue store   *)
(* of it, the teacher's answers, and the four places that read it back     *)
(* (the totals, the detail page, the queue and the marking record).        *)
(*                                                                         *)
(* When jobs run, crash and are retried is MarkingLifecycle's subject, so  *)
(* a script is marked here exactly once.  The texts of a mark are left     *)
(* out; its numbers, labels and reasons are all kept.                      *)
(***************************************************************************)
EXTENDS CriteriaMarks

CONSTANTS
    Assignments,        \* the assignments a script may be marked against, records
                        \* [kind, rows, criteria]; kind "criteria" is the pipeline without a scheme
    DoubtSets(_),       \* the ids a reading of a script for an assignment may leave in doubt
    MarkerOutputs(_),   \* the marks a marker may return for an assignment
    ReviewerOutputs(_)  \* what a reviewer may return: [verdicts, penalties]

V2Kinds == {"mark_scheme", "rubric"}

Assignment == [kind : V2Kinds \cup {"criteria"}, rows : Seq(SchemeRow), criteria : Seq(SchemePoint)]

\* The schemas let nothing else out of the reader, the marker or the reviewer; a slip names two parts or more.
ASSUME OutputsAssumption ==
    \A a \in Assignments :
        /\ a \in Assignment /\ DoubtSets(a) \subseteq SUBSET DOMAIN Norm
        /\ a.kind \in V2Kinds =>
              /\ MarkerOutputs(a) \subseteq Seq(Marking)
              /\ \A r \in ReviewerOutputs(a) :
                    /\ r.verdicts \in Seq(Verdict) /\ r.penalties \in Seq(Seq(DOMAIN Norm))
                    /\ \A i \in DOMAIN r.penalties : Len(r.penalties[i]) >= 2
        /\ a.kind = "criteria" =>
              /\ MarkerOutputs(a) \subseteq Seq(QuestionMark)
              /\ \A r \in ReviewerOutputs(a) : r.verdicts \in Seq(QuestionVerdict)

\* PartMark's validator.
ASSUME ValidAssumption ==
    \A a \in Assignments : a.kind = "mark_scheme" =>
        /\ \A marked \in MarkerOutputs(a) : \A i \in DOMAIN marked : ValidPart(marked[i])
        /\ \A r \in ReviewerOutputs(a) : \A i \in DOMAIN r.verdicts :
                \A m \in r.verdicts[i].adjusted : ValidPart(m)

VARIABLES
    assignment,   \* what the script is marked against
    stage,        \* "read", "mark", "check", "merged", "stored"
    work,         \* what the pipeline holds in memory until it stores the run
    run,          \* the stored marking_runs row, Nothing before
    queue,        \* teacher_queue: the pending items, a function key -> reason
    corrections   \* teacher_corrections of the run, a function key -> the teacher's answer

scriptVars == <<assignment, stage, work, run, queue, corrections>>

Nothing  == [final |-> <<>>]
NoWork   == [doubts |-> {}, truncated |-> FALSE, marked |-> <<>>,
             reviewed |-> [verdicts |-> <<>>, penalties |-> <<>>], merged |-> [final |-> <<>>, reasons |-> <<>>]]
kind     == assignment.kind
rows     == assignment.rows

ScriptInit ==
    /\ assignment \in Assignments
    /\ stage = "read"
    /\ work = NoWork
    /\ run = Nothing
    /\ queue = <<>>
    /\ corrections = <<>>

----------------------------------------------------------------------------
(* The pipeline.  Only per-part marking reads files, which may be cut.     *)

Read ==
    /\ stage = "read"
    /\ \E doubts \in DoubtSets(assignment), truncated \in BOOLEAN :
          /\ truncated => kind \in V2Kinds
          /\ work' = [work EXCEPT !.doubts = doubts, !.truncated = truncated]
    /\ stage' = "mark"
    /\ UNCHANGED <<assignment, run, queue, corrections>>

Mark ==
    /\ stage = "mark"
    /\ \E marked \in MarkerOutputs(assignment) : work' = [work EXCEPT !.marked = marked]
    /\ stage' = "check"
    /\ UNCHANGED <<assignment, run, queue, corrections>>

\* Mutant: a cut file goes unnoticed.
MergedWhole(reviewed) ==
    IF kind \in V2Kinds THEN Merge(kind, rows, work.marked, reviewed, work.doubts)
                        ELSE MergeCriteria(work.marked, reviewed, work.doubts)

Merged(reviewed) ==
    IF kind \in V2Kinds
    THEN LET merged == Merge(kind, rows, work.marked, reviewed, work.doubts)
         IN  IF work.truncated THEN Truncated(merged) ELSE merged
    ELSE MergeCriteria(work.marked, reviewed, work.doubts)

Check ==
    /\ stage = "check"
    /\ \E reviewed \in ReviewerOutputs(assignment) :
          work' = [work EXCEPT !.reviewed = reviewed, !.merged = Merged(reviewed)]
    /\ stage' = "merged"
    /\ UNCHANGED <<assignment, run, queue, corrections>>

\* The run keeps the assignment it was marked against; the stages' own outputs are not read again.
Persist ==
    /\ stage = "merged"
    /\ run' = [final |-> work.merged.final]
    /\ queue' = work.merged.reasons
    /\ work' = NoWork
    /\ stage' = "stored"
    /\ UNCHANGED <<assignment, corrections>>

----------------------------------------------------------------------------
(* The review queue: the answers a pending part accepts.                   *)

StoredMark(key)  == run.final[key]
RowOf(key)       == FirstOf(rows, key)
HasRow(key)      == key \in Keys(rows)

\* {label: marks} a teacher may tick: the row's, or for a part without a row the marker's own.
TickList(key) ==
    IF HasRow(key) THEN RowMarks(RowOf(key))
                   ELSE RowMarks([points |-> StoredMark(key).awarded])

\* Mutant: a bare total is taken for any part, up to what the marker proposed.
PartAnswersBare(key) == {[total |-> t] : t \in 0..StoredMark(key).total}

\* With nothing to tick a bare total is taken, up to the row's maximum or the proposal.
PartAnswers(key) ==
    LET valid == TickList(key)
        upper == Max({StoredMark(key).total, IF HasRow(key) THEN RowMax(kind, RowOf(key)) ELSE 0})
    IN  IF DOMAIN valid = {} THEN {[total |-> t] : t \in 0..upper}
        ELSE {[total |-> SumFunctionOnSet(valid, got)] : got \in SUBSET DOMAIN valid}

BandAnswers(key) ==
    LET bands == IF HasRow(key) THEN RowMarks(RowOf(key)) ELSE <<>>
    IN  IF DOMAIN bands = {} THEN {[total |-> t] : t \in 0..StoredMark(key).total}
        ELSE {[total |-> bands[b]] : b \in DOMAIN bands}

Answers(key) ==
    CASE kind = "mark_scheme" -> PartAnswers(key)
      [] kind = "rubric"      -> BandAnswers(key)
      [] kind = "criteria"    -> CriteriaAnswers(assignment.criteria)

\* A later answer to the same part takes the place of the earlier one.
Answered(key, answer) ==
    [k \in DOMAIN corrections \cup {key} |-> IF k = key THEN answer ELSE corrections[k]]

\* Mutant: the answer is stored and the item stays pending.
ResolveKept(key) ==
    /\ stage = "stored" /\ key \in DOMAIN queue /\ key \notin DOMAIN corrections
    /\ \E answer \in Answers(key) : corrections' = Answered(key, answer)
    /\ UNCHANGED <<assignment, stage, work, run, queue>>

Resolve(key) ==
    /\ stage = "stored"
    /\ key \in DOMAIN queue
    /\ \E answer \in Answers(key) : corrections' = Answered(key, answer)
    /\ queue' = [k \in DOMAIN queue \ {key} |-> queue[k]]
    /\ UNCHANGED <<assignment, stage, work, run>>

ScriptNext ==
    \/ Read
    \/ Mark
    \/ Check
    \/ Persist
    \/ \E key \in DOMAIN queue : Resolve(key)

ScriptSpec == ScriptInit /\ [][ScriptNext]_scriptVars

----------------------------------------------------------------------------
(* Reading it back. *)

StoredTotal(key) == IF key \in DOMAIN run.final THEN StoredMark(key).total ELSE 0

\* Over the rows: the teacher's total, or the marker's, up to the row's maximum while it is pending.
SchemeTotals ==
    LET Counted(key) == IF key \in DOMAIN corrections THEN corrections[key].total ELSE StoredTotal(key)
        Upper(key)   == IF key \in DOMAIN queue \ DOMAIN corrections THEN RowMax(kind, RowOf(key))
                        ELSE Counted(key)
    IN  [total       |-> SumFunction([key \in Keys(rows) |-> Counted(key)]),
         total_upper |-> SumFunction([key \in Keys(rows) |-> Upper(key)]),
         total_max   |-> SumFunction([key \in Keys(rows) |-> RowMax(kind, RowOf(key))])]

Totals ==
    IF kind \in V2Kinds THEN SchemeTotals
    ELSE CriteriaTotals(assignment.criteria, run.final, DOMAIN queue, corrections)

\* The detail page's rows: the scheme's, then what the marker returned beside it.
DetailRow(key, total, max) ==
    [key |-> key, total |-> total, max |-> max, escalated |-> key \in DOMAIN queue,
     teacher |-> IF key \in DOMAIN corrections THEN {corrections[key].total} ELSE {}]

\* Mutant: only the scheme's rows are shown.
DetailPartsOfScheme ==
    SetToSeq({DetailRow(key, StoredTotal(key), RowMax(kind, RowOf(key))) : key \in Keys(rows)})

DetailParts ==
    LET Row(key) == DetailRow(key, StoredTotal(key), IF HasRow(key) THEN RowMax(kind, RowOf(key)) ELSE 0)
        beside   == DOMAIN run.final \ Keys(rows)
    IN  SetToSeq({Row(key) : key \in Keys(rows)}) \o SetToSeq({Row(key) : key \in beside})

DetailMarks ==
    [i \in DOMAIN run.final |->
        DetailRow(run.final[i].key, run.final[i].total, QuestionMax(assignment.criteria))]

DetailRows == IF kind \in V2Kinds THEN DetailParts ELSE DetailMarks

\* The record's awarded column: the teacher's total, "Teacher to review", or the stored total.
RecordRow(d) ==
    [key       |-> d.key,
     to_review |-> d.teacher = {} /\ d.escalated,
     awarded   |-> IF d.teacher # {} THEN d.teacher ELSE IF d.escalated THEN {} ELSE {d.total}]

RecordRows == [i \in DOMAIN DetailRows |-> RecordRow(DetailRows[i])]

----------------------------------------------------------------------------
(* Properties. *)

ScriptTypeOK ==
    /\ assignment \in Assignments
    /\ stage \in {"read", "mark", "check", "merged", "stored"}
    /\ work.truncated \in BOOLEAN /\ work.doubts \subseteq DOMAIN Norm
    /\ DOMAIN queue \cap DOMAIN corrections = {}
    /\ stage # "stored" => run = Nothing /\ queue = <<>>
    /\ \A key \in DOMAIN corrections : corrections[key].total \in Nat

\* What is stored for a part the scheme accounts for is the scheme's own arithmetic: only its allocations, and
\* a total that is the sum of those given, although copies of a mark skip the validator and the marker, the
\* reviewer and the double-penalty rule all write to it.
StoredMarksAddUp ==
    stage = "stored" /\ kind = "mark_scheme" =>
        \A key \in DOMAIN run.final :
            LET m == StoredMark(key)
            IN  HasRow(key) /\ m.in_scheme =>
                    /\ m.total = Given(m.awarded)
                    /\ \A i \in DOMAIN m.awarded :
                          [label |-> m.awarded[i].label, marks |-> m.awarded[i].marks] \in ToSet(RowOf(key).points)

\* A part no teacher is asked about was readable, in the scheme, marked with enough confidence and not
\* contested, and has the marks the marker gave it by the scheme, plus at most one allocation the reviewer
\* named as lost to a slip already paid for elsewhere.
QuietPart(key) ==
    LET m == FirstOf(work.marked, key)
        n == Normalise(kind, m, RowOf(key))
        f == work.merged.final[key]
        paid == \E i \in DOMAIN work.reviewed.penalties :
                    \E j \in 2..Len(work.reviewed.penalties[i]) :
                        Norm[work.reviewed.penalties[i][j]] = Norm[key]
    IN  /\ HasRow(key) /\ key \in Keys(work.marked)
        /\ Norm[key] \notin {Norm[q] : q \in work.doubts}
        /\ n.in_scheme /\ ~n.empty
        /\ VerdictOn(work.reviewed, key).verdict # "ESCALATE"
        /\ f.confidence >= Threshold
        /\ \/ f.total = n.mark.total
           \/ /\ kind = "mark_scheme" /\ paid
              /\ \E i \in DOMAIN f.awarded : f.total = n.mark.total + f.awarded[i].marks

QuietMeansAgreed ==
    stage = "merged" /\ kind \in V2Kinds =>
        \A key \in DOMAIN work.merged.final \ DOMAIN work.merged.reasons : QuietPart(key)

\* With a scheme: every part of it, and every part the marker returned, is stored; what the marker skipped or
\* invented, and everything when files were cut, is a teacher's to decide.
NothingSlipsBy ==
    stage = "merged" /\ kind \in V2Kinds =>
        /\ DOMAIN work.merged.final = Keys(rows) \cup Keys(work.marked)
        /\ Keys(rows) \ Keys(work.marked) \subseteq DOMAIN work.merged.reasons
        /\ Keys(work.marked) \ Keys(rows) \subseteq DOMAIN work.merged.reasons
        /\ work.truncated => DOMAIN work.merged.final = DOMAIN work.merged.reasons

\* Without a scheme: a question the marker returned and no teacher is asked about was readable, and either the
\* reviewer put its own marks in place of the marker's or the marker was confident and not contested. Criteria
\* list no questions, so one the marker left out is neither stored nor asked about, and nothing is said of it.
QuietQuestionReviewed ==
    stage = "merged" /\ kind = "criteria" =>
        \A i \in DOMAIN work.merged.final :
            LET f == work.merged.final[i]
                v == CriteriaVerdictOn(work.reviewed, f.key)
            IN  f.key \notin DOMAIN work.merged.reasons =>
                    /\ f.key \notin work.doubts
                    /\ v.verdict # "ESCALATE"
                    /\ v.verdict = "APPROVE" => f = work.marked[i] /\ f.confidence >= Threshold

\* A mark that could be wrong reaches the teacher: with a scheme only a part that was read, marked by it, confident
\* and uncontested is left alone, and none goes missing; without one, that is said of the questions there are marks for.
DoubtReachesTeacher == QuietMeansAgreed /\ NothingSlipsBy /\ QuietQuestionReviewed

\* The record shows the teacher what the queue asks: as many parts to review as items pending, each of
\* them a row; and once the queue is empty its awarded marks of the scheme's parts are the total.
RecordAgrees ==
    stage = "stored" =>
        LET record   == RecordRows
            toReview == {i \in DOMAIN record : record[i].to_review}
            counted  == {i \in DOMAIN record : kind \in V2Kinds => HasRow(record[i].key)}
        IN  /\ {record[i].key : i \in toReview} = DOMAIN queue
            /\ queue = <<>> =>
                  /\ Totals.total = Totals.total_upper
                  /\ Totals.total = SumFunction([i \in counted |-> The(record[i].awarded)])

\* A teacher's answer never raises the most a script can still get, except for a part whose row lists
\* nothing to award, where the marker's proposal is the only bound.
UpperNeverRises ==
    [][\A k \in DOMAIN queue \ DOMAIN queue' :
          \/ Totals'.total_upper <= Totals.total_upper
          \/ kind \in V2Kinds /\ HasRow(k) /\ RowOf(k).points = <<>>]_scriptVars
=============================================================================
