--------------------------- MODULE CriteriaMarks ---------------------------
(***************************************************************************)
(* How a script without a mark scheme is marked: every question against    *)
(* the same criteria, src/src/sms/pipeline/marking_pipeline.py.  Unlike    *)
(* SchemeMarks the merge walks the marker's output, a reviewer's ADJUST is *)
(* taken as it comes, and questions are compared by their raw ids.         *)
(***************************************************************************)
EXTENDS SchemeMarks

\* v1 wording of the reasons.
LowMarkerConfidence == "low marker confidence"
IllegibleText       == "illegible transcription"

\* MarkedQuestion and ReviewVerdictItem.
QuestionMark    == [key : DOMAIN Norm, scores : Seq(Int), total : Int, confidence : Nat]
QuestionVerdict == [key : DOMAIN Norm, verdict : {"APPROVE", "ADJUST", "ESCALATE"},
                    scores : SUBSET Seq(Int), total : SUBSET Int]

\* A verdict's adjusted scores and adjusted total are each optional.
CriteriaVerdictOn(reviewed, key) ==
    IF key \in Keys(reviewed.verdicts)
    THEN LastOf(reviewed.verdicts, key)
    ELSE [key |-> key, verdict |-> "APPROVE", scores |-> {}, total |-> {}]

SumScores(scores) == Added(scores)

\* Mutant: a question nobody could read is marked like any other.
ReadAnyway(m, doubts) == FALSE

InDoubt(m, doubts) == m.key \in doubts

CriteriaReason(m, verdict, doubts) ==
    CASE InDoubt(m, doubts) -> IllegibleText
      [] ~InDoubt(m, doubts) /\ verdict.verdict = "APPROVE" ->
            IF Threshold # 0 /\ m.confidence < Threshold THEN LowMarkerConfidence ELSE NoReason
      [] ~InDoubt(m, doubts) /\ verdict.verdict = "ADJUST" /\ verdict.scores # {} -> NoReason
      [] OTHER -> Escalated

CriteriaMark(m, verdict, doubts) ==
    IF CriteriaReason(m, verdict, doubts) = NoReason /\ verdict.verdict = "ADJUST"
    THEN [m EXCEPT !.scores = The(verdict.scores),
                   !.total = IF verdict.total # {} THEN The(verdict.total) ELSE SumScores(The(verdict.scores))]
    ELSE m

\* [final, reasons]: a sequence, for a question the marker lists twice is stored twice, and a function.
MergeCriteria(marked, reviewed, doubts) ==
    LET Reason(i) == CriteriaReason(marked[i], CriteriaVerdictOn(reviewed, marked[i].key), doubts)
        asked     == {i \in DOMAIN marked : Reason(i) # NoReason}
    IN  [final   |-> [i \in DOMAIN marked |->
                        CriteriaMark(marked[i], CriteriaVerdictOn(reviewed, marked[i].key), doubts)],
         reasons |-> [key \in {marked[i].key : i \in asked} |->
                        Reason(Max({i \in asked : marked[i].key = key}))]]

\* compute_totals: a question counts once for every time it is stored.
QuestionMax(criteria) == SumMarks(criteria)

CriteriaTotals(criteria, final, pending, corrections) ==
    LET Counted(i) == IF final[i].key \in DOMAIN corrections THEN corrections[final[i].key].total
                      ELSE final[i].total
        Upper(i)   == IF final[i].key \in pending \ DOMAIN corrections THEN QuestionMax(criteria)
                      ELSE Counted(i)
    IN  [total       |-> Added([i \in DOMAIN final |-> Counted(i)]),
         total_upper |-> Added([i \in DOMAIN final |-> Upper(i)]),
         total_max   |-> QuestionMax(criteria) * Len(final)]

\* What a teacher may answer: one mark per criterion, each within its maximum.
CriteriaAnswers(criteria) ==
    {[total |-> SumScores(s)] :
        s \in {f \in [DOMAIN criteria -> 0..Max({0} \cup {criteria[i].marks : i \in DOMAIN criteria})] :
                \A i \in DOMAIN criteria : f[i] <= criteria[i].marks}}
=============================================================================
