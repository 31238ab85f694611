---------------------------- MODULE SchemeMarks ----------------------------
(***************************************************************************)
(* How one script's marks against a mark scheme or a rubric come about:    *)
(* src/src/sms/pipeline/marking_pipeline_v2.py.  A marker and a blind      *)
(* reviewer (language models, so: any answer the schemas let through) each *)
(* look at what was read; the merge reconciles both with the scheme and    *)
(* decides, part by part, what is stored and what a teacher must see.      *)
(*                                                                         *)
(* Everything here is a pure operator; MarkedScript holds the state.       *)
(* Rows, marks and verdicts are records.  A row of a mark scheme and a     *)
(* criterion of a rubric have the same shape, a key and a sequence of      *)
(* points [label, marks]: allocations of the one, bands of the other.      *)
(***************************************************************************)
EXTENDS Integers, SequencesExt

CONSTANTS
    Norm,       \* norm_qid: how each id, as anyone may spell it, is compared
    Label,      \* the labels of allocations, and the names of bands
    Threshold   \* confidence_threshold, in the units of a mark's confidence; 0 = never checked

ASSUME ThresholdAssumption == Threshold \in Nat

\* MarkSchemeEntry and RubricCriterionBands; AllocationMark, PartMark and RubricMark; ReviewVerdictV2.
SchemePoint == [label : Label, marks : Nat]
SchemeRow   == [key : DOMAIN Norm, points : Seq(SchemePoint)]
Allocation  == [label : Label, marks : Nat, got : BOOLEAN]
Marking     == [key : DOMAIN Norm, awarded : Seq(Allocation), band : Label, total : Nat,
                in_scheme : BOOLEAN, confidence : Nat]
Verdict     == [key : DOMAIN Norm, verdict : {"APPROVE", "ADJUST", "ESCALATE"}, adjusted : SUBSET Marking]

\* The reasons stored in teacher_queue.reason.
Illegible       == "illegible"
NotInScheme     == "not in scheme"
Escalated       == "reviewer escalated"
LowConfidence   == "low confidence"
Disagree        == "marker/reviewer disagree"
InputTruncated  == "input truncated"
DoublePenalty   == "double penalty"

\* Of an optional value: the set that holds it. A verdict's `adjusted` of the other kind is as good as none.
The(optional) == CHOOSE x \in optional : TRUE

----------------------------------------------------------------------------
(* Rows and marks. *)

Keys(s) == {s[i].key : i \in DOMAIN s}

\* Of several marks, or rows, of one key the first counts.
FirstAt(s, key) == Min({i \in DOMAIN s : s[i].key = key})
FirstOf(s, key) == s[FirstAt(s, key)]

Added(numbers) ==
    LET sum[i \in 0..Len(numbers)] == IF i = 0 THEN 0 ELSE sum[i - 1] + numbers[i]
    IN  sum[Len(numbers)]

SumMarks(s) == Added([i \in DOMAIN s |-> s[i].marks])

\* The sum of the allocations marked got.
Given(awarded) == Added([i \in DOMAIN awarded |-> IF awarded[i].got THEN awarded[i].marks ELSE 0])

\* {label: marks} of a row, {band: marks} of a criterion: the last of equal labels wins.
RowMarks(row) ==
    [label \in {row.points[i].label : i \in DOMAIN row.points} |->
        row.points[Max({i \in DOMAIN row.points : row.points[i].label = label})].marks]

RowMax(kind, row) ==
    IF kind = "mark_scheme" THEN SumMarks(row.points)
                            ELSE Max({0} \cup {row.points[i].marks : i \in DOMAIN row.points})

AllLost(row) ==
    [i \in DOMAIN row.points |->
        [label |-> row.points[i].label, marks |-> row.points[i].marks, got |-> FALSE]]

\* PartMark's validator: what the schemas guarantee of a part the marker, or the reviewer, sends.
ValidPart(m) == m.awarded # <<>> => m.total = Given(m.awarded)

----------------------------------------------------------------------------
(* What the reading left in doubt: `doubts` holds ids as the reader wrote them. *)

\* Any page in doubt makes a whole rubric response illegible.
IllegibleKeys(kind, rows, doubts) ==
    IF kind = "mark_scheme"
    THEN {key \in Keys(rows) : Norm[key] \in {Norm[q] : q \in doubts}}
    ELSE IF doubts = {} THEN {} ELSE Keys(rows)

----------------------------------------------------------------------------
(* One part: the marker's mark reconciled with its row, then the verdict.  *)

OutOfScheme(kind, m) == IF kind = "mark_scheme" THEN [m EXCEPT !.in_scheme = FALSE] ELSE m

MissingMark(kind, row) ==
    [key |-> row.key, awarded |-> IF kind = "mark_scheme" THEN AllLost(row) ELSE <<>>,
     band |-> "", total |-> 0, in_scheme |-> TRUE, confidence |-> 0]

NormalisePart(m, row) ==
    LET rowMarks == RowMarks(row)
        awarded  == [i \in DOMAIN m.awarded |-> [m.awarded[i] EXCEPT !.marks = rowMarks[m.awarded[i].label]]]
        unknown  == \E i \in DOMAIN m.awarded : m.awarded[i].label \notin DOMAIN rowMarks
    IN  CASE ~m.in_scheme -> [mark |-> m, in_scheme |-> FALSE, empty |-> FALSE]
          [] m.in_scheme /\ m.awarded = <<>> ->
                [mark |-> [m EXCEPT !.awarded = AllLost(row), !.total = 0], in_scheme |-> TRUE, empty |-> TRUE]
          [] m.in_scheme /\ m.awarded # <<>> /\ unknown ->
                [mark |-> m, in_scheme |-> FALSE, empty |-> FALSE]
          [] OTHER ->
                [mark |-> [m EXCEPT !.awarded = awarded, !.total = Given(awarded)],
                 in_scheme |-> TRUE, empty |-> FALSE]

NormaliseBand(m, row) ==
    LET bands == RowMarks(row)
    IN  IF m.band \in DOMAIN bands
        THEN [mark |-> [m EXCEPT !.total = bands[m.band]], in_scheme |-> TRUE, empty |-> FALSE]
        ELSE [mark |-> m, in_scheme |-> FALSE, empty |-> FALSE]

Normalise(kind, m, row) == IF kind = "mark_scheme" THEN NormalisePart(m, row) ELSE NormaliseBand(m, row)

\* Mutant: any mark the scheme accounts for is adopted, whatever its total.
AdoptsAny(kind, m, adjusted, row) ==
    LET n == Normalise(kind, adjusted, row) IN n.in_scheme /\ ~n.empty

\* The reviewer's corrected mark is usable when the scheme accounts for it and it gives the same marks.
Adopts(kind, m, adjusted, row) ==
    LET n == Normalise(kind, adjusted, row)
    IN  n.in_scheme /\ ~n.empty /\ n.mark.total = m.total

Adopted(kind, m, adjusted, row) ==
    [Normalise(kind, adjusted, row).mark EXCEPT
        !.key = m.key, !.in_scheme = m.in_scheme, !.confidence = Min({m.confidence, @})]

\* No verdict on a part counts as APPROVE; no reason means that no teacher need look.
NoReason == ""

MergeOne(kind, m, row, verdict, illegible) ==
    LET n      == Normalise(kind, m, row)
        stored == IF n.in_scheme THEN n.mark ELSE OutOfScheme(kind, n.mark)
        adjust == verdict.verdict = "ADJUST"
        usable == adjust /\ verdict.adjusted # {}
        agreed == usable /\ Adopts(kind, n.mark, The(verdict.adjusted), row)
        quiet  == IF agreed THEN Adopted(kind, n.mark, The(verdict.adjusted), row) ELSE n.mark
        Result(mark, reason) == [mark |-> mark, reason |-> reason]
    IN  CASE illegible               -> Result(stored, Illegible)
          [] ~illegible /\ ~n.in_scheme -> Result(stored, NotInScheme)
          [] ~illegible /\ n.in_scheme /\ n.empty -> Result(stored, LowConfidence)
          [] OTHER ->
                CASE verdict.verdict = "ESCALATE" -> Result(n.mark, Escalated)
                  [] adjust /\ ~agreed            -> Result(n.mark, Disagree)
                  [] OTHER -> Result(quiet, IF Threshold # 0 /\ quiet.confidence < Threshold
                                            THEN LowConfidence ELSE NoReason)

----------------------------------------------------------------------------
(* The merge of a whole script: [final, reasons], both functions of the    *)
(* key, `reasons` defined on the escalated ones only.                      *)

\* {q_id: verdict}: of several on one part the last counts.
LastOf(s, key) == s[Max({i \in DOMAIN s : s[i].key = key})]

VerdictOn(reviewed, key) ==
    IF key \in Keys(reviewed.verdicts)
    THEN LastOf(reviewed.verdicts, key)
    ELSE [key |-> key, verdict |-> "APPROVE", adjusted |-> {}]

\* Every part of the scheme gets a mark; a part the marker invented is kept for the teacher to decide.
MergeParts(kind, rows, marked, reviewed, illegible) ==
    LET keys == Keys(rows) \cup Keys(marked)
        one  == [key \in keys |->
            IF key \notin Keys(rows)
            THEN [mark |-> OutOfScheme(kind, FirstOf(marked, key)), reason |-> NotInScheme]
            ELSE IF key \notin Keys(marked)
            THEN [mark |-> MissingMark(kind, FirstOf(rows, key)),
                  reason |-> IF key \in illegible THEN Illegible ELSE LowConfidence]
            ELSE MergeOne(kind, FirstOf(marked, key), FirstOf(rows, key), VerdictOn(reviewed, key),
                          key \in illegible)]
    IN  [final   |-> [key \in keys |-> one[key].mark],
         reasons |-> [key \in {k \in keys : one[k].reason # NoReason} |-> one[key].reason]]

Lost(m) == {i \in DOMAIN m.awarded : ~m.awarded[i].got}

\* Mutant: the allocation is un-lost and the part's total left alone.
RestoredUncounted(m) ==
    [m EXCEPT !.awarded = [i \in DOMAIN m.awarded |-> [m.awarded[i] EXCEPT !.got = TRUE]]]

Restored(m) ==
    LET awarded == [i \in DOMAIN m.awarded |-> [m.awarded[i] EXCEPT !.got = TRUE]]
    IN  [m EXCEPT !.awarded = awarded, !.total = Given(awarded)]

\* setdefault(): a part that is put to the teacher already keeps its reason.
Ask(merged, keys, reason) ==
    [merged EXCEPT !.reasons = [key \in keys \cup DOMAIN @ |-> IF key \in DOMAIN @ THEN @[key] ELSE reason]]

\* A later occurrence of a slip: give the one lost allocation back, or ask which.
Unpenalise(kind, merged, key) ==
    LET m == merged.final[key]
    IN  IF kind # "mark_scheme" \/ key \in DOMAIN merged.reasons \/ Lost(m) = {} THEN merged
        ELSE IF \E i \in DOMAIN m.awarded : Lost(m) = {i}
        THEN [merged EXCEPT !.final[key] = Restored(m)]
        ELSE Ask(merged, {key}, DoublePenalty)

\* {norm_qid(key): mark}: a later key of the same spelling hides an earlier one, and an invented part
\* comes after the rows.
Place(rows, marked, key) ==
    IF key \in Keys(rows) THEN FirstAt(rows, key) ELSE Len(rows) + FirstAt(marked, key)
Alike(kind, merged, id) ==
    {k \in DOMAIN merged.final : IF kind = "mark_scheme" THEN Norm[k] = Norm[id] ELSE k = id}
Named(kind, rows, marked, merged, id) ==
    CHOOSE k \in Alike(kind, merged, id) :
        \A j \in Alike(kind, merged, id) : Place(rows, marked, j) <= Place(rows, marked, k)

Forgiven(kind, rows, marked, merged, id) ==
    IF Alike(kind, merged, id) = {} THEN merged
    ELSE Unpenalise(kind, merged, Named(kind, rows, marked, merged, id))

\* One slip: the first part it cost marks in stands, the later ones are taken up in turn.
OneSlip(kind, rows, marked, merged, ids) ==
    LET after[n \in 0..Len(ids)] ==
            IF n <= 1 THEN merged ELSE Forgiven(kind, rows, marked, after[n - 1], ids[n])
    IN  after[Len(ids)]

ApplyDoublePenalties(kind, rows, marked, reviewed, merged) ==
    LET after[n \in 0..Len(reviewed.penalties)] ==
            IF n = 0 THEN merged ELSE OneSlip(kind, rows, marked, after[n - 1], reviewed.penalties[n])
    IN  after[Len(reviewed.penalties)]

Merge(kind, rows, marked, reviewed, doubts) ==
    ApplyDoublePenalties(kind, rows, marked, reviewed,
        MergeParts(kind, rows, marked, reviewed, IllegibleKeys(kind, rows, doubts)))

\* Files too large to show the marker whole: every part goes to the teacher, for its own reason if it has one.
Truncated(merged) == Ask(merged, DOMAIN merged.final, InputTruncated)
=============================================================================
