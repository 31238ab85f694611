----------------------------- MODULE ClassMarks -----------------------------
(***************************************************************************)
(* What a teacher is shown of a class whose scripts were marked: a row of  *)
(* the marks CSV per script (web/services/class_assignments.py) and the    *)
(* class statistics (web/services/insights.py).  Both compute again, from  *)
(* a script's detail rows, what MarkedScript's totals say.                 *)
(*                                                                         *)
(* The operators read MarkedScript's one script; texts, samples and the    *)
(* order in which parts are listed are left out.  What happens to a        *)
(* correction before it is released is StudentCorrections' subject.        *)
(***************************************************************************)
EXTENDS MarkedScript

CONSTANT BUCKETS   \* score bands in the spread

ASSUME BucketsAssumption == BUCKETS \in Nat \ {0}

----------------------------------------------------------------------------
(* The marks CSV. *)

\* One column per row of the scheme or, without one, per question the script answered.
PartColumns ==
    IF kind \in V2Kinds
    THEN [key \in Keys(rows) |-> RowMax(kind, FirstOf(rows, key))]
    ELSE [key \in Keys(DetailRows) |-> QuestionMax(assignment.criteria)]

\* {key: mark or "Review"}, a mark as the set that holds it and "Review" as the empty one: of a question
\* that is stored twice the later row is kept.
Review == {}
FinalMark(d) == IF d.escalated THEN Review ELSE IF d.teacher # {} THEN d.teacher ELSE {d.total}
MarkOf(d) == IF d.teacher # {} THEN The(d.teacher) ELSE d.total
FinalMarkByKey ==
    [key \in Keys(DetailRows) |-> FinalMark(LastOf(DetailRows, key))]

\* correctable_parts(): a script's parts that lost marks, by the spelling ids are compared in.
Correctable ==
    IF kind \notin V2Kinds THEN <<>>
    ELSE LET lost == {i \in DOMAIN DetailRows : MarkOf(DetailRows[i]) < DetailRows[i].max}
         IN  [id \in {Norm[DetailRows[i].key] : i \in lost} |->
                 DetailRows[Max({i \in lost : Norm[DetailRows[i].key] = id})].max]

\* Mutant: the released marks are added to what the parts had.
AddedTotal(released) == Totals.total + SumFunction(released)

\* The script's total with each released mark put for the original one: of several rows whose ids are
\* compared alike the last is taken for the original, and "Review" counts as 0.
AfterReflectionTotal(released) ==
    LET Original(id) ==
            LET alike == {i \in DOMAIN DetailRows : Norm[DetailRows[i].key] = id}
                mark  == FinalMarkByKey[DetailRows[Max(alike)].key]
            IN  IF alike = {} \/ mark = Review THEN 0 ELSE The(mark)
    IN  Totals.total + SumFunction([id \in DOMAIN released |-> released[id] - Original(id)])

----------------------------------------------------------------------------
(* The class statistics. *)

\* Mutant: the marker's total, whatever the teacher gave.
MarkerMarks ==
    [key \in Keys(DetailRows) |->
        LET d == LastOf(DetailRows, key) IN [total |-> d.total, pending |-> d.escalated]]

\* _part_marks(): [total, pending] by key, the teacher's total wherever there is one.
PartMarks ==
    [key \in Keys(DetailRows) |->
        LET d == LastOf(DetailRows, key) IN [total |-> MarkOf(d), pending |-> d.escalated]]

\* The parts whose marks enter the class averages.
Scored == {key \in DOMAIN PartColumns \cap DOMAIN PartMarks : ~PartMarks[key].pending}

MaxTotal == SumFunction(PartColumns)

Clamped(t, max) == Min({Max({t, 0}), max})

\* The band, of 0..BUCKETS - 1, a total is counted in; and the marks a band is shown to span.
BandOf(t, max) == IF max = 0 THEN 0 ELSE Min({BUCKETS - 1, (Clamped(t, max) * BUCKETS) \div max})

\* Mutant: a band starts at the floor of its share, as a division would have it.
FlooredSpan(i, max) ==
    LET Edge(k) == (k * max) \div BUCKETS
    IN  [from |-> Edge(i), to |-> IF i = BUCKETS - 1 THEN max ELSE Max({Edge(i), Edge(i + 1) - 1})]

BandSpan(i, max) ==
    LET Edge(k) == -((-(k * max)) \div BUCKETS)
    IN  [from |-> Edge(i), to |-> IF i = BUCKETS - 1 THEN max ELSE Max({Edge(i), Edge(i + 1) - 1})]

----------------------------------------------------------------------------
(* Properties. *)

\* A question the marker answered twice is stored twice and counted twice, but has one column.
EachOnce == Len(DetailRows) = Cardinality(Keys(DetailRows))

\* The class views show one script's marks alike: a cell says "Review" where the statistics leave the part
\* out and the queue has it; and once nothing is pending the cells, and the parts in the averages, add up to
\* the total beside them (_part_rows: "Keying those by the scripts' own q_ids is what lets `_part_marks`
\* find them").
ViewsAgree ==
    stage = "stored" =>
        LET cells == DOMAIN PartColumns \cap DOMAIN FinalMarkByKey
        IN  /\ \A key \in cells : (FinalMarkByKey[key] = Review) = (key \in DOMAIN queue)
            /\ Scored = cells \ DOMAIN queue
            /\ queue = <<>> /\ EachOnce =>
                  /\ Totals.total = SumFunction([key \in cells |-> The(FinalMarkByKey[key])])
                  /\ Totals.total = SumFunction([key \in Scored |-> PartMarks[key].total])
                  /\ Totals.total_max = MaxTotal

\* The band a total is counted in is one whose shown marks hold it, for the script's total and for every
\* total up to its maximum, whether or not the maximum is a multiple of the bands (_buckets).
BandsHold ==
    stage = "stored" =>
        \A t \in 0..Max({MaxTotal, Totals.total}) :
            LET span == BandSpan(BandOf(t, MaxTotal), MaxTotal)
            IN  span.from <= Clamped(t, MaxTotal) /\ Clamped(t, MaxTotal) <= span.to

\* Does a part the marker invented have an id that is compared like a row's?
Lookalike == \E i, j \in DOMAIN DetailRows : i # j /\ Norm[DetailRows[i].key] = Norm[DetailRows[j].key]

\* However many corrections of parts that lost marks are released, and for whatever marks, the CSV's total
\* after reflection is the one the script would have with those marks.  (Unless an invented part's id looks
\* like a row's: the invented part is then taken for the original.)
ReflectionSwaps ==
    stage = "stored" /\ kind \in V2Kinds /\ queue = <<>> /\ ~Lookalike =>
        \A sent \in SUBSET DOMAIN Correctable :
            \A released \in [sent -> 0..Max({0} \cup {Correctable[id] : id \in sent})] :
                (\A id \in sent : released[id] <= Correctable[id]) =>
                    AfterReflectionTotal(released) =
                        SumFunction([key \in Scored |-> IF Norm[key] \in sent THEN released[Norm[key]]
                                                                            ELSE PartMarks[key].total])

\* The marks add up: in what is stored, in the record of it, and in what is shown of the class.
MarksAddUp == StoredMarksAddUp /\ RecordAgrees /\ ViewsAgree /\ BandsHold /\ ReflectionSwaps
=============================================================================
