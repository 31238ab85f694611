--------------------------- MODULE MCMarkedScript ---------------------------
EXTENDS ClassMarks

Point(l, n) == [label |-> l, marks |-> n]

\* Two questions, the second of which anybody may spell "(b)"; "x" is nobody's.
MCNorm == [q \in {"a", "b", "(b)", "x", "c", "d"} |-> IF q = "(b)" THEN "b" ELSE q]

MCLabel == {"M1", "A1", "B1", "E9", "Z", "high", "low", "mid", "any", "k1", "k2", ""}

TwoRows  == [kind |-> "mark_scheme", criteria |-> <<>>,
             rows |-> <<[key |-> "a", points |-> <<Point("M1", 1), Point("A1", 2)>>],
                        [key |-> "b", points |-> <<Point("B1", 1)>>]>>]
BareRow  == [kind |-> "mark_scheme", criteria |-> <<>>,
             rows |-> <<[key |-> "a", points |-> <<Point("B1", 1), Point("B1", 1)>>],
                        [key |-> "b", points |-> <<>>]>>]
Bands    == [kind |-> "rubric", criteria |-> <<>>,
             rows |-> <<[key |-> "c", points |-> <<Point("high", 3), Point("low", 1)>>],
                        [key |-> "d", points |-> <<>>]>>]
Criteria == [kind |-> "criteria", rows |-> <<>>, criteria |-> <<Point("k1", 2), Point("k2", 1)>>]

MCAssignments == {TwoRows, BareRow, Bands, Criteria}

MCDoubtSets(a) == {{}, {"(b)"}, {"c"}, {"a"}}

Part(key, awarded, total, in, conf) ==
    [key |-> key, awarded |-> awarded, band |-> "", total |-> total, in_scheme |-> in, confidence |-> conf]
Band(key, band, total, conf) ==
    [key |-> key, awarded |-> <<>>, band |-> band, total |-> total, in_scheme |-> TRUE, confidence |-> conf]
Award(l, n, g) == [label |-> l, marks |-> n, got |-> g]
Question(key, scores, conf) ==
    [key |-> key, scores |-> scores, total |-> scores[1] + scores[2], confidence |-> conf]

\* The marker may list an allocation at the wrong marks, twice, by a name the row does not have, or none.
AwardsA == { <<Award("M1", 1, TRUE), Award("A1", 2, TRUE)>>, <<Award("M1", 1, TRUE), Award("A1", 2, FALSE)>>,
             <<Award("M1", 2, TRUE), Award("A1", 2, FALSE)>>, <<Award("M1", 1, FALSE), Award("A1", 2, FALSE)>>,
             <<Award("M1", 1, TRUE), Award("M1", 1, TRUE)>>, <<Award("E9", 4, TRUE)>> }
GotOf(aw) == Given(aw)
PartsA == {Part("a", aw, GotOf(aw), TRUE, 2) : aw \in AwardsA}
          \cup {Part("a", <<>>, 4, in, 2) : in \in BOOLEAN}
          \cup {Part("a", <<Award("M1", 1, TRUE), Award("A1", 2, FALSE)>>, 1, TRUE, 0)}
PartsB == {Part("b", <<Award("B1", 1, g)>>, IF g THEN 1 ELSE 0, TRUE, 2) : g \in BOOLEAN}
Beside == {<<>>, <<Part("(b)", <<>>, 2, TRUE, 2)>>, <<Part("x", <<Award("Z", 2, TRUE)>>, 2, TRUE, 2)>>}

MCMarkerOutputs(a) ==
    CASE a = TwoRows  -> {<<pa, pb>> \o pc : pa \in PartsA, pb \in PartsB, pc \in Beside} \cup {<<pb>> : pb \in PartsB}
      [] a = BareRow  -> {<<Part("a", <<Award("B1", 1, TRUE), Award("B1", 1, g)>>, IF g THEN 2 ELSE 1, TRUE, 2),
                            Part("b", <<>>, t, in, 2)>> : g \in BOOLEAN, t \in {0, 2}, in \in BOOLEAN}
      [] a = Bands    -> {<<Band("c", b, 3, f)>> \o s : b \in {"high", "low", "mid"}, f \in {0, 2},
                                                       s \in {<<>>, <<Band("d", "any", 2, 2)>>, <<Band("x", "high", 3, 2)>>}}
      [] a = Criteria -> {<<Question("a", <<2, 1>>, 2), Question("b", <<1, 0>>, f)>> \o s :
                            f \in {0, 2}, s \in {<<>>, <<Question("b", <<2, 0>>, 2)>>}}

V(key, verdict, adjusted) == [key |-> key, verdict |-> verdict, adjusted |-> adjusted]
PartVerdicts ==
    {<<>>, <<V("a", "ESCALATE", {})>>, <<V("b", "ESCALATE", {})>>, <<V("a", "ADJUST", {})>>}
    \cup {<<V("a", "ADJUST", {Part("x", aw, GotOf(aw), TRUE, f)})>> :
            f \in {0, 2}, aw \in {<<Award("M1", 1, FALSE), Award("A1", 2, TRUE)>>,
                                  <<Award("M1", 1, TRUE), Award("A1", 2, FALSE)>>, <<>>}}
Penalties == {<<>>, <<<<"a", "b">>>>, <<<<"b", "a">>>>, <<<<"a", "(b)">>, <<"b", "a", "b">>>>}
W(verdict, scores, total) == [key |-> "b", verdict |-> verdict, scores |-> scores, total |-> total]

MCReviewerOutputs(a) ==
    CASE a.kind = "mark_scheme" -> {[verdicts |-> v, penalties |-> p] : v \in PartVerdicts, p \in Penalties}
      [] a = Bands -> {[verdicts |-> v, penalties |-> p] :
                        p \in {<<>>, <<<<"d", "c">>>>},
                        v \in {<<>>, <<V("c", "ADJUST", {Band("c", "high", 0, 0)})>>, <<V("c", "ADJUST", {Band("c", "low", 0, 2)})>>}}
      [] a = Criteria -> {[verdicts |-> v, penalties |-> <<>>] :
                            v \in {<<>>, <<W("ESCALATE", {}, {})>>, <<W("ADJUST", {}, {2})>>,
                                   <<W("ADJUST", {<<2, 1>>}, {})>>, <<W("ADJUST", {<<0, 1>>}, {2})>>}}
=============================================================================
