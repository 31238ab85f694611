----------------------------- MODULE BankProofs -----------------------------
(***************************************************************************)
(* Proofs about the assignment bank, the nightly reflection and the calls  *)
(* to a provider, for every value of the constants: the parts of           *)
(* MCBackground that BackgroundProofs leaves, and the types of them all.   *)
(*                                                                         *)
(* A template keeps one type with its rows because a job that runs has     *)
(* begun with the type the template still has: the tab that could change   *)
(* it knows of the reading and does not save until it is over.  That holds *)
(* while one tab is open (OneTab); with two, the other tab may save.  For  *)
(* the same reason no save brings back what a reading has replaced.        *)
(***************************************************************************)
EXTENDS BackgroundProofs, SequenceTheorems, FiniteSetTheorems

-----------------------------------------------------------------------------
(* The assignment bank *)

Forms    == Bank!Form
Editors  == Bank!Editor
What     == Bank!What
KeepSets == {{}} \cup {{m} : m \in Bank!RETENTION_MODES}

\* A tab that is not idle shows a template, and has no PUT on its way or one.
TabFits(e) ==
    /\ e \in Editors
    /\ e.pc # "idle" => e.t \in Template
    /\ e.put = {} \/ \E f \in Forms : e.put = {f}

BankTypes ==
    /\ tpl \in [Template -> Bank!Row]
    /\ pages \in [Template -> SUBSET What]
    /\ job \in [Template -> [What -> Bank!Job]]
    /\ tab \in [Tab -> Editors]
    /\ \A b \in Tab : TabFits(tab[b])
    /\ script \in [Script -> Bank!Run] /\ \A s \in Script : script[s].st # "none" => script[s].t \in Template
    /\ asked \in [Template -> KeepSets]
    /\ reads \in 0 .. MaxReads /\ mishaps \in 0 .. MaxMishaps

OneTab == \A a, b \in Tab : a = b

\* What is on its way to the server has rows of its own type.
PutsFit == \A b \in Tab : \A f \in tab[b].put : f.scheme.as \in {"none", f.kind}

\* A tab that has a PUT on its way knows of no reading.
PutsAlone == \A b \in Tab : tab[b].put # {} => tab[b].pc = "editing" /\ tab[b].knows = {}

\* A tab that has asked knows of every reading of its template that has not ended.
TabKnows ==
    \A b \in Tab, w \in What :
        /\ tab[b].pc = "editing" \/ (tab[b].pc = "loading" /\ "status" \in tab[b].got)
        /\ Bank!Active(tab[b].t, w)
        => w \in tab[b].knows

\* A job that runs reads for the type that its template has.
JobsFit ==
    \A t \in Template, w \in What :
        /\ Bank!Active(t, w) => tpl[t].row # "unused"
        /\ job[t][w].st = "running" /\ Bank!Live(t) => job[t][w].kind = tpl[t].kind

BankInv == PutsFit /\ PutsAlone /\ TabKnows /\ JobsFit /\ Bank!TypesAgree

\* What a save stores of a form is a row, that keeps a mode or follows Settings.
LEMMA ColumnsFit ==
    ASSUME NEW f \in Forms
    PROVE  /\ Bank!Columns(f) \in Bank!Row /\ Bank!Columns(f).row = "live"
           /\ Bank!Columns(f).kind = f.kind /\ Bank!Columns(f).scheme = f.scheme
<1>1. Bank!retention_from_flag(f.keep) \in KeepSets
  BY DEF Bank!retention_from_flag, KeepSets, Bank!RETENTION_MODES
<1> QED BY <1>1 DEF Forms, Bank!Form, Bank!Row, Bank!Columns, KeepSets

\* The body of a save has rows of its own type, or none.
LEMMA BodyFits ==
    ASSUME NEW f \in Forms
    PROVE  /\ Bank!Body(f) \in Forms /\ Bank!Body(f).scheme.as \in {"none", Bank!Body(f).kind}
<1>1. f.scheme \in Bank!Rows /\ f.kind \in Bank!SCHEME_KINDS
  BY DEF Forms, Bank!Form
<1>2. [f.scheme EXCEPT !.as = IF @ = f.kind THEN @ ELSE "none"] \in Bank!Rows
  BY <1>1 DEF Bank!Rows
<1> QED BY <1>1, <1>2 DEF Bank!Body, Forms, Bank!Form, Bank!Rows

\* A closed tab fits.
LEMMA ClosedFits ==
    /\ TabFits(Bank!Closed) /\ Bank!Closed \in Editors /\ Bank!Closed.pc = "idle" /\ Bank!Closed.t = None
    /\ Bank!Closed.got = {} /\ Bank!Closed.knows = {} /\ Bank!Closed.put = {} /\ Bank!EMPTY \in Forms
<1>1. MaxReads \in Nat
  BY BankConstants DEF Bank!BankAssumption
<1>2. Bank!Typed \in Bank!Rows
  BY <1>1 DEF Bank!Typed, Bank!Rows
<1>3. Bank!EMPTY \in Forms
  BY <1>1, <1>2 DEF Bank!EMPTY, Forms, Bank!Form, Bank!SCHEME_KINDS
<1>4. Bank!Closed \in Editors
  BY <1>3 DEF Bank!Closed, Editors, Bank!Editor, Forms
<1> QED BY <1>3, <1>4 DEF Bank!Closed, TabFits

\* A template that is not there is a row.
LEMMA UnusedFits ==
    /\ Bank!Unused \in Bank!Row /\ Bank!Unused.row = "unused"
    /\ Bank!NoJob \in Bank!Job /\ Bank!NoRun \in Bank!Run
<1>1. MaxReads \in Nat
  BY BankConstants DEF Bank!BankAssumption
<1>2. Bank!Typed \in Bank!Rows
  BY <1>1 DEF Bank!Typed, Bank!Rows
<1> QED BY <1>1, <1>2 DEF Bank!Unused, Bank!Row, Bank!NoJob, Bank!Job, Bank!NoRun, Bank!Run, Bank!SCHEME_KINDS

\* One tab changes, the others stay.
LEMMA TabsFit ==
    ASSUME BankTypes, NEW b \in Tab, NEW e, TabFits(e), Bank!Shows(b, e)
    PROVE  tab' \in [Tab -> Editors] /\ tab'[b] = e /\ (\A c \in Tab : c # b => tab'[c] = tab[c])
           /\ \A c \in Tab : TabFits(tab'[c])
BY DEF BankTypes, Bank!Shows, TabFits

\* What each step of the editor makes of its tab.
LEMMA TypeFits ==
    ASSUME BankTypes, NEW b \in Tab, Bank!Type(b)
    PROVE  \E e \in Editors :
              /\ Bank!Shows(b, e) /\ TabFits(e)
              /\ e.pc = tab[b].pc /\ e.t = tab[b].t /\ e.got = tab[b].got /\ e.knows = tab[b].knows /\ e.put = tab[b].put
<1> DEFINE e == tab[b]
           Good(g) == /\ g \in Editors /\ TabFits(g)
                      /\ g.pc = tab[b].pc /\ g.t = tab[b].t /\ g.got = tab[b].got /\ g.knows = tab[b].knows /\ g.put = tab[b].put
<1>1. e \in Editors /\ TabFits(e) /\ e.form \in Forms
  BY DEF BankTypes, TabFits, Editors, Bank!Editor, Forms
<1>2. ASSUME NEW f \in Forms
      PROVE  Good([e EXCEPT !.form = f])
  BY <1>1, <1>2 DEF TabFits, Editors, Bank!Editor, Forms
<1>3. ASSUME NEW k \in Bank!SCHEME_KINDS
      PROVE  Good([e EXCEPT !.form.kind = k, !.form.scheme.as = "none"])
  <2>1. [e.form EXCEPT !.kind = k, !.scheme.as = "none"] \in Forms
    BY <1>1 DEF Forms, Bank!Form, Bank!Rows
  <2>2. [e EXCEPT !.form.kind = k, !.form.scheme.as = "none"] = [e EXCEPT !.form = [e.form EXCEPT !.kind = k, !.scheme.as = "none"]]
    BY <1>1 DEF Editors, Bank!Editor
  <2> QED BY <1>2, <2>1, <2>2
<1>4. Good([e EXCEPT !.form.scheme.as = e.form.kind])
  <2>1. [e.form EXCEPT !.scheme.as = e.form.kind] \in Forms
    BY <1>1 DEF Forms, Bank!Form, Bank!Rows
  <2>2. [e EXCEPT !.form.scheme.as = e.form.kind] = [e EXCEPT !.form = [e.form EXCEPT !.scheme.as = e.form.kind]]
    BY <1>1 DEF Editors, Bank!Editor
  <2> QED BY <1>2, <2>1, <2>2
<1>5. ASSUME NEW keep0 \in Keep
      PROVE  Good([e EXCEPT !.form.keep = keep0])
  <2>1. [e.form EXCEPT !.keep = keep0] \in Forms
    BY <1>1, BankConstants DEF Forms, Bank!Form, Bank!BankAssumption
  <2>2. [e EXCEPT !.form.keep = keep0] = [e EXCEPT !.form = [e.form EXCEPT !.keep = keep0]]
    BY <1>1 DEF Editors, Bank!Editor
  <2> QED BY <1>2, <2>1, <2>2
<1>6. \E g : Bank!Shows(b, g) /\ Good(g)
  <2> HIDE DEF Good
  <2> QED BY <1>3, <1>4, <1>5 DEF Bank!Type
<1> QED BY <1>6

\* What a template shows when it is loaded.
LEMMA LoadedFits ==
    ASSUME BankTypes, NEW t \in Template
    PROVE  /\ Bank!Loaded(t) \in Forms /\ tpl[t] \in Bank!Row
           /\ tpl[t].questions \in 0 .. MaxReads /\ tpl[t].scheme \in Bank!Rows
<1>1. tpl[t] \in Bank!Row
  BY DEF BankTypes
<1> QED BY <1>1 DEF Bank!Loaded, Forms, Bank!Form, Bank!Row

\* An answer fills in what it brings.
LEMMA AnswerFits ==
    ASSUME BankTypes, NEW b \in Tab, NEW answers \in SUBSET {"template", "status"}, Bank!Answer(b, answers)
    PROVE  \E e \in Editors :
              /\ Bank!Shows(b, e) /\ TabFits(e)
              /\ \/ e = Bank!Closed
                 \/ /\ e.t = tab[b].t /\ e.put = tab[b].put /\ Bank!Live(e.t) /\ tab[b].pc = "loading"
                    /\ IF "status" \in answers THEN e.knows = {w \in What : Bank!Active(e.t, w)}
                       ELSE e.knows = tab[b].knows /\ (e.pc = "editing" \/ "status" \in e.got => "status" \in tab[b].got)
<1> DEFINE e == tab[b]
           both == e.got \cup answers = {"template", "status"}
           got == IF both THEN {} ELSE answers
           pc == IF both THEN "editing" ELSE e.pc
           f == IF "template" \in answers THEN Bank!Loaded(e.t) ELSE e.form
           knows == IF "status" \in answers THEN {w \in What : Bank!Active(e.t, w)} ELSE e.knows
           g == [e EXCEPT !.got = got, !.pc = pc, !.form = f, !.knows = knows]
<1>1. e \in Editors /\ TabFits(e) /\ e.form \in Forms /\ e.pc = "loading" /\ e.t \in Template
  BY DEF BankTypes, TabFits, Editors, Bank!Editor, Forms, Bank!Answer
<1>2. CASE ~Bank!Live(e.t)
  BY <1>2, ClosedFits DEF Bank!Answer
<1>3. CASE Bank!Live(e.t)
  <2>1. Bank!Shows(b, g)
    BY <1>1, <1>3 DEF Bank!Answer, What
  <2>2. pc \in {"idle", "loading", "editing"} /\ got \in SUBSET {"template", "status"} /\ f \in Forms
        /\ knows \in SUBSET What
    BY <1>1, LoadedFits DEF Editors, Bank!Editor, What
  <2> HIDE DEF pc, got, f, knows
  <2>3. /\ g \in Editors /\ g.pc = pc /\ g.got = got /\ g.t = e.t /\ g.put = e.put /\ g.knows = knows
    BY <1>1, <2>2 DEF Editors, Bank!Editor, Forms, What
  <2>4. TabFits(g)
    BY <1>1, <2>3 DEF TabFits
  <2>5. IF "status" \in answers THEN knows = {w \in What : Bank!Active(e.t, w)} ELSE knows = e.knows
    BY DEF knows
  <2>6. "status" \notin answers /\ (pc = "editing" \/ "status" \in got) => "status" \in e.got
    BY <1>1 DEF pc, got
  <2> QED BY <1>1, <1>3, <2>1, <2>3, <2>4, <2>5, <2>6
<1> QED BY <1>2, <1>3

\* A poll takes the columns that were read, and what is still being read.
LEMMA PollFits ==
    ASSUME BankTypes, NEW b \in Tab, Bank!Poll(b)
    PROVE  \E e \in Editors :
              /\ Bank!Shows(b, e) /\ TabFits(e)
              /\ e.pc = tab[b].pc /\ e.t = tab[b].t /\ e.got = tab[b].got /\ e.put = tab[b].put
              /\ e.knows = {w \in What : Bank!Active(e.t, w)}
<1> DEFINE e == tab[b]
           finished == {w \in e.knows : job[e.t][w].st = "done"}
           q == IF "paper" \in finished THEN tpl[e.t].questions ELSE e.form.questions
           r == IF "scheme" \in finished THEN tpl[e.t].scheme ELSE e.form.scheme
           knows == {w \in What : Bank!Active(e.t, w)}
           f == [e.form EXCEPT !.questions = q, !.scheme = r]
           g == [e EXCEPT !.knows = knows, !.form = f]
<1>1. e \in Editors /\ TabFits(e) /\ e.form \in Forms /\ e.pc = "editing" /\ e.t \in Template
  BY DEF BankTypes, TabFits, Editors, Bank!Editor, Forms, Bank!Poll
<1>2. q \in 0 .. MaxReads /\ r \in Bank!Rows /\ knows \in SUBSET What
  BY <1>1, LoadedFits DEF Forms, Bank!Form
<1>3. Bank!Shows(b, [e EXCEPT !.knows = knows, !.form.questions = q, !.form.scheme = r])
  BY DEF Bank!Poll, What
<1> HIDE DEF q, r, knows
<1>4. f \in Forms
  BY <1>1, <1>2 DEF Forms, Bank!Form
<1>5. [e EXCEPT !.knows = knows, !.form.questions = q, !.form.scheme = r] = g
  BY <1>1 DEF Editors, Bank!Editor
<1> HIDE DEF f
<1>6. /\ g \in Editors /\ g.pc = e.pc /\ g.t = e.t /\ g.got = e.got /\ g.put = e.put /\ g.knows = knows
  BY <1>1, <1>2, <1>4 DEF Editors, Bank!Editor, Forms, What
<1>7. TabFits(g)
  BY <1>1, <1>6 DEF TabFits
<1> QED BY <1>3, <1>5, <1>6, <1>7 DEF knows

\* The other steps that a tab takes.
LEMMA TabSteps ==
    ASSUME BankTypes, NEW b \in Tab
    PROVE  /\ Bank!Send(b) =>
                  \E e \in Editors : /\ Bank!Shows(b, e) /\ TabFits(e) /\ e.t = tab[b].t /\ e.pc = "editing" /\ e.knows = {}
                                     /\ tab[b].pc = "editing" /\ tab[b].knows = {}
                                     /\ e.put = {Bank!Body(tab[b].form)} /\ tab[b].form \in Forms
           /\ Bank!Save(b) =>
                  \E e \in Editors : /\ Bank!Shows(b, e) /\ TabFits(e) /\ e.t = tab[b].t /\ e.put = {} /\ tab[b].put # {}
                                     /\ e.pc = tab[b].pc /\ e.got = tab[b].got /\ e.knows = tab[b].knows
           /\ \A w \in What : Bank!Read(b, w) =>
                  \E e \in Editors : /\ Bank!Shows(b, e) /\ TabFits(e) /\ e.t = tab[b].t /\ e.put = tab[b].put
                                     /\ e.pc = tab[b].pc /\ e.got = tab[b].got /\ e.knows = tab[b].knows \cup {w}
           /\ Bank!Close(b) => Bank!Shows(b, Bank!Closed)
           /\ \A t \in Template : Bank!Open(b, t) =>
                  \E e \in Editors : /\ Bank!Shows(b, e) /\ TabFits(e) /\ e.t = t /\ e.put = {}
                                     /\ e.pc = "loading" /\ e.got = {} /\ e.knows = {}
           /\ \A t \in Template : Bank!Create(b, t) =>
                  \E e \in Editors : /\ Bank!Shows(b, e) /\ TabFits(e) /\ e.t = t /\ e.put = {}
                                     /\ e.pc = "editing" /\ e.got = {} /\ e.knows = {}
                                     /\ tpl' = [tpl EXCEPT ![t] = Bank!Columns(e.form)] /\ e.form.scheme.as = "none"
                                     /\ \E kept \in Keep : asked' = [asked EXCEPT ![t] = kept]
                                     /\ e.form \in Forms /\ tpl[t].row = "unused"
<1>1. tab[b] \in Editors /\ TabFits(tab[b]) /\ tab[b].form \in Forms
  BY DEF BankTypes, TabFits, Editors, Bank!Editor, Forms
<1>2. Bank!Closed \in Editors /\ Bank!Closed.put = {} /\ Bank!Closed.got = {} /\ Bank!Closed.knows = {} /\ Bank!EMPTY \in Forms
  BY ClosedFits
<1>3. ASSUME Bank!Send(b)
      PROVE  \E e \in Editors : /\ Bank!Shows(b, e) /\ TabFits(e) /\ e.t = tab[b].t /\ e.pc = "editing" /\ e.knows = {}
                                /\ tab[b].pc = "editing" /\ tab[b].knows = {}
                                /\ e.put = {Bank!Body(tab[b].form)} /\ tab[b].form \in Forms
  <2> DEFINE e == [tab[b] EXCEPT !.put = {Bank!Body(tab[b].form)}]
  <2>1. Bank!Body(tab[b].form) \in Forms
    BY <1>1, BodyFits
  <2>2. /\ e \in Editors /\ e.t = tab[b].t /\ e.pc = tab[b].pc /\ e.knows = tab[b].knows
        /\ e.put = {Bank!Body(tab[b].form)}
    BY <1>1, <2>1 DEF Editors, Bank!Editor, Forms
  <2>3. TabFits(e)
    BY <1>1, <2>1, <2>2 DEF TabFits
  <2> QED BY <1>1, <1>3, <2>2, <2>3 DEF Bank!Send
<1>4. ASSUME Bank!Save(b)
      PROVE  \E e \in Editors : /\ Bank!Shows(b, e) /\ TabFits(e) /\ e.t = tab[b].t /\ e.put = {} /\ tab[b].put # {}
                                /\ e.pc = tab[b].pc /\ e.got = tab[b].got /\ e.knows = tab[b].knows
  <2> DEFINE e == [tab[b] EXCEPT !.put = {}]
  <2>1. /\ e \in Editors /\ e.t = tab[b].t /\ e.pc = tab[b].pc /\ e.knows = tab[b].knows
        /\ e.put = {} /\ e.got = tab[b].got
    BY <1>1 DEF Editors, Bank!Editor
  <2>2. TabFits(e)
    BY <1>1, <2>1 DEF TabFits
  <2> QED BY <1>4, <2>1, <2>2 DEF Bank!Save
<1>5. ASSUME NEW w \in What, Bank!Read(b, w)
      PROVE  \E e \in Editors : /\ Bank!Shows(b, e) /\ TabFits(e) /\ e.t = tab[b].t /\ e.put = tab[b].put
                                /\ e.pc = tab[b].pc /\ e.got = tab[b].got /\ e.knows = tab[b].knows \cup {w}
  <2> DEFINE e == [tab[b] EXCEPT !.knows = @ \cup {w}]
  <2>1. /\ e \in Editors /\ e.t = tab[b].t /\ e.pc = tab[b].pc /\ e.knows = tab[b].knows \cup {w}
        /\ e.put = tab[b].put /\ e.got = tab[b].got
    BY <1>1 DEF Editors, Bank!Editor, What
  <2>2. TabFits(e)
    BY <1>1, <2>1 DEF TabFits
  <2> QED BY <1>5, <2>1, <2>2 DEF Bank!Read
<1>6. Bank!Close(b) => Bank!Shows(b, Bank!Closed)
  BY DEF Bank!Close
<1>7. ASSUME NEW t \in Template, Bank!Open(b, t)
      PROVE  \E e \in Editors : /\ Bank!Shows(b, e) /\ TabFits(e) /\ e.t = t /\ e.put = {}
                                /\ e.pc = "loading" /\ e.got = {} /\ e.knows = {}
  <2> DEFINE e == [Bank!Closed EXCEPT !.pc = "loading", !.t = t]
  <2>1. /\ e \in Editors /\ e.t = t /\ e.pc = "loading" /\ e.put = {} /\ e.got = {} /\ e.knows = {}
    BY <1>2 DEF Editors, Bank!Editor
  <2>2. TabFits(e)
    BY <2>1 DEF TabFits
  <2> QED BY <1>7, <2>1, <2>2 DEF Bank!Open
<1>8. ASSUME NEW t \in Template, Bank!Create(b, t)
      PROVE  \E e \in Editors : /\ Bank!Shows(b, e) /\ TabFits(e) /\ e.t = t /\ e.put = {}
                                /\ e.pc = "editing" /\ e.got = {} /\ e.knows = {}
                                /\ tpl' = [tpl EXCEPT ![t] = Bank!Columns(e.form)] /\ e.form.scheme.as = "none"
                                /\ \E kept \in Keep : asked' = [asked EXCEPT ![t] = kept]
                                /\ e.form \in Forms /\ tpl[t].row = "unused"
  <2>1. PICK k \in Bank!SCHEME_KINDS, kept \in Keep :
            /\ tpl' = [tpl EXCEPT ![t] = Bank!Columns([Bank!EMPTY EXCEPT !.kind = k, !.keep = kept])]
            /\ asked' = [asked EXCEPT ![t] = kept]
            /\ Bank!Shows(b, [Bank!Closed EXCEPT !.pc = "editing", !.t = t,
                                                 !.form = [Bank!EMPTY EXCEPT !.kind = k, !.keep = kept]])
    BY <1>8 DEF Bank!Create
  <2> DEFINE f == [Bank!EMPTY EXCEPT !.kind = k, !.keep = kept]
             e == [Bank!Closed EXCEPT !.pc = "editing", !.t = t, !.form = f]
  <2>2. kept \in KeepSets
    BY BankConstants DEF Bank!BankAssumption, KeepSets
  <2>3. f \in Forms /\ f.scheme = Bank!EMPTY.scheme
    BY <1>2, <2>2 DEF Forms, Bank!Form, KeepSets
  <2>4. f.scheme.as = "none"
    BY <2>3 DEF Bank!EMPTY, Bank!Typed
  <2> HIDE DEF f
  <2>5. /\ e \in Editors /\ e.t = t /\ e.pc = "editing" /\ e.put = {} /\ e.got = {} /\ e.knows = {} /\ e.form = f
    BY <1>2, <2>3 DEF Editors, Bank!Editor, Forms
  <2>6. TabFits(e)
    BY <2>5 DEF TabFits
  <2>7. Bank!Shows(b, e) /\ tpl' = [tpl EXCEPT ![t] = Bank!Columns(f)]
    BY <2>1 DEF f
  <2> QED BY <1>8, <2>1, <2>3, <2>4, <2>5, <2>6, <2>7 DEF Bank!Create
<1> QED BY <1>3, <1>4, <1>5, <1>6, <1>7, <1>8

\* The types of everything but the tabs.
RestTypes ==
    /\ tpl \in [Template -> Bank!Row]
    /\ pages \in [Template -> SUBSET What]
    /\ job \in [Template -> [What -> Bank!Job]]
    /\ script \in [Script -> Bank!Run] /\ \A s \in Script : script[s].st # "none" => script[s].t \in Template
    /\ asked \in [Template -> KeepSets]
    /\ reads \in 0 .. MaxReads /\ mishaps \in 0 .. MaxMishaps

\* The types hold after a step that shows something fit in one tab, or in none.
LEMMA TypesBecome ==
    ASSUME BankTypes, RestTypes',
           tab' = tab \/ \E b \in Tab : \E e \in Editors : TabFits(e) /\ Bank!Shows(b, e)
    PROVE  BankTypes'
<1>1. tab' \in [Tab -> Editors] /\ \A c \in Tab : TabFits(tab'[c])
  <2>1. CASE tab' = tab
    BY <2>1 DEF BankTypes
  <2>2. CASE \E b \in Tab : \E e \in Editors : TabFits(e) /\ Bank!Shows(b, e)
    BY <2>2, TabsFit
  <2> QED BY <2>1, <2>2
<1> QED BY <1>1 DEF BankTypes, RestTypes

\* The types of the bank hold through every step of it.
LEMMA BankTypesStep ==
    ASSUME BankTypes, Bank!BankNext
    PROVE  BankTypes'
<1> DEFINE Shown == \E b \in Tab : \E e \in Editors : TabFits(e) /\ Bank!Shows(b, e)
<1>0. RestTypes /\ MaxReads \in Nat /\ MaxMishaps \in Nat
  BY BankConstants DEF BankTypes, RestTypes, Bank!BankAssumption
<1>m. mishaps' = mishaps \/ (mishaps < MaxMishaps /\ mishaps' = mishaps + 1) => mishaps' \in 0 .. MaxMishaps
  <2>1. mishaps \in 0 .. MaxMishaps
    BY <1>0 DEF RestTypes
  <2> QED BY <1>0, <2>1
<1>1. ASSUME NEW b \in Tab, Bank!Type(b) \/ Bank!Send(b) \/ Bank!Poll(b) \/ Bank!Close(b)
      PROVE  BankTypes'
  <2>1. UNCHANGED <<tpl, pages, job, script, asked, reads, mishaps>>
    BY <1>1 DEF Bank!Type, Bank!Send, Bank!Poll, Bank!Close
  <2>2. Shown
    BY <1>1, TypeFits, TabSteps, PollFits, ClosedFits
  <2>3. RestTypes'
    BY <1>0, <2>1 DEF RestTypes
  <2> QED BY <2>2, <2>3, TypesBecome
<1>2. ASSUME NEW b \in Tab, Bank!Save(b)
      PROVE  BankTypes'
  <2>1. Shown
    BY <1>2, TabSteps
  <2>2. PICK body \in tab[b].put :
            /\ tpl' = IF Bank!Live(tab[b].t) THEN [tpl EXCEPT ![tab[b].t] = Bank!Columns(body)] ELSE tpl
            /\ asked' = IF Bank!Live(tab[b].t) THEN [asked EXCEPT ![tab[b].t] = body.keep] ELSE asked
            /\ UNCHANGED <<pages, job, script, reads, mishaps>>
    BY <1>2 DEF Bank!Save
  <2>3. body \in Forms
    BY <2>2 DEF BankTypes, TabFits
  <2>4. body.keep \in KeepSets /\ Bank!Columns(body) \in Bank!Row
    BY <2>3, ColumnsFit DEF Forms, Bank!Form, KeepSets
  <2>5. RestTypes'
    BY <1>0, <2>2, <2>4 DEF RestTypes
  <2> QED BY <2>1, <2>5, TypesBecome
<1>3. ASSUME NEW b \in Tab, NEW t \in Template, Bank!Create(b, t) \/ Bank!Open(b, t)
      PROVE  BankTypes'
  <2>1. CASE Bank!Open(b, t)
    <3>1. Shown /\ UNCHANGED <<tpl, pages, job, script, asked, reads, mishaps>>
      BY <2>1, TabSteps DEF Bank!Open
    <3>2. RestTypes'
      BY <1>0, <3>1 DEF RestTypes
    <3> QED BY <3>1, <3>2, TypesBecome
  <2>2. CASE Bank!Create(b, t)
    <3>1. UNCHANGED <<pages, job, script, reads, mishaps>>
      BY <2>2 DEF Bank!Create
    <3>2. PICK e \in Editors : /\ Bank!Shows(b, e) /\ TabFits(e) /\ e.form \in Forms
                              /\ tpl' = [tpl EXCEPT ![t] = Bank!Columns(e.form)]
                              /\ \E kept \in Keep : asked' = [asked EXCEPT ![t] = kept]
      BY <2>2, TabSteps
    <3>3. Bank!Columns(e.form) \in Bank!Row /\ Keep \subseteq KeepSets
      BY <3>2, ColumnsFit, BankConstants DEF Bank!BankAssumption, KeepSets
    <3>4. RestTypes'
      BY <1>0, <3>1, <3>2, <3>3 DEF RestTypes
    <3> QED BY <3>2, <3>4, TypesBecome
  <2> QED BY <1>3, <2>1, <2>2
<1>4. ASSUME NEW b \in Tab, NEW answers \in SUBSET {"template", "status"}, Bank!Answer(b, answers)
      PROVE  BankTypes'
  <2>1. Shown /\ UNCHANGED <<tpl, pages, job, script, asked, reads, mishaps>>
    BY <1>4, AnswerFits DEF Bank!Answer
  <2>2. RestTypes'
    BY <1>0, <2>1 DEF RestTypes
  <2> QED BY <2>1, <2>2, TypesBecome
<1>5. ASSUME NEW b \in Tab, NEW w \in What, Bank!Read(b, w)
      PROVE  BankTypes'
  <2>1. Shown /\ UNCHANGED <<tpl, pages, script, asked, reads, mishaps>>
    BY <1>5, TabSteps DEF Bank!Read
  <2>2. [Bank!NoJob EXCEPT !.st = "queued"] \in Bank!Job
    BY UnusedFits DEF Bank!Job
  <2>3. job' \in [Template -> [What -> Bank!Job]]
    BY <1>0, <1>5, <2>2 DEF Bank!Read, RestTypes
  <2>4. RestTypes'
    BY <1>0, <2>1, <2>3 DEF RestTypes
  <2> QED BY <2>1, <2>4, TypesBecome
<1>6. ASSUME NEW t \in Template, NEW w \in What,
             Bank!Attach(t, w) \/ Bank!StartJob(t, w) \/ Bank!EndJob(t, w) \/ Bank!JobFails(t, w)
      PROVE  BankTypes'
  <2>0. tab' = tab
    BY <1>6 DEF Bank!Attach, Bank!StartJob, Bank!EndJob, Bank!JobFails
  <2>1. CASE Bank!Attach(t, w)
    <3>1. UNCHANGED <<tpl, job, script, asked, reads, mishaps>> /\ pages' \in [Template -> SUBSET What]
      BY <1>0, <2>1 DEF Bank!Attach, RestTypes
    <3> QED BY <1>0, <2>0, <3>1, TypesBecome DEF RestTypes
  <2>2. CASE Bank!StartJob(t, w)
    <3> DEFINE j == [st |-> IF Bank!Starts(t, w) THEN "running" ELSE "failed", kind |-> tpl[t].kind]
    <3>1. j \in Bank!Job
      BY <1>0 DEF RestTypes, Bank!Row, Bank!Job
    <3>2. UNCHANGED <<tpl, pages, script, asked, reads, mishaps>> /\ Bank!Sets(t, w, j)
      BY <2>2 DEF Bank!StartJob
    <3> HIDE DEF j
    <3>3. job' \in [Template -> [What -> Bank!Job]]
      BY <1>0, <3>1, <3>2 DEF Bank!Sets, RestTypes
    <3> QED BY <1>0, <2>0, <3>2, <3>3, TypesBecome DEF RestTypes
  <2>3. CASE Bank!EndJob(t, w)
    <3> DEFINE j == [Bank!NoJob EXCEPT !.st = "done"]
               r == [as |-> job[t][w].kind, at |-> reads + 1]
    <3>1. j \in Bank!Job
      BY UnusedFits DEF Bank!Job
    <3>2. reads + 1 \in 0 .. MaxReads /\ reads' = reads + 1 /\ UNCHANGED <<pages, script, asked, mishaps>> /\ Bank!Sets(t, w, j)
      BY <1>0, <2>3 DEF Bank!EndJob, RestTypes
    <3>3. r \in Bank!Rows
      BY <1>0, <3>2 DEF RestTypes, Bank!Job, Bank!Rows
    <3>4. tpl[t] \in Bank!Row
      BY <1>0 DEF RestTypes
    <3>5. [tpl[t] EXCEPT !.questions = reads + 1] \in Bank!Row /\ [tpl[t] EXCEPT !.scheme = r] \in Bank!Row
      BY <3>2, <3>3, <3>4 DEF Bank!Row
    <3>6. \/ tpl' = tpl \/ tpl' = [tpl EXCEPT ![t].questions = reads + 1] \/ tpl' = [tpl EXCEPT ![t].scheme = r]
      BY <2>3 DEF Bank!EndJob
    <3> HIDE DEF j, r
    <3>7. tpl' \in [Template -> Bank!Row]
      <4>1. tpl' = tpl \/ tpl' = [tpl EXCEPT ![t] = [tpl[t] EXCEPT !.questions = reads + 1]]
                      \/ tpl' = [tpl EXCEPT ![t] = [tpl[t] EXCEPT !.scheme = r]]
        BY <3>6
      <4> QED BY <1>0, <3>5, <4>1 DEF RestTypes
    <3>8. job' \in [Template -> [What -> Bank!Job]]
      BY <1>0, <3>1, <3>2 DEF Bank!Sets, RestTypes
    <3> QED BY <1>0, <2>0, <3>2, <3>7, <3>8, TypesBecome DEF RestTypes
  <2>4. CASE Bank!JobFails(t, w)
    <3>1. [Bank!NoJob EXCEPT !.st = "queued"] \in Bank!Job /\ [Bank!NoJob EXCEPT !.st = "failed"] \in Bank!Job
      BY UnusedFits DEF Bank!Job
    <3>2. job' \in [Template -> [What -> Bank!Job]]
      <4>1. PICK j \in Bank!Job : Bank!Sets(t, w, j)
        BY <2>4, <3>1 DEF Bank!JobFails
      <4> QED BY <1>0, <4>1 DEF Bank!Sets, RestTypes
    <3>3. UNCHANGED <<tpl, pages, script, asked, reads>> /\ mishaps' \in 0 .. MaxMishaps
      BY <2>4, <1>m DEF Bank!JobFails, Bank!Mishap
    <3> QED BY <1>0, <2>0, <3>2, <3>3, TypesBecome DEF RestTypes
  <2> QED BY <1>6, <2>1, <2>2, <2>3, <2>4
<1>7. ASSUME NEW t \in Template, NEW u \in Template, Bank!Duplicate(t, u)
      PROVE  BankTypes'
  <2>1. RestTypes' /\ tab' = tab
    BY <1>0, <1>7 DEF Bank!Duplicate, RestTypes
  <2> QED BY <2>1, TypesBecome
<1>8. ASSUME NEW t \in Template, Bank!Import(t) \/ Bank!Delete(t)
      PROVE  BankTypes'
  <2>1. \A k \in Bank!SCHEME_KINDS, as \in {"none"} \cup Bank!SCHEME_KINDS :
            [Bank!Unused EXCEPT !.row = "live", !.kind = k, !.scheme.as = as] \in Bank!Row
    BY UnusedFits DEF Bank!Row, Bank!Rows
  <2>2. [Bank!Unused EXCEPT !.row = "deleted"] \in Bank!Row
    BY UnusedFits DEF Bank!Row
  <2>3. tpl' \in [Template -> Bank!Row]
    <3>1. PICK r \in Bank!Row : tpl' = [tpl EXCEPT ![t] = r]
      BY <1>8, <2>1, <2>2 DEF Bank!Import, Bank!Delete
    <3> QED BY <1>0, <3>1 DEF RestTypes
  <2>4. /\ UNCHANGED <<job, tab, script, reads, mishaps>>
        /\ UNCHANGED <<pages, asked>> \/ (pages' = [pages EXCEPT ![t] = {}] /\ asked' = [asked EXCEPT ![t] = {}])
    BY <1>8 DEF Bank!Import, Bank!Delete
  <2>5. pages' \in [Template -> SUBSET What] /\ asked' \in [Template -> KeepSets]
    BY <1>0, <2>4 DEF RestTypes, KeepSets
  <2> QED BY <1>0, <2>3, <2>4, <2>5, TypesBecome DEF RestTypes
<1>9. ASSUME NEW s \in Script, \/ \E t \in Template : Bank!Upload(s, t)
                               \/ Bank!Retry(s) \/ Bank!Mark(s)
      PROVE  BankTypes'
  <2>1. UNCHANGED <<tpl, pages, job, tab, asked, reads>> /\ mishaps' \in 0 .. MaxMishaps
    BY <1>9, <1>m DEF Bank!Upload, Bank!Retry, Bank!Mark
  <2>2. script[s] \in Bank!Run /\ (script[s].st # "none" => script[s].t \in Template)
    BY <1>0 DEF RestTypes
  <2>3. \E r \in Bank!Run : script' = [script EXCEPT ![s] = r] /\ (r.st # "none" => r.t \in Template)
    <3>1. ASSUME NEW t \in Template, Bank!Upload(s, t)
          PROVE  \E r \in Bank!Run : script' = [script EXCEPT ![s] = r] /\ r.t \in Template
      <4> DEFINE r == [Bank!NoRun EXCEPT !.st = "uploaded", !.t = t, !.kind = tpl[t].kind]
      <4>1. tpl[t].kind \in Bank!SCHEME_KINDS
        BY <1>0 DEF RestTypes, Bank!Row
      <4>2. r \in Bank!Run /\ r.t = t
        BY <4>1, UnusedFits DEF Bank!Run
      <4> QED BY <3>1, <4>2 DEF Bank!Upload
    <3>2. ASSUME Bank!Retry(s)
          PROVE  \E r \in Bank!Run : script' = [script EXCEPT ![s] = r] /\ r.t \in Template
      <4> DEFINE r == [script[s] EXCEPT !.st = "uploaded"]
      <4>1. r \in Bank!Run /\ r.t = script[s].t
        BY <2>2 DEF Bank!Run
      <4> QED BY <2>2, <3>2, <4>1 DEF Bank!Retry
    <3>3. ASSUME Bank!Mark(s)
          PROVE  \E r \in Bank!Run : script' = [script EXCEPT ![s] = r] /\ r.t \in Template
      <4> DEFINE t == script[s].t
                 f == [script[s] EXCEPT !.st = "failed"]
                 m == [script[s] EXCEPT !.st = "marked", !.by = tpl[t].kind, !.as = tpl[t].scheme.as]
      <4>1. t \in Template
        BY <2>2, <3>3 DEF Bank!Mark
      <4>2. tpl[t].kind \in Bank!SCHEME_KINDS /\ tpl[t].scheme.as \in {"none"} \cup Bank!SCHEME_KINDS
        BY <1>0, <4>1 DEF RestTypes, Bank!Row, Bank!Rows
      <4>3. f \in Bank!Run /\ f.t = t /\ m \in Bank!Run /\ m.t = t
        BY <2>2, <4>2 DEF Bank!Run
      <4>4. script' = [script EXCEPT ![s] = f] \/ script' = [script EXCEPT ![s] = m]
        BY <3>3 DEF Bank!Mark
      <4> HIDE DEF f, m
      <4> QED BY <4>1, <4>3, <4>4
    <3> QED BY <1>9, <3>1, <3>2, <3>3
  <2>4. script' \in [Script -> Bank!Run] /\ \A r \in Script : script'[r].st # "none" => script'[r].t \in Template
    BY <1>0, <2>3 DEF RestTypes
  <2> QED BY <1>0, <2>1, <2>4, TypesBecome DEF RestTypes
<1> QED
  BY <1>1, <1>2, <1>3, <1>4, <1>5, <1>6, <1>7, <1>8, <1>9 DEF Bank!BankNext, What

\* What the tabs have on their way and know of, after a step that shows something else in the one.
LEMMA TabsBecome ==
    ASSUME BankTypes, OneTab, NEW b \in Tab, NEW e \in Editors, TabFits(e), Bank!Shows(b, e),
           \A f \in e.put : f.scheme.as \in {"none", f.kind},
           e.put # {} => e.pc = "editing" /\ e.knows = {},
           \A w \in What : /\ e.pc = "editing" \/ (e.pc = "loading" /\ "status" \in e.got)
                          /\ job'[e.t][w].st \in {"queued", "running"}
                          => w \in e.knows
    PROVE  PutsFit' /\ PutsAlone' /\ TabKnows'
<1>1. \A c \in Tab : tab'[c] = e
  BY TabsFit DEF OneTab
<1> QED BY <1>1 DEF PutsFit, PutsAlone, TabKnows, Bank!Active

\* ... and after one in which jobs only come to an end.
LEMMA TabsStay ==
    ASSUME BankTypes, PutsFit, PutsAlone, TabKnows, UNCHANGED tab,
           \A t \in Template, w \in What : job'[t][w].st \in {"queued", "running"} => Bank!Active(t, w)
    PROVE  PutsFit' /\ PutsAlone' /\ TabKnows'
<1>1. \A b \in Tab : tab[b].pc # "idle" => tab[b].t \in Template
  BY DEF BankTypes, TabFits
<1> QED BY <1>1 DEF PutsFit, PutsAlone, TabKnows, Bank!Active

\* Templates, jobs and scripts that do not change.
LEMMA RowsRest ==
    ASSUME JobsFit, Bank!TypesAgree, UNCHANGED <<tpl, job, script>>
    PROVE  JobsFit' /\ Bank!TypesAgree'
BY DEF JobsFit, Bank!TypesAgree, Bank!RowsFitKind, Bank!MarkedAsUploaded, Bank!Active, Bank!Live

\* A template is written that no job reads for.
LEMMA RowsWritten ==
    ASSUME BankTypes, JobsFit, Bank!TypesAgree, UNCHANGED <<job, script>>,
           NEW t \in Template, NEW r \in Bank!Row, tpl' = [tpl EXCEPT ![t] = r],
           r.row # "unused", r.row = "live" => r.scheme.as \in {"none", r.kind},
           r.row = "live" => \A w \in What : ~Bank!Active(t, w)
    PROVE  JobsFit' /\ Bank!TypesAgree'
<1>1. tpl'[t] = r /\ \A u \in Template : u # t => tpl'[u] = tpl[u]
  BY DEF BankTypes
<1>2. JobsFit'
  BY <1>1 DEF JobsFit, Bank!Active, Bank!Live
<1>3. Bank!RowsFitKind'
  BY <1>1 DEF Bank!TypesAgree, Bank!RowsFitKind, Bank!Live
<1> QED BY <1>2, <1>3 DEF Bank!TypesAgree, Bank!MarkedAsUploaded

\* A job changes.
LEMMA JobMoves ==
    ASSUME BankTypes, NEW t \in Template, NEW w \in What, NEW j \in Bank!Job, job' = [job EXCEPT ![t][w] = j]
    PROVE  job'[t][w] = j /\ \A u \in Template, v \in What : u # t \/ v # w => job'[u][v] = job[u][v]
BY DEF BankTypes

\* Types agree through every step of the bank.
LEMMA BankInvStep ==
    ASSUME OneTab, PromptSaves, BankTypes, BankInv, Bank!BankNext
    PROVE  BankInv'
<1>0. /\ PutsFit /\ PutsAlone /\ TabKnows /\ JobsFit /\ Bank!TypesAgree /\ Bank!RowsFitKind /\ Bank!MarkedAsUploaded
  BY DEF BankInv, Bank!TypesAgree
<1>t. \A b \in Tab : tab[b].pc # "idle" => tab[b].t \in Template
  BY DEF BankTypes, TabFits
<1>r. tpl \in [Template -> Bank!Row]
  BY DEF BankTypes
<1>1. ASSUME NEW b \in Tab, Bank!Type(b) \/ Bank!Send(b) \/ Bank!Poll(b) \/ Bank!Close(b)
      PROVE  BankInv'
  <2>1. UNCHANGED <<tpl, job, script>>
    BY <1>1 DEF Bank!Type, Bank!Send, Bank!Poll, Bank!Close
  <2>2. CASE Bank!Type(b)
    <3>1. PICK e \in Editors :
              /\ Bank!Shows(b, e) /\ TabFits(e)
              /\ e.pc = tab[b].pc /\ e.t = tab[b].t /\ e.got = tab[b].got /\ e.knows = tab[b].knows /\ e.put = tab[b].put
      BY <2>2, TypeFits
    <3>2. PutsFit' /\ PutsAlone' /\ TabKnows'
      BY <1>0, <2>1, <3>1, TabsBecome DEF PutsFit, PutsAlone, TabKnows, Bank!Active
    <3> QED BY <1>0, <2>1, <3>2, RowsRest DEF BankInv
  <2>3. CASE Bank!Send(b)
    <3>1. PICK e \in Editors :
              /\ Bank!Shows(b, e) /\ TabFits(e) /\ e.t = tab[b].t /\ e.pc = "editing" /\ e.knows = {}
              /\ tab[b].pc = "editing" /\ tab[b].knows = {}
              /\ e.put = {Bank!Body(tab[b].form)} /\ tab[b].form \in Forms
      BY <2>3, TabSteps
    <3>2. \A f \in e.put : f.scheme.as \in {"none", f.kind}
      BY <3>1, BodyFits
    <3>3. PutsFit' /\ PutsAlone' /\ TabKnows'
      BY <1>0, <2>1, <3>1, <3>2, TabsBecome DEF TabKnows, Bank!Active
    <3> QED BY <1>0, <2>1, <3>3, RowsRest DEF BankInv
  <2>4. CASE Bank!Poll(b)
    <3>1. PICK e \in Editors :
              /\ Bank!Shows(b, e) /\ TabFits(e)
              /\ e.pc = tab[b].pc /\ e.t = tab[b].t /\ e.got = tab[b].got /\ e.put = tab[b].put
              /\ e.knows = {w \in What : Bank!Active(e.t, w)}
      BY <2>4, PollFits
    <3>2. tab[b].knows # {}
      BY <2>4 DEF Bank!Poll
    <3>3. PutsFit' /\ PutsAlone' /\ TabKnows'
      BY <1>0, <2>1, <3>1, <3>2, TabsBecome DEF PutsAlone, Bank!Active
    <3> QED BY <1>0, <2>1, <3>3, RowsRest DEF BankInv
  <2>5. CASE Bank!Close(b)
    <3>1. Bank!Shows(b, Bank!Closed)
      BY <2>5, TabSteps
    <3>2. PutsFit' /\ PutsAlone' /\ TabKnows'
      BY <3>1, ClosedFits, TabsBecome
    <3> QED BY <1>0, <2>1, <3>2, RowsRest DEF BankInv
  <2> QED BY <1>1, <2>2, <2>3, <2>4, <2>5
<1>2. ASSUME NEW b \in Tab, Bank!Save(b)
      PROVE  BankInv'
  <2>1. PICK e \in Editors : /\ Bank!Shows(b, e) /\ TabFits(e) /\ e.t = tab[b].t /\ e.put = {} /\ tab[b].put # {}
                            /\ e.pc = tab[b].pc /\ e.got = tab[b].got /\ e.knows = tab[b].knows
    BY <1>2, TabSteps
  <2>2. PICK body \in tab[b].put :
            /\ tpl' = IF Bank!Live(tab[b].t) THEN [tpl EXCEPT ![tab[b].t] = Bank!Columns(body)] ELSE tpl
            /\ UNCHANGED <<job, script>>
    BY <1>2 DEF Bank!Save
  <2>3. tab[b].pc = "editing" /\ tab[b].knows = {} /\ tab[b].t \in Template
    BY <1>0, <1>t, <2>1 DEF PutsAlone
  <2>4. \A w \in What : ~Bank!Active(tab[b].t, w)
    BY <1>0, <2>3 DEF TabKnows
  <2>5. body \in Forms /\ body.scheme.as \in {"none", body.kind}
    BY <1>0, <2>2 DEF PutsFit, BankTypes, TabFits
  <2>6. PutsFit' /\ PutsAlone' /\ TabKnows'
    BY <1>0, <2>1, <2>2, TabsBecome DEF TabKnows, Bank!Active
  <2>7. JobsFit' /\ Bank!TypesAgree'
    <3>1. CASE Bank!Live(tab[b].t)
      BY <1>0, <2>2, <2>3, <2>4, <2>5, <3>1, ColumnsFit, RowsWritten
    <3>2. CASE ~Bank!Live(tab[b].t)
      BY <1>0, <2>2, <3>2, RowsRest
    <3> QED BY <3>1, <3>2
  <2> QED BY <2>6, <2>7 DEF BankInv
<1>3. ASSUME NEW b \in Tab, NEW t \in Template, Bank!Open(b, t)
      PROVE  BankInv'
  <2>1. PICK e \in Editors : /\ Bank!Shows(b, e) /\ TabFits(e) /\ e.t = t /\ e.put = {}
                            /\ e.pc = "loading" /\ e.got = {} /\ e.knows = {}
    BY <1>3, TabSteps
  <2>2. UNCHANGED <<tpl, job, script>>
    BY <1>3 DEF Bank!Open
  <2>3. PutsFit' /\ PutsAlone' /\ TabKnows'
    BY <2>1, TabsBecome
  <2> QED BY <1>0, <2>2, <2>3, RowsRest DEF BankInv
<1>4. ASSUME NEW b \in Tab, NEW t \in Template, Bank!Create(b, t)
      PROVE  BankInv'
  <2>1. PICK e \in Editors : /\ Bank!Shows(b, e) /\ TabFits(e) /\ e.t = t /\ e.put = {}
                            /\ e.pc = "editing" /\ e.got = {} /\ e.knows = {}
                            /\ tpl' = [tpl EXCEPT ![t] = Bank!Columns(e.form)] /\ e.form.scheme.as = "none"
                            /\ e.form \in Forms /\ tpl[t].row = "unused"
    BY <1>4, TabSteps
  <2>2. UNCHANGED <<job, script>>
    BY <1>4 DEF Bank!Create
  <2>3. \A w \in What : ~Bank!Active(t, w)
    BY <1>0, <2>1 DEF JobsFit
  <2>4. PutsFit' /\ PutsAlone' /\ TabKnows'
    BY <2>1, <2>2, <2>3, TabsBecome DEF Bank!Active
  <2>5. JobsFit' /\ Bank!TypesAgree'
    BY <1>0, <2>1, <2>2, <2>3, ColumnsFit, RowsWritten
  <2> QED BY <2>4, <2>5 DEF BankInv
<1>5. ASSUME NEW b \in Tab, NEW answers \in SUBSET {"template", "status"}, Bank!Answer(b, answers)
      PROVE  BankInv'
  <2>1. UNCHANGED <<tpl, job, script>>
    BY <1>5 DEF Bank!Answer
  <2>2. PICK e \in Editors :
            /\ Bank!Shows(b, e) /\ TabFits(e)
            /\ \/ e = Bank!Closed
               \/ /\ e.t = tab[b].t /\ e.put = tab[b].put /\ Bank!Live(e.t) /\ tab[b].pc = "loading"
                  /\ IF "status" \in answers THEN e.knows = {w \in What : Bank!Active(e.t, w)}
                     ELSE e.knows = tab[b].knows /\ (e.pc = "editing" \/ "status" \in e.got => "status" \in tab[b].got)
    BY <1>5, AnswerFits
  <2>3. PutsFit' /\ PutsAlone' /\ TabKnows'
    <3>1. CASE e = Bank!Closed
      BY <2>2, <3>1, ClosedFits, TabsBecome
    <3>2. CASE e # Bank!Closed
      <4>1. e.put = {}
        BY <1>0, <2>2, <3>2 DEF PutsAlone
      <4>2. ASSUME NEW w \in What, e.pc = "editing" \/ "status" \in e.got, job'[e.t][w].st \in {"queued", "running"}
            PROVE  w \in e.knows
        BY <1>0, <2>1, <2>2, <3>2, <4>2 DEF TabKnows, Bank!Active
      <4> QED BY <2>2, <4>1, <4>2, TabsBecome
    <3> QED BY <3>1, <3>2
  <2> QED BY <1>0, <2>1, <2>3, RowsRest DEF BankInv
<1>6. ASSUME NEW b \in Tab, NEW w \in What, Bank!Read(b, w)
      PROVE  BankInv'
  <2>1. PICK e \in Editors : /\ Bank!Shows(b, e) /\ TabFits(e) /\ e.t = tab[b].t /\ e.put = tab[b].put
                            /\ e.pc = tab[b].pc /\ e.got = tab[b].got /\ e.knows = tab[b].knows \cup {w}
    BY <1>6, TabSteps
  <2>2. /\ UNCHANGED <<tpl, script>> /\ tab[b].pc = "editing" /\ Bank!Live(tab[b].t) /\ tab[b].t \in Template
        /\ tab[b].put = {}
    BY <1>6, <1>t DEF Bank!Read, Bank!Prompt, Bank!Saving
  <2>3. \/ job' = job
        \/ \E j \in Bank!Job : job' = [job EXCEPT ![tab[b].t][w] = j] /\ j.st = "queued"
    <3>1. [Bank!NoJob EXCEPT !.st = "queued"] \in Bank!Job /\ [Bank!NoJob EXCEPT !.st = "queued"].st = "queued"
      BY UnusedFits DEF Bank!Job
    <3> QED BY <1>6, <3>1 DEF Bank!Read
  <2>4. \A u \in Template, v \in What :
            \/ job'[u][v] = job[u][v]
            \/ u = tab[b].t /\ v = w /\ job'[u][v].st = "queued"
    <3>1. CASE job' = job
      BY <3>1
    <3>2. ASSUME NEW j \in Bank!Job, job' = [job EXCEPT ![tab[b].t][w] = j], j.st = "queued"
          PROVE  \A u \in Template, v \in What :
                    job'[u][v] = job[u][v] \/ (u = tab[b].t /\ v = w /\ job'[u][v].st = "queued")
      <4>1. PICK t \in Template : t = tab[b].t
        BY <2>2
      <4>2. job' = [job EXCEPT ![t][w] = j]
        BY <3>2, <4>1
      <4>3. job'[t][w] = j /\ \A u \in Template, v \in What : u # t \/ v # w => job'[u][v] = job[u][v]
        BY <4>2, JobMoves
      <4> QED BY <3>2, <4>1, <4>3
    <3> QED BY <2>3, <3>1, <3>2
  <2>5. PutsFit' /\ PutsAlone' /\ TabKnows'
    <3>1. \A v \in What : job'[e.t][v].st \in {"queued", "running"} => v \in e.knows
      BY <1>0, <2>1, <2>2, <2>4 DEF TabKnows, Bank!Active
    <3> QED BY <2>1, <2>2, <3>1, TabsBecome
  <2>6. JobsFit'
    BY <1>0, <2>2, <2>4 DEF JobsFit, Bank!Active, Bank!Live
  <2>7. Bank!TypesAgree'
    BY <1>0, <2>2 DEF Bank!TypesAgree, Bank!RowsFitKind, Bank!MarkedAsUploaded, Bank!Live
  <2> QED BY <2>5, <2>6, <2>7 DEF BankInv
<1>7. ASSUME NEW t \in Template, NEW w \in What, Bank!Attach(t, w)
      PROVE  BankInv'
  <2>1. UNCHANGED <<tpl, job, script, tab>>
    BY <1>7 DEF Bank!Attach
  <2>2. PutsFit' /\ PutsAlone' /\ TabKnows'
    BY <1>0, <2>1, TabsStay DEF Bank!Active
  <2> QED BY <1>0, <2>1, <2>2, RowsRest DEF BankInv
<1>8. ASSUME NEW t \in Template, NEW w \in What, Bank!StartJob(t, w) \/ Bank!JobFails(t, w)
      PROVE  BankInv'
  <2>1. UNCHANGED <<tpl, script, tab>> /\ Bank!Active(t, w)
    BY <1>8 DEF Bank!StartJob, Bank!JobFails, Bank!Active
  <2>2. \E j \in Bank!Job : job' = [job EXCEPT ![t][w] = j] /\ (j.st = "running" => j.kind = tpl[t].kind)
    <3>1. CASE Bank!StartJob(t, w)
      <4>1. tpl[t].kind \in Bank!SCHEME_KINDS
        BY <1>r DEF Bank!Row
      <4> DEFINE j == [st |-> IF Bank!Starts(t, w) THEN "running" ELSE "failed", kind |-> tpl[t].kind]
      <4>2. j \in Bank!Job /\ j.kind = tpl[t].kind
        BY <4>1 DEF Bank!Job
      <4>3. Bank!Sets(t, w, j)
        BY <3>1 DEF Bank!StartJob
      <4> HIDE DEF j
      <4> QED BY <4>2, <4>3 DEF Bank!Sets
    <3>2. CASE Bank!JobFails(t, w)
      <4>1. \A s \in {"queued", "failed"} : [Bank!NoJob EXCEPT !.st = s] \in Bank!Job /\ [Bank!NoJob EXCEPT !.st = s].st = s
        BY UnusedFits DEF Bank!Job
      <4> QED BY <3>2, <4>1 DEF Bank!JobFails, Bank!Sets
    <3> QED BY <1>8, <3>1, <3>2
  <2>3. \A u \in Template, v \in What :
            \/ job'[u][v] = job[u][v]
            \/ u = t /\ v = w /\ (job'[u][v].st = "running" => job'[u][v].kind = tpl[t].kind)
    BY <2>2, JobMoves
  <2>4. PutsFit' /\ PutsAlone' /\ TabKnows'
    BY <1>0, <2>1, <2>3, TabsStay DEF Bank!Active
  <2>5. JobsFit'
    BY <1>0, <2>1, <2>3 DEF JobsFit, Bank!Active, Bank!Live
  <2>6. Bank!TypesAgree'
    BY <1>0, <2>1 DEF Bank!TypesAgree, Bank!RowsFitKind, Bank!MarkedAsUploaded, Bank!Live
  <2> QED BY <2>4, <2>5, <2>6 DEF BankInv
<1>9. ASSUME NEW t \in Template, NEW w \in What, Bank!EndJob(t, w)
      PROVE  BankInv'
  <2>1. UNCHANGED <<script, tab>> /\ job[t][w].st = "running"
    BY <1>9 DEF Bank!EndJob
  <2>2. \E j \in Bank!Job : job' = [job EXCEPT ![t][w] = j] /\ j.st = "done"
    <3>1. [Bank!NoJob EXCEPT !.st = "done"] \in Bank!Job /\ [Bank!NoJob EXCEPT !.st = "done"].st = "done"
      BY UnusedFits DEF Bank!Job
    <3> QED BY <1>9, <3>1 DEF Bank!EndJob, Bank!Sets
  <2>3. \A u \in Template, v \in What : job'[u][v] = job[u][v] \/ (u = t /\ v = w /\ job'[u][v].st = "done")
    BY <2>2, JobMoves
  <2>4. \A u \in Template : /\ tpl'[u].row = tpl[u].row /\ tpl'[u].kind = tpl[u].kind
                            /\ tpl'[u].scheme = tpl[u].scheme \/ (u = t /\ Bank!Live(t) /\ tpl'[u].scheme.as = job[t][w].kind)
    <3> DEFINE r == [as |-> job[t][w].kind, at |-> reads + 1]
    <3>1. \/ tpl' = tpl
          \/ tpl' = [tpl EXCEPT ![t] = [tpl[t] EXCEPT !.questions = reads + 1]]
          \/ tpl' = [tpl EXCEPT ![t] = [tpl[t] EXCEPT !.scheme = r]] /\ Bank!Live(t)
      BY <1>9 DEF Bank!EndJob
    <3>2. tpl[t] \in Bank!Row /\ r.as = job[t][w].kind
      BY <1>r
    <3> HIDE DEF r
    <3>3. LET q == [tpl[t] EXCEPT !.questions = reads + 1] IN q.row = tpl[t].row /\ q.kind = tpl[t].kind /\ q.scheme = tpl[t].scheme
      BY <3>2 DEF Bank!Row
    <3>4. LET q == [tpl[t] EXCEPT !.scheme = r] IN q.row = tpl[t].row /\ q.kind = tpl[t].kind /\ q.scheme = r
      BY <3>2 DEF Bank!Row
    <3> QED BY <1>r, <3>1, <3>2, <3>3, <3>4
  <2>5. PutsFit' /\ PutsAlone' /\ TabKnows'
    BY <1>0, <2>1, <2>3, TabsStay DEF Bank!Active
  <2>6. JobsFit'
    BY <1>0, <2>1, <2>3, <2>4 DEF JobsFit, Bank!Active, Bank!Live
  <2>7. Bank!Live(t) => job[t][w].kind = tpl[t].kind
    BY <1>0, <2>1 DEF JobsFit
  <2>8. Bank!TypesAgree'
    BY <1>0, <2>1, <2>4, <2>7 DEF Bank!TypesAgree, Bank!RowsFitKind, Bank!MarkedAsUploaded, Bank!Live
  <2> QED BY <2>5, <2>6, <2>8 DEF BankInv
<1>10. ASSUME NEW t \in Template, \/ \E u \in Template : Bank!Duplicate(u, t)
                                  \/ Bank!Import(t) \/ Bank!Delete(t)
       PROVE  BankInv'
  <2>1. UNCHANGED <<job, script, tab>>
    BY <1>10 DEF Bank!Duplicate, Bank!Import, Bank!Delete
  <2>2. \E r \in Bank!Row : /\ tpl' = [tpl EXCEPT ![t] = r] /\ r.row # "unused"
                            /\ r.row = "live" => r.scheme.as \in {"none", r.kind} /\ tpl[t].row = "unused"
    <3>1. ASSUME NEW u \in Template, Bank!Duplicate(u, t)
          PROVE  \E r \in Bank!Row : /\ tpl' = [tpl EXCEPT ![t] = r] /\ r.row # "unused"
                                     /\ r.row = "live" => r.scheme.as \in {"none", r.kind} /\ tpl[t].row = "unused"
      BY <1>0, <1>r, <3>1 DEF Bank!Duplicate, Bank!Live, Bank!RowsFitKind
    <3>2. ASSUME Bank!Import(t)
          PROVE  \E r \in Bank!Row : /\ tpl' = [tpl EXCEPT ![t] = r] /\ r.row # "unused"
                                     /\ r.row = "live" => r.scheme.as \in {"none", r.kind} /\ tpl[t].row = "unused"
      <4>1. PICK k \in Bank!SCHEME_KINDS, as \in {"none"} \cup Bank!SCHEME_KINDS :
                /\ as \in {"none", k} \ {"criteria"}
                /\ tpl' = [tpl EXCEPT ![t] = [Bank!Unused EXCEPT !.row = "live", !.kind = k, !.scheme.as = as]]
        BY <3>2 DEF Bank!Import
      <4> DEFINE r == [Bank!Unused EXCEPT !.row = "live", !.kind = k, !.scheme.as = as]
      <4>2. r \in Bank!Row /\ r.row = "live" /\ r.kind = k /\ r.scheme.as = as
        BY UnusedFits DEF Bank!Row, Bank!Rows
      <4> QED BY <3>2, <4>1, <4>2 DEF Bank!Import
    <3>3. ASSUME Bank!Delete(t)
          PROVE  \E r \in Bank!Row : /\ tpl' = [tpl EXCEPT ![t] = r] /\ r.row # "unused"
                                     /\ r.row = "live" => r.scheme.as \in {"none", r.kind} /\ tpl[t].row = "unused"
      <4>1. [Bank!Unused EXCEPT !.row = "deleted"] \in Bank!Row /\ [Bank!Unused EXCEPT !.row = "deleted"].row = "deleted"
        BY UnusedFits DEF Bank!Row
      <4> QED BY <3>3, <4>1 DEF Bank!Delete
    <3> QED BY <1>10, <3>1, <3>2, <3>3
  <2>3. PutsFit' /\ PutsAlone' /\ TabKnows'
    BY <1>0, <2>1, TabsStay DEF Bank!Active
  <2>4. tpl[t].row = "unused" => \A w \in What : ~Bank!Active(t, w)
    BY <1>0 DEF JobsFit
  <2>5. JobsFit' /\ Bank!TypesAgree'
    BY <1>0, <2>1, <2>2, <2>4, RowsWritten
  <2> QED BY <2>3, <2>5 DEF BankInv
<1>11. ASSUME NEW s \in Script, \/ \E t \in Template : Bank!Upload(s, t)
                                \/ Bank!Retry(s) \/ Bank!Mark(s)
       PROVE  BankInv'
  <2>1. UNCHANGED <<tpl, job, tab>>
    BY <1>11 DEF Bank!Upload, Bank!Retry, Bank!Mark
  <2>2. script[s] \in Bank!Run /\ script \in [Script -> Bank!Run]
    BY DEF BankTypes
  <2>3. \E r : /\ script' = [script EXCEPT ![s] = r]
               /\ r.st = "marked" => r.by = r.kind /\ (r.kind # "criteria" => r.as \in {"none", r.kind})
    <3>1. ASSUME NEW t \in Template, Bank!Upload(s, t)
          PROVE  \E r : script' = [script EXCEPT ![s] = r] /\ r.st = "uploaded"
      <4>1. [Bank!NoRun EXCEPT !.st = "uploaded", !.t = t, !.kind = tpl[t].kind].st = "uploaded"
        BY UnusedFits DEF Bank!Run
      <4> QED BY <3>1, <4>1 DEF Bank!Upload
    <3>2. ASSUME Bank!Retry(s)
          PROVE  \E r : script' = [script EXCEPT ![s] = r] /\ r.st = "uploaded"
      <4>1. [script[s] EXCEPT !.st = "uploaded"].st = "uploaded"
        BY <2>2 DEF Bank!Run
      <4>2. script' = [script EXCEPT ![s] = [script[s] EXCEPT !.st = "uploaded"]]
        BY <3>2 DEF Bank!Retry
      <4> QED BY <4>1, <4>2
    <3>3. ASSUME Bank!Mark(s)
          PROVE  \E r : /\ script' = [script EXCEPT ![s] = r]
                        /\ r.st = "marked" => r.by = r.kind /\ (r.kind # "criteria" => r.as \in {"none", r.kind})
      <4> DEFINE t == script[s].t
                 f == [script[s] EXCEPT !.st = "failed"]
                 m == [script[s] EXCEPT !.st = "marked", !.by = tpl[t].kind, !.as = tpl[t].scheme.as]
      <4>1. f.st = "failed"
        BY <2>2 DEF Bank!Run
      <4>2. m.by = tpl[t].kind /\ m.kind = script[s].kind /\ m.as = tpl[t].scheme.as
        BY <2>2 DEF Bank!Run
      <4>3. \/ script' = [script EXCEPT ![s] = f]
            \/ /\ script' = [script EXCEPT ![s] = m] /\ tpl[t].kind = script[s].kind
               /\ tpl[t].kind # "criteria" => tpl[t].scheme.as \in {"none", tpl[t].kind}
        BY <3>3 DEF Bank!Mark, Bank!Refused
      <4> HIDE DEF f, m
      <4> QED BY <4>1, <4>2, <4>3
    <3> QED BY <1>11, <3>1, <3>2, <3>3
  <2>4. Bank!MarkedAsUploaded'
    BY <1>0, <2>2, <2>3 DEF Bank!MarkedAsUploaded
  <2>5. PutsFit' /\ PutsAlone' /\ TabKnows'
    BY <1>0, <2>1, TabsStay DEF Bank!Active
  <2>6. JobsFit' /\ Bank!RowsFitKind'
    BY <1>0, <2>1 DEF JobsFit, Bank!Active, Bank!Live, Bank!RowsFitKind
  <2> QED BY <2>4, <2>5, <2>6 DEF BankInv, Bank!TypesAgree
<1> QED
  BY <1>1, <1>2, <1>3, <1>4, <1>5, <1>6, <1>7, <1>8, <1>9, <1>10, <1>11 DEF Bank!BankNext, What

\* The bank starts with unused templates, closed tabs and no scripts.
LEMMA BankStarts ==
    ASSUME Bank!BankInit
    PROVE  BankTypes /\ BankInv
<1>0. /\ tpl = [t \in Template |-> Bank!Unused] /\ job = [t \in Template |-> [w \in What |-> Bank!NoJob]]
      /\ tab = [b \in Tab |-> Bank!Closed] /\ script = [s \in Script |-> Bank!NoRun]
  BY DEF Bank!BankInit, What
<1>n. Bank!NoJob.st = "none" /\ Bank!NoRun.st = "none"
  BY DEF Bank!NoJob, Bank!NoRun
<1>1. BankTypes
  <2>1. MaxReads \in Nat /\ MaxMishaps \in Nat
    BY BankConstants DEF Bank!BankAssumption
  <2>2. /\ tpl \in [Template -> Bank!Row] /\ job \in [Template -> [What -> Bank!Job]]
        /\ tab \in [Tab -> Editors] /\ script \in [Script -> Bank!Run]
    BY <1>0, UnusedFits, ClosedFits
  <2>3. \A b \in Tab : TabFits(tab[b])
    BY <1>0, ClosedFits
  <2>4. pages \in [Template -> SUBSET What] /\ asked \in [Template -> KeepSets] /\ reads = 0 /\ mishaps = 0
    BY DEF Bank!BankInit, KeepSets
  <2>5. \A s \in Script : script[s].st = "none"
    BY <1>0, <1>n
  <2> QED BY <2>1, <2>2, <2>3, <2>4, <2>5 DEF BankTypes
<1>2. \A b \in Tab : tab[b].pc = "idle" /\ tab[b].put = {}
  BY <1>0, ClosedFits
<1>3. PutsFit /\ PutsAlone /\ TabKnows
  BY <1>2 DEF PutsFit, PutsAlone, TabKnows
<1>4. JobsFit
  <2>1. \A t \in Template, w \in What : job[t][w].st = "none"
    BY <1>0, <1>n
  <2> QED BY <2>1 DEF JobsFit, Bank!Active
<1>5. Bank!TypesAgree
  <2>1. \A t \in Template : tpl[t].row = "unused"
    BY <1>0, UnusedFits
  <2>2. \A s \in Script : script[s].st = "none"
    BY <1>0, <1>n
  <2> QED BY <2>1, <2>2 DEF Bank!TypesAgree, Bank!RowsFitKind, Bank!MarkedAsUploaded, Bank!Live
<1> QED BY <1>1, <1>3, <1>4, <1>5 DEF BankInv

\* What the type invariant of the bank says follows.
LEMMA BankTypesSay ==
    ASSUME BankTypes
    PROVE  Bank!BankTypeOK
<1>1. ASSUME NEW b \in Tab
      PROVE  tab[b] \in Bank!Editor /\ \A f, g \in tab[b].put : f = g
  BY DEF BankTypes, TabFits, Editors
<1> QED BY <1>1 DEF BankTypes, Bank!BankTypeOK, What, KeepSets

-----------------------------------------------------------------------------
(* The nightly reflection *)

\* The job has one row at most that it knows of, and has opened no other.
ReflectTypes ==
    /\ Reflect!ReflectTypeOK
    /\ opened <= 1
    /\ reflectJob.st # "none" /\ row = {} => opened = 0

\* Ages stay ages.
LEMMA OlderFits ==
    ASSUME NEW a \in Reflect!Ages
    PROVE  Reflect!Older(a) \in Reflect!Ages
<1>1. REFLECT_LOOKBACK \in Nat
  BY ReflectConstants DEF Reflect!ReflectionAssumption
<1> QED BY <1>1 DEF Reflect!Ages, Reflect!Older

\* The types of the reflection hold through every step of it, and a job opens one row.
LEMMA ReflectTypesStep ==
    ASSUME ReflectTypes, Reflect!ReflectNext
    PROVE  ReflectTypes'
<1> DEFINE JobType == [st : Reflect!Steps, back : Reflect!Ages, waits : 0 .. MaxWait, attempts : 0 .. MAX_ATTEMPTS,
                       read : SUBSET Reflect!Correction]
           CorrType == [made : BOOLEAN, age : Reflect!Ages, late : BOOLEAN, read : BOOLEAN]
           RowType == [age : Reflect!Ages, error : BOOLEAN]
<1>0. /\ corr \in [Reflect!Correction -> CorrType] /\ clean \subseteq Reflect!Ages /\ reflectJob \in JobType
      /\ row \subseteq RowType /\ checked \in BOOLEAN /\ opened \in Nat
      /\ askedRuns \in 0 .. MaxAsked /\ reflectMishaps \in 0 .. MaxMishaps
      /\ opened <= 1 /\ (reflectJob.st # "none" /\ row = {} => opened = 0)
  BY DEF ReflectTypes, Reflect!ReflectTypeOK
<1>n. /\ REFLECT_LOOKBACK \in Nat /\ MaxWait \in Nat /\ MAX_ATTEMPTS \in Nat /\ MaxAsked \in Nat /\ MaxMishaps \in Nat
      /\ AskedLookbacks \subseteq Reflect!Ages /\ 0 \in Reflect!Ages /\ REFLECT_LOOKBACK \in Reflect!Ages
  BY ReflectConstants DEF Reflect!ReflectionAssumption, Reflect!Ages
<1>m. reflectMishaps' = reflectMishaps \/ (reflectMishaps < MaxMishaps /\ reflectMishaps' = reflectMishaps + 1)
      => reflectMishaps' \in 0 .. MaxMishaps
  BY <1>0, <1>n
<1> DEFINE Fits == /\ corr' \in [Reflect!Correction -> CorrType] /\ clean' \subseteq Reflect!Ages /\ reflectJob' \in JobType
                   /\ row' \subseteq RowType
<1>f. /\ Fits /\ checked' \in BOOLEAN /\ opened' \in Nat
      /\ askedRuns' \in 0 .. MaxAsked /\ reflectMishaps' \in 0 .. MaxMishaps
      /\ opened' <= 1 /\ (reflectJob'.st # "none" /\ row' = {} => opened' = 0)
      => ReflectTypes'
  BY DEF ReflectTypes, Reflect!ReflectTypeOK
<1>j. Reflect!NoJob \in JobType /\ Reflect!NoJob.st = "none"
  BY <1>n DEF Reflect!NoJob, Reflect!Steps
<1>e. ASSUME NEW l \in Reflect!Ages, Reflect!Enqueue(l)
      PROVE  reflectJob' \in JobType /\ row' = {} /\ opened' = 0
  BY <1>j, <1>e DEF Reflect!Enqueue, Reflect!Steps
<1>s. ASSUME NEW step \in Reflect!Steps, Reflect!At(step)
      PROVE  reflectJob' \in JobType /\ reflectJob'.st = step
  BY <1>0, <1>s DEF Reflect!At
<1>g. {r.age : r \in row} \subseteq Reflect!Ages
  BY <1>0
<1>1. ASSUME NEW c \in Reflect!Correction, Reflect!Correct(c)
      PROVE  ReflectTypes'
  <2> DEFINE late == \E a \in Reflect!Errorless : a <= Slack
  <2>1. late \in BOOLEAN
    OBVIOUS
  <2>2. corr' = [corr EXCEPT ![c] = [made |-> TRUE, age |-> 0, late |-> late, read |-> FALSE]]
        /\ UNCHANGED <<clean, reflectJob, row, checked, opened, askedRuns, reflectMishaps>>
    BY <1>1 DEF Reflect!Correct
  <2> HIDE DEF late
  <2>3. corr' \in [Reflect!Correction -> CorrType]
    BY <1>0, <1>n, <2>1, <2>2
  <2> HIDE DEF CorrType
  <2> QED BY <1>0, <1>f, <2>2, <2>3
<1>2. ASSUME Reflect!Pass
      PROVE  ReflectTypes'
  <2>1. \A a \in Reflect!Ages : Reflect!Older(a) \in Reflect!Ages
    BY OlderFits
  <2>2. corr' \in [Reflect!Correction -> CorrType]
    <3>1. ASSUME NEW c \in Reflect!Correction
          PROVE  [corr[c] EXCEPT !.age = IF corr[c].made THEN Reflect!Older(corr[c].age) ELSE corr[c].age] \in CorrType
      <4>1. corr[c] \in CorrType
        BY <1>0
      <4>2. (IF corr[c].made THEN Reflect!Older(corr[c].age) ELSE corr[c].age) \in Reflect!Ages
        BY <2>1, <4>1
      <4> QED BY <4>1, <4>2
    <3>2. corr' = [c \in Reflect!Correction |->
                      [corr[c] EXCEPT !.age = IF corr[c].made THEN Reflect!Older(corr[c].age) ELSE corr[c].age]]
      BY <1>2 DEF Reflect!Pass
    <3> HIDE DEF CorrType
    <3> QED BY <3>1, <3>2
  <2>3. clean' \subseteq Reflect!Ages
    BY <1>0, <1>2, <2>1 DEF Reflect!Pass
  <2>4. row' \subseteq RowType /\ (row' = {} => row = {})
    <3>1. ASSUME NEW r \in row
          PROVE  [r EXCEPT !.age = Reflect!Older(r.age)] \in RowType
      BY <1>0, <2>1
    <3>2. row' = {[r EXCEPT !.age = Reflect!Older(r.age)] : r \in row}
      BY <1>2 DEF Reflect!Pass
    <3> HIDE DEF RowType
    <3> QED BY <3>1, <3>2
  <2>5. reflectJob' \in JobType /\ reflectJob'.st = reflectJob.st
    <3> DEFINE w == IF reflectJob.st = "none" THEN 0 ELSE reflectJob.waits + 1
    <3>1. w \in 0 .. MaxWait
      <4>1. reflectJob.waits \in 0 .. MaxWait /\ (reflectJob.st # "none" => reflectJob.waits < MaxWait)
        BY <1>0, <1>2 DEF Reflect!Pass
      <4> QED BY <1>n, <4>1
    <3>2. reflectJob' = [reflectJob EXCEPT !.waits = w]
      BY <1>2 DEF Reflect!Pass
    <3> HIDE DEF w
    <3> QED BY <1>0, <3>1, <3>2
  <2>6. checked' = FALSE /\ UNCHANGED <<opened, askedRuns, reflectMishaps>>
    BY <1>2 DEF Reflect!Pass
  <2> QED BY <1>0, <1>f, <2>2, <2>3, <2>4, <2>5, <2>6
<1>3. ASSUME Reflect!Schedule
      PROVE  ReflectTypes'
  <2>1. UNCHANGED <<corr, clean, askedRuns, reflectMishaps>> /\ checked' = TRUE
    BY <1>3 DEF Reflect!Schedule
  <2>2. UNCHANGED <<reflectJob, row, opened>> \/ Reflect!Enqueue(REFLECT_LOOKBACK)
    BY <1>3 DEF Reflect!Schedule
  <2>3. CASE Reflect!Enqueue(REFLECT_LOOKBACK)
    BY <1>0, <1>n, <1>e, <1>f, <2>1, <2>3
  <2>4. CASE UNCHANGED <<reflectJob, row, opened>>
    BY <1>0, <1>f, <2>1, <2>4
  <2> QED BY <2>2, <2>3, <2>4
<1>4. ASSUME NEW l \in AskedLookbacks, Reflect!Ask(l)
      PROVE  ReflectTypes'
  <2>1. UNCHANGED <<corr, clean, checked, reflectMishaps>> /\ askedRuns < MaxAsked /\ askedRuns' = askedRuns + 1
        /\ Reflect!Enqueue(l)
    BY <1>4 DEF Reflect!Ask
  <2>2. askedRuns' \in 0 .. MaxAsked
    BY <1>0, <1>n, <2>1
  <2>3. reflectJob' \in JobType /\ row' = {} /\ opened' = 0
    BY <1>n, <1>e, <2>1
  <2> QED BY <1>0, <1>f, <2>1, <2>2, <2>3
<1>5. ASSUME Reflect!Claim
      PROVE  ReflectTypes'
  <2>1. UNCHANGED <<corr, clean, row, checked, opened, askedRuns, reflectMishaps>>
    BY <1>5 DEF Reflect!Claim
  <2>2. reflectJob' \in JobType /\ reflectJob.st = "queued"
    <3> DEFINE n == IF reflectJob.attempts < MAX_ATTEMPTS THEN reflectJob.attempts + 1 ELSE reflectJob.attempts
    <3>1. n \in 0 .. MAX_ATTEMPTS
      <4>1. reflectJob.attempts \in 0 .. MAX_ATTEMPTS
        BY <1>0
      <4> QED BY <1>n, <4>1
    <3>2. reflectJob' = [reflectJob EXCEPT !.st = "claimed", !.attempts = n] /\ reflectJob.st = "queued"
      BY <1>5 DEF Reflect!Claim
    <3> HIDE DEF n
    <3> QED BY <1>0, <3>1, <3>2 DEF Reflect!Steps
  <2> QED BY <1>0, <1>f, <2>1, <2>2
<1>6. ASSUME Reflect!Open
      PROVE  ReflectTypes'
  <2>1. UNCHANGED <<corr, clean, checked, askedRuns, reflectMishaps>> /\ reflectJob.st # "none"
    BY <1>6 DEF Reflect!Open
  <2>2. CASE row = {}
    <3>1. row' = {[age |-> 0, error |-> FALSE]} /\ opened' = opened + 1 /\ Reflect!At("opened") /\ opened = 0
      BY <1>0, <1>6, <2>1, <2>2 DEF Reflect!Open
    <3>2. reflectJob' \in JobType /\ row' \subseteq RowType
      BY <1>n, <1>s, <3>1 DEF Reflect!Steps
    <3>3. row' # {} /\ opened' = 1
      BY <3>1
    <3> HIDE DEF CorrType, RowType, JobType
    <3> QED BY <1>0, <1>f, <2>1, <3>2, <3>3
  <2>3. CASE row # {}
    <3>1. row' = {[r EXCEPT !.error = FALSE] : r \in row} /\ Reflect!At("saved") /\ UNCHANGED opened
      BY <1>6, <2>3 DEF Reflect!Open
    <3>2. reflectJob' \in JobType
      BY <1>s, <3>1 DEF Reflect!Steps
    <3>3. row' \subseteq RowType /\ row' # {}
      <4>1. \A r \in row : [r EXCEPT !.error = FALSE] \in RowType
        BY <1>0
      <4> HIDE DEF RowType
      <4> QED BY <2>3, <3>1, <4>1
    <3> QED BY <1>0, <1>f, <2>1, <3>1, <3>2, <3>3
  <2> QED BY <2>2, <2>3
<1>7. ASSUME Reflect!Remember \/ Reflect!ReadCorrections \/ Reflect!WriteNotes
      PROVE  ReflectTypes'
  <2>1. UNCHANGED <<corr, clean, row, checked, opened, askedRuns, reflectMishaps>> /\ reflectJob.st # "none"
    BY <1>7 DEF Reflect!Remember, Reflect!ReadCorrections, Reflect!WriteNotes
  <2>2. reflectJob' \in JobType
    <3>1. Reflect!Remember \/ Reflect!WriteNotes => reflectJob' \in JobType
      BY <1>s DEF Reflect!Remember, Reflect!WriteNotes, Reflect!Steps
    <3>2. ASSUME Reflect!ReadCorrections
          PROVE  reflectJob' \in JobType
      <4> DEFINE seen == {c \in Reflect!Correction : Reflect!Made(c, reflectJob.back)}
      <4>1. \E step \in Reflect!Steps : reflectJob' = [reflectJob EXCEPT !.st = step, !.read = seen]
        BY <3>2 DEF Reflect!ReadCorrections, Reflect!Steps
      <4>2. seen \subseteq Reflect!Correction
        OBVIOUS
      <4> HIDE DEF seen
      <4> QED BY <1>0, <4>1, <4>2
    <3> QED BY <1>7, <3>1, <3>2
  <2> QED BY <1>0, <1>f, <2>1, <2>2
<1>8. ASSUME NEW errors \in BOOLEAN, Reflect!Ends(errors)
      PROVE  reflectJob' \in JobType /\ reflectJob'.st = "none" /\ row' = {} /\ clean' \subseteq Reflect!Ages
  BY <1>0, <1>8, <1>j DEF Reflect!Ends
<1>9. ASSUME Reflect!Finish
      PROVE  ReflectTypes'
  <2>1. UNCHANGED <<checked, opened, askedRuns, reflectMishaps>> /\ Reflect!Ends(FALSE)
    BY <1>9 DEF Reflect!Finish
  <2>2. corr' \in [Reflect!Correction -> CorrType]
    <3>1. ASSUME NEW c \in Reflect!Correction
          PROVE  [corr[c] EXCEPT !.read = corr[c].read \/ c \in reflectJob.read] \in CorrType
      <4>1. corr[c] \in CorrType
        BY <1>0
      <4>2. (corr[c].read \/ c \in reflectJob.read) \in BOOLEAN
        OBVIOUS
      <4> QED BY <4>1, <4>2
    <3>2. corr' = [c \in Reflect!Correction |-> [corr[c] EXCEPT !.read = corr[c].read \/ c \in reflectJob.read]]
      BY <1>9 DEF Reflect!Finish
    <3> HIDE DEF CorrType
    <3> QED BY <3>1, <3>2
  <2> QED BY <1>0, <1>8, <1>f, <2>1, <2>2
<1>10. ASSUME Reflect!Fail
       PROVE  ReflectTypes'
  <2>1. UNCHANGED <<corr, checked, opened, askedRuns>> /\ reflectMishaps' \in 0 .. MaxMishaps /\ reflectJob.st # "none"
    BY <1>10, <1>m DEF Reflect!Fail
  <2>2. CASE Reflect!Ends(TRUE)
    BY <1>0, <1>8, <1>f, <2>1, <2>2
  <2>3. CASE Reflect!At("queued") /\ row' = {[r EXCEPT !.error = TRUE] : r \in row} /\ UNCHANGED clean
    <3>1. reflectJob' \in JobType
      BY <1>s, <2>3 DEF Reflect!Steps
    <3>2. row' \subseteq RowType /\ (row' = {} => row = {})
      <4>1. \A r \in row : [r EXCEPT !.error = TRUE] \in RowType
        BY <1>0
      <4> HIDE DEF RowType
      <4> QED BY <2>3, <4>1
    <3> QED BY <1>0, <1>f, <2>1, <2>3, <3>1, <3>2
  <2> QED BY <1>10, <2>2, <2>3 DEF Reflect!Fail
<1>11. ASSUME Reflect!Crash
       PROVE  ReflectTypes'
  <2>1. /\ UNCHANGED <<corr, checked, askedRuns>> /\ reflectMishaps' \in 0 .. MaxMishaps /\ reflectJob.st # "none"
        /\ Reflect!At("queued")
    BY <1>11, <1>m DEF Reflect!Crash
  <2>2. reflectJob' \in JobType
    BY <1>s, <2>1 DEF Reflect!Steps
  <2>3. \/ row' = {} /\ opened' = 0 /\ clean' = clean \cup {r.age : r \in row}
        \/ UNCHANGED <<row, opened, clean>>
    BY <1>11 DEF Reflect!Crash
  <2> QED BY <1>0, <1>f, <1>g, <2>1, <2>2, <2>3
<1> QED
  BY <1>1, <1>2, <1>3, <1>4, <1>5, <1>6, <1>7, <1>9, <1>10, <1>11 DEF Reflect!ReflectNext, Reflect!Works

\* Nothing has been made or asked for at the start.
LEMMA ReflectStarts ==
    ASSUME Reflect!ReflectInit
    PROVE  ReflectTypes
<1>1. /\ MaxWait \in Nat /\ MAX_ATTEMPTS \in Nat /\ MaxAsked \in Nat /\ MaxMishaps \in Nat /\ 0 \in Reflect!Ages
  BY ReflectConstants DEF Reflect!ReflectionAssumption, Reflect!Ages
<1>2. Reflect!ReflectTypeOK
  <2>1. corr \in [Reflect!Correction -> [made : BOOLEAN, age : Reflect!Ages, late : BOOLEAN, read : BOOLEAN]]
    <3>1. [made |-> FALSE, age |-> 0, late |-> FALSE, read |-> FALSE]
            \in [made : BOOLEAN, age : Reflect!Ages, late : BOOLEAN, read : BOOLEAN]
      BY <1>1
    <3>2. corr = [c \in Reflect!Correction |-> [made |-> FALSE, age |-> 0, late |-> FALSE, read |-> FALSE]]
      BY DEF Reflect!ReflectInit
    <3> QED BY <3>1, <3>2
  <2>2. reflectJob \in [st : Reflect!Steps, back : Reflect!Ages, waits : 0 .. MaxWait,
                        attempts : 0 .. MAX_ATTEMPTS, read : SUBSET Reflect!Correction]
    <3>1. reflectJob = [st |-> "none", back |-> 0, waits |-> 0, attempts |-> 0, read |-> {}]
      BY DEF Reflect!ReflectInit, Reflect!NoJob
    <3>2. "none" \in Reflect!Steps /\ 0 \in 0 .. MaxWait /\ 0 \in 0 .. MAX_ATTEMPTS
          /\ {} \in SUBSET Reflect!Correction
      BY <1>1 DEF Reflect!Steps
    <3> QED BY <1>1, <3>1, <3>2
  <2>3. clean = {} /\ row = {} /\ checked = FALSE /\ opened = 0 /\ askedRuns = 0 /\ reflectMishaps = 0
    BY DEF Reflect!ReflectInit
  <2>4. 0 \in 0 .. MaxAsked /\ 0 \in 0 .. MaxMishaps
    BY <1>1
  <2> QED BY <2>1, <2>2, <2>3, <2>4 DEF Reflect!ReflectTypeOK
<1>3. opened = 0
  BY DEF Reflect!ReflectInit
<1> QED BY <1>2, <1>3 DEF ReflectTypes

-----------------------------------------------------------------------------
(* The calls to a provider *)

Stamps   == 0 .. Window
WindowOf == [rpm : Limits, stamps : Seq(Stamps)]
Events   == [what : {"call", "end"}, rpm : Limits, age : 0 .. Window - 1]

\* The parts of an event.
LEMMA EventFields ==
    ASSUME NEW x \in Events
    PROVE  x.rpm \in Nat /\ x.rpm \in Int /\ x.age \in Nat /\ x.age < Window /\ x.what \in {"call", "end"}
<1>1. Limits \subseteq Nat /\ Window \in Nat
  BY CallConstants DEF Call!CallAssumption
<1>2. x.rpm \in Limits /\ x.age \in 0 .. Window - 1 /\ x.what \in {"call", "end"}
  BY DEF Events
<1>3. x.rpm \in Nat
  BY <1>1, <1>2
<1>4. x.age \in Nat /\ x.age < Window
  BY <1>1, <1>2
<1> QED BY <1>2, <1>3, <1>4

\* A list from the first of some of its places on is the list without as many as come before it.
LEMMA FromFirstDrops ==
    ASSUME NEW S, NEW s \in Seq(S), NEW K \in SUBSET DOMAIN s
    PROVE  \E e \in 0 .. Len(s) :
              /\ Call!FromFirst(s, K) \in Seq(S) /\ Len(Call!FromFirst(s, K)) = Len(s) - e
              /\ \A i \in 1 .. Len(s) - e : Call!FromFirst(s, K)[i] = s[e + i]
              /\ \A i \in 1 .. e : i \notin K
              /\ e < Len(s) => e + 1 \in K
<1>1. Len(s) \in Nat /\ DOMAIN s = 1 .. Len(s) /\ \A i \in 1 .. Len(s) : s[i] \in S
  OBVIOUS
<1>2. CASE K = {}
  <2>1. Call!FromFirst(s, K) = <<>>
    BY <1>2 DEF Call!FromFirst
  <2> DEFINE n == Len(s)
  <2>2. n \in 0 .. n /\ n - n = 0 /\ ~(n < n) /\ 1 .. n - n = {}
    BY <1>1
  <2>3. Len(<<>>) = 0 /\ <<>> \in Seq(S)
    OBVIOUS
  <2> HIDE DEF n
  <2>4. /\ Call!FromFirst(s, K) \in Seq(S) /\ Len(Call!FromFirst(s, K)) = n - n
        /\ \A i \in 1 .. n - n : Call!FromFirst(s, K)[i] = s[n + i]
        /\ \A i \in 1 .. n : i \notin K
        /\ n < n => n + 1 \in K
    BY <1>2, <2>1, <2>2, <2>3
  <2> QED BY <2>2, <2>4 DEF n
<1>3. CASE K # {}
  <2>1. K \in SUBSET Nat /\ K \in SUBSET (1 .. Len(s))
    BY <1>1
  <2> DEFINE m == Call!Min(K)
  <2>2. m \in K /\ \A k \in K : m <= k
    BY <1>3, <2>1, LeastNatural DEF Call!Min
  <2>3. Call!FromFirst(s, K) = SubSeq(s, m, Len(s))
    BY <1>3 DEF Call!FromFirst
  <2> HIDE DEF m
  <2>4. m \in 1 .. Len(s)
    BY <2>1, <2>2
  <2>5. /\ SubSeq(s, m, Len(s)) \in Seq(S)
        /\ Len(SubSeq(s, m, Len(s))) = IF m <= Len(s) THEN Len(s) - m + 1 ELSE 0
        /\ \A i \in 1 .. Len(s) - m + 1 : SubSeq(s, m, Len(s))[i] = s[m + i - 1]
    <3>1. \A i \in m .. Len(s) : s[i] \in S
      BY <1>1, <2>4
    <3>2. m \in Int /\ Len(s) \in Int
      BY <1>1, <2>4
    <3> QED BY <3>1, <3>2, SubSeqProperties
  <2>6. m - 1 \in 0 .. Len(s) /\ \A i \in 1 .. m - 1 : i \notin K
    BY <1>1, <2>1, <2>2, <2>4
  <2>7. \A i \in 1 .. Len(s) - (m - 1) : SubSeq(s, m, Len(s))[i] = s[(m - 1) + i]
    <3> TAKE i \in 1 .. Len(s) - (m - 1)
    <3>1. i \in 1 .. Len(s) - m + 1 /\ m + i - 1 = (m - 1) + i
      BY <1>1, <2>4
    <3> QED BY <2>5, <3>1
  <2>8. Len(SubSeq(s, m, Len(s))) = Len(s) - (m - 1) /\ (m - 1) + 1 = m
    BY <1>1, <2>4, <2>5
  <2> QED BY <2>2, <2>3, <2>5, <2>6, <2>7, <2>8
<1> QED BY <1>2, <1>3

\* Two finite sets that a function maps onto each other one to one have as many members.
LEMMA AsMany ==
    ASSUME NEW S, IsFiniteSet(S), NEW T, NEW f \in [S -> T],
           \A x, y \in S : f[x] = f[y] => x = y, \A y \in T : \E x \in S : f[x] = y
    PROVE  IsFiniteSet(T) /\ Cardinality(T) = Cardinality(S)
<1>1. f \in Bijection(S, T)
  BY DEF Bijection, Injection, IsInjective, Surjection
<1> QED BY <1>1, FS_Bijection DEF ExistsBijection

-----------------------------------------------------------------------------
(* The history of one provider *)

CallsIn(s, i)  == {j \in i .. Len(s) : s[j].what = "call"}
EndsIn(s, i)   == {j \in i .. Len(s) : s[j].what = "end"}
PlacesIn(s, i) == UNION {{j} \X (1 .. s[j].rpm) : j \in EndsIn(s, i)}
Younger(ages, a) == {j \in DOMAIN ages : ages[j] <= a}

InOrder(s) == \A i, j \in DOMAIN s : i <= j => s[j].age <= s[i].age

\* From any event on: the calls are no more than the windows that ended let through and the last window's stamps
\* that are no older, unless one of these windows has no limit.
Keeps(s, ages, free) ==
    \A i \in DOMAIN s :
        \/ free \/ \E j \in EndsIn(s, i) : s[j].rpm = 0
        \/ Cardinality(CallsIn(s, i)) <= Cardinality(PlacesIn(s, i)) + Cardinality(Younger(ages, s[i].age))

\* What is counted is finite.
LEMMA HistoryFinite ==
    ASSUME NEW s \in Seq(Events), NEW i \in Nat \ {0}
    PROVE  /\ IsFiniteSet(CallsIn(s, i)) /\ Cardinality(CallsIn(s, i)) \in Nat
           /\ IsFiniteSet(PlacesIn(s, i)) /\ Cardinality(PlacesIn(s, i)) \in Nat
<1>1. Limits \subseteq Nat /\ Len(s) \in Nat
  BY CallConstants DEF Call!CallAssumption
<1>2. IsFiniteSet(i .. Len(s))
  BY <1>1, FS_Interval
<1>3. IsFiniteSet(CallsIn(s, i)) /\ IsFiniteSet(EndsIn(s, i))
  BY <1>2, FS_Subset DEF CallsIn, EndsIn
<1> DEFINE F == {{j} \X (1 .. s[j].rpm) : j \in EndsIn(s, i)}
           f == [j \in EndsIn(s, i) |-> {j} \X (1 .. s[j].rpm)]
<1>4. IsFiniteSet(F)
  <2>1. f \in Surjection(EndsIn(s, i), F)
    BY DEF Surjection
  <2> HIDE DEF F, f
  <2> QED BY <1>3, <2>1, FS_Surjection
<1>5. \A T \in F : IsFiniteSet(T)
  <2> SUFFICES ASSUME NEW j \in EndsIn(s, i) PROVE IsFiniteSet({j} \X (1 .. s[j].rpm))
    OBVIOUS
  <2>1. s[j].rpm \in Int
    <3>1. j \in 1 .. Len(s)
      BY <1>1 DEF EndsIn
    <3>2. s[j] \in Events
      BY <3>1
    <3> HIDE DEF F, f
    <3> QED BY <3>2, EventFields
  <2>2. IsFiniteSet({j}) /\ IsFiniteSet(1 .. s[j].rpm)
    <3> HIDE DEF F, f
    <3>1. 1 \in Int
      OBVIOUS
    <3> QED BY <2>1, <3>1, FS_Singleton, FS_Interval
  <2> QED BY <2>2, FS_Product
<1> HIDE DEF F
<1>6. IsFiniteSet(UNION F)
  BY <1>4, <1>5, FS_UNION
<1> QED BY <1>3, <1>6, FS_CardinalityType DEF F, PlacesIn

\* Nor are there more stamps of some age than stamps.
LEMMA YoungerFinite ==
    ASSUME NEW ages \in Seq(Stamps), NEW a
    PROVE  /\ IsFiniteSet(Younger(ages, a)) /\ Cardinality(Younger(ages, a)) \in Nat
           /\ Cardinality(Younger(ages, a)) <= Len(ages)
<1>1. Len(ages) \in Nat /\ DOMAIN ages = 1 .. Len(ages)
  OBVIOUS
<1>2. IsFiniteSet(1 .. Len(ages)) /\ Cardinality(1 .. Len(ages)) = Len(ages)
  BY <1>1, FS_Interval
<1>3. Younger(ages, a) \in SUBSET (1 .. Len(ages))
  BY <1>1 DEF Younger
<1> QED BY <1>2, <1>3, FS_Subset, FS_CardinalityType

\* A list and one more event.
LEMMA OneMore ==
    ASSUME NEW S, NEW s \in Seq(S), NEW e \in S
    PROVE  /\ Append(s, e) \in Seq(S) /\ Len(s) \in Nat /\ Len(Append(s, e)) = Len(s) + 1
           /\ DOMAIN s = 1 .. Len(s) /\ DOMAIN Append(s, e) = 1 .. Len(s) + 1
           /\ Append(s, e)[Len(s) + 1] = e /\ \A j \in 1 .. Len(s) : Append(s, e)[j] = s[j]
OBVIOUS

\* The history stays in its order.
LEMMA OrderGrows ==
    ASSUME NEW s \in Seq(Events), InOrder(s), NEW e \in Events, e.age = 0
    PROVE  InOrder(Append(s, e))
<1> DEFINE t == Append(s, e)
<1>1. /\ DOMAIN t = 1 .. Len(s) + 1 /\ DOMAIN s = 1 .. Len(s) /\ Len(s) \in Nat
      /\ t[Len(s) + 1] = e /\ \A j \in 1 .. Len(s) : t[j] = s[j]
  BY OneMore
<1> HIDE DEF t
<1>2. SUFFICES ASSUME NEW i \in DOMAIN t, NEW j \in DOMAIN t, i <= j PROVE t[j].age <= t[i].age
  BY DEF InOrder, t
<1>3. CASE j = Len(s) + 1
  <2>1. t[j].age = 0
    BY <1>1, <1>3
  <2>2. t[i] \in Events
    BY <1>1
  <2>3. t[i].age \in Nat
    BY <2>2, EventFields
  <2> QED BY <2>1, <2>3
<1>4. CASE j # Len(s) + 1
  <2>1. i \in DOMAIN s /\ j \in DOMAIN s /\ t[i] = s[i] /\ t[j] = s[j]
    BY <1>1, <1>2, <1>4
  <2> QED BY <1>2, <2>1 DEF InOrder
<1> QED BY <1>3, <1>4

\* A call, with its stamp.
LEMMA CallKeeps ==
    ASSUME NEW s \in Seq(Events), NEW ages \in Seq(Stamps), NEW now \in Seq(Stamps), NEW free, Keeps(s, ages, free),
           NEW e \in Events, e.what = "call",
           \A a \in 0 .. Window - 1 : Cardinality(Younger(now, a)) = Cardinality(Younger(ages, a))
    PROVE  Keeps(Append(s, e), Append(now, 0), free)
<1> DEFINE t   == Append(s, e)
           n   == Len(s)
           new == Append(now, 0)
<1>1. /\ DOMAIN t = 1 .. n + 1 /\ DOMAIN s = 1 .. n /\ n \in Nat /\ Len(t) = n + 1 /\ t \in Seq(Events)
      /\ t[n + 1] = e /\ \A j \in 1 .. n : t[j] = s[j] /\ s[j] \in Events
  BY OneMore
<1>2. 0 \in Stamps
  BY CallConstants DEF Call!CallAssumption, Stamps
<1>3. /\ new \in Seq(Stamps) /\ Len(now) \in Nat /\ DOMAIN new = 1 .. Len(now) + 1 /\ DOMAIN now = 1 .. Len(now)
      /\ new[Len(now) + 1] = 0 /\ \A j \in 1 .. Len(now) : new[j] = now[j]
  BY <1>2, OneMore
<1> HIDE DEF t, new, n
<1>4. SUFFICES ASSUME NEW i \in DOMAIN t, ~free, \A j \in EndsIn(t, i) : t[j].rpm # 0
               PROVE  Cardinality(CallsIn(t, i)) <= Cardinality(PlacesIn(t, i)) + Cardinality(Younger(new, t[i].age))
  BY DEF Keeps, t, new
<1>5. i \in Nat \ {0} /\ i <= n + 1
  BY <1>1
<1>6. CallsIn(t, i) = CallsIn(s, i) \cup {n + 1} /\ n + 1 \notin CallsIn(s, i) /\ EndsIn(t, i) = EndsIn(s, i)
  <2>1. i .. n + 1 = (i .. n) \cup {n + 1} /\ n + 1 \notin i .. n
    BY <1>1, <1>5
  <2>2. \A j \in i .. n : t[j] = s[j]
    BY <1>1, <1>5
  <2>3. t[n + 1].what = "call"
    BY <1>1
  <2> HIDE DEF n
  <2> QED BY <1>1, <2>1, <2>2, <2>3 DEF CallsIn, EndsIn, n
<1>7. PlacesIn(t, i) = PlacesIn(s, i) /\ \A j \in EndsIn(s, i) : t[j] = s[j]
  <2>1. \A j \in EndsIn(s, i) : t[j] = s[j]
    BY <1>1, <1>5 DEF EndsIn, n
  <2> QED BY <1>6, <2>1 DEF PlacesIn
<1>8. Cardinality(CallsIn(t, i)) = Cardinality(CallsIn(s, i)) + 1 /\ Cardinality(CallsIn(s, i)) \in Nat
      /\ Cardinality(PlacesIn(s, i)) \in Nat
  BY <1>5, <1>6, HistoryFinite, FS_AddElement
<1>9. ASSUME NEW a \in Nat
      PROVE  Cardinality(Younger(new, a)) = Cardinality(Younger(now, a)) + 1 /\ Cardinality(Younger(now, a)) \in Nat
  <2>1. Younger(new, a) = Younger(now, a) \cup {Len(now) + 1} /\ Len(now) + 1 \notin Younger(now, a)
    BY <1>3 DEF Younger
  <2> QED BY <2>1, YoungerFinite, FS_AddElement
<1>10. CASE i = n + 1
  <2>1. CallsIn(s, i) = {}
    BY <1>1, <1>10 DEF CallsIn, n
  <2>2. t[i].age \in Nat
    BY <1>1, <1>10, EventFields
  <2>3. /\ Cardinality(Younger(new, t[i].age)) = Cardinality(Younger(now, t[i].age)) + 1
        /\ Cardinality(Younger(now, t[i].age)) \in Nat
    BY <1>9, <2>2
  <2>4. Cardinality(CallsIn(t, i)) = 1 /\ Cardinality(PlacesIn(t, i)) \in Nat
    BY <1>7, <1>8, <2>1, FS_EmptySet
  <2> QED BY <2>3, <2>4
<1>11. CASE i # n + 1
  <2>1. i \in DOMAIN s /\ t[i] = s[i] /\ s[i] \in Events
    BY <1>1, <1>11
  <2>2. s[i].age \in Nat /\ s[i].age \in 0 .. Window - 1
    BY <2>1, EventFields DEF Events
  <2>3. Cardinality(CallsIn(s, i)) <= Cardinality(PlacesIn(s, i)) + Cardinality(Younger(ages, s[i].age))
    BY <1>4, <1>6, <1>7, <2>1 DEF Keeps
  <2>4. Cardinality(Younger(now, s[i].age)) = Cardinality(Younger(ages, s[i].age))
    BY <2>2
  <2> DEFINE a == s[i].age
             c == Cardinality(CallsIn(s, i))
             p == Cardinality(PlacesIn(s, i))
             y == Cardinality(Younger(now, a))
  <2>5. /\ Cardinality(Younger(new, a)) = y + 1 /\ y \in Nat /\ c \in Nat /\ p \in Nat /\ c <= p + y
        /\ Cardinality(CallsIn(t, i)) = c + 1 /\ Cardinality(PlacesIn(t, i)) = p /\ t[i].age = a
    BY <1>7, <1>8, <1>9, <2>1, <2>2, <2>3, <2>4
  <2> HIDE DEF a, c, p, y
  <2> QED BY <2>5
<1> QED BY <1>10, <1>11

\* The end of a window, with no more stamps than its limit.
LEMMA EndKeeps ==
    ASSUME NEW s \in Seq(Events), NEW ages \in Seq(Stamps), NEW free, Keeps(s, ages, free), NEW free2,
           NEW e \in Events, e.what = "end", Len(ages) <= e.rpm, free => e.rpm = 0
    PROVE  Keeps(Append(s, e), <<>>, free2)
<1> DEFINE t == Append(s, e)
           n == Len(s)
           P == {n + 1} \X (1 .. e.rpm)
<1>1. /\ DOMAIN t = 1 .. n + 1 /\ DOMAIN s = 1 .. n /\ n \in Nat /\ Len(t) = n + 1 /\ t \in Seq(Events)
      /\ t[n + 1] = e /\ \A j \in 1 .. n : t[j] = s[j] /\ s[j] \in Events
  BY OneMore
<1> HIDE DEF t, n
<1>2. SUFFICES ASSUME NEW i \in DOMAIN t, \A j \in EndsIn(t, i) : t[j].rpm # 0
               PROVE  Cardinality(CallsIn(t, i)) <= Cardinality(PlacesIn(t, i)) + Cardinality(Younger(<<>>, t[i].age))
  BY DEF Keeps, t
<1>3. i \in Nat \ {0} /\ i <= n + 1
  BY <1>1
<1>4. CallsIn(t, i) = CallsIn(s, i) /\ EndsIn(t, i) = EndsIn(s, i) \cup {n + 1} /\ n + 1 \notin EndsIn(s, i)
  <2>1. i .. n + 1 = (i .. n) \cup {n + 1} /\ n + 1 \notin i .. n
    BY <1>1, <1>3
  <2>2. \A j \in i .. n : t[j] = s[j]
    BY <1>1, <1>3
  <2>3. t[n + 1].what = "end"
    BY <1>1
  <2> QED BY <1>1, <2>1, <2>2, <2>3 DEF CallsIn, EndsIn, n
<1>5. PlacesIn(t, i) = PlacesIn(s, i) \cup P /\ PlacesIn(s, i) \cap P = {} /\ \A j \in EndsIn(s, i) : t[j] = s[j]
  <2>1. \A j \in EndsIn(s, i) : t[j] = s[j]
    BY <1>1, <1>3 DEF EndsIn, n
  <2>2. t[n + 1].rpm = e.rpm
    BY <1>1
  <2> QED BY <1>4, <2>1, <2>2 DEF PlacesIn
<1>6. e.rpm \in Nat
  BY EventFields
<1>7. IsFiniteSet(P) /\ Cardinality(P) = e.rpm
  <2>1. IsFiniteSet({n + 1}) /\ Cardinality({n + 1}) = 1
    BY FS_Singleton
  <2>2. IsFiniteSet(1 .. e.rpm) /\ Cardinality(1 .. e.rpm) = e.rpm
    <3> DEFINE m == e.rpm
    <3>1. m \in Nat
      BY <1>6
    <3> HIDE DEF m
    <3>2. 1 \in Int /\ m \in Int /\ (IF 1 > m THEN 0 ELSE m - 1 + 1) = m
      BY <3>1
    <3>3. IsFiniteSet(1 .. m) /\ Cardinality(1 .. m) = m
      BY <3>2, FS_Interval
    <3> QED BY <3>3 DEF m
  <2>3. IsFiniteSet(P) /\ Cardinality(P) = 1 * e.rpm
    BY <2>1, <2>2, FS_Product
  <2> HIDE DEF P
  <2> QED BY <1>6, <2>3
<1> HIDE DEF P
<1>8. /\ Cardinality(CallsIn(s, i)) \in Nat /\ Cardinality(PlacesIn(s, i)) \in Nat
      /\ Cardinality(PlacesIn(t, i)) = Cardinality(PlacesIn(s, i)) + e.rpm
  <2>1. IsFiniteSet(PlacesIn(s, i)) /\ Cardinality(CallsIn(s, i)) \in Nat /\ Cardinality(PlacesIn(s, i)) \in Nat
    BY <1>3, HistoryFinite
  <2>2. Cardinality(PlacesIn(t, i)) = Cardinality(PlacesIn(s, i)) + Cardinality(P) - Cardinality({})
    BY <1>5, <1>7, <2>1, FS_Union
  <2> QED BY <1>6, <1>7, <2>1, <2>2, FS_EmptySet
<1>9. Cardinality(Younger(<<>>, t[i].age)) = 0
  <2>1. Younger(<<>>, t[i].age) = {}
    BY DEF Younger
  <2> QED BY <2>1, FS_EmptySet
<1>10. CASE i = n + 1
  <2>1. CallsIn(s, i) = {}
    BY <1>1, <1>10 DEF CallsIn, n
  <2> QED BY <1>4, <1>6, <1>8, <1>9, <2>1, FS_EmptySet
<1>11. CASE i # n + 1
  <2>1. i \in DOMAIN s /\ t[i] = s[i]
    BY <1>1, <1>11
  <2>2. ~free
    <3>1. t[n + 1].rpm # 0
      BY <1>2, <1>4
    <3> QED BY <1>1, <3>1
  <2>3. \A j \in EndsIn(s, i) : s[j].rpm # 0
    BY <1>2, <1>4, <1>5
  <2>4. Cardinality(CallsIn(s, i)) <= Cardinality(PlacesIn(s, i)) + Cardinality(Younger(ages, s[i].age))
    BY <2>1, <2>2, <2>3 DEF Keeps
  <2>5. Cardinality(Younger(ages, s[i].age)) \in Nat /\ Cardinality(Younger(ages, s[i].age)) <= Len(ages) /\ Len(ages) \in Nat
    BY YoungerFinite
  <2> QED BY <1>4, <1>6, <1>8, <1>9, <2>4, <2>5
<1> QED BY <1>10, <1>11

\* The stamps that leave a window are older than any event of the history.
LEMMA CurrentKeeps ==
    ASSUME NEW ages \in Seq(Stamps)
    PROVE  /\ Call!Current(ages) \in Seq(Stamps) /\ Len(Call!Current(ages)) <= Len(ages)
           /\ \A a \in 0 .. Window - 1 : Cardinality(Younger(Call!Current(ages), a)) = Cardinality(Younger(ages, a))
<1> DEFINE K   == {i \in DOMAIN ages : ~Call!Expired(ages[i])}
           now == Call!Current(ages)
           n   == Len(ages)
<1>1. n \in Nat /\ DOMAIN ages = 1 .. n /\ now = Call!FromFirst(ages, K) /\ K \in SUBSET DOMAIN ages
  BY DEF Call!Current
<1>2. \A i \in DOMAIN ages : ages[i] \in Nat /\ (i \notin K => ages[i] >= Window)
  <2> SUFFICES ASSUME NEW i \in DOMAIN ages PROVE ages[i] \in Nat /\ (i \notin K => ages[i] >= Window)
    OBVIOUS
  <2>1. ages[i] \in Stamps
    OBVIOUS
  <2>2. \A x \in Stamps : x \in Nat
    BY DEF Stamps
  <2>3. i \notin K => ages[i] >= Window
    BY DEF Call!Expired
  <2> QED BY <2>1, <2>2, <2>3
<1>3. Window \in Nat
  BY CallConstants DEF Call!CallAssumption
<1> HIDE DEF K, now, n
<1>4. PICK e \in 0 .. n : /\ now \in Seq(Stamps) /\ Len(now) = n - e
                          /\ \A i \in 1 .. n - e : now[i] = ages[e + i]
                          /\ \A i \in 1 .. e : i \notin K
  <2>1. \E e \in 0 .. Len(ages) :
           /\ Call!FromFirst(ages, K) \in Seq(Stamps) /\ Len(Call!FromFirst(ages, K)) = Len(ages) - e
           /\ \A i \in 1 .. Len(ages) - e : Call!FromFirst(ages, K)[i] = ages[e + i]
           /\ \A i \in 1 .. e : i \notin K
           /\ e < Len(ages) => e + 1 \in K
    BY <1>1, FromFirstDrops
  <2> QED BY <1>1, <2>1 DEF n
<1>5. DOMAIN now = 1 .. n - e /\ Len(now) <= n
  BY <1>1, <1>4
<1>6. ASSUME NEW a \in 0 .. Window - 1
      PROVE  Cardinality(Younger(now, a)) = Cardinality(Younger(ages, a))
  <2> DEFINE f == [j \in Younger(now, a) |-> e + j]
  <2>1. \A j \in Younger(now, a) : j \in 1 .. n - e /\ e + j \in Younger(ages, a)
    BY <1>1, <1>4, <1>5 DEF Younger
  <2>2. \A k \in Younger(ages, a) : k \in 1 .. n /\ ages[k] <= a
    BY <1>1 DEF Younger
  <2>3. \A k \in Younger(ages, a) : k > e
    BY <1>1, <1>2, <1>3, <1>4, <2>2
  <2>4. \A k \in Younger(ages, a) : k - e \in Younger(now, a) /\ e + (k - e) = k
    <3> TAKE k \in Younger(ages, a)
    <3>1. k - e \in 1 .. n - e /\ e + (k - e) = k
      BY <1>1, <2>2, <2>3
    <3>2. now[k - e] = ages[k]
      BY <1>4, <3>1
    <3> QED BY <1>5, <2>2, <3>1, <3>2 DEF Younger
  <2>5. IsFiniteSet(Younger(now, a))
    BY <1>4, YoungerFinite
  <2>6. f \in [Younger(now, a) -> Younger(ages, a)] /\ \A x, y \in Younger(now, a) : f[x] = f[y] => x = y
    BY <2>1
  <2>7. \A k \in Younger(ages, a) : \E j \in Younger(now, a) : f[j] = k
    BY <2>4
  <2> HIDE DEF f
  <2> QED BY <2>5, <2>6, <2>7, AsMany
<1> QED BY <1>4, <1>5, <1>6 DEF now, n

\* A tick: what was first has left the history, the rest is one older.
LEMMA HistoryMoves ==
    ASSUME NEW s \in Seq(Events), InOrder(s)
    PROVE  \E e \in 0 .. Len(s) :
              /\ Call!Recent(s) \in Seq(Events) /\ Len(Call!Recent(s)) = Len(s) - e
              /\ \A i \in 1 .. Len(s) - e : /\ Call!Recent(s)[i].what = s[e + i].what
                                            /\ Call!Recent(s)[i].rpm = s[e + i].rpm
                                            /\ Call!Recent(s)[i].age = s[e + i].age + 1
                                            /\ Call!Recent(s)[i].age < Window
<1> DEFINE n     == Len(s)
           older == [i \in DOMAIN s |-> [s[i] EXCEPT !.age = s[i].age + 1]]
           Aged  == [what : {"call", "end"}, rpm : Limits, age : Nat]
           K     == {i \in DOMAIN s : s[i].age + 1 < Window}
           t     == Call!Recent(s)
<1>1. n \in Nat /\ DOMAIN s = 1 .. n /\ \A i \in 1 .. n : s[i] \in Events
  OBVIOUS
<1>2. ASSUME NEW i \in 1 .. n
      PROVE  /\ older[i] \in Aged /\ older[i].age = s[i].age + 1
             /\ older[i].what = s[i].what /\ older[i].rpm = s[i].rpm
  <2>1. s[i] \in Events /\ s[i].age \in Nat /\ i \in DOMAIN s
    BY <1>1, EventFields
  <2>2. s[i] \in [what : {"call", "end"}, rpm : Limits, age : 0 .. Window - 1]
    BY <2>1 DEF Events
  <2>3. older[i] = [s[i] EXCEPT !.age = s[i].age + 1]
    BY <2>1
  <2> HIDE DEF older
  <2> QED BY <2>1, <2>2, <2>3
<1>3. older \in Seq(Aged) /\ Len(older) = n /\ DOMAIN older = 1 .. n /\ K \in SUBSET DOMAIN older
  <2>1. DOMAIN older = 1 .. n /\ K \in SUBSET DOMAIN older
    BY <1>1
  <2>2. older = [i \in 1 .. n |-> older[i]]
    BY <1>1
  <2> HIDE DEF older, Aged, n, K
  <2> QED BY <1>1, <1>2, <2>1, <2>2
<1>4. t = Call!FromFirst(older, K)
  BY DEF Call!Recent
<1> HIDE DEF older, Aged, t, n
<1>5. PICK e \in 0 .. n : /\ t \in Seq(Aged) /\ Len(t) = n - e
                          /\ \A i \in 1 .. n - e : t[i] = older[e + i]
                          /\ e < n => e + 1 \in K
  <2>1. \E e \in 0 .. Len(older) :
           /\ Call!FromFirst(older, K) \in Seq(Aged) /\ Len(Call!FromFirst(older, K)) = Len(older) - e
           /\ \A i \in 1 .. Len(older) - e : Call!FromFirst(older, K)[i] = older[e + i]
           /\ \A i \in 1 .. e : i \notin K
           /\ e < Len(older) => e + 1 \in K
    BY <1>3, FromFirstDrops
  <2> QED BY <1>3, <1>4, <2>1
<1>6. ASSUME NEW i \in 1 .. n - e
      PROVE  /\ t[i].what = s[e + i].what /\ t[i].rpm = s[e + i].rpm /\ t[i].age = s[e + i].age + 1 /\ t[i].age < Window
             /\ t[i] \in Events
  <2>1. e + i \in 1 .. n /\ e < n /\ e + 1 \in 1 .. n /\ e + 1 <= e + i
    BY <1>1, <1>5
  <2>2. s[e + 1].age + 1 < Window
    BY <1>5, <2>1
  <2>3. s[e + i].age <= s[e + 1].age
    BY <1>1, <2>1 DEF InOrder
  <2>4. s[e + i].age \in Nat /\ s[e + 1].age \in Nat /\ Window \in Nat
    BY <1>1, <2>1, EventFields, CallConstants DEF Call!CallAssumption
  <2>5. t[i] = older[e + i] /\ t[i] \in Aged /\ t[i].age = s[e + i].age + 1
        /\ t[i].what = s[e + i].what /\ t[i].rpm = s[e + i].rpm
    BY <1>2, <1>5, <2>1
  <2>6. s[e + i].age + 1 < Window /\ s[e + i].age + 1 \in 0 .. Window - 1
    BY <2>2, <2>3, <2>4
  <2>7. t[i] \in Events
    <3> DEFINE x == t[i]
    <3>1. x \in [what : {"call", "end"}, rpm : Limits, age : Nat] /\ x.age \in 0 .. Window - 1
      BY <2>5, <2>6 DEF Aged
    <3> HIDE DEF x
    <3>2. x \in Events
      BY <3>1 DEF Events
    <3> QED BY <3>2 DEF x
  <2> QED BY <2>5, <2>6, <2>7
<1>7. t \in Seq(Events)
  <2>1. DOMAIN t = 1 .. n - e /\ t = [i \in 1 .. n - e |-> t[i]] /\ n - e \in Nat
    BY <1>1, <1>5
  <2> QED BY <1>6, <2>1
<1>8. \A i \in 1 .. Len(s) - e : /\ Call!Recent(s)[i].what = s[e + i].what
                                 /\ Call!Recent(s)[i].rpm = s[e + i].rpm
                                 /\ Call!Recent(s)[i].age = s[e + i].age + 1
                                 /\ Call!Recent(s)[i].age < Window
  BY <1>6 DEF t, n
<1>9. e \in 0 .. Len(s) /\ Call!Recent(s) \in Seq(Events) /\ Len(Call!Recent(s)) = Len(s) - e
  BY <1>5, <1>7 DEF t, n
<1> QED BY <1>8, <1>9

\* The history stays in its order, and keeps to what it was.
LEMMA HistoryKeeps ==
    ASSUME NEW s \in Seq(Events), InOrder(s), NEW ages \in Seq(Stamps), NEW free, Keeps(s, ages, free)
    PROVE  /\ Call!Recent(s) \in Seq(Events) /\ InOrder(Call!Recent(s))
           /\ Keeps(Call!Recent(s), [j \in DOMAIN ages |-> Call!Older(ages[j])], free)
<1> DEFINE t   == Call!Recent(s)
           n   == Len(s)
           new == [j \in DOMAIN ages |-> Call!Older(ages[j])]
<1> HIDE DEF t, n
<1>1. PICK e \in 0 .. n :
         /\ t \in Seq(Events) /\ Len(t) = n - e
         /\ \A i \in 1 .. n - e : t[i].what = s[e + i].what /\ t[i].rpm = s[e + i].rpm
                                  /\ t[i].age = s[e + i].age + 1 /\ t[i].age < Window
  <2>1. \E e \in 0 .. Len(s) :
           /\ Call!Recent(s) \in Seq(Events) /\ Len(Call!Recent(s)) = Len(s) - e
           /\ \A i \in 1 .. Len(s) - e : /\ Call!Recent(s)[i].what = s[e + i].what
                                         /\ Call!Recent(s)[i].rpm = s[e + i].rpm
                                         /\ Call!Recent(s)[i].age = s[e + i].age + 1
                                         /\ Call!Recent(s)[i].age < Window
    BY HistoryMoves
  <2> QED BY <2>1 DEF t, n
<1>2. n \in Nat /\ DOMAIN s = 1 .. n /\ DOMAIN t = 1 .. n - e /\ n - e \in Nat
  BY <1>1 DEF n
<1>3. \A i \in 1 .. n - e : e + i \in DOMAIN s /\ s[e + i].age \in Nat
  <2>1. \A i \in 1 .. n - e : e + i \in 1 .. n
    BY <1>2
  <2> QED BY <1>2, <2>1, EventFields
<1>4. InOrder(t)
  <2> SUFFICES ASSUME NEW i \in 1 .. n - e, NEW j \in 1 .. n - e, i <= j PROVE t[j].age <= t[i].age
    BY <1>2 DEF InOrder
  <2>1. e + i <= e + j
    BY <1>2
  <2>2. s[e + j].age <= s[e + i].age
    BY <1>3, <2>1 DEF InOrder
  <2>3. t[i].age = s[e + i].age + 1 /\ t[j].age = s[e + j].age + 1
    BY <1>1
  <2> QED BY <1>3, <2>2, <2>3
<1>5. ASSUME NEW i \in 1 .. n - e, \A j \in EndsIn(t, i) : t[j].rpm # 0, ~free
      PROVE  Cardinality(CallsIn(t, i)) <= Cardinality(PlacesIn(t, i)) + Cardinality(Younger(new, t[i].age))
  <2> DEFINE f == [j \in CallsIn(t, i) |-> e + j]
             g == [x \in PlacesIn(t, i) |-> <<e + x[1], x[2]>>]
  <2>1. \A j \in i .. n - e : j \in 1 .. n - e /\ e + j \in e + i .. n
    BY <1>2
  <2>2. \A k \in e + i .. n : k - e \in i .. n - e /\ k - e \in 1 .. n - e /\ e + (k - e) = k
    BY <1>2
  <2>3. /\ \A j \in CallsIn(t, i) : j \in Nat /\ e + j \in CallsIn(s, e + i)
        /\ \A j \in EndsIn(t, i) : j \in Nat /\ e + j \in EndsIn(s, e + i) /\ t[j].rpm = s[e + j].rpm
    BY <1>1, <1>2, <2>1 DEF CallsIn, EndsIn, n
  <2>4. /\ \A k \in CallsIn(s, e + i) : k - e \in CallsIn(t, i) /\ e + (k - e) = k
        /\ \A k \in EndsIn(s, e + i) : k - e \in EndsIn(t, i) /\ e + (k - e) = k /\ t[k - e].rpm = s[k].rpm
    BY <1>1, <1>2, <2>2 DEF CallsIn, EndsIn, n
  <2>5. e + i \in Nat \ {0} /\ i \in Nat \ {0}
    BY <1>2
  <2>6. Cardinality(CallsIn(s, e + i)) = Cardinality(CallsIn(t, i))
    <3>1. IsFiniteSet(CallsIn(t, i))
      BY <1>1, <2>5, HistoryFinite
    <3>2. /\ f \in [CallsIn(t, i) -> CallsIn(s, e + i)]
          /\ \A x, y \in CallsIn(t, i) : f[x] = f[y] => x = y
      BY <2>3
    <3>3. \A k \in CallsIn(s, e + i) : \E j \in CallsIn(t, i) : f[j] = k
      BY <2>4
    <3> HIDE DEF f
    <3> QED BY <3>1, <3>2, <3>3, AsMany
  <2>7. Cardinality(PlacesIn(s, e + i)) = Cardinality(PlacesIn(t, i))
    <3>1. IsFiniteSet(PlacesIn(t, i))
      BY <1>1, <2>5, HistoryFinite
    <3>2. \A x : x \in PlacesIn(t, i) <=> \E j \in EndsIn(t, i) : \E m \in 1 .. t[j].rpm : x = <<j, m>>
      BY DEF PlacesIn
    <3>3. \A x : x \in PlacesIn(s, e + i) <=> \E j \in EndsIn(s, e + i) : \E m \in 1 .. s[j].rpm : x = <<j, m>>
      BY DEF PlacesIn
    <3>4. \A x \in PlacesIn(t, i) : <<e + x[1], x[2]>> \in PlacesIn(s, e + i) /\ x = <<x[1], x[2]>> /\ x[1] \in Nat
      BY <2>3, <3>2, <3>3
    <3>5. \A j \in EndsIn(s, e + i) : \A m \in 1 .. s[j].rpm : <<j - e, m>> \in PlacesIn(t, i) /\ e + (j - e) = j
      BY <2>4, <3>2
    <3>6. g \in [PlacesIn(t, i) -> PlacesIn(s, e + i)] /\ \A x, y \in PlacesIn(t, i) : g[x] = g[y] => x = y
      <4>1. \A x, y \in PlacesIn(t, i) : e + x[1] = e + y[1] /\ x[2] = y[2] => x = y
        <5>1. e \in Int
          BY <1>2
        <5>2. \A a, b \in Nat : e + a = e + b => a = b
          BY <5>1
        <5> HIDE DEF f, g
        <5> QED BY <3>4, <5>2
      <4>2. \A x, y \in PlacesIn(t, i) : g[x] = g[y] => e + x[1] = e + y[1] /\ x[2] = y[2]
        OBVIOUS
      <4> QED BY <3>4, <4>1, <4>2
    <3>7. ASSUME NEW y \in PlacesIn(s, e + i) PROVE \E x \in PlacesIn(t, i) : g[x] = y
      <4>1. PICK j \in EndsIn(s, e + i) : \E m \in 1 .. s[j].rpm : y = <<j, m>>
        BY <3>3
      <4>2. PICK m \in 1 .. s[j].rpm : y = <<j, m>>
        BY <4>1
      <4>3. <<j - e, m>> \in PlacesIn(t, i) /\ e + (j - e) = j
        BY <3>5
      <4>4. g[<<j - e, m>>] = <<e + (j - e), m>>
        BY <4>3
      <4> QED BY <4>2, <4>3, <4>4
    <3> HIDE DEF g
    <3> QED BY <3>1, <3>6, <3>7, AsMany
  <2>8. Younger(new, t[i].age) = Younger(ages, s[e + i].age)
    <3>1. \A j \in DOMAIN ages : ages[j] \in 0 .. Window
      <4>1. \A j \in DOMAIN ages : ages[j] \in Stamps
        OBVIOUS
      <4> QED BY <4>1 DEF Stamps
    <3>2. Window \in Nat
      BY CallConstants DEF Call!CallAssumption
    <3>3. t[i].age = s[e + i].age + 1 /\ t[i].age < Window /\ s[e + i].age \in Nat
      BY <1>1, <1>3
    <3>4. \A x \in 0 .. Window : Call!Older(x) <= t[i].age <=> x <= s[e + i].age
      BY <3>2, <3>3 DEF Call!Older
    <3> QED BY <3>1, <3>4 DEF Younger
  <2>9. \A k \in EndsIn(s, e + i) : s[k].rpm # 0
    BY <1>5, <2>4
  <2>10. Cardinality(CallsIn(s, e + i)) <= Cardinality(PlacesIn(s, e + i)) + Cardinality(Younger(ages, s[e + i].age))
    BY <1>3, <1>5, <2>9 DEF Keeps
  <2> QED BY <2>6, <2>7, <2>8, <2>10
<1> HIDE DEF new
<1>6. Keeps(t, new, free)
  BY <1>2, <1>5 DEF Keeps
<1> QED BY <1>1, <1>4, <1>6 DEF t, new

\* A window holds no more stamps than its limit.
WindowFits(b) == b \in WindowOf /\ Len(b.stamps) <= b.rpm
CallerType    == {Call!NoJob} \cup [at : {"asks", "calls"}, provider : Provider]
                 \cup [at : {"sleeps"}, provider : Provider, left : Int]

\* A provider has one window or none, and the job that runs was given one.
CallTypes ==
    /\ rpm \in [Provider -> Limits]
    /\ pool \in [Provider -> SUBSET WindowOf]
    /\ \A p \in Provider : pool[p] = {} \/ \E b : pool[p] = {b} /\ WindowFits(b)
    /\ caller \in CallerType
    /\ caller.at # "none" => pool[caller.provider] # {}

\* The stamps of a provider's window, and whether it has no limit.
StampsOf(p) == IF pool[p] = {} THEN <<>> ELSE Call!Bucket(p).stamps
Free(p)     == \E b \in pool[p] : b.rpm = 0

\* The history of each provider is in its order, and calls keep to the places there were at any of its events.
CallLog ==
    /\ log \in [Provider -> Seq(Events)]
    /\ \A p \in Provider : InOrder(log[p]) /\ Keeps(log[p], StampsOf(p), Free(p))


\* What the type invariant says follows.
LEMMA CallTypesSay ==
    ASSUME CallTypes, CallLog
    PROVE  Call!CallTypeOK
<1>1. ASSUME NEW p \in Provider, NEW b \in pool[p]
      PROVE  b.rpm \in Limits /\ Len(b.stamps) <= b.rpm /\ Call!ToSet(b.stamps) \subseteq 0 .. Window
  <2>1. WindowFits(b)
    BY <1>1 DEF CallTypes
  <2>2. b.stamps \in Seq(Stamps)
    BY <2>1 DEF WindowFits, WindowOf
  <2>3. Call!ToSet(b.stamps) \subseteq Stamps
    BY <2>2 DEF Call!ToSet
  <2> QED BY <2>1, <2>3 DEF WindowFits, WindowOf, Stamps
<1>2. \A p \in Provider : \A a, b \in pool[p] : a = b
  BY DEF CallTypes
<1>3. caller.at \in {"none", "asks", "sleeps", "calls"}
  BY DEF CallTypes, CallerType, Call!NoJob
<1>4. ASSUME NEW p \in Provider
      PROVE  /\ Call!ToSet(log[p]) \subseteq [what : {"call", "end"}, rpm : Limits, age : 0 .. Window - 1]
             /\ \A i, j \in DOMAIN log[p] : i <= j => log[p][j].age <= log[p][i].age
  <2>1. log[p] \in Seq(Events) /\ InOrder(log[p])
    BY DEF CallLog
  <2>2. Call!ToSet(log[p]) \subseteq Events
    BY <2>1 DEF Call!ToSet
  <2> QED BY <2>1, <2>2 DEF InOrder, Events
<1> QED BY <1>1, <1>2, <1>3, <1>4 DEF CallTypes, Call!CallTypeOK

\* The types hold through every step of the calls.
LEMMA CallTypesStep ==
    ASSUME CallTypes, Call!CallNext
    PROVE  CallTypes'
<1>0. /\ Limits \subseteq Nat /\ Window \in Nat /\ rpm \in [Provider -> Limits] /\ caller \in CallerType
      /\ pool \in [Provider -> SUBSET WindowOf]
      /\ \A p \in Provider : pool[p] = {} \/ \E b : pool[p] = {b} /\ WindowFits(b)
  BY CallConstants DEF CallTypes, Call!CallAssumption
<1>b. ASSUME NEW p \in Provider, pool[p] # {}
      PROVE  pool[p] = {Call!Bucket(p)} /\ WindowFits(Call!Bucket(p))
  BY <1>0, <1>b DEF Call!Bucket
<1>o. ASSUME NEW p \in Provider, NEW b, WindowFits(b), pool' = [pool EXCEPT ![p] = {b}]
      PROVE  /\ pool' \in [Provider -> SUBSET WindowOf] /\ pool'[p] # {}
             /\ \A q \in Provider : pool'[q] = {} \/ \E c : pool'[q] = {c} /\ WindowFits(c)
  <2>1. b \in WindowOf
    BY <1>o DEF WindowFits
  <2>2. pool'[p] = {b} /\ \A q \in Provider : q # p => pool'[q] = pool[q]
    BY <1>0, <1>o
  <2> QED BY <1>0, <1>o, <2>1, <2>2
<1>1. ASSUME NEW p \in Provider, Call!Start(p)
      PROVE  CallTypes'
  <2>1. caller' = [at |-> "asks", provider |-> p] /\ rpm' = rpm
    BY <1>1 DEF Call!Start
  <2>2. caller' \in CallerType
    BY <2>1 DEF CallerType
  <2>3. CASE ~Call!Outdated(p) /\ UNCHANGED <<pool, log>>
    <3>1. pool[p] # {}
      BY <2>3 DEF Call!Outdated
    <3> QED BY <1>0, <2>1, <2>2, <2>3, <3>1 DEF CallTypes
  <2>4. CASE pool' = [pool EXCEPT ![p] = {Call!New(rpm[p])}]
    <3>1. WindowFits(Call!New(rpm[p]))
      <4>1. rpm[p] \in Limits /\ rpm[p] \in Nat
        BY <1>0
      <4>2. <<>> \in Seq(Stamps) /\ Len(<<>>) = 0
        OBVIOUS
      <4>3. [rpm |-> rpm[p], stamps |-> <<>>] \in WindowOf
        BY <4>1, <4>2 DEF WindowOf
      <4>4. Len(<<>>) <= rpm[p]
        BY <4>1, <4>2
      <4> QED BY <4>3, <4>4 DEF WindowFits, Call!New
    <3> QED BY <1>0, <1>o, <2>1, <2>2, <2>4, <3>1 DEF CallTypes
  <2> QED BY <1>1, <2>3, <2>4 DEF Call!Start
<1>2. ASSUME Call!Acquire
      PROVE  CallTypes'
  <2> DEFINE p == caller.provider
             b == Call!Bucket(p)
             now == Call!Current(b.stamps)
  <2>1. /\ caller \in [at : {"asks", "calls"}, provider : Provider] /\ p \in Provider /\ pool[p] # {} /\ rpm' = rpm
    BY <1>0, <1>2 DEF Call!Acquire, CallTypes, CallerType, Call!NoJob
  <2>2. WindowFits(b) /\ b \in WindowOf /\ b.rpm \in Limits /\ b.rpm \in Nat /\ b.stamps \in Seq(Stamps)
    BY <1>0, <1>b, <2>1 DEF WindowFits, WindowOf
  <2>3. now \in Seq(Stamps) /\ Len(now) <= b.rpm
    <3>1. now \in Seq(Stamps) /\ Len(now) <= Len(b.stamps)
      BY <2>2, CurrentKeeps
    <3>2. Len(now) \in Nat /\ Len(b.stamps) \in Nat /\ Len(b.stamps) <= b.rpm
      BY <2>2, <3>1 DEF WindowFits
    <3> QED BY <2>2, <3>1, <3>2
  <2> HIDE DEF now
  <2>4. CASE Call!Called(p, b)
    <3>1. caller' = [caller EXCEPT !.at = "calls"] /\ pool' = [pool EXCEPT ![p] = {b}]
      BY <2>4 DEF Call!Called
    <3>2. caller' \in CallerType /\ caller'.provider = p
      BY <2>1, <3>1 DEF CallerType
    <3> QED BY <1>0, <1>o, <2>1, <2>2, <3>1, <3>2 DEF CallTypes
  <2>5. CASE Call!HasRoom(b, now) /\ Call!Called(p, [b EXCEPT !.stamps = Append(now, 0)])
    <3> DEFINE c == [b EXCEPT !.stamps = Append(now, 0)]
    <3>1. caller' = [caller EXCEPT !.at = "calls"] /\ pool' = [pool EXCEPT ![p] = {c}]
      BY <2>5 DEF Call!Called
    <3>2. caller' \in CallerType /\ caller'.provider = p
      BY <2>1, <3>1 DEF CallerType
    <3>3. WindowFits(c)
      <4>1. 0 \in Stamps /\ Len(now) < b.rpm /\ Len(now) \in Nat
        BY <1>0, <2>3, <2>5 DEF Stamps, Call!HasRoom
      <4>2. Append(now, 0) \in Seq(Stamps) /\ Len(Append(now, 0)) = Len(now) + 1
        BY <2>3, <4>1, AppendProperties
      <4>3. c \in WindowOf /\ c.rpm = b.rpm /\ c.stamps = Append(now, 0)
        BY <2>2, <4>2 DEF WindowOf
      <4> QED BY <2>2, <4>1, <4>2, <4>3 DEF WindowFits
    <3> HIDE DEF c
    <3> QED BY <1>0, <1>o, <2>1, <3>1, <3>2, <3>3 DEF CallTypes
  <2>6. CASE /\ ~Call!HasRoom(b, now) /\ b.rpm > 0 /\ pool' = [pool EXCEPT ![p] = {[b EXCEPT !.stamps = now]}]
             /\ caller' = [at |-> "sleeps", provider |-> p, left |-> Window - Head(now)]
    <3> DEFINE c == [b EXCEPT !.stamps = now]
    <3>1. WindowFits(c)
      <4>1. c \in WindowOf /\ c.rpm = b.rpm /\ c.stamps = now
        BY <2>2, <2>3 DEF WindowOf
      <4> QED BY <2>3, <4>1 DEF WindowFits
    <3>2. Window - Head(now) \in Int
      <4>1. Len(now) > 0
        BY <2>2, <2>3, <2>6 DEF Call!HasRoom
      <4>2. Head(now) \in Stamps
        BY <2>3, <4>1
      <4> QED BY <1>0, <4>2 DEF Stamps
    <3>3. caller' \in CallerType /\ caller'.provider = p
      BY <2>1, <2>6, <3>2 DEF CallerType
    <3> HIDE DEF c
    <3>4. pool' = [pool EXCEPT ![p] = {c}]
      BY <2>6 DEF c
    <3> QED BY <1>0, <1>o, <2>1, <3>1, <3>3, <3>4 DEF CallTypes
  <2> QED BY <1>2, <2>4, <2>5, <2>6 DEF Call!Acquire, now
<1>3. ASSUME Call!Wakes \/ Call!Answers
      PROVE  CallTypes'
  <2>1. UNCHANGED <<rpm, pool>>
    BY <1>3 DEF Call!Wakes, Call!Answers
  <2>2. caller' \in CallerType /\ (caller'.at # "none" => caller.at # "none" /\ caller'.provider = caller.provider)
    <3>1. CASE Call!Wakes
      <4>1. caller.at = "sleeps" /\ caller' = [at |-> "asks", provider |-> caller.provider]
        BY <3>1 DEF Call!Wakes
      <4>2. caller.provider \in Provider
        BY <1>0, <4>1 DEF CallerType, Call!NoJob
      <4> QED BY <4>1, <4>2 DEF CallerType
    <3>2. CASE Call!Answers
      <4>1. caller.at = "calls" /\ caller' \in {Call!NoJob, [caller EXCEPT !.at = "asks"]}
        BY <3>2 DEF Call!Answers
      <4>2. caller \in [at : {"asks", "calls"}, provider : Provider]
        BY <1>0, <4>1 DEF CallerType, Call!NoJob
      <4>3. LET c == [caller EXCEPT !.at = "asks"]
            IN  c \in [at : {"asks", "calls"}, provider : Provider] /\ c.provider = caller.provider
        BY <4>2
      <4>4. Call!NoJob.at = "none"
        BY DEF Call!NoJob
      <4> QED BY <4>1, <4>3, <4>4 DEF CallerType
    <3> QED BY <1>3, <3>1, <3>2
  <2> QED BY <1>0, <2>1, <2>2 DEF CallTypes
<1>4. ASSUME NEW p \in Provider, NEW limit \in Limits, Call!SetLimit(p, limit)
      PROVE  CallTypes'
  <2>1. UNCHANGED <<pool, caller>> /\ rpm' \in [Provider -> Limits]
    BY <1>0, <1>4 DEF Call!SetLimit
  <2> QED BY <2>1 DEF CallTypes
<1>5. ASSUME Call!Restart
      PROVE  CallTypes'
  <2>1. caller' = Call!NoJob /\ pool' = [p \in Provider |-> {}] /\ rpm' = rpm /\ Call!NoJob.at = "none"
    BY <1>5 DEF Call!Restart, Call!NoJob
  <2> QED BY <1>0, <2>1 DEF CallTypes, CallerType
<1>6. ASSUME Call!Tick
      PROVE  CallTypes'
  <2> DEFINE Aged(b) == [b EXCEPT !.stamps = [i \in DOMAIN b.stamps |-> Call!Older(b.stamps[i])]]
  <2>1. rpm' = rpm /\ pool' = [p \in Provider |-> {Aged(b) : b \in pool[p]}]
    BY <1>6 DEF Call!Tick
  <2>2. ASSUME NEW b, WindowFits(b)
        PROVE  WindowFits(Aged(b)) /\ Aged(b) \in WindowOf
    <3> DEFINE s == [i \in DOMAIN b.stamps |-> Call!Older(b.stamps[i])]
    <3>1. b \in WindowOf /\ b.stamps \in Seq(Stamps) /\ Len(b.stamps) <= b.rpm /\ b.rpm \in Limits
      BY <2>2 DEF WindowFits, WindowOf
    <3>2. \A a \in Stamps : Call!Older(a) \in Stamps
      BY <1>0 DEF Stamps, Call!Older
    <3>3. s \in Seq(Stamps) /\ Len(s) = Len(b.stamps)
      BY <3>1, <3>2
    <3> HIDE DEF s
    <3>4. [b EXCEPT !.stamps = s] \in WindowOf /\ [b EXCEPT !.stamps = s].rpm = b.rpm /\ [b EXCEPT !.stamps = s].stamps = s
      BY <3>1, <3>3 DEF WindowOf
    <3>5. Aged(b) = [b EXCEPT !.stamps = s]
      BY DEF s
    <3> QED BY <3>1, <3>3, <3>4, <3>5 DEF WindowFits
  <2> HIDE DEF Aged
  <2>3. \A p \in Provider : /\ pool[p] = {} => pool'[p] = {}
                            /\ pool[p] # {} => \E b : pool[p] = {b} /\ pool'[p] = {Aged(b)} /\ WindowFits(b)
    BY <1>0, <2>1
  <2>4. pool' \in [Provider -> SUBSET WindowOf]
    BY <2>1, <2>2, <2>3
  <2>5. caller' \in CallerType /\ (caller'.at # "none" => caller.at # "none" /\ caller'.provider = caller.provider)
    <3>1. CASE caller.at = "sleeps" /\ caller.left > 0
      <4>1. caller' = [caller EXCEPT !.left = caller.left - 1]
        BY <1>6, <3>1 DEF Call!Tick
      <4>2. caller \in [at : {"sleeps"}, provider : Provider, left : Int]
        BY <1>0, <3>1 DEF CallerType, Call!NoJob
      <4> QED BY <4>1, <4>2 DEF CallerType
    <3>2. CASE ~(caller.at = "sleeps" /\ caller.left > 0)
      <4>1. caller' = caller
        BY <1>6, <3>2 DEF Call!Tick
      <4> QED BY <1>0, <4>1
    <3> QED BY <3>1, <3>2
  <2>6. caller.at # "none" => caller.provider \in Provider
    BY <1>0 DEF CallerType, Call!NoJob
  <2> QED BY <1>0, <2>1, <2>2, <2>3, <2>4, <2>5, <2>6 DEF CallTypes
<1> QED BY <1>1, <1>2, <1>3, <1>4, <1>5, <1>6 DEF Call!CallNext

\* A window's end is an event, and leaves no stamps.
LEMMA ThrownKeeps ==
    ASSUME CallTypes, CallLog, NEW p \in Provider
    PROVE  /\ Call!ThrownAway(p) \in Seq(Events) /\ InOrder(Call!ThrownAway(p))
           /\ \A free : Keeps(Call!ThrownAway(p), <<>>, free)
<1>1. log[p] \in Seq(Events) /\ InOrder(log[p]) /\ Keeps(log[p], StampsOf(p), Free(p))
  BY DEF CallLog
<1>2. CASE pool[p] = {}
  <2>1. Call!ThrownAway(p) = log[p] /\ StampsOf(p) = <<>> /\ ~Free(p)
    BY <1>2 DEF Call!ThrownAway, StampsOf, Free
  <2> QED BY <1>1, <2>1 DEF Keeps
<1>3. CASE pool[p] # {}
  <2> DEFINE b == Call!Bucket(p)
             e == Call!Entry("end", b)
  <2>1. pool[p] = {b} /\ WindowFits(b)
    BY <1>3 DEF CallTypes, Call!Bucket
  <2>2. b.rpm \in Limits /\ b.stamps \in Seq(Stamps) /\ Len(b.stamps) <= b.rpm
    BY <2>1 DEF WindowFits, WindowOf
  <2>3. StampsOf(p) = b.stamps /\ (Free(p) <=> b.rpm = 0)
    BY <1>3, <2>1 DEF StampsOf, Free
  <2>4. e.what = "end" /\ e.rpm = b.rpm /\ e.age = 0
    BY DEF Call!Entry
  <2>5. e \in Events
    <3>1. 0 \in 0 .. Window - 1
      BY CallConstants DEF Call!CallAssumption
    <3> QED BY <2>2, <3>1 DEF Call!Entry, Events
  <2>6. Call!ThrownAway(p) = Append(log[p], e)
    BY <1>3 DEF Call!ThrownAway
  <2> HIDE DEF e, b
  <2>7. ASSUME NEW free
        PROVE  Keeps(Append(log[p], e), <<>>, free)
    <3>1. Keeps(log[p], b.stamps, Free(p)) /\ (Free(p) => e.rpm = 0) /\ Len(b.stamps) <= e.rpm
      BY <1>1, <2>2, <2>3, <2>4
    <3> QED BY <1>1, <2>2, <2>4, <2>5, <3>1, EndKeeps
  <2>8. Append(log[p], e) \in Seq(Events) /\ InOrder(Append(log[p], e))
    BY <1>1, <2>4, <2>5, OneMore, OrderGrows
  <2> QED BY <2>6, <2>7, <2>8
<1> QED BY <1>2, <1>3

\* Every step keeps the history.
LEMMA CallLogStep ==
    ASSUME CallTypes, CallLog, Call!CallNext
    PROVE  CallLog'
<1>1. /\ pool \in [Provider -> SUBSET WindowOf] /\ log \in [Provider -> Seq(Events)]
      /\ \A p \in Provider : pool[p] = {} \/ \E b : pool[p] = {b} /\ WindowFits(b)
      /\ \A p \in Provider : InOrder(log[p]) /\ Keeps(log[p], StampsOf(p), Free(p))
  BY DEF CallTypes, CallLog
<1>2. ASSUME NEW p \in Provider, NEW b
      PROVE  /\ pool[p] = {b} => StampsOf(p) = b.stamps /\ (Free(p) <=> b.rpm = 0)
             /\ pool'[p] = {b} => StampsOf(p)' = b.stamps /\ (Free(p)' <=> b.rpm = 0)
  BY DEF StampsOf, Free, Call!Bucket
<1>3. ASSUME NEW p \in Provider, pool'[p] = pool[p]
      PROVE  StampsOf(p)' = StampsOf(p) /\ (Free(p)' <=> Free(p))
  BY <1>3 DEF StampsOf, Free, Call!Bucket
<1>4. ASSUME NEW p \in Provider, NEW s \in Seq(Events), log' = [log EXCEPT ![p] = s],
             InOrder(s), Keeps(s, StampsOf(p)', Free(p)'), \A q \in Provider : q # p => pool'[q] = pool[q]
      PROVE  CallLog'
  <2>1. log' \in [Provider -> Seq(Events)] /\ log'[p] = s /\ \A q \in Provider : q # p => log'[q] = log[q]
    BY <1>1, <1>4
  <2>2. ASSUME NEW q \in Provider
        PROVE  InOrder(log'[q]) /\ Keeps(log'[q], StampsOf(q)', Free(q)')
    <3>1. CASE q = p
      BY <1>4, <2>1, <3>1
    <3>2. CASE q # p
      <4>1. pool'[q] = pool[q] /\ log'[q] = log[q]
        BY <1>4, <2>1, <3>2
      <4>2. StampsOf(q)' = StampsOf(q) /\ (Free(q)' <=> Free(q))
        BY <1>3, <4>1
      <4> QED BY <1>1, <4>1, <4>2 DEF Keeps
    <3> QED BY <3>1, <3>2
  <2> QED BY <2>1, <2>2 DEF CallLog
<1>5. ASSUME NEW p \in Provider, Call!Start(p)
      PROVE  CallLog'
  <2>1. CASE UNCHANGED <<pool, log>>
    BY <1>1, <1>3, <2>1 DEF CallLog, Keeps
  <2>2. CASE pool' = [pool EXCEPT ![p] = {Call!New(rpm[p])}] /\ log' = [log EXCEPT ![p] = Call!ThrownAway(p)]
    <3>1. pool'[p] = {Call!New(rpm[p])} /\ \A q \in Provider : q # p => pool'[q] = pool[q]
      BY <1>1, <2>2
    <3>2. StampsOf(p)' = <<>>
      BY <1>2, <3>1 DEF Call!New
    <3>3. Call!ThrownAway(p) \in Seq(Events) /\ InOrder(Call!ThrownAway(p))
          /\ Keeps(Call!ThrownAway(p), StampsOf(p)', Free(p)')
      BY <3>2, ThrownKeeps
    <3> QED BY <1>4, <2>2, <3>1, <3>3
  <2> QED BY <1>5, <2>1, <2>2 DEF Call!Start
<1>6. ASSUME Call!Acquire
      PROVE  CallLog'
  <2>1. PICK p \in Provider : p = caller.provider /\ pool[p] # {}
    <3>1. caller.at = "asks" /\ caller \in CallerType /\ pool[caller.provider] # {}
      BY <1>6 DEF Call!Acquire, CallTypes
    <3> QED BY <3>1 DEF CallerType, Call!NoJob
  <2> DEFINE b   == Call!Bucket(p)
             now == Call!Current(b.stamps)
             e   == Call!Entry("call", b)
  <2>2. pool[p] = {b} /\ WindowFits(b)
    BY <1>1, <2>1 DEF Call!Bucket
  <2>3. b \in WindowOf /\ b.rpm \in Limits /\ b.rpm \in Nat /\ b.stamps \in Seq(Stamps)
    BY <2>2, CallConstants DEF WindowFits, WindowOf, Call!CallAssumption
  <2>4. Keeps(log[p], b.stamps, b.rpm = 0) /\ InOrder(log[p]) /\ log[p] \in Seq(Events)
    <3>1. StampsOf(p) = b.stamps /\ (Free(p) <=> b.rpm = 0)
      BY <1>2, <2>2
    <3> HIDE DEF b
    <3> QED BY <1>1, <2>2, <3>1 DEF Keeps
  <2>5. /\ now \in Seq(Stamps)
        /\ \A a \in 0 .. Window - 1 : Cardinality(Younger(now, a)) = Cardinality(Younger(b.stamps, a))
    BY <2>3, CurrentKeeps
  <2>6. e \in Events /\ e.what = "call" /\ e.age = 0
    <3>1. 0 \in 0 .. Window - 1
      BY CallConstants DEF Call!CallAssumption
    <3> QED BY <2>3, <3>1 DEF Call!Entry, Events
  <2> HIDE DEF now, e, b
  <2>7. Append(log[p], e) \in Seq(Events) /\ InOrder(Append(log[p], e))
    BY <2>4, <2>6, OneMore, OrderGrows
  <2>8. CASE b.rpm <= 0 /\ Call!Called(p, b)
    <3>1. pool' = [pool EXCEPT ![p] = {b}] /\ log' = [log EXCEPT ![p] = Append(log[p], e)] /\ b.rpm = 0
      BY <2>3, <2>8 DEF Call!Called, e
    <3>2. pool'[p] = {b} /\ \A q \in Provider : q # p => pool'[q] = pool[q]
      BY <1>1, <2>2, <3>1
    <3>3. Free(p)'
      BY <1>2, <2>2, <3>1, <3>2
    <3>4. Keeps(Append(log[p], e), StampsOf(p)', Free(p)')
      BY <3>3 DEF Keeps
    <3> QED BY <1>4, <2>2, <2>7, <3>1, <3>2, <3>4
  <2>9. CASE Call!Called(p, [b EXCEPT !.stamps = Append(now, 0)])
    <3> DEFINE c == [b EXCEPT !.stamps = Append(now, 0)]
    <3>1. pool' = [pool EXCEPT ![p] = {c}] /\ log' = [log EXCEPT ![p] = Append(log[p], Call!Entry("call", c))]
      BY <2>9 DEF Call!Called
    <3>2. c.rpm = b.rpm /\ c.stamps = Append(now, 0)
      BY <2>3 DEF WindowOf
    <3> HIDE DEF c
    <3>3. Call!Entry("call", c) = e
      BY <3>2 DEF Call!Entry, e
    <3>4. pool'[p] = {c} /\ \A q \in Provider : q # p => pool'[q] = pool[q]
      BY <1>1, <2>2, <3>1
    <3>5. StampsOf(p)' = Append(now, 0) /\ (Free(p)' <=> b.rpm = 0)
      BY <1>2, <2>2, <3>2, <3>4
    <3>6. Keeps(Append(log[p], e), Append(now, 0), b.rpm = 0)
      BY <2>3, <2>4, <2>5, <2>6, CallKeeps
    <3>7. Keeps(Append(log[p], e), StampsOf(p)', Free(p)')
      BY <3>5, <3>6 DEF Keeps
    <3> QED BY <1>4, <2>2, <2>7, <3>1, <3>3, <3>4, <3>7
  <2>10. CASE pool' = [pool EXCEPT ![p] = {[b EXCEPT !.stamps = now]}] /\ log' = log
    <3> DEFINE c == [b EXCEPT !.stamps = now]
    <3>1. c.rpm = b.rpm /\ c.stamps = now
      BY <2>3 DEF WindowOf
    <3>2. pool' = [pool EXCEPT ![p] = {c}]
      BY <2>10
    <3> HIDE DEF c
    <3>3. pool'[p] = {c} /\ \A q \in Provider : q # p => pool'[q] = pool[q]
      BY <1>1, <2>2, <3>2
    <3>4. StampsOf(p)' = now /\ (Free(p)' <=> b.rpm = 0)
      BY <1>2, <2>2, <3>1, <3>3
    <3>5. \A i \in DOMAIN log[p] : log[p][i].age \in 0 .. Window - 1
      <4>1. \A i \in DOMAIN log[p] : log[p][i] \in Events
        BY <2>4
      <4> QED BY <4>1 DEF Events
    <3>6. Keeps(log[p], StampsOf(p)', Free(p)')
      BY <2>4, <2>5, <3>4, <3>5 DEF Keeps
    <3>7. log' = [log EXCEPT ![p] = log[p]]
      BY <1>1, <2>10
    <3> QED BY <1>4, <2>2, <2>4, <3>3, <3>6, <3>7
  <2> QED BY <1>6, <2>1, <2>8, <2>9, <2>10 DEF Call!Acquire, now, b
<1>7. ASSUME Call!Wakes \/ Call!Answers \/ \E p \in Provider, limit \in Limits : Call!SetLimit(p, limit)
      PROVE  CallLog'
  <2>1. UNCHANGED <<pool, log>>
    BY <1>7 DEF Call!Wakes, Call!Answers, Call!SetLimit
  <2> QED BY <1>1, <1>3, <2>1 DEF CallLog, Keeps
<1>8. ASSUME Call!Restart
      PROVE  CallLog'
  <2>1. pool' = [p \in Provider |-> {}] /\ log' = [p \in Provider |-> Call!ThrownAway(p)]
    BY <1>8 DEF Call!Restart
  <2>2. \A p \in Provider : StampsOf(p)' = <<>>
    BY <2>1 DEF StampsOf
  <2>3. \A p \in Provider : log'[p] \in Seq(Events) /\ InOrder(log'[p]) /\ Keeps(log'[p], StampsOf(p)', Free(p)')
    BY <2>1, <2>2, ThrownKeeps
  <2> QED BY <2>1, <2>3 DEF CallLog
<1>9. ASSUME Call!Tick
      PROVE  CallLog'
  <2> DEFINE Aged(b) == [b EXCEPT !.stamps = [i \in DOMAIN b.stamps |-> Call!Older(b.stamps[i])]]
  <2>1. pool' = [p \in Provider |-> {Aged(b) : b \in pool[p]}] /\ log' = [p \in Provider |-> Call!Recent(log[p])]
    BY <1>9 DEF Call!Tick
  <2>2. ASSUME NEW p \in Provider
        PROVE  Call!Recent(log[p]) \in Seq(Events) /\ InOrder(Call!Recent(log[p]))
               /\ Keeps(Call!Recent(log[p]), StampsOf(p)', Free(p)')
    <3>1. log[p] \in Seq(Events) /\ InOrder(log[p]) /\ Keeps(log[p], StampsOf(p), Free(p))
      BY <1>1
    <3>2. StampsOf(p) \in Seq(Stamps) /\ StampsOf(p)' = [j \in DOMAIN StampsOf(p) |-> Call!Older(StampsOf(p)[j])]
          /\ (Free(p)' <=> Free(p))
      <4>1. CASE pool[p] = {}
        <5>1. pool'[p] = {}
          BY <2>1, <4>1
        <5>2. StampsOf(p) = <<>> /\ StampsOf(p)' = <<>> /\ ~Free(p) /\ ~Free(p)'
          BY <4>1, <5>1 DEF StampsOf, Free
        <5>3. <<>> = [j \in DOMAIN <<>> |-> Call!Older(<<>>[j])] /\ <<>> \in Seq(Stamps)
          OBVIOUS
        <5> QED BY <5>2, <5>3
      <4>2. CASE pool[p] # {}
        <5>1. PICK b : pool[p] = {b} /\ WindowFits(b)
          BY <1>1, <4>2
        <5>2. pool'[p] = {Aged(b)}
          BY <2>1, <5>1
        <5>3. b \in WindowOf /\ b.stamps \in Seq(Stamps)
          BY <5>1 DEF WindowFits, WindowOf
        <5>4. /\ Aged(b).stamps = [i \in DOMAIN b.stamps |-> Call!Older(b.stamps[i])]
              /\ Aged(b).rpm = b.rpm
          BY <5>3 DEF WindowOf
        <5> HIDE DEF Aged
        <5>5. /\ StampsOf(p) = b.stamps /\ (Free(p) <=> b.rpm = 0)
              /\ StampsOf(p)' = Aged(b).stamps /\ (Free(p)' <=> Aged(b).rpm = 0)
          BY <1>2, <5>1, <5>2
        <5> QED BY <5>3, <5>4, <5>5
      <4> QED BY <4>1, <4>2
    <3> DEFINE new == [j \in DOMAIN StampsOf(p) |-> Call!Older(StampsOf(p)[j])]
    <3>3. Call!Recent(log[p]) \in Seq(Events) /\ InOrder(Call!Recent(log[p])) /\ Keeps(Call!Recent(log[p]), new, Free(p))
      BY <3>1, <3>2, HistoryKeeps
    <3>4. StampsOf(p)' = new
      BY <3>2
    <3> HIDE DEF new
    <3> QED BY <3>2, <3>3, <3>4 DEF Keeps
  <2> QED BY <2>1, <2>2 DEF CallLog
<1> QED BY <1>5, <1>6, <1>7, <1>8, <1>9 DEF Call!CallNext

\* The instance counts as everybody does.
LEMMA CountsAlike == \A S : Call!Cardinality(S) = Cardinality(S)
BY DEF Call!Cardinality, Cardinality

\* The calls of the last minute are no more than its windows let through.
LEMMA CallsWithinPlaces ==
    ASSUME CallTypes, CallLog
    PROVE  Call!CallsPerMinute
<1> SUFFICES ASSUME NEW p \in Provider, ~Call!Unlimited(p)
             PROVE  Cardinality(Call!Of(p, "call")) <= Cardinality(Call!Places(p))
  BY CountsAlike DEF Call!CallsPerMinute
<1> DEFINE s == log[p]
           P == PlacesIn(s, 1)
           Q == UNION {{0} \X (1 .. b.rpm) : b \in pool[p]}
           c == Cardinality(CallsIn(s, 1))
           d == Cardinality(P)
<1>1. s \in Seq(Events) /\ Keeps(s, StampsOf(p), Free(p)) /\ DOMAIN s = 1 .. Len(s) /\ Len(s) \in Nat
  BY DEF CallLog
<1>2. Call!Of(p, "call") = CallsIn(s, 1) /\ Call!Of(p, "end") = EndsIn(s, 1)
  BY <1>1 DEF Call!Of, CallsIn, EndsIn
<1>3. Call!Places(p) = P \cup Q
  BY <1>2 DEF Call!Places, PlacesIn
<1>4. ~Free(p) /\ \A j \in EndsIn(s, 1) : s[j].rpm # 0
  BY <1>2 DEF Call!Unlimited, Free
<1>5. IsFiniteSet(P) /\ c \in Nat /\ d \in Nat
  BY <1>1, HistoryFinite
<1>6. P \cap Q = {}
  <2>1. \A x \in P : x[1] \in 1 .. Len(s)
    BY <1>1 DEF PlacesIn, EndsIn
  <2>2. \A x \in Q : x[1] = 0
    OBVIOUS
  <2> HIDE DEF P, Q
  <2> QED BY <1>1, <2>1, <2>2
<1>7. IsFiniteSet(Q) /\ Cardinality(Q) \in Nat /\ Len(StampsOf(p)) <= Cardinality(Q) /\ StampsOf(p) \in Seq(Stamps)
  <2>1. CASE pool[p] = {}
    <3>1. Q = {} /\ StampsOf(p) = <<>>
      BY <2>1 DEF StampsOf
    <3>2. <<>> \in Seq(Stamps) /\ Len(<<>>) = 0
      OBVIOUS
    <3> HIDE DEF Q
    <3> QED BY <3>1, <3>2, FS_EmptySet
  <2>2. CASE pool[p] # {}
    <3>1. PICK b : pool[p] = {b} /\ WindowFits(b)
      BY <2>2 DEF CallTypes
    <3>2. b.rpm \in Nat /\ b.stamps \in Seq(Stamps) /\ Len(b.stamps) <= b.rpm
      BY <3>1, CallConstants DEF WindowFits, WindowOf, Call!CallAssumption
    <3>3. Q = {0} \X (1 .. b.rpm) /\ StampsOf(p) = b.stamps
      BY <3>1 DEF StampsOf, Call!Bucket
    <3> HIDE DEF Q
    <3> DEFINE m == b.rpm
    <3>4. m \in Nat
      BY <3>2
    <3> HIDE DEF m
    <3>5. IsFiniteSet(1 .. m) /\ Cardinality(1 .. m) = m
      <4>1. 1 \in Int /\ m \in Int /\ (IF 1 > m THEN 0 ELSE m - 1 + 1) = m
        BY <3>4
      <4> QED BY <4>1, FS_Interval
    <3>6. IsFiniteSet({0}) /\ Cardinality({0}) = 1
      BY FS_Singleton
    <3>7. IsFiniteSet({0} \X (1 .. m)) /\ Cardinality({0} \X (1 .. m)) = 1 * m
      BY <3>5, <3>6, FS_Product
    <3>8. 1 * m = m
      BY <3>4
    <3>9. IsFiniteSet(Q) /\ Cardinality(Q) = m
      BY <3>3, <3>7, <3>8 DEF m
    <3> QED BY <3>2, <3>3, <3>4, <3>9 DEF m
  <2> QED BY <2>1, <2>2
<1> HIDE DEF P, Q
<1>8. Cardinality(P \cup Q) = d + Cardinality(Q)
  <2>1. Cardinality(P \cup Q) = Cardinality(P) + Cardinality(Q) - Cardinality({})
    BY <1>5, <1>6, <1>7, FS_Union
  <2> QED BY <1>5, <1>7, <2>1, FS_EmptySet
<1>9. CASE s = <<>>
  <2>1. CallsIn(s, 1) = {}
    <3>1. Len(s) = 0
      BY <1>9
    <3> HIDE DEF s
    <3> QED BY <3>1 DEF CallsIn
  <2>2. c = 0
    BY <2>1, FS_EmptySet
  <2> QED BY <1>2, <1>3, <1>5, <1>7, <1>8, <2>2
<1>10. CASE s # <<>>
  <2>1. 1 \in DOMAIN s
    BY <1>1, <1>10
  <2> DEFINE y == Cardinality(Younger(StampsOf(p), s[1].age))
  <2>2. c <= d + y
    BY <1>1, <1>4, <2>1 DEF Keeps, P
  <2>3. y \in Nat /\ y <= Len(StampsOf(p)) /\ Len(StampsOf(p)) \in Nat
    BY <1>7, YoungerFinite
  <2> HIDE DEF y, c, d
  <2>4. c <= d + Cardinality(Q)
    BY <1>5, <1>7, <2>2, <2>3
  <2> QED BY <1>2, <1>3, <1>8, <2>4 DEF c
<1> QED BY <1>9, <1>10

\* A worker starts without windows and without a job, and has called nobody.
LEMMA CallStarts ==
    ASSUME Call!CallInit
    PROVE  CallTypes /\ CallLog
<1>1. CallTypes
  BY DEF Call!CallInit, CallTypes, CallerType, Call!NoJob
<1>2. <<>> \in Seq(Events) /\ InOrder(<<>>) /\ \A ages, free : Keeps(<<>>, ages, free)
  BY DEF InOrder, Keeps
<1>3. log \in [Provider -> Seq(Events)] /\ \A p \in Provider : log[p] = <<>>
  BY <1>2 DEF Call!CallInit
<1> QED BY <1>1, <1>2, <1>3 DEF CallLog

-----------------------------------------------------------------------------
(* Together *)

\* A step of the whole is a step of each of these three parts, or leaves its variables alone.
LEMMA OthersMove ==
    ASSUME [BackgroundNext]_<<which, bankVars, storeVars, outboxVars, reflectVars, callVars>>
    PROVE  /\ Bank!BankNext \/ UNCHANGED bankVars
           /\ Reflect!ReflectNext \/ UNCHANGED reflectVars
           /\ Call!CallNext \/ UNCHANGED callVars
BY DEF BackgroundNext, BankStep, StoreStep, OutboxStep, ReflectStep, CallStep

\* Every step keeps the types of the bank.
LEMMA BankTypesKept ==
    ASSUME BankTypes, Bank!BankNext \/ UNCHANGED bankVars
    PROVE  BankTypes'
<1>1. CASE UNCHANGED bankVars
  <2>1. UNCHANGED <<tpl, pages, job, tab, script, asked, reads, mishaps>>
    BY <1>1 DEF bankVars
  <2> QED BY <2>1 DEF BankTypes
<1> QED BY <1>1, BankTypesStep

\* Every step keeps what the bank has agreed on.
LEMMA BankInvKept ==
    ASSUME OneTab, PromptSaves, BankTypes, BankInv, Bank!BankNext \/ UNCHANGED bankVars
    PROVE  BankInv'
<1>1. CASE UNCHANGED bankVars
  <2>1. UNCHANGED <<tpl, pages, job, tab, script, asked, reads, mishaps>>
    BY <1>1 DEF bankVars
  <2> QED
    BY <2>1 DEF BankInv, PutsFit, PutsAlone, TabKnows, JobsFit, Bank!Active, Bank!Live, Bank!TypesAgree,
                Bank!RowsFitKind, Bank!MarkedAsUploaded
<1> QED BY <1>1, BankInvStep

\* Every step keeps the types of the reflection and of the calls.
LEMMA OthersKept ==
    /\ ReflectTypes /\ (Reflect!ReflectNext \/ UNCHANGED reflectVars) => ReflectTypes'
    /\ CallTypes /\ (Call!CallNext \/ UNCHANGED callVars) => CallTypes'
    /\ CallTypes /\ CallLog /\ (Call!CallNext \/ UNCHANGED callVars) => CallLog'
<1>1. ASSUME ReflectTypes, UNCHANGED reflectVars
      PROVE  ReflectTypes'
  <2>1. UNCHANGED <<corr, clean, reflectJob, row, checked, opened, askedRuns, reflectMishaps>>
    BY <1>1 DEF reflectVars
  <2> QED BY <1>1, <2>1 DEF ReflectTypes, Reflect!ReflectTypeOK
<1>2. ASSUME CallTypes, UNCHANGED callVars
      PROVE  CallTypes'
  <2>1. UNCHANGED <<rpm, pool, caller, log>>
    BY <1>2 DEF callVars
  <2> QED BY <1>2, <2>1 DEF CallTypes
<1>3. ASSUME CallLog, UNCHANGED callVars
      PROVE  CallLog'
  <2>1. UNCHANGED <<pool, log>>
    BY <1>3 DEF callVars
  <2> QED BY <1>3, <2>1 DEF CallLog, Keeps, StampsOf, Free, Call!Bucket
<1> QED BY <1>1, <1>2, <1>3, ReflectTypesStep, CallTypesStep, CallLogStep

\* The types of all five parts, with the history of the calls.
AllTypes == BankTypes /\ StoreTypes /\ OutboxTypes /\ ReflectTypes /\ CallTypes /\ CallLog

\* Every step keeps them.
LEMMA AllTypesStep ==
    ASSUME AllTypes, [BackgroundNext]_<<which, bankVars, storeVars, outboxVars, reflectVars, callVars>>
    PROVE  AllTypes'
<1>1. BankTypes' /\ ReflectTypes' /\ CallTypes' /\ CallLog'
  BY OthersMove, BankTypesKept, OthersKept DEF AllTypes
<1>2. StoreTypes'
  <2>1. CASE UNCHANGED storeVars
    <3>1. UNCHANGED <<disk, rows, deleted, st, photo, keep, request, uploads, crashes>>
      BY <2>1 DEF storeVars
    <3> QED BY <3>1 DEF AllTypes, StoreTypes, Store!StoreTypeOK, RequestsFit
  <2> QED BY <2>1, PartsMove, StoreTypesStep DEF AllTypes
<1>3. OutboxTypes'
  <2>1. CASE UNCHANGED outboxVars
    <3>1. UNCHANGED <<bot, inbox, note, told, lastId, gone, tick, day, digests, presses, unlinks, lost>>
      BY <2>1 DEF outboxVars
    <3>2. TickFits /\ BoxFits /\ RowsFit
      BY OutboxTypesAre DEF AllTypes
    <3>3. TickFits' /\ BoxFits'
      BY <3>1, <3>2 DEF TickFits, BoxFits, BoundedIds
    <3>4. RowsFit'
      BY <3>1, <3>2 DEF RowsFit, Outbox!Present
    <3> QED BY <3>3, <3>4, OutboxTypesWillBe
  <2> QED BY <2>1, PartsMove, OutboxTypesStep DEF AllTypes
<1> QED BY <1>1, <1>2, <1>3 DEF AllTypes

\* Type correctness of the five parts that work in the background, for any number of templates,
\* scripts, clients, bots, rows and providers: in particular a tab has one PUT on its way at most, a
\* provider's window holds no more stamps than its limit, and the job that runs was given one.
THEOREM BackgroundTypesHold == BackgroundSpec => []BackgroundTypeOK
<1>1. BackgroundInit => AllTypes
  BY BankStarts, StoreStarts, OutboxStarts, ReflectStarts, CallStarts DEF BackgroundInit, AllTypes, OutboxInv
<1>2. AllTypes /\ [BackgroundNext]_<<which, bankVars, storeVars, outboxVars, reflectVars, callVars>> => AllTypes'
  BY AllTypesStep
<1>3. AllTypes => BackgroundTypeOK
  BY BankTypesSay, CallTypesSay DEF AllTypes, BackgroundTypeOK, StoreTypes, OutboxTypes, ReflectTypes
<1> QED BY <1>1, <1>2, <1>3, PTL DEF BackgroundSpec

\* A template, the rows of its scheme and the scripts marked with it keep one type: readings that
\* end while a tab is open, saves that race them, copies and retries leave no template whose rows are
\* shaped for another type, and no script marked as another type than it was uploaded against
\* (assignments.py, extract_jobs.py, AssignmentEditor.tsx), while one tab edits and no reading starts
\* or ends while its save is on its way.
THEOREM OneTypeThroughout ==
    ASSUME OneTab, PromptSaves
    PROVE  BackgroundSpec => []TypesAgree
<1>1. BackgroundInit => BankTypes /\ BankInv
  BY BankStarts DEF BackgroundInit
<1>2. /\ BankTypes /\ BankInv
      /\ [BackgroundNext]_<<which, bankVars, storeVars, outboxVars, reflectVars, callVars>>
      => (BankTypes /\ BankInv)'
  BY OthersMove, BankTypesKept, BankInvKept
<1>3. BankInv => TypesAgree
  BY DEF BankInv, TypesAgree
<1> QED BY <1>1, <1>2, <1>3, PTL DEF BackgroundSpec

\* A nightly or asked reflect job opens one row of reflection_runs however often it is attempted
\* (reflect_job.py), unless a crash took the row's id with it.
THEOREM ReflectOpensOnce == BackgroundSpec => []Reflect!OneRowPerJob
<1>1. BackgroundInit => ReflectTypes
  BY ReflectStarts DEF BackgroundInit
<1>2. ReflectTypes /\ [BackgroundNext]_<<which, bankVars, storeVars, outboxVars, reflectVars, callVars>> => ReflectTypes'
  BY OthersMove, OthersKept
<1>3. ReflectTypes => Reflect!OneRowPerJob
  BY DEF ReflectTypes, Reflect!OneRowPerJob
<1> QED BY <1>1, <1>2, <1>3, PTL DEF BackgroundSpec

\* In any minute a provider gets from one worker no more calls than the limits of the windows it has had in
\* that minute (providers/ratelimit.py), for any number of providers, limits and ticks to the minute: jobs that
\* follow each other share a window, and only a new limit or a restart opens another.
THEOREM CallsKeepToLimits == BackgroundSpec => []Call!CallsPerMinute
<1>1. BackgroundInit => CallTypes /\ CallLog
  BY CallStarts DEF BackgroundInit
<1>2. /\ CallTypes /\ CallLog
      /\ [BackgroundNext]_<<which, bankVars, storeVars, outboxVars, reflectVars, callVars>>
      => (CallTypes /\ CallLog)'
  BY OthersMove, OthersKept
<1>3. CallTypes /\ CallLog => Call!CallsPerMinute
  BY CallsWithinPlaces
<1> QED BY <1>1, <1>2, <1>3, PTL DEF BackgroundSpec

-----------------------------------------------------------------------------
(* What is read stays *)

\* The reading that a column of a template, of a form or of a body descends from.
Reading(r, w) == IF w = "paper" THEN r.questions ELSE r.scheme.at

\* What a tab shows is as new as what is stored, but for the readings that have ended and that its next
\* poll will take; what it has on its way is what it shows.
TabsUpToDate ==
    \A b \in Tab :
        /\ \A w \in What : Reading(tab[b].form, w) <= reads
        /\ tab[b].pc # "idle" => tpl[tab[b].t].row # "unused"
        /\ tab[b].pc = "editing" /\ Bank!Live(tab[b].t) =>
              \A w \in What : \/ Reading(tab[b].form, w) >= Reading(tpl[tab[b].t], w)
                              \/ w \in tab[b].knows /\ job[tab[b].t][w].st = "done"
        /\ \A f \in tab[b].put : \A w \in What : Reading(f, w) = Reading(tab[b].form, w)

\* No row is ahead of the readings that have ended.
RowsBehind == \A t \in Template, w \in What : Reading(tpl[t], w) <= reads

ReadsInv == TabsUpToDate /\ RowsBehind

\* The readings behind a form, a row or a body are numbers.
LEMMA ReadingsCount ==
    ASSUME BankTypes
    PROVE  /\ reads \in Nat
           /\ \A w \in What : \A f \in Forms : Reading(f, w) \in Nat
           /\ \A w \in What : \A t \in Template : Reading(tpl[t], w) \in Nat
           /\ \A w \in What : \A b \in Tab : Reading(tab[b].form, w) \in Nat /\ tab[b].form \in Forms
<1>1. MaxReads \in Nat
  BY BankConstants DEF Bank!BankAssumption
<1>2. \A f \in Forms : f.questions \in Nat /\ f.scheme.at \in Nat
  BY <1>1 DEF Forms, Bank!Form, Bank!Rows
<1>3. \A t \in Template : tpl[t].questions \in Nat /\ tpl[t].scheme.at \in Nat
  BY <1>1 DEF BankTypes, Bank!Row, Bank!Rows
<1>4. \A b \in Tab : tab[b].form \in Forms
  BY DEF BankTypes, Editors, Bank!Editor, Forms
<1> QED BY <1>1, <1>2, <1>3, <1>4 DEF Reading, BankTypes

\* What a step makes of the form: the teacher's typing descends from what was shown.
LEMMA TypedStays ==
    ASSUME BankTypes, NEW b \in Tab, Bank!Type(b)
    PROVE  /\ tab'[b].pc = tab[b].pc /\ tab'[b].t = tab[b].t /\ tab'[b].knows = tab[b].knows /\ tab'[b].put = tab[b].put
           /\ \A w \in What : Reading(tab'[b].form, w) = Reading(tab[b].form, w)
<1>1. tab[b] \in Editors /\ tab[b].form \in Forms /\ b \in DOMAIN tab
  BY DEF BankTypes, Editors, Bank!Editor, Forms
<1>2. PICK e \in Editors :
          /\ Bank!Shows(b, e) /\ TabFits(e)
          /\ e.pc = tab[b].pc /\ e.t = tab[b].t /\ e.got = tab[b].got /\ e.knows = tab[b].knows /\ e.put = tab[b].put
  BY TypeFits
<1>3. tab'[b] = e
  BY <1>2, TabsFit
<1> DEFINE Same == tab'[b].form.questions = tab[b].form.questions /\ tab'[b].form.scheme.at = tab[b].form.scheme.at
<1>4. Same
  <2>1. ASSUME NEW k \in Bank!SCHEME_KINDS,
               tab' = [tab EXCEPT ![b] = [tab[b] EXCEPT !.form.kind = k, !.form.scheme.as = "none"]]
        PROVE  Same
    BY <1>1, <2>1 DEF Editors, Bank!Editor, Forms, Bank!Form, Bank!Rows
  <2>2. ASSUME tab' = [tab EXCEPT ![b] = [tab[b] EXCEPT !.form.scheme.as = tab[b].form.kind]]
        PROVE  Same
    BY <1>1, <2>2 DEF Editors, Bank!Editor, Forms, Bank!Form, Bank!Rows
  <2>3. ASSUME NEW kept \in Keep, tab' = [tab EXCEPT ![b] = [tab[b] EXCEPT !.form.keep = kept]]
        PROVE  Same
    BY <1>1, <2>3 DEF Editors, Bank!Editor, Forms, Bank!Form, Bank!Rows
  <2> QED BY <2>1, <2>2, <2>3 DEF Bank!Type, Bank!Shows
<1> QED BY <1>2, <1>3, <1>4 DEF Reading

\* What is on its way is what is shown.
LEMMA SentAsShown ==
    ASSUME BankTypes, NEW b \in Tab, Bank!Send(b)
    PROVE  /\ tab'[b].pc = tab[b].pc /\ tab'[b].t = tab[b].t /\ tab'[b].knows = tab[b].knows
           /\ tab'[b].form = tab[b].form
           /\ \A f \in tab'[b].put : \A w \in What : Reading(f, w) = Reading(tab[b].form, w)
<1>1. tab[b] \in Editors /\ tab[b].form \in Forms /\ b \in DOMAIN tab
  BY DEF BankTypes, Editors, Bank!Editor, Forms
<1>2. tab' = [tab EXCEPT ![b] = [tab[b] EXCEPT !.put = {Bank!Body(tab[b].form)}]]
  BY DEF Bank!Send, Bank!Shows
<1>3. /\ Bank!Body(tab[b].form).questions = tab[b].form.questions
      /\ Bank!Body(tab[b].form).scheme.at = tab[b].form.scheme.at
  BY <1>1 DEF Bank!Body, Forms, Bank!Form, Bank!Rows
<1> HIDE DEF Bank!Body
<1> QED BY <1>1, <1>2, <1>3 DEF Editors, Bank!Editor, Reading

\* A poll takes the columns of the readings that have ended.
LEMMA PolledIsNew ==
    ASSUME BankTypes, NEW b \in Tab, Bank!Poll(b)
    PROVE  /\ tab'[b].pc = tab[b].pc /\ tab'[b].t = tab[b].t /\ tab'[b].put = tab[b].put
           /\ \A w \in What : Reading(tab'[b].form, w) =
                 IF w \in tab[b].knows /\ job[tab[b].t][w].st = "done" THEN Reading(tpl[tab[b].t], w)
                                                                   ELSE Reading(tab[b].form, w)
<1> DEFINE t == tab[b].t
           finished == {w \in tab[b].knows : job[t][w].st = "done"}
           q == IF "paper" \in finished THEN tpl[t].questions ELSE tab[b].form.questions
           r == IF "scheme" \in finished THEN tpl[t].scheme ELSE tab[b].form.scheme
           knows == {w \in What : Bank!Active(t, w)}
<1>1. tab[b] \in Editors /\ tab[b].form \in Forms /\ b \in DOMAIN tab
  BY DEF BankTypes, Editors, Bank!Editor, Forms
<1>2. tab' = [tab EXCEPT ![b] = [tab[b] EXCEPT !.knows = knows, !.form.questions = q, !.form.scheme = r]]
  BY DEF Bank!Poll, Bank!Shows, What
<1>3. \A w \in What : w = "paper" \/ w = "scheme"
  BY DEF What, Bank!What
<1>4. \A w \in What : (IF w = "paper" THEN q ELSE r.at) =
          IF w \in tab[b].knows /\ job[t][w].st = "done" THEN Reading(tpl[t], w) ELSE Reading(tab[b].form, w)
  BY <1>3 DEF Reading
<1> HIDE DEF q, r, knows
<1>5. /\ tab'[b].pc = tab[b].pc /\ tab'[b].t = t /\ tab'[b].put = tab[b].put
      /\ tab'[b].form.questions = q /\ tab'[b].form.scheme = r
  BY <1>1, <1>2 DEF Editors, Bank!Editor, Forms, Bank!Form
<1>6. \A w \in What : Reading(tab'[b].form, w) = IF w = "paper" THEN q ELSE r.at
  BY <1>5 DEF Reading
<1> QED BY <1>4, <1>5, <1>6

\* What a tab loads is what is stored.
LEMMA LoadedIsNew ==
    ASSUME BankTypes, LoadsAtOnce, NEW b \in Tab, NEW answers \in SUBSET {"template", "status"}, Bank!Answer(b, answers)
    PROVE  \/ tab'[b] = Bank!Closed
           \/ /\ tab[b].pc = "loading" /\ tab'[b].t = tab[b].t /\ tab'[b].put = tab[b].put
              /\ \A w \in What : Reading(tab'[b].form, w) = Reading(tpl[tab[b].t], w)
<1> DEFINE e == tab[b]
           knows == {w \in What : Bank!Active(e.t, w)}
           f == Bank!Loaded(e.t)
<1>1. e \in Editors /\ e.form \in Forms /\ b \in DOMAIN tab /\ e.pc = "loading"
  BY DEF BankTypes, Editors, Bank!Editor, Forms, Bank!Answer
<1>2. CASE ~Bank!Live(e.t)
  BY <1>1, <1>2 DEF Bank!Answer, Bank!Shows
<1>3. CASE Bank!Live(e.t)
  <2>1. answers = {"template", "status"} /\ e.got \cup answers = {"template", "status"}
    <3>1. e.got \in SUBSET {"template", "status"}
      BY <1>1 DEF Editors, Bank!Editor
    <3> QED BY <3>1 DEF Bank!Answer
  <2>2. tab' = [tab EXCEPT ![b] = [e EXCEPT !.got = {}, !.pc = "editing", !.form = f, !.knows = knows]]
    BY <1>3, <2>1 DEF Bank!Answer, Bank!Shows, What
  <2>3. f.questions = tpl[e.t].questions /\ f.scheme = tpl[e.t].scheme
    BY DEF Bank!Loaded
  <2> HIDE DEF f, knows
  <2>4. tab'[b].t = e.t /\ tab'[b].put = e.put /\ tab'[b].form = f
    BY <1>1, <2>2 DEF Editors, Bank!Editor
  <2> QED BY <1>1, <2>3, <2>4 DEF Reading
<1> QED BY <1>2, <1>3

\* A new template, as its tab shows it, has no readings behind it.
LEMMA CreatedIsBare ==
    ASSUME BankTypes, NEW b \in Tab, NEW t \in Template, Bank!Create(b, t)
    PROVE  /\ tab'[b].t = t /\ tab'[b].put = {} /\ tpl'[t].row = "live"
           /\ \A w \in What : Reading(tab'[b].form, w) = 0 /\ Reading(tpl'[t], w) = 0
<1>1. PICK k \in Bank!SCHEME_KINDS, kept \in Keep :
          /\ tpl' = [tpl EXCEPT ![t] = Bank!Columns([Bank!EMPTY EXCEPT !.kind = k, !.keep = kept])]
          /\ tab' = [tab EXCEPT ![b] = [Bank!Closed EXCEPT !.pc = "editing", !.t = t,
                                               !.form = [Bank!EMPTY EXCEPT !.kind = k, !.keep = kept]]]
  BY DEF Bank!Create, Bank!Shows
<1> DEFINE f == [Bank!EMPTY EXCEPT !.kind = k, !.keep = kept]
<1>2. f.questions = 0 /\ f.scheme.at = 0
  BY DEF Bank!EMPTY, Bank!Typed
<1>3. /\ Bank!Columns(f).row = "live" /\ Bank!Columns(f).questions = f.questions
      /\ Bank!Columns(f).scheme = f.scheme
  BY DEF Bank!Columns
<1> HIDE DEF f
<1>4. tpl'[t] = Bank!Columns(f)
  BY <1>1 DEF BankTypes, f
<1>5. tab'[b].t = t /\ tab'[b].put = {} /\ tab'[b].form = f
  <2>1. tab'[b] = [Bank!Closed EXCEPT !.pc = "editing", !.t = t, !.form = f]
    BY <1>1 DEF BankTypes, f
  <2> QED BY <2>1 DEF Bank!Closed
<1> QED BY <1>2, <1>3, <1>4, <1>5 DEF Reading

\* A closed tab shows nothing that was read.
LEMMA ClosedIsBare ==
    /\ Bank!Closed.pc = "idle" /\ Bank!Closed.put = {}
    /\ \A w \in What : Reading(Bank!Closed.form, w) = 0
BY DEF Bank!Closed, Bank!EMPTY, Bank!Typed, Reading

\* A save stores what was on its way.
LEMMA SavedAsShown ==
    ASSUME BankTypes, NEW b \in Tab, Bank!Save(b), tab[b].t \in Template
    PROVE  /\ tab'[b].pc = tab[b].pc /\ tab'[b].t = tab[b].t /\ tab'[b].knows = tab[b].knows
           /\ tab'[b].form = tab[b].form /\ tab'[b].put = {} /\ tab[b].put # {}
           /\ \A u \in Template : u # tab[b].t \/ ~Bank!Live(tab[b].t) => tpl'[u] = tpl[u]
           /\ Bank!Live(tab[b].t) =>
                 /\ tpl'[tab[b].t].row = "live"
                 /\ \E f \in tab[b].put : \A w \in What : Reading(tpl'[tab[b].t], w) = Reading(f, w)
<1>1. tab[b] \in Editors /\ b \in DOMAIN tab /\ tpl \in [Template -> Bank!Row]
  BY DEF BankTypes
<1>2. PICK f \in tab[b].put :
          /\ tab' = [tab EXCEPT ![b] = [tab[b] EXCEPT !.put = {}]]
          /\ tpl' = IF Bank!Live(tab[b].t) THEN [tpl EXCEPT ![tab[b].t] = Bank!Columns(f)] ELSE tpl
  BY DEF Bank!Save, Bank!Shows
<1>3. /\ Bank!Columns(f).row = "live" /\ Bank!Columns(f).questions = f.questions
      /\ Bank!Columns(f).scheme = f.scheme
  BY DEF Bank!Columns
<1>4. /\ tab'[b].pc = tab[b].pc /\ tab'[b].t = tab[b].t /\ tab'[b].knows = tab[b].knows
      /\ tab'[b].form = tab[b].form /\ tab'[b].put = {}
  BY <1>1, <1>2 DEF Editors, Bank!Editor
<1>5. \A u \in Template : u # tab[b].t \/ ~Bank!Live(tab[b].t) => tpl'[u] = tpl[u]
  BY <1>1, <1>2
<1>6. Bank!Live(tab[b].t) => tpl'[tab[b].t] = Bank!Columns(f)
  BY <1>1, <1>2
<1> QED BY <1>2, <1>3, <1>4, <1>5, <1>6 DEF Reading

\* The tab shows something else.
LEMMA TabUpToDate ==
    ASSUME OneTab, NEW b \in Tab,
           \A w \in What : Reading(tab'[b].form, w) <= reads',
           tab'[b].pc # "idle" => tpl'[tab'[b].t].row # "unused",
           tab'[b].pc = "editing" /\ tpl'[tab'[b].t].row = "live" =>
              \A w \in What : \/ Reading(tab'[b].form, w) >= Reading(tpl'[tab'[b].t], w)
                              \/ w \in tab'[b].knows /\ job'[tab'[b].t][w].st = "done",
           \A f \in tab'[b].put : \A w \in What : Reading(f, w) = Reading(tab'[b].form, w)
    PROVE  TabsUpToDate'
<1>1. \A c \in Tab : c = b
  BY DEF OneTab
<1> QED BY <1>1 DEF TabsUpToDate, Bank!Live, Reading

\* No tab changes, nor what is stored of a template that one edits.
LEMMA TabsRest ==
    ASSUME BankTypes, TabsUpToDate, UNCHANGED <<tab, reads>>,
           \A t \in Template : tpl[t].row # "unused" =>
              /\ tpl'[t].row # "unused"
              /\ tpl'[t].row = "live" => tpl[t].row = "live" /\ \A w \in What : Reading(tpl'[t], w) = Reading(tpl[t], w),
           \A t \in Template, w \in What : job[t][w].st = "done" => job'[t][w].st = "done"
    PROVE  TabsUpToDate'
<1>1. \A b \in Tab : tab[b].pc # "idle" => tab[b].t \in Template
  BY DEF BankTypes, TabFits
<1>2. ASSUME NEW b \in Tab
      PROVE  /\ \A w \in What : Reading(tab'[b].form, w) <= reads'
             /\ tab'[b].pc # "idle" => tpl'[tab'[b].t].row # "unused"
             /\ tab'[b].pc = "editing" /\ tpl'[tab'[b].t].row = "live" =>
                   \A w \in What : \/ Reading(tab'[b].form, w) >= Reading(tpl'[tab'[b].t], w)
                                   \/ w \in tab'[b].knows /\ job'[tab'[b].t][w].st = "done"
             /\ \A f \in tab'[b].put : \A w \in What : Reading(f, w) = Reading(tab'[b].form, w)
  BY <1>1 DEF TabsUpToDate, Bank!Live
<1> QED BY <1>2 DEF TabsUpToDate, Bank!Live, Reading

\* The columns of a template do not go back while it lives.
NoneBack ==
    \A t \in Template : Bank!Live(t) /\ Bank!Live(t)' =>
        tpl'[t].questions >= tpl[t].questions /\ tpl'[t].scheme.at >= tpl[t].scheme.at

\* Templates that do not change do not go back.
LEMMA RowsKeep ==
    ASSUME BankTypes, ReadsInv, UNCHANGED <<tpl, reads>>
    PROVE  NoneBack /\ RowsBehind'
<1>1. \A t \in Template : tpl[t].questions \in Nat /\ tpl[t].scheme.at \in Nat
  <2>1. \A t \in Template : Reading(tpl[t], "paper") \in Nat /\ Reading(tpl[t], "scheme") \in Nat
    BY ReadingsCount DEF What, Bank!What
  <2> QED BY <2>1 DEF Reading
<1>2. NoneBack
  BY <1>1 DEF NoneBack
<1>3. RowsBehind'
  BY DEF ReadsInv, RowsBehind, Reading
<1> QED BY <1>2, <1>3

\* No column that a tab of its own has shown, or a job writes, goes back.
LEMMA ReadsInvStep ==
    ASSUME OneTab, PromptSaves, LoadsAtOnce, BankTypes, BankInv, ReadsInv, Bank!BankNext
    PROVE  ReadsInv' /\ NoneBack
<1>0. /\ PutsAlone /\ TabKnows /\ TabsUpToDate /\ RowsBehind
      /\ tpl \in [Template -> Bank!Row] /\ job \in [Template -> [What -> Bank!Job]]
      /\ \A b \in Tab : tab[b].pc # "idle" => tab[b].t \in Template
  BY DEF BankInv, ReadsInv, BankTypes, TabFits
<1>n. /\ reads \in Nat /\ \A w \in What, t \in Template : Reading(tpl[t], w) \in Nat
      /\ \A w \in What, b \in Tab : Reading(tab[b].form, w) \in Nat
  BY ReadingsCount
<1>w. What = {"paper", "scheme"}
  BY DEF What, Bank!What
<1>1. ASSUME NEW b \in Tab, Bank!Type(b) \/ Bank!Send(b) \/ Bank!Poll(b) \/ Bank!Close(b)
      PROVE  ReadsInv' /\ NoneBack
  <2>1. UNCHANGED <<tpl, job, reads>>
    BY <1>1 DEF Bank!Type, Bank!Send, Bank!Poll, Bank!Close
  <2>2. CASE Bank!Type(b)
    <3>1. tab[b].put = {}
      BY <2>2 DEF Bank!Type
    <3>2. TabsUpToDate'
      BY <1>0, <2>1, <2>2, <3>1, TypedStays, TabUpToDate DEF TabsUpToDate, Bank!Live
    <3> QED BY <2>1, <3>2, RowsKeep DEF ReadsInv
  <2>3. CASE Bank!Send(b)
    <3>1. TabsUpToDate'
      BY <1>0, <2>1, <2>3, SentAsShown, TabUpToDate DEF TabsUpToDate, Bank!Live
    <3> QED BY <2>1, <3>1, RowsKeep DEF ReadsInv
  <2>4. CASE Bank!Poll(b)
    <3>1. tab[b].pc = "editing" /\ tab[b].knows # {} /\ tab[b].put = {} /\ tab[b].t \in Template
      BY <1>0, <2>4 DEF Bank!Poll, PutsAlone
    <3>2. TabsUpToDate'
      BY <1>0, <1>n, <2>1, <2>4, <3>1, PolledIsNew, TabUpToDate DEF TabsUpToDate, Bank!Live, RowsBehind
    <3> QED BY <2>1, <3>2, RowsKeep DEF ReadsInv
  <2>5. CASE Bank!Close(b)
    <3>1. tab'[b] = Bank!Closed
      BY <2>5 DEF Bank!Close, Bank!Shows, BankTypes
    <3>2. TabsUpToDate'
      BY <1>0, <1>n, <2>1, <3>1, ClosedIsBare, TabUpToDate
    <3> QED BY <2>1, <3>2, RowsKeep DEF ReadsInv
  <2> QED BY <1>1, <2>2, <2>3, <2>4, <2>5
<1>2. ASSUME NEW b \in Tab, Bank!Save(b)
      PROVE  ReadsInv' /\ NoneBack
  <2> DEFINE t == tab[b].t
  <2>1. tab[b].put # {} /\ tab[b].pc = "editing" /\ tab[b].knows = {} /\ t \in Template
    BY <1>0, <1>2 DEF Bank!Save, PutsAlone
  <2>2. /\ tab'[b].pc = tab[b].pc /\ tab'[b].t = t /\ tab'[b].knows = {}
        /\ tab'[b].form = tab[b].form /\ tab'[b].put = {}
        /\ \A u \in Template : u # t \/ ~Bank!Live(t) => tpl'[u] = tpl[u]
        /\ Bank!Live(t) => /\ tpl'[t].row = "live"
                           /\ \A w \in What : Reading(tpl'[t], w) = Reading(tab[b].form, w)
    BY <1>0, <1>2, <2>1, SavedAsShown DEF TabsUpToDate
  <2>3. UNCHANGED <<job, reads>>
    BY <1>2 DEF Bank!Save
  <2>4. Bank!Live(t) => \A w \in What : Reading(tab[b].form, w) >= Reading(tpl[t], w)
    BY <1>0, <2>1 DEF TabsUpToDate
  <2>5. \A w \in What : Reading(tab[b].form, w) <= reads
    BY <1>0 DEF TabsUpToDate
  <2>6. TabsUpToDate'
    BY <1>0, <1>n, <2>1, <2>2, <2>3, <2>5, TabUpToDate DEF Bank!Live, TabsUpToDate
  <2>7. RowsBehind'
    BY <1>0, <2>2, <2>3, <2>5 DEF RowsBehind, Reading
  <2>8. ASSUME NEW u \in Template, Bank!Live(u), NEW w \in What
        PROVE  Reading(tpl'[u], w) >= Reading(tpl[u], w)
    BY <1>n, <2>2, <2>4, <2>8
  <2>9. NoneBack
    BY <1>w, <2>8 DEF NoneBack, Reading
  <2> QED BY <2>6, <2>7, <2>9 DEF ReadsInv
<1>3. ASSUME NEW b \in Tab, NEW t \in Template, Bank!Open(b, t)
      PROVE  ReadsInv' /\ NoneBack
  <2>1. UNCHANGED <<tpl, job, reads>> /\ tpl[t].row = "live"
    BY <1>3 DEF Bank!Open, Bank!Live
  <2>2. /\ tab'[b].pc = "loading" /\ tab'[b].t = t /\ tab'[b].put = {}
        /\ \A w \in What : Reading(tab'[b].form, w) = 0
    <3>1. tab'[b] = [Bank!Closed EXCEPT !.pc = "loading", !.t = t]
      BY <1>3 DEF Bank!Open, Bank!Shows, BankTypes
    <3> QED BY <3>1 DEF Bank!Closed, Bank!EMPTY, Bank!Typed, Reading
  <2>3. TabsUpToDate'
    BY <1>n, <2>1, <2>2, TabUpToDate
  <2> QED BY <2>1, <2>3, RowsKeep DEF ReadsInv
<1>4. ASSUME NEW b \in Tab, NEW t \in Template, Bank!Create(b, t)
      PROVE  ReadsInv' /\ NoneBack
  <2>1. UNCHANGED <<job, reads>> /\ tpl[t].row = "unused" /\ \A u \in Template : u # t => tpl'[u] = tpl[u]
    BY <1>0, <1>4 DEF Bank!Create
  <2>2. TabsUpToDate'
    BY <1>4, <1>n, <2>1, CreatedIsBare, TabUpToDate
  <2>3. RowsBehind'
    <3>1. \A u \in Template, w \in What : Reading(tpl'[u], w) <= reads
      BY <1>0, <1>4, <1>n, <2>1, CreatedIsBare DEF RowsBehind
    <3> QED BY <2>1, <3>1 DEF RowsBehind, Reading
  <2>4. ASSUME NEW u \in Template, Bank!Live(u), NEW w \in What
        PROVE  Reading(tpl'[u], w) >= Reading(tpl[u], w)
    BY <1>n, <2>1, <2>4 DEF Bank!Live
  <2>5. NoneBack
    BY <1>w, <2>4 DEF NoneBack, Reading
  <2> QED BY <2>2, <2>3, <2>5 DEF ReadsInv
<1>5. ASSUME NEW b \in Tab, NEW answers \in SUBSET {"template", "status"}, Bank!Answer(b, answers)
      PROVE  ReadsInv' /\ NoneBack
  <2>1. UNCHANGED <<tpl, job, reads>>
    BY <1>5 DEF Bank!Answer
  <2>2. CASE tab'[b] = Bank!Closed
    <3>1. TabsUpToDate'
      BY <1>n, <2>1, <2>2, ClosedIsBare, TabUpToDate
    <3> QED BY <2>1, <3>1, RowsKeep DEF ReadsInv
  <2>3. CASE /\ tab[b].pc = "loading" /\ tab'[b].t = tab[b].t /\ tab'[b].put = tab[b].put
             /\ \A w \in What : Reading(tab'[b].form, w) = Reading(tpl[tab[b].t], w)
    <3>1. tab'[b].put = {} /\ tab[b].t \in Template
      BY <1>0, <2>3 DEF PutsAlone
    <3>2. tpl[tab[b].t].row # "unused" /\ \A w \in What : Reading(tpl[tab[b].t], w) <= reads
      BY <1>0, <2>3, <3>1 DEF TabsUpToDate, RowsBehind
    <3>3. TabsUpToDate'
      BY <1>n, <2>1, <2>3, <3>1, <3>2, TabUpToDate
    <3> QED BY <2>1, <3>3, RowsKeep DEF ReadsInv
  <2> QED BY <1>5, <2>2, <2>3, LoadedIsNew
<1>6. ASSUME NEW b \in Tab, NEW w \in What, Bank!Read(b, w)
      PROVE  ReadsInv' /\ NoneBack
  <2> DEFINE t == tab[b].t
  <2>1. UNCHANGED <<tpl, reads>> /\ tab[b].pc = "editing" /\ w \notin tab[b].knows /\ t \in Template
    BY <1>0, <1>6 DEF Bank!Read
  <2>2. /\ tab'[b].pc = tab[b].pc /\ tab'[b].t = t /\ tab'[b].knows = tab[b].knows \cup {w}
        /\ tab'[b].form = tab[b].form /\ tab'[b].put = tab[b].put
    <3>1. tab'[b] = [tab[b] EXCEPT !.knows = @ \cup {w}] /\ tab[b] \in Editors
      BY <1>6 DEF Bank!Read, Bank!Shows, BankTypes
    <3> QED BY <3>1 DEF Editors, Bank!Editor
  <2>3. \A v \in What : v # w => job'[t][v] = job[t][v]
    BY <1>0, <1>6, <2>1 DEF Bank!Read
  <2>4. Bank!Live(t) => Reading(tab[b].form, w) >= Reading(tpl[t], w)
    BY <1>0, <2>1 DEF TabsUpToDate
  <2>5. TabsUpToDate'
    BY <1>0, <1>n, <2>1, <2>2, <2>3, <2>4, TabUpToDate DEF TabsUpToDate, Bank!Live
  <2> QED BY <2>1, <2>5, RowsKeep DEF ReadsInv
<1>7. ASSUME NEW t \in Template, NEW w \in What, Bank!Attach(t, w) \/ Bank!StartJob(t, w) \/ Bank!JobFails(t, w)
      PROVE  ReadsInv' /\ NoneBack
  <2>1. UNCHANGED <<tpl, tab, reads>>
    BY <1>7 DEF Bank!Attach, Bank!StartJob, Bank!JobFails
  <2>2. \A u \in Template, v \in What : job[u][v].st = "done" => job'[u][v].st = "done"
    <3>1. CASE Bank!Attach(t, w)
      BY <3>1 DEF Bank!Attach
    <3>2. CASE Bank!StartJob(t, w) \/ Bank!JobFails(t, w)
      <4>1. job[t][w].st # "done" /\ \E j : job' = [job EXCEPT ![t][w] = j]
        BY <3>2 DEF Bank!StartJob, Bank!JobFails, Bank!Sets
      <4> QED BY <1>0, <4>1
    <3> QED BY <1>7, <3>1, <3>2
  <2>3. TabsUpToDate'
    BY <1>0, <2>1, <2>2, TabsRest
  <2> QED BY <2>1, <2>3, RowsKeep DEF ReadsInv
<1>8. ASSUME NEW t \in Template, NEW w \in What, Bank!EndJob(t, w)
      PROVE  ReadsInv' /\ NoneBack
  <2>1. /\ tab' = tab /\ reads' = reads + 1 /\ job[t][w].st = "running"
        /\ job' = [job EXCEPT ![t][w] = [Bank!NoJob EXCEPT !.st = "done"]]
    BY <1>8 DEF Bank!EndJob, Bank!Sets
  <2>2. /\ job'[t][w].st = "done"
        /\ \A u \in Template, v \in What : u # t \/ v # w => job'[u][v] = job[u][v]
    <3>1. [Bank!NoJob EXCEPT !.st = "done"].st = "done"
      BY DEF Bank!NoJob
    <3> QED BY <1>0, <2>1, <3>1
  <2>3. /\ \A u \in Template : u # t \/ ~Bank!Live(t) => tpl'[u] = tpl[u]
        /\ tpl'[t].row = tpl[t].row
        /\ Bank!Live(t) =>
              \A v \in What : Reading(tpl'[t], v) = IF v = w THEN reads + 1 ELSE Reading(tpl[t], v)
    <3>1. tpl[t] \in Bank!Row
      BY <1>0
    <3>2. CASE ~Bank!Live(t)
      BY <1>8, <3>2 DEF Bank!EndJob
    <3>3. CASE Bank!Live(t) /\ w = "paper"
      <4>1. tpl' = [tpl EXCEPT ![t].questions = reads + 1]
        BY <1>8, <3>3 DEF Bank!EndJob
      <4> QED BY <1>0, <1>w, <3>1, <3>3, <4>1 DEF Bank!Row, Reading
    <3>4. CASE Bank!Live(t) /\ w # "paper"
      <4>1. tpl' = [tpl EXCEPT ![t].scheme = [as |-> job[t][w].kind, at |-> reads + 1]]
        BY <1>8, <3>4 DEF Bank!EndJob
      <4> QED BY <1>0, <1>w, <3>1, <3>4, <4>1 DEF Bank!Row, Reading
    <3> QED BY <3>2, <3>3, <3>4
  <2>4. ASSUME NEW u \in Template, NEW v \in What
        PROVE  /\ Reading(tpl'[u], v) <= reads'
               /\ Reading(tpl'[u], v) >= Reading(tpl[u], v)
               /\ tpl'[u].row = tpl[u].row
    <3>1. Reading(tpl[u], v) <= reads /\ Reading(tpl[u], v) \in Nat
      BY <1>0, <1>n DEF RowsBehind
    <3> QED BY <1>n, <2>1, <2>3, <3>1
  <2>5. RowsBehind' /\ NoneBack
    BY <1>w, <2>4 DEF RowsBehind, NoneBack, Reading
  <2>6. ASSUME NEW b \in Tab
        PROVE  TabsUpToDate'
    <3>1. CASE tab[b].pc = "editing" /\ tab[b].t = t
      <4>1. w \in tab[b].knows
        BY <1>0, <2>1, <3>1 DEF TabKnows, Bank!Active
      <4>2. tab[b].put = {}
        BY <1>0, <4>1 DEF PutsAlone
      <4>3. TabsUpToDate'
        BY <1>0, <1>n, <2>1, <2>2, <2>3, <2>4, <3>1, <4>1, <4>2, TabUpToDate DEF TabsUpToDate, Bank!Live
      <4> QED BY <4>3
    <3>2. CASE ~(tab[b].pc = "editing" /\ tab[b].t = t)
      <4>1. \A v \in What : Reading(tab[b].form, v) <= reads'
        BY <1>0, <1>n, <2>1 DEF TabsUpToDate
      <4> QED
        BY <1>0, <2>1, <2>2, <2>3, <2>4, <3>2, <4>1, TabUpToDate DEF TabsUpToDate, Bank!Live
    <3> QED BY <3>1, <3>2
  <2>7. TabsUpToDate'
    <3>1. CASE Tab = {}
      BY <3>1 DEF TabsUpToDate
    <3>2. CASE Tab # {}
      BY <2>6, <3>2
    <3> QED BY <3>1, <3>2
  <2> QED BY <2>5, <2>7 DEF ReadsInv
<1>9. ASSUME NEW t \in Template, NEW u \in Template, Bank!Duplicate(t, u)
      PROVE  ReadsInv' /\ NoneBack
  <2>1. /\ UNCHANGED <<tab, job, reads>> /\ tpl[u].row = "unused" /\ tpl'[u] = tpl[t] /\ tpl[t].row = "live"
        /\ \A v \in Template : v # u => tpl'[v] = tpl[v]
    BY <1>0, <1>9 DEF Bank!Duplicate, Bank!Live
  <2>2. TabsUpToDate'
    BY <1>0, <2>1, TabsRest
  <2>3. \A v \in Template, w \in What : Reading(tpl'[v], w) <= reads
    BY <1>0, <2>1 DEF RowsBehind
  <2>4. RowsBehind'
    BY <2>1, <2>3 DEF RowsBehind, Reading
  <2>5. \A v \in Template, w \in What : Bank!Live(v) => Reading(tpl'[v], w) >= Reading(tpl[v], w)
    BY <1>n, <2>1 DEF Bank!Live
  <2>6. NoneBack
    BY <1>w, <2>5 DEF NoneBack, Reading
  <2> QED BY <2>2, <2>4, <2>6 DEF ReadsInv
<1>10. ASSUME NEW t \in Template, Bank!Import(t) \/ Bank!Delete(t)
       PROVE  ReadsInv' /\ NoneBack
  <2>1. /\ UNCHANGED <<tab, job, reads>> /\ (\A v \in Template : v # t => tpl'[v] = tpl[v])
        /\ tpl[t].row = "unused" \/ tpl'[t].row = "deleted"
        /\ \A w \in What : Reading(tpl'[t], w) = 0
    <3>1. CASE Bank!Import(t)
      <4>1. PICK k \in Bank!SCHEME_KINDS, as \in {"none"} \cup Bank!SCHEME_KINDS :
                tpl' = [tpl EXCEPT ![t] = [Bank!Unused EXCEPT !.row = "live", !.kind = k, !.scheme.as = as]]
        BY <3>1 DEF Bank!Import
      <4>2. /\ [Bank!Unused EXCEPT !.row = "live", !.kind = k, !.scheme.as = as].questions = 0
            /\ [Bank!Unused EXCEPT !.row = "live", !.kind = k, !.scheme.as = as].scheme.at = 0
        BY DEF Bank!Unused, Bank!Typed
      <4> QED BY <1>0, <3>1, <4>1, <4>2 DEF Bank!Import, Reading
    <3>2. CASE Bank!Delete(t)
      <4>1. tpl'[t] = [Bank!Unused EXCEPT !.row = "deleted"] /\ \A v \in Template : v # t => tpl'[v] = tpl[v]
        BY <1>0, <3>2 DEF Bank!Delete
      <4> QED BY <3>2, <4>1 DEF Bank!Delete, Bank!Unused, Bank!Typed, Reading
    <3> QED BY <1>10, <3>1, <3>2
  <2>2. TabsUpToDate'
    BY <1>0, <2>1, TabsRest
  <2>3. \A v \in Template, w \in What : Reading(tpl'[v], w) <= reads
    BY <1>0, <1>n, <2>1 DEF RowsBehind
  <2>4. RowsBehind'
    BY <2>1, <2>3 DEF RowsBehind, Reading
  <2>5. \A v \in Template, w \in What :
            tpl[v].row = "live" /\ tpl'[v].row = "live" => Reading(tpl'[v], w) >= Reading(tpl[v], w)
    BY <1>n, <2>1
  <2>6. NoneBack
    BY <1>w, <2>5 DEF NoneBack, Reading, Bank!Live
  <2> QED BY <2>2, <2>4, <2>6 DEF ReadsInv
<1>11. ASSUME NEW s \in Script, \/ \E t \in Template : Bank!Upload(s, t)
                                \/ Bank!Retry(s) \/ Bank!Mark(s)
       PROVE  ReadsInv' /\ NoneBack
  <2>1. UNCHANGED <<tpl, job, tab, reads>>
    BY <1>11 DEF Bank!Upload, Bank!Retry, Bank!Mark
  <2>2. TabsUpToDate'
    BY <1>0, <2>1, TabsRest
  <2> QED BY <2>1, <2>2, RowsKeep DEF ReadsInv
<1> QED
  BY <1>1, <1>2, <1>3, <1>4, <1>5, <1>6, <1>7, <1>8, <1>9, <1>10, <1>11 DEF Bank!BankNext, What

\* At first there is nothing to read.
LEMMA ReadsStart ==
    ASSUME Bank!BankInit
    PROVE  ReadsInv
<1>1. /\ \A t \in Template, w \in What : Reading(tpl[t], w) = 0
      /\ \A b \in Tab : tab[b] = Bank!Closed
      /\ reads = 0
  BY DEF Bank!BankInit, Bank!Unused, Bank!Typed, Reading
<1> QED BY <1>1, ClosedIsBare DEF ReadsInv, TabsUpToDate, RowsBehind

\* Every step keeps the tab up to date, and takes no reading back.
LEMMA ReadsInvKept ==
    ASSUME OneTab, PromptSaves, LoadsAtOnce, BankTypes, BankInv, ReadsInv, Bank!BankNext \/ UNCHANGED bankVars
    PROVE  ReadsInv' /\ [NoneBack]_bankVars
<1>1. CASE UNCHANGED bankVars
  <2>1. UNCHANGED <<tpl, pages, job, tab, script, asked, reads, mishaps>>
    BY <1>1 DEF bankVars
  <2>2. TabsUpToDate'
    BY <2>1 DEF ReadsInv, TabsUpToDate, Reading, Bank!Live
  <2>3. RowsBehind'
    BY <2>1 DEF ReadsInv, RowsBehind, Reading
  <2> QED BY <1>1, <2>2, <2>3 DEF ReadsInv
<1> QED BY <1>1, ReadsInvStep

\* What a reading has brought to a template is never replaced by what was there before it (autosave() of
\* AssignmentEditor.tsx, extract_jobs.py): no save brings back the rows that its tab loaded earlier, and no job
\* undoes the other's column; while one tab edits, loads from one moment, and no reading starts or ends while
\* its save is on its way.
THEOREM ReadingsAreKept ==
    ASSUME OneTab, PromptSaves, LoadsAtOnce
    PROVE  BackgroundSpec => Bank!ReadingsStay
<1>1. BackgroundInit => BankTypes /\ BankInv /\ ReadsInv
  BY BankStarts, ReadsStart DEF BackgroundInit
<1>2. /\ BankTypes /\ BankInv /\ ReadsInv
      /\ [BackgroundNext]_<<which, bankVars, storeVars, outboxVars, reflectVars, callVars>>
      => (BankTypes /\ BankInv /\ ReadsInv)' /\ [NoneBack]_bankVars
  BY OthersMove, BankTypesKept, BankInvKept, ReadsInvKept
<1>3. [NoneBack]_bankVars =>
        [\A t \in Template : Bank!Live(t) /\ Bank!Live(t)' =>
            tpl'[t].questions >= tpl[t].questions /\ tpl'[t].scheme.at >= tpl[t].scheme.at]_(Bank!bankVars)
  BY DEF NoneBack, bankVars, Bank!bankVars
<1> QED BY <1>1, <1>2, <1>3, PTL DEF BackgroundSpec, Bank!ReadingsStay
=============================================================================
