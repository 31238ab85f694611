---------------------------- MODULE OfficeProofs ----------------------------
(***************************************************************************)
(* Theorems about the model choice and the class upload of MCOffice.       *)
(*                                                                         *)
(* The choice of a model: its types; that a call is of one provider; and   *)
(* that what is shown is what is run, with a key to run it.                *)
(*                                                                         *)
(* The class upload, for any number of students, requests, zips and class  *)
(* lists: its types; that it loses no hand-in without saying so; that no   *)
(* class list takes a student with a script off it; and that a script      *)
(* holds its student's own files, within the caps.  What an upload took    *)
(* is accounted for at each of its steps (UploadSound): every student of   *)
(* its plan is still to do or in exactly one list of the answer, and a     *)
(* hand-in that it deleted is one that the teacher let it replace, whose   *)
(* student has a new one, is told, or is the one being handed in.          *)
(*                                                                         *)
(* What an upload is sorted into fits the caps after each of its entries   *)
(* (Sorts), and has the number of the student it was matched to (Handed),  *)
(* which the row keeps or loses (Owned).                                   *)
(***************************************************************************)
EXTENDS MarkedScriptProofs

-----------------------------------------------------------------------------
(* The model choice *)

\* The choices there can be: those that are picked, and those that the wizard saves.
Chosen == Picks \cup {Shown(Plain(p)) : p \in Provider}

\* The models are one such choice, and the host is not another provider's.
Consistent(c) == c.model = c.provider /\ c.base \subseteq {c.provider} /\ Shown(c) \in Chosen

\* Every row, and what a request or a job has in hand, is a choice that was picked.
RowsPicked ==
    /\ \A s \in Subject : default[s] \subseteq Picks
    /\ \A t \in Template : pin[t] \subseteq Picks
    /\ \A r \in Client : request[r].picked \subseteq Picks
    /\ \A w \in Worker : call[w].pin \subseteq Picks

\* Why a call is of one provider: the settings are, the wizard only finds them as they were seeded,
\* what is laid over them was picked, and a job holds on to settings that were, with no key but theirs.
OneInv ==
    /\ RowsPicked
    /\ Consistent(settings)
    /\ password # "variable"
    /\ password = "none" => settings = Plain(Default)
    /\ \A w \in Worker : call[w].st = "loaded" =>
          Consistent(call[w].s) /\ call[w].key \subseteq {call[w].s.provider}
    /\ OneProvider

\* Why a provider that is set has a key: a request on its way still has what it checked.
AskedInv ==
    \A r \in Client :
        /\ request[r].op # "idle" => password # "none"
        /\ request[r].op = "delete" => \A p \in request[r].p : InUse(p) => p \in forced
        /\ request[r].op \in {"subject", "template"} =>
              \A c \in request[r].picked : has_key_for(c.provider) \/ c.provider \in forced

\* A request that is about a subject or a template names one.
NamesOK ==
    \A r \in Client :
        /\ request[r].op = "subject" => request[r].of \in Subject
        /\ request[r].op = "template" => request[r].of \in Template

-----------------------------------------------------------------------------
(* Types *)

\* A choice that is optional is none, or one.
LEMMA OptionalFacts ==
    ASSUME NEW S
    PROVE  /\ {} \in Optional(S)
           /\ \A x \in S : {x} \in Optional(S)
           /\ \A X \in Optional(S) : X \subseteq S /\ (X = {} \/ \E x \in S : X = {x})
BY DEF Optional

\* The choice of a provider alone is one, and consistent.
LEMMA PlainType ==
    ASSUME NEW p \in Provider
    PROVE  Plain(p) \in Choice /\ Consistent(Plain(p))
BY OptionalFacts DEF Plain, Choice, Consistent, Chosen

\* What is picked is a choice, shown as it is.
LEMMA PickFacts ==
    ASSUME NEW c \in Picked
    PROVE  c.provider \in Provider /\ c.model \in Provider /\ c.extractor \in Optional(Provider) /\ Shown(c) = c
BY DEF Picked, Shown

\* What is laid over the settings is the pin, or the default that has a key.
LEMMA LaidOverType ==
    ASSUME ChoiceTypeOK, NEW t \in Template \cup {None}, NEW X \in Optional(Picked)
    PROVE  /\ LaidOver(t, X) \in Optional(Picked)
           /\ RowsPicked /\ X \subseteq Picks => LaidOver(t, X) \subseteq Picks
<1>1. CASE t = None
  BY <1>1, OptionalFacts DEF LaidOver
<1>2. CASE t # None /\ X # {}
  BY <1>2 DEF LaidOver
<1>3. CASE t # None /\ X = {}
  <2>1. default[SubjectOf[t]] \in Optional(Picked) /\ SubjectOf[t] \in Subject
    BY <1>3, ChoiceAssumption DEF ChoiceTypeOK
  <2>2. LaidOver(t, X) = {c \in default[SubjectOf[t]] : has_key_for(c.provider)}
    BY <1>3 DEF LaidOver
  <2>3. CASE default[SubjectOf[t]] = {}
    BY <2>2, <2>3, OptionalFacts
  <2>4. ASSUME NEW c \in Picked, default[SubjectOf[t]] = {c}
        PROVE  LaidOver(t, X) = {} \/ LaidOver(t, X) = {c}
    BY <2>2, <2>4
  <2>5. RowsPicked => LaidOver(t, X) \subseteq Picks
    BY <2>1, <2>2 DEF RowsPicked
  <2>6. default[SubjectOf[t]] = {} \/ \E c \in Picked : default[SubjectOf[t]] = {c}
    BY <2>1 DEF Optional
  <2>7. LaidOver(t, X) \in Optional(Picked)
    BY <2>3, <2>4, <2>6, OptionalFacts
  <2> QED BY <2>5, <2>7
<1> QED BY <1>1, <1>2, <1>3

\* The only one of a choice that was made is of it.
LEMMA OnlyFact ==
    ASSUME NEW S, S # {}
    PROVE  Only(S) \in S
BY DEF Only

\* Both models of what is laid over the settings are its own.
LEMMA OverlayFacts ==
    ASSUME NEW s \in Choice, NEW c \in Picked
    PROVE  /\ Overlay(s, c) \in Choice /\ Shown(Overlay(s, c)) = c
           /\ c \in Picks /\ Consistent(s) => Consistent(Overlay(s, c))
<1>1. c.provider \in Provider /\ c.model \in Provider /\ c.extractor \in Optional(Provider) /\ Shown(c) = c
  BY PickFacts
<1>2. s.base \in Optional(Provider) /\ {} \in Optional(Provider)
  BY OptionalFacts DEF Choice
<1>3. Overlay(s, c) \in Choice
  BY <1>1, <1>2 DEF Overlay, Choice
<1>4. Shown(Overlay(s, c)) = c
  BY <1>1 DEF Overlay, Shown
<1>5. ASSUME c \in Picks, Consistent(s) PROVE Consistent(Overlay(s, c))
  <2>1. c.model = c.provider /\ c \in Chosen
    BY <1>5, ChoiceAssumption DEF Chosen
  <2>2. Overlay(s, c).model = Overlay(s, c).provider /\ Overlay(s, c).base \subseteq {Overlay(s, c).provider}
    BY <1>5, <2>1 DEF Overlay, Consistent
  <2> QED BY <1>4, <2>1, <2>2 DEF Consistent
<1> QED BY <1>3, <1>4, <1>5

\* The choice a job ends up with is one; it is whole if the settings it read are, and what it lays over them.
LEMMA ForTemplateType ==
    ASSUME ChoiceTypeOK, NEW s \in Choice, NEW t \in Template \cup {None}, NEW X \in Optional(Picked)
    PROVE  /\ for_template(s, t, X) \in Choice
           /\ RowsPicked /\ X \subseteq Picks /\ Consistent(s) => Consistent(for_template(s, t, X))
<1> DEFINE over == LaidOver(t, X)
<1>1. CASE over = {}
  BY <1>1 DEF for_template
<1>2. CASE over # {}
  <2>1. Only(over) \in Picked /\ (RowsPicked /\ X \subseteq Picks => Only(over) \in Picks)
    <3>1. over \in Optional(Picked) /\ (RowsPicked /\ X \subseteq Picks => over \subseteq Picks)
      BY LaidOverType
    <3>2. Only(over) \in over
      BY <1>2, OnlyFact
    <3> HIDE DEF over
    <3>3. over \subseteq Picked
      BY <3>1, OptionalFacts
    <3> QED BY <3>1, <3>2, <3>3
  <2>2. for_template(s, t, X) = Overlay(s, Only(over))
    BY <1>2 DEF for_template
  <2> HIDE DEF over
  <2> QED BY <2>1, <2>2, OverlayFacts
<1> QED BY <1>1, <1>2

\* A site that was just set up has the types.
LEMMA ChoiceInitType == ChoiceInit => ChoiceTypeOK
<1> SUFFICES ASSUME ChoiceInit PROVE ChoiceTypeOK
  OBVIOUS
<1>1. Plain(Default) \in Choice /\ {} \in Optional(Provider) /\ {} \in Optional(Picked)
  BY ChoiceAssumption, PlainType, OptionalFacts
<1>2. NoRequest \in Request /\ NoCall \in Call
  BY <1>1 DEF NoRequest, NoCall, Request, Call
<1> QED BY <1>1, <1>2, ChoiceAssumption DEF ChoiceInit, ChoiceTypeOK

\* The steps of requests about the settings and the keys.
LEMMA SettingsKeepType ==
    ASSUME ChoiceTypeOK, NEW r \in Client,
           \/ PutSettings(r) \/ DeleteKey(r)
           \/ \E p \in Provider, force \in BOOLEAN : DeleteCheck(r, p, force)
    PROVE  ChoiceTypeOK'
<1>0. NoRequest \in Request /\ (\A x \in Provider : {x} \in Optional(Provider)) /\ {} \in Optional(Picked)
  BY OptionalFacts DEF NoRequest, Request
<1>2. ASSUME PutSettings(r) PROVE ChoiceTypeOK'
  <2>0. PICK c \in Picks : \E base \in {{}, {c.provider}} :
             settings' = [provider |-> c.provider, model |-> c.model, extractor |-> c.extractor, base |-> base]
    BY <1>2 DEF PutSettings
  <2>1. settings' \in Choice
    <3>1. c.provider \in Provider /\ c.model \in Provider /\ c.extractor \in Optional(Provider)
      BY PickFacts, ChoiceAssumption
    <3>2. {{}, {c.provider}} \subseteq Optional(Provider)
      BY <3>1, OptionalFacts
    <3> QED BY <2>0, <3>1, <3>2 DEF Choice
  <2>2. PICK q \in Provider : Saved(q) \/ UNCHANGED <<key, forced>>
    <3>1. \A d \in Picks : d.provider \in Provider
      BY PickFacts, ChoiceAssumption
    <3> QED BY <1>2, <3>1 DEF PutSettings
  <2>3. key' \in [Provider -> {"none", "sealed", "foreign"}] /\ forced' \subseteq Provider
    BY <2>2 DEF Saved, ChoiceTypeOK
  <2> QED BY <1>2, <2>1, <2>3 DEF PutSettings, ChoiceTypeOK
<1>3. ASSUME DeleteKey(r) PROVE ChoiceTypeOK'
  BY <1>0, <1>3 DEF DeleteKey, Asks, ChoiceTypeOK
<1>4. ASSUME NEW p \in Provider, NEW force \in BOOLEAN, DeleteCheck(r, p, force) PROVE ChoiceTypeOK'
  <2>1. [NoRequest EXCEPT !.op = "delete", !.p = {p}] \in Request
    BY <1>0 DEF NoRequest, Request
  <2> QED BY <1>4, <2>1 DEF DeleteCheck, Asks, ChoiceTypeOK
<1> QED BY <1>2, <1>3, <1>4

\* The steps of requests about subjects and templates.
LEMMA PinsKeepType ==
    ASSUME ChoiceTypeOK, NamesOK, NEW r \in Client,
           \/ SetSubject(r) \/ PinTemplate(r)
           \/ \E s \in Subject, c \in Picks : SubjectCheck(r, s, c)
           \/ \E t \in Template, chosen \in Optional(Picks) : TemplateCheck(r, t, chosen)
           \/ \E s \in Subject : ClearSubject(r, s)
           \/ \E t, u \in Template : CopyPin(r, t, u)
    PROVE  ChoiceTypeOK'
<1>0. NoRequest \in Request /\ {} \in Optional(Provider) /\ {} \in Optional(Picked)
  BY OptionalFacts DEF NoRequest, Request
<1>p. (\A c \in Picks : {c} \in Optional(Picked)) /\ Optional(Picks) \subseteq Optional(Picked)
  BY ChoiceAssumption DEF Optional
<1>1. request[r] \in Request
  BY DEF ChoiceTypeOK
<1>2. ASSUME SetSubject(r) \/ PinTemplate(r) PROVE ChoiceTypeOK'
  BY <1>0, <1>1, <1>2 DEF SetSubject, PinTemplate, Asks, ChoiceTypeOK, Request
<1>3. ASSUME NEW s \in Subject, NEW c \in Picks, SubjectCheck(r, s, c) PROVE ChoiceTypeOK'
  <2>1. [NoRequest EXCEPT !.op = "subject", !.picked = {c}, !.of = s] \in Request
    BY <1>0, <1>p DEF NoRequest, Request
  <2> QED BY <1>3, <2>1 DEF SubjectCheck, Asks, ChoiceTypeOK
<1>4. ASSUME NEW t \in Template, NEW chosen \in Optional(Picks), TemplateCheck(r, t, chosen) PROVE ChoiceTypeOK'
  <2>1. [NoRequest EXCEPT !.op = "template", !.picked = chosen, !.of = t] \in Request
    BY <1>0, <1>p DEF NoRequest, Request
  <2> QED BY <1>4, <2>1 DEF TemplateCheck, Asks, ChoiceTypeOK
<1>5. ASSUME NEW s \in Subject, ClearSubject(r, s) PROVE ChoiceTypeOK'
  BY <1>0, <1>5 DEF ClearSubject, ChoiceTypeOK
<1>6. ASSUME NEW t \in Template, NEW u \in Template, CopyPin(r, t, u) PROVE ChoiceTypeOK'
  BY <1>6 DEF CopyPin, ChoiceTypeOK
<1> QED BY <1>2, <1>3, <1>4, <1>5, <1>6

\* The reads of a job, its call and its end keep the types.
LEMMA JobKeepsType ==
    ASSUME ChoiceTypeOK, NEW w \in Worker,
           \/ \E t \in Template \cup {None} : JobReads(w, t)
           \/ JobLoads(w) \/ JobCalls(w) \/ JobEnds(w)
    PROVE  ChoiceTypeOK'
<1>0. /\ NoCall \in Call /\ {} \in Optional(Picked) /\ {} \in Optional(Provider)
      /\ \A x \in Provider : {x} \in Optional(Provider)
  BY ChoiceAssumption, PlainType, OptionalFacts DEF NoCall, Call
<1>1. call[w] \in Call /\ settings \in Choice
  BY DEF ChoiceTypeOK
<1>k. ASSUME NEW p \in Provider PROVE key_for(p) \in Optional(Provider)
  BY <1>0 DEF key_for
<1>2. ASSUME NEW t \in Template \cup {None}, JobReads(w, t) PROVE ChoiceTypeOK'
  <2>1. (IF t = None THEN {} ELSE pin[t]) \in Optional(Picked)
    BY <1>0 DEF ChoiceTypeOK
  <2>2. call'[w] \in Call
    BY <1>0, <1>2, <2>1 DEF JobReads, ChoiceTypeOK, Call
  <2> QED BY <1>2, <2>2 DEF JobReads, ChoiceTypeOK
<1>3. ASSUME JobLoads(w) PROVE ChoiceTypeOK'
  <2>1. key_for(settings.provider) \in Optional(Provider)
    BY <1>1, <1>k DEF Choice
  <2>2. call' = [call EXCEPT ![w] = [call[w] EXCEPT !.st = "loaded", !.s = settings, !.key = key_for(settings.provider)]]
    BY <1>3 DEF JobLoads, ChoiceTypeOK
  <2>3. call'[w] \in Call
    BY <1>1, <2>1, <2>2 DEF ChoiceTypeOK, Call
  <2> QED BY <1>3, <2>2, <2>3 DEF JobLoads, ChoiceTypeOK
<1>4. ASSUME JobCalls(w) PROVE ChoiceTypeOK'
  <2> DEFINE c == call[w]
             s == for_template(c.s, c.t, c.pin)
             k == IF LaidOver(c.t, c.pin) = {} THEN c.key ELSE key_for(s.provider)
  <2>1. c.s \in Choice /\ c.t \in Template \cup {None} /\ c.pin \in Optional(Picked) /\ c.key \in Optional(Provider)
    BY <1>1 DEF Call
  <2>2. s \in Choice
    BY <2>1, ForTemplateType
  <2>3. k \in Optional(Provider)
    <3>1. s.provider \in Provider
      BY <2>2 DEF Choice
    <3> QED BY <2>1, <3>1, <1>k
  <2>4. call' = [call EXCEPT ![w] = IF k = {} THEN NoCall ELSE [NoCall EXCEPT !.st = "called", !.s = s, !.key = k]]
    BY <1>4 DEF JobCalls
  <2> HIDE DEF c, s, k
  <2>5. [NoCall EXCEPT !.st = "called", !.s = s, !.key = k] \in Call
    BY <1>0, <2>2, <2>3 DEF Call
  <2> QED BY <1>0, <1>4, <2>4, <2>5 DEF JobCalls, ChoiceTypeOK
<1>5. ASSUME JobEnds(w) PROVE ChoiceTypeOK'
  BY <1>0, <1>5 DEF JobEnds, ChoiceTypeOK
<1> QED BY <1>2, <1>3, <1>4, <1>5

\* Every step keeps the types.
LEMMA ChoiceStepType ==
    ASSUME ChoiceTypeOK, NamesOK, [ChoiceNext]_choiceVars
    PROVE  ChoiceTypeOK'
<1>1. ASSUME Restart PROVE ChoiceTypeOK'
  <2>1. NoRequest \in Request /\ NoCall \in Call
    BY ChoiceAssumption, PlainType, OptionalFacts DEF NoRequest, NoCall, Request, Call
  <2> QED BY <1>1, <2>1, ChoiceAssumption DEF Restart, ChoiceTypeOK
<1>2. ASSUME Setup PROVE ChoiceTypeOK'
  <2>0. settings' = settings \/ \E p \in Provider : settings' = [settings EXCEPT !.provider = p, !.model = p]
    BY <1>2 DEF Setup
  <2>1. settings' \in Choice
    BY <2>0 DEF ChoiceTypeOK, Choice
  <2>2. UNCHANGED <<key, forced>> \/ \E p \in Provider : Saved(p)
    BY <1>2 DEF Setup
  <2>3. key' \in [Provider -> {"none", "sealed", "foreign"}] /\ forced' \subseteq Provider
    BY <2>2 DEF Saved, ChoiceTypeOK
  <2> QED BY <1>2, <2>1, <2>3 DEF Setup, ChoiceTypeOK
<1>3. ASSUME UNCHANGED choiceVars PROVE ChoiceTypeOK'
  BY <1>3 DEF choiceVars, ChoiceTypeOK
<1> QED BY <1>1, <1>2, <1>3, SettingsKeepType, PinsKeepType, JobKeepsType DEF ChoiceNext

\* What delete_key() holds on to between its checks and its write.
DeleteRequest(p) == [NoRequest EXCEPT !.op = "delete", !.p = {p}]

\* The deletion of a key that is under way is about that key's provider.
LEMMA DeleteRequestFact ==
    ASSUME NEW p \in Provider
    PROVE  DeleteRequest(p).op = "delete" /\ DeleteRequest(p).p = {p} /\ DeleteRequest(p).picked = {}
BY DEF DeleteRequest, NoRequest

\* What is held of a subject's default, or of a template, between its checks and its write.
SubjectRequest(s, c) == [NoRequest EXCEPT !.op = "subject", !.picked = {c}, !.of = s]
TemplateRequest(t, chosen) == [NoRequest EXCEPT !.op = "template", !.picked = chosen, !.of = t]

\* Such a request is about that subject or template, and about what was picked for it.
LEMMA SetRequestFacts ==
    /\ \A s, c : LET q == SubjectRequest(s, c) IN q.op = "subject" /\ q.picked = {c} /\ q.of = s
    /\ \A t, chosen : LET q == TemplateRequest(t, chosen) IN q.op = "template" /\ q.picked = chosen /\ q.of = t
BY DEF SubjectRequest, TemplateRequest, NoRequest

\* A request goes on naming the subject or template it is about.
LEMMA NamesStep ==
    ASSUME ChoiceTypeOK, NamesOK, [ChoiceNext]_choiceVars
    PROVE  NamesOK'
<1>1. ASSUME NEW r \in Client, PutSettings(r) \/ DeleteKey(r) \/ SetSubject(r) \/ PinTemplate(r) PROVE NamesOK'
  BY <1>1 DEF PutSettings, DeleteKey, SetSubject, PinTemplate, Asks, NoRequest, NamesOK, ChoiceTypeOK
<1>2. ASSUME NEW r \in Client, NEW p \in Provider, NEW force \in BOOLEAN, DeleteCheck(r, p, force) PROVE NamesOK'
  <2>1. request' = [request EXCEPT ![r] = DeleteRequest(p)]
    BY <1>2, DeleteRequestFact DEF DeleteCheck, Asks, DeleteRequest
  <2> QED BY <2>1, DeleteRequestFact DEF NamesOK, ChoiceTypeOK
<1>3. ASSUME NEW r \in Client, NEW s \in Subject, NEW c \in Picks, SubjectCheck(r, s, c) PROVE NamesOK'
  <2>1. request' = [request EXCEPT ![r] = SubjectRequest(s, c)]
    BY <1>3 DEF SubjectCheck, Asks, SubjectRequest
  <2> QED BY <2>1, SetRequestFacts DEF NamesOK, ChoiceTypeOK
<1>4. ASSUME NEW r \in Client, NEW t \in Template, NEW chosen \in Optional(Picks), TemplateCheck(r, t, chosen)
      PROVE  NamesOK'
  <2>1. request' = [request EXCEPT ![r] = TemplateRequest(t, chosen)]
    BY <1>4 DEF TemplateCheck, Asks, TemplateRequest
  <2> QED BY <2>1, SetRequestFacts DEF NamesOK, ChoiceTypeOK
<1>5. ASSUME UNCHANGED request PROVE NamesOK'
  BY <1>5 DEF NamesOK
<1>6. ASSUME Restart PROVE NamesOK'
  BY <1>6 DEF Restart, NoRequest, NamesOK
<1> QED BY <1>1, <1>2, <1>3, <1>4, <1>5, <1>6
        DEF ChoiceNext, Setup, ClearSubject, CopyPin, JobReads, JobLoads, JobCalls, JobEnds, choiceVars

\* The settings, the keys, the choices and the jobs keep their types, with any number of clients,
\* workers and restarts (the settings row and the tables of providers/settings.py).
THEOREM ChoiceTypeCorrect == ChoiceSpec => []ChoiceTypeOK
<1>1. ChoiceInit => ChoiceTypeOK /\ NamesOK
  BY ChoiceInitType DEF ChoiceInit, NoRequest, NamesOK
<1>2. ChoiceTypeOK /\ NamesOK /\ [ChoiceNext]_choiceVars => (ChoiceTypeOK /\ NamesOK)'
  BY ChoiceStepType, NamesStep
<1> QED BY <1>1, <1>2, PTL DEF ChoiceSpec

-----------------------------------------------------------------------------
(* A call is of one provider *)

\* Without TEACHER_PASSWORD the wizard runs once, on the settings as they were seeded.
LEMMA OneSettingsStep ==
    ASSUME ~EnvPassword, ChoiceTypeOK, OneInv, ChoiceNext
    PROVE  /\ Consistent(settings)'
           /\ password' # "variable"
           /\ password' = "none" => settings' = Plain(Default)
<1>1. ASSUME Setup
      PROVE  Consistent(settings)' /\ password' = "website"
  <2>1. settings = Plain(Default) /\ password' = "website"
    BY <1>1 DEF Setup, OneInv
  <2>2. settings' = settings \/ \E p \in Provider : settings' = [settings EXCEPT !.provider = p, !.model = p]
    BY <1>1 DEF Setup
  <2>3. settings' = settings \/ \E p \in Provider : settings' = Plain(p)
    BY <2>1, <2>2 DEF Plain
  <2>4. \A p \in Provider : Consistent(Plain(p))
    BY PlainType
  <2> QED BY <2>1, <2>3, <2>4 DEF Consistent, OneInv, Shown
<1>2. ASSUME NEW r \in Client, PutSettings(r)
      PROVE  Consistent(settings)' /\ password' \notin {"none", "variable"}
  <2>1. PICK c \in Picks : \E base \in {{}, {c.provider}} :
            settings' = [provider |-> c.provider, model |-> c.model, extractor |-> c.extractor, base |-> base]
    BY <1>2 DEF PutSettings
  <2>2. Shown(c) = c /\ c.model = c.provider
    BY PickFacts, ChoiceAssumption
  <2>3. Shown(settings') = c
    BY <2>1, <2>2 DEF Shown
  <2>4. settings'.model = settings'.provider /\ settings'.base \subseteq {settings'.provider}
    BY <2>1, <2>2
  <2>5. Consistent(settings')
    BY <2>3, <2>4 DEF Consistent, Chosen
  <2> QED BY <1>2, <2>5 DEF PutSettings, SignedIn, OneInv, Consistent, Shown
<1>3. ASSUME Restart
      PROVE  UNCHANGED <<settings, password>>
  BY <1>3 DEF Restart, OneInv
<1>4. ASSUME UNCHANGED <<settings, password>>
      PROVE  /\ Consistent(settings)' /\ password' # "variable"
             /\ password' = "none" => settings' = Plain(Default)
  BY <1>4 DEF OneInv, Consistent, Shown
<1> QED BY <1>1, <1>2, <1>3, <1>4
        DEF ChoiceNext, DeleteCheck, DeleteKey, SubjectCheck, SetSubject, ClearSubject, TemplateCheck, PinTemplate,
            CopyPin, JobReads, JobLoads, JobCalls, JobEnds

\* What OneInv says of a job.
CallOK(c) ==
    /\ c.st = "loaded" => Consistent(c.s) /\ c.key \subseteq {c.s.provider}
    /\ c.st = "called" => c.key \cup {c.s.model} \cup c.s.base = {c.s.provider} /\ Shown(c.s) \in Chosen

\* What the invariant says of each job.
LEMMA CallOKFact == OneInv => \A w \in Worker : CallOK(call[w])
BY DEF OneInv, OneProvider, CallOK, Chosen

\* A job's key is its choice's: for_template() takes the key of the provider it lays over, and the
\* settings' own key only with the settings' own provider.
LEMMA OneCallStep ==
    ASSUME ChoiceTypeOK, OneInv, ChoiceNext, NEW v \in Worker
    PROVE  CallOK(call'[v])
<1>0. CallOK(NoCall)
  BY DEF CallOK, NoCall
<1>1. ASSUME NEW w \in Worker, NEW t \in Template \cup {None}, JobReads(w, t)
      PROVE  CallOK(call'[v])
  <2>1. call'[w].st = "read"
    BY <1>1 DEF JobReads, ChoiceTypeOK, NoCall
  <2> QED BY <1>1, <2>1, CallOKFact DEF JobReads, ChoiceTypeOK, CallOK
<1>2. ASSUME NEW w \in Worker, JobLoads(w)
      PROVE  CallOK(call'[v])
  <2>1. call' = [call EXCEPT ![w] = [call[w] EXCEPT !.st = "loaded", !.s = settings, !.key = key_for(settings.provider)]]
    BY <1>2 DEF JobLoads, ChoiceTypeOK
  <2>2. call'[w].st = "loaded" /\ call'[w].s = settings /\ call'[w].key = key_for(settings.provider)
    BY <2>1 DEF ChoiceTypeOK, Call
  <2>3. call'[w].key \subseteq {settings.provider} /\ Consistent(settings)
    BY <2>2 DEF OneInv, key_for
  <2>4. CallOK(call'[w])
    BY <2>2, <2>3 DEF CallOK
  <2> QED BY <2>1, <2>4, CallOKFact DEF ChoiceTypeOK
<1>3. ASSUME NEW w \in Worker, JobCalls(w)
      PROVE  CallOK(call'[v])
  <2> DEFINE c == call[w]
             s == for_template(c.s, c.t, c.pin)
             k == IF LaidOver(c.t, c.pin) = {} THEN c.key ELSE key_for(s.provider)
  <2>1. call' = [call EXCEPT ![w] = IF k = {} THEN NoCall ELSE [NoCall EXCEPT !.st = "called", !.s = s, !.key = k]]
    BY <1>3 DEF JobCalls
  <2>2. /\ c.s \in Choice /\ c.t \in Template \cup {None}
        /\ c.pin \in Optional(Picked) /\ c.pin \subseteq Picks /\ RowsPicked
    BY DEF ChoiceTypeOK, Call, OneInv, RowsPicked
  <2>3. Consistent(c.s) /\ c.key \subseteq {c.s.provider}
    BY <1>3 DEF JobCalls, OneInv
  <2>4. Consistent(s)
    BY <2>2, <2>3, ForTemplateType
  <2>5. k \subseteq {s.provider}
    <3>1. LaidOver(c.t, c.pin) = {} => s = c.s
      BY DEF for_template
    <3> QED BY <2>3, <3>1 DEF key_for
  <2> HIDE DEF c, s, k
  <2>6. k # {} => CallOK([NoCall EXCEPT !.st = "called", !.s = s, !.key = k])
    <3>1. s.model = s.provider /\ s.base \subseteq {s.provider} /\ Shown(s) \in Chosen
      BY <2>4 DEF Consistent
    <3> DEFINE d == [NoCall EXCEPT !.st = "called", !.s = s, !.key = k]
    <3>2. d.st = "called" /\ d.s = s /\ d.key = k
      BY DEF NoCall
    <3> HIDE DEF d
    <3> QED BY <2>5, <3>1, <3>2 DEF CallOK
  <2> QED BY <1>0, <2>1, <2>6, CallOKFact DEF ChoiceTypeOK
<1>4. ASSUME NEW w \in Worker, JobEnds(w)
      PROVE  CallOK(call'[v])
  BY <1>0, <1>4, CallOKFact DEF JobEnds, ChoiceTypeOK
<1>5. ASSUME Restart
      PROVE  CallOK(call'[v])
  BY <1>0, <1>5 DEF Restart
<1>6. ASSUME UNCHANGED call
      PROVE  CallOK(call'[v])
  BY <1>6, CallOKFact
<1> QED BY <1>1, <1>2, <1>3, <1>4, <1>5, <1>6
        DEF ChoiceNext, Setup, PutSettings, DeleteCheck, DeleteKey, SubjectCheck, SetSubject, ClearSubject,
            TemplateCheck, PinTemplate, CopyPin

\* What was picked is what is written.
LEMMA RowsStep ==
    ASSUME ChoiceTypeOK, NamesOK, RowsPicked, ChoiceNext
    PROVE  RowsPicked'
<1>0. NoRequest.picked = {} /\ NoCall.pin = {}
  BY DEF NoRequest, NoCall
<1>1. ASSUME NEW r \in Client, SetSubject(r) \/ PinTemplate(r)
      PROVE  RowsPicked'
  BY <1>0, <1>1 DEF SetSubject, PinTemplate, Asks, NamesOK, ChoiceTypeOK, RowsPicked
<1>2. ASSUME NEW r \in Client, DeleteKey(r)
      PROVE  RowsPicked'
  BY <1>0, <1>2 DEF DeleteKey, Asks, ChoiceTypeOK, RowsPicked
<1>3. ASSUME NEW r \in Client, NEW p \in Provider, NEW force \in BOOLEAN, DeleteCheck(r, p, force)
      PROVE  RowsPicked'
  <2>1. request' = [request EXCEPT ![r] = DeleteRequest(p)]
    BY <1>3 DEF DeleteCheck, Asks, DeleteRequest
  <2> QED BY <1>3, <2>1, DeleteRequestFact DEF DeleteCheck, ChoiceTypeOK, RowsPicked
<1>4. ASSUME NEW r \in Client, NEW s \in Subject, NEW c \in Picks, SubjectCheck(r, s, c)
      PROVE  RowsPicked'
  <2>1. request' = [request EXCEPT ![r] = SubjectRequest(s, c)]
    BY <1>4 DEF SubjectCheck, Asks, SubjectRequest
  <2> QED BY <1>4, <2>1, SetRequestFacts DEF SubjectCheck, ChoiceTypeOK, RowsPicked
<1>5. ASSUME NEW r \in Client, NEW t \in Template, NEW chosen \in Optional(Picks), TemplateCheck(r, t, chosen)
      PROVE  RowsPicked'
  <2>1. request' = [request EXCEPT ![r] = TemplateRequest(t, chosen)] /\ chosen \subseteq Picks
    BY <1>5, OptionalFacts DEF TemplateCheck, Asks, TemplateRequest
  <2> QED BY <1>5, <2>1, SetRequestFacts DEF TemplateCheck, ChoiceTypeOK, RowsPicked
<1>6. ASSUME NEW r \in Client, \/ \E s \in Subject : ClearSubject(r, s)
                              \/ \E t, u \in Template : CopyPin(r, t, u)
      PROVE  RowsPicked'
  BY <1>6 DEF ClearSubject, CopyPin, ChoiceTypeOK, RowsPicked
<1>7. ASSUME NEW w \in Worker, NEW t \in Template \cup {None}, JobReads(w, t)
      PROVE  RowsPicked'
  <2> DEFINE d == [NoCall EXCEPT !.st = "read", !.t = t, !.pin = IF t = None THEN {} ELSE pin[t]]
  <2>1. d.pin \subseteq Picks
    BY <1>7, ChoiceAssumption DEF NoCall, RowsPicked
  <2>2. call' = [call EXCEPT ![w] = d] /\ UNCHANGED <<default, pin, request>>
    BY <1>7 DEF JobReads
  <2> HIDE DEF d
  <2> QED BY <2>1, <2>2 DEF ChoiceTypeOK, RowsPicked
<1>8. ASSUME NEW w \in Worker, JobLoads(w)
      PROVE  RowsPicked'
  <2>1. call' = [call EXCEPT ![w] = [call[w] EXCEPT !.st = "loaded", !.s = settings, !.key = key_for(settings.provider)]]
    BY <1>8 DEF JobLoads, ChoiceTypeOK
  <2>2. call'[w].pin = call[w].pin
    BY <2>1 DEF ChoiceTypeOK, Call
  <2> QED BY <1>8, <2>1, <2>2 DEF JobLoads, ChoiceTypeOK, RowsPicked
<1>9. ASSUME NEW w \in Worker, JobCalls(w) \/ JobEnds(w)
      PROVE  RowsPicked'
  <2>1. PICK d : call' = [call EXCEPT ![w] = d] /\ d.pin = {}
    <3>1. ASSUME JobEnds(w) PROVE call' = [call EXCEPT ![w] = NoCall]
      BY <3>1 DEF JobEnds
    <3>2. ASSUME JobCalls(w)
          PROVE  \E s, k : call' = [call EXCEPT ![w] =
                     IF k = {} THEN NoCall ELSE [NoCall EXCEPT !.st = "called", !.s = s, !.key = k]]
      BY <3>2 DEF JobCalls
    <3>3. \A s, k : [NoCall EXCEPT !.st = "called", !.s = s, !.key = k].pin = {}
      BY DEF NoCall
    <3> QED BY <1>0, <1>9, <3>1, <3>2, <3>3
  <2> QED BY <1>9, <2>1 DEF JobCalls, JobEnds, ChoiceTypeOK, RowsPicked
<1>10. ASSUME Restart
       PROVE  RowsPicked'
  BY <1>0, <1>10 DEF Restart, RowsPicked
<1>11. ASSUME UNCHANGED <<default, pin, request, call>>
       PROVE  RowsPicked'
  BY <1>11 DEF RowsPicked
<1> QED BY <1>1, <1>2, <1>3, <1>4, <1>5, <1>6, <1>7, <1>8, <1>9, <1>10, <1>11 DEF ChoiceNext, Setup, PutSettings

\* A job's key, model and host are those of the provider it calls, and its two models one choice that was
\* picked, whatever is saved, deleted, set and restarted between its reads (for_template, _overlay): if
\* the site was not deployed with TEACHER_PASSWORD.
THEOREM CallsAreOfOneProvider ==
    ASSUME ~EnvPassword
    PROVE  ChoiceSpec => []OneProvider
<1>1. ChoiceInit => OneInv
  BY ChoiceAssumption, PlainType DEF ChoiceInit, OneInv, OneProvider, RowsPicked, NoCall, NoRequest
<1>n. ChoiceInit => ChoiceTypeOK /\ NamesOK
  BY ChoiceInitType DEF ChoiceInit, NoRequest, NamesOK
<1>2. ChoiceTypeOK /\ NamesOK /\ OneInv /\ [ChoiceNext]_choiceVars => (ChoiceTypeOK /\ NamesOK /\ OneInv)'
  <2> SUFFICES ASSUME ChoiceTypeOK, NamesOK, OneInv, [ChoiceNext]_choiceVars PROVE OneInv'
    BY ChoiceStepType, NamesStep
  <2>1. CASE ChoiceNext
    <3>1. \A w \in Worker : CallOK(call'[w])
      BY <2>1, OneCallStep
    <3>2. RowsPicked'
      BY <2>1, RowsStep DEF OneInv
    <3>3. OneProvider'
      BY <3>1 DEF OneProvider, CallOK, Chosen, Shown, Plain
    <3> QED BY <2>1, <3>1, <3>2, <3>3, OneSettingsStep DEF OneInv, CallOK
  <2>2. CASE UNCHANGED choiceVars
    BY <2>2 DEF choiceVars, OneInv, OneProvider, Consistent, RowsPicked, Shown, Plain
  <2> QED BY <2>1, <2>2
<1>3. OneInv => OneProvider
  BY DEF OneInv
<1> QED BY <1>1, <1>n, <1>2, <1>3, PTL DEF ChoiceSpec

-----------------------------------------------------------------------------
(* What is shown is what is run *)

\* The list and for_template() lay the same choice over the settings, if any.
LEMMA ShownFact == ChoiceTypeOK => ShownIsRun
<1> SUFFICES ASSUME ChoiceTypeOK, NEW t \in Template
             PROVE  EffectiveModel(t) = Shown(for_template(settings, t, pin[t]))
  BY DEF ShownIsRun
<1> DEFINE over == LaidOver(t, pin[t])
           set == default[SubjectOf[t]]
<1>0. t # None /\ pin[t] \in Optional(Picked) /\ set \in Optional(Picked) /\ settings \in Choice
  BY ChoiceAssumption DEF ChoiceTypeOK
<1>1. ASSUME NEW row \in Optional(Picked), row # {}
      PROVE  Shown(Overlay(settings, Only(row))) = Shown(Only(row))
  <2>1. Only(row) \in Picked
    BY <1>1, OnlyFact, OptionalFacts
  <2> QED BY <1>0, <2>1, PickFacts, OverlayFacts
<1>2. CASE pin[t] # {}
  <2>1. over = pin[t]
    BY <1>0, <1>2 DEF LaidOver
  <2> QED BY <1>0, <1>1, <1>2, <2>1 DEF EffectiveModel, for_template
<1>3. CASE pin[t] = {} /\ \E c \in set : has_key_for(c.provider)
  <2>1. over = {c \in set : has_key_for(c.provider)}
    BY <1>0, <1>3 DEF LaidOver
  <2>2. over = set /\ over # {}
    <3>1. PICK x \in Picked : set = {x}
      BY <1>0, <1>3, OptionalFacts
    <3> HIDE DEF over, set
    <3> QED BY <1>3, <2>1, <3>1
  <2>3. EffectiveModel(t) = Shown(Only(set))
    BY <1>3 DEF EffectiveModel, EffectiveBySubject
  <2> QED BY <1>0, <1>1, <2>2, <2>3 DEF for_template
<1>4. CASE pin[t] = {} /\ ~ \E c \in set : has_key_for(c.provider)
  <2>1. over = {}
    BY <1>0, <1>4 DEF LaidOver
  <2> QED BY <1>4, <2>1 DEF EffectiveModel, EffectiveBySubject, for_template
<1> QED BY <1>2, <1>3, <1>4

-----------------------------------------------------------------------------
(* What is set has a key *)

\* A provider that may be set: it has a key, or its key went by force.
Keyed(p) == has_key_for(p) \/ p \in forced

\* A step that deletes no key takes none away, and forgets a forced one only when it is saved.
LEMMA KeysStay ==
    ASSUME ChoiceTypeOK, ChoiceNext, ~ \E r \in Client : DeleteKey(r), NEW p \in Provider, Keyed(p)
    PROVE  Keyed(p)'
<1>1. ASSUME NEW q \in Provider, Saved(q)
      PROVE  Keyed(p)'
  BY <1>1 DEF Saved, Keyed, has_key_for, ChoiceTypeOK
<1>2. ASSUME UNCHANGED <<key, forced>>
      PROVE  Keyed(p)'
  BY <1>2 DEF Keyed, has_key_for
<1>3. ASSUME Restart
      PROVE  Keyed(p)'
  <2>1. forced' = forced /\ (key' = key \/ key' = [q \in Provider |-> IF key[q] = "none" THEN "none" ELSE "foreign"])
    BY <1>3 DEF Restart
  <2> QED BY <2>1 DEF Keyed, has_key_for
<1>4. ASSUME NEW r \in Client, NEW q \in Provider, NEW force \in BOOLEAN, DeleteCheck(r, q, force)
      PROVE  Keyed(p)'
  BY <1>4 DEF DeleteCheck, Keyed, has_key_for
<1>5. ASSUME Setup \/ \E r \in Client : PutSettings(r)
      PROVE  UNCHANGED <<key, forced>> \/ \E q \in Provider : Saved(q)
  <2>1. \A c \in Picks : c.provider \in Provider
    BY PickFacts, ChoiceAssumption
  <2> QED BY <1>5, <2>1 DEF Setup, PutSettings
<1> QED BY <1>1, <1>2, <1>3, <1>4, <1>5
        DEF ChoiceNext, SubjectCheck, SetSubject, ClearSubject, TemplateCheck, PinTemplate, CopyPin,
            JobReads, JobLoads, JobCalls, JobEnds

\* With one client, a request that is not about to write finds no other on its way.
LEMMA AskedStep ==
    ASSUME \A r, q \in Client : r = q, ChoiceTypeOK, AskedInv, ChoiceNext
    PROVE  AskedInv'
<1> DEFINE AllIdle == \A r \in Client : request[r].op = "idle"
<1>0. NoRequest.op = "idle" /\ (AllIdle' => AskedInv')
  BY DEF NoRequest, AskedInv
<1>1. ASSUME Setup
      PROVE  AllIdle'
  BY <1>1 DEF Setup, AskedInv
<1>2. ASSUME NEW r \in Client, PutSettings(r) \/ \E s \in Subject : ClearSubject(r, s)
      PROVE  AllIdle'
  BY <1>2 DEF PutSettings, ClearSubject, Free
<1>3. ASSUME NEW r \in Client, NEW t \in Template, NEW u \in Template, CopyPin(r, t, u)
      PROVE  AllIdle'
  BY <1>3 DEF CopyPin, Free
<1>4. ASSUME NEW r \in Client, DeleteKey(r) \/ SetSubject(r) \/ PinTemplate(r)
      PROVE  AllIdle'
  BY <1>0, <1>4 DEF DeleteKey, SetSubject, PinTemplate, Asks, ChoiceTypeOK
<1>5. ASSUME Restart
      PROVE  AllIdle'
  BY <1>0, <1>5 DEF Restart
<1>6. ASSUME NEW r \in Client, NEW p \in Provider, NEW force \in BOOLEAN, DeleteCheck(r, p, force)
      PROVE  AskedInv'
  <2>1. request' = [request EXCEPT ![r] = DeleteRequest(p)]
    BY <1>6 DEF DeleteCheck, Asks, DeleteRequest
  <2>2. request'[r].op = "delete" /\ request'[r].p = {p} /\ \A q \in Client : q = r
    BY <2>1, DeleteRequestFact DEF ChoiceTypeOK
  <2>3. password' # "none" /\ (InUse(p)' => p \in forced')
    BY <1>6 DEF DeleteCheck, SignedIn, InUse, OfProvider
  <2> QED BY <2>2, <2>3 DEF AskedInv
<1>7. ASSUME NEW r \in Client, NEW s \in Subject, NEW c \in Picks, SubjectCheck(r, s, c)
      PROVE  AskedInv'
  <2>1. request' = [request EXCEPT ![r] = SubjectRequest(s, c)]
    BY <1>7 DEF SubjectCheck, Asks, SubjectRequest
  <2>2. request'[r].op = "subject" /\ request'[r].picked = {c} /\ \A q \in Client : q = r
    BY <2>1, SetRequestFacts DEF ChoiceTypeOK
  <2>3. password' # "none" /\ key' = key /\ key[c.provider] # "none"
    BY <1>7 DEF SubjectCheck, SignedIn, has_key_for
  <2> QED BY <2>2, <2>3 DEF AskedInv, has_key_for
<1>8. ASSUME NEW r \in Client, NEW t \in Template, NEW chosen \in Optional(Picks), TemplateCheck(r, t, chosen)
      PROVE  AskedInv'
  <2>1. request' = [request EXCEPT ![r] = TemplateRequest(t, chosen)]
    BY <1>8 DEF TemplateCheck, Asks, TemplateRequest
  <2>2. request'[r].op = "template" /\ request'[r].picked = chosen /\ \A q \in Client : q = r
    BY <2>1, SetRequestFacts DEF ChoiceTypeOK
  <2>3. password' # "none" /\ key' = key /\ \A c \in chosen : key[c.provider] # "none"
    BY <1>8 DEF TemplateCheck, SignedIn, has_key_for
  <2> QED BY <2>2, <2>3 DEF AskedInv, has_key_for
<1>9. ASSUME UNCHANGED <<request, password, key, forced, pin, default>>
      PROVE  AskedInv'
  BY <1>9 DEF AskedInv, InUse, OfProvider, has_key_for
<1> QED BY <1>0, <1>1, <1>2, <1>3, <1>4, <1>5, <1>6, <1>7, <1>8, <1>9
        DEF ChoiceNext, JobReads, JobLoads, JobCalls, JobEnds

\* Only providers are set for a subject or a template; ChosenHasKey speaks of those.
LEMMA UsedFacts ==
    ASSUME ChoiceTypeOK
    PROVE  /\ \A p : InUse(p) => p \in Provider
           /\ ChosenHasKey <=> \A p : InUse(p) => Keyed(p)
<1>1. (\A t \in Template : pin[t] \subseteq Picked) /\ (\A s \in Subject : default[s] \subseteq Picked)
  BY OptionalFacts DEF ChoiceTypeOK
<1> QED BY <1>1, PickFacts DEF InUse, OfProvider, ChosenHasKey, Keyed

\* What a step sets was set before, or is what a request asked for when it had a key.
LEMMA UseStep ==
    ASSUME ChoiceTypeOK, NamesOK, ChoiceNext, NEW p, InUse(p)', ~InUse(p)
    PROVE  \E r \in Client : (SetSubject(r) \/ PinTemplate(r)) /\ OfProvider(request[r].picked, p)
<1>1. ASSUME NEW r \in Client, SetSubject(r)
      PROVE  OfProvider(request[r].picked, p)
  BY <1>1 DEF SetSubject, NamesOK, ChoiceTypeOK, InUse, OfProvider
<1>2. ASSUME NEW r \in Client, PinTemplate(r)
      PROVE  OfProvider(request[r].picked, p)
  BY <1>2 DEF PinTemplate, NamesOK, ChoiceTypeOK, InUse, OfProvider
<1>3. ASSUME NEW r \in Client, NEW s \in Subject, ClearSubject(r, s)
      PROVE  FALSE
  BY <1>3 DEF ClearSubject, ChoiceTypeOK, InUse, OfProvider
<1>4. ASSUME NEW r \in Client, NEW t \in Template, NEW u \in Template, CopyPin(r, t, u)
      PROVE  FALSE
  BY <1>4 DEF CopyPin, ChoiceTypeOK, InUse, OfProvider
<1>5. ASSUME UNCHANGED <<pin, default>>
      PROVE  FALSE
  BY <1>5 DEF InUse, OfProvider
<1> QED BY <1>1, <1>2, <1>3, <1>4, <1>5
        DEF ChoiceNext, Setup, Restart, PutSettings, DeleteCheck, DeleteKey, SubjectCheck, TemplateCheck,
            JobReads, JobLoads, JobCalls, JobEnds

\* What is set keeps a key that the server can read, unless it was forced away.
LEMMA ChosenStep ==
    ASSUME ChoiceTypeOK, NamesOK, AskedInv, ChosenHasKey, ChoiceNext
    PROVE  ChosenHasKey'
<1> SUFFICES ASSUME NEW p, InUse(p)' PROVE Keyed(p)'
  <2>1. ChosenHasKey' <=> \A p : InUse(p)' => Keyed(p)'
    BY DEF ChosenHasKey, InUse, OfProvider, Keyed
  <2> QED BY <2>1
<1>1. CASE \E r \in Client : DeleteKey(r)
  <2>1. PICK r \in Client : DeleteKey(r)
    BY <1>1
  <2>2. InUse(p) /\ forced' = forced
    BY <2>1 DEF DeleteKey, InUse, OfProvider
  <2>3. p \in Provider /\ Keyed(p)
    BY <2>2, UsedFacts
  <2>4. p \in request[r].p => p \in forced
    BY <2>1, <2>2 DEF DeleteKey, AskedInv
  <2>5. p \notin request[r].p => key'[p] = key[p]
    BY <2>1, <2>3 DEF DeleteKey
  <2> QED BY <2>2, <2>3, <2>4, <2>5 DEF Keyed, has_key_for
<1>2. CASE ~ \E r \in Client : DeleteKey(r)
  <2>1. p \in Provider /\ Keyed(p)
    <3>1. CASE InUse(p)
      BY <3>1, UsedFacts
    <3>2. CASE ~InUse(p)
      <4>1. PICK r \in Client : (SetSubject(r) \/ PinTemplate(r)) /\ OfProvider(request[r].picked, p)
        BY <3>2, UseStep
      <4>2. PICK c \in request[r].picked : c.provider = p
        BY <4>1 DEF OfProvider
      <4>3. c \in Picked
        BY OptionalFacts DEF ChoiceTypeOK, Request
      <4> QED BY <4>1, <4>2, <4>3, PickFacts DEF SetSubject, PinTemplate, AskedInv, Keyed
    <3> QED BY <3>1, <3>2
  <2> QED BY <1>2, <2>1, KeysStay
<1> QED BY <1>1, <1>2

\* The template list shows what a job would run with (_effective_models_by_subject beside
\* for_template), and nothing is set to a provider without a key but by force (delete_key,
\* set_subject_model, _validate), while one request at a time reaches them.
THEOREM ChoicesAreShown ==
    ASSUME \A r, q \in Client : r = q
    PROVE  ChoiceSpec => []ChoiceIsShown
<1> DEFINE Inv == ChoiceTypeOK /\ NamesOK /\ AskedInv /\ ChosenHasKey
<1>1. ChoiceInit => Inv
  BY ChoiceInitType DEF ChoiceInit, NoRequest, NamesOK, AskedInv, ChosenHasKey
<1>2. Inv /\ [ChoiceNext]_choiceVars => Inv'
  <2> SUFFICES ASSUME Inv, [ChoiceNext]_choiceVars PROVE Inv'
    OBVIOUS
  <2>1. ChoiceTypeOK' /\ NamesOK'
    BY ChoiceStepType, NamesStep
  <2>2. CASE ChoiceNext
    BY <2>1, <2>2, AskedStep, ChosenStep
  <2>3. CASE UNCHANGED choiceVars
    BY <2>1, <2>3 DEF choiceVars, AskedInv, ChosenHasKey, InUse, OfProvider, has_key_for
  <2> QED BY <2>2, <2>3
<1>3. Inv => ChoiceIsShown
  BY ShownFact DEF ChoiceIsShown
<1> QED BY <1>1, <1>2, <1>3, PTL DEF ChoiceSpec

-----------------------------------------------------------------------------
(* New rows of a class list *)

\* One step of the loop over a new list, where R are the numbers that have a row.
Grown(list, R, before, i) ==
    IF i = 0 THEN <<>> ELSE IF list[i] \in R THEN before[i - 1] ELSE Append(before[i - 1], list[i])

\* The loop over a list is there for each of its lengths.
LEMMA LoopExists ==
    ASSUME NEW list \in Seq(Nat), NEW R
    PROVE  \E f : f = [i \in 0 .. Len(list) |-> Grown(list, R, f, i)]
<1> DEFINE Runs(n) == \E f : f = [i \in 0 .. n |-> Grown(list, R, f, i)]
           Bad     == {n \in Nat : ~Runs(n)}
<1>1. SUFFICES Bad = {}
  <2>1. Len(list) \in Nat
    OBVIOUS
  <2> QED BY <1>1, <2>1
<1> SUFFICES ASSUME Bad # {} PROVE FALSE
  OBVIOUS
<1>2. PICK n \in Bad : \A k \in Bad : n <= k
  <2> HIDE DEF Bad
  <2> SUFFICES Bad \in SUBSET Nat
    BY LeastNatural
  <2> QED BY DEF Bad
<1>3. n # 0
  <2> DEFINE f == [i \in 0 .. 0 |-> <<>>]
  <2>1. f = [i \in 0 .. 0 |-> Grown(list, R, f, i)]
    BY DEF Grown
  <2> HIDE DEF f
  <2>2. Runs(0)
    BY <2>1
  <2> QED BY <2>2
<1>4. PICK f : f = [i \in 0 .. (n - 1) |-> Grown(list, R, f, i)]
  BY <1>2, <1>3
<1> DEFINE g == [i \in 0 .. n |-> IF i = n THEN Grown(list, R, f, n) ELSE f[i]]
<1>5. g = [i \in 0 .. n |-> Grown(list, R, g, i)]
  <2> SUFFICES ASSUME NEW i \in 0 .. n
               PROVE  g[i] = Grown(list, R, g, i)
    OBVIOUS
  <2>1. CASE i = n
    <3>1. g[n - 1] = f[n - 1]
      BY <1>3
    <3> QED BY <1>3, <2>1, <3>1 DEF Grown
  <2>2. CASE i # n /\ i # 0
    <3>1. i - 1 \in 0 .. n /\ i - 1 # n /\ i \in 0 .. (n - 1)
      BY <2>2
    <3>2. g[i - 1] = f[i - 1] /\ g[i] = f[i]
      BY <2>2, <3>1
    <3>3. f[i] = Grown(list, R, f, i)
      BY <1>4, <3>1
    <3> QED BY <2>2, <3>2, <3>3 DEF Grown
  <2>3. CASE i # n /\ i = 0
    <3>1. 0 \in 0 .. (n - 1) /\ 0 # n
      BY <1>3
    <3>2. g[0] = f[0] /\ f[0] = Grown(list, R, f, 0)
      BY <1>4, <2>3, <3>1
    <3> QED BY <2>3, <3>2 DEF Grown
  <2> QED BY <2>1, <2>2, <2>3
<1> HIDE DEF g
<1>6. Runs(n)
  BY <1>5
<1> QED BY <1>2, <1>6

\* The numbers that a list adds to a class are some of its own that have no row yet, each once.
LEMMA NewNumbersFit ==
    ASSUME NEW list \in Seq(Nat)
    PROVE  /\ ClassUpload!NewNumbers(list) \in Seq(Nat)
           /\ \A i \in DOMAIN ClassUpload!NewNumbers(list) :
                 /\ ClassUpload!NewNumbers(list)[i] \notin {s.reg : s \in ClassUpload!Listed}
                 /\ \E j \in DOMAIN list : ClassUpload!NewNumbers(list)[i] = list[j]
           /\ (\A i, j \in DOMAIN list : list[i] = list[j] => i = j) =>
                 \A i, j \in DOMAIN ClassUpload!NewNumbers(list) :
                    ClassUpload!NewNumbers(list)[i] = ClassUpload!NewNumbers(list)[j] => i = j
<1> DEFINE R == {s.reg : s \in ClassUpload!Listed}
           f == CHOOSE g : g = [i \in 0 .. Len(list) |-> Grown(list, R, g, i)]
<1>1. f = [i \in 0 .. Len(list) |-> Grown(list, R, f, i)]
  BY LoopExists
<1>2. ClassUpload!NewNumbers(list) = f[Len(list)]
  BY DEF ClassUpload!NewNumbers, Grown
<1> HIDE DEF f
<1> DEFINE Distinct == \A i, j \in DOMAIN list : list[i] = list[j] => i = j
           Good(n) == /\ f[n] \in Seq(Nat)
                      /\ \A i \in DOMAIN f[n] : f[n][i] \notin R /\ \E j \in 1 .. n : f[n][i] = list[j]
                      /\ Distinct => \A i, j \in DOMAIN f[n] : f[n][i] = f[n][j] => i = j
           Bad     == {n \in Nat : n <= Len(list) /\ ~Good(n)}
<1>3. SUFFICES Bad = {}
  <2>1. Len(list) \in Nat /\ DOMAIN list = 1 .. Len(list)
    OBVIOUS
  <2>2. Good(Len(list))
    BY <1>3, <2>1
  <2> HIDE DEF R
  <2> QED BY <1>2, <2>1, <2>2 DEF R
<1> SUFFICES ASSUME Bad # {} PROVE FALSE
  OBVIOUS
<1>4. PICK n \in Bad : \A k \in Bad : n <= k
  <2> HIDE DEF Bad
  <2> SUFFICES Bad \in SUBSET Nat
    BY LeastNatural
  <2> QED BY DEF Bad
<1> HIDE DEF R
<1>5. n # 0
  <2>1. f[0] = <<>>
    BY <1>1 DEF Grown
  <2>2. Good(0)
    BY <2>1
  <2> QED BY <2>2
<1>6. /\ n \in 1 .. Len(list) /\ n - 1 \in Nat /\ Good(n - 1)
      /\ f[n] = Grown(list, R, f, n) /\ list[n] \in Nat
  <2>1. n \in 1 .. Len(list) /\ n - 1 \in Nat /\ n - 1 <= Len(list) /\ ~(n <= n - 1)
    BY <1>4, <1>5
  <2>2. Good(n - 1)
    BY <1>4, <2>1
  <2>3. f[n] = Grown(list, R, f, n)
    BY <1>1, <2>1
  <2> QED BY <2>1, <2>2, <2>3
<1>7. CASE list[n] \in R
  <2>1. f[n] = f[n - 1]
    BY <1>5, <1>6, <1>7 DEF Grown
  <2>2. Good(n)
    BY <1>6, <2>1
  <2> QED BY <1>4, <2>2
<1>8. CASE list[n] \notin R
  <2> DEFINE old == f[n - 1]
  <2>0. /\ \A j \in 1 .. n - 1 : j \in 1 .. n /\ j # n /\ j \in DOMAIN list
        /\ n \in 1 .. n /\ n \in DOMAIN list
    BY <1>6
  <2>1. f[n] = Append(old, list[n])
    BY <1>5, <1>6, <1>8 DEF Grown
  <2>2. /\ old \in Seq(Nat)
        /\ \A i \in DOMAIN old : old[i] \notin R /\ \E j \in 1 .. n - 1 : old[i] = list[j]
        /\ Distinct => \A i, j \in DOMAIN old : old[i] = old[j] => i = j
    BY <1>6
  <2> HIDE DEF old
  <2>3. /\ Append(old, list[n]) \in Seq(Nat)
        /\ DOMAIN Append(old, list[n]) = 1 .. (Len(old) + 1) /\ DOMAIN old = 1 .. Len(old) /\ Len(old) \in Nat
        /\ \A i \in 1 .. Len(old) : Append(old, list[n])[i] = old[i]
        /\ Append(old, list[n])[Len(old) + 1] = list[n]
    BY <1>6, <2>2
  <2>4. \A i \in DOMAIN f[n] : f[n][i] \notin R /\ \E j \in 1 .. n : f[n][i] = list[j]
    <3>1. ASSUME NEW i \in 1 .. Len(old)
          PROVE  f[n][i] \notin R /\ \E j \in 1 .. n : f[n][i] = list[j]
      <4>1. f[n][i] = old[i] /\ i \in DOMAIN old
        BY <2>1, <2>3, <3>1
      <4>2. PICK j \in 1 .. n - 1 : old[i] = list[j]
        BY <2>2, <4>1
      <4>3. j \in 1 .. n
        BY <2>0
      <4> QED BY <2>2, <4>1, <4>2, <4>3
    <3>2. \A i \in 1 .. (Len(old) + 1) : i \in 1 .. Len(old) \/ i = Len(old) + 1
      <4>1. Len(old) \in Nat
        BY <2>3
      <4> QED BY <4>1
    <3>3. f[n][Len(old) + 1] = list[n] /\ DOMAIN f[n] = 1 .. (Len(old) + 1)
      BY <2>1, <2>3
    <3>4. f[n][Len(old) + 1] \notin R /\ \E j \in 1 .. n : f[n][Len(old) + 1] = list[j]
      BY <1>8, <2>0, <3>3
    <3> HIDE DEF R
    <3> QED BY <3>1, <3>2, <3>3, <3>4
  <2>5. ASSUME Distinct, NEW i \in DOMAIN old, old[i] = list[n]
        PROVE  FALSE
    <3>1. PICK j \in 1 .. n - 1 : old[i] = list[j]
      BY <2>2, <2>5
    <3> QED BY <2>0, <2>5, <3>1
  <2>6. Distinct => \A i, j \in DOMAIN f[n] : f[n][i] = f[n][j] => i = j
    BY <2>1, <2>2, <2>3, <2>5
  <2>7. Good(n)
    BY <2>1, <2>3, <2>4, <2>6
  <2> QED BY <1>4, <2>7
<1> QED BY <1>7, <1>8

-----------------------------------------------------------------------------
(* What an upload holds *)

Ids     == 1 .. MaxRows
Pupil   == [id : Ids, reg : Nat]
Failure == [id : Ids, gone : BOOLEAN]
BulkRequest ==
    [at : {"next", "clearing", "deleting", "checking", "putting"}, zip : ClassZips, replace : BOOLEAN,
     list : SUBSET Pupil, had : SUBSET Ids, todo : SUBSET Pupil, removed : BOOLEAN, created : SUBSET Ids,
     skipped : SUBSET Ids, failed : SUBSET Failure, took : SUBSET Ids, found : SUBSET (Ids \X Nat)]

\* The students the zip has something for, the failures, and those whose hand-in is said to be gone.
Plan(r)      == DOMAIN ClassUpload!match_entries(ClassUpload!Entries(r.zip), r.list).matched
FailedIds(r) == {f.id : f \in r.failed}
GoneIds(r)   == {f.id : f \in {g \in r.failed : g.gone}}
OneId(list)  == \A s, t \in list : s.id = t.id => s = t
Now(r)       == ClassUpload!Now(r)

\* The teacher let the upload replace the hand-in of this student, who has files that are taken.
MayTake(id, r) ==
    /\ r.replace /\ id \in r.had
    /\ \E s \in r.list : s.id = id /\ ~ClassUpload!TurnedDown(ClassUpload!FilesFor(s, r.zip, r.list))

\* A student of the plan is still to do, or in one list of the answer.
Answers1(r) ==
    /\ \A s \in Plan(r) : s \notin r.todo <=> s.id \in r.created \cup r.skipped \cup FailedIds(r)
    /\ r.created \cap r.skipped = {} /\ r.created \cap FailedIds(r) = {} /\ r.skipped \cap FailedIds(r) = {}

\* A hand-in that was deleted is made good or said to be gone, but for the one being replaced.
TookFor(r) ==
    /\ r.took \subseteq r.created \cup GoneIds(r) \cup (IF r.removed THEN {Now(r).id} ELSE {})
    /\ \A id \in r.took : MayTake(id, r)
    /\ r.removed => r.at \in {"checking", "putting"}
    /\ r.at \in {"clearing", "deleting"} => MayTake(Now(r).id, r)
    /\ r.at = "deleting" => \A n \in r.found : n[1] = Now(r).id

UploadFits(r) ==
    /\ r \in BulkRequest /\ OneId(r.list) /\ r.todo \subseteq Plan(r)
    /\ r.created \cup r.skipped \subseteq {s.id : s \in r.list}
    /\ r.at # "next" => r.todo # {}

UploadSound(r) == UploadFits(r) /\ Answers1(r) /\ TookFor(r)

\* A plan is made of students of the list.
LEMMA PlanIsListed ==
    ASSUME NEW r
    PROVE  Plan(r) \subseteq r.list
BY DEF Plan, ClassUpload!match_entries

\* The next student is one to do.
LEMMA NowIsToDo ==
    ASSUME NEW r, UploadFits(r), r.todo # {}
    PROVE  Now(r) \in r.todo /\ Now(r) \in Plan(r) /\ Now(r) \in r.list /\ Now(r) \in Pupil /\ Now(r).id \in Ids
<1> DEFINE regs == {s.reg : s \in r.todo}
<1>1. \A s \in r.todo : s \in Pupil /\ s.reg \in Nat
  BY DEF UploadFits, BulkRequest, Pupil
<1>2. regs \in SUBSET Nat /\ regs # {}
  BY <1>1
<1> HIDE DEF regs
<1>3. PICK n \in regs : \A k \in regs : n <= k
  BY <1>2, LeastNatural
<1>4. \E s \in r.todo : \A t \in r.todo : s.reg <= t.reg
  BY <1>3 DEF regs
<1>5. Now(r) \in r.todo
  BY <1>4 DEF Now, ClassUpload!Now, ClassUpload!NextInRegOrder
<1>6. Now(r) \in Plan(r) /\ Now(r) \in r.list
  BY <1>5, PlanIsListed DEF UploadFits
<1> QED BY <1>1, <1>5, <1>6 DEF Pupil

\* A plan and what may be taken go by the zip, the list, and who had handed in.
LEMMA PlanStays ==
    ASSUME NEW q, NEW r, q.zip = r.zip, q.list = r.list, q.had = r.had, q.replace = r.replace
    PROVE  Plan(q) = Plan(r) /\ \A id : MayTake(id, q) <=> MayTake(id, r)
BY DEF Plan, MayTake

\* A student that is not skipped goes on with nothing deleted yet.
Moves(q, r) ==
    /\ q \in BulkRequest
    /\ q.zip = r.zip /\ q.list = r.list /\ q.had = r.had /\ q.replace = r.replace
    /\ q.todo = r.todo /\ q.created = r.created /\ q.skipped = r.skipped /\ q.failed = r.failed

\* While the upload stays with a student, the answer stays.
LEMMA MovesSound ==
    ASSUME NEW q, NEW r, UploadSound(r), Moves(q, r), r.todo # {}, TookFor(q)
    PROVE  UploadSound(q)
<1>1. Plan(q) = Plan(r)
  BY PlanStays DEF Moves
<1>2. FailedIds(q) = FailedIds(r)
  BY DEF Moves, FailedIds
<1> QED BY <1>1, <1>2 DEF Moves, UploadSound, UploadFits, Answers1

\* What the upload is done with a student for: the lists of the answer grow by the student.
Leaves(q, r) ==
    /\ q \in BulkRequest /\ q.at = "next" /\ ~q.removed /\ q.took = r.took
    /\ q.zip = r.zip /\ q.list = r.list /\ q.had = r.had /\ q.replace = r.replace
    /\ q.todo = r.todo \ {Now(r)}
    /\ \/ /\ q.created = r.created \cup {Now(r).id} /\ q.skipped = r.skipped /\ q.failed = r.failed
       \/ /\ q.skipped = r.skipped \cup {Now(r).id} /\ q.created = r.created /\ q.failed = r.failed
          /\ ~r.removed
       \/ /\ q.failed = r.failed \cup {[id |-> Now(r).id, gone |-> r.removed]}
          /\ q.created = r.created /\ q.skipped = r.skipped

\* When the upload is done with a student, the answer accounts for the student.
LEMMA LeavesSound ==
    ASSUME NEW q, NEW r, UploadSound(r), Leaves(q, r), r.todo # {}
    PROVE  UploadSound(q)
<1> DEFINE n == Now(r)
<1>1. n \in r.todo /\ n \in Plan(r) /\ n \in r.list /\ n \in Pupil /\ n.id \in Ids
  BY NowIsToDo DEF UploadSound
<1>2. Plan(q) = Plan(r) /\ \A id : MayTake(id, q) <=> MayTake(id, r)
  BY PlanStays DEF Leaves
<1>3. \A s \in Plan(r) : s.id = n.id => s = n
  BY <1>1, PlanIsListed DEF UploadSound, UploadFits, OneId
<1>4. n.id \notin r.created \cup r.skipped \cup FailedIds(r)
  BY <1>1 DEF UploadSound, Answers1
<1> HIDE DEF n
<1> DEFINE told == r.created \cup r.skipped \cup FailedIds(r)
<1>5. \/ q.created = r.created \cup {n.id} /\ q.skipped = r.skipped /\ FailedIds(q) = FailedIds(r)
         /\ GoneIds(q) = GoneIds(r)
      \/ q.created = r.created /\ q.skipped = r.skipped \cup {n.id} /\ FailedIds(q) = FailedIds(r)
         /\ GoneIds(q) = GoneIds(r) /\ ~r.removed
      \/ q.created = r.created /\ q.skipped = r.skipped /\ FailedIds(q) = FailedIds(r) \cup {n.id}
         /\ GoneIds(q) = GoneIds(r) \cup (IF r.removed THEN {n.id} ELSE {})
  <2>1. CASE q.created = r.created \cup {n.id} /\ q.skipped = r.skipped /\ q.failed = r.failed
    BY <2>1 DEF FailedIds, GoneIds
  <2>2. CASE q.skipped = r.skipped \cup {n.id} /\ q.created = r.created /\ q.failed = r.failed /\ ~r.removed
    BY <2>2 DEF FailedIds, GoneIds
  <2>3. CASE /\ q.failed = r.failed \cup {[id |-> n.id, gone |-> r.removed]}
             /\ q.created = r.created /\ q.skipped = r.skipped
    <3> DEFINE e == [id |-> n.id, gone |-> r.removed]
    <3>1. e.id = n.id /\ e.gone = r.removed /\ r.removed \in BOOLEAN
      BY DEF UploadSound, UploadFits, BulkRequest
    <3>2. q.failed = r.failed \cup {e}
      BY <2>3
    <3> HIDE DEF e
    <3>3. FailedIds(q) = FailedIds(r) \cup {n.id}
      BY <3>1, <3>2 DEF FailedIds
    <3>4. GoneIds(q) = GoneIds(r) \cup (IF r.removed THEN {n.id} ELSE {})
      <4>1. {g \in q.failed : g.gone} = {g \in r.failed : g.gone} \cup (IF r.removed THEN {e} ELSE {})
        BY <3>1, <3>2
      <4>2. CASE r.removed
        BY <3>1, <4>1, <4>2 DEF GoneIds
      <4>3. CASE ~r.removed
        BY <4>1, <4>3 DEF GoneIds
      <4> QED BY <4>2, <4>3
    <3> QED BY <2>3, <3>3, <3>4
  <2> QED BY <2>1, <2>2, <2>3 DEF Leaves, n
<1>6. UploadFits(q)
  BY <1>1, <1>2 DEF UploadSound, UploadFits, Leaves, n
<1>7. Answers1(q)
  <2>1. q.created \cup q.skipped \cup FailedIds(q) = told \cup {n.id}
    BY <1>5
  <2>2. \A s \in Plan(r) : s \notin r.todo <=> s.id \in told
    BY DEF UploadSound, Answers1
  <2>3. q.todo = r.todo \ {n}
    BY DEF Leaves, n
  <2> HIDE DEF told
  <2>4. \A s \in Plan(q) : s \notin q.todo <=> s.id \in told \cup {n.id}
    BY <1>2, <1>3, <2>2, <2>3
  <2>5. /\ r.created \cap r.skipped = {} /\ r.created \cap FailedIds(r) = {}
        /\ r.skipped \cap FailedIds(r) = {}
    BY DEF UploadSound, Answers1
  <2>6. q.created \cap q.skipped = {} /\ q.created \cap FailedIds(q) = {} /\ q.skipped \cap FailedIds(q) = {}
    BY <1>4, <1>5, <2>5
  <2> QED BY <2>1, <2>4, <2>6 DEF Answers1
<1>8. TookFor(q)
  <2>1. r.took \subseteq r.created \cup GoneIds(r) \cup (IF r.removed THEN {n.id} ELSE {})
    BY DEF UploadSound, TookFor, n
  <2>2. q.took \subseteq q.created \cup GoneIds(q)
    BY <1>5, <2>1 DEF Leaves
  <2>3. \A id \in q.took : MayTake(id, q)
    BY <1>2 DEF Leaves, UploadSound, TookFor
  <2> QED BY <2>2, <2>3 DEF TookFor, Leaves
<1> QED BY <1>6, <1>7, <1>8 DEF UploadSound

\* A student is skipped, handed in or failed: the upload is done with the student.
LEMMA StudentDone ==
    ASSUME NEW r, UploadSound(r), r.todo # {}
    PROVE  /\ ~r.removed => UploadSound(ClassUpload!Skipped(r))
           /\ UploadSound(ClassUpload!Created(r)) /\ UploadSound(ClassUpload!Failed(r))
<1>1. r \in BulkRequest /\ Now(r).id \in Ids
  BY NowIsToDo DEF UploadSound, UploadFits
<1> DEFINE d == ClassUpload!Done(r)
<1>2. /\ d \in BulkRequest /\ d.at = "next" /\ ~d.removed /\ d.took = r.took
      /\ d.zip = r.zip /\ d.list = r.list /\ d.had = r.had /\ d.replace = r.replace
      /\ d.todo = r.todo \ {Now(r)}
      /\ d.created = r.created /\ d.skipped = r.skipped /\ d.failed = r.failed
  BY <1>1 DEF ClassUpload!Done, Now, BulkRequest
<1>3. /\ ClassUpload!Skipped(r) = [d EXCEPT !.skipped = @ \cup {Now(r).id}]
      /\ ClassUpload!Created(r) = [d EXCEPT !.created = @ \cup {Now(r).id}]
      /\ ClassUpload!Failed(r) = [d EXCEPT !.failed = @ \cup {[id |-> Now(r).id, gone |-> r.removed]}]
  BY DEF ClassUpload!Skipped, ClassUpload!Created, ClassUpload!Failed, Now
<1> HIDE DEF d
<1>4. [id |-> Now(r).id, gone |-> r.removed] \in Failure
  BY <1>1 DEF Failure, BulkRequest
<1>5. ~r.removed => Leaves(ClassUpload!Skipped(r), r)
  BY <1>1, <1>2, <1>3 DEF Leaves, BulkRequest
<1>6. Leaves(ClassUpload!Created(r), r)
  BY <1>1, <1>2, <1>3 DEF Leaves, BulkRequest
<1>7. Leaves(ClassUpload!Failed(r), r)
  BY <1>1, <1>2, <1>3, <1>4 DEF Leaves, BulkRequest
<1> QED BY <1>5, <1>6, <1>7, LeavesSound

\* The upload looks at the next student.
LEMMA StudentSound ==
    ASSUME NEW r, UploadSound(r), r.at = "next", r.todo # {}
    PROVE  UploadSound(ClassUpload!Student(r))
<1>1. ~r.removed
  BY DEF UploadSound, TookFor
<1>2. ASSUME ~(ClassUpload!Already(r) /\ ~r.replace), ~ClassUpload!Turned(r)
      PROVE  UploadSound(ClassUpload!TakenOn(r))
  <2> DEFINE q == ClassUpload!TakenOn(r)
  <2>1. r \in BulkRequest
    BY DEF UploadSound, UploadFits
  <2>2. /\ Moves(q, r) /\ q.removed = r.removed /\ q.took = r.took
        /\ q.at = IF ClassUpload!Already(r) THEN "clearing" ELSE "checking"
    BY <2>1 DEF ClassUpload!TakenOn, BulkRequest, Moves
  <2> HIDE DEF q
  <2>3. Now(q) = Now(r) /\ GoneIds(q) = GoneIds(r) /\ \A id : MayTake(id, q) <=> MayTake(id, r)
    BY <2>2, PlanStays DEF Moves, Now, ClassUpload!Now, GoneIds
  <2>4. ClassUpload!Already(r) => MayTake(Now(r).id, r)
    <3>1. Now(r) \in r.list
      BY NowIsToDo DEF UploadSound
    <3> QED BY <1>2, <3>1 DEF MayTake, ClassUpload!Already, ClassUpload!Turned, ClassUpload!Theirs, Now
  <2>5. r.took \subseteq r.created \cup GoneIds(r) /\ \A id \in r.took : MayTake(id, r)
    BY <1>1 DEF UploadSound, TookFor
  <2>6. q.created = r.created
    BY <2>2 DEF Moves
  <2>7. TookFor(q)
    BY <1>1, <2>2, <2>3, <2>4, <2>5, <2>6 DEF TookFor
  <2> QED BY <2>2, <2>7, MovesSound DEF q
<1> QED BY <1>1, <1>2, StudentDone DEF ClassUpload!Student

\* The upload has found the hand-in to replace, has deleted it, and has checked what it hands in.
LEMMA ReplaceSound ==
    ASSUME NEW r, UploadSound(r)
    PROVE  /\ \A F \in SUBSET (Ids \X Nat) : r.at = "clearing" /\ (\A n \in F : n[1] = Now(r).id) =>
                 UploadSound([r EXCEPT !.at = "deleting", !.found = F])
           /\ \A X \in SUBSET {Now(r).id} : r.at = "deleting" =>
                 UploadSound([ClassUpload!Cleared(r) EXCEPT !.found = {}, !.took = @ \cup X])
           /\ r.at = "checking" => UploadSound([r EXCEPT !.at = "putting"])
<1>1. r \in BulkRequest /\ (r.at # "next" => r.todo # {} /\ Now(r).id \in Ids)
  BY NowIsToDo DEF UploadSound, UploadFits
<1>2. ASSUME NEW F \in SUBSET (Ids \X Nat), r.at = "clearing", \A n \in F : n[1] = Now(r).id
      PROVE  UploadSound([r EXCEPT !.at = "deleting", !.found = F])
  <2> DEFINE q == [r EXCEPT !.at = "deleting", !.found = F]
  <2>1. Moves(q, r) /\ q.removed = r.removed /\ q.took = r.took /\ q.at = "deleting" /\ q.found = F
    BY <1>1 DEF BulkRequest, Moves
  <2> HIDE DEF q
  <2>2. Now(q) = Now(r) /\ GoneIds(q) = GoneIds(r) /\ \A id : MayTake(id, q) <=> MayTake(id, r)
    BY <2>1, PlanStays DEF Moves, Now, ClassUpload!Now, GoneIds
  <2>3. q.created = r.created
    BY <2>1 DEF Moves
  <2>4. TookFor(q)
    BY <1>2, <2>1, <2>2, <2>3 DEF TookFor, UploadSound
  <2> QED BY <1>1, <1>2, <2>1, <2>4, MovesSound DEF q
<1>3. ASSUME NEW X \in SUBSET {Now(r).id}, r.at = "deleting"
      PROVE  UploadSound([ClassUpload!Cleared(r) EXCEPT !.found = {}, !.took = @ \cup X])
  <2> DEFINE q == [ClassUpload!Cleared(r) EXCEPT !.found = {}, !.took = @ \cup X]
  <2>1. Moves(q, r) /\ q.removed /\ q.took = r.took \cup X /\ q.at = "checking"
    BY <1>1, <1>3 DEF BulkRequest, Moves, ClassUpload!Cleared
  <2> HIDE DEF q
  <2>2. Now(q) = Now(r) /\ GoneIds(q) = GoneIds(r) /\ \A id : MayTake(id, q) <=> MayTake(id, r)
    BY <2>1, PlanStays DEF Moves, Now, ClassUpload!Now, GoneIds
  <2>3. q.created = r.created
    BY <2>1 DEF Moves
  <2>4. /\ r.took \subseteq r.created \cup GoneIds(r) /\ MayTake(Now(r).id, r)
        /\ \A id \in r.took : MayTake(id, r)
    BY <1>3 DEF TookFor, UploadSound
  <2>5. TookFor(q)
    BY <2>1, <2>2, <2>3, <2>4 DEF TookFor
  <2> QED BY <1>1, <1>3, <2>1, <2>5, MovesSound DEF q
<1>4. ASSUME r.at = "checking"
      PROVE  UploadSound([r EXCEPT !.at = "putting"])
  <2> DEFINE q == [r EXCEPT !.at = "putting"]
  <2>1. Moves(q, r) /\ q.removed = r.removed /\ q.took = r.took /\ q.at = "putting"
    BY <1>1 DEF BulkRequest, Moves
  <2> HIDE DEF q
  <2>2. Now(q) = Now(r) /\ GoneIds(q) = GoneIds(r) /\ \A id : MayTake(id, q) <=> MayTake(id, r)
    BY <2>1, PlanStays DEF Moves, Now, ClassUpload!Now, GoneIds
  <2>3. q.created = r.created
    BY <2>1 DEF Moves
  <2>4. TookFor(q)
    BY <2>1, <2>2, <2>3 DEF TookFor, UploadSound
  <2> QED BY <1>1, <1>4, <2>1, <2>4, MovesSound DEF q
<1> QED BY <1>2, <1>3, <1>4

-----------------------------------------------------------------------------
(* The class, its scripts and its requests *)

ScriptFits(x) ==
    /\ x = [id |-> x.id, student |-> x.student, running |-> x.running, leaves |-> x.leaves,
            holds |-> x.holds, files |-> x.files, kind |-> x.kind]
    /\ x.id \in {x.student} \X (1 .. MaxScripts) /\ x.student \in Ids /\ x.running \in BOOLEAN

OneEach(S) == \A x, y \in S : x.id = y.id \/ x.student = y.student => x = y

ClassFits ==
    /\ students \in Seq(Nat) /\ Len(students) <= MaxRows
    /\ \A i, j \in DOMAIN students : students[i] = students[j] /\ students[i] # 0 => i = j
    /\ template \in Kinds \cup {"gone"}
    /\ \A id \in struck : id \in DOMAIN students /\ students[id] = 0
ScriptsFit == (\A x \in scripts : ScriptFits(x)) /\ OneEach(scripts)

\* What a request for one student holds, and what one for the whole class does.
NoRequestYet == ClassUpload!NoRequest
HandRequest  == [at : {"handing", "storing"}, id : Ids, upload : Uploads, most : {MAX_HAND_IN_PAGES, MAX_PAGES}]
HandFits(q)  == q = NoRequestYet \/ q \in HandRequest \/ \E F : q = [at |-> "removing", found |-> F]
ListRequest  == [at : {"listed"}, zip : ClassZips, replace : BOOLEAN, list : SUBSET Pupil]
BulkFits(q) ==
    \/ q = NoRequestYet
    \/ \E zip \in ClassZips : \E lines : q = [at |-> "shown", zip |-> zip, lines |-> lines]
    \/ q \in ListRequest /\ OneId(q.list)
    \/ UploadSound(q)
RequestFits(c, q) == IF c \in Dialog THEN BulkFits(q) ELSE HandFits(q)

RequestsFit ==
    /\ requests = [c \in BulkClient |-> requests[c]]
    /\ \A c \in BulkClient : RequestFits(c, requests[c])

UploadInv == ClassFits /\ ScriptsFit /\ RequestsFit

\* Only the request that moves is another.
LEMMA RequestGoes ==
    ASSUME RequestsFit, NEW c \in BulkClient, NEW q, RequestFits(c, q),
           requests' = [requests EXCEPT ![c] = q]
    PROVE  RequestsFit'
<1>1. requests' = [d \in BulkClient |-> IF d = c THEN q ELSE requests[d]]
  BY DEF RequestsFit
<1>2. \A d \in BulkClient : RequestFits(d, IF d = c THEN q ELSE requests[d])
  BY DEF RequestsFit
<1> HIDE DEF RequestFits
<1>3. \A d \in BulkClient : requests'[d] = IF d = c THEN q ELSE requests[d]
  BY <1>1
<1>4. (\A d \in BulkClient : RequestFits(d, requests[d]))'
  <2> SUFFICES ASSUME NEW d \in BulkClient PROVE RequestFits(d, requests'[d])
    BY DEF RequestFits
  <2> QED BY <1>2, <1>3
<1> QED BY <1>1, <1>4 DEF RequestsFit

\* No request is one that every client may hold.
LEMMA NoneFits ==
    ASSUME NEW c
    PROVE  RequestFits(c, NoRequestYet)
BY DEF RequestFits, BulkFits, HandFits

\* A request for the whole class that has begun is sound, and what its stage says it is.
LEMMA BegunIsSound ==
    ASSUME RequestsFit, NEW c \in Dialog, requests[c].at \in {"next", "clearing", "deleting", "checking", "putting"}
    PROVE  c \in BulkClient /\ UploadSound(requests[c])
<1>1. c \in BulkClient
  BY UploadConstants DEF ClassUpload!BulkAssumption
<1>2. BulkFits(requests[c])
  BY <1>1 DEF RequestsFit, RequestFits
<1>3. requests[c] # NoRequestYet
  BY DEF NoRequestYet, ClassUpload!NoRequest
<1>4. ASSUME NEW zip \in ClassZips, NEW lines, requests[c] = [at |-> "shown", zip |-> zip, lines |-> lines]
      PROVE  FALSE
  BY <1>4
<1>5. requests[c] \notin ListRequest
  BY DEF ListRequest
<1> QED BY <1>1, <1>2, <1>3, <1>4, <1>5 DEF BulkFits

\* The class list as a request reads it.
LEMMA ListedFits ==
    ASSUME ClassFits
    PROVE  /\ ClassUpload!Listed \in SUBSET Pupil /\ OneId(ClassUpload!Listed)
           /\ \A s \in ClassUpload!Listed : ClassUpload!OnList(s.id)
<1>1. MaxRows \in Nat /\ Len(students) \in Nat /\ DOMAIN students = 1 .. Len(students)
  BY UploadConstants DEF ClassUpload!BulkAssumption, ClassFits
<1>2. \A i \in DOMAIN students : i \in Ids /\ students[i] \in Nat
  BY <1>1 DEF ClassFits, Ids
<1> QED BY <1>2 DEF ClassUpload!Listed, Pupil, OneId, ClassUpload!OnList

\* A script that comes is the only one of its student, and its id is new.
LEMMA InsertFits ==
    ASSUME ScriptsFit, NEW id \in Ids, NEW sorted, ClassUpload!ScriptsOf(id) = {}, ClassUpload!Insert(id, sorted)
    PROVE  ScriptsFit' /\ \A x \in scripts' : x \in scripts \/ x.student = id
<1>1. PICK n \in 1 .. MaxScripts :
        /\ ClassUpload!NewId(<<id, n>>)
        /\ scripts' = scripts \cup
              {[id |-> <<id, n>>, student |-> id, running |-> FALSE, leaves |-> sorted.leaves,
                holds |-> sorted.pages \o sorted.files, files |-> Len(sorted.files), kind |-> sorted.kind]}
  BY DEF ClassUpload!Insert
<1> DEFINE new == [id |-> <<id, n>>, student |-> id, running |-> FALSE, leaves |-> sorted.leaves,
                   holds |-> sorted.pages \o sorted.files, files |-> Len(sorted.files), kind |-> sorted.kind]
<1>2. ScriptFits(new) /\ new.id = <<id, n>> /\ new.student = id
  BY DEF ScriptFits
<1>3. scripts' = scripts \cup {new}
  BY <1>1
<1> HIDE DEF new
<1>4. \A x \in scripts : x.id # new.id /\ x.student # new.student
  BY <1>1, <1>2 DEF ClassUpload!NewId, ClassUpload!ScriptsOf
<1>5. \A x \in scripts : ScriptFits(x)
  BY DEF ScriptsFit
<1>6. OneEach(scripts \cup {new})
  BY <1>4 DEF ScriptsFit, OneEach
<1> QED BY <1>2, <1>3, <1>5, <1>6 DEF ScriptsFit

\* Scripts that go leave the others as they are.
LEMMA WithoutFits ==
    ASSUME ScriptsFit, NEW found, scripts' = ClassUpload!Without(found)
    PROVE  ScriptsFit' /\ scripts' \subseteq scripts
<1>1. scripts' \subseteq scripts
  BY DEF ClassUpload!Without
<1> QED BY <1>1 DEF ScriptsFit, OneEach

\* What a step leaves alone keeps its type.
LEMMA ClassStays ==
    ASSUME ClassFits, UNCHANGED <<students, template, struck>>
    PROVE  ClassFits'
BY DEF ClassFits

\* And so do scripts that a step leaves alone.
LEMMA ScriptsStay ==
    ASSUME ScriptsFit, UNCHANGED scripts
    PROVE  ScriptsFit'
BY DEF ScriptsFit

-----------------------------------------------------------------------------
(* Steps of a request for one student *)

\* A student's hand-in, or one that a teacher takes back, goes from one stage to the next.
LEMMA HandStep ==
    ASSUME UploadInv, NEW c \in BulkClient \ Dialog,
           \/ \E id \in 1 .. MaxRows, u \in Uploads :
                 \/ ClassUpload!Upload(c, id, u, MAX_HAND_IN_PAGES)
                 \/ ClassUpload!Upload(c, id, u, MAX_PAGES)
           \/ ClassUpload!UploadCheck(c) \/ ClassUpload!UploadStore(c)
           \/ (\E id \in 1 .. MaxRows : ClassUpload!TakeBackAsked(c, id)) \/ ClassUpload!TakeBack(c)
    PROVE  UploadInv'
<1>0. ClassFits /\ ScriptsFit /\ RequestsFit /\ HandFits(requests[c])
  BY DEF UploadInv, RequestsFit, RequestFits
<1>a. \A q : HandFits(q) /\ requests' = [requests EXCEPT ![c] = q] => RequestsFit'
  BY <1>0, RequestGoes DEF RequestFits
<1>b. HandFits(NoRequestYet)
  BY DEF HandFits
<1>1. ASSUME NEW id \in 1 .. MaxRows, NEW u \in Uploads, NEW most \in {MAX_HAND_IN_PAGES, MAX_PAGES},
             ClassUpload!Upload(c, id, u, most)
      PROVE  UploadInv'
  <2> DEFINE q == [at |-> "handing", id |-> id, upload |-> u, most |-> most]
  <2>1. HandFits(q)
    BY DEF HandFits, HandRequest, Ids
  <2>2. requests' = [requests EXCEPT ![c] = q] /\ UNCHANGED <<students, scripts, template, struck>>
    BY <1>1 DEF ClassUpload!Upload, ClassUpload!Untouched
  <2> QED BY <1>0, <1>a, <2>1, <2>2, ClassStays, ScriptsStay DEF UploadInv
<1>2. ASSUME requests[c].at \in {"handing", "storing"}
      PROVE  requests[c] \in HandRequest
  <2>1. ASSUME NEW F, requests[c] = [at |-> "removing", found |-> F]
        PROVE  FALSE
    BY <1>2, <2>1
  <2>2. requests[c] # NoRequestYet
    BY <1>2 DEF NoRequestYet, ClassUpload!NoRequest
  <2> QED BY <1>0, <2>1, <2>2 DEF HandFits
<1>3. CASE ClassUpload!UploadCheck(c)
  <2>1. requests[c] \in HandRequest /\ UNCHANGED <<students, scripts, template, struck>>
    BY <1>2, <1>3 DEF ClassUpload!UploadCheck, ClassUpload!Untouched
  <2> DEFINE q == [requests[c] EXCEPT !.at = "storing"]
  <2>2. HandFits(q)
    BY <2>1 DEF HandFits, HandRequest
  <2>3. \/ requests' = [requests EXCEPT ![c] = NoRequestYet]
        \/ requests' = [requests EXCEPT ![c] = q]
    BY <1>3 DEF ClassUpload!UploadCheck, ClassUpload!Ends, ClassUpload!Goes, NoRequestYet
  <2>4. RequestsFit'
    BY <1>a, <1>b, <2>2, <2>3
  <2> QED BY <1>0, <2>1, <2>4, ClassStays, ScriptsStay DEF UploadInv
<1>4. CASE ClassUpload!UploadStore(c)
  <2>1. requests[c].id \in Ids
    BY <1>2, <1>4 DEF ClassUpload!UploadStore, HandRequest
  <2>2. requests' = [requests EXCEPT ![c] = NoRequestYet] /\ UNCHANGED <<students, template, struck>>
    BY <1>4 DEF ClassUpload!UploadStore, ClassUpload!Ends, NoRequestYet
  <2>3. ScriptsFit'
    <3> DEFINE id == requests[c].id
               sorted == ClassUpload!Sorted(requests[c].upload, requests[c].most)
    <3>1. CASE UNCHANGED scripts
      BY <1>0, <3>1, ScriptsStay
    <3>2. CASE ~ClassUpload!RefusedAtLast(id, sorted) /\ ClassUpload!Insert(id, sorted)
      <4>1. ClassUpload!ScriptsOf(id) = {}
        BY <3>2 DEF ClassUpload!RefusedAtLast
      <4> QED BY <1>0, <2>1, <3>2, <4>1, InsertFits
    <3> QED BY <1>4, <3>1, <3>2 DEF ClassUpload!UploadStore
  <2> QED BY <1>0, <1>a, <1>b, <2>2, <2>3, ClassStays DEF UploadInv
<1>5. ASSUME NEW id \in 1 .. MaxRows, ClassUpload!TakeBackAsked(c, id)
      PROVE  UploadInv'
  <2>1. HandFits([at |-> "removing", found |-> ClassUpload!Found(id)])
    BY DEF HandFits
  <2>2. /\ requests' = [requests EXCEPT ![c] = [at |-> "removing", found |-> ClassUpload!Found(id)]]
        /\ UNCHANGED <<students, scripts, template, struck>>
    BY <1>5 DEF ClassUpload!TakeBackAsked, ClassUpload!Untouched
  <2> QED BY <1>0, <1>a, <2>1, <2>2, ClassStays, ScriptsStay DEF UploadInv
<1>6. CASE ClassUpload!TakeBack(c)
  <2>1. /\ requests' = [requests EXCEPT ![c] = NoRequestYet] /\ UNCHANGED <<students, template, struck>>
        /\ scripts' = ClassUpload!Without(requests[c].found)
    BY <1>6 DEF ClassUpload!TakeBack, ClassUpload!Ends, NoRequestYet
  <2> QED BY <1>0, <1>a, <1>b, <2>1, WithoutFits, ClassStays DEF UploadInv
<1> QED BY <1>1, <1>3, <1>4, <1>5, <1>6

-----------------------------------------------------------------------------
(* Steps of a request for the whole class *)

\* An upload that has made its plan has every student of it still to do.
LEMMA PlanBegins ==
    ASSUME NEW r \in ListRequest, OneId(r.list), NEW had \in SUBSET Ids
    PROVE  UploadSound([at |-> "next", zip |-> r.zip, replace |-> r.replace, list |-> r.list, had |-> had,
                        todo |-> Plan(r), removed |-> FALSE,
                        created |-> {}, skipped |-> {}, failed |-> {}, took |-> {}, found |-> {}])
<1> DEFINE q == [at |-> "next", zip |-> r.zip, replace |-> r.replace, list |-> r.list, had |-> had,
                 todo |-> Plan(r), removed |-> FALSE,
                 created |-> {}, skipped |-> {}, failed |-> {}, took |-> {}, found |-> {}]
<1>1. /\ r.zip \in ClassZips /\ r.replace \in BOOLEAN /\ r.list \in SUBSET Pupil /\ Plan(r) \in SUBSET Pupil
      /\ Plan(q) = Plan(r)
  BY PlanIsListed DEF ListRequest, Plan
<1>2. /\ q.at = "next" /\ q.zip = r.zip /\ q.replace = r.replace /\ q.list = r.list /\ q.had = had
      /\ q.todo = Plan(r) /\ q.removed = FALSE /\ q.created = {} /\ q.skipped = {} /\ q.failed = {}
      /\ q.took = {} /\ q.found = {}
  OBVIOUS
<1>3. q \in BulkRequest
  BY <1>1 DEF BulkRequest
<1> HIDE DEF q
<1>4. UploadFits(q)
  BY <1>1, <1>2, <1>3 DEF UploadFits
<1>5. FailedIds(q) = {} /\ GoneIds(q) = {}
  BY <1>2 DEF FailedIds, GoneIds
<1>6. Answers1(q)
  BY <1>1, <1>2, <1>5 DEF Answers1
<1>7. TookFor(q)
  BY <1>2, <1>5 DEF TookFor
<1> QED BY <1>4, <1>6, <1>7 DEF UploadSound, q
\* A class upload goes from one stage to the next, and is done with one student after another.
LEMMA DialogStep ==
    ASSUME UploadInv, NEW c \in Dialog,
           \/ \E zip \in ClassZips : ClassUpload!BulkPreview(c, zip)
           \/ \E replace \in BOOLEAN : ClassUpload!BulkCommit(c, replace)
           \/ ClassUpload!BulkBegins(c) \/ ClassUpload!BulkStudent(c) \/ ClassUpload!BulkClear(c)
           \/ ClassUpload!BulkRemove(c) \/ ClassUpload!BulkCheck(c) \/ ClassUpload!BulkStore(c)
           \/ ClassUpload!BulkRead(c)
    PROVE  UploadInv'
<1> DEFINE r == requests[c]
<1>0. ClassFits /\ ScriptsFit /\ RequestsFit /\ c \in BulkClient /\ BulkFits(r)
  BY UploadConstants DEF UploadInv, RequestsFit, RequestFits, ClassUpload!BulkAssumption
<1>a. \A q : BulkFits(q) /\ requests' = [requests EXCEPT ![c] = q] => RequestsFit'
  BY <1>0, RequestGoes DEF RequestFits
<1>b. \A q : UploadSound(q) /\ requests' = [requests EXCEPT ![c] = q] => RequestsFit'
  BY <1>a DEF BulkFits
<1>c. ASSUME r.at \in {"next", "clearing", "deleting", "checking", "putting"}
      PROVE  UploadSound(r) /\ (r.at # "next" => r.todo # {} /\ Now(r).id \in Ids)
  <2>1. UploadSound(r)
    BY <1>0, <1>c, BegunIsSound
  <2> HIDE DEF r
  <2> QED BY <2>1, NowIsToDo DEF UploadSound, UploadFits
<1>d. ASSUME UNCHANGED <<students, scripts, template, struck>>, RequestsFit'
      PROVE  UploadInv'
  BY <1>0, <1>d, ClassStays, ScriptsStay DEF UploadInv
<1>1. ASSUME NEW zip \in ClassZips, ClassUpload!BulkPreview(c, zip)
      PROVE  UploadInv'
  <2>1. \E lines : requests' = [requests EXCEPT ![c] = [at |-> "shown", zip |-> zip, lines |-> lines]]
    BY <1>1 DEF ClassUpload!BulkPreview
  <2>2. RequestsFit'
    BY <1>a, <2>1 DEF BulkFits
  <2> QED BY <1>1, <1>d, <2>2 DEF ClassUpload!BulkPreview, ClassUpload!Untouched
<1>2. ASSUME NEW replace \in BOOLEAN, ClassUpload!BulkCommit(c, replace)
      PROVE  UploadInv'
  <2>1. r.at = "shown"
    BY <1>2 DEF ClassUpload!BulkCommit
  <2>2. r.zip \in ClassZips
    <3>1. r # NoRequestYet /\ r \notin ListRequest /\ ~UploadSound(r)
      BY <2>1 DEF NoRequestYet, ClassUpload!NoRequest, ListRequest, UploadSound, UploadFits, BulkRequest
    <3>2. PICK zip \in ClassZips : \E lines : r = [at |-> "shown", zip |-> zip, lines |-> lines]
      BY <1>0, <3>1 DEF BulkFits
    <3> QED BY <3>2
  <2> DEFINE q == [at |-> "listed", zip |-> r.zip, replace |-> replace, list |-> ClassUpload!Listed]
  <2>3. q \in ListRequest /\ OneId(q.list)
    BY <1>0, <2>2, ListedFits DEF ListRequest
  <2>4. requests' = [requests EXCEPT ![c] = q]
    BY <1>2 DEF ClassUpload!BulkCommit
  <2>5. RequestsFit'
    BY <1>a, <2>3, <2>4 DEF BulkFits
  <2> QED BY <1>2, <1>d, <2>5 DEF ClassUpload!BulkCommit, ClassUpload!Untouched
<1>3. CASE ClassUpload!BulkBegins(c)
  <2>1. r.at = "listed"
    BY <1>3 DEF ClassUpload!BulkBegins
  <2>2. r \in ListRequest /\ OneId(r.list)
    <3>1. r # NoRequestYet /\ ~UploadSound(r)
      BY <2>1 DEF NoRequestYet, ClassUpload!NoRequest, UploadSound, UploadFits, BulkRequest
    <3>2. ASSUME NEW zip \in ClassZips, NEW lines, r = [at |-> "shown", zip |-> zip, lines |-> lines]
          PROVE  FALSE
      BY <2>1, <3>2
    <3> QED BY <1>0, <3>1, <3>2 DEF BulkFits
  <2>3. ClassUpload!HandedInIds \in SUBSET Ids
    BY <1>0 DEF ScriptsFit, ScriptFits, ClassUpload!HandedInIds
  <2> DEFINE q == [at |-> "next", zip |-> r.zip, replace |-> r.replace, list |-> r.list,
                   had |-> ClassUpload!HandedInIds, todo |-> Plan(r), removed |-> FALSE,
                   created |-> {}, skipped |-> {}, failed |-> {}, took |-> {}, found |-> {}]
  <2>4. requests' = [requests EXCEPT ![c] = q]
    BY <1>3 DEF ClassUpload!BulkBegins, Plan
  <2>5. UploadSound(q)
    BY <2>2, <2>3, PlanBegins
  <2> HIDE DEF q
  <2>6. RequestsFit'
    BY <1>b, <2>4, <2>5
  <2> QED BY <1>3, <1>d, <2>6 DEF ClassUpload!BulkBegins, ClassUpload!Untouched
<1>4. CASE ClassUpload!BulkStudent(c)
  <2>1. /\ r.at = "next" /\ r.todo # {} /\ requests' = [requests EXCEPT ![c] = ClassUpload!Student(r)]
        /\ UNCHANGED <<students, scripts, template, struck>>
    BY <1>4 DEF ClassUpload!BulkStudent, ClassUpload!Becomes, ClassUpload!Untouched
  <2>2. UploadSound(r)
    BY <1>c, <2>1
  <2>3. UploadSound(ClassUpload!Student(r))
    BY <2>1, <2>2, StudentSound
  <2> QED BY <1>b, <1>d, <2>1, <2>3
<1>5. CASE ClassUpload!BulkClear(c)
  <2>1. r.at = "clearing" /\ UNCHANGED <<students, scripts, template, struck>>
    BY <1>5 DEF ClassUpload!BulkClear, ClassUpload!Untouched
  <2>2. UploadSound(r) /\ r.todo # {} /\ Now(r).id \in Ids
    BY <1>c, <2>1
  <2> DEFINE F == ClassUpload!Found(Now(r).id)
             q == [r EXCEPT !.at = "deleting", !.found = F]
  <2>3. requests' = [requests EXCEPT ![c] = ClassUpload!Failed(r)] \/ requests' = [requests EXCEPT ![c] = q]
    BY <1>5 DEF ClassUpload!BulkClear, ClassUpload!Becomes, Now
  <2>4. F \in SUBSET (Ids \X Nat) /\ \A n \in F : n[1] = Now(r).id
    <3>0. MaxScripts \in Nat
      BY UploadConstants DEF ClassUpload!BulkAssumption
    <3>1. \A x \in scripts : x.id \in {x.student} \X (1 .. MaxScripts) /\ x.student \in Ids
      BY <1>0 DEF ScriptsFit, ScriptFits
    <3>2. \A x \in scripts : x.id \in Ids \X Nat /\ x.id[1] = x.student
      BY <3>0, <3>1
    <3> QED BY <3>2 DEF ClassUpload!Found, ClassUpload!ScriptsOf
  <2> HIDE DEF F
  <2>5. UploadSound(q)
    BY <2>1, <2>2, <2>4, ReplaceSound
  <2>6. UploadSound(ClassUpload!Failed(r))
    BY <2>2, StudentDone
  <2> HIDE DEF q
  <2> QED BY <1>b, <1>d, <2>1, <2>3, <2>5, <2>6
<1>6. CASE ClassUpload!BulkRemove(c)
  <2>1. r.at = "deleting" /\ scripts' = ClassUpload!Without(r.found) /\ UNCHANGED <<students, template, struck>>
    BY <1>6 DEF ClassUpload!BulkRemove
  <2>2. UploadSound(r) /\ \A n \in r.found : n[1] = Now(r).id
    BY <1>c, <2>1 DEF UploadSound, TookFor
  <2> DEFINE X == {x.student : x \in scripts \ ClassUpload!Without(r.found)}
             q == [ClassUpload!Cleared(r) EXCEPT !.found = {}, !.took = @ \cup X]
  <2>3. requests' = [requests EXCEPT ![c] = q]
    BY <1>6 DEF ClassUpload!BulkRemove, ClassUpload!Becomes
  <2>4. X \in SUBSET {Now(r).id}
    <3>1. \A x \in scripts : x.id[1] = x.student
      BY <1>0 DEF ScriptsFit, ScriptFits
    <3>2. \A x \in scripts \ ClassUpload!Without(r.found) : x \in scripts /\ x.id \in r.found
      BY DEF ClassUpload!Without
    <3> QED BY <2>2, <3>1, <3>2
  <2> HIDE DEF X
  <2>5. UploadSound(q)
    BY <2>1, <2>2, <2>4, ReplaceSound
  <2> HIDE DEF q
  <2>6. RequestsFit' /\ ScriptsFit' /\ ClassFits'
    BY <1>0, <1>b, <2>1, <2>3, <2>5, WithoutFits, ClassStays
  <2> QED BY <2>6 DEF UploadInv
<1>7. CASE ClassUpload!BulkCheck(c)
  <2>1. r.at = "checking" /\ UNCHANGED <<students, scripts, template, struck>>
    BY <1>7 DEF ClassUpload!BulkCheck, ClassUpload!Untouched
  <2>2. UploadSound(r) /\ r.todo # {}
    BY <1>c, <2>1
  <2>3. \/ requests' = [requests EXCEPT ![c] = ClassUpload!Failed(r)]
        \/ requests' = [requests EXCEPT ![c] = [r EXCEPT !.at = "putting"]]
    BY <1>7 DEF ClassUpload!BulkCheck, ClassUpload!Becomes
  <2>4. UploadSound(ClassUpload!Failed(r)) /\ UploadSound([r EXCEPT !.at = "putting"])
    BY <2>1, <2>2, StudentDone, ReplaceSound
  <2> QED BY <1>b, <1>d, <2>1, <2>3, <2>4
<1>8. CASE ClassUpload!BulkStore(c)
  <2>1. r.at = "putting" /\ UNCHANGED <<students, template, struck>>
    BY <1>8 DEF ClassUpload!BulkStore
  <2>2. UploadSound(r) /\ r.todo # {} /\ Now(r).id \in Ids
    BY <1>c, <2>1
  <2>3. \/ requests' = [requests EXCEPT ![c] = ClassUpload!Failed(r)]
        \/ requests' = [requests EXCEPT ![c] = ClassUpload!Created(r)]
    BY <1>8 DEF ClassUpload!BulkStore, ClassUpload!Becomes
  <2>4. RequestsFit'
    <3>1. UploadSound(ClassUpload!Failed(r)) /\ UploadSound(ClassUpload!Created(r))
      BY <2>2, StudentDone
    <3> QED BY <1>b, <2>3, <3>1
  <2>5. ScriptsFit'
    <3> DEFINE sorted == ClassUpload!Sorted(ClassUpload!Theirs(r), MAX_PAGES)
    <3>1. CASE UNCHANGED scripts
      BY <1>0, <3>1, ScriptsStay
    <3>2. CASE ~ClassUpload!RefusedAtLast(Now(r).id, sorted) /\ ClassUpload!Insert(Now(r).id, sorted)
      <4>1. ClassUpload!ScriptsOf(Now(r).id) = {}
        BY <3>2 DEF ClassUpload!RefusedAtLast
      <4> QED BY <1>0, <2>2, <3>2, <4>1, InsertFits
    <3> QED BY <1>8, <3>1, <3>2 DEF ClassUpload!BulkStore, Now
  <2> QED BY <1>0, <2>1, <2>4, <2>5, ClassStays DEF UploadInv
<1>9. CASE ClassUpload!BulkRead(c)
  <2>1. requests' = [requests EXCEPT ![c] = NoRequestYet] /\ UNCHANGED <<students, scripts, template, struck>>
    BY <1>9 DEF ClassUpload!BulkRead, ClassUpload!Ends, ClassUpload!Untouched, NoRequestYet
  <2>2. BulkFits(NoRequestYet)
    BY DEF BulkFits
  <2> QED BY <1>a, <1>d, <2>1, <2>2
<1> HIDE DEF r
<1> QED BY <1>1, <1>2, <1>3, <1>4, <1>5, <1>6, <1>7, <1>8, <1>9
-----------------------------------------------------------------------------
(* The class list, the template, the mark jobs, and a process that dies *)

\* Two lists of naturals, one after the other.
LEMMA Joined ==
    ASSUME NEW s \in Seq(Nat), NEW t \in Seq(Nat)
    PROVE  /\ s \o t \in Seq(Nat) /\ Len(s \o t) = Len(s) + Len(t) /\ Len(t) \in Nat
           /\ DOMAIN (s \o t) = 1 .. (Len(s) + Len(t)) /\ DOMAIN t = 1 .. Len(t)
           /\ \A i \in 1 .. (Len(s) + Len(t)) :
                 (s \o t)[i] = IF i <= Len(s) THEN s[i] ELSE t[i - Len(s)]
<1>1. s \o t \in Seq(Nat) /\ Len(s \o t) = Len(s) + Len(t) /\ Len(s) \in Nat /\ Len(t) \in Nat
  BY ConcatProperties
<1>2. \A i \in 1 .. (Len(s) + Len(t)) : (s \o t)[i] = IF i <= Len(s) THEN s[i] ELSE t[i - Len(s)]
  BY ConcatProperties
<1> QED BY <1>1, <1>2

\* A new class list keeps the row of each number that stays, strikes the others out, and adds rows at the end.
LEMMA RowsAfterFit ==
    ASSUME ClassFits, NEW list \in Lists, ClassUpload!Clean(list)
    PROVE  /\ ClassUpload!RowsAfter(list) \in Seq(Nat)
           /\ Len(ClassUpload!RowsAfter(list)) = Len(students) + Len(ClassUpload!NewNumbers(list))
           /\ \A id \in DOMAIN students :
                 /\ id \in DOMAIN ClassUpload!RowsAfter(list)
                 /\ ClassUpload!RowsAfter(list)[id] = IF ClassUpload!Stays(id, list) THEN students[id] ELSE 0
           /\ \A i, j \in DOMAIN ClassUpload!RowsAfter(list) :
                 ClassUpload!RowsAfter(list)[i] = ClassUpload!RowsAfter(list)[j]
                 /\ ClassUpload!RowsAfter(list)[i] # 0 => i = j
<1> DEFINE kept == [id \in DOMAIN students |-> IF ClassUpload!Stays(id, list) THEN students[id] ELSE 0]
           new == ClassUpload!NewNumbers(list)
           after == kept \o new
           regs == {s.reg : s \in ClassUpload!Listed}
<1>1. list \in Seq(Nat)
  BY UploadConstants DEF ClassUpload!BulkAssumption
<1>2. \A i, j \in DOMAIN list : list[i] = list[j] => i = j
  BY DEF ClassUpload!Clean, ClassUpload!IsInjective
<1>3. /\ new \in Seq(Nat) /\ \A i \in DOMAIN new : new[i] \notin regs
      /\ \A i, j \in DOMAIN new : new[i] = new[j] => i = j
  BY <1>1, <1>2, NewNumbersFit
<1>4. students \in Seq(Nat) /\ DOMAIN students = 1 .. Len(students) /\ Len(students) \in Nat
  BY DEF ClassFits
<1>5. /\ kept \in Seq(Nat) /\ Len(kept) = Len(students)
      /\ \A i \in DOMAIN students : kept[i] # 0 => kept[i] = students[i]
  BY <1>4
<1>6. \A i \in DOMAIN students : kept[i] # 0 => kept[i] \in regs
  <2> SUFFICES ASSUME NEW i \in DOMAIN students, kept[i] # 0
               PROVE  students[i] \in regs
    BY <1>5
  <2>1. [id |-> i, reg |-> students[i]] \in ClassUpload!Listed
    BY <1>5 DEF ClassUpload!Listed
  <2> QED BY <2>1
<1>7. \A i, j \in DOMAIN students : kept[i] = kept[j] /\ kept[i] # 0 => i = j
  BY <1>5 DEF ClassFits
<1>8. ClassUpload!RowsAfter(list) = after
  BY DEF ClassUpload!RowsAfter
<1>9. \A id \in DOMAIN students : kept[id] = IF ClassUpload!Stays(id, list) THEN students[id] ELSE 0
  OBVIOUS
<1> HIDE DEF kept, new, regs
<1>10. /\ after \in Seq(Nat) /\ Len(after) = Len(students) + Len(new) /\ Len(new) \in Nat
       /\ DOMAIN after = 1 .. (Len(students) + Len(new)) /\ DOMAIN new = 1 .. Len(new)
       /\ \A i \in 1 .. (Len(students) + Len(new)) :
             after[i] = IF i <= Len(students) THEN kept[i] ELSE new[i - Len(students)]
  <2>1. after = kept \o new
    OBVIOUS
  <2> HIDE DEF after
  <2>2. /\ kept \o new \in Seq(Nat) /\ Len(kept \o new) = Len(kept) + Len(new) /\ Len(new) \in Nat
        /\ DOMAIN (kept \o new) = 1 .. (Len(kept) + Len(new)) /\ DOMAIN new = 1 .. Len(new)
        /\ \A i \in 1 .. (Len(kept) + Len(new)) :
              (kept \o new)[i] = IF i <= Len(kept) THEN kept[i] ELSE new[i - Len(kept)]
    BY <1>3, <1>5, Joined
  <2> QED BY <1>5, <2>1, <2>2
<1>11. \A i \in DOMAIN after : \/ i \in DOMAIN students /\ after[i] = kept[i]
                              \/ /\ i - Len(students) \in DOMAIN new /\ i \notin DOMAIN students
                                 /\ after[i] = new[i - Len(students)] /\ i \in Nat
  BY <1>4, <1>10
<1>12. \A i \in DOMAIN students : i \in DOMAIN after /\ after[i] = kept[i]
  BY <1>4, <1>10
<1> HIDE DEF after
<1>13. ASSUME NEW i \in DOMAIN after, NEW j \in DOMAIN after, after[i] = after[j], after[i] # 0
       PROVE  i = j
  <2>1. CASE i \in DOMAIN students /\ j \in DOMAIN students
    BY <1>7, <1>12, <1>13, <2>1
  <2>2. CASE i \in DOMAIN students /\ j \notin DOMAIN students
    BY <1>3, <1>6, <1>11, <1>13, <2>2
  <2>3. CASE i \notin DOMAIN students /\ j \in DOMAIN students
    BY <1>3, <1>6, <1>11, <1>13, <2>3
  <2>4. CASE i \notin DOMAIN students /\ j \notin DOMAIN students
    <3>1. /\ i - Len(students) \in DOMAIN new /\ after[i] = new[i - Len(students)] /\ i \in Nat
          /\ j - Len(students) \in DOMAIN new /\ after[j] = new[j - Len(students)] /\ j \in Nat
      BY <1>11, <2>4
    <3>2. i - Len(students) = j - Len(students)
      BY <1>3, <1>13, <3>1
    <3> QED BY <1>4, <3>1, <3>2
  <2> QED BY <2>1, <2>2, <2>3, <2>4
<1> QED BY <1>8, <1>9, <1>10, <1>12, <1>13 DEF new

\* A mark job that starts or ends leaves its script the same but for running.
LEMMA RunsFits ==
    ASSUME ScriptsFit, NEW x \in scripts, NEW running \in BOOLEAN, ClassUpload!Runs(x, running)
    PROVE  /\ ScriptsFit'
           /\ \A y \in scripts' : \E z \in scripts :
                 y.student = z.student /\ y.holds = z.holds /\ y.leaves = z.leaves /\ y.files = z.files
<1> DEFINE y == [x EXCEPT !.running = running]
<1>1. ScriptFits(x)
  BY DEF ScriptsFit
<1>2. y = [id |-> x.id, student |-> x.student, running |-> running, leaves |-> x.leaves,
           holds |-> x.holds, files |-> x.files, kind |-> x.kind]
  BY <1>1 DEF ScriptFits
<1>3. /\ y.id = x.id /\ y.student = x.student /\ y.holds = x.holds /\ y.leaves = x.leaves /\ y.files = x.files
      /\ ScriptFits(y)
  BY <1>1, <1>2 DEF ScriptFits
<1>4. scripts' = (scripts \ {x}) \cup {y}
  BY DEF ClassUpload!Runs
<1> HIDE DEF y
<1>5. OneEach((scripts \ {x}) \cup {y})
  BY <1>3 DEF ScriptsFit, OneEach
<1>6. \A z \in (scripts \ {x}) \cup {y} : ScriptFits(z)
  BY <1>3 DEF ScriptsFit
<1> QED BY <1>3, <1>4, <1>5, <1>6 DEF ScriptsFit

\* Every step of the class upload keeps what its state holds.
LEMMA UploadStep ==
    ASSUME UploadInv, ClassUpload!BulkNext \/ UNCHANGED bulkVars
    PROVE  UploadInv'
<1>0. ClassFits /\ ScriptsFit /\ RequestsFit
  BY DEF UploadInv
<1>a. ASSUME UNCHANGED requests
      PROVE  RequestsFit'
  BY <1>0, <1>a DEF RequestsFit
<1>1. CASE UNCHANGED bulkVars
  BY <1>0, <1>1, <1>a, ClassStays, ScriptsStay DEF bulkVars, UploadInv
<1>2. ASSUME NEW list \in Lists, ClassUpload!ReplaceClasslist(list)
      PROVE  UploadInv'
  <2>1. /\ students' = ClassUpload!RowsAfter(list) /\ UNCHANGED <<scripts, template, requests>>
        /\ Len(students) + Len(ClassUpload!NewNumbers(list)) <= MaxRows /\ ClassUpload!Clean(list)
        /\ \A id \in struck' : id \in struck \/ (id \in DOMAIN students /\ ~ClassUpload!Stays(id, list))
    BY <1>2 DEF ClassUpload!ReplaceClasslist
  <2>2. /\ students' \in Seq(Nat) /\ Len(students') <= MaxRows
        /\ \A i, j \in DOMAIN students' : students'[i] = students'[j] /\ students'[i] # 0 => i = j
    BY <1>0, <1>2, <2>1, RowsAfterFit DEF ClassUpload!ReplaceClasslist
  <2>3. \A id \in DOMAIN students : id \in DOMAIN students' /\
            students'[id] = IF ClassUpload!Stays(id, list) THEN students[id] ELSE 0
    BY <1>0, <2>1, RowsAfterFit
  <2>4. \A id \in struck' : id \in DOMAIN students' /\ students'[id] = 0
    BY <1>0, <2>1, <2>3 DEF ClassFits
  <2>5. ClassFits'
    BY <1>0, <2>1, <2>2, <2>4 DEF ClassFits
  <2> QED BY <1>0, <1>a, <2>1, <2>5, ScriptsStay DEF UploadInv
<1>3. CASE ClassUpload!TemplateGoes
  <2>1. template' = "gone" /\ UNCHANGED <<students, scripts, requests, struck>>
    BY <1>3 DEF ClassUpload!TemplateGoes
  <2>2. ClassFits'
    BY <1>0, <2>1 DEF ClassFits
  <2> QED BY <1>0, <1>a, <2>1, <2>2, ScriptsStay DEF UploadInv
<1>4. ASSUME NEW x \in scripts, NEW running \in BOOLEAN, ClassUpload!Runs(x, running)
      PROVE  UploadInv'
  <2>1. UNCHANGED <<students, template, requests, struck>>
    BY <1>4 DEF ClassUpload!Runs
  <2> QED BY <1>0, <1>4, <1>a, <2>1, RunsFits, ClassStays DEF UploadInv
<1>5. CASE ClassUpload!Crash
  <2>1. requests' = [c \in BulkClient |-> NoRequestYet] /\ UNCHANGED <<students, scripts, template, struck>>
    BY <1>5 DEF ClassUpload!Crash, ClassUpload!Untouched, NoRequestYet
  <2>2. \A c \in BulkClient : RequestFits(c, NoRequestYet) /\ requests'[c] = NoRequestYet
    BY <2>1, NoneFits
  <2>3. requests' = [c \in BulkClient |-> requests'[c]]
    BY <2>1
  <2>4. RequestsFit'
    BY <2>2, <2>3 DEF RequestsFit
  <2> QED BY <1>0, <2>1, <2>4, ClassStays, ScriptsStay DEF UploadInv
<1>6. CASE ClassUpload!BulkNext
  BY <1>2, <1>3, <1>4, <1>5, <1>6, HandStep, DialogStep DEF ClassUpload!BulkNext, ClassUpload!StudentUpload, ClassUpload!TeacherUpload
<1> QED BY <1>1, <1>6
\* At the start there is the first class list, and nothing else.
LEMMA UploadStarts ==
    ASSUME ClassUpload!BulkInit
    PROVE  UploadInv
<1>1. ClassFits
  BY UploadConstants DEF ClassFits, ClassUpload!BulkInit, ClassUpload!BulkAssumption
<1>2. ScriptsFit
  BY DEF ScriptsFit, OneEach, ClassUpload!BulkInit
<1>3. requests = [c \in BulkClient |-> NoRequestYet]
  BY DEF ClassUpload!BulkInit, NoRequestYet
<1>4. \A c \in BulkClient : requests[c] = NoRequestYet /\ RequestFits(c, NoRequestYet)
  BY <1>3, NoneFits
<1>5. RequestsFit
  BY <1>3, <1>4 DEF RequestsFit
<1> QED BY <1>1, <1>2, <1>5 DEF UploadInv

\* What the class upload holds is so in every state of the office.
LEMMA OfficeKeepsUploads == OfficeSpec => []UploadInv
<1>1. OfficeInit => UploadInv
  BY UploadStarts DEF OfficeInit
<1>2. UploadInv /\ [OfficeNext]_<<which, scriptVars, choiceVars, bulkVars>> => UploadInv'
  BY UploadStep DEF OfficeNext
<1> QED BY <1>1, <1>2, PTL DEF OfficeSpec

-----------------------------------------------------------------------------
(* What the class upload promises *)

\* The variables of the class upload keep their types, ids are given out once, a student has one script at most
\* and a register number one row, and an upload has made or skipped only students of its list.
THEOREM UploadTypes == OfficeSpec => []ClassUpload!BulkTypeOK
<1>1. ASSUME UploadInv
      PROVE  ClassUpload!BulkTypeOK
  <2>1. /\ students \in Seq(Nat) /\ Len(students) <= MaxRows
        /\ \A i, j \in DOMAIN students : students[i] = students[j] /\ students[i] # 0 => i = j
        /\ template \in Kinds \cup {"gone"}
        /\ \A id \in struck : id \in DOMAIN students /\ students[id] = 0
    BY <1>1 DEF UploadInv, ClassFits
  <2>2. \A x \in scripts : x.id \in {x.student} \X (1 .. MaxScripts) /\ x.student \in 1 .. MaxRows
                           /\ x.running \in BOOLEAN
    BY <1>1 DEF UploadInv, ScriptsFit, ScriptFits, Ids
  <2>3. \A x, y \in scripts : x.id = y.id \/ x.student = y.student => x = y
    BY <1>1 DEF UploadInv, ScriptsFit, OneEach
  <2>4. ASSUME NEW c \in Dialog, ClassUpload!Bulk(requests[c])
        PROVE  requests[c].created \cup requests[c].skipped \subseteq {s.id : s \in requests[c].list}
    BY <1>1, <2>4, BegunIsSound DEF UploadInv, ClassUpload!Bulk, UploadSound, UploadFits
  <2> QED BY <2>1, <2>2, <2>3, <2>4 DEF ClassUpload!BulkTypeOK
<1> QED BY <1>1, OfficeKeepsUploads, PTL

\* The instance counts as this module does.
LEMMA SameCount == \A S : ClassUpload!Cardinality(S) = Cardinality(S)
BY DEF ClassUpload!Cardinality, Cardinality

\* When a class upload answers, each student it has something for is in one list of the answer, and who has lost
\* a hand-in to it is told so or has a new one.
LEMMA AnswerIsWhole ==
    ASSUME UploadInv
    PROVE  ClassUpload!LossIsReported
<1> SUFFICES ASSUME NEW c \in Dialog, ClassUpload!Bulk(requests[c]), ClassUpload!Told(requests[c])
             PROVE  /\ \A s \in Plan(requests[c]) :
                          Cardinality({k \in {"created", "skipped", "failed"} :
                              CASE k = "created" -> s.id \in requests[c].created
                                [] k = "skipped" -> s.id \in requests[c].skipped
                                [] k = "failed" -> \E f \in requests[c].failed : f.id = s.id}) = 1
                    /\ requests[c].took \subseteq requests[c].created \cup GoneIds(requests[c])
  BY SameCount DEF ClassUpload!LossIsReported, Plan, GoneIds
<1> DEFINE r == requests[c]
<1>1. UploadSound(r) /\ r.todo = {} /\ r.at = "next"
  BY BegunIsSound DEF UploadInv, ClassUpload!Bulk, ClassUpload!Told
<1> HIDE DEF r
<1>2. r.took \subseteq r.created \cup GoneIds(r)
  BY <1>1 DEF UploadSound, TookFor
<1>3. ASSUME NEW s \in Plan(r)
      PROVE  Cardinality({k \in {"created", "skipped", "failed"} :
                 CASE k = "created" -> s.id \in r.created
                   [] k = "skipped" -> s.id \in r.skipped
                   [] k = "failed" -> \E f \in r.failed : f.id = s.id}) = 1
  <2> DEFINE In == {k \in {"created", "skipped", "failed"} :
                       CASE k = "created" -> s.id \in r.created
                         [] k = "skipped" -> s.id \in r.skipped
                         [] k = "failed" -> \E f \in r.failed : f.id = s.id}
  <2>1. /\ "created" \in In <=> s.id \in r.created
        /\ "skipped" \in In <=> s.id \in r.skipped
        /\ "failed" \in In <=> s.id \in FailedIds(r)
        /\ In \subseteq {"created", "skipped", "failed"}
    BY DEF FailedIds
  <2> HIDE DEF In
  <2>2. /\ s.id \in r.created \cup r.skipped \cup FailedIds(r)
        /\ r.created \cap r.skipped = {} /\ r.created \cap FailedIds(r) = {} /\ r.skipped \cap FailedIds(r) = {}
    BY <1>1 DEF UploadSound, Answers1
  <2>3. In = {"created"} \/ In = {"skipped"} \/ In = {"failed"}
    BY <2>1, <2>2
  <2>4. Cardinality(In) = 1
    BY <2>3, FS_Singleton
  <2> QED BY <2>4 DEF In
<1> QED BY <1>2, <1>3 DEF r

\* A class upload loses nobody's work: it deletes a hand-in only for one it takes, or says so, however requests,
\* crashes, class lists and mark jobs come between its steps.
THEOREM HandInsAreKept == OfficeSpec => []NoHandInLost
<1>1. ASSUME UploadInv
      PROVE  ClassUpload!NotForNothing
  <2> SUFFICES ASSUME NEW c \in Dialog, ClassUpload!Bulk(requests[c]), NEW id \in requests[c].took
               PROVE  MayTake(id, requests[c])
    BY DEF ClassUpload!NotForNothing, MayTake
  <2> QED BY <1>1, BegunIsSound DEF UploadInv, ClassUpload!Bulk, UploadSound, TookFor
<1>2. UploadInv => NoHandInLost
  BY <1>1, AnswerIsWhole DEF NoHandInLost, ClassUpload!NoHandInLost
<1> QED BY <1>2, OfficeKeepsUploads, PTL
-----------------------------------------------------------------------------
(* Scripts and the class list *)

\* Whom a script may belong to: a student on the list, or one struck off it in passing.
Known(id) == ClassUpload!OnList(id) \/ id \in struck

\* Scripts do, and so does what a request hands in or may yet hand in.
Rostered ==
    /\ \A x \in scripts : Known(x.student)
    /\ \A c \in BulkClient : \A id \in ClassUpload!HandsInFor(requests[c]) : Known(id)

\* The stages of a class upload that is under way, and one that has no more to do than another.
Begun == {"next", "clearing", "deleting", "checking", "putting"}
Less(q, r) == q.at \in Begun /\ q.todo \subseteq r.todo

\* While the class list stays, so does who is on it.
LEMMA RosterStays ==
    ASSUME UploadInv, Rostered, UNCHANGED <<students, struck>>,
           \A x \in scripts' : Known(x.student),
           \A c \in BulkClient : \A id \in ClassUpload!HandsInFor(requests'[c]) : Known(id)
    PROVE  Rostered'
<1>1. \A id : Known(id) => Known(id)'
  BY DEF Known, ClassUpload!OnList
<1> QED BY <1>1 DEF Rostered

\* A request that moves hands in for nobody else, or for students on the list.
LEMMA RosterGoes ==
    ASSUME UploadInv, Rostered, UNCHANGED <<students, struck>>,
           \A x \in scripts' : Known(x.student),
           NEW c \in BulkClient, NEW q, requests' = [requests EXCEPT ![c] = q],
           \A id \in ClassUpload!HandsInFor(q) : id \in ClassUpload!HandsInFor(requests[c]) \/ Known(id)
    PROVE  Rostered'
<1>1. \A d \in BulkClient : requests'[d] = IF d = c THEN q ELSE requests[d]
  <2>1. requests = [d \in BulkClient |-> requests[d]]
    BY DEF UploadInv, RequestsFit
  <2> QED BY <2>1
<1>2. \A d \in BulkClient : \A id \in ClassUpload!HandsInFor(requests'[d]) : Known(id)
  <2> SUFFICES ASSUME NEW d \in BulkClient, NEW id \in ClassUpload!HandsInFor(requests'[d])
               PROVE  Known(id)
    OBVIOUS
  <2>1. CASE d = c
    BY <1>1, <2>1 DEF Rostered
  <2>2. CASE d # c
    BY <1>1, <2>2 DEF Rostered
  <2> QED BY <2>1, <2>2
<1> QED BY <1>2, RosterStays

\* An upload keeps the list that it read.
LEMMA ListKept ==
    ASSUME NEW r \in BulkRequest
    PROVE  /\ ClassUpload!Student(r).list = r.list
           /\ ClassUpload!Failed(r).list = r.list /\ ClassUpload!Created(r).list = r.list
           /\ \A F : [r EXCEPT !.at = "deleting", !.found = F].list = r.list
           /\ \A X : [ClassUpload!Cleared(r) EXCEPT !.found = {}, !.took = @ \cup X].list = r.list
           /\ [r EXCEPT !.at = "putting"].list = r.list
<1>1. ClassUpload!Done(r).list = r.list
  BY DEF ClassUpload!Done, BulkRequest
<1>2. ClassUpload!Failed(r).list = r.list /\ ClassUpload!Created(r).list = r.list /\ ClassUpload!Skipped(r).list = r.list
  BY <1>1 DEF ClassUpload!Failed, ClassUpload!Created, ClassUpload!Skipped, ClassUpload!Done, BulkRequest
<1>3. ClassUpload!TakenOn(r).list = r.list
  BY DEF ClassUpload!TakenOn, BulkRequest
<1>4. ClassUpload!Student(r).list = r.list
  BY <1>2, <1>3 DEF ClassUpload!Student
<1>5. \A F : [r EXCEPT !.at = "deleting", !.found = F].list = r.list
  BY DEF BulkRequest
<1>6. \A X : [ClassUpload!Cleared(r) EXCEPT !.found = {}, !.took = @ \cup X].list = r.list
  BY DEF BulkRequest, ClassUpload!Cleared
<1>7. [r EXCEPT !.at = "putting"].list = r.list
  BY DEF BulkRequest
<1> QED BY <1>2, <1>4, <1>5, <1>6, <1>7

\* Whom a request in the middle of a class upload hands in for yet.
LEMMA BegunHandsIn ==
    ASSUME NEW r, r.at \in Begun
    PROVE  ClassUpload!HandsInFor(r) = {s.id : s \in r.todo}
BY DEF Begun, ClassUpload!HandsInFor

\* A class upload takes nobody on that was not to do.
LEMMA TodoShrinks ==
    ASSUME NEW r \in BulkRequest, r.at \in Begun
    PROVE  /\ Less(ClassUpload!Student(r), r) /\ Less(ClassUpload!Failed(r), r) /\ Less(ClassUpload!Created(r), r)
           /\ \A F : Less([r EXCEPT !.at = "deleting", !.found = F], r)
           /\ \A X : Less([ClassUpload!Cleared(r) EXCEPT !.found = {}, !.took = @ \cup X], r)
           /\ Less([r EXCEPT !.at = "putting"], r)
<1>1. Less(ClassUpload!Done(r), r)
  BY DEF ClassUpload!Done, BulkRequest, Less, Begun
<1>2. Less(ClassUpload!Failed(r), r) /\ Less(ClassUpload!Created(r), r) /\ Less(ClassUpload!Skipped(r), r)
  BY <1>1 DEF ClassUpload!Failed, ClassUpload!Created, ClassUpload!Skipped, ClassUpload!Done, BulkRequest, Less, Begun
<1>3. Less(ClassUpload!TakenOn(r), r)
  BY DEF ClassUpload!TakenOn, BulkRequest, Less, Begun
<1>4. Less(ClassUpload!Student(r), r)
  BY <1>2, <1>3 DEF ClassUpload!Student
<1>5. \A F : Less([r EXCEPT !.at = "deleting", !.found = F], r)
  BY DEF BulkRequest, Less, Begun
<1>6. \A X : Less([ClassUpload!Cleared(r) EXCEPT !.found = {}, !.took = @ \cup X], r)
  BY DEF BulkRequest, ClassUpload!Cleared, Less, Begun
<1>7. Less([r EXCEPT !.at = "putting"], r)
  BY DEF BulkRequest, Less, Begun
<1> QED BY <1>2, <1>4, <1>5, <1>6, <1>7

\* A student's own hand-in keeps every script's student on the list.
LEMMA HandRoster ==
    ASSUME UploadInv, Rostered, NEW c \in BulkClient \ Dialog,
           \/ \E id \in 1 .. MaxRows, u \in Uploads :
                 \/ ClassUpload!Upload(c, id, u, MAX_HAND_IN_PAGES)
                 \/ ClassUpload!Upload(c, id, u, MAX_PAGES)
           \/ ClassUpload!UploadCheck(c) \/ ClassUpload!UploadStore(c)
           \/ (\E id \in 1 .. MaxRows : ClassUpload!TakeBackAsked(c, id)) \/ ClassUpload!TakeBack(c)
    PROVE  Rostered'
<1>0. ScriptsFit /\ HandFits(requests[c]) /\ (\A x \in scripts : Known(x.student))
  BY DEF UploadInv, RequestsFit, RequestFits, Rostered
<1>a. ClassUpload!HandsInFor(NoRequestYet) = {}
  BY DEF ClassUpload!HandsInFor, NoRequestYet, ClassUpload!NoRequest
<1>b. \A F : ClassUpload!HandsInFor([at |-> "removing", found |-> F]) = {}
  BY DEF ClassUpload!HandsInFor
<1>1. ASSUME NEW id \in 1 .. MaxRows, NEW u \in Uploads, NEW most, ClassUpload!Upload(c, id, u, most)
      PROVE  Rostered'
  <2> DEFINE q == [at |-> "handing", id |-> id, upload |-> u, most |-> most]
  <2>1. requests' = [requests EXCEPT ![c] = q] /\ UNCHANGED <<students, scripts, struck>> /\ Known(id)
    BY <1>1 DEF ClassUpload!Upload, ClassUpload!Untouched, Known
  <2>2. ClassUpload!HandsInFor(q) = {id}
    BY DEF ClassUpload!HandsInFor
  <2> HIDE DEF q
  <2> QED BY <1>0, <2>1, <2>2, RosterGoes
<1>2. ASSUME requests[c].at \in {"handing", "storing"}
      PROVE  requests[c] \in HandRequest /\ Known(requests[c].id)
  <2>1. ASSUME NEW F, requests[c] = [at |-> "removing", found |-> F]
        PROVE  FALSE
    BY <1>2, <2>1
  <2>2. requests[c] # NoRequestYet
    BY <1>2 DEF NoRequestYet, ClassUpload!NoRequest
  <2>3. requests[c].id \in ClassUpload!HandsInFor(requests[c])
    BY <1>2 DEF ClassUpload!HandsInFor
  <2> QED BY <1>0, <2>1, <2>2, <2>3 DEF HandFits, Rostered
<1>3. CASE ClassUpload!UploadCheck(c)
  <2>1. requests[c] \in HandRequest /\ requests[c].at = "handing" /\ UNCHANGED <<students, scripts, struck>>
    BY <1>2, <1>3 DEF ClassUpload!UploadCheck, ClassUpload!Untouched
  <2> DEFINE q == [requests[c] EXCEPT !.at = "storing"]
  <2>2. ClassUpload!HandsInFor(q) = ClassUpload!HandsInFor(requests[c])
    BY <2>1 DEF ClassUpload!HandsInFor, HandRequest
  <2>3. \/ requests' = [requests EXCEPT ![c] = NoRequestYet]
        \/ requests' = [requests EXCEPT ![c] = q]
    BY <1>3 DEF ClassUpload!UploadCheck, ClassUpload!Ends, ClassUpload!Goes, NoRequestYet
  <2> HIDE DEF q
  <2> QED BY <1>0, <1>a, <2>1, <2>2, <2>3, RosterGoes
<1>4. CASE ClassUpload!UploadStore(c)
  <2> DEFINE id == requests[c].id
             sorted == ClassUpload!Sorted(requests[c].upload, requests[c].most)
  <2>1. id \in Ids /\ Known(id)
    BY <1>2, <1>4 DEF ClassUpload!UploadStore, HandRequest
  <2>2. requests' = [requests EXCEPT ![c] = NoRequestYet] /\ UNCHANGED <<students, struck>>
    BY <1>4 DEF ClassUpload!UploadStore, ClassUpload!Ends, NoRequestYet
  <2>3. \A x \in scripts' : x \in scripts \/ x.student = id
    <3>1. CASE ~ClassUpload!RefusedAtLast(id, sorted) /\ ClassUpload!Insert(id, sorted)
      <4>1. ClassUpload!ScriptsOf(id) = {}
        BY <3>1 DEF ClassUpload!RefusedAtLast
      <4> QED BY <1>0, <2>1, <3>1, <4>1, InsertFits
    <3> QED BY <1>4, <3>1 DEF ClassUpload!UploadStore
  <2> QED BY <1>0, <1>a, <2>1, <2>2, <2>3, RosterGoes
<1>5. ASSUME NEW id \in 1 .. MaxRows, ClassUpload!TakeBackAsked(c, id)
      PROVE  Rostered'
  <2>1. /\ requests' = [requests EXCEPT ![c] = [at |-> "removing", found |-> ClassUpload!Found(id)]]
        /\ UNCHANGED <<students, scripts, struck>>
    BY <1>5 DEF ClassUpload!TakeBackAsked, ClassUpload!Untouched
  <2> QED BY <1>0, <1>b, <2>1, RosterGoes
<1>6. CASE ClassUpload!TakeBack(c)
  <2>1. /\ requests' = [requests EXCEPT ![c] = NoRequestYet] /\ UNCHANGED <<students, struck>>
        /\ scripts' = ClassUpload!Without(requests[c].found)
    BY <1>6 DEF ClassUpload!TakeBack, ClassUpload!Ends, NoRequestYet
  <2>2. scripts' \subseteq scripts
    BY <1>0, <2>1, WithoutFits
  <2> QED BY <1>0, <1>a, <2>1, <2>2, RosterGoes
<1> QED BY <1>1, <1>3, <1>4, <1>5, <1>6

\* So does a class upload.
LEMMA DialogRoster ==
    ASSUME UploadInv, Rostered, NEW c \in Dialog,
           \/ \E zip \in ClassZips : ClassUpload!BulkPreview(c, zip)
           \/ \E replace \in BOOLEAN : ClassUpload!BulkCommit(c, replace)
           \/ ClassUpload!BulkBegins(c) \/ ClassUpload!BulkStudent(c) \/ ClassUpload!BulkClear(c)
           \/ ClassUpload!BulkRemove(c) \/ ClassUpload!BulkCheck(c) \/ ClassUpload!BulkStore(c)
           \/ ClassUpload!BulkRead(c)
    PROVE  Rostered'
<1> DEFINE r == requests[c]
<1>0. ClassFits /\ ScriptsFit /\ RequestsFit /\ c \in BulkClient /\ \A x \in scripts : Known(x.student)
  BY UploadConstants DEF UploadInv, ClassUpload!BulkAssumption, Rostered
<1>a. ASSUME NEW q, requests' = [requests EXCEPT ![c] = q], Less(q, r), r.at \in Begun,
             UNCHANGED <<students, struck>>, \A x \in scripts' : Known(x.student)
      PROVE  Rostered'
  <2> HIDE DEF r
  <2>1. ClassUpload!HandsInFor(q) \subseteq ClassUpload!HandsInFor(r)
    BY <1>a, BegunHandsIn DEF Less
  <2> QED BY <1>0, <1>a, <2>1, RosterGoes DEF r
<1>b. ASSUME r.at \in Begun
      PROVE  /\ UploadSound(r) /\ r \in BulkRequest
             /\ r.at # "next" => Now(r).id \in Ids /\ Known(Now(r).id)
  <2>1. UploadSound(r) /\ r \in BulkRequest
    BY <1>0, <1>b, BegunIsSound DEF UploadSound, UploadFits, Begun
  <2>2. \A s \in r.todo : Known(s.id)
    <3>1. \A id \in ClassUpload!HandsInFor(r) : Known(id)
      BY <1>0 DEF Rostered
    <3> HIDE DEF r
    <3> QED BY <1>b, <3>1, BegunHandsIn
  <2> HIDE DEF r
  <2> QED BY <2>1, <2>2, NowIsToDo DEF UploadSound, UploadFits
<1>1. ASSUME NEW zip \in ClassZips, ClassUpload!BulkPreview(c, zip)
      PROVE  Rostered'
  <2>1. PICK lines : requests' = [requests EXCEPT ![c] = [at |-> "shown", zip |-> zip, lines |-> lines]]
    BY <1>1 DEF ClassUpload!BulkPreview
  <2>2. ClassUpload!HandsInFor([at |-> "shown", zip |-> zip, lines |-> lines]) = {}
    BY DEF ClassUpload!HandsInFor
  <2>3. UNCHANGED <<students, scripts, struck>>
    BY <1>1 DEF ClassUpload!BulkPreview, ClassUpload!Untouched
  <2> QED BY <1>0, <2>1, <2>2, <2>3, RosterGoes
<1>2. ASSUME NEW replace \in BOOLEAN, ClassUpload!BulkCommit(c, replace)
      PROVE  Rostered'
  <2> DEFINE q == [at |-> "listed", zip |-> r.zip, replace |-> replace, list |-> ClassUpload!Listed]
  <2>1. requests' = [requests EXCEPT ![c] = q] /\ UNCHANGED <<students, scripts, struck>>
    BY <1>2 DEF ClassUpload!BulkCommit, ClassUpload!Untouched
  <2>2. ClassUpload!HandsInFor(q) = {s.id : s \in Plan(q)} /\ Plan(q) \subseteq ClassUpload!Listed
    <3>1. q.at = "listed" /\ q.list = ClassUpload!Listed
      OBVIOUS
    <3> HIDE DEF q
    <3> QED BY <3>1, PlanIsListed DEF ClassUpload!HandsInFor, Plan
  <2>3. \A id \in ClassUpload!HandsInFor(q) : Known(id)
    BY <1>0, <2>2, ListedFits DEF Known
  <2> HIDE DEF q
  <2> QED BY <1>0, <2>1, <2>3, RosterGoes
<1>3. CASE ClassUpload!BulkBegins(c)
  <2>1. r.at = "listed" /\ UNCHANGED <<students, scripts, struck>>
    BY <1>3 DEF ClassUpload!BulkBegins, ClassUpload!Untouched
  <2> DEFINE q == [at |-> "next", zip |-> r.zip, replace |-> r.replace, list |-> r.list,
                   had |-> ClassUpload!HandedInIds, todo |-> Plan(r), removed |-> FALSE,
                   created |-> {}, skipped |-> {}, failed |-> {}, took |-> {}, found |-> {}]
  <2>2. requests' = [requests EXCEPT ![c] = q]
    BY <1>3 DEF ClassUpload!BulkBegins, Plan
  <2>3. q.todo = Plan(r) /\ q.at = "next"
    OBVIOUS
  <2> HIDE DEF q
  <2>4. ClassUpload!HandsInFor(q) = ClassUpload!HandsInFor(r)
    BY <2>1, <2>3 DEF ClassUpload!HandsInFor, Plan
  <2> QED BY <1>0, <2>1, <2>2, <2>4, RosterGoes
<1>4. CASE ClassUpload!BulkStudent(c)
  <2>1. /\ r.at = "next" /\ requests' = [requests EXCEPT ![c] = ClassUpload!Student(r)]
        /\ UNCHANGED <<students, scripts, struck>>
    BY <1>4 DEF ClassUpload!BulkStudent, ClassUpload!Becomes, ClassUpload!Untouched
  <2>2. Less(ClassUpload!Student(r), r) /\ r.at \in Begun
    BY <1>b, <2>1, TodoShrinks DEF Begun
  <2> QED BY <1>0, <1>a, <2>1, <2>2
<1>5. CASE ClassUpload!BulkClear(c)
  <2>1. r.at = "clearing" /\ UNCHANGED <<students, scripts, struck>>
    BY <1>5 DEF ClassUpload!BulkClear, ClassUpload!Untouched
  <2>2. \/ requests' = [requests EXCEPT ![c] = ClassUpload!Failed(r)]
        \/ requests' = [requests EXCEPT ![c] =
                          [r EXCEPT !.at = "deleting", !.found = ClassUpload!Found(ClassUpload!Now(r).id)]]
    BY <1>5 DEF ClassUpload!BulkClear, ClassUpload!Becomes
  <2>3. /\ Less(ClassUpload!Failed(r), r) /\ r.at \in Begun
        /\ Less([r EXCEPT !.at = "deleting", !.found = ClassUpload!Found(ClassUpload!Now(r).id)], r)
    BY <1>b, <2>1, TodoShrinks DEF Begun
  <2> QED BY <1>0, <1>a, <2>1, <2>2, <2>3
<1>6. CASE ClassUpload!BulkRemove(c)
  <2>1. r.at = "deleting" /\ scripts' = ClassUpload!Without(r.found) /\ UNCHANGED <<students, struck>>
    BY <1>6 DEF ClassUpload!BulkRemove
  <2> DEFINE X == {x.student : x \in scripts \ ClassUpload!Without(r.found)}
             q == [ClassUpload!Cleared(r) EXCEPT !.found = {}, !.took = @ \cup X]
  <2>2. requests' = [requests EXCEPT ![c] = q]
    BY <1>6 DEF ClassUpload!BulkRemove, ClassUpload!Becomes
  <2> HIDE DEF X
  <2>3. Less(q, r) /\ r.at \in Begun
    BY <1>b, <2>1, TodoShrinks DEF Begun
  <2>4. scripts' \subseteq scripts
    BY <1>0, <2>1, WithoutFits
  <2> HIDE DEF q
  <2> QED BY <1>0, <1>a, <2>1, <2>2, <2>3, <2>4
<1>7. CASE ClassUpload!BulkCheck(c)
  <2>1. r.at = "checking" /\ UNCHANGED <<students, scripts, struck>>
    BY <1>7 DEF ClassUpload!BulkCheck, ClassUpload!Untouched
  <2>2. \/ requests' = [requests EXCEPT ![c] = ClassUpload!Failed(r)]
        \/ requests' = [requests EXCEPT ![c] = [r EXCEPT !.at = "putting"]]
    BY <1>7 DEF ClassUpload!BulkCheck, ClassUpload!Becomes
  <2>3. Less(ClassUpload!Failed(r), r) /\ Less([r EXCEPT !.at = "putting"], r) /\ r.at \in Begun
    BY <1>b, <2>1, TodoShrinks DEF Begun
  <2> QED BY <1>0, <1>a, <2>1, <2>2, <2>3
<1>8. CASE ClassUpload!BulkStore(c)
  <2>1. r.at = "putting" /\ UNCHANGED <<students, struck>>
    BY <1>8 DEF ClassUpload!BulkStore
  <2>2. Now(r).id \in Ids /\ Known(Now(r).id) /\ r \in BulkRequest /\ r.at \in Begun
    BY <1>b, <2>1 DEF Begun
  <2>3. \/ requests' = [requests EXCEPT ![c] = ClassUpload!Failed(r)]
        \/ requests' = [requests EXCEPT ![c] = ClassUpload!Created(r)]
    BY <1>8 DEF ClassUpload!BulkStore, ClassUpload!Becomes
  <2>4. Less(ClassUpload!Failed(r), r) /\ Less(ClassUpload!Created(r), r)
    BY <2>2, TodoShrinks
  <2>5. \A x \in scripts' : x \in scripts \/ x.student = Now(r).id
    <3> DEFINE sorted == ClassUpload!Sorted(ClassUpload!Theirs(r), MAX_PAGES)
    <3>1. CASE ~ClassUpload!RefusedAtLast(Now(r).id, sorted) /\ ClassUpload!Insert(Now(r).id, sorted)
      <4>1. ClassUpload!ScriptsOf(Now(r).id) = {}
        BY <3>1 DEF ClassUpload!RefusedAtLast
      <4> QED BY <1>0, <2>2, <3>1, <4>1, InsertFits
    <3> QED BY <1>8, <3>1 DEF ClassUpload!BulkStore, Now
  <2> QED BY <1>0, <1>a, <2>1, <2>2, <2>3, <2>4, <2>5
<1>9. CASE ClassUpload!BulkRead(c)
  <2>1. requests' = [requests EXCEPT ![c] = NoRequestYet] /\ UNCHANGED <<students, scripts, struck>>
    BY <1>9 DEF ClassUpload!BulkRead, ClassUpload!Ends, ClassUpload!Untouched, NoRequestYet
  <2>2. ClassUpload!HandsInFor(NoRequestYet) = {}
    BY DEF ClassUpload!HandsInFor, NoRequestYet, ClassUpload!NoRequest
  <2> QED BY <1>0, <2>1, <2>2, RosterGoes
<1> HIDE DEF r
<1> QED BY <1>1, <1>2, <1>3, <1>4, <1>5, <1>6, <1>7, <1>8, <1>9

\* A class list that is replaced keeps a student with a script, and strikes others off: some of them in passing.
LEMMA RosterStep ==
    ASSUME UploadInv, Rostered, ClassUpload!BulkNext \/ UNCHANGED bulkVars
    PROVE  Rostered'
<1>0. /\ ClassFits /\ ScriptsFit /\ RequestsFit
      /\ \A x \in scripts : Known(x.student)
      /\ \A c \in BulkClient : \A id \in ClassUpload!HandsInFor(requests[c]) : Known(id)
  BY DEF UploadInv, Rostered
<1>1. CASE UNCHANGED bulkVars
  BY <1>0, <1>1, RosterStays DEF bulkVars
<1>2. ASSUME NEW list \in Lists, ClassUpload!ReplaceClasslist(list)
      PROVE  Rostered'
  <2>1. /\ students' = ClassUpload!RowsAfter(list) /\ UNCHANGED <<scripts, requests>> /\ ClassUpload!Clean(list)
        /\ struck' = struck \cup {id \in DOMAIN students :
              ~ClassUpload!Stays(id, list) /\ \E c \in BulkClient : id \in ClassUpload!HandsInFor(requests[c])}
    BY <1>2 DEF ClassUpload!ReplaceClasslist
  <2>2. \A id \in DOMAIN students : id \in DOMAIN students' /\
            students'[id] = IF ClassUpload!Stays(id, list) THEN students[id] ELSE 0
    BY <1>0, <2>1, RowsAfterFit
  <2>3. ASSUME NEW id, Known(id),
               \/ ClassUpload!Stays(id, list)
               \/ \E c \in BulkClient : id \in ClassUpload!HandsInFor(requests[c])
        PROVE  id \in struck' \/ (id \in DOMAIN students' /\ students'[id] # 0)
    BY <2>1, <2>2, <2>3 DEF Known, ClassUpload!OnList
  <2>4. \A x \in scripts' : x.student \in struck' \/ (x.student \in DOMAIN students' /\ students'[x.student] # 0)
    <3>1. \A x \in scripts : ClassUpload!Stays(x.student, list)
      BY DEF ClassUpload!Stays, ClassUpload!ScriptsOf
    <3> QED BY <1>0, <2>1, <2>3, <3>1
  <2>5. \A c \in BulkClient : \A id \in ClassUpload!HandsInFor(requests'[c]) :
            id \in struck' \/ (id \in DOMAIN students' /\ students'[id] # 0)
    BY <1>0, <2>1, <2>3
  <2> QED BY <2>4, <2>5 DEF Rostered, Known, ClassUpload!OnList
<1>3. CASE ClassUpload!TemplateGoes
  <2>1. UNCHANGED <<students, scripts, requests, struck>>
    BY <1>3 DEF ClassUpload!TemplateGoes
  <2> QED BY <1>0, <2>1, RosterStays
<1>4. ASSUME NEW x \in scripts, NEW running \in BOOLEAN, ClassUpload!Runs(x, running)
      PROVE  Rostered'
  <2>1. UNCHANGED <<students, requests, struck>>
    BY <1>4 DEF ClassUpload!Runs
  <2>2. \A y \in scripts' : Known(y.student)
    BY <1>0, <1>4, RunsFits
  <2> QED BY <1>0, <2>1, <2>2, RosterStays
<1>5. CASE ClassUpload!Crash
  <2>1. requests' = [c \in BulkClient |-> NoRequestYet] /\ UNCHANGED <<students, scripts, struck>>
    BY <1>5 DEF ClassUpload!Crash, ClassUpload!Untouched, NoRequestYet
  <2>2. \A c \in BulkClient : ClassUpload!HandsInFor(requests'[c]) = {}
    BY <2>1 DEF ClassUpload!HandsInFor, NoRequestYet, ClassUpload!NoRequest
  <2> QED BY <1>0, <2>1, <2>2, RosterStays
<1>6. CASE ClassUpload!BulkNext
  BY <1>2, <1>3, <1>4, <1>5, <1>6, HandRoster, DialogRoster
  DEF ClassUpload!BulkNext, ClassUpload!StudentUpload, ClassUpload!TeacherUpload
<1> QED BY <1>1, <1>6

\* A new class list takes no student with a script off it (replace_classlist), whatever requests are under way: a
\* script without a listed student was written by a request that had that student to hand in for when the list was
\* replaced.
THEOREM ScriptsAreListed == OfficeSpec => []ClassUpload!NoneStruckWithWork
<1>1. OfficeInit => Rostered
  <2> SUFFICES ASSUME ClassUpload!BulkInit PROVE Rostered
    BY DEF OfficeInit
  <2>1. scripts = {} /\ \A c \in BulkClient : requests[c] = NoRequestYet
    BY DEF ClassUpload!BulkInit, NoRequestYet
  <2>2. \A c \in BulkClient : ClassUpload!HandsInFor(requests[c]) = {}
    BY <2>1 DEF ClassUpload!HandsInFor, NoRequestYet, ClassUpload!NoRequest
  <2> QED BY <2>1, <2>2 DEF Rostered
<1>2. UploadInv /\ Rostered /\ [OfficeNext]_<<which, scriptVars, choiceVars, bulkVars>> => Rostered'
  BY RosterStep DEF OfficeNext
<1>3. Rostered => ClassUpload!NoneStruckWithWork
  BY DEF Rostered, Known, ClassUpload!NoneStruckWithWork
<1> QED BY <1>1, <1>2, <1>3, OfficeKeepsUploads, PTL DEF OfficeSpec

-----------------------------------------------------------------------------
(* The files of a hand-in *)

\* Entries with a register number of G, as they come in an upload: what a zip among them holds has one too.
OfNumber(G) == {e \in ClassUpload!OuterEntry : e.reg \in G}
Handed(G)   == {e \in OfNumber(G) : \A i \in DOMAIN e.inside : e.inside[i].reg \in G}

\* What an entry of a zip is, an entry of an upload may be.
LEMMA InnerIsOuter ==
    ASSUME NEW e \in ClassUpload!InnerEntry
    PROVE  e \in ClassUpload!OuterEntry /\ e.inside = <<>> /\ e \in Handed({e.reg})
<1>1. <<>> \in Seq(ClassUpload!InnerEntry)
  OBVIOUS
<1>2. e \in ClassUpload!OuterEntry /\ e.inside = <<>>
  BY <1>1 DEF ClassUpload!InnerEntry, ClassUpload!OuterEntry, ClassUpload!EntryWith
<1> QED BY <1>2 DEF Handed, OfNumber

\* An entry has a size.
LEMMA EntryHasSize ==
    ASSUME NEW s \in Seq(ClassUpload!OuterEntry)
    PROVE  Len(s) \in Nat /\ \A i \in 1 .. Len(s) : s[i] \in ClassUpload!OuterEntry /\ s[i].size \in Nat
<1>1. \A e \in ClassUpload!OuterEntry : e.size \in Nat
  BY DEF ClassUpload!OuterEntry, ClassUpload!EntryWith
<1>2. Len(s) \in Nat /\ \A i \in 1 .. Len(s) : s[i] \in ClassUpload!OuterEntry
  OBVIOUS
<1> QED BY <1>1, <1>2

\* The bytes of a sequence of entries are there, entry by entry.
LEMMA BytesSum ==
    ASSUME NEW s \in Seq(ClassUpload!OuterEntry)
    PROVE  \E f \in [0 .. Len(s) -> Nat] :
              /\ f[0] = 0 /\ \A i \in 1 .. Len(s) : f[i] = f[i - 1] + s[i].size
              /\ ClassUpload!Bytes(s) = f[Len(s)]
<1> DEFINE n   == Len(s)
           F   == [p \in Nat \X (1 .. n) |-> p[1] + s[p[2]].size]
           sum == CHOOSE g : g = [i \in 0 .. n |-> IF i = 0 THEN 0 ELSE g[i - 1] + s[i].size]
<1>1. n \in Nat /\ \A i \in 1 .. n : s[i].size \in Nat
  BY EntryHasSize
<1>2. F \in [Nat \X (1 .. n) -> Nat]
  BY <1>1
<1>3. \A x \in Nat, i \in 1 .. n : F[<<x, i>>] = x + s[i].size
  BY <1>1
<1>4. ClassUpload!Bytes(s) = sum[n]
  BY DEF ClassUpload!Bytes, ClassUpload!Along
<1> HIDE DEF n, F
<1>5. PICK f \in [0 .. n -> Nat] : f = [i \in 0 .. n |-> IF i = 0 THEN 0 ELSE F[<<f[i - 1], i>>]]
  <2>1. 0 \in Nat /\ n \in Nat
    BY <1>1
  <2>2. \E f : IsLoop(f, n, Nat, 0, F)
    BY <1>2, <2>1, LoopRuns
  <2> QED BY <2>2 DEF IsLoop
<1>6. \A i \in 0 .. n : f[i] = IF i = 0 THEN 0 ELSE f[i - 1] + s[i].size
  <2> SUFFICES ASSUME NEW i \in 0 .. n PROVE f[i] = IF i = 0 THEN 0 ELSE f[i - 1] + s[i].size
    OBVIOUS
  <2>1. CASE i = 0
    BY <1>5, <2>1
  <2>2. CASE i # 0
    <3>1. i \in 1 .. n /\ i - 1 \in 0 .. n
      BY <1>1, <2>2
    <3>2. f[i] = F[<<f[i - 1], i>>] /\ f[i - 1] \in Nat
      BY <1>5, <2>2, <3>1
    <3> QED BY <1>3, <2>2, <3>1, <3>2
  <2> QED BY <2>1, <2>2
<1>7. f = [i \in 0 .. n |-> IF i = 0 THEN 0 ELSE f[i - 1] + s[i].size]
  BY <1>5, <1>6
<1>8. sum = [i \in 0 .. n |-> IF i = 0 THEN 0 ELSE sum[i - 1] + s[i].size]
  BY <1>7
<1> HIDE DEF sum
<1>9. \A i \in 0 .. n : i = 0 => sum[i] = 0
  BY <1>8
<1>10. \A i \in 1 .. n : sum[i] = sum[i - 1] + s[i].size
  <2>1. \A i \in 1 .. n : i \in 0 .. n /\ i # 0
    BY <1>1
  <2> QED BY <1>8, <2>1
<1>11. sum[0] = 0
  <2>1. 0 \in 0 .. n
    BY <1>1
  <2> QED BY <1>9, <2>1
<1>12. \A i \in 1 .. n : sum[i - 1] \in Nat => sum[i] \in Nat
  BY <1>1, <1>10
<1>13. \A i \in 0 .. n : sum[i] \in Nat
  <2>1. sum[0] \in Nat
    BY <1>11
  <2> QED BY <1>1, <1>12, <2>1, AlongLoop
<1>14. sum \in [0 .. n -> Nat]
  BY <1>8, <1>13
<1> QED BY <1>4, <1>10, <1>11, <1>14 DEF n

\* Two sums with the same terms are one.
LEMMA SameSum ==
    ASSUME NEW n \in Nat, NEW f \in [0 .. n -> Nat], NEW g \in [0 .. n -> Nat], NEW d \in Nat, f[0] = g[0] + d,
           \A i \in 1 .. n : \E t \in Nat : f[i] = f[i - 1] + t /\ g[i] = g[i - 1] + t
    PROVE  f[n] = g[n] + d
<1> DEFINE off == [i \in 0 .. n |-> IF f[i] = g[i] + d THEN 0 ELSE 1]
<1>1. off[0] \in {0}
  OBVIOUS
<1>2. \A i \in 1 .. n : off[i - 1] \in {0} => off[i] \in {0}
  <2> SUFFICES ASSUME NEW i \in 1 .. n, off[i - 1] = 0 PROVE off[i] = 0
    OBVIOUS
  <2>1. i - 1 \in 0 .. n /\ i \in 0 .. n
    OBVIOUS
  <2>2. f[i - 1] = g[i - 1] + d
    BY <2>1
  <2>3. PICK t \in Nat : f[i] = f[i - 1] + t /\ g[i] = g[i - 1] + t
    OBVIOUS
  <2>4. f[i - 1] \in Nat /\ g[i - 1] \in Nat
    BY <2>1
  <2>5. f[i] = g[i] + d
    BY <2>2, <2>3, <2>4
  <2> QED BY <2>1, <2>5
<1> HIDE DEF off
<1>3. \A i \in 0 .. n : off[i] \in {0}
  BY <1>1, <1>2, AlongLoop
<1>4. n \in 0 .. n
  OBVIOUS
<1> QED BY <1>3, <1>4 DEF off

\* The bytes of one sequence behind another are those of both.
LEMMA BytesOfBoth ==
    ASSUME NEW s \in Seq(ClassUpload!OuterEntry), NEW t \in Seq(ClassUpload!OuterEntry)
    PROVE  /\ ClassUpload!Bytes(s) \in Nat
           /\ ClassUpload!Bytes(s \o t) = ClassUpload!Bytes(s) + ClassUpload!Bytes(t)
<1> DEFINE m == Len(s)
           n == Len(t)
<1>0. /\ s \o t \in Seq(ClassUpload!OuterEntry) /\ Len(s \o t) = m + n /\ m \in Nat /\ n \in Nat
      /\ \A i \in 1 .. m : (s \o t)[i] = s[i] /\ s[i].size \in Nat
      /\ \A i \in 1 .. n : (s \o t)[m + i] = t[i] /\ t[i].size \in Nat
  <2>1. /\ m \in Nat /\ n \in Nat
        /\ \A i \in 1 .. m : s[i].size \in Nat
        /\ \A i \in 1 .. n : t[i].size \in Nat
    BY EntryHasSize
  <2>2. s \o t \in Seq(ClassUpload!OuterEntry) /\ Len(s \o t) = m + n
    OBVIOUS
  <2>3. \A i \in 1 .. m : (s \o t)[i] = s[i]
    OBVIOUS
  <2>4. \A i \in 1 .. n : (s \o t)[m + i] = t[i]
    OBVIOUS
  <2> QED BY <2>1, <2>2, <2>3, <2>4
<1>1. PICK f \in [0 .. m -> Nat] :
              /\ f[0] = 0 /\ \A i \in 1 .. m : f[i] = f[i - 1] + s[i].size
              /\ ClassUpload!Bytes(s) = f[m]
  BY BytesSum
<1>2. PICK g \in [0 .. n -> Nat] :
              /\ g[0] = 0 /\ \A i \in 1 .. n : g[i] = g[i - 1] + t[i].size
              /\ ClassUpload!Bytes(t) = g[n]
  BY BytesSum
<1> DEFINE u == s \o t
<1>3. PICK h \in [0 .. (m + n) -> Nat] :
              /\ h[0] = 0 /\ \A i \in 1 .. (m + n) : h[i] = h[i - 1] + u[i].size
              /\ ClassUpload!Bytes(u) = h[m + n]
  <2>1. \E k \in [0 .. Len(u) -> Nat] :
              /\ k[0] = 0 /\ \A i \in 1 .. Len(u) : k[i] = k[i - 1] + u[i].size
              /\ ClassUpload!Bytes(u) = k[Len(u)]
    BY <1>0, BytesSum
  <2>2. Len(u) = m + n
    BY <1>0
  <2> HIDE DEF u
  <2> QED BY <2>1, <2>2
<1>a. (\A i \in 1 .. m : u[i] = s[i]) /\ (\A i \in 1 .. n : u[m + i] = t[i])
  BY <1>0
<1> HIDE DEF u, m, n
<1>4. h[m] = f[m]
  <2> DEFINE k == [i \in 0 .. m |-> h[i]]
  <2>1. k \in [0 .. m -> Nat] /\ k[0] = f[0] + 0
    BY <1>0, <1>1, <1>3
  <2>2. \A i \in 1 .. m : \E d \in Nat : k[i] = k[i - 1] + d /\ f[i] = f[i - 1] + d
    <3> SUFFICES ASSUME NEW i \in 1 .. m PROVE \E d \in Nat : k[i] = k[i - 1] + d /\ f[i] = f[i - 1] + d
      OBVIOUS
    <3>1. i \in 1 .. (m + n) /\ i - 1 \in 0 .. m /\ i \in 0 .. m
      BY <1>0
    <3>2. h[i] = h[i - 1] + s[i].size /\ f[i] = f[i - 1] + s[i].size /\ s[i].size \in Nat
      BY <1>0, <1>1, <1>3, <1>a, <3>1
    <3> QED BY <3>1, <3>2
  <2>3. k[m] = h[m] /\ f[m] \in Nat
    BY <1>0, <1>1
  <2> HIDE DEF k
  <2>4. k[m] = f[m] + 0
    <3>1. m \in Nat /\ f \in [0 .. m -> Nat] /\ 0 \in Nat
      BY <1>0
    <3> QED BY <2>1, <2>2, <3>1, SameSum
  <2> QED BY <2>3, <2>4
<1>5. h[m + n] = g[n] + h[m]
  <2> DEFINE k == [i \in 0 .. n |-> h[m + i]]
  <2>1. \A i \in 0 .. n : m + i \in 0 .. (m + n) /\ k[i] = h[m + i] /\ h[m + i] \in Nat
    <3>1. \A i \in 0 .. n : m + i \in 0 .. (m + n)
      BY <1>0
    <3>2. \A j \in 0 .. (m + n) : h[j] \in Nat
      OBVIOUS
    <3> QED BY <3>1, <3>2
  <2>2. k \in [0 .. n -> Nat] /\ k[n] = h[m + n] /\ h[m] \in Nat /\ k[0] = g[0] + h[m]
    BY <1>0, <1>2, <2>1
  <2>3. \A i \in 1 .. n : \E d \in Nat : k[i] = k[i - 1] + d /\ g[i] = g[i - 1] + d
    <3> SUFFICES ASSUME NEW i \in 1 .. n PROVE \E d \in Nat : k[i] = k[i - 1] + d /\ g[i] = g[i - 1] + d
      OBVIOUS
    <3>1. m + i \in 1 .. (m + n) /\ i - 1 \in 0 .. n /\ i \in 0 .. n /\ m + (i - 1) = (m + i) - 1
      BY <1>0
    <3>2. h[m + i] = h[(m + i) - 1] + t[i].size /\ g[i] = g[i - 1] + t[i].size /\ t[i].size \in Nat
      BY <1>0, <1>2, <1>3, <1>a, <3>1
    <3>3. k[i] = h[m + i] /\ k[i - 1] = h[(m + i) - 1]
      BY <2>1, <3>1
    <3> QED BY <3>2, <3>3
  <2> HIDE DEF k
  <2>4. k[n] = g[n] + h[m]
    BY <1>0, <1>2, <2>2, <2>3, SameSum
  <2> QED BY <2>2, <2>4
<1>6. f[m] \in Nat /\ g[n] \in Nat
  BY <1>0, <1>1, <1>2
<1> QED BY <1>1, <1>2, <1>3, <1>4, <1>5, <1>6 DEF u

\* An entry more, and nothing at all.
LEMMA BytesOfMore ==
    ASSUME NEW s \in Seq(ClassUpload!OuterEntry), NEW e \in ClassUpload!OuterEntry
    PROVE  ClassUpload!Bytes(Append(s, e)) = ClassUpload!Bytes(s) + e.size /\ ClassUpload!Bytes(<<>>) = 0
<1>1. PICK f \in [0 .. Len(<<>>) -> Nat] : f[0] = 0 /\ ClassUpload!Bytes(<<>>) = f[Len(<<>>)]
  <2>1. <<>> \in Seq(ClassUpload!OuterEntry)
    OBVIOUS
  <2> QED BY <2>1, BytesSum
<1>2. Len(<<>>) = 0
  OBVIOUS
<1>3. ClassUpload!Bytes(<<e>>) = e.size
  <2> DEFINE s1 == <<e>>
  <2>1. s1 \in Seq(ClassUpload!OuterEntry) /\ Len(s1) = 1 /\ s1[1] = e
    OBVIOUS
  <2> HIDE DEF s1
  <2>2. PICK g \in [0 .. Len(s1) -> Nat] :
              /\ g[0] = 0 /\ \A i \in 1 .. Len(s1) : g[i] = g[i - 1] + s1[i].size
              /\ ClassUpload!Bytes(s1) = g[Len(s1)]
    BY <2>1, BytesSum
  <2>3. e.size \in Nat
    BY DEF ClassUpload!OuterEntry, ClassUpload!EntryWith
  <2>4. g[1] = g[0] + s1[1].size
    <3>1. 1 \in 1 .. Len(s1)
      BY <2>1
    <3>2. g[1] = g[1 - 1] + s1[1].size
      BY <2>2, <3>1
    <3> QED BY <3>2
  <2>5. ClassUpload!Bytes(s1) = e.size
    BY <2>1, <2>2, <2>3, <2>4
  <2> QED BY <2>5 DEF s1
<1>4. Append(s, e) = s \o <<e>> /\ <<e>> \in Seq(ClassUpload!OuterEntry)
  OBVIOUS
<1>5. ClassUpload!Bytes(s \o <<e>>) = ClassUpload!Bytes(s) + ClassUpload!Bytes(<<e>>)
  BY <1>4, BytesOfBoth
<1> QED BY <1>1, <1>2, <1>3, <1>4, <1>5

\* The elements of a sequence that are among these make a sequence of those.
LEMMA ThoseFit ==
    ASSUME NEW S, NEW s \in Seq(S), NEW T
    PROVE  ClassUpload!Those(s, T) \in Seq(S \cap T)
<1> DEFINE n    == Len(s)
           X    == Seq(S \cap T)
           F    == [p \in X \X (1 .. n) |-> IF s[p[2]] \in T THEN Append(p[1], s[p[2]]) ELSE p[1]]
           kept == CHOOSE g : g = [i \in 0 .. n |-> IF i = 0 THEN <<>>
                                     ELSE IF s[i] \in T THEN Append(g[i - 1], s[i]) ELSE g[i - 1]]
<1>1. n \in Nat /\ \A i \in 1 .. n : s[i] \in S
  OBVIOUS
<1>2. \A x \in X, i \in 1 .. n : (IF s[i] \in T THEN Append(x, s[i]) ELSE x) \in X
  <2> SUFFICES ASSUME NEW x \in X, NEW i \in 1 .. n, s[i] \in T PROVE Append(x, s[i]) \in X
    OBVIOUS
  <2>1. s[i] \in S \cap T
    BY <1>1
  <2> QED BY <2>1
<1>3. <<>> \in X
  OBVIOUS
<1>4. ClassUpload!Those(s, T) = kept[n]
  BY DEF ClassUpload!Those
<1> HIDE DEF X, n
<1>5. F \in [X \X (1 .. n) -> X]
  BY <1>2
<1>6. \A x \in X, i \in 1 .. n : F[<<x, i>>] = IF s[i] \in T THEN Append(x, s[i]) ELSE x
  OBVIOUS
<1> HIDE DEF F
<1>7. PICK f \in [0 .. n -> X] : f = [i \in 0 .. n |-> IF i = 0 THEN <<>> ELSE F[<<f[i - 1], i>>]]
  <2>1. \E f : IsLoop(f, n, X, <<>>, F)
    BY <1>1, <1>3, <1>5, LoopRuns
  <2> QED BY <2>1 DEF IsLoop
<1>8. \A i \in 0 .. n : f[i] = IF i = 0 THEN <<>>
                               ELSE IF s[i] \in T THEN Append(f[i - 1], s[i]) ELSE f[i - 1]
  <2> SUFFICES ASSUME NEW i \in 0 .. n
               PROVE  f[i] = IF i = 0 THEN <<>> ELSE IF s[i] \in T THEN Append(f[i - 1], s[i]) ELSE f[i - 1]
    OBVIOUS
  <2>1. CASE i = 0
    BY <1>7, <2>1
  <2>2. CASE i # 0
    <3>1. i \in 1 .. n /\ i - 1 \in 0 .. n
      BY <1>1, <2>2
    <3>2. f[i] = F[<<f[i - 1], i>>] /\ f[i - 1] \in X
      BY <1>7, <2>2, <3>1
    <3> QED BY <1>6, <2>2, <3>1, <3>2
  <2> QED BY <2>1, <2>2
<1>9. f = [i \in 0 .. n |-> IF i = 0 THEN <<>>
                            ELSE IF s[i] \in T THEN Append(f[i - 1], s[i]) ELSE f[i - 1]]
  BY <1>7, <1>8
<1>10. kept = [i \in 0 .. n |-> IF i = 0 THEN <<>>
                                ELSE IF s[i] \in T THEN Append(kept[i - 1], s[i]) ELSE kept[i - 1]]
  BY <1>9
<1> HIDE DEF kept
<1>11. kept[0] \in X
  <2>1. 0 \in 0 .. n
    BY <1>1
  <2>2. kept[0] = <<>>
    BY <1>10, <2>1
  <2> QED BY <1>3, <2>2
<1>12. \A i \in 1 .. n : kept[i - 1] \in X => kept[i] \in X
  <2> SUFFICES ASSUME NEW i \in 1 .. n, kept[i - 1] \in X PROVE kept[i] \in X
    OBVIOUS
  <2>1. i \in 0 .. n /\ i # 0
    BY <1>1
  <2>2. kept[i] = IF s[i] \in T THEN Append(kept[i - 1], s[i]) ELSE kept[i - 1]
    BY <1>10, <2>1
  <2> QED BY <1>2, <2>2
<1>13. kept[n] \in X
  <2>1. \A i \in 0 .. n : kept[i] \in X
    BY <1>1, <1>11, <1>12, AlongLoop
  <2>2. n \in 0 .. n
    BY <1>1
  <2> QED BY <2>1, <2>2
<1> QED BY <1>4, <1>13 DEF X

\* What an upload is sorted into: entries with a number of G.
Codes      == {"too_large", "too_many_files", "bad_file", "zip_bomb", "zip_nothing_usable"}
Sorting(G) == [pages : Seq(OfNumber(G)), files : Seq(OfNumber(G)), ignored : Seq(OfNumber(G)), total : Nat,
               error : SUBSET Codes]

\* No two of a sequence have one name.
OneName(s) == \A i, j \in DOMAIN s : <<s[i].name, s[i].ext>> = <<s[j].name, s[j].ext>> => i = j

\* And it is sorted within the caps.
PagesFit(it) == OneName(it.pages) /\ \A i \in DOMAIN it.pages : it.pages[i].ext \in ClassUpload!PAGE_EXTS
FilesFit(it) ==
    /\ OneName(it.files) /\ Len(it.files) <= MAX_FILES
    /\ \A i \in DOMAIN it.files : it.files[i].ext = "prog" /\ it.files[i].size <= MAX_FILE_BYTES
BytesFit(it) ==
    /\ it.total = ClassUpload!Bytes(it.pages) + ClassUpload!Bytes(it.files)
    /\ it.total <= MAX_UPLOAD_BYTES
Sorts(G) == {it \in Sorting(G) : PagesFit(it) /\ FilesFit(it) /\ BytesFit(it)}

\* Among one name more than there are entries, one is free.
LEMMA NameIsFree ==
    ASSUME NEW u \in Seq(ClassUpload!OuterEntry), NEW name \in Seq(Nat), NEW ext
    PROVE  \E k \in 2 .. (Len(u) + 2) : \A i \in 1 .. Len(u) : <<u[i].name, u[i].ext>> # <<Append(name, k), ext>>
<1> DEFINE n       == Len(u)
           Has(i, k) == <<u[i].name, u[i].ext>> = <<Append(name, k), ext>>
<1>0. n \in Nat
  OBVIOUS
<1> SUFFICES ASSUME \A k \in 2 .. (n + 2) : \E i \in 1 .. n : Has(i, k) PROVE FALSE
  OBVIOUS
<1> DEFINE f == [k \in 2 .. (n + 2) |-> CHOOSE i \in 1 .. n : Has(i, k)]
<1>1. f \in [2 .. (n + 2) -> 1 .. n] /\ \A k \in 2 .. (n + 2) : Has(f[k], k)
  <2> SUFFICES ASSUME NEW k \in 2 .. (n + 2) PROVE f[k] \in 1 .. n /\ Has(f[k], k)
    OBVIOUS
  <2>1. \E i \in 1 .. n : Has(i, k)
    OBVIOUS
  <2> QED BY <2>1
<1>2. \A j, k \in Nat : Append(name, j) = Append(name, k) => j = k
  <2> SUFFICES ASSUME NEW j \in Nat, NEW k \in Nat, Append(name, j) = Append(name, k) PROVE j = k
    OBVIOUS
  <2>1. Append(name, j)[Len(name) + 1] = j /\ Append(name, k)[Len(name) + 1] = k
    OBVIOUS
  <2> QED BY <2>1
<1>3. /\ IsFiniteSet(2 .. (n + 2)) /\ Cardinality(2 .. (n + 2)) = n + 1
      /\ IsFiniteSet(1 .. n) /\ Cardinality(1 .. n) = n
  <2>1. n + 2 \in Int /\ n \in Int /\ 1 \in Int /\ 2 \in Int /\ ~(2 > n + 2) /\ (1 > n => n = 0)
    BY <1>0
  <2> HIDE DEF n
  <2>2. /\ IsFiniteSet(2 .. (n + 2))
        /\ Cardinality(2 .. (n + 2)) = IF 2 > n + 2 THEN 0 ELSE (n + 2) - 2 + 1
    BY <2>1, FS_Interval
  <2>3. IsFiniteSet(1 .. n) /\ Cardinality(1 .. n) = IF 1 > n THEN 0 ELSE n - 1 + 1
    BY <2>1, FS_Interval
  <2> QED BY <1>0, <2>1, <2>2, <2>3
<1> HIDE DEF f, n
<1>4. PICK j, k \in 2 .. (n + 2) : j # k /\ f[j] = f[k]
  <2> DEFINE S == 2 .. (n + 2)
             T == 1 .. n
  <2>1. IsFiniteSet(S) /\ IsFiniteSet(T) /\ Cardinality(T) < Cardinality(S) /\ f \in [S -> T]
    BY <1>0, <1>1, <1>3
  <2> HIDE DEF S, T
  <2>2. \E j, k \in S : j # k /\ f[j] = f[k]
    BY <2>1, FS_PigeonHole
  <2> QED BY <2>2 DEF S
<1>5. Append(name, j) = Append(name, k)
  BY <1>1, <1>4
<1> QED BY <1>0, <1>2, <1>4, <1>5

\* One sequence behind another.
LEMMA OneBehindOther ==
    ASSUME NEW S, NEW s \in Seq(S), NEW t \in Seq(S)
    PROVE  /\ s \o t \in Seq(S) /\ Len(s) \in Nat /\ Len(t) \in Nat
           /\ Len(s \o t) \in Nat /\ Len(s \o t) = Len(s) + Len(t)
           /\ \A i \in DOMAIN s : i \in DOMAIN (s \o t) /\ (s \o t)[i] = s[i]
           /\ \A i \in DOMAIN t : Len(s) + i \in DOMAIN (s \o t) /\ (s \o t)[Len(s) + i] = t[i]
           /\ \A i \in DOMAIN (s \o t) : i \in DOMAIN s \/ i - Len(s) \in DOMAIN t
OBVIOUS

\* A name that is given is one nothing has.
LEMMA UniqueIsFree ==
    ASSUME NEW G, NEW it \in Sorting(G), NEW e \in ClassUpload!OuterEntry
    PROVE  /\ ClassUpload!Unique(e, it) \in Seq(Nat)
           /\ \A i \in DOMAIN it.pages :
                 <<it.pages[i].name, it.pages[i].ext>> # <<ClassUpload!Unique(e, it), e.ext>>
           /\ \A i \in DOMAIN it.files :
                 <<it.files[i].name, it.files[i].ext>> # <<ClassUpload!Unique(e, it), e.ext>>
<1> DEFINE u     == it.pages \o it.files
           taken == {<<x.name, x.ext>> : x \in ClassUpload!ToSet(u)}
           NotTaken(m) == <<m, e.ext>> \notin taken
           IsNew(k) == NotTaken(Append(e.name, k)) /\ \A j \in 2 .. (k - 1) : ~NotTaken(Append(e.name, j))
           name  == ClassUpload!Unique(e, it)
<1>1. /\ it.pages \in Seq(ClassUpload!OuterEntry) /\ it.files \in Seq(ClassUpload!OuterEntry)
      /\ e.name \in Seq(Nat)
  <2>1. OfNumber(G) \subseteq ClassUpload!OuterEntry
    BY DEF OfNumber
  <2>2. it.pages \in Seq(OfNumber(G)) /\ it.files \in Seq(OfNumber(G))
    BY DEF Sorting
  <2>3. e.name \in Seq(Nat)
    BY DEF ClassUpload!OuterEntry, ClassUpload!EntryWith
  <2> QED BY <2>1, <2>2, <2>3
<1>2. /\ u \in Seq(ClassUpload!OuterEntry) /\ Len(u) \in Nat
      /\ \A i \in DOMAIN it.pages : i \in DOMAIN u /\ u[i] = it.pages[i]
      /\ \A i \in DOMAIN it.files : Len(it.pages) + i \in DOMAIN u /\ u[Len(it.pages) + i] = it.files[i]
  <2>1. \A s, t \in Seq(ClassUpload!OuterEntry) :
           /\ s \o t \in Seq(ClassUpload!OuterEntry) /\ Len(s \o t) \in Nat
           /\ \A i \in DOMAIN s : i \in DOMAIN (s \o t) /\ (s \o t)[i] = s[i]
           /\ \A i \in DOMAIN t : Len(s) + i \in DOMAIN (s \o t) /\ (s \o t)[Len(s) + i] = t[i]
    BY OneBehindOther
  <2> QED BY <1>1, <2>1
<1>3. taken = {<<u[i].name, u[i].ext>> : i \in DOMAIN u}
  BY DEF ClassUpload!ToSet
<1>4. name = IF NotTaken(e.name) THEN e.name
             ELSE Append(e.name, CHOOSE k \in 2 .. (Len(u) + 2) : IsNew(k))
  BY DEF ClassUpload!Unique
<1>5. \A i \in DOMAIN it.pages : <<it.pages[i].name, it.pages[i].ext>> \in taken
  <2> SUFFICES ASSUME NEW i \in DOMAIN it.pages PROVE <<it.pages[i].name, it.pages[i].ext>> \in taken
    OBVIOUS
  <2>1. i \in DOMAIN u /\ u[i] = it.pages[i]
    BY <1>2
  <2> HIDE DEF u
  <2> QED BY <1>3, <2>1
<1>6. \A i \in DOMAIN it.files : <<it.files[i].name, it.files[i].ext>> \in taken
  <2> SUFFICES ASSUME NEW i \in DOMAIN it.files PROVE <<it.files[i].name, it.files[i].ext>> \in taken
    OBVIOUS
  <2>1. Len(it.pages) + i \in DOMAIN u /\ u[Len(it.pages) + i] = it.files[i]
    BY <1>2
  <2> HIDE DEF u
  <2> QED BY <1>3, <2>1
<1>7. \E k \in 2 .. (Len(u) + 2) : NotTaken(Append(e.name, k))
  <2> HIDE DEF u
  <2>1. DOMAIN u = 1 .. Len(u)
    BY <1>2
  <2>2. PICK k \in 2 .. (Len(u) + 2) :
            \A i \in 1 .. Len(u) : <<u[i].name, u[i].ext>> # <<Append(e.name, k), e.ext>>
    BY <1>1, <1>2, NameIsFree
  <2>3. NotTaken(Append(e.name, k))
    BY <1>3, <2>1, <2>2
  <2> QED BY <2>3
<1> HIDE DEF u, taken
<1>8. \E k \in 2 .. (Len(u) + 2) : IsNew(k)
  <2> DEFINE B == {k \in 2 .. (Len(u) + 2) : NotTaken(Append(e.name, k))}
  <2>1. B \in SUBSET Nat /\ B # {}
    <3> HIDE DEF NotTaken
    <3>1. B # {}
      BY <1>7
    <3>2. \A k \in B : k \in Nat
      BY <1>2
    <3> QED BY <3>1, <3>2
  <2> HIDE DEF B
  <2>2. PICK k \in B : \A j \in B : k <= j
    BY <2>1, LeastNatural
  <2>3. k \in 2 .. (Len(u) + 2) /\ NotTaken(Append(e.name, k))
    BY <2>2 DEF B
  <2>4. ASSUME NEW j \in 2 .. (k - 1) PROVE ~NotTaken(Append(e.name, j))
    <3>1. j \in 2 .. (Len(u) + 2) /\ ~(k <= j)
      BY <1>2, <2>3
    <3>2. j \notin B
      BY <2>2, <3>1
    <3> QED BY <3>1, <3>2 DEF B
  <2> QED BY <2>3, <2>4
<1>9. NotTaken(name) /\ name \in Seq(Nat)
  <2>1. CASE NotTaken(e.name)
    BY <1>1, <1>4, <2>1
  <2>2. CASE ~NotTaken(e.name)
    <3> DEFINE k == CHOOSE k \in 2 .. (Len(u) + 2) : IsNew(k)
    <3>1. k \in 2 .. (Len(u) + 2) /\ NotTaken(Append(e.name, k))
      BY <1>8
    <3> HIDE DEF k
    <3>2. k \in Nat
      BY <1>2, <3>1
    <3>3. Append(e.name, k) \in Seq(Nat)
      BY <1>1, <3>2
    <3> QED BY <1>4, <2>2, <3>1, <3>3 DEF k
  <2> QED BY <2>1, <2>2
<1> HIDE DEF name
<1>10. NotTaken(name) => \A x \in taken : x # <<name, e.ext>>
  OBVIOUS
<1> QED BY <1>5, <1>6, <1>9, <1>10 DEF name

\* An entry behind others whose names are not its own.
LEMMA OneNameMore ==
    ASSUME NEW S, NEW s \in Seq(S), NEW e \in S
    PROVE  /\ Append(s, e) \in Seq(S) /\ Len(Append(s, e)) = Len(s) + 1 /\ Len(s) \in Nat
           /\ \A i \in DOMAIN Append(s, e) : (i \in DOMAIN s /\ Append(s, e)[i] = s[i]) \/ Append(s, e)[i] = e
           /\ (OneName(s) /\ \A i \in DOMAIN s : <<s[i].name, s[i].ext>> # <<e.name, e.ext>>) => OneName(Append(s, e))
<1> DEFINE t == Append(s, e)
           n == Len(s)
<1>1. /\ t \in Seq(S) /\ Len(t) = n + 1 /\ n \in Nat /\ t[n + 1] = e
      /\ DOMAIN t = 1 .. (n + 1) /\ DOMAIN s = 1 .. n /\ \A i \in 1 .. n : t[i] = s[i]
  OBVIOUS
<1> HIDE DEF t, n
<1>2. \A i \in DOMAIN t : (i \in DOMAIN s /\ t[i] = s[i]) \/ (i = n + 1 /\ t[i] = e)
  BY <1>1
<1>3. ASSUME OneName(s), \A i \in DOMAIN s : <<s[i].name, s[i].ext>> # <<e.name, e.ext>>
      PROVE  OneName(t)
  <2> SUFFICES ASSUME NEW i \in DOMAIN t, NEW j \in DOMAIN t, <<t[i].name, t[i].ext>> = <<t[j].name, t[j].ext>>
               PROVE  i = j
    BY DEF OneName
  <2>1. CASE i \in DOMAIN s /\ t[i] = s[i] /\ j \in DOMAIN s /\ t[j] = s[j]
    BY <1>3, <2>1 DEF OneName
  <2>2. CASE i = n + 1 /\ j = n + 1
    BY <2>2
  <2>3. ~(i \in DOMAIN s /\ t[i] = s[i] /\ t[j] = e) /\ ~(j \in DOMAIN s /\ t[j] = s[j] /\ t[i] = e)
    BY <1>3
  <2> QED BY <1>2, <2>1, <2>2, <2>3
<1> QED BY <1>1, <1>2, <1>3 DEF t, n

\* The caps are numbers.
LEMMA CapsFit ==
    /\ MAX_FILES \in Nat /\ MAX_FILE_BYTES \in Nat /\ MAX_UPLOAD_BYTES \in Nat /\ MAX_ZIP_DECOMPRESSED \in Nat
    /\ MAX_PAGES \in Nat
    /\ MAX_HAND_IN_PAGES \in 0 .. MAX_PAGES
BY UploadConstants DEF ClassUpload!BulkAssumption

\* An upload that is refused is left as it is.
LEMMA RefuseSorts ==
    ASSUME NEW G, NEW it \in Sorts(G), NEW code \in Codes
    PROVE  ClassUpload!Refuse(it, code) \in Sorts(G)
<1> DEFINE r == ClassUpload!Refuse(it, code)
<1>1. r \in Sorting(G) /\ r.pages = it.pages /\ r.files = it.files /\ r.total = it.total
  BY DEF ClassUpload!Refuse, Sorts, Sorting
<1> HIDE DEF r
<1> QED BY <1>1 DEF Sorts, PagesFit, FilesFit, BytesFit, r

\* So is one that ignores an entry.
LEMMA IgnoreSorts ==
    ASSUME NEW G, NEW it \in Sorts(G), NEW e \in OfNumber(G)
    PROVE  ClassUpload!Ignore(it, e) \in Sorts(G)
<1> DEFINE r == ClassUpload!Ignore(it, e)
<1>1. r = [it EXCEPT !.ignored = Append(it.ignored, e)]
  BY DEF ClassUpload!Ignore
<1>2. Append(it.ignored, e) \in Seq(OfNumber(G))
  BY OneNameMore DEF Sorts, Sorting
<1>3. r \in Sorting(G) /\ r.pages = it.pages /\ r.files = it.files /\ r.total = it.total
  BY <1>1, <1>2 DEF Sorts, Sorting
<1> HIDE DEF r
<1> QED BY <1>3 DEF Sorts, PagesFit, FilesFit, BytesFit, r

\* An entry under the name it is taken with.
Retitled(e, it) == [e EXCEPT !.name = ClassUpload!Unique(e, it)]

\* An entry that is taken gets a name of its own.
LEMMA Renamed ==
    ASSUME NEW G, NEW it \in Sorting(G), NEW e \in OfNumber(G)
    PROVE  /\ Retitled(e, it) \in OfNumber(G) /\ Retitled(e, it).ext = e.ext /\ Retitled(e, it).size = e.size
           /\ Retitled(e, it).size \in Nat
           /\ \A i \in DOMAIN it.pages :
                 <<it.pages[i].name, it.pages[i].ext>> # <<Retitled(e, it).name, Retitled(e, it).ext>>
           /\ \A i \in DOMAIN it.files :
                 <<it.files[i].name, it.files[i].ext>> # <<Retitled(e, it).name, Retitled(e, it).ext>>
<1> DEFINE name == ClassUpload!Unique(e, it)
           f    == Retitled(e, it)
<1>1. e \in ClassUpload!OuterEntry /\ e.reg \in G
  BY DEF OfNumber
<1>2. /\ name \in Seq(Nat)
      /\ \A i \in DOMAIN it.pages : <<it.pages[i].name, it.pages[i].ext>> # <<name, e.ext>>
      /\ \A i \in DOMAIN it.files : <<it.files[i].name, it.files[i].ext>> # <<name, e.ext>>
  BY <1>1, UniqueIsFree
<1>3. f = [e EXCEPT !.name = name]
  BY DEF Retitled
<1> HIDE DEF name, f
<1>4. /\ f \in ClassUpload!OuterEntry /\ f.reg = e.reg /\ f.ext = e.ext /\ f.size = e.size /\ f.size \in Nat
      /\ f.name = name
  BY <1>1, <1>2, <1>3 DEF ClassUpload!OuterEntry, ClassUpload!EntryWith
<1>5. f \in OfNumber(G)
  BY <1>1, <1>4 DEF OfNumber
<1> QED BY <1>2, <1>4, <1>5 DEF f

\* What is taken is charged for.
LEMMA Charged ==
    ASSUME NEW G, NEW it \in Sorts(G), it.error = {}, NEW e \in OfNumber(G)
    PROVE  \/ /\ it.total + e.size > MAX_UPLOAD_BYTES
              /\ ClassUpload!Charge(it, e) = ClassUpload!Refuse(it, "too_large")
              /\ ClassUpload!Charge(it, e).error # {}
           \/ /\ ~(it.total + e.size > MAX_UPLOAD_BYTES)
              /\ ClassUpload!Charge(it, e) = [it EXCEPT !.total = it.total + e.size]
              /\ ClassUpload!Charge(it, e).error = {}
<1>0. it \in Sorting(G)
  BY DEF Sorts
<1>1. CASE it.total + e.size > MAX_UPLOAD_BYTES
  <2>1. ClassUpload!Charge(it, e) = ClassUpload!Refuse(it, "too_large")
    BY <1>1 DEF ClassUpload!Charge
  <2>2. ClassUpload!Refuse(it, "too_large").error = {"too_large"}
    BY <1>0 DEF ClassUpload!Refuse, Sorting
  <2> QED BY <1>1, <2>1, <2>2
<1>2. CASE ~(it.total + e.size > MAX_UPLOAD_BYTES)
  <2>1. ClassUpload!Charge(it, e) = [it EXCEPT !.total = it.total + e.size]
    BY <1>2 DEF ClassUpload!Charge
  <2>2. [it EXCEPT !.total = it.total + e.size].error = it.error
    BY <1>0 DEF Sorting
  <2> QED BY <1>2, <2>1, <2>2
<1> QED BY <1>1, <1>2

\* A page that is charged for and has a name of its own fits in.
LEMMA PageSorts ==
    ASSUME NEW G, NEW it \in Sorts(G), it.error = {}, NEW e \in OfNumber(G), e.ext \in ClassUpload!PAGE_EXTS
    PROVE  ClassUpload!AddPage(it, e) \in Sorts(G)
<1> DEFINE f     == Retitled(e, it)
           pages == Append(it.pages, f)
           total == it.total + e.size
           q     == [it EXCEPT !.total = total, !.pages = pages]
<1>0. /\ it \in Sorting(G) /\ PagesFit(it) /\ FilesFit(it) /\ BytesFit(it)
      /\ it.pages \in Seq(OfNumber(G)) /\ it.files \in Seq(OfNumber(G)) /\ it.total \in Nat
  BY DEF Sorts, Sorting
<1>1. CASE it.total + e.size > MAX_UPLOAD_BYTES
  <2>1. "too_large" \in Codes
    BY DEF Codes
  <2>2. ClassUpload!AddPage(it, e) = ClassUpload!Refuse(it, "too_large")
    BY <1>1, Charged DEF ClassUpload!AddPage
  <2> QED BY <2>1, <2>2, RefuseSorts
<1>2. CASE ~(it.total + e.size > MAX_UPLOAD_BYTES)
  <2>1. ClassUpload!Charge(it, e) = [it EXCEPT !.total = total] /\ ClassUpload!Charge(it, e).error = {}
    BY <1>2, Charged
  <2>2. /\ [it EXCEPT !.total = total].pages = it.pages
        /\ [[it EXCEPT !.total = total] EXCEPT !.pages = pages] = q
    BY <1>0 DEF Sorting
  <2>3. ClassUpload!AddPage(it, e) = q
    BY <2>1, <2>2 DEF ClassUpload!AddPage, Retitled
  <2>4. /\ f \in OfNumber(G) /\ f.ext = e.ext /\ f.size = e.size /\ f.size \in Nat
        /\ \A i \in DOMAIN it.pages : <<it.pages[i].name, it.pages[i].ext>> # <<f.name, f.ext>>
    BY <1>0, Renamed
  <2> HIDE DEF f
  <2>5. /\ pages \in Seq(OfNumber(G)) /\ OneName(pages)
        /\ \A i \in DOMAIN pages : (i \in DOMAIN it.pages /\ pages[i] = it.pages[i]) \/ pages[i] = f
    BY <1>0, <2>4, OneNameMore DEF PagesFit
  <2>a. total \in Nat
    BY <1>0, <2>4
  <2> HIDE DEF pages, total
  <2>6. q \in Sorting(G) /\ q.pages = pages /\ q.files = it.files /\ q.total = total
    BY <1>0, <2>5, <2>a DEF Sorting
  <2> HIDE DEF q
  <2>7. PagesFit(q)
    BY <1>0, <2>4, <2>5, <2>6 DEF PagesFit
  <2>8. FilesFit(q)
    BY <1>0, <2>6 DEF FilesFit
  <2>9. BytesFit(q)
    <3>1. it.pages \in Seq(ClassUpload!OuterEntry) /\ it.files \in Seq(ClassUpload!OuterEntry)
          /\ f \in ClassUpload!OuterEntry
      <4>1. OfNumber(G) \subseteq ClassUpload!OuterEntry
        BY DEF OfNumber
      <4> QED BY <1>0, <2>4, <4>1
    <3>2. ClassUpload!Bytes(pages) = ClassUpload!Bytes(it.pages) + e.size
      BY <2>4, <3>1, BytesOfMore DEF pages
    <3>3. ClassUpload!Bytes(it.pages) \in Nat /\ ClassUpload!Bytes(it.files) \in Nat
      BY <3>1, BytesOfBoth
    <3>4. e.size \in Nat /\ total = it.total + e.size
      BY <2>4 DEF total
    <3>5. q.total = ClassUpload!Bytes(q.pages) + ClassUpload!Bytes(q.files)
      BY <1>0, <2>6, <3>2, <3>3, <3>4 DEF BytesFit
    <3>6. q.total <= MAX_UPLOAD_BYTES
      BY <1>0, <1>2, <2>6, <2>a, <3>4, CapsFit
    <3> QED BY <3>5, <3>6 DEF BytesFit
  <2> QED BY <2>3, <2>6, <2>7, <2>8, <2>9 DEF Sorts
<1> QED BY <1>1, <1>2

\* So does a file that is within the caps of a submission.
LEMMA FileSorts ==
    ASSUME NEW G, NEW it \in Sorts(G), it.error = {}, NEW e \in OfNumber(G), e.ext = "prog"
    PROVE  ClassUpload!AddFile(it, e, ClassUpload!Submission) \in Sorts(G)
<1> DEFINE f     == Retitled(e, it)
           files == Append(it.files, f)
           total == it.total + e.size
           q     == [it EXCEPT !.total = total, !.files = files]
           cap   == ClassUpload!Submission
<1>0. /\ it \in Sorting(G) /\ PagesFit(it) /\ FilesFit(it) /\ BytesFit(it)
      /\ it.pages \in Seq(OfNumber(G)) /\ it.files \in Seq(OfNumber(G)) /\ it.total \in Nat
  BY DEF Sorts, Sorting
<1>a. "too_large" \in Codes /\ "too_many_files" \in Codes
  BY DEF Codes
<1>b. cap.files = MAX_FILES /\ cap.file = MAX_FILE_BYTES
  BY DEF ClassUpload!Submission
<1>1. CASE ClassUpload!Full(it, cap)
  <2>1. ClassUpload!AddFile(it, e, cap) = ClassUpload!Refuse(it, "too_many_files")
    BY <1>1 DEF ClassUpload!AddFile
  <2> QED BY <1>a, <2>1, RefuseSorts
<1>2. CASE ~ClassUpload!Full(it, cap) /\ e.size > cap.file
  <2>1. ClassUpload!AddFile(it, e, cap) = ClassUpload!Refuse(it, "too_large")
    BY <1>2 DEF ClassUpload!AddFile
  <2> QED BY <1>a, <2>1, RefuseSorts
<1>3. CASE ~ClassUpload!Full(it, cap) /\ ~(e.size > cap.file) /\ it.total + e.size > MAX_UPLOAD_BYTES
  <2>1. ClassUpload!AddFile(it, e, cap) = ClassUpload!Refuse(it, "too_large")
    BY <1>3, Charged DEF ClassUpload!AddFile
  <2> QED BY <1>a, <2>1, RefuseSorts
<1>4. CASE ~ClassUpload!Full(it, cap) /\ ~(e.size > cap.file) /\ ~(it.total + e.size > MAX_UPLOAD_BYTES)
  <2>1. ClassUpload!Charge(it, e) = [it EXCEPT !.total = total] /\ ClassUpload!Charge(it, e).error = {}
    BY <1>4, Charged
  <2>2. /\ [it EXCEPT !.total = total].files = it.files
        /\ [[it EXCEPT !.total = total] EXCEPT !.files = files] = q
    BY <1>0 DEF Sorting
  <2>3. ClassUpload!AddFile(it, e, cap) = q
    BY <1>4, <2>1, <2>2 DEF ClassUpload!AddFile, Retitled
  <2>4. /\ f \in OfNumber(G) /\ f.ext = e.ext /\ f.size = e.size /\ f.size \in Nat
        /\ \A i \in DOMAIN it.files : <<it.files[i].name, it.files[i].ext>> # <<f.name, f.ext>>
    BY <1>0, Renamed
  <2> HIDE DEF f
  <2>5. /\ files \in Seq(OfNumber(G)) /\ OneName(files) /\ Len(files) = Len(it.files) + 1 /\ Len(it.files) \in Nat
        /\ \A i \in DOMAIN files : (i \in DOMAIN it.files /\ files[i] = it.files[i]) \/ files[i] = f
    BY <1>0, <2>4, OneNameMore DEF FilesFit
  <2>a. total \in Nat
    BY <1>0, <2>4
  <2>b. Len(it.files) < MAX_FILES /\ f.size <= MAX_FILE_BYTES
    BY <1>4, <1>b, <2>4, <2>5, CapsFit DEF ClassUpload!Full
  <2> HIDE DEF files, total
  <2>6. q \in Sorting(G) /\ q.files = files /\ q.pages = it.pages /\ q.total = total
    BY <1>0, <2>5, <2>a DEF Sorting
  <2> HIDE DEF q
  <2>7. PagesFit(q)
    BY <1>0, <2>6 DEF PagesFit
  <2>8. FilesFit(q)
    <3>1. Len(files) <= MAX_FILES
      BY <2>5, <2>b, CapsFit
    <3>2. \A i \in DOMAIN files : files[i].ext = "prog" /\ files[i].size <= MAX_FILE_BYTES
      BY <1>0, <2>4, <2>5, <2>b DEF FilesFit
    <3> QED BY <2>5, <2>6, <3>1, <3>2 DEF FilesFit
  <2>9. BytesFit(q)
    <3>1. it.pages \in Seq(ClassUpload!OuterEntry) /\ it.files \in Seq(ClassUpload!OuterEntry)
          /\ f \in ClassUpload!OuterEntry
      <4>1. OfNumber(G) \subseteq ClassUpload!OuterEntry
        BY DEF OfNumber
      <4> QED BY <1>0, <2>4, <4>1
    <3>2. ClassUpload!Bytes(files) = ClassUpload!Bytes(it.files) + e.size
      BY <2>4, <3>1, BytesOfMore DEF files
    <3>3. ClassUpload!Bytes(it.pages) \in Nat /\ ClassUpload!Bytes(it.files) \in Nat
      BY <3>1, BytesOfBoth
    <3>4. e.size \in Nat /\ total = it.total + e.size
      BY <2>4 DEF total
    <3>5. q.total = ClassUpload!Bytes(q.pages) + ClassUpload!Bytes(q.files)
      BY <1>0, <2>6, <3>2, <3>3, <3>4 DEF BytesFit
    <3>6. q.total <= MAX_UPLOAD_BYTES
      BY <1>0, <1>4, <2>6, <2>a, <3>4, CapsFit
    <3> QED BY <3>5, <3>6 DEF BytesFit
  <2> QED BY <2>3, <2>6, <2>7, <2>8, <2>9 DEF Sorts
<1> QED BY <1>1, <1>2, <1>3, <1>4

\* An entry of a zip is taken, ignored or refuses the upload.
LEMMA InnerSorts ==
    ASSUME NEW G, NEW it \in Sorts(G), NEW e \in OfNumber(G)
    PROVE  ClassUpload!AddInner(it, e, ClassUpload!Submission) \in Sorts(G)
<1> DEFINE cap == ClassUpload!Submission
<1>1. ASSUME ClassUpload!Usable(e), it.error = {} PROVE ClassUpload!AddUsable(it, e, cap) \in Sorts(G)
  <2>1. CASE e.ext \in ClassUpload!PAGE_EXTS
    BY <1>1, <2>1, PageSorts DEF ClassUpload!AddUsable
  <2>2. CASE e.ext \notin ClassUpload!PAGE_EXTS
    <3>1. e.ext = "prog"
      BY <1>1, <2>2 DEF ClassUpload!Usable, ClassUpload!FILE_EXTS
    <3> QED BY <1>1, <2>2, <3>1, FileSorts DEF ClassUpload!AddUsable
  <2> QED BY <2>1, <2>2
<1>2. ClassUpload!Ignore(it, e) \in Sorts(G)
  BY IgnoreSorts
<1>3. ClassUpload!Refuse(it, "bad_file") \in Sorts(G)
  BY RefuseSorts DEF Codes
<1>4. e.way \in {"in", "junk", "out"}
  BY DEF OfNumber, ClassUpload!OuterEntry, ClassUpload!EntryWith
<1>5. CASE it.error # {}
  BY <1>5 DEF ClassUpload!AddInner
<1>6. CASE it.error = {} /\ e.way = "out"
  BY <1>2, <1>6 DEF ClassUpload!AddInner
<1>7. CASE it.error = {} /\ e.way = "junk"
  BY <1>7 DEF ClassUpload!AddInner
<1>8. CASE it.error = {} /\ e.way = "in"
  BY <1>1, <1>2, <1>3, <1>8 DEF ClassUpload!AddInner
<1> QED BY <1>4, <1>5, <1>6, <1>7, <1>8

\* A zip in an upload is unpacked entry by entry.
LEMMA ZipSorts ==
    ASSUME NEW G, NEW it \in Sorts(G), it.error = {}, NEW z \in Handed(G)
    PROVE  ClassUpload!ExpandZip(it, z, ClassUpload!Submission) \in Sorts(G)
<1> DEFINE n     == Len(z.inside)
           X     == Sorts(G)
           cap   == ClassUpload!Submission
           F     == [p \in X \X (1 .. n) |-> ClassUpload!AddInner(p[1], z.inside[p[2]], cap)]
           after == CHOOSE g : g = [i \in 0 .. n |-> IF i = 0 THEN it
                                                     ELSE ClassUpload!AddInner(g[i - 1], z.inside[i], cap)]
           kept(x) == Len(x.pages) + Len(x.files)
<1>1. n \in Nat /\ \A i \in 1 .. n : z.inside[i] \in OfNumber(G)
  <2>1. z.inside \in Seq(ClassUpload!InnerEntry) /\ \A i \in DOMAIN z.inside : z.inside[i].reg \in G
    BY DEF Handed, OfNumber, ClassUpload!OuterEntry, ClassUpload!EntryWith
  <2>2. n \in Nat /\ \A i \in 1 .. n : z.inside[i] \in ClassUpload!InnerEntry /\ z.inside[i].reg \in G
    BY <2>1
  <2>3. \A i \in 1 .. n : z.inside[i] \in ClassUpload!OuterEntry
    BY <2>2, InnerIsOuter
  <2> QED BY <2>2, <2>3 DEF OfNumber
<1>2. \A x \in X, i \in 1 .. n : ClassUpload!AddInner(x, z.inside[i], cap) \in X
  BY <1>1, InnerSorts
<1>3. it \in X
  OBVIOUS
<1>4. ClassUpload!ExpandZip(it, z, cap) =
         IF ClassUpload!Bytes(z.inside) > cap.zip THEN ClassUpload!Refuse(it, "zip_bomb")
         ELSE IF after[n].error # {} THEN after[n]
         ELSE IF kept(after[n]) = kept(it) THEN ClassUpload!Refuse(after[n], "zip_nothing_usable")
         ELSE after[n]
  BY DEF ClassUpload!ExpandZip, ClassUpload!Along
<1> HIDE DEF X, n, cap
<1>5. F \in [X \X (1 .. n) -> X]
  BY <1>2
<1>6. \A x \in X, i \in 1 .. n : F[<<x, i>>] = ClassUpload!AddInner(x, z.inside[i], cap)
  OBVIOUS
<1> HIDE DEF F
<1>7. PICK f \in [0 .. n -> X] : f = [i \in 0 .. n |-> IF i = 0 THEN it ELSE F[<<f[i - 1], i>>]]
  <2>1. \E f : IsLoop(f, n, X, it, F)
    BY <1>1, <1>3, <1>5, LoopRuns
  <2> QED BY <2>1 DEF IsLoop
<1>8. \A i \in 0 .. n : f[i] = IF i = 0 THEN it ELSE ClassUpload!AddInner(f[i - 1], z.inside[i], cap)
  <2> SUFFICES ASSUME NEW i \in 0 .. n
               PROVE  f[i] = IF i = 0 THEN it ELSE ClassUpload!AddInner(f[i - 1], z.inside[i], cap)
    OBVIOUS
  <2>1. CASE i = 0
    BY <1>7, <2>1
  <2>2. CASE i # 0
    <3>1. i \in 1 .. n /\ i - 1 \in 0 .. n
      BY <1>1, <2>2
    <3>2. f[i] = F[<<f[i - 1], i>>] /\ f[i - 1] \in X
      BY <1>7, <2>2, <3>1
    <3> QED BY <1>6, <2>2, <3>1, <3>2
  <2> QED BY <2>1, <2>2
<1>9. f = [i \in 0 .. n |-> IF i = 0 THEN it ELSE ClassUpload!AddInner(f[i - 1], z.inside[i], cap)]
  BY <1>7, <1>8
<1>10. after = [i \in 0 .. n |-> IF i = 0 THEN it ELSE ClassUpload!AddInner(after[i - 1], z.inside[i], cap)]
  BY <1>9
<1> HIDE DEF after
<1>11. after[0] \in X
  <2>1. 0 \in 0 .. n
    BY <1>1
  <2>2. after[0] = it
    BY <1>10, <2>1
  <2> QED BY <1>3, <2>2
<1>12. \A i \in 1 .. n : after[i - 1] \in X => after[i] \in X
  <2> SUFFICES ASSUME NEW i \in 1 .. n, after[i - 1] \in X PROVE after[i] \in X
    OBVIOUS
  <2>1. i \in 0 .. n /\ i # 0
    BY <1>1
  <2>2. after[i] = ClassUpload!AddInner(after[i - 1], z.inside[i], cap)
    BY <1>10, <2>1
  <2> QED BY <1>2, <2>2
<1>13. after[n] \in X
  <2>1. \A i \in 0 .. n : after[i] \in X
    BY <1>1, <1>11, <1>12, AlongLoop
  <2>2. n \in 0 .. n
    BY <1>1
  <2> QED BY <2>1, <2>2
<1>14. ClassUpload!Refuse(it, "zip_bomb") \in X /\ ClassUpload!Refuse(after[n], "zip_nothing_usable") \in X
  BY <1>13, RefuseSorts DEF Codes, X
<1> HIDE DEF kept
<1> QED BY <1>4, <1>13, <1>14 DEF X, cap

\* Every entry of an upload is.
LEMMA UploadSorts ==
    ASSUME NEW G, NEW it \in Sorts(G), NEW e \in Handed(G)
    PROVE  ClassUpload!AddUpload(it, e, ClassUpload!Submission) \in Sorts(G)
<1> DEFINE cap == ClassUpload!Submission
<1>0. e \in OfNumber(G)
  BY DEF Handed
<1>1. ClassUpload!Refuse(it, "bad_file") \in Sorts(G)
  BY RefuseSorts DEF Codes
<1>2. CASE it.error # {}
  BY <1>2 DEF ClassUpload!AddUpload
<1>3. CASE it.error = {} /\ e.ext = "zip"
  BY <1>3, ZipSorts DEF ClassUpload!AddUpload
<1>4. CASE it.error = {} /\ e.ext # "zip" /\ ClassUpload!Usable(e)
  <2>1. ClassUpload!AddUpload(it, e, cap) = ClassUpload!AddUsable(it, e, cap)
    BY <1>4 DEF ClassUpload!AddUpload
  <2>2. CASE e.ext \in ClassUpload!PAGE_EXTS
    BY <1>0, <1>4, <2>1, <2>2, PageSorts DEF ClassUpload!AddUsable
  <2>3. CASE e.ext \notin ClassUpload!PAGE_EXTS
    <3>1. e.ext = "prog"
      BY <1>4, <2>3 DEF ClassUpload!Usable, ClassUpload!FILE_EXTS
    <3> QED BY <1>0, <1>4, <2>1, <2>3, <3>1, FileSorts DEF ClassUpload!AddUsable
  <2> QED BY <2>2, <2>3
<1>5. CASE it.error = {} /\ e.ext # "zip" /\ ~ClassUpload!Usable(e)
  BY <1>1, <1>5 DEF ClassUpload!AddUpload
<1> QED BY <1>2, <1>3, <1>4, <1>5

\* An upload is sorted entry by entry, within the caps of a submission whatever it holds.
LEMMA ClassifyRuns ==
    ASSUME NEW G, NEW s \in Seq(Handed(G))
    PROVE  \E f \in [0 .. Len(s) -> Sorts(G)] :
              /\ f[0] = ClassUpload!Empty
              /\ \A i \in 1 .. Len(s) : f[i] = ClassUpload!AddUpload(f[i - 1], s[i], ClassUpload!Submission)
              /\ ClassUpload!classify_uploads(s, ClassUpload!Submission) = f[Len(s)]
<1> DEFINE n     == Len(s)
           X     == Sorts(G)
           cap   == ClassUpload!Submission
           it    == ClassUpload!Empty
           F     == [p \in X \X (1 .. n) |-> ClassUpload!AddUpload(p[1], s[p[2]], cap)]
           after == CHOOSE g : g = [i \in 0 .. n |-> IF i = 0 THEN it
                                                     ELSE ClassUpload!AddUpload(g[i - 1], s[i], cap)]
<1>1. n \in Nat /\ \A i \in 1 .. n : s[i] \in Handed(G)
  OBVIOUS
<1>2. \A x \in X, i \in 1 .. n : ClassUpload!AddUpload(x, s[i], cap) \in X
  BY <1>1, UploadSorts
<1>3. it \in X
  <2>0. <<>> \in Seq(OfNumber(G)) /\ 0 \in Nat /\ {} \in SUBSET Codes /\ Len(<<>>) = 0 /\ DOMAIN <<>> = {}
    OBVIOUS
  <2>1. it \in Sorting(G) /\ it.pages = <<>> /\ it.files = <<>> /\ it.total = 0
    BY <2>0 DEF ClassUpload!Empty, Sorting
  <2>2. ClassUpload!Bytes(<<>>) = 0
    <3> DEFINE zero == [i \in 0 .. 0 |-> 0]
    <3>1. <<>> \in Seq(ClassUpload!OuterEntry)
      OBVIOUS
    <3>2. PICK f \in [0 .. Len(<<>>) -> Nat] : f[0] = 0 /\ ClassUpload!Bytes(<<>>) = f[Len(<<>>)]
      BY <3>1, BytesSum
    <3> QED BY <2>0, <3>2
  <2> HIDE DEF it
  <2>3. PagesFit(it) /\ FilesFit(it)
    BY <2>0, <2>1, CapsFit DEF PagesFit, FilesFit, OneName
  <2>4. BytesFit(it)
    BY <2>1, <2>2, CapsFit DEF BytesFit
  <2> QED BY <2>1, <2>3, <2>4 DEF Sorts
<1>4. ClassUpload!classify_uploads(s, cap) = after[n]
  BY DEF ClassUpload!classify_uploads, ClassUpload!Along
<1> HIDE DEF X, n, cap, it
<1>5. F \in [X \X (1 .. n) -> X]
  BY <1>2
<1>6. \A x \in X, i \in 1 .. n : F[<<x, i>>] = ClassUpload!AddUpload(x, s[i], cap)
  OBVIOUS
<1> HIDE DEF F
<1>7. PICK f \in [0 .. n -> X] : f = [i \in 0 .. n |-> IF i = 0 THEN it ELSE F[<<f[i - 1], i>>]]
  <2>1. \E f : IsLoop(f, n, X, it, F)
    BY <1>1, <1>3, <1>5, LoopRuns
  <2> QED BY <2>1 DEF IsLoop
<1>8. \A i \in 0 .. n : f[i] = IF i = 0 THEN it ELSE ClassUpload!AddUpload(f[i - 1], s[i], cap)
  <2> SUFFICES ASSUME NEW i \in 0 .. n
               PROVE  f[i] = IF i = 0 THEN it ELSE ClassUpload!AddUpload(f[i - 1], s[i], cap)
    OBVIOUS
  <2>1. CASE i = 0
    BY <1>7, <2>1
  <2>2. CASE i # 0
    <3>1. i \in 1 .. n /\ i - 1 \in 0 .. n
      BY <1>1, <2>2
    <3>2. f[i] = F[<<f[i - 1], i>>] /\ f[i - 1] \in X
      BY <1>7, <2>2, <3>1
    <3> QED BY <1>6, <2>2, <3>1, <3>2
  <2> QED BY <2>1, <2>2
<1>9. f = [i \in 0 .. n |-> IF i = 0 THEN it ELSE ClassUpload!AddUpload(f[i - 1], s[i], cap)]
  BY <1>7, <1>8
<1>10. after = [i \in 0 .. n |-> IF i = 0 THEN it ELSE ClassUpload!AddUpload(after[i - 1], s[i], cap)]
  BY <1>9
<1> HIDE DEF after
<1>11. after[0] = it
  <2>1. 0 \in 0 .. n
    BY <1>1
  <2> QED BY <1>10, <2>1
<1>12. \A i \in 1 .. n : after[i] = ClassUpload!AddUpload(after[i - 1], s[i], cap)
  <2> SUFFICES ASSUME NEW i \in 1 .. n PROVE after[i] = ClassUpload!AddUpload(after[i - 1], s[i], cap)
    OBVIOUS
  <2>1. i \in 0 .. n /\ i # 0
    BY <1>1
  <2> QED BY <1>10, <2>1
<1>13. \A i \in 0 .. n : after[i] \in X
  <2>1. after[0] \in X /\ \A i \in 1 .. n : after[i - 1] \in X => after[i] \in X
    BY <1>2, <1>3, <1>11, <1>12
  <2> QED BY <1>1, <2>1, AlongLoop
<1>14. after \in [0 .. n -> X]
  BY <1>10, <1>13
<1> QED BY <1>4, <1>11, <1>12, <1>14 DEF X, cap, n, it

\* So it ends within them.
LEMMA ClassifySorts ==
    ASSUME NEW G, NEW s \in Seq(Handed(G))
    PROVE  ClassUpload!classify_uploads(s, ClassUpload!Submission) \in Sorts(G)
<1>1. PICK f \in [0 .. Len(s) -> Sorts(G)] : ClassUpload!classify_uploads(s, ClassUpload!Submission) = f[Len(s)]
  BY ClassifyRuns
<1>2. Len(s) \in 0 .. Len(s)
  OBVIOUS
<1> QED BY <1>1, <1>2

\* An upload that is not refused unpacks no zip past the cap.
LEMMA ZipsAreCapped ==
    ASSUME NEW G, NEW s \in Seq(Handed(G)), NEW j \in 1 .. Len(s), s[j].ext = "zip",
           ClassUpload!classify_uploads(s, ClassUpload!Submission).error = {}
    PROVE  ~(ClassUpload!Bytes(s[j].inside) > MAX_ZIP_DECOMPRESSED)
<1> DEFINE n   == Len(s)
           cap == ClassUpload!Submission
<1>1. n \in Nat
  OBVIOUS
<1>2. PICK f \in [0 .. n -> Sorts(G)] :
              /\ f[0] = ClassUpload!Empty
              /\ \A i \in 1 .. n : f[i] = ClassUpload!AddUpload(f[i - 1], s[i], cap)
              /\ ClassUpload!classify_uploads(s, cap) = f[n]
  BY ClassifyRuns
<1>3. cap.zip = MAX_ZIP_DECOMPRESSED
  BY DEF ClassUpload!Submission
<1> SUFFICES ASSUME ClassUpload!Bytes(s[j].inside) > MAX_ZIP_DECOMPRESSED PROVE f[n].error # {}
  BY <1>2
<1> HIDE DEF n, cap
<1>4. f[j].error # {}
  <2>1. f[j] = ClassUpload!AddUpload(f[j - 1], s[j], cap)
    BY <1>2 DEF n
  <2>2. CASE f[j - 1].error # {}
    BY <2>1, <2>2 DEF ClassUpload!AddUpload
  <2>3. CASE f[j - 1].error = {}
    <3>1. f[j] = ClassUpload!Refuse(f[j - 1], "zip_bomb")
      BY <1>3, <2>1, <2>3 DEF ClassUpload!AddUpload, ClassUpload!ExpandZip
    <3>2. f[j - 1] \in Sorting(G)
      BY <1>1 DEF n, Sorts
    <3>3. f[j].error = {"zip_bomb"}
      BY <3>1, <3>2 DEF ClassUpload!Refuse, Sorting
    <3> QED BY <3>3
  <2> QED BY <2>2, <2>3
<1>5. \A i \in 1 .. n : f[i - 1].error # {} => f[i].error # {}
  BY <1>2 DEF ClassUpload!AddUpload
<1> DEFINE passed == [i \in 0 .. n |-> IF i < j \/ f[i].error # {} THEN 0 ELSE 1]
<1>6. passed[0] \in {0}
  BY <1>1
<1>7. \A i \in 1 .. n : passed[i - 1] \in {0} => passed[i] \in {0}
  <2> SUFFICES ASSUME NEW i \in 1 .. n, passed[i - 1] = 0 PROVE passed[i] = 0
    OBVIOUS
  <2>1. i - 1 \in 0 .. n /\ i \in 0 .. n
    BY <1>1
  <2>2. i - 1 < j \/ f[i - 1].error # {}
    BY <2>1
  <2>3. CASE i < j
    BY <2>1, <2>3
  <2>4. CASE i = j
    BY <1>4, <2>1, <2>4
  <2>5. CASE i > j
    <3>1. f[i].error # {}
      BY <1>5, <2>2, <2>5
    <3> QED BY <2>1, <3>1
  <2> QED BY <2>3, <2>4, <2>5
<1> HIDE DEF passed
<1>8. \A i \in 0 .. n : passed[i] \in {0}
  BY <1>1, <1>6, <1>7, AlongLoop
<1>9. n \in 0 .. n /\ ~(n < j)
  BY <1>1 DEF n
<1>10. passed[n] = 0
  BY <1>8, <1>9
<1> QED BY <1>9, <1>10 DEF passed

\* Its pages are rasterised up to the most that may be.
LEMMA PagesAreCapped ==
    ASSUME NEW s \in Seq(ClassUpload!OuterEntry), NEW most \in Nat
    PROVE  /\ ClassUpload!process_uploads(s, most).stored \in 0 .. most
           /\ ClassUpload!process_uploads(s, most) \in [stored : 0 .. most, error : SUBSET {"bad_upload"}]
<1> DEFINE n     == Len(s)
           X     == [stored : 0 .. most, error : SUBSET {"bad_upload"}]
           it    == [stored |-> 0, error |-> {}]
           F     == [p \in X \X (1 .. n) |-> ClassUpload!Rasterise(p[1], s[p[2]], most)]
           after == CHOOSE g : g = [i \in 0 .. n |-> IF i = 0 THEN it
                                                     ELSE ClassUpload!Rasterise(g[i - 1], s[i], most)]
<1>1. n \in Nat /\ \A i \in 1 .. n : s[i] \in ClassUpload!OuterEntry
  OBVIOUS
<1>2. \A x \in X, i \in 1 .. n : ClassUpload!Rasterise(x, s[i], most) \in X
  <2> SUFFICES ASSUME NEW x \in X, NEW e \in ClassUpload!OuterEntry PROVE ClassUpload!Rasterise(x, e, most) \in X
    BY <1>1
  <2>1. e.leaves \in Nat
    BY DEF ClassUpload!OuterEntry, ClassUpload!EntryWith
  <2>2. CASE x.error # {}
    BY <2>2 DEF ClassUpload!Rasterise
  <2>3. CASE x.error = {} /\ (e.leaves = 0 \/ ClassUpload!TooMany(x.stored, e, most))
    BY <2>3 DEF ClassUpload!Rasterise
  <2>4. CASE x.error = {} /\ ~(e.leaves = 0 \/ ClassUpload!TooMany(x.stored, e, most))
    <3>1. ClassUpload!Rasterise(x, e, most) = [x EXCEPT !.stored = x.stored + e.leaves]
      BY <2>4 DEF ClassUpload!Rasterise
    <3>2. x.stored + e.leaves \in 0 .. most
      BY <2>1, <2>4 DEF ClassUpload!TooMany
    <3> QED BY <3>1, <3>2
  <2> QED BY <2>2, <2>3, <2>4
<1>3. it \in X
  OBVIOUS
<1>4. ClassUpload!process_uploads(s, most) = after[n]
  BY DEF ClassUpload!process_uploads, ClassUpload!Along
<1> HIDE DEF X, n, it
<1>5. F \in [X \X (1 .. n) -> X]
  BY <1>2
<1>6. \A x \in X, i \in 1 .. n : F[<<x, i>>] = ClassUpload!Rasterise(x, s[i], most)
  OBVIOUS
<1> HIDE DEF F
<1>7. PICK f \in [0 .. n -> X] : f = [i \in 0 .. n |-> IF i = 0 THEN it ELSE F[<<f[i - 1], i>>]]
  <2>1. \E f : IsLoop(f, n, X, it, F)
    BY <1>1, <1>3, <1>5, LoopRuns
  <2> QED BY <2>1 DEF IsLoop
<1>8. \A i \in 0 .. n : f[i] = IF i = 0 THEN it ELSE ClassUpload!Rasterise(f[i - 1], s[i], most)
  <2> SUFFICES ASSUME NEW i \in 0 .. n
               PROVE  f[i] = IF i = 0 THEN it ELSE ClassUpload!Rasterise(f[i - 1], s[i], most)
    OBVIOUS
  <2>1. CASE i = 0
    BY <1>7, <2>1
  <2>2. CASE i # 0
    <3>1. i \in 1 .. n /\ i - 1 \in 0 .. n
      BY <1>1, <2>2
    <3>2. f[i] = F[<<f[i - 1], i>>] /\ f[i - 1] \in X
      BY <1>7, <2>2, <3>1
    <3> QED BY <1>6, <2>2, <3>1, <3>2
  <2> QED BY <2>1, <2>2
<1>9. f = [i \in 0 .. n |-> IF i = 0 THEN it ELSE ClassUpload!Rasterise(f[i - 1], s[i], most)]
  BY <1>7, <1>8
<1>10. after = [i \in 0 .. n |-> IF i = 0 THEN it ELSE ClassUpload!Rasterise(after[i - 1], s[i], most)]
  BY <1>9
<1> HIDE DEF after
<1>11. after[0] \in X
  <2>1. 0 \in 0 .. n
    BY <1>1
  <2>2. after[0] = it
    BY <1>10, <2>1
  <2> QED BY <1>3, <2>2
<1>12. \A i \in 1 .. n : after[i - 1] \in X => after[i] \in X
  <2> SUFFICES ASSUME NEW i \in 1 .. n, after[i - 1] \in X PROVE after[i] \in X
    OBVIOUS
  <2>1. i \in 0 .. n /\ i # 0
    BY <1>1
  <2>2. after[i] = ClassUpload!Rasterise(after[i - 1], s[i], most)
    BY <1>10, <2>1
  <2> QED BY <1>2, <2>2
<1>13. after[n] \in X
  <2>1. \A i \in 0 .. n : after[i] \in X
    BY <1>1, <1>11, <1>12, AlongLoop
  <2>2. n \in 0 .. n
    BY <1>1
  <2> QED BY <2>1, <2>2
<1> QED BY <1>4, <1>13 DEF X

\* What a hand-in leaves behind: it holds something with numbers of G, within the caps, each under its own name.
Holdable(holds, leaves, files, G) ==
    /\ holds \in Seq(OfNumber(G)) /\ holds # <<>> /\ OneName(holds) /\ leaves <= MAX_PAGES
    /\ files <= MAX_FILES /\ ClassUpload!Bytes(holds) <= MAX_UPLOAD_BYTES
    /\ \A i \in DOMAIN holds : holds[i].ext = "prog" => holds[i].size <= MAX_FILE_BYTES

\* Pages and files have names of their own together: a page and a file have different kinds of name.
LEMMA NamesOfBoth ==
    ASSUME NEW G, NEW it \in Sorts(G)
    PROVE  /\ OneName(it.pages \o it.files)
           /\ \A i \in DOMAIN (it.pages \o it.files) :
                 (it.pages \o it.files)[i].ext = "prog" => (it.pages \o it.files)[i].size <= MAX_FILE_BYTES
<1> DEFINE p == it.pages
           f == it.files
           u == p \o f
           n == Len(p)
<1>1. p \in Seq(OfNumber(G)) /\ f \in Seq(OfNumber(G)) /\ PagesFit(it) /\ FilesFit(it)
  BY DEF Sorts, Sorting
<1>2. /\ n \in Nat
      /\ \A i \in DOMAIN u : (i \in DOMAIN p /\ u[i] = p[i]) \/ (i - n \in DOMAIN f /\ u[i] = f[i - n] /\ i \in Nat)
  <2> HIDE DEF p, f
  <2>1. /\ u \in Seq(OfNumber(G)) /\ n \in Nat /\ Len(u) = n + Len(f) /\ Len(f) \in Nat
        /\ DOMAIN u = 1 .. (n + Len(f)) /\ DOMAIN p = 1 .. n /\ DOMAIN f = 1 .. Len(f)
    BY <1>1
  <2>2. \A i \in 1 .. (n + Len(f)) : u[i] = IF i <= n THEN p[i] ELSE f[i - n]
    BY <1>1
  <2> HIDE DEF u, n
  <2> QED BY <2>1, <2>2
<1>3. \A i \in DOMAIN p : p[i].ext \in {"img", "pdf"}
  BY <1>1 DEF PagesFit, ClassUpload!PAGE_EXTS
<1>4. \A i \in DOMAIN f : f[i].ext = "prog" /\ f[i].size <= MAX_FILE_BYTES
  BY <1>1 DEF FilesFit
<1>5. /\ \A i, j \in DOMAIN p : <<p[i].name, p[i].ext>> = <<p[j].name, p[j].ext>> => i = j
      /\ \A i, j \in DOMAIN f : <<f[i].name, f[i].ext>> = <<f[j].name, f[j].ext>> => i = j
  BY <1>1 DEF PagesFit, FilesFit, OneName
<1> HIDE DEF p, f, u, n
<1>6. ASSUME NEW i \in DOMAIN u, NEW j \in DOMAIN u, <<u[i].name, u[i].ext>> = <<u[j].name, u[j].ext>>
      PROVE  i = j
  <2>1. CASE i \in DOMAIN p /\ u[i] = p[i] /\ j \in DOMAIN p /\ u[j] = p[j]
    BY <1>5, <1>6, <2>1
  <2>2. CASE i \in DOMAIN p /\ u[i] = p[i] /\ j - n \in DOMAIN f /\ u[j] = f[j - n]
    <3>1. u[i].ext = u[j].ext
      BY <1>6
    <3> QED BY <1>3, <1>4, <2>2, <3>1
  <2>3. CASE i - n \in DOMAIN f /\ u[i] = f[i - n] /\ j \in DOMAIN p /\ u[j] = p[j]
    <3>1. u[i].ext = u[j].ext
      BY <1>6
    <3> QED BY <1>3, <1>4, <2>3, <3>1
  <2>4. CASE i - n \in DOMAIN f /\ u[i] = f[i - n] /\ i \in Nat /\ j - n \in DOMAIN f /\ u[j] = f[j - n] /\ j \in Nat
    <3>1. i - n = j - n
      BY <1>5, <1>6, <2>4
    <3> QED BY <1>2, <2>4, <3>1
  <2> QED BY <1>2, <2>1, <2>2, <2>3, <2>4
<1>7. OneName(u)
  BY <1>6 DEF OneName
<1>8. \A i \in DOMAIN u : u[i].ext = "prog" => u[i].size <= MAX_FILE_BYTES
  BY <1>2, <1>3, <1>4
<1> QED BY <1>7, <1>8 DEF u, p, f

\* An upload that is not refused leaves what may be stored.
LEMMA SortedFits ==
    ASSUME NEW G, NEW s \in Seq(Handed(G)), NEW most \in {MAX_HAND_IN_PAGES, MAX_PAGES},
           ClassUpload!Sorted(s, most).error = {}
    PROVE  LET sorted == ClassUpload!Sorted(s, most)
           IN  Holdable(sorted.pages \o sorted.files, sorted.leaves, Len(sorted.files), G)
<1> DEFINE it     == ClassUpload!classify_uploads(s, ClassUpload!Submission)
           pages  == ClassUpload!process_uploads(it.pages, most)
           sorted == ClassUpload!Sorted(s, most)
           error  == IF it.error # {} THEN it.error
                     ELSE IF it.pages \o it.files = <<>> THEN {"no_files"} ELSE pages.error
<1>1. it \in Sorts(G)
  BY ClassifySorts
<1>2. sorted = [error |-> error, leaves |-> pages.stored, pages |-> it.pages, files |-> it.files,
                kind |-> ClassUpload!input_kind(it)]
  BY DEF ClassUpload!Sorted
<1> HIDE DEF it, pages, sorted, error
<1>a. error = {} => it.pages \o it.files # <<>>
  BY DEF error
<1>b. sorted.error = {}
  BY DEF sorted
<1>3. /\ sorted.pages = it.pages /\ sorted.files = it.files /\ sorted.leaves = pages.stored
      /\ it.pages \o it.files # <<>>
  <2>1. /\ sorted.pages = it.pages /\ sorted.files = it.files /\ sorted.leaves = pages.stored /\ sorted.error = error
    BY <1>2
  <2> QED BY <1>a, <1>b, <2>1
<1>4. /\ it.pages \in Seq(OfNumber(G)) /\ it.files \in Seq(OfNumber(G)) /\ FilesFit(it) /\ BytesFit(it)
      /\ OfNumber(G) \subseteq ClassUpload!OuterEntry
  BY <1>1 DEF Sorts, Sorting, OfNumber
<1>5. /\ it.pages \in Seq(ClassUpload!OuterEntry) /\ it.files \in Seq(ClassUpload!OuterEntry)
      /\ it.pages \o it.files \in Seq(OfNumber(G))
  BY <1>4
<1>6. most \in Nat /\ most <= MAX_PAGES /\ MAX_PAGES \in Nat
  BY CapsFit
<1>7. pages.stored <= MAX_PAGES
  <2>1. pages.stored \in 0 .. most
    BY <1>5, <1>6, PagesAreCapped DEF pages
  <2> QED BY <1>6, <2>1
<1>8. ClassUpload!Bytes(it.pages \o it.files) = it.total /\ it.total <= MAX_UPLOAD_BYTES
  BY <1>4, <1>5, BytesOfBoth DEF BytesFit
<1>9. Len(it.files) <= MAX_FILES
  BY <1>4 DEF FilesFit
<1>10. Holdable(it.pages \o it.files, pages.stored, Len(it.files), G)
  BY <1>1, <1>3, <1>5, <1>7, <1>8, <1>9, NamesOfBoth DEF Holdable
<1> QED BY <1>3, <1>10 DEF sorted

\* A sequence of some is one of more.
LEMMA FewerFit ==
    ASSUME NEW S, NEW T, S \subseteq T
    PROVE  Seq(S) \subseteq Seq(T)
OBVIOUS

\* What a class zip has for a student has the student's number.
LEMMA FilesForFit ==
    ASSUME NEW zip \in ClassUpload!OuterEntry, NEW list,
           NEW s \in DOMAIN ClassUpload!match_entries(ClassUpload!Entries(zip), list).matched
    PROVE  ClassUpload!FilesFor(s, zip, list) \in Seq(Handed({s.reg}))
<1> DEFINE entries == ClassUpload!Entries(zip)
           Hits(e) == {t \in list : t.reg = e.reg}
           his     == {e \in ClassUpload!ToSet(entries) : Hits(e) = {s}}
           theirs  == ClassUpload!match_entries(entries, list).matched[s]
<1>1. entries \in Seq(ClassUpload!InnerEntry)
  <2>1. zip.inside \in Seq(ClassUpload!InnerEntry)
    BY DEF ClassUpload!OuterEntry, ClassUpload!EntryWith
  <2>2. \A T : ClassUpload!Those(zip.inside, T) \in Seq(ClassUpload!InnerEntry \cap T)
    BY <2>1, ThoseFit
  <2>3. \A T : Seq(ClassUpload!InnerEntry \cap T) \subseteq Seq(ClassUpload!InnerEntry)
    BY FewerFit
  <2> QED BY <2>2, <2>3 DEF ClassUpload!Entries
<1>2. theirs = ClassUpload!Those(entries, his)
  BY DEF ClassUpload!match_entries
<1>3. ClassUpload!FilesFor(s, zip, list)
        = ClassUpload!Those(theirs, {e \in ClassUpload!ToSet(theirs) : ClassUpload!BulkUsable(e)})
  BY DEF ClassUpload!FilesFor
<1> HIDE DEF theirs, entries
<1>4. theirs \in Seq(ClassUpload!InnerEntry \cap his)
  BY <1>1, <1>2, ThoseFit
<1>5. ClassUpload!InnerEntry \cap his \subseteq Handed({s.reg})
  <2> SUFFICES ASSUME NEW e \in ClassUpload!InnerEntry, Hits(e) = {s} PROVE e \in Handed({s.reg})
    OBVIOUS
  <2>1. s.reg = e.reg
    OBVIOUS
  <2>2. e \in Handed({e.reg})
    BY InnerIsOuter
  <2> QED BY <2>1, <2>2
<1> HIDE DEF his
<1>6. theirs \in Seq(Handed({s.reg}))
  BY <1>4, <1>5, FewerFit
<1>7. \A T : ClassUpload!Those(theirs, T) \in Seq(Handed({s.reg}) \cap T)
  BY <1>6, ThoseFit
<1>8. \A T : Seq(Handed({s.reg}) \cap T) \subseteq Seq(Handed({s.reg}))
  <2>1. \A T : Handed({s.reg}) \cap T \subseteq Handed({s.reg})
    OBVIOUS
  <2> QED BY <2>1, FewerFit
<1> QED BY <1>3, <1>7, <1>8

\* What a student or a teacher hands in has no number.
LEMMA UploadsAreHanded ==
    ASSUME NEW u \in Uploads
    PROVE  u \in Seq(Handed({0}))
<1>1. /\ u \in Seq(ClassUpload!OuterEntry)
      /\ \A e \in ClassUpload!ToSet(u) : e.reg = 0 /\ \A f \in ClassUpload!ToSet(e.inside) : f.reg = 0
  BY UploadConstants DEF ClassUpload!BulkAssumption
<1>2. \A i \in 1 .. Len(u) : u[i] \in ClassUpload!OuterEntry /\ u[i] \in ClassUpload!ToSet(u)
  BY <1>1 DEF ClassUpload!ToSet
<1>3. \A i \in 1 .. Len(u) : u[i].reg = 0 /\ \A j \in DOMAIN u[i].inside : u[i].inside[j].reg = 0
  BY <1>1, <1>2 DEF ClassUpload!ToSet
<1>4. \A i \in 1 .. Len(u) : u[i] \in Handed({0})
  BY <1>2, <1>3 DEF Handed, OfNumber
<1> QED BY <1>1, <1>4

-----------------------------------------------------------------------------
(* Whose files a script holds *)

\* A row of the class list has this number, or none any more.
KeepsRow(s) == s.id \in DOMAIN students /\ students[s.id] \in {0, s.reg}

\* What a request may yet file belongs to a row that is there, and for a class upload to one with that number;
\* what it is about to store was checked.
FilesFair(c, q) ==
    IF c \in Dialog
    THEN /\ q.at \in {"listed", "next", "clearing", "deleting", "checking", "putting"}
              => \A s \in q.list : KeepsRow(s)
         /\ q.at = "putting" => ClassUpload!Sorted(ClassUpload!Theirs(q), MAX_PAGES).error = {}
    ELSE /\ q.at \in {"handing", "storing"} => q.id \in DOMAIN students
         /\ q.at = "storing" => ClassUpload!Sorted(q.upload, q.most).error = {}

\* A script has a row, and holds what a hand-in may leave behind with nobody else's number on it.
HoldsOwn(x) ==
    /\ x.student \in DOMAIN students
    /\ \E reg \in Nat : Holdable(x.holds, x.leaves, x.files, {0, reg}) /\ students[x.student] \in {0, reg}

Owned ==
    /\ \A x \in scripts : HoldsOwn(x)
    /\ \A c \in BulkClient : FilesFair(c, requests[c])

\* No row goes, and none gets another number.
RowsKept == \A id \in DOMAIN students : id \in DOMAIN students' /\ students'[id] \in {0, students[id]}

\* Rows that are kept keep what goes by them.
LEMMA OwnedStays ==
    ASSUME RowsKept, \A x \in scripts' : HoldsOwn(x), \A c \in BulkClient : FilesFair(c, requests'[c])
    PROVE  Owned'
<1>1. \A s : KeepsRow(s) => KeepsRow(s)'
  BY DEF RowsKept, KeepsRow
<1>2. ASSUME NEW x \in scripts'
      PROVE  HoldsOwn(x)'
  <2>1. PICK reg \in Nat : Holdable(x.holds, x.leaves, x.files, {0, reg}) /\ students[x.student] \in {0, reg}
    BY DEF HoldsOwn
  <2>2. x.student \in DOMAIN students
    BY DEF HoldsOwn
  <2>3. x.student \in DOMAIN students' /\ students'[x.student] \in {0, reg}
    BY <2>1, <2>2 DEF RowsKept
  <2> HIDE DEF Holdable
  <2> QED BY <2>1, <2>3 DEF HoldsOwn
<1>3. ASSUME NEW c \in BulkClient
      PROVE  FilesFair(c, requests[c])'
  <2>1. FilesFair(c, requests'[c])
    OBVIOUS
  <2>2. CASE c \in Dialog
    BY <1>1, <2>1, <2>2 DEF FilesFair
  <2>3. CASE c \notin Dialog
    BY <2>1, <2>3 DEF FilesFair, RowsKept
  <2> QED BY <2>2, <2>3
<1> QED BY <1>2, <1>3 DEF Owned

\* A request that moves files for no others, while the class list stays.
LEMMA OwnedGoes ==
    ASSUME UploadInv, Owned, UNCHANGED students, \A x \in scripts' : HoldsOwn(x),
           NEW c \in BulkClient, NEW q, requests' = [requests EXCEPT ![c] = q], FilesFair(c, q)
    PROVE  Owned'
<1>1. \A d \in BulkClient : requests'[d] = IF d = c THEN q ELSE requests[d]
  <2>1. requests = [d \in BulkClient |-> requests[d]]
    BY DEF UploadInv, RequestsFit
  <2> QED BY <2>1
<1>2. \A d \in BulkClient : FilesFair(d, requests'[d])
  <2> SUFFICES ASSUME NEW d \in BulkClient PROVE FilesFair(d, requests'[d])
    OBVIOUS
  <2>1. CASE d = c
    BY <1>1, <2>1
  <2>2. CASE d # c
    BY <1>1, <2>2 DEF Owned
  <2> QED BY <2>1, <2>2
<1>3. RowsKept
  BY DEF RowsKept
<1> QED BY <1>2, <1>3, OwnedStays

\* A script that comes holds what was sorted for its student.
LEMMA InsertOwn ==
    ASSUME UploadInv, Owned, NEW id \in Ids, NEW sorted, ClassUpload!Insert(id, sorted),
           id \in DOMAIN students, NEW reg \in Nat, students[id] \in {0, reg},
           Holdable(sorted.pages \o sorted.files, sorted.leaves, Len(sorted.files), {0, reg})
    PROVE  \A x \in scripts' : HoldsOwn(x)
<1>1. PICK n \in 1 .. MaxScripts :
        scripts' = scripts \cup
              {[id |-> <<id, n>>, student |-> id, running |-> FALSE, leaves |-> sorted.leaves,
                holds |-> sorted.pages \o sorted.files, files |-> Len(sorted.files), kind |-> sorted.kind]}
  BY DEF ClassUpload!Insert
<1> DEFINE new == [id |-> <<id, n>>, student |-> id, running |-> FALSE, leaves |-> sorted.leaves,
                   holds |-> sorted.pages \o sorted.files, files |-> Len(sorted.files), kind |-> sorted.kind]
<1>2. /\ new.student = id /\ new.leaves = sorted.leaves /\ new.holds = sorted.pages \o sorted.files
      /\ new.files = Len(sorted.files)
  OBVIOUS
<1>3. scripts' = scripts \cup {new}
  BY <1>1
<1> HIDE DEF new
<1>4. HoldsOwn(new)
  BY <1>2 DEF HoldsOwn
<1> QED BY <1>3, <1>4 DEF Owned

\* More numbers take in more entries.
LEMMA HandedMore ==
    ASSUME NEW G, NEW H, G \subseteq H
    PROVE  Handed(G) \subseteq Handed(H)
BY DEF Handed, OfNumber

\* A student's own hand-in, or one that is taken back, leaves scripts with their own files.
LEMMA HandOwns ==
    ASSUME UploadInv, Owned, NEW c \in BulkClient \ Dialog,
           \/ \E id \in 1 .. MaxRows, u \in Uploads :
                 \/ ClassUpload!Upload(c, id, u, MAX_HAND_IN_PAGES)
                 \/ ClassUpload!Upload(c, id, u, MAX_PAGES)
           \/ ClassUpload!UploadCheck(c) \/ ClassUpload!UploadStore(c)
           \/ (\E id \in 1 .. MaxRows : ClassUpload!TakeBackAsked(c, id)) \/ ClassUpload!TakeBack(c)
    PROVE  Owned'
<1> DEFINE r == requests[c]
<1>0. /\ ClassFits /\ ScriptsFit /\ HandFits(r) /\ (\A x \in scripts : HoldsOwn(x)) /\ FilesFair(c, r)
  BY DEF UploadInv, RequestsFit, RequestFits, Owned
<1>a. FilesFair(c, NoRequestYet)
  BY DEF FilesFair, NoRequestYet, ClassUpload!NoRequest
<1>b. \A F : FilesFair(c, [at |-> "removing", found |-> F])
  BY DEF FilesFair
<1>1. ASSUME NEW id \in 1 .. MaxRows, NEW u \in Uploads, NEW most, ClassUpload!Upload(c, id, u, most)
      PROVE  Owned'
  <2> DEFINE q == [at |-> "handing", id |-> id, upload |-> u, most |-> most]
  <2>1. requests' = [requests EXCEPT ![c] = q] /\ UNCHANGED <<students, scripts>> /\ ClassUpload!OnList(id)
    BY <1>1 DEF ClassUpload!Upload, ClassUpload!Untouched
  <2>2. FilesFair(c, q)
    BY <2>1 DEF FilesFair, ClassUpload!OnList
  <2> HIDE DEF q
  <2> QED BY <1>0, <2>1, <2>2, OwnedGoes
<1>2. ASSUME r.at \in {"handing", "storing"}
      PROVE  r \in HandRequest /\ r.id \in DOMAIN students
  <2>1. ASSUME NEW F, r = [at |-> "removing", found |-> F]
        PROVE  FALSE
    BY <1>2, <2>1
  <2>2. r # NoRequestYet
    BY <1>2 DEF NoRequestYet, ClassUpload!NoRequest
  <2> QED BY <1>0, <1>2, <2>1, <2>2 DEF HandFits, FilesFair
<1>3. CASE ClassUpload!UploadCheck(c)
  <2>1. r \in HandRequest /\ r.id \in DOMAIN students /\ UNCHANGED <<students, scripts>>
    BY <1>2, <1>3 DEF ClassUpload!UploadCheck, ClassUpload!Untouched
  <2> DEFINE q == [r EXCEPT !.at = "storing"]
  <2>2. q.at = "storing" /\ q.id = r.id /\ q.upload = r.upload /\ q.most = r.most
    BY <2>1 DEF HandRequest
  <2>3. CASE /\ requests' = [requests EXCEPT ![c] = q]
             /\ ~ClassUpload!RefusedNow(r.id, ClassUpload!Sorted(r.upload, r.most))
    <3>1. ClassUpload!Sorted(q.upload, q.most).error = {}
      BY <2>2, <2>3 DEF ClassUpload!RefusedNow
    <3> HIDE DEF q
    <3>2. FilesFair(c, q)
      BY <2>1, <2>2, <3>1 DEF FilesFair
    <3> QED BY <1>0, <2>1, <2>3, <3>2, OwnedGoes
  <2>4. CASE requests' = [requests EXCEPT ![c] = NoRequestYet]
    BY <1>0, <1>a, <2>1, <2>4, OwnedGoes
  <2> QED BY <1>3, <2>3, <2>4 DEF ClassUpload!UploadCheck, ClassUpload!Ends, ClassUpload!Goes, NoRequestYet
<1>4. CASE ClassUpload!UploadStore(c)
  <2> DEFINE id     == r.id
             sorted == ClassUpload!Sorted(r.upload, r.most)
  <2>1. /\ r.at = "storing" /\ id \in Ids /\ id \in DOMAIN students /\ r.upload \in Uploads
        /\ r.most \in {MAX_HAND_IN_PAGES, MAX_PAGES}
    BY <1>2, <1>4 DEF ClassUpload!UploadStore, HandRequest
  <2>2. requests' = [requests EXCEPT ![c] = NoRequestYet] /\ UNCHANGED students
    BY <1>4 DEF ClassUpload!UploadStore, ClassUpload!Ends, NoRequestYet
  <2>3. sorted.error = {}
    BY <1>0, <2>1 DEF FilesFair
  <2>4. students[id] \in Nat
    BY <1>0, <2>1 DEF ClassFits
  <2>5. Holdable(sorted.pages \o sorted.files, sorted.leaves, Len(sorted.files), {0, students[id]})
    <3>1. r.upload \in Seq(Handed({0, students[id]}))
      <4>1. r.upload \in Seq(Handed({0}))
        BY <2>1, UploadsAreHanded
      <4>2. Handed({0}) \subseteq Handed({0, students[id]})
        BY HandedMore
      <4> HIDE DEF r, id
      <4> QED BY <4>1, <4>2, FewerFit
    <3> QED BY <2>1, <2>3, <3>1, SortedFits
  <2>6. \A x \in scripts' : HoldsOwn(x)
    <3>1. CASE ClassUpload!Insert(id, sorted)
      <4> HIDE DEF id, sorted
      <4> QED BY <2>1, <2>4, <2>5, <3>1, InsertOwn
    <3>2. CASE UNCHANGED scripts
      BY <1>0, <3>2
    <3> QED BY <1>4, <3>1, <3>2 DEF ClassUpload!UploadStore
  <2> QED BY <1>0, <1>a, <2>2, <2>6, OwnedGoes
<1>5. ASSUME NEW id \in 1 .. MaxRows, ClassUpload!TakeBackAsked(c, id)
      PROVE  Owned'
  <2>1. /\ requests' = [requests EXCEPT ![c] = [at |-> "removing", found |-> ClassUpload!Found(id)]]
        /\ UNCHANGED <<students, scripts>>
    BY <1>5 DEF ClassUpload!TakeBackAsked, ClassUpload!Untouched
  <2> QED BY <1>0, <1>b, <2>1, OwnedGoes
<1>6. CASE ClassUpload!TakeBack(c)
  <2>1. /\ requests' = [requests EXCEPT ![c] = NoRequestYet] /\ UNCHANGED students
        /\ scripts' = ClassUpload!Without(requests[c].found)
    BY <1>6 DEF ClassUpload!TakeBack, ClassUpload!Ends, NoRequestYet
  <2>2. scripts' \subseteq scripts
    BY <1>0, <2>1, WithoutFits
  <2> QED BY <1>0, <1>a, <2>1, <2>2, OwnedGoes
<1> QED BY <1>1, <1>3, <1>4, <1>5, <1>6

\* Where an upload is after a step of its own that stores nothing.
LEMMA NotPutting ==
    ASSUME NEW r \in BulkRequest
    PROVE  /\ r.at # "putting" => ClassUpload!Student(r).at # "putting"
           /\ ClassUpload!Failed(r).at = "next" /\ ClassUpload!Created(r).at = "next"
           /\ \A F : [r EXCEPT !.at = "deleting", !.found = F].at = "deleting"
           /\ \A X : [ClassUpload!Cleared(r) EXCEPT !.found = {}, !.took = @ \cup X].at = "checking"
<1>1. ClassUpload!Done(r).at = "next"
  BY DEF ClassUpload!Done, BulkRequest
<1>2. ClassUpload!Failed(r).at = "next" /\ ClassUpload!Created(r).at = "next" /\ ClassUpload!Skipped(r).at = "next"
  BY <1>1 DEF ClassUpload!Failed, ClassUpload!Created, ClassUpload!Skipped, ClassUpload!Done, BulkRequest
<1>3. ClassUpload!TakenOn(r).at \in {"clearing", "checking"}
  BY DEF ClassUpload!TakenOn, BulkRequest
<1>4. ClassUpload!Student(r).at # "putting"
  BY <1>2, <1>3 DEF ClassUpload!Student
<1>5. \A F : [r EXCEPT !.at = "deleting", !.found = F].at = "deleting"
  BY DEF BulkRequest
<1>6. \A X : [ClassUpload!Cleared(r) EXCEPT !.found = {}, !.took = @ \cup X].at = "checking"
  BY DEF BulkRequest, ClassUpload!Cleared
<1> QED BY <1>2, <1>4, <1>5, <1>6

\* So does a class upload.
LEMMA DialogOwns ==
    ASSUME UploadInv, Owned, NEW c \in Dialog,
           \/ \E zip \in ClassZips : ClassUpload!BulkPreview(c, zip)
           \/ \E replace \in BOOLEAN : ClassUpload!BulkCommit(c, replace)
           \/ ClassUpload!BulkBegins(c) \/ ClassUpload!BulkStudent(c) \/ ClassUpload!BulkClear(c)
           \/ ClassUpload!BulkRemove(c) \/ ClassUpload!BulkCheck(c) \/ ClassUpload!BulkStore(c)
           \/ ClassUpload!BulkRead(c)
    PROVE  Owned'
<1> DEFINE r == requests[c]
           begun == {"next", "clearing", "deleting", "checking", "putting"}
<1>0. /\ ClassFits /\ ScriptsFit /\ RequestsFit /\ c \in BulkClient /\ (\A x \in scripts : HoldsOwn(x))
      /\ FilesFair(c, r)
  BY UploadConstants DEF UploadInv, ClassUpload!BulkAssumption, Owned
<1>a. ASSUME NEW q, requests' = [requests EXCEPT ![c] = q], q.list = r.list, r.at \in begun, q.at # "putting",
             UNCHANGED students, \A x \in scripts' : HoldsOwn(x)
      PROVE  Owned'
  <2>1. FilesFair(c, q)
    BY <1>0, <1>a DEF FilesFair
  <2> QED BY <1>0, <1>a, <2>1, OwnedGoes
<1>b. ASSUME r.at \in begun
      PROVE  UploadSound(r) /\ r \in BulkRequest
  BY <1>0, <1>b, BegunIsSound DEF UploadSound, UploadFits
<1>1. ASSUME NEW zip \in ClassZips, ClassUpload!BulkPreview(c, zip)
      PROVE  Owned'
  <2>1. PICK lines : requests' = [requests EXCEPT ![c] = [at |-> "shown", zip |-> zip, lines |-> lines]]
    BY <1>1 DEF ClassUpload!BulkPreview
  <2>2. FilesFair(c, [at |-> "shown", zip |-> zip, lines |-> lines])
    BY DEF FilesFair
  <2>3. UNCHANGED <<students, scripts>>
    BY <1>1 DEF ClassUpload!BulkPreview, ClassUpload!Untouched
  <2> QED BY <1>0, <2>1, <2>2, <2>3, OwnedGoes
<1>2. ASSUME NEW replace \in BOOLEAN, ClassUpload!BulkCommit(c, replace)
      PROVE  Owned'
  <2> DEFINE q == [at |-> "listed", zip |-> r.zip, replace |-> replace, list |-> ClassUpload!Listed]
  <2>1. requests' = [requests EXCEPT ![c] = q] /\ UNCHANGED <<students, scripts>>
    BY <1>2 DEF ClassUpload!BulkCommit, ClassUpload!Untouched
  <2>2. \A s \in ClassUpload!Listed : KeepsRow(s)
    BY DEF ClassUpload!Listed, KeepsRow
  <2>3. FilesFair(c, q)
    BY <2>2 DEF FilesFair
  <2> HIDE DEF q
  <2> QED BY <1>0, <2>1, <2>3, OwnedGoes
<1>3. CASE ClassUpload!BulkBegins(c)
  <2>1. r.at = "listed" /\ UNCHANGED <<students, scripts>>
    BY <1>3 DEF ClassUpload!BulkBegins, ClassUpload!Untouched
  <2> DEFINE q == [at |-> "next", zip |-> r.zip, replace |-> r.replace, list |-> r.list,
                   had |-> ClassUpload!HandedInIds, todo |-> Plan(r), removed |-> FALSE,
                   created |-> {}, skipped |-> {}, failed |-> {}, took |-> {}, found |-> {}]
  <2>2. requests' = [requests EXCEPT ![c] = q]
    BY <1>3 DEF ClassUpload!BulkBegins, Plan
  <2>3. q.list = r.list /\ q.at = "next"
    OBVIOUS
  <2> HIDE DEF q
  <2>4. FilesFair(c, q)
    BY <1>0, <2>1, <2>3 DEF FilesFair
  <2> QED BY <1>0, <2>1, <2>2, <2>4, OwnedGoes
<1>4. CASE ClassUpload!BulkStudent(c)
  <2>1. /\ r.at = "next" /\ requests' = [requests EXCEPT ![c] = ClassUpload!Student(r)]
        /\ UNCHANGED <<students, scripts>>
    BY <1>4 DEF ClassUpload!BulkStudent, ClassUpload!Becomes, ClassUpload!Untouched
  <2>2. ClassUpload!Student(r).list = r.list /\ ClassUpload!Student(r).at # "putting"
    BY <1>b, <2>1, ListKept, NotPutting
  <2> QED BY <1>0, <1>a, <2>1, <2>2
<1>5. CASE ClassUpload!BulkClear(c)
  <2>1. r.at = "clearing" /\ UNCHANGED <<students, scripts>>
    BY <1>5 DEF ClassUpload!BulkClear, ClassUpload!Untouched
  <2> DEFINE q == [r EXCEPT !.at = "deleting", !.found = ClassUpload!Found(ClassUpload!Now(r).id)]
  <2>2. requests' = [requests EXCEPT ![c] = ClassUpload!Failed(r)] \/ requests' = [requests EXCEPT ![c] = q]
    BY <1>5 DEF ClassUpload!BulkClear, ClassUpload!Becomes
  <2>3. ClassUpload!Failed(r).list = r.list /\ ClassUpload!Failed(r).at # "putting"
    BY <1>b, <2>1, ListKept, NotPutting
  <2>4. q.list = r.list /\ q.at # "putting"
    BY <1>b, <2>1, ListKept, NotPutting
  <2> HIDE DEF q
  <2> QED BY <1>0, <1>a, <2>1, <2>2, <2>3, <2>4
<1>6. CASE ClassUpload!BulkRemove(c)
  <2>1. r.at = "deleting" /\ scripts' = ClassUpload!Without(r.found) /\ UNCHANGED students
    BY <1>6 DEF ClassUpload!BulkRemove
  <2> DEFINE X == {x.student : x \in scripts \ ClassUpload!Without(r.found)}
             q == [ClassUpload!Cleared(r) EXCEPT !.found = {}, !.took = @ \cup X]
  <2>2. requests' = [requests EXCEPT ![c] = q]
    BY <1>6 DEF ClassUpload!BulkRemove, ClassUpload!Becomes
  <2> HIDE DEF X
  <2>3. q.list = r.list /\ q.at = "checking"
    BY <1>b, <2>1, ListKept, NotPutting
  <2>4. scripts' \subseteq scripts
    BY <1>0, <2>1, WithoutFits
  <2> HIDE DEF q
  <2> QED BY <1>0, <1>a, <2>1, <2>2, <2>3, <2>4
<1>7. CASE ClassUpload!BulkCheck(c)
  <2>1. r.at = "checking" /\ UNCHANGED <<students, scripts>>
    BY <1>7 DEF ClassUpload!BulkCheck, ClassUpload!Untouched
  <2> DEFINE q == [r EXCEPT !.at = "putting"]
  <2>2. CASE requests' = [requests EXCEPT ![c] = ClassUpload!Failed(r)]
    <3>1. ClassUpload!Failed(r).list = r.list /\ ClassUpload!Failed(r).at # "putting"
      BY <1>b, <2>1, ListKept, NotPutting
    <3> QED BY <1>0, <1>a, <2>1, <2>2, <3>1
  <2>3. CASE /\ requests' = [requests EXCEPT ![c] = q]
             /\ ~ClassUpload!RefusedNow(ClassUpload!Now(r).id, ClassUpload!Sorted(ClassUpload!Theirs(r), MAX_PAGES))
    <3>1. q.at = "putting" /\ q.list = r.list /\ q.todo = r.todo /\ q.zip = r.zip
      BY <1>b, <2>1 DEF BulkRequest
    <3> HIDE DEF q
    <3>2. ClassUpload!Theirs(q) = ClassUpload!Theirs(r)
      BY <3>1 DEF ClassUpload!Theirs, ClassUpload!Now
    <3>3. ClassUpload!Sorted(ClassUpload!Theirs(q), MAX_PAGES).error = {}
      BY <2>3, <3>2 DEF ClassUpload!RefusedNow
    <3>4. FilesFair(c, q)
      BY <1>0, <2>1, <3>1, <3>3 DEF FilesFair
    <3> QED BY <1>0, <2>1, <2>3, <3>4, OwnedGoes
  <2> QED BY <1>7, <2>2, <2>3 DEF ClassUpload!BulkCheck, ClassUpload!Becomes
<1>8. CASE ClassUpload!BulkStore(c)
  <2> DEFINE s      == Now(r)
             sorted == ClassUpload!Sorted(ClassUpload!Theirs(r), MAX_PAGES)
  <2>1. r.at = "putting" /\ UNCHANGED students
    BY <1>8 DEF ClassUpload!BulkStore
  <2>2. UploadSound(r) /\ r \in BulkRequest /\ r.todo # {}
    <3>1. UploadSound(r) /\ r \in BulkRequest
      BY <1>b, <2>1
    <3> HIDE DEF r
    <3> QED BY <2>1, <3>1 DEF UploadSound, UploadFits
  <2>3. s \in Plan(r) /\ s \in r.list /\ s \in Pupil /\ s.id \in Ids
    <3> HIDE DEF r
    <3> QED BY <2>2, NowIsToDo DEF UploadSound
  <2>4. KeepsRow(s) /\ sorted.error = {}
    BY <1>0, <2>1, <2>3 DEF FilesFair
  <2>5. s.reg \in Nat /\ s.id \in DOMAIN students /\ students[s.id] \in {0, s.reg}
    BY <2>3, <2>4 DEF KeepsRow, Pupil
  <2>6. Holdable(sorted.pages \o sorted.files, sorted.leaves, Len(sorted.files), {0, s.reg})
    <3>1. r.zip \in ClassUpload!OuterEntry
      <4>1. r.zip \in ClassZips /\ ClassZips \subseteq ClassUpload!OuterEntry
        BY <2>2, UploadConstants DEF BulkRequest, ClassUpload!BulkAssumption
      <4> QED BY <4>1
    <3>2. ClassUpload!Theirs(r) = ClassUpload!FilesFor(s, r.zip, r.list)
      BY DEF ClassUpload!Theirs, Now
    <3>3. ClassUpload!Theirs(r) \in Seq(Handed({s.reg}))
      <4> HIDE DEF s, r
      <4> QED BY <2>3, <3>1, <3>2, FilesForFit DEF Plan
    <3>4. ClassUpload!Theirs(r) \in Seq(Handed({0, s.reg}))
      <4>1. Handed({s.reg}) \subseteq Handed({0, s.reg})
        BY HandedMore
      <4> HIDE DEF s, r
      <4> QED BY <3>3, <4>1, FewerFit
    <3> HIDE DEF s, r
    <3> QED BY <2>4, <3>4, SortedFits
  <2>7. \A x \in scripts' : HoldsOwn(x)
    <3>1. CASE ClassUpload!Insert(s.id, sorted)
      <4> HIDE DEF s, sorted, r
      <4> QED BY <2>3, <2>5, <2>6, <3>1, InsertOwn
    <3>2. CASE UNCHANGED scripts
      BY <1>0, <3>2
    <3> QED BY <1>8, <3>1, <3>2 DEF ClassUpload!BulkStore, Now
  <2>8. \/ requests' = [requests EXCEPT ![c] = ClassUpload!Failed(r)]
        \/ requests' = [requests EXCEPT ![c] = ClassUpload!Created(r)]
    BY <1>8 DEF ClassUpload!BulkStore, ClassUpload!Becomes
  <2>9. /\ ClassUpload!Failed(r).list = r.list /\ ClassUpload!Created(r).list = r.list
        /\ ClassUpload!Failed(r).at # "putting" /\ ClassUpload!Created(r).at # "putting"
    BY <2>2, ListKept, NotPutting
  <2> HIDE DEF s, sorted
  <2> QED BY <1>0, <1>a, <2>1, <2>7, <2>8, <2>9
<1>9. CASE ClassUpload!BulkRead(c)
  <2>1. requests' = [requests EXCEPT ![c] = NoRequestYet] /\ UNCHANGED <<students, scripts>>
    BY <1>9 DEF ClassUpload!BulkRead, ClassUpload!Ends, ClassUpload!Untouched, NoRequestYet
  <2>2. FilesFair(c, NoRequestYet)
    BY DEF FilesFair, NoRequestYet, ClassUpload!NoRequest
  <2> QED BY <1>0, <2>1, <2>2, OwnedGoes
<1> HIDE DEF r
<1> QED BY <1>1, <1>2, <1>3, <1>4, <1>5, <1>6, <1>7, <1>8, <1>9

\* So does a class list that is replaced: a row keeps its number or is struck out.
LEMMA OwnedStep ==
    ASSUME UploadInv, Owned, ClassUpload!BulkNext \/ UNCHANGED bulkVars
    PROVE  Owned'
<1>0. /\ ClassFits /\ ScriptsFit /\ (\A x \in scripts : HoldsOwn(x))
      /\ \A c \in BulkClient : FilesFair(c, requests[c])
  BY DEF UploadInv, Owned
<1>a. UNCHANGED students => RowsKept
  BY DEF RowsKept
<1>1. CASE UNCHANGED bulkVars
  <2>1. UNCHANGED <<students, scripts, requests>>
    BY <1>1 DEF bulkVars
  <2> QED BY <1>0, <1>a, <2>1, OwnedStays
<1>2. ASSUME NEW list \in Lists, ClassUpload!ReplaceClasslist(list)
      PROVE  Owned'
  <2>1. /\ students' = ClassUpload!RowsAfter(list) /\ UNCHANGED <<scripts, requests>> /\ ClassUpload!Clean(list)
    BY <1>2 DEF ClassUpload!ReplaceClasslist
  <2>2. RowsKept
    BY <1>0, <2>1, RowsAfterFit DEF RowsKept
  <2> QED BY <1>0, <2>1, <2>2, OwnedStays
<1>3. CASE ClassUpload!TemplateGoes
  <2>1. UNCHANGED <<students, scripts, requests>>
    BY <1>3 DEF ClassUpload!TemplateGoes
  <2> QED BY <1>0, <1>a, <2>1, OwnedStays
<1>4. ASSUME NEW x \in scripts, NEW running \in BOOLEAN, ClassUpload!Runs(x, running)
      PROVE  Owned'
  <2>1. UNCHANGED <<students, requests>>
    BY <1>4 DEF ClassUpload!Runs
  <2>2. ASSUME NEW y \in scripts'
        PROVE  HoldsOwn(y)
    <3>1. PICK z \in scripts : y.student = z.student /\ y.holds = z.holds /\ y.leaves = z.leaves /\ y.files = z.files
      BY <1>0, <1>4, RunsFits
    <3>2. HoldsOwn(z)
      BY <1>0
    <3> QED BY <3>1, <3>2 DEF HoldsOwn
  <2> QED BY <1>0, <1>a, <2>1, <2>2, OwnedStays
<1>5. CASE ClassUpload!Crash
  <2>1. requests' = [c \in BulkClient |-> NoRequestYet] /\ UNCHANGED <<students, scripts>>
    BY <1>5 DEF ClassUpload!Crash, ClassUpload!Untouched, NoRequestYet
  <2>2. \A c \in BulkClient : FilesFair(c, requests'[c])
    BY <2>1 DEF FilesFair, NoRequestYet, ClassUpload!NoRequest
  <2> QED BY <1>0, <1>a, <2>1, <2>2, OwnedStays
<1>6. CASE ClassUpload!BulkNext
  BY <1>2, <1>3, <1>4, <1>5, <1>6, HandOwns, DialogOwns
  DEF ClassUpload!BulkNext, ClassUpload!StudentUpload, ClassUpload!TeacherUpload
<1> QED BY <1>1, <1>6

\* What a request is about to store was checked: it has no zip in it that unpacked past the cap.
LEMMA StoresUnpacked ==
    ASSUME UploadInv, Owned, NEW c \in BulkClient \ Dialog, requests[c].at = "storing",
           NEW e \in ClassUpload!ToSet(requests[c].upload), e.ext = "zip"
    PROVE  ClassUpload!Bytes(e.inside) <= MAX_ZIP_DECOMPRESSED
<1> DEFINE r == requests[c]
<1>1. HandFits(r) /\ FilesFair(c, r)
  BY DEF UploadInv, RequestsFit, RequestFits, Owned
<1>2. r \in HandRequest
  <2>1. ASSUME NEW F, r = [at |-> "removing", found |-> F]
        PROVE  FALSE
    BY <2>1
  <2>2. r # NoRequestYet
    BY DEF NoRequestYet, ClassUpload!NoRequest
  <2> QED BY <1>1, <2>1, <2>2 DEF HandFits
<1>3. r.upload \in Seq(Handed({0})) /\ ClassUpload!Sorted(r.upload, r.most).error = {}
  BY <1>1, <1>2, UploadsAreHanded DEF HandRequest, FilesFair
<1>4. ClassUpload!classify_uploads(r.upload, ClassUpload!Submission).error = {}
  BY <1>3 DEF ClassUpload!Sorted
<1>5. PICK j \in 1 .. Len(r.upload) : r.upload[j] = e
  BY <1>3 DEF ClassUpload!ToSet
<1>6. ~(ClassUpload!Bytes(e.inside) > MAX_ZIP_DECOMPRESSED)
  <2> HIDE DEF r
  <2> QED BY <1>3, <1>4, <1>5, ZipsAreCapped
<1>7. ClassUpload!Bytes(e.inside) \in Nat /\ MAX_ZIP_DECOMPRESSED \in Nat
  <2>1. e \in ClassUpload!OuterEntry
    BY <1>3, <1>5 DEF Handed, OfNumber
  <2>2. e.inside \in Seq(ClassUpload!OuterEntry)
    <3>1. e.inside \in Seq(ClassUpload!InnerEntry)
      BY <2>1 DEF ClassUpload!OuterEntry, ClassUpload!EntryWith
    <3>2. ClassUpload!InnerEntry \subseteq ClassUpload!OuterEntry
      BY InnerIsOuter
    <3> QED BY <3>1, <3>2, FewerFit
  <2>3. ClassUpload!Bytes(e.inside) \in Nat
    BY <2>2, BytesOfBoth
  <2> QED BY <2>3, CapsFit
<1> QED BY <1>6, <1>7

\* Whatever class lists are sent, uploads run together or requests die in between: a script holds no file with
\* another student's number, and what it holds is something, within the caps of one submission, each page and file
\* under a name of its own.
THEOREM FilesAreOwn == OfficeSpec => [](ClassUpload!FilesAreTheirOwn /\ ClassUpload!StoredWithinCaps)
<1>1. OfficeInit => Owned
  <2> SUFFICES ASSUME ClassUpload!BulkInit PROVE Owned
    BY DEF OfficeInit
  <2>1. scripts = {} /\ \A c \in BulkClient : requests[c] = NoRequestYet
    BY DEF ClassUpload!BulkInit, NoRequestYet
  <2>2. \A c \in BulkClient : FilesFair(c, requests[c])
    BY <2>1 DEF FilesFair, NoRequestYet, ClassUpload!NoRequest
  <2> QED BY <2>1, <2>2 DEF Owned
<1>2. UploadInv /\ Owned /\ [OfficeNext]_<<which, scriptVars, choiceVars, bulkVars>> => Owned'
  BY OwnedStep DEF OfficeNext
<1>3. UploadInv /\ Owned => ClassUpload!FilesAreTheirOwn
  <2> SUFFICES ASSUME UploadInv, Owned, NEW x \in scripts, ClassUpload!OnList(x.student), NEW i \in DOMAIN x.holds
               PROVE  x.holds[i].reg \in {0, students[x.student]}
    BY DEF ClassUpload!FilesAreTheirOwn
  <2>1. PICK reg \in Nat : Holdable(x.holds, x.leaves, x.files, {0, reg}) /\ students[x.student] \in {0, reg}
    BY DEF Owned, HoldsOwn
  <2>2. x.holds[i].reg \in {0, reg}
    <3>1. x.holds[i] \in OfNumber({0, reg})
      BY <2>1 DEF Holdable
    <3> QED BY <3>1 DEF OfNumber
  <2> QED BY <2>1, <2>2 DEF ClassUpload!OnList
<1>4. UploadInv /\ Owned => ClassUpload!StoredWithinCaps
  <2> SUFFICES ASSUME UploadInv, Owned PROVE ClassUpload!StoredWithinCaps
    OBVIOUS
  <2>1. \A c \in BulkClient \ Dialog : requests[c].at = "storing" =>
           \A e \in ClassUpload!ToSet(requests[c].upload) :
              e.ext = "zip" => ClassUpload!Bytes(e.inside) <= MAX_ZIP_DECOMPRESSED
    BY StoresUnpacked
  <2> QED BY <2>1 DEF Owned, HoldsOwn, Holdable, OneName, ClassUpload!StoredWithinCaps
<1> QED BY <1>1, <1>2, <1>3, <1>4, OfficeKeepsUploads, PTL DEF OfficeSpec

\* Every script's files are its student's own and could have been handed in, and no class list takes away a student
\* who has a script, whatever lists replace one another while uploads are under way.
THEOREM ScriptsAreOwn == OfficeSpec => []ScriptsAreTheirs
<1>1. /\ ClassUpload!FilesAreTheirOwn /\ ClassUpload!StoredWithinCaps /\ ClassUpload!NoneStruckWithWork
      => ScriptsAreTheirs
  BY DEF ScriptsAreTheirs, ClassUpload!ScriptsAreTheirs
<1> QED BY <1>1, FilesAreOwn, ScriptsAreListed, PTL

-----------------------------------------------------------------------------
(* The three parts together *)

\* The variables of the three parts of the office keep their types: a script's, whose teacher's answers are
\* numbers to parts that are no longer asked about, the settings', and the class's.
THEOREM OfficeTypesHold == OfficeSpec => []OfficeTypeOK
<1>1. OfficeInit => ChoiceInit
  BY DEF OfficeInit
<1>2. [OfficeNext]_<<which, scriptVars, choiceVars, bulkVars>> => [ChoiceNext]_choiceVars
  BY DEF OfficeNext
<1>3. OfficeSpec => []ChoiceTypeOK
  BY <1>1, <1>2, ChoiceTypeCorrect, PTL DEF OfficeSpec, ChoiceSpec
<1>4. StoredSound => ScriptTypeOK
  BY DEF StoredSound
<1>5. ScriptTypeOK /\ ChoiceTypeOK /\ ClassUpload!BulkTypeOK => OfficeTypeOK
  BY DEF OfficeTypeOK
<1> QED BY <1>3, <1>4, <1>5, OfficeKeepsStored, UploadTypes, PTL
=============================================================================
