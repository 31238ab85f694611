-------------------------- MODULE CorrectionProofs --------------------------
(***************************************************************************)
(* Theorems about StudentCorrections, for any number of scripts, parts,    *)
(* requests, jobs and workers, overlapping or not: its types; that a       *)
(* correction is whole at every stage; that decisions stay; that a student *)
(* never sees a correction go back; and that one that is sent has a job.   *)
(***************************************************************************)
EXTENDS StudentCorrections, JobStoreProofs

-----------------------------------------------------------------------------
(* The inductive invariant *)

Deciding(r) == request[r].op \in {"accept", "override"}
Gone(s)     == status[s] = "deleted"

\* A request that is not idle is about a correction.
RequestIsAbout == \A r \in Client : request[r].op # "idle" => request[r].about \in Correction

\* A correction goes with its script, which never comes back: its row may be gone while its job
\* and the requests about it are not, but then no row will take its place.
RowsFollowScript ==
    /\ \A c \in Correction : Sent(c) => Exists(c[1])
    /\ \A j \in Job : about[j] # None => Sent(about[j]) \/ Gone(about[j][1])
    /\ \A j \in Job : job[j].state = "free" => about[j] = None
    /\ \A r \in Client : Deciding(r) => Sent(request[r].about) \/ Gone(request[r].about[1])

\* The marks behind a decision that is made, and behind one that has been checked but not written.
DecisionsHaveMarks ==
    /\ \A c \in Correction :
        /\ corr[c].state = "accepted" => corr[c].remark # None
        /\ corr[c].state = "overridden" => corr[c].teacher # None
    /\ \A r \in Client :
        /\ request[r].op = "accept" /\ Sent(request[r].about) => corr[request[r].about].remark # None
        /\ request[r].op = "override" => request[r].total # None

\* Nobody is deciding a correction that is final.  (The teacher waits for each decision.)
NoneDecidesFinal == \A r \in Client : Deciding(r) => ~Final(request[r].about)

CorrInv ==
    /\ CorrTypeOK /\ HandOK
    /\ RequestIsAbout /\ RowsFollowScript /\ DecisionsHaveMarks
    /\ OneRemarkJob /\ ReleasedHasMark

SerialInv == NoneDecidesFinal /\ PhotoGoesWhenFinal

-----------------------------------------------------------------------------
(* The queue underneath *)

\* Each way a re-mark step touches the queue is one of the queue's own.
LEMMA RemarkIsJobStep ==
    ASSUME NEW w \in Worker, RemarkStep(w) \/ WorkerProcess(w)
    PROVE  [JobNext]_jobVars
<1>1. CASE Begin(w)
  BY <1>1 DEF Begin, JobNext, RunnerStep
<1>2. CASE RecordError(w)
  BY <1>2 DEF RecordError
<1>3. CASE Raise(w)
  BY <1>3 DEF Raise, JobNext, RunnerStep
<1>4. CASE Settle(w)
  BY <1>4 DEF Settle, JobNext
<1>5. ASSUME NEW total \in Mark, NEW max \in SchemeMax, Store(w, total, max)
      PROVE  [JobNext]_jobVars
  BY <1>5 DEF Store, JobNext, RunnerStep
<1>6. CASE WorkerProcess(w)
  BY <1>6 DEF WorkerProcess, JobNext
<1> QED BY <1>1, <1>2, <1>3, <1>4, <1>5, <1>6 DEF RemarkStep

\* Every step of a correction's life is a step of the queue, or leaves the queue alone.
LEMMA CorrStepIsJobStep ==
    ASSUME [CorrNext]_corrVars
    PROVE  [JobNext]_jobVars
<1>1. ASSUME NEW s \in Submission, ScriptComes(s) \/ ScriptGoes(s)
      PROVE  [JobNext]_jobVars
  BY <1>1 DEF ScriptComes, ScriptGoes, JobNext
<1>2. ASSUME NEW r \in Client, SendCommit(r)
      PROVE  [JobNext]_jobVars
  <2>1. (\E j \in Job : EnqueueUnique(j, None)) \/ UNCHANGED jobVars
    BY <1>2 DEF SendCommit
  <2> QED BY <2>1 DEF JobNext
<1>3. ASSUME NEW w \in Worker, NEW j \in Job, ClaimRemark(w, j)
      PROVE  [JobNext]_jobVars
  BY <1>3 DEF ClaimRemark, JobNext
<1>4. ASSUME NEW j \in Job, Elapse(j)
      PROVE  [JobNext]_jobVars
  BY <1>4 DEF Elapse, JobNext
<1>5. ASSUME \/ WindowMoves \/ ReleaseCorrections
             \/ \E r \in Client : DecideWrite(r)
             \/ \E c \in Correction : Reject(c)
             \/ \E r \in Client, c \in Correction : SendCheck(r, c)
             \/ \E r \in Client, c \in Correction, op \in {"accept", "override"}, total \in Scored :
                   DecideCheck(r, c, op, total)
      PROVE  UNCHANGED jobVars
  BY <1>5 DEF WindowMoves, ReleaseCorrections, DecideWrite, Reject, SendCheck, DecideCheck
<1>6. CASE UNCHANGED corrVars
  BY <1>6 DEF corrVars
<1> QED BY <1>1, <1>2, <1>3, <1>4, <1>5, <1>6, RemarkIsJobStep DEF CorrNext

\* A behaviour of the corrections is one of the queue.
THEOREM CorrectionsUseQueue == CorrSpec => JobSpec
<1>1. CorrInit => JobInit
  BY DEF CorrInit
<1>2. [CorrNext]_corrVars => [JobNext]_jobVars
  BY CorrStepIsJobStep
<1> QED BY <1>1, <1>2, PTL DEF CorrSpec, JobSpec

\* No correction is re-marked more often than MaxAttempts and the starts of the workers allow.
THEOREM RemarksAreBounded == CorrSpec => []AttemptsBounded
BY CorrectionsUseQueue, AttemptsAreBounded, PTL

-----------------------------------------------------------------------------
(* How the rows, the jobs and the requests move *)

\* The ways one correction's row can change in a step.
RowMoves(c) ==
    \/ corr'[c] = corr[c]
    \/ corr'[c] = NoRow /\ status'[c[1]] = "deleted"
    \/ /\ ~Sent(c) /\ Exists(c[1]) /\ Exists(c[1])' /\ corr'[c] = SentRow
       /\ \E j \in Job : about'[j] = c
    \/ /\ AwaitingRemark(c)
       /\ \E total \in Mark, max \in SchemeMax :
             corr'[c] = [corr[c] EXCEPT !.state = "remarked", !.remark = total, !.max = max, !.failed = FALSE]
    \/ AwaitingRemark(c) /\ corr'[c] = [corr[c] EXCEPT !.failed = TRUE]
    \/ /\ Sent(c)
       /\ \E r \in Client :
             /\ Deciding(r) /\ request[r].about = c
             /\ corr'[c] = [corr[c] EXCEPT !.state = IF request[r].op = "accept" THEN "accepted" ELSE "overridden",
                                           !.teacher = request[r].total]
    \/ InTime /\ Sent(c) /\ ~Final(c) /\ corr'[c] = [corr[c] EXCEPT !.state = "rejected"]
    \/ InTime /\ c \in Decided /\ corr'[c] = [corr[c] EXCEPT !.state = "released"]

\* There are no other ways.
LEMMA RowMove ==
    ASSUME CorrTypeOK, HandOK, RequestIsAbout, [CorrNext]_corrVars, NEW c \in Correction
    PROVE  RowMoves(c)
<1> USE DEF CorrTypeOK
<1>1. ASSUME NEW s \in Submission, ScriptComes(s)
      PROVE  RowMoves(c)
  BY <1>1 DEF ScriptComes, RowMoves
<1>2. ASSUME NEW s \in Submission, ScriptGoes(s)
      PROVE  RowMoves(c)
  <2>1. CASE c[1] = s
    <3>1. status'[s] = "deleted"
      BY <1>2 DEF ScriptGoes, Forget, JobTypeOK
    <3>2. corr'[c] = NoRow
      BY <1>2, <2>1 DEF ScriptGoes
    <3> QED BY <2>1, <3>1, <3>2 DEF RowMoves
  <2>2. CASE c[1] # s
    BY <1>2, <2>2 DEF ScriptGoes, RowMoves
  <2> QED BY <2>1, <2>2
<1>3. ASSUME NEW r \in Client, SendCommit(r)
      PROVE  RowMoves(c)
  <2>1. CASE corr' = corr
    BY <2>1 DEF RowMoves
  <2>2. CASE corr' # corr
    <3> DEFINE d == request[r].about
    <3>1. /\ Insertable(d) /\ corr' = [corr EXCEPT ![d] = SentRow]
          /\ \E j \in Job : EnqueueUnique(j, None)
      BY <1>3, <2>2 DEF SendCommit
    <3>2. status' = status
      BY <3>1 DEF EnqueueUnique
    <3>3. Insertable(d) => ~Sent(d) /\ Exists(d[1])
      BY DEF Insertable
    <3>4. Exists(c[1])' <=> Exists(c[1])
      BY <3>2 DEF Exists
    <3>5. CASE c = d
      <4>1. corr'[c] = SentRow
        BY <3>1, <3>5
      <4>2. ~Sent(c) /\ Exists(c[1])
        BY <3>1, <3>3, <3>5
      <4>3. \E j \in Job : about'[j] = c
        BY <1>3, <2>2, <3>5 DEF SendCommit
      <4> QED BY <3>4, <4>1, <4>2, <4>3 DEF RowMoves
    <3>6. CASE c # d
      BY <3>1, <3>6 DEF RowMoves
    <3> QED BY <3>5, <3>6
  <2> QED BY <2>1, <2>2
<1>4. ASSUME NEW r \in Client, DecideWrite(r)
      PROVE  RowMoves(c)
  <2>1. CASE c = request[r].about /\ Sent(c)
    BY <1>4, <2>1 DEF DecideWrite, RowMoves, Deciding
  <2>2. CASE ~(c = request[r].about /\ Sent(c))
    BY <1>4, <2>2 DEF DecideWrite, RowMoves
  <2> QED BY <2>1, <2>2
<1>5. ASSUME NEW d \in Correction, Reject(d)
      PROVE  RowMoves(c)
  BY <1>5 DEF Reject, RowMoves
<1>6. CASE ReleaseCorrections
  BY <1>6 DEF ReleaseCorrections, RowMoves
<1>7. ASSUME NEW w \in Worker, NEW total \in Mark, NEW max \in SchemeMax, Store(w, total, max)
      PROVE  RowMoves(c)
  <2> DEFINE d == About(w)
  <2>1. CASE AwaitingRemark(d) /\ c = d
    <3>1. corr'[c] = [corr[c] EXCEPT !.state = "remarked", !.remark = total, !.max = max, !.failed = FALSE]
      BY <1>7, <2>1 DEF Store
    <3> QED BY <2>1, <3>1 DEF RowMoves
  <2>2. CASE ~(AwaitingRemark(d) /\ c = d)
    <3>1. corr'[c] = corr[c]
      BY <1>7, <2>2 DEF Store
    <3> QED BY <3>1 DEF RowMoves
  <2> QED BY <2>1, <2>2
<1>8. ASSUME NEW w \in Worker, RecordError(w)
      PROVE  RowMoves(c)
  <2> DEFINE d == About(w)
  <2>1. CASE AwaitingRemark(d) /\ c = d
    <3>1. corr'[c] = [corr[c] EXCEPT !.failed = TRUE]
      BY <1>8, <2>1 DEF RecordError
    <3> QED BY <2>1, <3>1 DEF RowMoves
  <2>2. CASE ~(AwaitingRemark(d) /\ c = d)
    <3>1. corr'[c] = corr[c]
      BY <1>8, <2>2 DEF RecordError
    <3> QED BY <3>1 DEF RowMoves
  <2> QED BY <2>1, <2>2
<1>9. ASSUME NEW w \in Worker, Begin(w) \/ Raise(w) \/ Settle(w) \/ WorkerProcess(w)
      PROVE  RowMoves(c)
  BY <1>9 DEF Begin, Raise, Settle, WorkerProcess, RowMoves
<1>10. ASSUME NEW r \in Client, NEW d \in Correction, SendCheck(r, d)
       PROVE  RowMoves(c)
  BY <1>10 DEF SendCheck, RowMoves
<1>11. ASSUME NEW r \in Client, NEW d \in Correction, NEW op, NEW total, DecideCheck(r, d, op, total)
       PROVE  RowMoves(c)
  BY <1>11 DEF DecideCheck, RowMoves
<1>12. ASSUME \/ WindowMoves \/ UNCHANGED corrVars
              \/ \E w \in Worker, j \in Job : ClaimRemark(w, j)
              \/ \E j \in Job : Elapse(j)
       PROVE  RowMoves(c)
  BY <1>12 DEF WindowMoves, corrVars, ClaimRemark, Elapse, RowMoves
<1> QED BY <1>1, <1>2, <1>3, <1>4, <1>5, <1>6, <1>7, <1>8, <1>9, <1>10, <1>11, <1>12
        DEF CorrNext, RemarkStep

\* A request checks and is then pending, or a pending one is written; while one checks, no row moves.
RequestMoves(r) ==
    \/ request'[r] \in {request[r], NoRequest}
    \/ \E c \in Correction : request'[r] = [NoRequest EXCEPT !.op = "send", !.about = c]
    \/ /\ corr' = corr
       /\ \E c \in Correction, op \in {"accept", "override"}, total \in Scored :
             /\ Sent(c) /\ ~Final(c)
             /\ op = "accept" => Acceptable(c)
             /\ op = "override" => total \in Mark
             /\ request'[r] = [op |-> op, about |-> c, total |-> total]

\* There is no other way.
LEMMA RequestMove ==
    ASSUME CorrTypeOK, [CorrNext]_corrVars, NEW r \in Client
    PROVE  RequestMoves(r)
<1> USE DEF CorrTypeOK, Request
<1>1. ASSUME NEW s \in Submission, ScriptComes(s) \/ ScriptGoes(s)
      PROVE  RequestMoves(r)
  BY <1>1 DEF ScriptComes, ScriptGoes, RequestMoves
<1>2. ASSUME NEW q \in Client, SendCommit(q) \/ DecideWrite(q)
      PROVE  RequestMoves(r)
  BY <1>2 DEF SendCommit, DecideWrite, RequestMoves
<1>3. ASSUME NEW q \in Client, NEW c \in Correction, SendCheck(q, c)
      PROVE  RequestMoves(r)
  BY <1>3 DEF SendCheck, RequestMoves
<1>4. ASSUME NEW q \in Client, NEW c \in Correction, NEW op \in {"accept", "override"},
             NEW total \in Scored, DecideCheck(q, c, op, total)
      PROVE  RequestMoves(r)
  BY <1>4 DEF DecideCheck, RequestMoves
<1>5. ASSUME NEW w \in Worker, RemarkStep(w) \/ WorkerProcess(w)
      PROVE  request' = request
  BY <1>5 DEF RemarkStep, WorkerProcess, Begin, RecordError, Raise, Settle, Store
<1>6. ASSUME \/ WindowMoves \/ ReleaseCorrections \/ UNCHANGED corrVars
             \/ \E c \in Correction : Reject(c)
             \/ \E w \in Worker, j \in Job : ClaimRemark(w, j)
             \/ \E j \in Job : Elapse(j)
      PROVE  request' = request
  BY <1>6 DEF WindowMoves, ReleaseCorrections, corrVars, Reject, ClaimRemark, Elapse
<1>7. request' = request => RequestMoves(r)
  BY DEF RequestMoves
<1> QED BY <1>1, <1>2, <1>3, <1>4, <1>5, <1>6, <1>7 DEF CorrNext

\* A job gets its correction when it is inserted, together with the correction, and never another.
AboutMoves(j) ==
    \/ about'[j] = about[j]
    \/ /\ job[j].state = "free" /\ job'[j].state = "queued"
       /\ \E c \in Correction :
             /\ Insertable(c) /\ corr' = [corr EXCEPT ![c] = SentRow]
             /\ about' = [about EXCEPT ![j] = c]

\* There is no other way.
LEMMA AboutMove ==
    ASSUME CorrTypeOK, RequestIsAbout, [CorrNext]_corrVars, NEW j \in Job
    PROVE  AboutMoves(j)
<1> USE DEF CorrTypeOK
<1>1. ASSUME NEW r \in Client, SendCommit(r)
      PROVE  AboutMoves(j)
  <2>1. CASE about' = about
    BY <2>1 DEF AboutMoves
  <2>2. CASE about' # about
    <3>1. PICK i \in Job : /\ EnqueueUnique(i, None)
                           /\ about' = [about EXCEPT ![i] = request[r].about]
      BY <1>1, <2>2 DEF SendCommit
    <3>2. /\ Insertable(request[r].about)
          /\ corr' = [corr EXCEPT ![request[r].about] = SentRow]
      BY <1>1, <2>2 DEF SendCommit
    <3>3. request[r].about \in Correction
      BY <1>1 DEF SendCommit, RequestIsAbout
    <3>4. job[i].state = "free" /\ job'[i].state = "queued"
      BY <3>1 DEF EnqueueUnique, NextId, NewRow, FreeRow, JobTypeOK
    <3>5. CASE i = j
      BY <3>1, <3>2, <3>3, <3>4, <3>5 DEF AboutMoves
    <3>6. CASE i # j
      BY <3>1, <3>6 DEF AboutMoves
    <3> QED BY <3>5, <3>6
  <2> QED BY <2>1, <2>2
<1>2. ASSUME NEW w \in Worker, RemarkStep(w) \/ WorkerProcess(w)
      PROVE  about' = about
  BY <1>2 DEF RemarkStep, WorkerProcess, Begin, RecordError, Raise, Settle, Store
<1>3. ASSUME \/ WindowMoves \/ ReleaseCorrections \/ UNCHANGED corrVars
             \/ \E s \in Submission : ScriptComes(s) \/ ScriptGoes(s)
             \/ \E r \in Client : DecideWrite(r)
             \/ \E c \in Correction : Reject(c)
             \/ \E r \in Client, c \in Correction : SendCheck(r, c)
             \/ \E r \in Client, c \in Correction, op \in {"accept", "override"}, total \in Scored :
                   DecideCheck(r, c, op, total)
             \/ \E w \in Worker, i \in Job : ClaimRemark(w, i)
             \/ \E i \in Job : Elapse(i)
      PROVE  about' = about
  BY <1>3 DEF WindowMoves, ReleaseCorrections, corrVars, ScriptComes, ScriptGoes, DecideWrite,
     Reject, SendCheck, DecideCheck, ClaimRemark, Elapse
<1>4. about' = about => AboutMoves(j)
  BY DEF AboutMoves
<1> QED BY <1>1, <1>2, <1>3, <1>4 DEF CorrNext

-----------------------------------------------------------------------------
(* Types *)

\* NULL is no mark.
LEMMA NoneIsNoMark == None \notin Mark /\ Mark \subseteq Nat /\ FirstMax \in Mark /\ SchemeMax \subseteq Mark
BY JobAssumption, CorrAssumption DEF JobAssumption, CorrAssumption

\* Each variable has its domain, and the small ones their values.
Shapes ==
    /\ corr = [c \in Correction |-> corr[c]]
    /\ request = [r \in Client |-> request[r]]
    /\ about = [j \in Job |-> about[j]]
    /\ window \in BOOLEAN
    /\ remark \in [Worker -> {"off", "begin", "asked", "raised"}]
    /\ photo \in [Correction -> {"none", "kept", "deleted"}]

\* Each step writes whole functions back.
LEMMA ShapeStep ==
    ASSUME CorrTypeOK, [CorrNext]_corrVars
    PROVE  Shapes'
<1>0. Shapes
  BY DEF CorrTypeOK, Shapes
<1>1. ASSUME NEW s \in Submission, ScriptComes(s) \/ ScriptGoes(s)
      PROVE  Shapes'
  BY <1>0, <1>1 DEF ScriptComes, ScriptGoes, Shapes
<1>2. ASSUME NEW r \in Client, SendCommit(r)
      PROVE  Shapes'
  <2>1. photo' \in [Correction -> {"none", "kept", "deleted"}]
    BY <1>0, <1>2 DEF SendCommit, Shapes
  <2>2. /\ corr' \in {corr, [corr EXCEPT ![request[r].about] = SentRow]}
        /\ about' = about \/ \E j \in Job : about' = [about EXCEPT ![j] = request[r].about]
        /\ request' = [request EXCEPT ![r] = NoRequest]
        /\ window' = window /\ remark' = remark
    BY <1>2 DEF SendCommit
  <2> QED BY <1>0, <2>1, <2>2 DEF Shapes
<1>3. ASSUME NEW r \in Client, DecideWrite(r)
      PROVE  Shapes'
  BY <1>0, <1>3 DEF DecideWrite, Shapes
<1>4. ASSUME NEW c \in Correction, Reject(c)
      PROVE  Shapes'
  BY <1>0, <1>4 DEF Reject, Retired, Shapes
<1>5. CASE ReleaseCorrections
  BY <1>0, <1>5 DEF ReleaseCorrections, Retired, Shapes
<1>6. ASSUME NEW w \in Worker, NEW total \in Mark, NEW max \in SchemeMax, Store(w, total, max)
      PROVE  Shapes'
  BY <1>0, <1>6 DEF Store, Goto, Shapes
<1>7. ASSUME NEW w \in Worker, RecordError(w)
      PROVE  Shapes'
  BY <1>0, <1>7 DEF RecordError, Goto, Shapes
<1>8. ASSUME NEW w \in Worker, Begin(w) \/ Raise(w) \/ Settle(w) \/ WorkerProcess(w)
      PROVE  Shapes'
  BY <1>0, <1>8 DEF Begin, Raise, Settle, WorkerProcess, Goto, Shapes
<1>9. ASSUME NEW w \in Worker, NEW j \in Job, ClaimRemark(w, j)
      PROVE  Shapes'
  BY <1>0, <1>9 DEF ClaimRemark, Goto, Shapes
<1>10. ASSUME NEW r \in Client, NEW c \in Correction, SendCheck(r, c)
       PROVE  Shapes'
  BY <1>0, <1>10 DEF SendCheck, Shapes
<1>11. ASSUME NEW r \in Client, NEW c \in Correction, NEW op, NEW total, DecideCheck(r, c, op, total)
       PROVE  Shapes'
  BY <1>0, <1>11 DEF DecideCheck, Shapes
<1>12. ASSUME WindowMoves \/ UNCHANGED corrVars \/ \E j \in Job : Elapse(j)
       PROVE  Shapes'
  BY <1>0, <1>12 DEF WindowMoves, corrVars, Elapse, Shapes
<1> QED BY <1>1, <1>2, <1>3, <1>4, <1>5, <1>6, <1>7, <1>8, <1>9, <1>10, <1>11, <1>12
        DEF CorrNext, RemarkStep

\* What a row or a request becomes in a step is a row or a request.
LEMMA CorrTypeStep ==
    ASSUME CorrTypeOK, HandOK, RequestIsAbout, [CorrNext]_corrVars
    PROVE  CorrTypeOK' /\ HandOK' /\ RequestIsAbout'
<1>1. JobTypeOK' /\ HandOK'
  BY CorrStepIsJobStep, TypeStep DEF CorrTypeOK
<1>2. ASSUME NEW c \in Correction
      PROVE  corr'[c] \in CorrRow
  <2>1. corr[c] \in CorrRow
    BY DEF CorrTypeOK
  <2>2. CASE corr'[c] = corr[c] \/ corr'[c] = NoRow \/ corr'[c] = SentRow
    <3>1. NoRow \in CorrRow
      BY DEF NoRow, CorrRow, Scored
    <3>2. SentRow \in CorrRow
      BY NoneIsNoMark DEF NoRow, SentRow, CorrRow, Scored
    <3> QED BY <2>1, <2>2, <3>1, <3>2
  <2>3. ASSUME NEW total \in Mark, NEW max \in SchemeMax,
               corr'[c] = [corr[c] EXCEPT !.state = "remarked", !.remark = total, !.max = max, !.failed = FALSE]
        PROVE  corr'[c] \in CorrRow
    BY <2>1, <2>3, NoneIsNoMark DEF CorrRow, Scored
  <2>4. ASSUME NEW r \in Client, Deciding(r),
               corr'[c] = [corr[c] EXCEPT !.state = IF request[r].op = "accept" THEN "accepted" ELSE "overridden",
                                          !.teacher = request[r].total]
        PROVE  corr'[c] \in CorrRow
    BY <2>1, <2>4 DEF CorrRow, CorrTypeOK, Request
  <2>5. CASE \/ corr'[c] = [corr[c] EXCEPT !.state = "released"]
             \/ corr'[c] = [corr[c] EXCEPT !.state = "rejected"]
             \/ corr'[c] = [corr[c] EXCEPT !.failed = TRUE]
    BY <2>1, <2>5 DEF CorrRow
  <2>6. RowMoves(c)
    BY RowMove
  <2> QED BY <2>2, <2>3, <2>4, <2>5, <2>6 DEF RowMoves
<1>3. ASSUME NEW r \in Client
      PROVE  request'[r] \in Request /\ (request'[r].op # "idle" => request'[r].about \in Correction)
  <2>1. request[r] \in Request /\ (request[r].op # "idle" => request[r].about \in Correction)
    BY DEF CorrTypeOK, RequestIsAbout
  <2>2. RequestMoves(r)
    BY RequestMove
  <2>3. CASE request'[r] \in {request[r], NoRequest}
    BY <2>1, <2>3 DEF NoRequest, Request, Scored
  <2>4. ASSUME NEW c \in Correction, request'[r] = [NoRequest EXCEPT !.op = "send", !.about = c]
        PROVE  request'[r] \in Request /\ request'[r].about \in Correction
    BY <2>4 DEF NoRequest, Request, Scored
  <2>5. ASSUME NEW c \in Correction, NEW op \in {"accept", "override"}, NEW total \in Scored,
               request'[r] = [op |-> op, about |-> c, total |-> total]
        PROVE  request'[r] \in Request /\ request'[r].about \in Correction
    BY <2>5 DEF Request
  <2> QED BY <2>2, <2>3, <2>4, <2>5 DEF RequestMoves
<1>4. ASSUME NEW j \in Job
      PROVE  about'[j] \in Correction \cup {None}
  BY AboutMove DEF AboutMoves, CorrTypeOK
<1>5. Shapes'
  BY ShapeStep
<1> QED BY <1>1, <1>2, <1>3, <1>4, <1>5 DEF CorrTypeOK, RequestIsAbout, Shapes

-----------------------------------------------------------------------------
(* Scripts and their corrections *)

\* Which scripts exist, and which are gone for good.
SameScripts == \A s \in Submission : (Exists(s)' <=> Exists(s)) /\ (Gone(s)' <=> Gone(s))

\* The queue's UPDATE of a submission neither creates nor removes one.
LEMMA StatusOfRowKeeps ==
    ASSUME JobTypeOK, NEW j \in Job, NEW v \in {"queued", "marking", "done", "failed"},
           status' = StatusOfRow(j, v)
    PROVE  SameScripts
<1>1. ASSUME NEW s \in Submission
      PROVE  status'[s] = IF job[j].sub = s /\ job[j].state # "deleted" /\ Exists(s) THEN v ELSE status[s]
  BY StatusOfRowValue DEF Status
<1> QED BY <1>1 DEF SameScripts, Exists, Gone

\* Workers write statuses, and never remove a script.
LEMMA WorkerKeepsScripts ==
    ASSUME JobTypeOK, HandOK, NEW w \in Worker,
           \/ Start(w) \/ Crash(w) \/ Fail(w) \/ RunnerReturns(w, "done") \/ RetryLater(w)
           \/ Finish(w) \/ WriteFails(w) \/ SettleLost(w) \/ \E j \in Job : Claim(w, j)
    PROVE  SameScripts
<1>1. status' = status => SameScripts
  BY DEF SameScripts, Exists, Gone
<1>2. CASE Crash(w) \/ Finish(w) \/ SettleLost(w)
  BY <1>1, <1>2 DEF Crash, Finish, SettleLost
<1>3. CASE Start(w)
  BY <1>3 DEF Start, JobTypeOK, SameScripts, Exists, Gone
<1>4. ASSUME worker[w].pc \in {"running", "finishing"}, FailJob(w)
      PROVE  SameScripts
  BY <1>4, StatusOfRowKeeps DEF FailJob, HandOK
<1>5. CASE RunnerReturns(w, "done")
  BY <1>5, StatusOfRowKeeps DEF RunnerReturns, HandOK
<1>6. CASE RetryLater(w)
  BY <1>1, <1>6, StatusOfRowKeeps DEF RetryLater, HandOK
<1>7. ASSUME NEW j \in Job, Claim(w, j)
      PROVE  SameScripts
  BY <1>7, StatusOfRowKeeps DEF Claim
<1> QED BY <1>2, <1>3, <1>4, <1>5, <1>6, <1>7 DEF Fail, WriteFails

\* A script that exists goes on existing, unless it is removed with its corrections; one that is
\* gone never comes back.
LEMMA ScriptLife ==
    ASSUME CorrTypeOK, HandOK, [CorrNext]_corrVars, NEW s \in Submission
    PROVE  /\ Exists(s) => Exists(s)' \/ ScriptGoes(s)
           /\ Gone(s) => Gone(s)'
<1> DEFINE Kept == /\ Exists(s) => Exists(s)' \/ ScriptGoes(s)
                   /\ Gone(s) => Gone(s)'
<1>1. SameScripts => Kept
  BY DEF SameScripts
<1>2. status' = status => Kept
  BY DEF Exists, Gone
<1>3. ASSUME NEW t \in Submission, ScriptComes(t)
      PROVE  Kept
  BY <1>3 DEF ScriptComes, Upload, OthersWrite, CorrTypeOK, JobTypeOK, Exists, Gone
<1>4. ASSUME NEW t \in Submission, ScriptGoes(t)
      PROVE  Kept
  <2>1. CASE t = s
    BY <1>4, <2>1 DEF ScriptGoes, Forget, CorrTypeOK, JobTypeOK, Exists, Gone
  <2>2. CASE t # s
    BY <1>4, <2>2 DEF ScriptGoes, Forget, CorrTypeOK, JobTypeOK, Exists, Gone
  <2> QED BY <2>1, <2>2
<1>5. ASSUME NEW r \in Client, SendCommit(r)
      PROVE  Kept
  BY <1>2, <1>5 DEF SendCommit, EnqueueUnique, jobVars
<1>6. ASSUME NEW w \in Worker, RemarkStep(w) \/ WorkerProcess(w)
      PROVE  Kept
  <2>1. SameScripts \/ status' = status
    <3>1. CASE Begin(w)
      BY <3>1, WorkerKeepsScripts DEF Begin, CorrTypeOK, jobVars
    <3>2. CASE RecordError(w)
      BY <3>2 DEF RecordError, jobVars
    <3>3. CASE Raise(w) \/ Settle(w) \/ WorkerProcess(w)
      BY <3>3, WorkerKeepsScripts DEF Raise, Settle, WorkerProcess, CorrTypeOK
    <3>4. CASE \E total \in Mark, max \in SchemeMax : Store(w, total, max)
      BY <3>4, WorkerKeepsScripts DEF Store, CorrTypeOK
    <3> QED BY <1>6, <3>1, <3>2, <3>3, <3>4 DEF RemarkStep
  <2> QED BY <1>1, <1>2, <2>1
<1>7. ASSUME NEW w \in Worker, NEW j \in Job, ClaimRemark(w, j)
      PROVE  Kept
  BY <1>1, <1>7, WorkerKeepsScripts DEF ClaimRemark, CorrTypeOK
<1>8. ASSUME \/ WindowMoves \/ ReleaseCorrections \/ UNCHANGED corrVars
             \/ \E r \in Client : DecideWrite(r)
             \/ \E c \in Correction : Reject(c)
             \/ \E r \in Client, c \in Correction : SendCheck(r, c)
             \/ \E r \in Client, c \in Correction, op \in {"accept", "override"}, total \in Scored :
                   DecideCheck(r, c, op, total)
             \/ \E j \in Job : Elapse(j)
      PROVE  status' = status
  BY <1>8 DEF WindowMoves, ReleaseCorrections, corrVars, DecideWrite, Reject, SendCheck, DecideCheck,
     Elapse, BackoffOver, jobVars
<1> QED BY <1>2, <1>3, <1>4, <1>5, <1>6, <1>7, <1>8 DEF CorrNext

\* A row that has been inserted is never free again.
LEMMA FreeRowsWereFree ==
    ASSUME JobTypeOK, HandOK, [JobNext]_jobVars, NEW i \in Job, job'[i].state = "free"
    PROVE  job[i].state = "free"
<1> USE DEF JobTypeOK, HandOK, Row
<1>1. ASSUME NEW j \in Job,
             \/ \E s \in Submission : InsertJob(j, s)
             \/ \E k \in Key \cup {None} : EnqueueUnique(j, k)
      PROVE  job[i].state = "free"
  BY <1>1 DEF InsertJob, EnqueueUnique, NextId, NewRow, FreeRow
<1>2. ASSUME NEW j \in Job, StampQueued(j) \/ CallerDies(j) \/ BackoffOver(j)
      PROVE  job[i].state = "free"
  BY <1>2 DEF StampQueued, CallerDies, BackoffOver
<1>3. ASSUME NEW w \in Worker, Start(w)
      PROVE  job[i].state = "free"
  BY <1>3 DEF Start
<1>4. ASSUME NEW w \in Worker, Finish(w) \/ Fail(w) \/ WriteFails(w)
      PROVE  job[i].state = "free"
  BY <1>4 DEF Finish, Fail, WriteFails, FailJob, RowState
<1>5. ASSUME NEW w \in Worker, RetryLater(w)
      PROVE  job[i].state = "free"
  BY <1>5 DEF RetryLater
<1>6. ASSUME NEW w \in Worker, NEW j \in Job, Claim(w, j)
      PROVE  job[i].state = "free"
  BY <1>6 DEF Claim
<1>7. ASSUME NEW s \in Submission, Forget(s)
      PROVE  job[i].state = "free"
  BY <1>7 DEF Forget
<1>8. ASSUME \/ UNCHANGED jobVars
             \/ \E w \in Worker : \/ Crash(w) \/ SettleLost(w)
                                  \/ \E v \in {"needs_you", "done"} : RunnerReturns(w, v)
             \/ \E s \in Submission : Upload(s) \/ \E v \in {"needs_you", "done"} : OthersWrite(s, v)
      PROVE  job' = job
  BY <1>8 DEF jobVars, Crash, SettleLost, RunnerReturns, Upload, OthersWrite
<1> QED BY <1>1, <1>2, <1>3, <1>4, <1>5, <1>6, <1>7, <1>8 DEF JobNext, RunnerStep

-----------------------------------------------------------------------------
(* A correction is whole *)

\* What RowMoves says of the fields of a row, one by one.
LEMMA RowFields ==
    ASSUME CorrTypeOK, HandOK, RequestIsAbout, [CorrNext]_corrVars, NEW c \in Correction,
           corr'[c] # corr[c], corr'[c] # NoRow
    PROVE  \/ /\ ~Sent(c) /\ Exists(c[1]) /\ Exists(c[1])'
              /\ corr'[c].state = "submitted" /\ ~corr'[c].failed
              /\ \E j \in Job : about'[j] = c
           \/ /\ AwaitingRemark(c)
              /\ corr'[c].state = "remarked" /\ corr'[c].remark \in Mark
              /\ corr'[c].teacher = corr[c].teacher
           \/ /\ AwaitingRemark(c) /\ corr'[c].state = "submitted" /\ corr'[c].failed
              /\ corr'[c].remark = corr[c].remark /\ corr'[c].teacher = corr[c].teacher
           \/ /\ Sent(c) /\ corr'[c].remark = corr[c].remark
              /\ \E r \in Client :
                    /\ Deciding(r) /\ request[r].about = c
                    /\ corr'[c].state = IF request[r].op = "accept" THEN "accepted" ELSE "overridden"
                    /\ corr'[c].teacher = request[r].total
           \/ /\ InTime /\ Sent(c) /\ ~Final(c) /\ corr'[c].state = "rejected"
              /\ corr'[c].remark = corr[c].remark
           \/ /\ InTime /\ c \in Decided /\ corr'[c].state = "released"
              /\ corr'[c].remark = corr[c].remark /\ corr'[c].teacher = corr[c].teacher
<1>1. RowMoves(c) /\ corr[c] \in CorrRow
  BY RowMove DEF CorrTypeOK
<1>2. CASE /\ ~Sent(c) /\ Exists(c[1]) /\ Exists(c[1])' /\ corr'[c] = SentRow
           /\ \E j \in Job : about'[j] = c
  BY <1>2 DEF SentRow, NoRow
<1>3. ASSUME AwaitingRemark(c), NEW total \in Mark, NEW max \in SchemeMax,
             corr'[c] = [corr[c] EXCEPT !.state = "remarked", !.remark = total, !.max = max, !.failed = FALSE]
      PROVE  /\ corr'[c].state = "remarked" /\ corr'[c].remark \in Mark
             /\ corr'[c].teacher = corr[c].teacher
  BY <1>1, <1>3 DEF CorrRow
<1>4. CASE AwaitingRemark(c) /\ corr'[c] = [corr[c] EXCEPT !.failed = TRUE]
  BY <1>1, <1>4 DEF CorrRow, AwaitingRemark
<1>5. ASSUME NEW r \in Client, Deciding(r), request[r].about = c,
             corr'[c] = [corr[c] EXCEPT !.state = IF request[r].op = "accept" THEN "accepted" ELSE "overridden",
                                        !.teacher = request[r].total]
      PROVE  /\ corr'[c].remark = corr[c].remark
             /\ corr'[c].state = IF request[r].op = "accept" THEN "accepted" ELSE "overridden"
             /\ corr'[c].teacher = request[r].total
  BY <1>1, <1>5 DEF CorrRow
<1>6. CASE InTime /\ Sent(c) /\ ~Final(c) /\ corr'[c] = [corr[c] EXCEPT !.state = "rejected"]
  BY <1>1, <1>6 DEF CorrRow
<1>7. CASE InTime /\ c \in Decided /\ corr'[c] = [corr[c] EXCEPT !.state = "released"]
  BY <1>1, <1>7 DEF CorrRow
<1> QED BY <1>1, <1>2, <1>3, <1>4, <1>5, <1>6, <1>7 DEF RowMoves

\* A row that is not inserted anew was there, and its script goes on existing with it.
LEMMA RowsFollowStep ==
    ASSUME CorrInv, [CorrNext]_corrVars
    PROVE  RowsFollowScript' /\ OneRemarkJob'
<1> USE DEF CorrInv
<1>1. ASSUME NEW c \in Correction, Sent(c)'
      PROVE  Exists(c[1])' /\ (Sent(c) \/ Insertable(c))
  <2>1. corr'[c] # NoRow
    BY <1>1 DEF Sent, NoRow
  <2>2. CASE corr'[c] = corr[c]
    <3>1. Sent(c) /\ Exists(c[1]) /\ c[1] \in Submission
      BY <1>1, <2>2 DEF Sent, RowsFollowScript, Correction
    <3>2. ~ScriptGoes(c[1])
      BY <2>1 DEF ScriptGoes
    <3> QED BY <3>1, <3>2, ScriptLife
  <2>3. CASE corr'[c] # corr[c]
    <3>1. Sent(c) \/ (Insertable(c) /\ Exists(c[1])')
      BY <2>1, <2>3, RowFields DEF AwaitingRemark, Sent, Insertable, Decided
    <3>2. ASSUME Sent(c)
          PROVE  Exists(c[1])'
      <4>1. Exists(c[1]) /\ c[1] \in Submission
        BY <3>2 DEF RowsFollowScript, Correction
      <4>2. ~ScriptGoes(c[1])
        BY <2>1 DEF ScriptGoes
      <4> QED BY <4>1, <4>2, ScriptLife
    <3> QED BY <3>1, <3>2
  <2> QED BY <2>2, <2>3
<1>2. ASSUME NEW c \in Correction, Sent(c) \/ Gone(c[1])
      PROVE  Sent(c)' \/ Gone(c[1])'
  <2>1. c[1] \in Submission
    BY DEF Correction
  <2>2. CASE Gone(c[1])
    BY <2>1, <2>2, ScriptLife
  <2>3. CASE Sent(c)
    <3>1. RowMoves(c) /\ corr[c] \in CorrRow
      BY RowMove DEF CorrTypeOK
    <3>2. CASE corr'[c] = corr[c]
      BY <2>3, <3>2 DEF Sent
    <3>3. CASE corr'[c] = NoRow /\ corr'[c] # corr[c]
      <4>1. corr'[c].state = "none"
        BY <3>3 DEF NoRow
      <4>2. status'[c[1]] = "deleted"
        BY <2>3, <3>1, <3>3, <4>1 DEF RowMoves, CorrRow, Decided, SentRow, NoRow, Sent, AwaitingRemark
      <4> QED BY <4>2 DEF Gone
    <3>4. CASE corr'[c] # NoRow /\ corr'[c] # corr[c]
      BY <3>4, RowFields DEF Sent
    <3> QED BY <3>2, <3>3, <3>4
  <2> QED BY <1>2, <2>2, <2>3
<1>3. ASSUME NEW j \in Job, about'[j] # None
      PROVE  Sent(about[j])' \/ Gone(about[j][1])'
  <2>1. CASE about'[j] = about[j]
    <3>1. about[j] \in Correction /\ (Sent(about[j]) \/ Gone(about[j][1]))
      BY <1>3, <2>1 DEF CorrTypeOK, RowsFollowScript
    <3> DEFINE c == about[j]
    <3>2. (corr'[c].state # "none") \/ status'[c[1]] = "deleted"
      BY <1>2, <3>1 DEF Sent, Gone
    <3> QED BY <2>1, <3>2 DEF Sent, Gone
  <2>2. CASE about'[j] # about[j]
    <3>1. PICK c \in Correction : /\ corr' = [corr EXCEPT ![c] = SentRow]
                                  /\ about' = [about EXCEPT ![j] = c]
      BY <2>2, AboutMove DEF AboutMoves
    <3>2. corr'[c] = SentRow /\ about'[j] = c
      BY <3>1 DEF CorrTypeOK
    <3> QED BY <3>2 DEF Sent, SentRow, NoRow
  <2> QED BY <2>1, <2>2
<1>4. ASSUME NEW j \in Job, job'[j].state = "free"
      PROVE  about'[j] = None
  <2>1. job[j].state = "free"
    BY <1>4, CorrStepIsJobStep, FreeRowsWereFree DEF CorrTypeOK
  <2>2. about'[j] = about[j]
    BY <1>4, AboutMove DEF AboutMoves
  <2> QED BY <2>1, <2>2 DEF RowsFollowScript
<1>5. ASSUME NEW r \in Client, Deciding(r)'
      PROVE  Sent(request[r].about)' \/ Gone(request[r].about[1])'
  <2>1. CASE request'[r] = request[r]
    <3> DEFINE c == request[r].about
    <3>1. c \in Correction /\ (Sent(c) \/ Gone(c[1]))
      BY <1>5, <2>1 DEF Deciding, RequestIsAbout, RowsFollowScript
    <3>2. (corr'[c].state # "none") \/ status'[c[1]] = "deleted"
      BY <1>2, <3>1 DEF Sent, Gone
    <3> QED BY <2>1, <3>2 DEF Sent, Gone
  <2>2. CASE request'[r] # request[r]
    <3>1. RequestMoves(r) /\ request'[r].op \in {"accept", "override"}
      BY <1>5, RequestMove DEF Deciding, CorrInv
    <3>2. ASSUME NEW c \in Correction, request'[r] = [NoRequest EXCEPT !.op = "send", !.about = c]
          PROVE  FALSE
      BY <3>1, <3>2 DEF NoRequest
    <3>3. request'[r] # NoRequest
      BY <3>1 DEF NoRequest
    <3>4. PICK c \in Correction, op \in {"accept", "override"}, total \in Scored :
             corr' = corr /\ Sent(c) /\ request'[r] = [op |-> op, about |-> c, total |-> total]
      BY <2>2, <3>1, <3>2, <3>3 DEF RequestMoves
    <3> QED BY <3>4 DEF Sent
  <2> QED BY <2>1, <2>2
<1>6. ASSUME NEW c \in Correction, Sent(c)'
      PROVE  \E j \in Job : about'[j] = c
  <2>1. CASE Sent(c)
    <3>1. PICK j \in Job : about[j] = c
      BY <2>1 DEF OneRemarkJob
    <3>2. job[j].state # "free"
      BY <3>1, CorrAssumption DEF RowsFollowScript, CorrAssumption, Correction
    <3>3. about'[j] = about[j]
      BY <3>2, AboutMove DEF AboutMoves
    <3> QED BY <3>1, <3>3
  <2>2. CASE ~Sent(c)
    <3>1. corr'[c] # NoRow /\ corr'[c] # corr[c]
      BY <1>6, <2>2 DEF Sent, NoRow
    <3> QED BY <2>2, <3>1, RowFields DEF Sent, AwaitingRemark, Decided
  <2> QED BY <2>1, <2>2
<1>7. ASSUME NEW i \in Job, NEW j \in Job, about'[i] \in Correction, about'[i] = about'[j]
      PROVE  i = j
  <2>1. CASE about'[i] = about[i] /\ about'[j] = about[j]
    BY <1>7, <2>1 DEF OneRemarkJob
  <2>2. ASSUME NEW k \in Job, NEW l \in Job, about'[k] = about'[l], about'[k] # about[k], k # l
        PROVE  FALSE
    <3>1. PICK c \in Correction : Insertable(c) /\ about' = [about EXCEPT ![k] = c]
      BY <2>2, AboutMove DEF AboutMoves
    <3>2. about[l] = c
      BY <2>2, <3>1 DEF CorrTypeOK
    <3>3. Sent(c) \/ Gone(c[1])
      BY <3>2, CorrAssumption DEF RowsFollowScript, CorrAssumption, Correction
    <3> QED BY <3>1, <3>3 DEF Insertable, Exists, Gone
  <2> QED BY <1>7, <2>1, <2>2
<1> QED BY <1>1, <1>3, <1>4, <1>5, <1>6, <1>7 DEF RowsFollowScript, OneRemarkJob

\* What a request may become, field by field: a decision that is new is about a row as it is.
LEMMA NewDecision ==
    ASSUME CorrTypeOK, [CorrNext]_corrVars, NEW r \in Client, Deciding(r)', request'[r] # request[r]
    PROVE  \E c \in Correction :
              /\ corr' = corr /\ Sent(c) /\ ~Final(c) /\ request'[r].about = c
              /\ request'[r].op = "accept" => corr[c].remark # None
              /\ request'[r].op = "override" => request'[r].total \in Mark
<1>1. RequestMoves(r) /\ request'[r].op \in {"accept", "override"}
  BY RequestMove DEF Deciding
<1>2. ASSUME NEW c \in Correction, request'[r] = [NoRequest EXCEPT !.op = "send", !.about = c]
      PROVE  FALSE
  BY <1>1, <1>2 DEF NoRequest
<1>3. request'[r] # NoRequest
  BY <1>1 DEF NoRequest
<1>4. PICK c \in Correction, op \in {"accept", "override"}, total \in Scored :
         /\ corr' = corr /\ Sent(c) /\ ~Final(c)
         /\ op = "accept" => Acceptable(c)
         /\ op = "override" => total \in Mark
         /\ request'[r] = [op |-> op, about |-> c, total |-> total]
  BY <1>1, <1>2, <1>3 DEF RequestMoves
<1>5. request'[r].op = op /\ request'[r].about = c /\ request'[r].total = total
  BY <1>4
<1> QED BY <1>4, <1>5 DEF Acceptable

\* A mark that backs a decision is written once and never taken back.
LEMMA DecisionsStep ==
    ASSUME CorrInv, [CorrNext]_corrVars
    PROVE  DecisionsHaveMarks' /\ ReleasedHasMark'
<1> USE DEF CorrInv
<1>1. ASSUME NEW c \in Correction
      PROVE  /\ corr'[c].state = "accepted" => corr'[c].remark # None
             /\ corr'[c].state = "overridden" => corr'[c].teacher # None
             /\ corr'[c].state = "released" => corr'[c].teacher # None \/ corr'[c].remark # None
  <2>1. CASE corr'[c] = corr[c]
    BY <2>1 DEF DecisionsHaveMarks, ReleasedHasMark
  <2>2. CASE corr'[c] = NoRow
    BY <2>2 DEF NoRow
  <2>3. CASE corr'[c] # corr[c] /\ corr'[c] # NoRow
    <3>1. ASSUME Sent(c), corr'[c].remark = corr[c].remark, NEW r \in Client, Deciding(r), request[r].about = c,
                 corr'[c].state = IF request[r].op = "accept" THEN "accepted" ELSE "overridden",
                 corr'[c].teacher = request[r].total
          PROVE  /\ corr'[c].state = "accepted" => corr'[c].remark # None
                 /\ corr'[c].state = "overridden" => corr'[c].teacher # None
                 /\ corr'[c].state # "released"
      BY <3>1 DEF DecisionsHaveMarks, Deciding
    <3>2. ASSUME c \in Decided, corr'[c].state = "released",
                 corr'[c].remark = corr[c].remark, corr'[c].teacher = corr[c].teacher
          PROVE  corr'[c].teacher # None \/ corr'[c].remark # None
      BY <3>2 DEF Decided, DecisionsHaveMarks
    <3> QED BY <2>3, <3>1, <3>2, RowFields
  <2> QED BY <2>1, <2>2, <2>3
<1>2. ASSUME NEW c \in Correction, Sent(c), corr[c].remark # None, Sent(c)'
      PROVE  corr'[c].remark # None
  <2>1. corr'[c] # NoRow
    BY <1>2 DEF Sent, NoRow
  <2>2. CASE corr'[c] = corr[c]
    BY <1>2, <2>2
  <2>3. CASE corr'[c] # corr[c]
    BY <1>2, <2>1, <2>3, RowFields, NoneIsNoMark
  <2> QED BY <2>2, <2>3
<1>3. ASSUME NEW r \in Client, Deciding(r)'
      PROVE  /\ request'[r].op = "accept" /\ corr'[request'[r].about].state # "none" =>
                   corr'[request'[r].about].remark # None
             /\ request'[r].op = "override" => request'[r].total # None
  <2>1. CASE request'[r] = request[r]
    <3> DEFINE c == request[r].about
    <3>1. /\ c \in Correction /\ (Sent(c) \/ Gone(c[1]))
          /\ request[r].op = "accept" /\ Sent(c) => corr[c].remark # None
          /\ request[r].op = "override" => request[r].total # None
      BY <1>3, <2>1 DEF Deciding, RequestIsAbout, RowsFollowScript, DecisionsHaveMarks
    <3>2. ASSUME request[r].op = "accept", corr'[c].state # "none"
          PROVE  corr'[c].remark # None
      <4>1. Sent(c)'
        BY <2>1, <3>2 DEF Sent
      <4>2. CASE Sent(c)
        BY <1>2, <3>1, <3>2, <4>1, <4>2 DEF Sent
      <4>3. CASE ~Sent(c)
        <5>1. corr'[c] # NoRow /\ corr'[c] # corr[c]
          BY <3>2, <4>3 DEF Sent, NoRow
        <5>2. Exists(c[1])
          BY <3>1, <4>3, <5>1, RowFields DEF Sent, AwaitingRemark, Decided
        <5> QED BY <3>1, <4>3, <5>2 DEF Exists, Gone
      <4> QED BY <4>2, <4>3
    <3> QED BY <2>1, <3>1, <3>2
  <2>2. CASE request'[r] # request[r]
    BY <1>3, <2>2, NewDecision, NoneIsNoMark
  <2> QED BY <2>1, <2>2
<1> QED BY <1>1, <1>3 DEF DecisionsHaveMarks, ReleasedHasMark, Deciding, Sent

\* The tables are empty in the beginning.
LEMMA CorrInvInit == CorrInit => CorrInv
<1> SUFFICES ASSUME CorrInit PROVE CorrInv
  OBVIOUS
<1>1. JobTypeOK /\ HandOK
  BY TypeInit DEF CorrInit
<1>2. CorrTypeOK
  <2>1. NoRow \in CorrRow /\ NoRequest \in Request
    BY DEF NoRow, CorrRow, NoRequest, Request, Scored
  <2> QED BY <1>1, <2>1 DEF CorrInit, CorrTypeOK
<1>3. RequestIsAbout /\ RowsFollowScript /\ DecisionsHaveMarks /\ ReleasedHasMark
  BY DEF CorrInit, RequestIsAbout, RowsFollowScript, DecisionsHaveMarks, ReleasedHasMark, Sent, Deciding,
     NoRow, NoRequest
<1>4. OneRemarkJob
  BY CorrAssumption DEF CorrAssumption, Correction, CorrInit, OneRemarkJob, Sent, NoRow
<1> QED BY <1>1, <1>2, <1>3, <1>4 DEF CorrInv

\* Every step keeps the invariant.
LEMMA CorrInvStep == CorrInv /\ [CorrNext]_corrVars => CorrInv'
<1> SUFFICES ASSUME CorrInv, [CorrNext]_corrVars PROVE CorrInv'
  OBVIOUS
<1>1. CorrTypeOK' /\ HandOK' /\ RequestIsAbout'
  BY CorrTypeStep DEF CorrInv
<1> QED BY <1>1, RowsFollowStep, DecisionsStep DEF CorrInv

\* The corrections, their photos, jobs and requests keep their types.
THEOREM CorrTypesHold == CorrSpec => []CorrTypeOK
<1>1. CorrInv => CorrTypeOK
  BY DEF CorrInv
<1> QED BY <1>1, CorrInvInit, CorrInvStep, PTL DEF CorrSpec

-----------------------------------------------------------------------------
(* Photos and decisions, while the teacher waits for each decision *)

\* A photo is retired in the transaction that makes its correction final, and nothing that is
\* final is decided again.
LEMMA SerialStep ==
    ASSUME SerialDecisions, CorrInv, SerialInv, [CorrNext]_corrVars
    PROVE  SerialInv'
<1> USE DEF CorrInv, SerialInv
<1>1. ASSUME NEW c \in Correction, ~Final(c), NEW r \in Client, Deciding(r)
      PROVE  ~Final(c)'
  <2>1. CASE corr'[c] = corr[c]
    BY <1>1, <2>1 DEF Final
  <2>2. CASE corr'[c] = NoRow
    BY <2>2 DEF Final, NoRow
  <2>3. CASE corr'[c] # corr[c] /\ corr'[c] # NoRow
    BY <1>1, <2>3, RowFields DEF Final, InTime, Deciding
  <2> QED BY <2>1, <2>2, <2>3
<1>2. NoneDecidesFinal'
  <2> SUFFICES ASSUME NEW r \in Client, Deciding(r)'
               PROVE  corr'[request'[r].about].state \notin {"released", "rejected"}
    BY DEF NoneDecidesFinal, Final
  <2>1. CASE request'[r] = request[r]
    <3>1. Deciding(r) /\ request[r].about \in Correction /\ ~Final(request[r].about)
      BY <2>1 DEF Deciding, NoneDecidesFinal, RequestIsAbout
    <3> DEFINE c == request[r].about
    <3>2. corr'[c].state \notin {"released", "rejected"}
      BY <1>1, <3>1 DEF Final
    <3> QED BY <2>1, <3>2
  <2>2. CASE request'[r] # request[r]
    BY <2>2, NewDecision DEF Final
  <2> QED BY <2>1, <2>2
<1>3. ASSUME NEW c \in Correction
      PROVE  /\ photo'[c] = "deleted" => corr'[c].state \in {"released", "rejected"}
             /\ photo'[c] = "kept" /\ corr'[c].state \in {"released", "rejected"} => KeepPhotos
  <2> DEFINE Right == /\ photo'[c] = "deleted" => corr'[c].state \in {"released", "rejected"}
                      /\ photo'[c] = "kept" /\ corr'[c].state \in {"released", "rejected"} => KeepPhotos
  <2>0. /\ photo[c] = "deleted" => Final(c)
        /\ photo[c] = "kept" /\ Final(c) => KeepPhotos
    BY DEF PhotoGoesWhenFinal
  <2> USE DEF CorrTypeOK
  <2>1. ASSUME NEW s \in Submission, ScriptGoes(s)
        PROVE  Right
    BY <2>0, <2>1 DEF ScriptGoes, NoRow, Final
  <2>2. ASSUME NEW r \in Client, SendCommit(r)
        PROVE  Right
    <3> DEFINE d == request[r].about
    <3>1. CASE corr' = corr /\ photo' = photo
      BY <2>0, <3>1 DEF Final
    <3>2. CASE ~(corr' = corr /\ photo' = photo)
      <4>1. /\ corr' = [corr EXCEPT ![d] = SentRow]
            /\ photo' \in {[photo EXCEPT ![d] = p] : p \in {"none", "kept"}}
        BY <2>2, <3>2 DEF SendCommit
      <4>2. CASE c = d
        BY <4>1, <4>2 DEF SentRow, NoRow
      <4>3. CASE c # d
        BY <2>0, <4>1, <4>3 DEF Final
      <4> QED BY <4>2, <4>3
    <3> QED BY <3>1, <3>2
  <2>3. ASSUME NEW r \in Client, DecideWrite(r)
        PROVE  Right
    <3> DEFINE d == request[r].about
    <3>1. Deciding(r) /\ ~Final(d)
      BY <2>3 DEF DecideWrite, Deciding, NoneDecidesFinal
    <3>2. CASE c = d
      <4>1. ~Final(c) /\ photo'[c] = photo[c]
        BY <2>3, <3>1, <3>2 DEF DecideWrite
      <4>2. corr'[c].state \notin {"released", "rejected"}
        BY <1>1, <3>1, <4>1 DEF Final
      <4> QED BY <2>0, <4>1, <4>2
    <3>3. CASE c # d
      BY <2>0, <2>3, <3>3 DEF DecideWrite, Final
    <3> QED BY <3>2, <3>3
  <2>4. ASSUME NEW d \in Correction, Reject(d)
        PROVE  Right
    BY <2>0, <2>4 DEF Reject, Retired, Final
  <2>5. CASE ReleaseCorrections
    BY <2>0, <2>5 DEF ReleaseCorrections, Retired, Final, Decided
  <2>6. ASSUME NEW w \in Worker, RemarkStep(w)
        PROVE  Right
    <3>1. photo' = photo
      BY <2>6 DEF RemarkStep, Begin, RecordError, Raise, Settle, Store
    <3>2. CASE corr'[c] = corr[c]
      BY <2>0, <3>1, <3>2 DEF Final
    <3>3. CASE corr'[c] # corr[c]
      <4> DEFINE d == About(w)
      <4>1. AwaitingRemark(d) /\ c = d
        BY <2>6, <3>3 DEF RemarkStep, Begin, RecordError, Raise, Settle, Store
      <4>2. \/ corr' = [corr EXCEPT ![d].failed = TRUE]
            \/ \E total \in Mark, max \in SchemeMax :
                 corr' = [corr EXCEPT ![d].state = "remarked", ![d].remark = total, ![d].max = max, ![d].failed = FALSE]
        BY <2>6, <3>3 DEF RemarkStep, Begin, RecordError, Raise, Settle, Store
      <4>3. corr'[c].state \in {"submitted", "remarked"}
        <5>1. corr[c] \in CorrRow
          OBVIOUS
        <5>2. CASE corr' = [corr EXCEPT ![d].failed = TRUE]
          <6>1. corr'[c] = [corr[c] EXCEPT !.failed = TRUE]
            BY <4>1, <5>2
          <6> QED BY <4>1, <5>1, <6>1 DEF AwaitingRemark, CorrRow
        <5>3. ASSUME NEW total \in Mark, NEW max \in SchemeMax,
                     corr' = [corr EXCEPT ![d].state = "remarked", ![d].remark = total, ![d].max = max, ![d].failed = FALSE]
              PROVE  corr'[c].state = "remarked"
          <6>1. corr'[c] = [corr[c] EXCEPT !.state = "remarked", !.remark = total, !.max = max, !.failed = FALSE]
            BY <4>1, <5>3
          <6> QED BY <5>1, <6>1 DEF CorrRow
        <5> QED BY <4>2, <5>2, <5>3
      <4> QED BY <2>0, <3>1, <4>1, <4>3 DEF AwaitingRemark, Final
    <3> QED BY <3>2, <3>3
  <2>7. ASSUME \/ WindowMoves \/ UNCHANGED corrVars
               \/ \E s \in Submission : ScriptComes(s)
               \/ \E r \in Client, d \in Correction : SendCheck(r, d)
               \/ \E r \in Client, d \in Correction, op \in {"accept", "override"}, total \in Scored :
                     DecideCheck(r, d, op, total)
               \/ \E w \in Worker : WorkerProcess(w)
               \/ \E w \in Worker, j \in Job : ClaimRemark(w, j)
               \/ \E j \in Job : Elapse(j)
        PROVE  corr' = corr /\ photo' = photo
    BY <2>7 DEF WindowMoves, corrVars, ScriptComes, SendCheck, DecideCheck, WorkerProcess, ClaimRemark, Elapse
  <2>8. corr' = corr /\ photo' = photo => Right
    BY <2>0 DEF Final
  <2> QED BY <2>1, <2>2, <2>3, <2>4, <2>5, <2>6, <2>7, <2>8 DEF CorrNext
<1> QED BY <1>2, <1>3 DEF PhotoGoesWhenFinal, Final

\* A correction is whole at every stage: one job from the moment it is sent, a mark behind every
\* decision, and its photo until it is final and no longer.
THEOREM CorrectionsAreWhole ==
    ASSUME SerialDecisions
    PROVE  CorrSpec => []CorrectionIsWhole
<1>1. CorrInit => SerialInv
  BY DEF CorrInit, SerialInv, NoneDecidesFinal, PhotoGoesWhenFinal, Deciding, Final, NoRequest, NoRow
<1>2. CorrInv /\ SerialInv /\ [CorrNext]_corrVars => SerialInv'
  BY SerialStep
<1>3. CorrInv /\ SerialInv => CorrectionIsWhole
  BY DEF CorrInv, SerialInv, CorrectionIsWhole
<1> QED BY <1>1, <1>2, <1>3, CorrInvInit, CorrInvStep, PTL DEF CorrSpec

\* What a request, a release or a late re-mark may do to a row that is decided or final.
LEMMA DecisionStays ==
    ASSUME CorrInv, SerialInv, [CorrNext]_corrVars, NEW c \in Correction
    PROVE  /\ Final(c) => corr'[c] \in {corr[c], NoRow}
           /\ c \in Decided => /\ corr'[c].state \notin {"submitted", "remarked"}
                               /\ corr'[c].remark # corr[c].remark => corr'[c] = NoRow
<1> USE DEF CorrInv, SerialInv
<1>1. CASE corr'[c] = corr[c]
  BY <1>1 DEF Decided
<1>2. CASE corr'[c] = NoRow
  BY <1>2 DEF NoRow
<1>3. CASE corr'[c] # corr[c] /\ corr'[c] # NoRow
  <2>1. ASSUME NEW r \in Client, Deciding(r), request[r].about = c
        PROVE  ~Final(c)
    BY <2>1 DEF NoneDecidesFinal
  <2>2. c \in Decided => Sent(c) /\ ~AwaitingRemark(c) /\ ~Final(c)
    BY DEF Decided, Sent, AwaitingRemark, Final
  <2>3. Final(c) => Sent(c) /\ ~AwaitingRemark(c)
    BY DEF Sent, AwaitingRemark, Final
  <2> QED BY <1>3, <2>1, <2>2, <2>3, RowFields
<1> QED BY <1>1, <1>2, <1>3

\* No decision of the teacher is undone, neither by another request nor by a late re-mark.
THEOREM TeacherDecisionsStay ==
    ASSUME SerialDecisions
    PROVE  CorrSpec => DecisionsStay
<1>1. CorrInit => SerialInv
  BY DEF CorrInit, SerialInv, NoneDecidesFinal, PhotoGoesWhenFinal, Deciding, Final, NoRequest, NoRow
<1>2. CorrInv /\ SerialInv /\ [CorrNext]_corrVars => SerialInv'
  BY SerialStep
<1>3. CorrInv /\ SerialInv /\ [CorrNext]_corrVars =>
        [\A c \in Correction : Final(c) => corr'[c] \in {corr[c], NoRow}]_corrVars
  BY DecisionStays
<1>4. CorrInv /\ SerialInv /\ [CorrNext]_corrVars =>
        [\A c \in Decided : /\ corr'[c].state \notin {"submitted", "remarked"}
                            /\ corr'[c].remark # corr[c].remark => corr'[c] = NoRow]_corrVars
  BY DecisionStays DEF Decided
<1> QED BY <1>1, <1>2, <1>3, <1>4, CorrInvInit, CorrInvStep, PTL
        DEF CorrSpec, DecisionsStay, FinalStays, DecidedStays

\* A row is inserted as sent once; an error that is stored only leaves it with a mark.
LEMMA WaitingStep ==
    ASSUME CorrInv, [CorrNext]_corrVars, NEW c \in Correction, StudentStatus(c) = "waiting"
    PROVE  StudentStatus(c)' # "sent"
<1> USE DEF CorrInv
<1>1. corr[c].state = "submitted" => corr[c].failed
  BY DEF StudentStatus
<1>2. Sent(c)
  BY DEF StudentStatus, Sent
<1>3. ASSUME corr'[c].state = "submitted"
      PROVE  corr'[c].failed
  <2>1. corr'[c] # NoRow
    BY <1>3 DEF NoRow
  <2> QED BY <1>1, <1>2, <1>3, <2>1, RowFields
<1>4. corr'[c].state \in {"none", "submitted", "remarked", "accepted", "overridden", "released", "rejected"}
  <2>1. corr'[c] \in CorrRow
    BY CorrTypeStep DEF CorrTypeOK
  <2> QED BY <2>1 DEF CorrRow
<1> QED BY <1>3, <1>4 DEF StudentStatus, Final

\* What a student is told of a correction never goes back from "with the teacher" to "sent".
THEOREM StudentsNeverSeeBack == CorrSpec => StudentNeverSeesBack
<1>1. CorrInv /\ [CorrNext]_corrVars =>
        [\A c \in Correction : StudentStatus(c) = "waiting" => StudentStatus(c)' # "sent"]_corrVars
  BY WaitingStep
<1> QED BY <1>1, CorrInvInit, CorrInvStep, PTL DEF CorrSpec, StudentNeverSeesBack

-----------------------------------------------------------------------------
(* A correction that is sent has a job, while no database error comes between *)

\* The student sees it as sent: neither a mark nor an error has been written to it.
Unread(row) == row.state = "submitted" /\ ~row.failed

\* A job goes on while its correction is unread: a thread that is about to end one has answered its
\* correction first, or has told it the error.  Jobs have no submission, so no removal takes them.
JobsAnswer ==
    /\ \A j \in Job : /\ job[j].sub = None
                      /\ job[j].state # "free" => about[j] \in Correction
                      /\ about[j] # None /\ Unread(corr[about[j]]) => Active(j)
    /\ \A w \in Worker : /\ worker[w].job # None => job[worker[w].job].state # "free"
                         /\ worker[w].pc = "finishing" \/ At(w, "raised") => ~Unread(corr[About(w)])

\* A thread that may end its job: it has returned, or raised an error it has recorded, or its correction is gone.
Ends(w) == worker[w].pc = "finishing" \/ At(w, "raised") \/ (At(w, "begin") /\ ~Sent(About(w)))

\* The ways one row of the queue can change in a step.
JobMoves(j) ==
    \/ job'[j].state = job[j].state /\ job'[j].sub = job[j].sub
    \/ job[j].state = "free" /\ job'[j].state = "queued" /\ job'[j].sub = None /\ about'[j] \in Correction
    \/ job[j].state # "free" /\ job'[j].state \in {"queued", "running"} /\ job'[j].sub = job[j].sub
    \/ /\ job[j].state # "free" /\ job'[j].state \in {"done", "failed"} /\ job'[j].sub = job[j].sub
       /\ \E w \in Worker : worker[w].job = j /\ Ends(w)

\* There are no other ways.
LEMMA JobMove ==
    ASSUME MaxFaults = 0, CorrInv, JobsAnswer, [CorrNext]_corrVars, NEW j \in Job
    PROVE  JobMoves(j)
<1>1. /\ job \in [Job -> Row] /\ about \in [Job -> Correction \cup {None}] /\ faults = 0
      /\ job[j].sub = None /\ None \notin Submission
      /\ \A w \in Worker : worker[w].pc \in {"running", "finishing"} =>
            worker[w].job \in Job /\ job[worker[w].job].state # "free"
  BY NoneIsNoJob, JobAssumption DEF CorrInv, CorrTypeOK, JobTypeOK, HandOK, JobsAnswer, JobAssumption
<1>2. job' = job => JobMoves(j)
  BY DEF JobMoves
<1>3. ASSUME NEW w \in Worker, NEW st \in {"done", "failed"}, worker[w].pc \in {"running", "finishing"},
             job' = RowState(worker[w].job, st), Ends(w)
      PROVE  JobMoves(j)
  <2>1. CASE job' = job
    BY <1>2, <2>1
  <2>2. CASE job' # job
    <3>1. job' = [job EXCEPT ![worker[w].job].state = st]
      BY <1>3, <2>2 DEF RowState
    <3>2. CASE worker[w].job = j
      BY <1>1, <1>3, <3>1, <3>2 DEF JobMoves, Row
    <3>3. CASE worker[w].job # j
      BY <1>1, <1>3, <3>1, <3>3 DEF JobMoves, Row
    <3> QED BY <3>2, <3>3
  <2> QED BY <2>1, <2>2
<1>4. ASSUME NEW w \in Worker, RetryLater(w)
      PROVE  JobMoves(j)
  <2>1. worker[w].job \in Job /\ job[worker[w].job].state # "free"
    BY <1>1, <1>4 DEF RetryLater
  <2>2. job' = job \/ job' = [job EXCEPT ![worker[w].job].state = "queued", ![worker[w].job].later = TRUE]
    BY <1>4 DEF RetryLater
  <2> QED BY <1>1, <1>2, <2>1, <2>2 DEF JobMoves, Row
<1>5. ASSUME NEW w \in Worker, RemarkStep(w)
      PROVE  JobMoves(j)
  <2>1. CASE Begin(w) /\ Fail(w) /\ ~Sent(About(w))
    <3>1. Ends(w) /\ worker[w].pc = "running"
      BY <2>1 DEF Begin, Ends, At
    <3> QED BY <1>3, <2>1, <3>1 DEF Fail, FailJob
  <2>2. CASE Raise(w)
    <3>1. Ends(w) /\ worker[w].pc = "running"
      BY <2>2 DEF Raise, Ends, At
    <3> QED BY <1>3, <1>4, <2>2, <3>1 DEF Raise, Fail, FailJob
  <2>3. CASE Settle(w)
    <3>1. Finish(w)
      BY <1>1, <2>3 DEF Settle, WriteFails, SettleLost
    <3>2. Ends(w) /\ worker[w].pc = "finishing"
      BY <3>1 DEF Finish, Ends
    <3> QED BY <1>3, <3>1, <3>2 DEF Finish
  <2>4. CASE job' = job
    BY <1>2, <2>4
  <2> QED BY <1>5, <2>1, <2>2, <2>3, <2>4 DEF RemarkStep, Begin, RecordError, Store, RunnerReturns, jobVars
<1>6. ASSUME NEW w \in Worker, WorkerProcess(w)
      PROVE  JobMoves(j)
  <2>1. CASE Start(w)
    BY <1>1, <2>1 DEF Start, Interrupted, JobMoves, Row
  <2>2. CASE Crash(w)
    BY <1>2, <2>2 DEF Crash
  <2> QED BY <1>6, <2>1, <2>2 DEF WorkerProcess
<1>7. ASSUME NEW w \in Worker, NEW i \in Job, ClaimRemark(w, i)
      PROVE  JobMoves(j)
  <2>1. job[i].state = "queued" /\ job' = [job EXCEPT ![i].state = "running", ![i].attempts = @ + 1]
    BY <1>7 DEF ClaimRemark, Claim, Oldest, Ready
  <2> QED BY <1>1, <2>1 DEF JobMoves, Row
<1>8. ASSUME NEW r \in Client, SendCommit(r)
      PROVE  JobMoves(j)
  <2>1. CASE UNCHANGED jobVars
    BY <1>2, <2>1 DEF jobVars
  <2>2. ASSUME NEW i \in Job, EnqueueUnique(i, None), about' = [about EXCEPT ![i] = request[r].about]
        PROVE  JobMoves(j)
    <3>1. request[r].about \in Correction
      BY <1>8 DEF SendCommit, CorrInv, RequestIsAbout
    <3>2. job[i].state = "free" /\ job' = [job EXCEPT ![i] = NewRow(None, None)]
      BY <2>2 DEF EnqueueUnique, NextId
    <3> QED BY <1>1, <2>2, <3>1, <3>2 DEF JobMoves, NewRow, FreeRow
  <2> QED BY <1>8, <2>1, <2>2 DEF SendCommit
<1>9. ASSUME NEW s \in Submission, ScriptComes(s) \/ ScriptGoes(s)
      PROVE  JobMoves(j)
  <2>1. job' = job \/ job' = [i \in Job |-> IF job[i].sub = s THEN [job[i] EXCEPT !.state = "deleted"] ELSE job[i]]
    BY <1>9 DEF ScriptComes, ScriptGoes, Upload, OthersWrite, Forget
  <2> QED BY <1>1, <1>2, <2>1 DEF JobMoves
<1>10. ASSUME NEW i \in Job, Elapse(i)
       PROVE  JobMoves(j)
  <2>1. job' = [job EXCEPT ![i].later = FALSE]
    BY <1>10 DEF Elapse, BackoffOver
  <2> QED BY <1>1, <2>1 DEF JobMoves, Row
<1>11. ASSUME \/ WindowMoves \/ ReleaseCorrections \/ UNCHANGED corrVars
              \/ \E r \in Client : DecideWrite(r)
              \/ \E c \in Correction : Reject(c)
              \/ \E r \in Client, c \in Correction : SendCheck(r, c)
              \/ \E r \in Client, c \in Correction, op \in {"accept", "override"}, total \in Scored :
                    DecideCheck(r, c, op, total)
       PROVE  job' = job
  BY <1>11 DEF WindowMoves, ReleaseCorrections, DecideWrite, Reject, SendCheck, DecideCheck, corrVars, jobVars
<1> QED BY <1>2, <1>5, <1>6, <1>7, <1>8, <1>9, <1>10, <1>11 DEF CorrNext


\* Nothing a job is about becomes unread again.
LEMMA UnreadStays ==
    ASSUME CorrInv, [CorrNext]_corrVars, NEW j \in Job, NEW c \in Correction, about[j] = c, Unread(corr'[c])
    PROVE  Unread(corr[c])
<1>1. c # None
  BY CorrAssumption DEF CorrAssumption, Correction
<1>2. Sent(c) \/ Gone(c[1])
  BY <1>1 DEF CorrInv, RowsFollowScript
<1>3. ~Sent(c) => ~Exists(c[1])
  BY <1>2 DEF Gone, Exists
<1>4. CorrTypeOK /\ HandOK /\ RequestIsAbout
  BY DEF CorrInv
<1>5. corr'[c] # NoRow
  BY DEF NoRow, Unread
<1> QED BY <1>3, <1>4, <1>5, RowFields DEF Unread

\* The ways one thread can move in a step.
ThreadMoves(w) ==
    \/ worker'[w] = worker[w] /\ remark'[w] = remark[w]
    \/ worker'[w].job = None /\ worker'[w].pc \in {"down", "idle"}
    \/ \E i \in Job : /\ worker'[w].job = i /\ worker'[w].pc = "running" /\ remark'[w] = "begin"
                      /\ job[i].state = "queued"
    \/ worker'[w] = worker[w] /\ remark'[w] = "asked" /\ worker[w].pc = "running"
    \/ /\ worker'[w].job = worker[w].job /\ worker[w].pc = "running"
       /\ worker'[w].pc = "finishing" \/ (worker'[w].pc = "running" /\ remark'[w] = "raised")
       /\ ~Unread(corr'[About(w)])

\* There are no other ways.
LEMMA ThreadMove ==
    ASSUME CorrInv, JobsAnswer, [CorrNext]_corrVars, NEW w \in Worker
    PROVE  ThreadMoves(w)
<1>1. /\ worker \in [Worker -> Thread] /\ remark \in [Worker -> {"off", "begin", "asked", "raised"}]
      /\ corr \in [Correction -> CorrRow]
      /\ worker[w].pc = "running" => About(w) \in Correction
  BY NoneIsNoJob DEF CorrInv, CorrTypeOK, JobTypeOK, HandOK, JobsAnswer, About
<1>2. worker'[w] = worker[w] /\ remark'[w] = remark[w] => ThreadMoves(w)
  BY DEF ThreadMoves
<1>3. ASSUME NEW v \in Worker, RemarkStep(v) \/ WorkerProcess(v) \/ \E i \in Job : ClaimRemark(v, i), v # w
      PROVE  ThreadMoves(w)
  BY <1>1, <1>2, <1>3
     DEF RemarkStep, WorkerProcess, ClaimRemark, Begin, RecordError, Raise, Settle, Store, Goto, RunnerReturns,
         Fail, FailJob, RetryLater, Finish, WriteFails, SettleLost, Start, Crash, Claim, jobVars
<1>4. ASSUME RemarkStep(w)
      PROVE  ThreadMoves(w)
  <2>1. CASE worker' = [worker EXCEPT ![w] = Idle]
    BY <1>1, <2>1 DEF ThreadMoves, Idle
  <2>2. ASSUME Begin(w), ~(worker' = [worker EXCEPT ![w] = Idle])
        PROVE  ThreadMoves(w)
    <3>1. CASE Final(About(w)) /\ RunnerReturns(w, "done")
      <4>1. worker[w].pc = "running" /\ worker'[w].pc = "finishing" /\ worker'[w].job = worker[w].job
        BY <1>1, <3>1 DEF RunnerReturns, Thread
      <4>2. corr' = corr /\ ~Unread(corr[About(w)])
        BY <2>2, <3>1 DEF Begin, Final, Unread
      <4> QED BY <4>1, <4>2 DEF ThreadMoves
    <3>2. CASE Goto(w, "asked") /\ UNCHANGED jobVars /\ worker[w].pc = "running"
      BY <1>1, <3>2 DEF ThreadMoves, Goto, jobVars
    <3> QED BY <2>2, <3>1, <3>2 DEF Begin, Fail, FailJob, At
  <2>3. ASSUME NEW total \in Mark, NEW max \in SchemeMax, Store(w, total, max)
        PROVE  ThreadMoves(w)
    <3>1. worker[w].pc = "running" /\ worker'[w].pc = "finishing" /\ worker'[w].job = worker[w].job
      BY <1>1, <2>3 DEF Store, RunnerReturns, Thread
    <3>2. ~Unread(corr'[About(w)])
      <4>1. About(w) \in Correction
        BY <1>1, <3>1
      <4>2. CASE AwaitingRemark(About(w))
        BY <1>1, <2>3, <4>1, <4>2 DEF Store, CorrRow, Unread
      <4>3. CASE ~AwaitingRemark(About(w))
        BY <2>3, <4>3 DEF Store, AwaitingRemark, Unread
      <4> QED BY <4>2, <4>3
    <3> QED BY <3>1, <3>2 DEF ThreadMoves
  <2>4. ASSUME RecordError(w)
        PROVE  ThreadMoves(w)
    <3>1. worker' = worker /\ worker[w].pc = "running" /\ remark'[w] = "raised"
      BY <1>1, <2>4 DEF RecordError, Goto, At, jobVars
    <3>2. ~Unread(corr'[About(w)])
      <4>1. About(w) \in Correction
        BY <1>1, <3>1
      <4>2. CASE AwaitingRemark(About(w))
        BY <1>1, <2>4, <4>1, <4>2 DEF RecordError, CorrRow, Unread
      <4>3. CASE ~AwaitingRemark(About(w))
        BY <2>4, <4>3 DEF RecordError, AwaitingRemark, Unread
      <4> QED BY <4>2, <4>3
    <3> QED BY <3>1, <3>2 DEF ThreadMoves
  <2> QED BY <1>4, <2>1, <2>2, <2>3, <2>4
          DEF RemarkStep, Raise, Settle, RetryLater, Fail, FailJob, Finish, WriteFails, SettleLost
<1>5. ASSUME WorkerProcess(w)
      PROVE  ThreadMoves(w)
  BY <1>1, <1>5 DEF WorkerProcess, Start, Crash, Idle, Down, ThreadMoves
<1>6. ASSUME NEW i \in Job, ClaimRemark(w, i)
      PROVE  ThreadMoves(w)
  <2>1. worker' = [worker EXCEPT ![w] = [pc |-> "running", job |-> i, tries |-> job[i].attempts + 1]]
        /\ remark' = [remark EXCEPT ![w] = "begin"] /\ job[i].state = "queued"
    BY <1>6 DEF ClaimRemark, Claim, Goto, Oldest, Ready
  <2>2. worker'[w].job = i /\ worker'[w].pc = "running" /\ remark'[w] = "begin"
    BY <1>1, <2>1
  <2> QED BY <2>1, <2>2 DEF ThreadMoves
<1>7. ASSUME \/ WindowMoves \/ ReleaseCorrections \/ UNCHANGED corrVars
             \/ \E s \in Submission : ScriptComes(s) \/ ScriptGoes(s)
             \/ \E r \in Client : SendCommit(r) \/ DecideWrite(r)
             \/ \E c \in Correction : Reject(c)
             \/ \E r \in Client, c \in Correction : SendCheck(r, c)
             \/ \E r \in Client, c \in Correction, op \in {"accept", "override"}, total \in Scored :
                   DecideCheck(r, c, op, total)
             \/ \E i \in Job : Elapse(i)
      PROVE  worker' = worker /\ remark' = remark
  BY <1>7 DEF WindowMoves, ReleaseCorrections, corrVars, jobVars, ScriptComes, ScriptGoes, Upload, OthersWrite, Forget,
     SendCommit, EnqueueUnique, DecideWrite, Reject, SendCheck, DecideCheck, Elapse, BackoffOver
<1>8. ASSUME NEW v \in Worker, RemarkStep(v) \/ WorkerProcess(v) \/ \E i \in Job : ClaimRemark(v, i)
      PROVE  ThreadMoves(w)
  BY <1>3, <1>4, <1>5, <1>6, <1>8
<1> QED BY <1>2, <1>7, <1>8 DEF CorrNext


\* Every step keeps it.
LEMMA JobsAnswerStep ==
    ASSUME MaxFaults = 0, CorrInv, JobsAnswer, [CorrNext]_corrVars
    PROVE  JobsAnswer'
<1>1. ASSUME NEW j \in Job, job[j].state # "free"
      PROVE  about'[j] = about[j] /\ about[j] \in Correction /\ about[j] # None
  <2>1. AboutMoves(j)
    BY AboutMove DEF CorrInv
  <2> QED BY <1>1, <2>1, CorrAssumption DEF AboutMoves, JobsAnswer, CorrAssumption, Correction
<1>2. ASSUME NEW j \in Job, job[j].state # "free", Unread(corr'[about[j]])
      PROVE  Unread(corr[about[j]])
  BY <1>1, <1>2, UnreadStays
<1>3. ASSUME NEW w \in Worker, Ends(w)
      PROVE  worker[w].job \in Job /\ job[worker[w].job].state # "free" /\ ~Unread(corr[About(w)])
  BY <1>3, NoneIsNoJob DEF Ends, At, JobsAnswer, CorrInv, HandOK, Unread, Sent
<1>4. CorrInv'
  BY CorrInvStep
<1>5. ASSUME NEW j \in Job
      PROVE  /\ job'[j].sub = None
             /\ job'[j].state # "free" => about'[j] \in Correction
             /\ about'[j] # None /\ Unread(corr'[about'[j]]) => job'[j].state \in {"queued", "running"}
  <2>1. JobMoves(j) /\ job[j].sub = None
    BY JobMove DEF JobsAnswer
  <2>2. CASE job[j].state = "free" /\ job'[j].state = "queued" /\ job'[j].sub = None /\ about'[j] \in Correction
    BY <2>2
  <2>3. CASE job[j].state = "free" /\ job'[j].state = "free" /\ job'[j].sub = job[j].sub
    <3>1. about'[j] = None
      BY <1>4, <2>3 DEF CorrInv, RowsFollowScript
    <3> QED BY <2>1, <2>3, <3>1
  <2>4. CASE job[j].state # "free" /\ job'[j].sub = job[j].sub
    <3>1. about'[j] = about[j] /\ about[j] \in Correction /\ about[j] # None
      BY <1>1, <2>4
    <3>2. ASSUME Unread(corr'[about'[j]])
          PROVE  job'[j].state \in {"queued", "running"}
      <4>1. Unread(corr'[about[j]])
        BY <3>1, <3>2
      <4>2. Unread(corr[about[j]])
        BY <1>2, <2>4, <4>1
      <4>3. job[j].state \in {"queued", "running"}
        BY <3>1, <4>2 DEF JobsAnswer, Active
      <4>4. CASE job'[j].state = job[j].state
        BY <4>3, <4>4
      <4>5. CASE \E w \in Worker : worker[w].job = j /\ Ends(w)
        BY <1>3, <4>2, <4>5 DEF About
      <4> QED BY <2>1, <2>4, <4>4, <4>5 DEF JobMoves
    <3> QED BY <2>1, <2>4, <3>1, <3>2
  <2> QED BY <2>1, <2>2, <2>3, <2>4 DEF JobMoves
<1>6. ASSUME NEW w \in Worker
      PROVE  /\ worker'[w].job # None => job'[worker'[w].job].state # "free"
             /\ worker'[w].pc = "finishing" \/ (worker'[w].pc = "running" /\ remark'[w] = "raised")
                   => ~Unread(corr'[about'[worker'[w].job]])
  <2> DEFINE i == worker[w].job
  <2>1. ThreadMoves(w)
    BY ThreadMove
  <2>2. ASSUME NEW j \in Job, job[j].state # "free"
        PROVE  job'[j].state # "free"
    <3>1. JobTypeOK /\ HandOK /\ [JobNext]_jobVars
      BY CorrStepIsJobStep DEF CorrInv, CorrTypeOK
    <3> QED BY <2>2, <3>1, FreeRowsWereFree
  <2>3. i # None => i \in Job /\ job[i].state # "free" /\ about'[i] = about[i]
    <3>1. i \in Job \cup {None} /\ (i # None => job[i].state # "free")
      BY DEF CorrInv, CorrTypeOK, JobTypeOK, Thread, JobsAnswer
    <3> QED BY <1>1, <3>1
  <2>4. worker[w].pc \in {"running", "finishing"} => i # None
    BY NoneIsNoJob DEF CorrInv, HandOK
  <2>5. CASE worker'[w] = worker[w] /\ remark'[w] = remark[w]
    <3>1. ASSUME worker[w].pc = "finishing" \/ (worker[w].pc = "running" /\ remark[w] = "raised")
          PROVE  ~Unread(corr'[about'[i]])
      <4>1. i # None /\ ~Unread(corr[about[i]])
        BY <2>4, <3>1 DEF At, JobsAnswer, About
      <4> QED BY <1>2, <2>3, <4>1
    <3> QED BY <2>2, <2>3, <2>5, <3>1
  <2>6. CASE worker'[w].job = None /\ worker'[w].pc \in {"down", "idle"}
    BY <2>6
  <2>7. ASSUME NEW k \in Job, worker'[w].job = k, worker'[w].pc = "running", remark'[w] = "begin",
               job[k].state = "queued"
        PROVE  /\ worker'[w].job # None => job'[worker'[w].job].state # "free"
               /\ worker'[w].pc = "finishing" \/ (worker'[w].pc = "running" /\ remark'[w] = "raised")
                     => ~Unread(corr'[about'[worker'[w].job]])
    BY <2>2, <2>7
  <2>8. CASE worker'[w] = worker[w] /\ remark'[w] = "asked" /\ worker[w].pc = "running"
    BY <2>2, <2>3, <2>8
  <2>9. CASE /\ worker'[w].job = worker[w].job /\ worker[w].pc = "running"
             /\ ~Unread(corr'[About(w)])
    <3>1. i # None /\ i \in Job /\ job'[i].state # "free" /\ about'[i] = about[i]
      BY <2>2, <2>3, <2>4, <2>9
    <3> QED BY <2>9, <3>1 DEF About
  <2> QED BY <2>1, <2>5, <2>6, <2>7, <2>8, <2>9 DEF ThreadMoves
<1> QED BY <1>5, <1>6 DEF JobsAnswer, Active, At, About

\* A correction the student sees as sent is in the queue or being re-marked: whatever workers start beside
\* each other and die, its job does not end before the correction has its mark, or the error is written to it
\* (remark_job.py), if no write of a worker meets a database error.
THEOREM SentHaveJobs ==
    ASSUME MaxFaults = 0
    PROVE  CorrSpec => []SentHasJob
<1>1. CorrInit => CorrInv /\ JobsAnswer
  <2> SUFFICES ASSUME CorrInit PROVE JobsAnswer
    BY CorrInvInit
  <2> QED BY DEF CorrInit, JobInit, JobsAnswer, FreeRow, Down, At
<1>2. CorrInv /\ JobsAnswer /\ [CorrNext]_corrVars => (CorrInv /\ JobsAnswer)'
  BY CorrInvStep, JobsAnswerStep
<1>3. ASSUME CorrInv, JobsAnswer
      PROVE  SentHasJob
  <2> SUFFICES ASSUME NEW c \in Correction, StudentStatus(c) = "sent"
               PROVE  \E j \in Job : about[j] = c /\ Active(j)
    BY DEF SentHasJob
  <2>1. Unread(corr[c]) /\ Sent(c)
    <3>1. corr[c] \in CorrRow
      BY <1>3 DEF CorrInv, CorrTypeOK
    <3>2. corr[c].state \in {"none", "submitted", "remarked", "accepted", "overridden", "released", "rejected"}
      BY <3>1 DEF CorrRow
    <3> QED BY <3>2 DEF StudentStatus, Unread, Sent, Final
  <2>2. PICK j \in Job : about[j] = c
    BY <1>3, <2>1 DEF CorrInv, OneRemarkJob
  <2>3. c # None
    BY CorrAssumption DEF CorrAssumption, Correction
  <2> QED BY <1>3, <2>1, <2>2, <2>3 DEF JobsAnswer
<1> QED BY <1>1, <1>2, <1>3, PTL DEF CorrSpec
=============================================================================
