--------------------------- MODULE MarkingProofs ---------------------------
(***************************************************************************)
(* Theorems about MarkingLifecycle: it is a use of the job queue, so what  *)
(* JobStoreProofs proves of the queue holds of it; its types; that a       *)
(* teacher decides an escalated part once.                                 *)
(*                                                                         *)
(* Retries.  A script has one job on its way because a retry is allowed    *)
(* by the latest row of the script only, and a request that has seen       *)
(* this row failed is the only one (RetryInv); it survives crashes,        *)
(* lost writes and requests that die.                                      *)
(*                                                                         *)
(* Outcomes.  While no job is run twice (Quiet), the run of a script is    *)
(* drawn by its one job, and its status, items and media agree with how    *)
(* far that job has got (ScriptInv).  The invariant speaks of each script  *)
(* alone; what a step leaves of a script is stated once (ScriptKept), so   *)
(* that each action is proved for the script it moves.                     *)
(***************************************************************************)
EXTENDS MarkingLifecycle, JobStoreProofs

\* A request that is about a submission names one.
RequestOK ==
    \A c \in Client : request[c].op \in {"enqueue", "reconcile", "remove"} => request[c].sub \in Submission

-----------------------------------------------------------------------------
(* The queue underneath *)

\* Resolving and reconciling write a status that the queue lets others write.
LEMMA ReconcileIsJobStep ==
    ASSUME NEW s \in Submission, Reconcile(s)
    PROVE  [JobNext]_jobVars
BY DEF Reconcile, JobNext

\* Each way a mark job ends is one of the queue's.
LEMMA SettleIsJobStep ==
    ASSUME NEW w \in Worker, Settle(w)
    PROVE  JobNext
<1>1. Finish(w) \/ Fail(w) \/ RetryLater(w) \/ WriteFails(w) \/ SettleLost(w)
  BY DEF Settle
<1> QED BY <1>1 DEF JobNext, RunnerStep

\* Every step of a script's life is a step of the queue, or leaves the queue alone.
LEMMA LifeStepIsJobStep ==
    ASSUME LifeTypeOK, RequestOK, [LifeNext]_lifeVars
    PROVE  [JobNext]_jobVars
<1>1. ASSUME NEW c \in Client, NEW s \in Submission,
             CreateSubmission(c, s) \/ Retry(c, s) \/ RemoveCheck(c, s)
      PROVE  [JobNext]_jobVars
  BY <1>1 DEF CreateSubmission, Retry, RemoveCheck, JobNext
<1>2. ASSUME NEW c \in Client, NEW i \in Item, CliCheck(c, i)
      PROVE  [JobNext]_jobVars
  BY <1>2 DEF CliCheck
<1>3. ASSUME NEW c \in Client, NEW i \in Item, Resolve(c, i)
      PROVE  [JobNext]_jobVars
  <2>1. runSub[i[1]] \in Submission /\ Outcome(runSub[i[1]], i) \in {"needs_you", "done"}
    BY <1>3 DEF Resolve, Resolvable, Outcome, LifeTypeOK, Item
  <2>2. OthersWrite(runSub[i[1]], Outcome(runSub[i[1]], i)) \/ UNCHANGED jobVars
    BY <1>3 DEF Resolve
  <2> QED BY <2>1, <2>2 DEF JobNext
<1>4. ASSUME NEW c \in Client, EnqueueMark(c)
      PROVE  [JobNext]_jobVars
  <2>1. request[c].sub \in Submission
    BY <1>4 DEF EnqueueMark, RequestOK
  <2>2. (\E j \in Job : InsertJob(j, request[c].sub)) \/ UNCHANGED jobVars
    BY <1>4 DEF EnqueueMark
  <2> QED BY <2>1, <2>2 DEF JobNext
<1>5. ASSUME NEW c \in Client, ReconcileAfter(c)
      PROVE  [JobNext]_jobVars
  <2>1. request[c].sub \in Submission
    BY <1>5 DEF ReconcileAfter, RequestOK
  <2> QED BY <1>5, <2>1, ReconcileIsJobStep DEF ReconcileAfter
<1>6. ASSUME NEW c \in Client, RemoveHandIn(c)
      PROVE  [JobNext]_jobVars
  <2>1. request[c].sub \in Submission
    BY <1>6 DEF RemoveHandIn, RequestOK
  <2>2. Forget(request[c].sub) \/ UNCHANGED jobVars
    BY <1>6 DEF RemoveHandIn
  <2> QED BY <2>1, <2>2 DEF JobNext
<1>7. ASSUME NEW c \in Client, CliMark(c) \/ CliCorrect(c) \/ RequestDies(c)
      PROVE  [JobNext]_jobVars
  BY <1>7 DEF CliMark, CliCorrect, RequestDies
<1>8. ASSUME NEW w \in Worker, MarkStep(w)
      PROVE  [JobNext]_jobVars
  <2>1. ASSUME Record(w)
        PROVE  [JobNext]_jobVars
    BY <2>1 DEF Record, JobNext, RunnerStep
  <2>2. ASSUME Read(w) \/ StoreCrops(w) \/ Tidy(w) \/ TidyFails(w)
        PROVE  [JobNext]_jobVars
    BY <2>2 DEF Read, StoreCrops, Tidy, TidyFails
  <2>3. ASSUME NEW escalated \in SUBSET Part, Persist(w, escalated)
        PROVE  [JobNext]_jobVars
    BY <2>3 DEF Persist
  <2>4. ASSUME NEW p \in Part, PersistItem(w, p)
        PROVE  [JobNext]_jobVars
    BY <2>4 DEF PersistItem
  <2> QED BY <1>8, <2>1, <2>2, <2>3, <2>4, SettleIsJobStep DEF MarkStep
<1>9. ASSUME NEW w \in Worker, SweepStep(w)
      PROVE  [JobNext]_jobVars
  <2>1. ASSUME NEW s \in Submission, SweepReconcile(w, s)
        PROVE  [JobNext]_jobVars
    BY <2>1, ReconcileIsJobStep DEF SweepReconcile
  <2>2. ASSUME NEW s \in Submission, SweepDelete(w, s)
        PROVE  [JobNext]_jobVars
    BY <2>2 DEF SweepDelete
  <2>3. ASSUME SweepList(w)
        PROVE  [JobNext]_jobVars
    BY <2>3 DEF SweepList
  <2> QED BY <1>9, <2>1, <2>2, <2>3 DEF SweepStep
<1>10. ASSUME NEW w \in Worker, StartWorker(w) \/ CrashWorker(w)
       PROVE  [JobNext]_jobVars
  BY <1>10 DEF StartWorker, CrashWorker, JobNext
<1>11. ASSUME NEW w \in Worker, NEW j \in Job, ClaimMark(w, j)
       PROVE  [JobNext]_jobVars
  BY <1>11 DEF ClaimMark, JobNext
<1>12. ASSUME NEW j \in Job, Elapse(j)
       PROVE  [JobNext]_jobVars
  BY <1>12 DEF Elapse, JobNext
<1>13. ASSUME UNCHANGED lifeVars
       PROVE  [JobNext]_jobVars
  BY <1>13 DEF lifeVars
<1>14. ASSUME NEW c \in Client, NewRequest(c)
       PROVE  [JobNext]_jobVars
  BY <1>1, <1>2, <1>3, <1>14 DEF NewRequest
<1>15. ASSUME NEW c \in Client, RequestStep(c)
       PROVE  [JobNext]_jobVars
  BY <1>4, <1>5, <1>6, <1>7, <1>15 DEF RequestStep
<1>16. LifeNext => [JobNext]_jobVars
  BY <1>7, <1>8, <1>9, <1>10, <1>11, <1>12, <1>14, <1>15 DEF LifeNext
<1> QED BY <1>13, <1>16

-----------------------------------------------------------------------------
(* Types *)

\* Every step keeps the types, and keeps the requests and the hands of the workers well formed.
LEMMA LifeTypeStep ==
    ASSUME LifeTypeOK, RequestOK, HandOK, [LifeNext]_lifeVars
    PROVE  LifeTypeOK' /\ RequestOK' /\ HandOK'
<1>0. JobTypeOK' /\ HandOK'
  BY LifeStepIsJobStep, TypeStep DEF LifeTypeOK
<1> DEFINE Rest == /\ minted' \in 0 .. MaxRuns
                   /\ runSub' \in [Run -> Submission \cup {None}]
                   /\ item' \in [Item -> {"none", "pending", "resolved"}]
                   /\ corrections' \in [Item -> Nat]
                   /\ runOf' \in [Submission -> Run \cup {None}]
                   /\ left' \in [Submission -> SUBSET {"page", "file", "crop"}]
                   /\ mark' \in [Worker -> MarkState]
                   /\ sweep' \in [Worker -> SUBSET Submission]
                   /\ request' \in [Client -> Request]
                   /\ RequestOK'
<1>d. \A s \in Submission : \A media : Deleted(s, media) \in [Submission -> SUBSET {"page", "file", "crop"}]
  BY DEF Deleted, LifeTypeOK
<1>r. ASSUME NEW c \in Client, NEW rq \in Request, request' = [request EXCEPT ![c] = rq],
             rq.op \in {"enqueue", "reconcile", "remove"} => rq.sub \in Submission
      PROVE  request' \in [Client -> Request] /\ RequestOK'
  BY <1>r DEF RequestOK, LifeTypeOK
<1>n. NoRequest \in Request /\ NoRequest.op = "idle"
  BY DEF NoRequest, Request
<1>t. \A s \in Submission : \A op \in {"enqueue", "reconcile", "remove"} :
        Todo(op, s) \in Request /\ Todo(op, s).sub = s
  BY DEF Todo, NoRequest, Request
<1>o. MarkOff \in MarkState
  BY DEF MarkOff, MarkState
<1>1. ASSUME NEW c \in Client, NEW s \in Submission, CreateSubmission(c, s)
      PROVE  Rest
  <2>1. left' \in [Submission -> SUBSET {"page", "file", "crop"}]
    BY <1>1, LifeAssumption DEF CreateSubmission, LifeTypeOK, LifeAssumption
  <2> QED BY <1>1, <1>r, <1>t, <2>1 DEF CreateSubmission, LifeTypeOK
<1>2. ASSUME NEW c \in Client, NEW s \in Submission, Retry(c, s) \/ RemoveCheck(c, s)
      PROVE  Rest
  BY <1>2, <1>r, <1>t DEF Retry, RemoveCheck, LifeTypeOK
<1>3. ASSUME NEW c \in Client, NEW i \in Item, CliCheck(c, i)
      PROVE  Rest
  <2> DEFINE rq == [NoRequest EXCEPT !.op = "cliMark", !.item = i]
  <2>1. rq \in Request /\ rq.op = "cliMark"
    BY DEF NoRequest, Request
  <2>2. request' = [request EXCEPT ![c] = rq]
    BY <1>3 DEF CliCheck
  <2> HIDE DEF rq
  <2> QED BY <1>3, <1>r, <2>1, <2>2 DEF CliCheck, LifeTypeOK
<1>4. ASSUME NEW c \in Client, NEW i \in Item, Resolve(c, i)
      PROVE  Rest
  <2>1. runSub[i[1]] \in Submission
    BY <1>4 DEF Resolve, Resolvable, LifeTypeOK, Item
  <2>2. left' \in [Submission -> SUBSET {"page", "file", "crop"}]
    BY <1>4, <1>d, <2>1 DEF Resolve, LifeTypeOK
  <2>3. item' \in [Item -> {"none", "pending", "resolved"}] /\ corrections' \in [Item -> Nat]
    BY <1>4 DEF Resolve, LifeTypeOK
  <2>4. request' \in [Client -> Request] /\ RequestOK'
    <3>1. CASE request' = request
      BY <3>1 DEF LifeTypeOK, RequestOK
    <3>2. CASE request' = [request EXCEPT ![c] = Todo("reconcile", runSub[i[1]])]
      BY <1>r, <1>t, <2>1, <3>2
    <3> QED BY <1>4, <3>1, <3>2 DEF Resolve
  <2> QED BY <1>4, <2>2, <2>3, <2>4 DEF Resolve, LifeTypeOK
<1>5. ASSUME NEW c \in Client, EnqueueMark(c) \/ RequestDies(c)
      PROVE  Rest
  BY <1>5, <1>r, <1>n DEF EnqueueMark, RequestDies, LifeTypeOK
<1>6. ASSUME NEW s \in Submission, Reconcile(s)
      PROVE  left' \in [Submission -> SUBSET {"page", "file", "crop"}]
  BY <1>6, <1>d DEF Reconcile, LifeTypeOK
<1>7. ASSUME NEW c \in Client, ReconcileAfter(c)
      PROVE  Rest
  <2>1. request[c].sub \in Submission
    BY <1>7 DEF ReconcileAfter, RequestOK
  <2> QED BY <1>7, <1>r, <1>n, <1>6, <2>1 DEF ReconcileAfter, LifeTypeOK
<1>8. ASSUME NEW c \in Client, RemoveHandIn(c)
      PROVE  Rest
  <2>1. runSub' \in [Run -> Submission \cup {None}] /\ item' \in [Item -> {"none", "pending", "resolved"}]
    BY <1>8 DEF RemoveHandIn, LifeTypeOK
  <2>2. /\ runOf' \in [Submission -> Run \cup {None}]
        /\ left' \in [Submission -> SUBSET {"page", "file", "crop"}]
    BY <1>8 DEF RemoveHandIn, LifeTypeOK
  <2> QED BY <1>8, <1>r, <1>n, <2>1, <2>2 DEF RemoveHandIn, LifeTypeOK
<1>9. ASSUME NEW c \in Client, CliMark(c)
      PROVE  Rest
  <2>1. item' \in [Item -> {"none", "pending", "resolved"}]
    BY <1>9 DEF CliMark, LifeTypeOK
  <2>2. request' \in [Client -> Request] /\ RequestOK'
    BY <1>9 DEF CliMark, LifeTypeOK, RequestOK, Request
  <2> QED BY <1>9, <2>1, <2>2 DEF CliMark, LifeTypeOK
<1>10. ASSUME NEW c \in Client, CliCorrect(c)
       PROVE  Rest
  <2> DEFINE it == request[c].item
  <2>1. corrections' = [corrections EXCEPT ![it] = corrections[it] + 1] /\ corrections \in [Item -> Nat]
    BY <1>10 DEF CliCorrect, LifeTypeOK
  <2> HIDE DEF it
  <2>2. it \in Item => corrections' \in [Item -> Nat]
    <3> SUFFICES ASSUME it \in Item PROVE corrections' \in [Item -> Nat]
      OBVIOUS
    <3> DEFINE n == corrections[it] + 1
    <3>1. n \in Nat /\ corrections' = [corrections EXCEPT ![it] = n]
      BY <2>1
    <3> HIDE DEF n
    <3> QED BY <2>1, <3>1
  <2>3. it \notin Item => corrections' \in [Item -> Nat]
    BY <2>1
  <2> QED BY <1>10, <1>r, <1>n, <2>2, <2>3 DEF CliCorrect, LifeTypeOK
<1>11. ASSUME NEW w \in Worker, NEW m \in MarkState, mark' = [mark EXCEPT ![w] = m]
       PROVE  mark' \in [Worker -> MarkState]
  BY <1>11 DEF LifeTypeOK
<1>12. ASSUME NEW w \in Worker, Over(w)
       PROVE  mark' \in [Worker -> MarkState]
  BY <1>11, <1>12, <1>o DEF Over
<1>13. ASSUME NEW w \in Worker, NEW step \in {"begin", "read", "cropped", "tidy"}, Goto(w, step)
       PROVE  mark' \in [Worker -> MarkState]
  BY <1>13 DEF Goto, LifeTypeOK, MarkState
<1>14. ASSUME NEW w \in Worker, Read(w)
       PROVE  Rest
  BY <1>13, <1>14 DEF Read, LifeTypeOK, RequestOK
<1>15. ASSUME NEW w \in Worker, NEW escalated \in SUBSET Part, Persist(w, escalated)
       PROVE  Rest
  <2>1. worker[w].pc = "running"
    BY <1>15 DEF Persist, At
  <2>2. ScriptOf(w) \in Submission \cup {None}
    BY <2>1 DEF HandOK, ScriptOf, LifeTypeOK, JobTypeOK, Row
  <2>3. minted + 1 \in Run /\ minted' \in 0 .. MaxRuns
    BY <1>15, LifeAssumption DEF Persist, Run, LifeTypeOK, LifeAssumption
  <2>4. runSub' \in [Run -> Submission \cup {None}]
    BY <1>15, <2>2 DEF Persist, LifeTypeOK
  <2>5. item' \in [Item -> {"none", "pending", "resolved"}]
    BY <1>15 DEF Persist, LifeTypeOK
  <2>6. mark' \in [Worker -> MarkState]
    BY <1>15, <1>11, <2>3 DEF Persist, MarkState
  <2> QED BY <1>15, <2>3, <2>4, <2>5, <2>6 DEF Persist, LifeTypeOK, RequestOK
<1>16. ASSUME NEW w \in Worker, NEW p \in Part, PersistItem(w, p)
       PROVE  Rest
  <2>1. item' \in [Item -> {"none", "pending", "resolved"}]
    BY <1>16 DEF PersistItem, LifeTypeOK
  <2>2. mark' \in [Worker -> MarkState]
    BY <1>16 DEF PersistItem, LifeTypeOK, MarkState
  <2> QED BY <1>16, <2>1, <2>2 DEF PersistItem, LifeTypeOK, RequestOK
<1>17. ASSUME NEW w \in Worker, StoreCrops(w)
       PROVE  Rest
  <2>1. left' \in [Submission -> SUBSET {"page", "file", "crop"}]
    BY <1>17 DEF StoreCrops, LifeTypeOK
  <2> QED BY <1>13, <1>17, <2>1 DEF StoreCrops, LifeTypeOK, RequestOK
<1>18. ASSUME NEW w \in Worker, Record(w)
       PROVE  Rest
  <2>1. mark[w].run \in Run \cup {None}
    BY DEF LifeTypeOK, MarkState
  <2>2. runOf' \in [Submission -> Run \cup {None}]
    BY <1>18, <2>1 DEF Record, LifeTypeOK
  <2>3. mark' \in [Worker -> MarkState]
    BY <1>12, <1>13, <1>18 DEF Record
  <2> QED BY <1>18, <2>2, <2>3 DEF Record, LifeTypeOK, RequestOK
<1>19. ASSUME NEW w \in Worker, Tidy(w)
       PROVE  Rest
  <2>1. left' \in [Submission -> SUBSET {"page", "file", "crop"}]
    BY <1>19 DEF Tidy, Deleted, LifeTypeOK
  <2> QED BY <1>12, <1>19, <2>1 DEF Tidy, LifeTypeOK, RequestOK
<1>20. ASSUME NEW w \in Worker, TidyFails(w) \/ Settle(w)
       PROVE  Rest
  BY <1>12, <1>20 DEF TidyFails, Settle, LifeTypeOK, RequestOK
<1>21. ASSUME NEW w \in Worker, NEW j \in Job, ClaimMark(w, j)
       PROVE  Rest
  BY <1>13, <1>21 DEF ClaimMark, LifeTypeOK, RequestOK
<1>22. ASSUME NEW w \in Worker, NEW s \in Submission, SweepReconcile(w, s)
       PROVE  Rest
  BY <1>6, <1>22 DEF SweepReconcile, LifeTypeOK, RequestOK
<1>23. ASSUME NEW w \in Worker, NEW s \in Submission, SweepDelete(w, s)
       PROVE  Rest
  <2>1. sweep' \in [Worker -> SUBSET Submission]
    BY <1>23 DEF SweepDelete, LifeTypeOK
  <2> QED BY <1>d, <1>23, <2>1 DEF SweepDelete, LifeTypeOK, RequestOK
<1>24. ASSUME NEW w \in Worker, SweepList(w)
       PROVE  Rest
  <2>1. sweep' \in [Worker -> SUBSET Submission]
    BY <1>24 DEF SweepList, LifeTypeOK
  <2> QED BY <1>24, <2>1 DEF SweepList, LifeTypeOK, RequestOK
<1>25. ASSUME NEW w \in Worker, StartWorker(w)
       PROVE  Rest
  BY <1>25 DEF StartWorker, LifeTypeOK, RequestOK
<1>26. ASSUME NEW w \in Worker, CrashWorker(w)
       PROVE  Rest
  <2>1. sweep' \in [Worker -> SUBSET Submission]
    BY <1>26 DEF CrashWorker, LifeTypeOK
  <2> QED BY <1>12, <1>26, <2>1 DEF CrashWorker, LifeTypeOK, RequestOK
<1>27. ASSUME NEW j \in Job, Elapse(j)
       PROVE  Rest
  BY <1>27 DEF Elapse, LifeTypeOK, RequestOK
<1>28. ASSUME UNCHANGED lifeVars
       PROVE  Rest
  BY <1>28 DEF lifeVars, LifeTypeOK, RequestOK
<1>29. ASSUME NEW c \in Client, NewRequest(c) \/ RequestStep(c) \/ RequestDies(c)
       PROVE  Rest
  BY <1>1, <1>2, <1>3, <1>4, <1>5, <1>7, <1>8, <1>9, <1>10, <1>29 DEF NewRequest, RequestStep
<1>30. ASSUME NEW w \in Worker, MarkStep(w) \/ SweepStep(w)
       PROVE  Rest
  BY <1>14, <1>15, <1>16, <1>17, <1>18, <1>19, <1>20, <1>22, <1>23, <1>24, <1>30
  DEF MarkStep, SweepStep
<1>31. LifeNext => Rest
  BY <1>21, <1>25, <1>26, <1>27, <1>29, <1>30 DEF LifeNext
<1>32. Rest
  BY <1>28, <1>31
<1> QED BY <1>0, <1>32 DEF LifeTypeOK

\* The empty database has the right types.
LEMMA LifeTypeInit == LifeInit => LifeTypeOK /\ RequestOK /\ HandOK
<1> SUFFICES ASSUME LifeInit PROVE LifeTypeOK /\ RequestOK /\ HandOK
  OBVIOUS
<1>1. JobTypeOK /\ HandOK
  BY TypeInit DEF LifeInit
<1>2. MarkOff \in MarkState /\ NoRequest \in Request /\ NoRequest.op = "idle"
  BY DEF MarkOff, MarkState, NoRequest, Request
<1>3. minted \in 0 .. MaxRuns
  BY LifeAssumption DEF LifeAssumption, LifeInit
<1>4. mark \in [Worker -> MarkState] /\ request \in [Client -> Request] /\ RequestOK
  BY <1>2 DEF LifeInit, RequestOK
<1>5. LifeTypeOK
  BY <1>1, <1>3, <1>4 DEF LifeInit, LifeTypeOK
<1> QED BY <1>1, <1>4, <1>5

\* The tables of a script's life keep their types, with any number of workers that overlap,
\* crash and are restarted under running requests.
THEOREM LifeTypeCorrect == LifeSpec => [](LifeTypeOK /\ RequestOK /\ HandOK)
BY LifeTypeInit, LifeTypeStep, PTL DEF LifeSpec

\* A script's life is a behaviour of the job queue: what is proved of the queue holds of it.
THEOREM MarkingUsesQueue == LifeSpec => JobSpec
<1>1. LifeInit => JobInit
  BY DEF LifeInit
<1>2. LifeTypeOK /\ RequestOK /\ [LifeNext]_lifeVars => [JobNext]_jobVars
  BY LifeStepIsJobStep
<1> QED BY <1>1, <1>2, LifeTypeCorrect, PTL DEF LifeSpec, JobSpec

-----------------------------------------------------------------------------
(* One decision for each escalated part *)

\* Without `sms queue resolve` no request is in the middle of one.
NoCli == \A c \in Client : request[c].op \notin {"cliMark", "cliCorrect"}

\* The items of a run that is not drawn yet, and those v1 has still to write, have never been
\* there; two threads write items of two runs.
ItemsToCome ==
    /\ \A i \in Item : i[1] > minted => item[i] = "none" /\ corrections[i] = 0
    /\ \A w \in Worker : \A p \in mark[w].todo :
          /\ mark[w].run \in 1 .. minted
          /\ item[<<mark[w].run, p>>] = "none" /\ corrections[<<mark[w].run, p>>] = 0
    /\ \A v, w \in Worker : v # w /\ mark[v].todo # {} /\ mark[w].todo # {} => mark[v].run # mark[w].run

DecisionInv == NoCli /\ ItemsToCome /\ OneDecisionPerItem

\* Every step keeps the strengthened invariant.
LEMMA DecisionStep ==
    ASSUME ~CliAllowed, LifeTypeOK, DecisionInv, [LifeNext]_lifeVars
    PROVE  DecisionInv'
<1> USE DEF DecisionInv
<1>b. minted \in Nat /\ 1 .. minted \subseteq Run /\ Run \subseteq Nat
  BY LifeAssumption DEF LifeTypeOK, Run, LifeAssumption
\* Most steps write neither items nor corrections, and add nothing to what a thread has to write.
<1>q. ASSUME UNCHANGED <<minted, item, corrections>>, NoCli',
             \A w \in Worker : mark'[w].todo # {} => mark'[w].todo = mark[w].todo /\ mark'[w].run = mark[w].run
      PROVE  DecisionInv'
  <2>1. OneDecisionPerItem'
    BY <1>q DEF OneDecisionPerItem
  <2>2. ItemsToCome'
    BY <1>q DEF ItemsToCome
  <2> QED BY <1>q, <2>1, <2>2
<1>m. ASSUME UNCHANGED <<minted, item, corrections, mark>>, NoCli'
      PROVE  DecisionInv'
  BY <1>q, <1>m
<1>w. ASSUME UNCHANGED <<minted, item, corrections, request>>, NEW w \in Worker,
             Over(w) \/ \E step \in {"begin", "read", "cropped", "tidy"} : Goto(w, step)
      PROVE  DecisionInv'
  <2>1. \A v \in Worker : mark'[v].todo # {} => mark'[v].todo = mark[v].todo /\ mark'[v].run = mark[v].run
    BY <1>w DEF Over, Goto, MarkOff, LifeTypeOK, MarkState
  <2>2. NoCli'
    BY <1>w DEF NoCli
  <2> QED BY <1>q, <1>w, <2>1, <2>2
<1>t. \A op, s : Todo(op, s).op = op
  BY DEF Todo, NoRequest
<1>n. NoRequest.op = "idle"
  BY DEF NoRequest
<1>1. ASSUME NEW c \in Client, NEW s \in Submission,
             CreateSubmission(c, s) \/ Retry(c, s) \/ RemoveCheck(c, s)
      PROVE  DecisionInv'
  <2>1. NoCli'
    BY <1>1, <1>t DEF CreateSubmission, Retry, RemoveCheck, NoCli, LifeTypeOK
  <2> QED BY <1>1, <1>m, <2>1 DEF CreateSubmission, Retry, RemoveCheck
<1>2. ASSUME NEW c \in Client, NEW i \in Item, CliCheck(c, i)
      PROVE  DecisionInv'
  BY <1>2 DEF CliCheck
<1>3. ASSUME NEW c \in Client, NEW i \in Item, Resolve(c, i)
      PROVE  DecisionInv'
  <2>1. /\ item[i] = "pending" /\ corrections[i] = 0
        /\ item' = [item EXCEPT ![i] = "resolved"]
        /\ corrections' = [corrections EXCEPT ![i] = 1]
        /\ UNCHANGED <<minted, mark>>
    <3>1. item[i] = "pending" /\ corrections[i] = 0
      BY <1>3 DEF Resolve, Resolvable, OneDecisionPerItem
    <3>2. corrections' = [corrections EXCEPT ![i] = corrections[i] + 1]
      BY <1>3 DEF Resolve
    <3> QED BY <1>3, <3>1, <3>2 DEF Resolve
  <2>2. OneDecisionPerItem'
    BY <2>1 DEF OneDecisionPerItem, LifeTypeOK
  <2>3. ItemsToCome'
    BY <2>1 DEF ItemsToCome, LifeTypeOK, Item
  <2>4. NoCli'
    BY <1>3, <1>t DEF Resolve, NoCli, LifeTypeOK
  <2> QED BY <2>2, <2>3, <2>4
<1>4. ASSUME NEW c \in Client, EnqueueMark(c) \/ ReconcileAfter(c) \/ RequestDies(c)
      PROVE  DecisionInv'
  <2>1. NoCli'
    BY <1>4, <1>n DEF EnqueueMark, ReconcileAfter, RequestDies, NoCli, LifeTypeOK
  <2> QED BY <1>4, <1>m, <2>1 DEF EnqueueMark, ReconcileAfter, RequestDies
<1>5. ASSUME NEW c \in Client, RemoveHandIn(c)
      PROVE  DecisionInv'
  <2>1. /\ \A i \in Item : item'[i] \in {item[i], "none"}
        /\ UNCHANGED <<minted, corrections, mark>>
    BY <1>5 DEF RemoveHandIn, LifeTypeOK
  <2>2. OneDecisionPerItem'
    BY <2>1 DEF OneDecisionPerItem
  <2>3. \A w \in Worker : \A p \in mark[w].todo : mark[w].run \in Run => <<mark[w].run, p>> \in Item
    BY DEF LifeTypeOK, MarkState, Item
  <2>4. 1 .. minted \subseteq Run
    BY <1>b
  <2>5. ItemsToCome'
    BY <2>1, <2>3, <2>4 DEF ItemsToCome
  <2>6. NoCli'
    BY <1>5, <1>n DEF RemoveHandIn, NoCli, LifeTypeOK
  <2> QED BY <2>2, <2>5, <2>6
<1>6. ASSUME NEW c \in Client, CliMark(c) \/ CliCorrect(c)
      PROVE  DecisionInv'
  BY <1>6 DEF CliMark, CliCorrect, NoCli
<1>7. ASSUME NEW w \in Worker, NEW escalated \in SUBSET Part, Persist(w, escalated)
      PROVE  DecisionInv'
  <2> DEFINE r == minted + 1
  <2>1. /\ minted \in Nat /\ r \in Run /\ minted' = r
        /\ UNCHANGED <<corrections, request>>
    BY <1>7 DEF Persist, LifeTypeOK
  <2>2. \A i \in Item : item'[i] = item[i] \/ (item'[i] = "pending" /\ i[1] = r)
    BY <1>7 DEF Persist, LifeTypeOK
  <2>3. \A v \in Worker : v # w => mark'[v] = mark[v]
    BY <1>7 DEF Persist, LifeTypeOK
  <2>4. /\ mark'[w].run = r
        /\ mark'[w].todo \subseteq Part
        /\ mark'[w].todo # {} => item' = item
    BY <1>7 DEF Persist, LifeTypeOK
  <2> HIDE DEF r
  <2>5. r > minted /\ r \in Nat /\ minted' \in Nat
    BY <2>1 DEF r
  <2>6. OneDecisionPerItem'
    BY <2>1, <2>2, <2>5 DEF OneDecisionPerItem, ItemsToCome, Item
  <2>7. \A i \in Item : i[1] > minted' => item'[i] = "none" /\ corrections'[i] = 0
    BY <2>1, <2>2, <2>5 DEF ItemsToCome, Item, Run
  <2>8. ASSUME NEW v \in Worker, NEW p \in mark'[v].todo
        PROVE  /\ mark'[v].run \in 1 .. minted'
               /\ item'[<<mark'[v].run, p>>] = "none" /\ corrections'[<<mark'[v].run, p>>] = 0
    <3>1. CASE v = w
      <4>1. <<r, p>> \in Item
        BY <2>1, <2>4, <2>8, <3>1 DEF Item
      <4> QED BY <2>1, <2>4, <2>5, <2>8, <3>1, <4>1 DEF ItemsToCome, Run
    <3>2. CASE v # w
      <4>1. p \in mark[v].todo /\ mark'[v] = mark[v]
        BY <2>3, <2>8, <3>2
      <4>2. /\ mark[v].run \in 1 .. minted
            /\ item[<<mark[v].run, p>>] = "none" /\ corrections[<<mark[v].run, p>>] = 0
        BY <4>1 DEF ItemsToCome
      <4>3. mark[v].run \in 1 .. minted' /\ mark[v].run # r
        BY <2>1, <2>5, <4>2
      <4>4. <<mark[v].run, p>> \in Item
        BY <1>b, <4>1, <4>2 DEF Item, LifeTypeOK, MarkState
      <4> QED BY <2>1, <2>2, <4>1, <4>2, <4>3, <4>4
    <3> QED BY <3>1, <3>2
  <2>9. ASSUME NEW u \in Worker, NEW v \in Worker, u # v, mark'[u].todo # {}, mark'[v].todo # {}
        PROVE  mark'[u].run # mark'[v].run
    <3>1. ASSUME NEW x \in Worker, mark[x].todo # {}
          PROVE  mark[x].run # r
      <4>1. mark[x].run \in 1 .. minted
        BY <3>1 DEF ItemsToCome
      <4> QED BY <1>b, <2>1, <2>5, <4>1
    <3> QED BY <2>3, <2>4, <2>9, <3>1 DEF ItemsToCome
  <2>10. ItemsToCome'
    BY <2>7, <2>8, <2>9 DEF ItemsToCome
  <2> QED BY <2>1, <2>6, <2>10 DEF NoCli
<1>8. ASSUME NEW w \in Worker, NEW p \in Part, PersistItem(w, p)
      PROVE  DecisionInv'
  <2> DEFINE k == <<mark[w].run, p>>
  <2>1. /\ p \in mark[w].todo
        /\ item' = [item EXCEPT ![k] = "pending"]
        /\ UNCHANGED <<minted, corrections, request>>
    BY <1>8 DEF PersistItem
  <2>2. /\ \A v \in Worker : v # w => mark'[v] = mark[v]
        /\ mark'[w].todo = mark[w].todo \ {p} /\ mark'[w].run = mark[w].run
    BY <1>8 DEF PersistItem, LifeTypeOK, MarkState
  <2>3. mark[w].run \in 1 .. minted /\ item[k] = "none" /\ corrections[k] = 0
    BY <2>1 DEF ItemsToCome
  <2>4. k \in Item
    BY <1>b, <2>3 DEF Item
  <2>5. \A i \in Item : item'[i] = IF i = k THEN "pending" ELSE item[i]
    BY <2>1, <2>4 DEF LifeTypeOK
  <2>6. OneDecisionPerItem'
    BY <2>1, <2>3, <2>5 DEF OneDecisionPerItem
  <2>7. \A i \in Item : i[1] > minted' => item'[i] = "none" /\ corrections'[i] = 0
    BY <2>1, <2>3, <2>5 DEF ItemsToCome, LifeTypeOK
  <2>8. ASSUME NEW v \in Worker, NEW q \in mark'[v].todo
        PROVE  /\ mark'[v].run \in 1 .. minted'
               /\ item'[<<mark'[v].run, q>>] = "none" /\ corrections'[<<mark'[v].run, q>>] = 0
    <3>1. q \in mark[v].todo /\ mark'[v].run = mark[v].run /\ <<mark[v].run, q>> # k
      BY <2>1, <2>2, <2>8 DEF ItemsToCome
    <3>2. mark[v].run \in Run
      BY <1>b, <3>1 DEF ItemsToCome
    <3>3. <<mark[v].run, q>> \in Item
      BY <3>1, <3>2 DEF Item, LifeTypeOK, MarkState
    <3> QED BY <2>1, <2>5, <3>1, <3>3 DEF ItemsToCome
  <2>9. \A u, v \in Worker : u # v /\ mark'[u].todo # {} /\ mark'[v].todo # {} => mark'[u].run # mark'[v].run
    BY <2>2 DEF ItemsToCome
  <2>10. ItemsToCome'
    BY <2>7, <2>8, <2>9 DEF ItemsToCome
  <2> QED BY <2>1, <2>6, <2>10 DEF NoCli
<1>9. ASSUME NEW w \in Worker,
             Read(w) \/ StoreCrops(w) \/ Record(w) \/ Tidy(w) \/ TidyFails(w) \/ Settle(w)
      PROVE  DecisionInv'
  BY <1>9, <1>w DEF Read, StoreCrops, Record, Tidy, TidyFails, Settle
<1>10. ASSUME NEW w \in Worker, NEW j \in Job, ClaimMark(w, j)
       PROVE  DecisionInv'
  BY <1>10, <1>w DEF ClaimMark
<1>11. ASSUME NEW w \in Worker, SweepStep(w) \/ StartWorker(w)
       PROVE  DecisionInv'
  BY <1>11, <1>m DEF SweepStep, SweepList, SweepReconcile, SweepDelete, StartWorker, NoCli
<1>12. ASSUME NEW w \in Worker, CrashWorker(w)
       PROVE  DecisionInv'
  BY <1>12, <1>w DEF CrashWorker
<1>13. ASSUME NEW j \in Job, Elapse(j)
       PROVE  DecisionInv'
  BY <1>13, <1>m DEF Elapse, NoCli
<1>14. ASSUME UNCHANGED lifeVars
       PROVE  DecisionInv'
  BY <1>14, <1>m DEF lifeVars, NoCli
<1>15. ASSUME NEW c \in Client, NewRequest(c) \/ RequestStep(c) \/ RequestDies(c)
       PROVE  DecisionInv'
  BY <1>1, <1>2, <1>3, <1>4, <1>5, <1>6, <1>15 DEF NewRequest, RequestStep
<1>16. ASSUME NEW w \in Worker, MarkStep(w)
       PROVE  DecisionInv'
  BY <1>7, <1>8, <1>9, <1>16 DEF MarkStep
<1>17. LifeNext => DecisionInv'
  BY <1>10, <1>11, <1>12, <1>13, <1>15, <1>16 DEF LifeNext
<1> QED BY <1>14, <1>17

\* Where nobody resolves with the CLI, the teacher decides each escalated part once, with any
\* number of requests and overlapping workers, crashes and reruns, in both pipelines.
THEOREM OneDecision ==
    ASSUME ~CliAllowed
    PROVE  LifeSpec => []OneDecisionPerItem
<1>1. LifeInit => DecisionInv
  BY DEF LifeInit, DecisionInv, NoCli, ItemsToCome, OneDecisionPerItem, MarkOff, NoRequest, Item, Run
<1>2. LifeTypeOK /\ DecisionInv /\ [LifeNext]_lifeVars => DecisionInv'
  BY DecisionStep
<1>3. DecisionInv => OneDecisionPerItem
  BY DEF DecisionInv
<1> QED BY <1>1, <1>2, <1>3, LifeTypeCorrect, PTL DEF LifeSpec
-----------------------------------------------------------------------------
(* One active job for each script *)

\* Rows are inserted in the order of their ids, for scripts that have been uploaded.
RowsInOrder ==
    /\ \A j \in Job : job[j].state # "free" => job[j].sub \in Submission /\ status[job[j].sub] # "none"
    /\ \A j \in Job : job[j].state = "free" =>
          job[j].sub = None /\ \A i \in Job : i > j => job[i].state = "free"

\* An active row is the last one that was inserted for its script.
LastRow(j)   == \A i \in Job : job[i].sub = job[j].sub => i <= j
ActiveIsLast == \A j \in Job : Active(j) => LastRow(j)

\* A request that is about to queue a script is the only one, and the script waits for it: its
\* last row, if it has one, has failed, or was deleted with the script.
Queues(c, s) == request[c].op = "enqueue" /\ request[c].sub = s
Awaited(s) ==
    /\ status[s] # "none"
    /\ \A j \in Job : job[j].sub = s /\ LastRow(j) => job[j].state \in {"failed", "deleted"}
AskedOnce ==
    \A s \in Submission : \A c \in Client : Queues(c, s) =>
        /\ request[c] = Todo("enqueue", s)
        /\ Awaited(s)
        /\ \A d \in Client : Queues(d, s) => c = d

RetryInv == RowsInOrder /\ ActiveIsLast /\ AskedOnce

\* What a step does that inserts no row: rows keep their scripts, an active one may become
\* anything but free, and one that is over may only be deleted; no script is un-uploaded.
RowsGoOn ==
    /\ \A j \in Job :
          /\ job'[j].sub = job[j].sub
          /\ \/ job'[j].state = job[j].state
             \/ Active(j) /\ job'[j].state # "free"
             \/ job[j].state # "free" /\ job'[j].state = "deleted"
    /\ \A s \in Submission : status[s] # "none" => status'[s] # "none"

\* No request starts to queue a script.
NobodyAsks == \A c \in Client : request'[c].op = "enqueue" => request'[c] = request[c]

\* While workers do not overlap, a thread moves the row it holds, which is running or gone.
LEMMA ThreadMovesRows ==
    ASSUME ~Overlap, JobTypeOK, HandOK, OneHolder, NEW w \in Worker,
           \/ Start(w) \/ Crash(w) \/ Finish(w) \/ Fail(w) \/ RetryLater(w) \/ WriteFails(w) \/ SettleLost(w)
           \/ \E v \in {"needs_you", "done"} : RunnerReturns(w, v)
           \/ \E j \in Job : Claim(w, j)
    PROVE  RowsGoOn
<1> USE DEF JobTypeOK, Row, Active
<1>h. worker[w].pc \in {"running", "finishing"} =>
        /\ worker[w].job \in Job
        /\ job[worker[w].job].state \in {"running", "deleted"}
  BY NoneIsNoJob DEF HandOK, OneHolder
<1>s. \A j \in Job : \A v \in {"queued", "marking", "needs_you", "done", "failed"} :
        \A s \in Submission : status[s] # "none" => StatusOfRow(j, v)[s] # "none"
  BY StatusOfRowValue DEF Status
<1>1. ASSUME Start(w) PROVE RowsGoOn
  <2>1. \A j \in Job : job'[j].sub = job[j].sub /\ (job'[j].state = job[j].state \/ (Active(j) /\ job'[j].state # "free"))
    BY <1>1 DEF Start, Interrupted
  <2>2. \A s \in Submission : status[s] # "none" => status'[s] # "none"
    BY <1>1 DEF Start
  <2> QED BY <2>1, <2>2 DEF RowsGoOn
<1>2. ASSUME Crash(w) \/ SettleLost(w) PROVE RowsGoOn
  BY <1>2 DEF Crash, SettleLost, RowsGoOn
<1>3. ASSUME Finish(w) PROVE RowsGoOn
  BY <1>3, <1>h DEF Finish, RowState, RowsGoOn
<1>4. ASSUME Fail(w) \/ WriteFails(w) PROVE RowsGoOn
  <2>1. worker[w].pc \in {"running", "finishing"} /\ FailJob(w)
    BY <1>4 DEF Fail, WriteFails
  <2>2. /\ job' = RowState(worker[w].job, "failed")
        /\ status' = StatusOfRow(worker[w].job, "failed")
    BY <2>1 DEF FailJob
  <2>3. \A s \in Submission : status[s] # "none" => status'[s] # "none"
    BY <1>h, <1>s, <2>1, <2>2
  <2>4. \A j \in Job : job'[j].sub = job[j].sub /\ (job'[j].state = job[j].state \/ (Active(j) /\ job'[j].state # "free"))
    BY <1>h, <2>1, <2>2 DEF RowState
  <2> QED BY <2>3, <2>4 DEF RowsGoOn
<1>5. ASSUME RetryLater(w) PROVE RowsGoOn
  <2>1. worker[w].pc = "running"
    BY <1>5 DEF RetryLater
  <2>2. \/ UNCHANGED <<job, status>>
        \/ /\ job' = IF job[worker[w].job].state = "deleted" THEN job
                     ELSE [job EXCEPT ![worker[w].job].state = "queued", ![worker[w].job].later = TRUE]
           /\ status' = StatusOfRow(worker[w].job, "queued")
    BY <1>5 DEF RetryLater
  <2>3. \A s \in Submission : status[s] # "none" => status'[s] # "none"
    BY <1>h, <1>s, <2>1, <2>2
  <2>4. \A j \in Job : job'[j].sub = job[j].sub /\ (job'[j].state = job[j].state \/ (Active(j) /\ job'[j].state # "free"))
    BY <1>h, <2>1, <2>2
  <2> QED BY <2>3, <2>4 DEF RowsGoOn
<1>6. ASSUME NEW v \in {"needs_you", "done"}, RunnerReturns(w, v) PROVE RowsGoOn
  BY <1>6, <1>h, <1>s DEF RunnerReturns, RowsGoOn
<1>7. ASSUME NEW j \in Job, Claim(w, j) PROVE RowsGoOn
  <2>1. job[j].state = "queued" /\ status' = StatusOfRow(j, "marking")
    BY <1>7 DEF Claim, Oldest, Ready
  <2>2. \A i \in Job : job'[i].sub = job[i].sub /\ (job'[i].state = job[i].state \/ (Active(i) /\ job'[i].state # "free"))
    BY <1>7, <2>1 DEF Claim
  <2> QED BY <1>s, <2>1, <2>2 DEF RowsGoOn
<1> QED BY <1>1, <1>2, <1>3, <1>4, <1>5, <1>6, <1>7

\* So does what happens to the jobs table without a thread.
LEMMA OthersMoveRows ==
    ASSUME JobTypeOK, HandOK, RowsInOrder,
           \/ UNCHANGED jobVars
           \/ \E j \in Job : StampQueued(j) \/ CallerDies(j) \/ BackoffOver(j)
           \/ \E s \in Submission : Forget(s) \/ Upload(s) \/ \E v \in {"needs_you", "done"} : OthersWrite(s, v)
    PROVE  RowsGoOn
<1> USE DEF JobTypeOK, Row, RowsGoOn
<1>1. ASSUME UNCHANGED jobVars PROVE RowsGoOn
  BY <1>1 DEF jobVars
<1>2. ASSUME NEW j \in Job, StampQueued(j) PROVE RowsGoOn
  <2>1. \A s \in Submission : status[s] # "none" => StatusOfRow(j, "queued")[s] # "none"
    BY StatusOfRowValue DEF Status
  <2> QED BY <1>2, <2>1 DEF StampQueued
<1>3. ASSUME NEW j \in Job, CallerDies(j) \/ BackoffOver(j) PROVE RowsGoOn
  BY <1>3 DEF CallerDies, BackoffOver
<1>4. ASSUME NEW s \in Submission, Forget(s) PROVE RowsGoOn
  <2>1. \A j \in Job : job'[j] = IF job[j].sub = s THEN [job[j] EXCEPT !.state = "deleted"] ELSE job[j]
    BY <1>4 DEF Forget
  <2>2. \A j \in Job : job[j].sub = s => job[j].state # "free"
    BY JobAssumption DEF JobAssumption, RowsInOrder
  <2>3. \A x \in Submission : status[x] # "none" => status'[x] # "none"
    BY <1>4 DEF Forget
  <2> QED BY <2>1, <2>2, <2>3
<1>5. ASSUME NEW s \in Submission, Upload(s) \/ \E v \in {"needs_you", "done"} : OthersWrite(s, v)
      PROVE  RowsGoOn
  BY <1>5 DEF Upload, OthersWrite
<1> QED BY <1>1, <1>2, <1>3, <1>4, <1>5

\* A step of either kind, by nobody who asks for a job, keeps the invariant.
LEMMA RetryKept ==
    ASSUME JobTypeOK, RequestOK, RetryInv, RowsGoOn, NobodyAsks
    PROVE  RetryInv'
<1> USE DEF JobTypeOK, Row
<1>l. \A j \in Job : LastRow(j)' <=> LastRow(j)
  BY DEF RowsGoOn, LastRow
<1>1. RowsInOrder'
  BY DEF RowsInOrder, RowsGoOn, RetryInv, Active
<1>2. ActiveIsLast'
  BY <1>l DEF ActiveIsLast, RowsGoOn, RetryInv, Active
<1>3. AskedOnce'
  BY <1>l DEF AskedOnce, Awaited, Queues, RowsGoOn, NobodyAsks, RetryInv, Active, RequestOK
<1> QED BY <1>1, <1>2, <1>3 DEF RetryInv

\* Of all the steps of a script's life only EnqueueMark inserts a row.
LEMMA LifeMovesRows ==
    ASSUME ~Overlap, LifeTypeOK, RequestOK, HandOK, OneHolder, RowsInOrder, [LifeNext]_lifeVars,
           ~\E c \in Client : EnqueueMark(c)
    PROVE  RowsGoOn
<1> USE DEF LifeTypeOK
<1>0. UNCHANGED jobVars => RowsGoOn
  BY OthersMoveRows
<1>1. ASSUME NEW c \in Client, NEW s \in Submission,
             CreateSubmission(c, s) \/ Retry(c, s) \/ RemoveCheck(c, s)
      PROVE  RowsGoOn
  BY <1>0, <1>1, OthersMoveRows DEF CreateSubmission, Retry, RemoveCheck
<1>2. ASSUME NEW c \in Client, NEW i \in Item, CliCheck(c, i) \/ Resolve(c, i)
      PROVE  RowsGoOn
  <2>1. CASE CliCheck(c, i)
    BY <1>0, <2>1 DEF CliCheck
  <2>2. CASE Resolve(c, i)
    <3>1. runSub[i[1]] \in Submission /\ Outcome(runSub[i[1]], i) \in {"needs_you", "done"}
      BY <2>2 DEF Resolve, Resolvable, Outcome, Item
    <3> QED BY <1>0, <2>2, <3>1, OthersMoveRows DEF Resolve
  <2> QED BY <1>2, <2>1, <2>2
<1>3. ASSUME NEW s \in Submission, Reconcile(s)
      PROVE  RowsGoOn
  BY <1>0, <1>3, OthersMoveRows DEF Reconcile
<1>4. ASSUME NEW c \in Client, ReconcileAfter(c) \/ RemoveHandIn(c)
      PROVE  RowsGoOn
  <2>1. request[c].sub \in Submission
    BY <1>4 DEF ReconcileAfter, RemoveHandIn, RequestOK
  <2> QED BY <1>0, <1>3, <1>4, <2>1, OthersMoveRows DEF ReconcileAfter, RemoveHandIn
<1>5. ASSUME NEW c \in Client, CliMark(c) \/ CliCorrect(c) \/ RequestDies(c)
      PROVE  RowsGoOn
  BY <1>0, <1>5 DEF CliMark, CliCorrect, RequestDies
<1>6. ASSUME NEW w \in Worker, MarkStep(w)
      PROVE  RowsGoOn
  <2>1. ASSUME Record(w) PROVE RowsGoOn
    BY <2>1, ThreadMovesRows DEF Record
  <2>2. ASSUME Settle(w) PROVE RowsGoOn
    BY <2>2, ThreadMovesRows DEF Settle
  <2>3. ASSUME Read(w) \/ StoreCrops(w) \/ Tidy(w) \/ TidyFails(w) PROVE RowsGoOn
    BY <1>0, <2>3 DEF Read, StoreCrops, Tidy, TidyFails
  <2>4. ASSUME NEW escalated \in SUBSET Part, Persist(w, escalated) PROVE RowsGoOn
    BY <1>0, <2>4 DEF Persist
  <2>5. ASSUME NEW p \in Part, PersistItem(w, p) PROVE RowsGoOn
    BY <1>0, <2>5 DEF PersistItem
  <2> QED BY <1>6, <2>1, <2>2, <2>3, <2>4, <2>5 DEF MarkStep
<1>7. ASSUME NEW w \in Worker, SweepStep(w)
      PROVE  RowsGoOn
  BY <1>0, <1>3, <1>7 DEF SweepStep, SweepList, SweepReconcile, SweepDelete
<1>8. ASSUME NEW w \in Worker,
             StartWorker(w) \/ CrashWorker(w) \/ \E j \in Job : ClaimMark(w, j)
      PROVE  RowsGoOn
  BY <1>8, ThreadMovesRows DEF StartWorker, CrashWorker, ClaimMark
<1>9. ASSUME NEW j \in Job, Elapse(j)
      PROVE  RowsGoOn
  BY <1>9, OthersMoveRows DEF Elapse
<1>10. ASSUME UNCHANGED lifeVars
       PROVE  RowsGoOn
  BY <1>0, <1>10 DEF lifeVars
<1>11. ASSUME NEW c \in Client, NewRequest(c) \/ RequestStep(c) \/ RequestDies(c)
       PROVE  RowsGoOn
  BY <1>1, <1>2, <1>4, <1>5, <1>11 DEF NewRequest, RequestStep
<1>12. LifeNext => RowsGoOn
  BY <1>6, <1>7, <1>8, <1>9, <1>11 DEF LifeNext
<1> QED BY <1>10, <1>12

\* Only an upload and a retry make a request that will queue a script.
LEMMA WhoAsks ==
    ASSUME LifeTypeOK, [LifeNext]_lifeVars
    PROVE  \/ NobodyAsks
           \/ \E c \in Client, s \in Submission : CreateSubmission(c, s) \/ Retry(c, s)
<1> USE DEF LifeTypeOK
<1>n. NoRequest.op = "idle"
  BY DEF NoRequest
<1>0. request' = request => NobodyAsks
  BY DEF NobodyAsks
<1>1. ASSUME NEW c \in Client, NEW rq, request' = [request EXCEPT ![c] = rq], rq.op # "enqueue"
      PROVE  NobodyAsks
  BY <1>1 DEF NobodyAsks
<1>2. ASSUME NEW c \in Client, NEW s \in Submission, RemoveCheck(c, s)
      PROVE  NobodyAsks
  <2>1. request' = [request EXCEPT ![c] = Todo("remove", s)]
    BY <1>2 DEF RemoveCheck
  <2>2. Todo("remove", s).op # "enqueue"
    BY DEF Todo, NoRequest
  <2> QED BY <1>1, <2>1, <2>2
<1>3. ASSUME NEW c \in Client, NEW i \in Item, CliCheck(c, i)
      PROVE  NobodyAsks
  <2> DEFINE rq == [NoRequest EXCEPT !.op = "cliMark", !.item = i]
  <2>1. rq.op # "enqueue"
    BY DEF NoRequest
  <2>2. request' = [request EXCEPT ![c] = rq]
    BY <1>3 DEF CliCheck
  <2> HIDE DEF rq
  <2> QED BY <1>1, <2>1, <2>2
<1>4. ASSUME NEW c \in Client, NEW i \in Item, Resolve(c, i)
      PROVE  NobodyAsks
  <2>1. \/ request' = request
        \/ request' = [request EXCEPT ![c] = Todo("reconcile", runSub[i[1]])]
    BY <1>4 DEF Resolve
  <2>2. Todo("reconcile", runSub[i[1]]).op # "enqueue"
    BY DEF Todo, NoRequest
  <2> QED BY <1>0, <1>1, <2>1, <2>2
<1>5. ASSUME NEW c \in Client,
             EnqueueMark(c) \/ ReconcileAfter(c) \/ RemoveHandIn(c) \/ CliCorrect(c) \/ RequestDies(c)
      PROVE  NobodyAsks
  BY <1>1, <1>5, <1>n DEF EnqueueMark, ReconcileAfter, RemoveHandIn, CliCorrect, RequestDies
<1>6. ASSUME NEW c \in Client, CliMark(c)
      PROVE  NobodyAsks
  <2>1. request' = [request EXCEPT ![c].op = "cliCorrect"]
    BY <1>6 DEF CliMark
  <2> QED BY <2>1 DEF NobodyAsks, Request
<1>7. ASSUME NEW w \in Worker, MarkStep(w)
      PROVE  NobodyAsks
  BY <1>0, <1>7 DEF MarkStep, Read, StoreCrops, Record, Tidy, TidyFails, Settle, Persist, PersistItem
<1>8. ASSUME NEW w \in Worker,
             SweepStep(w) \/ StartWorker(w) \/ CrashWorker(w) \/ \E j \in Job : ClaimMark(w, j)
      PROVE  NobodyAsks
  BY <1>0, <1>8
  DEF SweepStep, SweepList, SweepReconcile, SweepDelete, StartWorker, CrashWorker, ClaimMark
<1>9. ASSUME NEW j \in Job, Elapse(j)
      PROVE  NobodyAsks
  BY <1>0, <1>9 DEF Elapse
<1>10. UNCHANGED lifeVars => NobodyAsks
  BY <1>0 DEF lifeVars
<1> QED BY <1>2, <1>3, <1>4, <1>5, <1>6, <1>7, <1>8, <1>9, <1>10 DEF LifeNext, NewRequest, RequestStep

\* The row that enqueue() inserts comes after all others, and is the last one of its script.
LEMMA InsertedRow ==
    ASSUME JobTypeOK, RowsInOrder, NEW j \in Job, NEW s \in Submission, InsertJob(j, s)
    PROVE  /\ job'[j].sub = s /\ job'[j].state = "queued"
           /\ \A i \in Job : i # j => job'[i] = job[i]
           /\ job[j].state = "free" /\ \A i \in Job : IF i < j THEN job[i].state # "free" ELSE job[i].state = "free"
           /\ \A i \in Job : job[i].sub # None => i < j
           /\ \A i \in Job : job[i].sub \notin {s, None} => (LastRow(i)' <=> LastRow(i))
<1> USE JobAssumption DEF JobAssumption, JobTypeOK, Row
<1>1. /\ job[j].state = "free" /\ \A i \in Job : i < j => job[i].state # "free"
      /\ job' = [job EXCEPT ![j] = NewRow(s, None)]
  BY DEF InsertJob, NextId
<1>2. /\ job'[j].sub = s /\ job'[j].state = "queued"
      /\ \A i \in Job : i # j => job'[i] = job[i]
  BY <1>1 DEF NewRow, FreeRow
<1>3. \A i \in Job : ~(i < j) => job[i].state = "free" /\ job[i].sub = None
  BY <1>1 DEF RowsInOrder, Job
<1>4. \A i \in Job : job[i].sub # None => i < j
  BY <1>1, <1>3 DEF Job, RowsInOrder
<1>5. ASSUME NEW i \in Job, job[i].sub \notin {s, None}
      PROVE  LastRow(i)' <=> LastRow(i)
  <2>1. i # j /\ job[j].sub = None
    BY <1>3, <1>5 DEF Job
  <2>2. \A k \in Job : job'[k].sub = job'[i].sub <=> job[k].sub = job[i].sub
    BY <1>2, <1>5, <2>1
  <2> QED BY <2>2 DEF LastRow
<1> QED BY <1>1, <1>2, <1>3, <1>4, <1>5

\* Every step keeps the invariant, and adds a row to a script only while its last one is failed.
LEMMA RetryStep ==
    ASSUME ~Overlap, SerialRetry, LifeTypeOK, RequestOK, HandOK, OneHolder, RetryInv,
           LifeTypeOK', [LifeNext]_lifeVars
    PROVE  /\ RetryInv'
           /\ \A j \in Job : job[j].state = "free" /\ job'[j].state # "free" =>
                 \A i \in Job : Newest(i, job'[j].sub) => job[i].state = "failed"
<1> USE JobAssumption DEF JobAssumption, LifeTypeOK, JobTypeOK, Row
<1> DEFINE Goal == \A j \in Job : job[j].state = "free" /\ job'[j].state # "free" =>
                       \A i \in Job : Newest(i, job'[j].sub) => job[i].state = "failed"
<1>g. RowsGoOn => Goal
  BY DEF RowsGoOn, Active
<1>t. \A s : Todo("enqueue", s).op = "enqueue" /\ Todo("enqueue", s).sub = s
  BY DEF Todo, NoRequest
\* A request that queues a script which waits for it, and which no other request queues.
<1>a. ASSUME NEW c \in Client, NEW s \in Submission, RowsGoOn,
             request' = [request EXCEPT ![c] = Todo("enqueue", s)],
             Awaited(s)', \A d \in Client : ~Queues(d, s)
      PROVE  RetryInv'
  <2>1. \A j \in Job : LastRow(j)' <=> LastRow(j)
    BY <1>a DEF RowsGoOn, LastRow
  <2>2. RowsInOrder'
    BY <1>a DEF RowsInOrder, RowsGoOn, RetryInv, Active
  <2>3. ActiveIsLast'
    BY <1>a, <2>1 DEF ActiveIsLast, RowsGoOn, RetryInv, Active
  <2>4. \A d \in Client : d # c => request'[d] = request[d]
    BY <1>a
  <2>5. request'[c] = Todo("enqueue", s)
    BY <1>a
  <2>6. \A x \in Submission : Awaited(x) => Awaited(x)'
    BY <1>a, <2>1 DEF Awaited, RowsGoOn, Active
  <2>7. AskedOnce'
    <3>1. \A d \in Client : \A x \in Submission : Queues(d, x)' <=> IF d = c THEN x = s ELSE Queues(d, x)
      BY <1>t, <2>4, <2>5 DEF Queues
    <3>2. ASSUME NEW x \in Submission, NEW d \in Client, Queues(d, x)'
          PROVE  /\ request'[d] = Todo("enqueue", x)
                 /\ Awaited(x)'
                 /\ \A e \in Client : Queues(e, x)' => d = e
      <4>1. CASE d = c
        BY <1>a, <2>5, <3>1, <3>2, <4>1
      <4>2. CASE d # c
        <5>1. Queues(d, x) /\ x # s
          BY <1>a, <3>1, <3>2, <4>2
        <5> QED BY <2>4, <2>6, <3>1, <4>2, <5>1 DEF AskedOnce, RetryInv
      <4> QED BY <4>1, <4>2
    <3> QED BY <3>2 DEF AskedOnce
  <2> QED BY <2>2, <2>3, <2>7 DEF RetryInv
<1>1. ASSUME NEW c \in Client, NEW s \in Submission, CreateSubmission(c, s)
      PROVE  RetryInv' /\ Goal
  <2>1. RowsGoOn
    BY <1>1, OthersMoveRows DEF CreateSubmission, RetryInv
  <2>2. status[s] = "none" /\ status'[s] # "none" /\ request' = [request EXCEPT ![c] = Todo("enqueue", s)]
    BY <1>1 DEF CreateSubmission, Upload
  <2>3. \A j \in Job : job[j].sub # s
    BY <2>2 DEF RowsInOrder, RetryInv
  <2>4. \A d \in Client : ~Queues(d, s)
    BY <2>2 DEF Queues, AskedOnce, Awaited, RetryInv
  <2>5. Awaited(s)'
    BY <2>1, <2>2, <2>3 DEF Awaited, RowsGoOn
  <2> QED BY <1>a, <1>g, <2>1, <2>2, <2>4, <2>5
<1>2. ASSUME NEW c \in Client, NEW s \in Submission, Retry(c, s)
      PROVE  RetryInv' /\ Goal
  <2>1. UNCHANGED jobVars /\ request' = [request EXCEPT ![c] = Todo("enqueue", s)]
    BY <1>2 DEF Retry
  <2>2. RowsGoOn
    BY <2>1, OthersMoveRows DEF RetryInv
  <2>3. \A d \in Client : ~Queues(d, s)
    BY <1>2 DEF Retry, Queues, AskedOnce, RetryInv
  <2>4. Awaited(s)
    <3>1. PICK j \in Job : Newest(j, s) /\ job[j].state = "failed"
      BY <1>2 DEF Retry
    <3>2. job[j].sub = s /\ \A i \in Job : job[i].sub = s => i <= j
      BY <3>1 DEF Newest
    <3>3. \A i \in Job : job[i].sub = s /\ LastRow(i) => i = j
      BY <3>2 DEF LastRow, Job
    <3>4. status[s] # "none"
      BY <3>1, <3>2 DEF RowsInOrder, RetryInv
    <3> QED BY <3>1, <3>3, <3>4 DEF Awaited
  <2>5. Awaited(s)'
    BY <2>1, <2>4 DEF jobVars, Awaited, LastRow
  <2> QED BY <1>a, <1>g, <2>1, <2>2, <2>3, <2>5
<1>3. ASSUME NEW c \in Client, EnqueueMark(c), NobodyAsks
      PROVE  RetryInv' /\ Goal
  <2> DEFINE s == request[c].sub
  <2>1. s \in Submission /\ Queues(c, s) /\ Awaited(s)
    BY <1>3 DEF EnqueueMark, RequestOK, Queues, AskedOnce, RetryInv
  <2>2. CASE UNCHANGED jobVars
    BY <1>3, <1>g, <2>2, OthersMoveRows, RetryKept DEF RetryInv
  <2>3. ASSUME NEW j \in Job, InsertJob(j, s)
        PROVE  RetryInv' /\ Goal
    <3>1. Exists(s) /\ status' = status
      BY <2>3 DEF InsertJob
    <3> HIDE DEF s
    <3>2. /\ job'[j].sub = s /\ job'[j].state = "queued"
          /\ \A i \in Job : i # j => job'[i] = job[i]
      BY <2>1, <2>3, InsertedRow DEF RetryInv
    <3>3. job[j].state = "free" /\ \A i \in Job : IF i < j THEN job[i].state # "free" ELSE job[i].state = "free"
      BY <2>1, <2>3, InsertedRow DEF RetryInv
    <3>5. \A i \in Job : job[i].sub # None => i < j
      BY <2>1, <2>3, InsertedRow DEF RetryInv
    <3>7. \A i \in Job : job[i].sub \notin {s, None} => (LastRow(i)' <=> LastRow(i))
      BY <2>1, <2>3, InsertedRow DEF RetryInv
    <3>6. RowsInOrder'
      <4>1. ASSUME NEW i \in Job, job'[i].state # "free"
            PROVE  job'[i].sub \in Submission /\ status'[job'[i].sub] # "none"
        <5>1. CASE i = j
          BY <2>1, <3>1, <3>2, <5>1 DEF Exists
        <5>2. CASE i # j
          BY <3>1, <3>2, <4>1, <5>2 DEF RowsInOrder, RetryInv
        <5> QED BY <5>1, <5>2
      <4>2. ASSUME NEW i \in Job, job'[i].state = "free"
            PROVE  job'[i].sub = None /\ \A k \in Job : k > i => job'[k].state = "free"
        <5>1. i # j /\ job'[i] = job[i] /\ job[i].state = "free"
          BY <3>2, <4>2
        <5>2. i > j
          BY <3>3, <5>1 DEF Job
        <5>3. \A k \in Job : k > i => k # j /\ job[k].state = "free"
          BY <3>3, <5>2 DEF Job
        <5> QED BY <3>2, <5>1, <5>3 DEF RowsInOrder, RetryInv
      <4> QED BY <4>1, <4>2 DEF RowsInOrder
    <3>8. LastRow(j)' /\ \A i \in Job : i # j /\ job[i].sub = s => ~LastRow(i)'
      BY <2>1, <3>2, <3>5 DEF LastRow, Job
    <3>9. \A i \in Job : Active(i) => job[i].sub # None /\ job[i].sub # s
      BY <2>1 DEF Active, RowsInOrder, ActiveIsLast, Awaited, RetryInv
    <3>10. ActiveIsLast'
      <4> SUFFICES ASSUME NEW i \in Job, Active(i)' PROVE LastRow(i)'
        BY DEF ActiveIsLast
      <4>1. CASE i = j
        BY <3>8, <4>1
      <4>2. CASE i # j
        BY <3>2, <3>7, <3>9, <4>2 DEF Active, ActiveIsLast, RetryInv
      <4> QED BY <4>1, <4>2
    <3>11. \A d \in Client : request'[d].op = "enqueue" => request'[d] = request[d] /\ request[d].sub \in Submission /\ request[d].sub # s
      <4> SUFFICES ASSUME NEW d \in Client, request'[d].op = "enqueue"
                   PROVE  request'[d] = request[d] /\ request[d].sub \in Submission /\ request[d].sub # s
        OBVIOUS
      <4>1. request'[d] = request[d] /\ request[d].sub \in Submission
        BY <1>3 DEF NobodyAsks, RequestOK
      <4>2. d # c
        BY <1>3 DEF EnqueueMark, NoRequest
      <4> QED BY <2>1, <4>1, <4>2 DEF Queues, AskedOnce, RetryInv
    <3>12. \A x \in Submission : x # s /\ Awaited(x) => Awaited(x)'
      BY <3>1, <3>2, <3>7 DEF Awaited
    <3>13. AskedOnce'
      BY <3>11, <3>12 DEF AskedOnce, Queues, RetryInv
    <3>14. Goal
      <4> SUFFICES ASSUME NEW k \in Job, job[k].state = "free", job'[k].state # "free",
                          NEW i \in Job, Newest(i, job'[k].sub)
                   PROVE  job[i].state = "failed"
        OBVIOUS
      <4>1. job'[k].sub = s
        BY <3>2
      <4>2. job[i].sub = s /\ LastRow(i) /\ job[i].state # "deleted"
        BY <4>1 DEF Newest, LastRow
      <4> QED BY <2>1, <4>2 DEF Awaited
    <3> QED BY <3>6, <3>10, <3>13, <3>14 DEF RetryInv
  <2> QED BY <1>3, <2>2, <2>3 DEF EnqueueMark
<1>4. CASE NobodyAsks
  <2>1. CASE \E c \in Client : EnqueueMark(c)
    BY <1>3, <1>4, <2>1
  <2>2. CASE ~\E c \in Client : EnqueueMark(c)
    BY <1>g, <1>4, <2>2, LifeMovesRows, RetryKept DEF RetryInv
  <2> QED BY <2>1, <2>2
<1> QED BY <1>1, <1>2, <1>4, WhoAsks

\* While workers do not overlap and no retry is sent before the last one was answered, the

\* invariant holds, whatever crashes, requests that die and database errors there are.
LEMMA RetryInvariant ==
    ASSUME ~Overlap, SerialRetry
    PROVE  LifeSpec => []RetryInv
<1>1. LifeInit => RetryInv
  BY DEF LifeInit, JobInit, RetryInv, RowsInOrder, ActiveIsLast, AskedOnce, Queues, Active, FreeRow, NoRequest
<1>2. LifeTypeOK /\ RequestOK /\ HandOK /\ OneHolder /\ RetryInv /\ LifeTypeOK' /\ [LifeNext]_lifeVars => RetryInv'
  BY RetryStep
<1> QED BY <1>1, <1>2, LifeTypeCorrect, MarkingUsesQueue, JobsAreExclusive, PTL DEF LifeSpec

\* A script has one active mark job at most, however it is retried, removed, interrupted or
\* resolved.
THEOREM ScriptsHaveOneJob ==
    ASSUME ~Overlap, SerialRetry
    PROVE  LifeSpec => []OneActiveJob
<1>1. LifeTypeOK /\ RetryInv => OneActiveJob
  BY DEF RetryInv, ActiveIsLast, LastRow, OneActiveJob, Job
<1> QED BY <1>1, RetryInvariant, LifeTypeCorrect, PTL

\* A script is queued again only while the last job it had is failed.
THEOREM RetriesRequeueFailed ==
    ASSUME ~Overlap, SerialRetry
    PROVE  LifeSpec => RetryRequeuesFailed
<1>1. LifeTypeOK /\ RequestOK /\ HandOK /\ OneHolder /\ RetryInv /\ LifeTypeOK' /\ [LifeNext]_lifeVars =>
        [\A j \in Job : job[j].state = "free" /\ job'[j].state # "free" =>
            \A i \in Job : Newest(i, job'[j].sub) => job[i].state = "failed"]_lifeVars
  BY RetryStep
<1> QED BY <1>1, RetryInvariant, LifeTypeCorrect, MarkingUsesQueue, JobsAreExclusive, PTL
  DEF LifeSpec, RetryRequeuesFailed
-----------------------------------------------------------------------------
(* What a script's status says, while nothing interrupts its worker *)

\* v2, one worker thread that is not killed, a database that does not fail, and no retry sent
\* before the last one was answered.  Two runs of a script, or a run without its items, come of
\* anything else, and then none of this holds.
Undisturbed ==
    /\ ~Overlap /\ MaxStarts <= 1 /\ MaxFaults = 0
    /\ SerialRetry /\ Pipeline = "v2"

\* No row runs before the worker starts, and a deleted row is one of a script that is gone.
Uninterrupted ==
    /\ starts = 0 => /\ \A j \in Job : job[j].state # "running"
                     /\ \A w \in Worker : worker[w].pc = "down"
    /\ \A j \in Job : \A s \in Submission : job[j].sub = s /\ job[j].state = "deleted" => ~Exists(s)

\* Where a mark job is follows from what its thread does; it has all its items written.
JobSteps ==
    \A w \in Worker :
        /\ mark[w].todo = {}
        /\ IF worker[w].pc = "running"
           THEN mark[w].step \in {"begin", "read", "stored", "cropped"}
           ELSE mark[w].step \in {"off", "tidy"}

\* The runs that are not drawn yet are not in the tables.
NewRuns ==
    \A r \in Run : r > minted => runSub[r] = None /\ \A p \in Part : item[<<r, p>>] = "none"

Quiet == Uninterrupted /\ JobSteps /\ NewRuns

\* No thread is killed, no write fails, nothing is put back to queued and no item is left over.
LEMMA NothingInterrupts ==
    ASSUME Undisturbed, LifeTypeOK, Quiet, NEW w \in Worker
    PROVE  /\ ~Crash(w) /\ ~WriteFails(w) /\ ~SettleLost(w) /\ ~TidyFails(w)
           /\ \A p \in Part : ~PersistItem(w, p)
           /\ Start(w) => job' = job /\ status' = status /\ worker[w].pc = "down" /\ worker' = [worker EXCEPT ![w] = Idle]
<1> USE JobAssumption DEF JobAssumption, Undisturbed, LifeTypeOK, JobTypeOK
<1>1. faults = 0 /\ starts \in {0, 1} /\ (starts < MaxStarts => starts = 0)
  OBVIOUS
<1>2. ~Crash(w)
  BY <1>1 DEF Crash, Quiet, Uninterrupted
<1>3. ~WriteFails(w) /\ ~SettleLost(w) /\ ~TidyFails(w)
  BY <1>1 DEF WriteFails, SettleLost, TidyFails
<1>4. \A p \in Part : ~PersistItem(w, p)
  BY DEF PersistItem, Quiet, JobSteps
<1>5. ASSUME Start(w) PROVE job' = job /\ status' = status /\ worker[w].pc = "down" /\ worker' = [worker EXCEPT ![w] = Idle]
  <2>1. \A j \in Job : ~Interrupted(j)
    BY <1>1, <1>5 DEF Start, Quiet, Uninterrupted, Interrupted
  <2>2. job' = [j \in Job |-> job[j]] /\ status' = [s \in Submission |-> status[s]]
    BY <1>5, <2>1 DEF Start
  <2> QED BY <1>5, <2>2 DEF Start
<1> QED BY <1>2, <1>3, <1>4, <1>5

\* Every step of the queue keeps its part of this.
LEMMA UninterruptedStep ==
    ASSUME Undisturbed, LifeTypeOK, HandOK, OneHolder, RowsInOrder, Quiet, [JobNext]_jobVars
    PROVE  Uninterrupted'
<1> USE JobAssumption DEF JobAssumption, LifeTypeOK, JobTypeOK, Row, Uninterrupted, Quiet
<1>h. ASSUME NEW w \in Worker
      PROVE  worker[w].pc \in {"running", "finishing"} => worker[w].job \in Job
  BY DEF HandOK
<1>n. ASSUME NEW w \in Worker
      PROVE  worker[w].pc # "down" => starts # 0
  OBVIOUS
\* A step in which no row is deleted, no script comes into being and no thread begins.
<1>0. ASSUME starts' = starts,
             \A j \in Job : job'[j].state = "deleted" => job[j].state = "deleted" /\ job'[j].sub = job[j].sub,
             \A s \in Submission : Exists(s)' => Exists(s),
             starts = 0 => (\A j \in Job : job'[j].state # "running") /\ worker' = worker
      PROVE  Uninterrupted'
  <2>1. \A j \in Job : \A s \in Submission : job'[j].sub = s /\ job'[j].state = "deleted" => ~Exists(s)'
    BY <1>0
  <2> QED BY <1>0, <2>1
<1>v. ASSUME NEW j, NEW v \in Status \ {"none", "deleted"}, status' = StatusOfRow(j, v)
      PROVE  \A s \in Submission : Exists(s)' => Exists(s)
  BY <1>v DEF StatusOfRow, Exists
<1>1. ASSUME NEW j \in Job, NEW s \in Submission, InsertJob(j, s) PROVE Uninterrupted'
  BY <1>0, <1>1 DEF InsertJob, NewRow, FreeRow, Exists
<1>2. ASSUME NEW j \in Job, StampQueued(j) PROVE Uninterrupted'
  <2>1. \A s \in Submission : Exists(s)' => Exists(s)
    BY <1>v, <1>2 DEF StampQueued, Status
  <2> QED BY <1>0, <1>2, <2>1 DEF StampQueued
<1>3. ASSUME NEW j \in Job, CallerDies(j) \/ BackoffOver(j) PROVE Uninterrupted'
  BY <1>0, <1>3 DEF CallerDies, BackoffOver, Exists
<1>4. ASSUME NEW j \in Job, NEW k \in Key \cup {None}, EnqueueUnique(j, k) PROVE Uninterrupted'
  BY <1>0, <1>4 DEF EnqueueUnique, NewRow, FreeRow, Exists
<1>5. ASSUME NEW w \in Worker, Start(w) PROVE Uninterrupted'
  <2>1. job' = job /\ status' = status /\ starts' = starts + 1
    BY <1>5, NothingInterrupts DEF Start
  <2> QED BY <2>1 DEF Exists
<1>6. ASSUME NEW w \in Worker, Crash(w) \/ WriteFails(w) \/ SettleLost(w) PROVE Uninterrupted'
  BY <1>6, NothingInterrupts
<1>7. ASSUME NEW w \in Worker, RunnerStep(w) \/ Finish(w) PROVE Uninterrupted'
  <2>1. worker[w].job \in Job /\ starts # 0 /\ starts' = starts
    BY <1>7, <1>h, <1>n DEF RunnerStep, RunnerReturns, RetryLater, Fail, FailJob, Finish
  <2>2. \/ status' = status
        \/ \E v \in {"needs_you", "done", "queued", "failed"} : status' = StatusOfRow(worker[w].job, v)
    BY <1>7 DEF RunnerStep, RunnerReturns, RetryLater, Fail, FailJob, Finish
  <2>3. \A s \in Submission : Exists(s)' => Exists(s)
    BY <1>v, <2>2 DEF Status, Exists
  <2>4. \/ job' = job
        \/ \E st \in {"done", "failed"} : job' = RowState(worker[w].job, st)
        \/ job' = [job EXCEPT ![worker[w].job].state = "queued", ![worker[w].job].later = TRUE]
    BY <1>7 DEF RunnerStep, RunnerReturns, RetryLater, Fail, FailJob, Finish
  <2>5. \A j \in Job : job'[j].state = "deleted" => job[j].state = "deleted" /\ job'[j].sub = job[j].sub
    <3>1. CASE job' = job
      BY <3>1
    <3>2. ASSUME NEW st \in {"done", "failed"}, job' = RowState(worker[w].job, st)
          PROVE  \A j \in Job : job'[j].state = "deleted" => job[j].state = "deleted" /\ job'[j].sub = job[j].sub
      BY <2>1, <3>2 DEF RowState
    <3>3. CASE job' = [job EXCEPT ![worker[w].job].state = "queued", ![worker[w].job].later = TRUE]
      BY <2>1, <3>3
    <3> QED BY <2>4, <3>1, <3>2, <3>3
  <2> QED BY <1>0, <2>1, <2>3, <2>5
<1>8. ASSUME NEW w \in Worker, NEW j \in Job, Claim(w, j) PROVE Uninterrupted'
  <2>1. starts # 0 /\ starts' = starts /\ status' = StatusOfRow(j, "marking")
    BY <1>8, <1>n DEF Claim
  <2>2. \A s \in Submission : Exists(s)' => Exists(s)
    BY <1>v, <2>1 DEF Status
  <2>3. \A i \in Job : job'[i].state = "deleted" => job[i].state = "deleted" /\ job'[i].sub = job[i].sub
    BY <1>8 DEF Claim
  <2> QED BY <1>0, <2>1, <2>2, <2>3
<1>9. ASSUME NEW s \in Submission, Forget(s) PROVE Uninterrupted'
  <2>1. \A j \in Job : job'[j] = IF job[j].sub = s THEN [job[j] EXCEPT !.state = "deleted"] ELSE job[j]
    BY <1>9 DEF Forget
  <2>2. ~Exists(s)' /\ \A x \in Submission : Exists(x)' => Exists(x)
    BY <1>9 DEF Forget, Exists
  <2>3. \A j \in Job : \A x \in Submission : job'[j].sub = x /\ job'[j].state = "deleted" => ~Exists(x)'
    BY <2>1, <2>2
  <2>4. UNCHANGED <<starts, worker>> /\ \A j \in Job : job'[j].state = "running" => job[j].state = "running"
    BY <1>9, <2>1 DEF Forget
  <2> QED BY <2>3, <2>4
<1>10. ASSUME NEW s \in Submission, Upload(s) PROVE Uninterrupted'
  <2>1. status[s] = "none" /\ \A x \in Submission : x # s => status'[x] = status[x]
    BY <1>10 DEF Upload
  <2>2. \A j \in Job : job[j].state = "deleted" => job[j].sub \in Submission /\ job[j].sub # s
    BY <2>1 DEF RowsInOrder
  <2> QED BY <1>10, <2>1, <2>2 DEF Upload, Exists
<1>11. ASSUME NEW s \in Submission, NEW v \in {"needs_you", "done"}, OthersWrite(s, v) PROVE Uninterrupted'
  BY <1>0, <1>11 DEF OthersWrite, Exists
<1>12. ASSUME UNCHANGED jobVars PROVE Uninterrupted'
  BY <1>12 DEF jobVars, Exists
<1> QED BY <1>1, <1>2, <1>3, <1>4, <1>5, <1>6, <1>7, <1>8, <1>9, <1>10, <1>11, <1>12 DEF JobNext

\* Every step of a script's life keeps all of it.
LEMMA QuietStep ==
    ASSUME Undisturbed, LifeTypeOK, RequestOK, HandOK, OneHolder, RowsInOrder, Quiet, [LifeNext]_lifeVars
    PROVE  Quiet'
<1> USE LifeAssumption DEF LifeTypeOK, LifeAssumption
<1> DEFINE Rest == JobSteps' /\ NewRuns'
<1>0. Uninterrupted'
  BY UninterruptedStep, LifeStepIsJobStep
<1>m. UNCHANGED <<worker, mark>> => JobSteps'
  BY DEF Quiet, JobSteps
<1>r. ASSUME minted' = minted, \A r \in Run : runSub'[r] \in {runSub[r], None},
             \A i \in Item : item[i] = "none" => item'[i] = "none"
      PROVE  NewRuns'
  <2> SUFFICES ASSUME NEW r \in Run, r > minted
               PROVE  runSub'[r] = None /\ \A p \in Part : item'[<<r, p>>] = "none"
    BY <1>r DEF NewRuns
  <2>1. runSub[r] = None /\ \A p \in Part : item[<<r, p>>] = "none" /\ <<r, p>> \in Item
    BY DEF Quiet, NewRuns, Item
  <2> QED BY <1>r, <2>1
<1>u. UNCHANGED <<minted, runSub, item>> => NewRuns'
  BY <1>r
<1>w. ASSUME NEW w \in Worker,
             \A v \in Worker : v # w => mark'[v] = mark[v] /\ worker'[v] = worker[v],
             mark'[w].todo = {},
             IF worker'[w].pc = "running" THEN mark'[w].step \in {"begin", "read", "stored", "cropped"}
                                          ELSE mark'[w].step \in {"off", "tidy"}
      PROVE  JobSteps'
  BY <1>w DEF Quiet, JobSteps
<1>t. ASSUME NEW w \in Worker
      PROVE  mark[w].todo = {} /\ (worker[w].pc # "running" => mark[w].step \in {"off", "tidy"})
  BY DEF Quiet, JobSteps
<1>1. ASSUME NEW c \in Client, NEW s \in Submission,
             CreateSubmission(c, s) \/ Retry(c, s) \/ RemoveCheck(c, s)
      PROVE  Rest
  BY <1>1, <1>m, <1>u DEF CreateSubmission, Upload, Retry, RemoveCheck, jobVars
<1>2. ASSUME NEW c \in Client, NEW i \in Item, CliCheck(c, i) \/ Resolve(c, i)
      PROVE  Rest
  <2>1. CASE CliCheck(c, i)
    BY <1>m, <1>u, <2>1 DEF CliCheck, jobVars
  <2>2. CASE Resolve(c, i)
    <3>1. UNCHANGED <<worker, mark, minted, runSub>>
      BY <2>2 DEF Resolve, OthersWrite, jobVars
    <3>2. \A k \in Item : item[k] = "none" => item'[k] = "none"
      BY <2>2 DEF Resolve, Resolvable
    <3> QED BY <1>m, <1>r, <3>1, <3>2
  <2> QED BY <1>2, <2>1, <2>2
<1>3. ASSUME NEW s, Reconcile(s)
      PROVE  worker' = worker
  BY <1>3 DEF Reconcile, OthersWrite, jobVars
<1>4. ASSUME NEW c \in Client,
             EnqueueMark(c) \/ ReconcileAfter(c) \/ CliCorrect(c) \/ RequestDies(c)
      PROVE  Rest
  <2>1. worker' = worker
    BY <1>3, <1>4 DEF EnqueueMark, InsertJob, ReconcileAfter, CliCorrect, RequestDies, jobVars
  <2> QED BY <1>4, <1>m, <1>u, <2>1 DEF EnqueueMark, ReconcileAfter, CliCorrect, RequestDies
<1>5. ASSUME NEW c \in Client, RemoveHandIn(c)
      PROVE  Rest
  <2>1. UNCHANGED <<worker, mark, minted>>
    BY <1>5 DEF RemoveHandIn, Forget, jobVars
  <2>2. /\ \A r \in Run : runSub'[r] \in {runSub[r], None}
        /\ \A i \in Item : item[i] = "none" => item'[i] = "none"
    BY <1>5 DEF RemoveHandIn
  <2> QED BY <1>m, <1>r, <2>1, <2>2
<1>6. ASSUME NEW c \in Client, CliMark(c)
      PROVE  Rest
  <2>1. UNCHANGED <<worker, mark, minted, runSub>>
    BY <1>6 DEF CliMark, jobVars
  <2>2. \A i \in Item : item[i] = "none" => item'[i] = "none"
    BY <1>6 DEF CliMark
  <2> QED BY <1>m, <1>r, <2>1, <2>2
<1>7. ASSUME NEW w \in Worker, Read(w) \/ StoreCrops(w)
      PROVE  Rest
  <2>1. worker[w].pc = "running" /\ worker' = worker /\ UNCHANGED <<minted, runSub, item>>
    BY <1>7 DEF Read, StoreCrops, At, jobVars
  <2>2. Goto(w, "read") \/ Goto(w, "cropped")
    BY <1>7 DEF Read, StoreCrops
  <2>3. \A v \in Worker : v # w => mark'[v] = mark[v]
    BY <2>2 DEF Goto
  <2>4. mark'[w].todo = {} /\ mark'[w].step \in {"read", "cropped"}
    BY <1>t, <2>2 DEF Goto, MarkState
  <2> QED BY <1>u, <1>w, <2>1, <2>3, <2>4
<1>8. ASSUME NEW w \in Worker, NEW escalated \in SUBSET Part, Persist(w, escalated)
      PROVE  Rest
  <2>1. /\ worker[w].pc = "running" /\ worker' = worker
        /\ minted + 1 \in Run /\ minted' = minted + 1
        /\ runSub' = [runSub EXCEPT ![minted + 1] = ScriptOf(w)]
        /\ item' = [i \in Item |-> IF i[1] = minted + 1 /\ i[2] \in escalated THEN "pending" ELSE item[i]]
    BY <1>8 DEF Persist, At, jobVars, Undisturbed
  <2>2. mark' = [mark EXCEPT ![w] = [step |-> "stored", run |-> minted + 1, esc |-> escalated # {}, todo |-> {}]]
    BY <1>8 DEF Persist, Undisturbed
  <2>3. JobSteps'
    BY <1>w, <2>1, <2>2
  <2>4. ASSUME NEW r \in Run, r > minted'
        PROVE  runSub'[r] = None /\ \A p \in Part : item'[<<r, p>>] = "none"
    <3>1. r > minted /\ r # minted + 1
      BY <2>1, <2>4 DEF Run
    <3>2. \A p \in Part : <<r, p>> \in Item
      BY DEF Item
    <3> QED BY <2>1, <3>1, <3>2 DEF Quiet, NewRuns
  <2> QED BY <2>3, <2>4 DEF NewRuns
<1>9. ASSUME NEW w \in Worker, Record(w)
      PROVE  Rest
  <2>1. /\ worker' = [worker EXCEPT ![w].pc = "finishing"]
        /\ UNCHANGED <<minted, runSub, item>>
        /\ Over(w) \/ Goto(w, "tidy")
    BY <1>9 DEF Record, RunnerReturns
  <2>2. \A v \in Worker : v # w => mark'[v] = mark[v] /\ worker'[v] = worker[v]
    BY <2>1 DEF Over, Goto
  <2>3. worker'[w].pc = "finishing"
    BY <2>1 DEF JobTypeOK, Thread
  <2>4. mark'[w].todo = {} /\ mark'[w].step \in {"off", "tidy"}
    BY <1>t, <2>1 DEF Over, Goto, MarkOff, MarkState
  <2> QED BY <1>u, <1>w, <2>1, <2>2, <2>3, <2>4
<1>10. ASSUME NEW w \in Worker, Tidy(w)
       PROVE  Rest
  <2>1. worker[w].pc = "finishing" /\ worker' = worker /\ Over(w) /\ UNCHANGED <<minted, runSub, item>>
    BY <1>10 DEF Tidy, jobVars
  <2> QED BY <1>u, <1>w, <2>1 DEF Over, MarkOff
<1>11. ASSUME NEW w \in Worker, Settle(w)
       PROVE  Rest
  <2>1. worker' = [worker EXCEPT ![w] = Idle]
    BY <1>11 DEF Settle, Finish, Fail, FailJob, RetryLater, WriteFails, SettleLost
  <2>2. Over(w) /\ UNCHANGED <<minted, runSub, item>>
    BY <1>11 DEF Settle
  <2> QED BY <1>u, <1>w, <2>1, <2>2 DEF Over, MarkOff, Idle, JobTypeOK
<1>12. ASSUME NEW w \in Worker, NEW j \in Job, ClaimMark(w, j)
       PROVE  Rest
  <2>1. /\ worker' = [worker EXCEPT ![w] = [pc |-> "running", job |-> j, tries |-> job[j].attempts + 1]]
        /\ Goto(w, "begin") /\ UNCHANGED <<minted, runSub, item>>
    BY <1>12 DEF ClaimMark, Claim
  <2>2. mark'[w].todo = {} /\ mark'[w].step = "begin"
    BY <1>t, <2>1 DEF Goto, MarkState
  <2> QED BY <1>u, <1>w, <2>1, <2>2 DEF Goto, JobTypeOK
<1>13. ASSUME NEW w \in Worker, SweepStep(w)
       PROVE  Rest
  <2>1. UNCHANGED <<worker, mark, minted, runSub, item>>
    BY <1>3, <1>13 DEF SweepStep, SweepReconcile, SweepList, SweepDelete, jobVars
  <2> QED BY <1>m, <1>u, <2>1
<1>14. ASSUME NEW w \in Worker, StartWorker(w)
       PROVE  Rest
  <2>1. /\ worker[w].pc = "down" /\ worker' = [worker EXCEPT ![w] = Idle]
        /\ UNCHANGED <<mark, minted, runSub, item>>
    BY <1>14, NothingInterrupts DEF StartWorker
  <2> QED BY <1>t, <1>u, <1>w, <2>1 DEF Idle, JobTypeOK
<1>15. ASSUME NEW w \in Worker, CrashWorker(w) \/ TidyFails(w) \/ \E p \in Part : PersistItem(w, p)
       PROVE  Rest
  BY <1>15, NothingInterrupts DEF CrashWorker
<1>16. ASSUME NEW j \in Job, Elapse(j)
       PROVE  Rest
  BY <1>16, <1>m, <1>u DEF Elapse, StampQueued, BackoffOver, CallerDies
<1>17. ASSUME UNCHANGED lifeVars
       PROVE  Rest
  BY <1>17, <1>m, <1>u DEF lifeVars, jobVars
<1>18. ASSUME NEW c \in Client, NewRequest(c) \/ RequestStep(c) \/ RequestDies(c)
       PROVE  Rest
  BY <1>1, <1>2, <1>4, <1>5, <1>6, <1>18 DEF NewRequest, RequestStep
<1>19. ASSUME NEW w \in Worker, MarkStep(w)
       PROVE  Rest
  BY <1>7, <1>8, <1>9, <1>10, <1>11, <1>15, <1>19 DEF MarkStep
<1>20. LifeNext => Rest
  BY <1>12, <1>13, <1>14, <1>15, <1>16, <1>18, <1>19 DEF LifeNext
<1> QED BY <1>0, <1>17, <1>20 DEF Quiet
-----------------------------------------------------------------------------
(* One run for each script *)

\* Thread w is marking script s; it has its run stored; it is about to delete the media of s.
Marks(w, s) == worker[w].pc = "running" /\ ScriptOf(w) = s
HasRun(w)   == mark[w].step \in {"stored", "cropped"}
Tidies(w, s) == worker[w].pc = "finishing" /\ mark[w].step = "tidy" /\ ScriptOf(w) = s

RunsOf(s)  == {r \in Run : runSub[r] = s}
Decided(s) == RunsOf(s) # {} /\ PendingItems(s) = {}

\* A script that has a run is not to be marked again: nobody asks for it, and its last row is
\* the one that made the run.  The script points at the run, or the thread will see to that.
MarkedOnce(s) ==
    /\ \A c \in Client : ~Queues(c, s)
    /\ \A j \in Job : job[j].sub = s /\ LastRow(j) => job[j].state \in {"running", "done"}
    /\ runOf[s] \in RunsOf(s) \/ \E w \in Worker : Marks(w, s)

\* The thread that marks a script makes its only run.
OnlyRun(s) ==
    \A w \in Worker : Marks(w, s) =>
        /\ RunsOf(s) = IF HasRun(w) THEN {mark[w].run} ELSE {}
        /\ HasRun(w) /\ ~mark[w].esc => PendingItems(s) = {}

\* What was uploaded is there when the items are written, and as long as one is pending:
\* whoever deletes it has seen the script decided.
MediaThere(s) ==
    /\ PendingItems(s) # {} => Media \subseteq left[s]
    /\ \A w \in Worker :
          /\ Marks(w, s) /\ mark[w].step = "read" => Media \subseteq left[s]
          /\ s \in sweep[w] \/ Tidies(w, s) => Decided(s)

\* The status of a script that has no run is that of a script to be marked.
StatusSays(s) ==
    /\ status[s] = "none" => RunsOf(s) = {} /\ \A w \in Worker : s \notin sweep[w]
    /\ status[s] \in {"needs_you", "done"} => RunsOf(s) # {}
    /\ status[s] = "done" => PendingItems(s) = {}

ScriptInv(s) ==
    /\ StatusSays(s)
    /\ Exists(s) => /\ RunsOf(s) # {} => MarkedOnce(s)
                    /\ OnlyRun(s)
                    /\ MediaThere(s)

\* What most steps do to a script: its runs and threads stay, its items only get decided, and
\* its status and media change with no effect on what the invariant says.
RunsKept(s) ==
    /\ RunsOf(s)' = RunsOf(s)
    /\ PendingItems(s)' \subseteq PendingItems(s)
    /\ runOf'[s] = runOf[s]
StatusKept(s) ==
    /\ status'[s] = "none" => status[s] = "none"
    /\ Exists(s)' => Exists(s)
    /\ status'[s] \in {"needs_you", "done"} =>
          status'[s] = status[s] \/ (RunsOf(s) # {} /\ (status'[s] = "done" => PendingItems(s)' = {}))
RowsKept(s) ==
    Exists(s)' /\ RunsOf(s) # {} =>
        /\ \A c \in Client : ~Queues(c, s)'
        /\ \A j \in Job : job'[j].sub = s /\ LastRow(j)' => job'[j].state \in {"running", "done"}
ThreadsKept(s) ==
    \A w \in Worker :
        /\ Marks(w, s)' <=> Marks(w, s)
        /\ Marks(w, s) => /\ mark'[w].run = mark[w].run /\ mark'[w].esc = mark[w].esc
                          /\ HasRun(w)' <=> HasRun(w)
                          /\ mark'[w].step = "read" => mark[w].step = "read" \/ Media \subseteq left[s]
        /\ Tidies(w, s)' => Tidies(w, s)
MediaKept(s) ==
    /\ Exists(s)' => left[s] \subseteq left'[s] \/ (RunsOf(s) # {} /\ PendingItems(s)' = {})
    /\ \A w \in Worker : s \in sweep'[w] => s \in sweep[w] \/ (Exists(s) /\ Decided(s))
ScriptKept(s) == RunsKept(s) /\ StatusKept(s) /\ RowsKept(s) /\ ThreadsKept(s) /\ MediaKept(s)

\* Such a step keeps the invariant of the script.
LEMMA KeptScript ==
    ASSUME LifeTypeOK, NEW s \in Submission, ScriptInv(s), ScriptKept(s)
    PROVE  ScriptInv(s)'
<1> USE DEF ScriptInv, ScriptKept
<1>1. StatusSays(s)'
  BY DEF StatusSays, StatusKept, RunsKept, MediaKept, Exists
<1> SUFFICES ASSUME Exists(s)'
             PROVE  (RunsOf(s) # {} => MarkedOnce(s))' /\ OnlyRun(s)' /\ MediaThere(s)'
  BY <1>1
<1>2. Exists(s)
  BY DEF StatusKept
<1>3. (RunsOf(s) # {} => MarkedOnce(s))'
  <2> SUFFICES ASSUME RunsOf(s)' # {} PROVE MarkedOnce(s)'
    OBVIOUS
  <2>1. RunsOf(s) # {} /\ MarkedOnce(s)
    BY <1>2 DEF RunsKept
  <2>2. runOf'[s] \in RunsOf(s)' \/ \E w \in Worker : Marks(w, s)'
    BY <2>1 DEF MarkedOnce, RunsKept, ThreadsKept
  <2>3. /\ \A c \in Client : ~Queues(c, s)'
        /\ \A j \in Job : job'[j].sub = s /\ LastRow(j)' => job'[j].state \in {"running", "done"}
    BY <2>1 DEF RowsKept
  <2> QED BY <2>2, <2>3 DEF MarkedOnce
<1>4. OnlyRun(s)'
  <2> SUFFICES ASSUME NEW w \in Worker, Marks(w, s)'
               PROVE  /\ RunsOf(s)' = IF HasRun(w)' THEN {mark'[w].run} ELSE {}
                      /\ HasRun(w)' /\ ~mark'[w].esc => PendingItems(s)' = {}
    BY DEF OnlyRun
  <2>1. /\ RunsOf(s) = IF HasRun(w) THEN {mark[w].run} ELSE {}
        /\ HasRun(w) /\ ~mark[w].esc => PendingItems(s) = {}
    BY <1>2 DEF OnlyRun, ThreadsKept
  <2>2. (HasRun(w)' <=> HasRun(w)) /\ mark'[w].run = mark[w].run /\ mark'[w].esc = mark[w].esc
    BY DEF ThreadsKept
  <2> QED BY <2>1, <2>2 DEF RunsKept
<1>5. MediaThere(s)'
  <2>1. MediaThere(s) /\ OnlyRun(s)
    BY <1>2
  <2>2. Decided(s) => Decided(s)'
    BY DEF Decided, RunsKept
  <2>3. left[s] \subseteq left'[s] \/ (RunsOf(s) # {} /\ PendingItems(s)' = {})
    BY DEF MediaKept
  <2>4. PendingItems(s)' # {} => Media \subseteq left'[s]
    BY <2>1, <2>3 DEF MediaThere, RunsKept
  <2>5. ASSUME NEW w \in Worker, Marks(w, s)', mark'[w].step = "read"
        PROVE  Media \subseteq left'[s]
    <3>1. Marks(w, s) /\ ~HasRun(w)' /\ ~HasRun(w)
      BY <2>5 DEF ThreadsKept, HasRun
    <3>2. RunsOf(s) = {}
      BY <2>1, <3>1 DEF OnlyRun
    <3>3. Media \subseteq left[s]
      BY <2>1, <2>5, <3>1 DEF ThreadsKept, MediaThere
    <3> QED BY <2>3, <3>2, <3>3
  <2>6. ASSUME NEW w \in Worker, s \in sweep'[w] \/ Tidies(w, s)'
        PROVE  Decided(s)'
    BY <1>2, <2>1, <2>2, <2>6 DEF MediaThere, MediaKept, ThreadsKept
  <2> QED BY <2>4, <2>5, <2>6 DEF MediaThere
<1> QED BY <1>3, <1>4, <1>5
\* A script that has no run keeps the invariant while its status says so, and its threads are

\* not yet there.
LEMMA UnmarkedScript ==
    ASSUME LifeTypeOK', NEW s \in Submission, RunsOf(s)' = {},
           status'[s] \notin {"needs_you", "done"},
           \A w \in Worker :
              /\ s \notin sweep'[w] /\ ~Tidies(w, s)'
              /\ Marks(w, s)' => ~HasRun(w)' /\ (mark'[w].step = "read" => Media \subseteq left'[s])
    PROVE  ScriptInv(s)'
<1>1. PendingItems(s)' = {}
  BY DEF PendingItems, RunsOf, Item
<1>2. StatusSays(s)'
  BY DEF StatusSays
<1>3. OnlyRun(s)'
  BY DEF OnlyRun
<1>4. MediaThere(s)'
  BY <1>1 DEF MediaThere
<1> QED BY <1>2, <1>3, <1>4 DEF ScriptInv

\* One that is gone keeps it too.
LEMMA GoneScript ==
    ASSUME NEW s \in Submission, status'[s] = "deleted"
    PROVE  ScriptInv(s)'
BY DEF ScriptInv, StatusSays, Exists

\* Each part of what most steps keep, from what they leave alone.
LEMMA RunsFrame ==
    ASSUME UNCHANGED <<runSub, runOf>>, \A i \in Item : item'[i] = "pending" => item[i] = "pending",
           NEW s \in Submission
    PROVE  RunsKept(s)
BY DEF RunsKept, RunsOf, PendingItems

\* A status that is kept, or is written by the queue while the script is there.
LEMMA StatusFrame ==
    ASSUME NEW s \in Submission,
           status'[s] = status[s] \/ (Exists(s) /\ status'[s] \in {"queued", "marking", "failed"})
    PROVE  StatusKept(s)
BY DEF StatusKept, Exists

\* No job of a script that has its run comes back while nobody queues it and its running row stays.
LEMMA RowsFrame ==
    ASSUME LifeTypeOK, Quiet', RowsGoOn, NEW s \in Submission, ScriptInv(s), Exists(s)' => Exists(s),
           \A c \in Client : Queues(c, s)' => Queues(c, s),
           \A j \in Job : job[j].sub = s /\ job[j].state = "running" =>
               job'[j].state \in {"running", "done", "deleted"}
    PROVE  RowsKept(s)
<1> SUFFICES ASSUME Exists(s)', RunsOf(s) # {}
             PROVE  /\ \A c \in Client : ~Queues(c, s)'
                    /\ \A j \in Job : job'[j].sub = s /\ LastRow(j)' => job'[j].state \in {"running", "done"}
  BY DEF RowsKept
<1>1. MarkedOnce(s)
  BY DEF ScriptInv
<1>2. ASSUME NEW j \in Job, job'[j].sub = s, LastRow(j)'
      PROVE  job'[j].state \in {"running", "done"}
  <2>1. job[j].sub = s /\ LastRow(j)
    BY <1>2 DEF RowsGoOn, LastRow
  <2>2. job[j].state \in {"running", "done"}
    BY <1>1, <2>1 DEF MarkedOnce
  <2>3. job'[j].state # "deleted"
    BY <1>2 DEF Quiet, Uninterrupted
  <2> QED BY <2>1, <2>2, <2>3 DEF RowsGoOn, Active
<1> QED BY <1>1, <1>2 DEF MarkedOnce

\* A thread that does not move has the script, and the place in it, that it had.
LEMMA ThreadsFrame ==
    ASSUME HandOK, \A j \in Job : job'[j].sub = job[j].sub \/ job[j].state = "free", OneHolder,
           NEW s \in Submission,
           \A w \in Worker : \/ worker'[w] = worker[w] /\ mark'[w] = mark[w]
                             \/ ~Marks(w, s) /\ ~Marks(w, s)' /\ ~Tidies(w, s)'
    PROVE  ThreadsKept(s)
<1> SUFFICES ASSUME NEW w \in Worker, worker'[w] = worker[w], mark'[w] = mark[w]
             PROVE  /\ Marks(w, s)' <=> Marks(w, s)
                    /\ HasRun(w)' <=> HasRun(w)
                    /\ Tidies(w, s)' => Tidies(w, s)
  BY DEF ThreadsKept
<1>1. worker[w].pc \in {"running", "finishing"} =>
        worker[w].job \in Job /\ job[worker[w].job].state # "free"
  BY NoneIsNoJob DEF HandOK, OneHolder
<1>2. worker[w].pc \in {"running", "finishing"} => ScriptOf(w)' = ScriptOf(w)
  BY <1>1 DEF ScriptOf
<1> QED BY <1>2 DEF Marks, HasRun, Tidies

\* Media that are not deleted, nor listed to be.
LEMMA MediaFrame ==
    ASSUME NEW s \in Submission, left[s] \subseteq left'[s], \A w \in Worker : sweep'[w] \subseteq sweep[w]
    PROVE  MediaKept(s)
BY DEF MediaKept
\* The invariant of the proofs of a quiet worker: each script, and all that its part rests on.
ScriptsInv == \A s \in Submission : ScriptInv(s)
Sound == LifeTypeOK /\ RequestOK /\ HandOK /\ OneHolder /\ RetryInv /\ Quiet /\ ScriptsInv

\* A script that has an item to decide has a run.
LEMMA PendingHasRun ==
    ASSUME LifeTypeOK, NEW s, PendingItems(s) # {}
    PROVE  RunsOf(s) # {}
BY DEF PendingItems, RunsOf, Item

\* A thread that marks a script which is there has the last row of it, and is the only one.
LEMMA MarksAlone ==
    ASSUME Sound, NEW w \in Worker, NEW s \in Submission, Marks(w, s), Exists(s)
    PROVE  /\ worker[w].job \in Job /\ job[worker[w].job].state = "running"
           /\ LastRow(worker[w].job)
           /\ \A v \in Worker : Marks(v, s) => v = w
<1>1. ASSUME NEW v \in Worker, Marks(v, s)
      PROVE  /\ worker[v].job \in Job /\ job[worker[v].job].state = "running"
             /\ job[worker[v].job].sub = s /\ LastRow(worker[v].job)
  <2>1. worker[v].job \in Job /\ job[worker[v].job].sub = s
    BY <1>1 DEF Marks, ScriptOf, Sound, HandOK
  <2>2. job[worker[v].job].state \in {"running", "deleted"}
    BY <2>1, NoneIsNoJob DEF Sound, OneHolder
  <2>3. job[worker[v].job].state = "running"
    BY <2>1, <2>2 DEF Sound, Quiet, Uninterrupted
  <2> QED BY <2>1, <2>3 DEF Sound, RetryInv, ActiveIsLast, Active
<1>2. ASSUME NEW v \in Worker, Marks(v, s)
      PROVE  v = w
  <2>1. worker[v].job = worker[w].job
    BY <1>1, <1>2 DEF LastRow, Job
  <2> QED BY <1>1, <1>2, <2>1, NoneIsNoJob DEF Sound, OneHolder
<1> QED BY <1>1, <1>2

\* A thread that marks has a script, and one that is in the tables.
LEMMA MarksScript ==
    ASSUME Sound, NEW w \in Worker, worker[w].pc \in {"running", "finishing"}
    PROVE  /\ worker[w].job \in Job /\ job[worker[w].job].state \in {"running", "deleted"}
           /\ ScriptOf(w) \in Submission /\ status[ScriptOf(w)] # "none"
<1>1. worker[w].job \in Job
  BY DEF Sound, HandOK
<1>2. job[worker[w].job].state \in {"running", "deleted"}
  BY <1>1, NoneIsNoJob DEF Sound, OneHolder
<1> QED BY <1>1, <1>2 DEF Sound, RetryInv, RowsInOrder, ScriptOf

\* Requests that only change themselves, the passing of time, and a step of somebody else's.
LEMMA WaitingKeepsScripts ==
    ASSUME Sound, Quiet', RowsGoOn, NobodyAsks,
           \/ \E c \in Client : \/ CliMark(c) \/ CliCorrect(c) \/ RequestDies(c)
                                \/ \E s \in Submission : RemoveCheck(c, s)
                                \/ \E i \in Item : CliCheck(c, i)
           \/ \E j \in Job : Elapse(j)
           \/ UNCHANGED lifeVars
    PROVE  ScriptsInv'
<1> SUFFICES ASSUME NEW s \in Submission PROVE ScriptInv(s)'
  BY DEF ScriptsInv
<1> USE DEF Sound
<1>0. ScriptInv(s)
  BY DEF ScriptsInv
<1>1. /\ UNCHANGED <<runSub, runOf, left, sweep, mark, worker>>
      /\ \A j \in Job : job'[j].state = job[j].state
  <2>1. ASSUME NEW j \in Job, Elapse(j)
        PROVE  /\ UNCHANGED <<runSub, runOf, left, sweep, mark, worker>>
               /\ job' = job \/ job' = [job EXCEPT ![j].later = FALSE]
    BY <2>1 DEF Elapse, StampQueued, BackoffOver, CallerDies
  <2>4. ASSUME NEW j \in Job, job' = [job EXCEPT ![j].later = FALSE]
        PROVE  \A i \in Job : job'[i].state = job[i].state
    BY <2>4 DEF LifeTypeOK, JobTypeOK
  <2>2. CASE UNCHANGED lifeVars
    BY <2>2 DEF lifeVars, jobVars
  <2>3. ASSUME NEW c \in Client,
               \/ CliMark(c) \/ CliCorrect(c) \/ RequestDies(c)
               \/ \E x \in Submission : RemoveCheck(c, x)
               \/ \E i \in Item : CliCheck(c, i)
        PROVE  UNCHANGED <<runSub, runOf, left, sweep, mark, worker, job>>
    BY <2>3 DEF CliMark, CliCorrect, RequestDies, RemoveCheck, CliCheck, jobVars
  <2> QED BY <2>1, <2>2, <2>3, <2>4
<1>2. \A i \in Item : item'[i] = "pending" => item[i] = "pending"
  <2>1. CASE item' = item
    BY <2>1
  <2>2. ASSUME NEW c \in Client, CliMark(c) PROVE \A i \in Item : item'[i] = "pending" => item[i] = "pending"
    BY <2>2 DEF CliMark, LifeTypeOK
  <2> QED BY <2>1, <2>2 DEF CliCorrect, RequestDies, RemoveCheck, CliCheck, Elapse, lifeVars
<1>3. status'[s] = status[s] \/ (Exists(s) /\ status'[s] = "queued")
  <2>1. ASSUME NEW j \in Job, StampQueued(j)
        PROVE  status'[s] = status[s] \/ (Exists(s) /\ status'[s] = "queued")
    BY <2>1, StatusOfRowValue DEF StampQueued, LifeTypeOK, Status
  <2>2. CASE status' = status
    BY <2>2
  <2> QED BY <2>1, <2>2
      DEF CliMark, CliCorrect, RequestDies, RemoveCheck, CliCheck, Elapse, BackoffOver, CallerDies, lifeVars, jobVars
<1>4. RunsKept(s) /\ StatusKept(s)
  BY <1>1, <1>2, <1>3, RunsFrame, StatusFrame
<1>5. RowsKept(s)
  BY <1>0, <1>1, <1>3, RowsFrame DEF NobodyAsks, Queues, Exists
<1>6. ThreadsKept(s) /\ MediaKept(s)
  BY <1>1, ThreadsFrame, MediaFrame DEF RowsGoOn
<1> QED BY <1>0, <1>4, <1>5, <1>6, KeptScript DEF ScriptKept

\* A retry is for a script without a run, its last job having failed before it made one.
LEMMA RetryKeepsScripts ==
    ASSUME Sound, NEW c \in Client, NEW z \in Submission, Retry(c, z)
    PROVE  ScriptsInv'
<1> SUFFICES ASSUME NEW s \in Submission PROVE ScriptInv(s)'
  BY DEF ScriptsInv
<1> USE DEF Sound
<1>0. ScriptInv(s)
  BY DEF ScriptsInv
<1>1. UNCHANGED jobVars /\ UNCHANGED <<runSub, runOf, item, left, sweep, mark>>
  BY DEF Retry
<1>2. UNCHANGED <<job, status, worker>>
  BY <1>1 DEF jobVars
<1>3. RunsKept(s) /\ StatusKept(s) /\ ThreadsKept(s) /\ MediaKept(s)
  BY <1>1, <1>2, RunsFrame, StatusFrame, ThreadsFrame, MediaFrame
<1>4. RowsKept(s)
  <2> SUFFICES ASSUME Exists(s)', RunsOf(s) # {}
               PROVE  /\ \A d \in Client : ~Queues(d, s)'
                      /\ \A j \in Job : job'[j].sub = s /\ LastRow(j)' => job'[j].state \in {"running", "done"}
    BY DEF RowsKept
  <2>1. MarkedOnce(s)
    BY <1>0, <1>2 DEF ScriptInv, Exists
  <2>2. s # z
    <3>1. PICK j \in Job : Newest(j, z) /\ job[j].state = "failed"
      BY DEF Retry
    <3>2. job[j].sub = z /\ LastRow(j)
      BY <3>1 DEF Newest, LastRow
    <3> QED BY <2>1, <3>1, <3>2 DEF MarkedOnce
  <2>3. \A d \in Client : ~Queues(d, s)'
    BY <2>1, <2>2 DEF Retry, Queues, MarkedOnce, Todo, NoRequest, LifeTypeOK
  <2> QED BY <1>2, <2>1, <2>3 DEF MarkedOnce, LastRow
<1> QED BY <1>0, <1>3, <1>4, KeptScript DEF ScriptKept

\* The job that a request queues is for a script without a run.
LEMMA EnqueueKeepsScripts ==
    ASSUME Sound, NobodyAsks, NEW c \in Client, EnqueueMark(c)
    PROVE  ScriptsInv'
<1> SUFFICES ASSUME NEW s \in Submission PROVE ScriptInv(s)'
  BY DEF ScriptsInv
<1> USE DEF Sound
<1>0. ScriptInv(s)
  BY DEF ScriptsInv
<1>1. UNCHANGED <<runSub, runOf, item, left, sweep, mark, status, worker>>
  BY DEF EnqueueMark, InsertJob, jobVars
<1>2. request[c].sub \in Submission
  BY DEF EnqueueMark, RequestOK
<1>3. RunsKept(s) /\ StatusKept(s) /\ MediaKept(s)
  BY <1>1, RunsFrame, StatusFrame, MediaFrame
<1>4. \A d \in Client : Queues(d, s)' => Queues(d, s)
  BY DEF NobodyAsks, Queues
<1>5. CASE UNCHANGED jobVars
  <2>1. job' = job
    BY <1>5 DEF jobVars
  <2>2. ThreadsKept(s)
    BY <1>1, <2>1, ThreadsFrame
  <2>3. RowsKept(s)
    BY <1>0, <1>1, <1>4, <2>1 DEF RowsKept, ScriptInv, MarkedOnce, LastRow, Exists
  <2> QED BY <1>0, <1>3, <2>2, <2>3, KeptScript DEF ScriptKept
<1>6. ASSUME NEW j \in Job, InsertJob(j, request[c].sub)
      PROVE  ScriptInv(s)'
  <2> DEFINE z == request[c].sub
  <2>1. /\ job'[j].sub = z
        /\ \A i \in Job : i # j => job'[i] = job[i]
        /\ job[j].state = "free"
        /\ \A i \in Job : job[i].sub \notin {z, None} => (LastRow(i)' <=> LastRow(i))
    BY <1>2, <1>6, InsertedRow DEF RetryInv, LifeTypeOK
  <2>2. ThreadsKept(s)
    BY <1>1, <2>1, ThreadsFrame
  <2>3. RowsKept(s)
    <3> SUFFICES ASSUME Exists(s)', RunsOf(s) # {}
                 PROVE  /\ \A d \in Client : ~Queues(d, s)'
                        /\ \A i \in Job : job'[i].sub = s /\ LastRow(i)' => job'[i].state \in {"running", "done"}
      BY DEF RowsKept
    <3>1. MarkedOnce(s)
      BY <1>0, <1>1 DEF ScriptInv, Exists
    <3>2. s # z /\ s # None
      BY <3>1, JobAssumption DEF MarkedOnce, EnqueueMark, Queues, JobAssumption
    <3>3. \A i \in Job : job'[i].sub = s => i # j /\ job'[i] = job[i]
      BY <2>1, <3>2
    <3>4. \A i \in Job : job[i].sub = s => (LastRow(i)' <=> LastRow(i))
      BY <2>1, <3>2
    <3> QED BY <1>4, <3>1, <3>3, <3>4 DEF MarkedOnce
  <2> QED BY <1>0, <1>3, <2>2, <2>3, KeptScript DEF ScriptKept
<1> QED BY <1>5, <1>6 DEF EnqueueMark

\* What deleting media of one script does to the others: nothing.
LEMMA DeletedOthers ==
    ASSUME LifeTypeOK, NEW z \in Submission, NEW media, NEW s \in Submission, s # z
    PROVE  Deleted(z, media)[s] = left[s]
BY DEF Deleted, LifeTypeOK

\* A decision, and the healing of a script with nothing to decide, say what is true of it; what

\* they delete is no longer needed.
LEMMA DecisionsKeepScripts ==
    ASSUME Sound, Quiet', RowsGoOn, NobodyAsks,
           \/ \E c \in Client, i \in Item : Resolve(c, i)
           \/ \E c \in Client : ReconcileAfter(c)
           \/ \E w \in Worker, z \in Submission : SweepReconcile(w, z)
    PROVE  ScriptsInv'
<1> SUFFICES ASSUME NEW s \in Submission PROVE ScriptInv(s)'
  BY DEF ScriptsInv
<1> USE DEF Sound
<1>0. ScriptInv(s)
  BY DEF ScriptsInv
<1>1. ASSUME NEW z \in Submission, NEW v \in {"needs_you", "done"}, NEW media,
             UNCHANGED <<runSub, runOf, sweep, mark, worker, job>>,
             \A i \in Item : item'[i] = "pending" => item[i] = "pending",
             status' = status \/ (Exists(z) /\ status' = [status EXCEPT ![z] = v]),
             left' = left \/ left' = Deleted(z, media),
             RunsOf(z) # {},
             v = "done" \/ left' # left => PendingItems(z)' = {}
      PROVE  ScriptInv(s)'
  <2>1. RunsKept(s) /\ ThreadsKept(s)
    BY <1>1, RunsFrame, ThreadsFrame
  <2>2. status'[s] = status[s] \/ (s = z /\ status'[s] = v /\ Exists(s))
    BY <1>1 DEF LifeTypeOK, JobTypeOK
  <2>3. StatusKept(s)
    BY <1>1, <2>2 DEF StatusKept, Exists
  <2>4. RowsKept(s)
    BY <1>0, <1>1, <2>2, RowsFrame DEF NobodyAsks, Queues, Exists
  <2>5. MediaKept(s)
    <3>1. CASE left' = left
      BY <1>1, <3>1, MediaFrame
    <3>2. CASE left' = Deleted(z, media) /\ s # z
      BY <1>1, <3>2, DeletedOthers, MediaFrame
    <3>3. CASE left' # left /\ s = z
      BY <1>1, <3>3 DEF MediaKept
    <3> QED BY <1>1, <3>1, <3>2, <3>3
  <2> QED BY <1>0, <2>1, <2>3, <2>4, <2>5, KeptScript DEF ScriptKept
<1>2. ASSUME NEW c \in Client, NEW i \in Item, Resolve(c, i)
      PROVE  ScriptInv(s)'
  <2>0. PICK z \in Submission : z = runSub[i[1]] /\ item[i] = "pending"
    BY <1>2 DEF Resolve, Resolvable, LifeTypeOK, Item
  <2>1. PICK v \in {"needs_you", "done"} : v = Outcome(z, i)
    BY DEF Outcome
  <2>2. i \in PendingItems(z) /\ RunsOf(z) # {}
    BY <2>0, PendingHasRun DEF PendingItems
  <2>3. /\ UNCHANGED <<runSub, runOf, sweep, mark>>
        /\ item' = [item EXCEPT ![i] = "resolved"]
        /\ IF Exists(z) THEN OthersWrite(z, v) ELSE UNCHANGED jobVars
        /\ left' = IF v = "done" THEN Deleted(z, {"page"}) ELSE left
    BY <1>2, <2>0, <2>1 DEF Resolve
  <2>4. /\ UNCHANGED <<worker, job>>
        /\ status' = status \/ (Exists(z) /\ status' = [status EXCEPT ![z] = v])
    BY <2>3 DEF OthersWrite, jobVars
  <2>5. \A k \in Item : item'[k] = "pending" => item[k] = "pending" /\ k # i
    BY <2>3 DEF LifeTypeOK
  <2>6. v = "done" => PendingItems(z)' = {}
    BY <2>1, <2>3, <2>5 DEF Outcome, PendingItems
  <2> QED BY <1>1, <2>2, <2>3, <2>4, <2>5, <2>6
<1>3. ASSUME NEW z \in Submission, Reconcile(z), UNCHANGED <<runSub, runOf, sweep, mark, item>>
      PROVE  ScriptInv(s)'
  <2>1. CASE NeedsHealing(z)
    <3>1. /\ UNCHANGED <<worker, job>>
          /\ Exists(z) /\ status' = [status EXCEPT ![z] = "done"]
          /\ left' = Deleted(z, {"page", "file"})
      BY <1>3, <2>1 DEF Reconcile, OthersWrite
    <3>2. RunsOf(z) # {} /\ PendingItems(z) = {}
      BY <2>1 DEF NeedsHealing, ScriptsInv, ScriptInv, StatusSays
    <3>3. PendingItems(z)' = {}
      BY <1>3, <3>2 DEF PendingItems
    <3> QED BY <1>1, <1>3, <3>1, <3>2, <3>3
  <2>2. CASE ~NeedsHealing(z)
    <3>1. UNCHANGED <<worker, job, status, left>>
      BY <1>3, <2>2 DEF Reconcile, jobVars
    <3>2. RunsKept(s) /\ StatusKept(s) /\ ThreadsKept(s) /\ MediaKept(s)
      BY <1>3, <3>1, RunsFrame, StatusFrame, ThreadsFrame, MediaFrame
    <3>3. RowsKept(s)
      BY <1>0, <3>1, RowsFrame DEF NobodyAsks, Queues, Exists
    <3> QED BY <1>0, <3>2, <3>3, KeptScript DEF ScriptKept
  <2> QED BY <2>1, <2>2
<1>4. ASSUME NEW c \in Client, ReconcileAfter(c)
      PROVE  ScriptInv(s)'
  <2>1. request[c].sub \in Submission
    BY <1>4 DEF ReconcileAfter, RequestOK
  <2> QED BY <1>3, <1>4, <2>1 DEF ReconcileAfter
<1>5. ASSUME NEW w \in Worker, NEW z \in Submission, SweepReconcile(w, z)
      PROVE  ScriptInv(s)'
  BY <1>3, <1>5 DEF SweepReconcile
<1> QED BY <1>2, <1>4, <1>5

\* A script that is uploaded has never been there.
LEMMA UploadKeepsScripts ==
    ASSUME Sound, LifeTypeOK', Quiet', RowsGoOn, NEW c \in Client, NEW z \in Submission, CreateSubmission(c, z)
    PROVE  ScriptsInv'
<1> SUFFICES ASSUME NEW s \in Submission PROVE ScriptInv(s)'
  BY DEF ScriptsInv
<1> USE DEF Sound
<1>0. ScriptInv(s)
  BY DEF ScriptsInv
<1>1. /\ UNCHANGED <<job, worker, runSub, runOf, item, mark, sweep>>
      /\ status[z] = "none" /\ status' = [status EXCEPT ![z] = "uploaded"]
      /\ left' = [left EXCEPT ![z] = Media]
  BY DEF CreateSubmission, Upload
<1>2. CASE s = z
  <2>1. RunsOf(s)' = {} /\ \A w \in Worker : s \notin sweep'[w]
    BY <1>0, <1>1, <1>2 DEF ScriptInv, StatusSays, RunsOf
  <2>2. status'[s] = "uploaded"
    BY <1>1, <1>2 DEF LifeTypeOK, JobTypeOK
  <2>3. ASSUME NEW w \in Worker PROVE ~Marks(w, s)' /\ ~Tidies(w, s)'
    <3>1. worker[w].pc \in {"running", "finishing"} => ScriptOf(w) # s
      BY <1>1, <1>2, MarksScript
    <3> QED BY <1>1, <3>1 DEF Marks, Tidies, ScriptOf
  <2> QED BY <2>1, <2>2, <2>3, UnmarkedScript
<1>3. CASE s # z
  <2>1. status'[s] = status[s] /\ left'[s] = left[s]
    BY <1>1, <1>3 DEF LifeTypeOK, JobTypeOK
  <2>2. RunsKept(s) /\ StatusKept(s) /\ ThreadsKept(s) /\ MediaKept(s)
    BY <1>1, <2>1, RunsFrame, StatusFrame, ThreadsFrame, MediaFrame
  <2>3. \A d \in Client : Queues(d, s)' => Queues(d, s)
    BY <1>3 DEF CreateSubmission, Queues, Todo, NoRequest, LifeTypeOK
  <2>4. RowsKept(s)
    BY <1>0, <1>1, <2>1, <2>3, RowsFrame DEF Exists
  <2> QED BY <1>0, <2>2, <2>4, KeptScript DEF ScriptKept
<1> QED BY <1>2, <1>3

\* A script that is removed is gone for good, and what is deleted with it is its own.
LEMMA RemoveKeepsScripts ==
    ASSUME Sound, LifeTypeOK', Quiet', RowsGoOn, NobodyAsks, NEW c \in Client, RemoveHandIn(c)
    PROVE  ScriptsInv'
<1> SUFFICES ASSUME NEW s \in Submission PROVE ScriptInv(s)'
  BY DEF ScriptsInv
<1> USE DEF Sound
<1>0. ScriptInv(s)
  BY DEF ScriptsInv
<1> DEFINE z == request[c].sub
<1>1. z \in Submission /\ z # None
  BY JobAssumption DEF RemoveHandIn, RequestOK, JobAssumption
<1>2. /\ IF Exists(z) THEN Forget(z) ELSE UNCHANGED jobVars
      /\ item' = [i \in Item |-> IF runSub[i[1]] = z THEN "none" ELSE item[i]]
      /\ runSub' = [r \in Run |-> IF runSub[r] = z THEN None ELSE runSub[r]]
      /\ runOf' = [runOf EXCEPT ![z] = None]
      /\ left' = [left EXCEPT ![z] = {}]
      /\ UNCHANGED <<mark, sweep>>
  BY DEF RemoveHandIn
<1> HIDE DEF z
<1>3. UNCHANGED worker
  BY <1>2 DEF Forget, jobVars
<1>4. CASE s = z
  <2>1. CASE Exists(z)
    BY <1>2, <1>4, <2>1, GoneScript DEF Forget, LifeTypeOK, JobTypeOK
  <2>2. CASE ~Exists(z)
    <3>1. status' = status
      BY <1>2, <2>2 DEF jobVars
    <3>2. RunsOf(s)' = {}
      BY <1>1, <1>2, <1>4 DEF RunsOf
    <3>3. StatusSays(s)' /\ ~Exists(s)'
      BY <1>0, <1>2, <1>4, <2>2, <3>1, <3>2 DEF ScriptInv, StatusSays, Exists
    <3> QED BY <3>3 DEF ScriptInv
  <2> QED BY <2>1, <2>2
<1>5. CASE s # z
  <2>1. status'[s] = status[s] /\ \A j \in Job : job[j].sub = s => job'[j] = job[j]
    BY <1>2, <1>5 DEF Forget, jobVars, LifeTypeOK, JobTypeOK
  <2>2. left'[s] = left[s] /\ runOf'[s] = runOf[s]
    BY <1>2, <1>5 DEF LifeTypeOK
  <2>3. \A r \in Run : runSub'[r] = s <=> runSub[r] = s
    BY <1>1, <1>2, <1>5, JobAssumption DEF JobAssumption
  <2>4. \A i \in Item : item'[i] = "pending" => item[i] = "pending"
    BY <1>2
  <2>5. RunsKept(s)
    BY <2>2, <2>3, <2>4 DEF RunsKept, RunsOf, PendingItems, Item
  <2>6. StatusKept(s) /\ ThreadsKept(s) /\ MediaKept(s)
    BY <1>2, <1>3, <2>1, <2>2, StatusFrame, ThreadsFrame, MediaFrame DEF RowsGoOn
  <2>7. RowsKept(s)
    BY <1>0, <2>1, RowsFrame DEF Exists, NobodyAsks, Queues
  <2> QED BY <1>0, <2>5, <2>6, <2>7, KeptScript DEF ScriptKept
<1> QED BY <1>4, <1>5

\* Reading the script and storing its crops, between the claim and the outcome.
LEMMA ReadingKeepsScripts ==
    ASSUME Sound, Quiet', RowsGoOn, NobodyAsks, NEW w \in Worker, Read(w) \/ StoreCrops(w)
    PROVE  ScriptsInv'
<1> SUFFICES ASSUME NEW s \in Submission PROVE ScriptInv(s)'
  BY DEF ScriptsInv
<1> USE DEF Sound
<1>0. ScriptInv(s)
  BY DEF ScriptsInv
<1>1. UNCHANGED <<job, status, worker, runSub, item, runOf, sweep>> /\ left[s] \subseteq left'[s]
  BY DEF Read, StoreCrops, jobVars, LifeTypeOK
<1>2. /\ \A v \in Worker : v # w => mark'[v] = mark[v]
      /\ mark'[w].run = mark[w].run /\ mark'[w].esc = mark[w].esc
      /\ HasRun(w)' <=> HasRun(w)
      /\ mark'[w].step = "read" => Media \subseteq left[ScriptOf(w)]
      /\ worker[w].pc = "running"
  BY DEF Read, StoreCrops, Goto, At, HasRun, LifeTypeOK, MarkState
<1>3. \A v \in Worker : (Marks(v, s)' <=> Marks(v, s)) /\ (v # w => (HasRun(v)' <=> HasRun(v)) /\ (Tidies(v, s)' => Tidies(v, s)))
  BY <1>1, <1>2 DEF Marks, HasRun, Tidies, ScriptOf
<1>4. ~Tidies(w, s)'
  BY <1>1, <1>2 DEF Tidies
<1>5. ThreadsKept(s)
  BY <1>2, <1>3, <1>4 DEF ThreadsKept, Marks
<1>6. RunsKept(s) /\ StatusKept(s) /\ MediaKept(s)
  BY <1>1, RunsFrame, StatusFrame, MediaFrame
<1>7. RowsKept(s)
  BY <1>0, <1>1, RowsFrame DEF Exists, NobodyAsks, Queues
<1> QED BY <1>0, <1>5, <1>6, <1>7, KeptScript DEF ScriptKept

\* The deletions: by the thread that found the script marked with nothing to decide, and by a

\* sweep that found it done; and a worker that starts.
LEMMA TidyingKeepsScripts ==
    ASSUME Undisturbed, Sound, Quiet', RowsGoOn, NobodyAsks, NEW w \in Worker,
           \/ Tidy(w) \/ SweepList(w) \/ StartWorker(w)
           \/ \E z \in Submission : SweepDelete(w, z)
    PROVE  ScriptsInv'
<1> SUFFICES ASSUME NEW s \in Submission PROVE ScriptInv(s)'
  BY DEF ScriptsInv
<1> USE DEF Sound
<1>0. ScriptInv(s)
  BY DEF ScriptsInv
<1>1. /\ UNCHANGED <<job, status, runSub, item, runOf>>
      /\ \A v \in Worker : \/ worker'[v] = worker[v] /\ mark'[v] = mark[v]
                           \/ worker[v].pc # "running" /\ worker'[v].pc # "running" /\ ~Tidies(v, s)'
  <2>1. CASE Tidy(w)
    BY <2>1 DEF Tidy, Over, MarkOff, Tidies, jobVars, LifeTypeOK
  <2>2. CASE StartWorker(w)
    BY <2>2, NothingInterrupts DEF StartWorker, Idle, Tidies, LifeTypeOK, JobTypeOK
  <2>3. CASE SweepList(w) \/ \E z \in Submission : SweepDelete(w, z)
    BY <2>3 DEF SweepList, SweepDelete, jobVars
  <2> QED BY <2>1, <2>2, <2>3
<1>2. ThreadsKept(s)
  BY <1>1, ThreadsFrame DEF Marks
<1>3. RunsKept(s) /\ StatusKept(s)
  BY <1>1, RunsFrame, StatusFrame
<1>4. RowsKept(s)
  BY <1>0, <1>1, RowsFrame DEF Exists, NobodyAsks, Queues
<1>5. ASSUME Exists(s), Decided(s)
      PROVE  RunsOf(s) # {} /\ PendingItems(s)' = {}
  BY <1>1, <1>5 DEF Decided, PendingItems
<1>6. MediaKept(s)
  <2>1. CASE Tidy(w)
    <3>1. PICK z \in Submission : z = ScriptOf(w) /\ Tidies(w, z) /\ left' = Deleted(z, AllMedia)
      BY <2>1, MarksScript DEF Tidy, Tidies
    <3>2. CASE s = z
      <4>1. Exists(s)' => RunsOf(s) # {} /\ PendingItems(s)' = {}
        BY <1>0, <1>1, <1>5, <3>1, <3>2 DEF ScriptInv, MediaThere, Exists
      <4> QED BY <2>1, <4>1 DEF Tidy, MediaKept
    <3>3. CASE s # z
      BY <2>1, <3>1, <3>3, DeletedOthers, MediaFrame DEF Tidy
    <3> QED BY <3>2, <3>3
  <2>2. CASE StartWorker(w)
    BY <2>2, MediaFrame DEF StartWorker
  <2>3. CASE SweepList(w)
    <3>1. left' = left /\ \A v \in Worker : s \in sweep'[v] => s \in sweep[v] \/ status[s] = "done"
      BY <2>3 DEF SweepList, LifeTypeOK
    <3>2. status[s] = "done" => Exists(s) /\ Decided(s)
      BY <1>0 DEF ScriptInv, StatusSays, Decided, Exists
    <3> QED BY <3>1, <3>2 DEF MediaKept
  <2>4. ASSUME NEW z \in Submission, SweepDelete(w, z)
        PROVE  MediaKept(s)
    <3>1. z \in sweep[w] /\ left' = Deleted(z, AllMedia) /\ \A v \in Worker : sweep'[v] \subseteq sweep[v]
      BY <2>4 DEF SweepDelete, LifeTypeOK
    <3>2. CASE s = z
      <4>1. Exists(s)' => RunsOf(s) # {} /\ PendingItems(s)' = {}
        BY <1>0, <1>1, <1>5, <3>1, <3>2 DEF ScriptInv, MediaThere, Exists
      <4> QED BY <3>1, <4>1 DEF MediaKept
    <3>3. CASE s # z
      BY <3>1, <3>3, DeletedOthers, MediaFrame
    <3> QED BY <3>2, <3>3
  <2> QED BY <2>1, <2>2, <2>3, <2>4
<1> QED BY <1>0, <1>2, <1>3, <1>4, <1>6, KeptScript DEF ScriptKept

\* A job is claimed for a script that has no run.
LEMMA ClaimKeepsScripts ==
    ASSUME Sound, LifeTypeOK', Quiet', RowsGoOn, NobodyAsks, NEW w \in Worker, NEW j \in Job, ClaimMark(w, j)
    PROVE  ScriptsInv'
<1> SUFFICES ASSUME NEW s \in Submission PROVE ScriptInv(s)'
  BY DEF ScriptsInv
<1> USE DEF Sound
<1>0. ScriptInv(s)
  BY DEF ScriptsInv
<1>1. /\ job[j].state = "queued" /\ worker[w].pc = "idle"
      /\ status' = StatusOfRow(j, "marking")
      /\ UNCHANGED <<runSub, item, runOf, left, sweep>>
  BY DEF ClaimMark, Claim, Oldest, Ready
<1>2. /\ \A i \in Job : job'[i].sub = job[i].sub /\ job'[i].state \in {job[i].state, "running"}
      /\ \A v \in Worker : v # w => worker'[v] = worker[v] /\ mark'[v] = mark[v]
      /\ worker'[w].pc = "running" /\ worker'[w].job = j /\ mark'[w].step = "begin"
  BY DEF ClaimMark, Claim, Goto, LifeTypeOK, JobTypeOK, Row, MarkState
<1>3. status'[s] = status[s] \/ (Exists(s) /\ status'[s] = "marking")
  BY <1>1, StatusOfRowValue DEF LifeTypeOK, Status
<1>4. ~Marks(w, s) /\ ~Tidies(w, s) /\ ~Tidies(w, s)' /\ (Marks(w, s)' <=> job[j].sub = s)
  BY <1>1, <1>2 DEF Marks, Tidies, ScriptOf
<1>5. CASE job[j].sub # s \/ ~Exists(s)
  <2>1. CASE job[j].sub # s
    <3>1. ThreadsKept(s)
      BY <1>2, <1>4, <2>1, ThreadsFrame
    <3>2. RunsKept(s) /\ StatusKept(s) /\ MediaKept(s)
      BY <1>1, <1>3, RunsFrame, StatusFrame, MediaFrame
    <3>3. RowsKept(s)
      BY <1>0, <1>2, <1>3, RowsFrame DEF Exists, NobodyAsks, Queues
    <3> QED BY <1>0, <3>1, <3>2, <3>3, KeptScript DEF ScriptKept
  <2>2. CASE ~Exists(s)
    BY <1>0, <1>1, <1>3, <2>2 DEF ScriptInv, StatusSays, Exists, RunsOf
  <2> QED BY <1>5, <2>1, <2>2
<1>6. CASE job[j].sub = s /\ Exists(s)
  <2>1. LastRow(j)
    BY <1>1 DEF RetryInv, ActiveIsLast, Active
  <2>2. RunsOf(s) = {}
    BY <1>0, <1>1, <1>6, <2>1 DEF ScriptInv, MarkedOnce
  <2>3. RunsOf(s)' = {} /\ status'[s] \notin {"needs_you", "done"}
    BY <1>0, <1>1, <1>3, <2>2 DEF ScriptInv, StatusSays, RunsOf
  <2>4. ASSUME NEW v \in Worker
        PROVE  /\ s \notin sweep'[v] /\ ~Tidies(v, s)'
               /\ Marks(v, s)' => ~HasRun(v)' /\ (mark'[v].step = "read" => Media \subseteq left'[s])
    <3>1. s \notin sweep[v] /\ ~Tidies(v, s)
      BY <1>0, <1>6, <2>2 DEF ScriptInv, MediaThere, Decided
    <3>2. Marks(v, s) => ~HasRun(v) /\ (mark[v].step = "read" => Media \subseteq left[s])
      BY <1>0, <1>6, <2>2 DEF ScriptInv, OnlyRun, MediaThere
    <3>3. CASE v = w
      BY <1>1, <1>2, <1>4, <3>1, <3>3 DEF HasRun
    <3>4. CASE v # w
      <4>1. worker[v].pc \in {"running", "finishing"} => ScriptOf(v)' = ScriptOf(v)
        BY <1>2, <3>4, MarksScript DEF ScriptOf
      <4> QED BY <1>1, <1>2, <3>1, <3>2, <3>4, <4>1 DEF Marks, Tidies, HasRun
    <3> QED BY <3>3, <3>4
  <2> QED BY <2>3, <2>4, UnmarkedScript
<1> QED BY <1>5, <1>6

\* The run is the first of its script, and all its items are written with it.
LEMMA PersistKeepsScripts ==
    ASSUME Undisturbed, Sound, Quiet', RowsGoOn, NobodyAsks, NEW w \in Worker, NEW escalated \in SUBSET Part,
           Persist(w, escalated)
    PROVE  ScriptsInv'
<1> SUFFICES ASSUME NEW s \in Submission PROVE ScriptInv(s)'
  BY DEF ScriptsInv
<1> USE DEF Sound
<1>0. ScriptInv(s)
  BY DEF ScriptsInv
<1>1. PICK r : r = minted + 1
  OBVIOUS
<1>2. /\ worker[w].pc = "running" /\ mark[w].step = "read" /\ r \in Run
      /\ runSub' = [runSub EXCEPT ![r] = ScriptOf(w)]
      /\ item' = [i \in Item |-> IF i[1] = r /\ i[2] \in escalated THEN "pending" ELSE item[i]]
      /\ mark' = [mark EXCEPT ![w] = [step |-> "stored", run |-> r, esc |-> escalated # {}, todo |-> {}]]
      /\ UNCHANGED <<job, status, worker, runOf, left, sweep>>
  BY <1>1 DEF Persist, At, Undisturbed, jobVars
<1>3. runSub[r] = None /\ \A p \in Part : item[<<r, p>>] = "none"
  BY <1>1, <1>2, LifeAssumption DEF Quiet, NewRuns, LifeTypeOK, LifeAssumption, Run
<1>4. ScriptOf(w) \in Submission /\ status[ScriptOf(w)] # "none"
  BY <1>2, MarksScript
<1>5. /\ mark'[w].run = r /\ (mark'[w].esc <=> escalated # {}) /\ mark'[w].step = "stored"
      /\ \A v \in Worker : v # w => mark'[v] = mark[v]
  BY <1>2 DEF LifeTypeOK
<1>6. CASE s # ScriptOf(w)
  <2>1. \A x \in Run : runSub'[x] = s <=> runSub[x] = s
    BY <1>2, <1>3, <1>6, JobAssumption DEF LifeTypeOK, JobAssumption
  <2>2. \A i \in Item : i[1] \in Run /\ (runSub[i[1]] = s => i[1] # r)
    BY <1>3, JobAssumption DEF Item, JobAssumption
  <2>3. RunsKept(s)
    BY <1>2, <2>1, <2>2 DEF RunsKept, RunsOf, PendingItems
  <2>4. ThreadsKept(s)
    BY <1>2, <1>5, <1>6, ThreadsFrame DEF Marks, Tidies, ScriptOf
  <2>5. StatusKept(s) /\ MediaKept(s)
    BY <1>2, StatusFrame, MediaFrame
  <2>6. RowsKept(s)
    BY <1>0, <1>2, RowsFrame DEF Exists, NobodyAsks, Queues
  <2> QED BY <1>0, <2>3, <2>4, <2>5, <2>6, KeptScript DEF ScriptKept
<1>7. CASE s = ScriptOf(w) /\ ~Exists(s)
  BY <1>2, <1>4, <1>7, GoneScript DEF Exists, LifeTypeOK, JobTypeOK
<1>8. CASE s = ScriptOf(w) /\ Exists(s)
  <2>1. Marks(w, s) /\ ~HasRun(w)
    BY <1>2, <1>8 DEF Marks, HasRun
  <2>2. RunsOf(s) = {} /\ Media \subseteq left[s]
    BY <1>0, <1>2, <1>8, <2>1 DEF ScriptInv, OnlyRun, MediaThere
  <2>3. \A v \in Worker : Marks(v, s) => v = w
    BY <1>8, <2>1, MarksAlone
  <2>4. LastRow(worker[w].job) /\ job[worker[w].job].state = "running" /\ worker[w].job \in Job /\ job[worker[w].job].sub = s
    BY <1>8, <2>1, MarksAlone DEF ScriptOf
  <2>5. RunsOf(s)' = {r}
    BY <1>2, <1>8, <2>2 DEF RunsOf, LifeTypeOK
  <2>6. PendingItems(s)' \subseteq {i \in Item : i[1] = r /\ i[2] \in escalated}
    <3>1. \A i \in Item : i[1] \in Run /\ (i[1] = r => i = <<r, i[2]>> /\ i[2] \in Part)
      BY DEF Item
    <3>2. \A i \in Item : runSub'[i[1]] = s => i[1] = r
      BY <2>5, <3>1 DEF RunsOf
    <3>3. \A i \in Item : i[1] = r => item[i] = "none"
      BY <1>3, <3>1
    <3> QED BY <1>2, <3>2, <3>3 DEF PendingItems
  <2>7. \A v \in Worker : Marks(v, s)' <=> Marks(v, s)
    BY <1>2 DEF Marks, ScriptOf
  <2>8. StatusSays(s)'
    BY <1>0, <1>2, <1>4, <1>8, <2>2, <2>5 DEF ScriptInv, StatusSays
  <2>9. MarkedOnce(s)'
    <3>1. \A c \in Client : ~Queues(c, s)
      BY <2>4 DEF RetryInv, AskedOnce, Awaited
    <3>2. \A c \in Client : ~Queues(c, s)'
      BY <3>1 DEF NobodyAsks, Queues
    <3>3. \A j \in Job : job[j].sub = s /\ LastRow(j) => j = worker[w].job
      BY <2>4 DEF LastRow, Job
    <3>4. \A j \in Job : job'[j].sub = s /\ LastRow(j)' => job'[j].state \in {"running", "done"}
      BY <1>2, <2>4, <3>3 DEF LastRow
    <3> QED BY <2>1, <2>7, <3>2, <3>4 DEF MarkedOnce
  <2>10. OnlyRun(s)'
    <3> SUFFICES ASSUME NEW v \in Worker, Marks(v, s)'
                 PROVE  /\ RunsOf(s)' = IF HasRun(v)' THEN {mark'[v].run} ELSE {}
                        /\ HasRun(v)' /\ ~mark'[v].esc => PendingItems(s)' = {}
      BY DEF OnlyRun
    <3>1. v = w
      BY <2>3, <2>7
    <3> QED BY <1>5, <2>5, <2>6, <3>1 DEF HasRun
  <2>11. MediaThere(s)'
    <3>1. \A v \in Worker : s \notin sweep[v] /\ ~Tidies(v, s)
      BY <1>0, <1>8, <2>2 DEF ScriptInv, MediaThere, Decided
    <3>2. \A v \in Worker : s \notin sweep'[v] /\ ~Tidies(v, s)'
      BY <1>2, <1>5, <3>1 DEF Tidies, ScriptOf
    <3>3. \A v \in Worker : Marks(v, s)' => mark'[v].step = "stored"
      BY <1>5, <2>3, <2>7
    <3> QED BY <1>2, <2>2, <3>2, <3>3 DEF MediaThere
  <2> QED BY <2>8, <2>9, <2>10, <2>11 DEF ScriptInv
<1> QED BY <1>6, <1>7, <1>8

\* The outcome that is recorded is that of the script's only run, and the script points at it.
LEMMA RecordKeepsScripts ==
    ASSUME Sound, Quiet', RowsGoOn, NobodyAsks, NEW w \in Worker, Record(w)
    PROVE  ScriptsInv'
<1> SUFFICES ASSUME NEW s \in Submission PROVE ScriptInv(s)'
  BY DEF ScriptsInv
<1> USE DEF Sound
<1>0. ScriptInv(s)
  BY DEF ScriptsInv
<1>1. /\ worker[w].pc = "running" /\ mark[w].step = "cropped"
      /\ status' = StatusOfRow(worker[w].job, IF mark[w].esc THEN "needs_you" ELSE "done")
      /\ worker' = [worker EXCEPT ![w].pc = "finishing"]
      /\ runOf' = IF Exists(ScriptOf(w)) THEN [runOf EXCEPT ![ScriptOf(w)] = mark[w].run] ELSE runOf
      /\ IF mark[w].esc THEN Over(w) ELSE Goto(w, "tidy")
      /\ UNCHANGED <<job, runSub, item, left, sweep>>
  BY DEF Record, At, RunnerReturns
<1>2. /\ worker[w].job \in Job /\ job[worker[w].job].state \in {"running", "deleted"}
      /\ ScriptOf(w) \in Submission /\ status[ScriptOf(w)] # "none"
  BY <1>1, MarksScript
<1>3. PICK v \in {"needs_you", "done"} : v = IF mark[w].esc THEN "needs_you" ELSE "done"
  OBVIOUS
<1>4. status'[s] = IF ScriptOf(w) = s /\ job[worker[w].job].state # "deleted" /\ Exists(s) THEN v ELSE status[s]
  BY <1>1, <1>2, <1>3, StatusOfRowValue DEF LifeTypeOK, Status, ScriptOf
<1>5. /\ worker'[w].pc = "finishing"
      /\ \A x \in Worker : x # w => worker'[x] = worker[x] /\ mark'[x] = mark[x]
      /\ mark[w].esc => mark'[w].step = "off"
      /\ ~Marks(w, s)'
  BY <1>1 DEF Over, Goto, MarkOff, Marks, LifeTypeOK, JobTypeOK, Thread
<1>6. \A x \in Worker : ScriptOf(x)' = ScriptOf(x) \/ worker'[x].job # worker[x].job
  BY <1>1 DEF ScriptOf
<1>7. ScriptOf(w)' = ScriptOf(w)
  BY <1>1 DEF ScriptOf, LifeTypeOK, JobTypeOK, Thread
<1>8. CASE s # ScriptOf(w)
  <2>1. ThreadsKept(s)
    BY <1>1, <1>5, <1>7, <1>8, ThreadsFrame DEF Marks, Tidies
  <2>2. RunsKept(s)
    BY <1>1, <1>8 DEF RunsKept, RunsOf, PendingItems, LifeTypeOK
  <2>3. StatusKept(s) /\ MediaKept(s)
    BY <1>1, <1>4, <1>8, StatusFrame, MediaFrame
  <2>4. RowsKept(s)
    BY <1>0, <1>1, <1>4, <1>8, RowsFrame DEF Exists, NobodyAsks, Queues
  <2> QED BY <1>0, <2>1, <2>2, <2>3, <2>4, KeptScript DEF ScriptKept
<1>9. CASE s = ScriptOf(w) /\ ~Exists(s)
  <2>1. status'[s] = "deleted"
    BY <1>2, <1>4, <1>9 DEF Exists
  <2> QED BY <2>1, GoneScript
<1>10. CASE s = ScriptOf(w) /\ Exists(s)
  <2>1. Marks(w, s) /\ HasRun(w)
    BY <1>1, <1>10 DEF Marks, HasRun
  <2>2. job[worker[w].job].state = "running"
    BY <1>10, <2>1, MarksAlone
  <2>3. status'[s] = v
    BY <1>4, <1>10, <2>2
  <2>4. RunsOf(s) = {mark[w].run} /\ (~mark[w].esc => PendingItems(s) = {})
    BY <1>0, <1>10, <2>1 DEF ScriptInv, OnlyRun
  <2>5. RunsOf(s)' = RunsOf(s) /\ PendingItems(s)' = PendingItems(s)
    BY <1>1 DEF RunsOf, PendingItems
  <2>6. runOf'[s] = mark[w].run
    BY <1>1, <1>10 DEF LifeTypeOK
  <2>7. StatusSays(s)'
    BY <1>3, <2>3, <2>4, <2>5 DEF StatusSays
  <2>8. MarkedOnce(s)'
    <3>1. MarkedOnce(s)
      BY <1>0, <1>10, <2>4 DEF ScriptInv
    <3>2. \A c \in Client : ~Queues(c, s)'
      BY <3>1 DEF MarkedOnce, NobodyAsks, Queues
    <3>3. \A j \in Job : job'[j].sub = s /\ LastRow(j)' => job'[j].state \in {"running", "done"}
      BY <1>1, <3>1 DEF MarkedOnce, LastRow
    <3> QED BY <2>4, <2>5, <2>6, <3>2, <3>3 DEF MarkedOnce
  <2>9. \A x \in Worker : ~Marks(x, s)'
    <3>1. \A x \in Worker : x # w => ~Marks(x, s)
      BY <1>10, <2>1, MarksAlone
    <3>2. \A x \in Worker : x # w => (Marks(x, s)' <=> Marks(x, s))
      BY <1>1, <1>5 DEF Marks, ScriptOf
    <3> QED BY <1>5, <3>1, <3>2
  <2>10. OnlyRun(s)'
    BY <2>9 DEF OnlyRun
  <2>11. MediaThere(s)'
    <3>1. MediaThere(s)
      BY <1>0, <1>10 DEF ScriptInv
    <3>2. ASSUME NEW x \in Worker, s \in sweep'[x] \/ Tidies(x, s)'
          PROVE  Decided(s)'
      <4>1. Decided(s) => Decided(s)'
        BY <2>5 DEF Decided
      <4>2. CASE x = w /\ Tidies(x, s)'
        BY <1>5, <2>4, <2>5, <4>2 DEF Tidies, Decided
      <4>3. CASE s \in sweep'[x]
        BY <1>1, <3>1, <4>1, <4>3 DEF MediaThere
      <4>4. CASE x # w /\ Tidies(x, s)'
        <5>1. Tidies(x, s)
          BY <1>1, <1>5, <4>4 DEF Tidies, ScriptOf
        <5> QED BY <3>1, <4>1, <5>1 DEF MediaThere
      <4> QED BY <3>2, <4>2, <4>3, <4>4
    <3> QED BY <1>1, <2>5, <2>9, <3>1, <3>2 DEF MediaThere
  <2> QED BY <2>7, <2>8, <2>10, <2>11 DEF ScriptInv
<1> QED BY <1>8, <1>9, <1>10

\* A job ends with its outcome recorded, or gives up before it has made a run.
LEMMA SettleKeepsScripts ==
    ASSUME Undisturbed, Sound, LifeTypeOK', Quiet', RowsGoOn, NobodyAsks, NEW w \in Worker, Settle(w)
    PROVE  ScriptsInv'
<1> SUFFICES ASSUME NEW s \in Submission PROVE ScriptInv(s)'
  BY DEF ScriptsInv
<1> USE DEF Sound
<1>0. ScriptInv(s)
  BY DEF ScriptsInv
<1>1. /\ UNCHANGED <<runSub, item, runOf, left, sweep>>
      /\ worker' = [worker EXCEPT ![w] = Idle] /\ mark' = [mark EXCEPT ![w] = MarkOff]
  BY DEF Settle, Over, Finish, Fail, FailJob, RetryLater, WriteFails, SettleLost
<1>2. /\ ~Marks(w, s)' /\ ~Tidies(w, s)'
      /\ \A v \in Worker : v # w => worker'[v] = worker[v] /\ mark'[v] = mark[v]
  BY <1>1 DEF Marks, Tidies, Idle, LifeTypeOK, JobTypeOK
<1>3. RunsKept(s) /\ MediaKept(s)
  BY <1>1, RunsFrame, MediaFrame
<1>4. CASE Finish(w)
  <2>1. worker[w].pc = "finishing" /\ status' = status /\ job' = RowState(worker[w].job, "done")
    BY <1>4 DEF Finish
  <2>2. worker[w].job \in Job
    BY <2>1, MarksScript
  <2>3. \A j \in Job : job'[j].state \in {job[j].state, "done"}
    BY <2>1, <2>2 DEF RowState, LifeTypeOK, JobTypeOK, Row
  <2>4. ThreadsKept(s) /\ StatusKept(s)
    BY <1>2, <2>1, ThreadsFrame, StatusFrame DEF RowsGoOn, Marks
  <2>5. RowsKept(s)
    BY <1>0, <2>1, <2>3, RowsFrame DEF Exists, NobodyAsks, Queues
  <2> QED BY <1>0, <1>3, <2>4, <2>5, KeptScript DEF ScriptKept
<1>5. CASE mark[w].step \in {"begin", "read"} /\ (Fail(w) \/ RetryLater(w))
  <2>1. worker[w].pc = "running" /\ worker[w].job \in Job
    BY <1>5, MarksScript DEF Fail, RetryLater
  <2>2. status'[s] = status[s] \/ (Exists(s) /\ ScriptOf(w) = s /\ status'[s] \in {"queued", "failed"})
    BY <1>5, <2>1, StatusOfRowValue DEF Fail, FailJob, RetryLater, LifeTypeOK, Status, ScriptOf
  <2>3. \A j \in Job : j # worker[w].job => job'[j] = job[j]
    <3>1. \/ job' = job
          \/ job' = RowState(worker[w].job, "failed")
          \/ job' = [job EXCEPT ![worker[w].job].state = "queued", ![worker[w].job].later = TRUE]
      BY <1>5 DEF Fail, FailJob, RetryLater
    <3> QED BY <3>1 DEF RowState, LifeTypeOK, JobTypeOK
  <2>4. CASE s # ScriptOf(w)
    <3>1. ThreadsKept(s) /\ StatusKept(s)
      BY <1>2, <2>2, <2>4, ThreadsFrame, StatusFrame DEF RowsGoOn, Marks
    <3>2. RowsKept(s)
      BY <1>0, <2>2, <2>3, <2>4, RowsFrame DEF Exists, NobodyAsks, Queues, ScriptOf
    <3> QED BY <1>0, <1>3, <3>1, <3>2, KeptScript DEF ScriptKept
  <2>5. CASE s = ScriptOf(w) /\ ~Exists(s)
    BY <2>1, <2>2, <2>5, MarksScript, GoneScript DEF Exists, LifeTypeOK, JobTypeOK, Status
  <2>6. CASE s = ScriptOf(w) /\ Exists(s)
    <3>1. Marks(w, s) /\ ~HasRun(w)
      BY <1>5, <2>1, <2>6 DEF Marks, HasRun
    <3>2. RunsOf(s) = {}
      BY <1>0, <2>6, <3>1 DEF ScriptInv, OnlyRun
    <3>3. RunsOf(s)' = {} /\ status'[s] \notin {"needs_you", "done"}
      BY <1>0, <1>1, <2>2, <3>2 DEF ScriptInv, StatusSays, RunsOf
    <3>4. ASSUME NEW v \in Worker
          PROVE  s \notin sweep'[v] /\ ~Tidies(v, s)' /\ ~Marks(v, s)'
      <4>1. s \notin sweep[v] /\ ~Tidies(v, s)
        BY <1>0, <2>6, <3>2 DEF ScriptInv, MediaThere, Decided
      <4>2. CASE v = w
        BY <1>1, <1>2, <4>1, <4>2
      <4>3. CASE v # w
        <5>1. ~Marks(v, s)
          BY <2>6, <3>1, <4>3, MarksAlone
        <5>2. worker[v].pc \in {"running", "finishing"} => ScriptOf(v)' = ScriptOf(v)
          BY <1>2, <4>3, MarksScript DEF ScriptOf, RowsGoOn
        <5> QED BY <1>1, <1>2, <4>1, <4>3, <5>1, <5>2 DEF Marks, Tidies
      <4> QED BY <4>2, <4>3
    <3> QED BY <3>3, <3>4, UnmarkedScript
  <2> QED BY <2>4, <2>5, <2>6
<1> QED BY <1>4, <1>5, NothingInterrupts DEF Settle

-----------------------------------------------------------------------------

\* Every step keeps the invariant of every script.
LEMMA ScriptsStep ==
    ASSUME Undisturbed, Sound, LifeTypeOK', Quiet', [LifeNext]_lifeVars
    PROVE  ScriptsInv'
<1>1. CASE \E c \in Client : EnqueueMark(c)
  <2>1. PICK c \in Client : EnqueueMark(c)
    BY <1>1
  <2>2. NobodyAsks
    BY <2>1 DEF NobodyAsks, EnqueueMark, NoRequest, Sound, LifeTypeOK
  <2> QED BY <2>1, <2>2, EnqueueKeepsScripts
<1>2. CASE ~\E c \in Client : EnqueueMark(c)
  <2>1. RowsGoOn
    BY <1>2, LifeMovesRows DEF Sound, Undisturbed, RetryInv
  <2>2. CASE \E c \in Client, s \in Submission : CreateSubmission(c, s) \/ Retry(c, s)
    BY <2>1, <2>2, UploadKeepsScripts, RetryKeepsScripts
  <2>3. CASE NobodyAsks
    <3>1. ASSUME NEW c \in Client,
                 \/ \E s \in Submission : RemoveCheck(c, s)
                 \/ \E i \in Item : Resolve(c, i) \/ CliCheck(c, i)
                 \/ RequestStep(c) \/ RequestDies(c)
          PROVE  ScriptsInv'
      BY <1>2, <2>1, <2>3, <3>1, WaitingKeepsScripts, DecisionsKeepScripts, RemoveKeepsScripts DEF RequestStep
    <3>2. ASSUME NEW w \in Worker, MarkStep(w)
          PROVE  ScriptsInv'
      BY <2>1, <2>3, <3>2, ReadingKeepsScripts, RecordKeepsScripts, TidyingKeepsScripts, SettleKeepsScripts,
         PersistKeepsScripts, NothingInterrupts DEF MarkStep, Sound
    <3>3. ASSUME NEW w \in Worker, SweepStep(w) \/ StartWorker(w) \/ CrashWorker(w)
          PROVE  ScriptsInv'
      BY <2>1, <2>3, <3>3, TidyingKeepsScripts, DecisionsKeepScripts, NothingInterrupts
      DEF SweepStep, CrashWorker, Sound
    <3>4. ASSUME NEW w \in Worker, NEW j \in Job, ClaimMark(w, j)
          PROVE  ScriptsInv'
      BY <2>1, <2>3, <3>4, ClaimKeepsScripts
    <3>5. (\E j \in Job : Elapse(j)) \/ UNCHANGED lifeVars => ScriptsInv'
      BY <2>1, <2>3, WaitingKeepsScripts
    <3> QED BY <2>2, <3>1, <3>2, <3>3, <3>4, <3>5 DEF LifeNext, NewRequest
  <2> QED BY <2>2, <2>3, WhoAsks DEF Sound
<1> QED BY <1>1, <1>2

\* Undisturbed, the invariant of every script holds.
LEMMA ScriptsInvariant ==
    ASSUME Undisturbed
    PROVE  LifeSpec => []Sound
<1>1. LifeInit => Quiet /\ ScriptsInv
  <2> SUFFICES ASSUME LifeInit PROVE Quiet /\ ScriptsInv
    OBVIOUS
  <2>1. Quiet
    BY JobAssumption
    DEF JobAssumption, LifeInit, JobInit, Quiet, Uninterrupted, JobSteps, NewRuns, FreeRow, Down, MarkOff, Item, Exists
  <2>2. \A s \in Submission : status[s] = "none" /\ RunsOf(s) = {} /\ \A w \in Worker : sweep[w] = {}
    BY JobAssumption DEF JobAssumption, LifeInit, JobInit, RunsOf
  <2> QED BY <2>1, <2>2 DEF ScriptsInv, ScriptInv, StatusSays, Exists
<1>2. Sound /\ LifeTypeOK' /\ [LifeNext]_lifeVars => Quiet' /\ ScriptsInv'
  BY QuietStep, ScriptsStep DEF Sound, RetryInv
<1>3. LifeSpec => []RetryInv
  BY RetryInvariant DEF Undisturbed
<1>4. LifeSpec => []OneHolder
  BY MarkingUsesQueue, JobsAreExclusive, PTL DEF Undisturbed
<1>5. Sound <=> LifeTypeOK /\ RequestOK /\ HandOK /\ OneHolder /\ RetryInv /\ Quiet /\ ScriptsInv
  BY DEF Sound
<1> QED BY <1>1, <1>2, <1>3, <1>4, <1>5, LifeTypeCorrect, PTL DEF LifeSpec

\* While nothing interrupts the worker, a script is marked by one job at a time; one that is
\* done has nothing left to decide; and one that is marked points at a run of its own.
THEOREM OutcomesHold ==
    ASSUME Undisturbed
    PROVE  LifeSpec => []OutcomeHolds
<1>1. Sound => DoneMeansDecided
  BY DEF Sound, ScriptsInv, ScriptInv, StatusSays, DoneMeansDecided
<1>2. Sound => MarkedHasRun
  <2> SUFFICES ASSUME Sound, NEW s \in Submission, status[s] \in {"needs_you", "done"},
                      \A j \in Job : job[j].sub = s => ~Active(j)
               PROVE  runOf[s] \in Run /\ runSub[runOf[s]] = s
    BY DEF MarkedHasRun
  <2>1. Exists(s) /\ ScriptInv(s)
    BY DEF Exists, Sound, ScriptsInv
  <2>2. runOf[s] \in RunsOf(s) \/ \E w \in Worker : Marks(w, s)
    BY <2>1 DEF ScriptInv, StatusSays, MarkedOnce
  <2>3. \A w \in Worker : ~Marks(w, s)
    <3> SUFFICES ASSUME NEW w \in Worker, Marks(w, s) PROVE FALSE
      OBVIOUS
    <3>1. worker[w].job \in Job /\ job[worker[w].job].state = "running"
      BY <2>1, MarksAlone
    <3> QED BY <3>1 DEF Marks, ScriptOf, Active
  <2> QED BY <2>2, <2>3 DEF RunsOf
<1>3. LifeSpec => []OneActiveJob
  BY ScriptsHaveOneJob DEF Undisturbed
<1>4. OutcomeHolds <=> OneActiveJob /\ DoneMeansDecided /\ MarkedHasRun
  BY DEF OutcomeHolds
<1> QED BY <1>1, <1>2, <1>3, <1>4, ScriptsInvariant, PTL

\* ... and nothing that was uploaded of a script is deleted while an item of it is pending.
THEOREM PendingMediaStay ==
    ASSUME Undisturbed
    PROVE  LifeSpec => []PendingKeepsMedia
<1>1. Sound => PendingKeepsMedia
  BY DEF Sound, ScriptsInv, ScriptInv, MediaThere, PendingKeepsMedia
<1> QED BY <1>1, ScriptsInvariant, PTL
=============================================================================
