--------------------------- MODULE JobStoreProofs ---------------------------
(***************************************************************************)
(* Theorems about JobStore, for any number of rows, workers and restarts.  *)
(* Typing, KeyUnique and the bound on attempts hold whatever the workers   *)
(* do; the others assume ~Overlap, the deployment with one worker process  *)
(* at a time.                                                              *)
(***************************************************************************)
EXTENDS JobStore, FiniteSets, FiniteSetTheorems, TLAPS

\* What a thread holds follows from what it is doing.
HandOK ==
    \A w \in Worker :
        /\ worker[w].pc \in {"running", "finishing"} => worker[w].job \in Job
        /\ worker[w].pc \in {"down", "idle"} => worker[w].job = None

\* NULL is not a row id.
LEMMA NoneIsNoJob == None \notin Job
BY JobAssumption DEF JobAssumption, Job

\* A row as enqueue() and enqueue_unique() insert it is a row of the table.
LEMMA NewRowType ==
    ASSUME NEW s \in Submission \cup {None}, NEW k \in Key \cup {None}
    PROVE  NewRow(s, k) \in Row
BY DEF NewRow, FreeRow, Row

\* An UPDATE of the submission of a row keeps the statuses typed.
LEMMA StatusOfRowType ==
    ASSUME JobTypeOK, NEW j, NEW v \in Status
    PROVE  StatusOfRow(j, v) \in [Submission -> Status]
BY DEF JobTypeOK, StatusOfRow

\* An UPDATE of the submission of a row gives each submission the new status or its old one.
LEMMA StatusOfRowValue ==
    ASSUME JobTypeOK, NEW j \in Job, NEW v \in Status, NEW s \in Submission
    PROVE  StatusOfRow(j, v)[s] =
             IF job[j].sub = s /\ job[j].state # "deleted" /\ Exists(s) THEN v ELSE status[s]
<1>1. CASE job[j].state # "deleted" /\ job[j].sub # None
  BY <1>1 DEF StatusOfRow
<1>2. CASE ~(job[j].state # "deleted" /\ job[j].sub # None)
  BY <1>2, JobAssumption DEF StatusOfRow, JobAssumption
<1> QED BY <1>1, <1>2

\* An UPDATE of the state of a row keeps the table typed.
LEMMA RowStateType ==
    ASSUME JobTypeOK, NEW j \in Job, NEW st \in {"done", "failed"}
    PROVE  RowState(j, st) \in [Job -> Row]
BY DEF JobTypeOK, RowState, Row

\* Every step keeps the types, and what a thread holds.
LEMMA TypeStep ==
    ASSUME JobTypeOK, HandOK, [JobNext]_jobVars
    PROVE  JobTypeOK' /\ HandOK'
<1> USE JobAssumption, NoneIsNoJob DEF JobTypeOK, HandOK
<1>1. ASSUME NEW j \in Job, NEW s \in Submission, InsertJob(j, s)
      PROVE  JobTypeOK' /\ HandOK'
  BY <1>1, NewRowType DEF InsertJob
<1>2. ASSUME NEW j \in Job, StampQueued(j)
      PROVE  JobTypeOK' /\ HandOK'
  BY <1>2, StatusOfRowType DEF StampQueued, Status
<1>3. ASSUME NEW j \in Job, CallerDies(j)
      PROVE  JobTypeOK' /\ HandOK'
  BY <1>3 DEF CallerDies
<1>4. ASSUME NEW j \in Job, BackoffOver(j)
      PROVE  JobTypeOK' /\ HandOK'
  BY <1>4 DEF BackoffOver, Row
<1>5. ASSUME NEW j \in Job, NEW k \in Key \cup {None}, EnqueueUnique(j, k)
      PROVE  JobTypeOK' /\ HandOK'
  BY <1>5, NewRowType DEF EnqueueUnique
<1>6. ASSUME NEW w \in Worker, Start(w)
      PROVE  JobTypeOK' /\ HandOK'
  <2>1. job' \in [Job -> Row]
    BY <1>6 DEF Start, Row, Interrupted
  <2>2. status' \in [Submission -> Status]
    BY <1>6 DEF Start, Status
  <2>3. worker' \in [Worker -> Thread] /\ HandOK'
    BY <1>6 DEF Start, Idle, Thread
  <2>4. starts' \in 0 .. MaxStarts
    BY <1>6 DEF Start, JobAssumption
  <2> QED BY <1>6, <2>1, <2>2, <2>3, <2>4 DEF Start
<1>7. ASSUME NEW w \in Worker, Crash(w)
      PROVE  JobTypeOK' /\ HandOK'
  BY <1>7 DEF Crash, Down, Thread
<1>8. ASSUME NEW w \in Worker, NEW v \in {"needs_you", "done"}, RunnerReturns(w, v)
      PROVE  JobTypeOK' /\ HandOK'
  <2>1. status' \in [Submission -> Status]
    BY <1>8, StatusOfRowType DEF RunnerReturns, Status
  <2> QED BY <1>8, <2>1 DEF RunnerReturns, Thread
<1>9. ASSUME NEW w \in Worker, RetryLater(w)
      PROVE  JobTypeOK' /\ HandOK'
  <2>1. worker[w].job \in Job
    BY <1>9 DEF RetryLater
  <2>2. status' \in [Submission -> Status]
    BY <1>9, StatusOfRowType DEF RetryLater, Status
  <2>3. job' \in [Job -> Row]
    BY <1>9, <2>1 DEF RetryLater, Row
  <2> QED BY <1>9, <2>2, <2>3 DEF RetryLater, Idle, Thread
<1>10. ASSUME NEW w \in Worker, worker[w].pc \in {"running", "finishing"}, FailJob(w),
              faults' \in 0 .. MaxFaults
       PROVE  JobTypeOK' /\ HandOK'
  <2>1. status' \in [Submission -> Status]
    BY <1>10, StatusOfRowType DEF FailJob, Status
  <2>2. job' \in [Job -> Row]
    BY <1>10, RowStateType DEF FailJob
  <2> QED BY <1>10, <2>1, <2>2 DEF FailJob, Idle, Thread
<1>11. ASSUME NEW w \in Worker, Fail(w)
       PROVE  JobTypeOK' /\ HandOK'
  BY <1>10, <1>11 DEF Fail
<1>12. ASSUME NEW w \in Worker, Finish(w)
       PROVE  JobTypeOK' /\ HandOK'
  <2>1. job' \in [Job -> Row]
    BY <1>12, RowStateType DEF Finish
  <2> QED BY <1>12, <2>1 DEF Finish, Idle, Thread
<1>13. ASSUME NEW w \in Worker, WriteFails(w)
       PROVE  JobTypeOK' /\ HandOK'
  <2>1. faults' \in 0 .. MaxFaults
    BY <1>13 DEF WriteFails, JobAssumption
  <2> QED BY <1>10, <1>13, <2>1 DEF WriteFails
<1>14. ASSUME NEW w \in Worker, SettleLost(w)
       PROVE  JobTypeOK' /\ HandOK'
  <2>1. faults' \in 0 .. MaxFaults
    BY <1>14 DEF SettleLost, JobAssumption
  <2> QED BY <1>14, <2>1 DEF SettleLost, Idle, Thread
<1>15. ASSUME NEW w \in Worker, NEW j \in Job, Claim(w, j)
       PROVE  JobTypeOK' /\ HandOK'
  <2>1. status' \in [Submission -> Status]
    BY <1>15, StatusOfRowType DEF Claim, Status
  <2>2. job' \in [Job -> Row]
    BY <1>15 DEF Claim, Row
  <2>3. worker' \in [Worker -> Thread] /\ HandOK'
    BY <1>15 DEF Claim, Thread, Row
  <2> QED BY <1>15, <2>1, <2>2, <2>3 DEF Claim
<1>16. ASSUME NEW s \in Submission, Forget(s)
       PROVE  JobTypeOK' /\ HandOK'
  BY <1>16 DEF Forget, Row, Status
<1>17. ASSUME NEW s \in Submission, Upload(s)
       PROVE  JobTypeOK' /\ HandOK'
  BY <1>17 DEF Upload, Status
<1>18. ASSUME NEW s \in Submission, NEW v \in {"needs_you", "done"}, OthersWrite(s, v)
       PROVE  JobTypeOK' /\ HandOK'
  BY <1>18 DEF OthersWrite, Status
<1>19. CASE UNCHANGED jobVars
  BY <1>19 DEF jobVars
<1> QED
  BY <1>1, <1>2, <1>3, <1>4, <1>5, <1>6, <1>7, <1>8, <1>9, <1>11, <1>12, <1>13, <1>14, <1>15,
     <1>16, <1>17, <1>18, <1>19 DEF JobNext, RunnerStep

\* The empty tables have the right types, and no thread holds a row.
LEMMA TypeInit == JobInit => JobTypeOK /\ HandOK
BY JobAssumption DEF JobAssumption, JobInit, JobTypeOK, HandOK, FreeRow, Row, Down, Thread, Status

\* The jobs table, the statuses and the threads keep their types.
THEOREM JobTypeCorrect == JobSpec => [](JobTypeOK /\ HandOK)
BY TypeInit, TypeStep, PTL DEF JobSpec

-----------------------------------------------------------------------------
(* Exclusion *)

\* A row changes hands only through the queue.
LEMMA OneHolderStep ==
    ASSUME ~Overlap, JobTypeOK, HandOK, OneHolder, [JobNext]_jobVars
    PROVE  OneHolder'
<1> USE NoneIsNoJob DEF JobTypeOK, HandOK, OneHolder, Thread, Row
<1>1. ASSUME NEW j \in Job, NEW s \in Submission, InsertJob(j, s)
      PROVE  OneHolder'
  BY <1>1 DEF InsertJob, NextId, NewRow, FreeRow
<1>2. ASSUME NEW j \in Job, StampQueued(j)
      PROVE  OneHolder'
  BY <1>2 DEF StampQueued
<1>3. ASSUME NEW j \in Job, CallerDies(j)
      PROVE  OneHolder'
  BY <1>3 DEF CallerDies
<1>4. ASSUME NEW j \in Job, BackoffOver(j)
      PROVE  OneHolder'
  BY <1>4 DEF BackoffOver
<1>5. ASSUME NEW j \in Job, NEW k \in Key \cup {None}, EnqueueUnique(j, k)
      PROVE  OneHolder'
  BY <1>5 DEF EnqueueUnique, NextId, NewRow, FreeRow
<1>6. ASSUME NEW w \in Worker, Start(w)
      PROVE  OneHolder'
  BY <1>6 DEF Start, Idle
<1>7. ASSUME NEW w \in Worker, Crash(w)
      PROVE  OneHolder'
  BY <1>7 DEF Crash, Down
<1>8. ASSUME NEW w \in Worker, NEW v \in {"needs_you", "done"}, RunnerReturns(w, v)
      PROVE  OneHolder'
  BY <1>8 DEF RunnerReturns
<1>9. ASSUME NEW w \in Worker, RetryLater(w)
      PROVE  OneHolder'
  BY <1>9 DEF RetryLater, Idle
<1>10. ASSUME NEW w \in Worker, worker[w].pc \in {"running", "finishing"}, FailJob(w)
       PROVE  OneHolder'
  BY <1>10 DEF FailJob, RowState, Idle
<1>11. ASSUME NEW w \in Worker, Fail(w)
      PROVE  OneHolder'
  BY <1>10, <1>11 DEF Fail
<1>12. ASSUME NEW w \in Worker, Finish(w)
      PROVE  OneHolder'
  BY <1>12 DEF Finish, RowState, Idle
<1>13. ASSUME NEW w \in Worker, WriteFails(w)
      PROVE  OneHolder'
  BY <1>10, <1>13 DEF WriteFails
<1>14. ASSUME NEW w \in Worker, SettleLost(w)
      PROVE  OneHolder'
  BY <1>14 DEF SettleLost, Idle
<1>15. ASSUME NEW w \in Worker, NEW j \in Job, Claim(w, j)
      PROVE  OneHolder'
  BY <1>15 DEF Claim, Oldest, Ready
<1>16. ASSUME NEW s \in Submission, Forget(s)
      PROVE  OneHolder'
  BY <1>16 DEF Forget
<1>17. ASSUME NEW s \in Submission, Upload(s)
      PROVE  OneHolder'
  BY <1>17 DEF Upload
<1>18. ASSUME NEW s \in Submission, NEW v \in {"needs_you", "done"}, OthersWrite(s, v)
      PROVE  OneHolder'
  BY <1>18 DEF OthersWrite
<1>19. CASE UNCHANGED jobVars
  BY <1>19 DEF jobVars
<1> QED
  BY <1>1, <1>2, <1>3, <1>4, <1>5, <1>6, <1>7, <1>8, <1>9, <1>11, <1>12, <1>13, <1>14, <1>15,
     <1>16, <1>17, <1>18, <1>19 DEF JobNext, RunnerStep

\* While workers do not overlap, no row is ever in two hands, and a row in a hand is running
\* unless it was removed.
THEOREM JobsAreExclusive ==
    ASSUME ~Overlap
    PROVE  JobSpec => []OneHolder
<1>1. JobInit => OneHolder
  BY DEF JobInit, OneHolder, Down
<1>2. JobTypeOK /\ HandOK /\ OneHolder /\ [JobNext]_jobVars => OneHolder'
  BY OneHolderStep
<1> QED BY <1>1, <1>2, JobTypeCorrect, PTL DEF JobSpec

\* A row becomes active only by an INSERT or an UPDATE that the unique index has seen.
LEMMA KeyUniqueStep ==
    ASSUME JobTypeOK, HandOK, KeyUnique, [JobNext]_jobVars
    PROVE  KeyUnique'
<1> USE NoneIsNoJob, JobAssumption DEF JobAssumption, JobTypeOK, HandOK, KeyUnique, Active, Row
<1>1. ASSUME NEW j \in Job, NEW s \in Submission, InsertJob(j, s)
      PROVE  KeyUnique'
  BY <1>1 DEF InsertJob, NextId, NewRow, FreeRow
<1>2. ASSUME NEW j \in Job, StampQueued(j)
      PROVE  KeyUnique'
  BY <1>2 DEF StampQueued
<1>3. ASSUME NEW j \in Job, CallerDies(j)
      PROVE  KeyUnique'
  BY <1>3 DEF CallerDies
<1>4. ASSUME NEW j \in Job, BackoffOver(j)
      PROVE  KeyUnique'
  BY <1>4 DEF BackoffOver
<1>5. ASSUME NEW j \in Job, NEW k \in Key \cup {None}, EnqueueUnique(j, k)
      PROVE  KeyUnique'
  BY <1>5 DEF EnqueueUnique, NextId, NewRow, FreeRow, KeyTaken
<1>6. ASSUME NEW w \in Worker, Start(w)
      PROVE  KeyUnique'
  BY <1>6 DEF Start, Interrupted
<1>7. ASSUME NEW w \in Worker, Crash(w)
      PROVE  KeyUnique'
  BY <1>7 DEF Crash
<1>8. ASSUME NEW w \in Worker, NEW v \in {"needs_you", "done"}, RunnerReturns(w, v)
      PROVE  KeyUnique'
  BY <1>8 DEF RunnerReturns
<1>9. ASSUME NEW w \in Worker, RetryLater(w)
      PROVE  KeyUnique'
  BY <1>9 DEF RetryLater, KeyTaken
<1>10. ASSUME NEW w \in Worker, worker[w].pc \in {"running", "finishing"}, FailJob(w)
       PROVE  KeyUnique'
  BY <1>10 DEF FailJob, RowState
<1>11. ASSUME NEW w \in Worker, Fail(w)
      PROVE  KeyUnique'
  BY <1>10, <1>11 DEF Fail
<1>12. ASSUME NEW w \in Worker, Finish(w)
      PROVE  KeyUnique'
  BY <1>12 DEF Finish, RowState
<1>13. ASSUME NEW w \in Worker, WriteFails(w)
      PROVE  KeyUnique'
  BY <1>10, <1>13 DEF WriteFails
<1>14. ASSUME NEW w \in Worker, SettleLost(w)
      PROVE  KeyUnique'
  BY <1>14 DEF SettleLost
<1>15. ASSUME NEW w \in Worker, NEW j \in Job, Claim(w, j)
      PROVE  KeyUnique'
  BY <1>15 DEF Claim, Oldest, Ready
<1>16. ASSUME NEW s \in Submission, Forget(s)
      PROVE  KeyUnique'
  BY <1>16 DEF Forget
<1>17. ASSUME NEW s \in Submission, Upload(s)
      PROVE  KeyUnique'
  BY <1>17 DEF Upload
<1>18. ASSUME NEW s \in Submission, NEW v \in {"needs_you", "done"}, OthersWrite(s, v)
      PROVE  KeyUnique'
  BY <1>18 DEF OthersWrite
<1>19. CASE UNCHANGED jobVars
  BY <1>19 DEF jobVars
<1> QED
  BY <1>1, <1>2, <1>3, <1>4, <1>5, <1>6, <1>7, <1>8, <1>9, <1>11, <1>12, <1>13, <1>14, <1>15,
     <1>16, <1>17, <1>18, <1>19 DEF JobNext, RunnerStep

\* At most one active row per dedupe key, with any number of workers, overlapping or not.
THEOREM KeysAreUnique == JobSpec => []KeyUnique
<1>1. JobInit => KeyUnique
  BY DEF JobInit, KeyUnique, Active, FreeRow
<1>2. JobTypeOK /\ HandOK /\ KeyUnique /\ [JobNext]_jobVars => KeyUnique'
  BY KeyUniqueStep
<1> QED BY <1>1, <1>2, JobTypeCorrect, PTL DEF JobSpec

\* The hand that settles or returns a row is the only one, so it finds the row running.
LEMMA SettledStep ==
    ASSUME ~Overlap, JobTypeOK, HandOK, OneHolder, [JobNext]_jobVars
    PROVE  \A i \in Job : Settled(i) => job'[i].state \in {job[i].state, "deleted"}
<1> USE NoneIsNoJob DEF JobTypeOK, HandOK, OneHolder, Settled, Row
<1>1. ASSUME NEW j \in Job, NEW s \in Submission, InsertJob(j, s)
      PROVE  \A i \in Job : Settled(i) => job'[i].state \in {job[i].state, "deleted"}
  BY <1>1 DEF InsertJob, NextId
<1>2. ASSUME NEW j \in Job, StampQueued(j)
      PROVE  \A i \in Job : Settled(i) => job'[i].state \in {job[i].state, "deleted"}
  BY <1>2 DEF StampQueued
<1>3. ASSUME NEW j \in Job, CallerDies(j)
      PROVE  \A i \in Job : Settled(i) => job'[i].state \in {job[i].state, "deleted"}
  BY <1>3 DEF CallerDies
<1>4. ASSUME NEW j \in Job, BackoffOver(j)
      PROVE  \A i \in Job : Settled(i) => job'[i].state \in {job[i].state, "deleted"}
  BY <1>4 DEF BackoffOver
<1>5. ASSUME NEW j \in Job, NEW k \in Key \cup {None}, EnqueueUnique(j, k)
      PROVE  \A i \in Job : Settled(i) => job'[i].state \in {job[i].state, "deleted"}
  BY <1>5 DEF EnqueueUnique, NextId
<1>6. ASSUME NEW w \in Worker, Start(w)
      PROVE  \A i \in Job : Settled(i) => job'[i].state \in {job[i].state, "deleted"}
  BY <1>6 DEF Start, Interrupted
<1>7. ASSUME NEW w \in Worker, Crash(w)
      PROVE  \A i \in Job : Settled(i) => job'[i].state \in {job[i].state, "deleted"}
  BY <1>7 DEF Crash
<1>8. ASSUME NEW w \in Worker, NEW v \in {"needs_you", "done"}, RunnerReturns(w, v)
      PROVE  \A i \in Job : Settled(i) => job'[i].state \in {job[i].state, "deleted"}
  BY <1>8 DEF RunnerReturns
<1>9. ASSUME NEW w \in Worker, RetryLater(w)
      PROVE  \A i \in Job : Settled(i) => job'[i].state \in {job[i].state, "deleted"}
  BY <1>9 DEF RetryLater
<1>10. ASSUME NEW w \in Worker, worker[w].pc \in {"running", "finishing"}, FailJob(w)
       PROVE  \A i \in Job : Settled(i) => job'[i].state \in {job[i].state, "deleted"}
  BY <1>10 DEF FailJob, RowState
<1>11. ASSUME NEW w \in Worker, Fail(w)
      PROVE  \A i \in Job : Settled(i) => job'[i].state \in {job[i].state, "deleted"}
  BY <1>10, <1>11 DEF Fail
<1>12. ASSUME NEW w \in Worker, Finish(w)
      PROVE  \A i \in Job : Settled(i) => job'[i].state \in {job[i].state, "deleted"}
  BY <1>12 DEF Finish, RowState
<1>13. ASSUME NEW w \in Worker, WriteFails(w)
      PROVE  \A i \in Job : Settled(i) => job'[i].state \in {job[i].state, "deleted"}
  BY <1>10, <1>13 DEF WriteFails
<1>14. ASSUME NEW w \in Worker, SettleLost(w)
      PROVE  \A i \in Job : Settled(i) => job'[i].state \in {job[i].state, "deleted"}
  BY <1>14 DEF SettleLost
<1>15. ASSUME NEW w \in Worker, NEW j \in Job, Claim(w, j)
      PROVE  \A i \in Job : Settled(i) => job'[i].state \in {job[i].state, "deleted"}
  BY <1>15 DEF Claim, Oldest, Ready
<1>16. ASSUME NEW s \in Submission, Forget(s)
      PROVE  \A i \in Job : Settled(i) => job'[i].state \in {job[i].state, "deleted"}
  BY <1>16 DEF Forget
<1>17. ASSUME NEW s \in Submission, Upload(s)
      PROVE  \A i \in Job : Settled(i) => job'[i].state \in {job[i].state, "deleted"}
  BY <1>17 DEF Upload
<1>18. ASSUME NEW s \in Submission, NEW v \in {"needs_you", "done"}, OthersWrite(s, v)
      PROVE  \A i \in Job : Settled(i) => job'[i].state \in {job[i].state, "deleted"}
  BY <1>18 DEF OthersWrite
<1>19. CASE UNCHANGED jobVars
  BY <1>19 DEF jobVars
<1> QED
  BY <1>1, <1>2, <1>3, <1>4, <1>5, <1>6, <1>7, <1>8, <1>9, <1>11, <1>12, <1>13, <1>14, <1>15,
     <1>16, <1>17, <1>18, <1>19 DEF JobNext, RunnerStep

\* A settled row stays settled until it is deleted.
THEOREM SettledRowsStay ==
    ASSUME ~Overlap
    PROVE  JobSpec => SettledStays
<1>1. JobTypeOK /\ HandOK /\ OneHolder /\ [JobNext]_jobVars =>
        [\A j \in Job : Settled(j) => job'[j].state \in {job[j].state, "deleted"}]_jobVars
  BY SettledStep
<1> QED BY <1>1, JobTypeCorrect, JobsAreExclusive, PTL DEF JobSpec, SettledStays

-----------------------------------------------------------------------------
(* Attempts *)

\* A runner compares its own count with MaxAttempts, not the row's.  These are the counts below
\* the limit with which a row may still be given back to the queue: each of them once.
Held(j) ==
    {n \in 1 .. MaxAttempts - 1 : \E w \in Worker : worker[w].job = j /\ worker[w].tries = n}

\* How many counts below the limit a row has had; and the claim that a queued row is good for.
Below(n)   == IF n < MaxAttempts THEN n ELSE MaxAttempts - 1
Waiting(j) == IF job[j].state = "queued" THEN 1 ELSE 0

\* Every claim but the first is paid for, by a count below the limit that was given back or by a
\* start of a worker; the counts still held and the place in the queue are what is left to spend.
AttemptsInv ==
    /\ \A w \in Worker :
        /\ worker[w].pc # "down" => starts > 0
        /\ worker[w].job # None => worker[w].tries \in 1 .. job[worker[w].job].attempts
    /\ \A v, w \in Worker :
          worker[v].job # None /\ worker[v].job = worker[w].job /\ worker[v].tries = worker[w].tries => v = w
    /\ \A j \in Job :
        /\ job[j].state = "free" => job[j] = FreeRow
        /\ job[j].attempts > 0 =>
              job[j].attempts + Waiting(j) + Cardinality(Held(j)) <= Below(job[j].attempts) + starts

\* The counts held are finitely many, and fewer when hands are emptied.
LEMMA HeldFinite ==
    ASSUME NEW j \in Job
    PROVE  IsFiniteSet(Held(j)) /\ Cardinality(Held(j)) \in Nat
<1>1. IsFiniteSet(1 .. MaxAttempts - 1)
  BY JobAssumption, FS_Interval DEF JobAssumption
<1>2. Held(j) \in SUBSET (1 .. MaxAttempts - 1)
  BY DEF Held
<1>3. IsFiniteSet(Held(j))
  BY <1>1, <1>2, FS_Subset
<1> QED BY <1>3, FS_CardinalityType

\* The threads that hold a row stay as they are or become fewer by a step that takes no row up.
LEMMA HeldShrinks ==
    ASSUME NEW j \in Job,
           \A v \in Worker : worker'[v].job # None =>
               worker'[v].job = worker[v].job /\ worker'[v].tries = worker[v].tries
    PROVE  /\ Cardinality(Held(j)') \in Nat
           /\ Cardinality(Held(j)') <= Cardinality(Held(j))
<1>1. Held(j)' \in SUBSET Held(j)
  BY NoneIsNoJob DEF Held
<1> QED BY <1>1, HeldFinite, FS_Subset, FS_CardinalityType

\* Whatever happens to rows and hands, the bound is kept while no row comes back to the queue, no
\* row is claimed and no worker starts.
LEMMA AttemptsKept ==
    ASSUME JobTypeOK, AttemptsInv, starts' = starts, job' \in [Job -> Row],
           \A j \in Job : /\ job'[j].state = "free" => job'[j] = FreeRow
                          /\ job'[j].attempts = job[j].attempts
                          /\ job'[j].attempts > 0 /\ job'[j].state = "queued" => job[j].state = "queued",
           \A v \in Worker : /\ worker'[v].pc # "down" => worker[v].pc # "down"
                             /\ worker'[v].job # None =>
                                   worker'[v].job = worker[v].job /\ worker'[v].tries = worker[v].tries
    PROVE  AttemptsInv'
<1>1. ASSUME NEW w \in Worker
      PROVE  /\ worker'[w].pc # "down" => starts' > 0
             /\ worker'[w].job # None => worker'[w].tries \in 1 .. job'[worker'[w].job].attempts
  BY DEF AttemptsInv, JobTypeOK, Thread
<1>2. ASSUME NEW v \in Worker, NEW w \in Worker,
             worker'[v].job # None, worker'[v].job = worker'[w].job, worker'[v].tries = worker'[w].tries
      PROVE  v = w
  BY <1>2 DEF AttemptsInv
<1>3. ASSUME NEW j \in Job, job'[j].attempts > 0
      PROVE  job'[j].attempts + Waiting(j)' + Cardinality(Held(j)') <= Below(job'[j].attempts) + starts'
  <2>1. job[j].attempts + Waiting(j) + Cardinality(Held(j)) <= Below(job[j].attempts) + starts
    BY <1>3 DEF AttemptsInv
  <2>2. Waiting(j)' <= Waiting(j) /\ Waiting(j)' \in Nat /\ Waiting(j) \in Nat
    BY <1>3 DEF Waiting
  <2>3. /\ Cardinality(Held(j)') \in Nat /\ Cardinality(Held(j)) \in Nat
        /\ Cardinality(Held(j)') <= Cardinality(Held(j))
    BY HeldFinite, HeldShrinks
  <2>4. job[j].attempts \in Nat /\ Below(job[j].attempts) \in Nat /\ starts \in Nat
    BY JobAssumption DEF JobTypeOK, Row, Below, JobAssumption
  <2> DEFINE p == Cardinality(Held(j)')  q == Cardinality(Held(j))  b == Below(job[j].attempts)
             x == Waiting(j)  y == Waiting(j)'
  <2>5. job[j].attempts + y + p <= b + starts
    <3>1. /\ p \in Nat /\ q \in Nat /\ p <= q /\ x \in Nat /\ y \in Nat /\ y <= x
          /\ job[j].attempts \in Nat /\ b \in Nat /\ starts \in Nat
          /\ job[j].attempts + x + q <= b + starts
      BY <2>1, <2>2, <2>3, <2>4
    <3> HIDE DEF p, q, b, x, y
    <3> QED BY <3>1
  <2>6. job'[j].attempts = job[j].attempts
    OBVIOUS
  <2> QED BY <2>5, <2>6
<1> QED BY <1>1, <1>2, <1>3 DEF AttemptsInv

\* A claim spends the row's place in the queue; it takes a count that nobody has held.
LEMMA ClaimSpends ==
    ASSUME JobTypeOK, HandOK, AttemptsInv, NEW w \in Worker, NEW j \in Job, Claim(w, j)
    PROVE  AttemptsInv'
<1> USE NoneIsNoJob, JobAssumption DEF JobAssumption
<1> DEFINE n == job[j].attempts
<1>1. /\ worker[w].pc = "idle" /\ worker[w].job = None /\ starts > 0 /\ starts' = starts /\ starts \in Nat
      /\ job[j].state = "queued" /\ n \in Nat
      /\ worker' = [worker EXCEPT ![w] = [pc |-> "running", job |-> j, tries |-> n + 1]]
  BY DEF Claim, Oldest, Ready, HandOK, AttemptsInv, JobTypeOK, Row
<1>2. /\ job'[j].state = "running" /\ job'[j].attempts = n + 1
      /\ \A i \in Job : i # j => job'[i] = job[i]
  BY <1>1 DEF Claim, JobTypeOK, Row
<1>3. /\ worker'[w] = [pc |-> "running", job |-> j, tries |-> n + 1]
      /\ \A v \in Worker : v # w => worker'[v] = worker[v]
  BY <1>1 DEF JobTypeOK
<1>4. ASSUME NEW v \in Worker
      PROVE  /\ worker'[v].pc # "down" => starts' > 0
             /\ worker'[v].job # None => worker'[v].tries \in 1 .. job'[worker'[v].job].attempts
  <2>1. CASE v = w
    BY <1>1, <1>2, <1>3, <2>1
  <2>2. CASE v # w
    <3>1. worker[v].job # None => worker[v].job \in Job /\ worker[v].tries \in 1 .. job[worker[v].job].attempts
      BY DEF AttemptsInv, JobTypeOK, Thread
    <3>2. worker[v].pc # "down" => starts > 0
      BY DEF AttemptsInv
    <3> QED BY <1>1, <1>2, <1>3, <2>2, <3>1, <3>2
  <2> QED BY <2>1, <2>2
<1>5. ASSUME NEW v \in Worker, v # w, worker'[v].job = j
      PROVE  worker'[v].tries # n + 1
  <2>1. worker[v].job = j /\ worker'[v].tries = worker[v].tries
    BY <1>3, <1>5
  <2>2. worker[v].tries \in 1 .. n
    BY <2>1 DEF AttemptsInv
  <2> QED BY <1>1, <2>1, <2>2
<1>6. ASSUME NEW v \in Worker, NEW u \in Worker,
             worker'[v].job # None, worker'[v].job = worker'[u].job, worker'[v].tries = worker'[u].tries
      PROVE  v = u
  BY <1>3, <1>5, <1>6 DEF AttemptsInv
<1>7. ASSUME NEW i \in Job, job'[i].attempts > 0
      PROVE  job'[i].attempts + Waiting(i)' + Cardinality(Held(i)') <= Below(job'[i].attempts) + starts'
  <2>1. CASE i # j
    <3>1. Held(i)' = Held(i)
      BY <1>1, <1>3, <2>1 DEF Held
    <3>2. Waiting(i)' = Waiting(i) /\ job'[i].attempts = job[i].attempts
      BY <1>2, <2>1 DEF Waiting
    <3>3. job[i].attempts + Waiting(i) + Cardinality(Held(i)) <= Below(job[i].attempts) + starts
      BY <1>7, <3>2 DEF AttemptsInv
    <3> QED BY <1>1, <3>1, <3>2, <3>3
  <2>2. CASE i = j
    <3> DEFINE h == Cardinality(Held(j))  k == Cardinality(Held(j)')
    <3>1. Waiting(j) = 1 /\ Waiting(j)' = 0
      BY <1>1, <1>2 DEF Waiting
    <3>2. h \in Nat
      BY HeldFinite
    <3>3. n > 0 => n + 1 + h <= Below(n) + starts
      BY <3>1 DEF AttemptsInv
    <3>4. n = 0 => h = 0
      <4>1. n = 0 => Held(j) = {}
        BY DEF Held, AttemptsInv
      <4> QED BY <4>1, FS_EmptySet
    <3>5. CASE n + 1 < MaxAttempts
      <4>1. Held(j)' = Held(j) \cup {n + 1}
        <5>1. n + 1 \in Held(j)'
          BY <1>1, <1>3, <3>5 DEF Held
        <5>2. Held(j)' \subseteq Held(j) \cup {n + 1}
          BY <1>3 DEF Held
        <5>3. Held(j) \subseteq Held(j)'
          BY <1>1, <1>3 DEF Held
        <5> QED BY <5>1, <5>2, <5>3
      <4>2. n + 1 \notin Held(j)
        BY <1>1 DEF Held, AttemptsInv
      <4>3. k = h + 1
        BY <4>1, <4>2, HeldFinite, FS_AddElement
      <4>4. Below(n) = n /\ Below(n + 1) = n + 1
        BY <1>1, <3>5 DEF Below
      <4> HIDE DEF n, h, k
      <4>5. n + 1 + 0 + k <= Below(n + 1) + starts
        BY <1>1, <3>2, <3>3, <3>4, <4>3, <4>4
      <4> QED BY <1>1, <1>2, <2>2, <3>1, <4>5 DEF k
    <3>6. CASE ~(n + 1 < MaxAttempts)
      <4>1. Held(j)' = Held(j)
        <5>1. Held(j)' \subseteq Held(j)
          BY <1>1, <1>3, <3>6 DEF Held
        <5>2. Held(j) \subseteq Held(j)'
          BY <1>1, <1>3 DEF Held
        <5> QED BY <5>1, <5>2
      <4>2. Below(n) = MaxAttempts - 1 /\ Below(n + 1) = MaxAttempts - 1
        BY <1>1, <3>6 DEF Below
      <4>3. k = h
        BY <4>1
      <4> HIDE DEF n, h, k
      <4>4. n + 1 + 0 + k <= Below(n + 1) + starts
        BY <1>1, <3>2, <3>3, <3>4, <3>6, <4>2, <4>3
      <4> QED BY <1>1, <1>2, <2>2, <3>1, <4>4 DEF k
    <3> QED BY <3>5, <3>6
  <2> QED BY <2>1, <2>2
<1>8. ASSUME NEW i \in Job, job'[i].state = "free"
      PROVE  job'[i] = FreeRow
  BY <1>2, <1>8 DEF AttemptsInv
<1> QED BY <1>4, <1>6, <1>7, <1>8 DEF AttemptsInv

\* A row that is given back takes the place in the queue that its runner's count was good for.
LEMMA RetryGivesBack ==
    ASSUME JobTypeOK, HandOK, AttemptsInv, NEW w \in Worker, RetryLater(w)
    PROVE  AttemptsInv'
<1> USE NoneIsNoJob, JobAssumption DEF JobAssumption
<1>0. PICK j \in Job, n \in Nat : j = worker[w].job /\ n = worker[w].tries
  BY DEF RetryLater, HandOK, JobTypeOK, Thread
<1>1. /\ worker[w].pc # "down" /\ starts' = starts /\ starts \in Nat
      /\ n >= 1 /\ n < MaxAttempts /\ n <= job[j].attempts /\ job[j].attempts \in Nat
      /\ worker' = [worker EXCEPT ![w] = Idle]
  BY <1>0 DEF RetryLater, LastAttempt, AttemptsInv, JobTypeOK, Row
<1>2. \A v \in Worker : /\ worker'[v].pc # "down" => worker[v].pc # "down"
                        /\ worker'[v].job # None =>
                              worker'[v].job = worker[v].job /\ worker'[v].tries = worker[v].tries
  BY <1>1 DEF JobTypeOK, Idle
<1>3. CASE job' = job
  BY <1>1, <1>2, <1>3, AttemptsKept DEF JobTypeOK, AttemptsInv
<1>4. CASE job' = [job EXCEPT ![j].state = "queued", ![j].later = TRUE]
  <2>1. /\ \A i \in Job : i # j => job'[i] = job[i]
        /\ job'[j].attempts = job[j].attempts /\ job'[j].state = "queued"
    BY <1>1, <1>4 DEF JobTypeOK, Row
  <2>2. ASSUME NEW v \in Worker
        PROVE  /\ worker'[v].pc # "down" => starts' > 0
               /\ worker'[v].job # None => worker'[v].tries \in 1 .. job'[worker'[v].job].attempts
    BY <1>1, <1>2, <2>1 DEF AttemptsInv, JobTypeOK, Thread
  <2>3. ASSUME NEW v \in Worker, NEW u \in Worker,
               worker'[v].job # None, worker'[v].job = worker'[u].job, worker'[v].tries = worker'[u].tries
        PROVE  v = u
    BY <1>2, <2>3 DEF AttemptsInv
  <2>4. ASSUME NEW i \in Job, job'[i].attempts > 0
        PROVE  job'[i].attempts + Waiting(i)' + Cardinality(Held(i)') <= Below(job'[i].attempts) + starts'
    <3> DEFINE a == job[i].attempts  p == Cardinality(Held(i)')  q == Cardinality(Held(i))
               x == Waiting(i)  y == Waiting(i)'  b == Below(a)
    <3>1. job'[i].attempts = a
      BY <2>1
    <3>2. /\ a \in Nat /\ b \in Nat /\ p \in Nat /\ q \in Nat /\ p <= q
          /\ x \in {0, 1} /\ y \in {0, 1}
      BY <1>2, HeldFinite, HeldShrinks DEF JobTypeOK, Row, Waiting, Below
    <3>3. a + x + q <= b + starts
      BY <2>4, <3>1 DEF AttemptsInv
    <3>4. CASE i # j
      <4>1. y = x
        BY <2>1, <3>4 DEF Waiting
      <4> HIDE DEF a, p, q, x, y, b
      <4>2. a + y + p <= b + starts
        BY <1>1, <3>2, <3>3, <4>1
      <4> QED BY <1>1, <3>1, <4>2 DEF a, p, y, b
    <3>5. CASE i = j
      <4>1. n \in Held(j)
        BY <1>0, <1>1 DEF Held
      <4>2. ASSUME NEW v \in Worker, worker'[v].job = j, worker'[v].tries = n
            PROVE  FALSE
        <5>1. worker[v].job = j /\ worker[v].tries = n
          BY <1>2, <4>2
        <5>2. v = w
          BY <1>0, <5>1 DEF AttemptsInv
        <5> QED BY <1>1, <4>2, <5>2 DEF Idle, JobTypeOK
      <4>3. Held(i)' \subseteq Held(i) \ {n}
        BY <1>2, <3>5, <4>2 DEF Held
      <4>4. p <= q - 1
        <5>1. /\ IsFiniteSet(Held(j) \ {n})
              /\ Cardinality(Held(j) \ {n}) = Cardinality(Held(j)) - 1
          BY <4>1, HeldFinite, FS_RemoveElement
        <5>2. Cardinality(Held(i)') <= Cardinality(Held(j) \ {n})
          BY <3>5, <4>3, <5>1, FS_Subset
        <5> QED BY <3>5, <5>1, <5>2
      <4> HIDE DEF a, p, q, x, y, b
      <4>5. a + y + p <= b + starts
        BY <1>1, <3>2, <3>3, <4>4
      <4> QED BY <1>1, <3>1, <4>5 DEF a, p, y, b
    <3> QED BY <3>4, <3>5
  <2>5. ASSUME NEW i \in Job, job'[i].state = "free"
        PROVE  job'[i] = FreeRow
    BY <2>1, <2>5 DEF AttemptsInv
  <2> QED BY <2>2, <2>3, <2>4, <2>5 DEF AttemptsInv
<1> QED BY <1>0, <1>3, <1>4 DEF RetryLater

\* A start pays for the rows that it puts back.
LEMMA StartPays ==
    ASSUME JobTypeOK, HandOK, AttemptsInv, NEW w \in Worker, Start(w)
    PROVE  AttemptsInv'
<1> USE NoneIsNoJob, JobAssumption DEF JobAssumption
<1>1. /\ worker[w].job = None /\ starts' = starts + 1 /\ starts \in Nat
      /\ worker' = [worker EXCEPT ![w] = Idle]
  BY DEF Start, HandOK, JobTypeOK
<1>2. \A v \in Worker : worker'[v].job # None =>
          v # w /\ worker'[v] = worker[v]
  BY <1>1 DEF JobTypeOK, Idle
<1>3. \A i \in Job : /\ job'[i].attempts = job[i].attempts
                     /\ job'[i].state # job[i].state => job'[i].state = "queued"
                     /\ job'[i].state = "free" => job'[i] = job[i]
  BY DEF Start, Interrupted, JobTypeOK, Row
<1>4. ASSUME NEW v \in Worker
      PROVE  /\ worker'[v].pc # "down" => starts' > 0
             /\ worker'[v].job # None => worker'[v].tries \in 1 .. job'[worker'[v].job].attempts
  BY <1>1, <1>2, <1>3 DEF AttemptsInv, JobTypeOK, Thread
<1>5. ASSUME NEW v \in Worker, NEW u \in Worker,
             worker'[v].job # None, worker'[v].job = worker'[u].job, worker'[v].tries = worker'[u].tries
      PROVE  v = u
  BY <1>2, <1>5 DEF AttemptsInv
<1>6. ASSUME NEW i \in Job, job'[i].attempts > 0
      PROVE  job'[i].attempts + Waiting(i)' + Cardinality(Held(i)') <= Below(job'[i].attempts) + starts'
  <2> DEFINE a == job[i].attempts  p == Cardinality(Held(i)')  q == Cardinality(Held(i))
             x == Waiting(i)  y == Waiting(i)'  b == Below(a)
  <2>1. job'[i].attempts = a
    BY <1>3
  <2>2. /\ a \in Nat /\ b \in Nat /\ p \in Nat /\ q \in Nat /\ p <= q
        /\ x \in {0, 1} /\ y \in {0, 1}
    BY <1>2, HeldFinite, HeldShrinks DEF JobTypeOK, Row, Waiting, Below
  <2>3. a + x + q <= b + starts
    BY <1>6, <2>1 DEF AttemptsInv
  <2>4. a + y + p <= b + (starts + 1)
    <3> HIDE DEF a, p, q, x, y, b
    <3> QED BY <1>1, <2>2, <2>3
  <2> QED BY <1>1, <2>1, <2>4
<1>7. ASSUME NEW i \in Job, job'[i].state = "free"
      PROVE  job'[i] = FreeRow
  BY <1>3, <1>7 DEF AttemptsInv
<1> QED BY <1>4, <1>5, <1>6, <1>7 DEF AttemptsInv

\* Every step keeps the bound: a claim spends, a retry gives back, a start pays, and nothing else
\* puts a row into the queue or into a hand.
LEMMA AttemptsStep ==
    ASSUME JobTypeOK, HandOK, AttemptsInv, [JobNext]_jobVars
    PROVE  AttemptsInv'
<1>0. job' \in [Job -> Row]
  BY TypeStep DEF JobTypeOK
<1> DEFINE Rows == \A j \in Job : /\ job'[j].state = "free" => job'[j] = FreeRow
                                  /\ job'[j].attempts = job[j].attempts
                                  /\ job'[j].attempts > 0 /\ job'[j].state = "queued" => job[j].state = "queued"
           Hands == \A v \in Worker : /\ worker'[v].pc # "down" => worker[v].pc # "down"
                                      /\ worker'[v].job # None =>
                                            worker'[v].job = worker[v].job /\ worker'[v].tries = worker[v].tries
<1>1. Rows /\ Hands /\ starts' = starts => AttemptsInv'
  BY <1>0, AttemptsKept
<1>2. job' = job => Rows
  BY DEF AttemptsInv
<1>3. worker' = worker => Hands
  OBVIOUS
<1>4. ASSUME NEW w \in Worker, worker[w].pc # "down",
             worker' \in {[worker EXCEPT ![w] = Idle], [worker EXCEPT ![w] = Down],
                          [worker EXCEPT ![w].pc = "finishing"]}
      PROVE  Hands
  BY <1>4 DEF Idle, Down, JobTypeOK, Thread
<1>5. ASSUME NEW j \in Job, NEW s \in Submission \cup {None}, NEW k \in Key \cup {None},
             NextId(j), job' = [job EXCEPT ![j] = NewRow(s, k)]
      PROVE  Rows
  <2>1. job[j] = FreeRow
    BY <1>5 DEF NextId, AttemptsInv
  <2> QED BY <1>5, <2>1 DEF NewRow, FreeRow, AttemptsInv, JobTypeOK
<1>6. ASSUME NEW w \in Worker, worker[w].job \in Job, NEW st \in {"done", "failed"},
             job' = RowState(worker[w].job, st)
      PROVE  Rows
  BY <1>6 DEF RowState, AttemptsInv, JobTypeOK, Row
<1>7. ASSUME NEW j \in Job, BackoffOver(j)
      PROVE  Rows
  <2>1. job[j].state # "free"
    BY <1>7 DEF BackoffOver, AttemptsInv, FreeRow
  <2> QED BY <1>7, <2>1 DEF BackoffOver, AttemptsInv, JobTypeOK, Row
<1>8. ASSUME NEW s \in Submission, Forget(s)
      PROVE  Rows
  BY <1>8 DEF Forget, AttemptsInv, JobTypeOK, Row
<1>9. ASSUME NEW j \in Job, \/ \E s \in Submission : InsertJob(j, s)
                            \/ \E k \in Key \cup {None} : EnqueueUnique(j, k)
      PROVE  Rows /\ Hands /\ starts' = starts
  BY <1>3, <1>5, <1>9 DEF InsertJob, EnqueueUnique
<1>10. ASSUME NEW j \in Job, StampQueued(j) \/ CallerDies(j) \/ BackoffOver(j)
       PROVE  Rows /\ Hands /\ starts' = starts
  BY <1>2, <1>3, <1>7, <1>10 DEF StampQueued, CallerDies, BackoffOver
<1>11. ASSUME NEW w \in Worker, Crash(w) \/ SettleLost(w) \/ \E v \in {"needs_you", "done"} : RunnerReturns(w, v)
       PROVE  Rows /\ Hands /\ starts' = starts
  BY <1>2, <1>4, <1>11 DEF Crash, SettleLost, RunnerReturns
<1>12. ASSUME NEW w \in Worker, Finish(w) \/ Fail(w) \/ WriteFails(w)
       PROVE  Rows /\ Hands /\ starts' = starts
  <2>1. worker[w].pc # "down" /\ worker[w].job \in Job
    BY <1>12 DEF Finish, Fail, WriteFails, HandOK
  <2>2. \E st \in {"done", "failed"} : job' = RowState(worker[w].job, st)
    BY <1>12 DEF Finish, Fail, WriteFails, FailJob
  <2>3. worker' = [worker EXCEPT ![w] = Idle] /\ starts' = starts
    BY <1>12 DEF Finish, Fail, WriteFails, FailJob
  <2> QED BY <1>4, <1>6, <2>1, <2>2, <2>3
<1>13. ASSUME NEW s \in Submission, Forget(s) \/ Upload(s) \/ \E v \in {"needs_you", "done"} : OthersWrite(s, v)
       PROVE  Rows /\ Hands /\ starts' = starts
  BY <1>2, <1>3, <1>8, <1>13 DEF Forget, Upload, OthersWrite
<1>14. UNCHANGED jobVars => Rows /\ Hands /\ starts' = starts
  BY <1>2, <1>3 DEF jobVars
<1> QED
  BY <1>1, <1>9, <1>10, <1>11, <1>12, <1>13, <1>14, ClaimSpends, RetryGivesBack, StartPays
     DEF JobNext, RunnerStep

\* The strengthening holds always, however workers overlap.
LEMMA AttemptsInvariant == JobSpec => []AttemptsInv
<1>1. JobInit => AttemptsInv
  BY DEF JobInit, AttemptsInv, FreeRow, Down
<1>2. JobTypeOK /\ HandOK /\ AttemptsInv /\ [JobNext]_jobVars => AttemptsInv'
  BY AttemptsStep
<1> QED BY <1>1, <1>2, JobTypeCorrect, PTL DEF JobSpec

\* The counts below the limit are too few for more attempts than MaxAttempts and the starts allow.
LEMMA AttemptsInvBounds ==
    ASSUME JobTypeOK, AttemptsInv
    PROVE  AttemptsBounded
<1> SUFFICES ASSUME NEW j \in Job, job[j].attempts > 0
             PROVE  job[j].attempts < MaxAttempts + starts
  BY DEF AttemptsBounded
<1> DEFINE a == job[j].attempts  x == Waiting(j)  h == Cardinality(Held(j))  b == Below(a)
<1>1. a \in Nat /\ x \in Nat /\ h \in Nat /\ starts \in Nat /\ b <= MaxAttempts - 1 /\ b \in Nat
  BY HeldFinite, JobAssumption DEF JobTypeOK, Row, Waiting, Below, JobAssumption
<1>2. a + x + h <= b + starts
  BY DEF AttemptsInv
<1>3. a < MaxAttempts + starts
  <2> HIDE DEF a, x, h, b
  <2> QED BY <1>1, <1>2, JobAssumption DEF JobAssumption
<1> QED BY <1>3

\* No row is attempted more often than MaxAttempts plus the restarts of the worker, even when
\* workers overlap and take each other's rows.
THEOREM AttemptsAreBounded == JobSpec => []AttemptsBounded
<1>1. JobTypeOK /\ AttemptsInv => AttemptsBounded
  BY AttemptsInvBounds
<1> QED BY <1>1, JobTypeCorrect, AttemptsInvariant, PTL

-----------------------------------------------------------------------------
(* Statuses *)

\* A row whose enqueue() still owes its second statement has not been settled, nor has its
\* runner returned: this is what PromptStamp buys.
StampInv ==
    \A j \in unstamped :
        /\ job[j].state \in {"queued", "running", "deleted"}
        /\ \A w \in Worker : worker[w].job = j => worker[w].pc = "running"

\* With a prompt second statement, a row that enqueue() has not stamped is still to be run: every step keeps it so.
LEMMA StampStep ==
    ASSUME ~Overlap, PromptStamp, JobTypeOK, HandOK, OneHolder, StampInv, [JobNext]_jobVars
    PROVE  StampInv'
<1> USE NoneIsNoJob DEF JobTypeOK, HandOK, OneHolder, StampInv, Thread, Row
<1>1. ASSUME NEW j \in Job, NEW s \in Submission, InsertJob(j, s)
      PROVE  StampInv'
  BY <1>1 DEF InsertJob, NextId, NewRow, FreeRow
<1>2. ASSUME NEW j \in Job, StampQueued(j)
      PROVE  StampInv'
  BY <1>2 DEF StampQueued
<1>3. ASSUME NEW j \in Job, CallerDies(j)
      PROVE  StampInv'
  BY <1>3 DEF CallerDies
<1>4. ASSUME NEW j \in Job, BackoffOver(j)
      PROVE  StampInv'
  BY <1>4 DEF BackoffOver
<1>5. ASSUME NEW j \in Job, NEW k \in Key \cup {None}, EnqueueUnique(j, k)
      PROVE  StampInv'
  BY <1>5 DEF EnqueueUnique, NextId, NewRow, FreeRow
<1>6. ASSUME NEW w \in Worker, Start(w)
      PROVE  StampInv'
  BY <1>6 DEF Start, Idle, Interrupted
<1>7. ASSUME NEW w \in Worker, Crash(w)
      PROVE  StampInv'
  BY <1>7 DEF Crash, Down
<1>8. ASSUME NEW w \in Worker, NEW v \in {"needs_you", "done"}, RunnerReturns(w, v)
      PROVE  StampInv'
  BY <1>8 DEF RunnerReturns
<1>9. ASSUME NEW w \in Worker, RetryLater(w)
      PROVE  StampInv'
  BY <1>9 DEF RetryLater, Idle
<1>10. ASSUME NEW w \in Worker, worker[w].pc \in {"running", "finishing"}, FailJob(w)
       PROVE  StampInv'
  BY <1>10 DEF FailJob, RowState, Idle
<1>11. ASSUME NEW w \in Worker, Fail(w)
      PROVE  StampInv'
  BY <1>10, <1>11 DEF Fail
<1>12. ASSUME NEW w \in Worker, Finish(w)
      PROVE  StampInv'
  BY <1>12 DEF Finish, RowState, Idle
<1>13. ASSUME NEW w \in Worker, WriteFails(w)
      PROVE  StampInv'
  BY <1>10, <1>13 DEF WriteFails
<1>14. ASSUME NEW w \in Worker, SettleLost(w)
      PROVE  StampInv'
  BY <1>14 DEF SettleLost, Idle
<1>15. ASSUME NEW w \in Worker, NEW j \in Job, Claim(w, j)
      PROVE  StampInv'
  BY <1>15 DEF Claim, Oldest, Ready
<1>16. ASSUME NEW s \in Submission, Forget(s)
      PROVE  StampInv'
  BY <1>16 DEF Forget
<1>17. ASSUME NEW s \in Submission, Upload(s)
      PROVE  StampInv'
  BY <1>17 DEF Upload
<1>18. ASSUME NEW s \in Submission, NEW v \in {"needs_you", "done"}, OthersWrite(s, v)
      PROVE  StampInv'
  BY <1>18 DEF OthersWrite
<1>19. CASE UNCHANGED jobVars
  BY <1>19 DEF jobVars
<1> QED
  BY <1>1, <1>2, <1>3, <1>4, <1>5, <1>6, <1>7, <1>8, <1>9, <1>11, <1>12, <1>13, <1>14, <1>15,
     <1>16, <1>17, <1>18, <1>19 DEF JobNext, RunnerStep

\* Every step that takes the last active row from a submission writes its status too.
LEMMA StatusStep ==
    ASSUME ~Overlap, PromptStamp, JobTypeOK, HandOK, OneHolder, StampInv, StatusHasRow, [JobNext]_jobVars
    PROVE  StatusHasRow'
<1> USE NoneIsNoJob DEF JobTypeOK, HandOK, OneHolder, StampInv, StatusHasRow, Active, Exists, Thread, Row
<1>1. ASSUME NEW j \in Job, NEW s \in Submission, InsertJob(j, s)
      PROVE  StatusHasRow'
  BY <1>1 DEF InsertJob, NextId, NewRow, FreeRow
<1>2. ASSUME NEW j \in Job, StampQueued(j)
      PROVE  StatusHasRow'
  BY <1>2 DEF StampQueued, StatusOfRow
<1>3. ASSUME NEW j \in Job, CallerDies(j)
      PROVE  StatusHasRow'
  BY <1>3 DEF CallerDies
<1>4. ASSUME NEW j \in Job, BackoffOver(j)
      PROVE  StatusHasRow'
  BY <1>4 DEF BackoffOver
<1>5. ASSUME NEW j \in Job, NEW k \in Key \cup {None}, EnqueueUnique(j, k)
      PROVE  StatusHasRow'
  BY <1>5 DEF EnqueueUnique, NextId, NewRow, FreeRow
<1>6. ASSUME NEW w \in Worker, Start(w)
      PROVE  StatusHasRow'
  BY <1>6 DEF Start, Idle, Interrupted
<1>7. ASSUME NEW w \in Worker, Crash(w)
      PROVE  StatusHasRow'
  BY <1>7 DEF Crash, Down
<1>8. ASSUME NEW w \in Worker, NEW v \in {"needs_you", "done"}, RunnerReturns(w, v)
      PROVE  StatusHasRow'
  <2> DEFINE r == worker[w].job
  <2>1. /\ r \in Job /\ r # None /\ job' = job
        /\ worker' = [worker EXCEPT ![w].pc = "finishing"]
        /\ status' = StatusOfRow(r, v)
    BY <1>8 DEF RunnerReturns
  <2>2. \A s \in Submission : status'[s] \in {"marking", "queued"} =>
          status'[s] = status[s] /\ (job[r].sub # s \/ job[r].state = "deleted")
    BY <2>1, StatusOfRowValue DEF Status
  <2>3. \A u \in Worker : worker'[u].job = worker[u].job /\ (u # w => worker'[u] = worker[u])
    BY <2>1
  <2>4. \A s \in Submission : \A j \in Job :
          j # r /\ (\A u \in Worker : worker[u].job = j => worker[u].pc = "running")
            => \A u \in Worker : worker'[u].job = j => worker'[u].pc = "running"
    BY <2>1, <2>3
  <2> QED BY <2>1, <2>2, <2>4
<1>9. ASSUME NEW w \in Worker, RetryLater(w)
      PROVE  StatusHasRow'
  <2> DEFINE r == worker[w].job
  <2>1. /\ r \in Job /\ r # None /\ job[r].state \in {"running", "deleted"}
        /\ worker' = [worker EXCEPT ![w] = Idle]
        /\ \A u \in Worker : worker'[u].job # r
    BY <1>9 DEF RetryLater, Idle
  <2>2. \A j \in Job :
          (\A u \in Worker : worker[u].job = j => worker[u].pc = "running")
            => \A u \in Worker : worker'[u].job = j => worker'[u].pc = "running"
    BY <2>1 DEF Idle
  <2>3. CASE job' = job /\ status' = status
    BY <2>1, <2>2, <2>3
  <2>4. CASE /\ job[r].state = "running"
             /\ job' = [job EXCEPT ![r].state = "queued", ![r].later = TRUE]
             /\ status' = StatusOfRow(r, "queued")
    <3>1. \A j \in Job : /\ job'[j].sub = job[j].sub
                         /\ j # r => job'[j] = job[j]
                         /\ job'[r].state = "queued"
      BY <2>1, <2>4
    <3>2. \A s \in Submission : job[r].sub = s /\ Exists(s) => status'[s] = "queued"
      BY <2>1, <2>4, StatusOfRowValue DEF Status
    <3>3. \A s \in Submission : job[r].sub # s \/ ~Exists(s) => status'[s] = status[s]
      BY <2>1, <2>4, StatusOfRowValue DEF Status
    <3>4. ASSUME NEW s \in Submission, job[r].sub = s, Exists(s)
          PROVE  StatusHasRow!(s)'
      BY <2>1, <3>1, <3>2, <3>4
    <3>5. ASSUME NEW s \in Submission, job[r].sub # s \/ ~Exists(s)
          PROVE  StatusHasRow!(s)'
      <4>1. status'[s] = status[s]
        BY <3>3, <3>5
      <4>2. ~Exists(s) => status[s] \notin {"marking", "queued"}
        OBVIOUS
      <4>3. \A j \in Job : job[j].sub = s /\ Exists(s) => job'[j] = job[j]
        BY <3>1, <3>5
      <4> QED BY <2>2, <4>1, <4>2, <4>3
    <3> QED BY <3>4, <3>5
  <2>5. job[r].state = "deleted" => status' = status /\ job' = job
    BY <1>9 DEF RetryLater, StatusOfRow
  <2>6. job[r].state = "running" =>
            /\ job' = [job EXCEPT ![r].state = "queued", ![r].later = TRUE]
            /\ status' = StatusOfRow(r, "queued")
    BY <1>9 DEF RetryLater
  <2> QED BY <2>1, <2>3, <2>4, <2>5, <2>6
<1>10. ASSUME NEW w \in Worker, worker[w].pc \in {"running", "finishing"}, FailJob(w)
       PROVE  StatusHasRow'
  <2> DEFINE r == worker[w].job
  <2>1. /\ r \in Job /\ r # None /\ job[r].state \in {"running", "deleted"}
        /\ worker' = [worker EXCEPT ![w] = Idle]
        /\ status' = StatusOfRow(r, "failed")
    BY <1>10 DEF FailJob
  <2>2. \A j \in Job :
          (\A u \in Worker : worker[u].job = j => worker[u].pc = "running")
            => \A u \in Worker : worker'[u].job = j => worker'[u].pc = "running"
    BY <2>1 DEF Idle
  <2>3. \A j \in Job : job'[j].sub = job[j].sub /\ (j # r => job'[j] = job[j])
    BY <1>10, <2>1 DEF FailJob, RowState
  <2>4. \A s \in Submission : status'[s] \in {"marking", "queued"} =>
          status'[s] = status[s] /\ (job[r].sub # s \/ job[r].state = "deleted")
    BY <2>1, StatusOfRowValue DEF Status
  <2> QED BY <2>2, <2>3, <2>4
<1>11. ASSUME NEW w \in Worker, Fail(w)
      PROVE  StatusHasRow'
  BY <1>10, <1>11 DEF Fail
<1>12. ASSUME NEW w \in Worker, Finish(w)
      PROVE  StatusHasRow'
  BY <1>12 DEF Finish, RowState, Idle
<1>13. ASSUME NEW w \in Worker, WriteFails(w)
      PROVE  StatusHasRow'
  BY <1>10, <1>13 DEF WriteFails
<1>14. ASSUME NEW w \in Worker, SettleLost(w)
      PROVE  StatusHasRow'
  BY <1>14 DEF SettleLost, Idle
<1>15. ASSUME NEW w \in Worker, NEW j \in Job, Claim(w, j)
      PROVE  StatusHasRow'
  BY <1>15 DEF Claim, Oldest, Ready, StatusOfRow
<1>16. ASSUME NEW s \in Submission, Forget(s)
      PROVE  StatusHasRow'
  BY <1>16 DEF Forget
<1>17. ASSUME NEW s \in Submission, Upload(s)
      PROVE  StatusHasRow'
  BY <1>17 DEF Upload
<1>18. ASSUME NEW s \in Submission, NEW v \in {"needs_you", "done"}, OthersWrite(s, v)
      PROVE  StatusHasRow'
  BY <1>18 DEF OthersWrite
<1>19. CASE UNCHANGED jobVars
  BY <1>19 DEF jobVars
<1> QED
  BY <1>1, <1>2, <1>3, <1>4, <1>5, <1>6, <1>7, <1>8, <1>9, <1>11, <1>12, <1>13, <1>14, <1>15,
     <1>16, <1>17, <1>18, <1>19 DEF JobNext, RunnerStep

\* No submission is left "marking" or "queued" without a row that is going to change it.
THEOREM StatusesHaveRows ==
    ASSUME ~Overlap, PromptStamp
    PROVE  JobSpec => []StatusHasRow
<1>1. JobInit => StampInv /\ StatusHasRow
  BY DEF JobInit, StampInv, StatusHasRow
<1>2. JobTypeOK /\ HandOK /\ OneHolder /\ StampInv /\ StatusHasRow /\ [JobNext]_jobVars
        => StampInv' /\ StatusHasRow'
  BY StampStep, StatusStep
<1> QED BY <1>1, <1>2, JobTypeCorrect, JobsAreExclusive, PTL DEF JobSpec

-----------------------------------------------------------------------------
(* The ledger *)

\* Every step of JobStore is a step of the ledger, or leaves the ledger as it is.
LEMMA LedgerStep ==
    ASSUME ~Overlap, JobTypeOK, HandOK, OneHolder, AttemptsInv,
           JobTypeOK', HandOK', [JobNext]_jobVars
    PROVE  [Ledger!Next]_(Ledger!ledgerVars)
<1> DEFINE Same == UNCHANGED Ledger!ledgerVars
<1> USE NoneIsNoJob DEF JobTypeOK, HandOK, OneHolder, Thread, Row
<1>1. ASSUME NEW j \in Job, NextId(j), NEW s \in Submission \cup {None}, NEW k \in Key \cup {None},
             job' = [job EXCEPT ![j] = NewRow(s, k)], worker' = worker
      PROVE  Ledger!Submit(j)
  <2>1. /\ job[j].state = "free" /\ job[j].attempts = 0
        /\ job'[j].state = "queued" /\ job'[j].attempts = 0
        /\ \A i \in Job : i # j => job'[i] = job[i]
    BY <1>1 DEF NextId, NewRow, FreeRow, AttemptsInv
  <2>2. /\ [i \in Job |-> PlaceOf(i)][j] = "free"
        /\ [i \in Job |-> PlaceOf(i)]' = [[i \in Job |-> PlaceOf(i)] EXCEPT ![j] = "queued"]
    BY <2>1 DEF PlaceOf, Settled
  <2>3. [i \in Job |-> job[i].attempts]' = [i \in Job |-> job[i].attempts]
    BY <2>1
  <2>4. \A u \in Worker : worker[u].job # j
    BY <2>1
  <2>5. [u \in Worker |-> HandOf(u)]' = [u \in Worker |-> HandOf(u)]
    BY <1>1, <2>1, <2>4 DEF HandOf
  <2> QED BY <2>2, <2>3, <2>5, Zenon DEF Ledger!Submit
<1>2. ASSUME NEW j \in Job, BackoffOver(j)
      PROVE  Same
  BY <1>2 DEF BackoffOver, Ledger!ledgerVars, PlaceOf, HandOf, Settled
<1>3. ASSUME NEW w \in Worker, Start(w)
      PROVE  Ledger!Recover
  BY <1>3 DEF Start, Ledger!Recover, PlaceOf, HandOf, Settled, Interrupted, Idle
<1>4. ASSUME NEW w \in Worker, job' = job, worker'[w].job = None,
             worker' = [worker EXCEPT ![w] = worker'[w]]
      PROVE  Ledger!Abandon(w)
  <2>1. [i \in Job |-> PlaceOf(i)]' = [i \in Job |-> PlaceOf(i)]
    BY <1>4 DEF PlaceOf, Settled
  <2>2. [i \in Job |-> job[i].attempts]' = [i \in Job |-> job[i].attempts]
    BY <1>4
  <2>3. \A u \in Worker : u # w => worker'[u] = worker[u]
    BY <1>4
  <2>4. [u \in Worker |-> HandOf(u)]' = [[u \in Worker |-> HandOf(u)] EXCEPT ![w] = None]
    BY <1>4, <2>3 DEF HandOf
  <2> QED BY <2>1, <2>2, <2>4, Zenon DEF Ledger!Abandon
<1>5. ASSUME NEW w \in Worker, NEW v \in {"needs_you", "done"}, RunnerReturns(w, v)
      PROVE  Same
  BY <1>5 DEF RunnerReturns, Ledger!ledgerVars, PlaceOf, HandOf, Settled
<1>6. ASSUME NEW w \in Worker, worker[w].job # None, job[worker[w].job].state = "running",
             job' = [job EXCEPT ![worker[w].job].state = "queued", ![worker[w].job].later = TRUE],
             worker' = [worker EXCEPT ![w] = Idle]
      PROVE  Ledger!LetGo(w, "queued")
  <2> DEFINE r == worker[w].job
  <2>1. /\ r \in Job /\ r # None /\ job'[r].state = "queued"
        /\ \A i \in Job : /\ i # r => job'[i] = job[i]
                         /\ job'[i].attempts = job[i].attempts
        /\ \A u \in Worker : u # w => worker'[u] = worker[u] /\ worker[u].job # r
        /\ worker'[w].job = None
    BY <1>6 DEF Idle
  <2>2. [u \in Worker |-> HandOf(u)][w] = r
    BY <1>6, <2>1 DEF HandOf
  <2>3. [i \in Job |-> PlaceOf(i)]' = [[i \in Job |-> PlaceOf(i)] EXCEPT ![r] = "queued"]
    BY <2>1 DEF PlaceOf, Settled
  <2>4. [i \in Job |-> job[i].attempts]' = [i \in Job |-> job[i].attempts]
    BY <2>1
  <2>5. [u \in Worker |-> HandOf(u)]' = [[u \in Worker |-> HandOf(u)] EXCEPT ![w] = None]
    <3>1. HandOf(w)' = None
      BY <2>1 DEF HandOf
    <3>2. ASSUME NEW u \in Worker, u # w
          PROVE  HandOf(u)' = HandOf(u)
      <4>1. worker'[u] = worker[u] /\ worker[u].job # r
        BY <2>1, <3>2
      <4>2. worker[u].job # None => worker[u].job \in Job
        OBVIOUS
      <4> QED BY <2>1, <4>1, <4>2 DEF HandOf
    <3> QED BY <3>1, <3>2
  <2>6. r # None
    BY <2>1
  <2> QED BY <2>2, <2>3, <2>4, <2>5, <2>6, Zenon DEF Ledger!LetGo
<1>7. ASSUME NEW w \in Worker, NEW st \in {"done", "failed"}, worker[w].job # None,
             job[worker[w].job].state = "running",
             job' = [job EXCEPT ![worker[w].job].state = st],
             worker' = [worker EXCEPT ![w] = Idle]
      PROVE  Ledger!LetGo(w, "settled")
  <2> DEFINE r == worker[w].job
  <2>1. /\ r \in Job /\ r # None /\ job'[r].state = st
        /\ \A i \in Job : /\ i # r => job'[i] = job[i]
                         /\ job'[i].attempts = job[i].attempts
        /\ \A u \in Worker : u # w => worker'[u] = worker[u] /\ worker[u].job # r
        /\ worker'[w].job = None
    BY <1>7 DEF Idle
  <2>2. [u \in Worker |-> HandOf(u)][w] = r
    BY <1>7, <2>1 DEF HandOf
  <2>3. [i \in Job |-> PlaceOf(i)]' = [[i \in Job |-> PlaceOf(i)] EXCEPT ![r] = "settled"]
    BY <2>1 DEF PlaceOf, Settled
  <2>4. [i \in Job |-> job[i].attempts]' = [i \in Job |-> job[i].attempts]
    BY <2>1
  <2>5. [u \in Worker |-> HandOf(u)]' = [[u \in Worker |-> HandOf(u)] EXCEPT ![w] = None]
    <3>1. HandOf(w)' = None
      BY <2>1 DEF HandOf
    <3>2. ASSUME NEW u \in Worker, u # w
          PROVE  HandOf(u)' = HandOf(u)
      <4>1. worker'[u] = worker[u] /\ worker[u].job # r
        BY <2>1, <3>2
      <4>2. worker[u].job # None => worker[u].job \in Job
        OBVIOUS
      <4> QED BY <2>1, <4>1, <4>2 DEF HandOf
    <3> QED BY <3>1, <3>2
  <2>6. r # None
    BY <2>1
  <2> QED BY <2>2, <2>3, <2>4, <2>5, <2>6, Zenon DEF Ledger!LetGo
<1>8. ASSUME NEW w \in Worker, NEW j \in Job, Claim(w, j)
      PROVE  Ledger!Take(w, j)
  BY <1>8 DEF Claim, Oldest, Ready, Ledger!Take, PlaceOf, HandOf, Settled
<1>9. ASSUME NEW s \in Submission, Forget(s)
      PROVE  \E rows \in SUBSET Job : Ledger!Remove(rows)
  <2> DEFINE rows == {j \in Job : job[j].sub = s}
  <2>1. \A j \in rows : job[j].state # "free"
    BY JobAssumption DEF AttemptsInv, FreeRow, JobAssumption
  <2>2. \A j \in Job : /\ j \in rows => job'[j].state = "deleted"
                       /\ j \notin rows => job'[j] = job[j]
                       /\ job'[j].attempts = job[j].attempts
    BY <1>9 DEF Forget
  <2>3. worker' = worker
    BY <1>9 DEF Forget
  <2>4. \A j \in rows : [i \in Job |-> PlaceOf(i)][j] # "free"
    BY <2>1 DEF PlaceOf, Settled
  <2>5. [i \in Job |-> PlaceOf(i)]' =
          [i \in Job |-> IF i \in rows THEN "deleted" ELSE [j \in Job |-> PlaceOf(j)][i]]
    BY <2>2 DEF PlaceOf, Settled
  <2>6. [u \in Worker |-> HandOf(u)]' =
          [u \in Worker |-> IF [x \in Worker |-> HandOf(x)][u] \in rows
                            THEN None ELSE [x \in Worker |-> HandOf(x)][u]]
    BY <2>2, <2>3 DEF HandOf
  <2>7. [i \in Job |-> job[i].attempts]' = [i \in Job |-> job[i].attempts]
    BY <2>2
  <2>8. Ledger!Remove(rows)
    BY <2>4, <2>5, <2>6, <2>7, Zenon DEF Ledger!Remove
  <2>9. rows \in SUBSET Job
    OBVIOUS
  <2> HIDE DEF rows
  <2> QED BY <2>8, <2>9
<1>10. ASSUME NEW w \in Worker, RetryLater(w)
       PROVE  Ledger!LetGo(w, "queued") \/ Ledger!Abandon(w)
  <2>1. worker[w].job \in Job /\ worker[w].job # None /\ job[worker[w].job].state \in {"running", "deleted"}
        /\ worker' = [worker EXCEPT ![w] = Idle]
    BY <1>10 DEF RetryLater
  <2>2. CASE job[worker[w].job].state = "running"
    BY <1>6, <1>10, <2>1, <2>2 DEF RetryLater, Active
  <2>3. CASE job[worker[w].job].state = "deleted"
    <3>1. job' = job /\ worker'[w].job = None
      BY <1>10, <2>1, <2>3 DEF RetryLater, Idle
    <3> QED BY <1>4, <2>1, <3>1 DEF Idle
  <2> QED BY <2>1, <2>2, <2>3
<1>11. ASSUME NEW w \in Worker, worker[w].pc \in {"running", "finishing"},
              NEW st \in {"done", "failed"}, job' = RowState(worker[w].job, st),
              worker' = [worker EXCEPT ![w] = Idle]
       PROVE  Ledger!LetGo(w, "settled") \/ Ledger!Abandon(w)
  <2>1. worker[w].job \in Job /\ worker[w].job # None /\ job[worker[w].job].state \in {"running", "deleted"}
    BY <1>11
  <2>2. CASE job[worker[w].job].state = "running"
    BY <1>7, <1>11, <2>1, <2>2 DEF RowState
  <2>3. CASE job[worker[w].job].state = "deleted"
    BY <1>4, <1>11, <2>1, <2>3 DEF RowState, Idle
  <2> QED BY <2>1, <2>2, <2>3
<1>12. ASSUME UNCHANGED <<job, worker>>
       PROVE  Same
  BY <1>12 DEF Ledger!ledgerVars, PlaceOf, HandOf, Settled
<1>13. ASSUME NEW j \in Job, NEW s \in Submission, InsertJob(j, s)
       PROVE  Ledger!Next
  BY <1>1, <1>13 DEF InsertJob, Ledger!Next
<1>14. ASSUME NEW j \in Job, NEW k \in Key \cup {None}, EnqueueUnique(j, k)
       PROVE  Ledger!Next
  BY <1>1, <1>14 DEF EnqueueUnique, Ledger!Next
<1>15. ASSUME NEW w \in Worker, Crash(w) \/ SettleLost(w)
       PROVE  Ledger!Next
  <2>1. job' = job /\ worker'[w].job = None /\ worker' = [worker EXCEPT ![w] = worker'[w]]
    BY <1>15 DEF Crash, SettleLost, Down, Idle
  <2> QED BY <1>4, <2>1 DEF Ledger!Next
<1>16. ASSUME NEW w \in Worker, Finish(w) \/ Fail(w) \/ WriteFails(w)
       PROVE  Ledger!Next
  <2>1. worker[w].pc \in {"running", "finishing"}
    BY <1>16 DEF Finish, Fail, WriteFails
  <2>2. worker' = [worker EXCEPT ![w] = Idle]
    BY <1>16 DEF Finish, Fail, WriteFails, FailJob
  <2>3. job' = RowState(worker[w].job, "done") \/ job' = RowState(worker[w].job, "failed")
    BY <1>16 DEF Finish, Fail, WriteFails, FailJob
  <2> QED BY <1>11, <2>1, <2>2, <2>3 DEF Ledger!Next
<1>17. ASSUME NEW j \in Job, StampQueued(j) \/ CallerDies(j)
       PROVE  Same
  BY <1>12, <1>17 DEF StampQueued, CallerDies
<1>18. ASSUME NEW s \in Submission, Upload(s) \/ \E v \in {"needs_you", "done"} : OthersWrite(s, v)
       PROVE  Same
  BY <1>12, <1>18 DEF Upload, OthersWrite
<1>19. ASSUME UNCHANGED jobVars
       PROVE  Same
  BY <1>12, <1>19 DEF jobVars
<1> HIDE DEF Same
<1>20. Ledger!Next \/ Same
  <2>1. ASSUME NEW w \in Worker, RunnerStep(w)
        PROVE  Ledger!Next \/ Same
    BY <1>5, <1>10, <1>16, <2>1 DEF RunnerStep, Ledger!Next
  <2>2. ASSUME NEW w \in Worker, Start(w)
        PROVE  Ledger!Next
    BY <1>3, <2>2 DEF Ledger!Next
  <2>3. ASSUME NEW w \in Worker, NEW j \in Job, Claim(w, j)
        PROVE  Ledger!Next
    BY <1>8, <2>3 DEF Ledger!Next
  <2>4. ASSUME NEW s \in Submission, Forget(s)
        PROVE  Ledger!Next
    BY <1>9, <2>4 DEF Ledger!Next
  <2>5. ASSUME NEW w \in Worker, Start(w) \/ Crash(w) \/ RunnerStep(w) \/ Finish(w)
                                   \/ WriteFails(w) \/ SettleLost(w)
        PROVE  Ledger!Next \/ Same
    BY <1>15, <1>16, <2>1, <2>2, <2>5
  <2>6. ASSUME NEW j \in Job, StampQueued(j) \/ CallerDies(j) \/ BackoffOver(j)
        PROVE  Same
    BY <1>2, <1>17, <2>6
  <2>7. ASSUME NEW s \in Submission, NEW v \in {"needs_you", "done"}, OthersWrite(s, v)
        PROVE  Same
    BY <1>18, <2>7
  <2>8. ASSUME NEW s \in Submission, Forget(s) \/ Upload(s)
        PROVE  Ledger!Next \/ Same
    BY <1>18, <2>4, <2>8
  <2>9. JobNext => Ledger!Next \/ Same
    BY <1>13, <1>14, <2>3, <2>5, <2>6, <2>7, <2>8, ZenonT(30) DEF JobNext
  <2>10. JobNext \/ UNCHANGED jobVars
    OBVIOUS
  <2> QED BY <1>19, <2>9, <2>10
<1> QED BY <1>20 DEF Same

\* The empty tables are the empty ledger.
LEMMA LedgerInit == JobInit => Ledger!Init
BY NoneIsNoJob DEF JobInit, Ledger!Init, PlaceOf, HandOf, Settled, FreeRow, Down

\* While workers do not overlap, the jobs table and its workers implement the ledger.
THEOREM JobsImplementLedger ==
    ASSUME ~Overlap
    PROVE  JobSpec => LedgerSpec
<1>1. JobTypeOK /\ HandOK /\ OneHolder /\ AttemptsInv /\ JobTypeOK' /\ HandOK' /\ [JobNext]_jobVars
        => [Ledger!Next]_(Ledger!ledgerVars)
  BY LedgerStep
<1> QED BY <1>1, LedgerInit, JobTypeCorrect, JobsAreExclusive, AttemptsInvariant, PTL
        DEF JobSpec, LedgerSpec, Ledger!Spec
=============================================================================
