------------------------------ MODULE JobStore ------------------------------
(***************************************************************************)
(* The jobs table and the processes around it: worker/jobs.py (JobStore)   *)
(* and the claim / run / settle loop of worker/worker.py.                  *)
(*                                                                         *)
(* A statement or a `with db.transaction()` block is one step; everything  *)
(* that happens in two statements is two steps.  What a runner does        *)
(* between its claim and its return belongs to the modules that extend     *)
(* this one: here it may only write its submission's status and return, or *)
(* raise.  Writers of submissions.status outside jobs.py are the           *)
(* environment action OthersWrite.                                         *)
(*                                                                         *)
(* Left out: payloads, error texts, timestamps.  not_before is reduced to  *)
(* `later`, whether it still lies in the future.  Row ids stand for        *)
(* (created_at, id), the order in which claim takes rows.                  *)
(***************************************************************************)
EXTENDS Naturals

CONSTANTS
    Submission,   \* submission ids
    Key,          \* dedupe keys: reflect:<subject>, insights:<id>, extract:<id> ...
    Worker,       \* worker threads: the embedded one, `sms worker`, an old deploy
    None,         \* SQL NULL
    MaxJobs,      \* bound: rows ever inserted into jobs
    MaxAttempts,  \* jobs.MAX_ATTEMPTS
    MaxStarts,    \* bound: times a worker loop is started
    MaxFaults,    \* bound: database errors while a job is being settled
    Overlap,      \* may a worker start while another one is running a job?
    PromptStamp   \* does enqueue's second statement beat the run it started?

ASSUME JobAssumption ==
    /\ MaxJobs \in Nat /\ MaxStarts \in Nat /\ MaxFaults \in Nat
    /\ MaxAttempts \in Nat \ {0}
    /\ Overlap \in BOOLEAN /\ PromptStamp \in BOOLEAN
    /\ None \notin Submission /\ None \notin Key /\ None \notin Nat

VARIABLES
    job,        \* the jobs table
    unstamped,  \* rows whose enqueue() call has not issued its second statement
    status,     \* submissions.status
    worker,     \* what each worker thread is doing
    starts,     \* worker loops started so far
    faults      \* database errors so far

jobVars == <<job, unstamped, status, worker, starts, faults>>

Job   == 1 .. MaxJobs
Row   == [sub : Submission \cup {None}, key : Key \cup {None},
          state : {"free", "queued", "running", "done", "failed", "deleted"},
          attempts : Nat, later : BOOLEAN]
Status == {"none", "uploaded", "queued", "marking", "needs_you", "done", "failed", "deleted"}
Thread == [pc : {"down", "idle", "running", "finishing"}, job : Job \cup {None}, tries : Nat]

FreeRow == [sub |-> None, key |-> None, state |-> "free", attempts |-> 0, later |-> FALSE]
NewRowUploaded(s, k) == [FreeRow EXCEPT !.sub = s, !.key = k, !.state = "uploaded"] \* mutant
NewRow(s, k) == [FreeRow EXCEPT !.sub = s, !.key = k, !.state = "queued"]
Down == [pc |-> "down", job |-> None, tries |-> 0]
Idle == [pc |-> "idle", job |-> None, tries |-> 0]

JobTypeOK ==
    /\ job \in [Job -> Row]
    /\ unstamped \subseteq Job
    /\ status \in [Submission -> Status]
    /\ worker \in [Worker -> Thread]
    /\ starts \in 0 .. MaxStarts
    /\ faults \in 0 .. MaxFaults

JobInit ==
    /\ job = [j \in Job |-> FreeRow]
    /\ unstamped = {}
    /\ status = [s \in Submission |-> "none"]
    /\ worker = [w \in Worker |-> Down]
    /\ starts = 0
    /\ faults = 0

-----------------------------------------------------------------------------
(* Rows *)

Active(j)  == job[j].state \in {"queued", "running"}
Settled(j) == job[j].state \in {"done", "failed"}
NextId(j)  == job[j].state = "free" /\ \A i \in Job : i < j => job[i].state # "free"
Exists(s)  == status[s] \notin {"none", "deleted"}

\* SELECT ... WHERE status = 'queued' AND not_before <= now ORDER BY created_at, id LIMIT 1
ReadyOrRunning(j) == Active(j) /\ ~job[j].later  \* mutant: any row that is not settled
Ready(j)  == job[j].state = "queued" /\ ~job[j].later
Oldest(j) == Ready(j) /\ \A i \in Job : Ready(i) => j <= i

\* The partial unique index uq_jobs_active_dedupe.
KeyTaken(k) == k # None /\ \E i \in Job : Active(i) /\ job[i].key = k

\* UPDATE submissions SET status = v WHERE id = (the submission of row j): it touches
\* nothing when the row has none, or when the row or the submission is gone.
StatusOfRow(j, v) ==
    IF job[j].state # "deleted" /\ job[j].sub # None
    THEN [s \in Submission |-> IF s = job[j].sub /\ Exists(s) THEN v ELSE status[s]]
    ELSE status

\* UPDATE jobs SET status = st WHERE id = j
RowState(j, st) ==
    IF job[j].state = "deleted" THEN job ELSE [job EXCEPT ![j].state = st]

\* The rows reset_running() finds.
InterruptedOrFailed(j) == job[j].state \in {"running", "failed"}  \* mutant
NothingInterrupted(j)  == FALSE  \* mutant: reset_running() is never called
Interrupted(j) == job[j].state = "running"

\* The test `job["attempts"] < self.max_attempts` fails.
OneAttemptMore(w) == worker[w].tries > MaxAttempts  \* mutant
LastAttempt(w)    == worker[w].tries >= MaxAttempts

-----------------------------------------------------------------------------
(* Enqueueing: web requests, services and the worker's own schedulers *)

\* enqueue(), first statement.  The foreign key refuses a submission that is gone.
InsertJob(j, s) ==
    /\ NextId(j)
    /\ Exists(s)
    /\ job' = [job EXCEPT ![j] = NewRow(s, None)]
    /\ unstamped' = unstamped \cup {j}
    /\ UNCHANGED <<status, worker, starts, faults>>

\* enqueue(), second statement: unconditional, in a transaction of its own.
StampQueued(j) ==
    /\ j \in unstamped
    /\ unstamped' = unstamped \ {j}
    /\ status' = StatusOfRow(j, "queued")
    /\ UNCHANGED <<job, worker, starts, faults>>

\* The web process dies between the two statements.
CallerDies(j) ==
    /\ j \in unstamped
    /\ unstamped' = unstamped \ {j}
    /\ UNCHANGED <<job, status, worker, starts, faults>>

\* enqueue_unique(): INSERT ... ON CONFLICT (dedupe_key) DO NOTHING.  A row without a key
\* (a correction's remark job) never conflicts.
EnqueueUnique(j, k) ==
    /\ NextId(j)
    /\ ~KeyTaken(k)
    /\ job' = [job EXCEPT ![j] = NewRow(None, k)]
    /\ UNCHANGED <<unstamped, status, worker, starts, faults>>

-----------------------------------------------------------------------------
(* The worker loop *)

\* A loop begins: reset_running() puts every running row, and its submission, back to
\* queued, whoever is running it.
Start(w) ==
    /\ worker[w].pc = "down"
    /\ starts < MaxStarts
    /\ Overlap \/ \A v \in Worker : worker[v].job = None
    /\ job' = [j \in Job |->
                 IF Interrupted(j) THEN [job[j] EXCEPT !.state = "queued"] ELSE job[j]]
    /\ status' = [s \in Submission |->
                 IF Exists(s) /\ \E j \in Job : Interrupted(j) /\ job[j].sub = s
                 THEN "queued" ELSE status[s]]
    /\ worker' = [worker EXCEPT ![w] = Idle]
    /\ starts' = starts + 1
    /\ UNCHANGED <<unstamped, faults>>

\* The process is killed; only what it wrote survives.  It dies only if it can be started
\* again (MaxStarts).
Crash(w) ==
    /\ worker[w].pc # "down"
    /\ starts < MaxStarts
    /\ worker' = [worker EXCEPT ![w] = Down]
    /\ UNCHANGED <<job, unstamped, status, starts, faults>>

\* Mutant of Claim: an attempt is counted only once it has failed.
ClaimUncounted(w, j) ==
    /\ worker[w].pc = "idle"
    /\ Oldest(j)
    /\ job' = [job EXCEPT ![j].state = "running"]
    /\ status' = StatusOfRow(j, "marking")
    /\ worker' = [worker EXCEPT ![w] = [pc |-> "running", job |-> j, tries |-> job[j].attempts + 1]]
    /\ UNCHANGED <<unstamped, starts, faults>>

\* claim(), and run_once keeping the returned row.
Claim(w, j) ==
    /\ worker[w].pc = "idle"
    /\ Oldest(j)
    /\ job' = [job EXCEPT ![j].state = "running", ![j].attempts = @ + 1]
    /\ status' = StatusOfRow(j, "marking")
    /\ worker' = [worker EXCEPT ![w] = [pc |-> "running", job |-> j, tries |-> job[j].attempts + 1]]
    /\ UNCHANGED <<unstamped, starts, faults>>

\* The runner has done its work, its last write being the submission's status.
RunnerReturns(w, v) ==
    /\ worker[w].pc = "running"
    /\ PromptStamp => worker[w].job \notin unstamped
    /\ status' = StatusOfRow(worker[w].job, v)
    /\ worker' = [worker EXCEPT ![w].pc = "finishing"]
    /\ UNCHANGED <<job, unstamped, starts, faults>>

\* finish(): unconditional, by id.
Finish(w) ==
    /\ worker[w].pc = "finishing"
    /\ job' = RowState(worker[w].job, "done")
    /\ worker' = [worker EXCEPT ![w] = Idle]
    /\ UNCHANGED <<unstamped, status, starts, faults>>

\* Mutant of RetryLater: the key is looked at only when a row is inserted.
RetryLaterUnchecked(w) ==
    /\ worker[w].pc = "running" /\ ~LastAttempt(w)
    /\ PromptStamp => worker[w].job \notin unstamped
    /\ job' = IF job[worker[w].job].state = "deleted" THEN job
              ELSE [job EXCEPT ![worker[w].job].state = "queued", ![worker[w].job].later = TRUE]
    /\ status' = StatusOfRow(worker[w].job, "queued")
    /\ worker' = [worker EXCEPT ![w] = Idle]
    /\ UNCHANGED <<unstamped, starts, faults>>

\* The runner raised something retryable and this attempt was not the last: retry_later().
\* When the row would become active next to another with its key, the index refuses the
\* UPDATE, and run_forever swallows that error.
RetryLater(w) ==
    LET j == worker[w].job
        refused == ~Active(j) /\ KeyTaken(job[j].key)
    IN  /\ worker[w].pc = "running"
        /\ ~LastAttempt(w)
        /\ PromptStamp => j \notin unstamped
        /\ \/ refused /\ UNCHANGED <<job, status>>
           \/ /\ ~refused
              /\ job' = IF job[j].state = "deleted" THEN job
                        ELSE [job EXCEPT ![j].state = "queued", ![j].later = TRUE]
              /\ status' = StatusOfRow(j, "queued")
        /\ worker' = [worker EXCEPT ![w] = Idle]
        /\ UNCHANGED <<unstamped, starts, faults>>

\* Mutant of FailJob: only the row is marked failed.
FailRowOnly(w) ==
    /\ PromptStamp => worker[w].job \notin unstamped
    /\ job' = RowState(worker[w].job, "failed")
    /\ worker' = [worker EXCEPT ![w] = Idle]
    /\ UNCHANGED <<unstamped, status, starts>>

\* fail(): the runner raised something else, or this attempt was the last one.
FailJob(w) ==
    /\ PromptStamp => worker[w].job \notin unstamped
    /\ job' = RowState(worker[w].job, "failed")
    /\ status' = StatusOfRow(worker[w].job, "failed")
    /\ worker' = [worker EXCEPT ![w] = Idle]
    /\ UNCHANGED <<unstamped, starts>>

Fail(w) == worker[w].pc = "running" /\ FailJob(w) /\ UNCHANGED faults

\* A write of the runner's own, or finish() in the same try block, raised a database error,
\* and fail() then went through.
WriteFails(w) ==
    /\ worker[w].pc \in {"running", "finishing"}
    /\ faults < MaxFaults
    /\ FailJob(w)
    /\ faults' = faults + 1

\* The settling write raised too: run_forever logs it and the row stays running.
SettleLost(w) ==
    /\ worker[w].pc \in {"running", "finishing"}
    /\ faults < MaxFaults
    /\ worker' = [worker EXCEPT ![w] = Idle]
    /\ faults' = faults + 1
    /\ UNCHANGED <<job, unstamped, status, starts>>

\* not_before passes.
BackoffOver(j) ==
    /\ job[j].later
    /\ job' = [job EXCEPT ![j].later = FALSE]
    /\ UNCHANGED <<unstamped, status, worker, starts, faults>>

-----------------------------------------------------------------------------
(* Everybody else *)

\* remove_hand_in(): the submission and its rows are deleted in one transaction.
Forget(s) ==
    /\ Exists(s)
    /\ job' = [j \in Job |->
                 IF job[j].sub = s THEN [job[j] EXCEPT !.state = "deleted"] ELSE job[j]]
    /\ status' = [status EXCEPT ![s] = "deleted"]
    /\ UNCHANGED <<unstamped, worker, starts, faults>>

\* create_submission(): INSERT INTO submissions ... 'uploaded'.
Upload(s) ==
    /\ status[s] = "none"
    /\ status' = [status EXCEPT ![s] = "uploaded"]
    /\ UNCHANGED <<job, unstamped, worker, starts, faults>>

\* Resolving or reconciling: the other writers of submissions.status.
OthersWrite(s, v) ==
    /\ Exists(s)
    /\ status' = [status EXCEPT ![s] = v]
    /\ UNCHANGED <<job, unstamped, worker, starts, faults>>

RunnerStep(w) ==
    \/ \E v \in {"needs_you", "done"} : RunnerReturns(w, v)
    \/ RetryLater(w)
    \/ Fail(w)

JobNext ==
    \/ \E j \in Job, s \in Submission : InsertJob(j, s)
    \/ \E j \in Job : StampQueued(j) \/ CallerDies(j) \/ BackoffOver(j)
    \/ \E j \in Job, k \in Key \cup {None} : EnqueueUnique(j, k)
    \/ \E w \in Worker : Start(w) \/ Crash(w) \/ RunnerStep(w) \/ Finish(w)
                           \/ WriteFails(w) \/ SettleLost(w)
    \/ \E w \in Worker, j \in Job : Claim(w, j)
    \/ \E s \in Submission : Forget(s) \/ Upload(s)
    \/ \E s \in Submission, v \in {"needs_you", "done"} : OthersWrite(s, v)

JobSpec == JobInit /\ [][JobNext]_jobVars

-----------------------------------------------------------------------------
(* Properties *)

\* While workers do not overlap, claim() hands a row to one thread only, and a row some
\* thread is working on is `running` unless its submission was removed: no late finish(),
\* retry_later() or fail() can hit a row that another attempt owns.
OneHolder ==
    /\ \A v, w \in Worker : worker[v].job # None /\ worker[v].job = worker[w].job => v = w
    /\ \A w \in Worker : worker[w].job # None =>
          job[worker[w].job].state \in {"running", "deleted"}

\* max_attempts is looked at only when a runner raises, so a job that kills its worker is
\* taken again after every restart.  It is still not taken for ever: each start of a worker
\* buys at most one attempt more, even when workers overlap.
AttemptsBounded ==
    \A j \in Job : job[j].attempts > 0 => job[j].attempts < MaxAttempts + starts

\* At most one active row per dedupe key, whatever reset_running() and the late retry_later() of a
\* worker whose row another one has since settled turn back into an active row, and whatever
\* enqueue_unique() has inserted in between.  (Also with overlapping workers.)
KeyUnique ==
    \A i, j \in Job : Active(i) /\ Active(j) /\ job[i].key = job[j].key /\ job[i].key # None => i = j

\* A submission reads "marking" only while a row of it is running and still has its outcome
\* to write, and "queued" only while a row of it is queued or running: what the teacher sees
\* is never a wait for nobody.  (PromptStamp, and no overlapping workers.)
StatusHasRow ==
    \A s \in Submission :
        /\ status[s] = "marking" =>
              \E j \in Job : /\ job[j].sub = s /\ job[j].state = "running"
                             /\ \A w \in Worker : worker[w].job = j => worker[w].pc = "running"
        /\ status[s] = "queued" =>
              \E j \in Job : /\ job[j].sub = s /\ Active(j)
                             /\ \A w \in Worker : worker[w].job = j => worker[w].pc = "running"

\* A settled row keeps its outcome: it is never queued, run or settled again, only deleted
\* with its submission.  (No overlapping workers.)
SettledStays ==
    [][\A j \in Job : Settled(j) => job'[j].state \in {job[j].state, "deleted"}]_jobVars

\* Every row that is inserted is settled in the end, however often its worker dies.  (With the
\* fairness of a module that runs this queue.)
EveryJobSettles ==
    \A j \in Job : Active(j) ~> ~Active(j)

\* The jobs table and its workers implement the ledger.  (No overlapping workers.)
PlaceOf(j) == IF Settled(j) THEN "settled" ELSE job[j].state
HandOf(w) ==
    IF worker[w].job # None /\ job[worker[w].job].state = "running" THEN worker[w].job ELSE None

Ledger == INSTANCE JobLedger WITH
    place <- [j \in Job |-> PlaceOf(j)],
    takes <- [j \in Job |-> job[j].attempts],
    hand  <- [w \in Worker |-> HandOf(w)]
LedgerSpec == Ledger!Spec
=============================================================================
