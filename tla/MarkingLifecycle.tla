-------------------------- MODULE MarkingLifecycle --------------------------
(***************************************************************************)
(* A script from its upload to `done`: the requests that upload, retry,    *)
(* resolve and remove it, the mark job that marks it, and the deletion of  *)
(* its pages.  JobStore is the queue underneath: every step here is one of *)
(* its steps, or leaves the jobs table and the statuses alone.             *)
(*                                                                         *)
(* Sources: web/routers/submissions.py, web/services/submissions.py        *)
(* (create_submission), worker/mark_job.py, pipeline/marking_pipeline*.py  *)
(* (_persist), web/services/queue.py (resolve_queue_item), pages_cleanup,  *)
(* class_assignments.py (remove_hand_in), cli.py (_queue_resolve).         *)
(*                                                                         *)
(* Left out: the marks themselves; which page or file is which (a script's *)
(* pages are one thing, deleted together); the other job kinds.            *)
(***************************************************************************)
EXTENDS JobStore

CONSTANTS
    Client,       \* concurrent web requests (or CLI invocations)
    Part,         \* the parts of a script that may be escalated to the teacher
    MaxRuns,      \* bound: marking runs ever persisted
    Pipeline,     \* "v1": run and queue items in a transaction each; "v2": in one
    Media,        \* what a script is uploaded as: pages, files or both
    Retention,    \* what is kept of a script that is done: "crops", "pages" or "none"
    SerialRetry,  \* is a retry answered before the next one of the script is sent?
    RequestsDie,  \* may the web process die in the middle of a request?
    CliAllowed    \* does anybody resolve items with `sms queue resolve`?

ASSUME LifeAssumption ==
    /\ MaxRuns \in Nat
    /\ Pipeline \in {"v1", "v2"}
    /\ Media \in (SUBSET {"page", "file"}) \ {{}}
    /\ Retention \in {"crops", "pages", "none"}
    /\ SerialRetry \in BOOLEAN /\ RequestsDie \in BOOLEAN /\ CliAllowed \in BOOLEAN

VARIABLES
    minted,       \* run ids drawn so far
    runSub,       \* marking_runs: [Run -> its submission; None: no such row]
    item,         \* teacher_queue: [Run \X Part -> state of the escalated part's item]
    corrections,  \* teacher_corrections: [Run \X Part -> rows for that part]
    runOf,        \* submissions.run_id
    left,         \* [Submission -> the media of it that are not deleted]
    mark,         \* [Worker -> how far its mark job has got]
    sweep,        \* [Worker -> scripts its page sweep has listed and not yet handled]
    request       \* [Client -> what its request still has to do]

lifeVars == <<jobVars, minted, runSub, item, corrections, runOf, left, mark, sweep, request>>

Run  == 1 .. MaxRuns
Item == Run \X Part
MarkState == [step : {"off", "begin", "read", "stored", "cropped", "tidy"},
              run : Run \cup {None}, todo : SUBSET Part, esc : BOOLEAN]
Request == [op : {"idle", "enqueue", "reconcile", "remove", "cliMark", "cliCorrect"},
            sub : Submission \cup {None}, item : Item \cup {None}]

MarkOff == [step |-> "off", run |-> None, todo |-> {}, esc |-> FALSE]
NoRequest == [op |-> "idle", sub |-> None, item |-> None]
TodoAsItem(op, s) == [NoRequest EXCEPT !.op = op, !.item = s]  \* mutant
Todo(op, s) == [NoRequest EXCEPT !.op = op, !.sub = s]

LifeTypeOK ==
    /\ JobTypeOK
    /\ minted \in 0 .. MaxRuns
    /\ runSub \in [Run -> Submission \cup {None}]
    /\ item \in [Item -> {"none", "pending", "resolved"}]
    /\ corrections \in [Item -> Nat]
    /\ runOf \in [Submission -> Run \cup {None}]
    /\ left \in [Submission -> SUBSET {"page", "file", "crop"}]
    /\ mark \in [Worker -> MarkState]
    /\ sweep \in [Worker -> SUBSET Submission]
    /\ request \in [Client -> Request]

LifeInit ==
    /\ JobInit
    /\ minted = 0
    /\ runSub = [r \in Run |-> None]
    /\ item = [i \in Item |-> "none"]
    /\ corrections = [i \in Item |-> 0]
    /\ runOf = [s \in Submission |-> None]
    /\ left = [s \in Submission |-> {}]
    /\ mark = [w \in Worker |-> MarkOff]
    /\ sweep = [w \in Worker |-> {}]
    /\ request = [c \in Client |-> NoRequest]

-----------------------------------------------------------------------------
(* Tables *)

PendingItems(s) == {i \in Item : item[i] = "pending" /\ runSub[i[1]] = s}

\* job_for_submission(): ORDER BY id DESC LIMIT 1
Newest(j, s) ==
    /\ job[j].sub = s /\ job[j].state \notin {"free", "deleted"}
    /\ \A i \in Job : job[i].sub = s => i <= j
ScriptOf(w) == job[worker[w].job].sub

\* delete_submission_pages(), reconcile_done() and resolve_queue_item() do not delete the same
\* things: only the first looks at the crops, and the last leaves the files to the sweep.
AllMedia  == {"page", "file"} \cup (IF Retention = "none" THEN {"crop"} ELSE {})
Deleted(s, media) ==
    IF Retention = "pages" THEN left ELSE [left EXCEPT ![s] = @ \ media]

\* RECONCILE_DONE_SQL: one conditional UPDATE.
NeedsYou(s)     == status[s] = "needs_you"  \* mutant: without AND NOT EXISTS
NeedsHealing(s) == status[s] = "needs_you" /\ PendingItems(s) = {}
Reconcile(s) ==
    \/ /\ NeedsHealing(s)
       /\ OthersWrite(s, "done")
       /\ left' = Deleted(s, {"page", "file"})
    \/ /\ ~NeedsHealing(s)
       /\ UNCHANGED <<jobVars, left>>

-----------------------------------------------------------------------------
(* Requests *)

\* create_submission(): the transaction; the job is enqueued after it.
CreateSubmission(c, s) ==
    /\ request[c].op = "idle"
    /\ Upload(s)
    /\ left' = [left EXCEPT ![s] = Media]
    /\ request' = [request EXCEPT ![c] = Todo("enqueue", s)]
    /\ UNCHANGED <<minted, runSub, item, corrections, runOf, mark, sweep>>

\* Mutants of Retry: without its check; with the status of the script checked, not its job's.
RetryUnchecked(c, s) ==
    /\ request[c].op = "idle"
    /\ Exists(s)
    /\ request' = [request EXCEPT ![c] = Todo("enqueue", s)]
    /\ UNCHANGED <<jobVars, minted, runSub, item, corrections, runOf, left, mark, sweep>>
RetryByStatus(c, s) ==
    /\ request[c].op = "idle"
    /\ status[s] = "failed"
    /\ SerialRetry => \A d \in Client : request[d] # Todo("enqueue", s)
    /\ request' = [request EXCEPT ![c] = Todo("enqueue", s)]
    /\ UNCHANGED <<jobVars, minted, runSub, item, corrections, runOf, left, mark, sweep>>

\* POST /api/submissions/{id}/retry: the check, then (EnqueueMark) the job.
Retry(c, s) ==
    /\ request[c].op = "idle"
    /\ \E j \in Job : Newest(j, s) /\ job[j].state = "failed"
    /\ SerialRetry => \A d \in Client : request[d] # Todo("enqueue", s)
    /\ request' = [request EXCEPT ![c] = Todo("enqueue", s)]
    /\ UNCHANGED <<jobVars, minted, runSub, item, corrections, runOf, left, mark, sweep>>

\* jobs.enqueue("mark", sid).  For a submission that is gone the foreign key raises.
EnqueueMark(c) ==
    /\ request[c].op = "enqueue"
    /\ \/ \E j \in Job : InsertJob(j, request[c].sub)
       \/ ~Exists(request[c].sub) /\ UNCHANGED jobVars
    /\ request' = [request EXCEPT ![c] = NoRequest]
    /\ UNCHANGED <<minted, runSub, item, corrections, runOf, left, mark, sweep>>

\* What resolving item i makes of its submission, counting the pending items of all its runs.
OutcomeOffByOne(s, i) ==  \* mutant: done while one more item is pending
    IF \E k \in Item : PendingItems(s) \subseteq {i, k} THEN "done" ELSE "needs_you"
Outcome(s, i) == IF PendingItems(s) = {i} THEN "done" ELSE "needs_you"

\* UPDATE teacher_queue ... WHERE id = i AND status = 'pending'; the run must be there too.
NotDeleted(i) == item[i] # "none" /\ runSub[i[1]] # None  \* mutant
Resolvable(i) == item[i] = "pending" /\ runSub[i[1]] # None

\* resolve_queue_item(): one transaction.  It counts what is left of the submission, of any
\* run, and writes its status whatever it was.
Resolve(c, i) ==
    LET s == runSub[i[1]]
        outcome == Outcome(s, i)
    IN  /\ request[c].op = "idle"
        /\ Resolvable(i)
        /\ item' = [item EXCEPT ![i] = "resolved"]
        /\ corrections' = [corrections EXCEPT ![i] = @ + 1]
        /\ IF Exists(s) THEN OthersWrite(s, outcome) ELSE UNCHANGED jobVars
        /\ left' = IF outcome = "done" THEN Deleted(s, {"page"}) ELSE left
        /\ request' = IF outcome = "done" THEN request
                      ELSE [request EXCEPT ![c] = Todo("reconcile", s)]
        /\ UNCHANGED <<minted, runSub, runOf, mark, sweep>>

\* ... and its reconcile pass, after the commit.
ReconcileAfter(c) ==
    /\ request[c].op = "reconcile"
    /\ Reconcile(request[c].sub)
    /\ request' = [request EXCEPT ![c] = NoRequest]
    /\ UNCHANGED <<minted, runSub, item, corrections, runOf, mark, sweep>>

\* remove_hand_in(): the check, then the transaction that deletes.
RemoveCheck(c, s) ==
    /\ request[c].op = "idle"
    /\ Exists(s)
    /\ ~\E j \in Job : job[j].sub = s /\ job[j].state = "running"
    /\ request' = [request EXCEPT ![c] = Todo("remove", s)]
    /\ UNCHANGED <<jobVars, minted, runSub, item, corrections, runOf, left, mark, sweep>>

RemoveHandIn(c) ==
    LET s == request[c].sub
    IN  /\ request[c].op = "remove"
        /\ IF Exists(s) THEN Forget(s) ELSE UNCHANGED jobVars
        /\ item' = [i \in Item |-> IF runSub[i[1]] = s THEN "none" ELSE item[i]]
        /\ runSub' = [r \in Run |-> IF runSub[r] = s THEN None ELSE runSub[r]]
        /\ runOf' = [runOf EXCEPT ![s] = None]
        /\ left' = [left EXCEPT ![s] = {}]
        /\ request' = [request EXCEPT ![c] = NoRequest]
        /\ UNCHANGED <<minted, corrections, mark, sweep>>

\* sms queue resolve: three statements, the UPDATE without the check, and no status written.
CliCheck(c, i) ==
    /\ CliAllowed
    /\ request[c].op = "idle"
    /\ item[i] = "pending"
    /\ request' = [request EXCEPT ![c] = [NoRequest EXCEPT !.op = "cliMark", !.item = i]]
    /\ UNCHANGED <<jobVars, minted, runSub, item, corrections, runOf, left, mark, sweep>>

CliMark(c) ==
    LET i == request[c].item
    IN  /\ request[c].op = "cliMark"
        /\ item' = IF item[i] = "none" THEN item ELSE [item EXCEPT ![i] = "resolved"]
        /\ request' = [request EXCEPT ![c].op = "cliCorrect"]
        /\ UNCHANGED <<jobVars, minted, runSub, corrections, runOf, left, mark, sweep>>

CliCorrect(c) ==
    /\ request[c].op = "cliCorrect"
    /\ corrections' = [corrections EXCEPT ![request[c].item] = @ + 1]
    /\ request' = [request EXCEPT ![c] = NoRequest]
    /\ UNCHANGED <<jobVars, minted, runSub, item, runOf, left, mark, sweep>>

\* The process dies in the middle of a request.
RequestDies(c) ==
    /\ RequestsDie
    /\ request[c].op # "idle"
    /\ request' = [request EXCEPT ![c] = NoRequest]
    /\ UNCHANGED <<jobVars, minted, runSub, item, corrections, runOf, left, mark, sweep>>

-----------------------------------------------------------------------------
(* The mark job *)

At(w, step) == worker[w].pc = "running" /\ mark[w].step = step
Goto(w, step) == mark' = [mark EXCEPT ![w].step = step]
Over(w) == mark' = [mark EXCEPT ![w] = MarkOff]

ClaimMark(w, j) ==
    /\ sweep[w] = {}
    /\ Claim(w, j)
    /\ Goto(w, "begin")
    /\ UNCHANGED <<minted, runSub, item, corrections, runOf, left, sweep, request>>

\* run_mark_job() reads the script; it refuses one that is gone or that has lost its media.
Read(w) ==
    /\ At(w, "begin")
    /\ Exists(ScriptOf(w))
    /\ Media \subseteq left[ScriptOf(w)]
    /\ Goto(w, "read")
    /\ UNCHANGED <<jobVars, minted, runSub, item, corrections, runOf, left, sweep, request>>

\* _persist(): the run and the items of the escalated parts.  v1 writes the run first, then
\* the items one at a time.  Nothing ties either row to the submission's.
Persist(w, escalated) ==
    LET r == minted + 1
    IN  /\ At(w, "read")
        /\ r \in Run
        /\ minted' = r
        /\ runSub' = [runSub EXCEPT ![r] = ScriptOf(w)]
        /\ item' = IF Pipeline = "v1" THEN item
                   ELSE [i \in Item |-> IF i[1] = r /\ i[2] \in escalated THEN "pending" ELSE item[i]]
        /\ mark' = [mark EXCEPT ![w] = [step |-> "stored", run |-> r, esc |-> escalated # {},
                                        todo |-> IF Pipeline = "v1" THEN escalated ELSE {}]]
        /\ UNCHANGED <<jobVars, corrections, runOf, left, sweep, request>>

PersistItem(w, p) ==
    /\ At(w, "stored")
    /\ p \in mark[w].todo
    /\ item' = [item EXCEPT ![<<mark[w].run, p>>] = "pending"]
    /\ mark' = [mark EXCEPT ![w].todo = @ \ {p}]
    /\ UNCHANGED <<jobVars, minted, runSub, corrections, runOf, left, sweep, request>>

\* store_part_crops(), for a v2 script with pages; a failure is logged and forgotten.
StoreCrops(w) ==
    LET s == ScriptOf(w)
    IN  /\ At(w, "stored") /\ mark[w].todo = {}
        /\ \/ Pipeline = "v2" /\ "page" \in Media /\ Exists(s)
              /\ left' = [left EXCEPT ![s] = @ \cup {"crop"}]
           \/ UNCHANGED left
        /\ Goto(w, "cropped")
        /\ UNCHANGED <<jobVars, minted, runSub, item, corrections, runOf, sweep, request>>

\* Mutant of Record: only the status is written.
RecordStatus(w) ==
    /\ At(w, "cropped")
    /\ RunnerReturns(w, IF mark[w].esc THEN "needs_you" ELSE "done")
    /\ IF mark[w].esc THEN Over(w) ELSE Goto(w, "tidy")
    /\ UNCHANGED <<minted, runSub, item, corrections, runOf, left, sweep, request>>

\* The last UPDATE: status and run_id, whatever has happened to the script meanwhile.
Record(w) ==
    LET s == ScriptOf(w)
    IN  /\ At(w, "cropped")
        /\ RunnerReturns(w, IF mark[w].esc THEN "needs_you" ELSE "done")
        /\ runOf' = IF Exists(s) THEN [runOf EXCEPT ![s] = mark[w].run] ELSE runOf
        /\ IF mark[w].esc THEN Over(w) ELSE Goto(w, "tidy")
        /\ UNCHANGED <<minted, runSub, item, corrections, left, sweep, request>>

\* delete_submission_pages() at the end of a job with nothing to review.
Tidy(w) ==
    /\ worker[w].pc = "finishing" /\ mark[w].step = "tidy"
    /\ left' = Deleted(ScriptOf(w), AllMedia)
    /\ Over(w)
    /\ UNCHANGED <<jobVars, minted, runSub, item, corrections, runOf, sweep, request>>

\* ... a database error in it is logged: the job is done all the same.
TidyFails(w) ==
    /\ worker[w].pc = "finishing" /\ mark[w].step = "tidy"
    /\ faults < MaxFaults
    /\ Over(w)
    /\ UNCHANGED <<jobVars, minted, runSub, item, corrections, runOf, left, sweep, request>>

Settle(w) ==
    /\ mark[w].step # "tidy"
    /\ \/ Finish(w)
       \/ mark[w].step \in {"begin", "read"} /\ Fail(w)  \* no key, no script, a bad answer
       \/ mark[w].step = "read" /\ RetryLater(w)          \* a provider time-out or overload
       \/ mark[w].step \in {"stored", "cropped", "off"} /\ WriteFails(w)
       \/ SettleLost(w)
    /\ Over(w)
    /\ UNCHANGED <<minted, runSub, item, corrections, runOf, left, sweep, request>>

-----------------------------------------------------------------------------
(* The worker's hourly sweep, between jobs *)

NoSweepReconcile(w, s) == worker[w].pc = "idle" /\ FALSE /\ UNCHANGED lifeVars  \* mutant
SweepReconcile(w, s) ==
    /\ worker[w].pc = "idle" /\ sweep[w] = {}
    /\ NeedsHealing(s)
    /\ Reconcile(s)
    /\ UNCHANGED <<minted, runSub, item, corrections, runOf, mark, sweep, request>>

\* What the sweep looks for.
OnlyPages == {"page"}  \* mutant: from before program files could be handed in
Swept     == {"page", "file"}

\* Scripts done for a day that still have pages or files; that a day has passed is left out,
\* so a script may be listed as soon as it is done.
SweepList(w) ==
    LET stale == {s \in Submission : status[s] = "done" /\ left[s] \cap Swept # {}}
    IN  /\ worker[w].pc = "idle" /\ sweep[w] = {}
        /\ stale # {}
        /\ sweep' = [sweep EXCEPT ![w] = stale]
        /\ UNCHANGED <<jobVars, minted, runSub, item, corrections, runOf, left, mark, request>>

SweepDelete(w, s) ==
    /\ s \in sweep[w]
    /\ left' = Deleted(s, AllMedia)
    /\ sweep' = [sweep EXCEPT ![w] = @ \ {s}]
    /\ UNCHANGED <<jobVars, minted, runSub, item, corrections, runOf, mark, request>>

-----------------------------------------------------------------------------
(* The process *)

StartWorker(w) ==
    /\ Start(w)
    /\ UNCHANGED <<minted, runSub, item, corrections, runOf, left, mark, sweep, request>>

CrashWorker(w) ==
    /\ Crash(w)
    /\ Over(w)
    /\ sweep' = [sweep EXCEPT ![w] = {}]
    /\ UNCHANGED <<minted, runSub, item, corrections, runOf, left, request>>

Elapse(j) ==
    /\ StampQueued(j) \/ BackoffOver(j) \/ (RequestsDie /\ CallerDies(j))
    /\ UNCHANGED <<minted, runSub, item, corrections, runOf, left, mark, sweep, request>>

MarkStep(w) ==
    \/ Read(w) \/ StoreCrops(w) \/ Record(w) \/ Tidy(w) \/ TidyFails(w) \/ Settle(w)
    \/ \E escalated \in SUBSET Part : Persist(w, escalated)
    \/ \E p \in Part : PersistItem(w, p)

SweepStep(w) ==
    \/ SweepList(w)
    \/ \E s \in Submission : SweepReconcile(w, s) \/ SweepDelete(w, s)

RequestStep(c) ==
    \/ EnqueueMark(c) \/ ReconcileAfter(c) \/ RemoveHandIn(c) \/ CliMark(c) \/ CliCorrect(c)

NewRequest(c) ==
    \/ \E s \in Submission : CreateSubmission(c, s) \/ Retry(c, s) \/ RemoveCheck(c, s)
    \/ \E i \in Item : Resolve(c, i) \/ CliCheck(c, i)

LifeNext ==
    \/ \E c \in Client : NewRequest(c) \/ RequestStep(c) \/ RequestDies(c)
    \/ \E w \in Worker : MarkStep(w) \/ SweepStep(w) \/ StartWorker(w) \/ CrashWorker(w)
    \/ \E w \in Worker, j \in Job : ClaimMark(w, j)
    \/ \E j \in Job : Elapse(j)

LifeSpec == LifeInit /\ [][LifeNext]_lifeVars

\* Nobody has to send a request; one that was sent is carried out, unless its process dies.
\* The worker loop goes on: it restarts, claims, runs its job to an end (every provider call
\* has a time-out) and, between jobs, sweeps.
LifeFairness ==
    /\ \A c \in Client : WF_lifeVars(RequestStep(c))
    /\ \A w \in Worker : /\ WF_lifeVars(StartWorker(w))
                         /\ WF_lifeVars(MarkStep(w))
                         /\ WF_lifeVars(\E j \in Job : ClaimMark(w, j))
                         /\ \A s \in Submission : /\ WF_lifeVars(SweepReconcile(w, s))
                                                  /\ WF_lifeVars(SweepDelete(w, s))
                         /\ WF_lifeVars(SweepList(w))
    /\ \A j \in Job : WF_lifeVars(Elapse(j))

FairLifeSpec == LifeSpec /\ LifeFairness

-----------------------------------------------------------------------------
(* Properties *)

\* The teacher decides each escalated part once: an item that is resolved has exactly one
\* correction, a pending one has none, whoever resolves it at the same time and however often
\* the script is marked, retried or removed.  (Not with `sms queue resolve`.)
OneDecisionPerItem ==
    \A i \in Item :
        /\ corrections[i] \in {0, 1}
        /\ item[i] = "resolved" => corrections[i] = 1
        /\ item[i] = "pending" => corrections[i] = 0

\* pages_cleanup: a script reaches `done` when nothing of it is left to review.
DoneMeansDecided ==
    \A s \in Submission : status[s] = "done" => PendingItems(s) = {}

\* The teacher can look at what they are asked to decide: nothing that was uploaded of a
\* script is deleted while an item of it is pending.
PendingKeepsMedia ==
    \A s \in Submission : PendingItems(s) # {} /\ Exists(s) => Media \subseteq left[s]

\* Once no job of a script is active, a script that reads `needs_you` or `done` points at a
\* marking run of its own, the one whose marks the teacher and the student are shown.
MarkedHasRun ==
    \A s \in Submission :
        /\ status[s] \in {"needs_you", "done"}
        /\ \A j \in Job : job[j].sub = s => ~Active(j)
        => runOf[s] \in Run /\ runSub[runOf[s]] = s

\* A script has one active mark job at most: it is never marked twice at once.
OneActiveJob ==
    \A i, j \in Job : Active(i) /\ Active(j) /\ job[i].sub = job[j].sub /\ job[i].sub # None => i = j

\* A script is marked by one job at a time, and what its status says then holds: nothing of one
\* that is done is left to decide, and one that is marked has the run it points at.
OutcomeHolds == OneActiveJob /\ DoneMeansDecided /\ MarkedHasRun

\* A script with a failed job, and only such a script, is queued again: after its first row, a
\* row is added to a script only while its newest row is failed.
RetryRequeuesFailed ==
    [][\A j \in Job : job[j].state = "free" /\ job'[j].state # "free" =>
          \A i \in Job : Newest(i, job'[j].sub) => job[i].state = "failed"]_lifeVars

\* Every script that was uploaded gets an outcome, if its uploader's request ran to its end.
EveryScriptIsMarked ==
    \A s \in Submission : status[s] \in {"uploaded", "queued", "marking"} ~>
                          status[s] \notin {"uploaded", "queued", "marking"}

\* Marking ends: no job is left queued or running, and no script without an outcome.
MarkingEnds == EveryJobSettles /\ EveryScriptIsMarked

\* No script waits for the teacher with nothing to decide, though Record may write "needs_you"
\* after the last item was resolved.
NothingPendingHeals ==
    \A s \in Submission : NeedsHealing(s) ~> ~NeedsHealing(s)

\* The pages and the files of a script that stays done are deleted in the end, also when
\* resolving it left its files or a deletion failed.
DoneIsSwept ==
    \A s \in Submission :
        status[s] = "done" /\ Retention # "pages" ~> left[s] \cap {"page", "file"} = {} \/ status[s] # "done"

\* What a crash or a race left behind is made good by the sweep: scripts with nothing to decide
\* become done, and the media of those that are done go.
SweepMakesGood == NothingPendingHeals /\ DoneIsSwept

\* With retention "none", so are its answer crops.
NoneKeepsNothing ==
    \A s \in Submission :
        status[s] = "done" /\ Retention = "none" ~> left[s] = {} \/ status[s] # "done"
=============================================================================
