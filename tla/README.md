# Smart Marking System — specifications and proofs

A teacher uploads (or students hand in) scripts; language models transcribe and mark them;
parts the models are unsure about are escalated to the teacher; feedback is released to the class.
The program is one FastAPI process with an embedded worker thread, a relational database (SQLite or
Postgres) that is also the job queue, and a content-addressed file store. The interesting part is
everything that happens between requests, the worker, restarts and the database, and the arithmetic
that turns what models answer into marks; that is what the modules here are about.

## 1. Inventory

| Part (under `src/src/sms/`) | State | Operations | Talks to |
|---|---|---|---|
| Job queue (`worker/jobs.py`) | `jobs` rows: kind, submission, dedupe key, status, attempts, not_before; writes `submissions.status` | enqueue, enqueue_unique, claim, finish, retry_later, fail, reset_running | every service that starts work; the worker |
| Worker loop (`worker/worker.py`) | the row it holds; timers of its housekeeping | run_once, run_forever, start_thread; hourly page sweep, nightly reflection, Telegram tick | jobs, all runners |
| Scripts (`web/services/submissions.py`, `web/routers/submissions.py`) | `submissions` (status, run_id), `pages`, `submission_files` | create, retry, read | jobs, storage |
| Pipelines (`worker/mark_job.py`, `pipeline/`) | `marking_runs`, marks, `teacher_queue`, `part_crops` | run_mark_job, merge with the reviewer, `_persist`, store_part_crops | providers, storage |
| Review queue (`web/services/queue.py`, `cli.py`) | `teacher_queue`, `teacher_corrections` | resolve_queue_item, `sms queue resolve`; totals, detail, record | submissions, pages_cleanup, notify |
| Page storage (`storage.py`, `web/services/pages_cleanup.py`, `crops.py`) | files named by their hash; rows of pages, crops, files and their `deleted_at` | put, delete_submission_pages, reconcile_done, sweep, unlink | every upload and removal |
| Class assignments (`web/services/class_assignments.py`, `student.py`) | `class_assignments` (draft, open, released), hand-ins | set, update, delete, hand in, remove, release, class upload, marks CSV | submissions, insights |
| Classes (`web/services/classlist.py`) | `students` | replace a class list | class assignments |
| Intake (`files/intake.py`, `files/bulk.py`) | none | sort an upload into pages and files, unpack zips, caps, match a class zip | submissions, class assignments |
| Student corrections (`web/services/student_corrections.py`, `worker/remark_job.py`) | `student_corrections` | submit, re-mark, decide, release | jobs, pages |
| Assignment bank (`web/services/assignments.py`, `worker/extract_jobs.py`, `AssignmentEditor.tsx`) | `assignment_templates`, `assignment_pages`; what an editor tab shows | create, save, copy, import, delete, upload, read paper and scheme | jobs, marking |
| Settings and models (`providers/settings.py`, `web/routers/settings.py`, `setup.py`, `subject_models.py`) | the settings row, `provider_keys`, `subject_models`, the pin of a template | setup, save, keys, defaults, for_template | every job that calls a model |
| Notifications (`web/services/notify.py`, `telegram.py`) | `notifications` outbox, announced drains, the bot, its chat and update cursor | record_hand_in, on_mark_settled, flush, daily digest, poll_updates | Telegram |
| Insights (`web/services/insights.py`, `worker/insights_job.py`) | `insights_reports` | enqueue, generate; class statistics | jobs |
| Reflection (`worker/reflect_job.py`, `learning/`) | `reflection_runs`, learned notes, exemplars | nightly scheduler, run, approve | jobs |
| Rate limits (`providers/ratelimit.py`, `web/deps.py`) | stamps of recent calls; failed sign-ins per address | acquire; blocked, record_failure | providers, sign-in |
| Marking room, exports, agents, the rest of the web client | append-only rows, or no state | polling, formatting, model calls | — |

`PROJECT.json` lists every one of them under `components`, with what is modelled of it and why the
rest is not.

What is hard here:

* **two writers of one status.** `submissions.status` is written by the queue, the mark job, the
  teacher's decisions, the reconcile pass and enqueue's second statement, mostly without looking at
  what it was;
* **check, then act.** Retry, removal, CLI resolve, corrections, releases and key deletion read in one
  statement and write in another; an editor tab writes back a whole row it read minutes ago;
* **restarts.** A worker that dies leaves a row `running`; every loop that starts re-queues all such
  rows, also those a live worker is running; messages are sent before they are stamped;
* **reruns.** A job that is run again persists a second marking run beside the first;
* **sharing.** Files are known by their hash, and three tables share them; four paths to "done"
  delete them, which do not delete the same things, and unlink after their transaction;
* **models answer anything.** The merge of marker and reviewer must produce marks that add up, and
  send whatever is in doubt to the teacher, for every answer the schemas let through;
* **time windows** over corrections, runs and calls, where an event at the edge is left out or counted twice.

The list with lines is `hazards` in `PROJECT.json`.

## 2. Modules

### The queue and what is built on it

**JobLedger** is what the queue promises while one worker process runs at a time: a row is taken by
one hand, comes back to the queue only from that hand or when no hand holds anything, and a settled
row is never taken again. **JobStore** is `worker/jobs.py` and the claim / run / settle loop of
`worker/worker.py`, and implements it.

| Variable of `JobStore` | Code |
|---|---|
| `job` | the `jobs` table; the row id is its place in `ORDER BY created_at, id`; `later` is `not_before > now` |
| `unstamped` | calls of `enqueue()` between their two statements |
| `status` | `submissions.status` (`none`: not uploaded, `deleted`: removed) |
| `worker` | per thread: down, idle, running a runner, or between the runner's return and `finish()`; `tries` is the `attempts` of the row as `claim()` returned it |
| `starts`, `faults` | counters that bound restarts and database errors |

One action per statement or `with db.transaction()` block. `Start` is a loop that begins
(`reset_running`), `Claim` is `claim`, `RunnerReturns` / `RetryLater` / `Fail` are the three ways a runner
ends, `Finish` is `finish`, `WriteFails` and `SettleLost` are a database error in a runner's last write and in
the settling write itself, `Crash` is a killed process. `Forget`, `Upload` and `OthersWrite` are the
rest of the program seen from the queue.

**MarkingLifecycle** extends it: every step is one of its steps or leaves its variables alone (theorem
`MarkingUsesQueue`). It adds the tables of a script's life — marking runs (`minted`, `runSub`), queue
items (`item`), decisions (`corrections`), `submissions.run_id` (`runOf`), undeleted media (`left`) — and
the local state of those who work on them: how far a mark job has got (`mark`), what a page sweep has
listed (`sweep`), what a request still has to do (`request`). The v1 pipeline writes a run and
each of its items in transactions of their own, v2 in one: constant `Pipeline`.

**StudentCorrections** extends `JobStore` with the student's corrections after release: their rows (`corr`), the
photo of each (`photo`), which correction a remark job is about (`about`), how far the job has got (`remark`), and
what a request has checked and still has to write (`request`).

| Action | Code |
|---|---|
| `SendCheck`, `SendCommit` | `submit_correction`: its checks, and its transaction (page, correction, remark job) |
| `ClaimRemark`, `Begin`, `Store`, `RecordError`, `Raise`, `Settle` | `run_remark_job` and the loop around it; both its UPDATEs say `AND status = 'submitted'` |
| `DecideCheck`, `DecideWrite` | `decide`, accepting or overriding: the row is checked, then written by id |
| `Reject`, `ReleaseCorrections` | `decide`, rejecting, and `release_corrections`: one transaction each, with the photos |
| `ScriptComes`, `ScriptGoes`, `WindowMoves` | marking, removal and the reflection window, seen from here |

**ClassSet** is one assignment of one class: its status (`ca`), the stamp of the announced drain (`notified`), each
student's script, the insights job and its report, the `marking_done` rows (`told`: the settled scripts each was
counted from). A script here is marked by one worker at a time, as `JobsAreExclusive` proves of the queue, so jobs
are not rows. Requests that read, then write have a step for each; `CountDrain`, `ReportDrain`, `ClaimDrain`,
`Announce` are the four statements of `on_mark_settled`, `Insert`, `Rearm`, `Enqueue` the three of
`create_submission`.

### What an office day decides: MCOffice

**SchemeMarks** and **CriteriaMarks** are the two pipelines as pure operators: `Normalise` a marker's part
against its row, merge it with the reviewer's verdict (`MergeOne`, first reason wins), give marks back under the
double-penalty rule, and the totals with and without what is still to review. **MarkedScript** is the state around
them: a script is read, marked, checked, merged, stored, and its queue answered item by item; `Totals`,
`RecordRows` and the detail read it back. Marker and reviewer may answer whatever the schemas let through. **ClassMarks**
reads it back as the class views do, which sum the marks again: the CSV's columns, cells and total after reflection
(`PartColumns`, `FinalMarkByKey`, `AfterReflectionTotal`), and the marks and score bands of the statistics
(`PartMarks`, `BandOf`, `BandSpan`).

**ModelChoice** is which provider a job calls. `settings`, `key`, `default` and `pin` are the settings row and the
three tables laid over it; `call` is a job's three reads and its call; a `request` is a client between its checks and
its write. What is picked, for any of the three, is a provider, its model and a reading model, which the picker keeps
from the provider before (`Picks`), so a call may name another provider's reading model; `OneProvider` says that it is
then the one that was saved with that choice, and that `_overlay` never puts one together from two. `Setup` and
`Restart` include a redeploy with another SECRET_KEY or without TEACHER_PASSWORD.

**Intake** sorts an upload (`classify_uploads`, `_expand_zip`, `match_entries`) and **BulkHandIn** extends it: a class
upload student by student (`BulkStudent`, `BulkClear`, `BulkRemove`, `BulkCheck`, `BulkStore`), hand-ins by phone and
by form, removals, and class lists replaced at any step of these, all side by side. `struck` is a history: the
students whom a class list took off while a request had them to hand in for. A script is inserted without another look
at the list, so theirs may have a student who is nowhere; nobody else's may (`NoneStruckWithWork`).

**MCOffice** extends the marks and the choice and instantiates the class upload. They share no state, so its `which`
says which of them moves in a behaviour, and the other two rest in their initial state; what is explored of each is
what its own specification allows.

### What goes on in the background: MCBackground

**AssignmentBank**: a template's rows as the shape they have and the reading they descend from (`tpl`), its uploads
(`pages`), its extraction jobs (`job`), the editor tabs with what they loaded and know (`tab`), the scripts marked
against it. **PageStore**: files on the disk (`disk`), the rows that name them (`rows`, `deleted`), what each
script keeps (`keep`), and requests that store first and insert later or delete first and unlink later
(`request`). **NotifyOutbox**: the rows (`note`), what went out (`told`), the tick of the worker with what it
has read and not yet stamped (`tick`), the bot with chat and cursor (`bot`), the updates Telegram holds for it
(`inbox`). **ReflectionSchedule**: corrections and runs by their age, the job over its attempts.
**CallLimits**: the job that runs, a sliding window per provider, and a history (`log`) of what came to each provider
in the last minute, calls and ends of windows in their order.

**MCBackground** instantiates the five, with a name for each, and lets one move per behaviour. Those too large in one
piece move in modes: the bank with its editor and readings (`editor`), its editor and scripts (`scripts`), copies
(`copies`); the outbox for messages (`tell`), the digest (`digest`), the linking of the bot (`link`); the
reflection `nightly` and `asked`. A mode holds still what the others move, so a race of, say, a copy with a
reading is not explored; within a mode everything interleaves.

### MC and proof modules

`MCJobStore`, `MCMarkingLifecycle`, `MCStudentCorrections`, `MCClassSet`, `MCMarkedScript` (the schemes and answers
explored) and `MCNotifyOutbox` hold the values TLC is given. `MCOverlap` is the run of overlapping workers, which work
on the corrections or, in other behaviours, on the bare queue with any rows and keys. The theorems are in
`JobStoreProofs`, `MarkingProofs` and `CorrectionProofs` (which extend it), `ClassProofs`, for the parts of
`MCBackground` `BackgroundProofs` and `BankProofs`, and for those of `MCOffice` `OfficeProofs` (models and class
uploads) and `MarkedScriptProofs` (section 5).

### Abstractions a reader should know of

A transaction is one step; on Postgres at READ COMMITTED two of them (`reset_running`, `remove_hand_in`) read and
write in several statements, whose interleavings are not explored. Payloads, texts and times are left out, except
that a row may lie in the future. `heartbeat`, the stage events of the marking room and the model stamp of a run
change nothing the modelled parts read. The 24 hours the sweep waits are left out, so it may come at any time.

## 3. Runs

Nine runs must pass and three must find a violation. A property is often a conjunction of named parts, each with
a comment of its own where it is defined; the table names both.

| Run | Properties (and their parts) | Bounds |
|---|---|---|
| `jobs_one_worker` | `OneHolder`, `SettledStays`, `StatusHasRow`, and `LedgerSpec`: the queue implements the ledger | 2 scripts, 2 rows and 1 key, 2 threads, 3 starts, 1 database error, 2 attempts: a retry, a crash, a lost settling write and a removal |
| `mark_quiet` | `OutcomeHolds` (`OneActiveJob`, `DoneMeansDecided`, `MarkedHasRun`), `PendingKeepsMedia`, `RetryRequeuesFailed` | 3 rows, 2 runs, 2 requests, 2 parts, no crash of the worker, one retry at a time; a late second statement of `enqueue()` is allowed |
| `mark_rough` | `OneDecisionPerItem` | overlapping workers, crashes, double retries, v1 pipeline: the one with more steps |
| `mark_live` | `MarkingEnds` (`EveryJobSettles`, `EveryScriptIsMarked`), `SweepMakesGood` (`NothingPendingHeals`, `DoneIsSwept`) | 2 starts, pages and files, since they are deleted at different places |
| `corr_decide` | `CorrectionIsWhole` (`OneRemarkJob`, `ReleasedHasMark`, `PhotoGoesWhenFinal`), `DecisionsStay` (`FinalStays`, `DecidedStays`), `StudentNeverSeesBack`, `AttemptsBounded`, `KeyUnique` | 2 overlapping threads, 3 starts, 1 database error, 2 rows: a double send, and a job run beside itself and again after a crash. One part, the marks 0 and 2. On the bare queue 1 key: a thread puts its row back late, after another has settled it and a newer row has its key |
| `corr_answered` | `SentIsAnswered` (`SentHasJob`, `EverySentIsAnswered`) | 3 starts, no database error, since one that hits the UPDATE of the error itself leaves the correction as sent until the teacher decides it |
| `class_settles` | `OncePerDrain` (`MessagePerDrain`, `EveryHandInIsTold`), `DrainHasReport`, `FeedbackStays` | all requests, 2 threads, 2 students, 2 hand-ins, 1 mishap: a crash, a removal or a failing side channel |
| `office` | `MarksAddUp` (`StoredMarksAddUp`, `RecordAgrees`, `ViewsAgree`, `BandsHold`, `ReflectionSwaps`), `DoubtReachesTeacher` (`QuietMeansAgreed`, `NothingSlipsBy`, `QuietQuestionReviewed`), `UpperNeverRises`; `OneProvider`, `ChoiceIsShown` (`ShownIsRun`, `ChosenHasKey`); `NoHandInLost` (`LossIsReported`, `NotForNothing`), `ScriptsAreTheirs` (`FilesAreTheirOwn`, `StoredWithinCaps`, `NoneStruckWithWork`) | four shapes of an assignment, marks out of order, doubled, invented and at wrong totals; 2 providers, each picked, the second with a reading model of the first, 2 templates, 1 job, 1 client, 1 restart; 2 requests, one of them a class upload, 3 register numbers; a class list that drops one student and adds another, sent at any step and again, and two that are refused; six uploads that between them stay within each cap and exceed it: files, pages of a hand-in and of a script, bytes of a file, of an upload and of an unpacked zip. Beside a class upload one mixed upload comes by phone (`BesideClass`), the others before or after it |
| `background` | `TypesAgree` (`RowsFitKind`, `MarkedAsUploaded`), `ReadingsArrive` (`ReadingsStay`, `WaitEnds`); `FilesFollowRows` (`FileKept`, `KeptAsAsked`, `PhotoStays`), `PagesGo`; `ToldAsOwed` (`ClosedWasTold`, `ToldOnce`, `DigestOnce`), `NobodyWaits` (`RowsLeave`, `PressLinks`); `ReflectsOnAll` (`OneRowPerJob`, `CorrectionsAreRead`); `CallsAreRationed` (`CallsPerMinute`, `AskIsHeard`) | 2 templates, 1 tab, 1 script, 1 reading; 2 scripts with the same page, 2 requests, 1 crash, retention of crops or of pages; 2 messages in 2 groups, 1 group per tick, 2 attempts, 2 days, 1 lost answer; a day of 4 intervals and a lookback of 7; a minute of 4 ticks, limits 0 to 2 |

Each run but `mark_rough`, `mark_live` and `corr_answered`, which use the states of their neighbours, has its type
invariant.

Two rows, two threads and two requests are what each race here needs: every hazard is between two actors, or between
one actor and its own restart. Three starts allow a crash of the rerun of a crashed job. One page content is enough for
sharing: files that differ do not meet. Two groups and one per tick let a refused group stand before another.
The windows keep the order of the real ones (a day shorter than the lookback, by more than a job waits). Every
bound is a named constant.

### What the properties assume

Each assumption about people, timing or deployment is a constant, and the code breaks the property when it is
dropped; the hazard it belongs to says how.

| Constant | Says | Without it |
|---|---|---|
| `PromptStamp` | the second statement of `enqueue()` comes before the run it started ends | `StatusHasRow`, `MarkingEnds`: a late stamp undoes an outcome |
| `SerialRetry` | one retry of a script at a time | `RetryRequeuesFailed`, `OneActiveJob`: the script is queued twice |
| `MaxStarts = 1` in `mark_quiet` | no mark job is run again after a crash | `DoneMeansDecided`: done with items of the first run pending |
| `SerialDecisions` | the teacher waits for an answer to each decision | `DecisionsStay`: an accept is written after a reject |
| `SerialTeacher` | … to each edit of a class assignment | `FeedbackStays`: an edit undoes a release |
| `PromptClaims` | no hand-in re-arms a drain between a worker's count and its message | `EveryHandInIsTold` |
| `EnvPassword = FALSE` | the site was not deployed with TEACHER_PASSWORD and later without | `OneProvider`: the wizard keeps the host and the reading model of another provider |
| one `Client` of `ModelChoice` | one settings request at a time | `ChosenHasKey` |
| `LoadsAtOnce`, `PromptSaves`, one `Tab` | a tab's two answers are of one moment, no reading overtakes a save | `ReadingsStay`: a save takes a reading back |
| `Apart` | no unlink beside a request that stores the same file | `FileKept` |
| `RowIdsReused = FALSE` | row ids are not reused, as on Postgres | `ClosedWasTold`: on SQLite a stamp may close a later row |
| one `Bot` | the token is not replaced by another bot's | `PressLinks` (`other_bot_deaf`) |
| `Slack` | corrections made just after a run began are excepted | `CorrectionsAreRead` |
| `~Lookalike` (a condition of `ReflectionSwaps`) | no invented part's id is compared like a row's ("Q1(a)" beside "1a") | `ReflectionSwaps`: the CSV swaps a released correction against the invented part's mark |
| `MaxMishaps` | reflection attempts that fail or die are fewer than the intervals of a day | `CorrectionsAreRead`: a correction is older than the window before a run succeeds |
| `AskedLookbacks` | the teacher asks for a lookback no shorter than the nightly one | `CorrectionsAreRead`: a short run keeps the nightly one from running |

Violation runs, each a disagreement between the code and a sentence of its docs (quoted in `findings`):

* `none_keeps_crops`: retention "none" keeps the crops of a script the teacher finished;
* `retention_dropped`: an assignment asked to keep nothing is stored as one that keeps crops;
* `other_bot_deaf`: a second bot saved over the first never hears its `/start`.

What the code does and no property speaks of: a hand-in removed while its job is claimed leaves a run behind; an
override can meet a smaller maximum of a re-mark; a release during a report gets no report of its own; a hand-in can
outlive its assignment; removing the last script in flight ends a drain that nobody announces; a message may go out
about a hand-in that was just removed; files that a crash left without rows stay on the disk; a class upload cut short
by a crash does not say who is missing. A question the marker of the criteria pipeline answers twice counts twice in
the total and has one column, which holds the later mark; one it leaves out is neither stored nor asked about, since
criteria list no questions (`DoubtReachesTeacher` speaks of the questions there are marks for). A database error in
`set_payload()` or in the closing UPDATE of a reflection leaves a row without an error, which counts as a run.
`CallsPerMinute` counts what `acquire()` lets through: what instructor asks again within one step, or the provider's
client retries, is not held up by the window.

## 4. Fairness

Weak fairness on the worker's own steps: a loop that is down is started again by the platform, an idle
loop polls and claims, a runner ends (every provider call has a time-out), time passes, and between jobs the hourly
sweep, the scheduler and the Telegram tick come. A request that was accepted is carried out; an open editor tab
polls and saves its drafts by timers of its own; a row that was refused becomes due again. No user is ever assumed
to do anything. Crashes, lost answers and database errors are bounded by constants, never fair.

The liveness properties are `MarkingEnds` and `SweepMakesGood` (under `FairLifeSpec`), `SentIsAnswered`
(`FairCorrSpec`), and `ReadingsArrive`, `PagesGo`, `NobodyWaits`, `ReflectsOnAll`, `CallsAreRationed` (under
`BackgroundSpec`, which is the fairness of each part while it is the one that moves).

## 5. Proofs

All for arbitrary constants: any number of scripts, rows, threads, requests, students, templates or providers. Where a
theorem assumes a constant of section 3, the code breaks the property without it. Eight modules hold the theorems; the
part of a strengthening that a reader would not guess is named.

| Theorem | States | Assumes | The inductive invariant |
|---|---|---|---|
| **JobStoreProofs** | | | |
| `JobTypeCorrect` | `JobTypeOK` | | `HandOK`: a thread holds a row exactly while it runs or finishes one |
| `KeysAreUnique` | `KeyUnique` | | a row becomes active only through a statement the index has seen; also with overlapping workers |
| `JobsAreExclusive` | `OneHolder` | `~Overlap` | itself: a loop starts only when no thread holds a row, which is when `reset_running()` touches running rows nobody runs |
| `SettledRowsStay`, `JobsImplementLedger` | `SettledStays`, `LedgerSpec` | `~Overlap` | `OneHolder`; every step of the queue is one of the ledger or a stutter |
| `AttemptsAreBounded` | `AttemptsBounded` | | `AttemptsInv` counts tokens: attempts made, a queued row's next one, and the threads that hold the row's attempt never exceed `MaxAttempts` and the starts, also when workers take each other's rows |
| `StatusesHaveRows` | `StatusHasRow` | `~Overlap`, `PromptStamp` | a stamp on its way has its row |
| **MarkingProofs** | | | |
| `LifeTypeCorrect`, `MarkingUsesQueue` | `LifeTypeOK`; `LifeSpec => JobSpec`, so every theorem about the queue holds of a script's life | | `RequestOK` |
| `OneDecision` | `OneDecisionPerItem` | nobody uses the CLI | `ItemsToCome`: an item still to be inserted has no corrections; with overlap, crashes and reruns |
| `ScriptsHaveOneJob`, `RetriesRequeueFailed` | `OneActiveJob`, `RetryRequeuesFailed` | `~Overlap`, `SerialRetry` | `RetryInv`: an active row is its script's last one, and whoever is about to queue a script is alone and finds that row failed. With crashes, failed writes, requests that die, both pipelines and the CLI |
| `OutcomesHold`, `PendingMediaStay` | `OutcomeHolds`, `PendingKeepsMedia` | `Undisturbed` | `ScriptInv`, see below |
| **CorrectionProofs** | | | |
| `CorrectionsUseQueue`, `RemarksAreBounded` | `CorrSpec => JobSpec`; `AttemptsBounded` | | |
| `CorrTypesHold`, `StudentsNeverSeeBack` | `CorrTypeOK`, `StudentNeverSeesBack` | | `RowsFollowScript`: a correction's row goes with its script, so a late job or request meets the row it knew or none |
| `SentHaveJobs` | `SentHasJob`, of `SentIsAnswered` | no database error | `JobsAnswer`: a job goes on while its correction is unread, since a thread about to end one has answered it first, told it the error, or found it gone; with overlap and crashes |
| `CorrectionsAreWhole`, `TeacherDecisionsStay` | `CorrectionIsWhole`, `DecisionsStay` | `SerialDecisions` | `DecisionsHaveMarks`, also of a decision checked and not yet written; `NoneDecidesFinal` |
| **ClassProofs** | | | |
| `ClassTypesHold` | `ClassTypeOK` | | `OnePerHandIn`: messages sent and coming, the one that may be claimed and the re-armings on their way are no more than the hand-ins; `NothingYet` before the first of these |
| `DrainsAreToldOnce` | `OncePerDrain` | `PromptClaims` | `DrainSeen`: a count holds every script handed in but those that have yet to re-arm, and while a settled script is in no message somebody will count again |
| `DrainsAreReported` | `DrainHasReport` | | `ReportSeen`; a hand-in may re-arm at any moment |
| `ReleasedStaysReleased` | `FeedbackStays` | `SerialTeacher` | `OneRequest`, and `HeldByOne` for jobs and retries |
| **BackgroundProofs** | | | |
| `FilesAreWhereRowsSay` | `FilesFollowRows` | `Apart` | `FilesSafe`: neither a row's file nor one that a request has stored for a row to come is missing or in a list to unlink |
| `MessagesGoAsOwed` | `ToldAsOwed` | `~RowIdsReused` | `RowsAsRead`, `TellsOnce`: what a tick has read and not handled is as it was or withdrawn, and only that tick sends and stamps it |
| **BankProofs** | | | |
| `BackgroundTypesHold` | `BackgroundTypeOK` | | |
| `OneTypeThroughout` | `TypesAgree` | one tab, `PromptSaves` | `TabKnows`, `JobsFit`: a tab knows every reading of its template that has not ended, and a job that runs reads for the type its template still has |
| `ReadingsAreKept` | `ReadingsStay`, of `ReadingsArrive` | one tab, `PromptSaves`, `LoadsAtOnce` | `TabsUpToDate`: what a tab shows is as new as what is stored, but for readings that ended and that its next poll takes, and what it has on its way is what it shows |
| `ReflectOpensOnce` | `OneRowPerJob`, of `ReflectsOnAll` | | the row an attempt opened is what the next one finds |
| `CallsKeepToLimits` | `CallsPerMinute`, of `CallsAreRationed` | | `Keeps`: from any event of the history on, the calls are no more than the places of the windows that ended since and the stamps of the window there is that are no older than the event |
| **OfficeProofs** | | | |
| `OfficeTypesHold` | `OfficeTypeOK` | | the three parts by themselves: `ChoiceTypeCorrect`, `UploadTypes`, and `StoredSound` of the marks |
| `ChoiceTypeCorrect` | `ChoiceTypeOK` | | `NamesOK` |
| `CallsAreOfOneProvider` | `OneProvider` | `~EnvPassword` | `OneInv`: the settings, each default and each pin are choices somebody picked, whole, the settings' host is their provider's, the wizard finds them as they were seeded, and a job between its reads and its call holds such settings and no key but theirs |
| `ChoicesAreShown` | `ChoiceIsShown` | one client | `AskedInv`: what a request has checked still holds when it writes |
| `HandInsAreKept` | `NoHandInLost` | | `UploadSound`: at each step of an upload a student of its plan is still to do or in one list of the answer, and a hand-in it has deleted may be replaced, and is made good, said to be gone, or the one being replaced |
| `UploadTypes` | `BulkTypeOK`, the third part of `OfficeTypeOK` | | the same, with `ScriptsFit` and `ClassFits`: a row that a new class list adds has a number no row has (`NewNumbersFit`) |
| `ScriptsAreListed` | `NoneStruckWithWork`, of `ScriptsAreTheirs` | | `Rostered`: whom a request hands in for, or may yet hand in for, is on the list or was struck off it meanwhile |
| `FilesAreOwn` | `FilesAreTheirOwn` and `StoredWithinCaps`, of `ScriptsAreTheirs` | | `Owned`: a script's files have its row's number or none and fit the caps, a class upload files under rows that have the number it read, or none any more, what is about to be stored was sorted without error, and no zip of it unpacks to more than its cap |
| `ScriptsAreOwn` | `ScriptsAreTheirs` | | the two before |
| **MarkedScriptProofs** | | | |
| `MarksAreTheSchemes` | `StoredMarksAddUp`, of `MarksAddUp` | | `ScriptSound`, see below |
| `DoubtIsSeen` | `DoubtReachesTeacher` | | the same |
| `MarksHold` | `MarksAddUp` | | `StoredSound`, see below |
| `UpperStays` | `UpperNeverRises` | | the same: an answer is within its row, or within what the item was stored with |

The premises are those under which a run checks the property, or weaker. `JobsAreExclusive`, `KeysAreUnique` and
`AttemptsAreBounded` carry over to scripts and corrections by the two refinements of the queue.

**A script that is not disturbed.** `Undisturbed` is what `mark_quiet` assumes: workers do not overlap, none is
started a second time, no write of a job fails, one retry at a time, and the pipeline that writes a run in one
transaction (v2). Each is needed: a crash or a failed write between the run and the outcome lets the job be run again,
so that the script is done with items of its first run pending; v1 leaves a run without its items. Requests, sweeps
and the CLI are not restricted. What holds then is an invariant of each script by itself, `ScriptInv`: its status
promises no more than its runs and items keep (`StatusSays`); it has one run at most, which its one job drew, and once
it has it no job of the script comes back (`MarkedOnce`, `OnlyRun`); and while an item of it is pending no media of it
are gone, or listed by a sweep or a thread to be deleted (`MediaThere`). `Quiet` says of the queue what this rests on:
a row that runs is run by its thread, for the first time. An action moves one script; that it leaves the others alone
is one lemma (`KeptScript`), so each action has to be proved for its own script only. TLC checked each of these
invariants on runs of their own before they were proved.

**A merge.** What a marker and a reviewer return is any value of their schemas (`OutputsAssumption`,
`ValidAssumption`, which TLC evaluates of the answers it explores), and a scheme any sequence of rows. `ScriptSound`
says of the script in memory that its merge is a `MergeSound` one: there is a merge of its parts, before slips are
looked at, that is sound part by part (`BaseSound`), and every mark is as it was there or that mark with its one lost
allocation restored, with nothing that was asked about asked about less (`Settled`). This is what survives any number
of slips in any order: each slip finds the marks as the ones before it left them, so the invariant cannot speak of one
slip at a time. The loops over slips and entries are recursive functions over an interval (`Along`). The library's
induction rules are out of reach, and their place is taken by the least counterexample (`LeastNatural`, `LoopRuns`,
`AlongLoop`): a set of indices at which a loop leaves its invariant would have a least member, whose predecessor is
fine.

**A total.** Sums are the library's folds (`SumFunction`, `SumFunctionOnSet`), defined by a recursive function over
subsets. That it exists, and that a sum grows by `f[x]` with one element `x` more, is proved of any finite set, again
without an induction rule: among the subsets for which a fact fails one of least size has a member, and without it the
fact holds. From there two sums that agree point by point are equal, a sum over part of a set is what the rest leaves,
and a part no larger in each summand is no larger. `StoredSound` says what everything that shows marks relies on:
every row of the scheme has a stored mark with allocations that count, every item of the queue has one too, and
answers come only after marks are stored. The record, the class table, the student's screens and the reflection sum
the same marks over different sets, in different orders, and with what the teacher decided in place of what was stored
(`RecordFits`, `ViewsFit`, `BandsFit`, `ReflectionFits`); the detail's rows are an enumeration of a set, so what is
proved holds for any order of them.

**A minute of calls.** That a full window makes its caller wait says nothing yet of a minute in which windows come and
go. `CallLog` therefore keeps the history in its order and says `Keeps` of each point of it, so that when time passes
and the oldest events leave the minute, the statement is still there for the event that is now the first.

**A hand-in.** That it is within the caps is proved along the loops that sort it: after each entry, of the upload and
of a zip in it, what is sorted so far has the right numbers, distinct names, and a total that is the bytes of its
pages and files, and every zip so far has unpacked within its cap (`Sorts`, `PageSorts`, `FileSorts`, `ZipSorts`,
`ClassifyRuns`, `ZipsAreCapped`). Names stay distinct because among one suffix more than there are entries one is free
(`NameIsFree`, by the pigeonhole principle). That it is the student's own rests on two facts: an entry is matched only
to the one student with its number (`FilesForFit`), and a row never gets another number (`RowsKept`), so that a class
list sent while the upload runs can strike the row out but not give it to somebody else. It strikes out nobody with a
script, and of the others it strikes, `struck` keeps those a request had in hand, whose scripts are yet to come.

**Only model-checked.** Liveness and `ENABLED` are out of the prover's reach. What TLC alone checks is `MarkingEnds`,
`SweepMakesGood`, `PagesGo` and `NobodyWaits`, and of the properties that are part safety, part liveness the second half:
`EverySentIsAnswered`, `WaitEnds`, `CorrectionsAreRead` and `AskIsHeard`. Every other property of a passing run, and the
first half of those four, is stated by a theorem.

## 6. Plan

All modules planned are written. What is left:

1. The drafts of a reflection run, which an attempt that failed half way leaves twice.
2. The sign-in limiter and the access codes of classes.

## 7. Not modelled

Formatting and export of records, rendering of pages and spreadsheets, prompts and model calls (their answers are
inputs), CRUD with one statement (classes, rosters, sessions, thresholds, time zones), key encryption beyond "decrypts
or does not", the marking room's append-only events, the web client but for the three screens whose state decides
what is saved, generated migrations. The content of insights reports, notes and exemplars is shown to the teacher
and read by nothing that is modelled.
