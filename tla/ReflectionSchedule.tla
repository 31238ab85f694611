------------------------- MODULE ReflectionSchedule -------------------------
(***************************************************************************)
(* Nightly reflection for one subject: every ten minutes the worker looks  *)
(* for corrections of the last day that no run of the last day can have    *)
(* read, and enqueues a job; the job opens a reflection_runs row, reads    *)
(* the corrections of its lookback, asks the model, and writes draft       *)
(* notes.  The teacher may ask for a run at any time.                      *)
(*                                                                         *)
(* Sources: worker/worker.py (run_once, _maybe_schedule_reflection),       *)
(* worker/reflect_job.py, learning/reflection_job.py,                      *)
(* web/routers/learning.py, and pending_reflect_subjects() of              *)
(* worker/jobs.py.  Claims and crashes of jobs are JobStore's.             *)
(*                                                                         *)
(* Time passes in intervals between two checks.  Corrections and rows are  *)
(* known by their age, in intervals, up to the age at which nobody asks    *)
(* any more.  Automatic reflection is on and there is a key.               *)
(***************************************************************************)
EXTENDS Naturals, FiniteSets

CONSTANTS
    REFLECT_WINDOW,     \* a day, in intervals: 144
    REFLECT_LOOKBACK,   \* what a nightly run reads: seven days
    AskedLookbacks,     \* what the teacher may ask for: from a day up
    MaxWait,            \* intervals that pass from a job's enqueueing to its end, at most
    MAX_ATTEMPTS,
    MaxCorrections, MaxAsked,
    Slack,              \* intervals after a run in which a correction is too late for a second try
    MaxMishaps          \* failed attempts and crashes, at most; fewer than the intervals of a day

ReflectionAssumption ==
    /\ REFLECT_WINDOW \in Nat \ {0} /\ REFLECT_LOOKBACK \in Nat
    /\ REFLECT_WINDOW + MaxWait < REFLECT_LOOKBACK
    /\ AskedLookbacks \subseteq REFLECT_WINDOW .. REFLECT_LOOKBACK
    /\ MaxWait \in Nat /\ MAX_ATTEMPTS \in Nat \ {0} /\ MaxCorrections \in Nat
    /\ MaxAsked \in Nat /\ MaxMishaps \in Nat /\ Slack \in Nat

Ages       == 0 .. REFLECT_LOOKBACK + 1
Correction == 1 .. MaxCorrections

VARIABLES
    corr,      \* [Correction -> when it was made, and whether a run that succeeded has read it]
    clean,     \* ages of the rows of earlier jobs that carry no error
    job,       \* the subject's reflect job, if one is queued or running
    row,       \* the rows this job has opened and knows of: none or one
    checked,   \* has the scheduler passed in this interval?
    opened,    \* history: rows the job has opened, those a crash cut off left out
    asked, mishaps

reflectVars == <<corr, clean, job, row, checked, opened, asked, mishaps>>

NoJob == [st |-> "none", back |-> 0, waits |-> 0, attempts |-> 0, read |-> {}]
Steps == {"none", "queued", "claimed", "opened", "saved", "asking", "noted"}

ReflectTypeOK ==
    /\ corr \in [Correction -> [made : BOOLEAN, age : Ages, late : BOOLEAN, read : BOOLEAN]]
    /\ clean \subseteq Ages
    /\ job \in [st : Steps, back : Ages, waits : 0 .. MaxWait, attempts : 0 .. MAX_ATTEMPTS, read : SUBSET Correction]
    /\ row \subseteq [age : Ages, error : BOOLEAN]
    /\ checked \in BOOLEAN
    /\ opened \in Nat
    /\ asked \in 0 .. MaxAsked /\ mishaps \in 0 .. MaxMishaps

ReflectInit ==
    /\ corr = [c \in Correction |-> [made |-> FALSE, age |-> 0, late |-> FALSE, read |-> FALSE]]
    /\ clean = {} /\ job = NoJob /\ row = {}
    /\ checked = FALSE /\ opened = 0
    /\ asked = 0 /\ mishaps = 0

OlderForever(a) == a + 1  \* mutant: nothing is ever too old to look at
Older(a)   == IF a > REFLECT_LOOKBACK THEN a ELSE a + 1
Errorless  == clean \cup {r.age : r \in {q \in row : ~q.error}}
Enqueue(l) == job' = [NoJob EXCEPT !.st = "queued", !.back = l] /\ row' = {} /\ opened' = 0
At(step)   == job' = [job EXCEPT !.st = step]

\* resolve_queue_item() with another mark than the agent's; late: a run began just before.
Correct(c) ==
    /\ ~corr[c].made
    /\ corr' = [corr EXCEPT ![c] = [made |-> TRUE, age |-> 0, late |-> \E a \in Errorless : a <= Slack, read |-> FALSE]]
    /\ UNCHANGED <<clean, job, row, checked, opened, asked, mishaps>>

\* An interval passes: the scheduler has come round, and no job takes for ever.
Pass ==
    /\ checked /\ (job.st # "none" => job.waits < MaxWait)
    /\ corr' = [c \in Correction |-> [corr[c] EXCEPT !.age = IF corr[c].made THEN Older(@) ELSE @]]
    /\ clean' = {Older(a) : a \in clean} \ {REFLECT_LOOKBACK + 1}
    /\ row' = {[r EXCEPT !.age = Older(@)] : r \in row}
    /\ job' = [job EXCEPT !.waits = IF job.st = "none" THEN 0 ELSE @ + 1]
    /\ checked' = FALSE
    /\ UNCHANGED <<opened, asked, mishaps>>

\* _maybe_schedule_reflection(): corrections of the last day, no errorless run of the last day, and
\* no job already.
Schedule ==
    /\ ~checked /\ checked' = TRUE
    /\ IF /\ job.st = "none"
          /\ \E c \in Correction : corr[c].made /\ corr[c].age <= REFLECT_WINDOW
          /\ ~ \E a \in Errorless : a <= REFLECT_WINDOW
       THEN Enqueue(REFLECT_LOOKBACK)
       ELSE UNCHANGED <<job, row, opened>>
    /\ UNCHANGED <<corr, clean, asked, mishaps>>

\* reflect(): refused while there is a job.
Ask(l) ==
    /\ asked < MaxAsked /\ asked' = asked + 1
    /\ job.st = "none" /\ Enqueue(l)
    /\ UNCHANGED <<corr, clean, checked, mishaps>>

Claim ==
    /\ job.st = "queued"
    /\ job' = [job EXCEPT !.st = "claimed", !.attempts = IF @ < MAX_ATTEMPTS THEN @ + 1 ELSE @]
    /\ UNCHANGED <<corr, clean, row, checked, opened, asked, mishaps>>

\* open_reflection_run() on the first attempt; a later one clears the error of the row it finds.
OpenBeside ==  \* mutant: a row for every attempt
    /\ job.st = "claimed"
    /\ row' = row \cup {[age |-> 0, error |-> FALSE]} /\ opened' = opened + 1 /\ At("opened")
    /\ UNCHANGED <<corr, clean, checked, asked, mishaps>>
Open ==
    /\ job.st = "claimed"
    /\ IF row = {} THEN row' = {[age |-> 0, error |-> FALSE]} /\ opened' = opened + 1 /\ At("opened")
       ELSE row' = {[r EXCEPT !.error = FALSE] : r \in row} /\ At("saved") /\ UNCHANGED opened
    /\ UNCHANGED <<corr, clean, checked, asked, mishaps>>
\* set_payload(): the job remembers its row.
Remember ==
    /\ job.st = "opened" /\ At("saved")
    /\ UNCHANGED <<corr, clean, row, checked, opened, asked, mishaps>>

\* run_reflection(): the corrections of the lookback; without any the model is not asked.
Made(c, l) == corr[c].made /\ corr[c].age <= l
ReadCorrections ==
    /\ job.st = "saved"
    /\ LET seen == {c \in Correction : Made(c, job.back)} IN
       job' = [job EXCEPT !.st = IF seen = {} THEN "noted" ELSE "asking", !.read = seen]
    /\ UNCHANGED <<corr, clean, row, checked, opened, asked, mishaps>>
WriteNotes ==
    /\ job.st = "asking" /\ At("noted")
    /\ UNCHANGED <<corr, clean, row, checked, opened, asked, mishaps>>

\* The job is over; a row without an error is one the scheduler will find.
EndsClean(errors) ==  \* mutant: a failed run counts
    /\ job' = NoJob
    /\ clean' = clean \cup {r.age : r \in row}
    /\ row' = {}
Ends(errors) ==
    /\ job' = NoJob
    /\ clean' = clean \cup {r.age : r \in {q \in row : ~errors /\ ~q.error}}
    /\ row' = {}

\* proposed_notes and finished_at, and the job is done.
Finish ==
    /\ job.st = "noted" /\ Ends(FALSE)
    /\ corr' = [c \in Correction |-> [corr[c] EXCEPT !.read = @ \/ c \in job.read]]
    /\ UNCHANGED <<checked, opened, asked, mishaps>>

\* The error goes on the row, and the job is retried or fails.
Fail ==
    /\ job.st \in {"saved", "asking", "noted"}
    /\ mishaps < MaxMishaps /\ mishaps' = mishaps + 1
    /\ \/ Ends(TRUE)
       \/ /\ job.attempts < MAX_ATTEMPTS
          /\ At("queued") /\ row' = {[r EXCEPT !.error = TRUE] : r \in row} /\ UNCHANGED clean
    /\ UNCHANGED <<corr, checked, opened, asked>>

\* The worker dies and the job is queued again; a row it had not remembered stays without an error.
Crash ==
    /\ job.st \notin {"none", "queued"}
    /\ mishaps < MaxMishaps /\ mishaps' = mishaps + 1
    /\ At("queued")
    /\ IF job.st = "opened" THEN row' = {} /\ opened' = 0 /\ clean' = clean \cup {r.age : r \in row}
       ELSE UNCHANGED <<row, opened, clean>>
    /\ UNCHANGED <<corr, checked, asked>>

Works == Claim \/ Open \/ Remember \/ ReadCorrections \/ WriteNotes \/ Finish

ReflectNext ==
    \/ \E c \in Correction : Correct(c)
    \/ \E l \in AskedLookbacks : Ask(l)
    \/ Pass \/ Schedule \/ Works \/ Fail \/ Crash

\* The worker goes on, and so does the clock.
ReflectFairness == WF_reflectVars(Works) /\ WF_reflectVars(Schedule) /\ WF_reflectVars(Pass)

ReflectSpec == ReflectInit /\ [][ReflectNext]_reflectVars /\ ReflectFairness

-----------------------------------------------------------------------------
(* Properties *)

\* A job opens one row, however often it is attempted; another only after a crash.
OneRowPerJob == opened <= 1

\* Every correction is read by a run that succeeds: the window of the check, the day without a run
\* and the lookback leave none out, unless it was made just after a run began. This rests on fewer mishaps than
\* a day has intervals: with as many, a night goes by without a run. A database error in set_payload() or in the
\* job's last UPDATE, with a worker that lives on, is not among the mishaps: it leaves a row without an error.
CorrectionsAreRead ==
    \A c \in Correction : corr[c].made /\ ~corr[c].late ~> corr[c].read

\* A night's job leaves one row, and in the end every correction has been read.
ReflectsOnAll == []OneRowPerJob /\ CorrectionsAreRead
=============================================================================
