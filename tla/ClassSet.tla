------------------------------ MODULE ClassSet ------------------------------
(***************************************************************************)
(* One assignment of one class: students hand in while it is open, the     *)
(* worker marks, the teacher is told once when everything is marked and    *)
(* gets a report on the class, and releases feedback.                      *)
(*                                                                         *)
(* Sources: web/services/class_assignments.py, student.py (hand-in),       *)
(* submissions.py (create, retry), notify.py (record_hand_in,              *)
(* on_mark_settled), worker/insights_job.py, worker/worker.py.             *)
(*                                                                         *)
(* A job is not a row here: a script is marked, and a report written, by   *)
(* one worker at a time, which JobStore's theorems allow.  Every request   *)
(* that reads in one statement and writes in another has a step for each.  *)
(*                                                                         *)
(* Left out: titles, due dates, the allow_student_uploads flag, the        *)
(* templates; instant messages are switched on.                            *)
(***************************************************************************)
EXTENDS Naturals, FiniteSets, Sequences

CONSTANTS
    None,
    Student,        \* the students of the class
    Client,         \* concurrent requests
    Worker,         \* worker threads: two while one deployment takes over from another
    TeacherDoes,    \* which requests the teacher makes
    SerialTeacher,  \* does the teacher wait for each answer before the next request?
    PromptClaims,   \* does no hand-in re-arm a drain between a worker's count and its message?
    MaxHandIns, MaxMishaps

TeacherOp == {"upload", "update", "delete", "remove", "release", "retry", "resolve", "regenerate"}

ASSUME ClassAssumption ==
    /\ None \notin Student
    /\ TeacherDoes \subseteq TeacherOp
    /\ SerialTeacher \in BOOLEAN /\ PromptClaims \in BOOLEAN
    /\ MaxHandIns \in Nat /\ MaxMishaps \in Nat

VARIABLES
    ca,        \* class_assignments.status; "deleted" when its row is gone
    notified,  \* is last_done_notified_at set?
    script,    \* [Student -> status of the student's submission, "none" without one]
    report,    \* assignment_insights: is a report stored, and an error?
    insights,  \* the insights job under the assignment's dedupe key
    told,      \* the marking_done rows: the settled scripts each one was counted from, in order
    worker,    \* [Worker -> what the thread is doing]
    request,   \* [Client -> what its request has checked and still has to write]
    handIns,   \* hand-ins so far, each of which re-arms a drain
    mishaps    \* what may leave a drain without its message so far: a crash, an error in a side
               \* channel, the removal of a script in flight or being settled

tables    == <<ca, notified, script, report, insights, told>>
classVars == <<tables, worker, request, handIns, mishaps>>

CaStatus     == {"draft", "open", "released"}
ScriptStatus == {"none", "uploaded", "queued", "marking", "needs_you", "done", "failed"}
ReportRow    == [stored : BOOLEAN, error : BOOLEAN]
Thread  == [pc : {"idle", "marking", "settled", "drained", "claiming", "announcing", "reporting", "writing"},
            st : Student \cup {None}, counts : SUBSET Student]
Request == [op : {"idle", "insert", "rearm", "enqueue", "update", "delete", "remove", "release", "insights"},
            st : Student \cup {None}, to : CaStatus \cup {None}]

NoReport  == [stored |-> FALSE, error |-> FALSE]
Idle      == [pc |-> "idle", st |-> None, counts |-> {}]
NoRequest == [op |-> "idle", st |-> None, to |-> None]

ClassTypeOK ==
    /\ ca \in CaStatus \cup {"deleted"}
    /\ notified \in BOOLEAN
    /\ script \in [Student -> ScriptStatus]
    /\ report \in ReportRow
    /\ insights \in {"none", "queued", "running"}
    /\ told \in UNION {[1 .. n -> SUBSET Student] : n \in 0 .. MaxHandIns}
    /\ worker \in [Worker -> Thread]
    /\ request \in [Client -> Request]
    /\ handIns \in 0 .. MaxHandIns /\ mishaps \in 0 .. MaxMishaps

ClassInit ==
    /\ ca = "draft" /\ notified = FALSE
    /\ script = [s \in Student |-> "none"]
    /\ report = NoReport /\ insights = "none" /\ told = <<>>
    /\ worker = [w \in Worker |-> Idle]
    /\ request = [r \in Client |-> NoRequest]
    /\ handIns = 0 /\ mishaps = 0

Exists   == ca # "deleted"
HandedIn == {s \in Student : script[s] # "none"}

\* _drain_counts(): scripts still in flight, and scripts with marks.
QueuedOnly == {s \in Student : script[s] \in {"queued", "marking"}}  \* mutant
DoneOnly   == {s \in Student : script[s] = "done"}                   \* mutant
InFlight   == {s \in Student : script[s] \in {"uploaded", "queued", "marking"}}
Marked     == {s \in Student : script[s] \in {"done", "needs_you"}}
Settled    == {s \in Student : script[s] \in {"done", "needs_you", "failed"}}

Becomes(s, status) == script' = [script EXCEPT ![s] = status]
Forgets(r, q)  == request' = [request EXCEPT ![r] = q]
Answered(r)    == Forgets(r, NoRequest)
Mishap         == mishaps < MaxMishaps /\ mishaps' = mishaps + 1

\* A request of the teacher; hand-ins are under way for their students, the other ops for the teacher.
Free(r) == request[r].op = "idle"
Teacher(r, op) ==
    /\ Free(r)
    /\ op \in TeacherDoes
    /\ SerialTeacher => \A q \in Client : request[q].op \in {"idle", "insert", "rearm", "enqueue"}

-----------------------------------------------------------------------------
(* Handing in *)

\* open_for_hand_in() for a student; the teacher's upload asks only that the assignment exists.
\* hand_in() then looks for an earlier hand-in.
HandInCheck(r, s) ==
    /\ \/ Free(r) /\ ca = "open"
       \/ Teacher(r, "upload") /\ Exists
    /\ script[s] = "none"
    /\ handIns < MaxHandIns
    /\ Forgets(r, [op |-> "insert", st |-> s, to |-> None])
    /\ UNCHANGED <<tables, worker, handIns, mishaps>>

\* create_submission()'s transaction.  The unique index refuses a second hand-in; nothing refuses
\* an assignment that has been closed or deleted since.
Insert(r) ==
    LET s == request[r].st
    IN  /\ request[r].op = "insert"
        /\ \/ /\ script[s] = "none" /\ handIns < MaxHandIns
              /\ Becomes(s, "uploaded")
              /\ Forgets(r, [request[r] EXCEPT !.op = "rearm"])
              /\ handIns' = handIns + 1
           \/ /\ script[s] # "none"
              /\ Answered(r)
              /\ UNCHANGED <<script, handIns>>
        /\ UNCHANGED <<ca, notified, report, insights, told, worker, mishaps>>

\* record_hand_in() re-arms the announcement; an error there is logged and forgotten.
Counting(w) == worker[w].pc \in {"drained", "claiming", "announcing"}
Rearm(r) ==
    /\ request[r].op = "rearm"
    /\ PromptClaims => \A w \in Worker : ~Counting(w)
    /\ \/ notified' = FALSE /\ UNCHANGED mishaps
       \/ Mishap /\ UNCHANGED notified
    /\ Forgets(r, [request[r] EXCEPT !.op = "enqueue"])
    /\ UNCHANGED <<ca, script, report, insights, told, worker, handIns>>

\* jobs.enqueue("mark", sid); a submission that was removed meanwhile has no job.
Enqueue(r) ==
    LET s == request[r].st
    IN  /\ request[r].op = "enqueue"
        /\ script' = IF s # None THEN [script EXCEPT ![s] = "queued"] ELSE script
        /\ Answered(r)
        /\ UNCHANGED <<ca, notified, report, insights, told, worker, handIns, mishaps>>

-----------------------------------------------------------------------------
(* The teacher *)

\* remove_hand_in() refuses while the script is being marked ...
RemoveCheck(r, s) ==
    /\ Teacher(r, "remove")
    /\ script[s] \notin {"none", "marking"}
    /\ Forgets(r, [op |-> "remove", st |-> s, to |-> None])
    /\ UNCHANGED <<tables, worker, handIns, mishaps>>

\* ... and deletes by id what has become of it.  Whoever holds the submission holds nothing now.
Remove(r) ==
    LET s == request[r].st
        Gone(x) == IF x.st = s THEN [x EXCEPT !.st = None] ELSE x
        Drop(q) == IF request[q].op = "insert" THEN request[q] ELSE Gone(request[q])
    IN  /\ request[r].op = "remove"
        /\ script' = IF s # None THEN [script EXCEPT ![s] = "none"] ELSE script
        /\ worker' = IF s # None THEN [w \in Worker |-> Gone(worker[w])] ELSE worker
        /\ request' = [q \in Client |-> IF q = r THEN NoRequest
                                        ELSE IF s # None THEN Drop(q) ELSE request[q]]
        /\ IF s # None /\ (s \in InFlight \/ \E w \in Worker : worker[w].st = s)
           THEN Mishap ELSE UNCHANGED mishaps
        /\ UNCHANGED <<ca, notified, report, insights, told, handIns>>

\* update_class_assignment(): the status that was read ...
AnyUpdate(r, to) ==  \* mutant: a released assignment may be opened again
    /\ Teacher(r, "update") /\ Exists
    /\ to = "released" => ca = "released"
    /\ ca = "open" /\ to = "draft" => HandedIn = {}
    /\ Forgets(r, [op |-> "update", st |-> None, to |-> to])
    /\ UNCHANGED <<tables, worker, handIns, mishaps>>
UpdateCheck(r, to) ==
    /\ Teacher(r, "update") /\ Exists
    /\ to = "released" <=> ca = "released"
    /\ ca = "open" /\ to = "draft" => HandedIn = {}
    /\ Forgets(r, [op |-> "update", st |-> None, to |-> to])
    /\ UNCHANGED <<tables, worker, handIns, mishaps>>

\* ... decides what is written by id, with the title and the rest.
Update(r) ==
    /\ request[r].op = "update"
    /\ ca' = IF Exists THEN request[r].to ELSE ca
    /\ Answered(r)
    /\ UNCHANGED <<notified, script, report, insights, told, worker, handIns, mishaps>>

\* delete_class_assignment(): refused while it has hand-ins; its report goes with it.
DeleteCheck(r) ==
    /\ Teacher(r, "delete") /\ Exists
    /\ HandedIn = {}
    /\ Forgets(r, [NoRequest EXCEPT !.op = "delete"])
    /\ UNCHANGED <<tables, worker, handIns, mishaps>>
Delete(r) ==
    /\ request[r].op = "delete"
    /\ ca' = "deleted" /\ report' = NoReport
    /\ Answered(r)
    /\ UNCHANGED <<notified, script, insights, told, worker, handIns, mishaps>>

\* release(): open, nothing pending, something marked; then written by id, then the report.
ReleaseCheck(r) ==
    /\ Teacher(r, "release")
    /\ ca = "open"
    /\ \A s \in Student : script[s] # "needs_you"
    /\ Marked # {}
    /\ Forgets(r, [NoRequest EXCEPT !.op = "release"])
    /\ UNCHANGED <<tables, worker, handIns, mishaps>>
Release(r) ==
    /\ request[r].op = "release"
    /\ ca' = IF Exists THEN "released" ELSE ca
    /\ Forgets(r, [NoRequest EXCEPT !.op = "insights"])
    /\ UNCHANGED <<notified, script, report, insights, told, worker, handIns, mishaps>>

\* enqueue_insights(): not while one is queued or running.
EnqueueAlways   == insights' = "pending"  \* mutant
EnqueueInsights == insights' = IF insights = "none" THEN "queued" ELSE insights
ReportRelease(r) ==
    /\ request[r].op = "insights"
    /\ EnqueueInsights
    /\ Answered(r)
    /\ UNCHANGED <<ca, notified, script, report, told, worker, handIns, mishaps>>

\* regenerate_insights(), also with what it has checked out of date.
Regenerate ==
    /\ "regenerate" \in TeacherDoes
    /\ Exists /\ Marked # {}
    /\ EnqueueInsights
    /\ UNCHANGED <<ca, notified, script, report, told, worker, request, handIns, mishaps>>

\* A failed script is queued again; the last pending part of another is decided.
Retry(s) ==
    /\ "retry" \in TeacherDoes /\ script[s] = "failed"
    /\ Becomes(s, "queued")
    /\ UNCHANGED <<ca, notified, report, insights, told, worker, request, handIns, mishaps>>
Resolve(s) ==
    /\ "resolve" \in TeacherDoes /\ script[s] = "needs_you"
    /\ Becomes(s, "done")
    /\ UNCHANGED <<ca, notified, report, insights, told, worker, request, handIns, mishaps>>

-----------------------------------------------------------------------------
(* The worker: a mark job, and what follows it *)

At(w, pc)    == worker[w].pc = pc
Turns(w, t)  == worker' = [worker EXCEPT ![w] = t]
Goto(w, pc)  == Turns(w, [worker[w] EXCEPT !.pc = pc])

ClaimMark(w, s) ==
    /\ At(w, "idle") /\ script[s] = "queued"
    /\ Becomes(s, "marking")
    /\ Turns(w, [Idle EXCEPT !.pc = "marking", !.st = s])
    /\ UNCHANGED <<ca, notified, report, insights, told, request, handIns, mishaps>>

\* The job is settled, or put back for a retry.  Nothing is left to settle of a removed script.
MarkEnds(w) ==
    LET s == worker[w].st
    IN  /\ At(w, "marking")
        /\ IF s = None THEN UNCHANGED script
           ELSE \E status \in {"done", "needs_you", "failed", "queued"} : Becomes(s, status)
        /\ Goto(w, "settled")
        /\ UNCHANGED <<ca, notified, report, insights, told, request, handIns, mishaps>>

\* on_mark_settled() reads the submission, the assignment and the counts; an error in it is
\* logged and forgotten.
CountDrain(w) ==
    /\ At(w, "settled")
    /\ \/ /\ worker[w].st # None /\ Exists /\ InFlight = {} /\ Marked # {}
          /\ Turns(w, [Idle EXCEPT !.pc = "drained", !.counts = Settled])
          /\ UNCHANGED mishaps
       \/ /\ worker[w].st = None \/ ~Exists \/ InFlight # {} \/ Marked = {}
          /\ Turns(w, Idle)
          /\ UNCHANGED mishaps
       \/ Mishap /\ Turns(w, Idle)
    /\ UNCHANGED <<tables, request, handIns>>

ReportDrain(w) ==
    /\ At(w, "drained")
    /\ EnqueueInsights
    /\ Goto(w, "claiming")
    /\ UNCHANGED <<ca, notified, script, report, told, request, handIns, mishaps>>

\* UPDATE ... SET last_done_notified_at WHERE last_done_notified_at IS NULL: only the thread whose
\* statement stamped the row announces.
ClaimStampedToo(w) ==  \* mutant: the rowcount is not looked at
    /\ At(w, "claiming")
    /\ notified' = TRUE
    /\ IF Exists THEN Goto(w, "announcing") ELSE Turns(w, Idle)
    /\ UNCHANGED <<ca, script, report, insights, told, request, handIns, mishaps>>
ClaimDrain(w) ==
    /\ At(w, "claiming")
    /\ IF Exists /\ ~notified
       THEN notified' = TRUE /\ Goto(w, "announcing")
       ELSE Turns(w, Idle) /\ UNCHANGED notified
    /\ UNCHANGED <<ca, script, report, insights, told, request, handIns, mishaps>>

Announce(w) ==
    /\ At(w, "announcing")
    /\ told' = Append(told, worker[w].counts)
    /\ Turns(w, Idle)
    /\ UNCHANGED <<ca, notified, script, report, insights, request, handIns, mishaps>>

-----------------------------------------------------------------------------
(* The worker: an insights job *)

ClaimInsights(w) ==
    /\ At(w, "idle") /\ insights = "queued"
    /\ insights' = "running"
    /\ Goto(w, "reporting")
    /\ UNCHANGED <<ca, notified, script, report, told, request, handIns, mishaps>>

\* run_insights_job() counts; a deleted assignment is an error, and one with nothing marked keeps
\* its report.
CountMarks(w) ==
    /\ At(w, "reporting")
    /\ IF Exists /\ Marked # {}
       THEN Goto(w, "writing") /\ UNCHANGED <<report, insights>>
       ELSE /\ Turns(w, Idle) /\ insights' = "none"
            /\ report' = IF Exists THEN [report EXCEPT !.error = TRUE] ELSE report
    /\ UNCHANGED <<ca, notified, script, told, request, handIns, mishaps>>

\* The model's narrative is stored with the counts ...
WriteReport(w) ==
    /\ At(w, "writing")
    /\ report' = IF Exists THEN [stored |-> TRUE, error |-> FALSE] ELSE report
    /\ insights' = "none" /\ Turns(w, Idle)
    /\ UNCHANGED <<ca, notified, script, told, request, handIns, mishaps>>

\* ... or its error beside the report there was, and the job is retried or failed.
FailReport(w) ==
    /\ At(w, "writing")
    /\ Mishap
    /\ report' = IF Exists THEN [report EXCEPT !.error = TRUE] ELSE report
    /\ insights' \in {"queued", "none"} /\ Turns(w, Idle)
    /\ UNCHANGED <<ca, notified, script, told, request, handIns>>

\* The process dies and its loop begins again: what it was running is queued, what it was about
\* to announce is not.
Crash(w) ==
    /\ ~At(w, "idle")
    /\ Mishap
    /\ script' = IF At(w, "marking") /\ worker[w].st # None
                 THEN [script EXCEPT ![worker[w].st] = "queued"] ELSE script
    /\ insights' = IF worker[w].pc \in {"reporting", "writing"} THEN "queued" ELSE insights
    /\ Turns(w, Idle)
    /\ UNCHANGED <<ca, notified, report, told, request, handIns>>

-----------------------------------------------------------------------------
ClassNext ==
    \/ \E r \in Client, s \in Student : HandInCheck(r, s) \/ RemoveCheck(r, s)
    \/ \E r \in Client :
          \/ Insert(r) \/ Rearm(r) \/ Enqueue(r) \/ Remove(r) \/ Update(r)
          \/ DeleteCheck(r) \/ Delete(r) \/ ReleaseCheck(r) \/ Release(r) \/ ReportRelease(r)
    \/ \E r \in Client, to \in CaStatus : UpdateCheck(r, to)
    \/ Regenerate
    \/ \E s \in Student : Retry(s) \/ Resolve(s)
    \/ \E w \in Worker, s \in Student : ClaimMark(w, s)
    \/ \E w \in Worker :
          \/ MarkEnds(w) \/ CountDrain(w) \/ ReportDrain(w) \/ ClaimDrain(w) \/ Announce(w)
          \/ ClaimInsights(w) \/ CountMarks(w) \/ WriteReport(w) \/ FailReport(w) \/ Crash(w)

ClassSpec == ClassInit /\ [][ClassNext]_classVars

-----------------------------------------------------------------------------
(* Properties *)

\* Nothing is under way: no script in flight, no request, no thread.
Quiet == /\ InFlight = {} /\ insights = "none"
         /\ \A r \in Client : Free(r)
         /\ \A w \in Worker : At(w, "idle")

\* A drain is announced at most once, however many threads settle its last scripts and however
\* often a failed one is retried: a message needs a hand-in of its own.
MessagePerDrain == Len(told) + Cardinality({w \in Worker : At(w, "announcing")}) <= handIns

\* When all is quiet, the newest marking_done message counted every script that has marks: a
\* hand-in that comes while a drain is settled is not left out.  (No mishaps, and no hand-in
\* re-arms the drain between a count and its message.)
EveryHandInIsTold ==
    Quiet /\ Exists /\ Marked # {} /\ mishaps = 0 => told # <<>> /\ Marked \subseteq told[Len(told)]

\* A drain is announced exactly once, by a message that counts it whole.
OncePerDrain == MessagePerDrain /\ EveryHandInIsTold

\* ... and the class has a report, or the error that kept it from having one.
DrainHasReport == Quiet /\ Exists /\ Marked # {} /\ mishaps = 0 => report.stored \/ report.error

\* A student who can see feedback keeps it until the teacher removes the hand-in: release is
\* one-way, and nothing takes back a finished script.  (The teacher waits for each answer; a
\* class whose assignment is deleted keeps its scripts.)
FeedbackStays ==
    [][\A s \in Student : ca = "released" /\ script[s] = "done"
                             => \/ ca' \in {"released", "deleted"} /\ script'[s] = "done"
                                \/ script'[s] = "none"]_classVars
=============================================================================
