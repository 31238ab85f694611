------------------------- MODULE StudentCorrections -------------------------
(***************************************************************************)
(* Reflect and correct: after feedback is released a student sends one     *)
(* correction per part that lost marks, the worker re-marks it, the        *)
(* teacher accepts, overrides or rejects it, and releases what was decided *)
(* to the class.                                                           *)
(*                                                                         *)
(* Sources: web/services/student_corrections.py, worker/remark_job.py,     *)
(* web/routers/corrections.py.  The remark jobs run on JobStore's queue    *)
(* with neither a submission nor a key; marking the script itself belongs  *)
(* to MarkingLifecycle, and a script appears here as done.                 *)
(*                                                                         *)
(* Left out: texts and reasons, what the models see, when the window ends  *)
(* (it opens on a release, and closes and opens again as time passes and   *)
(* teachers edit it).                                                      *)
(***************************************************************************)
EXTENDS JobStore

CONSTANTS
    Client,          \* concurrent requests of students and teachers
    Part,            \* the parts of a script that lost marks
    Mark,            \* the marks a part can be given
    FirstMax,        \* the part's max when the script was marked
    SchemeMax,       \* its max in the scheme as it may be edited since
    KeepPhotos,      \* is the assignment's page retention "pages"?
    SerialDecisions  \* does the teacher wait for each decision before the next?

ASSUME CorrAssumption ==
    /\ Mark \subseteq Nat /\ FirstMax \in Mark /\ SchemeMax \subseteq Mark
    /\ KeepPhotos \in BOOLEAN /\ SerialDecisions \in BOOLEAN
    /\ None \notin Submission \X Part

VARIABLES
    window,  \* may students send corrections now?
    corr,    \* student_corrections: [Correction -> row]
    photo,   \* [Correction -> its photo's page row]
    about,   \* [Job -> the correction in its payload]
    remark,  \* [Worker -> how far its remark job has got]
    request  \* [Client -> what its request has checked and still has to write]

corrVars == <<jobVars, window, corr, photo, about, remark, request>>

Correction == Submission \X Part   \* UNIQUE (submission_id, q_id)
Scored == Mark \cup {None}
CorrRow == [state : {"none", "submitted", "remarked", "accepted", "overridden", "released", "rejected"},
            remark : Scored, teacher : Scored, max : Scored, failed : BOOLEAN]
Request == [op : {"idle", "send", "accept", "override"},
            about : Correction \cup {None}, total : Scored]

NoRow == [state |-> "none", remark |-> None, teacher |-> None, max |-> None, failed |-> FALSE]
QueuedRow == [NoRow EXCEPT !.state = "queued", !.max = FirstMax]  \* mutant
SentRow == [NoRow EXCEPT !.state = "submitted", !.max = FirstMax]
NoRequest == [op |-> "idle", about |-> None, total |-> None]

CorrTypeOK ==
    /\ JobTypeOK
    /\ window \in BOOLEAN
    /\ corr \in [Correction -> CorrRow]
    /\ photo \in [Correction -> {"none", "kept", "deleted"}]
    /\ about \in [Job -> Correction \cup {None}]
    /\ remark \in [Worker -> {"off", "begin", "asked", "raised"}]
    /\ request \in [Client -> Request]

CorrInit ==
    /\ JobInit
    /\ window = FALSE
    /\ corr = [c \in Correction |-> NoRow]
    /\ photo = [c \in Correction |-> "none"]
    /\ about = [j \in Job |-> None]
    /\ remark = [w \in Worker |-> "off"]
    /\ request = [r \in Client |-> NoRequest]

Sent(c)  == corr[c].state # "none"
Final(c) == corr[c].state \in {"released", "rejected"}

-----------------------------------------------------------------------------
(* The rest of the program *)

\* The script is handed in, and marked with nothing left to review.
ScriptComes(s) ==
    /\ Upload(s) \/ (status[s] = "uploaded" /\ OthersWrite(s, "done"))
    /\ UNCHANGED <<window, corr, photo, about, remark, request>>

\* remove_hand_in(): the corrections go with the submission (ON DELETE CASCADE), their jobs,
\* which have no submission, stay.
ScriptGoes(s) ==
    /\ Forget(s)
    /\ corr' = [c \in Correction |-> IF c[1] = s THEN NoRow ELSE corr[c]]
    /\ photo' = [c \in Correction |-> IF c[1] = s THEN "none" ELSE photo[c]]
    /\ UNCHANGED <<window, about, remark, request>>

\* The class assignment is released, its reflect_days pass, or are changed.
WindowMoves ==
    /\ window' = ~window
    /\ UNCHANGED <<jobVars, corr, photo, about, remark, request>>

-----------------------------------------------------------------------------
(* The student *)

\* student_submit() and submit_correction() up to the transaction: feedback is ready, the
\* window is open, and nothing was sent for the part.
SendCheck(r, c) ==
    /\ request[r].op = "idle"
    /\ status[c[1]] = "done"
    /\ window
    /\ ~Sent(c)
    /\ request' = [request EXCEPT ![r] = [NoRequest EXCEPT !.op = "send", !.about = c]]
    /\ UNCHANGED <<jobVars, window, corr, photo, about, remark>>

\* ... and its transaction: the photo's page, the correction and its remark job, or, when the
\* unique index or a foreign key refuses the row, nothing.
RowFree(c)    == Exists(c[1])              \* mutant: without the unique index
Insertable(c) == Exists(c[1]) /\ ~Sent(c)
SendCommit(r) ==
    LET c == request[r].about
    IN  /\ request[r].op = "send"
        /\ request' = [request EXCEPT ![r] = NoRequest]
        /\ \/ /\ Insertable(c)
              /\ \E j \in Job : EnqueueUnique(j, None) /\ about' = [about EXCEPT ![j] = c]
              /\ corr' = [corr EXCEPT ![c] = SentRow]
              /\ photo' \in {[photo EXCEPT ![c] = p] : p \in {"none", "kept"}}
           \/ ~Insertable(c) /\ UNCHANGED <<jobVars, corr, photo, about>>
        /\ UNCHANGED <<window, remark>>

-----------------------------------------------------------------------------
(* The worker *)

At(w, step) == worker[w].pc = "running" /\ remark[w] = step
Goto(w, step) == remark' = [remark EXCEPT ![w] = step]
About(w) == about[worker[w].job]

ClaimRemark(w, j) ==
    /\ Claim(w, j)
    /\ Goto(w, "begin")
    /\ UNCHANGED <<window, corr, photo, about, request>>

\* Mutant of Begin: the error of the last attempt is cleared first.
BeginAfresh(w) ==
    LET c == About(w)
    IN  /\ At(w, "begin")
        /\ \/ ~Sent(c) /\ Fail(w) /\ Goto(w, "off")
           \/ Final(c) /\ RunnerReturns(w, "done") /\ Goto(w, "off")
           \/ Sent(c) /\ ~Final(c) /\ Goto(w, "asked") /\ UNCHANGED jobVars
        /\ corr' = [corr EXCEPT ![c].failed = FALSE]
        /\ UNCHANGED <<window, photo, about, request>>

\* run_remark_job() reads the correction: a missing one is an error, a final one is left alone.
Begin(w) ==
    LET c == About(w)
    IN  /\ At(w, "begin")
        /\ \/ ~Sent(c) /\ Fail(w) /\ Goto(w, "off")
           \/ Final(c) /\ RunnerReturns(w, "done") /\ Goto(w, "off")
           \/ Sent(c) /\ ~Final(c) /\ Goto(w, "asked") /\ UNCHANGED jobVars
        /\ UNCHANGED <<window, corr, photo, about, request>>

\* Both UPDATEs of the job say WHERE ... AND status = 'submitted'.
AnyRow(c)         == Sent(c)               \* mutant
NotFinal(c)       == Sent(c) /\ ~Final(c)  \* mutant
AwaitingRemark(c) == corr[c].state = "submitted"

\* The marker and the reviewer have answered: the mark is stored, with the part's max in the
\* scheme as it is now.
Store(w, total, max) ==
    LET c == About(w)
    IN  /\ At(w, "asked")
        /\ RunnerReturns(w, "done")
        /\ corr' = IF AwaitingRemark(c)
                   THEN [corr EXCEPT ![c].state = "remarked", ![c].remark = total,
                                     ![c].max = max, ![c].failed = FALSE]
                   ELSE corr
        /\ Goto(w, "off")
        /\ UNCHANGED <<window, photo, about, request>>

\* Mutant of RecordError: the error is for the job row only.
RaiseAtOnce(w) ==
    /\ At(w, "asked")
    /\ Goto(w, "raised")
    /\ UNCHANGED <<jobVars, window, corr, photo, about, request>>

\* Something raised: the error is written to the correction ...
RecordError(w) ==
    LET c == About(w)
    IN  /\ At(w, "asked")
        /\ corr' = IF AwaitingRemark(c) THEN [corr EXCEPT ![c].failed = TRUE] ELSE corr
        /\ Goto(w, "raised")
        /\ UNCHANGED <<jobVars, window, photo, about, request>>

\* ... and raised again to the loop, which retries or fails the job.
Raise(w) ==
    /\ At(w, "raised")
    /\ RetryLater(w) \/ Fail(w)
    /\ Goto(w, "off")
    /\ UNCHANGED <<window, corr, photo, about, request>>

\* The job is done; or a database error keeps its row from saying so, or the error of a failed
\* re-mark from being written.
Settle(w) ==
    /\ Finish(w) \/ WriteFails(w) \/ SettleLost(w)
    /\ Goto(w, "off")
    /\ UNCHANGED <<window, corr, photo, about, request>>

\* Loops begin and die, and back-offs pass.
WorkerProcess(w) ==
    /\ Start(w) \/ Crash(w)
    /\ Goto(w, "off")
    /\ UNCHANGED <<window, corr, photo, about, request>>

Elapse(j) ==
    /\ BackoffOver(j)
    /\ UNCHANGED <<window, corr, photo, about, remark, request>>

-----------------------------------------------------------------------------
(* The teacher *)

InTime == SerialDecisions => \A r \in Client : request[r].op \notin {"accept", "override"}

\* _retire_photo() of corrections that just became final.
Retired(final) ==
    [c \in Correction |-> IF c \in final /\ photo[c] = "kept" /\ ~KeepPhotos THEN "deleted" ELSE photo[c]]

\* decide(): the row is read and checked ...
AcceptUnseen(c) == Sent(c)  \* mutant: also one that was not re-marked
Acceptable(c)   == Sent(c) /\ corr[c].remark # None
DecideCheck(r, c, op, total) ==
    /\ request[r].op = "idle"
    /\ InTime
    /\ Sent(c) /\ ~Final(c)
    /\ \/ op = "accept" /\ Acceptable(c) /\ total = None
       \/ op = "override" /\ total \in Mark /\ total <= corr[c].max
    /\ request' = [request EXCEPT ![r] = [op |-> op, about |-> c, total |-> total]]
    /\ UNCHANGED <<jobVars, window, corr, photo, about, remark>>

\* Mutant of DecideWrite: the photo goes with the decision.
DecideAndRetire(r) ==
    LET c == request[r].about
    IN  /\ request[r].op \in {"accept", "override"}
        /\ corr' = IF ~Sent(c) THEN corr
                   ELSE [corr EXCEPT ![c].state = IF request[r].op = "accept" THEN "accepted" ELSE "overridden",
                                     ![c].teacher = request[r].total]
        /\ photo' = Retired({c})
        /\ request' = [request EXCEPT ![r] = NoRequest]
        /\ UNCHANGED <<jobVars, window, about, remark>>

\* ... and written, by id and whatever it has become; a row that is gone is not touched.
DecideWrite(r) ==
    LET c == request[r].about
    IN  /\ request[r].op \in {"accept", "override"}
        /\ corr' = IF ~Sent(c) THEN corr
                   ELSE [corr EXCEPT ![c].state = IF request[r].op = "accept" THEN "accepted" ELSE "overridden",
                                     ![c].teacher = request[r].total]
        /\ request' = [request EXCEPT ![r] = NoRequest]
        /\ UNCHANGED <<jobVars, window, photo, about, remark>>

\* decide(), rejecting: its UPDATE repeats the check, in one transaction with the photo.
Reject(c) ==
    /\ InTime
    /\ Sent(c) /\ ~Final(c)
    /\ corr' = [corr EXCEPT ![c].state = "rejected"]
    /\ photo' = Retired({c})
    /\ UNCHANGED <<jobVars, window, about, remark, request>>

\* release_corrections(): one transaction for the class.
Decided == {c \in Correction : corr[c].state \in {"accepted", "overridden"}}
ReleaseCorrections ==
    /\ InTime /\ Decided # {}
    /\ corr' = [c \in Correction |-> IF c \in Decided THEN [corr[c] EXCEPT !.state = "released"] ELSE corr[c]]
    /\ photo' = Retired(Decided)
    /\ UNCHANGED <<jobVars, window, about, remark, request>>

-----------------------------------------------------------------------------
RemarkStep(w) ==
    \/ Begin(w) \/ RecordError(w) \/ Raise(w) \/ Settle(w)
    \/ \E total \in Mark, max \in SchemeMax : Store(w, total, max)

CorrNext ==
    \/ \E s \in Submission : ScriptComes(s) \/ ScriptGoes(s)
    \/ WindowMoves
    \/ \E r \in Client, c \in Correction : SendCheck(r, c)
    \/ \E r \in Client : SendCommit(r) \/ DecideWrite(r)
    \/ \E r \in Client, c \in Correction, op \in {"accept", "override"}, total \in Scored :
          DecideCheck(r, c, op, total)
    \/ \E c \in Correction : Reject(c)
    \/ ReleaseCorrections
    \/ \E w \in Worker : RemarkStep(w) \/ WorkerProcess(w)
    \/ \E w \in Worker, j \in Job : ClaimRemark(w, j)
    \/ \E j \in Job : Elapse(j)

CorrSpec == CorrInit /\ [][CorrNext]_corrVars

\* The worker loop goes on, and time passes; no student or teacher has to do anything.
CorrFairness ==
    /\ \A w \in Worker : /\ WF_corrVars(RemarkStep(w))
                         /\ WF_corrVars(Start(w) /\ WorkerProcess(w))
                         /\ WF_corrVars(\E j \in Job : ClaimRemark(w, j))
    /\ \A j \in Job : WF_corrVars(Elapse(j))

FairCorrSpec == CorrSpec /\ CorrFairness

-----------------------------------------------------------------------------
(* What the student sees: STUDENT_STATUS and student_reflection() *)

StudentStatus(c) ==
    CASE corr[c].state = "none" -> "none"
      [] corr[c].state = "submitted" -> IF corr[c].failed THEN "waiting" ELSE "sent"
      [] corr[c].state \in {"remarked", "accepted", "overridden"} -> "waiting"
      [] Final(c) -> corr[c].state

-----------------------------------------------------------------------------
(* Properties *)

\* One correction, one re-mark: however often a correction is sent, its row and its job are
\* created together and once.
OneRemarkJob ==
    \A c \in Correction :
        /\ Sent(c) => \E j \in Job : about[j] = c
        /\ \A i, j \in Job : about[i] = c /\ about[j] = c => i = j

\* A correction the student sees as sent is still in the queue or being re-marked: when its job
\* has ended, it is with the teacher.  (No database errors.)
SentHasJob ==
    \A c \in Correction : StudentStatus(c) = "sent" => \E j \in Job : about[j] = c /\ Active(j)

\* A mark that is shown to the student was given by the teacher or by the re-mark; it is never
\* the 0 that released_marks() falls back to.
ReleasedHasMark ==
    \A c \in Correction :
        corr[c].state \in {"accepted", "released"} => corr[c].teacher # None \/ corr[c].remark # None

\* The photo of a correction goes when the correction is final, and not before: the teacher can
\* look at it until then.  (The teacher waits for each decision.)
PhotoGoesWhenFinal ==
    \A c \in Correction :
        /\ photo[c] = "deleted" => Final(c)
        /\ photo[c] = "kept" /\ Final(c) => KeepPhotos

\* A correction is whole at every stage: a job while it is sent, a mark when it is shown, and its
\* photo until it is final.
CorrectionIsWhole == OneRemarkJob /\ ReleasedHasMark /\ PhotoGoesWhenFinal

\* A correction that was released or rejected stays so, with its marks, until its script is
\* removed.  (The teacher waits for each decision.)
FinalStays ==
    [][\A c \in Correction : Final(c) => corr'[c] \in {corr[c], NoRow}]_corrVars

\* What the teacher has decided is not undone by a re-mark that comes late or is run again: the
\* mark that was accepted stays the mark that is released.
DecidedStays ==
    [][\A c \in Decided : /\ corr'[c].state \notin {"submitted", "remarked"}
                          /\ corr'[c].remark # corr[c].remark => corr'[c] = NoRow]_corrVars

\* No decision of the teacher is undone, neither by another request nor by a late re-mark.
DecisionsStay == FinalStays /\ DecidedStays

\* A student whose correction is with the teacher never sees it as just sent again, though its
\* job is retried after an error the student was not told of.
StudentNeverSeesBack ==
    [][\A c \in Correction : StudentStatus(c) = "waiting" => StudentStatus(c)' # "sent"]_corrVars

\* Every correction is re-marked, or reaches the teacher with the error that kept it from being.
\* (No database errors.)
EverySentIsAnswered ==
    \A c \in Correction : StudentStatus(c) = "sent" ~> StudentStatus(c) # "sent"

\* No correction hangs: one that is sent has a job, and is answered in the end.
SentIsAnswered == []SentHasJob /\ EverySentIsAnswered
=============================================================================
