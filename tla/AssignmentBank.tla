--------------------------- MODULE AssignmentBank ---------------------------
(***************************************************************************)
(* The assignment bank: templates that the teacher edits in an editor tab  *)
(* which saves drafts by itself, that extraction jobs fill from uploaded   *)
(* pages, and that mark jobs read.  Three parties write one row: a PUT     *)
(* writes all of it, an extraction job one column, and a tab shows what it *)
(* loaded some time ago.                                                   *)
(*                                                                         *)
(* Sources: web/services/assignments.py, web/routers/assignments.py,       *)
(* worker/extract_jobs.py, worker/mark_job.py (_v2_template),              *)
(* web/services/submissions.py (create, retry), and of the single-page     *)
(* application AssignmentEditor.tsx.                                       *)
(*                                                                         *)
(* Rows are known by the shape they have and by the reading they descend   *)
(* from; what the teacher types on top of a reading still descends from    *)
(* it.  Left out: titles, subjects, contexts, criteria, and the model      *)
(* fields, which ModelChoice has.                                          *)
(***************************************************************************)
EXTENDS Naturals

CONSTANTS
    None,
    Template, Tab, Script,
    Keep,          \* what the teacher may ask to keep after marking; {} follows Settings
    LoadsAtOnce,   \* does no job end between the two answers a tab loads from?
    PromptSaves,   \* does no reading start or end while a PUT is on its way?
    MaxReads,      \* readings that end, at most
    MaxMishaps     \* failed attempts and crashes, at most

RETENTION_MODES == {"crops", "pages", "none"}

BankAssumption ==
    /\ None \notin Template
    /\ Keep \subseteq {{}} \cup {{m} : m \in RETENTION_MODES}
    /\ LoadsAtOnce \in BOOLEAN /\ PromptSaves \in BOOLEAN
    /\ MaxReads \in Nat /\ MaxMishaps \in Nat

SCHEME_KINDS == {"criteria", "mark_scheme", "rubric"}
What         == {"paper", "scheme"}

VARIABLES
    tpl,      \* assignment_templates: [Template -> row]
    pages,    \* which of its two uploads a template has
    job,      \* the latest extraction job of a template for each upload, and the kind it read
    tab,      \* editor tabs: what each loaded, shows and has on its way
    script,   \* scripts: what each was uploaded against, and what its run was marked with
    asked,    \* history: what the last save of a template asked to keep
    reads,    \* readings that ended so far
    mishaps

bankVars == <<tpl, pages, job, tab, script, asked, reads, mishaps>>

\* A column of rows: the kind they are shaped for, and the reading they descend from (0: typed).
Rows   == [as : {"none"} \cup SCHEME_KINDS, at : 0 .. MaxReads]
Typed  == [as |-> "none", at |-> 0]
Form   == [kind : SCHEME_KINDS, questions : 0 .. MaxReads, scheme : Rows,
           keep : {{}} \cup {{m} : m \in RETENTION_MODES}]
Row    == [row : {"unused", "live", "deleted"}, kind : SCHEME_KINDS, questions : 0 .. MaxReads,
           scheme : Rows, keep : {{}} \cup {{m} : m \in RETENTION_MODES}]
Job    == [st : {"none", "queued", "running", "done", "failed"}, kind : SCHEME_KINDS]
Editor == [pc : {"idle", "loading", "editing"}, t : Template \cup {None}, got : SUBSET {"template", "status"},
           form : Form, knows : SUBSET What, put : SUBSET Form]
Run    == [st : {"none", "uploaded", "marked", "failed"}, t : Template \cup {None}, kind : SCHEME_KINDS,
           by : SCHEME_KINDS, as : {"none"} \cup SCHEME_KINDS]

EMPTY  == [kind |-> "criteria", questions |-> 0, scheme |-> Typed, keep |-> {}]
Unused == [row |-> "unused", kind |-> "criteria", questions |-> 0, scheme |-> Typed, keep |-> {}]
NoJob  == [st |-> "none", kind |-> "criteria"]
Closed == [pc |-> "idle", t |-> None, got |-> {}, form |-> EMPTY, knows |-> {}, put |-> {}]
NoRun  == [st |-> "none", t |-> None, kind |-> "criteria", by |-> "criteria", as |-> "none"]

BankTypeOK ==
    /\ tpl \in [Template -> Row]
    /\ pages \in [Template -> SUBSET What]
    /\ job \in [Template -> [What -> Job]]
    /\ \A b \in Tab : tab[b] \in Editor /\ \A f, g \in tab[b].put : f = g
    /\ script \in [Script -> Run]
    /\ asked \in [Template -> {{}} \cup {{m} : m \in RETENTION_MODES}]
    /\ reads \in 0 .. MaxReads /\ mishaps \in 0 .. MaxMishaps

BankInit ==
    /\ tpl = [t \in Template |-> Unused]
    /\ pages = [t \in Template |-> {}]
    /\ job = [t \in Template |-> [w \in What |-> NoJob]]
    /\ tab = [b \in Tab |-> Closed]
    /\ script = [s \in Script |-> NoRun]
    /\ asked = [t \in Template |-> {}]
    /\ reads = 0 /\ mishaps = 0

Live(t)      == tpl[t].row = "live"
Active(t, w) == job[t][w].st \in {"queued", "running"}
Saving(t)    == \E b \in Tab : tab[b].put # {} /\ tab[b].t = t
Prompt(t)    == PromptSaves => ~Saving(t)
Shows(b, e)  == tab' = [tab EXCEPT ![b] = e]
Sets(t, w, j) == job' = [job EXCEPT ![t][w] = j]
Mishap       == mishaps < MaxMishaps /\ mishaps' = mishaps + 1

-----------------------------------------------------------------------------
(* What a save stores *)

\* toBody(): rows of another shape drop out.
BodyAsShown(f) == f  \* mutant
Body(f) == [f EXCEPT !.scheme.as = IF @ = f.kind THEN @ ELSE "none"]

\* The body says what to keep twice, as a mode and as the old flag (keep whole pages or not);
\* _validate() is not passed the mode, so what is stored comes from the flag.
FlagOf(mode)              == mode # {"pages"}
FlagStored(mode)          == IF mode = {} THEN {} ELSE {"delete"}  \* mutant
retention_from_flag(mode) == IF mode = {} THEN {} ELSE IF FlagOf(mode) THEN {"crops"} ELSE {"pages"}

Columns(f) == [row |-> "live", kind |-> f.kind, questions |-> f.questions, scheme |-> f.scheme,
               keep |-> retention_from_flag(f.keep)]

\* fromTemplate()
Loaded(t) == [kind |-> tpl[t].kind, questions |-> tpl[t].questions, scheme |-> tpl[t].scheme, keep |-> tpl[t].keep]

-----------------------------------------------------------------------------
(* The editor *)

\* create_template(), from an editor on a new assignment, which goes on editing it.
Create(b, t) ==
    /\ tab[b].pc = "idle" /\ tpl[t].row = "unused"
    /\ \E k \in SCHEME_KINDS, keep \in Keep :
         LET f == [EMPTY EXCEPT !.kind = k, !.keep = keep] IN
         /\ tpl' = [tpl EXCEPT ![t] = Columns(f)]
         /\ asked' = [asked EXCEPT ![t] = keep]
         /\ Shows(b, [Closed EXCEPT !.pc = "editing", !.t = t, !.form = f])
    /\ UNCHANGED <<pages, job, script, reads, mishaps>>

\* The editor asks for the template and for the status of its jobs, both at once.
Open(b, t) ==
    /\ tab[b].pc = "idle" /\ Live(t)
    /\ Shows(b, [Closed EXCEPT !.pc = "loading", !.t = t])
    /\ UNCHANGED <<tpl, pages, job, script, asked, reads, mishaps>>

\* The answers come one by one; with both, the tab can be edited.
Answer(b, answers) ==
    LET e == tab[b]  t == e.t
        both == e.got \cup answers = {"template", "status"}
    IN
    /\ e.pc = "loading" /\ answers # {} /\ answers \cap e.got = {}
    /\ LoadsAtOnce => answers = {"template", "status"}
    /\ Shows(b, IF ~Live(t) THEN Closed ELSE
           [e EXCEPT !.got = IF both THEN {} ELSE answers,
                     !.pc = IF both THEN "editing" ELSE @,
                     !.form = IF "template" \in answers THEN Loaded(t) ELSE @,
                     !.knows = IF "status" \in answers THEN {w \in What : Active(t, w)} ELSE @])
    /\ UNCHANGED <<tpl, pages, job, script, asked, reads, mishaps>>

\* The teacher changes the type, which clears the rows; types rows; changes what is kept.  The
\* tables are locked while the tab knows of a reading, the type is not.  What is typed while a PUT
\* is on its way goes with the next one, so it may as well be typed after the PUT.
Type(b) ==
    LET e == tab[b] IN
    /\ e.pc = "editing" /\ e.put = {}
    /\ \/ \E k \in SCHEME_KINDS \ {e.form.kind} :
            Shows(b, [e EXCEPT !.form.kind = k, !.form.scheme.as = "none"])
       \/ /\ e.knows = {} /\ e.form.kind # "criteria" /\ e.form.scheme.as # e.form.kind
          /\ Shows(b, [e EXCEPT !.form.scheme.as = e.form.kind])
       \/ \E keep \in Keep \ {e.form.keep} : Shows(b, [e EXCEPT !.form.keep = keep])
    /\ UNCHANGED <<tpl, pages, job, script, asked, reads, mishaps>>

\* autosave() and save(): one PUT at a time, none while the tab knows of a reading.
SendWhileReading(b) ==  \* mutant
    /\ tab[b].pc = "editing" /\ tab[b].put = {}
    /\ Shows(b, [tab[b] EXCEPT !.put = {Body(tab[b].form)}])
    /\ UNCHANGED <<tpl, pages, job, script, asked, reads, mishaps>>
Send(b) ==
    /\ tab[b].pc = "editing" /\ tab[b].put = {} /\ tab[b].knows = {}
    /\ Shows(b, [tab[b] EXCEPT !.put = {Body(tab[b].form)}])
    /\ UNCHANGED <<tpl, pages, job, script, asked, reads, mishaps>>

\* update_template(): 404 for a deleted template, else every column as sent.  The pages stay.
Save(b) ==
    LET t == tab[b].t IN
    \E body \in tab[b].put :
      /\ Shows(b, [tab[b] EXCEPT !.put = {}])
      /\ tpl' = IF Live(t) THEN [tpl EXCEPT ![t] = Columns(body)] ELSE tpl
      /\ asked' = IF Live(t) THEN [asked EXCEPT ![t] = body.keep] ELSE asked
      /\ UNCHANGED <<pages, job, script, reads, mishaps>>

\* read(): enqueue_extract() refuses without pages, or a scheme without a type; a job that is there
\* already (409) is as good as a new one.
Read(b, w) ==
    LET t == tab[b].t IN
    /\ tab[b].pc = "editing" /\ w \notin tab[b].knows
    /\ Live(t) /\ w \in pages[t] /\ Prompt(t)
    /\ w = "scheme" => tpl[t].kind # "criteria"
    /\ job' = IF Active(t, w) THEN job ELSE [job EXCEPT ![t][w] = [NoJob EXCEPT !.st = "queued"]]
    /\ Shows(b, [tab[b] EXCEPT !.knows = @ \cup {w}])
    /\ UNCHANGED <<tpl, pages, script, asked, reads, mishaps>>

\* The poll: the columns of the readings that ended are taken from the server.
PollDoneOnly(b) ==  \* mutant: a reading that failed is waited for
    LET e == tab[b]  t == e.t
        finished == {w \in e.knows : job[t][w].st = "done"}
    IN
    /\ e.pc = "editing" /\ e.knows # {} /\ Live(t)
    /\ Shows(b, [e EXCEPT !.knows = @ \ finished,
                          !.form.questions = IF "paper" \in finished THEN tpl[t].questions ELSE @,
                          !.form.scheme = IF "scheme" \in finished THEN tpl[t].scheme ELSE @])
    /\ UNCHANGED <<tpl, pages, job, script, asked, reads, mishaps>>
Poll(b) ==
    LET e == tab[b]  t == e.t
        finished == {w \in e.knows : job[t][w].st = "done"}
    IN
    /\ e.pc = "editing" /\ e.knows # {} /\ Live(t)
    /\ Shows(b, [e EXCEPT !.knows = {w \in What : Active(t, w)},
                          !.form.questions = IF "paper" \in finished THEN tpl[t].questions ELSE @,
                          !.form.scheme = IF "scheme" \in finished THEN tpl[t].scheme ELSE @])
    /\ UNCHANGED <<tpl, pages, job, script, asked, reads, mishaps>>

Close(b) ==
    /\ tab[b].pc = "editing" /\ tab[b].put = {}
    /\ Shows(b, Closed)
    /\ UNCHANGED <<tpl, pages, job, script, asked, reads, mishaps>>

-----------------------------------------------------------------------------
(* Other requests *)

\* attach_paper(), attach_scheme(): the new pages replace the old ones of that kind.
Attach(t, w) ==
    /\ Live(t) /\ w \notin pages[t]
    /\ pages' = [pages EXCEPT ![t] = @ \cup {w}]
    /\ UNCHANGED <<tpl, job, tab, script, asked, reads, mishaps>>

\* duplicate_template(): the row and its pages, not its jobs.
Duplicate(t, u) ==
    /\ Live(t) /\ tpl[u].row = "unused"
    /\ tpl' = [tpl EXCEPT ![u] = tpl[t]]
    /\ pages' = [pages EXCEPT ![u] = pages[t]]
    /\ asked' = [asked EXCEPT ![u] = asked[t]]
    /\ UNCHANGED <<job, tab, script, reads, mishaps>>

\* import_templates(): entries of an export that are not there yet, without pages or a model.
Import(t) ==
    /\ tpl[t].row = "unused"
    /\ \E k \in SCHEME_KINDS, as \in {"none"} \cup SCHEME_KINDS :
         /\ as \in {"none", k} \ {"criteria"}
         /\ tpl' = [tpl EXCEPT ![t] = [Unused EXCEPT !.row = "live", !.kind = k, !.scheme.as = as]]
    /\ UNCHANGED <<pages, job, tab, script, asked, reads, mishaps>>

\* delete_template(); with scripts that reference it only by force.
Delete(t) ==
    /\ Live(t)
    /\ tpl' = [tpl EXCEPT ![t] = [Unused EXCEPT !.row = "deleted"]]
    /\ pages' = [pages EXCEPT ![t] = {}]
    /\ asked' = [asked EXCEPT ![t] = {}]
    /\ UNCHANGED <<job, tab, script, reads, mishaps>>

\* create_submission(): a mark scheme or a rubric must have rows; the type is kept with the script.
Upload(s, t) ==
    /\ script[s].st = "none" /\ Live(t)
    /\ tpl[t].kind = "criteria" \/ tpl[t].scheme.as # "none"
    /\ script' = [script EXCEPT ![s] = [NoRun EXCEPT !.st = "uploaded", !.t = t, !.kind = tpl[t].kind]]
    /\ UNCHANGED <<tpl, pages, job, tab, asked, reads, mishaps>>

Retry(s) ==
    /\ script[s].st = "failed"
    /\ mishaps < MaxMishaps /\ mishaps' = mishaps + 1
    /\ script' = [script EXCEPT ![s].st = "uploaded"]
    /\ UNCHANGED <<tpl, pages, job, tab, asked, reads>>

-----------------------------------------------------------------------------
(* The worker *)

\* run_mark_job(): refused when the template is gone or has another type; rows of a shape the
\* pipeline cannot validate fail the job too.
RefusedIfGone(r) == ~Live(r.t)   \* mutant: retyped templates are let through
Refused(r) == ~Live(r.t) \/ tpl[r.t].kind # r.kind
Mark(s) ==
    LET r == script[s]  t == r.t IN
    /\ r.st = "uploaded"
    /\ script' = [script EXCEPT ![s] =
           IF Refused(r) \/ (tpl[t].kind # "criteria" /\ tpl[t].scheme.as \notin {"none", tpl[t].kind})
           THEN [r EXCEPT !.st = "failed"]
           ELSE [r EXCEPT !.st = "marked", !.by = tpl[t].kind, !.as = tpl[t].scheme.as]]
    /\ UNCHANGED <<tpl, pages, job, tab, asked, reads, mishaps>>

\* run_paper_extract_job(), run_scheme_extract_job(): everything is read first.
Starts(t, w) == Live(t) /\ w \in pages[t] /\ (w = "scheme" => tpl[t].kind # "criteria")
StartJob(t, w) ==
    /\ job[t][w].st = "queued" /\ Prompt(t)
    /\ Sets(t, w, [st |-> IF Starts(t, w) THEN "running" ELSE "failed", kind |-> tpl[t].kind])
    /\ UNCHANGED <<tpl, pages, tab, script, asked, reads, mishaps>>

\* The model has answered; one column is written, in the shape of the type the job started with.
EndJob(t, w) ==
    /\ job[t][w].st = "running" /\ reads < MaxReads /\ Prompt(t)
    /\ tpl' = IF ~Live(t) THEN tpl
              ELSE IF w = "paper" THEN [tpl EXCEPT ![t].questions = reads + 1]
              ELSE [tpl EXCEPT ![t].scheme = [as |-> job[t][w].kind, at |-> reads + 1]]
    /\ reads' = reads + 1
    /\ Sets(t, w, [NoJob EXCEPT !.st = "done"])
    /\ UNCHANGED <<pages, tab, script, asked, mishaps>>

\* A failed attempt that may be retried, a crash (reset_running()), or the last attempt.
JobFails(t, w) ==
    /\ job[t][w].st = "running"
    /\ \/ Sets(t, w, [NoJob EXCEPT !.st = "queued"]) /\ Mishap
       \/ Sets(t, w, [NoJob EXCEPT !.st = "failed"]) /\ UNCHANGED mishaps
    /\ UNCHANGED <<tpl, pages, tab, script, asked, reads>>

BankNext ==
    \/ \E b \in Tab : Type(b) \/ Send(b) \/ Save(b) \/ Poll(b) \/ Close(b)
    \/ \E b \in Tab, t \in Template : Create(b, t) \/ Open(b, t)
    \/ \E b \in Tab, answers \in SUBSET {"template", "status"} : Answer(b, answers)
    \/ \E b \in Tab, w \in What : Read(b, w)
    \/ \E t \in Template, w \in What : Attach(t, w) \/ StartJob(t, w) \/ EndJob(t, w) \/ JobFails(t, w)
    \/ \E t, u \in Template : Duplicate(t, u)
    \/ \E t \in Template : Import(t) \/ Delete(t)
    \/ \E s \in Script, t \in Template : Upload(s, t)
    \/ \E s \in Script : Retry(s) \/ Mark(s)

\* A running job ends one way or the other, a queued one is claimed, an open tab polls, a PUT arrives.
BankFairness ==
    /\ \A t \in Template, w \in What :
          /\ WF_bankVars(StartJob(t, w))
          /\ WF_bankVars(EndJob(t, w) \/ JobFails(t, w))
    /\ \A b \in Tab : WF_bankVars(Poll(b)) /\ WF_bankVars(Save(b))

BankSpec == BankInit /\ [][BankNext]_bankVars /\ BankFairness

-----------------------------------------------------------------------------
(* Properties *)

\* The rows of a template have the shape of its type, although a job writes the shape of the type
\* it read a minute before and a PUT may change the type in between: marking validates the rows
\* against the type, and would fail every script of the template.
RowsFitKind ==
    \A t \in Template : Live(t) => tpl[t].scheme.as \in {"none", tpl[t].kind}

\* A script is marked as what it was uploaded against, with rows of that shape, whatever became of
\* the template between upload, marking and retry.
MarkedAsUploaded ==
    \A s \in Script : script[s].st = "marked" =>
        /\ script[s].by = script[s].kind
        /\ script[s].kind # "criteria" => script[s].as \in {"none", script[s].kind}

\* The type of a template, the shape of its rows and the type its scripts are marked as agree.
TypesAgree == RowsFitKind /\ MarkedAsUploaded

\* What is stored for "keep after marking" is what the last save asked for.
KeepsAsAsked == \A t \in Template : Live(t) => tpl[t].keep = asked[t]

\* What a job has read stays until somebody who has seen it saves: no PUT brings back the rows a
\* tab had loaded before, and no job undoes the other's column.
ReadingsStay ==
    [][\A t \in Template : Live(t) /\ Live(t)' =>
          tpl'[t].questions >= tpl[t].questions /\ tpl'[t].scheme.at >= tpl[t].scheme.at]_bankVars

\* A tab that waits for a reading, and saves nothing meanwhile, does not wait for ever, unless
\* the template is deleted under it.
WaitEnds ==
    \A b \in Tab, w \in What :
        tab[b].pc = "editing" /\ w \in tab[b].knows ~> w \notin tab[b].knows \/ ~Live(tab[b].t)

\* What a job reads comes to the teacher who waits for it, and stays.
ReadingsArrive == ReadingsStay /\ WaitEnds
=============================================================================
