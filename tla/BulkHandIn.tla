----------------------------- MODULE BulkHandIn -----------------------------
(***************************************************************************)
(* The class list of one class and the hand-ins to one of its assignments: *)
(* one zip for the whole class (web/services/class_assignments.py), a      *)
(* student's own hand-in (web/services/student.py), a teacher taking one   *)
(* back, and a new class list put in the place of the old one              *)
(* (web/services/classlist.py).  Requests run side by side, each a         *)
(* sequence of steps with what it read at its start in hand.               *)
(*                                                                         *)
(* The assignment is open all the time; opening, closing, releasing and    *)
(* deleting it are ClassSet's, what a mark job does MarkingLifecycle's.    *)
(***************************************************************************)
EXTENDS Intake, FiniteSets

CONSTANTS
    Client,              \* requests that may be under way together
    Dialog,              \* those of them that may be class uploads
    FirstList,           \* the class list at the start, and
    Lists,               \* those a teacher sends: sequences of register numbers
    ClassZips,           \* the class zips: sequences of entries
    Uploads,             \* what a student or a teacher hands in for one student
    MAX_HAND_IN_PAGES,   \* pages a student may hand in
    MAX_PAGES,           \* pages of any script
    Kinds,               \* what the assignment's template may be: "scheme" (or a rubric), "bare" (no scheme yet), "criteria"
    MaxScripts,          \* bound: scripts of one student that requests know of
    MaxRows,             \* bound: student rows ever created
    MaxRunning           \* bound: mark jobs running together

BulkAssumption ==
    /\ FirstList \in Seq(Nat) /\ Len(FirstList) <= MaxRows
    /\ \A i, j \in DOMAIN FirstList : FirstList[i] = FirstList[j] => i = j
    /\ \A list \in Lists : list \in Seq(Nat)
    /\ MaxScripts \in Nat /\ MaxRows \in Nat /\ MaxRunning \in Nat
    /\ Dialog \subseteq Client /\ "gone" \notin Kinds
    /\ ClassZips \subseteq OuterEntry /\ Uploads \subseteq Seq(OuterEntry)
    /\ \A u \in Uploads : \A e \in ToSet(u) : e.reg = 0 /\ \A f \in ToSet(e.inside) : f.reg = 0
    /\ {MAX_FILES, MAX_FILE_BYTES, MAX_UPLOAD_BYTES, MAX_ZIP_DECOMPRESSED, MAX_PAGES} \subseteq Nat
    /\ MAX_HAND_IN_PAGES \in 0..MAX_PAGES

VARIABLES
    students,   \* the rows of the class list by id: a register number, 0 once deleted
    scripts,    \* the rows of submissions that are there
    template,   \* the template in the bank: one of Kinds, or "gone"
    request,    \* what each client's request holds
    struck      \* history: the students struck off while a request had them to hand in for

bulkVars == <<students, scripts, template, request, struck>>

NoRequest == [at |-> "none"]

OnList(id) == id \in DOMAIN students /\ students[id] # 0
Listed == {[id |-> i, reg |-> students[i]] : i \in {j \in DOMAIN students : students[j] # 0}}
ScriptsOf(id) == {x \in scripts : x.student = id}
Untouched == UNCHANGED <<students, scripts, template, struck>>

Goes(c, at) == request' = [request EXCEPT ![c].at = at]
Ends(c) == request' = [request EXCEPT ![c] = NoRequest]

BulkInit ==
    /\ students = FirstList
    /\ scripts = {}
    /\ template \in Kinds
    /\ request = [c \in Client |-> NoRequest]
    /\ struck = {}

----------------------------------------------------------------------------
(* Handing in: the checks of hand_in and create_submission, then the rows. *)

\* What create_submission makes of an upload before it looks at the template: the pages and files, or an error.
Sorted(upload, most) ==
    LET it == classify_uploads(upload, Submission)
        pages == process_uploads(it.pages, most)
        error == IF it.error # {} THEN it.error
                 ELSE IF it.pages \o it.files = <<>> THEN {"no_files"} ELSE pages.error
    IN  [error |-> error, leaves |-> pages.stored, pages |-> it.pages, files |-> it.files, kind |-> input_kind(it)]

\* hand_in's own checks come first.
RefusedNow(id, sorted) ==
    \/ template = "gone"
    \/ ScriptsOf(id) # {}
    \/ sorted.error # {}

\* create_submission reads the template again, after the pages are rasterised.
FilesRefused(id, sorted) == sorted.files # <<>> /\ template # "scheme"
RefusedAtLast(id, sorted) ==
    \/ template = "bare"
    \/ sorted.files # <<>> /\ template # "scheme"
    \/ ScriptsOf(id) # {}

\* Ids are never used again: one of a student's that nobody holds stands for a new one.
NewId(n) ==
    /\ n \notin {x.id : x \in scripts}
    /\ \A c \in Client : request[c].at \in {"removing", "deleting"} => n \notin request[c].found

Insert(id, sorted) ==
    \E n \in 1..MaxScripts :
        /\ NewId(<<id, n>>) /\ \A k \in 1..(n - 1) : ~NewId(<<id, k>>)
        /\ scripts' = scripts \cup
              {[id |-> <<id, n>>, student |-> id, running |-> FALSE, leaves |-> sorted.leaves,
                holds |-> sorted.pages \o sorted.files, files |-> Len(sorted.files), kind |-> sorted.kind]}

----------------------------------------------------------------------------
(* One student's hand-in, from the student's phone or by the teacher. *)

\* open_for_hand_in and get_student, or the teacher's route: the student is on the list when the request comes.
Upload(c, id, upload, most) ==
    /\ request[c] = NoRequest /\ OnList(id)
    /\ request' = [request EXCEPT ![c] = [at |-> "handing", id |-> id, upload |-> upload, most |-> most]]
    /\ Untouched

\* hand_in_pages counts the files before it reads one; the teacher's route does not.
StudentUpload(c, id, upload) ==
    Len(upload) <= MAX_HAND_IN_PAGES /\ Upload(c, id, upload, MAX_HAND_IN_PAGES)
TeacherUpload(c, id, upload) == Upload(c, id, upload, MAX_PAGES)

UploadCheck(c) ==
    LET r == request[c]
        sorted == Sorted(r.upload, r.most)
    IN  /\ r.at = "handing"
        /\ \/ RefusedNow(r.id, sorted) /\ Ends(c)
           \/ ~RefusedNow(r.id, sorted) /\ Goes(c, "storing")
        /\ Untouched

UploadStore(c) ==
    LET r == request[c]
        sorted == Sorted(r.upload, r.most)
    IN  /\ r.at = "storing"
        /\ \/ RefusedAtLast(r.id, sorted) /\ UNCHANGED scripts
           \/ ~RefusedAtLast(r.id, sorted) /\ Insert(r.id, sorted)
        /\ Ends(c) /\ UNCHANGED <<students, template, struck>>

----------------------------------------------------------------------------
(* A hand-in taken back. *)

\* The script whose row the check found; no error means it may go.
RemovalRefused(id) == ScriptsOf(id) = {} \/ \E x \in ScriptsOf(id) : x.running
Found(id) == {x.id : x \in ScriptsOf(id)}

TakeBackAsked(c, id) ==
    /\ request[c] = NoRequest /\ ~RemovalRefused(id)
    /\ request' = [request EXCEPT ![c] = [at |-> "removing", found |-> Found(id)]]
    /\ Untouched

Without(found) == {x \in scripts : x.id \notin found}

TakeBack(c) ==
    /\ request[c].at = "removing"
    /\ scripts' = Without(request[c].found)
    /\ Ends(c) /\ UNCHANGED <<students, template, struck>>

----------------------------------------------------------------------------
(* The whole class at once. *)

\* _validate_bulk_zip, then _read_bulk_zip; a locked entry of any kind refuses the zip.
ZipIsRead(zip) ==
    /\ classify_uploads(<<zip>>, WholeClass).error = {}
    /\ \A e \in ToSet(zip.inside) : e.way = "in" => ~e.locked
Entries(zip) == Those(zip.inside, {e \in ToSet(zip.inside) : e.way = "in"})

BulkUsable(e) == e.size > 0 /\ Usable(e)
FilesFor(s, zip, list) ==
    LET theirs == match_entries(Entries(zip), list).matched[s] IN Those(theirs, {e \in ToSet(theirs) : BulkUsable(e)})

HandedInIds == {x.student : x \in scripts}
NextInRegOrder(matched) == CHOOSE s \in matched : \A t \in matched : s.reg <= t.reg

\* What the dialog shows of each matched student, before anything is created.
BulkPreview(c, zip) ==
    LET plan == match_entries(Entries(zip), Listed)
    IN  /\ request[c] = NoRequest /\ ZipIsRead(zip)
        /\ request' = [request EXCEPT ![c] =
               [at |-> "shown", zip |-> zip,
                lines |-> {[id |-> s.id, files |-> Len(FilesFor(s, zip, Listed)), already |-> s.id \in HandedInIds] :
                             s \in DOMAIN plan.matched}]]
        /\ Untouched

\* The dialog offers Upload when some student gets something, Replace when one of those has handed in.
MayCommit(lines) == \E l \in lines : l.files > 0
MayReplace(lines) == \E l \in lines : l.files > 0 /\ l.already

\* The same zip again: the class list is read afresh.
BulkCommit(c, replace) ==
    LET r == request[c]
    IN  /\ r.at = "shown" /\ MayCommit(r.lines) /\ (replace => MayReplace(r.lines))
        /\ request' = [request EXCEPT ![c] = [at |-> "listed", zip |-> r.zip, replace |-> replace, list |-> Listed]]
        /\ Untouched

\* Then who has handed in. `took` is what this request has deleted, which no variable of the code holds.
BulkBegins(c) ==
    LET r == request[c]
        plan == match_entries(Entries(r.zip), r.list)
    IN  /\ r.at = "listed"
        /\ request' = [request EXCEPT ![c] =
               [at |-> "next", zip |-> r.zip, replace |-> r.replace, list |-> r.list, had |-> HandedInIds,
                todo |-> DOMAIN plan.matched, removed |-> FALSE,
                created |-> {}, skipped |-> {}, failed |-> {}, took |-> {}, found |-> {}]]
        /\ Untouched

Now(r) == NextInRegOrder(r.todo)
Already(r) == Now(r).id \in r.had
Theirs(r) == FilesFor(Now(r), r.zip, r.list)
TurnedDown(files) == LET it == classify_uploads(files, Submission) IN it.error # {} \/ it.pages \o it.files = <<>>
Turned(r) == TurnedDown(Theirs(r))

Done(r) == [r EXCEPT !.at = "next", !.todo = @ \ {Now(r)}, !.removed = FALSE]
Skipped(r) == [Done(r) EXCEPT !.skipped = @ \cup {Now(r).id}]
Created(r) == [Done(r) EXCEPT !.created = @ \cup {Now(r).id}]
Failed(r) == [Done(r) EXCEPT !.failed = @ \cup {[id |-> Now(r).id, gone |-> r.removed]}]

\* A student who is skipped, one whose files are turned down, or one the upload goes on with.
TakenOn(r) == [r EXCEPT !.at = IF Already(r) THEN "clearing" ELSE "checking"]
StudentClearedFirst(r) ==
    IF Already(r) THEN (IF r.replace THEN TakenOn(r) ELSE Skipped(r))
    ELSE IF Turned(r) THEN Failed(r)
    ELSE TakenOn(r)
Student(r) ==
    IF Already(r) /\ ~r.replace THEN Skipped(r)
    ELSE IF Turned(r) THEN Failed(r)
    ELSE TakenOn(r)

Becomes(c, r) == request' = [request EXCEPT ![c] = r]

BulkStudent(c) ==
    /\ request[c].at = "next" /\ request[c].todo # {}
    /\ Becomes(c, Student(request[c]))
    /\ Untouched

BulkClear(c) ==
    LET r == request[c]
    IN  /\ r.at = "clearing"
        /\ \/ RemovalRefused(Now(r).id) /\ Becomes(c, Failed(r))
           \/ ~RemovalRefused(Now(r).id) /\ Becomes(c, [r EXCEPT !.at = "deleting", !.found = Found(Now(r).id)])
        /\ Untouched

ClearedUnsaid(r) == [r EXCEPT !.at = "checking"]
Cleared(r) == [r EXCEPT !.at = "checking", !.removed = TRUE]

BulkRemove(c) ==
    LET r == request[c]
    IN  /\ r.at = "deleting"
        /\ scripts' = Without(r.found)
        /\ Becomes(c, [Cleared(r) EXCEPT !.found = {}, !.took = @ \cup {x.student : x \in scripts \ Without(r.found)}])
        /\ UNCHANGED <<students, template, struck>>

BulkCheck(c) ==
    LET r == request[c]
        sorted == Sorted(Theirs(r), MAX_PAGES)
    IN  /\ r.at = "checking"
        /\ \/ RefusedNow(Now(r).id, sorted) /\ Becomes(c, Failed(r))
           \/ ~RefusedNow(Now(r).id, sorted) /\ Becomes(c, [r EXCEPT !.at = "putting"])
        /\ Untouched

\* A row that is in counts as failed all the same when its job cannot be entered.
BulkStore(c) ==
    LET r == request[c]
        sorted == Sorted(Theirs(r), MAX_PAGES)
    IN  /\ r.at = "putting"
        /\ \/ /\ RefusedAtLast(Now(r).id, sorted)
              /\ Becomes(c, Failed(r)) /\ UNCHANGED scripts
           \/ /\ ~RefusedAtLast(Now(r).id, sorted) /\ Insert(Now(r).id, sorted)
              /\ Becomes(c, Created(r)) \/ Becomes(c, Failed(r))
        /\ UNCHANGED <<students, template, struck>>

Told(r) == r.at = "next" /\ r.todo = {}
BulkRead(c) == Told(request[c]) /\ Ends(c) /\ Untouched

\* The process dies with its requests, at any step of theirs; what is committed stays.
Crash ==
    /\ \E c \in Client : request[c] # NoRequest
    /\ request' = [c \in Client |-> NoRequest]
    /\ Untouched

----------------------------------------------------------------------------
(* The class list, the template, and marking. *)

\* Rows are kept by register number; one that is not on the new list goes unless it has a script.
StaysIfListed(id, list) == students[id] \in ToSet(list)
Stays(id, list) == students[id] \in ToSet(list) \/ ScriptsOf(id) # {}
NewNumbers(list) ==
    LET inserted[i \in 0..Len(list)] ==
            IF i = 0 THEN <<>>
            ELSE IF list[i] \in {s.reg : s \in Listed} THEN inserted[i - 1]
            ELSE Append(inserted[i - 1], list[i])
    IN  inserted[Len(list)]

RowsInOrder(list) == list
RowsAfter(list) == [id \in DOMAIN students |-> IF Stays(id, list) THEN students[id] ELSE 0] \o NewNumbers(list)

\* Every row of the list needs a register number of its own.
Clean(list) == list # <<>> /\ IsInjective(list) /\ \A i \in DOMAIN list : list[i] > 0

\* Whom a request hands in for, or may yet hand in for.
HandsInFor(r) ==
    CASE r.at \in {"handing", "storing"} -> {r.id}
      [] r.at = "listed" -> {s.id : s \in DOMAIN match_entries(Entries(r.zip), r.list).matched}
      [] r.at \in {"next", "clearing", "deleting", "checking", "putting"} -> {s.id : s \in r.todo}
      [] OTHER -> {}

\* Requests that have read the old list go on with it.
ReplaceClasslist(list) ==
    /\ Clean(list)
    /\ Len(students) + Len(NewNumbers(list)) <= MaxRows
    /\ students' = RowsAfter(list)
    /\ struck' = struck \cup
          {id \in DOMAIN students : ~Stays(id, list) /\ \E c \in Client : id \in HandsInFor(request[c])}
    /\ UNCHANGED <<scripts, template, request>>

TemplateGoes ==
    /\ template' = "gone" /\ template # "gone"
    /\ UNCHANGED <<students, scripts, request, struck>>

\* A mark job of a script is claimed, and ends; a retry may start one again.
Runs(x, running) ==
    /\ x.running # running
    /\ running => Cardinality({y \in scripts : y.running}) < MaxRunning
    /\ scripts' = (scripts \ {x}) \cup {[x EXCEPT !.running = running]}
    /\ UNCHANGED <<students, template, request, struck>>

BulkNext ==
    \/ \E c \in Client \ Dialog, id \in 1..MaxRows, u \in Uploads :
          StudentUpload(c, id, u) \/ TeacherUpload(c, id, u)
    \/ \E c \in Client \ Dialog : UploadCheck(c) \/ UploadStore(c)
    \/ \E c \in Client \ Dialog : (\E id \in 1..MaxRows : TakeBackAsked(c, id)) \/ TakeBack(c)
    \/ \E c \in Dialog, zip \in ClassZips : BulkPreview(c, zip)
    \/ \E c \in Dialog, replace \in BOOLEAN : BulkCommit(c, replace)
    \/ \E c \in Dialog :
          \/ BulkBegins(c) \/ BulkStudent(c) \/ BulkClear(c) \/ BulkRemove(c)
          \/ BulkCheck(c) \/ BulkStore(c) \/ BulkRead(c)
    \/ \E list \in Lists : ReplaceClasslist(list)
    \/ TemplateGoes
    \/ \E x \in scripts, running \in BOOLEAN : Runs(x, running)
    \/ Crash

BulkSpec == BulkInit /\ [][BulkNext]_bulkVars

----------------------------------------------------------------------------
(* Properties. *)

Bulk(r) == r.at \in {"next", "clearing", "deleting", "checking", "putting"}

\* Every variable keeps its type, ids are given out once and a student has one script at most
\* (uq_submissions_student_assignment).
BulkTypeOK ==
    /\ students \in Seq(Nat) /\ Len(students) <= MaxRows
    /\ \A i, j \in DOMAIN students : students[i] = students[j] /\ students[i] # 0 => i = j
    /\ template \in Kinds \cup {"gone"}
    /\ \A id \in struck : id \in DOMAIN students /\ students[id] = 0
    /\ \A x \in scripts : x.id \in {x.student} \X (1..MaxScripts) /\ x.student \in 1..MaxRows /\ x.running \in BOOLEAN
    /\ \A x, y \in scripts : x.id = y.id \/ x.student = y.student => x = y
    /\ \A c \in Dialog : Bulk(request[c]) => request[c].created \cup request[c].skipped \subseteq {s.id : s \in request[c].list}

\* When a class upload answers, every student the zip has something for is in exactly one of created, skipped
\* and failed, and one whose hand-in it deleted and who got no new one is told so: the failure says that the
\* previous hand-in is gone (bulk_commit's "Previous hand-in removed").
LossIsReported ==
    \A c \in Dialog : LET r == request[c] IN
        Bulk(r) /\ Told(r) =>
            /\ \A s \in DOMAIN match_entries(Entries(r.zip), r.list).matched :
                  Cardinality({k \in {"created", "skipped", "failed"} :
                      CASE k = "created" -> s.id \in r.created
                        [] k = "skipped" -> s.id \in r.skipped
                        [] k = "failed" -> \E f \in r.failed : f.id = s.id}) = 1
            /\ r.took \subseteq r.created \cup {f.id : f \in {g \in r.failed : g.gone}}

\* A class upload never deletes the hand-in of a student whose new files the caps refuse, nor of one it found
\* without a hand-in, nor of anyone when the teacher did not tick Replace (bulk_commit: "a bad or empty set of
\* files goes straight to failed and the prior hand-in is left alone").
NotForNothing ==
    \A c \in Dialog : LET r == request[c] IN
        Bulk(r) => \A id \in r.took :
            /\ r.replace /\ id \in r.had
            /\ \E s \in r.list : s.id = id /\ ~TurnedDown(FilesFor(s, r.zip, r.list))

\* A class upload loses nobody's work: it deletes a hand-in only for one it takes, or says so.
NoHandInLost == LossIsReported /\ NotForNothing

\* Whoever was put on the list, taken off it or moved while a class upload ran, a script holds no file with the
\* register number of another student: a row keeps its number for good (replace_classlist upserts by reg_no).
\* Files a student sends carry no number.
FilesAreTheirOwn ==
    \A x \in scripts : OnList(x.student) =>
        \A i \in DOMAIN x.holds : x.holds[i].reg \in {0, students[x.student]}

\* Whichever door a script came through - a phone, the teacher's form, a zip in an upload or the class zip - it
\* has something in it, its files are within the caps of one submission, and no two have one name; and no request
\* is about to store what a zip of more than MAX_ZIP_DECOMPRESSED unpacked to.
StoredWithinCaps ==
    /\ \A x \in scripts :
        /\ x.holds # <<>> /\ x.leaves <= MAX_PAGES
        /\ x.files <= MAX_FILES /\ Bytes(x.holds) <= MAX_UPLOAD_BYTES
        /\ \A i \in DOMAIN x.holds : x.holds[i].ext = "prog" => x.holds[i].size <= MAX_FILE_BYTES
        /\ \A i, j \in DOMAIN x.holds :
              <<x.holds[i].name, x.holds[i].ext>> = <<x.holds[j].name, x.holds[j].ext>> => i = j
    /\ \A c \in Client \ Dialog : request[c].at = "storing" =>
          \A e \in ToSet(request[c].upload) : e.ext = "zip" => Bytes(e.inside) <= MAX_ZIP_DECOMPRESSED

\* A new class list never takes a student with a script off it (replace_classlist keeps a student with
\* submissions): a script whose student is not on the list came from a request that had that student to hand in
\* for when the list was replaced. The student is checked and the row written in different transactions, and
\* submissions.student_id refers to nothing, so those there are.
NoneStruckWithWork == \A x \in scripts : OnList(x.student) \/ x.student \in struck

\* A script's files are its student's own, it could have been handed in, and no class list takes its student away.
ScriptsAreTheirs == FilesAreTheirOwn /\ StoredWithinCaps /\ NoneStruckWithWork
=============================================================================
