----------------------------- MODULE PageStore -----------------------------
(***************************************************************************)
(* Files on disk and the rows that refer to them.  Files are stored under  *)
(* the hash of their contents, so two scripts, a script and a question     *)
(* paper, or two copies of a template may share one.  A request stores its *)
(* files first and inserts its rows afterwards; a deletion marks rows in a *)
(* transaction, finds the files nothing refers to any more, and unlinks    *)
(* them after the commit.                                                  *)
(*                                                                         *)
(* Sources: storage.py, web/services/crops.py, pages_cleanup.py,           *)
(* submissions.py, class_assignments.py (remove_hand_in), assignments.py   *)
(* (pages), student_corrections.py (photos), queue.py and worker/          *)
(* mark_job.py (what happens to the pages), web/routers/pages.py.          *)
(*                                                                         *)
(* A file is known by its directory and its contents.  A Submission stands *)
(* for a place a script can be handed in to, and is free again once the    *)
(* hand-in is removed.  What the marking itself does is MarkingLifecycle's.*)
(***************************************************************************)
EXTENDS Naturals, FiniteSets

CONSTANTS
    None,
    Submission, Template, Client,
    Contents,    \* ["pages", "crops", "files" -> what such a file may contain]
    Modes,       \* the retention modes that assignments may have
    Apart,       \* does no unlink overlap a request that stores the same file?
    MaxUploads,  \* requests that store files, at most
    MaxCrashes

StoreAssumption ==
    /\ None \notin Submission \cup Template
    /\ Submission \cap Template = {}
    /\ DOMAIN Contents = {"pages", "crops", "files"}
    /\ Modes \subseteq {"crops", "pages", "none"}
    /\ Apart \in BOOLEAN /\ MaxUploads \in Nat /\ MaxCrashes \in Nat

VARIABLES
    disk,      \* the files there are
    rows,      \* undeleted rows of pages, part_crops and submission_files
    deleted,   \* rows of them with deleted_at set
    st,        \* submissions.status; "settling": needs_you, with nothing pending
    photo,     \* corrections of a script that are not final, with their photo
    keep,      \* the effective retention of a script
    request,   \* [Client -> what a request, or the worker, is in the middle of]
    uploads, crashes

storeVars == <<disk, rows, deleted, st, photo, keep, request, uploads, crashes>>

File == UNION {{[dir |-> d, is |-> c] : c \in Contents[d]} : d \in DOMAIN Contents}
Kind == {"student", "correction", "paper", "crop", "file"}
Row  == [kind : Kind, of : Submission \cup Template, file : File]
Idle == [op |-> "idle", of |-> None, files |-> {}, left |-> {}]

StoreTypeOK ==
    /\ disk \subseteq File
    /\ rows \subseteq Row /\ deleted \subseteq Row
    /\ \A r \in rows \cup deleted :
          r.file.dir = (IF r.kind = "crop" THEN "crops" ELSE IF r.kind = "file" THEN "files" ELSE "pages")
    /\ st \in [Submission -> {"none", "uploaded", "needs_you", "settling", "done"}]
    /\ photo \in [Submission -> SUBSET File]
    /\ keep \in [Submission -> Modes]
    /\ request \in [Client -> [op : {"idle", "upload", "attach", "correct", "crops", "unlink"},
           of : Submission \cup Template \cup {None}, files : SUBSET File, left : SUBSET File]]
    /\ uploads \in 0 .. MaxUploads /\ crashes \in 0 .. MaxCrashes

StoreInit ==
    /\ disk = {} /\ rows = {} /\ deleted = {}
    /\ st = [s \in Submission |-> "none"]
    /\ photo = [s \in Submission |-> {}]
    /\ keep \in [Submission -> Modes]
    /\ request = [c \in Client |-> Idle]
    /\ uploads = 0 /\ crashes = 0

RowsOf(o, kinds) == {r \in rows : r.of = o /\ r.kind \in kinds}
FilesOf(R)       == {r.file : r \in R}
Busy(c, op)      == request[c].op = op
Storing(f)       == \E c \in Client : request[c].op \notin {"idle", "unlink"} /\ f \in request[c].files
Unlinking(f)     == \E c \in Client : Busy(c, "unlink") /\ f \in request[c].left
Then(c, q)       == request' = [request EXCEPT ![c] = q]

-----------------------------------------------------------------------------
(* Storing: the files, one by one, and then the rows *)

Begin(c, op, o, files) ==
    /\ Busy(c, "idle") /\ uploads < MaxUploads
    /\ Then(c, [op |-> op, of |-> o, files |-> files, left |-> files])
    /\ uploads' = uploads + 1
    /\ UNCHANGED <<disk, rows, deleted, st, photo, keep, crashes>>

\* create_submission(): a page, a program file, or both.
Upload(c, s) ==
    \E files \in SUBSET {f \in File : f.dir # "crops"} :
        /\ files # {} /\ \A d \in {"pages", "files"} : Cardinality({f \in files : f.dir = d}) <= 1
        /\ st[s] = "none"
        /\ Begin(c, "upload", s, files)
\* _attach_pages(): the paper or the scheme of a template.
Attach(c, t) == \E f \in File : f.dir = "pages" /\ Begin(c, "attach", t, {f})
\* submit_correction(), with a photo.
Correct(c, s) ==
    /\ st[s] = "done" /\ photo[s] = {} /\ ~ \E r \in deleted : r.kind = "correction" /\ r.of = s
    /\ \E f \in File : f.dir = "pages" /\ Begin(c, "correct", s, {f})
\* crop_parts(): the worker cuts a part out of a page it has read.
Cut(c, s) ==
    /\ st[s] = "uploaded" /\ RowsOf(s, {"student"}) # {}
    /\ \E f \in File : f.dir = "crops" /\ Begin(c, "crops", s, {f})

\* put_jpeg(), put_file(), put_crop(): written unless it is there.
Put(c) ==
    /\ request[c].op \notin {"idle", "unlink"}
    /\ \E f \in request[c].left :
         /\ Apart => ~Unlinking(f)
         /\ disk' = disk \cup {f}
         /\ Then(c, [request[c] EXCEPT !.left = @ \ {f}])
    /\ UNCHANGED <<rows, deleted, st, photo, keep, uploads, crashes>>

Ready(c, op) == Busy(c, op) /\ request[c].left = {}
KindAsDir(kind, o, f) == [kind |-> f.dir, of |-> o, file |-> f]  \* mutant
RowFor(kind, o, f)    == [kind |-> kind, of |-> o, file |-> f]

\* The unique index lets one hand-in of two through; what the other has stored is left on disk.
InsertUpload(c) ==
    LET s == request[c].of IN
    /\ Ready(c, "upload") /\ Then(c, Idle)
    /\ IF st[s] = "none"
       THEN /\ rows' = rows \cup {RowFor(IF f.dir = "pages" THEN "student" ELSE "file", s, f) : f \in request[c].files}
            /\ st' = [st EXCEPT ![s] = "uploaded"]
       ELSE UNCHANGED <<rows, st>>
    /\ UNCHANGED <<disk, deleted, photo, keep, uploads, crashes>>

\* The template's previous pages of the kind are deleted outright, their files stay on disk.
InsertPages(c) ==
    LET t == request[c].of IN
    /\ Ready(c, "attach") /\ Then(c, Idle)
    /\ rows' = (rows \ RowsOf(t, {"paper"})) \cup {RowFor("paper", t, f) : f \in request[c].files}
    /\ UNCHANGED <<disk, deleted, st, photo, keep, uploads, crashes>>

InsertCorrection(c) ==
    LET s == request[c].of IN
    /\ Ready(c, "correct") /\ Then(c, Idle)
    /\ IF st[s] = "done" /\ photo[s] = {}
       THEN /\ rows' = rows \cup {RowFor("correction", s, f) : f \in request[c].files}
            /\ photo' = [photo EXCEPT ![s] = request[c].files]
       ELSE UNCHANGED <<rows, photo>>
    /\ UNCHANGED <<disk, deleted, st, keep, uploads, crashes>>

\* store_part_crops(): the previous set goes outright, a hand-in removed meanwhile gets none.
InsertCrops(c) ==
    LET s == request[c].of IN
    /\ Ready(c, "crops") /\ Then(c, Idle)
    /\ rows' = IF st[s] = "none" THEN rows
               ELSE (rows \ RowsOf(s, {"crop"})) \cup {RowFor("crop", s, f) : f \in request[c].files}
    /\ UNCHANGED <<disk, deleted, st, photo, keep, uploads, crashes>>

\* duplicate_template(): rows for the copy, the files are shared.
Duplicate(t, u) ==
    /\ RowsOf(t, {"paper"}) # {} /\ RowsOf(u, {"paper"}) = {}
    /\ rows' = rows \cup {[r EXCEPT !.of = u] : r \in RowsOf(t, {"paper"})}
    /\ UNCHANGED <<disk, deleted, st, photo, keep, request, uploads, crashes>>

-----------------------------------------------------------------------------
(* Deleting *)

\* The files of the rows R that nothing refers to once R is gone.
OwnOnly(R)      == FilesOf(R) \ FilesOf({r \in rows \ R : r.kind \in {q.kind : q \in R}})  \* mutant
Unreferenced(R) == FilesOf(R) \ FilesOf(rows \ R)

\* The rows of R are marked (or deleted outright), and their files are unlinked after the commit.
Retire(c, R) ==
    /\ Busy(c, "idle")
    /\ Apart => ~ \E f \in Unreferenced(R) : Storing(f)
    /\ rows' = rows \ R
    /\ Then(c, IF Unreferenced(R) = {} THEN Idle
               ELSE [op |-> "unlink", of |-> None, files |-> {}, left |-> Unreferenced(R)])

\* unlink_pages()
Unlink(c) ==
    /\ Busy(c, "unlink")
    /\ \E f \in request[c].left :
         /\ disk' = disk \ {f}
         /\ LET left == request[c].left \ {f} IN
            Then(c, IF left = {} THEN Idle ELSE [request[c] EXCEPT !.left = left])
    /\ UNCHANGED <<rows, deleted, st, photo, keep, uploads, crashes>>

\* delete_submission_pages(): after marking, and by the sweep for what is left a day later.
AnyPage(s)       == RowsOf(s, {"student", "correction", "file"})  \* mutant: the photos of corrections too
Leftover(s)      == RowsOf(s, {"student", "file"})
PagesLeftOnly(s) == RowsOf(s, {"student"})  \* mutant: a script without pages is not looked at
SweepFinds(s)    == RowsOf(s, {"student", "file"})
WithCrops(s) == Leftover(s) \cup RowsOf(s, {"crop"})  \* mutant
Goes(s)      == Leftover(s) \cup (IF keep[s] = "none" THEN RowsOf(s, {"crop"}) ELSE {})
DeletePages(c, s) ==
    /\ st[s] = "done" /\ keep[s] # "pages" /\ SweepFinds(s) # {}
    /\ Retire(c, Goes(s))
    /\ deleted' = deleted \cup Goes(s)
    /\ UNCHANGED <<disk, st, photo, keep, uploads, crashes>>

\* run_mark_job() ends: nothing to review, or something.
MarkEnds(s) ==
    /\ st[s] = "uploaded"
    /\ \A c \in Client : ~(Busy(c, "crops") /\ request[c].of = s)
    /\ \E to \in {"done", "needs_you"} : st' = [st EXCEPT ![s] = to]
    /\ UNCHANGED <<disk, rows, deleted, photo, keep, request, uploads, crashes>>

\* resolve_queue_item() on the last part: the pages go, the program files are left to the sweep.
\* Two that resolve at once may each see the other's part pending.
Resolve(c, s) ==
    LET R == IF keep[s] = "pages" THEN {} ELSE RowsOf(s, {"student"}) IN
    /\ st[s] = "needs_you"
    /\ \/ /\ st' = [st EXCEPT ![s] = "done"]
          /\ Retire(c, R) /\ deleted' = deleted \cup R
       \/ st' = [st EXCEPT ![s] = "settling"] /\ UNCHANGED <<rows, deleted, request>>
    /\ UNCHANGED <<disk, photo, keep, uploads, crashes>>

\* reconcile_done(), by a resolve or by the sweep.
Reconcile(c, s) ==
    LET R == IF keep[s] = "pages" THEN {} ELSE Leftover(s) IN
    /\ st[s] = "settling" /\ st' = [st EXCEPT ![s] = "done"]
    /\ Retire(c, R) /\ deleted' = deleted \cup R
    /\ UNCHANGED <<disk, photo, keep, uploads, crashes>>

\* _retire_photo(): the correction became final.
RetirePhoto(c, s) ==
    LET R == IF keep[s] = "pages" THEN {} ELSE {r \in RowsOf(s, {"correction"}) : r.file \in photo[s]} IN
    /\ photo[s] # {}
    /\ photo' = [photo EXCEPT ![s] = {}]
    /\ Retire(c, R) /\ deleted' = deleted \cup R
    /\ UNCHANGED <<disk, st, keep, uploads, crashes>>

\* remove_hand_in(): everything of the script, outright; not while it is being marked.
RemoveHandIn(c, s) ==
    LET R == RowsOf(s, Kind) IN
    /\ st[s] # "none"
    /\ \A d \in Client : ~(Busy(d, "crops") /\ request[d].of = s)
    /\ Retire(c, R)
    /\ deleted' = {r \in deleted : r.of # s}
    /\ st' = [st EXCEPT ![s] = "none"]
    /\ photo' = [photo EXCEPT ![s] = {}]
    /\ UNCHANGED <<disk, keep, uploads, crashes>>

\* delete_template(): the rows go, the files are left.
DeleteTemplate(t) ==
    /\ RowsOf(t, {"paper"}) # {}
    /\ rows' = rows \ RowsOf(t, {"paper"})
    /\ UNCHANGED <<disk, deleted, st, photo, keep, request, uploads, crashes>>

Crash ==
    /\ crashes < MaxCrashes /\ crashes' = crashes + 1
    /\ request' = [c \in Client |-> Idle]
    /\ UNCHANGED <<disk, rows, deleted, st, photo, keep, uploads>>

StoreNext ==
    \/ \E c \in Client : Put(c) \/ InsertUpload(c) \/ InsertPages(c) \/ InsertCorrection(c) \/ InsertCrops(c) \/ Unlink(c)
    \/ \E c \in Client, s \in Submission :
          \/ Upload(c, s) \/ Correct(c, s) \/ Cut(c, s)
          \/ DeletePages(c, s) \/ Resolve(c, s) \/ Reconcile(c, s) \/ RetirePhoto(c, s) \/ RemoveHandIn(c, s)
    \/ \E c \in Client, t \in Template : Attach(c, t)
    \/ \E t, u \in Template : Duplicate(t, u)
    \/ \E t \in Template : DeleteTemplate(t)
    \/ \E s \in Submission : MarkEnds(s)
    \/ Crash

\* The hourly sweep comes round to every script; a request that has begun goes on.
StoreFairness ==
    /\ \A s \in Submission : WF_storeVars(\E c \in Client : DeletePages(c, s) \/ Reconcile(c, s))
    /\ \A c \in Client :
          WF_storeVars(Put(c) \/ InsertUpload(c) \/ InsertPages(c) \/ InsertCorrection(c) \/ InsertCrops(c) \/ Unlink(c))

StoreSpec == StoreInit /\ [][StoreNext]_storeVars /\ StoreFairness

-----------------------------------------------------------------------------
(* Properties *)

\* Every row that is not deleted has its file: of contents that several rows share, in whichever
\* tables, none loses its file because another row went.
FileKept == \A r \in rows : r.file \in disk

\* Pages, files and photos that the retention mode keeps are never marked deleted, whichever of the
\* four paths to "done" a script takes; the crops outlive the pages unless the mode says none.
KeptAsAsked ==
    \A r \in deleted : r.of \in Submission =>
        keep[r.of] # "pages" /\ (r.kind = "crop" => keep[r.of] = "none")

\* A photo goes only when its correction is final, and stays while it is not, although it lies
\* among the pages of a script that is done.
PhotoStays == \A s \in Submission : \A f \in photo[s] : RowFor("correction", s, f) \in rows

\* What may still be looked at is there: rows have their files, and what is to be kept has its rows.
FilesFollowRows == FileKept /\ KeptAsAsked /\ PhotoStays

\* The pages and the program files of a script that is done go in the end, although a resolve
\* leaves the files and a crash may come before the deletion.
PagesGo ==
    \A s \in Submission : st[s] \in {"settling", "done"} /\ keep[s] # "pages"
        ~> {r \in rows : r.of = s /\ r.kind \in {"student", "file"}} = {} \/ st[s] \in {"none", "uploaded"}
=============================================================================
