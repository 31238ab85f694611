-------------------------- MODULE BackgroundProofs --------------------------
(***************************************************************************)
(* Proofs about what goes on in the background, for every value of the     *)
(* constants: the parts of MCBackground one by one, and then together.     *)
(*                                                                         *)
(* Files.  A row's file is on disk because no deletion that is under way   *)
(* is about to unlink it, and because a request that has stored a file     *)
(* finds it there when it inserts its row; that needs both facts of the    *)
(* requests as well as of the rows (FilesSafe).  The photo of a correction *)
(* and the retention modes need the owners of the rows only.               *)
(*                                                                         *)
(* Messages.  A tick of the scheduler reads the rows, sends and stamps one *)
(* step at a time, while teachers withdraw rows and bots come and go.      *)
(* What it has read and not handled is as it was or withdrawn              *)
(* (RowsAsRead), so a row is sent and stamped by one tick only (TellsOnce);*)
(* that needs an id to name one row for ever (~RowIdsReused).              *)
(***************************************************************************)
EXTENDS MCBackground, WellFoundedInduction, TLAPS

-----------------------------------------------------------------------------
(* The files of pages *)

StoringOps == {"upload", "attach", "correct", "crops"}
StoreRequest == [op : {"idle", "upload", "attach", "correct", "crops", "unlink"},
                 of : Submission \cup Template \cup {None},
                 files : SUBSET Store!File, left : SUBSET Store!File]

\* The directory that a row's file lies in goes by the row's kind.
DirOf(kind) == IF kind = "crop" THEN "crops" ELSE IF kind = "file" THEN "files" ELSE "pages"

\* What a request that stores files stores, and whom for.
RequestFits(q) ==
    /\ q \in StoreRequest
    /\ q.op \in {"upload", "correct", "crops"} => q.of \in Submission
    /\ q.op = "attach" => q.of \in Template
    /\ q.op = "upload" => \A f \in q.files : f.dir \in {"pages", "files"}
    /\ q.op \in {"attach", "correct"} => \A f \in q.files : f.dir = "pages"
    /\ q.op = "crops" => \A f \in q.files : f.dir = "crops"
RequestsFit == \A c \in Client : RequestFits(request[c])

\* Neither a row's file nor one that a request has stored is missing, or about to be unlinked.
Safe(f) == f \in disk /\ ~Store!Unlinking(f)
FilesSafe ==
    /\ \A r \in rows : Safe(r.file)
    /\ \A c \in Client : request[c].op \in StoringOps =>
          \A f \in request[c].files \ request[c].left : Safe(f)

StoreTypes == Store!StoreTypeOK /\ RequestsFit
StoreKeeps == Store!KeptAsAsked /\ Store!PhotoStays

\* A row of the kind that its file's directory asks for.
GoodRow(r) == r \in Store!Row /\ r.file.dir = DirOf(r.kind)

\* The rows are good rows: what StoreTypeOK says of them.
LEMMA StoreTypesAre ==
    Store!StoreTypeOK <=>
        /\ disk \subseteq Store!File
        /\ \A r \in rows \cup deleted : GoodRow(r)
        /\ st \in [Submission -> {"none", "uploaded", "needs_you", "settling", "done"}]
        /\ photo \in [Submission -> SUBSET Store!File]
        /\ keep \in [Submission -> Modes]
        /\ request \in [Client -> StoreRequest]
        /\ uploads \in 0 .. MaxUploads /\ crashes \in 0 .. MaxCrashes
  BY DEF Store!StoreTypeOK, GoodRow, DirOf, StoreRequest

\* ... and in the next state.
LEMMA StoreTypesBecome ==
    ASSUME disk' \subseteq Store!File,
           \A r \in rows' \cup deleted' : GoodRow(r)',
           st' \in [Submission -> {"none", "uploaded", "needs_you", "settling", "done"}],
           photo' \in [Submission -> SUBSET Store!File],
           keep' \in [Submission -> Modes],
           request' \in [Client -> StoreRequest],
           uploads' \in 0 .. MaxUploads, crashes' \in 0 .. MaxCrashes
    PROVE  Store!StoreTypeOK'
  BY DEF Store!StoreTypeOK, GoodRow, DirOf, StoreRequest

\* A step gives a request to one client at most, and the request fits.
OneRequest(c, q) ==
    /\ RequestFits(q)
    /\ request' \in [Client -> StoreRequest]
    /\ \A d \in Client : request'[d] = IF d = c THEN q ELSE request[d]

\* An idle request fits, and so does one that only has files to unlink.
LEMMA IdleFits ==
    ASSUME NEW F, F \subseteq Store!File, NEW op \in {"idle", "unlink"}
    PROVE  /\ RequestFits(Store!Idle)
           /\ RequestFits([op |-> op, of |-> None, files |-> {}, left |-> F])
  BY DEF RequestFits, Store!Idle, StoreRequest

\* A deletion leaves good rows, and a request with its files to unlink.
LEMMA RetireFits ==
    ASSUME StoreTypes, NEW c \in Client, NEW R, R \subseteq rows, Store!Retire(c, R)
    PROVE  \E q : OneRequest(c, q)
<1> DEFINE F == Store!Unreferenced(R)
           q == IF F = {} THEN Store!Idle ELSE [op |-> "unlink", of |-> None, files |-> {}, left |-> F]
<1>1. F \subseteq Store!File
  BY StoreTypesAre DEF StoreTypes, Store!Unreferenced, Store!FilesOf, GoodRow, Store!Row
<1>2. RequestFits(q)
  BY <1>1, IdleFits
<1>3. request' = [request EXCEPT ![c] = q]
  BY DEF Store!Retire, Store!Then
<1>4. \A d \in Client : request'[d] = IF d = c THEN q ELSE request[d]
  BY <1>3, StoreTypesAre DEF StoreTypes
<1>5. request' \in [Client -> StoreRequest]
  BY <1>2, <1>3, StoreTypesAre DEF StoreTypes, RequestFits
<1> QED BY <1>2, <1>4, <1>5 DEF OneRequest

\* Beginning to store files gives the client a request that fits.
LEMMA BeginFits ==
    ASSUME StoreTypes, NEW c \in Client, NEW op \in StoringOps, NEW o \in Submission \cup Template,
           NEW files \in SUBSET Store!File, Store!Begin(c, op, o, files),
           RequestFits([op |-> op, of |-> o, files |-> files, left |-> files])
    PROVE  StoreTypes'
<1> DEFINE q == [op |-> op, of |-> o, files |-> files, left |-> files]
<1>1. request' = [request EXCEPT ![c] = q]
  BY DEF Store!Begin, Store!Then
<1>2. request' \in [Client -> StoreRequest] /\ \A d \in Client : request'[d] = IF d = c THEN q ELSE request[d]
  BY <1>1, StoreTypesAre DEF StoreTypes, RequestFits
<1>3. RequestsFit'
  BY <1>2 DEF StoreTypes, RequestsFit, RequestFits
<1>4. uploads' \in 0 .. MaxUploads /\ UNCHANGED <<disk, rows, deleted, st, photo, keep, crashes>>
  BY StoreTypesAre, StoreConstants DEF StoreTypes, Store!Begin, Store!StoreAssumption
<1> QED BY <1>2, <1>3, <1>4, StoreTypesAre, StoreTypesBecome DEF StoreTypes, GoodRow

\* A request that is answered, or has another file to go, fits.
LEMMA MovesOn ==
    ASSUME StoreTypes, NEW c \in Client, NEW q, RequestFits(q), Store!Then(c, q)
    PROVE  RequestsFit' /\ request' \in [Client -> StoreRequest]
<1>1. request' \in [Client -> StoreRequest] /\ \A d \in Client : request'[d] = IF d = c THEN q ELSE request[d]
  BY StoreTypesAre DEF StoreTypes, RequestFits, Store!Then
<1> QED BY <1>1 DEF StoreTypes, RequestsFit, RequestFits

\* What a deletion retires is rows, and it leaves the rest.
LEMMA RetireTypes ==
    ASSUME StoreTypes, NEW c \in Client, NEW R, R \subseteq rows, Store!Retire(c, R),
           deleted' \subseteq deleted \cup R, UNCHANGED <<disk, keep, uploads, crashes>>,
           st' \in [Submission -> {"none", "uploaded", "needs_you", "settling", "done"}],
           photo' \in [Submission -> SUBSET Store!File]
    PROVE  StoreTypes'
<1>1. PICK q : OneRequest(c, q)
  BY RetireFits
<1>2. RequestsFit' /\ request' \in [Client -> StoreRequest]
  BY <1>1 DEF OneRequest, RequestsFit, StoreTypes, RequestFits
<1>3. \A r \in rows' \cup deleted' : GoodRow(r)
  BY StoreTypesAre DEF StoreTypes, Store!Retire
<1>4. \A r \in rows' \cup deleted' : GoodRow(r)'
  BY <1>3 DEF GoodRow
<1> QED BY <1>2, <1>4, StoreTypesAre, StoreTypesBecome DEF StoreTypes

\* The rows that a request inserts are good rows of its files, and it is answered.
LEMMA InsertTypes ==
    ASSUME StoreTypes, NEW c \in Client, Store!Then(c, Store!Idle),
           \A r \in rows' : r \in rows \/ GoodRow(r),
           UNCHANGED <<disk, deleted, keep, uploads, crashes>>,
           st' \in [Submission -> {"none", "uploaded", "needs_you", "settling", "done"}],
           photo' \in [Submission -> SUBSET Store!File]
    PROVE  StoreTypes'
<1>1. RequestsFit' /\ request' \in [Client -> StoreRequest]
  BY MovesOn, IdleFits
<1>2. \A r \in rows' \cup deleted' : GoodRow(r)'
  BY StoreTypesAre DEF StoreTypes, GoodRow
<1> QED BY <1>1, <1>2, StoreTypesAre, StoreTypesBecome DEF StoreTypes

\* Everything of the store keeps its type, and its requests fit.
LEMMA StoreTypesStep ==
    ASSUME StoreTypes, Store!StoreNext
    PROVE  StoreTypes'
<1> USE DEF StoreTypes
<1>1. ASSUME NEW c \in Client, Store!Put(c)
      PROVE  StoreTypes'
  <2>1. PICK f \in request[c].left :
            disk' = disk \cup {f} /\ Store!Then(c, [request[c] EXCEPT !.left = @ \ {f}])
    BY <1>1 DEF Store!Put
  <2>2. request[c] \in StoreRequest /\ RequestFits(request[c])
    BY StoreTypesAre DEF RequestsFit
  <2>3. RequestFits([request[c] EXCEPT !.left = @ \ {f}])
    BY <2>2 DEF RequestFits, StoreRequest
  <2>4. RequestsFit' /\ request' \in [Client -> StoreRequest]
    BY <2>1, <2>3, MovesOn
  <2>5. disk' \subseteq Store!File
    BY <2>1, <2>2, StoreTypesAre DEF StoreRequest
  <2> QED BY <1>1, <2>4, <2>5, StoreTypesAre, StoreTypesBecome DEF Store!Put, GoodRow
<1>2. ASSUME NEW c \in Client, Store!Unlink(c)
      PROVE  StoreTypes'
  <2>1. PICK f \in request[c].left : disk' = disk \ {f} /\
            LET rest == request[c].left \ {f} IN
            Store!Then(c, IF rest = {} THEN Store!Idle ELSE [request[c] EXCEPT !.left = rest])
    BY <1>2 DEF Store!Unlink
  <2>2. request[c] \in StoreRequest /\ RequestFits(request[c])
    BY StoreTypesAre DEF RequestsFit
  <2>3. RequestFits([request[c] EXCEPT !.left = request[c].left \ {f}])
    BY <2>2 DEF RequestFits, StoreRequest
  <2>4. RequestsFit' /\ request' \in [Client -> StoreRequest]
    BY <2>1, <2>3, MovesOn, IdleFits
  <2> QED BY <1>2, <2>1, <2>4, StoreTypesAre, StoreTypesBecome DEF Store!Unlink, GoodRow
<1>3. ASSUME NEW c \in Client, Store!InsertUpload(c)
      PROVE  StoreTypes'
  <2> DEFINE s == request[c].of
  <2>1. request[c] \in StoreRequest /\ RequestFits(request[c]) /\ request[c].op = "upload"
    BY <1>3, StoreTypesAre DEF RequestsFit, Store!InsertUpload, Store!Ready, Store!Busy
  <2>2. s \in Submission /\ \A f \in request[c].files : f \in Store!File /\ f.dir \in {"pages", "files"}
    BY <2>1 DEF RequestFits, StoreRequest
  <2>3. \A f \in request[c].files :
            GoodRow(Store!RowFor(IF f.dir = "pages" THEN "student" ELSE "file", s, f))
    BY <2>2 DEF GoodRow, Store!RowFor, Store!Row, Store!Kind, DirOf
  <2>4. \A r \in rows' : r \in rows \/ GoodRow(r)
    BY <1>3, <2>3 DEF Store!InsertUpload
  <2>5. st' \in [Submission -> {"none", "uploaded", "needs_you", "settling", "done"}]
    BY <1>3, <2>2, StoreTypesAre DEF Store!InsertUpload
  <2> QED BY <1>3, <2>4, <2>5, InsertTypes, StoreTypesAre, StoreTypesBecome DEF Store!InsertUpload
<1>4. ASSUME NEW c \in Client, Store!InsertPages(c)
      PROVE  StoreTypes'
  <2> DEFINE t == request[c].of
  <2>1. request[c] \in StoreRequest /\ RequestFits(request[c]) /\ request[c].op = "attach"
    BY <1>4, StoreTypesAre DEF RequestsFit, Store!InsertPages, Store!Ready, Store!Busy
  <2>2. t \in Template /\ \A f \in request[c].files : f \in Store!File /\ f.dir = "pages"
    BY <2>1 DEF RequestFits, StoreRequest
  <2>3. \A f \in request[c].files : GoodRow(Store!RowFor("paper", t, f))
    BY <2>2 DEF GoodRow, Store!RowFor, Store!Row, Store!Kind, DirOf
  <2>4. \A r \in rows' : r \in rows \/ GoodRow(r)
    BY <1>4, <2>3 DEF Store!InsertPages
  <2> QED BY <1>4, <2>4, InsertTypes, StoreTypesAre, StoreTypesBecome DEF Store!InsertPages
<1>5. ASSUME NEW c \in Client, Store!InsertCorrection(c)
      PROVE  StoreTypes'
  <2> DEFINE s == request[c].of
  <2>1. request[c] \in StoreRequest /\ RequestFits(request[c]) /\ request[c].op = "correct"
    BY <1>5, StoreTypesAre DEF RequestsFit, Store!InsertCorrection, Store!Ready, Store!Busy
  <2>2. s \in Submission /\ \A f \in request[c].files : f \in Store!File /\ f.dir = "pages"
    BY <2>1 DEF RequestFits, StoreRequest
  <2>3. \A f \in request[c].files : GoodRow(Store!RowFor("correction", s, f))
    BY <2>2 DEF GoodRow, Store!RowFor, Store!Row, Store!Kind, DirOf
  <2>4. \A r \in rows' : r \in rows \/ GoodRow(r)
    BY <1>5, <2>3 DEF Store!InsertCorrection
  <2>5. photo' \in [Submission -> SUBSET Store!File]
    BY <1>5, <2>2, StoreTypesAre DEF Store!InsertCorrection
  <2> QED BY <1>5, <2>4, <2>5, InsertTypes, StoreTypesAre, StoreTypesBecome DEF Store!InsertCorrection
<1>6. ASSUME NEW c \in Client, Store!InsertCrops(c)
      PROVE  StoreTypes'
  <2> DEFINE s == request[c].of
  <2>1. request[c] \in StoreRequest /\ RequestFits(request[c]) /\ request[c].op = "crops"
    BY <1>6, StoreTypesAre DEF RequestsFit, Store!InsertCrops, Store!Ready, Store!Busy
  <2>2. s \in Submission /\ \A f \in request[c].files : f \in Store!File /\ f.dir = "crops"
    BY <2>1 DEF RequestFits, StoreRequest
  <2>3. \A f \in request[c].files : GoodRow(Store!RowFor("crop", s, f))
    BY <2>2 DEF GoodRow, Store!RowFor, Store!Row, Store!Kind, DirOf
  <2>4. \A r \in rows' : r \in rows \/ GoodRow(r)
    BY <1>6, <2>3 DEF Store!InsertCrops
  <2> QED BY <1>6, <2>4, InsertTypes, StoreTypesAre, StoreTypesBecome DEF Store!InsertCrops
<1>7. ASSUME NEW c \in Client, NEW s \in Submission,
             Store!Upload(c, s) \/ Store!Correct(c, s) \/ Store!Cut(c, s)
      PROVE  StoreTypes'
  <2>1. PICK op \in {"upload", "correct", "crops"}, files \in SUBSET Store!File :
            /\ Store!Begin(c, op, s, files)
            /\ op = "upload" => \A f \in files : f.dir # "crops"
            /\ op = "correct" => \A f \in files : f.dir = "pages"
            /\ op = "crops" => \A f \in files : f.dir = "crops"
    <3>1. CASE Store!Upload(c, s)
      BY <3>1 DEF Store!Upload
    <3>2. CASE Store!Correct(c, s)
      BY <3>2 DEF Store!Correct
    <3>3. CASE Store!Cut(c, s)
      BY <3>3 DEF Store!Cut
    <3> QED BY <1>7, <3>1, <3>2, <3>3
  <2>2. \A f \in files : f.dir \in {"pages", "crops", "files"}
    BY StoreConstants DEF Store!File, Store!StoreAssumption
  <2>3. RequestFits([op |-> op, of |-> s, files |-> files, left |-> files])
    BY <2>1, <2>2 DEF RequestFits, StoreRequest
  <2> QED BY <2>1, <2>3, BeginFits DEF StoringOps
<1>8. ASSUME NEW c \in Client, NEW t \in Template, Store!Attach(c, t)
      PROVE  StoreTypes'
  <2>1. PICK f \in Store!File : f.dir = "pages" /\ Store!Begin(c, "attach", t, {f})
    BY <1>8 DEF Store!Attach
  <2>2. RequestFits([op |-> "attach", of |-> t, files |-> {f}, left |-> {f}])
    BY <2>1 DEF RequestFits, StoreRequest
  <2> QED BY <2>1, <2>2, BeginFits DEF StoringOps
<1>9. ASSUME NEW c \in Client, NEW s \in Submission, Store!DeletePages(c, s)
      PROVE  StoreTypes'
  <2>1. Store!Goes(s) \subseteq rows
    BY DEF Store!Goes, Store!Leftover, Store!RowsOf
  <2> QED BY <1>9, <2>1, RetireTypes, StoreTypesAre, StoreTypesBecome DEF Store!DeletePages
<1>10. ASSUME NEW c \in Client, NEW s \in Submission, Store!Resolve(c, s)
       PROVE  StoreTypes'
  <2> DEFINE R == IF keep[s] = "pages" THEN {} ELSE Store!RowsOf(s, {"student"})
  <2>1. R \subseteq rows
    BY DEF Store!RowsOf
  <2>2. st' \in [Submission -> {"none", "uploaded", "needs_you", "settling", "done"}]
    BY <1>10, StoreTypesAre DEF Store!Resolve
  <2>3. CASE Store!Retire(c, R) /\ deleted' = deleted \cup R
    <3> HIDE DEF R
    <3> QED BY <1>10, <2>1, <2>2, <2>3, RetireTypes, StoreTypesAre, StoreTypesBecome DEF Store!Resolve
  <2>4. CASE UNCHANGED <<rows, deleted, request>>
    BY <1>10, <2>2, <2>4, StoreTypesAre, StoreTypesBecome DEF Store!Resolve, GoodRow, RequestsFit, RequestFits
  <2> QED BY <1>10, <2>3, <2>4 DEF Store!Resolve
<1>11. ASSUME NEW c \in Client, NEW s \in Submission, Store!Reconcile(c, s)
       PROVE  StoreTypes'
  <2> DEFINE R == IF keep[s] = "pages" THEN {} ELSE Store!Leftover(s)
  <2>1. R \subseteq rows
    BY DEF Store!RowsOf, Store!Leftover
  <2>2. st' \in [Submission -> {"none", "uploaded", "needs_you", "settling", "done"}]
    BY <1>11, StoreTypesAre DEF Store!Reconcile
  <2>3. Store!Retire(c, R) /\ deleted' = deleted \cup R
    BY <1>11 DEF Store!Reconcile
  <2> HIDE DEF R
  <2> QED BY <1>11, <2>1, <2>2, <2>3, RetireTypes, StoreTypesAre, StoreTypesBecome DEF Store!Reconcile
<1>12. ASSUME NEW c \in Client, NEW s \in Submission, Store!RetirePhoto(c, s)
       PROVE  StoreTypes'
  <2> DEFINE R == IF keep[s] = "pages" THEN {} ELSE {r \in Store!RowsOf(s, {"correction"}) : r.file \in photo[s]}
  <2>1. R \subseteq rows
    BY DEF Store!RowsOf
  <2>2. photo' \in [Submission -> SUBSET Store!File]
    BY <1>12, StoreTypesAre DEF Store!RetirePhoto
  <2>3. Store!Retire(c, R) /\ deleted' = deleted \cup R
    BY <1>12 DEF Store!RetirePhoto
  <2> HIDE DEF R
  <2> QED BY <1>12, <2>1, <2>2, <2>3, RetireTypes, StoreTypesAre, StoreTypesBecome DEF Store!RetirePhoto
<1>13. ASSUME NEW c \in Client, NEW s \in Submission, Store!RemoveHandIn(c, s)
       PROVE  StoreTypes'
  <2>1. Store!RowsOf(s, Store!Kind) \subseteq rows
    BY DEF Store!RowsOf
  <2>2. st' \in [Submission -> {"none", "uploaded", "needs_you", "settling", "done"}]
    BY <1>13, StoreTypesAre DEF Store!RemoveHandIn
  <2>3. photo' \in [Submission -> SUBSET Store!File]
    BY <1>13, StoreTypesAre DEF Store!RemoveHandIn
  <2> QED BY <1>13, <2>1, <2>2, <2>3, RetireTypes, StoreTypesAre, StoreTypesBecome DEF Store!RemoveHandIn
<1>14. ASSUME NEW t \in Template, NEW u \in Template, Store!Duplicate(t, u)
       PROVE  StoreTypes'
  <2>1. \A r \in Store!RowsOf(t, {"paper"}) : GoodRow([r EXCEPT !.of = u])
    BY StoreTypesAre DEF Store!RowsOf, GoodRow, Store!Row
  <2>2. \A r \in rows' \cup deleted' : GoodRow(r)'
    BY <1>14, <2>1, StoreTypesAre DEF Store!Duplicate, GoodRow
  <2> QED BY <1>14, <2>2, StoreTypesAre, StoreTypesBecome DEF Store!Duplicate, RequestsFit, RequestFits
<1>15. ASSUME NEW t \in Template, Store!DeleteTemplate(t)
       PROVE  StoreTypes'
  BY <1>15, StoreTypesAre, StoreTypesBecome DEF Store!DeleteTemplate, RequestsFit, RequestFits, GoodRow
<1>16. ASSUME NEW s \in Submission, Store!MarkEnds(s)
       PROVE  StoreTypes'
  BY <1>16, StoreTypesAre, StoreTypesBecome DEF Store!MarkEnds, RequestsFit, RequestFits, GoodRow
<1>17. ASSUME Store!Crash
       PROVE  StoreTypes'
  <2>1. request' \in [Client -> StoreRequest] /\ RequestsFit'
    BY <1>17, IdleFits DEF Store!Crash, RequestsFit, RequestFits
  <2>2. crashes' \in 0 .. MaxCrashes
    BY <1>17, StoreTypesAre, StoreConstants DEF Store!Crash, Store!StoreAssumption
  <2> QED BY <1>17, <2>1, <2>2, StoreTypesAre, StoreTypesBecome DEF Store!Crash, GoodRow
<1> QED
  BY <1>1, <1>2, <1>3, <1>4, <1>5, <1>6, <1>7, <1>8, <1>9, <1>10, <1>11, <1>12, <1>13, <1>14, <1>15, <1>16, <1>17
     DEF Store!StoreNext

\* A deletion unlinks no file that a row or a request still needs.
LEMMA RetireSafe ==
    ASSUME Apart, StoreTypes, FilesSafe, NEW c \in Client, NEW R, Store!Retire(c, R), UNCHANGED disk
    PROVE  FilesSafe'
<1> DEFINE F == Store!Unreferenced(R)
           q == IF F = {} THEN Store!Idle ELSE [op |-> "unlink", of |-> None, files |-> {}, left |-> F]
<1>1. request \in [Client -> StoreRequest] /\ request' = [request EXCEPT ![c] = q] /\ rows' = rows \ R
  BY StoreTypesAre DEF Store!Retire, Store!Then, StoreTypes
<1>2. \A f : (request'[c].op = "unlink" /\ f \in request'[c].left) => f \in F
  <2>1. request'[c] = q
    BY <1>1
  <2> QED BY <2>1 DEF Store!Idle
<1>3. request'[c].op \notin StoringOps
  BY <1>1 DEF Store!Idle, StoringOps
<1>4. \A d \in Client : d # c => request'[d] = request[d]
  BY <1>1
<1>5. \A f : Safe(f) /\ f \notin F => Safe(f)'
  BY <1>2, <1>4 DEF Safe, Store!Unlinking, Store!Busy
<1>6. \A r \in rows' : Safe(r.file)'
  BY <1>1, <1>5 DEF FilesSafe, Store!Unreferenced, Store!FilesOf
<1>7. ASSUME NEW d \in Client, request'[d].op \in StoringOps, NEW f \in request'[d].files \ request'[d].left
      PROVE  Safe(f)'
  <2>1. d # c /\ request'[d] = request[d]
    BY <1>3, <1>4, <1>7
  <2>2. Store!Storing(f)
    BY <1>7, <2>1 DEF Store!Storing, StoringOps
  <2>3. f \notin F
    BY <2>2 DEF Store!Retire
  <2> QED BY <1>5, <1>7, <2>1, <2>3 DEF FilesSafe
<1>8. (\A r \in rows : Safe(r.file))'
  BY <1>6
<1>9. (\A d \in Client : request[d].op \in StoringOps =>
          \A f \in request[d].files \ request[d].left : Safe(f))'
  BY <1>7
<1> QED BY <1>8, <1>9 DEF FilesSafe

\* A request that inserts its rows has stored the files they name.
LEMMA InsertSafe ==
    ASSUME StoreTypes, FilesSafe, NEW c \in Client, request[c].op \in StoringOps, request[c].left = {},
           Store!Then(c, Store!Idle), UNCHANGED disk,
           \A r \in rows' : r \in rows \/ r.file \in request[c].files
    PROVE  FilesSafe'
<1>1. \A d \in Client : request'[d] = IF d = c THEN Store!Idle ELSE request[d]
  BY StoreTypesAre DEF Store!Then, StoreTypes
<1>2. \A f : Safe(f) => Safe(f)'
  BY <1>1 DEF Safe, Store!Unlinking, Store!Busy, Store!Idle
<1>3. (\A r \in rows : Safe(r.file))'
  BY <1>2 DEF FilesSafe
<1>4. (\A d \in Client : request[d].op \in StoringOps =>
          \A f \in request[d].files \ request[d].left : Safe(f))'
  BY <1>1, <1>2 DEF FilesSafe, Store!Idle
<1> QED BY <1>3, <1>4 DEF FilesSafe

\* Where neither the requests nor the disk change, every row's file was another row's before.
LEMMA SameFilesSafe ==
    ASSUME FilesSafe, UNCHANGED <<disk, request>>,
           \A r \in rows' : \E p \in rows : p.file = r.file
    PROVE  FilesSafe'
<1>1. \A f : Safe(f) => Safe(f)'
  BY DEF Safe, Store!Unlinking, Store!Busy
<1> QED BY <1>1 DEF FilesSafe

\* No unlink and no other step of the store takes a file that is needed, if no unlink overlaps a
\* request that stores the file.
LEMMA FilesSafeStep ==
    ASSUME Apart, StoreTypes, FilesSafe, Store!StoreNext
    PROVE  FilesSafe'
<1> DEFINE Reqs == request \in [Client -> StoreRequest]
<1>0. Reqs
  BY StoreTypesAre DEF StoreTypes
<1>1. ASSUME NEW c \in Client, Store!Put(c)
      PROVE  FilesSafe'
  <2>1. PICK f \in request[c].left : /\ ~Store!Unlinking(f)
                                     /\ disk' = disk \cup {f}
                                     /\ Store!Then(c, [request[c] EXCEPT !.left = @ \ {f}])
    BY <1>1 DEF Store!Put
  <2>2. request[c] \in StoreRequest /\ request[c].op # "unlink"
    BY <1>0, <1>1 DEF Store!Put
  <2>3. /\ request'[c].op = request[c].op /\ request'[c].files = request[c].files
        /\ request'[c].left = request[c].left \ {f}
        /\ \A d \in Client : d # c => request'[d] = request[d]
    BY <1>0, <2>1, <2>2 DEF Store!Then, StoreRequest
  <2>4. \A g : Safe(g) \/ g = f => Safe(g)'
    BY <2>1, <2>2, <2>3 DEF Safe, Store!Unlinking, Store!Busy
  <2>5. (\A r \in rows : Safe(r.file))'
    BY <1>1, <2>4 DEF FilesSafe, Store!Put
  <2>6. (\A d \in Client : request[d].op \in StoringOps =>
            \A g \in request[d].files \ request[d].left : Safe(g))'
    BY <2>3, <2>4 DEF FilesSafe
  <2> QED BY <2>5, <2>6 DEF FilesSafe
<1>2. ASSUME NEW c \in Client, Store!Unlink(c)
      PROVE  FilesSafe'
  <2>1. PICK f \in request[c].left : disk' = disk \ {f} /\
            LET rest == request[c].left \ {f} IN
            Store!Then(c, IF rest = {} THEN Store!Idle ELSE [request[c] EXCEPT !.left = rest])
    BY <1>2 DEF Store!Unlink
  <2>2. request[c] \in StoreRequest /\ request[c].op = "unlink"
    BY <1>0, <1>2 DEF Store!Unlink, Store!Busy
  <2>3. /\ request'[c].op \in {"idle", "unlink"} /\ request'[c].left \subseteq request[c].left
        /\ \A d \in Client : d # c => request'[d] = request[d]
    BY <1>0, <2>1, <2>2 DEF Store!Then, StoreRequest, Store!Idle
  <2>4. \A g : Safe(g) => Safe(g)'
    BY <2>1, <2>2, <2>3 DEF Safe, Store!Unlinking, Store!Busy
  <2>5. (\A r \in rows : Safe(r.file))'
    BY <1>2, <2>4 DEF FilesSafe, Store!Unlink
  <2>6. (\A d \in Client : request[d].op \in StoringOps =>
            \A g \in request[d].files \ request[d].left : Safe(g))'
    BY <2>3, <2>4 DEF FilesSafe, StoringOps
  <2> QED BY <2>5, <2>6 DEF FilesSafe
<1>3. ASSUME NEW c \in Client,
             Store!InsertUpload(c) \/ Store!InsertPages(c) \/ Store!InsertCorrection(c) \/ Store!InsertCrops(c)
      PROVE  FilesSafe'
  <2>1. /\ request[c].op \in StoringOps /\ request[c].left = {}
        /\ Store!Then(c, Store!Idle) /\ UNCHANGED disk
    BY <1>3 DEF Store!InsertUpload, Store!InsertPages, Store!InsertCorrection, Store!InsertCrops,
                Store!Ready, Store!Busy, StoringOps
  <2>2. \A r \in rows' : r \in rows \/ r.file \in request[c].files
    BY <1>3 DEF Store!InsertUpload, Store!InsertPages, Store!InsertCorrection, Store!InsertCrops, Store!RowFor
  <2> QED BY <2>1, <2>2, InsertSafe
<1>4. ASSUME NEW c \in Client, NEW op \in StoringOps, NEW o, NEW files, Store!Begin(c, op, o, files)
      PROVE  FilesSafe'
  <2>1. \A d \in Client : request'[d] = IF d = c THEN [op |-> op, of |-> o, files |-> files, left |-> files]
                                                ELSE request[d]
    BY <1>0, <1>4 DEF Store!Begin, Store!Then
  <2>2. \A g : Safe(g) => Safe(g)'
    BY <1>4, <2>1 DEF Safe, Store!Unlinking, Store!Busy, Store!Begin, StoringOps
  <2>3. (\A r \in rows : Safe(r.file))'
    BY <1>4, <2>2 DEF FilesSafe, Store!Begin
  <2>4. (\A d \in Client : request[d].op \in StoringOps =>
            \A g \in request[d].files \ request[d].left : Safe(g))'
    BY <2>1, <2>2 DEF FilesSafe
  <2> QED BY <2>3, <2>4 DEF FilesSafe
<1>5. ASSUME NEW c \in Client, NEW s \in Submission,
             Store!Upload(c, s) \/ Store!Correct(c, s) \/ Store!Cut(c, s)
      PROVE  FilesSafe'
  BY <1>4, <1>5 DEF Store!Upload, Store!Correct, Store!Cut, StoringOps
<1>6. ASSUME NEW c \in Client, NEW t \in Template, Store!Attach(c, t)
      PROVE  FilesSafe'
  BY <1>4, <1>6 DEF Store!Attach, StoringOps
<1>7. ASSUME NEW c \in Client, NEW s \in Submission, Store!DeletePages(c, s)
      PROVE  FilesSafe'
  BY <1>7, RetireSafe DEF Store!DeletePages
<1>8. ASSUME NEW c \in Client, NEW s \in Submission, Store!Resolve(c, s)
      PROVE  FilesSafe'
  <2>1. ASSUME UNCHANGED <<rows, deleted, request>>
        PROVE  FilesSafe'
    BY <1>8, <2>1, SameFilesSafe DEF Store!Resolve
  <2> QED BY <1>8, <2>1, RetireSafe DEF Store!Resolve
<1>9. ASSUME NEW c \in Client, NEW s \in Submission,
             Store!Reconcile(c, s) \/ Store!RetirePhoto(c, s) \/ Store!RemoveHandIn(c, s)
      PROVE  FilesSafe'
  <2>1. CASE Store!Reconcile(c, s)
    BY <2>1, RetireSafe DEF Store!Reconcile
  <2>2. CASE Store!RetirePhoto(c, s)
    BY <2>2, RetireSafe DEF Store!RetirePhoto
  <2>3. CASE Store!RemoveHandIn(c, s)
    BY <2>3, RetireSafe DEF Store!RemoveHandIn
  <2> QED BY <1>9, <2>1, <2>2, <2>3
<1>10. ASSUME NEW t \in Template, NEW u \in Template, Store!Duplicate(t, u)
       PROVE  FilesSafe'
  <2>1. \A r \in Store!RowsOf(t, {"paper"}) : r \in rows /\ [r EXCEPT !.of = u].file = r.file
    BY StoreTypesAre DEF Store!RowsOf, StoreTypes, GoodRow, Store!Row
  <2>2. \A r \in rows' : \E p \in rows : p.file = r.file
    BY <1>10, <2>1 DEF Store!Duplicate
  <2> QED BY <1>10, <2>2, SameFilesSafe DEF Store!Duplicate
<1>11. ASSUME NEW t \in Template, Store!DeleteTemplate(t)
       PROVE  FilesSafe'
  BY <1>11, SameFilesSafe DEF Store!DeleteTemplate
<1>12. ASSUME NEW s \in Submission, Store!MarkEnds(s)
       PROVE  FilesSafe'
  BY <1>12, SameFilesSafe DEF Store!MarkEnds
<1>13. ASSUME Store!Crash
       PROVE  FilesSafe'
  <2>1. \A f : Safe(f) => Safe(f)'
    BY <1>13 DEF Store!Crash, Safe, Store!Unlinking, Store!Busy, Store!Idle
  <2>2. \A d \in Client : request'[d].op \notin StoringOps
    BY <1>13 DEF Store!Crash, Store!Idle, StoringOps
  <2> QED BY <1>13, <2>1, <2>2 DEF Store!Crash, FilesSafe
<1> QED
  BY <1>1, <1>2, <1>3, <1>5, <1>6, <1>7, <1>8, <1>9, <1>10, <1>11, <1>12, <1>13 DEF Store!StoreNext

\* A deletion takes no row but those it may take, and no photo that is still needed.
LEMMA RetireKeeps ==
    ASSUME StoreKeeps, NEW c \in Client, NEW R, Store!Retire(c, R), deleted' \subseteq deleted \cup R,
           UNCHANGED keep,
           \A r \in R : r \in deleted' /\ r.of \in Submission =>
               keep[r.of] # "pages" /\ (r.kind = "crop" => keep[r.of] = "none"),
           \A s \in Submission : \A f \in photo'[s] :
               f \in photo[s] /\ Store!RowFor("correction", s, f) \notin R
    PROVE  StoreKeeps'
<1>1. \A r \in deleted' : r \in deleted \/ r \in R
  OBVIOUS
<1>2. Store!KeptAsAsked'
  BY <1>1 DEF StoreKeeps, Store!KeptAsAsked
<1>3. Store!PhotoStays'
  BY DEF StoreKeeps, Store!PhotoStays, Store!Retire, Store!RowFor
<1> QED BY <1>2, <1>3 DEF StoreKeeps

\* The retention modes are kept to, and the photos of corrections that are not final stay.
LEMMA StoreKeepsStep ==
    ASSUME StoreTypes, StoreKeeps, Store!StoreNext
    PROVE  StoreKeeps'
<1>0. photo \in [Submission -> SUBSET Store!File] /\ Submission \cap Template = {}
  BY StoreTypesAre, StoreConstants DEF StoreTypes, Store!StoreAssumption
<1>1. ASSUME UNCHANGED <<deleted, keep>>, \A r \in rows : r.kind = "correction" => r \in rows',
             \A s \in Submission : \A f \in photo'[s] : f \in photo[s] \/ Store!RowFor("correction", s, f) \in rows'
      PROVE  StoreKeeps'
  BY <1>1 DEF StoreKeeps, Store!KeptAsAsked, Store!PhotoStays, Store!RowFor
<1>2. ASSUME NEW c \in Client, Store!Put(c) \/ Store!Unlink(c)
      PROVE  StoreKeeps'
  BY <1>1, <1>2 DEF Store!Put, Store!Unlink
<1>3. ASSUME NEW c \in Client, Store!InsertUpload(c)
      PROVE  StoreKeeps'
  BY <1>1, <1>3 DEF Store!InsertUpload
<1>4. ASSUME NEW c \in Client, Store!InsertPages(c)
      PROVE  StoreKeeps'
  BY <1>1, <1>4 DEF Store!InsertPages, Store!RowsOf
<1>5. ASSUME NEW c \in Client, Store!InsertCorrection(c)
      PROVE  StoreKeeps'
  <2>1. ASSUME NEW s \in Submission, NEW f \in photo'[s]
        PROVE  f \in photo[s] \/ Store!RowFor("correction", s, f) \in rows'
    BY <1>0, <1>5, <2>1 DEF Store!InsertCorrection
  <2> QED BY <1>1, <1>5, <2>1 DEF Store!InsertCorrection
<1>6. ASSUME NEW c \in Client, Store!InsertCrops(c)
      PROVE  StoreKeeps'
  BY <1>1, <1>6 DEF Store!InsertCrops, Store!RowsOf
<1>7. ASSUME NEW c \in Client, NEW op, NEW o, NEW files, Store!Begin(c, op, o, files)
      PROVE  StoreKeeps'
  BY <1>1, <1>7 DEF Store!Begin
<1>8. ASSUME NEW c \in Client, NEW s \in Submission,
             Store!Upload(c, s) \/ Store!Correct(c, s) \/ Store!Cut(c, s)
      PROVE  StoreKeeps'
  BY <1>7, <1>8 DEF Store!Upload, Store!Correct, Store!Cut
<1>9. ASSUME NEW c \in Client, NEW t \in Template, Store!Attach(c, t)
      PROVE  StoreKeeps'
  BY <1>7, <1>9 DEF Store!Attach
<1>10. ASSUME NEW c \in Client, NEW s \in Submission, Store!DeletePages(c, s)
       PROVE  StoreKeeps'
  <2>1. \A r \in Store!Goes(s) : r.of = s /\ r.kind # "correction" /\ (r.kind = "crop" => keep[s] = "none")
    BY DEF Store!Goes, Store!Leftover, Store!RowsOf
  <2> QED BY <1>10, <2>1, RetireKeeps DEF Store!DeletePages, Store!RowFor
<1>11. ASSUME NEW c \in Client, NEW s \in Submission, Store!Resolve(c, s) \/ Store!Reconcile(c, s)
       PROVE  StoreKeeps'
  <2>1. ASSUME NEW R, R \subseteq (IF keep[s] = "pages" THEN {} ELSE Store!Leftover(s)),
               Store!Retire(c, R), deleted' = deleted \cup R
        PROVE  StoreKeeps'
    <3>1. \A r \in R : r.of = s /\ r.kind \notin {"correction", "crop"} /\ keep[s] # "pages"
      BY <2>1 DEF Store!Leftover, Store!RowsOf
    <3> QED BY <1>11, <2>1, <3>1, RetireKeeps DEF Store!Resolve, Store!Reconcile, Store!RowFor
  <2>2. Store!RowsOf(s, {"student"}) \subseteq Store!Leftover(s)
    BY DEF Store!Leftover, Store!RowsOf
  <2>3. ASSUME UNCHANGED <<rows, deleted, request, photo, keep>>
        PROVE  StoreKeeps'
    BY <1>1, <2>3
  <2>4. CASE Store!Resolve(c, s)
    BY <2>1, <2>2, <2>3, <2>4 DEF Store!Resolve
  <2>5. CASE Store!Reconcile(c, s)
    BY <2>1, <2>5 DEF Store!Reconcile
  <2> QED BY <1>11, <2>4, <2>5
<1>12. ASSUME NEW c \in Client, NEW s \in Submission, Store!RetirePhoto(c, s)
       PROVE  StoreKeeps'
  <2> DEFINE R == IF keep[s] = "pages" THEN {} ELSE {r \in Store!RowsOf(s, {"correction"}) : r.file \in photo[s]}
  <2>1. \A r \in R : r.of = s /\ r.kind = "correction" /\ keep[s] # "pages"
    BY DEF Store!RowsOf
  <2>2. Store!Retire(c, R) /\ deleted' = deleted \cup R /\ keep' = keep /\ photo' = [photo EXCEPT ![s] = {}]
    BY <1>12 DEF Store!RetirePhoto
  <2> HIDE DEF R
  <2>3. \A t \in Submission : \A f \in photo'[t] : f \in photo[t] /\ Store!RowFor("correction", t, f) \notin R
    BY <1>0, <2>1, <2>2 DEF Store!RowFor
  <2> QED BY <2>1, <2>2, <2>3, RetireKeeps
<1>13. ASSUME NEW c \in Client, NEW s \in Submission, Store!RemoveHandIn(c, s)
       PROVE  StoreKeeps'
  <2> DEFINE R == Store!RowsOf(s, Store!Kind)
  <2>1. \A r \in R : r.of = s
    BY DEF Store!RowsOf
  <2>2. /\ Store!Retire(c, R) /\ deleted' = {r \in deleted : r.of # s} /\ keep' = keep
        /\ photo' = [photo EXCEPT ![s] = {}]
    BY <1>13 DEF Store!RemoveHandIn
  <2> HIDE DEF R
  <2>3. \A t \in Submission : \A f \in photo'[t] : f \in photo[t] /\ Store!RowFor("correction", t, f) \notin R
    BY <1>0, <2>1, <2>2 DEF Store!RowFor
  <2> QED BY <2>1, <2>2, <2>3, RetireKeeps
<1>14. ASSUME NEW t \in Template, NEW u \in Template, Store!Duplicate(t, u)
       PROVE  StoreKeeps'
  BY <1>1, <1>14 DEF Store!Duplicate
<1>15. ASSUME NEW t \in Template, Store!DeleteTemplate(t)
       PROVE  StoreKeeps'
  BY <1>1, <1>15 DEF Store!DeleteTemplate, Store!RowsOf
<1>16. ASSUME NEW s \in Submission, Store!MarkEnds(s)
       PROVE  StoreKeeps'
  BY <1>1, <1>16 DEF Store!MarkEnds
<1>17. ASSUME Store!Crash
       PROVE  StoreKeeps'
  BY <1>1, <1>17 DEF Store!Crash
<1> QED
  BY <1>2, <1>3, <1>4, <1>5, <1>6, <1>8, <1>9, <1>10, <1>11, <1>12, <1>13, <1>14, <1>15, <1>16, <1>17
     DEF Store!StoreNext

-----------------------------------------------------------------------------
(* The outbox *)

\* What a tick has read of a row, and what the tick is doing.
Item     == [m : 1 .. MaxMessages, id : 0 .. MaxMessages, group : Group \cup {None}, attempts : 0 .. MAX_ATTEMPTS - 1]
TickType == [pc : {"poll", "link", "ack", "flush", "send", "mark", "refused", "digest", "stamp"},
             got : SUBSET Outbox!Update, items : SUBSET Item, groups : SUBSET Group,
             at : Group \cup {None}, day : 0 .. MaxDays]

\* Update ids are bounded, so that of those a tick has got there is a newest.
BoundedIds(S) == \E n \in Nat : \A u \in S : u.id <= n

\* The tick has the shape of what it has read; there is an update to link while it links, and a
\* row that is open has attempts left.
OutboxTypes ==
    /\ Outbox!OutboxTypeOK
    /\ tick \in TickType
    /\ \A b \in Bot : BoundedIds(inbox[b])
    /\ BoundedIds(tick.got)
    /\ tick.pc \in {"link", "ack"} => tick.got # {}
    /\ tick.pc \in {"mark", "refused"} => tick.at \in tick.groups
    /\ \A m \in 1 .. MaxMessages :
          /\ Outbox!Present(m) => note[m].id \in 1 .. lastId \/ RowIdsReused
          /\ note[m].st = "unsent" => note[m].attempts < MAX_ATTEMPTS

\* A row that the tick has read and not handled is as it was, or withdrawn, and no other row has
\* its id.
RowsAsRead ==
    \A i \in tick.items :
        /\ i.id <= lastId
        /\ \A j \in tick.items : i.m = j.m => i = j
        /\ \A m \in 1 .. MaxMessages : Outbox!Present(m) /\ note[m].id = i.id => m = i.m
        /\ i.group \in tick.groups =>
              \/ note[i.m].st = "deleted"
              \/ /\ note[i.m].st = "unsent" /\ note[i.m].id = i.id
                 /\ note[i.m].group = i.group /\ note[i.m].attempts = i.attempts

\* The message of the group that is being stamped has gone out, of the others only by a loss.
JustTold(i) == tick.pc = "mark" /\ i.group = tick.at
TellsOnce ==
    /\ Outbox!ToldOnce
    /\ \A m \in 1 .. MaxMessages :
          note[m].st \in {"none", "unsent"} /\ told[m] > lost => \E i \in tick.items : i.m = m /\ JustTold(i)
    /\ \A i \in tick.items :
          /\ i.group \in tick.groups /\ ~JustTold(i) => told[i.m] <= lost
          /\ JustTold(i) => told[i.m] > 0 \/ tick.at \in gone

\* The digest of today goes out unless it has, or is being stamped; only a day that is over or has
\* come is recorded, and none later than the one that is being stamped.
DigestsOnce ==
    /\ Outbox!DigestOnce
    /\ bot.last <= day
    /\ tick.pc = "stamp" => bot.last < day /\ tick.day <= day
    /\ \A d \in 1 .. MaxDays : d > day => digests[d] = 0
    /\ day > 0 /\ bot.last # day /\ ~(tick.pc = "stamp" /\ tick.day = day) => digests[day] <= lost + unlinks

OutboxInv == OutboxTypes /\ RowsAsRead /\ TellsOnce /\ Outbox!ClosedWasTold /\ DigestsOnce

\* A set of naturals has a least element, unless it is empty.
LEMMA LeastNatural ==
    ASSUME NEW B \in SUBSET Nat, B # {}
    PROVE  \E n \in B : \A k \in B : n <= k
<1> DEFINE R == OpToRel(<, Nat)
<1>1. IsWellFoundedOn(R, Nat)
  BY NatLessThanWellFounded
<1>2. R = {p \in Nat \X Nat : p[1] < p[2]}
  BY DEF OpToRel
<1> HIDE DEF R
<1>3. PICK n \in B : \A k \in B : <<k, n>> \notin R
  BY <1>1, WFMin
<1>4. \A k \in B : <<k, n>> \in Nat \X Nat
  OBVIOUS
<1>5. \A k \in B : ~(k < n)
  BY <1>2, <1>3, <1>4
<1> QED BY <1>5

\* A bounded set of updates has a newest one, unless it is empty.
LEMMA NewestIsOne ==
    ASSUME NEW S \in SUBSET Outbox!Update, S # {}, BoundedIds(S)
    PROVE  Outbox!Newest(S) \in S /\ \A u \in S : u.id <= Outbox!Newest(S).id
<1> DEFINE B == {n \in Nat : \A u \in S : u.id <= n}
<1>1. PICK n \in B : \A k \in B : n <= k
  <2>1. B \in SUBSET Nat /\ B # {}
    BY DEF BoundedIds
  <2> HIDE DEF B
  <2> QED BY <2>1, LeastNatural
<1>2. \A u \in S : u.id \in Nat
  BY DEF Outbox!Update
<1>3. \E u \in S : u.id = n
  <2>1. SUFFICES ASSUME \A u \in S : u.id # n
                 PROVE  FALSE
    OBVIOUS
  <2>2. n > 0
    BY <1>2, <2>1
  <2>3. n - 1 \in B
    BY <1>2, <2>1, <2>2
  <2> QED BY <1>1, <2>3
<1>4. PICK u \in S : \A v \in S : v.id <= u.id
  BY <1>1, <1>3
<1> QED BY <1>4 DEF Outbox!Newest

\* The tick at rest.
LEMMA RestFits ==
    /\ Outbox!Rest \in TickType
    /\ Outbox!Rest.pc = "poll" /\ Outbox!Rest.got = {} /\ Outbox!Rest.items = {} /\ Outbox!Rest.groups = {}
  BY OutboxConstants DEF Outbox!OutboxAssumption, Outbox!Rest, TickType

\* What is left of the tick when it moves on: its hands are empty.
LEMMA ToNext ==
    ASSUME NEW pc \in {"poll", "link", "ack", "flush", "send", "mark", "refused", "digest", "stamp"}, Outbox!To(pc)
    PROVE  /\ tick' \in TickType /\ tick'.pc = pc
           /\ tick'.got = {} /\ tick'.items = {} /\ tick'.groups = {} /\ BoundedIds(tick'.got)
<1>2. tick' \in TickType /\ tick'.pc = pc /\ tick'.got = {} /\ tick'.items = {} /\ tick'.groups = {}
  BY RestFits DEF Outbox!To, Outbox!Goes, TickType
<1> QED BY <1>2 DEF BoundedIds

\* A tick that has no updates in hand is typed as far as the tick goes.
TickFits ==
    /\ tick \in TickType
    /\ BoundedIds(tick.got)
    /\ tick.pc \in {"link", "ack"} => tick.got # {}
    /\ tick.pc \in {"mark", "refused"} => tick.at \in tick.groups

\* The rest of the type invariant.
BoxFits ==
    /\ bot \in Outbox!Saved
    /\ inbox \in [Bot -> SUBSET Outbox!Update] /\ \A b \in Bot : BoundedIds(inbox[b])
    /\ told \in [1 .. MaxMessages -> Nat]
    /\ gone \subseteq Group
    /\ day \in 0 .. MaxDays /\ digests \in [1 .. MaxDays -> Nat]
    /\ presses \in 0 .. MaxPresses /\ unlinks \in 0 .. MaxUnlinks /\ lost \in 0 .. MaxLost
RowsFit ==
    /\ note \in [1 .. MaxMessages -> Outbox!Note]
    /\ lastId \in 0 .. MaxMessages
    /\ \A m, n \in 1 .. MaxMessages : m # n /\ Outbox!Present(m) /\ Outbox!Present(n) => note[m].id # note[n].id
    /\ \A m \in 1 .. MaxMessages :
          /\ Outbox!Present(m) => note[m].id \in 1 .. lastId \/ RowIdsReused
          /\ note[m].st = "unsent" => note[m].attempts < MAX_ATTEMPTS

\* The three parts are the whole, now and in the next state.
LEMMA OutboxTypesAre == OutboxTypes <=> TickFits /\ BoxFits /\ RowsFit
  BY DEF OutboxTypes, Outbox!OutboxTypeOK, TickFits, BoxFits, RowsFit, TickType, Outbox!Message, Outbox!Present

\* The same of the next state, in the direction a step needs.
LEMMA OutboxTypesWillBe == TickFits' /\ BoxFits' /\ RowsFit' => OutboxTypes'
  BY DEF OutboxTypes, Outbox!OutboxTypeOK, TickFits, BoxFits, RowsFit, TickType, Outbox!Message, Outbox!Present

\* What moves the tick to its next point leaves it fit.
LEMMA TickMoves ==
    ASSUME NEW pc \in {"poll", "flush", "digest"}, Outbox!To(pc)
    PROVE  TickFits'
<1>1. tick' \in TickType /\ tick'.pc = pc /\ BoundedIds(tick'.got)
  BY ToNext
<1>2. BoundedIds(tick.got)'
  BY <1>1 DEF BoundedIds
<1> QED BY <1>1, <1>2 DEF TickFits

\* Rows that only lose, or keep, their identity are fit.
LEMMA RowsStay ==
    ASSUME RowsFit, note' \in [1 .. MaxMessages -> Outbox!Note], lastId' = lastId,
           \A m \in 1 .. MaxMessages :
               note'[m].st \in {"unsent", "sent"} => Outbox!Present(m) /\ note'[m].id = note[m].id,
           \A m \in 1 .. MaxMessages : note'[m].st = "unsent" => note'[m].attempts < MAX_ATTEMPTS
    PROVE  RowsFit'
  BY DEF RowsFit, Outbox!Present

\* A row that was refused has another number of attempts, and perhaps another state.
LEMMA RefusedRow ==
    ASSUME NEW m \in 1 .. MaxMessages, note[m] \in Outbox!Note, NEW n \in 1 .. MAX_ATTEMPTS
    PROVE  /\ Outbox!Refused(m, n) \in Outbox!Note
           /\ Outbox!Refused(m, n).id = note[m].id /\ Outbox!Refused(m, n).group = note[m].group
           /\ Outbox!Refused(m, n).attempts = n
           /\ Outbox!Refused(m, n).st = IF n >= MAX_ATTEMPTS THEN "sent" ELSE note[m].st
<1>0. n \in 0 .. MAX_ATTEMPTS
  BY OutboxConstants DEF Outbox!OutboxAssumption
<1>1. PICK r \in Outbox!Note : r = note[m]
  OBVIOUS
<1>2. PICK s \in {"none", "unsent", "sent", "deleted"} : s = IF n >= MAX_ATTEMPTS THEN "sent" ELSE note[m].st
  BY DEF Outbox!Note
<1>3. Outbox!Refused(m, n) = [r EXCEPT !.attempts = n, !.due = FALSE, !.st = s]
  BY <1>1, <1>2 DEF Outbox!Refused, Outbox!Note
<1>4. [r EXCEPT !.attempts = n, !.due = FALSE, !.st = s] \in Outbox!Note
  BY <1>0 DEF Outbox!Note
<1>5. PICK new : new = [r EXCEPT !.attempts = n, !.due = FALSE, !.st = s]
  OBVIOUS
<1>6. new.id = r.id /\ new.group = r.group /\ new.attempts = n /\ new.st = s
  BY <1>5 DEF Outbox!Note
<1> QED BY <1>1, <1>2, <1>3, <1>4, <1>5, <1>6

\* The outbox keeps its type through every step of a teacher, a worker and Telegram.
LEMMA OutboxTypesStep ==
    ASSUME OutboxTypes, Outbox!OutboxNext
    PROVE  OutboxTypes'
<1>0. TickFits /\ BoxFits /\ RowsFit
  BY OutboxTypesAre
<1>a. /\ None \notin Bot \cup Chat \cup Group /\ FirstUpdate \in [Bot -> Nat \ {0}]
      /\ MAX_ATTEMPTS \in Nat \ {0} /\ MaxMessages \in Nat /\ MaxPresses \in Nat /\ MaxDays \in Nat
      /\ MaxUnlinks \in Nat /\ MaxLost \in Nat
  BY OutboxConstants DEF Outbox!OutboxAssumption
<1>t. ASSUME UNCHANGED tick
      PROVE  TickFits'
  BY <1>0, <1>t DEF TickFits, BoundedIds
<1>b. ASSUME UNCHANGED <<bot, inbox, told, gone, day, digests, presses, unlinks, lost>>
      PROVE  BoxFits'
  BY <1>0, <1>b DEF BoxFits, BoundedIds
<1>r. ASSUME UNCHANGED <<note, lastId>>
      PROVE  RowsFit'
  BY <1>0, <1>r DEF RowsFit, Outbox!Present
<1>l. ASSUME Outbox!Loses
      PROVE  lost' \in 0 .. MaxLost
  BY <1>0, <1>a, <1>l DEF BoxFits, Outbox!Loses
<1>1. ASSUME NEW g \in Group, Outbox!Insert(g)
      PROVE  OutboxTypes'
  <2>1. PICK m \in 1 .. MaxMessages, id \in Outbox!Next_id :
            /\ note[m].st = "none"
            /\ note' = [note EXCEPT ![m] = [st |-> "unsent", id |-> id, group |-> g, attempts |-> 0, due |-> TRUE]]
            /\ lastId' = id
    BY <1>1 DEF Outbox!Insert, Outbox!Message
  <2>2. id \in 1 .. MaxMessages
    BY DEF Outbox!Next_id
  <2>3. note' \in [1 .. MaxMessages -> Outbox!Note]
    BY <1>0, <1>a, <2>1, <2>2 DEF RowsFit, Outbox!Note
  <2>4. \A n \in 1 .. MaxMessages : Outbox!Present(n) => note[n].id # id
    BY <1>0, <1>a DEF RowsFit, Outbox!Next_id, Outbox!Present, Outbox!Note, Outbox!Message
  <2>5. \A n \in 1 .. MaxMessages : n # m => note'[n] = note[n]
    BY <1>0, <2>1 DEF RowsFit
  <2>6. note'[m].id = id
    BY <1>0, <2>1 DEF RowsFit
  <2>7. \A n, k \in 1 .. MaxMessages : n # k /\ Outbox!Present(n)' /\ Outbox!Present(k)' => note'[n].id # note'[k].id
    BY <1>0, <2>4, <2>5, <2>6 DEF RowsFit, Outbox!Present
  <2>8. \A n \in 1 .. MaxMessages : Outbox!Present(n)' => note'[n].id \in 1 .. id \/ RowIdsReused
    <3>1. ~RowIdsReused => id = lastId + 1
      BY DEF Outbox!Next_id
    <3> QED BY <1>0, <1>a, <2>2, <2>5, <2>6, <3>1 DEF RowsFit, Outbox!Present, Outbox!Note
  <2>9. \A n \in 1 .. MaxMessages : note'[n].st = "unsent" => note'[n].attempts < MAX_ATTEMPTS
    BY <1>0, <1>a, <2>1, <2>5 DEF RowsFit
  <2>10. RowsFit'
    BY <2>1, <2>2, <2>3, <2>7, <2>8, <2>9 DEF RowsFit
  <2> QED BY <1>1, <1>t, <1>b, <2>10, OutboxTypesWillBe DEF Outbox!Insert
<1>2. ASSUME NEW g \in Group, Outbox!DeleteAssignment(g)
      PROVE  OutboxTypes'
  <2>1. BoxFits'
    BY <1>0, <1>2 DEF Outbox!DeleteAssignment, BoxFits, BoundedIds
  <2> QED BY <1>2, <1>t, <1>r, <2>1, OutboxTypesWillBe DEF Outbox!DeleteAssignment
<1>3. ASSUME NEW m \in 1 .. MaxMessages, Outbox!Withdraw(m) \/ Outbox!Due(m)
      PROVE  OutboxTypes'
  <2>1. note' \in [1 .. MaxMessages -> Outbox!Note]
    <3>1. [Outbox!NoNote EXCEPT !.st = "deleted"] \in Outbox!Note
      <4>1. Outbox!NoNote \in Outbox!Note
        BY <1>a DEF Outbox!NoNote, Outbox!Note
      <4> QED BY <4>1 DEF Outbox!Note
    <3>2. [note[m] EXCEPT !.due = TRUE] \in Outbox!Note
      BY <1>0 DEF Outbox!Note, RowsFit
    <3> QED BY <1>0, <1>3, <3>1, <3>2 DEF RowsFit, Outbox!Withdraw, Outbox!Due
  <2>2. \A n \in 1 .. MaxMessages :
            note'[n].st \in {"unsent", "sent"} => Outbox!Present(n) /\ note'[n].id = note[n].id
    <3>1. [Outbox!NoNote EXCEPT !.st = "deleted"].st = "deleted"
      BY DEF Outbox!NoNote
    <3>2. [note[m] EXCEPT !.due = TRUE].id = note[m].id /\ [note[m] EXCEPT !.due = TRUE].st = note[m].st
      BY <1>0 DEF Outbox!Note, RowsFit
    <3> QED BY <1>0, <1>3, <3>1, <3>2 DEF RowsFit, Outbox!Withdraw, Outbox!Due, Outbox!Present
  <2>4. \A n \in 1 .. MaxMessages : note'[n].st = "unsent" => note'[n].attempts < MAX_ATTEMPTS
    <3>1. [Outbox!NoNote EXCEPT !.st = "deleted"].st = "deleted"
      BY DEF Outbox!NoNote
    <3>2. [note[m] EXCEPT !.due = TRUE].attempts = note[m].attempts
      BY <1>0 DEF Outbox!Note, RowsFit
    <3> QED BY <1>0, <1>3, <3>1, <3>2 DEF RowsFit, Outbox!Withdraw, Outbox!Due
  <2>3. RowsFit'
    BY <1>0, <1>3, <2>1, <2>2, <2>4, RowsStay DEF Outbox!Withdraw, Outbox!Due
  <2> QED BY <1>3, <1>t, <1>b, <2>3, OutboxTypesWillBe DEF Outbox!Withdraw, Outbox!Due
<1>4. ASSUME NEW b \in Bot, Outbox!SaveToken(b)
      PROVE  OutboxTypes'
  <2>1. BoxFits'
    BY <1>0, <1>4 DEF Outbox!SaveToken, BoxFits, BoundedIds, Outbox!Saved
  <2> QED BY <1>4, <1>t, <1>r, <2>1, OutboxTypesWillBe DEF Outbox!SaveToken
<1>5. ASSUME Outbox!clear_telegram
      PROVE  OutboxTypes'
  <2>1. BoxFits'
    BY <1>0, <1>5, <1>a DEF Outbox!clear_telegram, Outbox!Unlinked, BoxFits, BoundedIds, Outbox!Saved
  <2> QED BY <1>5, <1>t, <1>r, <2>1, OutboxTypesWillBe DEF Outbox!clear_telegram
<1>6. ASSUME NEW b \in Bot, NEW c \in Chat, Outbox!Press(b, c)
      PROVE  OutboxTypes'
  <2> DEFINE u == [id |-> FirstUpdate[b] + presses, chat |-> c]
  <2>1. u \in Outbox!Update
    BY <1>0, <1>a DEF BoxFits, Outbox!Update
  <2>2. inbox' = [inbox EXCEPT ![b] = @ \cup {u}]
    BY <1>6 DEF Outbox!Press
  <2>3. BoundedIds(inbox[b] \cup {u})
    <3>1. PICK n \in Nat : \A v \in inbox[b] : v.id <= n
      BY <1>0 DEF BoxFits, BoundedIds
    <3>2. \A v \in inbox[b] : v.id \in Nat
      BY <1>0 DEF BoxFits, Outbox!Update
    <3>3. n + u.id \in Nat /\ \A v \in inbox[b] \cup {u} : v.id <= n + u.id
      BY <2>1, <3>1, <3>2 DEF Outbox!Update
    <3> QED BY <3>3 DEF BoundedIds
  <2> HIDE DEF u
  <2>4. inbox' \in [Bot -> SUBSET Outbox!Update] /\ \A d \in Bot : BoundedIds(inbox'[d])
    BY <1>0, <2>1, <2>2, <2>3 DEF BoxFits
  <2>5. (\A d \in Bot : BoundedIds(inbox[d]))'
    BY <2>4 DEF BoundedIds
  <2>6. presses' \in 0 .. MaxPresses
    BY <1>0, <1>6, <1>a DEF BoxFits, Outbox!Press
  <2>7. BoxFits'
    BY <1>0, <1>6, <2>4, <2>5, <2>6 DEF BoxFits, Outbox!Press
  <2> QED BY <1>6, <1>t, <1>r, <2>7, OutboxTypesWillBe DEF Outbox!Press
<1>7. ASSUME Outbox!SendTime
      PROVE  OutboxTypes'
  <2>1. BoxFits'
    BY <1>0, <1>7, <1>a DEF Outbox!SendTime, BoxFits, BoundedIds
  <2> QED BY <1>7, <1>t, <1>r, <2>1, OutboxTypesWillBe DEF Outbox!SendTime
<1>8. ASSUME Outbox!Crash
      PROVE  OutboxTypes'
  <2>1. BoxFits'
    BY <1>0, <1>8, <1>l DEF Outbox!Crash, BoxFits, BoundedIds
  <2> QED BY <1>8, TickMoves, <1>r, <2>1, OutboxTypesWillBe DEF Outbox!Crash
<1>9. ASSUME Outbox!Fetch
      PROVE  OutboxTypes'
  <2>1. CASE bot.token = None
    BY <1>9, <2>1, TickMoves, <1>b, <1>r, OutboxTypesWillBe DEF Outbox!Fetch
  <2>2. CASE bot.token # None /\ Outbox!To("flush")
    <3>1. BoxFits'
      BY <1>0, <1>9, <1>l, <2>2 DEF Outbox!Fetch, BoxFits, BoundedIds
    <3> QED BY <1>9, TickMoves, <1>r, <2>2, <3>1, OutboxTypesWillBe DEF Outbox!Fetch
  <2>3. CASE bot.token # None /\ ~Outbox!To("flush")
    <3> DEFINE got == {u \in inbox[bot.token] : u.id >= bot.offset}
    <3>1. /\ inbox' = [inbox EXCEPT ![bot.token] = got] /\ UNCHANGED lost
          /\ got # {} /\ tick' = [Outbox!Rest EXCEPT !.pc = "link", !.got = got]
      BY <1>9, <2>3 DEF Outbox!Fetch, Outbox!Goes, Outbox!To
    <3>2. bot.token \in Bot
      BY <1>0, <2>3 DEF BoxFits, Outbox!Saved
    <3>3. got \in SUBSET Outbox!Update /\ BoundedIds(got)
      BY <1>0, <3>2 DEF BoxFits, BoundedIds
    <3> HIDE DEF got
    <3>4. inbox' \in [Bot -> SUBSET Outbox!Update] /\ \A d \in Bot : BoundedIds(inbox'[d])
      BY <1>0, <3>1, <3>2, <3>3 DEF BoxFits
    <3>5. (\A d \in Bot : BoundedIds(inbox[d]))'
      BY <3>4 DEF BoundedIds
    <3>6. BoxFits'
      BY <1>0, <1>9, <3>1, <3>4, <3>5 DEF BoxFits, Outbox!Fetch
    <3>8. tick' \in TickType /\ tick'.pc = "link" /\ tick'.got = got
      BY <3>1, <3>3, RestFits DEF TickType
    <3>9. BoundedIds(tick.got)'
      BY <3>3, <3>8 DEF BoundedIds
    <3> QED BY <1>9, <1>r, <3>1, <3>6, <3>8, <3>9, OutboxTypesWillBe DEF Outbox!Fetch, TickFits
  <2> QED BY <2>1, <2>2, <2>3
<1>10. ASSUME Outbox!Link
       PROVE  OutboxTypes'
  <2>1. tick.pc = "link" /\ tick \in TickType /\ tick.got \in SUBSET Outbox!Update /\ tick.got # {} /\ BoundedIds(tick.got)
    BY <1>0, <1>10 DEF TickFits, TickType, Outbox!Link
  <2>2. Outbox!Newest(tick.got).chat \in Chat
    BY <2>1, NewestIsOne DEF Outbox!Update
  <2>3. BoxFits'
    BY <1>0, <1>10, <2>2 DEF BoxFits, BoundedIds, Outbox!Link, Outbox!Saved
  <2>4. tick' \in TickType /\ tick'.pc = "ack" /\ tick'.got = tick.got
    BY <1>10, <2>1 DEF Outbox!Link, Outbox!Goes, TickType
  <2>5. BoundedIds(tick.got)'
    BY <2>1, <2>4 DEF BoundedIds
  <2> QED BY <1>10, <1>r, <2>1, <2>3, <2>4, <2>5, OutboxTypesWillBe DEF Outbox!Link, TickFits
<1>11. ASSUME Outbox!Acknowledge
       PROVE  OutboxTypes'
  <2>1. tick.got \in SUBSET Outbox!Update /\ tick.got # {} /\ BoundedIds(tick.got)
    BY <1>0, <1>11 DEF TickFits, TickType, Outbox!Acknowledge
  <2>2. Outbox!Newest(tick.got).id + 1 \in Nat
    BY <2>1, NewestIsOne DEF Outbox!Update
  <2>3. BoxFits'
    BY <1>0, <1>11, <2>2 DEF BoxFits, BoundedIds, Outbox!Acknowledge, Outbox!Saved
  <2> QED BY <1>11, <1>r, <2>3, TickMoves, OutboxTypesWillBe DEF Outbox!Acknowledge
<1>12. ASSUME Outbox!Flush
       PROVE  OutboxTypes'
  <2>1. CASE Outbox!To("digest")
    BY <1>12, <2>1, <1>b, <1>r, TickMoves, OutboxTypesWillBe DEF Outbox!Flush
  <2>2. CASE ~Outbox!To("digest")
    <3> DEFINE items == {Outbox!Item(m) : m \in {n \in Outbox!Message : Outbox!IsDue(n)}}
    <3>1. tick' = [Outbox!Rest EXCEPT !.pc = "send", !.groups = Outbox!Chosen, !.items = items]
      BY <1>12, <2>2 DEF Outbox!Flush, Outbox!Goes
    <3>2. items \subseteq Item
      BY <1>0, <1>a DEF Outbox!Item, Outbox!Message, RowsFit, Item, Outbox!Note, Outbox!IsDue
    <3>3. Outbox!Chosen \subseteq Group
      BY DEF Outbox!Chosen
    <3> HIDE DEF items
    <3>5. tick' \in TickType /\ tick'.pc = "send" /\ tick'.got = {}
      BY <3>1, <3>2, <3>3, RestFits DEF TickType
    <3>6. TickFits'
      BY <3>5 DEF TickFits, BoundedIds
    <3> QED BY <1>12, <1>b, <1>r, <3>6, OutboxTypesWillBe DEF Outbox!Flush
  <2> QED BY <2>1, <2>2
<1>13. ASSUME NEW g \in Group, Outbox!Send(g)
       PROVE  OutboxTypes'
  <2>1. tick \in TickType /\ g \in tick.groups
    BY <1>0, <1>13 DEF TickFits, Outbox!Send
  <2>2. PICK pc \in {"mark", "refused"} : tick' = [tick EXCEPT !.pc = pc, !.at = g]
    BY <1>13 DEF Outbox!Send, Outbox!Goes
  <2>3. tick' \in TickType /\ tick'.pc = pc /\ tick'.at = g /\ tick'.groups = tick.groups /\ tick'.got = tick.got
    BY <2>1, <2>2 DEF TickType
  <2>4. TickFits'
    BY <1>0, <2>1, <2>3 DEF TickFits, BoundedIds
  <2>5. told' \in [1 .. MaxMessages -> Nat]
    BY <1>0, <1>13 DEF Outbox!Send, Outbox!Tell, BoxFits, Outbox!Message
  <2>6. lost' \in 0 .. MaxLost
    BY <1>0, <1>13, <1>l DEF Outbox!Send, BoxFits
  <2>7. BoxFits'
    BY <1>0, <1>13, <2>5, <2>6 DEF BoxFits, BoundedIds, Outbox!Send
  <2> QED BY <1>13, <1>r, <2>4, <2>7, OutboxTypesWillBe DEF Outbox!Send
<1>n. ASSUME Outbox!Next_group(tick.at)
      PROVE  TickFits'
  <2>1. CASE Outbox!To("digest")
    BY <2>1, TickMoves
  <2>2. CASE ~Outbox!To("digest")
    <3>1. tick' = [tick EXCEPT !.pc = "send", !.groups = tick.groups \ {tick.at}]
      BY <1>n, <2>2 DEF Outbox!Next_group, Outbox!Goes
    <3>2. tick' \in TickType /\ tick'.pc = "send" /\ tick'.got = tick.got
      BY <1>0, <3>1 DEF TickFits, TickType
    <3> QED BY <1>0, <3>2 DEF TickFits, BoundedIds
  <2> QED BY <2>1, <2>2
<1>14. ASSUME Outbox!mark_sent
       PROVE  OutboxTypes'
  <2>1. \A m \in 1 .. MaxMessages : /\ [note[m] EXCEPT !.st = "sent"] \in Outbox!Note
                                    /\ [note[m] EXCEPT !.st = "sent"].id = note[m].id
    BY <1>0 DEF RowsFit, Outbox!Note
  <2>2. \A m \in Outbox!RowsOf(Outbox!ItemsOf(tick.at)) : Outbox!Present(m)
    BY DEF Outbox!RowsOf, Outbox!WithId
  <2>3. /\ note' \in [1 .. MaxMessages -> Outbox!Note]
        /\ \A m \in 1 .. MaxMessages :
               note'[m].st \in {"unsent", "sent"} => Outbox!Present(m) /\ note'[m].id = note[m].id
    BY <1>0, <1>14, <2>1, <2>2 DEF RowsFit, Outbox!mark_sent, Outbox!Message, Outbox!Present
  <2>4. RowsFit'
    <3>1. \A m \in 1 .. MaxMessages : note'[m].st = "unsent" => note'[m] = note[m]
      BY <1>0, <1>14 DEF RowsFit, Outbox!mark_sent, Outbox!Message, Outbox!Note
    <3> QED BY <1>0, <1>14, <2>3, <3>1, RowsStay DEF Outbox!mark_sent, RowsFit
  <2> QED BY <1>14, <1>b, <1>n, <2>4, OutboxTypesWillBe DEF Outbox!mark_sent
<1>15. ASSUME Outbox!mark_error
       PROVE  OutboxTypes'
  <2> DEFINE items == Outbox!ItemsOf(tick.at)
             tries(m) == (CHOOSE i \in items : i.id = note[m].id).attempts + 1
  <2>1. items \subseteq Item
    BY <1>0 DEF TickFits, TickType, Outbox!ItemsOf
  <2>2. \A m \in Outbox!RowsOf(items) : Outbox!Present(m) /\ \E i \in items : i.id = note[m].id
    BY DEF Outbox!RowsOf, Outbox!WithId
  <2>3. note' = [m \in Outbox!Message |-> IF m \in Outbox!RowsOf(items) THEN Outbox!Refused(m, tries(m)) ELSE note[m]]
    BY <1>15 DEF Outbox!mark_error
  <2>4. \A m \in Outbox!RowsOf(items) : tries(m) \in 1 .. MAX_ATTEMPTS
    <3> SUFFICES ASSUME NEW m \in Outbox!RowsOf(items)
                 PROVE  tries(m) \in 1 .. MAX_ATTEMPTS
      OBVIOUS
    <3>1. PICK i \in Item : tries(m) = i.attempts + 1
      BY <2>1, <2>2
    <3> QED BY <1>a, <3>1 DEF Item
  <2> HIDE DEF items, tries
  <2>5. \A m \in 1 .. MaxMessages : m \in Outbox!RowsOf(items) =>
            /\ note'[m] \in Outbox!Note /\ note'[m].id = note[m].id
            /\ note'[m].st = "unsent" => note'[m].attempts < MAX_ATTEMPTS
    <3> SUFFICES ASSUME NEW m \in 1 .. MaxMessages, m \in Outbox!RowsOf(items)
                 PROVE  /\ note'[m] \in Outbox!Note /\ note'[m].id = note[m].id
                        /\ note'[m].st = "unsent" => note'[m].attempts < MAX_ATTEMPTS
      OBVIOUS
    <3>1. note'[m] = Outbox!Refused(m, tries(m))
      BY <2>3 DEF Outbox!Message
    <3>2. note[m] \in Outbox!Note
      BY <1>0 DEF RowsFit
    <3>3. PICK n \in 1 .. MAX_ATTEMPTS : n = tries(m)
      BY <2>4
    <3>4. note'[m] = Outbox!Refused(m, n)
      BY <3>1, <3>3
    <3>5. MAX_ATTEMPTS \in Nat
      BY <1>a
    <3> QED BY <3>2, <3>4, <3>5, RefusedRow
  <2>6. \A m \in 1 .. MaxMessages : m \notin Outbox!RowsOf(items) => note'[m] = note[m]
    BY <2>3 DEF Outbox!Message
  <2>7. note' \in [1 .. MaxMessages -> Outbox!Note]
    BY <1>0, <2>3, <2>5, <2>6 DEF RowsFit, Outbox!Message
  <2>8. RowsFit'
    BY <1>0, <1>15, <2>2, <2>5, <2>6, <2>7, RowsStay DEF Outbox!mark_error, RowsFit, Outbox!Present
  <2> QED BY <1>15, <1>b, <1>n, <2>8, OutboxTypesWillBe DEF Outbox!mark_error
<1>16. ASSUME Outbox!Digest
       PROVE  OutboxTypes'
  <2>1. CASE UNCHANGED digests
    <3>1. Outbox!To("poll")
      BY <1>16, <2>1, <1>0, <1>a DEF Outbox!Digest, BoxFits, Outbox!Owed
    <3>2. bot' \in Outbox!Saved /\ lost' \in 0 .. MaxLost
      BY <1>0, <1>16, <1>l DEF Outbox!Digest, BoxFits, Outbox!Saved
    <3>3. BoxFits'
      BY <1>0, <1>16, <2>1, <3>2 DEF BoxFits, BoundedIds, Outbox!Digest
    <3> QED BY <1>16, <1>r, <3>1, <3>3, TickMoves, OutboxTypesWillBe DEF Outbox!Digest
  <2>2. CASE Outbox!Owed /\ digests' = [digests EXCEPT ![day] = @ + 1] /\ UNCHANGED bot /\ Outbox!To("poll") /\ Outbox!Loses
    <3>1. BoxFits'
      BY <1>0, <1>16, <1>l, <2>2 DEF BoxFits, BoundedIds, Outbox!Digest, Outbox!Owed
    <3> QED BY <1>16, <1>r, <2>2, <3>1, TickMoves, OutboxTypesWillBe DEF Outbox!Digest
  <2>3. CASE /\ Outbox!Owed /\ digests' = [digests EXCEPT ![day] = @ + 1] /\ UNCHANGED <<bot, lost>>
             /\ tick' = [Outbox!Rest EXCEPT !.pc = "stamp", !.day = day]
    <3>1. BoxFits'
      BY <1>0, <1>16, <2>3 DEF BoxFits, BoundedIds, Outbox!Digest, Outbox!Owed
    <3>3. tick' \in TickType /\ tick'.pc = "stamp" /\ tick'.got = {}
      BY <1>0, <2>3, RestFits DEF TickType, BoxFits
    <3>4. TickFits'
      BY <3>3 DEF TickFits, BoundedIds
    <3> QED BY <1>16, <1>r, <3>1, <3>4, OutboxTypesWillBe DEF Outbox!Digest
  <2> QED BY <1>16, <2>1, <2>2, <2>3 DEF Outbox!Digest, Outbox!Goes
<1>17. ASSUME Outbox!Stamp
       PROVE  OutboxTypes'
  <2>1. BoxFits'
    BY <1>0, <1>17 DEF BoxFits, BoundedIds, Outbox!Stamp, Outbox!Saved, TickFits, TickType
  <2> QED BY <1>17, <1>r, <2>1, TickMoves, OutboxTypesWillBe DEF Outbox!Stamp
<1> QED
  BY <1>1, <1>2, <1>3, <1>4, <1>5, <1>6, <1>7, <1>8, <1>9, <1>10, <1>11, <1>12, <1>13, <1>14, <1>15, <1>16, <1>17
     DEF Outbox!OutboxNext, Outbox!Tick, Outbox!Message

\* The rows that are stamped, or refused, are those that the tick has read for the group it is at.
LEMMA RowsAtHand ==
    ASSUME OutboxTypes, RowsAsRead, tick.pc \in {"mark", "refused"},
           NEW m \in Outbox!RowsOf(Outbox!ItemsOf(tick.at))
    PROVE  /\ m \in 1 .. MaxMessages /\ note[m].st = "unsent" /\ note[m].group = tick.at
           /\ \E j \in Outbox!ItemsOf(tick.at) : j.m = m
           /\ \A j \in Outbox!ItemsOf(tick.at) : j.id = note[m].id => j.attempts = note[m].attempts
<1>1. m \in 1 .. MaxMessages /\ Outbox!Present(m) /\ \E j \in Outbox!ItemsOf(tick.at) : j.id = note[m].id
  BY DEF Outbox!RowsOf, Outbox!WithId, Outbox!Message
<1>2. tick.at \in tick.groups
  BY DEF OutboxTypes
<1>3. ASSUME NEW j \in Outbox!ItemsOf(tick.at), j.id = note[m].id
      PROVE  j.m = m /\ note[m].st = "unsent" /\ note[m].group = tick.at /\ j.attempts = note[m].attempts
  BY <1>1, <1>2, <1>3 DEF RowsAsRead, Outbox!ItemsOf, Outbox!Present
<1> QED BY <1>1, <1>3

\* A refusal counts the attempt that was read, which is still the row's own.
LEMMA RefusedRows ==
    ASSUME OutboxTypes, RowsAsRead, Outbox!mark_error, NEW m \in 1 .. MaxMessages
    PROVE  IF m \in Outbox!RowsOf(Outbox!ItemsOf(tick.at))
           THEN /\ note'[m].id = note[m].id /\ note'[m].group = note[m].group
                /\ note'[m].st \in {"unsent", "sent"}
                /\ note'[m].st = "sent" => note'[m].attempts = MAX_ATTEMPTS
           ELSE note'[m] = note[m]
<1> DEFINE items == Outbox!ItemsOf(tick.at)
           tries == (CHOOSE i \in items : i.id = note[m].id).attempts + 1
<1>1. tick.pc = "refused" /\ note'[m] = IF m \in Outbox!RowsOf(items) THEN Outbox!Refused(m, tries) ELSE note[m]
  BY DEF Outbox!mark_error, Outbox!Message
<1>2. ASSUME m \in Outbox!RowsOf(items)
      PROVE  /\ note'[m].id = note[m].id /\ note'[m].group = note[m].group
             /\ note'[m].st \in {"unsent", "sent"}
             /\ note'[m].st = "sent" => note'[m].attempts = MAX_ATTEMPTS
  <2>1. \E j \in items : j.id = note[m].id
    BY <1>2 DEF Outbox!RowsOf, Outbox!WithId
  <2>2. tries = note[m].attempts + 1 /\ note[m].st = "unsent"
    BY <1>1, <1>2, <2>1, RowsAtHand
  <2>3. note[m] \in Outbox!Note /\ note[m].attempts < MAX_ATTEMPTS
    BY <2>2 DEF OutboxTypes, Outbox!OutboxTypeOK, Outbox!Message
  <2>4. MAX_ATTEMPTS \in Nat /\ note[m].attempts \in Nat
    BY <2>3, OutboxConstants DEF Outbox!OutboxAssumption, Outbox!Note
  <2>5. tries \in 1 .. MAX_ATTEMPTS
    BY <2>2, <2>3, <2>4
  <2> HIDE DEF tries
  <2>6. note'[m] = Outbox!Refused(m, tries)
    BY <1>1, <1>2
  <2> QED BY <2>2, <2>3, <2>4, <2>5, <2>6, RefusedRow
<1> QED BY <1>1, <1>2

\* The tick's hands stay as they are while it is at one of its points, or are emptied.
SameItems == tick'.items = tick.items /\ tick'.groups \subseteq tick.groups

\* Steps that leave the rows alone.
LEMMA TickOnly ==
    ASSUME OutboxTypes, RowsAsRead, UNCHANGED <<note, lastId>>, SameItems \/ tick'.items = {}
    PROVE  RowsAsRead'
  BY DEF RowsAsRead, SameItems, Outbox!Present

\* From one group to the next.
LEMMA GroupDone ==
    ASSUME OutboxTypes, NEW g \in Group, g = tick.at, Outbox!Next_group(g)
    PROVE  /\ tick'.items = {} \/ (tick'.items = tick.items /\ tick'.groups = tick.groups \ {g})
           /\ tick'.pc \in {"digest", "send"}
<1>1. CASE Outbox!To("digest")
  BY <1>1, ToNext
<1>2. CASE ~Outbox!To("digest")
  BY <1>2 DEF Outbox!Next_group, Outbox!Goes, OutboxTypes, TickType
<1> QED BY <1>1, <1>2

\* What each step of the tick does to its hands.
LEMMA TickSteps ==
    ASSUME OutboxTypes
    PROVE  /\ Outbox!Fetch => tick'.items = {} /\ tick.pc = "poll"
           /\ Outbox!Link => SameItems /\ tick'.groups = tick.groups /\ tick.pc = "link" /\ tick'.pc = "ack"
           /\ Outbox!Acknowledge => tick'.items = {} /\ tick.pc = "ack"
           /\ Outbox!Digest \/ Outbox!Stamp => tick'.items = {} /\ tick.pc \in {"digest", "stamp"}
           /\ Outbox!Crash => tick'.items = {}
<1>1. Outbox!Fetch => tick'.items = {} /\ tick.pc = "poll"
  <2>1. [Outbox!Rest EXCEPT !.pc = "flush"].items = {}
    BY RestFits DEF TickType
  <2>2. \A got : [Outbox!Rest EXCEPT !.pc = "link", !.got = got].items = {}
    BY RestFits DEF TickType
  <2> QED BY <2>1, <2>2, ToNext DEF Outbox!Fetch, Outbox!Goes
<1>2. Outbox!Link => SameItems /\ tick'.groups = tick.groups /\ tick.pc = "link" /\ tick'.pc = "ack"
  BY DEF Outbox!Link, Outbox!Goes, SameItems, OutboxTypes, TickType
<1>3. Outbox!Acknowledge => tick'.items = {} /\ tick.pc = "ack"
  BY ToNext DEF Outbox!Acknowledge
<1>4. Outbox!Digest \/ Outbox!Stamp => tick'.items = {} /\ tick.pc \in {"digest", "stamp"}
  <2>1. \A d : [Outbox!Rest EXCEPT !.pc = "stamp", !.day = d].items = {}
    BY RestFits DEF TickType
  <2> QED BY <2>1, ToNext DEF Outbox!Digest, Outbox!Stamp, Outbox!Goes
<1>5. Outbox!Crash => tick'.items = {}
  BY ToNext DEF Outbox!Crash
<1> QED BY <1>1, <1>2, <1>3, <1>4, <1>5

\* What a flush takes in hand: the rows that are due, or nothing.
LEMMA FlushTakes ==
    ASSUME OutboxTypes, Outbox!Flush
    PROVE  /\ \A i \in tick'.items :
                  /\ i.m \in 1 .. MaxMessages /\ note[i.m].st = "unsent" /\ note[i.m].id = i.id
                  /\ note[i.m].group = i.group /\ note[i.m].attempts = i.attempts
                  /\ i = Outbox!Item(i.m)
           /\ tick'.pc \in {"digest", "send"} /\ tick.pc = "flush"
<1>1. CASE Outbox!To("digest")
  BY <1>1, ToNext DEF Outbox!Flush
<1>2. CASE ~Outbox!To("digest")
  <2> DEFINE items == {Outbox!Item(m) : m \in {n \in Outbox!Message : Outbox!IsDue(n)}}
  <2>1. \A i \in items : /\ i.m \in 1 .. MaxMessages /\ note[i.m].st = "unsent" /\ note[i.m].id = i.id
                         /\ note[i.m].group = i.group /\ note[i.m].attempts = i.attempts
                         /\ i = Outbox!Item(i.m)
    BY DEF Outbox!Item, Outbox!IsDue, Outbox!Message
  <2>2. tick' = [Outbox!Rest EXCEPT !.pc = "send", !.groups = Outbox!Chosen, !.items = items]
    BY <1>2 DEF Outbox!Flush, Outbox!Goes
  <2> HIDE DEF items
  <2>3. tick'.items = items /\ tick'.pc = "send"
    BY <2>2, RestFits DEF TickType
  <2> QED BY <2>1, <2>3 DEF Outbox!Flush
<1> QED BY <1>1, <1>2

\* What a send leaves of the tick.
LEMMA SendKeeps ==
    ASSUME OutboxTypes, NEW g \in Group, Outbox!Send(g)
    PROVE  /\ tick.pc = "send" /\ g \in tick.groups /\ tick'.pc \in {"mark", "refused"} /\ tick'.at = g
           /\ tick'.items = tick.items /\ tick'.groups = tick.groups
<1>1. PICK pc \in {"mark", "refused"} : tick' = [tick EXCEPT !.pc = pc, !.at = g]
  BY DEF Outbox!Send, Outbox!Goes
<1> QED BY <1>1 DEF Outbox!Send, OutboxTypes, TickType

\* What the tick has read stays true, or is of a row withdrawn since: no id is given twice.
LEMMA RowsAsReadStep ==
    ASSUME ~RowIdsReused, OutboxTypes, RowsAsRead, Outbox!OutboxNext
    PROVE  RowsAsRead'
<1>0. /\ note \in [1 .. MaxMessages -> Outbox!Note] /\ lastId \in Nat
      /\ \A i \in tick.items : i.m \in 1 .. MaxMessages /\ i.id \in Nat
  BY DEF OutboxTypes, Outbox!OutboxTypeOK, Outbox!Message, TickType, Item
<1>1. ASSUME NEW g \in Group, Outbox!Insert(g)
      PROVE  RowsAsRead'
  <2>1. PICK m \in 1 .. MaxMessages, id \in Outbox!Next_id :
            /\ note[m].st = "none"
            /\ note' = [note EXCEPT ![m] = [st |-> "unsent", id |-> id, group |-> g, attempts |-> 0, due |-> TRUE]]
            /\ lastId' = id
    BY <1>1 DEF Outbox!Insert, Outbox!Message
  <2>2. id = lastId + 1
    BY DEF Outbox!Next_id
  <2>3. note'[m].id = id /\ \A n \in 1 .. MaxMessages : n # m => note'[n] = note[n]
    BY <1>0, <2>1
  <2>4. UNCHANGED tick
    BY <1>1 DEF Outbox!Insert
  <2>5. \A i \in tick.items : i.id <= lastId' /\ i.id # id
    BY <1>0, <2>1, <2>2 DEF RowsAsRead
  <2> QED BY <1>0, <2>1, <2>3, <2>4, <2>5 DEF RowsAsRead, Outbox!Present
<1>2. ASSUME NEW m \in 1 .. MaxMessages, Outbox!Withdraw(m)
      PROVE  RowsAsRead'
  <2>1. /\ note'[m].st = "deleted" /\ \A n \in 1 .. MaxMessages : n # m => note'[n] = note[n]
        /\ UNCHANGED <<tick, lastId>>
    BY <1>0, <1>2 DEF Outbox!Withdraw, Outbox!NoNote
  <2> QED BY <1>0, <2>1 DEF RowsAsRead, Outbox!Present
<1>3. ASSUME NEW m \in 1 .. MaxMessages, Outbox!Due(m)
      PROVE  RowsAsRead'
  <2>1. /\ \A n \in 1 .. MaxMessages : /\ note'[n].st = note[n].st /\ note'[n].id = note[n].id
                                       /\ note'[n].group = note[n].group /\ note'[n].attempts = note[n].attempts
        /\ UNCHANGED <<tick, lastId>>
    BY <1>0, <1>3 DEF Outbox!Due, Outbox!Note
  <2> QED BY <1>0, <2>1 DEF RowsAsRead, Outbox!Present
<1>4. ASSUME \/ \E g \in Group : Outbox!DeleteAssignment(g)
             \/ \E b \in Bot : Outbox!SaveToken(b)
             \/ \E b \in Bot, c \in Chat : Outbox!Press(b, c)
             \/ Outbox!clear_telegram \/ Outbox!SendTime
      PROVE  RowsAsRead'
  BY <1>4, TickOnly DEF Outbox!DeleteAssignment, Outbox!SaveToken, Outbox!Press, Outbox!clear_telegram,
                        Outbox!SendTime, SameItems
<1>5. ASSUME Outbox!Fetch \/ Outbox!Link \/ Outbox!Acknowledge \/ Outbox!Digest \/ Outbox!Stamp \/ Outbox!Crash
      PROVE  RowsAsRead'
  <2>1. UNCHANGED <<note, lastId>>
    BY <1>5 DEF Outbox!Fetch, Outbox!Link, Outbox!Acknowledge, Outbox!Digest, Outbox!Stamp, Outbox!Crash
  <2> QED BY <1>5, <2>1, TickOnly, TickSteps
<1>6. ASSUME Outbox!Flush
      PROVE  RowsAsRead'
  <2>1. UNCHANGED <<note, lastId>>
    BY <1>6 DEF Outbox!Flush
  <2>2. \A i \in tick'.items : Outbox!Present(i.m) /\ note[i.m].id \in 1 .. lastId
    BY <1>6, FlushTakes DEF Outbox!Present, OutboxTypes
  <2>3. \A i \in tick'.items : i.id <= lastId'
    BY <1>0, <1>6, <2>1, <2>2, FlushTakes
  <2>4. \A i \in tick'.items : \A m \in 1 .. MaxMessages : Outbox!Present(m) /\ note[m].id = i.id => m = i.m
    BY <1>6, <2>2, FlushTakes DEF OutboxTypes, Outbox!OutboxTypeOK, Outbox!Present, Outbox!Message
  <2>5. \A i, j \in tick'.items : i.m = j.m => i = j
    BY <1>6, FlushTakes
  <2> QED BY <1>6, <2>1, <2>3, <2>4, <2>5, FlushTakes DEF RowsAsRead, Outbox!Present
<1>7. ASSUME NEW g \in Group, Outbox!Send(g)
      PROVE  RowsAsRead'
  BY <1>7, SendKeeps, TickOnly DEF Outbox!Send, SameItems
<1>8. ASSUME Outbox!mark_sent \/ Outbox!mark_error
      PROVE  RowsAsRead'
  <2>1. tick.pc \in {"mark", "refused"} /\ tick.at \in tick.groups /\ tick.at \in Group /\ UNCHANGED lastId
    BY <1>8 DEF Outbox!mark_sent, Outbox!mark_error, OutboxTypes, TickType
  <2>2. tick'.items = {} \/ (tick'.items = tick.items /\ tick'.groups = tick.groups \ {tick.at})
    BY <1>8, <2>1, GroupDone DEF Outbox!mark_sent, Outbox!mark_error
  <2> DEFINE R == Outbox!RowsOf(Outbox!ItemsOf(tick.at))
  <2>3. \A m \in 1 .. MaxMessages : IF m \in R THEN note'[m].st \in {"unsent", "sent"} /\ note'[m].id = note[m].id
                                               ELSE note'[m] = note[m]
    <3>1. CASE Outbox!mark_sent
      <4>1. \A m \in 1 .. MaxMessages : note[m] \in Outbox!Note
        BY <1>0
      <4>2. \A m \in 1 .. MaxMessages : note'[m] = IF m \in R THEN [note[m] EXCEPT !.st = "sent"] ELSE note[m]
        BY <3>1 DEF Outbox!mark_sent, Outbox!Message
      <4> HIDE DEF R
      <4> QED BY <4>1, <4>2 DEF Outbox!Note
    <3>2. CASE Outbox!mark_error
      BY <3>2, RefusedRows
    <3> QED BY <1>8, <3>1, <3>2
  <2>4. \A m \in R : Outbox!Present(m) /\ note[m].group = tick.at
    BY <2>1, RowsAtHand DEF Outbox!Present
  <2> HIDE DEF R
  <2>5. \A m \in 1 .. MaxMessages : Outbox!Present(m)' => Outbox!Present(m) /\ note'[m].id = note[m].id
    BY <2>3, <2>4 DEF Outbox!Present
  <2>6. CASE tick'.items = tick.items /\ tick'.groups = tick.groups \ {tick.at}
    <3>1. \A i \in tick'.items : i.group \in tick'.groups => note'[i.m] = note[i.m]
      BY <1>0, <2>3, <2>4, <2>6 DEF RowsAsRead, Outbox!Present
    <3> QED BY <1>0, <2>1, <2>5, <2>6, <3>1 DEF RowsAsRead
  <2> QED BY <2>2, <2>6 DEF RowsAsRead
<1> QED
  BY <1>1, <1>2, <1>3, <1>4, <1>5, <1>6, <1>7, <1>8 DEF Outbox!OutboxNext, Outbox!Tick, Outbox!Message

\* Losses only grow, and every loss is one.
LEMMA LossesGrow ==
    ASSUME OutboxTypes, Outbox!OutboxNext
    PROVE  /\ lost \in Nat /\ lost' \in Nat /\ lost <= lost' /\ (Outbox!Crash => lost' = lost + 1)
           /\ told \in [1 .. MaxMessages -> Nat] /\ note \in [1 .. MaxMessages -> Outbox!Note]
           /\ \A i \in tick.items : i.m \in 1 .. MaxMessages
<1>1. lost \in Nat /\ told \in [1 .. MaxMessages -> Nat] /\ note \in [1 .. MaxMessages -> Outbox!Note]
  BY DEF OutboxTypes, Outbox!OutboxTypeOK, Outbox!Message
<1>2. lost' = lost \/ lost' = lost + 1
  <2>1. ASSUME NEW g \in Group, Outbox!Insert(g) \/ Outbox!DeleteAssignment(g) \/ Outbox!Send(g)
        PROVE  lost' = lost \/ lost' = lost + 1
    BY <2>1 DEF Outbox!Insert, Outbox!DeleteAssignment, Outbox!Send, Outbox!Loses
  <2>2. ASSUME NEW m \in Outbox!Message, Outbox!Withdraw(m) \/ Outbox!Due(m)
        PROVE  lost' = lost \/ lost' = lost + 1
    BY <2>2 DEF Outbox!Withdraw, Outbox!Due
  <2>3. ASSUME \/ \E b \in Bot : Outbox!SaveToken(b)
               \/ \E b \in Bot, c \in Chat : Outbox!Press(b, c)
               \/ Outbox!clear_telegram \/ Outbox!SendTime \/ Outbox!Crash
        PROVE  lost' = lost \/ lost' = lost + 1
    BY <2>3 DEF Outbox!SaveToken, Outbox!Press, Outbox!clear_telegram, Outbox!SendTime, Outbox!Crash, Outbox!Loses
  <2>4. ASSUME \/ Outbox!Fetch \/ Outbox!Link \/ Outbox!Acknowledge \/ Outbox!Flush
               \/ Outbox!mark_sent \/ Outbox!mark_error \/ Outbox!Digest \/ Outbox!Stamp
        PROVE  lost' = lost \/ lost' = lost + 1
    BY <2>4 DEF Outbox!Fetch, Outbox!Link, Outbox!Acknowledge, Outbox!Flush,
                Outbox!mark_sent, Outbox!mark_error, Outbox!Digest, Outbox!Stamp, Outbox!Loses
  <2> QED BY <2>1, <2>2, <2>3, <2>4 DEF Outbox!OutboxNext, Outbox!Tick
<1>3. Outbox!Crash => lost' = lost + 1
  BY DEF Outbox!Crash, Outbox!Loses
<1>4. \A i \in tick.items : i.m \in 1 .. MaxMessages
  BY DEF OutboxTypes, TickType, Item
<1> QED BY <1>1, <1>2, <1>3, <1>4

\* Which messages have gone out, when neither they nor the tick's hands change.
LEMMA TellsQuietly ==
    ASSUME OutboxTypes, TellsOnce, Outbox!OutboxNext, UNCHANGED <<told, tick>>, gone \subseteq gone',
           \A m \in 1 .. MaxMessages : note'[m].st \in {"none", "unsent"} => note[m].st \in {"none", "unsent"}
    PROVE  TellsOnce'
<1>1. lost \in Nat /\ lost' \in Nat /\ lost <= lost' /\ told \in [1 .. MaxMessages -> Nat]
  BY LossesGrow
<1>2. \A i \in tick.items : i.m \in 1 .. MaxMessages /\ (JustTold(i)' <=> JustTold(i))
  BY LossesGrow DEF JustTold
<1>3. Outbox!ToldOnce'
  BY <1>1 DEF TellsOnce, Outbox!ToldOnce, Outbox!Message
<1>4. \A m \in 1 .. MaxMessages :
          note'[m].st \in {"none", "unsent"} /\ told'[m] > lost' => \E i \in tick'.items : i.m = m /\ JustTold(i)'
  BY <1>1, <1>2 DEF TellsOnce
<1>5. \A i \in tick'.items : /\ i.group \in tick'.groups /\ ~JustTold(i)' => told'[i.m] <= lost'
                             /\ JustTold(i)' => told'[i.m] > 0 \/ tick'.at \in gone'
  BY <1>1, <1>2 DEF TellsOnce
<1> QED BY <1>3, <1>4, <1>5 DEF TellsOnce

\* The same for a tick that is not stamping and takes nothing new in hand.
LEMMA TellsNothing ==
    ASSUME OutboxTypes, TellsOnce, Outbox!OutboxNext, UNCHANGED <<told, note, gone>>,
           \/ tick'.items = {} /\ (tick.pc # "mark" \/ Outbox!Crash)
           \/ SameItems /\ tick.pc # "mark" /\ tick'.pc # "mark"
    PROVE  TellsOnce'
<1>1. lost \in Nat /\ lost' \in Nat /\ lost <= lost' /\ told \in [1 .. MaxMessages -> Nat] /\ (Outbox!Crash => lost' = lost + 1)
  BY LossesGrow
<1>2. \A i \in tick.items : i.m \in 1 .. MaxMessages
  BY LossesGrow
<1>3. Outbox!ToldOnce'
  BY <1>1 DEF TellsOnce, Outbox!ToldOnce, Outbox!Message
<1>4. \A m \in 1 .. MaxMessages : ~(note'[m].st \in {"none", "unsent"} /\ told'[m] > lost')
  BY <1>1 DEF TellsOnce, JustTold, Outbox!ToldOnce, Outbox!Message
<1>5. \A i \in tick'.items : i.group \in tick'.groups => told'[i.m] <= lost'
  BY <1>1, <1>2 DEF TellsOnce, JustTold, SameItems
<1>6. \A i \in tick'.items : ~JustTold(i)'
  BY DEF JustTold
<1> QED BY <1>3, <1>4, <1>5, <1>6 DEF TellsOnce

\* A message goes out once more only after a loss: the rows of a group are stamped before the tick
\* goes on to the next.
LEMMA TellsOnceStep ==
    ASSUME ~RowIdsReused, OutboxTypes, RowsAsRead, TellsOnce, Outbox!OutboxNext
    PROVE  TellsOnce'
<1>0. /\ lost \in Nat /\ lost' \in Nat /\ lost <= lost'
      /\ told \in [1 .. MaxMessages -> Nat] /\ note \in [1 .. MaxMessages -> Outbox!Note]
      /\ \A i \in tick.items : i.m \in 1 .. MaxMessages
  BY LossesGrow
<1>1. ASSUME NEW g \in Group, Outbox!Insert(g)
      PROVE  TellsOnce'
  <2>1. \A m \in 1 .. MaxMessages : note'[m].st \in {"none", "unsent"} => note[m].st \in {"none", "unsent"}
    BY <1>0, <1>1 DEF Outbox!Insert, Outbox!Message
  <2> QED BY <1>1, <2>1, TellsQuietly DEF Outbox!Insert
<1>2. ASSUME NEW m \in 1 .. MaxMessages, Outbox!Withdraw(m)
      PROVE  TellsOnce'
  <2>1. note'[m].st = "deleted" /\ \A n \in 1 .. MaxMessages : n # m => note'[n] = note[n]
    BY <1>0, <1>2 DEF Outbox!Withdraw, Outbox!NoNote
  <2>2. \A n \in 1 .. MaxMessages : note'[n].st \in {"none", "unsent"} => note[n].st \in {"none", "unsent"}
    BY <2>1
  <2> QED BY <1>2, <2>2, TellsQuietly DEF Outbox!Withdraw
<1>3. ASSUME NEW m \in 1 .. MaxMessages, Outbox!Due(m)
      PROVE  TellsOnce'
  <2>1. \A n \in 1 .. MaxMessages : note'[n].st = note[n].st
    BY <1>0, <1>3 DEF Outbox!Due, Outbox!Note
  <2> QED BY <1>3, <2>1, TellsQuietly DEF Outbox!Due
<1>4. ASSUME \/ \E g \in Group : Outbox!DeleteAssignment(g)
             \/ \E b \in Bot : Outbox!SaveToken(b)
             \/ \E b \in Bot, c \in Chat : Outbox!Press(b, c)
             \/ Outbox!clear_telegram \/ Outbox!SendTime
      PROVE  TellsOnce'
  BY <1>4, TellsQuietly DEF Outbox!DeleteAssignment, Outbox!SaveToken, Outbox!Press, Outbox!clear_telegram,
                            Outbox!SendTime
<1>5. ASSUME Outbox!Fetch \/ Outbox!Link \/ Outbox!Acknowledge \/ Outbox!Digest \/ Outbox!Stamp \/ Outbox!Crash
      PROVE  TellsOnce'
  <2>1. UNCHANGED <<told, note, gone>>
    BY <1>5 DEF Outbox!Fetch, Outbox!Link, Outbox!Acknowledge, Outbox!Digest, Outbox!Stamp, Outbox!Crash
  <2> QED BY <1>5, <2>1, TellsNothing, TickSteps
<1>6. ASSUME Outbox!Flush
      PROVE  TellsOnce'
  <2>1. UNCHANGED <<told, note, gone, lost>>
    BY <1>6 DEF Outbox!Flush
  <2>2. tick.pc = "flush" /\ tick'.pc # "mark"
    BY <1>6, FlushTakes
  <2>3. \A m \in 1 .. MaxMessages : note[m].st \in {"none", "unsent"} => told[m] <= lost
    BY <1>0, <2>2 DEF TellsOnce, JustTold
  <2>4. Outbox!ToldOnce'
    BY <2>1 DEF TellsOnce, Outbox!ToldOnce
  <2>5. \A m \in 1 .. MaxMessages : ~(note'[m].st \in {"none", "unsent"} /\ told'[m] > lost')
    BY <1>0, <2>1, <2>3
  <2>6. \A i \in tick'.items : told'[i.m] <= lost' /\ ~JustTold(i)'
    BY <1>6, <2>1, <2>2, <2>3, FlushTakes DEF JustTold
  <2> QED BY <2>4, <2>5, <2>6 DEF TellsOnce
<1>7. ASSUME NEW g \in Group, Outbox!Send(g)
      PROVE  TellsOnce'
  <2>l. lost \in Nat /\ lost' \in Nat /\ lost <= lost'
    BY <1>0
  <2>0. /\ tick.pc = "send" /\ g \in tick.groups /\ tick'.pc \in {"mark", "refused"} /\ tick'.at = g
        /\ tick'.items = tick.items /\ tick'.groups = tick.groups /\ UNCHANGED <<note, gone>>
    BY <1>7, SendKeeps DEF Outbox!Send
  <2>1. \A m \in Outbox!Message : note[m].st \in {"none", "unsent"} => told[m] <= lost
    BY <1>0, <2>0 DEF TellsOnce, JustTold, Outbox!Message
  <2>2. \A i \in tick.items : i.group \in tick.groups => told[i.m] <= lost
    BY <2>0 DEF TellsOnce, JustTold
  <2> DEFINE M == {i.m : i \in Outbox!ItemsOf(g)}
  <2>3. \A m \in M : \E i \in tick.items : i.m = m /\ i.group = g /\ told[m] <= lost
    BY <2>0, <2>2 DEF Outbox!ItemsOf
  <2>t. UNCHANGED told \/ Outbox!Tell(M)
    BY <1>7 DEF Outbox!Send
  <2>4. \A m \in Outbox!Message :
          /\ told[m] \in Nat /\ told'[m] \in Nat
          /\ told'[m] = told[m] \/ (m \in M /\ told' # told /\ told'[m] = told[m] + 1)
    <3> SUFFICES ASSUME NEW m \in Outbox!Message
                 PROVE  /\ told[m] \in Nat /\ told'[m] \in Nat
                        /\ told'[m] = told[m] \/ (m \in M /\ told' # told /\ told'[m] = told[m] + 1)
      OBVIOUS
    <3> HIDE DEF M
    <3>1. told[m] \in Nat
      BY <1>0 DEF Outbox!Message
    <3>2. CASE UNCHANGED told
      BY <3>1, <3>2
    <3>3. CASE Outbox!Tell(M)
      <4>1. told'[m] = told[m] + IF m \in M THEN 1 ELSE 0
        BY <3>3 DEF Outbox!Tell
      <4> QED BY <3>1, <4>1
    <3> QED BY <2>t, <3>2, <3>3
  <2>r. \A m \in Outbox!Message : told' # told /\ m \in M => told'[m] = told[m] + 1
    <3> HIDE DEF M
    <3> SUFFICES ASSUME NEW m \in Outbox!Message, told' # told, m \in M
                 PROVE  told'[m] = told[m] + 1
      OBVIOUS
    <3> QED BY <2>t DEF Outbox!Tell
  <2>5. tick'.pc = "refused" /\ told' # told => lost' = lost + 1
    <3>1. tick \in TickType
      BY DEF OutboxTypes
    <3>2. [tick EXCEPT !.pc = "mark", !.at = g].pc = "mark"
      BY <3>1 DEF TickType
    <3> QED BY <1>7, <3>2 DEF Outbox!Send, Outbox!Goes, Outbox!Loses
  <2>6. tick'.pc = "mark" => lost' = lost /\ (g \in gone \/ told' # told \/ M = {})
    <3>1. tick \in TickType
      BY DEF OutboxTypes
    <3>2. [tick EXCEPT !.pc = "refused", !.at = g].pc = "refused"
      BY <3>1 DEF TickType
    <3>3. ASSUME Outbox!Tell(M), NEW m \in M
          PROVE  told' # told
      <4>1. m \in Outbox!Message
        BY <1>0, <2>3 DEF Outbox!Message
      <4>2. told'[m] = told[m] + 1 /\ told[m] \in Nat
        BY <1>0, <3>3, <4>1 DEF Outbox!Tell, Outbox!Message
      <4> HIDE DEF M
      <4> QED BY <4>2
    <3> HIDE DEF M
    <3>4. tick'.pc = "mark" => lost' = lost /\ (g \in gone \/ Outbox!Tell(M))
      BY <1>7, <3>2 DEF Outbox!Send, Outbox!Goes, M
    <3> QED BY <3>3, <3>4
  <2> HIDE DEF M
  <2>7. \A m \in Outbox!Message : told'[m] <= 1 + lost'
    <3> SUFFICES ASSUME NEW m \in Outbox!Message
                 PROVE  told'[m] <= 1 + lost'
      OBVIOUS
    <3>1. told[m] \in Nat /\ told[m] <= 1 + lost
      BY <2>4 DEF TellsOnce, Outbox!ToldOnce
    <3>2. told'[m] = told[m] \/ (m \in M /\ told'[m] = told[m] + 1)
      BY <2>4
    <3>3. m \in M => told[m] <= lost
      BY <2>3
    <3> QED BY <2>l, <3>1, <3>2, <3>3
  <2>8. ASSUME NEW m \in Outbox!Message, note'[m].st \in {"none", "unsent"}, told'[m] > lost'
        PROVE  \E i \in tick'.items : i.m = m /\ JustTold(i)'
    <3>1. note[m].st \in {"none", "unsent"} /\ told[m] <= lost
      BY <2>0, <2>1, <2>8
    <3>2. m \in M /\ told' # told /\ told'[m] = told[m] + 1
      BY <2>4, <2>l, <2>8, <3>1
    <3>3. lost' # lost + 1
      BY <2>4, <2>l, <2>8, <3>1, <3>2
    <3>4. tick'.pc = "mark"
      BY <2>0, <2>5, <3>2, <3>3
    <3> QED BY <2>0, <2>3, <3>2, <3>4 DEF JustTold
  <2>9. ASSUME NEW i \in tick'.items, i.group \in tick'.groups, ~JustTold(i)'
        PROVE  told'[i.m] <= lost'
    <3>1. i \in tick.items /\ i.m \in Outbox!Message /\ told[i.m] <= lost
      BY <1>0, <2>0, <2>2, <2>9 DEF Outbox!Message
    <3>2. told[i.m] \in Nat /\ (told'[i.m] = told[i.m] \/ (i.m \in M /\ told' # told /\ told'[i.m] = told[i.m] + 1))
      BY <2>4, <3>1
    <3>3. ASSUME i.m \in M, told' # told
          PROVE  lost' = lost + 1
      <4>1. i.group = g
        BY <2>3, <3>1, <3>3 DEF RowsAsRead
      <4> QED BY <2>0, <2>5, <2>9, <3>3, <4>1 DEF JustTold
    <3> QED BY <2>l, <3>1, <3>2, <3>3
  <2>10. ASSUME NEW i \in tick'.items, JustTold(i)'
         PROVE  told'[i.m] > 0 \/ tick'.at \in gone'
    <3>1. i \in tick.items /\ i.m \in Outbox!Message /\ i.group = g /\ tick'.pc = "mark" /\ i.m \in M
      BY <1>0, <2>0, <2>10 DEF JustTold, M, Outbox!ItemsOf, Outbox!Message
    <3>2. told[i.m] \in Nat /\ (told' # told => told'[i.m] = told[i.m] + 1)
      BY <2>4, <2>r, <3>1
    <3>3. told' # told => told'[i.m] > 0
      BY <3>2
    <3> QED BY <2>0, <2>6, <3>1, <3>3
  <2>11. Outbox!ToldOnce'
    BY <2>7 DEF Outbox!ToldOnce
  <2> QED BY <2>8, <2>9, <2>10, <2>11 DEF TellsOnce, Outbox!Message
<1>8. ASSUME Outbox!mark_sent \/ Outbox!mark_error
      PROVE  TellsOnce'
  <2>1. tick.pc \in {"mark", "refused"} /\ tick.at \in tick.groups /\ tick.at \in Group /\ UNCHANGED <<told, gone, lost>>
    BY <1>8 DEF Outbox!mark_sent, Outbox!mark_error, OutboxTypes, TickType
  <2>2. /\ tick'.items = {} \/ (tick'.items = tick.items /\ tick'.groups = tick.groups \ {tick.at})
        /\ tick'.pc # "mark"
    BY <1>8, <2>1, GroupDone DEF Outbox!mark_sent, Outbox!mark_error
  <2> DEFINE R == Outbox!RowsOf(Outbox!ItemsOf(tick.at))
  <2>3. \A m \in 1 .. MaxMessages : m \notin R => note'[m] = note[m]
    BY <1>8 DEF Outbox!mark_sent, Outbox!mark_error, Outbox!Message
  <2>4. \A m \in R : note[m].st = "unsent"
    BY <2>1, RowsAtHand
  <2>5. ASSUME NEW m \in 1 .. MaxMessages, note'[m].st \in {"none", "unsent"}
        PROVE  told[m] <= lost
    <3>1. note[m].st \in {"none", "unsent"}
      BY <2>3, <2>4, <2>5
    <3>2. SUFFICES ASSUME told[m] > lost
                   PROVE  FALSE
      BY <1>0
    <3>3. PICK i \in tick.items : i.m = m /\ JustTold(i)
      BY <3>1, <3>2 DEF TellsOnce
    <3>4. tick.pc = "mark" /\ i.group = tick.at /\ note[m].st = "unsent" /\ note[m].id = i.id
      BY <2>1, <3>1, <3>3 DEF JustTold, RowsAsRead
    <3>5. m \in R
      BY <3>3, <3>4 DEF Outbox!RowsOf, Outbox!WithId, Outbox!ItemsOf, Outbox!Present, Outbox!Message
    <3>6. Outbox!mark_sent
      BY <1>8, <3>4 DEF Outbox!mark_error
    <3>7. note[m] \in Outbox!Note /\ note'[m] = [note[m] EXCEPT !.st = "sent"]
      BY <1>0, <3>5, <3>6 DEF Outbox!mark_sent, Outbox!Message
    <3>8. note'[m].st = "sent"
      BY <3>7 DEF Outbox!Note
    <3> QED BY <2>5, <3>8
  <2>6. \A m \in 1 .. MaxMessages : ~(note'[m].st \in {"none", "unsent"} /\ told'[m] > lost')
    BY <1>0, <2>1, <2>5
  <2>7. \A i \in tick'.items : ~JustTold(i)' /\ (i.group \in tick'.groups => told'[i.m] <= lost')
    BY <2>1, <2>2 DEF TellsOnce, JustTold
  <2>8. Outbox!ToldOnce'
    BY <2>1 DEF TellsOnce, Outbox!ToldOnce
  <2> QED BY <2>6, <2>7, <2>8 DEF TellsOnce
<1> QED
  BY <1>1, <1>2, <1>3, <1>4, <1>5, <1>6, <1>7, <1>8 DEF Outbox!OutboxNext, Outbox!Tick, Outbox!Message

\* A send tells the messages of its group, once each, or none.
LEMMA SendTells ==
    ASSUME OutboxTypes, NEW g \in Group, Outbox!Send(g), NEW m \in 1 .. MaxMessages
    PROVE  told[m] \in Nat /\ told'[m] \in {told[m], told[m] + 1}
<1>1. told[m] \in Nat
  BY DEF OutboxTypes, Outbox!OutboxTypeOK, Outbox!Message
<1>2. PICK M : UNCHANGED told \/ Outbox!Tell(M)
  BY DEF Outbox!Send
<1>3. CASE Outbox!Tell(M)
  <2>1. told'[m] = told[m] + IF m \in M THEN 1 ELSE 0
    BY <1>3 DEF Outbox!Tell, Outbox!Message
  <2> QED BY <1>1, <2>1
<1> QED BY <1>1, <1>2, <1>3

\* Steps that close no row.
LEMMA ClosesNothing ==
    ASSUME OutboxTypes, Outbox!ClosedWasTold, gone \subseteq gone', told' \in [1 .. MaxMessages -> Nat],
           \A m \in 1 .. MaxMessages : told[m] <= told'[m],
           \A m \in 1 .. MaxMessages : note'[m].st = "sent" =>
               note[m].st = "sent" /\ note'[m].group = note[m].group /\ note'[m].attempts = note[m].attempts
    PROVE  Outbox!ClosedWasTold'
<1>1. told \in [1 .. MaxMessages -> Nat]
  BY DEF OutboxTypes, Outbox!OutboxTypeOK, Outbox!Message
<1>2. ASSUME NEW m \in 1 .. MaxMessages, note'[m].st = "sent"
      PROVE  told'[m] > 0 \/ note'[m].attempts = MAX_ATTEMPTS \/ note'[m].group \in gone'
  <2>1. told[m] > 0 \/ note[m].attempts = MAX_ATTEMPTS \/ note[m].group \in gone
    BY <1>2 DEF Outbox!ClosedWasTold, Outbox!Message
  <2>2. told[m] \in Nat /\ told'[m] \in Nat /\ told[m] <= told'[m]
    BY <1>1
  <2> QED BY <1>2, <2>1, <2>2
<1> QED BY <1>2 DEF Outbox!ClosedWasTold, Outbox!Message

\* A row is closed by the stamp of a message that went out, by its last refusal, or because its
\* assignment is gone.
LEMMA ClosedStep ==
    ASSUME OutboxTypes, OutboxTypes', RowsAsRead, TellsOnce, Outbox!ClosedWasTold, Outbox!OutboxNext
    PROVE  Outbox!ClosedWasTold'
<1>0. /\ told \in [1 .. MaxMessages -> Nat] /\ told' \in [1 .. MaxMessages -> Nat]
      /\ note \in [1 .. MaxMessages -> Outbox!Note]
  BY DEF OutboxTypes, Outbox!OutboxTypeOK, Outbox!Message
<1>s. UNCHANGED told => \A m \in 1 .. MaxMessages : told[m] <= told'[m]
  <2>1. \A m \in 1 .. MaxMessages : told[m] \in Nat
    BY <1>0
  <2> QED BY <2>1
<1>1. ASSUME NEW g \in Group, Outbox!Insert(g)
      PROVE  Outbox!ClosedWasTold'
  <2>1. \A m \in 1 .. MaxMessages : note'[m].st = "sent" => note'[m] = note[m]
    BY <1>0, <1>1 DEF Outbox!Insert, Outbox!Message
  <2> QED BY <1>0, <1>1, <1>s, <2>1, ClosesNothing DEF Outbox!Insert
<1>2. ASSUME NEW m \in 1 .. MaxMessages, Outbox!Withdraw(m)
      PROVE  Outbox!ClosedWasTold'
  <2>1. note'[m].st = "deleted" /\ \A n \in 1 .. MaxMessages : n # m => note'[n] = note[n]
    BY <1>0, <1>2 DEF Outbox!Withdraw, Outbox!NoNote
  <2>2. \A n \in 1 .. MaxMessages : note'[n].st = "sent" => note'[n] = note[n]
    BY <2>1
  <2> QED BY <1>0, <1>2, <1>s, <2>2, ClosesNothing DEF Outbox!Withdraw
<1>3. ASSUME NEW m \in 1 .. MaxMessages, Outbox!Due(m)
      PROVE  Outbox!ClosedWasTold'
  <2>1. \A n \in 1 .. MaxMessages : note'[n].st = "sent" => note'[n] = note[n]
    BY <1>0, <1>3 DEF Outbox!Due, Outbox!Note
  <2> QED BY <1>0, <1>3, <1>s, <2>1, ClosesNothing DEF Outbox!Due
<1>4. ASSUME \/ \E g \in Group : Outbox!DeleteAssignment(g)
             \/ \E b \in Bot : Outbox!SaveToken(b)
             \/ \E b \in Bot, c \in Chat : Outbox!Press(b, c)
             \/ Outbox!clear_telegram \/ Outbox!SendTime \/ Outbox!Crash
             \/ Outbox!Fetch \/ Outbox!Link \/ Outbox!Acknowledge \/ Outbox!Flush \/ Outbox!Digest \/ Outbox!Stamp
      PROVE  Outbox!ClosedWasTold'
  <2>1. UNCHANGED <<told, note>> /\ gone \subseteq gone'
    BY <1>4 DEF Outbox!DeleteAssignment, Outbox!SaveToken, Outbox!Press, Outbox!clear_telegram, Outbox!SendTime,
                Outbox!Crash, Outbox!Fetch, Outbox!Link, Outbox!Acknowledge, Outbox!Flush, Outbox!Digest, Outbox!Stamp
  <2> QED BY <1>0, <1>s, <2>1, ClosesNothing
<1>5. ASSUME NEW g \in Group, Outbox!Send(g)
      PROVE  Outbox!ClosedWasTold'
  <2>1. UNCHANGED <<note, gone>>
    BY <1>5 DEF Outbox!Send
  <2>2. \A m \in 1 .. MaxMessages : told[m] <= told'[m]
    <3> SUFFICES ASSUME NEW m \in 1 .. MaxMessages
                 PROVE  told[m] <= told'[m]
      OBVIOUS
    <3>1. told[m] \in Nat /\ told'[m] \in {told[m], told[m] + 1}
      BY <1>5, SendTells
    <3> QED BY <3>1
  <2> QED BY <1>0, <2>1, <2>2, ClosesNothing
<1>6. ASSUME Outbox!mark_sent
      PROVE  Outbox!ClosedWasTold'
  <2>1. tick.pc = "mark" /\ UNCHANGED <<told, gone>>
    BY <1>6 DEF Outbox!mark_sent
  <2>2. ASSUME NEW m \in 1 .. MaxMessages, note'[m].st = "sent"
        PROVE  told'[m] > 0 \/ note'[m].attempts = MAX_ATTEMPTS \/ note'[m].group \in gone'
    <3>1. CASE m \in Outbox!RowsOf(Outbox!ItemsOf(tick.at))
      <4>1. note[m].group = tick.at
        BY <2>1, <3>1, RowsAtHand
      <4>2. PICK i \in Outbox!ItemsOf(tick.at) : i.m = m
        BY <2>1, <3>1, RowsAtHand
      <4>3. told[m] > 0 \/ tick.at \in gone
        BY <2>1, <4>2 DEF TellsOnce, JustTold, Outbox!ItemsOf
      <4>4. note'[m] = [note[m] EXCEPT !.st = "sent"] /\ note[m] \in Outbox!Note
        BY <1>0, <1>6, <3>1 DEF Outbox!mark_sent, Outbox!Message
      <4>5. note'[m].group = note[m].group
        BY <4>4 DEF Outbox!Note
      <4> QED BY <2>1, <4>1, <4>3, <4>5
    <3>2. CASE m \notin Outbox!RowsOf(Outbox!ItemsOf(tick.at))
      <4>1. note'[m] = note[m]
        BY <1>6, <3>2 DEF Outbox!mark_sent, Outbox!Message
      <4> QED BY <2>1, <2>2, <4>1 DEF Outbox!ClosedWasTold, Outbox!Message
    <3> QED BY <3>1, <3>2
  <2> QED BY <2>2 DEF Outbox!ClosedWasTold, Outbox!Message
<1>7. ASSUME Outbox!mark_error
      PROVE  Outbox!ClosedWasTold'
  <2>1. UNCHANGED <<told, gone>>
    BY <1>7 DEF Outbox!mark_error
  <2>2. ASSUME NEW m \in 1 .. MaxMessages, note'[m].st = "sent"
        PROVE  told'[m] > 0 \/ note'[m].attempts = MAX_ATTEMPTS \/ note'[m].group \in gone'
    <3>1. note'[m].attempts = MAX_ATTEMPTS \/ note'[m] = note[m]
      BY <1>7, <2>2, RefusedRows
    <3> QED BY <2>1, <2>2, <3>1 DEF Outbox!ClosedWasTold, Outbox!Message
  <2> QED BY <2>2 DEF Outbox!ClosedWasTold, Outbox!Message
<1> QED
  BY <1>1, <1>2, <1>3, <1>4, <1>5, <1>6, <1>7 DEF Outbox!OutboxNext, Outbox!Tick, Outbox!Message

\* The counters of the digests, and how they move.
LEMMA DigestCounts ==
    ASSUME OutboxTypes, OutboxTypes', Outbox!OutboxNext
    PROVE  /\ lost \in Nat /\ lost' \in Nat /\ lost <= lost'
           /\ unlinks \in Nat /\ unlinks' \in Nat /\ day \in Nat /\ day' \in Nat
           /\ bot \in Outbox!Saved /\ bot.last \in Nat /\ digests \in [1 .. MaxDays -> Nat]
<1>1. lost \in Nat /\ lost' \in Nat /\ lost <= lost'
  BY LossesGrow
<1>2. /\ unlinks \in Nat /\ unlinks' \in Nat /\ day \in Nat /\ day' \in Nat
      /\ bot \in Outbox!Saved /\ digests \in [1 .. MaxDays -> Nat]
  BY OutboxConstants DEF OutboxTypes, Outbox!OutboxTypeOK, Outbox!OutboxAssumption
<1>3. bot.last \in Nat
  BY <1>2, OutboxConstants DEF Outbox!Saved, Outbox!OutboxAssumption
<1> QED BY <1>1, <1>2, <1>3

\* Steps that leave the digests alone.
LEMMA DigestsQuietly ==
    ASSUME OutboxTypes, OutboxTypes', DigestsOnce, Outbox!OutboxNext, UNCHANGED <<day, digests, unlinks>>,
           bot'.last = bot.last, tick' = tick \/ (tick.pc # "stamp" /\ tick'.pc # "stamp")
    PROVE  DigestsOnce'
<1>1. /\ lost \in Nat /\ lost' \in Nat /\ lost <= lost' /\ unlinks \in Nat /\ day \in Nat
      /\ digests \in [1 .. MaxDays -> Nat]
  BY DigestCounts
<1>2. \A d \in 1 .. MaxDays : digests'[d] <= 1 + lost' + unlinks'
  <2> SUFFICES ASSUME NEW d \in 1 .. MaxDays
               PROVE  digests[d] <= 1 + lost' + unlinks
    OBVIOUS
  <2>1. digests[d] \in Nat /\ digests[d] <= 1 + lost + unlinks
    BY <1>1 DEF DigestsOnce, Outbox!DigestOnce
  <2> QED BY <1>1, <2>1
<1>3. ASSUME day > 0, bot.last # day, ~(tick'.pc = "stamp" /\ tick'.day = day)
      PROVE  digests[day] <= lost' + unlinks
  <2>1. digests[day] <= lost + unlinks
    BY <1>3 DEF DigestsOnce
  <2>2. day \in 1 .. MaxDays
    BY <1>1, <1>3 DEF OutboxTypes, Outbox!OutboxTypeOK
  <2>3. digests[day] \in Nat
    BY <1>1, <2>2
  <2> QED BY <1>1, <2>1, <2>3
<1> QED BY <1>2, <1>3 DEF DigestsOnce, Outbox!DigestOnce

\* A day's digest goes out once more only after a loss or an unlinking: no earlier day is recorded
\* over it, and a day that is recorded is not sent again.
LEMMA DigestsStep ==
    ASSUME OutboxTypes, OutboxTypes', DigestsOnce, Outbox!OutboxNext
    PROVE  DigestsOnce'
<1>0. /\ lost \in Nat /\ lost' \in Nat /\ lost <= lost'
      /\ unlinks \in Nat /\ unlinks' \in Nat /\ day \in Nat /\ day' \in Nat
      /\ bot \in Outbox!Saved /\ bot.last \in Nat /\ digests \in [1 .. MaxDays -> Nat]
      /\ tick \in TickType
  BY DigestCounts DEF OutboxTypes
<1>d. day > 0 => day \in 1 .. MaxDays /\ digests[day] \in Nat
  BY <1>0 DEF OutboxTypes, Outbox!OutboxTypeOK
<1>1. ASSUME NEW g \in Group, Outbox!Insert(g) \/ Outbox!DeleteAssignment(g)
      PROVE  DigestsOnce'
  <2>1. UNCHANGED <<day, digests, unlinks, tick, bot>>
    BY <1>1 DEF Outbox!Insert, Outbox!DeleteAssignment
  <2> QED BY <2>1, DigestsQuietly
<1>2. ASSUME NEW m \in Outbox!Message, Outbox!Withdraw(m) \/ Outbox!Due(m)
      PROVE  DigestsOnce'
  <2>1. UNCHANGED <<day, digests, unlinks, tick, bot>>
    BY <1>2 DEF Outbox!Withdraw, Outbox!Due
  <2> QED BY <2>1, DigestsQuietly
<1>3. ASSUME \/ \E b \in Bot : Outbox!SaveToken(b)
             \/ \E b \in Bot, c \in Chat : Outbox!Press(b, c)
      PROVE  DigestsOnce'
  <2>1. UNCHANGED <<day, digests, unlinks, tick>>
    BY <1>3 DEF Outbox!SaveToken, Outbox!Press
  <2>2. bot'.last = bot.last
    BY <1>0, <1>3 DEF Outbox!SaveToken, Outbox!Press, Outbox!Saved
  <2> QED BY <2>1, <2>2, DigestsQuietly
<1>4. ASSUME NEW g \in Group, Outbox!Send(g)
      PROVE  DigestsOnce'
  <2>1. UNCHANGED <<day, digests, unlinks, bot>>
    BY <1>4 DEF Outbox!Send
  <2>2. tick.pc # "stamp" /\ tick'.pc # "stamp"
    BY <1>4, SendKeeps
  <2> QED BY <2>1, <2>2, DigestsQuietly
<1>5. ASSUME Outbox!mark_sent \/ Outbox!mark_error
      PROVE  DigestsOnce'
  <2>1. UNCHANGED <<day, digests, unlinks, bot>> /\ tick.pc # "stamp"
    BY <1>5 DEF Outbox!mark_sent, Outbox!mark_error
  <2>2. tick.at \in Group
    BY <1>5 DEF Outbox!mark_sent, Outbox!mark_error, OutboxTypes, TickType
  <2>3. tick'.pc # "stamp"
    BY <1>5, <2>2, GroupDone DEF Outbox!mark_sent, Outbox!mark_error
  <2> QED BY <2>1, <2>3, DigestsQuietly
<1>6. ASSUME Outbox!Fetch \/ Outbox!Flush
      PROVE  DigestsOnce'
  <2>1. UNCHANGED <<day, digests, unlinks, bot>> /\ tick.pc # "stamp"
    BY <1>6 DEF Outbox!Fetch, Outbox!Flush
  <2>2. [Outbox!Rest EXCEPT !.pc = "flush"].pc = "flush"
    BY RestFits DEF TickType
  <2>3. \A got : [Outbox!Rest EXCEPT !.pc = "link", !.got = got].pc = "link"
    BY RestFits DEF TickType
  <2>4. tick'.pc # "stamp"
    BY <1>6, <2>2, <2>3, FlushTakes, ToNext DEF Outbox!Fetch, Outbox!Goes
  <2> QED BY <2>1, <2>4, DigestsQuietly
<1>7. ASSUME Outbox!Link \/ Outbox!Acknowledge
      PROVE  DigestsOnce'
  <2>1. UNCHANGED <<day, digests, unlinks>> /\ tick.pc # "stamp"
    BY <1>7 DEF Outbox!Link, Outbox!Acknowledge
  <2>2. bot'.last = bot.last
    BY <1>0, <1>7 DEF Outbox!Link, Outbox!Acknowledge, Outbox!Saved
  <2>3. tick'.pc # "stamp"
    BY <1>7, TickSteps, ToNext DEF Outbox!Acknowledge
  <2> QED BY <2>1, <2>2, <2>3, DigestsQuietly
<1>8. ASSUME Outbox!clear_telegram
      PROVE  DigestsOnce'
  <2>1. UNCHANGED <<day, digests, lost, tick>> /\ unlinks' = unlinks + 1 /\ bot'.last = 0
    BY <1>8 DEF Outbox!clear_telegram, Outbox!Unlinked
  <2>2. \A d \in 1 .. MaxDays : digests'[d] <= 1 + lost' + unlinks'
    <3> SUFFICES ASSUME NEW d \in 1 .. MaxDays
                 PROVE  digests[d] <= 1 + lost + (unlinks + 1)
      BY <2>1
    <3>1. digests[d] \in Nat /\ digests[d] <= 1 + lost + unlinks
      BY <1>0 DEF DigestsOnce, Outbox!DigestOnce
    <3> QED BY <1>0, <3>1
  <2>3. day > 0 => digests'[day'] <= lost' + unlinks'
    <3>1. day > 0 => digests[day] \in Nat /\ digests[day] <= 1 + lost + unlinks
      BY <1>d DEF DigestsOnce, Outbox!DigestOnce
    <3> QED BY <1>0, <2>1, <3>1
  <2>4. bot'.last <= day' /\ (tick'.pc = "stamp" => bot'.last < day' /\ tick'.day <= day')
    BY <1>0, <2>1 DEF DigestsOnce
  <2> QED BY <2>1, <2>2, <2>3, <2>4 DEF DigestsOnce, Outbox!DigestOnce
<1>9. ASSUME Outbox!SendTime
      PROVE  DigestsOnce'
  <2>1. UNCHANGED <<digests, lost, unlinks, tick, bot>> /\ day' = day + 1 /\ day + 1 \in 1 .. MaxDays
    BY <1>0, <1>9, OutboxConstants DEF Outbox!SendTime, Outbox!OutboxAssumption
  <2>2. digests[day + 1] = 0 /\ \A d \in 1 .. MaxDays : d > day + 1 => digests[d] = 0
    BY <1>0, <2>1 DEF DigestsOnce
  <2>3. digests'[day'] <= lost' + unlinks'
    BY <1>0, <2>1, <2>2
  <2>4. bot'.last <= day' /\ (tick'.pc = "stamp" => bot'.last < day' /\ tick'.day <= day')
    <3>1. tick.day \in 0 .. MaxDays
      BY <1>0 DEF TickType
    <3> QED BY <1>0, <2>1, <3>1 DEF DigestsOnce
  <2>5. Outbox!DigestOnce'
    BY <2>1 DEF DigestsOnce, Outbox!DigestOnce
  <2> QED BY <2>1, <2>2, <2>3, <2>4, <2>5 DEF DigestsOnce
<1>10. ASSUME Outbox!Digest
       PROVE  DigestsOnce'
  <2>1. UNCHANGED <<day, unlinks>> /\ tick.pc = "digest"
    BY <1>10 DEF Outbox!Digest
  <2>2. CASE UNCHANGED <<bot, digests>> /\ Outbox!To("poll")
    <3>1. tick'.pc = "poll"
      BY <2>2, ToNext
    <3> QED BY <2>1, <2>2, <3>1, DigestsQuietly
  <2>3. CASE Outbox!Owed /\ bot' = [bot EXCEPT !.last = day] /\ Outbox!To("poll") /\ UNCHANGED <<digests, lost>>
    <3>1. tick'.pc = "poll" /\ bot'.last = day
      BY <1>0, <2>3, ToNext DEF Outbox!Saved
    <3> QED BY <1>0, <2>1, <2>3, <3>1 DEF DigestsOnce, Outbox!DigestOnce
  <2>4. CASE /\ Outbox!Owed /\ digests' = [digests EXCEPT ![day] = @ + 1] /\ UNCHANGED bot
             /\ \/ Outbox!Goes([Outbox!Rest EXCEPT !.pc = "stamp", !.day = day]) /\ UNCHANGED lost
                \/ Outbox!To("poll") /\ Outbox!Loses
    <3>1. day > 0 /\ bot.last # day /\ day \in 1 .. MaxDays /\ digests[day] \in Nat /\ digests[day] <= lost + unlinks
      BY <1>0, <1>d, <2>1, <2>4 DEF Outbox!Owed, DigestsOnce
    <3>2. digests'[day] = digests[day] + 1 /\ \A d \in 1 .. MaxDays : d # day => digests'[d] = digests[d]
      BY <1>0, <2>4, <3>1
    <3>3. \A d \in 1 .. MaxDays : digests'[d] <= 1 + lost' + unlinks'
      <4> SUFFICES ASSUME NEW d \in 1 .. MaxDays
                   PROVE  digests'[d] <= 1 + lost' + unlinks
        BY <2>1
      <4>1. digests[d] \in Nat /\ digests[d] <= 1 + lost + unlinks
        BY <1>0 DEF DigestsOnce, Outbox!DigestOnce
      <4> QED BY <1>0, <3>1, <3>2, <4>1
    <3>4. \A d \in 1 .. MaxDays : d > day' => digests'[d] = 0
      BY <1>0, <2>1, <3>2 DEF DigestsOnce
    <3>5. CASE Outbox!Goes([Outbox!Rest EXCEPT !.pc = "stamp", !.day = day])
      <4>1. tick'.pc = "stamp" /\ tick'.day = day
        BY <3>5, RestFits DEF Outbox!Goes, TickType
      <4>2. bot'.last <= day' /\ bot'.last < day' /\ tick'.day <= day'
        BY <1>0, <2>1, <2>4, <3>1, <4>1 DEF DigestsOnce
      <4> QED BY <2>1, <3>3, <3>4, <4>1, <4>2 DEF DigestsOnce, Outbox!DigestOnce
    <3>6. CASE Outbox!To("poll") /\ Outbox!Loses
      <4>1. tick'.pc = "poll" /\ lost' = lost + 1
        BY <3>6, ToNext DEF Outbox!Loses
      <4>2. digests'[day] <= lost' + unlinks'
        BY <1>0, <2>1, <3>1, <3>2, <4>1
      <4>3. bot'.last <= day'
        BY <2>1, <2>4 DEF DigestsOnce
      <4> QED BY <2>1, <3>3, <3>4, <4>1, <4>2, <4>3 DEF DigestsOnce, Outbox!DigestOnce
    <3> QED BY <2>4, <3>5, <3>6
  <2> QED BY <1>10, <2>2, <2>3, <2>4 DEF Outbox!Digest
<1>11. ASSUME Outbox!Stamp
       PROVE  DigestsOnce'
  <2>1. UNCHANGED <<day, digests, unlinks, lost>> /\ tick.pc = "stamp" /\ tick'.pc = "poll" /\ bot'.last = tick.day
    BY <1>0, <1>11, ToNext DEF Outbox!Stamp, Outbox!Saved
  <2>2. tick.day <= day /\ bot.last < day
    BY <2>1 DEF DigestsOnce
  <2>3. day > 0 /\ bot'.last # day => digests[day] <= lost + unlinks
    BY <1>0, <2>1, <2>2 DEF DigestsOnce
  <2> QED BY <2>1, <2>2, <2>3 DEF DigestsOnce, Outbox!DigestOnce
<1>12. ASSUME Outbox!Crash
       PROVE  DigestsOnce'
  <2>1. UNCHANGED <<day, digests, unlinks, bot>> /\ lost' = lost + 1 /\ tick'.pc = "poll"
    BY <1>12, ToNext DEF Outbox!Crash, Outbox!Loses
  <2>2. \A d \in 1 .. MaxDays : digests[d] \in Nat /\ digests[d] <= 1 + lost + unlinks
    BY <1>0 DEF DigestsOnce, Outbox!DigestOnce
  <2>3. \A d \in 1 .. MaxDays : digests'[d] <= lost' + unlinks' /\ digests'[d] <= 1 + lost' + unlinks'
    <3> SUFFICES ASSUME NEW d \in 1 .. MaxDays
                 PROVE  digests[d] <= (lost + 1) + unlinks /\ digests[d] <= 1 + (lost + 1) + unlinks
      BY <2>1
    <3>1. digests[d] \in Nat /\ digests[d] <= 1 + lost + unlinks
      BY <2>2
    <3> QED BY <1>0, <3>1
  <2> QED BY <1>d, <2>1, <2>3 DEF DigestsOnce, Outbox!DigestOnce
<1> QED
  BY <1>1, <1>2, <1>3, <1>4, <1>5, <1>6, <1>7, <1>8, <1>9, <1>10, <1>11, <1>12 DEF Outbox!OutboxNext, Outbox!Tick

\* The outbox starts empty, with a tick at rest.
LEMMA OutboxStarts ==
    ASSUME Outbox!OutboxInit
    PROVE  OutboxInv
<1>0. /\ None \notin Bot \cup Chat \cup Group /\ MAX_ATTEMPTS \in Nat /\ 0 < MAX_ATTEMPTS
      /\ MaxMessages \in Nat /\ MaxPresses \in Nat /\ MaxDays \in Nat /\ MaxUnlinks \in Nat /\ MaxLost \in Nat
  BY OutboxConstants DEF Outbox!OutboxAssumption
<1>1. TickFits
  <2>1. tick = Outbox!Rest
    BY DEF Outbox!OutboxInit
  <2>2. BoundedIds(tick.got)
    BY <2>1, RestFits DEF BoundedIds
  <2> QED BY <2>1, <2>2, RestFits DEF TickFits
<1>2. BoxFits
  <2>1. bot \in Outbox!Saved
    BY <1>0 DEF Outbox!OutboxInit, Outbox!Unlinked, Outbox!Saved
  <2>2. \A b \in Bot : inbox[b] = {}
    BY DEF Outbox!OutboxInit
  <2>3. inbox \in [Bot -> SUBSET Outbox!Update] /\ told \in [1 .. MaxMessages -> Nat] /\ digests \in [1 .. MaxDays -> Nat]
    BY DEF Outbox!OutboxInit, Outbox!Message
  <2>4. \A b \in Bot : BoundedIds(inbox[b])
    BY <2>2 DEF BoundedIds
  <2> QED BY <1>0, <2>1, <2>3, <2>4 DEF Outbox!OutboxInit, BoxFits
<1>3. \A m \in 1 .. MaxMessages : note[m] = Outbox!NoNote
  BY DEF Outbox!OutboxInit, Outbox!Message
<1>4. RowsFit
  <2>1. Outbox!NoNote \in Outbox!Note
    BY <1>0 DEF Outbox!NoNote, Outbox!Note
  <2>2. note \in [1 .. MaxMessages -> Outbox!Note]
    BY <2>1 DEF Outbox!OutboxInit, Outbox!Message
  <2>3. \A m \in 1 .. MaxMessages : note[m].st = "none"
    BY <1>3 DEF Outbox!NoNote
  <2>4. \A m \in 1 .. MaxMessages : ~Outbox!Present(m)
    BY <2>3 DEF Outbox!Present
  <2>5. lastId \in 0 .. MaxMessages
    BY <1>0 DEF Outbox!OutboxInit
  <2> QED BY <2>2, <2>3, <2>4, <2>5 DEF RowsFit
<1>5. RowsAsRead
  BY RestFits DEF Outbox!OutboxInit, RowsAsRead
<1>6. TellsOnce
  <2>1. tick.items = {} /\ lost = 0 /\ \A m \in 1 .. MaxMessages : told[m] = 0
    BY RestFits DEF Outbox!OutboxInit, Outbox!Message
  <2> QED BY <2>1 DEF TellsOnce, Outbox!ToldOnce, Outbox!Message
<1>7. Outbox!ClosedWasTold
  <2>1. \A m \in 1 .. MaxMessages : note[m].st = "none"
    BY <1>3 DEF Outbox!NoNote
  <2> QED BY <2>1 DEF Outbox!ClosedWasTold, Outbox!Message
<1>8. DigestsOnce
  <2>1. bot.last = 0 /\ day = 0 /\ lost = 0 /\ unlinks = 0 /\ tick.pc = "poll" /\ \A d \in 1 .. MaxDays : digests[d] = 0
    BY RestFits DEF Outbox!OutboxInit, Outbox!Unlinked
  <2> QED BY <2>1 DEF DigestsOnce, Outbox!DigestOnce
<1> QED BY <1>1, <1>2, <1>4, <1>5, <1>6, <1>7, <1>8, OutboxTypesAre DEF OutboxInv

\* Every step of the outbox keeps its invariant.
LEMMA OutboxSteps ==
    ASSUME ~RowIdsReused, OutboxInv, Outbox!OutboxNext \/ UNCHANGED outboxVars
    PROVE  OutboxInv'
<1>1. CASE Outbox!OutboxNext
  BY <1>1, OutboxTypesStep, RowsAsReadStep, TellsOnceStep, ClosedStep, DigestsStep DEF OutboxInv
<1>2. CASE UNCHANGED outboxVars
  <2>1. /\ UNCHANGED <<bot, inbox, note, told, lastId, gone, tick>>
        /\ UNCHANGED <<day, digests, presses, unlinks, lost>>
    BY <1>2 DEF outboxVars
  <2>2. OutboxTypes'
    <3>1. TickFits /\ BoxFits /\ RowsFit
      BY OutboxTypesAre DEF OutboxInv
    <3>2. TickFits' /\ BoxFits'
      BY <2>1, <3>1 DEF TickFits, BoxFits, BoundedIds
    <3>3. RowsFit'
      BY <2>1, <3>1 DEF RowsFit, Outbox!Present
    <3> QED BY <3>2, <3>3, OutboxTypesWillBe
  <2>3. RowsAsRead' /\ Outbox!ClosedWasTold'
    BY <2>1 DEF OutboxInv, RowsAsRead, Outbox!Present, Outbox!ClosedWasTold
  <2>4. TellsOnce' /\ DigestsOnce'
    BY <2>1 DEF OutboxInv, TellsOnce, JustTold, Outbox!ToldOnce, DigestsOnce, Outbox!DigestOnce
  <2> QED BY <2>2, <2>3, <2>4 DEF OutboxInv
<1> QED BY <1>1, <1>2

\* Nothing is stored at the start.
LEMMA StoreStarts ==
    ASSUME Store!StoreInit
    PROVE  StoreTypes /\ FilesSafe /\ StoreKeeps
<1>1. \A c \in Client : request[c] = Store!Idle
  BY DEF Store!StoreInit
<1>2. Store!StoreTypeOK
  <2>1. Store!Idle \in StoreRequest
    BY DEF Store!Idle, StoreRequest
  <2>2. request \in [Client -> StoreRequest]
    BY <2>1 DEF Store!StoreInit
  <2>3. MaxUploads \in Nat /\ MaxCrashes \in Nat
    BY StoreConstants DEF Store!StoreAssumption
  <2> QED BY <2>2, <2>3, StoreTypesAre DEF Store!StoreInit
<1>3. RequestsFit
  BY <1>1, IdleFits DEF RequestsFit
<1>4. FilesSafe
  <2>1. \A c \in Client : request[c].op \notin StoringOps
    BY <1>1 DEF Store!Idle, StoringOps
  <2> QED BY <2>1 DEF FilesSafe, Store!StoreInit
<1>5. StoreKeeps
  BY DEF Store!StoreInit, StoreKeeps, Store!KeptAsAsked, Store!PhotoStays
<1> QED BY <1>2, <1>3, <1>4, <1>5 DEF StoreTypes

\* Every step of the page store keeps its invariants.
LEMMA StoreSteps ==
    ASSUME Apart, StoreTypes, FilesSafe, StoreKeeps, Store!StoreNext \/ UNCHANGED storeVars
    PROVE  StoreTypes' /\ FilesSafe' /\ StoreKeeps'
<1>1. CASE Store!StoreNext
  BY <1>1, StoreTypesStep, FilesSafeStep, StoreKeepsStep
<1>2. CASE UNCHANGED storeVars
  <2>1. UNCHANGED <<disk, rows, deleted, st, photo, keep, request, uploads, crashes>>
    BY <1>2 DEF storeVars
  <2>2. Store!StoreTypeOK'
    BY <2>1 DEF StoreTypes, Store!StoreTypeOK
  <2>3. RequestsFit' /\ FilesSafe' /\ StoreKeeps'
    BY <2>1 DEF StoreTypes, RequestsFit, FilesSafe, Safe, Store!Unlinking, Store!Busy, StoreKeeps,
                Store!KeptAsAsked, Store!PhotoStays
  <2> QED BY <2>2, <2>3 DEF StoreTypes
<1> QED BY <1>1, <1>2

-----------------------------------------------------------------------------
(* Together *)

\* A step of the whole is a step of each of the two parts, or leaves its variables alone.
LEMMA PartsMove ==
    ASSUME [BackgroundNext]_<<which, bankVars, storeVars, outboxVars, reflectVars, callVars>>
    PROVE  /\ Store!StoreNext \/ UNCHANGED storeVars
           /\ Outbox!OutboxNext \/ UNCHANGED outboxVars
BY DEF BackgroundNext, BankStep, StoreStep, OutboxStep, ReflectStep, CallStep

\* Every row has its file on disk, pages and crops that the retention mode keeps have their rows,
\* and so has the photo of a correction that is not final (storage.py, pages_cleanup.py, crops.py,
\* student_corrections.py): however requests, the sweep and crashes interleave, for any number of
\* scripts, clients and files.  Apart: no unlink beside a request that stores the same file.
THEOREM FilesAreWhereRowsSay ==
    ASSUME Apart
    PROVE  BackgroundSpec => []FilesFollowRows
<1>1. BackgroundInit => StoreTypes /\ FilesSafe /\ StoreKeeps
  BY StoreStarts DEF BackgroundInit
<1>2. /\ StoreTypes /\ FilesSafe /\ StoreKeeps
      /\ [BackgroundNext]_<<which, bankVars, storeVars, outboxVars, reflectVars, callVars>>
      => (StoreTypes /\ FilesSafe /\ StoreKeeps)'
  BY StoreSteps, PartsMove
<1>3. FilesSafe /\ StoreKeeps => FilesFollowRows
  BY DEF FilesSafe, Safe, StoreKeeps, FilesFollowRows, Store!FilesFollowRows, Store!FileKept
<1> QED BY <1>1, <1>2, <1>3, PTL DEF BackgroundSpec

\* No row of the outbox is closed whose message did not go out, or was refused as often as allowed,
\* or has no assignment any more; no message and no digest of a day goes out twice, but for crashes,
\* lost answers and unlinkings (notify.py): for any number of rows, groups, chats and days, where
\* the database gives no row's id to another.
THEOREM MessagesGoAsOwed ==
    ASSUME ~RowIdsReused
    PROVE  BackgroundSpec => []ToldAsOwed
<1>1. BackgroundInit => OutboxInv
  BY OutboxStarts DEF BackgroundInit
<1>2. OutboxInv /\ [BackgroundNext]_<<which, bankVars, storeVars, outboxVars, reflectVars, callVars>> => OutboxInv'
  BY OutboxSteps, PartsMove
<1>3. OutboxInv => ToldAsOwed
  BY DEF OutboxInv, TellsOnce, DigestsOnce, ToldAsOwed, Outbox!ToldAsOwed
<1> QED BY <1>1, <1>2, <1>3, PTL DEF BackgroundSpec
=============================================================================
