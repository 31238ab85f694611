------------------------------- MODULE Intake -------------------------------
(***************************************************************************)
(* Sorting an upload into pages and program files before anything is       *)
(* stored (sms/files/intake.py), rasterising the pages (sms/storage.py)    *)
(* and matching a class zip to its students (sms/files/bulk.py).           *)
(*                                                                         *)
(* An entry is a record                                                    *)
(*   [reg   |-> the register number its path starts with, 0 for none,      *)
(*    name  |-> its leaf name, a sequence: <<n>> as it came, and one       *)
(*              number more for each " (i)" put behind it,                 *)
(*    ext   |-> "img", "pdf", "prog", "zip" or "other",                    *)
(*    size  |-> its bytes in MB, 0 for an empty entry,                     *)
(*    leaves |-> the pages an image or a PDF decodes to, 0 when it does    *)
(*              not decode,                                                *)
(*    locked |-> whether it is an entry of a zip that cannot be unpacked,  *)
(*    way   |-> "in", "junk" (a dotfile, a __MACOSX fork) or "out" (an     *)
(*              absolute path or one with ".."),                           *)
(*    inside |-> what a zip holds].                                        *)
(***************************************************************************)
EXTENDS Integers, Sequences, SequencesExt

CONSTANTS
  MAX_FILES,             \* program files per submission
  MAX_FILE_BYTES,        \* bytes per program file
  MAX_UPLOAD_BYTES,      \* bytes of a whole upload, unpacked
  MAX_ZIP_DECOMPRESSED   \* bytes one zip of a submission unpacks to

PAGE_EXTS == {"img", "pdf"}
FILE_EXTS == {"prog"}

\* What a zip in a zip holds is never looked at.
EntryWith(held) ==
  [reg : Nat, name : Seq(Nat), ext : PAGE_EXTS \cup FILE_EXTS \cup {"zip", "other"}, size : Nat, leaves : Nat,
   locked : BOOLEAN, way : {"in", "junk", "out"}, inside : held]
InnerEntry == EntryWith({<<>>})
OuterEntry == EntryWith(Seq(InnerEntry))

\* A loop over s: each entry changes what the entries before it left.
Along(Step(_, _), start, s) ==
  LET after[i \in 0..Len(s)] == IF i = 0 THEN start ELSE Step(after[i - 1], s[i])
  IN  after[Len(s)]

\* The entries of s that are among these, in the order of s.
Those(s, these) ==
  LET kept[i \in 0..Len(s)] ==
        IF i = 0 THEN <<>> ELSE IF s[i] \in these THEN Append(kept[i - 1], s[i]) ELSE kept[i - 1]
  IN  kept[Len(s)]

(* The caps of one call: a submission's, and those of a whole class zip,   *)
(* where only the archive as a whole is checked.                           *)
Submission == [files |-> MAX_FILES, file |-> MAX_FILE_BYTES, zip |-> MAX_ZIP_DECOMPRESSED]
WholeClass == [files |-> 10^9, file |-> 10^9, zip |-> MAX_UPLOAD_BYTES]

Empty == [pages |-> <<>>, files |-> <<>>, ignored |-> <<>>, total |-> 0, error |-> {}]
Refuse(it, code) == [it EXCEPT !.error = {code}]

(* A name that is taken gets the least " (i)", i >= 2, that is not. *)
Unique(e, it) ==
  LET taken == {<<x.name, x.ext>> : x \in ToSet(it.pages \o it.files)}
      Free(n) == <<n, e.ext>> \notin taken
  IN  IF Free(e.name) THEN e.name
      ELSE LET i == CHOOSE k \in 2..(Len(it.pages \o it.files) + 2) :
                      /\ Free(Append(e.name, k))
                      /\ \A j \in 2..(k - 1) : ~Free(Append(e.name, j))
           IN  Append(e.name, i)

Charge(it, e) ==
  IF it.total + e.size > MAX_UPLOAD_BYTES THEN Refuse(it, "too_large")
  ELSE [it EXCEPT !.total = @ + e.size]

AddPage(it, e) ==
  LET charged == Charge(it, e)
  IN  IF charged.error # {} THEN charged
      ELSE [charged EXCEPT !.pages = Append(@, [e EXCEPT !.name = Unique(e, it)])]

(* The count comes before the size: an oversized file too many is one too  *)
(* many.                                                                   *)
FullPast(it, cap) == Len(it.files) > cap.files
Full(it, cap) == Len(it.files) >= cap.files
AddFile(it, e, cap) ==
  LET charged == Charge(it, e)
  IN  IF Full(it, cap) THEN Refuse(it, "too_many_files")
      ELSE IF e.size > cap.file THEN Refuse(it, "too_large")
      ELSE IF charged.error # {} THEN charged
      ELSE [charged EXCEPT !.files = Append(@, [e EXCEPT !.name = Unique(e, it)])]

AddUsable(it, e, cap) == IF e.ext \in PAGE_EXTS THEN AddPage(it, e) ELSE AddFile(it, e, cap)
Usable(e) == e.ext \in PAGE_EXTS \cup FILE_EXTS
Ignore(it, e) == [it EXCEPT !.ignored = Append(@, e)]
Bytes(s) == Along(LAMBDA n, e : n + e.size, 0, s)

(* One entry of a zip. A locked or damaged one refuses the whole upload. *)
AddInner(it, e, cap) ==
  IF it.error # {} \/ e.way = "junk" THEN it
  ELSE IF e.way = "out" \/ ~Usable(e) THEN Ignore(it, e)
  ELSE IF e.locked THEN Refuse(it, "bad_file")
  ELSE AddUsable(it, e, cap)

ExpandZip(it, z, cap) ==
  LET full == Along(LAMBDA x, e : AddInner(x, e, cap), it, z.inside)
      kept(x) == Len(x.pages) + Len(x.files)
  IN  IF Bytes(z.inside) > cap.zip THEN Refuse(it, "zip_bomb")
      ELSE IF full.error # {} THEN full
      ELSE IF kept(full) = kept(it) THEN Refuse(full, "zip_nothing_usable")
      ELSE full

AddUpload(it, e, cap) ==
  IF it.error # {} THEN it
  ELSE IF e.ext = "zip" THEN ExpandZip(it, e, cap)
  ELSE IF Usable(e) THEN AddUsable(it, e, cap)
  ELSE Refuse(it, "bad_file")

classify_uploads(upload, cap) == Along(LAMBDA it, e : AddUpload(it, e, cap), Empty, upload)

input_kind(it) ==
  IF it.files # <<>> THEN IF it.pages # <<>> THEN "mixed" ELSE "files" ELSE "pages"

(* Rasterising: an unreadable page, an empty PDF or a page too many        *)
(* refuses the upload; the pages before it are stored by then.             *)
TooMany(n, e, most) == e.leaves > most - n
Rasterise(r, e, most) ==
  IF r.error # {} THEN r
  ELSE IF e.leaves = 0 \/ TooMany(r.stored, e, most) THEN [r EXCEPT !.error = {"bad_upload"}]
  ELSE [r EXCEPT !.stored = @ + e.leaves]
process_uploads(pages, most) ==
  Along(LAMBDA r, e : Rasterise(r, e, most), [stored |-> 0, error |-> {}], pages)

(* Which entries of a class zip go to which of the students, given as      *)
(* records [id, reg].                                                      *)
match_entries(entries, students) ==
  LET Hits(e) == {s \in students : s.reg = e.reg}
      One(e) == \E s \in students : Hits(e) = {s}
  IN  [matched |-> [s \in {x \in students : \E e \in ToSet(entries) : Hits(e) = {x}} |->
                      Those(entries, {e \in ToSet(entries) : Hits(e) = {s}})],
       ambiguous |-> Those(entries, {e \in ToSet(entries) : Hits(e) # {} /\ ~One(e)}),
       unmatched |-> Those(entries, {e \in ToSet(entries) : Hits(e) = {}})]
=============================================================================
