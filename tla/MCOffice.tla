------------------------------ MODULE MCOffice ------------------------------
(***************************************************************************)
(* What the web application and a mark job decide in the office hours of a *)
(* school, checked in one run: the marks of one script, the model a job is *)
(* given, and the hand-ins of one class.  The three share no state, so a   *)
(* behaviour lets one of them move and leaves the others at their start.   *)
(***************************************************************************)
EXTENDS MCMarkedScript, ModelChoice

CONSTANTS
    BulkClient, Dialog, FirstList, Lists, ClassZips, Uploads,
    MAX_HAND_IN_PAGES, MAX_PAGES, MAX_FILES, MAX_FILE_BYTES, MAX_UPLOAD_BYTES, MAX_ZIP_DECOMPRESSED,
    Kinds, MaxScripts, MaxRows, MaxRunning

VARIABLES
    which,   \* the part that moves: "marks", "choice" or "class"
    students, scripts, template, requests, struck

ClassUpload == INSTANCE BulkHandIn WITH Client <- BulkClient, request <- requests

bulkVars == <<students, scripts, template, requests, struck>>

\* What is assumed of the constants of the class upload.
ASSUME UploadConstants == ClassUpload!BulkAssumption

\* Each provider as the picker leaves it, the second with what the reading field said for the first.
Pick(p, x) == [provider |-> p, model |-> p, extractor |-> x]
MCPicks == {Pick(Default, {})} \cup {Pick(p, {Default}) : p \in Provider \ {Default}}
MCSubjectOf == [t \in Template |-> CHOOSE s \in Subject : TRUE]

\* Zips of a class: two students by their folders, one by a file's name, another's on no list.
Entry(r, n, x, z, l) ==
    [reg |-> r, name |-> <<n>>, ext |-> x, size |-> z, leaves |-> l, locked |-> FALSE, way |-> "in", inside |-> <<>>]
Folder(s) == [Entry(0, 9, "zip", 1, 0) EXCEPT !.inside = s]
MCFirstList == <<1, 2>>
MCLists     == {<<1, 3>>, <<2, 2>>, <<>>}  \* the last two are refused
MCClassZips ==
    {Folder(<<Entry(1, 1, "pdf", 1, 4), Entry(2, 1, "prog", 1, 0), Entry(2, 1, "prog", 1, 0), Entry(0, 3, "img", 1, 1),
           Entry(3, 1, "prog", 3, 0), Entry(3, 1, "other", 1, 0), [Entry(3, 2, "img", 1, 1) EXCEPT !.way = "junk"]>>)}

\* Uploads that are stored, and one for each cap that is not: too many files, pages enough for the form but not
\* for a phone, a picture that does not open, more than one upload may weigh, more than one zip may unpack to.
MCMixed ==
    <<Folder(<<Entry(0, 1, "prog", 1, 0), [Entry(0, 1, "img", 1, 1) EXCEPT !.way = "out"], Entry(0, 1, "prog", 1, 0)>>),
      Entry(0, 1, "img", 1, 1)>>
MCUploads ==
    {MCMixed, <<Entry(0, 1, "img", 1, 1), Folder(<<Entry(0, 1, "prog", 1, 0), Entry(0, 2, "prog", 1, 0)>>),
       Entry(0, 2, "prog", 1, 0)>>,
     <<Entry(0, 1, "pdf", 4, 3)>>, <<Entry(0, 1, "img", 1, 0)>>,
     <<Entry(0, 1, "img", 5, 1), Entry(0, 2, "img", 5, 1)>>, <<Folder(<<Entry(0, 1, "img", 5, 1)>>)>>}

\* Bound: what is handed in, and from where, while a class upload is under way; the rest comes before or after it.
BesideClass ==
    (\E d \in Dialog : requests[d].at # "none") =>
        /\ \A x \in scripts : x.leaves < MAX_PAGES
        /\ \A c \in BulkClient \ Dialog : requests[c].at \in {"handing", "storing"} =>
              requests[c].upload = MCMixed /\ requests[c].most = MAX_HAND_IN_PAGES

OfficeInit ==
    /\ which \in {"marks", "choice", "class"}
    /\ ScriptInit /\ (which # "marks" => assignment = TwoRows)
    /\ ChoiceInit
    /\ ClassUpload!BulkInit

OfficeNext ==
    \/ which = "marks"  /\ ScriptNext  /\ UNCHANGED <<which, choiceVars, bulkVars>>
    \/ which = "choice" /\ ChoiceNext  /\ UNCHANGED <<which, scriptVars, bulkVars>>
    \/ which = "class"  /\ ClassUpload!BulkNext /\ BesideClass' /\ UNCHANGED <<which, scriptVars, choiceVars>>

OfficeSpec == OfficeInit /\ [][OfficeNext]_<<which, scriptVars, choiceVars, bulkVars>>

-----------------------------------------------------------------------------
(* Properties: those of the three parts, and *)

\* The variables of the three parts keep their types.
OfficeTypeOK == ScriptTypeOK /\ ChoiceTypeOK /\ ClassUpload!BulkTypeOK

\* A class upload loses nobody's work: it deletes a hand-in only for one it takes, or says so
\* (bulk_commit's report of created, skipped and failed).
NoHandInLost == ClassUpload!NoHandInLost

\* A script's files are its student's own and within the caps, and no class list takes away a student who has one,
\* although class lists are replaced between the steps of an upload.
ScriptsAreTheirs == ClassUpload!ScriptsAreTheirs
=============================================================================
