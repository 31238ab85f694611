---------------------------- MODULE MCBackground ----------------------------
(***************************************************************************)
(* What goes on while nobody waits for an answer, or waits for one that    *)
(* comes later, checked in one run: readings of uploads into the bank, the *)
(* files of pages and their retention, the outbox, the nightly reflection  *)
(* and the calls to a provider.  The five share no state, so a behaviour   *)
(* lets one of them move and leaves the others at their start.  What would *)
(* be too large in one piece moves in several: the bank with its editor    *)
(* and the readings, with its editor and scripts, and with copies of a     *)
(* template; the outbox for its messages, its digest and the linking of    *)
(* the bot; the reflection every night, and asked for.                     *)
(***************************************************************************)
EXTENDS Integers, FiniteSets, TLC

CONSTANTS
    None, Template, Tab, Script, Keep, LoadsAtOnce, PromptSaves, MaxReads, MaxMishaps,
    Submission, Client, Contents, Modes, Apart, MaxUploads, MaxCrashes,
    Bot, Chat, Group, FirstUpdate, RowIdsReused, GROUPS_PER_TICK, MAX_ATTEMPTS,
    MaxMessages, MaxPresses, MaxDays, MaxUnlinks, MaxLost,
    REFLECT_WINDOW, REFLECT_LOOKBACK, AskedLookbacks, MaxWait, MaxCorrections, MaxAsked, Slack,
    Provider, Limits, Window, MaxCalls, MaxReplaced

VARIABLES
    which,   \* the part that moves
    tpl, pages, job, tab, script, asked, reads, mishaps,
    disk, rows, deleted, st, photo, keep, request, uploads, crashes,
    bot, inbox, note, told, lastId, gone, tick, day, digests, pressed, presses, unlinks, lost,
    corr, clean, reflectJob, row, checked, opened, askedRuns, reflectMishaps,
    rpm, pool, caller, log

Bank    == INSTANCE AssignmentBank
Store   == INSTANCE PageStore
Outbox  == INSTANCE NotifyOutbox
Reflect == INSTANCE ReflectionSchedule WITH job <- reflectJob, asked <- askedRuns, mishaps <- reflectMishaps
Call    == INSTANCE CallLimits WITH job <- caller

ASSUME BankConstants    == Bank!BankAssumption
ASSUME StoreConstants   == Store!StoreAssumption
ASSUME OutboxConstants  == Outbox!OutboxAssumption
ASSUME ReflectConstants == Reflect!ReflectionAssumption
ASSUME CallConstants    == Call!CallAssumption

bankVars    == <<tpl, pages, job, tab, script, asked, reads, mishaps>>
storeVars   == <<disk, rows, deleted, st, photo, keep, request, uploads, crashes>>
outboxVars  == <<bot, inbox, note, told, lastId, gone, tick, day, digests, pressed, presses, unlinks, lost>>
reflectVars == <<corr, clean, reflectJob, row, checked, opened, askedRuns, reflectMishaps>>
callVars    == <<rpm, pool, caller, log>>

MCContents == [d \in {"pages", "crops", "files"} |-> {"x"}]
MCFirst    == [b \in Bot |-> 1]

OfBank    == {"editor", "scripts", "copies"}
OfOutbox  == {"tell", "digest", "link"}
OfReflect == {"nightly", "asked"}

BackgroundInit ==
    /\ which \in OfBank \cup OfOutbox \cup OfReflect \cup {"store", "calls"}
    /\ Bank!BankInit
    /\ Store!StoreInit  /\ (which # "store" => \A s \in Submission : keep[s] = "crops")
    /\ Outbox!OutboxInit
    /\ Reflect!ReflectInit
    /\ Call!CallInit    /\ (which # "calls" => \A p \in Provider : rpm[p] = 0)

OneTemplate == \A t \in Template \ {CHOOSE u \in Template : TRUE} : tpl'[t].row = "unused"
OneChat     == \A b \in Bot : \A u \in inbox'[b] : u.chat = CHOOSE c \in Chat : TRUE

BankStep ==
    /\ which \in OfBank /\ Bank!BankNext
    /\ which = "editor"  => OneTemplate /\ script' = script
    /\ which = "scripts" => OneTemplate /\ job' = job
    /\ which = "copies"  => tab' = tab /\ job' = job
    /\ UNCHANGED <<which, storeVars, outboxVars, reflectVars, callVars>>
StoreStep ==
    /\ which = "store" /\ Store!StoreNext
    /\ UNCHANGED <<which, bankVars, outboxVars, reflectVars, callVars>>
OutboxStep ==
    /\ which \in OfOutbox /\ Outbox!OutboxNext
    /\ which = "tell"   => unlinks' = unlinks
    /\ which # "tell"   => note' = note /\ gone' = gone
    /\ which # "digest" => day' = day
    /\ which # "link"   => presses' <= 1 /\ OneChat
    /\ UNCHANGED <<which, bankVars, storeVars, reflectVars, callVars>>
ReflectStep ==
    /\ which \in OfReflect /\ Reflect!ReflectNext
    /\ which = "nightly" => askedRuns' = askedRuns
    /\ which = "asked"   => \A c \in 2 .. MaxCorrections : ~corr'[c].made
    /\ UNCHANGED <<which, bankVars, storeVars, outboxVars, callVars>>
CallStep ==
    /\ which = "calls" /\ Call!CallNext
    /\ UNCHANGED <<which, bankVars, storeVars, outboxVars, reflectVars>>

BackgroundNext == BankStep \/ StoreStep \/ OutboxStep \/ ReflectStep \/ CallStep

\* The fairness of the part that moves; of the others no action is ever enabled.
BackgroundFairness ==
    /\ \A t \in Template, w \in {"paper", "scheme"} :
          /\ WF_bankVars(which \in OfBank /\ Bank!StartJob(t, w))
          /\ WF_bankVars(which \in OfBank /\ (Bank!EndJob(t, w) \/ Bank!JobFails(t, w)))
    /\ \A b \in Tab :
          /\ WF_bankVars(which \in OfBank /\ Bank!Poll(b))
          /\ WF_bankVars(which \in OfBank /\ Bank!Save(b))
    /\ \A s \in Submission :
          WF_storeVars(which = "store" /\ \E c \in Client : Store!DeletePages(c, s) \/ Store!Reconcile(c, s))
    /\ \A c \in Client :
          WF_storeVars(which = "store" /\ (Store!Put(c) \/ Store!InsertUpload(c) \/ Store!InsertPages(c)
                                           \/ Store!InsertCorrection(c) \/ Store!InsertCrops(c) \/ Store!Unlink(c)))
    /\ WF_outboxVars(which \in OfOutbox /\ Outbox!Tick)
    /\ \A m \in 1 .. MaxMessages : WF_outboxVars(which \in OfOutbox /\ Outbox!Due(m))
    /\ WF_reflectVars(which \in OfReflect /\ Reflect!Works)
    /\ WF_reflectVars(which \in OfReflect /\ Reflect!Schedule)
    /\ WF_reflectVars(which \in OfReflect /\ Reflect!Pass)
    /\ WF_callVars(which = "calls" /\ Call!Tick)
    /\ WF_callVars(which = "calls" /\ Call!Wakes)
    /\ WF_callVars(which = "calls" /\ Call!Acquire)

BackgroundSpec ==
    /\ BackgroundInit
    /\ [][BackgroundNext]_<<which, bankVars, storeVars, outboxVars, reflectVars, callVars>>
    /\ BackgroundFairness

-----------------------------------------------------------------------------
(* The properties of the parts, of these instances *)

\* The variables of the five parts keep their types.
BackgroundTypeOK ==
    /\ Bank!BankTypeOK
    /\ Store!StoreTypeOK
    /\ Outbox!OutboxTypeOK
    /\ Reflect!ReflectTypeOK
    /\ Call!CallTypeOK

\* The type of a template, the shape of its rows and the type its scripts are marked as agree,
\* although a job writes what it began with and an open tab saves what it loaded.
TypesAgree == Bank!TypesAgree

\* What a job reads comes to the tab that waits for it, and no later save takes it back.
ReadingsArrive == Bank!ReadingsArrive

\* Every row has its file, and what the retention mode keeps, or a correction still needs, its row.
FilesFollowRows == Store!FilesFollowRows

\* The pages and files of a script that is done go in the end, also after a crash.
PagesGo == Store!PagesGo

\* A message and a day's digest go out once, but for crashes and lost answers, and no row is
\* closed whose message did not.
ToldAsOwed == Outbox!ToldAsOwed

\* Every row leaves the outbox, and a /start pressed for the saved bot links its chat.
NobodyWaits == Outbox!NobodyWaits

\* A reflect job opens one row, and every correction is read by a run that succeeds unless it
\* came just after a run began.
ReflectsOnAll == Reflect!ReflectsOnAll

\* A provider gets no more calls in a minute than its limits allow, and a job that asks gets one.
CallsAreRationed == Call!CallsAreRationed
=============================================================================
