---------------------------- MODULE ClassProofs ----------------------------
(***************************************************************************)
(* Theorems about ClassSet, for any number of students, requests, threads  *)
(* and hand-ins.                                                           *)
(*                                                                         *)
(* One message for a drain: every hand-in pays for one message, and the    *)
(* messages sent, those coming, the one that may be claimed and those that *)
(* a pending request may still re-arm never exceed the hand-ins            *)
(* (OnePerHandIn), from the first re-arming on; before it nothing can be   *)
(* settled (NothingYet).                                                   *)
(*                                                                         *)
(* Nobody left out: what a thread has counted holds every script that is   *)
(* handed in, but for hand-ins that have yet to re-arm (CountsAll); while  *)
(* no announcement is stamped something will count again (DrainSeen).      *)
(***************************************************************************)
EXTENDS ClassSet, FiniteSetTheorems, SequenceTheorems, TLAPS

-----------------------------------------------------------------------------
(* The inductive invariants *)

\* A request between the insert of a hand-in and the enqueueing of its job holds the script; a
\* thread holds the one that it marks.
Carries(r) == request[r].op \in {"rearm", "enqueue"} /\ request[r].st # None
Marks(w)   == At(w, "marking") /\ worker[w].st # None

\* What is held is as its holder left it, and nobody else holds it.
HeldByOne ==
    /\ \A r \in Client : Carries(r) => script[request[r].st] = "uploaded"
    /\ \A q, r \in Client : Carries(q) /\ Carries(r) /\ request[q].st = request[r].st => q = r
    /\ \A w \in Worker : Marks(w) => script[worker[w].st] = "marking"
    /\ \A v, w \in Worker : Marks(v) /\ Marks(w) /\ worker[v].st = worker[w].st => v = w

\* What a request has checked and still has to write.
RequestsCarry ==
    \A r \in Client : /\ request[r].op = "insert" => request[r].st \in Student
                      /\ request[r].op = "update" => request[r].to \in CaStatus

\* The messages that are out or coming, the one that may still be claimed, and those that pending
\* requests may re-arm.
Rearming   == {r \in Client : request[r].op = "rearm"}
Announcing == {w \in Worker : At(w, "announcing")}
Armed      == IF notified THEN 0 ELSE 1
OnePerHandIn == Len(told) + Cardinality(Announcing) + Armed + Cardinality(Rearming) <= handIns

\* Before the first hand-in has been re-armed nothing can be settled.
NothingYet ==
    /\ told = <<>> /\ ~notified /\ Cardinality(Rearming) <= handIns
    /\ \A s \in Student : script[s] \in {"none", "uploaded"}
    /\ \A r \in Client : request[r].op # "enqueue"
    /\ \A w \in Worker : worker[w].pc \in {"idle", "reporting", "writing"}

MessagesCounted == IsFiniteSet(Rearming) /\ IsFiniteSet(Announcing) /\ (OnePerHandIn \/ NothingYet)

\* The teacher has one request on its way at most, and a status that is about to be written is
\* released if and only if the assignment is.
Asks(r) == request[r].op \notin {"idle", "insert", "rearm", "enqueue"}
OneRequest ==
    /\ \A q, r \in Client : Asks(q) /\ Asks(r) => q = r
    /\ \A r \in Client : request[r].op = "update" /\ Exists => (request[r].to = "released" <=> ca = "released")

\* Without a mishap nobody holds a script that was removed.
NothingLost ==
    /\ \A w \in Worker : worker[w].pc \in {"marking", "settled"} => worker[w].st # None
    /\ \A r \in Client : request[r].op \in {"rearm", "enqueue"} => request[r].st # None

\* S has every script that is handed in, but for those whose hand-in has yet to re-arm the drain.
Awaited(s) == \E r \in Client : request[r].op = "rearm" /\ request[r].st = s
CountsAll(S) == \A s \in HandedIn : s \in S \/ Awaited(s)

\* Something will count the drain again.
ToBeCounted == InFlight # {} \/ \E w \in Worker : At(w, "settled")

DrainSeen ==
    /\ \A w \in Worker : Counting(w) => CountsAll(worker[w].counts)
    /\ notified => Announcing # {} \/ (told # <<>> /\ CountsAll(told[Len(told)]))
    /\ Exists /\ Marked # {} /\ ~notified => ToBeCounted \/ \E w \in Worker : worker[w].pc \in {"drained", "claiming"}

\* There is a report, or an error, or a job or a thread that is about to see to one.
Reported   == \/ report.stored \/ report.error \/ insights # "none"
              \/ \E w \in Worker : At(w, "drained")
ReportSeen == Exists /\ Marked # {} => ToBeCounted \/ Reported

\* What the run's properties say of a history without mishaps.
Smooth == mishaps = 0 => NothingLost /\ ReportSeen
Seen   == mishaps = 0 => DrainSeen

\* Every variable keeps its type; told is short because messages are counted.
ClassTypes ==
    /\ ca \in CaStatus \cup {"deleted"}
    /\ notified \in BOOLEAN
    /\ script \in [Student -> ScriptStatus]
    /\ report \in ReportRow
    /\ insights \in {"none", "queued", "running"}
    /\ told \in Seq(SUBSET Student)
    /\ worker \in [Worker -> Thread]
    /\ request \in [Client -> Request]
    /\ handIns \in 0 .. MaxHandIns /\ mishaps \in 0 .. MaxMishaps
    /\ RequestsCarry

-----------------------------------------------------------------------------
(* Types *)

\* A request that moves on, a thread that does, and a mishap.
LEMMA RequestMoves ==
    ASSUME ClassTypes, NEW r \in Client, NEW q \in Request, Forgets(r, q),
           q.op = "insert" => q.st \in Student, q.op = "update" => q.to \in CaStatus
    PROVE  /\ request' \in [Client -> Request] /\ RequestsCarry'
           /\ request'[r] = q /\ \A p \in Client : p # r => request'[p] = request[p]
BY DEF ClassTypes, RequestsCarry, Forgets

\* Only the thread that turns is another.
LEMMA ThreadMoves ==
    ASSUME ClassTypes, NEW w \in Worker, NEW t \in Thread, Turns(w, t)
    PROVE  /\ worker' \in [Worker -> Thread]
           /\ worker'[w] = t /\ \A v \in Worker : v # w => worker'[v] = worker[v]
BY DEF ClassTypes, Turns

\* A thread that goes on holds the script and the count that it held.
LEMMA ThreadGoes ==
    ASSUME ClassTypes, NEW w \in Worker, Goto(w, "settled") \/ Goto(w, "claiming") \/ Goto(w, "announcing")
                                         \/ Goto(w, "reporting") \/ Goto(w, "writing")
    PROVE  /\ worker' \in [Worker -> Thread]
           /\ worker'[w].st = worker[w].st /\ worker'[w].counts = worker[w].counts
           /\ \A v \in Worker : v # w => worker'[v] = worker[v]
<1>1. PICK pc \in {"settled", "claiming", "announcing", "reporting", "writing"} :
        worker' = [worker EXCEPT ![w] = [worker[w] EXCEPT !.pc = pc]]
  BY DEF Goto, Turns
<1> DEFINE t == [worker[w] EXCEPT !.pc = pc]
<1>2. t \in Thread /\ t.st = worker[w].st /\ t.counts = worker[w].counts
  BY DEF ClassTypes, Thread
<1>3. worker' = [worker EXCEPT ![w] = t]
  BY <1>1
<1> HIDE DEF t
<1> QED BY <1>2, <1>3 DEF ClassTypes

\* There is never a mishap too many, and after one there has been one.
LEMMA MishapFits ==
    ASSUME mishaps \in 0 .. MaxMishaps, Mishap
    PROVE  mishaps' \in 0 .. MaxMishaps /\ mishaps' # 0
BY ClassAssumption DEF ClassAssumption, Mishap

\* An idle thread, one that has counted and an idle request are of their types.
LEMMA IdleFits ==
    /\ Idle \in Thread /\ Idle.pc = "idle" /\ NoRequest \in Request /\ NoRequest.op = "idle"
    /\ \A S \in SUBSET Student : [Idle EXCEPT !.pc = "drained", !.counts = S] \in Thread
BY DEF Idle, NoRequest, Thread, Request

\* Every step keeps the types.
LEMMA TypesStep ==
    ASSUME ClassTypes, ClassNext
    PROVE  ClassTypes'
<1> USE ClassAssumption DEF ClassTypes, RequestsCarry, tables, Request, Thread, CaStatus, ScriptStatus, ReportRow, At
<1>1. ASSUME NEW r \in Client, NEW s \in Student, HandInCheck(r, s)
      PROVE  ClassTypes'
  BY <1>1 DEF ClassAssumption, HandInCheck, Teacher, Free, Forgets
<1>2. ASSUME NEW r \in Client, NEW s \in Student, RemoveCheck(r, s)
      PROVE  ClassTypes'
  BY <1>2 DEF ClassAssumption, RemoveCheck, Teacher, Free, Forgets
<1>3. ASSUME NEW r \in Client, Insert(r)
      PROVE  ClassTypes'
  <2>1. handIns \in Nat /\ MaxHandIns \in Nat /\ request[r].st \in Student
    BY <1>3 DEF Insert
  <2>2. CASE Answered(r) /\ UNCHANGED <<script, handIns>>
    <3>1. request' \in [Client -> Request] /\ RequestsCarry'
      BY <2>2, IdleFits, RequestMoves DEF Answered
    <3> QED BY <1>3, <2>2, <3>1 DEF Insert
  <2>3. CASE /\ handIns < MaxHandIns /\ Becomes(request[r].st, "uploaded")
             /\ Forgets(r, [request[r] EXCEPT !.op = "rearm"]) /\ handIns' = handIns + 1
    <3>1. [request[r] EXCEPT !.op = "rearm"] \in Request /\ [request[r] EXCEPT !.op = "rearm"].op = "rearm"
      OBVIOUS
    <3>2. request' \in [Client -> Request] /\ RequestsCarry'
      BY <2>3, <3>1, RequestMoves
    <3>3. script' \in [Student -> ScriptStatus]
      BY <2>1, <2>3 DEF Becomes
    <3> QED BY <1>3, <2>1, <2>3, <3>2, <3>3 DEF Insert
  <2> QED BY <1>3, <2>2, <2>3 DEF Insert
<1>4. ASSUME NEW r \in Client, Rearm(r)
      PROVE  ClassTypes'
  <2>1. [request[r] EXCEPT !.op = "enqueue"] \in Request /\ [request[r] EXCEPT !.op = "enqueue"].op = "enqueue"
    OBVIOUS
  <2>2. request' \in [Client -> Request] /\ RequestsCarry'
    BY <1>4, <2>1, RequestMoves DEF Rearm
  <2>3. notified' \in BOOLEAN /\ mishaps' \in 0 .. MaxMishaps
    BY <1>4, MishapFits DEF Rearm
  <2> QED BY <1>4, <2>2, <2>3 DEF Rearm
<1>5. ASSUME NEW r \in Client, Enqueue(r)
      PROVE  ClassTypes'
  BY <1>5 DEF ClassAssumption, Enqueue, Answered, Forgets, NoRequest
<1>6. ASSUME NEW r \in Client, Remove(r)
      PROVE  ClassTypes'
  <2> DEFINE s == request[r].st
             Gone(x) == IF x.st = s THEN [x EXCEPT !.st = None] ELSE x
             Drop(q) == IF request[q].op = "insert" THEN request[q] ELSE Gone(request[q])
  <2>1. ASSUME NEW w \in Worker
        PROVE  Gone(worker[w]) \in Thread
    OBVIOUS
  <2>2. ASSUME NEW q \in Client
        PROVE  /\ Drop(q) \in Request /\ Drop(q).op = request[q].op /\ Drop(q).to = request[q].to
               /\ request[q].op = "insert" => Drop(q) = request[q]
    OBVIOUS
  <2>3. /\ worker' = IF s # None THEN [w \in Worker |-> Gone(worker[w])] ELSE worker
        /\ request' = [q \in Client |-> IF q = r THEN NoRequest ELSE IF s # None THEN Drop(q) ELSE request[q]]
    BY <1>6 DEF Remove
  <2> HIDE DEF Gone, Drop
  <2>4. worker' \in [Worker -> Thread]
    BY <2>1, <2>3
  <2>5. request' \in [Client -> Request] /\ RequestsCarry'
    <3>1. NoRequest.op = "idle"
      BY DEF NoRequest
    <3> QED BY <2>2, <2>3, <3>1, IdleFits
  <2>6. script' \in [Student -> ScriptStatus]
    BY <1>6 DEF Remove
  <2>7. mishaps' \in 0 .. MaxMishaps
    BY <1>6, MishapFits DEF Remove
  <2> QED BY <1>6, <2>4, <2>5, <2>6, <2>7 DEF Remove
<1>7. ASSUME NEW r \in Client, Update(r)
      PROVE  ClassTypes'
  BY <1>7 DEF ClassAssumption, Update, Answered, Forgets, NoRequest
<1>8. ASSUME NEW r \in Client, DeleteCheck(r)
      PROVE  ClassTypes'
  BY <1>8 DEF ClassAssumption, DeleteCheck, Forgets, NoRequest
<1>9. ASSUME NEW r \in Client, Delete(r)
      PROVE  ClassTypes'
  BY <1>9 DEF ClassAssumption, Delete, Answered, Forgets, NoRequest, NoReport
<1>10. ASSUME NEW r \in Client, ReleaseCheck(r)
       PROVE  ClassTypes'
  BY <1>10 DEF ClassAssumption, ReleaseCheck, Forgets, NoRequest
<1>11. ASSUME NEW r \in Client, Release(r)
       PROVE  ClassTypes'
  BY <1>11 DEF ClassAssumption, Release, Forgets, NoRequest
<1>12. ASSUME NEW r \in Client, ReportRelease(r)
       PROVE  ClassTypes'
  BY <1>12 DEF ClassAssumption, ReportRelease, EnqueueInsights, Answered, Forgets, NoRequest
<1>13. ASSUME NEW r \in Client, NEW to \in CaStatus, UpdateCheck(r, to)
       PROVE  ClassTypes'
  <2>1. [op |-> "update", st |-> None, to |-> to] \in Request
    OBVIOUS
  <2>2. request' \in [Client -> Request] /\ RequestsCarry'
    BY <1>13, <2>1, RequestMoves DEF UpdateCheck
  <2> QED BY <1>13, <2>2 DEF UpdateCheck
<1>14. ASSUME Regenerate
       PROVE  ClassTypes'
  BY <1>14 DEF ClassAssumption, Regenerate, EnqueueInsights
<1>15. ASSUME NEW s \in Student, Retry(s) \/ Resolve(s)
       PROVE  ClassTypes'
  BY <1>15 DEF ClassAssumption, Retry, Resolve, Becomes
<1>16. ASSUME NEW w \in Worker, NEW s \in Student, ClaimMark(w, s)
       PROVE  ClassTypes'
  BY <1>16 DEF ClassAssumption, ClaimMark, Becomes, Turns, Idle
<1>17. ASSUME NEW w \in Worker, MarkEnds(w)
       PROVE  ClassTypes'
  <2>1. worker' \in [Worker -> Thread]
    BY <1>17, ThreadGoes DEF MarkEnds
  <2>2. script' \in [Student -> ScriptStatus]
    <3>1. worker[w].st # None => worker[w].st \in Student
      OBVIOUS
    <3> QED BY <1>17, <3>1 DEF MarkEnds, Becomes
  <2> QED BY <1>17, <2>1, <2>2 DEF MarkEnds
<1>18. ASSUME NEW w \in Worker, CountDrain(w)
       PROVE  ClassTypes'
  <2>1. worker' \in [Worker -> Thread]
    <3>1. Settled \in SUBSET Student
      BY DEF Settled
    <3>2. \E t \in Thread : Turns(w, t)
      BY <1>18, <3>1, IdleFits DEF CountDrain
    <3> QED BY <3>2, ThreadMoves
  <2>2. mishaps' \in 0 .. MaxMishaps
    BY <1>18, MishapFits DEF CountDrain
  <2> QED BY <1>18, <2>1, <2>2 DEF CountDrain
<1>19. ASSUME NEW w \in Worker, ReportDrain(w)
       PROVE  ClassTypes'
  BY <1>19 DEF ClassAssumption, ReportDrain, EnqueueInsights, Goto, Turns
<1>20. ASSUME NEW w \in Worker, ClaimDrain(w)
       PROVE  ClassTypes'
  <2>1. worker' \in [Worker -> Thread]
    BY <1>20, IdleFits, ThreadMoves, ThreadGoes DEF ClaimDrain
  <2> QED BY <1>20, <2>1 DEF ClaimDrain
<1>21. ASSUME NEW w \in Worker, Announce(w)
       PROVE  ClassTypes'
  BY <1>21 DEF ClassAssumption, Announce, Turns, Idle
<1>22. ASSUME NEW w \in Worker, ClaimInsights(w)
       PROVE  ClassTypes'
  BY <1>22 DEF ClassAssumption, ClaimInsights, Goto, Turns
<1>23. ASSUME NEW w \in Worker, CountMarks(w)
       PROVE  ClassTypes'
  <2>1. worker' \in [Worker -> Thread]
    BY <1>23, IdleFits, ThreadMoves, ThreadGoes DEF CountMarks
  <2>2. report' \in ReportRow /\ insights' \in {"none", "queued", "running"}
    BY <1>23 DEF CountMarks
  <2> QED BY <1>23, <2>1, <2>2 DEF CountMarks
<1>24. ASSUME NEW w \in Worker, WriteReport(w)
       PROVE  ClassTypes'
  BY <1>24 DEF ClassAssumption, WriteReport, Turns, Idle
<1>25. ASSUME NEW w \in Worker, FailReport(w)
       PROVE  ClassTypes'
  <2>1. worker' \in [Worker -> Thread] /\ mishaps' \in 0 .. MaxMishaps
    BY <1>25, IdleFits, ThreadMoves, MishapFits DEF FailReport
  <2>2. report' \in ReportRow /\ insights' \in {"none", "queued", "running"}
    BY <1>25 DEF FailReport
  <2> QED BY <1>25, <2>1, <2>2 DEF FailReport
<1>26. ASSUME NEW w \in Worker, Crash(w)
       PROVE  ClassTypes'
  BY <1>26 DEF ClassAssumption, Crash, Mishap, Turns, Idle
<1> QED
  BY <1>1, <1>2, <1>3, <1>4, <1>5, <1>6, <1>7, <1>8, <1>9, <1>10, <1>11, <1>12, <1>13, <1>14, <1>15, <1>16, <1>17, <1>18, <1>19, <1>20, <1>21, <1>22, <1>23, <1>24, <1>25, <1>26 DEF ClassNext

\* The steps of a thread after the marking, and those of requests that hold no script.
GoesOn(w) ==
    \/ CountDrain(w) \/ ReportDrain(w) \/ ClaimDrain(w) \/ Announce(w)
    \/ ClaimInsights(w) \/ CountMarks(w) \/ WriteReport(w) \/ FailReport(w)
OfTeacher(r) ==
    \/ \E s \in Student : HandInCheck(r, s) \/ RemoveCheck(r, s)
    \/ \E to \in CaStatus : UpdateCheck(r, to)
    \/ Update(r) \/ DeleteCheck(r) \/ Delete(r) \/ ReleaseCheck(r) \/ Release(r) \/ ReportRelease(r)

\* Such a request moves alone.
LEMMA RequestsGoOn ==
    ASSUME ClassTypes, NEW r \in Client, OfTeacher(r)
    PROVE  /\ UNCHANGED <<told, notified, handIns, worker, script, mishaps>>
           /\ request[r].op \notin {"insert", "rearm", "enqueue"} /\ request'[r].op \notin {"rearm", "enqueue"}
           /\ \A q \in Client : q # r => request'[q] = request[q]
<1>1. UNCHANGED <<told, notified, handIns, worker, script, mishaps>>
  BY DEF OfTeacher, tables, HandInCheck, RemoveCheck, UpdateCheck, Update, DeleteCheck, Delete, ReleaseCheck,
         Release, ReportRelease
<1>2. \E q : Forgets(r, q) /\ q.op \notin {"rearm", "enqueue"}
  <2>1. /\ \A s \in Student : [op |-> "insert", st |-> s, to |-> None].op = "insert"
        /\ \A s \in Student : [op |-> "remove", st |-> s, to |-> None].op = "remove"
        /\ \A to \in CaStatus : [op |-> "update", st |-> None, to |-> to].op = "update"
        /\ NoRequest.op = "idle" /\ [NoRequest EXCEPT !.op = "delete"].op = "delete"
        /\ [NoRequest EXCEPT !.op = "release"].op = "release"
        /\ [NoRequest EXCEPT !.op = "insights"].op = "insights"
    BY DEF NoRequest
  <2> QED BY <2>1 DEF OfTeacher, HandInCheck, RemoveCheck, UpdateCheck, Update, DeleteCheck, Delete, ReleaseCheck,
                      Release, ReportRelease, Answered
<1>3. request[r].op \notin {"insert", "rearm", "enqueue"}
  BY DEF OfTeacher, HandInCheck, RemoveCheck, UpdateCheck, Update, DeleteCheck, Delete, ReleaseCheck, Release,
         ReportRelease, Teacher, Free
<1>4. request'[r].op \notin {"rearm", "enqueue"} /\ \A q \in Client : q # r => request'[q] = request[q]
  BY <1>2 DEF Forgets, ClassTypes
<1> QED BY <1>1, <1>3, <1>4

\* A thread that has settled a script, or works on a report, leaves scripts and requests alone.
LEMMA ThreadsGoOn ==
    ASSUME ClassTypes, NEW w \in Worker, GoesOn(w)
    PROVE  /\ UNCHANGED <<ca, script, request, handIns>>
           /\ worker'[w].pc \notin {"marking", "settled"}
           /\ \A v \in Worker : v # w => worker'[v] = worker[v]
<1> DEFINE Moved == worker'[w].pc \notin {"marking", "settled"} /\ \A v \in Worker : v # w => worker'[v] = worker[v]
<1>1. UNCHANGED <<ca, script, request, handIns>>
  BY DEF GoesOn, tables, CountDrain, ReportDrain, ClaimDrain, Announce, ClaimInsights, CountMarks, WriteReport, FailReport
<1>2. ASSUME NEW t \in Thread, Turns(w, t), t.pc \in {"idle", "drained"}
      PROVE  Moved
  BY <1>2, ThreadMoves
<1>3. ASSUME Goto(w, "claiming") \/ Goto(w, "announcing") \/ Goto(w, "reporting") \/ Goto(w, "writing")
      PROVE  Moved
  BY <1>3 DEF Goto, Turns, ClassTypes, Thread
<1>4. CountDrain(w) => Moved
  <2>1. Settled \in SUBSET Student /\ \A S \in SUBSET Student : [Idle EXCEPT !.pc = "drained", !.counts = S].pc = "drained"
    BY DEF Settled, Idle
  <2> QED BY <1>2, <2>1, IdleFits DEF CountDrain
<1>5. ReportDrain(w) \/ ClaimDrain(w) \/ Announce(w) => Moved
  BY <1>2, <1>3, IdleFits DEF ReportDrain, ClaimDrain, Announce
<1>6. ClaimInsights(w) \/ CountMarks(w) \/ WriteReport(w) \/ FailReport(w) => Moved
  BY <1>2, <1>3, IdleFits DEF ClaimInsights, CountMarks, WriteReport, FailReport
<1> QED BY <1>1, <1>4, <1>5, <1>6 DEF GoesOn

\* A removal: whoever holds the submission holds nothing now, and all others stay as they are.
LEMMA RemoveMoves ==
    ASSUME ClassTypes, NEW r \in Client, Remove(r)
    PROVE  LET s == request[r].st
           IN  /\ UNCHANGED <<ca, notified, report, insights, told, handIns>>
               /\ request[r].op = "remove" /\ request'[r].op = "idle"
               /\ \A q \in Client : q # r =>
                     /\ request'[q].op = request[q].op
                     /\ \/ request'[q].st = request[q].st /\ (s # None /\ request[q].op # "insert" => request[q].st # s)
                        \/ s # None /\ request[q].st = s /\ request'[q].st = None
               /\ \A w \in Worker :
                     /\ worker'[w].pc = worker[w].pc /\ worker'[w].counts = worker[w].counts
                     /\ \/ worker'[w].st = worker[w].st /\ (s # None => worker[w].st # s)
                        \/ s # None /\ worker[w].st = s /\ worker'[w].st = None
               /\ \A t \in Student : script'[t] = IF s # None /\ t = s THEN "none" ELSE script[t]
               /\ s # None /\ mishaps' = mishaps => s \notin InFlight /\ \A w \in Worker : worker[w].st # s
<1> DEFINE s == request[r].st
           Gone(x) == IF x.st = s THEN [x EXCEPT !.st = None] ELSE x
           Drop(q) == IF request[q].op = "insert" THEN request[q] ELSE Gone(request[q])
<1>1. /\ UNCHANGED <<ca, notified, report, insights, told, handIns>> /\ request[r].op = "remove"
      /\ worker' = IF s # None THEN [w \in Worker |-> Gone(worker[w])] ELSE worker
      /\ request' = [q \in Client |-> IF q = r THEN NoRequest ELSE IF s # None THEN Drop(q) ELSE request[q]]
      /\ script' = IF s # None THEN [script EXCEPT ![s] = "none"] ELSE script
      /\ IF s # None /\ (s \in InFlight \/ \E w \in Worker : worker[w].st = s) THEN Mishap ELSE UNCHANGED mishaps
  BY DEF Remove
<1>2. ASSUME NEW q \in Client
      PROVE  /\ Drop(q).op = request[q].op
             /\ \/ Drop(q).st = request[q].st /\ (request[q].op # "insert" => request[q].st # s)
                \/ request[q].st = s /\ Drop(q).st = None
  BY DEF ClassTypes, Request
<1>3. ASSUME NEW w \in Worker
      PROVE  /\ Gone(worker[w]).pc = worker[w].pc /\ Gone(worker[w]).counts = worker[w].counts
             /\ \/ Gone(worker[w]).st = worker[w].st /\ worker[w].st # s
                \/ worker[w].st = s /\ Gone(worker[w]).st = None
  BY DEF ClassTypes, Thread
<1>4. NoRequest.op = "idle"
  BY DEF NoRequest
<1> HIDE DEF Gone, Drop
<1>5. \A t \in Student : script'[t] = IF s # None /\ t = s THEN "none" ELSE script[t]
  BY <1>1 DEF ClassTypes
<1>6. s # None /\ mishaps' = mishaps => s \notin InFlight /\ \A w \in Worker : worker[w].st # s
  BY <1>1 DEF Mishap, ClassTypes
<1>7. /\ request'[r].op = "idle"
      /\ \A q \in Client : q # r => request'[q] = IF s # None THEN Drop(q) ELSE request[q]
  BY <1>1, <1>4
<1>8. \A w \in Worker : worker'[w] = IF s # None THEN Gone(worker[w]) ELSE worker[w]
  BY <1>1
<1> QED BY <1>1, <1>2, <1>3, <1>5, <1>6, <1>7, <1>8

-----------------------------------------------------------------------------
(* Who holds a script *)

\* Nothing new is held, and a script that changes is held by nobody.
LEMMA HeldStays ==
    ASSUME ClassTypes, HeldByOne, script' \in [Student -> ScriptStatus],
           \A r \in Client : Carries(r)' => Carries(r) /\ request'[r].st = request[r].st,
           \A w \in Worker : Marks(w)' => Marks(w) /\ worker'[w].st = worker[w].st,
           \A s \in Student : script'[s] # script[s] =>
               /\ \A r \in Client : Carries(r)' => request'[r].st # s
               /\ \A w \in Worker : Marks(w)' => worker'[w].st # s
    PROVE  HeldByOne'
<1>1. ASSUME NEW r \in Client, Carries(r)'
      PROVE  script'[request'[r].st] = "uploaded"
  <2>1. Carries(r) /\ request'[r].st = request[r].st /\ request[r].st \in Student
    BY <1>1 DEF ClassTypes, Carries, Request
  <2> QED BY <1>1, <2>1 DEF HeldByOne
<1>2. ASSUME NEW w \in Worker, Marks(w)'
      PROVE  script'[worker'[w].st] = "marking"
  <2>1. Marks(w) /\ worker'[w].st = worker[w].st /\ worker[w].st \in Student
    BY <1>2 DEF ClassTypes, Marks, Thread
  <2> QED BY <1>2, <2>1 DEF HeldByOne
<1>3. ASSUME NEW q \in Client, NEW r \in Client, Carries(q)', Carries(r)', request'[q].st = request'[r].st
      PROVE  q = r
  BY <1>3 DEF HeldByOne
<1>4. ASSUME NEW v \in Worker, NEW w \in Worker, Marks(v)', Marks(w)', worker'[v].st = worker'[w].st
      PROVE  v = w
  BY <1>4 DEF HeldByOne
<1> QED BY <1>1, <1>2, <1>3, <1>4 DEF HeldByOne

\* Every step keeps what is held by one holder, as that one left it.
LEMMA HeldStep ==
    ASSUME ClassTypes, HeldByOne, ClassNext
    PROVE  HeldByOne'
<1>0. ClassTypes'
  BY TypesStep
<1>t. script' \in [Student -> ScriptStatus]
  BY <1>0 DEF ClassTypes
<1>r. \A r \in Client : Carries(r) => request[r].st \in Student /\ script[request[r].st] = "uploaded"
  BY DEF ClassTypes, Request, Carries, HeldByOne
<1>w. \A w \in Worker : Marks(w) => worker[w].st \in Student /\ script[worker[w].st] = "marking"
  BY DEF ClassTypes, Thread, Marks, HeldByOne
<1>1. ASSUME NEW r \in Client, OfTeacher(r)
      PROVE  HeldByOne'
  <2>1. /\ UNCHANGED <<worker, script>> /\ request'[r].op \notin {"rearm", "enqueue"}
        /\ \A q \in Client : q # r => request'[q] = request[q]
    BY <1>1, RequestsGoOn
  <2> QED BY <1>t, <2>1, HeldStays DEF Carries, Marks, At
<1>2. ASSUME NEW r \in Client, Rearm(r)
      PROVE  HeldByOne'
  BY <1>2, <1>t, HeldStays DEF Rearm, Mishap, Forgets, tables, Carries, Marks, At, ClassTypes
<1>3. ASSUME Regenerate
       PROVE  HeldByOne'
  BY <1>3, <1>t, HeldStays DEF Regenerate, EnqueueInsights, tables, Carries, Marks, At, ClassTypes
<1>4. ASSUME NEW w \in Worker, GoesOn(w)
       PROVE  HeldByOne'
  <2>1. /\ UNCHANGED <<script, request>> /\ worker'[w].pc # "marking"
        /\ \A v \in Worker : v # w => worker'[v] = worker[v]
    BY <1>4, ThreadsGoOn
  <2> QED BY <1>t, <2>1, HeldStays DEF Carries, Marks, At
<1>5. ASSUME NEW r \in Client, Insert(r)
      PROVE  HeldByOne'
  <2> DEFINE s == request[r].st
  <2>1. s \in Student /\ UNCHANGED worker
    BY <1>5 DEF Insert, ClassTypes, RequestsCarry
  <2>2. CASE Answered(r) /\ UNCHANGED script
    BY <1>t, <2>1, <2>2, HeldStays DEF Answered, Forgets, NoRequest, Carries, Marks, At, ClassTypes
  <2>3. CASE /\ script[s] = "none" /\ Becomes(s, "uploaded")
             /\ Forgets(r, [request[r] EXCEPT !.op = "rearm"])
    <3>1. request'[r].st = s /\ \A q \in Client : q # r => request'[q] = request[q]
      BY <2>3 DEF Forgets, ClassTypes, Request
    <3>2. script'[s] = "uploaded" /\ \A t \in Student : t # s => script'[t] = script[t]
      BY <2>1, <2>3 DEF Becomes, ClassTypes
    <3>3. \A q \in Client : Carries(q) => request[q].st # s
      BY <1>r, <2>3
    <3>4. \A w \in Worker : Marks(w)' <=> Marks(w)
      BY <2>1 DEF Marks, At
    <3>5. \A q \in Client : q # r => (Carries(q)' <=> Carries(q))
      BY <3>1 DEF Carries
    <3>6. \A w \in Worker : Marks(w)' => script'[worker'[w].st] = "marking"
      BY <1>w, <2>1, <2>3, <3>2, <3>4
    <3>7. \A q \in Client : Carries(q)' => script'[request'[q].st] = "uploaded"
      BY <1>r, <3>1, <3>2, <3>5
    <3>8. \A p, q \in Client : Carries(p)' /\ Carries(q)' /\ request'[p].st = request'[q].st => p = q
      BY <3>1, <3>3, <3>5 DEF HeldByOne
    <3>9. \A v, w \in Worker : Marks(v)' /\ Marks(w)' /\ worker'[v].st = worker'[w].st => v = w
      BY <2>1, <3>4 DEF HeldByOne
    <3> QED BY <3>6, <3>7, <3>8, <3>9 DEF HeldByOne
  <2> QED BY <1>5, <2>2, <2>3 DEF Insert
<1>6. ASSUME NEW r \in Client, Enqueue(r)
      PROVE  HeldByOne'
  <2>1. Answered(r) /\ UNCHANGED worker /\ request[r].op = "enqueue"
    BY <1>6 DEF Enqueue
  <2>2. request'[r].op = "idle" /\ \A q \in Client : q # r => request'[q] = request[q]
    BY <2>1 DEF Answered, Forgets, NoRequest, ClassTypes
  <2>3. \A q \in Client : Carries(q)' => q # r /\ Carries(q) /\ request'[q].st = request[q].st
    BY <2>2 DEF Carries
  <2>4. \A w \in Worker : Marks(w)' => Marks(w) /\ worker'[w].st = worker[w].st
    BY <2>1 DEF Marks, At
  <2>5. ASSUME NEW s \in Student, script'[s] # script[s]
        PROVE  s = request[r].st /\ Carries(r)
    BY <1>6, <2>1, <2>5, ClassAssumption DEF Enqueue, Carries, ClassTypes, ClassAssumption
  <2>6. ASSUME NEW s \in Student, script'[s] # script[s]
        PROVE  /\ \A q \in Client : Carries(q)' => request'[q].st # s
               /\ \A w \in Worker : Marks(w)' => worker'[w].st # s
    BY <1>r, <1>w, <2>3, <2>4, <2>5, <2>6 DEF HeldByOne
  <2> QED BY <1>t, <2>3, <2>4, <2>6, HeldStays
<1>7. ASSUME NEW r \in Client, Remove(r)
      PROVE  HeldByOne'
  <2>1. \A q \in Client : Carries(q)' => /\ Carries(q) /\ request'[q].st = request[q].st
                                         /\ request[r].st # None => request'[q].st # request[r].st
    BY <1>7, RemoveMoves DEF Carries
  <2>2. \A w \in Worker : Marks(w)' => /\ Marks(w) /\ worker'[w].st = worker[w].st
                                       /\ request[r].st # None => worker'[w].st # request[r].st
    BY <1>7, RemoveMoves DEF Marks, At
  <2>3. \A t \in Student : script'[t] # script[t] => request[r].st # None /\ t = request[r].st
    BY <1>7, RemoveMoves
  <2> QED BY <1>t, <2>1, <2>2, <2>3, HeldStays
<1>8. ASSUME NEW s \in Student, Retry(s) \/ Resolve(s)
       PROVE  HeldByOne'
  <2>1. UNCHANGED <<worker, request>> /\ script[s] \in {"failed", "needs_you"}
        /\ \A t \in Student : t # s => script'[t] = script[t]
    BY <1>8 DEF Retry, Resolve, Becomes, ClassTypes
  <2>2. /\ \A r \in Client : Carries(r)' => Carries(r) /\ request'[r].st = request[r].st /\ request[r].st # s
        /\ \A w \in Worker : Marks(w)' => Marks(w) /\ worker'[w].st = worker[w].st /\ worker[w].st # s
    BY <1>r, <1>w, <2>1 DEF Carries, Marks, At
  <2> QED BY <1>t, <2>1, <2>2, HeldStays
<1>9. ASSUME NEW w \in Worker, NEW s \in Student, ClaimMark(w, s)
       PROVE  HeldByOne'
  <2>1. /\ UNCHANGED request /\ script[s] = "queued" /\ script'[s] = "marking"
        /\ \A t \in Student : t # s => script'[t] = script[t]
        /\ worker'[w].pc = "marking" /\ worker'[w].st = s /\ \A v \in Worker : v # w => worker'[v] = worker[v]
    BY <1>9 DEF ClaimMark, Becomes, Turns, Idle, ClassTypes
  <2>2. \A r \in Client : Carries(r)' => /\ Carries(r) /\ request'[r].st = request[r].st
                                         /\ script'[request'[r].st] = "uploaded"
    BY <1>r, <2>1 DEF Carries
  <2>3. \A v \in Worker : Marks(v)' /\ v # w => /\ Marks(v) /\ worker'[v].st = worker[v].st /\ worker'[v].st # s
                                                /\ script'[worker'[v].st] = "marking"
    BY <1>w, <2>1 DEF Marks, At
  <2>4. \A u, v \in Worker : Marks(u)' /\ Marks(v)' /\ worker'[u].st = worker'[v].st => u = v
    BY <2>1, <2>3 DEF HeldByOne
  <2>5. \A q, r \in Client : Carries(q)' /\ Carries(r)' /\ request'[q].st = request'[r].st => q = r
    BY <2>2 DEF HeldByOne
  <2> QED BY <2>1, <2>2, <2>3, <2>4, <2>5 DEF HeldByOne
<1>10. ASSUME NEW w \in Worker, MarkEnds(w) \/ Crash(w)
       PROVE  HeldByOne'
  <2>1. /\ UNCHANGED request /\ worker'[w].pc # "marking" /\ \A v \in Worker : v # w => worker'[v] = worker[v]
        /\ \A t \in Student : script'[t] # script[t] => At(w, "marking") /\ t = worker[w].st /\ worker[w].st # None
    BY <1>10, ClassAssumption DEF MarkEnds, Crash, ClassAssumption, Becomes, Mishap, Turns, Goto, Idle, ClassTypes, Thread, At
  <2>2. \A v \in Worker : Marks(v)' => v # w /\ Marks(v) /\ worker'[v].st = worker[v].st
    BY <2>1 DEF Marks, At
  <2>3. \A r \in Client : Carries(r)' => Carries(r) /\ request'[r].st = request[r].st
    BY <2>1 DEF Carries
  <2>4. ASSUME NEW s \in Student, script'[s] # script[s]
        PROVE  /\ \A r \in Client : Carries(r)' => request'[r].st # s
               /\ \A v \in Worker : Marks(v)' => worker'[v].st # s
    <3>1. Marks(w) /\ worker[w].st = s /\ script[s] = "marking"
      BY <1>w, <2>1, <2>4 DEF Marks
    <3> QED BY <1>r, <2>2, <2>3, <3>1 DEF HeldByOne
  <2> QED BY <1>t, <2>2, <2>3, <2>4, HeldStays
<1> QED
  BY <1>1, <1>5, <1>2, <1>6, <1>7, <1>3, <1>8, <1>9, <1>10, <1>4 DEF ClassNext, OfTeacher, GoesOn

-----------------------------------------------------------------------------
(* A message for a drain *)

\* The requests that may re-arm and the threads that announce are numbers.
LEMMA CountsAreNumbers ==
    ASSUME MessagesCounted
    PROVE  Cardinality(Rearming) \in Nat /\ Cardinality(Announcing) \in Nat
BY FS_CardinalityType DEF MessagesCounted

\* No request and no thread more, and nothing is stamped, sent or handed in.
LEMMA MessagesStay ==
    ASSUME ClassTypes, MessagesCounted, Rearming' \subseteq Rearming, Announcing' \subseteq Announcing,
           UNCHANGED <<told, notified, handIns>>, NothingYet => NothingYet' \/ Cardinality(Rearming') > handIns
    PROVE  MessagesCounted'
<1>1. /\ IsFiniteSet(Rearming') /\ Cardinality(Rearming') <= Cardinality(Rearming)
      /\ IsFiniteSet(Announcing') /\ Cardinality(Announcing') <= Cardinality(Announcing)
  BY FS_Subset, FS_CardinalityType DEF MessagesCounted
<1>2. /\ Cardinality(Rearming') \in Nat /\ Cardinality(Announcing') \in Nat
      /\ Cardinality(Rearming) \in Nat /\ Cardinality(Announcing) \in Nat
  BY <1>1, CountsAreNumbers, FS_CardinalityType
<1>3. Len(told) \in Nat /\ Armed \in Nat /\ handIns \in Nat /\ Armed' = Armed
  BY DEF ClassTypes, Armed
<1>4. OnePerHandIn => OnePerHandIn'
  BY <1>1, <1>2, <1>3 DEF OnePerHandIn
<1>5. NothingYet => NothingYet'
  BY <1>1, <1>2, <1>3 DEF NothingYet
<1> QED BY <1>1, <1>4, <1>5 DEF MessagesCounted

\* Every step keeps the count: a hand-in comes with its message, and a claim, an announcement and

\* a re-arming pass it on.
LEMMA MessagesStep ==
    ASSUME ClassTypes, MessagesCounted, ClassNext
    PROVE  MessagesCounted'
<1>0. /\ Len(told) \in Nat /\ handIns \in Nat /\ Armed \in {0, 1} /\ Cardinality(Rearming) \in Nat
      /\ Cardinality(Announcing) \in Nat /\ IsFiniteSet(Rearming) /\ IsFiniteSet(Announcing)
  BY CountsAreNumbers DEF ClassTypes, Armed, MessagesCounted
<1>1. ASSUME NEW r \in Client, Insert(r), Forgets(r, [request[r] EXCEPT !.op = "rearm"]), handIns' = handIns + 1,
             Becomes(request[r].st, "uploaded")
      PROVE  MessagesCounted'
  <2>1. /\ request[r].op = "insert" /\ request[r].st \in Student /\ UNCHANGED <<told, notified, worker>>
        /\ request'[r].op = "rearm" /\ \A q \in Client : q # r => request'[q] = request[q]
    BY <1>1 DEF Insert, Forgets, ClassTypes, RequestsCarry, Request
  <2>2. Rearming' = Rearming \cup {r} /\ r \notin Rearming /\ Announcing' = Announcing
    BY <2>1 DEF Rearming, Announcing, At
  <2>3. IsFiniteSet(Rearming') /\ Cardinality(Rearming') = Cardinality(Rearming) + 1
    BY <1>0, <2>2, FS_AddElement
  <2>4. OnePerHandIn => OnePerHandIn'
    BY <1>0, <1>1, <2>1, <2>2, <2>3 DEF OnePerHandIn, Armed
  <2>5. NothingYet => NothingYet'
    <3>1. \A s \in Student : script[s] \in {"none", "uploaded"} => script'[s] \in {"none", "uploaded"}
      BY <1>1, <2>1 DEF Becomes, ClassTypes
    <3> QED BY <1>0, <1>1, <2>1, <2>3, <3>1 DEF NothingYet
  <2> QED BY <1>0, <2>2, <2>3, <2>4, <2>5 DEF MessagesCounted
<1>2. ASSUME NEW r \in Client, Rearm(r)
      PROVE  MessagesCounted'
  <2>1. /\ request[r].op = "rearm" /\ UNCHANGED <<told, worker, handIns>> /\ notified' \in {notified, FALSE}
        /\ request'[r].op = "enqueue" /\ \A q \in Client : q # r => request'[q] = request[q]
    BY <1>2 DEF Rearm, Forgets, ClassTypes, Request
  <2>2. Rearming' = Rearming \ {r} /\ r \in Rearming /\ Announcing' = Announcing
    BY <2>1 DEF Rearming, Announcing, At
  <2>3. IsFiniteSet(Rearming') /\ Cardinality(Rearming') = Cardinality(Rearming) - 1
    BY <1>0, <2>2, FS_RemoveElement
  <2>4. Armed' \in {Armed, 1}
    <3>1. CASE notified' = notified
      BY <3>1 DEF Armed
    <3>2. CASE notified' = FALSE
      BY <3>2 DEF Armed
    <3> QED BY <2>1, <3>1, <3>2
  <2>5. OnePerHandIn'
    <3>1. CASE OnePerHandIn
      BY <1>0, <2>1, <2>2, <2>3, <2>4, <3>1 DEF OnePerHandIn
    <3>2. CASE NothingYet
      <4>1. Len(told) = 0 /\ Armed = 1 /\ Cardinality(Rearming) <= handIns
        BY <3>2 DEF NothingYet, Armed
      <4>2. Announcing = {}
        BY <3>2 DEF NothingYet, Announcing, At
      <4>3. Cardinality(Announcing) = 0
        BY <4>2, FS_EmptySet
      <4> QED BY <1>0, <2>1, <2>2, <2>3, <2>4, <4>1, <4>3 DEF OnePerHandIn
    <3> QED BY <3>1, <3>2 DEF MessagesCounted
  <2> QED BY <1>0, <2>2, <2>3, <2>5 DEF MessagesCounted
<1>3. ASSUME NEW w \in Worker, ClaimDrain(w), notified' = TRUE, ~notified, Goto(w, "announcing")
      PROVE  MessagesCounted'
  <2>1. /\ At(w, "claiming") /\ UNCHANGED <<told, request, handIns>>
        /\ worker'[w].pc = "announcing" /\ \A v \in Worker : v # w => worker'[v] = worker[v]
    BY <1>3 DEF ClaimDrain, Goto, Turns, ClassTypes, Thread
  <2>2. Announcing' = Announcing \cup {w} /\ w \notin Announcing /\ Rearming' = Rearming
    BY <2>1 DEF Rearming, Announcing, At
  <2>3. IsFiniteSet(Announcing') /\ Cardinality(Announcing') = Cardinality(Announcing) + 1
    BY <1>0, <2>2, FS_AddElement
  <2>4. ~NothingYet
    BY <2>1 DEF NothingYet, At
  <2>5. OnePerHandIn'
    BY <1>0, <1>3, <2>1, <2>2, <2>3, <2>4 DEF OnePerHandIn, Armed, MessagesCounted
  <2> QED BY <1>0, <2>2, <2>3, <2>5 DEF MessagesCounted
<1>4. ASSUME NEW w \in Worker, Announce(w)
      PROVE  MessagesCounted'
  <2>1. /\ At(w, "announcing") /\ UNCHANGED <<notified, request, handIns>>
        /\ worker'[w].pc = "idle" /\ \A v \in Worker : v # w => worker'[v] = worker[v]
    BY <1>4 DEF Announce, Turns, Idle, ClassTypes
  <2>2. Len(told') = Len(told) + 1
    <3>1. worker[w].counts \in SUBSET Student
      BY DEF ClassTypes, Thread
    <3> QED BY <1>4, <3>1, AppendProperties DEF Announce, ClassTypes
  <2>3. Announcing' = Announcing \ {w} /\ w \in Announcing /\ Rearming' = Rearming
    BY <2>1 DEF Rearming, Announcing, At
  <2>4. IsFiniteSet(Announcing') /\ Cardinality(Announcing') = Cardinality(Announcing) - 1
    BY <1>0, <2>3, FS_RemoveElement
  <2>5. ~NothingYet
    BY <2>1 DEF NothingYet, At
  <2>6. OnePerHandIn'
    BY <1>0, <2>1, <2>2, <2>3, <2>4, <2>5 DEF OnePerHandIn, Armed, MessagesCounted
  <2> QED BY <1>0, <2>3, <2>4, <2>6 DEF MessagesCounted
<1>5. ASSUME NEW r \in Client, UNCHANGED <<told, notified, handIns, worker, script>>,
             request'[r].op \notin {"rearm", "enqueue"}, \A q \in Client : q # r => request'[q] = request[q]
      PROVE  MessagesCounted'
  <2>1. Rearming' \subseteq Rearming /\ Announcing' \subseteq Announcing
    BY <1>5 DEF Rearming, Announcing, At
  <2>2. NothingYet => NothingYet' \/ Cardinality(Rearming') > handIns
    <3>1. \A q \in Client : request[q].op # "enqueue" => request'[q].op # "enqueue"
      BY <1>5
    <3>2. Cardinality(Rearming') \in Nat
      BY <1>0, <2>1, FS_Subset, FS_CardinalityType
    <3> QED BY <1>0, <1>5, <3>1, <3>2 DEF NothingYet
  <2> QED BY <1>5, <2>1, <2>2, MessagesStay
<1>6. ASSUME UNCHANGED <<told, notified, handIns, request>>,
             \A v \in Worker : worker'[v].pc = "announcing" => worker[v].pc = "announcing",
             NothingYet => /\ UNCHANGED script
                           /\ \A v \in Worker : worker'[v].pc \in {"idle", "reporting", "writing"}
      PROVE  MessagesCounted'
  <2>1. Rearming' = Rearming /\ Announcing' \subseteq Announcing
    BY <1>6 DEF Rearming, Announcing, At
  <2>2. NothingYet => NothingYet'
    BY <1>6, <2>1 DEF NothingYet
  <2> QED BY <1>6, <2>1, <2>2, MessagesStay
<1>7. ASSUME NEW r \in Client, OfTeacher(r)
      PROVE  MessagesCounted'
  BY <1>5, <1>7, RequestsGoOn
<1>8. ASSUME NEW r \in Client, Insert(r)
      PROVE  MessagesCounted'
  <2>1. CASE Answered(r) /\ UNCHANGED <<script, handIns>>
    <3>1. UNCHANGED <<told, notified, worker>>
      BY <1>8 DEF Insert
    <3>2. request'[r].op = "idle" /\ \A q \in Client : q # r => request'[q] = request[q]
      BY <2>1 DEF Answered, Forgets, NoRequest, ClassTypes
    <3> QED BY <1>5, <2>1, <3>1, <3>2
  <2> QED BY <1>1, <1>8, <2>1 DEF Insert
<1>9. ASSUME NEW r \in Client, Enqueue(r)
      PROVE  MessagesCounted'
  <2>1. /\ UNCHANGED <<told, notified, handIns, worker>> /\ request[r].op = "enqueue" /\ ~NothingYet
        /\ request'[r].op = "idle" /\ \A q \in Client : q # r => request'[q] = request[q]
    BY <1>9 DEF Enqueue, Answered, Forgets, NoRequest, ClassTypes, NothingYet
  <2>2. Rearming' \subseteq Rearming /\ Announcing' \subseteq Announcing
    BY <2>1 DEF Rearming, Announcing, At
  <2> QED BY <2>1, <2>2, MessagesStay
<1>10. ASSUME NEW r \in Client, Remove(r)
       PROVE  MessagesCounted'
  <2>1. /\ UNCHANGED <<told, notified, handIns>>
        /\ \A q \in Client : request'[q].op \in {request[q].op, "idle"}
        /\ \A w \in Worker : worker'[w].pc = worker[w].pc
        /\ \A t \in Student : script'[t] \in {script[t], "none"}
    BY <1>10, RemoveMoves
  <2>2. Rearming' \subseteq Rearming /\ Announcing' \subseteq Announcing
    BY <2>1 DEF Rearming, Announcing, At
  <2>3. NothingYet => NothingYet' \/ Cardinality(Rearming') > handIns
    <3>1. Cardinality(Rearming') \in Nat
      BY <1>0, <2>2, FS_Subset, FS_CardinalityType
    <3> QED BY <1>0, <2>1, <3>1 DEF NothingYet
  <2> QED BY <2>1, <2>2, <2>3, MessagesStay
<1>11. ASSUME Regenerate \/ \E s \in Student : Retry(s) \/ Resolve(s)
       PROVE  MessagesCounted'
  BY <1>6, <1>11 DEF Regenerate, Retry, Resolve, Becomes, NothingYet
<1>12. ASSUME NEW w \in Worker, NEW s \in Student, ClaimMark(w, s)
       PROVE  MessagesCounted'
  BY <1>6, <1>12 DEF ClaimMark, Turns, Idle, ClassTypes, NothingYet
<1>13. ASSUME NEW w \in Worker, MarkEnds(w)
       PROVE  MessagesCounted'
  BY <1>6, <1>13 DEF MarkEnds, Goto, Turns, ClassTypes, Thread, NothingYet, At
<1>14. ASSUME NEW w \in Worker, CountDrain(w) \/ ReportDrain(w)
       PROVE  MessagesCounted'
  <2>1. UNCHANGED <<told, notified, handIns, request>> /\ worker[w].pc \in {"settled", "drained"}
    BY <1>14 DEF CountDrain, ReportDrain, tables, At
  <2>2. ~NothingYet
    BY <2>1 DEF NothingYet
  <2>3. worker'[w].pc # "announcing" /\ \A v \in Worker : v # w => worker'[v] = worker[v]
    <3>1. CASE CountDrain(w)
      <4>1. PICK t : Turns(w, t) /\ t \in {Idle, [Idle EXCEPT !.pc = "drained", !.counts = Settled]}
        BY <3>1 DEF CountDrain
      <4>2. /\ Settled \in SUBSET Student /\ Idle.pc = "idle"
            /\ \A S \in SUBSET Student : [Idle EXCEPT !.pc = "drained", !.counts = S].pc = "drained"
        BY DEF Settled, Idle
      <4>3. t.pc # "announcing"
        BY <4>1, <4>2
      <4> QED BY <4>1, <4>3 DEF Turns, ClassTypes
    <3>2. CASE ReportDrain(w)
      BY <3>2 DEF ReportDrain, Goto, Turns, ClassTypes, Thread
    <3> QED BY <1>14, <3>1, <3>2
  <2> QED BY <1>6, <2>1, <2>2, <2>3
<1>15. ASSUME NEW w \in Worker, ClaimDrain(w)
       PROVE  MessagesCounted'
  <2>1. CASE Turns(w, Idle) /\ UNCHANGED notified
    <3>1. UNCHANGED <<told, handIns, request>> /\ At(w, "claiming")
      BY <1>15 DEF ClaimDrain
    <3>2. ~NothingYet
      BY <3>1 DEF NothingYet, At
    <3>3. worker'[w].pc = "idle" /\ \A v \in Worker : v # w => worker'[v] = worker[v]
      BY <2>1 DEF Turns, Idle, ClassTypes
    <3> QED BY <1>6, <2>1, <3>1, <3>2, <3>3
  <2> QED BY <1>3, <1>15, <2>1 DEF ClaimDrain
<1>16. ASSUME NEW w \in Worker, ClaimInsights(w) \/ CountMarks(w) \/ WriteReport(w) \/ FailReport(w)
       PROVE  MessagesCounted'
  <2>1. UNCHANGED <<told, notified, handIns, request, script>>
    BY <1>16 DEF ClaimInsights, CountMarks, WriteReport, FailReport
  <2>2. Goto(w, "reporting") \/ Goto(w, "writing") \/ Turns(w, Idle)
    BY <1>16 DEF ClaimInsights, CountMarks, WriteReport, FailReport
  <2>3. worker'[w].pc \in {"reporting", "writing", "idle"} /\ \A v \in Worker : v # w => worker'[v] = worker[v]
    BY <2>2 DEF Goto, Turns, Idle, ClassTypes, Thread
  <2> QED BY <1>6, <2>1, <2>3 DEF NothingYet
<1>17. ASSUME NEW w \in Worker, Crash(w)
       PROVE  MessagesCounted'
  <2>1. UNCHANGED <<told, notified, handIns, request>> /\ (~At(w, "marking") => UNCHANGED script)
    BY <1>17 DEF Crash
  <2>2. worker'[w].pc = "idle" /\ \A v \in Worker : v # w => worker'[v] = worker[v]
    BY <1>17 DEF Crash, Turns, Idle, ClassTypes
  <2> QED BY <1>6, <2>1, <2>2 DEF NothingYet, At
<1> QED
  BY <1>2, <1>4, <1>7, <1>8, <1>9, <1>10, <1>11, <1>12, <1>13, <1>14, <1>15, <1>16, <1>17 DEF ClassNext, OfTeacher

-----------------------------------------------------------------------------
(* Nothing is lost without a mishap *)

\* Mishaps are never forgotten.
LEMMA MishapsStay ==
    ASSUME ClassTypes, ClassNext, mishaps' = 0
    PROVE  mishaps = 0
<1>1. mishaps' \in {mishaps, mishaps + 1}
  <2>1. \A r \in Client : OfTeacher(r) => mishaps' = mishaps
    BY RequestsGoOn
  <2>2. \A r \in Client : Insert(r) \/ Rearm(r) \/ Enqueue(r) \/ Remove(r) => mishaps' \in {mishaps, mishaps + 1}
    BY DEF Insert, Rearm, Enqueue, Remove, Mishap
  <2>3. Regenerate \/ (\E s \in Student : Retry(s) \/ Resolve(s)) => mishaps' = mishaps
    BY DEF Regenerate, Retry, Resolve
  <2>4. \A w \in Worker : (\E s \in Student : ClaimMark(w, s)) \/ MarkEnds(w) \/ Crash(w) => mishaps' \in {mishaps, mishaps + 1}
    BY DEF ClaimMark, MarkEnds, Crash, Mishap
  <2>5. \A w \in Worker : GoesOn(w) => mishaps' \in {mishaps, mishaps + 1}
    BY DEF GoesOn, CountDrain, ReportDrain, ClaimDrain, Announce, ClaimInsights, CountMarks, WriteReport, FailReport, Mishap
  <2> QED BY <2>1, <2>2, <2>3, <2>4, <2>5 DEF ClassNext, OfTeacher, GoesOn
<1> QED BY <1>1 DEF ClassTypes

\* Without a mishap no hand-in, and no script that is marked, loses its submission.
LEMMA NothingLostStep ==
    ASSUME ClassTypes, HeldByOne, NothingLost, ClassNext, mishaps' = mishaps
    PROVE  NothingLost'
<1>m. mishaps \in Nat
  BY DEF ClassTypes
<1>n. None \notin Student
  BY ClassAssumption DEF ClassAssumption
<1>1. ASSUME NEW r \in Client, OfTeacher(r)
      PROVE  NothingLost'
  <2>1. /\ UNCHANGED worker /\ request'[r].op \notin {"rearm", "enqueue"}
        /\ \A q \in Client : q # r => request'[q] = request[q]
    BY <1>1, RequestsGoOn
  <2> QED BY <2>1 DEF NothingLost
<1>2. ASSUME NEW r \in Client, Insert(r) \/ Rearm(r) \/ Enqueue(r)
      PROVE  NothingLost'
  <2>1. UNCHANGED worker /\ request[r].op \in {"insert", "rearm", "enqueue"}
    BY <1>2 DEF Insert, Rearm, Enqueue
  <2>2. request[r].st # None
    BY <1>n, <2>1 DEF NothingLost, ClassTypes, RequestsCarry
  <2>3. PICK q : Forgets(r, q) /\ (q = NoRequest \/ \E op \in {"rearm", "enqueue"} : q = [request[r] EXCEPT !.op = op])
    BY <1>2 DEF Insert, Rearm, Enqueue, Answered
  <2>4. q.op \in {"rearm", "enqueue"} => q.st # None
    BY <2>2, <2>3 DEF NoRequest, ClassTypes, Request
  <2>5. request'[r] = q /\ \A p \in Client : p # r => request'[p] = request[p]
    BY <2>3 DEF Forgets, ClassTypes
  <2> QED BY <2>1, <2>4, <2>5 DEF NothingLost
<1>3. ASSUME NEW r \in Client, Remove(r)
      PROVE  NothingLost'
  <2> DEFINE s == request[r].st
  <2>1. CASE s = None
    BY <1>3, <2>1, RemoveMoves DEF NothingLost
  <2>2. CASE s # None
    <3>1. s \notin InFlight /\ (\A w \in Worker : worker[w].st # s) /\ s \in Student
      BY <1>3, <2>2, RemoveMoves DEF ClassTypes, Request
    <3>2. \A q \in Client : request[q].op \in {"rearm", "enqueue"} => request[q].st # s
      BY <2>2, <3>1 DEF HeldByOne, Carries, InFlight
    <3>3. /\ \A w \in Worker : worker'[w].pc = worker[w].pc /\ worker'[w].st = worker[w].st
          /\ \A q \in Client : request'[q].op \in {"rearm", "enqueue"} =>
                request[q].op \in {"rearm", "enqueue"} /\ request'[q].st = request[q].st
      BY <1>3, <3>1, <3>2, RemoveMoves
    <3> QED BY <3>3 DEF NothingLost
  <2> QED BY <2>1, <2>2
<1>4. ASSUME Regenerate \/ \E s \in Student : Retry(s) \/ Resolve(s)
      PROVE  NothingLost'
  BY <1>4 DEF Regenerate, Retry, Resolve, NothingLost
<1>5. ASSUME NEW w \in Worker, NEW s \in Student, ClaimMark(w, s)
      PROVE  NothingLost'
  <2>1. UNCHANGED request /\ worker'[w].st = s /\ \A v \in Worker : v # w => worker'[v] = worker[v]
    BY <1>5 DEF ClaimMark, Turns, Idle, ClassTypes
  <2> QED BY <1>n, <2>1 DEF NothingLost
<1>6. ASSUME NEW w \in Worker, MarkEnds(w)
      PROVE  NothingLost'
  <2>1. UNCHANGED request /\ worker[w].pc = "marking"
    BY <1>6 DEF MarkEnds, At
  <2>2. worker'[w].st = worker[w].st /\ \A v \in Worker : v # w => worker'[v] = worker[v]
    BY <1>6, ThreadGoes DEF MarkEnds
  <2> QED BY <2>1, <2>2 DEF NothingLost
<1>7. ASSUME NEW w \in Worker, GoesOn(w)
      PROVE  NothingLost'
  BY <1>7, ThreadsGoOn DEF NothingLost
<1>8. ASSUME NEW w \in Worker, Crash(w)
      PROVE  FALSE
  BY <1>8, <1>m DEF Crash, Mishap
<1> QED BY <1>1, <1>2, <1>3, <1>4, <1>5, <1>6, <1>7, <1>8 DEF ClassNext, OfTeacher, GoesOn

-----------------------------------------------------------------------------
(* A drain is counted and reported *)

\* A deleted assignment does not come back, a script gets its marks from a thread that then counts,

\* and what would be counted still will be, or has been.
LEMMA ProgressStep ==
    ASSUME ClassTypes, NothingLost, ClassNext, mishaps' = mishaps
    PROVE  /\ Exists' => Exists
           /\ Marked' # {} => Marked # {} \/ ToBeCounted'
           /\ ToBeCounted /\ Exists' /\ Marked' # {} => ToBeCounted' \/ \E w \in Worker : At(w, "drained")'
<1> DEFINE Progress == /\ Exists' => Exists
                       /\ Marked' # {} => Marked # {} \/ ToBeCounted'
                       /\ ToBeCounted /\ Exists' /\ Marked' # {} => ToBeCounted' \/ \E w \in Worker : At(w, "drained")'
<1>m. mishaps \in Nat
  BY DEF ClassTypes
<1>1. ASSUME UNCHANGED <<ca, script>>, \A w \in Worker : worker[w].pc = "settled" => worker'[w].pc = "settled"
      PROVE  Progress
  BY <1>1 DEF Exists, Marked, InFlight, ToBeCounted, At
<1>2. ASSUME NEW s \in Student, UNCHANGED ca, script'[s] \in {"uploaded", "queued", "marking"}
      PROVE  Progress
  <2>1. s \in InFlight'
    BY <1>2 DEF InFlight
  <2> QED BY <1>2, <2>1 DEF Exists, ToBeCounted
<1>3. ASSUME NEW r \in Client, OfTeacher(r)
      PROVE  Progress
  <2>1. UNCHANGED <<script, worker>>
    BY <1>3, RequestsGoOn
  <2>2. Exists' => Exists
    BY <1>3 DEF OfTeacher, Exists, tables, HandInCheck, RemoveCheck, UpdateCheck, Update, DeleteCheck, Delete,
                ReleaseCheck, Release, ReportRelease
  <2> QED BY <2>1, <2>2 DEF Marked, InFlight, ToBeCounted, At
<1>4. ASSUME NEW r \in Client, Insert(r)
      PROVE  Progress
  <2>1. UNCHANGED <<ca, worker>> /\ request[r].st \in Student
    BY <1>4 DEF Insert, ClassTypes, RequestsCarry
  <2>2. UNCHANGED script \/ script'[request[r].st] = "uploaded"
    BY <1>4, <2>1 DEF Insert, Becomes, ClassTypes
  <2> QED BY <1>1, <1>2, <2>1, <2>2
<1>5. ASSUME NEW r \in Client, Rearm(r)
      PROVE  Progress
  BY <1>1, <1>5 DEF Rearm
<1>6. ASSUME NEW r \in Client, Enqueue(r)
      PROVE  Progress
  <2>1. UNCHANGED <<ca, worker>> /\ request[r].st \in Student \cup {None}
    BY <1>6 DEF Enqueue, ClassTypes, Request
  <2>2. UNCHANGED script \/ (request[r].st \in Student /\ script'[request[r].st] = "queued")
    BY <1>6, <2>1 DEF Enqueue, ClassTypes
  <2> QED BY <1>1, <1>2, <2>1, <2>2
<1>7. ASSUME NEW r \in Client, Remove(r)
      PROVE  Progress
  <2>1. UNCHANGED ca /\ \A w \in Worker : worker'[w].pc = worker[w].pc
    BY <1>7, RemoveMoves
  <2>2. \A t \in Student : t \in InFlight => script'[t] = script[t]
    BY <1>7, RemoveMoves
  <2>3. \A t \in Student : script'[t] \in {"none", script[t]}
    BY <1>7, RemoveMoves
  <2>4. InFlight \subseteq InFlight' /\ Marked' \subseteq Marked
    BY <2>2, <2>3 DEF InFlight, Marked
  <2> QED BY <2>1, <2>4 DEF Exists, ToBeCounted, At
<1>8. ASSUME Regenerate
      PROVE  Progress
  BY <1>1, <1>8 DEF Regenerate
<1>9. ASSUME NEW s \in Student, Retry(s)
      PROVE  Progress
  <2>1. UNCHANGED ca /\ script'[s] = "queued"
    BY <1>9 DEF Retry, Becomes, ClassTypes
  <2> QED BY <1>2, <2>1
<1>10. ASSUME NEW s \in Student, Resolve(s)
       PROVE  Progress
  <2>1. /\ UNCHANGED <<ca, worker>> /\ script[s] = "needs_you"
        /\ \A t \in Student : t # s => script'[t] = script[t]
    BY <1>10 DEF Resolve, Becomes, ClassTypes
  <2>2. Marked # {} /\ InFlight \subseteq InFlight'
    BY <2>1 DEF Marked, InFlight
  <2> QED BY <2>1, <2>2 DEF Exists, ToBeCounted, At
<1>11. ASSUME NEW w \in Worker, NEW s \in Student, ClaimMark(w, s)
       PROVE  Progress
  <2>1. UNCHANGED ca /\ script'[s] = "marking"
    BY <1>11 DEF ClaimMark, Becomes, ClassTypes
  <2> QED BY <1>2, <2>1
<1>12. ASSUME NEW w \in Worker, MarkEnds(w)
       PROVE  Progress
  <2>1. UNCHANGED ca /\ worker'[w].pc = "settled"
    BY <1>12 DEF MarkEnds, Goto, Turns, ClassTypes, Thread
  <2> QED BY <2>1 DEF Exists, ToBeCounted, At
<1>13. ASSUME NEW w \in Worker, GoesOn(w), ~CountDrain(w)
       PROVE  Progress
  <2>1. UNCHANGED <<ca, script>> /\ \A v \in Worker : v # w => worker'[v] = worker[v]
    BY <1>13, ThreadsGoOn
  <2>2. worker[w].pc # "settled"
    BY <1>13 DEF GoesOn, ReportDrain, ClaimDrain, Announce, ClaimInsights, CountMarks, WriteReport, FailReport, At
  <2> QED BY <1>1, <2>1, <2>2
<1>14. ASSUME NEW w \in Worker, CountDrain(w)
       PROVE  Progress
  <2>1. UNCHANGED <<ca, script>>
    BY <1>14, ThreadsGoOn DEF GoesOn
  <2>2. worker[w].st # None
    BY <1>14 DEF CountDrain, NothingLost, At
  <2>3. CASE Turns(w, [Idle EXCEPT !.pc = "drained", !.counts = Settled])
    <3>1. worker'[w].pc = "drained"
      BY <2>3 DEF Turns, Idle, ClassTypes
    <3> QED BY <2>1, <3>1 DEF Exists, Marked, At
  <2>4. CASE ~Exists \/ InFlight # {} \/ Marked = {}
    BY <2>1, <2>4 DEF Exists, Marked, InFlight, ToBeCounted
  <2> QED BY <1>14, <1>m, <2>2, <2>3, <2>4 DEF CountDrain, Mishap
<1>15. ASSUME NEW w \in Worker, Crash(w)
       PROVE  FALSE
  BY <1>15, <1>m DEF Crash, Mishap
<1> QED
  BY <1>3, <1>4, <1>5, <1>6, <1>7, <1>8, <1>9, <1>10, <1>11, <1>12, <1>13, <1>14, <1>15
     DEF ClassNext, OfTeacher, GoesOn

\* What there is of a report, or is about to be, there still is in the next state.
LEMMA ReportedStep ==
    ASSUME ClassTypes, Reported, Exists', ClassNext, mishaps' = mishaps
    PROVE  Reported'
<1>m. mishaps \in Nat
  BY DEF ClassTypes
<1>1. ASSUME UNCHANGED report, insights # "none" => insights' # "none",
             \A w \in Worker : worker[w].pc = "drained" => worker'[w].pc = "drained" \/ insights' # "none"
      PROVE  Reported'
  BY <1>1 DEF Reported, At
<1>2. ASSUME NEW r \in Client, OfTeacher(r)
      PROVE  Reported'
  <2>1. UNCHANGED worker
    BY <1>2, RequestsGoOn
  <2>2. UNCHANGED report /\ (insights # "none" => insights' # "none")
    BY <1>2 DEF OfTeacher, tables, HandInCheck, RemoveCheck, UpdateCheck, Update, DeleteCheck, Delete, ReleaseCheck,
                Release, ReportRelease, EnqueueInsights, Exists
  <2> QED BY <1>1, <2>1, <2>2
<1>3. ASSUME NEW r \in Client, Insert(r) \/ Rearm(r) \/ Enqueue(r)
      PROVE  Reported'
  BY <1>1, <1>3 DEF Insert, Rearm, Enqueue
<1>4. ASSUME NEW r \in Client, Remove(r)
      PROVE  Reported'
  BY <1>1, <1>4, RemoveMoves
<1>5. ASSUME Regenerate \/ \E s \in Student : Retry(s) \/ Resolve(s)
      PROVE  Reported'
  BY <1>1, <1>5 DEF Regenerate, EnqueueInsights, Retry, Resolve
<1>6. ASSUME NEW w \in Worker, (\E s \in Student : ClaimMark(w, s)) \/ MarkEnds(w)
      PROVE  Reported'
  <2>1. UNCHANGED <<report, insights>> /\ worker[w].pc \in {"idle", "marking"}
    BY <1>6 DEF ClaimMark, MarkEnds, At
  <2>2. \A v \in Worker : v # w => worker'[v] = worker[v]
    BY <1>6 DEF ClaimMark, MarkEnds, Goto, Turns, ClassTypes
  <2> QED BY <1>1, <2>1, <2>2
<1>7. ASSUME NEW w \in Worker, GoesOn(w)
      PROVE  Reported'
  <2>1. \A v \in Worker : v # w => worker'[v] = worker[v]
    BY <1>7, ThreadsGoOn
  <2>2. CASE CountDrain(w) \/ ClaimDrain(w) \/ Announce(w)
    <3>1. UNCHANGED <<report, insights>> /\ worker[w].pc \in {"settled", "claiming", "announcing"}
      BY <2>2 DEF CountDrain, tables, ClaimDrain, Announce, At
    <3> QED BY <1>1, <2>1, <3>1
  <2>3. CASE ReportDrain(w)
    <3>1. insights' # "none"
      BY <2>3 DEF ReportDrain, EnqueueInsights
    <3> QED BY <3>1 DEF Reported
  <2>4. CASE ClaimInsights(w)
    BY <2>4 DEF ClaimInsights, Reported
  <2>5. CASE CountMarks(w)
    <3>1. CASE UNCHANGED <<report, insights>>
      BY <1>1, <2>1, <2>5, <3>1 DEF CountMarks, At
    <3>2. CASE report' = IF Exists THEN [report EXCEPT !.error = TRUE] ELSE report
      <4>1. report'.error = TRUE
        BY <2>5, <3>2 DEF CountMarks, Exists, ClassTypes, ReportRow
      <4> QED BY <4>1 DEF Reported
    <3> QED BY <2>5, <3>1, <3>2 DEF CountMarks
  <2>6. CASE WriteReport(w)
    <3>1. report'.stored = TRUE
      BY <2>6 DEF WriteReport, Exists
    <3> QED BY <3>1 DEF Reported
  <2>7. CASE FailReport(w)
    BY <1>m, <2>7 DEF FailReport, Mishap
  <2> QED BY <1>7, <2>2, <2>3, <2>4, <2>5, <2>6, <2>7 DEF GoesOn
<1>8. ASSUME NEW w \in Worker, Crash(w)
      PROVE  FALSE
  BY <1>8, <1>m DEF Crash, Mishap
<1> QED BY <1>2, <1>3, <1>4, <1>5, <1>6, <1>7, <1>8 DEF ClassNext, OfTeacher, GoesOn

\* Every step keeps what makes a drain end with a report.
LEMMA SmoothStep ==
    ASSUME ClassTypes, HeldByOne, Smooth, ClassNext
    PROVE  Smooth'
<1> SUFFICES ASSUME mishaps' = 0
             PROVE  NothingLost' /\ ReportSeen'
  BY DEF Smooth
<1>1. mishaps = 0 /\ mishaps' = mishaps /\ NothingLost /\ ReportSeen
  BY MishapsStay DEF Smooth
<1>2. NothingLost'
  BY <1>1, NothingLostStep
<1>3. ASSUME Exists', Marked' # {}
      PROVE  ToBeCounted' \/ Reported'
  <2>1. Exists /\ (Marked # {} \/ ToBeCounted')
    BY <1>1, <1>3, ProgressStep
  <2>2. Reported => Reported'
    BY <1>1, <1>3, ReportedStep
  <2>3. ToBeCounted => ToBeCounted' \/ Reported'
    BY <1>1, <1>3, ProgressStep DEF Reported
  <2> QED BY <1>1, <2>1, <2>2, <2>3 DEF ReportSeen
<1> QED BY <1>2, <1>3 DEF ReportSeen

\* No script is handed in anew, no hand-in stops waiting, and no thread counts anew: what counted

\* all still does.
LEMMA CountsStay ==
    ASSUME ClassTypes, DrainSeen, HandedIn' \subseteq HandedIn, UNCHANGED <<told, notified>>,
           \A s \in HandedIn' : Awaited(s) => Awaited(s)',
           \A w \in Worker : /\ Counting(w)' => Counting(w) /\ worker'[w].counts = worker[w].counts
                             /\ At(w, "announcing") => At(w, "announcing")'
    PROVE  /\ \A w \in Worker : Counting(w)' => CountsAll(worker[w].counts)'
           /\ notified' => Announcing' # {} \/ (told # <<>> /\ CountsAll(told[Len(told)]))'
<1>1. ASSUME NEW S, CountsAll(S), NEW s \in HandedIn'
      PROVE  s \in S \/ Awaited(s)'
  BY <1>1 DEF CountsAll
<1>2. \A w \in Worker : Counting(w)' => CountsAll(worker[w].counts)'
  BY <1>1 DEF DrainSeen, CountsAll
<1>3. ASSUME notified'
      PROVE  Announcing' # {} \/ (told # <<>> /\ CountsAll(told[Len(told)]))'
  BY <1>1, <1>3 DEF DrainSeen, Announcing, CountsAll
<1> QED BY <1>2, <1>3

\* Every step keeps the announcements whole: what a thread counted, and what was announced, holds

\* all but hand-ins that have yet to re-arm.
LEMMA CountedStep ==
    ASSUME PromptClaims, ClassTypes, HeldByOne, NothingLost, DrainSeen, ClassNext, mishaps' = mishaps
    PROVE  /\ \A w \in Worker : Counting(w)' => CountsAll(worker[w].counts)'
           /\ notified' => Announcing' # {} \/ (told # <<>> /\ CountsAll(told[Len(told)]))'
<1> DEFINE Counted == /\ \A w \in Worker : Counting(w)' => CountsAll(worker[w].counts)'
                      /\ notified' => Announcing' # {} \/ (told # <<>> /\ CountsAll(told[Len(told)]))'
<1>m. mishaps \in Nat
  BY DEF ClassTypes
<1>1. ASSUME UNCHANGED <<told, notified, request>>, HandedIn' \subseteq HandedIn,
             \A w \in Worker : /\ Counting(w)' => Counting(w) /\ worker'[w].counts = worker[w].counts
                               /\ At(w, "announcing") => At(w, "announcing")'
      PROVE  Counted
  <2>1. \A s \in HandedIn' : Awaited(s) => Awaited(s)'
    BY <1>1 DEF Awaited
  <2> QED BY <1>1, <2>1, CountsStay
<1>2. ASSUME NEW r \in Client, UNCHANGED <<told, notified, worker, script>>, request[r].op # "rearm",
             \A q \in Client : q # r => request'[q] = request[q]
      PROVE  Counted
  <2>1. HandedIn' = HandedIn /\ \A s \in HandedIn' : Awaited(s) => Awaited(s)'
    BY <1>2 DEF HandedIn, Awaited
  <2>2. \A w \in Worker : /\ Counting(w)' => Counting(w) /\ worker'[w].counts = worker[w].counts
                          /\ At(w, "announcing") => At(w, "announcing")'
    BY <1>2 DEF Counting, At
  <2> QED BY <1>2, <2>1, <2>2, CountsStay
<1>3. ASSUME NEW r \in Client, OfTeacher(r)
      PROVE  Counted
  BY <1>2, <1>3, RequestsGoOn
<1>4. ASSUME NEW r \in Client, Insert(r)
      PROVE  Counted
  <2>0. PICK s \in Student : s = request[r].st
    BY <1>4 DEF Insert, ClassTypes, RequestsCarry
  <2>1. UNCHANGED <<told, notified, worker>> /\ request[r].op = "insert"
    BY <1>4 DEF Insert, ClassTypes, RequestsCarry
  <2>2. \A q \in Client : q # r => request'[q] = request[q]
    BY <1>4 DEF Insert, Answered, Forgets, ClassTypes
  <2>3. CASE UNCHANGED script
    BY <1>2, <2>1, <2>2, <2>3
  <2>4. CASE Becomes(s, "uploaded") /\ Forgets(r, [request[r] EXCEPT !.op = "rearm"])
    <3>1. request'[r].op = "rearm" /\ request'[r].st = s
      BY <2>0, <2>4 DEF Forgets, ClassTypes, Request
    <3>2. HandedIn' \subseteq HandedIn \cup {s}
      BY <2>1, <2>4 DEF HandedIn, Becomes, ClassTypes
    <3>3. Awaited(s)' /\ \A t : Awaited(t) => Awaited(t)'
      BY <2>1, <2>2, <3>1 DEF Awaited
    <3>4. \A S : CountsAll(S) => CountsAll(S)'
      <4>1. ASSUME NEW S, CountsAll(S), NEW t \in HandedIn'
            PROVE  t \in S \/ Awaited(t)'
        <5>1. CASE t = s
          BY <3>3, <5>1
        <5>2. CASE t \in HandedIn
          BY <3>3, <4>1, <5>2 DEF CountsAll
        <5> QED BY <3>2, <5>1, <5>2
      <4> QED BY <4>1 DEF CountsAll
    <3>5. \A w \in Worker : Counting(w)' => CountsAll(worker[w].counts)'
      BY <2>1, <3>4 DEF DrainSeen, Counting, At
    <3>6. notified' => Announcing' # {} \/ (told # <<>> /\ CountsAll(told[Len(told)]))'
      BY <2>1, <3>4 DEF DrainSeen, Announcing, At
    <3> QED BY <3>5, <3>6
  <2> QED BY <1>4, <2>0, <2>3, <2>4 DEF Insert
<1>5. ASSUME NEW r \in Client, Rearm(r)
      PROVE  Counted
  <2>1. notified' = FALSE /\ UNCHANGED worker /\ \A w \in Worker : ~Counting(w)
    BY <1>5, <1>m DEF Rearm, Mishap
  <2> QED BY <2>1 DEF Counting, At
<1>6. ASSUME NEW r \in Client, Enqueue(r)
      PROVE  Counted
  <2> DEFINE s == request[r].st
  <2>1. /\ UNCHANGED <<told, notified, worker>> /\ request[r].op = "enqueue" /\ s \in Student
        /\ \A q \in Client : q # r => request'[q] = request[q]
    BY <1>6 DEF Enqueue, Answered, Forgets, ClassTypes, Request, NothingLost
  <2>2. script[s] = "uploaded" /\ \A t \in Student : t # s => script'[t] = script[t]
    BY <1>6, <2>1, ClassAssumption DEF ClassAssumption, Enqueue, HeldByOne, Carries, ClassTypes
  <2>3. HandedIn' \subseteq HandedIn /\ \A t \in HandedIn' : Awaited(t) => Awaited(t)'
    BY <2>1, <2>2 DEF HandedIn, Awaited
  <2>4. \A w \in Worker : /\ Counting(w)' => Counting(w) /\ worker'[w].counts = worker[w].counts
                          /\ At(w, "announcing") => At(w, "announcing")'
    BY <2>1 DEF Counting, At
  <2> QED BY <2>1, <2>3, <2>4, CountsStay
<1>7. ASSUME NEW r \in Client, Remove(r)
      PROVE  Counted
  <2>1. /\ UNCHANGED <<told, notified>>
        /\ \A w \in Worker : worker'[w].pc = worker[w].pc /\ worker'[w].counts = worker[w].counts
    BY <1>7, RemoveMoves
  <2>2. \A w \in Worker : /\ Counting(w)' => Counting(w) /\ worker'[w].counts = worker[w].counts
                          /\ At(w, "announcing") => At(w, "announcing")'
    BY <2>1 DEF Counting, At
  <2>3. HandedIn' \subseteq HandedIn
    BY <1>7, RemoveMoves DEF HandedIn
  <2>4. ASSUME NEW t \in HandedIn', Awaited(t)
        PROVE  Awaited(t)'
    <3>1. PICK q \in Client : request[q].op = "rearm" /\ request[q].st = t
      BY <2>4 DEF Awaited
    <3>2. script'[t] # "none" /\ t \in Student /\ q # r
      BY <1>7, <3>1, RemoveMoves DEF HandedIn
    <3>3. request'[q].op = "rearm" /\ request'[q].st = t
      BY <1>7, <3>1, <3>2, RemoveMoves
    <3> QED BY <3>3 DEF Awaited
  <2> QED BY <2>1, <2>2, <2>3, <2>4, CountsStay
<1>8. ASSUME Regenerate \/ \E s \in Student : Retry(s) \/ Resolve(s)
      PROVE  Counted
  <2>1. UNCHANGED <<told, notified, request, worker>>
    BY <1>8 DEF Regenerate, Retry, Resolve
  <2>2. HandedIn' \subseteq HandedIn
    BY <1>8 DEF Regenerate, Retry, Resolve, Becomes, HandedIn, ClassTypes
  <2> QED BY <1>1, <2>1, <2>2 DEF Counting, At
<1>9. ASSUME NEW w \in Worker, (\E s \in Student : ClaimMark(w, s)) \/ MarkEnds(w)
      PROVE  Counted
  <2>1. UNCHANGED <<told, notified, request>> /\ worker[w].pc \in {"idle", "marking"}
    BY <1>9 DEF ClaimMark, MarkEnds, At
  <2>2. worker'[w].pc \in {"marking", "settled"} /\ \A v \in Worker : v # w => worker'[v] = worker[v]
    BY <1>9 DEF ClaimMark, MarkEnds, Goto, Turns, Idle, ClassTypes, Thread
  <2>3. HandedIn' \subseteq HandedIn
    <3>1. CASE \E s \in Student : ClaimMark(w, s)
      BY <3>1 DEF ClaimMark, Becomes, HandedIn, ClassTypes
    <3>2. CASE MarkEnds(w)
      <4>1. UNCHANGED script \/ \E status : script' = [script EXCEPT ![worker[w].st] = status]
        BY <3>2 DEF MarkEnds, Becomes
      <4>2. Marks(w) => script[worker[w].st] # "none"
        BY DEF HeldByOne
      <4>3. Marks(w)
        BY <3>2 DEF MarkEnds, Marks, NothingLost, At
      <4> QED BY <4>1, <4>2, <4>3 DEF HandedIn, ClassTypes
    <3> QED BY <1>9, <3>1, <3>2
  <2> QED BY <1>1, <2>1, <2>2, <2>3 DEF Counting, At
<1>10. ASSUME NEW w \in Worker, CountDrain(w)
       PROVE  Counted
  <2>1. /\ UNCHANGED <<told, notified, request, script>> /\ worker[w].pc = "settled"
        /\ \A v \in Worker : v # w => worker'[v] = worker[v]
    BY <1>10, ThreadsGoOn DEF GoesOn, CountDrain, tables, At
  <2>2. CASE Turns(w, Idle)
    <3>1. worker'[w].pc = "idle"
      BY <2>2 DEF Turns, Idle, ClassTypes
    <3>2. HandedIn' = HandedIn
      BY <2>1 DEF HandedIn
    <3> QED BY <1>1, <2>1, <3>1, <3>2 DEF Counting, At
  <2>3. CASE InFlight = {} /\ Turns(w, [Idle EXCEPT !.pc = "drained", !.counts = Settled])
    <3>1. worker'[w].pc = "drained" /\ worker'[w].counts = Settled
      BY <2>3 DEF Turns, Idle, ClassTypes
    <3>2. HandedIn' = HandedIn /\ HandedIn \subseteq Settled
      BY <2>1, <2>3 DEF HandedIn, InFlight, Settled, ClassTypes, ScriptStatus
    <3>3. CountsAll(Settled)'
      <4>1. Settled' = Settled
        BY <2>1 DEF Settled
      <4> QED BY <3>2, <4>1 DEF CountsAll
    <3>4. \A S : CountsAll(S) => CountsAll(S)'
      BY <2>1 DEF CountsAll, HandedIn, Awaited
    <3>5. \A v \in Worker : v # w /\ Counting(v)' => CountsAll(worker[v].counts)'
      BY <2>1, <3>4 DEF DrainSeen, Counting, At
    <3>6. Announcing' = Announcing
      BY <2>1, <3>1 DEF Announcing, At
    <3>7. CountsAll(worker[w].counts)'
      <4>1. Settled' = Settled
        BY <2>1 DEF Settled
      <4> QED BY <3>1, <3>3, <4>1
    <3>8. notified' => Announcing' # {} \/ (told # <<>> /\ CountsAll(told[Len(told)]))'
      BY <2>1, <3>4, <3>6 DEF DrainSeen
    <3> QED BY <3>5, <3>7, <3>8
  <2> QED BY <1>10, <1>m, <2>2, <2>3 DEF CountDrain, Mishap
<1>11. ASSUME NEW w \in Worker, ReportDrain(w)
       PROVE  Counted
  <2>1. UNCHANGED <<told, notified, request, script>> /\ worker[w].pc = "drained"
    BY <1>11 DEF ReportDrain, At
  <2>2. /\ worker'[w].pc = "claiming" /\ worker'[w].counts = worker[w].counts
        /\ \A v \in Worker : v # w => worker'[v] = worker[v]
    BY <1>11 DEF ReportDrain, Goto, Turns, ClassTypes, Thread
  <2>3. HandedIn' = HandedIn
    BY <2>1 DEF HandedIn
  <2> QED BY <1>1, <2>1, <2>2, <2>3 DEF Counting, At
<1>12. ASSUME NEW w \in Worker, ClaimDrain(w)
       PROVE  Counted
  <2>1. /\ UNCHANGED <<told, request, script>> /\ worker[w].pc = "claiming"
        /\ \A v \in Worker : v # w => worker'[v] = worker[v]
    BY <1>12, ThreadsGoOn DEF GoesOn, ClaimDrain, At
  <2>2. HandedIn' = HandedIn
    BY <2>1 DEF HandedIn
  <2>3. CASE UNCHANGED notified /\ Turns(w, Idle)
    <3>1. worker'[w].pc = "idle"
      BY <2>3 DEF Turns, Idle, ClassTypes
    <3> QED BY <1>1, <2>1, <2>2, <2>3, <3>1 DEF Counting, At
  <2>4. CASE Goto(w, "announcing")
    <3>1. worker'[w].pc = "announcing" /\ worker'[w].counts = worker[w].counts
      BY <2>4 DEF Goto, Turns, ClassTypes, Thread
    <3>2. \A S : CountsAll(S) => CountsAll(S)'
      BY <2>1 DEF CountsAll, HandedIn, Awaited
    <3>3. \A v \in Worker : Counting(v)' => CountsAll(worker[v].counts)'
      BY <2>1, <3>1, <3>2 DEF DrainSeen, Counting, At
    <3>4. w \in Announcing'
      BY <3>1 DEF Announcing, At
    <3> QED BY <3>3, <3>4
  <2> QED BY <1>12, <2>3, <2>4 DEF ClaimDrain
<1>13. ASSUME NEW w \in Worker, Announce(w)
       PROVE  Counted
  <2>1. /\ UNCHANGED <<request, script>> /\ worker[w].pc = "announcing" /\ told' = Append(told, worker[w].counts)
        /\ worker'[w].pc = "idle" /\ \A v \in Worker : v # w => worker'[v] = worker[v]
    BY <1>13 DEF Announce, Turns, Idle, ClassTypes, At
  <2>2. \A S : CountsAll(S) => CountsAll(S)'
    BY <2>1 DEF CountsAll, HandedIn, Awaited
  <2>3. \A v \in Worker : Counting(v)' => CountsAll(worker[v].counts)'
    BY <2>1, <2>2 DEF DrainSeen, Counting, At
  <2>4. told' # <<>> /\ told'[Len(told')] = worker[w].counts
    <3>1. worker[w].counts \in SUBSET Student
      BY DEF ClassTypes, Thread
    <3> QED BY <2>1, <3>1, AppendProperties DEF ClassTypes
  <2>5. CountsAll(worker[w].counts)
    BY <2>1 DEF DrainSeen, Counting, At
  <2>6. (told # <<>> /\ CountsAll(told[Len(told)]))'
    BY <2>2, <2>4, <2>5
  <2> QED BY <2>3, <2>6
<1>14. ASSUME NEW w \in Worker, ClaimInsights(w) \/ CountMarks(w) \/ WriteReport(w) \/ FailReport(w)
       PROVE  Counted
  <2>1. UNCHANGED <<told, notified, request, script>> /\ worker[w].pc \in {"idle", "reporting", "writing"}
    BY <1>14 DEF ClaimInsights, CountMarks, WriteReport, FailReport, At
  <2>2. worker'[w].pc \in {"idle", "reporting", "writing"} /\ \A v \in Worker : v # w => worker'[v] = worker[v]
    <3>1. Goto(w, "reporting") \/ Goto(w, "writing") \/ Turns(w, Idle)
      BY <1>14 DEF ClaimInsights, CountMarks, WriteReport, FailReport
    <3> QED BY <3>1 DEF Goto, Turns, Idle, ClassTypes, Thread
  <2>3. HandedIn' = HandedIn
    BY <2>1 DEF HandedIn
  <2> QED BY <1>1, <2>1, <2>2, <2>3 DEF Counting, At
<1>15. ASSUME NEW w \in Worker, Crash(w)
       PROVE  FALSE
  BY <1>15, <1>m DEF Crash, Mishap
<1> QED
  BY <1>3, <1>4, <1>5, <1>6, <1>7, <1>8, <1>9, <1>10, <1>11, <1>12, <1>13, <1>14, <1>15
     DEF ClassNext, OfTeacher

\* Every step keeps what makes a drain end with a message.
LEMMA SeenStep ==
    ASSUME PromptClaims, ClassTypes, HeldByOne, Smooth, Seen, ClassNext
    PROVE  Seen'
<1> SUFFICES ASSUME mishaps' = 0
             PROVE  DrainSeen'
  BY DEF Seen
<1>1. mishaps = 0 /\ mishaps' = mishaps /\ NothingLost /\ DrainSeen
  BY MishapsStay DEF Seen, Smooth
<1>2. /\ \A w \in Worker : Counting(w)' => CountsAll(worker[w].counts)'
      /\ notified' => Announcing' # {} \/ (told # <<>> /\ CountsAll(told[Len(told)]))'
  BY <1>1, CountedStep
<1> DEFINE Claims == \E w \in Worker : worker[w].pc \in {"drained", "claiming"}
<1>3. ASSUME Exists', Marked' # {}, ~notified'
      PROVE  ToBeCounted' \/ Claims'
  <2>1. ASSUME ~notified, \A w \in Worker : worker[w].pc \in {"drained", "claiming"} =>
                                              worker'[w].pc \in {"drained", "claiming"}
        PROVE  ToBeCounted' \/ Claims'
    <3>1. Exists /\ (Marked # {} \/ ToBeCounted')
      BY <1>1, <1>3, ProgressStep
    <3>2. ToBeCounted => ToBeCounted' \/ Claims'
      BY <1>1, <1>3, ProgressStep DEF At
    <3>3. Claims => Claims'
      BY <2>1
    <3> QED BY <1>1, <2>1, <3>1, <3>2, <3>3 DEF DrainSeen
  <2>2. ASSUME NEW r \in Client, Rearm(r)
        PROVE  ToBeCounted'
    <3>1. /\ request[r].op = "rearm" /\ request[r].st # None /\ request[r].st \in Student /\ UNCHANGED script
      BY <1>1, <2>2 DEF Rearm, NothingLost, ClassTypes, Request
    <3>2. request[r].st \in InFlight'
      BY <3>1 DEF HeldByOne, Carries, InFlight
    <3> QED BY <3>2 DEF ToBeCounted
  <2>3. ASSUME NEW r \in Client, OfTeacher(r)
        PROVE  ToBeCounted' \/ Claims'
    BY <1>3, <2>1, <2>3, RequestsGoOn
  <2>4. ASSUME NEW r \in Client, Insert(r) \/ Enqueue(r)
        PROVE  ToBeCounted' \/ Claims'
    BY <1>3, <2>1, <2>4 DEF Insert, Enqueue
  <2>5. ASSUME NEW r \in Client, Remove(r)
        PROVE  ToBeCounted' \/ Claims'
    BY <1>3, <2>1, <2>5, RemoveMoves
  <2>6. ASSUME Regenerate \/ \E s \in Student : Retry(s) \/ Resolve(s)
        PROVE  ToBeCounted' \/ Claims'
    BY <1>3, <2>1, <2>6 DEF Regenerate, Retry, Resolve
  <2>7. ASSUME NEW w \in Worker, (\E s \in Student : ClaimMark(w, s)) \/ MarkEnds(w)
        PROVE  ToBeCounted' \/ Claims'
    <3>1. UNCHANGED notified /\ worker[w].pc \in {"idle", "marking"}
      BY <2>7 DEF ClaimMark, MarkEnds, At
    <3>2. \A v \in Worker : v # w => worker'[v] = worker[v]
      BY <2>7 DEF ClaimMark, MarkEnds, Goto, Turns, ClassTypes
    <3> QED BY <1>3, <2>1, <3>1, <3>2
  <2>8. ASSUME NEW w \in Worker, GoesOn(w), ~ClaimDrain(w)
        PROVE  ToBeCounted' \/ Claims'
    <3>1. UNCHANGED notified /\ \A v \in Worker : v # w => worker'[v] = worker[v]
      BY <2>8, ThreadsGoOn DEF GoesOn, CountDrain, tables, ReportDrain, Announce, ClaimInsights, CountMarks, WriteReport,
                               FailReport
    <3>2. worker[w].pc \in {"drained", "claiming"} => worker'[w].pc = "claiming"
      BY <2>8 DEF GoesOn, CountDrain, ReportDrain, Announce, ClaimInsights, CountMarks, WriteReport, FailReport, At,
                  Goto, Turns, ClassTypes, Thread
    <3> QED BY <1>3, <2>1, <3>1, <3>2
  <2>9. ASSUME NEW w \in Worker, ClaimDrain(w)
        PROVE  FALSE
    <3>1. Exists
      BY <1>1, <1>3, ProgressStep
    <3> QED BY <1>3, <2>9, <3>1 DEF ClaimDrain
  <2>10. ASSUME NEW w \in Worker, Crash(w)
         PROVE  FALSE
    <3>1. mishaps \in Nat
      BY DEF ClassTypes
    <3> QED BY <1>1, <2>10, <3>1 DEF Crash, Mishap
  <2> QED BY <2>2, <2>3, <2>4, <2>5, <2>6, <2>7, <2>8, <2>9, <2>10 DEF ClassNext, OfTeacher, GoesOn
<1> QED BY <1>2, <1>3 DEF DrainSeen

-----------------------------------------------------------------------------
(* One request of the teacher at a time *)

\* No request of the teacher is left but this one, which is not about to write a status that does

\* not fit.
LEMMA OneAsks ==
    ASSUME NEW r \in Client, \A q \in Client : q # r => ~Asks(q)',
           request'[r].op = "update" => (request'[r].to = "released" <=> ca' = "released")
    PROVE  OneRequest'
<1>1. ASSUME NEW q \in Client, request'[q].op = "update"
      PROVE  q = r
  <2>1. Asks(q)'
    BY <1>1 DEF Asks
  <2> QED BY <2>1
<1> QED BY <1>1 DEF OneRequest

\* Every step keeps it, when the teacher waits for each answer.
LEMMA OneRequestStep ==
    ASSUME SerialTeacher, ClassTypes, OneRequest, ClassNext
    PROVE  OneRequest'
<1>1. ASSUME UNCHANGED ca, \A q \in Client : Asks(q)' => Asks(q) /\ request'[q] = request[q]
      PROVE  OneRequest'
  <2>1. \A q \in Client : request'[q].op = "update" => Asks(q)'
    BY DEF Asks
  <2> QED BY <1>1, <2>1 DEF OneRequest, Exists
<1>2. ASSUME NEW r \in Client, NEW q, Forgets(r, q), \A p \in Client : p # r => ~Asks(p),
             q.op = "update" => (q.to = "released" <=> ca' = "released")
      PROVE  OneRequest'
  <2>1. request'[r] = q /\ \A p \in Client : p # r => request'[p] = request[p]
    BY <1>2 DEF Forgets, ClassTypes
  <2> QED BY <1>2, <2>1, OneAsks DEF Asks
<1>3. ASSUME NEW r \in Client, NEW op, Teacher(r, op)
      PROVE  \A p \in Client : ~Asks(p)
  BY <1>3 DEF Teacher, Asks
<1>4. ASSUME NEW r \in Client, Asks(r)
      PROVE  \A p \in Client : p # r => ~Asks(p)
  BY <1>4 DEF OneRequest
<1>5. ASSUME NEW r \in Client, NEW s \in Student, HandInCheck(r, s)
      PROVE  OneRequest'
  <2>1. UNCHANGED ca /\ Forgets(r, [op |-> "insert", st |-> s, to |-> None])
    BY <1>5 DEF HandInCheck, tables
  <2>2. ~Asks(r)' /\ \A p \in Client : p # r => request'[p] = request[p]
    BY <2>1 DEF Forgets, Asks, ClassTypes
  <2> QED BY <1>1, <2>1, <2>2 DEF Asks
<1>6. ASSUME NEW r \in Client, NEW s \in Student, RemoveCheck(r, s)
      PROVE  OneRequest'
  BY <1>2, <1>3, <1>6 DEF RemoveCheck
<1>7. ASSUME NEW r \in Client, NEW to \in CaStatus, UpdateCheck(r, to)
      PROVE  OneRequest'
  BY <1>2, <1>3, <1>7 DEF UpdateCheck, tables
<1>8. ASSUME NEW r \in Client, DeleteCheck(r) \/ ReleaseCheck(r)
      PROVE  OneRequest'
  <2>1. \E op \in {"delete", "release"} : Forgets(r, [NoRequest EXCEPT !.op = op]) /\ Teacher(r, op)
    BY <1>8 DEF DeleteCheck, ReleaseCheck
  <2>2. \A op : [NoRequest EXCEPT !.op = op].op = op
    BY DEF NoRequest
  <2> QED BY <1>2, <1>3, <2>1, <2>2
<1>9. ASSUME NEW r \in Client, Update(r) \/ Delete(r) \/ Release(r) \/ ReportRelease(r)
      PROVE  OneRequest'
  <2>1. Asks(r)
    BY <1>9 DEF Update, Delete, Release, ReportRelease, Asks
  <2>2. Forgets(r, NoRequest) \/ Forgets(r, [NoRequest EXCEPT !.op = "insights"])
    BY <1>9 DEF Update, Delete, Release, ReportRelease, Answered
  <2>3. NoRequest.op = "idle" /\ [NoRequest EXCEPT !.op = "insights"].op = "insights"
    BY DEF NoRequest
  <2> QED BY <1>2, <1>4, <2>1, <2>2, <2>3
<1>10. ASSUME NEW r \in Client, Remove(r)
       PROVE  OneRequest'
  <2>1. Asks(r) /\ request'[r].op = "idle" /\ \A q \in Client : q # r => request'[q].op = request[q].op
    BY <1>10, RemoveMoves DEF Asks
  <2>2. \A q \in Client : q # r => ~Asks(q)'
    BY <1>4, <2>1 DEF Asks
  <2> QED BY <2>1, <2>2, OneAsks
<1>11. ASSUME NEW r \in Client, Insert(r) \/ Rearm(r) \/ Enqueue(r)
       PROVE  OneRequest'
  <2>1. /\ UNCHANGED ca /\ request'[r].op \in {"idle", "rearm", "enqueue"}
        /\ \A q \in Client : q # r => request'[q] = request[q]
    BY <1>11 DEF Insert, Rearm, Enqueue, Answered, Forgets, NoRequest, ClassTypes, Request
  <2> QED BY <1>1, <2>1 DEF Asks
<1>12. ASSUME UNCHANGED <<ca, request>>
       PROVE  OneRequest'
  BY <1>1, <1>12 DEF Asks
<1>13. ASSUME Regenerate \/ \E s \in Student : Retry(s) \/ Resolve(s)
       PROVE  OneRequest'
  BY <1>12, <1>13 DEF Regenerate, Retry, Resolve
<1>14. ASSUME NEW w \in Worker, (\E s \in Student : ClaimMark(w, s)) \/ MarkEnds(w) \/ Crash(w)
       PROVE  OneRequest'
  BY <1>12, <1>14 DEF ClaimMark, MarkEnds, Crash
<1>15. ASSUME NEW w \in Worker, GoesOn(w)
       PROVE  OneRequest'
  BY <1>12, <1>15, ThreadsGoOn
<1> QED
  BY <1>5, <1>6, <1>7, <1>8, <1>9, <1>10, <1>11, <1>13, <1>14, <1>15 DEF ClassNext, GoesOn

\* A released assignment stays released until it is deleted, and a finished script finished until

\* it is removed.
LEMMA FeedbackStep ==
    ASSUME ClassTypes, HeldByOne, OneRequest, ClassNext, NEW s \in Student, ca = "released", script[s] = "done"
    PROVE  ca' \in {"released", "deleted"} /\ script'[s] \in {"done", "none"}
<1>1. ca' \in {"released", "deleted"}
  <2>1. ASSUME NEW r \in Client, Update(r)
        PROVE  ca' = "released"
    BY <2>1 DEF Update, OneRequest, Exists
  <2>2. ASSUME NEW r \in Client, OfTeacher(r), ~Update(r)
        PROVE  ca' \in {"released", "deleted"}
    BY <2>2 DEF OfTeacher, tables, HandInCheck, RemoveCheck, UpdateCheck, DeleteCheck, Delete, ReleaseCheck, Release,
                ReportRelease
  <2>3. ASSUME NEW r \in Client, Insert(r) \/ Rearm(r) \/ Enqueue(r) \/ Remove(r)
        PROVE  ca' = ca
    BY <2>3 DEF Insert, Rearm, Enqueue, Remove
  <2>4. Regenerate \/ (\E t \in Student : Retry(t) \/ Resolve(t)) => ca' = ca
    BY DEF Regenerate, Retry, Resolve
  <2>5. ASSUME NEW w \in Worker, GoesOn(w) \/ (\E t \in Student : ClaimMark(w, t)) \/ MarkEnds(w) \/ Crash(w)
        PROVE  ca' = ca
    BY <2>5, ThreadsGoOn DEF ClaimMark, MarkEnds, Crash
  <2> QED BY <2>1, <2>2, <2>3, <2>4, <2>5 DEF ClassNext, OfTeacher, GoesOn
<1>2. script'[s] \in {"done", "none"}
  <2>1. ASSUME NEW r \in Client, OfTeacher(r)
        PROVE  script'[s] = "done"
    BY <2>1, RequestsGoOn
  <2>2. ASSUME NEW r \in Client, Insert(r) \/ Rearm(r)
        PROVE  script'[s] = "done"
    BY <2>2 DEF Insert, Rearm, Becomes, ClassTypes
  <2>3. ASSUME NEW r \in Client, Enqueue(r)
        PROVE  script'[s] = "done"
    <3>1. request[r].st # None => script[request[r].st] = "uploaded"
      BY <2>3 DEF Enqueue, HeldByOne, Carries
    <3> QED BY <2>3, <3>1 DEF Enqueue, ClassTypes
  <2>4. ASSUME NEW r \in Client, Remove(r)
        PROVE  script'[s] \in {"done", "none"}
    BY <2>4, RemoveMoves
  <2>5. Regenerate \/ (\E t \in Student : Retry(t) \/ Resolve(t)) => script'[s] = "done"
    BY DEF Regenerate, Retry, Resolve, Becomes, ClassTypes
  <2>6. ASSUME NEW w \in Worker, GoesOn(w) \/ \E t \in Student : ClaimMark(w, t)
        PROVE  script'[s] = "done"
    BY <2>6, ThreadsGoOn DEF ClaimMark, Becomes, ClassTypes
  <2>7. ASSUME NEW w \in Worker, MarkEnds(w) \/ Crash(w)
        PROVE  script'[s] = "done"
    <3>1. At(w, "marking") /\ worker[w].st # None => script[worker[w].st] = "marking"
      BY DEF HeldByOne, Marks
    <3> QED BY <2>7, <3>1 DEF MarkEnds, Crash, Becomes, ClassTypes
  <2> QED BY <2>1, <2>2, <2>3, <2>4, <2>5, <2>6, <2>7 DEF ClassNext, OfTeacher, GoesOn
<1> QED BY <1>1, <1>2

-----------------------------------------------------------------------------
(* Theorems *)

\* The types, what is held, and the count of messages, and a history without mishaps.
ClassInv == ClassTypes /\ HeldByOne /\ MessagesCounted /\ Smooth

\* Nothing has been handed in at the start.
LEMMA ClassStarts ==
    ASSUME ClassInit
    PROVE  ClassInv /\ Seen /\ OneRequest
<1>1. ClassTypes
  <2>1. script \in [Student -> ScriptStatus] /\ report \in ReportRow /\ told \in Seq(SUBSET Student)
    BY DEF ClassInit, ScriptStatus, ReportRow, NoReport
  <2>2. worker \in [Worker -> Thread] /\ request \in [Client -> Request]
    BY IdleFits DEF ClassInit
  <2>3. RequestsCarry
    BY IdleFits DEF ClassInit, RequestsCarry
  <2>4. handIns \in 0 .. MaxHandIns /\ mishaps \in 0 .. MaxMishaps
    BY ClassAssumption DEF ClassInit, ClassAssumption
  <2> QED BY <2>1, <2>2, <2>3, <2>4 DEF ClassInit, ClassTypes, CaStatus
<1>2. HeldByOne /\ OneRequest
  BY DEF ClassInit, HeldByOne, OneRequest, Carries, Marks, Asks, At, Idle, NoRequest
<1>3. MessagesCounted
  <2>1. Rearming = {} /\ Announcing = {}
    BY DEF ClassInit, Rearming, Announcing, At, Idle, NoRequest
  <2>2. IsFiniteSet({}) /\ Cardinality({}) = 0
    BY FS_EmptySet
  <2>3. NothingYet
    BY <2>1, <2>2 DEF ClassInit, NothingYet, Idle, NoRequest
  <2> QED BY <2>1, <2>2, <2>3 DEF MessagesCounted
<1>4. Marked = {}
  BY DEF ClassInit, Marked
<1>5. NothingLost /\ ReportSeen /\ DrainSeen
  BY <1>4 DEF ClassInit, NothingLost, ReportSeen, DrainSeen, Counting, At, Idle, NoRequest
<1> QED BY <1>1, <1>2, <1>3, <1>5 DEF ClassInv, Smooth, Seen

\* Every step keeps the invariant.
LEMMA ClassInvStep ==
    ASSUME ClassInv, [ClassNext]_classVars
    PROVE  ClassInv'
<1>1. CASE ClassNext
  BY <1>1, TypesStep, HeldStep, MessagesStep, SmoothStep DEF ClassInv
<1>2. CASE UNCHANGED classVars
  <2>1. UNCHANGED <<ca, notified, script, report, insights, told, worker, request, handIns, mishaps>>
    BY <1>2 DEF classVars, tables
  <2>2. ClassTypes'
    BY <2>1 DEF ClassInv, ClassTypes, RequestsCarry
  <2>3. HeldByOne'
    BY <2>1 DEF ClassInv, HeldByOne, Carries, Marks, At
  <2>4. MessagesCounted'
    BY <2>1 DEF ClassInv, MessagesCounted, Rearming, Announcing, OnePerHandIn, NothingYet, Armed, At
  <2>5. Smooth'
    BY <2>1 DEF ClassInv, Smooth, NothingLost, ReportSeen, Reported, ToBeCounted, Exists, Marked, InFlight, At
  <2> QED BY <2>2, <2>3, <2>4, <2>5 DEF ClassInv
<1> QED BY <1>1, <1>2

\* The messages are never more than the hand-ins.
LEMMA MessagesAreFew ==
    ASSUME ClassInv
    PROVE  MessagePerDrain /\ Len(told) <= handIns
<1>1. /\ Len(told) \in Nat /\ handIns \in Nat /\ Armed \in {0, 1} /\ Cardinality(Rearming) \in Nat
      /\ Cardinality(Announcing) \in Nat
  BY CountsAreNumbers DEF ClassInv, ClassTypes, Armed
<1>2. CASE OnePerHandIn
  BY <1>1, <1>2 DEF OnePerHandIn, MessagePerDrain, Announcing
<1>3. CASE NothingYet
  <2>1. Announcing = {} /\ Len(told) = 0
    BY <1>3 DEF NothingYet, Announcing, At
  <2>2. Cardinality(Announcing) = 0
    BY <2>1, FS_EmptySet
  <2> QED BY <1>1, <2>1, <2>2 DEF MessagePerDrain, Announcing
<1> QED BY <1>2, <1>3 DEF ClassInv, MessagesCounted

\* Type correctness, for any number of students, requests and worker threads; there are never
\* more messages than hand-ins.
THEOREM ClassTypesHold == ClassSpec => []ClassTypeOK
<1>1. ClassInit => ClassInv
  BY ClassStarts
<1>2. ClassInv /\ [ClassNext]_classVars => ClassInv'
  BY ClassInvStep
<1>3. ClassInv => ClassTypeOK
  <2> SUFFICES ASSUME ClassInv
               PROVE  ClassTypeOK
    OBVIOUS
  <2>1. Len(told) \in 0 .. MaxHandIns /\ told \in [1 .. Len(told) -> SUBSET Student]
    BY MessagesAreFew, ClassAssumption DEF ClassAssumption, ClassInv, ClassTypes
  <2> QED BY <2>1 DEF ClassInv, ClassTypes, ClassTypeOK
<1> QED BY <1>1, <1>2, <1>3, PTL DEF ClassSpec

\* A drain is announced once and whole: never more messages than hand-ins, however many threads
\* settle the last scripts and however often one is retried (notify.py, on_mark_settled); and when
\* all is quiet the newest message counts every script with marks, unless a crash, an error or a
\* removal cut a drain off.  PromptClaims: no hand-in re-arms between a count and its message.
THEOREM DrainsAreToldOnce ==
    ASSUME PromptClaims
    PROVE  ClassSpec => []OncePerDrain
<1>1. ClassInit => ClassInv /\ Seen
  BY ClassStarts
<1>2. ClassInv /\ Seen /\ [ClassNext]_classVars => (ClassInv /\ Seen)'
  <2> SUFFICES ASSUME ClassInv, Seen, [ClassNext]_classVars
               PROVE  Seen'
    BY ClassInvStep
  <2>1. CASE ClassNext
    BY <2>1, SeenStep DEF ClassInv
  <2>2. CASE UNCHANGED classVars
    <3>1. UNCHANGED <<ca, notified, script, told, worker, request, mishaps>>
      BY <2>2 DEF classVars, tables
    <3> QED BY <3>1 DEF Seen, DrainSeen, Counting, CountsAll, Awaited, HandedIn, Announcing, ToBeCounted, Exists,
                        Marked, InFlight, At
  <2> QED BY <2>1, <2>2
<1>3. ClassInv /\ Seen => OncePerDrain
  <2> SUFFICES ASSUME ClassInv, Seen
               PROVE  EveryHandInIsTold
    BY MessagesAreFew DEF OncePerDrain
  <2>1. ASSUME Quiet, Exists, Marked # {}, mishaps = 0
        PROVE  told # <<>> /\ Marked \subseteq told[Len(told)]
    <3>1. DrainSeen
      BY <2>1 DEF Seen
    <3>2. InFlight = {} /\ (\A w \in Worker : worker[w].pc = "idle") /\ \A r \in Client : request[r].op = "idle"
      BY <2>1 DEF Quiet, Free, At
    <3>3. Announcing = {} /\ ~ToBeCounted /\ \A s : ~Awaited(s)
      BY <3>2 DEF Announcing, ToBeCounted, Awaited, At
    <3>4. notified
      BY <2>1, <3>1, <3>2, <3>3 DEF DrainSeen
    <3>5. told # <<>> /\ CountsAll(told[Len(told)])
      BY <3>1, <3>3, <3>4 DEF DrainSeen
    <3>6. Marked \subseteq HandedIn
      BY DEF Marked, HandedIn
    <3> QED BY <3>3, <3>5, <3>6 DEF CountsAll
  <2> QED BY <2>1 DEF EveryHandInIsTold
<1> QED BY <1>1, <1>2, <1>3, PTL DEF ClassSpec

\* When all is quiet and something has marks, the class has a report or the error that kept it from
\* having one (insights_job.py), unless a crash, an error or a removal cut a drain off; a hand-in
\* that re-arms at any moment does not prevent it.
THEOREM DrainsAreReported == ClassSpec => []DrainHasReport
<1>1. ClassInit => ClassInv
  BY ClassStarts
<1>2. ClassInv /\ [ClassNext]_classVars => ClassInv'
  BY ClassInvStep
<1>3. ClassInv => DrainHasReport
  <2> SUFFICES ASSUME ClassInv, Quiet, Exists, Marked # {}, mishaps = 0
               PROVE  report.stored \/ report.error
    BY DEF DrainHasReport
  <2>1. ReportSeen
    BY DEF ClassInv, Smooth
  <2>2. InFlight = {} /\ insights = "none" /\ \A w \in Worker : worker[w].pc = "idle"
    BY DEF Quiet, At
  <2> QED BY <2>1, <2>2 DEF ReportSeen, Reported, ToBeCounted, At
<1> QED BY <1>1, <1>2, <1>3, PTL DEF ClassSpec

\* Feedback that a student can see stays: no update takes a release back, and no late job, request
\* or retry reopens a finished script (class_assignments.py); only a removal takes it away.
\* SerialTeacher: the teacher waits for each answer before the next request.
THEOREM ReleasedStaysReleased ==
    ASSUME SerialTeacher
    PROVE  ClassSpec => FeedbackStays
<1>1. ClassInit => ClassInv /\ OneRequest
  BY ClassStarts
<1>2. ClassInv /\ OneRequest /\ [ClassNext]_classVars => (ClassInv /\ OneRequest)'
  <2> SUFFICES ASSUME ClassInv, OneRequest, [ClassNext]_classVars
               PROVE  OneRequest'
    BY ClassInvStep
  <2>1. CASE ClassNext
    BY <2>1, OneRequestStep DEF ClassInv
  <2>2. CASE UNCHANGED classVars
    BY <2>2 DEF classVars, tables, OneRequest, Asks, Exists
  <2> QED BY <2>1, <2>2
<1>3. ClassInv /\ OneRequest /\ [ClassNext]_classVars =>
        [\A s \in Student : ca = "released" /\ script[s] = "done"
                               => \/ ca' \in {"released", "deleted"} /\ script'[s] = "done"
                                  \/ script'[s] = "none"]_classVars
  BY FeedbackStep DEF ClassInv
<1> QED BY <1>1, <1>2, <1>3, PTL DEF ClassSpec, FeedbackStays
=============================================================================
