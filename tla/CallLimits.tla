----------------------------- MODULE CallLimits -----------------------------
(***************************************************************************)
(* How many model calls a worker makes of one provider in a minute         *)
(* (providers/ratelimit.py): one sliding window per provider, shared by    *)
(* the jobs the worker runs one after the other, thrown away when the      *)
(* provider's limit is another one at the start of a job.                  *)
(*                                                                         *)
(* Time is kept as ages: a Tick makes every stamp older, and no age grows  *)
(* past Window, from which on they are all alike to the code.  What each   *)
(* provider saw, calls and ends of windows in their order, is a history.   *)
(*                                                                         *)
(* A call is what one acquire() lets through: one step of a marking.  That *)
(* instructor asks a model again within that step, and the provider's      *)
(* client retries, happens behind the window and is not counted.           *)
(***************************************************************************)
EXTENDS Integers, Sequences, SequencesExt, FiniteSetsExt

CONSTANTS
    Provider,
    Limits,        \* what rpm_limit may be of a provider, 0 for no limit
    Window,        \* 60 s, in ticks
    MaxCalls,      \* bound: calls within Window of a provider without a limit
    MaxReplaced    \* bound: windows of one provider thrown away within Window

CallAssumption == Limits \subseteq Nat /\ Window \in Nat \ {0} /\ MaxCalls \in Nat /\ MaxReplaced \in Nat

VARIABLES
    rpm,        \* the limit a job on each provider is given
    pool,       \* the worker's window of each provider: {} or one [rpm, stamps]
    job,        \* the job that runs: its provider, where it is, how long it still sleeps
    log         \* history: what came to each provider within Window, oldest first: calls, and ends of
                \* windows that a new limit or a restart threw away

callVars == <<rpm, pool, job, log>>

NoJob == [at |-> "none"]

CallInit ==
    /\ rpm \in [Provider -> Limits]
    /\ pool = [p \in Provider |-> {}]
    /\ job = NoJob
    /\ log = [p \in Provider |-> <<>>]

Bucket(p) == CHOOSE b \in pool[p] : TRUE
New(limit) == [rpm |-> limit, stamps |-> <<>>]

Entry(what, b) == [what |-> what, rpm |-> b.rpm, age |-> 0]
Of(p, what)    == {i \in DOMAIN log[p] : log[p][i].what = what}
ThrownAway(p)  == IF pool[p] = {} THEN log[p] ELSE Append(log[p], Entry("end", Bucket(p)))

\* BucketPool.get, with the settings as the job loads them.
NewEachJob(p) == TRUE  \* mutant: a window for each job
Outdated(p) == \A b \in pool[p] : b.rpm # rpm[p]
Start(p) ==
    /\ job = NoJob
    /\ job' = [at |-> "asks", provider |-> p]
    /\ \/ ~Outdated(p) /\ UNCHANGED <<pool, log>>
       \/ /\ Outdated(p) /\ Cardinality(Of(p, "end")) < MaxReplaced
          /\ pool' = [pool EXCEPT ![p] = {New(rpm[p])}]
          /\ log' = [log EXCEPT ![p] = ThrownAway(p)]
    /\ UNCHANGED rpm

\* A list from the first of these places on.
FromFirst(s, places) == IF places = {} THEN <<>> ELSE SubSeq(s, Min(places), Len(s))

\* Stamps that have left the window go from the front of the queue.
NeverLeft(age) == FALSE  \* mutant
Expired(age) == age >= Window
Current(stamps) == FromFirst(stamps, {i \in DOMAIN stamps : ~Expired(stamps[i])})

HasRoomForOneMore(b, now) == Len(now) <= b.rpm  \* mutant
HasRoom(b, now) == Len(now) < b.rpm

Called(p, b) ==
    /\ pool' = [pool EXCEPT ![p] = {b}]
    /\ log' = [log EXCEPT ![p] = Append(@, Entry("call", b))]
    /\ job' = [job EXCEPT !.at = "calls"]

\* TokenBucket.acquire, up to the call or to the next sleep.
Acquire ==
    /\ job.at = "asks"
    /\ LET p == job.provider
           b == Bucket(p)
           now == Current(b.stamps)
       IN  \/ /\ b.rpm <= 0 /\ Cardinality(Of(p, "call")) < MaxCalls
              /\ Called(p, b)
           \/ /\ b.rpm > 0 /\ HasRoom(b, now)
              /\ Called(p, [b EXCEPT !.stamps = Append(now, 0)])
           \/ /\ b.rpm > 0 /\ ~HasRoom(b, now)
              /\ pool' = [pool EXCEPT ![p] = {[b EXCEPT !.stamps = now]}]
              /\ job' = [at |-> "sleeps", provider |-> p, left |-> Window - Head(now)]
              /\ UNCHANGED log
    /\ UNCHANGED rpm

\* The sleep is over, at its time or later.
Wakes ==
    /\ job.at = "sleeps" /\ job.left = 0
    /\ job' = [at |-> "asks", provider |-> job.provider]
    /\ UNCHANGED <<rpm, pool, log>>

\* The model has answered: the job calls it again, or ends.
Answers ==
    /\ job.at = "calls"
    /\ job' \in {NoJob, [job EXCEPT !.at = "asks"]}
    /\ UNCHANGED <<rpm, pool, log>>

\* Settings are saved, or the global provider changes: a provider's limit is another one.
SetLimit(p, limit) ==
    /\ limit # rpm[p]
    /\ rpm' = [rpm EXCEPT ![p] = limit]
    /\ UNCHANGED <<pool, job, log>>

\* The worker process starts again with an empty pool.
Restart ==
    /\ \A p \in Provider : Cardinality(Of(p, "end")) + Cardinality(pool[p]) <= MaxReplaced
    /\ \E p \in Provider : pool[p] # {}
    /\ job' = NoJob /\ pool' = [p \in Provider |-> {}]
    /\ log' = [p \in Provider |-> ThrownAway(p)]
    /\ UNCHANGED rpm

Older(age) == IF age < Window THEN age + 1 ELSE Window
Recent(s) == FromFirst([i \in DOMAIN s |-> [s[i] EXCEPT !.age = @ + 1]], {i \in DOMAIN s : s[i].age + 1 < Window})

Tick ==
    /\ job' = IF job.at = "sleeps" /\ job.left > 0 THEN [job EXCEPT !.left = @ - 1] ELSE job
    /\ pool' = [p \in Provider |-> {[b EXCEPT !.stamps = [i \in DOMAIN @ |-> Older(@[i])]] : b \in pool[p]}]
    /\ log' = [p \in Provider |-> Recent(log[p])]
    /\ UNCHANGED rpm

CallNext ==
    \/ \E p \in Provider : Start(p)
    \/ Acquire
    \/ Wakes
    \/ Answers
    \/ \E p \in Provider, limit \in Limits : SetLimit(p, limit)
    \/ Restart
    \/ Tick

\* Time passes, a sleeper that may wake does, and a job that asks gets its turn: the worker is one thread.
CallFairness == WF_callVars(Tick) /\ WF_callVars(Wakes) /\ WF_callVars(Acquire)
CallSpec == CallInit /\ [][CallNext]_callVars /\ CallFairness

----------------------------------------------------------------------------
(* Properties. *)

\* Every variable keeps its type: a window never holds more stamps than its limit, the job that runs was
\* given a window, and the history is in its order and of one Window.
CallTypeOK ==
    /\ rpm \in [Provider -> Limits]
    /\ \A p \in Provider : \A a, b \in pool[p] : a = b
    /\ \A p \in Provider : \A b \in pool[p] : b.rpm \in Limits /\ Len(b.stamps) <= b.rpm /\ ToSet(b.stamps) \subseteq 0..Window
    /\ job.at \in {"none", "asks", "sleeps", "calls"}
    /\ job.at # "none" => pool[job.provider] # {}
    /\ \A p \in Provider : ToSet(log[p]) \subseteq [what : {"call", "end"}, rpm : Limits, age : 0 .. Window - 1]
    /\ \A p \in Provider : \A i, j \in DOMAIN log[p] : i <= j => log[p][j].age <= log[p][i].age

\* What a provider's windows of the last minute let through: rpm_limit calls each, and any number without a limit.
Places(p) ==
    (UNION {{i} \X (1 .. log[p][i].rpm) : i \in Of(p, "end")}) \cup (UNION {{0} \X (1 .. b.rpm) : b \in pool[p]})
Unlimited(p) == (\E i \in Of(p, "end") : log[p][i].rpm = 0) \/ \E b \in pool[p] : b.rpm = 0

\* In any minute a provider gets from one worker no more calls than the limits of the windows the worker has had
\* for it in that minute: rpm_limit calls while nothing is changed, whatever jobs follow each other, and one
\* window more for each new limit or restart (worker.py: "back-to-back jobs on one provider share its sliding
\* window"). A call is one that acquire() let through, however often it is then sent.
CallsPerMinute == \A p \in Provider : Unlimited(p) \/ Cardinality(Of(p, "call")) <= Cardinality(Places(p))

\* A job that asks for a call gets it: the sleep ends with a place in the window, however often it goes round.
AskIsHeard == job.at \in {"asks", "sleeps"} ~> job.at \in {"calls", "none"}

\* Calls keep to the limit, and get their turn.
CallsAreRationed == []CallsPerMinute /\ AskIsHeard
=============================================================================
