----------------------------- MODULE JobLedger -----------------------------
(***************************************************************************)
(* What the job queue promises the rest of the system while one worker     *)
(* process runs at a time: a row that was inserted is taken by one worker  *)
(* thread, and goes back to the queued rows only from the hand that holds *)
(* it, or when no hand holds any; once settled it is never taken again.    *)
(* Removing a submission takes its rows out of every hand.                 *)
(***************************************************************************)
EXTENDS Naturals

CONSTANTS Job, Worker, None

VARIABLES
    place,  \* [Job -> free, queued, running, settled or deleted]
    takes,  \* [Job -> how often a worker has taken it]
    hand    \* [Worker -> the row the worker is running, or None]

ledgerVars == <<place, takes, hand>>

Init ==
    /\ place = [j \in Job |-> "free"]
    /\ takes = [j \in Job |-> 0]
    /\ hand = [w \in Worker |-> None]

Submit(j) ==
    /\ place[j] = "free"
    /\ place' = [place EXCEPT ![j] = "queued"]
    /\ UNCHANGED <<takes, hand>>

Take(w, j) ==
    /\ hand[w] = None
    /\ place[j] = "queued"
    /\ place' = [place EXCEPT ![j] = "running"]
    /\ takes' = [takes EXCEPT ![j] = @ + 1]
    /\ hand' = [hand EXCEPT ![w] = j]

\* The worker lets go of its row: back to the queue, or settled for good.
LetGo(w, where) ==
    /\ hand[w] # None
    /\ place' = [place EXCEPT ![hand[w]] = where]
    /\ hand' = [hand EXCEPT ![w] = None]
    /\ UNCHANGED takes

\* The worker is gone, or could not write how the job ended: the row stays running in no hand.
Abandon(w) ==
    /\ hand' = [hand EXCEPT ![w] = None]
    /\ UNCHANGED <<place, takes>>

\* A worker loop begins, all hands empty: the rows left running are queued again.
Recover ==
    /\ \A w \in Worker : hand[w] = None
    /\ place' = [j \in Job |-> IF place[j] = "running" THEN "queued" ELSE place[j]]
    /\ UNCHANGED <<takes, hand>>

Remove(rows) ==
    /\ \A j \in rows : place[j] # "free"
    /\ place' = [j \in Job |-> IF j \in rows THEN "deleted" ELSE place[j]]
    /\ hand' = [w \in Worker |-> IF hand[w] \in rows THEN None ELSE hand[w]]
    /\ UNCHANGED takes

Next ==
    \/ \E j \in Job : Submit(j)
    \/ \E w \in Worker, j \in Job : Take(w, j)
    \/ \E w \in Worker : LetGo(w, "queued") \/ LetGo(w, "settled") \/ Abandon(w)
    \/ Recover
    \/ \E rows \in SUBSET Job : Remove(rows)

Spec == Init /\ [][Next]_ledgerVars
=============================================================================
