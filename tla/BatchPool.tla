----------------------------- MODULE BatchPool -----------------------------
(***************************************************************************)
(* Batch lookups of the dashboard (dashboard/service.py) on the connection *)
(* pool of the process (core/database.py).                                 *)
(*                                                                         *)
(* A request holds a connection from its authentication to its answer.     *)
(* Each of its items opens a session of its own, which needs a connection, *)
(* returns it with the commit of a refresh and with that of a score, and   *)
(* asks for one again.  The pool serves in the order of asking; who waits  *)
(* too long gets an error.                                                 *)
(***************************************************************************)
EXTENDS Integers, Sequences, SequencesExt, Functions, FiniteSets

CONSTANTS
    Batch,        \* batch requests, each made once
    Items,        \* vehicles in a batch
    PoolSize,     \* pool_size and max_overflow
    Concurrency   \* BATCH_LOOKUP_CONCURRENCY

\* A pool has a size, and a load of batches is finite.
ASSUME PoolAssumption == IsFiniteSet(Batch) /\ Items \in Nat /\ PoolSize \in Nat

VARIABLES
    batchPc,  \* where each request is
    item,     \* where each item of a request is
    held,     \* connections held by each task
    queue     \* tasks waiting for a connection, first come first served

poolVars == <<batchPc, item, held, queue>>

Item == 1..Items
\* Task 0 of a batch is the request itself.
Task == Batch \X (0..Items)
Free == PoolSize - FoldFunction(+, 0, held)

Ask(t) == queue' = Append(queue, t)
Waiting(t) == t \in ToSet(queue)
GivesUp(t) == \E i \in DOMAIN queue : queue[i] = t /\ queue' = RemoveAt(queue, i)
Becomes(b, place) == batchPc' = [batchPc EXCEPT ![b] = place]
ItemBecomes(b, i, place) == item' = [item EXCEPT ![b][i] = place]

-----------------------------------------------------------------------------
(* The pool *)

Grant ==
    /\ queue # <<>> /\ Free > 0
    /\ held' = [held EXCEPT ![Head(queue)] = @ + 1]
    /\ queue' = Tail(queue)
    /\ UNCHANGED <<batchPc, item>>

\* Fault: items wait without a timeout.
TimeOutRequests(t) ==
    /\ GivesUp(t) /\ t[2] = 0
    /\ held' = [held EXCEPT ![t] = 0]
    /\ Becomes(t[1], "failed") /\ UNCHANGED item
\* pool_timeout: the statement of the waiting task fails, its session is closed.
TimeOut(t) ==
    /\ GivesUp(t)
    /\ held' = [held EXCEPT ![t] = 0]
    /\ IF t[2] = 0 THEN Becomes(t[1], "failed") /\ UNCHANGED item
                   ELSE ItemBecomes(t[1], t[2], "failed") /\ UNCHANGED batchPc

-----------------------------------------------------------------------------
(* A request *)

\* get_current_dashboard_user reads the account on the request's session.
Arrive(b) ==
    /\ batchPc[b] = "new"
    /\ Becomes(b, "open")
    /\ Ask(<<b, 0>>)
    /\ UNCHANGED <<item, held>>

\* What a lookup is at: refreshing the challans, scoring them, reading when they were fetched.
Stages == {"refresh", "score", "stamp"}
\* The items that are inside the semaphore.
Admitted(b) == {i \in Item : item[b][i] \in Stages}
At(b, i, stage) == item[b][i] = stage /\ held[<<b, i>>] > 0

StartItem(b, i) ==
    /\ batchPc[b] = "open" /\ held[<<b, 0>>] > 0
    /\ item[b][i] = "queued" /\ Cardinality(Admitted(b)) < Concurrency
    /\ ItemBecomes(b, i, "refresh")
    /\ Ask(<<b, i>>)
    /\ UNCHANGED <<batchPc, held>>

Releases(b, i) == held' = [held EXCEPT ![<<b, i>>] = 0]
\* With a commit the connection goes back, and the next statement asks for one again;
\* without, the transaction goes on.
Proceeds(b, i, stage) ==
    /\ ItemBecomes(b, i, stage)
    /\ \/ Releases(b, i) /\ Ask(<<b, i>>)
       \/ UNCHANGED <<held, queue>>
    /\ UNCHANGED batchPc

\* A refresh commits; fresh challans, or a vendor that fails, leave nothing to commit.
Refresh(b, i) == At(b, i, "refresh") /\ Proceeds(b, i, "score")

\* The challans are listed; a new score is stored and commits, a cached one is read.
Score(b, i) == At(b, i, "score") /\ Proceeds(b, i, "stamp")

\* The time of the last fetch is read and the session closed.
Finish(b, i) ==
    /\ At(b, i, "stamp")
    /\ ItemBecomes(b, i, "done")
    /\ Releases(b, i)
    /\ UNCHANGED <<batchPc, queue>>

\* A lookup fails while it has a connection: rolled back, and the item is left out.
Fail(b, i) ==
    /\ \E stage \in Stages : At(b, i, stage)
    /\ ItemBecomes(b, i, "failed")
    /\ Releases(b, i)
    /\ UNCHANGED <<batchPc, queue>>

\* Fault: the session of the request is not closed.
AnswerKept(b) ==
    /\ batchPc[b] = "open" /\ held[<<b, 0>>] > 0
    /\ \A i \in Item : item[b][i] \in {"done", "failed"}
    /\ Becomes(b, "answered")
    /\ UNCHANGED <<item, held, queue>>
\* gather returns when every item has; those that failed are left out of the response.
Answer(b) ==
    /\ batchPc[b] = "open" /\ held[<<b, 0>>] > 0
    /\ \A i \in Item : item[b][i] \in {"done", "failed"}
    /\ Becomes(b, "answered")
    /\ held' = [held EXCEPT ![<<b, 0>>] = 0]
    /\ UNCHANGED <<item, queue>>

PoolInit ==
    /\ batchPc = [b \in Batch |-> "new"]
    /\ item = [b \in Batch |-> [i \in Item |-> "queued"]]
    /\ held = [t \in Task |-> 0]
    /\ queue = <<>>

Steps(b) ==
    \/ Answer(b)
    \/ \E i \in Item : StartItem(b, i) \/ Refresh(b, i) \/ Score(b, i) \/ Finish(b, i)

PoolNext ==
    \/ Grant
    \/ \E b \in Batch : Arrive(b) \/ Steps(b) \/ \E i \in Item : Fail(b, i)
    \/ \E t \in Task : TimeOut(t)

\* The event loop runs what can run, statements and the vendor answer within the timeouts
\* of their clients, and the pool makes no task wait for ever.
PoolFairness ==
    /\ WF_poolVars(Grant)
    /\ \A b \in Batch : WF_poolVars(Steps(b))
    /\ \A t \in Task : WF_poolVars(TimeOut(t))

PoolSpec == PoolInit /\ [][PoolNext]_poolVars /\ PoolFairness

-----------------------------------------------------------------------------
(* Properties *)

PoolTypeOK ==
    /\ batchPc \in [Batch -> {"new", "open", "answered", "failed"}]
    /\ item \in [Batch -> [Item -> {"queued", "done", "failed"} \cup Stages]]
    /\ held \in [Task -> 0..1]
    /\ Free >= 0

Open == {b \in Batch : batchPc[b] = "open"}
\* When no request is open every connection is back in the pool, whatever failed or
\* timed out.
ConnectionsReturned == Open = {} => \A t \in Task : held[t] = 0

\* With every connection held by a request only the timeouts end the wait; they do, and
\* every batch is answered or fails.
BatchesEnd == \A b \in Batch : batchPc[b] = "open" ~> batchPc[b] # "open"

=============================================================================
