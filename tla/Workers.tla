------------------------------ MODULE Workers ------------------------------
(***************************************************************************)
(* What a submission needs to get through: the event loop of its worker, a *)
(* connection of the worker's pool, and SQLite's write lock.               *)
(*                                                                         *)
(* Database calls are synchronous: while a handler waits for a connection  *)
(* (db/session.py: QueuePool, 30 s) or for the lock (timeout 30), it holds *)
(* the event loop, and no other handler of the worker runs.  A session     *)
(* takes a connection with its first SELECT and keeps it while its handler *)
(* awaits the providers; it gives it back with the commit or rollback of   *)
(* the unit of work, or when the session is closed, in a thread that the   *)
(* loop starts.                                                            *)
(***************************************************************************)
EXTENDS Integers, FiniteSets

CONSTANTS
    Request, Worker, WorkerOf,
    PoolSize,       \* connections of one worker's pool, overflow included
    Nobody          \* no handler

ASSUME WorkersAssumption ==
    /\ WorkerOf \in [Request -> Worker]
    /\ PoolSize \in Nat \ {0}
    /\ Nobody \notin Request

VARIABLES
    stage,          \* where a request is
    loop,           \* the handler that holds the event loop of a worker
    connected,      \* the session of a request holds a connection
    lock            \* the handler that holds the write lock of the database

vars == <<stage, loop, connected, lock>>

(* new: in the ready queue for the first time; select: before the first    *)
(* SELECT; checking: suspended; checked: in the ready queue again; write:  *)
(* at the first flush; commit: between it and the commit; answered: the    *)
(* session is still open; closing: in a thread of the pool.                *)
Stage == {"new", "select", "checking", "checked", "write", "commit",
          "answered", "closing", "done"}

Init ==
    /\ stage = [r \in Request |-> "new"]
    /\ loop = [w \in Worker |-> Nobody]
    /\ connected = [r \in Request |-> FALSE]
    /\ lock = Nobody

Runs(r) == loop[WorkerOf[r]] = r
LoopIsFree(r) == loop[WorkerOf[r]] = Nobody

(* r goes on to a stage and keeps the loop, or leaves it.                  *)
Proceed(r, to) ==
    /\ stage' = [stage EXCEPT ![r] = to]
    /\ UNCHANGED loop

\* Mutant: the provider is called without an await.
YieldHolding(r, to) == Proceed(r, to)

Yield(r, to) ==
    /\ stage' = [stage EXCEPT ![r] = to]
    /\ loop' = [loop EXCEPT ![WorkerOf[r]] = Nobody]

\* Mutant: the session is not closed.
LeaveConnected(r) == UNCHANGED connected

Disconnect(r) == connected' = [connected EXCEPT ![r] = FALSE]

InUse(w) == {r \in Request : WorkerOf[r] = w /\ connected[r]}
PoolIsEmpty(w) == Cardinality(InUse(w)) >= PoolSize

\* Mutant: the transaction begins with the first SELECT.
LockAtSelect(r) == r

(* isolation_level IMMEDIATE begins a transaction before the first INSERT  *)
(* or UPDATE; a SELECT leaves the lock alone.                              *)
LockAfterSelect(r) == lock

(* The loop takes a handler off its ready queue.                           *)
Take(r) ==
    /\ stage[r] \in {"new", "checked"}
    /\ LoopIsFree(r)
    /\ loop' = [loop EXCEPT ![WorkerOf[r]] = r]
    /\ stage' = [stage EXCEPT ![r] = IF stage[r] = "new" THEN "select" ELSE "write"]
    /\ UNCHANGED <<connected, lock>>

(* The first SELECT; the handler then answers (400, 403, 409, a repeated   *)
(* payload), or awaits its checks, or goes straight on to write.           *)
Select(r) ==
    /\ Runs(r)
    /\ stage[r] = "select"
    /\ ~PoolIsEmpty(WorkerOf[r])
    /\ connected' = [connected EXCEPT ![r] = TRUE]
    /\ \/ Yield(r, "answered") /\ UNCHANGED lock
       \/ Yield(r, "checking") /\ lock' = LockAfterSelect(r)
       \/ Proceed(r, "write") /\ lock' = LockAfterSelect(r)

\* Mutant: a checkout waits until there is a connection.
PoolWaitsForEver(r) == FALSE

(* QueuePool's timeout: TimeoutError, 500.                                 *)
PoolGivesUp(r) == PoolIsEmpty(WorkerOf[r])

NoConnection(r) ==
    /\ Runs(r)
    /\ stage[r] = "select"
    /\ PoolGivesUp(r)
    /\ Yield(r, "answered")
    /\ UNCHANGED <<connected, lock>>

(* A provider answers, or the runner's timer ends the wait: the handler is *)
(* ready again, to write, or to answer 503 (Fail).                         *)
CheckEnds(r) ==
    /\ stage[r] = "checking"
    /\ Proceed(r, "checked")
    /\ UNCHANGED <<connected, lock>>

Fail(r) ==
    /\ Runs(r)
    /\ stage[r] = "write"
    /\ Yield(r, "answered")
    /\ UNCHANGED <<connected, lock>>

Lock(r) ==
    /\ Runs(r)
    /\ stage[r] = "write"
    /\ lock \in {Nobody, r}
    /\ lock' = r
    /\ Proceed(r, "commit")
    /\ UNCHANGED connected

(* sqlite3's timeout: "database is locked", 500.                           *)
LockGivesUp(r) ==
    /\ Runs(r)
    /\ stage[r] = "write"
    /\ lock \notin {Nobody, r}
    /\ Disconnect(r)
    /\ Yield(r, "answered")
    /\ UNCHANGED lock

(* atomic(): commit or rollback, and the connection goes back.             *)
Finish(r) ==
    /\ Runs(r)
    /\ stage[r] = "commit"
    /\ lock' = Nobody
    /\ Disconnect(r)
    /\ Yield(r, "answered")

(* get_db_session after the response: the loop hands session.close to a    *)
(* thread, which needs the loop no more.                                   *)
StartClose(r) ==
    /\ stage[r] = "answered"
    /\ LoopIsFree(r)
    /\ Proceed(r, "closing")
    /\ UNCHANGED <<connected, lock>>

Close(r) ==
    /\ stage[r] = "closing"
    /\ Disconnect(r)
    /\ Proceed(r, "done")
    /\ lock' = IF lock = r THEN Nobody ELSE lock

(* The browser sends another request.                                      *)
Again(r) ==
    /\ stage[r] = "done"
    /\ Proceed(r, "new")
    /\ UNCHANGED <<connected, lock>>

Step(r) ==
    \/ Take(r)
    \/ Select(r)
    \/ NoConnection(r)
    \/ CheckEnds(r)
    \/ Fail(r)
    \/ Lock(r)
    \/ LockGivesUp(r)
    \/ Finish(r)
    \/ StartClose(r)
    \/ Close(r)

Next == \E r \in Request : Step(r) \/ Again(r)

Spec == Init /\ [][Next]_vars

(* The ready queue is first in first out, so that no handler that is ready *)
(* whenever the loop comes round is passed over (strong fairness); checks  *)
(* end (IntegrationRunner!ChecksEnd); threads and timeouts do their work.  *)
Fairness ==
    \A r \in Request :
        /\ SF_vars(Take(r))
        /\ SF_vars(StartClose(r))
        /\ WF_vars(Select(r) \/ NoConnection(r))
        /\ WF_vars(CheckEnds(r))
        /\ WF_vars(Lock(r) \/ LockGivesUp(r))
        /\ WF_vars(Finish(r))
        /\ WF_vars(Close(r))

FairSpec == Spec /\ Fairness

-----------------------------------------------------------------------------
(***************************************************************************)
(* Properties.                                                             *)
(***************************************************************************)

(* With the types: a handler holds the loop from where it is taken up to   *)
(* where it awaits or answers, and nowhere else.                           *)
TypeOK ==
    /\ stage \in [Request -> Stage]
    /\ loop \in [Worker -> Request \cup {Nobody}]
    /\ connected \in [Request -> BOOLEAN]
    /\ lock \in Request \cup {Nobody}
    /\ \A r \in Request : Runs(r) <=> stage[r] \in {"select", "write", "commit"}

(* ARCHITECTURE.md:104, "Integrations run before the transaction opens.    *)
(* Keeps the DB lock window short": whoever has the write lock is running, *)
(* so he waits for nobody - not for a provider, not for the loop, not for  *)
(* a connection - and whoever waits for the lock waits for him alone.      *)
WriterIsRunning ==
    lock # Nobody =>
        /\ Runs(lock)
        /\ stage[lock] = "commit"
        /\ connected[lock]

(* No session outlives its request: what is done has given its connection  *)
(* back, and the pool is never overdrawn.                                  *)
ConnectionsComeBack ==
    /\ \A r \in Request : stage[r] \in {"new", "select", "done"} => ~connected[r]
    /\ \A w \in Worker : Cardinality(InUse(w)) <= PoolSize

(* Every request ends, however many there are for the pool, although one   *)
(* that waits for a connection holds up the very loop that the holders of  *)
(* the connections need.                                                   *)
EveryRequestEnds ==
    \A r \in Request : stage[r] = "new" ~> stage[r] = "done"

=============================================================================
