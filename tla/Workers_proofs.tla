--------------------------- MODULE Workers_proofs ---------------------------
(***************************************************************************)
(* Who holds the event loop, the write lock and the connections, for any   *)
(* number of requests and worker processes and any size of the pool.       *)
(*                                                                         *)
(* The lock is taken and released while its holder has the loop of its     *)
(* worker, and what it does in between awaits nothing (LockOK).  A session *)
(* has a connection from its first SELECT to its end (ConnectionOK), and   *)
(* takes one only while there is one left (PoolOK).                        *)
(***************************************************************************)
EXTENDS Workers, TLAPS, FiniteSetTheorems

Running == {"select", "write", "commit"}

LockOK ==
    lock # Nobody => stage[lock] = "commit"

ConnectionOK ==
    \A r \in Request :
        /\ stage[r] \in {"new", "select", "done"} => ~connected[r]
        /\ stage[r] \in {"checking", "checked", "write", "commit"} => connected[r]

PoolOK ==
    \A w \in Worker :
        IsFiniteSet(InUse(w)) /\ Cardinality(InUse(w)) <= PoolSize

Inv == TypeOK /\ LockOK /\ ConnectionOK /\ PoolOK

-----------------------------------------------------------------------------
(* The two ways of a handler through its stages.                           *)

LEMMA TypedStep ==
    ASSUME TypeOK, NEW r \in Request, NEW to \in Stage,
           \/ Proceed(r, to) /\ (to \in Running <=> stage[r] \in Running)
           \/ Yield(r, to) /\ Runs(r) /\ to \notin Running
           \/ /\ LoopIsFree(r) /\ to \in Running
              /\ stage' = [stage EXCEPT ![r] = to]
              /\ loop' = [loop EXCEPT ![WorkerOf[r]] = r],
           connected' \in [Request -> BOOLEAN],
           lock' \in Request \cup {Nobody}
    PROVE  /\ TypeOK'
           /\ stage'[r] = to
           /\ \A q \in Request \ {r} : stage'[q] = stage[q]
<1>1. stage' = [stage EXCEPT ![r] = to]
  BY DEF Proceed, Yield
<1>2. /\ stage' \in [Request -> Stage] /\ stage'[r] = to
      /\ \A q \in Request \ {r} : stage'[q] = stage[q]
  BY <1>1 DEF TypeOK
<1>3. WorkerOf[r] \in Worker /\ \A q \in Request : WorkerOf[q] \in Worker
  BY WorkersAssumption
<1>4. loop' \in [Worker -> Request \cup {Nobody}]
  BY <1>3 DEF TypeOK, Proceed, Yield
<1>5. ASSUME NEW q \in Request PROVE Runs(q)' <=> stage'[q] \in Running
  <2>1. Runs(q) <=> stage[q] \in Running
    BY DEF TypeOK, Running
  <2>2. CASE Proceed(r, to) /\ (to \in Running <=> stage[r] \in Running)
    BY <1>2, <2>1, <2>2 DEF Proceed, Runs
  <2>3. CASE Yield(r, to) /\ Runs(r) /\ to \notin Running
    <3>1. loop' = [loop EXCEPT ![WorkerOf[r]] = Nobody]
      BY <2>3 DEF Yield
    <3>2. CASE WorkerOf[q] = WorkerOf[r]
      <4>1. loop'[WorkerOf[q]] = Nobody /\ loop[WorkerOf[q]] = r
        BY <1>3, <2>3, <3>1, <3>2 DEF TypeOK, Runs
      <4>2. ~Runs(q)'
        BY <4>1, WorkersAssumption DEF Runs
      <4>3. q # r => stage[q] \notin Running
        BY <2>1, <4>1 DEF Runs
      <4> QED BY <1>2, <2>3, <4>2, <4>3
    <3>3. CASE WorkerOf[q] # WorkerOf[r]
      BY <1>2, <1>3, <2>1, <3>1, <3>3 DEF TypeOK, Runs
    <3> QED BY <3>2, <3>3
  <2>4. CASE /\ LoopIsFree(r) /\ to \in Running
             /\ loop' = [loop EXCEPT ![WorkerOf[r]] = r]
    <3>1. CASE WorkerOf[q] = WorkerOf[r]
      <4>1. loop'[WorkerOf[q]] = r /\ loop[WorkerOf[q]] = Nobody
        BY <1>3, <2>4, <3>1 DEF TypeOK, LoopIsFree
      <4>2. stage[q] \notin Running
        BY <2>1, <4>1, WorkersAssumption DEF Runs
      <4> QED BY <1>2, <2>4, <4>1, <4>2 DEF Runs
    <3>2. CASE WorkerOf[q] # WorkerOf[r]
      BY <1>2, <1>3, <2>1, <2>4, <3>2 DEF TypeOK, Runs
    <3> QED BY <3>1, <3>2
  <2> QED BY <2>2, <2>3, <2>4
<1> QED BY <1>2, <1>4, <1>5 DEF TypeOK, Running

(* Connections that are kept or given back never overdraw the pool.        *)
LEMMA PoolKept ==
    ASSUME PoolOK, \A r \in Request : connected'[r] => connected[r]
    PROVE  PoolOK'
<1> SUFFICES ASSUME NEW w \in Worker
             PROVE  IsFiniteSet(InUse(w))' /\ Cardinality(InUse(w))' <= PoolSize
  BY DEF PoolOK
<1>1. InUse(w)' \subseteq InUse(w)
  BY DEF InUse
<1>2. IsFiniteSet(InUse(w)) /\ Cardinality(InUse(w)) <= PoolSize
  BY DEF PoolOK
<1>3. /\ IsFiniteSet(InUse(w)') /\ Cardinality(InUse(w)') <= Cardinality(InUse(w))
      /\ Cardinality(InUse(w)) \in Nat /\ Cardinality(InUse(w)') \in Nat
  BY <1>1, <1>2, FS_Subset, FS_CardinalityType
<1> QED BY <1>2, <1>3, WorkersAssumption

(* A session that takes a connection finds the pool below its size.        *)
LEMMA PoolTaken ==
    ASSUME TypeOK, PoolOK, NEW r \in Request, ~PoolIsEmpty(WorkerOf[r]),
           connected' = [connected EXCEPT ![r] = TRUE]
    PROVE  PoolOK'
<1> SUFFICES ASSUME NEW w \in Worker
             PROVE  IsFiniteSet(InUse(w))' /\ Cardinality(InUse(w))' <= PoolSize
  BY DEF PoolOK
<1>1. IsFiniteSet(InUse(w)) /\ Cardinality(InUse(w)) <= PoolSize
      /\ Cardinality(InUse(w)) \in Nat /\ PoolSize \in Nat
  BY FS_CardinalityType, WorkersAssumption DEF PoolOK
<1>2. /\ connected'[r] = TRUE
      /\ \A q \in Request \ {r} : connected'[q] = connected[q]
  BY DEF TypeOK
<1>3. CASE w = WorkerOf[r]
  <2>1. InUse(w)' = InUse(w) \cup {r}
    BY <1>2, <1>3 DEF InUse
  <2>2. Cardinality(InUse(w)) < PoolSize
    BY <1>1, <1>3 DEF PoolIsEmpty
  <2>3. /\ IsFiniteSet(InUse(w) \cup {r})
        /\ Cardinality(InUse(w) \cup {r}) = Cardinality(InUse(w))
           \/ Cardinality(InUse(w) \cup {r}) = Cardinality(InUse(w)) + 1
    BY <1>1, FS_AddElement
  <2>4. Cardinality(InUse(w)) + 1 <= PoolSize
    BY <1>1, <2>2
  <2>5. Cardinality(InUse(w) \cup {r}) <= PoolSize
    BY <1>1, <2>3, <2>4
  <2> QED BY <2>1, <2>3, <2>5
<1>4. CASE w # WorkerOf[r]
  <2>1. InUse(w)' = InUse(w)
    BY <1>2, <1>4 DEF InUse
  <2> QED BY <1>1, <2>1
<1> QED BY <1>3, <1>4

-----------------------------------------------------------------------------
(* Step by step.                                                           *)

(* Those that take no connection and leave the lock alone, or free it.     *)
LEMMA PlainStep ==
    ASSUME Inv, TypeOK', NEW r \in Request, NEW to \in Stage,
           stage'[r] = to, \A q \in Request \ {r} : stage'[q] = stage[q],
           \/ UNCHANGED connected
           \/ connected' = [connected EXCEPT ![r] = FALSE],
           lock' \in {lock, Nobody},
           lock' # r \/ to = "commit",
           to \in {"new", "select", "done"} => ~connected'[r],
           to \in {"checking", "checked", "write", "commit"} => connected'[r]
    PROVE  Inv'
<1>1. \A q \in Request \ {r} : connected'[q] = connected[q]
  BY DEF Inv, TypeOK
<1>2. \A q \in Request : connected'[q] => connected[q]
  BY DEF Inv, TypeOK
<1>3. PoolOK'
  BY <1>2, PoolKept DEF Inv
<1>4. ConnectionOK'
  BY <1>1 DEF Inv, ConnectionOK
<1>5. LockOK'
  BY DEF Inv, LockOK, TypeOK
<1> QED BY <1>3, <1>4, <1>5 DEF Inv

LEMMA TakeInv ==
    ASSUME Inv, NEW r \in Request, Take(r)
    PROVE  Inv'
<1> DEFINE to == IF stage[r] = "new" THEN "select" ELSE "write"
<1>1. /\ stage[r] \in {"new", "checked"} /\ LoopIsFree(r)
      /\ loop' = [loop EXCEPT ![WorkerOf[r]] = r]
      /\ stage' = [stage EXCEPT ![r] = to]
      /\ UNCHANGED <<connected, lock>>
  BY DEF Take
<1>2. to \in Stage /\ to \in Running
  BY DEF Stage, Running
<1>3. to = "select" => ~connected[r]
  BY <1>1 DEF Inv, ConnectionOK
<1>4. to = "write" => connected[r]
  BY <1>1 DEF Inv, ConnectionOK
<1>5. lock # r
  BY <1>1, WorkersAssumption DEF Inv, LockOK
<1>6. to \in {"select", "write"}
  OBVIOUS
<1>7. /\ TypeOK' /\ stage'[r] = to
      /\ \A q \in Request \ {r} : stage'[q] = stage[q]
  <2>1. connected' \in [Request -> BOOLEAN] /\ lock' \in Request \cup {Nobody} /\ TypeOK
    BY <1>1 DEF Inv, TypeOK
  <2> HIDE DEF to
  <2> QED BY <1>1, <1>2, <2>1, TypedStep
<1> HIDE DEF to
<1> QED BY <1>1, <1>2, <1>3, <1>4, <1>5, <1>6, <1>7, PlainStep

LEMMA SelectInv ==
    ASSUME Inv, NEW r \in Request, Select(r)
    PROVE  Inv'
<1>1. /\ Runs(r) /\ stage[r] = "select" /\ ~PoolIsEmpty(WorkerOf[r])
      /\ connected' = [connected EXCEPT ![r] = TRUE] /\ UNCHANGED lock
  BY DEF Select, LockAfterSelect
<1>2. PICK to \in {"answered", "checking", "write"} :
        \/ Yield(r, to) /\ to \notin Running
        \/ Proceed(r, to) /\ to \in Running
  BY DEF Select, Running
<1>3. connected' \in [Request -> BOOLEAN] /\ lock' \in Request \cup {Nobody} /\ TypeOK
  BY <1>1 DEF Inv, TypeOK
<1>4. /\ TypeOK' /\ stage'[r] = to
      /\ \A q \in Request \ {r} : stage'[q] = stage[q]
  BY <1>1, <1>2, <1>3, TypedStep DEF Stage, Running
<1>5. PoolOK'
  BY <1>1, PoolTaken DEF Inv
<1>6. connected'[r] /\ \A q \in Request \ {r} : connected'[q] = connected[q]
  BY <1>1 DEF Inv, TypeOK
<1>7. ConnectionOK'
  BY <1>2, <1>4, <1>6 DEF Inv, ConnectionOK
<1>8. LockOK'
  <2>1. lock # r
    BY <1>1, WorkersAssumption DEF Inv, LockOK
  <2> QED BY <1>1, <1>4, <2>1 DEF Inv, LockOK, TypeOK
<1> QED BY <1>4, <1>5, <1>7, <1>8 DEF Inv

LEMMA LockInv ==
    ASSUME Inv, NEW r \in Request, Lock(r)
    PROVE  Inv'
<1>1. /\ Runs(r) /\ stage[r] = "write" /\ lock' = r
      /\ Proceed(r, "commit") /\ UNCHANGED connected
  BY DEF Lock
<1>2. connected' \in [Request -> BOOLEAN] /\ lock' \in Request \cup {Nobody} /\ TypeOK
  BY <1>1 DEF Inv, TypeOK
<1>3. /\ TypeOK' /\ stage'[r] = "commit"
      /\ \A q \in Request \ {r} : stage'[q] = stage[q]
  BY <1>1, <1>2, TypedStep DEF Stage, Running
<1>4. PoolOK'
  BY <1>1, PoolKept DEF Inv
<1>5. ConnectionOK'
  BY <1>1, <1>3 DEF Inv, ConnectionOK
<1>6. LockOK'
  BY <1>1, <1>3 DEF LockOK
<1> QED BY <1>3, <1>4, <1>5, <1>6 DEF Inv

(* The rest: where the request stands, and whether it holds a connection.  *)
LEMMA RestInv ==
    ASSUME Inv, NEW r \in Request,
           \/ NoConnection(r) \/ CheckEnds(r) \/ Fail(r) \/ LockGivesUp(r)
           \/ Finish(r) \/ StartClose(r) \/ Close(r) \/ Again(r)
    PROVE  Inv'
<1> DEFINE Follows(to) ==
      /\ \/ Proceed(r, to) /\ to \notin Running /\ stage[r] \notin Running
         \/ Yield(r, to) /\ Runs(r) /\ to \notin Running
      /\ \/ UNCHANGED connected
         \/ connected' = [connected EXCEPT ![r] = FALSE]
      /\ lock' \in {lock, Nobody} /\ lock' # r
      /\ to \in {"new", "done"} => ~connected'[r]
      /\ to = "checked" => connected'[r]
<1>1. TypeOK /\ LockOK /\ ConnectionOK /\ (lock = r => stage[r] = "commit")
  BY WorkersAssumption DEF Inv, LockOK
<1>2. PICK to \in {"checked", "answered", "closing", "done", "new"} : Follows(to)
  <2>1. CASE NoConnection(r)
    <3>1. Follows("answered")
      BY <1>1, <2>1 DEF NoConnection, Running
    <3> QED BY <3>1
  <2>2. CASE CheckEnds(r)
    <3>1. Follows("checked")
      BY <1>1, <2>2 DEF CheckEnds, Running, ConnectionOK
    <3> QED BY <3>1
  <2>3. CASE Fail(r)
    <3>1. Follows("answered")
      BY <1>1, <2>3 DEF Fail, Running
    <3> QED BY <3>1
  <2>4. CASE LockGivesUp(r)
    <3>1. Follows("answered")
      BY <1>1, <2>4 DEF LockGivesUp, Disconnect, Running
    <3> QED BY <3>1
  <2>5. CASE Finish(r)
    <3>1. Follows("answered")
      BY <1>1, <2>5, WorkersAssumption DEF Finish, Disconnect, Running
    <3> QED BY <3>1
  <2>6. CASE StartClose(r)
    <3>1. Follows("closing")
      BY <1>1, <2>6 DEF StartClose, Running
    <3> QED BY <3>1
  <2>7. CASE Close(r)
    <3>1. Follows("done")
      BY <1>1, <2>7 DEF Close, Disconnect, Running, TypeOK
    <3> QED BY <3>1
  <2>8. CASE Again(r)
    <3>1. Follows("new")
      BY <1>1, <2>8 DEF Again, Running, ConnectionOK
    <3> QED BY <3>1
  <2> QED BY <2>1, <2>2, <2>3, <2>4, <2>5, <2>6, <2>7, <2>8
<1>3. connected' \in [Request -> BOOLEAN] /\ lock' \in Request \cup {Nobody}
  BY <1>1, <1>2 DEF TypeOK
<1>4. /\ TypeOK' /\ stage'[r] = to
      /\ \A q \in Request \ {r} : stage'[q] = stage[q]
  BY <1>1, <1>2, <1>3, TypedStep DEF Stage, Running
<1> QED BY <1>2, <1>4, PlainStep DEF Stage

-----------------------------------------------------------------------------
(* Together.                                                               *)

LEMMA InvInit == Init => Inv
<1> SUFFICES ASSUME Init PROVE Inv
  OBVIOUS
<1>1. TypeOK
  BY WorkersAssumption DEF Init, TypeOK, Stage, Runs
<1>2. LockOK /\ ConnectionOK
  BY DEF Init, LockOK, ConnectionOK
<1>3. ASSUME NEW w \in Worker
      PROVE  IsFiniteSet(InUse(w)) /\ Cardinality(InUse(w)) <= PoolSize
  <2>1. InUse(w) = {}
    BY DEF Init, InUse
  <2> QED BY <2>1, FS_EmptySet, WorkersAssumption
<1> QED BY <1>1, <1>2, <1>3 DEF Inv, PoolOK

LEMMA InvNext == Inv /\ [Next]_vars => Inv'
<1> SUFFICES ASSUME Inv, [Next]_vars PROVE Inv'
  OBVIOUS
<1>1. ASSUME NEW r \in Request, Step(r) \/ Again(r) PROVE Inv'
  BY <1>1, TakeInv, SelectInv, LockInv, RestInv DEF Step
<1>2. CASE UNCHANGED vars
  BY <1>2 DEF vars, Inv, TypeOK, Runs, LockOK, ConnectionOK, PoolOK, InUse
<1> QED BY <1>1, <1>2 DEF Next

LEMMA Invariance == Spec => []Inv
  BY InvInit, InvNext, PTL DEF Spec

(* The loop is held by the handlers that have neither awaited nor answered,*)
(* by one for each worker.                                                 *)
THEOREM TypeCorrect == Spec => []TypeOK
<1>1. Inv => TypeOK
  BY DEF Inv
<1> QED BY <1>1, Invariance, PTL

(* The lock window contains no await: with any number of workers, whoever  *)
(* has the write lock is on its way to the commit.                         *)
THEOREM WritersRun == Spec => []WriterIsRunning
<1>1. Inv => WriterIsRunning
  BY DEF Inv, TypeOK, LockOK, ConnectionOK, WriterIsRunning
<1> QED BY <1>1, Invariance, PTL

(* A request that is done holds no connection, and no pool is overdrawn.   *)
THEOREM ConnectionsReturn == Spec => []ConnectionsComeBack
<1>1. Inv => ConnectionsComeBack
  BY DEF Inv, ConnectionOK, PoolOK, ConnectionsComeBack
<1> QED BY <1>1, Invariance, PTL

-----------------------------------------------------------------------------
(* What Onboarding takes for granted: MayRun, and a commit in one step.    *)

OneRunsPerWorker ==
    \A q, r \in Request :
        /\ WorkerOf[q] = WorkerOf[r]
        /\ stage[q] \in Running
        /\ stage[r] \in Running
        => q = r

CommitHoldsLock == \A r \in Request : stage[r] = "commit" => lock = r

OneCommits ==
    \A q, r \in Request : stage[q] = "commit" /\ stage[r] = "commit" => q = r

LEMMA CommitStep ==
    ASSUME Inv, CommitHoldsLock, [Next]_vars
    PROVE  CommitHoldsLock'
<1>0. stage \in [Request -> Stage]
  BY DEF Inv, TypeOK
<1>1. CASE UNCHANGED vars
  BY <1>1 DEF vars, CommitHoldsLock
<1>2. ASSUME NEW r \in Request, Lock(r) PROVE CommitHoldsLock'
  <2>1. \A q \in Request \ {r} : stage[q] # "commit"
    BY <1>2, WorkersAssumption DEF Lock, CommitHoldsLock
  <2> QED BY <1>0, <1>2, <2>1 DEF Lock, Proceed, CommitHoldsLock
<1>3. ASSUME NEW r \in Request, Finish(r) PROVE CommitHoldsLock'
  <2>1. \A q \in Request \ {r} : stage[q] # "commit"
    BY <1>3 DEF Finish, CommitHoldsLock
  <2> QED BY <1>0, <1>3, <2>1 DEF Finish, Yield, CommitHoldsLock
<1>4. ASSUME NEW r \in Request, Close(r) PROVE CommitHoldsLock'
  BY <1>0, <1>4 DEF Close, Proceed, CommitHoldsLock
<1>5. ASSUME NEW r \in Request, NEW to \in Stage \ {"commit"},
             stage' = [stage EXCEPT ![r] = to], UNCHANGED lock
      PROVE  CommitHoldsLock'
  BY <1>0, <1>5 DEF CommitHoldsLock
<1>6. ASSUME NEW r \in Request,
             \/ Take(r) \/ Select(r) \/ NoConnection(r) \/ CheckEnds(r) \/ Fail(r)
             \/ LockGivesUp(r) \/ StartClose(r) \/ Again(r)
      PROVE  /\ \E to \in Stage \ {"commit"} : stage' = [stage EXCEPT ![r] = to]
             /\ UNCHANGED lock
  BY <1>6 DEF Take, Select, NoConnection, CheckEnds, Fail, LockGivesUp, StartClose,
     Again, Proceed, Yield, LockAfterSelect, Stage
<1> QED BY <1>1, <1>2, <1>3, <1>4, <1>5, <1>6 DEF Next, Step

(* The statements of a handler between two awaits run without another      *)
(* handler of its worker in between, and those from the first flush to the *)
(* commit without any other handler's, on however many workers: the event  *)
(* loop gives the first, SQLite's lock the second, and neither is assumed  *)
(* (Onboarding!MayRun and the single step Onboarding!Commit).              *)
THEOREM CommitsRunAlone == Spec => [](OneRunsPerWorker /\ OneCommits)
<1>1. Inv => OneRunsPerWorker
  BY WorkersAssumption DEF Inv, TypeOK, OneRunsPerWorker, Running, Runs
<1>2. Init => CommitHoldsLock
  BY DEF Init, CommitHoldsLock
<1>3. Inv /\ CommitHoldsLock /\ [Next]_vars => CommitHoldsLock'
  BY CommitStep
<1>4. CommitHoldsLock => OneCommits
  BY DEF CommitHoldsLock, OneCommits
<1> QED BY <1>1, <1>2, <1>3, <1>4, Invariance, PTL DEF Spec

=============================================================================
