---------------------------- MODULE Audit_proofs ----------------------------
(***************************************************************************)
(* The audit log and the tables, for any number of applications, requests  *)
(* and workers and every flow.                                             *)
(*                                                                         *)
(* Every step of Audit is a step of Onboarding, or leaves its state alone, *)
(* so what is proved of Onboarding holds here.  A status line is owed only *)
(* by a handler whose commit has moved the version: lines written and      *)
(* lines owed together are fewer than the versions (Counted).  A line that *)
(* tells of a decision tells of the one in the tables, because nothing     *)
(* commits to an application that is decided (ToldTruly).  LineIsNext is   *)
(* used for LastWord alone: the rest does not need the event loop.         *)
(***************************************************************************)
EXTENDS Audit, Onboarding_proofs, FiniteSetTheorems

(* The variables of the log are what their names say.                      *)
LogTyped ==
    /\ checkLines = [a \in App |-> checkLines[a]]
    /\ statusLines \in [App -> Seq(ApplicationStatus)]
    /\ owed \in [Request -> {NothingOwed} \cup [app : App, outcome : ApplicationStatus]]

OwedTo(a) == {r \in Request : owed[r] # NothingOwed /\ owed[r].app = a}

OwedAfterCommit == \A r \in Request : owed[r] # NothingOwed => pc[r] = "reply"

Counted ==
    \A a \in App :
        /\ IsFiniteSet(OwedTo(a))
        /\ IF version[a] = 0 THEN statusLines[a] = <<>> /\ OwedTo(a) = {}
           ELSE Len(statusLines[a]) + Cardinality(OwedTo(a)) < version[a]

(* An application that may still move has no decision.                     *)
DecidedIsClosed ==
    \A a \in App :
        status[a] = "ABSENT" \/ IsCustomerSubmittable(status[a]) =>
            ~IsClosed(decision[a].outcome)

ToldTruly ==
    \A a \in App :
        /\ \A k \in DOMAIN statusLines[a] :
             IsClosed(statusLines[a][k]) => decision[a].outcome = statusLines[a][k]
        /\ \A r \in OwedTo(a) :
             IsClosed(owed[r].outcome) => decision[a].outcome = owed[r].outcome

AuditInv ==
    /\ Inv
    /\ LogTyped
    /\ OwedAfterCommit
    /\ Counted
    /\ DecidedIsClosed
    /\ ToldTruly
    /\ RowsAreAnnounced

-----------------------------------------------------------------------------
(* Every step is one of Onboarding's.                                      *)

LEMMA QuietIsHandled ==
    ASSUME NEW r \in Request, Quiet(r)
    PROVE  Next /\ UNCHANGED tables
<1>1. CASE \E a \in App : \E p \in PostsTo(a) : Submit(r, p) \/ SubmitRefused(r, p)
  BY <1>1 DEF Next, Submit, SubmitRefused
<1>2. CASE LoadStatus(r) \/ StepBlocked(r) \/ StepRepeated(r) \/ StepAdmitted(r)
           \/ CheckFails(r) \/ SelectResponse(r)
  BY <1>2 DEF Next, Handle, LoadStatus, StepBlocked, StepRepeated, StepAdmitted,
     CheckFails, SelectResponse
<1>3. CASE \E outcome \in CheckOutcome : CheckReturns(r, outcome)
  BY <1>3 DEF Next, Handle, CheckReturns
<1> QED BY <1>1, <1>2, <1>3 DEF Quiet

LEMMA AuditStepIsStep == [AuditNext]_auditVars => [Next]_vars
<1> SUFFICES ASSUME [AuditNext]_auditVars PROVE [Next]_vars
  OBVIOUS
<1>1. ASSUME NEW a \in App, Start(a) PROVE Next
  BY <1>1 DEF Start, Next
<1>2. ASSUME NEW r \in Request, Quiet(r) PROVE Next
  BY <1>2, QuietIsHandled
<1>3. ASSUME NEW r \in Request, RollBack(r) \/ WriteBack(r) \/ GiveUp(r) PROVE Next
  BY <1>3 DEF RollBack, WriteBack, GiveUp, Handle, Next
<1>4. ASSUME NEW r \in Request, Announce(r) PROVE UNCHANGED vars
  BY <1>4 DEF Announce
<1>5. ASSUME NEW r \in Request, Send(r) PROVE Next
  BY <1>5 DEF Send, Next
<1>6. ASSUME NEW w \in Worker, Die(w) PROVE Next
  BY <1>6 DEF Die, Next
<1>7. CASE UNCHANGED auditVars
  BY <1>7 DEF auditVars
<1> QED BY <1>1, <1>2, <1>3, <1>4, <1>5, <1>6, <1>7 DEF AuditNext

-----------------------------------------------------------------------------
(* Steps that commit nothing.                                              *)

CheckLinesGrow ==
    /\ checkLines' = [a \in App |-> checkLines'[a]]
    /\ \A a \in App : checkLines[a] \subseteq checkLines'[a]

LEMMA LogGrows ==
    ASSUME LogTyped, NEW a, NEW lines, Log(a, lines)
    PROVE  CheckLinesGrow
  BY DEF LogTyped, Log, CheckLinesGrow

LEMMA NoLogGrows ==
    ASSUME LogTyped, UNCHANGED checkLines
    PROVE  CheckLinesGrow
  BY DEF LogTyped, CheckLinesGrow

(* Lines may be owed no more, but none is owed anew.                       *)
LEMMA StillInv ==
    ASSUME AuditInv, Inv', UNCHANGED <<tables, statusLines>>, CheckLinesGrow,
           owed' \in [Request -> {NothingOwed} \cup [app : App, outcome : ApplicationStatus]],
           \A q \in Request : owed'[q] # NothingOwed =>
               owed'[q] = owed[q] /\ pc'[q] = "reply"
    PROVE  AuditInv'
<1>1. UNCHANGED <<status, version, logs, decision>>
  BY DEF tables
<1>2. LogTyped'
  BY DEF AuditInv, LogTyped, CheckLinesGrow
<1>3. OwedAfterCommit'
  BY DEF OwedAfterCommit
<1>4. \A a \in App : OwedTo(a)' \subseteq OwedTo(a)
  BY DEF OwedTo
<1>5. Counted'
  <2> SUFFICES ASSUME NEW a \in App
               PROVE  /\ IsFiniteSet(OwedTo(a)')
                      /\ IF version[a] = 0
                         THEN statusLines[a] = <<>> /\ OwedTo(a)' = {}
                         ELSE Len(statusLines[a]) + Cardinality(OwedTo(a)') < version[a]
    BY <1>1 DEF Counted
  <2>1. /\ IsFiniteSet(OwedTo(a))
        /\ IF version[a] = 0 THEN statusLines[a] = <<>> /\ OwedTo(a) = {}
           ELSE Len(statusLines[a]) + Cardinality(OwedTo(a)) < version[a]
    BY DEF AuditInv, Counted
  <2> DEFINE before == OwedTo(a)
             after == OwedTo(a)'
  <2>2. /\ IsFiniteSet(after)
        /\ Cardinality(after) <= Cardinality(before)
        /\ Cardinality(before) \in Nat /\ Cardinality(after) \in Nat
    <3>1. after \subseteq before /\ IsFiniteSet(before)
      BY <1>4, <2>1
    <3> HIDE DEF before, after
    <3> QED BY <3>1, FS_Subset, FS_CardinalityType
  <2>3. Len(statusLines[a]) \in Nat /\ version[a] \in Nat
    BY DEF AuditInv, LogTyped, Inv, TypeOK
  <2>4. version[a] = 0 => after = {}
    BY <1>4, <2>1
  <2> HIDE DEF before, after
  <2>5. version[a] # 0 => Len(statusLines[a]) + Cardinality(before) < version[a]
    BY <2>1 DEF before
  <2>6. version[a] # 0 => Len(statusLines[a]) + Cardinality(after) < version[a]
    BY <2>2, <2>3, <2>5
  <2> QED BY <2>1, <2>2, <2>4, <2>6 DEF after
<1>6. DecidedIsClosed'
  BY <1>1 DEF AuditInv, DecidedIsClosed
<1>7. ToldTruly'
  BY <1>1, <1>4 DEF AuditInv, ToldTruly, OwedTo
<1>8. RowsAreAnnounced'
  BY <1>1 DEF AuditInv, RowsAreAnnounced, CheckLinesGrow
<1> QED BY <1>2, <1>3, <1>5, <1>6, <1>7, <1>8 DEF AuditInv

LEMMA QuietStays ==
    ASSUME TypeOK, NEW r \in Request, Quiet(r)
    PROVE  pc[r] # "reply" /\ \A q \in Request \ {r} : pc'[q] = pc[q]
<1> DEFINE Kept == pc[r] # "reply" /\ \A q \in Request \ {r} : pc'[q] = pc[q]
<1>1. ASSUME NEW phase, Goto(r, phase) PROVE \A q \in Request \ {r} : pc'[q] = pc[q]
  BY <1>1 DEF Goto, TypeOK
<1>2. CASE \E a \in App : \E p \in PostsTo(a) : Submit(r, p) \/ SubmitRefused(r, p)
  BY <1>1, <1>2 DEF Submit, SubmitRefused, Answer
<1>3. CASE LoadStatus(r) \/ StepAdmitted(r) \/ SelectResponse(r)
  BY <1>1, <1>3 DEF LoadStatus, StepAdmitted, SelectResponse
<1>4. CASE StepBlocked(r) \/ StepRepeated(r) \/ CheckFails(r)
  BY <1>1, <1>4 DEF StepBlocked, StepRepeated, CheckFails, Answer
<1>5. CASE \E outcome \in CheckOutcome : CheckReturns(r, outcome)
  BY <1>1, <1>5 DEF CheckReturns
<1> QED BY <1>2, <1>3, <1>4, <1>5 DEF Quiet

LEMMA QuietInv ==
    ASSUME AuditInv, Inv', NEW r \in Request, Quiet(r)
    PROVE  AuditInv'
<1>1. UNCHANGED tables /\ NoLine
  BY QuietIsHandled DEF Quiet
<1>2. \A q \in Request : owed'[q] # NothingOwed => owed'[q] = owed[q] /\ pc'[q] = "reply"
  BY <1>1, QuietStays DEF NoLine, AuditInv, Inv, OwedAfterCommit
<1>3. CheckLinesGrow
  BY <1>1, NoLogGrows DEF NoLine, AuditInv
<1> QED BY <1>1, <1>2, <1>3, StillInv DEF NoLine, AuditInv, LogTyped

(* The unit of work fails; its lines may stay.                             *)
LEMMA FailedInv ==
    ASSUME AuditInv, Inv', NEW r \in Request, RollBack(r) \/ GiveUp(r)
    PROVE  AuditInv'
<1>1. /\ UNCHANGED <<tables, statusLines>>
      /\ pc[r] # "reply"
      /\ \E page : Answer(r, page)
  BY DEF RollBack, GiveUp, CommitRolledBack, DatabaseFails, Running
<1>2. \A q \in Request \ {r} : pc'[q] = pc[q]
  BY <1>1 DEF Answer, Goto, AuditInv, Inv, TypeOK
<1>3. owed[r] = NothingOwed
  BY <1>1 DEF AuditInv, OwedAfterCommit
<1>4. owed' = [owed EXCEPT ![r] = NothingOwed] \/ owed' = owed
  BY DEF RollBack, GiveUp, OwedAfterRollback
<1>5. owed' = owed
  BY <1>3, <1>4 DEF AuditInv, LogTyped
<1>6. \A q \in Request : owed'[q] # NothingOwed => owed'[q] = owed[q] /\ pc'[q] = "reply"
  BY <1>2, <1>3, <1>5 DEF AuditInv, OwedAfterCommit
<1>7. UNCHANGED checkLines \/ \E a, lines : Log(a, lines)
  BY DEF RollBack, GiveUp
<1>8. CheckLinesGrow
  BY <1>7, LogGrows, NoLogGrows DEF AuditInv
<1> QED BY <1>1, <1>5, <1>6, <1>8, StillInv DEF AuditInv, LogTyped

LEMMA SendInv ==
    ASSUME AuditInv, Inv', NEW r \in Request, Send(r)
    PROVE  AuditInv'
<1>1. /\ UNCHANGED <<tables, statusLines, checkLines, owed>>
      /\ owed[r] = NothingOwed
      /\ \A q \in Request \ {r} : pc'[q] = pc[q]
  BY DEF Send, NoLine, Deliver, Clear
<1>2. \A q \in Request : owed'[q] # NothingOwed => owed'[q] = owed[q] /\ pc'[q] = "reply"
  BY <1>1 DEF AuditInv, OwedAfterCommit
<1>3. CheckLinesGrow
  BY <1>1, NoLogGrows DEF AuditInv
<1> QED BY <1>1, <1>2, <1>3, StillInv DEF AuditInv, LogTyped

LEMMA DieInv ==
    ASSUME AuditInv, Inv', NEW w \in Worker, Die(w)
    PROVE  AuditInv'
<1>1. /\ UNCHANGED <<tables, statusLines>>
      /\ owed' = [r \in Request |-> IF WorkerOf[r] = w THEN NothingOwed ELSE owed[r]]
      /\ \A q \in Request : WorkerOf[q] # w => pc'[q] = pc[q]
  BY DEF Die, Crash, Clear
<1>2. \A q \in Request : owed'[q] # NothingOwed => owed'[q] = owed[q] /\ pc'[q] = "reply"
  BY <1>1 DEF AuditInv, OwedAfterCommit
<1>3. UNCHANGED checkLines \/ \E a, lines : Log(a, lines)
  BY DEF Die
<1>4. CheckLinesGrow
  BY <1>3, LogGrows, NoLogGrows DEF AuditInv
<1>5. owed' \in [Request -> {NothingOwed} \cup [app : App, outcome : ApplicationStatus]]
  BY <1>1 DEF AuditInv, LogTyped
<1> QED BY <1>1, <1>2, <1>4, <1>5, StillInv

-----------------------------------------------------------------------------
(* The line that was owed is written.                                      *)
LEMMA AnnounceInv ==
    ASSUME AuditInv, Inv', NEW r \in Request, Announce(r)
    PROVE  AuditInv'
<1>0. /\ owed[r] # NothingOwed
      /\ owed[r].app \in App /\ owed[r].outcome \in ApplicationStatus
  BY DEF Announce, AuditInv, LogTyped
<1> PICK a \in App, line \in ApplicationStatus :
      a = owed[r].app /\ line = owed[r].outcome
  BY <1>0
<1>1. /\ UNCHANGED <<status, version, logs, decision, pc, checkLines>>
      /\ statusLines' = [statusLines EXCEPT ![a] = Append(@, line)]
      /\ owed' = [owed EXCEPT ![r] = NothingOwed]
  BY DEF Announce, vars, tables
<1>2. r \in OwedTo(a)
  BY <1>0 DEF OwedTo
<1>3. /\ statusLines' \in [App -> Seq(ApplicationStatus)]
      /\ statusLines'[a] = Append(statusLines[a], line)
      /\ \A b \in App \ {a} : statusLines'[b] = statusLines[b]
      /\ statusLines[a] \in Seq(ApplicationStatus)
  BY <1>1, <1>2 DEF AuditInv, LogTyped
<1>4. /\ owed' \in [Request -> {NothingOwed} \cup [app : App, outcome : ApplicationStatus]]
      /\ owed'[r] = NothingOwed
      /\ \A q \in Request \ {r} : owed'[q] = owed[q]
  BY <1>1 DEF AuditInv, LogTyped
<1>5. OwedTo(a)' = OwedTo(a) \ {r}
      /\ \A b \in App \ {a} : OwedTo(b)' = OwedTo(b)
  BY <1>4 DEF OwedTo
<1>6. LogTyped'
  BY <1>1, <1>3, <1>4 DEF AuditInv, LogTyped
<1>7. OwedAfterCommit'
  BY <1>1, <1>4 DEF AuditInv, OwedAfterCommit
<1>8. Counted'
  <2> SUFFICES ASSUME NEW b \in App
               PROVE  /\ IsFiniteSet(OwedTo(b)')
                      /\ IF version[b] = 0
                         THEN statusLines'[b] = <<>> /\ OwedTo(b)' = {}
                         ELSE Len(statusLines'[b]) + Cardinality(OwedTo(b)') < version[b]
    BY <1>1 DEF Counted
  <2>1. /\ IsFiniteSet(OwedTo(b))
        /\ IF version[b] = 0 THEN statusLines[b] = <<>> /\ OwedTo(b) = {}
           ELSE Len(statusLines[b]) + Cardinality(OwedTo(b)) < version[b]
    BY DEF AuditInv, Counted
  <2>2. CASE b # a
    BY <1>3, <1>5, <2>1, <2>2
  <2>3. CASE b = a
    <3> DEFINE before == OwedTo(a)
    <3>1. IsFiniteSet(before) /\ r \in before
      BY <1>2, <2>1, <2>3
    <3>2. /\ IsFiniteSet(before \ {r})
          /\ Cardinality(before \ {r}) = Cardinality(before) - 1
          /\ Cardinality(before) \in Nat
      <4> HIDE DEF before
      <4> QED BY <3>1, FS_RemoveElement, FS_CardinalityType
    <3>3. Len(statusLines'[a]) = Len(statusLines[a]) + 1 /\ Len(statusLines[a]) \in Nat
      BY <1>2, <1>3
    <3>4. version[a] # 0 /\ version[a] \in Nat
      BY <1>2, <2>1, <2>3 DEF AuditInv, Inv, TypeOK
    <3>5. Len(statusLines[a]) + Cardinality(before) < version[a]
      BY <2>1, <2>3, <3>4
    <3> HIDE DEF before
    <3>6. Len(statusLines'[a]) + Cardinality(before \ {r}) < version[a]
      BY <3>2, <3>3, <3>4, <3>5
    <3> QED BY <1>5, <2>3, <3>2, <3>4, <3>6 DEF before
  <2> QED BY <2>2, <2>3
<1>9. DecidedIsClosed'
  BY <1>1 DEF AuditInv, DecidedIsClosed
<1>10. ToldTruly'
  <2>1. IsClosed(line) => decision[a].outcome = line
    BY <1>2 DEF AuditInv, ToldTruly
  <2>2. \A k \in DOMAIN statusLines'[a] :
          IsClosed(statusLines'[a][k]) => decision[a].outcome = statusLines'[a][k]
    <3> TAKE k \in DOMAIN statusLines'[a]
    <3>1. \/ k = Len(statusLines[a]) + 1 /\ statusLines'[a][k] = line
          \/ k \in DOMAIN statusLines[a] /\ statusLines'[a][k] = statusLines[a][k]
      BY <1>3
    <3> QED BY <1>2, <2>1, <3>1 DEF AuditInv, ToldTruly
  <2>3. \A b \in App : \A q \in OwedTo(b)' : q \in OwedTo(b) /\ owed'[q] = owed[q]
    BY <1>4, <1>5 DEF OwedTo
  <2>4. \A b \in App : \A q \in OwedTo(b)' :
          IsClosed(owed'[q].outcome) => decision[b].outcome = owed'[q].outcome
    BY <2>3 DEF AuditInv, ToldTruly
  <2>5. \A b \in App \ {a} : \A k \in DOMAIN statusLines'[b] :
          IsClosed(statusLines'[b][k]) => decision[b].outcome = statusLines'[b][k]
    <3> TAKE b \in App \ {a}
    <3>1. \A k \in DOMAIN statusLines[b] :
            IsClosed(statusLines[b][k]) => decision[b].outcome = statusLines[b][k]
      BY DEF AuditInv, ToldTruly
    <3>2. statusLines'[b] = statusLines[b]
      BY <1>3
    <3> QED BY <3>1, <3>2
  <2> QED BY <1>1, <2>2, <2>4, <2>5 DEF ToldTruly
<1>11. RowsAreAnnounced'
  BY <1>1 DEF AuditInv, RowsAreAnnounced
<1> QED BY <1>6, <1>7, <1>8, <1>9, <1>10, <1>11 DEF AuditInv

LEMMA StartedInv ==
    ASSUME AuditInv, Inv', NEW a \in App, Start(a)
    PROVE  AuditInv'
<1>1. /\ status[a] = "ABSENT"
      /\ version' = [version EXCEPT ![a] = 1]
      /\ UNCHANGED <<logs, decision, pc, checkLines, statusLines, owed>>
      /\ \A b \in App \ {a} : status'[b] = status[b]
  BY DEF Start, StartApplication, NoLine, locals
<1>2. version[a] = 0 /\ statusLines[a] = <<>> /\ OwedTo(a) = {}
  BY <1>1 DEF AuditInv, Inv, AbsentHasNoVersion, Counted
<1>3. version'[a] = 1 /\ \A b \in App \ {a} : version'[b] = version[b]
  BY <1>1 DEF AuditInv, Inv, TypeOK
<1>4. \A b : OwedTo(b)' = OwedTo(b)
  BY <1>1 DEF OwedTo
<1>5. Counted'
  <2>1. IsFiniteSet({}) /\ Cardinality({}) = 0 /\ Len(<<>>) = 0
    BY FS_EmptySet
  <2>2. IsFiniteSet(OwedTo(a)) /\ Len(statusLines[a]) + Cardinality(OwedTo(a)) < version'[a]
    BY <1>2, <1>3, <2>1
  <2>3. \A b \in App \ {a} : version'[b] = version[b]
    BY <1>3
  <2> QED BY <1>1, <1>3, <1>4, <2>2, <2>3 DEF AuditInv, Counted
<1>6. ~IsClosed(decision[a].outcome)
  BY <1>1 DEF AuditInv, DecidedIsClosed
<1>7. DecidedIsClosed'
  BY <1>1, <1>6 DEF AuditInv, DecidedIsClosed
<1>8. LogTyped' /\ OwedAfterCommit' /\ ToldTruly' /\ RowsAreAnnounced'
  BY <1>1, <1>4 DEF AuditInv, LogTyped, OwedAfterCommit, ToldTruly, RowsAreAnnounced
<1> QED BY <1>5, <1>7, <1>8 DEF AuditInv

(* The commit: the version moves on, and one more line is owed.            *)
LEMMA WriteBackInv ==
    ASSUME AuditInv, Inv', NEW r \in Request, WriteBack(r)
    PROVE  AuditInv'
<1>0. /\ Commit(r) /\ pc[r] = "commit" /\ Inv
      /\ req[r] \in Post
      /\ outcomes[r] \in Verdicts(req[r].step)
      /\ IsCustomerSubmittable(status[req[r].app])
      /\ FinalStatus(req[r].step, outcomes[r]) \in ApplicationStatus
  BY CommitFacts, FinalStatusTyped DEF WriteBack, Commit, AuditInv, Post
<1> PICK a \in App, final \in ApplicationStatus :
      a = req[r].app /\ final = FinalStatus(req[r].step, outcomes[r])
  BY <1>0 DEF Post
<1>1. /\ status' = [status EXCEPT ![a] = final]
      /\ version' = [version EXCEPT ![a] = @ + 1]
      /\ decision' =
           IF final = "IN_PROGRESS" THEN decision
           ELSE [decision EXCEPT ![a] =
                   [outcome |-> final, reasons |-> Reasons(req[r].step, outcomes[r])]]
      /\ logs' = [logs EXCEPT ![a] = @ \cup
           Rows(req[r].step, req[r].answers, req[r].request_id, outcomes[r])]
      /\ Log(a, LinesOf(req[r], outcomes[r]))
      /\ owed' = [owed EXCEPT ![r] = [app |-> a, outcome |-> final]]
      /\ statusLines' = statusLines
      /\ pc' = [pc EXCEPT ![r] = "reply"]
  BY <1>0 DEF WriteBack, Commit, Answer, Goto
<1>2. /\ status'[a] = final
      /\ version'[a] = version[a] + 1 /\ version[a] \in Nat /\ version[a] # 0
      /\ final # "IN_PROGRESS" => decision'[a].outcome = final
      /\ final = "IN_PROGRESS" => decision' = decision
      /\ \A b \in App \ {a} : /\ status'[b] = status[b] /\ version'[b] = version[b]
                              /\ decision'[b] = decision[b] /\ logs'[b] = logs[b]
  <2>1. version[a] = req[r].version /\ req[r].version \in Nat \ {0}
    BY <1>0 DEF Commit, VersionIsCurrent, Post
  <2> QED BY <1>0, <1>1, <2>1 DEF Inv, TypeOK
<1>3. owed[r] = NothingOwed /\ \A b \in App : r \notin OwedTo(b)
  BY <1>0 DEF AuditInv, OwedAfterCommit, OwedTo
<1>4. /\ owed' \in [Request -> {NothingOwed} \cup [app : App, outcome : ApplicationStatus]]
      /\ owed'[r] = [app |-> a, outcome |-> final]
      /\ owed'[r] # NothingOwed
      /\ \A q \in Request \ {r} : owed'[q] = owed[q]
  BY <1>1 DEF AuditInv, LogTyped, NothingOwed, ApplicationStatus
<1>5. OwedTo(a)' = OwedTo(a) \cup {r}
      /\ \A b \in App \ {a} : OwedTo(b)' = OwedTo(b)
  BY <1>3, <1>4 DEF OwedTo
<1>6. LogTyped' /\ CheckLinesGrow
  <2>1. CheckLinesGrow
    BY <1>1, LogGrows DEF AuditInv
  <2> QED BY <1>1, <1>4, <2>1 DEF AuditInv, LogTyped, CheckLinesGrow
<1>7. OwedAfterCommit'
  BY <1>0, <1>1, <1>4 DEF AuditInv, OwedAfterCommit, Inv, TypeOK
<1>8. Counted'
  <2> DEFINE before == OwedTo(a)
  <2>1. IsFiniteSet(before) /\ Len(statusLines[a]) + Cardinality(before) < version[a]
    BY <1>2 DEF AuditInv, Counted
  <2>2. r \notin before
    BY <1>3
  <2>3. /\ IsFiniteSet(before \cup {r})
        /\ Cardinality(before \cup {r}) = Cardinality(before) + 1
        /\ Cardinality(before) \in Nat
    <3> HIDE DEF before
    <3> QED BY <2>1, <2>2, FS_AddElement, FS_CardinalityType
  <2>4. Len(statusLines[a]) \in Nat
    BY DEF AuditInv, LogTyped
  <2> HIDE DEF before
  <2>5. version'[a] # 0 /\ Len(statusLines[a]) + Cardinality(before \cup {r}) < version'[a]
    BY <1>2, <2>1, <2>3, <2>4
  <2>6. OwedTo(a)' = before \cup {r} /\ statusLines' = statusLines
    BY <1>1, <1>5 DEF before
  <2>7. IsFiniteSet(OwedTo(a)') /\ version'[a] # 0
        /\ Len(statusLines'[a]) + Cardinality(OwedTo(a)') < version'[a]
    BY <2>3, <2>5, <2>6, Zenon
  <2>8. ASSUME NEW b \in App \ {a}
        PROVE  OwedTo(b)' = OwedTo(b) /\ statusLines' = statusLines /\ version'[b] = version[b]
    BY <1>1, <1>2, <1>5
  <2>9. Counted
    BY DEF AuditInv
  <2> QED BY <2>7, <2>8, <2>9 DEF Counted
<1>9. ~IsClosed(decision[a].outcome)
  BY <1>0 DEF AuditInv, DecidedIsClosed
<1>10. DecidedIsClosed'
  <2>1. final = "IN_PROGRESS" \/ ~IsCustomerSubmittable(final) \/ ~IsClosed(final)
    BY DEF IsCustomerSubmittable, CUSTOMER_SUBMITTABLE_STATUSES, IsClosed, ApplicationStatus
  <2>2. final # "ABSENT"
    BY DEF ApplicationStatus
  <2>3. status'[a] = "ABSENT" \/ IsCustomerSubmittable(status'[a]) =>
          ~IsClosed(decision'[a].outcome)
    BY <1>2, <1>9, <2>1, <2>2
  <2> QED BY <1>2, <2>3 DEF AuditInv, DecidedIsClosed
<1>11. ToldTruly'
  <2>1. /\ \A k \in DOMAIN statusLines[a] : ~IsClosed(statusLines[a][k])
        /\ \A q \in OwedTo(a) : ~IsClosed(owed[q].outcome)
    BY <1>9 DEF AuditInv, ToldTruly
  <2>2. IsClosed(final) => decision'[a].outcome = final
    BY <1>2 DEF IsClosed
  <2>3. \A q \in OwedTo(a)' : IsClosed(owed'[q].outcome) =>
                                decision'[a].outcome = owed'[q].outcome
    <3> TAKE q \in OwedTo(a)'
    <3>1. CASE q = r
      BY <1>4, <2>2, <3>1
    <3>2. CASE q # r
      <4>1. q \in OwedTo(a) /\ q \in Request \ {r}
        BY <1>5, <3>2 DEF OwedTo
      <4> QED BY <1>4, <2>1, <4>1
    <3> QED BY <3>1, <3>2
  <2>4. \A b \in App \ {a} : \A q \in OwedTo(b)' :
          q \in OwedTo(b) /\ owed'[q] = owed[q]
    <3> TAKE b \in App \ {a}
    <3> TAKE q \in OwedTo(b)'
    <3>1. q \in OwedTo(b) /\ q \in Request \ {r}
      BY <1>3, <1>5 DEF OwedTo
    <3> QED BY <1>4, <3>1
  <2>5. \A b \in App \ {a} :
          /\ \A k \in DOMAIN statusLines[b] :
               IsClosed(statusLines[b][k]) => decision'[b].outcome = statusLines[b][k]
          /\ \A q \in OwedTo(b)' :
               IsClosed(owed'[q].outcome) => decision'[b].outcome = owed'[q].outcome
    BY <1>2, <2>4 DEF AuditInv, ToldTruly
  <2> QED BY <1>1, <2>1, <2>3, <2>5 DEF ToldTruly
<1>12. RowsAreAnnounced'
  <2>1. ASSUME NEW row \in Rows(req[r].step, req[r].answers, req[r].request_id, outcomes[r])
        PROVE  [service |-> row.service, outcome |-> row.outcome,
                request_id |-> row.request_id] \in LinesOf(req[r], outcomes[r])
    BY <2>1 DEF Rows, LinesOf
  <2>2. checkLines'[a] = checkLines[a] \cup LinesOf(req[r], outcomes[r])
    BY <1>1 DEF Log, AuditInv, LogTyped
  <2>3. logs'[a] = logs[a] \cup
          Rows(req[r].step, req[r].answers, req[r].request_id, outcomes[r])
    BY <1>0, <1>1 DEF Inv, TypeOK
  <2>4. \A row \in logs'[a] : [service |-> row.service, outcome |-> row.outcome,
                               request_id |-> row.request_id] \in checkLines'[a]
    BY <2>1, <2>2, <2>3 DEF AuditInv, RowsAreAnnounced
  <2> QED BY <1>2, <1>6, <2>4 DEF AuditInv, RowsAreAnnounced, CheckLinesGrow
<1> QED BY <1>6, <1>7, <1>8, <1>10, <1>11, <1>12 DEF AuditInv

-----------------------------------------------------------------------------
LEMMA AuditInitInv == AuditInit => AuditInv
<1> SUFFICES ASSUME AuditInit PROVE AuditInv
  OBVIOUS
<1>1. /\ Init
      /\ checkLines = [a \in App |-> {}]
      /\ statusLines = [a \in App |-> <<>>]
      /\ owed = [r \in Request |-> NothingOwed]
  BY DEF AuditInit
<1>2. Inv
  BY <1>1, InitInv
<1>3. LogTyped /\ OwedAfterCommit
  BY <1>1 DEF LogTyped, OwedAfterCommit
<1>4. \A a \in App : OwedTo(a) = {} /\ version[a] = 0 /\ statusLines[a] = <<>>
                     /\ logs[a] = {} /\ decision[a].outcome = "NONE"
  BY <1>1 DEF OwedTo, Init, NoDecision
<1>5. Counted
  BY <1>4, FS_EmptySet DEF Counted
<1>6. DecidedIsClosed
  BY <1>4 DEF DecidedIsClosed, IsClosed, ApplicationStatus
<1>7. ToldTruly /\ RowsAreAnnounced
  BY <1>4 DEF ToldTruly, RowsAreAnnounced
<1> QED BY <1>2, <1>3, <1>5, <1>6, <1>7 DEF AuditInv

LEMMA AuditStepInv == AuditInv /\ [AuditNext]_auditVars => AuditInv'
<1> SUFFICES ASSUME AuditInv, [AuditNext]_auditVars PROVE AuditInv'
  OBVIOUS
<1>1. Inv'
  BY AuditStepIsStep, StepInv DEF AuditInv
<1>2. ASSUME NEW a \in App, Start(a) PROVE AuditInv'
  BY <1>1, <1>2, StartedInv
<1>3. ASSUME NEW r \in Request, Quiet(r) PROVE AuditInv'
  BY <1>1, <1>3, QuietInv
<1>4. ASSUME NEW r \in Request, RollBack(r) \/ GiveUp(r) PROVE AuditInv'
  BY <1>1, <1>4, FailedInv
<1>5. ASSUME NEW r \in Request, WriteBack(r) PROVE AuditInv'
  BY <1>1, <1>5, WriteBackInv
<1>6. ASSUME NEW r \in Request, Announce(r) PROVE AuditInv'
  BY <1>1, <1>6, AnnounceInv
<1>7. ASSUME NEW r \in Request, Send(r) PROVE AuditInv'
  BY <1>1, <1>7, SendInv
<1>8. ASSUME NEW w \in Worker, Die(w) PROVE AuditInv'
  BY <1>1, <1>8, DieInv
<1>9. CASE UNCHANGED auditVars
  <2>1. /\ UNCHANGED <<tables, statusLines, checkLines, owed, pc>>
    BY <1>9 DEF auditVars, vars
  <2>2. \A q \in Request : owed'[q] # NothingOwed => owed'[q] = owed[q] /\ pc'[q] = "reply"
    BY <2>1 DEF AuditInv, OwedAfterCommit
  <2>3. CheckLinesGrow
    BY <2>1, NoLogGrows DEF AuditInv
  <2> QED BY <1>1, <2>1, <2>2, <2>3, StillInv DEF AuditInv, LogTyped
<1> QED BY <1>2, <1>3, <1>4, <1>5, <1>6, <1>7, <1>8, <1>9 DEF AuditNext

(* What is written to the log and what is still owed to it stay in step    *)
(* with the tables.                                                        *)
THEOREM AuditInvariance == AuditSpec => []AuditInv
  BY AuditInitInv, AuditStepInv, PTL DEF AuditSpec

(* The audit log only watches: with its lines left out, an execution is    *)
(* one of the handlers, so what log.py writes changes no table.            *)
THEOREM OnlyWatches == AuditSpec => Spec
<1>1. AuditInit => Init
  BY DEF AuditInit
<1> QED BY <1>1, AuditStepIsStep, PTL DEF AuditSpec, Spec

(* Hence the handlers with their log still implement the serial ledger.    *)
THEOREM AuditedImplements == AuditSpec => LedgerSpec
  BY OnlyWatches, Implements, PTL

(* Every row of integration_logs has its integration_check line, whatever  *)
(* the rollbacks and the crashes and however many workers share the log.   *)
THEOREM RowsAnnounced == AuditSpec => []RowsAreAnnounced
<1>1. AuditInv => RowsAreAnnounced
  BY DEF AuditInv
<1> QED BY <1>1, AuditInvariance, PTL

(* A status_change line tells of a commit: there are never as many lines   *)
(* as versions, and a line that tells of a decision tells of the one in    *)
(* the tables.                                                             *)
THEOREM StatusLinesTrue == AuditSpec => []StatusLinesAreTrue
<1>1. AuditInv => StatusLinesAreTrue
  <2> SUFFICES ASSUME AuditInv, NEW a \in App
               PROVE  /\ Len(statusLines[a]) < version[a] \/ statusLines[a] = <<>>
                      /\ \A k \in DOMAIN statusLines[a] :
                           IsClosed(statusLines[a][k]) =>
                             decision[a].outcome = statusLines[a][k]
    BY DEF StatusLinesAreTrue
  <2> DEFINE owedHere == OwedTo(a)
  <2>1. IsFiniteSet(owedHere)
    BY DEF AuditInv, Counted
  <2>2. Cardinality(owedHere) \in Nat
    <3> HIDE DEF owedHere
    <3> QED BY <2>1, FS_CardinalityType
  <2>3. Len(statusLines[a]) \in Nat /\ version[a] \in Nat
    BY DEF AuditInv, LogTyped, Inv, TypeOK
  <2>4. version[a] = 0 => statusLines[a] = <<>>
    BY DEF AuditInv, Counted
  <2>5. version[a] # 0 => Len(statusLines[a]) + Cardinality(owedHere) < version[a]
    BY DEF AuditInv, Counted
  <2> HIDE DEF owedHere
  <2>6. Len(statusLines[a]) < version[a] \/ statusLines[a] = <<>>
    BY <2>2, <2>3, <2>4, <2>5
  <2> QED BY <2>6 DEF AuditInv, ToldTruly
<1> QED BY <1>1, AuditInvariance, PTL

-----------------------------------------------------------------------------
(***************************************************************************)
(* One event loop.  The line of a commit is written before any other       *)
(* handler runs (LineIsNext), so at most one is owed at a time, and after  *)
(* the line of a decision none is.                                         *)
(***************************************************************************)
LastWordInv ==
    /\ \A q, r \in Request : owed[q] # NothingOwed /\ owed[r] # NothingOwed => q = r
    /\ \A a \in App : \A k \in DOMAIN statusLines[a] :
         IsClosed(statusLines[a][k]) => k = Len(statusLines[a]) /\ OwedTo(a) = {}

LEMMA NoLineComes ==
    ASSUME AuditInv, [AuditNext]_auditVars,
           ~ \E r \in Request : WriteBack(r) \/ Announce(r)
    PROVE  /\ statusLines' = statusLines
           /\ \A q \in Request : owed'[q] # NothingOwed => owed'[q] = owed[q]
<1>1. ASSUME NEW r \in Request, RollBack(r)
      PROVE  /\ statusLines' = statusLines
             /\ \A q \in Request : owed'[q] # NothingOwed => owed'[q] = owed[q]
  BY <1>1 DEF RollBack, OwedAfterRollback, AuditInv, LogTyped
<1>2. CASE ~ \E r \in Request : RollBack(r)
  BY <1>2 DEF AuditNext, Start, Quiet, GiveUp, Send, Die, NoLine, auditVars
<1> QED BY <1>1, <1>2

LEMMA LastWordKept ==
    ASSUME OneLoop, AuditInv, LastWordInv, [AuditNext]_auditVars
    PROVE  LastWordInv'
<1>1. CASE ~ \E r \in Request : WriteBack(r) \/ Announce(r)
  <2>1. /\ statusLines' = statusLines
        /\ \A q \in Request : owed'[q] # NothingOwed => owed'[q] = owed[q]
    BY <1>1, NoLineComes
  <2>2. \A a \in App : OwedTo(a)' \subseteq OwedTo(a)
    BY <2>1 DEF OwedTo
  <2> QED BY <2>1, <2>2 DEF LastWordInv
<1>2. ASSUME NEW r \in Request, WriteBack(r) PROVE LastWordInv'
  <2>1. /\ req[r] \in Post /\ IsCustomerSubmittable(status[req[r].app])
    BY <1>2, CommitFacts DEF WriteBack, AuditInv
  <2> PICK a \in App : a = req[r].app
    BY <2>1 DEF Post
  <2>2. \A q \in Request \ {r} : owed'[q] = NothingOwed
    BY <1>2 DEF WriteBack, LineIsNext, OneLoop, AuditInv, LogTyped
  <2>3. statusLines' = statusLines /\ \A b \in App \ {a} : OwedTo(b)' \subseteq {}
    <3>1. owed'[r].app = a /\ statusLines' = statusLines
      BY <1>2 DEF WriteBack, AuditInv, LogTyped
    <3> QED BY <2>2, <3>1 DEF OwedTo
  <2>4. \A k \in DOMAIN statusLines[a] : ~IsClosed(statusLines[a][k])
    BY <2>1 DEF AuditInv, ToldTruly, DecidedIsClosed
  <2> QED BY <2>2, <2>3, <2>4 DEF LastWordInv
<1>3. ASSUME NEW r \in Request, Announce(r) PROVE LastWordInv'
  <2>1. owed[r] # NothingOwed /\ owed[r].app \in App /\ owed[r].outcome \in ApplicationStatus
    BY <1>3 DEF Announce, AuditInv, LogTyped
  <2> PICK a \in App, line \in ApplicationStatus :
        a = owed[r].app /\ line = owed[r].outcome
    BY <2>1
  <2>2. \A q \in Request : owed'[q] = NothingOwed
    BY <1>3, <2>1 DEF Announce, LastWordInv, AuditInv, LogTyped
  <2>3. /\ statusLines'[a] = Append(statusLines[a], line)
        /\ statusLines[a] \in Seq(ApplicationStatus)
        /\ \A b \in App \ {a} : statusLines'[b] = statusLines[b]
    BY <1>3 DEF Announce, AuditInv, LogTyped
  <2>4. \A k \in DOMAIN statusLines[a] : ~IsClosed(statusLines[a][k])
    BY <2>1 DEF LastWordInv, OwedTo
  <2>5. \A k \in DOMAIN statusLines'[a] :
          IsClosed(statusLines'[a][k]) => k = Len(statusLines'[a])
    <3> TAKE k \in DOMAIN statusLines'[a]
    <3>1. \/ k = Len(statusLines[a]) + 1 /\ Len(statusLines'[a]) = Len(statusLines[a]) + 1
          \/ k \in DOMAIN statusLines[a] /\ statusLines'[a][k] = statusLines[a][k]
      BY <2>3
    <3> QED BY <2>4, <3>1
  <2>6. \A b \in App : OwedTo(b)' = {}
    BY <2>2 DEF OwedTo
  <2>7. ASSUME NEW b \in App, NEW k \in DOMAIN statusLines'[b], IsClosed(statusLines'[b][k])
        PROVE  k = Len(statusLines'[b])
    <3>1. CASE b = a
      BY <2>5, <2>7, <3>1
    <3>2. CASE b # a
      <4>1. statusLines'[b] = statusLines[b]
        BY <2>3, <3>2
      <4> QED BY <2>7, <4>1 DEF LastWordInv
    <3> QED BY <3>1, <3>2
  <2> QED BY <2>2, <2>6, <2>7 DEF LastWordInv
<1> QED BY <1>1, <1>2, <1>3

(* Where one event loop serves every request, the line that tells of the   *)
(* decision is the last line on the application.                           *)
THEOREM LastWord ==
    ASSUME OneLoop
    PROVE  AuditSpec => []DecisionIsLastWord
<1>1. AuditInit => LastWordInv
  BY DEF AuditInit, LastWordInv, OwedTo
<1>2. AuditInv /\ LastWordInv /\ [AuditNext]_auditVars => LastWordInv'
  BY LastWordKept
<1>3. LastWordInv => DecisionIsLastWord
  BY DEF LastWordInv, DecisionIsLastWord
<1> QED BY <1>1, <1>2, <1>3, AuditInvariance, PTL DEF AuditSpec

=============================================================================
