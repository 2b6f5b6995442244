------------------------------- MODULE Audit -------------------------------
(***************************************************************************)
(* The audit log beside the tables: Onboarding with the lines that its     *)
(* handlers write to stderr (audit/log.py).  A line cannot be taken back;  *)
(* the tables can be rolled back, and a worker can die between the two.    *)
(*                                                                         *)
(* log_integration_check writes a line per check within the unit of work,  *)
(* after the response was flushed and before the guarded UPDATE.           *)
(* log_status_change writes one after the commit; it is a step of its own, *)
(* because another worker may write to the same log first.                 *)
(***************************************************************************)
EXTENDS Onboarding

VARIABLES
    checkLines,     \* integration_check lines, by application
    statusLines,    \* status_change lines, by application, in their order
    owed            \* the status_change line that a handler has yet to write

auditVars == <<vars, checkLines, statusLines, owed>>

CheckLine == [service : Integration, outcome : CheckOutcome, request_id : RequestId]

NothingOwed == [app |-> NoPost, outcome |-> "NONE"]

\* Mutant: only adverse results are worth a line.
LinesOfAdverse(p, verdicts) ==
    {[service |-> Required[p.step][k], outcome |-> verdicts[k],
      request_id |-> p.request_id] :
        k \in {j \in DOMAIN verdicts : verdicts[j] # "APPROVED"}}

(* log_integration_check, once per result.                                 *)
LinesOf(p, verdicts) ==
    {[service |-> Required[p.step][k], outcome |-> verdicts[k],
      request_id |-> p.request_id] : k \in DOMAIN verdicts}

Log(a, lines) == checkLines' = [checkLines EXCEPT ![a] = @ \cup lines]

NoLine == UNCHANGED <<checkLines, statusLines, owed>>

\* Mutant: another handler may run between the commit and its line.
LineIsNextAnyTime(r) == TRUE

(* The commit and its line are not apart on one event loop.                *)
LineIsNext(r) ==
    \A q \in Request \ {r} : WorkerOf[q] = WorkerOf[r] => owed[q] = NothingOwed

AuditInit ==
    /\ Init
    /\ checkLines = [a \in App |-> {}]
    /\ statusLines = [a \in App |-> <<>>]
    /\ owed = [r \in Request |-> NothingOwed]

(* Requests that reach no unit of work write no audit line.                *)
Quiet(r) ==
    /\ LineIsNext(r)
    /\ \/ \E a \in App : \E p \in PostsTo(a) : Submit(r, p) \/ SubmitRefused(r, p)
       \/ LoadStatus(r)
       \/ StepBlocked(r)
       \/ StepRepeated(r)
       \/ StepAdmitted(r)
       \/ \E outcome \in CheckOutcome : CheckReturns(r, outcome)
       \/ CheckFails(r)
       \/ SelectResponse(r)
    /\ NoLine

Start(a) ==
    /\ \E w \in Worker : \A r \in Request : WorkerOf[r] = w => owed[r] = NothingOwed
    /\ StartApplication(a)
    /\ NoLine

\* Mutant: the line is written when the unit of work ends, whichever way.
OwedAlways(r) ==
    [app |-> req[r].app, outcome |-> FinalStatus(req[r].step, outcomes[r])]

(* A unit of work that was rolled back has no status to announce.          *)
OwedAfterRollback(r) == NothingOwed

(* The insert that collides comes before the lines, the UPDATE that misses *)
(* and the log row that exists come after.                                 *)
RollBack(r) ==
    LET p == req[r] IN
    /\ LineIsNext(r)
    /\ CommitRolledBack(r)
    /\ Log(p.app, IF InsertCollides(r) THEN {} ELSE LinesOf(p, outcomes[r]))
    /\ owed' = [owed EXCEPT ![r] = OwedAfterRollback(r)]
    /\ UNCHANGED statusLines

WriteBack(r) ==
    LET p == req[r] IN
    /\ LineIsNext(r)
    /\ Commit(r)
    /\ Log(p.app, LinesOf(p, outcomes[r]))
    /\ owed' = [owed EXCEPT ![r] =
                  [app |-> p.app, outcome |-> FinalStatus(p.step, outcomes[r])]]
    /\ UNCHANGED statusLines

(* log_status_change.                                                      *)
Announce(r) ==
    /\ owed[r] # NothingOwed
    /\ statusLines' = [statusLines EXCEPT ![owed[r].app] = Append(@, owed[r].outcome)]
    /\ owed' = [owed EXCEPT ![r] = NothingOwed]
    /\ UNCHANGED <<vars, checkLines>>

(* The database gives up, or the worker dies, with the first lines of the  *)
(* unit of work written.                                                   *)
SomeLines(r) ==
    IF pc[r] = "commit" /\ ~InsertCollides(r)
    THEN {LinesOf(req[r], SubSeq(outcomes[r], 1, n)) : n \in 0 .. Len(outcomes[r])}
    ELSE {{}}

GiveUp(r) ==
    /\ LineIsNext(r)
    /\ \E lines \in SomeLines(r) :
         IF lines = {} THEN UNCHANGED checkLines ELSE Log(req[r].app, lines)
    /\ DatabaseFails(r)
    /\ UNCHANGED <<statusLines, owed>>

Send(r) ==
    /\ owed[r] = NothingOwed
    /\ Deliver(r)
    /\ NoLine

(* A line that is owed is lost with the worker.                            *)
Die(w) ==
    /\ Crash(w)
    /\ owed' = [r \in Request |-> IF WorkerOf[r] = w THEN NothingOwed ELSE owed[r]]
    /\ \/ UNCHANGED checkLines
       \/ \E r \in Request :
            /\ WorkerOf[r] = w
            /\ \E lines \in SomeLines(r) \ {{}} : Log(req[r].app, lines)
    /\ UNCHANGED statusLines

AuditNext ==
    \/ \E a \in App : Start(a)
    \/ \E r \in Request :
         Quiet(r) \/ RollBack(r) \/ WriteBack(r) \/ Announce(r) \/ GiveUp(r) \/ Send(r)
    \/ \E w \in Worker : Die(w)

AuditSpec == AuditInit /\ [][AuditNext]_auditVars

(* A handler that can go on does go on: the event loop serves its ready    *)
(* queue first come first served, so a resumed handler is not passed over  *)
(* for ever (strong fairness, for other handlers take turns in between),   *)
(* and every provider call ends in a result or in a timeout.  Nothing is   *)
(* assumed of browsers, of crashes or of the delivery of a response.       *)
GoesOn(r) ==
    \/ pc[r] # "idle" /\ Quiet(r)
    \/ RollBack(r)
    \/ WriteBack(r)
    \/ Announce(r)
    \/ GiveUp(r)

FairAuditSpec == AuditSpec /\ \A r \in Request : SF_auditVars(GoesOn(r))

-----------------------------------------------------------------------------
(***************************************************************************)
(* Properties.                                                             *)
(***************************************************************************)

(* Every check that counts is in the audit log: whatever the crashes, an   *)
(* integration_logs row has its line.  (The converse does not hold: a line *)
(* is also written for a check whose row is rolled back.)                  *)
RowsAreAnnounced ==
    \A a \in App : \A row \in logs[a] :
        [service |-> row.service, outcome |-> row.outcome,
         request_id |-> row.request_id] \in checkLines[a]

(* A status_change line tells of a commit that happened: never more lines  *)
(* than commits, and none of a decision other than the one in the tables.  *)
StatusLinesAreTrue ==
    \A a \in App :
        /\ Len(statusLines[a]) < version[a] \/ statusLines[a] = <<>>
        /\ \A k \in DOMAIN statusLines[a] :
             IsClosed(statusLines[a][k]) => decision[a].outcome = statusLines[a][k]

(* On one event loop the decision is the last word on an application: no   *)
(* line that says IN_PROGRESS comes after it.                              *)
DecisionIsLastWord ==
    \A a \in App : \A k \in DOMAIN statusLines[a] :
        IsClosed(statusLines[a][k]) => k = Len(statusLines[a])

=============================================================================
