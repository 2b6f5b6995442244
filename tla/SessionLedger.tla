--------------------------- MODULE SessionLedger ---------------------------
(***************************************************************************)
(* A browser's session with a record of what no page shows: the log rows   *)
(* and the decisions that its submissions leave in the tables.  The record *)
(* only looks on; with it the session can be measured against the ledger.  *)
(***************************************************************************)
EXTENDS Session

VARIABLES logs, decision

record == <<logs, decision>>

(* The rest of the unit of work of PostSaved.  A browser sends no          *)
(* X-Request-ID, so the middleware makes a new one for each submission; no *)
(* two are saved from one version, and the version stands for the id.      *)
Record(q, verdicts) ==
    LET final == FinalStatus(q.step, verdicts) IN
    /\ logs' = [logs EXCEPT ![q.app] =
                   @ \cup Rows(q.step, q.answers, q.version, verdicts)]
    /\ decision' =
         IF final = "IN_PROGRESS" THEN decision
         ELSE [decision EXCEPT ![q.app] =
                 [outcome |-> final, reasons |-> Reasons(q.step, verdicts)]]

Saves ==
    \E t \in Tab : \E verdicts \in Verdicts(request[t].step) : PostSaved(t, verdicts)

RecordedInit ==
    /\ Init
    /\ logs = [a \in App |-> {}]
    /\ decision = [a \in App |-> NoDecision]

RecordedNext ==
    \/ \E t \in Tab : \E verdicts \in Verdicts(request[t].step) :
         PostSaved(t, verdicts) /\ Record(request[t], verdicts)
    \/ Next /\ ~Saves /\ UNCHANGED record

RecordedSpec == RecordedInit /\ [][RecordedNext]_<<vars, record>>

Ledger == INSTANCE StepLedger WITH RequestId <- 1 .. MaxVersion

(* Whatever the tabs do, and whatever is lost on the way, the tables move  *)
(* as if submissions had been accepted one at a time.                      *)
SessionKeepsLedger == Ledger!Spec

=============================================================================
