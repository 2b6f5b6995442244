------------------------- MODULE StepLedger_proofs -------------------------
(***************************************************************************)
(* The safety of StepLedger for every flow, every set of applications and  *)
(* any number of submissions.                                              *)
(*                                                                         *)
(* None of the properties is inductive alone.  That an approval is earned  *)
(* needs to be known before the approval: Inv says of every application    *)
(* that was not stopped that the checks of all its answered steps were     *)
(* passed by the stored answers, and that no row of its log is adverse.    *)
(***************************************************************************)
EXTENDS StepLedger, TLAPS

(* An application that does not exist has no rows.                         *)
AbsentIsEmpty ==
    \A a \in App : status[a] = "ABSENT" =>
        /\ logs[a] = {}
        /\ \A s \in Steps : responses[a][s] = NoAnswers

(* Not stopped: still open, or approved.                                   *)
ClearedSoFar ==
    \A a \in App : status[a] \in {"STARTED", "IN_PROGRESS", "APPROVED"} =>
        \A s \in Steps : Answered(a, s) => AllChecksCleared(a, s)

ApprovedIsComplete ==
    \A a \in App : status[a] = "APPROVED" => Answered(a, NumSteps)

Inv ==
    /\ TypeOK
    /\ AbsentIsEmpty
    /\ ResponsesArePrefix
    /\ OpenHasStepLeft
    /\ ClearedSoFar
    /\ ApprovedIsComplete
    /\ VerdictsDecide
    /\ DecisionMatchesRecord

-----------------------------------------------------------------------------

(* What a step's verdicts make of the application, worst verdict first.    *)
LEMMA FinalStatusCases ==
    ASSUME NEW s \in Steps, NEW verdicts \in Verdicts(s)
    PROVE  /\ FinalStatus(s, verdicts) \in
                {"IN_PROGRESS", "APPROVED", "MANUAL_REVIEW", "REJECTED"}
           /\ FinalStatus(s, verdicts) = "REJECTED" <=>
                \E k \in 1 .. Len(Required[s]) : verdicts[k] = "REJECTED"
           /\ FinalStatus(s, verdicts) = "MANUAL_REVIEW" <=>
                /\ \E k \in 1 .. Len(Required[s]) : verdicts[k] = "MANUAL_REVIEW"
                /\ ~\E k \in 1 .. Len(Required[s]) : verdicts[k] = "REJECTED"
           /\ FinalStatus(s, verdicts) = "IN_PROGRESS" => s # NumSteps
           /\ FinalStatus(s, verdicts) = "APPROVED" => s = NumSteps
           /\ FinalStatus(s, verdicts) \in {"IN_PROGRESS", "APPROVED"} =>
                \A k \in 1 .. Len(Required[s]) : verdicts[k] = "APPROVED"
<1>1. DOMAIN verdicts = 1 .. Len(Required[s])
  BY DEF Verdicts
<1>2. \A k \in 1 .. Len(Required[s]) : verdicts[k] \in CheckOutcome
  BY DEF Verdicts
<1>3. NextStep(s) # 0 <=> s < NumSteps
  BY FlowAssumption DEF NextStep, Steps
<1>4. s < NumSteps <=> s # NumSteps
  BY FlowAssumption DEF Steps
<1>5. CASE RejectedBy(verdicts)
  BY <1>1, <1>5 DEF FinalStatus, RejectedBy
<1>6. CASE ~RejectedBy(verdicts) /\ ReferredBy(verdicts)
  BY <1>1, <1>6 DEF FinalStatus, RejectedBy, ReferredBy
<1>7. CASE ~RejectedBy(verdicts) /\ ~ReferredBy(verdicts)
  <2>1. \A k \in 1 .. Len(Required[s]) : verdicts[k] = "APPROVED"
    BY <1>1, <1>2, <1>7 DEF RejectedBy, ReferredBy, CheckOutcome
  <2>2. FinalStatus(s, verdicts) =
          IF NextStep(s) = 0 THEN "APPROVED" ELSE "IN_PROGRESS"
    BY <1>7 DEF FinalStatus
  <2> QED BY <2>1, <2>2, <1>3, <1>4
<1> QED BY <1>5, <1>6, <1>7

(* The rows a submission adds: one per check, with its verdict.            *)
LEMMA RowsAreTyped ==
    ASSUME NEW s \in Steps, NEW p \in Answers, NEW request_id \in RequestId,
           NEW verdicts \in Verdicts(s)
    PROVE  /\ Rows(s, p, request_id, verdicts) \subseteq LogRow
           /\ \A k \in 1 .. Len(Required[s]) :
                \E row \in Rows(s, p, request_id, verdicts) :
                   row.service = Required[s][k] /\ row.outcome = verdicts[k]
                   /\ row.answers = p
           /\ \A row \in Rows(s, p, request_id, verdicts) :
                \E k \in 1 .. Len(Required[s]) :
                   row.service = Required[s][k] /\ row.outcome = verdicts[k]
<1>1. DOMAIN verdicts = 1 .. Len(Required[s])
  BY DEF Verdicts
<1>2. \A k \in 1 .. Len(Required[s]) :
        verdicts[k] \in CheckOutcome /\ Required[s][k] \in Integration
  BY FlowAssumption DEF Verdicts, Steps
<1> DEFINE row(k) == [service |-> Required[s][k], outcome |-> verdicts[k],
                      answers |-> p, request_id |-> request_id]
<1>3. Rows(s, p, request_id, verdicts) = {row(k) : k \in 1 .. Len(Required[s])}
  BY <1>1 DEF Rows
<1>4. \A k \in 1 .. Len(Required[s]) :
        /\ row(k) \in LogRow
        /\ row(k).service = Required[s][k]
        /\ row(k).outcome = verdicts[k]
        /\ row(k).answers = p
  BY <1>2 DEF LogRow
<1> QED BY <1>3, <1>4 DEF row

LEMMA ReasonsAreTyped ==
    ASSUME NEW s \in Steps, NEW verdicts \in Verdicts(s)
    PROVE  /\ Reasons(s, verdicts) \subseteq Reason
           /\ Reasons(s, verdicts) =
                {<<Required[s][k], verdicts[k]>> :
                   k \in {j \in 1 .. Len(Required[s]) : verdicts[j] # "APPROVED"}}
<1>1. DOMAIN verdicts = 1 .. Len(Required[s])
  BY DEF Verdicts
<1>2. \A k \in 1 .. Len(Required[s]) :
        verdicts[k] \in CheckOutcome /\ Required[s][k] \in Integration
  BY FlowAssumption DEF Verdicts, Steps
<1> QED BY <1>1, <1>2 DEF Reasons, Reason

-----------------------------------------------------------------------------

LEMMA InitInv == Init => Inv
<1> SUFFICES ASSUME Init PROVE Inv
  OBVIOUS
<1> USE DEF Init
<1>1. TypeOK
  BY DEF TypeOK, DecisionRecord, NoDecision
<1>2. AbsentIsEmpty
  BY DEF AbsentIsEmpty
<1>3. ResponsesArePrefix
  BY DEF ResponsesArePrefix, Answered
<1>4. OpenHasStepLeft
  BY DEF OpenHasStepLeft, IsCustomerSubmittable, CUSTOMER_SUBMITTABLE_STATUSES
<1>5. ClearedSoFar /\ ApprovedIsComplete
  BY DEF ClearedSoFar, ApprovedIsComplete
<1>6. VerdictsDecide
  BY DEF VerdictsDecide, HasRow
<1>7. DecisionMatchesRecord
  BY DEF DecisionMatchesRecord, IsClosed, ApplicationStatus, NoDecision,
         AdverseRows
<1> QED BY <1>1, <1>2, <1>3, <1>4, <1>5, <1>6, <1>7 DEF Inv

LEMMA StartInv ==
    ASSUME Inv, NEW a \in App, StartApplication(a)
    PROVE  Inv'
<1> USE DEF StartApplication
<1>0. TypeOK
  BY DEF Inv
<1>1. TypeOK'
  BY <1>0 DEF TypeOK, ApplicationStatus
<1>2. AbsentIsEmpty'
  BY <1>0 DEF Inv, AbsentIsEmpty, TypeOK
<1>3. ResponsesArePrefix'
  BY DEF Inv, ResponsesArePrefix, Answered
<1>4. \A s \in Steps : ~Answered(a, s)
  BY DEF Inv, AbsentIsEmpty, Answered
<1>5. NumSteps \in Steps
  BY FlowAssumption DEF Steps
<1>6. OpenHasStepLeft'
  BY <1>0, <1>4, <1>5 DEF Inv, OpenHasStepLeft, Answered, TypeOK
<1>7. ClearedSoFar'
  BY <1>0, <1>4 DEF Inv, ClearedSoFar, Answered, AllChecksCleared, Cleared, TypeOK
<1>8. ApprovedIsComplete'
  BY <1>0 DEF Inv, ApprovedIsComplete, Answered, TypeOK
<1>9. VerdictsDecide'
  BY <1>0 DEF Inv, VerdictsDecide, AbsentIsEmpty, HasRow, TypeOK
<1>10. DecisionMatchesRecord'
  BY <1>0 DEF Inv, DecisionMatchesRecord, IsClosed, ApplicationStatus, AdverseRows, TypeOK
<1> QED BY <1>1, <1>2, <1>3, <1>6, <1>7, <1>8, <1>9, <1>10 DEF Inv

(***************************************************************************)
(* A submission is accepted.  Only application a moves; it was open, so    *)
(* its log had no adverse row and its decision was empty.                  *)
(***************************************************************************)
LEMMA AcceptInv ==
    ASSUME Inv,
           NEW a \in App, NEW s \in Steps, NEW p \in Answers,
           NEW request_id \in RequestId, NEW verdicts \in Verdicts(s),
           Accept(a, s, p, request_id, verdicts)
    PROVE  Inv'
<1> DEFINE final == FinalStatus(s, verdicts)
           rows == Rows(s, p, request_id, verdicts)
<1>1. TypeOK
  BY DEF Inv
<1>2. /\ status[a] \in {"STARTED", "IN_PROGRESS"}
      /\ \A t \in 1 .. (s - 1) : Answered(a, t)
  BY DEF Accept, OpenTo, IsCustomerSubmittable, CUSTOMER_SUBMITTABLE_STATUSES
<1>3. /\ status' = [status EXCEPT ![a] = final]
      /\ responses' = [responses EXCEPT ![a][s] = p]
      /\ logs' = [logs EXCEPT ![a] = @ \cup rows]
      /\ version' = [version EXCEPT ![a] = @ + 1]
      /\ decision' = IF final = "IN_PROGRESS" THEN decision
                     ELSE [decision EXCEPT ![a] =
                             [outcome |-> final, reasons |-> Reasons(s, verdicts)]]
  BY DEF Accept
<1>4. /\ status'[a] = final
      /\ \A b \in App \ {a} : status'[b] = status[b]
  BY <1>1, <1>3 DEF TypeOK
<1>5. /\ responses'[a][s] = p
      /\ \A t \in Steps \ {s} : responses'[a][t] = responses[a][t]
      /\ \A b \in App \ {a} : responses'[b] = responses[b]
  BY <1>1, <1>3 DEF TypeOK
<1>6. /\ logs'[a] = logs[a] \cup rows
      /\ \A b \in App \ {a} : logs'[b] = logs[b]
  BY <1>1, <1>3 DEF TypeOK
<1>7. /\ decision'[a] = IF final = "IN_PROGRESS" THEN decision[a]
                       ELSE [outcome |-> final, reasons |-> Reasons(s, verdicts)]
      /\ \A b \in App \ {a} : decision'[b] = decision[b]
  BY <1>1, <1>3 DEF TypeOK
<1>8. p # NoAnswers
  BY SentinelAssumption
<1>9. /\ final \in {"IN_PROGRESS", "APPROVED", "MANUAL_REVIEW", "REJECTED"}
      /\ final = "REJECTED" <=>
           \E k \in 1 .. Len(Required[s]) : verdicts[k] = "REJECTED"
      /\ final = "MANUAL_REVIEW" <=>
           /\ \E k \in 1 .. Len(Required[s]) : verdicts[k] = "MANUAL_REVIEW"
           /\ ~\E k \in 1 .. Len(Required[s]) : verdicts[k] = "REJECTED"
      /\ final = "IN_PROGRESS" => s # NumSteps
      /\ final = "APPROVED" => s = NumSteps
      /\ final \in {"IN_PROGRESS", "APPROVED"} =>
           \A k \in 1 .. Len(Required[s]) : verdicts[k] = "APPROVED"
  BY FinalStatusCases
<1>10. /\ rows \subseteq LogRow
       /\ \A k \in 1 .. Len(Required[s]) :
            \E row \in rows :
              row.service = Required[s][k] /\ row.outcome = verdicts[k]
              /\ row.answers = p
       /\ \A row \in rows :
            \E k \in 1 .. Len(Required[s]) :
              row.service = Required[s][k] /\ row.outcome = verdicts[k]
  BY RowsAreTyped
<1>11. \A row \in logs[a] : row.outcome = "APPROVED"
  <2>1. \A row \in logs[a] : row.outcome \in CheckOutcome
    BY <1>1 DEF TypeOK, LogRow
  <2>2. ~HasRow(a, "REJECTED") /\ ~HasRow(a, "MANUAL_REVIEW")
    BY <1>2 DEF Inv, VerdictsDecide
  <2> QED BY <2>1, <2>2 DEF HasRow, CheckOutcome
<1>12. \A k \in 1 .. Len(Required[s]) : verdicts[k] \in CheckOutcome
  BY DEF Verdicts
<1> HIDE DEF final, rows
<1>20. TypeOK'
  <2>1. status' \in [App -> ApplicationStatus \cup {"ABSENT"}]
    BY <1>1, <1>3, <1>9 DEF TypeOK, ApplicationStatus
  <2>2. version' \in [App -> Nat]
    BY <1>1, <1>3 DEF TypeOK
  <2>3. responses' \in [App -> [Steps -> Answers \cup {NoAnswers}]]
    BY <1>1, <1>3 DEF TypeOK
  <2>4. logs' \in [App -> SUBSET LogRow]
    <3>1. logs[a] \cup rows \in SUBSET LogRow
      BY <1>1, <1>10 DEF TypeOK
    <3> QED BY <1>1, <1>3, <3>1 DEF TypeOK
  <2>5. decision' \in [App -> DecisionRecord]
    <3>1. [outcome |-> final, reasons |-> Reasons(s, verdicts)] \in DecisionRecord
      BY <1>9, ReasonsAreTyped DEF DecisionRecord, ApplicationStatus
    <3> QED BY <1>1, <1>3, <3>1 DEF TypeOK
  <2> QED BY <2>1, <2>2, <2>3, <2>4, <2>5 DEF TypeOK
<1>21. AbsentIsEmpty'
  BY <1>4, <1>5, <1>6, <1>9 DEF Inv, AbsentIsEmpty
<1>22. ResponsesArePrefix'
  <2> SUFFICES ASSUME NEW b \in App, NEW u \in Steps, NEW t \in Steps,
                      t < u, responses'[b][u] # NoAnswers
               PROVE  responses'[b][t] # NoAnswers
    BY DEF ResponsesArePrefix, Answered
  <2>1. CASE b # a
    BY <1>5, <2>1 DEF Inv, ResponsesArePrefix, Answered
  <2>2. CASE b = a /\ u # s
    BY <1>5, <1>8, <2>2 DEF Inv, ResponsesArePrefix, Answered
  <2>3. CASE b = a /\ u = s
    <3>1. t \in 1 .. (s - 1) /\ t # s
      BY <2>3, FlowAssumption DEF Steps
    <3> QED BY <1>2, <1>5, <2>3, <3>1 DEF Answered
  <2> QED BY <2>1, <2>2, <2>3
<1>23. OpenHasStepLeft'
  <2> SUFFICES ASSUME NEW b \in App, status'[b] \in {"STARTED", "IN_PROGRESS"}
               PROVE  responses'[b][NumSteps] = NoAnswers
    BY DEF OpenHasStepLeft, IsCustomerSubmittable,
           CUSTOMER_SUBMITTABLE_STATUSES, Answered
  <2>1. NumSteps \in Steps
    BY FlowAssumption DEF Steps
  <2>2. \A c \in App : status[c] \in {"STARTED", "IN_PROGRESS"} =>
                            responses[c][NumSteps] = NoAnswers
    BY DEF Inv, OpenHasStepLeft, IsCustomerSubmittable,
           CUSTOMER_SUBMITTABLE_STATUSES, Answered
  <2>3. CASE b = a
    BY <1>2, <1>4, <1>5, <1>9, <2>1, <2>2, <2>3
  <2>4. CASE b # a
    BY <1>4, <1>5, <2>2, <2>4
  <2> QED BY <2>3, <2>4
<1>24. ClearedSoFar'
  <2> SUFFICES ASSUME NEW b \in App,
                      status'[b] \in {"STARTED", "IN_PROGRESS", "APPROVED"},
                      NEW t \in Steps, responses'[b][t] # NoAnswers,
                      NEW k \in 1 .. Len(Required[t])
               PROVE  Cleared(b, t, Required[t][k])'
    BY DEF ClearedSoFar, Answered, AllChecksCleared
  <2>1. CASE b # a
    <3>1. Cleared(b, t, Required[t][k])
      BY <1>4, <1>5, <2>1 DEF Inv, ClearedSoFar, Answered, AllChecksCleared
    <3> QED BY <1>5, <1>6, <2>1, <3>1 DEF Cleared
  <2>2. CASE b = a /\ t # s
    <3>1. Cleared(a, t, Required[t][k])
      BY <1>2, <1>5, <2>2 DEF Inv, ClearedSoFar, Answered, AllChecksCleared
    <3> QED BY <1>5, <1>6, <2>2, <3>1 DEF Cleared
  <2>3. CASE b = a /\ t = s
    <3>1. verdicts[k] = "APPROVED"
      BY <1>4, <1>9, <2>3
    <3>2. PICK row \in rows : /\ row.service = Required[s][k]
                              /\ row.outcome = verdicts[k]
                              /\ row.answers = p
      BY <1>10, <2>3
    <3> QED BY <1>5, <1>6, <2>3, <3>1, <3>2 DEF Cleared
  <2> QED BY <2>1, <2>2, <2>3
<1>25. ApprovedIsComplete'
  <2> SUFFICES ASSUME NEW b \in App, status'[b] = "APPROVED"
               PROVE  responses'[b][NumSteps] # NoAnswers
    BY DEF ApprovedIsComplete, Answered
  <2>1. CASE b = a
    BY <1>4, <1>5, <1>8, <1>9, <2>1
  <2>2. CASE b # a
    BY <1>4, <1>5, <2>2 DEF Inv, ApprovedIsComplete, Answered
  <2> QED BY <2>1, <2>2
<1>26. VerdictsDecide'
  <2>1. \A b \in App \ {a}, o \in CheckOutcome : HasRow(b, o)' <=> HasRow(b, o)
    BY <1>6 DEF HasRow
  <2>2. \A o \in {"REJECTED", "MANUAL_REVIEW"} :
          HasRow(a, o)' <=> \E k \in 1 .. Len(Required[s]) : verdicts[k] = o
    BY <1>6, <1>10, <1>11 DEF HasRow
  <2> SUFFICES ASSUME NEW b \in App
               PROVE  /\ (status'[b] = "REJECTED") <=> HasRow(b, "REJECTED")'
                      /\ (status'[b] = "MANUAL_REVIEW") <=>
                           HasRow(b, "MANUAL_REVIEW")' /\ ~HasRow(b, "REJECTED")'
    BY DEF VerdictsDecide
  <2>3. CASE b = a
    BY <1>4, <1>9, <2>2, <2>3
  <2>4. CASE b # a
    BY <1>4, <2>1, <2>4 DEF Inv, VerdictsDecide, CheckOutcome
  <2> QED BY <2>3, <2>4
<1>27. DecisionMatchesRecord'
  <2> SUFFICES ASSUME NEW b \in App
               PROVE  /\ IsClosed(status'[b]) => decision'[b].outcome = status'[b]
                      /\ ~IsClosed(status'[b]) => decision'[b] = NoDecision
                      /\ decision'[b].reasons =
                           {<<row.service, row.outcome>> : row \in AdverseRows(b)'}
    BY DEF DecisionMatchesRecord
  <2>1. CASE b # a
    BY <1>4, <1>6, <1>7, <2>1 DEF Inv, DecisionMatchesRecord, AdverseRows
  <2>2. CASE b = a
    <3>1. AdverseRows(a)' = {row \in rows : row.outcome # "APPROVED"}
      BY <1>6, <1>11 DEF AdverseRows
    <3>2. Reasons(s, verdicts) =
            {<<row.service, row.outcome>> : row \in AdverseRows(a)'}
      <4>1. Reasons(s, verdicts) =
              {<<Required[s][k], verdicts[k]>> :
                 k \in {j \in 1 .. Len(Required[s]) : verdicts[j] # "APPROVED"}}
        BY ReasonsAreTyped
      <4>2. Reasons(s, verdicts) \subseteq
              {<<row.service, row.outcome>> : row \in AdverseRows(a)'}
        BY <1>10, <3>1, <4>1
      <4>3. {<<row.service, row.outcome>> : row \in AdverseRows(a)'}
              \subseteq Reasons(s, verdicts)
        BY <1>10, <3>1, <4>1
      <4> QED BY <4>2, <4>3
    <3>3. CASE final = "IN_PROGRESS"
      <4>1. decision'[a] = NoDecision /\ ~IsClosed(status'[a])
        BY <1>2, <1>4, <1>7, <3>3
           DEF Inv, DecisionMatchesRecord, IsClosed, ApplicationStatus
      <4>2. AdverseRows(a)' = {}
        BY <1>9, <1>10, <3>1, <3>3
      <4> QED BY <2>2, <4>1, <4>2 DEF NoDecision
    <3>4. CASE final # "IN_PROGRESS"
      <4>1. decision'[a] = [outcome |-> final, reasons |-> Reasons(s, verdicts)]
        BY <1>7, <3>4
      <4>2. IsClosed(status'[a])
        BY <1>4, <1>9, <3>4 DEF IsClosed, ApplicationStatus
      <4> QED BY <1>4, <2>2, <3>2, <4>1, <4>2
    <3> QED BY <3>3, <3>4
  <2> QED BY <2>1, <2>2
<1> QED
  BY <1>20, <1>21, <1>22, <1>23, <1>24, <1>25, <1>26, <1>27 DEF Inv

LEMMA StepInv == Inv /\ [Next]_vars => Inv'
<1> SUFFICES ASSUME Inv, [Next]_vars PROVE Inv'
  OBVIOUS
<1>1. ASSUME NEW a \in App, StartApplication(a) PROVE Inv'
  BY <1>1, StartInv
<1>2. ASSUME NEW a \in App, NEW s \in Steps, NEW p \in Answers,
             NEW request_id \in RequestId, NEW verdicts \in Verdicts(s),
             Accept(a, s, p, request_id, verdicts)
      PROVE  Inv'
  BY <1>2, AcceptInv
<1>3. CASE UNCHANGED vars
  BY <1>3 DEF vars, Inv, TypeOK, AbsentIsEmpty, ResponsesArePrefix,
     OpenHasStepLeft, ClearedSoFar, ApprovedIsComplete, VerdictsDecide,
     DecisionMatchesRecord, Answered, AllChecksCleared, Cleared, HasRow,
     AdverseRows
<1> QED BY <1>1, <1>2, <1>3 DEF Next

(* The inductive invariant holds throughout.                               *)
THEOREM Invariance == Spec => []Inv
<1>1. Init => Inv
  BY InitInv
<1>2. Inv /\ [Next]_vars => Inv'
  BY StepInv
<1> QED BY <1>1, <1>2, PTL DEF Spec

-----------------------------------------------------------------------------

(* The tables keep their shape: statuses are those of the enumeration, log *)
(* rows name checks and verdicts (db/models.py).                           *)
THEOREM TypeCorrect == Spec => []TypeOK
<1>1. Inv => TypeOK
  BY DEF Inv
<1> QED BY <1>1, Invariance, PTL

(* No order of submissions leaves a gap in the saved responses, which is   *)
(* what the render guard relies on.                                        *)
THEOREM ResponsesInOrder == Spec => []ResponsesArePrefix
<1>1. Inv => ResponsesArePrefix
  BY DEF Inv
<1> QED BY <1>1, Invariance, PTL

(* An open application has its last step left to do, so that the resume    *)
(* lookup finds a step without a response.                                 *)
THEOREM OpenHasAStepLeft == Spec => []OpenHasStepLeft
<1>1. Inv => OpenHasStepLeft
  BY DEF Inv
<1> QED BY <1>1, Invariance, PTL

(* An approved application has answers in every step, and every required   *)
(* check was passed by the very answers that are stored.                   *)
THEOREM EarnedApproval == Spec => []ApprovalIsEarned
<1>1. ASSUME Inv PROVE ApprovalIsEarned
  <2> SUFFICES ASSUME NEW a \in App, status[a] = "APPROVED", NEW s \in Steps
               PROVE  Answered(a, s) /\ AllChecksCleared(a, s)
    BY DEF ApprovalIsEarned
  <2>1. NumSteps \in Steps /\ (s = NumSteps \/ s < NumSteps)
    BY FlowAssumption DEF Steps
  <2>2. Answered(a, NumSteps)
    BY <1>1 DEF Inv, ApprovedIsComplete
  <2>3. Answered(a, s)
    BY <1>1, <2>1, <2>2 DEF Inv, ResponsesArePrefix
  <2> QED BY <1>1, <2>3 DEF Inv, ClearedSoFar
<1> QED BY <1>1, Invariance, PTL

(* Rejected iff a check rejected, referred iff a check referred and none   *)
(* rejected; an open or approved application has no adverse row.           *)
THEOREM StatusFollowsVerdicts == Spec => []VerdictsDecide
<1>1. Inv => VerdictsDecide
  BY DEF Inv
<1> QED BY <1>1, Invariance, PTL

(* The decision row and the log agree about the outcome and the reasons.   *)
THEOREM DecisionIsOnRecord == Spec => []DecisionMatchesRecord
<1>1. Inv => DecisionMatchesRecord
  BY DEF Inv
<1> QED BY <1>1, Invariance, PTL

(* A closed application never changes again.                               *)
THEOREM ClosedStaysClosed == Spec => ClosedNeverChanges
<1>1. ASSUME Inv, [Next]_vars, NEW a \in App, IsClosed(status[a])
      PROVE  /\ status'[a] = status[a]
             /\ version'[a] = version[a]
             /\ responses'[a] = responses[a]
             /\ logs'[a] = logs[a]
             /\ decision'[a] = decision[a]
  <2>1. status[a] \in {"APPROVED", "MANUAL_REVIEW", "REJECTED"} /\ TypeOK
    BY <1>1 DEF IsClosed, ApplicationStatus, Inv
  <2>2. ASSUME NEW b \in App, StartApplication(b)
        PROVE  /\ status'[a] = status[a]
               /\ version'[a] = version[a]
               /\ responses'[a] = responses[a]
               /\ logs'[a] = logs[a]
               /\ decision'[a] = decision[a]
    BY <2>1, <2>2 DEF StartApplication, TypeOK
  <2>3. ASSUME NEW b \in App, NEW s \in Steps, NEW p \in Answers,
               NEW request_id \in RequestId, NEW verdicts \in Verdicts(s),
               Accept(b, s, p, request_id, verdicts)
        PROVE  /\ status'[a] = status[a]
               /\ version'[a] = version[a]
               /\ responses'[a] = responses[a]
               /\ logs'[a] = logs[a]
               /\ decision'[a] = decision[a]
    <3>1. b # a
      BY <2>1, <2>3 DEF Accept, OpenTo, IsCustomerSubmittable,
         CUSTOMER_SUBMITTABLE_STATUSES
    <3> QED BY <2>1, <2>3, <3>1 DEF Accept, TypeOK
  <2>4. CASE UNCHANGED vars
    BY <2>4 DEF vars
  <2> QED BY <1>1, <2>2, <2>3, <2>4 DEF Next
<1>2. Inv /\ [Next]_vars =>
        [\A a \in App : IsClosed(status[a]) =>
          /\ status'[a] = status[a]
          /\ version'[a] = version[a]
          /\ responses'[a] = responses[a]
          /\ logs'[a] = logs[a]
          /\ decision'[a] = decision[a]]_vars
  BY <1>1
<1> QED BY <1>2, Invariance, PTL DEF Spec, ClosedNeverChanges

=============================================================================
