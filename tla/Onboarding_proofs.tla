------------------------- MODULE Onboarding_proofs -------------------------
(***************************************************************************)
(* The request handlers implement the ledger, for any number of            *)
(* applications, requests in flight and worker processes and every flow.   *)
(*                                                                         *)
(* The argument is the one optimistic concurrency rests on.  What a        *)
(* handler concluded from its reads (the application is open, the earlier  *)
(* steps are saved, the answers are new) may be stale by the time it       *)
(* commits; but every commit moves the version, versions never repeat,     *)
(* and the posted version was no later than the reads.  So as long as the  *)
(* posted version is the current one, the conclusions still hold           *)
(* (ReadsAreCurrent), and the UPDATE succeeds only then.  MayRun is used   *)
(* for DecisionPages alone: the rest does not need the event loop.         *)
(***************************************************************************)
EXTENDS Onboarding, TLAPS

InFlight(r) == pc[r] \notin {"idle", "reply"}

AbsentHasNoVersion == \A a \in App : status[a] = "ABSENT" => version[a] = 0

ReadsAreCurrent ==
    \A r \in Request : InFlight(r) =>
        LET p == req[r] IN
        /\ p.version <= version[p.app]
        /\ p.version = version[p.app] =>
             /\ IsCustomerSubmittable(status[p.app])
             /\ pc[r] \in {"run", "select", "commit"} =>
                  /\ Reachable(p.app, p.step)
                  /\ responses[p.app][p.step] # p.answers

Inv == TypeOK /\ AbsentHasNoVersion /\ ReadsAreCurrent

-----------------------------------------------------------------------------
(* The operators of the instance are those of this module.                 *)
LEMMA SameOperators ==
    /\ Ledger!Steps = Steps
    /\ \A s \in Steps : \A verdicts \in Verdicts(s) :
         /\ verdicts \in Ledger!Verdicts(s)
         /\ Ledger!FinalStatus(s, verdicts) = FinalStatus(s, verdicts)
         /\ Ledger!Reasons(s, verdicts) = Reasons(s, verdicts)
    /\ \A s \in Steps, p \in Answers, request_id \in RequestId :
         \A verdicts \in Verdicts(s) :
           Ledger!Rows(s, p, request_id, verdicts) = Rows(s, p, request_id, verdicts)
    /\ \A st : Ledger!IsCustomerSubmittable(st) <=> IsCustomerSubmittable(st)
    /\ Ledger!NoDecision = NoDecision
  BY DEF Ledger!Steps, Steps, Ledger!Verdicts, Verdicts, Ledger!FinalStatus,
     FinalStatus, Ledger!RejectedBy, RejectedBy, Ledger!ReferredBy, ReferredBy,
     Ledger!NextStep, NextStep, Ledger!Reasons, Reasons, Ledger!Rows, Rows,
     Ledger!IsCustomerSubmittable, IsCustomerSubmittable,
     Ledger!CUSTOMER_SUBMITTABLE_STATUSES, CUSTOMER_SUBMITTABLE_STATUSES,
     Ledger!NoDecision, NoDecision, Ledger!CheckOutcome, CheckOutcome

-----------------------------------------------------------------------------
(* Typing, action by action.                                               *)

LEMMA PagesAreReplies ==
    /\ NoReply \in Reply
    /\ \A kind \in ReplyKind : ErrorPage(kind) \in Reply
    /\ \A p \in Post : ConflictPage(p) \in Reply
    /\ \A p \in Post, kind \in ReplyKind, st \in ApplicationStatus \cup {"ABSENT"},
         next \in Steps \cup {0} : SuccessPage(kind, p, st, next) \in Reply
<1>1. \A kind \in ReplyKind : ErrorPage(kind) \in Reply
  BY DEF ErrorPage, Reply
<1>2. NoReply \in Reply
  BY <1>1 DEF NoReply, ReplyKind
<1>3. ASSUME NEW p \in Post PROVE ConflictPage(p) \in Reply
  BY DEF ConflictPage, ErrorPage, Reply, ReplyKind, Post
<1>4. ASSUME NEW p \in Post, NEW kind \in ReplyKind,
             NEW st \in ApplicationStatus \cup {"ABSENT"}, NEW next \in Steps \cup {0}
      PROVE  SuccessPage(kind, p, st, next) \in Reply
  BY DEF SuccessPage, Reply, Post
<1> QED BY <1>1, <1>2, <1>3, <1>4

LEMMA StepNumbers ==
    ASSUME NEW s \in Steps
    PROVE  /\ NextStep(s) \in Steps \cup {0}
           /\ \A st : NextPage(s, st) \in Steps \cup {0}
           /\ Len(Required[s]) \in Nat
           /\ \A n \in Nat : /\ NextPhase(s, n) \in {"run", "select"}
                             /\ NextPhase(s, n) = "run" <=> n < Len(Required[s])
  BY FlowAssumption DEF NextStep, NextPage, Steps, NextPhase

(* Only the tables of the handlers' locals are touched.                    *)
LocalsOK ==
    /\ pc \in [Request -> Phase]
    /\ req \in [Request -> Post \cup {NoPost}]
    /\ statusRead \in [Request -> ApplicationStatus \cup {"ABSENT"}]
    /\ outcomes \in [Request -> Seq(CheckOutcome)]
    /\ rowSeen \in [Request -> BOOLEAN]
    /\ reply \in [Request -> Reply]
    /\ \A r \in Request :
         /\ pc[r] \notin {"idle", "reply"} => req[r] \in Post
         /\ pc[r] \notin {"run", "select", "commit"} => outcomes[r] = <<>>
         /\ pc[r] = "run" => Len(outcomes[r]) < Len(Required[req[r].step])
         /\ pc[r] \in {"select", "commit"} =>
              Len(outcomes[r]) = Len(Required[req[r].step])

TablesOK ==
    /\ status \in [App -> ApplicationStatus \cup {"ABSENT"}]
    /\ version \in [App -> Nat]
    /\ responses \in [App -> [Steps -> Answers \cup {NoAnswers}]]
    /\ logs \in [App -> SUBSET LogRow]
    /\ decision \in [App -> DecisionRecord]

LEMMA TypeParts == TypeOK <=> TablesOK /\ LocalsOK
  BY DEF TypeOK, TablesOK, LocalsOK

LEMMA AnswerTyped ==
    ASSUME LocalsOK, NEW r \in Request, NEW page \in Reply, Answer(r, page)
    PROVE  LocalsOK'
<1>1. /\ pc' \in [Request -> Phase]
      /\ req' \in [Request -> Post \cup {NoPost}]
      /\ statusRead' \in [Request -> ApplicationStatus \cup {"ABSENT"}]
      /\ rowSeen' \in [Request -> BOOLEAN]
      /\ reply' \in [Request -> Reply]
  BY DEF LocalsOK, Answer, Goto, Forget, Phase
<1>2. outcomes' \in [Request -> Seq(CheckOutcome)]
  BY DEF LocalsOK, Answer, Forget
<1>3. \A q \in Request \ {r} : /\ pc'[q] = pc[q] /\ req'[q] = req[q]
                               /\ outcomes'[q] = outcomes[q]
  BY DEF LocalsOK, Answer, Goto, Forget
<1>4. pc'[r] = "reply" /\ outcomes'[r] = <<>>
  BY DEF LocalsOK, Answer, Goto, Forget
<1> QED BY <1>1, <1>2, <1>3, <1>4 DEF LocalsOK

LEMMA ClearTyped ==
    ASSUME LocalsOK, NEW R \in SUBSET Request, Clear(R)
    PROVE  LocalsOK'
<1>1. /\ pc' \in [Request -> Phase]
      /\ req' \in [Request -> Post \cup {NoPost}]
      /\ statusRead' \in [Request -> ApplicationStatus \cup {"ABSENT"}]
      /\ rowSeen' \in [Request -> BOOLEAN]
      /\ reply' \in [Request -> Reply]
  BY PagesAreReplies DEF LocalsOK, Clear, Forget, Phase
<1>2. outcomes' \in [Request -> Seq(CheckOutcome)]
  BY DEF LocalsOK, Clear, Forget
<1>3. \A q \in Request \ R : /\ pc'[q] = pc[q] /\ req'[q] = req[q]
                             /\ outcomes'[q] = outcomes[q]
  BY DEF LocalsOK, Clear, Forget
<1>4. \A q \in R : pc'[q] = "idle" /\ outcomes'[q] = <<>>
  BY DEF LocalsOK, Clear, Forget
<1> QED BY <1>1, <1>2, <1>3, <1>4 DEF LocalsOK

-----------------------------------------------------------------------------
(* What a handler's step leaves behind.                                    *)

(* The steps that end a handler without touching the tables.               *)
LEMMA EndsWithAnswer ==
    ASSUME Inv, NEW r \in Request, NEW page \in Reply, Answer(r, page),
           UNCHANGED tables
    PROVE  Inv'
<1>1. TypeOK'
  <2>1. LocalsOK'
    BY TypeParts, AnswerTyped DEF Inv
  <2>2. TablesOK'
    BY TypeParts DEF Inv, tables, TablesOK
  <2> QED BY <2>1, <2>2 DEF TypeOK, LocalsOK, TablesOK
<1>2. AbsentHasNoVersion'
  BY DEF Inv, AbsentHasNoVersion, tables
<1>3. \A q \in Request \ {r} : pc'[q] = pc[q] /\ req'[q] = req[q]
  BY TypeParts DEF Inv, LocalsOK, Answer, Goto, Forget
<1>4. pc'[r] = "reply"
  BY TypeParts DEF Inv, LocalsOK, Answer, Goto
<1>5. ReadsAreCurrent'
  BY <1>3, <1>4 DEF Inv, ReadsAreCurrent, InFlight, tables, Reachable, Answered
<1> QED BY <1>1, <1>2, <1>5 DEF Inv

LEMMA ClearInv ==
    ASSUME Inv, NEW R \in SUBSET Request, Clear(R)
    PROVE  Inv'
<1>0. UNCHANGED tables
  BY DEF Clear
<1>1. TypeOK'
  <2>1. LocalsOK'
    BY TypeParts, ClearTyped DEF Inv
  <2>2. TablesOK'
    BY <1>0, TypeParts DEF Inv, tables, TablesOK
  <2> QED BY <2>1, <2>2 DEF TypeOK, LocalsOK, TablesOK
<1>2. AbsentHasNoVersion'
  BY <1>0 DEF Inv, AbsentHasNoVersion, tables
<1>3. \A q \in Request \ R : pc'[q] = pc[q] /\ req'[q] = req[q]
  BY TypeParts DEF Inv, LocalsOK, Clear, Forget
<1>4. \A q \in R : pc'[q] = "idle"
  BY TypeParts DEF Inv, LocalsOK, Clear
<1>5. ReadsAreCurrent'
  BY <1>0, <1>3, <1>4 DEF Inv, ReadsAreCurrent, InFlight, tables, Reachable, Answered
<1> QED BY <1>1, <1>2, <1>5 DEF Inv

(* A handler r moves on, its form and the tables as they were; what it     *)
(* must know at its new place is the premise.                              *)
LEMMA MovesOn ==
    ASSUME Inv, NEW r \in Request, NEW phase \in Phase \ {"idle", "reply"},
           InFlight(r), Goto(r, phase), UNCHANGED <<tables, req>>, TypeOK',
           LET p == req[r] IN
             p.version = version[p.app] /\ phase \in {"run", "select", "commit"} =>
               Reachable(p.app, p.step) /\ responses[p.app][p.step] # p.answers
    PROVE  Inv'
<1>1. AbsentHasNoVersion'
  BY DEF Inv, AbsentHasNoVersion, tables
<1>2. /\ pc'[r] = phase
      /\ \A q \in Request \ {r} : pc'[q] = pc[q]
  BY TypeParts DEF Inv, LocalsOK, Goto
<1>3. ReadsAreCurrent'
  BY <1>2 DEF Inv, ReadsAreCurrent, InFlight, tables, Reachable, Answered
<1> QED BY <1>1, <1>3 DEF Inv

LEMMA SubmitInv ==
    ASSUME Inv, NEW r \in Request, NEW a \in App, NEW p \in PostsTo(a), Submit(r, p)
    PROVE  Inv'
<1>1. TypeOK
  BY DEF Inv
<1>2. p \in Post /\ p.app = a /\ p.version <= version[a]
  BY <1>1 DEF PostsTo, Post, TypeOK
<1>3. /\ pc' = [pc EXCEPT ![r] = "status"]
      /\ req' = [req EXCEPT ![r] = p]
      /\ UNCHANGED <<tables, statusRead, outcomes, rowSeen, reply>>
      /\ IsCustomerSubmittable(status[a])
      /\ pc[r] = "idle"
  BY <1>2 DEF Submit, Goto
<1>4. TypeOK'
  BY <1>1, <1>2, <1>3 DEF TypeOK, tables, Phase
<1>5. AbsentHasNoVersion'
  BY <1>3 DEF Inv, AbsentHasNoVersion, tables
<1>6. /\ pc'[r] = "status" /\ req'[r] = p
      /\ \A q \in Request \ {r} : pc'[q] = pc[q] /\ req'[q] = req[q]
  BY <1>1, <1>3 DEF TypeOK
<1>7. ReadsAreCurrent'
  BY <1>2, <1>3, <1>6
     DEF Inv, ReadsAreCurrent, InFlight, tables, Reachable, Answered
<1> QED BY <1>4, <1>5, <1>7 DEF Inv

LEMMA StartInv ==
    ASSUME Inv, NEW a \in App, StartApplication(a)
    PROVE  Inv'
<1>1. TypeOK
  BY DEF Inv
<1>2. TypeOK'
  BY <1>1 DEF TypeOK, StartApplication, locals, ApplicationStatus
<1>3. /\ status'[a] = "STARTED" /\ version'[a] = 1 /\ version[a] = 0
      /\ \A b \in App \ {a} : status'[b] = status[b] /\ version'[b] = version[b]
  BY <1>1 DEF TypeOK, StartApplication, Inv, AbsentHasNoVersion
<1>4. AbsentHasNoVersion'
  BY <1>3 DEF Inv, AbsentHasNoVersion
<1>5. ASSUME NEW r \in Request, InFlight(r) PROVE req[r].app \in App \ {a}
  <2>1. req[r] \in Post
    BY <1>1, <1>5 DEF TypeOK, InFlight
  <2>2. req[r].version > 0 /\ req[r].version <= version[req[r].app]
    BY <1>5, <2>1 DEF Inv, ReadsAreCurrent, Post
  <2> QED BY <1>3, <2>1, <2>2 DEF Post
<1>6. ReadsAreCurrent'
  BY <1>3, <1>5 DEF StartApplication, Inv, ReadsAreCurrent, InFlight, locals,
                    Reachable, Answered
<1> QED BY <1>2, <1>4, <1>6 DEF Inv

(***************************************************************************)
(* The commit: the posted version is current, so what the handler read     *)
(* still holds and the ledger may accept the submission now.  Every other  *)
(* handler at work on the application is left with a version of the past.  *)
(***************************************************************************)
LEMMA CommitFacts ==
    ASSUME Inv, NEW r \in Request, Commit(r)
    PROVE  LET p == req[r] IN
           /\ p \in Post
           /\ outcomes[r] \in Verdicts(p.step)
           /\ IsCustomerSubmittable(status[p.app])
           /\ Reachable(p.app, p.step)
           /\ responses[p.app][p.step] # p.answers
<1>1. pc[r] = "commit" /\ VersionIsCurrent(req[r])
  BY DEF Commit
<1>2. req[r] \in Post /\ Len(outcomes[r]) = Len(Required[req[r].step])
      /\ outcomes[r] \in Seq(CheckOutcome)
  BY <1>1 DEF Inv, TypeOK
<1>3. outcomes[r] \in Verdicts(req[r].step)
  BY <1>2 DEF Verdicts
<1> QED
  BY <1>1, <1>2, <1>3 DEF Inv, ReadsAreCurrent, InFlight, VersionIsCurrent

LEMMA FinalStatusTyped ==
    ASSUME NEW s \in Steps, NEW verdicts \in Verdicts(s)
    PROVE  FinalStatus(s, verdicts) \in ApplicationStatus
  BY DEF FinalStatus, ApplicationStatus

LEMMA CommitTyped ==
    ASSUME Inv, NEW r \in Request, Commit(r)
    PROVE  TypeOK'
<1> DEFINE p == req[r]
           a == p.app
           s == p.step
           final == FinalStatus(s, outcomes[r])
<1>1. /\ p \in Post /\ a \in App /\ s \in Steps /\ p.answers \in Answers
      /\ p.request_id \in RequestId
      /\ outcomes[r] \in Verdicts(s)
  BY CommitFacts DEF Post
<1>2. final \in ApplicationStatus
  BY <1>1, FinalStatusTyped
<1>3. TablesOK
  BY TypeParts DEF Inv
<1>4. DOMAIN outcomes[r] = 1 .. Len(Required[s])
      /\ \A k \in 1 .. Len(Required[s]) :
           outcomes[r][k] \in CheckOutcome /\ Required[s][k] \in Integration
  BY <1>1, FlowAssumption DEF Verdicts, Steps
<1> HIDE DEF final, a, s
<1>5. LocalsOK'
  <2>1. SuccessPage("saved", p, final, NextPage(s, final)) \in Reply
    BY <1>1, <1>2, PagesAreReplies, StepNumbers DEF ReplyKind
  <2>2. Answer(r, SuccessPage("saved", p, final, NextPage(s, final)))
    BY DEF Commit, final, a, s
  <2> QED BY <2>1, <2>2, TypeParts, AnswerTyped DEF Inv
<1>6. status' \in [App -> ApplicationStatus \cup {"ABSENT"}]
  BY <1>2, <1>3 DEF Commit, TablesOK, final, a, s
<1>7. version' \in [App -> Nat]
  <2>1. version' = [version EXCEPT ![a] = @ + 1]
    BY DEF Commit, a
  <2> QED BY <1>1, <1>3, <2>1 DEF TablesOK
<1>8. responses' \in [App -> [Steps -> Answers \cup {NoAnswers}]]
  BY <1>1, <1>3 DEF Commit, TablesOK, a, s
<1>9. logs' \in [App -> SUBSET LogRow]
  <2>1. Rows(s, p.answers, p.request_id, outcomes[r]) \subseteq LogRow
    BY <1>1, <1>4 DEF Rows, LogRow
  <2>2. logs' = [logs EXCEPT ![a] = @ \cup Rows(s, p.answers, p.request_id, outcomes[r])]
    BY DEF Commit, a, s
  <2> QED BY <1>3, <2>1, <2>2 DEF TablesOK
<1>10. decision' \in [App -> DecisionRecord]
  <2>1. Reasons(s, outcomes[r]) \subseteq Reason
    BY <1>1, <1>4 DEF Reasons, Reason
  <2>2. [outcome |-> final, reasons |-> Reasons(s, outcomes[r])] \in DecisionRecord
    BY <1>2, <2>1 DEF DecisionRecord
  <2>3. decision' = IF final = "IN_PROGRESS" THEN decision
                    ELSE [decision EXCEPT ![a] =
                            [outcome |-> final, reasons |-> Reasons(s, outcomes[r])]]
    BY DEF Commit, final, a, s
  <2> QED BY <1>3, <2>2, <2>3 DEF TablesOK
<1> QED BY <1>5, <1>6, <1>7, <1>8, <1>9, <1>10 DEF TypeOK, LocalsOK

LEMMA CommitInv ==
    ASSUME Inv, NEW r \in Request, Commit(r)
    PROVE  Inv'
<1> DEFINE a == req[r].app
<1>1. TypeOK'
  BY CommitTyped
<1>2. a \in App /\ FinalStatus(req[r].step, outcomes[r]) \in ApplicationStatus
  BY CommitFacts, FinalStatusTyped DEF Post
<1>3. /\ status'[a] # "ABSENT"
      /\ version'[a] = version[a] + 1
      /\ \A b \in App \ {a} : /\ status'[b] = status[b]
                              /\ version'[b] = version[b]
                              /\ responses'[b] = responses[b]
  BY <1>2 DEF Commit, Inv, TypeOK, ApplicationStatus
<1>4. AbsentHasNoVersion'
  BY <1>3 DEF Inv, AbsentHasNoVersion
<1>5. /\ pc'[r] = "reply"
      /\ \A q \in Request \ {r} : pc'[q] = pc[q] /\ req'[q] = req[q]
  BY TypeParts DEF Commit, Inv, LocalsOK, Answer, Goto, Forget
<1> HIDE DEF a
<1>6. ReadsAreCurrent'
  <2> SUFFICES ASSUME NEW q \in Request, pc'[q] \notin {"idle", "reply"}
               PROVE  LET p == req'[q] IN
                      /\ p.version <= version'[p.app]
                      /\ p.version = version'[p.app] =>
                           /\ IsCustomerSubmittable(status'[p.app])
                           /\ pc'[q] \in {"run", "select", "commit"} =>
                                /\ \A t \in 1 .. (p.step - 1) :
                                      responses'[p.app][t] # NoAnswers
                                /\ responses'[p.app][p.step] # p.answers
    BY DEF ReadsAreCurrent, InFlight, Reachable, Answered
  <2>1. q # r /\ req'[q] = req[q] /\ pc'[q] = pc[q] /\ InFlight(q)
    BY <1>5 DEF InFlight
  <2>2. req[q] \in Post /\ req[q].version \in Nat /\ req[q].app \in App
    BY <2>1 DEF Inv, TypeOK, InFlight, Post
  <2>3. req[q].version <= version[req[q].app] /\ version[req[q].app] \in Nat
    BY <2>1, <2>2 DEF Inv, ReadsAreCurrent, TypeOK
  <2>4. CASE req[q].app = a
    BY <1>3, <2>1, <2>2, <2>3, <2>4
  <2>5. CASE req[q].app # a
    BY <1>3, <2>1, <2>2, <2>5 DEF Inv, ReadsAreCurrent, Reachable, Answered
  <2> QED BY <2>4, <2>5
<1> QED BY <1>1, <1>4, <1>6 DEF Inv

-----------------------------------------------------------------------------

LEMMA InitInv == Init => Inv
<1> SUFFICES ASSUME Init PROVE Inv
  OBVIOUS
<1>1. TypeOK
  BY PagesAreReplies DEF Init, TypeOK, Phase, DecisionRecord, NoDecision
<1>2. AbsentHasNoVersion /\ ReadsAreCurrent
  BY DEF Init, AbsentHasNoVersion, ReadsAreCurrent, InFlight
<1> QED BY <1>1, <1>2 DEF Inv

LEMMA HandleInv ==
    ASSUME Inv, NEW r \in Request, Handle(r)
    PROVE  Inv'
<1>0. TypeOK
  BY DEF Inv
<1>1. CASE LoadStatus(r)
  <2>1. InFlight(r) /\ req[r] \in Post /\ req[r].app \in App
    BY <1>0, <1>1 DEF LoadStatus, InFlight, TypeOK, Post
  <2>2. TypeOK'
    BY <1>0, <1>1, <2>1 DEF LoadStatus, Goto, TypeOK, tables, Phase
  <2>3. /\ Goto(r, "step") /\ UNCHANGED <<tables, req>>
        /\ "step" \in Phase \ {"idle", "reply"}
    BY <1>1 DEF LoadStatus, Phase
  <2> QED BY <2>1, <2>2, <2>3, MovesOn
<1>2. CASE StepBlocked(r)
  <2>1. ErrorPage("blocked") \in Reply
    BY PagesAreReplies DEF ReplyKind
  <2> QED BY <1>2, <2>1, EndsWithAnswer DEF StepBlocked
<1>3. CASE StepRepeated(r)
  <2> DEFINE page == SuccessPage("repeat", req[r], statusRead[r], NextStep(req[r].step))
  <2>1. req[r] \in Post /\ req[r].step \in Steps
    BY <1>0, <1>3 DEF StepRepeated, TypeOK, Post
  <2>2. page \in Reply
    BY <1>0, <2>1, StepNumbers, PagesAreReplies DEF TypeOK, ReplyKind
  <2>3. Answer(r, page) /\ UNCHANGED tables
    BY <1>3 DEF StepRepeated
  <2> QED BY <2>2, <2>3, EndsWithAnswer
<1>4. CASE StepAdmitted(r)
  <2> DEFINE phase == NextPhase(req[r].step, 0)
  <2>1. InFlight(r) /\ req[r] \in Post /\ req[r].step \in Steps
    BY <1>0, <1>4 DEF StepAdmitted, InFlight, TypeOK, Post
  <2>2. Goto(r, phase) /\ UNCHANGED <<tables, locals>>
    BY <1>4 DEF StepAdmitted
  <2>3. phase \in {"run", "select"} /\ (phase = "run" <=> 0 < Len(Required[req[r].step]))
        /\ Len(Required[req[r].step]) \in Nat
    BY <2>1, StepNumbers
  <2>4. outcomes[r] = <<>> /\ Len(outcomes[r]) = 0
    <3>1. pc[r] = "step"
      BY <1>4 DEF StepAdmitted
    <3>2. outcomes[r] = <<>>
      BY <1>0, <3>1 DEF TypeOK
    <3> QED BY <3>2
  <2> HIDE DEF phase
  <2>5. TypeOK'
    BY <1>0, <2>1, <2>2, <2>3, <2>4 DEF Goto, TypeOK, tables, locals, Phase
  <2>6. Reachable(req[r].app, req[r].step)
        /\ responses[req[r].app][req[r].step] # req[r].answers
    BY <1>4 DEF StepAdmitted
  <2>7. phase \in Phase \ {"idle", "reply"} /\ UNCHANGED <<tables, req>>
    BY <2>2, <2>3 DEF Phase, locals
  <2> QED BY <2>1, <2>2, <2>5, <2>6, <2>7, MovesOn
<1>5. ASSUME NEW outcome \in CheckOutcome, CheckReturns(r, outcome) PROVE Inv'
  <2> DEFINE n == Len(outcomes[r])
             phase == NextPhase(req[r].step, n + 1)
  <2>1. InFlight(r) /\ req[r] \in Post /\ req[r].step \in Steps
    BY <1>0, <1>5 DEF CheckReturns, InFlight, TypeOK, Post
  <2>2. /\ Goto(r, phase) /\ UNCHANGED <<tables, req, statusRead, rowSeen, reply>>
        /\ outcomes' = [outcomes EXCEPT ![r] = Append(@, outcome)]
        /\ n < Len(Required[req[r].step])
    BY <1>5 DEF CheckReturns
  <2>3. n \in Nat /\ Len(Required[req[r].step]) \in Nat
    BY <1>0, <2>1, StepNumbers DEF TypeOK
  <2>4. phase \in {"run", "select"}
        /\ (phase = "run" <=> n + 1 < Len(Required[req[r].step]))
    BY <2>1, <2>3, StepNumbers
  <2>5. /\ outcomes' \in [Request -> Seq(CheckOutcome)]
        /\ Len(outcomes'[r]) = n + 1
        /\ \A q \in Request \ {r} : outcomes'[q] = outcomes[q]
    BY <1>0, <1>5, <2>2 DEF TypeOK
  <2> HIDE DEF phase, n
  <2>6. /\ pc' \in [Request -> Phase] /\ pc'[r] = phase
        /\ \A q \in Request \ {r} : pc'[q] = pc[q]
    BY <1>0, <2>2, <2>4 DEF Goto, TypeOK, Phase
  <2>7. LocalsOK'
    BY <1>0, <2>1, <2>2, <2>3, <2>4, <2>5, <2>6 DEF TypeOK, LocalsOK
  <2>8. TypeOK'
    BY <1>0, <2>2, <2>7 DEF TypeOK, LocalsOK, tables
  <2>9. req[r].version = version[req[r].app] =>
          /\ Reachable(req[r].app, req[r].step)
          /\ responses[req[r].app][req[r].step] # req[r].answers
    BY <1>5, <2>1 DEF CheckReturns, Inv, ReadsAreCurrent
  <2>10. phase \in Phase \ {"idle", "reply"} /\ UNCHANGED <<tables, req>>
    BY <2>2, <2>4 DEF Phase
  <2> QED BY <2>1, <2>2, <2>8, <2>9, <2>10, MovesOn
<1>6. CASE CheckFails(r)
  <2>1. \A kind \in {"unavailable", "error"} : ErrorPage(kind) \in Reply
    BY PagesAreReplies DEF ReplyKind
  <2> QED BY <1>6, <2>1, EndsWithAnswer DEF CheckFails
<1>7. CASE SelectResponse(r)
  <2>1. InFlight(r) /\ req[r] \in Post
    BY <1>0, <1>7 DEF SelectResponse, InFlight, TypeOK
  <2>2. TypeOK'
    BY <1>0, <1>7, <2>1 DEF SelectResponse, Goto, TypeOK, tables, Phase, Answered
  <2>3. /\ Goto(r, "commit") /\ UNCHANGED <<tables, req>>
        /\ "commit" \in Phase \ {"idle", "reply"}
    BY <1>7 DEF SelectResponse, Phase
  <2>4. req[r].version = version[req[r].app] =>
          /\ Reachable(req[r].app, req[r].step)
          /\ responses[req[r].app][req[r].step] # req[r].answers
    BY <1>7, <2>1 DEF SelectResponse, Inv, ReadsAreCurrent
  <2> QED BY <2>1, <2>2, <2>3, <2>4, MovesOn
<1>8. CASE CommitRolledBack(r)
  <2>1. req[r] \in Post
    BY <1>0, <1>8 DEF CommitRolledBack, TypeOK
  <2>2. ErrorPage("error") \in Reply /\ ConflictPage(req[r]) \in Reply
    BY <2>1, PagesAreReplies DEF ReplyKind
  <2> QED BY <1>8, <2>2, EndsWithAnswer DEF CommitRolledBack
<1>9. CASE DatabaseFails(r)
  <2>1. ErrorPage("error") \in Reply
    BY PagesAreReplies DEF ReplyKind
  <2> QED BY <1>9, <2>1, EndsWithAnswer DEF DatabaseFails
<1>10. CASE Commit(r)
  BY <1>10, CommitInv
<1> QED
  BY <1>1, <1>2, <1>3, <1>4, <1>5, <1>6, <1>7, <1>8, <1>9, <1>10 DEF Handle

LEMMA StepInv == Inv /\ [Next]_vars => Inv'
<1> SUFFICES ASSUME Inv, [Next]_vars PROVE Inv'
  OBVIOUS
<1>1. ASSUME NEW a \in App, StartApplication(a) PROVE Inv'
  BY <1>1, StartInv
<1>2. ASSUME NEW r \in Request, NEW a \in App, NEW p \in PostsTo(a), Submit(r, p)
      PROVE  Inv'
  BY <1>2, SubmitInv
<1>3. ASSUME NEW r \in Request, NEW a \in App, NEW p \in PostsTo(a), SubmitRefused(r, p)
      PROVE  Inv'
  <2>1. \A kind \in {"closed", "forbidden", "invalid"} : ErrorPage(kind) \in Reply
    BY PagesAreReplies DEF ReplyKind
  <2> QED BY <1>3, <2>1, EndsWithAnswer DEF SubmitRefused
<1>4. ASSUME NEW r \in Request, Handle(r) PROVE Inv'
  BY <1>4, HandleInv
<1>5. ASSUME NEW r \in Request, Deliver(r) PROVE Inv'
  BY <1>5, ClearInv DEF Deliver
<1>6. ASSUME NEW w \in Worker, Crash(w) PROVE Inv'
  <2>1. {r \in Request : WorkerOf[r] = w} \in SUBSET Request
    OBVIOUS
  <2> QED BY <1>6, <2>1, ClearInv DEF Crash
<1>7. CASE UNCHANGED vars
  BY <1>7 DEF vars, tables, locals, Inv, TypeOK, AbsentHasNoVersion,
     ReadsAreCurrent, InFlight, Reachable, Answered
<1> QED BY <1>1, <1>2, <1>3, <1>4, <1>5, <1>6, <1>7 DEF Next

(* The inductive invariant holds throughout.                               *)
THEOREM Invariance == Spec => []Inv
<1>1. Init => Inv
  BY InitInv
<1>2. Inv /\ [Next]_vars => Inv'
  BY StepInv
<1> QED BY <1>1, <1>2, PTL DEF Spec

(* The handlers' state is well typed, and a handler has exactly the        *)
(* verdicts its place in process_step_submission says it has.              *)
THEOREM TypeCorrect == Spec => []TypeOK
<1>1. Inv => TypeOK
  BY DEF Inv
<1> QED BY <1>1, Invariance, PTL

-----------------------------------------------------------------------------
(***************************************************************************)
(* What the customers are told.  Versions only grow, so a version that was *)
(* overtaken stays overtaken: that is what a saved submission and a        *)
(* conflict page have in common (AnsweredFromThePast).  A save leaves its  *)
(* version behind in the same step, and no later commit can match it; a    *)
(* conflict names a version that is behind already, for as long as it is   *)
(* not, the SELECT of save_step_response is still true (RowSeenIsCurrent)  *)
(* and the insert has nothing to collide with.                             *)
(***************************************************************************)
AnsweredFromThePast ==
    \A r \in Request : reply[r].kind \in {"saved", "conflict"} =>
        /\ reply[r].app \in App
        /\ reply[r].version < version[reply[r].app]

RowSeenIsCurrent ==
    \A r \in Request :
        pc[r] = "commit" /\ req[r].version = version[req[r].app] =>
            (rowSeen[r] <=> Answered(req[r].app, req[r].step))

TruthInv == AnsweredFromThePast /\ RowSeenIsCurrent /\ OneWinnerPerVersion

(* What a page says about saves and conflicts.                             *)
LEMMA PageContents ==
    /\ NoReply.kind = "none"
    /\ \A kind : ErrorPage(kind).kind = kind
    /\ \A p : /\ ConflictPage(p).kind = "conflict"
              /\ ConflictPage(p).app = p.app
              /\ ConflictPage(p).version = p.version
    /\ \A kind, p, st, next :
         /\ SuccessPage(kind, p, st, next).kind = kind
         /\ SuccessPage(kind, p, st, next).app = p.app
         /\ SuccessPage(kind, p, st, next).version = p.version
  BY DEF NoReply, ErrorPage, ConflictPage, SuccessPage

(* A handler ends with a page that claims no save, and a conflict only     *)
(* about a version that was overtaken.                                     *)
LEMMA AnswerTells ==
    ASSUME Inv, TruthInv, NEW r \in Request, NEW page, Answer(r, page),
           UNCHANGED tables, page.kind # "saved",
           page.kind = "conflict" =>
             page.app \in App /\ page.version < version[page.app]
    PROVE  TruthInv'
<1>1. /\ pc'[r] = "reply" /\ reply'[r] = page
      /\ \A q \in Request \ {r} : /\ pc'[q] = pc[q] /\ req'[q] = req[q]
                                  /\ rowSeen'[q] = rowSeen[q]
                                  /\ reply'[q] = reply[q]
  BY TypeParts DEF Inv, LocalsOK, Answer, Goto, Forget
<1>2. AnsweredFromThePast'
  BY <1>1 DEF TruthInv, AnsweredFromThePast, tables
<1>3. RowSeenIsCurrent'
  BY <1>1 DEF TruthInv, RowSeenIsCurrent, Answered, tables
<1>4. OneWinnerPerVersion'
  BY <1>1 DEF TruthInv, OneWinnerPerVersion
<1> QED BY <1>2, <1>3, <1>4 DEF TruthInv

LEMMA ClearTells ==
    ASSUME Inv, TruthInv, NEW R \in SUBSET Request, Clear(R)
    PROVE  TruthInv'
<1>1. /\ \A q \in R : pc'[q] = "idle" /\ reply'[q].kind = "none"
      /\ \A q \in Request \ R : /\ pc'[q] = pc[q] /\ req'[q] = req[q]
                                /\ rowSeen'[q] = rowSeen[q]
                                /\ reply'[q] = reply[q]
      /\ UNCHANGED tables
  BY PageContents DEF Clear, Forget
<1>2. AnsweredFromThePast'
  BY <1>1 DEF TruthInv, AnsweredFromThePast, tables
<1>3. RowSeenIsCurrent'
  BY <1>1 DEF TruthInv, RowSeenIsCurrent, Answered, tables
<1>4. OneWinnerPerVersion'
  BY <1>1 DEF TruthInv, OneWinnerPerVersion
<1> QED BY <1>2, <1>3, <1>4 DEF TruthInv

(* The steps of a handler that answers nobody and writes nothing: only the *)
(* one that reaches the commit has something to show.                      *)
LEMMA QuietTells ==
    ASSUME Inv, TruthInv, NEW r \in Request, UNCHANGED <<tables, reply>>,
           \A q \in Request \ {r} : /\ pc'[q] = pc[q] /\ req'[q] = req[q]
                                    /\ rowSeen'[q] = rowSeen[q],
           pc'[r] = "commit" =>
             (rowSeen'[r] <=> Answered(req'[r].app, req'[r].step))
    PROVE  TruthInv'
<1>1. AnsweredFromThePast'
  BY DEF TruthInv, AnsweredFromThePast, tables
<1>2. RowSeenIsCurrent'
  BY DEF TruthInv, RowSeenIsCurrent, Answered, tables
<1>3. OneWinnerPerVersion'
  BY DEF TruthInv, OneWinnerPerVersion
<1> QED BY <1>1, <1>2, <1>3 DEF TruthInv

LEMMA StartTells ==
    ASSUME Inv, TruthInv, NEW a \in App, StartApplication(a)
    PROVE  TruthInv'
<1>1. /\ version'[a] = 1 /\ version[a] = 0
      /\ \A b \in App \ {a} : version'[b] = version[b]
      /\ UNCHANGED <<responses, pc, req, rowSeen, reply>>
  BY DEF Inv, TypeOK, AbsentHasNoVersion, StartApplication, locals
<1>2. AnsweredFromThePast'
  <2> SUFFICES ASSUME NEW r \in Request, reply[r].kind \in {"saved", "conflict"}
               PROVE  /\ reply[r].app \in App
                      /\ reply[r].version < version'[reply[r].app]
    BY <1>1 DEF AnsweredFromThePast
  <2>1. reply[r].version \in Nat
    BY DEF Inv, TypeOK, Reply
  <2> QED BY <1>1, <2>1 DEF TruthInv, AnsweredFromThePast
<1>3. ASSUME NEW r \in Request, pc[r] = "commit" PROVE req[r].app \in App \ {a}
  <2>1. req[r] \in Post /\ InFlight(r)
    BY <1>3 DEF Inv, TypeOK, InFlight
  <2>2. req[r].version > 0 /\ req[r].version <= version[req[r].app]
    BY <2>1 DEF Inv, ReadsAreCurrent, Post
  <2> QED BY <1>1, <2>1, <2>2 DEF Post
<1>4. RowSeenIsCurrent'
  BY <1>1, <1>3 DEF TruthInv, RowSeenIsCurrent, Answered
<1>5. OneWinnerPerVersion'
  BY <1>1 DEF TruthInv, OneWinnerPerVersion
<1> QED BY <1>2, <1>4, <1>5 DEF TruthInv

(* The one save: its version is current before the step and past after it. *)
LEMMA CommitTells ==
    ASSUME Inv, TruthInv, NEW r \in Request, Commit(r)
    PROVE  TruthInv'
<1> DEFINE p == req[r]
<1>1. /\ p \in Post /\ p.app \in App /\ p.version = version[p.app]
      /\ version[p.app] \in Nat
  BY CommitFacts DEF Commit, VersionIsCurrent, Post, Inv, TypeOK
<1>2. /\ version' = [version EXCEPT ![p.app] = @ + 1]
      /\ responses' = [responses EXCEPT ![p.app][p.step] = p.answers]
      /\ pc'[r] = "reply" /\ reply'[r].kind = "saved"
      /\ reply'[r].app = p.app /\ reply'[r].version = p.version
      /\ \A q \in Request \ {r} : /\ pc'[q] = pc[q] /\ req'[q] = req[q]
                                  /\ rowSeen'[q] = rowSeen[q]
                                  /\ reply'[q] = reply[q]
  BY PageContents DEF Commit, Answer, Goto, Forget, Inv, TypeOK
<1> HIDE DEF p
<1>3. /\ version'[p.app] = version[p.app] + 1
      /\ \A b \in App \ {p.app} : /\ version'[b] = version[b]
                                  /\ responses'[b] = responses[b]
  BY <1>1, <1>2 DEF Inv, TypeOK
<1>4. ASSUME NEW q \in Request \ {r}, reply[q].kind \in {"saved", "conflict"}
      PROVE  /\ reply[q].app \in App
             /\ reply[q].version < version[reply[q].app]
             /\ reply[q].version < version'[reply[q].app]
  <2>1. /\ reply[q].version \in Nat
        /\ reply[q].app \in App /\ reply[q].version < version[reply[q].app]
    BY <1>4 DEF Inv, TypeOK, Reply, TruthInv, AnsweredFromThePast
  <2> QED BY <1>1, <1>3, <2>1
<1>5. AnsweredFromThePast'
  BY <1>1, <1>2, <1>3, <1>4 DEF AnsweredFromThePast
<1>6. RowSeenIsCurrent'
  <2> SUFFICES ASSUME NEW q \in Request \ {r}, pc[q] = "commit",
                      req[q].version = version'[req[q].app]
               PROVE  rowSeen[q] <=> responses'[req[q].app][req[q].step] # NoAnswers
    BY <1>2 DEF RowSeenIsCurrent, Answered
  <2>1. InFlight(q) /\ req[q] \in Post /\ req[q].app \in App
    BY DEF InFlight, Inv, TypeOK, Post
  <2>2. req[q].version \in Nat /\ req[q].version <= version[req[q].app]
    BY <2>1 DEF Inv, ReadsAreCurrent, Post
  <2>3. req[q].app # p.app
    BY <1>1, <1>3, <2>2
  <2> QED BY <1>3, <2>1, <2>3 DEF TruthInv, RowSeenIsCurrent, Answered
<1>7. OneWinnerPerVersion'
  BY <1>1, <1>2, <1>4 DEF TruthInv, OneWinnerPerVersion
<1> QED BY <1>5, <1>6, <1>7 DEF TruthInv

LEMMA HandleTells ==
    ASSUME Inv, TruthInv, NEW r \in Request, Handle(r)
    PROVE  TruthInv'
<1>0. TypeOK
  BY DEF Inv
<1>1. CASE LoadStatus(r) \/ StepAdmitted(r)
           \/ \E outcome \in CheckOutcome : CheckReturns(r, outcome)
  <2>1. pc'[r] # "commit"
    BY <1>0, <1>1 DEF LoadStatus, StepAdmitted, CheckReturns, Goto, NextPhase, TypeOK
  <2>2. /\ UNCHANGED <<tables, reply>>
        /\ \A q \in Request \ {r} : /\ pc'[q] = pc[q] /\ req'[q] = req[q]
                                    /\ rowSeen'[q] = rowSeen[q]
    BY <1>0, <1>1 DEF LoadStatus, StepAdmitted, CheckReturns, Goto, TypeOK, locals
  <2> QED BY <2>1, <2>2, QuietTells
<1>2. CASE SelectResponse(r)
  <2>1. /\ UNCHANGED <<tables, reply, req>>
        /\ \A q \in Request \ {r} : pc'[q] = pc[q] /\ rowSeen'[q] = rowSeen[q]
        /\ rowSeen'[r] = Answered(req[r].app, req[r].step)
    BY <1>0, <1>2 DEF SelectResponse, Goto, TypeOK
  <2> QED BY <2>1, QuietTells
<1>3. CASE StepBlocked(r) \/ CheckFails(r) \/ DatabaseFails(r)
  <2>1. \E kind \in {"blocked", "unavailable", "error"} : Answer(r, ErrorPage(kind))
    BY <1>3 DEF StepBlocked, CheckFails, DatabaseFails
  <2>2. UNCHANGED tables
    BY <1>3 DEF StepBlocked, CheckFails, DatabaseFails
  <2> QED BY <2>1, <2>2, PageContents, AnswerTells
<1>4. CASE StepRepeated(r)
  <2> DEFINE page == SuccessPage("repeat", req[r], statusRead[r], NextStep(req[r].step))
  <2>1. Answer(r, page) /\ UNCHANGED tables /\ page.kind = "repeat"
    BY <1>4, PageContents DEF StepRepeated
  <2> HIDE DEF page
  <2> QED BY <2>1, AnswerTells
<1>5. CASE CommitRolledBack(r)
  <2>1. pc[r] = "commit" /\ UNCHANGED tables /\ InFlight(r)
    BY <1>5 DEF CommitRolledBack, InFlight
  <2>2. /\ req[r] \in Post /\ req[r].app \in App /\ req[r].version \in Nat
        /\ version[req[r].app] \in Nat
        /\ req[r].version <= version[req[r].app]
    BY <1>0, <2>1 DEF TypeOK, InFlight, Post, Inv, ReadsAreCurrent
  <2>3. CASE InsertCollides(r) \/ ~VersionIsCurrent(req[r])
    <3>1. Answer(r, ConflictPage(req[r]))
      BY <1>5, <2>3 DEF CommitRolledBack
    <3>2. req[r].version # version[req[r].app]
      BY <2>1, <2>3 DEF InsertCollides, VersionIsCurrent, TruthInv, RowSeenIsCurrent
    <3>3. req[r].version < version[req[r].app]
      BY <2>2, <3>2
    <3> QED BY <2>1, <2>2, <3>1, <3>3, PageContents, AnswerTells
  <2>4. CASE ~(InsertCollides(r) \/ ~VersionIsCurrent(req[r]))
    <3>1. Answer(r, ErrorPage("error"))
      BY <1>5, <2>4 DEF CommitRolledBack
    <3> QED BY <2>1, <3>1, PageContents, AnswerTells
  <2> QED BY <2>3, <2>4
<1>6. CASE Commit(r)
  BY <1>6, CommitTells
<1> QED BY <1>1, <1>2, <1>3, <1>4, <1>5, <1>6 DEF Handle

LEMMA StepTells == Inv /\ TruthInv /\ [Next]_vars => TruthInv'
<1> SUFFICES ASSUME Inv, TruthInv, [Next]_vars PROVE TruthInv'
  OBVIOUS
<1>1. ASSUME NEW a \in App, StartApplication(a) PROVE TruthInv'
  BY <1>1, StartTells
<1>2. ASSUME NEW r \in Request, NEW a \in App, NEW p \in PostsTo(a), Submit(r, p)
      PROVE  TruthInv'
  <2>1. /\ UNCHANGED <<tables, reply>> /\ pc'[r] # "commit"
        /\ \A q \in Request \ {r} : /\ pc'[q] = pc[q] /\ req'[q] = req[q]
                                    /\ rowSeen'[q] = rowSeen[q]
    BY <1>2 DEF Submit, Goto, Inv, TypeOK
  <2> QED BY <2>1, QuietTells
<1>3. ASSUME NEW r \in Request, NEW a \in App, NEW p \in PostsTo(a), SubmitRefused(r, p)
      PROVE  TruthInv'
  <2>1. /\ UNCHANGED tables
        /\ \E kind \in {"closed", "forbidden", "invalid"} : Answer(r, ErrorPage(kind))
    BY <1>3 DEF SubmitRefused
  <2> QED BY <2>1, PageContents, AnswerTells
<1>4. ASSUME NEW r \in Request, Handle(r) PROVE TruthInv'
  BY <1>4, HandleTells
<1>5. ASSUME NEW r \in Request, Deliver(r) PROVE TruthInv'
  BY <1>5, ClearTells DEF Deliver
<1>6. ASSUME NEW w \in Worker, Crash(w) PROVE TruthInv'
  <2>1. {r \in Request : WorkerOf[r] = w} \in SUBSET Request
    OBVIOUS
  <2> QED BY <1>6, <2>1, ClearTells DEF Crash
<1>7. CASE UNCHANGED vars
  BY <1>7 DEF vars, tables, locals, TruthInv, AnsweredFromThePast,
     RowSeenIsCurrent, OneWinnerPerVersion, Answered
<1> QED BY <1>1, <1>2, <1>3, <1>4, <1>5, <1>6, <1>7 DEF Next

LEMMA InitTells == Init => TruthInv
  BY PageContents DEF Init, TruthInv, AnsweredFromThePast, RowSeenIsCurrent,
     OneWinnerPerVersion

LEMMA Truth == Spec => []TruthInv
<1>1. Init => TruthInv
  BY InitTells
<1>2. Inv /\ TruthInv /\ [Next]_vars => TruthInv'
  BY StepTells
<1> QED BY <1>1, <1>2, Invariance, PTL DEF Spec

(* Of any number of submissions made from pages of one version, on any     *)
(* number of workers, at most one is answered as saved.                    *)
THEOREM OneWinner == Spec => []OneWinnerPerVersion
<1>1. TruthInv => OneWinnerPerVersion
  BY DEF TruthInv
<1> QED BY <1>1, Truth, PTL

(* A 409 conflict is only answered when the version it was about has been  *)
(* overtaken by a committed submission, also when it was the insert and    *)
(* not the version that failed.                                            *)
THEOREM ConflictIsReal == Spec => []ConflictMeansProgress
<1>1. Inv /\ TruthInv => ConflictMeansProgress
  <2> SUFFICES ASSUME Inv, TruthInv, NEW r \in Request, reply[r].kind = "conflict"
               PROVE  version[reply[r].app] > reply[r].version
    BY DEF ConflictMeansProgress
  <2>1. reply[r].app \in App /\ reply[r].version < version[reply[r].app]
    BY DEF TruthInv, AnsweredFromThePast
  <2>2. reply[r].version \in Nat /\ version[reply[r].app] \in Nat
    BY <2>1 DEF Inv, TypeOK, Reply
  <2> QED BY <2>1, <2>2
<1> QED BY <1>1, Truth, Invariance, PTL

-----------------------------------------------------------------------------
(* Refinement.                                                             *)

LEMMA InitRefines == Init => Ledger!Init
  BY SameOperators DEF Init, Ledger!Init

LEMMA StartRefines ==
    ASSUME NEW a \in App, StartApplication(a)
    PROVE  Ledger!StartApplication(a)
  BY DEF StartApplication, Ledger!StartApplication

LEMMA CommitRefines ==
    ASSUME Inv, NEW r \in Request, Commit(r)
    PROVE  Ledger!Next
<1> DEFINE p == req[r]
           verdicts == outcomes[r]
<1>1. /\ p \in Post /\ verdicts \in Verdicts(p.step)
      /\ IsCustomerSubmittable(status[p.app])
      /\ Reachable(p.app, p.step)
      /\ responses[p.app][p.step] # p.answers
  BY CommitFacts
<1>2. /\ p.app \in App /\ p.step \in Steps /\ p.answers \in Answers
      /\ p.request_id \in RequestId
  BY <1>1 DEF Post
<1>3. Ledger!OpenTo(p.app, p.step)
  BY <1>1, SameOperators DEF Ledger!OpenTo, Ledger!Answered, Reachable, Answered
<1>4. Ledger!FreshRows(p.app, p.step, p.request_id)
  BY DEF Commit, RowsAreNew, Ledger!FreshRows
<1>5. /\ Ledger!FinalStatus(p.step, verdicts) = FinalStatus(p.step, verdicts)
      /\ Ledger!Reasons(p.step, verdicts) = Reasons(p.step, verdicts)
      /\ Ledger!Rows(p.step, p.answers, p.request_id, verdicts) =
           Rows(p.step, p.answers, p.request_id, verdicts)
      /\ verdicts \in Ledger!Verdicts(p.step)
  BY <1>1, <1>2, SameOperators
<1>6. Ledger!Accept(p.app, p.step, p.answers, p.request_id, verdicts)
  BY <1>1, <1>3, <1>4, <1>5 DEF Ledger!Accept, Commit
<1> QED BY <1>2, <1>5, <1>6, SameOperators DEF Ledger!Next

LEMMA StepRefines == Inv /\ [Next]_vars => [Ledger!Next]_(Ledger!vars)
<1> SUFFICES ASSUME Inv, [Next]_vars PROVE Ledger!Next \/ UNCHANGED tables
  BY DEF tables, Ledger!vars
<1>1. ASSUME NEW a \in App, StartApplication(a) PROVE Ledger!Next
  BY <1>1, StartRefines DEF Ledger!Next
<1>2. ASSUME NEW r \in Request, NEW a \in App, NEW p \in PostsTo(a),
             Submit(r, p) \/ SubmitRefused(r, p)
      PROVE  UNCHANGED tables
  BY <1>2 DEF Submit, SubmitRefused
<1>3. ASSUME NEW r \in Request, Handle(r)
      PROVE  Ledger!Next \/ UNCHANGED tables
  <2>1. CASE Commit(r)
    BY <2>1, CommitRefines
  <2>2. CASE ~Commit(r)
    BY <1>3, <2>2 DEF Handle, LoadStatus, StepBlocked, StepRepeated,
       StepAdmitted, CheckReturns, CheckFails, SelectResponse,
       CommitRolledBack, DatabaseFails
  <2> QED BY <2>1, <2>2
<1>4. ASSUME NEW r \in Request, Deliver(r) PROVE UNCHANGED tables
  BY <1>4 DEF Deliver, Clear
<1>5. ASSUME NEW w \in Worker, Crash(w) PROVE UNCHANGED tables
  BY <1>5 DEF Crash, Clear
<1>6. CASE UNCHANGED vars
  BY <1>6 DEF vars
<1> QED BY <1>1, <1>2, <1>3, <1>4, <1>5, <1>6 DEF Next

(* Whatever the interleaving of handlers, awaits, rollbacks and crashes,   *)
(* the tables move as if submissions were accepted one at a time.          *)
THEOREM Implements == Spec => LedgerSpec
<1>1. Init => Ledger!Init
  BY InitRefines
<1>2. Inv /\ [Next]_vars => [Ledger!Next]_(Ledger!vars)
  BY StepRefines
<1> QED BY <1>1, <1>2, Invariance, PTL DEF Spec, LedgerSpec, Ledger!Spec

-----------------------------------------------------------------------------
(***************************************************************************)
(* Where the customers are sent.  Only two steps answer with a redirect,   *)
(* the repeat and the commit; both know that the steps before the next     *)
(* page are saved, and a saved response is never taken away.               *)
(***************************************************************************)
SentOnReachably ==
    \A r \in Request : Successful(reply[r]) =>
        /\ reply[r].app \in App
        /\ reply[r].next # 0 =>
             \A t \in 1 .. (reply[r].next - 1) : Answered(reply[r].app, t)

LEMMA WhoRedirects ==
    ASSUME Inv, [Next]_vars, NEW r \in Request,
           Successful(reply'[r]), reply'[r] # reply[r]
    PROVE  StepRepeated(r) \/ Commit(r)
<1>0. reply \in [Request -> Reply]
  BY DEF Inv, TypeOK
<1>1. ASSUME NEW q \in Request, NEW kind \in ReplyKind \ {"saved", "repeat"},
             Answer(q, ErrorPage(kind))
      PROVE  FALSE
  BY <1>0, <1>1, PageContents DEF Answer, Successful
<1>2. ASSUME NEW q \in Request, NEW p, Answer(q, ConflictPage(p)) PROVE FALSE
  BY <1>0, <1>2, PageContents DEF Answer, Successful
<1>3. ASSUME NEW R \in SUBSET Request, Clear(R) PROVE FALSE
  BY <1>3, PageContents DEF Clear, Successful
<1>4. ASSUME NEW q \in Request, Handle(q) PROVE StepRepeated(r) \/ Commit(r)
  <2>1. CASE StepRepeated(q) \/ Commit(q)
    <3>1. \E page : Answer(q, page)
      BY <2>1 DEF StepRepeated, Commit
    <3>2. q = r
      BY <1>0, <3>1 DEF Answer
    <3> QED BY <2>1, <3>2
  <2>2. CASE StepBlocked(q) \/ CheckFails(q) \/ DatabaseFails(q) \/ CommitRolledBack(q)
    <3>1. \/ Answer(q, ConflictPage(req[q]))
          \/ \E kind \in {"blocked", "unavailable", "error"} : Answer(q, ErrorPage(kind))
      BY <2>2 DEF StepBlocked, CheckFails, DatabaseFails, CommitRolledBack
    <3> QED BY <1>1, <1>2, <3>1 DEF ReplyKind
  <2>3. CASE LoadStatus(q) \/ StepAdmitted(q) \/ SelectResponse(q)
             \/ \E outcome \in CheckOutcome : CheckReturns(q, outcome)
    BY <2>3 DEF LoadStatus, StepAdmitted, SelectResponse, CheckReturns, locals
  <2> QED BY <1>4, <2>1, <2>2, <2>3 DEF Handle
<1>5. ASSUME NEW q \in Request, NEW a \in App, NEW p \in PostsTo(a),
             Submit(q, p) \/ SubmitRefused(q, p)
      PROVE  FALSE
  <2>1. SubmitRefused(q, p)
    BY <1>5 DEF Submit
  <2>2. \E kind \in {"closed", "forbidden", "invalid"} : Answer(q, ErrorPage(kind))
    BY <2>1 DEF SubmitRefused
  <2> QED BY <1>1, <2>2 DEF ReplyKind
<1>6. ASSUME NEW a \in App, StartApplication(a) PROVE FALSE
  BY <1>6 DEF StartApplication, locals
<1>7. ASSUME NEW q \in Request, Deliver(q) PROVE FALSE
  BY <1>3, <1>7 DEF Deliver
<1>8. ASSUME NEW w \in Worker, Crash(w) PROVE FALSE
  <2>1. {q \in Request : WorkerOf[q] = w} \in SUBSET Request
    OBVIOUS
  <2> QED BY <1>3, <1>8, <2>1 DEF Crash
<1>9. CASE UNCHANGED vars
  BY <1>9 DEF vars, locals
<1> QED BY <1>4, <1>5, <1>6, <1>7, <1>8, <1>9 DEF Next

LEMMA ResponsesAreKept ==
    ASSUME Inv, [Next]_vars, NEW a \in App, NEW s \in Steps, Answered(a, s)
    PROVE  responses'[a][s] # NoAnswers
<1>1. Ledger!Next \/ UNCHANGED tables
  BY StepRefines DEF Ledger!vars, tables
<1>2. CASE UNCHANGED tables
  BY <1>2 DEF tables, Answered
<1>3. CASE \E b \in App : Ledger!StartApplication(b)
  BY <1>3 DEF Ledger!StartApplication, Answered
<1>4. ASSUME NEW b \in App, NEW t \in Steps, NEW p \in Answers,
             responses' = [responses EXCEPT ![b][t] = p]
      PROVE  responses'[a][s] # NoAnswers
  BY <1>4, SentinelAssumption DEF Inv, TypeOK, Answered
<1>5. CASE Ledger!Next
  BY <1>3, <1>4, <1>5, SameOperators DEF Ledger!Next, Ledger!Accept
<1> QED BY <1>1, <1>2, <1>5

LEMMA StepSendsOn == Inv /\ SentOnReachably /\ [Next]_vars => SentOnReachably'
<1> SUFFICES ASSUME Inv, SentOnReachably, [Next]_vars,
                    NEW r \in Request, Successful(reply'[r])
             PROVE  /\ reply'[r].app \in App
                    /\ reply'[r].next # 0 =>
                         \A t \in 1 .. (reply'[r].next - 1) :
                            responses'[reply'[r].app][t] # NoAnswers
  BY DEF SentOnReachably, Successful, Answered
<1>1. \A next \in Steps \cup {0} : \A t \in 1 .. (next - 1) : t \in Steps
  BY FlowAssumption DEF Steps
<1>2. CASE reply'[r] = reply[r]
  <2>1. reply[r].next \in Steps \cup {0}
    BY DEF Inv, TypeOK, Reply
  <2> QED BY <1>1, <1>2, <2>1, ResponsesAreKept DEF SentOnReachably
<1>3. ASSUME NEW next, reply'[r].app = req[r].app, reply'[r].next = next,
             next \in {0, NextStep(req[r].step)}, req[r] \in Post,
             Reachable(req[r].app, req[r].step),
             responses'[req[r].app][req[r].step] # NoAnswers
      PROVE  /\ reply'[r].app \in App
             /\ reply'[r].next # 0 =>
                  \A t \in 1 .. (reply'[r].next - 1) :
                     responses'[reply'[r].app][t] # NoAnswers
  <2>1. req[r].app \in App /\ req[r].step \in Steps
    BY <1>3 DEF Post
  <2>2. \A t \in 1 .. (req[r].step - 1) : responses'[req[r].app][t] # NoAnswers
    BY <1>1, <1>3, <2>1, ResponsesAreKept DEF Reachable
  <2>3. next # 0 => next = req[r].step + 1
    BY <1>3 DEF NextStep
  <2>4. ASSUME reply'[r].next # 0, NEW t \in 1 .. (reply'[r].next - 1)
        PROVE  responses'[req[r].app][t] # NoAnswers
    <3>1. reply'[r].next = req[r].step + 1 /\ req[r].step \in Nat
      BY <1>3, <2>1, <2>3, <2>4 DEF Steps
    <3>2. t \in 1 .. (req[r].step - 1) \/ t = req[r].step
      BY <2>4, <3>1
    <3> QED BY <1>3, <2>2, <3>2
  <2> QED BY <1>3, <2>1, <2>4
<1>4. CASE StepRepeated(r)
  <2>1. req[r] \in Post
    BY <1>4 DEF StepRepeated, Inv, TypeOK
  <2>2. Reachable(req[r].app, req[r].step)
    BY <1>4 DEF StepRepeated
  <2> DEFINE page == SuccessPage("repeat", req[r], statusRead[r], NextStep(req[r].step))
  <2>3. page.app = req[r].app /\ page.next = NextStep(req[r].step)
    BY DEF SuccessPage
  <2>4. reply' = [reply EXCEPT ![r] = page]
    BY <1>4 DEF StepRepeated, Answer
  <2> HIDE DEF page
  <2>5. reply'[r] = page
    BY <2>4 DEF Inv, TypeOK
  <2>6. responses'[req[r].app][req[r].step] # NoAnswers
    BY <1>4, <2>1, SentinelAssumption DEF StepRepeated, tables, Post
  <2> QED BY <1>3, <2>1, <2>2, <2>3, <2>5, <2>6
<1>5. CASE Commit(r)
  <2>1. req[r] \in Post /\ Reachable(req[r].app, req[r].step)
    BY <1>5, CommitFacts
  <2>2. /\ reply'[r].app = req[r].app
        /\ reply'[r].next \in {0, NextStep(req[r].step)}
    BY <1>5 DEF Commit, Answer, SuccessPage, NextPage, Inv, TypeOK
  <2>3. responses'[req[r].app][req[r].step] # NoAnswers
    BY <1>5, <2>1, SentinelAssumption DEF Commit, Post, Inv, TypeOK
  <2> QED BY <1>3, <2>1, <2>2, <2>3
<1> QED BY <1>2, <1>4, <1>5, WhoRedirects

(* Whoever is redirected to a step finds every earlier step saved, however *)
(* many workers serve the application in the meantime.                     *)
THEOREM RedirectsAreReachable == Spec => []RedirectIsReachable
<1>1. Init => SentOnReachably
  BY PageContents DEF Init, SentOnReachably, Successful
<1>2. SentOnReachably => RedirectIsReachable
  BY DEF SentOnReachably, RedirectIsReachable
<1> QED BY <1>1, <1>2, StepSendsOn, Invariance, PTL DEF Spec

-----------------------------------------------------------------------------
(***************************************************************************)
(* One event loop.  Only one handler is between two awaits at a time, so   *)
(* the status that LoadStatus read is still there when the step is looked  *)
(* at.  An open application has its last step unanswered, hence a repeated *)
(* step never leads to the decision page; the commit that closes the       *)
(* application does, and nothing moves a closed application.               *)
(***************************************************************************)
OneLoop == \A q, r \in Request : WorkerOf[q] = WorkerOf[r]

OneRuns == \A q, r \in Request : pc[q] \in Running /\ pc[r] \in Running => q = r

FinishedIsClosed == \A a \in App : Answered(a, NumSteps) => IsClosed(status[a])

StepIsOpen ==
    \A r \in Request : pc[r] = "step" =>
        IsCustomerSubmittable(status[req[r].app]) /\ IsCustomerSubmittable(statusRead[r])

PageIsTrue(page) ==
    /\ page.app \in App
    /\ page.next = 0 <=> IsClosed(page.status)
    /\ page.next = 0 =>
         decision[page.app].outcome = page.status /\ IsClosed(status[page.app])

LoopInv ==
    /\ OneRuns
    /\ FinishedIsClosed
    /\ StepIsOpen
    /\ \A r \in Request : Successful(reply[r]) => PageIsTrue(reply[r])

LEMMA WhoWrites ==
    ASSUME [Next]_vars
    PROVE  \/ UNCHANGED tables
           \/ \E a \in App : StartApplication(a)
           \/ \E r \in Request : Commit(r)
<1>1. ASSUME NEW r \in Request, Handle(r) PROVE UNCHANGED tables \/ Commit(r)
  BY <1>1 DEF Handle, LoadStatus, StepBlocked, StepRepeated, StepAdmitted,
     CheckReturns, CheckFails, SelectResponse, CommitRolledBack, DatabaseFails
<1> QED BY <1>1 DEF Next, vars, Submit, SubmitRefused, Deliver, Crash, Clear

(* Who comes to run, and who comes to look at a step.                      *)
LEMMA WhoRuns ==
    ASSUME Inv, [Next]_vars, NEW r \in Request, pc'[r] \in Running
    PROVE  /\ \/ pc'[r] = pc[r] /\ req'[r] = req[r] /\ statusRead'[r] = statusRead[r]
              \/ MayRun(r) /\ \A q \in Request \ {r} : pc'[q] = pc[q]
           /\ pc'[r] = "step" =>
                \/ LoadStatus(r)
                \/ pc[r] = "step" /\ req'[r] = req[r] /\ statusRead'[r] = statusRead[r]
<1>0. /\ pc \in [Request -> Phase] /\ req \in [Request -> Post \cup {NoPost}]
      /\ statusRead \in [Request -> ApplicationStatus \cup {"ABSENT"}]
  BY DEF Inv, TypeOK
<1> DEFINE Same == pc'[r] = pc[r] /\ req'[r] = req[r] /\ statusRead'[r] = statusRead[r]
           Moved(phase) == /\ MayRun(r)
                           /\ pc' = [pc EXCEPT ![r] = phase]
                           /\ phase = "step" => LoadStatus(r)
<1>1. ASSUME NEW q \in Request, NEW page, Answer(q, page) PROVE Same
  BY <1>0, <1>1 DEF Answer, Goto, Forget, Running
<1>2. ASSUME NEW R, Clear(R) PROVE Same
  BY <1>2 DEF Clear, Forget, Running
<1>3. ASSUME NEW q \in Request, NEW a \in App, NEW p \in PostsTo(a),
             Submit(q, p) \/ SubmitRefused(q, p)
      PROVE  Same \/ Moved("status")
  <2>1. CASE SubmitRefused(q, p)
    BY <1>1, <2>1 DEF SubmitRefused
  <2>2. CASE Submit(q, p)
    BY <1>0, <2>2 DEF Submit, Goto
  <2> QED BY <1>3, <2>1, <2>2
<1>4. ASSUME NEW q \in Request, Handle(q)
      PROVE  Same \/ \E phase : Moved(phase)
  <2>1. CASE \E page : Answer(q, page)
    BY <1>1, <2>1
  <2>2. CASE LoadStatus(q)
    <3>1. Same \/ Moved("step")
      BY <1>0, <2>2 DEF LoadStatus, Goto
    <3> QED BY <3>1
  <2>3. CASE StepAdmitted(q) \/ SelectResponse(q)
             \/ \E outcome \in CheckOutcome : CheckReturns(q, outcome)
    <3>1. PICK phase \in {"run", "select", "commit"} :
            /\ MayRun(q) /\ pc' = [pc EXCEPT ![q] = phase]
            /\ UNCHANGED <<req, statusRead>>
      BY <2>3 DEF StepAdmitted, SelectResponse, CheckReturns, Goto, NextPhase, locals
    <3>2. Same \/ Moved(phase)
      BY <1>0, <3>1
    <3> QED BY <3>2
  <2> QED BY <1>4, <2>1, <2>2, <2>3 DEF Handle, StepBlocked, StepRepeated, CheckFails,
          CommitRolledBack, Commit, DatabaseFails
<1>5. ASSUME (\E a \in App : StartApplication(a)) \/ UNCHANGED vars PROVE Same
  BY <1>5 DEF StartApplication, locals, vars
<1>6. Same \/ \E phase : Moved(phase)
  <2> HIDE DEF Same, Moved
  <2>1. ASSUME NEW q \in Request, Deliver(q) PROVE Same
    BY <1>2, <2>1 DEF Deliver
  <2>2. ASSUME NEW w \in Worker, Crash(w) PROVE Same
    BY <1>2, <2>2 DEF Crash
  <2> QED BY <1>3, <1>4, <1>5, <2>1, <2>2 DEF Next
<1> QED BY <1>0, <1>6

LEMMA StillAlone ==
    ASSUME OneLoop, Inv, OneRuns, [Next]_vars
    PROVE  OneRuns'
<1> SUFFICES ASSUME NEW q \in Request, NEW r \in Request,
                    pc'[q] \in Running, pc'[r] \in Running
             PROVE  q = r
  BY DEF OneRuns
<1>1. CASE pc'[q] = pc[q] /\ pc'[r] = pc[r]
  BY <1>1 DEF OneRuns
<1>2. CASE \E u \in {q, r} : MayRun(u) /\ \A v \in Request \ {u} : pc'[v] = pc[v]
  BY <1>2 DEF MayRun, OneLoop
<1> QED BY <1>1, <1>2, WhoRuns

(* A closed application is left as it is.                                  *)
LEMMA ClosedStays ==
    ASSUME Inv, [Next]_vars, NEW a \in App, IsClosed(status[a])
    PROVE  status'[a] = status[a] /\ decision'[a] = decision[a]
<1>1. CASE UNCHANGED tables
  BY <1>1 DEF tables
<1>2. ASSUME NEW b \in App, StartApplication(b) PROVE status'[a] = status[a] /\ decision' = decision
  BY <1>2 DEF StartApplication, IsClosed, ApplicationStatus, Inv, TypeOK
<1>3. ASSUME NEW r \in Request, Commit(r)
      PROVE  status'[a] = status[a] /\ decision'[a] = decision[a]
  <2>1. req[r].app # a
    BY <1>3, CommitFacts DEF IsCustomerSubmittable, CUSTOMER_SUBMITTABLE_STATUSES, IsClosed
  <2> QED BY <1>3, <2>1 DEF Commit, Inv, TypeOK
<1> QED BY <1>1, <1>2, <1>3, WhoWrites

LEMMA StillFinished ==
    ASSUME Inv, FinishedIsClosed, [Next]_vars
    PROVE  FinishedIsClosed'
<1> SUFFICES ASSUME NEW a \in App, responses'[a][NumSteps] # NoAnswers
             PROVE  IsClosed(status'[a])
  BY DEF FinishedIsClosed, Answered
<1>1. NumSteps \in Steps
  BY FlowAssumption DEF Steps
<1>2. CASE Answered(a, NumSteps)
  BY <1>2, ClosedStays DEF FinishedIsClosed
<1>3. CASE ~Answered(a, NumSteps)
  <2>1. PICK r \in Request : Commit(r)
    BY <1>3, WhoWrites DEF tables, StartApplication, Answered
  <2>2. req[r] \in Post
    BY <2>1, CommitFacts
  <2>3. req[r].app = a /\ req[r].step = NumSteps
    BY <1>1, <1>3, <2>1, <2>2 DEF Commit, Answered, Inv, TypeOK, Post
  <2>4. status'[a] = FinalStatus(NumSteps, outcomes[r])
    BY <2>1, <2>3 DEF Commit, Inv, TypeOK
  <2>5. NextStep(NumSteps) = 0
    BY FlowAssumption DEF NextStep
  <2> QED BY <2>4, <2>5 DEF FinalStatus, IsClosed, ApplicationStatus
<1> QED BY <1>2, <1>3

LEMMA StillOpen ==
    ASSUME Inv, OneRuns, StepIsOpen, [Next]_vars
    PROVE  StepIsOpen'
<1> SUFFICES ASSUME NEW r \in Request, pc'[r] = "step"
             PROVE  /\ IsCustomerSubmittable(status'[req'[r].app])
                    /\ IsCustomerSubmittable(statusRead'[r])
  BY DEF StepIsOpen
<1>1. CASE LoadStatus(r)
  BY <1>1 DEF LoadStatus, tables, Inv, TypeOK
<1>2. CASE pc[r] = "step" /\ req'[r] = req[r] /\ statusRead'[r] = statusRead[r]
  <2>1. IsCustomerSubmittable(status[req[r].app]) /\ req[r].app \in App
    BY <1>2 DEF StepIsOpen, Inv, TypeOK, Post
  <2>2. \A q \in Request : ~Commit(q)
    BY <1>2 DEF OneRuns, Running, Commit
  <2>3. ASSUME NEW a \in App, StartApplication(a) PROVE a # req[r].app
    BY <2>1, <2>3 DEF StartApplication, IsCustomerSubmittable, CUSTOMER_SUBMITTABLE_STATUSES
  <2>4. status'[req[r].app] = status[req[r].app]
    <3>1. CASE UNCHANGED tables
      BY <3>1 DEF tables
    <3>2. ASSUME NEW a \in App, StartApplication(a)
          PROVE  status'[req[r].app] = status[req[r].app]
      <4>1. status' = [status EXCEPT ![a] = "STARTED"] /\ a # req[r].app
        BY <2>3, <3>2 DEF StartApplication
      <4> QED BY <2>1, <4>1 DEF Inv, TypeOK
    <3> QED BY <2>2, <3>1, <3>2, WhoWrites
  <2> QED BY <1>2, <2>1, <2>4 DEF StepIsOpen
<1> QED BY <1>1, <1>2, WhoRuns DEF Running

LEMMA StillTrue ==
    ASSUME Inv, LoopInv, [Next]_vars, NEW r \in Request, Successful(reply'[r])
    PROVE  PageIsTrue(reply[r])'
<1>0. reply \in [Request -> Reply] /\ req \in [Request -> Post \cup {NoPost}]
  BY DEF Inv, TypeOK
<1>1. CASE reply'[r] = reply[r]
  BY <1>1, ClosedStays DEF LoopInv, PageIsTrue
<1>2. CASE StepRepeated(r)
  <2> DEFINE page == SuccessPage("repeat", req[r], statusRead[r], NextStep(req[r].step))
  <2>1. reply' = [reply EXCEPT ![r] = page]
    BY <1>2 DEF StepRepeated, Answer
  <2>2. /\ page.app = req[r].app /\ page.status = statusRead[r]
        /\ page.next = NextStep(req[r].step)
    BY DEF SuccessPage
  <2> HIDE DEF page
  <2>3. reply'[r] = page
    BY <1>0, <2>1
  <2>4. /\ req[r] \in Post /\ pc[r] = "step"
        /\ responses[req[r].app][req[r].step] = req[r].answers
    BY <1>2 DEF StepRepeated, Inv, TypeOK
  <2>5. /\ req[r].app \in App /\ req[r].step \in Steps
        /\ Answered(req[r].app, req[r].step)
        /\ ~IsClosed(status[req[r].app]) /\ ~IsClosed(statusRead[r])
    BY <2>4, SentinelAssumption DEF Post, Answered, LoopInv, StepIsOpen, IsClosed,
       IsCustomerSubmittable, CUSTOMER_SUBMITTABLE_STATUSES
  <2>6. req[r].step # NumSteps
    BY <2>5 DEF LoopInv, FinishedIsClosed
  <2>7. NextStep(req[r].step) # 0
    BY <2>5, <2>6, FlowAssumption DEF NextStep, Steps
  <2> QED BY <2>2, <2>3, <2>5, <2>7 DEF PageIsTrue
<1>3. CASE Commit(r)
  <2>1. req[r] \in Post
    BY <1>3, CommitFacts
  <2> PICK a \in App, s \in Steps : a = req[r].app /\ s = req[r].step
    BY <2>1 DEF Post
  <2> DEFINE final == FinalStatus(s, outcomes[r])
             page == SuccessPage("saved", req[r], final, NextPage(s, final))
  <2>2. /\ reply' = [reply EXCEPT ![r] = page]
        /\ status' = [status EXCEPT ![a] = final]
        /\ final # "IN_PROGRESS" =>
             decision' = [decision EXCEPT ![a] =
                            [outcome |-> final, reasons |-> Reasons(s, outcomes[r])]]
    BY <1>3 DEF Commit, Answer
  <2>3. /\ page.app = a /\ page.status = final
        /\ page.next = NextPage(s, final)
    BY DEF SuccessPage
  <2>4. NextPage(s, final) = 0 <=> IsClosed(final)
    BY FlowAssumption DEF NextPage, NextStep, FinalStatus, IsClosed, ApplicationStatus, Steps
  <2> HIDE DEF final, page
  <2>5. reply'[r] = page /\ status'[a] = final
    BY <1>0, <2>2 DEF Inv, TypeOK
  <2>6. IsClosed(final) => decision'[a].outcome = final
    BY <2>2 DEF Inv, TypeOK, IsClosed
  <2> QED BY <2>3, <2>4, <2>5, <2>6 DEF PageIsTrue
<1> QED BY <1>1, <1>2, <1>3, WhoRedirects

(* With one event loop the decision page is shown when there is a decision *)
(* and shows it; everybody else is sent on to a step.                      *)
THEOREM DecisionPages ==
    ASSUME OneLoop
    PROVE  Spec => []DecisionPageIsFinal
<1>1. Init => LoopInv
  <2>1. NumSteps \in Steps
    BY FlowAssumption DEF Steps
  <2> QED BY <2>1, PageContents DEF Init, LoopInv, OneRuns, Running, FinishedIsClosed,
          Answered, StepIsOpen, Successful
<1>2. Inv /\ LoopInv /\ [Next]_vars => LoopInv'
  <2> SUFFICES ASSUME Inv, LoopInv, [Next]_vars PROVE LoopInv'
    OBVIOUS
  <2>1. OneRuns' /\ FinishedIsClosed' /\ StepIsOpen'
    BY StillAlone, StillFinished, StillOpen DEF LoopInv
  <2>2. \A r \in Request : Successful(reply'[r]) => PageIsTrue(reply[r])'
    BY StillTrue
  <2> QED BY <2>1, <2>2 DEF LoopInv, Successful, PageIsTrue
<1>3. LoopInv => DecisionPageIsFinal
  BY DEF LoopInv, PageIsTrue, DecisionPageIsFinal
<1> QED BY <1>1, <1>2, <1>3, Invariance, PTL DEF Spec

-----------------------------------------------------------------------------
(***************************************************************************)
(* What the ledger guarantees, the handlers guarantee.  The theorems come  *)
(* from StepLedger_proofs; its instance has operators of its own, which    *)
(* are first shown to be those of Ledger.                                  *)
(***************************************************************************)
Proved == INSTANCE StepLedger_proofs

LEMMA ProvedSpec == Ledger!Spec => Proved!Spec
<1>1. Ledger!Init => Proved!Init
  BY DEF Ledger!Init, Proved!Init, Ledger!Steps, Proved!Steps,
     Ledger!NoDecision, Proved!NoDecision
<1>2. Ledger!Steps = Proved!Steps
  BY DEF Ledger!Steps, Proved!Steps
<1>3. \A s : Ledger!Verdicts(s) = Proved!Verdicts(s)
  BY DEF Ledger!Verdicts, Proved!Verdicts, Ledger!CheckOutcome, Proved!CheckOutcome
<1>4. \A a : Ledger!StartApplication(a) <=> Proved!StartApplication(a)
  BY DEF Ledger!StartApplication, Proved!StartApplication
<1>5. \A a, s : /\ Ledger!OpenTo(a, s) <=> Proved!OpenTo(a, s)
                /\ \A request_id : Ledger!FreshRows(a, s, request_id) <=>
                                   Proved!FreshRows(a, s, request_id)
  BY DEF Ledger!OpenTo, Proved!OpenTo, Ledger!Answered, Proved!Answered,
     Ledger!IsCustomerSubmittable, Proved!IsCustomerSubmittable,
     Ledger!CUSTOMER_SUBMITTABLE_STATUSES, Proved!CUSTOMER_SUBMITTABLE_STATUSES,
     Ledger!FreshRows, Proved!FreshRows
<1>6. \A s, verdicts :
        /\ Ledger!FinalStatus(s, verdicts) = Proved!FinalStatus(s, verdicts)
        /\ Ledger!Reasons(s, verdicts) = Proved!Reasons(s, verdicts)
        /\ \A p, request_id : Ledger!Rows(s, p, request_id, verdicts) =
                              Proved!Rows(s, p, request_id, verdicts)
  BY DEF Ledger!FinalStatus, Proved!FinalStatus, Ledger!RejectedBy,
     Proved!RejectedBy, Ledger!ReferredBy, Proved!ReferredBy, Ledger!NextStep,
     Proved!NextStep, Ledger!Reasons, Proved!Reasons, Ledger!Rows, Proved!Rows
<1>7. \A a, s, p, request_id, verdicts :
        Ledger!Accept(a, s, p, request_id, verdicts) <=>
          Proved!Accept(a, s, p, request_id, verdicts)
  BY <1>5, <1>6 DEF Ledger!Accept, Proved!Accept
<1>8. Ledger!Next => Proved!Next
  BY <1>2, <1>3, <1>4, <1>7 DEF Ledger!Next, Proved!Next
<1>9. [Ledger!Next]_(Ledger!vars) => [Proved!Next]_(Proved!vars)
  BY <1>8 DEF Ledger!vars, Proved!vars
<1> QED BY <1>1, <1>9, PTL DEF Ledger!Spec, Proved!Spec

(* An approval is earned, with any number of submissions in flight.        *)
THEOREM EarnedApproval == Spec => []Ledger!ApprovalIsEarned
<1>1. Proved!Spec => []Proved!ApprovalIsEarned
  BY Proved!EarnedApproval, FlowAssumption, SentinelAssumption
     DEF Proved!FlowAssumption, Proved!SentinelAssumption
<1>2. Proved!ApprovalIsEarned => Ledger!ApprovalIsEarned
  BY DEF Proved!ApprovalIsEarned, Ledger!ApprovalIsEarned, Proved!Answered,
     Ledger!Answered, Proved!AllChecksCleared, Ledger!AllChecksCleared,
     Proved!Cleared, Ledger!Cleared, Proved!Steps, Ledger!Steps
<1> QED BY <1>1, <1>2, Implements, ProvedSpec, PTL DEF LedgerSpec

(* Committed answers are a prefix of the flow, with any number of          *)
(* submissions in flight: save_step_response never leaves a gap.           *)
THEOREM ResponsesInOrder == Spec => []Ledger!ResponsesArePrefix
<1>1. Proved!Spec => []Proved!ResponsesArePrefix
  BY Proved!ResponsesInOrder, FlowAssumption, SentinelAssumption
     DEF Proved!FlowAssumption, Proved!SentinelAssumption
<1>2. Proved!ResponsesArePrefix => Ledger!ResponsesArePrefix
  BY DEF Proved!ResponsesArePrefix, Ledger!ResponsesArePrefix, Proved!Answered,
     Ledger!Answered, Proved!Steps, Ledger!Steps
<1> QED BY <1>1, <1>2, Implements, ProvedSpec, PTL DEF LedgerSpec

(* An open application has its last step left, whoever else submits: the   *)
(* fallback of the resume lookup is never taken.                           *)
THEOREM OpenHasAStepLeft == Spec => []Ledger!OpenHasStepLeft
<1>1. Proved!Spec => []Proved!OpenHasStepLeft
  BY Proved!OpenHasAStepLeft, FlowAssumption, SentinelAssumption
     DEF Proved!FlowAssumption, Proved!SentinelAssumption
<1>2. Proved!OpenHasStepLeft => Ledger!OpenHasStepLeft
  BY DEF Proved!OpenHasStepLeft, Ledger!OpenHasStepLeft, Proved!Answered,
     Ledger!Answered, Proved!IsCustomerSubmittable, Ledger!IsCustomerSubmittable,
     Proved!CUSTOMER_SUBMITTABLE_STATUSES, Ledger!CUSTOMER_SUBMITTABLE_STATUSES
<1> QED BY <1>1, <1>2, Implements, ProvedSpec, PTL DEF LedgerSpec

(* The status is the worst verdict in the committed log, however the       *)
(* checks of concurrent submissions end: no verdict is lost or left over.  *)
THEOREM StatusFollowsVerdicts == Spec => []Ledger!VerdictsDecide
<1>1. Proved!Spec => []Proved!VerdictsDecide
  BY Proved!StatusFollowsVerdicts, FlowAssumption, SentinelAssumption
     DEF Proved!FlowAssumption, Proved!SentinelAssumption
<1>2. Proved!VerdictsDecide => Ledger!VerdictsDecide
  BY DEF Proved!VerdictsDecide, Ledger!VerdictsDecide, Proved!HasRow, Ledger!HasRow
<1> QED BY <1>1, <1>2, Implements, ProvedSpec, PTL DEF LedgerSpec

(* The decision row agrees with the status, and its reasons with the log,  *)
(* after every step of every handler.                                      *)
THEOREM DecisionIsOnRecord == Spec => []Ledger!DecisionMatchesRecord
<1>1. Proved!Spec => []Proved!DecisionMatchesRecord
  BY Proved!DecisionIsOnRecord, FlowAssumption, SentinelAssumption
     DEF Proved!FlowAssumption, Proved!SentinelAssumption
<1>2. Proved!DecisionMatchesRecord => Ledger!DecisionMatchesRecord
  BY DEF Proved!DecisionMatchesRecord, Ledger!DecisionMatchesRecord,
     Proved!AdverseRows, Ledger!AdverseRows, Proved!IsClosed, Ledger!IsClosed,
     Proved!ApplicationStatus, Ledger!ApplicationStatus,
     Proved!NoDecision, Ledger!NoDecision
<1> QED BY <1>1, <1>2, Implements, ProvedSpec, PTL DEF LedgerSpec

(* Once an application is closed, no submission that was in flight when it *)
(* closed, or is posted later, changes any of its rows.                    *)
THEOREM ClosedStaysClosed == Spec => Ledger!ClosedNeverChanges
<1> DEFINE Frozen(a) == /\ status'[a] = status[a]
                        /\ version'[a] = version[a]
                        /\ responses'[a] = responses[a]
                        /\ logs'[a] = logs[a]
                        /\ decision'[a] = decision[a]
           Before == \A a \in App : Proved!IsClosed(status[a]) => Frozen(a)
           After == \A a \in App : Ledger!IsClosed(status[a]) => Frozen(a)
           from == Proved!vars
           to == Ledger!vars
<1>1. Proved!Spec => [][Before]_from
  BY Proved!ClosedStaysClosed, FlowAssumption, SentinelAssumption
     DEF Proved!FlowAssumption, Proved!SentinelAssumption, Proved!ClosedNeverChanges
<1>2. [Before]_from => [After]_to
  BY DEF Proved!IsClosed, Ledger!IsClosed, Proved!ApplicationStatus,
     Ledger!ApplicationStatus, Proved!vars, Ledger!vars
<1>3. Ledger!ClosedNeverChanges <=> [][After]_to
  BY DEF Ledger!ClosedNeverChanges
<1> HIDE DEF Before, After, from, to
<1> QED BY <1>1, <1>2, <1>3, Implements, ProvedSpec, PTL DEF LedgerSpec

-----------------------------------------------------------------------------
(***************************************************************************)
(* The other side of the contract KeepsContract proves for the runner:     *)
(* what a handler does while it awaits its checks is the CheckLoop of its  *)
(* step, and nothing else.                                                 *)
(***************************************************************************)
Loop(r, s) == INSTANCE CheckLoop WITH
    Required <- Required[s],
    pc <- pc[r],
    outcomes <- outcomes[r],
    failure <- reply[r].kind

(* A handler enters the loop at its start, goes through it one move at a   *)
(* time, and stays with its step until it is done with it.                 *)
FollowsLoop(r, s) ==
    /\ pc[r] # "run" /\ pc'[r] = "run" /\ req'[r].step = s => Loop(r, s)!Init'
    /\ pc[r] = "run" /\ req[r].step = s =>
         /\ [Loop(r, s)!Next]_(Loop(r, s)!vars)
         /\ req'[r] \in {req[r], NoPost}

SilentUntilReply == \A r \in Request : pc[r] # "reply" => reply[r].kind = "none"

(* What is left of handler r by a step of another one.                     *)
Untouched(r) ==
    /\ pc'[r] = pc[r] /\ req'[r] = req[r]
    /\ outcomes'[r] = outcomes[r] /\ reply'[r] = reply[r]

LEMMA OthersStep ==
    ASSUME Inv, NEW r \in Request,
           \/ UNCHANGED vars
           \/ \E a \in App : StartApplication(a)
           \/ \E q \in Request \ {r}, a \in App : \E p \in PostsTo(a) :
                Submit(q, p) \/ SubmitRefused(q, p)
           \/ \E q \in Request \ {r} : Handle(q) \/ Deliver(q)
           \/ \E w \in Worker \ {WorkerOf[r]} : Crash(w)
    PROVE  Untouched(r)
<1>0. /\ pc \in [Request -> Phase] /\ req \in [Request -> Post \cup {NoPost}]
      /\ outcomes \in [Request -> Seq(CheckOutcome)] /\ reply \in [Request -> Reply]
  BY DEF Inv, TypeOK
<1>1. ASSUME NEW q \in Request \ {r}, NEW page, Answer(q, page) PROVE Untouched(r)
  BY <1>0, <1>1 DEF Answer, Goto, Forget, Untouched
<1>2. ASSUME NEW R, r \notin R, Clear(R) PROVE Untouched(r)
  BY <1>2 DEF Clear, Forget, Untouched
<1>3. CASE (\E a \in App : StartApplication(a)) \/ UNCHANGED vars
  BY <1>3 DEF StartApplication, vars, locals, Untouched
<1>4. ASSUME NEW q \in Request \ {r}, NEW a \in App, NEW p \in PostsTo(a),
             Submit(q, p) \/ SubmitRefused(q, p)
      PROVE  Untouched(r)
  <2>1. CASE SubmitRefused(q, p)
    BY <1>1, <2>1 DEF SubmitRefused
  <2>2. CASE Submit(q, p)
    BY <1>0, <2>2 DEF Submit, Goto, Untouched
  <2> QED BY <1>4, <2>1, <2>2
<1>5. ASSUME NEW q \in Request \ {r}, Handle(q) PROVE Untouched(r)
  <2>1. CASE \E page : Answer(q, page)
    BY <1>1, <2>1
  <2>2. CASE LoadStatus(q) \/ StepAdmitted(q) \/ SelectResponse(q)
    BY <1>0, <2>2 DEF LoadStatus, StepAdmitted, SelectResponse, Goto, locals, Untouched
  <2>3. ASSUME NEW outcome \in CheckOutcome, CheckReturns(q, outcome) PROVE Untouched(r)
    BY <1>0, <2>3 DEF CheckReturns, Goto, Untouched
  <2> QED BY <1>5, <2>1, <2>2, <2>3 DEF Handle, StepBlocked, StepRepeated, CheckFails,
          CommitRolledBack, Commit, DatabaseFails
<1>6. ASSUME NEW q \in Request \ {r}, Deliver(q) PROVE Untouched(r)
  BY <1>2, <1>6 DEF Deliver
<1>7. ASSUME NEW w \in Worker \ {WorkerOf[r]}, Crash(w) PROVE Untouched(r)
  BY <1>2, <1>7 DEF Crash
<1> QED BY <1>3, <1>4, <1>5, <1>6, <1>7

(* Everything a step may do to handler r.                                  *)
LEMMA OwnStep ==
    ASSUME Inv, [Next]_vars, NEW r \in Request
    PROVE  \/ Untouched(r)
           \/ \E a \in App : \E p \in PostsTo(a) : Submit(r, p) \/ SubmitRefused(r, p)
           \/ Handle(r)
           \/ \E R \in SUBSET Request : r \in R /\ Clear(R)
<1>1. ASSUME NEW w \in Worker, Crash(w)
      PROVE  Untouched(r) \/ \E R \in SUBSET Request : r \in R /\ Clear(R)
  BY <1>1, OthersStep DEF Crash
<1>2. ASSUME NEW q \in Request, Deliver(q)
      PROVE  Untouched(r) \/ \E R \in SUBSET Request : r \in R /\ Clear(R)
  BY <1>2, OthersStep DEF Deliver
<1> QED BY <1>1, <1>2, OthersStep DEF Next

LEMMA SilentStep == Inv /\ SilentUntilReply /\ [Next]_vars => SilentUntilReply'
<1> SUFFICES ASSUME Inv, SilentUntilReply, [Next]_vars, NEW r \in Request, pc'[r] # "reply"
             PROVE  reply'[r].kind = "none"
  BY DEF SilentUntilReply
<1>0. pc \in [Request -> Phase] /\ reply \in [Request -> Reply]
  BY DEF Inv, TypeOK
<1>1. CASE Untouched(r)
  BY <1>1 DEF Untouched, SilentUntilReply
<1>2. ASSUME NEW page, Answer(r, page) PROVE FALSE
  BY <1>0, <1>2 DEF Answer, Goto
<1>3. ASSUME NEW R \in SUBSET Request, r \in R, Clear(R) PROVE reply'[r].kind = "none"
  BY <1>3, PageContents DEF Clear
<1>4. ASSUME NEW a \in App, NEW p \in PostsTo(a), Submit(r, p) \/ SubmitRefused(r, p)
      PROVE  reply'[r].kind = "none"
  BY <1>2, <1>4 DEF Submit, SubmitRefused, SilentUntilReply
<1>5. CASE Handle(r)
  <2>1. CASE \E page : Answer(r, page)
    BY <1>2, <2>1
  <2>2. CASE /\ pc[r] # "reply"
             /\ UNCHANGED reply
    BY <2>2 DEF SilentUntilReply
  <2> QED BY <1>5, <2>1, <2>2 DEF Handle, StepBlocked, StepRepeated, CheckFails,
          CommitRolledBack, Commit, DatabaseFails, LoadStatus, StepAdmitted,
          SelectResponse, CheckReturns, locals
<1> QED BY <1>1, <1>3, <1>4, <1>5, OwnStep

LEMMA SilentInit == Init => SilentUntilReply
  BY PageContents DEF Init, SilentUntilReply

LEMMA EntersLoop ==
    ASSUME Inv, SilentUntilReply', [Next]_vars, NEW r \in Request, NEW s \in Steps,
           pc[r] # "run", pc'[r] = "run"
    PROVE  Loop(r, s)!Init'
<1>0. pc \in [Request -> Phase] /\ reply \in [Request -> Reply]
  BY DEF Inv, TypeOK
<1>1. reply'[r].kind = "none"
  BY DEF SilentUntilReply
<1>2. ASSUME NEW page, Answer(r, page) PROVE FALSE
  BY <1>0, <1>2 DEF Answer, Goto
<1>3. ASSUME NEW R \in SUBSET Request, r \in R, Clear(R) PROVE FALSE
  BY <1>3 DEF Clear
<1>4. ASSUME NEW a \in App, NEW p \in PostsTo(a), Submit(r, p) \/ SubmitRefused(r, p)
      PROVE  FALSE
  BY <1>0, <1>2, <1>4 DEF Submit, SubmitRefused, Goto
<1>5. Handle(r)
  BY <1>3, <1>4, OwnStep DEF Untouched
<1>6. LoadStatus(r) \/ StepAdmitted(r) \/ SelectResponse(r)
  BY <1>2, <1>5 DEF Handle, StepBlocked, StepRepeated, CheckFails,
     CommitRolledBack, Commit, DatabaseFails, CheckReturns
<1>7. StepAdmitted(r)
  BY <1>0, <1>6 DEF LoadStatus, SelectResponse, Goto
<1>8. outcomes'[r] = <<>>
  BY <1>7 DEF StepAdmitted, locals, Inv, TypeOK
<1> QED BY <1>1, <1>8 DEF Loop!Init

LEMMA StaysInLoop ==
    ASSUME Inv, [Next]_vars, NEW r \in Request, NEW s \in Steps,
           pc[r] = "run", req[r].step = s
    PROVE  /\ [Loop(r, s)!Next]_(Loop(r, s)!vars)
           /\ req'[r] \in {req[r], NoPost}
<1> DEFINE Goal == /\ [Loop(r, s)!Next]_(Loop(r, s)!vars)
                   /\ req'[r] \in {req[r], NoPost}
<1>0. /\ pc \in [Request -> Phase] /\ reply \in [Request -> Reply]
      /\ req \in [Request -> Post \cup {NoPost}]
      /\ outcomes \in [Request -> Seq(CheckOutcome)]
  BY DEF Inv, TypeOK
<1>1. CASE Untouched(r)
  BY <1>1 DEF Untouched, Loop!vars
<1>2. ASSUME NEW R \in SUBSET Request, r \in R, Clear(R) PROVE Goal
  <2>1. /\ pc'[r] = "idle" /\ outcomes'[r] = <<>> /\ reply'[r].kind = "none"
        /\ req'[r] = NoPost
    BY <1>2, PageContents DEF Clear, Forget
  <2>2. Loop(r, s)!Stops
    BY <2>1 DEF Loop!Stops
  <2> QED BY <2>1, <2>2 DEF Loop!Next
<1>3. ASSUME NEW a \in App, NEW p \in PostsTo(a), Submit(r, p) \/ SubmitRefused(r, p)
      PROVE  FALSE
  BY <1>3 DEF Submit, SubmitRefused
<1>4. CASE Handle(r)
  <2>1. CheckFails(r) \/ \E outcome \in CheckOutcome : CheckReturns(r, outcome)
    BY <1>4 DEF Handle, LoadStatus, StepBlocked, StepRepeated, StepAdmitted,
       SelectResponse, CommitRolledBack, Commit, DatabaseFails, Running
  <2>2. CASE CheckFails(r)
    <3>1. PICK kind \in {"unavailable", "error"} : Answer(r, ErrorPage(kind))
      BY <2>2 DEF CheckFails
    <3>2. /\ pc'[r] = "reply" /\ outcomes'[r] = <<>> /\ reply'[r].kind = kind
          /\ req'[r] = NoPost
      BY <1>0, <3>1, PageContents DEF Answer, Goto, Forget
    <3>3. Loop(r, s)!CheckFails
      BY <3>1, <3>2 DEF Loop!CheckFails
    <3> QED BY <3>2, <3>3 DEF Loop!Next
  <2>3. ASSUME NEW outcome \in CheckOutcome, CheckReturns(r, outcome) PROVE Goal
    <3>1. /\ Len(outcomes[r]) < Len(Required[s])
          /\ outcomes'[r] = Append(outcomes[r], outcome)
          /\ pc'[r] = NextPhase(s, Len(outcomes[r]) + 1)
          /\ reply'[r] = reply[r] /\ req'[r] = req[r]
      BY <1>0, <2>3 DEF CheckReturns, Goto
    <3>2. Loop(r, s)!CheckReturns(outcome)
      BY <3>1 DEF NextPhase, Loop!CheckReturns
    <3> QED BY <3>1, <3>2 DEF Loop!Next, Loop!CheckOutcome, CheckOutcome
  <2> QED BY <2>1, <2>2, <2>3
<1> QED BY <1>1, <1>2, <1>3, <1>4, OwnStep

(* Every handler goes through the loop the runner keeps, from its start,   *)
(* with the verdicts of its own step alone, whatever the other handlers,   *)
(* its own earlier requests and crashes do: the two models meet in         *)
(* CheckLoop (services/onboarding_service.py:137-141).                     *)
THEOREM HandlersFollowLoop ==
    Spec => [][\A r \in Request, s \in Steps : FollowsLoop(r, s)]_vars
<1>1. Inv /\ SilentUntilReply /\ SilentUntilReply' /\ [Next]_vars
        => [\A r \in Request, s \in Steps : FollowsLoop(r, s)]_vars
  BY EntersLoop, StaysInLoop DEF FollowsLoop
<1>2. Spec => []SilentUntilReply
  BY SilentInit, SilentStep, Invariance, PTL DEF Spec
<1> QED BY <1>1, <1>2, Invariance, PTL DEF Spec

=============================================================================
