----------------------------- MODULE Onboarding -----------------------------
(***************************************************************************)
(* The request handlers of the onboarding service at work on the shared    *)
(* tables: POST /application/start and POST /application/{id}/step/{step}. *)
(*                                                                         *)
(* A handler is split where another handler may touch the database between *)
(* two of its own accesses.  On one worker that happens only where the     *)
(* handler awaits a provider (the asyncio loop runs everything in between  *)
(* in one go, see MayRun); with several worker processes it may happen     *)
(* between any two statements, and the model keeps a step per statement    *)
(* group that reads or writes.                                             *)
(*                                                                         *)
(* SQLite begins a transaction at the first write (isolation_level         *)
(* IMMEDIATE), so SELECTs see the last committed rows and the statements   *)
(* from the first flush to the commit run alone: one step, Commit.         *)
(***************************************************************************)
EXTENDS OnboardingData

CONSTANTS
    Request,        \* slots for POST requests in flight
    Worker,         \* worker processes, each with one event loop
    WorkerOf,       \* the worker that serves a request
    NoPost          \* the slot holds no request

ASSUME WorkerAssumption == WorkerOf \in [Request -> Worker]

VARIABLES
    status,         \* applications.status; "ABSENT" when there is no row
    version,        \* applications.version; 0 when there is no row
    responses,      \* step_responses, by application and step
    logs,           \* integration_logs, by application
    decision,       \* decisions, by application
    pc,             \* where the handler of a request is
    req,            \* what the request posted
    statusRead,     \* process_step_submission's application.status
    outcomes,       \* process_step_submission's results so far
    rowSeen,        \* save_step_response's SELECT found a row
    reply           \* the response, once there is one

tables == <<status, version, responses, logs, decision>>
locals == <<req, statusRead, outcomes, rowSeen, reply>>
vars == <<tables, pc, locals>>

Phase == {"idle", "status", "step", "run", "select", "commit", "reply"}

(* The form of one submission.  version is the hidden field of the page.   *)
Post == [app : App, step : Steps, answers : Answers,
         version : Nat \ {0}, request_id : RequestId]

(* The responses: saved and repeat are the redirect to step next, or the   *)
(* decision page when next is 0; closed, blocked and conflict are the      *)
(* three 409s; forbidden is 403, invalid 400, unavailable 503, error 500.  *)
(* Those that tell about the tables name the application and the version   *)
(* that was posted.                                                        *)
ReplyKind == {"none", "saved", "repeat", "closed", "blocked", "conflict",
              "forbidden", "invalid", "unavailable", "error"}

Reply == [kind : ReplyKind, app : App \cup {NoPost}, version : Nat,
          status : ApplicationStatus \cup {"ABSENT"}, next : Steps \cup {0}]

ErrorPage(kind) == [kind |-> kind, app |-> NoPost, version |-> 0,
                    status |-> "ABSENT", next |-> 0]
NoReply == ErrorPage("none")

ConflictPage(p) ==
    [ErrorPage("conflict") EXCEPT !.app = p.app, !.version = p.version]

SuccessPage(kind, p, st, next) ==
    [kind |-> kind, app |-> p.app, version |-> p.version,
     status |-> st, next |-> next]

-----------------------------------------------------------------------------
(* Guards and helpers of the handlers.                                     *)

Answered(a, s) == responses[a][s] # NoAnswers

\* Mutant: any step of the flow is taken, in any order.
ReachableAlways(a, s) == TRUE

(* _assert_step_is_reachable: every earlier step has a saved response.     *)
Reachable(a, s) == \A t \in 1 .. (s - 1) : Answered(a, t)

\* Mutant: one more provider is awaited than the step requires.
NextPhaseOneMore(s, n) == IF n <= Len(Required[s]) THEN "run" ELSE "select"

(* After n results: on to the next check, or to the unit of work.          *)
NextPhase(s, n) == IF n < Len(Required[s]) THEN "run" ELSE "select"

\* Mutant: the update matches on the id alone.
VersionIgnored(p) == TRUE

\* Mutant: the update expects the version it is about to write.
VersionOffByOne(p) == version[p.app] + 1 = p.version

(* UPDATE applications ... WHERE version = :current_version matches.       *)
VersionIsCurrent(p) == version[p.app] = p.version

\* Mutant: the table has no unique constraint.
RowsUnchecked(p) == TRUE

(* UNIQUE(application_id, service_name, request_id).                       *)
RowsAreNew(p) ==
    \A row \in logs[p.app] : \A k \in 1 .. Len(Required[p.step]) :
        ~(row.service = Required[p.step][k] /\ row.request_id = p.request_id)

\* Mutant: a closed application is still sent on to the next step.
NextPageAlwaysOn(s, st) == NextStep(s)

(* The next_step_id process_step_submission returns: None once final.      *)
NextPage(s, st) == IF st = "IN_PROGRESS" THEN NextStep(s) ELSE 0

(* save_step_response is about to insert, and another request already did. *)
InsertCollides(r) ==
    ~rowSeen[r] /\ Answered(req[r].app, req[r].step)

(* The statements of a handler between two awaits run without another      *)
(* handler of the same worker in between.                                  *)
Running == {"status", "step", "select", "commit"}

MayRun(r) ==
    \A q \in Request \ {r} : WorkerOf[q] = WorkerOf[r] => pc[q] \notin Running

-----------------------------------------------------------------------------

Init ==
    /\ status = [a \in App |-> "ABSENT"]
    /\ version = [a \in App |-> 0]
    /\ responses = [a \in App |-> [s \in Steps |-> NoAnswers]]
    /\ logs = [a \in App |-> {}]
    /\ decision = [a \in App |-> NoDecision]
    /\ pc = [r \in Request |-> "idle"]
    /\ req = [r \in Request |-> NoPost]
    /\ statusRead = [r \in Request |-> "ABSENT"]
    /\ outcomes = [r \in Request |-> <<>>]
    /\ rowSeen = [r \in Request |-> FALSE]
    /\ reply = [r \in Request |-> NoReply]

Goto(r, phase) == pc' = [pc EXCEPT ![r] = phase]

(* Locals of the handlers R go out of scope.                               *)
Forget(R) ==
    /\ req' = [r \in Request |-> IF r \in R THEN NoPost ELSE req[r]]
    /\ statusRead' = [r \in Request |-> IF r \in R THEN "ABSENT" ELSE statusRead[r]]
    /\ outcomes' = [r \in Request |-> IF r \in R THEN <<>> ELSE outcomes[r]]
    /\ rowSeen' = [r \in Request |-> IF r \in R THEN FALSE ELSE rowSeen[r]]

Answer(r, page) ==
    /\ Goto(r, "reply")
    /\ reply' = [reply EXCEPT ![r] = page]
    /\ Forget({r})

(* POST /application/start: a fresh uuid, one insert, one commit.          *)
StartApplication(a) ==
    /\ status[a] = "ABSENT"
    /\ status' = [status EXCEPT ![a] = "STARTED"]
    /\ version' = [version EXCEPT ![a] = 1]
    /\ UNCHANGED <<responses, logs, decision, pc, locals>>

(***************************************************************************)
(* submit_step_view up to the call of the service.  A page can carry any   *)
(* version the application has had, however long ago it was rendered.      *)
(***************************************************************************)
PostsTo(a) == [app : {a}, step : Steps, answers : Answers,
               version : 1 .. version[a], request_id : RequestId]

Submit(r, p) ==
    /\ pc[r] = "idle"
    /\ MayRun(r)
    /\ IsCustomerSubmittable(status[p.app])
    /\ Goto(r, "status")
    /\ req' = [req EXCEPT ![r] = p]
    /\ UNCHANGED <<tables, statusRead, outcomes, rowSeen, reply>>

(* 409 from _get_application_or_abort comes before the cookie is looked at *)
(* (403), and that before the fields are validated (400).                  *)
SubmitRefused(r, p) ==
    /\ pc[r] = "idle"
    /\ MayRun(r)
    /\ \/ /\ ~IsCustomerSubmittable(status[p.app])
          /\ Answer(r, ErrorPage("closed"))
       \/ /\ IsCustomerSubmittable(status[p.app])
          /\ \E kind \in {"forbidden", "invalid"} : Answer(r, ErrorPage(kind))
    /\ UNCHANGED tables

(***************************************************************************)
(* process_step_submission.                                                *)
(***************************************************************************)
LoadStatus(r) ==
    /\ pc[r] = "status"
    /\ MayRun(r)
    /\ IsCustomerSubmittable(status[req[r].app])
    /\ Goto(r, "step")
    /\ statusRead' = [statusRead EXCEPT ![r] = status[req[r].app]]
    /\ UNCHANGED <<tables, req, outcomes, rowSeen, reply>>

(* StateTransitionError: closed by now, or an earlier step is missing.     *)
(* Responses are never deleted, so reading them one by one gives the same  *)
(* answer as reading them together.                                        *)
StepBlocked(r) ==
    /\ MayRun(r)
    /\ \/ pc[r] = "status" /\ ~IsCustomerSubmittable(status[req[r].app])
       \/ pc[r] = "step" /\ ~Reachable(req[r].app, req[r].step)
    /\ Answer(r, ErrorPage("blocked"))
    /\ UNCHANGED tables

(* Same payload as last time: no checks, no write, and no version check.   *)
StepRepeated(r) ==
    LET p == req[r] IN
    /\ pc[r] = "step"
    /\ MayRun(r)
    /\ Reachable(p.app, p.step)
    /\ responses[p.app][p.step] = p.answers
    /\ Answer(r, SuccessPage("repeat", p, statusRead[r], NextStep(p.step)))
    /\ UNCHANGED tables

StepAdmitted(r) ==
    LET p == req[r] IN
    /\ pc[r] = "step"
    /\ MayRun(r)
    /\ Reachable(p.app, p.step)
    /\ responses[p.app][p.step] # p.answers
    /\ Goto(r, NextPhase(p.step, 0))
    /\ UNCHANGED <<tables, locals>>

(* The checks run one after the other; the handler is suspended meanwhile. *)
CheckReturns(r, outcome) ==
    LET s == req[r].step IN
    /\ pc[r] = "run"
    /\ MayRun(r)
    /\ Len(outcomes[r]) < Len(Required[s])
    /\ outcomes' = [outcomes EXCEPT ![r] = Append(@, outcome)]
    /\ Goto(r, NextPhase(s, Len(outcomes[r]) + 1))
    /\ UNCHANGED <<tables, req, statusRead, rowSeen, reply>>

(* IntegrationUnavailableError (503), or a data error of the provider that *)
(* the runner re-raises (500).  The results so far are dropped.            *)
CheckFails(r) ==
    /\ pc[r] = "run"
    /\ MayRun(r)
    /\ Len(outcomes[r]) < Len(Required[req[r].step])
    /\ \E kind \in {"unavailable", "error"} : Answer(r, ErrorPage(kind))
    /\ UNCHANGED tables

(* The unit of work: save_step_response looks for the row ...              *)
SelectResponse(r) ==
    /\ pc[r] = "select"
    /\ MayRun(r)
    /\ rowSeen' = [rowSeen EXCEPT ![r] = Answered(req[r].app, req[r].step)]
    /\ Goto(r, "commit")
    /\ UNCHANGED <<tables, req, statusRead, outcomes, reply>>

(* ... and then everything is written, or nothing: the insert collides or  *)
(* the version moved on (409), a log row exists already (500) ...          *)
CommitRolledBack(r) ==
    LET p == req[r] IN
    /\ pc[r] = "commit"
    /\ MayRun(r)
    /\ \/ /\ InsertCollides(r) \/ ~VersionIsCurrent(p)
          /\ Answer(r, ConflictPage(p))
       \/ /\ ~InsertCollides(r) /\ VersionIsCurrent(p)
          /\ ~RowsAreNew(p)
          /\ Answer(r, ErrorPage("error"))
    /\ UNCHANGED tables

Commit(r) ==
    LET p == req[r]
        a == p.app
        final == FinalStatus(p.step, outcomes[r])
    IN
    /\ pc[r] = "commit"
    /\ MayRun(r)
    /\ ~InsertCollides(r)
    /\ VersionIsCurrent(p)
    /\ RowsAreNew(p)
    /\ responses' = [responses EXCEPT ![a][p.step] = p.answers]
    /\ logs' = [logs EXCEPT ![a] =
                   @ \cup Rows(p.step, p.answers, p.request_id, outcomes[r])]
    /\ status' = [status EXCEPT ![a] = final]
    /\ version' = [version EXCEPT ![a] = @ + 1]
    /\ decision' =
         IF final = "IN_PROGRESS" THEN decision
         ELSE [decision EXCEPT ![a] =
                 [outcome |-> final, reasons |-> Reasons(p.step, outcomes[r])]]
    /\ Answer(r, SuccessPage("saved", p, final, NextPage(p.step, final)))

(* The database gives up (locked for 30 s, disk full): 500, no write.      *)
DatabaseFails(r) ==
    /\ pc[r] \in Running
    /\ MayRun(r)
    /\ Answer(r, ErrorPage("error"))
    /\ UNCHANGED tables

Clear(R) ==
    /\ pc' = [r \in Request |-> IF r \in R THEN "idle" ELSE pc[r]]
    /\ reply' = [r \in Request |-> IF r \in R THEN NoReply ELSE reply[r]]
    /\ Forget(R)
    /\ UNCHANGED tables

(* The response leaves; the browser may or may not get it.                 *)
Deliver(r) == pc[r] = "reply" /\ Clear({r})

(* A worker process dies with the requests it holds; SQLite keeps what was *)
(* committed.                                                              *)
Crash(w) ==
    /\ \E r \in Request : WorkerOf[r] = w /\ pc[r] # "idle"
    /\ Clear({r \in Request : WorkerOf[r] = w})

Handle(r) ==
    \/ LoadStatus(r)
    \/ StepBlocked(r)
    \/ StepRepeated(r)
    \/ StepAdmitted(r)
    \/ \E outcome \in CheckOutcome : CheckReturns(r, outcome)
    \/ CheckFails(r)
    \/ SelectResponse(r)
    \/ CommitRolledBack(r)
    \/ DatabaseFails(r)
    \/ Commit(r)

Next ==
    \/ \E a \in App : StartApplication(a)
    \/ \E r \in Request, a \in App : \E p \in PostsTo(a) :
         Submit(r, p) \/ SubmitRefused(r, p)
    \/ \E r \in Request : Handle(r) \/ Deliver(r)
    \/ \E w \in Worker : Crash(w)

Spec == Init /\ [][Next]_vars

-----------------------------------------------------------------------------
(***************************************************************************)
(* Properties.                                                             *)
(***************************************************************************)

TypeOK ==
    /\ status \in [App -> ApplicationStatus \cup {"ABSENT"}]
    /\ version \in [App -> Nat]
    /\ responses \in [App -> [Steps -> Answers \cup {NoAnswers}]]
    /\ logs \in [App -> SUBSET LogRow]
    /\ decision \in [App -> DecisionRecord]
    /\ pc \in [Request -> Phase]
    /\ req \in [Request -> Post \cup {NoPost}]
    /\ statusRead \in [Request -> ApplicationStatus \cup {"ABSENT"}]
    /\ outcomes \in [Request -> Seq(CheckOutcome)]
    /\ rowSeen \in [Request -> BOOLEAN]
    /\ reply \in [Request -> Reply]
    /\ \A r \in Request :
         /\ pc[r] \notin {"idle", "reply"} => req[r] \in Post
         /\ pc[r] \notin {"run", "select", "commit"} => outcomes[r] = <<>>
         /\ pc[r] = "run" => Len(outcomes[r]) < Len(Required[req[r].step])
         /\ pc[r] \in {"select", "commit"} =>
              Len(outcomes[r]) = Len(Required[req[r].step])

(* The handlers keep the promise of StepLedger: whatever the interleaving, *)
(* the crashes and the rollbacks, the tables move as if submissions had    *)
(* been accepted one at a time.                                            *)
Ledger == INSTANCE StepLedger

LedgerSpec == Ledger!Spec

(* Of the submissions made from pages of one version at most one is saved. *)
OneWinnerPerVersion ==
    \A q, r \in Request :
        /\ q # r
        /\ reply[q].kind = "saved"
        /\ reply[r].kind = "saved"
        /\ reply[q].app = reply[r].app
        => reply[q].version # reply[r].version

(* "Modified by another request" is never said without cause: when the     *)
(* customer reads it, somebody else's submission has been committed.       *)
ConflictMeansProgress ==
    \A r \in Request :
        reply[r].kind = "conflict" => version[reply[r].app] > reply[r].version

Successful(page) == page.kind \in {"saved", "repeat"}

(* The decision page is shown when there is a decision, and shows it: the  *)
(* customer is neither told of a decision that is not in the tables nor    *)
(* sent on to another step of an application that is closed.               *)
DecisionPageIsFinal ==
    \A r \in Request : Successful(reply[r]) =>
        /\ (reply[r].next = 0) <=> IsClosed(reply[r].status)
        /\ reply[r].next = 0 =>
             decision[reply[r].app].outcome = reply[r].status

(* Whoever is sent on to the next step has all the steps before it saved,  *)
(* so the page he is sent to is not refused for being out of reach.        *)
RedirectIsReachable ==
    \A r \in Request : Successful(reply[r]) /\ reply[r].next # 0 =>
        \A t \in 1 .. (reply[r].next - 1) : Answered(reply[r].app, t)

(* README.md:68, "A stale or tampered value returns 409": no submission    *)
(* succeeds that was made from a page of an earlier version.               *)
StaleVersionIsRefused ==
    [][\A r \in Request :
          pc[r] # "reply" /\ Successful(reply'[r]) =>
              reply'[r].version = version[reply'[r].app]]_vars

(* Every submission the service takes is answered, unless the worker dies. *)
EveryPostIsAnswered ==
    \A r \in Request :
        (pc[r] \notin {"idle", "reply"}) ~> (pc[r] \in {"idle", "reply"})

=============================================================================
