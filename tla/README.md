# Onboarding flow: specification, model checking and proofs

This directory holds the formal side of the onboarding service: TLA+ modules
translated from the Python source, TLC configurations that check them on small
instances, and proofs that TLAPS checks for every instance. Paths in this
document are relative to the root of the repository.

```
tlc -workers 2 -config MCOnboarding_two_workers.cfg MCOnboarding
tlapm Onboarding_proofs.tla
```

## 1. The system

A customer opens an account by answering the steps of a *flow*. There are six
flows, one per market (Sweden, Spain, Poland) and account type (private,
business). Each step asks for some fields and names the external checks to run
on the answers. The service stores answers, check results, the status and the
decision in four SQLite tables.

| Component | Source | State | Operations |
|---|---|---|---|
| Onboarding service | `services/onboarding_service.py` | none of its own | `start_application`, `process_step_submission` |
| Repository, schema | `repositories/application_repo.py`, `db/` | `applications` (status, version, token), `step_responses`, `integration_logs`, `decisions`; the open transaction | `atomic`, `create_application`, `update_application_status` (guarded by version), `save_step_response`, `log_integration_check`, `save_decision`, reads |
| Web routes | `web/views.py` | the resume cookie, in the browser | `GET /`, `GET /resume`, `POST start`, `GET step`, `POST step` |
| Integration runner | `services/integration_runner.py` | the call in flight, its attempt and timer | `run`, nine handlers |
| Decision engine | `domain/decisioning.py` | thresholds | five `assess_` functions |
| Provider mocks | `integrations/` | none | one function each |
| Flows | `flows/`, `domain/flow.py`, `domain/flow_registry.py`, `domain/fields.py` | constant configuration | `get_flow`, `get_next_step_id` |
| Form validation | `web/forms.py` | none | `validate_step_payload` |
| Domain states | `domain/states.py`, `domain/entities.py` | none | `is_customer_submittable`, `transition_status` |
| Resume service | `services/resume_service.py` | none | `resume_by_token` |
| Audit log | `audit/log.py` | append-only log output | one line per check, one per status change |
| Redaction | `services/redaction.py` | none | masking of a provider's payload before it is stored |
| Session, pool, lock | `db/session.py`, `repositories/application_repo.py` (`atomic`), `web/dependencies.py` | a worker's connections, SQLite's write lock | checkout, begin, commit, close |
| Middleware | `web/middleware.py` | request id | one per request |

**How they interact.** A route validates the form, calls the service and turns
its result or exception into a page. The service reads the repository, awaits
the runner once per required check, and writes everything in one unit of work.
The runner awaits a provider under a timeout and retries. Components share the
tables and nothing else; each request has a database session of its own.

**What is hard.**

* A handler reads the status, the earlier responses and the saved response,
  then *awaits* the providers, then writes. All other handlers run meanwhile.
  With several worker processes they also run between any two statements.
  What protects the tables is the version guard of one `UPDATE` and two unique
  constraints.
* A provider can be late, fail, fail in its second check, or never answer.
* Database calls block: a handler that waits for a connection or for the write
  lock holds the event loop of its worker.
* The audit log cannot be rolled back, and a worker can die between a commit
  and its line.
* One cookie is shared by all tabs; a response that was computed before it
  changed may still delete it.
* A worker can die before or after the commit; the response can get lost, and
  the customer posts again - from the same page, from an old page in another
  tab, with the same or with other answers.
* The customer can go back and replace the answers of a step that was checked.
* The decision combines several verdicts of several steps; the thresholds are
  compared with floats.

**What makes each component correct.**

* Service and repository: the tables move as if submissions were accepted one
  at a time; an approval is earned by exactly the answers that are stored; the
  log, the status and the decision tell one story; closed is closed.
* Routes: every post is answered; a conflict is reported only with cause; a
  page that reports success is true and leads somewhere reachable.
* Runner: bounded wait, one call at a time, retries for timeouts only, no
  verdict without an answer.
* Flows, forms, engine, providers: whoever is approved satisfies the documented
  rules; no flow is a dead end.
* Cookie and resume: whatever a tab shows can be submitted, a redirect leads
  where it says, a conflict page is a way out, and no response takes away a
  token that is still good - except in one race, which is named.
* Audit log: every check on record has its line; a status line tells of a
  commit that happened.
* Redaction: exactly the values under sensitive keys are masked, and the keys
  cover the answers that are sensitive.
* Session, pool, lock: the holder of the write lock waits for nobody, and
  connections come back.

## 2. Modules

| Module | Models | Depends on |
|---|---|---|
| `Application` | statuses and verdicts | |
| `OnboardingData` | flow as numbered steps, rows of the tables, effect of a step's verdicts | `Application` |
| `StepLedger` | **the promise**: submissions accepted one at a time | `OnboardingData` |
| `Onboarding` | **the handlers**: requests in flight, workers, crashes, lost responses; implements `StepLedger` | `OnboardingData` |
| `Audit` | the audit lines of the handlers, beside the tables | `Onboarding` |
| `CheckLoop` | **the contract** between a handler and the checks it awaits | `Application` |
| `Session` | a browser's tabs and cookie, the pages and the five routes | `OnboardingData` |
| `SessionLedger` | the log rows and decisions behind those pages; implements `StepLedger` | `Session` |
| `IntegrationRunner` | the loop over the checks of one submission, against the clock; implements `CheckLoop` | `Application` |
| `Workers` | event loop, pool of connections and write lock under the handlers | |
| `Flows` | the six flows and the field catalogue | |
| `Forms` | `validate_step_payload` | `Flows` |
| `Screening` | handlers of the runner, provider mocks, decision engine | `Forms`, `Application` |
| `Redaction` | the payloads of the nine checks and their masking | `Flows` |
| `Journey` | one application through a configured flow: `Flows`, `Forms` and `Screening` on an instance of `StepLedger` | these |
| `AuditTrail` | what the log rows of a journey show of the answers | `Journey`, `Redaction` |
| `..._proofs` | theorems of `StepLedger`, `Onboarding`, `Audit`, `Session`, `IntegrationRunner`, `Workers`, `Journey`, `AuditTrail` | the module they are named for |
| `MC...` | constants for TLC | |

### StepLedger and OnboardingData

`status`, `version`, `responses`, `logs` and `decision` are the four tables, by
application. `Accept` is what `process_step_submission` does when it succeeds
and changes something: `OpenTo` is the state gate and
`_assert_step_is_reachable`, `responses[a][s] # p` the fingerprint comparison,
`FinalStatus` and `Reasons` lines 143-161 of the service. Verdicts are free:
whatever the providers say, the promise must hold.

A step's answers are one value. Two payloads have one fingerprint iff they are
equal (SHA-256 of canonical JSON is taken to be free of collisions). The raw
response in a log row is represented by the answers it is about.

### Onboarding

Each element of `Request` is a slot for a POST in flight. `pc` is where its
handler stands:

| `pc` | The handler is about to | Source |
|---|---|---|
| `status` | read the status again | `onboarding_service.py:111` |
| `step` | check reachability and the saved response | `:127-135` |
| `run` | resume from a provider | `:140` |
| `select` | look for the response row | `application_repo.py:112` |
| `commit` | insert or update, and commit | `:119-135`, `onboarding_service.py:165-175` |
| `reply` | send its response | `views.py:299-312` |

`MayRun` says who can be interleaved with whom: handlers of one worker only
where they await a provider; handlers of different workers anywhere. SQLite
takes the write lock at the first write and readers see committed rows, so from
the first flush to the commit is one step. `Submit` posts any answers for any
step with any version the application has had: pages stay open in tabs for as
long as the customer likes. `DatabaseFails`, `CheckFails`, `Crash` and
`Deliver` (the response may or may not arrive) are the environment.

### Audit

`Audit` extends `Onboarding`: each of its actions is an action of `Onboarding`
with the lines it writes, so the tables behave as before. `checkLines` get their
lines within the unit of work, after the insert and before the guarded
`UPDATE`; a rollback takes back the rows and not the lines. `status_change` is
written after the commit and therefore is a step of its own, `Announce`, whose
line is `owed` until then and lost with the worker. `LineIsNext` says that on
one event loop nothing runs in between.

### Session

The other side of the same routes. `page` is the form that a tab shows, with
the version and, on a review page, the summary it was rendered with; `request`
is what the tab has sent, with the cookie as it was when it was sent; `reply` is
what the service has answered, with what it does to the cookie. Requests are
clicks on start and resume, the address of any step, or the submission of the
form shown, however old. A handler is one step, except where it awaits the
providers (`phase = "checking"`), because the service runs on one event loop;
what no page sees - log rows, decisions, request ids - is left to `Onboarding`
and `SessionLedger`.
`ServeStep` renders by `_assert_step_can_be_rendered`, `PostObjected` refuses by
`_assert_step_is_reachable`, `ServeResume` picks the step by
`ResumeService`: the three are different code and must agree. `Expire`,
`LoseCookie`, `Lost` and `ServeError` are the environment.

### SessionLedger

`Session` and `Onboarding` model one route twice, each with what the other
leaves out: pages, tabs and cookies here, statements, several workers and
rollbacks there. `SessionLedger` adds to `Session` the two tables it does not
show, as variables that only look on (`RecordedSpec => Spec` is a theorem), and
measures it against the same `StepLedger`: both are shown to keep one promise.
A browser sends no `X-Request-ID`, so the middleware makes a new one for each
submission; the posted version stands for it, as no two submissions of an
application are saved from one version.

### Workers

What `Onboarding` takes for granted: that a handler gets the loop, a connection
and the lock. A request takes its connection with its first `SELECT`, keeps it
while it awaits its checks, and returns it with the end of the unit of work or
when the session is closed, in a thread. `IMMEDIATE` begins a transaction only
before the first write. A wait for a connection or for the lock holds the loop
(`Proceed` instead of `Yield`), and only a timeout ends it (`NoConnection`,
`LockGivesUp`).

### IntegrationRunner

Time is in ticks, and the provider does what it likes. A handler that holds the
event loop makes timers late, by at most `Lateness`. `calls` is the history of
provider calls with what became of each. A `TimeoutError` that the provider
raises itself is retried like an expired call, as in the code.

### CheckLoop

`Onboarding` lets a check end in a verdict (`CheckReturns`) or a failure
(`CheckFails`) and knows nothing of attempts and timers; `IntegrationRunner` has
the attempts and timers and knows nothing of tables. `CheckLoop` is what one may
rely on and the other must keep: as many verdicts as the step requires, in
order, or no verdict at all. The instance `Seen` of `IntegrationRunner` forgets
the clock, the instance `Loop(r, s)` of `Onboarding_proofs` forgets everything
but one handler, and both are shown to be behaviours of `CheckLoop`.

### Flows, Forms, Screening, Journey

Texts are classes: malformed, plain, or one of the endings and beginnings the
mocks react to; `ValidText` knows that a Spanish identity number ends in a
letter and a Spanish company number begins with one, so some classes do not
exist there. Numbers are integers; `NotANumber` and `Garbage` are constants
outside the integers for *nan*, which `float()` accepts, and for texts it
refuses. Comparisons with nan are false, as for floats. The debt ratio is in
units of 1/10000, which is what `round(ratio, 4)` leaves; where the exact ratio
is half way between two of them, the float that stands for it is a little above
or below and decides, and the constant `FloatIsBelow` says for which pairs of
income and debts it is below. (Otherwise amounts are taken to be small enough
for the quotient of two of them to be on the same side of a threshold as a
float.) `CleanPayloads` are all the answers that validation can return for a
step; it is built from the answers to each field. Conversions are modelled: `Upper` on the way in,
`Lower` in the engine, `on` to `True`. `Journey!Submit` takes the verdicts from
`Outcome` and otherwise is `StepLedger!Accept` of the flow.

### Redaction

A JSON value is a pair of its kind and its content: a dict or a list with its
members, a leaf, or text that is no JSON. A leaf is either the customer's answer
to a field or a fact that does not give one away. `Redact` is the body of
`_deep_redact`, given what the calls below it return, and `_deep_redact` closes
the recursion over the constant set `Json`, of which `JsonAssumption` says that
it contains the payloads and that its members are finite: `Height` decreases
from a value to what it holds.

What masking should do is said another way. `Nodes(json)[n]` are the values
within `json` that lie `n` keys or positions deep, with their paths; `MaskedAt`
keeps those whose path has no sensitive key, puts one mask where the first such
key is, and drops what is below it. `RedactionIsExact` compares the two, level
by level. A provider may wrap a payload as it likes (`Reply`): the payload is
somewhere in it, and every answer in it is where the payload has it, or goes by
the name of its field (`Carries`). An answer under a new name would be shown, in
the model as in the code, so this is assumed of the providers. `AuditTrail` puts
the masked payloads beside the rows that `Journey` writes and asks which answers
they show. For TLC, `MCJourney` takes for `Json` the payloads in every envelope
up to `MaxDepth`.

## 3. Runs

| Run | Question | Bounds |
|---|---|---|
| `ledger` | Does the promise imply the properties a reader expects of it? | one application, four steps with 1, 2, 1 and 0 checks, two answers, two request ids |
| `two_workers` | Do the handlers keep it when every statement can interleave? | two steps, the first with two checks; two requests, a worker each, two answers, two request ids |
| `one_worker` | On the deployed event loop, is every post answered, and truthfully, and is the audit log true to the tables? | three steps with 1, 1 and 0 checks, two requests, one worker, one answer, one request id |
| `pages` | Can a browser get stuck or misled, and do its tabs keep the ledger? | one application, a checked step and a review, two tabs, two answers, versions up to 4 |
| `race` | When does a browser lose the token of an open application? | two applications, a checked step and a review, two tabs, one answer, versions up to 2 |
| `persevere` | Does a customer who goes on get a decision? | as `pages`, one answer, versions up to 5 |
| `workers` | Do the waits for loop, connection and lock end? | two workers with two requests and one connection each |
| `runner` | Does a submission end in time, and only on answers? | two checks, two attempts, timeout 2, delay 1, lateness 1 |
| `markets` | Is what the six flows approve eligible, can each be approved, and what does the log show? | one application, all classes of answers, amounts {nan, 0, 60005, 60006, 100000}, one step answered twice (versions up to 7), JSON in envelopes up to two deep, a list or one of three keys each (`MCJson`) |
| `stale_version` | violated: an outdated page can succeed | as `two_workers`, one worker |
| `leverage` | violated: a flagged customer is approved | as `markets`, without nan among the amounts |
| `numbers` | violated: nan is stored as a number | amounts {nan, 0, 100000} |

**Why the bounds are enough to be interesting.** Applications share no row, so
one suffices for what is said of them one by one. They share the cookie, and
`race` is about that: with two applications the cookie can move from one to the
other while a request with the old token is under way. Two versions let a step
be saved, and a rejection or referral of the first step closes an application,
which is all that the race needs; the decision page that follows a review is in
`pages`, and any flow in the theorem. The conflicts are between two requests
(one version, one row to insert, one request id, one cookie); a third would
conflict with one of the two in the same ways. Three steps are the fewest with a
step before and a step after the one that is being edited. Two answers are
needed to replace one by the other; one is enough to ask whether a customer gets
on. So `one_worker` has no edits and no reused request id: under fairness TLC
takes no symmetry, and the size goes to the third step and the audit lines.
Edits and request ids are in `ledger`, `two_workers` and `pages`, and the
theorems about the lines are for any answers and ids. The request ids bound the
number of accepted submissions, as each accepted one uses up its pair of check
and id; `Session` has no request ids and bounds the version instead: nothing is
submitted from `MaxVersion` on, and four versions are enough to answer the first
step, answer it anew, change it back, and confirm. In `persevere` the bound does
not hide a circle: every submission that is saved with one answer either leads
on or closes the application, and the shortcut for repeated answers uses up no
version. In `workers` a pool of one is exhausted by one request that awaits its
checks, and the lock is contended by the two workers. One amount on either side
of each threshold and the pair 60005 and 60006 - the first is half way, and the
float of 0.60005 is below it; the second rounds up - decide every rule. Larger
numbers of all of these are covered by the proofs.

**Deadlock** is checked in `workers`, where everybody waits for somebody. In the
other runs it is not: an application that is closed, a tab that is browsing or
a request slot that is idle may stay so.

**Fairness.**

* `Audit!FairAuditSpec` is strong fairness of each handler (`GoesOn`): the event loop
  takes its ready queue in order, so a handler that can run again and again
  does run, though others run in between. It includes the return of a provider
  call, which `IntegrationRunner!ChecksEnd` justifies, and the audit line after
  a commit, which the handler writes before it answers. An end by a failing
  database counts as going on.
* `IntegrationRunner`: weak fairness of the loop and of time alone, without any
  assumption about providers.
* `Workers!Fairness`: strong fairness of what the loop takes up (the ready
  queue is first in first out), weak fairness of a handler that runs, of the
  threads and of the timeouts; that checks end is `ChecksEnd` again.
* `Session!Perseverance` is about the customer, not the program: from some time
  on he makes no mistake, takes no detour and meets no failure, and each of his
  tabs goes on. Until then anything may have happened.

Nothing else is assumed of browsers, crashes, or the delivery of responses.

### Properties worth knowing

* `LedgerSpec` - refinement: the handlers implement the serial ledger.
* `SessionKeepsLedger` - refinement: so do the tabs of a browser, with forms of
  any age, lost replies and repeated posts.
* `OneWinnerPerVersion`, `ConflictMeansProgress` - of the posts made from one
  version at most one is saved, and the others are told so only after somebody
  else made progress.
* `DecisionPageIsFinal`, `RedirectIsReachable` - what the page says is in the
  tables. The first holds on one worker only: with two, the shortcut for an
  unchanged payload answers with a status read earlier.
* `RowsAreAnnounced`, `StatusLinesAreTrue`, `DecisionIsLastWord` - of the audit
  log. The last holds on one event loop only: with several workers the lines of
  two submissions may change places. A check line may tell of a row that was
  rolled back; the converse is what is promised.
* `ShownFormIsReachable`, `RedirectIsNeverAhead` - the three places that know
  the order of the steps agree, at any later time.
* `ConflictPageHelps` - a conflict page is newer than the one that conflicted,
  unless somebody moved on during the submission itself.
* `SavedAsReviewed` - what is confirmed on a review page is what is stored.
* `SessionLostOnlyToRace` - a response deletes the token of an open application
  only if the browser got the token after it had sent the request: a decision
  or a failed resume in one tab can cut off an application started meanwhile in
  another. This is the exact extent of the hazard of `views.py:106,308`, and
  `race` has the applications for it to happen.
* `PersevereToDecision` - no conflict, refusal or redirect goes round in circles.
* `ApprovalIsEarned`, `VerdictsDecide`, `DecisionMatchesRecord`,
  `OpenHasStepLeft`, `ClosedNeverChanges` - of the ledger, hence of the tables.
* `WithinDeadline`, `OneCallAtATime`, `OnlyTimeoutsAreRetried`,
  `JudgedOnAnswersOnly`, `GivenUpForCause` - of the runner.
* `KeepsCheckLoop` - refinement: whatever the clock and the providers do, the
  waiting handler sees one verdict for each check, or a failure and no verdict.
* `NoDeadEnd`, `ConfirmedWhenApproved`, `RulesHoldWhenApproved` - of the
  configured flows. The last is read off the stored answers and the rules of
  `README.md:73-80`, not off the checks. A rule about numbers speaks of the
  numbers: what it compares with nan it leaves open, as the code does.
* `RedactionIsExact`, `NoSensitiveAnswerInClear` - the masking does what paths
  say it should; and no row that `Journey` writes shows a sensitive answer,
  which joins the keys that the handlers choose to those the catalogue knows.
* `WriterIsRunning`, `ConnectionsComeBack`, `EveryRequestEnds` - of loop, pool
  and lock. The first is `ARCHITECTURE.md:104` made precise.

### Disagreements found

1. `README.md:68` and `ARCHITECTURE.md:103` say that a stale version returns
   409. The unchanged-payload shortcut (`onboarding_service.py:133`) returns
   success before the version is compared. Nothing is written, so the tables
   are safe; the sentence is wrong.
2. The bureau flags `HIGH_LEVERAGE_RISK` on the exact ratio and the engine
   compares the rounded one: 60005 owed on an income of 100000 is flagged and
   approved (`credit.py:15,23`, `decisioning.py:51`). `LeverageGap` (section 4)
   gives the exact extent.
3. `_validate_number` takes *nan* in every number field, as it is below no bound
   and above none (`forms.py:97-108`), and the engine's comparisons are false of
   it, too (`decisioning.py:49-72`): a nan share of the largest owner, income,
   expenses, turnover or volume is approved. Only the count of owners is refused
   later, by `int()`, with a 500. `RulesHold` (section 4) says how far this goes.

Also noticed, and not stated as properties:

* The business flows require the sanctions check but ask for none of its
  inputs, so it always passes.
* `README.md:78-79` describes a rejection for a missing owner and a referral for
  missing signatory authority, which the validation makes unreachable through
  the web.
* A representative's identity number is looked up in Spain alone
  (`spain_business.py`), where the pattern admits no number that the mock would
  reject or refer; `README.md:73` does not say so.
* A review step that is refused (400, 409, 503) is shown again by `step.html`
  without its summary and with a fresh version (`views.py:174` against
  `views.py:267-293`), so `SavedAsReviewed` protects only the pages that show
  one.
* `README.md:112-118` speaks of another device and of cleared cookies; the token
  lives in the cookie alone, so `/resume` then finds nothing (`views.py:92-95`).

## 4. Proofs

`StepLedger_proofs` proves, for any number of applications, any flow and any
sets of answers, checks and request ids, from `FlowAssumption` (a flow has a
step, and no check twice in one step) and `SentinelAssumption` (no response is
not a response):

| Theorem | Statement |
|---|---|
| `TypeCorrect` | `Spec => []TypeOK` |
| `ResponsesInOrder` | `Spec => []ResponsesArePrefix` |
| `OpenHasAStepLeft` | `Spec => []OpenHasStepLeft` |
| `EarnedApproval` | `Spec => []ApprovalIsEarned` |
| `StatusFollowsVerdicts` | `Spec => []VerdictsDecide` |
| `DecisionIsOnRecord` | `Spec => []DecisionMatchesRecord` |
| `ClosedStaysClosed` | `Spec => ClosedNeverChanges` |

None of these is inductive alone. The invariant `Inv` adds what the induction
needs: an absent application has nothing in any table (`AbsentIsEmpty`), and
**every answered step of an application that has no adverse verdict has been
cleared for the answers it holds now** (`ClearedSoFar`). That is the heart of
`EarnedApproval`: the code never looks at old log rows when it approves; it is
right because a step's answers and the rows about them change in one unit of
work, and because the first adverse verdict closes the application for good.

`Onboarding_proofs` proves, for any number of requests and workers and any
assignment of one to the other:

| Theorem | Statement |
|---|---|
| `TypeCorrect` | `Spec => []TypeOK` |
| `Implements` | `Spec => LedgerSpec` |
| `OneWinner` | `Spec => []OneWinnerPerVersion` |
| `ConflictIsReal` | `Spec => []ConflictMeansProgress` |
| `RedirectsAreReachable` | `Spec => []RedirectIsReachable` |
| `DecisionPages` | `OneLoop` implies `Spec => []DecisionPageIsFinal` |
| `EarnedApproval` | `Spec => []Ledger!ApprovalIsEarned` |
| `StatusFollowsVerdicts` | `Spec => []Ledger!VerdictsDecide` |
| `DecisionIsOnRecord` | `Spec => []Ledger!DecisionMatchesRecord` |
| `ResponsesInOrder` | `Spec => []Ledger!ResponsesArePrefix` |
| `OpenHasAStepLeft` | `Spec => []Ledger!OpenHasStepLeft` |
| `ClosedStaysClosed` | `Spec => Ledger!ClosedNeverChanges` |
| `HandlersFollowLoop` | every step of a handler that awaits its checks is one of `CheckLoop` |

The six before the last follow from `Implements` and the theorems of the ledger: what it
promises of submissions one at a time holds of the concurrent handlers.

The refinement is proved from `ReadsAreCurrent`: a handler that has passed the
guards, and whose posted version is *still* current, finds everything it read
before its awaits unchanged - the application is open, the earlier steps are
answered, the saved response differs from its answers. It holds because every
change of an application increments its version and versions never return. So
when the guarded `UPDATE` matches, the reads were as good as made at that
moment, and the commit is one `Accept` of the ledger; every other step of a
handler leaves the tables alone.

What the customers are told rests on a second invariant above the first.
`AnsweredFromThePast`: a page that says *saved* or *conflict* names a version
that has been overtaken - the save overtakes its own, and as versions only grow
no later commit can match it. `RowSeenIsCurrent`: while the posted version is
current, the row `save_step_response` looked for is there if and only if it
found it; so an insert that collides proves that the version moved, and the
409 is as true of a collision as of a missed `UPDATE`. `SentOnReachably` adds
that a saved response is never taken away, which comes from the refinement.

`DecisionPages` proves `DecisionPageIsFinal` from `OneLoop`, that one event loop
serves every request - the property is false without it. `MayRun` then gives
that at most one handler is between two awaits (`OneRuns`), so nothing is
written between the status that a handler reads and the shortcut that answers
with it (`StepIsOpen`); and as an answered last step belongs to a closed
application (`FinishedIsClosed`), the page the shortcut builds is true, and
stays true because closed is closed (`PageIsTrue`).

`Audit_proofs` proves, for any number of requests and workers:

| Theorem | Statement |
|---|---|
| `RowsAnnounced` | `AuditSpec => []RowsAreAnnounced` |
| `StatusLinesTrue` | `AuditSpec => []StatusLinesAreTrue` |
| `LastWord` | `OneLoop` implies `AuditSpec => []DecisionIsLastWord` |
| `OnlyWatches`, `AuditedImplements` | `AuditSpec => Spec`, hence `AuditSpec => LedgerSpec` |

Every step of `Audit` is a step of `Onboarding` or leaves its state alone, so the
invariant of `Onboarding_proofs` is at hand. What is added: a line is owed only
by a handler that has committed (`OwedAfterCommit`); lines written and lines
owed together are fewer than the versions (`Counted`, by the cardinality of the
handlers that owe one); and both tell of no other decision than the stored one
(`ToldTruly`), because a decided application is closed. `LastWord` needs the
event loop: whoever owes a line is the only one, and writes it next.

`Session_proofs` proves, for any number of tabs and applications and every flow:

| Theorem | Statement |
|---|---|
| `TypeCorrect` | `Spec => []TypeOK` |
| `ShownFormsAreReachable` | `Spec => []ShownFormIsReachable` |
| `RedirectsAreNeverAhead` | `Spec => []RedirectIsNeverAhead` |
| `ConflictPagesHelp` | `Spec => []ConflictPageHelps` |
| `ReviewsAreTrue` | `Spec => SavedAsReviewed` |
| `OnlyTheRaceLosesASession` | `Spec => SessionLostOnlyToRace` |
| `OnlyRecords` | `RecordedSpec => Spec` |
| `SessionImplements` | `RecordedSpec => SessionKeepsLedger` |

A page is a copy of the application at its version. `FormKnown` says what
remains of it: its step can be answered for ever, as answers are never taken
back; and as long as its version is the current one its summary is, too, as
whatever changes an application moves its version. `ReviewsAreTrue` follows at
the commit, where the versions are equal. For the token, `TokenInv` says what is
known of a reply that deletes the cookie: the application whose token came with
the request was closed or expired when the reply was made, and that lasts
(`Lasting`).

`SessionImplements` is the refinement of the ledger from the browser's side. A
handler looks when the post comes in and saves after its checks. `StillDiffers`
says that what it saw still holds while the posted version is the current one,
`TokenInv` the same of the status, and the reachability of a step lasts; so the
save is one `Accept`. `SentInTime` keeps the version within the bound of the
model, and `RowsAreOld` - a row on record is of an earlier version than the
current one - gives that the new rows are fresh. `TypeOK` of `Session` is a
conjunct of the invariant; it is proved and not run.

`IntegrationRunner_proofs` proves, for any number of checks and attempts and any
timeout, delay and lateness:

| Theorem | Statement |
|---|---|
| `TypeCorrect` | `Spec => []TypeOK` |
| `KeepsContract` | `Spec => KeepsCheckLoop` |
| `NoTwoCalls` | `Spec => []OneCallAtATime` |
| `RetriesAreTimeouts` | `Spec => []OnlyTimeoutsAreRetried` |
| `AnswersOnly` | `Spec => []JudgedOnAnswersOnly` |
| `CauseToGiveUp` | `Spec => []GivenUpForCause` |
| `DeadlineHolds` | `Spec => []WithinDeadline` |

The history of calls is tied to the locals: those of the current check are the
last ones, `Made` of them, and all but perhaps the very last have timed out
(`RetryOK`); each check before was answered once (`AnsweredOnce`). For the
deadline every timer is set to fire within the part of the budget that the
checks done, the delay and the attempts made leave; the arithmetic is a few
lemmas on products. `TypeOK` is proved and not run: it is a conjunct of the
invariant behind every other theorem of this table. `KeepsContract` is one half
of a pair; the other is `HandlersFollowLoop` of `Onboarding_proofs`: a handler
enters the loop of its step at the beginning, and what it does from there on is
a step of `CheckLoop`, whoever else is at work. Together they justify that
`Onboarding` replaces the runner by two actions.

`Workers_proofs` proves, for any number of workers, requests and connections:

| Theorem | Statement |
|---|---|
| `TypeCorrect` | `Spec => []TypeOK` |
| `WritersRun` | `Spec => []WriterIsRunning` |
| `ConnectionsReturn` | `Spec => []ConnectionsComeBack` |
| `CommitsRunAlone` | `Spec => [](OneRunsPerWorker /\ OneCommits)` |

with the holder of the lock between its first write and its commit (`LockOK`),
connections held in the stages that need one (`ConnectionOK`), and the pool
counted by cardinality (`PoolOK`). `CommitsRunAlone` is what `Onboarding` builds
into its grain: `MayRun` (handlers of one worker are interleaved only where they
await) and one step from the first flush to the commit. Here the event loop and
the lock are modelled, and both follow: a handler runs only while it has the
loop, and whoever is between flush and commit has the lock (`CommitHoldsLock`).

`Journey_proofs` is about one configuration, the six flows as they are, but any
number of applications and submissions and any set
of amounts:

| Theorem | Statement |
|---|---|
| `FlowsAreScreened` | each flow has five steps, and each of these is `WellFormed` |
| `Confirmed` | `Spec => []ConfirmedWhenApproved` |
| `RulesHold` | `Spec => []RulesHoldWhenApproved` |
| `NoDeadEnds` | `0 \in Amount` and some positive amount imply `Spec => []NoDeadEnd` |
| `KeepsLedger` | `Spec` with flow `k` implies `Ledger(k)!Spec` |
| `LeverageGap` | who has a surplus is flagged and not referred iff his debts are above 0.6 and `Below60005` |

The rules are read off the stored answers, so the proof has to carry them from
the form to the decision, in three parts. *Configuration:* `WellFormed` says
that a step which asks for what a rule is about also runs the check for it and
asks for everything that check reads, and runs no check twice; this is looked
up, flow by flow. *Answers:* `PayloadIsClean` and `CleanIsPayload` characterise
what validation returns, field by field, and the `...Rule` lemmas say of each
check what its approval tells about the answers. *Journey:* the rules alone are
not inductive, since a status does not say what was checked. The invariant
`Inv` says that each stored answer is one that validation let through
(`AnswersFit`), that unless the application was stopped it passed the checks of
its step (`PassedSoFar`), and that an approved application has all of its
answers (`ApprovedIsComplete`). Replacing an answer checks the new one, and an
adverse verdict closes the application: hence each part is kept.

`RulesHold` is about any set of amounts, with *nan* or without, and has the gaps
of the code written into the rules. A nan silences the comparison it is part of
and no other (disagreement 3): an income of nothing with expenses of nan is
approved whatever is owed, because the ratio of debts to no income is 0, while a
nan share leaves the count of the owners and the turnover judged. And the ratio
is rounded (disagreement 2), which `Affordable` allows for and whose exact extent
is `LeverageGap`. The amounts are finite (section 5).

The hypotheses are the ones without which the statements are false. If nobody
could name a positive amount, no one would have an income, and if nobody could
answer nothing, no one would be without expenses and debts.
`KeepsLedger` connects the two halves of the project: with `FlowsAreScreened`,
which includes the assumptions of the ledger about its flow, a journey is one
of the behaviours that `StepLedger_proofs` is about.

`AuditTrail_proofs` is about any set of JSON values that satisfies
`JsonAssumption`, nested as deep as they like, and any journeys:

| Theorem | Statement |
|---|---|
| `MaskingIsExact` | for all `json` and `n`, `SeenAt(_deep_redact[json], n) = MaskedAt(json, n)` |
| `RowsAreMaskedExactly` | `Spec => []RedactionIsExact` |
| `NothingSensitiveInClear` | `Spec => []NoSensitiveAnswerInClear` |

Masking and levels are recursive functions, so the argument is by induction,
which here has to do without a predicate as a parameter: what is to be shown for
all numbers is put as a subset of `Nat`, and if it were not all of it, the rest
would have a least element (`LeastNumber`, from the well-foundedness of `<`;
`ByNumber`, and `ByHeight` for JSON). First, the recursions define functions at
all (`RedactionIsDefined`, `NodesAreLevels`): partial solutions exist up to every
height and agree where they overlap. Then `RedactedNodes`: each level of the
masked value is the image of the same level of the value, where a clear path
keeps its node, a path cut at its end becomes the mask, and everything below a
mask is gone. That is `MaskingIsExact`, of which `RowsAreMaskedExactly` is the
case of the rows. For `NothingSensitiveInClear`, an answer that is still seen has
a clear path; by `Carries` it is where the payload has it, and the nine payloads
have no sensitive answer on a clear path (`PayloadIsPlain`, `FieldsInClear`).

**Only model-checked.** Liveness under fairness, which is out of the prover's
reach: `EveryPostIsAnswered`, `ChecksEnd`, `PersevereToDecision`,
`EveryRequestEnds`. Every other property of a passing run is stated by a theorem.

## 5. Not modelled

* Layout and wording of the templates, labels and titles; the access log; the
  formatter of the audit log, which keeps the fields it is given.
* Wiring, settings and process start. Settings that matter are constants.
* The regular expressions character by character.
* Infinite amounts, which `float()` takes, too (*inf*, *1e400*), and the
  validation lets through, except as a share. What is added by them comes out as
  nan: infinite income less infinite expenses, or infinite debts over infinite
  income, pass the comparisons in the way of disagreement 3. An infinite count of
  owners raises `OverflowError` in the runner, which ends in a 503.
* What `asyncio.wait_for` does with a provider that holds on to a cancellation:
  it waits until the cancelled call has ended, whereas the model ends an expired
  call at once. None of the mocks holds on.
* Collisions of uuids and of SHA-256.
* Hand-made posts: versions the application never had (they conflict, as
  outdated ones do), an address of another market or of no step (refused as a
  wrong token is).
* What SQLite keeps of its commits: with WAL, on the connection that `main.py`
  sets to `synchronous=NORMAL`, a loss of power can take back the last ones. A
  crash of the process, which is modelled, loses none.

## 6. Plan

Done: the ledger, the concurrent handlers and their refinement, the runner
against the clock, the configured flows, the browser's session, the audit log,
the redaction, the workers' resources, and the proofs of section 4.

What could follow, in this order:

1. The pages of `Session` on several event loops, where a handler may be
   interrupted between its statements, as in `Onboarding`.
