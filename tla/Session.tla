------------------------------ MODULE Session ------------------------------
(***************************************************************************)
(* A browser at the onboarding service: the pages its tabs show, the one   *)
(* cookie they share, and the five routes that serve them (web/views.py,   *)
(* services/resume_service.py).                                            *)
(*                                                                         *)
(* The service runs on one event loop, so a handler is one step, except    *)
(* where POST step awaits the providers (from PostAdmitted to PostSaved or *)
(* PostNotSaved).  What is not seen by any page - log rows, decisions,     *)
(* request ids - is left to Onboarding; a submission is made from the form *)
(* a tab shows.                                                            *)
(***************************************************************************)
EXTENDS OnboardingData

CONSTANTS
    Tab,            \* tabs of the browser; a double click is a second tab
    Review,         \* steps with is_review_step
    NoApp,          \* no cookie, or a reply about no application
    NoForm,         \* the tab shows a page without a form
    MaxVersion      \* bound: no submission of an application this far on

ASSUME SessionAssumption ==
    /\ Review \subseteq Steps \ {1}
    /\ NoApp \notin App
    /\ MaxVersion \in Nat

VARIABLES
    status, version, responses,     \* the tables, as in Onboarding
    expired,        \* resume_token_expires_at of the application has passed
    cookie,         \* the application whose token the cookie holds, or NoApp
    page,           \* the form a tab shows, or NoForm
    phase,          \* where the tab's request is
    request,        \* the request in flight
    seen,           \* submit_step_view's db_version
    reply           \* the response on its way to the tab

tables == <<status, version, responses>>
exchange == <<phase, request, seen, reply>>
vars == <<tables, expired, cookie, page, exchange>>

Phase == {"browsing", "sent", "checking", "replied"}

(* step.html and review.html.  version is a hidden field.  summary is what *)
(* review.html lists: the answers of the earlier steps.                    *)
Summary == Seq(Answers \cup {NoAnswers})
Form == [app : App, step : Steps, version : Nat \ {0}, summary : Summary]
NoSummary == <<>>

(* follow is the GET that a redirect makes the browser send.               *)
RequestKind == {"none", "start", "resume", "visit", "follow", "post"}

(* cookie is the Cookie header, set when the request is sent.              *)
BrowserRequest ==
    [kind : RequestKind, app : App \cup {NoApp}, step : Steps, version : Nat,
     answers : Answers \cup {NoAnswers}, cookie : App \cup {NoApp}]

Click(kind, a, s, c) ==
    [kind |-> kind, app |-> a, step |-> s, version |-> 0,
     answers |-> NoAnswers, cookie |-> c]
NoRequest == Click("none", NoApp, 1, NoApp)

(* set_cookie and delete_cookie of a response.                             *)
CookieEffect == {"keep", "delete", "set"}

(* form: a page with form; to: the redirect to a step; page: any other     *)
(* page.  why says which.                                                  *)
BrowserReply ==
    [kind : {"none", "form", "to", "page"},
     why : {"none", "asked", "saved", "repeat", "invalid", "blocked", "conflict",
            "unavailable", "decision", "started", "resumed", "unsupported",
            "not_found", "closed", "forbidden", "ahead", "error"},
     form : Form \cup {NoForm}, app : App \cup {NoApp}, step : Steps,
     effect : CookieEffect]

PageReply(why, effect) ==
    [kind |-> "page", why |-> why, form |-> NoForm, app |-> NoApp, step |-> 1,
     effect |-> effect]
NoReply == [PageReply("none", "keep") EXCEPT !.kind = "none"]
Redirect(why, a, s, effect) ==
    [PageReply(why, effect) EXCEPT !.kind = "to", !.app = a, !.step = s]
FormReply(why, f) == [PageReply(why, "keep") EXCEPT !.kind = "form", !.form = f]

-----------------------------------------------------------------------------
(* Guards and helpers of the routes.                                       *)

Started(a) == status[a] # "ABSENT"
Answered(a, s) == responses[a][s] # NoAnswers
Unanswered(a) == {s \in Steps : ~Answered(a, s)}

\* Mutant: the step after the first unanswered one.
ResumeStepPastIt(a) ==
    IF \E s \in Unanswered(a) : s + 1 \in Steps
    THEN CHOOSE s \in Steps : s - 1 \in Unanswered(a)
                              /\ \A u \in Unanswered(a) : s - 1 <= u
    ELSE NumSteps

(* ResumeService: the first step without a response, or the last step.     *)
ResumeStep(a) ==
    IF Unanswered(a) = {} THEN NumSteps
    ELSE CHOOSE s \in Unanswered(a) : \A u \in Unanswered(a) : s <= u

\* Mutant: the step after the first unanswered one is rendered too.
RenderableOneAhead(a, s) == \A t \in 1 .. (s - 2) : Answered(a, t)

(* _assert_step_can_be_rendered: not past the first unanswered step.       *)
Renderable(a, s) == \A u \in Unanswered(a) : s <= u

(* _assert_step_is_reachable.                                              *)
Reachable(a, s) == \A t \in 1 .. (s - 1) : Answered(a, t)

(* _get_application_or_abort, after the application was found open: the    *)
(* token of the cookie is the application's and has not expired.           *)
HoldsToken(q) == q.cookie = q.app /\ ~expired[q.app]

(* ResumeService.resume_by_token finds the application and takes it.       *)
Resumable(a) == ~expired[a] /\ IsCustomerSubmittable(status[a])

(* render_step_view's summary.                                             *)
Summarize(a, s) ==
    IF s \in Review THEN [t \in 1 .. (s - 1) |-> responses[a][t]] ELSE NoSummary

\* Mutant: the page is rendered with the version that was posted.
FormAgainPosted(q, v) ==
    [app |-> q.app, step |-> q.step, version |-> q.version, summary |-> NoSummary]

(* step_ctx: step.html with the version read when the request came in.     *)
FormAgain(q, v) ==
    [app |-> q.app, step |-> q.step, version |-> v, summary |-> NoSummary]

\* Mutant: the update matches on the id alone.
VersionIgnored(q) == TRUE

(* UPDATE applications ... WHERE version = :current_version matches.       *)
VersionIsCurrent(q) == version[q.app] = q.version

(* The end of submit_step_view: on to the next step, or the decision page, *)
(* which takes the cookie away.                                            *)
Onward(why, a, next) ==
    IF next = 0 THEN PageReply("decision", "delete")
    ELSE Redirect(why, a, next, "keep")

-----------------------------------------------------------------------------

Init ==
    /\ status = [a \in App |-> "ABSENT"]
    /\ version = [a \in App |-> 0]
    /\ responses = [a \in App |-> [s \in Steps |-> NoAnswers]]
    /\ expired = [a \in App |-> FALSE]
    /\ cookie = NoApp
    /\ page = [t \in Tab |-> NoForm]
    /\ phase = [t \in Tab |-> "browsing"]
    /\ request = [t \in Tab |-> NoRequest]
    /\ seen = [t \in Tab |-> 0]
    /\ reply = [t \in Tab |-> NoReply]

(***************************************************************************)
(* The customer.                                                           *)
(***************************************************************************)

Send(t, q) ==
    /\ phase[t] = "browsing"
    /\ phase' = [phase EXCEPT ![t] = "sent"]
    /\ request' = [request EXCEPT ![t] = q]
    /\ UNCHANGED <<tables, expired, cookie, page, seen, reply>>

ClickStart(t) == Send(t, Click("start", NoApp, 1, cookie))

ClickResume(t) == Send(t, Click("resume", NoApp, 1, cookie))

(* The address of a step, from the history, a bookmark, or typed.          *)
Visit(t, a, s) == Started(a) /\ Send(t, Click("visit", a, s, cookie))

Submit(t, answers) ==
    LET f == page[t] IN
    /\ f # NoForm
    /\ version[f.app] < MaxVersion
    /\ Send(t, [Click("post", f.app, f.step, cookie) EXCEPT
                  !.version = f.version, !.answers = answers])

(* Cookies are cleared, or the cookie's max-age passes.                    *)
LoseCookie ==
    /\ cookie # NoApp
    /\ cookie' = NoApp
    /\ UNCHANGED <<tables, expired, page, exchange>>

Expire(a) ==
    /\ Started(a)
    /\ ~expired[a]
    /\ expired' = [expired EXCEPT ![a] = TRUE]
    /\ UNCHANGED <<tables, cookie, page, exchange>>

(***************************************************************************)
(* The service.                                                            *)
(***************************************************************************)

(* One event loop: a handler with no check to await runs through.          *)
MayRun(t) ==
    \A u \in Tab \ {t} :
        phase[u] = "checking" => Required[request[u].step] # <<>>

Arrived(t, kinds) ==
    phase[t] = "sent" /\ request[t].kind \in kinds /\ MayRun(t)

Respond(t, r) ==
    /\ phase' = [phase EXCEPT ![t] = "replied"]
    /\ reply' = [reply EXCEPT ![t] = r]
    /\ UNCHANGED <<expired, cookie, page, request>>

(* POST /application/start                                                 *)
ServeStart(t) ==
    /\ Arrived(t, {"start"})
    /\ \/ \E a \in App :
            /\ ~Started(a)
            /\ status' = [status EXCEPT ![a] = "STARTED"]
            /\ version' = [version EXCEPT ![a] = 1]
            /\ Respond(t, Redirect("started", a, 1, "set"))
            /\ UNCHANGED responses
       \/ /\ Respond(t, PageReply("unsupported", "keep"))
          /\ UNCHANGED tables
    /\ UNCHANGED seen

(* GET /resume.  Without a cookie there is none to delete.                 *)
ServeResume(t) ==
    LET a == request[t].cookie IN
    /\ Arrived(t, {"resume"})
    /\ \/ a = NoApp /\ Respond(t, PageReply("not_found", "keep"))
       \/ /\ a # NoApp /\ Resumable(a)
          /\ Respond(t, Redirect("resumed", a, ResumeStep(a), "keep"))
       \/ /\ a # NoApp /\ ~Resumable(a)
          /\ Respond(t, PageReply("not_found", "delete"))
    /\ UNCHANGED <<tables, seen>>

\* Mutant: whoever comes to a closed application loses his cookie.
ClosedPageForgets == PageReply("closed", "delete")

(* The 409 of an application that is closed; an HTTPException sets nothing.*)
ClosedPage == PageReply("closed", "keep")

(* _get_application_or_abort, for both step routes: closed before session. *)
Refuse(t) ==
    LET q == request[t] IN
    /\ Arrived(t, {"visit", "follow", "post"})
    /\ \/ /\ ~IsCustomerSubmittable(status[q.app])
          /\ Respond(t, ClosedPage)
       \/ /\ IsCustomerSubmittable(status[q.app]) /\ ~HoldsToken(q)
          /\ Respond(t, PageReply("forbidden", "keep"))
    /\ UNCHANGED <<tables, seen>>

Admitted(t) ==
    IsCustomerSubmittable(status[request[t].app]) /\ HoldsToken(request[t])

(* GET /application/{id}/step/{step}                                       *)
ServeStep(t) ==
    LET q == request[t] IN
    /\ Arrived(t, {"visit", "follow"})
    /\ Admitted(t)
    /\ \/ Renderable(q.app, q.step)
          /\ Respond(t, FormReply("asked",
                [app |-> q.app, step |-> q.step, version |-> version[q.app],
                 summary |-> Summarize(q.app, q.step)]))
       \/ ~Renderable(q.app, q.step) /\ Respond(t, PageReply("ahead", "keep"))
    /\ UNCHANGED <<tables, seen>>

(* POST /application/{id}/step/{step}.  db_version is read before ...      *)
ReadVersion(t) == seen' = [seen EXCEPT ![t] = version[request[t].app]]

(* ... the validation and the reachability of the step.                    *)
PostObjected(t) ==
    LET q == request[t]
        objections == {"invalid"} \cup
                      (IF Reachable(q.app, q.step) THEN {} ELSE {"blocked"})
    IN
    /\ Arrived(t, {"post"})
    /\ Admitted(t)
    /\ ReadVersion(t)
    /\ \E why \in objections :
         Respond(t, FormReply(why, FormAgain(q, version[q.app])))
    /\ UNCHANGED tables

(* The saved answers once more: no checks, no write, no version check.     *)
PostRepeated(t) ==
    LET q == request[t] IN
    /\ Arrived(t, {"post"})
    /\ Admitted(t)
    /\ Reachable(q.app, q.step)
    /\ responses[q.app][q.step] = q.answers
    /\ ReadVersion(t)
    /\ Respond(t, Onward("repeat", q.app, NextStep(q.step)))
    /\ UNCHANGED tables

(* Into the checks.  With none required the handler awaits nothing, and    *)
(* its end follows in the same turn of the event loop: see MayRun.         *)
PostAdmitted(t) ==
    LET q == request[t] IN
    /\ Arrived(t, {"post"})
    /\ Admitted(t)
    /\ Reachable(q.app, q.step)
    /\ responses[q.app][q.step] # q.answers
    /\ ReadVersion(t)
    /\ phase' = [phase EXCEPT ![t] = "checking"]
    /\ UNCHANGED <<tables, expired, cookie, page, request, reply>>

(* A provider failed (503, only where there is one), the version moved on. *)
PostNotSaved(t) ==
    LET q == request[t] IN
    /\ phase[t] = "checking"
    /\ MayRun(t)
    /\ \/ /\ Required[q.step] # <<>>
          /\ Respond(t, FormReply("unavailable", FormAgain(q, seen[t])))
       \/ /\ ~VersionIsCurrent(q)
          /\ Respond(t, FormReply("conflict", FormAgain(q, seen[t])))
    /\ UNCHANGED <<tables, seen>>

PostSaved(t, verdicts) ==
    LET q == request[t]
        final == FinalStatus(q.step, verdicts)
    IN
    /\ phase[t] = "checking"
    /\ MayRun(t)
    /\ VersionIsCurrent(q)
    /\ responses' = [responses EXCEPT ![q.app][q.step] = q.answers]
    /\ status' = [status EXCEPT ![q.app] = final]
    /\ version' = [version EXCEPT ![q.app] = @ + 1]
    /\ Respond(t, Onward("saved", q.app,
                         IF final = "IN_PROGRESS" THEN NextStep(q.step) ELSE 0))
    /\ UNCHANGED seen

(* The database fails, or an exception that no clause names: 500.          *)
ServeError(t) ==
    /\ phase[t] \in {"sent", "checking"}
    /\ MayRun(t)
    /\ Respond(t, PageReply("error", "keep"))
    /\ UNCHANGED <<tables, seen>>

(***************************************************************************)
(* The way back.                                                           *)
(***************************************************************************)

CookieAfter(r) ==
    CASE r.effect = "keep"   -> cookie
      [] r.effect = "delete" -> NoApp
      [] r.effect = "set"    -> r.app

(* The browser takes over the cookie, and follows a redirect with it.      *)
Receive(t) ==
    LET r == reply[t] IN
    /\ phase[t] = "replied"
    /\ cookie' = CookieAfter(r)
    /\ reply' = [reply EXCEPT ![t] = NoReply]
    /\ seen' = [seen EXCEPT ![t] = 0]
    /\ \/ /\ r.kind = "to"
          /\ phase' = [phase EXCEPT ![t] = "sent"]
          /\ request' = [request EXCEPT ![t] =
                           Click("follow", r.app, r.step, CookieAfter(r))]
          /\ UNCHANGED page
       \/ /\ r.kind # "to"
          /\ phase' = [phase EXCEPT ![t] = "browsing"]
          /\ request' = [request EXCEPT ![t] = NoRequest]
          /\ page' = [page EXCEPT ![t] = r.form]
    /\ UNCHANGED <<tables, expired>>

(* The request or its response is lost, or the worker dies; the customer   *)
(* is left with the form he had, one click of "back" away.                 *)
Lost(t) ==
    /\ phase[t] # "browsing"
    /\ phase' = [phase EXCEPT ![t] = "browsing"]
    /\ request' = [request EXCEPT ![t] = NoRequest]
    /\ reply' = [reply EXCEPT ![t] = NoReply]
    /\ seen' = [seen EXCEPT ![t] = 0]
    /\ UNCHANGED <<tables, expired, cookie, page>>

Browse(t) ==
    \/ ClickStart(t)
    \/ ClickResume(t)
    \/ \E a \in App, s \in Steps : Visit(t, a, s)
    \/ \E answers \in Answers : Submit(t, answers)

ServePost(t) ==
    \/ PostObjected(t)
    \/ PostRepeated(t)
    \/ PostAdmitted(t)
    \/ PostNotSaved(t)
    \/ \E verdicts \in Verdicts(request[t].step) : PostSaved(t, verdicts)

Serve(t) ==
    \/ ServeStart(t)
    \/ ServeResume(t)
    \/ Refuse(t)
    \/ ServeStep(t)
    \/ ServePost(t)
    \/ ServeError(t)

Next ==
    \/ LoseCookie
    \/ \E a \in App : Expire(a)
    \/ \E t \in Tab : Browse(t) \/ Serve(t) \/ Receive(t) \/ Lost(t)

Spec == Init /\ [][Next]_vars

(***************************************************************************)
(* What a customer who does not give up may count on.  At some time the    *)
(* mistyping, the failures and the detours end; from then on he submits    *)
(* the form he has, or asks for /resume if he has none, and the service    *)
(* takes every request.                                                    *)
(***************************************************************************)
Straight(t) ==
    \/ \E answers \in Answers : Submit(t, answers)
    \/ page[t] = NoForm /\ ClickResume(t)
    \/ ServeStart(t)
    \/ ServeResume(t)
    \/ Refuse(t)
    \/ ServeStep(t)
    \/ PostRepeated(t)
    \/ PostAdmitted(t)
    \/ PostNotSaved(t) /\ ~VersionIsCurrent(request[t])
    \/ \E verdicts \in Verdicts(request[t].step) : PostSaved(t, verdicts)
    \/ Receive(t)

StraightNext ==
    \/ LoseCookie
    \/ \E a \in App : Expire(a)
    \/ \E t \in Tab : Straight(t)

Perseverance ==
    /\ <>[][StraightNext]_vars
    /\ \A t \in Tab : WF_vars(Straight(t))

PerseveringSpec == Spec /\ Perseverance

-----------------------------------------------------------------------------
(***************************************************************************)
(* Properties.                                                             *)
(***************************************************************************)

TypeOK ==
    /\ status \in [App -> ApplicationStatus \cup {"ABSENT"}]
    /\ version \in [App -> Nat]
    /\ responses \in [App -> [Steps -> Answers \cup {NoAnswers}]]
    /\ expired \in [App -> BOOLEAN]
    /\ cookie \in App \cup {NoApp}
    /\ page \in [Tab -> Form \cup {NoForm}]
    /\ phase \in [Tab -> Phase]
    /\ request \in [Tab -> BrowserRequest]
    /\ seen \in [Tab -> Nat]
    /\ reply \in [Tab -> BrowserReply]

(* The forms of an application that a tab shows or is about to show.       *)
FormsOf(t) == {page[t], reply[t].form} \ {NoForm}

(* Whatever form a tab shows, however old, its step can be submitted:      *)
(* every earlier step is answered (views.py:37-48 renders by the first     *)
(* unanswered step, onboarding_service.py:68-82 admits by all before).     *)
ShownFormIsReachable ==
    \A t \in Tab : \A f \in FormsOf(t) : Reachable(f.app, f.step)

(* No redirect of the service - after start, resume or a step - leads to a *)
(* page it then refuses as too far ahead, whatever happens on the way.     *)
RedirectIsNeverAhead ==
    \A t \in Tab : request[t].kind = "follow" => reply[t].why # "ahead"

(* The form shown with a conflict can be submitted without another: it is  *)
(* newer than the form that conflicted, unless the application moved on    *)
(* while this very submission awaited its checks.                          *)
ConflictPageHelps ==
    \A t \in Tab : reply[t].why = "conflict" =>
        \/ reply[t].form.version > request[t].version
        \/ version[request[t].app] > seen[t]

(* What the customer confirms is what he was shown: when a review page     *)
(* with a summary is submitted and saved, the earlier answers are those of *)
(* the summary, although the page may be old and other tabs may have       *)
(* changed them and changed them back.                                     *)
SavedAsReviewed ==
    [][\A t \in Tab : \A verdicts \in Verdicts(request[t].step) :
          PostSaved(t, verdicts) =>
              \A s \in DOMAIN page[t].summary :
                  responses[page[t].app][s] = page[t].summary[s]]_vars

Usable(a) == a # NoApp /\ ~expired[a] /\ IsCustomerSubmittable(status[a])

(* A response takes the token of an open application from the browser, by  *)
(* deletion, only if the cookie was replaced after the request was sent    *)
(* (views.py:106, :308).                                                   *)
SessionLostOnlyToRace ==
    [][\A t \in Tab : Receive(t) /\ cookie' = NoApp /\ Usable(cookie) =>
          request[t].cookie # cookie]_vars

(* A customer who does not give up gets a decision, unless his token       *)
(* expires or the browser loses it or takes another: no page, conflict or  *)
(* refusal keeps him going round in circles.                               *)
PersevereToDecision ==
    \A a \in App :
        (cookie = a /\ Usable(a)) ~> (IsClosed(status[a]) \/ expired[a] \/ cookie # a)

=============================================================================
