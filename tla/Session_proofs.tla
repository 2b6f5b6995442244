--------------------------- MODULE Session_proofs ---------------------------
(***************************************************************************)
(* The pages of a browser and the routes that serve them, for any number   *)
(* of tabs and applications and every flow.                                *)
(*                                                                         *)
(* A page is a copy of the application made at its version.  Answers are   *)
(* never taken back, so a step that could be answered when its form was    *)
(* rendered can be answered for ever (Reachable); and whatever changes an  *)
(* application moves its version, so as long as the version of a page is   *)
(* the current one its summary is, too (FormKnown).                        *)
(***************************************************************************)
EXTENDS SessionLedger, TLAPS, WellFoundedInduction

(* What is true of a form that was rendered once, however long ago.        *)
FormKnown(f) ==
    /\ f.version <= version[f.app]
    /\ Reachable(f.app, f.step)
    /\ f.version = version[f.app] =>
         \A s \in DOMAIN f.summary : responses[f.app][s] = f.summary[s]

(* A request about a step names an application; a post is made from the    *)
(* page that is still shown; a redirect is followed where it can be.       *)
RequestOK(t) ==
    LET q == request[t] IN
    /\ q.kind \in {"visit", "follow", "post"} => q.app \in App
    /\ q.kind = "follow" => Reachable(q.app, q.step)
    /\ q.kind = "post" =>
         /\ page[t] # NoForm
         /\ q.app = page[t].app
         /\ q.step = page[t].step
         /\ q.version = page[t].version
         /\ q.answers \in Answers

HandlerOK(t) ==
    phase[t] = "checking" =>
        /\ request[t].kind = "post"
        /\ request[t].version <= seen[t]
        /\ seen[t] <= version[request[t].app]

ReplyOK(t) ==
    /\ phase[t] # "replied" => reply[t] = NoReply
    /\ reply[t].kind = "to" =>
         reply[t].app \in App /\ Reachable(reply[t].app, reply[t].step)
    /\ reply[t].why = "ahead" => request[t].kind # "follow"
    /\ reply[t].why = "conflict" =>
         /\ request[t].kind = "post"
         /\ \/ reply[t].form.version > request[t].version
            \/ version[request[t].app] > seen[t]

TabOK(t) ==
    /\ \A f \in FormsOf(t) : FormKnown(f)
    /\ RequestOK(t)
    /\ HandlerOK(t)
    /\ ReplyOK(t)

AbsentHasNoVersion == \A a \in App : status[a] = "ABSENT" <=> version[a] = 0

Inv == TypeOK /\ AbsentHasNoVersion /\ \A t \in Tab : TabOK(t)

(* What any step may do to the tables.                                     *)
Forward ==
    \A a \in App :
        /\ version[a] <= version'[a]
        /\ version[a] = version'[a] => responses[a] = responses'[a]
        /\ \A s \in Steps : Answered(a, s) => Answered(a, s)'

-----------------------------------------------------------------------------
(* The pure part.                                                          *)

(* A set of numbers that has an element has a least one.                   *)
LEMMA Least ==
    ASSUME NEW T \in SUBSET Nat, T # {}
    PROVE  \E s \in T : \A u \in T : s <= u
<1> DEFINE R == {ss \in Nat \X Nat : ss[1] < ss[2]}
<1>1. IsWellFoundedOn(R, Nat)
  BY NatLessThanWellFounded DEF OpToRel
<1>2. \A s, u \in T : <<u, s>> \in R <=> u < s
  OBVIOUS
<1> HIDE DEF R
<1>3. PICK s \in T : \A u \in T : ~(<<u, s>> \in R)
  BY <1>1, WFMin
<1>4. ASSUME NEW u \in T PROVE s <= u
  <2>1. ~(u < s)
    BY <1>2, <1>3
  <2> QED BY <2>1
<1> QED BY <1>4

LEMMA StepOne == /\ 1 \in Steps
                 /\ NumSteps \in Steps
                 /\ Steps \subseteq Nat
  BY FlowAssumption DEF Steps

(* The step that resume leads to can be answered.                          *)
LEMMA ResumeStepReachable ==
    ASSUME NEW a \in App
    PROVE  ResumeStep(a) \in Steps /\ Reachable(a, ResumeStep(a))
<1>1. CASE Unanswered(a) = {}
  BY <1>1, StepOne, FlowAssumption DEF ResumeStep, Unanswered, Reachable, Steps
<1>2. CASE Unanswered(a) # {}
  <2>1. Unanswered(a) \in SUBSET Nat /\ Unanswered(a) \subseteq Steps
    BY StepOne DEF Unanswered
  <2>2. \E s \in Unanswered(a) : \A u \in Unanswered(a) : s <= u
    BY <1>2, <2>1, Least
  <2>3. /\ ResumeStep(a) \in Unanswered(a)
        /\ \A u \in Unanswered(a) : ResumeStep(a) <= u
    BY <1>2, <2>2 DEF ResumeStep
  <2>4. ASSUME NEW s \in 1 .. (ResumeStep(a) - 1) PROVE Answered(a, s)
    <3>1. s \in Steps /\ s < ResumeStep(a)
      BY <2>1, <2>3, FlowAssumption DEF Steps
    <3>2. s \notin Unanswered(a)
      BY <2>1, <2>3, <3>1
    <3> QED BY <3>1, <3>2 DEF Unanswered
  <2> QED BY <2>1, <2>3, <2>4 DEF Reachable
<1> QED BY <1>1, <1>2

(* So can the step after one that has been answered.                       *)
LEMMA NextStepReachable ==
    ASSUME NEW a \in App, NEW s \in Steps, NextStep(s) # 0,
           Reachable(a, s), Answered(a, s)
    PROVE  NextStep(s) \in Steps /\ Reachable(a, NextStep(s))
  BY FlowAssumption DEF NextStep, Steps, Reachable

(* The two guards of the code agree: what can be answered is rendered, and *)
(* what is rendered can be answered.                                       *)
LEMMA RenderableIsReachable ==
    ASSUME NEW a \in App, NEW s \in Steps
    PROVE  Renderable(a, s) <=> Reachable(a, s)
<1>1. ASSUME Renderable(a, s), NEW t \in 1 .. (s - 1) PROVE Answered(a, t)
  <2>1. t \in Steps /\ t < s
    BY FlowAssumption DEF Steps
  <2>2. t \notin Unanswered(a)
    BY <1>1, <2>1 DEF Renderable, Steps
  <2> QED BY <2>1, <2>2 DEF Unanswered
<1>2. ASSUME Reachable(a, s), NEW u \in Unanswered(a) PROVE s <= u
  <2>1. u \in Steps /\ ~Answered(a, u)
    BY DEF Unanswered
  <2>2. u \notin 1 .. (s - 1)
    BY <1>2, <2>1 DEF Reachable
  <2> QED BY <2>1, <2>2, FlowAssumption DEF Steps
<1> QED BY <1>1, <1>2 DEF Renderable, Reachable

LEMMA SummaryTyped ==
    ASSUME TypeOK, NEW a \in App, NEW s \in Steps
    PROVE  Summarize(a, s) \in Summary
<1>1. CASE s \in Review
  <2>1. \A t \in 1 .. (s - 1) : t \in Steps
    BY FlowAssumption DEF Steps
  <2>2. \A t \in 1 .. (s - 1) : responses[a][t] \in Answers \cup {NoAnswers}
    BY <2>1 DEF TypeOK
  <2>3. s - 1 \in Nat
    BY StepOne, FlowAssumption DEF Steps
  <2> QED BY <1>1, <2>2, <2>3 DEF Summarize, Summary
<1>2. CASE s \notin Review
  BY <1>2 DEF Summarize, Summary, NoSummary
<1> QED BY <1>1, <1>2

(* Every response of a route is a response.                                *)
LEMMA RepliesTyped ==
    /\ \A why \in {"none", "decision", "unsupported", "not_found", "closed",
                   "forbidden", "ahead", "error"}, effect \in CookieEffect :
         PageReply(why, effect) \in BrowserReply
    /\ NoReply \in BrowserReply
    /\ \A why \in {"saved", "repeat", "started", "resumed"}, a \in App, s \in Steps,
          effect \in CookieEffect : Redirect(why, a, s, effect) \in BrowserReply
    /\ \A why \in {"asked", "invalid", "blocked", "conflict", "unavailable"},
          f \in Form : FormReply(why, f) \in BrowserReply
<1>1. \A why \in {"none", "decision", "unsupported", "not_found", "closed",
                  "forbidden", "ahead", "error"}, effect \in CookieEffect :
         PageReply(why, effect) \in BrowserReply
  BY StepOne DEF PageReply, BrowserReply
<1>2. NoReply \in BrowserReply
  BY StepOne DEF NoReply, PageReply, BrowserReply, CookieEffect
<1>3. \A why \in {"saved", "repeat", "started", "resumed"}, a \in App, s \in Steps,
         effect \in CookieEffect : Redirect(why, a, s, effect) \in BrowserReply
  BY DEF Redirect, PageReply, BrowserReply
<1>4. \A why \in {"asked", "invalid", "blocked", "conflict", "unavailable"},
         f \in Form : FormReply(why, f) \in BrowserReply
  BY StepOne DEF FormReply, PageReply, BrowserReply, CookieEffect
<1> QED BY <1>1, <1>2, <1>3, <1>4

-----------------------------------------------------------------------------
(* What steps have in common.                                              *)

TablesOK ==
    /\ status \in [App -> ApplicationStatus \cup {"ABSENT"}]
    /\ version \in [App -> Nat]
    /\ responses \in [App -> [Steps -> Answers \cup {NoAnswers}]]

LEMMA TablesKept ==
    ASSUME Inv, UNCHANGED tables
    PROVE  TablesOK' /\ AbsentHasNoVersion' /\ Forward
<1>1. UNCHANGED <<status, version, responses>>
  BY DEF tables
<1>2. TablesOK'
  BY <1>1 DEF Inv, TypeOK, TablesOK
<1>3. AbsentHasNoVersion'
  BY <1>1 DEF Inv, AbsentHasNoVersion
<1>4. Forward
  <2>1. \A a \in App : version[a] <= version'[a]
    BY <1>1 DEF Inv, TypeOK
  <2> QED BY <1>1, <2>1 DEF Forward, Answered
<1> QED BY <1>2, <1>3, <1>4

LEMMA ReachableStays ==
    ASSUME Forward, NEW a \in App, NEW s \in Steps, Reachable(a, s)
    PROVE  Reachable(a, s)'
<1>1. \A t \in 1 .. (s - 1) : t \in Steps
  BY FlowAssumption DEF Steps
<1> QED BY <1>1 DEF Reachable, Forward

LEMMA FormKnownStays ==
    ASSUME TypeOK, TablesOK', Forward, NEW f \in Form, FormKnown(f)
    PROVE  FormKnown(f)'
<1>1. f.app \in App /\ f.step \in Steps /\ f.version \in Nat
  BY DEF Form
<1>2. /\ f.version <= version[f.app]
      /\ version[f.app] <= version'[f.app]
      /\ version[f.app] \in Nat /\ version'[f.app] \in Nat
  BY <1>1 DEF FormKnown, Forward, TypeOK, TablesOK
<1>3. Reachable(f.app, f.step)'
  BY <1>1, ReachableStays DEF FormKnown
<1>4. ASSUME f.version = version'[f.app], NEW s \in DOMAIN f.summary
      PROVE  responses'[f.app][s] = f.summary[s]
  <2>1. f.version = version[f.app] /\ version[f.app] = version'[f.app]
    BY <1>1, <1>2, <1>4
  <2>2. responses[f.app][s] = f.summary[s]
    BY <1>4, <2>1 DEF FormKnown
  <2> QED BY <1>1, <2>1, <2>2 DEF Forward
<1>5. f.version <= version'[f.app]
  BY <1>1, <1>2
<1> QED BY <1>3, <1>4, <1>5 DEF FormKnown

(* A tab that takes no part in a step.                                     *)
LEMMA Others ==
    ASSUME Inv, TablesOK', Forward, NEW t \in Tab,
           page'[t] = page[t], phase'[t] = phase[t], request'[t] = request[t],
           seen'[t] = seen[t], reply'[t] = reply[t]
    PROVE  TabOK(t)'
<1>1. TypeOK /\ TabOK(t)
  BY DEF Inv
<1>2. /\ request[t] \in BrowserRequest
      /\ reply[t] \in BrowserReply
      /\ page[t] \in Form \cup {NoForm}
      /\ seen[t] \in Nat
      /\ \A a \in App : version[a] \in Nat /\ version'[a] \in Nat
                        /\ version[a] <= version'[a]
  BY <1>1 DEF TypeOK, TablesOK, Forward
<1>3. \A f \in FormsOf(t)' : FormKnown(f)'
  <2>1. FormsOf(t)' = FormsOf(t)
    BY DEF FormsOf
  <2>2. FormsOf(t) \subseteq Form
    BY <1>2 DEF FormsOf, BrowserReply
  <2> QED BY <1>1, <2>1, <2>2, FormKnownStays DEF TabOK
<1>4. RequestOK(t)'
  <2>1. request[t].kind = "follow" => Reachable(request[t].app, request[t].step)'
    BY <1>1, <1>2, ReachableStays DEF TabOK, RequestOK, BrowserRequest
  <2> QED BY <1>1, <2>1 DEF TabOK, RequestOK
<1>5. HandlerOK(t)'
  BY <1>1, <1>2 DEF TabOK, HandlerOK, RequestOK
<1>6. ReplyOK(t)'
  <2>1. reply[t].kind = "to" => Reachable(reply[t].app, reply[t].step)'
    BY <1>1, <1>2, ReachableStays DEF TabOK, ReplyOK, BrowserReply
  <2>2. reply[t].why = "conflict" =>
          \/ reply[t].form.version > request[t].version
          \/ version'[request[t].app] > seen[t]
    BY <1>1, <1>2 DEF TabOK, ReplyOK, RequestOK
  <2> QED BY <1>1, <2>1, <2>2 DEF TabOK, ReplyOK
<1> QED BY <1>3, <1>4, <1>5, <1>6 DEF TabOK

(* A response is sent: the form on it is known, a redirect leads where one *)
(* can go, and a conflict has a cause.                                     *)
LEMMA Responds ==
    ASSUME Inv, TablesOK', AbsentHasNoVersion', Forward,
           NEW t \in Tab, NEW r \in BrowserReply, Respond(t, r),
           seen' \in [Tab -> Nat], \A u \in Tab \ {t} : seen'[u] = seen[u],
           r.form # NoForm => FormKnown(r.form)',
           r.kind = "to" => r.app \in App /\ Reachable(r.app, r.step)',
           r.why = "ahead" => request[t].kind # "follow",
           r.why = "conflict" =>
             /\ request[t].kind = "post"
             /\ \/ r.form.version > request[t].version
                \/ version'[request[t].app] > seen'[t]
    PROVE  Inv'
<1>1. TypeOK /\ TabOK(t)
  BY DEF Inv
<1>2. /\ phase' = [phase EXCEPT ![t] = "replied"]
      /\ reply' = [reply EXCEPT ![t] = r]
      /\ UNCHANGED <<expired, cookie, page, request>>
  BY DEF Respond
<1>3. TypeOK'
  BY <1>1, <1>2 DEF TypeOK, TablesOK, Phase
<1>4. /\ phase'[t] = "replied" /\ reply'[t] = r
      /\ \A u \in Tab \ {t} : phase'[u] = phase[u] /\ reply'[u] = reply[u]
  BY <1>1, <1>2 DEF TypeOK
<1>5. ASSUME NEW u \in Tab \ {t} PROVE TabOK(u)'
  BY <1>2, <1>4, Others
<1>6. TabOK(t)'
  <2>1. \A f \in FormsOf(t)' : FormKnown(f)'
    <3> SUFFICES ASSUME NEW f \in FormsOf(t)' PROVE FormKnown(f)'
      OBVIOUS
    <3>1. f # NoForm /\ (f = page[t] \/ f = r.form)
      BY <1>2, <1>4 DEF FormsOf
    <3>2. CASE f = page[t]
      <4>1. f \in Form /\ f \in FormsOf(t)
        BY <1>1, <3>1, <3>2 DEF TypeOK, FormsOf
      <4> QED BY <1>1, <4>1, FormKnownStays DEF TabOK
    <3> QED BY <3>1, <3>2
  <2>2. RequestOK(t)'
    <3>1. request[t].kind = "follow" => Reachable(request[t].app, request[t].step)'
      BY <1>1, <1>2, ReachableStays DEF TypeOK, TabOK, RequestOK, BrowserRequest
    <3> QED BY <1>1, <1>2, <3>1 DEF TabOK, RequestOK
  <2>3. HandlerOK(t)'
    BY <1>4 DEF HandlerOK
  <2>4. ReplyOK(t)'
    BY <1>2, <1>4 DEF ReplyOK
  <2> QED BY <2>1, <2>2, <2>3, <2>4 DEF TabOK
<1> QED BY <1>3, <1>5, <1>6 DEF Inv

(* The same, when the tables stay as they are.                             *)
LEMMA RespondsOnly ==
    ASSUME Inv, UNCHANGED tables,
           NEW t \in Tab, NEW r \in BrowserReply, Respond(t, r),
           seen' \in [Tab -> Nat], \A u \in Tab \ {t} : seen'[u] = seen[u],
           r.form # NoForm => FormKnown(r.form),
           r.kind = "to" => r.app \in App /\ Reachable(r.app, r.step),
           r.why = "ahead" => request[t].kind # "follow",
           r.why = "conflict" =>
             /\ request[t].kind = "post"
             /\ \/ r.form.version > request[t].version
                \/ version[request[t].app] > seen'[t]
    PROVE  Inv'
<1>1. TablesOK' /\ AbsentHasNoVersion' /\ Forward
  BY TablesKept
<1>2. UNCHANGED version
  BY DEF tables
<1>3. r.form # NoForm => FormKnown(r.form)'
  BY <1>1, FormKnownStays DEF Inv, BrowserReply
<1>4. r.kind = "to" => r.app \in App /\ Reachable(r.app, r.step)'
  BY <1>1, ReachableStays DEF BrowserReply
<1> QED BY <1>1, <1>2, <1>3, <1>4, Responds

-----------------------------------------------------------------------------
(* The steps of the customer and of the network.                           *)

LEMMA SendInv ==
    ASSUME Inv, NEW t \in Tab, NEW q \in BrowserRequest, Send(t, q),
           q.kind \in {"start", "resume", "visit", "post"},
           q.kind \in {"visit", "post"} => q.app \in App,
           q.kind = "post" =>
             /\ page[t] # NoForm
             /\ q.app = page[t].app
             /\ q.step = page[t].step
             /\ q.version = page[t].version
             /\ q.answers \in Answers
    PROVE  Inv'
<1>1. TypeOK /\ TabOK(t)
  BY DEF Inv
<1>2. /\ phase[t] = "browsing"
      /\ phase' = [phase EXCEPT ![t] = "sent"]
      /\ request' = [request EXCEPT ![t] = q]
      /\ UNCHANGED <<tables, expired, cookie, page, seen, reply>>
  BY DEF Send
<1>3. TablesOK' /\ AbsentHasNoVersion' /\ Forward
  BY <1>2, TablesKept
<1>4. TypeOK'
  BY <1>1, <1>2, <1>3 DEF TypeOK, TablesOK, Phase
<1>5. /\ phase'[t] = "sent" /\ request'[t] = q
      /\ \A u \in Tab \ {t} : phase'[u] = phase[u] /\ request'[u] = request[u]
  BY <1>1, <1>2 DEF TypeOK
<1>6. ASSUME NEW u \in Tab \ {t} PROVE TabOK(u)'
  BY <1>2, <1>3, <1>5, Others
<1>7. TabOK(t)'
  <2>1. \A f \in FormsOf(t)' : FormKnown(f)'
    <3>1. FormsOf(t)' = FormsOf(t)
      BY <1>2 DEF FormsOf
    <3>2. FormsOf(t) \subseteq Form
      BY <1>1 DEF TypeOK, FormsOf, BrowserReply
    <3> QED BY <1>1, <1>3, <3>1, <3>2, FormKnownStays DEF TabOK
  <2>2. RequestOK(t)'
    BY <1>2, <1>5 DEF RequestOK
  <2>3. HandlerOK(t)'
    BY <1>5 DEF HandlerOK
  <2>4. ReplyOK(t)'
    <3>1. reply'[t] = NoReply
      BY <1>1, <1>2 DEF TabOK, ReplyOK
    <3> QED BY <3>1 DEF ReplyOK, NoReply, PageReply
  <2> QED BY <2>1, <2>2, <2>3, <2>4 DEF TabOK
<1> QED BY <1>3, <1>4, <1>6, <1>7 DEF Inv

LEMMA BrowseInv ==
    ASSUME Inv, NEW t \in Tab, Browse(t)
    PROVE  Inv'
<1>1. TypeOK
  BY DEF Inv
<1>2. \A kind \in {"start", "resume"} :
         Click(kind, NoApp, 1, cookie) \in BrowserRequest
  BY <1>1, StepOne DEF Click, BrowserRequest, RequestKind, TypeOK
<1>3. CASE ClickStart(t) \/ ClickResume(t)
  <2>1. ASSUME NEW kind \in {"start", "resume"},
               Send(t, Click(kind, NoApp, 1, cookie))
        PROVE  Inv'
    <3>1. Click(kind, NoApp, 1, cookie).kind = kind
      BY DEF Click
    <3> QED BY <1>2, <2>1, <3>1, SendInv
  <2> QED BY <1>3, <2>1 DEF ClickStart, ClickResume
<1>4. ASSUME NEW a \in App, NEW s \in Steps, Visit(t, a, s) PROVE Inv'
  <2> DEFINE q == Click("visit", a, s, cookie)
  <2>1. q \in BrowserRequest /\ q.kind = "visit" /\ q.app = a
    BY <1>1 DEF Click, BrowserRequest, RequestKind, TypeOK
  <2>2. Send(t, q)
    BY <1>4 DEF Visit
  <2> HIDE DEF q
  <2> QED BY <2>1, <2>2, SendInv
<1>5. ASSUME NEW answers \in Answers, Submit(t, answers) PROVE Inv'
  <2> DEFINE f == page[t]
             q == [Click("post", f.app, f.step, cookie) EXCEPT
                     !.version = f.version, !.answers = answers]
  <2>1. f # NoForm /\ Send(t, q)
    BY <1>5 DEF Submit
  <2>2. f \in Form
    BY <1>1, <2>1 DEF TypeOK
  <2>3. /\ Click("post", f.app, f.step, cookie) \in BrowserRequest
        /\ f.app \in App /\ f.version \in Nat
    BY <1>1, <2>2 DEF Click, BrowserRequest, RequestKind, TypeOK, Form
  <2>4. q \in BrowserRequest
    BY <2>3 DEF BrowserRequest
  <2>5. /\ q.kind = "post" /\ q.app = f.app /\ q.step = f.step
        /\ q.version = f.version /\ q.answers = answers
    BY DEF Click
  <2> HIDE DEF q
  <2> QED BY <2>1, <2>3, <2>4, <2>5, SendInv
<1> QED BY <1>3, <1>4, <1>5 DEF Browse

(* The cookie and the age of the token are nobody's memory.                *)
LEMMA CookieInv ==
    ASSUME Inv, LoseCookie \/ \E a \in App : Expire(a)
    PROVE  Inv'
<1>1. TypeOK
  BY DEF Inv
<1>2. UNCHANGED <<tables, page, exchange>>
  BY DEF LoseCookie, Expire
<1>3. TablesOK' /\ AbsentHasNoVersion' /\ Forward
  BY <1>2, TablesKept
<1>4. cookie' \in App \cup {NoApp} /\ expired' \in [App -> BOOLEAN]
  BY <1>1 DEF TypeOK, LoseCookie, Expire
<1>5. TypeOK'
  BY <1>1, <1>2, <1>3, <1>4 DEF TypeOK, TablesOK, exchange
<1>6. ASSUME NEW u \in Tab PROVE TabOK(u)'
  BY <1>2, <1>3, Others DEF exchange
<1> QED BY <1>3, <1>5, <1>6 DEF Inv

(* The tab is left with a form that it had, or that the response carried,  *)
(* and with no request or with the GET of a redirect.                      *)
LEMMA TabMovesOn ==
    ASSUME Inv, NEW t \in Tab, UNCHANGED <<tables, expired>>,
           NEW p \in {"browsing", "sent"}, phase' = [phase EXCEPT ![t] = p],
           NEW q \in BrowserRequest, request' = [request EXCEPT ![t] = q],
           reply' = [reply EXCEPT ![t] = NoReply],
           seen' = [seen EXCEPT ![t] = 0],
           NEW f \in FormsOf(t) \cup {NoForm},
           page' = [page EXCEPT ![t] = f],
           cookie' \in App \cup {NoApp},
           q.kind \in {"none", "follow"},
           q.kind = "follow" => q.app \in App /\ Reachable(q.app, q.step)
    PROVE  Inv'
<1>1. TypeOK /\ TabOK(t)
  BY DEF Inv
<1>2. TablesOK' /\ AbsentHasNoVersion' /\ Forward
  BY TablesKept
<1>3. FormsOf(t) \subseteq Form
  BY <1>1 DEF TypeOK, FormsOf, BrowserReply
<1>4. TypeOK'
  BY <1>1, <1>2, <1>3, RepliesTyped DEF TypeOK, TablesOK, Phase
<1>5. /\ phase'[t] = p /\ request'[t] = q /\ reply'[t] = NoReply /\ page'[t] = f
      /\ \A u \in Tab \ {t} :
           /\ phase'[u] = phase[u] /\ request'[u] = request[u]
           /\ reply'[u] = reply[u] /\ seen'[u] = seen[u] /\ page'[u] = page[u]
  BY <1>1 DEF TypeOK
<1>6. ASSUME NEW u \in Tab \ {t} PROVE TabOK(u)'
  BY <1>2, <1>5, Others
<1>7. TabOK(t)'
  <2>1. ASSUME NEW g \in FormsOf(t)' PROVE FormKnown(g)'
    <3>1. g # NoForm /\ g \in {f, NoReply.form}
      BY <1>5 DEF FormsOf
    <3>2. NoReply.form = NoForm
      BY DEF NoReply, PageReply
    <3>3. g \in Form /\ FormKnown(g)
      BY <1>1, <1>3, <3>1, <3>2 DEF TabOK
    <3> QED BY <1>1, <1>2, <3>3, FormKnownStays
  <2>2. RequestOK(t)'
    <3>1. q.kind = "follow" => Reachable(q.app, q.step)'
      BY <1>2, ReachableStays DEF BrowserRequest
    <3> QED BY <1>5, <3>1 DEF RequestOK
  <2>3. HandlerOK(t)'
    BY <1>5 DEF HandlerOK
  <2>4. ReplyOK(t)'
    BY <1>5 DEF ReplyOK, NoReply, PageReply
  <2> QED BY <2>1, <2>2, <2>3, <2>4 DEF TabOK
<1> QED BY <1>2, <1>4, <1>6, <1>7 DEF Inv

LEMMA NoRequestTyped == NoRequest \in BrowserRequest /\ NoRequest.kind = "none"
  BY StepOne DEF NoRequest, Click, BrowserRequest, RequestKind

LEMMA LostInv ==
    ASSUME Inv, NEW t \in Tab, Lost(t)
    PROVE  Inv'
<1>1. TypeOK
  BY DEF Inv
<1>2. page[t] \in FormsOf(t) \cup {NoForm} /\ page' = [page EXCEPT ![t] = page[t]]
  BY <1>1 DEF TypeOK, FormsOf, Lost
<1>3. /\ phase' = [phase EXCEPT ![t] = "browsing"]
      /\ request' = [request EXCEPT ![t] = NoRequest]
      /\ reply' = [reply EXCEPT ![t] = NoReply]
      /\ seen' = [seen EXCEPT ![t] = 0]
      /\ UNCHANGED <<tables, expired>>
      /\ cookie' \in App \cup {NoApp}
  BY <1>1 DEF Lost, TypeOK
<1> QED BY <1>2, <1>3, NoRequestTyped, TabMovesOn

LEMMA ReceiveInv ==
    ASSUME Inv, NEW t \in Tab, Receive(t)
    PROVE  Inv'
<1> DEFINE r == reply[t]
           q == Click("follow", r.app, r.step, CookieAfter(r))
<1>1. TypeOK /\ ReplyOK(t) /\ r \in BrowserReply
  BY DEF Inv, TabOK, TypeOK
<1>2. /\ reply' = [reply EXCEPT ![t] = NoReply]
      /\ seen' = [seen EXCEPT ![t] = 0]
      /\ UNCHANGED <<tables, expired>>
  BY DEF Receive
<1>3. CookieAfter(r) \in App \cup {NoApp}
  BY <1>1 DEF CookieAfter, TypeOK, BrowserReply, CookieEffect
<1>4. cookie' \in App \cup {NoApp}
  BY <1>3 DEF Receive
<1>5. CASE r.kind = "to"
  <2>1. /\ phase' = [phase EXCEPT ![t] = "sent"]
        /\ request' = [request EXCEPT ![t] = q]
        /\ page' = [page EXCEPT ![t] = page[t]]
    BY <1>1, <1>5 DEF Receive, TypeOK
  <2>2. page[t] \in FormsOf(t) \cup {NoForm}
    BY DEF FormsOf
  <2>3. /\ q \in BrowserRequest /\ q.kind = "follow"
        /\ q.app = r.app /\ q.step = r.step
    BY <1>1, <1>3 DEF Click, BrowserRequest, RequestKind, BrowserReply
  <2>4. q.app \in App /\ Reachable(q.app, q.step)
    BY <1>1, <1>5, <2>3 DEF ReplyOK
  <2> HIDE DEF q
  <2> QED BY <1>2, <1>4, <2>1, <2>2, <2>3, <2>4, TabMovesOn
<1>6. CASE r.kind # "to"
  <2>1. /\ phase' = [phase EXCEPT ![t] = "browsing"]
        /\ request' = [request EXCEPT ![t] = NoRequest]
        /\ page' = [page EXCEPT ![t] = r.form]
    BY <1>6 DEF Receive
  <2>2. r.form \in FormsOf(t) \cup {NoForm}
    BY DEF FormsOf
  <2> HIDE DEF r
  <2> QED BY <1>2, <1>4, <2>1, <2>2, NoRequestTyped, TabMovesOn
<1> QED BY <1>5, <1>6

-----------------------------------------------------------------------------
(* The steps of the service.                                               *)

LEMMA PageInv ==
    ASSUME Inv, NEW t \in Tab, UNCHANGED <<tables, seen>>,
           NEW why \in {"unsupported", "not_found", "closed", "forbidden",
                        "ahead", "error"},
           NEW effect \in CookieEffect,
           Respond(t, PageReply(why, effect)),
           why = "ahead" => request[t].kind # "follow"
    PROVE  Inv'
<1> DEFINE r == PageReply(why, effect)
<1>1. r \in BrowserReply
  BY RepliesTyped
<1>2. r.form = NoForm /\ r.kind = "page" /\ r.why = why
  BY DEF PageReply
<1>3. seen' \in [Tab -> Nat] /\ \A u \in Tab \ {t} : seen'[u] = seen[u]
  BY DEF Inv, TypeOK
<1>4. UNCHANGED tables
  OBVIOUS
<1>5. Respond(t, r)
  OBVIOUS
<1> HIDE DEF r
<1> QED BY <1>1, <1>2, <1>3, <1>4, <1>5, RespondsOnly

(* A form is served with what is in the tables.                            *)
LEMMA FormInv ==
    ASSUME Inv, NEW t \in Tab, UNCHANGED tables,
           NEW f \in Form, FormKnown(f),
           NEW why \in {"asked", "invalid", "blocked", "unavailable"},
           Respond(t, FormReply(why, f)),
           seen' \in [Tab -> Nat], \A u \in Tab \ {t} : seen'[u] = seen[u]
    PROVE  Inv'
<1> DEFINE r == FormReply(why, f)
<1>1. r \in BrowserReply
  BY RepliesTyped
<1>2. r.form = f /\ r.kind = "form" /\ r.why = why
  BY DEF FormReply, PageReply
<1>3. Respond(t, r)
  OBVIOUS
<1> HIDE DEF r
<1> QED BY <1>1, <1>2, <1>3, RespondsOnly

(* A redirect within the flow, or the decision page.                       *)
LEMMA OnwardFacts ==
    ASSUME NEW why \in {"saved", "repeat"}, NEW a \in App, NEW next \in Steps \cup {0}
    PROVE  LET r == Onward(why, a, next) IN
           /\ r \in BrowserReply /\ r.form = NoForm
           /\ r.why \notin {"ahead", "conflict"}
           /\ r.kind = "to" => r.app = a /\ r.step = next /\ next # 0
<1>1. CASE next = 0
  BY <1>1, RepliesTyped DEF Onward, PageReply, CookieEffect
<1>2. CASE next # 0
  BY <1>2, RepliesTyped DEF Onward, Redirect, PageReply, CookieEffect
<1> QED BY <1>1, <1>2

LEMMA ServeErrorInv ==
    ASSUME Inv, NEW t \in Tab, ServeError(t)
    PROVE  Inv'
  BY PageInv DEF ServeError, CookieEffect

LEMMA RefuseInv ==
    ASSUME Inv, NEW t \in Tab, Refuse(t)
    PROVE  Inv'
  BY PageInv DEF Refuse, ClosedPage, CookieEffect

LEMMA ServeResumeInv ==
    ASSUME Inv, NEW t \in Tab, ServeResume(t)
    PROVE  Inv'
<1> DEFINE a == request[t].cookie
<1>1. UNCHANGED <<tables, seen>>
  BY DEF ServeResume
<1>2. CASE \E effect \in CookieEffect : Respond(t, PageReply("not_found", effect))
  BY <1>1, <1>2, PageInv
<1>3. CASE a # NoApp /\ Respond(t, Redirect("resumed", a, ResumeStep(a), "keep"))
  <2>1. a \in App
    BY <1>3 DEF Inv, TypeOK, BrowserRequest
  <2>2. ResumeStep(a) \in Steps /\ Reachable(a, ResumeStep(a))
    BY <2>1, ResumeStepReachable
  <2> DEFINE r == Redirect("resumed", a, ResumeStep(a), "keep")
  <2>3. r \in BrowserReply
    BY <2>1, <2>2, RepliesTyped DEF CookieEffect
  <2>4. /\ r.form = NoForm /\ r.why = "resumed"
        /\ r.app = a /\ r.step = ResumeStep(a)
    BY DEF Redirect, PageReply
  <2>5. Respond(t, r) /\ UNCHANGED tables
    BY <1>1, <1>3
  <2>6. seen' \in [Tab -> Nat] /\ \A u \in Tab \ {t} : seen'[u] = seen[u]
    BY <1>1 DEF Inv, TypeOK
  <2> HIDE DEF r
  <2> QED BY <2>1, <2>2, <2>3, <2>4, <2>5, <2>6, RespondsOnly
<1> QED BY <1>2, <1>3 DEF ServeResume, CookieEffect

(* What a handler that was let in knows.                                   *)
LEMMA AdmittedFacts ==
    ASSUME Inv, NEW t \in Tab, Admitted(t),
           request[t].kind \in {"visit", "follow", "post"}
    PROVE  /\ request[t] \in BrowserRequest
           /\ request[t].app \in App /\ request[t].step \in Steps
           /\ version[request[t].app] \in Nat \ {0}
<1>1. request[t] \in BrowserRequest /\ request[t].app \in App
  BY DEF Inv, TypeOK, TabOK, RequestOK
<1>2. status[request[t].app] # "ABSENT"
  BY DEF Admitted, IsCustomerSubmittable, CUSTOMER_SUBMITTABLE_STATUSES
<1> QED BY <1>1, <1>2 DEF Inv, TypeOK, AbsentHasNoVersion, BrowserRequest

LEMMA ServeStepInv ==
    ASSUME Inv, NEW t \in Tab, ServeStep(t)
    PROVE  Inv'
<1> DEFINE q == request[t]
           f == [app |-> q.app, step |-> q.step, version |-> version[q.app],
                 summary |-> Summarize(q.app, q.step)]
<1>1. /\ q.kind \in {"visit", "follow"} /\ Admitted(t)
      /\ UNCHANGED <<tables, seen>>
  BY DEF ServeStep, Arrived
<1>2. /\ q \in BrowserRequest /\ q.app \in App /\ q.step \in Steps
      /\ version[q.app] \in Nat \ {0}
  BY <1>1, AdmittedFacts
<1>3. CASE Renderable(q.app, q.step) /\ Respond(t, FormReply("asked", f))
  <2>1. f \in Form
    BY <1>2, SummaryTyped DEF Form, Inv
  <2>2. Reachable(q.app, q.step)
    BY <1>2, <1>3, RenderableIsReachable
  <2>3. \A s \in DOMAIN f.summary : responses[q.app][s] = f.summary[s]
    BY DEF Summarize, NoSummary
  <2>4. FormKnown(f)
    BY <1>2, <2>2, <2>3 DEF FormKnown
  <2>5. seen' \in [Tab -> Nat] /\ \A u \in Tab \ {t} : seen'[u] = seen[u]
    BY <1>1 DEF Inv, TypeOK
  <2> HIDE DEF f
  <2> QED BY <1>1, <1>3, <2>1, <2>4, <2>5, FormInv
<1>4. CASE ~Renderable(q.app, q.step) /\ Respond(t, PageReply("ahead", "keep"))
  <2>1. q.kind # "follow"
    BY <1>2, <1>4, RenderableIsReachable DEF Inv, TabOK, RequestOK
  <2> QED BY <1>1, <1>4, <2>1, PageInv DEF CookieEffect
<1> QED BY <1>3, <1>4 DEF ServeStep

(* A post comes from a form that was rendered, whatever became of the      *)
(* application since: its step can be answered.                            *)
LEMMA PostFacts ==
    ASSUME Inv, NEW t \in Tab, request[t].kind = "post"
    PROVE  LET q == request[t] IN
           /\ q \in BrowserRequest /\ q.app \in App /\ q.step \in Steps
           /\ q.version \in Nat \ {0} /\ q.version <= version[q.app]
           /\ q.answers \in Answers
           /\ Reachable(q.app, q.step)
           /\ q.version = version[q.app] =>
                \A s \in DOMAIN page[t].summary :
                    responses[q.app][s] = page[t].summary[s]
<1> DEFINE q == request[t]
<1>1. q \in BrowserRequest /\ page[t] \in Form \cup {NoForm}
  BY DEF Inv, TypeOK
<1>2. /\ page[t] # NoForm /\ q.app \in App /\ q.answers \in Answers
      /\ q.app = page[t].app /\ q.step = page[t].step /\ q.version = page[t].version
  BY DEF Inv, TabOK, RequestOK
<1>3. page[t] \in Form /\ FormKnown(page[t])
  BY <1>1, <1>2 DEF Inv, TabOK, FormsOf
<1>4. q.version \in Nat \ {0} /\ q.step \in Steps
  BY <1>2, <1>3 DEF Form
<1> QED BY <1>1, <1>2, <1>3, <1>4 DEF FormKnown

LEMMA FormAgainKnown ==
    ASSUME Inv, NEW t \in Tab, request[t].kind = "post",
           NEW v \in Nat, request[t].version <= v, v <= version[request[t].app]
    PROVE  /\ FormAgain(request[t], v) \in Form
           /\ FormKnown(FormAgain(request[t], v))
           /\ FormAgain(request[t], v).version = v
<1> DEFINE q == request[t]
           f == FormAgain(q, v)
<1>1. f.app = q.app /\ f.step = q.step /\ f.version = v /\ f.summary = <<>>
  BY DEF FormAgain, NoSummary
<1>2. /\ q.app \in App /\ q.step \in Steps /\ q.version \in Nat \ {0}
      /\ Reachable(q.app, q.step)
  BY PostFacts
<1>3. v \in Nat \ {0}
  BY <1>2
<1>4. f \in Form
  BY <1>2, <1>3 DEF FormAgain, NoSummary, Form, Summary
<1>5. FormKnown(f)
  BY <1>1, <1>2 DEF FormKnown
<1> QED BY <1>1, <1>4, <1>5

LEMMA PostObjectedInv ==
    ASSUME Inv, NEW t \in Tab, PostObjected(t)
    PROVE  Inv'
<1> DEFINE q == request[t]
           f == FormAgain(q, version[q.app])
<1>1. /\ q.kind = "post" /\ UNCHANGED tables
      /\ seen' = [seen EXCEPT ![t] = version[q.app]]
  BY DEF PostObjected, Arrived, ReadVersion
<1>2. PICK why \in {"invalid", "blocked"} : Respond(t, FormReply(why, f))
  BY DEF PostObjected
<1>3. /\ q.app \in App /\ version[q.app] \in Nat /\ q.version <= version[q.app]
      /\ q.version \in Nat
  BY <1>1, PostFacts DEF Inv, TypeOK
<1>4. f \in Form /\ FormKnown(f)
  BY <1>1, <1>3, FormAgainKnown
<1>5. seen' \in [Tab -> Nat] /\ \A u \in Tab \ {t} : seen'[u] = seen[u]
  BY <1>1, <1>3 DEF Inv, TypeOK
<1> HIDE DEF f
<1> QED BY <1>1, <1>2, <1>4, <1>5, FormInv

LEMMA PostRepeatedInv ==
    ASSUME Inv, NEW t \in Tab, PostRepeated(t)
    PROVE  Inv'
<1> DEFINE q == request[t]
           r == Onward("repeat", q.app, NextStep(q.step))
<1>1. /\ q.kind = "post" /\ UNCHANGED tables
      /\ seen' = [seen EXCEPT ![t] = version[q.app]]
      /\ Respond(t, r)
      /\ responses[q.app][q.step] = q.answers
  BY DEF PostRepeated, Arrived, ReadVersion
<1>2. /\ q.app \in App /\ q.step \in Steps /\ Reachable(q.app, q.step)
      /\ Answered(q.app, q.step) /\ version[q.app] \in Nat
  BY <1>1, PostFacts, SentinelAssumption DEF Answered, Inv, TypeOK
<1>3. NextStep(q.step) \in Steps \cup {0}
  BY <1>2, FlowAssumption DEF NextStep, Steps
<1>4. NextStep(q.step) # 0 => Reachable(q.app, NextStep(q.step))
  BY <1>2, NextStepReachable
<1>5. /\ r \in BrowserReply /\ r.form = NoForm
      /\ r.why \notin {"ahead", "conflict"}
      /\ r.kind = "to" => r.app = q.app /\ r.step = NextStep(q.step)
                          /\ NextStep(q.step) # 0
  BY <1>2, <1>3, OnwardFacts
<1>6. seen' \in [Tab -> Nat] /\ \A u \in Tab \ {t} : seen'[u] = seen[u]
  BY <1>1, <1>2 DEF Inv, TypeOK
<1> HIDE DEF r
<1> QED BY <1>1, <1>2, <1>4, <1>5, <1>6, RespondsOnly

LEMMA PostAdmittedInv ==
    ASSUME Inv, NEW t \in Tab, PostAdmitted(t)
    PROVE  Inv'
<1> DEFINE q == request[t]
<1>1. /\ q.kind = "post" /\ phase[t] = "sent"
      /\ phase' = [phase EXCEPT ![t] = "checking"]
      /\ seen' = [seen EXCEPT ![t] = version[q.app]]
      /\ UNCHANGED <<tables, expired, cookie, page, request, reply>>
  BY DEF PostAdmitted, Arrived, ReadVersion
<1>2. /\ q.app \in App /\ q.version <= version[q.app] /\ version[q.app] \in Nat
      /\ TypeOK /\ TabOK(t)
  BY <1>1, PostFacts DEF Inv, TypeOK
<1>3. TablesOK' /\ AbsentHasNoVersion' /\ Forward
  BY <1>1, TablesKept
<1>4. TypeOK'
  BY <1>1, <1>2, <1>3 DEF TypeOK, TablesOK, Phase
<1>5. /\ phase'[t] = "checking" /\ seen'[t] = version[q.app]
      /\ \A u \in Tab \ {t} : phase'[u] = phase[u] /\ seen'[u] = seen[u]
  BY <1>1, <1>2 DEF TypeOK
<1>6. ASSUME NEW u \in Tab \ {t} PROVE TabOK(u)'
  BY <1>1, <1>3, <1>5, Others
<1>7. TabOK(t)'
  <2>1. UNCHANGED <<status, version, responses>>
    BY <1>1 DEF tables
  <2>2. \A f \in FormsOf(t)' : FormKnown(f)'
    BY <1>1, <1>2, <2>1 DEF TabOK, FormsOf, FormKnown, Reachable, Answered
  <2>3. RequestOK(t)'
    BY <1>1, <1>2 DEF TabOK, RequestOK
  <2>4. HandlerOK(t)'
    BY <1>1, <1>2, <1>5, <2>1 DEF HandlerOK
  <2>5. ReplyOK(t)'
    <3>1. reply'[t] = NoReply
      BY <1>1, <1>2 DEF TabOK, ReplyOK
    <3> QED BY <3>1 DEF ReplyOK, NoReply, PageReply
  <2> QED BY <2>2, <2>3, <2>4, <2>5 DEF TabOK
<1> QED BY <1>3, <1>4, <1>6, <1>7 DEF Inv

LEMMA PostNotSavedInv ==
    ASSUME Inv, NEW t \in Tab, PostNotSaved(t)
    PROVE  Inv'
<1> DEFINE q == request[t]
           f == FormAgain(q, seen[t])
<1>1. phase[t] = "checking" /\ UNCHANGED <<tables, seen>>
  BY DEF PostNotSaved
<1>2. q.kind = "post" /\ q.version <= seen[t] /\ seen[t] <= version[q.app]
  BY <1>1 DEF Inv, TabOK, HandlerOK
<1>3. seen[t] \in Nat /\ seen' \in [Tab -> Nat] /\ version[q.app] \in Nat
      /\ q.version \in Nat /\ \A u \in Tab : seen'[u] = seen[u]
  BY <1>1, <1>2, PostFacts DEF Inv, TypeOK
<1>4. f \in Form /\ FormKnown(f) /\ f.version = seen[t]
  BY <1>2, <1>3, FormAgainKnown
<1>5. CASE Respond(t, FormReply("unavailable", f))
  <2> HIDE DEF f
  <2> QED BY <1>1, <1>3, <1>4, <1>5, FormInv
<1>6. CASE ~VersionIsCurrent(q) /\ Respond(t, FormReply("conflict", f))
  <2> DEFINE r == FormReply("conflict", f)
  <2>1. r \in BrowserReply
    BY <1>4, RepliesTyped
  <2>2. r.form = f /\ r.kind = "form" /\ r.why = "conflict"
    BY DEF FormReply, PageReply
  <2>3. f.version > q.version \/ version[q.app] > seen'[t]
    BY <1>1, <1>2, <1>3, <1>4, <1>6 DEF VersionIsCurrent
  <2>4. Respond(t, r) /\ UNCHANGED tables
    BY <1>1, <1>6
  <2> HIDE DEF f, r
  <2> QED BY <1>2, <1>3, <1>4, <2>1, <2>2, <2>3, <2>4, RespondsOnly
<1> QED BY <1>5, <1>6 DEF PostNotSaved

LEMMA PostSavedInv ==
    ASSUME Inv, NEW t \in Tab, NEW verdicts \in Verdicts(request[t].step),
           PostSaved(t, verdicts)
    PROVE  Inv'
<1> DEFINE q == request[t]
           final == FinalStatus(q.step, verdicts)
           next == IF final = "IN_PROGRESS" THEN NextStep(q.step) ELSE 0
           r == Onward("saved", q.app, next)
<1>1. /\ phase[t] = "checking" /\ version[q.app] = q.version
      /\ responses' = [responses EXCEPT ![q.app][q.step] = q.answers]
      /\ status' = [status EXCEPT ![q.app] = final]
      /\ version' = [version EXCEPT ![q.app] = @ + 1]
      /\ Respond(t, r) /\ UNCHANGED seen
  BY DEF PostSaved, VersionIsCurrent
<1>2. q.kind = "post" /\ TypeOK
  BY <1>1 DEF Inv, TabOK, HandlerOK
<1>3. /\ q.app \in App /\ q.step \in Steps /\ Reachable(q.app, q.step)
      /\ q.answers \in Answers /\ version[q.app] \in Nat \ {0}
  BY <1>1, <1>2, PostFacts
<1>4. final \in ApplicationStatus \ {"STARTED"}
  BY DEF FinalStatus, ApplicationStatus
<1>5. TablesOK'
  BY <1>1, <1>2, <1>3, <1>4 DEF TypeOK, TablesOK
<1>6. AbsentHasNoVersion'
  <2>1. status'[q.app] = final /\ version'[q.app] = version[q.app] + 1
    BY <1>1, <1>2, <1>3 DEF TypeOK
  <2>2. final # "ABSENT" /\ version'[q.app] # 0
    BY <1>3, <1>4, <2>1 DEF ApplicationStatus
  <2>3. \A a \in App \ {q.app} : status'[a] = status[a] /\ version'[a] = version[a]
    BY <1>1, <1>2 DEF TypeOK
  <2> QED BY <2>1, <2>2, <2>3 DEF Inv, AbsentHasNoVersion
<1>7. Forward /\ Answered(q.app, q.step)'
  <2>1. /\ version'[q.app] = version[q.app] + 1
        /\ responses'[q.app][q.step] = q.answers
        /\ \A s \in Steps \ {q.step} : responses'[q.app][s] = responses[q.app][s]
        /\ \A a \in App \ {q.app} :
             version'[a] = version[a] /\ responses'[a] = responses[a]
    BY <1>1, <1>2, <1>3 DEF TypeOK
  <2>2. Answered(q.app, q.step)'
    <3>1. q.answers # NoAnswers
      BY <1>3, SentinelAssumption
    <3>2. UNCHANGED request
      BY <1>1 DEF Respond
    <3> QED BY <2>1, <3>1, <3>2 DEF Answered
  <2>3. \A a \in App : version[a] \in Nat
    BY <1>2 DEF TypeOK
  <2>4. ASSUME NEW a \in App
        PROVE  /\ version[a] <= version'[a]
               /\ version[a] = version'[a] => responses[a] = responses'[a]
    BY <1>3, <2>1, <2>3
  <2>5. ASSUME NEW a \in App, NEW s \in Steps, Answered(a, s) PROVE Answered(a, s)'
    <3>1. UNCHANGED request
      BY <1>1 DEF Respond
    <3> QED BY <2>1, <2>2, <2>5, <3>1 DEF Answered
  <2> QED BY <2>2, <2>4, <2>5 DEF Forward
<1>8. UNCHANGED request
  BY <1>1 DEF Respond
<1>9. PICK n \in Steps \cup {0} : n = next
  BY <1>3, FlowAssumption DEF NextStep, Steps
<1>10. n # 0 => Reachable(q.app, n)'
  <2>1. Reachable(q.app, q.step)'
    BY <1>3, <1>7, <1>8, ReachableStays
  <2>2. n # 0 => n = q.step + 1 /\ q.step \in Nat
    BY <1>3, <1>9, FlowAssumption DEF NextStep, Steps
  <2>3. ASSUME n # 0, NEW u \in 1 .. (n - 1)
        PROVE  responses'[q.app][u] # NoAnswers
    <3>1. u = q.step \/ u \in 1 .. (q.step - 1)
      BY <2>2, <2>3
    <3> QED BY <1>7, <1>8, <2>1, <3>1 DEF Reachable, Answered
  <2> QED BY <1>8, <2>3 DEF Reachable, Answered
<1>11. /\ r \in BrowserReply /\ r.form = NoForm
       /\ r.why \notin {"ahead", "conflict"}
       /\ r.kind = "to" => r.app = q.app /\ r.step = n /\ n # 0
  BY <1>3, <1>9, OnwardFacts
<1>12. seen' \in [Tab -> Nat] /\ \A u \in Tab \ {t} : seen'[u] = seen[u]
  BY <1>1, <1>2 DEF TypeOK
<1>13. PICK sent \in BrowserReply : sent = r
  BY <1>11
<1>14. sent.kind = "to" => sent.app \in App /\ Reachable(sent.app, sent.step)'
  BY <1>3, <1>8, <1>10, <1>11, <1>13
<1> QED BY <1>1, <1>5, <1>6, <1>7, <1>11, <1>12, <1>13, <1>14, Responds

LEMMA ServeStartInv ==
    ASSUME Inv, NEW t \in Tab, ServeStart(t)
    PROVE  Inv'
<1>1. TypeOK /\ request[t].kind = "start" /\ UNCHANGED seen
  BY DEF Inv, ServeStart, Arrived
<1>2. ASSUME NEW a \in App, ~Started(a),
             status' = [status EXCEPT ![a] = "STARTED"],
             version' = [version EXCEPT ![a] = 1],
             Respond(t, Redirect("started", a, 1, "set")),
             UNCHANGED responses
      PROVE  Inv'
  <2> DEFINE r == Redirect("started", a, 1, "set")
  <2>1. version[a] = 0
    BY <1>2 DEF Started, Inv, AbsentHasNoVersion
  <2>2. TablesOK'
    BY <1>1, <1>2 DEF TypeOK, TablesOK, ApplicationStatus
  <2>3. /\ status'[a] = "STARTED" /\ version'[a] = 1
        /\ \A b \in App \ {a} : status'[b] = status[b] /\ version'[b] = version[b]
    BY <1>1, <1>2 DEF TypeOK
  <2>4. AbsentHasNoVersion'
    BY <2>3 DEF Inv, AbsentHasNoVersion
  <2>5. Forward
    <3>1. \A b \in App : version[b] <= version'[b]
      BY <1>1, <2>1, <2>3 DEF TypeOK
    <3> QED BY <1>2, <3>1 DEF Forward, Answered
  <2>6. r \in BrowserReply
    BY RepliesTyped, StepOne DEF CookieEffect
  <2>7. r.form = NoForm /\ r.why = "started" /\ r.app = a /\ r.step = 1
    BY DEF Redirect, PageReply
  <2>8. Reachable(a, 1)'
    BY DEF Reachable
  <2>9. seen' \in [Tab -> Nat] /\ \A u \in Tab \ {t} : seen'[u] = seen[u]
    BY <1>1 DEF TypeOK
  <2>10. Respond(t, r)
    BY <1>2
  <2> HIDE DEF r
  <2> QED BY <2>2, <2>4, <2>5, <2>6, <2>7, <2>8, <2>9, <2>10, Responds
<1>3. CASE Respond(t, PageReply("unsupported", "keep")) /\ UNCHANGED tables
  BY <1>1, <1>3, PageInv DEF CookieEffect
<1> QED BY <1>2, <1>3 DEF ServeStart

-----------------------------------------------------------------------------
(* Together.                                                               *)

LEMMA InvInit == Init => Inv
<1> SUFFICES ASSUME Init PROVE Inv
  OBVIOUS
<1>1. TypeOK
  BY StepOne, NoRequestTyped, RepliesTyped DEF Init, TypeOK, Phase
<1>2. AbsentHasNoVersion
  BY DEF Init, AbsentHasNoVersion
<1>3. ASSUME NEW t \in Tab PROVE TabOK(t)
  <2>1. /\ phase[t] = "browsing" /\ page[t] = NoForm
        /\ reply[t] = NoReply /\ request[t] = NoRequest
    BY DEF Init
  <2>2. /\ NoReply.form = NoForm /\ NoReply.kind = "none" /\ NoReply.why = "none"
        /\ NoRequest.kind = "none"
    BY DEF NoReply, PageReply, NoRequest, Click
  <2> QED BY <2>1, <2>2 DEF TabOK, FormsOf, RequestOK, HandlerOK, ReplyOK
<1> QED BY <1>1, <1>2, <1>3 DEF Inv

LEMMA InvNext == Inv /\ [Next]_vars => Inv'
<1> SUFFICES ASSUME Inv, [Next]_vars PROVE Inv'
  OBVIOUS
<1>1. CASE LoseCookie \/ \E a \in App : Expire(a)
  BY <1>1, CookieInv
<1>2. ASSUME NEW t \in Tab, Browse(t) PROVE Inv'
  BY <1>2, BrowseInv
<1>3. ASSUME NEW t \in Tab, Serve(t) PROVE Inv'
  <2>1. CASE ServePost(t)
    BY <2>1, PostObjectedInv, PostRepeatedInv, PostAdmittedInv, PostNotSavedInv,
       PostSavedInv DEF ServePost
  <2> QED BY <1>3, <2>1, ServeStartInv, ServeResumeInv, RefuseInv, ServeStepInv,
            ServeErrorInv DEF Serve
<1>4. ASSUME NEW t \in Tab, Receive(t) \/ Lost(t) PROVE Inv'
  BY <1>4, ReceiveInv, LostInv
<1>5. CASE UNCHANGED vars
  <2>1. UNCHANGED <<tables, expired, cookie, page, exchange>>
    BY <1>5 DEF vars
  <2>2. TablesOK' /\ AbsentHasNoVersion' /\ Forward
    BY <2>1, TablesKept
  <2>3. TypeOK'
    BY <2>1, <2>2 DEF Inv, TypeOK, TablesOK, exchange
  <2>4. ASSUME NEW u \in Tab PROVE TabOK(u)'
    BY <2>1, <2>2, Others DEF exchange
  <2> QED BY <2>2, <2>3, <2>4 DEF Inv
<1> QED BY <1>1, <1>2, <1>3, <1>4, <1>5 DEF Next

LEMMA Invariance == Spec => []Inv
  BY InvInit, InvNext, PTL DEF Spec

(* Tabs, requests and tables keep their types.                             *)
THEOREM TypeCorrect == Spec => []TypeOK
<1>1. Inv => TypeOK
  BY DEF Inv
<1> QED BY <1>1, Invariance, PTL

(* A form that was ever rendered can be submitted: the guard of the GET    *)
(* route admits no page whose POST the guard of the service would refuse,  *)
(* then or later.                                                          *)
THEOREM ShownFormsAreReachable == Spec => []ShownFormIsReachable
<1>1. Inv => ShownFormIsReachable
  BY DEF Inv, TabOK, FormKnown, ShownFormIsReachable
<1> QED BY <1>1, Invariance, PTL

(* Start, resume and every step redirect to a page that is rendered.       *)
THEOREM RedirectsAreNeverAhead == Spec => []RedirectIsNeverAhead
<1>1. Inv => RedirectIsNeverAhead
  BY DEF Inv, TabOK, ReplyOK, RedirectIsNeverAhead
<1> QED BY <1>1, Invariance, PTL

(* The form that comes with a conflict is newer than the one refused, or   *)
(* the application has moved on during the checks.                         *)
THEOREM ConflictPagesHelp == Spec => []ConflictPageHelps
<1>1. Inv => ConflictPageHelps
  BY DEF Inv, TabOK, ReplyOK, ConflictPageHelps
<1> QED BY <1>1, Invariance, PTL

(* A review page with a summary is saved only while the summary is true.   *)
THEOREM ReviewsAreTrue == Spec => SavedAsReviewed
<1>1. ASSUME Inv, NEW t \in Tab, NEW verdicts \in Verdicts(request[t].step),
             PostSaved(t, verdicts), NEW s \in DOMAIN page[t].summary
      PROVE  responses[page[t].app][s] = page[t].summary[s]
  <2>1. phase[t] = "checking" /\ version[request[t].app] = request[t].version
    BY <1>1 DEF PostSaved, VersionIsCurrent
  <2>2. request[t].kind = "post" /\ request[t].app = page[t].app
    BY <1>1, <2>1 DEF Inv, TabOK, HandlerOK, RequestOK
  <2> QED BY <1>1, <2>1, <2>2, PostFacts
<1>2. Inv /\ [Next]_vars =>
        [\A t \in Tab : \A verdicts \in Verdicts(request[t].step) :
            PostSaved(t, verdicts) =>
                \A s \in DOMAIN page[t].summary :
                    responses[page[t].app][s] = page[t].summary[s]]_vars
  BY <1>1
<1> QED BY <1>2, Invariance, PTL DEF Spec, SavedAsReviewed

-----------------------------------------------------------------------------
(***************************************************************************)
(* The token.  A response deletes the cookie only when the application of  *)
(* the request's own cookie is past use, and what is past use stays so     *)
(* (Lasting).  The decision page deletes it, too: a last step is answered  *)
(* only in an application that is closed (FinishedIsClosed), so the page   *)
(* is never shown for a repeated step of an open one.                      *)
(***************************************************************************)
TokenOK(t) ==
    /\ request[t].cookie # NoApp => Started(request[t].cookie)
    /\ phase[t] = "checking" =>
         /\ request[t].cookie = request[t].app
         /\ seen[t] = version[request[t].app] =>
              IsCustomerSubmittable(status[request[t].app])
    /\ reply[t].effect = "set" => reply[t].app \in App /\ Started(reply[t].app)
    /\ reply[t].effect = "delete" => ~Usable(request[t].cookie)

FinishedIsClosed ==
    \A a \in App : Answered(a, NumSteps) => IsClosed(status[a])

TokenInv ==
    /\ cookie # NoApp => Started(cookie)
    /\ FinishedIsClosed
    /\ \A t \in Tab : TokenOK(t)

Lasting ==
    \A a \in App :
        /\ Started(a) => Started(a)'
        /\ Started(a) /\ ~Usable(a) => ~Usable(a)'
        /\ version[a] <= version'[a]
        /\ version'[a] = version[a] => status'[a] = status[a]

LEMMA QuietLasts ==
    ASSUME Inv, TokenInv, UNCHANGED tables, \A a \in App : expired[a] => expired'[a]
    PROVE  Lasting /\ FinishedIsClosed'
<1>1. UNCHANGED <<status, version, responses>>
  BY DEF tables
<1>2. \A a \in App : version[a] <= version'[a]
  BY <1>1 DEF Inv, TypeOK
<1> QED BY <1>1, <1>2 DEF Lasting, TokenInv, FinishedIsClosed, Started, Usable, Answered

LEMMA TokenStays ==
    ASSUME Inv, Inv', Lasting, NEW t \in Tab, TokenOK(t),
           phase'[t] = phase[t], request'[t] = request[t],
           seen'[t] = seen[t], reply'[t] = reply[t]
    PROVE  TokenOK(t)'
<1>1. /\ request[t] \in BrowserRequest /\ seen[t] \in Nat
      /\ request[t].cookie \in App \cup {NoApp}
      /\ \A a \in App : version[a] \in Nat /\ version'[a] \in Nat
  BY DEF Inv, TypeOK, BrowserRequest
<1>2. request[t].cookie # NoApp => Started(request[t].cookie)'
  BY <1>1 DEF TokenOK, Lasting
<1>3. ASSUME phase[t] = "checking", seen[t] = version'[request[t].app]
      PROVE  IsCustomerSubmittable(status'[request[t].app])
  <2>1. request[t].app \in App /\ seen[t] <= version[request[t].app]
    BY <1>3 DEF Inv, TabOK, HandlerOK, RequestOK
  <2>2. version'[request[t].app] = version[request[t].app]
    BY <1>1, <1>3, <2>1 DEF Lasting
  <2> QED BY <1>3, <2>1, <2>2 DEF TokenOK, Lasting
<1>4. reply[t].effect = "set" => reply[t].app \in App /\ Started(reply[t].app)'
  BY DEF TokenOK, Lasting
<1>5. reply[t].effect = "delete" => ~Usable(request[t].cookie)'
  <2>1. CASE request[t].cookie = NoApp
    BY <2>1 DEF Usable
  <2>2. CASE request[t].cookie # NoApp
    BY <1>1, <2>2 DEF TokenOK, Lasting
  <2> QED BY <2>1, <2>2
<1>6. phase[t] = "checking" => request[t].cookie = request[t].app
  BY DEF TokenOK
<1> QED BY <1>2, <1>3, <1>4, <1>5, <1>6 DEF TokenOK, Started, Usable

LEMMA CookieStays ==
    ASSUME Inv, TokenInv, Lasting, UNCHANGED cookie
    PROVE  cookie' # NoApp => Started(cookie)'
  BY DEF Inv, TypeOK, TokenInv, Lasting

LEMMA TokenResponds ==
    ASSUME Inv, Inv', TokenInv, Lasting, FinishedIsClosed',
           NEW t \in Tab, NEW r, Respond(t, r), \A u \in Tab \ {t} : seen'[u] = seen[u],
           r.effect = "set" => r.app \in App /\ Started(r.app)',
           r.effect = "delete" => ~Usable(request[t].cookie)'
    PROVE  TokenInv'
<1>1. /\ phase'[t] = "replied" /\ reply'[t] = r /\ UNCHANGED <<request, cookie>>
      /\ \A u \in Tab \ {t} : phase'[u] = phase[u] /\ reply'[u] = reply[u]
  BY DEF Respond, Inv, TypeOK
<1>2. ASSUME NEW u \in Tab \ {t} PROVE TokenOK(u)'
  BY <1>1, <1>2, TokenStays DEF TokenInv
<1>3. request[t].cookie # NoApp => Started(request[t].cookie)'
  <2>1. request[t].cookie \in App \cup {NoApp}
    BY DEF Inv, TypeOK, BrowserRequest
  <2> QED BY <1>1, <2>1 DEF TokenInv, TokenOK, Lasting, Started
<1>4. TokenOK(t)'
  BY <1>1, <1>3 DEF TokenOK, Started, Usable
<1>5. cookie' # NoApp => Started(cookie)'
  BY <1>1, CookieStays
<1> QED BY <1>2, <1>4, <1>5 DEF TokenInv

(* Responses that leave the tables alone and set no cookie.                *)
LEMMA TokenResponseOnly ==
    ASSUME Inv, Inv', TokenInv, UNCHANGED tables,
           NEW t \in Tab, NEW r, Respond(t, r), \A u \in Tab \ {t} : seen'[u] = seen[u],
           r.effect # "set", r.effect = "delete" => ~Usable(request[t].cookie)
    PROVE  TokenInv'
<1>1. UNCHANGED <<status, version, responses, expired, request>>
  BY DEF tables, Respond
<1>2. Lasting /\ FinishedIsClosed'
  BY <1>1, QuietLasts
<1>3. r.effect = "delete" => ~Usable(request[t].cookie)'
  BY <1>1 DEF Usable
<1> QED BY <1>2, <1>3, TokenResponds

LEMMA Effects ==
    /\ \A why, effect : PageReply(why, effect).effect = effect
    /\ \A why, f : FormReply(why, f).effect = "keep"
    /\ \A why, a, s, effect : /\ Redirect(why, a, s, effect).effect = effect
                              /\ Redirect(why, a, s, effect).app = a
    /\ \A why, a, next : Onward(why, a, next).effect =
                            IF next = 0 THEN "delete" ELSE "keep"
<1>1. /\ \A why, effect : PageReply(why, effect).effect = effect
      /\ \A why, a, s, effect : /\ Redirect(why, a, s, effect).effect = effect
                                /\ Redirect(why, a, s, effect).app = a
  BY DEF PageReply, Redirect
<1>2. \A why, f : FormReply(why, f).effect = "keep"
  BY DEF PageReply, FormReply
<1> QED BY <1>1, <1>2 DEF Onward

LEMMA ServeToken ==
    ASSUME Inv, Inv', TokenInv, NEW t \in Tab,
           \/ ServeResume(t) \/ Refuse(t) \/ ServeStep(t) \/ PostObjected(t)
           \/ PostNotSaved(t) \/ ServeError(t)
    PROVE  TokenInv'
<1>1. UNCHANGED tables /\ \A u \in Tab \ {t} : seen'[u] = seen[u]
  BY DEF ServeResume, Refuse, ServeStep, PostObjected, PostNotSaved, ServeError,
         ReadVersion, Inv, TypeOK
<1>2. CASE ServeResume(t)
  <2>1. ~Resumable(request[t].cookie) => ~Usable(request[t].cookie)
    BY DEF Resumable, Usable
  <2>2. \E r : Respond(t, r) /\ r.effect # "set"
               /\ (r.effect = "delete" => ~Usable(request[t].cookie))
    BY <1>2, <2>1, Effects DEF ServeResume
  <2> QED BY <1>1, <2>2, TokenResponseOnly
<1>3. CASE ~ServeResume(t)
  <2>1. \E why, f : Respond(t, PageReply(why, "keep")) \/ Respond(t, FormReply(why, f))
    BY <1>3 DEF Refuse, ClosedPage, ServeStep, PostObjected, PostNotSaved, ServeError
  <2>2. \E r : Respond(t, r) /\ r.effect = "keep"
    BY <2>1, Effects
  <2> QED BY <1>1, <2>2, TokenResponseOnly
<1> QED BY <1>2, <1>3

LEMMA PostRepeatedToken ==
    ASSUME Inv, Inv', TokenInv, NEW t \in Tab, PostRepeated(t)
    PROVE  TokenInv'
<1> DEFINE q == request[t]
           r == Onward("repeat", q.app, NextStep(q.step))
<1>1. /\ q.kind = "post" /\ UNCHANGED tables /\ Respond(t, r)
      /\ responses[q.app][q.step] = q.answers
      /\ IsCustomerSubmittable(status[q.app])
      /\ \A u \in Tab \ {t} : seen'[u] = seen[u]
  BY DEF PostRepeated, Arrived, ReadVersion, Admitted, Inv, TypeOK
<1>2. q.app \in App /\ q.step \in Steps /\ Answered(q.app, q.step)
  BY <1>1, PostFacts, SentinelAssumption DEF Answered
<1>3. q.step # NumSteps
  BY <1>1, <1>2 DEF TokenInv, FinishedIsClosed, IsClosed, IsCustomerSubmittable,
                    CUSTOMER_SUBMITTABLE_STATUSES
<1>4. NextStep(q.step) # 0
  BY <1>2, <1>3, FlowAssumption DEF NextStep, Steps
<1>5. r.effect = "keep"
  BY <1>4, Effects
<1> HIDE DEF r
<1> QED BY <1>1, <1>5, TokenResponseOnly

LEMMA PostAdmittedToken ==
    ASSUME Inv, Inv', TokenInv, NEW t \in Tab, PostAdmitted(t)
    PROVE  TokenInv'
<1>1. /\ request[t].cookie = request[t].app
      /\ IsCustomerSubmittable(status[request[t].app])
      /\ UNCHANGED <<tables, expired, cookie, page, request, reply>>
      /\ phase[t] = "sent"
      /\ \A u \in Tab \ {t} : phase'[u] = phase[u] /\ seen'[u] = seen[u]
  BY DEF PostAdmitted, Arrived, ReadVersion, Admitted, HoldsToken, Inv, TypeOK
<1>2. Lasting /\ FinishedIsClosed'
  BY <1>1, QuietLasts
<1>3. ASSUME NEW u \in Tab \ {t} PROVE TokenOK(u)'
  BY <1>1, <1>2, <1>3, TokenStays DEF TokenInv
<1>4. TokenOK(t)'
  BY <1>1 DEF TokenInv, TokenOK, tables, Started, Usable
<1>5. cookie' # NoApp => Started(cookie)'
  BY <1>1, <1>2, CookieStays
<1> QED BY <1>2, <1>3, <1>4, <1>5 DEF TokenInv

LEMMA ServeStartToken ==
    ASSUME Inv, Inv', TokenInv, NEW t \in Tab, ServeStart(t)
    PROVE  TokenInv'
<1>1. ASSUME NEW a \in App, ~Started(a),
             status' = [status EXCEPT ![a] = "STARTED"],
             version' = [version EXCEPT ![a] = 1],
             Respond(t, Redirect("started", a, 1, "set")),
             UNCHANGED <<responses, seen>>
      PROVE  TokenInv'
  <2>1. /\ status[a] = "ABSENT" /\ version[a] = 0
        /\ status'[a] = "STARTED" /\ version'[a] = 1
        /\ \A b \in App \ {a} : status'[b] = status[b] /\ version'[b] = version[b]
        /\ \A b \in App : version[b] \in Nat
        /\ UNCHANGED expired
    BY <1>1 DEF Started, Inv, AbsentHasNoVersion, TypeOK, Respond
  <2>2. Lasting
    <3>1. \A b \in App : version[b] <= version'[b]
      BY <2>1
    <3> QED BY <2>1, <3>1 DEF Lasting, Started, Usable
  <2>3. ~Answered(a, NumSteps)
    BY <2>1 DEF TokenInv, FinishedIsClosed, IsClosed, ApplicationStatus
  <2>4. FinishedIsClosed'
    BY <1>1, <2>1, <2>3 DEF TokenInv, FinishedIsClosed, Answered
  <2>5. Started(a)'
    BY <2>1 DEF Started
  <2> QED BY <1>1, <2>2, <2>4, <2>5, Effects, TokenResponds
<1>2. CASE Respond(t, PageReply("unsupported", "keep")) /\ UNCHANGED <<tables, seen>>
  BY <1>2, Effects, TokenResponseOnly
<1> QED BY <1>1, <1>2 DEF ServeStart

LEMMA PostSavedToken ==
    ASSUME Inv, Inv', TokenInv, NEW t \in Tab,
           NEW verdicts \in Verdicts(request[t].step), PostSaved(t, verdicts)
    PROVE  TokenInv'
<1>1. phase[t] = "checking" /\ VersionIsCurrent(request[t])
  BY DEF PostSaved
<1>2. request[t].kind = "post" /\ request[t].version <= seen[t]
      /\ seen[t] <= version[request[t].app]
  BY <1>1 DEF Inv, TabOK, HandlerOK
<1>3. /\ request[t].app \in App /\ request[t].step \in Steps
      /\ version[request[t].app] \in Nat /\ request[t].version \in Nat
      /\ seen[t] \in Nat /\ request[t].answers \in Answers
  BY <1>2, PostFacts DEF Inv, TypeOK
<1>4. seen[t] = version[request[t].app]
  BY <1>1, <1>2, <1>3 DEF VersionIsCurrent
<1> PICK a \in App, s \in Steps, final \in ApplicationStatus :
      a = request[t].app /\ s = request[t].step /\ final = FinalStatus(s, verdicts)
  BY <1>3 DEF FinalStatus, ApplicationStatus
<1>5. IsCustomerSubmittable(status[a]) /\ request[t].cookie = a
  BY <1>1, <1>4 DEF TokenInv, TokenOK
<1>0. NextStep(s) \in Steps \cup {0}
  BY FlowAssumption DEF NextStep, Steps
<1> PICK next \in Steps \cup {0} : next = IF final = "IN_PROGRESS" THEN NextStep(s) ELSE 0
  BY <1>0
<1>6. next = 0 \/ s = NumSteps => final \in {"APPROVED", "MANUAL_REVIEW", "REJECTED"}
  BY FlowAssumption DEF FinalStatus, NextStep, Steps
<1> DEFINE r == Onward("saved", a, next)
<1>7. /\ responses' = [responses EXCEPT ![a][s] = request[t].answers]
      /\ status' = [status EXCEPT ![a] = final]
      /\ version' = [version EXCEPT ![a] = @ + 1]
      /\ Respond(t, r) /\ UNCHANGED <<seen, expired, request>>
  BY DEF PostSaved, Respond
<1>8. /\ status'[a] = final /\ version'[a] = version[a] + 1 /\ version[a] \in Nat
      /\ \A b \in App \ {a} : /\ status'[b] = status[b] /\ version'[b] = version[b]
                              /\ responses'[b] = responses[b]
      /\ \A u \in Steps \ {s} : responses'[a][u] = responses[a][u]
      /\ \A b \in App : version[b] \in Nat
  BY <1>7 DEF Inv, TypeOK
<1>9. Lasting
  <2>1. \A b \in App : version[b] <= version'[b]
    BY <1>8
  <2>2. Started(a)'
    BY <1>8 DEF Started, ApplicationStatus
  <2>3. Usable(a)' => Usable(a)
    BY <1>5, <1>7 DEF Usable
  <2>4. version'[a] # version[a]
    BY <1>8
  <2>5. ASSUME NEW b \in App \ {a} PROVE (Usable(b)' <=> Usable(b)) /\ (Started(b)' <=> Started(b))
    BY <1>7, <1>8 DEF Usable, Started
  <2> QED BY <1>8, <2>1, <2>2, <2>3, <2>4, <2>5 DEF Lasting
<1>10. FinishedIsClosed'
  <2>1. ~Answered(a, NumSteps)
    BY <1>5 DEF TokenInv, FinishedIsClosed, IsClosed, IsCustomerSubmittable,
                CUSTOMER_SUBMITTABLE_STATUSES
  <2>2. Answered(a, NumSteps)' => s = NumSteps
    BY <1>8, <2>1, FlowAssumption DEF Answered, Steps
  <2>3. Answered(a, NumSteps)' => IsClosed(status'[a])
    BY <1>6, <1>8, <2>2 DEF IsClosed, ApplicationStatus
  <2> QED BY <1>8, <2>3 DEF TokenInv, FinishedIsClosed, Answered
<1>11. r.effect = "delete" => ~Usable(request[t].cookie)'
  <2>1. r.effect = "delete" => next = 0
    BY Effects
  <2>2. next = 0 => ~IsCustomerSubmittable(status'[a])
    BY <1>6, <1>8 DEF IsCustomerSubmittable, CUSTOMER_SUBMITTABLE_STATUSES
  <2>3. request'[t].cookie = a
    BY <1>5, <1>7
  <2> HIDE DEF r
  <2> QED BY <2>1, <2>2, <2>3 DEF Usable
<1>12. r.effect # "set"
  BY Effects
<1>13. Respond(t, r) /\ \A u \in Tab \ {t} : seen'[u] = seen[u]
  BY <1>7
<1> HIDE DEF r
<1> QED BY <1>9, <1>10, <1>11, <1>12, <1>13, TokenResponds

(* A request leaves with the cookie of the moment.                         *)
LEMMA BrowserToken ==
    ASSUME Inv, Inv', TokenInv, NEW t \in Tab, Browse(t) \/ Receive(t) \/ Lost(t)
    PROVE  TokenInv'
<1>1. /\ UNCHANGED <<tables, expired>>
      /\ \A u \in Tab \ {t} : /\ phase'[u] = phase[u] /\ request'[u] = request[u]
                              /\ seen'[u] = seen[u] /\ reply'[u] = reply[u]
      /\ phase'[t] # "checking"
  <2>1. /\ phase \in [Tab -> Phase] /\ request \in [Tab -> BrowserRequest]
        /\ seen \in [Tab -> Nat] /\ reply \in [Tab -> BrowserReply]
    BY DEF Inv, TypeOK
  <2>2. CASE Browse(t)
    BY <2>1, <2>2 DEF Browse, ClickStart, ClickResume, Visit, Submit, Send
  <2>3. CASE Receive(t)
    BY <2>1, <2>3 DEF Receive, Send
  <2>4. CASE Lost(t)
    BY <2>1, <2>4 DEF Lost
  <2> QED BY <2>2, <2>3, <2>4
<1>2. Lasting /\ FinishedIsClosed'
  BY <1>1, QuietLasts
<1>3. ASSUME NEW u \in Tab \ {t} PROVE TokenOK(u)'
  BY <1>1, <1>2, <1>3, TokenStays DEF TokenInv
<1>4. UNCHANGED status
  BY <1>1 DEF tables
<1>5. CookieAfter(reply[t]) # NoApp => Started(CookieAfter(reply[t]))
  <2>1. reply[t].effect \in CookieEffect
    BY DEF Inv, TypeOK, BrowserReply
  <2>2. reply[t].effect = "set" => Started(reply[t].app)
    BY DEF TokenInv, TokenOK
  <2> QED BY <2>1, <2>2 DEF CookieAfter, CookieEffect, TokenInv
<1>6. cookie' # NoApp => Started(cookie)'
  <2>1. cookie' = cookie \/ cookie' = CookieAfter(reply[t])
    BY DEF Browse, ClickStart, ClickResume, Visit, Submit, Send, Receive, Lost
  <2>2. cookie' # NoApp => Started(cookie')
    BY <1>5, <2>1 DEF TokenInv
  <2> QED BY <1>4, <2>2 DEF Started
<1>7. NoReply.effect = "keep" /\ NoRequest.cookie = NoApp
      /\ \A kind, a, s, c : Click(kind, a, s, c).cookie = c
  BY DEF NoReply, PageReply, NoRequest, Click
<1>8. reply'[t].effect = "keep"
  <2>1. CASE Browse(t)
    <3>1. phase[t] = "browsing" /\ reply' = reply
      BY <2>1 DEF Browse, ClickStart, ClickResume, Visit, Submit, Send
    <3>2. reply[t] = NoReply
      BY <3>1 DEF Inv, TabOK, ReplyOK
    <3> QED BY <1>7, <3>1, <3>2
  <2>2. CASE Receive(t) \/ Lost(t)
    BY <1>7, <2>2 DEF Receive, Lost, Inv, TypeOK
  <2> QED BY <2>1, <2>2
<1>9. request'[t].cookie \in {cookie, CookieAfter(reply[t]), NoApp}
  <2>1. CASE Browse(t)
    <3>1. \E q : Send(t, q) /\ q.cookie = cookie
      <4>1. CASE ClickStart(t) \/ ClickResume(t)
        BY <1>7, <4>1 DEF ClickStart, ClickResume
      <4>2. CASE \E a \in App, s \in Steps : Visit(t, a, s)
        BY <1>7, <4>2 DEF Visit
      <4>3. CASE \E answers \in Answers : Submit(t, answers)
        <5> PICK answers \in Answers : Submit(t, answers)
          BY <4>3
        <5> DEFINE f == page[t]
                   click == Click("post", f.app, f.step, cookie)
                   q == [click EXCEPT !.version = f.version, !.answers = answers]
        <5>1. q.cookie = click.cookie
          BY DEF Click
        <5>2. Send(t, q)
          BY DEF Submit
        <5>3. click.cookie = cookie
          BY <1>7
        <5> HIDE DEF q, click
        <5> QED BY <5>1, <5>2, <5>3
      <4> QED BY <2>1, <4>1, <4>2, <4>3 DEF Browse
    <3>2. \E q : q.cookie = cookie /\ request' = [request EXCEPT ![t] = q]
      BY <3>1 DEF Send
    <3> QED BY <3>2 DEF Inv, TypeOK
  <2>2. CASE Receive(t) \/ Lost(t)
    BY <1>7, <2>2 DEF Receive, Lost, Inv, TypeOK
  <2> QED BY <2>1, <2>2
<1>10. request'[t].cookie # NoApp => Started(request'[t].cookie)
  BY <1>5, <1>9 DEF TokenInv
<1>11. TokenOK(t)'
  BY <1>1, <1>4, <1>8, <1>10 DEF TokenOK, Started
<1> QED BY <1>2, <1>3, <1>6, <1>11 DEF TokenInv

LEMMA TokenInit == Init => TokenInv
<1> SUFFICES ASSUME Init PROVE TokenInv
  OBVIOUS
<1>1. NumSteps \in Steps
  BY FlowAssumption DEF Steps
<1>2. NoReply.effect = "keep" /\ NoRequest.cookie = NoApp
  BY DEF NoReply, PageReply, NoRequest, Click
<1> QED BY <1>1, <1>2 DEF Init, TokenInv, FinishedIsClosed, Answered, TokenOK

LEMMA TokenNext == Inv /\ TokenInv /\ [Next]_vars => TokenInv'
<1> SUFFICES ASSUME Inv, TokenInv, [Next]_vars PROVE TokenInv'
  OBVIOUS
<1>1. Inv'
  BY InvNext
<1>2. ASSUME UNCHANGED <<tables, exchange>>, cookie' \in {cookie, NoApp},
             \A a \in App : expired[a] => expired'[a]
      PROVE  TokenInv'
  <2>1. Lasting /\ FinishedIsClosed'
    BY <1>2, QuietLasts
  <2>2. ASSUME NEW t \in Tab PROVE TokenOK(t)'
    BY <1>1, <1>2, <2>1, <2>2, TokenStays DEF TokenInv, exchange
  <2>3. cookie' # NoApp => Started(cookie)'
    BY <1>2, <2>1, CookieStays
  <2> QED BY <2>1, <2>2, <2>3 DEF TokenInv
<1>3. CASE LoseCookie \/ (\E a \in App : Expire(a)) \/ UNCHANGED vars
  BY <1>2, <1>3 DEF LoseCookie, Expire, vars, Inv, TypeOK
<1>4. ASSUME NEW t \in Tab, Browse(t) \/ Receive(t) \/ Lost(t) PROVE TokenInv'
  BY <1>1, <1>4, BrowserToken
<1>5. ASSUME NEW t \in Tab, Serve(t) PROVE TokenInv'
  BY <1>1, <1>5, ServeToken, ServeStartToken, PostRepeatedToken, PostAdmittedToken,
     PostSavedToken DEF Serve, ServePost
<1> QED BY <1>3, <1>4, <1>5 DEF Next

(* A response takes the token of an open application only from a browser   *)
(* that has got this token after it sent the request: nobody loses the way *)
(* back to an application he may still submit, but for that race.          *)
THEOREM OnlyTheRaceLosesASession == Spec => SessionLostOnlyToRace
<1>1. ASSUME Inv, TokenInv, NEW t \in Tab, Receive(t), cookie' = NoApp, Usable(cookie)
      PROVE  request[t].cookie # cookie
  <2>1. cookie' = CookieAfter(reply[t]) /\ reply[t].effect \in CookieEffect /\ cookie # NoApp
    BY <1>1 DEF Receive, Inv, TypeOK, BrowserReply, Usable
  <2>2. reply[t].effect = "set" => reply[t].app # NoApp
    BY <1>1, SessionAssumption DEF TokenInv, TokenOK
  <2>3. reply[t].effect = "delete"
    BY <1>1, <2>1, <2>2 DEF CookieAfter, CookieEffect
  <2> QED BY <1>1, <2>3 DEF TokenInv, TokenOK
<1>2. Inv /\ TokenInv /\ [Next]_vars =>
        [\A t \in Tab : Receive(t) /\ cookie' = NoApp /\ Usable(cookie) =>
            request[t].cookie # cookie]_vars
  BY <1>1
<1> QED BY <1>2, TokenInit, TokenNext, Invariance, PTL DEF Spec, SessionLostOnlyToRace

-----------------------------------------------------------------------------
(***************************************************************************)
(* The ledger.  Here a handler looks once and saves later, from a form of  *)
(* any age; that what it saw still holds when the version is the one of    *)
(* the form is, once more, because every change moves the version.         *)
(***************************************************************************)

(* A submission is made from a page short of the bound.                    *)
SentInTime(t) == request[t].kind = "post" => request[t].version < MaxVersion

(* While its version is the current one, a submission that is checked      *)
(* changes the answers.                                                    *)
StillDiffers(t) ==
    LET q == request[t] IN
    phase[t] = "checking" /\ q.version = version[q.app] =>
        responses[q.app][q.step] # q.answers

PostInv == \A t \in Tab : SentInTime(t) /\ StillDiffers(t)

(* Whatever happens, this is what becomes of a tab's request.              *)
LEMMA RequestSteps ==
    ASSUME Inv, [Next]_vars, NEW t \in Tab
    PROVE  \/ request'[t] = request[t] /\ phase'[t] \in {phase[t], "replied"}
           \/ PostAdmitted(t)
           \/ request'[t].kind # "post" /\ phase'[t] # "checking"
           \/ phase'[t] = "sent" /\ \E answers \in Answers : Submit(t, answers)
<1> DEFINE Same == request'[t] = request[t] /\ phase'[t] \in {phase[t], "replied"}
           Other == request'[t].kind # "post" /\ phase'[t] # "checking"
<1>0. phase \in [Tab -> Phase] /\ request \in [Tab -> BrowserRequest]
  BY DEF Inv, TypeOK
<1>1. ASSUME NEW u \in Tab, NEW r, Respond(u, r) PROVE Same
  BY <1>0, <1>1 DEF Respond
<1>2. ASSUME NEW u \in Tab, NEW q, Send(u, q)
      PROVE  Same \/ (u = t /\ request'[t] = q /\ phase'[t] = "sent")
  <2>1. /\ phase' = [phase EXCEPT ![u] = "sent"]
        /\ request' = [request EXCEPT ![u] = q]
    BY <1>2 DEF Send
  <2>2. CASE u = t
    BY <1>0, <2>1, <2>2
  <2>3. CASE u # t
    BY <1>0, <2>1, <2>3
  <2> QED BY <2>2, <2>3
<1>3. ASSUME NEW u \in Tab, Browse(u)
      PROVE  \/ Same \/ Other
             \/ phase'[t] = "sent" /\ \E answers \in Answers : Submit(t, answers)
  <2>1. ASSUME NEW kind \in {"start", "resume", "visit"}, NEW a, NEW s,
               Send(u, Click(kind, a, s, cookie))
        PROVE  Same \/ Other
    <3>1. Click(kind, a, s, cookie).kind # "post"
      BY DEF Click
    <3> QED BY <1>2, <2>1, <3>1
  <2>2. ASSUME NEW answers \in Answers, Submit(u, answers)
        PROVE  \/ Same
               \/ phase'[t] = "sent" /\ \E p \in Answers : Submit(t, p)
    <3>1. \E q : Send(u, q)
      BY <2>2 DEF Submit
    <3>2. Same \/ (u = t /\ phase'[t] = "sent")
      BY <1>2, <3>1
    <3> QED BY <2>2, <3>2
  <2> HIDE DEF Same, Other
  <2> QED BY <1>3, <2>1, <2>2 DEF Browse, ClickStart, ClickResume, Visit
<1>4. ASSUME NEW u \in Tab, Serve(u) PROVE Same \/ PostAdmitted(t)
  <2>1. CASE \E r : Respond(u, r)
    BY <1>1, <2>1
  <2>2. CASE PostAdmitted(u)
    BY <1>0, <2>2 DEF PostAdmitted
  <2> HIDE DEF Same
  <2> QED BY <1>4, <2>1, <2>2 DEF Serve, ServePost, ServeStart, ServeResume, Refuse,
          ServeStep, ServeError, PostObjected, PostRepeated, PostNotSaved, PostSaved
<1>5. ASSUME NEW u \in Tab, Receive(u) \/ Lost(u) PROVE Same \/ Other
  <2>1. NoRequest.kind # "post" /\ \A a, s, c : Click("follow", a, s, c).kind # "post"
    BY DEF NoRequest, Click
  <2>2. \E q, ph : /\ q.kind # "post" /\ ph # "checking"
                   /\ request' = [request EXCEPT ![u] = q]
                   /\ phase' = [phase EXCEPT ![u] = ph]
    <3>1. CASE Lost(u)
      BY <2>1, <3>1 DEF Lost
    <3>2. CASE Receive(u)
      BY <2>1, <3>2 DEF Receive
    <3> QED BY <1>5, <3>1, <3>2
  <2> QED BY <1>0, <2>2
<1>6. ASSUME LoseCookie \/ (\E a \in App : Expire(a)) \/ UNCHANGED vars PROVE Same
  BY <1>6 DEF LoseCookie, Expire, vars, exchange
<1> HIDE DEF Same, Other
<1>7. \/ Same \/ Other \/ PostAdmitted(t)
      \/ phase'[t] = "sent" /\ \E answers \in Answers : Submit(t, answers)
  <2>1. CASE Next
    <3>1. CASE \E u \in Tab : Browse(u)
      BY <1>3, <3>1
    <3>2. CASE \E u \in Tab : Serve(u)
      BY <1>4, <3>2
    <3>3. CASE \E u \in Tab : Receive(u) \/ Lost(u)
      BY <1>5, <3>3
    <3>4. CASE LoseCookie \/ \E a \in App : Expire(a)
      BY <1>6, <3>4
    <3> QED BY <2>1, <3>1, <3>2, <3>3, <3>4, Zenon DEF Next
  <2>2. CASE UNCHANGED vars
    BY <1>6, <2>2
  <2> QED BY <2>1, <2>2
<1> QED BY <1>7 DEF Same, Other

(* Who changes the tables.                                                 *)
LEMMA WhoWrites ==
    ASSUME [Next]_vars
    PROVE  \/ UNCHANGED tables
           \/ \E a \in App : /\ ~Started(a)
                             /\ status' = [status EXCEPT ![a] = "STARTED"]
                             /\ version' = [version EXCEPT ![a] = 1]
                             /\ UNCHANGED responses
           \/ Saves
<1>1. ASSUME NEW t \in Tab, Browse(t) PROVE UNCHANGED tables
  BY <1>1 DEF Browse, ClickStart, ClickResume, Visit, Submit, Send
<1>2. ASSUME NEW t \in Tab, Receive(t) \/ Lost(t) PROVE UNCHANGED tables
  BY <1>2 DEF Receive, Lost
<1>3. CASE LoseCookie \/ (\E a \in App : Expire(a)) \/ UNCHANGED vars
  BY <1>3 DEF LoseCookie, Expire, vars
<1>4. ASSUME NEW t \in Tab, ServePost(t) PROVE UNCHANGED tables \/ Saves
  BY <1>4 DEF ServePost, PostObjected, PostRepeated, PostAdmitted, PostNotSaved, Saves
<1>5. ASSUME NEW t \in Tab, ServeResume(t) \/ Refuse(t) \/ ServeStep(t) \/ ServeError(t)
      PROVE  UNCHANGED tables
  BY <1>5 DEF ServeResume, Refuse, ServeStep, ServeError
<1> QED BY <1>1, <1>2, <1>3, <1>4, <1>5 DEF Next, Serve, ServeStart

(* The answers of an application change with its version only.             *)
LEMMA AnswersHaveVersions ==
    ASSUME Inv, [Next]_vars, NEW a \in App
    PROVE  /\ version[a] <= version'[a]
           /\ version'[a] = version[a] => responses'[a] = responses[a]
<1>0. /\ version \in [App -> Nat]
      /\ responses \in [App -> [Steps -> Answers \cup {NoAnswers}]]
  BY DEF Inv, TypeOK
<1>1. CASE UNCHANGED tables
  BY <1>0, <1>1 DEF tables
<1>2. ASSUME NEW b \in App, ~Started(b), version' = [version EXCEPT ![b] = 1],
             UNCHANGED responses
      PROVE  /\ version[a] <= version'[a]
             /\ version'[a] = version[a] => responses'[a] = responses[a]
  <2>1. version[b] = 0
    BY <1>2 DEF Started, Inv, AbsentHasNoVersion
  <2> QED BY <1>0, <1>2, <2>1
<1>3. ASSUME NEW t \in Tab, NEW verdicts \in Verdicts(request[t].step),
             PostSaved(t, verdicts)
      PROVE  /\ version[a] <= version'[a]
             /\ version'[a] = version[a] => responses'[a] = responses[a]
  <2>1. PICK b, s, p : /\ version' = [version EXCEPT ![b] = @ + 1]
                       /\ responses' = [responses EXCEPT ![b][s] = p]
    BY <1>3 DEF PostSaved
  <2> QED BY <1>0, <2>1
<1> QED BY <1>1, <1>2, <1>3, WhoWrites DEF Saves

LEMMA PostStep == Inv /\ PostInv /\ [Next]_vars => PostInv'
<1> SUFFICES ASSUME Inv, PostInv, [Next]_vars, NEW t \in Tab
             PROVE  SentInTime(t)' /\ StillDiffers(t)'
  BY DEF PostInv
<1>0. Inv' /\ SentInTime(t) /\ StillDiffers(t)
  BY InvNext DEF PostInv
<1>1. CASE request'[t] = request[t] /\ phase'[t] \in {phase[t], "replied"}
  <2> DEFINE q == request[t]
  <2>1. SentInTime(t)'
    BY <1>0, <1>1 DEF SentInTime
  <2>2. ASSUME phase'[t] = "checking", q.version = version'[q.app]
        PROVE  responses'[q.app][q.step] # q.answers
    <3>1. phase[t] = "checking" /\ q.kind = "post"
      BY <1>1, <2>2 DEF Inv, TabOK, HandlerOK
    <3>2. /\ q.app \in App /\ q.version <= version[q.app]
          /\ q.version \in Nat /\ version[q.app] \in Nat
      BY <3>1, PostFacts DEF Inv, TypeOK
    <3>3. version'[q.app] \in Nat
      BY <1>0, <3>2 DEF Inv, TypeOK
    <3>4. /\ version[q.app] <= version'[q.app]
          /\ version'[q.app] = version[q.app] => responses'[q.app] = responses[q.app]
      BY <3>2, AnswersHaveVersions
    <3>5. q.version = version[q.app] /\ responses'[q.app] = responses[q.app]
      BY <2>2, <3>2, <3>3, <3>4
    <3> QED BY <1>0, <3>1, <3>5 DEF StillDiffers
  <2> QED BY <1>1, <2>1, <2>2 DEF StillDiffers
<1>2. CASE PostAdmitted(t)
  BY <1>0, <1>2 DEF PostAdmitted, tables, SentInTime, StillDiffers
<1>3. CASE request'[t].kind # "post" /\ phase'[t] # "checking"
  BY <1>3 DEF SentInTime, StillDiffers
<1>4. ASSUME phase'[t] = "sent", NEW answers \in Answers, Submit(t, answers)
      PROVE  SentInTime(t)' /\ StillDiffers(t)'
  <2> DEFINE f == page[t]
  <2>1. f \in Form /\ FormKnown(f)
    BY <1>4 DEF Inv, TypeOK, TabOK, FormsOf, Submit
  <2>2. f.version <= version[f.app] /\ version[f.app] < MaxVersion
    BY <1>4, <2>1 DEF FormKnown, Submit
  <2>3. f.version \in Nat /\ version[f.app] \in Nat /\ MaxVersion \in Nat
    BY <2>1, SessionAssumption DEF Form, Inv, TypeOK
  <2>4. f.version < MaxVersion
    BY <2>2, <2>3
  <2>5. request'[t].version = f.version
    BY <1>4 DEF Submit, Send, Inv, TypeOK, Click
  <2> QED BY <1>4, <2>4, <2>5 DEF SentInTime, StillDiffers
<1> QED BY <1>1, <1>2, <1>3, <1>4, RequestSteps

LEMMA PostInit == Init => PostInv
  BY DEF Init, PostInv, SentInTime, StillDiffers, NoRequest, Click

(* The rows on record are of earlier versions.                             *)
RowsAreOld ==
    /\ logs = [a \in App |-> logs[a]]
    /\ \A a \in App : \A row \in logs[a] :
         row.request_id \in Nat /\ row.request_id < version[a]

RecordInv == Inv /\ TokenInv /\ PostInv /\ RowsAreOld

LEMMA RecordSteps ==
    ASSUME [RecordedNext]_<<vars, record>>
    PROVE  /\ [Next]_vars
           /\ \/ UNCHANGED record /\ (~Saves \/ UNCHANGED vars)
              \/ \E t \in Tab : \E verdicts \in Verdicts(request[t].step) :
                   PostSaved(t, verdicts) /\ Record(request[t], verdicts)
  BY DEF RecordedNext, record, Next, Serve, ServePost

LEMMA SavedFacts ==
    ASSUME RecordInv, NEW t \in Tab, NEW verdicts \in Verdicts(request[t].step),
           PostSaved(t, verdicts)
    PROVE  LET q == request[t] IN
           /\ q.app \in App /\ q.step \in Steps /\ q.answers \in Answers
           /\ q.version \in 1 .. MaxVersion
           /\ q.version = version[q.app]
           /\ IsCustomerSubmittable(status[q.app])
           /\ Reachable(q.app, q.step)
           /\ responses[q.app][q.step] # q.answers
<1> DEFINE q == request[t]
<1>1. phase[t] = "checking" /\ version[q.app] = q.version
  BY DEF PostSaved, VersionIsCurrent
<1>2. q.kind = "post" /\ q.version <= seen[t] /\ seen[t] <= version[q.app]
      /\ seen[t] \in Nat
  BY <1>1 DEF RecordInv, Inv, TypeOK, TabOK, HandlerOK
<1>3. /\ q.app \in App /\ q.step \in Steps /\ q.answers \in Answers
      /\ q.version \in Nat \ {0} /\ Reachable(q.app, q.step)
  BY <1>2, PostFacts DEF RecordInv
<1>4. seen[t] = version[q.app]
  BY <1>1, <1>2, <1>3
<1>5. IsCustomerSubmittable(status[q.app])
  BY <1>1, <1>4 DEF RecordInv, TokenInv, TokenOK
<1>6. q.version < MaxVersion /\ responses[q.app][q.step] # q.answers
  BY <1>1, <1>2 DEF RecordInv, PostInv, SentInTime, StillDiffers
<1>7. q.version \in 1 .. MaxVersion
  BY <1>3, <1>6, SessionAssumption
<1> QED BY <1>1, <1>3, <1>5, <1>6, <1>7

LEMMA RecordStep == RecordInv /\ [RecordedNext]_<<vars, record>> => RecordInv'
<1> SUFFICES ASSUME RecordInv, [RecordedNext]_<<vars, record>> PROVE RecordInv'
  OBVIOUS
<1>1. Inv /\ TokenInv /\ PostInv /\ RowsAreOld /\ [Next]_vars
  BY RecordSteps DEF RecordInv
<1>2. Inv' /\ TokenInv' /\ PostInv'
  BY <1>1, InvNext, TokenNext, PostStep
<1>3. \A a \in App : version[a] <= version'[a] /\ version[a] \in Nat /\ version'[a] \in Nat
  BY <1>1, <1>2, AnswersHaveVersions DEF Inv, TypeOK
<1>4. ASSUME UNCHANGED record PROVE RowsAreOld'
  <2>1. logs' = logs
    BY <1>4 DEF record
  <2>2. logs' = [a \in App |-> logs'[a]]
    BY <1>1, <2>1 DEF RowsAreOld
  <2>3. ASSUME NEW a \in App, NEW row \in logs'[a]
        PROVE  row.request_id \in Nat /\ row.request_id < version'[a]
    <3>1. row.request_id \in Nat /\ row.request_id < version[a]
      BY <1>1, <2>1, <2>3 DEF RowsAreOld
    <3> QED BY <1>3, <3>1
  <2> QED BY <2>2, <2>3 DEF RowsAreOld
<1>5. ASSUME NEW t \in Tab, NEW verdicts \in Verdicts(request[t].step),
             PostSaved(t, verdicts), Record(request[t], verdicts)
      PROVE  RowsAreOld'
  <2> DEFINE q == request[t]
             new == Rows(q.step, q.answers, q.version, verdicts)
  <2>1. q.app \in App /\ q.version = version[q.app]
    BY <1>5, SavedFacts
  <2>2. version'[q.app] = version[q.app] + 1
    BY <1>1, <1>5, <2>1 DEF PostSaved, Inv, TypeOK
  <2>3. \A row \in new : row.request_id = q.version
    BY DEF Rows
  <2>4. logs' = [logs EXCEPT ![q.app] = @ \cup new]
    BY <1>5 DEF Record
  <2> HIDE DEF new
  <2>5. /\ logs' = [a \in App |-> logs'[a]]
        /\ \A a \in App : logs'[a] = IF a = q.app THEN logs[a] \cup new ELSE logs[a]
    BY <1>1, <2>1, <2>4 DEF RowsAreOld
  <2>6. ASSUME NEW a \in App, NEW row \in logs'[a]
        PROVE  row.request_id \in Nat /\ row.request_id < version'[a]
    <3>1. CASE row \in logs[a]
      BY <1>1, <1>3, <3>1 DEF RowsAreOld
    <3>2. CASE a = q.app /\ row \in new
      BY <1>3, <2>1, <2>2, <2>3, <3>2
    <3> QED BY <2>5, <2>6, <3>1, <3>2
  <2> QED BY <2>5, <2>6 DEF RowsAreOld
<1> QED BY <1>2, <1>4, <1>5, RecordSteps DEF RecordInv

(* The operators of the instance are those of this module.                 *)
LEMMA SameOperators ==
    /\ Ledger!Steps = Steps
    /\ \A s, verdicts :
         /\ verdicts \in Verdicts(s) => verdicts \in Ledger!Verdicts(s)
         /\ Ledger!FinalStatus(s, verdicts) = FinalStatus(s, verdicts)
         /\ Ledger!Reasons(s, verdicts) = Reasons(s, verdicts)
         /\ \A p, id : Ledger!Rows(s, p, id, verdicts) = Rows(s, p, id, verdicts)
    /\ \A st : Ledger!IsCustomerSubmittable(st) <=> IsCustomerSubmittable(st)
    /\ Ledger!NoDecision = NoDecision
  BY DEF Ledger!Steps, Steps, Ledger!Verdicts, Verdicts, Ledger!FinalStatus,
     FinalStatus, Ledger!RejectedBy, RejectedBy, Ledger!ReferredBy, ReferredBy,
     Ledger!NextStep, NextStep, Ledger!Reasons, Reasons, Ledger!Rows, Rows,
     Ledger!IsCustomerSubmittable, IsCustomerSubmittable,
     Ledger!CUSTOMER_SUBMITTABLE_STATUSES, CUSTOMER_SUBMITTABLE_STATUSES,
     Ledger!NoDecision, NoDecision, Ledger!CheckOutcome, CheckOutcome

LEMMA SaveRefines ==
    ASSUME RecordInv, NEW t \in Tab, NEW verdicts \in Verdicts(request[t].step),
           PostSaved(t, verdicts), Record(request[t], verdicts)
    PROVE  Ledger!Next
<1> DEFINE q == request[t]
<1>1. /\ q.app \in App /\ q.step \in Steps /\ q.answers \in Answers
      /\ q.version \in 1 .. MaxVersion
      /\ q.version = version[q.app]
      /\ IsCustomerSubmittable(status[q.app])
      /\ Reachable(q.app, q.step)
      /\ responses[q.app][q.step] # q.answers
  BY SavedFacts
<1>2. Ledger!OpenTo(q.app, q.step)
  BY <1>1, SameOperators DEF Ledger!OpenTo, Ledger!Answered, Reachable, Answered
<1>3. Ledger!FreshRows(q.app, q.step, q.version)
  <2>1. \A row \in logs[q.app] : row.request_id \in Nat /\ row.request_id < q.version
    BY <1>1 DEF RecordInv, RowsAreOld
  <2>2. \A row \in logs[q.app] : row.request_id # q.version
    BY <1>1, <2>1
  <2> QED BY <2>2 DEF Ledger!FreshRows
<1>4. /\ responses' = [responses EXCEPT ![q.app][q.step] = q.answers]
      /\ status' = [status EXCEPT ![q.app] = FinalStatus(q.step, verdicts)]
      /\ version' = [version EXCEPT ![q.app] = @ + 1]
  BY DEF PostSaved
<1>5. Ledger!Accept(q.app, q.step, q.answers, q.version, verdicts)
  BY <1>1, <1>2, <1>3, <1>4, SameOperators DEF Ledger!Accept, Record
<1> QED BY <1>1, <1>5, SameOperators DEF Ledger!Next

LEMMA RecordRefines ==
    RecordInv /\ [RecordedNext]_<<vars, record>> => [Ledger!Next]_(Ledger!vars)
<1> SUFFICES ASSUME RecordInv, [RecordedNext]_<<vars, record>>
             PROVE  Ledger!Next \/ UNCHANGED <<tables, record>>
  BY DEF Ledger!vars, tables, record
<1>1. CASE UNCHANGED record /\ (~Saves \/ UNCHANGED vars)
  <2>1. CASE UNCHANGED tables
    BY <1>1, <2>1
  <2>2. ASSUME NEW a \in App, ~Started(a), UNCHANGED responses,
               status' = [status EXCEPT ![a] = "STARTED"],
               version' = [version EXCEPT ![a] = 1]
        PROVE  Ledger!Next
    <3>1. Ledger!StartApplication(a)
      BY <1>1, <2>2 DEF Ledger!StartApplication, Started, record
    <3> QED BY <3>1 DEF Ledger!Next
  <2>3. CASE UNCHANGED vars
    BY <2>1, <2>3 DEF vars
  <2> QED BY <1>1, <2>1, <2>2, <2>3, RecordSteps, WhoWrites
<1> QED BY <1>1, SaveRefines, RecordSteps

(* The record looks on: what it sees are the behaviours of Session.        *)
THEOREM OnlyRecords == RecordedSpec => Spec
<1>1. RecordedInit => Init
  BY DEF RecordedInit
<1>2. [RecordedNext]_<<vars, record>> => [Next]_vars
  BY RecordSteps
<1> QED BY <1>1, <1>2, PTL DEF RecordedSpec, Spec

(* For any number of tabs and applications, whatever pages are submitted,  *)
(* lost or repeated, the tables behind a session move as if submissions    *)
(* had been accepted one at a time.                                        *)
THEOREM SessionImplements == RecordedSpec => SessionKeepsLedger
<1>1. RecordedInit => RecordInv
  BY InvInit, TokenInit, PostInit DEF RecordedInit, RecordInv, RowsAreOld
<1>2. RecordedInit => Ledger!Init
  BY SameOperators DEF RecordedInit, Init, Ledger!Init
<1> QED BY <1>1, <1>2, RecordStep, RecordRefines, PTL
        DEF RecordedSpec, SessionKeepsLedger, Ledger!Spec

=============================================================================
