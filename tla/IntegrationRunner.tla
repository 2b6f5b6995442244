------------------------- MODULE IntegrationRunner -------------------------
(***************************************************************************)
(* The checks of one step submission, against the clock: the loop of       *)
(* process_step_submission over the required integrations, and under it    *)
(* IntegrationRunner.run, which delays (demo latency), calls the provider  *)
(* with a timeout, and retries.  The provider is the environment: it may   *)
(* answer, fail in any way, or never return.                               *)
(*                                                                         *)
(* Module Onboarding sees of all this only that a check returns or fails.  *)
(* Time is counted in ticks.  A handler that holds the event loop (the     *)
(* database driver is synchronous) makes every timer fire late, by at most *)
(* Lateness ticks.                                                         *)
(***************************************************************************)
EXTENDS Integers, Sequences, Application

CONSTANTS
    Required,       \* the checks of the step, in order
    MaxAttemptsSetting,     \* INTEGRATION_MAX_ATTEMPTS
    Timeout,        \* INTEGRATION_TIMEOUT_SECONDS, in ticks
    DemoDelay,      \* INTEGRATION_DEMO_DELAY_SECONDS, in ticks
    Lateness        \* how late the event loop fires a timer, in ticks

ASSUME SettingsAssumption ==
    /\ Len(Required) \in Nat \ {0}
    /\ MaxAttemptsSetting \in Int
    /\ Timeout \in Nat \ {0}
    /\ DemoDelay \in Nat
    /\ Lateness \in Nat

VARIABLES
    phase,      \* where the submission stands
    attempt,    \* the loop variable of run; 0 before the first call
    due,        \* when the timer it waits for is set to fire
    calls,      \* the provider calls made so far, in order
    results,    \* the verdicts collected so far
    now         \* ticks since the submission came to its checks

vars == <<phase, attempt, due, calls, results, now>>

(* max(1, max_attempts): a setting of zero or less still makes one call.   *)
MaxAttempts == IF MaxAttemptsSetting > 1 THEN MaxAttemptsSetting ELSE 1

Over == {"done", "unavailable", "error", "cancelled"}
Phase == {"enter", "delay", "attempt", "call"} \cup Over

(* What became of a provider call.                                         *)
Fate == {"running", "answered", "expired", "timeout_error", "fault",
         "data_error", "cancelled"}
Call == [check : 1 .. Len(Required), fate : Fate]

Check == Len(results) + 1

Init ==
    /\ phase = "enter"
    /\ attempt = 0
    /\ due = 0
    /\ calls = <<>>
    /\ results = <<>>
    /\ now = 0

-----------------------------------------------------------------------------
\* Mutant: the call goes on behind the timeout.
EndedShielded(fate) ==
    IF fate = "expired" THEN calls ELSE [calls EXCEPT ![Len(calls)].fate = fate]

(* The call in flight ends; asyncio.wait_for cancels it when it expires.   *)
Ended(fate) == [calls EXCEPT ![Len(calls)].fate = fate]

\* Mutant: the attempts of all checks are counted together.
FirstAttemptKept == IF attempt = 0 THEN 1 ELSE attempt

FirstAttempt == 1

(* run is called for the next check, and sleeps first if it is told to.    *)
EnterRun ==
    /\ phase = "enter"
    /\ attempt' = FirstAttempt
    /\ phase' = IF DemoDelay > 0 THEN "delay" ELSE "attempt"
    /\ due' = now + DemoDelay
    /\ UNCHANGED <<calls, results, now>>

WakeUp ==
    /\ phase = "delay"
    /\ now >= due
    /\ phase' = "attempt"
    /\ UNCHANGED <<attempt, due, calls, results, now>>

CallProvider ==
    /\ phase = "attempt"
    /\ phase' = "call"
    /\ calls' = Append(calls, [check |-> Check, fate |-> "running"])
    /\ due' = now + Timeout
    /\ UNCHANGED <<attempt, results, now>>

Answers(outcome) ==
    /\ phase = "call"
    /\ calls' = Ended("answered")
    /\ results' = Append(results, outcome)
    /\ phase' = IF Check < Len(Required) THEN "enter" ELSE "done"
    /\ UNCHANGED <<attempt, due, now>>

\* Mutant: one attempt too many.
AttemptsLeftOneMore == attempt <= MaxAttempts

AttemptsLeft == attempt < MaxAttempts

\* Mutant: a check nobody answered counts as passed.
ExhaustedFailsOpen == IF Check < Len(Required) THEN "enter" ELSE "done"

Exhausted == "unavailable"

\* Mutant: wait_for is given no timeout.
NeverExpired == FALSE

Expired == now >= due

(* The except clause for TimeoutError.  It does not ask who raised it: a   *)
(* provider's own TimeoutError is retried at once, too.                    *)
TimesOut(fate) ==
    /\ phase = "call"
    /\ fate = "expired" => Expired
    /\ calls' = Ended(fate)
    /\ \/ AttemptsLeft /\ phase' = "attempt" /\ attempt' = attempt + 1
       \/ ~AttemptsLeft /\ phase' = Exhausted /\ attempt' = attempt
    /\ UNCHANGED <<due, results, now>>

\* Mutant: faults are retried like timeouts.
AfterFaultRetry(fate) ==
    IF AttemptsLeft THEN "attempt"
    ELSE IF fate = "fault" THEN "unavailable" ELSE "error"

(* ValueError, TypeError, AttributeError and KeyError pass through the     *)
(* runner and make a 500; any other exception makes the provider           *)
(* unavailable at once.                                                    *)
AfterFault(fate) == IF fate = "fault" THEN "unavailable" ELSE "error"

Fails(fate) ==
    /\ phase = "call"
    /\ calls' = Ended(fate)
    /\ phase' = AfterFault(fate)
    /\ UNCHANGED <<attempt, due, results, now>>

(* The server shuts down and cancels the request's task; CancelledError is *)
(* no Exception, so no handler of the runner sees it.                      *)
Cancelled ==
    /\ phase \in {"delay", "call"}
    /\ phase' = "cancelled"
    /\ calls' = IF phase = "call" THEN Ended("cancelled") ELSE calls
    /\ UNCHANGED <<attempt, due, results, now>>

Tick ==
    /\ phase \in {"delay", "call"}
    /\ now < due + Lateness
    /\ now' = now + 1
    /\ UNCHANGED <<phase, attempt, due, calls, results>>

Loop == EnterRun \/ WakeUp \/ CallProvider \/ TimesOut("expired")

Provider ==
    \/ \E outcome \in CheckOutcome : Answers(outcome)
    \/ TimesOut("timeout_error")
    \/ \E fate \in {"fault", "data_error"} : Fails(fate)

Next == Loop \/ Provider \/ Cancelled \/ Tick

(* The event loop runs what is ready and time goes on.  Of the provider    *)
(* nothing is assumed.                                                     *)
Spec == Init /\ [][Next]_vars /\ WF_vars(Loop) /\ WF_vars(Tick)

-----------------------------------------------------------------------------
(***************************************************************************)
(* Properties.                                                             *)
(***************************************************************************)

TypeOK ==
    /\ phase \in Phase
    /\ attempt \in 0 .. MaxAttempts
    /\ due \in Nat
    /\ calls \in Seq(Call)
    /\ results \in Seq(CheckOutcome)
    /\ Len(results) <= Len(Required)
    /\ now \in Nat

(* The customer waits no longer than the settings say, whatever the        *)
(* providers do: each check takes its delay and MaxAttempts timeouts, and  *)
(* each of these timers is at most Lateness late.                          *)
WithinDeadline ==
    now <= Len(Required) * (DemoDelay + Lateness
                              + MaxAttempts * (Timeout + Lateness))

(* Never are two calls of a submission under way, and none is once it is   *)
(* over: a late answer of an expired call has nowhere to arrive.           *)
OneCallAtATime ==
    \A j \in 1 .. Len(calls) :
        calls[j].fate = "running" => j = Len(calls) /\ phase = "call"

(* Only timeouts are retried: a provider that has answered, rejected its   *)
(* input or failed is not asked the same again.                            *)
OnlyTimeoutsAreRetried ==
    \A j, k \in 1 .. Len(calls) :
        j < k /\ calls[j].check = calls[k].check
            => calls[j].fate \in {"expired", "timeout_error"}

CallsOf(c) == {j \in 1 .. Len(calls) : calls[j].check = c}

(* The submission goes on to be judged only when every required check has  *)
(* been answered by its provider, exactly once.                            *)
JudgedOnAnswersOnly ==
    phase = "done" =>
        /\ Len(results) = Len(Required)
        /\ \A c \in 1 .. Len(Required) : \E j \in CallsOf(c) :
             \A k \in CallsOf(c) : calls[k].fate = "answered" <=> k = j

(* A provider is given up only for cause: it failed, or all the attempts   *)
(* this check has were made and timed out, however many an earlier check   *)
(* of the step has used.                                                   *)
GivenUpForCause ==
    phase = "unavailable" =>
        \/ calls[Len(calls)].fate = "fault"
        \/ \A j \in (Len(calls) - MaxAttempts + 1) .. Len(calls) :
             /\ j \in CallsOf(Check)
             /\ calls[j].fate \in {"expired", "timeout_error"}

(* The handler that awaits the checks sees nothing but the loop: one more  *)
(* verdict, or a failure that leaves none.                                 *)
Seen == INSTANCE CheckLoop WITH
    pc <- CASE phase = "done" -> "select"
            [] phase \in {"unavailable", "error"} -> "reply"
            [] phase = "cancelled" -> "idle"
            [] OTHER -> "run",
    outcomes <- IF phase \in {"unavailable", "error", "cancelled"} THEN <<>> ELSE results,
    failure <- IF phase \in {"unavailable", "error"} THEN phase ELSE "none"

(* Whatever the clock, the retries and the providers do, a check returns   *)
(* one verdict or fails, once (services/onboarding_service.py:137-141).    *)
KeepsCheckLoop == Seen!Spec

(* Every submission comes to an end, also when a provider never returns.   *)
ChecksEnd == <>(phase \in Over)

=============================================================================
