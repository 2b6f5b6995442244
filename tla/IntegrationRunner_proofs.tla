---------------------- MODULE IntegrationRunner_proofs ----------------------
(***************************************************************************)
(* The checks of a submission, for any number of checks and attempts and   *)
(* any settings of the clock.                                              *)
(*                                                                         *)
(* The calls that were made for the current check are the last ones, Made  *)
(* of them, and all but perhaps the very last have timed out (RetryOK);    *)
(* the checks before were each answered once (AnsweredOnce).  Each timer   *)
(* is set to fire within the part of the budget that the checks done, the  *)
(* delay and the attempts made so far leave (TimeOK).                      *)
(***************************************************************************)
EXTENDS IntegrationRunner, TLAPS

Timeouts == {"expired", "timeout_error"}

(* The calls made for the current check.                                   *)
Made == CASE phase = "attempt" -> attempt - 1
          [] phase \in {"call", "unavailable"} -> attempt
          [] phase \notin {"attempt", "call", "unavailable"} -> 0

Settled == {"done", "error", "cancelled"}

PhaseOK ==
    /\ phase = "done" <=> Len(results) = Len(Required)
    /\ phase = "delay" => attempt = 1
    /\ phase \in {"attempt", "call", "unavailable"} => attempt > 0
    /\ phase = "call" => Len(calls) > 0 /\ calls[Len(calls)].fate = "running"
    /\ phase = "unavailable" =>
         \/ calls[Len(calls)].fate = "fault"
         \/ attempt = MaxAttempts /\ calls[Len(calls)].fate \in Timeouts

RetryOK ==
    phase \notin Settled =>
        /\ Made <= Len(calls)
        /\ \A j \in 1 .. Len(calls) :
             /\ calls[j].check <= Check
             /\ calls[j].check = Check <=> j > Len(calls) - Made
             /\ j > Len(calls) - Made =>
                  \/ calls[j].fate \in Timeouts
                  \/ j = Len(calls) /\ phase # "attempt"

AnsweredOnce ==
    \A c \in 1 .. Len(results) : \E j \in CallsOf(c) :
        \A k \in CallsOf(c) : calls[k].fate = "answered" <=> k = j

Inv == TypeOK /\ PhaseOK /\ OneCallAtATime /\ RetryOK
         /\ AnsweredOnce /\ OnlyTimeoutsAreRetried

-----------------------------------------------------------------------------
(* Facts about the operators.                                              *)

LEMMA Attempts == MaxAttempts \in Nat \ {0}
  BY SettingsAssumption DEF MaxAttempts

LEMMA EndedFacts ==
    ASSUME TypeOK, Len(calls) > 0, NEW fate \in Fate
    PROVE  /\ Ended(fate) \in Seq(Call)
           /\ Len(Ended(fate)) = Len(calls)
           /\ \A j \in 1 .. Len(calls) : Ended(fate)[j].check = calls[j].check
           /\ \A j \in 1 .. (Len(calls) - 1) : Ended(fate)[j] = calls[j]
           /\ Ended(fate)[Len(calls)].fate = fate
<1>1. calls \in Seq(Call) /\ Len(calls) \in Nat
  BY DEF TypeOK
<1>2. calls[Len(calls)] \in Call
  BY <1>1
<1>3. [calls[Len(calls)] EXCEPT !.fate = fate] \in Call
  BY <1>2 DEF Call
<1>4. Ended(fate) = [calls EXCEPT ![Len(calls)] =
                       [calls[Len(calls)] EXCEPT !.fate = fate]]
  BY DEF Ended
<1>5. /\ Ended(fate) \in Seq(Call) /\ Len(Ended(fate)) = Len(calls)
      /\ \A j \in 1 .. (Len(calls) - 1) : Ended(fate)[j] = calls[j]
      /\ Ended(fate)[Len(calls)] = [calls[Len(calls)] EXCEPT !.fate = fate]
  BY <1>1, <1>3, <1>4
<1>6. /\ [calls[Len(calls)] EXCEPT !.fate = fate].fate = fate
      /\ [calls[Len(calls)] EXCEPT !.fate = fate].check = calls[Len(calls)].check
  BY <1>2 DEF Call
<1>7. ASSUME NEW j \in 1 .. Len(calls) PROVE Ended(fate)[j].check = calls[j].check
  <2>1. CASE j = Len(calls)
    BY <1>5, <1>6, <2>1
  <2>2. CASE j # Len(calls)
    BY <1>1, <1>5, <2>2
  <2> QED BY <2>1, <2>2
<1> QED BY <1>5, <1>6, <1>7

LEMMA AppendFacts ==
    ASSUME TypeOK, NEW call \in Call
    PROVE  /\ Append(calls, call) \in Seq(Call)
           /\ Len(Append(calls, call)) = Len(calls) + 1
           /\ \A j \in 1 .. Len(calls) : Append(calls, call)[j] = calls[j]
           /\ Append(calls, call)[Len(calls) + 1] = call
  BY DEF TypeOK

LEMMA CallTyped ==
    ASSUME TypeOK, NEW j \in 1 .. Len(calls)
    PROVE  calls[j] \in Call /\ calls[j].check \in Nat /\ calls[j].fate \in Fate
<1>1. calls[j] \in Call
  BY DEF TypeOK
<1> QED BY <1>1, SettingsAssumption DEF Call

-----------------------------------------------------------------------------
(* What a step leaves alone.                                               *)

(* The checks before the current one, when their calls are left alone.     *)
LEMMA OthersAnsweredOnce ==
    ASSUME AnsweredOnce, Len(results') = Len(results),
           \A c \in 1 .. Len(results) :
             CallsOf(c)' = CallsOf(c) /\ \A k \in CallsOf(c) : calls'[k] = calls[k]
    PROVE  AnsweredOnce'
<1> SUFFICES ASSUME NEW c \in 1 .. Len(results)
             PROVE  \E j \in CallsOf(c)' :
                      \A k \in CallsOf(c)' : calls'[k].fate = "answered" <=> k = j
  BY DEF AnsweredOnce
<1>1. PICK j \in CallsOf(c) : \A k \in CallsOf(c) : calls[k].fate = "answered" <=> k = j
  BY DEF AnsweredOnce
<1>2. \A k \in CallsOf(c) : calls'[k].fate = "answered" <=> k = j
  BY <1>1
<1> QED BY <1>1, <1>2

(* Only the last call changes, which no call came after.                   *)
LEMMA OthersRetried ==
    ASSUME OnlyTimeoutsAreRetried, Len(calls) \in Nat, Len(calls') = Len(calls),
           \A j \in 1 .. Len(calls) : calls'[j].check = calls[j].check,
           \A j \in 1 .. (Len(calls) - 1) : calls'[j] = calls[j]
    PROVE  OnlyTimeoutsAreRetried'
<1>1. ASSUME NEW j \in 1 .. Len(calls), NEW k \in 1 .. Len(calls),
             j < k, calls'[j].check = calls'[k].check
      PROVE  calls'[j].fate \in {"expired", "timeout_error"}
  <2>1. j \in 1 .. (Len(calls) - 1)
    BY <1>1
  <2> QED BY <1>1, <2>1 DEF OnlyTimeoutsAreRetried
<1> QED BY <1>1 DEF OnlyTimeoutsAreRetried

-----------------------------------------------------------------------------
(* Step by step.                                                           *)

(* Steps that make and end no call.                                        *)
LEMMA EnterRunInv ==
    ASSUME Inv, EnterRun
    PROVE  Inv'
<1>1. TypeOK /\ attempt' = 1 /\ phase' \in {"delay", "attempt"}
      /\ phase = "enter" /\ UNCHANGED <<calls, results>> /\ due' = now + DemoDelay
      /\ UNCHANGED now
  BY DEF Inv, EnterRun, FirstAttempt
<1>2. TypeOK'
  BY <1>1, Attempts, SettingsAssumption DEF TypeOK, Phase
<1>3. Made = 0 /\ Made' = 0
  BY <1>1 DEF Made
<1>4. PhaseOK'
  BY <1>1 DEF Inv, PhaseOK
<1>5. RetryOK'
  BY <1>1, <1>3 DEF Inv, RetryOK, Check, Settled
<1>6. OneCallAtATime'
  BY <1>1 DEF Inv, OneCallAtATime
<1>7. AnsweredOnce' /\ OnlyTimeoutsAreRetried'
  BY <1>1 DEF Inv, AnsweredOnce, CallsOf, OnlyTimeoutsAreRetried
<1> QED BY <1>2, <1>4, <1>5, <1>6, <1>7 DEF Inv

LEMMA WakeUpInv ==
    ASSUME Inv, WakeUp
    PROVE  Inv'
<1>1. /\ TypeOK /\ phase = "delay" /\ phase' = "attempt" /\ attempt = 1
      /\ UNCHANGED <<attempt, due, calls, results, now>>
  BY DEF Inv, WakeUp, PhaseOK
<1>2. TypeOK'
  BY <1>1 DEF TypeOK, Phase
<1>3. Made = 0 /\ Made' = 0
  BY <1>1 DEF Made
<1>4. PhaseOK'
  BY <1>1 DEF Inv, PhaseOK
<1>5. RetryOK'
  BY <1>1, <1>3 DEF Inv, RetryOK, Check, Settled
<1>6. OneCallAtATime'
  BY <1>1 DEF Inv, OneCallAtATime
<1>7. AnsweredOnce' /\ OnlyTimeoutsAreRetried'
  BY <1>1 DEF Inv, AnsweredOnce, CallsOf, OnlyTimeoutsAreRetried
<1> QED BY <1>2, <1>4, <1>5, <1>6, <1>7 DEF Inv

LEMMA TickInv ==
    ASSUME Inv, Tick \/ UNCHANGED vars
    PROVE  Inv'
<1>1. UNCHANGED <<phase, attempt, due, calls, results>> /\ now' \in Nat
  BY DEF Inv, TypeOK, Tick, vars
<1> QED BY <1>1 DEF Inv, TypeOK, PhaseOK, OneCallAtATime, RetryOK, Made, Check,
            AnsweredOnce, CallsOf, OnlyTimeoutsAreRetried

(* A new call: the calls of this check before it have all timed out.       *)
LEMMA CallProviderInv ==
    ASSUME Inv, CallProvider
    PROVE  Inv'
<1> DEFINE call == [check |-> Check, fate |-> "running"]
<1>1. /\ TypeOK /\ phase = "attempt" /\ phase' = "call"
      /\ calls' = Append(calls, call) /\ due' = now + Timeout
      /\ UNCHANGED <<attempt, results, now>>
  BY DEF Inv, CallProvider
<1>2. /\ Len(results) \in Nat /\ Len(results) < Len(Required)
      /\ Len(calls) \in Nat /\ attempt \in Nat /\ attempt > 0 /\ Check \in Nat
  BY <1>1, Attempts, SettingsAssumption DEF Inv, TypeOK, PhaseOK, Check
<1>3. call \in Call
  BY <1>2, SettingsAssumption DEF Call, Fate, Check
<1>4. /\ calls' \in Seq(Call) /\ Len(calls') = Len(calls) + 1
      /\ \A j \in 1 .. Len(calls) : calls'[j] = calls[j]
      /\ calls'[Len(calls')] = call
  BY <1>1, <1>3, AppendFacts
<1>5. call.check = Check /\ call.fate = "running" /\ Check' = Check
  BY <1>1 DEF Check
<1> HIDE DEF call
<1>6. TypeOK'
  BY <1>1, <1>4, SettingsAssumption DEF TypeOK, Phase
<1>7. PhaseOK'
  BY <1>1, <1>2, <1>4, <1>5 DEF Inv, PhaseOK
<1>8. /\ Made = attempt - 1 /\ Made' = attempt
  BY <1>1 DEF Made
<1>9. ASSUME NEW j \in 1 .. Len(calls)
      PROVE  /\ calls[j].check <= Check
             /\ calls[j].check = Check <=> j > Len(calls) - (attempt - 1)
             /\ j > Len(calls) - (attempt - 1) => calls[j].fate \in Timeouts
             /\ calls[j].fate # "running"
  BY <1>1, <1>8 DEF Inv, RetryOK, Settled, OneCallAtATime
<1>10. attempt - 1 <= Len(calls)
  BY <1>1, <1>8 DEF Inv, RetryOK, Settled
<1>11. RetryOK'
  <2>1. attempt <= Len(calls')
    BY <1>2, <1>4, <1>10
  <2>2. ASSUME NEW j \in 1 .. Len(calls')
        PROVE  /\ calls'[j].check <= Check
               /\ calls'[j].check = Check <=> j > Len(calls') - attempt
               /\ j > Len(calls') - attempt =>
                    calls'[j].fate \in Timeouts \/ j = Len(calls')
    <3>1. CASE j = Len(calls')
      BY <1>2, <1>4, <1>5, <3>1
    <3>2. CASE j # Len(calls')
      <4>1. j \in 1 .. Len(calls) /\ calls'[j] = calls[j]
        BY <1>2, <1>4, <3>2
      <4>2. j > Len(calls') - attempt <=> j > Len(calls) - (attempt - 1)
        BY <1>2, <1>4
      <4> QED BY <1>9, <4>1, <4>2
    <3> QED BY <3>1, <3>2
  <2> QED BY <1>1, <1>5, <1>8, <2>1, <2>2 DEF RetryOK
<1>12. OneCallAtATime'
  BY <1>1, <1>2, <1>4, <1>9 DEF OneCallAtATime
<1>13. OnlyTimeoutsAreRetried'
  <2>1. ASSUME NEW j \in 1 .. Len(calls'), NEW k \in 1 .. Len(calls'),
               j < k, calls'[j].check = calls'[k].check
        PROVE  calls'[j].fate \in Timeouts
    <3>1. j \in 1 .. Len(calls) /\ calls'[j] = calls[j]
      BY <1>2, <1>4, <2>1
    <3>2. CASE k = Len(calls')
      BY <1>4, <1>5, <1>9, <2>1, <3>1, <3>2
    <3>3. CASE k # Len(calls')
      <4>1. k \in 1 .. Len(calls) /\ calls'[k] = calls[k]
        BY <1>2, <1>4, <3>3
      <4> QED BY <2>1, <3>1, <4>1 DEF Inv, OnlyTimeoutsAreRetried, Timeouts
    <3> QED BY <3>2, <3>3
  <2> QED BY <2>1 DEF OnlyTimeoutsAreRetried, Timeouts
<1>14. AnsweredOnce'
  <2>1. ASSUME NEW c \in 1 .. Len(results)
        PROVE  CallsOf(c)' = CallsOf(c) /\ \A k \in CallsOf(c) : calls'[k] = calls[k]
    <3>1. c # Check
      BY <1>2 DEF Check
    <3> QED BY <1>2, <1>4, <1>5, <3>1 DEF CallsOf
  <2> QED BY <1>1, <2>1, OthersAnsweredOnce DEF Inv
<1> QED BY <1>6, <1>7, <1>11, <1>12, <1>13, <1>14 DEF Inv

(* A call ends without a verdict: the checks before keep their answers.    *)
LEMMA EndedInv ==
    ASSUME Inv, phase = "call", NEW fate \in Fate \ {"running", "answered"},
           calls' = Ended(fate), UNCHANGED <<results, due, now>>,
           \/ /\ phase' = "attempt" /\ AttemptsLeft /\ attempt' = attempt + 1
              /\ fate \in Timeouts
           \/ /\ phase' = "unavailable" /\ attempt' = attempt
              /\ fate = "fault" \/ (fate \in Timeouts /\ ~AttemptsLeft)
           \/ phase' \in {"error", "cancelled"} /\ attempt' = attempt
    PROVE  Inv'
<1>1. TypeOK /\ Len(calls) \in Nat /\ Len(calls) > 0 /\ attempt \in Nat
      /\ attempt > 0 /\ attempt <= MaxAttempts /\ MaxAttempts \in Nat
      /\ Len(results) \in Nat /\ Len(results) # Len(Required)
  BY Attempts DEF Inv, TypeOK, PhaseOK
<1>2. /\ calls' \in Seq(Call) /\ Len(calls') = Len(calls)
      /\ \A j \in 1 .. Len(calls) : calls'[j].check = calls[j].check
      /\ \A j \in 1 .. (Len(calls) - 1) : calls'[j] = calls[j]
      /\ calls'[Len(calls)].fate = fate
  BY <1>1, EndedFacts
<1>3. TypeOK'
  BY <1>1, <1>2 DEF TypeOK, Phase, Over, AttemptsLeft
<1>4. PhaseOK'
  <2>1. ~AttemptsLeft => attempt = MaxAttempts
    BY <1>1 DEF AttemptsLeft
  <2> QED BY <1>1, <1>2, <2>1 DEF Inv, PhaseOK
<1>5. Check' = Check
  BY DEF Check
<1>6. Made = attempt /\ (phase' \notin Settled => Made' = attempt)
  BY <1>1 DEF Made, Settled
<1>7. /\ attempt <= Len(calls)
      /\ \A j \in 1 .. Len(calls) :
           /\ calls[j].check <= Check
           /\ calls[j].check = Check <=> j > Len(calls) - attempt
           /\ j > Len(calls) - attempt => calls[j].fate \in Timeouts \/ j = Len(calls)
  BY <1>6 DEF Inv, RetryOK, Settled
<1>8. RetryOK'
  <2> SUFFICES ASSUME phase' \notin Settled PROVE RetryOK'
    BY DEF RetryOK
  <2>1. Made' = attempt
    BY <1>6
  <2>2. ASSUME NEW j \in 1 .. Len(calls)
        PROVE  j > Len(calls) - attempt =>
                 \/ calls'[j].fate \in Timeouts
                 \/ j = Len(calls) /\ phase' # "attempt"
    <3>1. CASE j = Len(calls)
      BY <1>2, <3>1 DEF Settled
    <3>2. CASE j # Len(calls)
      BY <1>1, <1>2, <1>7, <3>2
    <3> QED BY <3>1, <3>2
  <2> QED BY <1>2, <1>5, <1>7, <2>1, <2>2 DEF RetryOK
<1>9. OneCallAtATime'
  <2>1. ASSUME NEW j \in 1 .. Len(calls) PROVE calls'[j].fate # "running"
    <3>1. CASE j = Len(calls)
      BY <1>2, <3>1
    <3>2. CASE j # Len(calls)
      BY <1>1, <1>2, <3>2 DEF Inv, OneCallAtATime
    <3> QED BY <3>1, <3>2
  <2> QED BY <1>2, <2>1 DEF OneCallAtATime
<1>10. OnlyTimeoutsAreRetried'
  BY <1>1, <1>2, OthersRetried DEF Inv
<1>11. AnsweredOnce'
  <2>1. ASSUME NEW c \in 1 .. Len(results)
        PROVE  CallsOf(c)' = CallsOf(c) /\ \A k \in CallsOf(c) : calls'[k] = calls[k]
    <3>1. c # Check
      BY <1>1 DEF Check
    <3>2. calls[Len(calls)].check = Check
      BY <1>1, <1>7
    <3> QED BY <1>1, <1>2, <3>1, <3>2 DEF CallsOf
  <2> QED BY <2>1, OthersAnsweredOnce DEF Inv
<1> QED BY <1>3, <1>4, <1>8, <1>9, <1>10, <1>11 DEF Inv

(* The verdict of the current check.                                       *)
LEMMA AnswersInv ==
    ASSUME Inv, NEW outcome \in CheckOutcome, Answers(outcome)
    PROVE  Inv'
<1>1. /\ phase = "call" /\ calls' = Ended("answered")
      /\ results' = Append(results, outcome)
      /\ phase' = IF Check < Len(Required) THEN "enter" ELSE "done"
      /\ UNCHANGED <<attempt, due, now>>
  BY DEF Answers
<1>2. TypeOK /\ Len(calls) \in Nat /\ Len(calls) > 0 /\ attempt \in Nat
      /\ attempt > 0 /\ Len(results) \in Nat /\ Len(results) < Len(Required)
      /\ Len(Required) \in Nat
  BY <1>1, Attempts, SettingsAssumption DEF Inv, TypeOK, PhaseOK
<1>3. /\ calls' \in Seq(Call) /\ Len(calls') = Len(calls)
      /\ \A j \in 1 .. Len(calls) : calls'[j].check = calls[j].check
      /\ \A j \in 1 .. (Len(calls) - 1) : calls'[j] = calls[j]
      /\ calls'[Len(calls)].fate = "answered"
  BY <1>1, <1>2, EndedFacts DEF Fate
<1>4. results' \in Seq(CheckOutcome) /\ Len(results') = Len(results) + 1
  BY <1>1, <1>2 DEF TypeOK
<1>5. TypeOK'
  BY <1>1, <1>2, <1>3, <1>4 DEF TypeOK, Phase, Over
<1>6. PhaseOK'
  BY <1>1, <1>2, <1>4 DEF PhaseOK, Check
<1>7. Made = attempt /\ Made' = 0 /\ Check' = Check + 1 /\ Check = Len(results')
      /\ Check \in Nat
  BY <1>1, <1>2, <1>4 DEF Made, Check
<1>8. /\ attempt <= Len(calls)
      /\ \A j \in 1 .. Len(calls) :
           /\ calls[j].check <= Check
           /\ calls[j].check = Check <=> j > Len(calls) - attempt
           /\ j > Len(calls) - attempt => calls[j].fate \in Timeouts \/ j = Len(calls)
  BY <1>1, <1>7 DEF Inv, RetryOK, Settled
<1>9. RetryOK'
  <2>1. \A j \in 1 .. Len(calls) : calls[j].check \in Nat
    BY <1>2, CallTyped
  <2>2. ASSUME NEW j \in 1 .. Len(calls)
        PROVE  /\ calls'[j].check <= Check + 1
               /\ calls'[j].check # Check + 1
               /\ ~(j > Len(calls) - 0)
    BY <1>2, <1>3, <1>7, <1>8, <2>1
  <2> QED BY <1>2, <1>3, <1>7, <2>2 DEF RetryOK
<1>10. OneCallAtATime'
  <2>1. ASSUME NEW j \in 1 .. Len(calls) PROVE calls'[j].fate # "running"
    <3>1. CASE j = Len(calls)
      BY <1>3, <3>1
    <3>2. CASE j # Len(calls)
      BY <1>2, <1>3, <3>2 DEF Inv, OneCallAtATime
    <3> QED BY <3>1, <3>2
  <2> QED BY <1>3, <2>1 DEF OneCallAtATime
<1>11. OnlyTimeoutsAreRetried'
  BY <1>2, <1>3, OthersRetried DEF Inv
<1>12. AnsweredOnce'
  <2>1. calls[Len(calls)].check = Check
    BY <1>2, <1>8
  <2>2. ASSUME NEW c \in 1 .. Len(results)
        PROVE  CallsOf(c)' = CallsOf(c) /\ \A k \in CallsOf(c) : calls'[k] = calls[k]
    <3>1. c # Check
      BY <1>2 DEF Check
    <3> QED BY <1>2, <1>3, <2>1, <3>1 DEF CallsOf
  <2>3. ASSUME NEW c \in 1 .. Len(results')
        PROVE  \E j \in CallsOf(c)' :
                 \A k \in CallsOf(c)' : calls'[k].fate = "answered" <=> k = j
    <3>1. CASE c = Check
      <4>1. Len(calls) \in CallsOf(c)'
        BY <1>2, <1>3, <2>1, <3>1 DEF CallsOf
      <4>2. ASSUME NEW k \in CallsOf(c)', k # Len(calls)
            PROVE  calls'[k].fate # "answered"
        <5>1. k \in 1 .. (Len(calls) - 1) /\ calls'[k].check = c
          BY <1>2, <1>3, <4>2 DEF CallsOf
        <5>2. calls[k].check = Check /\ calls'[k] = calls[k]
          BY <1>3, <3>1, <5>1
        <5>3. calls[k].fate \in Timeouts
          BY <1>2, <1>8, <5>1, <5>2
        <5> QED BY <5>2, <5>3 DEF Timeouts
      <4> QED BY <1>3, <4>1, <4>2
    <3>2. CASE c # Check
      <4>1. c \in 1 .. Len(results)
        BY <1>2, <1>4, <1>7, <3>2
      <4>2. PICK j \in CallsOf(c) :
              \A k \in CallsOf(c) : calls[k].fate = "answered" <=> k = j
        BY <4>1 DEF Inv, AnsweredOnce
      <4> QED BY <2>2, <4>1, <4>2
    <3> QED BY <3>1, <3>2
  <2> QED BY <2>3 DEF AnsweredOnce
<1> QED BY <1>5, <1>6, <1>9, <1>10, <1>11, <1>12 DEF Inv

LEMMA CancelledInv ==
    ASSUME Inv, Cancelled
    PROVE  Inv'
<1>1. CASE phase = "call"
  <2>1. /\ calls' = Ended("cancelled") /\ phase' = "cancelled"
        /\ UNCHANGED <<attempt, due, results, now>>
    BY <1>1 DEF Cancelled
  <2> QED BY <1>1, <2>1, EndedInv DEF Fate
<1>2. CASE phase = "delay"
  <2>1. phase' = "cancelled" /\ UNCHANGED <<attempt, due, calls, results, now>>
    BY <1>2 DEF Cancelled
  <2>2. TypeOK'
    BY <2>1 DEF Inv, TypeOK, Phase, Over
  <2>3. PhaseOK'
    BY <1>2, <2>1 DEF Inv, PhaseOK
  <2>4. RetryOK'
    BY <2>1 DEF RetryOK, Settled
  <2>5. OneCallAtATime' /\ AnsweredOnce' /\ OnlyTimeoutsAreRetried'
    BY <1>2, <2>1 DEF Inv, OneCallAtATime, AnsweredOnce, CallsOf, OnlyTimeoutsAreRetried
  <2> QED BY <2>2, <2>3, <2>4, <2>5 DEF Inv
<1> QED BY <1>1, <1>2 DEF Cancelled

LEMMA TimesOutInv ==
    ASSUME Inv, NEW fate \in Timeouts, TimesOut(fate)
    PROVE  Inv'
<1>1. /\ phase = "call" /\ calls' = Ended(fate) /\ UNCHANGED <<due, results, now>>
      /\ \/ AttemptsLeft /\ phase' = "attempt" /\ attempt' = attempt + 1
         \/ ~AttemptsLeft /\ phase' = "unavailable" /\ attempt' = attempt
  BY DEF TimesOut, Exhausted
<1>2. fate \in Fate \ {"running", "answered"}
  BY DEF Timeouts, Fate
<1> QED BY <1>1, <1>2, EndedInv

LEMMA FailsInv ==
    ASSUME Inv, NEW fate \in {"fault", "data_error"}, Fails(fate)
    PROVE  Inv'
<1>1. /\ phase = "call" /\ calls' = Ended(fate)
      /\ UNCHANGED <<attempt, due, results, now>>
      /\ \/ phase' = "unavailable" /\ fate = "fault"
         \/ phase' = "error"
  BY DEF Fails, AfterFault
<1>2. fate \in Fate \ {"running", "answered"}
  BY DEF Fate
<1> QED BY <1>1, <1>2, EndedInv

-----------------------------------------------------------------------------
(* Together.                                                               *)

LEMMA InvInit == Init => Inv
<1> SUFFICES ASSUME Init PROVE Inv
  OBVIOUS
<1>1. TypeOK
  BY Attempts, SettingsAssumption DEF Init, TypeOK, Phase
<1>2. PhaseOK
  BY SettingsAssumption DEF Init, PhaseOK
<1>3. OneCallAtATime /\ RetryOK /\ AnsweredOnce /\ OnlyTimeoutsAreRetried
  BY DEF Init, OneCallAtATime, RetryOK, Made, AnsweredOnce, OnlyTimeoutsAreRetried
<1> QED BY <1>1, <1>2, <1>3 DEF Inv

LEMMA InvNext == Inv /\ [Next]_vars => Inv'
<1> SUFFICES ASSUME Inv, [Next]_vars PROVE Inv'
  OBVIOUS
<1>1. CASE Loop
  BY <1>1, EnterRunInv, WakeUpInv, CallProviderInv, TimesOutInv DEF Loop, Timeouts
<1>2. CASE Provider
  BY <1>2, AnswersInv, TimesOutInv, FailsInv DEF Provider, Timeouts
<1>3. CASE Cancelled \/ Tick \/ UNCHANGED vars
  BY <1>3, CancelledInv, TickInv
<1> QED BY <1>1, <1>2, <1>3 DEF Next

LEMMA Invariance == Spec => []Inv
  BY InvInit, InvNext, PTL DEF Spec

(* The submission's locals keep their types; a step is never attempted     *)
(* more often than the settings allow.                                     *)
THEOREM TypeCorrect == Spec => []TypeOK
<1>1. Inv => TypeOK
  BY DEF Inv
<1> QED BY <1>1, Invariance, PTL

(* At most one call is under way, and none after the end.                  *)
THEOREM NoTwoCalls == Spec => []OneCallAtATime
<1>1. Inv => OneCallAtATime
  BY DEF Inv
<1> QED BY <1>1, Invariance, PTL

(* Nobody but a provider that timed out is asked again.                    *)
THEOREM RetriesAreTimeouts == Spec => []OnlyTimeoutsAreRetried
<1>1. Inv => OnlyTimeoutsAreRetried
  BY DEF Inv
<1> QED BY <1>1, Invariance, PTL

(* No verdict without an answer, and one answer for each check.            *)
THEOREM AnswersOnly == Spec => []JudgedOnAnswersOnly
<1>1. Inv => JudgedOnAnswersOnly
  BY DEF Inv, PhaseOK, AnsweredOnce, JudgedOnAnswersOnly
<1> QED BY <1>1, Invariance, PTL

(* A check is given up after a fault or after all its attempts.            *)
THEOREM CauseToGiveUp == Spec => []GivenUpForCause
<1>1. Inv => GivenUpForCause
  <2> SUFFICES ASSUME Inv, phase = "unavailable",
                      calls[Len(calls)].fate # "fault"
               PROVE  \A j \in (Len(calls) - MaxAttempts + 1) .. Len(calls) :
                        j \in CallsOf(Check) /\ calls[j].fate \in Timeouts
    BY DEF GivenUpForCause, Timeouts
  <2>1. /\ attempt = MaxAttempts /\ Made = attempt
        /\ calls[Len(calls)].fate \in Timeouts
        /\ Len(calls) \in Nat /\ MaxAttempts \in Nat
    BY Attempts DEF Inv, PhaseOK, Made, TypeOK
  <2>2. /\ MaxAttempts <= Len(calls)
        /\ \A j \in 1 .. Len(calls) :
             /\ calls[j].check = Check <=> j > Len(calls) - MaxAttempts
             /\ j > Len(calls) - MaxAttempts =>
                  calls[j].fate \in Timeouts \/ j = Len(calls)
    BY <2>1 DEF Inv, RetryOK, Settled
  <2>3. ASSUME NEW j \in (Len(calls) - MaxAttempts + 1) .. Len(calls)
        PROVE  j \in CallsOf(Check) /\ calls[j].fate \in Timeouts
    <3>1. j \in 1 .. Len(calls) /\ j > Len(calls) - MaxAttempts
      BY <2>1, <2>2
    <3> QED BY <2>1, <2>2, <3>1 DEF CallsOf
  <2> QED BY <2>3
<1> QED BY <1>1, Invariance, PTL

-----------------------------------------------------------------------------
(***************************************************************************)
(* The deadline.  A check has an allowance of its delay and all its        *)
(* attempts, each as late as the event loop may make it; the checks done   *)
(* have used up theirs, and the current one has used UpTo(k) when k of its *)
(* attempts are over.                                                      *)
(***************************************************************************)
Turn == Timeout + Lateness
Allowance == DemoDelay + Lateness + MaxAttempts * Turn
UpTo(k) == Len(results) * Allowance + DemoDelay + Lateness + k * Turn

TimeOK ==
    /\ phase \in {"enter", "done"} => now <= Len(results) * Allowance
    /\ phase = "delay" => /\ due <= Len(results) * Allowance + DemoDelay
                          /\ now <= due + Lateness
    /\ phase = "attempt" => now <= UpTo(attempt - 1)
    /\ phase = "call" => /\ due <= UpTo(attempt - 1) + Timeout
                         /\ now <= due + Lateness
    /\ phase \in {"unavailable", "error", "cancelled"} => now <= UpTo(attempt)

LEMMA Times ==
    ASSUME NEW k \in Nat, NEW n \in Nat, NEW p \in Nat
    PROVE  /\ k * p \in Nat
           /\ (k + 1) * p = k * p + p
           /\ k <= n => k * p <= n * p
<1>1. k * p \in Nat /\ (k + 1) * p = k * p + p
  OBVIOUS
<1>2. ASSUME k <= n PROVE k * p <= n * p
  <2>1. PICK d \in Nat : n = k + d
    <3>1. n - k \in Nat /\ n = k + (n - k)
      BY <1>2
    <3> QED BY <3>1
  <2>2. n * p = k * p + d * p
    BY <2>1
  <2>3. d * p \in Nat /\ k * p \in Nat
    OBVIOUS
  <2> QED BY <2>2, <2>3
<1> QED BY <1>1, <1>2

LEMMA AllowanceFacts ==
    ASSUME TypeOK
    PROVE  /\ Turn \in Nat /\ Allowance \in Nat /\ Len(results) \in Nat
           /\ attempt \in Nat /\ now \in Nat /\ due \in Nat
           /\ Len(results) * Allowance \in Nat
           /\ (Len(results) + 1) * Allowance = Len(results) * Allowance + Allowance
           /\ \A k \in Nat : UpTo(k) \in Nat /\ UpTo(k + 1) = UpTo(k) + Turn
           /\ \A k \in 0 .. MaxAttempts :
                UpTo(k) <= Len(results) * Allowance + Allowance
<1>1. Turn \in Nat /\ MaxAttempts \in Nat /\ DemoDelay \in Nat /\ Lateness \in Nat
  BY SettingsAssumption, Attempts DEF Turn
<1>2. MaxAttempts * Turn \in Nat
  BY <1>1, Times
<1>3. Allowance \in Nat
  BY <1>1, <1>2 DEF Allowance
<1>4. /\ Len(results) \in Nat /\ attempt \in Nat /\ now \in Nat /\ due \in Nat
  BY <1>1 DEF TypeOK
<1>5. /\ Len(results) * Allowance \in Nat
      /\ (Len(results) + 1) * Allowance = Len(results) * Allowance + Allowance
  BY <1>3, <1>4, Times
<1>6. ASSUME NEW k \in Nat PROVE UpTo(k) \in Nat /\ UpTo(k + 1) = UpTo(k) + Turn
  <2>1. k * Turn \in Nat /\ (k + 1) * Turn = k * Turn + Turn
    BY <1>1, Times
  <2> QED BY <1>1, <1>5, <2>1 DEF UpTo
<1>7. ASSUME NEW k \in 0 .. MaxAttempts
      PROVE  UpTo(k) <= Len(results) * Allowance + Allowance
  <2>1. k \in Nat /\ k <= MaxAttempts
    BY <1>1
  <2>2. k * Turn \in Nat /\ k * Turn <= MaxAttempts * Turn
    BY <1>1, <2>1, Times
  <2> DEFINE used == Len(results) * Allowance
  <2>3. used \in Nat
    BY <1>5
  <2> HIDE DEF used
  <2>4. used + DemoDelay + Lateness + k * Turn
          <= used + (DemoDelay + Lateness + MaxAttempts * Turn)
    BY <1>1, <1>2, <2>2, <2>3
  <2> QED BY <2>4 DEF UpTo, Allowance, used
<1> QED BY <1>1, <1>3, <1>4, <1>5, <1>6, <1>7

LEMMA TimeNext ==
    ASSUME Inv, Inv', TimeOK, [Next]_vars
    PROVE  TimeOK'
<1> DEFINE used == Len(results) * Allowance
<1>1. used \in Nat /\ Turn \in Nat /\ Allowance \in Nat
  BY AllowanceFacts DEF Inv
<1>2. attempt \in Nat /\ now \in Nat /\ due \in Nat /\ attempt \in 0 .. MaxAttempts
  BY AllowanceFacts DEF Inv, TypeOK
<1>3. Turn = Timeout + Lateness /\ Timeout \in Nat /\ Lateness \in Nat /\ DemoDelay \in Nat
  BY SettingsAssumption DEF Turn
<1>4. UpTo(0) = used + DemoDelay + Lateness
  <2>1. 0 * Turn = 0
    BY <1>1
  <2> QED BY <1>1, <1>3, <2>1 DEF UpTo
<1>5. \A k \in Nat : UpTo(k) \in Nat /\ UpTo(k + 1) = UpTo(k) + Turn
  BY AllowanceFacts DEF Inv
<1>6. UpTo(attempt) <= used + Allowance
  BY <1>2, AllowanceFacts DEF Inv
<1> HIDE DEF used
<1>7. ASSUME phase = "call" PROVE now <= UpTo(attempt)
  <2>1. attempt - 1 \in Nat /\ attempt = (attempt - 1) + 1
    BY <1>2, <1>7 DEF Inv, PhaseOK
  <2>2. UpTo(attempt) = UpTo(attempt - 1) + Turn /\ UpTo(attempt - 1) \in Nat
    BY <1>5, <2>1
  <2>3. due <= UpTo(attempt - 1) + Timeout /\ now <= due + Lateness
    BY <1>7 DEF TimeOK
  <2> QED BY <1>2, <1>3, <2>2, <2>3
<1>8. CASE EnterRun
  <2>1. /\ phase = "enter" /\ now <= used /\ attempt' = 1
        /\ phase' \in {"delay", "attempt"}
        /\ due' = now + DemoDelay /\ UNCHANGED <<results, now>>
    BY <1>8 DEF EnterRun, FirstAttempt, TimeOK, used
  <2>2. due' <= used + DemoDelay /\ now' <= due' + Lateness /\ now <= UpTo(0)
    BY <1>1, <1>2, <1>3, <1>4, <2>1
  <2>3. UpTo(attempt - 1)' = UpTo(0) /\ used' = used
    BY <2>1 DEF UpTo, used
  <2> QED BY <2>1, <2>2, <2>3 DEF TimeOK, used
<1>9. CASE WakeUp
  <2>1. /\ phase = "delay" /\ phase' = "attempt" /\ attempt' = 1
        /\ due <= used + DemoDelay /\ now <= due + Lateness
        /\ UNCHANGED <<results, now>>
    BY <1>9 DEF WakeUp, TimeOK, used, Inv, PhaseOK
  <2>2. now' <= UpTo(0)
    BY <1>1, <1>2, <1>3, <1>4, <2>1
  <2>3. UpTo(attempt - 1)' = UpTo(0)
    BY <2>1 DEF UpTo
  <2> QED BY <2>1, <2>2, <2>3 DEF TimeOK
<1>10. CASE CallProvider
  <2>1. /\ phase = "attempt" /\ phase' = "call" /\ now <= UpTo(attempt - 1)
        /\ due' = now + Timeout /\ UNCHANGED <<attempt, results, now>>
    BY <1>10 DEF CallProvider, TimeOK
  <2>2. UpTo(attempt - 1) \in Nat
    BY <1>2, <1>5, <2>1 DEF Inv, PhaseOK
  <2>3. due' <= UpTo(attempt - 1) + Timeout /\ now' <= due' + Lateness
    BY <1>2, <1>3, <2>1, <2>2
  <2>4. UpTo(attempt - 1)' = UpTo(attempt - 1)
    BY <2>1 DEF UpTo
  <2> QED BY <2>1, <2>3, <2>4 DEF TimeOK
<1>11. CASE \E fate \in Timeouts : TimesOut(fate)
  <2>1. /\ phase = "call" /\ UNCHANGED <<results, now>>
        /\ \/ phase' = "attempt" /\ attempt' = attempt + 1
           \/ phase' = "unavailable" /\ attempt' = attempt
    BY <1>11 DEF TimesOut, Exhausted
  <2>2. now' <= UpTo(attempt)
    BY <1>7, <2>1
  <2>3. phase' = "attempt" => UpTo(attempt - 1)' = UpTo(attempt)
    BY <1>2, <2>1 DEF UpTo
  <2>4. phase' = "unavailable" => UpTo(attempt)' = UpTo(attempt)
    BY <2>1 DEF UpTo
  <2> QED BY <2>1, <2>2, <2>3, <2>4 DEF TimeOK
<1>12. CASE \E outcome \in CheckOutcome : Answers(outcome)
  <2>1. /\ phase = "call" /\ phase' \in {"enter", "done"}
        /\ Len(results') = Len(results) + 1 /\ UNCHANGED now
    BY <1>12 DEF Answers, Inv, TypeOK
  <2>2. used' = used + Allowance
    BY <2>1, AllowanceFacts DEF Inv, used
  <2>3. now' <= used'
    BY <1>1, <1>2, <1>5, <1>6, <1>7, <2>1, <2>2
  <2> QED BY <2>1, <2>3 DEF TimeOK, used
<1>13. CASE \E fate \in {"fault", "data_error"} : Fails(fate)
  <2>1. /\ phase = "call" /\ phase' \in {"unavailable", "error"}
        /\ UNCHANGED <<attempt, results, now>>
    BY <1>13 DEF Fails, AfterFault
  <2>2. UpTo(attempt)' = UpTo(attempt)
    BY <2>1 DEF UpTo
  <2> QED BY <1>7, <2>1, <2>2 DEF TimeOK
<1>14. CASE Cancelled
  <2>1. /\ phase \in {"delay", "call"} /\ phase' = "cancelled"
        /\ UNCHANGED <<attempt, results, now>>
    BY <1>14 DEF Cancelled
  <2>2. now <= UpTo(attempt)
    <3>1. CASE phase = "delay"
      <4>1. attempt = 1 /\ due <= used + DemoDelay /\ now <= due + Lateness
        BY <3>1 DEF TimeOK, Inv, PhaseOK, used
      <4>2. UpTo(1) = UpTo(0) + Turn
        <5>1. UpTo(0 + 1) = UpTo(0) + Turn
          BY <1>5
        <5> QED BY <5>1
      <4> QED BY <1>1, <1>2, <1>3, <1>4, <4>1, <4>2
    <3> QED BY <1>7, <2>1, <3>1
  <2>3. UpTo(attempt)' = UpTo(attempt)
    BY <2>1 DEF UpTo
  <2> QED BY <2>1, <2>2, <2>3 DEF TimeOK
<1>15. CASE Tick
  <2>1. /\ phase \in {"delay", "call"} /\ now < due + Lateness /\ now' = now + 1
        /\ UNCHANGED <<phase, attempt, due, results>>
    BY <1>15 DEF Tick
  <2>2. now' <= due' + Lateness
    BY <1>2, <1>3, <2>1
  <2>3. UpTo(attempt - 1)' = UpTo(attempt - 1)
    BY <2>1 DEF UpTo
  <2> QED BY <2>1, <2>2, <2>3 DEF TimeOK
<1>16. CASE UNCHANGED vars
  BY <1>16 DEF vars, TimeOK, UpTo
<1> QED BY <1>8, <1>9, <1>10, <1>11, <1>12, <1>13, <1>14, <1>15, <1>16
        DEF Next, Loop, Provider, Timeouts

(* Whatever the providers do, a submission is over, or under way, within   *)
(* the allowances of its checks.                                           *)
THEOREM DeadlineHolds == Spec => []WithinDeadline
<1>1. Init => TimeOK
  <2> SUFFICES ASSUME Init PROVE TimeOK
    OBVIOUS
  <2>1. TypeOK
    BY InvInit DEF Inv
  <2> QED BY <2>1, AllowanceFacts DEF Init, TimeOK
<1>2. Inv /\ TimeOK => WithinDeadline
  <2> SUFFICES ASSUME Inv, TimeOK PROVE WithinDeadline
    OBVIOUS
  <2> DEFINE used == Len(results) * Allowance
             total == Len(Required) * Allowance
  <2>1. /\ used \in Nat /\ Allowance \in Nat /\ Len(results) \in Nat
        /\ (Len(results) + 1) * Allowance = used + Allowance
        /\ now \in Nat /\ attempt \in Nat /\ Len(Required) \in Nat
    BY AllowanceFacts, SettingsAssumption DEF Inv
  <2>2. used <= total /\ total \in Nat
    BY <2>1, Times DEF Inv, TypeOK
  <2>3. CASE phase \in {"enter", "done"}
    <3>1. now <= used
      BY <2>3 DEF TimeOK
    <3>2. now <= total
      <4> HIDE DEF used, total
      <4> QED BY <2>1, <2>2, <3>1
    <3> QED BY <3>2 DEF WithinDeadline, Allowance, Turn
  <2>4. CASE phase \notin {"enter", "done"}
    <3>1. Len(results) + 1 <= Len(Required)
      BY <2>1, <2>4 DEF Inv, PhaseOK, TypeOK
    <3>2. used + Allowance <= total
      BY <2>1, <3>1, Times
    <3>3. now <= used + Allowance
      <4>1. attempt \in 0 .. MaxAttempts /\ phase \in Phase /\ due \in Nat
            /\ Turn = Timeout + Lateness /\ MaxAttempts \in Nat
            /\ Timeout \in Nat /\ Lateness \in Nat /\ DemoDelay \in Nat
        BY Attempts, SettingsAssumption DEF Inv, TypeOK, Turn
      <4>2. \A k \in Nat : UpTo(k) \in Nat /\ UpTo(k + 1) = UpTo(k) + Turn
        BY AllowanceFacts DEF Inv
      <4>3. \A k \in 0 .. MaxAttempts : UpTo(k) <= used + Allowance
        BY AllowanceFacts DEF Inv
      <4>4. UpTo(0) = used + DemoDelay + Lateness
        <5>1. 0 * Turn = 0
          BY <4>1
        <5> QED BY <2>1, <4>1, <5>1 DEF UpTo
      <4> HIDE DEF used, total
      <4>5. CASE phase = "delay"
        <5>1. due <= used + DemoDelay /\ now <= due + Lateness
          BY <4>5 DEF TimeOK, used
        <5>2. now <= UpTo(0) /\ UpTo(0) <= used + Allowance /\ UpTo(0) \in Nat
          BY <2>1, <4>1, <4>2, <4>3, <4>4, <5>1
        <5> QED BY <2>1, <5>2
      <4>6. CASE phase = "attempt"
        <5>1. now <= UpTo(attempt - 1) /\ attempt - 1 \in 0 .. MaxAttempts
          BY <2>1, <4>1, <4>6 DEF TimeOK, Inv, PhaseOK
        <5>2. UpTo(attempt - 1) \in Nat /\ UpTo(attempt - 1) <= used + Allowance
          BY <4>1, <4>2, <4>3, <5>1
        <5> QED BY <2>1, <5>1, <5>2
      <4>7. CASE phase = "call"
        <5>1. attempt - 1 \in Nat /\ attempt = (attempt - 1) + 1
          BY <2>1, <4>7 DEF Inv, PhaseOK
        <5>2. UpTo(attempt) = UpTo(attempt - 1) + Turn /\ UpTo(attempt - 1) \in Nat
              /\ UpTo(attempt) <= used + Allowance
          BY <4>1, <4>2, <4>3, <5>1
        <5>3. due <= UpTo(attempt - 1) + Timeout /\ now <= due + Lateness
          BY <4>7 DEF TimeOK
        <5> QED BY <2>1, <4>1, <5>2, <5>3
      <4>8. CASE phase \in {"unavailable", "error", "cancelled"}
        <5>1. now <= UpTo(attempt) /\ UpTo(attempt) <= used + Allowance
              /\ UpTo(attempt) \in Nat
          BY <2>1, <4>1, <4>2, <4>3, <4>8 DEF TimeOK
        <5> QED BY <2>1, <5>1
      <4> QED BY <2>4, <4>1, <4>5, <4>6, <4>7, <4>8 DEF Phase, Over
    <3>4. now <= total
      <4> HIDE DEF used, total
      <4> QED BY <2>1, <2>2, <3>2, <3>3
    <3> QED BY <3>4 DEF WithinDeadline, Allowance, Turn
  <2> QED BY <2>3, <2>4
<1> QED BY <1>1, <1>2, Invariance, TimeNext, PTL DEF Spec

-----------------------------------------------------------------------------
(* What the handler sees.                                                  *)

LEMMA SeenInit == Init => Seen!Init
  BY DEF Init, Seen!Init

LEMMA SeenStep == Inv /\ [Next]_vars => [Seen!Next]_(Seen!vars)
<1> SUFFICES ASSUME Inv, [Next]_vars PROVE [Seen!Next]_(Seen!vars)
  OBVIOUS
<1> USE DEF Seen!vars
<1>1. CASE EnterRun
  BY <1>1 DEF EnterRun
<1>2. CASE WakeUp
  BY <1>2 DEF WakeUp
<1>3. CASE CallProvider
  BY <1>3 DEF CallProvider
<1>4. ASSUME NEW fate \in Timeouts, TimesOut(fate) PROVE [Seen!Next]_(Seen!vars)
  <2>1. CASE phase' = "attempt"
    BY <1>4, <2>1 DEF TimesOut
  <2>2. CASE phase' = Exhausted
    <3>1. Seen!CheckFails
      BY <1>4, <2>2 DEF TimesOut, Exhausted, Seen!CheckFails
    <3> QED BY <3>1 DEF Seen!Next
  <2> QED BY <1>4, <2>1, <2>2 DEF TimesOut
<1>5. ASSUME NEW outcome \in CheckOutcome, Answers(outcome) PROVE [Seen!Next]_(Seen!vars)
  <2>1. Len(results) \in Nat /\ Len(Required) \in Nat /\ Len(results) < Len(Required)
    BY <1>5, SettingsAssumption DEF Inv, TypeOK, PhaseOK, Answers
  <2>2. Seen!CheckReturns(outcome)
    BY <1>5, <2>1 DEF Answers, Check, Seen!CheckReturns
  <2> QED BY <2>2 DEF Seen!Next, Seen!CheckOutcome, CheckOutcome
<1>6. ASSUME NEW fate \in {"fault", "data_error"}, Fails(fate)
      PROVE  [Seen!Next]_(Seen!vars)
  <2>1. Seen!CheckFails
    BY <1>6 DEF Fails, AfterFault, Seen!CheckFails
  <2> QED BY <2>1 DEF Seen!Next
<1>7. CASE Cancelled
  <2>1. Seen!Stops
    BY <1>7 DEF Cancelled, Seen!Stops
  <2> QED BY <2>1 DEF Seen!Next
<1>8. CASE Tick
  BY <1>8 DEF Tick
<1>9. CASE UNCHANGED vars
  BY <1>9 DEF vars
<1> QED BY <1>1, <1>2, <1>3, <1>4, <1>5, <1>6, <1>7, <1>8, <1>9
        DEF Next, Loop, Provider, Timeouts

(***************************************************************************)
(* For any checks, settings and providers, the runner implements the loop  *)
(* that the handlers of Onboarding go through: each check returns one      *)
(* verdict, or the submission fails without any                            *)
(* (services/onboarding_service.py:137-141).                               *)
(***************************************************************************)
THEOREM KeepsContract == Spec => KeepsCheckLoop
<1> QED BY SeenInit, SeenStep, Invariance, PTL DEF Spec, KeepsCheckLoop, Seen!Spec

=============================================================================
