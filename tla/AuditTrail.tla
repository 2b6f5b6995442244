----------------------------- MODULE AuditTrail -----------------------------
(***************************************************************************)
(* What the log rows of a journey show: Journey says which rows there are, *)
(* Redaction what their raw_response_json keeps of the answers.            *)
(***************************************************************************)
EXTENDS Journey, Redaction

(* Whatever row a journey writes, of whichever check, the masking hides    *)
(* exactly what is under a sensitive key of its payload, however deep in   *)
(* dicts and lists, and loses nothing else (redaction.py:20-25).           *)
RedactionIsExact ==
    \A a \in App : \A row \in logs[a] : row.service \in MaskedExactly

(* No answer to a sensitive field of the flow is in the audit trail in     *)
(* clear, although the handlers choose the keys of their payloads and the  *)
(* masking goes by keys (README.md:93, "PII out of the audit trail").      *)
NoSensitiveAnswerInClear ==
    \A a \in App : \A row \in logs[a] :
        \A field \in DOMAIN row.answers :
            field \in AnswersInClear[row.service] => field \in NotSensitive

=============================================================================
