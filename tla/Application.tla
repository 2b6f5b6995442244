---------------------------- MODULE Application ----------------------------
(***************************************************************************)
(* The vocabulary of the domain layer: the statuses of an application, the *)
(* verdicts of a check, and who may still move an application.             *)
(* Source: domain/states.py.                                               *)
(***************************************************************************)

ApplicationStatus ==
    {"STARTED", "IN_PROGRESS", "APPROVED", "MANUAL_REVIEW", "REJECTED"}

CheckOutcome == {"APPROVED", "MANUAL_REVIEW", "REJECTED"}

(* The statuses in which the customer may submit or resume a step.         *)
CUSTOMER_SUBMITTABLE_STATUSES == {"STARTED", "IN_PROGRESS"}

IsCustomerSubmittable(st) == st \in CUSTOMER_SUBMITTABLE_STATUSES

(* What is left when the customer may submit no more: the application has  *)
(* been decided, or is parked with a reviewer.                             *)
IsClosed(st) == st \in ApplicationStatus \ {"STARTED", "IN_PROGRESS"}

=============================================================================
