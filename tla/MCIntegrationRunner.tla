----------------------- MODULE MCIntegrationRunner -----------------------
(* Small instances of IntegrationRunner: the two checks of the             *)
(* business_profile step.                                                  *)
EXTENDS IntegrationRunner

MCRequired == <<"business_credit", "bank_account">>

=============================================================================
