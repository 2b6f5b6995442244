-------------------------- MODULE MCSessionLedger --------------------------
(* Small instances of Session with the record of its tables.              *)
EXTENDS MCSession, SessionLedger

=============================================================================
