------------------------------ MODULE MCAccounts ------------------------------
(* A small instance of Accounts: a password the pattern takes and one that is   *)
(* too short.                                                                   *)
EXTENDS Accounts, TLC

CONSTANTS phone1, phone2, e1, e2, e3, jam, secure, short

MCKinds == secure :> {"lower", "special"} @@ short :> {"lower", "special"}
MCLength == secure :> 8 @@ short :> 7
=============================================================================
