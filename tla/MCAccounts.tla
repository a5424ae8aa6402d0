------------------------------ MODULE MCAccounts ------------------------------
(* One account, so that every request and confirmation is of one row.         *)
EXTENDS Accounts
=============================================================================
