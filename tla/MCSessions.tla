----------------------------- MODULE MCSessions -----------------------------
(* Small instances of the sessions of one account.                         *)
EXTENDS Sessions
=============================================================================
