----------------------------- MODULE MCOperatorApi -----------------------------
(* Two threads of the API process, one strategy, two passwords. *)
EXTENDS OperatorApi

MCValues == {"v1", "v2"}
MCPasswords == {"pw1", "pw2"}
=============================================================================
