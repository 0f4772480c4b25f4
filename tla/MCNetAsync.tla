----------------------------- MODULE MCNetAsync -----------------------------
(* Small instances of NetAsync.                                            *)
EXTENDS NetAsync
=============================================================================
