----------------------------- MODULE MCBootGuard -----------------------------
(* Two books: the one that crashed and the one opened after it.             *)
EXTENDS BootGuard
=============================================================================
