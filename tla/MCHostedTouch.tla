----------------------------- MODULE MCHostedTouch -----------------------------
(***************************************************************************)
(* HostedTouch for four contacts: enough for a long press, the gesture it  *)
(* may suppress, and one before and after.                                 *)
(***************************************************************************)
EXTENDS HostedTouch
=============================================================================
