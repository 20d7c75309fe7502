---------------------------- MODULE MCHostedDisplay ----------------------------
(***************************************************************************)
(* Small instances of HostedDisplay: two surfaces, so that one can be      *)
(* created after another was destroyed, and three pages.                   *)
(***************************************************************************)
EXTENDS HostedDisplay, TLC

MCSymmetry == Permutations(Windows)
=============================================================================
