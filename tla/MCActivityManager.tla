-------------------------- MODULE MCActivityManager --------------------------
(***************************************************************************)
(* Small instances of ActivityManager: two ordinary screens, two home      *)
(* screens (one may be queued while the other is current), and one screen  *)
(* of every other kind.                                                    *)
(***************************************************************************)
EXTENDS ActivityManager, TLC

CONSTANTS app1, app2, home1, home2, boot1, sleep1, panel1, drive1

MCKind ==
  [a \in Activities |->
     CASE a \in {app1, app2}   -> "app"
       [] a \in {home1, home2} -> "home"
       [] a = boot1  -> "boot"
       [] a = sleep1 -> "sleep"
       [] a = panel1 -> "panel"
       [] a = drive1 -> "drive"]

MCSymmetry == Permutations({app1, app2}) \cup Permutations({home1, home2})
=============================================================================
