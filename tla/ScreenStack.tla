----------------------------- MODULE ScreenStack -----------------------------
(***************************************************************************)
(* What the activity manager promises its activities: a stack of screens   *)
(* whose top one is current, opened and closed one at a time or replaced   *)
(* all together, and a display on which only the top screen is painted.    *)
(* ActivityManager implements it.                                          *)
(***************************************************************************)
EXTENDS Naturals, SequencesExt

CONSTANTS Screens, Nothing

VARIABLES
  screens,   \* the open screens, the current one last
  display    \* the screen whose latest state is displayed, or Nothing

vars == <<screens, display>>

Init == screens = << >> /\ display = Nothing

\* A screen opens above the current one, which stays displayed until painted
\* over; with no screen open it is the first.
Open ==
  /\ \E s \in Screens \ Range(screens) : screens' = Append(screens, s)
  /\ UNCHANGED display

\* The current screen closes; it is no longer on display.
Close ==
  /\ screens # << >>
  /\ screens' = Front(screens)
  /\ display' = IF display = Last(screens) THEN Nothing ELSE display

\* Every open screen gives way to a new one.
StartOver ==
  /\ screens # << >>
  /\ \E s \in Screens \ Range(screens) : screens' = <<s>>
  /\ display' = Nothing

\* The top screen is painted, perhaps already out of date.
Paint ==
  /\ screens # << >>
  /\ display' \in {Last(screens), Nothing}
  /\ UNCHANGED screens

\* The state of the displayed screen changes, or it is redrawn from elsewhere.
Change == display' = Nothing /\ UNCHANGED screens

Restart == screens' = << >> /\ display' = Nothing

Next == Open \/ Close \/ StartOver \/ Paint \/ Change \/ Restart

Spec == Init /\ [][Next]_vars
=============================================================================
