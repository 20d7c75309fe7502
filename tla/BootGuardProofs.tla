--------------------------- MODULE BootGuardProofs ---------------------------
(***************************************************************************)
(* Proofs about BootGuard, for any set of books: a book that crashes the   *)
(* device is not opened at every start, one that was being read when the   *)
(* device fell asleep in good order is, and a device that falls asleep     *)
(* does not restart instead.                                               *)
(***************************************************************************)
EXTENDS BootGuard, TLAPS

Paths == {NoPath} \cup [book : Books, folder : {"library", "Read"}]

SavedStates == [path : Paths, loads : Nat, fromReader : BOOLEAN, splash : BOOLEAN]

-----------------------------------------------------------------------------
(* The inductive invariant.                                                *)

TypeInv ==
  /\ disk \in SavedStates /\ app \in SavedStates
  /\ opening \in Paths /\ slept \in Paths
  /\ place \in [Books -> {"library", "Read"}]
  /\ at \in {"move", "moved"} => opening # NoPath

\* The retained frame is painted over once, and the splash is then back on the card.
WakeInv ==
  \/ wakes = 0
  \/ wakes = 1 /\ disk.splash /\ (at # "down" => app.splash) /\ at # "rearm"

\* The way to sleep: from the commitment on, nothing leads back.
DeepInv ==
  /\ at \in {"swap", "picture", "sleepFrame"} => deep
  /\ deep => at \in {"swap", "picture", "sleepFrame", "close", "move", "moved"}
  /\ at \in {"close", "move", "moved"} =>
       next \in {"home", "sync", "picture"} /\ (deep <=> next = "picture")
  /\ at \in {"sleeping", "swap"} => next \in {"home", "other", "network", "sync", "reader"}

FrameInv == frame = "old" /\ intact => at = "sleeping" \/ deep

TargetInv == target # "none" => at \in {"down", "rearm", "frame", "route"}

\* A state setup() does not open a book from.
Safe(s) == s.path = NoPath \/ s.loads > 0

\* A book that setup() opens at a start has been counted before it is loaded.
OpenerInv ==
  /\ opener = "start" /\ at \in {"count", "open", "opened", "reader"} => app.loads > 0
  /\ opener = "start" /\ Reading => Safe(disk)
  /\ opener # "none" =>
       at \in {"count", "open", "opened", "reader", "close", "sleeping", "swap", "picture", "sleepFrame"}
  /\ at = "count" => opener = "start"

\* After the crash of such a book nothing but the user opens one; after any
\* crash of a book, no silent restart does.
SuspectInv ==
  /\ suspect # "none" =>
       /\ opener \in {"none", "start"} /\ target # "reader"
       /\ at \notin {"sync", "move", "moved"}
       /\ at \in {"sleeping", "swap"} => next # "sync"
  /\ suspect = "start" =>
       /\ opener = "none" /\ Safe(disk) /\ (at # "down" => Safe(app))
       /\ at \notin {"count", "open", "opened", "reader", "close"}
       /\ at \in {"sleeping", "swap"} => next # "reader"

\* The book being read is the one the state names, where it is.
Named == app.path = opening /\ Exists(opening)

\* What is written once the device has committed to sleep.
Written == intact => disk = app /\ app.loads = 0

SleepingInv ==
  /\ at \in {"opened", "reader"} => Named
  /\ at \in {"sleeping", "swap"} => (app.fromReader <=> next = "reader")
  /\ at \in {"sleeping", "swap"} /\ next = "reader" => Named
  /\ at = "swap" /\ intact => disk = app
  /\ deep /\ at = "close" => Named
  /\ deep /\ at = "move" => Named /\ Written
  /\ deep /\ at = "moved" =>
       app.path = opening /\ opening # NoPath /\ place[opening.book] = "Read" /\ Written
  /\ at \in {"picture", "sleepFrame"} /\ app.fromReader /\ intact => Written /\ Exists(app.path)

ReadingState(s) == s.path = slept /\ s.fromReader /\ s.loads = 0

SleptInv ==
  slept # NoPath =>
    /\ at \in {"down", "rearm", "frame", "route"}
    /\ target = "none" /\ Exists(slept) /\ ReadingState(disk)
    /\ at # "down" => ReadingState(app) /\ resume # "Silent"

IInv ==
  /\ TypeInv /\ WakeInv /\ DeepInv /\ FrameInv /\ TargetInv
  /\ OpenerInv /\ SuspectInv /\ SleepingInv /\ SleptInv

-----------------------------------------------------------------------------
(* Every step keeps every part of the invariant.                           *)

LEMMA PathTypes ==
  /\ NoPath \in Paths
  /\ \A p \in Paths : p # NoPath => p.book \in Books /\ p.folder \in {"library", "Read"}
  /\ \A b \in Books, f \in {"library", "Read"} :
       [book |-> b, folder |-> f] \in Paths /\ [book |-> b, folder |-> f] # NoPath
BY DEF Paths, NoPath

LEMMA LostState == Lost \in SavedStates /\ Safe(Lost) /\ Lost.splash /\ Lost.path = NoPath
BY PathTypes DEF Lost, SavedStates, Safe

\* What setup() makes of the state before it opens its book.
LEMMA Counted ==
  ASSUME NEW s \in SavedStates, NEW t, t = [s EXCEPT !.path = NoPath, !.loads = @ + 1]
  PROVE  t \in SavedStates /\ t.loads > 0 /\ t.path = NoPath
<1>1. s.loads \in Nat /\ s.loads + 1 \in Nat /\ s.loads + 1 > 0
  BY DEF SavedStates
<1>2. t = [path |-> NoPath, loads |-> s.loads + 1, fromReader |-> s.fromReader, splash |-> s.splash]
  BY DEF SavedStates
<1> QED BY <1>1, <1>2, PathTypes DEF SavedStates

\* What the destructor of the reader makes of it when the book has been moved.
LEMMA Followed ==
  ASSUME NEW s \in SavedStates, s.path # NoPath, NEW t, t = [s EXCEPT !.path.folder = "Read"]
  PROVE  /\ t \in SavedStates /\ t.path = [s.path EXCEPT !.folder = "Read"]
         /\ t.loads = s.loads /\ t.fromReader = s.fromReader /\ t.splash = s.splash
<1>1. s.path \in Paths /\ s.path = [book |-> s.path.book, folder |-> s.path.folder]
      /\ s.path.book \in Books
  BY DEF SavedStates, Paths
<1>2. [s.path EXCEPT !.folder = "Read"] = [book |-> s.path.book, folder |-> "Read"]
  BY <1>1
<1>3. [s.path EXCEPT !.folder = "Read"] \in Paths
  BY <1>1, <1>2, PathTypes
<1>4. t = [s EXCEPT !.path = [s.path EXCEPT !.folder = "Read"]]
  BY DEF SavedStates
<1> QED BY <1>3, <1>4 DEF SavedStates

LEMMA MovedPath ==
  ASSUME NEW p \in Paths, p # NoPath
  PROVE  /\ [p EXCEPT !.folder = "Read"] \in Paths /\ [p EXCEPT !.folder = "Read"] # NoPath
         /\ [p EXCEPT !.folder = "Read"].book = p.book
         /\ [p EXCEPT !.folder = "Read"].folder = "Read"
BY PathTypes DEF Paths, NoPath

LEMMA InitIInv == Init => IInv
BY LostState, PathTypes DEF Init, IInv, TypeInv, WakeInv, DeepInv, FrameInv, TargetInv, OpenerInv,
   SuspectInv, SleepingInv, SleptInv, Reading

LEMMA TypeInvStep == IInv /\ [Next]_vars => TypeInv'
<1> SUFFICES ASSUME IInv, [Next]_vars PROVE TypeInv'
  OBVIOUS
<1> USE DEF IInv
<1>1. CASE BackToSleep \/ Start \/ RestoreFrame \/ LeaveReader \/ OpenNetwork \/ LeaveOther \/
        LeaveNetwork \/ Swap \/ Die
  BY <1>1 DEF BackToSleep, Start, Resume, RestoreFrame, LeaveReader, OpenNetwork, LeaveOther,
     LeaveNetwork, SilentRestart, Swap, Die, device, card, history, TypeInv, SavedStates
<1>2. CASE Rearm
  BY <1>2, PathTypes, LostState DEF Rearm, RearmSplash, Save, device, card, history, TypeInv,
     SavedStates
<1>3. CASE Route
  BY <1>3, PathTypes, LostState, Counted DEF Route, StartsAtHome, AutoOpen, GoHome, device, card,
     history, TypeInv, SavedStates
<1>4. CASE CountLoad
  BY <1>4, PathTypes, LostState DEF CountLoad, Save, device, card, history, TypeInv, SavedStates
<1>5. CASE Open
  BY <1>5, PathTypes, LostState DEF Open, device, card, history, TypeInv, SavedStates
<1>6. CASE Opened
  BY <1>6, PathTypes, LostState DEF Opened, Save, device, card, history, TypeInv, SavedStates
<1>7. CASE Close
  BY <1>7, PathTypes, LostState DEF Close, ResetLoads, Save, device, card, history, TypeInv,
     SavedStates, Exists, DeepInv
<1>8. CASE Move
  BY <1>8, PathTypes, LostState DEF Move, device, card, history, TypeInv, SavedStates
<1>9. CASE Moved
  BY <1>9, PathTypes, LostState, Followed, MovedPath DEF Moved, FollowBook, Save, device, card,
     history, TypeInv, SavedStates
<1>10. CASE OpenBook
  <2> USE DEF TypeInv
  <2>1. PICK b \in Books : opening' = [book |-> b, folder |-> place[b]]
    BY <1>10 DEF OpenBook, Path
  <2>2. place[b] \in {"library", "Read"}
    OBVIOUS
  <2>3. opening' \in Paths
    BY <2>1, <2>2, PathTypes
  <2> QED BY <1>10, <2>3 DEF OpenBook, device, card
<1>11. CASE FallAsleep
  BY <1>11, PathTypes, LostState DEF FallAsleep, device, card, history, TypeInv, SavedStates
<1>12. CASE CommitSleep
  BY <1>12, PathTypes, LostState DEF CommitSleep, Save, device, card, history, TypeInv,
     SavedStates
<1>13. CASE Sleep
  BY <1>13, PathTypes, LostState DEF Sleep, SleepFrame, device, card, history, TypeInv,
     SavedStates
<1>14. CASE Crash
  BY <1>14, PathTypes, LostState DEF Crash, Saving, device, card, history, TypeInv, SavedStates
<1>15. CASE UNCHANGED vars
  BY <1>15 DEF vars, device, card, history, TypeInv, SavedStates
<1>16. CASE ChoosePicture
  BY <1>16, PathTypes, LostState DEF ChoosePicture, Save, device, card, history, TypeInv,
     SavedStates
<1> QED BY <1>1, <1>2, <1>3, <1>4, <1>5, <1>6, <1>7, <1>8, <1>9, <1>10, <1>11, <1>12, <1>13,
  <1>14, <1>15, <1>16 DEF Next

LEMMA WakeInvStep == IInv /\ [Next]_vars => WakeInv'
<1> SUFFICES ASSUME IInv, [Next]_vars PROVE WakeInv'
  OBVIOUS
<1> USE DEF IInv
<1>1. CASE RestoreFrame \/ LeaveReader \/ Move \/ OpenBook \/ OpenNetwork \/ LeaveOther \/
        LeaveNetwork \/ Die \/ BackToSleep
  BY <1>1 DEF RestoreFrame, LeaveReader, Move, OpenBook, OpenNetwork, LeaveOther, LeaveNetwork,
     SilentRestart, Die, BackToSleep, device, card, history, WakeInv, TypeInv, DeepInv,
     SavedStates
<1>2. CASE Start
  BY <1>2, LostState DEF Start, Resume, device, card, history, WakeInv, TypeInv, DeepInv,
     SavedStates
<1>3. CASE Rearm
  BY <1>3, LostState DEF Rearm, RearmSplash, Save, device, card, history, WakeInv, TypeInv,
     DeepInv, SavedStates
<1>4. CASE Route
  BY <1>4, LostState DEF Route, StartsAtHome, AutoOpen, GoHome, device, card, history, WakeInv,
     TypeInv, DeepInv, SavedStates
<1>5. CASE CountLoad
  BY <1>5, LostState DEF CountLoad, Save, device, card, history, WakeInv, TypeInv, DeepInv,
     SavedStates
<1>6. CASE Open
  BY <1>6, LostState DEF Open, device, card, history, WakeInv, TypeInv, DeepInv, SavedStates
<1>7. CASE Opened
  BY <1>7, LostState DEF Opened, Save, device, card, history, WakeInv, TypeInv, DeepInv,
     SavedStates
<1>8. CASE Close
  BY <1>8, LostState DEF Close, ResetLoads, Save, device, card, history, WakeInv, TypeInv,
     DeepInv, SavedStates
<1>9. CASE Moved
  BY <1>9, LostState, Followed DEF Moved, FollowBook, Save, device, card, history, WakeInv,
     TypeInv, DeepInv, SavedStates
<1>10. CASE FallAsleep
  BY <1>10, LostState DEF FallAsleep, device, card, history, WakeInv, TypeInv, DeepInv,
     SavedStates
<1>11. CASE CommitSleep
  BY <1>11, LostState DEF CommitSleep, Save, device, card, history, WakeInv, TypeInv, DeepInv,
     SavedStates
<1>12. CASE Swap
  BY <1>12, LostState DEF Swap, SilentRestart, device, card, history, WakeInv, TypeInv, DeepInv,
     SavedStates
<1>13. CASE Sleep
  BY <1>13, LostState DEF Sleep, SleepFrame, device, card, history, WakeInv, TypeInv, DeepInv,
     SavedStates
<1>14. CASE Crash
  BY <1>14, LostState DEF Crash, Saving, device, card, history, WakeInv, TypeInv, DeepInv,
     SavedStates
<1>15. CASE UNCHANGED vars
  BY <1>15 DEF vars, device, card, history, WakeInv, TypeInv, DeepInv, SavedStates
<1>16. CASE ChoosePicture
  BY <1>16, LostState DEF ChoosePicture, Save, device, card, history, WakeInv, TypeInv, DeepInv,
     SavedStates
<1> QED BY <1>1, <1>2, <1>3, <1>4, <1>5, <1>6, <1>7, <1>8, <1>9, <1>10, <1>11, <1>12, <1>13,
  <1>14, <1>15, <1>16 DEF Next

LEMMA DeepInvStep == IInv /\ [Next]_vars => DeepInv'
<1> SUFFICES ASSUME IInv, [Next]_vars PROVE DeepInv'
  OBVIOUS
<1> USE DEF IInv
<1>1. CASE RestoreFrame \/ OpenNetwork \/ LeaveOther \/ LeaveNetwork \/ Die \/ BackToSleep \/
        Start \/ Rearm \/ Route \/ CountLoad \/ OpenBook
  BY <1>1 DEF RestoreFrame, OpenNetwork, LeaveOther, LeaveNetwork, SilentRestart, Die,
     BackToSleep, Start, Resume, Rearm, RearmSplash, Save, Route, StartsAtHome, AutoOpen,
     GoHome, CountLoad, OpenBook, device, card, history, DeepInv
<1>2. CASE Open
  BY <1>2 DEF Open, device, card, history, DeepInv
<1>3. CASE Opened
  BY <1>3 DEF Opened, Save, device, card, history, DeepInv
<1>4. CASE LeaveReader
  BY <1>4 DEF LeaveReader, device, card, history, DeepInv
<1>5. CASE Close
  BY <1>5 DEF Close, ResetLoads, Save, device, card, history, DeepInv
<1>6. CASE Move
  BY <1>6 DEF Move, device, card, history, DeepInv
<1>7. CASE Moved
  BY <1>7 DEF Moved, FollowBook, Save, device, card, history, DeepInv
<1>8. CASE FallAsleep
  BY <1>8 DEF FallAsleep, device, card, history, DeepInv
<1>9. CASE CommitSleep
  BY <1>9 DEF CommitSleep, Save, device, card, history, DeepInv
<1>10. CASE Swap
  BY <1>10 DEF Swap, SilentRestart, device, card, history, DeepInv
<1>11. CASE Sleep
  BY <1>11 DEF Sleep, SleepFrame, device, card, history, DeepInv
<1>12. CASE Crash
  BY <1>12 DEF Crash, Saving, device, card, history, DeepInv
<1>13. CASE UNCHANGED vars
  BY <1>13 DEF vars, device, card, history, DeepInv
<1>14. CASE ChoosePicture
  BY <1>14 DEF ChoosePicture, Save, device, card, history, DeepInv
<1> QED BY <1>1, <1>2, <1>3, <1>4, <1>5, <1>6, <1>7, <1>8, <1>9, <1>10, <1>11, <1>12, <1>13, <1>14 DEF
  Next

LEMMA FrameInvStep == IInv /\ [Next]_vars => FrameInv'
<1> SUFFICES ASSUME IInv, [Next]_vars PROVE FrameInv'
  OBVIOUS
<1> USE DEF IInv
<1>1. CASE OpenNetwork \/ LeaveOther \/ LeaveNetwork \/ Die \/ BackToSleep \/ Start \/ Route \/
        OpenBook \/ Open \/ LeaveReader
  BY <1>1 DEF OpenNetwork, LeaveOther, LeaveNetwork, SilentRestart, Die, BackToSleep, Start,
     Resume, Route, StartsAtHome, AutoOpen, GoHome, OpenBook, Open, LeaveReader, device, card,
     history, FrameInv, DeepInv
<1>2. CASE Rearm
  BY <1>2 DEF Rearm, RearmSplash, Save, device, card, history, FrameInv, DeepInv
<1>3. CASE RestoreFrame
  BY <1>3 DEF RestoreFrame, device, card, history, FrameInv, DeepInv
<1>4. CASE CountLoad
  BY <1>4 DEF CountLoad, Save, device, card, history, FrameInv, DeepInv
<1>5. CASE Opened
  BY <1>5 DEF Opened, Save, device, card, history, FrameInv, DeepInv
<1>6. CASE Close
  BY <1>6 DEF Close, ResetLoads, Save, device, card, history, FrameInv, DeepInv
<1>7. CASE Move
  BY <1>7 DEF Move, device, card, history, FrameInv, DeepInv
<1>8. CASE Moved
  BY <1>8 DEF Moved, FollowBook, Save, device, card, history, FrameInv, DeepInv
<1>9. CASE FallAsleep
  BY <1>9 DEF FallAsleep, device, card, history, FrameInv, DeepInv
<1>10. CASE CommitSleep
  BY <1>10 DEF CommitSleep, Save, device, card, history, FrameInv, DeepInv
<1>11. CASE Swap
  BY <1>11 DEF Swap, SilentRestart, device, card, history, FrameInv, DeepInv
<1>12. CASE Sleep
  BY <1>12 DEF Sleep, SleepFrame, device, card, history, FrameInv, DeepInv
<1>13. CASE Crash
  BY <1>13 DEF Crash, Saving, device, card, history, FrameInv, DeepInv
<1>14. CASE UNCHANGED vars
  BY <1>14 DEF vars, device, card, history, FrameInv, DeepInv
<1>15. CASE ChoosePicture
  BY <1>15 DEF ChoosePicture, Save, device, card, history, FrameInv, DeepInv
<1> QED BY <1>1, <1>2, <1>3, <1>4, <1>5, <1>6, <1>7, <1>8, <1>9, <1>10, <1>11, <1>12, <1>13,
  <1>14, <1>15 DEF Next

LEMMA TargetInvStep == IInv /\ [Next]_vars => TargetInv'
<1> SUFFICES ASSUME IInv, [Next]_vars PROVE TargetInv'
  OBVIOUS
<1> USE DEF IInv
<1>1. CASE RestoreFrame \/ OpenNetwork \/ LeaveOther \/ LeaveNetwork \/ Die \/ BackToSleep \/
        Start \/ Rearm \/ Route \/ CountLoad \/ OpenBook
  BY <1>1 DEF RestoreFrame, OpenNetwork, LeaveOther, LeaveNetwork, SilentRestart, Die,
     BackToSleep, Start, Resume, Rearm, RearmSplash, Save, Route, StartsAtHome, AutoOpen,
     GoHome, CountLoad, OpenBook, device, card, history, TargetInv, DeepInv
<1>2. CASE Open
  BY <1>2 DEF Open, device, card, history, TargetInv, DeepInv
<1>3. CASE Opened
  BY <1>3 DEF Opened, Save, device, card, history, TargetInv, DeepInv
<1>4. CASE LeaveReader
  BY <1>4 DEF LeaveReader, device, card, history, TargetInv, DeepInv
<1>5. CASE Close
  BY <1>5 DEF Close, ResetLoads, Save, device, card, history, TargetInv, DeepInv
<1>6. CASE Move
  BY <1>6 DEF Move, device, card, history, TargetInv, DeepInv
<1>7. CASE Moved
  BY <1>7 DEF Moved, FollowBook, Save, device, card, history, TargetInv, DeepInv
<1>8. CASE FallAsleep
  BY <1>8 DEF FallAsleep, device, card, history, TargetInv, DeepInv
<1>9. CASE CommitSleep
  BY <1>9 DEF CommitSleep, Save, device, card, history, TargetInv, DeepInv
<1>10. CASE Swap
  BY <1>10 DEF Swap, SilentRestart, device, card, history, TargetInv, DeepInv
<1>11. CASE Sleep
  BY <1>11 DEF Sleep, SleepFrame, device, card, history, TargetInv, DeepInv
<1>12. CASE Crash
  BY <1>12 DEF Crash, Saving, device, card, history, TargetInv, DeepInv
<1>13. CASE UNCHANGED vars
  BY <1>13 DEF vars, device, card, history, TargetInv, DeepInv
<1>14. CASE ChoosePicture
  BY <1>14 DEF ChoosePicture, Save, device, card, history, TargetInv, DeepInv
<1> QED BY <1>1, <1>2, <1>3, <1>4, <1>5, <1>6, <1>7, <1>8, <1>9, <1>10, <1>11, <1>12, <1>13, <1>14 DEF
  Next

LEMMA OpenerInvStep == IInv /\ [Next]_vars => OpenerInv'
<1> SUFFICES ASSUME IInv, [Next]_vars PROVE OpenerInv'
  OBVIOUS
<1> USE DEF IInv
<1>1. CASE RestoreFrame \/ OpenNetwork \/ LeaveOther \/ Die \/ BackToSleep \/ OpenBook
  BY <1>1 DEF RestoreFrame, OpenNetwork, LeaveOther, Die, BackToSleep, OpenBook, device, card,
     history, OpenerInv, TypeInv, SuspectInv, Reading, Safe, SavedStates
<1>2. CASE Start
  BY <1>2, LostState DEF Start, Resume, device, card, history, OpenerInv, TypeInv, SuspectInv,
     Reading, Safe, SavedStates
<1>3. CASE Rearm
  BY <1>3, LostState DEF Rearm, RearmSplash, Save, device, card, history, OpenerInv, TypeInv,
     SuspectInv, Reading, Safe, SavedStates
<1>4. CASE Route
  BY <1>4, LostState, Counted DEF Route, StartsAtHome, AutoOpen, GoHome, device, card, history,
     OpenerInv, TypeInv, SuspectInv, Reading, Safe, SavedStates
<1>5. CASE CountLoad
  BY <1>5, LostState DEF CountLoad, Save, device, card, history, OpenerInv, TypeInv, SuspectInv,
     Reading, Safe, SavedStates
<1>6. CASE Open
  BY <1>6, LostState DEF Open, device, card, history, OpenerInv, TypeInv, SuspectInv, Reading, Safe,
     SavedStates
<1>7. CASE Opened
  BY <1>7, LostState DEF Opened, Save, device, card, history, OpenerInv, TypeInv, SuspectInv,
     Reading, Safe, SavedStates
<1>8. CASE LeaveReader
  BY <1>8, LostState DEF LeaveReader, device, card, history, OpenerInv, TypeInv, SuspectInv,
     Reading, Safe, SavedStates
<1>9. CASE Close
  BY <1>9, LostState DEF Close, ResetLoads, Save, device, card, history, OpenerInv, DeepInv, TypeInv,
     SuspectInv, Reading, Safe, SavedStates
<1>10. CASE Move
  BY <1>10, LostState DEF Move, device, card, history, OpenerInv, TypeInv, SuspectInv, Reading,
     Safe, SavedStates
<1>11. CASE Moved
  BY <1>11, LostState DEF Moved, FollowBook, Save, device, card, history, OpenerInv, DeepInv, TypeInv,
     SuspectInv, Reading, Safe, SavedStates
<1>12. CASE LeaveNetwork
  BY <1>12, LostState DEF LeaveNetwork, SilentRestart, device, card, history, OpenerInv, TypeInv,
     SuspectInv, Reading, Safe, SavedStates
<1>13. CASE FallAsleep
  BY <1>13, LostState DEF FallAsleep, device, card, history, OpenerInv, TypeInv, SuspectInv,
     Reading, Safe, SavedStates
<1>14. CASE CommitSleep
  BY <1>14, LostState DEF CommitSleep, Save, device, card, history, OpenerInv, TypeInv, SuspectInv,
     Reading, Safe, SavedStates
<1>15. CASE Swap
  BY <1>15, LostState DEF Swap, SilentRestart, device, card, history, OpenerInv, DeepInv, TypeInv,
     SuspectInv, Reading, Safe, SavedStates
<1>16. CASE Sleep
  BY <1>16, LostState DEF Sleep, SleepFrame, device, card, history, OpenerInv, TypeInv, SuspectInv,
     Reading, Safe, SavedStates
<1>17. CASE Crash
  BY <1>17, LostState DEF Crash, Saving, device, card, history, OpenerInv, TypeInv, SuspectInv,
     Reading, Safe, SavedStates
<1>18. CASE UNCHANGED vars
  BY <1>18 DEF vars, device, card, history, OpenerInv, TypeInv, SuspectInv, Reading, Safe,
     SavedStates
<1>19. CASE ChoosePicture
  BY <1>19, LostState DEF ChoosePicture, Save, device, card, history, OpenerInv, TypeInv, SuspectInv,
     Reading, Safe, SavedStates
<1> QED BY <1>1, <1>2, <1>3, <1>4, <1>5, <1>6, <1>7, <1>8, <1>9, <1>10, <1>11, <1>12, <1>13,
  <1>14, <1>15, <1>16, <1>17, <1>18, <1>19 DEF Next

LEMMA SuspectInvStep == IInv /\ [Next]_vars => SuspectInv'
<1> SUFFICES ASSUME IInv, [Next]_vars PROVE SuspectInv'
  OBVIOUS
<1> USE DEF IInv
<1>1. CASE RestoreFrame \/ OpenNetwork \/ LeaveOther \/ Die \/ BackToSleep \/ OpenBook
  BY <1>1 DEF RestoreFrame, OpenNetwork, LeaveOther, Die, BackToSleep, OpenBook, device, card,
     history, SuspectInv, OpenerInv, DeepInv, TypeInv, Reading, Safe, SavedStates
<1>2. CASE Start
  BY <1>2, LostState DEF Start, Resume, device, card, history, SuspectInv, OpenerInv, DeepInv,
     TypeInv, Reading, Safe, SavedStates
<1>3. CASE Rearm
  BY <1>3, LostState DEF Rearm, RearmSplash, Save, device, card, history, SuspectInv, OpenerInv,
     DeepInv, TypeInv, Reading, Safe, SavedStates
<1>4. CASE Route
  BY <1>4, LostState DEF Route, StartsAtHome, AutoOpen, GoHome, device, card, history, SuspectInv,
     OpenerInv, DeepInv, TypeInv, Reading, Safe, SavedStates
<1>5. CASE CountLoad
  BY <1>5, LostState DEF CountLoad, Save, device, card, history, SuspectInv, OpenerInv, DeepInv,
     TypeInv, Reading, Safe, SavedStates
<1>6. CASE Open
  BY <1>6, LostState DEF Open, device, card, history, SuspectInv, OpenerInv, DeepInv, TypeInv,
     Reading, Safe, SavedStates
<1>7. CASE Opened
  BY <1>7, LostState DEF Opened, Save, device, card, history, SuspectInv, OpenerInv, DeepInv,
     TypeInv, Reading, Safe, SavedStates
<1>8. CASE LeaveReader
  BY <1>8, LostState DEF LeaveReader, device, card, history, SuspectInv, OpenerInv, DeepInv,
     TypeInv, Reading, Safe, SavedStates
<1>9. CASE Close
  BY <1>9, LostState DEF Close, ResetLoads, Save, device, card, history, SuspectInv, OpenerInv,
     DeepInv, TypeInv, Reading, Safe, SavedStates
<1>10. CASE Move
  BY <1>10, LostState DEF Move, device, card, history, SuspectInv, OpenerInv, DeepInv, TypeInv,
     Reading, Safe, SavedStates
<1>11. CASE Moved
  BY <1>11, LostState DEF Moved, FollowBook, Save, device, card, history, SuspectInv, OpenerInv,
     DeepInv, TypeInv, Reading, Safe, SavedStates
<1>12. CASE LeaveNetwork
  BY <1>12, LostState DEF LeaveNetwork, SilentRestart, device, card, history, SuspectInv, OpenerInv,
     DeepInv, TypeInv, Reading, Safe, SavedStates
<1>13. CASE FallAsleep
  BY <1>13, LostState DEF FallAsleep, device, card, history, SuspectInv, OpenerInv, DeepInv,
     TypeInv, Reading, Safe, SavedStates
<1>14. CASE CommitSleep
  BY <1>14, LostState DEF CommitSleep, Save, device, card, history, SuspectInv, OpenerInv, DeepInv,
     TypeInv, Reading, Safe, SavedStates
<1>15. CASE Swap
  BY <1>15, LostState DEF Swap, SilentRestart, device, card, history, SuspectInv, OpenerInv,
     DeepInv, TypeInv, Reading, Safe, SavedStates
<1>16. CASE Sleep
  BY <1>16, LostState DEF Sleep, SleepFrame, device, card, history, SuspectInv, OpenerInv, DeepInv,
     TypeInv, Reading, Safe, SavedStates
<1>17. CASE Crash
  BY <1>17, LostState DEF Crash, Saving, device, card, history, SuspectInv, OpenerInv, DeepInv,
     TypeInv, Reading, Safe, SavedStates
<1>18. CASE UNCHANGED vars
  BY <1>18 DEF vars, device, card, history, SuspectInv, OpenerInv, DeepInv, TypeInv, Reading, Safe,
     SavedStates
<1>19. CASE ChoosePicture
  BY <1>19, LostState DEF ChoosePicture, Save, device, card, history, SuspectInv, OpenerInv, DeepInv,
     TypeInv, Reading, Safe, SavedStates
<1> QED BY <1>1, <1>2, <1>3, <1>4, <1>5, <1>6, <1>7, <1>8, <1>9, <1>10, <1>11, <1>12, <1>13,
  <1>14, <1>15, <1>16, <1>17, <1>18, <1>19 DEF Next

LEMMA SleepingInvStep == IInv /\ [Next]_vars => SleepingInv'
<1> SUFFICES ASSUME IInv, [Next]_vars PROVE SleepingInv'
  OBVIOUS
<1> USE DEF IInv
<1>1. CASE RestoreFrame \/ OpenNetwork \/ LeaveOther \/ Die \/ BackToSleep \/ OpenBook
  BY <1>1 DEF RestoreFrame, OpenNetwork, LeaveOther, Die, BackToSleep, OpenBook, device, card,
     history, SleepingInv, TypeInv, DeepInv, Named, Written, Exists, SavedStates
<1>2. CASE Start
  BY <1>2, PathTypes DEF Start, Resume, device, card, history, SleepingInv, TypeInv, DeepInv,
     Named, Written, Exists, SavedStates
<1>3. CASE Rearm
  BY <1>3, PathTypes DEF Rearm, RearmSplash, Save, device, card, history, SleepingInv, TypeInv,
     DeepInv, Named, Written, Exists, SavedStates
<1>4. CASE Route
  BY <1>4, PathTypes DEF Route, StartsAtHome, AutoOpen, GoHome, device, card, history,
     SleepingInv, TypeInv, DeepInv, Named, Written, Exists, SavedStates
<1>5. CASE CountLoad
  BY <1>5, PathTypes DEF CountLoad, Save, device, card, history, SleepingInv, TypeInv, DeepInv,
     Named, Written, Exists, SavedStates
<1>6. CASE Open
  BY <1>6, PathTypes DEF Open, device, card, history, SleepingInv, TypeInv, DeepInv, Named,
     Written, Exists, SavedStates
<1>7. CASE Opened
  BY <1>7, PathTypes DEF Opened, Save, device, card, history, SleepingInv, TypeInv, DeepInv,
     Named, Written, Exists, SavedStates
<1>8. CASE LeaveReader
  BY <1>8, PathTypes DEF LeaveReader, device, card, history, SleepingInv, TypeInv, DeepInv, Named,
     Written, Exists, SavedStates
<1>9. CASE Close
  BY <1>9, PathTypes DEF Close, ResetLoads, Save, device, card, history, SleepingInv, TypeInv,
     DeepInv, Named, Written, Exists, SavedStates
<1>10. CASE Move
  BY <1>10, PathTypes DEF Move, device, card, history, SleepingInv, TypeInv, DeepInv, Named,
     Written, Exists, SavedStates
<1>11. CASE Moved
  <2> USE DEF TypeInv, SleepingInv
  <2>1. at = "moved" /\ at' = next /\ opening # NoPath /\ opening \in Paths
        /\ opening' = [opening EXCEPT !.folder = "Read"]
        /\ UNCHANGED <<next, place, deep>>
    BY <1>11 DEF Moved, FollowBook
  <2>2. next \in {"home", "sync", "picture"} /\ (deep <=> next = "picture")
    BY <2>1 DEF DeepInv
  <2> SUFFICES ASSUME next = "picture", app'.fromReader, intact'
               PROVE  Written' /\ Exists(app.path)'
    BY <2>1, <2>2
  <2>3. app.path = opening /\ place[opening.book] = "Read" /\ Written
    BY <2>1, <2>2
  <2>4. app' = [app EXCEPT !.path.folder = "Read"] /\ Save
    BY <1>11, <2>3 DEF Moved, FollowBook
  <2>5. app' \in SavedStates /\ app'.path = [opening EXCEPT !.folder = "Read"]
        /\ app'.loads = app.loads
    BY <2>1, <2>3, <2>4, Followed
  <2>6. app'.path # NoPath /\ app'.path.book = opening.book /\ app'.path.folder = "Read"
    BY <2>1, <2>5, MovedPath
  <2>7. disk' = app' /\ intact
    BY <2>4 DEF Save
  <2> QED BY <2>1, <2>3, <2>5, <2>6, <2>7 DEF Written, Exists
<1>12. CASE LeaveNetwork
  BY <1>12, PathTypes DEF LeaveNetwork, SilentRestart, device, card, history, SleepingInv,
     TypeInv, DeepInv, Named, Written, Exists, SavedStates
<1>13. CASE FallAsleep
  BY <1>13, PathTypes DEF FallAsleep, device, card, history, SleepingInv, TypeInv, DeepInv, Named,
     Written, Exists, SavedStates
<1>14. CASE CommitSleep
  BY <1>14, PathTypes DEF CommitSleep, Save, device, card, history, SleepingInv, TypeInv, DeepInv,
     Named, Written, Exists, SavedStates
<1>15. CASE Swap
  BY <1>15, PathTypes DEF Swap, SilentRestart, device, card, history, SleepingInv, TypeInv,
     DeepInv, Named, Written, Exists, SavedStates
<1>16. CASE Sleep
  BY <1>16, PathTypes DEF Sleep, SleepFrame, device, card, history, SleepingInv, TypeInv, DeepInv,
     Named, Written, Exists, SavedStates
<1>17. CASE Crash
  BY <1>17, PathTypes DEF Crash, Saving, device, card, history, SleepingInv, TypeInv, DeepInv,
     Named, Written, Exists, SavedStates
<1>18. CASE UNCHANGED vars
  BY <1>18 DEF vars, device, card, history, SleepingInv, TypeInv, DeepInv, Named, Written, Exists,
     SavedStates
<1>19. CASE ChoosePicture
  BY <1>19, PathTypes DEF ChoosePicture, Save, device, card, history, SleepingInv, TypeInv, DeepInv,
     Named, Written, Exists, SavedStates
<1> QED BY <1>1, <1>2, <1>3, <1>4, <1>5, <1>6, <1>7, <1>8, <1>9, <1>10, <1>11, <1>12, <1>13,
  <1>14, <1>15, <1>16, <1>17, <1>18, <1>19 DEF Next

LEMMA SleptInvStep == IInv /\ [Next]_vars => SleptInv'
<1> SUFFICES ASSUME IInv, [Next]_vars PROVE SleptInv'
  OBVIOUS
<1> USE DEF IInv
<1>1. CASE OpenNetwork \/ LeaveOther \/ Die \/ LeaveReader \/ OpenBook
  BY <1>1 DEF OpenNetwork, LeaveOther, Die, LeaveReader, OpenBook, device, card, history,
     SleptInv, TypeInv, DeepInv, SleepingInv, TargetInv, ReadingState, Exists, Written,
     SavedStates
<1>2. CASE BackToSleep
  BY <1>2, LostState DEF BackToSleep, device, card, history, SleptInv, TypeInv, DeepInv,
     SleepingInv, TargetInv, ReadingState, Exists, Written, SavedStates
<1>3. CASE Start
  BY <1>3, LostState DEF Start, Resume, device, card, history, SleptInv, TypeInv, DeepInv,
     SleepingInv, TargetInv, ReadingState, Exists, Written, SavedStates
<1>4. CASE Rearm
  BY <1>4, LostState DEF Rearm, RearmSplash, Save, device, card, history, SleptInv, TypeInv,
     DeepInv, SleepingInv, TargetInv, ReadingState, Exists, Written, SavedStates
<1>5. CASE RestoreFrame
  BY <1>5, LostState DEF RestoreFrame, device, card, history, SleptInv, TypeInv, DeepInv,
     SleepingInv, TargetInv, ReadingState, Exists, Written, SavedStates
<1>6. CASE Route
  BY <1>6, LostState DEF Route, StartsAtHome, AutoOpen, GoHome, device, card, history, SleptInv,
     TypeInv, DeepInv, SleepingInv, TargetInv, ReadingState, Exists, Written, SavedStates
<1>7. CASE CountLoad
  BY <1>7, LostState DEF CountLoad, Save, device, card, history, SleptInv, TypeInv, DeepInv,
     SleepingInv, TargetInv, ReadingState, Exists, Written, SavedStates
<1>8. CASE Open
  BY <1>8, LostState DEF Open, device, card, history, SleptInv, TypeInv, DeepInv, SleepingInv,
     TargetInv, ReadingState, Exists, Written, SavedStates
<1>9. CASE Opened
  BY <1>9, LostState DEF Opened, Save, device, card, history, SleptInv, TypeInv, DeepInv,
     SleepingInv, TargetInv, ReadingState, Exists, Written, SavedStates
<1>10. CASE Close
  BY <1>10, LostState DEF Close, ResetLoads, Save, device, card, history, SleptInv, TypeInv,
     DeepInv, SleepingInv, TargetInv, ReadingState, Exists, Written, SavedStates
<1>11. CASE Move
  BY <1>11, LostState DEF Move, device, card, history, SleptInv, TypeInv, DeepInv, SleepingInv,
     TargetInv, ReadingState, Exists, Written, SavedStates
<1>12. CASE Moved
  BY <1>12, LostState DEF Moved, FollowBook, Save, device, card, history, SleptInv, TypeInv,
     DeepInv, SleepingInv, TargetInv, ReadingState, Exists, Written, SavedStates
<1>13. CASE LeaveNetwork
  BY <1>13, LostState DEF LeaveNetwork, SilentRestart, device, card, history, SleptInv, TypeInv,
     DeepInv, SleepingInv, TargetInv, ReadingState, Exists, Written, SavedStates
<1>14. CASE FallAsleep
  BY <1>14, LostState DEF FallAsleep, device, card, history, SleptInv, TypeInv, DeepInv,
     SleepingInv, TargetInv, ReadingState, Exists, Written, SavedStates
<1>15. CASE CommitSleep
  BY <1>15, LostState DEF CommitSleep, Save, device, card, history, SleptInv, TypeInv, DeepInv,
     SleepingInv, TargetInv, ReadingState, Exists, Written, SavedStates
<1>16. CASE Swap
  BY <1>16, LostState DEF Swap, SilentRestart, device, card, history, SleptInv, TypeInv, DeepInv,
     SleepingInv, TargetInv, ReadingState, Exists, Written, SavedStates
<1>17. CASE Sleep
  BY <1>17, LostState DEF Sleep, SleepFrame, device, card, history, SleptInv, TypeInv, DeepInv,
     SleepingInv, TargetInv, ReadingState, Exists, Written, SavedStates
<1>18. CASE Crash
  BY <1>18, LostState DEF Crash, Saving, device, card, history, SleptInv, TypeInv, DeepInv,
     SleepingInv, TargetInv, ReadingState, Exists, Written, SavedStates
<1>19. CASE UNCHANGED vars
  BY <1>19 DEF vars, device, card, history, SleptInv, TypeInv, DeepInv, SleepingInv, TargetInv,
     ReadingState, Exists, Written, SavedStates
<1>20. CASE ChoosePicture
  BY <1>20, LostState DEF ChoosePicture, Save, device, card, history, SleptInv, TypeInv, DeepInv,
     SleepingInv, TargetInv, ReadingState, Exists, Written, SavedStates
<1> QED BY <1>1, <1>2, <1>3, <1>4, <1>5, <1>6, <1>7, <1>8, <1>9, <1>10, <1>11, <1>12, <1>13,
  <1>14, <1>15, <1>16, <1>17, <1>18, <1>19, <1>20 DEF Next


LEMMA Preserved == IInv /\ [Next]_vars => IInv'
BY TypeInvStep, WakeInvStep, DeepInvStep, FrameInvStep, TargetInvStep, OpenerInvStep, SuspectInvStep,
   SleepingInvStep, SleptInvStep DEF IInv

-----------------------------------------------------------------------------
(* The theorems.                                                           *)

\* The invariant that the properties rest on holds through every start,
\* sleep and crash.
THEOREM Inductive == Spec => []IInv
BY InitIInv, Preserved, PTL DEF Spec

\* The guard of setup(): after the crash of a book that it opened and counted,
\* no later start opens one, and after the crash of any other, one at most,
\* until a book is closed or the user opens one.
THEOREM NoBootLoops == Spec => []NoBootLoop
<1>1. IInv => NoBootLoop
  BY DEF IInv, SuspectInv, NoBootLoop
<1> QED BY <1>1, Inductive, PTL

\* The splash flag is rearmed before the retained frame is painted over: two
\* starts in a row never wake without the splash.
THEOREM SplashlessWakesOnce == Spec => []SplashlessOnce
<1>1. IInv => SplashlessOnce
  BY DEF IInv, WakeInv, SplashlessOnce
<1> QED BY <1>1, Inductive, PTL

\* loadSleepFrameBuffer() removes what it reads, so that after a sleep in good
\* order no frame of an earlier sleep is restored.
THEOREM FramesAreFresh == Spec => []FreshFrame
<1>1. IInv => FreshFrame
  BY DEF IInv, DeepInv, FrameInv, FreshFrame
<1> QED BY <1>1, Inductive, PTL

\* enterDeepSleep() sets its flag before the screen's onExit() runs, which then
\* does not restart the device: what begins to sleep sleeps, or crashes.
THEOREM SleepsAreFinal == Spec => SleepIsFinal
<1> DEFINE Final == FallingAsleep => FallingAsleep' \/ (at' = "down" /\ down' # "restart")
<1>1. IInv /\ [Next]_vars => [Final]_vars
  <2> SUFFICES ASSUME IInv, Next, FallingAsleep
               PROVE  FallingAsleep' \/ (at' = "down" /\ down' # "restart")
    OBVIOUS
  <2>1. /\ at \in {"sleeping", "swap", "picture", "sleepFrame", "close", "move", "moved"}
        /\ at \in {"close", "move", "moved"} => next = "picture"
        /\ at = "swap" => deep
    BY DEF IInv, DeepInv, FallingAsleep
  <2>2. CommitSleep \/ Swap \/ ChoosePicture \/ Sleep \/ Crash \/ Close \/ Move \/ Moved
    BY <2>1 DEF Next, BackToSleep, Start, Rearm, RestoreFrame, Route, CountLoad, Open, Opened,
       LeaveReader, OpenBook, OpenNetwork, LeaveOther, LeaveNetwork, FallAsleep, Die
  <2>3. CASE Swap
    BY <2>1, <2>3 DEF Swap, SilentRestart, FallingAsleep
  <2>4. CASE CommitSleep \/ ChoosePicture \/ Sleep \/ Crash
    BY <2>4 DEF CommitSleep, ChoosePicture, Sleep, Crash, FallingAsleep
  <2>5. CASE Close \/ Move \/ Moved
    BY <2>1, <2>5 DEF Close, Move, Moved, FallingAsleep
  <2> QED BY <2>2, <2>3, <2>4, <2>5
<1> QED BY <1>1, Inductive, PTL DEF Spec, SleepIsFinal

\* What enterDeepSleep() saved of a book being read is what setup() opens,
\* also when the book was moved on the way to sleep.
THEOREM ReadersResume == Spec => ReadingResumes
<1> DEFINE Resumes == at = "route" /\ slept # NoPath /\ held = "none" /\ down # "panic" /\ at' # "down"
                        => at' = "count" /\ opening' = slept /\ Exists(slept)
<1>1. IInv /\ [Next]_vars => [Resumes]_vars
  <2> SUFFICES ASSUME IInv, Next, at = "route", slept # NoPath, held = "none", down # "panic",
                      at' # "down"
               PROVE  at' = "count" /\ opening' = slept /\ Exists(slept)
    OBVIOUS
  <2>1. Exists(slept) /\ app.path = slept /\ app.fromReader /\ app.loads = 0 /\ resume # "Silent"
    BY DEF IInv, SleptInv, ReadingState
  <2>2. Route
    BY DEF Next, BackToSleep, Start, Rearm, RestoreFrame, CountLoad, Open, Opened, LeaveReader,
       Close, Move, Moved, OpenBook, OpenNetwork, LeaveOther, LeaveNetwork, FallAsleep,
       CommitSleep, Swap, ChoosePicture, Sleep, Crash, Die
  <2> QED BY <2>1, <2>2 DEF Route, StartsAtHome, AutoOpen
<1> QED BY <1>1, Inductive, PTL DEF Spec, ReadingResumes

=============================================================================
