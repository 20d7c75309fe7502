------------------------------ MODULE BootGuard ------------------------------
(***************************************************************************)
(* From one start of the device to the next: what setup() opens, what      *)
(* enterDeepSleep() leaves behind, and what the settings file and the      *)
(* flags in RTC memory carry over a sleep, a restart or a crash.           *)
(*                                                                         *)
(* A step ends where the program writes to the card, so that a crash can   *)
(* come before, during or after every write.  Drawing, the network and the *)
(* book itself are left out: opening a book loads it, fails or crashes.    *)
(***************************************************************************)
EXTENDS Naturals

CONSTANT Books   \* books on the card

ASSUME BooksAssumption == "none" \notin Books

VARIABLES
  at,      \* where the main task is; "down" when it does not run
  down,    \* why it does not: "asleep", "dead", "restart", "panic", "watchdog"
  disk,    \* state.json: the fields below, or Lost
  app,     \* APP_STATE
  frame,   \* SLEEP_FRAME_FILE: "none", "cut", or of the "last" or an "old" sleep
  place,   \* where each book's file is: it may be moved to /Read
  target,  \* silentRebootTarget, "none" without the magic number
  resume,  \* BootResume of this start
  held,    \* button held while starting: "none", "Back" or "recovery"
  opening, \* path of the book being opened or read
  next,    \* the screen after the reader's onExit()
  deep     \* deepSleepInProgress

device  == <<at, down, target, resume, held, next, deep>>
card    == <<disk, frame, place>>

VARIABLES  \* History, for the properties.
  opener,  \* who opened the book being loaded or read: the "user", setup() after
           \* a silent "restart" or, having counted it, at any other "start"; "none"
  suspect, \* the opener of the last book cut by a crash, until a book is closed
           \* or the user opens one; "none"
  slept,   \* the book being read when the device last fell asleep in good order
  intact,  \* since this sleep began, all was written and left in order
  wakes    \* starts that painted over the retained frame since the last sleep

history == <<opener, suspect, slept, intact, wakes>>
vars    == <<device, card, app, opening, history>>

NoPath == [book |-> "none", folder |-> "none"]
Path(b) == [book |-> b, folder |-> place[b]]
Exists(p) == p # NoPath /\ place[p.book] = p.folder

\* A file that is missing, empty or cut: every field takes its default.
Lost     == [path |-> NoPath, loads |-> 0, fromReader |-> FALSE, splash |-> TRUE]

Init ==
  /\ at = "down" /\ down = "dead" /\ disk = Lost /\ app = Lost
  /\ frame = "none" /\ place = [b \in Books |-> "library"]
  /\ target = "none" /\ resume = "Splash" /\ held = "none"
  /\ opening = NoPath /\ next = "home" /\ deep = FALSE
  /\ opener = "none" /\ suspect = "none" /\ slept = NoPath /\ intact = TRUE
  /\ wakes = 0

\* APP_STATE.saveToFile(): the file is removed and written anew; nobody looks
\* at the result.
Save ==
  \/ disk' = app' /\ UNCHANGED intact
  \/ disk' = Lost /\ intact' = FALSE

-----------------------------------------------------------------------------
(* setup().                                                                *)

Wakeups ==
  CASE down = "asleep" -> {"PowerButton", "AfterUSBPower", "AfterFlash"}
    [] down = "dead"   -> {"PowerButton", "Other", "AfterUSBPower"}  \* which, the board decides
    [] OTHER           -> {"Other"}

Resume(wakeup, state) ==
  IF target # "none" THEN "Silent"
  ELSE IF wakeup = "PowerButton" /\ ~state.splash THEN "SplashlessWake" ELSE "Splash"

\* A press that was not held goes straight back to sleep and, on most boards,
\* so does a start by USB power.
BackToSleep ==
  /\ at = "down" /\ Wakeups \cap {"PowerButton", "AfterUSBPower"} # {}
  /\ target' = "none" /\ down' = "asleep"
  /\ UNCHANGED <<at, resume, held, next, deep, card, app, opening, history>>

Start ==
  /\ at = "down"
  /\ \E wakeup \in Wakeups, button \in {"none", "Back", "recovery"} :
       /\ button = "recovery" => wakeup = "PowerButton"
       /\ held' = button
       /\ resume' = Resume(wakeup, disk)
       /\ at' = IF resume' = "SplashlessWake" THEN "rearm" ELSE "route"
  /\ app' = disk
  /\ UNCHANGED <<down, target, next, deep, card, opening, history>>

RearmSplash == app' = [app EXCEPT !.splash = TRUE]

Rearm_InMemory ==
  /\ at = "rearm"
  /\ RearmSplash
  /\ at' = "frame" /\ wakes' = wakes + 1
  /\ UNCHANGED <<down, target, resume, held, next, deep, card, opening,
                 opener, suspect, slept, intact>>

\* The splash comes back before anything is painted.
Rearm ==
  /\ at = "rearm"
  /\ RearmSplash /\ Save
  /\ at' = "frame" /\ wakes' = wakes + 1
  /\ slept' = IF disk' = app' THEN slept ELSE NoPath
  /\ UNCHANGED <<down, target, resume, held, next, deep, frame, place, opening, opener, suspect>>

\* loadSleepFrameBuffer(): the file is removed whether it can be used or not,
\* and stays when it cannot be opened or removed.
RestoreFrame ==
  /\ at = "frame"
  /\ frame' \in {"none", frame}
  /\ at' = "route"
  /\ UNCHANGED <<down, target, resume, held, next, deep, disk, place, app, opening, history>>

GoHome == at' = "home" /\ UNCHANGED <<app, opening, opener>>

StartsAtHome_IgnoresCount == app.path = NoPath \/ ~app.fromReader \/ held = "Back"

StartsAtHome ==
  app.path = NoPath \/ ~app.fromReader \/ held = "Back" \/ app.loads > 0

\* The count and the empty path outlive a crash of the book's opening.
AutoOpen ==
  /\ opening' = app.path
  /\ app' = [app EXCEPT !.path = NoPath, !.loads = @ + 1]
  /\ at' = "count" /\ opener' = "start"

Route ==
  /\ at = "route"
  /\ target' = "none"
  /\ slept' = NoPath
  /\ IF held = "recovery" \/ down = "panic"
       THEN at' = "other" /\ UNCHANGED <<app, opening, opener>>
     ELSE IF resume = "Silent"
       THEN IF target = "reader" /\ app.path # NoPath
              THEN at' = "open" /\ opening' = app.path /\ opener' = "restart" /\ UNCHANGED app
              ELSE GoHome
     ELSE IF StartsAtHome THEN GoHome ELSE AutoOpen
  /\ UNCHANGED <<down, resume, held, next, deep, card, suspect, intact, wakes>>

CountLoad ==
  /\ at = "count"
  /\ app' = app /\ Save
  /\ at' = "open"
  /\ UNCHANGED <<down, target, resume, held, next, deep, frame, place, opening,
                 opener, suspect, slept, wakes>>

-----------------------------------------------------------------------------
(* The reader.                                                             *)

\* ReaderActivity::onEnter(): the book is there and loads, or finish() is called.
Open ==
  /\ at = "open"
  /\ \/ /\ Exists(opening)
        /\ app' = [app EXCEPT !.path = opening]
        /\ at' = "opened" /\ UNCHANGED next
     \/ at' = "close" /\ next' = "home" /\ UNCHANGED app
  /\ UNCHANGED <<down, target, resume, held, deep, card, opening, history>>

Opened ==
  /\ at = "opened"
  /\ app' = app /\ Save
  /\ at' = "reader"
  /\ UNCHANGED <<down, target, resume, held, next, deep, frame, place, opening,
                 opener, suspect, slept, wakes>>

\* Leaving the reader for home or for a synchronisation; the network screens
\* replace the reader.
LeaveReader ==
  /\ at = "reader"
  /\ \E to \in {"home", "sync"} : next' = to
  /\ at' = "close"
  /\ UNCHANGED <<down, target, resume, held, deep, card, app, opening, history>>

ResetLoads == app' = [app EXCEPT !.loads = 0]

\* ReaderActivity::onExit().  A finished book is then moved to /Read.
Close ==
  /\ at = "close"
  /\ ResetLoads /\ Save
  /\ opener' = "none" /\ suspect' = "none"
  /\ at' \in {next} \cup (IF Exists(opening) /\ opening.folder = "library" THEN {"move"} ELSE {})
  /\ UNCHANGED <<down, target, resume, held, next, deep, frame, place, opening, slept, wakes>>

Move ==
  /\ at = "move"
  /\ place' = [place EXCEPT ![opening.book] = "Read"]
  /\ at' = "moved"
  /\ UNCHANGED <<down, target, resume, held, next, deep, disk, frame, app, opening, history>>

FollowBook_Skipped == UNCHANGED <<app, disk, intact>>

FollowBook ==
  IF app.path = opening
    THEN app' = [app EXCEPT !.path.folder = "Read"] /\ Save
    ELSE UNCHANGED <<app, disk, intact>>

Moved ==
  /\ at = "moved"
  /\ FollowBook
  /\ opening' = [opening EXCEPT !.folder = "Read"]
  /\ at' = next
  /\ UNCHANGED <<down, target, resume, held, next, deep, frame, place,
                 opener, suspect, slept, wakes>>

-----------------------------------------------------------------------------
(* The other screens.                                                      *)

OpenBook ==
  /\ at \in {"home", "other"}
  /\ \E b \in Books : opening' = Path(b)
  /\ at' = "open" /\ opener' = "user" /\ suspect' = "none"
  /\ UNCHANGED <<down, target, resume, held, next, deep, card, app, slept, intact, wakes>>

OpenNetwork ==
  /\ at \in {"home", "other"}
  /\ at' = "network"
  /\ UNCHANGED <<down, target, resume, held, next, deep, card, app, opening, history>>

LeaveOther ==
  /\ at = "other"
  /\ at' = "home"
  /\ UNCHANGED <<down, target, resume, held, next, deep, card, app, opening, history>>

\* silentRestart() and silentRestartToReader(), from the onExit() of a screen
\* that used the network.
SilentRestart(to, then) ==
  IF deep
    THEN at' = then /\ UNCHANGED <<down, target>>
    ELSE at' = "down" /\ down' = "restart" /\ target' = to

\* Where touch keeps its power, or nothing was switched on, nothing restarts:
\* a synchronisation reopens its book.
LeaveNetwork ==
  /\ at \in {"network", "sync"}
  /\ \/ SilentRestart(IF at = "sync" THEN "reader" ELSE "home", "home") /\ UNCHANGED opener
     \/ at = "sync" /\ at' = "open" /\ opener' = "user" /\ UNCHANGED <<down, target>>
     \/ at = "network" /\ at' = "home" /\ UNCHANGED <<down, target, opener>>
  /\ UNCHANGED <<resume, held, next, deep, card, app, opening, suspect, slept, intact, wakes>>

-----------------------------------------------------------------------------
(* enterDeepSleep().                                                       *)

FallAsleep ==
  /\ at \in {"home", "other", "network", "sync", "reader"}
  /\ app' = [app EXCEPT !.fromReader = (at = "reader"), !.splash = FALSE]
  /\ at' = "sleeping" /\ next' = at
  /\ frame' = IF frame = "last" THEN "old" ELSE frame
  /\ intact' = TRUE /\ wakes' = 0
  /\ UNCHANGED <<down, target, resume, held, deep, disk, place, opening, opener, suspect, slept>>

CommitSleep_Late ==
  /\ at = "sleeping"
  /\ app' = app /\ Save
  /\ at' = "swap"
  /\ UNCHANGED <<down, target, resume, held, next, deep, frame, place, opening,
                 opener, suspect, slept, wakes>>

\* The flag is set before goToSleep() runs the onExit() of the screen.
CommitSleep ==
  /\ at = "sleeping"
  /\ app' = app /\ Save
  /\ deep' = TRUE
  /\ at' = "swap"
  /\ UNCHANGED <<down, target, resume, held, next, frame, place, opening,
                 opener, suspect, slept, wakes>>

\* goToSleep() replaces the screen, whose onExit() runs; or its loop() returns
\* early and the screen stays.
Swap ==
  /\ at = "swap"
  /\ \/ next = "reader" /\ at' = "close" /\ next' = "picture" /\ UNCHANGED <<down, target, intact>>
     \/ /\ next \in {"network", "sync"}
        /\ SilentRestart(IF next = "sync" THEN "reader" ELSE "home", "picture")
        /\ UNCHANGED <<next, intact>>
     \/ next # "reader" /\ at' = "picture" /\ UNCHANGED <<down, target, next, intact>>
     \/ at' = "sleepFrame" /\ intact' = (intact /\ next # "reader") /\ UNCHANGED <<down, target, next>>
  /\ UNCHANGED <<resume, held, deep, card, app, opening, opener, suspect, slept, wakes>>

\* SleepActivity::onEnter() remembers which picture it drew from a folder.
ChoosePicture ==
  /\ at = "picture"
  /\ app' = app
  /\ Save \/ UNCHANGED <<disk, intact>>
  /\ at' = "sleepFrame"
  /\ UNCHANGED <<down, target, resume, held, next, deep, frame, place, opening,
                 opener, suspect, slept, wakes>>

SleepFrame_Kept == (frame' = frame \/ frame' = "last") /\ UNCHANGED intact

\* A quick resume keeps the screen in a file; any other sleep removes it.  A
\* file that cannot be opened, or removed, stays as it is.
SleepFrame ==
  \/ frame' \in {"last", "cut", "none"} /\ UNCHANGED intact
  \/ frame' = frame /\ intact' = FALSE

Sleep ==
  /\ at = "sleepFrame"
  /\ SleepFrame
  /\ at' = "down" /\ down' = "asleep" /\ deep' = FALSE /\ opener' = "none"
  /\ slept' = IF app.fromReader /\ intact THEN app.path ELSE NoPath
  /\ UNCHANGED <<target, resume, held, next, disk, place, app, opening, suspect, wakes>>

-----------------------------------------------------------------------------
(* Crashes.                                                                *)

\* Between two steps that save, the file may be gone, cut or already new.
Saving == at \in {"rearm", "count", "opened", "close", "moved", "sleeping", "picture"}

Reading == at \in {"open", "opened", "reader"}

Crash ==
  /\ at # "down"
  /\ \E why \in {"dead", "panic", "watchdog"} : down' = why
  /\ at' = "down" /\ deep' = FALSE /\ target' = "none"
  /\ disk' \in IF Saving THEN {disk, Lost} ELSE {disk}
  /\ frame' \in IF at = "sleepFrame" THEN {frame, "cut"} ELSE {frame}
  /\ suspect' = IF Reading THEN opener ELSE suspect
  /\ opener' = "none" /\ slept' = IF disk' = disk THEN slept ELSE NoPath
  /\ intact' = FALSE
  /\ UNCHANGED <<resume, held, next, place, app, opening, wakes>>

\* The battery runs out while asleep.
Die ==
  /\ at = "down" /\ down = "asleep"
  /\ down' = "dead"
  /\ UNCHANGED <<at, target, resume, held, next, deep, card, app, opening, history>>

-----------------------------------------------------------------------------
Next ==
  \/ BackToSleep \/ Start \/ Rearm \/ RestoreFrame \/ Route \/ CountLoad
  \/ Open \/ Opened \/ LeaveReader \/ Close \/ Move \/ Moved
  \/ OpenBook \/ OpenNetwork \/ LeaveOther \/ LeaveNetwork
  \/ FallAsleep \/ CommitSleep \/ Swap \/ ChoosePicture \/ Sleep \/ Crash \/ Die

Spec == Init /\ [][Next]_vars

-----------------------------------------------------------------------------
(* Properties.                                                             *)

\* The guard of setup(): after a book that it had counted was cut by a crash,
\* it opens none, through any crashes and sleeps; after the crash of a book that
\* was not counted, because the user or a silent restart had opened it, it opens
\* one at most, and counts it.  Both until a book is closed or the user opens one.
NoBootLoop ==
  /\ suspect = "start" => opener = "none"
  /\ suspect # "none" => opener \in {"none", "start"}

\* A device that fell asleep in good order while a book was read starts with
\* that book, at the place its file is now.
ReadingResumes ==
  [][at = "route" /\ slept # NoPath /\ held = "none" /\ down # "panic" /\ at' # "down"
       => at' = "count" /\ opening' = slept /\ Exists(slept)]_vars

\* From the decision to sleep until the device is off.
FallingAsleep ==
  \/ at \in {"sleeping", "swap", "picture", "sleepFrame"}
  \/ at \in {"close", "move", "moved"} /\ next = "picture"

\* A device that falls asleep ends up off, asleep or by a crash: no screen it
\* leaves on the way restarts it, and none is opened.
SleepIsFinal ==
  [][FallingAsleep => FallingAsleep' \/ (at' = "down" /\ down' # "restart")]_vars

\* A start that keeps the retained frame is followed by one with the splash,
\* unless the device slept in between: a start that dies while painting does
\* not repeat itself on an empty screen.
SplashlessOnce == wakes <= 1

\* After a sleep in good order and no crash since, a frame restored at the
\* wake is the one that sleep left on the panel.
FreshFrame == at = "frame" /\ intact => frame # "old"
=============================================================================
