--------------------------- MODULE ActivityManager ---------------------------
(***************************************************************************)
(* The screen manager of CrossPoint: one current activity, a stack of the  *)
(* activities below it, at most one navigation request waiting to be       *)
(* applied, and the handshake with the single render task.                 *)
(*                                                                         *)
(* Two threads run.  The main task executes setup(), then loop() for ever; *)
(* its position is mainPc, and while it runs code of an activity (a hook:  *)
(* loop(), onEnter(), or a result handler) any call that such code makes   *)
(* to the manager is possible.  The render task executes renderTaskLoop(); *)
(* its position is renderPc.  Each action is one stretch of code between   *)
(* two points where the other thread can be seen.                          *)
(*                                                                         *)
(* Pixels are abstracted to one fact: panel = a says that the display      *)
(* shows the latest state of activity a; frame = a says the same of the    *)
(* frame the render task is composing.                                     *)
(***************************************************************************)
EXTENDS Naturals, SequencesExt

CONSTANTS
  Activities,      \* identities of activity objects
  NoActivity,      \* a null std::unique_ptr<Activity>
  Kind,            \* what sort of screen each activity is
  MaxDepth,        \* bound on the activities kept on the stack
  MaxCalls,        \* bound on the calls one run of a hook makes
  UnlockedWrites,  \* do activities also change their state without RenderLock?
  RecoveryBoot     \* may setup() enter the firmware picker's activity, which
                   \* starts a child from onEnter()?

Kinds == {"app", "home", "boot", "sleep", "panel", "drive"}

ASSUME ConstantsAssumption ==
  /\ NoActivity \notin Activities
  /\ Kind \in [Activities -> Kinds]
  /\ MaxDepth \in Nat
  /\ MaxCalls \in Nat
  /\ UnlockedWrites \in BOOLEAN
  /\ RecoveryBoot \in BOOLEAN

VARIABLES
  current,          \* currentActivity
  stack,            \* stackActivities, the top of the stack last
  pendingActivity,
  pendingAction,
  handlerFor,       \* the child each activity's resultHandler was stored for
  requestedUpdate,
  renderNotified,   \* the render task's notification count is not 0
  mainNotified,     \* the main task's notification count is not 0
  waiting,          \* waitingTaskHandle is not null
  mutex,            \* holder of renderingMutex
  mainPc,           \* where the main task is
  hook,             \* which activity code it runs when mainPc = "run"
  calls,            \* calls this run of the hook has made
  owed,             \* the hook changed its screen and has not asked to show it
  sleeping,         \* inside enterDeepSleep(): this loop() pass is the last
  renderPc,         \* where the render task is
  wakes,            \* renderTaskLoop()'s local "waiter" is not null
  drawing,          \* activity whose render() is executing
  frame,            \* activity whose latest state the composed frame shows
  panel             \* activity whose latest state the display shows

navigation == <<current, stack, pendingActivity, pendingAction, handlerFor>>
handshake  == <<requestedUpdate, renderNotified, mainNotified, waiting, mutex>>
mainTask   == <<mainPc, hook, calls, owed, sleeping>>
renderTask == <<renderPc, wakes, drawing, frame>>
vars == <<navigation, handshake, mainTask, renderTask, panel>>

MaybeActivity == Activities \cup {NoActivity}

OnStack == Range(stack)

\* Objects that can be created: those the manager does not own already.
Fresh == Activities \ ({current, pendingActivity} \cup OnStack)

\* BootActivity and SleepActivity draw from onEnter() and have no render().
DrawsItself(a) == Kind[a] \in {"boot", "sleep"}

Init ==
  /\ current = NoActivity
  /\ stack = << >>
  /\ pendingActivity = NoActivity
  /\ pendingAction = "None"
  /\ handlerFor = [a \in Activities |-> NoActivity]
  /\ requestedUpdate = FALSE
  /\ renderNotified = FALSE
  /\ mainNotified = FALSE
  /\ waiting = FALSE
  /\ mutex = "free"
  /\ mainPc = "setup"
  /\ hook = "enter"
  /\ calls = 0
  /\ owed = FALSE
  /\ sleeping = FALSE
  /\ renderPc = "take"
  /\ wakes = FALSE
  /\ drawing = NoActivity
  /\ frame = NoActivity
  /\ panel = NoActivity

-----------------------------------------------------------------------------
(***************************************************************************)
(* Variants: what definitions below would be with a plausible mistake in   *)
(* the code (D_Variant for D).  No specification uses them; each shows     *)
(* that some property tells the mistake apart.                             *)
(***************************************************************************)

PopActivity_KeepsPending ==
  /\ UNCHANGED pendingActivity
  /\ pendingAction' = "Pop"

HandlersAfterPop_Copied(parent) == [handlerFor EXCEPT ![current] = NoActivity]

KeepCurrent_AfterExit == stack' = Append(stack, NoActivity)

DropStack_Forgotten == UNCHANGED stack

FlushRequestedUpdate_Overwrites ==
  /\ requestedUpdate' = FALSE
  /\ renderNotified' = requestedUpdate

WaitNotify_Deferred ==
  /\ mainPc = "notify"
  /\ requestedUpdate' = TRUE
  /\ mainPc' = "blocked"
  /\ UNCHANGED <<navigation, renderNotified, mainNotified, waiting, mutex, hook,
                 calls, owed, sleeping, renderTask, panel>>

SwitchLock_NotTaken ==
  /\ mainPc = "pending"
  /\ pendingAction \in {"Push", "Replace"}
  /\ pendingActivity # NoActivity
  /\ mainPc' = "switching"
  /\ UNCHANGED <<navigation, handshake, hook, calls, owed, sleeping, renderTask,
                 panel>>

RenderAcquire_NotTaken ==
  /\ renderPc = "lock"
  /\ renderPc' = "draw"
  /\ UNCHANGED <<navigation, handshake, mainTask, wakes, drawing, frame, panel>>

RenderAcquire_TriesOnce ==
  /\ renderPc = "lock"
  /\ IF mutex = "free"
       THEN mutex' = "render" /\ renderPc' = "draw"
       ELSE renderPc' = "take" /\ UNCHANGED mutex
  /\ UNCHANGED <<navigation, requestedUpdate, renderNotified, mainNotified,
                 waiting, mainTask, wakes, drawing, frame, panel>>

RenderEnd_Unlocks ==
  /\ renderPc = "draw"
  /\ drawing # NoActivity
  /\ panel' = frame
  /\ drawing' = NoActivity
  /\ frame' = NoActivity
  /\ renderPc' = "handoff"
  /\ mutex' = "free"
  /\ UNCHANGED <<navigation, requestedUpdate, renderNotified, mainNotified,
                 waiting, mainTask, wakes>>

RenderHandoff_NotCleared ==
  /\ renderPc = "handoff"
  /\ wakes' = waiting
  /\ renderPc' = "wake"
  /\ UNCHANGED <<navigation, handshake, mainTask, drawing, frame, panel>>

RenderHandoff_RedrawsFirst ==
  /\ renderPc = "handoff"
  /\ IF requestedUpdate
       THEN renderPc' = "draw" /\ UNCHANGED <<wakes, waiting>>
       ELSE wakes' = waiting /\ waiting' = FALSE /\ renderPc' = "wake"
  /\ UNCHANGED <<navigation, requestedUpdate, renderNotified, mainNotified,
                 mutex, mainTask, drawing, frame, panel>>

-----------------------------------------------------------------------------
(***************************************************************************)
(* What the manager's own operations do.                                   *)
(***************************************************************************)

\* The main task starts to run code of the activity that is then current.
StartHook(h, screenOwed) ==
  /\ mainPc' = "run"
  /\ hook' = h
  /\ calls' = 0
  /\ owed' = screenOwed

\* An activity asks for the update of what it changed before its hook returns,
\* unless it has asked for another screen.
HookMayReturn ==
  /\ mainPc = "run"
  /\ ~owed \/ pendingAction # "None"

\* loop() returns; enterDeepSleep() goes on to power the device off.
LoopReturns == mainPc' = IF sleeping THEN "asleep" ELSE "top"

\* Once an activity in gone is destroyed, or its state changes, what was drawn
\* of it is out of date.
Outdates(gone) ==
  /\ panel' = IF panel \in gone THEN NoActivity ELSE panel
  /\ frame' = IF frame \in gone THEN NoActivity ELSE frame

PushActivity(b) ==
  /\ pendingActivity' = b
  /\ pendingAction' = "Push"

PopActivity ==
  /\ pendingActivity' = NoActivity
  /\ pendingAction' = "Pop"

\* The popped activity is destroyed, its parent's handler is moved out.
HandlersAfterPop(parent) ==
  [handlerFor EXCEPT ![current] = NoActivity, ![parent] = NoActivity]

\* What a Push and a Replace do to the stack.
KeepCurrent == stack' = Append(stack, current)

DropStack == stack' = << >>

\* replaceActivity() while there is a current activity: the change is deferred.
ReplaceLater(b) ==
  /\ current # NoActivity
  /\ pendingActivity' = b
  /\ pendingAction' = "Replace"

\* replaceActivity() with no current activity: installed at once, and without
\* RenderLock.
ReplaceNow(b, h) ==
  /\ current = NoActivity
  /\ current' = b
  /\ StartHook(h, TRUE)

\* xTaskNotify(renderTaskHandle) when requestedUpdate.exchange(false) was set.
FlushRequestedUpdate ==
  /\ requestedUpdate' = FALSE
  /\ renderNotified' = (renderNotified \/ requestedUpdate)

-----------------------------------------------------------------------------
(***************************************************************************)
(* Main task: setup() and the start of a loop() iteration.                 *)
(***************************************************************************)

\* setup() shows the splash screen.
GoToBoot ==
  /\ mainPc = "setup"
  /\ \E b \in Fresh : Kind[b] = "boot" /\ ReplaceNow(b, "setup")
  /\ UNCHANGED <<stack, pendingActivity, pendingAction, handlerFor, handshake,
                 sleeping, renderTask, panel>>

\* setup() chooses the first screen: behind the splash screen it is left for
\* the first loop(), otherwise it is entered here.
RouteBoot ==
  /\ mainPc = "setup"
  /\ \E b \in Fresh :
       /\ Kind[b] \in {"home", "app"}
       /\ \/ /\ ReplaceNow(b, "setup")
             /\ UNCHANGED <<pendingActivity, pendingAction>>
          \/ /\ ReplaceLater(b)
             /\ mainPc' = "top"
             /\ UNCHANGED <<current, hook, calls, owed>>
  /\ UNCHANGED <<stack, handlerFor, handshake, sleeping, renderTask, panel>>

\* onEnter() returns to setup(): after the splash screen it goes on to choose,
\* otherwise it ends; what onEnter() left pending waits for loop().
SetupReturns ==
  /\ HookMayReturn
  /\ hook = "setup"
  /\ mainPc' = IF Kind[current] = "boot" THEN "setup" ELSE "top"
  /\ UNCHANGED <<navigation, handshake, hook, calls, owed, sleeping, renderTask,
                 panel>>

\* main.cpp asks for a repaint (the USB cable was plugged or pulled).
RequestRepaint ==
  /\ mainPc = "top"
  /\ ~sleeping
  /\ Kind[current] # "drive"
  /\ requestedUpdate' = TRUE
  /\ UNCHANGED <<navigation, renderNotified, mainNotified, waiting, mutex,
                 mainTask, renderTask, panel>>

\* enterDeepSleep() -> goToSleep(): the loop() pass that follows is the last.
GoToSleep ==
  /\ mainPc = "top"
  /\ ~sleeping
  /\ Kind[current] # "drive"
  /\ \E s \in Fresh : Kind[s] = "sleep" /\ ReplaceLater(s)
  /\ sleeping' = TRUE
  /\ UNCHANGED <<current, stack, handlerFor, handshake, mainPc, hook, calls,
                 owed, renderTask, panel>>

\* loop() swallows a suppressed button release and returns.
SuppressedRelease ==
  /\ mainPc = "top"
  /\ sleeping
  /\ LoopReturns
  /\ UNCHANGED <<navigation, handshake, hook, calls, owed, sleeping, renderTask,
                 panel>>

\* A home gesture that the current activity does not keep for itself.
HomeGesture ==
  /\ mainPc = "top"
  /\ Kind[current] \notin {"home", "drive"}
  /\ \E h \in Fresh : Kind[h] = "home" /\ ReplaceLater(h)
  /\ LoopReturns
  /\ UNCHANGED <<current, stack, handlerFor, handshake, hook, calls, owed,
                 sleeping, renderTask, panel>>

\* The control-center gesture, or a tap on the status bar.
LightPanelGesture ==
  /\ mainPc = "top"
  /\ Kind[current] \notin {"panel", "drive"}
  /\ Len(stack) < MaxDepth
  /\ \E p \in Fresh : Kind[p] = "panel" /\ PushActivity(p)
  /\ LoopReturns
  /\ UNCHANGED <<current, stack, handlerFor, handshake, hook, calls, owed,
                 sleeping, renderTask, panel>>

\* loop() calls currentActivity->loop().
EnterLoop ==
  /\ mainPc = "top"
  /\ StartHook(IF Kind[current] = "drive" THEN "exclusive" ELSE "loop", FALSE)
  /\ UNCHANGED <<navigation, handshake, sleeping, renderTask, panel>>

\* Deep sleep ends in a chip reset, and so does the USB Drive activity:
\* everything starts from setup() again.
Restart ==
  /\ \/ mainPc = "asleep"
     \/ mainPc = "run" /\ hook = "exclusive"
  /\ current' = NoActivity /\ stack' = << >>
  /\ pendingActivity' = NoActivity /\ pendingAction' = "None"
  /\ handlerFor' = [a \in Activities |-> NoActivity]
  /\ requestedUpdate' = FALSE /\ renderNotified' = FALSE
  /\ mainNotified' = FALSE /\ waiting' = FALSE /\ mutex' = "free"
  /\ mainPc' = "setup" /\ hook' = "enter" /\ calls' = 0 /\ owed' = FALSE
  /\ sleeping' = FALSE
  /\ renderPc' = "take" /\ wakes' = FALSE
  /\ drawing' = NoActivity /\ frame' = NoActivity /\ panel' = NoActivity

-----------------------------------------------------------------------------
(***************************************************************************)
(* Main task: what the code of an activity may do.                         *)
(***************************************************************************)

Calling ==
  /\ mainPc = "run"
  /\ ~DrawsItself(current)
  /\ calls < MaxCalls
  /\ calls' = calls + 1

\* The USB Drive activity restarts the device instead of navigating.
Navigating == Calling /\ Kind[current] # "drive"

\* A change of the state render() reads, under RenderLock or without it.
WriteState ==
  /\ Calling
  /\ calls + 1 < MaxCalls      \* leaves room to ask for the update
  /\ UnlockedWrites \/ mutex = "free"
  /\ owed' = TRUE
  /\ Outdates({current})
  /\ UNCHANGED <<navigation, handshake, mainPc, hook, sleeping, renderPc, wakes,
                 drawing>>

\* requestUpdate(immediate)
RequestUpdate(immediate) ==
  /\ Calling
  /\ owed' = FALSE
  /\ IF immediate
       THEN renderNotified' = TRUE /\ UNCHANGED requestedUpdate
       ELSE requestedUpdate' = TRUE /\ UNCHANGED renderNotified
  /\ UNCHANGED <<navigation, mainNotified, waiting, mutex, mainPc, hook,
                 sleeping, renderTask, panel>>

\* Who blocks on a render: neither Home nor the light panel does, but setup()
\* waits for the first screen after a silent reboot, whichever it is.
Waits == Kind[current] \in {"app", "drive"} \/ hook = "setup"

\* requestUpdateAndWait(), its critical section: waitingTaskHandle is set.
WaitRegister ==
  /\ Calling
  /\ Waits
  /\ ~waiting                  \* asserted by the code
  /\ waiting' = TRUE
  /\ mainPc' = "notify"
  /\ owed' = FALSE
  /\ UNCHANGED <<navigation, requestedUpdate, renderNotified, mainNotified,
                 mutex, hook, sleeping, renderTask, panel>>

\* ... xTaskNotify(renderTaskHandle) ...
WaitNotify ==
  /\ mainPc = "notify"
  /\ renderNotified' = TRUE
  /\ mainPc' = "blocked"
  /\ UNCHANGED <<navigation, requestedUpdate, mainNotified, waiting, mutex, hook,
                 calls, owed, sleeping, renderTask, panel>>

\* ... and ulTaskNotifyTake() returns.
WaitReturn ==
  /\ mainPc = "blocked"
  /\ mainNotified
  /\ mainNotified' = FALSE
  /\ mainPc' = "run"
  /\ UNCHANGED <<navigation, requestedUpdate, renderNotified, waiting, mutex,
                 hook, calls, owed, sleeping, renderTask, panel>>

\* No other first screen starts a child before loop() has run.
StartActivityForResult ==
  /\ Navigating
  /\ hook = "setup" => RecoveryBoot
  /\ Len(stack) < MaxDepth
  /\ \E b \in Fresh :
       /\ Kind[b] = "app"
       /\ handlerFor' = [handlerFor EXCEPT ![current] = b]
       /\ PushActivity(b)
  /\ UNCHANGED <<current, stack, handshake, mainPc, hook, owed, sleeping,
                 renderTask, panel>>

Finish ==
  /\ Navigating
  /\ PopActivity
  /\ UNCHANGED <<current, stack, handlerFor, handshake, mainPc, hook, owed,
                 sleeping, renderTask, panel>>

\* goHome(), goToReader(), goToUsbDrive(), ...
GoTo ==
  /\ Navigating
  /\ \E b \in Fresh : Kind[b] \in {"app", "home", "drive"} /\ ReplaceLater(b)
  /\ UNCHANGED <<current, stack, handlerFor, handshake, mainPc, hook, owed,
                 sleeping, renderTask, panel>>

\* BootActivity and SleepActivity paint the display in onEnter().
DrawDirectly ==
  /\ mainPc = "run"
  /\ DrawsItself(current)
  /\ owed
  /\ panel' = current
  /\ owed' = FALSE
  /\ UNCHANGED <<navigation, handshake, mainPc, hook, calls, sleeping,
                 renderTask>>

HookReturns ==
  /\ HookMayReturn
  /\ hook \in {"loop", "enter"}
  /\ mainPc' = "pending"
  /\ UNCHANGED <<navigation, handshake, hook, calls, owed, sleeping, renderTask,
                 panel>>

\* The popped-to activity is redrawn unless its handler asked to leave it.
HandlerReturns ==
  /\ HookMayReturn
  /\ hook = "handler"
  /\ mainPc' = "pending"
  /\ requestedUpdate' = (requestedUpdate \/ pendingAction = "None")
  /\ UNCHANGED <<navigation, renderNotified, mainNotified, waiting, mutex, hook,
                 calls, owed, sleeping, renderTask, panel>>

\* The exclusive-storage path of loop() does not look at pendingAction.
ExclusiveReturns ==
  /\ HookMayReturn
  /\ hook = "exclusive"
  /\ FlushRequestedUpdate
  /\ LoopReturns
  /\ UNCHANGED <<navigation, mainNotified, waiting, mutex, hook, calls, owed,
                 sleeping, renderTask, panel>>

-----------------------------------------------------------------------------
(***************************************************************************)
(* Main task: loop() applies the pending action.                           *)
(***************************************************************************)

PopLock ==
  /\ mainPc = "pending"
  /\ pendingAction = "Pop"
  /\ mutex = "free"
  /\ mutex' = "main"
  /\ mainPc' = "popping"
  /\ UNCHANGED <<navigation, requestedUpdate, renderNotified, mainNotified,
                 waiting, hook, calls, owed, sleeping, renderTask, panel>>

\* The last activity is gone; goHome() follows once the lock is released.
PopLast ==
  /\ mainPc = "popping"
  /\ stack = << >>
  /\ current' = NoActivity
  /\ pendingAction' = "None"
  /\ handlerFor' = [handlerFor EXCEPT ![current] = NoActivity]
  /\ mutex' = "free"
  /\ mainPc' = "goHome"
  /\ Outdates({current})
  /\ UNCHANGED <<stack, pendingActivity, requestedUpdate, renderNotified,
                 mainNotified, waiting, hook, calls, owed, sleeping, renderPc,
                 wakes, drawing>>

PopToParent ==
  /\ mainPc = "popping"
  /\ stack # << >>
  /\ current' = Last(stack)
  /\ stack' = Front(stack)
  /\ pendingAction' = "None"
  /\ mutex' = "free"
  /\ Outdates({current})
  /\ handlerFor' = HandlersAfterPop(Last(stack))
  /\ IF handlerFor[Last(stack)] # NoActivity
       THEN /\ StartHook("handler", FALSE)
            /\ UNCHANGED requestedUpdate
       ELSE /\ requestedUpdate' = TRUE
            /\ mainPc' = "pending"
            /\ UNCHANGED <<hook, calls, owed>>
  /\ UNCHANGED <<pendingActivity, renderNotified, mainNotified, waiting,
                 sleeping, renderPc, wakes, drawing>>

\* goHome() with no current activity writes currentActivity without the lock.
GoHomeAfterPop ==
  /\ mainPc = "goHome"
  /\ \E h \in Fresh : Kind[h] = "home" /\ ReplaceNow(h, "enter")
  /\ UNCHANGED <<stack, pendingActivity, pendingAction, handlerFor, handshake,
                 sleeping, renderTask, panel>>

SwitchLock ==
  /\ mainPc = "pending"
  /\ pendingAction \in {"Push", "Replace"}
  /\ pendingActivity # NoActivity
  /\ mutex = "free"
  /\ mutex' = "main"
  /\ mainPc' = "switching"
  /\ UNCHANGED <<navigation, requestedUpdate, renderNotified, mainNotified,
                 waiting, hook, calls, owed, sleeping, renderTask, panel>>

\* Push keeps the current activity, Replace destroys it and the whole stack;
\* the lock is released before onEnter() of the new one runs.
Switch ==
  /\ mainPc = "switching"
  /\ \/ /\ pendingAction = "Push"
        /\ KeepCurrent
        /\ UNCHANGED <<handlerFor, panel, frame>>
     \/ /\ pendingAction = "Replace"
        /\ DropStack
        /\ handlerFor' = [a \in Activities |-> NoActivity]
        /\ Outdates({current} \cup OnStack)
  /\ current' = pendingActivity
  /\ pendingActivity' = NoActivity
  /\ pendingAction' = "None"
  /\ mutex' = "free"
  /\ StartHook("enter", TRUE)
  /\ UNCHANGED <<requestedUpdate, renderNotified, mainNotified, waiting,
                 sleeping, renderPc, wakes, drawing>>

\* Nothing is pending any more: the render task is told and loop() returns.
Flush ==
  /\ mainPc = "pending"
  /\ pendingAction = "None"
  /\ FlushRequestedUpdate
  /\ LoopReturns
  /\ UNCHANGED <<navigation, mainNotified, waiting, mutex, hook, calls, owed,
                 sleeping, renderTask, panel>>

-----------------------------------------------------------------------------
(***************************************************************************)
(* Render task: renderTaskLoop().                                          *)
(***************************************************************************)

RenderTake ==
  /\ renderPc = "take"
  /\ renderNotified
  /\ renderNotified' = FALSE
  /\ renderPc' = "lock"
  /\ UNCHANGED <<navigation, requestedUpdate, mainNotified, waiting, mutex,
                 mainTask, wakes, drawing, frame, panel>>

RenderAcquire ==
  /\ renderPc = "lock"
  /\ mutex = "free"
  /\ mutex' = "render"
  /\ renderPc' = "draw"
  /\ UNCHANGED <<navigation, requestedUpdate, renderNotified, mainNotified,
                 waiting, mainTask, wakes, drawing, frame, panel>>

\* currentActivity->render() starts, if there is one, and composes its frame.
RenderBegin ==
  /\ renderPc = "draw"
  /\ drawing = NoActivity
  /\ IF current # NoActivity /\ ~DrawsItself(current)
       THEN /\ drawing' = current
            /\ frame' = current
            /\ UNCHANGED renderPc
       ELSE /\ renderPc' = "handoff"
            /\ UNCHANGED <<drawing, frame>>
  /\ UNCHANGED <<navigation, handshake, mainTask, wakes, panel>>

\* The frame reaches the display and render() returns; some render()s ask for
\* another update before that.  The lock is still held: render(RenderLock&&)
\* binds a reference, the lock object stays in renderTaskLoop().
RenderEnd ==
  /\ renderPc = "draw"
  /\ drawing # NoActivity
  /\ panel' = frame
  /\ drawing' = NoActivity
  /\ frame' = NoActivity
  /\ renderPc' = "handoff"
  /\ requestedUpdate' \in {requestedUpdate, TRUE}
  /\ UNCHANGED <<navigation, renderNotified, mainNotified, waiting, mutex,
                 mainTask, wakes>>

\* waiter = waitingTaskHandle; waitingTaskHandle = nullptr (critical section)
RenderHandoff ==
  /\ renderPc = "handoff"
  /\ wakes' = waiting
  /\ waiting' = FALSE
  /\ renderPc' = "wake"
  /\ UNCHANGED <<navigation, requestedUpdate, renderNotified, mainNotified,
                 mutex, mainTask, drawing, frame, panel>>

RenderWake ==
  /\ renderPc = "wake"
  /\ mainNotified' = (mainNotified \/ wakes)
  /\ wakes' = FALSE
  /\ renderPc' = "release"
  /\ UNCHANGED <<navigation, requestedUpdate, renderNotified, waiting, mutex,
                 mainTask, drawing, frame, panel>>

\* The end of the loop body destroys the RenderLock.
RenderRelease ==
  /\ renderPc = "release"
  /\ mutex' = "free"
  /\ renderPc' = "take"
  /\ UNCHANGED <<navigation, requestedUpdate, renderNotified, mainNotified,
                 waiting, mainTask, wakes, drawing, frame, panel>>

-----------------------------------------------------------------------------
Setup  == GoToBoot \/ RouteBoot \/ SetupReturns
Top    == RequestRepaint \/ GoToSleep \/ SuppressedRelease \/ HomeGesture
          \/ LightPanelGesture \/ EnterLoop
Call   == WriteState \/ RequestUpdate(TRUE) \/ RequestUpdate(FALSE)
          \/ WaitRegister \/ StartActivityForResult \/ Finish \/ GoTo
Wait   == WaitNotify \/ WaitReturn
Return == DrawDirectly \/ HookReturns \/ HandlerReturns \/ ExclusiveReturns
Apply  == PopLock \/ PopLast \/ PopToParent \/ GoHomeAfterPop \/ SwitchLock
          \/ Switch \/ Flush
Render == RenderTake \/ RenderAcquire \/ RenderBegin \/ RenderEnd
          \/ RenderHandoff \/ RenderWake \/ RenderRelease

Next == Setup \/ Top \/ Call \/ Wait \/ Return \/ Apply \/ Restart \/ Render

Spec == Init /\ [][Next]_vars

(***************************************************************************)
(* Fairness: both threads are scheduled, so code that can run does run.    *)
(* Nothing is assumed of what users or activities choose to do.  The main  *)
(* task sleeps outside the lock in every iteration (main.cpp, delay()), so *)
(* a render task that waits for the mutex gets it sooner or later: strong  *)
(* fairness of the acquisition.                                            *)
(***************************************************************************)
Fairness ==
  /\ WF_vars(Render)
  /\ SF_vars(RenderAcquire)
  /\ WF_vars(Wait)
  /\ WF_vars(Apply)

FairSpec == Spec /\ Fairness

-----------------------------------------------------------------------------
(***************************************************************************)
(* Properties.                                                             *)
(***************************************************************************)

OwnersOK ==
  /\ current \in MaybeActivity /\ stack \in Seq(Activities)
  /\ pendingActivity \in MaybeActivity
  /\ handlerFor \in [Activities -> MaybeActivity]
  /\ drawing \in MaybeActivity /\ frame \in MaybeActivity
  /\ panel \in MaybeActivity

PlacesOK ==
  /\ pendingAction \in {"None", "Push", "Pop", "Replace"}
  /\ mutex \in {"free", "main", "render"}
  /\ mainPc \in {"setup", "top", "run", "notify", "blocked", "pending",
                 "popping", "goHome", "switching", "asleep"}
  /\ hook \in {"setup", "loop", "enter", "handler", "exclusive"}
  /\ calls \in Nat
  /\ renderPc \in {"take", "lock", "draw", "handoff", "wake", "release"}

FlagsOK ==
  /\ requestedUpdate \in BOOLEAN /\ renderNotified \in BOOLEAN
  /\ mainNotified \in BOOLEAN /\ waiting \in BOOLEAN
  /\ owed \in BOOLEAN /\ sleeping \in BOOLEAN
  /\ wakes \in BOOLEAN

\* Every variable keeps its type.
TypeOK == OwnersOK /\ PlacesOK /\ FlagsOK

\* The activity whose render() is executing is the current one: no step of the
\* main task destroys it, or moves it to the stack, under the render task.  This
\* is the race that taking the lock before reading currentActivity closes.
DrawsOnlyTheCurrent == drawing # NoActivity => drawing = current

\* loop() never spins on a pending action it cannot apply: a Push or a Replace
\* has an activity to launch, and nothing else holds one.
PendingIsComplete ==
  (pendingActivity # NoActivity) <=> (pendingAction \in {"Push", "Replace"})

\* A result handler waits only for the activity directly above its owner, so the
\* result of one child is never delivered to the handler stored for another.
\* Recovery mode breaks it: a gesture in the first loop() replaces the child.
ResultsReachTheirStarter ==
  \A i \in 1 .. Len(stack) :
    handlerFor[stack[i]] \in
      {NoActivity, IF i < Len(stack) THEN stack[i + 1] ELSE current}

\* Nobody wakes the main task but the render task answering its own request: a
\* notification is outstanding only inside its requestUpdateAndWait().
NoStrayWake ==
  mainNotified => mainPc \in {"notify", "blocked"} /\ ~waiting /\ ~wakes

\* While the main task waits someone is bound to wake it: its handle is still
\* registered with a notification on the way, or in the render task's hand, or
\* the wake was sent.
WaiterIsRemembered ==
  mainPc = "blocked" =>
    \/ waiting /\ (renderNotified \/ renderPc \in {"lock", "draw", "handoff"})
    \/ wakes
    \/ mainNotified

\* No update is lost: once both tasks are idle with no request recorded
\* anywhere, the display shows the latest state of the current activity.
IdleDisplayIsCurrent ==
  ( /\ mainPc = "top" /\ pendingAction = "None"
    /\ renderPc = "take" /\ ~renderNotified /\ ~requestedUpdate
    /\ ~DrawsItself(current) )
  => panel = current

\* requestUpdateAndWait() returns only when the display shows the state its
\* caller left, as the calls made before blocking work rely on.
WaitReturnsDrawn == mainPc = "blocked" /\ mainNotified => panel = current

\* Nothing is painted over the sleep screen once onEnter() has drawn it.
SleepScreenStays ==
  mainPc = "asleep" /\ Kind[current] = "sleep" => panel = current

\* The device goes to sleep behind the sleep screen.
SleepScreenIsUp == mainPc = "asleep" => Kind[current] = "sleep"

\* requestUpdateAndWait() returns.
WaitEnds == mainPc = "blocked" ~> mainPc # "blocked"

\* A notified render task gets to look at the current activity, whatever the
\* main task does with the lock meanwhile, unless the device restarts.
NotifiedRenders == renderNotified ~> renderPc = "draw" \/ mainPc = "setup"

\* The screens that are open, the current one last.
Shown == IF current = NoActivity THEN stack ELSE Append(stack, current)

\* Seen as a stack of screens, the manager behaves as ScreenStack says.
Promise == INSTANCE ScreenStack WITH
  Screens <- Activities,
  Nothing <- NoActivity,
  screens <- Shown,
  display <- panel

ImplementsScreenStack == Promise!Spec
=============================================================================
