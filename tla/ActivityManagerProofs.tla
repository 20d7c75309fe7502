------------------------ MODULE ActivityManagerProofs ------------------------
(***************************************************************************)
(* Proofs about ActivityManager, for every set of activities, any depth of *)
(* the stack and any number of calls that a hook makes: the type invariant *)
(* and the safety invariants, and that the manager implements ScreenStack. *)
(*                                                                         *)
(* The inductive invariant is a conjunction of themes.  One lemma shows    *)
(* for each theme that a step preserves it, by cases on the groups of      *)
(* actions of Next.                                                        *)
(***************************************************************************)
EXTENDS ActivityManager, SequenceTheorems, TLAPS

(***************************************************************************)
(* The inductive invariant, by theme.                                      *)
(***************************************************************************)

\* Who holds renderingMutex, told from where each task is.
LockOwner ==
  /\ mutex = "render" <=> renderPc \in {"draw", "handoff", "wake", "release"}
  /\ mutex = "main" <=> mainPc \in {"popping", "switching"}

\* When there is a current activity, and what loop() has decided to apply.
Position ==
  /\ mainPc \notin {"setup", "goHome"} => current # NoActivity
  /\ current = NoActivity => stack = << >>
  /\ mainPc = "popping" => pendingAction = "Pop"
  /\ mainPc = "switching" => pendingAction \in {"Push", "Replace"}

\* Activity objects have one owner.
OneOwner ==
  /\ PendingIsComplete
  /\ pendingActivity # NoActivity
     => pendingActivity \notin {current} \cup OnStack
  /\ current \notin OnStack
  /\ IsInjective(stack)

\* What is being drawn, and of whom the pixels are.
Pixels ==
  /\ drawing # NoActivity => drawing = current /\ renderPc = "draw"
                             /\ ~DrawsItself(drawing)
  /\ frame \in {NoActivity, drawing}
  /\ panel \in {NoActivity, current} \cup OnStack
  /\ drawing # NoActivity /\ panel = drawing => frame = drawing

\* The wake-up call of a waiting main task is in exactly one place.
Handshake ==
  /\ waiting => mainPc \in {"notify", "blocked"} /\ ~wakes /\ ~mainNotified
  /\ wakes => renderPc = "wake" /\ mainPc \in {"notify", "blocked"}
     /\ ~mainNotified
  /\ mainNotified => mainPc \in {"notify", "blocked"}
  /\ mainPc = "notify" => waiting \/ wakes \/ mainNotified
  /\ WaiterIsRemembered

\* A current activity that is not displayed will be: a request is recorded, a
\* render is coming, or its code has still to ask.
UpdateComes ==
  current # NoActivity /\ ~DrawsItself(current) =>
    \/ panel = current
    \/ requestedUpdate \/ renderNotified \/ renderPc = "lock"
    \/ renderPc = "draw" /\ (drawing = NoActivity \/ frame = current)
    \/ mainPc = "notify"
    \/ mainPc \in {"run", "blocked"} /\ (owed \/ hook = "handler")
    \/ pendingAction # "None"

\* A sleep screen is only ever put up by the last loop() pass.
LastPass ==
  /\ \A i \in 1 .. Len(stack) : Kind[stack[i]] # "sleep"
  /\ pendingActivity # NoActivity /\ Kind[pendingActivity] = "sleep" =>
       sleeping /\ pendingAction = "Replace"
  /\ current # NoActivity /\ Kind[current] = "sleep" =>
       /\ sleeping
       /\ pendingAction = "None"
       /\ mainPc \in {"run", "pending", "asleep"}
       /\ mainPc = "run" => hook = "enter"
       /\ panel # current => mainPc = "run" /\ owed

\* Between locked writes, what a render that answers the main task has shown is
\* the state its caller left; while setup() runs no render can be under way.
Answered ==
  /\ mainPc \in {"notify", "blocked"} => Waits /\ ~DrawsItself(current)
  /\ ( \/ mainPc = "setup"
       \/ mainPc = "run" /\ hook = "setup" /\ Kind[current] = "boot" )
     => renderPc = "take" /\ ~renderNotified
  /\ ~UnlockedWrites =>
       /\ drawing # NoActivity => frame = drawing
       /\ renderPc = "handoff" /\ current # NoActivity /\ ~DrawsItself(current)
          /\ Waits
            => panel = current
       /\ wakes \/ mainNotified => panel = current

\* The handler of the current activity is for the child about to be pushed.
Handlers ==
  ~RecoveryBoot =>
    /\ ResultsReachTheirStarter
    /\ \A a \in Activities :
         handlerFor[a] # NoActivity => a \in {current} \cup OnStack
    /\ current # NoActivity /\ handlerFor[current] # NoActivity =>
         /\ mainPc \in {"run", "notify", "blocked", "pending", "popping",
            "switching"}
         /\ hook \notin {"setup", "exclusive"}
         /\ pendingAction # "None"
         /\ pendingAction = "Push" => handlerFor[current] = pendingActivity
    /\ mainPc \in {"run", "notify", "blocked"} /\ hook = "exclusive"
       => Kind[current] = "drive"

Inv == TypeOK /\ LockOwner /\ Position /\ OneOwner /\ Pixels /\ Handshake
       /\ UpdateComes /\ LastPass /\ Answered /\ Handlers

-----------------------------------------------------------------------------
(***************************************************************************)
(* The stack as a sequence.                                                *)
(***************************************************************************)

\* Sequences as stacks: the empty one,
LEMMA RangeOfEmpty == Range(<< >>) = {}
<1>1. << >> \in Seq({}) /\ Len(<< >>) = 0
  BY EmptySeq
<1>2. Range(<< >>) = {<< >>[i] : i \in 1 .. 0}
  BY <1>1, RangeEquality
<1> QED BY <1>2

\* one with an element pushed,
LEMMA PushedStack ==
  ASSUME NEW S, NEW s \in Seq(S), NEW a \in S
  PROVE  /\ Append(s, a) \in Seq(S)
         /\ Range(Append(s, a)) = Range(s) \cup {a}
         /\ a \notin Range(s) /\ IsInjective(s) => IsInjective(Append(s, a))
<1> DEFINE t == Append(s, a)
<1>1. /\ t \in Seq(S) /\ Len(t) = Len(s) + 1 /\ Len(s) \in Nat
      /\ \A i \in 1 .. Len(s) : t[i] = s[i]
      /\ t[Len(s) + 1] = a
  BY AppendProperties, LenProperties
<1>2. Range(t) = Range(s) \cup {a}
  <2>1. Range(t) = {t[i] : i \in 1 .. Len(t)}
           /\ Range(s) = {s[i] : i \in 1 .. Len(s)}
    BY <1>1, RangeEquality
  <2> QED BY <2>1, <1>1
<1>3. ASSUME a \notin Range(s), IsInjective(s) PROVE IsInjective(t)
  <2>1. DOMAIN t = 1 .. Len(s) + 1 /\ DOMAIN s = 1 .. Len(s)
    BY <1>1, LenProperties
  <2>2. \A i \in 1 .. Len(s) : s[i] # a
    BY <1>3, RangeEquality
  <2> QED BY <1>1, <1>3, <2>1, <2>2 DEF IsInjective
<1> QED BY <1>1, <1>2, <1>3

\* its leading part,
LEMMA Prefix ==
  ASSUME NEW S, NEW s, NEW n \in Nat, \A i \in 1 .. n : s[i] \in S
  PROVE  /\ SubSeq(s, 1, n) \in Seq(S)
         /\ Len(SubSeq(s, 1, n)) = n
         /\ \A i \in 1 .. n : SubSeq(s, 1, n)[i] = s[i]
<1> DEFINE t == SubSeq(s, 1, n)
<1>1. /\ t \in Seq(S)
      /\ Len(t) = IF 1 <= n THEN n - 1 + 1 ELSE 0
      /\ \A i \in 1 .. n - 1 + 1 : t[i] = s[1 + i - 1]
  BY SubSeqProperties
<1> HIDE DEF t
<1>2. \A i \in 1 .. n : i \in 1 .. n - 1 + 1 /\ 1 + i - 1 = i
  OBVIOUS
<1>3. Len(t) = n
  BY <1>1
<1> QED BY <1>1, <1>2, <1>3 DEF t

\* and one with its top popped.
LEMMA PoppedStack ==
  ASSUME NEW S, NEW s \in Seq(S), s # << >>
  PROVE  /\ Last(s) \in S
         /\ Front(s) \in Seq(S)
         /\ Range(s) = Range(Front(s)) \cup {Last(s)}
         /\ \A i \in 1 .. Len(Front(s)) : Front(s)[i] = s[i]
         /\ Len(s) = Len(Front(s)) + 1
         /\ IsInjective(s) => IsInjective(Front(s))
            /\ Last(s) \notin Range(Front(s))
<1> DEFINE t == Front(s)
<1>1. Len(s) \in Nat \ {0} /\ \A i \in 1 .. Len(s) : s[i] \in S
  BY EmptySeq, ElementOfSeq
<1>2. /\ t \in Seq(S) /\ Len(t) = Len(s) - 1
      /\ \A i \in 1 .. Len(s) - 1 : t[i] = s[i]
  <2>1. PICK n \in Nat : n = Len(s) - 1
    BY <1>1
  <2>2. /\ SubSeq(s, 1, n) \in Seq(S) /\ Len(SubSeq(s, 1, n)) = n
        /\ \A i \in 1 .. n : SubSeq(s, 1, n)[i] = s[i]
    <3>1. \A i \in 1 .. n : s[i] \in S
      BY <1>1, <2>1
    <3> QED BY <3>1, Prefix
  <2>3. t = SubSeq(s, 1, n)
    BY <2>1 DEF Front
  <2> QED BY <2>1, <2>2, <2>3
<1>3. Range(s) = {s[i] : i \in 1 .. Len(s)}
         /\ Range(t) = {t[i] : i \in 1 .. Len(t)}
  BY <1>2, RangeEquality
<1>4. Last(s) \in S /\ Range(s) = Range(t) \cup {Last(s)}
  BY <1>1, <1>2, <1>3 DEF Last
<1>5. ASSUME IsInjective(s) PROVE IsInjective(t) /\ Last(s) \notin Range(t)
  <2>1. DOMAIN s = 1 .. Len(s) /\ DOMAIN t = 1 .. Len(s) - 1
    BY <1>2, LenProperties
  <2> QED BY <1>1, <1>2, <1>3, <1>5, <2>1 DEF IsInjective, Last
<1> QED BY <1>1, <1>2, <1>4, <1>5

\* A null pointer is no activity.
LEMMA NoActivityIsNone == NoActivity \notin Activities
  BY ConstantsAssumption

-----------------------------------------------------------------------------
(***************************************************************************)
(* A step preserves each theme.                                            *)
(***************************************************************************)

\* Flags stay Boolean.
LEMMA FlagsStep ==
  ASSUME FlagsOK, [Next]_vars
  PROVE  FlagsOK'
<1> USE DEF FlagsOK, navigation, handshake, mainTask, renderTask
<1>1. CASE Setup
  BY <1>1, Zenon
     DEF Setup, GoToBoot, RouteBoot, SetupReturns, ReplaceNow, ReplaceLater,
         StartHook, HookMayReturn, Fresh
<1>2. CASE Top
  BY <1>2, Zenon
     DEF Top, RequestRepaint, GoToSleep, SuppressedRelease, HomeGesture,
         LightPanelGesture, EnterLoop, ReplaceLater, PushActivity, StartHook,
         LoopReturns, Fresh
<1>3. CASE Call
  BY <1>3, Zenon
     DEF Call, WriteState, RequestUpdate, WaitRegister, StartActivityForResult,
         Finish, GoTo, Calling, Navigating, Outdates, PushActivity,
         PopActivity, ReplaceLater, Fresh
<1>4. CASE Wait
  BY <1>4, Zenon DEF Wait, WaitNotify, WaitReturn
<1>5. CASE Return
  BY <1>5, Zenon
     DEF Return, DrawDirectly, HookReturns, HandlerReturns, ExclusiveReturns,
         HookMayReturn, FlushRequestedUpdate, LoopReturns
<1>6. CASE Apply
  BY <1>6, Zenon
     DEF Apply, PopLock, PopLast, PopToParent, GoHomeAfterPop, SwitchLock,
         Switch, Flush, HandlersAfterPop, KeepCurrent, DropStack, Outdates,
         StartHook, ReplaceNow, FlushRequestedUpdate, LoopReturns, Fresh
<1>7. CASE Restart
  BY <1>7, Zenon DEF Restart
<1>8. CASE Render
  BY <1>8, Zenon DEF Render, RenderTake, RenderAcquire, RenderBegin, RenderEnd,
        RenderHandoff, RenderWake, RenderRelease
<1>9. CASE UNCHANGED vars
  BY <1>9, Zenon DEF vars
<1> QED BY <1>1, <1>2, <1>3, <1>4, <1>5, <1>6, <1>7, <1>8, <1>9 DEF Next

\* Program counters and the other enumerated variables keep their values.
LEMMA PlacesStep ==
  ASSUME PlacesOK, [Next]_vars
  PROVE  PlacesOK'
<1> USE DEF PlacesOK, navigation, handshake, mainTask, renderTask
<1>1. CASE Setup
  BY <1>1
     DEF Setup, GoToBoot, RouteBoot, SetupReturns, ReplaceNow, ReplaceLater,
         StartHook, HookMayReturn, Fresh
<1>2. CASE Top
  BY <1>2 DEF Top, RequestRepaint, GoToSleep, SuppressedRelease, HomeGesture,
        LightPanelGesture, EnterLoop, ReplaceLater, PushActivity,
        StartHook, LoopReturns, Fresh
<1>3. CASE Call
  BY <1>3
     DEF Call, WriteState, RequestUpdate, WaitRegister, StartActivityForResult,
         Finish, GoTo, Calling, Navigating, Outdates, PushActivity,
         PopActivity, ReplaceLater, Fresh
<1>4. CASE Wait
  BY <1>4 DEF Wait, WaitNotify, WaitReturn
<1>5. CASE Return
  BY <1>5
     DEF Return, DrawDirectly, HookReturns, HandlerReturns, ExclusiveReturns,
         HookMayReturn, FlushRequestedUpdate, LoopReturns
<1>6. CASE Apply
  BY <1>6 DEF Apply, PopLock, PopLast, PopToParent, GoHomeAfterPop, SwitchLock,
        Switch, Flush, HandlersAfterPop, KeepCurrent, DropStack,
        Outdates, StartHook, ReplaceNow, FlushRequestedUpdate,
        LoopReturns, Fresh
<1>7. CASE Restart
  BY <1>7 DEF Restart
<1>8. CASE Render
  BY <1>8 DEF Render, RenderTake, RenderAcquire, RenderBegin, RenderEnd,
        RenderHandoff, RenderWake, RenderRelease
<1>9. CASE UNCHANGED vars
  BY <1>9 DEF vars
<1> QED BY <1>1, <1>2, <1>3, <1>4, <1>5, <1>6, <1>7, <1>8, <1>9 DEF Next

\* Activity-valued variables stay so: what is pushed or entered exists.
LEMMA OwnersStep ==
  ASSUME OwnersOK, PlacesOK, Position, PendingIsComplete, [Next]_vars
  PROVE  OwnersOK'
<1> USE DEF OwnersOK, MaybeActivity, Position, PendingIsComplete, navigation,
      handshake, mainTask, renderTask
<1>1. CASE Setup
  BY <1>1
     DEF Setup, GoToBoot, RouteBoot, SetupReturns, ReplaceNow, ReplaceLater,
         StartHook, HookMayReturn, Fresh
<1>2. CASE Top
  BY <1>2 DEF Top, RequestRepaint, GoToSleep, SuppressedRelease, HomeGesture,
        LightPanelGesture, EnterLoop, ReplaceLater, PushActivity,
        StartHook, LoopReturns, Fresh
<1>3. CASE Call
  BY <1>3
     DEF Call, WriteState, RequestUpdate, WaitRegister, StartActivityForResult,
         Finish, GoTo, Calling, Navigating, Outdates, PushActivity,
         PopActivity, ReplaceLater, Fresh
<1>4. CASE Wait
  BY <1>4 DEF Wait, WaitNotify, WaitReturn
<1>5. CASE Return
  BY <1>5
     DEF Return, DrawDirectly, HookReturns, HandlerReturns, ExclusiveReturns,
         HookMayReturn, FlushRequestedUpdate, LoopReturns
<1>6. CASE Apply
  <2>1. CASE PopToParent
    <3>1. stack # << >> /\ stack' = Front(stack) /\ current' = Last(stack)
      BY <2>1 DEF PopToParent
    <3>2. Last(stack) \in Activities /\ Front(stack) \in Seq(Activities)
      BY <3>1, PoppedStack DEF Last
    <3> QED BY <2>1, <3>1, <3>2
       DEF PopToParent, HandlersAfterPop, Outdates, StartHook
  <2>2. CASE Switch
    <3>1. CASE pendingAction = "Push"
      <4>1. stack' = Append(stack, current)
        BY <2>2, <3>1 DEF Switch, KeepCurrent
      <4>2. stack' \in Seq(Activities)
        BY <2>2, <4>1, PushedStack DEF Switch
      <4> QED BY <2>2, <3>1, <4>1, <4>2 DEF Switch, StartHook
    <3>2. CASE pendingAction = "Replace"
      <4>1. stack' = << >>
        BY <2>2, <3>2 DEF Switch, DropStack
      <4>2. stack' \in Seq(Activities)
        BY <4>1, RangeOfEmpty, EmptySeq DEF IsInjective
      <4> QED BY <2>2, <3>2, <4>1, <4>2 DEF Switch, Outdates, StartHook
    <3> QED BY <2>2, <3>1, <3>2 DEF Switch
  <2>3. CASE Apply /\ ~PopToParent /\ ~Switch
    BY <2>3, RangeOfEmpty
       DEF Apply, PopLock, PopLast, GoHomeAfterPop, SwitchLock, Flush,
           Outdates, StartHook, ReplaceNow, FlushRequestedUpdate, LoopReturns,
           Fresh
  <2> QED BY <1>6, <2>1, <2>2, <2>3 DEF Apply
<1>7. CASE Restart
  BY <1>7, EmptySeq DEF Restart
<1>8. CASE Render
  BY <1>8 DEF Render, RenderTake, RenderAcquire, RenderBegin, RenderEnd,
        RenderHandoff, RenderWake, RenderRelease
<1>9. CASE UNCHANGED vars
  BY <1>9 DEF vars
<1> QED BY <1>1, <1>2, <1>3, <1>4, <1>5, <1>6, <1>7, <1>8, <1>9 DEF Next

\* The mutex has the holder its program counters say.
LEMMA LockStep ==
  ASSUME TypeOK, LockOwner, [Next]_vars
  PROVE  LockOwner'
<1> USE
   DEF TypeOK, PlacesOK, LockOwner, navigation, handshake, mainTask, renderTask
<1>1. CASE Setup
  BY <1>1
     DEF Setup, GoToBoot, RouteBoot, SetupReturns, ReplaceNow, ReplaceLater,
         StartHook, HookMayReturn, Fresh
<1>2. CASE Top
  BY <1>2 DEF Top, RequestRepaint, GoToSleep, SuppressedRelease, HomeGesture,
        LightPanelGesture, EnterLoop, ReplaceLater, PushActivity,
        StartHook, LoopReturns, Fresh
<1>3. CASE Call
  BY <1>3
     DEF Call, WriteState, RequestUpdate, WaitRegister, StartActivityForResult,
         Finish, GoTo, Calling, Navigating, Outdates, PushActivity,
         PopActivity, ReplaceLater, Fresh
<1>4. CASE Wait
  BY <1>4 DEF Wait, WaitNotify, WaitReturn
<1>5. CASE Return
  BY <1>5
     DEF Return, DrawDirectly, HookReturns, HandlerReturns, ExclusiveReturns,
         HookMayReturn, FlushRequestedUpdate, LoopReturns
<1>6. CASE Apply
  BY <1>6 DEF Apply, PopLock, PopLast, PopToParent, GoHomeAfterPop, SwitchLock,
        Switch, Flush, HandlersAfterPop, KeepCurrent, DropStack,
        Outdates, StartHook, ReplaceNow, FlushRequestedUpdate,
        LoopReturns, Fresh
<1>7. CASE Restart
  BY <1>7 DEF Restart
<1>8. CASE Render
  BY <1>8 DEF Render, RenderTake, RenderAcquire, RenderBegin, RenderEnd,
        RenderHandoff, RenderWake, RenderRelease
<1>9. CASE UNCHANGED vars
  BY <1>9 DEF vars
<1> QED BY <1>1, <1>2, <1>3, <1>4, <1>5, <1>6, <1>7, <1>8, <1>9 DEF Next

\* There is a current activity wherever loop() needs one.
LEMMA PositionStep ==
  ASSUME TypeOK, LockOwner, Position, OneOwner, [Next]_vars
  PROVE  Position'
<1> USE NoActivityIsNone
   DEF TypeOK, PlacesOK, OwnersOK, Position, OneOwner, MaybeActivity,
       PendingIsComplete, navigation, handshake, mainTask, renderTask
<1>1. CASE Setup
  BY <1>1
     DEF Setup, GoToBoot, RouteBoot, SetupReturns, ReplaceNow, ReplaceLater,
         StartHook, HookMayReturn, Fresh
<1>2. CASE Top
  BY <1>2 DEF Top, RequestRepaint, GoToSleep, SuppressedRelease, HomeGesture,
        LightPanelGesture, EnterLoop, ReplaceLater, PushActivity,
        StartHook, LoopReturns, Fresh
<1>3. CASE Call
  BY <1>3
     DEF Call, WriteState, RequestUpdate, WaitRegister, StartActivityForResult,
         Finish, GoTo, Calling, Navigating, Outdates, PushActivity,
         PopActivity, ReplaceLater, Fresh
<1>4. CASE Wait
  BY <1>4 DEF Wait, WaitNotify, WaitReturn
<1>5. CASE Return
  BY <1>5
     DEF Return, DrawDirectly, HookReturns, HandlerReturns, ExclusiveReturns,
         HookMayReturn, FlushRequestedUpdate, LoopReturns
<1>6. CASE Apply
  <2>1. CASE PopToParent
    <3>1. Last(stack) \in Activities
      BY <2>1, PoppedStack DEF PopToParent
    <3> QED BY <2>1, <3>1 DEF PopToParent, StartHook
  <2>2. CASE Switch
    BY <2>2 DEF Switch, StartHook
  <2>3. CASE Apply /\ ~PopToParent /\ ~Switch
    BY <2>3 DEF Apply, PopLock, PopLast, GoHomeAfterPop, SwitchLock, Flush,
          StartHook, ReplaceNow, FlushRequestedUpdate, LoopReturns, Fresh
  <2> QED BY <1>6, <2>1, <2>2, <2>3 DEF Apply
<1>7. CASE Restart
  BY <1>7 DEF Restart
<1>8. CASE Render
  BY <1>8 DEF Render, RenderTake, RenderAcquire, RenderBegin, RenderEnd,
        RenderHandoff, RenderWake, RenderRelease
<1>9. CASE UNCHANGED vars
  BY <1>9 DEF vars
<1> QED BY <1>1, <1>2, <1>3, <1>4, <1>5, <1>6, <1>7, <1>8, <1>9 DEF Next

\* An activity never gets a second owner.
LEMMA OneOwnerStep ==
  ASSUME TypeOK, LockOwner, Position, OneOwner, [Next]_vars
  PROVE  OneOwner'
<1> USE NoActivityIsNone
   DEF TypeOK, PlacesOK, OwnersOK, Position, OneOwner, MaybeActivity,
       PendingIsComplete, OnStack, navigation, handshake, mainTask, renderTask
<1>1. CASE Setup
  BY <1>1
     DEF Setup, GoToBoot, RouteBoot, SetupReturns, ReplaceNow, ReplaceLater,
         StartHook, HookMayReturn, Fresh
<1>2. CASE Top
  BY <1>2 DEF Top, RequestRepaint, GoToSleep, SuppressedRelease, HomeGesture,
        LightPanelGesture, EnterLoop, ReplaceLater, PushActivity,
        StartHook, LoopReturns, Fresh
<1>3. CASE Call
  BY <1>3
     DEF Call, WriteState, RequestUpdate, WaitRegister, StartActivityForResult,
         Finish, GoTo, Calling, Navigating, Outdates, PushActivity,
         PopActivity, ReplaceLater, Fresh
<1>4. CASE Wait
  BY <1>4 DEF Wait, WaitNotify, WaitReturn
<1>5. CASE Return
  BY <1>5
     DEF Return, DrawDirectly, HookReturns, HandlerReturns, ExclusiveReturns,
         HookMayReturn, FlushRequestedUpdate, LoopReturns
<1>6. CASE Apply
  <2>1. CASE PopToParent
    <3>1. stack # << >> /\ stack' = Front(stack) /\ current' = Last(stack)
      BY <2>1 DEF PopToParent
    <3>2. /\ Last(stack) \in Activities
          /\ IsInjective(stack') /\ Last(stack) \notin Range(stack')
          /\ Range(stack) = Range(stack') \cup {Last(stack)}
      BY <3>1, PoppedStack DEF Last
    <3> QED BY <2>1, <3>1, <3>2
       DEF PopToParent, HandlersAfterPop, Outdates, StartHook
  <2>2. CASE Switch
    <3>1. CASE pendingAction = "Push"
      <4>1. stack' = Append(stack, current)
        BY <2>2, <3>1 DEF Switch, KeepCurrent
      <4>2. Range(stack') = Range(stack) \cup {current} /\ IsInjective(stack')
        BY <2>2, <4>1, PushedStack DEF Switch
      <4> QED BY <2>2, <3>1, <4>1, <4>2 DEF Switch, StartHook
    <3>2. CASE pendingAction = "Replace"
      <4>1. stack' = << >>
        BY <2>2, <3>2 DEF Switch, DropStack
      <4>2. Range(stack') = {} /\ IsInjective(stack')
        BY <4>1, RangeOfEmpty, EmptySeq DEF IsInjective
      <4> QED BY <2>2, <3>2, <4>1, <4>2 DEF Switch, Outdates, StartHook
    <3> QED BY <2>2, <3>1, <3>2 DEF Switch
  <2>3. CASE Apply /\ ~PopToParent /\ ~Switch
    BY <2>3, RangeOfEmpty
       DEF Apply, PopLock, PopLast, GoHomeAfterPop, SwitchLock, Flush,
           Outdates, StartHook, ReplaceNow, FlushRequestedUpdate, LoopReturns,
           Fresh
  <2> QED BY <1>6, <2>1, <2>2, <2>3 DEF Apply
<1>7. CASE Restart
  BY <1>7, RangeOfEmpty, EmptySeq DEF Restart, IsInjective
<1>8. CASE Render
  BY <1>8 DEF Render, RenderTake, RenderAcquire, RenderBegin, RenderEnd,
        RenderHandoff, RenderWake, RenderRelease
<1>9. CASE UNCHANGED vars
  BY <1>9 DEF vars
<1> QED BY <1>1, <1>2, <1>3, <1>4, <1>5, <1>6, <1>7, <1>8, <1>9 DEF Next

\* What is drawn and displayed belongs to the activity that is drawn.
LEMMA PixelsStep ==
  ASSUME TypeOK, LockOwner, Position, OneOwner, Pixels, [Next]_vars
  PROVE  Pixels'
<1> USE NoActivityIsNone
   DEF TypeOK, PlacesOK, OwnersOK, LockOwner, Position, OneOwner,
       MaybeActivity, Pixels, OnStack, navigation, handshake, mainTask,
       renderTask
<1>1. CASE Setup
  BY <1>1
     DEF Setup, GoToBoot, RouteBoot, SetupReturns, ReplaceNow, ReplaceLater,
         StartHook, HookMayReturn, Fresh
<1>2. CASE Top
  BY <1>2 DEF Top, RequestRepaint, GoToSleep, SuppressedRelease, HomeGesture,
        LightPanelGesture, EnterLoop, ReplaceLater, PushActivity,
        StartHook, LoopReturns, Fresh
<1>3. CASE Call
  BY <1>3
     DEF Call, WriteState, RequestUpdate, WaitRegister, StartActivityForResult,
         Finish, GoTo, Calling, Navigating, Outdates, PushActivity,
         PopActivity, ReplaceLater, Fresh
<1>4. CASE Wait
  BY <1>4 DEF Wait, WaitNotify, WaitReturn
<1>5. CASE Return
  BY <1>5
     DEF Return, DrawDirectly, HookReturns, HandlerReturns, ExclusiveReturns,
         HookMayReturn, FlushRequestedUpdate, LoopReturns
<1>6. CASE Apply
  <2>1. CASE PopToParent
    <3>1. stack # << >> /\ stack' = Front(stack) /\ current' = Last(stack)
      BY <2>1 DEF PopToParent
    <3>2. Range(stack) = Range(stack') \cup {Last(stack)}
      BY <3>1, PoppedStack DEF Last
    <3> QED BY <2>1, <3>1, <3>2
       DEF PopToParent, HandlersAfterPop, Outdates, StartHook
  <2>2. CASE Switch
    <3>1. CASE pendingAction = "Push"
      <4>1. stack' = Append(stack, current)
        BY <2>2, <3>1 DEF Switch, KeepCurrent
      <4>2. Range(stack') = Range(stack) \cup {current}
        BY <2>2, <4>1, PushedStack DEF Switch
      <4> QED BY <2>2, <3>1, <4>1, <4>2 DEF Switch, StartHook
    <3>2. CASE pendingAction = "Replace"
      <4>1. stack' = << >>
        BY <2>2, <3>2 DEF Switch, DropStack
      <4>2. Range(stack') = {}
        BY <4>1, RangeOfEmpty, EmptySeq DEF IsInjective
      <4> QED BY <2>2, <3>2, <4>1, <4>2 DEF Switch, Outdates, StartHook
    <3> QED BY <2>2, <3>1, <3>2 DEF Switch
  <2>3. CASE Apply /\ ~PopToParent /\ ~Switch
    BY <2>3, RangeOfEmpty
       DEF Apply, PopLock, PopLast, GoHomeAfterPop, SwitchLock, Flush,
           Outdates, StartHook, ReplaceNow, FlushRequestedUpdate, LoopReturns,
           Fresh
  <2> QED BY <1>6, <2>1, <2>2, <2>3 DEF Apply
<1>7. CASE Restart
  BY <1>7 DEF Restart
<1>8. CASE Render
  BY <1>8 DEF Render, RenderTake, RenderAcquire, RenderBegin, RenderEnd,
        RenderHandoff, RenderWake, RenderRelease
<1>9. CASE UNCHANGED vars
  BY <1>9 DEF vars
<1> QED BY <1>1, <1>2, <1>3, <1>4, <1>5, <1>6, <1>7, <1>8, <1>9 DEF Next

\* The wake-up call is neither lost nor duplicated.
LEMMA HandshakeStep ==
  ASSUME TypeOK, Handshake, [Next]_vars
  PROVE  Handshake'
<1> USE
   DEF TypeOK, PlacesOK, FlagsOK, Handshake, WaiterIsRemembered, navigation,
       handshake, mainTask, renderTask
<1>1. CASE Setup
  BY <1>1
     DEF Setup, GoToBoot, RouteBoot, SetupReturns, ReplaceNow, ReplaceLater,
         StartHook, HookMayReturn, Fresh
<1>2. CASE Top
  BY <1>2 DEF Top, RequestRepaint, GoToSleep, SuppressedRelease, HomeGesture,
        LightPanelGesture, EnterLoop, ReplaceLater, PushActivity,
        StartHook, LoopReturns, Fresh
<1>3. CASE Call
  BY <1>3
     DEF Call, WriteState, RequestUpdate, WaitRegister, StartActivityForResult,
         Finish, GoTo, Calling, Navigating, Outdates, PushActivity,
         PopActivity, ReplaceLater, Fresh
<1>4. CASE Wait
  BY <1>4 DEF Wait, WaitNotify, WaitReturn
<1>5. CASE Return
  BY <1>5
     DEF Return, DrawDirectly, HookReturns, HandlerReturns, ExclusiveReturns,
         HookMayReturn, FlushRequestedUpdate, LoopReturns
<1>6. CASE Apply
  BY <1>6 DEF Apply, PopLock, PopLast, PopToParent, GoHomeAfterPop, SwitchLock,
        Switch, Flush, HandlersAfterPop, KeepCurrent, DropStack,
        Outdates, StartHook, ReplaceNow, FlushRequestedUpdate,
        LoopReturns, Fresh
<1>7. CASE Restart
  BY <1>7 DEF Restart
<1>8. CASE Render
  <2>1. CASE RenderTake
    BY <2>1 DEF RenderTake
  <2>2. CASE RenderAcquire
    BY <2>2 DEF RenderAcquire
  <2>3. CASE RenderBegin
    BY <2>3 DEF RenderBegin
  <2>4. CASE RenderEnd
    BY <2>4 DEF RenderEnd
  <2>5. CASE RenderHandoff
    BY <2>5 DEF RenderHandoff
  <2>6. CASE RenderWake
    BY <2>6 DEF RenderWake
  <2>7. CASE RenderRelease
    BY <2>7 DEF RenderRelease
  <2> QED BY <1>8, <2>1, <2>2, <2>3, <2>4, <2>5, <2>6, <2>7 DEF Render
<1>9. CASE UNCHANGED vars
  BY <1>9 DEF vars
<1> QED BY <1>1, <1>2, <1>3, <1>4, <1>5, <1>6, <1>7, <1>8, <1>9 DEF Next

\* Whoever makes the display out of date leaves a request behind.
LEMMA UpdateStep ==
  ASSUME TypeOK, LockOwner, Position, Pixels, UpdateComes, [Next]_vars
  PROVE  UpdateComes'
<1> USE
   DEF TypeOK, PlacesOK, UpdateComes, LockOwner, Position, Pixels, navigation,
       handshake, mainTask, renderTask
<1>1. CASE Setup
  BY <1>1
     DEF Setup, GoToBoot, RouteBoot, SetupReturns, ReplaceNow, ReplaceLater,
         StartHook, HookMayReturn, Fresh
<1>2. CASE Top
  BY <1>2 DEF Top, RequestRepaint, GoToSleep, SuppressedRelease, HomeGesture,
        LightPanelGesture, EnterLoop, ReplaceLater, PushActivity,
        StartHook, LoopReturns, Fresh
<1>3. CASE Call
  BY <1>3
     DEF Call, WriteState, RequestUpdate, WaitRegister, StartActivityForResult,
         Finish, GoTo, Calling, Navigating, Outdates, PushActivity,
         PopActivity, ReplaceLater, Fresh
<1>4. CASE Wait
  BY <1>4 DEF Wait, WaitNotify, WaitReturn
<1>5. CASE Return
  BY <1>5
     DEF Return, DrawDirectly, HookReturns, HandlerReturns, ExclusiveReturns,
         HookMayReturn, FlushRequestedUpdate, LoopReturns
<1>6. CASE Apply
  BY <1>6 DEF Apply, PopLock, PopLast, PopToParent, GoHomeAfterPop, SwitchLock,
        Switch, Flush, HandlersAfterPop, KeepCurrent, DropStack,
        Outdates, StartHook, ReplaceNow, FlushRequestedUpdate,
        LoopReturns, Fresh
<1>7. CASE Restart
  BY <1>7 DEF Restart
<1>8. CASE Render
  BY <1>8 DEF Render, RenderTake, RenderAcquire, RenderBegin, RenderEnd,
        RenderHandoff, RenderWake, RenderRelease
<1>9. CASE UNCHANGED vars
  BY <1>9 DEF vars
<1> QED BY <1>1, <1>2, <1>3, <1>4, <1>5, <1>6, <1>7, <1>8, <1>9 DEF Next

\* A sleep screen is entered in the last pass and nothing follows it.
LEMMA LastPassStep ==
  ASSUME TypeOK, LockOwner, Position, Pixels, LastPass, [Next]_vars
  PROVE  LastPass'
<1> USE NoActivityIsNone
   DEF TypeOK, PlacesOK, OwnersOK, LockOwner, Position, Pixels, LastPass,
       DrawsItself, MaybeActivity, navigation, handshake, mainTask, renderTask
<1>1. CASE Setup
  BY <1>1
     DEF Setup, GoToBoot, RouteBoot, SetupReturns, ReplaceNow, ReplaceLater,
         StartHook, HookMayReturn, Fresh
<1>2. CASE Top
  BY <1>2 DEF Top, RequestRepaint, GoToSleep, SuppressedRelease, HomeGesture,
        LightPanelGesture, EnterLoop, ReplaceLater, PushActivity,
        StartHook, LoopReturns, Fresh
<1>3. CASE Call
  BY <1>3
     DEF Call, WriteState, RequestUpdate, WaitRegister, StartActivityForResult,
         Finish, GoTo, Calling, Navigating, Outdates, PushActivity,
         PopActivity, ReplaceLater, Fresh
<1>4. CASE Wait
  BY <1>4 DEF Wait, WaitNotify, WaitReturn
<1>5. CASE Return
  BY <1>5
     DEF Return, DrawDirectly, HookReturns, HandlerReturns, ExclusiveReturns,
         HookMayReturn, FlushRequestedUpdate, LoopReturns
<1>6. CASE Apply
  <2>1. CASE PopToParent
    <3>1. stack # << >> /\ stack' = Front(stack) /\ current' = Last(stack)
      BY <2>1 DEF PopToParent
    <3>2. /\ Last(stack) \in Activities
          /\ \A i \in 1 .. Len(stack') : stack'[i] = stack[i]
             /\ i \in 1 .. Len(stack)
          /\ Last(stack) = stack[Len(stack)] /\ Len(stack) \in 1 .. Len(stack)
      BY <3>1, PoppedStack DEF Last
    <3> QED BY <2>1, <3>1, <3>2
       DEF PopToParent, HandlersAfterPop, Outdates, StartHook
  <2>2. CASE Switch
    <3>1. CASE pendingAction = "Push"
      <4>1. stack' = Append(stack, current)
        BY <2>2, <3>1 DEF Switch, KeepCurrent
      <4>2. \A i \in 1 .. Len(stack') :
               \/ i \in 1 .. Len(stack) /\ stack'[i] = stack[i]
               \/ stack'[i] = current
        BY <2>2, <4>1, PushedStack DEF Switch
      <4> QED BY <2>2, <3>1, <4>1, <4>2 DEF Switch, StartHook
    <3>2. CASE pendingAction = "Replace"
      <4>1. stack' = << >>
        BY <2>2, <3>2 DEF Switch, DropStack
      <4>2. Len(stack') = 0
        BY <4>1, RangeOfEmpty, EmptySeq DEF IsInjective
      <4> QED BY <2>2, <3>2, <4>1, <4>2 DEF Switch, Outdates, StartHook
    <3> QED BY <2>2, <3>1, <3>2 DEF Switch
  <2>3. CASE Apply /\ ~PopToParent /\ ~Switch
    BY <2>3, RangeOfEmpty
       DEF Apply, PopLock, PopLast, GoHomeAfterPop, SwitchLock, Flush,
           Outdates, StartHook, ReplaceNow, FlushRequestedUpdate, LoopReturns,
           Fresh
  <2> QED BY <1>6, <2>1, <2>2, <2>3 DEF Apply
<1>7. CASE Restart
  BY <1>7 DEF Restart
<1>8. CASE Render
  BY <1>8 DEF Render, RenderTake, RenderAcquire, RenderBegin, RenderEnd,
        RenderHandoff, RenderWake, RenderRelease
<1>9. CASE UNCHANGED vars
  BY <1>9 DEF vars
<1> QED BY <1>1, <1>2, <1>3, <1>4, <1>5, <1>6, <1>7, <1>8, <1>9 DEF Next

\* A render that answers the main task has shown what it left.
LEMMA AnsweredStep ==
  ASSUME TypeOK, LockOwner, Position, Pixels, Handshake, Answered, [Next]_vars
  PROVE  Answered'
<1> USE NoActivityIsNone
   DEF TypeOK, PlacesOK, OwnersOK, LockOwner, Position, MaybeActivity, Pixels,
       Handshake, Answered, Waits, DrawsItself, navigation, handshake,
       mainTask, renderTask
<1>1. CASE Setup
  BY <1>1
     DEF Setup, GoToBoot, RouteBoot, SetupReturns, ReplaceNow, ReplaceLater,
         StartHook, HookMayReturn, Fresh
<1>2. CASE Top
  BY <1>2 DEF Top, RequestRepaint, GoToSleep, SuppressedRelease, HomeGesture,
        LightPanelGesture, EnterLoop, ReplaceLater, PushActivity,
        StartHook, LoopReturns, Fresh
<1>3. CASE Call
  BY <1>3
     DEF Call, WriteState, RequestUpdate, WaitRegister, StartActivityForResult,
         Finish, GoTo, Calling, Navigating, Outdates, PushActivity,
         PopActivity, ReplaceLater, Fresh
<1>4. CASE Wait
  BY <1>4 DEF Wait, WaitNotify, WaitReturn
<1>5. CASE Return
  BY <1>5
     DEF Return, DrawDirectly, HookReturns, HandlerReturns, ExclusiveReturns,
         HookMayReturn, FlushRequestedUpdate, LoopReturns
<1>6. CASE Apply
  BY <1>6 DEF Apply, PopLock, PopLast, PopToParent, GoHomeAfterPop, SwitchLock,
        Switch, Flush, HandlersAfterPop, KeepCurrent, DropStack,
        Outdates, StartHook, ReplaceNow, FlushRequestedUpdate,
        LoopReturns, Fresh
<1>7. CASE Restart
  BY <1>7 DEF Restart
<1>8. CASE Render
  <2>1. CASE RenderTake
    BY <2>1 DEF RenderTake
  <2>2. CASE RenderAcquire
    BY <2>2 DEF RenderAcquire
  <2>3. CASE RenderBegin
    BY <2>3 DEF RenderBegin
  <2>4. CASE RenderEnd
    BY <2>4 DEF RenderEnd
  <2>5. CASE RenderHandoff
    BY <2>5 DEF RenderHandoff
  <2>6. CASE RenderWake
    BY <2>6 DEF RenderWake
  <2>7. CASE RenderRelease
    BY <2>7 DEF RenderRelease
  <2> QED BY <1>8, <2>1, <2>2, <2>3, <2>4, <2>5, <2>6, <2>7 DEF Render
<1>9. CASE UNCHANGED vars
  BY <1>9 DEF vars
<1> QED BY <1>1, <1>2, <1>3, <1>4, <1>5, <1>6, <1>7, <1>8, <1>9 DEF Next

\* A handler is stored for the child that is pushed, and dropped with it.
LEMMA HandlersStep ==
  ASSUME TypeOK, LockOwner, Position, OneOwner, Handlers, [Next]_vars
  PROVE  Handlers'
<1> USE NoActivityIsNone
   DEF TypeOK, PlacesOK, OwnersOK, LockOwner, Position, OneOwner,
       PendingIsComplete, MaybeActivity, Handlers, ResultsReachTheirStarter,
       OnStack, DrawsItself, Calling, Navigating, navigation, handshake,
       mainTask, renderTask
<1>1. CASE Setup
  BY <1>1
     DEF Setup, GoToBoot, RouteBoot, SetupReturns, ReplaceNow, ReplaceLater,
         StartHook, HookMayReturn, Fresh
<1>2. CASE Top
  BY <1>2 DEF Top, RequestRepaint, GoToSleep, SuppressedRelease, HomeGesture,
        LightPanelGesture, EnterLoop, ReplaceLater, PushActivity,
        StartHook, LoopReturns, Fresh
<1>3. CASE Call
  <2>1. CASE WriteState
    BY <2>1 DEF WriteState, Outdates
  <2>2. CASE RequestUpdate(TRUE)
    BY <2>2 DEF RequestUpdate
  <2>3. CASE RequestUpdate(FALSE)
    BY <2>3 DEF RequestUpdate
  <2>4. CASE WaitRegister
    BY <2>4 DEF WaitRegister
  <2>5. CASE StartActivityForResult
    <3>1. PICK b \in Fresh :
             /\ Kind[b] = "app"
             /\ handlerFor' = [handlerFor EXCEPT ![current] = b]
             /\ PushActivity(b)
      BY <2>5 DEF StartActivityForResult
    <3>2. b \in Activities /\ b # current /\ current \in Activities
             /\ handlerFor'[current] = b
      BY <3>1, <2>5 DEF Fresh, StartActivityForResult
    <3>3. \A i \in 1 .. Len(stack) : stack[i] # current
             /\ stack[i] \in Activities
      BY RangeEquality, ElementOfSeq
    <3>4. \A a \in Activities \ {current} : handlerFor'[a] = handlerFor[a]
      BY <3>1, <3>2
    <3>5. /\ UNCHANGED <<stack, current, mainPc, hook>>
          /\ mainPc = "run" /\ (hook = "setup" => RecoveryBoot)
          /\ Kind[current] # "drive"
          /\ pendingAction' = "Push" /\ pendingActivity' = b
      BY <2>5, <3>1 DEF StartActivityForResult, PushActivity
    <3> QED BY <3>2, <3>3, <3>4, <3>5
  <2>6. CASE Finish
    BY <2>6 DEF Finish, PopActivity
  <2>7. CASE GoTo
    BY <2>7 DEF GoTo, ReplaceLater
  <2> QED BY <1>3, <2>1, <2>2, <2>3, <2>4, <2>5, <2>6, <2>7 DEF Call
<1>4. CASE Wait
  BY <1>4 DEF Wait, WaitNotify, WaitReturn
<1>5. CASE Return
  BY <1>5
     DEF Return, DrawDirectly, HookReturns, HandlerReturns, ExclusiveReturns,
         HookMayReturn, FlushRequestedUpdate, LoopReturns
<1>6. CASE Apply
  <2>1. CASE PopToParent
     <3>1. stack # << >> /\ stack' = Front(stack) /\ current' = Last(stack)
       BY <2>1 DEF PopToParent
     <3>2. /\ Last(stack) \in Activities
           /\ Last(stack) \notin Range(stack')
           /\ Range(stack) = Range(stack') \cup {Last(stack)}
           /\ Len(stack) = Len(stack') + 1 /\ Last(stack) = stack[Len(stack)]
           /\ \A i \in 1 .. Len(stack') : stack'[i] = stack[i]
           /\ stack' \in Seq(Activities)
       BY <3>1, PoppedStack DEF Last
    <3>3. /\ handlerFor'[Last(stack)] = NoActivity
          /\ \A a \in Activities \ {current, Last(stack)} :
                handlerFor'[a] = handlerFor[a]
          /\ handlerFor'[current] = NoActivity
       BY <2>1, <3>2 DEF PopToParent, HandlersAfterPop
    <3>4. \A i \in 1 .. Len(stack') : stack'[i] # Last(stack)
             /\ stack'[i] # current /\ stack'[i] \in Activities
       BY <3>2, RangeEquality, ElementOfSeq
    <3>5. Len(stack') \in Nat /\ Len(stack) \in Nat
       BY <3>2, LenProperties
    <3>6. ASSUME ~RecoveryBoot PROVE ResultsReachTheirStarter'
       BY <3>1, <3>2, <3>3, <3>4, <3>5, <3>6
    <3>7. mainPc' = "pending" \/ (mainPc' = "run" /\ hook' = "handler")
       BY <2>1 DEF PopToParent, StartHook
    <3> QED BY <3>1, <3>2, <3>3, <3>6, <3>7
  <2>2. CASE Switch
    <3>1. CASE pendingAction = "Push"
      <4>1. stack' = Append(stack, current)
        BY <2>2, <3>1 DEF Switch, KeepCurrent
      <4>2. Range(stack') = Range(stack) \cup {current} /\ IsInjective(stack')
        BY <2>2, <4>1, PushedStack DEF Switch
      <4> QED BY <2>2, <3>1, <4>1, <4>2 DEF Switch, StartHook
    <3>2. CASE pendingAction = "Replace"
      <4>1. stack' = << >>
        BY <2>2, <3>2 DEF Switch, DropStack
      <4>2. Range(stack') = {} /\ IsInjective(stack')
        BY <4>1, RangeOfEmpty, EmptySeq DEF IsInjective
      <4> QED BY <2>2, <3>2, <4>1, <4>2 DEF Switch, Outdates, StartHook
    <3> QED BY <2>2, <3>1, <3>2 DEF Switch
  <2>3. CASE Apply /\ ~PopToParent /\ ~Switch
    BY <2>3, RangeOfEmpty
       DEF Apply, PopLock, PopLast, GoHomeAfterPop, SwitchLock, Flush,
           Outdates, StartHook, ReplaceNow, FlushRequestedUpdate, LoopReturns,
           Fresh
  <2> QED BY <1>6, <2>1, <2>2, <2>3 DEF Apply
<1>7. CASE Restart
  BY <1>7 DEF Restart
<1>8. CASE Render
  BY <1>8 DEF Render, RenderTake, RenderAcquire, RenderBegin, RenderEnd,
        RenderHandoff, RenderWake, RenderRelease
<1>9. CASE UNCHANGED vars
  BY <1>9 DEF vars
<1> QED BY <1>1, <1>2, <1>3, <1>4, <1>5, <1>6, <1>7, <1>8, <1>9 DEF Next

-----------------------------------------------------------------------------
(***************************************************************************)
(* Theorems.                                                               *)
(***************************************************************************)

\* The themes hold at reset,
LEMMA InvInit == ASSUME Init PROVE Inv
<1> USE NoActivityIsNone DEF Init
<1>1. TypeOK
  BY EmptySeq DEF TypeOK, OwnersOK, PlacesOK, FlagsOK, MaybeActivity
<1>2. LockOwner /\ Position /\ Pixels /\ Handshake /\ UpdateComes /\ Answered
  BY DEF LockOwner, Position, Pixels, Handshake, WaiterIsRemembered,
     UpdateComes,
         Answered
<1>3. OneOwner /\ LastPass /\ Handlers
  BY RangeOfEmpty, EmptySeq DEF OneOwner, PendingIsComplete, OnStack,
     IsInjective,
         LastPass, Handlers, ResultsReachTheirStarter
<1> QED BY <1>1, <1>2, <1>3 DEF Inv

\* and every step of either task keeps them.
LEMMA InvStep == ASSUME Inv, [Next]_vars PROVE Inv'
<1>1. TypeOK'
  BY FlagsStep, PlacesStep, OwnersStep DEF Inv, TypeOK, OneOwner
<1>2. LockOwner' /\ Position' /\ OneOwner'
  BY LockStep, PositionStep, OneOwnerStep DEF Inv
<1>3. Pixels' /\ Handshake' /\ UpdateComes'
  BY PixelsStep, HandshakeStep, UpdateStep DEF Inv
<1>4. LastPass' /\ Answered' /\ Handlers'
  BY LastPassStep, AnsweredStep, HandlersStep DEF Inv
<1> QED BY <1>1, <1>2, <1>3, <1>4 DEF Inv

\* The inductive invariant holds of every behaviour of the two tasks.
THEOREM Invariance == Spec => []Inv
<1>1. Init => Inv
  BY InvInit
<1>2. Inv /\ [Next]_vars => Inv'
  BY InvStep
<1> QED BY <1>1, <1>2, PTL DEF Spec

\* Type correctness.
THEOREM TypeCorrect == Spec => []TypeOK
<1>1. Inv => TypeOK
  BY DEF Inv
<1> QED BY <1>1, Invariance, PTL

\* renderTaskLoop() reads currentActivity under the lock, so the activity whose
\* render() runs is never destroyed or moved under it.
THEOREM RenderIsSafe == Spec => []DrawsOnlyTheCurrent
<1>1. Inv => DrawsOnlyTheCurrent
  BY DEF Inv, Pixels, DrawsOnlyTheCurrent
<1> QED BY <1>1, Invariance, PTL

\* loop() never spins on a pending action without an activity to launch.
THEOREM PendingComplete == Spec => []PendingIsComplete
<1>1. Inv => PendingIsComplete
  BY DEF Inv, OneOwner
<1> QED BY <1>1, Invariance, PTL

\* requestUpdateAndWait() is woken by its own request only, and someone is
\* always bound to wake it.
THEOREM HandshakeIsSound == Spec => [](NoStrayWake /\ WaiterIsRemembered)
<1>1. Inv => NoStrayWake /\ WaiterIsRemembered
  BY DEF Inv, Handshake, NoStrayWake
<1> QED BY <1>1, Invariance, PTL

\* No update is lost between requestUpdate(), the end of loop() and the render
\* task.
THEOREM NoUpdateLost == Spec => []IdleDisplayIsCurrent
<1>1. Inv => IdleDisplayIsCurrent
  BY DEF Inv, Position, UpdateComes, IdleDisplayIsCurrent
<1> QED BY <1>1, Invariance, PTL

\* A sleep screen that was entered is what the device sleeps behind.
THEOREM SleepScreenUntouched == Spec => []SleepScreenStays
<1>1. Inv => SleepScreenStays
  BY DEF Inv, Position, LastPass, SleepScreenStays
<1> QED BY <1>1, Invariance, PTL

\* If activities change what render() reads only under RenderLock, then
\* requestUpdateAndWait() returns with that state on the display.
THEOREM WaitShowsTheCallersState ==
  ASSUME ~UnlockedWrites
  PROVE  Spec => []WaitReturnsDrawn
<1>1. Inv => WaitReturnsDrawn
  BY DEF Inv, Answered, WaitReturnsDrawn
<1> QED BY <1>1, Invariance, PTL

\* Without a child started before the first loop(), every result reaches the
\* handler stored for the child that returned it.
THEOREM ResultsAreMatched ==
  ASSUME ~RecoveryBoot
  PROVE  Spec => []ResultsReachTheirStarter
<1>1. Inv => ResultsReachTheirStarter
  BY DEF Inv, Handlers
<1> QED BY <1>1, Invariance, PTL

(***************************************************************************)
(* The refinement: the initial state is an initial state of ScreenStack,   *)
(* and under Inv each step is a step of ScreenStack or leaves screens and  *)
(* display alone.                                                          *)
(***************************************************************************)

\* What was pushed is what a pop removes,
LEMMA PushThenPop ==
  ASSUME NEW S, NEW s \in Seq(S), NEW a \in S
  PROVE  /\ Front(Append(s, a)) = s
         /\ Last(Append(s, a)) = a
         /\ Append(s, a) # << >>
<1> DEFINE t == Append(s, a)
<1>1. t \in Seq(S) /\ t # << >> /\ Len(t) = Len(s) + 1 /\ t[Len(s) + 1] = a
      /\ \A i \in 1 .. Len(s) : t[i] = s[i]
  BY AppendProperties
<1>2. /\ Front(t) \in Seq(S) /\ Len(t) = Len(Front(t)) + 1
      /\ \A i \in 1 .. Len(Front(t)) : Front(t)[i] = t[i]
  BY <1>1, PoppedStack
<1>3. Len(Front(t)) = Len(s) /\ Len(s) \in Nat
  BY <1>1, <1>2, LenProperties
<1>4. Front(t) = s
  BY <1>1, <1>2, <1>3, SeqEqual
<1> QED BY <1>1, <1>4 DEF Last

\* and pushing what was popped restores the stack.
LEMMA PopThenPush ==
  ASSUME NEW S, NEW s \in Seq(S), s # << >>
  PROVE  Append(Front(s), Last(s)) = s
<1> DEFINE f == Front(s)
<1>1. /\ f \in Seq(S) /\ Last(s) \in S /\ Len(s) = Len(f) + 1
      /\ \A i \in 1 .. Len(f) : f[i] = s[i]
  BY PoppedStack
<1> DEFINE t == Append(f, Last(s))
<1>2. /\ t \in Seq(S) /\ Len(t) = Len(s) /\ Len(f) \in Nat
      /\ \A i \in 1 .. Len(f) : t[i] = f[i]
      /\ t[Len(s)] = Last(s)
  BY <1>1, AppendProperties, LenProperties
<1>3. \A i \in 1 .. Len(t) : t[i] = s[i]
  BY <1>1, <1>2 DEF Last
<1> QED BY <1>2, <1>3, SeqEqual

\* A step of either task is a step of the abstract stack of screens, or none.
LEMMA StepRefines ==
  ASSUME Inv, [Next]_vars
  PROVE  [Promise!Next]_(Promise!vars)
<1> USE NoActivityIsNone DEF Inv, TypeOK, OwnersOK, MaybeActivity, navigation,
       handshake, mainTask, renderTask
<1> DEFINE Same == UNCHANGED <<current, stack, panel>>
<1>0. ASSUME Same PROVE UNCHANGED Promise!vars
  BY <1>0 DEF Promise!vars, Shown
<1>1. CASE Setup
  <2>1. CASE UNCHANGED current
    BY <1>0, <1>1, <2>1 DEF Setup, GoToBoot, RouteBoot, SetupReturns
  <2>2. CASE current' # current
    <3>1. PICK b \in Activities : current' = b /\ current = NoActivity
             /\ UNCHANGED <<stack, panel>>
      BY <1>1, <2>2 DEF Setup, GoToBoot, RouteBoot, SetupReturns, ReplaceNow,
         Fresh
    <3>2. stack = << >> /\ Range(stack) = {}
      BY <3>1, RangeOfEmpty DEF Position
    <3>3. Shown = << >> /\ Shown' = Append(Shown, b)
      BY <3>1, <3>2 DEF Shown
    <3>4. Promise!Open
      BY <3>1, <3>2, <3>3 DEF Promise!Open, Promise!Range, Range
    <3> QED BY <3>4 DEF Promise!Next
  <2> QED BY <2>1, <2>2
<1>2. CASE Top
  BY <1>0, <1>2 DEF Top, RequestRepaint, GoToSleep, SuppressedRelease,
     HomeGesture, LightPanelGesture, EnterLoop
<1>3. CASE Call
  <2>1. CASE WriteState
    <3>1. UNCHANGED <<current, stack>> /\ panel' \in {panel, NoActivity}
      BY <2>1 DEF WriteState, Outdates
    <3>2. CASE panel' = NoActivity
      BY <3>1, <3>2 DEF Promise!Next, Promise!Change, Shown
    <3>3. CASE panel' = panel
      BY <1>0, <3>1, <3>3
    <3> QED BY <3>1, <3>2, <3>3
  <2>2. CASE Call /\ ~WriteState
    BY <1>0, <2>2 DEF Call, RequestUpdate, WaitRegister,
       StartActivityForResult, Finish, GoTo
  <2> QED BY <1>3, <2>1, <2>2
<1>4. CASE Wait
  BY <1>0, <1>4 DEF Wait, WaitNotify, WaitReturn
<1>5. CASE Return
  <2>1. CASE DrawDirectly
    <3>1. UNCHANGED <<current, stack>> /\ panel' = current
             /\ current \in Activities
      BY <2>1 DEF DrawDirectly, Position
    <3>2. /\ Shown = Append(stack, current) /\ Shown' = Shown
          /\ Shown # << >> /\ Last(Shown) = current
      BY <3>1, PushThenPop DEF Shown
    <3>3. Promise!Paint
      BY <3>1, <3>2 DEF Promise!Paint, Promise!Last, Last
    <3> QED BY <3>3 DEF Promise!Next
  <2>2. CASE Return /\ ~DrawDirectly
    BY <1>0, <2>2 DEF Return, HookReturns, HandlerReturns, ExclusiveReturns
  <2> QED BY <1>5, <2>1, <2>2
<1>6. CASE Apply
  <2>1. CASE PopLast
    <3>1. /\ stack = << >> /\ stack' = << >> /\ current' = NoActivity
          /\ current \in Activities
          /\ panel' = IF panel = current THEN NoActivity ELSE panel
      BY <2>1 DEF PopLast, Outdates, Position
    <3>2. /\ Shown = Append(stack, current) /\ Shown' = stack
          /\ Shown # << >> /\ Last(Shown) = current /\ Front(Shown) = stack
      BY <3>1, PushThenPop DEF Shown
    <3>3. Promise!Close
      BY <3>1, <3>2 DEF Promise!Close, Promise!Last, Last,
                             Promise!Front, Front
    <3> QED BY <3>3 DEF Promise!Next
  <2>2. CASE PopToParent
    <3>1. /\ stack # << >> /\ stack' = Front(stack) /\ current' = Last(stack)
          /\ current \in Activities
          /\ panel' = IF panel = current THEN NoActivity ELSE panel
      BY <2>2 DEF PopToParent, Outdates, Position
    <3>2. Last(stack) \in Activities /\ Append(stack', current') = stack
      BY <3>1, PoppedStack, PopThenPush
    <3>3. /\ Shown = Append(stack, current) /\ Shown' = stack
          /\ Shown # << >> /\ Last(Shown) = current /\ Front(Shown) = stack
      BY <3>1, <3>2, PushThenPop DEF Shown
    <3>4. Promise!Close
      BY <3>1, <3>3 DEF Promise!Close, Promise!Last, Last,
                             Promise!Front, Front
    <3> QED BY <3>4 DEF Promise!Next
  <2>3. CASE GoHomeAfterPop
    <3>1. PICK b \in Activities : current' = b /\ current = NoActivity
             /\ UNCHANGED <<stack, panel>>
      BY <2>3 DEF GoHomeAfterPop, ReplaceNow, Fresh
    <3>2. stack = << >> /\ Range(stack) = {}
      BY <3>1, RangeOfEmpty DEF Position
    <3>3. Shown = << >> /\ Shown' = Append(Shown, b)
      BY <3>1, <3>2 DEF Shown
    <3>4. Promise!Open
      BY <3>1, <3>2, <3>3 DEF Promise!Open, Promise!Range, Range
    <3> QED BY <3>4 DEF Promise!Next
  <2>4. CASE Switch
    <3>1. /\ current' = pendingActivity /\ pendingActivity \in Activities
          /\ current \in Activities
          /\ pendingActivity \notin Range(stack) \cup {current}
      BY <2>4 DEF Switch, Position, OneOwner, PendingIsComplete, OnStack
    <3>2. Append(stack, current) \in Seq(Activities) /\ Append(stack,
             current) # << >>
          /\ Range(Append(stack, current)) = Range(stack) \cup {current}
      BY <3>1, PushedStack, PushThenPop
    <3>3. CASE pendingAction = "Push"
      <4>1. stack' = Append(stack, current) /\ UNCHANGED panel
        BY <2>4, <3>3 DEF Switch, KeepCurrent
      <4>2. Shown = Append(stack, current) /\ Shown' = Append(Shown,
               pendingActivity)
        BY <3>1, <4>1 DEF Shown
      <4>3. Promise!Open
        BY <3>1, <3>2, <4>1, <4>2 DEF Promise!Open, Promise!Range, Range
      <4> QED BY <4>3 DEF Promise!Next
    <3>4. CASE pendingAction = "Replace"
      <4>1. stack' = << >> /\ panel' = NoActivity
        BY <2>4, <3>4 DEF Switch, DropStack, Outdates, Pixels, OnStack
      <4>2. Shown = Append(stack, current) /\ Shown' = <<pendingActivity>>
        BY <3>1, <4>1 DEF Shown
      <4>3. Promise!StartOver
        BY <3>1, <3>2, <4>1, <4>2 DEF Promise!StartOver, Promise!Range, Range
      <4> QED BY <4>3 DEF Promise!Next
    <3> QED BY <2>4, <3>3, <3>4 DEF Switch
  <2>5. CASE PopLock \/ SwitchLock \/ Flush
    BY <1>0, <2>5 DEF PopLock, SwitchLock, Flush
  <2> QED BY <1>6, <2>1, <2>2, <2>3, <2>4, <2>5 DEF Apply
<1>7. CASE Restart
  BY <1>7 DEF Restart, Promise!Next, Promise!Restart, Shown
<1>8. CASE Render
  <2>1. CASE RenderEnd
    <3>1. UNCHANGED <<current, stack>> /\ panel' \in {current, NoActivity}
             /\ current \in Activities
      BY <2>1 DEF RenderEnd, Pixels
    <3>2. /\ Shown = Append(stack, current) /\ Shown' = Shown
          /\ Shown # << >> /\ Last(Shown) = current
      BY <3>1, PushThenPop DEF Shown
    <3>3. Promise!Paint
      BY <3>1, <3>2 DEF Promise!Paint, Promise!Last, Last
    <3> QED BY <3>3 DEF Promise!Next
  <2>2. CASE Render /\ ~RenderEnd
    BY <1>0, <2>2 DEF Render, RenderTake, RenderAcquire, RenderBegin,
       RenderHandoff, RenderWake, RenderRelease
  <2> QED BY <1>8, <2>1, <2>2
<1>9. CASE UNCHANGED vars
  BY <1>0, <1>9 DEF vars
<1> QED BY <1>1, <1>2, <1>3, <1>4, <1>5, <1>6, <1>7, <1>8, <1>9 DEF Next

\* Whatever the tasks do and in whatever order, activities see one stack of
\* screens, of which only the top is painted.
THEOREM ManagerKeepsItsPromise == Spec => ImplementsScreenStack
<1>1. Init => Promise!Init
  BY DEF Init, Promise!Init, Shown
<1>2. Inv /\ [Next]_vars => [Promise!Next]_(Promise!vars)
  BY StepRefines
<1> QED BY <1>1, <1>2, Invariance, PTL DEF Spec, ImplementsScreenStack,
       Promise!Spec
=============================================================================
