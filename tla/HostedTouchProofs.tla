-------------------------- MODULE HostedTouchProofs --------------------------
(***************************************************************************)
(* Proof about HostedTouch, for any number of contacts: the reader sees    *)
(* gestures in the order they were made, and at most one of each contact.  *)
(***************************************************************************)
EXTENDS HostedTouch, TLAPS

Gestures == [kind : {"None", "Tap", "Swipe", "LongPress"}, contact : Nat]

TypeInv ==
  /\ contact \in Nat /\ seen \in Nat
  /\ pending \in Gestures /\ suppressed \in BOOLEAN /\ held \in BOOLEAN
  /\ finger \in {"up", "down", "lifted"}

\* What waits in the mailbox was made after what was seen, and what the contact
\* in progress may still post is newer than both.
OrderInv ==
  /\ seen <= contact
  /\ pending = None \/ (pending.kind # "None" /\ pending.contact > seen /\ pending.contact <= contact)
  /\ finger # "up" /\ held = FALSE =>
       contact > seen /\ (pending = None \/ pending.contact < contact)

IInv == TypeInv /\ OrderInv

LEMMA NoneType == None \in Gestures /\ None.kind = "None" /\ None.contact = 0
BY DEF None, Gestures

LEMMA InitIInv == Init => IInv
<1> SUFFICES ASSUME Init PROVE IInv
  OBVIOUS
<1>1. TypeInv
  BY NoneType DEF Init, TypeInv
<1>2. OrderInv
  BY DEF Init, OrderInv
<1> QED BY <1>1, <1>2 DEF IInv

LEMMA Preserved == IInv /\ [Next]_vars => IInv'
<1> SUFFICES ASSUME IInv, [Next]_vars PROVE IInv'
  OBVIOUS
<1> USE NoneType DEF IInv, TypeInv, OrderInv
<1>0. \A g \in Gestures : g.contact \in Nat
  BY DEF Gestures
<1>1. CASE FingerDown
  <2>1. TypeInv'
    <3>1. contact' = contact + 1 /\ finger' = "down" /\ held' = FALSE
          /\ UNCHANGED <<pending, suppressed, seen>>
      BY <1>1 DEF FingerDown
    <3>2. contact' \in Nat /\ seen' \in Nat
      BY <3>1
    <3>3. pending' \in Gestures /\ suppressed' \in BOOLEAN
      BY <3>1
    <3>4. held' \in BOOLEAN
      BY <3>1
    <3>5. finger' \in {"up", "down", "lifted"}
      BY <3>1
    <3> QED BY <3>2, <3>3, <3>4, <3>5
  <2>2. contact' = contact + 1 /\ finger' = "down" /\ pending' = pending /\ seen' = seen
    BY <1>1 DEF FingerDown
  <2>3. pending.contact \in Nat
    BY <1>0
  <2>4. seen <= contact + 1 /\ contact + 1 > seen
    OBVIOUS
  <2>5. pending = None \/ (pending.kind # "None" /\ pending.contact > seen
                          /\ pending.contact <= contact + 1 /\ pending.contact < contact + 1)
    BY <2>3
  <2>6. OrderInv'
    BY <2>2, <2>4, <2>5
  <2> QED BY <2>1, <2>6
<1>2. CASE LongPress
  BY <1>2 DEF LongPress, Post, Gestures, None
<1>3. CASE FingerUp
  BY <1>3 DEF FingerUp
<1>4. CASE Classify
  BY <1>4 DEF Classify, Post, Gestures, None
<1>5. CASE Update
  BY <1>5 DEF Update, Taken, ui
<1>6. CASE ConsumeLongPress \/ React
  BY <1>6 DEF ConsumeLongPress, React, ui, mailbox
<1>7. CASE UNCHANGED vars
  BY <1>7 DEF vars, ui, mailbox
<1> QED BY <1>1, <1>2, <1>3, <1>4, <1>5, <1>6, <1>7 DEF Next

\* The invariant holds through any contacts, long presses and frames.
THEOREM Inductive == Spec => []IInv
BY InitIInv, Preserved, PTL DEF Spec

\* AndroidTouchDevice::update() takes a gesture once, and postGesture() keeps
\* the newest: a frame never sees one that is older than one seen before.
THEOREM GesturesComeInOrder == Spec => GesturesInOrder
<1>1. IInv /\ [Next]_vars =>
        [reader = "update" /\ reader' = "react" /\ frameGesture'.kind # "None"
           => frameGesture'.contact > seen]_vars
  <2> SUFFICES ASSUME IInv, Next, reader = "update", reader' = "react",
                      frameGesture'.kind # "None"
               PROVE  frameGesture'.contact > seen
    OBVIOUS
  <2>1. Update
    BY DEF Next, FingerDown, LongPress, FingerUp, Classify, ConsumeLongPress, React
  <2> QED BY <2>1 DEF Update, IInv, OrderInv, None
<1> QED BY <1>1, Inductive, PTL DEF Spec, GesturesInOrder
=============================================================================
