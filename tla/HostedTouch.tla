------------------------------ MODULE HostedTouch ------------------------------
(***************************************************************************)
(* Touch input of the Android build.  The UI thread classifies each        *)
(* contact of a finger (ReaderActivity.kt, with Android's GestureDetector) *)
(* and posts the gesture to AndroidTouchDevice, a mailbox for one gesture  *)
(* guarded by a mutex.  The reader's thread takes it once per frame and    *)
(* lets the screens react; a screen that acts on a long press suppresses   *)
(* what is left of the contact.                                            *)
(***************************************************************************)
EXTENDS Naturals

CONSTANTS MaxContacts   \* bound on the contacts of one session

ASSUME TouchAssumption == MaxContacts \in Nat

VARIABLES
  contact,      \* number of the contact in progress, or of the last one
  finger,       \* "up", "down", or "lifted": the release is not classified yet
  held,         \* the detector has reported a long press of this contact
  pending,      \* AndroidTouchDevice::pending
  contactDown,
  suppressed,
  frameGesture, \* HalGPIO::frameGesture, what this frame of the reader sees
  reader,       \* "update" or "react": the reader's next step
  seen          \* contact of the last gesture a frame saw (for the properties)

ui      == <<contact, finger, held>>
mailbox == <<pending, contactDown, suppressed>>
vars == <<ui, mailbox, frameGesture, reader, seen>>

None == [kind |-> "None", contact |-> 0]

Init ==
  /\ contact = 0 /\ finger = "up" /\ held = FALSE
  /\ pending = None /\ contactDown = FALSE /\ suppressed = FALSE
  /\ frameGesture = None /\ reader = "update" /\ seen = 0

-----------------------------------------------------------------------------
(* Variants: plausible mistakes, used by no specification.                 *)

Taken_Kept == UNCHANGED pending

-----------------------------------------------------------------------------
(* The UI thread.                                                          *)

\* postGesture()
Post(kind) ==
  IF suppressed /\ kind # "LongPress"
    THEN UNCHANGED <<pending, suppressed>>
    ELSE /\ pending' = [kind |-> kind, contact |-> contact]
         /\ suppressed' = (suppressed \/ kind = "LongPress")

\* ACTION_DOWN -> setContactDown(true)
FingerDown ==
  /\ finger = "up" /\ contact < MaxContacts
  /\ contact' = contact + 1
  /\ finger' = "down" /\ held' = FALSE
  /\ contactDown' = TRUE
  /\ UNCHANGED <<pending, suppressed, frameGesture, reader, seen>>

\* onLongPress(), while the finger is still down.
LongPress ==
  /\ finger = "down" /\ ~held
  /\ held' = TRUE
  /\ Post("LongPress")
  /\ UNCHANGED <<contact, finger, contactDown, frameGesture, reader, seen>>

\* ACTION_UP or ACTION_CANCEL -> setContactDown(false), before the detector
\* sees the event.
FingerUp ==
  /\ finger = "down"
  /\ finger' = "lifted"
  /\ contactDown' = FALSE
  /\ suppressed' = FALSE
  /\ UNCHANGED <<contact, held, pending, frameGesture, reader, seen>>

\* The detector reports a tap or a swipe, or nothing; after a long press it
\* reports nothing.
Classify ==
  /\ finger = "lifted"
  /\ finger' = "up"
  /\ \/ UNCHANGED <<pending, suppressed>>
     \/ ~held /\ \E kind \in {"Tap", "Swipe"} : Post(kind)
  /\ UNCHANGED <<contact, held, contactDown, frameGesture, reader, seen>>

-----------------------------------------------------------------------------
(* The reader's thread.                                                    *)

\* HalGPIO::update() -> AndroidTouchDevice::update()
Taken == pending' = None

Update ==
  /\ reader = "update"
  /\ frameGesture' = pending
  /\ seen' = IF pending = None THEN seen ELSE pending.contact
  /\ Taken
  /\ reader' = "react"
  /\ UNCHANGED <<ui, contactDown, suppressed>>

\* wasScreenLongPress() -> suppressContact()
ConsumeLongPress ==
  /\ reader = "react" /\ frameGesture.kind = "LongPress"
  /\ suppressed' = TRUE
  /\ pending' = None
  /\ reader' = "update"
  /\ UNCHANGED <<ui, contactDown, frameGesture, seen>>

\* The screens react to anything else, or ignore the long press.
React ==
  /\ reader = "react"
  /\ reader' = "update"
  /\ UNCHANGED <<ui, mailbox, frameGesture, seen>>

-----------------------------------------------------------------------------
Next == FingerDown \/ LongPress \/ FingerUp \/ Classify
        \/ Update \/ ConsumeLongPress \/ React

Spec == Init /\ [][Next]_vars

-----------------------------------------------------------------------------
(* Properties.                                                             *)

\* Screens see at most one gesture of each contact, and in the order the user
\* made them: one frame's gesture is never older than that of a frame before.
GesturesInOrder ==
  [][reader = "update" /\ reader' = "react" /\ frameGesture'.kind # "None"
       => frameGesture'.contact > seen]_vars
=============================================================================
