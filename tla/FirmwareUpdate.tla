--------------------------- MODULE FirmwareUpdate ---------------------------
(***************************************************************************)
(* Replacing the firmware: an image from the card (FirmwareFlasher.cpp) or *)
(* from the network (OtaUpdater.cpp) is written to the partition that does *)
(* not run, and the boot selection in otadata is moved to it               *)
(* (OtaBootSwitch.cpp).  The power may fail before, during or after any    *)
(* write to the flash.                                                     *)
(*                                                                         *)
(* The boot loader, with or without its rollback, and esp_ota_*() are      *)
(* outside the repository: they are modelled from how it uses them.        *)
(***************************************************************************)
EXTENDS Integers

CONSTANTS
  Rollback,  \* the boot loader gives a new image one start to be confirmed
  MaxSeq     \* bound on ota_seq

ASSUME FirmwareAssumption == Rollback \in BOOLEAN /\ MaxSeq \in Nat

Partitions == {0, 1}  \* ota_0 and ota_1
Slots      == {0, 1}  \* the two sectors of otadata

\* Complete and tagged for this board; without a tag; seen to be for another chip
\* or tagged for another board; incomplete.
Images  == {"own", "untagged", "foreign", "cut"}
Accepted == {"own", "untagged"}
States  == {"New", "Pending", "Valid", "Aborted"}
Entries == [seq : Nat, state : States]
Blank   == [seq |-> 0, state |-> "Aborted"]  \* erased, or with a wrong CRC

VARIABLES
  app,       \* the image in each partition
  otadata,   \* SelectEntry of each slot
  pc,        \* what the main task does; "off" without power
  running,   \* the partition that was booted
  card,      \* the chosen file on the SD card
  promised   \* history: the partition the last update that succeeded wrote, or 2

vars == <<app, otadata, pc, running, card, promised>>

-----------------------------------------------------------------------------
(* otadata.                                                                *)

Usable(e) == e # Blank /\ e.state # "Aborted"

\* The valid slot of the highest sequence, or -1.
Active(o) ==
  IF \A i \in Slots : ~Usable(o[i]) THEN -1
  ELSE CHOOSE i \in Slots : Usable(o[i]) /\ \A j \in Slots : Usable(o[j]) => o[j].seq <= o[i].seq

ActiveSeq(o) == IF Active(o) = -1 THEN 0 ELSE o[Active(o)].seq

\* (seq - 1) % 2 picks the partition; without an entry the first one boots.
Selected(o) == IF Active(o) = -1 THEN 0 ELSE (ActiveSeq(o) - 1) % 2

NewSeq_Next(seq, dest) == seq + 1

\* The smallest sequence above seq that picks dest.
NewSeq(seq, dest) == IF seq % 2 = dest THEN seq + 1 ELSE seq + 2

TargetSlot_Active(o) == IF Active(o) = -1 THEN 0 ELSE Active(o)

\* The slot the boot loader does not go by.
TargetSlot(o) == IF Active(o) = 0 THEN 1 ELSE 0

-----------------------------------------------------------------------------
Init ==
  /\ app \in [Partitions -> Images] /\ app[0] = "own"
  /\ otadata = [i \in Slots |-> Blank]
  /\ pc = "off" /\ running = 0 /\ card = "cut" /\ promised = 2

\* esp_ota_get_next_update_partition()
Dest == 1 - running

-----------------------------------------------------------------------------
(* The boot loader, and the confirmation of a new image when it starts.    *)

\* The state of the entry the boot loader goes by.
ActiveState == IF Active(otadata) = -1 THEN "Valid" ELSE otadata[Active(otadata)].state

StateOfActive(state) == [otadata EXCEPT ![Active(otadata)].state = state]
EraseActive          == [otadata EXCEPT ![Active(otadata)] = Blank]

\* A new entry is marked as being started; the sector may be lost in that write.
FirstStart ==
  /\ pc = "off" /\ Rollback /\ ActiveState = "New"
  /\ \/ /\ otadata' = StateOfActive("Pending")
        /\ running' = Selected(otadata) /\ pc' = "starting" /\ UNCHANGED promised
     \/ otadata' = EraseActive /\ promised' = 2 /\ UNCHANGED <<pc, running>>
  /\ UNCHANGED <<app, card>>

\* An entry that was started once and not confirmed is given up.
RollBack ==
  /\ pc = "off" /\ Rollback /\ ActiveState = "Pending"
  /\ otadata' \in {StateOfActive("Aborted"), EraseActive}
  /\ UNCHANGED <<app, pc, running, card, promised>>

Start ==
  /\ pc = "off" /\ (Rollback => ActiveState \notin {"New", "Pending"})
  /\ running' = Selected(otadata) /\ pc' = "starting"
  /\ UNCHANGED <<app, otadata, card, promised>>

\* The start-up code of the Arduino core confirms the image.
Confirm ==
  /\ pc = "starting"
  /\ otadata' = [i \in Slots |->
       IF otadata[i].state = "Pending" THEN [otadata[i] EXCEPT !.state = "Valid"] ELSE otadata[i]]
  /\ pc' = "idle" /\ promised' = 2
  /\ UNCHANGED <<app, running, card>>

-----------------------------------------------------------------------------
(* From the card: SdFirmwareUpdateActivity and flashFromSdPath().          *)

\* An image without a tag passes: nothing tells which board it is for.
Validates(file) == file \in Accepted

Pick ==
  /\ pc = "idle"
  /\ card' \in Images /\ Validates(card')
  /\ pc' = "confirming"
  /\ UNCHANGED <<app, otadata, running, promised>>

\* While the user is asked, the card can be changed for another.
Swap ==
  /\ pc = "confirming"
  /\ card' \in Images
  /\ UNCHANGED <<app, otadata, pc, running, promised>>

Cancel ==
  /\ pc = "confirming"
  /\ pc' = "idle"
  /\ UNCHANGED <<app, otadata, running, card, promised>>

Revalidates_Not(file) == TRUE

\* The file is validated again, on the card that is there now.
Revalidates(file) == Validates(file)

Refuse ==
  /\ pc = "confirming" /\ ~Revalidates(card)
  /\ pc' = "idle"
  /\ UNCHANGED <<app, otadata, running, card, promised>>

Flash ==
  /\ pc = "confirming" /\ Revalidates(card)
  /\ app' \in {app, [app EXCEPT ![Dest] = "cut"]}
  /\ pc' = "flashing"
  /\ UNCHANGED <<otadata, running, card, promised>>

\* Blocks are erased and written in turn; a failure leaves the rest.
WriteImage ==
  /\ pc = "flashing"
  /\ \/ app' = [app EXCEPT ![Dest] = card] /\ pc' = "switch"
     \/ app' \in {app, [app EXCEPT ![Dest] = "cut"]} /\ pc' = "idle"
  /\ UNCHANGED <<otadata, running, card, promised>>

-----------------------------------------------------------------------------
(* From the network: OtaUpdater::installUpdate().                          *)

\* esp_ota_begin() erases; then the image is written as it arrives.
Download ==
  /\ pc = "idle"
  /\ app' \in {app, [app EXCEPT ![Dest] = "cut"]}
  /\ pc' = "download"
  /\ UNCHANGED <<otadata, running, card, promised>>

Received_IgnoresTag ==
  /\ pc = "download"
  /\ \E image \in Images :
       /\ app' = [app EXCEPT ![Dest] = image]
       /\ pc' \in (IF image # "cut" THEN {"switch"} ELSE {}) \cup {"idle"}
  /\ UNCHANGED <<otadata, running, card, promised>>

\* The transfer ends or is cut; a chip or a board tag that does not match aborts
\* it; esp_ota_end() verifies the image.
Received ==
  /\ pc = "download"
  /\ \E image \in Accepted \cup {"cut"} :
       /\ app' = [app EXCEPT ![Dest] = image]
       /\ pc' \in (IF image # "cut" THEN {"switch"} ELSE {}) \cup {"idle"}
  /\ UNCHANGED <<otadata, running, card, promised>>

-----------------------------------------------------------------------------
(* switchTo(), and esp_ota_set_boot_partition() for the network.           *)

Switch ==
  /\ pc = "switch"
  /\ \/ otadata' = [otadata EXCEPT ![TargetSlot(otadata)] = Blank] /\ pc' = "entry"
     \/ UNCHANGED otadata /\ pc' = "idle"
  /\ UNCHANGED <<app, running, card, promised>>

\* The boot loader has not started it yet.
NewEntry(seq) == [seq |-> seq, state |-> "New"]

WriteEntry ==
  /\ pc = "entry"
  /\ \/ /\ NewSeq(ActiveSeq(otadata), Dest) <= MaxSeq
        /\ otadata' = [otadata EXCEPT ![TargetSlot(otadata)] = NewEntry(NewSeq(ActiveSeq(otadata), Dest))]
        /\ pc' = "done" /\ promised' = Dest
     \/ pc' = "idle" /\ UNCHANGED <<otadata, promised>>
  /\ UNCHANGED <<app, running, card>>

Restart ==
  /\ pc = "done"
  /\ pc' = "off"
  /\ UNCHANGED <<app, otadata, running, card, promised>>

-----------------------------------------------------------------------------
\* The power fails, during any write too.
PowerFails ==
  /\ pc # "off"
  /\ app' \in IF pc \in {"flashing", "download"}
                THEN {app, [app EXCEPT ![Dest] = "cut"]} ELSE {app}
  /\ pc' = "off"
  /\ promised' = IF pc = "done" THEN promised ELSE 2
  /\ UNCHANGED <<otadata, running, card>>

Next ==
  \/ FirstStart \/ RollBack \/ Start \/ Confirm \/ Pick \/ Swap \/ Cancel \/ Refuse \/ Flash \/ WriteImage
  \/ Download \/ Received \/ Switch \/ WriteEntry \/ Restart \/ PowerFails

Spec == Init /\ [][Next]_vars
-----------------------------------------------------------------------------
(* Properties.                                                             *)

TypeOK ==
  /\ app \in [Partitions -> Images] /\ otadata \in [Slots -> Entries]
  /\ pc \in {"off", "starting", "idle", "confirming", "flashing", "download",
             "switch", "entry", "done"}
  /\ running \in Partitions /\ card \in Images /\ promised \in Partitions \cup {2}

\* Whenever the power fails, the partition the boot loader would go to holds a
\* complete image that is not tagged for another board: no update cut short at
\* any write, and no new image given up after its first start, leaves the device
\* without one (FirmwareFlasher.cpp:275-355, OtaBootSwitch.cpp:68-79).  An image
\* without a tag may still be another board's: the code lets it pass
\* (FirmwareBoardTag.h:14-16).
SelectedIsWhole == app[Selected(otadata)] \in Accepted

\* An update that was reported successful is what the next start runs: the
\* sequence it wrote picks the partition it wrote (OtaBootSwitch.cpp:59-60).
SuccessBootsNew == pc = "starting" /\ promised # 2 => running = promised

\* An update that was refused, failed or was cancelled leaves the boot selection
\* where it was, also when it failed between the erasure of the entry and its
\* write (OtaBootSwitch.cpp:69-79, OtaUpdater.cpp:220-242).
FailedChangesNothing == pc \notin {"off", "done"} => Selected(otadata) = running
=============================================================================
