------------------------ MODULE FirmwareUpdateProofs ------------------------
(***************************************************************************)
(* Proofs about FirmwareUpdate, with and without the rollback of the boot  *)
(* loader and for any number of updates: the device always has a complete  *)
(* image to boot, none tagged for another board; it is the one an update   *)
(* promised, and a failed update changes nothing.                          *)
(***************************************************************************)
EXTENDS FirmwareUpdate, TLAPS

OtaData == [Slots -> Entries]

\* Two entries of the same sequence would leave the choice to chance.
Distinct(o) == Usable(o[0]) /\ Usable(o[1]) => o[0].seq # o[1].seq

\* What boots if the entry gone by is given up.
Fallback(o) == Selected([o EXCEPT ![Active(o)] = Blank])

Unconfirmed == ActiveState \in {"New", "Pending"}

-----------------------------------------------------------------------------
(* The inductive invariant.                                                *)

EntryInv ==
  /\ Distinct(otadata)
  /\ Rollback => \A i \in Slots :
       i # Active(otadata) /\ Usable(otadata[i]) => otadata[i].state = "Valid"

\* An image that still has to be confirmed has one to go back to.
GoBackInv ==
  Rollback /\ Unconfirmed =>
    pc \in {"off", "starting", "done"} /\ app[Fallback(otadata)] \in Accepted

StartInv == pc = "starting" /\ Rollback => ActiveState # "New"

\* The image being installed.
ImageInv ==
  /\ pc = "flashing" => card \in Accepted
  /\ pc \in {"switch", "entry"} => app[Dest] \in Accepted
  /\ pc = "entry" => ~Usable(otadata[TargetSlot(otadata)])

PromiseInv ==
  promised # 2 =>
    /\ pc \in {"off", "starting", "done"}
    /\ Selected(otadata) = promised
    /\ pc # "starting" => ActiveState # "Pending"

IInv ==
  /\ TypeOK /\ EntryInv /\ GoBackInv /\ StartInv /\ ImageInv /\ PromiseInv
  /\ SelectedIsWhole /\ FailedChangesNothing

-----------------------------------------------------------------------------
(* The sequence numbers.                                                   *)

LEMMA NewSeqPicks ==
  ASSUME NEW seq \in Nat, NEW dest \in Partitions
  PROVE  NewSeq(seq, dest) \in Nat /\ NewSeq(seq, dest) > seq
         /\ (NewSeq(seq, dest) - 1) % 2 = dest
BY DEF NewSeq, Partitions

LEMMA Parity == ASSUME NEW n \in Nat PROVE (n - 1) % 2 \in Partitions
BY DEF Partitions

-----------------------------------------------------------------------------
(* The entry the boot loader goes by.                                      *)

LEMMA ActiveIs ==
  ASSUME NEW o \in OtaData, Distinct(o)
  PROVE  /\ Active(o) \in Slots \cup {-1}
         /\ Active(o) = -1 <=> \A i \in Slots : ~Usable(o[i])
         /\ Active(o) # -1 =>
              /\ Usable(o[Active(o)])
              /\ \A j \in Slots : Usable(o[j]) => o[j].seq <= o[Active(o)].seq
<1> DEFINE Best(i) == Usable(o[i]) /\ \A j \in Slots : Usable(o[j]) => o[j].seq <= o[i].seq
<1>1. CASE \A i \in Slots : ~Usable(o[i])
  BY <1>1 DEF Active, Slots
<1>2. CASE \E i \in Slots : Usable(o[i])
  <2>1. o[0].seq \in Nat /\ o[1].seq \in Nat
    BY DEF OtaData, Entries, Slots
  <2>2. \E i \in Slots : Best(i)
    <3>1. CASE Usable(o[0]) /\ (Usable(o[1]) => o[1].seq <= o[0].seq)
      BY <2>1, <3>1 DEF Slots
    <3>2. CASE Usable(o[1]) /\ (Usable(o[0]) => o[0].seq <= o[1].seq)
      BY <2>1, <3>2 DEF Slots
    <3> QED BY <1>2, <2>1, <3>1, <3>2 DEF Slots
  <2>3. Active(o) = CHOOSE i \in Slots : Best(i)
    BY <1>2 DEF Active
  <2>4. Active(o) \in Slots /\ Best(Active(o))
    BY <2>2, <2>3
  <2> QED BY <1>2, <2>4 DEF Slots
<1> QED BY <1>1, <1>2

LEMMA ActiveUnique ==
  ASSUME NEW o \in OtaData, Distinct(o), NEW i \in Slots, Usable(o[i]),
         \A j \in Slots : Usable(o[j]) => o[j].seq <= o[i].seq
  PROVE  Active(o) = i
<1>1. Active(o) \in Slots /\ Usable(o[Active(o)]) /\ o[i].seq <= o[Active(o)].seq
  BY ActiveIs
<1>2. o[Active(o)].seq <= o[i].seq
  BY <1>1
<1>3. o[0].seq \in Nat /\ o[1].seq \in Nat
  BY DEF OtaData, Entries, Slots
<1> QED BY <1>1, <1>2, <1>3 DEF Slots, Distinct

\* The choice depends on which entries are usable, and on their sequences.
LEMMA SameChoice ==
  ASSUME NEW o \in OtaData, NEW p \in OtaData, Distinct(o),
         \A i \in Slots : (Usable(o[i]) <=> Usable(p[i])) /\ (Usable(o[i]) => o[i].seq = p[i].seq)
  PROVE  Distinct(p) /\ Active(p) = Active(o) /\ Selected(p) = Selected(o) /\ TargetSlot(p) = TargetSlot(o)
<1>1. Distinct(p)
  BY DEF Distinct, Slots
<1>2. Active(p) = Active(o)
  <2>1. CASE \A i \in Slots : ~Usable(o[i])
    BY <2>1, <1>1, ActiveIs
  <2>2. CASE \E i \in Slots : Usable(o[i])
    <3>1. Active(o) \in Slots /\ Usable(p[Active(o)])
          /\ \A j \in Slots : Usable(o[j]) => o[j].seq <= o[Active(o)].seq
      BY <2>2, ActiveIs
    <3>2. \A j \in Slots : Usable(p[j]) => p[j].seq <= p[Active(o)].seq
      BY <3>1
    <3> QED BY <1>1, <3>1, <3>2, ActiveUnique
  <2> QED BY <2>1, <2>2
<1>3. Active(o) # -1 => p[Active(o)].seq = o[Active(o)].seq
  BY ActiveIs
<1> QED BY <1>1, <1>2, <1>3 DEF Selected, ActiveSeq, TargetSlot

\* The slot written is not the one gone by.
LEMMA TargetIsFree ==
  ASSUME NEW o \in OtaData, Distinct(o)
  PROVE  TargetSlot(o) \in Slots /\ TargetSlot(o) # Active(o)
         /\ \A j \in Slots : j = TargetSlot(o) \/ j = Active(o) \/ ~Usable(o[j])
BY ActiveIs DEF TargetSlot, Slots

LEMMA BlankIsUnusable == Blank \in Entries /\ ~Usable(Blank)
BY DEF Blank, Entries, States, Usable

LEMMA ErasedKeepsChoice ==
  ASSUME NEW o \in OtaData, Distinct(o)
  PROVE  LET p == [o EXCEPT ![TargetSlot(o)] = Blank]
         IN  /\ p \in OtaData /\ Distinct(p) /\ Active(p) = Active(o)
             /\ Selected(p) = Selected(o) /\ TargetSlot(p) = TargetSlot(o)
             /\ ~Usable(p[TargetSlot(o)])
             /\ \A i \in Slots : i # TargetSlot(o) => p[i] = o[i]
<1> DEFINE p == [o EXCEPT ![TargetSlot(o)] = Blank]
<1>1. TargetSlot(o) \in Slots /\ TargetSlot(o) # Active(o)
  BY TargetIsFree
<1>2. p \in OtaData /\ \A i \in Slots : p[i] = IF i = TargetSlot(o) THEN Blank ELSE o[i]
  BY <1>1, BlankIsUnusable DEF OtaData
<1>3. ~Usable(p[TargetSlot(o)])
  BY <1>1, <1>2, BlankIsUnusable
<1>4. Distinct(p)
  BY <1>2, BlankIsUnusable DEF Distinct, Slots
<1>5. Active(p) = Active(o)
  <2>1. CASE Active(o) = -1
    <3>1. \A i \in Slots : ~Usable(p[i])
      BY <2>1, <1>2, BlankIsUnusable, ActiveIs
    <3> QED BY <2>1, <3>1, <1>2, <1>4, ActiveIs
  <2>2. CASE Active(o) # -1
    <3>1. Active(o) \in Slots /\ Usable(o[Active(o)])
          /\ \A j \in Slots : Usable(o[j]) => o[j].seq <= o[Active(o)].seq
      BY <2>2, ActiveIs
    <3>2. p[Active(o)] = o[Active(o)]
      BY <1>1, <1>2, <3>1
    <3>3. \A j \in Slots : Usable(p[j]) => p[j].seq <= p[Active(o)].seq
      BY <1>2, <3>1, <3>2, BlankIsUnusable
    <3> QED BY <1>2, <1>4, <3>1, <3>2, <3>3, ActiveUnique
  <2> QED BY <2>1, <2>2
<1>6. Active(o) # -1 => p[Active(o)] = o[Active(o)]
  BY <1>1, <1>2, ActiveIs
<1> QED BY <1>2, <1>3, <1>4, <1>5, <1>6 DEF Selected, ActiveSeq, TargetSlot

LEMMA ActiveSeqIsNat ==
  ASSUME NEW o \in OtaData, Distinct(o)
  PROVE  ActiveSeq(o) \in Nat
BY ActiveIs DEF ActiveSeq, OtaData, Entries

\* A new entry is gone by at once; without it, what was gone by before.
LEMMA WrittenIsActive ==
  ASSUME NEW o \in OtaData, Distinct(o), ~Usable(o[TargetSlot(o)]),
         NEW seq \in Nat, seq > ActiveSeq(o),
         NEW p, p = [o EXCEPT ![TargetSlot(o)] = NewEntry(seq)]
  PROVE  /\ p \in OtaData /\ Distinct(p) /\ Active(p) = TargetSlot(o)
         /\ Selected(p) = (seq - 1) % 2
         /\ Fallback(p) = Selected(o)
<1> DEFINE q == [p EXCEPT ![TargetSlot(o)] = Blank]
<1>1. TargetSlot(o) \in Slots /\ TargetSlot(o) # Active(o)
      /\ \A j \in Slots : j = TargetSlot(o) \/ j = Active(o) \/ ~Usable(o[j])
  BY TargetIsFree
<1>2. \A i \in Slots : o[i].seq \in Nat
  BY DEF OtaData, Entries
<1>3. ActiveSeq(o) \in Nat
  BY ActiveSeqIsNat
<1>4. seq > ActiveSeq(o)
  OBVIOUS
<1>5. NewEntry(seq) \in Entries /\ NewEntry(seq).seq = seq /\ NewEntry(seq).state = "New"
      /\ Usable(NewEntry(seq))
  BY DEF NewEntry, Entries, States, Usable, Blank
<1>6. p \in OtaData /\ \A i \in Slots : p[i] = IF i = TargetSlot(o) THEN NewEntry(seq) ELSE o[i]
  BY <1>1, <1>5 DEF OtaData
<1>7. \A j \in Slots : Usable(o[j]) => o[j].seq <= ActiveSeq(o)
  BY ActiveIs DEF ActiveSeq
<1>8. Distinct(p)
  BY <1>1, <1>2, <1>3, <1>4, <1>5, <1>6, <1>7 DEF Distinct, Slots
<1>9. Active(p) = TargetSlot(o)
  <2>1. \A j \in Slots : Usable(p[j]) => p[j].seq <= p[TargetSlot(o)].seq
    BY <1>1, <1>2, <1>3, <1>4, <1>5, <1>6, <1>7
  <2>2. Usable(p[TargetSlot(o)])
    BY <1>1, <1>5, <1>6
  <2> QED BY <1>1, <1>6, <1>8, <2>1, <2>2, ActiveUnique
<1>10. Selected(p) = (seq - 1) % 2
  BY <1>1, <1>4, <1>5, <1>6, <1>9 DEF Selected, ActiveSeq, Slots
<1>11. Fallback(p) = Selected(o)
  <2>1. q \in OtaData /\ \A i \in Slots : q[i] = IF i = TargetSlot(o) THEN Blank ELSE o[i]
    BY <1>1, <1>6, BlankIsUnusable DEF OtaData
  <2>2. \A i \in Slots : (Usable(o[i]) <=> Usable(q[i])) /\ (Usable(o[i]) => o[i].seq = q[i].seq)
    BY <2>1, BlankIsUnusable
  <2> HIDE DEF q
  <2>3. Selected(q) = Selected(o)
    BY <2>1, <2>2, SameChoice
  <2> QED BY <1>9, <2>3 DEF Fallback, q
<1> QED BY <1>6, <1>8, <1>9, <1>10, <1>11

\* An entry in another state, which is still usable.
LEMMA StateChanged ==
  ASSUME NEW o \in OtaData, Distinct(o), Active(o) # -1, NEW state \in States \ {"Aborted"},
         NEW p, p = [o EXCEPT ![Active(o)].state = state]
  PROVE  /\ p \in OtaData /\ Distinct(p) /\ Active(p) = Active(o)
         /\ Selected(p) = Selected(o) /\ p[Active(o)].state = state
         /\ Fallback(p) = Fallback(o)
<1> DEFINE a == Active(o)
<1>1. a \in Slots /\ Usable(o[a])
  BY ActiveIs
<1>2. o[a] \in Entries
  BY <1>1 DEF OtaData
<1>3. p \in OtaData /\ p[a].state = state /\ p[a].seq = o[a].seq
      /\ \A i \in Slots : i # a => p[i] = o[i]
  BY <1>1, <1>2 DEF OtaData, Entries
<1>4. Usable(p[a])
  BY <1>3 DEF Usable, Blank
<1>5. \A i \in Slots : (Usable(o[i]) <=> Usable(p[i])) /\ (Usable(o[i]) => o[i].seq = p[i].seq)
  BY <1>1, <1>3, <1>4
<1>6. [p EXCEPT ![a] = Blank] = [o EXCEPT ![a] = Blank]
  BY <1>1, <1>3 DEF OtaData
<1>7. Distinct(p) /\ Active(p) = a /\ Selected(p) = Selected(o)
  BY <1>3, <1>5, SameChoice
<1>8. Fallback(p) = Fallback(o)
  BY <1>6, <1>7 DEF Fallback
<1> QED BY <1>3, <1>7, <1>8

\* An entry that is given up.
LEMMA GivenUp ==
  ASSUME NEW o \in OtaData, Distinct(o), Active(o) # -1, NEW e \in Entries, ~Usable(e),
         NEW p, p = [o EXCEPT ![Active(o)] = e]
  PROVE  /\ p \in OtaData /\ Distinct(p) /\ Selected(p) = Fallback(o)
         /\ Active(p) \in Slots \cup {-1} /\ Active(p) # Active(o)
<1> DEFINE a == Active(o)
           q == [o EXCEPT ![a] = Blank]
<1>1. a \in Slots
  BY ActiveIs
<1>2. p \in OtaData /\ \A i \in Slots : p[i] = IF i = a THEN e ELSE o[i]
  BY <1>1 DEF OtaData
<1>3. q \in OtaData /\ \A i \in Slots : q[i] = IF i = a THEN Blank ELSE o[i]
  BY <1>1, BlankIsUnusable DEF OtaData
<1>4. Distinct(p)
  BY <1>2 DEF Distinct, Slots
<1>5. \A i \in Slots : (Usable(p[i]) <=> Usable(q[i])) /\ (Usable(p[i]) => p[i].seq = q[i].seq)
  BY <1>2, <1>3, BlankIsUnusable
<1> HIDE DEF q
<1>6. Selected(q) = Selected(p)
  BY <1>2, <1>3, <1>4, <1>5, SameChoice
<1>7. Active(p) \in Slots \cup {-1} /\ (Active(p) # -1 => Usable(p[Active(p)]))
  BY <1>2, <1>4, ActiveIs
<1>8. Active(p) # a
  BY <1>1, <1>2, <1>7 DEF Slots
<1> QED BY <1>1, <1>2, <1>4, <1>6, <1>7, <1>8 DEF Fallback, q

-----------------------------------------------------------------------------
(* IInv is inductive.                                                      *)

LEMMA SelectsAPartition ==
  ASSUME NEW o \in OtaData, Distinct(o)
  PROVE  Selected(o) \in Partitions
<1>1. Active(o) # -1 => ActiveSeq(o) \in Nat
  BY ActiveIs DEF ActiveSeq, OtaData, Entries
<1> QED BY <1>1, Parity DEF Selected, Partitions

LEMMA InitIInv == Init => IInv
<1> SUFFICES ASSUME Init PROVE IInv
  OBVIOUS
<1>1. otadata \in OtaData /\ \A i \in Slots : otadata[i] = Blank
  BY BlankIsUnusable DEF Init, OtaData
<1>2. Distinct(otadata)
  BY <1>1, BlankIsUnusable DEF Distinct, Slots
<1>3. Active(otadata) = -1
  BY <1>1, <1>2, BlankIsUnusable, ActiveIs
<1>4. TypeOK
  BY <1>1 DEF Init, TypeOK, OtaData, Partitions, Images, Accepted
<1>5. EntryInv
  BY <1>1, <1>2, BlankIsUnusable DEF EntryInv
<1>6. SelectedIsWhole
  BY <1>3 DEF Init, SelectedIsWhole, Selected, Accepted
<1>7. GoBackInv /\ StartInv /\ ImageInv /\ PromiseInv /\ FailedChangesNothing
  BY <1>3 DEF Init, GoBackInv, StartInv, ImageInv, PromiseInv, FailedChangesNothing,
     Unconfirmed, ActiveState
<1> QED BY <1>4, <1>5, <1>6, <1>7 DEF IInv

LEMMA OtherPartition ==
  ASSUME TypeOK
  PROVE  Dest \in Partitions /\ Dest # running
BY DEF TypeOK, Dest, Partitions

\* The actions that do not write otadata, while an application runs.
LEMMA KeepsOtaData ==
  ASSUME IInv, UNCHANGED <<otadata, running>>, pc \notin {"off", "done", "starting"},
         TypeOK', \A q \in Partitions : q # Dest => app'[q] = app[q],
         pc' \notin {"starting", "done"}, ImageInv', promised' = 2
  PROVE  IInv'
<1>1. Selected(otadata) = running /\ running # Dest /\ running \in Partitions
  BY OtherPartition DEF IInv, FailedChangesNothing, TypeOK
<1>2. EntryInv'
  BY DEF IInv, EntryInv
<1>3. ~(Rollback /\ Unconfirmed)
  BY DEF IInv, GoBackInv
<1>4. GoBackInv' /\ StartInv' /\ PromiseInv'
  BY <1>3 DEF GoBackInv, StartInv, PromiseInv, Unconfirmed, ActiveState
<1>5. SelectedIsWhole' /\ FailedChangesNothing'
  BY <1>1 DEF IInv, SelectedIsWhole, FailedChangesNothing
<1> QED BY <1>2, <1>4, <1>5 DEF IInv

LEMMA NextIInv == IInv /\ [Next]_vars => IInv'
<1> SUFFICES ASSUME IInv, [Next]_vars PROVE IInv'
  OBVIOUS
<1> USE DEF IInv
<1>0. otadata \in OtaData /\ Distinct(otadata) /\ Selected(otadata) \in Partitions
  BY SelectsAPartition DEF TypeOK, OtaData, EntryInv
<1>a. Active(otadata) # -1 =>
        ActiveState = otadata[Active(otadata)].state /\ Active(otadata) \in Slots
        /\ otadata[Active(otadata)] \in Entries /\ ActiveState # "Aborted"
  BY <1>0, ActiveIs DEF ActiveState, OtaData, Usable
<1>b. Unconfirmed => Active(otadata) # -1
  BY DEF Unconfirmed, ActiveState
<1>c. ASSUME NEW e \in Entries, ~Usable(e), Unconfirmed, Rollback, pc = "off", promised' = 2,
             otadata' = [otadata EXCEPT ![Active(otadata)] = e],
             UNCHANGED <<app, pc, running, card>>
      PROVE  IInv'
  <2>1. otadata' \in OtaData /\ Distinct(otadata') /\ Selected(otadata') = Fallback(otadata)
        /\ Active(otadata') \in Slots \cup {-1} /\ Active(otadata') # Active(otadata)
    BY <1>0, <1>b, <1>c, GivenUp
  <2>1a. \A i \in Slots : otadata'[i] = IF i = Active(otadata) THEN e ELSE otadata[i]
    BY <1>0, <1>c DEF OtaData
  <2>1b. Active(otadata') # -1 => Usable(otadata'[Active(otadata')])
    BY <2>1, ActiveIs
  <2>2. TypeOK' /\ ImageInv' /\ PromiseInv' /\ FailedChangesNothing' /\ StartInv'
    BY <2>1, <1>c DEF TypeOK, OtaData, ImageInv, PromiseInv, FailedChangesNothing, StartInv
  <2>3. \A i \in Slots : Usable(otadata'[i]) => otadata'[i].state = "Valid"
    BY <2>1a, <1>c DEF EntryInv
  <2>4. EntryInv'
    BY <2>1, <2>3 DEF EntryInv
  <2>4a. ActiveState' = "Valid"
    BY <2>1, <2>1b, <2>3 DEF ActiveState
  <2>5. SelectedIsWhole'
    BY <2>1, <1>c DEF GoBackInv, SelectedIsWhole
  <2> QED BY <2>2, <2>4, <2>4a, <2>5 DEF GoBackInv, Unconfirmed
<1>1. CASE FirstStart
  <2>1. CASE otadata' = StateOfActive("Pending") /\ running' = Selected(otadata)
             /\ pc' = "starting" /\ UNCHANGED <<promised, app, card>>
    <3>1. Active(otadata) # -1 /\ Unconfirmed
      BY <1>1, <1>b DEF FirstStart, Unconfirmed
    <3>2. otadata' \in OtaData /\ Distinct(otadata') /\ Active(otadata') = Active(otadata)
          /\ Selected(otadata') = Selected(otadata) /\ otadata'[Active(otadata)].state = "Pending"
          /\ Fallback(otadata') = Fallback(otadata)
      <4>1. "Pending" \in States \ {"Aborted"}
        BY DEF States
      <4>2. otadata' = [otadata EXCEPT ![Active(otadata)].state = "Pending"]
        BY <2>1 DEF StateOfActive
      <4> QED BY <1>0, <3>1, <4>1, <4>2, StateChanged
    <3>2a. \A i \in Slots : i # Active(otadata) => otadata'[i] = otadata[i]
      BY <1>0, <2>1 DEF OtaData, StateOfActive
    <3>3. ActiveState' = "Pending"
      BY <3>1, <3>2 DEF ActiveState
    <3>4. TypeOK' /\ EntryInv' /\ ImageInv'
      BY <1>0, <2>1, <3>2, <3>2a DEF TypeOK, OtaData, EntryInv, ImageInv
    <3>4a. GoBackInv'
      BY <2>1, <3>1, <3>2 DEF GoBackInv
    <3>5. StartInv' /\ PromiseInv'
      BY <2>1, <3>2, <3>3 DEF StartInv, PromiseInv
    <3>6. SelectedIsWhole' /\ FailedChangesNothing'
      BY <2>1, <3>2 DEF SelectedIsWhole, FailedChangesNothing
    <3> QED BY <3>4, <3>4a, <3>5, <3>6
  <2>2. CASE otadata' = EraseActive /\ promised' = 2 /\ UNCHANGED <<pc, running, app, card>>
    BY <1>1, <2>2, <1>c, BlankIsUnusable DEF FirstStart, EraseActive, Unconfirmed
  <2> QED BY <1>1, <2>1, <2>2 DEF FirstStart
<1>2. CASE RollBack
  <2>1. Unconfirmed /\ Active(otadata) # -1 /\ promised = 2
    BY <1>2, <1>b DEF RollBack, Unconfirmed, PromiseInv
  <2>2. CASE otadata' = EraseActive
    BY <1>2, <2>1, <2>2, <1>c, BlankIsUnusable DEF RollBack, EraseActive
  <2>3. CASE otadata' = StateOfActive("Aborted")
    <3> DEFINE e == [otadata[Active(otadata)] EXCEPT !.state = "Aborted"]
    <3>1. e \in Entries /\ ~Usable(e)
      BY <1>a, <2>1 DEF Entries, States, Usable
    <3>2. otadata' = [otadata EXCEPT ![Active(otadata)] = e]
      BY <2>3 DEF StateOfActive
    <3> HIDE DEF e
    <3> QED BY <1>2, <2>1, <3>1, <3>2, <1>c DEF RollBack
  <2> QED BY <1>2, <2>2, <2>3 DEF RollBack
<1>3. CASE Start
  <2>1. TypeOK' /\ EntryInv' /\ ImageInv'
    BY <1>0, <1>3 DEF Start, TypeOK, EntryInv, ImageInv
  <2>2. GoBackInv' /\ StartInv' /\ PromiseInv'
    BY <1>3 DEF Start, GoBackInv, StartInv, PromiseInv, Unconfirmed, ActiveState
  <2>3. SelectedIsWhole' /\ FailedChangesNothing'
    BY <1>3 DEF Start, SelectedIsWhole, FailedChangesNothing
  <2> QED BY <2>1, <2>2, <2>3
<1>4. CASE Confirm
  <2>1. otadata' \in OtaData
        /\ \A i \in Slots : otadata'[i] = IF otadata[i].state = "Pending"
             THEN [otadata[i] EXCEPT !.state = "Valid"] ELSE otadata[i]
    BY <1>0, <1>4 DEF Confirm, OtaData, Entries, States
  <2>2. \A i \in Slots : /\ Usable(otadata[i]) <=> Usable(otadata'[i])
                         /\ Usable(otadata[i]) => otadata[i].seq = otadata'[i].seq
    BY <1>0, <2>1 DEF Usable, Blank, OtaData, Entries
  <2>3. Distinct(otadata') /\ Active(otadata') = Active(otadata) /\ Selected(otadata') = Selected(otadata)
    BY <1>0, <2>1, <2>2, SameChoice
  <2>4. EntryInv'
    BY <2>1, <2>2, <2>3 DEF EntryInv
  <2>5. ~(Rollback /\ Unconfirmed)'
    BY <1>4, <1>0, <1>a, <2>1, <2>3 DEF Confirm, StartInv, Unconfirmed, ActiveState, OtaData, Entries
  <2>6. TypeOK' /\ ImageInv' /\ PromiseInv' /\ StartInv' /\ GoBackInv'
    BY <1>4, <2>1, <2>5 DEF Confirm, TypeOK, OtaData, ImageInv, PromiseInv, StartInv, GoBackInv
  <2>7. SelectedIsWhole' /\ FailedChangesNothing'
    BY <1>4, <2>3 DEF Confirm, SelectedIsWhole, FailedChangesNothing
  <2> QED BY <2>4, <2>6, <2>7
<1>5. CASE Pick \/ Swap \/ Cancel \/ Refuse \/ Flash
  <2>1. promised = 2
    BY <1>5 DEF PromiseInv, Pick, Swap, Cancel, Refuse, Flash
  <2>2. TypeOK' /\ (\A q \in Partitions : q # Dest => app'[q] = app[q])
    BY <1>5, OtherPartition DEF TypeOK, Pick, Swap, Cancel, Refuse, Flash, Images, Accepted
  <2>3. ImageInv'
    BY <1>5 DEF ImageInv, Pick, Swap, Cancel, Refuse, Flash, Revalidates, Validates
  <2> QED BY <1>5, <2>1, <2>2, <2>3, KeepsOtaData DEF Pick, Swap, Cancel, Refuse, Flash
<1>6. CASE WriteImage \/ Download \/ Received
  <2>1. promised = 2
    BY <1>6 DEF PromiseInv, WriteImage, Download, Received
  <2>2. TypeOK' /\ (\A q \in Partitions : q # Dest => app'[q] = app[q])
    BY <1>6, OtherPartition DEF TypeOK, WriteImage, Download, Received, Images, Accepted
  <2>3. ImageInv'
    BY <1>6, OtherPartition DEF ImageInv, WriteImage, Download, Received, TypeOK, Dest
  <2> QED BY <1>6, <2>1, <2>2, <2>3, KeepsOtaData DEF WriteImage, Download, Received
<1>7. CASE Switch
  <2>1. promised = 2
    BY <1>7 DEF PromiseInv, Switch
  <2>2. CASE UNCHANGED otadata /\ pc' = "idle"
    <3>1. TypeOK' /\ ImageInv'
      BY <1>7, <2>2 DEF Switch, TypeOK, ImageInv
    <3> QED BY <1>7, <2>1, <2>2, <3>1, KeepsOtaData DEF Switch
  <2>3. CASE otadata' = [otadata EXCEPT ![TargetSlot(otadata)] = Blank] /\ pc' = "entry"
    <3>1. otadata' \in OtaData /\ Distinct(otadata') /\ Active(otadata') = Active(otadata)
          /\ Selected(otadata') = Selected(otadata) /\ TargetSlot(otadata') = TargetSlot(otadata)
          /\ ~Usable(otadata'[TargetSlot(otadata)])
          /\ \A i \in Slots : i # TargetSlot(otadata) => otadata'[i] = otadata[i]
      BY <1>0, <2>3, ErasedKeepsChoice
    <3>2. EntryInv'
      BY <3>1 DEF EntryInv
    <3>3. ActiveState' = ActiveState
      BY <1>0, <1>a, <3>1, TargetIsFree DEF ActiveState
    <3>4. TypeOK' /\ ImageInv' /\ PromiseInv'
      BY <1>7, <2>1, <2>3, <3>1 DEF Switch, TypeOK, OtaData, ImageInv, PromiseInv, Dest
    <3>5. StartInv' /\ GoBackInv'
      BY <1>7, <2>3, <3>3 DEF Switch, StartInv, GoBackInv, Unconfirmed
    <3>6. SelectedIsWhole' /\ FailedChangesNothing'
      BY <1>7, <2>3, <3>1 DEF Switch, SelectedIsWhole, FailedChangesNothing
    <3> QED BY <3>2, <3>4, <3>5, <3>6
  <2> QED BY <1>7, <2>2, <2>3 DEF Switch
<1>8. CASE WriteEntry
  <2>1. promised = 2
    BY <1>8 DEF PromiseInv, WriteEntry
  <2>2. CASE UNCHANGED <<otadata, promised>> /\ pc' = "idle"
    <3>1. TypeOK' /\ ImageInv'
      BY <1>8, <2>2 DEF WriteEntry, TypeOK, ImageInv
    <3> QED BY <1>8, <2>1, <2>2, <3>1, KeepsOtaData DEF WriteEntry
  <2>3. CASE /\ otadata' = [otadata EXCEPT ![TargetSlot(otadata)] = NewEntry(NewSeq(ActiveSeq(otadata), Dest))]
             /\ pc' = "done" /\ promised' = Dest
    <3>1. Dest \in Partitions /\ ~Usable(otadata[TargetSlot(otadata)]) /\ app[Dest] \in Accepted
      BY <1>8, OtherPartition DEF WriteEntry, ImageInv
    <3>2. otadata' \in OtaData /\ Distinct(otadata') /\ Active(otadata') = TargetSlot(otadata)
          /\ Selected(otadata') = Dest
          /\ Fallback(otadata') = Selected(otadata)
      <4> DEFINE seq == NewSeq(ActiveSeq(otadata), Dest)
      <4>1. seq \in Nat /\ seq > ActiveSeq(otadata) /\ (seq - 1) % 2 = Dest
        BY <1>0, <3>1, ActiveSeqIsNat, NewSeqPicks
      <4>2. otadata' = [otadata EXCEPT ![TargetSlot(otadata)] = NewEntry(seq)]
        BY <2>3
      <4> HIDE DEF seq
      <4>3. otadata' \in OtaData /\ Distinct(otadata') /\ Active(otadata') = TargetSlot(otadata)
            /\ Selected(otadata') = (seq - 1) % 2 /\ Fallback(otadata') = Selected(otadata)
        BY <1>0, <3>1, <4>1, <4>2, WrittenIsActive
      <4> QED BY <4>1, <4>3
    <3>2a. \A i \in Slots : i # TargetSlot(otadata) => otadata'[i] = otadata[i]
      BY <1>0, <2>3 DEF OtaData
    <3>3. ActiveState' = "New"
      <4>1. otadata'[TargetSlot(otadata)].state = "New"
        BY <1>0, <2>3, TargetIsFree DEF OtaData, NewEntry
      <4> QED BY <1>0, <3>2, <4>1, TargetIsFree DEF ActiveState, Slots
    <3>4. EntryInv'
      <4>1. ASSUME Rollback, NEW i \in Slots, i # Active(otadata'), Usable(otadata'[i])
            PROVE  otadata'[i].state = "Valid"
        <5>1. i = Active(otadata) /\ otadata'[i] = otadata[i]
          BY <4>1, <1>0, <3>1, <3>2, <3>2a, TargetIsFree
        <5>2. ~Unconfirmed
          BY <4>1, <1>8 DEF GoBackInv, WriteEntry
        <5> QED BY <5>1, <5>2, <1>a, <4>1 DEF Unconfirmed, Entries, States, Slots
      <4> QED BY <3>2, <4>1 DEF EntryInv
    <3>5. TypeOK' /\ ImageInv' /\ StartInv' /\ FailedChangesNothing'
      BY <1>8, <2>3, <3>1, <3>2 DEF WriteEntry, TypeOK, OtaData, ImageInv, StartInv, FailedChangesNothing
    <3>6. GoBackInv' /\ PromiseInv' /\ SelectedIsWhole'
      BY <1>8, <2>3, <3>1, <3>2, <3>3
      DEF WriteEntry, GoBackInv, PromiseInv, SelectedIsWhole
    <3> QED BY <3>4, <3>5, <3>6
  <2> QED BY <1>8, <2>2, <2>3 DEF WriteEntry
<1>9. CASE Restart
  <2>1. TypeOK' /\ EntryInv' /\ ImageInv'
    BY <1>9 DEF Restart, TypeOK, EntryInv, ImageInv
  <2>2. GoBackInv' /\ StartInv' /\ PromiseInv'
    BY <1>9 DEF Restart, GoBackInv, StartInv, PromiseInv, Unconfirmed, ActiveState
  <2>3. SelectedIsWhole' /\ FailedChangesNothing'
    BY <1>9 DEF Restart, SelectedIsWhole, FailedChangesNothing
  <2> QED BY <2>1, <2>2, <2>3
<1>10. CASE PowerFails
  <2>1. CASE pc \in {"starting", "done"}
    <3>1. TypeOK' /\ EntryInv' /\ ImageInv'
      BY <1>10, <2>1 DEF PowerFails, TypeOK, EntryInv, ImageInv
    <3>2. GoBackInv' /\ StartInv' /\ PromiseInv'
      BY <1>10, <2>1 DEF PowerFails, GoBackInv, StartInv, PromiseInv, Unconfirmed, ActiveState
    <3>3. SelectedIsWhole' /\ FailedChangesNothing'
      BY <1>10, <2>1 DEF PowerFails, SelectedIsWhole, FailedChangesNothing
    <3> QED BY <3>1, <3>2, <3>3
  <2>2. CASE pc \notin {"starting", "done"}
    <3>1. promised' = 2
      BY <1>10, <2>2 DEF PowerFails
    <3>2. TypeOK' /\ (\A q \in Partitions : q # Dest => app'[q] = app[q])
      BY <1>10, <2>2, OtherPartition DEF PowerFails, TypeOK, Images, Accepted
    <3>3. ImageInv'
      BY <1>10 DEF PowerFails, ImageInv
    <3> QED BY <1>10, <2>2, <3>1, <3>2, <3>3, KeepsOtaData DEF PowerFails
  <2> QED BY <2>1, <2>2
<1>11. CASE UNCHANGED vars
  <2>1. TypeOK' /\ EntryInv' /\ ImageInv'
    BY <1>11 DEF vars, TypeOK, EntryInv, ImageInv, Dest
  <2>2. GoBackInv' /\ StartInv' /\ PromiseInv'
    BY <1>11 DEF vars, GoBackInv, StartInv, PromiseInv, Unconfirmed, ActiveState
  <2>3. SelectedIsWhole' /\ FailedChangesNothing'
    BY <1>11 DEF vars, SelectedIsWhole, FailedChangesNothing
  <2> QED BY <2>1, <2>2, <2>3
<1> QED
  BY <1>1, <1>2, <1>3, <1>4, <1>5, <1>6, <1>7, <1>8, <1>9, <1>10, <1>11 DEF Next

-----------------------------------------------------------------------------
\* The inductive invariant holds in every behaviour of FirmwareFlasher,
\* OtaUpdater and OtaBootSwitch, with power failures at any step.
THEOREM Inductive == Spec => []IInv
BY InitIInv, NextIInv, PTL DEF Spec

\* The state has the types of SelectEntry (OtaBootSwitch.h:19) and of the two
\* partitions of partitions.csv.
THEOREM TypeCorrect == Spec => []TypeOK
<1>1. IInv => TypeOK
  BY DEF IInv
<1> QED BY <1>1, Inductive, PTL

\* Whenever the power fails, also within an update (FirmwareFlasher.cpp:275,
\* OtaUpdater.cpp:136), the partition that boots next has a complete image that
\* is not tagged for another board.
THEOREM AlwaysBootable == Spec => []SelectedIsWhole
<1>1. IInv => SelectedIsWhole
  BY DEF IInv
<1> QED BY <1>1, Inductive, PTL

\* The next start runs the image of the update that succeeded
\* (OtaBootSwitch.cpp:57-66).
THEOREM UpdatesBoot == Spec => []SuccessBootsNew
<1>1. IInv => SuccessBootsNew
  BY DEF IInv, SuccessBootsNew, PromiseInv, FailedChangesNothing
<1> QED BY <1>1, Inductive, PTL

\* An update that fails leaves the boot selection on what runs
\* (OtaBootSwitch.cpp:68-79).
THEOREM FailuresAreHarmless == Spec => []FailedChangesNothing
<1>1. IInv => FailedChangesNothing
  BY DEF IInv
<1> QED BY <1>1, Inductive, PTL
=============================================================================
