--------------------------- MODULE BookCacheProofs ---------------------------
(***************************************************************************)
(* Proofs about BookCache, for any book and any sets of rules: the rules   *)
(* of a book survive their replacement, its chapters go with them, and a   *)
(* book.bin that loads is whole.  Inherited is recursive; what it computes *)
(* is shown for every table of contents by a solution of its equation and  *)
(* a least counterexample.                                                 *)
(***************************************************************************)
EXTENDS BookCache, TLAPS, WellFoundedInduction

\* What css_rules.cache and its backup may hold.
Rules == {"none", "old", "all"} \cup PartRules

\* Between new rules and the removal of the chapters of the old ones.
Replacing == pc \in {"dropBackup", "parsed", "remove"}

-----------------------------------------------------------------------------
(* The inductive invariant.                                                *)

\* Rules of an older version were never written beside a backup.
RulesInv ==
  /\ rules \in Rules /\ backup \in Rules
  /\ rules = "old" => backup = "none"
  /\ pc = "delete" => rules = "old"
  /\ pc = "promote" => rules = "none"
  /\ pc = "dropBackup" => Usable(rules)

\* What is saved is known to be new.
ResultInv ==
  pc \in {"backup", "promote", "dropBackup"} =>
    result = "Complete" \/ (result = "Partial" /\ status # "Partial")

\* The chapters go with the rules on the card and with the backup that would
\* take their place; until they are removed, where it is known that they must be.
ChaptersInv ==
  ~behind =>
    /\ ~Replacing => ~Apart
    /\ pc = "parsed" /\ Apart => CacheChanged
    /\ rules = "none" => ~Differ(sections, backup)

IInv == RulesInv /\ ResultInv /\ ChaptersInv

-----------------------------------------------------------------------------
LEMMA NotUsable == ~Usable("none") /\ ~Usable("old") /\ Usable("all")
                   /\ \A r \in PartRules : Usable(r) /\ r \in Rules
BY BookAssumption DEF Usable, Rules

LEMMA OldIsInvalid ==
  ASSUME NEW r \in Rules, Status(r) = "Invalid"
  PROVE  r = "old"
BY BookAssumption DEF Status, Rules

LEMMA InitIInv == Init => IInv
BY NotUsable DEF Init, IInv, RulesInv, ResultInv, ChaptersInv, Rules, Apart, Differ

\* Steps that leave the rules and the chapters alone.
LEMMA CardKept ==
  ASSUME IInv, UNCHANGED <<rules, backup, sections, behind>>,
         ~Replacing, ~Replacing',
         pc' \notin {"delete", "promote"}, pc' = "backup" => ResultInv'
  PROVE  IInv'
<1>1. RulesInv'
  BY DEF IInv, RulesInv, Replacing
<1>2. ResultInv'
  BY DEF ResultInv, Replacing
<1>3. ChaptersInv'
  BY DEF IInv, ChaptersInv, Apart, Replacing
<1> QED BY <1>1, <1>2, <1>3 DEF IInv

LEMMA NextIInv == IInv /\ [Next]_vars => IInv'
<1> SUFFICES ASSUME IInv, [Next]_vars PROVE IInv'
  OBVIOUS
<1> USE DEF IInv
<1>1. CASE Open \/ OpfPass \/ TocPass \/ BeginBin \/ FillBin \/ CleanTmp \/ Reload \/ Close
  <2>1. UNCHANGED <<rules, backup, sections, behind>> /\ ~Replacing
    BY <1>1 DEF Open, OpfPass, TocPass, BeginBin, FillBin, CleanTmp, Reload, Close, card, Replacing
  <2>2. pc' \in {"open", "closed", "inspect", "opf", "toc", "bin", "fill", "clean", "reload"}
    BY <1>1 DEF Open, OpfPass, TocPass, BeginBin, FillBin, CleanTmp, Reload, Close, Enter, Leave, Go
  <2> QED BY <2>1, <2>2, CardKept DEF Replacing
<1>2. CASE Inspect
  <2>1. UNCHANGED <<sections, behind>> /\ pc' \in {"open", "delete", "parse"}
    BY <1>2 DEF Inspect, Enter
  <2>2. \/ UNCHANGED <<rules, backup>>
        \/ rules = "none" /\ rules' = backup /\ backup' = "none"
    BY <1>2 DEF Inspect, Restored
  <2>3. RulesInv'
    <3>1. rules' \in Rules /\ backup' \in Rules /\ (rules' = "old" => backup' = "none")
      BY <2>2 DEF RulesInv, Rules
    <3>2. pc' = "delete" => rules' = "old"
      BY <1>2, <3>1, OldIsInvalid DEF Inspect, Enter
    <3> QED BY <2>1, <3>1, <3>2 DEF RulesInv
  <2>4. ChaptersInv'
    BY <1>2, <2>1, <2>2, NotUsable DEF Inspect, ChaptersInv, Apart, Differ, Replacing
  <2> QED BY <2>1, <2>3, <2>4 DEF ResultInv
<1>3. CASE DeleteCache
  <2>1. pc' = "parse" /\ rules' = "none" /\ backup' = "none" /\ UNCHANGED <<sections, behind>>
    BY <1>3 DEF DeleteCache, Go
  <2> QED BY <2>1, NotUsable DEF RulesInv, ResultInv, ChaptersInv, Rules, Apart, Differ
<1>4. CASE Parse
  <2>1. UNCHANGED <<rules, backup, sections, behind, status, building>> /\ pc = "parse"
        /\ pc' \in {"backup", "parsed"}
    BY <1>4 DEF Parse, card
  <2>2. RulesInv'
    BY <2>1 DEF RulesInv
  <2>3. ResultInv'
    BY <1>4, <2>1 DEF Parse, KeepsPart, ResultInv
  <2>4. ChaptersInv'
    BY <2>1 DEF ChaptersInv, Apart, Replacing
  <2> QED BY <2>2, <2>3, <2>4
<1>5. CASE BackupRules
  <2>1. UNCHANGED <<sections, status, behind>> /\ pc = "backup"
    BY <1>5 DEF BackupRules
  <2>2. CASE rules = "none" /\ pc' = "promote" /\ UNCHANGED <<rules, backup, result>>
    BY <2>1, <2>2 DEF RulesInv, ResultInv, ChaptersInv, Apart, Replacing
  <2>3. CASE rules # "none" /\ Backup /\ pc' = "promote" /\ UNCHANGED result
    BY <2>1, <2>3, NotUsable DEF Backup, RulesInv, ResultInv, ChaptersInv, Apart, Differ, Replacing, Rules
  <2>4. CASE backup' \in {backup, IF rules # "none" THEN "none" ELSE backup} /\ NotSaved /\ UNCHANGED rules
    BY <2>1, <2>4, NotUsable DEF NotSaved, RulesInv, ResultInv, ChaptersInv, Apart, Differ, Replacing, Rules
  <2> QED BY <1>5, <2>2, <2>3, <2>4 DEF BackupRules
<1>6. CASE PromoteRules
  <2>1. UNCHANGED <<sections, status, behind>> /\ pc = "promote" /\ rules = "none"
    BY <1>6 DEF PromoteRules, RulesInv
  <2>2. CASE /\ rules' \in IF result = "Complete" THEN {"all"} ELSE PartRules
             /\ pc' = "dropBackup" /\ UNCHANGED <<backup, result>>
    <3>1. Usable(rules') /\ rules' \in Rules
      BY <2>2, NotUsable DEF Rules
    <3>2. RulesInv' /\ ResultInv'
      BY <2>1, <2>2, <3>1, NotUsable DEF RulesInv, ResultInv
    <3>3. ChaptersInv'
      BY <2>1, <2>2, <3>1, NotUsable DEF ChaptersInv, Replacing
    <3> QED BY <3>2, <3>3
  <2>3. CASE rules' = backup /\ backup' = "none" /\ NotSaved
    BY <2>1, <2>3, NotUsable DEF NotSaved, RulesInv, ResultInv, ChaptersInv, Apart, Differ, Replacing, Rules
  <2>4. CASE UNCHANGED <<rules, backup>> /\ NotSaved
    BY <2>1, <2>4, NotUsable DEF NotSaved, RulesInv, ResultInv, ChaptersInv, Apart, Differ, Replacing
  <2> QED BY <1>6, <2>2, <2>3, <2>4 DEF PromoteRules
<1>7. CASE DropBackup
  <2>1. pc = "dropBackup" /\ pc' = "parsed" /\ backup' \in {"none", backup}
        /\ UNCHANGED <<rules, sections, behind, building, status, result>>
    BY <1>7 DEF DropBackup, Go, work
  <2>2. CacheChanged'
    BY <2>1 DEF ResultInv, CacheChanged
  <2>3. Usable(rules) /\ rules # "none"
    BY <2>1, NotUsable DEF RulesInv
  <2> QED BY <2>1, <2>2, <2>3, NotUsable DEF RulesInv, ResultInv, ChaptersInv, Replacing, Rules
<1>8. CASE Parsed
  <2>1. UNCHANGED <<rules, backup, sections>> /\ pc = "parsed" /\ pc' \in {"remove", "reload", "open", "closed"}
    BY <1>8 DEF Parsed, card, Go, Enter, Leave
  <2>2. RulesInv' /\ ResultInv'
    BY <2>1 DEF RulesInv, ResultInv
  <2>3. behind' = behind \/ behind' = (behind \/ Apart)
    BY <1>8 DEF Parsed
  <2>4. ~behind' /\ pc' # "remove" => ~Apart
    BY <1>8, <2>1 DEF Parsed, Go, Enter, Leave, ChaptersInv
  <2>5. ~behind' => ~behind
    BY <2>3
  <2>6. ChaptersInv'
    BY <2>1, <2>4, <2>5 DEF ChaptersInv, Apart, Replacing
  <2> QED BY <2>2, <2>6
<1>9. CASE RemoveSections
  <2>1. UNCHANGED <<rules, backup>> /\ pc = "remove" /\ pc' \in {"reload", "open"} /\ sections' \subseteq sections
    BY <1>9 DEF RemoveSections, Go, Enter
  <2>2. behind' = ((behind /\ sections' # {}) \/ Differ(sections', rules))
    BY <1>9 DEF RemoveSections
  <2>3. RulesInv' /\ ResultInv'
    BY <2>1 DEF RulesInv, ResultInv
  <2>4. ChaptersInv'
    BY <2>1, <2>2 DEF ChaptersInv, Apart, Differ, Replacing
  <2> QED BY <2>3, <2>4
<1>10. CASE LayOut
  <2> PICK r \in Restored :
        /\ rules' = (IF Usable(r.rules) THEN r.rules ELSE "none")
        /\ backup' = r.backup
        /\ behind' = (behind \/ (~Usable(rules') /\ Usable(backup')))
    BY <1>10 DEF LayOut
  <2>1. pc = "open" /\ pc' = "open" /\ sections' = sections \cup {rules'}
    BY <1>10 DEF LayOut
  <2>2. \/ r.rules = rules /\ r.backup = backup
        \/ rules = "none" /\ r.rules = backup /\ r.backup = "none"
    BY DEF Restored
  <2>3. RulesInv' /\ ResultInv'
    BY <2>1, <2>2, NotUsable DEF RulesInv, ResultInv, Rules
  <2>4. CASE Usable(r.rules)
    <3>1. ~behind => sections \subseteq {r.rules}
      BY <2>1, <2>2, <2>4 DEF ChaptersInv, Apart, Differ, Replacing
    <3>2. ~behind' => sections' \subseteq {rules'}
      BY <2>1, <2>4, <3>1
    <3> QED BY <2>1, <2>3, <2>4, <3>2, NotUsable DEF ChaptersInv, Apart, Differ, Replacing
  <2>5. CASE ~Usable(r.rules)
    BY <2>1, <2>3, <2>5, NotUsable DEF ChaptersInv, Apart, Differ, Replacing
  <2> QED BY <2>4, <2>5
<1>11. CASE ClearBook
  BY <1>11, NotUsable DEF ClearBook, Leave, RulesInv, ResultInv, ChaptersInv, Rules, Apart, Differ, Replacing
<1>12. CASE Crash
  <2>1. pc' = "closed" /\ UNCHANGED backup
    BY <1>12 DEF Crash, Leave
  <2>2. rules' = rules \/ (pc = "delete" /\ rules' = "none")
    BY <1>12 DEF Crash
  <2>3. sections' \subseteq sections /\ (sections' = sections \/ pc = "remove")
    BY <1>12 DEF Crash
  <2>4. behind' = (behind \/ (Replacing /\ Apart'))
    BY <1>12 DEF Crash, Replacing
  <2>5. RulesInv' /\ ResultInv'
    BY <2>1, <2>2 DEF RulesInv, ResultInv, Rules
  <2>6. ~behind' => ~Apart'
    BY <2>2, <2>3, <2>4, NotUsable DEF ChaptersInv, Apart, Differ, Replacing
  <2>7. ~behind' /\ rules' = "none" => ~Differ(sections', backup')
    BY <2>1, <2>2, <2>3, <2>4, NotUsable DEF RulesInv, ChaptersInv, Differ
  <2> QED BY <2>1, <2>5, <2>6, <2>7 DEF ChaptersInv
<1>13. CASE UNCHANGED vars
  BY <1>13 DEF vars, card, work, RulesInv, ResultInv, ChaptersInv, Apart, Replacing, CacheChanged
<1> QED
  BY <1>1, <1>2, <1>3, <1>4, <1>5, <1>6, <1>7, <1>8, <1>9, <1>10, <1>11, <1>12, <1>13 DEF Next

-----------------------------------------------------------------------------
\* The inductive invariant holds through every opening, build, replacement of
\* the rules and power failure (Epub.cpp:404-579, CssParser.cpp:926-1079).
THEOREM Inductive == Spec => []IInv
BY InitIInv, NextIInv, PTL DEF Spec

\* In an open book, the chapters were laid out with the rules on the card
\* (Epub.cpp:454-466), unless a fault kept them.
THEOREM ChaptersUseTheRules == Spec => []SectionsUseTheRules
<1>1. IInv => SectionsUseTheRules
  BY DEF IInv, ChaptersInv, SectionsUseTheRules, Replacing
<1> QED BY <1>1, Inductive, PTL

\* No step outside an open book takes away rules the reader can use
\* (CssParser.cpp:1060-1079): a failed or interrupted replacement leaves the
\* old ones where restoreCacheBackupIfNeeded() finds them.
THEOREM RulesAreKept == Spec => RulesSurvive
<1>1. IInv /\ [Next]_vars => [Kept /\ pc # "open" => Kept']_vars
  <2> SUFFICES ASSUME IInv, Next, Kept, pc # "open" PROVE Kept'
    BY DEF vars, card, Kept
  <2> USE DEF IInv
  <2>1. CASE Open \/ OpfPass \/ TocPass \/ BeginBin \/ FillBin \/ CleanTmp \/ Reload \/ Parse
              \/ Parsed \/ RemoveSections
    BY <2>1 DEF Open, OpfPass, TocPass, BeginBin, FillBin, CleanTmp, Reload, Parse, Parsed,
       RemoveSections, card, Kept
  <2>2. CASE Inspect
    BY <2>2, NotUsable DEF Inspect, Restored, Kept
  <2>3. CASE DeleteCache
    BY <2>3, NotUsable DEF DeleteCache, RulesInv, Kept
  <2>4. CASE BackupRules
    BY <2>4 DEF BackupRules, Backup, NotSaved, Kept
  <2>5. CASE PromoteRules
    BY <2>5, NotUsable DEF PromoteRules, NotSaved, RulesInv, Kept
  <2>6. CASE DropBackup
    BY <2>6 DEF DropBackup, RulesInv, Kept
  <2>7. CASE Crash
    BY <2>7, NotUsable DEF Crash, RulesInv, Kept
  <2>8. CASE LayOut \/ Close \/ ClearBook
    BY <2>8 DEF LayOut, Close, ClearBook
  <2> QED BY <2>1, <2>2, <2>3, <2>4, <2>5, <2>6, <2>7, <2>8 DEF Next
<1> QED BY <1>1, Inductive, PTL DEF Spec, RulesSurvive

-----------------------------------------------------------------------------
(* The spine's entries of the table of contents.                           *)

LEMMA LeastNatural ==
  ASSUME NEW T, T \subseteq Nat, T # {}
  PROVE  \E x \in T : \A y \in T : x <= y
PROOF
<1>. DEFINE R == OpToRel(<, Nat)
<1>1. \A x, y \in Nat : <<x, y>> \in R <=> x < y
  BY DEF OpToRel
<1>2. IsWellFoundedOn(R, Nat)
  BY NatLessThanWellFounded
<1>. HIDE DEF R
<1>3. \E x \in T : \A y \in T : ~ (<<y, x>> \in R)
  BY <1>2, WFMin, Zenon
<1>4. PICK x \in T : \A y \in T : ~ (<<y, x>> \in R)
  BY <1>3
<1>5. ASSUME NEW y \in T PROVE x <= y
  <2>1. x \in Nat /\ y \in Nat /\ ~ (<<y, x>> \in R)
    BY <1>4
  <2>2. ~ (y < x)
    BY <1>1, <2>1, Zenon
  <2>. QED BY <2>1, <2>2
<1>. QED BY <1>5

Tocs == Seq((0..Spine-1) \cup {-1})

\* Entry j is the first of toc to name item i.
FirstNaming(j, i, toc) ==
  j + 1 \in DOMAIN toc /\ toc[j + 1] = i /\ \A n \in 1..j : toc[n] # i

LEMMA MappedItem ==
  ASSUME NEW toc \in Tocs, NEW i \in Items
  PROVE  /\ Mapped(toc)[i] \in Int
         /\ Mapped(toc)[i] = -1 => \A n \in DOMAIN toc : toc[n] # i
         /\ Mapped(toc)[i] # -1 => /\ Mapped(toc)[i] \in Nat
                                   /\ FirstNaming(Mapped(toc)[i], i, toc)
PROOF
<1>. DEFINE naming == {j \in DOMAIN toc : toc[j] = i}
<1>1. DOMAIN toc = 1..Len(toc) /\ Len(toc) \in Nat
  BY DEF Tocs
<1>2. Mapped(toc)[i] = IF naming = {} THEN -1
                       ELSE (CHOOSE j \in naming : \A k \in naming : j <= k) - 1
  BY DEF Mapped
<1>3. CASE naming = {}
  BY <1>2, <1>3
<1>4. CASE naming # {}
  <2>1. naming \subseteq Nat
    BY <1>1
  <2>2. \E j \in naming : \A k \in naming : j <= k
    <3>. HIDE DEF naming
    <3>. QED BY <1>4, <2>1, LeastNatural, Zenon
  <2>3. PICK first : first = CHOOSE j \in naming : \A k \in naming : j <= k
    OBVIOUS
  <2>4. first \in naming /\ \A k \in naming : first <= k
    <3>. HIDE DEF naming
    <3>. QED BY <2>2, <2>3
  <2>5. first \in 1..Len(toc) /\ toc[first] = i
    BY <1>1, <2>4
  <2>6. \A n \in 1..(first - 1) : toc[n] # i
    <3>1. SUFFICES ASSUME NEW n \in 1..(first - 1), toc[n] = i PROVE FALSE
      OBVIOUS
    <3>2. n \in naming
      BY <1>1, <2>5, <3>1
    <3>. QED BY <2>4, <2>5, <3>2
  <2>7. Mapped(toc)[i] = first - 1
    BY <1>2, <1>4, <2>3
  <2>. QED BY <1>1, <2>5, <2>6, <2>7 DEF FirstNaming
<1>. QED BY <1>3, <1>4

\* The recursive definition of Inherited has a solution: an item takes the entry of
\* the last item up to it that has one.
LEMMA InheritedItem ==
  ASSUME NEW toc \in Tocs, NEW i \in Items
  PROVE  Inherited(toc)[i] = IF Mapped(toc)[i] # -1 THEN Mapped(toc)[i]
                             ELSE IF i = 0 THEN -1 ELSE Inherited(toc)[i - 1]
PROOF
<1>. DEFINE m == Mapped(toc)
            own(k) == {h \in 0..k : m[h] # -1}
            last(k) == CHOOSE h \in own(k) : \A l \in own(k) : l <= h
            g == [k \in Items |-> IF own(k) = {} THEN -1 ELSE m[last(k)]]
<1>1. ASSUME NEW k \in Items
      PROVE  g[k] = IF m[k] # -1 THEN m[k] ELSE IF k = 0 THEN -1 ELSE g[k - 1]
  <2>1. k \in Nat /\ Spine \in Nat
    BY BookAssumption DEF Items
  <2>2. CASE m[k] # -1
    <3>1. k \in own(k) /\ \A l \in own(k) : l <= k /\ l \in Nat
      BY <2>1, <2>2
    <3>2. last(k) = k
      <4>1. \A h \in own(k) : (\A l \in own(k) : l <= h) => h = k
        BY <2>1, <3>1
      <4>. HIDE DEF own
      <4>. QED BY <3>1, <4>1
    <3>. HIDE DEF own, last
    <3>. QED BY <2>2, <3>1, <3>2
  <2>3. CASE m[k] = -1 /\ k = 0
    <3>1. own(k) = {}
      BY <2>3
    <3>. QED BY <2>3, <3>1
  <2>4. CASE m[k] = -1 /\ k # 0
    <3>1. k - 1 \in Items /\ own(k) = own(k - 1)
      BY <2>1, <2>4 DEF Items
    <3>. HIDE DEF own
    <3>. QED BY <2>4, <3>1
  <2>. QED BY <2>2, <2>3, <2>4
<1>2. g = [k \in Items |-> IF m[k] # -1 THEN m[k] ELSE IF k = 0 THEN -1 ELSE g[k - 1]]
  <2>1. g = [k \in Items |-> g[k]]
    OBVIOUS
  <2>. HIDE DEF g
  <2>. QED BY <1>1, <2>1
<1>3. Inherited(toc) = CHOOSE f : f = [k \in Items |->
                         IF m[k] # -1 THEN m[k] ELSE IF k = 0 THEN -1 ELSE f[k - 1]]
  BY DEF Inherited
<1>4. Inherited(toc) = [k \in Items |-> IF m[k] # -1 THEN m[k]
                          ELSE IF k = 0 THEN -1 ELSE Inherited(toc)[k - 1]]
  <2>. HIDE DEF g, m
  <2>. QED BY <1>2, <1>3
<1>. QED BY <1>4

\* Every item has its entry of the table of contents.
LEMMA InheritedStandsFor ==
  ASSUME NEW toc \in Tocs, NEW i \in Items
  PROVE  StandsFor(Inherited(toc)[i], i, toc)
PROOF
<1>. DEFINE bad == {k \in Items : ~StandsFor(Inherited(toc)[k], k, toc)}
            named(k) == {h \in 0..k : \E n \in DOMAIN toc : toc[n] = h}
<1>1. SUFFICES ASSUME bad # {} PROVE FALSE
  OBVIOUS
<1>2. bad \subseteq Nat
  BY BookAssumption DEF Items
<1>3. PICK k \in bad : \A h \in bad : k <= h
  <2>. HIDE DEF bad
  <2>. QED BY <1>1, <1>2, LeastNatural
<1>4. k \in Items /\ k \in Nat /\ ~StandsFor(Inherited(toc)[k], k, toc)
  BY <1>2, <1>3
<1>5. k # 0 => k - 1 \in Items /\ StandsFor(Inherited(toc)[k - 1], k - 1, toc)
  <2>1. SUFFICES ASSUME k # 0 PROVE k - 1 \in Items /\ k - 1 \notin bad
    OBVIOUS
  <2>2. k - 1 \in Items
    BY <1>4, <2>1, BookAssumption DEF Items
  <2>3. k - 1 \notin bad
    <3>1. SUFFICES ASSUME k - 1 \in bad PROVE FALSE
      OBVIOUS
    <3>2. k <= k - 1
      <4>. HIDE DEF bad
      <4>. QED BY <1>3, <3>1
    <3>. QED BY <1>4, <3>2
  <2>. QED BY <2>2, <2>3
<1>6. CASE Mapped(toc)[k] # -1
  <2>1. /\ Inherited(toc)[k] = Mapped(toc)[k] /\ Mapped(toc)[k] \in Nat
        /\ FirstNaming(Mapped(toc)[k], k, toc)
    BY <1>4, <1>6, InheritedItem, MappedItem
  <2>2. k \in named(k) /\ \A h \in named(k) : h <= k
    BY <1>4, <2>1 DEF FirstNaming
  <2>. QED BY <1>4, <2>1, <2>2 DEF FirstNaming, StandsFor
<1>7. CASE Mapped(toc)[k] = -1
  <2>1. \A n \in DOMAIN toc : toc[n] # k
    BY <1>4, <1>7, MappedItem
  <2>2. CASE k = 0
    <3>1. named(k) = {} /\ Inherited(toc)[k] = -1
      BY <1>4, <1>7, <2>1, <2>2, InheritedItem
    <3>. QED BY <1>4, <3>1 DEF StandsFor
  <2>3. CASE k # 0
    <3>1. named(k) = named(k - 1)
      BY <1>4, <2>1, <2>3
    <3>2. Inherited(toc)[k] = Inherited(toc)[k - 1]
      BY <1>4, <1>7, <2>3, InheritedItem
    <3>. QED BY <1>4, <1>5, <2>3, <3>1, <3>2 DEF StandsFor
  <2>. QED BY <2>2, <2>3
<1>. QED BY <1>4, <1>6, <1>7, MappedItem
-----------------------------------------------------------------------------
(* What is in book.bin.                                                    *)

\* What LoadedIsWhole says of a file that was loaded.
Good(file) ==
  file.kind = "whole" /\ \A i \in Items : StandsFor(file.index[i], i, file.toc)

\* The steps that build book.bin: nothing is loaded meanwhile, and the files of the
\* passes are there.
BuildInv ==
  /\ pc \in {"closed", "opf", "toc", "bin", "fill", "clean"} => loaded = NoFile
  /\ pc \in {"toc", "bin", "fill"} => tmp \in {"whole", "short"}
  /\ pc \in {"bin", "fill"} => entries \in Tocs
  /\ pc = "fill" => cut

BinInv ==
  ~cut =>
    /\ bin \in {NoFile, Outdated} \/ Good(bin)
    /\ loaded = NoFile \/ Good(loaded)
    /\ pc = "remove" /\ ~building => Good(bin)

WholeInv == book \in Docs /\ BuildInv /\ BinInv

LEMMA WholeIsGood ==
  ASSUME NEW toc \in Tocs
  PROVE  Good(Whole(toc))
BY InheritedStandsFor DEF Good, Whole, File

LEMMA EntriesAreTocs ==
  ASSUME book \in Docs, NEW toc \in TocEntries
  PROVE  toc \in Tocs
PROOF
<1>1. book.nav \in Tocs /\ book.ncx \in Tocs
  BY BookAssumption DEF Tocs
<1>2. ASSUME NEW t \in Tocs, NEW part \in Prefixes(t) PROVE part \in Tocs
  <2>1. PICK n \in 0..Len(t) : part = SubSeq(t, 1, n)
    BY DEF Prefixes
  <2>. QED BY <2>1 DEF Tocs
<1>3. CASE toc = book.nav
  BY <1>1, <1>3
<1>4. CASE \E part \in Prefixes(book.nav), rest \in Prefixes(book.ncx) : toc = part \o rest
  BY <1>1, <1>2, <1>4 DEF Tocs
<1>. QED BY <1>3, <1>4 DEF TocEntries

\* A file that can be loaded and was not cut is whole.
LEMMA LoadsGood ==
  ASSUME WholeInv, ~cut, TRUE \in Loads(bin)
  PROVE  Good(bin)
PROOF
<1>1. ASSUME bin \in {NoFile, Outdated} PROVE FALSE
  <2>1. bin.kind \in {"none", "old"}
    BY <1>1 DEF NoFile, Outdated, File
  <2>2. Loads(bin) = {FALSE}
    BY <2>1 DEF Loads
  <2>. QED BY <2>2
<1>. QED BY <1>1 DEF WholeInv, BinInv

LEMMA InitWholeInv == Init => WholeInv
BY DEF Init, WholeInv, BuildInv, BinInv

LEMMA NextWholeInv ==
  ASSUME WholeInv, [Next]_vars
  PROVE  WholeInv'
PROOF
<1>. USE DEF WholeInv
<1>1. book' = book /\ book \in Docs
  BY DEF Next, Open, OpfPass, TocPass, BeginBin, FillBin, CleanTmp, Inspect, DeleteCache,
         Parse, BackupRules, PromoteRules, DropBackup, Parsed, RemoveSections, Reload,
         LayOut, Close, ClearBook, Crash, vars
\* load() gives up or the book is closed, and book.bin is as good as it was.
<1>2. ASSUME Leave, ~cut' => bin' \in {NoFile, Outdated} \/ Good(bin') PROVE WholeInv'
  BY <1>1, <1>2 DEF Leave, BuildInv, BinInv, Good
<1>3. ~cut => bin \in {NoFile, Outdated} \/ Good(bin)
  BY DEF BinInv
\* Steps that leave book.bin and what was loaded of it, once it is built.
<1>4. ASSUME UNCHANGED <<bin, cut, loaded>>,
             pc' \notin {"closed", "opf", "toc", "bin", "fill", "clean", "remove"}
      PROVE  WholeInv'
  BY <1>1, <1>4 DEF BuildInv, BinInv, Good
\* ... and steps that load it.
<1>5. ASSUME Enter(bin), UNCHANGED <<bin, cut>>, ~cut => Good(bin) PROVE WholeInv'
  BY <1>1, <1>5 DEF Enter, BuildInv, BinInv, Good
<1>6. CASE Open
  <2>1. UNCHANGED <<bin, cut>> /\ pc = "closed"
    BY <1>6 DEF Open, card
  <2>2. PICK build \in BOOLEAN, skip \in BOOLEAN, ok \in Loads(bin) :
          /\ build \/ skip
          /\ CASE ok /\ skip    -> Enter(bin)
               [] ok /\ ~skip   -> pc' = "inspect" /\ loaded' = bin /\ UNCHANGED work
               [] ~ok /\ build  -> /\ pc' = "opf" /\ building' = TRUE /\ plain' = skip
                                   /\ UNCHANGED <<loaded, entries, status, result>>
               [] ~ok /\ ~build -> Leave
    BY <1>6 DEF Open
  <2>3. ok \in BOOLEAN
    BY <2>2 DEF Loads
  <2>4. CASE ok
    <3>1. loaded' = bin /\ pc' \in {"open", "inspect"}
      BY <2>2, <2>3, <2>4 DEF Enter
    <3>2. ~cut => Good(bin)
      BY <2>2, <2>3, <2>4, LoadsGood
    <3>. QED BY <1>1, <2>1, <3>1, <3>2 DEF BuildInv, BinInv, Good
  <2>5. CASE ~ok /\ build
    <3>1. pc' = "opf" /\ loaded' = loaded
      BY <2>2, <2>3, <2>5
    <3>2. loaded = NoFile
      BY <2>1 DEF BuildInv
    <3>. QED BY <1>1, <2>1, <3>1, <3>2 DEF BuildInv, BinInv, Good
  <2>6. CASE ~ok /\ ~build
    BY <1>2, <1>3, <2>1, <2>2, <2>3, <2>6
  <2>. QED BY <2>3, <2>4, <2>5, <2>6
<1>7. CASE OpfPass
  <2>1. UNCHANGED <<bin, cut>> /\ pc = "opf"
    BY <1>7 DEF OpfPass
  <2>2. CASE tmp' \in {"whole", "short"} /\ Go("toc")
    BY <1>1, <2>1, <2>2 DEF Go, BuildInv, BinInv, Good
  <2>. QED BY <1>2, <1>3, <1>7, <2>1, <2>2 DEF OpfPass
<1>8. CASE TocPass
  <2>1. UNCHANGED <<bin, cut>> /\ pc = "toc"
    BY <1>8 DEF TocPass
  <2>2. CASE /\ entries' \in TocEntries /\ tmp' \in {tmp, "short"}
             /\ pc' = "bin" /\ UNCHANGED <<building, plain, status, result, loaded>>
    <3>1. entries' \in Tocs
      BY <1>1, <2>2, EntriesAreTocs
    <3>. QED BY <1>1, <2>1, <2>2, <3>1 DEF BuildInv, BinInv, Good
  <2>. QED BY <1>2, <1>3, <1>8, <2>1, <2>2 DEF TocPass
<1>9. CASE BeginBin
  <2>1. CASE bin' = Empty /\ cut' = TRUE /\ Go("fill")
    BY <1>1, <1>9, <2>1 DEF BeginBin, Go, work, BuildInv, BinInv
  <2>2. CASE bin' = Empty /\ cut' = TRUE /\ Leave
    BY <1>2, <2>2
  <2>3. CASE UNCHANGED <<bin, cut>> /\ Leave
    BY <1>2, <1>3, <2>3
  <2>. QED BY <1>9, <2>1, <2>2, <2>3 DEF BeginBin
<1>10. CASE FillBin
  <2>1. pc = "fill" /\ cut /\ tmp \in {"whole", "short"} /\ entries \in Tocs
    BY <1>10 DEF FillBin, BuildInv
  <2>2. CASE /\ bin' = IF tmp = "whole" THEN Whole(entries) ELSE Cut
             /\ cut' = (tmp = "short") /\ Go("clean")
    <3>1. ~cut' => Good(bin')
      BY <2>1, <2>2, WholeIsGood
    <3>2. pc' = "clean" /\ loaded' = NoFile
      BY <2>1, <2>2 DEF Go, BuildInv
    <3>. QED BY <1>1, <3>1, <3>2 DEF BuildInv, BinInv, Good
  <2>3. CASE ShortWrite /\ Leave
    BY <1>2, <2>3 DEF ShortWrite
  <2>4. CASE Leave /\ UNCHANGED cut
    BY <1>2, <2>1, <2>4
  <2>. QED BY <1>10, <2>2, <2>3, <2>4 DEF FillBin
<1>11. CASE CleanTmp
  <2>1. UNCHANGED <<bin, cut, loaded>> /\ pc' \in {"reload", "inspect"}
    BY <1>11 DEF CleanTmp, Go
  <2>. QED BY <1>4, <2>1
<1>12. CASE Inspect
  <2>1. UNCHANGED <<bin, cut, loaded>> /\ pc' \in {"open", "delete", "parse"}
    BY <1>12 DEF Inspect, Enter
  <2>. QED BY <1>4, <2>1
<1>13. CASE DeleteCache \/ Parse \/ BackupRules \/ PromoteRules \/ DropBackup
  <2>1. /\ UNCHANGED <<bin, cut, loaded>>
        /\ pc' \in {"parse", "backup", "parsed", "promote", "dropBackup"}
    BY <1>13 DEF DeleteCache, Parse, BackupRules, PromoteRules, DropBackup, Go, NotSaved, card
  <2>. QED BY <1>4, <2>1
<1>14. CASE Parsed
  <2>1. UNCHANGED <<bin, cut>> /\ pc = "parsed"
    BY <1>14 DEF Parsed, card
  <2>2. CASE building
    <3>1. pc' \in {"remove", "reload"} /\ UNCHANGED <<loaded, building>>
      BY <1>14, <2>2 DEF Parsed, Go, work
    <3>. QED BY <1>1, <2>1, <2>2, <3>1 DEF BuildInv, BinInv, Good
  <2>3. CASE ~building /\ TRUE \in Loads(bin) /\ CacheChanged /\ Go("remove")
    <3>1. ~cut => Good(bin)
      BY <2>3, LoadsGood
    <3>. QED BY <1>1, <2>1, <2>3, <3>1 DEF Go, work, BuildInv, BinInv, Good
  <2>4. CASE ~building /\ TRUE \in Loads(bin) /\ Enter(bin)
    BY <1>5, <2>1, <2>4, LoadsGood
  <2>5. CASE ~building /\ Leave
    BY <1>2, <1>3, <2>1, <2>5
  <2>. QED BY <1>14, <2>2, <2>3, <2>4, <2>5 DEF Parsed
<1>15. CASE RemoveSections
  <2>1. UNCHANGED <<bin, cut>> /\ pc = "remove"
    BY <1>15 DEF RemoveSections
  <2>2. CASE building
    <3>1. pc' = "reload" /\ loaded' = loaded
      BY <1>15, <2>2 DEF RemoveSections, Go
    <3>. QED BY <1>4, <2>1, <3>1
  <2>3. CASE ~building
    BY <1>5, <1>15, <2>1, <2>3 DEF RemoveSections, BinInv
  <2>. QED BY <2>2, <2>3
<1>16. CASE Reload
  <2>1. UNCHANGED <<bin, cut>>
    BY <1>16 DEF Reload, card
  <2>2. CASE TRUE \in Loads(bin) /\ Enter(bin)
    BY <1>5, <2>1, <2>2, LoadsGood
  <2>3. CASE Leave
    BY <1>2, <1>3, <2>1, <2>3
  <2>. QED BY <1>16, <2>2, <2>3 DEF Reload
<1>17. CASE LayOut
  BY <1>4, <1>17 DEF LayOut
<1>18. CASE Close
  BY <1>2, <1>3, <1>18 DEF Close, card
<1>19. CASE ClearBook
  BY <1>2, <1>19 DEF ClearBook
<1>20. CASE Crash
  <2>1. cut' = (cut \/ bin' # bin)
    BY <1>20 DEF Crash
  <2>. QED BY <1>2, <1>3, <1>20, <2>1 DEF Crash
<1>21. CASE UNCHANGED vars
  BY <1>1, <1>21 DEF vars, card, work, BuildInv, BinInv, Good
<1>. QED
  BY <1>6, <1>7, <1>8, <1>9, <1>10, <1>11, <1>12, <1>13, <1>14, <1>15, <1>16, <1>17,
     <1>18, <1>19, <1>20, <1>21 DEF Next

-----------------------------------------------------------------------------
\* A book that opens opens with a whole book.bin, in which every spine item has its
\* entry (BookMetadataCache.cpp:130-290), unless the build was cut.
THEOREM BookIsWhole == Spec => []LoadedIsWhole
<1>1. WholeInv => LoadedIsWhole
  BY DEF WholeInv, BinInv, LoadedIsWhole, Good, NoFile, File
<1>. QED BY <1>1, InitWholeInv, NextWholeInv, PTL DEF Spec
=============================================================================
