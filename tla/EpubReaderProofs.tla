--------------------------- MODULE EpubReaderProofs ---------------------------
(***************************************************************************)
(* Proofs about EpubReader, for every number of chapters, every length of  *)
(* a chapter and every set of layouts.                                     *)
(*                                                                         *)
(* CoreInv says how the open section, the section files and the position   *)
(* fit together; it holds whatever is in Lossy.  Every step releases the   *)
(* section, opens one from what is on the card, or adds pages to the open  *)
(* one (StepStorage), and each of the three keeps the files consistent and *)
(* is a step of ChapterPages.  PositionInv adds what is drawn and what is  *)
(* saved, and needs page turns to wait for the render task ("race").       *)
(*                                                                         *)
(* GoalInv says that whatever the reader would open next leads to the      *)
(* place that was promised: the page of the open section, the pending      *)
(* jump, the remembered offset or number, progress.bin, and the places to  *)
(* return to.  It holds when none of the situations in Lossy arises, for a *)
(* book that starts at its beginning; one lemma per action keeps it.       *)
(***************************************************************************)
EXTENDS EpubReader, TLAPS

-----------------------------------------------------------------------------
(* The inductive invariant, by theme.                                      *)

Places == (0..Chapters) \X Units
Jumps ==
  [last : BOOLEAN, offset : MaybeUnit, percent : MaybeUnit,
   anchor : {Nowhere} \cup ((0..(Chapters - 1)) \X Units)]
Memories == [spine : 0..Chapters, total : Pages, offset : MaybeUnit]
Sections ==
  [ch : 0..(Chapters - 1), page : Pages, count : Pages, laid : Pages,
   building : BOOLEAN, partial : Pages, stuck : BOOLEAN]
LaidFiles == [size : PageSizes, count : 1..Length, complete : BOOLEAN]
Records == [spine : 0..Chapters, page : Pages, total : Pages, offset : MaybeUnit]
Notes == [spine : 0..Chapters, page : Pages, at : SUBSET Places]

\* The types of the position, of what is on the display, and of what was promised.
ReaderTypes ==
  /\ open \in BOOLEAN /\ dirty \in BOOLEAN /\ inNote \in BOOLEAN
  /\ rpc \in {"idle", "save"} /\ shownOffset \in MaybeUnit
  /\ spine \in 0..Chapters /\ nextPage \in Pages
  /\ jump \in Jumps /\ cached \in Memories
  /\ file \in Records \cup {NoProgress}
  /\ goal \in SUBSET Places /\ kept \in SUBSET Places
  /\ notes \in Seq(Notes)

\* A file has no more pages than its chapter, and all of them if it is complete.
Possible(f) ==
  /\ f.count <= Total(f.size)
  /\ f.complete => f.count = Total(f.size)

\* The pages of a section are those of its partial file and those laid out.
Made(sec) ==
  /\ sec.partial <= Total(size)
  /\ IF Done(sec) THEN sec.count = Total(size)
     ELSE /\ sec.count = Larger(sec.laid, sec.partial) /\ sec.laid < Total(size)
          /\ sec.building \/ sec.laid = 0

\* The file on the card is the one that the section was loaded from, or has left.
Matches(sec, f) ==
  f = IF Done(sec) THEN [size |-> size, count |-> sec.count, complete |-> TRUE]
      ELSE IF sec.partial > 0
      THEN [size |-> size, count |-> sec.partial, complete |-> FALSE]
      ELSE NoFile

\* The section files, and the section that is open.
Storage ==
  /\ size \in PageSizes /\ section \in Sections \cup {NoSection}
  /\ cache \in [0..(Chapters - 1) -> LaidFiles \cup {NoFile}]
  /\ \A c \in 0..(Chapters - 1) : cache[c] # NoFile => Possible(cache[c])
  /\ IsOpen => Made(section) /\ Matches(section, cache[section.ch])

\* The open section is that of the current chapter; a page that was drawn is of it.
PlaceInv ==
  /\ IsOpen => section.ch = spine \/ (AtEnd /\ section.ch = Chapters - 1)
  /\ rpc = "save" => IsOpen /\ shownOffset \in Units

Unsaid == <<None, None, None>>

ClosedInv ==
  ~open => /\ section = NoSection /\ rpc = "idle" /\ ~dirty
           /\ notes = <<>> /\ lastSaved = Unsaid /\ spine = 0
           /\ cached = [spine |-> 0, total |-> 0, offset |-> None]

CoreInv == Storage /\ ReaderTypes /\ PlaceInv /\ ClosedInv

\* What is about to be saved is the page that was drawn.
SavingInv == rpc = "save" => ~AtEnd /\ section.page < section.count

\* What was saved last is in the file.
SavedInv ==
  lastSaved # Unsaid =>
    /\ file.spine = lastSaved[1] /\ file.page = lastSaved[2] /\ file.offset # None
    /\ <<file.spine, file.offset>> \in kept

PositionInv == SavingInv /\ SavedInv /\ SavedIsShown

-----------------------------------------------------------------------------
(* Pages and offsets.                                                      *)

LEMMA Division ==
  ASSUME NEW a \in Nat, NEW s \in Nat \ {0}
  PROVE  /\ a \div s \in Nat
         /\ (a \div s) * s <= a /\ a < (a \div s) * s + s
         /\ a \div s <= a
OBVIOUS

LEMMA DivisionBound ==
  ASSUME NEW a \in Nat, NEW s \in Nat \ {0}, NEW q \in Nat, a < q * s
  PROVE  a \div s < q
BY Division

\* A chapter has a page; its pages start inside it, and its units are on them.
LEMMA TotalPages ==
  ASSUME NEW s \in PageSizes
  PROVE  /\ s \in Nat \ {0} /\ Total(s) \in 1..Length
         /\ \A p \in Nat : p < Total(s) => p * s \in Units
         /\ \A u \in Units : u \div s \in 0..(Total(s) - 1)
PROOF
<1>1. s \in Nat \ {0} /\ Length \in Nat \ {0}
  BY ReaderAssumption
<1>. DEFINE t == (Length + s - 1) \div s
<1>2. Length + s - 1 \in Nat
  BY <1>1
<1>3. t \in Nat /\ t * s <= Length + s - 1 /\ Length + s - 1 < t * s + s
  BY <1>1, <1>2, Division
<1>4. t >= 1 /\ t <= Length
  <2>1. t # 0
    BY <1>1, <1>3
  <2>2. Length + s - 1 < (Length + 1) * s
    BY <1>1
  <2>3. t < Length + 1
    BY <1>1, <1>2, <2>2, DivisionBound
  <2>. QED BY <1>1, <1>3, <2>1, <2>3
<1>5. ASSUME NEW p \in Nat, p < t PROVE p * s \in Units
  <2>1. p + 1 <= t
    BY <1>3, <1>5
  <2>2. (p + 1) * s <= t * s
    BY <1>1, <1>3, <2>1
  <2>3. p * s \in Nat /\ (p + 1) * s = p * s + s
    BY <1>1
  <2>4. p * s < Length
    BY <1>1, <1>3, <2>2, <2>3
  <2>. QED BY <1>1, <2>3, <2>4 DEF Units
<1>6. ASSUME NEW u \in Units PROVE u \div s \in 0..(t - 1)
  <2>1. u \in Nat /\ u < t * s
    BY <1>1, <1>3 DEF Units
  <2>2. u \div s < t /\ u \div s \in Nat
    BY <1>1, <1>3, <2>1, Division, DivisionBound
  <2>. QED BY <1>3, <2>2
<1>. QED BY <1>1, <1>3, <1>4, <1>5, <1>6 DEF Total

-----------------------------------------------------------------------------
(* Sections.                                                               *)

LEMMA SectionFields ==
  ASSUME NEW sec \in Sections
  PROVE  /\ sec.ch \in 0..(Chapters - 1) /\ sec.page \in Nat /\ sec.count \in Nat
         /\ sec.laid \in Nat /\ sec.partial \in Nat
         /\ sec.page <= Length /\ sec.count <= Length /\ sec.laid <= Length
         /\ sec.partial <= Length
         /\ sec.building \in BOOLEAN /\ sec # NoSection
         /\ Done(sec) \in BOOLEAN
BY ReaderAssumption DEF Sections, NoSection, Pages, None, Done

\* buildSomeMore() adds pages, up to the n asked for or the end of the chapter.
LEMMA Extended ==
  ASSUME size \in PageSizes, NEW sec \in Sections, NEW n \in Nat,
         ~Done(sec), sec.laid <= n, Made(sec)
  PROVE  /\ LaidTo(sec, n) \in Sections /\ Made(LaidTo(sec, n))
         /\ LaidTo(sec, n).ch = sec.ch /\ LaidTo(sec, n).page = sec.page
         /\ LaidTo(sec, n).laid = Smaller(n, Total(size))
         /\ LaidTo(sec, n).count >= sec.count
         /\ LaidTo(sec, n).count >= LaidTo(sec, n).laid
         /\ LaidTo(sec, n).building <=> n < Total(size)
         /\ LaidTo(sec, n).building <=> ~Done(LaidTo(sec, n))
         /\ LaidTo(sec, n).building => LaidTo(sec, n).partial = sec.partial
PROOF
<1>1. PICK t : t = Total(size)
  OBVIOUS
<1>2. t \in Nat /\ t >= 1 /\ t <= Length /\ Length \in Nat
  BY <1>1, TotalPages, ReaderAssumption
<1>3. PICK m : m = Smaller(n, t)
  OBVIOUS
<1>4. m \in Nat /\ m <= t /\ (m < t <=> n < t) /\ (n < t => m = n)
  BY <1>2, <1>3 DEF Smaller
<1>5. PICK k : k = Larger(m, sec.count)
  OBVIOUS
<1>6. /\ sec.count \in Nat /\ sec.laid \in Nat /\ sec.partial \in Nat
      /\ sec.count = Larger(sec.laid, sec.partial) /\ sec.partial <= t /\ sec.laid < t
  BY <1>1, SectionFields DEF Made
<1>7. k \in Nat /\ k <= t /\ k >= m /\ k >= sec.count
  BY <1>2, <1>4, <1>5, <1>6 DEF Larger
<1>8. PICK q : q = IF m < t THEN sec.partial ELSE 0
  OBVIOUS
<1>9. PICK b : b = (m < t) /\ b \in BOOLEAN
  <2>1. (m < t) \in BOOLEAN
    BY <1>2, <1>4
  <2>. QED BY <2>1, Zenon
<1>10. PICK new : new = LaidTo(sec, n)
  OBVIOUS
<1>11. new = [sec EXCEPT !.laid = m, !.count = k, !.building = b, !.partial = q]
  BY <1>1, <1>3, <1>5, <1>8, <1>9, <1>10 DEF LaidTo
<1>12. m \in Pages /\ k \in Pages /\ q \in Pages /\ q \in Nat /\ q <= t
  BY <1>2, <1>4, <1>6, <1>7, <1>8 DEF Pages
<1>13. /\ new \in Sections
       /\ new.ch = sec.ch /\ new.page = sec.page /\ new.laid = m
       /\ new.count = k /\ (new.building <=> b) /\ new.partial = q
  BY <1>9, <1>11, <1>12 DEF Sections
<1>14. Done(new) <=> ~(m < t)
  BY <1>8, <1>9, <1>13 DEF Done
<1>15. Made(new)
  <2>1. CASE m < t
    <3>1. k = Larger(m, q)
      BY <1>4, <1>5, <1>6, <1>8, <1>12, <2>1, SectionFields DEF Larger
    <3>. QED BY <1>1, <1>9, <1>12, <1>13, <1>14, <2>1, <3>1 DEF Made
  <2>2. CASE ~(m < t)
    <3>1. k = t
      BY <1>2, <1>4, <1>7, <2>2
    <3>. QED BY <1>1, <1>12, <1>13, <1>14, <2>2, <3>1 DEF Made
  <2>. QED BY <2>1, <2>2
<1>. QED
  BY <1>1, <1>3, <1>4, <1>7, <1>8, <1>9, <1>10, <1>13, <1>14, <1>15

-----------------------------------------------------------------------------
(* The section files.                                                      *)

\* What may be left of the file of chapter c when no section is open any more.
Left(c) ==
  {cache[c], NoFile} \cup
  IF IsOpen /\ section.ch = c /\ section.building /\ section.laid > section.partial
    THEN {[size |-> size, count |-> section.laid, complete |-> FALSE]} ELSE {}

\* No section is open after the step: it was closed, or there was none.
Released ==
  /\ section' = NoSection
  /\ DOMAIN cache' = 0..(Chapters - 1) /\ cache' = [c \in DOMAIN cache' |-> cache'[c]]
  /\ \A c \in 0..(Chapters - 1) : cache'[c] \in Left(c)

\* A section that could be opened from what is on the card.
Fresh(sec) ==
  LET f == cache[sec.ch]
  IN /\ sec \in Sections /\ Made(sec)
     /\ ~Done(sec) =>
          IF sec.partial > 0
            THEN f = [size |-> size, count |-> sec.partial, complete |-> FALSE]
            ELSE f.size # size
     /\ f.size = size => sec.count >= f.count /\ (f.complete => Done(sec))

\* Section new is sec with pages added, or turned.
Extends(new, sec) ==
  /\ new \in Sections /\ Made(new) /\ new.ch = sec.ch
  /\ new.count >= sec.count /\ (Done(sec) => Done(new))
  /\ ~Done(new) => new.partial = sec.partial

Opened ==
  ~IsOpen /\ Fresh(section') /\ size' = size /\ cache' = Committed(section')

Grown ==
  IsOpen /\ Extends(section', section) /\ size' = size /\ cache' = Committed(section')

LEMMA FileFields ==
  ASSUME NEW f \in LaidFiles
  PROVE  /\ f.size \in PageSizes /\ f.size # None /\ f # NoFile
         /\ f.count \in Nat /\ f.count >= 1 /\ f.complete \in BOOLEAN
         /\ f = [size |-> f.size, count |-> f.count, complete |-> f.complete]
BY ReaderAssumption DEF LaidFiles, NoFile, None

LEMMA CommittedFile ==
  ASSUME Storage, NEW sec \in Sections, Made(sec),
         ~Done(sec) =>
           IF sec.partial > 0
             THEN cache[sec.ch] = [size |-> size, count |-> sec.partial,
                                   complete |-> FALSE]
             ELSE cache[sec.ch].size # size
  PROVE  /\ Committed(sec) \in [0..(Chapters - 1) -> LaidFiles \cup {NoFile}]
         /\ \A c \in 0..(Chapters - 1) :
              Committed(sec)[c] # NoFile => Possible(Committed(sec)[c])
         /\ Matches(sec, Committed(sec)[sec.ch])
         /\ \A c \in 0..(Chapters - 1) : c # sec.ch => Committed(sec)[c] = cache[c]
PROOF
<1>1. /\ sec.ch \in 0..(Chapters - 1) /\ sec.count \in Nat /\ sec.count <= Length
      /\ sec.partial \in Nat
  BY SectionFields
<1>2. Total(size) \in 1..Length /\ size \in PageSizes
  BY TotalPages DEF Storage
<1>3. PICK f : f = IF Done(sec)
                     THEN [size |-> size, count |-> sec.count, complete |-> TRUE]
                   ELSE IF cache[sec.ch].size = size THEN cache[sec.ch] ELSE NoFile
  OBVIOUS
<1>4. Committed(sec) = [cache EXCEPT ![sec.ch] = f]
  BY <1>3 DEF Committed
<1>5. f \in LaidFiles \cup {NoFile}
  BY <1>1, <1>2, <1>3 DEF Made, LaidFiles, Storage
<1>6. f # NoFile => Possible(f)
  BY <1>1, <1>2, <1>3 DEF Made, Possible, Storage
<1>7. Matches(sec, f)
  <2>1. size # None
    BY <1>2, ReaderAssumption DEF None
  <2>. QED BY <1>1, <1>3, <2>1 DEF Matches, NoFile
<1>8. /\ [cache EXCEPT ![sec.ch] = f] \in [0..(Chapters - 1) -> LaidFiles \cup {NoFile}]
      /\ [cache EXCEPT ![sec.ch] = f][sec.ch] = f
      /\ \A c \in 0..(Chapters - 1) :
           c # sec.ch => [cache EXCEPT ![sec.ch] = f][c] = cache[c]
  BY <1>1, <1>5 DEF Storage
<1>. QED BY <1>4, <1>6, <1>7, <1>8 DEF Storage

LEMMA OpenedStorage ==
  ASSUME Storage, Opened
  PROVE  Storage'
PROOF
<1>1. PICK sec : sec = section'
  OBVIOUS
<1>2. sec \in Sections /\ sec # NoSection /\ Fresh(sec)
  BY <1>1, SectionFields DEF Opened, Fresh
<1>3. /\ Committed(sec) \in [0..(Chapters - 1) -> LaidFiles \cup {NoFile}]
      /\ \A c \in 0..(Chapters - 1) :
           Committed(sec)[c] # NoFile => Possible(Committed(sec)[c])
      /\ Matches(sec, Committed(sec)[sec.ch])
  BY <1>2, CommittedFile DEF Fresh
<1>4. Made(sec)
  BY <1>2 DEF Fresh
<1>. QED
  BY <1>1, <1>2, <1>3, <1>4 DEF Storage, Opened, IsOpen, Made, Matches

LEMMA GrownStorage ==
  ASSUME Storage, Grown
  PROVE  Storage'
PROOF
<1>1. PICK sec : sec = section'
  OBVIOUS
<1>2. sec \in Sections /\ sec # NoSection /\ Extends(sec, section)
  BY <1>1, SectionFields DEF Grown, Extends
<1>3. ~Done(sec) =>
        IF sec.partial > 0
          THEN cache[sec.ch] = [size |-> size, count |-> sec.partial,
                                complete |-> FALSE]
          ELSE cache[sec.ch].size # size
  <2>1. size # None
    BY ReaderAssumption DEF None, Storage
  <2>2. Matches(section, cache[section.ch])
    BY DEF Storage, Grown
  <2>3. ASSUME ~Done(sec)
        PROVE  ~Done(section) /\ sec.ch = section.ch /\ sec.partial = section.partial
    BY <1>2, <2>3 DEF Extends
  <2>4. NoFile.size = None
    BY DEF NoFile
  <2>. QED BY <2>1, <2>2, <2>3, <2>4 DEF Matches
<1>4. /\ Committed(sec) \in [0..(Chapters - 1) -> LaidFiles \cup {NoFile}]
      /\ \A c \in 0..(Chapters - 1) :
           Committed(sec)[c] # NoFile => Possible(Committed(sec)[c])
      /\ Matches(sec, Committed(sec)[sec.ch])
  BY <1>2, <1>3, CommittedFile DEF Extends
<1>5. Made(sec)
  BY <1>2 DEF Extends
<1>. QED
  BY <1>1, <1>2, <1>4, <1>5 DEF Storage, Grown, IsOpen, Made, Matches

LEMMA LeftFiles ==
  ASSUME Storage, NEW c \in 0..(Chapters - 1), NEW f \in Left(c)
  PROVE  f \in LaidFiles \cup {NoFile} /\ (f # NoFile => Possible(f))
PROOF
<1>1. CASE f \in {cache[c], NoFile}
  BY <1>1 DEF Storage
<1>2. CASE /\ IsOpen /\ section.ch = c /\ section.building
           /\ section.laid > section.partial
           /\ f = [size |-> size, count |-> section.laid, complete |-> FALSE]
  <2>1. section \in Sections /\ Made(section) /\ ~Done(section)
    BY <1>2 DEF Storage, IsOpen, Done
  <2>2. /\ section.laid \in Nat /\ section.partial \in Nat
        /\ section.laid < Total(size) /\ Total(size) \in 1..Length
    BY <2>1, SectionFields, TotalPages DEF Made, Storage
  <2>3. /\ f.size = size /\ f.count = section.laid /\ f.complete = FALSE
        /\ size \in PageSizes
    BY <1>2 DEF Storage
  <2>4. section.laid \in 1..Length
    BY <1>2, <2>2, ReaderAssumption
  <2>5. f \in LaidFiles
    BY <1>2, <2>3, <2>4 DEF LaidFiles
  <2>. QED BY <2>2, <2>3, <2>5 DEF Possible
<1>. QED BY <1>1, <1>2 DEF Left

LEMMA ReleasedStorage ==
  ASSUME Storage, Released, size' \in PageSizes
  PROVE  Storage'
PROOF
<1>1. \A c \in 0..(Chapters - 1) :
        cache'[c] \in LaidFiles \cup {NoFile} /\ (cache'[c] # NoFile => Possible(cache'[c]))
  BY LeftFiles DEF Released
<1>2. cache' \in [0..(Chapters - 1) -> LaidFiles \cup {NoFile}]
  BY <1>1 DEF Released
<1>3. \A f : Possible(f)' = Possible(f)
  BY DEF Possible
<1>. QED
  BY <1>1, <1>2, <1>3 DEF Released, Storage, IsOpen, Possible

-----------------------------------------------------------------------------
(* The promise of ChapterPages.                                            *)

LEMMA PromiseFile ==
  ASSUME Storage, NEW c \in 0..(Chapters - 1)
  PROVE  /\ cache[c] = NoFile => File(c) = {}
         /\ cache[c] # NoFile =>
              File(c) = {[layout |-> cache[c].size, pages |-> cache[c].count,
                          whole |-> cache[c].complete]}
         /\ section = NoSection => OpenSection(c) = {}
BY DEF File, OpenSection, NoSection, None

LEMMA ReleasedPromise ==
  ASSUME Storage, Released, NEW c \in 0..(Chapters - 1)
  PROVE  [Promise(c)!Next]_(Promise(c)!vars)
PROOF
<1>1. OpenSection(c)' = {}
  BY DEF Released, OpenSection, NoSection, None
<1>2. cache'[c] \in Left(c)
  BY DEF Released
<1>3. ASSUME cache'[c] = cache[c] PROVE File(c)' = File(c)
  BY <1>3 DEF File
<1>4. ASSUME cache'[c] = NoFile PROVE File(c)' = {}
  BY <1>4 DEF File
<1>5. CASE OpenSection(c) = {}
  <2>1. ~(IsOpen /\ section.ch = c)
    BY <1>5 DEF OpenSection
  <2>2. cache'[c] \in {cache[c], NoFile}
    BY <1>2, <2>1 DEF Left
  <2>. QED
    BY <1>1, <1>3, <1>4, <1>5, <2>2
       DEF Promise!Next, Promise!Clear, Promise!vars
<1>6. CASE OpenSection(c) # {}
  <2>1. section.ch = c
    BY <1>6 DEF OpenSection
  <2>2. CASE cache'[c] \in {cache[c], NoFile}
    BY <1>1, <1>3, <1>4, <1>6, <2>2 DEF Promise!Next, Promise!Close
  <2>3. CASE /\ IsOpen /\ section.building /\ section.laid > section.partial
             /\ cache'[c] = [size |-> size, count |-> section.laid, complete |-> FALSE]
    <3>1. section \in Sections /\ Made(section) /\ ~Done(section)
      BY <2>3 DEF Storage, IsOpen, Done
    <3>2. section.count = section.laid /\ section.laid > 0 /\ Done(section) = FALSE
      BY <2>3, <3>1, SectionFields DEF Made, Larger
    <3>3. OpenSection(c) =
            {[layout |-> size, pages |-> section.laid, whole |-> FALSE]}
      BY <2>1, <3>2 DEF OpenSection
    <3>4. size # None
      BY ReaderAssumption DEF Storage, None
    <3>5. File(c)' = {[layout |-> size, pages |-> section.laid, whole |-> FALSE]}
      BY <2>3, <3>4 DEF File, NoFile
    <3>. QED BY <1>1, <1>6, <3>2, <3>3, <3>5 DEF Promise!Next, Promise!Close
  <2>. QED BY <1>2, <2>1, <2>2, <2>3 DEF Left
<1>. QED BY <1>5, <1>6

\* The pages of a section, as the promise sees them.
Shown(sec) == [layout |-> size, pages |-> sec.count, whole |-> Done(sec)]

LEMMA ShownBeginning ==
  ASSUME size \in PageSizes, NEW sec \in Sections, Made(sec), NEW c
  PROVE  Shown(sec) \in Promise(c)!Beginnings(size)
PROOF
<1>1. Total(size) \in 1..Length
  BY TotalPages
<1>2. sec.count \in 0..Total(size) /\ (Done(sec) => sec.count = Total(size))
  BY <1>1, SectionFields DEF Made, Larger
<1>3. Done(sec) \in BOOLEAN
  BY SectionFields
<1>. QED BY <1>2, <1>3 DEF Shown, Promise!Beginnings

LEMMA OpenedPromise ==
  ASSUME Storage, Opened, NEW c \in 0..(Chapters - 1)
  PROVE  [Promise(c)!Next]_(Promise(c)!vars)
PROOF
<1>1. PICK sec : sec = section'
  OBVIOUS
<1>2. sec \in Sections /\ sec # NoSection /\ Fresh(sec) /\ Made(sec)
  BY <1>1, SectionFields DEF Opened, Fresh
<1>3. /\ Matches(sec, Committed(sec)[sec.ch])
      /\ \A d \in 0..(Chapters - 1) : d # sec.ch => Committed(sec)[d] = cache[d]
  BY <1>2, CommittedFile DEF Fresh
<1>4. OpenSection(c) = {}
  BY PromiseFile DEF Opened, IsOpen
<1>5. CASE sec.ch # c
  <2>1. OpenSection(c)' = {} /\ cache'[c] = cache[c]
    BY <1>1, <1>3, <1>5 DEF Opened, OpenSection
  <2>. QED BY <1>4, <2>1 DEF File, Promise!vars
<1>6. CASE sec.ch = c
  <2>1. OpenSection(c)' = {Shown(sec)}
    BY <1>1, <1>6 DEF Opened, OpenSection, Shown, Done
  <2>2. Shown(sec) \in Promise(c)!Beginnings(size) /\ size \in PageSizes
    BY <1>2, ShownBeginning DEF Storage
  <2>3. \A f \in File(c) : Promise(c)!Reaches(Shown(sec), f)
    BY <1>2, <1>6 DEF File, Promise!Reaches, Shown, Fresh
  <2>4. File(c)' = IF Shown(sec).whole THEN {Shown(sec)}
                   ELSE {f \in File(c) : f.layout = size}
    <3>1. cache'[c] = IF Done(sec)
                        THEN [size |-> size, count |-> sec.count, complete |-> TRUE]
                      ELSE IF cache[c].size = size THEN cache[c] ELSE NoFile
      BY <1>1, <1>2, <1>6, SectionFields DEF Opened, Committed, Storage
    <3>2. size # None
      BY <2>2, ReaderAssumption DEF None
    <3>3. CASE Done(sec)
      BY <3>1, <3>2, <3>3 DEF File, Shown, NoFile
    <3>4. CASE ~Done(sec) /\ cache[c].size = size
      BY <3>1, <3>2, <3>4 DEF File, Shown, NoFile
    <3>5. CASE ~Done(sec) /\ cache[c].size # size
      BY <3>1, <3>2, <3>5 DEF File, Shown
    <3>. QED BY <3>3, <3>4, <3>5
  <2>. QED BY <1>4, <2>1, <2>2, <2>3, <2>4 DEF Promise!Next, Promise!Open
<1>. QED BY <1>5, <1>6

LEMMA GrownPromise ==
  ASSUME Storage, Grown, NEW c \in 0..(Chapters - 1)
  PROVE  [Promise(c)!Next]_(Promise(c)!vars)
PROOF
<1>1. PICK sec : sec = section'
  OBVIOUS
<1>2. /\ sec \in Sections /\ Extends(sec, section) /\ Made(sec)
      /\ section \in Sections /\ Made(section) /\ size \in PageSizes
  BY <1>1 DEF Grown, Extends, Storage, IsOpen
<1>3. cache' = Committed(sec) /\ size' = size /\ sec.ch = section.ch
  BY <1>1, <1>2 DEF Grown, Extends
<1>4. CASE sec.ch # c
  BY <1>1, <1>3, <1>4, SectionFields DEF Committed, OpenSection, File, Promise!vars, Storage
<1>5. CASE sec.ch = c
  <2>1. OpenSection(c) = {Shown(section)} /\ OpenSection(c)' = {Shown(sec)}
    BY <1>1, <1>3, <1>5 DEF OpenSection, Shown, Done
  <2>2. cache'[c] = IF Done(sec)
                      THEN [size |-> size, count |-> sec.count, complete |-> TRUE]
                    ELSE IF cache[c].size = size THEN cache[c] ELSE NoFile
    BY <1>2, <1>3, <1>5, SectionFields DEF Committed, Storage
  <2>3. Matches(section, cache[c]) /\ size # None
    BY <1>3, <1>5, ReaderAssumption DEF Storage, Grown, None
  <2>4. CASE Done(section)
    <3>1. Done(sec) /\ sec.count = section.count
      BY <1>2, <2>4 DEF Extends, Made
    <3>2. cache'[c] = cache[c]
      BY <2>2, <2>3, <2>4, <3>1 DEF Matches
    <3>3. Shown(sec) = Shown(section)
      BY <2>4, <3>1 DEF Shown, Done
    <3>. QED BY <2>1, <3>2, <3>3 DEF File, Promise!vars
  <2>5. CASE ~Done(section)
    <3>1. File(c)' = IF Shown(sec).whole THEN {Shown(sec)} ELSE File(c)
      <4>1. CASE Done(sec)
        BY <2>2, <2>3, <4>1 DEF File, Shown, NoFile
      <4>2. CASE ~Done(sec)
        <5>1. NoFile.size = None
          BY DEF NoFile
        <5>2. cache'[c] = cache[c]
          BY <2>2, <2>3, <2>5, <4>2, <5>1 DEF Matches
        <5>. QED BY <4>2, <5>2 DEF File, Shown
      <4>. QED BY <4>1, <4>2
    <3>2. ~Shown(section).whole /\ Shown(section).layout = size
      BY <2>5 DEF Shown
    <3>3. Promise(c)!Reaches(Shown(sec), Shown(section))
      BY <1>2, <3>2 DEF Promise!Reaches, Shown, Extends
    <3>4. Shown(sec) \in Promise(c)!Beginnings(Shown(section).layout)
      BY <1>2, <3>2, ShownBeginning
    <3>. QED BY <2>1, <3>1, <3>2, <3>3, <3>4 DEF Promise!Next, Promise!Grow
  <2>. QED BY <2>4, <2>5
<1>. QED BY <1>4, <1>5

-----------------------------------------------------------------------------
(* What the actions do to sections and files.                              *)

\* section.reset(), with or without an open section.
LEMMA DropReleases ==
  ASSUME Storage, section' = NoSection, cache' = Suspended
  PROVE  Released
PROOF
<1>1. CASE section.building /\ section.laid > section.partial
  <2>1. section \in Sections /\ IsOpen
    BY <1>1 DEF Storage, NoSection, IsOpen
  <2>2. section.ch \in 0..(Chapters - 1)
    BY <2>1, SectionFields
  <2>. QED BY <1>1, <2>1, <2>2 DEF Released, Left, Suspended, Storage
<1>2. CASE ~(section.building /\ section.laid > section.partial)
  BY <1>2 DEF Released, Left, Suspended, Storage
<1>. QED BY <1>1, <1>2

LEMMA LossReleases ==
  ASSUME Storage, section' = NoSection, NEW c \in 0..(Chapters - 1),
         cache' = [cache EXCEPT ![c] = NoFile]
  PROVE  Released
BY DEF Released, Left, Storage

LEMMA EraseReleases ==
  ASSUME Storage, section' = NoSection, cache' = [c \in DOMAIN cache |-> NoFile]
  PROVE  Released
BY DEF Released, Left, Storage

LEMMA IdleReleases ==
  ASSUME Storage, section' = NoSection, cache' = cache
  PROVE  Released
BY DEF Released, Left, Storage

\* A page is turned, or an extension starts: no page is added and the file is kept.
LEMMA KeptGrows ==
  ASSUME Storage, IsOpen, UNCHANGED <<size, cache>>, section' \in Sections,
         section'.ch = section.ch, section'.count = section.count,
         section'.partial = section.partial,
         Done(section') <=> Done(section),
         \/ section'.laid = section.laid /\ section'.building = section.building
         \/ section'.laid = 0 /\ section'.count = section'.partial
  PROVE  Grown
PROOF
<1>1. PICK sec : sec = section'
  OBVIOUS
<1>2. /\ sec \in Sections /\ sec.ch = section.ch /\ sec.count = section.count
      /\ sec.partial = section.partial /\ (Done(sec) <=> Done(section))
      /\ \/ sec.laid = section.laid /\ sec.building = section.building
         \/ sec.laid = 0 /\ sec.count = sec.partial
  BY <1>1
<1>3. section \in Sections /\ Made(section) /\ Matches(section, cache[section.ch])
  BY DEF Storage, IsOpen
<1>4. /\ section.count \in Nat /\ section.partial \in Nat /\ section.laid \in Nat
      /\ section.ch \in 0..(Chapters - 1)
      /\ Total(size) \in Nat /\ Total(size) > 0 /\ size # None
  BY <1>3, SectionFields, TotalPages, ReaderAssumption DEF Storage, None
<1>5. Made(sec)
  BY <1>2, <1>3, <1>4 DEF Made, Larger
<1>6. Committed(sec) = cache
  <2>1. NoFile.size = None
    BY DEF NoFile
  <2>2. cache[sec.ch] = IF Done(sec)
                     THEN [size |-> size, count |-> sec.count, complete |-> TRUE]
                   ELSE IF cache[sec.ch].size = size THEN cache[sec.ch] ELSE NoFile
    BY <1>2, <1>3, <1>4, <2>1 DEF Matches
  <2>. QED BY <2>2 DEF Committed, Storage
<1>. QED BY <1>1, <1>2, <1>4, <1>5, <1>6 DEF Grown, Extends

-----------------------------------------------------------------------------
(* The sections that the render task and the builds make.                  *)

LEMMA ExtendsTransitive ==
  ASSUME NEW a \in Sections, NEW b, NEW c, Extends(b, a), Extends(c, b)
  PROVE  Extends(c, a)
PROOF
<1>1. /\ a.count \in Nat /\ b.count \in Nat /\ c.count \in Nat
      /\ c.count >= b.count /\ b.count >= a.count
  BY SectionFields DEF Extends
<1>2. c.count >= a.count
  BY <1>1
<1>. QED BY <1>2 DEF Extends

LEMMA FreshExtends ==
  ASSUME Storage, NEW sec, Fresh(sec), NEW new, Extends(new, sec)
  PROVE  Fresh(new)
PROOF
<1>1. sec \in Sections /\ new \in Sections /\ new.ch = sec.ch
  BY DEF Fresh, Extends
<1>2. /\ new.count \in Nat /\ sec.count \in Nat /\ new.count >= sec.count
      /\ sec.ch \in 0..(Chapters - 1)
  BY <1>1, SectionFields DEF Extends
<1>3. cache[sec.ch].size = size => cache[sec.ch] \in LaidFiles
  BY <1>2, ReaderAssumption DEF Storage, NoFile, None
<1>4. cache[sec.ch].size = size => cache[sec.ch].count \in Nat
  BY <1>3, FileFields
<1>5. cache[sec.ch].size = size => new.count >= cache[sec.ch].count
  BY <1>2, <1>4 DEF Fresh
<1>. QED BY <1>1, <1>5 DEF Fresh, Extends

\* Moving the page changes nothing else.
LEMMA MovedExtends ==
  ASSUME NEW sec \in Sections, Made(sec), NEW p \in Pages
  PROVE  /\ Extends([sec EXCEPT !.page = p], sec)
         /\ [sec EXCEPT !.page = p].page = p
         /\ [sec EXCEPT !.page = p].count = sec.count
         /\ [sec EXCEPT !.page = p].laid = sec.laid
         /\ [sec EXCEPT !.page = p].partial = sec.partial
         /\ [sec EXCEPT !.page = p].building = sec.building
         /\ Done([sec EXCEPT !.page = p]) <=> Done(sec)
         /\ [sec EXCEPT !.page = p].ch = sec.ch
         /\ [sec EXCEPT !.page = p] \in Sections
PROOF
<1>1. PICK new : new = [sec EXCEPT !.page = p]
  OBVIOUS
<1>2. /\ new \in Sections /\ new.page = p
      /\ new.ch = sec.ch /\ new.count = sec.count /\ new.laid = sec.laid
      /\ new.building = sec.building /\ new.partial = sec.partial
  BY <1>1 DEF Sections
<1>3. Done(new) <=> Done(sec)
  BY <1>2 DEF Done
<1>4. Made(new)
  BY <1>2, <1>3 DEF Made
<1>5. new.count >= sec.count
  BY <1>2, SectionFields
<1>6. Extends(new, sec)
  BY <1>2, <1>3, <1>4, <1>5 DEF Extends
<1>. QED BY <1>1, <1>2, <1>3, <1>6

\* The last page, when the page asked for is past it.
LEMMA ClampedPage ==
  ASSUME NEW sec \in Sections, NEW x \in Nat
  PROVE  \E p \in Pages :
           /\ Clamped([sec EXCEPT !.page = x]) = [sec EXCEPT !.page = p]
           /\ sec.count > 0 => p < sec.count
PROOF
<1>1. sec.count \in Nat /\ sec.count <= Length
  BY SectionFields
<1>2. PICK p : p = Smaller(x, Larger(sec.count - 1, 0))
  OBVIOUS
<1>3. p \in Pages /\ (sec.count > 0 => p < sec.count)
  BY <1>1, <1>2, ReaderAssumption DEF Pages, Smaller, Larger
<1>4. /\ [sec EXCEPT !.page = x].page = x
      /\ [sec EXCEPT !.page = x].count = sec.count
  BY DEF Sections
<1>5. Clamped([sec EXCEPT !.page = x])
        = [[sec EXCEPT !.page = x] EXCEPT !.page = p]
  BY <1>2, <1>4 DEF Clamped
<1>6. [[sec EXCEPT !.page = x] EXCEPT !.page = p] = [sec EXCEPT !.page = p]
  BY DEF Sections
<1>. QED BY <1>3, <1>5, <1>6

LEMMA ClampedSelf ==
  ASSUME NEW sec \in Sections
  PROVE  \E p \in Pages :
           Clamped(sec) = [sec EXCEPT !.page = p] /\ (sec.count > 0 => p < sec.count)
PROOF
<1>1. sec.page \in Nat /\ sec = [sec EXCEPT !.page = sec.page]
  BY SectionFields DEF Sections
<1>. QED BY <1>1, ClampedPage

\* A known offset names one of the pages laid out.
LEMMA OffsetPage ==
  ASSUME size \in PageSizes, NEW sec, NEW u \in MaybeUnit
  PROVE  /\ PageOfOffset(sec, u) \in Nat \cup {None}
         /\ PageOfOffset(sec, u) # None => PageOfOffset(sec, u) \in Pages
PROOF
<1>1. CASE u = None
  BY <1>1 DEF PageOfOffset
<1>2. CASE u \in Units
  <2>1. u \div size \in 0..(Total(size) - 1) /\ Total(size) \in 1..Length
    BY <1>2, TotalPages
  <2>2. u \div size \in Nat /\ u \div size \in Pages
    BY <2>1, ReaderAssumption DEF Pages
  <2>. QED BY <2>2 DEF PageOfOffset
<1>. QED BY <1>1, <1>2 DEF MaybeUnit

LEMMA ClearedMemory ==
  ASSUME NEW m \in Memories
  PROVE  Cleared(m) \in Memories
PROOF
<1>1. 0 \in Pages /\ None \in MaybeUnit
  BY ReaderAssumption DEF Pages, MaybeUnit
<1>. QED BY <1>1 DEF Memories, Cleared

LEMMA RepositionedExtends ==
  ASSUME size \in PageSizes, NEW sec \in Sections, Made(sec), NEW c \in Memories
  PROVE  /\ Extends(Repositioned(sec, c), sec)
         /\ Repositioned(sec, c).count = sec.count
         /\ Repositioned(sec, c).building = sec.building
         /\ Done(Repositioned(sec, c)) <=> Done(sec)
         /\ sec.page < sec.count => Repositioned(sec, c).page < sec.count
PROOF
<1>. DEFINE p == PageOfOffset(sec, c.offset)
            x == IF p # None THEN p
                 ELSE IF c.total \notin {0, sec.count}
                 THEN (sec.page * sec.count) \div c.total
                 ELSE sec.page
<1>1. /\ sec.count \in Nat /\ sec.page \in Nat /\ c.total \in Nat
      /\ c.offset \in MaybeUnit /\ sec.page \in Pages
  BY SectionFields, ReaderAssumption DEF Memories, Pages, Sections
<1>2. x \in Nat
  <2>1. p \in Nat \cup {None}
    BY <1>1, OffsetPage
  <2>2. ASSUME c.total # 0 PROVE (sec.page * sec.count) \div c.total \in Nat
    <3>1. sec.page * sec.count \in Nat /\ c.total \in Nat \ {0}
      BY <1>1, <2>2
    <3>. QED BY <3>1, Division
  <2>. QED BY <1>1, <2>1, <2>2
<1>3. CASE sec.building \/ spine # c.spine \/ (c.offset = None /\ c.total = 0)
  <2>1. Repositioned(sec, c) = sec
    BY <1>3 DEF Repositioned
  <2>2. Extends(sec, sec)
    BY <1>1 DEF Extends
  <2>. QED BY <2>1, <2>2
<1>4. CASE ~(sec.building \/ spine # c.spine \/ (c.offset = None /\ c.total = 0))
  <2>1. Repositioned(sec, c) = Clamped([sec EXCEPT !.page = x])
    BY <1>4 DEF Repositioned
  <2>2. PICK q \in Pages :
          /\ Clamped([sec EXCEPT !.page = x]) = [sec EXCEPT !.page = q]
          /\ sec.count > 0 => q < sec.count
    BY <1>2, ClampedPage
  <2>3. sec.page < sec.count => q < sec.count
    BY <1>1, <2>2
  <2>4. PICK new : new = [sec EXCEPT !.page = q]
    OBVIOUS
  <2>5. /\ Extends(new, sec) /\ new.page = q /\ new.count = sec.count
        /\ new.building = sec.building /\ (Done(new) <=> Done(sec))
    BY <2>4, MovedExtends
  <2>6. Repositioned(sec, c) = new
    BY <2>1, <2>2, <2>4
  <2>. QED BY <2>3, <2>5, <2>6
<1>. QED BY <1>3, <1>4

LEMMA BuiltPastExtends ==
  ASSUME size \in PageSizes, NEW sec \in Sections, Made(sec)
  PROVE  LET new == BuiltPast(sec, sec.page)
         IN /\ Extends(new, sec) /\ new.page = sec.page
            /\ Done(new) \/ new.page < new.count
            /\ new.building => ~Done(new)
PROOF
<1>1. /\ sec.count \in Nat /\ sec.page \in Nat /\ sec.laid \in Nat
      /\ sec.partial \in Nat
  BY SectionFields
<1>2. CASE Done(sec) \/ sec.page < sec.count
  <2>1. BuiltPast(sec, sec.page) = sec
    BY <1>2 DEF BuiltPast
  <2>2. Extends(sec, sec)
    BY <1>1 DEF Extends
  <2>. QED BY <1>2, <2>1, <2>2 DEF Done
<1>3. CASE ~Done(sec) /\ ~(sec.page < sec.count)
  <2>1. BuiltPast(sec, sec.page) = LaidTo(sec, sec.page + 1)
    BY <1>3 DEF BuiltPast
  <2>2. sec.laid <= sec.page + 1 /\ sec.page + 1 \in Nat
    BY <1>1, <1>3 DEF Made, Larger
  <2>3. PICK new : new = LaidTo(sec, sec.page + 1)
    OBVIOUS
  <2>4. /\ new \in Sections /\ Made(new)
        /\ new.ch = sec.ch /\ new.page = sec.page
        /\ new.laid = Smaller(sec.page + 1, Total(size))
        /\ new.count >= sec.count /\ new.count >= new.laid
        /\ new.building <=> sec.page + 1 < Total(size)
        /\ new.building <=> ~Done(new)
        /\ new.building => new.partial = sec.partial
    BY <1>3, <2>2, <2>3, Extended
  <2>5. new.building => new.page < new.count
    <3>1. Total(size) \in Nat /\ new.count \in Nat
      BY <2>4, SectionFields, TotalPages
    <3>. QED BY <1>1, <2>4, <3>1 DEF Smaller
  <2>6. Extends(new, sec)
    BY <1>3, <2>4 DEF Extends
  <2>. QED BY <2>1, <2>3, <2>4, <2>5, <2>6
<1>. QED BY <1>2, <1>3

LEMMA LaidToExtends ==
  ASSUME size \in PageSizes, NEW sec \in Sections, NEW n \in Nat,
         ~Done(sec), sec.laid <= n, Made(sec)
  PROVE  Extends(LaidTo(sec, n), sec)
PROOF
<1>1. PICK new : new = LaidTo(sec, n)
  OBVIOUS
<1>2. /\ new \in Sections /\ Made(new) /\ new.ch = sec.ch /\ new.count >= sec.count
      /\ new.building <=> ~Done(new)
      /\ new.building => new.partial = sec.partial
  BY <1>1, Extended
<1>. QED BY <1>1, <1>2 DEF Extends

\* Drawn: pages are laid out until the page to draw exists, or is the last.
LEMMA BuiltAndClamped ==
  ASSUME size \in PageSizes, NEW sec \in Sections, Made(sec),
         NEW past, past = BuiltPast(sec, sec.page),
         NEW new, new = IF past.building THEN past ELSE Clamped(past)
  PROVE  Extends(new, sec) /\ new.page < new.count /\ new.building = past.building
PROOF
<1>1. /\ Extends(past, sec) /\ past.page = sec.page
      /\ Done(past) \/ past.page < past.count
      /\ past.building => ~Done(past)
  BY BuiltPastExtends
<1>2. past \in Sections /\ Made(past)
  BY <1>1 DEF Extends
<1>3. CASE past.building
  BY <1>1, <1>3
<1>4. CASE ~past.building
  <2>1. past.count > 0
    BY <1>1, <1>2, SectionFields, TotalPages DEF Made
  <2>2. PICK p \in Pages :
          Clamped(past) = [past EXCEPT !.page = p] /\ (past.count > 0 => p < past.count)
    BY <1>2, ClampedSelf
  <2>3. /\ Extends([past EXCEPT !.page = p], past)
        /\ [past EXCEPT !.page = p].page = p
        /\ [past EXCEPT !.page = p].count = past.count
        /\ [past EXCEPT !.page = p].building = past.building
    BY <1>2, MovedExtends
  <2>4. new = [past EXCEPT !.page = p]
    BY <1>4, <2>2
  <2>5. Extends(new, past) /\ new.page < new.count /\ new.building = past.building
    BY <2>1, <2>2, <2>3, <2>4
  <2>. QED BY <1>1, <2>5, ExtendsTransitive
<1>. QED BY <1>3, <1>4

\* The target page, the anchor's page and the page of an offset are pages.
LEMMA JumpPages ==
  ASSUME size \in PageSizes, ReaderTypes
  PROVE  /\ Target \in Pages /\ Target \in Nat
         /\ AnchorPage # None => AnchorPage \in Pages /\ AnchorPage \in Nat
         /\ OffsetJump \in MaybeUnit /\ Needed \in Nat
PROOF
<1>1. Length \in Nat /\ Length > 0 /\ size \in Nat \ {0}
  BY ReaderAssumption
<1>2. /\ jump \in Jumps /\ nextPage \in Pages /\ cached \in Memories
      /\ jump.last \in BOOLEAN /\ jump.offset \in MaybeUnit
      /\ jump.percent \in MaybeUnit /\ cached.offset \in MaybeUnit
  BY DEF ReaderTypes, Jumps, Memories
<1>3. Target \in Pages /\ Target \in Nat
  BY <1>1, <1>2 DEF Target, Pages
<1>4. AnchorPage # None => AnchorPage \in Pages /\ AnchorPage \in Nat
  <2>1. SUFFICES ASSUME jump.anchor[1] = spine
                 PROVE  jump.anchor[2] \div size \in Pages
    BY <1>1 DEF AnchorPage, Pages
  <2>2. jump.anchor \in (0..(Chapters - 1)) \X Units
    BY <1>2, <2>1, ReaderAssumption DEF Jumps, Nowhere, None, ReaderTypes
  <2>3. jump.anchor[2] \in Units
    BY <2>2
  <2>4. jump.anchor[2] \div size \in 0..(Total(size) - 1) /\ Total(size) \in 1..Length
    BY <2>3, TotalPages
  <2>. QED BY <1>1, <2>4 DEF Pages
<1>5. OffsetJump \in MaybeUnit
  BY <1>2 DEF OffsetJump, MaybeUnit
<1>6. Needed \in Nat
  <2>1. OffsetJump # None => ((OffsetJump + size - 1) \div size) + 1 \in Nat
    <3>1. SUFFICES ASSUME OffsetJump \in Units
                   PROVE  (OffsetJump + size - 1) \div size \in Nat
      BY <1>5 DEF MaybeUnit
    <3>2. OffsetJump + size - 1 \in Nat
      BY <1>1, <3>1 DEF Units
    <3>. QED BY <1>1, <3>2, Division
  <2>2. AnchorPage # None => AnchorPage + 1 \in Nat
    BY <1>4
  <2>3. Target + 1 \in Nat
    BY <1>3
  <2>. QED BY <1>1, <2>1, <2>2, <2>3 DEF Needed
<1>. QED BY <1>3, <1>4, <1>5, <1>6

-----------------------------------------------------------------------------
(* Opening a section.                                                      *)

LEMMA LoadedFields ==
  ASSUME Storage, ReaderTypes, ~AtEnd
  PROVE  /\ Loaded \in Sections /\ spine \in 0..(Chapters - 1)
         /\ Loaded.ch = spine /\ Loaded.page = Target /\ Loaded.laid = 0
         /\ Loaded.count = (IF Hit THEN cache[spine].count ELSE 0)
         /\ Loaded.partial = (IF Hit /\ ~cache[spine].complete
                                THEN cache[spine].count ELSE 0)
         /\ Loaded.building = FALSE
         /\ Hit => cache[spine] \in LaidFiles /\ Possible(cache[spine])
PROOF
<1>1. spine \in 0..(Chapters - 1) /\ Length \in Nat
  BY ReaderAssumption DEF ReaderTypes, AtEnd
<1>2. Hit => cache[spine] \in LaidFiles /\ Possible(cache[spine])
  <2>1. Hit => cache[spine] # NoFile
    BY ReaderAssumption DEF Hit, NoFile, None, Storage
  <2>. QED BY <1>1, <2>1 DEF Storage
<1>3. Hit => cache[spine].count \in Pages
  BY <1>1, <1>2 DEF LaidFiles, Pages
<1>4. 0 \in Pages /\ Target \in Pages
  BY <1>1, JumpPages DEF Pages, Storage
<1>5. PICK k : k = IF Hit THEN cache[spine].count ELSE 0
  OBVIOUS
<1>6. PICK q : q = IF Hit /\ ~cache[spine].complete THEN cache[spine].count ELSE 0
  OBVIOUS
<1>7. k \in Pages /\ q \in Pages
  BY <1>3, <1>4, <1>5, <1>6
<1>8. Loaded = [ch |-> spine, page |-> Target, count |-> k, laid |-> 0,
                building |-> FALSE, partial |-> q, stuck |-> FALSE]
  BY <1>5, <1>6 DEF Loaded
<1>9. Loaded \in Sections
  BY <1>1, <1>4, <1>7, <1>8 DEF Sections
<1>. QED BY <1>1, <1>2, <1>5, <1>6, <1>8, <1>9

\* The section whose build is started, from a partial file or from nothing.
LEMMA StartedFresh ==
  ASSUME Storage, ReaderTypes, ~AtEnd, ~(Hit /\ cache[spine].complete)
  PROVE  LET start == [Loaded EXCEPT !.building = TRUE]
         IN Fresh(start) /\ ~Done(start) /\ start.laid = 0 /\ start.ch = spine
PROOF
<1>1. PICK start : start = [Loaded EXCEPT !.building = TRUE]
  OBVIOUS
<1>2. /\ start \in Sections /\ start.ch = spine /\ start.laid = 0
      /\ start.count = Loaded.count /\ start.partial = Loaded.partial
      /\ start.building = TRUE
  BY <1>1, LoadedFields DEF Sections
<1>3. ~Done(start)
  BY <1>2 DEF Done
<1>4. Total(size) \in 1..Length /\ Length \in Nat
  BY TotalPages, ReaderAssumption DEF Storage
<1>5. CASE Hit
  <2>1. /\ cache[spine].size = size /\ cache[spine].count \in Nat
        /\ cache[spine].count >= 1 /\ cache[spine].count <= Total(size)
        /\ cache[spine].complete = FALSE
        /\ start.count = cache[spine].count /\ start.partial = cache[spine].count
    <3>1. /\ cache[spine] \in LaidFiles /\ Possible(cache[spine])
          /\ ~cache[spine].complete /\ cache[spine].size = size
      BY <1>5, LoadedFields DEF Hit
    <3>2. cache[spine].complete = FALSE
      BY <3>1, FileFields
    <3>. QED BY <1>2, <1>5, <3>1, <3>2, LoadedFields, FileFields DEF Possible
  <2>2. cache[spine] = [size |-> size, count |-> start.partial, complete |-> FALSE]
    BY <1>5, <2>1, LoadedFields, FileFields
  <2>3. Made(start)
    BY <1>2, <1>3, <1>4, <2>1 DEF Made, Larger
  <2>. QED BY <1>1, <1>2, <1>3, <2>1, <2>2, <2>3 DEF Fresh
<1>6. CASE ~Hit
  <2>1. start.count = 0 /\ start.partial = 0 /\ cache[spine].size # size
    BY <1>2, <1>6, LoadedFields DEF Hit
  <2>2. Made(start)
    BY <1>2, <1>3, <1>4, <2>1 DEF Made, Larger
  <2>. QED BY <1>1, <1>2, <1>3, <2>1, <2>2 DEF Fresh
<1>. QED BY <1>5, <1>6

\* A file that needs no build is loaded as it is.
LEMMA LoadedFresh ==
  ASSUME Storage, ReaderTypes, ~AtEnd, (Hit /\ cache[spine].complete) \/ Deferred
  PROVE  Fresh(Loaded) /\ Loaded.count > 0
PROOF
<1>1. Hit
  BY LoadedFields DEF Deferred
<1>2. /\ cache[spine].size = size /\ cache[spine].count \in Nat
      /\ cache[spine].count >= 1 /\ Possible(cache[spine])
      /\ cache[spine].complete \in BOOLEAN
      /\ cache[spine] = [size |-> size, count |-> cache[spine].count,
                         complete |-> cache[spine].complete]
  BY <1>1, LoadedFields, FileFields DEF Hit
<1>3. Total(size) \in 1..Length /\ Length \in Nat
  BY TotalPages, ReaderAssumption DEF Storage
<1>4. /\ Loaded \in Sections /\ Loaded.ch = spine /\ Loaded.laid = 0
      /\ Loaded.count = cache[spine].count /\ Loaded.building = FALSE
      /\ Loaded.partial = (IF ~cache[spine].complete THEN cache[spine].count ELSE 0)
  BY <1>1, LoadedFields
<1>5. CASE cache[spine].complete
  <2>1. Done(Loaded) /\ cache[spine].count = Total(size)
    BY <1>2, <1>4, <1>5 DEF Done, Possible
  <2>2. Made(Loaded)
    BY <1>2, <1>3, <1>4, <1>5, <2>1 DEF Made
  <2>. QED BY <1>2, <1>4, <2>1, <2>2 DEF Fresh
<1>6. CASE ~cache[spine].complete
  <2>1. ~Done(Loaded) /\ cache[spine].count <= Total(size)
    BY <1>2, <1>4, <1>6 DEF Done, Possible
  <2>2. Made(Loaded)
    BY <1>2, <1>3, <1>4, <1>6, <2>1 DEF Made, Larger
  <2>3. cache[spine].complete = FALSE
    BY <1>2, <1>6
  <2>4. cache[spine] = [size |-> size, count |-> Loaded.partial, complete |-> FALSE]
    BY <1>2, <1>4, <1>6, <2>3
  <2>. QED BY <1>2, <1>4, <1>6, <2>1, <2>2, <2>4 DEF Fresh
<1>. QED BY <1>5, <1>6

LEMMA FreshSectionIsFresh ==
  ASSUME Storage, ReaderTypes, ~AtEnd
  PROVE  /\ Fresh(FreshSection) /\ FreshSection.ch = spine
         /\ jump.percent # None => FreshSection.count > 0
PROOF
<1>1. CASE (Hit /\ cache[spine].complete) \/ Deferred
  BY <1>1, LoadedFresh, LoadedFields DEF FreshSection
<1>2. CASE ~((Hit /\ cache[spine].complete) \/ Deferred)
  <2>1. PICK start : start = [Loaded EXCEPT !.building = TRUE]
    OBVIOUS
  <2>2. Fresh(start) /\ ~Done(start) /\ start.laid = 0 /\ start.ch = spine
    BY <1>2, <2>1, StartedFresh
  <2>3. start \in Sections /\ Made(start) /\ Needed \in Nat /\ size \in PageSizes
    BY <2>2, JumpPages DEF Fresh, Storage
  <2>4. FreshSection = LaidTo(start, Needed)
    BY <1>2, <2>1 DEF FreshSection
  <2>5. start.laid <= Needed
    BY <2>2, <2>3
  <2>6. Extends(FreshSection, start)
    BY <2>2, <2>3, <2>4, <2>5, LaidToExtends
  <2>7. Fresh(FreshSection) /\ FreshSection.ch = spine
    BY <2>2, <2>6, FreshExtends DEF Extends
  <2>8. ASSUME jump.percent # None PROVE FreshSection.count > 0
    <3>1. Needed = Length
      BY <2>8 DEF Needed
    <3>2. /\ FreshSection.laid = Smaller(Length, Total(size))
          /\ FreshSection.count >= FreshSection.laid
      BY <2>2, <2>3, <2>4, <2>5, <3>1, Extended
    <3>3. Total(size) \in 1..Length /\ Length \in Nat /\ FreshSection \in Sections
      BY <2>3, <2>7, TotalPages, ReaderAssumption DEF Fresh
    <3>. QED BY <3>2, <3>3, SectionFields DEF Smaller
  <2>. QED BY <2>7, <2>8
<1>. QED BY <1>1, <1>2

LEMMA PlacedIsFresh ==
  ASSUME Storage, ReaderTypes, ~AtEnd
  PROVE  Fresh(Placed) /\ Placed.ch = spine
PROOF
<1>1. PICK sec : sec = FreshSection
  OBVIOUS
<1>2. /\ Fresh(sec) /\ sec \in Sections /\ Made(sec) /\ sec.ch = spine
      /\ jump.percent # None => sec.count > 0
  BY <1>1, FreshSectionIsFresh DEF Fresh
<1>3. sec.count \in Nat /\ sec.count <= Length /\ Length \in Nat \ {0}
  BY <1>2, SectionFields, ReaderAssumption
<1>4. PICK p : p = PageOfOffset(sec, OffsetJump)
  OBVIOUS
<1>5. p # None => p \in Pages
  BY <1>4, JumpPages, OffsetPage DEF Storage
<1>6. PICK q : q = Smaller((jump.percent * sec.count) \div Length, sec.count - 1)
  OBVIOUS
<1>7. jump.percent # None => q \in Pages
  <2>1. SUFFICES ASSUME jump.percent \in Units PROVE q \in Pages
    BY DEF ReaderTypes, Jumps, MaybeUnit
  <2>2. jump.percent \in Nat /\ jump.percent # None /\ sec.count > 0
    BY <1>2, <1>3, <2>1 DEF Units, None
  <2>3. jump.percent * sec.count \in Nat
    BY <1>3, <2>2
  <2>4. (jump.percent * sec.count) \div Length \in Nat
    BY <1>3, <2>3, Division
  <2>. QED BY <1>3, <1>6, <2>2, <2>4 DEF Smaller, Pages
<1>8. PICK page : page = IF jump.percent # None THEN q
                         ELSE IF AnchorPage # None THEN AnchorPage
                         ELSE IF p # None THEN p ELSE Target
  OBVIOUS
<1>9. page \in Pages
  BY <1>5, <1>7, <1>8, JumpPages DEF Storage
<1>10. Placed = [sec EXCEPT !.page = page]
  BY <1>1, <1>4, <1>6, <1>8 DEF Placed
<1>11. Extends(Placed, sec)
  BY <1>2, <1>9, <1>10, MovedExtends
<1>. QED BY <1>2, <1>11, FreshExtends DEF Extends

-----------------------------------------------------------------------------
(* Every step closes a section, opens one, or adds pages to the open one.  *)

StorageStep == size' \in PageSizes /\ (Released \/ Opened \/ Grown)

LEMMA StorageKept ==
  ASSUME Storage, StorageStep
  PROVE  Storage'
BY ReleasedStorage, OpenedStorage, GrownStorage DEF StorageStep

LEMMA PromiseKept ==
  ASSUME Storage, StorageStep, NEW c \in 0..(Chapters - 1)
  PROVE  [Promise(c)!Next]_(Promise(c)!vars)
BY ReleasedPromise, OpenedPromise, GrownPromise DEF StorageStep

LEMMA UnchangedStorage ==
  ASSUME Storage, UNCHANGED <<size, section, cache>>
  PROVE  StorageStep
PROOF
<1>1. CASE IsOpen
  <2>1. section \in Sections /\ size \in PageSizes
    BY <1>1 DEF Storage, IsOpen
  <2>2. Grown
    BY <1>1, <2>1, KeptGrows DEF Done
  <2>. QED BY <2>1, <2>2 DEF StorageStep
<1>2. CASE ~IsOpen
  BY <1>2, IdleReleases DEF StorageStep, IsOpen, Storage
<1>. QED BY <1>1, <1>2

LEMMA DropStorage ==
  ASSUME Storage, DropSection, size' \in PageSizes
  PROVE  StorageStep
BY DropReleases DEF DropSection, StorageStep

LEMMA MoveStorage ==
  ASSUME Storage, IsOpen, NEW p \in Pages, MoveTo(p), size' = size
  PROVE  StorageStep
PROOF
<1>1. section \in Sections /\ Made(section) /\ size' \in PageSizes
  BY DEF Storage, IsOpen
<1>2. section' = [section EXCEPT !.page = p] /\ UNCHANGED <<size, cache>>
  BY DEF MoveTo
<1>3. /\ section' \in Sections /\ section'.ch = section.ch
      /\ section'.count = section.count /\ section'.partial = section.partial
      /\ section'.laid = section.laid /\ section'.building = section.building
      /\ Done(section') <=> Done(section)
  BY <1>1, <1>2, MovedExtends
<1>. QED BY <1>1, <1>2, <1>3, KeptGrows DEF StorageStep

\* The target of a turn back, of a skip, and of a bookmark in the open chapter.
LEMMA TurnedPages ==
  ASSUME Storage, IsOpen
  PROVE  /\ section \in Sections /\ section.page \in Nat /\ section.page \in Pages
         /\ section.page < Length => section.page + 1 \in Pages
         /\ section.page > 0 => section.page - 1 \in Pages
         /\ 0 \in Pages
         /\ \A u \in Units, s \in PageSizes : u \div s \in Pages
         /\ \A u \in Units : PageOfOffset(section, u) # None =>
                               PageOfOffset(section, u) \in Pages
PROOF
<1>1. /\ section \in Sections /\ section.page \in Nat /\ section.page <= Length
      /\ Length \in Nat /\ size \in PageSizes
  BY SectionFields, ReaderAssumption DEF Storage, IsOpen
<1>2. ASSUME NEW u \in Units, NEW s \in PageSizes PROVE u \div s \in Pages
  <2>1. u \div s \in 0..(Total(s) - 1) /\ Total(s) \in 1..Length
    BY TotalPages
  <2>. QED BY <1>1, <2>1 DEF Pages
<1>3. \A u \in Units : PageOfOffset(section, u) # None =>
                         PageOfOffset(section, u) \in Pages
  BY <1>1, OffsetPage DEF MaybeUnit
<1>. QED BY <1>1, <1>2, <1>3 DEF Pages

LEMMA MarkPlaces ==
  ASSUME NEW mark \in Marks
  PROVE  mark[1] \in 0..(Chapters - 1) /\ mark[2] \in Units
BY ReaderAssumption DEF Units

\* The section that a render leaves.
LEMMA DrawStorage ==
  ASSUME Storage, ReaderTypes, RenderDraw
  PROVE  /\ StorageStep /\ section' \in Sections /\ section'.page < section'.count
         /\ section'.ch = (IF IsOpen THEN section.ch ELSE spine)
         /\ cached' \in Memories
PROOF
<1>1. size \in PageSizes /\ ~AtEnd /\ size' = size
  BY DEF RenderDraw, Storage
<1>2. PICK sec : sec = IF IsOpen THEN section ELSE Placed
  OBVIOUS
<1>3. /\ sec \in Sections /\ Made(sec) /\ (~IsOpen => Fresh(sec))
      /\ sec.ch = (IF IsOpen THEN section.ch ELSE spine)
  BY <1>1, <1>2, PlacedIsFresh DEF Fresh, Storage, IsOpen
<1>4. PICK past : past = BuiltPast(sec, sec.page)
  OBVIOUS
<1>5. PICK drawn : drawn = IF past.building THEN past ELSE Clamped(past)
  OBVIOUS
<1>6. drawn = Drawn
  BY <1>2, <1>4, <1>5 DEF Drawn
<1>7. Extends(drawn, sec) /\ drawn.page < drawn.count
  BY <1>1, <1>3, <1>4, <1>5, BuiltAndClamped
<1>8. PICK before : before = IF ~IsOpen /\ Used THEN Cleared(cached) ELSE cached
  OBVIOUS
<1>9. cached \in Memories
  BY DEF ReaderTypes
<1>10. \A m \in Memories : Cleared(m) \in Memories
  BY ClearedMemory
<1>11. before \in Memories
  BY <1>8, <1>9, <1>10
<1>12. PICK now : now = Repositioned(drawn, before)
  OBVIOUS
<1>13. drawn \in Sections /\ Made(drawn)
  BY <1>7 DEF Extends
<1>14. Extends(now, drawn) /\ now.page < now.count
  <2>1. /\ Extends(now, drawn) /\ now.count = drawn.count
        /\ drawn.page < drawn.count => now.page < drawn.count
    BY <1>1, <1>11, <1>12, <1>13, RepositionedExtends
  <2>. QED BY <1>7, <2>1
<1>15. Extends(now, sec)
  BY <1>3, <1>7, <1>14, ExtendsTransitive
<1>16. /\ section' = now /\ cache' = Committed(now)
       /\ cached' = IF now.building THEN before ELSE Cleared(before)
  BY <1>6, <1>8, <1>12 DEF RenderDraw
<1>17. cached' \in Memories
  BY <1>10, <1>11, <1>16
<1>18. CASE IsOpen
  <2>1. Grown
    BY <1>1, <1>2, <1>15, <1>16, <1>18 DEF Grown
  <2>. QED BY <1>1, <1>3, <1>14, <1>15, <1>16, <1>17, <2>1 DEF StorageStep, Extends
<1>19. CASE ~IsOpen
  <2>1. Fresh(now)
    BY <1>3, <1>15, <1>19, FreshExtends
  <2>2. Opened
    BY <1>1, <1>16, <1>19, <2>1 DEF Opened
  <2>. QED BY <1>1, <1>3, <1>14, <1>15, <1>16, <1>17, <2>2 DEF StorageStep, Extends
<1>. QED BY <1>18, <1>19

LEMMA TickStorage ==
  ASSUME Storage, ReaderTypes, BuildTick
  PROVE  /\ StorageStep /\ section' \in Sections
         /\ section'.ch = section.ch /\ cached' \in Memories
         /\ (section'.page = section.page) \/ dirty'
PROOF
<1>1. /\ size \in PageSizes /\ size' = size /\ IsOpen
      /\ section \in Sections /\ Made(section) /\ section.building
  BY DEF BuildTick, Storage, IsOpen
<1>2. ~Done(section) /\ section.laid \in Nat
  BY <1>1, SectionFields DEF Done
<1>3. PICK more : more = LaidTo(section, section.laid + 1)
  OBVIOUS
<1>4. Extends(more, section) /\ more.page = section.page
  BY <1>1, <1>2, <1>3, LaidToExtends, Extended
<1>5. more \in Sections /\ Made(more)
  BY <1>4 DEF Extends
<1>6. PICK now : now = Repositioned(more, cached)
  OBVIOUS
<1>7. cached \in Memories
  BY DEF ReaderTypes
<1>8. /\ Extends(now, more) /\ now.count = more.count
      /\ Done(now) <=> Done(more)
  BY <1>1, <1>5, <1>6, <1>7, RepositionedExtends
<1>9. Extends(now, section)
  BY <1>1, <1>4, <1>8, ExtendsTransitive
<1>10. /\ section' = now /\ cache' = Committed(more)
       /\ cached' = IF more.building THEN cached ELSE Cleared(cached)
       /\ dirty' = (dirty \/ now.page # more.page)
  BY <1>3, <1>6 DEF BuildTick
<1>11. Committed(more) = Committed(now)
  BY <1>8 DEF Committed, Extends
<1>12. Grown
  BY <1>1, <1>9, <1>10, <1>11 DEF Grown
<1>13. cached' \in Memories
  BY <1>7, <1>10, ClearedMemory
<1>. QED BY <1>1, <1>4, <1>9, <1>10, <1>12, <1>13 DEF StorageStep, Extends

\* Every step but those of RenderDraw and BuildTick, by what it does to the section.
LEMMA StepStorage ==
  ASSUME CoreInv, [Next]_vars
  PROVE  StorageStep
PROOF
<1>1. Storage /\ ReaderTypes /\ size \in PageSizes
  BY DEF CoreInv, Storage
<1>2. ~open => section = NoSection
  BY DEF CoreInv, ClosedInv
<1>3. ASSUME UNCHANGED <<size, section, cache>> PROVE StorageStep
  BY <1>1, <1>3, UnchangedStorage
<1>4. ASSUME DropSection, size' \in PageSizes PROVE StorageStep
  BY <1>1, <1>4, DropStorage
<1>5. ASSUME section' = NoSection, cache' = Suspended, size' = size PROVE StorageStep
  BY <1>1, <1>5, DropReleases DEF StorageStep
<1>6. ASSUME IsOpen, NEW p \in Pages, MoveTo(p), size' = size PROVE StorageStep
  BY <1>1, <1>6, MoveStorage
<1>7. CASE OpenBook \/ RenderEnd \/ RenderSave \/ Redraw \/ FollowDeadLink
           \/ EndOfBookReturn \/ UNCHANGED vars
  BY <1>3, <1>7 DEF OpenBook, RenderEnd, RenderSave, Redraw, FollowDeadLink,
                    EndOfBookReturn, vars, disk, place
<1>8. CASE Exit \/ SyncLeave
  BY <1>5, <1>8 DEF Exit, SyncLeave, Forget
<1>9. CASE DeleteCache
  <2>1. Released
    BY <1>1, <1>9, EraseReleases DEF DeleteCache, Forget
  <2>. QED BY <1>1, <1>9, <2>1 DEF DeleteCache, StorageStep
<1>10. CASE Crash
  <2>1. Released
    BY <1>1, <1>10, IdleReleases DEF Crash, Forget, disk
  <2>. QED BY <1>1, <1>10, <2>1 DEF Crash, StorageStep
<1>11. CASE ChangeSettings
  <2>1. section' = NoSection /\ cache' = cache /\ size' \in PageSizes
    BY <1>2, <1>11 DEF ChangeSettings, place, disk
  <2>. QED BY <1>1, <2>1, IdleReleases DEF StorageStep
<1>12. CASE TurnForward
  <2>1. size' = size /\ IsOpen
    BY <1>12 DEF TurnForward, Turning
  <2>2. CASE section.page < Length /\ MoveTo(section.page + 1)
    BY <1>1, <1>6, <2>1, <2>2, TurnedPages
  <2>3. CASE \E c, page, j : GoTo(c, page, j)
    BY <1>1, <1>4, <2>1, <2>3 DEF GoTo
  <2>4. CASE UNCHANGED <<section, cache>>
    BY <1>3, <2>1, <2>4
  <2>. QED BY <1>12, <2>2, <2>3, <2>4 DEF TurnForward
<1>13. CASE TurnBack
  <2>1. size' = size /\ IsOpen
    BY <1>13 DEF TurnBack, Turning
  <2>2. CASE section.page > 0 /\ MoveTo(section.page - 1)
    BY <1>1, <1>6, <2>1, <2>2, TurnedPages
  <2>3. CASE \E c, page, j : GoTo(c, page, j)
    BY <1>1, <1>4, <2>1, <2>3 DEF GoTo
  <2>. QED BY <1>13, <2>2, <2>3 DEF TurnBack
<1>14. CASE Skip
  <2>1. size' = size /\ IsOpen
    BY <1>14 DEF Skip
  <2>2. CASE MoveTo(0)
    BY <1>1, <1>6, <2>1, <2>2, TurnedPages
  <2>3. CASE \E c, page, j : GoTo(c, page, j)
    BY <1>1, <1>4, <2>1, <2>3 DEF GoTo
  <2>. QED BY <1>14, <2>2, <2>3 DEF Skip
<1>15. CASE \/ \E c \in 0..(Chapters - 1) : GoToSpine(c)
            \/ \E mark \in Marks : \/ SelectChapter(mark[1], mark[2])
                                   \/ JumpToPercent(mark[1], mark[2])
                                   \/ FollowLink(mark[1], mark[2])
            \/ ReturnFromNote
  <2>1. DropSection /\ size' = size
    BY <1>15 DEF GoToSpine, SelectChapter, JumpToPercent, FollowLink, ReturnFromNote,
                 GoTo, Jumping
  <2>. QED BY <1>1, <1>4, <2>1
<1>16. ASSUME NEW mark \in Marks, NEW s \in PageSizes, GoToBookmark(mark[1], mark[2], s)
       PROVE  StorageStep
  <2>1. size' = size
    BY <1>16 DEF GoToBookmark, Jumping
  <2>2. CASE IsOpen /\ spine = mark[1]
    <3>1. PICK p : p = IF PageOfOffset(section, mark[2]) # None
                         THEN PageOfOffset(section, mark[2]) ELSE mark[2] \div s
      OBVIOUS
    <3>2. MoveTo(p)
      BY <1>16, <2>2, <3>1 DEF GoToBookmark
    <3>3. p \in Pages
      BY <1>1, <2>2, <3>1, TurnedPages, MarkPlaces
    <3>. QED BY <1>6, <2>1, <2>2, <3>2, <3>3
  <2>3. CASE ~(IsOpen /\ spine = mark[1])
    <3>1. DropSection
      BY <1>16, <2>3 DEF GoToBookmark, GoTo
    <3>. QED BY <1>1, <1>4, <2>1, <3>1
  <2>. QED BY <2>2, <2>3
<1>17. ASSUME NEW s \in PageSizes, Reflow(s) PROVE StorageStep
  BY <1>4, <1>17 DEF Reflow
<1>18. CASE ExtendStart
  <2>1. /\ IsOpen /\ section \in Sections /\ Made(section)
        /\ ~section.building /\ section.partial > 0
        /\ UNCHANGED <<size, cache>>
    BY <1>1, <1>18 DEF ExtendStart, ExtendDue, Storage, IsOpen, disk
  <2>2. ~Done(section)
    BY <2>1, SectionFields DEF Done
  <2>3. section.count = section.partial
    BY <2>1, <2>2, SectionFields DEF Made, Larger
  <2>4. CASE section' = [section EXCEPT !.building = TRUE, !.laid = 0]
    <3>1. 0 \in Pages
      BY ReaderAssumption DEF Pages
    <3>2. /\ section' \in Sections /\ section'.ch = section.ch
          /\ section'.count = section.count /\ section'.partial = section.partial
          /\ section'.laid = 0 /\ section'.building = TRUE
      BY <2>1, <2>4, <3>1 DEF Sections
    <3>3. ~Done(section')
      BY <3>2 DEF Done
    <3>4. Grown
      BY <1>1, <2>1, <2>2, <2>3, <3>2, <3>3, KeptGrows
    <3>. QED BY <1>1, <2>1, <3>4 DEF StorageStep
  <2>5. CASE section' = [section EXCEPT !.stuck = TRUE]
    <3>1. /\ section' \in Sections /\ section'.ch = section.ch
          /\ section'.count = section.count /\ section'.partial = section.partial
          /\ section'.laid = section.laid /\ section'.building = section.building
      BY <2>1, <2>5 DEF Sections
    <3>2. Done(section') <=> Done(section)
      BY <3>1 DEF Done
    <3>3. Grown
      BY <1>1, <2>1, <3>1, <3>2, KeptGrows
    <3>. QED BY <1>1, <2>1, <3>3 DEF StorageStep
  <2>. QED BY <1>18, <2>4, <2>5 DEF ExtendStart
<1>19. CASE BuildTick
  BY <1>1, <1>19, TickStorage
<1>20. CASE SectionFails
  <2>1. /\ section' = NoSection /\ cache' = [cache EXCEPT ![section.ch] = NoFile]
        /\ section.ch \in 0..(Chapters - 1) /\ size' = size
    BY <1>1, <1>20, SectionFields DEF SectionFails, Storage, IsOpen
  <2>. QED BY <1>1, <2>1, LossReleases DEF StorageStep
<1>21. CASE RenderDraw
  BY <1>1, <1>21, DrawStorage
<1>22. CASE RenderFails
  <2>1. section' = NoSection /\ size' = size /\ spine \in 0..(Chapters - 1)
    BY <1>1, <1>22, LoadedFields DEF RenderFails
  <2>2. cache' = cache \/ cache' = [cache EXCEPT ![spine] = NoFile]
    BY <1>22 DEF RenderFails
  <2>. QED BY <1>1, <2>1, <2>2, IdleReleases, LossReleases DEF StorageStep
<1>. QED
  BY <1>7, <1>8, <1>9, <1>10, <1>11, <1>12, <1>13, <1>14, <1>15, <1>16, <1>17,
     <1>18, <1>19, <1>20, <1>21, <1>22
     DEF Next, Book, Turn, Jump, Layout, Render

-----------------------------------------------------------------------------
(* The position, the file, and what was promised keep their types.         *)

LEMMA ChapterPlaces ==
  /\ \A c \in 0..Chapters : Chapter(c) \in SUBSET Places
  /\ \A c \in 0..Chapters, u \in Units : {<<c, u>>} \in SUBSET Places
  /\ 0 \in Units /\ Length - 1 \in Units
BY ReaderAssumption DEF Chapter, Places, Units

LEMMA PageStartPlaces ==
  ASSUME size \in PageSizes, NEW c \in 0..Chapters, NEW p \in Int, p >= 0
  PROVE  PageStart(c, p) \in SUBSET Places
PROOF
<1>1. p * size \in Nat /\ Length - 1 \in Nat /\ Length \in Nat
  BY ReaderAssumption
<1>2. Smaller(p * size, Length - 1) \in Units
  BY <1>1 DEF Smaller, Units
<1>. QED BY <1>2 DEF PageStart, Places

\* A page that is laid out starts at a unit of the chapter.
LEMMA PageOffset ==
  ASSUME size \in PageSizes, NEW sec \in Sections, Made(sec), NEW p \in Nat,
         p < sec.count
  PROVE  p * size \in Units
PROOF
<1>1. sec.count <= Total(size)
  <2>1. Total(size) \in Nat /\ sec.count \in Nat /\ sec.laid \in Nat
        /\ sec.partial \in Nat
    BY SectionFields, TotalPages
  <2>. QED BY <2>1 DEF Made, Larger
<1>2. p < Total(size)
  BY <1>1, SectionFields, TotalPages
<1>. QED BY <1>2, TotalPages

LEMMA ProgressRecord ==
  ASSUME Storage, ReaderTypes, NEW c \in 0..Chapters, NEW p \in Pages, NEW t \in Pages
  PROVE  Progress(c, p, t) \in Records
PROOF
<1>1. p \in Nat /\ shownOffset \in MaybeUnit /\ None \in MaybeUnit
  BY ReaderAssumption DEF Pages, ReaderTypes, MaybeUnit
<1>2. IsOpen /\ p < section.count => OffsetOfPage(section, p) \in MaybeUnit
  <2>1. SUFFICES ASSUME IsOpen, p < section.count PROVE p * size \in Units
    BY DEF OffsetOfPage, MaybeUnit
  <2>. QED BY <1>1, <2>1, PageOffset DEF Storage, IsOpen
<1>3. PICK u : u = IF IsOpen /\ c = spine /\ p < section.count
                     THEN IF p = section.page THEN shownOffset ELSE OffsetOfPage(section, p)
                     ELSE None
  OBVIOUS
<1>4. u \in MaybeUnit
  BY <1>1, <1>2, <1>3
<1>. QED BY <1>3, <1>4 DEF Progress, Records

LEMMA NoteFields ==
  ASSUME ReaderTypes, NEW i \in DOMAIN notes
  PROVE  /\ notes[i].spine \in 0..Chapters /\ notes[i].page \in Pages
         /\ notes[i].at \in SUBSET Places
PROOF
<1>1. notes[i] \in Notes
  BY DEF ReaderTypes
<1>. QED BY <1>1 DEF Notes

\* The note that was followed first, and the one that was followed last.
LEMMA NoteEnds ==
  ASSUME ReaderTypes, notes # <<>>
  PROVE  /\ 1 \in DOMAIN notes /\ Len(notes) \in DOMAIN notes
         /\ SubSeq(notes, 1, Len(notes) - 1) \in Seq(Notes)
BY DEF ReaderTypes

LEMMA JumpTypes ==
  ASSUME ReaderTypes
  PROVE  /\ jump \in Jumps /\ NoJump \in Jumps
         /\ \A b \in BOOLEAN : [jump EXCEPT !.last = b] \in Jumps
         /\ \A u \in Units : /\ [jump EXCEPT !.offset = u] \in Jumps
                             /\ [jump EXCEPT !.percent = u] \in Jumps
         /\ \A c \in 0..(Chapters - 1), u \in Units :
              [jump EXCEPT !.anchor = <<c, u>>] \in Jumps
PROOF
<1>1. None \in MaybeUnit /\ \A u \in Units : u \in MaybeUnit
  BY DEF MaybeUnit
<1>. QED BY <1>1 DEF ReaderTypes, Jumps, NoJump, Nowhere

\* What Forget leaves has the types of a reader that has just started.
LEMMA ForgetTypes ==
  ASSUME Forget, file' \in Records \cup {NoProgress},
         goal' \in SUBSET Places, kept' \in SUBSET Places
  PROVE  ReaderTypes'
PROOF
<1>1. 0 \in Pages /\ 0 \in 0..Chapters /\ None \in MaybeUnit
  BY ReaderAssumption DEF Pages, MaybeUnit
<1>2. NoJump \in Jumps /\ [spine |-> 0, total |-> 0, offset |-> None] \in Memories
  BY <1>1 DEF Jumps, NoJump, Memories
<1>3. <<>> \in Seq(Notes)
  OBVIOUS
<1>4. Pages' = Pages /\ MaybeUnit' = MaybeUnit /\ Jumps' = Jumps
      /\ Memories' = Memories /\ Records' = Records /\ NoProgress' = NoProgress
      /\ Places' = Places /\ Notes' = Notes
  OBVIOUS
<1>. QED BY <1>1, <1>2, <1>3, <1>4 DEF Forget, ReaderTypes

LEMMA StillKeptPlaces ==
  ASSUME ReaderTypes
  PROVE  StillKept \in SUBSET Places
PROOF
<1>1. file # NoProgress => file.spine \in 0..Chapters
  BY DEF ReaderTypes, Records
<1>. QED BY <1>1, ChapterPlaces DEF ReaderTypes, StillKept

LEMMA BookTypes ==
  ASSUME CoreInv, Book
  PROVE  ReaderTypes'
PROOF
<1>1. Storage /\ ReaderTypes
  BY DEF CoreInv
<1>2. 0 \in Pages /\ 0 \in 0..Chapters /\ None \in MaybeUnit /\ Total(size) \in Pages
  BY <1>1, TotalPages, ReaderAssumption DEF Pages, MaybeUnit, Storage
<1>3. notes # <<>> => Origin \in Records
  BY <1>1, <1>2, NoteEnds, NoteFields, ProgressRecord DEF Origin
<1>4. CASE OpenBook
  <2>1. file # NoProgress =>
          /\ file.spine \in 0..Chapters /\ file.page \in Pages /\ file.total \in Pages
          /\ file.offset \in MaybeUnit
    BY <1>1 DEF ReaderTypes, Records
  <2>2. file = NoProgress => file.page = 0 /\ file.total = 0 /\ file.offset = None
    BY DEF NoProgress
  <2>3. spine' \in 0..Chapters
    BY <1>2, <1>4, <2>1, ReaderAssumption DEF OpenBook
  <2>4. cached' \in Memories
    BY <1>2, <1>4, <2>1, <2>2 DEF OpenBook, Memories
  <2>5. nextPage' \in Pages
    BY <1>2, <1>4, <2>1, <2>2 DEF OpenBook
  <2>. QED
    BY <1>1, <1>4, <2>3, <2>4, <2>5 DEF OpenBook, ReaderTypes, display, disk, promise
<1>5. CASE Exit
  <2>1. file' \in Records \cup {NoProgress}
    BY <1>1, <1>3, <1>5 DEF Exit, ReaderTypes
  <2>2. notes # <<>> => /\ notes[1].at \in SUBSET Places
                        /\ Chapter(notes[1].spine) \in SUBSET Places
    BY <1>1, NoteEnds, NoteFields, ChapterPlaces
  <2>3. kept \in SUBSET Places
    BY <1>1 DEF ReaderTypes
  <2>4. goal' \in SUBSET Places /\ kept' = goal'
    <3>1. CASE notes = <<>> \/ (~inNote /\ ~dirty)
      BY <1>5, <2>3, <3>1 DEF Exit
    <3>2. CASE notes # <<>> /\ dirty
      BY <1>5, <2>2, <2>3, <3>2 DEF Exit
    <3>3. CASE notes # <<>> /\ inNote /\ ~dirty
      BY <1>5, <2>2, <3>3 DEF Exit
    <3>. QED BY <3>1, <3>2, <3>3
  <2>. QED BY <1>5, <2>1, <2>4, ForgetTypes DEF Exit
<1>6. CASE SyncLeave
  <2>1. PICK p : p = IF IsOpen THEN section.page ELSE nextPage
    OBVIOUS
  <2>2. p \in Pages /\ spine \in 0..Chapters
    BY <1>1, <2>1, TurnedPages DEF ReaderTypes
  <2>3. file' = Progress(spine, p, Total(size))
    BY <1>6, <2>1 DEF SyncLeave
  <2>. QED BY <1>1, <1>2, <1>6, <2>2, <2>3, ProgressRecord, ForgetTypes
           DEF SyncLeave, ReaderTypes
<1>7. CASE DeleteCache
  <2>1. section.page \in Pages /\ section.count \in Pages /\ spine \in 0..Chapters
    BY <1>1, <1>7, TurnedPages DEF DeleteCache, ReaderTypes, Sections
  <2>2. file' \in Records
    <3>1. CASE notes # <<>>
      <4>1. [Origin EXCEPT !.offset = None] \in Records
        BY <1>2, <1>3, <3>1 DEF Records
      <4>. QED BY <1>7, <3>1, <4>1 DEF DeleteCache
    <3>2. CASE notes = <<>>
      BY <1>2, <1>7, <2>1, <3>2 DEF DeleteCache, Records
    <3>. QED BY <3>1, <3>2
  <2>3. file'.spine \in 0..Chapters
    BY <2>2 DEF Records
  <2>. QED BY <1>7, <2>2, <2>3, ChapterPlaces, ForgetTypes DEF DeleteCache
<1>8. CASE Crash
  BY <1>1, <1>8, ForgetTypes DEF Crash, ReaderTypes, disk
<1>9. CASE ChangeSettings
  BY <1>1, <1>9, StillKeptPlaces DEF ChangeSettings, ReaderTypes, display, disk, place
<1>. QED BY <1>4, <1>5, <1>6, <1>7, <1>8, <1>9 DEF Book

LEMMA TurnTypes ==
  ASSUME CoreInv, Turn
  PROVE  ReaderTypes'
PROOF
<1>1. Storage /\ ReaderTypes
  BY DEF CoreInv
<1>2. /\ 0 \in Pages /\ Chapters \in Nat \ {0} /\ Chapters - 1 \in 0..Chapters
      /\ Chapters \in 0..Chapters /\ spine \in 0..Chapters
  BY <1>1, ReaderAssumption DEF Pages, ReaderTypes
<1>3. /\ cached \in Memories /\ Cleared(cached) \in Memories
      /\ jump \in Jumps /\ [jump EXCEPT !.last = TRUE] \in Jumps
  BY <1>1, ClearedMemory, JumpTypes DEF ReaderTypes
<1>4. IsOpen => /\ section.page \in Nat /\ section.page + 1 \in Int
                /\ section.page + 1 >= 0
                /\ section.page > 0 => section.page - 1 >= 0
  BY <1>1, TurnedPages
<1>5. IsOpen => /\ PageStart(spine, section.page + 1) \in SUBSET Places
                /\ section.page > 0 => PageStart(spine, section.page - 1) \in SUBSET Places
  BY <1>1, <1>2, <1>4, PageStartPlaces DEF Storage
<1>6. CASE TurnForward
  <2>1. IsOpen /\ ~AtEnd /\ Turning
    BY <1>6 DEF TurnForward, Turning
  <2>2. spine' \in 0..Chapters /\ nextPage' \in Pages /\ jump' \in Jumps
    BY <1>1, <1>2, <1>6 DEF TurnForward, MoveTo, GoTo, ReaderTypes
  <2>3. goal' \in SUBSET Places
    BY <1>2, <1>5, <1>6, <2>1, ChapterPlaces DEF TurnForward
  <2>4. dirty' \in BOOLEAN
    BY <1>6 DEF TurnForward, MoveTo, GoTo
  <2>. QED BY <1>1, <1>3, <2>1, <2>2, <2>3, <2>4 DEF Turning, ReaderTypes, display
<1>7. CASE TurnBack
  <2>1. IsOpen /\ ~AtEnd /\ Turning
    BY <1>7 DEF TurnBack, Turning
  <2>2. spine' \in 0..Chapters /\ nextPage' \in Pages /\ jump' \in Jumps
    <3>1. CASE UNCHANGED <<spine, nextPage, jump>>
      BY <1>1, <3>1 DEF ReaderTypes
    <3>2. CASE spine > 0 /\ GoTo(spine - 1, 0, [jump EXCEPT !.last = TRUE])
      BY <1>2, <1>3, <3>2 DEF GoTo
    <3>. QED BY <1>7, <3>1, <3>2 DEF TurnBack, MoveTo
  <2>3. goal' \in SUBSET Places
    BY <1>2, <1>5, <1>7, <2>1, ChapterPlaces DEF TurnBack
  <2>4. dirty' \in BOOLEAN
    BY <1>7 DEF TurnBack, MoveTo, GoTo
  <2>. QED BY <1>1, <1>3, <2>1, <2>2, <2>3, <2>4 DEF Turning, ReaderTypes, display
<1>8. CASE Skip
  <2>1. IsOpen /\ ~AtEnd
    BY <1>8 DEF Skip
  <2>2. spine' \in 0..Chapters /\ nextPage' \in Pages /\ jump' \in Jumps
    BY <1>1, <1>2, <1>3, <1>8, <2>1 DEF Skip, MoveTo, GoTo, ReaderTypes, AtEnd
  <2>3. goal' \in SUBSET Places
    BY <1>2, <1>8, <2>1, ChapterPlaces DEF Skip, AtEnd
  <2>4. dirty' \in BOOLEAN
    BY <1>8 DEF Skip, MoveTo, GoTo
  <2>. QED BY <1>1, <1>3, <1>8, <2>2, <2>3, <2>4 DEF Skip, ReaderTypes, display
<1>9. CASE EndOfBookReturn
  <2>1. goal' \in SUBSET Places
    BY <1>2, <1>9, ChapterPlaces DEF EndOfBookReturn
  <2>. QED BY <1>1, <1>2, <1>3, <1>9, <2>1 DEF EndOfBookReturn, ReaderTypes, display, disk
<1>. QED BY <1>6, <1>7, <1>8, <1>9 DEF Turn

LEMMA JumpActionTypes ==
  ASSUME CoreInv, Jump
  PROVE  ReaderTypes'
PROOF
<1>1. Storage /\ ReaderTypes
  BY DEF CoreInv
<1>2. 0 \in Pages /\ \A c \in 0..(Chapters - 1) : c \in 0..Chapters
  BY ReaderAssumption DEF Pages
<1>3. Cleared(cached) \in Memories
  BY <1>1, ClearedMemory DEF ReaderTypes
<1>4. ASSUME Jumping, dirty' = TRUE, inNote' \in BOOLEAN, goal' \in SUBSET Places,
             spine' \in 0..Chapters, nextPage' \in Pages, jump' \in Jumps,
             notes' \in Seq(Notes)
      PROVE  ReaderTypes'
  BY <1>1, <1>3, <1>4 DEF Jumping, ReaderTypes, display
<1>5. notes \in Seq(Notes) /\ inNote \in BOOLEAN /\ goal \in SUBSET Places
      /\ spine \in 0..Chapters /\ nextPage \in Pages
  BY <1>1 DEF ReaderTypes
<1>6. ASSUME NEW c \in 0..(Chapters - 1), GoToSpine(c) PROVE ReaderTypes'
  BY <1>1, <1>2, <1>4, <1>5, <1>6, JumpTypes, ChapterPlaces DEF GoToSpine, GoTo, Departing
<1>7. ASSUME NEW mark \in Marks, SelectChapter(mark[1], mark[2]) PROVE ReaderTypes'
  BY <1>1, <1>2, <1>4, <1>5, <1>7, JumpTypes, ChapterPlaces, MarkPlaces
     DEF SelectChapter, GoTo, Departing
<1>8. ASSUME NEW mark \in Marks, JumpToPercent(mark[1], mark[2]) PROVE ReaderTypes'
  BY <1>1, <1>2, <1>4, <1>5, <1>8, JumpTypes, ChapterPlaces, MarkPlaces
     DEF JumpToPercent, GoTo, Departing
<1>9. ASSUME NEW mark \in Marks, FollowLink(mark[1], mark[2]) PROVE ReaderTypes'
  <2>1. section.page \in Pages
    BY <1>1, <1>9, TurnedPages DEF FollowLink
  <2>2. notes' \in Seq(Notes)
    <3>1. [spine |-> spine, page |-> section.page, at |-> goal] \in Notes
      BY <1>5, <2>1 DEF Notes
    <3>. QED BY <1>5, <1>9, <3>1 DEF FollowLink
  <2>. QED BY <1>1, <1>2, <1>4, <1>9, <2>2, JumpTypes, ChapterPlaces, MarkPlaces
           DEF FollowLink, GoTo
<1>10. ASSUME NEW mark \in Marks, NEW s \in PageSizes, GoToBookmark(mark[1], mark[2], s)
       PROVE  ReaderTypes'
  <2>1. mark[1] \in 0..Chapters /\ mark[2] \in Units
    BY <1>2, MarkPlaces
  <2>2. mark[2] \div s \in Pages
    <3>1. mark[2] \div s \in 0..(Total(s) - 1) /\ Total(s) \in 1..Length
      BY <2>1, TotalPages
    <3>. QED BY <3>1, ReaderAssumption DEF Pages
  <2>3. /\ spine' \in 0..Chapters /\ nextPage' \in Pages /\ jump' \in Jumps
        /\ dirty' = TRUE
    BY <1>1, <1>5, <1>10, <2>1, <2>2, JumpTypes DEF GoToBookmark, MoveTo, GoTo
  <2>4. /\ goal' \in SUBSET Places /\ inNote' \in BOOLEAN /\ notes' \in Seq(Notes)
        /\ Jumping
    BY <1>5, <1>10, <2>1, ChapterPlaces DEF GoToBookmark, Departing
  <2>. QED BY <1>4, <2>3, <2>4
<1>11. CASE FollowDeadLink
  BY <1>1, <1>5, <1>11, NoteEnds DEF FollowDeadLink, ReaderTypes, place, display, disk
<1>12. CASE ReturnFromNote
  <2>1. /\ notes[Len(notes)].spine \in 0..Chapters /\ notes[Len(notes)].page \in Pages
        /\ notes[Len(notes)].at \in SUBSET Places
        /\ SubSeq(notes, 1, Len(notes) - 1) \in Seq(Notes)
    BY <1>1, <1>12, NoteEnds, NoteFields DEF ReturnFromNote
  <2>2. inNote' \in BOOLEAN
    BY <1>5, <1>12 DEF ReturnFromNote
  <2>. QED BY <1>1, <1>4, <1>12, <2>1, <2>2, JumpTypes DEF ReturnFromNote, GoTo
<1>. QED BY <1>6, <1>7, <1>8, <1>9, <1>10, <1>11, <1>12 DEF Jump

LEMMA LayoutTypes ==
  ASSUME CoreInv, Layout
  PROVE  ReaderTypes'
PROOF
<1>1. Storage /\ ReaderTypes
  BY DEF CoreInv
<1>2. spine \in 0..Chapters /\ notes \in Seq(Notes) /\ goal \in SUBSET Places
  BY <1>1 DEF ReaderTypes
<1>3. IsOpen => section.page \in Pages /\ section.page \in Nat
                /\ section.count \in Pages /\ section \in Sections /\ Made(section)
  BY <1>1, TurnedPages DEF Sections, Storage, IsOpen
<1>4. ASSUME NEW s \in PageSizes, Reflow(s) PROVE ReaderTypes'
  <2>1. cached' \in Memories
    <3>1. CASE IsOpen
      <4>1. OffsetOfPage(section, section.page) \in MaybeUnit
        BY <1>1, <1>3, <3>1, PageOffset DEF OffsetOfPage, MaybeUnit, Storage
      <4>. QED BY <1>2, <1>3, <1>4, <3>1, <4>1 DEF Reflow, Remembered, Memories
    <3>2. CASE ~IsOpen
      BY <1>1, <1>4, <3>2 DEF Reflow, ReaderTypes
    <3>. QED BY <3>1, <3>2
  <2>2. nextPage' \in Pages
    BY <1>1, <1>3, <1>4 DEF Reflow, ReaderTypes
  <2>3. goal' \in SUBSET Places
    BY <1>1, <1>2, <1>3, <1>4, ChapterPlaces, PageStartPlaces DEF Reflow, Storage
  <2>4. notes' \in Seq(Notes)
    <3>1. ASSUME s # size PROVE notes' \in Seq(Notes)
      <4>1. ASSUME NEW i \in DOMAIN notes
            PROVE  [notes[i] EXCEPT !.at = Chapter(notes[i].spine)] \in Notes
        <5>1. notes[i] \in Notes /\ Chapter(notes[i].spine) \in SUBSET Places
          BY <1>1, <1>2, NoteFields, ChapterPlaces
        <5>. QED BY <5>1 DEF Notes
      <4>2. DOMAIN notes = 1..Len(notes) /\ Len(notes) \in Nat
        BY <1>2
      <4>3. notes' = [i \in 1..Len(notes) |->
                        [notes[i] EXCEPT !.at = Chapter(notes[i].spine)]]
        BY <1>4, <3>1, <4>2 DEF Reflow
      <4>. QED BY <4>1, <4>2, <4>3
    <3>. QED BY <1>2, <1>4, <3>1 DEF Reflow
  <2>5. kept' \in SUBSET Places
    BY <1>1, <1>4, StillKeptPlaces DEF Reflow, ReaderTypes
  <2>. QED BY <1>1, <1>4, <2>1, <2>2, <2>3, <2>4, <2>5 DEF Reflow, ReaderTypes, display
<1>5. CASE ExtendStart
  BY <1>1, <1>5 DEF ExtendStart, ReaderTypes, display, disk, promise
<1>6. CASE BuildTick
  <2>1. cached' \in Memories
    BY <1>1, <1>6, TickStorage
  <2>2. dirty' \in BOOLEAN
    BY <1>1, <1>6 DEF BuildTick, ReaderTypes
  <2>. QED BY <1>1, <1>6, <2>1, <2>2 DEF BuildTick, ReaderTypes, display, promise
<1>7. CASE SectionFails
  BY <1>1, <1>2, <1>7, ChapterPlaces DEF SectionFails, ReaderTypes, display
<1>. QED BY <1>4, <1>5, <1>6, <1>7 DEF Layout

LEMMA RenderTypes ==
  ASSUME CoreInv, Render
  PROVE  ReaderTypes'
PROOF
<1>1. Storage /\ ReaderTypes /\ PlaceInv
  BY DEF CoreInv
<1>2. spine \in 0..Chapters /\ goal \in SUBSET Places /\ kept \in SUBSET Places
  BY <1>1 DEF ReaderTypes
<1>3. CASE RenderDraw
  <2>1. /\ section' \in Sections /\ section'.page < section'.count
        /\ cached' \in Memories /\ Storage' /\ size' = size /\ size \in PageSizes
    BY <1>1, <1>3, DrawStorage, StorageKept DEF RenderDraw, Storage
  <2>2. section'.page \in Nat
    BY <2>1, SectionFields
  <2>3. Made(section')
    <3>1. IsOpen'
      BY <2>1, SectionFields DEF IsOpen
    <3>2. Made(section)'
      BY <2>1, <3>1 DEF Storage
    <3>. QED BY <2>1, <3>2 DEF Made, Done
  <2>4. section'.page * size \in Units
    BY <2>1, <2>2, <2>3, PageOffset
  <2>5. shownOffset' = section'.page * size
        /\ goal' = IF Provisional(cached') THEN Chapter(spine)
                                           ELSE PageStart(spine, section'.page)
    BY <1>3 DEF RenderDraw
  <2>6. goal' \in SUBSET Places
    BY <1>2, <2>1, <2>2, <2>5, ChapterPlaces, PageStartPlaces
  <2>7. jump' \in Jumps
    BY <1>1, <1>3, JumpTypes DEF RenderDraw
  <2>. QED BY <1>1, <1>3, <2>1, <2>4, <2>5, <2>6, <2>7
           DEF RenderDraw, ReaderTypes, MaybeUnit
<1>4. CASE RenderFails
  <2>1. goal' \in SUBSET Places
    BY <1>2, <1>4, ChapterPlaces DEF RenderFails
  <2>2. cached' \in Memories
    BY <1>1, <1>4, ClearedMemory DEF RenderFails, ReaderTypes
  <2>. QED BY <1>1, <1>4, <2>1, <2>2 DEF RenderFails, ReaderTypes
<1>5. CASE RenderEnd
  BY <1>1, <1>5 DEF RenderEnd, ReaderTypes, place, disk, promise
<1>6. CASE RenderSave
  <2>1. IsOpen /\ shownOffset \in Units
    BY <1>1, <1>6 DEF RenderSave, PlaceInv
  <2>2. section.ch \in 0..(Chapters - 1) /\ section.page \in Pages
    BY <1>1, <2>1, SectionFields, TurnedPages
  <2>3. section.ch \in 0..Chapters
    BY <2>2, ReaderAssumption
  <2>4. Total(size) \in Pages
    BY <1>1, TotalPages, ReaderAssumption DEF Storage, Pages
  <2>5. Progress(spine, section.page, Total(size)) \in Records
    BY <1>1, <1>2, <2>2, <2>4, ProgressRecord
  <2>6. file' \in Records \cup {NoProgress}
    BY <1>1, <1>6, <2>5 DEF RenderSave, ReaderTypes
  <2>7. {<<section.ch, shownOffset>>} \in SUBSET Places
    BY <2>1, <2>3, ChapterPlaces
  <2>8. kept' \in SUBSET Places
    BY <1>2, <1>6, <2>7 DEF RenderSave
  <2>. QED BY <1>1, <1>6, <2>6, <2>8 DEF RenderSave, ReaderTypes, place
<1>7. CASE Redraw
  BY <1>1, <1>7 DEF Redraw, ReaderTypes, place, display, disk, promise
<1>. QED BY <1>3, <1>4, <1>5, <1>6, <1>7 DEF Render

LEMMA StepTypes ==
  ASSUME CoreInv, [Next]_vars
  PROVE  ReaderTypes'
PROOF
<1>1. CASE UNCHANGED vars
  BY <1>1 DEF CoreInv, ReaderTypes, vars, place, display, disk, promise
<1>2. CASE Next
  BY <1>2, BookTypes, TurnTypes, JumpActionTypes, LayoutTypes, RenderTypes DEF Next
<1>. QED BY <1>1, <1>2

\* A jump changes nothing of what was drawn or saved.
LEMMA JumpKeepsSaved ==
  ASSUME Jump
  PROVE  Reading /\ UNCHANGED <<open, display, file, kept>>
PROOF
<1>1. CASE Jumping
  BY <1>1 DEF Jumping
<1>2. CASE FollowDeadLink
  BY <1>2 DEF FollowDeadLink, disk
<1>3. Jumping \/ FollowDeadLink
  BY DEF Jump, GoToSpine, SelectChapter, JumpToPercent, FollowLink, GoToBookmark,
         ReturnFromNote
<1>. QED BY <1>1, <1>2, <1>3

-----------------------------------------------------------------------------
(* The open section is that of the chapter; a closed book has nothing open. *)

LEMMA StepPlace ==
  ASSUME CoreInv, [Next]_vars
  PROVE  PlaceInv'
PROOF
<1>1. Storage /\ ReaderTypes /\ PlaceInv /\ ClosedInv /\ Storage'
  BY StepStorage, StorageKept DEF CoreInv
<1>2. spine \in 0..Chapters /\ Chapters \in Nat \ {0}
  BY <1>1, ReaderAssumption DEF ReaderTypes
<1>3. IsOpen => section \in Sections /\ section.ch \in 0..(Chapters - 1)
  BY <1>1, SectionFields DEF Storage, IsOpen
<1>4. ASSUME section' = NoSection, rpc' = "idle" PROVE PlaceInv'
  BY <1>4 DEF PlaceInv, IsOpen
<1>5. ASSUME UNCHANGED <<spine, shownOffset, rpc>>,
             section' = section \/ (IsOpen /\ IsOpen' /\ section'.ch = section.ch)
      PROVE  PlaceInv'
  BY <1>1, <1>5 DEF PlaceInv, IsOpen, AtEnd
<1>6. ASSUME IsOpen, NEW p \in Pages, MoveTo(p), UNCHANGED display PROVE PlaceInv'
  <2>1. section' = [section EXCEPT !.page = p] /\ UNCHANGED <<spine, shownOffset, rpc>>
    BY <1>6 DEF MoveTo, display
  <2>2. section'.ch = section.ch /\ section' \in Sections
    BY <1>3, <1>6, <2>1 DEF Sections
  <2>3. IsOpen'
    BY <2>2, SectionFields DEF IsOpen
  <2>. QED BY <1>5, <1>6, <2>1, <2>2, <2>3
<1>7. ASSUME DropSection, rpc = "idle", UNCHANGED display PROVE PlaceInv'
  BY <1>4, <1>7 DEF DropSection, display
<1>8. CASE \/ Redraw \/ RenderEnd \/ FollowDeadLink \/ UNCHANGED vars
  BY <1>5, <1>8 DEF Redraw, RenderEnd, FollowDeadLink, vars, place, display
<1>9. CASE Exit \/ SyncLeave \/ DeleteCache \/ Crash
  BY <1>4, <1>9 DEF Exit, SyncLeave, DeleteCache, Crash, Forget
<1>10. CASE OpenBook \/ ChangeSettings
  BY <1>1, <1>4, <1>10 DEF OpenBook, ChangeSettings, ClosedInv, display, place
<1>11. CASE TurnForward
  <2>1. IsOpen /\ ~AtEnd /\ UNCHANGED display
    BY <1>11 DEF TurnForward, Turning
  <2>2. CASE section.page < Length /\ MoveTo(section.page + 1)
    BY <1>1, <1>6, <2>1, <2>2, TurnedPages
  <2>3. CASE rpc = "idle" /\ GoTo(spine + 1, 0, jump)
    BY <1>7, <2>1, <2>3 DEF GoTo
  <2>4. CASE spine + 1 >= Chapters /\ spine' = Chapters /\ section' = section
    <3>1. section.ch = spine /\ spine = Chapters - 1
      BY <1>1, <1>2, <2>1, <2>4 DEF PlaceInv, AtEnd
    <3>. QED BY <1>1, <2>1, <2>4, <3>1 DEF PlaceInv, AtEnd, IsOpen, display
  <2>. QED BY <1>2, <1>11, <2>2, <2>3, <2>4 DEF TurnForward
<1>12. CASE TurnBack
  <2>1. IsOpen /\ UNCHANGED display
    BY <1>12 DEF TurnBack, Turning
  <2>2. CASE section.page > 0 /\ MoveTo(section.page - 1)
    BY <1>1, <1>6, <2>1, <2>2, TurnedPages
  <2>3. CASE rpc = "idle" /\ DropSection
    BY <1>7, <2>1, <2>3
  <2>. QED BY <1>12, <2>2, <2>3 DEF TurnBack, GoTo
<1>13. CASE Skip
  <2>1. IsOpen /\ UNCHANGED display
    BY <1>13 DEF Skip
  <2>2. CASE MoveTo(0)
    BY <1>1, <1>6, <2>1, <2>2, TurnedPages
  <2>3. CASE rpc = "idle" /\ DropSection
    BY <1>7, <2>1, <2>3
  <2>. QED BY <1>13, <2>2, <2>3 DEF Skip, GoTo
<1>14. CASE EndOfBookReturn
  <2>1. IsOpen => section.ch = Chapters - 1
    BY <1>1, <1>2, <1>3, <1>14 DEF EndOfBookReturn, PlaceInv, AtEnd
  <2>. QED BY <1>1, <1>14, <2>1 DEF EndOfBookReturn, PlaceInv, IsOpen, display
<1>15. ASSUME Jump, ~FollowDeadLink PROVE PlaceInv'
  <2>1. rpc = "idle" /\ UNCHANGED display
    BY <1>15 DEF Jump, GoToSpine, SelectChapter, JumpToPercent, FollowLink, GoToBookmark,
                 ReturnFromNote, Jumping, Reading
  <2>2. DropSection \/ \E p \in Pages : IsOpen /\ MoveTo(p)
    <3>1. ASSUME NEW mark \in Marks, NEW s \in PageSizes,
                 GoToBookmark(mark[1], mark[2], s)
          PROVE  DropSection \/ \E p \in Pages : IsOpen /\ MoveTo(p)
      <4>1. CASE IsOpen /\ spine = mark[1]
        <5>1. PICK p : p = IF PageOfOffset(section, mark[2]) # None
                             THEN PageOfOffset(section, mark[2]) ELSE mark[2] \div s
          OBVIOUS
        <5>2. MoveTo(p)
          BY <3>1, <4>1, <5>1 DEF GoToBookmark
        <5>3. p \in Pages
          BY <1>1, <4>1, <5>1, TurnedPages, MarkPlaces
        <5>. QED BY <4>1, <5>2, <5>3
      <4>. QED BY <3>1, <4>1 DEF GoToBookmark, GoTo
    <3>. QED BY <1>15, <3>1 DEF Jump, GoToSpine, SelectChapter, JumpToPercent, FollowLink,
                               ReturnFromNote, GoTo
  <2>. QED BY <1>6, <1>7, <2>1, <2>2
<1>16. ASSUME NEW s \in PageSizes, Reflow(s) PROVE PlaceInv'
  BY <1>7, <1>16 DEF Reflow
<1>17. CASE ExtendStart
  <2>1. section \in Sections /\ IsOpen /\ 0 \in Pages
    BY <1>3, <1>17, ReaderAssumption DEF ExtendStart, ExtendDue, Pages
  <2>2. section'.ch = section.ch /\ section' \in Sections
    BY <1>17, <2>1 DEF ExtendStart, Sections
  <2>3. IsOpen'
    BY <2>2, SectionFields DEF IsOpen
  <2>. QED BY <1>5, <1>17, <2>1, <2>2, <2>3 DEF ExtendStart, display
<1>18. CASE BuildTick
  <2>1. IsOpen /\ section'.ch = section.ch /\ section' \in Sections
    BY <1>1, <1>18, TickStorage DEF BuildTick
  <2>2. IsOpen'
    BY <2>1, SectionFields DEF IsOpen
  <2>. QED BY <1>5, <1>18, <2>1, <2>2 DEF BuildTick, display
<1>19. CASE SectionFails \/ RenderFails
  BY <1>4, <1>19 DEF SectionFails, RenderFails, display
<1>20. CASE RenderDraw
  <2>1. /\ section' \in Sections /\ section'.page < section'.count
        /\ section'.ch = (IF IsOpen THEN section.ch ELSE spine)
        /\ spine' = spine /\ ~AtEnd
    BY <1>1, <1>20, DrawStorage DEF RenderDraw
  <2>2. IsOpen' /\ section'.ch = spine'
    BY <1>1, <2>1, SectionFields DEF IsOpen, PlaceInv
  <2>3. shownOffset' \in Units
    <3>1. Made(section)' /\ size' = size /\ size \in PageSizes
      BY <1>1, <1>20, <2>2 DEF Storage, RenderDraw
    <3>2. Made(section')
      BY <3>1 DEF Made, Done
    <3>. QED BY <1>20, <2>1, <3>1, <3>2, SectionFields, PageOffset DEF RenderDraw
  <2>. QED BY <2>2, <2>3 DEF PlaceInv
<1>21. CASE RenderSave
  BY <1>1, <1>21 DEF RenderSave, PlaceInv, IsOpen, AtEnd, place
<1>. QED
  BY <1>8, <1>9, <1>10, <1>11, <1>12, <1>13, <1>14, <1>15, <1>16, <1>17, <1>18, <1>19,
     <1>20, <1>21 DEF Next, Book, Turn, Layout, Render

LEMMA StepClosed ==
  ASSUME CoreInv, [Next]_vars
  PROVE  ClosedInv'
PROOF
<1>1. ClosedInv /\ open \in BOOLEAN
  BY DEF CoreInv, ReaderTypes
<1>2. SUFFICES ASSUME ~open'
               PROVE  /\ section' = NoSection /\ rpc' = "idle" /\ ~dirty'
                      /\ notes' = <<>> /\ lastSaved' = Unsaid /\ spine' = 0
                      /\ cached' = [spine |-> 0, total |-> 0, offset |-> None]
  BY DEF ClosedInv, Unsaid
<1>3. CASE Exit \/ SyncLeave \/ DeleteCache \/ Crash
  BY <1>3 DEF Exit, SyncLeave, DeleteCache, Crash, Forget, Unsaid
<1>4. CASE ChangeSettings \/ UNCHANGED vars
  BY <1>1, <1>2, <1>4 DEF ChangeSettings, vars, place, display, ClosedInv
<1>5. CASE OpenBook
  BY <1>2, <1>5 DEF OpenBook
<1>6. CASE Turn
  BY <1>2, <1>6 DEF Turn, TurnForward, TurnBack, Turning, Skip, EndOfBookReturn
<1>7. CASE Jump
  BY <1>2, <1>7, JumpKeepsSaved DEF Reading
<1>8. CASE Layout
  BY <1>2, <1>8 DEF Layout, Reflow, ExtendStart, BuildTick, SectionFails
<1>9. CASE Render
  BY <1>1, <1>2, <1>9 DEF Render, RenderDraw, RenderFails, RenderEnd, RenderSave, Redraw,
                          ClosedInv
<1>. QED BY <1>3, <1>4, <1>5, <1>6, <1>7, <1>8, <1>9 DEF Next, Book

LEMMA CoreStep ==
  ASSUME CoreInv, [Next]_vars
  PROVE  CoreInv'
BY StepStorage, StorageKept, StepTypes, StepPlace, StepClosed DEF CoreInv

LEMMA CoreInit ==
  ASSUME Init
  PROVE  CoreInv
PROOF
<1>1. 0 \in Pages /\ 0 \in 0..Chapters /\ None \in MaybeUnit /\ 0 \in Units
  BY ReaderAssumption DEF Pages, MaybeUnit, Units
<1>2. /\ NoJump \in Jumps /\ [spine |-> 0, total |-> 0, offset |-> None] \in Memories
      /\ <<>> \in Seq(Notes)
  BY <1>1 DEF Jumps, NoJump, Memories
<1>3. Storage
  BY DEF Init, Storage, IsOpen
<1>4. {<<TextStart, 0>>} \in SUBSET Places
  BY <1>1, ReaderAssumption DEF Places
<1>5. ReaderTypes
  BY <1>1, <1>2, <1>4 DEF Init, ReaderTypes
<1>6. PlaceInv /\ ClosedInv
  BY DEF Init, PlaceInv, ClosedInv, IsOpen, Unsaid
<1>. QED BY <1>3, <1>5, <1>6 DEF CoreInv

-----------------------------------------------------------------------------
(* What is displayed is saved, when pages are turned only between renders. *)

\* While a page is being saved the main task can only ask for another drawing, or die.
LEMMA StepsWhileSaving ==
  ASSUME CoreInv, "race" \notin Lossy, rpc = "save", [Next]_vars
  PROVE  Crash \/ Redraw \/ RenderSave \/ UNCHANGED vars
PROOF
<1>1. open /\ ~MayMove
  BY DEF CoreInv, ClosedInv, MayMove
<1>2. ~Book \/ Crash
  BY <1>1 DEF Book, OpenBook, Exit, SyncLeave, DeleteCache, ChangeSettings, Reading
<1>3. ~Turn
  BY <1>1 DEF Turn, TurnForward, TurnBack, Skip, EndOfBookReturn, MoveTo
<1>4. ~Jump
  BY JumpKeepsSaved DEF Reading
<1>5. ~Layout
  BY DEF Layout, Reflow, ExtendStart, BuildTick, SectionFails
<1>6. ~(RenderDraw \/ RenderFails \/ RenderEnd)
  BY DEF RenderDraw, RenderFails, RenderEnd
<1>. QED BY <1>2, <1>3, <1>4, <1>5, <1>6 DEF Next, Render

LEMMA StepSaving ==
  ASSUME CoreInv, SavingInv, "race" \notin Lossy, [Next]_vars
  PROVE  SavingInv'
PROOF
<1>1. CASE rpc = "save"
  <2>1. CASE Redraw \/ UNCHANGED vars
    BY <2>1 DEF Redraw, vars, place, display, SavingInv, AtEnd
  <2>2. CASE Crash \/ RenderSave
    BY <2>2 DEF Crash, Forget, RenderSave, SavingInv
  <2>. QED BY <1>1, <2>1, <2>2, StepsWhileSaving
<1>2. CASE rpc = "idle" /\ rpc' = "save"
  <2>1. RenderDraw
    <3>1. CASE Book
      BY <1>2, <3>1 DEF Book, OpenBook, Exit, SyncLeave, DeleteCache, Crash,
                        ChangeSettings, Forget, display
    <3>2. CASE Turn
      BY <1>2, <3>2 DEF Turn, TurnForward, TurnBack, Turning, Skip, EndOfBookReturn, display
    <3>3. CASE Jump
      BY <1>2, <3>3, JumpKeepsSaved DEF display
    <3>4. CASE Layout
      BY <1>2, <3>4 DEF Layout, Reflow, ExtendStart, BuildTick, SectionFails, display
    <3>5. CASE Render
      BY <1>2, <3>5 DEF Render, RenderFails, RenderEnd, RenderSave, Redraw, display
    <3>6. CASE UNCHANGED vars
      BY <1>2, <3>6 DEF vars, display
    <3>. QED BY <3>1, <3>2, <3>3, <3>4, <3>5, <3>6 DEF Next
  <2>2. section'.page < section'.count
    BY <2>1, DrawStorage DEF CoreInv
  <2>. QED BY <2>1, <2>2 DEF RenderDraw, SavingInv, AtEnd
<1>3. rpc \in {"idle", "save"} /\ rpc' \in {"idle", "save"}
  BY CoreStep DEF CoreInv, ReaderTypes
<1>. QED BY <1>1, <1>2, <1>3 DEF SavingInv

\* What RenderSave writes, and leaves in the file.
LEMMA SaveWrites ==
  ASSUME CoreInv, SavingInv, SavedInv, RenderSave
  PROVE  SavedInv' /\ SavedIsShown'
PROOF
<1>1. PICK record : record = Progress(spine, section.page, Total(size))
  OBVIOUS
<1>2. /\ IsOpen /\ ~AtEnd /\ section.page < section.count /\ shownOffset \in Units
      /\ section.ch = spine /\ spine \in 0..Chapters
  BY DEF CoreInv, PlaceInv, SavingInv, RenderSave, AtEnd, ReaderTypes
<1>3. shownOffset # None /\ spine # None
  BY <1>2, ReaderAssumption DEF Units, None
<1>4. /\ record.spine = spine /\ record.page = section.page
      /\ record.offset = shownOffset
  BY <1>1, <1>2 DEF Progress
<1>5. CASE Unsaved(record)
  <2>1. /\ file' = record /\ lastSaved' = <<spine, record.page, record.total>>
        /\ kept' = {<<section.ch, shownOffset>>}
    BY <1>1, <1>5 DEF RenderSave
  <2>. QED BY <1>2, <1>3, <1>4, <2>1 DEF RenderSave, SavedInv, SavedIsShown, place
<1>6. CASE ~Unsaved(record)
  <2>1. /\ file' = file /\ lastSaved' = lastSaved
        /\ kept' = kept \cup {<<section.ch, shownOffset>>}
    BY <1>1, <1>6 DEF RenderSave
  <2>2. lastSaved = <<spine, section.page, section.count>> /\ lastSaved # Unsaid
    BY <1>3, <1>4, <1>6 DEF Unsaved, Unsaid
  <2>. QED BY <2>1, <2>2 DEF RenderSave, SavedInv, SavedIsShown, place
<1>. QED BY <1>5, <1>6

LEMMA StepSaved ==
  ASSUME CoreInv, SavingInv, SavedInv, [Next]_vars
  PROVE  SavedInv'
PROOF
<1>1. ASSUME lastSaved' = Unsaid PROVE SavedInv'
  BY <1>1 DEF SavedInv, Unsaid
<1>2. ASSUME UNCHANGED <<lastSaved, file, kept>> PROVE SavedInv'
  BY <1>2 DEF SavedInv, Unsaid
<1>3. CASE Book
  <2>1. CASE OpenBook \/ ChangeSettings
    BY <1>1, <2>1 DEF OpenBook, ChangeSettings, display, CoreInv, ClosedInv
  <2>. QED BY <1>1, <1>3, <2>1 DEF Book, Exit, SyncLeave, DeleteCache, Crash, Forget, Unsaid
<1>4. CASE Turn
  BY <1>2, <1>4 DEF Turn, TurnForward, TurnBack, Turning, Skip, EndOfBookReturn, display, disk
<1>5. CASE Jump
  BY <1>2, <1>5, JumpKeepsSaved DEF display
<1>6. ASSUME NEW s \in PageSizes, Reflow(s) PROVE SavedInv'
  <2>1. lastSaved' = lastSaved /\ file' = file /\ kept' \in {kept, StillKept}
    BY <1>6 DEF Reflow, display
  <2>2. CASE lastSaved = Unsaid
    BY <1>1, <2>1, <2>2
  <2>3. CASE lastSaved # Unsaid
    <3>1. kept' = kept
      BY <2>1, <2>3 DEF SavedInv, StillKept
    <3>. QED BY <1>2, <2>1, <3>1
  <2>. QED BY <2>2, <2>3
<1>7. CASE ExtendStart \/ BuildTick \/ SectionFails
  BY <1>2, <1>7 DEF ExtendStart, BuildTick, SectionFails, display, disk, promise
<1>8. CASE RenderSave
  BY <1>8, SaveWrites
<1>9. CASE RenderDraw \/ RenderFails \/ RenderEnd \/ Redraw
  BY <1>2, <1>9 DEF RenderDraw, RenderFails, RenderEnd, Redraw, display, disk, promise
<1>10. CASE UNCHANGED vars
  BY <1>2, <1>10 DEF vars, display, disk, promise
<1>. QED BY <1>3, <1>4, <1>5, <1>6, <1>7, <1>8, <1>9, <1>10 DEF Next, Layout, Render

LEMMA StepShown ==
  ASSUME CoreInv, SavingInv, SavedInv, SavedIsShown, "race" \notin Lossy, [Next]_vars
  PROVE  SavedIsShown'
PROOF
<1>1. ASSUME dirty' \/ ~open' \/ section' = NoSection PROVE SavedIsShown'
  BY <1>1 DEF SavedIsShown, IsOpen
<1>2. ASSUME UNCHANGED <<open, rpc, dirty, spine, file, kept>>,
             section' = section \/ (IsOpen /\ section'.page = section.page)
      PROVE  SavedIsShown'
  BY <1>2 DEF SavedIsShown, IsOpen, AtEnd
<1>3. CASE Book
  BY <1>1, <1>3 DEF Book, OpenBook, Exit, SyncLeave, DeleteCache, Crash, ChangeSettings,
                    Forget, CoreInv, ClosedInv
<1>4. CASE Turn
  BY <1>1, <1>4 DEF Turn, TurnForward, TurnBack, Skip, EndOfBookReturn, MoveTo, GoTo
<1>5. CASE Jump /\ ~FollowDeadLink
  BY <1>1, <1>5 DEF Jump, GoToSpine, SelectChapter, JumpToPercent, FollowLink, GoToBookmark,
                    ReturnFromNote, GoTo, MoveTo
<1>6. CASE FollowDeadLink
  BY <1>2, <1>6 DEF FollowDeadLink, place, display, disk
<1>7. ASSUME NEW s \in PageSizes, Reflow(s) PROVE SavedIsShown'
  BY <1>1, <1>7 DEF Reflow
<1>8. CASE ExtendStart
  <2>1. section \in Sections /\ IsOpen
    BY <1>8 DEF CoreInv, Storage, IsOpen, ExtendStart, ExtendDue
  <2>2. section'.page = section.page
    BY <1>8, <2>1 DEF ExtendStart, Sections
  <2>. QED BY <1>2, <1>8, <2>1, <2>2 DEF ExtendStart, display, disk, promise
<1>9. CASE BuildTick
  <2>1. section'.page = section.page \/ dirty'
    BY <1>9, TickStorage DEF CoreInv
  <2>2. CASE dirty'
    BY <1>1, <2>2
  <2>3. CASE section'.page = section.page /\ ~dirty'
    <3>1. ~dirty /\ dirty' = dirty
      BY <1>9, <2>3, CoreStep DEF BuildTick, CoreInv, ReaderTypes
    <3>. QED BY <1>2, <1>9, <2>3, <3>1 DEF BuildTick, display, promise
  <2>. QED BY <2>1, <2>2, <2>3
<1>10. CASE SectionFails \/ RenderFails \/ Redraw
  BY <1>1, <1>10 DEF SectionFails, RenderFails, Redraw
<1>11. CASE RenderDraw
  BY <1>11 DEF RenderDraw, SavedIsShown
<1>12. CASE RenderEnd
  BY <1>12 DEF RenderEnd, SavedIsShown, AtEnd, place
<1>13. CASE RenderSave
  BY <1>13, SaveWrites
<1>14. CASE UNCHANGED vars
  BY <1>2, <1>14 DEF vars, place, display, disk, promise
<1>. QED
  BY <1>3, <1>4, <1>5, <1>6, <1>7, <1>8, <1>9, <1>10, <1>11, <1>12, <1>13, <1>14
     DEF Next, Layout, Render

-----------------------------------------------------------------------------
(* What the next render would draw.                                        *)

JustLast == [NoJump EXCEPT !.last = TRUE]
ToPercent(u) == [NoJump EXCEPT !.percent = u]
ToAnchor(c, u) == [NoJump EXCEPT !.anchor = <<c, u>>]
ToOffset(u) == [NoJump EXCEPT !.offset = u]

\* Page p of chapter c in layout s, or the last page for a number past the end, has
\* one of the places g.
NumberShows(g, c, p, s) ==
  \E u \in Units : <<c, u>> \in g /\ u \div s = Smaller(p, Total(s) - 1)

\* Page number and text offset (if known) lead to g: the offset in any layout, the
\* number in the layouts of the pages that are on the card.  Without an offset the
\* number is all there is, of the layout s in force.
Named(g, c, p, offset, s, layouts) ==
  \/ Chapter(c) \subseteq g
  \/ /\ c # Chapters /\ (p = 0 => <<c, 0>> \in g)
     /\ IF offset = None THEN NumberShows(g, c, p, s)
        ELSE <<c, offset>> \in g /\ \A t \in layouts : NumberShows(g, c, p, t)

\* The layouts in which a page of chapter c may be found by its number.
LayoutsOf(c) ==
  {s \in PageSizes : \/ section.ch = c /\ s = size
                     \/ c # Chapters /\ cache[c].size = s}

\* At most one jump is pending; none but that to the last page while a section is open.
JumpInv ==
  /\ \/ jump = NoJump \/ jump = JustLast
     \/ \E u \in Units : jump = ToPercent(u) \/ jump = ToAnchor(spine, u) \/ jump = ToOffset(u)
  /\ IsOpen => jump = NoJump \/ jump = JustLast
  /\ (~IsOpen /\ AtEnd) \/ ~open => jump = NoJump

\* An offset is remembered only until the section is opened, and used then; a number
\* is scaled only where the whole chapter was promised.
MemoryInv ==
  /\ cached.offset # None =>
       ~IsOpen /\ \/ AtEnd
                  \/ cached.spine = spine /\ jump = NoJump
                  \/ cached.spine # spine /\ jump = JustLast
  /\ Provisional(cached) => Chapter(spine) \subseteq goal

\* The open section is at the goal; at the end of the book it is at its last page.
OpenedGoal ==
  /\ IsOpen /\ ~AtEnd =>
       Chapter(spine) \subseteq goal \/ NumberShows(goal, spine, section.page, size)
  /\ AtEnd => /\ Chapter(spine) \subseteq goal
              /\ IsOpen => Done(section) /\ section.page >= section.count - 1

\* Opening the section leads to the goal.
UnopenedGoal ==
  open /\ Unopened =>
    \/ Chapter(spine) \subseteq goal
    \/ jump = JustLast /\ <<spine, Length - 1>> \in goal
    \/ \E u \in Units :
         /\ <<spine, u>> \in goal
         /\ \/ jump = ToAnchor(spine, u)
            \/ jump = ToOffset(u) /\ (nextPage = u \div size \/ ~Unfinished(spine))
    \/ jump = NoJump /\ Named(goal, spine, nextPage, cached.offset, size, LayoutsOf(spine))

\* What is on the display when nothing was asked for since.
DrawnInv ==
  IsOpen /\ ~AtEnd /\ (rpc = "save" \/ ~dirty) =>
    /\ section.page < section.count /\ shownOffset = section.page * size
    /\ Chapter(spine) \subseteq goal \/ <<spine, shownOffset>> \in goal

\* The next start leads to what progress.bin promises.
Start == IF file = NoProgress THEN 0 ELSE file.spine

KeptInv ==
  /\ rpc = "idle" =>
       /\ Named(kept, Start, file.page, file.offset, size, LayoutsOf(Start))
       /\ file.total # 0 /\ file.offset = None => Chapter(Start) \subseteq kept
  /\ ~open => goal = kept

\* The return from a note leads to where it was followed.
NotesInv ==
  /\ \A i \in DOMAIN notes :
       \/ Chapter(notes[i].spine) \subseteq notes[i].at
       \/ /\ notes[i].spine # Chapters /\ notes[i].page < Total(size)
          /\ <<notes[i].spine, notes[i].page * size>> \in notes[i].at
  /\ notes # <<>> => inNote

GoalInv ==
  JumpInv /\ MemoryInv /\ OpenedGoal /\ UnopenedGoal /\ DrawnInv /\ KeptInv /\ NotesInv

-----------------------------------------------------------------------------
(* Pages and the places on them.                                           *)

LEMMA DivisionExact ==
  ASSUME NEW a \in Nat, NEW s \in Nat \ {0}, NEW q \in Nat, q * s <= a, a < q * s + s
  PROVE  a \div s = q
PROOF
<1>1. PICK d \in Nat : d = a \div s
  BY Division
<1>2. d * s <= a /\ a < d * s + s
  BY <1>1, Division
<1>3. ~(d < q)
  <2>1. SUFFICES ASSUME d < q PROVE FALSE
    OBVIOUS
  <2>2. d + 1 <= q
    BY <2>1
  <2>3. (d + 1) * s <= q * s /\ (d + 1) * s = d * s + s
    BY <2>2
  <2>4. d * s \in Nat /\ q * s \in Nat
    OBVIOUS
  <2>. QED BY <1>2, <2>3, <2>4
<1>4. ~(q < d)
  <2>1. SUFFICES ASSUME q < d PROVE FALSE
    OBVIOUS
  <2>2. q + 1 <= d
    BY <2>1
  <2>3. (q + 1) * s <= d * s /\ (q + 1) * s = q * s + s
    BY <2>2
  <2>4. d * s \in Nat /\ q * s \in Nat
    OBVIOUS
  <2>. QED BY <1>2, <2>3, <2>4
<1>. QED BY <1>1, <1>3, <1>4

\* The first and the last unit are on the first and the last page.
LEMMA PageEnds ==
  ASSUME NEW s \in PageSizes
  PROVE  /\ 0 \in Units /\ Length - 1 \in Units
         /\ 0 \div s = 0 /\ (Length - 1) \div s = Total(s) - 1
         /\ \A p \in Nat : p < Total(s) => p * s \in Units /\ (p * s) \div s = p
         /\ \A p \in Nat : p >= Total(s) => p * s > Length - 1
PROOF
<1>1. /\ Length \in Nat \ {0} /\ s \in Nat \ {0} /\ Total(s) \in 1..Length
      /\ \A p \in Nat : p < Total(s) => p * s \in Units
      /\ \A u \in Units : u \div s \in 0..(Total(s) - 1)
  BY ReaderAssumption, TotalPages
<1>2. 0 \in Units /\ Length - 1 \in Units /\ Length - 1 \in Nat
  BY <1>1 DEF Units
<1>3. 0 \div s = 0
  <2>1. 0 * s <= 0 /\ 0 < 0 * s + s
    BY <1>1
  <2>. QED BY <1>1, <2>1, DivisionExact
<1>4. ASSUME NEW p \in Nat, p < Total(s) PROVE p * s \in Units /\ (p * s) \div s = p
  <2>1. p * s \in Units /\ p * s \in Nat /\ p * s < p * s + s
    BY <1>1, <1>4
  <2>. QED BY <1>1, <2>1, DivisionExact
<1>5. PICK d \in Nat : d = (Length - 1) \div s
  BY <1>1, <1>2, Division
<1>6. d * s <= Length - 1 /\ Length - 1 < d * s + s
  BY <1>1, <1>2, <1>5, Division
<1>7. Total(s) = d + 1
  <2>1. (d + 1) * s = d * s + s /\ d * s \in Nat
    BY <1>1
  <2>2. (d + 1) * s <= Length + s - 1 /\ Length + s - 1 < (d + 1) * s + s
    BY <1>1, <1>6, <2>1
  <2>3. Length + s - 1 \in Nat /\ d + 1 \in Nat
    BY <1>1
  <2>4. (Length + s - 1) \div s = d + 1
    BY <1>1, <2>2, <2>3, DivisionExact
  <2>. QED BY <2>4 DEF Total
<1>8. ASSUME NEW p \in Nat, p >= Total(s) PROVE p * s > Length - 1
  <2>1. p >= d + 1
    BY <1>7, <1>8
  <2>2. p * s >= (d + 1) * s /\ (d + 1) * s = d * s + s
    BY <1>1, <2>1
  <2>3. d * s \in Nat /\ p * s \in Nat
    BY <1>1
  <2>. QED BY <1>1, <1>6, <2>2, <2>3
<1>. QED BY <1>2, <1>3, <1>4, <1>5, <1>7, <1>8

\* How the goals that the actions set are shown by pages.
LEMMA GoalPages ==
  ASSUME NEW s \in PageSizes, NEW g, NEW c
  PROVE  /\ <<c, 0>> \in g => NumberShows(g, c, 0, s)
         /\ \A u \in Units : <<c, u>> \in g => NumberShows(g, c, u \div s, s)
         /\ \A p \in Nat : /\ <<c, Length - 1>> \in g /\ p >= Total(s) - 1
                           => NumberShows(g, c, p, s)
         /\ \A p \in Nat : <<c, Smaller(p * s, Length - 1)>> \in g => NumberShows(g, c, p, s)
         /\ \A p \in Nat : Chapter(c) \subseteq g => NumberShows(g, c, p, s)
PROOF
<1>1. /\ Length \in Nat \ {0} /\ s \in Nat \ {0}
      /\ Total(s) \in Nat /\ Total(s) > 0
      /\ \A u \in Units : u \div s \in Nat /\ u \div s <= Total(s) - 1
  BY ReaderAssumption, TotalPages
<1>2. /\ 0 \in Units /\ Length - 1 \in Units
      /\ 0 \div s = 0 /\ (Length - 1) \div s = Total(s) - 1
  BY PageEnds
<1>3. <<c, 0>> \in g => NumberShows(g, c, 0, s)
  BY <1>1, <1>2 DEF NumberShows, Smaller
<1>4. ASSUME NEW u \in Units, <<c, u>> \in g PROVE NumberShows(g, c, u \div s, s)
  <2>1. u \div s = Smaller(u \div s, Total(s) - 1)
    BY <1>1 DEF Smaller
  <2>. QED BY <1>4, <2>1 DEF NumberShows
<1>5. ASSUME NEW p \in Nat, <<c, Length - 1>> \in g, p >= Total(s) - 1
      PROVE  NumberShows(g, c, p, s)
  <2>1. Smaller(p, Total(s) - 1) = Total(s) - 1
    BY <1>1, <1>5 DEF Smaller
  <2>. QED BY <1>2, <1>5, <2>1 DEF NumberShows
<1>6. ASSUME NEW p \in Nat, <<c, Smaller(p * s, Length - 1)>> \in g
      PROVE  NumberShows(g, c, p, s)
  <2>1. CASE p < Total(s)
    <3>1. p * s \in Units /\ (p * s) \div s = p
      BY <2>1, PageEnds
    <3>2. Smaller(p * s, Length - 1) = p * s
      BY <1>1, <3>1 DEF Units, Smaller
    <3>3. Smaller(p, Total(s) - 1) = p
      BY <1>1, <2>1 DEF Smaller
    <3>. QED BY <1>6, <3>1, <3>2, <3>3 DEF NumberShows
  <2>2. CASE p >= Total(s)
    <3>1. p * s > Length - 1 /\ p * s \in Nat
      BY <1>1, <2>2, PageEnds
    <3>2. Smaller(p * s, Length - 1) = Length - 1
      BY <1>1, <3>1 DEF Smaller
    <3>3. p >= Total(s) - 1
      BY <1>1, <2>2
    <3>. QED BY <1>5, <1>6, <3>2, <3>3
  <2>. QED BY <1>1, <2>1, <2>2
<1>7. ASSUME NEW p \in Nat, Chapter(c) \subseteq g PROVE NumberShows(g, c, p, s)
  <2>1. PICK q : q = Smaller(p, Total(s) - 1)
    OBVIOUS
  <2>2. q \in Nat /\ q < Total(s)
    BY <1>1, <2>1 DEF Smaller
  <2>3. q * s \in Units /\ (q * s) \div s = q
    BY <2>2, PageEnds
  <2>4. <<c, q * s>> \in g
    BY <1>7, <2>3 DEF Chapter
  <2>. QED BY <2>1, <2>3, <2>4 DEF NumberShows
<1>. QED BY <1>3, <1>4, <1>5, <1>6, <1>7

\* A page that exists and whose number shows g has one of the places g on it.
LEMMA ShownPage ==
  ASSUME NEW s \in PageSizes, NEW g, NEW c, NEW p \in Nat, NumberShows(g, c, p, s)
  PROVE  OnPage(c, Smaller(p, Total(s) - 1), s) \cap g # {}
PROOF
<1>1. PICK u \in Units : <<c, u>> \in g /\ u \div s = Smaller(p, Total(s) - 1)
  BY DEF NumberShows
<1>. QED BY <1>1 DEF OnPage

\* Fewer layouts to find a page by its number, or no change of them, keep what is named.
LEMMA NamedKept ==
  ASSUME NEW g, NEW c, NEW p \in Nat, NEW offset, NEW s, NEW layouts, NEW t \in PageSizes,
         NEW fewer, Named(g, c, p, offset, s, layouts), fewer \subseteq layouts,
         t = s \/ offset # None \/ p = 0
  PROVE  Named(g, c, p, offset, t, fewer)
BY GoalPages DEF Named

-----------------------------------------------------------------------------
(* What a render draws.                                                    *)

\* Extending a section to the page to draw, or to the last.
LEMMA DrawnPage ==
  ASSUME size \in PageSizes, NEW sec \in Sections, Made(sec),
         NEW past, past = BuiltPast(sec, sec.page),
         NEW new, new = IF past.building THEN past ELSE Clamped(past)
  PROVE  new.page = Smaller(sec.page, Total(size) - 1)
PROOF
<1>1. /\ Extends(past, sec) /\ past.page = sec.page
      /\ Done(past) \/ past.page < past.count
      /\ past.building => ~Done(past)
  BY BuiltPastExtends
<1>2. past \in Sections /\ Made(past)
  BY <1>1 DEF Extends
<1>3. /\ past.page \in Nat /\ past.count \in Nat /\ past.laid \in Nat
      /\ past.partial \in Nat /\ Total(size) \in Nat /\ Total(size) > 0
  BY <1>2, SectionFields, TotalPages
<1>4. past.count <= Total(size) /\ (Done(past) => past.count = Total(size))
  BY <1>2, <1>3 DEF Made, Larger
<1>5. CASE past.building
  BY <1>1, <1>3, <1>4, <1>5 DEF Smaller
<1>6. CASE ~past.building
  <2>1. new.page = Smaller(past.page, Larger(past.count - 1, 0))
    BY <1>2, <1>6 DEF Clamped, Sections
  <2>2. CASE Done(past)
    BY <1>1, <1>3, <1>4, <2>1, <2>2 DEF Smaller, Larger
  <2>3. CASE ~Done(past)
    BY <1>1, <1>3, <1>4, <2>1, <2>3 DEF Smaller, Larger
  <2>. QED BY <2>2, <2>3
<1>. QED BY <1>5, <1>6

\* Without a remembered position of this chapter the page stays.
LEMMA NotRepositioned ==
  ASSUME NEW sec, NEW c, spine # c.spine \/ (c.offset = None /\ c.total = 0)
  PROVE  Repositioned(sec, c) = sec
BY DEF Repositioned

\* The pending jumps, by what they are not.
LEMMA JumpFields ==
  /\ NoJump.last = FALSE /\ NoJump.anchor = Nowhere /\ NoJump.offset = None
  /\ NoJump.percent = None
  /\ JustLast.last = TRUE /\ JustLast.anchor = Nowhere /\ JustLast.offset = None
  /\ JustLast.percent = None
  /\ \A u \in Units :
       /\ u # None
       /\ ToPercent(u).percent = u /\ ToPercent(u).offset = None
       /\ ToPercent(u).last = FALSE /\ ToPercent(u).anchor = Nowhere
       /\ ToOffset(u).offset = u /\ ToOffset(u).percent = None
       /\ ToOffset(u).last = FALSE /\ ToOffset(u).anchor = Nowhere
       /\ \A c \in 0..(Chapters - 1) :
            /\ ToAnchor(c, u).anchor = <<c, u>> /\ ToAnchor(c, u).percent = None
            /\ ToAnchor(c, u).last = FALSE /\ ToAnchor(c, u).offset = None
            /\ <<c, u>> # Nowhere
BY ReaderAssumption DEF NoJump, JustLast, ToPercent, ToOffset, ToAnchor, Nowhere, None, Units

\* The offset that opening looks for is laid out when the build it asks for stops.
LEMMA OffsetIsLaid ==
  ASSUME Storage, ReaderTypes, ~AtEnd, NEW u \in Units, OffsetJump = u,
         jump.percent = None, jump.anchor = Nowhere, ~Deferred
  PROVE  PageOfOffset(FreshSection, u) = u \div size
PROOF
<1>1. /\ Length \in Nat \ {0} /\ size \in Nat \ {0} /\ size \in PageSizes
      /\ u \in Nat /\ u # None /\ Total(size) \in Nat
  BY ReaderAssumption, TotalPages DEF Storage, Units, None
<1>2. CASE Hit /\ cache[spine].complete
  <2>1. FreshSection = Loaded
    BY <1>2 DEF FreshSection
  <2>2. Done(Loaded)
    BY <1>2, LoadedFields DEF Done
  <2>. QED BY <1>1, <2>1, <2>2 DEF PageOfOffset
<1>3. CASE ~(Hit /\ cache[spine].complete)
  <2>1. PICK start : start = [Loaded EXCEPT !.building = TRUE]
    OBVIOUS
  <2>2. Fresh(start) /\ ~Done(start) /\ start.laid = 0
    BY <1>3, <2>1, StartedFresh
  <2>3. start \in Sections /\ Made(start)
    BY <2>2 DEF Fresh
  <2>4. PICK n : n = (u + size - 1) \div size
    OBVIOUS
  <2>5. n \in Nat /\ u + size - 1 < n * size + size
    <3>1. u + size - 1 \in Nat
      BY <1>1
    <3>. QED BY <1>1, <2>4, <3>1, Division
  <2>6. Needed = n + 1
    BY <1>1, <2>4 DEF Needed
  <2>7. FreshSection = LaidTo(start, n + 1)
    BY <1>3, <2>1, <2>6 DEF FreshSection
  <2>8. /\ FreshSection \in Sections
        /\ FreshSection.laid = Smaller(n + 1, Total(size))
        /\ FreshSection.count >= FreshSection.laid
        /\ FreshSection.building <=> n + 1 < Total(size)
        /\ FreshSection.building <=> ~Done(FreshSection)
    BY <1>1, <2>2, <2>3, <2>5, <2>7, Extended
  <2>9. CASE Done(FreshSection)
    BY <1>1, <2>9 DEF PageOfOffset
  <2>10. CASE ~Done(FreshSection)
    <3>1. FreshSection.count \in Nat /\ FreshSection.count >= n + 1
      BY <1>1, <2>5, <2>8, <2>10, SectionFields DEF Smaller
    <3>2. u <= n * size /\ n * size \in Nat
      BY <1>1, <2>5
    <3>3. n * size <= (FreshSection.count - 1) * size
      BY <1>1, <2>5, <3>1
    <3>4. (FreshSection.count - 1) * size \in Int
      BY <1>1, <3>1
    <3>5. FreshSection.count > 0 /\ u <= (FreshSection.count - 1) * size
      BY <1>1, <2>5, <3>1, <3>2, <3>3, <3>4
    <3>. QED BY <1>1, <3>5 DEF PageOfOffset
  <2>. QED BY <2>9, <2>10
<1>. QED BY <1>2, <1>3

\* Whatever asks for the section to be opened, it is opened at the goal, and no
\* position is left that would move the page.
LEMMA OpenedAtGoal ==
  ASSUME Storage, ReaderTypes, open, ~IsOpen, ~AtEnd, JumpInv, MemoryInv, UnopenedGoal,
         ~(Chapter(spine) \subseteq goal),
         NEW before, before = IF Used THEN Cleared(cached) ELSE cached
  PROVE  /\ NumberShows(goal, spine, Placed.page, size)
         /\ spine # before.spine \/ (before.offset = None /\ before.total = 0)
PROOF
<1>1. /\ Length \in Nat \ {0} /\ size \in PageSizes /\ spine \in 0..(Chapters - 1)
      /\ Total(size) \in Nat /\ Total(size) > 0 /\ Total(size) <= Length
      /\ nextPage \in Nat /\ size # None /\ cached \in Memories
      /\ cached.offset \in MaybeUnit
  <2>1. /\ Length \in Nat \ {0} /\ size \in PageSizes /\ spine \in 0..(Chapters - 1)
        /\ nextPage \in Nat /\ cached \in Memories
    BY ReaderAssumption, LoadedFields DEF Storage, ReaderTypes, Pages
  <2>2. Total(size) \in 1..Length
    BY <2>1, TotalPages
  <2>3. size # None /\ cached.offset \in MaybeUnit
    BY <2>1, ReaderAssumption DEF None, Memories
  <2>. QED BY <2>1, <2>2, <2>3
<1>2. Nowhere[1] # spine /\ Nowhere[1] = None
  BY <1>1, ReaderAssumption DEF Nowhere, None
<1>3. Placed.page =
        IF jump.percent # None
          THEN Smaller((jump.percent * FreshSection.count) \div Length, FreshSection.count - 1)
        ELSE IF AnchorPage # None THEN AnchorPage
        ELSE IF PageOfOffset(FreshSection, OffsetJump) # None
          THEN PageOfOffset(FreshSection, OffsetJump)
        ELSE Target
  <2>1. FreshSection \in Sections
    BY FreshSectionIsFresh DEF Fresh
  <2>. QED BY <2>1 DEF Placed, Sections
<1>4. /\ Cleared(cached).offset = None /\ Cleared(cached).total = 0
      /\ cached.spine = spine /\ cached.offset = None => cached.total = 0
  BY <1>1 DEF Cleared, Memories, MemoryInv, Provisional
<1>5. ASSUME Used \/ cached.offset = None \/ cached.spine # spine
      PROVE  spine # before.spine \/ (before.offset = None /\ before.total = 0)
  BY <1>4, <1>5
<1>6. \A u \in Units : u \div size \in Nat /\ u \div size # None
  BY <1>1, TotalPages DEF None
<1>7. CASE jump = JustLast /\ <<spine, Length - 1>> \in goal
  <2>1. AnchorPage = None /\ OffsetJump = None /\ jump.percent = None /\ Target = Length
    BY <1>2, <1>7, JumpFields DEF AnchorPage, OffsetJump, Target
  <2>2. Placed.page = Length
    BY <1>3, <2>1 DEF PageOfOffset
  <2>3. cached.offset # None => cached.spine # spine
    BY <1>7, JumpFields DEF MemoryInv
  <2>4. Length >= Total(size) - 1 /\ Length \in Nat
    BY <1>1
  <2>5. NumberShows(goal, spine, Length, size)
    BY <1>1, <1>7, <2>4, GoalPages
  <2>. QED BY <1>5, <2>2, <2>3, <2>5
<1>8. ASSUME NEW u \in Units, <<spine, u>> \in goal, jump = ToAnchor(spine, u)
      PROVE  /\ NumberShows(goal, spine, Placed.page, size)
             /\ spine # before.spine \/ (before.offset = None /\ before.total = 0)
  <2>1. jump.percent = None /\ jump.anchor = <<spine, u>> /\ jump # NoJump /\ jump # JustLast
    BY <1>1, <1>8, JumpFields
  <2>2. AnchorPage = u \div size /\ AnchorPage # None
    BY <1>6, <2>1 DEF AnchorPage
  <2>3. cached.offset = None
    BY <2>1 DEF MemoryInv
  <2>4. Placed.page = u \div size
    BY <1>3, <2>1, <2>2
  <2>. QED BY <1>1, <1>5, <1>8, <2>3, <2>4, GoalPages
<1>9. ASSUME NEW u \in Units, <<spine, u>> \in goal, jump = ToOffset(u),
             nextPage = u \div size \/ ~Unfinished(spine)
      PROVE  /\ NumberShows(goal, spine, Placed.page, size)
             /\ spine # before.spine \/ (before.offset = None /\ before.total = 0)
  <2>1. /\ jump.percent = None /\ jump.anchor = Nowhere /\ jump.offset = u
        /\ jump.last = FALSE /\ u # None
    BY <1>9, JumpFields
  <2>2. AnchorPage = None /\ OffsetJump = u /\ Target = nextPage /\ Used
    BY <1>2, <2>1 DEF AnchorPage, OffsetJump, Target, Used
  <2>3. CASE ~Deferred
    <3>1. PageOfOffset(FreshSection, u) = u \div size
      BY <2>1, <2>2, <2>3, OffsetIsLaid
    <3>2. Placed.page = u \div size
      BY <1>3, <1>6, <2>1, <2>2, <3>1
    <3>. QED BY <1>1, <1>5, <1>9, <2>2, <3>2, GoalPages
  <2>4. CASE Deferred
    <3>1. Hit /\ ~cache[spine].complete
      BY <2>4, LoadedFields DEF Deferred
    <3>2. nextPage = u \div size
      BY <1>9, <3>1 DEF Unfinished, Hit
    <3>3. PageOfOffset(FreshSection, u) \in {None, u \div size}
      BY DEF PageOfOffset
    <3>4. Placed.page = u \div size
      BY <1>3, <2>1, <2>2, <3>2, <3>3
    <3>. QED BY <1>1, <1>5, <1>9, <2>2, <3>4, GoalPages
  <2>. QED BY <2>3, <2>4
<1>10. CASE jump = NoJump /\ Named(goal, spine, nextPage, cached.offset, size, LayoutsOf(spine))
  <2>1. /\ jump.percent = None /\ jump.anchor = Nowhere /\ jump.offset = None
        /\ jump.last = FALSE /\ jump # JustLast
    BY <1>10, JumpFields
  <2>2. AnchorPage = None /\ Target = nextPage
    BY <1>2, <2>1 DEF AnchorPage, Target
  <2>3. IF cached.offset = None THEN NumberShows(goal, spine, nextPage, size)
        ELSE /\ <<spine, cached.offset>> \in goal
             /\ \A s \in LayoutsOf(spine) : NumberShows(goal, spine, nextPage, s)
    BY <1>10 DEF Named
  <2>4. CASE Hit
    <3>1. size \in LayoutsOf(spine)
      BY <1>1, <2>4, ReaderAssumption DEF LayoutsOf, Hit
    <3>2. OffsetJump = None /\ Used
      BY <2>1, <2>4 DEF OffsetJump, Used
    <3>3. Placed.page = nextPage
      BY <1>3, <2>1, <2>2, <3>2 DEF PageOfOffset
    <3>. QED BY <1>5, <2>3, <3>1, <3>2, <3>3
  <2>5. CASE ~Hit /\ cached.offset # None
    <3>1. cached.spine = spine /\ cached.offset \in Units
      BY <1>1, <2>1, <2>5 DEF MemoryInv, MaybeUnit
    <3>2. OffsetJump = cached.offset
      BY <2>1, <2>5, <3>1 DEF OffsetJump
    <3>3. ~Deferred
      BY <2>5, LoadedFields DEF Deferred
    <3>4. PageOfOffset(FreshSection, OffsetJump) = cached.offset \div size
      BY <2>1, <3>1, <3>2, <3>3, OffsetIsLaid
    <3>5. Used
      BY <1>6, <3>1, <3>4 DEF Used
    <3>6. Placed.page = cached.offset \div size
      BY <1>3, <1>6, <2>1, <2>2, <3>1, <3>4
    <3>. QED BY <1>1, <1>5, <2>3, <2>5, <3>1, <3>5, <3>6, GoalPages
  <2>6. CASE ~Hit /\ cached.offset = None
    <3>1. OffsetJump = None
      BY <2>1, <2>6 DEF OffsetJump
    <3>2. Placed.page = nextPage
      BY <1>3, <2>1, <2>2, <3>1 DEF PageOfOffset
    <3>. QED BY <1>5, <2>3, <2>6, <3>2
  <2>. QED BY <2>4, <2>5, <2>6
<1>. QED BY <1>7, <1>8, <1>9, <1>10 DEF UnopenedGoal, Unopened

\* The section that a render leaves is at a page that shows the goal; what it
\* remembers of positions is only what the goal allows for.
LEMMA DrawnAtGoal ==
  ASSUME CoreInv, JumpInv, MemoryInv, OpenedGoal, UnopenedGoal, RenderDraw
  PROVE  /\ OnPage(spine, section'.page, size) \cap goal # {}
         /\ section'.page \in Nat /\ section'.page < Total(size)
         /\ section'.page < section'.count
         /\ cached'.offset = None
PROOF
<1>1. /\ Storage /\ ReaderTypes /\ PlaceInv /\ open /\ ~AtEnd /\ size \in PageSizes
      /\ spine \in 0..(Chapters - 1)
      /\ Total(size) \in Nat /\ Total(size) > 0 /\ cached \in Memories
  <2>1. /\ Storage /\ ReaderTypes /\ PlaceInv /\ open /\ ~AtEnd /\ size \in PageSizes
        /\ cached \in Memories
    BY DEF CoreInv, RenderDraw, Storage, ReaderTypes
  <2>2. Total(size) \in 1..Length /\ Length \in Nat
    BY <2>1, TotalPages, ReaderAssumption
  <2>. QED BY <2>1, <2>2, LoadedFields
<1>2. PICK sec : sec = IF IsOpen THEN section ELSE Placed
  OBVIOUS
<1>3. sec \in Sections /\ Made(sec)
  BY <1>1, <1>2, PlacedIsFresh DEF Fresh, Storage, IsOpen
<1>4. PICK past : past = BuiltPast(sec, sec.page)
  OBVIOUS
<1>5. PICK drawn : drawn = IF past.building THEN past ELSE Clamped(past)
  OBVIOUS
<1>6. drawn = Drawn
  BY <1>2, <1>4, <1>5 DEF Drawn
<1>7. /\ Extends(drawn, sec) /\ drawn.page < drawn.count
      /\ drawn.page = Smaller(sec.page, Total(size) - 1)
      /\ drawn \in Sections /\ Made(drawn)
  BY <1>1, <1>3, <1>4, <1>5, BuiltAndClamped, DrawnPage DEF Extends
<1>8. PICK before : before = IF ~IsOpen /\ Used THEN Cleared(cached) ELSE cached
  OBVIOUS
<1>9. before \in Memories
  BY <1>1, <1>8, ClearedMemory
<1>10. PICK now : now = Repositioned(drawn, before)
  OBVIOUS
<1>11. /\ Extends(now, drawn) /\ now.count = drawn.count /\ now.page < now.count
       /\ now.building = drawn.building /\ now \in Sections /\ Made(now)
  BY <1>1, <1>7, <1>9, <1>10, RepositionedExtends DEF Extends
<1>12. /\ section' = now
       /\ cached' = IF now.building THEN before ELSE Cleared(before)
  BY <1>6, <1>8, <1>10 DEF RenderDraw
<1>13. now.page \in Nat /\ now.page < Total(size)
  <2>1. /\ now.page \in Nat /\ now.count \in Nat /\ now.laid \in Nat /\ now.partial \in Nat
    BY <1>11, SectionFields
  <2>. QED BY <1>1, <1>11, <2>1 DEF Made, Larger
<1>14. OnPage(spine, now.page, size) \cap goal # {}
  <2>1. CASE Chapter(spine) \subseteq goal
    <3>1. NumberShows(goal, spine, now.page, size)
      BY <1>1, <1>13, <2>1, GoalPages
    <3>2. Smaller(now.page, Total(size) - 1) = now.page
      BY <1>1, <1>13 DEF Smaller
    <3>. QED BY <1>1, <1>13, <3>1, <3>2, ShownPage
  <2>2. CASE ~(Chapter(spine) \subseteq goal)
    <3>1. /\ NumberShows(goal, spine, sec.page, size)
          /\ spine # before.spine \/ (before.offset = None /\ before.total = 0)
      <4>1. CASE IsOpen
        <5>1. cached.offset = None /\ (cached.spine = spine => cached.total = 0)
          BY <2>2, <4>1 DEF MemoryInv, Provisional
        <5>. QED BY <1>1, <1>2, <1>8, <2>2, <4>1, <5>1 DEF OpenedGoal
      <4>2. CASE ~IsOpen
        BY <1>1, <1>2, <1>8, <2>2, <4>2, OpenedAtGoal
      <4>. QED BY <4>1, <4>2
    <3>2. now.page = Smaller(sec.page, Total(size) - 1)
      BY <1>7, <1>10, <3>1, NotRepositioned
    <3>3. sec.page \in Nat
      BY <1>3, SectionFields
    <3>. QED BY <1>1, <3>1, <3>2, <3>3, ShownPage
  <2>. QED BY <2>1, <2>2
<1>15. cached'.offset = None
  <2>1. Cleared(before).offset = None /\ Cleared(cached).offset = None
    BY <1>1, <1>9 DEF Cleared, Memories
  <2>2. SUFFICES ASSUME now.building, ~IsOpen, ~Used, cached.offset # None
                 PROVE  FALSE
    BY <1>8, <1>12, <2>1 DEF MemoryInv
  <2>3. CASE cached.spine = spine /\ jump = NoJump
    <3>1. ~Hit /\ PageOfOffset(FreshSection, OffsetJump) = None
      BY <2>2 DEF Used
    <3>2. OffsetJump = cached.offset /\ jump.percent = None /\ jump.anchor = Nowhere
      BY <2>3, <3>1, JumpFields DEF OffsetJump
    <3>3. ~Deferred
      BY <1>1, <3>1, LoadedFields DEF Deferred
    <3>4. cached.offset \in Units
      BY <1>1, <2>2 DEF Memories, MaybeUnit
    <3>5. cached.offset \div size \in Nat
      BY <1>1, <3>4, TotalPages
    <3>. QED BY <1>1, <3>1, <3>2, <3>3, <3>4, <3>5, OffsetIsLaid DEF None
  <2>4. CASE jump = JustLast
    <3>1. Nowhere[1] # spine
      BY <1>1, ReaderAssumption DEF Nowhere, None
    <3>2. /\ AnchorPage = None /\ OffsetJump = None /\ jump.percent = None
          /\ Target = Length
      BY <2>4, <3>1, JumpFields DEF AnchorPage, OffsetJump, Target
    <3>3. FreshSection \in Sections
      BY <1>1, FreshSectionIsFresh DEF Fresh
    <3>4. sec.page = Length
      BY <1>2, <2>2, <3>2, <3>3 DEF Placed, PageOfOffset, Sections
    <3>5. past.building /\ drawn = past /\ past.page = Length
      BY <1>1, <1>3, <1>4, <1>5, <1>11, <2>2, <3>4, BuiltAndClamped, BuiltPastExtends
    <3>6. drawn.count <= Length /\ drawn.count \in Nat /\ Length \in Nat
      BY <1>7, SectionFields, ReaderAssumption
    <3>. QED BY <1>7, <3>5, <3>6
  <2>. QED BY <1>1, <2>2, <2>3, <2>4 DEF MemoryInv
<1>. QED BY <1>11, <1>12, <1>13, <1>14, <1>15

-----------------------------------------------------------------------------
(* What steps leave as it was.                                             *)

\* Only opening a section adds a layout in which pages are found.
LEMMA LayoutsKept ==
  ASSUME Storage, StorageStep, IsOpen \/ section' = NoSection, NEW c \in 0..Chapters
  PROVE  LayoutsOf(c)' \subseteq LayoutsOf(c)
PROOF
<1>1. NoFile.size \notin PageSizes /\ NoSection.ch # c
  BY ReaderAssumption DEF NoFile, NoSection, None
<1>2. \A s \in PageSizes : s \in LayoutsOf(c) <=>
        (section.ch = c /\ s = size) \/ (c # Chapters /\ cache[c].size = s)
  BY DEF LayoutsOf
<1>3. \A s \in PageSizes : s \in LayoutsOf(c)' <=>
        (section'.ch = c /\ s = size') \/ (c # Chapters /\ cache'[c].size = s)
  BY DEF LayoutsOf
<1>4. SUFFICES ASSUME NEW s \in PageSizes, s \in LayoutsOf(c)' PROVE s \in LayoutsOf(c)
  BY DEF LayoutsOf
<1>5. CASE Released
  <2>1. c # Chapters /\ cache'[c].size = s
    BY <1>1, <1>3, <1>4, <1>5 DEF Released
  <2>2. c \in 0..(Chapters - 1)
    BY <2>1, ReaderAssumption
  <2>3. cache'[c] \in Left(c)
    BY <1>5, <2>2 DEF Released
  <2>4. CASE cache'[c] \in {cache[c], NoFile}
    BY <1>1, <1>2, <2>1, <2>4
  <2>5. CASE section.ch = c /\ cache'[c].size = size
    BY <1>2, <2>1, <2>5
  <2>. QED BY <2>3, <2>4, <2>5 DEF Left
<1>6. CASE Grown
  <2>1. section'.ch = section.ch /\ size' = size /\ cache' = Committed(section')
    BY <1>6 DEF Grown, Extends
  <2>2. CASE section.ch = c /\ s = size
    BY <1>2, <2>2
  <2>3. CASE ~(section.ch = c /\ s = size)
    <3>1. c # Chapters /\ cache'[c].size = s /\ c \in 0..(Chapters - 1)
      BY <1>3, <1>4, <2>1, <2>3, ReaderAssumption
    <3>2. CASE section.ch # c
      <4>1. cache'[c] = cache[c]
        BY <2>1, <3>1, <3>2 DEF Committed, Storage
      <4>. QED BY <1>2, <3>1, <4>1
    <3>3. CASE section.ch = c
      <4>1. cache'[c].size \in {size, cache[c].size, NoFile.size}
        BY <2>1, <3>1, <3>3 DEF Committed, Storage
      <4>. QED BY <1>1, <1>2, <2>3, <3>1, <3>3, <4>1
    <3>. QED BY <3>2, <3>3
  <2>. QED BY <2>2, <2>3
<1>7. ~Opened
  <2>1. Opened => section' \in Sections /\ ~IsOpen
    BY DEF Opened, Fresh
  <2>. QED BY <2>1, SectionFields
<1>. QED BY <1>5, <1>6, <1>7 DEF StorageStep

LEMMA StartPage ==
  ASSUME ReaderTypes
  PROVE  Start \in 0..Chapters /\ file.page \in Nat /\ file.total \in Nat
         /\ file.offset \in MaybeUnit
PROOF
<1>1. CASE file = NoProgress
  BY <1>1, ReaderAssumption DEF Start, NoProgress, MaybeUnit
<1>2. CASE file # NoProgress
  BY <1>2, ReaderAssumption DEF Start, ReaderTypes, Records, Pages
<1>. QED BY <1>1, <1>2

\* The card still leads to the place, whatever happens to the section that is open.
LEMMA KeptFrame ==
  ASSUME CoreInv, StorageStep, IsOpen \/ section' = NoSection, KeptInv,
         UNCHANGED <<size, file, kept>>, open', rpc' = rpc
  PROVE  KeptInv'
PROOF
<1>1. Start' = Start /\ Start \in 0..Chapters /\ file.page \in Nat /\ size \in PageSizes
  BY StartPage DEF Start, CoreInv, Storage
<1>2. LayoutsOf(Start)' \subseteq LayoutsOf(Start)
  BY <1>1, LayoutsKept DEF CoreInv
<1>3. PICK fewer : fewer = LayoutsOf(Start)'
  OBVIOUS
<1>4. rpc = "idle" => Named(kept, Start, file.page, file.offset, size, fewer)
  BY <1>1, <1>2, <1>3, NamedKept DEF KeptInv
<1>5. LayoutsOf(Start') = LayoutsOf(Start) /\ LayoutsOf(Start)' = fewer
  BY <1>1, <1>3
<1>. QED BY <1>1, <1>3, <1>4 DEF KeptInv, LayoutsOf

LEMMA NotesFrame ==
  ASSUME NotesInv, size' = size, notes' = notes, inNote' = inNote \/ notes = <<>>
  PROVE  NotesInv'
BY DEF NotesInv

\* A section was dropped, or there was none, and nothing was saved.
LEMMA DroppedGoal ==
  ASSUME CoreInv, StorageStep, section' = NoSection, KeptInv,
         UNCHANGED <<size, file, kept>>, open', rpc' = rpc,
         JumpInv', MemoryInv', UnopenedGoal', NotesInv',
         spine' = Chapters => Chapter(spine') \subseteq goal'
  PROVE  GoalInv'
PROOF
<1>1. KeptInv'
  BY KeptFrame
<1>2. OpenedGoal' /\ DrawnInv'
  BY DEF OpenedGoal, DrawnInv, IsOpen, AtEnd
<1>. QED BY <1>1, <1>2 DEF GoalInv

\* The page of the open section was moved to show the goal.
LEMMA MovedGoal ==
  ASSUME CoreInv, StorageStep, GoalInv, IsOpen, open', ~AtEnd,
         NEW p \in Pages, MoveTo(p), NumberShows(goal', spine, p, size),
         UNCHANGED <<size, file, kept>>, rpc' = rpc, rpc = "idle",
         cached'.offset = None, ~Provisional(cached)', NotesInv'
  PROVE  GoalInv'
PROOF
<1>1. /\ section' = [section EXCEPT !.page = p] /\ dirty' = TRUE
      /\ spine' = spine /\ jump' = jump /\ section \in Sections
  BY DEF MoveTo, CoreInv, Storage, IsOpen
<1>2. section'.page = p /\ section' # NoSection
  <2>1. section'.page = p /\ section' \in Sections
    BY <1>1 DEF Sections
  <2>. QED BY <2>1, SectionFields
<1>3. KeptInv'
  BY KeptFrame DEF GoalInv
<1>4. JumpInv'
  BY <1>1, <1>2 DEF GoalInv, JumpInv, IsOpen, AtEnd
<1>5. MemoryInv' /\ UnopenedGoal' /\ DrawnInv'
  BY <1>1, <1>2 DEF MemoryInv, UnopenedGoal, Unopened, DrawnInv, IsOpen
<1>6. OpenedGoal'
  BY <1>1, <1>2 DEF OpenedGoal, IsOpen, AtEnd
<1>. QED BY <1>3, <1>4, <1>5, <1>6 DEF GoalInv

\* The position, what is kept and what is promised stay; the display may be asked for.
LEMMA SamePlaceGoal ==
  ASSUME GoalInv, UNCHANGED <<open, size, spine, nextPage, jump, cached, section>>,
         UNCHANGED <<shownOffset, rpc, cache, file, goal, kept>>,
         dirty' \/ ~dirty \/ AtEnd, NotesInv'
  PROVE  GoalInv'
PROOF
<1>1. JumpInv'
  BY DEF GoalInv, JumpInv, IsOpen, AtEnd
<1>2. MemoryInv' /\ OpenedGoal' /\ DrawnInv'
  BY DEF GoalInv, MemoryInv, OpenedGoal, DrawnInv, IsOpen, AtEnd, Provisional,
         NumberShows, Chapter, Total, Done
<1>3. \A c : LayoutsOf(c)' = LayoutsOf(c)
  BY DEF LayoutsOf
<1>4. UnopenedGoal' /\ KeptInv'
  <2>1. Unopened' = Unopened /\ Start' = Start /\ Unfinished(spine)' = Unfinished(spine)
    BY DEF Unopened, IsOpen, AtEnd, Start, Unfinished
  <2>. QED BY <1>3, <2>1 DEF GoalInv, UnopenedGoal, KeptInv
<1>. QED BY <1>1, <1>2, <1>4 DEF GoalInv

-----------------------------------------------------------------------------
(* Turning pages and jumping.                                              *)

\* Nothing is pending when the section is dropped.
LEMMA NothingPending ==
  ASSUME Lossy = {}, JumpInv, DropSection, IsOpen \/ (Unopened => jump = NoJump)
  PROVE  jump = NoJump
PROOF
<1>1. CASE IsOpen
  <2>1. ~jump.last
    BY <1>1 DEF DropSection, StaleJump
  <2>. QED BY <1>1, <2>1, JumpFields DEF JumpInv
<1>2. CASE ~IsOpen
  BY <1>2 DEF JumpInv, Unopened
<1>. QED BY <1>1, <1>2

\* How a jump leads to the goal it sets, in the chapter c that it opens at page p.
Leads(j, c, p) ==
  \/ \E u \in Units : j = ToPercent(u) /\ Chapter(c) \subseteq goal'
  \/ j = JustLast /\ <<c, Length - 1>> \in goal'
  \/ \E u \in Units :
       /\ <<c, u>> \in goal'
       /\ j = ToAnchor(c, u) \/ (j = ToOffset(u) /\ (p = u \div size \/ ~Unfinished(c)'))
  \/ /\ j = NoJump
     /\ Chapter(c) \subseteq goal'
        \/ ((p = 0 => <<c, 0>> \in goal') /\ NumberShows(goal', c, p, size))

LEMMA GoneTo ==
  ASSUME CoreInv, StorageStep, KeptInv, NEW c \in 0..Chapters, NEW p, NEW j, GoTo(c, p, j),
         UNCHANGED <<size, file, kept>>, rpc' = rpc, open', NotesInv',
         cached'.offset = None, ~Provisional(cached)',
         IF c = Chapters THEN j = NoJump /\ Chapter(c) \subseteq goal' ELSE Leads(j, c, p)
  PROVE  GoalInv'
PROOF
<1>1. /\ section' = NoSection /\ spine' = c /\ nextPage' = p /\ jump' = j
      /\ size' = size
  BY DEF GoTo, DropSection
<1>2. JumpInv'
  BY <1>1 DEF JumpInv, IsOpen, AtEnd, Leads
<1>3. MemoryInv'
  BY DEF MemoryInv
<1>4. UnopenedGoal'
  <2>1. SUFFICES ASSUME c # Chapters PROVE UnopenedGoal'
    BY <1>1 DEF UnopenedGoal, Unopened, AtEnd
  <2>2. Leads(j, c, p)
    BY <2>1
  <2>3. CASE \E u \in Units : j = ToPercent(u) /\ Chapter(c) \subseteq goal'
    BY <1>1, <2>3 DEF UnopenedGoal
  <2>4. CASE j = JustLast /\ <<c, Length - 1>> \in goal'
    BY <1>1, <2>4 DEF UnopenedGoal
  <2>5. ASSUME NEW u \in Units, <<c, u>> \in goal',
               j = ToAnchor(c, u) \/ (j = ToOffset(u) /\ (p = u \div size \/ ~Unfinished(c)'))
        PROVE  UnopenedGoal'
    <3>1. Unfinished(spine)' <=> Unfinished(c)'
      BY <1>1 DEF Unfinished
    <3>2. nextPage' = u \div size' <=> p = u \div size
      BY <1>1
    <3>. QED BY <1>1, <2>5, <3>1, <3>2 DEF UnopenedGoal
  <2>6. CASE /\ j = NoJump
             /\ Chapter(c) \subseteq goal'
                \/ ((p = 0 => <<c, 0>> \in goal') /\ NumberShows(goal', c, p, size))
    <3>1. Named(goal', c, p, None, size, LayoutsOf(spine)')
      BY <2>1, <2>6 DEF Named
    <3>. QED BY <1>1, <2>6, <3>1 DEF UnopenedGoal
  <2>. QED BY <2>2, <2>3, <2>4, <2>5, <2>6 DEF Leads
<1>. QED BY <1>1, <1>2, <1>3, <1>4, DroppedGoal DEF GoTo, DropSection

LEMMA ClearedFields ==
  ASSUME ReaderTypes, cached' = Cleared(cached)
  PROVE  cached'.offset = None /\ ~Provisional(cached)'
BY DEF ReaderTypes, Memories, Cleared, Provisional

\* The goals of the actions are shown by the pages they go to.
LEMMA StartOfPage ==
  ASSUME size \in PageSizes, NEW c, NEW p \in Nat
  PROVE  NumberShows(PageStart(c, p), c, p, size)
BY GoalPages DEF PageStart

\* A page of the open section, the next chapter, or the end of the book.
LEMMA StepTurnForward ==
  ASSUME CoreInv, GoalInv, Lossy = {}, TurnForward
  PROVE  GoalInv'
PROOF
<1>1. /\ open /\ open' = open /\ IsOpen /\ ~AtEnd /\ cached' = Cleared(cached)
      /\ UNCHANGED <<size, file, kept>> /\ rpc' = rpc /\ rpc = "idle"
      /\ UNCHANGED <<notes, inNote>> /\ StorageStep /\ Storage /\ ReaderTypes
      /\ size \in PageSizes /\ spine \in 0..(Chapters - 1)
  <2>1. StorageStep
    BY StepStorage DEF Next, Turn
  <2>2. rpc = "idle"
    BY DEF TurnForward, MoveTo, MayMove
  <2>. QED BY <2>1, <2>2, ReaderAssumption
           DEF TurnForward, Turning, display, CoreInv, ReaderTypes, Storage, AtEnd
<1>2. cached'.offset = None /\ ~Provisional(cached)' /\ NotesInv'
  BY <1>1, ClearedFields, NotesFrame DEF GoalInv
<1>3. section \in Sections /\ section.page \in Nat
  BY <1>1, SectionFields DEF Storage, IsOpen
<1>4. CASE /\ section.page < Length /\ MoveTo(section.page + 1)
           /\ goal' = PageStart(spine, section.page + 1)
  <2>1. section.page + 1 \in Pages /\ section.page + 1 \in Nat
    BY <1>1, <1>3, <1>4, TurnedPages
  <2>. QED BY <1>1, <1>2, <1>4, <2>1, StartOfPage, MovedGoal
<1>5. CASE spine + 1 < Chapters /\ GoTo(spine + 1, 0, jump) /\ goal' = {<<spine + 1, 0>>}
  <2>1. jump = NoJump
    BY <1>1, <1>5, NothingPending DEF GoTo, GoalInv
  <2>2. spine + 1 \in 0..Chapters /\ spine + 1 # Chapters
    BY <1>1, <1>5, ReaderAssumption
  <2>3. Leads(jump, spine + 1, 0)
    BY <1>1, <1>5, <2>1, GoalPages DEF Leads
  <2>. QED BY <1>1, <1>2, <1>5, <2>2, <2>3, GoneTo DEF GoalInv
<1>6. CASE /\ ~(section.page < section.count - 1 \/ section.building)
           /\ ~TakenForWhole /\ spine' = Chapters /\ goal' = Chapter(Chapters)
           /\ dirty' = TRUE /\ UNCHANGED <<nextPage, jump, section, cache>>
  <2>1. Done(section) /\ section.page >= section.count - 1
    <3>1. section.count \in Nat /\ section.partial \in Nat
      BY <1>3, SectionFields
    <3>. QED BY <1>3, <1>6, <3>1 DEF Done, TakenForWhole
  <2>2. KeptInv'
    BY <1>1, KeptFrame DEF GoalInv
  <2>3. JumpInv'
    BY <1>1, <1>6 DEF GoalInv, JumpInv, IsOpen
  <2>4. MemoryInv' /\ UnopenedGoal' /\ DrawnInv'
    BY <1>1, <1>2, <1>6 DEF MemoryInv, UnopenedGoal, Unopened, DrawnInv, AtEnd
  <2>5. OpenedGoal'
    BY <1>6, <2>1 DEF OpenedGoal, AtEnd, Done
  <2>. QED BY <1>2, <2>2, <2>3, <2>4, <2>5 DEF GoalInv
<1>. QED BY <1>4, <1>5, <1>6 DEF TurnForward

\* A page of the open section, or the last page of the chapter before.
LEMMA StepTurnBack ==
  ASSUME CoreInv, GoalInv, Lossy = {}, TurnBack
  PROVE  GoalInv'
PROOF
<1>1. /\ open /\ open' = open /\ IsOpen /\ ~AtEnd /\ cached' = Cleared(cached)
      /\ UNCHANGED <<size, file, kept>> /\ rpc' = rpc /\ rpc = "idle"
      /\ UNCHANGED <<notes, inNote>> /\ StorageStep /\ Storage /\ ReaderTypes
      /\ size \in PageSizes /\ spine \in 0..(Chapters - 1)
  <2>1. StorageStep
    BY StepStorage DEF Next, Turn
  <2>2. rpc = "idle"
    BY DEF TurnBack, MoveTo, MayMove
  <2>. QED BY <2>1, <2>2, ReaderAssumption
           DEF TurnBack, Turning, display, CoreInv, ReaderTypes, Storage, AtEnd
<1>2. cached'.offset = None /\ ~Provisional(cached)' /\ NotesInv'
  BY <1>1, ClearedFields, NotesFrame DEF GoalInv
<1>3. section \in Sections /\ section.page \in Nat
  BY <1>1, SectionFields DEF Storage, IsOpen
<1>4. CASE /\ section.page > 0 /\ MoveTo(section.page - 1)
           /\ goal' = PageStart(spine, section.page - 1)
  <2>1. section.page - 1 \in Pages /\ section.page - 1 \in Nat
    BY <1>1, <1>3, <1>4, TurnedPages
  <2>. QED BY <1>1, <1>2, <1>4, <2>1, StartOfPage, MovedGoal
<1>5. CASE /\ spine > 0 /\ GoTo(spine - 1, 0, [jump EXCEPT !.last = TRUE])
           /\ goal' = {<<spine - 1, Length - 1>>}
  <2>1. jump = NoJump
    BY <1>1, <1>5, NothingPending DEF GoTo, GoalInv
  <2>2. spine - 1 \in 0..Chapters /\ spine - 1 # Chapters
    BY <1>1, <1>5, ReaderAssumption
  <2>3. Leads([jump EXCEPT !.last = TRUE], spine - 1, 0)
    BY <1>5, <2>1 DEF Leads, JustLast
  <2>. QED BY <1>1, <1>2, <1>5, <2>2, <2>3, GoneTo DEF GoalInv
<1>. QED BY <1>4, <1>5 DEF TurnBack

\* Skipping keeps what is remembered: nothing is, once the chapter is settled.
LEMMA StepSkip ==
  ASSUME CoreInv, GoalInv, Lossy = {}, Skip
  PROVE  GoalInv'
PROOF
<1>1. /\ open /\ open' = open /\ IsOpen /\ ~AtEnd /\ cached' = cached
      /\ UNCHANGED <<size, file, kept>> /\ rpc' = rpc /\ rpc = "idle"
      /\ UNCHANGED <<notes, inNote>> /\ StorageStep /\ Storage /\ ReaderTypes
      /\ size \in PageSizes /\ spine \in 0..(Chapters - 1)
  <2>1. StorageStep
    BY StepStorage DEF Next, Turn
  <2>2. rpc = "idle"
    BY DEF Skip, MoveTo, MayMove
  <2>. QED BY <2>1, <2>2, ReaderAssumption
           DEF Skip, display, CoreInv, ReaderTypes, Storage, AtEnd
<1>2. cached'.offset = None /\ NotesInv'
  BY <1>1, NotesFrame DEF GoalInv, MemoryInv
<1>3. ~Provisional(cached)'
  BY <1>1, <1>2 DEF Provisional, Skip, Settled
<1>4. CASE MoveTo(0) /\ goal' = {<<spine, 0>>}
  <2>1. 0 \in Pages
    BY <1>1, TurnedPages
  <2>2. NumberShows(goal', spine, 0, size)
    BY <1>1, <1>4, GoalPages
  <2>. QED BY <1>1, <1>2, <1>3, <1>4, <2>1, <2>2, MovedGoal
<1>5. ASSUME NEW c \in 0..Chapters, GoTo(c, 0, jump),
             goal' = IF c = Chapters THEN Chapter(Chapters) ELSE {<<c, 0>>}
      PROVE  GoalInv'
  <2>1. jump = NoJump
    BY <1>1, <1>5, NothingPending DEF GoTo, GoalInv
  <2>2. c # Chapters => Leads(jump, c, 0)
    BY <1>1, <1>5, <2>1, GoalPages DEF Leads
  <2>. QED BY <1>1, <1>2, <1>3, <1>5, <2>1, <2>2, GoneTo DEF GoalInv
<1>6. CASE /\ GoTo(spine + 1, 0, jump)
           /\ goal' = IF spine + 1 = Chapters THEN Chapter(Chapters) ELSE {<<spine + 1, 0>>}
  <2>1. spine + 1 \in 0..Chapters
    BY <1>1, ReaderAssumption
  <2>. QED BY <1>5, <1>6, <2>1
<1>7. CASE spine > 0 /\ GoTo(spine - 1, 0, jump) /\ goal' = {<<spine - 1, 0>>}
  <2>1. spine - 1 \in 0..Chapters /\ spine - 1 # Chapters
    BY <1>1, <1>7, ReaderAssumption
  <2>. QED BY <1>5, <1>7, <2>1
<1>. QED BY <1>4, <1>6, <1>7 DEF Skip

\* The jump to the last page stays pending when the last section is still open, and
\* that section is at its last page.
LEMMA StepEndOfBookReturn ==
  ASSUME CoreInv, GoalInv, Lossy = {}, EndOfBookReturn
  PROVE  GoalInv'
PROOF
<1>1. /\ open /\ open' = open /\ AtEnd /\ cached' = cached
      /\ UNCHANGED <<size, file, kept, section, cache>> /\ rpc' = rpc /\ rpc = "idle"
      /\ UNCHANGED <<notes, inNote>> /\ StorageStep /\ Storage
      /\ spine' = Chapters - 1 /\ jump' = [jump EXCEPT !.last = TRUE] /\ dirty'
      /\ goal' = {<<Chapters - 1, Length - 1>>}
      /\ spine' # Chapters
  <2>1. StorageStep
    BY StepStorage DEF Next, Turn
  <2>. QED BY <2>1, ReaderAssumption
           DEF EndOfBookReturn, MayMove, display, disk, CoreInv
<1>2. NotesInv' /\ KeptInv'
  BY <1>1, NotesFrame, KeptFrame DEF GoalInv, IsOpen
<1>3. jump' = JustLast
  BY <1>1 DEF GoalInv, JumpInv, JustLast, NoJump
<1>4. JumpInv'
  BY <1>1, <1>3 DEF JumpInv, AtEnd
<1>5. MemoryInv'
  <2>1. cached'.spine = spine' => cached'.offset = None /\ cached'.total = 0
    BY <1>1 DEF EndOfBookReturn, Settled
  <2>. QED BY <1>1, <1>3, <2>1 DEF GoalInv, MemoryInv, Provisional, IsOpen
<1>6. UnopenedGoal' /\ DrawnInv'
  BY <1>1, <1>3 DEF UnopenedGoal, DrawnInv
<1>7. OpenedGoal'
  <2>1. SUFFICES ASSUME IsOpen PROVE NumberShows(goal', Chapters - 1, section.page, size)
    BY <1>1 DEF OpenedGoal, IsOpen, AtEnd
  <2>2. /\ section \in Sections /\ section.page \in Nat /\ size \in PageSizes
        /\ section.count = Total(size) /\ section.page >= section.count - 1
    BY <1>1, <2>1, SectionFields DEF GoalInv, OpenedGoal, Storage, IsOpen, Made
  <2>. QED BY <1>1, <2>2, GoalPages
<1>. QED BY <1>2, <1>4, <1>5, <1>6, <1>7 DEF GoalInv

\* What jumps have in common: nothing is pending, and the notes are kept or left.
LEMMA WhenJumping ==
  ASSUME CoreInv, GoalInv, Lossy = {}, Jump, Jumping
  PROVE  /\ open /\ open' /\ rpc = "idle" /\ rpc' = rpc /\ ~dirty
         /\ UNCHANGED <<size, file, kept>> /\ StorageStep /\ KeptInv /\ Storage
         /\ size \in PageSizes /\ spine \in 0..Chapters
         /\ cached'.offset = None /\ ~Provisional(cached)'
         /\ DropSection => jump = NoJump
         /\ Departing => NotesInv'
PROOF
<1>1. /\ open /\ open' /\ rpc = "idle" /\ rpc' = rpc /\ ~dirty
      /\ UNCHANGED <<size, file, kept>> /\ KeptInv /\ Storage /\ ReaderTypes
      /\ size \in PageSizes /\ spine \in 0..Chapters
  BY DEF Jumping, Reading, display, CoreInv, GoalInv, Storage, ReaderTypes
<1>2. StorageStep
  BY StepStorage DEF Next
<1>3. cached'.offset = None /\ ~Provisional(cached)'
  BY <1>1, ClearedFields DEF Jumping
<1>4. DropSection => jump = NoJump
  BY NothingPending DEF Jumping, GoalInv
<1>5. ASSUME Departing PROVE NotesInv'
  <2>1. notes' = notes /\ notes = <<>>
    BY <1>5 DEF Departing, Leaving, GoalInv, NotesInv
  <2>. QED BY <1>1, <2>1, NotesFrame DEF GoalInv
<1>. QED BY <1>1, <1>2, <1>3, <1>4, <1>5

LEMMA PendingJumps ==
  /\ \A c, u : [NoJump EXCEPT !.anchor = <<c, u>>] = ToAnchor(c, u)
  /\ \A u : [NoJump EXCEPT !.percent = u] = ToPercent(u)
  /\ \A u : [NoJump EXCEPT !.offset = u] = ToOffset(u)
BY DEF ToAnchor, ToPercent, ToOffset

LEMMA StepSelectChapter ==
  ASSUME CoreInv, GoalInv, Lossy = {}, NEW mark \in Marks, SelectChapter(mark[1], mark[2])
  PROVE  GoalInv'
PROOF
<1>1. PICK c \in 0..(Chapters - 1), u \in Units : c = mark[1] /\ u = mark[2]
  BY MarkPlaces
<1>2. /\ Jumping /\ Departing /\ GoTo(c, 0, [jump EXCEPT !.anchor = <<c, u>>])
      /\ goal' = {<<c, u>>} /\ DropSection
  BY <1>1 DEF SelectChapter, GoTo
<1>3. Jump
  BY DEF Jump
<1>4. jump = NoJump
  BY <1>2, <1>3, WhenJumping
<1>5. GoTo(c, 0, ToAnchor(c, u))
  BY <1>2, <1>4, PendingJumps
<1>6. c \in 0..Chapters /\ c # Chapters
  BY ReaderAssumption
<1>7. Leads(ToAnchor(c, u), c, 0)
  BY <1>2 DEF Leads
<1>. QED BY <1>2, <1>3, <1>5, <1>6, <1>7, WhenJumping, GoneTo

LEMMA StepGoToSpine ==
  ASSUME CoreInv, GoalInv, Lossy = {}, NEW c \in 0..(Chapters - 1), GoToSpine(c)
  PROVE  GoalInv'
PROOF
<1>1. Jumping /\ Departing /\ GoTo(c, 0, jump) /\ goal' = {<<c, 0>>} /\ DropSection
  BY DEF GoToSpine, GoTo
<1>2. Jump
  BY DEF Jump
<1>3. jump = NoJump /\ size \in PageSizes
  BY <1>1, <1>2, WhenJumping
<1>4. c \in 0..Chapters /\ c # Chapters
  BY ReaderAssumption
<1>5. Leads(jump, c, 0)
  BY <1>1, <1>3, GoalPages DEF Leads
<1>. QED BY <1>1, <1>2, <1>4, <1>5, WhenJumping, GoneTo

LEMMA StepJumpToPercent ==
  ASSUME CoreInv, GoalInv, Lossy = {}, NEW mark \in Marks, JumpToPercent(mark[1], mark[2])
  PROVE  GoalInv'
PROOF
<1>1. PICK c \in 0..(Chapters - 1), u \in Units : c = mark[1] /\ u = mark[2]
  BY MarkPlaces
<1>2. /\ Jumping /\ Departing /\ GoTo(c, 0, [jump EXCEPT !.percent = u])
      /\ goal' = Chapter(c) /\ DropSection
  BY <1>1 DEF JumpToPercent, GoTo
<1>3. Jump
  BY DEF Jump
<1>4. jump = NoJump
  BY <1>2, <1>3, WhenJumping
<1>5. GoTo(c, 0, ToPercent(u))
  BY <1>2, <1>4, PendingJumps
<1>6. c \in 0..Chapters /\ c # Chapters
  BY ReaderAssumption
<1>7. Leads(ToPercent(u), c, 0)
  BY <1>2 DEF Leads
<1>. QED BY <1>2, <1>3, <1>5, <1>6, <1>7, WhenJumping, GoneTo

\* A chapter that is laid out to its end is so after its section is dropped.
LEMMA StillFinished ==
  ASSUME Storage, NEW c \in 0..(Chapters - 1), ~Unfinished(c), DropSection, size' = size
  PROVE  ~Unfinished(c)'
PROOF
<1>1. NoSection.ch # c /\ section' = NoSection
  BY ReaderAssumption DEF NoSection, None, DropSection
<1>2. cache'[c] = cache[c]
  BY DEF DropSection, Suspended, Unfinished, Storage
<1>. QED BY <1>1, <1>2 DEF Unfinished

\* In the open chapter the page of the offset is known, unless the number of the
\* bookmark is one of this layout.
LEMMA StepGoToBookmark ==
  ASSUME CoreInv, GoalInv, Lossy = {}, NEW mark \in Marks, NEW s \in PageSizes,
         GoToBookmark(mark[1], mark[2], s)
  PROVE  GoalInv'
PROOF
<1>1. PICK c \in 0..(Chapters - 1), u \in Units : c = mark[1] /\ u = mark[2]
  BY MarkPlaces
<1>2. /\ s = size \/ ~Unfinished(c)
      /\ Jumping /\ Departing /\ goal' = {<<c, u>>}
  BY <1>1 DEF GoToBookmark
<1>3. Jump
  BY DEF Jump
<1>4. /\ c \in 0..Chapters /\ c # Chapters /\ size \in PageSizes /\ u # None
      /\ u \div size \in Nat /\ u \div s \in Nat
  <2>1. c \in 0..Chapters /\ c # Chapters /\ u # None
    BY ReaderAssumption DEF Units, None
  <2>2. size \in PageSizes
    BY <1>2, <1>3, WhenJumping
  <2>3. \A t \in PageSizes : u \div t \in Nat
    BY TotalPages
  <2>. QED BY <2>1, <2>2, <2>3
<1>5. NumberShows(goal', c, u \div size, size)
  BY <1>2, <1>4, GoalPages
<1>6. CASE IsOpen /\ spine = c
  <2>1. PICK p : p = IF PageOfOffset(section, u) # None THEN PageOfOffset(section, u)
                     ELSE u \div s
    OBVIOUS
  <2>2. MoveTo(p)
    BY <1>1, <1>6, <2>1 DEF GoToBookmark
  <2>3. p \in Pages
    BY <1>2, <1>3, <1>6, <2>1, WhenJumping, TurnedPages
  <2>4. p = u \div size
    <3>1. CASE PageOfOffset(section, u) # None \/ s = size
      BY <2>1, <3>1 DEF PageOfOffset
    <3>2. CASE PageOfOffset(section, u) = None /\ ~Unfinished(c)
      <4>1. section.ch = c /\ ~section.building /\ Matches(section, cache[c])
        BY <1>4, <1>6, <3>2 DEF CoreInv, PlaceInv, AtEnd, Storage, Unfinished
      <4>2. ~Done(section)
        BY <1>4, <3>2 DEF PageOfOffset, None
      <4>3. section.partial > 0
        BY <1>6, <4>1, <4>2, SectionFields DEF CoreInv, Storage, IsOpen, Done
      <4>4. cache[c].size = size /\ ~cache[c].complete
        BY <4>1, <4>2, <4>3 DEF Matches
      <4>. QED BY <3>2, <4>4 DEF Unfinished
    <3>. QED BY <1>2, <3>1, <3>2
  <2>5. ~AtEnd
    BY <1>4, <1>6 DEF AtEnd
  <2>. QED BY <1>2, <1>3, <1>5, <1>6, <2>2, <2>3, <2>4, <2>5, WhenJumping, MovedGoal
<1>7. CASE ~(IsOpen /\ spine = c)
  <2>1. GoTo(c, u \div s, [jump EXCEPT !.offset = u]) /\ DropSection
    BY <1>1, <1>7 DEF GoToBookmark, GoTo
  <2>2. jump = NoJump /\ Storage /\ size' = size
    BY <1>2, <1>3, <2>1, WhenJumping
  <2>3. GoTo(c, u \div s, ToOffset(u))
    BY <2>1, <2>2, PendingJumps
  <2>4. Leads(ToOffset(u), c, u \div s)
    BY <1>2, <2>1, <2>2, StillFinished DEF Leads
  <2>. QED BY <1>2, <1>3, <1>4, <2>3, <2>4, WhenJumping, GoneTo
<1>. QED BY <1>6, <1>7

\* The place saved is that of the page on the display.
LEMMA StepFollowLink ==
  ASSUME CoreInv, GoalInv, Lossy = {}, NEW mark \in Marks, FollowLink(mark[1], mark[2])
  PROVE  GoalInv'
PROOF
<1>1. PICK c \in 0..(Chapters - 1), u \in Units : c = mark[1] /\ u = mark[2]
  BY MarkPlaces
<1>2. /\ Jumping /\ IsOpen /\ GoTo(c, 0, [jump EXCEPT !.anchor = <<c, u>>])
      /\ goal' = {<<c, u>>} /\ inNote' = TRUE /\ DropSection
  BY <1>1 DEF FollowLink, GoTo
<1>3. PICK here : here = [spine |-> spine, page |-> section.page, at |-> goal]
  OBVIOUS
<1>4. notes' \in {notes, Append(notes, here)}
  BY <1>1, <1>3 DEF FollowLink
<1>5. Jump
  BY DEF Jump
<1>6. /\ jump = NoJump /\ ~dirty /\ size \in PageSizes /\ size' = size
      /\ section \in Sections /\ notes \in Seq(Notes)
  BY <1>2, <1>5, WhenJumping DEF CoreInv, ReaderTypes, Storage, IsOpen
<1>7. \/ Chapter(spine) \subseteq goal
      \/ spine # Chapters /\ section.page < Total(size) /\ <<spine, section.page * size>> \in goal
  <2>1. CASE AtEnd
    BY <2>1 DEF GoalInv, OpenedGoal
  <2>2. CASE ~AtEnd
    <3>1. /\ section.page < section.count /\ shownOffset = section.page * size
          /\ Chapter(spine) \subseteq goal \/ <<spine, shownOffset>> \in goal
      BY <1>2, <1>6, <2>2 DEF GoalInv, DrawnInv
    <3>2. section.count <= Total(size) /\ Total(size) \in Nat
      BY <1>2, <1>6, SectionFields, TotalPages DEF CoreInv, Storage, Made, Larger
    <3>3. section.page \in Nat /\ section.count \in Nat
      BY <1>6, SectionFields
    <3>. QED BY <2>2, <3>1, <3>2, <3>3 DEF AtEnd
  <2>. QED BY <2>1, <2>2
<1>8. NotesInv'
  <2>1. \A i \in DOMAIN notes' : (i \in DOMAIN notes /\ notes'[i] = notes[i]) \/ notes'[i] = here
    BY <1>4, <1>6
  <2>2. \A i \in DOMAIN notes :
          \/ Chapter(notes[i].spine) \subseteq notes[i].at
          \/ /\ notes[i].spine # Chapters /\ notes[i].page < Total(size)
             /\ <<notes[i].spine, notes[i].page * size>> \in notes[i].at
    BY DEF GoalInv, NotesInv
  <2>3. SUFFICES ASSUME NEW i \in DOMAIN notes'
        PROVE  \/ Chapter(notes'[i].spine) \subseteq notes'[i].at
               \/ /\ notes'[i].spine # Chapters /\ notes'[i].page < Total(size)
                  /\ <<notes'[i].spine, notes'[i].page * size>> \in notes'[i].at
    BY <1>2, <1>6 DEF NotesInv, Total, Chapter
  <2>4. CASE i \in DOMAIN notes /\ notes'[i] = notes[i]
    BY <2>2, <2>4
  <2>5. CASE notes'[i] = here
    BY <1>3, <1>7, <2>5
  <2>. QED BY <2>1, <2>4, <2>5
<1>9. GoTo(c, 0, ToAnchor(c, u))
  BY <1>2, <1>6, PendingJumps
<1>10. c \in 0..Chapters /\ c # Chapters
  BY ReaderAssumption
<1>11. Leads(ToAnchor(c, u), c, 0)
  BY <1>2 DEF Leads
<1>. QED BY <1>2, <1>5, <1>8, <1>9, <1>10, <1>11, WhenJumping, GoneTo

\* A place fewer to return to.
LEMMA FewerNotes ==
  ASSUME NotesInv, notes \in Seq(Notes), notes # <<>>, size' = size,
         notes' = SubSeq(notes, 1, Len(notes) - 1), inNote' = (inNote /\ notes' # <<>>)
  PROVE  NotesInv'
PROOF
<1>1. \A i \in DOMAIN notes' : i \in DOMAIN notes /\ notes'[i] = notes[i]
  OBVIOUS
<1>. QED BY <1>1 DEF NotesInv, Total, Chapter

LEMMA StepFollowDeadLink ==
  ASSUME CoreInv, GoalInv, FollowDeadLink
  PROVE  GoalInv'
PROOF
<1>1. NotesInv'
  BY FewerNotes DEF FollowDeadLink, CoreInv, ReaderTypes, GoalInv
<1>. QED BY <1>1, SamePlaceGoal DEF FollowDeadLink, place, display, disk

LEMMA StepReturnFromNote ==
  ASSUME CoreInv, GoalInv, Lossy = {}, ReturnFromNote
  PROVE  GoalInv'
PROOF
<1>1. PICK origin : origin = notes[Len(notes)]
  OBVIOUS
<1>2. /\ Jumping /\ notes # <<>> /\ GoTo(origin.spine, origin.page, jump)
      /\ goal' = origin.at /\ DropSection
      /\ notes' = SubSeq(notes, 1, Len(notes) - 1) /\ inNote' = (inNote /\ notes' # <<>>)
  BY <1>1 DEF ReturnFromNote, GoTo
<1>3. Jump
  BY DEF Jump
<1>4. ReaderTypes /\ NotesInv /\ notes \in Seq(Notes)
  BY DEF CoreInv, GoalInv, ReaderTypes
<1>5. NotesInv'
  BY <1>2, <1>3, <1>4, WhenJumping, FewerNotes
<1>6. Len(notes) \in DOMAIN notes
  BY <1>2, <1>4, NoteEnds
<1>7. /\ origin.spine \in 0..Chapters /\ origin.page \in Nat
      /\ \/ Chapter(origin.spine) \subseteq origin.at
         \/ /\ origin.spine # Chapters /\ origin.page < Total(size)
            /\ <<origin.spine, origin.page * size>> \in origin.at
  <2>1. origin.spine \in 0..Chapters /\ origin.page \in Nat
    BY <1>1, <1>4, <1>6, NoteFields, ReaderAssumption DEF Pages
  <2>. QED BY <1>1, <1>4, <1>6, <2>1 DEF NotesInv
<1>8. jump = NoJump /\ size \in PageSizes
  BY <1>2, <1>3, WhenJumping
<1>9. ASSUME origin.spine # Chapters PROVE Leads(jump, origin.spine, origin.page)
  <2>1. CASE Chapter(origin.spine) \subseteq origin.at
    BY <1>2, <1>8, <2>1 DEF Leads
  <2>2. CASE origin.page < Total(size) /\ <<origin.spine, origin.page * size>> \in origin.at
    <3>1. origin.page * size \in Units /\ (origin.page * size) \div size = origin.page
      BY <1>7, <1>8, <2>2, PageEnds
    <3>2. NumberShows(goal', origin.spine, origin.page, size)
      BY <1>2, <1>8, <2>2, <3>1, GoalPages
    <3>3. origin.page = 0 => <<origin.spine, 0>> \in goal'
      <4>1. 0 * size = 0
        BY <1>8, TotalPages
      <4>. QED BY <1>2, <2>2, <4>1
    <3>. QED BY <1>8, <3>2, <3>3 DEF Leads
  <2>. QED BY <1>7, <2>1, <2>2
<1>10. origin.spine = Chapters => Chapter(origin.spine) \subseteq goal'
  BY <1>2, <1>7
<1>. QED BY <1>2, <1>3, <1>5, <1>7, <1>8, <1>9, <1>10, WhenJumping, GoneTo

-----------------------------------------------------------------------------
(* Layout.                                                                 *)

\* After a change of layout the card leads to what it still promises.
LEMMA KeptReflow ==
  ASSUME CoreInv, StorageStep, section' = NoSection, KeptInv, rpc = "idle",
         size' \in PageSizes, file' = file,
         (size' = size /\ kept' = kept) \/ kept' = StillKept,
         open' \/ goal' = kept'
  PROVE  KeptInv'
PROOF
<1>1. /\ Start' = Start /\ Start \in 0..Chapters /\ file.page \in Nat
      /\ size \in PageSizes
  BY StartPage DEF Start, CoreInv, Storage
<1>2. LayoutsOf(Start)' \subseteq LayoutsOf(Start)
  BY <1>1, LayoutsKept DEF CoreInv
<1>3. PICK fewer : fewer = LayoutsOf(Start)'
  OBVIOUS
<1>4. /\ Named(kept, Start, file.page, file.offset, size, LayoutsOf(Start))
      /\ file.total # 0 /\ file.offset = None => Chapter(Start) \subseteq kept
  BY DEF KeptInv
<1>5. /\ Named(kept', Start, file.page, file.offset, size', fewer)
      /\ file.total # 0 /\ file.offset = None => Chapter(Start) \subseteq kept'
  <2>1. CASE size' = size /\ kept' = kept
    BY <1>1, <1>2, <1>3, <1>4, <2>1, NamedKept
  <2>2. CASE kept' = StillKept
    <3>1. CASE file # NoProgress /\ file.offset = None
      <4>1. kept' = Chapter(Start)
        BY <2>2, <3>1 DEF StillKept, Start
      <4>. QED BY <4>1 DEF Named
    <3>2. CASE ~(file # NoProgress /\ file.offset = None)
      <4>1. kept' = kept
        BY <2>2, <3>2 DEF StillKept
      <4>2. file.offset # None \/ file.page = 0
        BY <3>2 DEF NoProgress
      <4>. QED BY <1>1, <1>2, <1>3, <1>4, <4>1, <4>2, NamedKept
    <3>. QED BY <3>1, <3>2
  <2>. QED BY <2>1, <2>2
<1>. QED BY <1>1, <1>3, <1>5 DEF KeptInv, LayoutsOf, Chapter

\* The only layout of the open section's pages is the one in force.
LEMMA OneLayout ==
  ASSUME CoreInv, IsOpen, ~AtEnd, NEW s \in LayoutsOf(spine)
  PROVE  s = size
PROOF
<1>1. section.ch = spine /\ Matches(section, cache[spine]) /\ s # None
  BY ReaderAssumption DEF CoreInv, PlaceInv, Storage, LayoutsOf, None
<1>2. cache[spine].size \in {size, None}
  BY <1>1 DEF Matches, NoFile
<1>. QED BY <1>1, <1>2 DEF LayoutsOf

\* The offset of the page leads to it in the new layout; a place that is only a number
\* keeps its chapter.
LEMMA StepReflow ==
  ASSUME CoreInv, GoalInv, Lossy = {}, NEW s \in PageSizes, Reflow(s)
  PROVE  GoalInv'
PROOF
<1>1. /\ open' /\ rpc = "idle" /\ rpc' = rpc /\ size' = s /\ section' = NoSection
      /\ spine' = spine /\ jump' = jump /\ dirty' /\ file' = file /\ inNote' = inNote
      /\ DropSection /\ (s = size \/ jump.offset = None)
      /\ Storage /\ ReaderTypes /\ size \in PageSizes /\ StorageStep
  <2>1. StorageStep
    BY StepStorage DEF Next, Layout
  <2>. QED BY <2>1 DEF Reflow, DropSection, display, CoreInv, Storage
<1>2. IsOpen => jump = NoJump
  BY <1>1, NothingPending DEF GoalInv
<1>3. KeptInv'
  BY <1>1, KeptReflow DEF Reflow, GoalInv
<1>4. NotesInv'
  <2>1. CASE s = size
    BY <1>1, <2>1, NotesFrame DEF Reflow, GoalInv
  <2>2. CASE s # size
    <3>1. notes' = [i \in DOMAIN notes |->
                      [notes[i] EXCEPT !.at = Chapter(notes[i].spine)]]
      BY <2>2 DEF Reflow
    <3>2. \A i \in DOMAIN notes : notes[i] \in Notes
      BY <1>1 DEF ReaderTypes
    <3>3. \A i \in DOMAIN notes' : Chapter(notes'[i].spine) \subseteq notes'[i].at
      BY <3>1, <3>2 DEF Notes
    <3>4. notes' # <<>> => notes # <<>>
      BY <3>1
    <3>. QED BY <1>1, <3>3, <3>4 DEF NotesInv, GoalInv, Chapter
  <2>. QED BY <2>1, <2>2
<1>5. JumpInv'
  BY <1>1, <1>2 DEF GoalInv, JumpInv, IsOpen, AtEnd
<1>6. Numbered => goal' = Chapter(spine)
  BY DEF Reflow
<1>7. ~Numbered => goal' = IF IsOpen /\ ~AtEnd THEN PageStart(spine, section.page) ELSE goal
  BY DEF Reflow
<1>8. IsOpen => /\ cached' = Remembered /\ nextPage' = section.page
                /\ section \in Sections /\ section.page \in Nat /\ section.count \in Nat
                /\ section.page * size \in Nat
  <2>1. SUFFICES ASSUME IsOpen
        PROVE  /\ cached' = Remembered /\ nextPage' = section.page
               /\ section \in Sections /\ section.page \in Nat /\ section.count \in Nat
               /\ section.page * size \in Nat
    OBVIOUS
  <2>2. section \in Sections /\ section.page \in Nat /\ section.count \in Nat
    BY <1>1, <2>1, SectionFields DEF Storage, IsOpen
  <2>3. size \in Nat
    BY <1>1, TotalPages
  <2>. QED BY <2>1, <2>2, <2>3 DEF Reflow
<1>9. MemoryInv'
  <2>1. CASE IsOpen
    <3>1. cached'.spine = spine
      BY <1>8, <2>1 DEF Remembered
    <3>2. cached'.offset = None => Numbered
      BY <1>8, <2>1 DEF Remembered, OffsetOfPage, Numbered, None
    <3>. QED BY <1>1, <1>2, <1>6, <2>1, <3>1, <3>2 DEF MemoryInv, Provisional, IsOpen, Chapter
  <2>2. CASE ~IsOpen
    <3>1. cached' = cached
      BY <2>2 DEF Reflow
    <3>2. Chapter(spine) \subseteq goal => Chapter(spine) \subseteq goal'
      BY <1>6, <1>7, <2>2
    <3>. QED BY <1>1, <2>2, <3>1, <3>2
             DEF GoalInv, MemoryInv, Provisional, IsOpen, AtEnd, Chapter
  <2>. QED BY <2>1, <2>2
<1>10. OpenedGoal' /\ DrawnInv'
  <2>1. AtEnd => Chapter(spine) \subseteq goal'
    BY <1>6, <1>7 DEF GoalInv, OpenedGoal
  <2>. QED BY <1>1, <2>1 DEF OpenedGoal, DrawnInv, IsOpen, AtEnd, Chapter
<1>11. UnopenedGoal'
  <2>1. SUFFICES ASSUME ~AtEnd, ~Numbered PROVE UnopenedGoal'
    <3>1. CASE Numbered
      BY <1>1, <1>6, <3>1 DEF UnopenedGoal, Chapter
    <3>2. CASE AtEnd
      BY <1>1, <3>2 DEF UnopenedGoal, Unopened, AtEnd
    <3>. QED BY <2>1, <3>1, <3>2
  <2>2. spine \in 0..Chapters /\ spine # Chapters
    BY <1>1, <2>1 DEF ReaderTypes, AtEnd
  <2>3. PICK fewer : fewer = LayoutsOf(spine)'
    OBVIOUS
  <2>4. fewer \subseteq LayoutsOf(spine)
    BY <1>1, <2>2, <2>3, LayoutsKept
  <2>5. CASE IsOpen
    <3>1. section.page < section.count /\ goal' = PageStart(spine, section.page)
      BY <1>7, <1>8, <2>1, <2>5 DEF Numbered
    <3>2. section.page * size \in Units /\ Length \in Nat
      BY <1>1, <1>8, <2>5, <3>1, PageOffset, ReaderAssumption DEF Storage
    <3>3. goal' = {<<spine, section.page * size>>}
      BY <3>1, <3>2 DEF PageStart, Smaller, Units
    <3>4. cached'.offset = section.page * size /\ cached'.offset # None
      BY <1>8, <2>5, <3>1 DEF Remembered, OffsetOfPage, None
    <3>5. section.page = 0 => <<spine, 0>> \in goal'
      <4>1. 0 * size = 0
        BY <1>1, TotalPages
      <4>. QED BY <3>3, <4>1
    <3>6. \A t \in fewer : NumberShows(goal', spine, section.page, t)
      BY <1>1, <1>8, <2>1, <2>4, <2>5, <3>1, OneLayout, StartOfPage
    <3>7. Named(goal', spine, section.page, cached'.offset, s, fewer)
      BY <2>2, <3>3, <3>4, <3>5, <3>6 DEF Named
    <3>. QED BY <1>1, <1>2, <1>8, <2>3, <2>5, <3>7 DEF UnopenedGoal
  <2>6. CASE ~IsOpen
    <3>1. cached' = cached /\ nextPage' = nextPage /\ goal' = goal
      BY <1>7, <2>1, <2>6 DEF Reflow
    <3>2. cache' = cache /\ section' = section
      BY <1>1, <2>6 DEF DropSection, Suspended, IsOpen, NoSection
    <3>3. nextPage \in Nat /\ (cached.offset # None \/ nextPage = 0)
      BY <1>1, <2>1, <2>6, ReaderAssumption DEF Numbered, ReaderTypes, Pages
    <3>4. open /\ Unopened
      BY <2>1, <2>6 DEF Reflow, Unopened
    <3>5. CASE \/ Chapter(spine) \subseteq goal
               \/ jump = JustLast /\ <<spine, Length - 1>> \in goal
      BY <1>1, <3>1, <3>5 DEF UnopenedGoal, Chapter
    <3>6. ASSUME NEW u \in Units, <<spine, u>> \in goal, jump = ToAnchor(spine, u)
          PROVE  UnopenedGoal'
      BY <1>1, <3>1, <3>6 DEF UnopenedGoal
    <3>7. ASSUME NEW u \in Units, <<spine, u>> \in goal, jump = ToOffset(u),
                 nextPage = u \div size \/ ~Unfinished(spine)
          PROVE  UnopenedGoal'
      <4>1. s = size
        BY <1>1, <3>7, JumpFields
      <4>2. Unfinished(spine)' <=> Unfinished(spine)
        BY <1>1, <3>2, <4>1 DEF Unfinished
      <4>. QED BY <1>1, <3>1, <3>7, <4>1, <4>2 DEF UnopenedGoal
    <3>8. CASE /\ jump = NoJump
               /\ Named(goal, spine, nextPage, cached.offset, size, LayoutsOf(spine))
      <4>1. Named(goal, spine, nextPage, cached.offset, s, fewer)
        BY <2>4, <3>3, <3>8, NamedKept
      <4>. QED BY <1>1, <2>3, <3>1, <3>8, <4>1 DEF UnopenedGoal
    <3>. QED BY <3>4, <3>5, <3>6, <3>7, <3>8 DEF GoalInv, UnopenedGoal
  <2>. QED BY <2>5, <2>6
<1>. QED BY <1>3, <1>4, <1>5, <1>9, <1>10, <1>11 DEF GoalInv

\* The section gains pages, and its page stays unless the chapter was promised.
LEMMA GrownGoal ==
  ASSUME CoreInv, StorageStep, GoalInv, IsOpen, open', ~AtEnd, section' \in Sections,
         \/ section'.page = section.page
         \/ Chapter(spine) \subseteq goal /\ dirty',
         section'.count >= section.count,
         UNCHANGED <<size, spine, nextPage, jump, shownOffset, rpc, notes, file, goal,
                     kept, inNote>>,
         dirty' \/ ~dirty, rpc = "idle",
         cached'.offset = None, cached' = cached \/ cached'.total = 0
  PROVE  GoalInv'
PROOF
<1>1. section' # NoSection
  BY SectionFields
<1>2. KeptInv' /\ NotesInv'
  BY KeptFrame, NotesFrame DEF GoalInv
<1>3. JumpInv'
  BY <1>1 DEF GoalInv, JumpInv, IsOpen, AtEnd
<1>4. MemoryInv'
  BY DEF GoalInv, MemoryInv, Provisional, Chapter
<1>5. OpenedGoal'
  BY DEF GoalInv, OpenedGoal, NumberShows, Total, Chapter, AtEnd
<1>6. UnopenedGoal'
  BY <1>1 DEF UnopenedGoal, Unopened, IsOpen
<1>7. DrawnInv'
  <2>1. SUFFICES ASSUME ~dirty'
        PROVE  /\ section'.page < section'.count /\ shownOffset' = section'.page * size'
               /\ Chapter(spine) \subseteq goal \/ <<spine, shownOffset>> \in goal
    BY <1>1 DEF DrawnInv, Chapter
  <2>2. /\ section.page < section.count /\ shownOffset = section.page * size
        /\ Chapter(spine) \subseteq goal \/ <<spine, shownOffset>> \in goal
    BY <2>1 DEF GoalInv, DrawnInv
  <2>3. section \in Sections /\ section'.page = section.page
    BY <2>1 DEF CoreInv, Storage, IsOpen
  <2>4. section.page \in Nat /\ section.count \in Nat /\ section'.count \in Nat
    BY <2>3, SectionFields
  <2>. QED BY <2>1, <2>2, <2>3, <2>4
<1>. QED BY <1>2, <1>3, <1>4, <1>5, <1>6, <1>7 DEF GoalInv

LEMMA StepExtendStart ==
  ASSUME CoreInv, GoalInv, ExtendStart
  PROVE  GoalInv'
PROOF
<1>1. StorageStep
  BY StepStorage DEF Next, Layout
<1>2. /\ IsOpen /\ open' /\ rpc = "idle" /\ section \in Sections /\ section.partial > 0
      /\ UNCHANGED <<size, spine, nextPage, jump, shownOffset, rpc, notes, file, goal, kept,
                     inNote>>
      /\ dirty' = dirty /\ cached' = cached
  BY DEF ExtendStart, ExtendDue, CoreInv, Storage, IsOpen, display, disk, promise
<1>3. 0 \in Pages /\ section.count \in Nat
  BY <1>2, SectionFields, ReaderAssumption DEF Pages
<1>4. /\ section' \in Sections
      /\ section'.page = section.page /\ section'.count = section.count
  BY <1>2, <1>3 DEF ExtendStart, Sections
<1>5. ~AtEnd
  BY <1>2 DEF GoalInv, OpenedGoal, Done
<1>6. cached'.offset = None
  BY <1>2 DEF GoalInv, MemoryInv
<1>. QED BY <1>1, <1>2, <1>3, <1>4, <1>5, <1>6, GrownGoal

LEMMA StepBuildTick ==
  ASSUME CoreInv, GoalInv, BuildTick
  PROVE  GoalInv'
PROOF
<1>1. StorageStep /\ section' \in Sections /\ cached' \in Memories
      /\ (section'.page = section.page \/ dirty')
  BY StepStorage, TickStorage DEF Next, Layout, CoreInv
<1>2. /\ IsOpen /\ open' /\ rpc = "idle" /\ section \in Sections /\ section.building
      /\ Made(section) /\ size \in PageSizes /\ cached \in Memories
      /\ UNCHANGED <<size, spine, nextPage, jump, shownOffset, rpc, notes, file, goal, kept,
                     inNote>>
      /\ dirty' \/ ~dirty
  BY DEF BuildTick, CoreInv, Storage, IsOpen, ReaderTypes, display, promise
<1>3. cached.offset = None /\ (Provisional(cached) => Chapter(spine) \subseteq goal)
  BY <1>2 DEF GoalInv, MemoryInv
<1>4. PICK more : more = LaidTo(section, section.laid + 1)
  OBVIOUS
<1>5. more \in Sections /\ Made(more) /\ more.page = section.page /\ more.count >= section.count
  <2>1. ~Done(section) /\ section.laid \in Nat
    BY <1>2, SectionFields DEF Done
  <2>. QED BY <1>2, <1>4, <2>1, Extended
<1>6. section' = Repositioned(more, cached)
  BY <1>4 DEF BuildTick
<1>7. section'.count = more.count
  BY <1>2, <1>5, <1>6, RepositionedExtends
<1>8. section'.page = section.page \/ Chapter(spine) \subseteq goal
  BY <1>3, <1>5, <1>6, NotRepositioned DEF Provisional
<1>9. cached' = cached \/ cached' = Cleared(cached)
  BY DEF BuildTick
<1>10. cached'.offset = None /\ (cached' = cached \/ cached'.total = 0)
  BY <1>2, <1>3, <1>9 DEF Cleared, Memories
<1>11. ~AtEnd
  BY <1>2 DEF GoalInv, OpenedGoal, Done
<1>12. /\ section'.page = section.page \/ (Chapter(spine) \subseteq goal /\ dirty')
       /\ section'.count >= section.count
  BY <1>1, <1>5, <1>7, <1>8
<1>. QED BY <1>1, <1>2, <1>10, <1>11, <1>12, GrownGoal

LEMMA StepSectionFails ==
  ASSUME CoreInv, GoalInv, SectionFails
  PROVE  GoalInv'
PROOF
<1>1. StorageStep
  BY StepStorage DEF Next, Layout
<1>2. /\ IsOpen /\ open' /\ rpc' = rpc /\ section' = NoSection /\ ~AtEnd
      /\ goal' = Chapter(spine)
      /\ UNCHANGED <<size, spine, jump, cached, notes, file, kept, inNote>>
  BY DEF SectionFails, display
<1>3. jump = NoJump
  <2>1. ~jump.last
    BY <1>2 DEF SectionFails, StaleJump
  <2>. QED BY <1>2, <2>1, JumpFields DEF GoalInv, JumpInv
<1>4. JumpInv'
  BY <1>2, <1>3 DEF JumpInv
<1>5. MemoryInv' /\ UnopenedGoal'
  BY <1>2 DEF GoalInv, MemoryInv, UnopenedGoal, Chapter
<1>6. NotesInv'
  BY <1>2, NotesFrame DEF GoalInv
<1>. QED BY <1>1, <1>2, <1>4, <1>5, <1>6, DroppedGoal DEF GoalInv, AtEnd

\* What opening has used is of this layout, and leads on by its number.
LEMMA StepRenderFails ==
  ASSUME CoreInv, GoalInv, RenderFails
  PROVE  GoalInv'
PROOF
<1>1. StorageStep
  BY StepStorage DEF Next, Render
<1>2. /\ open /\ open' /\ rpc' = rpc /\ section' = NoSection /\ ~AtEnd
      /\ UNCHANGED <<size, spine, nextPage, jump, notes, file, kept, inNote>>
      /\ Storage /\ ReaderTypes /\ spine \in 0..(Chapters - 1) /\ size \in PageSizes
  BY ReaderAssumption DEF RenderFails, CoreInv, ReaderTypes, AtEnd, Storage
<1>3. NotesInv'
  BY <1>2, NotesFrame DEF GoalInv
<1>4. CASE IsOpen
  <2>1. goal' = Chapter(spine) /\ cached' = cached
    BY <1>4 DEF RenderFails
  <2>2. jump = NoJump
    <3>1. ~jump.last
      BY <1>4 DEF RenderFails, StaleJump
    <3>. QED BY <1>4, <3>1, JumpFields DEF GoalInv, JumpInv
  <2>3. JumpInv'
    BY <1>2, <2>2 DEF JumpInv
  <2>4. MemoryInv' /\ UnopenedGoal'
    BY <1>2, <1>4, <2>1 DEF GoalInv, MemoryInv, UnopenedGoal, Chapter
  <2>. QED BY <1>1, <1>2, <1>3, <2>3, <2>4, DroppedGoal DEF GoalInv, AtEnd
<1>5. CASE ~IsOpen
  <2>1. /\ goal' = goal /\ section' = section /\ Unopened
        /\ cached' = IF Hit THEN Cleared(cached) ELSE cached
    BY <1>2, <1>5 DEF RenderFails, IsOpen, Unopened
  <2>2. cached' = cached \/ (Hit /\ cached'.offset = None /\ cached'.total = 0)
    BY <1>2, <2>1 DEF Cleared, ReaderTypes, Memories
  <2>3. JumpInv'
    BY <1>2, <2>1 DEF GoalInv, JumpInv, IsOpen, AtEnd
  <2>4. MemoryInv'
    BY <1>2, <2>1, <2>2 DEF GoalInv, MemoryInv, Provisional, IsOpen, AtEnd, Chapter
  <2>5. UnopenedGoal'
    <3>1. CASE \/ Chapter(spine) \subseteq goal
               \/ jump = JustLast /\ <<spine, Length - 1>> \in goal
      BY <1>2, <2>1, <3>1 DEF UnopenedGoal, Chapter
    <3>2. ASSUME NEW u \in Units, <<spine, u>> \in goal, jump = ToAnchor(spine, u)
          PROVE  UnopenedGoal'
      BY <1>2, <2>1, <3>2 DEF UnopenedGoal
    <3>3. ASSUME NEW u \in Units, <<spine, u>> \in goal, jump = ToOffset(u),
                 nextPage = u \div size \/ ~Unfinished(spine)
          PROVE  UnopenedGoal'
      <4>1. ~Unfinished(spine) => ~Unfinished(spine)'
        <5>1. cache'[spine] \in {cache[spine], NoFile} /\ NoFile.size # size
          BY <1>2, ReaderAssumption DEF RenderFails, Storage, NoFile, None
        <5>. QED BY <1>2, <2>1, <5>1 DEF Unfinished
      <4>. QED BY <1>2, <2>1, <3>3, <4>1 DEF UnopenedGoal
    <3>4. CASE /\ jump = NoJump
               /\ Named(goal, spine, nextPage, cached.offset, size, LayoutsOf(spine))
      <4>1. PICK fewer : fewer = LayoutsOf(spine)'
        OBVIOUS
      <4>2. fewer \subseteq LayoutsOf(spine)
        <5>1. spine \in 0..Chapters
          BY <1>2 DEF ReaderTypes
        <5>. QED BY <1>1, <1>2, <4>1, <5>1, LayoutsKept
      <4>3. nextPage \in Nat
        BY <1>2, ReaderAssumption DEF ReaderTypes, Pages
      <4>4. Named(goal, spine, nextPage, cached'.offset, size, fewer)
        <5>1. CASE cached' = cached
          BY <1>2, <3>4, <4>2, <4>3, <5>1, NamedKept
        <5>2. CASE Hit /\ cached'.offset = None
          <6>1. size \in LayoutsOf(spine)
            BY <1>2, <5>2, ReaderAssumption DEF LayoutsOf, Hit
          <6>. QED BY <3>4, <5>2, <6>1 DEF Named
        <5>. QED BY <2>2, <5>1, <5>2
      <4>. QED BY <1>2, <2>1, <3>4, <4>1, <4>4 DEF UnopenedGoal
    <3>. QED BY <1>2, <2>1, <3>1, <3>2, <3>3, <3>4 DEF GoalInv, UnopenedGoal
  <2>. QED BY <1>1, <1>2, <1>3, <2>3, <2>4, <2>5, DroppedGoal DEF GoalInv, AtEnd
<1>. QED BY <1>4, <1>5

-----------------------------------------------------------------------------
(* Rendering.                                                              *)

LEMMA StepRenderDraw ==
  ASSUME CoreInv, GoalInv, RenderDraw
  PROVE  GoalInv'
PROOF
<1>1. /\ section'.page \in Nat /\ section'.page < Total(size)
      /\ section'.page < section'.count /\ cached'.offset = None /\ section' \in Sections
  BY DrawnAtGoal, DrawStorage DEF CoreInv, GoalInv
<1>2. /\ open' /\ rpc' = "save" /\ ~AtEnd /\ spine' = spine /\ size' = size
      /\ size \in PageSizes /\ shownOffset' = section'.page * size
      /\ UNCHANGED <<notes, inNote>> /\ jump' = (IF IsOpen THEN jump ELSE NoJump)
  BY DEF RenderDraw, CoreInv, Storage
<1>3. section' # NoSection
  BY <1>1, SectionFields
<1>4. goal' = IF Provisional(cached)' THEN Chapter(spine) ELSE PageStart(spine, section'.page)
  BY <1>2 DEF RenderDraw, Provisional
<1>5. JumpInv'
  BY <1>2, <1>3 DEF GoalInv, JumpInv, IsOpen
<1>6. MemoryInv'
  BY <1>1, <1>2, <1>4 DEF MemoryInv, Chapter
<1>7. PICK here : here = PageStart(spine, section'.page)
  OBVIOUS
<1>8. /\ NumberShows(here, spine, section'.page, size)
      /\ <<spine, section'.page * size>> \in here
  <2>1. section'.page * size \in Units /\ Length \in Nat
    BY <1>1, <1>2, PageEnds, ReaderAssumption
  <2>2. <<spine, section'.page * size>> \in here
    BY <1>7, <2>1 DEF PageStart, Smaller, Units
  <2>. QED BY <1>1, <1>2, <1>7, <2>2, StartOfPage
<1>9. Chapter(spine) \subseteq goal' \/ goal' = here
  BY <1>4, <1>7
<1>10. OpenedGoal'
  BY <1>2, <1>8, <1>9 DEF OpenedGoal, AtEnd, NumberShows, Chapter, Total
<1>11. UnopenedGoal'
  BY <1>3 DEF UnopenedGoal, Unopened, IsOpen
<1>12. DrawnInv'
  BY <1>1, <1>2, <1>8, <1>9 DEF DrawnInv, Chapter
<1>13. KeptInv' /\ NotesInv'
  BY <1>2, NotesFrame DEF KeptInv, GoalInv
<1>. QED BY <1>5, <1>6, <1>10, <1>11, <1>12, <1>13 DEF GoalInv

\* A page is named by its number and by its first unit while its section is open.
LEMMA PageNamed ==
  ASSUME CoreInv, IsOpen, ~AtEnd, NEW p \in Nat, p < Total(size), NEW g,
         <<spine, p * size>> \in g, NEW offset, <<spine, offset>> \in g
  PROVE  /\ Named(g, spine, p, offset, size, LayoutsOf(spine))
         /\ p = 0 => <<spine, 0>> \in g
         /\ NumberShows(g, spine, p, size)
PROOF
<1>1. /\ size \in PageSizes /\ spine # Chapters
      /\ p * size \in Units /\ (p * size) \div size = p
  BY PageEnds DEF CoreInv, Storage, AtEnd
<1>2. NumberShows(g, spine, p, size)
  BY <1>1, GoalPages
<1>3. p = 0 => <<spine, 0>> \in g
  <2>1. 0 * size = 0
    BY <1>1, TotalPages
  <2>. QED BY <2>1
<1>4. \A t \in LayoutsOf(spine) : NumberShows(g, spine, p, t)
  BY <1>2, OneLayout
<1>. QED BY <1>1, <1>2, <1>3, <1>4 DEF Named

LEMMA StepRenderSave ==
  ASSUME CoreInv, PositionInv, GoalInv, RenderSave
  PROVE  GoalInv'
PROOF
<1>1. PICK record : record = Progress(spine, section.page, Total(size))
  OBVIOUS
<1>2. /\ IsOpen /\ ~AtEnd /\ open /\ open' = open /\ rpc = "save" /\ rpc' = "idle"
      /\ section.page < section.count /\ shownOffset \in Units /\ section.ch = spine
      /\ spine \in 0..Chapters /\ spine # None
      /\ UNCHANGED <<size, spine, nextPage, jump, cached, section, shownOffset, notes,
                     cache, dirty, goal, inNote>>
  BY ReaderAssumption DEF CoreInv, PlaceInv, ClosedInv, PositionInv, SavingInv, RenderSave,
                          AtEnd, ReaderTypes, place, None
<1>3. /\ shownOffset = section.page * size
      /\ section.page \in Nat /\ section.page < Total(size)
  <2>1. section.count <= Total(size) /\ Total(size) \in Nat
    BY <1>2, SectionFields, TotalPages DEF CoreInv, Storage, IsOpen, Made, Larger
  <2>2. section.page \in Nat /\ section.count \in Nat
    BY <1>2, SectionFields DEF CoreInv, Storage, IsOpen
  <2>. QED BY <1>2, <2>1, <2>2 DEF GoalInv, DrawnInv
<1>4. /\ record.spine = spine /\ record.page = section.page
      /\ record.offset = shownOffset /\ record.offset # None
  BY <1>1, <1>2, ReaderAssumption DEF Progress, Units, None
<1>5. <<spine, shownOffset>> \in kept'
  BY <1>1, <1>2 DEF RenderSave
<1>6. /\ file'.spine = spine /\ file'.page = section.page /\ file'.offset # None
      /\ <<spine, file'.offset>> \in kept'
  <2>1. CASE Unsaved(record)
    BY <1>1, <1>4, <1>5, <2>1 DEF RenderSave
  <2>2. CASE ~Unsaved(record)
    <3>1. file' = file /\ kept \subseteq kept'
      BY <1>1, <2>2 DEF RenderSave
    <3>2. lastSaved = <<spine, section.page, section.count>> /\ lastSaved # Unsaid
      BY <1>2, <1>4, <2>2 DEF Unsaved, Unsaid
    <3>. QED BY <3>1, <3>2 DEF PositionInv, SavedInv
  <2>. QED BY <2>1, <2>2
<1>7. Start' = spine
  BY <1>2, <1>6 DEF Start, NoProgress
<1>8. PICK layouts : layouts = LayoutsOf(spine)
  OBVIOUS
<1>9. LayoutsOf(spine)' = layouts
  BY <1>2, <1>8 DEF LayoutsOf
<1>10. Named(kept', spine, section.page, file'.offset, size, layouts)
  BY <1>2, <1>3, <1>5, <1>6, <1>8, PageNamed
<1>11. KeptInv'
  BY <1>2, <1>6, <1>7, <1>9, <1>10 DEF KeptInv, LayoutsOf
<1>12. NotesInv' /\ JumpInv' /\ MemoryInv'
  BY <1>2, NotesFrame DEF GoalInv, JumpInv, MemoryInv, Provisional, IsOpen, AtEnd, Chapter
<1>13. OpenedGoal' /\ UnopenedGoal' /\ DrawnInv'
  BY <1>2 DEF GoalInv, OpenedGoal, UnopenedGoal, Unopened, DrawnInv, IsOpen, AtEnd,
              NumberShows, Chapter, Total, Done
<1>. QED BY <1>11, <1>12, <1>13 DEF GoalInv

LEMMA StepRenderOther ==
  ASSUME CoreInv, GoalInv, RenderEnd \/ Redraw \/ UNCHANGED vars
  PROVE  GoalInv'
PROOF
<1>1. /\ UNCHANGED <<open, size, spine, nextPage, jump, cached, section>>
      /\ UNCHANGED <<shownOffset, rpc, cache, file, goal, kept, notes, inNote>>
      /\ dirty' \/ ~dirty \/ AtEnd
  BY DEF RenderEnd, Redraw, vars, place, display, disk, promise, CoreInv, ReaderTypes
<1>2. NotesInv'
  BY <1>1, NotesFrame DEF GoalInv
<1>. QED BY <1>1, <1>2, SamePlaceGoal

-----------------------------------------------------------------------------
(* Opening and closing the book.                                           *)

LEMMA StepOpenBook ==
  ASSUME CoreInv, GoalInv, TextStart = 0, OpenBook
  PROVE  GoalInv'
PROOF
<1>1. /\ ~open /\ open' /\ section = NoSection /\ rpc = "idle" /\ ~dirty /\ dirty'
      /\ notes = <<>> /\ jump = NoJump
      /\ UNCHANGED <<size, jump, section, notes, cache, file, goal, kept, inNote>>
      /\ rpc' = rpc
  BY DEF OpenBook, CoreInv, ClosedInv, GoalInv, JumpInv, display, disk, promise
<1>2. /\ spine' = Start /\ nextPage' = file.page
      /\ cached' = [spine |-> Start, total |-> file.total, offset |-> file.offset]
  BY DEF OpenBook, Start, NoProgress
<1>3. /\ goal = kept
      /\ Named(kept, Start, file.page, file.offset, size, LayoutsOf(Start))
      /\ file.total # 0 /\ file.offset = None => Chapter(Start) \subseteq kept
  BY <1>1 DEF GoalInv, KeptInv
<1>4. KeptInv'
  <2>1. Start' = Start
    BY <1>1 DEF Start
  <2>. QED BY <1>1, <1>3, <2>1 DEF KeptInv, LayoutsOf, Chapter
<1>5. JumpInv' /\ NotesInv'
  BY <1>1, NotesFrame DEF JumpInv, GoalInv
<1>6. MemoryInv'
  BY <1>1, <1>2, <1>3 DEF MemoryInv, Provisional, IsOpen, Chapter
<1>7. OpenedGoal' /\ DrawnInv'
  BY <1>1, <1>2, <1>3 DEF OpenedGoal, DrawnInv, IsOpen, AtEnd, Named, Chapter
<1>8. UnopenedGoal'
  <2>1. PICK layouts : layouts = LayoutsOf(Start)
    OBVIOUS
  <2>2. LayoutsOf(spine)' = layouts
    BY <1>1, <1>2, <2>1 DEF LayoutsOf
  <2>3. Named(goal', spine', nextPage', cached'.offset, size', layouts)
    BY <1>1, <1>2, <1>3, <2>1
  <2>. QED BY <1>1, <2>2, <2>3 DEF UnopenedGoal
<1>. QED BY <1>4, <1>5, <1>6, <1>7, <1>8 DEF GoalInv

\* A reader that is closed has nothing but what is kept.
LEMMA ForgottenGoal ==
  ASSUME Forget, KeptInv'
  PROVE  GoalInv'
PROOF
<1>1. /\ ~open' /\ spine' = 0 /\ jump' = NoJump /\ section' = NoSection /\ notes' = <<>>
      /\ cached'.total = 0 /\ cached'.offset = None
  BY DEF Forget
<1>2. JumpInv' /\ MemoryInv' /\ UnopenedGoal' /\ NotesInv'
  BY <1>1 DEF JumpInv, MemoryInv, Provisional, UnopenedGoal, NotesInv, IsOpen
<1>3. OpenedGoal' /\ DrawnInv'
  BY <1>1, ReaderAssumption DEF OpenedGoal, DrawnInv, IsOpen, AtEnd
<1>. QED BY <1>2, <1>3 DEF GoalInv

\* What is saved on closing names the place that is kept.
LEMMA SavedOnClosing ==
  ASSUME CoreInv, StorageStep, section' = NoSection, size' = size, kept' = goal',
         file'.spine \in 0..Chapters,
         \/ Chapter(file'.spine) \subseteq kept'
         \/ /\ file'.total = 0 \/ file'.offset # None
            /\ Named(kept', file'.spine, file'.page, file'.offset, size, LayoutsOf(file'.spine))
  PROVE  KeptInv'
PROOF
<1>1. Start' = file'.spine
  BY ReaderAssumption DEF Start, NoProgress, None
<1>2. PICK c \in 0..Chapters : c = file'.spine
  OBVIOUS
<1>3. PICK fewer : fewer = LayoutsOf(c)'
  OBVIOUS
<1>4. fewer \subseteq LayoutsOf(c)
  BY <1>3, LayoutsKept DEF CoreInv
<1>5. Named(kept', c, file'.page, file'.offset, size, fewer)
  <2>1. Named(kept', c, file'.page, file'.offset, size, LayoutsOf(c))
        => Named(kept', c, file'.page, file'.offset, size, fewer)
    BY <1>4 DEF Named
  <2>2. CASE Chapter(c) \subseteq kept'
    BY <2>2 DEF Named
  <2>3. CASE Named(kept', c, file'.page, file'.offset, size, LayoutsOf(c))
    BY <2>1, <2>3
  <2>. QED BY <1>2, <2>2, <2>3
<1>6. LayoutsOf(Start)' = fewer
  BY <1>1, <1>2, <1>3 DEF LayoutsOf
<1>7. Named(kept, Start, file.page, file.offset, size, LayoutsOf(Start))'
  BY <1>1, <1>2, <1>5, <1>6
<1>. QED BY <1>1, <1>7 DEF KeptInv, Chapter

\* The place a note was followed from is saved by its number, with its offset where the
\* open section knows it.
LEMMA StepExit ==
  ASSUME CoreInv, GoalInv, Exit
  PROVE  GoalInv'
PROOF
<1>1. StorageStep
  BY StepStorage DEF Next, Book
<1>2. /\ Forget /\ section' = NoSection /\ size' = size /\ rpc = "idle" /\ kept' = goal'
      /\ size \in PageSizes
  BY DEF Exit, Forget, CoreInv, Storage
<1>3. CASE notes = <<>>
  <2>1. file' = file /\ kept' = kept
    BY <1>3 DEF Exit
  <2>2. KeptInv'
    BY <1>1, <1>2, <2>1, KeptReflow DEF GoalInv
  <2>. QED BY <1>2, <2>2, ForgottenGoal
<1>4. CASE notes # <<>>
  <2>1. PICK n : n = notes[1]
    OBVIOUS
  <2>2. /\ n.spine \in 0..Chapters /\ n.page \in Nat
        /\ \/ Chapter(n.spine) \subseteq n.at
           \/ /\ n.spine # Chapters /\ n.page < Total(size)
              /\ <<n.spine, n.page * size>> \in n.at
    <3>1. ReaderTypes /\ 1 \in DOMAIN notes
      BY <1>4, NoteEnds DEF CoreInv
    <3>2. n.spine \in 0..Chapters /\ n.page \in Nat
      BY <2>1, <3>1, NoteFields, ReaderAssumption DEF Pages
    <3>. QED BY <2>1, <3>1, <3>2 DEF GoalInv, NotesInv
  <2>3. file' = Progress(n.spine, n.page, 0) /\ inNote
    BY <1>4, <2>1 DEF Exit, Origin, GoalInv, NotesInv
  <2>4. file'.spine = n.spine /\ file'.page = n.page /\ file'.total = 0
    BY <2>3 DEF Progress
  <2>5. goal' = IF dirty THEN Chapter(n.spine) \cup kept ELSE n.at
    BY <1>4, <2>1, <2>3 DEF Exit
  <2>6. CASE Chapter(n.spine) \subseteq goal'
    <3>1. KeptInv'
      BY <1>1, <1>2, <2>2, <2>4, <2>6, SavedOnClosing
    <3>. QED BY <1>2, <3>1, ForgottenGoal
  <2>7. CASE ~(Chapter(n.spine) \subseteq goal')
    <3>1. /\ ~dirty /\ goal' = n.at /\ n.spine # Chapters /\ n.page < Total(size)
          /\ <<n.spine, n.page * size>> \in n.at
      BY <2>2, <2>5, <2>7
    <3>2. Named(n.at, n.spine, n.page, file'.offset, size, LayoutsOf(n.spine))
      <4>1. CASE file'.offset = None
        <5>1. n.page * size \in Units /\ (n.page * size) \div size = n.page
          BY <1>2, <2>2, <3>1, PageEnds
        <5>2. NumberShows(n.at, n.spine, n.page, size)
          BY <1>2, <3>1, <5>1, GoalPages
        <5>3. 0 * size = 0
          BY <1>2, TotalPages
        <5>4. n.page = 0 => <<n.spine, 0>> \in n.at
          BY <3>1, <5>3
        <5>. QED BY <3>1, <4>1, <5>2, <5>4 DEF Named
      <4>2. CASE file'.offset # None
        <5>1. /\ IsOpen /\ n.spine = spine /\ n.page < section.count
              /\ file'.offset = IF n.page = section.page THEN shownOffset
                                ELSE OffsetOfPage(section, n.page)
          BY <2>3, <4>2 DEF Progress
        <5>2. ~AtEnd
          BY <3>1, <5>1 DEF AtEnd
        <5>3. file'.offset = n.page * size
          BY <3>1, <5>1, <5>2 DEF GoalInv, DrawnInv, OffsetOfPage
        <5>. QED BY <2>2, <3>1, <5>1, <5>2, <5>3, PageNamed
      <4>. QED BY <4>1, <4>2
    <3>3. KeptInv'
      BY <1>1, <1>2, <2>2, <2>4, <3>1, <3>2, SavedOnClosing
    <3>. QED BY <1>2, <3>3, ForgottenGoal
  <2>. QED BY <2>6, <2>7
<1>. QED BY <1>3, <1>4

LEMMA StepSyncLeave ==
  ASSUME CoreInv, GoalInv, Lossy = {}, SyncLeave
  PROVE  GoalInv'
PROOF
<1>1. StorageStep
  BY StepStorage DEF Next, Book
<1>2. /\ Forget /\ section' = NoSection /\ size' = size /\ kept' = goal /\ goal' = goal
      /\ ~dirty /\ spine \in 0..Chapters /\ (IsOpen \/ AtEnd)
  BY DEF SyncLeave, Forget, Reading, Unopened, CoreInv, ReaderTypes
<1>3. PICK p : p = IF IsOpen THEN section.page ELSE nextPage
  OBVIOUS
<1>4. file' = Progress(spine, p, Total(size))
  BY <1>3 DEF SyncLeave
<1>5. file'.spine = spine /\ file'.page = p
  BY <1>4 DEF Progress
<1>6. CASE Chapter(spine) \subseteq goal
  <2>1. KeptInv'
    BY <1>1, <1>2, <1>5, <1>6, SavedOnClosing
  <2>. QED BY <1>2, <2>1, ForgottenGoal
<1>7. CASE ~(Chapter(spine) \subseteq goal)
  <2>1. ~AtEnd /\ IsOpen
    BY <1>2, <1>7 DEF GoalInv, OpenedGoal
  <2>2. /\ section.page < section.count /\ shownOffset = section.page * size
        /\ <<spine, shownOffset>> \in goal
    BY <1>2, <1>7, <2>1 DEF GoalInv, DrawnInv
  <2>3. section.page \in Nat /\ section.page < Total(size)
    <3>1. section.count <= Total(size) /\ Total(size) \in Nat
      BY <2>1, SectionFields, TotalPages DEF CoreInv, Storage, IsOpen, Made, Larger
    <3>2. section.page \in Nat /\ section.count \in Nat
      BY <2>1, SectionFields DEF CoreInv, Storage, IsOpen
    <3>. QED BY <2>2, <3>1, <3>2
  <2>4. p = section.page /\ file'.offset = shownOffset
    BY <1>3, <1>4, <2>1, <2>2 DEF Progress
  <2>5. shownOffset # None
    <3>1. section.page * size \in Nat
      BY <2>3, TotalPages DEF CoreInv, Storage
    <3>. QED BY <2>2, <3>1 DEF None
  <2>6. Named(goal, spine, p, file'.offset, size, LayoutsOf(spine))
    BY <2>1, <2>2, <2>3, <2>4, PageNamed
  <2>7. KeptInv'
    BY <1>1, <1>2, <1>5, <2>4, <2>5, <2>6, SavedOnClosing
  <2>. QED BY <1>2, <2>7, ForgottenGoal
<1>. QED BY <1>6, <1>7

LEMMA StepDeleteCache ==
  ASSUME CoreInv, GoalInv, DeleteCache
  PROVE  GoalInv'
PROOF
<1>1. StorageStep
  BY StepStorage DEF Next, Book
<1>2. /\ Forget /\ section' = NoSection /\ size' = size
      /\ goal' = Chapter(file'.spine) /\ kept' = goal'
  BY DEF DeleteCache, Forget
<1>3. file'.spine \in 0..Chapters
  <2>1. CASE notes = <<>>
    BY <2>1 DEF DeleteCache, CoreInv, ReaderTypes
  <2>2. CASE notes # <<>>
    <3>1. ReaderTypes /\ 1 \in DOMAIN notes
      BY <2>2, NoteEnds DEF CoreInv
    <3>2. notes[1].spine \in 0..Chapters
      BY <3>1, NoteFields
    <3>3. file'.spine = notes[1].spine
      BY <2>2 DEF DeleteCache, Origin, Progress
    <3>. QED BY <3>2, <3>3
  <2>. QED BY <2>1, <2>2
<1>4. KeptInv'
  BY <1>1, <1>2, <1>3, SavedOnClosing
<1>. QED BY <1>2, <1>4, ForgottenGoal

LEMMA StepCrash ==
  ASSUME CoreInv, GoalInv, Lossy = {}, Crash
  PROVE  GoalInv'
PROOF
<1>1. StorageStep
  BY StepStorage DEF Next, Book
<1>2. /\ Forget /\ section' = NoSection /\ size' = size /\ file' = file /\ kept' = kept
      /\ goal' = kept' /\ rpc = "idle" /\ size \in PageSizes
  BY DEF Crash, Forget, disk, CoreInv, Storage
<1>3. KeptInv'
  BY <1>1, <1>2, KeptReflow DEF GoalInv
<1>. QED BY <1>2, <1>3, ForgottenGoal

LEMMA StepChangeSettings ==
  ASSUME CoreInv, GoalInv, ChangeSettings
  PROVE  GoalInv'
PROOF
<1>1. StorageStep
  BY StepStorage DEF Next, Book
<1>2. /\ ~open' /\ spine' = 0 /\ section' = NoSection /\ notes' = <<>> /\ jump' = NoJump
      /\ cached'.total = 0 /\ cached'.offset = None
      /\ rpc = "idle" /\ size' \in PageSizes /\ file' = file
      /\ kept' = StillKept /\ goal' = kept'
  BY DEF ChangeSettings, CoreInv, ClosedInv, GoalInv, JumpInv, place, display, disk
<1>3. KeptInv'
  BY <1>1, <1>2, KeptReflow DEF GoalInv
<1>4. JumpInv' /\ MemoryInv' /\ UnopenedGoal' /\ NotesInv'
  BY <1>2 DEF JumpInv, MemoryInv, Provisional, UnopenedGoal, NotesInv, IsOpen
<1>5. OpenedGoal' /\ DrawnInv'
  BY <1>2, ReaderAssumption DEF OpenedGoal, DrawnInv, IsOpen, AtEnd
<1>. QED BY <1>3, <1>4, <1>5 DEF GoalInv

LEMMA GoalStep ==
  ASSUME CoreInv, PositionInv, GoalInv, Lossy = {}, TextStart = 0, [Next]_vars
  PROVE  GoalInv'
PROOF
<1>1. CASE Book
  BY <1>1, StepOpenBook, StepExit, StepSyncLeave, StepDeleteCache, StepCrash,
     StepChangeSettings DEF Book
<1>2. CASE Turn
  BY <1>2, StepTurnForward, StepTurnBack, StepSkip, StepEndOfBookReturn DEF Turn
<1>3. CASE Jump
  BY <1>3, StepSelectChapter, StepGoToSpine, StepJumpToPercent, StepGoToBookmark,
     StepFollowLink, StepFollowDeadLink, StepReturnFromNote DEF Jump
<1>4. CASE Layout
  BY <1>4, StepReflow, StepExtendStart, StepBuildTick, StepSectionFails DEF Layout
<1>5. CASE Render
  BY <1>5, StepRenderDraw, StepRenderFails, StepRenderSave, StepRenderOther DEF Render
<1>6. CASE UNCHANGED vars
  BY <1>6, StepRenderOther
<1>. QED BY <1>1, <1>2, <1>3, <1>4, <1>5, <1>6 DEF Next

LEMMA GoalInit ==
  ASSUME Init, TextStart = 0
  PROVE  GoalInv
PROOF
<1>1. size \in PageSizes /\ 0 # Chapters
  BY ReaderAssumption DEF Init
<1>2. <<0, 0>> \in kept
  BY DEF Init
<1>3. NumberShows(kept, 0, 0, size)
  BY <1>1, <1>2, GoalPages
<1>4. Named(kept, 0, 0, None, size, LayoutsOf(0))
  BY <1>1, <1>2, <1>3 DEF Named
<1>5. Start = 0 /\ file.page = 0 /\ file.total = 0 /\ file.offset = None
  BY DEF Init, Start, NoProgress
<1>6. KeptInv
  BY <1>4, <1>5 DEF KeptInv, Init
<1>7. JumpInv /\ MemoryInv /\ UnopenedGoal /\ NotesInv
  BY DEF Init, JumpInv, MemoryInv, Provisional, UnopenedGoal, NotesInv
<1>8. OpenedGoal /\ DrawnInv
  BY <1>1 DEF Init, OpenedGoal, DrawnInv, IsOpen, AtEnd
<1>. QED BY <1>6, <1>7, <1>8 DEF GoalInv

\* The page drawn next is known to show the goal in every state.
LEMMA GoalInvariant ==
  ASSUME Lossy = {}, TextStart = 0
  PROVE  Spec => [](CoreInv /\ PositionInv /\ GoalInv)
PROOF
<1>1. Init => CoreInv /\ PositionInv /\ GoalInv
  BY CoreInit, GoalInit DEF Init, PositionInv, SavingInv, SavedInv, SavedIsShown, Unsaid
<1>2. CoreInv /\ PositionInv /\ GoalInv /\ [Next]_vars => CoreInv' /\ PositionInv' /\ GoalInv'
  BY CoreStep, StepSaving, StepSaved, StepShown, GoalStep DEF PositionInv
<1>. QED BY <1>1, <1>2, PTL DEF Spec

\* A request to draw is answered by drawing, by an error, or by the end of the book.
LEMMA DrawnSteps ==
  ASSUME CoreInv, [Next]_vars, open', dirty, ~dirty'
  PROVE  RenderDraw \/ RenderFails \/ RenderEnd
PROOF
<1>1. ~Book
  BY DEF Book, OpenBook, Exit, SyncLeave, DeleteCache, Crash, ChangeSettings, Forget
<1>2. ~Turn
  BY DEF Turn, TurnForward, TurnBack, Skip, EndOfBookReturn, MoveTo, GoTo
<1>3. ~Jump
  BY JumpKeepsSaved DEF Reading
<1>4. ~Layout
  BY DEF Layout, Reflow, ExtendStart, BuildTick, SectionFails
<1>5. ~(RenderSave \/ Redraw)
  BY DEF RenderSave, Redraw
<1>6. ~UNCHANGED vars
  BY DEF vars
<1>. QED BY <1>1, <1>2, <1>3, <1>4, <1>5, <1>6 DEF Next, Render

-----------------------------------------------------------------------------
(* The theorems.                                                           *)

\* Sections, their files and the position fit together in every state: the inductive
\* invariant that the next three theorems follow from.
THEOREM CoreInvariant == Spec => []CoreInv
PROOF
<1>1. Init => CoreInv
  BY CoreInit
<1>2. CoreInv /\ [Next]_vars => CoreInv'
  BY CoreStep
<1>. QED BY <1>1, <1>2, PTL DEF Spec

\* Chapter, page and offsets stay in range, and so do the section and its file,
\* through any sequence of turns, jumps, changes of layout, failures and crashes.
THEOREM TypeCorrect == Spec => []TypeOK
PROOF
<1>1. CoreInv => TypeOK
  <2>1. SUFFICES ASSUME CoreInv PROVE TypeOK
    OBVIOUS
  <2>2. Storage /\ ReaderTypes
    BY <2>1 DEF CoreInv
  <2>3. SectionOK
    <3>1. CASE section = NoSection
      BY <3>1, ReaderAssumption DEF SectionOK, NoSection, Pages
    <3>2. CASE section \in Sections
      BY <3>2 DEF SectionOK, Sections
    <3>. QED BY <2>2, <3>1, <3>2 DEF Storage
  <2>4. file \in [spine : (0..Chapters) \cup {None}, page : Pages, total : Pages,
                  offset : MaybeUnit]
    <3>1. CASE file = NoProgress
      BY <3>1, ReaderAssumption DEF NoProgress, Pages, MaybeUnit
    <3>2. CASE file \in Records
      BY <3>2 DEF Records
    <3>. QED BY <2>2, <3>1, <3>2 DEF ReaderTypes
  <2>5. \A c \in DOMAIN cache :
          cache[c] \in [size : PageSizes, count : 1..Length, complete : BOOLEAN]
                       \cup {NoFile}
    BY <2>2 DEF Storage, LaidFiles
  <2>6. cached \in [spine : 0..Chapters, total : Pages, offset : MaybeUnit]
    BY <2>2 DEF ReaderTypes, Memories
  <2>7. jump \in [last : BOOLEAN, offset : MaybeUnit, percent : MaybeUnit,
                  anchor : {Nowhere} \cup ((0..(Chapters - 1)) \X Units)]
    BY <2>2 DEF ReaderTypes, Jumps
  <2>. QED BY <2>2, <2>3, <2>4, <2>5, <2>6, <2>7 DEF TypeOK, ReaderTypes, Storage
<1>. QED BY <1>1, CoreInvariant, PTL

\* What was drawn and what was saved agree, given the core invariant.
LEMMA PositionInvariant ==
  ASSUME "race" \notin Lossy
  PROVE  Spec => [](CoreInv /\ PositionInv)
PROOF
<1>1. Init => CoreInv /\ PositionInv
  BY CoreInit DEF Init, PositionInv, SavingInv, SavedInv, SavedIsShown, Unsaid
<1>2. CoreInv /\ PositionInv /\ [Next]_vars => CoreInv' /\ PositionInv'
  BY CoreStep, StepSaving, StepSaved, StepShown DEF PositionInv
<1>. QED BY <1>1, <1>2, PTL DEF Spec

\* A page is drawn only once it is laid out, whatever was laid out before and
\* whatever chapter, page, offset or percentage was asked for: "out of bounds"
\* is never shown, if pages are turned only while the render task is idle.
THEOREM DrawnExists ==
  ASSUME "race" \notin Lossy
  PROVE  Spec => []DrawnPageExists
PROOF
<1>1. PositionInv => DrawnPageExists
  BY DEF PositionInv, SavingInv, DrawnPageExists
<1>. QED BY <1>1, PositionInvariant, PTL

\* Under the same condition the page on the display, once nothing else is asked for,
\* is the one that progress.bin names by its number and by its text offset.
THEOREM DisplayedIsSaved ==
  ASSUME "race" \notin Lossy
  PROVE  Spec => []SavedIsShown
PROOF
<1>1. PositionInv => SavedIsShown
  BY DEF PositionInv
<1>. QED BY <1>1, PositionInvariant, PTL

\* The sections and section files of the reader keep the promise of ChapterPages for
\* every chapter: opening starts from what is on the card, an open section gains
\* pages (or loses all, where ChapterPages lets it), and closing it keeps what was
\* laid out or what was there before.
THEOREM KeepsChapterPages == Spec => ImplementsChapterPages
PROOF
<1>1. Init => \A c \in 0..(Chapters - 1) : Promise(c)!Init
  BY DEF Init, Promise!Init, File, OpenSection, NoSection, None
<1>2. CoreInv /\ [Next]_vars =>
        \A c \in 0..(Chapters - 1) : UNCHANGED Promise(c)!vars \/ Promise(c)!Next
  BY StepStorage, PromiseKept DEF CoreInv
<1>3. CoreInv /\ [Next]_vars =>
        [\A c \in 0..(Chapters - 1) : UNCHANGED Promise(c)!vars \/ Promise(c)!Next]_vars
  BY <1>2
<1>. QED BY <1>1, <1>3, CoreInvariant, PTL DEF Spec, ImplementsChapterPages

\* Every page drawn has one of the places that the user was promised on it, through
\* page turns, jumps, links and the way back, changes of layout, builds that stop or
\* fail, leaving, crashes and restarts, whatever the numbers of chapters, units and
\* layouts are.  It holds for a book without a text reference (TextStart = 0), as long
\* as none of the situations arises in which the code is known to lose the place.
THEOREM DrawsTheGoal ==
  ASSUME Lossy = {}, TextStart = 0
  PROVE  Spec => ShowsTheGoal
PROOF
<1>1. CoreInv /\ PositionInv /\ GoalInv /\ [Next]_vars
      => [open' /\ dirty /\ ~dirty' /\ screen' # {} => screen' \cap goal # {}]_vars
  <2>1. SUFFICES ASSUME CoreInv, GoalInv, [Next]_vars, open', dirty, ~dirty', screen' # {}
                 PROVE  screen' \cap goal # {}
    OBVIOUS
  <2>2. CASE RenderDraw
    BY <2>1, <2>2, DrawnAtGoal DEF RenderDraw, GoalInv
  <2>3. CASE RenderFails
    BY <2>1, <2>3 DEF RenderFails
  <2>4. CASE RenderEnd
    BY <2>1, <2>4 DEF RenderEnd, AtEnd, GoalInv, OpenedGoal
  <2>. QED BY <2>1, <2>2, <2>3, <2>4, DrawnSteps
<1>. QED BY <1>1, GoalInvariant, PTL DEF Spec, ShowsTheGoal
=============================================================================
