------------------------------ MODULE EpubReader ------------------------------
(***************************************************************************)
(* The reading position of an EPUB                                         *)
(* (src/activities/reader/EpubReaderActivity.cpp).                         *)
(*                                                                         *)
(* The reader says where it is by chapter and page number, but page        *)
(* numbers only mean something for one layout of the text: fonts, margins  *)
(* and orientation change, chapters are laid out a few pages at a time,    *)
(* sections are dropped and reopened, the device sleeps or loses power.    *)
(* Text offsets carry the position from one layout to the next.            *)
(*                                                                         *)
(* A chapter is a sequence of Length units of text, a layout is a number   *)
(* of units per page.  The position the user was promised is kept in goal, *)
(* a set of places (chapter and unit): the next page drawn must hold one.  *)
(* Actions of the main task that take RenderLock wait for rpc = "idle";    *)
(* SectionCache says how the pages are made and kept.                      *)
(***************************************************************************)
EXTENDS Integers, Sequences

CONSTANTS
  Chapters,     \* number of spine items; spine = Chapters is the end of the book
  Length,       \* units of text in a chapter
  PageSizes,    \* layouts: units of text on a page
  Marks,        \* places that links, contents, bookmarks and percentages name
  TextStart,    \* chapter of the book's text reference, 0 when it has none
  StartMargin,  \* PARTIAL_REBUILD_START_MARGIN
  WindowAhead,  \* BUILD_WINDOW_AHEAD
  MaxNotes,     \* MAX_FOOTNOTE_DEPTH
  Lossy         \* situations that may arise although the code loses the place:
                \* "afterEnd", "leaveNote", "oldBookmark", "race",
                \* "skip", "crash", "extension", "failedOpening"

ASSUME ReaderAssumption ==
  /\ Chapters \in Nat \ {0} /\ Length \in Nat \ {0}
  /\ PageSizes \subseteq Nat \ {0} /\ PageSizes # {}
  /\ Marks \subseteq (0..(Chapters - 1)) \X (0..(Length - 1))
  /\ TextStart \in 0..(Chapters - 1)
  /\ StartMargin \in Nat /\ WindowAhead \in Nat /\ MaxNotes \in Nat
  /\ Lossy \subseteq {"afterEnd", "leaveNote", "oldBookmark", "race", "skip", "crash",
                      "extension", "failedOpening"}

VARIABLES
  open,         \* the book is open
  size,         \* the layout of the settings in force
  spine,        \* currentSpineIndex
  nextPage,     \* nextPageNumber
  jump,         \* pendingPageJump, pendingAnchor, pendingOffsetJump, ...
  cached,       \* cachedSpineIndex, cached...TotalPageCount, cached...TextOffset
  section,      \* the open section, or NoSection
  shownOffset,  \* currentPageVisibleOffset
  lastSaved,    \* lastSavedSpineIndex, lastSavedPage, lastSavedPageCount
  notes,        \* savedPositions, up to footnoteDepth
  cache,        \* the section file of each chapter
  file,         \* progress.bin
  dirty,        \* an update was requested
  rpc,          \* render task: "idle", or "save" with the page on the display
  screen,       \* places on the display
  goal,         \* places the next page drawn must show one of (for the properties)
  kept,         \* goal of a reader that starts from progress.bin
  inNote        \* the user has not left the note that was followed

place   == <<spine, nextPage, jump, cached, section>>
display == <<shownOffset, lastSaved, rpc, screen>>
disk    == <<cache, file>>
promise == <<goal, kept, inNote>>
vars == <<open, size, place, display, notes, disk, dirty, promise>>

-----------------------------------------------------------------------------
None == -1
Units == 0..(Length - 1)
Nowhere == <<None, None>>
NoJump == [last |-> FALSE, anchor |-> Nowhere, offset |-> None, percent |-> None]
NoSection == [ch |-> None, page |-> 0, count |-> 0, laid |-> 0,
              building |-> FALSE, partial |-> 0, stuck |-> FALSE]
NoFile == [size |-> None, count |-> 0, complete |-> FALSE]
NoProgress == [spine |-> None, page |-> 0, total |-> 0, offset |-> None]

Smaller(a, b) == IF a < b THEN a ELSE b
Larger(a, b) == IF a > b THEN a ELSE b

\* Pages of a chapter, places of a chapter, and those of one page of it.
Total(s) == (Length + s - 1) \div s
Chapter(c) == {c} \X Units
OnPage(c, p, s) == {<<c, u>> : u \in {v \in Units : v \div s = p}}
PageStart(c, p) == {<<c, Smaller(p * size, Length - 1)>>}

IsOpen == section # NoSection
AtEnd == spine = Chapters

\* A section is done when nothing is left to lay out.
Done(sec) == ~sec.building /\ sec.partial = 0

\* getPageForVisibleTextOffset() and getVisibleTextOffsetForPage(): known only
\* for the pages laid out.
PageOfOffset(sec, u) ==
  IF u # None /\ (Done(sec) \/ (sec.count > 0 /\ u <= (sec.count - 1) * size))
    THEN u \div size ELSE None

OffsetOfPage(sec, p) == IF p < sec.count THEN p * size ELSE None

\* buildSomeMore() until n pages are laid out, or the chapter is.
LaidTo(sec, n) ==
  LET m == Smaller(n, Total(size))
  IN [sec EXCEPT !.laid = m, !.count = Larger(m, sec.count),
                 !.building = m < Total(size),
                 !.partial = IF m < Total(size) THEN sec.partial ELSE 0]

\* ... until page p exists, starting the build if need be.
BuiltPast(sec, p) ==
  IF Done(sec) \/ p < sec.count THEN sec ELSE LaidTo(sec, p + 1)

Cleared(c) == [c EXCEPT !.total = 0, !.offset = None]

-----------------------------------------------------------------------------
(* Pieces of the actions.                                                  *)

\* Variant: a build is suspended whatever it has laid out.
Suspended_Any ==
  IF section.building
    THEN [cache EXCEPT ![section.ch] =
            [size |-> size, count |-> section.laid, complete |-> FALSE]]
    ELSE cache

\* section.reset(): the destructor suspends a build that is worth keeping.
Suspended ==
  IF section.building /\ section.laid > section.partial
    THEN [cache EXCEPT ![section.ch] =
            [size |-> size, count |-> section.laid, complete |-> FALSE]]
    ELSE cache

\* A page jump that was not consumed must not be pending when the next section
\* is opened: onReturnFromEndOfBook() leaves one.
StaleJump == jump.last /\ IsOpen

DropSection ==
  /\ StaleJump => "afterEnd" \in Lossy
  /\ section' = NoSection
  /\ cache' = Suspended

\* The next render opens chapter c.
GoTo(c, page, j) ==
  /\ DropSection
  /\ spine' = c /\ nextPage' = page /\ jump' = j
  /\ dirty' = TRUE

\* Writes to the open section's page that do not take RenderLock.  loop() only
\* looks whether the lock is held (a turn is put off while it is), so a render can
\* still start before the write; skipPages() does not even look.
MayMove == rpc = "idle" \/ "race" \in Lossy

MoveTo(page) ==
  /\ MayMove
  /\ section' = [section EXCEPT !.page = page]
  /\ dirty' = TRUE
  /\ UNCHANGED <<spine, nextPage, jump, cache>>

\* The position was recorded as a page number, without a text offset.
Numbered ==
  IF IsOpen THEN section.page >= section.count
            ELSE cached.offset = None /\ nextPage # 0

\* Variant: the offset of the page is not remembered.
Remembered_Number == [spine |-> spine, total |-> section.count, offset |-> None]

\* What every release of the section remembers of it.
Remembered ==
  [spine |-> spine, total |-> section.count,
   offset |-> OffsetOfPage(section, section.page)]

\* Commands come from a menu, a link or a panel over a drawn page.
Reading == open /\ rpc = "idle" /\ ~dirty
\* A failed opening has left a jump or a remembered position pending.
Unopened == ~IsOpen /\ ~AtEnd
Leaving == inNote => "leaveNote" \in Lossy

Init ==
  /\ open = FALSE /\ size \in PageSizes
  /\ spine = 0 /\ nextPage = 0 /\ jump = NoJump
  /\ cached = [spine |-> 0, total |-> 0, offset |-> None]
  /\ section = NoSection /\ shownOffset = None
  /\ lastSaved = <<None, None, None>> /\ notes = <<>>
  /\ cache = [c \in 0..(Chapters - 1) |-> NoFile] /\ file = NoProgress
  /\ dirty = FALSE /\ rpc = "idle" /\ screen = {}
  /\ goal = {<<TextStart, 0>>} /\ kept = goal /\ inNote = FALSE

-----------------------------------------------------------------------------
(* Opening and closing the book.                                           *)

\* loadBook()
OpenBook ==
  /\ ~open /\ open' = TRUE
  /\ LET first == file.spine \in {None, 0} /\ TextStart # 0
         at == IF file = NoProgress THEN 0 ELSE file.spine
     IN /\ spine' = IF first THEN TextStart ELSE at
        /\ cached' = [spine |-> at, total |-> file.total,
                      offset |-> IF first THEN None ELSE file.offset]
  /\ nextPage' = file.page
  /\ dirty' = TRUE
  /\ UNCHANGED <<size, jump, section, display, notes, disk, promise>>

\* A new EpubReaderActivity starts from nothing.
Forget ==
  /\ open' = FALSE
  /\ spine' = 0 /\ nextPage' = 0 /\ jump' = NoJump
  /\ cached' = [spine |-> 0, total |-> 0, offset |-> None]
  /\ section' = NoSection /\ shownOffset' = None
  /\ lastSaved' = <<None, None, None>> /\ notes' = <<>>
  /\ dirty' = FALSE /\ rpc' = "idle" /\ screen' = {} /\ inNote' = FALSE

\* saveProgress()
Progress(c, page, total) ==
  [spine |-> c, page |-> page, total |-> total,
   offset |-> IF IsOpen /\ c = spine /\ page < section.count
                THEN IF page = section.page THEN shownOffset
                                            ELSE OffsetOfPage(section, page)
                ELSE None]

\* ~EpubReaderActivity(): inside a note the place it was followed from is saved,
\* with the offset of the page last drawn if a turn has reached its page number.
Origin == Progress(notes[1].spine, notes[1].page, 0)

Exit ==
  /\ open /\ rpc = "idle"
  /\ file' = IF notes # <<>> THEN Origin ELSE file
  /\ cache' = Suspended
  /\ goal' = CASE notes = <<>> \/ (~inNote /\ ~dirty) -> kept
               [] notes # <<>> /\ dirty -> Chapter(notes[1].spine) \cup kept
               [] OTHER -> notes[1].at
  /\ kept' = goal'
  /\ Forget /\ UNCHANGED size

\* launchKOReaderSync() saves the page and gives the book up.
SyncLeave ==
  /\ Reading
  /\ Unopened => "failedOpening" \in Lossy
  /\ LET page == IF IsOpen THEN section.page ELSE nextPage
     IN file' = Progress(spine, page, Total(size))
  /\ cache' = Suspended
  /\ kept' = goal
  /\ Forget /\ UNCHANGED <<size, goal>>

\* "Delete Book Cache": the page is saved without its offset.
DeleteCache ==
  /\ Reading /\ IsOpen
  /\ file' = IF notes # <<>>
               THEN [Origin EXCEPT !.offset = None]
               ELSE [spine |-> spine, page |-> section.page,
                     total |-> section.count, offset |-> None]
  /\ cache' = [c \in DOMAIN cache |-> NoFile]
  /\ goal' = Chapter(file'.spine) /\ kept' = goal'
  /\ Forget /\ UNCHANGED size

\* Power loss, a crash, or the app is killed.
Crash ==
  /\ open /\ (rpc = "idle" \/ "crash" \in Lossy)
  /\ goal' = kept
  /\ Forget /\ UNCHANGED <<size, disk, kept>>

\* After a change of layout progress.bin only promises what it has an offset for.
StillKept ==
  IF file # NoProgress /\ file.offset = None THEN Chapter(file.spine) ELSE kept

\* The settings are changed while the book is closed.
ChangeSettings ==
  /\ ~open
  /\ size' \in PageSizes
  /\ goal' = StillKept /\ kept' = goal'
  /\ UNCHANGED <<open, place, display, notes, disk, dirty, inNote>>

-----------------------------------------------------------------------------
(* Turning pages.                                                          *)

\* loop() starts the extension of a partial before it looks at the buttons.
ExtendDue ==
  IsOpen /\ ~section.building /\ section.partial > 0 /\ ~section.stuck
  /\ section.page + StartMargin >= section.count

Turning ==
  /\ open /\ IsOpen /\ ~AtEnd /\ ~ExtendDue
  /\ cached' = Cleared(cached)
  /\ UNCHANGED <<open, size, display, notes, file, kept, inNote>>

\* When the extension of a partial could not start, its last page is taken for
\* the last of the chapter.
TakenForWhole == section.partial > 0

\* pageTurn(true)
TurnForward ==
  /\ Turning
  /\ IF section.page < section.count - 1 \/ section.building
       THEN /\ section.page < Length
            /\ MoveTo(section.page + 1)
            /\ goal' = PageStart(spine, section.page + 1)
       ELSE IF spine + 1 < Chapters
       THEN /\ rpc = "idle"
            /\ TakenForWhole => "extension" \in Lossy
            /\ GoTo(spine + 1, 0, jump)
            /\ goal' = IF TakenForWhole THEN PageStart(spine, section.page + 1)
                                        ELSE {<<spine + 1, 0>>}
       ELSE /\ MayMove
            /\ TakenForWhole => "extension" \in Lossy
            /\ spine' = Chapters
            /\ goal' = IF TakenForWhole THEN PageStart(spine, section.page + 1)
                                        ELSE Chapter(Chapters)
            /\ dirty' = TRUE
            /\ UNCHANGED <<nextPage, jump, section, cache>>

\* pageTurn(false)
TurnBack ==
  /\ Turning
  /\ \/ /\ section.page > 0 /\ MoveTo(section.page - 1)
        /\ goal' = PageStart(spine, section.page - 1)
     \/ /\ section.page = 0 /\ spine > 0 /\ rpc = "idle"
        /\ GoTo(spine - 1, 0, [jump EXCEPT !.last = TRUE])
        /\ goal' = {<<spine - 1, Length - 1>>}

\* skipPages() and onReturnFromEndOfBook() leave the remembered position pending:
\* when it is of the chapter they go to, the build that completes applies it.
Settled(c) ==
  c = cached.spine /\ (cached.offset # None \/ cached.total # 0) => "skip" \in Lossy

\* skipPages()
Skip ==
  /\ open /\ IsOpen /\ ~AtEnd
  /\ \/ /\ rpc = "idle"
        /\ GoTo(spine + 1, 0, jump)
        /\ goal' = IF spine + 1 = Chapters THEN Chapter(Chapters)
                                           ELSE {<<spine + 1, 0>>}
     \/ section.page > 0 /\ MoveTo(0) /\ goal' = {<<spine, 0>>}
     \/ /\ section.page = 0 /\ spine > 0 /\ rpc = "idle"
        /\ GoTo(spine - 1, 0, jump)
        /\ goal' = {<<spine - 1, 0>>}
  /\ Settled(spine')
  /\ UNCHANGED <<open, size, cached, display, notes, file, kept, inNote>>

\* onReturnFromEndOfBook(): the section may still be open.
EndOfBookReturn ==
  /\ open /\ AtEnd /\ MayMove /\ Settled(Chapters - 1)
  /\ spine' = Chapters - 1 /\ nextPage' = 0
  /\ jump' = [jump EXCEPT !.last = TRUE]
  /\ goal' = {<<Chapters - 1, Length - 1>>}
  /\ dirty' = TRUE
  /\ UNCHANGED <<open, size, cached, section, display, notes, disk, kept, inNote>>

-----------------------------------------------------------------------------
(* Jumps.                                                                  *)

Jumping ==
  /\ Reading
  /\ Unopened /\ jump # NoJump => "failedOpening" \in Lossy
  /\ cached' = Cleared(cached)
  /\ UNCHANGED <<open, size, display, file, kept>>

Departing == Leaving /\ inNote' = FALSE /\ UNCHANGED notes

\* The chapter list and the contents panel.
SelectChapter(c, u) ==
  /\ Jumping /\ Departing
  /\ GoTo(c, 0, [jump EXCEPT !.anchor = <<c, u>>])
  /\ goal' = {<<c, u>>}

\* The chapter buttons of the toolbar.
GoToSpine(c) ==
  /\ Jumping /\ Departing /\ c # spine
  /\ GoTo(c, 0, jump)
  /\ goal' = {<<c, 0>>}

\* jumpToPercent(): exact to the chapter.
JumpToPercent(c, u) ==
  /\ Jumping /\ Departing
  /\ GoTo(c, 0, [jump EXCEPT !.percent = u])
  /\ goal' = Chapter(c)

\* A bookmark, or the remote position of a sync: an offset, and the number its
\* page had in the layout s it was made for.
Unfinished(c) ==
  \/ cache[c].size = size /\ ~cache[c].complete
  \/ section.ch = c /\ section.building

GoToBookmark(c, u, s) ==
  /\ s = size \/ ~Unfinished(c) \/ "oldBookmark" \in Lossy
  /\ Jumping /\ Departing
  /\ IF IsOpen /\ spine = c
       THEN LET p == PageOfOffset(section, u)
            IN MoveTo(IF p # None THEN p ELSE u \div s)
       ELSE GoTo(c, u \div s, [jump EXCEPT !.offset = u])
  /\ goal' = {<<c, u>>}

\* navigateToHref() from a page: the place is saved while there is room.
FollowLink(c, u) ==
  /\ Jumping /\ IsOpen
  /\ notes' = IF Len(notes) < MaxNotes
                THEN Append(notes, [spine |-> spine, page |-> section.page, at |-> goal])
                ELSE notes
  /\ GoTo(c, 0, [jump EXCEPT !.anchor = <<c, u>>])
  /\ goal' = {<<c, u>>} /\ inNote' = TRUE

\* ... a link that resolves to nothing takes back a place it may not have saved.
FollowDeadLink ==
  /\ Reading /\ IsOpen /\ Len(notes) = MaxNotes /\ notes # <<>>
  /\ notes' = SubSeq(notes, 1, Len(notes) - 1)
  /\ inNote' = (inNote /\ notes' # <<>>)
  /\ UNCHANGED <<open, size, place, display, disk, dirty, goal, kept>>

\* restoreSavedPosition()
ReturnFromNote ==
  /\ Jumping /\ notes # <<>>
  /\ LET origin == notes[Len(notes)]
     IN /\ GoTo(origin.spine, origin.page, jump)
        /\ goal' = origin.at
  /\ notes' = SubSeq(notes, 1, Len(notes) - 1)
  /\ inNote' = (inNote /\ notes' # <<>>)

-----------------------------------------------------------------------------
(* Changes of layout.                                                      *)

\* applyOrientation(), applyReaderTextSettings(), toggleAutoPageTurn(), and the
\* screens that release the section: the offset of the page is remembered, which
\* may start before the place; a place that is only a number keeps its chapter.
Reflow(s) ==
  /\ open /\ rpc = "idle"
  /\ s = size \/ jump.offset = None \/ "oldBookmark" \in Lossy
  /\ cached' = IF IsOpen THEN Remembered ELSE cached
  /\ nextPage' = IF IsOpen THEN section.page ELSE nextPage
  /\ size' = s
  /\ DropSection
  /\ dirty' = TRUE
  /\ goal' = IF Numbered THEN Chapter(spine)
             ELSE IF IsOpen /\ ~AtEnd THEN PageStart(spine, section.page) ELSE goal
  /\ notes' = IF s = size THEN notes
              ELSE [i \in DOMAIN notes |->
                      [notes[i] EXCEPT !.at = Chapter(notes[i].spine)]]
  /\ kept' = IF s = size THEN kept ELSE StillKept
  /\ UNCHANGED <<open, spine, jump, display, file, inNote>>

-----------------------------------------------------------------------------
(* Laying out in the background, from loop().                              *)

ExtendStart ==
  /\ open /\ rpc = "idle" /\ ExtendDue
  /\ \/ section' = [section EXCEPT !.building = TRUE, !.laid = 0]
     \/ section' = [section EXCEPT !.stuck = TRUE]
  /\ UNCHANGED <<open, size, spine, nextPage, jump, cached, display, notes, disk,
                 dirty, promise>>

\* Variant: the build removes the partial that it extends.
Committed_Removes(sec) ==
  [cache EXCEPT ![sec.ch] =
     IF Done(sec) THEN [size |-> size, count |-> sec.count, complete |-> TRUE]
     ELSE NoFile]

\* The file a section leaves behind when it is complete.
Committed(sec) ==
  [cache EXCEPT ![sec.ch] =
     IF Done(sec) THEN [size |-> size, count |-> sec.count, complete |-> TRUE]
     ELSE IF @.size = size THEN @ ELSE NoFile]

\* Variant: the page number is kept whatever the chapter has.
Clamped_Not(sec) == sec

\* applyDeferredReposition()
Clamped(sec) == [sec EXCEPT !.page = Smaller(@, Larger(sec.count - 1, 0))]

Repositioned(sec, c) ==
  IF sec.building \/ spine # c.spine \/ (c.offset = None /\ c.total = 0) THEN sec
  ELSE LET p == PageOfOffset(sec, c.offset)
       IN Clamped([sec EXCEPT !.page =
            IF p # None THEN p
            ELSE IF c.total \notin {0, sec.count}
            THEN (sec.page * sec.count) \div c.total
            ELSE sec.page])

BuildTick ==
  /\ open /\ rpc = "idle" /\ IsOpen /\ section.building
  /\ section.partial > 0 \/ section.count < section.page + WindowAhead
  /\ LET more == LaidTo(section, section.laid + 1)
         now == Repositioned(more, cached)
     IN /\ section' = now
        /\ cached' = IF more.building THEN cached ELSE Cleared(cached)
        /\ cache' = Committed(more)
        /\ dirty' = (dirty \/ now.page # more.page)
  /\ UNCHANGED <<open, size, spine, nextPage, jump, display, notes, file, promise>>

\* A build fails, or a page does not load: the section and its file are dropped,
\* and the reader opens the chapter where it last opened one.
SectionFails ==
  /\ open /\ rpc = "idle" /\ IsOpen /\ ~StaleJump /\ ~AtEnd
  /\ section' = NoSection
  /\ cache' = [cache EXCEPT ![section.ch] = NoFile]
  /\ goal' = Chapter(spine)
  /\ dirty' = TRUE
  /\ UNCHANGED <<open, size, spine, nextPage, jump, cached, display, notes, file,
                 kept, inNote>>

-----------------------------------------------------------------------------
(* The render task: renderBook(), holding RenderLock.                      *)

Hit == cache[spine].size = size
Target == IF jump.last THEN Length ELSE nextPage
AnchorPage == IF jump.anchor[1] = spine THEN jump.anchor[2] \div size ELSE None

\* The text offset to open the section at: a jump's, or the remembered one when
\* it is of this chapter and no page of the chapter was found laid out.
OffsetJump ==
  IF jump.offset # None THEN jump.offset
  ELSE IF jump.last \/ jump.anchor # Nowhere \/ spine # cached.spine \/ Hit THEN None
  ELSE cached.offset

\* loadSectionFile()
Loaded ==
  [ch |-> spine, page |-> Target,
   count |-> IF Hit THEN cache[spine].count ELSE 0, laid |-> 0, building |-> FALSE,
   partial |-> IF Hit /\ ~cache[spine].complete THEN cache[spine].count ELSE 0,
   stuck |-> FALSE]

\* A partial that reaches past the target is not extended yet.
Deferred ==
  Loaded.partial > 0 /\ jump.percent = None
  /\ IF jump.anchor # Nowhere THEN AnchorPage \in 0..(Loaded.partial - 1)
                              ELSE Target + StartMargin < Loaded.partial

\* Pages to lay out before the page of the jump can be known.
Needed ==
  IF jump.percent # None THEN Length
  ELSE IF jump.anchor # Nowhere
    THEN IF AnchorPage = None THEN Length
         ELSE IF AnchorPage < Loaded.count THEN 0 ELSE AnchorPage + 1
  ELSE IF OffsetJump # None THEN ((OffsetJump + size - 1) \div size) + 1
  ELSE IF Target < Loaded.count THEN 0 ELSE Target + 1

FreshSection ==
  IF (Hit /\ cache[spine].complete) \/ Deferred THEN Loaded
  ELSE LaidTo([Loaded EXCEPT !.building = TRUE], Needed)

\* The section positioned by whatever asked for it.
Placed ==
  LET p == PageOfOffset(FreshSection, OffsetJump)
  IN [FreshSection EXCEPT !.page =
        IF jump.percent # None
          THEN Smaller((jump.percent * FreshSection.count) \div Length,
                       FreshSection.count - 1)
        ELSE IF AnchorPage # None THEN AnchorPage
        ELSE IF p # None THEN p
        ELSE Target]

\* Opening forgets a remembered position that it has used, or does not need.
Used ==
  \/ Hit \/ jump.offset # None
  \/ PageOfOffset(FreshSection, OffsetJump) # None

\* What is drawn: the page exists, or the chapter is shorter and it is the last.
Drawn ==
  LET sec  == IF IsOpen THEN section ELSE Placed
      past == BuiltPast(sec, sec.page)
  IN IF past.building THEN past ELSE Clamped(past)

\* A position remembered only by its number is scaled when the chapter has been
\* laid out: until then the page drawn may still change.
Provisional(c) == c.spine = spine /\ c.total # 0 /\ c.offset = None

RenderDraw ==
  /\ open /\ rpc = "idle" /\ dirty /\ ~AtEnd
  /\ LET before == IF ~IsOpen /\ Used THEN Cleared(cached) ELSE cached
         now == Repositioned(Drawn, before)
     IN /\ section' = now
        /\ cached' = IF now.building THEN before ELSE Cleared(before)
        /\ jump' = IF IsOpen THEN jump ELSE NoJump
        /\ cache' = Committed(now)
        /\ shownOffset' = now.page * size
        /\ screen' = OnPage(spine, now.page, size)
        /\ goal' = IF Provisional(cached') THEN Chapter(spine)
                                           ELSE PageStart(spine, now.page)
  /\ dirty' = FALSE /\ rpc' = "save"
  /\ UNCHANGED <<open, size, spine, nextPage, lastSaved, notes, file, kept, inNote>>

\* A build that is needed cannot start, or fails: an error is shown and nothing
\* is open.  What opening has not used stays pending; once open, the position
\* that the section held is lost.  A parse that fails takes the file with it.
RenderFails ==
  /\ open /\ rpc = "idle" /\ dirty /\ ~AtEnd /\ ~StaleJump
  /\ IF IsOpen
       THEN /\ ~Done(section) /\ section.page >= section.count
            /\ goal' = Chapter(spine)
            /\ UNCHANGED cached
       ELSE /\ ~(Hit /\ cache[spine].complete) /\ ~Deferred
            /\ cached' = IF Hit THEN Cleared(cached) ELSE cached
            /\ UNCHANGED goal
  /\ section' = NoSection
  /\ \/ UNCHANGED cache
     \/ cache' = [cache EXCEPT ![spine] = NoFile]
  /\ screen' = {} /\ dirty' = FALSE
  /\ UNCHANGED <<open, size, spine, nextPage, jump, shownOffset, lastSaved, rpc,
                 notes, file, kept, inNote>>

\* The end-of-book screen.
RenderEnd ==
  /\ open /\ rpc = "idle" /\ dirty /\ AtEnd
  /\ screen' = Chapter(Chapters)
  /\ dirty' = FALSE
  /\ UNCHANGED <<open, size, place, shownOffset, lastSaved, rpc, notes, disk, promise>>

\* Variant: progress is written when the page number changed.
Unsaved_Page(record) == record.page # lastSaved[2]

\* Progress is written when chapter, page or page count changed.  When all three
\* are those of another layout the file keeps the offset of that layout, and
\* names two places.
Unsaved(record) == <<spine, record.page, section.count>> # lastSaved

RenderSave ==
  /\ rpc = "save"
  /\ LET record == Progress(spine, section.page, Total(size))
     IN IF Unsaved(record)
          THEN /\ file' = record
               /\ lastSaved' = <<spine, record.page, record.total>>
               /\ kept' = {<<section.ch, shownOffset>>}
          ELSE /\ kept' = kept \cup {<<section.ch, shownOffset>>}
               /\ UNCHANGED <<file, lastSaved>>
  /\ rpc' = "idle"
  /\ UNCHANGED <<open, size, place, shownOffset, screen, notes, cache, dirty, goal, inNote>>

\* Messages that time out, overlays: the page is drawn again.
Redraw ==
  /\ open /\ ~dirty /\ dirty' = TRUE
  /\ UNCHANGED <<open, size, place, display, notes, disk, promise>>

-----------------------------------------------------------------------------
Book == OpenBook \/ Exit \/ SyncLeave \/ DeleteCache \/ Crash \/ ChangeSettings
Turn == TurnForward \/ TurnBack \/ Skip \/ EndOfBookReturn
Jump ==
  \/ \E c \in 0..(Chapters - 1) : GoToSpine(c)
  \/ \E mark \in Marks :
       LET c == mark[1] u == mark[2]
       IN  \/ SelectChapter(c, u) \/ JumpToPercent(c, u) \/ FollowLink(c, u)
           \/ \E s \in PageSizes : GoToBookmark(c, u, s)
  \/ FollowDeadLink \/ ReturnFromNote
Layout == (\E s \in PageSizes : Reflow(s)) \/ ExtendStart \/ BuildTick \/ SectionFails
Render == RenderDraw \/ RenderFails \/ RenderEnd \/ RenderSave \/ Redraw

Next == Book \/ Turn \/ Jump \/ Layout \/ Render

Spec == Init /\ [][Next]_vars

-----------------------------------------------------------------------------
(* Properties.                                                             *)

Pages == 0..Length
MaybeUnit == Units \cup {None}

SectionOK ==
  section \in [ch : (0..(Chapters - 1)) \cup {None}, page : Pages, count : Pages,
              laid : Pages, building : BOOLEAN, partial : Pages, stuck : BOOLEAN]

TypeOK ==
  /\ open \in BOOLEAN /\ dirty \in BOOLEAN /\ inNote \in BOOLEAN
  /\ size \in PageSizes /\ rpc \in {"idle", "save"}
  /\ spine \in 0..Chapters /\ nextPage \in Pages
  /\ jump \in [last : BOOLEAN, offset : MaybeUnit, percent : MaybeUnit,
               anchor : {Nowhere} \cup ((0..(Chapters - 1)) \X Units)]
  /\ cached \in [spine : 0..Chapters, total : Pages, offset : MaybeUnit]
  /\ SectionOK
  /\ shownOffset \in MaybeUnit
  /\ file \in [spine : (0..Chapters) \cup {None}, page : Pages, total : Pages,
               offset : MaybeUnit]
  /\ \A c \in DOMAIN cache :
       cache[c] \in [size : PageSizes, count : 1..Length, complete : BOOLEAN]
                  \cup {NoFile}

\* The reader opens where the user is: every page drawn shows the place that was
\* asked for or was being read, through changes of layout, builds, notes, sleep
\* and power loss.
ShowsTheGoal ==
  [][open' /\ dirty /\ ~dirty' /\ screen' # {} => screen' \cap goal # {}]_vars

\* Once a page is on the display and nothing else is asked for, progress.bin names
\* it, by its number in this layout and by its text offset.
SavedIsShown ==
  open /\ rpc = "idle" /\ ~dirty /\ IsOpen /\ ~AtEnd =>
    /\ file.spine = spine /\ file.page = section.page
    /\ <<spine, file.offset>> \in kept

\* The pages of chapter c, on disk and in the open section.
File(c) ==
  IF cache[c] = NoFile THEN {}
  ELSE {[layout |-> cache[c].size, pages |-> cache[c].count, whole |-> cache[c].complete]}

OpenSection(c) ==
  IF section.ch # c THEN {}
  ELSE {[layout |-> size, pages |-> section.count, whole |-> Done(section)]}

Promise(c) == INSTANCE ChapterPages WITH
  Layouts <- PageSizes, Extent <- [s \in PageSizes |-> Total(s)],
  kept <- File(c), view <- OpenSection(c)

\* The reader keeps the section cache's promise for every chapter, whatever makes it
\* drop or reopen a section: what the page numbers above rest on.
ImplementsChapterPages ==
  /\ \A c \in 0..(Chapters - 1) : Promise(c)!Init
  /\ [][\A c \in 0..(Chapters - 1) : UNCHANGED Promise(c)!vars \/ Promise(c)!Next]_vars

\* A page is drawn only once it is laid out: "out of bounds" is never shown.
DrawnPageExists == rpc = "save" => section.page < section.count
=============================================================================
