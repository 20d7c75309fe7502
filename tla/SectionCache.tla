------------------------------ MODULE SectionCache ------------------------------
(***************************************************************************)
(* The page cache of one chapter of an EPUB (lib/Epub/Epub/Section.cpp).   *)
(*                                                                         *)
(* A chapter is laid out a few pages at a time into <spine>.bin.part,      *)
(* which is renamed over <spine>.bin when the layout is complete           *)
(* ("final") or when the reader leaves before it is ("partial").  Pages    *)
(* are read from the build in progress and, past it, from the .bin.  The   *)
(* steps below run under RenderLock, except PeekSeek and PeekRestore: the  *)
(* main task reads a page without it.                                      *)
(*                                                                         *)
(* A page is the pair of the render spec it was laid out for and its       *)
(* number; the layout of a spec is deterministic.  A page that cannot be   *)
(* read back is Null.                                                      *)
(***************************************************************************)
EXTENDS Naturals, Sequences

CONSTANTS
  Specs,            \* render specs: font, margins, viewport, ...
  NoSpec,
  Pages,            \* Pages[s]: number of pages of the chapter under spec s
  WantedPages,      \* page numbers the reader may ask for
  Faults,           \* what may fail: "start", "begin", "parse", "write", "tables",
                    \* "rename"
  LayoutChanges     \* TRUE if the render spec may change under an open section

ASSUME SectionAssumption ==
  /\ NoSpec \notin Specs
  /\ Pages \in [Specs -> Nat]
  /\ WantedPages \subseteq Nat
  /\ LayoutChanges \in BOOLEAN

VARIABLES
  bin,           \* the file <spine>.bin
  part,          \* the pages in <spine>.bin.part, in file order
  phase,         \* "closed", "open", or "swap" between remove and rename
  spec,          \* spec the open section is laid out for
  loaded,        \* loadSectionFile() succeeded, or the build completed
  partial,       \* partial_
  partialCount,  \* partialPageCount_
  pageCount,
  building,      \* build_ is set
  buildSpec,     \* the spec startBuild() was given
  lut,           \* build_->lut: file position of each page laid out, 0 if lost
  built,         \* builtPageCount_
  cursor,        \* position of the shared file handle
  commitAs,      \* the version being committed
  want,          \* page the render task waits for, or NoPage
  peek,          \* write position the unlocked reader will restore, or 0
  old            \* bin before the last swap began (for the properties)

disk   == <<bin, part, old>>
layout == <<building, buildSpec, lut, built, cursor>>
counts == <<spec, loaded, partial, partialCount, pageCount>>
vars == <<disk, layout, counts, phase, commitAs, want, peek>>

-----------------------------------------------------------------------------
Null == <<>>
Page(s, p) == <<s, p>>
NoFile == [kind |-> "none", spec |-> NoSpec, pages |-> <<>>]
NoPage == [page |-> 0, set |-> FALSE]
Wanted(p) == [page |-> p, set |-> TRUE]

Fails(what) == what \in Faults
Larger(a, b) == IF a > b THEN a ELSE b

\* The whole chapter laid out for s.
Layout(s) == [i \in 1..Pages[s] |-> Page(s, i - 1)]

\* A page write failed: its entry has no position.
Lost == \E i \in DOMAIN lut : lut[i] = 0

\* loadPage(): the build first, then the file.
OnDisk == IF partial THEN partialCount ELSE IF building THEN 0 ELSE pageCount

Load(p) ==
  IF building /\ p < Len(lut)
    THEN IF lut[p + 1] = 0 THEN Null ELSE part[lut[p + 1]]
    ELSE IF p < OnDisk /\ p < Len(bin.pages) THEN bin.pages[p + 1] ELSE Null

\* The render task still has to lay out pages before it can show page p.
Waiting(p) == p >= pageCount /\ (partial \/ building)

Init ==
  /\ bin = NoFile /\ part = <<>> /\ old = NoFile
  /\ phase = "closed" /\ spec = NoSpec /\ loaded = FALSE
  /\ partial = FALSE /\ partialCount = 0 /\ pageCount = 0
  /\ building = FALSE /\ buildSpec = NoSpec /\ lut = <<>> /\ built = 0 /\ cursor = 1
  /\ commitAs = "final" /\ want = NoPage /\ peek = 0

-----------------------------------------------------------------------------
(* Variants: plausible mistakes, used by no specification.                 *)

Accepts_AnySpec(s) == bin.kind # "none"
StartCount_Zero == 0
WorthKeeping_Always == built > 0
CanCommit_Always == TRUE
WriteAt_Nothing(c) == UNCHANGED part /\ cursor' = cursor + 1
Completed_StillPartial ==
  /\ building' = FALSE /\ loaded' = TRUE
  /\ pageCount' = built
  /\ UNCHANGED <<partial, partialCount>>
Completed_KeepsCount ==
  /\ building' = FALSE /\ loaded' = TRUE
  /\ partial' = FALSE /\ partialCount' = 0
  /\ pageCount' = pageCount + 1

-----------------------------------------------------------------------------
(* Pieces of the actions.                                                  *)

\* section.reset() with no build in progress, or once it is dropped.
Gone ==
  /\ phase' = "closed"
  /\ spec' = NoSpec /\ loaded' = FALSE
  /\ partial' = FALSE /\ partialCount' = 0 /\ pageCount' = 0
  /\ building' = FALSE /\ buildSpec' = NoSpec /\ lut' = <<>> /\ built' = 0 /\ cursor' = 1
  /\ want' = NoPage

\* onPageComplete(): the page goes to the file's cursor.
WriteAt(c) ==
  /\ part' = IF cursor <= Len(part) THEN [part EXCEPT ![cursor] = c]
                                     ELSE Append(part, c)
  /\ cursor' = cursor + 1

-----------------------------------------------------------------------------
(* Opening.                                                                *)

\* loadSectionFile(): the version is known and every parameter matches.
Accepts(s) == bin.kind # "none" /\ bin.spec = s

Open(s) ==
  /\ phase = "closed"
  /\ phase' = "open" /\ spec' = s
  /\ IF Accepts(s)
       THEN /\ loaded' = TRUE
            /\ partial' = (bin.kind = "partial")
            /\ pageCount' = Len(bin.pages)
            /\ partialCount' = IF bin.kind = "partial" THEN Len(bin.pages) ELSE 0
            /\ UNCHANGED <<bin, part>>
       ELSE /\ loaded' = FALSE /\ partial' = FALSE
            /\ pageCount' = 0 /\ partialCount' = 0
            /\ bin' = NoFile /\ part' = IF bin = NoFile THEN part ELSE <<>>
  /\ UNCHANGED <<layout, old, commitAs, want, peek>>

\* startBuild() keeps the pages of a loaded partial readable.
StartCount == IF partial THEN partialCount ELSE 0

\* A section just opened is built for its spec; the extension of a partial is
\* given the spec of the settings now in force.
StartBuild ==
  /\ phase = "open" /\ ~building /\ (partial \/ ~loaded)
  /\ building' = TRUE
  /\ buildSpec' \in {spec} \cup IF LayoutChanges /\ loaded THEN Specs ELSE {}
  /\ lut' = <<>> /\ built' = 0 /\ cursor' = 1
  /\ part' = <<>>
  /\ pageCount' = StartCount
  /\ UNCHANGED <<bin, old, phase, spec, loaded, partial, partialCount,
                 commitAs, want, peek>>

\* It fails before build_ is set, and the reader drops the section, unless the
\* main task was only extending a partial.
StartFails ==
  /\ Fails("start")
  /\ phase = "open" /\ ~building /\ (partial \/ ~loaded)
  /\ part' = <<>>
  /\ \/ Gone
     \/ partial /\ ~want.set /\ UNCHANGED <<counts, layout, phase, want>>
  /\ UNCHANGED <<bin, old, commitAs, peek>>

BeginFails_KeepsFile ==
  /\ Fails("begin")
  /\ phase = "open" /\ ~building /\ (partial \/ ~loaded)
  /\ part' = <<>>
  /\ \/ Gone
     \/ /\ partial /\ ~want.set
        /\ partial' = FALSE /\ partialCount' = 0 /\ pageCount' = 0
        /\ UNCHANGED <<spec, loaded, layout, phase, want>>
  /\ UNCHANGED <<bin, old, commitAs, peek>>

\* beginParse() fails when build_ is set: abandonBuild() removes the section file
\* too.  A section the main task was extending stays open without its pages, and
\* no longer counts as partial.
BeginFails ==
  /\ Fails("begin")
  /\ phase = "open" /\ ~building /\ (partial \/ ~loaded)
  /\ bin' = NoFile /\ part' = <<>>
  /\ \/ Gone
     \/ /\ partial /\ ~want.set
        /\ partial' = FALSE /\ partialCount' = 0 /\ pageCount' = 0
        /\ UNCHANGED <<spec, loaded, layout, phase, want>>
  /\ UNCHANGED <<old, commitAs, peek>>

-----------------------------------------------------------------------------
(* Laying out, one page a step.                                            *)

LayPage ==
  /\ phase = "open" /\ building /\ Len(lut) < Pages[buildSpec]
  /\ \/ /\ WriteAt(Page(buildSpec, Len(lut)))
        /\ lut' = Append(lut, cursor)
        /\ built' = built + 1
        /\ pageCount' = Larger(pageCount, built + 1)
     \/ /\ Fails("write")
        /\ WriteAt(Null)
        /\ lut' = Append(lut, 0)
        /\ UNCHANGED <<built, pageCount>>
  /\ UNCHANGED <<bin, old, phase, spec, loaded, partial, partialCount,
                 building, buildSpec, commitAs, want, peek>>

\* buildSomeMore() -> abandonBuild(); the reader drops the section.
ParseFails ==
  /\ Fails("parse")
  /\ phase = "open" /\ building
  /\ bin' = NoFile /\ part' = <<>>
  /\ Gone
  /\ UNCHANGED <<old, commitAs, peek>>

-----------------------------------------------------------------------------
(* Committing: finalizeBuild(), suspendBuild(), commitBuildFile().         *)

\* commitBuildFile() refuses a table with a lost page.
CanCommit == ~Lost

\* The pages as they will be read back: the writes of the tables that locate
\* them are not checked.
Contents ==
  {[i \in 1..Len(lut) |-> IF lut[i] = 0 THEN Null ELSE part[lut[i]]]}
  \cup {[i \in 1..Len(lut) |-> Null] : fault \in Faults \cap {"tables"}}

\* The tables are written, the version stamped, the old file removed; the
\* committed file is still called .part.
BeginSwap(pages) ==
  /\ old' = bin /\ bin' = NoFile
  /\ part' = pages
  /\ phase' = "swap"

Finish ==
  /\ phase = "open" /\ building /\ Len(lut) = Pages[buildSpec] /\ peek = 0
  /\ commitAs' = "final"
  /\ IF CanCommit
       THEN /\ \E pages \in Contents : BeginSwap(pages)
            /\ UNCHANGED <<counts, layout, want>>
       ELSE /\ part' = <<>> /\ Gone /\ UNCHANGED <<bin, old>>
  /\ UNCHANGED peek

\* ~Section() -> suspendBuild()
WorthKeeping == built > 0 /\ (~partial \/ built > partialCount)

Close ==
  /\ phase = "open" /\ ~want.set /\ peek = 0
  /\ commitAs' = "partial"
  /\ IF building /\ WorthKeeping /\ CanCommit
       THEN /\ \E pages \in Contents : BeginSwap(pages)
            /\ UNCHANGED <<counts, layout, want>>
       ELSE /\ part' = IF building THEN <<>> ELSE part
            /\ Gone /\ UNCHANGED <<bin, old>>
  /\ UNCHANGED peek

\* finalizeBuild() after a commit
Completed ==
  /\ building' = FALSE /\ loaded' = TRUE
  /\ partial' = FALSE /\ partialCount' = 0
  /\ pageCount' = built

\* The rename: the section stays open after finalizeBuild(), and is destroyed
\* after suspendBuild() or a failure.
Swap ==
  /\ phase = "swap"
  /\ part' = <<>>
  /\ \/ /\ bin' = [kind |-> commitAs, spec |-> buildSpec, pages |-> part]
        /\ IF commitAs = "final"
             THEN /\ Completed
                  /\ phase' = "open"
                  /\ lut' = <<>> /\ cursor' = 1
                  /\ UNCHANGED <<spec, buildSpec, built, want>>
             ELSE Gone
     \/ /\ Fails("rename")
        /\ Gone /\ UNCHANGED bin
  /\ UNCHANGED <<old, commitAs, peek>>

-----------------------------------------------------------------------------
(* The render task shows a page.                                           *)

\* renderBook() with an open section: it lays out until the page is there.
Want(p) ==
  /\ phase = "open" /\ ~want.set /\ (loaded \/ building)
  /\ want' = Wanted(p)
  /\ UNCHANGED <<disk, layout, counts, phase, commitAs, peek>>

\* The page is loaded, or the last one when the chapter is shorter; an empty
\* chapter has none.
Served == IF want.page >= pageCount THEN pageCount - 1 ELSE want.page

Show ==
  /\ phase = "open" /\ want.set /\ ~Waiting(want.page)
  /\ pageCount > 0 => Load(Served) # Null
  /\ want' = NoPage
  /\ UNCHANGED <<disk, layout, counts, phase, commitAs, peek>>

\* The page does not load: abandonBuild(), clearCache(), section.reset().
ShowFails ==
  /\ phase = "open" /\ want.set /\ ~Waiting(want.page) /\ peek = 0
  /\ pageCount > 0 /\ Load(Served) = Null
  /\ bin' = NoFile /\ part' = <<>>
  /\ Gone
  /\ UNCHANGED <<old, commitAs, peek>>

\* "Delete Book Cache", or a book whose cache directory is removed.
ClearBook ==
  /\ phase = "closed"
  /\ bin' = NoFile /\ part' = <<>>
  /\ UNCHANGED <<old, layout, counts, phase, commitAs, want, peek>>

-----------------------------------------------------------------------------
(* The main task reads a page of the build without RenderLock: it moves    *)
(* the shared file handle, then puts it back.                              *)

PeekSeek ==
  /\ phase = "open" /\ building /\ peek = 0
  /\ \E i \in DOMAIN lut : lut[i] # 0 /\ cursor' = lut[i]
  /\ peek' = cursor
  /\ UNCHANGED <<disk, counts, building, buildSpec, lut, built, phase, commitAs, want>>

PeekRestore ==
  /\ peek # 0
  /\ cursor' = peek /\ peek' = 0
  /\ UNCHANGED <<disk, counts, building, buildSpec, lut, built, phase, commitAs, want>>

\* Power loss, or the app is killed: the disk stays as it is.
Crash ==
  /\ phase # "closed"
  /\ Gone
  /\ peek' = 0
  /\ UNCHANGED <<disk, commitAs>>

-----------------------------------------------------------------------------
Render == Show \/ ShowFails
Build  == StartBuild \/ LayPage \/ Finish \/ Swap
Fault  == StartFails \/ BeginFails \/ ParseFails

Next ==
  \/ \E s \in Specs : Open(s)
  \/ \E p \in WantedPages : Want(p)
  \/ Build \/ Fault \/ Close \/ Render \/ ClearBook
  \/ Crash

Spec == Init /\ [][Next]_vars

\* The code as it is: the main task also reads pages of the build unlocked.
PeekingSpec == Init /\ [][Next \/ PeekSeek \/ PeekRestore]_vars

\* renderBook() loops until the page it wants is there, holding the lock, so
\* its steps are taken by the render task itself.
RenderLoop == want.set /\ (Build \/ Render)

FairSpec == Spec /\ WF_vars(RenderLoop)

-----------------------------------------------------------------------------
(* Properties.                                                             *)

Contented == Seq((Specs \X Nat) \cup {Null})
Files == [kind : {"partial", "final"}, spec : Specs, pages : Contented]

FlagsOK == loaded \in BOOLEAN /\ partial \in BOOLEAN /\ building \in BOOLEAN

DataOK ==
  /\ bin \in Files \cup {NoFile} /\ old \in Files \cup {NoFile}
  /\ part \in Contented
  /\ phase \in {"closed", "open", "swap"}
  /\ spec \in Specs \cup {NoSpec} /\ (phase # "closed" => spec \in Specs)
  /\ buildSpec \in Specs \cup {NoSpec}
  /\ partialCount \in Nat /\ pageCount \in Nat /\ built \in Nat
  /\ lut \in Seq(Nat) /\ (phase = "open" => \A i \in DOMAIN lut : lut[i] <= Len(part))
  /\ cursor \in Nat \ {0} /\ peek \in Nat
  /\ commitAs \in {"partial", "final"}
  /\ want \in [page : Nat, set : BOOLEAN]

TypeOK == FlagsOK /\ DataOK

\* A page the reader gets is the page it asked for, laid out for the settings
\* in force: whatever mixture of build, partial file and old files it comes from
\* (loadPage(), loadSectionFile()).
ReadsItsLayout ==
  phase = "open" => \A p \in 0..(pageCount - 1) : Load(p) \in {Null, Page(spec, p)}

\* Every page the reader is told it may show can be loaded, unless the disk
\* refused one (pageCount against loadPage()).
AvailablePagesLoad ==
  phase = "open" /\ ~Lost => \A p \in 0..(pageCount - 1) : Load(p) # Null

\* A file that says it is complete is the whole chapter, and a partial is its
\* beginning, whatever crash or failure produced it (the version stamp of
\* commitBuildFile(): "an incomplete file is never mistaken for a valid one").
CommittedIsComplete ==
  bin # NoFile =>
    /\ bin.kind = "final" => bin.pages = Layout(bin.spec)
    /\ bin.kind = "partial" =>
         /\ Len(bin.pages) \in 1..Pages[bin.spec]
         /\ \A i \in 1..Len(bin.pages) : bin.pages[i] = Page(bin.spec, i - 1)

\* A partial is replaced by nothing shorter of the same layout (suspendBuild()
\* keeps "a pre-existing partial when it covers more pages than this build
\* reached").
PartialOnlyGrows ==
  [][ phase = "swap" /\ bin' # NoFile /\ old # NoFile /\ old.spec = buildSpec
      => Len(bin'.pages) >= Len(old.pages) ]_vars

\* The promise of the section cache to the reader.  The file a commit replaces
\* counts until the new one has its name.
PagesOf(file) ==
  IF file = NoFile THEN {}
  ELSE {[layout |-> file.spec, pages |-> Len(file.pages), whole |-> file.kind = "final"]}

Kept == PagesOf(IF phase = "swap" THEN old ELSE bin)

OpenSection ==
  IF phase = "closed" THEN {}
  ELSE {[layout |-> spec, pages |-> pageCount, whole |-> loaded /\ ~partial /\ ~building]}

Promise == INSTANCE ChapterPages WITH
  Layouts <- Specs, Extent <- Pages, kept <- Kept, view <- OpenSection

\* An open section starts from the pages kept for its settings and only gains
\* pages (startBuild(): "availability never drops below the partial's watermark"),
\* it says it is complete only once the file is, and closing it keeps the pages it
\* showed or those of before.  The exception the code makes is in the promise too:
\* an extension whose beginParse() fails loses all the pages, with their file, and
\* the section passes for that of an empty chapter until it is closed.
ImplementsChapterPages == Promise!Spec

\* The page the render task waits for is shown, or the section is dropped: the
\* loops of renderBook() end.
WantServed == want.set ~> ~want.set
=============================================================================
