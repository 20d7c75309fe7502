-------------------------- MODULE SectionCacheProofs --------------------------
(***************************************************************************)
(* Proofs about SectionCache, for every set of render specs, every number  *)
(* of pages and every page the reader may want: as long as pages are read  *)
(* under RenderLock, a partial is extended for the spec it was loaded for  *)
(* and the tables of a committed file reach the disk, a reader gets the    *)
(* page it asked for, laid out for its settings, a file is what its        *)
(* version says, and the section keeps the promise of ChapterPages.        *)
(***************************************************************************)
EXTENDS SectionCache, TLAPS

-----------------------------------------------------------------------------
(* The inductive invariant.                                                *)

\* Pages 0 .. Len(pages)-1 of the layout of s.
Prefix(pages, s) ==
  /\ Len(pages) <= Pages[s]
  /\ \A i \in 1..Len(pages) : pages[i] = Page(s, i - 1)

FileInv(file) ==
  file # NoFile =>
    /\ Prefix(file.pages, file.spec)
    /\ file.kind = "final" => Len(file.pages) = Pages[file.spec]
    /\ file.kind = "partial" => Len(file.pages) > 0

\* The build: page i is at position i, unless the disk refused it.
BuildInv ==
  phase = "open" /\ building =>
    /\ buildSpec = spec
    /\ Len(lut) = Len(part) /\ Len(lut) <= Pages[spec]
    /\ cursor = Len(lut) + 1
    /\ \A i \in 1..Len(lut) : lut[i] = 0 \/ (lut[i] = i /\ part[i] = Page(spec, i - 1))
    /\ built <= Len(lut)
    /\ ~Lost => built = Len(lut)
    /\ pageCount = Larger(partialCount, built)

\* What an open section knows of the file it was loaded from.  It has no file if
\* an extension that could not begin took it.
LoadedInv ==
  phase = "open" =>
    /\ partial => bin.kind = "partial" /\ loaded
    /\ partial => partialCount = Len(bin.pages)
    /\ ~partial => partialCount = 0
    /\ loaded /\ bin # NoFile => bin.spec = spec
    /\ loaded /\ bin # NoFile /\ ~partial => bin.kind = "final"
    /\ loaded /\ ~building => pageCount = Len(bin.pages)
    /\ ~loaded => bin = NoFile
    /\ building /\ ~partial => ~loaded
    /\ ~loaded /\ ~building => pageCount = 0
    /\ ~building => lut = <<>>

\* A committed file waiting to be renamed.
SwapInv ==
  phase = "swap" =>
    /\ bin = NoFile /\ building /\ buildSpec = spec
    /\ Prefix(part, spec) /\ Len(part) = built /\ pageCount = built
    /\ commitAs = "final" => built = Pages[spec]
    /\ commitAs = "partial" => built > 0
    /\ old # NoFile /\ old.spec = spec => built >= Len(old.pages)

ClosedInv == phase = "closed" => lut = <<>> /\ ~building

IInv ==
  /\ TypeOK /\ peek = 0
  /\ FileInv(bin)
  /\ BuildInv /\ LoadedInv /\ SwapInv /\ ClosedInv

-----------------------------------------------------------------------------
(* What does not happen in what follows.                                   *)

Disciplined == ~LayoutChanges /\ "tables" \notin Faults

LEMMA EmptyContents == <<>> \in Contented
BY DEF Contented

LEMMA GoneKeeps ==
  ASSUME IInv, Gone, FileInv(bin'), bin' \in Files \cup {NoFile},
         old' \in Files \cup {NoFile}, part' \in Contented,
         commitAs' \in {"partial", "final"}, peek' = 0
  PROVE  IInv'
PROOF
<1>1. FlagsOK' /\ DataOK'
  <2>1. FlagsOK'
    BY DEF FlagsOK, Gone
  <2>2. DataOK'
    BY DEF DataOK, Gone, NoPage
  <2>. QED BY <2>1, <2>2
<1>2. FileInv(bin)' /\ BuildInv' /\ LoadedInv' /\ SwapInv' /\ ClosedInv'
  BY DEF Gone, FileInv, BuildInv, LoadedInv, SwapInv, ClosedInv
<1>. QED BY <1>1, <1>2 DEF IInv, TypeOK

LEMMA InitInv == Init => IInv
PROOF
<1>. SUFFICES ASSUME Init PROVE IInv
  OBVIOUS
<1>1. FlagsOK /\ DataOK
  <2>1. FlagsOK
    BY DEF FlagsOK, Init
  <2>2. DataOK
    BY DEF DataOK, Init, NoPage, Contented
  <2>. QED BY <2>1, <2>2
<1>2. FileInv(bin) /\ BuildInv /\ LoadedInv /\ SwapInv /\ ClosedInv
  BY DEF Init, FileInv, BuildInv, LoadedInv, SwapInv, ClosedInv
<1>. QED BY <1>1, <1>2 DEF IInv, TypeOK, Init

LEMMA OpenKeeps ==
  ASSUME IInv, NEW s \in Specs, Open(s) PROVE IInv'
PROOF
<1>. USE DEF Open, IInv
<1>1. UNCHANGED <<building, buildSpec, lut, built, cursor, old, commitAs, want, peek>>
  BY DEF layout
<1>2. FlagsOK'
  BY <1>1 DEF FlagsOK, TypeOK
<1>3. lut = <<>> /\ ~building
  BY DEF ClosedInv
<1>4. CASE Accepts(s)
  <2>1. bin \in Files /\ bin.spec = s
    BY <1>4 DEF Accepts, TypeOK, DataOK, NoFile
  <2>2. Len(bin.pages) \in Nat
    BY <2>1 DEF Files, Contented
  <2>3. DataOK'
    BY <1>1, <1>3, <1>4, <2>1, <2>2 DEF DataOK, TypeOK
  <2>4. FileInv(bin)'
    BY <1>4 DEF FileInv, Prefix
  <2>5. BuildInv' /\ SwapInv' /\ ClosedInv'
    BY <1>1, <1>3 DEF BuildInv, SwapInv, ClosedInv
  <2>6. bin # NoFile /\ bin.kind \in {"partial", "final"}
    BY <2>1 DEF Files, NoFile
  <2>7. LoadedInv'
    BY <1>1, <1>3, <1>4, <2>1, <2>6 DEF LoadedInv
  <2>. QED BY <1>1, <1>2, <2>3, <2>4, <2>5, <2>7 DEF TypeOK
<1>5. CASE ~Accepts(s)
  <2>0. part' \in Contented /\ bin' = NoFile
    BY <1>5, EmptyContents DEF DataOK, TypeOK
  <2>1. DataOK'
    BY <1>1, <1>3, <1>5, <2>0 DEF DataOK, TypeOK
  <2>2. FileInv(bin)'
    BY <1>5 DEF FileInv
  <2>3. BuildInv' /\ SwapInv' /\ ClosedInv'
    BY <1>1, <1>3 DEF BuildInv, SwapInv, ClosedInv
  <2>4. LoadedInv'
    BY <1>1, <1>3, <1>5 DEF LoadedInv
  <2>. QED BY <1>1, <1>2, <2>1, <2>2, <2>3, <2>4 DEF TypeOK
<1>. QED BY <1>4, <1>5

LEMMA StartBuildKeeps ==
  ASSUME IInv, Disciplined, StartBuild PROVE IInv'
PROOF
<1>. USE DEF StartBuild, IInv
<1>0. buildSpec' = spec
  BY DEF Disciplined
<1>1. FlagsOK' /\ DataOK'
  <2>1. FlagsOK'
    BY DEF FlagsOK, TypeOK
  <2>2. DataOK'
    BY <1>0 DEF DataOK, TypeOK, StartCount, Contented
  <2>. QED BY <2>1, <2>2
<1>2. FileInv(bin)' /\ SwapInv' /\ ClosedInv'
  BY DEF FileInv, SwapInv, ClosedInv, Prefix
<1>3. BuildInv'
  <2>1. spec \in Specs /\ Pages[spec] \in Nat
    BY SectionAssumption DEF TypeOK, DataOK
  <2>2. partialCount \in Nat /\ (~partial => partialCount = 0)
    BY DEF TypeOK, DataOK, LoadedInv
  <2>3. StartCount = Larger(partialCount, 0)
    BY <2>2 DEF StartCount, Larger
  <2>. QED BY <1>0, <2>1, <2>3 DEF BuildInv, Lost
<1>4. LoadedInv'
  BY DEF LoadedInv, StartCount, TypeOK
<1>. QED BY <1>1, <1>2, <1>3, <1>4 DEF TypeOK

\* One more page, or one more lost page.
LEMMA LayPageKeeps ==
  ASSUME IInv, LayPage PROVE IInv'
PROOF
<1>. USE DEF IInv
<1>1. phase = "open" /\ building /\ Len(lut) < Pages[spec] /\ buildSpec = spec
      /\ UNCHANGED <<bin, old, phase, spec, loaded, partial, partialCount,
                     building, buildSpec, commitAs, want, peek>>
  BY DEF LayPage, BuildInv
<1>2. /\ spec \in Specs /\ Pages[spec] \in Nat
      /\ lut \in Seq(Nat) /\ part \in Contented
      /\ built \in Nat /\ pageCount \in Nat /\ partialCount \in Nat
  BY <1>1, SectionAssumption DEF TypeOK, DataOK
<1>3. /\ Len(lut) = Len(part) /\ cursor = Len(lut) + 1
      /\ \A i \in 1..Len(lut) : lut[i] = 0 \/ (lut[i] = i /\ part[i] = Page(spec, i - 1))
      /\ built <= Len(lut)
      /\ (~Lost => built = Len(lut))
      /\ pageCount = Larger(partialCount, built)
  BY <1>1 DEF BuildInv
<1>4. Len(lut) \in Nat /\ Len(part) \in Nat
  BY <1>2 DEF Contented
<1>5. FlagsOK' /\ FileInv(bin)' /\ SwapInv' /\ ClosedInv'
  BY <1>1 DEF TypeOK, FlagsOK, FileInv, Prefix, SwapInv, ClosedInv
<1>6. CASE /\ WriteAt(Page(spec, Len(lut)))
           /\ lut' = Append(lut, cursor)
           /\ built' = built + 1
           /\ pageCount' = Larger(pageCount, built + 1)
  <2>1. part' = Append(part, Page(spec, Len(lut))) /\ cursor' = cursor + 1
    BY <1>3, <1>4, <1>6 DEF WriteAt
  <2>2. Page(spec, Len(lut)) \in (Specs \X Nat) \cup {Null}
    BY <1>2, <1>4 DEF Page
  <2>3. part' \in Contented /\ Len(part') = Len(part) + 1
    BY <1>2, <2>1, <2>2 DEF Contented
  <2>4. lut' \in Seq(Nat) /\ Len(lut') = Len(lut) + 1
    BY <1>2, <1>3, <1>4, <1>6
  <2>5. \A i \in 1..Len(lut') :
          lut'[i] = 0 \/ (lut'[i] = i /\ part'[i] = Page(spec, i - 1))
    <3>. SUFFICES ASSUME NEW i \in 1..Len(lut')
                  PROVE lut'[i] = 0 \/ (lut'[i] = i /\ part'[i] = Page(spec, i - 1))
      OBVIOUS
    <3>1. CASE i \in 1..Len(lut)
      <4>1. lut'[i] = lut[i] /\ part'[i] = part[i]
        BY <1>2, <1>3, <1>6, <2>1, <3>1 DEF Contented
      <4>. QED BY <1>3, <3>1, <4>1
    <3>2. CASE i = Len(lut) + 1
      <4>1. lut'[i] = cursor
        BY <1>2, <1>6, <3>2
      <4>2. part'[i] = Page(spec, Len(lut))
        BY <1>2, <1>3, <2>1, <3>2 DEF Contented
      <4>. QED BY <1>3, <1>4, <3>2, <4>1, <4>2
    <3>. QED BY <1>4, <2>4, <3>1, <3>2
  <2>6. ~Lost' => built' = Len(lut')
    <3>. SUFFICES ASSUME ~Lost' PROVE built' = Len(lut')
      OBVIOUS
    <3>1. \A i \in 1..Len(lut) : lut'[i] = lut[i]
      BY <1>2, <1>6
    <3>2. DOMAIN lut = 1..Len(lut) /\ DOMAIN lut' = 1..(Len(lut) + 1)
      BY <1>2, <2>4
    <3>3. ~Lost
      BY <1>4, <3>1, <3>2 DEF Lost
    <3>. QED BY <1>2, <1>3, <1>4, <1>6, <2>4, <3>3
  <2>7. pageCount' = Larger(partialCount', built') /\ pageCount' \in Nat
    BY <1>1, <1>2, <1>3, <1>6 DEF Larger
  <2>8. DataOK'
    <3>1. \A i \in DOMAIN lut' : lut'[i] <= Len(part')
      BY <1>3, <1>4, <2>3, <2>4, <2>5
    <3>. QED BY <1>1, <1>2, <1>3, <1>4, <1>6, <2>1, <2>3, <2>4, <2>7, <3>1
             DEF TypeOK, DataOK
  <2>9. BuildInv'
    BY <1>1, <1>2, <1>3, <1>4, <1>6, <2>1, <2>3, <2>4, <2>5, <2>6, <2>7 DEF BuildInv
  <2>10. LoadedInv'
    BY <1>1 DEF LoadedInv
  <2>. QED BY <1>1, <1>5, <2>8, <2>9, <2>10 DEF TypeOK
<1>7. CASE /\ WriteAt(Null)
           /\ lut' = Append(lut, 0)
           /\ UNCHANGED <<built, pageCount>>
  <2>1. part' = Append(part, Null) /\ cursor' = cursor + 1
    BY <1>3, <1>4, <1>7 DEF WriteAt
  <2>2. part' \in Contented /\ Len(part') = Len(part) + 1
    BY <1>2, <2>1 DEF Contented
  <2>3. lut' \in Seq(Nat) /\ Len(lut') = Len(lut) + 1
    BY <1>2, <1>4, <1>7
  <2>4. \A i \in 1..Len(lut') :
          lut'[i] = 0 \/ (lut'[i] = i /\ part'[i] = Page(spec, i - 1))
    <3>. SUFFICES ASSUME NEW i \in 1..Len(lut')
                  PROVE lut'[i] = 0 \/ (lut'[i] = i /\ part'[i] = Page(spec, i - 1))
      OBVIOUS
    <3>1. CASE i \in 1..Len(lut)
      <4>1. lut'[i] = lut[i] /\ part'[i] = part[i]
        BY <1>2, <1>3, <1>7, <2>1, <3>1 DEF Contented
      <4>. QED BY <1>3, <3>1, <4>1
    <3>2. CASE i = Len(lut) + 1
      BY <1>2, <1>7, <3>2
    <3>. QED BY <1>4, <2>3, <3>1, <3>2
  <2>5. Lost'
    <3>1. Len(lut) + 1 \in DOMAIN lut' /\ lut'[Len(lut) + 1] = 0
      BY <1>2, <1>4, <1>7, <2>3
    <3>. QED BY <3>1 DEF Lost
  <2>6. DataOK'
    <3>1. \A i \in DOMAIN lut' : lut'[i] <= Len(part')
      BY <1>3, <1>4, <2>2, <2>3, <2>4
    <3>. QED BY <1>1, <1>2, <1>3, <1>4, <1>7, <2>1, <2>2, <2>3, <3>1 DEF TypeOK, DataOK
  <2>7. BuildInv'
    BY <1>1, <1>2, <1>3, <1>4, <1>7, <2>1, <2>2, <2>3, <2>4, <2>5 DEF BuildInv
  <2>8. LoadedInv'
    BY <1>1 DEF LoadedInv
  <2>. QED BY <1>1, <1>5, <2>6, <2>7, <2>8 DEF TypeOK
<1>. QED BY <1>1, <1>6, <1>7 DEF LayPage

\* The pages that a commit without a lost page writes.
LEMMA CommitContents ==
  ASSUME IInv, Disciplined, phase = "open", building, ~Lost,
         NEW pages \in Contents
  PROVE  /\ pages \in Contented /\ Len(pages) = Len(lut) /\ built = Len(lut)
         /\ Prefix(pages, spec)
PROOF
<1>1. /\ Len(lut) <= Pages[spec] /\ Len(part) = Len(lut)
      /\ \A i \in 1..Len(lut) : lut[i] = 0 \/ (lut[i] = i /\ part[i] = Page(spec, i - 1))
      /\ built = Len(lut)
  BY DEF IInv, BuildInv
<1>2. lut \in Seq(Nat) /\ part \in Contented
  BY DEF IInv, TypeOK, DataOK
<1>3. Len(lut) \in Nat /\ DOMAIN lut = 1..Len(lut)
  BY <1>2
<1>4. \A i \in 1..Len(lut) : lut[i] # 0
  BY <1>3 DEF Lost
<1>5. pages = [i \in 1..Len(lut) |-> IF lut[i] = 0 THEN Null ELSE part[lut[i]]]
  BY DEF Contents, Disciplined
<1>6. \A i \in 1..Len(lut) : pages[i] = Page(spec, i - 1) /\ pages[i] = part[i]
  BY <1>1, <1>4, <1>5
<1>7. pages \in [1..Len(lut) -> (Specs \X Nat) \cup {Null}]
  BY <1>1, <1>2, <1>5, <1>6 DEF Contented
<1>8. pages \in Contented /\ Len(pages) = Len(lut)
  BY <1>3, <1>5, <1>7 DEF Contented
<1>. QED BY <1>1, <1>6, <1>8 DEF Prefix

\* What the file replaced by a commit was.
LEMMA Replaced ==
  ASSUME IInv, phase = "open", building, bin # NoFile
  PROVE  partial /\ bin.spec = spec /\ Len(bin.pages) = partialCount
         /\ Len(bin.pages) <= Pages[spec]
BY DEF IInv, LoadedInv, FileInv, Prefix

LEMMA FinishKeeps ==
  ASSUME IInv, Disciplined, Finish PROVE IInv'
PROOF
<1>1. /\ phase = "open" /\ building /\ Len(lut) = Pages[spec] /\ buildSpec = spec
      /\ commitAs' = "final" /\ peek' = peek /\ peek' = 0
  BY DEF Finish, IInv, BuildInv
<1>2. CASE CanCommit
  <2>1. PICK pages \in Contents : BeginSwap(pages)
    BY <1>2 DEF Finish
  <2>2. UNCHANGED <<spec, loaded, partial, partialCount, pageCount,
                    building, buildSpec, lut, built, cursor, want>>
    BY <1>2 DEF Finish, counts, layout
  <2>3. /\ pages \in Contented /\ Len(pages) = Len(lut) /\ built = Len(lut)
        /\ Prefix(pages, spec)
    BY <1>1, <1>2, <2>1, CommitContents DEF CanCommit
  <2>4. old' = bin /\ bin' = NoFile /\ part' = pages /\ phase' = "swap"
    BY <2>1 DEF BeginSwap
  <2>5. FlagsOK'
    BY <2>2 DEF IInv, TypeOK, FlagsOK
  <2>6. DataOK'
    BY <1>1, <2>2, <2>3, <2>4 DEF IInv, TypeOK, DataOK
  <2>7. FileInv(bin)' /\ BuildInv' /\ LoadedInv' /\ ClosedInv'
    BY <2>4 DEF FileInv, BuildInv, LoadedInv, ClosedInv
  <2>8. partialCount <= built /\ (old' # NoFile => old'.spec = spec /\ Len(old'.pages) <= built)
    <3>1. partialCount = 0 \/ bin # NoFile
      BY <1>1, <2>2 DEF IInv, LoadedInv, NoFile
    <3>2. built \in Nat /\ built = Pages[spec]
      BY <1>1, <2>3 DEF IInv, TypeOK, DataOK
    <3>. QED BY <1>1, <2>4, <3>1, <3>2, Replaced
  <2>9. pageCount = built
    <3>1. pageCount = Larger(partialCount, built) /\ partialCount \in Nat /\ built \in Nat
      BY <1>1 DEF IInv, BuildInv, TypeOK, DataOK
    <3>. QED BY <2>8, <3>1 DEF Larger
  <2>10. SwapInv'
    BY <1>1, <2>2, <2>3, <2>4, <2>8, <2>9 DEF SwapInv, Prefix
  <2>. QED BY <1>1, <2>5, <2>6, <2>7, <2>10 DEF IInv, TypeOK
<1>3. CASE ~CanCommit
  <2>1. part' = <<>> /\ Gone /\ UNCHANGED <<bin, old>>
    BY <1>3 DEF Finish
  <2>2. FileInv(bin') /\ bin' \in Files \cup {NoFile} /\ old' \in Files \cup {NoFile}
    BY <2>1 DEF IInv, TypeOK, DataOK
  <2>. QED BY <1>1, <2>1, <2>2, EmptyContents, GoneKeeps
<1>. QED BY <1>2, <1>3

LEMMA CloseKeeps ==
  ASSUME IInv, Disciplined, Close PROVE IInv'
PROOF
<1>1. phase = "open" /\ commitAs' = "partial" /\ peek' = peek /\ peek' = 0
  BY DEF Close, IInv
<1>2. CASE building /\ WorthKeeping /\ CanCommit
  <2>1. PICK pages \in Contents : BeginSwap(pages)
    BY <1>2 DEF Close
  <2>2. UNCHANGED <<spec, loaded, partial, partialCount, pageCount,
                    building, buildSpec, lut, built, cursor, want>>
    BY <1>2 DEF Close, counts, layout
  <2>3. /\ pages \in Contented /\ Len(pages) = Len(lut) /\ built = Len(lut)
        /\ Prefix(pages, spec)
    BY <1>1, <1>2, <2>1, CommitContents DEF CanCommit
  <2>4. old' = bin /\ bin' = NoFile /\ part' = pages /\ phase' = "swap"
    BY <2>1 DEF BeginSwap
  <2>5. FlagsOK'
    BY <2>2 DEF IInv, TypeOK, FlagsOK
  <2>6. DataOK'
    BY <1>1, <2>2, <2>3, <2>4 DEF IInv, TypeOK, DataOK
  <2>7. FileInv(bin)' /\ BuildInv' /\ LoadedInv' /\ ClosedInv'
    BY <2>4 DEF FileInv, BuildInv, LoadedInv, ClosedInv
  <2>0. buildSpec = spec
    BY <1>1, <1>2 DEF IInv, BuildInv
  <2>8. built > 0 /\ (old' # NoFile => old'.spec = spec /\ Len(old'.pages) <= built)
    <3>1. built \in Nat /\ partialCount \in Nat
      BY DEF IInv, TypeOK, DataOK
    <3>. QED BY <1>1, <1>2, <2>4, <3>1, Replaced DEF WorthKeeping
  <2>10. pageCount = built
    <3>1. pageCount = Larger(partialCount, built) /\ partialCount \in Nat /\ built \in Nat
          /\ (~partial => partialCount = 0)
      BY <1>1, <1>2 DEF IInv, BuildInv, LoadedInv, TypeOK, DataOK
    <3>. QED BY <1>2, <3>1 DEF Larger, WorthKeeping
  <2>9. SwapInv'
    BY <1>1, <1>2, <2>0, <2>2, <2>3, <2>4, <2>8, <2>10 DEF SwapInv, Prefix
  <2>. QED BY <1>1, <2>5, <2>6, <2>7, <2>9 DEF IInv, TypeOK
<1>3. CASE ~(building /\ WorthKeeping /\ CanCommit)
  <2>1. part' \in {<<>>, part} /\ Gone /\ UNCHANGED <<bin, old>>
    BY <1>3 DEF Close
  <2>2. /\ FileInv(bin') /\ bin' \in Files \cup {NoFile} /\ old' \in Files \cup {NoFile}
        /\ part' \in Contented
    BY <2>1, EmptyContents DEF IInv, TypeOK, DataOK
  <2>. QED BY <1>1, <2>1, <2>2, GoneKeeps
<1>. QED BY <1>2, <1>3

LEMMA SwapKeeps ==
  ASSUME IInv, Disciplined, Swap PROVE IInv'
PROOF
<1>1. phase = "swap" /\ part' = <<>> /\ UNCHANGED <<old, commitAs, peek>>
  BY DEF Swap
<1>2. /\ spec \in Specs /\ buildSpec = spec /\ part \in Contented /\ built \in Nat
      /\ commitAs \in {"partial", "final"}
      /\ Prefix(part, spec) /\ Len(part) = built /\ bin = NoFile
      /\ (commitAs = "final" => built = Pages[spec])
      /\ (commitAs = "partial" => built > 0)
      /\ pageCount = built /\ building
  BY <1>1 DEF IInv, SwapInv, TypeOK, DataOK
<1>3. CASE bin' = [kind |-> commitAs, spec |-> spec, pages |-> part]
  <2>1. bin' \in Files /\ FileInv(bin')
    BY <1>2, <1>3 DEF Files, FileInv
  <2>2. CASE Gone
    BY <1>1, <2>1, <2>2, EmptyContents, GoneKeeps DEF IInv, TypeOK, DataOK
  <2>3. CASE /\ commitAs = "final" /\ Completed
             /\ phase' = "open"
             /\ lut' = <<>> /\ cursor' = 1
             /\ UNCHANGED <<spec, buildSpec, built, want>>
    <3>1. FlagsOK'
      BY <2>3 DEF FlagsOK, Completed
    <3>2. DataOK'
      BY <1>1, <1>2, <2>1, <2>3, EmptyContents DEF IInv, TypeOK, DataOK, Completed
    <3>3. FileInv(bin)' /\ BuildInv' /\ SwapInv' /\ ClosedInv'
      BY <2>1, <2>3 DEF FileInv, BuildInv, SwapInv, ClosedInv, Completed
    <3>4. LoadedInv'
      <4>1. bin' # NoFile /\ bin'.spec = spec' /\ Len(bin'.pages) = built
            /\ bin'.kind = "final"
        BY <1>2, <1>3, <2>3 DEF NoFile
      <4>. QED BY <2>3, <4>1 DEF LoadedInv, Completed
    <3>. QED BY <1>1, <3>1, <3>2, <3>3, <3>4 DEF IInv, TypeOK
  <2>. QED BY <1>1, <1>2, <1>3, <2>2, <2>3 DEF Swap
<1>4. CASE Gone /\ UNCHANGED bin
  BY <1>1, <1>4, EmptyContents, GoneKeeps DEF IInv, TypeOK, DataOK
<1>. QED BY <1>2, <1>3, <1>4 DEF Swap

\* The steps that end the section, and those that change only what is wanted.
LEMMA OthersKeep ==
  ASSUME IInv, Disciplined,
         \/ Fault \/ Render \/ ClearBook \/ Crash
         \/ \E p \in WantedPages : Want(p)
  PROVE  IInv'
PROOF
<1>1. ASSUME NEW p \in WantedPages, Want(p) PROVE IInv'
  <2>1. p \in Nat
    BY SectionAssumption
  <2>2. DataOK'
    BY <1>1, <2>1 DEF IInv, TypeOK, DataOK, Want, Wanted, disk, layout, counts
  <2>. QED BY <1>1, <2>2 DEF Want, disk, layout, counts, IInv, TypeOK, FlagsOK, FileInv,
              Prefix, BuildInv, Lost, LoadedInv, SwapInv, ClosedInv
<1>2. CASE Show
  <2>1. DataOK'
    BY <1>2 DEF IInv, TypeOK, DataOK, Show, NoPage, disk, layout, counts
  <2>. QED BY <1>2, <2>1 DEF Show, disk, layout, counts, IInv, TypeOK, FlagsOK, FileInv,
              Prefix, BuildInv, Lost, LoadedInv, SwapInv, ClosedInv
<1>3. CASE ShowFails \/ ParseFails
  <2>1. Gone /\ bin' = NoFile /\ part' = <<>> /\ UNCHANGED <<old, commitAs, peek>>
    BY <1>3 DEF ShowFails, ParseFails
  <2>. QED BY <2>1, EmptyContents, GoneKeeps DEF IInv, TypeOK, DataOK, FileInv
<1>4. CASE StartFails
  <2>1. part' = <<>> /\ UNCHANGED <<bin, old, commitAs, peek>> /\ ~building
    BY <1>4 DEF StartFails
  <2>2. CASE Gone
    BY <2>1, <2>2, EmptyContents, GoneKeeps DEF IInv, TypeOK, DataOK
  <2>3. CASE UNCHANGED <<counts, layout, phase, want>> /\ phase = "open"
    <3>1. UNCHANGED <<spec, loaded, partial, partialCount, pageCount,
                      building, buildSpec, lut, built, cursor, phase, want>>
      BY <2>3 DEF counts, layout
    <3>2. lut = <<>>
      BY <2>1, <2>3 DEF IInv, LoadedInv
    <3>3. DataOK'
      BY <2>1, <3>1, <3>2, EmptyContents DEF IInv, TypeOK, DataOK
    <3>4. FlagsOK'
      BY <3>1 DEF IInv, TypeOK, FlagsOK
    <3>. QED BY <2>1, <2>3, <3>1, <3>3, <3>4 DEF IInv, TypeOK, FileInv,
                Prefix, BuildInv, LoadedInv, SwapInv, ClosedInv
  <2>. QED BY <1>4, <2>2, <2>3 DEF StartFails
<1>7. CASE BeginFails
  <2>1. /\ bin' = NoFile /\ part' = <<>> /\ UNCHANGED <<old, commitAs, peek>>
        /\ ~building /\ phase = "open"
    BY <1>7 DEF BeginFails
  <2>2. CASE Gone
    BY <2>1, <2>2, EmptyContents, GoneKeeps DEF IInv, TypeOK, DataOK, FileInv
  <2>3. CASE /\ partial
             /\ partial' = FALSE /\ partialCount' = 0 /\ pageCount' = 0
             /\ UNCHANGED <<spec, loaded, layout, phase, want>>
    <3>1. UNCHANGED <<building, buildSpec, lut, built, cursor>>
      BY <2>3 DEF layout
    <3>2. lut = <<>>
      BY <2>1 DEF IInv, LoadedInv
    <3>3. DataOK'
      BY <2>1, <2>3, <3>1, <3>2, EmptyContents DEF IInv, TypeOK, DataOK
    <3>4. FlagsOK'
      BY <2>3, <3>1 DEF IInv, TypeOK, FlagsOK
    <3>5. Len(bin'.pages) = 0 /\ loaded
      BY <2>1, <2>3 DEF NoFile, IInv, LoadedInv
    <3>6. LoadedInv'
      BY <2>1, <2>3, <3>1, <3>2, <3>5 DEF LoadedInv
    <3>. QED BY <2>1, <2>3, <3>1, <3>3, <3>4, <3>6 DEF IInv, TypeOK, FileInv,
                BuildInv, SwapInv, ClosedInv
  <2>. QED BY <1>7, <2>2, <2>3 DEF BeginFails
<1>5. CASE ClearBook
  <2>1. /\ phase = "closed" /\ bin' = NoFile /\ part' = <<>>
        /\ UNCHANGED <<old, phase, commitAs, want, peek, spec, loaded, partial,
                       partialCount, pageCount, building, buildSpec, lut, built, cursor>>
    BY <1>5 DEF ClearBook, layout, counts
  <2>2. DataOK'
    BY <2>1, EmptyContents DEF IInv, TypeOK, DataOK
  <2>. QED BY <2>1, <2>2 DEF IInv, TypeOK, FlagsOK, FileInv, BuildInv, LoadedInv,
              SwapInv, ClosedInv
<1>6. CASE Crash
  <2>1. Gone /\ peek' = 0 /\ UNCHANGED <<bin, part, old, commitAs>>
    BY <1>6 DEF Crash, disk
  <2>. QED BY <2>1, GoneKeeps DEF IInv, TypeOK, DataOK
<1>. QED BY <1>1, <1>2, <1>3, <1>4, <1>5, <1>6, <1>7 DEF Fault, Render

LEMMA NextKeeps ==
  ASSUME IInv, Disciplined, [Next]_vars PROVE IInv'
PROOF
<1>1. CASE UNCHANGED vars
  <2>1. /\ UNCHANGED <<bin, part, old, building, buildSpec, lut, built, cursor>>
        /\ UNCHANGED <<spec, loaded, partial, partialCount, pageCount>>
        /\ UNCHANGED <<phase, commitAs, want, peek>>
    BY <1>1 DEF vars, disk, layout, counts
  <2>2. FlagsOK'
    BY <2>1 DEF IInv, TypeOK, FlagsOK
  <2>3. DataOK'
    BY <2>1 DEF IInv, TypeOK, DataOK
  <2>4. FileInv(bin)' /\ BuildInv'
    BY <2>1 DEF IInv, FileInv, Prefix, BuildInv, Lost
  <2>5. LoadedInv' /\ SwapInv' /\ ClosedInv'
    BY <2>1 DEF IInv, LoadedInv, SwapInv, ClosedInv, Prefix
  <2>. QED BY <2>1, <2>2, <2>3, <2>4, <2>5 DEF IInv, TypeOK
<1>2. CASE Next
  BY <1>2, OpenKeeps, StartBuildKeeps, LayPageKeeps, FinishKeeps, CloseKeeps,
     SwapKeeps, OthersKeep DEF Next, Build
<1>. QED BY <1>1, <1>2

-----------------------------------------------------------------------------
(* Theorems.                                                               *)

\* Every step of the section code keeps the inductive invariant.
THEOREM Invariance == ASSUME Disciplined PROVE Spec => []IInv
PROOF
<1>1. Init => IInv
  BY InitInv
<1>2. IInv /\ [Next]_vars => IInv'
  BY NextKeeps
<1>. QED BY <1>1, <1>2, PTL DEF Spec

\* The variables have their types, and the position of every page laid out lies
\* in the file (onPageComplete()).
THEOREM TypeCorrect == ASSUME Disciplined PROVE Spec => []TypeOK
PROOF
<1>1. IInv => TypeOK
  BY DEF IInv
<1>. QED BY <1>1, Invariance, PTL

\* loadPage() never returns a page of another layout or another number.
THEOREM ReadsItsLayoutAlways == ASSUME Disciplined PROVE Spec => []ReadsItsLayout
PROOF
<1>1. IInv => ReadsItsLayout
  <2>. SUFFICES ASSUME IInv, phase = "open", NEW p \in 0..(pageCount - 1)
                PROVE  Load(p) \in {Null, Page(spec, p)}
    BY DEF ReadsItsLayout
  <2>1. /\ p \in Nat /\ lut \in Seq(Nat) /\ pageCount \in Nat
        /\ bin \in Files \cup {NoFile}
    BY DEF IInv, TypeOK, DataOK
  <2>2. CASE building /\ p < Len(lut)
    <3>1. p + 1 \in 1..Len(lut) /\ (p + 1) - 1 = p
      BY <2>1, <2>2
    <3>. QED BY <2>2, <3>1 DEF IInv, BuildInv, Load
  <2>3. CASE ~(building /\ p < Len(lut)) /\ p < OnDisk /\ p < Len(bin.pages)
    <3>1. bin # NoFile /\ bin.spec = spec
      <4>1. loaded \/ bin = NoFile
        BY DEF IInv, LoadedInv
      <4>2. bin = NoFile => Len(bin.pages) = 0
        BY DEF NoFile
      <4>. QED BY <2>1, <2>3, <4>1, <4>2 DEF IInv, LoadedInv
    <3>2. Len(bin.pages) \in Nat
      BY <2>1, <3>1 DEF Files, Contented
    <3>3. p + 1 \in 1..Len(bin.pages) /\ (p + 1) - 1 = p
      BY <2>1, <2>3, <3>2
    <3>. QED BY <2>3, <3>1, <3>3 DEF IInv, FileInv, Prefix, Load
  <2>. QED BY <2>2, <2>3 DEF Load
<1>. QED BY <1>1, Invariance, PTL

\* Every page the reader may show loads, unless a page could not be written.
THEOREM AvailablePagesLoadAlways == ASSUME Disciplined PROVE Spec => []AvailablePagesLoad
PROOF
<1>1. IInv => AvailablePagesLoad
  <2>. SUFFICES ASSUME IInv, phase = "open", ~Lost, NEW p \in 0..(pageCount - 1)
                PROVE  Load(p) # Null
    BY DEF AvailablePagesLoad
  <2>1. /\ p \in Nat /\ lut \in Seq(Nat) /\ pageCount \in Nat /\ built \in Nat
        /\ partialCount \in Nat /\ bin \in Files \cup {NoFile}
    BY DEF IInv, TypeOK, DataOK
  <2>2. Page(spec, p) # Null
    BY DEF Page, Null
  <2>3. CASE building /\ p < Len(lut)
    <3>1. p + 1 \in 1..Len(lut) /\ (p + 1) - 1 = p /\ p + 1 \in DOMAIN lut
      BY <2>1, <2>3
    <3>. QED BY <2>2, <2>3, <3>1 DEF IInv, BuildInv, Load, Lost
  <2>4. CASE ~(building /\ p < Len(lut))
    <3>1. p < OnDisk /\ OnDisk = Len(bin.pages) /\ bin # NoFile
      <4>1. CASE building
        <5>1. pageCount = Larger(partialCount, built) /\ built = Len(lut)
          BY <4>1 DEF IInv, BuildInv
        <5>2. Len(lut) \in Nat /\ ~(p < Len(lut))
          BY <2>1, <2>4, <4>1
        <5>3. p < partialCount
          BY <2>1, <5>1, <5>2 DEF Larger
        <5>4. partial
          <6>1. ~partial => partialCount = 0
            BY DEF IInv, LoadedInv
          <6>2. partialCount # 0
            BY <2>1, <5>3
          <6>. QED BY <6>1, <6>2
        <5>5. loaded /\ bin # NoFile /\ partialCount = Len(bin.pages)
          BY <5>4 DEF IInv, LoadedInv, NoFile
        <5>. QED BY <5>3, <5>4, <5>5 DEF OnDisk
      <4>2. CASE ~building
        <5>1. p < pageCount
          BY <2>1
        <5>2. loaded
          <6>1. ~loaded => pageCount = 0
            BY <4>2 DEF IInv, LoadedInv
          <6>2. pageCount # 0
            BY <2>1, <5>1
          <6>. QED BY <6>1, <6>2
        <5>3. bin # NoFile /\ pageCount = Len(bin.pages)
              /\ (partial => partialCount = Len(bin.pages))
          <6>1. pageCount = Len(bin.pages) /\ (partial => partialCount = Len(bin.pages))
            BY <4>2, <5>2 DEF IInv, LoadedInv
          <6>2. bin = NoFile => Len(bin.pages) = 0
            BY DEF NoFile
          <6>. QED BY <2>1, <5>1, <6>1, <6>2
        <5>4. OnDisk = pageCount
          BY <4>2, <5>3 DEF OnDisk
        <5>. QED BY <5>1, <5>3, <5>4
      <4>. QED BY <4>1, <4>2
    <3>2. Len(bin.pages) \in Nat
      BY <2>1, <3>1 DEF Files, Contented
    <3>3. p + 1 \in 1..Len(bin.pages) /\ (p + 1) - 1 = p
      BY <2>1, <3>1, <3>2
    <3>4. bin.spec = spec
      BY <3>1 DEF IInv, LoadedInv
    <3>. QED BY <2>2, <2>4, <3>1, <3>3, <3>4 DEF IInv, FileInv, Prefix, Load
  <2>. QED BY <2>3, <2>4
<1>. QED BY <1>1, Invariance, PTL

\* A section file is what its version says, at every moment a crash may come.
THEOREM CommittedIsCompleteAlways == ASSUME Disciplined PROVE Spec => []CommittedIsComplete
PROOF
<1>1. IInv => CommittedIsComplete
  <2>. SUFFICES ASSUME IInv, bin # NoFile
                PROVE  /\ bin.kind = "final" => bin.pages = Layout(bin.spec)
                       /\ bin.kind = "partial" =>
                            /\ Len(bin.pages) \in 1..Pages[bin.spec]
                            /\ \A i \in 1..Len(bin.pages) : bin.pages[i] = Page(bin.spec, i - 1)
    BY DEF CommittedIsComplete
  <2>1. bin \in Files
    BY DEF IInv, TypeOK, DataOK
  <2>2. Len(bin.pages) \in Nat /\ bin.pages \in Seq((Specs \X Nat) \cup {Null})
        /\ Pages[bin.spec] \in Nat
    BY <2>1, SectionAssumption DEF Files, Contented
  <2>3. CASE bin.kind = "final"
    <3>1. bin.pages = [i \in 1..Len(bin.pages) |-> bin.pages[i]]
      BY <2>2
    <3>. QED BY <2>2, <2>3, <3>1 DEF IInv, FileInv, Prefix, Layout
  <2>4. CASE bin.kind = "partial"
    BY <2>2, <2>4 DEF IInv, FileInv, Prefix
  <2>. QED BY <2>3, <2>4
<1>. QED BY <1>1, Invariance, PTL

\* A partial on disk is replaced by nothing shorter (suspendBuild()).
THEOREM PartialOnlyGrowsAlways == ASSUME Disciplined PROVE Spec => PartialOnlyGrows
PROOF
<1>1. ASSUME IInv, [Next]_vars, phase = "swap", bin' # NoFile, old # NoFile,
             old.spec = buildSpec
      PROVE  Len(bin'.pages) >= Len(old.pages)
  <2>1. bin = NoFile /\ Len(part) = built /\ built >= Len(old.pages)
    BY <1>1 DEF IInv, SwapInv
  <2>2. Swap
    <3>1. bin' # bin
      BY <1>1, <2>1
    <3>. QED BY <1>1, <2>1, <3>1 DEF Next, vars, disk, Build, Fault, Render, Open,
         StartBuild, LayPage, Finish, Close, StartFails, BeginFails, ParseFails, Want, Show,
         ShowFails, ClearBook, Crash
  <2>3. bin'.pages = part
    BY <1>1, <2>1, <2>2 DEF Swap
  <2>. QED BY <2>1, <2>3
<1>2. IInv /\ [Next]_vars =>
        [ phase = "swap" /\ bin' # NoFile /\ old # NoFile /\ old.spec = buildSpec
          => Len(bin'.pages) >= Len(old.pages) ]_vars
  BY <1>1
<1>. QED BY <1>2, Invariance, PTL DEF Spec, PartialOnlyGrows

-----------------------------------------------------------------------------
(* The cache keeps its promise to the reader.                              *)

\* No more pages are available than the chapter has, and all of them once the
\* section says it is complete, unless it lost its file.
LEMMA PagesBounded ==
  ASSUME IInv', phase' = "open"
  PROVE  /\ spec' \in Specs /\ Pages[spec'] \in Nat /\ pageCount' \in 0..Pages[spec']
         /\ (bin' # NoFile /\ loaded' /\ ~partial' /\ ~building' => pageCount' = Pages[spec'])
PROOF
<1>1. spec' \in Specs /\ Pages[spec'] \in Nat
  BY SectionAssumption DEF IInv, TypeOK, DataOK
<1>2. /\ bin' \in Files \cup {NoFile} /\ lut' \in Seq(Nat)
      /\ pageCount' \in Nat /\ built' \in Nat /\ partialCount' \in Nat
  BY DEF IInv, TypeOK, DataOK
<1>3. CASE building'
  <2>1. /\ pageCount' = Larger(partialCount', built') /\ built' <= Len(lut')
        /\ Len(lut') <= Pages[spec']
    BY <1>3 DEF IInv, BuildInv
  <2>2. partialCount' <= Pages[spec']
    <3>1. CASE partial'
      <4>1. bin' # NoFile /\ bin'.spec = spec' /\ partialCount' = Len(bin'.pages)
        BY <3>1 DEF IInv, LoadedInv, NoFile
      <4>. QED BY <4>1 DEF IInv, FileInv, Prefix
    <3>2. CASE ~partial'
      BY <1>1, <3>2 DEF IInv, LoadedInv
    <3>. QED BY <3>1, <3>2
  <2>3. Len(lut') \in Nat
    BY <1>2
  <2>. QED BY <1>1, <1>2, <1>3, <2>1, <2>2, <2>3 DEF Larger
<1>6. CASE ~building' /\ loaded' /\ bin' = NoFile
  <2>1. pageCount' = 0
    BY <1>6 DEF IInv, LoadedInv, NoFile
  <2>. QED BY <1>1, <1>6, <2>1
<1>4. CASE ~building' /\ loaded' /\ bin' # NoFile
  <2>1. bin' # NoFile /\ bin'.spec = spec' /\ pageCount' = Len(bin'.pages)
        /\ (~partial' => bin'.kind = "final")
    BY <1>4 DEF IInv, LoadedInv
  <2>2. pageCount' <= Pages[spec'] /\ (~partial' => pageCount' = Pages[spec'])
    BY <2>1 DEF IInv, FileInv, Prefix
  <2>. QED BY <1>1, <1>2, <2>2
<1>5. CASE ~building' /\ ~loaded'
  <2>1. pageCount' = 0
    BY <1>5 DEF IInv, LoadedInv
  <2>. QED BY <1>1, <1>5, <2>1
<1>. QED BY <1>3, <1>4, <1>5, <1>6

\* What changes neither the section nor its file.
Seen == <<bin, old, phase, spec, pageCount, loaded, partial, building>>

LEMMA SeenStutters ==
  ASSUME UNCHANGED Seen PROVE UNCHANGED Promise!vars
BY DEF Seen, Promise!vars, Kept, PagesOf, OpenSection

\* The section is dropped before a commit: the file stays, or goes with it.
LEMMA DropCloses ==
  ASSUME phase = "open", phase' = "closed", bin' \in {bin, NoFile}
  PROVE  Promise!Next
PROOF
<1>1. OpenSection # {} /\ OpenSection' = {}
  BY DEF OpenSection
<1>2. Kept' \in {Kept, {}}
  BY DEF Kept, PagesOf
<1>. QED BY <1>1, <1>2 DEF Promise!Next, Promise!Close

LEMMA OpenOpens ==
  ASSUME IInv, NEW s \in Specs, Open(s) PROVE Promise!Next
PROOF
<1>. DEFINE v == [layout |-> s, pages |-> pageCount',
                  whole |-> loaded' /\ ~partial' /\ ~building']
<1>1. phase = "closed" /\ phase' = "open" /\ spec' = s /\ IInv'
  BY OpenKeeps DEF Open
<1>2. OpenSection = {} /\ OpenSection' = {v}
  BY <1>1 DEF OpenSection
<1>3. v \in Promise!Beginnings(s)
  <2>1. /\ v.layout = s /\ v.pages = pageCount'
        /\ v.whole = (loaded' /\ ~partial' /\ ~building')
    OBVIOUS
  <2>2. pageCount' \in 0..Pages[s] /\ (v.whole => pageCount' = Pages[s])
    <3>1. v.whole => bin' # NoFile
      <4>1. v.whole => loaded'
        BY <2>1
      <4>2. loaded' => bin' = bin /\ bin.kind # "none"
        BY DEF Open, Accepts
      <4>. QED BY <4>1, <4>2 DEF NoFile
    <3>. QED BY <1>1, <2>1, <3>1, PagesBounded
  <2>3. v \in [layout : {s}, pages : 0..Pages[s], whole : BOOLEAN]
    BY <2>2
  <2>. QED BY <2>1, <2>2, <2>3 DEF Promise!Beginnings
<1>4. Kept = PagesOf(bin) /\ Kept' = PagesOf(bin')
  BY <1>1 DEF Kept
<1>5. bin \in Files \cup {NoFile}
  BY DEF IInv, TypeOK, DataOK
<1>6. CASE Accepts(s)
  <2>1. bin' = bin /\ bin # NoFile /\ bin.spec = s /\ bin.kind \in {"partial", "final"}
    BY <1>5, <1>6 DEF Open, Accepts, NoFile, Files
  <2>2. ~building
    BY <1>1 DEF IInv, ClosedInv
  <2>3. /\ pageCount' = Len(bin.pages)
        /\ (loaded' /\ ~partial' /\ ~building') = (bin.kind = "final")
    BY <1>6, <2>1, <2>2 DEF Open, layout
  <2>4. Kept = {v} /\ Kept' = {v}
    BY <1>4, <2>1, <2>3 DEF PagesOf
  <2>5. \A f \in Kept : Promise!Reaches(v, f)
    <3>1. pageCount' \in Nat
      BY <1>1 DEF IInv, TypeOK, DataOK
    <3>. QED BY <2>4, <3>1 DEF Promise!Reaches
  <2>6. {f \in Kept : f.layout = s} = {v}
    BY <2>4
  <2>. QED BY <1>2, <1>3, <2>4, <2>5, <2>6 DEF Promise!Next, Promise!Open
<1>7. CASE ~Accepts(s)
  <2>1. bin' = NoFile /\ loaded' = FALSE
    BY <1>7 DEF Open
  <2>2. bin = NoFile \/ bin.spec # s
    BY <1>5, <1>7 DEF Accepts, Files
  <2>3. \A f \in Kept : f.layout # s
    BY <1>4, <2>2 DEF PagesOf
  <2>4. Kept' = {} /\ {f \in Kept : f.layout = s} = {} /\ ~v.whole
    BY <1>4, <2>1, <2>3 DEF PagesOf
  <2>5. \A f \in Kept : Promise!Reaches(v, f)
    BY <2>3 DEF Promise!Reaches
  <2>. QED BY <1>2, <1>3, <2>4, <2>5 DEF Promise!Next, Promise!Open
<1>. QED BY <1>6, <1>7

\* Pages are laid out: more of them are available.
LEMMA LayPageGrows ==
  ASSUME IInv, LayPage PROVE Promise!Next
PROOF
<1>. DEFINE v == [layout |-> spec, pages |-> pageCount,
                  whole |-> loaded /\ ~partial /\ ~building]
            w == [layout |-> spec, pages |-> pageCount', whole |-> FALSE]
<1>1. phase = "open" /\ building
      /\ UNCHANGED <<bin, phase, spec, loaded, partial, building>>
  BY DEF LayPage
<1>2. IInv'
  BY LayPageKeeps
<1>3. OpenSection = {v} /\ OpenSection' = {w} /\ ~v.whole /\ Kept' = Kept
  BY <1>1 DEF OpenSection, Kept, PagesOf
<1>4. pageCount' >= pageCount
  <2>1. pageCount \in Nat /\ built \in Nat
    BY DEF IInv, TypeOK, DataOK
  <2>. QED BY <2>1 DEF LayPage, Larger
<1>5. w \in Promise!Beginnings(v.layout)
  <2>1. pageCount' \in 0..Pages[spec]
    BY <1>1, <1>2, PagesBounded
  <2>. QED BY <2>1 DEF Promise!Beginnings
<1>6. Promise!Reaches(w, v)
  BY <1>1, <1>4 DEF Promise!Reaches
<1>. QED BY <1>3, <1>5, <1>6 DEF Promise!Next, Promise!Grow

\* The rename puts a file in place of the one kept: of the whole chapter, and the
\* section stays open, or of the pages laid out, and it closes.
LEMMA SwapCommits ==
  ASSUME IInv, Disciplined, Swap PROVE Promise!Next
PROOF
<1>. DEFINE v == [layout |-> spec, pages |-> pageCount, whole |-> FALSE]
            w == [layout |-> spec, pages |-> pageCount, whole |-> TRUE]
<1>1. /\ phase = "swap" /\ building /\ buildSpec = spec /\ bin = NoFile
      /\ Len(part) = built /\ pageCount = built
      /\ (commitAs = "final" => built = Pages[spec])
      /\ (commitAs = "partial" => built > 0)
  BY DEF Swap, IInv, SwapInv
<1>2. /\ commitAs \in {"partial", "final"} /\ spec \in Specs
      /\ pageCount \in Nat /\ Pages[spec] \in Nat
  BY <1>1, SectionAssumption DEF IInv, TypeOK, DataOK
<1>3. OpenSection = {v}
  BY <1>1 DEF OpenSection
<1>4. ASSUME bin' = [kind |-> commitAs, spec |-> buildSpec, pages |-> part], phase' # "swap"
      PROVE  Kept' = {[layout |-> spec, pages |-> pageCount, whole |-> commitAs = "final"]}
  <2>1. bin' # NoFile
    BY <1>2, <1>4 DEF NoFile
  <2>2. bin'.spec = spec /\ bin'.pages = part /\ bin'.kind = commitAs
    BY <1>1, <1>4
  <2>. QED BY <1>1, <1>4, <2>1, <2>2 DEF Kept, PagesOf
<1>5. CASE /\ bin' = [kind |-> commitAs, spec |-> buildSpec, pages |-> part]
           /\ commitAs = "final" /\ Completed /\ phase' = "open" /\ spec' = spec
  <2>1. Kept' = {w}
    BY <1>4, <1>5
  <2>2. OpenSection' = {w}
    BY <1>1, <1>5 DEF OpenSection, Completed
  <2>3. w \in Promise!Beginnings(v.layout) /\ Promise!Reaches(w, v)
    BY <1>1, <1>2, <1>5 DEF Promise!Beginnings, Promise!Reaches
  <2>. QED BY <1>3, <2>1, <2>2, <2>3 DEF Promise!Next, Promise!Grow
<1>6. CASE /\ bin' = [kind |-> commitAs, spec |-> buildSpec, pages |-> part]
           /\ commitAs = "partial" /\ phase' = "closed"
  <2>1. Kept' = {v}
    BY <1>4, <1>6
  <2>2. OpenSection' = {}
    BY <1>6 DEF OpenSection
  <2>3. v.pages > 0
    BY <1>1, <1>6
  <2>. QED BY <1>3, <2>1, <2>2, <2>3 DEF Promise!Next, Promise!Close
<1>7. CASE bin' = bin /\ phase' = "closed"
  <2>1. Kept' = {} /\ OpenSection' = {}
    BY <1>1, <1>7 DEF Kept, PagesOf, OpenSection
  <2>. QED BY <1>3, <2>1 DEF Promise!Next, Promise!Close
<1>. QED BY <1>2, <1>5, <1>6, <1>7 DEF Swap, Gone

LEMMA StepKeepsPromise ==
  ASSUME IInv, Disciplined, [Next]_vars PROVE [Promise!Next]_(Promise!vars)
PROOF
<1>1. ASSUME NEW s \in Specs, Open(s) PROVE Promise!Next
  BY <1>1, OpenOpens
<1>2. CASE StartBuild
  <2>1. /\ phase = "open" /\ ~building /\ (partial \/ ~loaded) /\ building'
        /\ pageCount' = StartCount
        /\ UNCHANGED <<bin, phase, spec, loaded, partial>>
    BY <1>2 DEF StartBuild
  <2>2. pageCount' = pageCount
    BY <2>1 DEF IInv, LoadedInv, StartCount
  <2>3. UNCHANGED <<Kept, OpenSection>>
    BY <2>1, <2>2 DEF Kept, PagesOf, OpenSection
  <2>. QED BY <2>3 DEF Promise!vars
<1>3. CASE LayPage
  BY <1>3, LayPageGrows
<1>4. ASSUME phase = "open", building, NEW pages, BeginSwap(pages), UNCHANGED <<counts, layout>>
      PROVE  UNCHANGED Promise!vars
  <2>1. Kept' = Kept
    BY <1>4 DEF BeginSwap, Kept, PagesOf
  <2>2. OpenSection' = OpenSection
    BY <1>4 DEF BeginSwap, OpenSection, counts, layout
  <2>. QED BY <2>1, <2>2 DEF Promise!vars
<1>5. CASE Finish
  <2>1. CASE CanCommit
    BY <1>4, <1>5, <2>1 DEF Finish
  <2>2. CASE ~CanCommit
    BY <1>5, <2>2, DropCloses DEF Finish, Gone
  <2>. QED BY <2>1, <2>2
<1>6. CASE Close
  <2>1. CASE building /\ WorthKeeping /\ CanCommit
    BY <1>4, <1>6, <2>1 DEF Close
  <2>2. CASE ~(building /\ WorthKeeping /\ CanCommit)
    BY <1>6, <2>2, DropCloses DEF Close, Gone
  <2>. QED BY <2>1, <2>2
<1>7. CASE Swap
  BY <1>7, SwapCommits
<1>8. CASE ShowFails \/ ParseFails
  BY <1>8, DropCloses DEF ShowFails, ParseFails, Gone
<1>9. CASE StartFails
  <2>1. CASE Gone
    BY <1>9, <2>1, DropCloses DEF StartFails, Gone
  <2>2. CASE UNCHANGED <<counts, layout, phase, want>>
    BY <1>9, <2>2, SeenStutters DEF StartFails, Seen, counts, layout
  <2>. QED BY <1>9, <2>1, <2>2 DEF StartFails
<1>14. CASE BeginFails
  <2>1. phase = "open" /\ bin' = NoFile
    BY <1>14 DEF BeginFails
  <2>2. CASE Gone
    BY <2>1, <2>2, DropCloses DEF Gone
  <2>3. CASE /\ partial
             /\ partial' = FALSE /\ pageCount' = 0
             /\ UNCHANGED <<spec, loaded, layout, phase>>
    <3>. DEFINE v == [layout |-> spec, pages |-> pageCount, whole |-> FALSE]
                w == [layout |-> spec, pages |-> 0, whole |-> TRUE]
    <3>1. loaded /\ ~building /\ building' = building
      BY <1>14, <2>1, <2>3 DEF BeginFails, IInv, LoadedInv, layout
    <3>2. OpenSection = {v} /\ OpenSection' = {w} /\ Kept' = {}
      BY <2>1, <2>3, <3>1 DEF OpenSection, Kept, PagesOf
    <3>3. v.layout = spec /\ ~v.whole
      OBVIOUS
    <3>. QED BY <3>2, <3>3 DEF Promise!Next, Promise!Lose
  <2>. QED BY <1>14, <2>2, <2>3 DEF BeginFails
<1>10. CASE Show \/ \E p \in WantedPages : Want(p)
  BY <1>10, SeenStutters DEF Show, Want, Seen, disk, counts, layout
<1>11. CASE ClearBook
  <2>1. OpenSection = {} /\ OpenSection' = {} /\ Kept' = {}
    BY <1>11 DEF ClearBook, OpenSection, Kept, PagesOf
  <2>. QED BY <2>1 DEF Promise!Next, Promise!Clear
<1>12. CASE Crash
  <2>1. phase \in {"open", "swap"} /\ phase' = "closed" /\ bin' = bin
    BY <1>12 DEF Crash, Gone, disk, IInv, TypeOK, DataOK
  <2>2. CASE phase = "open"
    BY <2>1, <2>2, DropCloses
  <2>3. CASE phase = "swap"
    <3>1. bin = NoFile
      BY <2>3 DEF IInv, SwapInv
    <3>2. OpenSection # {} /\ OpenSection' = {} /\ Kept' = {}
      BY <2>1, <2>3, <3>1 DEF OpenSection, Kept, PagesOf
    <3>. QED BY <3>2 DEF Promise!Next, Promise!Close
  <2>. QED BY <2>1, <2>2, <2>3
<1>13. CASE UNCHANGED vars
  BY <1>13, SeenStutters DEF vars, Seen, disk, counts, layout
<1>. QED BY <1>1, <1>2, <1>3, <1>5, <1>6, <1>7, <1>8, <1>9, <1>10, <1>11, <1>12, <1>13,
        <1>14 DEF Next, Build, Fault, Render

\* Whatever the tasks do, whatever fails but the writes of the tables, and wherever
\* power is lost, the section cache keeps its promise: an open section only gains
\* pages, is whole only when its file is, and closes on the pages it showed or on
\* those of before (Section.cpp).  It loses pages while it is open in one way: all of
\* them, with their file, when beginParse() fails under an extension.
THEOREM CacheKeepsItsPromise ==
  ASSUME Disciplined PROVE Spec => ImplementsChapterPages
PROOF
<1>1. Init => Promise!Init
  BY DEF Init, Promise!Init, Kept, PagesOf, OpenSection
<1>2. IInv /\ [Next]_vars => [Promise!Next]_(Promise!vars)
  BY StepKeepsPromise
<1>. QED BY <1>1, <1>2, Invariance, PTL DEF Spec, ImplementsChapterPages, Promise!Spec
=============================================================================
