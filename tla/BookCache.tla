------------------------------ MODULE BookCache ------------------------------
(***************************************************************************)
(* What the card keeps of one EPUB between two openings: book.bin, with    *)
(* the spine and the table of contents (BookMetadataCache.cpp), the rules  *)
(* of its style sheets (CssParser.cpp), and the chapters laid out with     *)
(* those rules.  Epub::load() uses them or rebuilds them.                  *)
(*                                                                         *)
(* A step ends where the card changes, so that the power can fail between  *)
(* any two changes.  The book itself, the archive and the parsers are left *)
(* out: a parse delivers what the book holds, part of it, or fails.        *)
(***************************************************************************)
EXTENDS Integers, Sequences, FiniteSets

CONSTANTS
  Spine,     \* number of spine items
  Docs,      \* what the nav document and the NCX may list, as spine indexes
  PartRules  \* rule sets a parse short of memory may stop with

ASSUME BookAssumption ==
  /\ Spine \in Nat
  /\ \A d \in Docs : {d.nav, d.ncx} \subseteq Seq((0..Spine-1) \cup {-1})
  /\ PartRules \cap {"all", "none", "old"} = {}

VARIABLES
  book,        \* the tables of contents of the book
  bin,         \* book.bin
  tmp,         \* spine.bin.tmp and toc.bin.tmp: "none", "whole", "cut", or
               \* "short" of writes whose failure nobody looked at
  entries,     \* the entries createTocEntry() wrote
  rules,       \* css_rules.cache
  backup,      \* css_rules.cache.bak
  sections,    \* the rules the laid-out chapters on the card were laid out with
  pc,          \* what Epub::load() does next
  building,    \* the metadata was not loaded: book.bin is being built
  plain,       \* skipLoadingCss
  status,      \* existingCacheStatus given to parseCssFiles()
  result,      \* cssParseResult
  loaded       \* BookMetadataCache after load()

VARIABLES  \* History, for the properties.
  cut,         \* the last build of book.bin was cut, given up or fed by a short file
  behind       \* a fault came between new rules and the removal of the sections

card == <<bin, tmp, rules, backup, sections>>
work == <<entries, building, plain, status, result>>
vars == <<book, card, work, pc, loaded, cut, behind>>

-----------------------------------------------------------------------------
(* book.bin.                                                               *)

Items == 0..Spine-1

File(kind, toc, index) == [kind |-> kind, toc |-> toc, index |-> index]
NoFile  == File("none", <<>>, <<>>)
Empty   == File("empty", <<>>, <<>>)
Cut     == File("cut", <<>>, <<>>)
Outdated == File("old", <<>>, <<>>)

\* spineToTocIndex: the first entry naming each item, numbered from 0.
Mapped(toc) ==
  [i \in Items |->
     LET naming == {j \in DOMAIN toc : toc[j] = i}
     IN  IF naming = {} THEN -1 ELSE (CHOOSE j \in naming : \A k \in naming : j <= k) - 1]

\* An item no entry names takes the entry of the item before it.
Inherited(toc) ==
  LET index[i \in Items] ==
        IF Mapped(toc)[i] # -1 THEN Mapped(toc)[i]
        ELSE IF i = 0 THEN -1 ELSE index[i - 1]
  IN  index

Whole(toc) == File("whole", toc, Inherited(toc))

\* load() compares the version and nothing else.  Of an empty file, it compares
\* a byte it never read.
Loads(file) ==
  CASE file.kind \in {"none", "old"}  -> {FALSE}
    [] file.kind = "empty"            -> BOOLEAN
    [] OTHER                          -> {TRUE}

-----------------------------------------------------------------------------
Init ==
  /\ book \in Docs
  /\ bin \in {NoFile, Outdated} /\ tmp = "none" /\ entries = <<>>
  /\ rules \in {"none", "old"} /\ backup = "none"
  /\ sections \in IF rules = "old" THEN {{}, {"old"}} ELSE {{}}
  /\ pc = "closed" /\ building = FALSE /\ plain = FALSE
  /\ status = "Missing" /\ result = "Error" /\ loaded = NoFile
  /\ cut = FALSE /\ behind = FALSE

\* load() returns, and its locals are gone.
Forget ==
  entries' = <<>> /\ building' = FALSE /\ plain' = FALSE /\ status' = "Missing" /\ result' = "Error"

Leave       == pc' = "closed" /\ loaded' = NoFile /\ Forget
Enter(file) == pc' = "open" /\ loaded' = file /\ Forget
Go(to)      == pc' = to /\ UNCHANGED <<loaded, work>>

\* The reader builds what is missing; a synchronisation and the home screen do
\* not, and neither they nor a reader without the book's styles want the rules.
Open ==
  /\ pc = "closed"
  /\ \E build \in BOOLEAN, skip \in BOOLEAN, ok \in Loads(bin) :
       /\ build \/ skip
       /\ CASE ok /\ skip    -> Enter(bin)
            [] ok /\ ~skip   -> pc' = "inspect" /\ loaded' = bin /\ UNCHANGED work
            [] ~ok /\ build  -> /\ pc' = "opf" /\ building' = TRUE /\ plain' = skip
                               /\ UNCHANGED <<loaded, entries, status, result>>
            [] ~ok /\ ~build -> Leave
  /\ UNCHANGED <<book, card, cut, behind>>

-----------------------------------------------------------------------------
(* Building book.bin.                                                      *)

\* The pass over content.opf.  Writes that no buffer could be had for are not
\* checked.
OpfPass ==
  /\ pc = "opf"
  /\ \/ tmp' \in {"whole", "short"} /\ Go("toc")
     \/ tmp' \in {tmp, "cut"} /\ Leave
  /\ UNCHANGED <<book, bin, rules, backup, sections, cut, behind>>

Prefixes(toc) == {SubSeq(toc, 1, n) : n \in 0..Len(toc)}

\* The nav document, or what was read of it followed by the NCX.
TocEntries ==
  (IF book.nav = <<>> THEN {} ELSE {book.nav})
    \cup {part \o rest : part \in Prefixes(book.nav), rest \in Prefixes(book.ncx)}

TocPass ==
  /\ pc = "toc"
  /\ \/ /\ entries' \in TocEntries /\ tmp' \in {tmp, "short"}
        /\ pc' = "bin" /\ UNCHANGED <<building, plain, status, result, loaded>>
     \/ tmp' \in {tmp, "cut"} /\ Leave
  /\ UNCHANGED <<book, bin, rules, backup, sections, cut, behind>>

\* book.bin is emptied first; then the two files of the passes are opened.
BeginBin ==
  /\ pc = "bin"
  /\ \/ bin' = Empty /\ cut' = TRUE /\ (Go("fill") \/ Leave)
     \/ UNCHANGED <<bin, cut>> /\ Leave
  /\ UNCHANGED <<book, tmp, rules, backup, sections, behind>>

ShortWrite_Kept == bin' = Cut

\* A short write removes the file.
ShortWrite == bin' = NoFile

\* Only what a whole pass wrote makes a whole file.  Where the archive does not
\* open, the header stays if it was already on the card.
FillBin ==
  /\ pc = "fill"
  /\ \/ /\ bin' = IF tmp = "whole" THEN Whole(entries) ELSE Cut
        /\ cut' = (tmp = "short") /\ Go("clean")
     \/ ShortWrite /\ cut' = FALSE /\ Leave
     \/ bin' \in {Empty, Cut} /\ Leave /\ UNCHANGED cut
  /\ UNCHANGED <<book, tmp, rules, backup, sections, behind>>

CleanTmp ==
  /\ pc = "clean"
  /\ tmp' \in {"none", tmp}
  /\ Go(IF plain THEN "reload" ELSE "inspect")
  /\ UNCHANGED <<book, bin, rules, backup, sections, cut, behind>>

-----------------------------------------------------------------------------
(* The rules.                                                              *)

\* Rules the reader can use: all of the book's or a part of them.
Usable(r) == r = "all" \/ r \in PartRules

\* inspectCache().
Status(r) ==
  CASE r = "none"      -> "Missing"
    [] r \in PartRules -> "Partial"
    [] r = "all"       -> "Complete"
    [] OTHER           -> "Invalid"

\* A replacement that was interrupted is undone first, where the card lets it.
Restored ==
  IF rules = "none" /\ backup # "none"
    THEN {[rules |-> backup, backup |-> "none"], [rules |-> rules, backup |-> backup]}
    ELSE {[rules |-> rules, backup |-> backup]}

\* With a book just built the style sheets are parsed whatever is there.
\* Complete rules that do not fit in memory are kept for a later retry.
Inspect ==
  /\ pc = "inspect"
  /\ \E r \in Restored :
       /\ rules' = r.rules /\ backup' = r.backup
       /\ IF Status(r.rules) = "Complete" /\ ~building
            THEN Enter(loaded)
            ELSE /\ status' = Status(r.rules)
                 /\ pc' = IF status' = "Invalid" /\ ~building THEN "delete" ELSE "parse"
                 /\ UNCHANGED <<entries, building, plain, result, loaded>>
  /\ UNCHANGED <<book, bin, tmp, sections, cut, behind>>

DeleteCache ==
  /\ pc = "delete"
  /\ rules' = "none" /\ backup' = "none"
  /\ Go("parse")
  /\ UNCHANGED <<book, bin, tmp, sections, cut, behind>>

\* parseCssFiles(): all the rules, a part of them, or an error, which leaves
\* the card alone.  So does a part where there is a part already.
KeepsPart == status = "Partial"

Parse ==
  /\ pc = "parse"
  /\ \/ result' = "Complete" /\ pc' = "backup"
     \/ result' = "Partial" /\ pc' = IF KeepsPart THEN "parsed" ELSE "backup"
     \/ result' = "Error" /\ pc' = "parsed"
  /\ UNCHANGED <<book, card, entries, building, plain, status, loaded, cut, behind>>

NotSaved == result' = "Error" /\ pc' = "parsed"

Backup_Removes == rules' = "none" /\ UNCHANGED backup

\* The file the new rules replace is kept until they are in its place.
Backup == rules' = "none" /\ backup' = rules

\* saveToCache(): the new rules are in css_rules.cache.tmp, if they could be
\* written.
BackupRules ==
  /\ pc = "backup"
  /\ \/ rules = "none" /\ pc' = "promote" /\ UNCHANGED <<rules, backup, result>>
     \/ rules # "none" /\ Backup /\ pc' = "promote" /\ UNCHANGED result
     \/ backup' \in {backup, IF rules # "none" THEN "none" ELSE backup} /\ NotSaved /\ UNCHANGED rules
  /\ UNCHANGED <<book, bin, tmp, sections, entries, building, plain, status, loaded, cut, behind>>

PromoteRules ==
  /\ pc = "promote"
  /\ \/ /\ rules' \in IF result = "Complete" THEN {"all"} ELSE PartRules
        /\ pc' = "dropBackup" /\ UNCHANGED <<backup, result>>
     \/ rules' = backup /\ backup' = "none" /\ NotSaved  \* put back, if there is one
     \/ UNCHANGED <<rules, backup>> /\ NotSaved
  /\ UNCHANGED <<book, bin, tmp, sections, entries, building, plain, status, loaded, cut, behind>>

DropBackup ==
  /\ pc = "dropBackup"
  /\ backup' \in {"none", backup}
  /\ Go("parsed")
  /\ UNCHANGED <<book, bin, tmp, rules, sections, cut, behind>>

-----------------------------------------------------------------------------
(* The chapters laid out with the rules.                                   *)

CacheChanged_OnlyComplete == result = "Complete"

\* cssCacheChanged, and its counterpart after a build.
CacheChanged ==
  IF building THEN result # "Error"
  ELSE result = "Complete" \/ (result = "Partial" /\ status # "Partial")

\* Chapters of other rules than those on the card.
Differ(chapters, r) == Usable(r) /\ ~(chapters \subseteq {r})
Apart == Differ(sections, rules)

\* After a rebuild of the rules book.bin is loaded again, before the chapters
\* are removed; after a build of book.bin, when they have been.
Parsed ==
  /\ pc = "parsed"
  /\ CASE building -> Go(IF CacheChanged THEN "remove" ELSE "reload") /\ UNCHANGED behind
       [] ~building ->
            \/ /\ TRUE \in Loads(bin)
               /\ IF CacheChanged THEN Go("remove") ELSE Enter(bin)
               /\ UNCHANGED behind
            \/ Leave /\ behind' = (behind \/ Apart)
  /\ UNCHANGED <<book, card, cut>>

\* removeDir(): chapter by chapter, as far as the card lets it.
RemoveSections ==
  /\ pc = "remove"
  /\ sections' \in SUBSET sections
  /\ behind' = ((behind /\ sections' # {}) \/ Differ(sections', rules))
  /\ IF building THEN Go("reload") ELSE Enter(bin)
  /\ UNCHANGED <<book, bin, tmp, rules, backup, cut>>

Reload ==
  /\ pc = "reload"
  /\ (TRUE \in Loads(bin) /\ Enter(bin)) \/ Leave
  /\ UNCHANGED <<book, card, cut, behind>>

\* Section::startBuild() with the book's styles, which may be switched on in an
\* open book; short of memory it is put off.  Rules it cannot load it does
\* without.
LayOut ==
  /\ pc = "open"
  /\ \E r \in Restored :
       /\ rules' = (IF Usable(r.rules) THEN r.rules ELSE "none")
       /\ backup' = r.backup
       /\ behind' = (behind \/ (~Usable(rules') /\ Usable(backup')))
  /\ sections' = sections \cup {rules'}
  /\ UNCHANGED <<book, bin, tmp, work, pc, loaded, cut>>

Close ==
  /\ pc = "open"
  /\ Leave
  /\ UNCHANGED <<book, card, cut, behind>>

\* The reader's menu: clearCache().
ClearBook ==
  /\ pc = "open"
  /\ bin' = NoFile /\ tmp' = "none" /\ rules' = "none" /\ backup' = "none"
  /\ sections' = {} /\ cut' = FALSE /\ behind' = FALSE
  /\ Leave
  /\ UNCHANGED book

-----------------------------------------------------------------------------
(* The power fails: a file that was being written keeps any part.          *)

Crash ==
  /\ pc # "closed"
  /\ Leave
  /\ tmp' \in IF pc \in {"opf", "toc"} THEN {tmp, "cut"} ELSE {tmp}
  /\ bin' \in CASE pc = "bin"  -> {bin, Empty}
              [] pc = "fill" -> {Empty, Cut}
              [] OTHER       -> {bin}
  /\ cut' = (cut \/ bin' # bin)
  /\ rules' \in IF pc = "delete" THEN {rules, "none"} ELSE {rules}
  /\ sections' \in IF pc = "remove" THEN SUBSET sections ELSE {sections}
  /\ behind' = (behind \/ (pc \in {"dropBackup", "parsed", "remove"} /\ Apart'))
  /\ UNCHANGED <<book, backup>>

Next ==
  \/ Open \/ OpfPass \/ TocPass \/ BeginBin \/ FillBin \/ CleanTmp
  \/ Inspect \/ DeleteCache \/ Parse \/ BackupRules \/ PromoteRules \/ DropBackup
  \/ Parsed \/ RemoveSections \/ Reload
  \/ LayOut \/ Close \/ ClearBook \/ Crash

Spec == Init /\ [][Next]_vars

-----------------------------------------------------------------------------
(* Properties.                                                             *)

\* Entry j (from 0) stands for item i: it is the first to name the last item
\* up to i that any entry names.
StandsFor(j, i, toc) ==
  LET named == {k \in 0..i : \E n \in DOMAIN toc : toc[n] = k}
  IN  IF named = {} THEN j = -1
      ELSE /\ j + 1 \in DOMAIN toc
           /\ toc[j + 1] \in named /\ \A k \in named : k <= toc[j + 1]
           /\ \A n \in 1..j : toc[n] # toc[j + 1]

\* A book that opens opens with a whole book.bin, in which every spine item
\* has its entry of the table of contents; unless the build of that file was
\* cut, was given up after the file was emptied, or lost writes unseen.
LoadedIsWhole ==
  loaded.kind # "none" /\ ~cut =>
    loaded.kind = "whole" /\ \A i \in Items : StandsFor(loaded.index[i], i, loaded.toc)

\* In an open book the chapters on the card were laid out with the rules on
\* the card, if there are any, unless a fault kept the old chapters when the
\* rules changed.
SectionsUseTheRules == pc = "open" /\ ~behind => ~Apart

Kept == Usable(rules) \/ (rules = "none" /\ Usable(backup))

\* Rules the reader can use stay on the card, as they are or as the backup the
\* next look finds, through every replacement, failed rename and power cut.
RulesSurvive == [][Kept /\ pc # "open" => Kept']_vars
=============================================================================
