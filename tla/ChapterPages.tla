----------------------------- MODULE ChapterPages -----------------------------
(***************************************************************************)
(* What the section cache promises the reader about one chapter: the pages *)
(* kept on disk, and the pages that may be shown while the chapter is      *)
(* open.  Opening starts from what was kept for the layout, an open        *)
(* chapter only gains pages, it is whole only when the file is, and        *)
(* closing keeps what was shown, or what was kept before.  Resuming a      *)
(* chapter may fail, and then all of it is lost at once.                   *)
(*                                                                         *)
(* SectionCache implements it, and the chapters of EpubReader do.          *)
(***************************************************************************)
EXTENDS Naturals

CONSTANTS
  Layouts,
  Extent       \* Extent[l]: number of pages of the whole chapter under layout l

VARIABLES
  kept,        \* the pages kept on disk: a singleton, or empty
  view         \* the pages of the open chapter: a singleton, or empty

vars == <<kept, view>>

\* Beginnings of the chapter laid out for l.
Beginnings(l) ==
  {v \in [layout : {l}, pages : 0..Extent[l], whole : BOOLEAN] :
     v.whole => v.pages = Extent[l]}

\* Nothing of f is missing from v.
Reaches(v, f) == v.layout = f.layout => v.pages >= f.pages /\ (f.whole => v.whole)

Init == kept = {} /\ view = {}

\* The chapter opens with what was kept for the layout, and perhaps more; pages
\* of another layout are given up.
Open ==
  /\ view = {}
  /\ \E l \in Layouts : \E v \in Beginnings(l) :
       /\ \A f \in kept : Reaches(v, f)
       /\ view' = {v}
       /\ kept' = IF v.whole THEN {v} ELSE {f \in kept : f.layout = l}

\* More pages are laid out; the file of the whole chapter replaces the one kept.
Grow ==
  \E v \in view : \E w \in Beginnings(v.layout) :
    /\ ~v.whole /\ Reaches(w, v)
    /\ view' = {w}
    /\ kept' = IF w.whole THEN {w} ELSE kept

\* An unfinished chapter cannot be resumed: its pages are lost, those kept too,
\* and it passes for an empty one, which nothing fills before it is closed.
Lose ==
  /\ \E v \in view : ~v.whole /\ view' = {[layout |-> v.layout, pages |-> 0, whole |-> TRUE]}
  /\ kept' = {}

\* The pages shown are kept, or those kept before; a failure loses both.
Close ==
  /\ view # {} /\ view' = {}
  /\ \/ kept' \in {kept, {}}
     \/ kept' = view /\ \A v \in view : v.pages > 0

Clear == view = {} /\ kept' = {} /\ UNCHANGED view

Next == Open \/ Grow \/ Lose \/ Close \/ Clear

Spec == Init /\ [][Next]_vars
=============================================================================
