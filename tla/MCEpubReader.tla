----------------------------- MODULE MCEpubReader -----------------------------
(***************************************************************************)
(* A book of two chapters of three units, read with one or two units on a  *)
(* page: a chapter has three pages or two, so that a partial file can stop *)
(* short of the end, and page numbers of one layout mislead the other.     *)
(***************************************************************************)
EXTENDS EpubReader

\* The last page of the second chapter, which a partial file may stop short of.
MCMarks == {<<1, 2>>}

\* A bound: openings that fail are followed only outside of notes.
FewFailures == open /\ ~dirty /\ Unopened => notes = <<>>
=============================================================================
