---------------------------- MODULE MCSectionCache ----------------------------
(***************************************************************************)
(* SectionCache for a chapter of two pages under one render spec and three *)
(* under the other: a partial of one or two pages, its extension, and a    *)
(* section reopened under the other spec.  The reader may want any page,   *)
(* or one past the end (the sentinel of "last page").                      *)
(***************************************************************************)
EXTENDS SectionCache

CONSTANTS s1, s2

MCSpecs == {s1, s2}
MCPages == [s \in MCSpecs |-> IF s = s1 THEN 3 ELSE 2]
MCWantedPages == {0, 1, 2, 7}

NoFaults == {}
AllButTables == {"start", "begin", "parse", "write", "rename"}
=============================================================================
