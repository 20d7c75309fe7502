---------------------------- MODULE MCBookCache ----------------------------
EXTENDS BookCache

\* No document; entries out of spine order, one named twice, a first item
\* without an entry; an entry that names nothing, and an NCX behind a nav
\* document.
MCDocs == {[nav |-> <<>>,        ncx |-> <<>>],
           [nav |-> <<2, 1, 2>>, ncx |-> <<>>],
           [nav |-> <<-1, 0>>,   ncx |-> <<1, 2>>]}
=============================================================================
