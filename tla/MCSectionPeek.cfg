CONSTANTS
  s1 = s1
  s2 = s2
  NoSpec = NoSpec
  Specs <- MCSpecs
  Pages <- MCPages
  WantedPages <- MCWantedPages
  Faults <- NoFaults
  LayoutChanges = FALSE
SPECIFICATION PeekingSpec
INVARIANT ReadsItsLayout
