CONSTANTS
  s1 = s1
  s2 = s2
  NoSpec = NoSpec
  Specs <- MCSpecs
  Pages <- MCPages
  WantedPages <- MCWantedPages
  Faults <- AllButTables
  LayoutChanges = FALSE
SPECIFICATION FairSpec
INVARIANTS TypeOK ReadsItsLayout AvailablePagesLoad CommittedIsComplete
PROPERTIES PartialOnlyGrows ImplementsChapterPages WantServed
