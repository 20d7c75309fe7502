CONSTANTS
  Spine = 3
  Docs <- MCDocs
  PartRules = {"part", "less"}
SPECIFICATION Spec
INVARIANTS
  LoadedIsWhole
  SectionsUseTheRules
PROPERTIES
  RulesSurvive
