CONSTANTS
  Chapters = 2
  Length = 3
  PageSizes = {1, 2}
  Marks <- MCMarks
  TextStart = 0
  StartMargin = 1
  WindowAhead = 2
  MaxNotes = 1
  Lossy = {}
CONSTRAINT FewFailures
SPECIFICATION Spec
INVARIANTS
  TypeOK
  SavedIsShown
  DrawnPageExists
PROPERTIES ShowsTheGoal ImplementsChapterPages
