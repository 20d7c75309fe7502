\* A book whose text reference is its second chapter.
CONSTANTS
  Chapters = 2
  Length = 3
  PageSizes = {1, 2}
  Marks <- MCMarks
  TextStart = 1
  StartMargin = 1
  WindowAhead = 2
  MaxNotes = 1
  Lossy = {}
SPECIFICATION Spec
PROPERTY ShowsTheGoal
