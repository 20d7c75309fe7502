CONSTANTS
  Books = {b1, b2}
SPECIFICATION Spec
INVARIANTS
  NoBootLoop
  SplashlessOnce
  FreshFrame
PROPERTIES
  ReadingResumes
  SleepIsFinal
