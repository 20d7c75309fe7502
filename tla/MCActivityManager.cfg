CONSTANTS
  app1 = app1
  app2 = app2
  home1 = home1
  home2 = home2
  boot1 = boot1
  sleep1 = sleep1
  panel1 = panel1
  drive1 = drive1
  NoActivity = NoActivity
  Kind <- MCKind
  Activities = {app1, app2, home1, home2, boot1, sleep1, panel1, drive1}
  MaxDepth = 2
  MaxCalls = 2
  UnlockedWrites = TRUE
  RecoveryBoot = TRUE
SYMMETRY MCSymmetry
SPECIFICATION Spec
INVARIANTS
  TypeOK
  DrawsOnlyTheCurrent
  PendingIsComplete
  NoStrayWake
  WaiterIsRemembered
  IdleDisplayIsCurrent
  SleepScreenStays
PROPERTY ImplementsScreenStack
