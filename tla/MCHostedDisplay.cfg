CONSTANTS
  Windows = {w1, w2}
  NoWindow = NoWindow
  MaxPages = 3
  MayFail = {"text", "bitmap", "image"}
SYMMETRY MCSymmetry
SPECIFICATION Spec
INVARIANTS
  WritesLiveSurface
  IdleShowsThePage
  GraysMatchTheirBase
  IdleFrameIsThePage
