CONSTANTS
  W = 3
  First = 6
  Sizes <- MCSizes
  PayLen = 1
  MaxLoss = 2
  MaxReorder = 1
  QCap = 6
  Refusable = {"DATA_REQ", "BOP_REQ"}
SPECIFICATION Spec
INVARIANT OneStatePerIndex CleanStreamNoRetx
PROPERTY FmtpSpec RecoveredUnlessSpoiled
CHECK_DEADLOCK FALSE
