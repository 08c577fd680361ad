CONSTANTS
  j1 = j1  j2 = j2  w1 = w1  w2 = w2
  Job = {j1, j2}
  Worker = {w1, w2}
  None = None
  MaxSends = 2
  MaxTicks = 1
SPECIFICATION Spec
SYMMETRY Symmetry
INVARIANTS TypeOK WellPlaced MailKept CallbacksOwed NoLostWakeup
PROPERTIES KeepsContract
