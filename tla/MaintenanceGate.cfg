CONSTANTS
  Writer = {w1, w2}
  Maintainer = {m1, m2, m3}
  Nobody = Nobody
SPECIFICATION Spec
INVARIANTS
  MaintenanceExcludesWrites
PROPERTIES
  MaintenanceGetsItsTurn
  ImplementsWriteAdmission
