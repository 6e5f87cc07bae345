CONSTANTS
  Attachment = {a1, a2}
  Tx = {t1, t2}
  NoTx = NoTx
  NoFile = NoFile
  MaxFiles = 1
  Batch = 1
  Stuck = {a1}
  MaxFaults = 1
  MaxCrashes = 1
SPECIFICATION Spec
INVARIANTS
  RowsHaveObjects
  QuotaHolds
  PrimaryIsLinked
  NothingElseIsForgotten
PROPERTIES
  QueuedObjectsGo
CHECK_DEADLOCK FALSE
