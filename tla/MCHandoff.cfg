SPECIFICATION Spec
CONSTANTS
  Servers = {a, b}
  Players = {p}
  MaxSessions = 1
  MaxStamp = 2
  Packs = {}
  None = None
  MaxTries = 1
  MaxIncidents = 1
  IncidentKinds = {"db", "crash", "legacy", "journal", "final", "snapshot", "halt"}
INVARIANTS TypeOK ExclusivePlay RestoreIsCurrent OwnedRowRecoverable CustodyInv
PROPERTIES NoRollback KeepsCustody
SYMMETRY ServerSymmetry
