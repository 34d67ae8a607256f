SPECIFICATION Spec
CONSTANTS
  Servers = {a}
  Players = {p}
  MaxSessions = 2
  MaxStamp = 3
  Packs = {k}
  None = None
  MaxTries = 1
  MaxIncidents = 2
  IncidentKinds = {"db", "crash", "capture", "invalid", "data", "stop", "vanish", "pack", "legacy", "hot", "journal", "snapshot"}
INVARIANTS LockInv WaitInv StampInv FinalInv
PROPERTIES ReleaseIsCurrent ReleaseIsFinal SeenBackpackHold
