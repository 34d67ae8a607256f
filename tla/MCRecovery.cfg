SPECIFICATION FairSpec
CONSTANTS
  Servers = {a}
  Players = {p}
  MaxSessions = 2
  MaxStamp = 1
  Packs = {}
  None = None
  MaxTries = 1
  MaxIncidents = 2
  IncidentKinds = {"db", "crash", "vanish", "data"}
INVARIANTS LoginAnswered
PROPERTIES InactiveLockReleased JoinResolves
