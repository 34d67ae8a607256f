SPECIFICATION FairSpec
CONSTANTS
  Servers = {a, b}
  Players = {p}
  MaxSessions = 1
  MaxStamp = 1
  Packs = {}
  None = None
  MaxTries = 1
  MaxIncidents = 0
  IncidentKinds = {}
PROPERTIES JoinResolves
