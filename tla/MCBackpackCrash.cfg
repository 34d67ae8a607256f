SPECIFICATION Spec
CONSTANTS
  Servers = {a}
  Players = {p}
  MaxSessions = 1
  MaxStamp = 2
  Packs = {k}
  None = None
  MaxTries = 0
  MaxIncidents = 2
  IncidentKinds = {"pack", "crash"}
PROPERTIES BackpackHold
