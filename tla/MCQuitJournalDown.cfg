SPECIFICATION Spec
CONSTANTS
  Servers = {a}
  Players = {p}
  MaxSessions = 1
  MaxStamp = 2
  Packs = {}
  None = None
  MaxTries = 0
  MaxIncidents = 1
  IncidentKinds = {"final"}
PROPERTIES ReleaseIsFinal
