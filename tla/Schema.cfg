SPECIFICATION FairSpec
CONSTANTS
  Servers = {a, b}
  NCols = 4
  FlagCol = 2
  TokenCol = 3
  MaxIncidents = 2
  None = None
INVARIANTS TypeOK ReadyComplete FlagKept NotAllRefused SchemaInv
PROPERTIES AllReady
