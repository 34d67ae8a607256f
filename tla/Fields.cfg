SPECIFICATION Spec
CONSTANTS
  Servers = {a, b}
  MaxStamp = 3
  MaxIncidents = 3
  None = None
INVARIANTS TypeOK PlaceKept FieldsInv
PROPERTIES FailedFieldKept NoOlderField ReleaseCarriesFields
