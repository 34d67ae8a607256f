SPECIFICATION Spec
CONSTANTS
  MaxTotal = 3
  MaxMessages = 4
  None = None
INVARIANTS TypeOK NoMixedRecord LastRecordCached
