CONSTANTS
  MaxId = 5
  MaxUserRecords = 2
  MaxDeviceRecords = 3
  MaxChanges = 2
SPECIFICATION Spec
INVARIANT TypeOK
INVARIANT Complete
INVARIANT FindsFirst
INVARIANT FewQueries
PROPERTY Ascending
CHECK_DEADLOCK FALSE
