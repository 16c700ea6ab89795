SPECIFICATION Spec
CONSTANTS
  p1 = p1
  p2 = p2
  i1 = i1
  i2 = i2
  i3 = i3
  Processes <- MCProcesses
  Items <- MCItems
  ByName <- MCByName
  Subject = Subject
  Modes <- MCModes
  MaxFaults = 2
  Absent = Absent
INVARIANTS
  LocksAreSound
  AcknowledgedIsDurable
PROPERTIES
  NothingOverwritten
