\* A replay while the list is filtered or sorted.
CONSTANTS
  Kinds <- MCKinds
  Half = 2
  MaxQuery = 1
  MaxEvents = 2
  MaxReplays = 1
  MaxAlerts = 2
SPECIFICATION Spec
PROPERTIES NavigatesToReplay
