\* Two events of two kinds, one replay, two alerts.
CONSTANTS
  Kinds <- MCKinds
  Half = 2
  MaxQuery = 1
  MaxEvents = 2
  MaxReplays = 1
  MaxAlerts = 2
SPECIFICATION Spec
INVARIANTS TypeOK CursorOnRow CursorVisible TitleIsTrue
PROPERTIES InspectorStays ExportIsList AlertLifetime
