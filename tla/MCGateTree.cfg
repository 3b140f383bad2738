SPECIFICATION TreeSpec
CONSTANTS
  MaxEvents = 3
  CloseEvents = {2}
  MaxNonces = 2
  EventsCap = 2
  SuggestFrom = 2
  MaxOthers = 1
  TasksCap = 2
INVARIANTS
  TreeTypeOK
PROPERTIES
  ImplementsMailbox
  IdleNeverOrphans
  LostOnlyWithItsRun
  TreeDrains
