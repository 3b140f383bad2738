SPECIFICATION Spec
CONSTANTS
  MaxEvents = 4
  CloseEvents = {2, 4}
  MaxNonces = 3
  EventsCap = 3
  SuggestFrom = 2
INVARIANTS
  NoEventForgotten
  NoReGateForgotten
