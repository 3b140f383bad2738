SPECIFICATION FairSpec
CHECK_DEADLOCK FALSE
CONSTANTS
  Desks = {d1, d2}
  Cooldown = 2
  MaxApps = 3
  MaxRequests = 4
  MaxFaults = 1
INVARIANTS
  TypeOK
  LastWordIsTrue
PROPERTY
  CooldownEnds
