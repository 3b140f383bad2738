CONSTANTS
  r1 = r1
  r2 = r2
  e1 = e1
  e2 = e2
  g1 = g1
  g2 = g2
  h1 = h1
  ep1 = ep1
  ep2 = ep2
  Requests = {r1, r2}
  PrEvents = {e1}
  MergeGroups = {g1, g2}
  Heads = {h1}
  HeadOf <- SameHead
  Endpoints = {ep1, ep2}
  Backoffs = 1
  MaxSends = 2
  MaxFaults = 1
SPECIFICATION Spec
INVARIANTS
  DeliveriesTypeOK
  AckedIsTaken
  AnnouncedWhole
PROPERTIES
  EachEventIsHandled
CHECK_DEADLOCK FALSE
