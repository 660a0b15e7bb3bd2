SPECIFICATION FairSpec
CONSTANTS
  None = None
  p1 = p1
  p2 = p2
  x = x
  y = y
  p3 = p3
  p4 = p4
  Peers = {p1, p2, p3, p4}
  Plans = {{p1}, {p2, p3}, {p4}}
  Managed = {p1, p2, p4}
  Actors <- MCActors
  Offers <- MCOffers
  V4 = {x}
  V6 = {y}
  Announces <- MCAnnounces
  How <- MCHow
  Limit <- MCLimit
  IdleHolds = {p2}
  WeNotify = TRUE
  Deferring = {TRUE, FALSE}
INVARIANTS TypeOK  StaleListed DeadlineOnlyWhileDown OneDump
PROPERTIES  RestartCompletes
CHECK_DEADLOCK FALSE
