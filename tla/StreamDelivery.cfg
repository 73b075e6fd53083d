\* One message to the actor and one of its own, two calls in flight.
SPECIFICATION FairSpec
CONSTANTS
  c1 = c1  c2 = c2  m1 = m1  s1 = s1
  Incoming = {m1}  Sent = {s1}  Call = {c1, c2}  Reader = {c2}
  MaxReclaims = 1  MaxMessage = 1
INVARIANTS TypeOK ReceivedIsProven NewsIsTrue
PROPERTIES NewsInOrder EveryMessageArrives EveryOutcomeIsTold
CHECK_DEADLOCK FALSE
