\* Progress of two wakes of one subscription, each tried twice, against a budget
\* of one slot at a time; the binding was made before client ids were recorded.
\* MaxTrouble is what ends the troubles that WakesEnd supposes to end.  MaxClaim
\* is never reached: two wakes of two attempts make four claims, and each trouble
\* at most one more.
SPECIFICATION FairSpec
CONSTANTS
  b1 = b1  s1 = s1  s2 = s2  w1 = w1  w2 = w2  r1 = r1
  Binding = {b1}  Legacy = {b1}  Sub = {s1}  BindingOf <- OneChat
  Worker = {w1}  Run = {}
  Cap = 1  MaxAttempts = 2
  MaxGen = 2  MaxMessage = 2  MaxClaim = 6  MaxKey = 1  MaxTrouble = 1
PROPERTIES WakesEnd
CHECK_DEADLOCK FALSE
