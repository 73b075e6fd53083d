\* Two workers share two wakes of one subscription: three claims, one outage, pause,
\* lost grant or lost reservation, a key rotation, and a budget of one slot at a time.
SPECIFICATION Spec
CONSTANTS
  b1 = b1  s1 = s1  s2 = s2  w1 = w1  w2 = w2  r1 = r1
  Binding = {b1}  Legacy = {}  Sub = {s1}  BindingOf <- OneChat
  Worker = {w1, w2}  Run = {r1}
  Cap = 1  MaxAttempts = 2
  MaxGen = 2  MaxMessage = 2  MaxClaim = 3  MaxKey = 2  MaxTrouble = 1
SYMMETRY Symmetric
INVARIANTS TypeOK WithinBudget BoundedPosts SameBytes TicketHonoured NotOverlooked
PROPERTIES FinalIsFinal
CHECK_DEADLOCK FALSE
