\* A worker stops between the first claim of a wake and the recording of its key.
SPECIFICATION Spec
CONSTANTS
  b1 = b1  s1 = s1  s2 = s2  w1 = w1  w2 = w2  r1 = r1
  Binding = {b1}  Legacy = {}  Sub = {s1}  BindingOf <- OneChat
  Worker = {w1}  Run = {}
  Cap = 1  MaxAttempts = 2
  MaxGen = 1  MaxMessage = 1  MaxClaim = 2  MaxKey = 1  MaxTrouble = 0
INVARIANTS TicketCarried
CHECK_DEADLOCK FALSE
