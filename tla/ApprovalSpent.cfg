\* An add is called again while its first call is still under way.
SPECIFICATION Spec
CONSTANTS
  a1 = a1  a2 = a2  a3 = a3  c1 = c1  c2 = c2
  Actor = {a1, a2}  Call = {c1, c2}
  MaxApproval = 1  MaxMessage = 1  MaxRow = 2
INVARIANTS SpentOnce
CHECK_DEADLOCK FALSE
