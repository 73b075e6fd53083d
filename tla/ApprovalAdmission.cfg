\* Two calls at a time about one request, and the seat passing between three
\* actors, one or two of whom ask.
SPECIFICATION Spec
CONSTANTS
  a1 = a1  a2 = a2  a3 = a3  c1 = c1  c2 = c2
  Actor = {a1, a2, a3}  Call = {c1, c2}
  MaxApproval = 1  MaxMessage = 2  MaxRow = 2
INVARIANTS TypeOK AdmittedIsRuled
PROPERTIES ImplementsAdmission
SYMMETRY Interchangeable
CHECK_DEADLOCK FALSE
