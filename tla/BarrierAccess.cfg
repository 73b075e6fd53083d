\* Tool calls, workers that outlive them, governed writes, a native tool and a
\* switch together.  One process has no readable start time; the other may
\* stall, die and have its pid reused, and a release may be lost.
SPECIFICATION Spec
CONSTANTS
  p1 = p1  p2 = p2  c1 = c1  c2 = c2  c3 = c3  n1 = n1  n2 = n2
  k1 = k1  k2 = k2  m1 = m1  m2 = m2
  NoCall = NoCall  Elsewhere = Elsewhere
  Proc = {p1, p2}  Call = {c1, c2}  Native = {n1}  Key = {k1}  Machine = {m1}
  ProcOf <- Two  MachineOf <- OneMachine
  NativeMachine <- NativeOnM1  KeyOf <- SharedKey
  Attested = {n1}  Opaque = {p2}  Recycled = {p1}  Stalls = {p1}
  Seam = {"tool", "worker", "write"}
  LongAsk = FALSE  LostDeletes = TRUE
INVARIANTS TypeOK SwitchExcludesMutations OneSwitch ReceiptIsTrue SwitchExcludesNative
PROPERTIES NoLostWork ImplementsTreeAccess
CHECK_DEADLOCK FALSE
