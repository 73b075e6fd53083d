\* Progress on two machines: crashes, pid reuse, releases that are lost.  A
\* process may stall: its barrier is taken from it when it lapses, and its late
\* steps must do no harm.
SPECIFICATION FairSpec
CONSTANTS
  p1 = p1  p2 = p2  c1 = c1  c2 = c2  c3 = c3  n1 = n1  n2 = n2
  k1 = k1  k2 = k2  m1 = m1  m2 = m2
  NoCall = NoCall  Elsewhere = Elsewhere
  Proc = {p1, p2}  Call = {c1, c2}  Native = {}  Key = {k1}  Machine = {m1, m2}
  ProcOf <- Two  MachineOf <- TwoMachines
  NativeMachine <- NativeOnM1  KeyOf <- SharedKey
  Attested = {}  Opaque = {}  Recycled = {p2}  Stalls = {p1}
  Seam = {"gate", "write"}
  LongAsk = FALSE  LostDeletes = TRUE
PROPERTIES BarrierNotTakenFrom SwitchesEnd BarrierReopens OrphanLeaseClears
CHECK_DEADLOCK FALSE
