\* Two processes drain one item of two writes.  The first write waits for a
\* release, somebody else edits the item, refusals are ruled on for good, and
\* local transactions fail.
SPECIFICATION Spec
CONSTANTS
  d1 = d1  d2 = d2  t1 = t1  t2 = t2
  Intent = {1, 2}  Item = {t1}  ItemOf <- OneItem
  Drainer = {d1, d2}
  LocalOnly = {}  Unmapped = {1}  Invalid = {}
  Ruling = {"discard", "keep"}
  FirstVersion <- Existing  MaxVersion = 2
  MayAccept = FALSE  StoreFails = TRUE
INVARIANTS TypeOK AppliedOnce NothingLost RefusedForGood
PROPERTIES NotOvertaken RefusalKept
SYMMETRY Interchangeable
CHECK_DEADLOCK FALSE
