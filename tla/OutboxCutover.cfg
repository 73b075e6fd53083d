\* A write held behind a refusal is released while the outbox is counted.
SPECIFICATION CheckSpec
CONSTANTS
  d1 = d1  t1 = t1
  Intent = {1, 2}  Item = {t1}  ItemOf <- OneItem
  Drainer = {d1}
  LocalOnly = {}  Unmapped = {}  Invalid = {1}
  Ruling = {"discard", "keep"}
  FirstVersion <- Fresh  MaxVersion = 0
  MayAccept = FALSE  StoreFails = FALSE
INVARIANTS ReadyIsTrue
CHECK_DEADLOCK FALSE
