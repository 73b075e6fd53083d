\* Progress of two writes of one item: the authority rejects the first until it
\* comes to accept it, and stores nothing of the second.
SPECIFICATION FairSpec
CONSTANTS
  d1 = d1  d2 = d2  t1 = t1  t2 = t2
  Intent = {1, 2}  Item = {t1}  ItemOf <- OneItem
  Drainer = {d1}
  LocalOnly = {2}  Unmapped = {}  Invalid = {1}
  Ruling = {"discard", "keep"}
  FirstVersion <- Existing  MaxVersion = 0
  MayAccept = TRUE  StoreFails = FALSE
PROPERTIES Settled
CHECK_DEADLOCK FALSE
