SPECIFICATION FairSpec
CONSTANTS
  row = row
  plain = plain
  bad = bad
  Events = {row, plain, bad}
  Rows = {row}
  Unsendable = {bad}
  MaxFaults = 2
INVARIANTS TypeOK NilMeansStored CopiesShareId PublishesCounted
PROPERTY RowsGetSent
CHECK_DEADLOCK FALSE
