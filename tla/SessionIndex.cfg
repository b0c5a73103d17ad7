CONSTANTS
  p1 = p1
  p2 = p2
  d1 = d1
  d2 = d2
  i1 = i1
  i2 = i2
  t1 = t1
  t2 = t2
  Proc = {p1, p2}
  Dir = {d1, d2}
  Id = {i1, i2}
  Temp = {t1, t2}
  None = None
  Partial = Partial
  Events = {"drop", "add", "delete", "move", "garble", "crash"}
  MaxEvents = 1
SPECIFICATION Spec
SYMMETRY Symmetry
INVARIANTS TypeOK RecordsWhole FindsAllKept LoneCommandWorks LoneUpdateRecords OneRecordPerDirectory
CHECK_DEADLOCK FALSE
