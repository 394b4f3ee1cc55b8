SPECIFICATION FairSpec
CONSTANTS
  Threads = {t1, t2}
  RunIds = {run1}
  Values = {v1, v2}
  Absent = Absent
  Accepted = Accepted
  MaxRequests = 4
INVARIANTS TypeOK
PROPERTIES ImplementsStore RequestsEnd
