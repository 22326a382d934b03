CONSTANTS
  t1 = t1
  t2 = t2
  o1 = o1
  o2 = o2
  d = d
  Threads = {t1, t2}
  Rows = {o1, o2, d}
  Routes <- SomeRoutes
  Dialects = {"sqlite", "postgres"}
  MaxRequests = 3
  MaxFailures = 2
SPECIFICATION LiveSpec
INVARIANTS TypeOK AckedIsDurable
PROPERTY Serves
