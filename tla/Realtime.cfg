SPECIFICATION Spec
CONSTANTS
  MaxEvents = 3
  MaxDrops = 2
  Conn = {x1, x2}
  ann = ann
  ben = ben
  cat = cat
  a1 = a1
  b1 = b1
  k1 = k1
  Page = {a1, b1, k1}
  Owner <- Own
  Dm <- Dms
  NoDm = NoDm
  MaxStarts = 2
  Proc = {p1, p2}
  Founder = u0
  User = {u0}
  Message = {x1, x2}
  Tab = {t1}
  HistoryLimit = 1
  Egress = {x1, x2}
  MaxRecordings = 2
  Source = {s1}
  Batches = 1
SYMMETRY Symmetry
INVARIANTS
  TypeOK
  NoSilentGap
  CountsTheConnected
  PresenceAgreesWhenQuiet
  NobodyWaitsAlone
  PagesShowTheThread
  RecordingsAreAccounted
  KnowledgeSettles
CHECK_DEADLOCK FALSE
