\* Two requests over queues of one record, and every string of up to nine bytes.
SPECIFICATION Spec
CONSTANTS
  Requests = {r1, r2}
  QueueSize = 1
  MaxUserAgent = 5
  MaxBytes = 9
INVARIANTS
  TypeOK
  PanicReported
  ShutdownIsOrderly
  AgentsAreCut
PROPERTY ImplementsPipelines
SYMMETRY Symmetry
CHECK_DEADLOCK FALSE
