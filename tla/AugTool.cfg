SPECIFICATION Spec
CONSTANTS
  Threads = {t1, t2}
  Ifaces = {"eth0", "eth1"}
  Requests <- MCRequests
  Start <- MCStart
  MaxRequests = 2
  MaxFaults = 1
INVARIANTS
  AloneAsAsked
  ReadersSeeTheStart
  AnswersAreOwn
  NothingLeftUnsaved
PROPERTY EveryRequestEnds
CHECK_DEADLOCK FALSE
