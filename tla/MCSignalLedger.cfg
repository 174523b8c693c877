SPECIFICATION Spec
CONSTANTS
  Targets = {t1}
  Workers = {w1}
  Flows = {f1}
  Prints = {"p1", "p2"}
  SignalType <- MCSignalType
  Results <- MCResults
  Window = 0
  Suppression = 0
  MaxAge = 1
  MaxEvents = 3
  MaxObserved = 1
  MaxTime = 2
INVARIANTS TypeOK NoDangling  BaselineBacked
 
CHECK_DEADLOCK FALSE
