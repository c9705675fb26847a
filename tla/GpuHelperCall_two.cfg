SPECIFICATION FairSpec
CONSTANTS
  Threads = {t1, t2}
  Maps = {1, 2}
  Data = {d1}
  Ops = {"lookup", "update", "delete", "printk", "pid", "puts"}
  NoThread = NoThread
INVARIANTS TypeOK AnswersOwnRequest NoStaleSignal
PROPERTIES RequestStable HelperReturns
CHECK_DEADLOCK FALSE
