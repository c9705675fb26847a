SPECIFICATION Spec
CONSTANTS
  Threads = {t1, t2}
  Maps = {1}
  Data = {d1, d2}
  Ops = {"lookup", "update", "pid"}
  NoThread = NoThread
INVARIANTS AnswersOwnArguments
CHECK_DEADLOCK FALSE
