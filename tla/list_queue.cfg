SPECIFICATION Spec
CONSTANTS
  Node = {n1, n2, n3, n4}
  Nil = Nil
  Thread <- HmiJt808
  Preempt = FALSE
INVARIANTS TypeOK NoNodeLost
PROPERTY IsQueue
CHECK_DEADLOCK FALSE
