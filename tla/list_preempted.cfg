SPECIFICATION Spec
CONSTANTS
  Node = {n1, n2, n3}
  Nil = Nil
  Thread <- Jt808Only
  Preempt = TRUE
INVARIANT NoNodeLost
CHECK_DEADLOCK FALSE
