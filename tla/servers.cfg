SPECIFICATION Spec
CONSTANTS
  s1 = s1
  s2 = s2
  r1 = r1
  n1 = n1
  c1 = c1
  w1 = w1
  w2 = w2
  MaxAll = 1
  Server = {s1, s2}
  Provisioned = {s2}
  Resource = {r1}
  Serves <- TheServes
  Gateway = {s1}
  Joint = {r1}
  Replica = {n1}
  Call = {c1}
  Worker = {w1, w2}
  WorkerOf <- TheWorkerOf
  Portal = {w2}
  At <- TheAt
  Limit <- TheLimit
PROPERTIES WithdrawalIsAsked RegistryConverges
CHECK_DEADLOCK FALSE
