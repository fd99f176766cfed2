SPECIFICATION Spec
CONSTANTS
  s1 = s1
  s2 = s2
  Sandboxes = {s1}
  LeaseTTL = 2
  TokenTTL = 2
  ReconcileEvery = 1
  WaitPodReadyTimeout = 1
  PodProvisionGrace = 5
  Skew = 0
  Latency = 1
  RefillTime = 1
PROPERTIES
  LeaseHonoured
