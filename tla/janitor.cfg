SPECIFICATION Spec
CONSTANTS
  s1 = s1
  s2 = s2
  Sandboxes = {s1, s2}
  LeaseTTL = 2
  TokenTTL = 2
  ReconcileEvery = 1
  WaitPodReadyTimeout = 1
  PodProvisionGrace = 7
  Skew = 1
  Latency = 1
  RefillTime = 3
INVARIANTS
  TypeOK
  ReapsOnlyOrphans
  ExpiryNotLate

  
