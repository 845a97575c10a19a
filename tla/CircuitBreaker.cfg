\* The numbers of providers.py:78-87 with three jobs calling at once.
SPECIFICATION FairSpec
CONSTANTS
  Threads = {t1, t2, t3}
  Threshold = 5
  Retries = 3
  Cooldown = 3
INVARIANTS TypeOK OpenNeedsTwoCalls
PROPERTIES KeepsTheGate Recloses
