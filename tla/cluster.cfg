\* Two workers that boot, serve, are signalled and crash at any time.
SPECIFICATION FairSpec
CONSTANTS
  w1 = w1  w2 = w2  w3 = w3
  Worker = {w1, w2}
INVARIANTS TypeOK NoWorkerIsMissed
PROPERTIES DeadIsReplaced PrimaryWithoutWorkersEnds ShutdownEnds
CHECK_DEADLOCK FALSE
