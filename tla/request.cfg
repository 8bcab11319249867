SPECIFICATION FairSpec
CONSTANTS
  MaxRecvIter = 3
  Resets = TRUE
INVARIANTS TypeOK OneAnswer TrackedOnce PollsBounded SilentOnlyWhenHopeless
PROPERTIES ConnectionCloses WholeAnnounceTracked
