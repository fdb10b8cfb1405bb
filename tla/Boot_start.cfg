CONSTANTS
  MaxFaults = 4
  MaxSets = 2
SPECIFICATION FairSpec
INVARIANTS TypeOK CoreDirUsable DumpsIfAsked NoDumpsUnasked SystemReadOnly
PROPERTY B2GComesBack
CHECK_DEADLOCK FALSE
