CONSTANTS
  MaxBlock = 3
  MaxInner = 2
SPECIFICATION FairSpec
INVARIANTS TypeOK Demanded ParentTracked OneWaiter
PROPERTY AncestorsFetched
