CONSTANTS
  MaxBlock = 3
  MaxInner = 2
SPECIFICATION FairSpec
PROPERTY Resumed
