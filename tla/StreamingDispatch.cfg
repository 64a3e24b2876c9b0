SPECIFICATION FairSpec
CONSTANTS
  T = 3
  MaxChunks = 2
INVARIANTS BodyFaithful BrokenIsContained
PROPERTIES DispatchEnds
