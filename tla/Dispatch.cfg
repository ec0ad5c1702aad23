SPECIFICATION FairSpec
CONSTANTS
  Names = {"m"}
  Max <- MCMax
  Last = 2
  Arity = 2
  Controls <- MCControls
  Requests <- MCRequests
INVARIANT TypeOK
INVARIANT Balanced
INVARIANT NewestRevision
PROPERTY ImplementsWriting
PROPERTY Answered
