SPECIFICATION FairSpec
CONSTANTS
  p1 = p1
  p2 = p2
  a = a
  b = b
  n1 = n1
  n2 = n2
  n3 = n3
  n4 = n4
  null = null
  nothing = nothing
  Producers <- TwoProducers
  Values <- TwoJobs
  Nodes <- FourNodes
  Null <- null
  Nothing <- nothing
INVARIANT NoUseAfterDelete
INVARIANT QueueInv
PROPERTY ImplementsFifo
PROPERTY PushedIsTaken
