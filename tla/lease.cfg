CONSTANTS
  i1 = i1
  i2 = i2
  i3 = i3
  Instances <- MCInstances
  Owners <- MCInstances
  OwnerOf <- MCOwnerOf
  NoOwner = NoOwner
  TicksPerSecond = 3
  Ttl = 4
  MaxRun = 8
  Releases = TRUE
SPECIFICATION FairSpec
INVARIANT ExclusiveForTtl
PROPERTIES StaleReleaseKeepsHolder JobRunsAgain
