CONSTANTS
  Stays = {s1}
  Blocks = {b1}
  Closures = {}
  LastDay = 2
  Details <- OneKind
  None = None
  Dead = Dead
  Runs = {r1, r2}
  Publishable <- SomeFeeds
  MaxFeeds = 1
  MaxCrashes = 1
SPECIFICATION FairSyncSpec
PROPERTIES FeedsInOrder OnlyOmittedBlocksGo BlocksFollowFeed LinksHeal
