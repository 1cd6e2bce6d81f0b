SPECIFICATION FairSpec
CONSTANTS
  r1 = r1
  r2 = r2
  Requests = {r1, r2}
  Asks <- SamePool
  Static = {"a", "b"}
  Local = "local"
  Node <- MCNode
  ValidURLs = {"a", "b", "local", "c"}
  Rules <- MCRules
  AllowDynamic = TRUE
  Order <- MCOrder
  Strategy = "cycle"
PROPERTY MissMeansTried
