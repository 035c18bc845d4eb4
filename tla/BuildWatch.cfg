SPECIFICATION FairDistSpec
CONSTANTS
  Prompt = {p1}
  Builder = {b1}
  Session = {s1}
  Frozen = {TRUE, FALSE}
  MaxEvents = 2
INVARIANTS
  ManifestCovers
  BundlesAreWhole
PROPERTIES
  DistCatchesUp
CHECK_DEADLOCK FALSE
