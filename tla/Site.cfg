SPECIFICATION SiteSpec
CONSTANTS
  Editors = {c1, c2}
  MaxItems = 3
  MaxWrites = 3
  Limit = 2
  Clients = {c1, c2}
  Documents = {d1, d2}
  Categories = {k1, k2}
  Files = {d1, d2}
  Batches = {b1, b2}
  Visitors = {v1}
  MaxFaults = 2
  MaxDeaths = 1
SYMMETRY Interchangeable
INVARIANTS ContentTypeOK UpdatesMerge QuietWalkShowsAll AdditionsHideNothing TypeOK OrphansComeOfOverlap FileTypeOK AnsweredFilesServe GhostsAreDoubleFaults OrphansAreUnsurePuts RefusalsHaveCauses
PROPERTIES DeletedItemIsFinal DeletedIsFinal
CHECK_DEADLOCK FALSE
