SPECIFICATION CoverageSpec
CONSTANTS
  Images <- MCImages
  Listings <- MCListings
  Slots = 2
  Block = 4
  MaxAddress = 12
  MaxStream = 3
  MaxAsked = 1
INVARIANTS
  CachesHonest
  RunsExact
  RowsMatchImage
