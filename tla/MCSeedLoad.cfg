SPECIFICATION SeedSpec
CONSTANTS
  c1 = c1  c2 = c2
  Containers = {c1, c2}
  Images <- TheImages
  Books <- TheBooks
  YearHeaders <- TheYears
  Decimals <- Numbers
  TooWide <- LongCells
  Migrating <- MigratingImages
  ShortVats <- TheVats
  MaxCrashes = 3
  NoRow = NoRow
INVARIANTS SeedTypeOK LoadIdempotent ServesLoaded
PROPERTIES EverServes
CHECK_DEADLOCK FALSE
