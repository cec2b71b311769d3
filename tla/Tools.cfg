SPECIFICATION MCSpec
CONSTANTS
  Key = {k1, k2, k3, kBig}
  Value = {v1, vBig}
  OversizeKey = {kBig}
  OversizeValue = {vBig}
  Event = {e1}
  Tombstone = Tombstone
  NoEntry = NoEntry
  MaxOverlayEntries = 2
  MaxEvents = 1
  MaxBatch = 2
  MaxUndo = 3
  MaxOpen = 2
  MaxObjects = 1
INVARIANTS TypeOK NeverPanics OverlayBounded StateFitsPosition ClockAgrees MetricsAgree
PROPERTIES RestoresExactly RunsStopWhereTold
