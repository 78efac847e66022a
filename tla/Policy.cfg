\* Up to three capabilities, two packs the organization may come to require.
SPECIFICATION Spec
CONSTANTS
  MaxCapabilities = 3
  PackOverlays = {"networked", "high-risk"}
INVARIANTS
  BaselineOnlyExplains
  DiffIsExplained
PROPERTIES
  BarNeverFalls
CHECK_DEADLOCK FALSE
