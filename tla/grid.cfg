SPECIFICATION Spec
CONSTANTS
  Base <- MainBase
  Grid <- MainGrid
  Sanitized <- AsWritten
  Joined <- SegmentsTell
  MaxSecond = 3
CHECK_DEADLOCK FALSE
INVARIANTS ProductCovered ArtifactsKept MetadataExact
