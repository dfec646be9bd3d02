SPECIFICATION Spec
CONSTANTS
  Precision = 4
  NULL = NULL
  EmptyText = 0
  TrendClaims <- MCTrendClaims
  TopKClaims = {}
  ComparisonClaims = {}
  DistributionClaims = {}
  AggregationClaims = {}
  ValueLookupClaims = {}
  ExistenceClaims = {}
  ReplayClaims = {}
  AnnotationClaims = {}
  SubjectClaims = {}
  Blank <- MCBlank
  Star <- MCStar
  Names <- MCNames
  TableColumns <- MCTableColumns
  CellValues = {0, 3, 4}
  Words = {"a", "A", "b", "four", "five"}
  Fold <- MCFold
  Reading <- MCReading
  NoCell = NoCell
  MaxCompositeWidth = 3
  Numbers <- MCNumbers
  One = 6
  Float <- MCFloat
  None = None
  Infinite = Infinite
CHECK_DEADLOCK FALSE
INVARIANT UnorderedSeriesIsRefuted
