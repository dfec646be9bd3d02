SPECIFICATION Spec
CONSTANTS
  Precision = 4
  NULL = NULL
  EmptyText = 0
  TrendClaims <- MCTrendClaims
  TopKClaims <- MCTopKClaims
  ComparisonClaims <- MCComparisonClaims
  DistributionClaims <- MCDistributionClaims
  AggregationClaims <- MCAggregationClaims
  ValueLookupClaims <- MCValueLookupClaims
  ExistenceClaims <- MCExistenceClaims
  ReplayClaims <- MCReplayClaims
  AnnotationClaims <- MCAnnotationClaims
  SubjectClaims <- MCSubjectClaims
  Blank <- MCBlank
  Star <- MCStar
  Names <- MCNames
  TableColumns <- MCTableColumns
  CellValues = {0, 3, 4}
  Words = {"a", "A", "b", "four", "five"}
  Fold <- MCFold
  Reading <- MCReading
  NoCell = NoCell
  MaxCompositeWidth = 3
  Numbers <- MCNumbers
  One = 6
  Float <- MCFloat
  None = None
  Infinite = Infinite
CHECK_DEADLOCK FALSE
INVARIANTS
  TrendIsSound
  RankingIsSound
  ComparisonIsSound
  DistributionIsSound
  AggregationIsSound
  LookupIsSound
  ExistenceIsSound
  CitationOrderIsIrrelevant
  NamesBindSharply
  FiltersAreGrounded
  ReplayIsFaithful
