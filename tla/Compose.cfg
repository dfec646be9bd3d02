SPECIFICATION BoxSpec
CONSTANTS
  Bank <- MCBank
  Typed <- MCTyped
  NoId = NoId
  MaxLoads = 2
PROPERTY BenchmarkFits
