SPECIFICATION Spec
CONSTANTS
  Ticket = {1, 2, 3, 4}
  Client = {"c1"}
  Stride = 3
  MaxRank = 14
  MaxVersion = 9
INVARIANTS TypeOK RanksDistinct VersionNamesOrder
PROPERTY ImplementsOrder
