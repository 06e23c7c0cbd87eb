SPECIFICATION Spec
CONSTANTS
  Facet <- FourFacets
  Catalogs <- SmallCatalogs
  Requests <- SmallRequests
  RowCap = 2
INVARIANTS
  SelectionIsExact
\* The call returns: the computation is over.
CHECK_DEADLOCK FALSE
