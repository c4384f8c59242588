CONSTANTS
  Digest <- MCDigest
  Payload = {p1, p2}
  Lens <- MCLens
  ContentSize = 2
  TotalPages = 3
  MaxObjects = 2
  Word = 16
  MaxTsc = 6
SPECIFICATION Spec
INVARIANTS
  IndexSorted
  PagesPartitioned
PROPERTY ImplementsObjectStore
