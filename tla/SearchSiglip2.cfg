SPECIFICATION Spec
CONSTANTS
  Backend = "siglip2"
  Requests = {r1, r2}
  Probes = {p1}
  Generations = {g1, g2, other}
  Foreign = {other}
  None = None
INVARIANTS
  ReadyWasValidated
PROPERTIES
  ImplementsSearchProvider
  RequestsEnd
