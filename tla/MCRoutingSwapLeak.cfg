SPECIFICATION Spec
CONSTANTS
  Names <- OneName
  Apexes <- OneApex
  Upstreams = {u1}
  Editors = {e1}
  Appliers = {a1}
  Queries = {q1}
  Default = Default
  None = None
  Authoritative = Authoritative
  Servfail = Servfail
  MaxWrites = 1
  MaxForwarders = 2
  e1 = e1
  e2 = e2
  a1 = a1
  a2 = a2
  q1 = q1
  q2 = q2
  u1 = u1
INVARIANTS
  CacheHoldsLiveRoutes
