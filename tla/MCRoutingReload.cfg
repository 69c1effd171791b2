SPECIFICATION FairSpecReload
CONSTANTS
  Names <- OneName
  Apexes <- OneApex
  Upstreams = {u1}
  Editors = {e1}
  Appliers = {}
  Queries = {q1, q2}
  Default = Default
  None = None
  Authoritative = Authoritative
  Servfail = Servfail
  MaxWrites = 2
  MaxForwarders = 1
  e1 = e1
  e2 = e2
  a1 = a1
  a2 = a2
  q1 = q1
  q2 = q2
  u1 = u1
INVARIANTS
  TypeOK
  CacheHoldsLiveRoutes
  AnswerRouteWasInForce
PROPERTIES
  EveryQueryAnswered
