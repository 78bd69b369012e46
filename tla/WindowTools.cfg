\* One process serving every tool while the registry changes under it.
SPECIFICATION WindowSpec
CONSTANTS
  alice = alice
  t = t
  g = g
  h = h
  r = r
  q = q
  Servers = {s1}
  HttpServers = {s1}
  Users = {alice}
  Agents = {a1}
  Clients = {c1}
  Roles = {r, q}
  Tokens = {t, g, h}
  Claims <- MCClaims
  Products <- MCProducts
  Requests <- MCRequests
  None = None
INVARIANTS TypeOK AnswersAreAudited GrantsWereOffered RefusalsHadCause
PROPERTIES KeepsContract EveryCallEnds
