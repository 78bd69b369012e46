\* Two processes, one of each transport, sharing the tables.
SPECIFICATION Spec
CONSTANTS
  alice = alice
  t = t
  g = g
  r = r
  Servers = {s1, s2}
  HttpServers = {s1}
  Users = {alice}
  Agents = {a1}
  Clients = {c1}
  Roles = {r}
  Tokens = {t, g}
  Claims <- MCClaims
  Products <- MCProducts
  Requests <- MCReadsAndReports
  None = None
INVARIANTS CachedKeysMatchHashes KeyIsForThisCall ReadableIsEntitled
