\* A report turned away by the bearer middleware.
SPECIFICATION Spec
CONSTANTS
  alice = alice
  t = t
  g = g
  r = r
  Servers = {s1}
  HttpServers = {s1}
  Users = {alice}
  Agents = {a1}
  Clients = {c1}
  Roles = {r}
  Tokens = {t, g}
  Claims <- MCClaims
  Products <- MCProducts
  Requests <- MCRequests
  None = None
INVARIANTS ReportsAreNeverLost
