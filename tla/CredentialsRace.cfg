\* A hook's refresh overwrites what install stored meanwhile.
SPECIFICATION Spec
CONSTANTS
  claude = claude
  cursor = cursor
  c1 = c1
  c2 = c2
  d1 = d1
  Procs = {p1, p2}
  Agents <- MCAgents
  Creds <- MCCreds
  CredsOf <- MCCredsOf
  None = None
INVARIANTS ReplacedOutright
