\* One stdio server (they share nothing but the file), three logins.
SPECIFICATION Spec
CONSTANTS
  Procs = {s1}
  MaxLogins = 3
  None = None
INVARIANTS TypeOK ActsAsLoggedIn ExceptionsHaveCause
