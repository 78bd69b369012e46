\* Two processes of any kind on the session file.
SPECIFICATION Spec
CONSTANTS
  Procs = {p1, p2}
  MaxLogins = 2
INVARIANTS TypeOK TokensWereCurrent LastLoginStands
PROPERTIES OnlyLoginsMend
