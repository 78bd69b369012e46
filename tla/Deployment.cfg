\* Every command, two installations, two authorities.
SPECIFICATION Spec
CONSTANTS
  Clients = {c1, c2}
  Shapes <- MCShapes
  MaxEpoch = 2
  Denied = Denied
  None = None
SYMMETRY InstallationSymmetry
INVARIANTS TypeOK InstallationsServe StoresAgreeOrTold
PROPERTIES ReadsAreWhole
