\* One agent of each kind, two interpreters, one project directory.
SPECIFICATION Spec
CONSTANTS
  claude = claude
  vscode = vscode
  opencode = opencode
  codex = codex
  chatgpt = chatgpt
  Agents = {claude, vscode, opencode, codex, chatgpt}
  Keys <- MCKeys
  Wide = {claude, opencode, codex, chatgpt}
  GlobalOnly = {codex, chatgpt}
  Bridged = {opencode}
  Registering = {claude, vscode, opencode, codex, chatgpt}
  Skilled = {claude, codex, chatgpt}
  Interpreters = {py1, py2}
  Other = Other
  Machine = Machine
  Dirs = {d1}
  Batches <- MCBatches
  MaxCommands = 2
  MaxMishaps = 1
INVARIANTS SilenceIsEnforcement
PROPERTIES OthersKept ArmedAfterWiring DoctorIsSatisfied
CHECK_DEADLOCK FALSE
