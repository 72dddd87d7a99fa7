SPECIFICATION Spec
CONSTANTS
  None = None
  Open = Open
  whole = whole
  other = other
  residual = residual
  holed = holed
  refused = refused
  Ddl = {whole}
  Canonical = {whole}
  Holed = {}
  Drawable = {whole}
  Residual = {}
  Refused = {}
  Configs <- StagesConfigs
  RetryPolicies <- MCShort
  Spent = {0}
  Routes = {"stages"}
  Commands = {}
  MaxCommands = 0
  MaxOrdinal = 20
  MaxRevision = 2
INVARIANTS
  ProgressReadable
CHECK_DEADLOCK FALSE
