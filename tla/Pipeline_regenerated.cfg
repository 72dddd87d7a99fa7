SPECIFICATION Spec
CONSTANTS
  None = None
  Open = Open
  whole = whole
  other = other
  residual = residual
  holed = holed
  refused = refused
  Ddl = {whole, other}
  Canonical = {whole, other}
  Holed = {}
  Drawable = {whole, other}
  Residual = {}
  Refused = {}
  Configs <- RegenerateConfigs
  RetryPolicies <- MCShort
  Spent = {0}
  Routes = {"stages"}
  Commands = {"generate_from_description"}
  MaxCommands = 1
  MaxOrdinal = 40
  MaxRevision = 4
INVARIANTS
  BasisNamesItsDdl
CHECK_DEADLOCK FALSE
