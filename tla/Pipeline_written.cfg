SPECIFICATION Spec
CONSTANTS
  None = None
  Open = Open
  whole = whole
  other = other
  residual = residual
  holed = holed
  refused = refused
  Ddl = {whole, residual, holed}
  Canonical = {whole}
  Holed = {residual, holed}
  Drawable = {whole, residual}
  Residual = {residual}
  Refused = {}
  Configs <- WrittenConfigs
  RetryPolicies <- MCPatient
  Spent = {0, 1}
  Routes = {"read_and_draw", "image"}
  Commands = {"commit_user_ddl", "generate_from_description"}
  MaxCommands = 2
  MaxOrdinal = 60
  MaxRevision = 4
INVARIANTS
  DescriptionMayWrite
  StandsAsCommitted
PROPERTIES
  NeverStartsOver
  AsksAgainOnce
CHECK_DEADLOCK FALSE
