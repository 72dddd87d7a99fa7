SPECIFICATION FairSpec
CONSTANTS
  None = None
  Open = Open
  whole = whole
  other = other
  residual = residual
  holed = holed
  refused = refused
  Ddl = {whole, other, residual, holed, refused}
  Canonical = {whole, other}
  Holed = {residual, holed}
  Drawable = {whole, other, residual}
  Residual = {residual}
  Refused = {refused}
  Configs <- DocumentConfigs
  RetryPolicies <- MCFallbacks
  Spent = {0, 2, 3}
  Routes = {"stages", "direct_ddl", "saved_laws", "read_and_draw", "image"}
  Commands = {"commit_user_ddl", "complete_holes"}
  MaxCommands = 2
  MaxOrdinal = 40
  MaxRevision = 2
INVARIANTS
  TypeOK
  LiveSnapshotValid
  AttemptHasTime
  BasisNamesItsDdl
  LawsCommitIsPrinted
PROPERTIES
  ComesToRest
  FreshIdentity
  KeptIsNeverLost
  ImplementsVariation
  ImplementsHostView
CHECK_DEADLOCK FALSE
