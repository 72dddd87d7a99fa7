SPECIFICATION Spec
CONSTANTS
  None = None
  a = a
  b = b
  writtenA = writtenA
  writtenB = writtenB
  o1 = o1
  o2 = o2
  r1 = r1
  r2 = r2
  Descriptions = {a, b}
  Documents = {writtenA, writtenB}
  Written <- MCWritten
  DescriptionReasons = {"stage1_generated"}
  Objects = {o1, o2}
  Requests = {r1, r2}
  Commands = {"generate", "edit", "complete", "cancel"}
  Contended = TRUE
  MaxEffectSteps = 2
  MaxCommands = 2
  MaxCrashes = 2
  MaxSequence = 0
  MaxRevision = 3
SYMMETRY Symmetric
INVARIANTS
  SettledAgrees
  CommitIsAdmitted
  TypeOK
  SavedDescriptionIsRead
PROPERTIES
  OneMachine
