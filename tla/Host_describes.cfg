SPECIFICATION Spec
CONSTANTS
  None = None
  a = a
  b = b
  writtenA = writtenA
  writtenB = writtenB
  o1 = o1
  r1 = r1
  Descriptions = {a, b}
  Documents = {writtenA, writtenB}
  Written <- MCWritten
  DescriptionReasons = {"description_ddl"}
  Objects = {o1}
  Requests = {r1}
  Commands = {"generate"}
  Contended = FALSE
  MaxEffectSteps = 8
  MaxCommands = 1
  MaxCrashes = 0
  MaxSequence = 3
  MaxRevision = 3
INVARIANTS
  SavedDescriptionIsRead
