SPECIFICATION FairSpec
CONSTANTS
  None = None
  a = a
  b = b
  writtenA = writtenA
  writtenB = writtenB
  o1 = o1
  r1 = r1
  Descriptions = {a, b}
  Documents = {writtenA, writtenB}
  Written <- MCWritten
  DescriptionReasons = {"stage1_generated"}
  Objects = {o1}
  Requests = {r1}
  Commands = {"cancel", "perform", "decline"}
  Contended = FALSE
  MaxEffectSteps = 8
  MaxCommands = 2
  MaxCrashes = 1
  MaxSequence = 3
  MaxRevision = 3
PROPERTIES
  EffectsArePerformed
