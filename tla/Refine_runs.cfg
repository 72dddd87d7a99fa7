SPECIFICATION FairSpec
CONSTANTS
  First = First
  Second = Second
  Third = Third
  RunIds <- Ids
  OwnerOf <- Owners
  Requests <- Asked
  Sentences = {1, 2, 3}
  NoSentence = 0
  Choices = 2
  Workers = 1
  MaxFaults = 1
CHECK_DEADLOCK FALSE
INVARIANTS
  TypeOK
  OneRunPerOwner
  CoreNeverRefuses
  ActivityAgrees
  TriesAreRecorded
  GrowsFromLastKept
  HeldTakesNoSentence
  NoSentenceTwice
  RequestsAreBounded
PROPERTIES
  RunEnds
