SPECIFICATION Spec
CONSTANTS
  Files <- TwoFiles
  Indices <- ThreeIndices
  FileOf <- TwoHosts
  MaxWritten = 2
CONSTRAINT SoundCopy
INVARIANTS TypeOK PristineSurvives RemoveExact RemovedStayOut FlagsCoverGuards
