SPECIFICATION Spec
CONSTANTS
  Vocabularies <- MCVocabularies
  PRECISION = 3
  WIDTH = 6
INVARIANTS TreeShape SourceKept FileKeepsTree CutLosesRightEnd TranspiledParsesBack
PROPERTIES Terminates
