CONSTANTS
  Depth = 2
  Gbk <- MCGbk
  Utf8 <- MCUtf8
  Fields <- MCFields
  Messages <- MCMessages
  AskTags = {0, 1, 2, 3, 16, 17}
SPECIFICATION Spec
INVARIANTS
  TypeOK
  JavaReaderRight
  CppReaderRight
  SkipMovesOn
CHECK_DEADLOCK FALSE
