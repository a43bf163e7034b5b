SPECIFICATION Spec

CONSTANTS
  Requests <- WithUsers
  NilMatchers = NilMatchers
  MethodURL = MethodURL
  Texts <- MCTexts
  AsUTF8 <- MCAsUTF8
  Nil = Nil

INVARIANTS
  RecordedMatchesAgain
