SPECIFICATION Spec

CONSTANTS
  Requests <- MCRequests
  NilMatchers = NilMatchers
  MethodURL = MethodURL
  Texts <- MCTexts
  AsUTF8 <- MCAsUTF8
  Nil = Nil

INVARIANTS
  MatchesExactly
