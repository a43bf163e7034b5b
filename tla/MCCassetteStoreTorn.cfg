SPECIFICATION Spec

CONSTANTS
  Recorders = {r1}
  Panel = panel
  Stores = {"os"}
  TrackIds = {t1, t2}
  key1 = key1
  key2 = key2
  Crypters <- Two
  KindLength <- MCKindLength
  NonceSize <- MCNonceSize
  LongPlay = FALSE
  None = None

INVARIANTS
  HeaderNamesCipher
