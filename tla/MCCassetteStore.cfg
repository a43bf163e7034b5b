SPECIFICATION FairSpec

CONSTANTS
  Recorders = {r1, r2}
  Panel = panel
  Stores = {"os", "s3"}
  TrackIds = {t1, t2}
  key1 = key1
  key2 = key2
  Crypters <- MCCrypters
  KindLength <- MCKindLength
  NonceSize <- MCNonceSize
  LongPlay = TRUE
  None = None

INVARIANTS
  TypeOK
  OneSaveAtATime
  FileLoads
  AcknowledgedKept
  EncryptedStaysEncrypted

PROPERTIES
  SavesEnd
