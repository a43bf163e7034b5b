SPECIFICATION FixedSpec

CONSTANTS
  Callers = {g1}
  Requests = {a, b}
  Wanted = a
  Other = b
  None = None
  Unreadable = Unreadable
  NoMutators = NoMutators
  Transfer = Transfer
  Cassettes <- OneAnswer
  Matchers <- Default
  RecordingMutators <- NoMutation
  ReplayingMutators <- Transferring
  Recording <- MCRecording
  Replaying <- MCReplaying
  MaxTracks = 3

PROPERTIES
  SavedTracksKept

CHECK_DEADLOCK FALSE
