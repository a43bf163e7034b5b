SPECIFICATION FixedSpec

CONSTANTS
  Callers = {g1, g2}
  Requests = {a, b}
  Wanted = a
  Other = b
  None = None
  Unreadable = Unreadable
  NoMutators = NoMutators
  Transfer = Transfer
  Cassettes <- OneAnswer
  Matchers <- Default
  RecordingMutators <- NoMutation
  ReplayingMutators <- NoMutation
  Recording <- MCRecording
  Replaying <- MCReplaying
  MaxTracks = 3

PROPERTIES
  NeverReused

CHECK_DEADLOCK FALSE
