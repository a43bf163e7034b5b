SPECIFICATION Spec

CONSTANTS
  Callers = {g1}
  Requests = {a, b}
  Wanted = a
  Other = b
  None = None
  Unreadable = Unreadable
  NoMutators = NoMutators
  Transfer = Transfer
  Cassettes <- OneAnswer
  Matchers <- Default
  RecordingMutators <- NoMutation
  ReplayingMutators <- NoMutation
  Recording <- MCRecording
  Replaying <- MCReplaying
  MaxTracks = 2

PROPERTIES
  RefusalIsJustified

