SPECIFICATION StatsSpec

CONSTANTS
  Callers = {g1, g2}
  Requests = {a, b}
  Wanted = a
  Other = b
  None = None
  Unreadable = Unreadable
  NoMutators = NoMutators
  Transfer = Transfer
  Cassettes <- TwoTracks
  Matchers <- Default
  RecordingMutators <- NoMutation
  ReplayingMutators <- NoMutation
  Recording <- MCRecording
  Replaying <- MCReplaying
  MaxTracks = 3

SYMMETRY Symmetry

INVARIANTS
  PlaybackInOrder
  RecordedIsStored
  FileIsPrefix
  NeverNegative
  NothingHidden
  ExactWhenQuiet

PROPERTIES
  SharedTape
  SavedTracksKept

