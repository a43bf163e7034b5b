SPECIFICATION FairSpec

CONSTANTS
  Callers = {g1, g2}
  Requests = {a}
  Wanted = a
  Other = a
  None = None
  Unreadable = Unreadable
  NoMutators = NoMutators
  Transfer = Transfer
  Cassettes <- OneAnswer
  Matchers <- Default
  RecordingMutators <- NoMutation
  ReplayingMutators <- NoMutation
  Recording <- MCRecording
  Replaying <- MCReplaying
  MaxTracks = 2

INVARIANTS
  TypeOK
  SeekInBounds
  OnlyLoadedTracksReplay
  MissIsJustified
  SettingsRespected

PROPERTIES
  EveryCallReturns
