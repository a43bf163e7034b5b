SPECIFICATION Spec

CONSTANTS
  Functions = {f, g}
  requestMatchers = requestMatchers
  trackRecordingMutators = trackRecordingMutators
  trackReplayingMutators = trackReplayingMutators
  StrictMatcher = StrictMatcher
  Unset = Unset
  SpareRoom <- SomeRoom
  MaxLength = 3
  MaxArrays = 3

SYMMETRY Symmetry

INVARIANTS
  ListsAreAsSet
  WalkIsAsBegun
