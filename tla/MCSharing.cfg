SPECIFICATION Spec

CONSTANTS
  Calls = {c1, c2}
  MaxTracks = 3
  Nothing = Nothing

SYMMETRY Symmetry

INVARIANTS
  TypeOK
  LiveIsProtected
  MatchersAreScoped
  LiveEditsStayOut
  EditsStayOnThePlayed
  BodiesAgree
  OnlyPlayedTracksRace
