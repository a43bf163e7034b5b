------------------------------ MODULE VCRStats ------------------------------
(***************************************************************************)
(* Cassette.Stats, asked for while goroutines use the VCR.  It reads the   *)
(* cassette in four critical sections of its own, and the tracks it counts *)
(* move on between them.                                                   *)
(*                                                                         *)
(* A definition whose name has an underscore is what a bug could make of   *)
(* the one that follows it; no specification uses it.                      *)
(***************************************************************************)
EXTENDS VCR, Integers, FiniteSets

VARIABLES
  reader,   \* the next read of the goroutine in Stats
  stats,    \* the Stats it fills in
  before    \* history: what was played when it began

statsVars == <<vars, reader, stats, before>>

NoStats == [TotalTracks |-> 0, TracksLoaded |-> 0, TracksRecorded |-> 0,
            TracksPlayed |-> 0]

Replayed(trks) == Cardinality({i \in DOMAIN trks : trks[i].replayed})

StatsInit ==
  /\ Init
  /\ reader = "Idle"
  /\ stats = NoStats
  /\ before = [asked |-> FALSE, tracks |-> 0, replayed |-> 0]

StatsBegin ==
  /\ reader = "Idle"
  /\ reader' = "TotalTracks"
  /\ stats' = NoStats
  /\ before' = [asked |-> TRUE, tracks |-> Len(tracks),
                replayed |-> Replayed(tracks)]
  /\ UNCHANGED vars

Read(field, next, value) ==
  /\ reader = field
  /\ reader' = next
  /\ stats' = [stats EXCEPT ![field] = value]
  /\ UNCHANGED <<vars, before>>

ReadTotalTracks == Read("TotalTracks", "TracksLoaded", Len(tracks))

LoadedCount_Now == Len(tracks)
LoadedCount == tracksLoaded

ReadTracksLoaded == Read("TracksLoaded", "TracksRecorded", LoadedCount)

ReadTracksRecorded ==
  Read("TracksRecorded", "TracksPlayed", Len(tracks) - stats.TracksLoaded)

\* tracksPlayed counts the replayed tracks; the recorded ones are among them.
PlayedOf_All(trks) == Replayed(trks)
PlayedOf(trks) == Replayed(trks) - stats.TracksRecorded

ReadTracksPlayed ==
  Read("TracksPlayed", "Idle", PlayedOf(tracks))

Stats ==
  \/ StatsBegin
  \/ ReadTotalTracks \/ ReadTracksLoaded \/ ReadTracksRecorded
  \/ ReadTracksPlayed

StatsNext == (Serve /\ UNCHANGED <<reader, stats, before>>) \/ Stats

StatsSpec == StatsInit /\ [][StatsNext]_statsVars

\* The numbers of a Stats that has been returned.
Returned == reader = "Idle" /\ before.asked

\* No count is ever negative, whatever is recorded or played while Stats reads:
\* the recorded tracks are counted before the played ones, and count as played.
NeverNegative ==
  \A field \in DOMAIN stats : stats[field] >= 0

\* Stats never hides a track that had been played back when it was called,
\* nor one that had been recorded.
NothingHidden ==
  Returned =>
    /\ stats.TotalTracks >= before.tracks
    /\ stats.TracksRecorded >= before.tracks - tracksLoaded
    /\ stats.TracksPlayed >= before.replayed - (before.tracks - tracksLoaded)

\* If nothing was recorded or played meanwhile, Stats is the truth: all tracks
\* were loaded or recorded, and those played were on the cassette when it was
\* loaded.
ExactWhenQuiet ==
  (Returned /\ before.tracks = Len(tracks)
            /\ before.replayed = Replayed(tracks)) =>
    stats = [TotalTracks    |-> Len(tracks),
             TracksLoaded   |-> tracksLoaded,
             TracksRecorded |-> Len(tracks) - tracksLoaded,
             TracksPlayed   |-> Cardinality({i \in 1..tracksLoaded :
                                               tracks[i].replayed})]
=============================================================================
