--------------------------- MODULE VCRStatsProofs ---------------------------
(***************************************************************************)
(* Proofs that Cassette.Stats counts right, for any number of goroutines   *)
(* that record and play while it reads.                                    *)
(*                                                                         *)
(* The argument: lengths and numbers of replayed tracks only go up, so     *)
(* each number that was read lies between what it was when Stats was       *)
(* called and what it is now; and the tracks that are not played only get  *)
(* fewer, which is why the subtraction does not go below zero.             *)
(***************************************************************************)
EXTENDS VCRStats, VCRProofs, FiniteSetTheorems

Numbers == [TotalTracks : Nat, TracksLoaded : Nat, TracksRecorded : Nat,
            TracksPlayed : Nat]

\* The cassette has moved on since Stats was called, but in one direction.
SinceBegin ==
  /\ tracksLoaded <= before.tracks
  /\ before.tracks <= Len(tracks)
  /\ before.replayed <= Replayed(tracks)
  /\ Len(tracks) - Replayed(tracks) <= before.tracks - before.replayed

\* What each number is worth once it has been read.
TotalInv ==
  reader # "TotalTracks" => stats.TotalTracks \in before.tracks..Len(tracks)

LoadedInv ==
  reader \notin {"TotalTracks", "TracksLoaded"} => stats.TracksLoaded = tracksLoaded

RecordedInv ==
  reader \in {"TracksPlayed", "Idle"} =>
    stats.TracksRecorded \in (before.tracks - tracksLoaded)..(Len(tracks) - tracksLoaded)

PlayedInv ==
  reader = "Idle" =>
    /\ stats.TracksPlayed + stats.TracksRecorded \in before.replayed..Replayed(tracks)
    /\ stats.TracksPlayed >= before.replayed - (before.tracks - tracksLoaded)

StatsInv ==
  /\ reader \in {"Idle", "TotalTracks", "TracksLoaded", "TracksRecorded", "TracksPlayed"}
  /\ stats \in Numbers
  /\ before \in [asked : BOOLEAN, tracks : Nat, replayed : Nat]
  /\ reader # "Idle" => before.asked
  /\ before.asked => SinceBegin /\ TotalInv /\ LoadedInv /\ RecordedInv /\ PlayedInv

(***************************************************************************)
(* Counting replayed tracks                                                *)
(***************************************************************************)

\* How many tracks follow the n-th.
LEMMA TailSize ==
  ASSUME NEW n \in Nat, NEW len \in Nat, n <= len
  PROVE  IsFiniteSet((n + 1)..len) /\ Cardinality((n + 1)..len) = len - n
<1>1. /\ IsFiniteSet((n + 1)..len)
      /\ Cardinality((n + 1)..len) = IF n + 1 > len THEN 0 ELSE len - (n + 1) + 1
  BY FS_Interval
<1> QED
  BY <1>1

\* If all tracks after the n-th are replayed, those before are the rest.
LEMMA ReplayedTail ==
  ASSUME NEW trks \in Seq(Track), NEW n \in 0..Len(trks),
         \A i \in (n + 1)..Len(trks) : trks[i].replayed
  PROVE  LET some == {i \in 1..n : trks[i].replayed}
         IN /\ IsFiniteSet(some) /\ Cardinality(some) \in Nat
            /\ Replayed(trks) = Cardinality(some) + (Len(trks) - n)
<1> DEFINE some == {i \in 1..n : trks[i].replayed}
           tail == (n + 1)..Len(trks)
<1>1. Len(trks) \in Nat /\ n \in Nat /\ n <= Len(trks) /\ DOMAIN trks = 1..Len(trks)
  BY LenProperties
<1>2. IsFiniteSet(some)
  <2>1. IsFiniteSet(1..n)
    BY <1>1, FS_Interval
  <2>2. some \in SUBSET (1..n)
    OBVIOUS
  <2> HIDE DEF some
  <2> QED
    BY <2>1, <2>2, FS_Subset
<1>3. IsFiniteSet(tail) /\ Cardinality(tail) = Len(trks) - n
  BY <1>1, TailSize
<1>4. {i \in DOMAIN trks : trks[i].replayed} = some \cup tail
  BY <1>1
<1>5. some \cap tail = {}
  BY <1>1
<1>6. Cardinality(some) \in Nat
  BY <1>2, FS_CardinalityType
<1> HIDE DEF some, tail
<1>7. Cardinality(some \cup tail) = Cardinality(some) + Cardinality(tail)
  <2>1. Cardinality(some \cup tail) =
          Cardinality(some) + Cardinality(tail) - Cardinality(some \cap tail)
    BY <1>2, <1>3, FS_Union
  <2>2. Cardinality(some \cap tail) = 0
    BY <1>5, FS_EmptySet
  <2> QED
    BY <1>1, <1>3, <1>6, <2>1, <2>2
<1>8. Replayed(trks) = Cardinality(some) + (Len(trks) - n)
  BY <1>3, <1>4, <1>7 DEF Replayed
<1> QED
  BY <1>2, <1>6, <1>8 DEF some

\* The number of replayed tracks is a number.
LEMMA ReplayedType ==
  ASSUME NEW trks \in Seq(Track)
  PROVE  Replayed(trks) \in Nat
<1>1. Len(trks) \in Nat /\ Len(trks) \in 0..Len(trks)
      /\ \A i \in (Len(trks) + 1)..Len(trks) : trks[i].replayed
  BY LenProperties
<1>2. Cardinality({i \in 1..Len(trks) : trks[i].replayed}) \in Nat
  BY <1>1, ReplayedTail
<1> QED
  BY <1>2, LenProperties DEF Replayed

\* As the cassette grows, the tracks that are not played get fewer.
LEMMA ReplayedGrows ==
  ASSUME NEW trks \in Seq(Track), NEW more \in Seq(Track), Grows(trks, more)
  PROVE  Replayed(trks) + (Len(more) - Len(trks)) <= Replayed(more)
<1> DEFINE old == {i \in 1..Len(trks) : trks[i].replayed}
           now == {i \in 1..Len(trks) : more[i].replayed}
<1>1. /\ Len(trks) \in Nat /\ Len(more) \in Nat
      /\ Len(trks) \in 0..Len(more)
      /\ DOMAIN trks = 1..Len(trks)
  BY LenProperties DEF Grows
<1>2. /\ IsFiniteSet(now) /\ Cardinality(now) \in Nat
      /\ Replayed(more) = Cardinality(now) + (Len(more) - Len(trks))
  BY <1>1, ReplayedTail DEF Grows
<1>3. old \in SUBSET now
  BY DEF Grows
<1>4. Replayed(trks) = Cardinality(old)
  BY <1>1 DEF Replayed
<1> HIDE DEF old, now
<1>5. Cardinality(old) \in Nat /\ Cardinality(old) <= Cardinality(now)
  BY <1>2, <1>3, FS_Subset, FS_CardinalityType
<1> QED
  BY <1>1, <1>2, <1>4, <1>5

(***************************************************************************)
(* The invariant of Stats                                                  *)
(***************************************************************************)

\* Stats leaves the VCR alone.
LEMMA StatsIsSpec == StatsSpec => Spec
<1>1. [StatsNext]_statsVars => [Next]_vars
  BY DEF StatsNext, Stats, StatsBegin, ReadTotalTracks, ReadTracksLoaded,
     ReadTracksRecorded, ReadTracksPlayed, Read, Next, statsVars, vars
<1> QED
  BY <1>1, PTL DEF StatsSpec, StatsInit, Spec

\* What is known of the cassette at any step.
LEMMA Counts ==
  ASSUME Inv, [Next]_vars
  PROVE  /\ tracksLoaded \in Nat /\ Len(tracks) \in Nat /\ Len(tracks') \in Nat
         /\ tracksLoaded' = tracksLoaded
         /\ tracksLoaded <= Len(tracks) /\ Len(tracks) <= Len(tracks')
         /\ Replayed(tracks) \in Nat /\ Replayed(tracks') \in Nat
         /\ Len(tracks) - tracksLoaded <= Replayed(tracks)
         /\ Replayed(tracks) + (Len(tracks') - Len(tracks)) <= Replayed(tracks')
<1>1. tracks \in Seq(Track) /\ tracks' \in Seq(Track) /\ Grows(tracks, tracks')
      /\ tracksLoaded \in Nat /\ tracksLoaded' = tracksLoaded
  BY CassetteStep DEF Inv, TypeOK
<1>2. Len(tracks) \in Nat /\ Len(tracks') \in Nat /\ Len(tracks) <= Len(tracks')
  BY <1>1, LenProperties DEF Grows
<1>3. tracksLoaded \in 0..Len(tracks)
      /\ \A i \in (tracksLoaded + 1)..Len(tracks) : tracks[i].replayed
  BY <1>1, <1>2 DEF Inv, RecordedAreUsed
<1>4. LET some == {i \in 1..tracksLoaded : tracks[i].replayed}
      IN /\ Cardinality(some) \in Nat
         /\ Replayed(tracks) = Cardinality(some) + (Len(tracks) - tracksLoaded)
  BY <1>1, <1>3, ReplayedTail
<1>5. Replayed(tracks) \in Nat /\ Replayed(tracks') \in Nat
  BY <1>1, ReplayedType
<1>6. Replayed(tracks) + (Len(tracks') - Len(tracks)) <= Replayed(tracks')
  BY <1>1, ReplayedGrows
<1>7. Len(tracks) - tracksLoaded <= Replayed(tracks)
  BY <1>1, <1>2, <1>4
<1> QED
  BY <1>1, <1>2, <1>3, <1>5, <1>6, <1>7

\* What Stats has read stays true while goroutines record and play.
LEMMA StatsKept ==
  ASSUME Inv, StatsInv, [Next]_vars, UNCHANGED <<reader, stats, before>>
  PROVE  StatsInv'
<1>1. CASE ~before.asked
  BY <1>1 DEF StatsInv
<1>2. CASE before.asked
  <2>1. /\ SinceBegin /\ TotalInv /\ LoadedInv /\ RecordedInv /\ PlayedInv
        /\ stats.TotalTracks \in Nat /\ stats.TracksRecorded \in Nat
        /\ stats.TracksPlayed \in Nat
        /\ before.tracks \in Nat /\ before.replayed \in Nat
    BY <1>2 DEF StatsInv, Numbers
  <2>2. /\ tracksLoaded \in Nat /\ Len(tracks) \in Nat /\ Len(tracks') \in Nat
        /\ tracksLoaded' = tracksLoaded
        /\ Len(tracks) <= Len(tracks')
        /\ Replayed(tracks) \in Nat /\ Replayed(tracks') \in Nat
        /\ Replayed(tracks) + (Len(tracks') - Len(tracks)) <= Replayed(tracks')
    BY Counts
  <2>3. SinceBegin'
    <3> DEFINE n == Len(tracks) m == Len(tracks')
               r == Replayed(tracks) q == Replayed(tracks')
    <3>1. /\ tracksLoaded <= before.tracks /\ before.tracks <= n
          /\ before.replayed <= r /\ n - r <= before.tracks - before.replayed
      BY <2>1 DEF SinceBegin
    <3>2. SinceBegin' <=> /\ tracksLoaded <= before.tracks /\ before.tracks <= m
                          /\ before.replayed <= q
                          /\ m - q <= before.tracks - before.replayed
      BY <2>2 DEF SinceBegin
    <3> HIDE DEF n, m, r, q
    <3>3. n \in Nat /\ m \in Nat /\ r \in Nat /\ q \in Nat /\ n <= m /\ r + (m - n) <= q
      BY <2>2 DEF n, m, r, q
    <3> QED
      BY <2>1, <3>1, <3>2, <3>3
  <2>4. TotalInv'
    BY <2>1, <2>2 DEF TotalInv, SinceBegin
  <2>5. LoadedInv'
    BY <2>1, <2>2 DEF LoadedInv
  <2>6. RecordedInv'
    <3>1. (before.tracks - tracksLoaded)..(Len(tracks) - tracksLoaded)
            \subseteq (before.tracks - tracksLoaded)..(Len(tracks') - tracksLoaded)
      BY <2>1, <2>2
    <3> QED
      BY <2>1, <2>2, <3>1 DEF RecordedInv
  <2>7. PlayedInv'
    BY <2>1, <2>2 DEF PlayedInv
  <2> QED
    BY <2>3, <2>4, <2>5, <2>6, <2>7 DEF StatsInv
<1> QED
  BY <1>1, <1>2

\* Each read of Stats finds what the invariant says of its number.
LEMMA StatsRead ==
  ASSUME Inv, StatsInv, Stats
  PROVE  StatsInv'
<1>0. /\ UNCHANGED vars /\ tracks' = tracks /\ tracksLoaded' = tracksLoaded
  BY DEF Stats, StatsBegin, ReadTotalTracks, ReadTracksLoaded,
     ReadTracksRecorded, ReadTracksPlayed, Read, vars
<1>c. /\ tracksLoaded \in Nat /\ Len(tracks) \in Nat /\ tracksLoaded <= Len(tracks)
      /\ Replayed(tracks) \in Nat
      /\ Len(tracks) - tracksLoaded <= Replayed(tracks)
  BY <1>0, Counts
<1>t. /\ stats \in Numbers
      /\ before \in [asked : BOOLEAN, tracks : Nat, replayed : Nat]
  BY DEF StatsInv
<1>1. CASE StatsBegin
  <2>1. /\ reader' = "TotalTracks" /\ stats' = NoStats
        /\ before' = [asked |-> TRUE, tracks |-> Len(tracks), replayed |-> Replayed(tracks)]
    BY <1>1 DEF StatsBegin
  <2>2. stats' \in Numbers /\ before' \in [asked : BOOLEAN, tracks : Nat, replayed : Nat]
    BY <1>c, <2>1 DEF NoStats, Numbers
  <2>3. SinceBegin'
    BY <1>0, <1>c, <2>1 DEF SinceBegin
  <2> QED
    BY <2>1, <2>2, <2>3 DEF StatsInv, TotalInv, LoadedInv, RecordedInv, PlayedInv
<1>2. ASSUME reader # "Idle", before' = before
      PROVE  before'.asked /\ SinceBegin /\ SinceBegin'
  BY <1>0, <1>2 DEF StatsInv, SinceBegin
<1>3. CASE ReadTotalTracks
  <2>1. /\ reader = "TotalTracks" /\ reader' = "TracksLoaded"
        /\ before' = before
        /\ stats' = [stats EXCEPT !["TotalTracks"] = Len(tracks)]
    BY <1>3 DEF ReadTotalTracks, Read
  <2>2. stats' \in Numbers /\ stats'.TotalTracks = Len(tracks)
    BY <1>c, <1>t, <2>1 DEF Numbers
  <2> QED
    BY <1>0, <1>2, <1>c, <1>t, <2>1, <2>2
       DEF StatsInv, SinceBegin, TotalInv, LoadedInv, RecordedInv, PlayedInv
<1>4. CASE ReadTracksLoaded
  <2>1. /\ reader = "TracksLoaded" /\ reader' = "TracksRecorded"
        /\ before' = before
        /\ stats' = [stats EXCEPT !["TracksLoaded"] = tracksLoaded]
    BY <1>4 DEF ReadTracksLoaded, Read, LoadedCount
  <2>2. /\ stats' \in Numbers /\ stats'.TracksLoaded = tracksLoaded
        /\ stats'.TotalTracks = stats.TotalTracks
    BY <1>c, <1>t, <2>1 DEF Numbers
  <2>3. TotalInv
    BY <1>2, <2>1 DEF StatsInv
  <2> QED
    BY <1>0, <1>2, <1>c, <1>t, <2>1, <2>2, <2>3
       DEF StatsInv, SinceBegin, TotalInv, LoadedInv, RecordedInv, PlayedInv
<1>5. CASE ReadTracksRecorded
  <2>1. /\ reader = "TracksRecorded" /\ reader' = "TracksPlayed"
        /\ before' = before
        /\ stats' = [stats EXCEPT !["TracksRecorded"] = Len(tracks) - stats.TracksLoaded]
    BY <1>5 DEF ReadTracksRecorded, Read
  <2>2. TotalInv /\ LoadedInv
    BY <1>2, <2>1 DEF StatsInv
  <2>3. stats.TracksLoaded = tracksLoaded
    BY <2>1, <2>2 DEF LoadedInv
  <2>4. /\ stats' \in Numbers
        /\ stats'.TracksRecorded = Len(tracks) - tracksLoaded
        /\ stats'.TracksLoaded = tracksLoaded
        /\ stats'.TotalTracks = stats.TotalTracks
    BY <1>c, <1>t, <2>1, <2>3 DEF Numbers
  <2> QED
    BY <1>0, <1>2, <1>c, <1>t, <2>1, <2>2, <2>4
       DEF StatsInv, SinceBegin, TotalInv, LoadedInv, RecordedInv, PlayedInv
<1>6. CASE ReadTracksPlayed
  <2> DEFINE n == Replayed(tracks) - stats.TracksRecorded
  <2>1. /\ reader = "TracksPlayed" /\ reader' = "Idle"
        /\ before' = before
        /\ stats' = [stats EXCEPT !["TracksPlayed"] = n]
    BY <1>6 DEF ReadTracksPlayed, Read, PlayedOf
  <2>2. TotalInv /\ LoadedInv /\ RecordedInv
    BY <1>2, <2>1 DEF StatsInv
  <2>3. /\ stats.TracksRecorded \in (before.tracks - tracksLoaded)..(Len(tracks) - tracksLoaded)
        /\ stats.TracksRecorded \in Nat
    BY <1>t, <2>1, <2>2 DEF RecordedInv, Numbers
  <2>4. n \in Nat /\ n + stats.TracksRecorded = Replayed(tracks)
    BY <1>c, <2>3
  <2>5. n >= before.replayed - (before.tracks - tracksLoaded)
    BY <1>2, <1>c, <1>t, <2>1, <2>3 DEF SinceBegin
  <2> HIDE DEF n
  <2>6. /\ stats' \in Numbers
        /\ stats'.TracksPlayed = n
        /\ stats'.TracksRecorded = stats.TracksRecorded
        /\ stats'.TracksLoaded = stats.TracksLoaded
        /\ stats'.TotalTracks = stats.TotalTracks
    BY <1>t, <2>1, <2>4 DEF Numbers
  <2> QED
    BY <1>0, <1>2, <1>c, <1>t, <2>1, <2>2, <2>3, <2>4, <2>5, <2>6
       DEF StatsInv, SinceBegin, TotalInv, LoadedInv, RecordedInv, PlayedInv
<1> QED
  BY <1>1, <1>3, <1>4, <1>5, <1>6 DEF Stats

\* The invariant of Stats holds for any number of goroutines.
THEOREM StatsInvariance == StatsSpec => [](Inv /\ StatsInv)
<1>1. StatsInit => StatsInv
  <2> SUFFICES ASSUME StatsInit PROVE StatsInv
    OBVIOUS
  <2>1. NoStats \in Numbers
    BY DEF NoStats, Numbers
  <2> QED
    BY <2>1 DEF StatsInit, StatsInv
<1>2. Inv /\ StatsInv /\ [StatsNext]_statsVars => StatsInv'
  <2> SUFFICES ASSUME Inv, StatsInv, [StatsNext]_statsVars
               PROVE  StatsInv'
    OBVIOUS
  <2>1. CASE Serve /\ UNCHANGED <<reader, stats, before>>
    BY <2>1, StatsKept DEF Next
  <2>2. CASE Stats
    BY <2>2, StatsRead
  <2>3. CASE UNCHANGED statsVars
    BY <2>3, StatsKept DEF statsVars
  <2> QED
    BY <2>1, <2>2, <2>3 DEF StatsNext
<1>3. StatsSpec => []Inv
  BY StatsIsSpec, Invariance
<1> QED
  BY <1>1, <1>2, <1>3, PTL DEF StatsSpec

\* No number of Stats is negative, although the recorded tracks are subtracted
\* from a count that is made later.
THEOREM StatsNonNegative == StatsSpec => []NeverNegative
<1>1. StatsInv => NeverNegative
  BY DEF StatsInv, Numbers, NeverNegative
<1> QED
  BY <1>1, StatsInvariance, PTL

\* Stats hides no track that was recorded or played back when it was called.
THEOREM StatsComplete == StatsSpec => []NothingHidden
<1>1. Inv /\ StatsInv => NothingHidden
  <2> SUFFICES ASSUME Inv, StatsInv, Returned
               PROVE  /\ stats.TotalTracks >= before.tracks
                      /\ stats.TracksRecorded >= before.tracks - tracksLoaded
                      /\ stats.TracksPlayed >= before.replayed - (before.tracks - tracksLoaded)
    BY DEF NothingHidden
  <2>1. TotalInv /\ RecordedInv /\ PlayedInv /\ reader = "Idle"
    BY DEF Returned, StatsInv
  <2>2. /\ before.tracks \in Nat /\ tracksLoaded \in Nat
        /\ stats.TotalTracks \in Nat /\ stats.TracksRecorded \in Nat
    BY DEF StatsInv, Numbers, Inv, TypeOK
  <2> QED
    BY <2>1, <2>2 DEF TotalInv, RecordedInv, PlayedInv
<1> QED
  BY <1>1, StatsInvariance, PTL

\* If nothing was recorded or played meanwhile, Stats is the truth.
THEOREM StatsExact == StatsSpec => []ExactWhenQuiet
<1>1. Inv /\ StatsInv => ExactWhenQuiet
  <2> DEFINE some == {i \in 1..tracksLoaded : tracks[i].replayed}
             played == Cardinality(some)
             truth == [TotalTracks    |-> Len(tracks),
                       TracksLoaded   |-> tracksLoaded,
                       TracksRecorded |-> Len(tracks) - tracksLoaded,
                       TracksPlayed   |-> played]
  <2> SUFFICES ASSUME Inv, StatsInv, Returned, before.tracks = Len(tracks),
                      before.replayed = Replayed(tracks)
               PROVE  stats = truth
    BY DEF ExactWhenQuiet
  <2>1. TotalInv /\ LoadedInv /\ RecordedInv /\ PlayedInv /\ reader = "Idle"
    BY DEF Returned, StatsInv
  <2>2. /\ tracks \in Seq(Track) /\ Len(tracks) \in Nat
        /\ tracksLoaded \in Nat /\ tracksLoaded <= Len(tracks)
        /\ tracksLoaded \in 0..Len(tracks)
        /\ \A i \in (tracksLoaded + 1)..Len(tracks) : tracks[i].replayed
    BY LenProperties DEF Inv, TypeOK, RecordedAreUsed
  <2>3. played \in Nat /\ Replayed(tracks) = played + (Len(tracks) - tracksLoaded)
    BY <2>2, ReplayedTail
  <2> HIDE DEF played
  <2>4. /\ stats.TotalTracks \in Nat /\ stats.TracksLoaded \in Nat
        /\ stats.TracksRecorded \in Nat /\ stats.TracksPlayed \in Nat
        /\ stats = [TotalTracks    |-> stats.TotalTracks,
                    TracksLoaded   |-> stats.TracksLoaded,
                    TracksRecorded |-> stats.TracksRecorded,
                    TracksPlayed   |-> stats.TracksPlayed]
    BY DEF StatsInv, Numbers
  <2>5. stats.TotalTracks = Len(tracks) /\ stats.TracksLoaded = tracksLoaded
    BY <2>1, <2>2, <2>4 DEF TotalInv, LoadedInv
  <2>6. stats.TracksRecorded = Len(tracks) - tracksLoaded
    BY <2>1, <2>2, <2>4 DEF RecordedInv
  <2>7. stats.TracksPlayed + stats.TracksRecorded = Replayed(tracks)
    BY <2>1, <2>2, <2>3, <2>4 DEF PlayedInv
  <2>8. stats.TracksPlayed = played
    BY <2>2, <2>3, <2>4, <2>6, <2>7
  <2> QED
    BY <2>4, <2>5, <2>6, <2>8
<1> QED
  BY <1>1, StatsInvariance, PTL
=============================================================================
