----------------------------- MODULE VCRProofs -----------------------------
(***************************************************************************)
(* Proofs about module VCR, for any number of goroutines, requests and     *)
(* tracks, any matchers, and a control panel that may change every setting *)
(* at any moment.                                                          *)
(*                                                                         *)
(* The argument: the cassette only ever Grows (no track is lost, moves or  *)
(* becomes unplayed, and what is added counts as played).  Whatever a      *)
(* goroutine has learnt of the cassette, from a length and copies that     *)
(* are out of date, is of a kind that survives growth; CallInv says what   *)
(* it has learnt at each point of RoundTrip.                               *)
(***************************************************************************)
EXTENDS VCR, SequenceTheorems, TLAPS

\* What a step may do to the cassette in memory.
Grows(before, after) ==
  /\ Len(before) <= Len(after)
  /\ \A i \in 1..Len(before) :
       /\ after[i].request = before[i].request
       /\ before[i].replayed => after[i].replayed
  /\ \A i \in (Len(before) + 1)..Len(after) : after[i].replayed

RecordedAreUsed ==
  /\ tracksLoaded <= Len(tracks)
  /\ \A i \in (tracksLoaded + 1)..Len(tracks) : tracks[i].replayed

\* The tracks before the n-th cannot answer g.
Exhausted(g, n) ==
  \A i \in 1..(n - 1) : tracks[i].replayed \/ ~Matches(call[g].request, tracks[i])

\* The scan stays within the tracks there were when they were counted, which
\* include all those loaded.
ScanInv(g) ==
  pc[g] \in Scanning =>
    /\ call[g].trackNumber \in 1..call[g].numberOfTracks
    /\ call[g].numberOfTracks \in tracksLoaded..Len(tracks)

\* The copy of a track is out of date only in not being replayed yet.
CopyInv(g) ==
  pc[g] = "Match" =>
    /\ call[g].trk \in Track
    /\ call[g].trk.request = tracks[call[g].trackNumber].request
    /\ call[g].trk.replayed => tracks[call[g].trackNumber].replayed
    /\ call[g].trackNumber > tracksLoaded => call[g].trk.replayed

ReplayInv(g) == pc[g] \in Replays => call[g].trackNumber \in 1..tracksLoaded

\* The settings are among those of its call.
LivedInv(g) ==
  pc[g] # "Idle" =>
    /\ pcb.httpMode \in lived[g].httpMode
    /\ pcb.readOnly \in lived[g].readOnly
    /\ pcb.requestMatchers \in lived[g].requestMatchers

OrderInv(g) ==
  (SameMatchers(g) /\ pc[g] \in Scanning \cup {"ReplayTrack"}) =>
    Exhausted(g, call[g].trackNumber)

\* It has looked at the cassette, or was in live-only mode when it began to.
MissInv(g) ==
  (/\ SameMatchers(g) /\ pc[g] = "CheckOffline"
   /\ "LiveOnly" \notin lived[g].httpMode) =>
    Exhausted(g, Len(tracks) + 1)

ModeInv(g) ==
  /\ pc[g] = "Transport" => lived[g].httpMode # {"Offline"}
  /\ pc[g] \in Scanning \cup Replays \cup {"NumberOfTracks"} =>
       lived[g].httpMode # {"LiveOnly"}
  /\ pc[g] \in Records => FALSE \in lived[g].readOnly

RequestInv(g) ==
  /\ pc[g] # "Idle" => call[g].request \in Requests
  /\ pc[g] \in {"AddTrack", "Save"} => call[g].trk \in Track

CallInv(g) ==
  /\ RequestInv(g) /\ ScanInv(g) /\ CopyInv(g) /\ ReplayInv(g)
  /\ LivedInv(g) /\ OrderInv(g) /\ MissInv(g) /\ ModeInv(g)

Inv == TypeOK /\ RecordedAreUsed /\ \A g \in Callers : CallInv(g)

(***************************************************************************)
(* Type correctness                                                        *)
(***************************************************************************)

\* Writing a track down gives a track.
LEMMA OnDiskType == ASSUME NEW trk \in Track PROVE OnDisk(trk) \in Track
BY DEF OnDisk, Track, Response

\* The content of a file is a sequence of tracks.
LEMMA ContentType ==
  ASSUME NEW trks \in Seq(Track)
  PROVE  Content(trks) \in Seq(Track)
<1>1. \A i \in 1..Len(trks) : OnDisk(trks[i]) \in Track
  BY OnDiskType, ElementOfSeq
<1>2. Len(trks) \in Nat
  BY LenProperties
<1> QED
  BY <1>1, <1>2 DEF Content

\* Changing one track of a cassette for another.
LEMMA ChangedTrack ==
  ASSUME NEW trks \in Seq(Track), NEW i \in 1..Len(trks), NEW trk \in Track,
         trk.request = trks[i].request, trks[i].replayed => trk.replayed
  PROVE  /\ [trks EXCEPT ![i] = trk] \in Seq(Track)
         /\ Grows(trks, [trks EXCEPT ![i] = trk])
BY ExceptSeq, LenProperties DEF Grows

\* Adding a track that counts as played.
LEMMA AddedTrack ==
  ASSUME NEW trks \in Seq(Track), NEW trk \in Track, trk.replayed
  PROVE  Append(trks, trk) \in Seq(Track) /\ Grows(trks, Append(trks, trk))
<1>1. /\ Append(trks, trk) \in Seq(Track)
      /\ Len(Append(trks, trk)) = Len(trks) + 1
      /\ \A i \in 1..Len(trks) : Append(trks, trk)[i] = trks[i]
      /\ Append(trks, trk)[Len(trks) + 1] = trk
      /\ Len(trks) \in Nat
  BY AppendProperties, LenProperties
<1> QED
  BY <1>1 DEF Grows

\* Leaving the cassette alone.
LEMMA SameTracks ==
  ASSUME NEW trks \in Seq(Track)
  PROVE  Grows(trks, trks)
BY LenProperties DEF Grows

\* A response set in a track, as the replay does it.
LEMMA ChangedResponse ==
  ASSUME NEW trks \in Seq(Track), NEW i \in 1..Len(trks), NEW resp \in Response
  PROVE  /\ [trks EXCEPT ![i].response = resp] \in Seq(Track)
         /\ Grows(trks, [trks EXCEPT ![i].response = resp])
<1>1. trks[i] \in Track
  BY ElementOfSeq
<1> DEFINE trk == [trks[i] EXCEPT !.response = resp]
<1>2. trk \in Track /\ trk.request = trks[i].request /\ trk.replayed = trks[i].replayed
  BY <1>1 DEF Track
<1>3. /\ [trks EXCEPT ![i] = trk] \in Seq(Track)
      /\ Grows(trks, [trks EXCEPT ![i] = trk])
  BY <1>2, ChangedTrack
<1> QED
  BY <1>3

(***************************************************************************)
(* The cassette only grows                                                 *)
(***************************************************************************)

\* What every step, of any goroutine or of the control panel, does to the
\* cassette in memory.
LEMMA CassetteStep ==
  ASSUME Inv, [Next]_vars
  PROVE  /\ tracks' \in Seq(Track)
         /\ Grows(tracks, tracks')
         /\ tracksLoaded' = tracksLoaded
<1> USE DEF Inv
<1>t. tracks \in Seq(Track) /\ Len(tracks) \in Nat /\ tracksLoaded \in Nat
  BY LenProperties DEF TypeOK
<1>r. \A g \in Callers : pc[g] \in Replays =>
        /\ call[g].trackNumber \in 1..Len(tracks)
        /\ tracks[call[g].trackNumber] \in Track
  BY <1>t, ElementOfSeq DEF CallInv, ReplayInv, RecordedAreUsed
<1>0. CASE tracks' = tracks /\ tracksLoaded' = tracksLoaded
  BY <1>0, <1>t, SameTracks
<1>1. ASSUME NEW g \in Callers, ReplayTrack(g)
      PROVE  tracks' \in Seq(Track) /\ Grows(tracks, tracks') /\ tracksLoaded' = tracksLoaded
  <2> DEFINE i == call[g].trackNumber
             trk == MarkReplayed(tracks[i])
  <2>1. i \in 1..Len(tracks) /\ tracks[i] \in Track
    BY <1>1, <1>r DEF ReplayTrack, Goto, Replays
  <2>2. trk \in Track /\ trk.request = tracks[i].request /\ trk.replayed
    BY <2>1 DEF MarkReplayed, Track
  <2>3. tracks' = [tracks EXCEPT ![i] = trk] /\ tracksLoaded' = tracksLoaded
    BY <1>1 DEF ReplayTrack
  <2> HIDE DEF i, trk
  <2> QED
    BY <2>1, <2>2, <2>3, <1>t, ChangedTrack
<1>2. ASSUME NEW g \in Callers, InjectRequest(g)
      PROVE  tracks' \in Seq(Track) /\ Grows(tracks, tracks') /\ tracksLoaded' = tracksLoaded
  <2> DEFINE i == call[g].trackNumber
             resp == Inject(tracks[i].response, g)
  <2>1. i \in 1..Len(tracks) /\ tracks[i] \in Track
    BY <1>2, <1>r DEF InjectRequest, Goto, Replays
  <2>2. CASE tracks[i].response = None
    BY <2>2, <1>2, <1>0 DEF InjectRequest
  <2>3. CASE tracks[i].response # None
    <3>1. resp \in Response
      BY <2>1, <2>3 DEF Inject, Track, Response
    <3>2. tracks' = [tracks EXCEPT ![i].response = resp] /\ tracksLoaded' = tracksLoaded
      BY <1>2, <2>3 DEF InjectRequest
    <3> HIDE DEF i, resp
    <3> QED
      BY <2>1, <3>1, <3>2, <1>t, ChangedResponse
  <2> QED
    BY <2>2, <2>3
<1>3. ASSUME NEW g \in Callers, MutateReplaying(g)
      PROVE  tracks' \in Seq(Track) /\ Grows(tracks, tracks') /\ tracksLoaded' = tracksLoaded
  <2> DEFINE i == call[g].trackNumber
             resp == Replaying[pcb.trackReplayingMutators][tracks[i].response]
  <2>1. i \in 1..Len(tracks) /\ tracks[i] \in Track
    BY <1>3, <1>r DEF MutateReplaying, Goto, Replays
  <2>2. CASE tracks[i].response = None
    BY <2>2, <1>3, <1>0 DEF MutateReplaying
  <2>3. CASE tracks[i].response # None
    <3>1. resp \in Response
      BY <2>1, <2>3, SettingsAssumption DEF Track, TypeOK, PCB
    <3>2. tracks' = [tracks EXCEPT ![i].response = resp] /\ tracksLoaded' = tracksLoaded
      BY <1>3, <2>3 DEF MutateReplaying
    <3> HIDE DEF i, resp
    <3> QED
      BY <2>1, <3>1, <3>2, <1>t, ChangedResponse
  <2> QED
    BY <2>2, <2>3
<1>4. ASSUME NEW g \in Callers, AddTrack(g)
      PROVE  tracks' \in Seq(Track) /\ Grows(tracks, tracks') /\ tracksLoaded' = tracksLoaded
  <2> DEFINE trk == AsUsed(call[g].trk)
  <2>1. trk \in Track /\ trk.replayed
    BY <1>4 DEF AddTrack, Goto, CallInv, RequestInv, AsUsed, Track
  <2>2. tracks' = Append(tracks, trk) /\ tracksLoaded' = tracksLoaded
    BY <1>4 DEF AddTrack
  <2> HIDE DEF trk
  <2> QED
    BY <2>1, <2>2, <1>t, AddedTrack
<1>5. ASSUME NEW g \in Callers, Proceed(g)
      PROVE  tracks' \in Seq(Track) /\ Grows(tracks, tracks') /\ tracksLoaded' = tracksLoaded
  BY <1>0, <1>1, <1>2, <1>3, <1>4, <1>5
     DEF Proceed, SeekTrack, NumberOfTracks, ReadTrack, Match, NoMatch,
         ToHTTPResponse, Refuse, GoLive, Transport, SkipRecording,
         StartRecording, MutateRecording, Save, SaveFails, cassetteVars
<1>6. ASSUME NEW g \in Callers, NEW req \in Requests, Begin(g, req)
      PROVE  tracks' = tracks /\ tracksLoaded' = tracksLoaded
  BY <1>6 DEF Begin, cassetteVars
<1>7. ASSUME ControlPanel
      PROVE  tracks' = tracks /\ tracksLoaded' = tracksLoaded
  BY <1>7 DEF ControlPanel, SetNormalMode, SetOfflineMode, SetLiveOnlyMode,
         SetReadOnlyMode, SetRequestMatchers, SetRecordingMutators,
         SetReplayingMutators, Setting, cassetteVars
<1>8. CASE UNCHANGED vars
  BY <1>0, <1>8 DEF vars
<1> QED
  BY <1>0, <1>5, <1>6, <1>7, <1>8 DEF Next, Serve

(***************************************************************************)
(* Types                                                                   *)
(***************************************************************************)

LocalsOK == pc \in [Callers -> Locations] /\ call \in [Callers -> Call]
RestOK ==
  /\ stored = Unreadable \/ stored \in Seq(Track)
  /\ pcb \in PCB
  /\ outcome \in [Callers -> Outcome]
  /\ lived \in [Callers -> Lived]

\* A step of one goroutine changes its own local variables only, to others of
\* their types.
LEMMA LocalsStep ==
  ASSUME Inv, [Next]_vars
  PROVE  LocalsOK'
<1> USE DEF Inv
<1>t. /\ pc \in [Callers -> Locations]
      /\ call \in [Callers -> Call]
      /\ tracks \in Seq(Track) /\ Len(tracks) \in Nat
      /\ pcb \in PCB
  BY LenProperties DEF TypeOK
<1>f. \A req \in Requests \cup {None} : Fresh(req) \in Call
  BY DEF Fresh, Call
<1>c. \A g \in Callers : /\ call[g].request \in Requests \cup {None}
                         /\ call[g].trackNumber \in Nat
                         /\ call[g].response \in Response \cup {None}
                         /\ call[g].trk \in Track \cup {None}
  BY <1>t DEF Call
<1>1. ASSUME NEW g \in Callers, NEW to \in Locations, NEW locals \in Call,
             pc' = [pc EXCEPT ![g] = to], call' = [call EXCEPT ![g] = locals]
      PROVE  LocalsOK'
  BY <1>1, <1>t DEF LocalsOK
<1>2. ASSUME NEW g \in Callers, NEW to \in Locations,
             pc' = [pc EXCEPT ![g] = to], call' = call
      PROVE  LocalsOK'
  BY <1>2, <1>t DEF LocalsOK
<1>3. CASE pc' = pc /\ call' = call
  BY <1>3, <1>t DEF LocalsOK
<1>4. ASSUME NEW g \in Callers, Proceed(g)
      PROVE  LocalsOK'
  <2>1. CASE SeekTrack(g) \/ ReplayTrack(g) \/ InjectRequest(g)
             \/ MutateReplaying(g) \/ GoLive(g) \/ StartRecording(g)
             \/ AddTrack(g)
    BY <2>1, <1>2 DEF SeekTrack, ReplayTrack, InjectRequest, MutateReplaying,
       GoLive, StartRecording, AddTrack, Goto, Locations
  <2>2. CASE ToHTTPResponse(g) \/ Refuse(g) \/ SkipRecording(g) \/ Save(g)
             \/ SaveFails(g)
    BY <2>2, <1>1, <1>f DEF ToHTTPResponse, Refuse, SkipRecording, Save,
       SaveFails, Return, Goto, Locations
  <2>3. CASE NumberOfTracks(g)
    <3> DEFINE locals == [call[g] EXCEPT !.numberOfTracks = Len(tracks),
                                         !.trackNumber = 1]
    <3>1. locals \in Call
      BY <1>t DEF Call
    <3>2. CASE tracks = <<>>
      BY <3>2, <2>3, <1>2 DEF NumberOfTracks, Goto, Locations
    <3>3. CASE tracks # <<>>
      <4>1. call' = [call EXCEPT ![g] = locals]
        BY <3>3, <2>3, <1>t DEF NumberOfTracks, FirstTrack
      <4>2. pc' = [pc EXCEPT ![g] = "Track"] /\ "Track" \in Locations
        BY <3>3, <2>3 DEF NumberOfTracks, Goto, Locations
      <4> HIDE DEF locals
      <4> QED
        BY <4>1, <4>2, <3>1, <1>1
    <3> QED
      BY <3>2, <3>3
  <2>4. CASE ReadTrack(g)
    <3> DEFINE locals == [call[g] EXCEPT !.trk = tracks[call[g].trackNumber]]
    <3>1. call[g].trackNumber \in 1..Len(tracks)
      BY <2>4, <1>t DEF ReadTrack, Goto, CallInv, ScanInv, Scanning,
         RecordedAreUsed, TypeOK
    <3>t. tracks[call[g].trackNumber] \in Track
      BY <3>1, <1>t, ElementOfSeq
    <3>2. locals \in Call
      BY <3>t, <1>t DEF Call
    <3>3. call' = [call EXCEPT ![g] = locals]
      BY <2>4, <1>t DEF ReadTrack
    <3>4. pc' = [pc EXCEPT ![g] = "Match"] /\ "Match" \in Locations
      BY <2>4 DEF ReadTrack, Goto, Locations
    <3> HIDE DEF locals
    <3> QED
      BY <3>2, <3>3, <3>4, <1>1
  <2>5. CASE Match(g)
    <3> DEFINE locals == [Fresh(call[g].request) EXCEPT
                            !.trackNumber = call[g].trackNumber]
    <3>1. locals \in Call
      BY <1>c DEF Fresh, Call
    <3>2. call' = [call EXCEPT ![g] = locals]
      BY <2>5 DEF Match
    <3>3. pc' = [pc EXCEPT ![g] = "ReplayTrack"] /\ "ReplayTrack" \in Locations
      BY <2>5 DEF Match, Goto, Locations
    <3> HIDE DEF locals
    <3> QED
      BY <3>1, <3>2, <3>3, <1>1
  <2>6. CASE NoMatch(g)
    <3> DEFINE locals == [call[g] EXCEPT !.trackNumber = @ + 1, !.trk = None]
    <3>n. call[g].trackNumber + 1 \in Nat /\ call[g] \in Call
      BY <1>t, <1>c
    <3>1. locals \in Call
      BY <3>n DEF Call
    <3>f. Fresh(call[g].request) \in Call
      BY <1>c, <1>f
    <3>2. CASE More(call[g])
      <4>1. call' = [call EXCEPT ![g] = locals]
        BY <3>2, <2>6, <1>t DEF NoMatch, NextTrack
      <4>2. pc' = [pc EXCEPT ![g] = "Track"] /\ "Track" \in Locations
        BY <3>2, <2>6 DEF NoMatch, Goto, Locations
      <4> HIDE DEF locals
      <4> QED
        BY <4>1, <4>2, <3>1, <1>1
    <3>3. CASE ~More(call[g])
      BY <3>3, <2>6, <3>f, <1>1 DEF NoMatch, Goto, Locations
    <3> QED
      BY <3>2, <3>3
  <2>7. CASE Transport(g)
    <3>1. PICK resp \in {None, ToResponse(g)} :
            call' = [call EXCEPT ![g].response = resp]
      BY <2>7 DEF Transport
    <3> DEFINE locals == [call[g] EXCEPT !.response = resp]
    <3>2. resp \in Response \cup {None}
      BY DEF ToResponse, Response
    <3>3. locals \in Call
      BY <3>2, <1>t DEF Call
    <3>4. call' = [call EXCEPT ![g] = locals]
      BY <3>1, <1>t
    <3>5. pc' = [pc EXCEPT ![g] = "CheckReadOnly"] /\ "CheckReadOnly" \in Locations
      BY <2>7 DEF Transport, Goto, Locations
    <3> HIDE DEF locals
    <3> QED
      BY <3>3, <3>4, <3>5, <1>1
  <2>8. CASE MutateRecording(g)
    <3> DEFINE new == [request |-> call[g].request, response |-> call[g].response,
                       replayed |-> FALSE]
               mutated == Recording[pcb.trackRecordingMutators][new]
               locals == [call[g] EXCEPT !.trk = mutated]
    <3>1. new \in Track
      BY <2>8, <1>c DEF MutateRecording, Goto, CallInv, RequestInv, Track
    <3>2. mutated \in Track
      BY <3>1, <1>t, SettingsAssumption DEF PCB
    <3>3. call' = [call EXCEPT ![g] = locals]
      BY <2>8, <1>t DEF MutateRecording
    <3> HIDE DEF new, mutated
    <3>4. locals \in Call
      BY <3>2, <1>t DEF Call
    <3>5. pc' = [pc EXCEPT ![g] = "AddTrack"] /\ "AddTrack" \in Locations
      BY <2>8 DEF MutateRecording, Goto, Locations
    <3> HIDE DEF locals
    <3> QED
      BY <3>3, <3>4, <3>5, <1>1
  <2> QED
    BY <1>4, <2>1, <2>2, <2>3, <2>4, <2>5, <2>6, <2>7, <2>8 DEF Proceed
<1>5. ASSUME NEW g \in Callers, NEW req \in Requests, Begin(g, req)
      PROVE  LocalsOK'
  BY <1>5, <1>1, <1>f DEF Begin, Goto, Locations
<1>6. CASE ControlPanel \/ UNCHANGED vars
  BY <1>6, <1>3 DEF ControlPanel, SetNormalMode, SetOfflineMode,
     SetLiveOnlyMode, SetReadOnlyMode, SetRequestMatchers,
     SetRecordingMutators, SetReplayingMutators, Setting, vars
<1> QED
  BY <1>4, <1>5, <1>6 DEF Next, Serve

\* A history of the settings stays one.
LEMMA LivedType ==
  ASSUME pcb \in PCB
  PROVE  NotLived \in Lived /\ \A past \in Lived : LivedWith(past, pcb) \in Lived
BY DEF NotLived, Lived, LivedWith, PCB

\* What a call returns is an outcome, and its history ends.
LEMMA ReturnType ==
  ASSUME NEW g \in Callers, outcome \in [Callers -> Outcome],
         lived \in [Callers -> Lived], pcb \in PCB,
         NEW from, NEW kind, NEW resp \in Response \cup {None},
         NEW recorded \in Track \cup {None},
         kind \in {"Replayed", "Offline", "Live", "Recorded", "SaveError"},
         Return(g, from, kind, resp, recorded)
  PROVE  outcome' \in [Callers -> Outcome] /\ lived' \in [Callers -> Lived]
<1> DEFINE returned == [kind |-> kind, response |-> resp, recorded |-> recorded]
<1>1. returned \in Outcome
  BY DEF Outcome
<1>2. outcome' = [outcome EXCEPT ![g] = returned]
  BY DEF Return
<1>3. lived' = [lived EXCEPT ![g] = NotLived] /\ NotLived \in Lived
  BY LivedType DEF Return
<1> HIDE DEF returned
<1> QED
  BY <1>1, <1>2, <1>3

\* The file, the settings and the outcomes keep their types.
LEMMA RestStep ==
  ASSUME Inv, [Next]_vars
  PROVE  RestOK'
<1> USE DEF Inv
<1>t. /\ stored = Unreadable \/ stored \in Seq(Track)
      /\ pcb \in PCB
      /\ outcome \in [Callers -> Outcome]
      /\ lived \in [Callers -> Lived]
      /\ tracks \in Seq(Track)
  BY DEF TypeOK
<1>c. \A g \in Callers : call[g].response \in Response \cup {None}
  BY DEF TypeOK, Call
<1>1. ASSUME NEW g \in Callers, Proceed(g)
      PROVE  RestOK'
  <2>1. CASE SeekTrack(g) \/ NumberOfTracks(g) \/ ReadTrack(g) \/ Match(g)
             \/ NoMatch(g) \/ ReplayTrack(g) \/ InjectRequest(g)
             \/ MutateReplaying(g) \/ GoLive(g) \/ Transport(g)
             \/ StartRecording(g) \/ MutateRecording(g) \/ AddTrack(g)
    <3>1. UNCHANGED <<stored, pcb, outcome, lived>>
      BY <2>1 DEF SeekTrack, NumberOfTracks, ReadTrack, Match, NoMatch,
         ReplayTrack, InjectRequest, MutateReplaying, GoLive, Transport,
         StartRecording, MutateRecording, AddTrack, cassetteVars
    <3> QED
      BY <3>1, <1>t DEF RestOK
  <2>2. CASE ToHTTPResponse(g)
    <3>1. call[g].trackNumber \in 1..Len(tracks)
      BY <2>2, LenProperties DEF ToHTTPResponse, Return, Goto, CallInv, ReplayInv, Replays,
         RecordedAreUsed, TypeOK
    <3>2. tracks[call[g].trackNumber] \in Track
      BY <3>1, <1>t, ElementOfSeq
    <3>3. OnDisk(tracks[call[g].trackNumber]).response \in Response \cup {None}
      BY <3>2, OnDiskType DEF Track
    <3>4. outcome' \in [Callers -> Outcome] /\ lived' \in [Callers -> Lived]
      BY <2>2, <3>3, <1>t, ReturnType DEF ToHTTPResponse
    <3> QED
      BY <2>2, <3>4, <1>t DEF ToHTTPResponse, cassetteVars, RestOK
  <2>3. CASE Refuse(g)
    <3>1. outcome' \in [Callers -> Outcome] /\ lived' \in [Callers -> Lived]
      BY <2>3, <1>t, ReturnType DEF Refuse
    <3> QED
      BY <2>3, <3>1, <1>t DEF Refuse, cassetteVars, RestOK
  <2>4. CASE SkipRecording(g)
    <3>1. outcome' \in [Callers -> Outcome] /\ lived' \in [Callers -> Lived]
      BY <2>4, <1>t, <1>c, ReturnType DEF SkipRecording
    <3> QED
      BY <2>4, <3>1, <1>t DEF SkipRecording, cassetteVars, RestOK
  <2>5. CASE Save(g)
    <3>1. OnDisk(call[g].trk) \in Track
      BY <2>5, OnDiskType DEF Save, Return, Goto, CallInv, RequestInv
    <3>2. outcome' \in [Callers -> Outcome] /\ lived' \in [Callers -> Lived]
      BY <2>5, <3>1, <1>t, <1>c, ReturnType DEF Save
    <3>3. stored' \in Seq(Track)
      BY <2>5, <1>t, ContentType DEF Save
    <3> QED
      BY <2>5, <3>2, <3>3, <1>t DEF Save, RestOK
  <2>6. CASE SaveFails(g)
    <3>1. outcome' \in [Callers -> Outcome] /\ lived' \in [Callers -> Lived]
      BY <2>6, <1>t, ReturnType DEF SaveFails
    <3> QED
      BY <2>6, <3>1, <1>t DEF SaveFails, RestOK
  <2> QED
    BY <1>1, <2>1, <2>2, <2>3, <2>4, <2>5, <2>6 DEF Proceed
<1>2. ASSUME NEW g \in Callers, NEW req \in Requests, Begin(g, req)
      PROVE  RestOK'
  <2>1. NoOutcome \in Outcome
    BY DEF NoOutcome, Outcome
  <2>2. LivedWith(NotLived, pcb) \in Lived
    BY <1>t, LivedType
  <2> QED
    BY <1>2, <2>1, <2>2, <1>t DEF Begin, cassetteVars, RestOK
<1>3. ASSUME ControlPanel
      PROVE  RestOK'
  <2>1. /\ UNCHANGED <<stored, outcome>>
        /\ lived' = [g \in Callers |-> IF pc[g] = "Idle" THEN lived[g]
                                     ELSE LivedWith(lived[g], pcb')]
    BY <1>3 DEF ControlPanel, SetNormalMode, SetOfflineMode, SetLiveOnlyMode,
       SetReadOnlyMode, SetRequestMatchers, SetRecordingMutators,
       SetReplayingMutators, Setting, cassetteVars
  <2>2. pcb' \in PCB
    BY <1>3, <1>t DEF ControlPanel, SetNormalMode, SetOfflineMode,
       SetLiveOnlyMode, SetReadOnlyMode, SetRequestMatchers,
       SetRecordingMutators, SetReplayingMutators, Setting, PCB, Modes
  <2>3. \A past \in Lived : LivedWith(past, pcb') \in Lived
    BY <2>2 DEF Lived, LivedWith, PCB
  <2> QED
    BY <2>1, <2>2, <2>3, <1>t DEF RestOK
<1>4. CASE UNCHANGED vars
  BY <1>4, <1>t DEF vars, RestOK
<1> QED
  BY <1>1, <1>2, <1>3, <1>4 DEF Next, Serve

LEMMA TypeStep ==
  ASSUME Inv, [Next]_vars
  PROVE  TypeOK'
<1>1. tracksLoaded' \in Nat /\ tracks' \in Seq(Track)
  BY CassetteStep DEF Inv, TypeOK
<1> QED
  BY <1>1, LocalsStep, RestStep DEF TypeOK, LocalsOK, RestOK

LEMMA RecordedStep ==
  ASSUME Inv, [Next]_vars
  PROVE  RecordedAreUsed'
<1>1. /\ tracks \in Seq(Track) /\ Len(tracks) \in Nat
      /\ tracks' \in Seq(Track) /\ Len(tracks') \in Nat
      /\ tracksLoaded \in Nat
      /\ tracksLoaded' = tracksLoaded
      /\ Grows(tracks, tracks')
  BY CassetteStep, LenProperties DEF Inv, TypeOK
<1> QED
  BY <1>1 DEF Inv, RecordedAreUsed, Grows

(***************************************************************************)
(* What a goroutine knows                                                  *)
(***************************************************************************)

\* Tracks that cannot answer a request never can again, nor can tracks added
\* behind the n-th if all the loaded ones are before it.
LEMMA StaysExhausted ==
  ASSUME Inv, [Next]_vars, NEW g \in Callers,
         pcb'.requestMatchers = pcb.requestMatchers,
         call'[g].request = call[g].request,
         NEW n \in Nat, n <= Len(tracks) + 1, Exhausted(g, n)
  PROVE  /\ Exhausted(g, n)'
         /\ n > tracksLoaded => Exhausted(g, Len(tracks) + 1)'
<1>1. /\ Len(tracks) \in Nat /\ Len(tracks') \in Nat /\ tracksLoaded \in Nat
      /\ tracksLoaded <= Len(tracks)
      /\ Len(tracks) <= Len(tracks')
  BY CassetteStep, LenProperties DEF Inv, TypeOK, RecordedAreUsed, Grows
<1>2. \A i \in 1..Len(tracks) :
        /\ tracks'[i].request = tracks[i].request
        /\ tracks[i].replayed => tracks'[i].replayed
  BY CassetteStep DEF Grows
<1>3. \A i \in (tracksLoaded + 1)..Len(tracks') : tracks'[i].replayed
  BY RecordedStep, CassetteStep DEF RecordedAreUsed
<1>4. \A i \in 1..(n - 1) :
        tracks'[i].replayed \/ <<call'[g].request, tracks'[i].request>> \notin pcb'.requestMatchers
  BY <1>1, <1>2 DEF Exhausted, Matches
<1> QED
  BY <1>1, <1>3, <1>4 DEF Exhausted, Matches

\* A goroutine that does not move keeps what it knows, whatever the others do
\* and whatever becomes of the settings, which its history takes down.
LEMMA CallKept ==
  ASSUME Inv, [Next]_vars, NEW h \in Callers,
         pc'[h] = pc[h], call'[h] = call[h],
         \/ lived'[h] = lived[h] /\ pcb' = pcb
         \/ pc[h] = "Idle"
         \/ lived'[h] = LivedWith(lived[h], pcb')
  PROVE  CallInv(h)'
<1>1. CallInv(h)
  BY DEF Inv
<1>2. /\ Len(tracks) \in Nat /\ Len(tracks') \in Nat /\ tracksLoaded \in Nat
      /\ tracksLoaded' = tracksLoaded
      /\ tracksLoaded <= Len(tracks)
      /\ Len(tracks) <= Len(tracks')
      /\ call[h].trackNumber \in Nat /\ call[h].numberOfTracks \in Nat
  BY CassetteStep, LenProperties DEF Inv, TypeOK, RecordedAreUsed, Grows, Call
<1>i. CASE pc[h] = "Idle"
  BY <1>i DEF CallInv, RequestInv, ScanInv, CopyInv, ReplayInv, LivedInv,
     OrderInv, MissInv, ModeInv, Scanning, Replays, Records
<1>l. ASSUME pc[h] # "Idle"
      PROVE  /\ LivedInv(h)'
             /\ lived[h].httpMode \subseteq lived'[h].httpMode
             /\ lived[h].readOnly \subseteq lived'[h].readOnly
             /\ SameMatchers(h)' => /\ SameMatchers(h)
                                    /\ pcb'.requestMatchers = pcb.requestMatchers
  BY <1>1, <1>l DEF CallInv, LivedInv, LivedWith, SameMatchers
<1>3. RequestInv(h)'
  BY <1>1 DEF CallInv, RequestInv
<1>4. ScanInv(h)'
  BY <1>1, <1>2 DEF CallInv, ScanInv
<1>5. CopyInv(h)'
  <2>1. pc[h] = "Match" => call[h].trackNumber \in 1..Len(tracks)
    BY <1>1, <1>2 DEF CallInv, ScanInv, Scanning
  <2> QED
    BY <1>1, <1>2, <2>1, CassetteStep DEF CallInv, CopyInv, Grows
<1>6. ReplayInv(h)'
  BY <1>1, <1>2 DEF CallInv, ReplayInv
<1>7. OrderInv(h)'
  <2> SUFFICES ASSUME SameMatchers(h)', pc[h] \in Scanning \cup {"ReplayTrack"}
               PROVE  Exhausted(h, call[h].trackNumber)'
    BY DEF OrderInv
  <2>1. call[h].trackNumber <= Len(tracks) + 1
    BY <1>1, <1>2 DEF CallInv, ScanInv, ReplayInv, Scanning, Replays
  <2>2. /\ Exhausted(h, call[h].trackNumber)
        /\ pcb'.requestMatchers = pcb.requestMatchers
    BY <1>1, <1>l DEF CallInv, OrderInv, Scanning
  <2> DEFINE n == call[h].trackNumber
  <2>3. n \in Nat /\ n' = n
    BY <1>2
  <2> QED
    BY <1>2, <2>1, <2>2, StaysExhausted DEF Exhausted
<1>8. MissInv(h)'
  <2> SUFFICES ASSUME SameMatchers(h)', pc[h] = "CheckOffline",
                      "LiveOnly" \notin lived'[h].httpMode
               PROVE  Exhausted(h, Len(tracks) + 1)'
    BY DEF MissInv
  <2> DEFINE n == Len(tracks) + 1
  <2>1. n \in Nat /\ n <= Len(tracks) + 1 /\ n > tracksLoaded
    BY <1>2
  <2>2. Exhausted(h, n) /\ pcb'.requestMatchers = pcb.requestMatchers
    BY <1>1, <1>l DEF CallInv, MissInv
  <2> HIDE DEF n
  <2> QED
    BY <2>1, <2>2, StaysExhausted
<1>9. ASSUME pc[h] # "Idle"
      PROVE  ModeInv(h)'
  BY <1>1, <1>l, <1>9 DEF CallInv, LivedInv, ModeInv
<1> QED
  BY <1>i, <1>l, <1>3, <1>4, <1>5, <1>6, <1>7, <1>8, <1>9 DEF CallInv

\* A goroutine that takes a step knows what it has just learnt.
LEMMA CallMoved ==
  ASSUME Inv, [Next]_vars, NEW g \in Callers, Proceed(g)
  PROVE  CallInv(g)'
<1>1. CallInv(g)
  BY DEF Inv
<1>2. /\ tracks \in Seq(Track)
      /\ Len(tracks) \in Nat /\ Len(tracks') \in Nat /\ tracksLoaded \in Nat
      /\ tracksLoaded' = tracksLoaded
      /\ tracksLoaded <= Len(tracks)
      /\ Len(tracks) <= Len(tracks')
      /\ call[g].trackNumber \in Nat /\ call[g].numberOfTracks \in Nat
      /\ call[g] \in Call
      /\ pc \in [Callers -> Locations] /\ call \in [Callers -> Call]
  BY CassetteStep, LenProperties DEF Inv, TypeOK, RecordedAreUsed, Grows, Call
<1>3. pcb' = pcb /\ pc[g] # "Idle" /\ (pc'[g] = "Idle" \/ lived' = lived)
  BY <1>2 DEF Proceed, SeekTrack, NumberOfTracks, ReadTrack, Match, NoMatch,
     ReplayTrack, InjectRequest, MutateReplaying, ToHTTPResponse, Refuse,
     GoLive, Transport, SkipRecording, StartRecording, MutateRecording,
     AddTrack, Save, SaveFails, Return, Goto, cassetteVars
<1>4. CASE pc'[g] = "Idle"
  BY <1>4
     DEF CallInv, LivedInv, RequestInv, ScanInv, CopyInv, ReplayInv, OrderInv,
     MissInv, ModeInv, Scanning, Replays, Records
<1>l. ASSUME pc'[g] # "Idle"
      PROVE  /\ lived' = lived /\ LivedInv(g) /\ LivedInv(g)'
             /\ SameMatchers(g)' <=> SameMatchers(g)
  BY <1>1, <1>3, <1>l DEF CallInv, LivedInv, SameMatchers
<1>5. CASE SeekTrack(g)
  <2>1. pc[g] = "SeekTrack" /\ call' = call
    BY <1>5 DEF SeekTrack, Goto
  <2>2. \/ pc'[g] = "NumberOfTracks" /\ pcb.httpMode # "LiveOnly"
        \/ pc'[g] = "CheckOffline" /\ pcb.httpMode = "LiveOnly"
    BY <1>5, <1>2 DEF SeekTrack, Goto, Seeks
  <2> QED
    BY <1>1, <1>3, <1>l, <2>1, <2>2
       DEF CallInv, LivedInv, RequestInv, ScanInv, CopyInv,
       ReplayInv, OrderInv, MissInv, ModeInv, Scanning, Replays, Records
<1>6. CASE NumberOfTracks(g)
  <2>1. pc[g] = "NumberOfTracks" /\ tracks' = tracks
    BY <1>6 DEF NumberOfTracks, Goto, cassetteVars
  <2>2. CASE tracks = <<>>
    <3>1. pc'[g] = "CheckOffline" /\ call' = call
      BY <1>6, <1>2, <2>2 DEF NumberOfTracks, Goto
    <3>2. Exhausted(g, Len(tracks) + 1)'
      BY <2>1, <2>2 DEF Exhausted
    <3> QED
      BY <1>1, <1>3, <1>l, <2>1, <3>1, <3>2
         DEF CallInv, LivedInv, RequestInv, ScanInv,
         CopyInv, ReplayInv, OrderInv, MissInv, ModeInv, Scanning, Replays,
         Records
  <2>3. CASE tracks # <<>>
    <3>1. /\ pc'[g] = "Track"
          /\ call'[g].request = call[g].request
          /\ call'[g].numberOfTracks = Len(tracks)
          /\ call'[g].trackNumber = 1
      BY <1>6, <1>2, <2>3 DEF NumberOfTracks, Goto, FirstTrack, Call
    <3>2. Len(tracks) \in 1..Len(tracks)
      BY <1>2, <2>3, EmptySeq
    <3>3. ScanInv(g)'
      BY <1>2, <2>1, <3>1, <3>2 DEF ScanInv
    <3>4. Exhausted(g, call[g].trackNumber)'
      BY <3>1 DEF Exhausted
    <3> QED
      BY <1>1, <1>3, <1>l, <2>1, <3>1, <3>3, <3>4
         DEF CallInv, LivedInv, RequestInv, CopyInv,
         ReplayInv, OrderInv, MissInv, ModeInv, Scanning, Replays, Records
  <2> QED
    BY <2>2, <2>3
<1>7. CASE ReadTrack(g)
  <2> DEFINE n == call[g].trackNumber
  <2>1. pc[g] = "Track" /\ pc'[g] = "Match" /\ tracks' = tracks
    BY <1>7, <1>2 DEF ReadTrack, Goto, cassetteVars
  <2>2. /\ call'[g].request = call[g].request
        /\ call'[g].numberOfTracks = call[g].numberOfTracks
        /\ call'[g].trackNumber = n
        /\ call'[g].trk = tracks[n]
    BY <1>7, <1>2 DEF ReadTrack, Call
  <2>3. n \in 1..call[g].numberOfTracks /\ call[g].numberOfTracks \in tracksLoaded..Len(tracks)
    BY <1>1, <2>1 DEF CallInv, ScanInv, Scanning
  <2>4. CopyInv(g)'
    <3>1. n \in 1..Len(tracks)
      BY <1>2, <2>3
    <3>2. tracks[n] \in Track
      BY <1>2, <3>1, ElementOfSeq
    <3>3. n > tracksLoaded => tracks[n].replayed
      BY <1>2, <3>1 DEF Inv, RecordedAreUsed
    <3> QED
      BY <1>2, <2>1, <2>2, <3>2, <3>3 DEF CopyInv
  <2>5. SameMatchers(g) => Exhausted(g, n)
    BY <1>1, <2>1 DEF CallInv, OrderInv, Scanning
  <2>6. OrderInv(g)'
    BY <1>3, <1>l, <2>1, <2>2, <2>5 DEF OrderInv, Exhausted, Matches
  <2> QED
    BY <1>1, <1>2, <1>3, <1>l, <2>1, <2>2, <2>3, <2>4, <2>6 DEF CallInv, RequestInv,
       ScanInv, ReplayInv, MissInv, ModeInv, Scanning, Replays, Records
<1>8. CASE Match(g)
  <2> DEFINE n == call[g].trackNumber
  <2>1. pc[g] = "Match" /\ pc'[g] = "ReplayTrack" /\ tracks' = tracks
    BY <1>8, <1>2 DEF Match, Goto, cassetteVars
  <2>2. call'[g].request = call[g].request /\ call'[g].trackNumber = n
    BY <1>8, <1>2 DEF Match, Fresh
  <2>3. ~call[g].trk.replayed
    BY <1>8 DEF Match, Found
  <2>4. n \in 1..tracksLoaded
    BY <1>1, <1>2, <2>1, <2>3 DEF CallInv, CopyInv, ScanInv, Scanning
  <2>5. SameMatchers(g) => Exhausted(g, n)
    BY <1>1, <2>1 DEF CallInv, OrderInv, Scanning
  <2>6. OrderInv(g)'
    BY <1>3, <1>l, <2>1, <2>2, <2>5 DEF OrderInv, Exhausted, Matches
  <2> QED
    BY <1>1, <1>2, <1>3, <1>l, <2>1, <2>2, <2>4, <2>6 DEF CallInv, RequestInv,
       ScanInv, CopyInv, ReplayInv, MissInv, ModeInv, Scanning, Replays, Records
<1>9. CASE NoMatch(g)
  <2> DEFINE n == call[g].trackNumber
  <2>1. pc[g] = "Match" /\ tracks' = tracks /\ ~Found(call[g])
    BY <1>9 DEF NoMatch, cassetteVars
  <2>2. n \in 1..call[g].numberOfTracks /\ call[g].numberOfTracks \in tracksLoaded..Len(tracks)
    BY <1>1, <2>1 DEF CallInv, ScanInv, Scanning
  <2>3. tracks[n].replayed \/ ~Matches(call[g].request, tracks[n])
    BY <1>1, <2>1 DEF CallInv, CopyInv, Found, Matches
  <2>4. SameMatchers(g) => Exhausted(g, n)
    BY <1>1, <2>1 DEF CallInv, OrderInv, Scanning
  <2>5. SameMatchers(g) => Exhausted(g, n + 1)
    BY <1>2, <2>2, <2>3, <2>4 DEF Exhausted
  <2>6. CASE More(call[g])
    <3>1. /\ pc'[g] = "Track"
          /\ call'[g].request = call[g].request
          /\ call'[g].numberOfTracks = call[g].numberOfTracks
          /\ call'[g].trackNumber = n + 1
      BY <1>9, <1>2, <2>6 DEF NoMatch, Goto, NextTrack, Call
    <3>2. n + 1 \in 1..call[g].numberOfTracks
      BY <1>2, <2>2, <2>6 DEF More
    <3>3. OrderInv(g)'
      BY <1>3, <1>l, <2>1, <2>5, <3>1 DEF OrderInv, Exhausted, Matches
    <3> QED
      BY <1>1, <1>2, <1>3, <1>l, <2>1, <2>2, <3>1, <3>2, <3>3 DEF CallInv, RequestInv,
         ScanInv, CopyInv, ReplayInv, MissInv, ModeInv, Scanning, Replays,
         Records
  <2>7. CASE ~More(call[g])
    <3>1. pc'[g] = "CheckOffline" /\ call'[g].request = call[g].request
      BY <1>9, <1>2, <2>7 DEF NoMatch, Goto, Fresh
    <3>2. n + 1 \in Nat /\ n + 1 <= Len(tracks) + 1 /\ n + 1 > tracksLoaded
      BY <1>2, <2>2, <2>7 DEF More
    <3>3. SameMatchers(g) => Exhausted(g, Len(tracks) + 1)'
      BY <1>3, <1>l, <2>5, <3>1, <3>2, StaysExhausted
    <3> QED
      BY <1>1, <1>3, <1>l, <2>1, <3>1, <3>3
         DEF CallInv, LivedInv, RequestInv, ScanInv, CopyInv,
         ReplayInv, OrderInv, MissInv, ModeInv, Scanning, Replays, Records
  <2> QED
    BY <2>6, <2>7
<1>10. CASE ReplayTrack(g) \/ InjectRequest(g) \/ MutateReplaying(g)
  <2>1. /\ pc[g] \in Replays
        /\ pc'[g] \in Replays \ {"ReplayTrack"}
        /\ call' = call
    BY <1>10, <1>2 DEF ReplayTrack, InjectRequest, MutateReplaying, Goto, Replays
  <2> QED
    BY <1>1, <1>2, <1>3, <1>l, <2>1
       DEF CallInv, LivedInv, RequestInv, ScanInv, CopyInv,
       ReplayInv, OrderInv, MissInv, ModeInv, Scanning, Replays, Records
<1>11. CASE GoLive(g) \/ StartRecording(g) \/ AddTrack(g)
  <2>1. call' = call
    BY <1>11 DEF GoLive, StartRecording, AddTrack
  <2>2. \/ pc[g] = "CheckOffline" /\ pc'[g] = "Transport" /\ pcb.httpMode # "Offline"
        \/ pc[g] = "CheckReadOnly" /\ pc'[g] = "MutateRecording" /\ ~pcb.readOnly
        \/ pc[g] = "AddTrack" /\ pc'[g] = "Save"
    BY <1>11, <1>2 DEF GoLive, StartRecording, AddTrack, Goto, MayGoLive
  <2>r. ~pcb.readOnly => FALSE \in lived[g].readOnly
    <3>1. pcb.readOnly \in BOOLEAN
      BY DEF Inv, TypeOK, PCB
    <3>2. ~pcb.readOnly => pcb.readOnly = FALSE
      BY <3>1
    <3> QED
      BY <1>1, <1>3, <3>2 DEF CallInv, LivedInv
  <2>3. ModeInv(g)' /\ LivedInv(g)'
    BY <1>1, <1>3, <1>l, <2>2, <2>r DEF CallInv, LivedInv, ModeInv, Scanning,
       Replays, Records
  <2>4. RequestInv(g)'
    BY <1>1, <2>1, <2>2 DEF CallInv, RequestInv
  <2> QED
    BY <2>2, <2>3, <2>4 DEF CallInv, ScanInv, CopyInv, ReplayInv, OrderInv,
       MissInv, Scanning, Replays
<1>12. CASE Transport(g)
  <2>1. pc[g] = "Transport" /\ pc'[g] = "CheckReadOnly"
    BY <1>12, <1>2 DEF Transport, Goto
  <2>2. call'[g].request = call[g].request
    BY <1>12, <1>2 DEF Transport, Call
  <2> QED
    BY <1>1, <1>3, <1>l, <2>1, <2>2
       DEF CallInv, LivedInv, RequestInv, ScanInv, CopyInv, ReplayInv,
       OrderInv, MissInv, ModeInv, Scanning, Replays, Records
<1>13. CASE MutateRecording(g)
  <2> DEFINE new == [request |-> call[g].request, response |-> call[g].response,
                     replayed |-> FALSE]
             mutated == Recording[pcb.trackRecordingMutators][new]
  <2>1. pc[g] = "MutateRecording" /\ pc'[g] = "AddTrack"
    BY <1>13, <1>2 DEF MutateRecording, Goto
  <2>2. new \in Track
    BY <1>1, <1>2, <2>1 DEF CallInv, LivedInv, RequestInv, Call, Track
  <2>3. mutated \in Track
    BY <2>2, SettingsAssumption DEF Inv, TypeOK, PCB
  <2>4. call'[g].request = call[g].request /\ call'[g].trk = mutated
    BY <1>13, <1>2 DEF MutateRecording, Call
  <2> HIDE DEF new, mutated
  <2> QED
    BY <1>1, <1>3, <1>l, <2>1, <2>3, <2>4
       DEF CallInv, LivedInv, RequestInv, ScanInv, CopyInv,
       ReplayInv, OrderInv, MissInv, ModeInv, Scanning, Replays, Records
<1>14. CASE ToHTTPResponse(g) \/ Refuse(g) \/ SkipRecording(g) \/ Save(g) \/ SaveFails(g)
  <2>1. pc'[g] = "Idle"
    BY <1>14, <1>2 DEF ToHTTPResponse, Refuse, SkipRecording, Save, SaveFails,
       Return, Goto
  <2> QED
    BY <2>1, <1>4
<1> QED
  BY <1>5, <1>6, <1>7, <1>8, <1>9, <1>10, <1>11, <1>12, <1>13, <1>14 DEF Proceed

(***************************************************************************)
(* The invariant, and what follows from it                                 *)
(***************************************************************************)

LEMMA InitInv == Init => Inv
<1> SUFFICES ASSUME Init PROVE Inv
  OBVIOUS
<1>1. tracks \in Seq(Track) /\ Len(tracks) \in Nat
  BY CassettesAssumption, LenProperties DEF Init
<1>2. TypeOK
  BY <1>1 DEF Init, TypeOK, Fresh, Call, NoOutcome, Outcome, Locations, NotLived, Lived
<1>3. RecordedAreUsed
  BY <1>1 DEF Init, RecordedAreUsed
<1>4. \A g \in Callers : pc[g] = "Idle"
  BY DEF Init
<1>5. \A g \in Callers : CallInv(g)
  BY <1>4
     DEF CallInv, LivedInv, RequestInv, ScanInv, CopyInv, ReplayInv, OrderInv,
     MissInv, ModeInv, Scanning, Replays, Records
<1> QED
  BY <1>2, <1>3, <1>5 DEF Inv

LEMMA NextInv == Inv /\ [Next]_vars => Inv'
<1> SUFFICES ASSUME Inv, [Next]_vars PROVE Inv'
  OBVIOUS
<1>1. TypeOK' /\ RecordedAreUsed'
  BY TypeStep, RecordedStep
<1>2. ASSUME NEW h \in Callers
      PROVE  CallInv(h)'
  <2>t. pc \in [Callers -> Locations] /\ call \in [Callers -> Call]
        /\ lived \in [Callers -> Lived]
    BY DEF Inv, TypeOK
  <2>1. ASSUME NEW g \in Callers, Proceed(g), g # h
        PROVE  CallInv(h)'
    <3>1. pc'[h] = pc[h] /\ call'[h] = call[h] /\ lived'[h] = lived[h] /\ pcb' = pcb
      BY <2>1, <2>t DEF Proceed, SeekTrack, NumberOfTracks, ReadTrack, Match,
         NoMatch, ReplayTrack, InjectRequest, MutateReplaying, ToHTTPResponse,
         Refuse, GoLive, Transport, SkipRecording, StartRecording,
         MutateRecording, AddTrack, Save, SaveFails, Return, Goto, cassetteVars
    <3> QED
      BY <3>1, CallKept
  <2>2. ASSUME Proceed(h)
        PROVE  CallInv(h)'
    BY <2>2, CallMoved
  <2>3. ASSUME NEW g \in Callers, NEW req \in Requests, Begin(g, req)
        PROVE  CallInv(h)'
    <3>1. CASE g = h
      <4>1. /\ pc'[h] = "SeekTrack" /\ call'[h].request = req
            /\ lived'[h] = LivedWith(NotLived, pcb) /\ pcb' = pcb
        BY <2>3, <2>t, <3>1 DEF Begin, Goto, Fresh
      <4> QED
        BY <4>1 DEF CallInv, LivedInv, LivedWith, RequestInv, ScanInv, CopyInv, ReplayInv, OrderInv,
           MissInv, ModeInv, Scanning, Replays, Records
    <3>2. CASE g # h
      <4>1. pc'[h] = pc[h] /\ call'[h] = call[h] /\ lived'[h] = lived[h] /\ pcb' = pcb
        BY <2>3, <2>t, <3>2 DEF Begin, Goto
      <4> QED
        BY <4>1, CallKept
    <3> QED
      BY <3>1, <3>2
  <2>4. ASSUME ControlPanel
        PROVE  CallInv(h)'
    <3>1. /\ pc' = pc /\ call' = call
          /\ pc[h] = "Idle" \/ lived'[h] = LivedWith(lived[h], pcb')
      BY <2>4 DEF ControlPanel, SetNormalMode, SetOfflineMode, SetLiveOnlyMode,
         SetReadOnlyMode, SetRequestMatchers, SetRecordingMutators,
         SetReplayingMutators, Setting
    <3> QED
      BY <3>1, CallKept
  <2>5. CASE UNCHANGED vars
    BY <2>5, CallKept DEF vars
  <2> QED
    BY <2>1, <2>2, <2>3, <2>4, <2>5 DEF Next, Serve
<1> QED
  BY <1>1, <1>2 DEF Inv

\* The invariant holds for every number of goroutines and tracks.
THEOREM Invariance == Spec => []Inv
BY InitInv, NextInv, PTL DEF Spec

\* All state keeps its type, whatever is done in whatever order.
THEOREM TypeCorrect == Spec => []TypeOK
<1>1. Inv => TypeOK
  BY DEF Inv
<1> QED
  BY <1>1, Invariance, PTL

\* No track number is ever out of range, and a scan ends where the cassette
\* ended when it began.
THEOREM InBounds == Spec => []SeekInBounds
<1>1. Inv => SeekInBounds
  <2> SUFFICES ASSUME Inv, NEW g \in Callers
               PROVE  /\ pc[g] \in Scanning =>
                           /\ call[g].trackNumber \in 1..call[g].numberOfTracks
                           /\ call[g].numberOfTracks <= Len(tracks)
                      /\ pc[g] \in Replays => call[g].trackNumber \in DOMAIN tracks
    BY DEF SeekInBounds
  <2>1. /\ Len(tracks) \in Nat /\ DOMAIN tracks = 1..Len(tracks)
        /\ tracksLoaded \in Nat /\ tracksLoaded <= Len(tracks)
        /\ call[g].trackNumber \in Nat /\ call[g].numberOfTracks \in Nat
    BY LenProperties DEF Inv, TypeOK, RecordedAreUsed, Call
  <2> QED
    BY <2>1 DEF Inv, CallInv, ScanInv, ReplayInv
<1> QED
  BY <1>1, Invariance, PTL

\* What this session recorded is never replayed in it.
THEOREM LoadedOnly == Spec => []OnlyLoadedTracksReplay
<1>1. Inv => OnlyLoadedTracksReplay
  BY DEF Inv, CallInv, ReplayInv, OnlyLoadedTracksReplay, TypeOK
<1> QED
  BY <1>1, Invariance, PTL

\* Tracks are played in the order of the cassette, whatever becomes of the mode.
THEOREM InOrder == Spec => []PlaybackInOrder
<1>1. Inv => PlaybackInOrder
  BY DEF Inv, CallInv, OrderInv, Exhausted, PlaybackInOrder
<1> QED
  BY <1>1, Invariance, PTL

\* A request goes live, or is refused, only when no track could answer it.
THEOREM MissesAreJustified == Spec => []MissIsJustified
<1>1. Inv => MissIsJustified
  <2> SUFFICES ASSUME Inv, NEW g \in Callers, SameMatchers(g),
                      pc[g] = "CheckOffline", "LiveOnly" \notin lived[g].httpMode,
                      NEW i \in DOMAIN tracks
               PROVE  tracks[i].replayed \/ ~Matches(call[g].request, tracks[i])
    BY DEF MissIsJustified
  <2>1. Exhausted(g, Len(tracks) + 1)
    BY DEF Inv, CallInv, MissInv
  <2>2. Len(tracks) \in Nat /\ i \in 1..Len(tracks)
    BY LenProperties DEF Inv, TypeOK
  <2> QED
    BY <2>1, <2>2 DEF Exhausted
<1> QED
  BY <1>1, Invariance, PTL

\* What a call does is allowed by a setting that was in force during it.
THEOREM SettingsAreRespected == Spec => []SettingsRespected
<1>1. Inv => SettingsRespected
  BY DEF Inv, CallInv, ModeInv, SettingsRespected
<1> QED
  BY <1>1, Invariance, PTL

(***************************************************************************)
(* The cassette file                                                       *)
(*                                                                         *)
(* The argument: only tracks that were loaded are ever replayed, and only  *)
(* a replay writes to a track, so a recorded track is as it was recorded   *)
(* for good.  Every save writes all of them, so what is recorded is on the *)
(* file when its client has its answer, and stays there.                   *)
(***************************************************************************)

RecordedTracks == (tracksLoaded + 1)..Len(tracks)

\* A readable file holds the requests of the first tracks, all those that were
\* loaded among them, and the recorded tracks as they are.
FileInv ==
  stored # Unreadable =>
    /\ Len(stored) \in tracksLoaded..Len(tracks)
    /\ \A i \in 1..Len(stored) :
         /\ stored[i].request = tracks[i].request
         /\ i > tracksLoaded => stored[i] = OnDisk(tracks[i])

\* A call that is about to save has its track among the recorded ones.
SaveInv(g) ==
  pc[g] = "Save" =>
    \E i \in RecordedTracks : OnDisk(tracks[i]) = OnDisk(call[g].trk)

\* A recording that was answered is in memory, and on the file if it can be
\* read.
AnsweredInv(g) ==
  outcome[g].kind = "Recorded" =>
    \E i \in RecordedTracks :
      /\ OnDisk(tracks[i]) = outcome[g].recorded
      /\ stored # Unreadable => i <= Len(stored)

RecordingInv ==
  /\ Inv /\ FileInv
  /\ \A g \in Callers : SaveInv(g) /\ AnsweredInv(g)

\* Replaying mutators that leave alone what is saved of a response.
MutatorsKeepHeaders ==
  \A ms \in ReplayingMutators : \A resp \in Response :
    Replaying[ms][resp].header = resp.header

\* With those, a readable file holds the first tracks as they are.
UntouchedInv ==
  stored # Unreadable =>
    \A i \in 1..Len(stored) : stored[i] = OnDisk(tracks[i])

(***************************************************************************)
(* What a step does to recorded tracks and to the file                     *)
(***************************************************************************)

\* A recorded track stays where it is, as it is.
LEMMA RecordedStay ==
  ASSUME Inv, [Next]_vars
  PROVE  \A i \in RecordedTracks : i \in RecordedTracks' /\ tracks'[i] = tracks[i]
<1>t. /\ tracks \in Seq(Track) /\ Len(tracks) \in Nat /\ DOMAIN tracks = 1..Len(tracks)
      /\ tracks' \in Seq(Track) /\ Len(tracks') \in Nat
      /\ tracksLoaded \in Nat /\ tracksLoaded' = tracksLoaded
      /\ tracksLoaded <= Len(tracks) /\ Len(tracks) <= Len(tracks')
  BY CassetteStep, LenProperties DEF Inv, TypeOK, RecordedAreUsed, Grows
<1> SUFFICES ASSUME NEW i \in RecordedTracks
             PROVE  tracks'[i] = tracks[i]
  BY <1>t DEF RecordedTracks
<1>i. i \in 1..Len(tracks) /\ i > tracksLoaded
  BY <1>t DEF RecordedTracks
<1>1. ASSUME NEW g \in Callers, ReplayTrack(g) \/ InjectRequest(g) \/ MutateReplaying(g)
      PROVE  tracks'[i] = tracks[i]
  <2>1. call[g].trackNumber \in 1..tracksLoaded
    BY <1>1 DEF ReplayTrack, InjectRequest, MutateReplaying, Goto, Replays,
       Inv, CallInv, ReplayInv
  <2>2. call[g].trackNumber # i
    BY <2>1, <1>i, <1>t
  <2> QED
    BY <1>1, <2>2, <1>i, <1>t DEF ReplayTrack, InjectRequest, MutateReplaying
<1>2. ASSUME NEW g \in Callers, AddTrack(g)
      PROVE  tracks'[i] = tracks[i]
  <2>1. AsUsed(call[g].trk) \in Track
    BY <1>2 DEF AddTrack, Goto, Inv, CallInv, RequestInv, AsUsed, Track
  <2> QED
    BY <1>2, <2>1, <1>i, <1>t, AppendProperties DEF AddTrack
<1>3. ASSUME NEW g \in Callers, Proceed(g)
      PROVE  tracks'[i] = tracks[i]
  BY <1>1, <1>2, <1>3
     DEF Proceed, SeekTrack, NumberOfTracks, ReadTrack, Match, NoMatch,
         ToHTTPResponse, Refuse, GoLive, Transport, SkipRecording,
         StartRecording, MutateRecording, Save, SaveFails, cassetteVars
<1>4. ASSUME NEW g \in Callers, NEW req \in Requests, Begin(g, req)
      PROVE  tracks' = tracks
  BY <1>4 DEF Begin, cassetteVars
<1>5. CASE ControlPanel
  BY <1>5 DEF ControlPanel, SetNormalMode, SetOfflineMode, SetLiveOnlyMode,
     SetReadOnlyMode, SetRequestMatchers, SetRecordingMutators,
     SetReplayingMutators, Setting, cassetteVars
<1>6. CASE UNCHANGED vars
  BY <1>6 DEF vars
<1> QED
  BY <1>3, <1>4, <1>5, <1>6 DEF Next, Serve

\* Only the two ways to end a save touch the file.
LEMMA StoredStep ==
  ASSUME [Next]_vars
  PROVE  \/ stored' \in {stored, Unreadable}
         \/ \E g \in Callers : Save(g)
<1>1. ASSUME NEW g \in Callers, Proceed(g), ~Save(g)
      PROVE  stored' \in {stored, Unreadable}
  BY <1>1 DEF Proceed, SeekTrack, NumberOfTracks, ReadTrack, Match, NoMatch,
     ReplayTrack, InjectRequest, MutateReplaying, ToHTTPResponse, Refuse,
     GoLive, Transport, SkipRecording, StartRecording, MutateRecording,
     AddTrack, SaveFails, cassetteVars
<1>2. ASSUME NEW g \in Callers, NEW req \in Requests, Begin(g, req)
      PROVE  stored' = stored
  BY <1>2 DEF Begin, cassetteVars
<1>3. CASE ControlPanel
  BY <1>3 DEF ControlPanel, SetNormalMode, SetOfflineMode, SetLiveOnlyMode,
     SetReadOnlyMode, SetRequestMatchers, SetRecordingMutators,
     SetReplayingMutators, Setting, cassetteVars
<1>4. CASE UNCHANGED vars
  BY <1>4 DEF vars
<1> QED
  BY <1>1, <1>2, <1>3, <1>4 DEF Next, Serve

\* What a save writes, track by track.
LEMMA SavedContent ==
  ASSUME Inv, NEW g \in Callers, Save(g)
  PROVE  /\ tracks' = tracks
         /\ Len(stored') = Len(tracks)
         /\ \A i \in 1..Len(tracks) : stored'[i] = OnDisk(tracks[i])
<1>1. Len(tracks) \in Nat
  BY LenProperties DEF Inv, TypeOK
<1>2. tracks' = tracks /\ stored' = [i \in 1..Len(tracks) |-> OnDisk(tracks[i])]
  BY DEF Save, Content
<1>3. Len(stored') = Len(tracks)
  BY <1>1, <1>2
<1> QED
  BY <1>2, <1>3

\* The file stays a prefix of the cassette in memory.
LEMMA FileStep ==
  ASSUME Inv, FileInv, [Next]_vars
  PROVE  FileInv'
<1>t. /\ Len(tracks) \in Nat /\ Len(tracks') \in Nat
      /\ tracksLoaded \in Nat /\ tracksLoaded' = tracksLoaded
      /\ tracksLoaded <= Len(tracks) /\ Len(tracks) <= Len(tracks')
      /\ \A i \in 1..Len(tracks) : tracks'[i].request = tracks[i].request
  BY CassetteStep, LenProperties DEF Inv, TypeOK, RecordedAreUsed, Grows
<1>1. CASE stored' = Unreadable
  BY <1>1 DEF FileInv
<1>2. CASE stored' = stored
  <2>1. \A i \in (tracksLoaded + 1)..Len(tracks) : tracks'[i] = tracks[i]
    BY RecordedStay DEF RecordedTracks
  <2>2. SUFFICES ASSUME stored # Unreadable
                 PROVE  /\ Len(stored) \in tracksLoaded..Len(tracks')
                        /\ \A i \in 1..Len(stored) :
                             /\ stored[i].request = tracks'[i].request
                             /\ i > tracksLoaded => stored[i] = OnDisk(tracks'[i])
    BY <1>2, <1>t DEF FileInv
  <2>3. Len(stored) \in tracksLoaded..Len(tracks)
    BY <2>2 DEF FileInv
  <2> QED
    BY <2>1, <2>2, <2>3, <1>t DEF FileInv
<1>3. ASSUME NEW g \in Callers, Save(g)
      PROVE  FileInv'
  <2>1. \A i \in 1..Len(tracks) : OnDisk(tracks[i]).request = tracks[i].request
    BY DEF OnDisk
  <2> QED
    BY <1>3, <1>t, <2>1, SavedContent DEF FileInv
<1> QED
  BY <1>1, <1>2, <1>3, StoredStep

\* A track that waits to be saved is not lost from the cassette meanwhile.
LEMMA SaveStep ==
  ASSUME RecordingInv, [Next]_vars, NEW h \in Callers
  PROVE  SaveInv(h)'
<1> USE DEF RecordingInv
<1>t. /\ tracks \in Seq(Track) /\ Len(tracks) \in Nat
      /\ tracksLoaded \in Nat /\ tracksLoaded' = tracksLoaded
      /\ tracksLoaded <= Len(tracks)
      /\ pc \in [Callers -> Locations] /\ call \in [Callers -> Call]
  BY CassetteStep, LenProperties DEF Inv, TypeOK, RecordedAreUsed
<1> SUFFICES ASSUME pc'[h] = "Save"
             PROVE  \E i \in RecordedTracks' : OnDisk(tracks'[i]) = OnDisk(call'[h].trk)
  BY DEF SaveInv
<1>1. CASE pc[h] = "Save" /\ call'[h] = call[h]
  <2>1. PICK i \in RecordedTracks : OnDisk(tracks[i]) = OnDisk(call[h].trk)
    BY <1>1 DEF SaveInv
  <2> QED
    BY <1>1, <2>1, RecordedStay
<1>2. CASE AddTrack(h)
  <2> DEFINE trk == AsUsed(call[h].trk)
  <2>1. trk \in Track /\ OnDisk(trk) = OnDisk(call[h].trk)
    BY <1>2 DEF AddTrack, Goto, Inv, CallInv, RequestInv, AsUsed, Track, OnDisk
  <2>2. tracks' = Append(tracks, trk) /\ call' = call
    BY <1>2 DEF AddTrack
  <2> HIDE DEF trk
  <2>3. Len(tracks') = Len(tracks) + 1 /\ tracks'[Len(tracks) + 1] = trk
    BY <2>1, <2>2, <1>t, AppendProperties
  <2>4. Len(tracks) + 1 \in RecordedTracks'
    BY <2>3, <1>t DEF RecordedTracks
  <2> QED
    BY <2>1, <2>2, <2>3, <2>4
<1>3. ASSUME NEW g \in Callers, Proceed(g)
      PROVE  \/ pc[h] = "Save" /\ call'[h] = call[h]
             \/ AddTrack(h)
  <2>1. CASE g = h
    BY <2>1, <1>3, <1>t DEF Proceed, SeekTrack, NumberOfTracks, ReadTrack,
       Match, NoMatch, ReplayTrack, InjectRequest, MutateReplaying,
       ToHTTPResponse, Refuse, GoLive, Transport, SkipRecording,
       StartRecording, MutateRecording, Save, SaveFails, Return, Goto
  <2>2. CASE g # h
    BY <2>2, <1>3, <1>t DEF Proceed, SeekTrack, NumberOfTracks, ReadTrack,
       Match, NoMatch, ReplayTrack, InjectRequest, MutateReplaying,
       ToHTTPResponse, Refuse, GoLive, Transport, SkipRecording,
       StartRecording, MutateRecording, AddTrack, Save, SaveFails, Return, Goto
  <2> QED
    BY <2>1, <2>2
<1>4. ASSUME NEW g \in Callers, NEW req \in Requests, Begin(g, req)
      PROVE  pc[h] = "Save" /\ call'[h] = call[h]
  BY <1>4, <1>t DEF Begin, Goto
<1>5. ASSUME ControlPanel \/ UNCHANGED vars
      PROVE  pc[h] = "Save" /\ call'[h] = call[h]
  BY <1>5 DEF ControlPanel, SetNormalMode, SetOfflineMode, SetLiveOnlyMode,
     SetReadOnlyMode, SetRequestMatchers, SetRecordingMutators,
     SetReplayingMutators, Setting, vars
<1> QED
  BY <1>1, <1>2, <1>3, <1>4, <1>5 DEF Next, Serve

\* A recording that was answered stays in memory and, if it can be read, on
\* the file.
LEMMA AnsweredStep ==
  ASSUME RecordingInv, [Next]_vars, NEW h \in Callers
  PROVE  AnsweredInv(h)'
<1> USE DEF RecordingInv
<1>t. /\ Len(tracks) \in Nat /\ tracksLoaded \in Nat
      /\ outcome \in [Callers -> Outcome]
  BY LenProperties DEF Inv, TypeOK
<1> SUFFICES ASSUME outcome'[h].kind = "Recorded"
             PROVE  \E i \in RecordedTracks' :
                      /\ OnDisk(tracks'[i]) = outcome'[h].recorded
                      /\ stored' # Unreadable => i <= Len(stored')
  BY DEF AnsweredInv
<1>1. CASE outcome'[h] = outcome[h]
  <2>1. PICK i \in RecordedTracks :
               /\ OnDisk(tracks[i]) = outcome[h].recorded
               /\ stored # Unreadable => i <= Len(stored)
    BY <1>1 DEF AnsweredInv
  <2>2. i \in RecordedTracks' /\ tracks'[i] = tracks[i] /\ i <= Len(tracks)
    BY <2>1, <1>t, RecordedStay DEF RecordedTracks
  <2>3. stored' # Unreadable => i <= Len(stored')
    <3>1. CASE stored' \in {stored, Unreadable}
      BY <2>1, <3>1
    <3>2. ASSUME NEW g \in Callers, Save(g)
          PROVE  i <= Len(stored')
      BY <2>2, <3>2, SavedContent
    <3> QED
      BY <3>1, <3>2, StoredStep
  <2> QED
    BY <1>1, <2>1, <2>2, <2>3
<1>2. CASE Save(h)
  <2>1. outcome'[h].recorded = OnDisk(call[h].trk) /\ pc[h] = "Save"
    BY <1>2, <1>t DEF Save, Return, Goto
  <2>2. PICK i \in RecordedTracks : OnDisk(tracks[i]) = OnDisk(call[h].trk)
    BY <2>1 DEF SaveInv
  <2>3. i \in RecordedTracks' /\ tracks'[i] = tracks[i] /\ i <= Len(tracks)
    BY <2>2, <1>t, RecordedStay DEF RecordedTracks
  <2>4. i <= Len(stored')
    BY <1>2, <2>3, SavedContent
  <2> QED
    BY <2>1, <2>2, <2>3, <2>4
<1>3. ASSUME NEW g \in Callers, Proceed(g)
      PROVE  outcome'[h] = outcome[h] \/ Save(h)
  <2>1. CASE SeekTrack(g) \/ NumberOfTracks(g) \/ ReadTrack(g) \/ Match(g) \/ NoMatch(g)
    BY <2>1, <1>t DEF SeekTrack, NumberOfTracks, ReadTrack, Match, NoMatch, Return
  <2>2. CASE \/ ReplayTrack(g) \/ InjectRequest(g) \/ MutateReplaying(g)
             \/ ToHTTPResponse(g) \/ Refuse(g)
    BY <2>2, <1>t DEF ReplayTrack, InjectRequest, MutateReplaying, ToHTTPResponse,
       Refuse, Return
  <2>3. CASE \/ GoLive(g) \/ Transport(g) \/ SkipRecording(g) \/ StartRecording(g)
             \/ MutateRecording(g) \/ AddTrack(g) \/ SaveFails(g)
    BY <2>3, <1>t DEF GoLive, Transport, SkipRecording, StartRecording,
       MutateRecording, AddTrack, SaveFails, Return
  <2>4. CASE Save(g)
    BY <2>4, <1>t DEF Save, Return
  <2> QED
    BY <2>1, <2>2, <2>3, <2>4, <1>3 DEF Proceed
<1>4. ASSUME NEW g \in Callers, NEW req \in Requests, Begin(g, req)
      PROVE  outcome'[h] = outcome[h]
  BY <1>4, <1>t DEF Begin, NoOutcome
<1>5. ASSUME ControlPanel \/ UNCHANGED vars
      PROVE  outcome'[h] = outcome[h]
  BY <1>5 DEF ControlPanel, SetNormalMode, SetOfflineMode, SetLiveOnlyMode,
     SetReadOnlyMode, SetRequestMatchers, SetRecordingMutators,
     SetReplayingMutators, Setting, vars
<1> QED
  BY <1>1, <1>2, <1>3, <1>4, <1>5 DEF Next, Serve

(***************************************************************************)
(* What is recorded is stored                                              *)
(***************************************************************************)

\* The invariant of recording holds for every number of goroutines and tracks,
\* and however often a save fails.
THEOREM RecordingInvariance == Spec => []RecordingInv
<1>1. Init => RecordingInv
  <2> SUFFICES ASSUME Init PROVE RecordingInv
    OBVIOUS
  <2>1. Inv /\ Len(tracks) \in Nat
    BY InitInv, LenProperties DEF Inv, TypeOK
  <2>2. FileInv
    BY <2>1 DEF Init, FileInv
  <2>3. \A g \in Callers : SaveInv(g) /\ AnsweredInv(g)
    BY DEF Init, NoOutcome, SaveInv, AnsweredInv
  <2> QED
    BY <2>1, <2>2, <2>3 DEF RecordingInv
<1>2. RecordingInv /\ [Next]_vars => RecordingInv'
  BY NextInv, FileStep, SaveStep, AnsweredStep DEF RecordingInv
<1> QED
  BY <1>1, <1>2, PTL DEF Spec

\* A client that has its recorded answer finds the track on the file, unless a
\* failed save has spoilt the file.
THEOREM RecordingsAreStored == Spec => []RecordedIsStored
<1>1. RecordingInv => RecordedIsStored
  <2> SUFFICES ASSUME RecordingInv, NEW g \in Callers,
                      outcome[g].kind = "Recorded", stored # Unreadable
               PROVE  \E i \in DOMAIN stored : stored[i] = outcome[g].recorded
    BY DEF RecordedIsStored
  <2>t. /\ Len(tracks) \in Nat /\ tracksLoaded \in Nat
        /\ Len(stored) \in Nat /\ DOMAIN stored = 1..Len(stored)
    BY LenProperties DEF RecordingInv, Inv, TypeOK
  <2>1. PICK i \in RecordedTracks :
               OnDisk(tracks[i]) = outcome[g].recorded /\ i <= Len(stored)
    BY DEF RecordingInv, AnsweredInv
  <2>2. i \in 1..Len(stored) /\ i > tracksLoaded
    BY <2>t, <2>1 DEF RecordedTracks
  <2>3. stored[i] = OnDisk(tracks[i])
    BY <2>2 DEF RecordingInv, FileInv
  <2> QED
    BY <2>t, <2>1, <2>2, <2>3
<1> QED
  BY <1>1, RecordingInvariance, PTL

\* No interleaving of recordings and saves loses, duplicates or reorders a
\* track of the file.
THEOREM FileStaysPrefix == Spec => []FileIsPrefix
<1>1. RecordingInv => FileIsPrefix
  <2>1. RecordingInv /\ stored # Unreadable => DOMAIN stored = 1..Len(stored)
    BY LenProperties DEF RecordingInv, Inv, TypeOK
  <2> QED
    BY <2>1 DEF RecordingInv, FileInv, FileIsPrefix
<1> QED
  BY <1>1, RecordingInvariance, PTL

(***************************************************************************)
(* What is stored is kept                                                  *)
(***************************************************************************)

\* A save takes no track off the file, and leaves what was recorded and all
\* requests as they were.
SaveKeepsRecordings ==
  (stored # Unreadable /\ stored' # Unreadable) =>
    \A i \in DOMAIN stored :
      /\ i \in DOMAIN stored'
      /\ stored'[i].request = stored[i].request
      /\ i > tracksLoaded => stored'[i] = stored[i]

\* Whatever the replaying mutators do, a recording on the file is never
\* rewritten: all that a replay can reach there is the response of a track that
\* was loaded.
THEOREM RecordingsAreKept == Spec => [][SaveKeepsRecordings]_stored
<1>1. RecordingInv /\ [Next]_vars => [SaveKeepsRecordings]_stored
  <2> SUFFICES ASSUME RecordingInv, [Next]_vars, stored' # stored,
                      stored # Unreadable, stored' # Unreadable
               PROVE  \A i \in DOMAIN stored :
                        /\ i \in DOMAIN stored'
                        /\ stored'[i].request = stored[i].request
                        /\ i > tracksLoaded => stored'[i] = stored[i]
    BY DEF SaveKeepsRecordings
  <2>1. PICK g \in Callers : Save(g)
    BY StoredStep
  <2>2. TypeOK /\ TypeOK'
    BY TypeStep DEF RecordingInv, Inv
  <2>3. /\ Len(tracks) \in Nat /\ tracksLoaded \in Nat
        /\ DOMAIN stored = 1..Len(stored) /\ DOMAIN stored' = 1..Len(stored')
    BY <2>2, LenProperties DEF TypeOK
  <2>4. Len(stored) <= Len(tracks) /\ Len(stored) \in Nat
    BY <2>3 DEF RecordingInv, FileInv
  <2>5. \A i \in 1..Len(tracks) :
          stored'[i] = OnDisk(tracks[i]) /\ stored'[i].request = tracks[i].request
    BY <2>1, SavedContent DEF RecordingInv, OnDisk
  <2>6. Len(stored') = Len(tracks)
    BY <2>1, SavedContent DEF RecordingInv
  <2> QED
    BY <2>3, <2>4, <2>5, <2>6 DEF RecordingInv, FileInv
<1> QED
  BY <1>1, RecordingInvariance, PTL DEF Spec

\* With mutators that keep the headers of a response, nothing that is saved of
\* a track ever changes.
LEMMA SavedPartStays ==
  ASSUME MutatorsKeepHeaders, Inv, [Next]_vars, NEW i \in 1..Len(tracks)
  PROVE  OnDisk(tracks'[i]) = OnDisk(tracks[i])
<1>t. /\ tracks \in Seq(Track) /\ Len(tracks) \in Nat /\ DOMAIN tracks = 1..Len(tracks)
      /\ tracks[i] \in Track
      /\ pcb \in PCB
  BY LenProperties, ElementOfSeq DEF Inv, TypeOK
<1>0. CASE tracks' = tracks
  BY <1>0
<1>1. ASSUME NEW g \in Callers, ReplayTrack(g)
      PROVE  OnDisk(tracks'[i]) = OnDisk(tracks[i])
  <2>1. tracks'[i] = tracks[i] \/ tracks'[i] = MarkReplayed(tracks[i])
    BY <1>1, <1>t DEF ReplayTrack
  <2>2. OnDisk(MarkReplayed(tracks[i])) = OnDisk(tracks[i])
    BY <1>t DEF OnDisk, MarkReplayed, Track
  <2> QED
    BY <2>1, <2>2
<1>2. ASSUME NEW resp \in Response, tracks[i].response \in Response,
             resp.header = tracks[i].response.header
      PROVE  OnDisk([tracks[i] EXCEPT !.response = resp]) = OnDisk(tracks[i])
  BY <1>2, <1>t, NoneAssumption DEF OnDisk, Track
<1>3. ASSUME NEW g \in Callers, InjectRequest(g)
      PROVE  OnDisk(tracks'[i]) = OnDisk(tracks[i])
  <2> DEFINE n == call[g].trackNumber
             resp == Inject(tracks[i].response, g)
  <2>1. CASE tracks[n].response = None \/ n # i
    BY <2>1, <1>0, <1>3, <1>t DEF InjectRequest
  <2>2. CASE tracks[n].response # None /\ n = i
    <3>1. tracks[i].response \in Response
      BY <2>2, <1>t DEF Track
    <3>2. resp \in Response /\ resp.header = tracks[i].response.header
      BY <3>1 DEF Inject, Response
    <3>3. tracks'[i] = [tracks[i] EXCEPT !.response = resp]
      BY <2>2, <1>3, <1>t DEF InjectRequest
    <3> HIDE DEF resp
    <3> QED
      BY <3>1, <3>2, <3>3, <1>2
  <2> QED
    BY <2>1, <2>2
<1>4. ASSUME NEW g \in Callers, MutateReplaying(g)
      PROVE  OnDisk(tracks'[i]) = OnDisk(tracks[i])
  <2> DEFINE n == call[g].trackNumber
             resp == Replaying[pcb.trackReplayingMutators][tracks[i].response]
  <2>1. CASE tracks[n].response = None \/ n # i
    BY <2>1, <1>0, <1>4, <1>t DEF MutateReplaying
  <2>2. CASE tracks[n].response # None /\ n = i
    <3>1. tracks[i].response \in Response
      BY <2>2, <1>t DEF Track
    <3>2. resp \in Response /\ resp.header = tracks[i].response.header
      BY <3>1, <1>t, SettingsAssumption DEF PCB, MutatorsKeepHeaders
    <3>3. tracks'[i] = [tracks[i] EXCEPT !.response = resp]
      BY <2>2, <1>4, <1>t DEF MutateReplaying
    <3> HIDE DEF resp
    <3> QED
      BY <3>1, <3>2, <3>3, <1>2
  <2> QED
    BY <2>1, <2>2
<1>5. ASSUME NEW g \in Callers, AddTrack(g)
      PROVE  OnDisk(tracks'[i]) = OnDisk(tracks[i])
  <2>1. AsUsed(call[g].trk) \in Track
    BY <1>5 DEF AddTrack, Goto, Inv, CallInv, RequestInv, AsUsed, Track
  <2> QED
    BY <1>5, <2>1, <1>t, AppendProperties DEF AddTrack
<1>6. ASSUME NEW g \in Callers, Proceed(g)
      PROVE  OnDisk(tracks'[i]) = OnDisk(tracks[i])
  BY <1>0, <1>1, <1>3, <1>4, <1>5, <1>6
     DEF Proceed, SeekTrack, NumberOfTracks, ReadTrack, Match, NoMatch,
         ToHTTPResponse, Refuse, GoLive, Transport, SkipRecording,
         StartRecording, MutateRecording, Save, SaveFails, cassetteVars
<1>7. ASSUME NEW g \in Callers, NEW req \in Requests, Begin(g, req)
      PROVE  tracks' = tracks
  BY <1>7 DEF Begin, cassetteVars
<1>8. ASSUME ControlPanel \/ UNCHANGED vars
      PROVE  tracks' = tracks
  BY <1>8 DEF ControlPanel, SetNormalMode, SetOfflineMode, SetLiveOnlyMode,
     SetReadOnlyMode, SetRequestMatchers, SetRecordingMutators,
     SetReplayingMutators, Setting, cassetteVars, vars
<1> QED
  BY <1>0, <1>6, <1>7, <1>8 DEF Next, Serve

\* A track on the file is never rewritten with other content, whatever is
\* replayed and recorded, as long as no replaying mutator changes what is saved
\* of a response.  (One that does reaches the file: run vcr_file.)
THEOREM SavedAreKept ==
  ASSUME MutatorsKeepHeaders
  PROVE  Spec => SavedTracksKept
<1> DEFINE Kept == (stored # Unreadable /\ stored' # Unreadable) =>
                     \A i \in DOMAIN stored :
                       i \in DOMAIN stored' /\ stored'[i] = stored[i]
<1>1. Init => UntouchedInv
  <2> SUFFICES ASSUME Init, NEW i \in 1..Len(tracks)
               PROVE  tracks[i] = OnDisk(tracks[i])
    BY DEF Init, UntouchedInv
  <2> QED
    BY CassettesAssumption DEF Init
<1>2. RecordingInv /\ UntouchedInv /\ [Next]_vars => UntouchedInv' /\ [Kept]_stored
  <2> SUFFICES ASSUME RecordingInv, UntouchedInv, [Next]_vars
               PROVE  UntouchedInv' /\ [Kept]_stored
    OBVIOUS
  <2>t. Len(tracks) \in Nat /\ TypeOK /\ TypeOK'
    BY TypeStep, LenProperties DEF RecordingInv, Inv, TypeOK
  <2>1. CASE stored' = Unreadable
    BY <2>1 DEF UntouchedInv
  <2>2. CASE stored' = stored
    <3>1. stored # Unreadable => \A i \in 1..Len(stored) : i \in 1..Len(tracks)
      BY <2>t DEF RecordingInv, FileInv
    <3> QED
      BY <2>2, <3>1, SavedPartStays DEF RecordingInv, UntouchedInv
  <2>3. ASSUME NEW g \in Callers, Save(g), stored' # Unreadable
        PROVE  UntouchedInv' /\ [Kept]_stored
    <3>1. /\ tracks' = tracks /\ Len(stored') = Len(tracks)
          /\ \A i \in 1..Len(tracks) : stored'[i] = OnDisk(tracks[i])
      BY <2>3, SavedContent DEF RecordingInv
    <3>2. UntouchedInv'
      BY <3>1 DEF UntouchedInv
    <3>3. stored # Unreadable =>
            /\ DOMAIN stored = 1..Len(stored) /\ DOMAIN stored' = 1..Len(stored')
            /\ Len(stored) \in Nat /\ Len(stored) <= Len(tracks)
      BY <2>3, <2>t, LenProperties DEF TypeOK, RecordingInv, FileInv
    <3>4. Kept
      BY <3>1, <3>3, <2>t DEF UntouchedInv
    <3> QED
      BY <3>2, <3>4
  <2> QED
    BY <2>1, <2>2, <2>3, StoredStep
<1> HIDE DEF Kept
<1>3. Spec => [][Kept]_stored
  BY <1>1, <1>2, RecordingInvariance, PTL DEF Spec
<1> QED
  BY <1>3 DEF SavedTracksKept, Kept
=============================================================================
