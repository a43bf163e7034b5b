------------------------ MODULE VCRRefinementProofs ------------------------
(***************************************************************************)
(* Proof that a VCR whose settings stand still implements the tape it      *)
(* promises: any number of goroutines share a tape on which no track is    *)
(* skipped, and a goroutine alone is played each track once.               *)
(*                                                                         *)
(* The search of a call is invisible until it marks a track, or finds      *)
(* none.  At that moment all the tracks in front are still used up, by     *)
(* invariant Inv, although they were looked at one by one, as copies and   *)
(* some time ago; this is the whole of the argument.                       *)
(***************************************************************************)
EXTENDS VCRProofs, VCRRefinement

\* The track that a call is about to mark matches its request.
MatchedInv(g) ==
  pc[g] = "ReplayTrack" => Matches(call[g].request, tracks[call[g].trackNumber])

\* The settings of its call are those of now.
SteadyInv(g) == pc[g] # "Idle" => lived[g] = LivedWith(NotLived, pcb)

\* No setting has changed since NewVCR.
FixedInv == Inv /\ \A g \in Callers : SteadyInv(g) /\ MatchedInv(g)

\* There is one goroutine.
Alone == \A g, h \in Callers : g = h

\* What a goroutine read of the cassette is still true if it is the only one.
AloneInv(g) ==
  LET trk == tracks[call[g].trackNumber]
  IN /\ pc[g] = "Match" => (trk.replayed => call[g].trk.replayed)
     /\ pc[g] = "ReplayTrack" => ~trk.replayed

(***************************************************************************)
(* A session with fixed settings                                           *)
(***************************************************************************)

\* It is a session.
LEMMA FixedIsSpec == FixedSpec => Spec
<1>1. [Serve]_vars => [Next]_vars
  BY DEF Next
<1> QED
  BY <1>1, PTL DEF FixedSpec, Spec

\* No call changes the settings.
LEMMA SettingsStandStill ==
  ASSUME [Serve]_vars
  PROVE  pcb' = pcb
<1>1. ASSUME NEW g \in Callers, Proceed(g)
      PROVE  pcb' = pcb
  BY <1>1 DEF Proceed, SeekTrack, NumberOfTracks, ReadTrack, Match, NoMatch,
     ReplayTrack, InjectRequest, MutateReplaying, ToHTTPResponse, Refuse,
     GoLive, Transport, SkipRecording, StartRecording, MutateRecording,
     AddTrack, Save, SaveFails
<1>2. ASSUME NEW g \in Callers, NEW req \in Requests, Begin(g, req)
      PROVE  pcb' = pcb
  BY <1>2 DEF Begin
<1> QED
  BY <1>1, <1>2 DEF Serve, vars

\* The history of a call in such a session.
LEMMA SteadyIs ==
  ASSUME FixedInv, NEW g \in Callers, pc[g] # "Idle"
  PROVE  /\ lived[g].httpMode = {pcb.httpMode}
         /\ lived[g].readOnly = {pcb.readOnly}
         /\ lived[g].requestMatchers = {pcb.requestMatchers}
BY DEF FixedInv, SteadyInv, LivedWith, NotLived

\* So no call ever finds them changed.
LEMMA SteadyStep ==
  ASSUME Inv, [Serve]_vars, \A g \in Callers : SteadyInv(g)
  PROVE  \A g \in Callers : SteadyInv(g)'
<1>t. pc \in [Callers -> Locations] /\ lived \in [Callers -> Lived]
  BY DEF Inv, TypeOK
<1>s. pcb' = pcb
  BY SettingsStandStill
<1>1. ASSUME NEW g \in Callers, Proceed(g)
      PROVE  /\ pc[g] # "Idle" /\ (pc'[g] = "Idle" \/ lived' = lived)
             /\ \A h \in Callers \ {g} : pc'[h] = pc[h] /\ lived'[h] = lived[h]
  BY <1>1, <1>t DEF Proceed, SeekTrack, NumberOfTracks, ReadTrack, Match,
     NoMatch, ReplayTrack, InjectRequest, MutateReplaying, ToHTTPResponse,
     Refuse, GoLive, Transport, SkipRecording, StartRecording, MutateRecording,
     AddTrack, Save, SaveFails, Return, Goto
<1>2. ASSUME NEW g \in Callers, NEW req \in Requests, Begin(g, req)
      PROVE  /\ lived'[g] = LivedWith(NotLived, pcb)
             /\ \A h \in Callers \ {g} : pc'[h] = pc[h] /\ lived'[h] = lived[h]
  BY <1>2, <1>t DEF Begin, Goto
<1>3. CASE UNCHANGED vars
  BY <1>3 DEF vars, SteadyInv
<1>4. ASSUME NEW g \in Callers, Proceed(g) \/ \E req \in Requests : Begin(g, req)
      PROVE  \A h \in Callers : SteadyInv(h)'
  BY <1>1, <1>2, <1>4, <1>s DEF SteadyInv
<1> QED
  BY <1>3, <1>4 DEF Serve

\* A call that is about to mark a track was there before, or has just found it.
LEMMA AtReplayTrack ==
  ASSUME Inv, [Next]_vars, NEW h \in Callers, pc'[h] = "ReplayTrack"
  PROVE  (pc[h] = "ReplayTrack" /\ call'[h] = call[h]) \/ Match(h)
<1>t. pc \in [Callers -> Locations] /\ call \in [Callers -> Call]
  BY DEF Inv, TypeOK
<1>1. ASSUME NEW g \in Callers, Proceed(g)
      PROVE  (pc[h] = "ReplayTrack" /\ call'[h] = call[h]) \/ Match(h)
  <2>1. CASE g = h
    BY <2>1, <1>1, <1>t DEF Proceed, SeekTrack, NumberOfTracks, ReadTrack,
       NoMatch, ReplayTrack, InjectRequest, MutateReplaying,
       ToHTTPResponse, Refuse, GoLive, Transport, SkipRecording,
       StartRecording, MutateRecording, AddTrack, Save, SaveFails, Return, Goto
  <2>2. CASE g # h
    BY <2>2, <1>1, <1>t DEF Proceed, SeekTrack, NumberOfTracks, ReadTrack,
       Match, NoMatch, ReplayTrack, InjectRequest, MutateReplaying,
       ToHTTPResponse, Refuse, GoLive, Transport, SkipRecording,
       StartRecording, MutateRecording, AddTrack, Save, SaveFails, Return, Goto
  <2> QED
    BY <2>1, <2>2
<1>2. ASSUME NEW g \in Callers, NEW req \in Requests, Begin(g, req)
      PROVE  pc[h] = "ReplayTrack" /\ call'[h] = call[h]
  BY <1>2, <1>t DEF Begin, Goto
<1>3. ASSUME ControlPanel \/ UNCHANGED vars
      PROVE  pc[h] = "ReplayTrack" /\ call'[h] = call[h]
  BY <1>3 DEF ControlPanel, SetNormalMode, SetOfflineMode, SetLiveOnlyMode,
     SetReadOnlyMode, SetRequestMatchers, SetRecordingMutators,
     SetReplayingMutators, Setting, vars
<1> QED
  BY <1>1, <1>2, <1>3 DEF Next, Serve

\* The invariant of a session with fixed settings.
LEMMA FixedInvariance == FixedSpec => []FixedInv
<1>1. Init => FixedInv
  BY InitInv DEF Init, FixedInv, SteadyInv, MatchedInv
<1>2. FixedInv /\ [Serve]_vars => FixedInv'
  <2> SUFFICES ASSUME FixedInv, [Serve]_vars
               PROVE  FixedInv'
    OBVIOUS
  <2>1. Inv /\ [Next]_vars /\ \A g \in Callers : SteadyInv(g)
    BY DEF FixedInv, Next
  <2>2. Inv' /\ \A g \in Callers : SteadyInv(g)'
    BY <2>1, NextInv, SteadyStep
  <2>3. ASSUME NEW h \in Callers
        PROVE  MatchedInv(h)'
    <3> SUFFICES ASSUME pc'[h] = "ReplayTrack"
                 PROVE  <<call'[h].request, tracks'[call'[h].trackNumber].request>>
                          \in pcb'.requestMatchers
      BY DEF MatchedInv, Matches
    <3>1. pcb' = pcb
      BY SettingsStandStill
    <3>2. CASE pc[h] = "ReplayTrack" /\ call'[h] = call[h]
      <4>1. call[h].trackNumber \in 1..Len(tracks)
        BY <2>1, <3>2, LenProperties DEF Inv, TypeOK, CallInv, ReplayInv, Replays, RecordedAreUsed
      <4>2. tracks'[call[h].trackNumber].request = tracks[call[h].trackNumber].request
        BY <2>1, <4>1, CassetteStep DEF Grows
      <4> QED
        BY <3>1, <3>2, <4>2 DEF FixedInv, MatchedInv, Matches
    <3>3. CASE Match(h)
      <4>1. /\ tracks' = tracks
            /\ call'[h].request = call[h].request
            /\ call'[h].trackNumber = call[h].trackNumber
        BY <2>1, <3>3 DEF Match, Fresh, cassetteVars, Inv, TypeOK
      <4>2. call[h].trk.request = tracks[call[h].trackNumber].request
        BY <2>1, <3>3 DEF Match, Goto, Inv, CallInv, CopyInv
      <4>3. Matches(call[h].request, call[h].trk)
        BY <3>3 DEF Match, Found
      <4> QED
        BY <3>1, <4>1, <4>2, <4>3 DEF Matches
    <3> QED
      BY <2>1, <3>2, <3>3, AtReplayTrack
  <2> QED
    BY <2>2, <2>3 DEF FixedInv
<1> QED
  BY <1>1, <1>2, PTL DEF FixedSpec

(***************************************************************************)
(* The state of the tape                                                   *)
(***************************************************************************)

\* The tape is as long as the cassette.
LEMMA TapeIs ==
  ASSUME NEW trks \in Seq(Track)
  PROVE  LET reel == [i \in DOMAIN trks |-> [request |-> trks[i].request,
                                             played  |-> trks[i].replayed]]
         IN /\ reel \in Seq([request : Requests, played : BOOLEAN])
            /\ Len(reel) = Len(trks)
            /\ DOMAIN trks = 1..Len(trks)
            /\ DOMAIN reel = 1..Len(trks)
<1>1. /\ Len(trks) \in Nat /\ DOMAIN trks = 1..Len(trks)
      /\ \A i \in 1..Len(trks) : trks[i] \in Track
  BY LenProperties, ElementOfSeq
<1>2. \A i \in 1..Len(trks) :
        [request |-> trks[i].request, played |-> trks[i].replayed]
          \in [request : Requests, played : BOOLEAN]
  BY <1>1 DEF Track
<1> QED
  BY <1>1, <1>2

\* A goroutine that moves changes its own phase only.
LEMMA PhaseMoves ==
  ASSUME pc \in [Callers -> Locations], NEW g \in Callers, NEW to,
         pc' = [pc EXCEPT ![g] = to]
  PROVE  phase' = [phase EXCEPT ![g] = PhaseOf(to)] /\ phase[g] = PhaseOf(pc[g])
BY DEF phase

\* A goroutine that changes its locals changes what it wants only.
LEMMA WantedMoves ==
  ASSUME call \in [Callers -> Call], NEW g \in Callers, NEW locals,
         call' = [call EXCEPT ![g] = locals]
  PROVE  wanted' = [wanted EXCEPT ![g] = locals.request]
BY DEF wanted

\* One whose locals keep the request changes nothing the tape knows.
LEMMA WantedStays ==
  ASSUME call \in [Callers -> Call], NEW g \in Callers,
         \A h \in Callers : call'[h].request = call[h].request
  PROVE  wanted' = wanted
BY DEF wanted

\* The settings and the length of the loaded tape are fixed, and the types are
\* at hand.
LEMMA TapeTypes ==
  ASSUME FixedInv, [Serve]_vars
  PROVE  /\ Inv /\ Inv' /\ [Next]_vars
         /\ tracks \in Seq(Track) /\ Len(tracks) \in Nat
         /\ tracks' \in Seq(Track)
         /\ tracksLoaded \in Nat /\ tracksLoaded <= Len(tracks)
         /\ pc \in [Callers -> Locations] /\ call \in [Callers -> Call]
         /\ loaded' = loaded /\ settings' = settings
<1>1. Inv /\ [Next]_vars
  BY DEF FixedInv, Next
<1>2. Inv'
  BY <1>1, NextInv
<1>3. tracks' \in Seq(Track) /\ tracksLoaded' = tracksLoaded
  BY <1>1, CassetteStep
<1> QED
  BY <1>1, <1>2, <1>3, SettingsStandStill, LenProperties
     DEF Inv, TypeOK, RecordedAreUsed, loaded, settings

(***************************************************************************)
(* Each step of a call is a step of the tape, or none                      *)
(***************************************************************************)

tapeVars == <<tape, loaded, saved, settings, phase, wanted>>

\* None of the tracks left on the cassette, none left on the tape.
LEMMA NoneLeft ==
  ASSUME Inv, NEW g \in Callers, NEW n \in Nat, n <= Len(tracks) + 1,
         Exhausted(g, n)
  PROVE  Shared!NoneLeftBefore(n, g)
<1>1. /\ tracks \in Seq(Track) /\ Len(tracks) \in Nat
      /\ DOMAIN tracks = 1..Len(tracks)
  BY LenProperties DEF Inv, TypeOK
<1>2. \A i \in 1..(n - 1) :
        /\ i \in DOMAIN tracks
        /\ tape[i].request = tracks[i].request
        /\ tape[i].played = tracks[i].replayed
  BY <1>1 DEF tape
<1> QED
  BY <1>2 DEF Exhausted, Matches, Shared!NoneLeftBefore, Shared!Answers,
     wanted, settings

\* The search is invisible until it finds nothing.
LEMMA SearchStep ==
  ASSUME FixedInv, [Serve]_vars, NEW g \in Callers,
         \/ SeekTrack(g) \/ NumberOfTracks(g) \/ ReadTrack(g) \/ Match(g)
         \/ NoMatch(g)
  PROVE  Shared!Miss(g) \/ UNCHANGED tapeVars
<1>t. /\ Inv /\ Inv' /\ [Next]_vars
      /\ tracks \in Seq(Track) /\ Len(tracks) \in Nat
      /\ pc \in [Callers -> Locations] /\ call \in [Callers -> Call]
      /\ loaded' = loaded /\ settings' = settings
  BY TapeTypes
<1>1. /\ UNCHANGED <<tape, saved>>
      /\ tracks' = tracks /\ pcb' = pcb /\ lived' = lived
  BY DEF SeekTrack, NumberOfTracks, ReadTrack, Match, NoMatch, cassetteVars,
     tape, saved
<1>2. \A h \in Callers : call'[h].request = call[h].request
  <2>1. \A h \in Callers \ {g} : call'[h] = call[h]
    BY <1>t DEF SeekTrack, NumberOfTracks, ReadTrack, Match, NoMatch
  <2>2. call[g] \in Call
    BY <1>t
  <2>3. call'[g].request = call[g].request
    BY <1>t, <2>2 DEF SeekTrack, NumberOfTracks, ReadTrack, Match, NoMatch,
       Fresh, Call
  <2> QED
    BY <2>1, <2>3
<1>3. wanted' = wanted
  BY <1>2, <1>t, WantedStays
<1>4. PICK to \in {"NumberOfTracks", "Track", "Match", "ReplayTrack", "CheckOffline"} :
        pc' = [pc EXCEPT ![g] = to]
  BY DEF SeekTrack, NumberOfTracks, ReadTrack, Match, NoMatch, Goto
<1>5. /\ pc[g] \in {"SeekTrack", "NumberOfTracks", "Track", "Match"}
      /\ phase' = [phase EXCEPT ![g] = PhaseOf(to)] /\ phase[g] = PhaseOf(pc[g])
  BY <1>t, <1>4, PhaseMoves
     DEF SeekTrack, NumberOfTracks, ReadTrack, Match, NoMatch, Goto
<1>6. CASE to # "CheckOffline"
  <2>1. PhaseOf(to) = "waiting" /\ phase[g] = "waiting"
    BY <1>4, <1>5, <1>6 DEF PhaseOf
  <2>2. phase' = phase
    BY <1>5, <2>1 DEF phase
  <2> QED
    BY <1>t, <1>1, <1>3, <2>2 DEF tapeVars
<1>7. CASE to = "CheckOffline"
  <2>1. PhaseOf(to) = "missed" /\ phase[g] = "waiting"
    BY <1>5, <1>7 DEF PhaseOf
  <2>2. /\ pc'[g] = "CheckOffline"
        /\ lived'[g] = LivedWith(NotLived, pcb') /\ pcb' = pcb
    BY <1>t, <1>1, <1>4, <1>5, <1>7 DEF FixedInv, SteadyInv
  <2>3. pcb.httpMode # "LiveOnly" => Exhausted(g, Len(tracks) + 1)'
    BY <1>t, <2>2 DEF Inv, CallInv, MissInv, SameMatchers, LivedWith, NotLived
  <2>4. Exhausted(g, Len(tracks) + 1)' => Exhausted(g, Len(tracks) + 1)
    BY <1>1, <1>2 DEF Exhausted, Matches
  <2>5. Len(tape) = Len(tracks)
    BY <1>t, TapeIs DEF tape
  <2>6. settings.httpMode = "LiveOnly" \/ Shared!NoneLeftBefore(Len(tape) + 1, g)
    BY <1>t, <2>3, <2>4, <2>5, NoneLeft DEF settings
  <2>7. Shared!Move(g, "waiting", "missed")
    BY <1>5, <2>1 DEF Shared!Move
  <2> QED
    BY <1>t, <1>1, <1>3, <2>6, <2>7 DEF Shared!Miss
<1> QED
  BY <1>6, <1>7

\* Marking a track plays the first one on the tape that answers, and one that
\* was not played before if the mark was not there.
LEMMA PlayStep ==
  ASSUME FixedInv, [Serve]_vars, NEW g \in Callers, ReplayTrack(g)
  PROVE  /\ Shared!Play(g)
         /\ ~tracks[call[g].trackNumber].replayed => Own!Play(g)
<1> DEFINE i == call[g].trackNumber
<1>t. /\ Inv
      /\ tracks \in Seq(Track) /\ Len(tracks) \in Nat
      /\ tracksLoaded \in Nat /\ tracksLoaded <= Len(tracks)
      /\ pc \in [Callers -> Locations] /\ call \in [Callers -> Call]
      /\ loaded' = loaded /\ settings' = settings
  BY TapeTypes
<1>1. /\ pc[g] = "ReplayTrack" /\ pc' = [pc EXCEPT ![g] = "InjectRequest"]
      /\ tracks' = [tracks EXCEPT ![i] = MarkReplayed(@)]
      /\ UNCHANGED <<stored, call>>
  BY DEF ReplayTrack, Goto
<1>2. i \in 1..tracksLoaded /\ i \in 1..Len(tracks) /\ i \in Nat
  BY <1>t, <1>1 DEF Inv, CallInv, ReplayInv, Replays
<1>3. Exhausted(g, i) /\ pcb.httpMode # "LiveOnly"
  <2>1. /\ lived[g].httpMode = {pcb.httpMode}
        /\ lived[g].requestMatchers = {pcb.requestMatchers}
    BY <1>1, SteadyIs
  <2> QED
    BY <1>t, <1>1, <2>1 DEF Inv, CallInv, OrderInv, ModeInv, Replays, SameMatchers
<1>4. Shared!NoneLeftBefore(i, g)
  BY <1>t, <1>2, <1>3, NoneLeft
<1>5. DOMAIN tracks = 1..Len(tracks) /\ tracks[i] \in Track
  BY <1>t, <1>2, LenProperties, ElementOfSeq
<1>6. /\ tape[i].request = tracks[i].request
      /\ tape[i].played = tracks[i].replayed
  BY <1>2, <1>5 DEF tape
<1>7. Shared!Answers(i, g)
  BY <1>1, <1>6 DEF FixedInv, MatchedInv, Matches, Shared!Answers, wanted, settings
<1>8. tape' = [tape EXCEPT ![i].played = TRUE]
  <2> DEFINE trk == MarkReplayed(tracks[i])
  <2>1. trk.request = tracks[i].request /\ trk.replayed = TRUE
    BY <1>5 DEF MarkReplayed, Track
  <2>2. tracks' = [tracks EXCEPT ![i] = trk]
    BY <1>1
  <2> HIDE DEF trk, i
  <2> QED
    BY <2>1, <2>2, <1>2, <1>5 DEF tape
<1>9. Shared!Move(g, "waiting", "playing")
  BY <1>t, <1>1, PhaseMoves DEF PhaseOf, Shared!Move
<1>10. saved' = saved /\ wanted' = wanted
  BY <1>1 DEF saved, wanted
<1> HIDE DEF i
<1>11. Shared!Play(g)
  BY <1>t, <1>2, <1>3, <1>4, <1>7, <1>8, <1>9, <1>10
     DEF Shared!Play, settings, loaded
<1>12. ~tape[i].played => Own!Play(g)
  BY <1>t, <1>2, <1>3, <1>4, <1>7, <1>8, <1>9, <1>10
     DEF Own!Play, Own!Move, Shared!Move, Own!Answers, Shared!Answers,
         Own!NoneLeftBefore, Shared!NoneLeftBefore, settings, loaded
<1> QED
  BY <1>6, <1>11, <1>12 DEF i

\* What the replay does to the track besides is not on the tape.
LEMMA ReplayStep ==
  ASSUME FixedInv, [Serve]_vars, NEW g \in Callers,
         \/ InjectRequest(g) \/ MutateReplaying(g) \/ ToHTTPResponse(g)
  PROVE  Shared!Played(g) \/ UNCHANGED tapeVars
<1>t. /\ Inv
      /\ tracks \in Seq(Track) /\ Len(tracks) \in Nat
      /\ pc \in [Callers -> Locations] /\ call \in [Callers -> Call]
      /\ loaded' = loaded /\ settings' = settings
  BY TapeTypes
<1>d. DOMAIN tracks = 1..Len(tracks) /\ \A i \in DOMAIN tracks : tracks[i] \in Track
  BY <1>t, LenProperties, ElementOfSeq
<1>1. CASE ToHTTPResponse(g)
  <2>1. /\ pc[g] = "ToHTTPResponse" /\ pc' = [pc EXCEPT ![g] = "Idle"]
        /\ call' = [call EXCEPT ![g] = Fresh(None)]
        /\ UNCHANGED <<tracks, stored>>
    BY <1>1 DEF ToHTTPResponse, Return, Goto, cassetteVars
  <2>2. Shared!Move(g, "playing", "idle")
    BY <1>t, <2>1, PhaseMoves DEF PhaseOf, Shared!Move
  <2>3. wanted' = [wanted EXCEPT ![g] = Nobody]
    <3>1. Fresh(None).request = Nobody
      BY DEF Fresh, Nobody
    <3> QED
      BY <1>t, <2>1, <3>1, WantedMoves
  <2>4. tape' = tape /\ saved' = saved
    BY <2>1 DEF tape, saved
  <2> QED
    BY <1>t, <2>2, <2>3, <2>4 DEF Shared!Played, Shared!Finish
<1>2. CASE InjectRequest(g) \/ MutateReplaying(g)
  <2>1. PICK to \in {"MutateReplaying", "ToHTTPResponse"} :
          /\ pc' = [pc EXCEPT ![g] = to]
          /\ pc[g] \in {"InjectRequest", "MutateReplaying"}
          /\ UNCHANGED <<call, stored>>
    BY <1>2 DEF InjectRequest, MutateReplaying, Goto
  <2>2. phase' = phase
    <3>1. phase' = [phase EXCEPT ![g] = PhaseOf(to)] /\ phase[g] = PhaseOf(pc[g])
      BY <1>t, <2>1, PhaseMoves
    <3>2. PhaseOf(to) = "playing" /\ phase[g] = "playing"
      BY <2>1, <3>1 DEF PhaseOf
    <3> QED
      BY <3>1, <3>2 DEF phase
  <2>3. \/ tracks' = tracks
        \/ \E i \in DOMAIN tracks, resp \in Response :
             tracks' = [tracks EXCEPT ![i].response = resp]
    <3> DEFINE i == call[g].trackNumber
    <3>1. i \in DOMAIN tracks
      BY <1>t, <1>d, <1>2, <2>1 DEF Inv, CallInv, ReplayInv, Replays, RecordedAreUsed, TypeOK
    <3>2. tracks[i].response # None => tracks[i].response \in Response
      BY <1>d, <3>1 DEF Track
    <3>3. CASE InjectRequest(g) /\ tracks[i].response # None
      BY <3>1, <3>2, <3>3 DEF InjectRequest, Inject, Response
    <3>4. CASE MutateReplaying(g) /\ tracks[i].response # None
      <4>1. Replaying[pcb.trackReplayingMutators][tracks[i].response] \in Response
        BY <1>t, <3>2, <3>4, SettingsAssumption DEF Inv, TypeOK, PCB
      <4> QED
        BY <3>1, <3>4, <4>1 DEF MutateReplaying
    <3> QED
      BY <1>2, <3>3, <3>4 DEF InjectRequest, MutateReplaying
  <2>4. /\ DOMAIN tracks' = DOMAIN tracks
        /\ \A i \in DOMAIN tracks : /\ tracks'[i].request = tracks[i].request
                                    /\ tracks'[i].replayed = tracks[i].replayed
    BY <1>d, <2>3 DEF Track
  <2>5. tape' = tape
    BY <2>4 DEF tape
  <2> QED
    BY <1>t, <2>1, <2>2, <2>5 DEF tapeVars, saved, wanted
<1> QED
  BY <1>1, <1>2

\* A call that returns wants nothing any more.
LEMMA ReturnFinishes ==
  ASSUME FixedInv, [Serve]_vars, NEW g \in Callers,
         NEW from, NEW kind, NEW resp, NEW recorded,
         Return(g, from, kind, resp, recorded), tracks' = tracks
  PROVE  Shared!Finish(g, PhaseOf(from))
<1>t. /\ pc \in [Callers -> Locations] /\ call \in [Callers -> Call]
      /\ loaded' = loaded /\ settings' = settings
  BY TapeTypes
<1>1. /\ pc[g] = from /\ pc' = [pc EXCEPT ![g] = "Idle"]
      /\ call' = [call EXCEPT ![g] = Fresh(None)]
  BY DEF Return, Goto
<1>2. phase' = [phase EXCEPT ![g] = PhaseOf("Idle")] /\ phase[g] = PhaseOf(from)
  BY <1>t, <1>1, PhaseMoves
<1>3. PhaseOf("Idle") = "idle"
  BY DEF PhaseOf
<1>4. Fresh(None).request = Nobody
  BY DEF Fresh, Nobody
<1>5. wanted' = [wanted EXCEPT ![g] = Nobody]
  BY <1>t, <1>1, <1>4, WantedMoves
<1>6. tape' = tape
  BY DEF tape
<1> QED
  BY <1>t, <1>2, <1>3, <1>5, <1>6 DEF Shared!Finish, Shared!Move

\* The live call, and what becomes of its answer.
LEMMA LiveStep ==
  ASSUME FixedInv, [Serve]_vars, NEW g \in Callers,
         \/ Refuse(g) \/ GoLive(g) \/ Transport(g) \/ SkipRecording(g)
         \/ StartRecording(g) \/ MutateRecording(g)
  PROVE  Shared!Refuse(g) \/ Shared!GoLive(g) \/ Shared!Answer(g) \/ UNCHANGED tapeVars
<1>t. /\ pc \in [Callers -> Locations] /\ call \in [Callers -> Call]
      /\ loaded' = loaded /\ settings' = settings
  BY TapeTypes
<1>0. UNCHANGED <<tracks, stored>> /\ tape' = tape /\ saved' = saved
  BY DEF Refuse, GoLive, Transport, SkipRecording, StartRecording,
     MutateRecording, cassetteVars, tape, saved
<1>1. CASE Refuse(g)
  <2>1. PhaseOf("CheckOffline") = "missed"
    BY DEF PhaseOf
  <2>2. Shared!Finish(g, "missed")
    BY <1>0, <1>1, <2>1, ReturnFinishes DEF Refuse
  <2> QED
    BY <1>0, <1>1, <2>2 DEF Refuse, Shared!Refuse, settings
<1>2. CASE SkipRecording(g)
  <2>1. PhaseOf("CheckReadOnly") = "live"
    BY DEF PhaseOf
  <2>2. Shared!Finish(g, "live")
    BY <1>0, <1>2, <2>1, ReturnFinishes DEF SkipRecording
  <2> QED
    BY <1>0, <1>2, <2>2 DEF SkipRecording, Shared!Answer, settings
<1>3. CASE GoLive(g)
  <2>1. Shared!Move(g, "missed", "live")
    BY <1>t, <1>3, PhaseMoves DEF GoLive, Goto, PhaseOf, Shared!Move
  <2>2. wanted' = wanted
    BY <1>3 DEF GoLive, wanted
  <2> QED
    BY <1>t, <1>0, <1>3, <2>1, <2>2 DEF GoLive, MayGoLive, Shared!GoLive, settings
<1>4. CASE Transport(g) \/ StartRecording(g) \/ MutateRecording(g)
  <2>1. PICK to \in {"CheckReadOnly", "MutateRecording", "AddTrack"} :
          /\ pc' = [pc EXCEPT ![g] = to]
          /\ pc[g] \in {"Transport", "CheckReadOnly", "MutateRecording"}
    BY <1>4 DEF Transport, StartRecording, MutateRecording, Goto
  <2>2. phase' = phase
    <3>1. phase' = [phase EXCEPT ![g] = PhaseOf(to)] /\ phase[g] = PhaseOf(pc[g])
      BY <1>t, <2>1, PhaseMoves
    <3>2. PhaseOf(to) = "live" /\ phase[g] = "live"
      BY <2>1, <3>1 DEF PhaseOf
    <3> QED
      BY <3>1, <3>2 DEF phase
  <2>3. \A h \in Callers : call'[h].request = call[h].request
    <3>1. \A h \in Callers \ {g} : call'[h] = call[h]
      BY <1>t, <1>4 DEF Transport, StartRecording, MutateRecording
    <3>2. call[g] \in Call
      BY <1>t
    <3>3. call'[g].request = call[g].request
      BY <1>t, <1>4, <3>2 DEF Transport, StartRecording, MutateRecording, Call
    <3> QED
      BY <3>1, <3>3
  <2>4. wanted' = wanted
    BY <1>t, <2>3, WantedStays
  <2> QED
    BY <1>t, <1>0, <2>2, <2>4 DEF tapeVars
<1> QED
  BY <1>1, <1>2, <1>3, <1>4

\* A recording goes to the end of the tape, and then to the file.
LEMMA RecordStep ==
  ASSUME FixedInv, [Serve]_vars, NEW g \in Callers,
         AddTrack(g) \/ Save(g) \/ SaveFails(g)
  PROVE  Shared!Record(g) \/ Shared!Save(g)
<1>t. /\ Inv /\ tracks \in Seq(Track) /\ Len(tracks) \in Nat
      /\ tracks' \in Seq(Track)
      /\ pc \in [Callers -> Locations] /\ call \in [Callers -> Call]
      /\ loaded' = loaded /\ settings' = settings
  BY TapeTypes
<1>d. DOMAIN tracks = 1..Len(tracks) /\ \A i \in DOMAIN tracks : tracks[i] \in Track
  BY <1>t, LenProperties, ElementOfSeq
<1>1. CASE AddTrack(g)
  <2> DEFINE trk == AsUsed(call[g].trk)
             req == trk.request
             new == [request |-> req, played |-> TRUE]
  <2>1. pc[g] = "AddTrack" /\ pc' = [pc EXCEPT ![g] = "Save"] /\ UNCHANGED <<stored, call>>
    BY <1>1 DEF AddTrack, Goto
  <2>2. ~pcb.readOnly
    <3>1. FALSE \in lived[g].readOnly
      BY <1>t, <2>1 DEF Inv, CallInv, ModeInv, Records
    <3>2. lived[g].readOnly = {pcb.readOnly}
      BY <2>1, SteadyIs
    <3>3. pcb.readOnly = FALSE
      BY <3>1, <3>2
    <3> QED
      BY <3>3
  <2>3. Shared!Move(g, "live", "recorded")
    BY <1>t, <2>1, PhaseMoves DEF PhaseOf, Shared!Move
  <2>4. saved' = saved /\ wanted' = wanted
    BY <2>1 DEF saved, wanted
  <2>5. trk \in Track /\ trk.replayed = TRUE
    BY <1>t, <2>1 DEF Inv, CallInv, RequestInv, AsUsed, Track
  <2>6. req \in Requests
    BY <2>5 DEF Track
  <2>7. tracks' = Append(tracks, trk)
    BY <1>1 DEF AddTrack
  <2>8. tape' = Append(tape, new)
    <3> HIDE DEF trk
    <3>1. /\ Len(tracks') = Len(tracks) + 1 /\ tracks'[Len(tracks) + 1] = trk
          /\ \A i \in 1..Len(tracks) : tracks'[i] = tracks[i]
      BY <1>t, <2>5, <2>7, AppendProperties
    <3>2. DOMAIN tracks' = 1..(Len(tracks) + 1)
      BY <1>t, <3>1, LenProperties
    <3> DEFINE Reel == Seq([request : Requests, played : BOOLEAN])
    <3>3. tape \in Reel /\ Len(tape) = Len(tracks) /\ DOMAIN tape = 1..Len(tracks)
      BY <1>t, TapeIs DEF tape
    <3>4. tape' \in Reel /\ Len(tape') = Len(tracks) + 1 /\ DOMAIN tape' = 1..(Len(tracks) + 1)
      BY <1>t, <3>1, TapeIs DEF tape
    <3>5. new \in [request : Requests, played : BOOLEAN]
      BY <2>6
    <3>6. \A i \in 1..Len(tracks) : tape'[i] = tape[i]
      BY <1>t, <1>d, <3>1, <3>2 DEF tape
    <3>7. Len(tracks) + 1 \in DOMAIN tracks'
      BY <1>t, <3>2
    <3>8. tape'[Len(tracks) + 1] = new
      BY <2>5, <3>1, <3>7 DEF tape
    <3>9. /\ Append(tape, new) \in Reel
          /\ Len(Append(tape, new)) = Len(tracks) + 1
          /\ \A i \in 1..Len(tracks) : Append(tape, new)[i] = tape[i]
          /\ Append(tape, new)[Len(tracks) + 1] = new
      BY <3>3, <3>5, AppendProperties
    <3>10. \A i \in 1..(Len(tracks) + 1) : tape'[i] = Append(tape, new)[i]
      BY <1>t, <3>6, <3>8, <3>9
    <3> HIDE DEF new
    <3> QED
      BY <3>4, <3>9, <3>10, SeqEqual
  <2> HIDE DEF trk, req
  <2> QED
    BY <1>t, <2>2, <2>3, <2>4, <2>6, <2>8 DEF Shared!Record, settings
<1>2. CASE Save(g) \/ SaveFails(g)
  <2>1. tracks' = tracks
    BY <1>2 DEF Save, SaveFails
  <2>2. PhaseOf("Save") = "recorded"
    BY DEF PhaseOf
  <2>3. Shared!Finish(g, "recorded")
    BY <1>2, <2>1, <2>2, ReturnFinishes DEF Save, SaveFails
  <2>4. saved' \in {Len(tape), saved, Lost}
    <3>1. Len(tape) = Len(tracks)
      BY <1>t, TapeIs DEF tape
    <3>2. CASE Save(g)
      <4>1. stored' = [i \in 1..Len(tracks) |-> OnDisk(tracks[i])]
        BY <3>2 DEF Save, Content
      <4>2. Len(stored') = Len(tracks)
        BY <1>t, <4>1
      <4> QED
        BY <3>1, <4>2 DEF saved
    <3>3. CASE SaveFails(g)
      BY <3>3 DEF SaveFails, saved, Lost
    <3> QED
      BY <1>2, <3>2, <3>3
  <2> QED
    BY <2>3, <2>4 DEF Shared!Save
<1> QED
  BY <1>1, <1>2

\* A call begins.
LEMMA BeginStep ==
  ASSUME FixedInv, [Serve]_vars, NEW g \in Callers, NEW req \in Requests,
         Begin(g, req)
  PROVE  Shared!Ask(g, req)
<1>t. /\ pc \in [Callers -> Locations] /\ call \in [Callers -> Call]
      /\ loaded' = loaded /\ settings' = settings
  BY TapeTypes
<1>1. /\ pc[g] = "Idle" /\ pc' = [pc EXCEPT ![g] = "SeekTrack"]
      /\ call' = [call EXCEPT ![g] = Fresh(req)]
      /\ UNCHANGED <<tracks, stored>>
  BY DEF Begin, Goto, cassetteVars
<1>2. Shared!Move(g, "idle", "waiting")
  BY <1>t, <1>1, PhaseMoves DEF PhaseOf, Shared!Move
<1>3. Fresh(req).request = req
  BY DEF Fresh
<1>4. wanted' = [wanted EXCEPT ![g] = req]
  BY <1>t, <1>1, <1>3, WantedMoves
<1>5. tape' = tape /\ saved' = saved
  BY <1>1 DEF tape, saved
<1> QED
  BY <1>t, <1>2, <1>4, <1>5 DEF Shared!Ask

\* The steps that are the same on a shared tape and on one's own.
OtherStep(g) ==
  \/ \E req \in Requests : Shared!Ask(g, req)
  \/ Shared!Played(g) \/ Shared!Miss(g) \/ Shared!Refuse(g) \/ Shared!GoLive(g)
  \/ Shared!Answer(g) \/ Shared!Record(g) \/ Shared!Save(g)

\* Every step of a session is one of those, the playing of a track, or nothing.
LEMMA TapeStep ==
  ASSUME FixedInv, [Serve]_vars
  PROVE  \/ \E g \in Callers : ReplayTrack(g) \/ OtherStep(g)
         \/ UNCHANGED tapeVars
<1>1. ASSUME NEW g \in Callers, Proceed(g)
      PROVE  ReplayTrack(g) \/ OtherStep(g) \/ UNCHANGED tapeVars
  BY <1>1, SearchStep, ReplayStep, LiveStep, RecordStep DEF Proceed, OtherStep
<1>2. ASSUME NEW g \in Callers, NEW req \in Requests, Begin(g, req)
      PROVE  OtherStep(g)
  BY <1>2, BeginStep DEF OtherStep
<1>3. CASE UNCHANGED vars
  BY <1>3 DEF vars, tapeVars, tape, loaded, saved, settings, phase, wanted
<1> QED
  BY <1>1, <1>2, <1>3 DEF Serve

\* The session starts with the tape as it was loaded.
LEMMA TapeInit == Init => Shared!Init
<1> SUFFICES ASSUME Init PROVE Shared!Init
  OBVIOUS
<1>1. /\ tracks \in Cassettes /\ tracks \in Seq(Track) /\ tracks # Unreadable
      /\ Len(tracks) \in Nat /\ DOMAIN tracks = 1..Len(tracks)
      /\ stored = tracks /\ tracksLoaded = Len(tracks)
      /\ \A i \in 1..Len(tracks) : tracks[i] \in Track /\ tracks[i] = OnDisk(tracks[i])
  BY CassettesAssumption, LenProperties, ElementOfSeq DEF Init
<1>2. \A i \in 1..Len(tracks) :
        [request |-> tracks[i].request, played |-> tracks[i].replayed]
          \in [request : Requests, played : {FALSE}]
  <2> SUFFICES ASSUME NEW i \in 1..Len(tracks)
               PROVE  tracks[i].request \in Requests /\ tracks[i].replayed = FALSE
    OBVIOUS
  <2>1. OnDisk(tracks[i]).replayed = FALSE
    BY DEF OnDisk
  <2>2. tracks[i] = OnDisk(tracks[i]) /\ tracks[i] \in Track
    BY <1>1
  <2> QED
    BY <2>1, <2>2 DEF Track
<1>3. tape \in Seq([request : Requests, played : {FALSE}])
  <2>1. tape = [i \in 1..Len(tracks) |-> [request |-> tracks[i].request,
                                          played  |-> tracks[i].replayed]]
    BY <1>1 DEF tape
  <2> DEFINE FreshTrack == [request : Requests, played : {FALSE}]
             n == Len(tracks)
  <2>2. n \in Nat /\ \A i \in 1..n : tape[i] \in FreshTrack
    BY <1>1, <1>2, <2>1
  <2>3. tape \in [1..n -> FreshTrack]
    BY <2>1, <2>2
  <2> HIDE DEF FreshTrack, n
  <2>4. tape \in Seq(FreshTrack)
    BY <2>2, <2>3, SeqDef
  <2> QED
    BY <2>4 DEF FreshTrack
<1>4. Len(tape) = Len(tracks)
  BY <1>1, TapeIs DEF tape
<1>5. loaded = Len(tape) /\ saved = Len(tape)
  BY <1>1, <1>4 DEF loaded, saved
<1>6. settings \in [httpMode : {"Normal", "LiveOnly", "Offline"},
                    readOnly : BOOLEAN,
                    requestMatchers : SUBSET (Requests \X Requests)]
  BY SettingsAssumption DEF Init, PCB, Modes, settings
<1>7. phase = [g \in Callers |-> "idle"]
  BY DEF Init, phase, PhaseOf
<1>8. wanted = [g \in Callers |-> Nobody]
  BY DEF Init, wanted, Nobody, Fresh
<1> QED
  BY <1>3, <1>5, <1>6, <1>7, <1>8 DEF Shared!Init

\* Goroutines that share a VCR with fixed settings are played the tape in its
\* order, and miss only when nothing on it is left for them.
THEOREM SharedRefinement == FixedSpec => SharedTape
<1>1. FixedInv /\ [Serve]_vars => [Shared!Next]_(Shared!vars)
  <2> SUFFICES ASSUME FixedInv, [Serve]_vars
               PROVE  [Shared!Next]_(Shared!vars)
    OBVIOUS
  <2>1. ASSUME NEW g \in Callers, ReplayTrack(g) \/ OtherStep(g)
        PROVE  Shared!Next
    BY <2>1, PlayStep DEF OtherStep, Shared!Next
  <2> QED
    BY <2>1, TapeStep DEF tapeVars, Shared!vars
<1> QED
  BY <1>1, TapeInit, FixedInvariance, PTL DEF FixedSpec, SharedTape, Shared!Spec

(***************************************************************************)
(* A goroutine alone                                                       *)
(***************************************************************************)

\* A goroutine that nobody disturbs finds the cassette as it last saw it.
LEMMA AloneStep ==
  ASSUME Alone, Inv, [Next]_vars, NEW h \in Callers, AloneInv(h)
  PROVE  AloneInv(h)'
<1>t. /\ Inv' /\ pc \in [Callers -> Locations] /\ call \in [Callers -> Call]
      /\ tracks \in Seq(Track) /\ Len(tracks) \in Nat
      /\ DOMAIN tracks = 1..Len(tracks)
      /\ tracksLoaded \in Nat /\ tracksLoaded <= Len(tracks)
  BY NextInv, LenProperties DEF Inv, TypeOK, RecordedAreUsed
<1>c. call[h] \in Call
  BY <1>t
<1>r. pc[h] \in Replays => call[h].trackNumber \in DOMAIN tracks /\ tracks[call[h].trackNumber] \in Track
  BY <1>t, ElementOfSeq DEF Inv, CallInv, ReplayInv
<1>0. CASE pc'[h] \notin {"Match", "ReplayTrack"}
  BY <1>0 DEF AloneInv
<1>1. ASSUME Proceed(h)
      PROVE  AloneInv(h)'
  <2>1. CASE ReadTrack(h)
    <3>1. /\ pc'[h] = "Match" /\ tracks' = tracks
          /\ call'[h].trackNumber = call[h].trackNumber
          /\ call'[h].trk = tracks[call[h].trackNumber]
      BY <2>1, <1>t, <1>c DEF ReadTrack, Goto, cassetteVars, Call
    <3> QED
      BY <3>1 DEF AloneInv
  <2>2. CASE Match(h)
    <3>1. /\ pc[h] = "Match" /\ pc'[h] = "ReplayTrack" /\ tracks' = tracks
          /\ call'[h].trackNumber = call[h].trackNumber
          /\ ~call[h].trk.replayed
      BY <2>2, <1>t DEF Match, Found, Goto, cassetteVars, Fresh
    <3> QED
      BY <3>1 DEF AloneInv
  <2>3. CASE pc'[h] \in {"Match", "ReplayTrack"} /\ ~ReadTrack(h) /\ ~Match(h)
    <3>1. FALSE
      BY <1>1, <2>3, <1>t DEF Proceed, SeekTrack, NumberOfTracks, NoMatch,
         ReplayTrack, InjectRequest, MutateReplaying, ToHTTPResponse, Refuse,
         GoLive, Transport, SkipRecording, StartRecording, MutateRecording, AddTrack,
         Save, SaveFails, Return, Goto
    <3> QED
      BY <3>1
  <2> QED
    BY <1>0, <2>1, <2>2, <2>3
<1>2. ASSUME NEW req \in Requests, Begin(h, req)
      PROVE  AloneInv(h)'
  BY <1>0, <1>2, <1>t DEF Begin, Goto
<1>3. ASSUME ControlPanel \/ UNCHANGED vars
      PROVE  AloneInv(h)'
  <2>1. pc' = pc /\ call' = call /\ tracks' = tracks
    BY <1>3 DEF ControlPanel, SetNormalMode, SetOfflineMode, SetLiveOnlyMode,
       SetReadOnlyMode, SetRequestMatchers, SetRecordingMutators,
       SetReplayingMutators, Setting, cassetteVars, vars
  <2> QED
    BY <2>1 DEF AloneInv
<1> QED
  BY <1>1, <1>2, <1>3 DEF Next, Serve, Alone

\* What a goroutine alone has read stays true, whatever the control panel does.
LEMMA AloneInvariance ==
  ASSUME Alone
  PROVE  Spec => [](\A g \in Callers : AloneInv(g))
<1> DEFINE AllAlone == \A g \in Callers : AloneInv(g)
<1>1. Init => AllAlone
  BY DEF Init, AloneInv
<1>2. Inv /\ AllAlone /\ [Next]_vars => AllAlone'
  BY AloneStep
<1> HIDE DEF AllAlone
<1>3. Spec => []AllAlone
  BY <1>1, <1>2, Invariance, PTL DEF Spec
<1> QED
  BY <1>3 DEF AllAlone

\* A goroutine alone is never played a track twice, whatever the control panel
\* does meanwhile.  (Two goroutines may be: run vcr_reuse.)
THEOREM NoneReused ==
  ASSUME Alone
  PROVE  Spec => NeverReused
<1> DEFINE AllAlone == \A g \in Callers : AloneInv(g)
           Unplayed == \A g \in Callers :
                       (pc[g] = "ReplayTrack" /\ pc'[g] = "InjectRequest") =>
                         ~tracks[call[g].trackNumber].replayed
<1>1. AllAlone /\ [Next]_vars => [Unplayed]_vars
  BY DEF AloneInv
<1>2. Spec => []AllAlone
  BY AloneInvariance
<1> HIDE DEF AllAlone, Unplayed
<1>3. Spec => [][Unplayed]_vars
  BY <1>1, <1>2, PTL DEF Spec
<1> QED
  BY <1>3 DEF Unplayed, NeverReused

\* It is played its own tape: in order, each track once, and none is skipped.
THEOREM OwnRefinement ==
  ASSUME Alone
  PROVE  FixedSpec => OwnTape
<1> DEFINE AllAlone == \A g \in Callers : AloneInv(g)
<1>1. FixedInv /\ AllAlone /\ [Serve]_vars => [Own!Next]_(Own!vars)
  <2> SUFFICES ASSUME FixedInv, AllAlone, [Serve]_vars
               PROVE  [Own!Next]_(Own!vars)
    OBVIOUS
  <2>1. ASSUME NEW g \in Callers, ReplayTrack(g)
        PROVE  Own!Next
    <3>1. ~tracks[call[g].trackNumber].replayed
      BY <2>1 DEF AloneInv, ReplayTrack, Goto
    <3>2. Own!Play(g)
      BY <2>1, <3>1, PlayStep
    <3> QED
      BY <3>2 DEF Own!Next
  <2>2. ASSUME NEW g \in Callers, OtherStep(g)
        PROVE  Own!Next
    <3>1. \/ \E req \in Requests : Own!Ask(g, req)
          \/ Own!Played(g) \/ Own!Miss(g) \/ Own!Refuse(g) \/ Own!GoLive(g)
          \/ Own!Answer(g) \/ Own!Record(g) \/ Own!Save(g)
      BY <2>2 DEF OtherStep,
         Shared!Ask, Shared!Played, Shared!Miss, Shared!Refuse, Shared!GoLive,
         Shared!Answer, Shared!Record, Shared!Save, Shared!Finish, Shared!Move,
         Shared!NoneLeftBefore, Shared!Answers,
         Own!Ask, Own!Played, Own!Miss, Own!Refuse, Own!GoLive,
         Own!Answer, Own!Record, Own!Save, Own!Finish, Own!Move,
         Own!NoneLeftBefore, Own!Answers
    <3> QED
      BY <3>1 DEF Own!Next
  <2> QED
    BY <2>1, <2>2, TapeStep DEF tapeVars, Own!vars
<1>2. Init => Own!Init
  BY TapeInit DEF Shared!Init, Own!Init
<1>3. FixedSpec => []AllAlone
  BY FixedIsSpec, AloneInvariance
<1> HIDE DEF AllAlone
<1> QED
  BY <1>1, <1>2, <1>3, FixedInvariance, PTL DEF FixedSpec, OwnTape, Own!Spec

(***************************************************************************)
(* Whose request the mutators find                                         *)
(***************************************************************************)

\* Being played a track that is marked, before its mutators have been run.
Playing == {"InjectRequest", "MutateReplaying"}

\* As long as no track is played twice, nobody else is played the track of g,
\* so that the request attached to it stays that of g.
PlayerInv(g) ==
  LET trk == tracks[call[g].trackNumber]
  IN /\ pc[g] \in Playing => trk.replayed
     /\ pc[g] = "MutateReplaying" => (trk.response # None => trk.response.request = g)
     /\ \A h \in Callers \ {g} :
          (pc[g] \in Playing /\ pc[h] \in Playing) =>
             call[g].trackNumber # call[h].trackNumber

\* A step that plays a track plays one that was not played before.
PlaysUnplayed ==
  \A g \in Callers : (pc[g] = "ReplayTrack" /\ pc'[g] = "InjectRequest") =>
    ~tracks[call[g].trackNumber].replayed

\* The response of a track changes only while it is played to some call.
LEMMA ResponseStays ==
  ASSUME Inv, [Next]_vars, NEW i \in 1..Len(tracks),
         \A g \in Callers :
           InjectRequest(g) \/ MutateReplaying(g) => call[g].trackNumber # i
  PROVE  tracks'[i].response = tracks[i].response
<1>t. /\ tracks \in Seq(Track) /\ Len(tracks) \in Nat /\ DOMAIN tracks = 1..Len(tracks)
      /\ tracks[i] \in Track
  BY LenProperties, ElementOfSeq DEF Inv, TypeOK
<1>1. ASSUME NEW g \in Callers, InjectRequest(g) \/ MutateReplaying(g)
      PROVE  tracks'[i].response = tracks[i].response
  <2>1. call[g].trackNumber # i
    BY <1>1
  <2> QED
    BY <1>1, <1>t, <2>1 DEF InjectRequest, MutateReplaying
<1>2. ASSUME NEW g \in Callers, ReplayTrack(g)
      PROVE  tracks'[i].response = tracks[i].response
  <2>1. tracks'[i] = tracks[i] \/ tracks'[i] = MarkReplayed(tracks[i])
    BY <1>2, <1>t DEF ReplayTrack
  <2> QED
    BY <1>t, <2>1 DEF MarkReplayed, Track
<1>3. ASSUME NEW g \in Callers, AddTrack(g)
      PROVE  tracks'[i] = tracks[i]
  <2>1. AsUsed(call[g].trk) \in Track
    BY <1>3 DEF AddTrack, Goto, Inv, CallInv, RequestInv, AsUsed, Track
  <2> QED
    BY <1>3, <2>1, <1>t, AppendProperties DEF AddTrack
<1>4. ASSUME NEW g \in Callers, Proceed(g)
      PROVE  tracks'[i].response = tracks[i].response
  BY <1>1, <1>2, <1>3, <1>4
     DEF Proceed, SeekTrack, NumberOfTracks, ReadTrack, Match, NoMatch,
         ToHTTPResponse, Refuse, GoLive, Transport, SkipRecording,
         StartRecording, MutateRecording, Save, SaveFails, cassetteVars
<1>5. ASSUME NEW g \in Callers, NEW req \in Requests, Begin(g, req)
      PROVE  tracks' = tracks
  BY <1>5 DEF Begin, cassetteVars
<1>6. ASSUME ControlPanel \/ UNCHANGED vars
      PROVE  tracks' = tracks
  BY <1>6 DEF ControlPanel, SetNormalMode, SetOfflineMode, SetLiveOnlyMode,
     SetReadOnlyMode, SetRequestMatchers, SetRecordingMutators,
     SetReplayingMutators, Setting, cassetteVars, vars
<1> QED
  BY <1>4, <1>5, <1>6 DEF Next, Serve

\* A call that is being played a track was so before, or has just marked it.
LEMMA AtPlaying ==
  ASSUME Inv, [Next]_vars, NEW h \in Callers, pc'[h] \in Playing
  PROVE  /\ call'[h] = call[h]
         /\ \/ pc[h] = pc'[h] /\ ~MutateReplaying(h) /\ ~InjectRequest(h)
            \/ pc'[h] = "InjectRequest" /\ ReplayTrack(h)
            \/ pc'[h] = "MutateReplaying" /\ InjectRequest(h)
<1>t. pc \in [Callers -> Locations] /\ call \in [Callers -> Call]
  BY DEF Inv, TypeOK
<1>1. ASSUME NEW g \in Callers, Proceed(g), g = h
      PROVE  \/ pc'[h] = "InjectRequest" /\ ReplayTrack(h)
             \/ pc'[h] = "MutateReplaying" /\ InjectRequest(h)
  BY <1>1, <1>t DEF Playing, Proceed, SeekTrack, NumberOfTracks, ReadTrack,
     Match, NoMatch, ReplayTrack, InjectRequest, MutateReplaying,
     ToHTTPResponse, Refuse, GoLive, Transport, SkipRecording,
     StartRecording, MutateRecording, AddTrack, Save, SaveFails, Return, Goto
<1>2. ASSUME NEW g \in Callers, Proceed(g), g # h
      PROVE  pc'[h] = pc[h] /\ call'[h] = call[h]
  BY <1>2, <1>t DEF Proceed, SeekTrack, NumberOfTracks, ReadTrack,
     Match, NoMatch, ReplayTrack, InjectRequest, MutateReplaying,
     ToHTTPResponse, Refuse, GoLive, Transport, SkipRecording,
     StartRecording, MutateRecording, AddTrack, Save, SaveFails, Return, Goto
<1>3. ASSUME NEW g \in Callers, NEW req \in Requests, Begin(g, req)
      PROVE  pc'[h] = pc[h] /\ call'[h] = call[h]
  BY <1>3, <1>t DEF Begin, Goto, Playing
<1>4. ASSUME ControlPanel \/ UNCHANGED vars
      PROVE  pc'[h] = pc[h] /\ call'[h] = call[h]
  BY <1>4 DEF ControlPanel, SetNormalMode, SetOfflineMode, SetLiveOnlyMode,
     SetReadOnlyMode, SetRequestMatchers, SetRecordingMutators,
     SetReplayingMutators, Setting, vars
<1>5. InjectRequest(h) \/ MutateReplaying(h) => pc'[h] # pc[h]
  BY <1>t DEF InjectRequest, MutateReplaying, Goto
<1>6. ReplayTrack(h) \/ InjectRequest(h) => call' = call
  BY DEF ReplayTrack, InjectRequest
<1>7. ASSUME pc'[h] = pc[h] /\ call'[h] = call[h]
      PROVE  pc[h] = pc'[h] /\ ~MutateReplaying(h) /\ ~InjectRequest(h)
  BY <1>5, <1>7
<1> QED
  BY <1>1, <1>2, <1>3, <1>4, <1>6, <1>7 DEF Next, Serve

\* A step that plays nothing twice keeps the players apart, and the request of
\* each on its track.
LEMMA PlayersStep ==
  ASSUME Inv, [Next]_vars, [PlaysUnplayed]_vars,
         \A g \in Callers : PlayerInv(g)
  PROVE  \A g \in Callers : PlayerInv(g)'
<1>t. /\ tracks \in Seq(Track) /\ Len(tracks) \in Nat /\ DOMAIN tracks = 1..Len(tracks)
      /\ tracksLoaded \in Nat /\ tracksLoaded <= Len(tracks)
      /\ pc \in [Callers -> Locations] /\ call \in [Callers -> Call]
  BY LenProperties DEF Inv, TypeOK, RecordedAreUsed
<1>r. \A g \in Callers : pc[g] \in Playing \cup {"ReplayTrack"} =>
        call[g].trackNumber \in 1..Len(tracks)
  BY <1>t DEF Inv, CallInv, ReplayInv, Replays, Playing
<1>m. \A i \in 1..Len(tracks) : tracks[i].replayed => tracks'[i].replayed
  BY CassetteStep DEF Grows
<1>p. ASSUME NEW g \in Callers, ReplayTrack(g)
      PROVE  /\ pc[g] = "ReplayTrack"
             /\ ~tracks[call[g].trackNumber].replayed
             /\ tracks'[call[g].trackNumber].replayed
  <2>1. pc[g] = "ReplayTrack" /\ pc'[g] = "InjectRequest" /\ vars' # vars
    BY <1>p, <1>t DEF ReplayTrack, Goto, vars
  <2>2. tracks[call[g].trackNumber] \in Track
    BY <2>1, <1>r, <1>t, ElementOfSeq
  <2>3. tracks'[call[g].trackNumber].replayed
    BY <1>p, <2>1, <2>2, <1>r, <1>t DEF ReplayTrack, MarkReplayed, Track
  <2> QED
    BY <2>1, <2>3 DEF PlaysUnplayed
<1>a. \A g \in Callers : InjectRequest(g) \/ MutateReplaying(g) => pc[g] \in Playing
  BY DEF InjectRequest, MutateReplaying, Goto, Playing
<1> SUFFICES ASSUME NEW g \in Callers
             PROVE  PlayerInv(g)'
  OBVIOUS
<1>1. pc'[g] \in Playing => tracks'[call'[g].trackNumber].replayed
  <2> SUFFICES ASSUME pc'[g] \in Playing
               PROVE  tracks'[call'[g].trackNumber].replayed
    OBVIOUS
  <2>1. call'[g] = call[g] /\ (pc[g] \in Playing \/ ReplayTrack(g))
    BY <1>a, AtPlaying
  <2> QED
    BY <2>1, <1>r, <1>m, <1>p DEF PlayerInv
<1>2. \A h \in Callers \ {g} :
        (pc'[g] \in Playing /\ pc'[h] \in Playing) =>
          call'[g].trackNumber # call'[h].trackNumber
  <2> SUFFICES ASSUME NEW h \in Callers \ {g}, pc'[g] \in Playing, pc'[h] \in Playing
               PROVE  call'[g].trackNumber # call'[h].trackNumber
    OBVIOUS
  <2>1. /\ call'[g] = call[g] /\ (pc[g] \in Playing \/ ReplayTrack(g))
        /\ call'[h] = call[h] /\ (pc[h] \in Playing \/ ReplayTrack(h))
    BY <1>a, AtPlaying
  <2>2. ~(ReplayTrack(g) /\ ReplayTrack(h))
    BY <1>t DEF ReplayTrack, Goto
  <2> QED
    BY <2>1, <2>2, <1>p DEF PlayerInv
<1>3. ASSUME pc'[g] = "MutateReplaying"
      PROVE  tracks'[call'[g].trackNumber].response # None =>
               tracks'[call'[g].trackNumber].response.request = g
  <2> DEFINE i == call[g].trackNumber
  <2>1. call'[g] = call[g]
    BY <1>3, AtPlaying DEF Playing
  <2>2. CASE InjectRequest(g)
    <3>1. pc[g] = "InjectRequest"
      BY <2>2 DEF InjectRequest, Goto
    <3>2. i \in DOMAIN tracks /\ tracks[i] \in Track
      BY <3>1, <1>r, <1>t, ElementOfSeq DEF Playing
    <3>3. CASE tracks[i].response = None
      BY <2>1, <2>2, <3>3 DEF InjectRequest
    <3>4. CASE tracks[i].response # None
      <4>1. tracks[i].response \in Response
        BY <3>2, <3>4 DEF Track
      <4>2. tracks'[i].response = Inject(tracks[i].response, g)
        BY <2>2, <3>2, <3>4 DEF InjectRequest, Track
      <4> QED
        BY <2>1, <4>1, <4>2 DEF Inject, Response
    <3> QED
      BY <3>3, <3>4
  <2>3. CASE pc[g] = "MutateReplaying" /\ ~MutateReplaying(g) /\ ~InjectRequest(g)
    <3>1. i \in 1..Len(tracks) /\ pc[g] \in Playing
      BY <2>3, <1>r DEF Playing
    <3>2. \A h \in Callers :
            InjectRequest(h) \/ MutateReplaying(h) => call[h].trackNumber # i
      BY <2>3, <3>1, <1>a DEF PlayerInv
    <3>3. tracks'[i].response = tracks[i].response
      BY <3>1, <3>2, ResponseStays
    <3> QED
      BY <2>1, <2>3, <3>3 DEF PlayerInv
  <2> QED
    BY <1>3, <2>2, <2>3, AtPlaying DEF Playing
<1> QED
  BY <1>1, <1>2, <1>3 DEF PlayerInv

\* However many goroutines share a VCR, and whatever the control panel does, the
\* replaying mutators of a call find that very call's request in
\* Response.Request, which is set and read without a lock, as long as no track
\* is played twice.
THEOREM AttachedUnlessReused == Spec /\ NeverReused => []CurrentRequestAttached
<1> DEFINE Players == \A g \in Callers : PlayerInv(g)
<1>1. Init => Players
  BY DEF Init, PlayerInv, Playing
<1>2. Inv /\ Players /\ [Next]_vars /\ [PlaysUnplayed]_vars => Players'
  BY PlayersStep
<1>3. Players => CurrentRequestAttached
  BY DEF PlayerInv, CurrentRequestAttached
<1>4. NeverReused <=> [][PlaysUnplayed]_vars
  BY DEF NeverReused, PlaysUnplayed
<1> HIDE DEF Players
<1> QED
  BY <1>1, <1>2, <1>3, <1>4, Invariance, PTL DEF Spec
=============================================================================
