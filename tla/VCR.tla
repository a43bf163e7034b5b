-------------------------------- MODULE VCR --------------------------------
(***************************************************************************)
(* A VCR in use: goroutines that send requests through one vcrTransport,   *)
(* its PrintedCircuitBoard (the settings) and its Cassette (the tracks in  *)
(* memory, and the file they are saved to), while a test may turn the      *)
(* knobs of the ControlPanel at any moment.                                *)
(*                                                                         *)
(* Every method of Cassette holds trackSliceMutex for its whole body, so   *)
(* each is one step here.  Nothing holds the mutex ACROSS two methods, and *)
(* the settings and a replayed track's Response are read and written with  *)
(* no lock at all: RoundTrip is therefore cut at each of those accesses.   *)
(*                                                                         *)
(* Track numbers start at 1 here and at 0 in the code.                     *)
(*                                                                         *)
(* A definition whose name has an underscore (More_OffByOne) is what a bug *)
(* could make of the one that follows it (More).  No specification uses    *)
(* it: it is there to show that a property would notice.                   *)
(***************************************************************************)
EXTENDS Naturals, Sequences

CONSTANTS
  Callers,            \* goroutines that call http.Client.Do
  Requests,           \* what a RequestMatcher can tell apart
  None,               \* Go's nil
  Unreadable,         \* a cassette file that LoadCassette panics on
  Cassettes,          \* the cassettes LoadCassette may return
  Matchers,           \* collections of matchers: the pairs each one accepts
  RecordingMutators,  \* names of mutator collections, and what each does
  Recording,
  ReplayingMutators,
  Replaying,
  NoMutators,         \* the empty collection of either kind
  MaxTracks           \* no request is sent once this many tracks exist

(***************************************************************************)
(* A Response carries the one header that differs from call to call (the   *)
(* X-Transaction-Id of the README, here the caller it belongs to), and     *)
(* Response.Request: whose "current" request is attached at replay time.   *)
(* A track without a Response is a recorded transport error.               *)
(***************************************************************************)
Response == [header : Callers \cup {None}, request : Callers \cup {None}]

Track == [request  : Requests,
          response : Response \cup {None},
          replayed : BOOLEAN]

Modes == {"Normal", "LiveOnly", "Offline"}

PCB == [httpMode               : Modes,
        readOnly               : BOOLEAN,
        requestMatchers        : Matchers,
        trackRecordingMutators : RecordingMutators,
        trackReplayingMutators : ReplayingMutators]

\* What json.Marshal keeps of a track: neither the unexported "replayed" nor
\* Response.Request, which is tagged "-".
OnDisk_WithRequest(trk) == [trk EXCEPT !.replayed = FALSE]

OnDisk(trk) ==
  [request  |-> trk.request,
   response |-> IF trk.response = None THEN None
                ELSE [header |-> trk.response.header, request |-> None],
   replayed |-> FALSE]

ASSUME CassettesAssumption ==
  /\ Cassettes \subseteq Seq(Track)
  /\ Unreadable \notin Cassettes
  /\ \A k7 \in Cassettes : \A i \in 1..Len(k7) : k7[i] = OnDisk(k7[i])

ASSUME NoneAssumption == None \notin Response

ASSUME MaxTracksAssumption == MaxTracks \in Nat

ASSUME SettingsAssumption ==
  /\ Matchers \subseteq SUBSET (Requests \X Requests)
  /\ Recording \in [RecordingMutators -> [Track -> Track]]
  /\ Replaying \in [ReplayingMutators -> [Response -> Response]]
  /\ NoMutators \in RecordingMutators \cap ReplayingMutators
  /\ \A trk \in Track : Recording[NoMutators][trk] = trk
  /\ \A resp \in Response : Replaying[NoMutators][resp] = resp

VARIABLES
  tracks,        \* Cassette.Tracks
  tracksLoaded,  \* Cassette.tracksLoaded
  stored,        \* the cassette file
  pcb,           \* the settings
  pc,            \* where each goroutine is in RoundTrip
  call,          \* its local variables
  outcome,       \* what its last finished call returned; "recorded" is
                 \* history: the track that went to the file for it
  lived          \* history: the values the settings have had during its call

cassetteVars == <<tracks, tracksLoaded, stored>>
vars == <<tracks, tracksLoaded, stored, pcb, pc, call, outcome, lived>>

Locations == {"Idle", "SeekTrack", "NumberOfTracks", "Track", "Match",
              "ReplayTrack", "InjectRequest", "MutateReplaying",
              "ToHTTPResponse", "CheckOffline", "Transport", "CheckReadOnly",
              "MutateRecording", "AddTrack", "Save"}

\* The local variables of RoundTrip and SeekTrack, and what RoundTrip returns.
Call == [request : Requests \cup {None}, numberOfTracks : Nat,
         trackNumber : Nat, trk : Track \cup {None},
         response : Response \cup {None}]

Outcome ==
  [kind : {"None", "Replayed", "Offline", "Live", "Recorded", "SaveError"},
   response : Response \cup {None}, recorded : Track \cup {None}]

Matches(req, trk) == <<req, trk.request>> \in pcb.requestMatchers

\* The local variables of a call that holds nothing but its request.
Fresh(req) == [request |-> req, numberOfTracks |-> 0, trackNumber |-> 0,
               trk |-> None, response |-> None]

NoOutcome == [kind |-> "None", response |-> None, recorded |-> None]

Lived == [httpMode : SUBSET Modes, readOnly : SUBSET BOOLEAN,
          requestMatchers : SUBSET Matchers]

\* The history of a goroutine without a call, of a call that begins, and of
\* one that finds the settings changed.
NotLived == [httpMode |-> {}, readOnly |-> {}, requestMatchers |-> {}]
LivedWith(past, board) ==
  [httpMode        |-> past.httpMode \cup {board.httpMode},
   readOnly        |-> past.readOnly \cup {board.readOnly},
   requestMatchers |-> past.requestMatchers \cup {board.requestMatchers}]

\* NewVCR: load the cassette, apply the With* settings.
Init ==
  /\ tracks \in Cassettes
  /\ tracksLoaded = Len(tracks)
  /\ stored = tracks
  /\ pcb \in PCB
  /\ pc = [g \in Callers |-> "Idle"]
  /\ call = [g \in Callers |-> Fresh(None)]
  /\ outcome = [g \in Callers |-> NoOutcome]
  /\ lived = [g \in Callers |-> NotLived]

Goto(g, from, to) == pc[g] = from /\ pc' = [pc EXCEPT ![g] = to]

Return(g, from, kind, resp, recorded) ==
  /\ Goto(g, from, "Idle")
  /\ call' = [call EXCEPT ![g] = Fresh(None)]
  /\ outcome' = [outcome EXCEPT ![g] =
                   [kind |-> kind, response |-> resp, recorded |-> recorded]]
  /\ lived' = [lived EXCEPT ![g] = NotLived]

\* RoundTrip is entered: the request is cloned.
Begin(g, req) ==
  /\ Len(tracks) < MaxTracks
  /\ Goto(g, "Idle", "SeekTrack")
  /\ call' = [call EXCEPT ![g] = Fresh(req)]
  /\ outcome' = [outcome EXCEPT ![g] = NoOutcome]
  /\ lived' = [lived EXCEPT ![g] = LivedWith(NotLived, pcb)]
  /\ UNCHANGED <<cassetteVars, pcb>>

(***************************************************************************)
(* SeekTrack: the scan of the cassette                                     *)
(***************************************************************************)

\* In live-only mode the cassette is not looked at.
Seeks_NormalOnly == pcb.httpMode = "Normal"
Seeks == pcb.httpMode # "LiveOnly"

SeekTrack(g) ==
  /\ Goto(g, "SeekTrack", IF Seeks THEN "NumberOfTracks" ELSE "CheckOffline")
  /\ UNCHANGED <<cassetteVars, pcb, call, outcome, lived>>

\* The length is read once, before the loop; the loop enters its first round.
FirstTrack_Last(n) == n
FirstTrack(n) == 1

NumberOfTracks(g) ==
  /\ IF tracks = <<>>
     THEN Goto(g, "NumberOfTracks", "CheckOffline") /\ UNCHANGED call
     ELSE /\ Goto(g, "NumberOfTracks", "Track")
          /\ call' = [call EXCEPT ![g].numberOfTracks = Len(tracks),
                                  ![g].trackNumber = FirstTrack(Len(tracks))]
  /\ UNCHANGED <<cassetteVars, pcb, outcome, lived>>

\* trackMatches takes a copy of the track under the read lock ...
ReadTrack(g) ==
  /\ Goto(g, "Track", "Match")
  /\ call' = [call EXCEPT ![g].trk = tracks[call[g].trackNumber]]
  /\ UNCHANGED <<cassetteVars, pcb, outcome, lived>>

\* ... and looks at the copy after the lock is released.
Found_Reuses(c) == Matches(c.request, c.trk)
Found(c) == ~c.trk.replayed /\ Matches(c.request, c.trk)

Match(g) ==
  LET c == call[g]
  IN /\ Goto(g, "Match", "ReplayTrack")
     /\ Found(c)
     /\ call' = [call EXCEPT ![g] =
                   [Fresh(c.request) EXCEPT !.trackNumber = c.trackNumber]]
     /\ UNCHANGED <<cassetteVars, pcb, outcome, lived>>

More_OffByOne(c) == c.trackNumber <= c.numberOfTracks
More_Rereads(c) == c.trackNumber < Len(tracks)
More(c) == c.trackNumber < c.numberOfTracks

NextTrack_Same(n) == n
NextTrack(n) == n + 1

NoMatch(g) ==
  LET c == call[g]
  IN /\ pc[g] = "Match" /\ ~Found(c)
     /\ IF More(c)
        THEN /\ Goto(g, "Match", "Track")
             /\ call' = [call EXCEPT ![g].trackNumber = NextTrack(@),
                                     ![g].trk = None]
        ELSE /\ Goto(g, "Match", "CheckOffline")
             /\ call' = [call EXCEPT ![g] = Fresh(c.request)]
     /\ UNCHANGED <<cassetteVars, pcb, outcome, lived>>

(***************************************************************************)
(* Replaying a track                                                       *)
(***************************************************************************)

\* Marks the track, whatever happened to it since the copy was taken, and
\* keeps a pointer to it.
MarkReplayed_Not(trk) == trk
MarkReplayed(trk) == [trk EXCEPT !.replayed = TRUE]

ReplayTrack(g) ==
  /\ Goto(g, "ReplayTrack", "InjectRequest")
  /\ tracks' = [tracks EXCEPT ![call[g].trackNumber] = MarkReplayed(@)]
  /\ UNCHANGED <<tracksLoaded, stored, pcb, call, outcome, lived>>

\* The two steps below write through the pointer with no lock.  Response is
\* itself a pointer that the slice element shares, so they write to the
\* cassette.
Inject_Nothing(resp, g) == resp
Inject(resp, g) == [resp EXCEPT !.request = g]

InjectRequest(g) ==
  LET i == call[g].trackNumber
  IN /\ Goto(g, "InjectRequest", "MutateReplaying")
     /\ tracks' = IF tracks[i].response = None THEN tracks
                  ELSE [tracks EXCEPT ![i].response = Inject(@, g)]
     /\ UNCHANGED <<tracksLoaded, stored, pcb, call, outcome, lived>>

MutateReplaying(g) ==
  LET i == call[g].trackNumber
  IN /\ Goto(g, "MutateReplaying", "ToHTTPResponse")
     /\ tracks' = IF tracks[i].response = None THEN tracks
                  ELSE [tracks EXCEPT ![i].response =
                          Replaying[pcb.trackReplayingMutators][@]]
     /\ UNCHANGED <<tracksLoaded, stored, pcb, call, outcome, lived>>

\* The http.Response is made of what the track holds by now; the request it
\* carries is the track's, not Response.Request.
ToHTTPResponse(g) ==
  /\ Return(g, "ToHTTPResponse", "Replayed",
            OnDisk(tracks[call[g].trackNumber]).response, None)
  /\ UNCHANGED <<cassetteVars, pcb>>

(***************************************************************************)
(* Live calls and recording                                                *)
(***************************************************************************)

\* httpMode is read a second time.
MayGoLive_Always == TRUE
MayGoLive == pcb.httpMode # "Offline"

Refuse(g) ==
  /\ pcb.httpMode = "Offline"
  /\ Return(g, "CheckOffline", "Offline", None, None)
  /\ UNCHANGED <<cassetteVars, pcb>>

GoLive(g) ==
  /\ MayGoLive
  /\ Goto(g, "CheckOffline", "Transport")
  /\ UNCHANGED <<cassetteVars, pcb, call, outcome, lived>>

\* The server answers this call, or the transport fails and there is no
\* response.  ToResponse keeps none of the request.
ToResponse_Whole(g) == [header |-> g, request |-> call[g].request]
ToResponse(g) == [header |-> g, request |-> None]

Transport(g) ==
  /\ Goto(g, "Transport", "CheckReadOnly")
  /\ \E resp \in {None, ToResponse(g)} :
       call' = [call EXCEPT ![g].response = resp]
  /\ UNCHANGED <<cassetteVars, pcb, outcome, lived>>

SkipRecording(g) ==
  /\ pcb.readOnly
  /\ Return(g, "CheckReadOnly", "Live", call[g].response, None)
  /\ UNCHANGED <<cassetteVars, pcb>>

StartRecording(g) ==
  /\ ~pcb.readOnly
  /\ Goto(g, "CheckReadOnly", "MutateRecording")
  /\ UNCHANGED <<cassetteVars, pcb, call, outcome, lived>>

\* A new track is made of copies of the request and the response, and handed
\* to the recording mutators.
MutateRecording(g) ==
  LET new == [request  |-> call[g].request,
              response |-> call[g].response,
              replayed |-> FALSE]
  IN /\ Goto(g, "MutateRecording", "AddTrack")
     /\ call' = [call EXCEPT ![g].trk =
                   Recording[pcb.trackRecordingMutators][new]]
     /\ UNCHANGED <<cassetteVars, pcb, outcome, lived>>

\* A recorded track counts as replayed: it has just been used.
AsUsed_Not(trk) == trk
AsUsed(trk) == [trk EXCEPT !.replayed = TRUE]

AddTrack(g) ==
  /\ Goto(g, "AddTrack", "Save")
  /\ tracks' = Append(tracks, AsUsed(call[g].trk))
  /\ UNCHANGED <<tracksLoaded, stored, pcb, call, outcome, lived>>

\* The whole cassette is written, tracks added meanwhile by others included.
Content_UsedOnly(trks) ==
  LET Used(trk) == trk.replayed IN SelectSeq(trks, Used)
Content_LastDropped(trks) == [i \in 1..(Len(trks) - 1) |-> OnDisk(trks[i])]
Content(trks) == [i \in 1..Len(trks) |-> OnDisk(trks[i])]

Save(g) ==
  /\ Return(g, "Save", "Recorded", call[g].response, OnDisk(call[g].trk))
  /\ stored' = Content(tracks)
  /\ UNCHANGED <<tracks, tracksLoaded, pcb>>

\* Saving failed: before the file was touched, or half way through writing
\* it.  The response is withheld; the track stays in memory.
SaveFails(g) ==
  /\ Return(g, "Save", "SaveError", None, None)
  /\ stored' \in {stored, Unreadable}
  /\ UNCHANGED <<tracks, tracksLoaded, pcb>>

(***************************************************************************)
(* The control panel, used by a goroutine of its own                       *)
(***************************************************************************)

Setting(field, value) ==
  /\ pcb' = [pcb EXCEPT ![field] = value]
  /\ lived' = [g \in Callers |-> IF pc[g] = "Idle" THEN lived[g]
                                 ELSE LivedWith(lived[g], pcb')]
  /\ UNCHANGED <<cassetteVars, pc, call, outcome>>

SetNormalMode   == Setting("httpMode", "Normal")
SetOfflineMode  == Setting("httpMode", "Offline")
SetLiveOnlyMode == Setting("httpMode", "LiveOnly")
SetReadOnlyMode(state) == Setting("readOnly", state)

\* Set* and Add* alike leave the board with another collection; Clear* with
\* the empty one.
SetRequestMatchers(rm)   == Setting("requestMatchers", rm)
SetRecordingMutators(ms) == Setting("trackRecordingMutators", ms)
SetReplayingMutators(ms) == Setting("trackReplayingMutators", ms)

(***************************************************************************)
(* Specifications                                                          *)
(***************************************************************************)

\* One step of a call that has begun.
Proceed(g) ==
  \/ SeekTrack(g) \/ NumberOfTracks(g) \/ ReadTrack(g) \/ Match(g)
  \/ NoMatch(g) \/ ReplayTrack(g) \/ InjectRequest(g) \/ MutateReplaying(g)
  \/ ToHTTPResponse(g)
  \/ Refuse(g) \/ GoLive(g) \/ Transport(g)
  \/ SkipRecording(g) \/ StartRecording(g) \/ MutateRecording(g)
  \/ AddTrack(g) \/ Save(g) \/ SaveFails(g)

Serve == \E g \in Callers : Proceed(g) \/ \E req \in Requests : Begin(g, req)

ControlPanel ==
  \/ SetNormalMode \/ SetOfflineMode \/ SetLiveOnlyMode
  \/ \E state \in BOOLEAN : SetReadOnlyMode(state)
  \/ \E rm \in Matchers : SetRequestMatchers(rm)
  \/ \E ms \in RecordingMutators : SetRecordingMutators(ms)
  \/ \E ms \in ReplayingMutators : SetReplayingMutators(ms)

Next == Serve \/ ControlPanel

Spec == Init /\ [][Next]_vars

\* A session whose settings are those given to NewVCR.
FixedSpec == Init /\ [][Serve]_vars

\* The Go scheduler runs every goroutine, sync.RWMutex starves none, and the
\* transport answers or times out.  Nobody has to send a request.
FairSpec == Spec /\ \A g \in Callers : WF_vars(Proceed(g))

(***************************************************************************)
(* Properties                                                              *)
(***************************************************************************)

Scanning  == {"Track", "Match"}
Replays   == {"ReplayTrack", "InjectRequest", "MutateReplaying",
              "ToHTTPResponse"}
Records   == {"MutateRecording", "AddTrack", "Save"}

\* What a call knows is a number of tracks that existed, and a track number
\* within it.
TypeOK ==
  /\ tracks \in Seq(Track)
  /\ tracksLoaded \in Nat
  /\ stored = Unreadable \/ stored \in Seq(Track)
  /\ pcb \in PCB
  /\ pc \in [Callers -> Locations]
  /\ call \in [Callers -> Call]
  /\ outcome \in [Callers -> Outcome]
  /\ lived \in [Callers -> Lived]

\* A call that scans does so below a number of tracks that it read once, so
\* that its search ends however fast the cassette grows, and that the cassette
\* still has; a call that replays has the number of a track that exists.
\* Cassette.Track never panics and ReplayTrack never reports an invalid number,
\* although the length was read in an earlier critical section.
SeekInBounds ==
  \A g \in Callers :
    /\ pc[g] \in Scanning =>
         /\ call[g].trackNumber \in 1..call[g].numberOfTracks
         /\ call[g].numberOfTracks <= Len(tracks)
    /\ pc[g] \in Replays => call[g].trackNumber \in DOMAIN tracks

\* Only tracks that were on the cassette when it was loaded are ever replayed,
\* even when a call scans past a track that another one is recording: the
\* README's "unless a track already existed on the cassette at the time it was
\* loaded".
OnlyLoadedTracksReplay ==
  \A g \in Callers : pc[g] \in Replays => call[g].trackNumber <= tracksLoaded

\* The matchers are those the call began with.
SameMatchers(g) == lived[g].requestMatchers = {pcb.requestMatchers}

\* Unless the matchers change, a call plays the first track that matches its
\* request and has not been played, whatever becomes of the mode: all matching
\* tracks in front of the one it picked are already used up.
PlaybackInOrder ==
  \A g \in Callers : (SameMatchers(g) /\ pc[g] = "ReplayTrack") =>
    \A i \in 1..(call[g].trackNumber - 1) :
      tracks[i].replayed \/ ~Matches(call[g].request, tracks[i])

\* A call goes live, or is refused for being offline, only when no track on
\* the cassette could have answered it, recordings made since it counted the
\* tracks included; however often the mode was switched meanwhile between
\* normal and offline, which RoundTrip reads twice.
MissIsJustified ==
  \A g \in Callers :
    /\ pc[g] = "CheckOffline"
    /\ SameMatchers(g) /\ "LiveOnly" \notin lived[g].httpMode
    => \A i \in DOMAIN tracks :
         tracks[i].replayed \/ ~Matches(call[g].request, tracks[i])

\* The same of a refusal, live-only mode included: RoundTrip says "no track
\* matched on cassette and offline mode is active".
RefusalIsJustified ==
  [][\A g \in Callers : (SameMatchers(g) /\ Refuse(g)) =>
       \A i \in DOMAIN tracks :
         tracks[i].replayed \/ ~Matches(call[g].request, tracks[i])]_vars

\* What a call does is allowed by a setting that was in force at some moment of
\* the call, although RoundTrip reads the mode twice and the read-only flag
\* after the live call, which may take long: who was offline all along never
\* reaches the transport, live-only never replays, read-only never records,
\* whatever becomes of the other settings.
SettingsRespected ==
  \A g \in Callers :
    /\ pc[g] = "Transport" => lived[g].httpMode # {"Offline"}
    /\ pc[g] \in Scanning \cup Replays => lived[g].httpMode # {"LiveOnly"}
    /\ pc[g] \in Records => FALSE \in lived[g].readOnly

\* When the client of a recorded call has its response, the cassette file
\* holds that very track, whatever the saves and replays of the others did
\* since, unless a failed save of another call has spoilt the file.
RecordedIsStored ==
  \A g \in Callers : outcome[g].kind = "Recorded" =>
    \/ stored = Unreadable
    \/ \E i \in DOMAIN stored : stored[i] = outcome[g].recorded

\* A readable cassette file is a prefix of the cassette in memory that holds
\* at least the tracks it was loaded with: no interleaving of two recordings
\* and their saves loses, duplicates or reorders a track.
FileIsPrefix ==
  stored # Unreadable =>
    /\ Len(stored) \in tracksLoaded..Len(tracks)
    /\ \A i \in DOMAIN stored : stored[i].request = tracks[i].request

\* A track that has been played is not played again: SetReplayed "so it
\* doesn't get re-used".
NeverReused ==
  [][\A g \in Callers :
       (pc[g] = "ReplayTrack" /\ pc'[g] = "InjectRequest") =>
         ~tracks[call[g].trackNumber].replayed]_vars

\* The replaying mutators of a call find that very call's request in
\* Response.Request, the "current" HTTP request.
CurrentRequestAttached ==
  \A g \in Callers : pc[g] = "MutateReplaying" =>
    LET resp == tracks[call[g].trackNumber].response
    IN resp # None => resp.request = g

\* A track on the file is never rewritten with other content: replaying, and
\* what mutators do to a track that is replayed, "does not change the cassette
\* file".
SavedTracksKept ==
  [][(stored # Unreadable /\ stored' # Unreadable) =>
       \A i \in DOMAIN stored :
         i \in DOMAIN stored' /\ stored'[i] = stored[i]]_stored

\* RoundTrip always returns: the scan ends although the cassette grows while
\* it runs, whatever the control panel does.
EveryCallReturns == \A g \in Callers : pc[g] # "Idle" ~> pc[g] = "Idle"
=============================================================================
