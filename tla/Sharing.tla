------------------------------ MODULE Sharing ------------------------------
(***************************************************************************)
(* Who writes to whose memory.  The headers, bodies and TLS states of the  *)
(* live traffic, of the tracks on the cassette, of the arguments of        *)
(* matchers and mutators and of replayed http.Responses are cells here;    *)
(* some of these objects have cells of their own and some share them, and  *)
(* several calls are under way at once.                                    *)
(*                                                                         *)
(* The value of a cell is the set of marks left on it since the client or  *)
(* the server made it: who changed it, whether reading it ended in an      *)
(* error.  Copying a cell copies its marks; sharing it copies its name.    *)
(*                                                                         *)
(* Which request matches which track is left open (module VCR has that):   *)
(* a call may find any track that was loaded and not played, or none.      *)
(*                                                                         *)
(* A definition with an underscore in its name is what a bug could make of *)
(* the one that follows it.                                                *)
(***************************************************************************)
EXTENDS Naturals, Sequences, FiniteSets

CONSTANTS
  Calls,       \* calls of RoundTrip, each in a goroutine of its own
  MaxTracks,   \* none is begun once there are so many tracks
  Nothing      \* no file yet, no cell

ASSUME CallsAssumption ==
  Calls \cap Nat = {} /\ IsFiniteSet(Calls) /\ MaxTracks \in Nat \ {0}
ASSUME NothingAssumption == Nothing \notin Calls

\* What a track refers to: headers and trailers of its request and of its
\* response, the bytes of their bodies, the response's TLS state.
Parts  == {"request", "requestBody", "response", "body", "tls"}
Bodies == {"requestBody", "body"}

Marks == {"cut", "drained", "stripped", "matcher", "recording", "replaying",
          "liveClient", "replayClient"}

\* The client's request, the clone of it RoundTrip works with, the matchers'
\* arguments, Response.Request, the live response; and the track made of them.
Owned == {"sent", "sentBody", "clone", "wanted", "trackArg", "current",
          "live", "liveBody", "liveTLS"}

Owners == Calls \cup 1..(MaxTracks + Cardinality(Calls))
Cells  == Owners \X (Owned \cup Parts)

VARIABLES
  heap,      \* the marks on each cell
  tracks,    \* Cassette.Tracks: the cells of each, and whether it counts as replayed
  file,      \* the marks on each part of each track when it was last saved
  pc,        \* where each call is
  at,        \* the track it replays
  new,       \* the track it records
  given,     \* the cells behind the http.Response its client was played
  mutates,   \* the VCR has replaying mutators
  inPlace,   \* body mutators edit the bytes they are given
  everPlayed \* history: the numbers of the tracks ever played

settings == <<mutates, inPlace>>
locals   == <<at, new, given>>
vars     == <<heap, tracks, file, pc, locals, settings, everPlayed>>

NoTrack == [part \in Parts |-> Nothing]

\* A track that was read from the file has cells of its own.
Loaded(i) == [cells |-> [part \in Parts |-> <<i, part>>], current |-> Nothing,
              replayed |-> FALSE]

Saved == [i \in DOMAIN tracks |-> [part \in Parts |-> heap[tracks[i].cells[part]]]]

Init ==
  /\ heap = [c \in Cells |-> {}]
  /\ tracks = <<Loaded(1)>>
  /\ file = Saved
  /\ pc = [g \in Calls |-> "Idle"]
  /\ at = [g \in Calls |-> 0]
  /\ new = [g \in Calls |-> NoTrack]
  /\ given = [g \in Calls |-> {}]
  /\ mutates \in BOOLEAN
  /\ inPlace \in BOOLEAN
  /\ everPlayed = {}

Goto(g, from, to) == pc[g] = from /\ pc' = [pc EXCEPT ![g] = to]

Marked(cells, mark) ==
  [c \in Cells |-> IF c \in cells THEN heap[c] \cup {mark} ELSE heap[c]]

\* The bytes that were read before a body came to its end, or to an error that
\* is only logged; they take the place of the body.
ReadAll == {{}, {"cut"}}
Restored_Not(bytes) == {"drained"}
Restored(bytes) == bytes

(***************************************************************************)
(* Searching                                                               *)
(***************************************************************************)

\* CloneHTTPRequest reads the client's body and puts it back.
CloneHTTPRequest(g) ==
  /\ Len(tracks) < MaxTracks
  /\ Goto(g, "Idle", "Seeking")
  /\ \E bytes \in ReadAll : heap' = [heap EXCEPT ![<<g, "sentBody">>] = Restored(bytes)]
  /\ UNCHANGED <<tracks, file, locals, settings, everPlayed>>

\* The matchers get copies of both requests for each track they look at.
RequestArg_Sent(g) == <<g, "sent">>
RequestArg(g) == <<g, "wanted">>

TrackArgs_Originals(g) == {tracks[i].cells["request"] : i \in DOMAIN tracks}
TrackArgs(g) == {<<g, "trackArg">>}

SeekTrack(g) ==
  /\ pc[g] = "Seeking"
  /\ heap' = Marked({RequestArg(g)} \cup TrackArgs(g), "matcher")
  /\ \/ /\ Goto(g, "Seeking", "CheckMode")
        /\ UNCHANGED at
     \/ /\ Goto(g, "Seeking", "Found")
        /\ \E i \in DOMAIN tracks : ~tracks[i].replayed /\ at' = [at EXCEPT ![g] = i]
  /\ UNCHANGED <<tracks, file, new, given, settings, everPlayed>>

(***************************************************************************)
(* Replaying                                                               *)
(***************************************************************************)

\* ReplayTrack hands out a pointer into the cassette.
Pointer_Beyond(i) == i + 1
Pointer_OffByOne(i) == IF i < Len(tracks) THEN i + 1 ELSE i
Pointer(i) == i

\* The current request was copied on the way, by ToRequest and by Clone.
CurrentCell_Sent(g) == <<g, "sent">>
CurrentCell(g) == <<g, "current">>

ReplayTrack(g) ==
  LET i == Pointer(at[g])
  IN /\ Goto(g, "Found", "MutateReplaying")
     /\ at' = [at EXCEPT ![g] = i]
     /\ tracks' = [tracks EXCEPT ![i].current = CurrentCell(g), ![at[g]].replayed = TRUE]
     /\ everPlayed' = everPlayed \cup {at[g]}
     /\ UNCHANGED <<heap, file, new, given, settings>>

\* Mutators change whatever a track refers to.  One for a body assigns what its
\* function returns: other bytes, or those it was given, edited.
Kept(cells, part) == part \notin Bodies \/ inPlace

Mutated(g, cells) ==
  [part \in Parts |-> IF Kept(cells, part) THEN cells[part] ELSE <<g, part>>]

MutatedHeap(g, cells, also, mark) ==
  [c \in Cells |->
     IF c \in also \/ \E part \in Parts : Kept(cells, part) /\ cells[part] = c
     THEN heap[c] \cup {mark}
     ELSE IF \E part \in Parts : ~Kept(cells, part) /\ c = <<g, part>>
     THEN heap[cells[c[2]]] \cup {mark}
     ELSE heap[c]]

MutateReplaying(g) ==
  LET trk == tracks[at[g]]
  IN /\ Goto(g, "MutateReplaying", "ToHTTPResponse")
     /\ IF mutates
        THEN /\ tracks' = [tracks EXCEPT ![at[g]].cells = Mutated(g, @)]
             /\ heap' = MutatedHeap(g, trk.cells, {trk.current}, "replaying")
        ELSE UNCHANGED <<tracks, heap>>
     /\ UNCHANGED <<file, locals, settings, everPlayed>>

\* The http.Response refers to the header and the TLS state of the track, and
\* its Request to those of the track's request; its Body only reads.
ToHTTPResponse(g) ==
  /\ Goto(g, "ToHTTPResponse", "Played")
  /\ given' = [given EXCEPT ![g] =
                 {tracks[at[g]].cells[part] : part \in Parts \ Bodies}]
  /\ UNCHANGED <<heap, tracks, file, at, new, settings, everPlayed>>

\* The client edits the response it was played, as a reverse proxy does.
EditPlayed(g) ==
  /\ pc[g] = "Played"
  /\ heap' = Marked(given[g], "replayClient")
  /\ UNCHANGED <<tracks, file, pc, locals, settings, everPlayed>>

(***************************************************************************)
(* Recording                                                               *)
(***************************************************************************)

Refuse(g) ==
  /\ Goto(g, "CheckMode", "Refused")
  /\ UNCHANGED <<heap, tracks, file, locals, settings, everPlayed>>

\* With the read-only flag set nothing of the exchange is looked at.
LiveReadOnly(g) ==
  /\ Goto(g, "CheckMode", "Answered")
  /\ UNCHANGED <<heap, tracks, file, locals, settings, everPlayed>>

\* ToRequest and ToResponse copy headers and the TLS state, whose certificates
\* lose their public keys; the bytes that were read go both into the track and
\* behind the live Body, but for the request, which is read from the clone.
HeaderCell_Live(g) == <<g, "live">>
HeaderCell(g) == <<g, "response">>

TLSCell_Live(g) == <<g, "liveTLS">>
TLSCell(g) == <<g, "tls">>

Transcoded(g) ==
  [request |-> <<g, "request">>, requestBody |-> <<g, "requestBody">>,
   response |-> HeaderCell(g), body |-> <<g, "liveBody">>, tls |-> TLSCell(g)]

\* The server answers, and the new track is made.
Live(g) ==
  /\ Goto(g, "CheckMode", "MutateRecording")
  /\ new' = [new EXCEPT ![g] = Transcoded(g)]
  /\ \E bytes \in ReadAll :
       heap' = [heap EXCEPT ![<<g, "request">>] = heap[<<g, "clone">>],
                            ![<<g, "requestBody">>] = heap[<<g, "sentBody">>],
                            ![<<g, "liveBody">>] = bytes,
                            ![TLSCell(g)] = {"stripped"}]
  /\ UNCHANGED <<tracks, file, at, given, settings, everPlayed>>

MutateRecording(g) ==
  /\ Goto(g, "MutateRecording", "AddTrack")
  /\ new' = [new EXCEPT ![g] = Mutated(g, @)]
  /\ heap' = MutatedHeap(g, new[g], {}, "recording")
  /\ UNCHANGED <<tracks, file, at, given, settings, everPlayed>>

AddTrack(g) ==
  /\ Goto(g, "AddTrack", "Save")
  /\ tracks' = Append(tracks, [cells |-> new[g], current |-> Nothing, replayed |-> TRUE])
  /\ UNCHANGED <<heap, file, locals, settings, everPlayed>>

Save(g) ==
  /\ Goto(g, "Save", "Answered")
  /\ file' = Saved
  /\ UNCHANGED <<heap, tracks, locals, settings, everPlayed>>

SaveFails(g) ==
  /\ Goto(g, "Save", "Refused")
  /\ UNCHANGED <<heap, tracks, file, locals, settings, everPlayed>>

\* The client edits its request, and the response it was given.
LiveCells(g) == {<<g, "sent">>, <<g, "live">>, <<g, "liveTLS">>}

EditLive(g) ==
  /\ pc[g] = "Answered"
  /\ heap' = Marked(LiveCells(g), "liveClient")
  /\ UNCHANGED <<tracks, file, pc, locals, settings, everPlayed>>

(***************************************************************************)
(* A later session                                                         *)
(***************************************************************************)

LoadCassette ==
  /\ heap' = [c \in Cells |->
                IF c[1] \in DOMAIN file /\ c[2] \in Parts THEN file[c[1]][c[2]] ELSE {}]
  /\ tracks' = [i \in DOMAIN file |-> Loaded(i)]
  /\ pc' = [g \in Calls |-> "Idle"]
  /\ at' = [g \in Calls |-> 0]
  /\ new' = [g \in Calls |-> NoTrack]
  /\ given' = [g \in Calls |-> {}]
  /\ UNCHANGED <<file, settings, everPlayed>>

Next ==
  \/ \E g \in Calls :
       \/ CloneHTTPRequest(g) \/ SeekTrack(g)
       \/ ReplayTrack(g) \/ MutateReplaying(g) \/ ToHTTPResponse(g) \/ EditPlayed(g)
       \/ Refuse(g) \/ LiveReadOnly(g)
       \/ Live(g) \/ MutateRecording(g) \/ AddTrack(g) \/ Save(g)
       \/ SaveFails(g) \/ EditLive(g)
  \/ LoadCassette

Spec == Init /\ [][Next]_vars

(***************************************************************************)
(* Properties                                                              *)
(***************************************************************************)

TypeOK ==
  /\ heap \in [Cells -> SUBSET Marks]
  /\ \A i \in DOMAIN tracks : \A part \in Parts : tracks[i].cells[part] \in Cells
  /\ \A i \in DOMAIN file : file[i] \in [Parts -> SUBSET Marks]
  /\ at \in [Calls -> 0..Len(tracks)]
  /\ given \in [Calls -> SUBSET Cells]

OnFile(mark) ==
  {i \in DOMAIN file : \E part \in Parts : mark \in file[i][part]}

InMemory(mark) ==
  {i \in DOMAIN tracks : \E part \in Parts : mark \in heap[tracks[i].cells[part]]}

\* "The live HTTP request and response traffic is protected against
\* modifications": what mutators do to tracks, and what is taken out of their
\* certificates, is seen neither by the server nor by the client of a live
\* call.  The body is protected only from functions that return other bytes
\* than those they were given.
LiveIsProtected ==
  \A g \in Calls :
    /\ \A c \in LiveCells(g) \cup {<<g, "sentBody">>} :
         heap[c] \cap {"recording", "replaying", "stripped"} = {}
    /\ ~inPlace => "recording" \notin heap[<<g, "liveBody">>]

\* What matchers do to their arguments "does not permeate throughout the VCR to
\* the original incoming HTTP request or the tracks", in memory, on file or in
\* a response that is played, now or in a later session.
MatchersAreScoped ==
  /\ OnFile("matcher") = {} /\ InMemory("matcher") = {}
  /\ \A g \in Calls : "matcher" \notin heap[<<g, "sent">>] \cup heap[<<g, "current">>]

\* What a client does to the request and the response of a live call never
\* reaches the cassette, however late it does it and whoever saves meanwhile.
LiveEditsStayOut == OnFile("liveClient") = {} /\ InMemory("liveClient") = {}

\* A response that is played is a window on the cassette.  What a replaying
\* mutator or the client changes there goes to the file with that track, the
\* next time anyone records, and with no other track.
EditsStayOnThePlayed ==
  \A mark \in {"replaying", "replayClient"} :
    OnFile(mark) \cup InMemory(mark) \subseteq everPlayed

\* The bytes the server and the client of a live call got are those that are
\* recorded: a body that could only be read in part is in part on the cassette
\* and in part behind the restored Body, and none is left drained.
Whole(bytes) == bytes \cap {"cut", "drained"}

BodiesAgree ==
  \A g \in Calls : new[g] # NoTrack =>
    /\ Whole(heap[<<g, "sentBody">>]) = Whole(heap[new[g].requestBody])
    /\ Whole(heap[<<g, "liveBody">>]) = Whole(heap[new[g].body])
    /\ "drained" \notin heap[<<g, "sentBody">>] \cup heap[<<g, "liveBody">>]

(***************************************************************************)
(* Accesses at the same time: what each call may be reading and writing    *)
(* where it is.  A Go map that is written while it is read ends the        *)
(* process.                                                                *)
(***************************************************************************)
CellsOf(cells) == {cells[part] : part \in Parts}
Everything == UNION {CellsOf(tracks[i].cells) : i \in DOMAIN tracks}

Writes(g) ==
  CASE pc[g] = "Seeking" -> {RequestArg(g)} \cup TrackArgs(g)
    [] pc[g] = "MutateReplaying" /\ mutates ->
         CellsOf(tracks[at[g]].cells) \cup {tracks[at[g]].current}
    [] pc[g] = "Played" -> given[g]
    [] pc[g] = "MutateRecording" -> CellsOf(new[g])
    [] pc[g] = "Answered" -> LiveCells(g)
    [] OTHER -> {}

Reads(g) ==
  CASE pc[g] = "Seeking" ->
         {<<g, "clone">>} \cup {tracks[i].cells["request"] : i \in DOMAIN tracks}
    [] pc[g] = "CheckMode" -> {<<g, "sent">>, <<g, "sentBody">>}
    [] pc[g] = "Save"      -> Everything
    [] pc[g] = "Played"    -> {tracks[at[g]].cells["body"]}
    [] pc[g] = "Answered"  -> {<<g, "liveBody">>}
    [] OTHER -> {}

Played == UNION {CellsOf(trk.cells) : trk \in {tracks[i] : i \in everPlayed \cap DOMAIN tracks}}

\* No two goroutines are ever at the same memory, one of them to write, but at
\* what a played track refers to: the mutators and the client of one replay
\* against the scan, the save or the replay of another call.
OnlyPlayedTracksRace ==
  \A g, h \in Calls : g # h =>
    Writes(g) \cap (Reads(h) \cup Writes(h)) \subseteq
      Played \cup {tracks[i].current : i \in everPlayed \cap DOMAIN tracks}
=============================================================================
