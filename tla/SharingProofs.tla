---------------------------- MODULE SharingProofs ----------------------------
(***************************************************************************)
(* Proofs about module Sharing, for any number of calls, tracks and        *)
(* sessions.                                                               *)
(*                                                                         *)
(* The argument has two halves.  What a cell is says which marks may be on *)
(* it, and copying goes only from cells that may have few marks to cells   *)
(* that may have more.  And whose a cell is says who refers to it: no two  *)
(* tracks share one, and the cells that a call fills for its own track are *)
(* on no cassette until it adds them.                                      *)
(***************************************************************************)
EXTENDS Sharing, SequenceTheorems, FiniteSetTheorems, TLAPS

Room == MaxTracks + Cardinality(Calls)

\* What a track may refer to: for each part a cell of that part; for the body of
\* a track that was just made, the bytes behind the live Body.
CellsFor(part) ==
  (Owners \X {part}) \cup (IF part = "body" THEN Calls \X {"liveBody"} ELSE {})

Refs == {cells \in [Parts -> Cells] : \A part \in Parts : cells[part] \in CellsFor(part)}

Track == [cells : Refs, current : {Nothing} \cup (Calls \X {"current"}), replayed : BOOLEAN]

Steps == {"Idle", "Seeking", "Found", "MutateReplaying", "ToHTTPResponse", "Played",
          "CheckMode", "MutateRecording", "AddTrack", "Save", "Answered", "Refused"}

\* The calls that may still add a track.
Pending == {g \in Calls : pc[g] \in {"Seeking", "CheckMode", "MutateRecording", "AddTrack"}}

HeapInv   == heap \in [Cells -> SUBSET Marks]
TracksInv == tracks \in Seq(Track) /\ Len(tracks) + Cardinality(Pending) <= Room
FileInv   == file \in Seq([Parts -> SUBSET Marks]) /\ Len(file) <= Room

LocalsInv ==
  /\ pc \in [Calls -> Steps]
  /\ at \in [Calls -> 0..Len(tracks)]
  /\ new \in [Calls -> Refs \cup {NoTrack}]
  /\ given \in [Calls -> SUBSET Cells]
  /\ mutates \in BOOLEAN /\ inPlace \in BOOLEAN

\* The track that a call replays is on the cassette; what it was played is of
\* that track; only a call that records has made a new one.
CallInv(g) ==
  /\ pc[g] = "Found" => at[g] \in DOMAIN tracks
  /\ pc[g] \in {"MutateReplaying", "ToHTTPResponse", "Played"} =>
       at[g] \in everPlayed \cap DOMAIN tracks
  /\ pc[g] = "MutateReplaying" => tracks[at[g]].current \in Calls \X {"current"}
  /\ pc[g] = "Played" =>
       given[g] = {tracks[at[g]].cells[part] : part \in Parts \ Bodies}
  /\ pc[g] \in {"MutateRecording", "AddTrack"} => new[g] \in Refs
  /\ new[g] # NoTrack =>
       pc[g] \in {"MutateRecording", "AddTrack", "Save", "Answered", "Refused"}

ShapeInv == HeapInv /\ TracksInv /\ FileInv /\ LocalsInv /\ \A g \in Calls : CallInv(g)

\* The marks that may be on a cell.
OnTracks == {"cut", "stripped", "recording", "replaying", "replayClient"}

May(kind) ==
  CASE kind \in {"wanted", "trackArg"}       -> {"matcher"}
    [] kind \in {"sent", "live", "liveTLS"}  -> {"liveClient"}
    [] kind = "sentBody"                     -> {"cut"}
    [] kind = "clone"                        -> {}
    [] kind = "current"                      -> {"replaying"}
    [] kind = "liveBody"                     ->
         {"cut"} \cup (IF inPlace THEN {"recording", "replaying"} ELSE {})
    [] kind \in Parts                        -> OnTracks

MarksInv ==
  /\ \A c \in Cells : heap[c] \subseteq May(c[2])
  /\ \A i \in DOMAIN file : \A part \in Parts : file[i][part] \subseteq OnTracks

\* The cells that a call fills, and the calls that have not yet put any of them
\* on the cassette.
Own(g) == {g} \X (Parts \cup {"liveBody"})

Beginning == {"Idle", "Seeking", "Found", "MutateReplaying", "CheckMode",
              "MutateRecording", "AddTrack"}

OwnersInv ==
  /\ \A i, j \in DOMAIN tracks : i # j =>
       \A p, q \in Parts : tracks[i].cells[p] # tracks[j].cells[q]
  /\ \A g \in Calls : pc[g] \in Beginning =>
       \A i \in DOMAIN tracks : \A p \in Parts : tracks[i].cells[p] \notin Own(g)
  /\ \A g \in Calls : new[g] \in Refs => \A p \in Parts : new[g][p] \in Own(g)

\* What is done to a track that is played is done to no other.
Edits == {"replaying", "replayClient"}

Clean(marks) == marks \cap Edits = {}

EditsInv ==
  /\ \A i \in DOMAIN tracks \ everPlayed : \A p \in Parts : Clean(heap[tracks[i].cells[p]])
  /\ \A i \in DOMAIN file \ everPlayed : \A p \in Parts : Clean(file[i][p])
  /\ \A g \in Calls : pc[g] \in Beginning => \A c \in Own(g) : Clean(heap[c])

\* The bodies that a call will put on the cassette are those it got.
BodiesInv ==
  \A g \in Calls : new[g] # NoTrack =>
    /\ Whole(heap[<<g, "sentBody">>]) = Whole(heap[new[g].requestBody])
    /\ Whole(heap[<<g, "liveBody">>]) = Whole(heap[new[g].body])

(***************************************************************************)
(* Cells, and what the operators on the heap do to them                    *)
(***************************************************************************)

\* There is always room for one track more than the calls that will add one.
LEMMA RoomType ==
  /\ Room \in Nat \ {0} /\ MaxTracks \in Nat \ {0} /\ IsFiniteSet(Calls)
  /\ Cardinality(Calls) \in Nat
  /\ Owners = Calls \cup 1..Room
BY CallsAssumption, FS_CardinalityType DEF Room, Owners

\* The cells that are named in the actions exist.
LEMMA CellNames ==
  /\ \A g \in Calls : \A kind \in Owned \cup Parts : <<g, kind>> \in Cells
  /\ \A i \in 1..Room : \A part \in Parts : <<i, part>> \in Cells
  /\ \A g \in Calls : Own(g) \subseteq Cells
  /\ \A c \in Cells : c[1] \in Owners /\ c[2] \in Owned \cup Parts /\ c = <<c[1], c[2]>>
BY RoomType DEF Cells, Own, Owned, Parts

\* A call is not the number of a track.
LEMMA CallsAreNoNumbers == \A g \in Calls : g \notin Nat
BY CallsAssumption

\* What a track refers to.
LEMMA RefCells ==
  ASSUME NEW cells \in Refs, NEW part \in Parts
  PROVE  /\ cells[part] \in Cells
         /\ cells[part][2] \in Parts \cup {"liveBody"}
         /\ cells[part][2] = "liveBody" => part = "body" /\ cells[part][1] \in Calls
         /\ cells[part][2] # "liveBody" => cells[part][2] = part
<1>1. cells[part] \in Cells /\ cells[part] \in CellsFor(part)
  BY DEF Refs
<1>2. CASE cells[part] \in Owners \X {part}
  BY <1>1, <1>2 DEF Parts
<1>3. CASE part = "body" /\ cells[part] \in Calls \X {"liveBody"}
  BY <1>1, <1>3
<1> QED
  BY <1>1, <1>2, <1>3 DEF CellsFor

\* A mark is left on some cells.
LEMMA Marking ==
  ASSUME HeapInv, NEW cells, NEW mark \in Marks
  PROVE  /\ Marked(cells, mark) \in [Cells -> SUBSET Marks]
         /\ \A c \in Cells : /\ c \in cells => Marked(cells, mark)[c] = heap[c] \cup {mark}
                             /\ c \notin cells => Marked(cells, mark)[c] = heap[c]
BY DEF Marked, HeapInv

\* Mutators: a part whose cell is kept is edited there; another gets a cell of
\* the call's own with an edited copy.
LEMMA Mutating ==
  ASSUME HeapInv, inPlace \in BOOLEAN, NEW g \in Calls, NEW cells \in Refs,
         NEW also, NEW mark \in Marks
  PROVE  /\ MutatedHeap(g, cells, also, mark) \in [Cells -> SUBSET Marks]
         /\ Mutated(g, cells) \in Refs
         /\ \A part \in Parts :
              Mutated(g, cells)[part] = IF part \notin Bodies \/ inPlace THEN cells[part]
                                        ELSE <<g, part>>
         /\ \A c \in Cells :
              \/ /\ c \in also \/ \E part \in Parts : /\ part \notin Bodies \/ inPlace
                                                      /\ cells[part] = c
                 /\ MutatedHeap(g, cells, also, mark)[c] = heap[c] \cup {mark}
              \/ \E part \in Bodies : /\ ~inPlace /\ c = <<g, part>>
                                      /\ MutatedHeap(g, cells, also, mark)[c]
                                           = heap[cells[part]] \cup {mark}
              \/ /\ MutatedHeap(g, cells, also, mark)[c] = heap[c]
                 /\ ~inPlace => c \notin {g} \X Bodies
<1>1. \A part \in Parts :
        Mutated(g, cells)[part] = IF part \notin Bodies \/ inPlace THEN cells[part]
                                  ELSE <<g, part>>
  BY DEF Mutated, Kept
<1>2. Mutated(g, cells) \in Refs
  <2>1. \A part \in Parts : Mutated(g, cells)[part] \in Cells \cap CellsFor(part)
    <3> TAKE part \in Parts
    <3>1. cells[part] \in Cells \cap CellsFor(part)
      BY DEF Refs
    <3>2. <<g, part>> \in Cells \cap CellsFor(part)
      BY CellNames DEF CellsFor, Owners
    <3> QED
      BY <1>1, <3>1, <3>2
  <2>2. Mutated(g, cells) = [part \in Parts |-> Mutated(g, cells)[part]]
    BY DEF Mutated
  <2> QED
    BY <2>1, <2>2 DEF Refs
<1>3. ASSUME NEW c \in Cells
      PROVE  /\ \/ /\ c \in also \/ \E part \in Parts : /\ part \notin Bodies \/ inPlace
                                                        /\ cells[part] = c
                   /\ MutatedHeap(g, cells, also, mark)[c] = heap[c] \cup {mark}
                \/ \E part \in Bodies : /\ ~inPlace /\ c = <<g, part>>
                                        /\ MutatedHeap(g, cells, also, mark)[c]
                                             = heap[cells[part]] \cup {mark}
                \/ /\ MutatedHeap(g, cells, also, mark)[c] = heap[c]
                   /\ ~inPlace => c \notin {g} \X Bodies
             /\ MutatedHeap(g, cells, also, mark)[c] \in SUBSET Marks
  <2>1. CASE c \in also \/ \E part \in Parts : Kept(cells, part) /\ cells[part] = c
    BY <2>1 DEF MutatedHeap, Kept, HeapInv
  <2>2. CASE /\ ~(c \in also \/ \E part \in Parts : Kept(cells, part) /\ cells[part] = c)
             /\ \E part \in Parts : ~Kept(cells, part) /\ c = <<g, part>>
    <3>1. PICK part \in Parts : ~Kept(cells, part) /\ c = <<g, part>>
      BY <2>2
    <3>2. part \in Bodies /\ ~inPlace /\ c[2] = part
      BY <3>1 DEF Kept
    <3>3. MutatedHeap(g, cells, also, mark)[c] = heap[cells[part]] \cup {mark}
      BY <2>2, <3>2 DEF MutatedHeap
    <3>4. heap[cells[part]] \in SUBSET Marks
      BY RefCells DEF HeapInv
    <3> QED
      BY <3>1, <3>2, <3>3, <3>4
  <2>3. CASE /\ ~(c \in also \/ \E part \in Parts : Kept(cells, part) /\ cells[part] = c)
             /\ ~ \E part \in Parts : ~Kept(cells, part) /\ c = <<g, part>>
    <3>1. MutatedHeap(g, cells, also, mark)[c] = heap[c]
      BY <2>3 DEF MutatedHeap
    <3>2. ~inPlace => c \notin {g} \X Bodies
      BY <2>3 DEF Kept, Bodies, Parts
    <3> QED
      BY <3>1, <3>2 DEF HeapInv
  <2> QED
    BY <2>1, <2>2, <2>3
<1>4. MutatedHeap(g, cells, also, mark) \in [Cells -> SUBSET Marks]
  <2>1. MutatedHeap(g, cells, also, mark)
          = [c \in Cells |-> MutatedHeap(g, cells, also, mark)[c]]
    BY DEF MutatedHeap
  <2> QED
    BY <1>3, <2>1
<1> QED
  BY <1>1, <1>2, <1>3, <1>4

(***************************************************************************)
(* Where each step leads                                                   *)
(***************************************************************************)

Step(g) ==
  \/ CloneHTTPRequest(g) \/ SeekTrack(g)
  \/ ReplayTrack(g) \/ MutateReplaying(g) \/ ToHTTPResponse(g) \/ EditPlayed(g)
  \/ Refuse(g) \/ LiveReadOnly(g)
  \/ Live(g) \/ MutateRecording(g) \/ AddTrack(g) \/ Save(g)
  \/ SaveFails(g) \/ EditLive(g)

\* A step of one call leaves the local variables of the others alone, and moves
\* the call on.
LEMMA StepControl ==
  ASSUME ShapeInv, NEW g \in Calls, Step(g)
  PROVE  /\ pc' \in [Calls -> Steps]
         /\ \A h \in Calls \ {g} : /\ pc'[h] = pc[h] /\ at'[h] = at[h]
                                   /\ new'[h] = new[h] /\ given'[h] = given[h]
         /\ CloneHTTPRequest(g) => pc[g] = "Idle" /\ pc'[g] = "Seeking"
         /\ SeekTrack(g) => pc[g] = "Seeking" /\ pc'[g] \in {"CheckMode", "Found"}
         /\ ReplayTrack(g) => pc[g] = "Found" /\ pc'[g] = "MutateReplaying"
         /\ MutateReplaying(g) => pc[g] = "MutateReplaying" /\ pc'[g] = "ToHTTPResponse"
         /\ ToHTTPResponse(g) => pc[g] = "ToHTTPResponse" /\ pc'[g] = "Played"
         /\ EditPlayed(g) => pc[g] = "Played" /\ pc'[g] = "Played"
         /\ Refuse(g) => pc[g] = "CheckMode" /\ pc'[g] = "Refused"
         /\ LiveReadOnly(g) => pc[g] = "CheckMode" /\ pc'[g] = "Answered"
         /\ Live(g) => pc[g] = "CheckMode" /\ pc'[g] = "MutateRecording"
         /\ MutateRecording(g) => pc[g] = "MutateRecording" /\ pc'[g] = "AddTrack"
         /\ AddTrack(g) => pc[g] = "AddTrack" /\ pc'[g] = "Save"
         /\ Save(g) => pc[g] = "Save" /\ pc'[g] = "Answered"
         /\ SaveFails(g) => pc[g] = "Save" /\ pc'[g] = "Refused"
         /\ EditLive(g) => pc[g] = "Answered" /\ pc'[g] = "Answered"
<1>t. /\ pc \in [Calls -> Steps] /\ DOMAIN at = Calls /\ DOMAIN new = Calls
      /\ DOMAIN given = Calls
  BY DEF ShapeInv, LocalsInv
<1>1. /\ pc' = [pc EXCEPT ![g] = pc'[g]]
      /\ CloneHTTPRequest(g) => pc[g] = "Idle" /\ pc'[g] = "Seeking"
      /\ SeekTrack(g) => pc[g] = "Seeking" /\ pc'[g] \in {"CheckMode", "Found"}
      /\ ReplayTrack(g) => pc[g] = "Found" /\ pc'[g] = "MutateReplaying"
      /\ MutateReplaying(g) => pc[g] = "MutateReplaying" /\ pc'[g] = "ToHTTPResponse"
      /\ ToHTTPResponse(g) => pc[g] = "ToHTTPResponse" /\ pc'[g] = "Played"
      /\ EditPlayed(g) => pc[g] = "Played" /\ pc'[g] = "Played"
      /\ Refuse(g) => pc[g] = "CheckMode" /\ pc'[g] = "Refused"
      /\ LiveReadOnly(g) => pc[g] = "CheckMode" /\ pc'[g] = "Answered"
      /\ Live(g) => pc[g] = "CheckMode" /\ pc'[g] = "MutateRecording"
      /\ MutateRecording(g) => pc[g] = "MutateRecording" /\ pc'[g] = "AddTrack"
      /\ AddTrack(g) => pc[g] = "AddTrack" /\ pc'[g] = "Save"
      /\ Save(g) => pc[g] = "Save" /\ pc'[g] = "Answered"
      /\ SaveFails(g) => pc[g] = "Save" /\ pc'[g] = "Refused"
      /\ EditLive(g) => pc[g] = "Answered" /\ pc'[g] = "Answered"
  BY <1>t DEF Step, CloneHTTPRequest, SeekTrack, ReplayTrack, MutateReplaying,
     ToHTTPResponse, EditPlayed, Refuse, LiveReadOnly, Live, MutateRecording, AddTrack,
     Save, SaveFails, EditLive, Goto
<1>2. pc'[g] \in Steps
  BY <1>1 DEF Step, Steps
<1>3. \A h \in Calls \ {g} : at'[h] = at[h]
  BY <1>t DEF Step, CloneHTTPRequest, SeekTrack, ReplayTrack, MutateReplaying,
     ToHTTPResponse, EditPlayed, Refuse, LiveReadOnly, Live, MutateRecording, AddTrack,
     Save, SaveFails, EditLive, locals
<1>4. \A h \in Calls \ {g} : new'[h] = new[h]
  BY <1>t DEF Step, CloneHTTPRequest, SeekTrack, ReplayTrack, MutateReplaying,
     ToHTTPResponse, EditPlayed, Refuse, LiveReadOnly, Live, MutateRecording, AddTrack,
     Save, SaveFails, EditLive, locals
<1>5. \A h \in Calls \ {g} : given'[h] = given[h]
  BY <1>t DEF Step, CloneHTTPRequest, SeekTrack, ReplayTrack, MutateReplaying,
     ToHTTPResponse, EditPlayed, Refuse, LiveReadOnly, Live, MutateRecording, AddTrack,
     Save, SaveFails, EditLive, locals
<1>6. pc' \in [Calls -> Steps] /\ \A h \in Calls \ {g} : pc'[h] = pc[h]
  BY <1>t, <1>1, <1>2
<1> QED
  BY <1>1, <1>3, <1>4, <1>5, <1>6

\* The calls that will add a track are as many as there is room for, whichever
\* of them goes on.
LEMMA RoomKept ==
  ASSUME ShapeInv, NEW g \in Calls, Step(g), tracks' \in Seq(Track),
         ~AddTrack(g), Len(tracks') = Len(tracks)
  PROVE  TracksInv'
<1>1. /\ IsFiniteSet(Pending) /\ IsFiniteSet(Pending')
      /\ Cardinality(Pending) \in Nat /\ Cardinality(Pending') \in Nat
      /\ Cardinality(Pending') <= Cardinality(Calls)
  <2>1. Pending \in SUBSET Calls /\ Pending' \in SUBSET Calls
    BY DEF Pending
  <2> QED
    BY <2>1, RoomType, FS_Subset, FS_CardinalityType
<1>2. Len(tracks) \in Nat /\ Len(tracks) + Cardinality(Pending) <= Room
  BY LenProperties DEF ShapeInv, TracksInv
<1>3. CASE CloneHTTPRequest(g)
  <2>1. Len(tracks) < MaxTracks
    BY <1>3 DEF CloneHTTPRequest
  <2> QED
    BY <1>1, <1>2, <2>1, RoomType DEF TracksInv, Room
<1>4. CASE ~CloneHTTPRequest(g)
  <2>1. Pending' \subseteq Pending
    BY <1>4, StepControl DEF Pending, Step
  <2>2. Cardinality(Pending') <= Cardinality(Pending)
    BY <1>1, <2>1, FS_Subset
  <2> QED
    BY <1>1, <1>2, <2>2, RoomType DEF TracksInv
<1> QED
  BY <1>3, <1>4

\* What the other calls rely on: the track they replay stays where it is, with
\* the headers it has.
LEMMA OthersKept ==
  ASSUME ShapeInv, NEW g \in Calls, Step(g), NEW h \in Calls \ {g},
         DOMAIN tracks \subseteq DOMAIN tracks', everPlayed \subseteq everPlayed',
         \A i \in DOMAIN tracks :
           /\ tracks[i].current \in Calls \X {"current"} =>
                tracks'[i].current \in Calls \X {"current"}
           /\ \A part \in Parts \ Bodies : tracks'[i].cells[part] = tracks[i].cells[part]
  PROVE  CallInv(h)'
<1>1. pc'[h] = pc[h] /\ at'[h] = at[h] /\ new'[h] = new[h] /\ given'[h] = given[h]
  BY StepControl
<1>2. CallInv(h)
  BY DEF ShapeInv
<1>3. pc[h] = "Played" =>
        given[h] = {tracks'[at[h]].cells[part] : part \in Parts \ Bodies}
  BY <1>2 DEF CallInv
<1> QED
  BY <1>1, <1>2, <1>3 DEF CallInv

\* The types in use below.
LEMMA Types ==
  ASSUME ShapeInv
  PROVE  /\ HeapInv /\ TracksInv /\ FileInv /\ LocalsInv /\ \A g \in Calls : CallInv(g)
         /\ tracks \in Seq(Track) /\ tracks \in [1..Len(tracks) -> Track]
         /\ Len(tracks) \in Nat /\ DOMAIN tracks = 1..Len(tracks)
         /\ \A i \in DOMAIN tracks :
              /\ tracks[i] \in Track /\ tracks[i].cells \in Refs
              /\ tracks[i].current \in {Nothing} \cup (Calls \X {"current"})
              /\ tracks[i].replayed \in BOOLEAN
<1>1. /\ HeapInv /\ TracksInv /\ FileInv /\ LocalsInv /\ \A g \in Calls : CallInv(g)
      /\ tracks \in Seq(Track)
  BY DEF ShapeInv, TracksInv
<1>2. /\ tracks \in [1..Len(tracks) -> Track]
      /\ Len(tracks) \in Nat /\ DOMAIN tracks = 1..Len(tracks)
  BY <1>1, LenProperties
<1>3. \A i \in DOMAIN tracks : tracks[i] \in Track
  BY <1>2
<1> QED
  BY <1>1, <1>2, <1>3 DEF Track

\* The steps that change the heap alone, and those that only move the call on.
LEMMA ShapeQuiet ==
  ASSUME ShapeInv, NEW g \in Calls,
         \/ CloneHTTPRequest(g) \/ SeekTrack(g) \/ ToHTTPResponse(g) \/ EditPlayed(g)
         \/ Refuse(g) \/ LiveReadOnly(g) \/ SaveFails(g) \/ EditLive(g)
  PROVE  ShapeInv'
<1>s. Step(g)
  BY DEF Step
<1>1. UNCHANGED <<tracks, file, new, mutates, inPlace, everPlayed>>
  BY DEF CloneHTTPRequest, SeekTrack, ToHTTPResponse, EditPlayed, Refuse, LiveReadOnly,
     SaveFails, EditLive, locals, settings
<1>2. HeapInv'
  <2>1. CASE CloneHTTPRequest(g)
    <3>1. PICK bytes \in ReadAll : heap' = [heap EXCEPT ![<<g, "sentBody">>] = Restored(bytes)]
      BY <2>1 DEF CloneHTTPRequest
    <3>2. Restored(bytes) \in SUBSET Marks
      BY DEF ReadAll, Restored, Marks
    <3> QED
      BY <3>1, <3>2, Types DEF HeapInv
  <2>2. CASE SeekTrack(g)
    BY <2>2, Types, Marking DEF SeekTrack, HeapInv, Marks
  <2>3. CASE EditPlayed(g)
    BY <2>3, Types, Marking DEF EditPlayed, HeapInv, Marks
  <2>4. CASE EditLive(g)
    BY <2>4, Types, Marking DEF EditLive, HeapInv, Marks
  <2>5. CASE ToHTTPResponse(g) \/ Refuse(g) \/ LiveReadOnly(g) \/ SaveFails(g)
    <3>1. heap' = heap
      BY <2>5 DEF ToHTTPResponse, Refuse, LiveReadOnly, SaveFails
    <3> QED
      BY <3>1, Types DEF HeapInv
  <2> QED
    BY <2>1, <2>2, <2>3, <2>4, <2>5
<1>3. TracksInv' /\ FileInv'
  <2>1. ~AddTrack(g)
    BY StepControl, <1>s
  <2> QED
    BY <1>s, <1>1, <2>1, Types, RoomKept DEF FileInv
<1>4. LocalsInv' /\ CallInv(g)'
  <2>t. pc' \in [Calls -> Steps] /\ LocalsInv /\ CallInv(g)
    BY <1>s, StepControl, Types
  <2>1. CASE SeekTrack(g)
    <3>1. /\ at' \in [Calls -> 0..Len(tracks)] /\ given' = given
          /\ pc'[g] = "Found" => at'[g] \in DOMAIN tracks
      <4>1. CASE Goto(g, "Seeking", "CheckMode") /\ UNCHANGED at
        BY <2>1, <2>t, <4>1 DEF SeekTrack, LocalsInv, Goto
      <4>2. CASE /\ Goto(g, "Seeking", "Found")
                 /\ \E i \in DOMAIN tracks : ~tracks[i].replayed /\ at' = [at EXCEPT ![g] = i]
        BY <2>1, <2>t, <4>2, Types DEF SeekTrack, LocalsInv
      <4> QED
        BY <2>1, <4>1, <4>2 DEF SeekTrack
    <3>2. pc[g] = "Seeking" /\ pc'[g] \in {"CheckMode", "Found"}
      BY <1>s, <2>1, StepControl
    <3>3. new[g] = NoTrack
      BY <2>t, <3>2 DEF CallInv
    <3> QED
      BY <1>1, <2>t, <3>1, <3>2, <3>3 DEF LocalsInv, CallInv
  <2>2. CASE ToHTTPResponse(g)
    <3>1. /\ pc[g] = "ToHTTPResponse" /\ pc'[g] = "Played" /\ at' = at
          /\ given' = [given EXCEPT ![g] = {tracks[at[g]].cells[part] : part \in Parts \ Bodies}]
      BY <1>s, <2>2, StepControl DEF ToHTTPResponse
    <3>2. at[g] \in everPlayed \cap DOMAIN tracks /\ new[g] = NoTrack
      BY <2>t, <3>1 DEF CallInv
    <3>3. {tracks[at[g]].cells[part] : part \in Parts \ Bodies} \subseteq Cells
      BY <3>2, Types, RefCells
    <3>4. /\ given' \in [Calls -> SUBSET Cells]
          /\ given'[g] = {tracks[at[g]].cells[part] : part \in Parts \ Bodies}
      BY <2>t, <3>1, <3>3 DEF LocalsInv
    <3> QED
      BY <1>1, <2>t, <3>1, <3>2, <3>4 DEF LocalsInv, CallInv
  <2>3. CASE \/ CloneHTTPRequest(g) \/ EditPlayed(g) \/ Refuse(g) \/ LiveReadOnly(g)
             \/ SaveFails(g) \/ EditLive(g)
    <3>1. at' = at /\ given' = given
      BY <2>3 DEF CloneHTTPRequest, EditPlayed, Refuse, LiveReadOnly, SaveFails, EditLive, locals
    <3>2. \/ pc[g] \in {"Idle", "CheckMode"} /\ pc'[g] \in {"Seeking", "Refused", "Answered"}
          \/ pc[g] = "Save" /\ pc'[g] = "Refused"
          \/ pc[g] \in {"Played", "Answered"} /\ pc'[g] = pc[g]
      BY <1>s, <2>3, StepControl
    <3> QED
      BY <1>1, <2>t, <3>1, <3>2 DEF LocalsInv, CallInv
  <2> QED
    BY <2>1, <2>2, <2>3
<1>5. \A h \in Calls \ {g} : CallInv(h)'
  BY <1>s, <1>1, OthersKept
<1> QED
  BY <1>2, <1>3, <1>4, <1>5 DEF ShapeInv

\* ReplayTrack changes the current request of one track that it counts as played.
LEMMA ReplayEffect ==
  ASSUME ShapeInv, NEW g \in Calls, ReplayTrack(g)
  PROVE  /\ at[g] \in DOMAIN tracks /\ at' = at
         /\ tracks' \in Seq(Track) /\ Len(tracks') = Len(tracks)
         /\ DOMAIN tracks' = DOMAIN tracks
         /\ tracks'[at[g]].current = <<g, "current">>
         /\ \A i \in DOMAIN tracks : /\ tracks'[i].cells = tracks[i].cells
                                     /\ i # at[g] => tracks'[i] = tracks[i]
         /\ everPlayed' = everPlayed \cup {at[g]}
         /\ UNCHANGED <<heap, file, new, given, mutates, inPlace>>
<1> DEFINE i == at[g]
           old == tracks[i]
           trk == [old EXCEPT !.current = <<g, "current">>, !.replayed = TRUE]
<1>1. i \in DOMAIN tracks
  BY StepControl, Types DEF Step, CallInv
<1>2. /\ tracks' = [tracks EXCEPT ![i].current = <<g, "current">>, ![i].replayed = TRUE]
      /\ at' = [at EXCEPT ![g] = i]
      /\ everPlayed' = everPlayed \cup {i}
      /\ UNCHANGED <<heap, file, new, given, mutates, inPlace>>
  BY DEF ReplayTrack, Pointer, CurrentCell, settings
<1>3. tracks' = [tracks EXCEPT ![i] = trk]
  BY <1>1, <1>2, Types DEF Track
<1>4. /\ old \in Track /\ trk \in Track
      /\ trk.cells = old.cells /\ trk.current = <<g, "current">>
  BY <1>1, Types DEF Track
<1> HIDE DEF trk
<1>5. tracks' \in Seq(Track) /\ Len(tracks') = Len(tracks)
      /\ \A j \in 1..Len(tracks) : tracks'[j] = IF j = i THEN trk ELSE tracks[j]
  BY <1>1, <1>3, <1>4, Types, ExceptSeq
<1>6. at' = at
  BY <1>2, Types DEF LocalsInv
<1>7. DOMAIN tracks' = DOMAIN tracks
  BY <1>5, Types, LenProperties
<1> QED
  BY <1>1, <1>2, <1>4, <1>5, <1>6, <1>7, Types

\* ReplayTrack.
LEMMA ShapeReplay ==
  ASSUME ShapeInv, NEW g \in Calls, ReplayTrack(g)
  PROVE  ShapeInv'
<1>s. Step(g) /\ ~AddTrack(g)
  BY StepControl DEF Step
<1>1. HeapInv' /\ FileInv' /\ TracksInv'
  BY <1>s, ReplayEffect, Types, RoomKept DEF HeapInv, FileInv
<1>2. LocalsInv'
  BY <1>s, ReplayEffect, Types, StepControl DEF LocalsInv
<1>3. CallInv(g)'
  <2>1. pc[g] = "Found" /\ pc'[g] = "MutateReplaying" /\ CallInv(g)
    BY <1>s, StepControl, Types
  <2>2. new'[g] = NoTrack
    BY <2>1, ReplayEffect DEF CallInv
  <2>3. at'[g] \in everPlayed' \cap DOMAIN tracks'
    BY ReplayEffect
  <2>4. tracks'[at'[g]].current \in Calls \X {"current"}
    <3>1. tracks'[at'[g]].current = <<g, "current">>
      BY ReplayEffect
    <3> QED
      BY <3>1
  <2> QED
    BY <2>1, <2>2, <2>3, <2>4 DEF CallInv
<1>4. ASSUME NEW h \in Calls \ {g} PROVE CallInv(h)'
  <2>1. \A i \in DOMAIN tracks :
          /\ tracks[i].current \in Calls \X {"current"} =>
               tracks'[i].current \in Calls \X {"current"}
          /\ \A part \in Parts \ Bodies : tracks'[i].cells[part] = tracks[i].cells[part]
    BY ReplayEffect
  <2> QED
    BY <1>s, <2>1, ReplayEffect, OthersKept
<1> QED
  BY <1>1, <1>2, <1>3, <1>4 DEF ShapeInv

\* The replaying mutators change the cells of the track that is played.
LEMMA MutateEffect ==
  ASSUME ShapeInv, NEW g \in Calls, MutateReplaying(g)
  PROVE  /\ at[g] \in everPlayed \cap DOMAIN tracks
         /\ UNCHANGED <<file, at, new, given, mutates, inPlace, everPlayed>>
         /\ \/ UNCHANGED <<tracks, heap>>
            \/ /\ tracks' \in Seq(Track) /\ Len(tracks') = Len(tracks)
               /\ DOMAIN tracks' = DOMAIN tracks
               /\ \A i \in DOMAIN tracks :
                    /\ tracks'[i].current = tracks[i].current
                    /\ i # at[g] => tracks'[i] = tracks[i]
               /\ tracks'[at[g]].cells = Mutated(g, tracks[at[g]].cells)
               /\ tracks[at[g]].current \in Calls \X {"current"}
               /\ heap' = MutatedHeap(g, tracks[at[g]].cells,
                                      {tracks[at[g]].current}, "replaying")
<1> DEFINE i == at[g]
           old == tracks[i]
           trk == [old EXCEPT !.cells = Mutated(g, old.cells)]
<1>1. i \in everPlayed \cap DOMAIN tracks /\ old.current \in Calls \X {"current"}
  BY StepControl, Types DEF Step, CallInv
<1>2. UNCHANGED <<file, at, new, given, mutates, inPlace, everPlayed>>
  BY DEF MutateReplaying, locals, settings
<1>3. CASE ~mutates
  BY <1>1, <1>2, <1>3 DEF MutateReplaying
<1>4. CASE mutates
  <2>1. /\ tracks' = [tracks EXCEPT ![i] = trk]
        /\ heap' = MutatedHeap(g, old.cells, {old.current}, "replaying")
    BY <1>1, <1>4, Types DEF MutateReplaying
  <2>2. old \in Track /\ old.cells \in Refs
    BY <1>1, Types
  <2>3. Mutated(g, old.cells) \in Refs
    BY <2>2, Types, Mutating DEF LocalsInv, Marks
  <2>4. /\ trk \in Track /\ trk.cells = Mutated(g, old.cells)
        /\ trk.current = old.current
    BY <2>2, <2>3 DEF Track
  <2> HIDE DEF trk
  <2>5. tracks' \in Seq(Track) /\ Len(tracks') = Len(tracks)
        /\ \A j \in 1..Len(tracks) : tracks'[j] = IF j = i THEN trk ELSE tracks[j]
    BY <1>1, <2>1, <2>4, Types, ExceptSeq
  <2>6. DOMAIN tracks' = DOMAIN tracks
    BY <2>5, Types, LenProperties
  <2> QED
    BY <1>1, <1>2, <2>1, <2>4, <2>5, <2>6, Types
<1> QED
  BY <1>3, <1>4

\* MutateReplaying.
LEMMA ShapeMutate ==
  ASSUME ShapeInv, NEW g \in Calls, MutateReplaying(g)
  PROVE  ShapeInv'
<1>s. Step(g) /\ ~AddTrack(g)
  BY StepControl DEF Step
<1>1. tracks' \in Seq(Track) /\ Len(tracks') = Len(tracks) /\ DOMAIN tracks' = DOMAIN tracks
  BY MutateEffect, Types
<1>2. HeapInv'
  <2>1. tracks[at[g]].cells \in Refs
    BY MutateEffect, Types
  <2>2. heap' = heap \/ heap' = MutatedHeap(g, tracks[at[g]].cells,
                                            {tracks[at[g]].current}, "replaying")
    BY MutateEffect
  <2>3. MutatedHeap(g, tracks[at[g]].cells, {tracks[at[g]].current}, "replaying")
          \in [Cells -> SUBSET Marks]
    BY <2>1, Types, Mutating DEF LocalsInv, Marks
  <2> QED
    BY <2>2, <2>3, Types DEF HeapInv
<1>3. FileInv' /\ TracksInv'
  BY <1>s, <1>1, MutateEffect, Types, RoomKept DEF FileInv
<1>4. LocalsInv'
  BY <1>s, <1>1, MutateEffect, Types, StepControl DEF LocalsInv
<1>5. CallInv(g)'
  <2>1. pc[g] = "MutateReplaying" /\ pc'[g] = "ToHTTPResponse" /\ CallInv(g)
    BY <1>s, StepControl, Types
  <2> QED
    BY <1>1, <2>1, MutateEffect DEF CallInv
<1>6. ASSUME NEW h \in Calls \ {g} PROVE CallInv(h)'
  <2>1. ASSUME NEW i \in DOMAIN tracks
        PROVE  /\ tracks[i].current \in Calls \X {"current"} =>
                    tracks'[i].current \in Calls \X {"current"}
               /\ \A part \in Parts \ Bodies : tracks'[i].cells[part] = tracks[i].cells[part]
    <3>1. tracks'[i].current = tracks[i].current
      BY MutateEffect
    <3>2. tracks'[i].cells = tracks[i].cells \/
            tracks'[i].cells = Mutated(g, tracks[i].cells)
      BY MutateEffect
    <3>3. \A part \in Parts \ Bodies : Mutated(g, tracks[i].cells)[part] = tracks[i].cells[part]
      BY DEF Mutated, Kept
    <3> QED
      BY <3>1, <3>2, <3>3
  <2> QED
    BY <1>s, <1>1, <2>1, MutateEffect, OthersKept
<1> QED
  BY <1>2, <1>3, <1>4, <1>5, <1>6 DEF ShapeInv

\* The cells a new track is made with are the call's own.
LEMMA TranscodedType ==
  ASSUME NEW g \in Calls
  PROVE  Transcoded(g) \in Refs /\ CellsOf(Transcoded(g)) \subseteq Own(g)
         /\ Transcoded(g) # NoTrack
<1>1. /\ DOMAIN Transcoded(g) = Parts
      /\ Transcoded(g)["request"] = <<g, "request">>
      /\ Transcoded(g)["requestBody"] = <<g, "requestBody">>
      /\ Transcoded(g)["response"] = <<g, "response">>
      /\ Transcoded(g)["body"] = <<g, "liveBody">>
      /\ Transcoded(g)["tls"] = <<g, "tls">>
      /\ Transcoded(g) = [part \in Parts |-> Transcoded(g)[part]]
  BY DEF Transcoded, Parts, HeaderCell, TLSCell
<1>2. \A part \in Parts : /\ Transcoded(g)[part] \in Cells \cap CellsFor(part)
                          /\ Transcoded(g)[part] \in Own(g)
  <2>1. \A part \in Parts : <<g, part>> \in Cells \cap CellsFor(part)
    BY CellNames DEF CellsFor, Owners
  <2>2. <<g, "liveBody">> \in Cells \cap CellsFor("body")
    BY CellNames DEF CellsFor, Owned
  <2>3. \A part \in Parts : Transcoded(g)[part] = <<g, part>>
                               \/ (part = "body" /\ Transcoded(g)[part] = <<g, "liveBody">>)
    BY <1>1 DEF Parts
  <2> QED
    BY <2>1, <2>2, <2>3 DEF Own
<1>3. Transcoded(g) # NoTrack
  <2>1. NoTrack["request"] = Nothing /\ NoTrack["body"] = Nothing
    BY DEF NoTrack, Parts
  <2>2. <<g, "request">> # <<g, "liveBody">>
    OBVIOUS
  <2> QED
    BY <1>1, <2>1, <2>2
<1> QED
  BY <1>1, <1>2, <1>3 DEF Refs, CellsOf

\* The live exchange fills cells of the call's own.
LEMMA LiveEffect ==
  ASSUME ShapeInv, NEW g \in Calls, Live(g)
  PROVE  /\ heap' \in [Cells -> SUBSET Marks]
         /\ heap'[<<g, "request">>] = heap[<<g, "clone">>]
         /\ heap'[<<g, "requestBody">>] = heap[<<g, "sentBody">>]
         /\ heap'[<<g, "liveBody">>] \in {{}, {"cut"}}
         /\ heap'[<<g, "tls">>] = {"stripped"}
         /\ \A c \in Cells :
              c \notin {<<g, "request">>, <<g, "requestBody">>, <<g, "liveBody">>, <<g, "tls">>} =>
                heap'[c] = heap[c]
         /\ new' \in [Calls -> Refs \cup {NoTrack}] /\ new'[g] = Transcoded(g)
         /\ UNCHANGED <<tracks, file, at, given, mutates, inPlace, everPlayed>>
<1>1. PICK bytes \in ReadAll :
        heap' = [heap EXCEPT ![<<g, "request">>] = heap[<<g, "clone">>],
                             ![<<g, "requestBody">>] = heap[<<g, "sentBody">>],
                             ![<<g, "liveBody">>] = bytes,
                             ![TLSCell(g)] = {"stripped"}]
  BY DEF Live
<1>2. TLSCell(g) = <<g, "tls">> /\ bytes \in {{}, {"cut"}}
  BY DEF TLSCell, ReadAll
<1>3. /\ heap \in [Cells -> SUBSET Marks]
      /\ {<<g, "clone">>, <<g, "sentBody">>, <<g, "request">>, <<g, "requestBody">>,
          <<g, "liveBody">>, <<g, "tls">>} \subseteq Cells
  <2>1. {"clone", "sentBody", "request", "requestBody", "liveBody", "tls"} \subseteq Owned \cup Parts
    BY DEF Owned, Parts
  <2> QED
    BY <2>1, Types, CellNames DEF HeapInv
<1>4. {heap[<<g, "clone">>], heap[<<g, "sentBody">>], bytes, {"stripped"}} \subseteq SUBSET Marks
  BY <1>2, <1>3 DEF Marks
<1>5. heap' \in [Cells -> SUBSET Marks]
  BY <1>1, <1>3, <1>4
<1>6. /\ heap'[<<g, "request">>] = heap[<<g, "clone">>]
      /\ heap'[<<g, "requestBody">>] = heap[<<g, "sentBody">>]
      /\ heap'[<<g, "liveBody">>] = bytes
      /\ heap'[<<g, "tls">>] = {"stripped"}
      /\ \A c \in Cells :
           c \notin {<<g, "request">>, <<g, "requestBody">>, <<g, "liveBody">>, <<g, "tls">>} =>
             heap'[c] = heap[c]
  BY <1>1, <1>2, <1>3
<1>7. /\ new' = [new EXCEPT ![g] = Transcoded(g)]
      /\ UNCHANGED <<tracks, file, at, given, mutates, inPlace, everPlayed>>
  BY DEF Live, settings
<1>8. new' \in [Calls -> Refs \cup {NoTrack}] /\ new'[g] = Transcoded(g)
  BY <1>7, Types, TranscodedType DEF LocalsInv
<1> QED
  BY <1>2, <1>5, <1>6, <1>7, <1>8

\* Live.
LEMMA ShapeLive ==
  ASSUME ShapeInv, NEW g \in Calls, Live(g)
  PROVE  ShapeInv'
<1>s. Step(g) /\ ~AddTrack(g)
  BY StepControl DEF Step
<1>1. HeapInv' /\ FileInv' /\ TracksInv'
  BY <1>s, LiveEffect, Types, RoomKept DEF HeapInv, FileInv
<1>2. LocalsInv'
  <2>1. /\ new' \in [Calls -> Refs \cup {NoTrack}]
        /\ UNCHANGED <<tracks, at, given, mutates, inPlace>>
    BY LiveEffect
  <2>2. pc' \in [Calls -> Steps]
    BY <1>s, StepControl
  <2> QED
    BY <2>1, <2>2, Types DEF LocalsInv
<1>3. CallInv(g)'
  <2>1. pc'[g] = "MutateRecording"
    BY <1>s, StepControl
  <2> QED
    BY <2>1, LiveEffect, TranscodedType DEF CallInv
<1>4. \A h \in Calls \ {g} : CallInv(h)'
  BY <1>s, LiveEffect, OthersKept
<1> QED
  BY <1>1, <1>2, <1>3, <1>4 DEF ShapeInv

\* The recording mutators change the cells of the new track.
LEMMA RecordEffect ==
  ASSUME ShapeInv, NEW g \in Calls, MutateRecording(g)
  PROVE  /\ new[g] \in Refs /\ new'[g] = Mutated(g, new[g])
         /\ new' \in [Calls -> Refs \cup {NoTrack}] /\ new'[g] \in Refs
         /\ heap' = MutatedHeap(g, new[g], {}, "recording")
         /\ heap' \in [Cells -> SUBSET Marks]
         /\ UNCHANGED <<tracks, file, at, given, mutates, inPlace, everPlayed>>
<1>1. new[g] \in Refs
  BY StepControl, Types DEF Step, CallInv
<1>2. /\ new' = [new EXCEPT ![g] = Mutated(g, new[g])]
      /\ heap' = MutatedHeap(g, new[g], {}, "recording")
      /\ UNCHANGED <<tracks, file, at, given, mutates, inPlace, everPlayed>>
  BY DEF MutateRecording, settings
<1>3. /\ Mutated(g, new[g]) \in Refs
      /\ MutatedHeap(g, new[g], {}, "recording") \in [Cells -> SUBSET Marks]
  BY <1>1, Types, Mutating DEF LocalsInv, Marks
<1>4. new' \in [Calls -> Refs \cup {NoTrack}] /\ new'[g] = Mutated(g, new[g])
  BY <1>2, <1>3, Types DEF LocalsInv
<1> QED
  BY <1>1, <1>2, <1>3, <1>4

\* MutateRecording.
LEMMA ShapeRecord ==
  ASSUME ShapeInv, NEW g \in Calls, MutateRecording(g)
  PROVE  ShapeInv'
<1>s. Step(g) /\ ~AddTrack(g)
  BY StepControl DEF Step
<1>1. HeapInv' /\ FileInv' /\ TracksInv'
  BY <1>s, RecordEffect, Types, RoomKept DEF HeapInv, FileInv
<1>2. LocalsInv'
  BY <1>s, RecordEffect, Types, StepControl DEF LocalsInv
<1>3. CallInv(g)'
  <2>1. pc'[g] = "AddTrack"
    BY <1>s, StepControl
  <2> QED
    BY <2>1, RecordEffect DEF CallInv
<1>4. \A h \in Calls \ {g} : CallInv(h)'
  BY <1>s, RecordEffect, OthersKept
<1> QED
  BY <1>1, <1>2, <1>3, <1>4 DEF ShapeInv

\* The new track is the last one.
LEMMA AddEffect ==
  ASSUME ShapeInv, NEW g \in Calls, AddTrack(g)
  PROVE  /\ tracks' \in Seq(Track) /\ Len(tracks') = Len(tracks) + 1
         /\ DOMAIN tracks' = 1..(Len(tracks) + 1)
         /\ \A i \in DOMAIN tracks : tracks'[i] = tracks[i]
         /\ tracks'[Len(tracks) + 1].cells = new[g] /\ new[g] \in Refs
         /\ UNCHANGED <<heap, file, at, new, given, mutates, inPlace, everPlayed>>
<1> DEFINE trk == [cells |-> new[g], current |-> Nothing, replayed |-> TRUE]
<1>1. new[g] \in Refs
  BY StepControl, Types DEF Step, CallInv
<1>2. trk \in Track /\ trk.cells = new[g]
  BY <1>1 DEF Track
<1>3. /\ tracks' = Append(tracks, trk)
      /\ UNCHANGED <<heap, file, at, new, given, mutates, inPlace, everPlayed>>
  BY DEF AddTrack, locals, settings
<1> HIDE DEF trk
<1>4. /\ Append(tracks, trk) \in Seq(Track)
      /\ Len(Append(tracks, trk)) = Len(tracks) + 1
      /\ \A i \in 1..Len(tracks) : Append(tracks, trk)[i] = tracks[i]
      /\ Append(tracks, trk)[Len(tracks) + 1] = trk
  BY <1>2, Types, AppendProperties
<1> QED
  BY <1>1, <1>2, <1>3, <1>4, Types, LenProperties

\* AddTrack.
LEMMA ShapeAdd ==
  ASSUME ShapeInv, NEW g \in Calls, AddTrack(g)
  PROVE  ShapeInv'
<1>s. Step(g) /\ pc[g] = "AddTrack" /\ pc'[g] = "Save"
  BY StepControl DEF Step
<1>1. HeapInv' /\ FileInv'
  BY AddEffect, Types DEF HeapInv, FileInv
<1>2. TracksInv'
  <2>1. Pending' = Pending \ {g} /\ g \in Pending /\ Pending \in SUBSET Calls
    BY <1>s, StepControl DEF Pending
  <2>2. IsFiniteSet(Pending) /\ Cardinality(Pending) \in Nat
    BY <2>1, RoomType, FS_Subset, FS_CardinalityType
  <2>3. Cardinality(Pending') = Cardinality(Pending) - 1
    BY <2>1, <2>2, FS_RemoveElement
  <2>4. Len(tracks) \in Nat /\ Len(tracks) + Cardinality(Pending) <= Room
    BY Types DEF TracksInv
  <2>5. (Len(tracks) + 1) + (Cardinality(Pending) - 1) <= Room
    BY <2>2, <2>4, RoomType
  <2> QED
    BY <2>3, <2>5, AddEffect DEF TracksInv
<1>3. LocalsInv'
  <2>1. 0..Len(tracks) \subseteq 0..Len(tracks')
    BY AddEffect, Types
  <2>2. at' \in [Calls -> 0..Len(tracks')]
    BY <2>1, AddEffect, Types DEF LocalsInv
  <2> QED
    BY <1>s, <2>2, AddEffect, Types, StepControl DEF LocalsInv
<1>4. CallInv(g)'
  BY <1>s, AddEffect DEF CallInv
<1>5. \A h \in Calls \ {g} : CallInv(h)'
  <2>1. DOMAIN tracks \subseteq DOMAIN tracks'
    BY AddEffect, Types
  <2> QED
    BY <1>s, <2>1, AddEffect, OthersKept
<1> QED
  BY <1>1, <1>2, <1>3, <1>4, <1>5 DEF ShapeInv

\* A function on the numbers up to n is a sequence.
LEMMA AsSequence ==
  ASSUME NEW S, NEW n \in Nat, NEW f \in [1..n -> S]
  PROVE  f \in Seq(S) /\ Len(f) = n /\ DOMAIN f = 1..n
<1>1. f \in Seq(S)
  BY SeqDef
<1>2. DOMAIN f = 1..Len(f) /\ Len(f) \in Nat
  BY <1>1, LenProperties
<1> QED
  BY <1>1, <1>2

\* What is saved are the marks on the cells of the cassette, part by part.
LEMMA SavedType ==
  ASSUME ShapeInv
  PROVE  /\ Saved \in Seq([Parts -> SUBSET Marks]) /\ Len(Saved) = Len(tracks)
         /\ DOMAIN Saved = DOMAIN tracks
         /\ \A i \in DOMAIN tracks : \A part \in Parts :
              Saved[i][part] = heap[tracks[i].cells[part]]
<1>1. \A i \in DOMAIN tracks : \A part \in Parts :
        heap[tracks[i].cells[part]] \in SUBSET Marks
  BY Types, RefCells DEF HeapInv
<1>2. Saved \in [1..Len(tracks) -> [Parts -> SUBSET Marks]]
  BY <1>1, Types DEF Saved
<1> QED
  BY <1>2, AsSequence, Types DEF Saved

\* Save.
LEMMA ShapeSave ==
  ASSUME ShapeInv, NEW g \in Calls, Save(g)
  PROVE  ShapeInv'
<1>s. Step(g) /\ ~AddTrack(g) /\ pc[g] = "Save" /\ pc'[g] = "Answered"
  BY StepControl DEF Step
<1>1. /\ file' = Saved
      /\ UNCHANGED <<heap, tracks, at, new, given, mutates, inPlace, everPlayed>>
  BY DEF Save, locals, settings
<1>2. HeapInv' /\ TracksInv'
  BY <1>s, <1>1, Types, RoomKept DEF HeapInv
<1>3. FileInv'
  <2>1. Len(tracks) <= Room
    <3>1. Cardinality(Pending) \in Nat
      BY RoomType, FS_Subset, FS_CardinalityType DEF Pending
    <3> QED
      BY <3>1, Types, RoomType DEF TracksInv
  <2> QED
    BY <1>1, <2>1, SavedType DEF FileInv
<1>4. LocalsInv'
  BY <1>s, <1>1, Types, StepControl DEF LocalsInv
<1>5. CallInv(g)'
  BY <1>s, <1>1 DEF CallInv
<1>6. \A h \in Calls \ {g} : CallInv(h)'
  BY <1>s, <1>1, OthersKept
<1> QED
  BY <1>2, <1>3, <1>4, <1>5, <1>6 DEF ShapeInv

\* A track that was read has a cell of its own for each part.
LEMMA LoadedType ==
  ASSUME NEW i \in 1..Room
  PROVE  /\ Loaded(i) \in Track
         /\ \A part \in Parts : Loaded(i).cells[part] = <<i, part>>
<1>1. \A part \in Parts : <<i, part>> \in Cells \cap CellsFor(part)
  BY CellNames, RoomType DEF CellsFor
<1>2. [part \in Parts |-> <<i, part>>] \in Refs
  BY <1>1 DEF Refs
<1>3. Loaded(i).cells = [part \in Parts |-> <<i, part>>]
  BY DEF Loaded
<1> QED
  BY <1>2, <1>3 DEF Loaded, Track

\* A session begins with the tracks of the file, and nothing else in memory.
LEMMA LoadEffect ==
  ASSUME ShapeInv, LoadCassette
  PROVE  /\ DOMAIN file = 1..Len(file) /\ Len(file) \in Nat /\ Len(file) <= Room
         /\ \A i \in DOMAIN file : file[i] \in [Parts -> SUBSET Marks] /\ i \in 1..Room
         /\ heap' \in [Cells -> SUBSET Marks]
         /\ \A c \in Cells :
              \/ c[1] \in DOMAIN file /\ c[2] \in Parts /\ heap'[c] = file[c[1]][c[2]]
              \/ c[1] \notin DOMAIN file /\ heap'[c] = {}
              \/ c[2] \notin Parts /\ heap'[c] = {}
         /\ tracks' \in Seq(Track) /\ Len(tracks') = Len(file)
         /\ DOMAIN tracks' = DOMAIN file
         /\ \A i \in DOMAIN file : \A part \in Parts : tracks'[i].cells[part] = <<i, part>>
         /\ \A g \in Calls : /\ pc'[g] = "Idle" /\ at'[g] = 0 /\ new'[g] = NoTrack
                             /\ given'[g] = {}
         /\ UNCHANGED <<file, mutates, inPlace, everPlayed>>
<1>1. /\ DOMAIN file = 1..Len(file) /\ Len(file) \in Nat /\ Len(file) <= Room
      /\ \A i \in DOMAIN file : file[i] \in [Parts -> SUBSET Marks]
  BY Types, LenProperties DEF FileInv
<1>2. \A i \in DOMAIN file : i \in 1..Room
  BY <1>1, RoomType
<1>3. heap' = [c \in Cells |-> IF c[1] \in DOMAIN file /\ c[2] \in Parts
                                 THEN file[c[1]][c[2]] ELSE {}]
  BY DEF LoadCassette
<1>4. /\ heap' \in [Cells -> SUBSET Marks]
      /\ \A c \in Cells :
           \/ c[1] \in DOMAIN file /\ c[2] \in Parts /\ heap'[c] = file[c[1]][c[2]]
           \/ c[1] \notin DOMAIN file /\ heap'[c] = {}
           \/ c[2] \notin Parts /\ heap'[c] = {}
  BY <1>1, <1>3
<1>5. tracks' = [i \in 1..Len(file) |-> Loaded(i)]
  BY <1>1 DEF LoadCassette
<1>6. tracks' \in [1..Len(file) -> Track]
  BY <1>1, <1>2, <1>5, LoadedType
<1>7. tracks' \in Seq(Track) /\ Len(tracks') = Len(file) /\ DOMAIN tracks' = DOMAIN file
  BY <1>1, <1>6, AsSequence
<1>8. \A i \in DOMAIN file : \A part \in Parts : tracks'[i].cells[part] = <<i, part>>
  BY <1>1, <1>2, <1>5, LoadedType
<1>9. \A g \in Calls : /\ pc'[g] = "Idle" /\ at'[g] = 0 /\ new'[g] = NoTrack
                       /\ given'[g] = {}
  BY DEF LoadCassette
<1> QED
  BY <1>1, <1>2, <1>4, <1>7, <1>8, <1>9 DEF LoadCassette, settings

\* LoadCassette.
LEMMA ShapeLoad == ASSUME ShapeInv, LoadCassette PROVE ShapeInv'
<1>1. HeapInv' /\ FileInv'
  BY LoadEffect, Types DEF HeapInv, FileInv
<1>2. TracksInv'
  <2>1. Pending' = {}
    BY LoadEffect DEF Pending
  <2>2. Cardinality(Pending') = 0
    BY <2>1, FS_EmptySet
  <2> QED
    BY <2>2, LoadEffect DEF TracksInv
<1>3. LocalsInv'
  <2>1. /\ pc' \in [Calls -> Steps] /\ at' \in [Calls -> {0}]
        /\ new' \in [Calls -> {NoTrack}] /\ given' \in [Calls -> {{}}]
    BY DEF LoadCassette, Steps
  <2>2. 0 \in 0..Len(tracks')
    BY LoadEffect
  <2>3. at' \in [Calls -> 0..Len(tracks')]
    BY <2>1, <2>2
  <2> QED
    BY <2>1, <2>3, LoadEffect, Types DEF LocalsInv
<1>4. \A g \in Calls : CallInv(g)'
  BY LoadEffect DEF CallInv
<1> QED
  BY <1>1, <1>2, <1>3, <1>4 DEF ShapeInv

\* In the beginning there is one track, on file and in memory.
LEMMA InitEffect ==
  ASSUME Init
  PROVE  /\ DOMAIN tracks = {1} /\ tracks \in Seq(Track) /\ Len(tracks) = 1
         /\ \A part \in Parts : tracks[1].cells[part] = <<1, part>>
         /\ \A c \in Cells : heap[c] = {}
         /\ \A i \in DOMAIN file : i = 1 /\ \A part \in Parts : file[i][part] = {}
         /\ file \in Seq([Parts -> SUBSET Marks]) /\ Len(file) = 1
<1>1. 1 \in 1..Room /\ Loaded(1) \in Track
  BY RoomType, LoadedType
<1>2. tracks = <<Loaded(1)>> /\ heap = [c \in Cells |-> {}] /\ file = Saved
  BY DEF Init
<1>3. tracks \in Seq(Track) /\ Len(tracks) = 1 /\ DOMAIN tracks = 1..1 /\ tracks[1] = Loaded(1)
  BY <1>1, <1>2
<1>4. \A part \in Parts : tracks[1].cells[part] = <<1, part>> /\ <<1, part>> \in Cells
  BY <1>1, <1>3, LoadedType, CellNames
<1>5. file = [i \in 1..1 |-> [part \in Parts |-> {}]]
  <2>1. file = [i \in 1..1 |-> [part \in Parts |-> heap[tracks[i].cells[part]]]]
    BY <1>2, <1>3 DEF Saved
  <2>2. \A i \in 1..1 : i = 1
    OBVIOUS
  <2>3. \A i \in 1..1 : \A part \in Parts : heap[tracks[i].cells[part]] = {}
    BY <1>2, <1>4, <2>2
  <2> QED
    BY <2>1, <2>3
<1>6. file \in Seq([Parts -> SUBSET Marks]) /\ Len(file) = 1 /\ DOMAIN file = 1..1
  <2>1. file \in [1..1 -> [Parts -> SUBSET Marks]]
    BY <1>5
  <2> QED
    BY <2>1, AsSequence
<1>7. 1..1 = {1}
  OBVIOUS
<1>8. \A i \in DOMAIN file : i = 1 /\ \A part \in Parts : file[i][part] = {}
  BY <1>5, <1>7
<1> QED
  BY <1>2, <1>3, <1>4, <1>6, <1>7, <1>8

\* Init.
LEMMA ShapeInit == Init => ShapeInv
<1> SUFFICES ASSUME Init PROVE ShapeInv
  OBVIOUS
<1>r. Room \in Nat /\ 1 + 0 <= Room /\ 1 <= Room
  <2>1. \A n \in Nat \ {0} : 1 + 0 <= n /\ 1 <= n
    OBVIOUS
  <2> QED
    BY <2>1, RoomType
<1>1. HeapInv
  BY DEF Init, HeapInv
<1>2. TracksInv
  <2>1. Pending = {}
    BY DEF Init, Pending
  <2>2. Cardinality(Pending) = 0
    BY <2>1, FS_EmptySet
  <2> QED
    BY <1>r, <2>2, InitEffect DEF TracksInv
<1>3. FileInv
  BY <1>r, InitEffect DEF FileInv
<1>4. LocalsInv
  <2>1. 0 \in 0..Len(tracks)
    BY InitEffect
  <2> QED
    BY <2>1 DEF Init, LocalsInv, Steps
<1>5. \A g \in Calls : CallInv(g)
  BY DEF Init, CallInv
<1> QED
  BY <1>1, <1>2, <1>3, <1>4, <1>5 DEF ShapeInv

\* Every step.
LEMMA ShapeNext == ASSUME ShapeInv, [Next]_vars PROVE ShapeInv'
<1>1. ASSUME NEW g \in Calls, Step(g) PROVE ShapeInv'
  BY <1>1, ShapeQuiet, ShapeReplay, ShapeMutate, ShapeLive, ShapeRecord, ShapeAdd,
     ShapeSave DEF Step
<1>2. CASE LoadCassette
  BY <1>2, ShapeLoad
<1>3. CASE UNCHANGED vars
  <2>1. UNCHANGED <<heap, tracks, file, pc, at, new, given, mutates, inPlace, everPlayed>>
    BY <1>3 DEF vars, locals, settings
  <2>2. HeapInv' /\ FileInv' /\ LocalsInv'
    BY <2>1, Types DEF HeapInv, FileInv, LocalsInv
  <2>3. TracksInv'
    BY <2>1, Types DEF TracksInv, Pending
  <2>4. \A g \in Calls : CallInv(g)'
    BY <2>1, Types DEF CallInv
  <2> QED
    BY <2>2, <2>3, <2>4 DEF ShapeInv
<1> QED
  BY <1>1, <1>2, <1>3 DEF Next, Step

\* In every state: calls refer to tracks that exist, tracks to cells that exist
\* and are of the right kind, and there are cells enough.
THEOREM ShapeInvariance == Spec => []ShapeInv
<1>1. ShapeInv /\ [Next]_vars => ShapeInv'
  BY ShapeNext
<1> QED
  BY <1>1, ShapeInit, PTL DEF Spec

\* Every variable keeps its type.
THEOREM TypeCorrect == Spec => []TypeOK
<1>1. ShapeInv => TypeOK
  <2> SUFFICES ASSUME ShapeInv PROVE TypeOK
    OBVIOUS
  <2>1. \A i \in DOMAIN tracks : \A part \in Parts : tracks[i].cells[part] \in Cells
    BY Types, RefCells
  <2>2. \A i \in DOMAIN file : file[i] \in [Parts -> SUBSET Marks]
    BY Types, LenProperties DEF FileInv
  <2> QED
    BY <2>1, <2>2, Types DEF TypeOK, HeapInv, LocalsInv
<1> QED
  BY <1>1, ShapeInvariance, PTL

(***************************************************************************)
(* Which marks are on which cells                                          *)
(***************************************************************************)

\* What a track refers to may have the marks of the tracks, and what is copied
\* to it no others.
LEMMA MayBeMarked ==
  /\ May("wanted") = {"matcher"} /\ May("trackArg") = {"matcher"}
  /\ May("sent") = {"liveClient"} /\ May("live") = {"liveClient"}
  /\ May("liveTLS") = {"liveClient"}
  /\ May("sentBody") = {"cut"} /\ May("clone") = {} /\ May("current") = {"replaying"}
  /\ May("liveBody") \subseteq {"cut", "recording", "replaying"} /\ "cut" \in May("liveBody")
  /\ inPlace => {"recording", "replaying"} \subseteq May("liveBody")
  /\ ~inPlace => May("liveBody") = {"cut"}
  /\ \A part \in Parts : May(part) = OnTracks
BY DEF May, Parts, OnTracks

\* A step of Mutate leaves its mark where it may be.
LEMMA MutatedMarks ==
  ASSUME HeapInv, inPlace \in BOOLEAN, MarksInv, NEW g \in Calls, NEW cells \in Refs,
         NEW also, NEW mark \in {"recording", "replaying"},
         \A c \in also : mark \in May(c[2]),
         NEW c \in Cells
  PROVE  MutatedHeap(g, cells, also, mark)[c] \subseteq May(c[2])
<1> DEFINE h == MutatedHeap(g, cells, also, mark)
<1>1. \/ /\ c \in also \/ \E part \in Parts : /\ part \notin Bodies \/ inPlace
                                              /\ cells[part] = c
         /\ h[c] = heap[c] \cup {mark}
      \/ \E part \in Bodies : /\ ~inPlace /\ c = <<g, part>>
                              /\ h[c] = heap[cells[part]] \cup {mark}
      \/ h[c] = heap[c]
  BY Mutating DEF Marks
<1>2. heap[c] \subseteq May(c[2]) /\ mark \in OnTracks
  BY DEF MarksInv, OnTracks
<1> HIDE DEF h
<1>3. ASSUME h[c] = heap[c] \cup {mark}, c \in also
      PROVE  h[c] \subseteq May(c[2])
  BY <1>2, <1>3
<1>4. ASSUME NEW part \in Parts, part \notin Bodies \/ inPlace, cells[part] = c,
             h[c] = heap[c] \cup {mark}
      PROVE  h[c] \subseteq May(c[2])
  <2>1. mark \in May(c[2])
    <3>1. CASE c[2] = part
      BY <1>2, <3>1, MayBeMarked
    <3>2. CASE c[2] = "liveBody" /\ part = "body"
      BY <1>4, <3>2, MayBeMarked DEF Bodies
    <3> QED
      BY <1>4, <3>1, <3>2, RefCells
  <2> QED
    BY <1>2, <1>4, <2>1
<1>5. ASSUME NEW part \in Bodies, c = <<g, part>>, h[c] = heap[cells[part]] \cup {mark}
      PROVE  h[c] \subseteq May(c[2])
  <2>1. c[2] = part /\ part \in Parts
    BY <1>5 DEF Bodies, Parts
  <2>2. cells[part] \in Cells /\ cells[part][2] \in Parts \cup {"liveBody"}
    BY <2>1, RefCells
  <2>3. heap[cells[part]] \subseteq OnTracks
    BY <2>2, MayBeMarked DEF MarksInv, OnTracks
  <2> QED
    BY <1>2, <1>5, <2>1, <2>3, MayBeMarked
<1>6. h[c] = heap[c] => h[c] \subseteq May(c[2])
  BY <1>2
<1>7. h[c] \subseteq May(c[2])
  BY <1>1, <1>3, <1>4, <1>5, <1>6
<1> QED
  BY <1>7 DEF h

\* No step puts a mark where it may not be.
LEMMA MarksStep ==
  ASSUME ShapeInv, MarksInv, [Next]_vars
  PROVE  MarksInv'
<1>p. inPlace' = inPlace /\ \A kind : May(kind)' = May(kind)
  <2>1. inPlace' = inPlace
    BY DEF Next, vars, settings, CloneHTTPRequest, SeekTrack, ReplayTrack, MutateReplaying,
       ToHTTPResponse, EditPlayed, Refuse, LiveReadOnly, Live, MutateRecording, AddTrack,
       Save, SaveFails, EditLive, LoadCassette
  <2> QED
    BY <2>1 DEF May
<1>m. /\ \A c \in Cells : heap[c] \subseteq May(c[2])
      /\ \A i \in DOMAIN file : \A part \in Parts : file[i][part] \subseteq OnTracks
      /\ HeapInv /\ inPlace \in BOOLEAN
  BY Types DEF MarksInv, LocalsInv
<1>h. ASSUME \A c \in Cells : heap'[c] \subseteq May(c[2]), file' = file
      PROVE  MarksInv'
  BY <1>h, <1>p, <1>m DEF MarksInv
<1>1. ASSUME NEW g \in Calls, CloneHTTPRequest(g)
      PROVE  MarksInv'
  <2>1. PICK bytes \in ReadAll : heap' = [heap EXCEPT ![<<g, "sentBody">>] = Restored(bytes)]
    BY <1>1 DEF CloneHTTPRequest
  <2>2. Restored(bytes) \subseteq May("sentBody")
    BY MayBeMarked DEF ReadAll, Restored
  <2>3. \A c \in Cells : heap'[c] \subseteq May(c[2])
    BY <1>m, <2>1, <2>2 DEF HeapInv
  <2> QED
    BY <1>1, <1>h, <2>3 DEF CloneHTTPRequest
<1>2. ASSUME NEW g \in Calls, SeekTrack(g)
      PROVE  MarksInv'
  <2>1. heap' = Marked({<<g, "wanted">>} \cup {<<g, "trackArg">>}, "matcher")
    BY <1>2 DEF SeekTrack, RequestArg, TrackArgs
  <2>2. \A c \in Cells : heap'[c] \subseteq May(c[2])
    BY <1>m, <2>1, Marking, MayBeMarked DEF Marks
  <2> QED
    BY <1>2, <1>h, <2>2 DEF SeekTrack
<1>3. ASSUME NEW g \in Calls, MutateReplaying(g)
      PROVE  MarksInv'
  <2>1. file' = file
    BY <1>3, MutateEffect
  <2>2. CASE heap' = heap
    BY <1>m, <1>h, <2>1, <2>2
  <2>3. CASE /\ tracks[at[g]].current \in Calls \X {"current"}
             /\ heap' = MutatedHeap(g, tracks[at[g]].cells,
                                    {tracks[at[g]].current}, "replaying")
    <3>1. tracks[at[g]].cells \in Refs
      BY <1>3, MutateEffect, Types
    <3>2. "replaying" \in May(tracks[at[g]].current[2])
      BY <2>3, MayBeMarked
    <3> QED
      BY <1>m, <1>h, <2>1, <2>3, <3>1, <3>2, MutatedMarks
  <2> QED
    BY <1>3, <2>2, <2>3, MutateEffect
<1>4. ASSUME NEW g \in Calls, EditPlayed(g)
      PROVE  MarksInv'
  <2>1. heap' = Marked(given[g], "replayClient") /\ file' = file /\ pc[g] = "Played"
    BY <1>4 DEF EditPlayed
  <2>2. \A c \in given[g] : c[2] \in Parts
    <3>1. /\ given[g] = {tracks[at[g]].cells[part] : part \in Parts \ Bodies}
          /\ tracks[at[g]].cells \in Refs
      BY <2>1, Types DEF CallInv
    <3> QED
      BY <3>1, RefCells DEF Bodies
  <2>3. \A c \in Cells : heap'[c] \subseteq May(c[2])
    BY <1>m, <2>1, <2>2, Marking, MayBeMarked DEF Marks, OnTracks
  <2> QED
    BY <1>h, <2>1, <2>3
<1>5. ASSUME NEW g \in Calls, EditLive(g)
      PROVE  MarksInv'
  <2>1. heap' = Marked({<<g, "sent">>, <<g, "live">>, <<g, "liveTLS">>}, "liveClient")
    BY <1>5 DEF EditLive, LiveCells
  <2>2. \A c \in Cells : heap'[c] \subseteq May(c[2])
    BY <1>m, <2>1, Marking, MayBeMarked DEF Marks
  <2> QED
    BY <1>5, <1>h, <2>2 DEF EditLive
<1>6. ASSUME NEW g \in Calls, Live(g)
      PROVE  MarksInv'
  <2>1. {<<g, "clone">>, <<g, "sentBody">>} \subseteq Cells
    BY CellNames DEF Owned
  <2>2. heap[<<g, "clone">>] \subseteq May("clone") /\ heap[<<g, "sentBody">>] \subseteq May("sentBody")
    BY <1>m, <2>1
  <2>3. /\ heap'[<<g, "request">>] \subseteq May("request")
        /\ heap'[<<g, "requestBody">>] \subseteq May("requestBody")
        /\ heap'[<<g, "liveBody">>] \subseteq May("liveBody")
        /\ heap'[<<g, "tls">>] \subseteq May("tls")
    <3>1. May("request") = OnTracks /\ May("requestBody") = OnTracks /\ May("tls") = OnTracks
      BY MayBeMarked DEF Parts
    <3>2. /\ heap'[<<g, "request">>] = heap[<<g, "clone">>]
          /\ heap'[<<g, "requestBody">>] = heap[<<g, "sentBody">>]
          /\ heap'[<<g, "liveBody">>] \in {{}, {"cut"}}
          /\ heap'[<<g, "tls">>] = {"stripped"}
      BY <1>6, LiveEffect
    <3> QED
      BY <2>2, <3>1, <3>2, MayBeMarked DEF OnTracks
  <2>4. ASSUME NEW c \in Cells PROVE heap'[c] \subseteq May(c[2])
    <3>1. CASE c \in {<<g, "request">>, <<g, "requestBody">>, <<g, "liveBody">>, <<g, "tls">>}
      BY <2>3, <3>1
    <3>2. CASE c \notin {<<g, "request">>, <<g, "requestBody">>, <<g, "liveBody">>, <<g, "tls">>}
      BY <1>6, <1>m, <3>2, LiveEffect
    <3> QED
      BY <3>1, <3>2
  <2> QED
    BY <1>6, <1>h, <2>4, LiveEffect
<1>7. ASSUME NEW g \in Calls, MutateRecording(g)
      PROVE  MarksInv'
  BY <1>7, <1>m, <1>h, RecordEffect, MutatedMarks
<1>8. ASSUME NEW g \in Calls, Save(g)
      PROVE  MarksInv'
  <2>1. heap' = heap /\ file' = Saved
    BY <1>8 DEF Save
  <2>2. ASSUME NEW i \in DOMAIN tracks, NEW part \in Parts
        PROVE  file'[i][part] \subseteq OnTracks
    <3>1. /\ tracks[i].cells[part] \in Cells
          /\ tracks[i].cells[part][2] \in Parts \cup {"liveBody"}
      BY Types, RefCells
    <3>2. heap[tracks[i].cells[part]] \subseteq OnTracks
      BY <1>m, <3>1, MayBeMarked DEF OnTracks
    <3> QED
      BY <2>1, <3>2, SavedType
  <2>3. DOMAIN file' = DOMAIN tracks
    BY <2>1, SavedType
  <2> QED
    BY <1>p, <1>m, <2>1, <2>2, <2>3 DEF MarksInv
<1>9. CASE LoadCassette
  <2>1. ASSUME NEW c \in Cells PROVE heap'[c] \subseteq May(c[2])
    BY <1>9, <1>m, LoadEffect, MayBeMarked
  <2> QED
    BY <1>9, <1>h, <2>1, LoadEffect
<1>10. ASSUME NEW g \in Calls,
              \/ ReplayTrack(g) \/ ToHTTPResponse(g) \/ Refuse(g) \/ LiveReadOnly(g)
              \/ AddTrack(g) \/ SaveFails(g)
       PROVE  MarksInv'
  <2>1. heap' = heap /\ file' = file
    BY <1>10 DEF ReplayTrack, ToHTTPResponse, Refuse, LiveReadOnly, AddTrack, SaveFails
  <2> QED
    BY <1>m, <1>h, <2>1
<1>11. CASE UNCHANGED vars
  BY <1>11, <1>m, <1>h DEF vars
<1> QED
  BY <1>1, <1>2, <1>3, <1>4, <1>5, <1>6, <1>7, <1>8, <1>9, <1>10, <1>11 DEF Next

\* In every state a cell has no marks but those its kind may have.
LEMMA MarksInvariance == Spec => []MarksInv
<1>1. Init => MarksInv
  BY InitEffect DEF MarksInv
<1>2. ShapeInv /\ MarksInv /\ [Next]_vars => MarksInv'
  BY MarksStep
<1> QED
  BY <1>1, <1>2, ShapeInvariance, PTL DEF Spec

\* What is on a cassette, in memory or on file, has the marks of tracks only.
LEMMA MarksOfTracks ==
  ASSUME ShapeInv, MarksInv, NEW mark, mark \notin OnTracks
  PROVE  OnFile(mark) = {} /\ InMemory(mark) = {}
<1>1. OnFile(mark) = {}
  BY DEF OnFile, MarksInv
<1>2. ASSUME NEW i \in DOMAIN tracks, NEW part \in Parts
      PROVE  mark \notin heap[tracks[i].cells[part]]
  <2>1. /\ tracks[i].cells[part] \in Cells
        /\ tracks[i].cells[part][2] \in Parts \cup {"liveBody"}
    BY Types, RefCells
  <2> QED
    BY <2>1, MayBeMarked DEF MarksInv, OnTracks
<1>3. InMemory(mark) = {}
  BY <1>2 DEF InMemory
<1> QED
  BY <1>1, <1>3

\* What mutators do to tracks is seen neither by the server nor by the client of
\* a live call, but for edits in place of the body that came from the server.
THEOREM LiveStaysProtected == Spec => []LiveIsProtected
<1>1. MarksInv => LiveIsProtected
  <2> SUFFICES ASSUME MarksInv, NEW g \in Calls
               PROVE  /\ \A c \in LiveCells(g) \cup {<<g, "sentBody">>} :
                           heap[c] \cap {"recording", "replaying", "stripped"} = {}
                      /\ ~inPlace => "recording" \notin heap[<<g, "liveBody">>]
    BY DEF LiveIsProtected
  <2>1. {<<g, "sent">>, <<g, "live">>, <<g, "liveTLS">>, <<g, "sentBody">>, <<g, "liveBody">>}
          \subseteq Cells
    BY CellNames DEF Owned
  <2>2. /\ heap[<<g, "sent">>] \subseteq {"liveClient"}
        /\ heap[<<g, "live">>] \subseteq {"liveClient"}
        /\ heap[<<g, "liveTLS">>] \subseteq {"liveClient"}
        /\ heap[<<g, "sentBody">>] \subseteq {"cut"}
        /\ ~inPlace => heap[<<g, "liveBody">>] \subseteq {"cut"}
    BY <2>1, MayBeMarked DEF MarksInv
  <2> QED
    BY <2>2 DEF LiveCells
<1> QED
  BY <1>1, MarksInvariance, PTL

\* What matchers do to their arguments reaches neither the client's request nor
\* any track, in this session or a later one.
THEOREM MatchersStayScoped == Spec => []MatchersAreScoped
<1>1. ShapeInv /\ MarksInv => MatchersAreScoped
  <2> SUFFICES ASSUME ShapeInv, MarksInv PROVE MatchersAreScoped
    OBVIOUS
  <2>1. OnFile("matcher") = {} /\ InMemory("matcher") = {}
    BY MarksOfTracks DEF OnTracks
  <2>2. ASSUME NEW g \in Calls
        PROVE  "matcher" \notin heap[<<g, "sent">>] \cup heap[<<g, "current">>]
    <3>1. <<g, "sent">> \in Cells /\ <<g, "current">> \in Cells
      BY CellNames DEF Owned
    <3>2. heap[<<g, "sent">>] \subseteq {"liveClient"} /\ heap[<<g, "current">>] \subseteq {"replaying"}
      BY <3>1, MayBeMarked DEF MarksInv
    <3> QED
      BY <3>2
  <2> QED
    BY <2>1, <2>2 DEF MatchersAreScoped
<1> QED
  BY <1>1, ShapeInvariance, MarksInvariance, PTL

\* What a client does to a live request or response never reaches a cassette.
THEOREM LiveEditsNeverRecorded == Spec => []LiveEditsStayOut
<1>1. ShapeInv /\ MarksInv => LiveEditsStayOut
  BY MarksOfTracks DEF LiveEditsStayOut, OnTracks
<1> QED
  BY <1>1, ShapeInvariance, MarksInvariance, PTL

(***************************************************************************)
(* Whose cells are whose                                                   *)
(***************************************************************************)

\* The cells of two calls are different, and so are those of a call and those of
\* a track that was read.
LEMMA OwnCells ==
  /\ \A g, h \in Calls : g # h => Own(g) \cap Own(h) = {}
  /\ \A g \in Calls : \A part \in Parts : <<g, part>> \in Own(g)
  /\ \A g \in Calls : \A i \in Nat : \A part \in Parts : <<i, part>> \notin Own(g)
  /\ \A g \in Calls : \A c \in Own(g) :
       c \in Cells /\ c[1] = g /\ c[2] \in Parts \cup {"liveBody"}
BY CallsAreNoNumbers, CellNames DEF Own

\* No track refers to nothing.
LEMMA NoTrackIsNone == NoTrack \notin Refs
<1> SUFFICES ASSUME NoTrack \in Refs PROVE FALSE
  OBVIOUS
<1>1. "request" \in Parts /\ "tls" \in Parts
  BY DEF Parts
<1>2. NoTrack["request"] = NoTrack["tls"]
  BY <1>1 DEF NoTrack
<1>3. NoTrack["request"][2] = "request" /\ NoTrack["tls"][2] = "tls"
  BY <1>1, RefCells
<1> QED
  BY <1>2, <1>3

\* A call that has put its cells on the cassette never begins again in the same
\* session.
LEMMA BegunOnce ==
  ASSUME ShapeInv, NEW g \in Calls, Step(g)
  PROVE  \A h \in Calls : pc'[h] \in Beginning => pc[h] \in Beginning
<1>1. pc'[g] \in Beginning => pc[g] \in Beginning
  BY StepControl DEF Step, Beginning
<1> QED
  BY <1>1, StepControl

\* No step makes two tracks share a cell.
LEMMA OwnersStep ==
  ASSUME ShapeInv, OwnersInv, [Next]_vars
  PROVE  OwnersInv'
<1>1. ASSUME NEW g \in Calls, MutateReplaying(g), ~UNCHANGED tracks
      PROVE  OwnersInv'
  <2> DEFINE cells == tracks[at[g]].cells
  <2>1. /\ at[g] \in DOMAIN tracks /\ new' = new /\ DOMAIN tracks' = DOMAIN tracks
        /\ \A i \in DOMAIN tracks : i # at[g] => tracks'[i] = tracks[i]
        /\ tracks'[at[g]].cells = Mutated(g, cells) /\ inPlace \in BOOLEAN
    BY <1>1, MutateEffect, Types DEF LocalsInv
  <2>2. pc[g] \in Beginning /\ pc'[g] \notin Beginning /\ Step(g)
    BY <1>1, StepControl DEF Step, Beginning
  <2>3. \A p \in Parts : tracks'[at[g]].cells[p] = cells[p]
                          \/ tracks'[at[g]].cells[p] = <<g, p>>
    BY <2>1 DEF Mutated
  <2>4. \A i \in DOMAIN tracks : \A p, q \in Parts : tracks[i].cells[p] # <<g, q>>
    <3>1. \A q \in Parts : <<g, q>> \in Own(g)
      BY OwnCells
    <3>2. \A i \in DOMAIN tracks : \A p \in Parts : tracks[i].cells[p] \notin Own(g)
      BY <2>2 DEF OwnersInv
    <3> QED
      BY <3>1, <3>2
  <2>5. ASSUME NEW i \in DOMAIN tracks', NEW j \in DOMAIN tracks', i # j,
               NEW p \in Parts, NEW q \in Parts
        PROVE  tracks'[i].cells[p] # tracks'[j].cells[q]
    <3>1. tracks[i].cells[p] # tracks[j].cells[q]
      BY <2>1, <2>5 DEF OwnersInv
    <3> QED
      BY <2>1, <2>3, <2>4, <2>5, <3>1
  <2>6. ASSUME NEW h \in Calls, pc'[h] \in Beginning, NEW i \in DOMAIN tracks', NEW p \in Parts
        PROVE  tracks'[i].cells[p] \notin Own(h)
    <3>1. h # g /\ pc[h] \in Beginning
      BY <2>2, <2>6, BegunOnce
    <3>2. tracks[i].cells[p] \notin Own(h) /\ <<g, p>> \notin Own(h)
      BY <2>1, <3>1, OwnCells DEF OwnersInv
    <3> QED
      BY <2>1, <2>3, <3>2
  <2> QED
    BY <2>1, <2>5, <2>6 DEF OwnersInv
<1>2. ASSUME NEW g \in Calls, Live(g) \/ MutateRecording(g)
      PROVE  OwnersInv'
  <2>1. tracks' = tracks /\ Step(g) /\ inPlace \in BOOLEAN
    BY <1>2, Types DEF Live, MutateRecording, Step, LocalsInv
  <2>2. \A p \in Parts : new'[g][p] \in Own(g)
    <3>1. CASE Live(g)
      BY <3>1, LiveEffect, TranscodedType DEF CellsOf
    <3>2. CASE MutateRecording(g)
      <4>1. new[g] \in Refs /\ new'[g] = Mutated(g, new[g])
        BY <3>2, RecordEffect
      <4>2. \A p \in Parts : new'[g][p] = new[g][p] \/ new'[g][p] = <<g, p>>
        BY <4>1 DEF Mutated
      <4>3. \A p \in Parts : <<g, p>> \in Own(g) /\ new[g][p] \in Own(g)
        BY <4>1, OwnCells DEF OwnersInv
      <4> QED
        BY <4>2, <4>3
    <3> QED
      BY <1>2, <3>1, <3>2
  <2>3. \A h \in Calls : pc'[h] \in Beginning => pc[h] \in Beginning
    BY <2>1, BegunOnce
  <2>4. \A h \in Calls \ {g} : new'[h] = new[h]
    BY <2>1, StepControl
  <2> QED
    BY <2>1, <2>2, <2>3, <2>4 DEF OwnersInv
<1>3. ASSUME NEW g \in Calls, AddTrack(g)
      PROVE  OwnersInv'
  <2> DEFINE n == Len(tracks) + 1
  <2>1. /\ DOMAIN tracks = 1..Len(tracks) /\ DOMAIN tracks' = 1..n /\ Len(tracks) \in Nat
        /\ \A i \in DOMAIN tracks : tracks'[i] = tracks[i]
        /\ tracks'[n].cells = new[g] /\ new[g] \in Refs /\ new' = new
    BY <1>3, AddEffect, Types
  <2>2. pc[g] \in Beginning /\ pc'[g] \notin Beginning /\ Step(g)
    BY <1>3, StepControl DEF Step, Beginning
  <2>3. \A p \in Parts : new[g][p] \in Own(g)
    BY <2>1 DEF OwnersInv
  <2>4. \A i \in DOMAIN tracks' : i \in DOMAIN tracks \/ i = n
    BY <2>1
  <2>5. \A i \in DOMAIN tracks : \A p, q \in Parts : tracks[i].cells[p] # new[g][q]
    BY <2>2, <2>3 DEF OwnersInv
  <2> HIDE DEF n
  <2>6. ASSUME NEW i \in DOMAIN tracks', NEW j \in DOMAIN tracks', i # j,
               NEW p \in Parts, NEW q \in Parts
        PROVE  tracks'[i].cells[p] # tracks'[j].cells[q]
    <3>1. CASE i \in DOMAIN tracks /\ j \in DOMAIN tracks
      BY <2>1, <2>6, <3>1 DEF OwnersInv
    <3>2. CASE i \in DOMAIN tracks /\ j = n
      BY <2>1, <2>5, <3>2
    <3>3. CASE i = n /\ j \in DOMAIN tracks
      BY <2>1, <2>5, <3>3
    <3> QED
      BY <2>4, <2>6, <3>1, <3>2, <3>3
  <2>7. ASSUME NEW h \in Calls, pc'[h] \in Beginning, NEW i \in DOMAIN tracks', NEW p \in Parts
        PROVE  tracks'[i].cells[p] \notin Own(h)
    <3>1. h # g /\ pc[h] \in Beginning
      BY <2>2, <2>7, BegunOnce
    <3>2. CASE i \in DOMAIN tracks
      BY <2>1, <3>1, <3>2 DEF OwnersInv
    <3>3. CASE i = n
      BY <2>1, <2>3, <3>1, <3>3, OwnCells
    <3> QED
      BY <2>4, <3>2, <3>3
  <2> QED
    BY <2>1, <2>6, <2>7 DEF OwnersInv
<1>4. CASE LoadCassette
  <2>1. \A i \in DOMAIN tracks' : i \in Nat /\ \A p \in Parts : tracks'[i].cells[p] = <<i, p>>
    BY <1>4, LoadEffect
  <2>2. \A g \in Calls : new'[g] \notin Refs
    BY <1>4, LoadEffect, NoTrackIsNone
  <2>3. \A g \in Calls : \A i \in DOMAIN tracks' : \A p \in Parts :
          tracks'[i].cells[p] \notin Own(g)
    <3>1. \A g \in Calls : \A i \in Nat : \A p \in Parts : <<i, p>> \notin Own(g)
      BY OwnCells
    <3> QED
      BY <2>1, <3>1
  <2>4. \A i, j \in DOMAIN tracks' : i # j =>
          \A p, q \in Parts : tracks'[i].cells[p] # tracks'[j].cells[q]
    BY <2>1
  <2> QED
    BY <2>2, <2>3, <2>4 DEF OwnersInv
<1>5. ASSUME NEW g \in Calls, Step(g), new' = new, DOMAIN tracks' = DOMAIN tracks,
             \A i \in DOMAIN tracks : tracks'[i].cells = tracks[i].cells
      PROVE  OwnersInv'
  BY <1>5, BegunOnce DEF OwnersInv
<1>6. ASSUME NEW g \in Calls, Step(g),
             ~(MutateReplaying(g) /\ ~UNCHANGED tracks), ~Live(g), ~MutateRecording(g), ~AddTrack(g)
      PROVE  OwnersInv'
  <2>1. CASE ReplayTrack(g)
    BY <1>5, <1>6, <2>1, ReplayEffect
  <2>2. CASE ~ReplayTrack(g)
    <3>1. tracks' = tracks /\ new' = new
      BY <1>6, <2>2 DEF Step, CloneHTTPRequest, SeekTrack, MutateReplaying, ToHTTPResponse,
         EditPlayed, Refuse, LiveReadOnly, Save, SaveFails, EditLive, locals
    <3> QED
      BY <1>5, <1>6, <3>1
  <2> QED
    BY <2>1, <2>2
<1>7. CASE UNCHANGED vars
  BY <1>7 DEF vars, locals, OwnersInv
<1> QED
  BY <1>1, <1>2, <1>3, <1>4, <1>6, <1>7 DEF Next, Step

\* In every state each track has cells of its own.
LEMMA OwnersInvariance == Spec => []OwnersInv
<1>1. Init => OwnersInv
  <2> SUFFICES ASSUME Init PROVE OwnersInv
    OBVIOUS
  <2>1. \A g \in Calls : new[g] \notin Refs
    BY NoTrackIsNone DEF Init
  <2>2. \A g \in Calls : \A i \in DOMAIN tracks : \A p \in Parts :
          tracks[i].cells[p] \notin Own(g)
    <3>1. \A g \in Calls : \A p \in Parts : <<1, p>> \notin Own(g)
      BY OwnCells
    <3>2. \A i \in DOMAIN tracks : i = 1
      BY InitEffect
    <3>3. \A p \in Parts : tracks[1].cells[p] = <<1, p>>
      BY InitEffect
    <3> QED
      BY <3>1, <3>2, <3>3
  <2>3. \A i, j \in DOMAIN tracks : i = j
    BY InitEffect
  <2> QED
    BY <2>1, <2>2, <2>3 DEF OwnersInv
<1>2. ShapeInv /\ OwnersInv /\ [Next]_vars => OwnersInv'
  BY OwnersStep
<1> QED
  BY <1>1, <1>2, ShapeInvariance, PTL DEF Spec

(***************************************************************************)
(* Accesses at the same time                                               *)
(***************************************************************************)

\* What a call may be writing: cells that only it knows, a played track, or the
\* track it is about to record.
LEMMA WhatIsWritten ==
  ASSUME ShapeInv, OwnersInv, NEW g \in Calls, NEW c \in Writes(g)
  PROVE  \/ c \in {g} \X {"wanted", "trackArg", "sent", "live", "liveTLS"}
         \/ c \in Own(g) /\ pc[g] \in Beginning
         \/ /\ at[g] \in everPlayed \cap DOMAIN tracks
            /\ c \in CellsOf(tracks[at[g]].cells) \cup {tracks[at[g]].current}
<1>p. pc[g] \in Steps /\ CallInv(g)
  BY Types DEF LocalsInv
<1>1. CASE pc[g] = "Seeking"
  BY <1>1 DEF Writes, RequestArg, TrackArgs
<1>2. CASE pc[g] = "MutateReplaying"
  <2>1. c \in CellsOf(tracks[at[g]].cells) \cup {tracks[at[g]].current}
    BY <1>2 DEF Writes
  <2> QED
    BY <1>p, <1>2, <2>1 DEF CallInv
<1>3. CASE pc[g] = "Played"
  <2>1. c \in given[g]
    BY <1>3 DEF Writes
  <2> QED
    BY <1>p, <1>3, <2>1 DEF CallInv, CellsOf
<1>4. CASE pc[g] = "MutateRecording"
  <2>1. c \in CellsOf(new[g]) /\ new[g] \in Refs
    BY <1>p, <1>4 DEF Writes, CallInv
  <2> QED
    BY <1>4, <2>1 DEF CellsOf, OwnersInv, Beginning
<1>5. CASE pc[g] = "Answered"
  BY <1>5 DEF Writes, LiveCells
<1> QED
  BY <1>1, <1>2, <1>3, <1>4, <1>5 DEF Writes

\* What a call may be reading or writing at all: cells of its own, those of a
\* track on the cassette, or a current request.
LEMMA WhatIsAccessed ==
  ASSUME ShapeInv, OwnersInv, NEW g \in Calls, NEW c \in Reads(g) \cup Writes(g)
  PROVE  \/ c \in {g} \X (Owned \cup Parts)
         \/ c \in Calls \X {"current"}
         \/ \E i \in DOMAIN tracks : \E part \in Parts : c = tracks[i].cells[part]
<1>1. CASE c \in Writes(g)
  <2>1. CASE pc[g] = "Seeking"
    BY <1>1, <2>1 DEF Writes, RequestArg, TrackArgs, Owned
  <2>2. CASE pc[g] = "MutateReplaying"
    <3>1. /\ at[g] \in DOMAIN tracks /\ tracks[at[g]].current \in Calls \X {"current"}
          /\ c \in CellsOf(tracks[at[g]].cells) \cup {tracks[at[g]].current}
      BY <1>1, <2>2, Types DEF Writes, CallInv
    <3> QED
      BY <3>1 DEF CellsOf
  <2>3. CASE pc[g] = "Played"
    <3>1. at[g] \in DOMAIN tracks /\ \E part \in Parts : c = tracks[at[g]].cells[part]
      BY <1>1, <2>3, Types DEF Writes, CallInv
    <3> QED
      BY <3>1
  <2>4. CASE pc[g] = "MutateRecording"
    <3>1. c \in Own(g)
      BY <1>1, <2>4, Types DEF Writes, CallInv, CellsOf, OwnersInv
    <3> QED
      BY <3>1 DEF Own, Owned
  <2>5. CASE pc[g] = "Answered"
    BY <1>1, <2>5 DEF Writes, LiveCells, Owned
  <2> QED
    BY <1>1, <2>1, <2>2, <2>3, <2>4, <2>5 DEF Writes
<1>2. CASE c \in Reads(g)
  <2>1. CASE pc[g] = "Seeking"
    <3>1. c = <<g, "clone">> \/ \E i \in DOMAIN tracks : c = tracks[i].cells["request"]
      BY <1>2, <2>1 DEF Reads
    <3> QED
      BY <3>1 DEF Owned, Parts
  <2>2. CASE pc[g] = "CheckMode"
    BY <1>2, <2>2 DEF Reads, Owned
  <2>3. CASE pc[g] = "Save"
    BY <1>2, <2>3 DEF Reads, Everything, CellsOf
  <2>4. CASE pc[g] = "Played"
    <3>1. c = tracks[at[g]].cells["body"] /\ at[g] \in DOMAIN tracks
      BY <1>2, <2>4, Types DEF Reads, CallInv
    <3> QED
      BY <3>1 DEF Parts
  <2>5. CASE pc[g] = "Answered"
    BY <1>2, <2>5 DEF Reads, Owned
  <2> QED
    BY <1>2, <2>1, <2>2, <2>3, <2>4, <2>5 DEF Reads
<1> QED
  BY <1>1, <1>2

\* No two goroutines are at the same memory, one of them to write, but at what a
\* played track refers to: for any number of calls.
THEOREM RacesArePlayed == Spec => []OnlyPlayedTracksRace
<1>1. ShapeInv /\ OwnersInv => OnlyPlayedTracksRace
  <2> SUFFICES ASSUME ShapeInv, OwnersInv, NEW g \in Calls, NEW h \in Calls, g # h,
                      NEW c \in Writes(g), c \in Reads(h) \cup Writes(h)
               PROVE  c \in Played \cup {tracks[i].current : i \in everPlayed \cap DOMAIN tracks}
    BY DEF OnlyPlayedTracksRace
  <2>1. CASE /\ at[g] \in everPlayed \cap DOMAIN tracks
             /\ c \in CellsOf(tracks[at[g]].cells) \cup {tracks[at[g]].current}
    BY <2>1 DEF Played
  <2>2. CASE c \in {g} \X {"wanted", "trackArg", "sent", "live", "liveTLS"}
    <3>1. c \notin {h} \X (Owned \cup Parts) /\ c \notin Calls \X {"current"}
      BY <2>2
    <3>2. c[2] \in {"wanted", "trackArg", "sent", "live", "liveTLS"}
      BY <2>2
    <3>3. \A i \in DOMAIN tracks : \A part \in Parts : c # tracks[i].cells[part]
      BY <3>2, Types, RefCells DEF Parts
    <3> QED
      BY <3>1, <3>3, WhatIsAccessed
  <2>3. CASE c \in Own(g) /\ pc[g] \in Beginning
    <3>1. c \notin {h} \X (Owned \cup Parts) /\ c \notin Calls \X {"current"}
      BY <2>3 DEF Own, Parts
    <3>2. \A i \in DOMAIN tracks : \A part \in Parts : c # tracks[i].cells[part]
      BY <2>3 DEF OwnersInv
    <3> QED
      BY <3>1, <3>2, WhatIsAccessed
  <2> QED
    BY <2>1, <2>2, <2>3, WhatIsWritten
<1> QED
  BY <1>1, ShapeInvariance, OwnersInvariance, PTL

(***************************************************************************)
(* What is done to the tracks that are played                              *)
(***************************************************************************)

\* The heap may change in cells that no unplayed track and no call in its
\* beginning refers to.
LEMMA EditsElsewhere ==
  ASSUME ShapeInv, EditsInv, NEW g \in Calls, Step(g), file' = file,
         DOMAIN tracks' = DOMAIN tracks, everPlayed \subseteq everPlayed',
         \A i \in DOMAIN tracks \ everPlayed' : \A p \in Parts :
           /\ tracks'[i].cells[p] = tracks[i].cells[p]
           /\ heap'[tracks[i].cells[p]] \cap Edits = heap[tracks[i].cells[p]] \cap Edits,
         \A h \in Calls : pc'[h] \in Beginning =>
           \A c \in Own(h) : heap'[c] \cap Edits = heap[c] \cap Edits
  PROVE  EditsInv'
<1>1. \A i \in DOMAIN tracks' \ everPlayed' : \A p \in Parts :
        Clean(heap'[tracks'[i].cells[p]])
  BY DEF EditsInv, Clean
<1>2. \A i \in DOMAIN file' \ everPlayed' : \A p \in Parts : Clean(file'[i][p])
  BY DEF EditsInv
<1>3. \A h \in Calls : pc'[h] \in Beginning => pc[h] \in Beginning
  BY BegunOnce
<1>4. \A h \in Calls : pc'[h] \in Beginning => \A c \in Own(h) : Clean(heap'[c])
  BY <1>3 DEF EditsInv, Clean
<1> QED
  BY <1>1, <1>2, <1>4 DEF EditsInv

\* The steps that leave no mark of an edit anywhere.
LEMMA EditsNowhere ==
  ASSUME ShapeInv, EditsInv, NEW g \in Calls, Step(g), file' = file,
         DOMAIN tracks' = DOMAIN tracks, everPlayed \subseteq everPlayed',
         \A i \in DOMAIN tracks : tracks'[i].cells = tracks[i].cells,
         \A c \in Cells : heap'[c] \cap Edits = heap[c] \cap Edits
  PROVE  EditsInv'
<1>1. \A i \in DOMAIN tracks : \A p \in Parts : tracks[i].cells[p] \in Cells
  BY Types, RefCells
<1>2. \A h \in Calls : \A c \in Own(h) : c \in Cells
  BY OwnCells
<1> QED
  BY <1>1, <1>2, EditsElsewhere

\* An edit of what is played goes to the track that is played.
LEMMA EditsStep ==
  ASSUME ShapeInv, MarksInv, OwnersInv, EditsInv, [Next]_vars
  PROVE  EditsInv'
<1>1. ASSUME NEW g \in Calls, CloneHTTPRequest(g)
      PROVE  EditsInv'
  <2>1. PICK bytes \in ReadAll : heap' = [heap EXCEPT ![<<g, "sentBody">>] = Restored(bytes)]
    BY <1>1 DEF CloneHTTPRequest
  <2>2. <<g, "sentBody">> \in Cells /\ heap[<<g, "sentBody">>] \subseteq {"cut"}
    BY CellNames, MayBeMarked DEF MarksInv, Owned
  <2>3. Restored(bytes) \subseteq {"cut"}
    BY DEF Restored, ReadAll
  <2>4. \A c \in Cells : heap'[c] \cap Edits = heap[c] \cap Edits
    BY <2>1, <2>2, <2>3, Types DEF HeapInv, Edits
  <2> QED
    BY <1>1, <2>4, EditsNowhere DEF CloneHTTPRequest, Step
<1>2. ASSUME NEW g \in Calls, SeekTrack(g) \/ EditLive(g)
      PROVE  EditsInv'
  <2>1. ASSUME NEW cells, NEW mark \in {"matcher", "liveClient"}, heap' = Marked(cells, mark)
        PROVE  \A c \in Cells : heap'[c] \cap Edits = heap[c] \cap Edits
    <3>1. \A c \in Cells : heap'[c] = heap[c] \cup {mark} \/ heap'[c] = heap[c]
      BY <2>1, Types, Marking DEF Marks
    <3> QED
      BY <3>1 DEF Edits
  <2>2. ASSUME SeekTrack(g)
        PROVE  \A c \in Cells : heap'[c] \cap Edits = heap[c] \cap Edits
    <3>1. heap' = Marked({RequestArg(g)} \cup TrackArgs(g), "matcher")
      BY <2>2 DEF SeekTrack
    <3> QED
      BY <2>1, <3>1
  <2>3. ASSUME EditLive(g)
        PROVE  \A c \in Cells : heap'[c] \cap Edits = heap[c] \cap Edits
    <3>1. heap' = Marked(LiveCells(g), "liveClient")
      BY <2>3 DEF EditLive
    <3> QED
      BY <2>1, <3>1
  <2>4. \A c \in Cells : heap'[c] \cap Edits = heap[c] \cap Edits
    BY <1>2, <2>2, <2>3
  <2> QED
    BY <1>2, <2>4, EditsNowhere DEF SeekTrack, EditLive, Step
<1>3. ASSUME NEW g \in Calls, ReplayTrack(g)
      PROVE  EditsInv'
  BY <1>3, ReplayEffect, EditsNowhere DEF Step
<1>4. ASSUME NEW g \in Calls,
             ToHTTPResponse(g) \/ Refuse(g) \/ LiveReadOnly(g) \/ SaveFails(g)
      PROVE  EditsInv'
  BY <1>4, EditsNowhere DEF ToHTTPResponse, Refuse, LiveReadOnly, SaveFails, Step
<1>5. ASSUME NEW g \in Calls, MutateReplaying(g)
      PROVE  EditsInv'
  <2>1. CASE tracks' = tracks /\ heap' = heap
    BY <1>5, <2>1, MutateEffect, EditsNowhere DEF Step
  <2>2. CASE ~(tracks' = tracks /\ heap' = heap)
    <3> DEFINE cells == tracks[at[g]].cells
               also == {tracks[at[g]].current}
    <3>1. /\ at[g] \in everPlayed \cap DOMAIN tracks /\ file' = file /\ everPlayed' = everPlayed
          /\ DOMAIN tracks' = DOMAIN tracks
          /\ \A i \in DOMAIN tracks : i # at[g] => tracks'[i] = tracks[i]
          /\ tracks[at[g]].current \in Calls \X {"current"}
          /\ heap' = MutatedHeap(g, cells, also, "replaying")
          /\ cells \in Refs /\ inPlace \in BOOLEAN /\ HeapInv
      BY <1>5, <2>2, MutateEffect, Types DEF LocalsInv
    <3>2. /\ Step(g) /\ pc[g] \in Beginning /\ pc'[g] \notin Beginning
      BY <1>5, StepControl DEF Step, Beginning
    <3>3. ASSUME NEW c \in Cells, c[2] # "current", \A p \in Parts : c # cells[p], c \notin Own(g)
          PROVE  heap'[c] = heap[c]
      <4>1. c \notin also
        BY <3>1, <3>3
      <4>2. \A p \in Parts : <<g, p>> \in Own(g)
        BY DEF Own
      <4>3. \A p \in Bodies : c # <<g, p>>
        BY <3>3, <4>2 DEF Bodies, Parts
      <4>4. "replaying" \in Marks
        BY DEF Marks
      <4>5. \/ c \in also \/ \E p \in Parts : cells[p] = c
            \/ \E p \in Bodies : c = <<g, p>>
            \/ heap'[c] = heap[c]
        BY <3>1, <4>4, Mutating
      <4> QED
        BY <3>3, <4>1, <4>3, <4>5
    <3>4. ASSUME NEW i \in DOMAIN tracks \ everPlayed', NEW p \in Parts
          PROVE  /\ tracks'[i].cells[p] = tracks[i].cells[p]
                 /\ heap'[tracks[i].cells[p]] = heap[tracks[i].cells[p]]
      <4>1. i # at[g] /\ tracks'[i] = tracks[i]
        BY <3>1
      <4>2. /\ tracks[i].cells[p] \in Cells /\ tracks[i].cells[p][2] # "current"
            /\ tracks[i].cells[p] \notin Own(g)
        BY <3>2, Types, RefCells DEF Parts, OwnersInv
      <4>3. \A q \in Parts : tracks[i].cells[p] # cells[q]
        BY <3>1, <4>1 DEF OwnersInv
      <4> QED
        BY <3>3, <4>1, <4>2, <4>3
    <3>5. ASSUME NEW h \in Calls, pc'[h] \in Beginning, NEW c \in Own(h)
          PROVE  heap'[c] = heap[c]
      <4>1. h # g /\ pc[h] \in Beginning
        BY <3>2, <3>5, BegunOnce
      <4>2. c \in Cells /\ c[2] # "current" /\ c \notin Own(g)
        BY <4>1, OwnCells DEF Parts
      <4>3. \A p \in Parts : c # cells[p]
        BY <3>1, <4>1 DEF OwnersInv
      <4> QED
        BY <3>3, <4>2, <4>3
    <3> HIDE DEF cells, also
    <3> QED
      BY <3>1, <3>2, <3>4, <3>5, EditsElsewhere
  <2> QED
    BY <2>1, <2>2
<1>6. ASSUME NEW g \in Calls, EditPlayed(g)
      PROVE  EditsInv'
  <2>1. /\ heap' = Marked(given[g], "replayClient") /\ pc[g] = "Played" /\ Step(g)
        /\ UNCHANGED <<tracks, file, everPlayed>>
        /\ pc'[g] = "Played"
    BY <1>6, StepControl DEF EditPlayed, Step
  <2>2. /\ given[g] = {tracks[at[g]].cells[part] : part \in Parts \ Bodies}
        /\ at[g] \in everPlayed \cap DOMAIN tracks
    BY <2>1, Types DEF CallInv
  <2>3. \A c \in Cells \ given[g] : heap'[c] = heap[c]
    BY <2>1, Types, Marking DEF Marks
  <2>4. ASSUME NEW i \in DOMAIN tracks \ everPlayed', NEW p \in Parts
        PROVE  heap'[tracks[i].cells[p]] = heap[tracks[i].cells[p]]
    <3>1. tracks[i].cells[p] \notin given[g]
      BY <2>1, <2>2 DEF OwnersInv
    <3> QED
      BY <2>3, <3>1, Types, RefCells
  <2>5. ASSUME NEW h \in Calls, pc'[h] \in Beginning, NEW c \in Own(h)
        PROVE  heap'[c] = heap[c]
    <3>1. pc[h] \in Beginning
      BY <2>1, <2>5, BegunOnce
    <3>2. c \notin given[g] /\ c \in Cells
      BY <2>2, <3>1, OwnCells DEF OwnersInv
    <3> QED
      BY <2>3, <3>2
  <2> QED
    BY <2>1, <2>4, <2>5, EditsElsewhere
<1>7. ASSUME NEW g \in Calls, Live(g)
      PROVE  EditsInv'
  <2>1. Step(g) /\ pc[g] \in Beginning /\ UNCHANGED <<tracks, file, everPlayed>>
    BY <1>7, StepControl, LiveEffect DEF Step, Beginning
  <2>2. \A c \in Cells \ Own(g) : heap'[c] = heap[c]
    <3>1. {<<g, "request">>, <<g, "requestBody">>, <<g, "liveBody">>, <<g, "tls">>} \subseteq Own(g)
      BY DEF Own, Parts
    <3> QED
      BY <1>7, <3>1, LiveEffect
  <2>3. \A c \in Own(g) : Clean(heap[c])
    BY <2>1 DEF EditsInv
  <2>4. ASSUME NEW c \in Own(g) PROVE Clean(heap'[c])
    <3>1. {<<g, "clone">>, <<g, "sentBody">>} \subseteq Cells
      BY CellNames DEF Owned
    <3>2. heap[<<g, "clone">>] \subseteq {"cut"} /\ heap[<<g, "sentBody">>] \subseteq {"cut"}
      BY <3>1, MayBeMarked DEF MarksInv
    <3>3. CASE c \in {<<g, "request">>, <<g, "requestBody">>, <<g, "liveBody">>, <<g, "tls">>}
      <4>1. heap'[c] \subseteq {"cut", "stripped"}
        <5>1. /\ heap'[<<g, "request">>] = heap[<<g, "clone">>]
              /\ heap'[<<g, "requestBody">>] = heap[<<g, "sentBody">>]
              /\ heap'[<<g, "liveBody">>] \in {{}, {"cut"}}
              /\ heap'[<<g, "tls">>] = {"stripped"}
          BY <1>7, LiveEffect
        <5> QED
          BY <3>2, <3>3, <5>1
      <4> QED
        BY <4>1 DEF Clean, Edits
    <3>4. CASE c \notin {<<g, "request">>, <<g, "requestBody">>, <<g, "liveBody">>, <<g, "tls">>}
      <4>1. heap'[c] = heap[c]
        BY <1>7, <3>4, LiveEffect, OwnCells
      <4> QED
        BY <2>3, <4>1
    <3> QED
      BY <3>3, <3>4
  <2>5. \A i \in DOMAIN tracks : \A p \in Parts :
          heap'[tracks[i].cells[p]] = heap[tracks[i].cells[p]]
    BY <2>1, <2>2, Types, RefCells DEF OwnersInv
  <2>6. \A h \in Calls : pc'[h] \in Beginning => \A c \in Own(h) : Clean(heap'[c])
    <3> SUFFICES ASSUME NEW h \in Calls, pc'[h] \in Beginning, NEW c \in Own(h)
                 PROVE  Clean(heap'[c])
      OBVIOUS
    <3>1. CASE h = g
      BY <2>4, <3>1
    <3>2. CASE h # g
      <4>1. pc[h] \in Beginning /\ c \in Cells \ Own(g)
        BY <2>1, <3>2, BegunOnce, OwnCells
      <4> QED
        BY <2>2, <4>1 DEF EditsInv
    <3> QED
      BY <3>1, <3>2
  <2> QED
    BY <2>1, <2>5, <2>6 DEF EditsInv
<1>8. ASSUME NEW g \in Calls, MutateRecording(g)
      PROVE  EditsInv'
  <2>1. /\ Step(g) /\ pc[g] \in Beginning /\ UNCHANGED <<tracks, file, everPlayed>>
        /\ heap' = MutatedHeap(g, new[g], {}, "recording") /\ new[g] \in Refs
        /\ inPlace \in BOOLEAN /\ HeapInv
    BY <1>8, StepControl, RecordEffect, Types DEF Step, Beginning, LocalsInv
  <2>2. \A p \in Parts : Clean(heap[new[g][p]])
    BY <2>1 DEF EditsInv, OwnersInv
  <2>3. ASSUME NEW c \in Cells, Clean(heap[c])
        PROVE  Clean(heap'[c])
    <3>1. \/ heap'[c] = heap[c] \cup {"recording"} \/ heap'[c] = heap[c]
          \/ \E p \in Bodies : heap'[c] = heap[new[g][p]] \cup {"recording"}
      <4>1. "recording" \in Marks
        BY DEF Marks
      <4> QED
        BY <2>1, <4>1, Mutating
    <3>2. \A p \in Bodies : Clean(heap[new[g][p]])
      BY <2>2 DEF Bodies, Parts
    <3> QED
      BY <2>3, <3>1, <3>2 DEF Clean, Edits
  <2>4. \A i \in DOMAIN tracks : \A p \in Parts : tracks[i].cells[p] \in Cells
    BY Types, RefCells
  <2>5. \A h \in Calls : pc'[h] \in Beginning => pc[h] \in Beginning
    BY <2>1, BegunOnce
  <2> QED
    BY <2>1, <2>3, <2>4, <2>5, OwnCells DEF EditsInv
<1>9. ASSUME NEW g \in Calls, AddTrack(g)
      PROVE  EditsInv'
  <2>1. /\ Step(g) /\ pc[g] \in Beginning /\ UNCHANGED <<heap, file, everPlayed>>
        /\ new[g] \in Refs
    BY <1>9, StepControl, AddEffect DEF Step, Beginning
  <2>2. ASSUME NEW i \in DOMAIN tracks' \ everPlayed', NEW p \in Parts
        PROVE  Clean(heap'[tracks'[i].cells[p]])
    <3>1. CASE i \in DOMAIN tracks
      BY <1>9, <2>1, <3>1, AddEffect DEF EditsInv
    <3>2. CASE i = Len(tracks) + 1
      <4>1. tracks'[i].cells[p] \in Own(g)
        BY <1>9, <2>1, <3>2, AddEffect DEF OwnersInv
      <4> QED
        BY <2>1, <4>1 DEF EditsInv
    <3> QED
      BY <1>9, <3>1, <3>2, AddEffect, Types
  <2>3. \A h \in Calls : pc'[h] \in Beginning => pc[h] \in Beginning
    BY <2>1, BegunOnce
  <2> QED
    BY <2>1, <2>2, <2>3 DEF EditsInv
<1>10. ASSUME NEW g \in Calls, Save(g)
       PROVE  EditsInv'
  <2>1. /\ Step(g) /\ UNCHANGED <<heap, tracks, everPlayed>> /\ file' = Saved
    BY <1>10 DEF Save, Step
  <2>2. \A i \in DOMAIN file' \ everPlayed' : \A p \in Parts : Clean(file'[i][p])
    BY <2>1, SavedType DEF EditsInv
  <2>3. \A h \in Calls : pc'[h] \in Beginning => pc[h] \in Beginning
    BY <2>1, BegunOnce
  <2> QED
    BY <2>1, <2>2, <2>3 DEF EditsInv
<1>11. CASE LoadCassette
  <2>1. UNCHANGED <<file, everPlayed>> /\ DOMAIN tracks' = DOMAIN file
    BY <1>11, LoadEffect
  <2>2. ASSUME NEW i \in DOMAIN tracks' \ everPlayed', NEW p \in Parts
        PROVE  Clean(heap'[tracks'[i].cells[p]])
    <3>1. tracks'[i].cells[p] = <<i, p>> /\ <<i, p>> \in Cells /\ Clean(file[i][p])
      BY <1>11, <2>1, LoadEffect, CellNames DEF EditsInv
    <3>2. heap'[<<i, p>>] = file[i][p] \/ heap'[<<i, p>>] = {}
      BY <1>11, <3>1, LoadEffect
    <3> QED
      BY <3>1, <3>2 DEF Clean
  <2>3. ASSUME NEW h \in Calls, NEW c \in Own(h)
        PROVE  Clean(heap'[c])
    <3>1. c \in Cells /\ c[1] \notin DOMAIN file
      BY <1>11, LoadEffect, OwnCells, CallsAreNoNumbers
    <3>2. heap'[c] = {}
      BY <1>11, <3>1, LoadEffect
    <3> QED
      BY <3>2 DEF Clean
  <2> QED
    BY <2>1, <2>2, <2>3 DEF EditsInv
<1>12. CASE UNCHANGED vars
  BY <1>12 DEF vars, EditsInv
<1> QED
  BY <1>1, <1>2, <1>3, <1>4, <1>5, <1>6, <1>7, <1>8, <1>9, <1>10, <1>11, <1>12 DEF Next

\* What a replaying mutator or the client of a replay changes goes to the file
\* with the track that was played, and with no other, in any later session.
THEOREM EditsStay == Spec => []EditsStayOnThePlayed
<1>1. Init => EditsInv
  <2> SUFFICES ASSUME Init PROVE EditsInv
    OBVIOUS
  <2>1. \A c \in Cells : Clean(heap[c])
    BY InitEffect DEF Clean
  <2>2. \A i \in DOMAIN tracks : \A p \in Parts : tracks[i].cells[p] \in Cells
    BY ShapeInit, Types, RefCells
  <2> QED
    BY <2>1, <2>2, InitEffect, OwnCells DEF EditsInv, Clean
<1>2. ShapeInv /\ MarksInv /\ OwnersInv /\ EditsInv /\ [Next]_vars => EditsInv'
  BY EditsStep
<1>3. EditsInv => EditsStayOnThePlayed
  BY DEF EditsInv, Clean, Edits, EditsStayOnThePlayed, OnFile, InMemory
<1> QED
  BY <1>1, <1>2, <1>3, ShapeInvariance, MarksInvariance, OwnersInvariance, PTL DEF Spec

(***************************************************************************)
(* The bodies that were got and the bodies that are recorded               *)
(***************************************************************************)

\* What a call that has made a track refers to is its own.
LEMMA NewIsOwn ==
  ASSUME ShapeInv, OwnersInv, NEW g \in Calls, new[g] # NoTrack
  PROVE  /\ new[g] \in Refs /\ pc[g] \notin {"Idle", "MutateReplaying", "CheckMode"}
         /\ \A part \in Parts : new[g][part] \in Cells /\ new[g][part][1] = g
<1>1. new[g] \in Refs
  BY Types DEF LocalsInv
<1>2. pc[g] \notin {"Idle", "MutateReplaying", "CheckMode"}
  BY Types DEF CallInv
<1>3. \A part \in Parts : new[g][part] \in Own(g)
  BY <1>1 DEF OwnersInv
<1> QED
  BY <1>1, <1>2, <1>3, OwnCells

\* A mark of a mutator does not change how much of a body there is.
LEMMA MutatedWhole ==
  ASSUME HeapInv, inPlace \in BOOLEAN, NEW g \in Calls, NEW cells \in Refs,
         NEW also, NEW mark \in {"recording", "replaying"}
  PROVE  /\ \A c \in Cells :
              c \notin {g} \X Bodies =>
                Whole(MutatedHeap(g, cells, also, mark)[c]) = Whole(heap[c])
         /\ also = {} => \A part \in Bodies :
              Whole(MutatedHeap(g, cells, also, mark)[Mutated(g, cells)[part]])
                = Whole(heap[cells[part]])
<1> DEFINE h == MutatedHeap(g, cells, also, mark)
<1>1. ASSUME NEW c \in Cells
      PROVE  \/ /\ c \in also \/ \E part \in Parts : /\ part \notin Bodies \/ inPlace
                                                     /\ cells[part] = c
                /\ h[c] = heap[c] \cup {mark}
             \/ \E part \in Bodies : /\ ~inPlace /\ c = <<g, part>>
                                     /\ h[c] = heap[cells[part]] \cup {mark}
             \/ /\ h[c] = heap[c]
                /\ ~inPlace => c \notin {g} \X Bodies
  BY Mutating DEF Marks
<1>2. \A part \in Parts :
        Mutated(g, cells)[part] = IF part \notin Bodies \/ inPlace THEN cells[part]
                                  ELSE <<g, part>>
  BY Mutating DEF Marks
<1>3. \A bytes : Whole(bytes \cup {mark}) = Whole(bytes)
  BY DEF Whole
<1> HIDE DEF h
<1>4. ASSUME NEW c \in Cells, inPlace \/ c \notin {g} \X Bodies
      PROVE  Whole(h[c]) = Whole(heap[c])
  BY <1>1, <1>3, <1>4
<1>5. ASSUME also = {}, NEW part \in Bodies
      PROVE  Whole(h[Mutated(g, cells)[part]]) = Whole(heap[cells[part]])
  <2>1. part \in Parts /\ cells[part] \in Cells
    BY RefCells DEF Bodies, Parts
  <2>2. CASE inPlace
    BY <1>2, <1>4, <2>1, <2>2
  <2>3. CASE ~inPlace
    <3>1. Mutated(g, cells)[part] = <<g, part>> /\ <<g, part>> \in Cells
      BY <1>2, <2>1, <2>3, CellNames
    <3>2. \A p \in Parts \ Bodies : cells[p] # <<g, part>>
      BY RefCells DEF Bodies, Parts
    <3>3. h[<<g, part>>] = heap[cells[part]] \cup {mark}
      BY <1>1, <1>5, <2>3, <3>1, <3>2
    <3> QED
      BY <1>3, <3>1, <3>3
  <2> QED
    BY <2>2, <2>3
<1>6. \A c \in Cells : c \notin {g} \X Bodies => Whole(h[c]) = Whole(heap[c])
  BY <1>4
<1> QED
  BY <1>5, <1>6 DEF h

\* The calls whose tracks and bodies a step leaves as they are.
LEMMA BodiesKept ==
  ASSUME ShapeInv, OwnersInv, BodiesInv, NEW g \in Calls, new'[g] = new[g],
         new[g] # NoTrack =>
           \A c \in Cells : c[1] = g => Whole(heap'[c]) = Whole(heap[c])
  PROVE  new'[g] # NoTrack =>
           /\ Whole(heap'[<<g, "sentBody">>]) = Whole(heap'[new'[g].requestBody])
           /\ Whole(heap'[<<g, "liveBody">>]) = Whole(heap'[new'[g].body])
<1> SUFFICES ASSUME new[g] # NoTrack
             PROVE  /\ Whole(heap'[<<g, "sentBody">>]) = Whole(heap'[new[g].requestBody])
                    /\ Whole(heap'[<<g, "liveBody">>]) = Whole(heap'[new[g].body])
  OBVIOUS
<1>1. {<<g, "sentBody">>, <<g, "liveBody">>, new[g].requestBody, new[g].body} \subseteq Cells
  <2>1. <<g, "sentBody">> \in Cells /\ <<g, "liveBody">> \in Cells
    BY CellNames DEF Owned
  <2>2. new[g].requestBody \in Cells /\ new[g].body \in Cells
    BY NewIsOwn DEF Parts
  <2> QED
    BY <2>1, <2>2
<1>2. new[g].requestBody[1] = g /\ new[g].body[1] = g
  BY NewIsOwn DEF Parts
<1>3. /\ Whole(heap[<<g, "sentBody">>]) = Whole(heap[new[g].requestBody])
      /\ Whole(heap[<<g, "liveBody">>]) = Whole(heap[new[g].body])
  BY DEF BodiesInv
<1>4. \A c \in {<<g, "sentBody">>, <<g, "liveBody">>, new[g].requestBody, new[g].body} :
        Whole(heap'[c]) = Whole(heap[c])
  BY <1>1, <1>2
<1> QED
  BY <1>3, <1>4

\* The call that makes a track puts the bodies there that it got, and mutators
\* cut nothing off.
LEMMA BodiesStep ==
  ASSUME ShapeInv, OwnersInv, BodiesInv, [Next]_vars
  PROVE  BodiesInv'
<1>k. ASSUME new' = new, \A c \in Cells : Whole(heap'[c]) = Whole(heap[c])
      PROVE  BodiesInv'
  BY <1>k, BodiesKept DEF BodiesInv
<1>1. ASSUME NEW g \in Calls, CloneHTTPRequest(g)
      PROVE  BodiesInv'
  <2>1. PICK bytes \in ReadAll : heap' = [heap EXCEPT ![<<g, "sentBody">>] = Restored(bytes)]
    BY <1>1 DEF CloneHTTPRequest
  <2>2. \A c \in Cells : c[1] # g => heap'[c] = heap[c]
    BY <2>1, Types DEF HeapInv
  <2>3. new' = new /\ pc[g] = "Idle"
    BY <1>1 DEF CloneHTTPRequest, locals, Goto
  <2>4. \A h \in Calls : new[h] # NoTrack => h # g
    BY <2>3, NewIsOwn
  <2> QED
    BY <2>2, <2>3, <2>4, BodiesKept DEF BodiesInv
<1>2. ASSUME NEW cells, NEW mark \in {"matcher", "liveClient", "replayClient"},
             heap' = Marked(cells, mark), new' = new
      PROVE  BodiesInv'
  <2>1. \A c \in Cells : heap'[c] = heap[c] \cup {mark} \/ heap'[c] = heap[c]
    BY <1>2, Types, Marking DEF Marks
  <2>2. \A c \in Cells : Whole(heap'[c]) = Whole(heap[c])
    BY <2>1 DEF Whole
  <2> QED
    BY <1>k, <1>2, <2>2
<1>3. ASSUME NEW g \in Calls, SeekTrack(g)
      PROVE  BodiesInv'
  <2>1. heap' = Marked({RequestArg(g)} \cup TrackArgs(g), "matcher") /\ new' = new
    BY <1>3 DEF SeekTrack
  <2> QED
    BY <1>2, <2>1
<1>4. ASSUME NEW g \in Calls, EditPlayed(g)
      PROVE  BodiesInv'
  <2>1. heap' = Marked(given[g], "replayClient") /\ new' = new
    BY <1>4 DEF EditPlayed, locals
  <2> QED
    BY <1>2, <2>1
<1>5. ASSUME NEW g \in Calls, EditLive(g)
      PROVE  BodiesInv'
  <2>1. heap' = Marked(LiveCells(g), "liveClient") /\ new' = new
    BY <1>5 DEF EditLive, locals
  <2> QED
    BY <1>2, <2>1
<1>6. ASSUME NEW g \in Calls,
             \/ ReplayTrack(g) \/ ToHTTPResponse(g) \/ Refuse(g) \/ LiveReadOnly(g)
             \/ AddTrack(g) \/ Save(g) \/ SaveFails(g)
      PROVE  BodiesInv'
  <2>1. heap' = heap /\ new' = new
    BY <1>6 DEF ReplayTrack, ToHTTPResponse, Refuse, LiveReadOnly, AddTrack, Save,
       SaveFails, locals
  <2> QED
    BY <1>k, <2>1
<1>7. ASSUME NEW g \in Calls, MutateReplaying(g)
      PROVE  BodiesInv'
  <2>1. new' = new /\ pc[g] = "MutateReplaying"
    BY <1>7, MutateEffect DEF MutateReplaying, Goto
  <2>2. CASE heap' = heap
    BY <1>k, <2>1, <2>2
  <2>3. CASE heap' # heap
    <3>1. /\ heap' = MutatedHeap(g, tracks[at[g]].cells,
                                 {tracks[at[g]].current}, "replaying")
          /\ tracks[at[g]].cells \in Refs /\ HeapInv /\ inPlace \in BOOLEAN
      BY <1>7, <2>3, MutateEffect, Types DEF LocalsInv
    <3>2. \A c \in Cells : c \notin {g} \X Bodies => Whole(heap'[c]) = Whole(heap[c])
      BY <3>1, MutatedWhole
    <3>3. \A h \in Calls : new[h] # NoTrack => h # g
      BY <2>1, NewIsOwn
    <3>4. \A h \in Calls : new[h] # NoTrack =>
            \A c \in Cells : c[1] = h => Whole(heap'[c]) = Whole(heap[c])
      BY <3>2, <3>3
    <3> QED
      BY <2>1, <3>4, BodiesKept DEF BodiesInv
  <2> QED
    BY <2>2, <2>3
<1>8. ASSUME NEW g \in Calls, Live(g)
      PROVE  BodiesInv'
  <2>1. new'[g] = Transcoded(g) /\ pc[g] = "CheckMode"
    BY <1>8, LiveEffect DEF Live, Goto
  <2>2. new'[g].requestBody = <<g, "requestBody">> /\ new'[g].body = <<g, "liveBody">>
    BY <2>1 DEF Transcoded
  <2>3. heap'[<<g, "requestBody">>] = heap[<<g, "sentBody">>]
    BY <1>8, LiveEffect
  <2>4. heap'[<<g, "sentBody">>] = heap[<<g, "sentBody">>]
    BY <1>8, LiveEffect, CellNames DEF Owned
  <2>5. ASSUME NEW c \in Cells, c[1] # g PROVE heap'[c] = heap[c]
    <3>1. c \notin {<<g, "request">>, <<g, "requestBody">>, <<g, "liveBody">>, <<g, "tls">>}
      BY <2>5
    <3> QED
      BY <1>8, <3>1, LiveEffect
  <2>6. \A h \in Calls \ {g} : new'[h] = new[h]
    BY <1>8, StepControl DEF Step
  <2>7. \A h \in Calls \ {g} : new'[h] # NoTrack =>
           /\ Whole(heap'[<<h, "sentBody">>]) = Whole(heap'[new'[h].requestBody])
           /\ Whole(heap'[<<h, "liveBody">>]) = Whole(heap'[new'[h].body])
    BY <2>5, <2>6, BodiesKept
  <2> QED
    BY <2>2, <2>3, <2>4, <2>7 DEF BodiesInv
<1>9. ASSUME NEW g \in Calls, MutateRecording(g)
      PROVE  BodiesInv'
  <2>1. /\ new'[g] = Mutated(g, new[g]) /\ new[g] \in Refs /\ new[g] # NoTrack
        /\ heap' = MutatedHeap(g, new[g], {}, "recording")
        /\ HeapInv /\ inPlace \in BOOLEAN
    BY <1>9, RecordEffect, NoTrackIsNone, Types DEF LocalsInv
  <2>2. \A c \in Cells : c \notin {g} \X Bodies => Whole(heap'[c]) = Whole(heap[c])
    BY <2>1, MutatedWhole
  <2>3. \A part \in Bodies : Whole(heap'[new'[g][part]]) = Whole(heap[new[g][part]])
    BY <2>1, MutatedWhole
  <2>4. /\ Whole(heap'[new'[g].requestBody]) = Whole(heap[new[g].requestBody])
        /\ Whole(heap'[new'[g].body]) = Whole(heap[new[g].body])
    BY <2>3 DEF Bodies
  <2>5. /\ Whole(heap'[<<g, "sentBody">>]) = Whole(heap[<<g, "sentBody">>])
        /\ Whole(heap'[<<g, "liveBody">>]) = Whole(heap[<<g, "liveBody">>])
    BY <2>2, CellNames DEF Owned, Bodies
  <2>6. \A h \in Calls \ {g} : new'[h] = new[h]
    BY <1>9, StepControl DEF Step
  <2>7. \A h \in Calls \ {g} : new'[h] # NoTrack =>
           /\ Whole(heap'[<<h, "sentBody">>]) = Whole(heap'[new'[h].requestBody])
           /\ Whole(heap'[<<h, "liveBody">>]) = Whole(heap'[new'[h].body])
    BY <2>2, <2>6, BodiesKept
  <2>8. /\ Whole(heap[<<g, "sentBody">>]) = Whole(heap[new[g].requestBody])
        /\ Whole(heap[<<g, "liveBody">>]) = Whole(heap[new[g].body])
    BY <2>1 DEF BodiesInv
  <2> QED
    BY <2>4, <2>5, <2>7, <2>8 DEF BodiesInv
<1>10. CASE LoadCassette
  BY <1>10, LoadEffect DEF BodiesInv
<1>11. CASE UNCHANGED vars
  BY <1>k, <1>11 DEF vars, locals
<1> QED
  BY <1>1, <1>3, <1>4, <1>5, <1>6, <1>7, <1>8, <1>9, <1>10, <1>11 DEF Next

\* The bytes that the server and the client of a live call got are those that
\* are recorded, as far as they could be read, and none of them is left drained,
\* whatever the mutators of this and of other calls do.
THEOREM BodiesStayTheSame == Spec => []BodiesAgree
<1>1. Init => BodiesInv
  BY DEF Init, BodiesInv
<1>2. ShapeInv /\ OwnersInv /\ BodiesInv /\ [Next]_vars => BodiesInv'
  BY BodiesStep
<1>3. ShapeInv /\ MarksInv /\ BodiesInv => BodiesAgree
  <2> SUFFICES ASSUME ShapeInv, MarksInv, BodiesInv, NEW g \in Calls
               PROVE  "drained" \notin heap[<<g, "sentBody">>] \cup heap[<<g, "liveBody">>]
    BY DEF BodiesAgree, BodiesInv
  <2>1. <<g, "sentBody">> \in Cells /\ <<g, "liveBody">> \in Cells
    BY CellNames DEF Owned
  <2>2. /\ heap[<<g, "sentBody">>] \subseteq {"cut"}
        /\ heap[<<g, "liveBody">>] \subseteq {"cut", "recording", "replaying"}
    BY <2>1, MayBeMarked DEF MarksInv
  <2> QED
    BY <2>2
<1> QED
  BY <1>1, <1>2, <1>3, ShapeInvariance, MarksInvariance, OwnersInvariance, PTL DEF Spec

=============================================================================
