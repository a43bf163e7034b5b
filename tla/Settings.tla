------------------------------ MODULE Settings ------------------------------
(***************************************************************************)
(* The three lists of functions of a VCR (request matchers, recording and  *)
(* replaying mutators): set, extended and cleared by the control panel     *)
(* while RoundTrip walks them in other goroutines.                         *)
(*                                                                         *)
(* They are Go slices, [array, len] here: the first len elements of an     *)
(* array that other slices may share, those of the caller's own code       *)
(* included.  append writes into the array if it has room.                 *)
(*                                                                         *)
(* A definition with an underscore in its name is what a bug could make of *)
(* the one that follows it.                                                *)
(***************************************************************************)
EXTENDS Naturals, Sequences

CONSTANTS
  Functions,     \* matchers or mutators
  StrictMatcher, \* the matchers of a VCR that was given none
  Unset,         \* an element of an array that was never written
  requestMatchers, trackRecordingMutators, trackReplayingMutators, \* their names
  SpareRoom,     \* elements a caller's array may have left over
  MaxLength,     \* no list grows longer
  MaxArrays      \* no more arrays are made

ASSUME RoomAssumption == SpareRoom \subseteq Nat /\ MaxLength \in Nat /\ MaxArrays \in Nat

Lists == {requestMatchers, trackRecordingMutators, trackReplayingMutators}

VARIABLES
  arrays,    \* the arrays behind all slices
  board,     \* the slices of VCRSettings, then of the board
  built,     \* NewVCR has returned
  mine,      \* a slice of mutators in the caller's code
  walk,      \* the loop of Match or Mutate in a RoundTrip
  intended,  \* history: what each list was set to, and given since
  roomy      \* history: the arrays the caller made with room left over, and
             \* those that took over what was in such an array

history == <<intended, roomy>>
vars == <<arrays, board, built, mine, walk, history>>

NilSlice == [array |-> 0, len |-> 0]

Cap(slice) == IF slice = NilSlice THEN 0 ELSE Len(arrays[slice.array])
Contents(slice) ==
  IF slice = NilSlice THEN <<>> ELSE SubSeq(arrays[slice.array], 1, slice.len)

Room(n) == [i \in 1..n |-> Unset]

\* A new array that holds elements, with some room.
Allocate(elements, room) ==
  /\ Len(arrays) < MaxArrays
  /\ arrays' = Append(arrays, elements \o Room(room))

NewSlice(elements) == [array |-> Len(arrays) + 1, len |-> Len(elements)]

NotWalking == [list |-> Unset, slice |-> NilSlice, begun |-> <<>>, called |-> <<>>]

Init ==
  /\ arrays = <<>>
  /\ board = [l \in Lists |-> NilSlice]
  /\ built = FALSE
  /\ mine = NilSlice
  /\ walk = NotWalking
  /\ intended = [l \in Lists |-> <<>>]
  /\ roomy = {}

\* The caller makes a slice of its own.
CallerMakes(f, room) ==
  /\ Allocate(<<f>>, room)
  /\ mine' = NewSlice(<<f>>)
  /\ roomy' = IF room = 0 THEN roomy ELSE roomy \cup {mine'.array}
  /\ UNCHANGED <<board, built, walk, intended>>

(***************************************************************************)
(* Building the VCR and turning its knobs                                  *)
(***************************************************************************)

\* How much more than needed append allocates (the runtime's business).
GrowthRoom == 0..1

\* append(list, f): in place, or in a new array of which some room is left.
AppendTo(l, f) ==
  LET slice == board[l]
  IN /\ slice.len < MaxLength
     /\ board' = [board EXCEPT
                    ![l] = IF slice.len < Cap(slice) THEN [slice EXCEPT !.len = @ + 1]
                           ELSE NewSlice(Append(Contents(slice), f))]
     /\ IF slice.len < Cap(slice)
        THEN arrays' = [arrays EXCEPT ![slice.array][slice.len + 1] = f]
        ELSE \E room \in GrowthRoom : Allocate(Append(Contents(slice), f), room)
     /\ roomy' = IF slice.array \in roomy THEN roomy \cup {board'[l].array} ELSE roomy

Extend(l, f) ==
  /\ AppendTo(l, f)
  /\ intended' = [intended EXCEPT ![l] = Append(@, f)]
  /\ UNCHANGED <<built, mine, walk>>

\* The options of NewVCR add to what those before them gave.
WithRequestMatchers(f)        == ~built /\ Extend(requestMatchers, f)
WithTrackRecordingMutators(f) == ~built /\ Extend(trackRecordingMutators, f)
WithTrackReplayingMutators(f) == ~built /\ Extend(trackReplayingMutators, f)

With(f) ==
  \/ WithRequestMatchers(f)
  \/ WithTrackRecordingMutators(f)
  \/ WithTrackReplayingMutators(f)

\* Add* of the control panel.
Add(l, f) == built /\ Extend(l, f)

NewVCR ==
  /\ ~built
  /\ built' = TRUE
  /\ IF board[requestMatchers] = NilSlice
     THEN /\ arrays' = Append(arrays, <<StrictMatcher>>)
          /\ board' = [board EXCEPT ![requestMatchers] = NewSlice(<<StrictMatcher>>)]
          /\ intended' = [intended EXCEPT ![requestMatchers] = <<StrictMatcher>>]
     ELSE UNCHANGED <<arrays, board, intended>>
  /\ UNCHANGED <<mine, walk, roomy>>

\* Set* keeps the slice it is passed, which is the caller's if it is passed as
\* "mine...".  It is one of mutators.
SetToMine(l) ==
  /\ built /\ mine # NilSlice /\ l # requestMatchers
  /\ board' = [board EXCEPT ![l] = mine]
  /\ intended' = [intended EXCEPT ![l] = Contents(mine)]
  /\ UNCHANGED <<arrays, built, mine, walk, roomy>>

\* Arguments that are listed in the call are in an array of their own.
SetTo_InPlace(l, f) ==
  /\ built /\ board[l].len > 0
  /\ arrays' = [arrays EXCEPT ![board[l].array][1] = f]
  /\ board' = [board EXCEPT ![l].len = 1]
  /\ intended' = [intended EXCEPT ![l] = <<f>>]
  /\ UNCHANGED <<built, mine, walk, roomy>>

SetTo(l, f) ==
  /\ built
  /\ Allocate(<<f>>, 0)
  /\ board' = [board EXCEPT ![l] = NewSlice(<<f>>)]
  /\ intended' = [intended EXCEPT ![l] = <<f>>]
  /\ UNCHANGED <<built, mine, walk, roomy>>

Clear_KeepsArray(l) ==
  /\ built
  /\ board' = [board EXCEPT ![l].len = 0]
  /\ intended' = [intended EXCEPT ![l] = <<>>]
  /\ UNCHANGED <<arrays, built, mine, walk, roomy>>

\* Clear* there is for the mutators; Set* with no argument does it for all.
Clear(l) ==
  /\ built
  /\ board' = [board EXCEPT ![l] = NilSlice]
  /\ intended' = [intended EXCEPT ![l] = <<>>]
  /\ UNCHANGED <<arrays, built, mine, walk, roomy>>

(***************************************************************************)
(* A goroutine in RoundTrip                                                *)
(***************************************************************************)

\* "range" takes the slice as it is now.
Walk(l) ==
  /\ built /\ walk = NotWalking
  /\ walk' = [list |-> l, slice |-> board[l], begun |-> intended[l], called |-> <<>>]
  /\ UNCHANGED <<arrays, board, built, mine, history>>

CallNext(l) ==
  LET n == Len(walk.called)
  IN /\ walk.list = l /\ n < walk.slice.len
     /\ walk' = [walk EXCEPT !.called =
                   Append(@, arrays[walk.slice.array][n + 1])]
     /\ UNCHANGED <<arrays, board, built, mine, history>>

\* The mutators are all called; the matchers until one refuses.
WalkEnds ==
  /\ walk # NotWalking
  /\ walk.list = requestMatchers \/ Len(walk.called) = walk.slice.len
  /\ walk' = NotWalking
  /\ UNCHANGED <<arrays, board, built, mine, history>>

Next ==
  \/ \E f \in Functions, room \in SpareRoom : CallerMakes(f, room)
  \/ NewVCR
  \/ \E l \in Lists :
       \/ SetToMine(l) \/ Clear(l) \/ Walk(l) \/ CallNext(l)
       \/ \E f \in Functions : Add(l, f) \/ SetTo(l, f)
  \/ \E f \in Functions : With(f)
  \/ WalkEnds

Spec == Init /\ [][Next]_vars

(***************************************************************************)
(* Properties                                                              *)
(***************************************************************************)

\* An array into which appends of several lists went or may go.
Lent(slice) == slice.array \in roomy

\* Each list holds what it was last set to and what was added since, in that
\* order, whatever was done to the other lists: "AddRecordingMutators adds a
\* collection of recording TrackMutator's".  Where it was set to a slice of the
\* caller's with room left over, what was added may be replaced by what is
\* added to another list set to that slice, and stays so when the list outgrows
\* the slice, but no more than that.
ListsAreAsSet ==
  \A l \in Lists :
    \/ Contents(board[l]) = intended[l]
    \/ /\ Lent(board[l])
       /\ board[l].len = Len(intended[l])
       /\ Head(Contents(board[l])) = Head(intended[l])

\* A call runs the matchers or mutators that were in force when it came to
\* them, each once and in order, although the control panel sets, adds and
\* clears in the middle of the loop, and whoever shares the list.
WalkIsAsBegun ==
  (walk # NotWalking /\ ~Lent(walk.slice)) =>
    walk.called = SubSeq(walk.begun, 1, Len(walk.called))
=============================================================================
