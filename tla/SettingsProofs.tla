--------------------------- MODULE SettingsProofs ---------------------------
(***************************************************************************)
(* Proofs about module Settings, for any functions, lengths of lists and   *)
(* numbers of arrays.                                                      *)
(*                                                                         *)
(* append may write into an array that other slices refer to.  The         *)
(* argument is that it never does, but for arrays of the caller with room  *)
(* left over: where two lists share any other array, or a list shares it   *)
(* with the caller, that array is full; and what a loop goes through is no *)
(* longer than what the list holds that is appended to.                    *)
(***************************************************************************)
EXTENDS Settings, SequenceTheorems, TLAPS

Elements == Functions \cup {StrictMatcher, Unset}

Slices == [array : Nat, len : Nat]

\* A slice of some arrays: nil, or the beginning of one of them.
IsSlice(rows, slice) ==
  \/ slice = NilSlice
  \/ /\ slice \in Slices /\ slice.array \in 1..Len(rows)
     /\ slice.len \in 1..Len(rows[slice.array])

\* What is in a slice of them, element by element.
Holds(rows, slice, values) ==
  /\ Len(values) = slice.len
  /\ \A i \in 1..slice.len : rows[slice.array][i] = values[i]

\* Nothing can be appended in place.
IsFull(rows, slice) == slice.len = Len(rows[slice.array])

TypeInv ==
  /\ arrays \in Seq(Seq(Elements))
  /\ board \in [Lists -> Slices] /\ \A l \in Lists : IsSlice(arrays, board[l])
  /\ mine \in Slices /\ IsSlice(arrays, mine)
  /\ walk \in [list : Lists \cup {Unset}, slice : Slices, begun : Seq(Elements),
               called : Seq(Elements)]
  /\ IsSlice(arrays, walk.slice) /\ Len(walk.called) <= walk.slice.len
  /\ intended \in [Lists -> Seq(Elements)]
  /\ roomy \subseteq 1..Len(arrays)

\* One array behind two slices, into which none should be appended.
Shared(slice1, slice2) ==
  slice1 # NilSlice /\ slice1.array = slice2.array /\ ~Lent(slice1)

SharingInv ==
  /\ \A l, m \in Lists : l # m /\ Shared(board[l], board[m]) => IsFull(arrays, board[l])
  /\ \A l \in Lists : Shared(board[l], mine) => IsFull(arrays, board[l])
  /\ mine # NilSlice /\ ~Lent(mine) => IsFull(arrays, mine)
  /\ \A l \in Lists : Shared(walk.slice, board[l]) => walk.slice.len <= board[l].len

ListsInv ==
  \A l \in Lists :
    /\ Len(intended[l]) = board[l].len
    /\ ~Lent(board[l]) => Holds(arrays, board[l], intended[l])
    /\ board[l] # NilSlice => arrays[board[l].array][1] = intended[l][1]

WalkInv ==
  ~Lent(walk.slice) =>
    /\ Holds(arrays, walk.slice, walk.begun)
    /\ \A i \in 1..Len(walk.called) : walk.called[i] = walk.begun[i]

SettingsInv == TypeInv /\ SharingInv /\ ListsInv /\ WalkInv

(***************************************************************************)
(* Arrays and slices of them                                               *)
(***************************************************************************)

\* Arrays are sequences of elements.
LEMMA ArraysType ==
  ASSUME NEW rows \in Seq(Seq(Elements))
  PROVE  /\ Len(rows) \in Nat /\ DOMAIN rows = 1..Len(rows)
         /\ \A a \in 1..Len(rows) :
              /\ rows[a] \in Seq(Elements) /\ Len(rows[a]) \in Nat
              /\ DOMAIN rows[a] = 1..Len(rows[a])
              /\ \A i \in 1..Len(rows[a]) : rows[a][i] \in Elements
<1>1. Len(rows) \in Nat /\ DOMAIN rows = 1..Len(rows)
  BY LenProperties
<1>2. \A a \in 1..Len(rows) : rows[a] \in Seq(Elements)
  BY ElementOfSeq
<1>3. ASSUME NEW a \in 1..Len(rows)
      PROVE  /\ Len(rows[a]) \in Nat /\ DOMAIN rows[a] = 1..Len(rows[a])
             /\ \A i \in 1..Len(rows[a]) : rows[a][i] \in Elements
  BY <1>2, LenProperties, ElementOfSeq
<1> QED
  BY <1>1, <1>2, <1>3

\* What Contents takes out of an array.
LEMMA Taking ==
  ASSUME NEW rows \in Seq(Seq(Elements)), NEW slice, IsSlice(rows, slice), slice # NilSlice
  PROVE  /\ SubSeq(rows[slice.array], 1, slice.len) \in Seq(Elements)
         /\ Len(SubSeq(rows[slice.array], 1, slice.len)) = slice.len
         /\ \A i \in 1..slice.len :
              SubSeq(rows[slice.array], 1, slice.len)[i] = rows[slice.array][i]
<1> DEFINE array == rows[slice.array]
           n == slice.len
<1>1. slice.array \in 1..Len(rows) /\ n \in 1..Len(array)
  BY DEF IsSlice
<1>2. /\ array \in Seq(Elements) /\ Len(array) \in Nat
      /\ \A i \in 1..Len(array) : array[i] \in Elements
  BY <1>1, ArraysType
<1> HIDE DEF array, n
<1>3. n \in Nat \ {0} /\ \A i \in 1..n : array[i] \in Elements
  BY <1>1, <1>2
<1>4. /\ SubSeq(array, 1, n) \in Seq(Elements)
      /\ Len(SubSeq(array, 1, n)) = IF 1 <= n THEN n - 1 + 1 ELSE 0
      /\ \A i \in 1..(n - 1 + 1) : SubSeq(array, 1, n)[i] = array[1 + i - 1]
  BY <1>3, SubSeqProperties
<1>5. /\ Len(SubSeq(array, 1, n)) = n
      /\ \A i \in 1..n : SubSeq(array, 1, n)[i] = array[i]
  BY <1>3, <1>4
<1> QED
  BY <1>4, <1>5 DEF array, n

\* More arrays, the ones there were as they were.
Keeps(rows, more) ==
  /\ more \in Seq(Seq(Elements)) /\ Len(rows) <= Len(more)
  /\ \A a \in 1..Len(rows) : more[a] = rows[a]

\* A slice of the arrays there were is the same slice of more arrays.
LEMMA Keeping ==
  ASSUME NEW rows \in Seq(Seq(Elements)), NEW more, Keeps(rows, more), NEW slice,
         IsSlice(rows, slice)
  PROVE  /\ IsSlice(more, slice)
         /\ slice # NilSlice => more[slice.array] = rows[slice.array]
<1>1. CASE slice = NilSlice
  BY <1>1 DEF IsSlice
<1>2. CASE slice # NilSlice
  <2>1. /\ slice \in Slices /\ slice.array \in 1..Len(rows)
        /\ slice.len \in 1..Len(rows[slice.array])
    BY <1>2 DEF IsSlice
  <2>2. Len(rows) \in Nat /\ Len(more) \in Nat /\ Len(rows) <= Len(more)
    BY ArraysType DEF Keeps
  <2>3. more[slice.array] = rows[slice.array]
    BY <2>1 DEF Keeps
  <2>4. 1..Len(rows) \subseteq 1..Len(more)
    BY <2>2
  <2> QED
    BY <2>1, <2>3, <2>4 DEF IsSlice
<1> QED
  BY <1>1, <1>2

\* One array more.
LEMMA Growing ==
  ASSUME NEW rows \in Seq(Seq(Elements)), NEW array \in Seq(Elements)
  PROVE  /\ Keeps(rows, Append(rows, array)) /\ Len(Append(rows, array)) = Len(rows) + 1
         /\ Append(rows, array)[Len(rows) + 1] = array
<1> DEFINE Rows == Seq(Elements)
<1>1. rows \in Seq(Rows) /\ array \in Rows
  OBVIOUS
<1> HIDE DEF Rows
<1>2. /\ Append(rows, array) \in Seq(Rows) /\ Len(Append(rows, array)) = Len(rows) + 1
      /\ \A i \in 1..Len(rows) : Append(rows, array)[i] = rows[i]
      /\ Append(rows, array)[Len(rows) + 1] = array
  BY <1>1, AppendProperties
<1>3. Len(rows) \in Nat
  BY ArraysType
<1> DEFINE more == Append(rows, array)
<1>4. /\ more \in Seq(Seq(Elements)) /\ Len(more) = Len(rows) + 1
      /\ \A i \in 1..Len(rows) : more[i] = rows[i]
      /\ more[Len(rows) + 1] = array
  BY <1>2 DEF Rows
<1> HIDE DEF more
<1>5. Len(rows) <= Len(more)
  BY <1>3, <1>4
<1>6. Keeps(rows, more)
  BY <1>4, <1>5 DEF Keeps
<1> QED
  BY <1>4, <1>6 DEF more

\* A new array holds the elements it was made for.
LEMMA Allocating ==
  ASSUME NEW elements \in Seq(Elements), NEW room \in Nat
  PROVE  /\ elements \o Room(room) \in Seq(Elements)
         /\ Len(elements \o Room(room)) = Len(elements) + room
         /\ \A i \in 1..Len(elements) : (elements \o Room(room))[i] = elements[i]
<1> DEFINE spare == Room(room)
<1>1. spare \in Seq(Elements) /\ Len(spare) = room
  BY DEF Room, Elements
<1> HIDE DEF spare
<1>2. /\ elements \o spare \in Seq(Elements)
      /\ Len(elements \o spare) = Len(elements) + Len(spare)
      /\ \A i \in 1..(Len(elements) + Len(spare)) :
           (elements \o spare)[i] = IF i <= Len(elements) THEN elements[i]
                                    ELSE spare[i - Len(elements)]
  BY <1>1, ConcatProperties
<1>3. Len(elements) \in Nat
  BY LenProperties
<1>4. \A i \in 1..Len(elements) : (elements \o spare)[i] = elements[i]
  BY <1>1, <1>2, <1>3
<1> QED
  BY <1>1, <1>2, <1>4 DEF spare

\* One element of one array is written.
LEMMA Writing ==
  ASSUME NEW rows \in Seq(Seq(Elements)), NEW a \in 1..Len(rows), NEW n \in 1..Len(rows[a]),
         NEW f \in Elements, NEW rows2, rows2 = [rows EXCEPT ![a][n] = f]
  PROVE  /\ rows2 \in Seq(Seq(Elements)) /\ Len(rows2) = Len(rows)
         /\ Len(rows2[a]) = Len(rows[a]) /\ rows2[a][n] = f
         /\ \A i \in 1..Len(rows[a]) : i # n => rows2[a][i] = rows[a][i]
         /\ \A b \in 1..Len(rows) : b # a => rows2[b] = rows[b]
<1> DEFINE row == [rows[a] EXCEPT ![n] = f]
<1>1. rows[a] \in Seq(Elements)
  BY ArraysType
<1>2. /\ row \in Seq(Elements) /\ Len(row) = Len(rows[a])
      /\ \A j \in 1..Len(rows[a]) : row[j] = IF j = n THEN f ELSE rows[a][j]
  <2> DEFINE a0 == rows[a]
  <2>1. a0 \in Seq(Elements) /\ n \in 1..Len(a0)
    BY <1>1
  <2> HIDE DEF a0
  <2>2. /\ [a0 EXCEPT ![n] = f] \in Seq(Elements) /\ Len([a0 EXCEPT ![n] = f]) = Len(a0)
        /\ \A j \in 1..Len(a0) : [a0 EXCEPT ![n] = f][j] = IF j = n THEN f ELSE a0[j]
    BY <2>1, ExceptSeq
  <2> QED
    BY <2>2 DEF a0
<1>3. rows2 = [rows EXCEPT ![a] = row]
  OBVIOUS
<1> HIDE DEF row
<1>4. /\ rows2 \in Seq(Seq(Elements)) /\ Len(rows2) = Len(rows)
      /\ \A b \in 1..Len(rows) : rows2[b] = IF b = a THEN row ELSE rows[b]
  <2> DEFINE Rows == Seq(Elements)
  <2>1. rows \in Seq(Rows) /\ row \in Rows
    BY <1>2
  <2> HIDE DEF Rows
  <2>2. /\ [rows EXCEPT ![a] = row] \in Seq(Rows)
        /\ Len([rows EXCEPT ![a] = row]) = Len(rows)
        /\ \A b \in 1..Len(rows) : [rows EXCEPT ![a] = row][b] = IF b = a THEN row ELSE rows[b]
    BY <2>1, ExceptSeq
  <2> QED
    BY <1>3, <2>2 DEF Rows
<1>5. rows2[a] = row
  BY <1>4
<1> QED
  BY <1>2, <1>4, <1>5

\* What the invariant says of the types of the variables.
LEMMA Types ==
  ASSUME SettingsInv
  PROVE  /\ TypeInv /\ SharingInv /\ ListsInv /\ WalkInv
         /\ arrays \in Seq(Seq(Elements)) /\ Len(arrays) \in Nat
         /\ \A a \in 1..Len(arrays) : arrays[a] \in Seq(Elements) /\ Len(arrays[a]) \in Nat
         /\ \A l \in Lists : /\ board[l] \in Slices /\ IsSlice(arrays, board[l])
                             /\ intended[l] \in Seq(Elements)
         /\ NilSlice \in Slices /\ NilSlice.array = 0 /\ NilSlice.len = 0
         /\ 0 \notin roomy /\ Len(arrays) + 1 \notin roomy
BY DEF SettingsInv, TypeInv, Slices, NilSlice

\* What the lists hold, and what the mutators of the caller are.
LEMMA ContentsAre ==
  ASSUME SettingsInv, NEW slice, IsSlice(arrays, slice)
  PROVE  /\ Contents(slice) \in Seq(Elements) /\ Len(Contents(slice)) = slice.len
         /\ Holds(arrays, slice, Contents(slice))
         /\ slice = NilSlice => Contents(slice) = <<>>
<1>1. CASE slice = NilSlice
  BY <1>1 DEF Contents, Holds, NilSlice
<1>2. CASE slice # NilSlice
  BY <1>2, Types, Taking DEF Contents, Holds
<1> QED
  BY <1>1, <1>2

(***************************************************************************)
(* The steps                                                               *)
(***************************************************************************)

\* A list is set, to nothing, to the caller's slice, or to a new array.
LEMMA ListIsSet ==
  ASSUME SettingsInv, Keeps(arrays, arrays'), NEW l \in Lists, NEW slice \in Slices,
         NEW values \in Seq(Elements),
         board' = [board EXCEPT ![l] = slice], intended' = [intended EXCEPT ![l] = values],
         mine' = mine, walk' = walk,
         \/ slice = NilSlice \/ slice = mine
         \/ slice.array = Len(arrays) + 1,
         IsSlice(arrays', slice), Len(values) = slice.len,
         slice.array \notin roomy' => Holds(arrays', slice, values),
         slice # NilSlice => arrays'[slice.array][1] = values[1],
         roomy' \subseteq 1..Len(arrays'), roomy' \cap 1..Len(arrays) = roomy
  PROVE  SettingsInv'
<1>1. TypeInv'
  <2>1. board' \in [Lists -> Slices] /\ intended' \in [Lists -> Seq(Elements)]
    BY Types DEF TypeInv
  <2>2. \A m \in Lists : IsSlice(arrays', board'[m])
    BY Types, Keeping DEF TypeInv
  <2>3. IsSlice(arrays', mine') /\ IsSlice(arrays', walk'.slice)
    BY Types, Keeping DEF TypeInv
  <2>4. arrays' \in Seq(Seq(Elements))
    BY DEF Keeps
  <2> QED
    BY <2>1, <2>2, <2>3, <2>4, Types DEF TypeInv
<1>2. /\ board'[l] = slice /\ intended'[l] = values
      /\ \A m \in Lists \ {l} : board'[m] = board[m] /\ intended'[m] = intended[m]
  BY Types DEF TypeInv
<1>3. ASSUME NEW old, IsSlice(arrays, old), old # NilSlice
      PROVE  /\ IsFull(arrays', old) <=> IsFull(arrays, old)
             /\ old.array \in roomy' <=> old.array \in roomy
             /\ old.array \in 1..Len(arrays)
             /\ arrays'[old.array] = arrays[old.array]
  <2>1. arrays'[old.array] = arrays[old.array]
    BY <1>3, Types, Keeping
  <2>2. old.array \in 1..Len(arrays)
    BY <1>3 DEF IsSlice
  <2> QED
    BY <2>1, <2>2 DEF IsFull
<1>4. /\ IsSlice(arrays, mine) /\ IsSlice(arrays, walk.slice)
      /\ \A m \in Lists : IsSlice(arrays, board[m])
  BY Types DEF TypeInv
<1>5. SharingInv'
  <2>1. ASSUME NEW m \in Lists, NEW k \in Lists, m # k, Shared(board[m], board[k])'
        PROVE  IsFull(arrays', board'[m])
    <3>1. CASE m # l /\ k # l
      BY <1>2, <1>3, <1>4, <2>1, <3>1, Types DEF SharingInv, Shared, Lent
    <3>2. CASE m = l
      <4>1. slice # NilSlice /\ slice.array = board[k].array /\ slice.array \notin roomy'
        BY <1>2, <2>1, <3>2 DEF Shared, Lent
      <4>2. board[k] # NilSlice
        BY <4>1, Types DEF IsSlice
      <4>3. slice = mine
        BY <1>3, <1>4, <4>1, <4>2
      <4>4. IsFull(arrays, mine)
        BY <1>3, <1>4, <4>1, <4>3, Types DEF SharingInv, Lent
      <4> QED
        BY <1>2, <1>3, <1>4, <3>2, <4>1, <4>3, <4>4
    <3>3. CASE k = l
      <4>1. board[m] # NilSlice /\ slice.array = board[m].array /\ board[m].array \notin roomy'
        BY <1>2, <2>1, <3>3 DEF Shared, Lent
      <4>2. slice = mine
        BY <1>3, <1>4, <4>1, Types DEF IsSlice
      <4>3. IsFull(arrays, board[m])
        BY <1>3, <1>4, <4>1, <4>2, Types DEF SharingInv, Shared, Lent
      <4> QED
        BY <1>2, <1>3, <1>4, <2>1, <3>3, <4>1, <4>3
    <3> QED
      BY <3>1, <3>2, <3>3
  <2>2. ASSUME NEW m \in Lists, Shared(board[m], mine)'
        PROVE  IsFull(arrays', board'[m])
    <3>1. CASE m # l
      BY <1>2, <1>3, <1>4, <2>2, <3>1, Types DEF SharingInv, Shared, Lent
    <3>2. CASE m = l
      <4>1. slice # NilSlice /\ slice.array = mine.array /\ slice.array \notin roomy'
        BY <1>2, <2>2, <3>2 DEF Shared, Lent
      <4>2. mine # NilSlice
        BY <4>1, Types DEF IsSlice
      <4>3. slice = mine
        BY <1>3, <1>4, <4>1, <4>2
      <4>4. IsFull(arrays, mine)
        BY <1>3, <1>4, <4>1, <4>3, Types DEF SharingInv, Lent
      <4> QED
        BY <1>2, <1>3, <1>4, <3>2, <4>2, <4>3, <4>4
    <3> QED
      BY <3>1, <3>2
  <2>3. mine' # NilSlice /\ mine'.array \notin roomy' => IsFull(arrays', mine')
    BY <1>3, <1>4, Types DEF SharingInv, Lent
  <2>4. ASSUME NEW m \in Lists, Shared(walk.slice, board[m])'
        PROVE  walk'.slice.len <= board'[m].len
    <3>1. CASE m # l
      BY <1>2, <1>3, <1>4, <2>4, <3>1, Types DEF SharingInv, Shared, Lent
    <3>2. CASE m = l
      <4>1. /\ walk.slice # NilSlice /\ walk.slice.array = slice.array
            /\ walk.slice.array \notin roomy'
        BY <1>2, <2>4, <3>2 DEF Shared, Lent
      <4>2. slice = mine /\ mine # NilSlice
        BY <1>3, <1>4, <4>1, Types DEF IsSlice
      <4>3. IsFull(arrays, mine)
        BY <1>3, <1>4, <4>1, <4>2, Types DEF SharingInv, Lent
      <4>4. walk.slice.len <= Len(arrays[walk.slice.array])
        BY <1>4, <4>1 DEF IsSlice
      <4> QED
        BY <1>2, <3>2, <4>1, <4>2, <4>3, <4>4 DEF IsFull
    <3> QED
      BY <3>1, <3>2
  <2> QED
    BY <2>1, <2>2, <2>3, <2>4 DEF SharingInv, Lent
<1>6. ListsInv'
  <2> SUFFICES ASSUME NEW m \in Lists
               PROVE  /\ Len(intended'[m]) = board'[m].len
                      /\ board'[m].array \notin roomy' =>
                           Holds(arrays', board'[m], intended'[m])
                      /\ board'[m] # NilSlice =>
                           arrays'[board'[m].array][1] = intended'[m][1]
    BY DEF ListsInv, Lent
  <2>1. CASE m = l
    BY <1>2, <2>1
  <2>2. CASE m # l
    <3>1. /\ Len(intended[m]) = board[m].len
          /\ board[m].array \notin roomy => Holds(arrays, board[m], intended[m])
          /\ board[m] # NilSlice => arrays[board[m].array][1] = intended[m][1]
      BY Types DEF ListsInv, Lent
    <3>2. CASE board[m] = NilSlice
      BY <1>2, <2>2, <3>1, <3>2, Types DEF Holds
    <3>3. CASE board[m] # NilSlice
      BY <1>2, <1>3, <1>4, <2>2, <3>1, <3>3 DEF Holds
    <3> QED
      BY <3>2, <3>3
  <2> QED
    BY <2>1, <2>2
<1>7. WalkInv'
  <2>1. CASE walk.slice = NilSlice
    BY <2>1, Types DEF WalkInv, Lent, Holds
  <2>2. CASE walk.slice # NilSlice
    BY <1>3, <1>4, <2>2, Types DEF WalkInv, Lent, Holds
  <2> QED
    BY <2>1, <2>2
<1> QED
  BY <1>1, <1>5, <1>6, <1>7 DEF SettingsInv

\* An element is appended in place: there is room for it only in an array of the
\* list's own, or of the caller's with room left over.
LEMMA ExtendInPlace ==
  ASSUME SettingsInv, NEW l \in Lists, NEW f \in Functions, Extend(l, f),
         board[l].len < Cap(board[l])
  PROVE  SettingsInv'
<1> DEFINE a == board[l].array
           n == board[l].len
<1>1. /\ board[l] # NilSlice /\ IsSlice(arrays, board[l]) /\ board[l] \in Slices
      /\ a \in 1..Len(arrays) /\ n \in 1..Len(arrays[a]) /\ n < Len(arrays[a])
      /\ f \in Elements
  BY Types DEF Cap, NilSlice, IsSlice, Elements
<1>2. /\ board' = [board EXCEPT ![l] = [board[l] EXCEPT !.len = n + 1]]
      /\ arrays' = [arrays EXCEPT ![a][n + 1] = f]
      /\ intended' = [intended EXCEPT ![l] = Append(@, f)]
      /\ mine' = mine /\ walk' = walk
      /\ roomy' = IF a \in roomy THEN roomy \cup {board'[l].array} ELSE roomy
  <2>1. /\ intended' = [intended EXCEPT ![l] = Append(@, f)]
        /\ mine' = mine /\ walk' = walk
        /\ roomy' = IF a \in roomy THEN roomy \cup {board'[l].array} ELSE roomy
    BY DEF Extend, AppendTo
  <2>2. board' = [board EXCEPT ![l] = [board[l] EXCEPT !.len = n + 1]]
    BY DEF Extend, AppendTo
  <2>3. arrays' = [arrays EXCEPT ![a][n + 1] = f]
    BY DEF Extend, AppendTo
  <2> QED
    BY <2>1, <2>2, <2>3
<1>3. board'[l].array = a /\ board'[l].len = n + 1 /\ board'[l] \in Slices
  <2>1. board'[l] = [board[l] EXCEPT !.len = n + 1]
    BY <1>2, Types DEF TypeInv
  <2> QED
    BY <1>1, <2>1, Types DEF Slices
<1>4. /\ roomy' = roomy
      /\ \A m \in Lists \ {l} : board'[m] = board[m] /\ intended'[m] = intended[m]
      /\ intended'[l] = Append(intended[l], f)
  BY <1>2, <1>3, Types DEF TypeInv
<1> HIDE DEF a, n
<1>5. /\ n \in Nat /\ n >= 1 /\ n + 1 \in 1..Len(arrays[a]) /\ n # Len(arrays[a])
      /\ Len(arrays[a]) \in Nat
  BY <1>1, Types
<1>6. /\ arrays' \in Seq(Seq(Elements)) /\ Len(arrays') = Len(arrays)
      /\ Len(arrays'[a]) = Len(arrays[a]) /\ arrays'[a][n + 1] = f
      /\ \A i \in 1..Len(arrays[a]) : i # n + 1 => arrays'[a][i] = arrays[a][i]
      /\ \A b \in 1..Len(arrays) : b # a => arrays'[b] = arrays[b]
  BY <1>1, <1>2, <1>5, Types, Writing
<1>7. ASSUME NEW slice, IsSlice(arrays, slice)
      PROVE  /\ IsSlice(arrays', slice)
             /\ slice # NilSlice =>
                  /\ slice.array \in 1..Len(arrays)
                  /\ IsFull(arrays', slice) <=> IsFull(arrays, slice)
                  /\ arrays'[slice.array][1] = arrays[slice.array][1]
             /\ \A values : slice.array # a \/ slice.len <= n =>
                  (Holds(arrays', slice, values) <=> Holds(arrays, slice, values))
  <2>1. CASE slice = NilSlice
    BY <2>1, Types DEF IsSlice, Holds
  <2>2. CASE slice # NilSlice /\ slice.array # a
    <3>1. slice.array \in 1..Len(arrays) /\ arrays'[slice.array] = arrays[slice.array]
      BY <1>6, <1>7, <2>2 DEF IsSlice
    <3> QED
      BY <1>6, <1>7, <2>2, <3>1 DEF IsSlice, IsFull, Holds
  <2>3. CASE slice # NilSlice /\ slice.array = a
    <3>1. slice.len \in 1..Len(arrays[a]) /\ slice \in Slices
      BY <1>7, <2>3 DEF IsSlice
    <3>2. IsSlice(arrays', slice) /\ (IsFull(arrays', slice) <=> IsFull(arrays, slice))
      BY <1>1, <1>6, <2>3, <3>1 DEF IsSlice, IsFull
    <3>3. arrays'[a][1] = arrays[a][1]
      BY <1>5, <1>6
    <3>4. slice.len <= n => \A i \in 1..slice.len : arrays'[a][i] = arrays[a][i]
      <4>1. ASSUME slice.len <= n, NEW i \in 1..slice.len
            PROVE  i \in 1..Len(arrays[a]) /\ i # n + 1
        BY <1>5, <3>1, <4>1 DEF Slices
      <4> QED
        BY <1>6, <4>1
    <3> QED
      BY <1>1, <2>3, <3>2, <3>3, <3>4 DEF Holds
  <2> QED
    BY <2>1, <2>2, <2>3
<1>8. IsSlice(arrays', board'[l])
  BY <1>1, <1>3, <1>5, <1>6 DEF IsSlice
<1>9. ~IsFull(arrays, board[l])
  BY <1>5 DEF IsFull, a, n
<1>10. TypeInv'
  <2>1. board' \in [Lists -> Slices]
    BY <1>2, <1>3, <1>4, Types DEF TypeInv
  <2>2. intended' \in [Lists -> Seq(Elements)]
    BY <1>1, <1>2, Types DEF TypeInv
  <2>3. \A m \in Lists : IsSlice(arrays', board'[m])
    BY <1>4, <1>7, <1>8, Types
  <2>4. IsSlice(arrays', mine) /\ IsSlice(arrays', walk.slice)
    BY <1>7, Types DEF TypeInv
  <2> QED
    BY <1>2, <1>4, <1>6, <2>1, <2>2, <2>3, <2>4, Types DEF TypeInv
<1>11. SharingInv'
  <2>1. ASSUME NEW m \in Lists, NEW k \in Lists, m # k, Shared(board[m], board[k])'
        PROVE  IsFull(arrays', board'[m])
    <3>1. board'[m].array = board[m].array /\ board'[k].array = board[k].array
      BY <1>3, <1>4 DEF a
    <3>2. board[m].array = board[k].array /\ board[m].array \notin roomy
      BY <1>4, <2>1, <3>1 DEF Shared, Lent
    <3>3. board[m] # NilSlice
      BY <1>1, <1>4, <2>1 DEF Shared
    <3>4. IsFull(arrays, board[m])
      BY <2>1, <3>2, <3>3, Types DEF SharingInv, Shared, Lent
    <3>5. m # l
      BY <1>9, <3>4
    <3> QED
      BY <1>4, <1>7, <3>3, <3>4, <3>5, Types
  <2>2. ASSUME NEW m \in Lists, Shared(board[m], mine)'
        PROVE  IsFull(arrays', board'[m])
    <3>1. board'[m].array = board[m].array
      BY <1>3, <1>4 DEF a
    <3>2. board[m].array = mine.array /\ board[m].array \notin roomy
      BY <1>2, <1>4, <2>2, <3>1 DEF Shared, Lent
    <3>3. board[m] # NilSlice
      BY <1>1, <1>4, <2>2 DEF Shared
    <3>4. IsFull(arrays, board[m])
      BY <3>2, <3>3, Types DEF SharingInv, Shared, Lent
    <3>5. m # l
      BY <1>9, <3>4
    <3> QED
      BY <1>4, <1>7, <3>3, <3>4, <3>5, Types
  <2>3. mine' # NilSlice /\ mine'.array \notin roomy' => IsFull(arrays', mine')
    BY <1>2, <1>4, <1>7, Types DEF SharingInv, Lent, TypeInv
  <2>4. ASSUME NEW m \in Lists, Shared(walk.slice, board[m])'
        PROVE  walk'.slice.len <= board'[m].len
    <3>1. board'[m].array = board[m].array
      BY <1>3, <1>4 DEF a
    <3>2. walk.slice.len <= board[m].len
      BY <1>2, <1>4, <2>4, <3>1, Types DEF SharingInv, Shared, Lent
    <3>3. board'[m].len = board[m].len \/ (m = l /\ board'[m].len = n + 1 /\ board[m].len = n)
      BY <1>3, <1>4 DEF n
    <3>4. walk.slice.len \in Nat
      BY Types DEF TypeInv, Slices
    <3> QED
      BY <1>2, <1>5, <3>2, <3>3, <3>4
  <2> QED
    BY <2>1, <2>2, <2>3, <2>4 DEF SharingInv, Lent
<1>12. ListsInv'
  <2> SUFFICES ASSUME NEW m \in Lists
               PROVE  /\ Len(intended'[m]) = board'[m].len
                      /\ board'[m].array \notin roomy' =>
                           Holds(arrays', board'[m], intended'[m])
                      /\ board'[m] # NilSlice =>
                           arrays'[board'[m].array][1] = intended'[m][1]
    BY DEF ListsInv, Lent
  <2>1. /\ Len(intended[m]) = board[m].len
        /\ board[m].array \notin roomy => Holds(arrays, board[m], intended[m])
        /\ board[m] # NilSlice => arrays[board[m].array][1] = intended[m][1]
        /\ intended[m] \in Seq(Elements) /\ IsSlice(arrays, board[m])
    BY Types DEF ListsInv, Lent
  <2>2. CASE m = l
    <3>1. /\ intended'[l] = Append(intended[l], f) /\ Len(intended[l]) = n
          /\ intended[l] \in Seq(Elements)
      BY <1>4, <2>1, <2>2 DEF n
    <3>2. /\ Len(intended'[l]) = n + 1 /\ intended'[l][n + 1] = f
          /\ \A i \in 1..n : intended'[l][i] = intended[l][i]
      BY <1>1, <3>1, AppendProperties
    <3>3. arrays'[a][1] = intended'[l][1]
      <4>1. arrays'[a][1] = arrays[a][1] /\ arrays[a][1] = intended[l][1]
        BY <1>1, <1>7, <2>1, <2>2 DEF a
      <4> QED
        BY <1>5, <3>2, <4>1
    <3>4. ASSUME a \notin roomy, NEW i \in 1..(n + 1)
          PROVE  arrays'[a][i] = intended'[l][i]
      <4>1. CASE i = n + 1
        BY <1>6, <3>2, <4>1
      <4>2. CASE i \in 1..n
        <5>1. arrays[a][i] = intended[l][i]
          BY <2>1, <2>2, <3>4, <4>2 DEF Holds, a, n
        <5>2. i \in 1..Len(arrays[a]) /\ i # n + 1
          BY <1>5, <4>2
        <5> QED
          BY <1>6, <3>2, <4>2, <5>1, <5>2
      <4> QED
        BY <1>5, <3>4, <4>1, <4>2
    <3>5. a \notin roomy' => Holds(arrays', board'[l], intended'[l])
      BY <1>3, <1>4, <3>2, <3>4 DEF Holds
    <3> QED
      BY <1>3, <2>2, <3>2, <3>3, <3>5
  <2>3. CASE m # l
    <3>1. board'[m] = board[m] /\ intended'[m] = intended[m]
      BY <1>4, <2>3
    <3>2. board[m] # NilSlice /\ board[m].array \notin roomy => board[m].array # a
      BY <1>1, <1>9, <2>3, Types DEF SharingInv, Shared, Lent, a
    <3>3. CASE board[m] = NilSlice
      BY <2>1, <3>1, <3>3, Types DEF Holds
    <3>4. CASE board[m] # NilSlice
      BY <1>4, <1>7, <2>1, <3>1, <3>2, <3>4
    <3> QED
      BY <3>3, <3>4
  <2> QED
    BY <2>2, <2>3
<1>13. WalkInv'
  <2>1. IsSlice(arrays, walk.slice) /\ walk.slice \in Slices
    BY Types DEF TypeInv
  <2>2. CASE walk.slice = NilSlice
    BY <1>2, <1>4, <2>2, Types DEF WalkInv, Lent, Holds
  <2>3. CASE walk.slice # NilSlice
    <3>1. walk.slice.array \notin roomy /\ walk.slice.array = a => walk.slice.len <= n
      BY <2>3, Types DEF SharingInv, Shared, Lent, a, n
    <3> QED
      BY <1>2, <1>4, <1>7, <2>1, <3>1, Types DEF WalkInv, Lent
  <2> QED
    BY <2>2, <2>3
<1> QED
  BY <1>10, <1>11, <1>12, <1>13 DEF SettingsInv

\* An element is appended to what is copied into a new array.
LEMMA ExtendInNew ==
  ASSUME SettingsInv, NEW l \in Lists, NEW f \in Functions, Extend(l, f),
         ~(board[l].len < Cap(board[l]))
  PROVE  SettingsInv'
<1> DEFINE old == Contents(board[l])
           elements == Append(old, f)
           values == Append(intended[l], f)
           slice == NewSlice(elements)
<1>1. PICK room \in GrowthRoom : arrays' = Append(arrays, elements \o Room(room))
  BY DEF Extend, AppendTo, Allocate
<1>2. /\ board' = [board EXCEPT ![l] = slice]
      /\ intended' = [intended EXCEPT ![l] = values]
      /\ mine' = mine /\ walk' = walk
      /\ roomy' = IF board[l].array \in roomy THEN roomy \cup {board'[l].array} ELSE roomy
  BY Types DEF Extend, AppendTo, TypeInv
<1>3. /\ old \in Seq(Elements) /\ Len(old) = board[l].len /\ Holds(arrays, board[l], old)
      /\ intended[l] \in Seq(Elements) /\ Len(intended[l]) = board[l].len
      /\ f \in Elements /\ room \in Nat /\ board[l].len \in Nat
  BY ContentsAre, Types DEF ListsInv, Elements, GrowthRoom, Slices
<1>4. /\ elements \in Seq(Elements) /\ values \in Seq(Elements)
      /\ Len(elements) = board[l].len + 1 /\ Len(values) = board[l].len + 1
      /\ elements[board[l].len + 1] = f /\ values[board[l].len + 1] = f
      /\ \A i \in 1..board[l].len : elements[i] = old[i] /\ values[i] = intended[l][i]
  BY <1>3, AppendProperties
<1>5. slice.array = Len(arrays) + 1 /\ slice.len = Len(elements) /\ slice \in Slices
  BY <1>4, Types DEF NewSlice, Slices
<1> HIDE DEF old, elements, values, slice
<1> DEFINE array == elements \o Room(room)
<1>6. /\ array \in Seq(Elements) /\ Len(array) = Len(elements) + room
      /\ \A i \in 1..Len(elements) : array[i] = elements[i]
  BY <1>3, <1>4, Allocating
<1>7. arrays' = Append(arrays, array)
  BY <1>1
<1> HIDE DEF array
<1>8. /\ Keeps(arrays, arrays') /\ Len(arrays') = Len(arrays) + 1
      /\ arrays'[Len(arrays) + 1] = array
  BY <1>6, <1>7, Types, Growing
<1>9. IsSlice(arrays', slice)
  <2>1. slice.array \in 1..Len(arrays')
    BY <1>5, <1>8, Types
  <2>2. slice.len \in 1..Len(arrays'[slice.array])
    <3>1. arrays'[slice.array] = array
      BY <1>5, <1>8
    <3>2. Len(elements) \in 1..(Len(elements) + room)
      BY <1>3, <1>4
    <3> QED
      BY <1>5, <1>6, <3>1, <3>2
  <2> QED
    BY <1>5, <2>1, <2>2 DEF IsSlice
<1>10. roomy' \subseteq 1..Len(arrays') /\ roomy' \cap 1..Len(arrays) = roomy
  <2>1. board'[l].array = Len(arrays) + 1
    BY <1>2, <1>5, Types DEF TypeInv
  <2>2. roomy \subseteq 1..Len(arrays) /\ Len(arrays) \in Nat
    BY Types DEF TypeInv
  <2>3. roomy' = roomy \/ roomy' = roomy \cup {Len(arrays) + 1}
    BY <1>2, <2>1
  <2>4. 1..Len(arrays) \subseteq 1..Len(arrays') /\ Len(arrays) + 1 \in 1..Len(arrays')
    BY <1>8, <2>2
  <2>5. Len(arrays) + 1 \notin 1..Len(arrays)
    BY <2>2
  <2> QED
    BY <2>2, <2>3, <2>4, <2>5
<1>11. arrays'[slice.array][1] = values[1]
  <2>1. arrays'[slice.array][1] = elements[1]
    BY <1>3, <1>4, <1>5, <1>6, <1>8
  <2>2. CASE board[l] = NilSlice
    BY <1>4, <2>1, <2>2, Types
  <2>3. CASE board[l] # NilSlice
    <3>1. board[l].len >= 1
      BY <2>3, Types DEF IsSlice
    <3>2. old[1] = arrays[board[l].array][1] /\ arrays[board[l].array][1] = intended[l][1]
      BY <1>3, <2>3, <3>1, Types DEF Holds, ListsInv
    <3> QED
      BY <1>3, <1>4, <2>1, <3>1, <3>2
  <2> QED
    BY <2>2, <2>3
<1>12. ASSUME slice.array \notin roomy'
       PROVE  Holds(arrays', slice, values)
  <2>1. board[l].array \notin roomy
    <3>1. board'[l].array = slice.array
      BY <1>2, Types DEF TypeInv
    <3> QED
      BY <1>2, <1>12, <3>1
  <2>2. \A i \in 1..board[l].len : old[i] = intended[l][i]
    BY <1>3, <2>1, Types DEF Holds, ListsInv, Lent
  <2>3. \A i \in 1..(board[l].len + 1) : elements[i] = values[i]
    <3>1. \A i \in 1..(board[l].len + 1) : i \in 1..board[l].len \/ i = board[l].len + 1
      BY <1>3
    <3> QED
      BY <1>4, <2>2, <3>1
  <2> QED
    BY <1>4, <1>5, <1>6, <1>8, <2>3 DEF Holds
<1> QED
  BY <1>2, <1>4, <1>5, <1>8, <1>9, <1>10, <1>11, <1>12, ListIsSet

\* The caller makes another slice for itself.
LEMMA CallersSlice ==
  ASSUME SettingsInv, NEW f \in Functions, NEW room \in SpareRoom, CallerMakes(f, room)
  PROVE  SettingsInv'
<1> DEFINE slice == NewSlice(<<f>>)
           array == <<f>> \o Room(room)
<1>1. /\ arrays' = Append(arrays, array) /\ mine' = slice
      /\ roomy' = IF room = 0 THEN roomy ELSE roomy \cup {mine'.array}
      /\ board' = board /\ walk' = walk /\ intended' = intended
  BY DEF CallerMakes, Allocate
<1>2. <<f>> \in Seq(Elements) /\ Len(<<f>>) = 1 /\ room \in Nat
  BY RoomAssumption DEF Elements
<1>3. array \in Seq(Elements) /\ Len(array) = 1 + room
  BY <1>2, Allocating
<1>4. slice.array = Len(arrays) + 1 /\ slice.len = 1 /\ slice \in Slices
  BY <1>2, Types DEF NewSlice, Slices
<1> HIDE DEF slice, array
<1>5. /\ Keeps(arrays, arrays') /\ Len(arrays') = Len(arrays) + 1
      /\ arrays'[Len(arrays) + 1] = array
  BY <1>1, <1>3, Types, Growing
<1>6. IsSlice(arrays', slice) /\ (room = 0 => IsFull(arrays', slice))
  <2>1. slice.array \in 1..Len(arrays')
    BY <1>4, <1>5, Types
  <2>2. slice.len \in 1..Len(arrays'[slice.array])
    BY <1>2, <1>3, <1>4, <1>5
  <2> QED
    BY <1>3, <1>4, <1>5, <2>1, <2>2 DEF IsSlice, IsFull
<1>7. roomy \subseteq roomy' /\ roomy' \subseteq 1..Len(arrays')
      /\ roomy' \cap 1..Len(arrays) = roomy /\ (slice.array \notin roomy' => room = 0)
  <2>1. roomy' = IF room = 0 THEN roomy ELSE roomy \cup {Len(arrays) + 1}
    BY <1>1, <1>4
  <2>2. roomy \subseteq 1..Len(arrays) /\ Len(arrays) \in Nat
    BY Types DEF TypeInv
  <2>3. 1..Len(arrays) \subseteq 1..Len(arrays') /\ Len(arrays) + 1 \in 1..Len(arrays')
    BY <1>5, <2>2
  <2>4. Len(arrays) + 1 \notin 1..Len(arrays)
    BY <2>2
  <2> QED
    BY <1>4, <2>1, <2>2, <2>3, <2>4
<1>8. ASSUME NEW old, IsSlice(arrays, old), old # NilSlice
      PROVE  /\ IsSlice(arrays', old)
             /\ IsFull(arrays', old) <=> IsFull(arrays, old)
             /\ old.array \in roomy' <=> old.array \in roomy
             /\ old.array # slice.array
             /\ arrays'[old.array] = arrays[old.array]
  <2>1. arrays'[old.array] = arrays[old.array] /\ IsSlice(arrays', old)
    BY <1>5, <1>8, Types, Keeping
  <2>2. old.array \in 1..Len(arrays)
    BY <1>8 DEF IsSlice
  <2>3. old.array # slice.array
    BY <1>4, <2>2, Types
  <2> QED
    BY <1>7, <2>1, <2>2, <2>3 DEF IsFull
<1>9. /\ IsSlice(arrays, walk.slice)
      /\ \A m \in Lists : IsSlice(arrays, board[m])
  BY Types DEF TypeInv
<1>10. TypeInv'
  <2>1. IsSlice(arrays', walk.slice) /\ \A m \in Lists : IsSlice(arrays', board[m])
    BY <1>8, <1>9 DEF IsSlice
  <2>2. arrays' \in Seq(Seq(Elements))
    BY <1>5 DEF Keeps
  <2> QED
    BY <1>1, <1>4, <1>6, <1>7, <2>1, <2>2, Types DEF TypeInv
<1>11. SharingInv'
  <2>1. ASSUME NEW m \in Lists, NEW k \in Lists, m # k, Shared(board[m], board[k])'
        PROVE  IsFull(arrays', board'[m])
    BY <1>1, <1>8, <1>9, <2>1, Types DEF SharingInv, Shared, Lent
  <2>2. ASSUME NEW m \in Lists, Shared(board[m], mine)'
        PROVE  IsFull(arrays', board'[m])
    BY <1>1, <1>8, <1>9, <2>2 DEF Shared
  <2>3. mine'.array \notin roomy' => IsFull(arrays', mine')
    BY <1>1, <1>6, <1>7
  <2>4. ASSUME NEW m \in Lists, Shared(walk.slice, board[m])'
        PROVE  walk'.slice.len <= board'[m].len
    BY <1>1, <1>8, <1>9, <2>4, Types DEF SharingInv, Shared, Lent
  <2> QED
    BY <2>1, <2>2, <2>3, <2>4 DEF SharingInv, Lent
<1>12. ListsInv'
  <2> SUFFICES ASSUME NEW m \in Lists
               PROVE  /\ Len(intended'[m]) = board'[m].len
                      /\ board'[m].array \notin roomy' =>
                           Holds(arrays', board'[m], intended'[m])
                      /\ board'[m] # NilSlice =>
                           arrays'[board'[m].array][1] = intended'[m][1]
    BY DEF ListsInv, Lent
  <2>1. /\ Len(intended[m]) = board[m].len
        /\ board[m].array \notin roomy => Holds(arrays, board[m], intended[m])
        /\ board[m] # NilSlice => arrays[board[m].array][1] = intended[m][1]
    BY Types DEF ListsInv, Lent
  <2>2. CASE board[m] = NilSlice
    BY <1>1, <2>1, <2>2, Types DEF Holds
  <2>3. CASE board[m] # NilSlice
    BY <1>1, <1>8, <1>9, <2>1, <2>3 DEF Holds
  <2> QED
    BY <2>2, <2>3
<1>13. WalkInv'
  <2>1. CASE walk.slice = NilSlice
    BY <1>1, <2>1, Types DEF WalkInv, Lent, Holds
  <2>2. CASE walk.slice # NilSlice
    BY <1>1, <1>8, <1>9, <2>2, Types DEF WalkInv, Lent, Holds
  <2> QED
    BY <2>1, <2>2
<1> QED
  BY <1>10, <1>11, <1>12, <1>13 DEF SettingsInv

\* A list is set to one function, in an array of its own.
LEMMA ListIsNew ==
  ASSUME SettingsInv, NEW l \in Lists, NEW f \in Elements,
         arrays' = Append(arrays, <<f>>), board' = [board EXCEPT ![l] = NewSlice(<<f>>)],
         intended' = [intended EXCEPT ![l] = <<f>>],
         mine' = mine, walk' = walk, roomy' = roomy
  PROVE  SettingsInv'
<1> DEFINE slice == NewSlice(<<f>>)
           values == <<f>>
<1>1. values \in Seq(Elements) /\ Len(values) = 1 /\ values[1] = f
  OBVIOUS
<1>2. slice.array = Len(arrays) + 1 /\ slice.len = 1 /\ slice \in Slices
  BY <1>1, Types DEF NewSlice, Slices
<1>3. /\ arrays' = Append(arrays, values)
      /\ board' = [board EXCEPT ![l] = slice]
      /\ intended' = [intended EXCEPT ![l] = values]
  OBVIOUS
<1> HIDE DEF slice, values
<1>4. /\ Keeps(arrays, arrays') /\ Len(arrays') = Len(arrays) + 1
      /\ arrays'[Len(arrays) + 1] = values
  <2>1. /\ Keeps(arrays, Append(arrays, values))
        /\ Len(Append(arrays, values)) = Len(arrays) + 1
        /\ Append(arrays, values)[Len(arrays) + 1] = values
    BY <1>1, Types, Growing
  <2> QED
    BY <1>3, <2>1
<1>5. slice.array \in 1..Len(arrays')
  BY <1>2, <1>4, Types
<1>6. IsSlice(arrays', slice)
  BY <1>1, <1>2, <1>4, <1>5 DEF IsSlice
<1>7. Holds(arrays', slice, values) /\ arrays'[slice.array][1] = values[1]
  BY <1>1, <1>2, <1>4 DEF Holds
<1>8. 1..Len(arrays) \subseteq 1..Len(arrays')
  BY <1>4, Types
<1>9. roomy' \subseteq 1..Len(arrays') /\ roomy' \cap 1..Len(arrays) = roomy
  BY <1>8, Types DEF TypeInv
<1> QED
  BY <1>1, <1>2, <1>3, <1>4, <1>6, <1>7, <1>9, ListIsSet

\* The steps that leave the lists and the arrays alone.
LEMMA LoopStep ==
  ASSUME SettingsInv, UNCHANGED <<arrays, board, mine, history>>,
         walk' \in [list : Lists \cup {Unset}, slice : Slices, begun : Seq(Elements),
                    called : Seq(Elements)],
         IsSlice(arrays, walk'.slice), Len(walk'.called) <= walk'.slice.len,
         \A l \in Lists : Shared(walk'.slice, board[l]) => walk'.slice.len <= board[l].len,
         walk'.slice.array \notin roomy =>
           /\ Holds(arrays, walk'.slice, walk'.begun)
           /\ \A i \in 1..Len(walk'.called) : walk'.called[i] = walk'.begun[i]
  PROVE  SettingsInv'
<1>1. UNCHANGED <<arrays, board, mine, intended, roomy>>
  BY DEF history
<1>2. TypeInv'
  BY <1>1, Types DEF TypeInv
<1>3. SharingInv'
  BY <1>1, Types DEF SharingInv, Shared, Lent
<1>4. ListsInv'
  BY <1>1, Types DEF ListsInv, Lent
<1>5. WalkInv'
  BY <1>1 DEF WalkInv, Lent
<1> QED
  BY <1>2, <1>3, <1>4, <1>5 DEF SettingsInv

\* No loop.
LEMMA NoLoop ==
  /\ NotWalking \in [list : Lists \cup {Unset}, slice : Slices, begun : Seq(Elements),
                     called : Seq(Elements)]
  /\ NotWalking.slice = NilSlice /\ NotWalking.begun = <<>> /\ NotWalking.called = <<>>
  /\ Len(<<>>) = 0
BY DEF NotWalking, Slices, NilSlice

\* Every step keeps the invariant.
LEMMA SettingsNext == ASSUME SettingsInv, [Next]_vars PROVE SettingsInv'
<1>1. ASSUME NEW f \in Functions, NEW room \in SpareRoom, CallerMakes(f, room)
      PROVE  SettingsInv'
  BY <1>1, CallersSlice
<1>2. CASE NewVCR
  <2>1. CASE board[requestMatchers] = NilSlice
    BY <1>2, <2>1, ListIsNew DEF NewVCR, Lists, Elements
  <2>2. CASE board[requestMatchers] # NilSlice
    <3>1. UNCHANGED <<arrays, board, mine, history, walk>>
      BY <1>2, <2>2 DEF NewVCR, history
    <3> QED
      BY <3>1, Types, LoopStep DEF TypeInv, SharingInv, WalkInv, Lent
  <2> QED
    BY <2>1, <2>2
<1>3. ASSUME NEW l \in Lists, SetToMine(l)
      PROVE  SettingsInv'
  <2>1. /\ board' = [board EXCEPT ![l] = mine] /\ mine # NilSlice
        /\ intended' = [intended EXCEPT ![l] = Contents(mine)]
        /\ arrays' = arrays /\ mine' = mine /\ walk' = walk /\ roomy' = roomy
    BY <1>3 DEF SetToMine
  <2>2. IsSlice(arrays, mine) /\ mine \in Slices
    BY Types DEF TypeInv
  <2>3. /\ Contents(mine) \in Seq(Elements) /\ Len(Contents(mine)) = mine.len
        /\ Holds(arrays, mine, Contents(mine))
    BY <2>2, ContentsAre
  <2>4. arrays[mine.array][1] = Contents(mine)[1]
    BY <2>1, <2>2, <2>3 DEF Holds, IsSlice
  <2>5. Keeps(arrays, arrays') /\ roomy \subseteq 1..Len(arrays)
    BY <2>1, Types DEF Keeps, TypeInv
  <2> QED
    BY <2>1, <2>2, <2>3, <2>4, <2>5, ListIsSet
<1>4. ASSUME NEW l \in Lists, Clear(l)
      PROVE  SettingsInv'
  <2>1. /\ board' = [board EXCEPT ![l] = NilSlice]
        /\ intended' = [intended EXCEPT ![l] = <<>>]
        /\ arrays' = arrays /\ mine' = mine /\ walk' = walk /\ roomy' = roomy
    BY <1>4 DEF Clear
  <2>2. IsSlice(arrays, NilSlice) /\ Holds(arrays, NilSlice, <<>>) /\ <<>> \in Seq(Elements)
        /\ Len(<<>>) = NilSlice.len
    BY Types DEF IsSlice, Holds
  <2>3. Keeps(arrays, arrays') /\ roomy \subseteq 1..Len(arrays)
    BY <2>1, Types DEF Keeps, TypeInv
  <2> QED
    BY <2>1, <2>2, <2>3, Types, ListIsSet
<1>5. ASSUME NEW l \in Lists, Walk(l)
      PROVE  SettingsInv'
  <2>1. /\ walk' = [list |-> l, slice |-> board[l], begun |-> intended[l], called |-> <<>>]
        /\ UNCHANGED <<arrays, board, mine, history>>
    BY <1>5 DEF Walk
  <2>2. /\ walk'.slice = board[l] /\ walk'.begun = intended[l] /\ walk'.called = <<>>
        /\ walk' \in [list : Lists \cup {Unset}, slice : Slices, begun : Seq(Elements),
                      called : Seq(Elements)]
    BY <2>1, Types
  <2>3. Len(<<>>) = 0 /\ board[l].len \in Nat
    BY Types DEF Slices
  <2>4. ASSUME NEW m \in Lists, Shared(board[l], board[m])
        PROVE  board[l].len <= board[m].len
    <3>1. CASE m = l
      BY <2>3, <3>1
    <3>2. CASE m # l
      <4>1. board[m].array = board[l].array /\ board[m] # NilSlice /\ ~Lent(board[m])
        BY <2>4, Types DEF Shared, Lent, IsSlice
      <4>2. IsFull(arrays, board[l]) /\ IsFull(arrays, board[m])
        BY <2>4, <3>2, <4>1, Types DEF SharingInv, Shared
      <4> QED
        BY <2>3, <4>1, <4>2 DEF IsFull
    <3> QED
      BY <3>1, <3>2
  <2>5. board[l].array \notin roomy => Holds(arrays, board[l], intended[l])
    BY Types DEF ListsInv, Lent
  <2>6. \A i \in 1..Len(walk'.called) : walk'.called[i] = walk'.begun[i]
    BY <2>2, <2>3
  <2> QED
    BY <2>1, <2>2, <2>3, <2>4, <2>5, <2>6, Types, LoopStep
<1>6. ASSUME NEW l \in Lists, CallNext(l)
      PROVE  SettingsInv'
  <2> DEFINE n == Len(walk.called)
             f == arrays[walk.slice.array][n + 1]
  <2>1. /\ walk' = [walk EXCEPT !.called = Append(@, f)] /\ n < walk.slice.len
        /\ UNCHANGED <<arrays, board, mine, history>>
    BY <1>6 DEF CallNext
  <2>2. /\ n \in Nat /\ walk.slice.len \in Nat /\ IsSlice(arrays, walk.slice)
        /\ walk.called \in Seq(Elements)
        /\ walk \in [list : Lists \cup {Unset}, slice : Slices, begun : Seq(Elements),
                     called : Seq(Elements)]
    BY Types DEF TypeInv, Slices
  <2>3. walk.slice # NilSlice /\ walk.slice.array \in 1..Len(arrays)
        /\ walk.slice.len \in 1..Len(arrays[walk.slice.array])
    BY <2>1, <2>2, Types DEF IsSlice
  <2>4. n + 1 \in 1..Len(arrays[walk.slice.array]) /\ n + 1 \in 1..walk.slice.len
    BY <2>1, <2>2, <2>3, Types
  <2>5. f \in Elements
    BY <2>3, <2>4, Types, ArraysType
  <2>6. walk.slice.array \notin roomy =>
          /\ Holds(arrays, walk.slice, walk.begun)
          /\ \A i \in 1..n : walk.called[i] = walk.begun[i]
          /\ f = walk.begun[n + 1]
    BY <2>4, Types DEF WalkInv, Lent, Holds
  <2> HIDE DEF f
  <2>7. /\ walk'.slice = walk.slice /\ walk'.begun = walk.begun
        /\ walk'.called = Append(walk.called, f) /\ Append(walk.called, f) \in Seq(Elements)
        /\ Len(Append(walk.called, f)) = n + 1
        /\ \A i \in 1..n : Append(walk.called, f)[i] = walk.called[i]
        /\ Append(walk.called, f)[n + 1] = f
    BY <2>1, <2>2, <2>5, AppendProperties
  <2>8. walk' \in [list : Lists \cup {Unset}, slice : Slices, begun : Seq(Elements),
                   called : Seq(Elements)]
    BY <2>1, <2>2, <2>7
  <2>9. walk.slice.array \notin roomy =>
          \A i \in 1..(n + 1) : walk'.called[i] = walk.begun[i]
    <3> HIDE DEF n
    <3> QED
      BY <2>2, <2>6, <2>7
  <2>10. n + 1 <= walk.slice.len
    BY <2>4
  <2> QED
    BY <2>1, <2>2, <2>6, <2>7, <2>8, <2>9, <2>10, Types, LoopStep DEF SharingInv
<1>7. CASE WalkEnds
  <2>1. walk' = NotWalking /\ UNCHANGED <<arrays, board, mine, history>>
    BY <1>7 DEF WalkEnds
  <2>2. IsSlice(arrays, NilSlice) /\ Holds(arrays, NilSlice, <<>>)
    BY Types DEF IsSlice, Holds
  <2>3. \A l \in Lists : ~Shared(NilSlice, board[l])
    BY DEF Shared
  <2> QED
    BY <2>1, <2>2, <2>3, NoLoop, Types, LoopStep
<1>8. ASSUME NEW l \in Lists, NEW f \in Functions, SetTo(l, f)
      PROVE  SettingsInv'
  <2>1. arrays' = Append(arrays, <<f>> \o Room(0))
    BY <1>8 DEF SetTo, Allocate
  <2>2. <<f>> \o Room(0) = <<f>>
    <3>1. Room(0) = <<>>
      BY DEF Room
    <3>2. <<f>> \in Seq({f})
      OBVIOUS
    <3>3. <<f>> \o <<>> = <<f>>
      BY <3>2, ConcatEmptySeq
    <3> QED
      BY <3>1, <3>3
  <2> QED
    BY <1>8, <2>1, <2>2, ListIsNew DEF SetTo, Elements
<1>9. ASSUME NEW l \in Lists, NEW f \in Functions, Extend(l, f)
      PROVE  SettingsInv'
  BY <1>9, ExtendInPlace, ExtendInNew
<1>10. ASSUME NEW f \in Functions, With(f)
       PROVE  SettingsInv'
  BY <1>9, <1>10 DEF With, WithRequestMatchers, WithTrackRecordingMutators,
     WithTrackReplayingMutators, Lists
<1>11. ASSUME NEW l \in Lists, NEW f \in Functions, Add(l, f)
       PROVE  SettingsInv'
  BY <1>9, <1>11 DEF Add
<1>12. CASE UNCHANGED vars
  <2>1. UNCHANGED <<arrays, board, mine, walk, intended, roomy>>
    BY <1>12 DEF vars, history
  <2>2. TypeInv'
    BY <2>1, Types DEF TypeInv
  <2>3. SharingInv'
    BY <2>1, Types DEF SharingInv, Shared, Lent
  <2>4. ListsInv' /\ WalkInv'
    BY <2>1, Types DEF ListsInv, WalkInv, Lent
  <2> QED
    BY <2>2, <2>3, <2>4 DEF SettingsInv
<1> QED
  BY <1>1, <1>2, <1>3, <1>4, <1>5, <1>6, <1>7, <1>8, <1>10, <1>11, <1>12 DEF Next

\* Nothing has been set yet.
LEMMA SettingsInit == Init => SettingsInv
<1> SUFFICES ASSUME Init PROVE SettingsInv
  OBVIOUS
<1>1. /\ arrays = <<>> /\ board = [l \in Lists |-> NilSlice] /\ mine = NilSlice
      /\ walk = NotWalking /\ intended = [l \in Lists |-> <<>>] /\ roomy = {}
  BY DEF Init
<1>2. /\ NilSlice \in Slices /\ NilSlice.len = 0 /\ Len(<<>>) = 0 /\ <<>> \in Seq(Elements)
      /\ <<>> \in Seq(Seq(Elements))
  BY DEF NilSlice, Slices
<1>3. TypeInv
  BY <1>1, <1>2, NoLoop DEF TypeInv, IsSlice
<1>4. SharingInv
  BY <1>1, NoLoop DEF SharingInv, Shared
<1>5. ListsInv /\ WalkInv
  BY <1>1, <1>2, NoLoop DEF ListsInv, WalkInv, Holds
<1> QED
  BY <1>3, <1>4, <1>5 DEF SettingsInv

\* In every state nothing is appended to an array that two slices share, but to
\* one of the caller's with room left over.
THEOREM SettingsInvariance == Spec => []SettingsInv
<1>1. SettingsInv /\ [Next]_vars => SettingsInv'
  BY SettingsNext
<1> QED
  BY <1>1, SettingsInit, PTL DEF Spec

\* Each list of matchers or mutators holds what it was set to and was given
\* since, whatever is done to the others, for lists and arrays of any length.
THEOREM ListsStayAsSet == Spec => []ListsAreAsSet
<1>1. SettingsInv => ListsAreAsSet
  <2> SUFFICES ASSUME SettingsInv, NEW l \in Lists
               PROVE  \/ Contents(board[l]) = intended[l]
                      \/ /\ Lent(board[l])
                         /\ board[l].len = Len(intended[l])
                         /\ Head(Contents(board[l])) = Head(intended[l])
    BY DEF ListsAreAsSet
  <2>1. /\ Contents(board[l]) \in Seq(Elements) /\ Len(Contents(board[l])) = board[l].len
        /\ Holds(arrays, board[l], Contents(board[l]))
        /\ intended[l] \in Seq(Elements) /\ Len(intended[l]) = board[l].len
        /\ ~Lent(board[l]) => Holds(arrays, board[l], intended[l])
        /\ board[l] # NilSlice => arrays[board[l].array][1] = intended[l][1]
    BY ContentsAre, Types DEF ListsInv
  <2>2. CASE ~Lent(board[l])
    <3>1. \A i \in 1..board[l].len : Contents(board[l])[i] = intended[l][i]
      BY <2>1, <2>2 DEF Holds
    <3>2. Contents(board[l]) = intended[l]
      BY <2>1, <3>1, SeqEqual
    <3> QED
      BY <3>2
  <2>3. CASE Lent(board[l])
    <3>1. board[l] # NilSlice
      BY <2>3, Types DEF Lent
    <3>2. board[l].len >= 1 /\ board[l].len \in Nat
      BY <3>1, Types DEF IsSlice
    <3>3. Contents(board[l])[1] = intended[l][1]
      BY <2>1, <3>1, <3>2 DEF Holds
    <3>4. Head(Contents(board[l])) = Contents(board[l])[1] /\ Head(intended[l]) = intended[l][1]
      BY <2>1, <3>2
    <3> QED
      BY <2>1, <2>3, <3>3, <3>4
  <2> QED
    BY <2>2, <2>3
<1> QED
  BY <1>1, SettingsInvariance, PTL

\* A loop calls the matchers or mutators there were when it began, in order,
\* while the control panel sets, adds and clears.
THEOREM WalksAreUndisturbed == Spec => []WalkIsAsBegun
<1>1. SettingsInv => WalkIsAsBegun
  <2> SUFFICES ASSUME SettingsInv, ~Lent(walk.slice)
               PROVE  walk.called = SubSeq(walk.begun, 1, Len(walk.called))
    BY DEF WalkIsAsBegun
  <2> DEFINE n == Len(walk.called)
  <2>1. /\ walk.called \in Seq(Elements) /\ walk.begun \in Seq(Elements)
        /\ n \in Nat /\ n <= walk.slice.len /\ walk.slice.len = Len(walk.begun)
        /\ \A i \in 1..n : walk.called[i] = walk.begun[i]
    BY Types DEF TypeInv, WalkInv, Holds
  <2>2. \A i \in 1..n : walk.begun[i] \in Elements
    BY <2>1, ElementOfSeq
  <2>3. /\ SubSeq(walk.begun, 1, n) \in Seq(Elements)
        /\ Len(SubSeq(walk.begun, 1, n)) = IF 1 <= n THEN n - 1 + 1 ELSE 0
        /\ \A i \in 1..(n - 1 + 1) : SubSeq(walk.begun, 1, n)[i] = walk.begun[1 + i - 1]
    <3> HIDE DEF n
    <3> QED
      BY <2>1, <2>2, SubSeqProperties
  <2>4. /\ Len(SubSeq(walk.begun, 1, n)) = n
        /\ \A i \in 1..n : SubSeq(walk.begun, 1, n)[i] = walk.called[i]
    <3> HIDE DEF n
    <3> QED
      BY <2>1, <2>3
  <2> QED
    BY <2>1, <2>3, <2>4, SeqEqual
<1> QED
  BY <1>1, SettingsInvariance, PTL

=============================================================================
