---------------------------- MODULE CassetteStore ----------------------------
(***************************************************************************)
(* A cassette and its file over the lives of a process: tracks are         *)
(* recorded and saved, the cipher is changed while that goes on, saving    *)
(* fails, the process dies (in the middle of writing too) and the next one *)
(* loads what it finds.  The file is on a file system or an object of S3.  *)
(*                                                                         *)
(* save() holds trackSliceMutex from the first step to the last, and so    *)
(* does AddTrack; SetCrypter assigns the crypter with no lock, and save()  *)
(* reads it four times.                                                    *)
(*                                                                         *)
(* A definition whose name has an underscore is what a bug could make of   *)
(* the one that follows it; no specification uses it.                      *)
(***************************************************************************)
EXTENDS Naturals, Sequences

CONSTANTS
  Recorders,   \* goroutines that record a track
  Panel,       \* the goroutine that uses the control panel
  TrackIds,    \* the tracks there are to record
  Stores,      \* the storage back ends: "os", "s3"
  Crypters,    \* [kind, key, nonce]: a cipher, its key, the length of the nonces it is given
  KindLength,  \* the length of a cipher's name, in bytes
  NonceSize,   \* the length of the nonces it takes
  LongPlay,    \* the cassette's name ends in .gz
  None         \* nil: no crypter, no holder of the mutex, no data

ASSUME ActorsAssumption == Panel \notin Recorders /\ None \notin Recorders \cup {Panel}
ASSUME LongPlayAssumption == LongPlay \in BOOLEAN
ASSUME CryptersAssumption ==
  /\ None \notin Crypters
  /\ \A c \in Crypters : None # [kind |-> c.kind, key |-> c.key]
  /\ \A c \in Crypters : {KindLength[c.kind], NonceSize[c.kind], c.nonce} \subseteq Nat
ASSUME StoresAssumption == Stores \subseteq {"os", "s3"}

Actors == Recorders \cup {Panel}

VARIABLES
  store,    \* Cassette.store
  file,     \* the file's content, or what is left of it
  up,       \* whether a process runs with the cassette loaded
  tracks,   \* Cassette.Tracks
  crypter,  \* Cassette.crypter
  mutex,    \* who holds trackSliceMutex
  pc,       \* where each goroutine is
  work,     \* its local variables in save() and EncryptionFilter
  acked,    \* history: the tracks whose recording was reported as done
  failed,   \* history: of the saves of this process, the last that ended failed
  secret    \* history: this file has been encrypted

history == <<acked, failed, secret>>
vars    == <<store, file, up, tracks, crypter, mutex, pc, work, history>>

(***************************************************************************)
(* Data: what was done to the tracks, outermost last.  Truncated stands    *)
(* for every prefix of a file that a write has not finished, and Broken    *)
(* for what cannot be decoded.                                             *)
(***************************************************************************)
NoFile    == [layer |-> "no file"]
Truncated == [layer |-> "truncated"]
Broken    == [layer |-> "broken"]

Json(trks) == [layer |-> "json", tracks |-> trks]

Gzip(data) == [layer |-> "gzip", data |-> data]

\* The two lengths of a header are bytes.
TooLong_OffByOne(len) == len > 256
TooLong(len) == len > 255

Byte(len) == len % 256

\* The V2 header names the cipher; the nonce and the ciphertext are the crypter's.
EncryptedV2(c, kindLen, kind, data) ==
  [layer |-> "V2", crypter |-> c, kindLen |-> Byte(kindLen), kind |-> kind,
   nonceLen |-> Byte(c.nonce), data |-> data]

GzipFilter(data)   == IF LongPlay THEN Gzip(data) ELSE data
GunzipFilter(data) ==
  IF ~LongPlay THEN data
  ELSE IF data.layer = "gzip" THEN data.data ELSE Broken

HasMarker(data) == data.layer \in {"V1", "V2"}

\* The V1 header names no cipher.  A name or a nonce cut short or run long by a
\* wrong length is not the crypter's.
HeaderFits(data, c) ==
  \/ data.layer = "V1"
  \/ /\ data.kind = c.kind
     /\ data.kindLen = KindLength[c.kind]
     /\ data.nonceLen = data.crypter.nonce

\* A nonce of another length makes Seal and Open panic.
Seals_Any(c) == TRUE
Seals(c) == c.nonce = NonceSize[c.kind]
Opens(data, c) ==
  data.crypter.kind = c.kind /\ data.crypter.key = c.key /\ data.crypter.nonce = NonceSize[c.kind]

Decrypt(data, c) ==
  IF HeaderFits(data, c) /\ Opens(data, c) THEN data.data ELSE Broken

\* A file without the marker is read as it is, crypter or not.
DecryptionFilter(data, c) ==
  IF ~HasMarker(data) THEN data
  ELSE IF c = None THEN Broken ELSE Decrypt(data, c)

\* readCassette and json.Unmarshal.
Decode(data, c) == GunzipFilter(DecryptionFilter(data, c))

\* Only a file that does not exist is a new cassette; an empty one is corrupt,
\* and one that cannot be asked after (os.Stat, HeadObject) is neither.
Exists_NotEmpty(data) == data \notin {NoFile, Truncated}
Exists(data) == data # NoFile

NotExist == {IF Exists(file) THEN "exists" ELSE "does not exist", "failed"}

IsNew_Unless(answer) == answer # "exists"
IsNew(answer) == answer = "does not exist"

Loads(data, c)  == Exists(data) => Decode(data, c).layer = "json"
Loaded_Undecoded(data, c) == IF Exists(data) THEN Decode(data, c).layer ELSE <<>>
Loaded(data, c) == IF Exists(data) THEN Decode(data, c).tracks ELSE <<>>

DumpCassette(data, c) == IF Exists(data) THEN Decode(data, c) ELSE None

\* The command line prints that.  It only has AES-GCM, and gives NewCassette no
\* store: it looks for the cassette on the file system wherever it is.
LocalFile == IF store = "os" THEN file ELSE NoFile

decryptCassette(data, key) == DumpCassette(data, [kind |-> "aesgcm", key |-> key])

NoWork == [recording |-> None, data |-> None, crypter |-> None,
           kindLen |-> 0]

Init ==
  /\ store \in Stores
  /\ file \in {NoFile, GzipFilter(Json(<<>>))} \cup
              {[layer |-> "V1", crypter |-> c, data |-> GzipFilter(Json(<<>>))] :
                 c \in {d \in Crypters : d.kind = "aesgcm" /\ Seals(d)}}
  /\ up = FALSE
  /\ tracks = <<>>
  /\ crypter = None
  /\ mutex = None
  /\ pc = [a \in Actors |-> "Idle"]
  /\ work = [a \in Actors |-> NoWork]
  /\ acked = {}
  /\ failed = FALSE
  /\ secret = HasMarker(file)

Goto(a, from, to) == pc[a] = from /\ pc' = [pc EXCEPT ![a] = to]

(***************************************************************************)
(* The life of a process                                                   *)
(***************************************************************************)

\* LoadCassette, with or without a crypter; where it panics there is no VCR.
LoadCassette(c) ==
  /\ ~up
  /\ up' = TRUE
  /\ \E answer \in NotExist :
       IF IsNew(answer) THEN tracks' = <<>>
       ELSE answer = "exists" /\ Loads(file, c) /\ tracks' = Loaded(file, c)
  /\ crypter' = c
  /\ failed' = FALSE
  /\ UNCHANGED <<store, file, mutex, pc, work, acked, secret>>

\* The process ends, or dies, anywhere; what it was just writing may be whole.
Crash ==
  /\ up
  /\ file' \in {file} \cup {work[a].data : a \in {b \in Actors : pc[b] = "Writing"}}
  /\ secret' = (secret \/ HasMarker(file'))
  /\ up' = FALSE
  /\ tracks' = <<>>
  /\ crypter' = None
  /\ mutex' = None
  /\ pc' = [a \in Actors |-> "Idle"]
  /\ work' = [a \in Actors |-> NoWork]
  /\ failed' = FALSE
  /\ UNCHANGED <<store, acked>>

\* A cassette that cannot be loaded, or is not wanted any more, is deleted by
\* hand.
Remove ==
  /\ ~up
  /\ file # NoFile
  /\ file' = NoFile
  /\ acked' = {}
  /\ secret' = FALSE
  /\ UNCHANGED <<store, up, tracks, crypter, mutex, pc, work, failed>>

(***************************************************************************)
(* The two operations that save                                            *)
(***************************************************************************)

\* AddTrackToCassette's first half, with a track nobody recorded before.
Fresh == TrackIds \ ({tracks[i] : i \in DOMAIN tracks} \cup acked)

AddTrack(a) ==
  /\ up /\ mutex = None
  /\ Goto(a, "Idle", "Lock")
  /\ Fresh # {}
  /\ LET id == CHOOSE t \in Fresh : TRUE
     IN /\ tracks' = Append(tracks, id)
        /\ work' = [work EXCEPT ![a].recording = id]
  /\ UNCHANGED <<store, file, up, crypter, mutex, history>>

\* SetCrypter's first half.  SetCipher builds a crypter or fails: it never
\* sets none.
SetCrypter_NoSave ==
  /\ up /\ pc[Panel] = "Idle"
  /\ crypter' \in Crypters
  /\ UNCHANGED <<store, file, up, tracks, mutex, pc, work, history>>

SetCrypter ==
  /\ up
  /\ Goto(Panel, "Idle", "Lock")
  /\ crypter' \in Crypters
  /\ UNCHANGED <<store, file, up, tracks, mutex, work, history>>

(***************************************************************************)
(* save()                                                                  *)
(***************************************************************************)

\* Takes the mutex, marshals the tracks and compresses them.
Lock(a) ==
  /\ mutex = None
  /\ Goto(a, "Lock", "WantEncrypted")
  /\ mutex' = a
  /\ work' = [work EXCEPT ![a].data = GzipFilter(Json(tracks))]
  /\ UNCHANGED <<store, file, up, tracks, crypter, history>>

\* Each of the next four steps reads the crypter anew.
Encrypts == crypter # None

WantEncrypted(a) ==
  /\ Goto(a, "WantEncrypted", IF Encrypts THEN "Encrypt" ELSE "Write")
  /\ UNCHANGED <<store, file, up, tracks, crypter, mutex, work, history>>

Encrypt(a) ==
  /\ Goto(a, "Encrypt", "KindLen")
  /\ Seals(crypter)
  /\ work' = [work EXCEPT ![a].crypter = crypter]
  /\ UNCHANGED <<store, file, up, tracks, crypter, mutex, history>>

LengthsFit(a) ==
  ~TooLong(KindLength[crypter.kind]) /\ ~TooLong(work[a].crypter.nonce)

KindLen(a) ==
  /\ Goto(a, "KindLen", "Kind")
  /\ LengthsFit(a)
  /\ work' = [work EXCEPT ![a].kindLen = KindLength[crypter.kind]]
  /\ UNCHANGED <<store, file, up, tracks, crypter, mutex, history>>

Kind(a) ==
  /\ Goto(a, "Kind", "Write")
  /\ work' = [work EXCEPT ![a].data =
                EncryptedV2(work[a].crypter, work[a].kindLen, crypter.kind, @)]
  /\ UNCHANGED <<store, file, up, tracks, crypter, mutex, history>>

\* os.WriteFile empties the file before it writes to it.
Truncate(a) ==
  /\ store = "os"
  /\ Goto(a, "Write", "Writing")
  /\ file' = Truncated
  /\ UNCHANGED <<store, up, tracks, crypter, mutex, work, history>>

\* An object is replaced when its upload is complete.
Upload(a) ==
  /\ store = "s3"
  /\ Goto(a, "Write", "Writing")
  /\ UNCHANGED <<store, file, up, tracks, crypter, mutex, work, history>>

Unlock(a) ==
  /\ mutex' = None
  /\ work' = [work EXCEPT ![a] = NoWork]
  /\ UNCHANGED <<store, up, tracks, crypter>>

Written(a) ==
  /\ Goto(a, "Writing", "Idle")
  /\ file' = work[a].data
  /\ acked' = acked \cup ({work[a].recording} \ {None})
  /\ secret' = (secret \/ HasMarker(file'))
  /\ failed' = FALSE
  /\ Unlock(a)

\* The nonce generator fails or its nonce makes Seal panic, the directory cannot
\* be made, the file cannot be opened; a length does not fit in a byte; or the
\* write fails and what it left stays, or does not fail but seems to.
SaveFails_KeepsMutex(a) ==
  /\ \E from \in {"Encrypt", "Write", "Writing"} : Goto(a, from, "Idle")
  /\ failed' = TRUE
  /\ UNCHANGED <<store, file, up, tracks, crypter, mutex, work, acked, secret>>

SaveFails(a) ==
  /\ \/ \E from \in {"Encrypt", "Write", "Writing"} : Goto(a, from, "Idle")
     \/ Goto(a, "KindLen", "Idle") /\ ~LengthsFit(a)
  /\ failed' = TRUE
  /\ file' \in {file} \cup {work[b].data : b \in {a} \cap {b \in Actors : pc[b] = "Writing"}}
  /\ secret' = (secret \/ HasMarker(file'))
  /\ UNCHANGED acked
  /\ Unlock(a)

(***************************************************************************)
(* Specifications                                                          *)
(***************************************************************************)

Save(a) ==
  \/ Lock(a) \/ WantEncrypted(a) \/ Encrypt(a) \/ KindLen(a) \/ Kind(a)
  \/ Truncate(a) \/ Upload(a) \/ Written(a) \/ SaveFails(a)

Next ==
  \/ \E c \in Crypters \cup {None} : LoadCassette(c)
  \/ Crash \/ Remove
  \/ SetCrypter
  \/ \E a \in Recorders : AddTrack(a)
  \/ \E a \in Actors : Save(a)

Spec == Init /\ [][Next]_vars

\* A save goes on to its end; sync.RWMutex hands the lock to whoever waits for
\* it long enough, hence strong fairness there.
FairSpec ==
  /\ Spec
  /\ \A a \in Actors : WF_vars(Save(a)) /\ SF_vars(Lock(a))

(***************************************************************************)
(* Properties                                                              *)
(***************************************************************************)

TypeOK ==
  /\ file.layer \in {"no file", "truncated", "json", "gzip", "V1", "V2"}
  /\ store \in Stores /\ up \in BOOLEAN /\ failed \in BOOLEAN /\ secret \in BOOLEAN
  /\ tracks \in Seq(TrackIds)
  /\ crypter \in Crypters \cup {None}
  /\ mutex \in Actors \cup {None}
  /\ pc \in [Actors -> {"Idle", "Lock", "WantEncrypted", "Encrypt", "KindLen",
                        "Kind", "Write", "Writing"}]
  /\ \A a \in Actors : /\ work[a].recording \in TrackIds \cup {None}
                       /\ work[a].crypter \in Crypters \cup {None}
                       /\ work[a].kindLen \in Nat
  /\ acked \subseteq TrackIds

\* Two saves never overlap: nobody writes, or has marshalled what it is about
\* to write, without the mutex, and a goroutine that is done does not keep it.
OneSaveAtATime ==
  \A a \in Actors : (mutex = a) <=> (pc[a] \notin {"Idle", "Lock"})

\* Whoever is at rest finds the cassette on file: once every save has ended,
\* and the last did not fail, the file loads with the crypter in use and gives
\* back the tracks in memory, although saves and changes of cipher overlapped,
\* failed, or changed the crypter and then failed; and the command line prints
\* them if that is its cipher and the cassette is on the file system.
FileLoads ==
  (up /\ ~failed /\ \A a \in Actors : pc[a] = "Idle") =>
    /\ Loads(file, crypter) /\ Loaded(file, crypter) = tracks
    /\ crypter # None /\ crypter.kind = "aesgcm" /\ Exists(LocalFile) =>
         decryptCassette(LocalFile, crypter.key) = Json(tracks)

\* The tracks a complete file was made from.
Content(data) ==
  LET inner == IF HasMarker(data) THEN data.data ELSE data
  IN GunzipFilter(inner).tracks

\* A recording whose client was answered is on the file for good, over
\* changes of cipher, failed saves and restarts, as long as the file is whole.
AcknowledgedKept ==
  file \notin {NoFile, Truncated} =>
    acked \subseteq {Content(file)[i] : i \in DOMAIN Content(file)}

\* Encryption is never taken off a cassette: "you cannot use SetCipher to remove
\* encryption and decrypt the cassette", and neither do a restart without a
\* crypter, a failed save or a save that overlaps the first SetCipher.
EncryptedStaysEncrypted == secret => HasMarker(file) \/ file = Truncated

\* The header of an encrypted file is what Decrypt expects: the length of the
\* cipher's name, then the name of the cipher that made the ciphertext.
HeaderNamesCipher == file.layer = "V2" => HeaderFits(file, file.crypter)

\* A save that has begun ends, and gives the mutex back.
SavesEnd == \A a \in Actors : pc[a] # "Idle" ~> pc[a] = "Idle"
=============================================================================
