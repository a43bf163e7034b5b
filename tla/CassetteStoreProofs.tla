------------------------ MODULE CassetteStoreProofs ------------------------
(***************************************************************************)
(* Proofs about the cassette file of module CassetteStore, for any number  *)
(* of goroutines, tracks, ciphers and lives of the process.                *)
(*                                                                         *)
(* The argument: what is written is always made from the tracks in memory, *)
(* because the mutex keeps them from changing between marshalling and      *)
(* writing; once a file is encrypted there is a crypter in every process   *)
(* that could load it, and a crypter is never taken away; and a change of  *)
(* cipher is followed by a save of its own, which finds the crypter it     *)
(* set or is followed by another.                                          *)
(***************************************************************************)
EXTENDS CassetteStore, SequenceTheorems, TLAPS

Plain(trks) == GzipFilter(Json(trks))

OldSealed(c, data) == [layer |-> "V1", crypter |-> c, data |-> data]

Kinds == {c.kind : c \in Crypters}

\* Everything a complete file made from these tracks may be.
Holding(trks) ==
  {Plain(trks)}
    \cup {EncryptedV2(c, len, kind, Plain(trks)) :
            c \in Crypters, len \in 0..255, kind \in Kinds}
    \cup {OldSealed(c, Plain(trks)) : c \in Crypters}

OnCassette == {tracks[i] : i \in DOMAIN tracks}

\* The local variables of a save, for some set of data.
Work(Data) == [recording : TrackIds \cup {None}, data : Data,
               crypter : Crypters \cup {None}, kindLen : Nat]

WorkOK == work \in [Actors -> Work({work[a].data : a \in Actors})]

FileInv ==
  file \in {NoFile, Truncated} \/
    (Content(file) \in Seq(TrackIds) /\ file \in Holding(Content(file)))

\* Nobody is in the middle of anything when no process runs.
DownInv ==
  ~up => (tracks = <<>> /\ crypter = None /\ \A a \in Actors : pc[a] = "Idle")

\* What a save is about to write is made from the tracks in memory.
DataInv(a) ==
  /\ pc[a] \in {"WantEncrypted", "Encrypt", "KindLen", "Kind"} =>
       work[a].data = Plain(tracks)
  /\ pc[a] \in {"Write", "Writing"} => work[a].data \in Holding(tracks)

\* What it encrypts with was set, and stays set.
CrypterInv(a) ==
  /\ pc[a] \in {"Encrypt", "KindLen", "Kind"} => crypter # None
  /\ pc[a] \in {"KindLen", "Kind"} => work[a].crypter \in Crypters
  /\ pc[a] = "Kind" => work[a].kindLen \in 0..255
  /\ (pc[a] \in {"Write", "Writing"} /\ HasMarker(work[a].data)) => crypter # None

RecordingInv(a) ==
  /\ pc[a] = "Idle" => work[a].recording = None
  /\ work[a].recording \in OnCassette \cup {None}

StoreInv ==
  /\ TypeOK /\ WorkOK /\ FileInv /\ DownInv /\ OneSaveAtATime
  /\ \A a \in Actors : DataInv(a) /\ CrypterInv(a) /\ RecordingInv(a)

\* What was acknowledged is on the cassette that is open, and on every file
\* that is whole.
AckedInv ==
  /\ file = NoFile => acked = {}
  /\ up => acked \subseteq OnCassette
  /\ AcknowledgedKept

\* Where something was encrypted, nothing is about to be written as it is.
SecretInv ==
  /\ EncryptedStaysEncrypted
  /\ HasMarker(file) => secret
  /\ (secret /\ up) => crypter # None
  /\ secret => \A a \in Actors : pc[a] \in {"Write", "Writing"} => HasMarker(work[a].data)

\* Data from which a crypter, and the command line, get these tracks.
ReadsBack(data, c, trks) ==
  /\ Loads(data, c) /\ Loaded(data, c) = trks
  /\ c # None /\ c.kind = "aesgcm" /\ Exists(data) =>
       decryptCassette(data, c.key) = Json(trks)

\* A save that is as far as this will leave such a file.
OnTrack(a) ==
  \/ pc[a] \in {"Lock", "WantEncrypted", "Encrypt"}
  \/ /\ pc[a] \in {"KindLen", "Kind"}
     /\ work[a].crypter = crypter /\ Seals(crypter)
     /\ pc[a] = "Kind" => /\ work[a].kindLen = KindLength[crypter.kind]
                          /\ LengthsFit(a)
  \/ pc[a] \in {"Write", "Writing"} /\ ReadsBack(work[a].data, crypter, tracks)

\* A save that is not has been overtaken by SetCrypter, which saves next.
LoadInv ==
  /\ (up /\ ~failed) => ReadsBack(file, crypter, tracks) \/ \E a \in Actors : OnTrack(a)
  /\ \A a \in Actors : pc[a] \in {"Idle", "Lock"} \/ OnTrack(a) \/ pc[Panel] = "Lock"

(***************************************************************************)
(* What can be read from data                                              *)
(***************************************************************************)

\* A file that is not encrypted is read as it is, with or without a crypter.
LEMMA PlainRead ==
  ASSUME NEW trks
  PROVE  /\ Plain(trks).layer \in {"json", "gzip"}
         /\ ~HasMarker(Plain(trks))
         /\ GunzipFilter(Plain(trks)) = Json(trks)
         /\ Json(trks).layer = "json" /\ Json(trks).tracks = trks
BY LongPlayAssumption DEF Plain, GzipFilter, Gzip, Json, HasMarker, GunzipFilter

\* The marker is there or it is not.
LEMMA HasMarkerBool == ASSUME NEW data PROVE HasMarker(data) \in BOOLEAN
BY DEF HasMarker

\* What cannot be decrypted does not load.
LEMMA BrokenRead == GunzipFilter(Broken).layer # "json"
BY DEF GunzipFilter, Broken

\* An encrypted file has the marker and wraps a plain one.
LEMMA SealedRead ==
  ASSUME NEW trks, NEW data \in Holding(trks)
  PROVE  \/ data = Plain(trks)
         \/ /\ HasMarker(data) /\ data.layer \in {"V1", "V2"}
            /\ data.data = Plain(trks)
<1>1. CASE data = Plain(trks)
  BY <1>1
<1>2. ASSUME NEW c \in Crypters, NEW len \in 0..255, NEW kind \in Kinds,
             data = EncryptedV2(c, len, kind, Plain(trks))
      PROVE  data.layer = "V2" /\ data.data = Plain(trks)
  BY <1>2 DEF EncryptedV2
<1>3. ASSUME NEW c \in Crypters, data = OldSealed(c, Plain(trks))
      PROVE  data.layer = "V1" /\ data.data = Plain(trks)
  BY <1>3 DEF OldSealed
<1>4. \/ data = Plain(trks)
      \/ \E c \in Crypters, len \in 0..255, kind \in Kinds :
           data = EncryptedV2(c, len, kind, Plain(trks))
      \/ \E c \in Crypters : data = OldSealed(c, Plain(trks))
  BY DEF Holding
<1>5. \/ data = Plain(trks)
      \/ data.layer \in {"V1", "V2"} /\ data.data = Plain(trks)
  BY <1>2, <1>3, <1>4
<1> QED
  BY <1>5 DEF HasMarker

\* Complete data gives back its tracks or does not load; without a crypter,
\* encrypted data does not.
LEMMA HoldingRead ==
  ASSUME NEW trks, NEW data \in Holding(trks)
  PROVE  /\ data.layer \in {"json", "gzip", "V1", "V2"}
         /\ Exists(data) /\ data # Truncated
         /\ Content(data) = trks
         /\ \A c : Decode(data, c).layer = "json" => Decode(data, c) = Json(trks)
         /\ ~HasMarker(data) => \A c : Decode(data, c) = Json(trks)
         /\ HasMarker(data) => Decode(data, None).layer # "json"
<1>1. data.layer \in {"json", "gzip", "V1", "V2"}
  BY PlainRead, SealedRead
<1>2. Exists(data) /\ data # Truncated
  <2>1. NoFile.layer = "no file" /\ Truncated.layer = "truncated"
    BY DEF NoFile, Truncated
  <2> QED
    BY <1>1, <2>1 DEF Exists
<1>3. CASE data = Plain(trks)
  <2>1. \A c : Decode(data, c) = Json(trks)
    BY <1>3, PlainRead DEF Decode, DecryptionFilter
  <2>2. Content(data) = trks
    BY <1>3, PlainRead DEF Content
  <2> QED
    BY <1>1, <1>2, <1>3, <2>1, <2>2, PlainRead
<1>4. CASE HasMarker(data) /\ data.data = Plain(trks)
  <2>1. Content(data) = trks
    BY <1>4, PlainRead DEF Content
  <2>2. \A c : DecryptionFilter(data, c) \in {Plain(trks), Broken}
    BY <1>4 DEF DecryptionFilter, Decrypt
  <2>3. \A c : Decode(data, c) = Json(trks) \/ Decode(data, c).layer # "json"
    BY <2>2, PlainRead, BrokenRead DEF Decode
  <2>4. Decode(data, None).layer # "json"
    BY <1>4, BrokenRead DEF Decode, DecryptionFilter
  <2> QED
    BY <1>1, <1>2, <1>4, <2>1, <2>3, <2>4
<1> QED
  BY <1>3, <1>4, SealedRead

\* A file whose header says what its crypter is opens with that crypter and
\* with any that has the same cipher and key.
LEMMA WhatWasSealedOpens ==
  ASSUME NEW trks, NEW c \in Crypters, Seals(c),
         ~TooLong(KindLength[c.kind]), ~TooLong(c.nonce), NEW d,
         d # None, d.kind = c.kind, d.key = c.key
  PROVE  Decode(EncryptedV2(c, KindLength[c.kind], c.kind, Plain(trks)), d) = Json(trks)
<1> DEFINE data == EncryptedV2(c, KindLength[c.kind], c.kind, Plain(trks))
<1>1. /\ KindLength[c.kind] \in 0..255 /\ c.nonce \in 0..255
  BY CryptersAssumption DEF TooLong
<1>2. Byte(KindLength[c.kind]) = KindLength[c.kind] /\ Byte(c.nonce) = c.nonce
  BY <1>1 DEF Byte
<1>3. /\ data.layer = "V2" /\ data.crypter = c
      /\ data.kindLen = KindLength[c.kind] /\ data.kind = c.kind
      /\ data.nonceLen = c.nonce /\ data.data = Plain(trks)
  BY <1>2 DEF EncryptedV2
<1> HIDE DEF data
<1>4. HasMarker(data) /\ HeaderFits(data, d) /\ Opens(data, d)
  BY <1>3 DEF HasMarker, HeaderFits, Opens, Seals
<1>5. DecryptionFilter(data, d) = Plain(trks)
  BY <1>3, <1>4 DEF DecryptionFilter, Decrypt
<1>6. Decode(data, d) = Json(trks)
  BY <1>5, PlainRead DEF Decode
<1> QED
  BY <1>6 DEF data

(***************************************************************************)
(* Steps                                                                   *)
(***************************************************************************)

\* A goroutine changes its own local variables.
LEMMA WorkChanged ==
  ASSUME WorkOK, NEW a \in Actors, NEW Data, NEW w \in Work(Data),
         work' = [work EXCEPT ![a] = w]
  PROVE  /\ WorkOK'
         /\ work'[a] = w
         /\ \A b \in Actors \ {a} : work'[b] = work[b]
<1>1. /\ work' \in [Actors -> {work'[b] : b \in Actors}]
      /\ work'[a] = w
      /\ \A b \in Actors \ {a} : work'[b] = work[b]
  BY DEF WorkOK
<1>2. \A b \in Actors : work'[b] \in Work({work'[c].data : c \in Actors})
  BY <1>1 DEF WorkOK, Work
<1>3. work' \in [Actors -> Work({work'[c].data : c \in Actors})]
  BY <1>1, <1>2
<1> QED
  BY <1>1, <1>3 DEF WorkOK

\* One field of them, at a time.
LEMMA WorkFields ==
  ASSUME WorkOK, NEW a \in Actors
  PROVE  /\ \A d : [work[a] EXCEPT !.data = d]
                     = [recording |-> work[a].recording, data |-> d,
                        crypter |-> work[a].crypter, kindLen |-> work[a].kindLen]
         /\ \A c : [work[a] EXCEPT !.crypter = c]
                     = [recording |-> work[a].recording, data |-> work[a].data,
                        crypter |-> c, kindLen |-> work[a].kindLen]
         /\ \A n : [work[a] EXCEPT !.kindLen = n]
                     = [recording |-> work[a].recording, data |-> work[a].data,
                        crypter |-> work[a].crypter, kindLen |-> n]
         /\ \A t : [work[a] EXCEPT !.recording = t]
                     = [recording |-> t, data |-> work[a].data,
                        crypter |-> work[a].crypter, kindLen |-> work[a].kindLen]
         /\ work[a].recording \in TrackIds \cup {None}
         /\ work[a].crypter \in Crypters \cup {None}
         /\ work[a].kindLen \in Nat
BY DEF WorkOK, Work

\* What a step of save() does to the local variables of its goroutine.
LEMMA SaveWork ==
  ASSUME StoreInv, NEW a \in Actors, Save(a)
  PROVE  /\ WorkOK'
         /\ \A b \in Actors \ {a} : pc'[b] = pc[b] /\ work'[b] = work[b]
         /\ UNCHANGED <<tracks, up, crypter, store>>
         /\ Written(a) \/ SaveFails(a) => work'[a] = NoWork
         /\ ~Written(a) /\ ~SaveFails(a) => work'[a].recording = work[a].recording
         /\ Lock(a) => work'[a].data = Plain(tracks)
         /\ WantEncrypted(a) \/ Truncate(a) \/ Upload(a) => work' = work
         /\ Encrypt(a) => /\ work'[a].data = work[a].data
                          /\ work'[a].crypter = crypter
         /\ KindLen(a) => /\ work'[a].data = work[a].data
                          /\ work'[a].crypter = work[a].crypter
                          /\ work'[a].kindLen = KindLength[crypter.kind]
         /\ Kind(a) => work'[a].data = EncryptedV2(work[a].crypter, work[a].kindLen,
                                                   crypter.kind, work[a].data)
<1>t. /\ WorkOK /\ crypter \in Crypters \cup {None}
      /\ pc \in [Actors -> {"Idle", "Lock", "WantEncrypted", "Encrypt",
                            "KindLen", "Kind", "Write", "Writing"}]
      /\ work \in [Actors -> Work({work[b].data : b \in Actors})]
  BY DEF StoreInv, TypeOK, WorkOK
<1>1. \A b \in Actors \ {a} : pc'[b] = pc[b]
  BY <1>t DEF Save, Lock, WantEncrypted, Encrypt, KindLen, Kind, Truncate,
     Upload, Written, SaveFails, Goto
<1>2. UNCHANGED <<tracks, up, crypter, store>>
  BY DEF Save, Lock, WantEncrypted, Encrypt, KindLen, Kind, Truncate,
     Upload, Written, SaveFails, Unlock
<1>3. CASE Written(a) \/ SaveFails(a)
  <2>1. NoWork \in Work({None})
    BY DEF NoWork, Work
  <2>2. work' = [work EXCEPT ![a] = NoWork]
    BY <1>3 DEF Written, SaveFails, Unlock
  <2>3. WorkOK' /\ work'[a] = NoWork /\ \A b \in Actors \ {a} : work'[b] = work[b]
    BY <1>t, <2>1, <2>2, WorkChanged
  <2>4. pc[a] \in {"Encrypt", "KindLen", "Write", "Writing"} /\ pc'[a] = "Idle"
    BY <1>3, <1>t DEF Written, SaveFails, Goto
  <2> QED
    BY <1>1, <1>2, <1>3, <2>3, <2>4, <1>t DEF Lock, WantEncrypted, Truncate, Upload,
       Encrypt, KindLen, Kind, Goto
<1>4. CASE Lock(a)
  <2> DEFINE w == [work[a] EXCEPT !.data = Plain(tracks)]
  <2>1. work' = [work EXCEPT ![a] = w]
    BY <1>4 DEF Lock, Plain
  <2>2. w \in Work({Plain(tracks)}) /\ w.data = Plain(tracks) /\ w.recording = work[a].recording
    BY <1>t, WorkFields DEF Work
  <2> HIDE DEF w
  <2>3. WorkOK' /\ work'[a] = w /\ \A b \in Actors \ {a} : work'[b] = work[b]
    BY <1>t, <2>1, <2>2, WorkChanged
  <2>4. pc[a] = "Lock" /\ pc'[a] = "WantEncrypted"
    BY <1>4, <1>t DEF Lock, Goto
  <2> QED
    BY <1>1, <1>2, <1>4, <2>2, <2>3, <2>4, <1>t DEF Lock, WantEncrypted, Truncate, Upload,
       Encrypt, KindLen, Kind, Written, SaveFails, Goto
<1>5. CASE WantEncrypted(a) \/ Truncate(a) \/ Upload(a)
  <2>1. work' = work
    BY <1>5 DEF WantEncrypted, Truncate, Upload
  <2>2. WorkOK'
    BY <2>1, <1>t DEF WorkOK
  <2>3. pc[a] \in {"WantEncrypted", "Write"} /\ pc'[a] \in {"Encrypt", "Write", "Writing"}
    BY <1>5, <1>t DEF WantEncrypted, Truncate, Upload, Goto
  <2> QED
    BY <1>1, <1>2, <1>5, <2>1, <2>2, <2>3, <1>t DEF Lock, Encrypt, KindLen, Kind,
       Written, SaveFails, Goto
<1>6. CASE Encrypt(a)
  <2> DEFINE w == [work[a] EXCEPT !.crypter = crypter]
  <2>1. work' = [work EXCEPT ![a] = w]
    BY <1>6 DEF Encrypt
  <2>2. /\ w \in Work({work[a].data}) /\ w.data = work[a].data
        /\ w.crypter = crypter /\ w.recording = work[a].recording
    BY <1>t, WorkFields DEF Work
  <2> HIDE DEF w
  <2>3. WorkOK' /\ work'[a] = w /\ \A b \in Actors \ {a} : work'[b] = work[b]
    BY <1>t, <2>1, <2>2, WorkChanged
  <2>4. pc[a] = "Encrypt" /\ pc'[a] = "KindLen"
    BY <1>6, <1>t DEF Encrypt, Goto
  <2> QED
    BY <1>1, <1>2, <1>6, <2>2, <2>3, <2>4, <1>t DEF Lock, WantEncrypted, Truncate, Upload,
       KindLen, Kind, Written, SaveFails, Goto
<1>7. CASE KindLen(a)
  <2> DEFINE w == [work[a] EXCEPT !.kindLen = KindLength[crypter.kind]]
  <2>1. work' = [work EXCEPT ![a] = w]
    BY <1>7 DEF KindLen
  <2>2. pc[a] = "KindLen" /\ pc'[a] = "Kind"
    BY <1>7, <1>t DEF KindLen, Goto
  <2>3. KindLength[crypter.kind] \in Nat
    BY <1>t, <2>2, CryptersAssumption DEF StoreInv, CrypterInv
  <2>4. /\ w \in Work({work[a].data}) /\ w.data = work[a].data
        /\ w.crypter = work[a].crypter /\ w.recording = work[a].recording
        /\ w.kindLen = KindLength[crypter.kind]
    BY <1>t, <2>3, WorkFields DEF Work
  <2> HIDE DEF w
  <2>5. WorkOK' /\ work'[a] = w /\ \A b \in Actors \ {a} : work'[b] = work[b]
    BY <1>t, <2>1, <2>4, WorkChanged
  <2> QED
    BY <1>1, <1>2, <1>7, <2>2, <2>4, <2>5, <1>t DEF Lock, WantEncrypted, Truncate, Upload,
       Encrypt, Kind, Written, SaveFails, Goto
<1>8. CASE Kind(a)
  <2> DEFINE data == EncryptedV2(work[a].crypter, work[a].kindLen, crypter.kind, work[a].data)
             w == [work[a] EXCEPT !.data = data]
  <2>1. work' = [work EXCEPT ![a] = w]
    BY <1>8 DEF Kind
  <2>2. pc[a] = "Kind" /\ pc'[a] = "Write"
    BY <1>8, <1>t DEF Kind, Goto
  <2>3. w \in Work({data}) /\ w.data = data /\ w.recording = work[a].recording
    BY <1>t, WorkFields DEF Work
  <2> HIDE DEF w
  <2>4. WorkOK' /\ work'[a] = w /\ \A b \in Actors \ {a} : work'[b] = work[b]
    BY <1>t, <2>1, <2>3, WorkChanged
  <2> QED
    BY <1>1, <1>2, <1>8, <2>2, <2>3, <2>4, <1>t DEF Lock, WantEncrypted, Truncate, Upload,
       Encrypt, KindLen, Written, SaveFails, Goto
<1> QED
  BY <1>3, <1>4, <1>5, <1>6, <1>7, <1>8 DEF Save

\* A process begins with the tracks of a file that it can read, or with none
\* where there is no file.
LEMMA LoadStep ==
  ASSUME StoreInv, NEW c \in Crypters \cup {None}, LoadCassette(c)
  PROVE  /\ tracks' \in Seq(TrackIds)
         /\ \/ file = NoFile /\ tracks' = <<>>
            \/ /\ file \in Holding(tracks') /\ Content(file) = tracks'
               /\ Decode(file, c) = Json(tracks')
<1>1. PICK answer \in NotExist :
        IF IsNew(answer) THEN tracks' = <<>>
        ELSE answer = "exists" /\ Loads(file, c) /\ tracks' = Loaded(file, c)
  BY DEF LoadCassette
<1>2. CASE IsNew(answer)
  <2>1. file = NoFile
    BY <1>2 DEF IsNew, NotExist, Exists
  <2> QED
    BY <1>1, <1>2, <2>1, EmptySeq
<1>3. CASE ~IsNew(answer)
  <2>1. Exists(file) /\ Loads(file, c) /\ tracks' = Loaded(file, c)
    BY <1>1, <1>3 DEF NotExist, Exists
  <2>2. Decode(file, c).layer = "json" /\ tracks' = Decode(file, c).tracks
    BY <2>1 DEF Loads, Loaded
  <2>3. file # Truncated
    <3>1. Truncated.layer = "truncated" /\ ~HasMarker(Truncated)
      BY DEF Truncated, HasMarker
    <3>2. Decode(Truncated, c) \in {Truncated, Broken}
      BY <3>1 DEF Decode, DecryptionFilter, GunzipFilter
    <3>3. Broken.layer = "broken"
      BY DEF Broken
    <3> QED
      BY <2>2, <3>1, <3>2, <3>3
  <2>4. Content(file) \in Seq(TrackIds) /\ file \in Holding(Content(file))
    BY <2>1, <2>3 DEF StoreInv, FileInv, Exists
  <2>5. Decode(file, c) = Json(Content(file))
    BY <2>2, <2>4, HoldingRead
  <2> QED
    BY <2>2, <2>4, <2>5, PlainRead
<1> QED
  BY <1>2, <1>3

\* What a step of save() does to the file: nothing, empties it, or replaces it
\* with what it has made of the tracks in memory.
LEMMA SaveFile ==
  ASSUME StoreInv, NEW a \in Actors, Save(a)
  PROVE  /\ \/ file' = file
            \/ Truncate(a) /\ file' = Truncated
            \/ /\ pc[a] = "Writing" /\ file' = work[a].data /\ file' \in Holding(tracks)
               /\ Written(a) \/ SaveFails(a)
         /\ Written(a) => pc[a] = "Writing" /\ file' = work[a].data
         /\ \/ secret' = secret /\ ~Written(a) /\ ~SaveFails(a)
            \/ secret' = (secret \/ HasMarker(file'))
         /\ acked' = acked \/ (Written(a) /\ acked' = acked \cup ({work[a].recording} \ {None}))
<1>1. pc[a] = "Writing" => work[a].data \in Holding(tracks)
  BY DEF StoreInv, DataInv
<1>2. CASE Written(a)
  BY <1>1, <1>2 DEF Written, Goto
<1>3. CASE SaveFails(a)
  <2>1. file' = file \/ (pc[a] = "Writing" /\ file' = work[a].data)
    BY <1>3 DEF SaveFails
  <2>2. pc'[a] = "Idle" /\ (Written(a) => pc[a] = "Writing" /\ file' = work[a].data)
    BY <1>3 DEF SaveFails, Goto, Written, StoreInv, TypeOK
  <2>3. acked' = acked /\ secret' = (secret \/ HasMarker(file'))
    BY <1>3 DEF SaveFails
  <2> QED
    BY <1>1, <1>3, <2>1, <2>2, <2>3
<1>4. CASE ~Written(a) /\ ~SaveFails(a)
  <2>1. Truncate(a) => file' = Truncated
    BY DEF Truncate
  <2>2. ~Truncate(a) => file' = file
    BY <1>4 DEF Save, Lock, WantEncrypted, Encrypt, KindLen, Kind, Upload
  <2>3. file' = file \/ (Truncate(a) /\ file' = Truncated)
    BY <2>1, <2>2
  <2>4. acked' = acked /\ secret' = secret
    BY <1>4 DEF Save, Lock, WantEncrypted, Encrypt, KindLen, Kind, Truncate, Upload, history
  <2> QED
    BY <1>4, <2>3, <2>4
<1> QED
  BY <1>2, <1>3, <1>4

(***************************************************************************)
(* What holds between any two steps                                        *)
(***************************************************************************)

\* A new, empty or old file, and no process.
LEMMA StoreInit == Init => StoreInv
<1> SUFFICES ASSUME Init PROVE StoreInv
  OBVIOUS
<1>1. <<>> \in Seq(TrackIds)
  BY EmptySeq
<1>2. file = NoFile \/ (file \in Holding(<<>>) /\ Content(file) = <<>>)
  <2>1. CASE file = NoFile
    BY <2>1
  <2>2. CASE file = Plain(<<>>)
    <3>1. file \in Holding(<<>>)
      BY <2>2 DEF Holding
    <3> QED
      BY <3>1, HoldingRead
  <2>3. ASSUME NEW c \in Crypters, file = OldSealed(c, Plain(<<>>))
        PROVE  file \in Holding(<<>>) /\ Content(file) = <<>>
    <3>1. file \in Holding(<<>>)
      BY <2>3 DEF Holding
    <3> QED
      BY <3>1, HoldingRead
  <2> QED
    BY <2>1, <2>2, <2>3 DEF Init, Plain, OldSealed
<1>3. FileInv
  BY <1>1, <1>2 DEF FileInv
<1>4. file.layer \in {"no file", "truncated", "json", "gzip", "V1", "V2"}
  <2>1. NoFile.layer = "no file"
    BY DEF NoFile
  <2> QED
    BY <1>2, <2>1, HoldingRead
<1>5. work \in [Actors -> {NoWork}] /\ NoWork \in Work({None})
  BY DEF Init, NoWork, Work
<1>6. WorkOK
  BY <1>5 DEF WorkOK, Work
<1>7. TypeOK
  BY <1>1, <1>4, <1>5, HasMarkerBool DEF Init, TypeOK, NoWork
<1> QED
  BY <1>3, <1>6, <1>7, ActorsAssumption DEF Init, StoreInv, DownInv, OneSaveAtATime,
     DataInv, CrypterInv, RecordingInv, NoWork, Actors

\* LoadCassette, in a process that has just begun.
LEMMA StoreLoad ==
  ASSUME StoreInv, NEW c \in Crypters \cup {None}, LoadCassette(c)
  PROVE  StoreInv'
<1>1. /\ tracks' \in Seq(TrackIds) /\ up' = TRUE /\ crypter' = c /\ failed' = FALSE
      /\ UNCHANGED <<store, file, mutex, pc, work, acked, secret>>
  BY LoadStep DEF LoadCassette
<1>2. \A a \in Actors : pc[a] = "Idle" /\ work[a].recording = None
  BY DEF StoreInv, DownInv, RecordingInv, LoadCassette
<1>3. TypeOK'
  BY <1>1 DEF StoreInv, TypeOK
<1>4. WorkOK' /\ FileInv' /\ DownInv' /\ OneSaveAtATime'
  BY <1>1 DEF StoreInv, WorkOK, FileInv, DownInv, OneSaveAtATime, Content
<1>5. \A a \in Actors : (DataInv(a) /\ CrypterInv(a) /\ RecordingInv(a))'
  BY <1>1, <1>2 DEF DataInv, CrypterInv, RecordingInv
<1> QED
  BY <1>3, <1>4, <1>5 DEF StoreInv

\* Where the process dies the file is as it was or as a save would have it.
LEMMA CrashFile ==
  ASSUME StoreInv, Crash
  PROVE  \/ file' = file
         \/ \E a \in Actors : /\ pc[a] = "Writing" /\ file' = work[a].data
                              /\ file' \in Holding(tracks)
BY DEF StoreInv, DataInv, Crash

\* A crash.
LEMMA StoreCrash == ASSUME StoreInv, Crash PROVE StoreInv'
<1>1. /\ up' = FALSE /\ tracks' = <<>> /\ crypter' = None /\ mutex' = None
      /\ pc' = [a \in Actors |-> "Idle"] /\ work' = [a \in Actors |-> NoWork]
      /\ failed' = FALSE /\ store' = store /\ acked' = acked
      /\ secret' = (secret \/ HasMarker(file'))
  BY DEF Crash
<1>2. /\ tracks \in Seq(TrackIds)
      /\ file' = file \/ (file' \in Holding(tracks) /\ Content(file') = tracks)
  BY CrashFile, HoldingRead DEF StoreInv, TypeOK
<1>3. FileInv'
  BY <1>2 DEF StoreInv, FileInv, Content
<1>4. file'.layer \in {"no file", "truncated", "json", "gzip", "V1", "V2"}
  BY <1>2, HoldingRead DEF StoreInv, TypeOK
<1>5. NoWork \in Work({None}) /\ NoWork.recording = None /\ NoWork.data = None
  BY DEF NoWork, Work
<1>6. WorkOK'
  <2>1. work' \in [Actors -> {NoWork}]
    BY <1>1
  <2> QED
    BY <1>5, <2>1 DEF WorkOK, Work
<1>7. secret' \in BOOLEAN /\ <<>> \in Seq(TrackIds)
  BY <1>1, HasMarkerBool, EmptySeq
<1>8. TypeOK'
  BY <1>1, <1>4, <1>5, <1>7 DEF StoreInv, TypeOK, NoWork
<1>9. DownInv' /\ OneSaveAtATime'
  BY <1>1, ActorsAssumption DEF DownInv, OneSaveAtATime, Actors
<1>10. \A a \in Actors : (DataInv(a) /\ CrypterInv(a) /\ RecordingInv(a))'
  BY <1>1, <1>5 DEF DataInv, CrypterInv, RecordingInv
<1> QED
  BY <1>3, <1>6, <1>8, <1>9, <1>10 DEF StoreInv

\* The file is deleted.
LEMMA StoreRemove == ASSUME StoreInv, Remove PROVE StoreInv'
<1>1. /\ file' = NoFile /\ acked' = {} /\ secret' = FALSE
      /\ UNCHANGED <<store, up, tracks, crypter, mutex, pc, work, failed>>
  BY DEF Remove
<1>2. file'.layer = "no file"
  BY <1>1 DEF NoFile
<1>3. TypeOK'
  BY <1>1, <1>2 DEF StoreInv, TypeOK
<1>4. WorkOK' /\ FileInv' /\ DownInv' /\ OneSaveAtATime'
  BY <1>1 DEF StoreInv, WorkOK, FileInv, DownInv, OneSaveAtATime
<1>5. \A a \in Actors : (DataInv(a) /\ CrypterInv(a) /\ RecordingInv(a))'
  BY <1>1 DEF StoreInv, DataInv, CrypterInv, RecordingInv, OnCassette
<1> QED
  BY <1>3, <1>4, <1>5 DEF StoreInv

\* The cipher changes; a save that is under way keeps the data it has.
LEMMA StoreSet == ASSUME StoreInv, SetCrypter PROVE StoreInv'
<1>1. /\ pc[Panel] = "Idle" /\ pc' = [pc EXCEPT ![Panel] = "Lock"]
      /\ crypter' \in Crypters /\ up
      /\ UNCHANGED <<store, file, up, tracks, mutex, work, acked, failed, secret>>
  BY DEF SetCrypter, Goto, history
<1>2. /\ pc' \in [Actors -> {"Idle", "Lock", "WantEncrypted", "Encrypt", "KindLen",
                             "Kind", "Write", "Writing"}]
      /\ \A a \in Actors : pc'[a] = pc[a] \/ (pc[a] = "Idle" /\ pc'[a] = "Lock")
  BY <1>1 DEF StoreInv, TypeOK
<1>3. TypeOK'
  BY <1>1, <1>2 DEF StoreInv, TypeOK
<1>4. WorkOK' /\ FileInv' /\ DownInv'
  BY <1>1 DEF StoreInv, WorkOK, FileInv, DownInv, Content
<1>5. OneSaveAtATime'
  BY <1>1, <1>2 DEF StoreInv, OneSaveAtATime
<1>6. \A a \in Actors : (DataInv(a) /\ CrypterInv(a) /\ RecordingInv(a))'
  BY <1>1, <1>2, CryptersAssumption DEF StoreInv, DataInv, CrypterInv, RecordingInv, OnCassette
<1> QED
  BY <1>3, <1>4, <1>5, <1>6 DEF StoreInv

\* A track is appended while nobody saves, so to nobody's marshalled tracks.
LEMMA AddWork ==
  ASSUME StoreInv, NEW a \in Recorders, AddTrack(a)
  PROVE  /\ up /\ mutex = None /\ a \in Actors
         /\ pc[a] = "Idle" /\ pc' = [pc EXCEPT ![a] = "Lock"]
         /\ \A b \in Actors : pc[b] \in {"Idle", "Lock"} /\ pc'[b] \in {"Idle", "Lock"}
         /\ tracks' \in Seq(TrackIds) /\ OnCassette \subseteq OnCassette'
         /\ WorkOK' /\ work'[a].recording \in OnCassette'
         /\ \A b \in Actors \ {a} : work'[b] = work[b] /\ pc'[b] = pc[b]
         /\ UNCHANGED <<store, file, up, crypter, mutex, acked, failed, secret>>
<1> DEFINE id == CHOOSE t \in Fresh : TRUE
           w == [work[a] EXCEPT !.recording = id]
<1>1. /\ up /\ mutex = None /\ a \in Actors /\ Fresh # {}
      /\ pc[a] = "Idle" /\ pc' = [pc EXCEPT ![a] = "Lock"]
      /\ UNCHANGED <<store, file, up, crypter, mutex, acked, failed, secret>>
  BY DEF AddTrack, Goto, Actors, history
<1>2. tracks' = Append(tracks, id) /\ work' = [work EXCEPT ![a] = w]
  BY DEF AddTrack
<1>3. id \in TrackIds
  BY <1>1 DEF Fresh
<1>4. w \in Work({work[a].data}) /\ w.recording = id
  BY <1>1, <1>3, WorkFields DEF Work, StoreInv
<1> HIDE DEF id, w
<1>5. WorkOK' /\ work'[a] = w /\ \A b \in Actors \ {a} : work'[b] = work[b]
  BY <1>1, <1>2, <1>4, WorkChanged DEF StoreInv
<1>6. /\ tracks \in Seq(TrackIds) /\ tracks' \in Seq(TrackIds)
      /\ Len(tracks') = Len(tracks) + 1 /\ tracks'[Len(tracks) + 1] = id
      /\ \A i \in 1..Len(tracks) : tracks'[i] = tracks[i]
  <2>1. tracks \in Seq(TrackIds)
    BY DEF StoreInv, TypeOK
  <2>2. /\ Append(tracks, id) \in Seq(TrackIds)
        /\ Len(Append(tracks, id)) = Len(tracks) + 1
        /\ Append(tracks, id)[Len(tracks) + 1] = id
        /\ \A i \in 1..Len(tracks) : Append(tracks, id)[i] = tracks[i]
    BY <1>3, <2>1, AppendProperties
  <2> QED
    BY <1>2, <2>1, <2>2
<1>7. DOMAIN tracks = 1..Len(tracks) /\ DOMAIN tracks' = 1..(Len(tracks) + 1)
      /\ Len(tracks) \in Nat
  BY <1>6, LenProperties
<1>8. OnCassette \subseteq OnCassette' /\ id \in OnCassette'
  BY <1>6, <1>7 DEF OnCassette
<1>9. \A b \in Actors : pc[b] \in {"Idle", "Lock"}
  BY <1>1, ActorsAssumption DEF StoreInv, OneSaveAtATime, Actors
<1>10. /\ \A b \in Actors : pc'[b] \in {"Idle", "Lock"}
       /\ \A b \in Actors \ {a} : pc'[b] = pc[b]
  BY <1>1, <1>9 DEF StoreInv, TypeOK
<1> QED
  BY <1>1, <1>4, <1>5, <1>6, <1>8, <1>9, <1>10

\* AddTrackToCassette's first half.
LEMMA StoreAdd == ASSUME StoreInv, NEW a \in Recorders, AddTrack(a) PROVE StoreInv'
<1>1. pc' \in [Actors -> {"Idle", "Lock", "WantEncrypted", "Encrypt", "KindLen",
                          "Kind", "Write", "Writing"}]
  BY AddWork DEF StoreInv, TypeOK
<1>2. TypeOK'
  BY <1>1, AddWork DEF StoreInv, TypeOK, WorkOK, Work
<1>3. WorkOK' /\ FileInv' /\ DownInv'
  BY AddWork DEF StoreInv, FileInv, DownInv, Content
<1>4. OneSaveAtATime'
  BY AddWork, ActorsAssumption DEF OneSaveAtATime, Actors
<1>5. \A b \in Actors : (DataInv(b) /\ CrypterInv(b))'
  BY AddWork DEF DataInv, CrypterInv
<1>6. \A b \in Actors : RecordingInv(b)'
  <2>1. RecordingInv(a)'
    BY AddWork DEF RecordingInv, StoreInv, TypeOK
  <2>2. \A b \in Actors \ {a} : RecordingInv(b)'
    BY AddWork DEF RecordingInv, StoreInv
  <2> QED
    BY <2>1, <2>2
<1> QED
  BY <1>2, <1>3, <1>5, <1>4, <1>6 DEF StoreInv

\* Where a step of save() leads, and who has the mutex then.
LEMMA SaveControl ==
  ASSUME StoreInv, NEW a \in Actors, Save(a)
  PROVE  /\ pc[a] # "Idle" /\ up
         /\ pc' \in [Actors -> {"Idle", "Lock", "WantEncrypted", "Encrypt", "KindLen",
                                "Kind", "Write", "Writing"}]
         /\ OneSaveAtATime' /\ mutex' \in Actors \cup {None}
         /\ \A b \in Actors \ {a} : pc[b] \in {"Idle", "Lock"} /\ pc'[b] = pc[b]
         /\ Lock(a) => pc[a] = "Lock" /\ pc'[a] = "WantEncrypted"
         /\ WantEncrypted(a) => /\ pc[a] = "WantEncrypted"
                                /\ pc'[a] = IF Encrypts THEN "Encrypt" ELSE "Write"
         /\ Encrypt(a) => pc[a] = "Encrypt" /\ pc'[a] = "KindLen" /\ Seals(crypter)
         /\ KindLen(a) => pc[a] = "KindLen" /\ pc'[a] = "Kind" /\ LengthsFit(a)
         /\ Kind(a) => pc[a] = "Kind" /\ pc'[a] = "Write"
         /\ Truncate(a) \/ Upload(a) => pc[a] = "Write" /\ pc'[a] = "Writing"
         /\ Written(a) \/ SaveFails(a) =>
              pc[a] \in {"Encrypt", "KindLen", "Write", "Writing"} /\ pc'[a] = "Idle"
         /\ SaveFails(a) => failed'
<1>t. /\ pc \in [Actors -> {"Idle", "Lock", "WantEncrypted", "Encrypt", "KindLen",
                            "Kind", "Write", "Writing"}]
      /\ mutex \in Actors \cup {None} /\ OneSaveAtATime /\ DownInv
      /\ None \notin Actors
  BY ActorsAssumption DEF StoreInv, TypeOK, Actors
<1>1. /\ Lock(a) => /\ pc[a] = "Lock" /\ pc' = [pc EXCEPT ![a] = "WantEncrypted"]
                    /\ mutex = None /\ mutex' = a
      /\ WantEncrypted(a) =>
           /\ pc[a] = "WantEncrypted" /\ mutex' = mutex
           /\ pc' = [pc EXCEPT ![a] = IF Encrypts THEN "Encrypt" ELSE "Write"]
      /\ Encrypt(a) => /\ pc[a] = "Encrypt" /\ pc' = [pc EXCEPT ![a] = "KindLen"]
                       /\ mutex' = mutex /\ Seals(crypter)
      /\ KindLen(a) => /\ pc[a] = "KindLen" /\ pc' = [pc EXCEPT ![a] = "Kind"]
                       /\ mutex' = mutex /\ LengthsFit(a)
      /\ Kind(a) => /\ pc[a] = "Kind" /\ pc' = [pc EXCEPT ![a] = "Write"]
                    /\ mutex' = mutex
      /\ Truncate(a) \/ Upload(a) => /\ pc[a] = "Write" /\ mutex' = mutex
                                     /\ pc' = [pc EXCEPT ![a] = "Writing"]
  BY DEF Lock, WantEncrypted, Encrypt, KindLen, Kind, Truncate, Upload, Goto
<1>2. Written(a) \/ SaveFails(a) =>
        /\ pc[a] \in {"Encrypt", "KindLen", "Write", "Writing"}
        /\ pc' = [pc EXCEPT ![a] = "Idle"] /\ mutex' = None
  BY DEF Written, SaveFails, Unlock, Goto
<1>3. SaveFails(a) => failed'
  BY DEF SaveFails
<1>4. /\ pc[a] # "Idle" /\ pc' = [pc EXCEPT ![a] = pc'[a]]
      /\ pc'[a] \in {"Idle", "WantEncrypted", "Encrypt", "KindLen", "Kind",
                     "Write", "Writing"}
      /\ \/ mutex = None /\ pc[a] = "Lock" /\ mutex' = a /\ pc'[a] # "Idle"
         \/ pc[a] \notin {"Idle", "Lock"} /\ mutex' = mutex /\ pc'[a] # "Idle"
         \/ pc[a] \notin {"Idle", "Lock"} /\ mutex' = None /\ pc'[a] = "Idle"
  BY <1>t, <1>1, <1>2 DEF Save
<1>5. up
  BY <1>t, <1>4 DEF DownInv
<1>6. /\ mutex' \in Actors \cup {None}
      /\ pc' \in [Actors -> {"Idle", "Lock", "WantEncrypted", "Encrypt", "KindLen",
                             "Kind", "Write", "Writing"}]
  BY <1>t, <1>4
<1>7. \A b \in Actors \ {a} : pc[b] \in {"Idle", "Lock"} /\ pc'[b] = pc[b]
  BY <1>t, <1>4 DEF OneSaveAtATime
<1>8. OneSaveAtATime'
  BY <1>t, <1>4, <1>7 DEF OneSaveAtATime
<1> QED
  BY <1>t, <1>1, <1>2, <1>3, <1>4, <1>5, <1>6, <1>7, <1>8

\* save(), step by step.
LEMMA StoreSave == ASSUME StoreInv, NEW a \in Actors, Save(a) PROVE StoreInv'
<1>t. TypeOK /\ WorkOK /\ tracks \in Seq(TrackIds)
  BY DEF StoreInv, TypeOK
<1>f. /\ \/ file' = file \/ file' = Truncated
         \/ file' \in Holding(tracks) /\ Content(file') = tracks
      /\ secret' \in BOOLEAN /\ acked' \subseteq TrackIds
  <2>1. \/ file' = file \/ file' = Truncated
        \/ file' \in Holding(tracks) /\ Content(file') = tracks
    <3>1. \/ file' = file \/ file' = Truncated
          \/ file' \in Holding(tracks)
      BY SaveFile
    <3>2. ASSUME file' \in Holding(tracks) PROVE Content(file') = tracks
      BY <3>2, HoldingRead
    <3> QED
      BY <3>1, <3>2
  <2>2. secret' \in BOOLEAN
    BY <1>t, SaveFile, HasMarkerBool DEF TypeOK
  <2>3. acked' \subseteq TrackIds
    <3>1. acked \subseteq TrackIds /\ work[a].recording \in TrackIds \cup {None}
      BY <1>t DEF TypeOK, WorkOK
    <3>2. acked' = acked \/ acked' = acked \cup ({work[a].recording} \ {None})
      BY SaveFile
    <3> QED
      BY <3>1, <3>2
  <2> QED
    BY <2>1, <2>2, <2>3
<1>1. TypeOK'
  <2>1. file'.layer \in {"no file", "truncated", "json", "gzip", "V1", "V2"}
    <3>1. Truncated.layer = "truncated"
      BY DEF Truncated
    <3> QED
      BY <1>f, <1>t, <3>1, HoldingRead DEF TypeOK
  <2>2. failed' \in BOOLEAN
    BY <1>t DEF TypeOK, Save, Lock, WantEncrypted, Encrypt, KindLen, Kind, Truncate,
       Upload, Written, SaveFails, history
  <2>3. UNCHANGED <<store, up, tracks, crypter>> /\ WorkOK'
    BY SaveWork
  <2> QED
    BY <1>t, <1>f, <2>1, <2>2, <2>3, SaveControl DEF TypeOK, WorkOK, Work
<1>2. WorkOK' /\ DownInv' /\ OneSaveAtATime'
  BY SaveWork, SaveControl DEF DownInv
<1>3. FileInv'
  BY <1>t, <1>f DEF StoreInv, FileInv, Content
<1>4. ASSUME NEW b \in Actors \ {a}
      PROVE  (DataInv(b) /\ CrypterInv(b) /\ RecordingInv(b))'
  BY SaveWork, SaveControl DEF StoreInv, DataInv, CrypterInv, RecordingInv, OnCassette
<1>5. /\ DataInv(a) /\ CrypterInv(a) /\ RecordingInv(a)
      /\ crypter' = crypter /\ tracks' = tracks /\ OnCassette' = OnCassette
  BY SaveWork DEF StoreInv, OnCassette
<1>6. (DataInv(a) /\ CrypterInv(a) /\ RecordingInv(a))'
  <2>1. CASE Written(a) \/ SaveFails(a)
    <3>1. pc'[a] = "Idle" /\ work'[a] = NoWork /\ NoWork.recording = None
      BY <2>1, SaveWork, SaveControl DEF NoWork
    <3> QED
      BY <3>1 DEF DataInv, CrypterInv, RecordingInv
  <2>2. CASE Lock(a)
    <3>1. pc'[a] = "WantEncrypted" /\ work'[a].data = Plain(tracks)
      BY <2>2, SaveWork, SaveControl
    <3>2. work'[a].recording \in OnCassette \cup {None}
      BY <1>5, <2>2, SaveWork, SaveControl DEF RecordingInv
    <3> QED
      BY <1>5, <3>1, <3>2 DEF DataInv, CrypterInv, RecordingInv
  <2>3. CASE WantEncrypted(a)
    <3>1. /\ pc[a] = "WantEncrypted" /\ work' = work
          /\ pc'[a] = IF crypter # None THEN "Encrypt" ELSE "Write"
      BY <2>3, SaveWork, SaveControl DEF Encrypts
    <3>2. work[a].data = Plain(tracks) /\ Plain(tracks) \in Holding(tracks)
      BY <1>5, <3>1 DEF DataInv, Holding
    <3>3. ~HasMarker(work'[a].data)
      BY <3>1, <3>2, PlainRead
    <3> QED
      BY <1>5, <3>1, <3>2, <3>3 DEF DataInv, CrypterInv, RecordingInv
  <2>4. CASE Encrypt(a)
    <3>1. /\ pc[a] = "Encrypt" /\ pc'[a] = "KindLen" /\ work'[a].data = work[a].data
          /\ work'[a].crypter = crypter /\ work'[a].recording = work[a].recording
      BY <2>4, SaveWork, SaveControl
    <3>2. crypter \in Crypters
      BY <1>5, <1>t, <3>1 DEF CrypterInv, TypeOK
    <3> QED
      BY <1>5, <3>1, <3>2, CryptersAssumption DEF DataInv, CrypterInv, RecordingInv
  <2>5. CASE KindLen(a)
    <3>1. /\ pc[a] = "KindLen" /\ pc'[a] = "Kind" /\ work'[a].data = work[a].data
          /\ work'[a].crypter = work[a].crypter /\ work'[a].recording = work[a].recording
          /\ work'[a].kindLen = KindLength[crypter.kind] /\ LengthsFit(a)
      BY <2>5, SaveWork, SaveControl
    <3>2. crypter \in Crypters
      BY <1>5, <1>t, <3>1 DEF CrypterInv, TypeOK
    <3>3. KindLength[crypter.kind] \in 0..255
      BY <3>1, <3>2, CryptersAssumption DEF LengthsFit, TooLong
    <3> QED
      BY <1>5, <3>1, <3>2, <3>3 DEF DataInv, CrypterInv, RecordingInv
  <2>6. CASE Kind(a)
    <3>1. /\ pc[a] = "Kind" /\ pc'[a] = "Write"
          /\ work'[a].data = EncryptedV2(work[a].crypter, work[a].kindLen,
                                         crypter.kind, work[a].data)
          /\ work'[a].recording = work[a].recording
      BY <2>6, SaveWork, SaveControl
    <3>2. /\ crypter \in Crypters /\ work[a].crypter \in Crypters
          /\ work[a].kindLen \in 0..255 /\ work[a].data = Plain(tracks)
      BY <1>5, <1>t, <3>1 DEF CrypterInv, DataInv, TypeOK
    <3>3. work'[a].data \in Holding(tracks)
      <4>1. \A c \in Crypters, len \in 0..255, kind \in Kinds :
              EncryptedV2(c, len, kind, Plain(tracks)) \in Holding(tracks)
        BY DEF Holding
      <4>2. crypter.kind \in Kinds
        BY <3>2 DEF Kinds
      <4> QED
        BY <3>1, <3>2, <4>1, <4>2
    <3> QED
      BY <1>5, <3>1, <3>2, <3>3, CryptersAssumption DEF DataInv, CrypterInv, RecordingInv
  <2>7. CASE Truncate(a) \/ Upload(a)
    <3>1. pc[a] = "Write" /\ pc'[a] = "Writing" /\ work' = work
      BY <2>7, SaveWork, SaveControl
    <3> QED
      BY <1>5, <3>1 DEF DataInv, CrypterInv, RecordingInv
  <2> QED
    BY <2>1, <2>2, <2>3, <2>4, <2>5, <2>6, <2>7 DEF Save
<1> QED
  BY <1>1, <1>2, <1>3, <1>4, <1>6 DEF StoreInv

\* Nothing happens.
LEMMA StoreStutter == ASSUME StoreInv, UNCHANGED vars PROVE StoreInv'
<1>1. UNCHANGED <<store, file, up, tracks, crypter, mutex, pc, work, acked, failed, secret>>
  BY DEF vars, history
<1>2. TypeOK' /\ WorkOK' /\ FileInv' /\ DownInv' /\ OneSaveAtATime'
  <2>1. TypeOK' /\ WorkOK'
    BY <1>1 DEF StoreInv, TypeOK, WorkOK
  <2>2. FileInv' /\ DownInv' /\ OneSaveAtATime'
    BY <1>1 DEF StoreInv, FileInv, DownInv, OneSaveAtATime, Content
  <2> QED
    BY <2>1, <2>2
<1>3. \A a \in Actors : (DataInv(a) /\ CrypterInv(a) /\ RecordingInv(a))'
  BY <1>1 DEF StoreInv, DataInv, CrypterInv, RecordingInv, OnCassette
<1> QED
  BY <1>2, <1>3 DEF StoreInv

\* In every state: the file is whole, empty or absent; a save holds the mutex and
\* writes what is in memory; what it encrypts with is a crypter.
THEOREM StoreInvariance == Spec => []StoreInv
<1>1. StoreInv /\ [Next]_vars => StoreInv'
  BY StoreLoad, StoreCrash, StoreRemove, StoreSet, StoreAdd, StoreSave, StoreStutter DEF Next
<1> QED
  BY <1>1, StoreInit, PTL DEF Spec

\* Every variable keeps its type.
THEOREM TypeCorrect == Spec => []TypeOK
<1>1. StoreInv => TypeOK
  BY DEF StoreInv
<1> QED
  BY <1>1, StoreInvariance, PTL

\* The mutex does its work: from marshalling to writing a save is alone, and an
\* error path gives the mutex back as success does.
THEOREM SavesExclude == Spec => []OneSaveAtATime
<1>1. StoreInv => OneSaveAtATime
  BY DEF StoreInv
<1> QED
  BY <1>1, StoreInvariance, PTL

(***************************************************************************)
(* What was acknowledged, and what was encrypted                           *)
(***************************************************************************)

\* An acknowledged recording is on the cassette and on a whole file, after any
\* step.
LEMMA AckedStep ==
  ASSUME StoreInv, AckedInv, [Next]_vars
  PROVE  AckedInv'
<1>n. /\ NoFile \notin Holding(tracks) /\ NoFile.layer = "no file"
      /\ FileInv /\ NoFile # Truncated
  BY HoldingRead DEF StoreInv, NoFile, Truncated, Exists
<1>1. ASSUME NEW c \in Crypters \cup {None}, LoadCassette(c)
      PROVE  AckedInv'
  <2>1. up' /\ UNCHANGED <<file, acked>>
    BY <1>1 DEF LoadCassette
  <2>2. CASE file = NoFile
    BY <2>1, <2>2 DEF AckedInv, AcknowledgedKept
  <2>3. CASE file # NoFile
    <3>1. file \in Holding(tracks') /\ Content(file) = tracks'
      BY <1>1, <2>3, LoadStep
    <3>2. acked \subseteq OnCassette'
      BY <2>3, <3>1, HoldingRead DEF AckedInv, AcknowledgedKept, OnCassette
    <3> QED
      BY <2>1, <2>3, <3>2 DEF AckedInv, AcknowledgedKept, Content
  <2> QED
    BY <2>2, <2>3
<1>2. CASE Crash
  <2>1. up' = FALSE /\ acked' = acked
    BY <1>2 DEF Crash
  <2>2. CASE file' = file
    BY <2>1, <2>2 DEF AckedInv, AcknowledgedKept, Content
  <2>3. CASE file' \in Holding(tracks)
    <3>1. Content(file') = tracks /\ file' # NoFile
      BY <1>n, <2>3, HoldingRead
    <3>2. acked \subseteq OnCassette
      BY <1>2 DEF AckedInv, Crash
    <3>3. AcknowledgedKept'
      BY <2>1, <3>1, <3>2 DEF AcknowledgedKept, OnCassette, Content
    <3> QED
      BY <2>1, <3>1, <3>3 DEF AckedInv
  <2> QED
    BY <1>2, <2>2, <2>3, CrashFile
<1>3. CASE Remove
  BY <1>3 DEF Remove, AckedInv, AcknowledgedKept
<1>4. CASE SetCrypter \/ UNCHANGED vars
  BY <1>4 DEF SetCrypter, vars, history, AckedInv, AcknowledgedKept, Content, OnCassette
<1>5. ASSUME NEW a \in Recorders, AddTrack(a)
      PROVE  AckedInv'
  BY <1>5, AddWork DEF AckedInv, AcknowledgedKept, Content
<1>6. ASSUME NEW a \in Actors, Save(a)
      PROVE  AckedInv'
  <2>1. up /\ UNCHANGED <<up, tracks, OnCassette>>
    BY <1>6, SaveControl, SaveWork DEF OnCassette
  <2>2. acked' \subseteq OnCassette
    BY <1>6, <2>1, SaveFile DEF AckedInv, StoreInv, RecordingInv
  <2>3. file' \in Holding(tracks) \/ ((file' = file \/ file' = Truncated) /\ acked' = acked)
    <3>1. CASE Written(a)
      BY <1>6, <3>1, SaveFile DEF StoreInv, DataInv
    <3>2. CASE ~Written(a)
      BY <1>6, <3>2, SaveFile
    <3> QED
      BY <3>1, <3>2
  <2>4. CASE file' \in Holding(tracks)
    <3>1. Content(file') = tracks /\ file' # NoFile
      BY <1>n, <2>4, HoldingRead
    <3>2. AcknowledgedKept'
      BY <2>2, <3>1 DEF AcknowledgedKept, OnCassette, Content
    <3> QED
      BY <2>1, <2>2, <3>1, <3>2 DEF AckedInv
  <2>5. CASE file' = file /\ acked' = acked
    BY <2>1, <2>5 DEF AckedInv, AcknowledgedKept, Content
  <2>6. CASE file' = Truncated /\ acked' = acked
    BY <1>n, <2>1, <2>2, <2>6 DEF AckedInv, AcknowledgedKept
  <2> QED
    BY <2>3, <2>4, <2>5, <2>6
<1> QED
  BY <1>1, <1>2, <1>3, <1>4, <1>5, <1>6 DEF Next

\* A recording that was reported as done is not lost, however many lives,
\* failures and changes of cipher follow.
THEOREM AcknowledgedAreKept == Spec => []AcknowledgedKept
<1>1. Init => AckedInv
  BY DEF Init, AckedInv, AcknowledgedKept
<1>2. AckedInv => AcknowledgedKept
  BY DEF AckedInv
<1>3. StoreInv /\ AckedInv /\ [Next]_vars => AckedInv'
  BY AckedStep
<1> QED
  BY <1>1, <1>2, <1>3, StoreInvariance, PTL DEF Spec

\* A file that is encrypted is replaced by encrypted ones only.
LEMMA SecretStep ==
  ASSUME StoreInv, SecretInv, [Next]_vars
  PROVE  SecretInv'
<1>n. ~HasMarker(NoFile) /\ ~HasMarker(Truncated) /\ NoFile # Truncated
  BY DEF NoFile, Truncated, HasMarker
<1>t. secret \in BOOLEAN
  BY DEF StoreInv, TypeOK
<1>1. ASSUME NEW c \in Crypters \cup {None}, LoadCassette(c)
      PROVE  SecretInv'
  <2>1. crypter' = c /\ UNCHANGED <<file, secret, pc, work>>
    BY <1>1 DEF LoadCassette
  <2>2. secret => c # None
    <3> SUFFICES ASSUME secret PROVE c # None
      OBVIOUS
    <3>1. file \in Holding(tracks') /\ Decode(file, c) = Json(tracks') /\ HasMarker(file)
      <4>1. file # NoFile
        BY <1>n DEF SecretInv, EncryptedStaysEncrypted
      <4>2. file \in Holding(tracks') /\ Decode(file, c) = Json(tracks')
        BY <1>1, <4>1, LoadStep
      <4>3. file # Truncated
        BY <4>2, HoldingRead
      <4> QED
        BY <4>2, <4>3 DEF SecretInv, EncryptedStaysEncrypted
    <3> QED
      BY <3>1, HoldingRead, PlainRead
  <2> QED
    BY <2>1, <2>2 DEF SecretInv, EncryptedStaysEncrypted, HasMarker
<1>2. CASE Crash
  <2>1. /\ up' = FALSE /\ secret' = (secret \/ HasMarker(file'))
        /\ \A a \in Actors : pc'[a] = "Idle"
    BY <1>2 DEF Crash
  <2>2. secret => HasMarker(file') \/ file' = Truncated
    BY <1>2, CrashFile DEF SecretInv, EncryptedStaysEncrypted, HasMarker
  <2> QED
    BY <2>1, <2>2 DEF SecretInv, EncryptedStaysEncrypted, HasMarker
<1>3. CASE Remove
  BY <1>3, <1>n DEF Remove, SecretInv, EncryptedStaysEncrypted, HasMarker
<1>4. CASE SetCrypter
  <2>1. /\ crypter' \in Crypters /\ UNCHANGED <<file, secret, work>>
        /\ \A a \in Actors : pc'[a] = pc[a] \/ pc'[a] = "Lock"
    BY <1>4 DEF SetCrypter, history, Goto, StoreInv, TypeOK
  <2> QED
    BY <2>1, CryptersAssumption DEF SecretInv, EncryptedStaysEncrypted, HasMarker
<1>5. CASE UNCHANGED vars
  BY <1>5 DEF vars, history, SecretInv, EncryptedStaysEncrypted, HasMarker
<1>6. ASSUME NEW a \in Recorders, AddTrack(a)
      PROVE  SecretInv'
  <2>1. /\ UNCHANGED <<file, secret, up, crypter>>
        /\ \A b \in Actors : pc'[b] \in {"Idle", "Lock"}
    BY <1>6, AddWork
  <2> QED
    BY <2>1 DEF SecretInv, EncryptedStaysEncrypted, HasMarker
<1>7. ASSUME NEW a \in Actors, Save(a)
      PROVE  SecretInv'
  <2>1. up /\ up' /\ crypter' = crypter
    BY <1>7, SaveControl, SaveWork
  <2>2. \A b \in Actors \ {a} : pc'[b] \in {"Idle", "Lock"}
    BY <1>7, SaveControl
  <2>3. pc[a] = "Writing" /\ file' = work[a].data =>
          /\ secret => HasMarker(file')
          /\ HasMarker(file') => crypter # None
    BY DEF SecretInv, StoreInv, CrypterInv, HasMarker
  <2>4. /\ secret' => HasMarker(file') \/ file' = Truncated
        /\ HasMarker(file') => secret'
        /\ secret' => secret \/ crypter # None
    BY <1>7, <1>n, <1>t, <2>1, <2>3, SaveFile DEF SecretInv, EncryptedStaysEncrypted, HasMarker
  <2>5. secret' => crypter # None
    BY <2>1, <2>4 DEF SecretInv
  <2>6. secret' /\ pc'[a] \in {"Write", "Writing"} => HasMarker(work'[a].data)
    <3> SUFFICES ASSUME secret', pc'[a] \in {"Write", "Writing"}
                 PROVE  HasMarker(work'[a].data)
      OBVIOUS
    <3>1. WantEncrypted(a) \/ Kind(a) \/ Truncate(a) \/ Upload(a)
      BY <1>7, SaveControl DEF Save
    <3>2. secret
      <4>1. ~Written(a) /\ ~SaveFails(a)
        BY <1>7, SaveControl
      <4>2. file' = file \/ file' = Truncated
        BY <1>7, <4>1, SaveFile
      <4> QED
        BY <1>7, <1>n, <4>2, SaveFile DEF SecretInv, HasMarker
    <3>3. CASE WantEncrypted(a)
      BY <1>7, <2>5, <3>3, SaveControl DEF Encrypts
    <3>4. CASE Kind(a)
      <4>1. \A c, n, k, d : EncryptedV2(c, n, k, d).layer = "V2"
        BY DEF EncryptedV2
      <4>2. work'[a].data.layer = "V2"
        BY <1>7, <3>4, <4>1, SaveWork
      <4> QED
        BY <4>2 DEF HasMarker
    <3>5. CASE Truncate(a) \/ Upload(a)
      BY <1>7, <3>2, <3>5, SaveWork, SaveControl DEF SecretInv, HasMarker
    <3> QED
      BY <3>1, <3>3, <3>4, <3>5
  <2> QED
    BY <2>1, <2>2, <2>4, <2>5, <2>6 DEF SecretInv, EncryptedStaysEncrypted
<1> QED
  BY <1>1, <1>2, <1>3, <1>4, <1>5, <1>6, <1>7 DEF Next

\* Nothing takes the encryption off a cassette.
THEOREM EncryptionStays == Spec => []EncryptedStaysEncrypted
<1>1. Init => SecretInv
  BY DEF Init, SecretInv, EncryptedStaysEncrypted
<1>2. SecretInv => EncryptedStaysEncrypted
  BY DEF SecretInv
<1>3. StoreInv /\ SecretInv /\ [Next]_vars => SecretInv'
  BY SecretStep
<1> QED
  BY <1>1, <1>2, <1>3, StoreInvariance, PTL DEF Spec

(***************************************************************************)
(* What the next process will read                                         *)
(***************************************************************************)

\* Complete data that decodes reads back; the command line, which builds its
\* crypter of the same cipher and key, reads what the crypter reads.
LEMMA DecodedReadsBack ==
  ASSUME NEW trks, NEW data \in Holding(trks), NEW c \in Crypters \cup {None},
         Decode(data, c) = Json(trks)
  PROVE  ReadsBack(data, c, trks)
<1>1. Loads(data, c) /\ Loaded(data, c) = trks
  BY HoldingRead, PlainRead DEF Loads, Loaded
<1>2. ASSUME c # None, c.kind = "aesgcm"
      PROVE  decryptCassette(data, c.key) = Json(trks)
  <2> DEFINE d == [kind |-> "aesgcm", key |-> c.key]
  <2>1. c \in Crypters /\ d = [kind |-> c.kind, key |-> c.key]
    BY <1>2
  <2>2. d # None /\ d.kind = c.kind /\ d.key = c.key
    BY <2>1, CryptersAssumption
  <2> HIDE DEF d
  <2>3. HeaderFits(data, d) <=> HeaderFits(data, c)
    BY <2>2 DEF HeaderFits
  <2>4. Opens(data, d) <=> Opens(data, c)
    BY <2>2 DEF Opens
  <2>5. Decrypt(data, d) = Decrypt(data, c)
    BY <2>3, <2>4 DEF Decrypt
  <2>6. Decode(data, d) = Decode(data, c)
    BY <1>2, <2>2, <2>5 DEF Decode, DecryptionFilter
  <2>7. DumpCassette(data, d) = Json(trks)
    BY <2>6, HoldingRead DEF DumpCassette
  <2> QED
    BY <2>7 DEF decryptCassette, d
<1> QED
  BY <1>1, <1>2 DEF ReadsBack

\* A save that is on track stays on it, leaves a file that reads back, or fails.
LEMMA OnTrackStep ==
  ASSUME StoreInv, NEW a \in Actors, Save(a), OnTrack(a)
  PROVE  \/ OnTrack(a)'
         \/ Written(a) /\ ReadsBack(file, crypter, tracks)'
         \/ SaveFails(a)
<1>t. /\ crypter' = crypter /\ tracks' = tracks /\ crypter \in Crypters \cup {None}
      /\ DataInv(a) /\ CrypterInv(a)
  BY SaveWork DEF StoreInv, TypeOK
<1>1. CASE Lock(a)
  BY <1>1, SaveControl DEF OnTrack
<1>2. CASE WantEncrypted(a)
  <2>1. CASE crypter # None
    BY <1>2, <2>1, SaveControl DEF OnTrack, Encrypts
  <2>2. CASE crypter = None
    <3>1. /\ pc[a] = "WantEncrypted" /\ pc'[a] = "Write" /\ work' = work
          /\ work[a].data = Plain(tracks)
      BY <1>2, <1>t, <2>2, SaveControl, SaveWork DEF Encrypts, DataInv
    <3>2. Plain(tracks) \in Holding(tracks) /\ Decode(Plain(tracks), crypter) = Json(tracks)
      BY PlainRead DEF Holding, Decode, DecryptionFilter
    <3>3. ReadsBack(work'[a].data, crypter', tracks')
      BY <1>t, <3>1, <3>2, DecodedReadsBack
    <3> QED
      BY <3>1, <3>3 DEF OnTrack
  <2> QED
    BY <2>1, <2>2
<1>3. CASE Encrypt(a)
  <2>1. pc'[a] = "KindLen" /\ work'[a].crypter = crypter' /\ Seals(crypter')
    BY <1>3, <1>t, SaveControl, SaveWork
  <2> QED
    BY <2>1 DEF OnTrack
<1>4. CASE KindLen(a)
  <2>1. /\ pc[a] = "KindLen" /\ pc'[a] = "Kind" /\ LengthsFit(a)
        /\ work'[a].crypter = work[a].crypter
        /\ work'[a].kindLen = KindLength[crypter.kind]
    BY <1>4, SaveControl, SaveWork
  <2>2. work[a].crypter = crypter /\ Seals(crypter)
    BY <2>1 DEF OnTrack
  <2>3. LengthsFit(a)'
    BY <1>t, <2>1 DEF LengthsFit
  <2> QED
    BY <1>t, <2>1, <2>2, <2>3 DEF OnTrack
<1>5. CASE Kind(a)
  <2>1. /\ pc[a] = "Kind" /\ pc'[a] = "Write"
        /\ work'[a].data = EncryptedV2(work[a].crypter, work[a].kindLen,
                                       crypter.kind, work[a].data)
    BY <1>5, SaveControl, SaveWork
  <2>2. /\ work[a].crypter = crypter /\ Seals(crypter)
        /\ work[a].kindLen = KindLength[crypter.kind] /\ LengthsFit(a)
        /\ work[a].data = Plain(tracks) /\ crypter \in Crypters /\ crypter # None
    BY <1>t, <2>1 DEF OnTrack, DataInv, CrypterInv
  <2>3. work'[a].data = EncryptedV2(crypter, KindLength[crypter.kind], crypter.kind, Plain(tracks))
    BY <2>1, <2>2
  <2>4. Decode(work'[a].data, crypter) = Json(tracks)
    BY <2>2, <2>3, WhatWasSealedOpens DEF LengthsFit
  <2>5. work'[a].data \in Holding(tracks)
    <3>1. KindLength[crypter.kind] \in 0..255
      BY <2>2, CryptersAssumption DEF LengthsFit, TooLong
    <3>2. \A c \in Crypters, len \in 0..255, kind \in Kinds :
            EncryptedV2(c, len, kind, Plain(tracks)) \in Holding(tracks)
      BY DEF Holding
    <3>3. crypter.kind \in Kinds
      BY <2>2 DEF Kinds
    <3> QED
      BY <2>2, <2>3, <3>1, <3>2, <3>3
  <2>6. ReadsBack(work'[a].data, crypter', tracks')
    BY <1>t, <2>4, <2>5, DecodedReadsBack
  <2> QED
    BY <2>1, <2>6 DEF OnTrack
<1>6. CASE Truncate(a) \/ Upload(a)
  <2>1. pc[a] = "Write" /\ pc'[a] = "Writing" /\ work' = work
    BY <1>6, SaveControl, SaveWork
  <2>2. ReadsBack(work[a].data, crypter, tracks)
    BY <2>1 DEF OnTrack
  <2>3. ReadsBack(work'[a].data, crypter', tracks')
    BY <1>t, <2>1, <2>2
  <2> QED
    BY <2>1, <2>3 DEF OnTrack
<1>7. CASE Written(a)
  <2>1. pc[a] = "Writing" /\ file' = work[a].data
    BY <1>7, SaveFile
  <2>2. ReadsBack(work[a].data, crypter, tracks)
    BY <2>1 DEF OnTrack
  <2>3. ReadsBack(file', crypter', tracks')
    BY <1>t, <2>1, <2>2
  <2> QED
    BY <1>7, <2>3
<1> QED
  BY <1>1, <1>2, <1>3, <1>4, <1>5, <1>6, <1>7 DEF Save

\* The file reads back or a save is on the way that will make it so.
LEMMA LoadInvStep ==
  ASSUME StoreInv, LoadInv, [Next]_vars
  PROVE  LoadInv'
<1>p. /\ Panel \in Actors
      /\ pc \in [Actors -> {"Idle", "Lock", "WantEncrypted", "Encrypt", "KindLen",
                            "Kind", "Write", "Writing"}]
  BY DEF Actors, StoreInv, TypeOK
<1>1. ASSUME NEW c \in Crypters \cup {None}, LoadCassette(c)
      PROVE  LoadInv'
  <2>1. /\ file' = file /\ crypter' = c
        /\ \A a \in Actors : pc'[a] = "Idle"
    BY <1>1 DEF LoadCassette, StoreInv, DownInv
  <2>2. ReadsBack(file, c, tracks')
    <3>1. CASE file = NoFile /\ tracks' = <<>>
      <4>1. ~Exists(file)
        BY <3>1 DEF Exists
      <4> QED
        BY <3>1, <4>1 DEF ReadsBack, Loads, Loaded
    <3>2. CASE file \in Holding(tracks') /\ Decode(file, c) = Json(tracks')
      BY <3>2, DecodedReadsBack
    <3> QED
      BY <1>1, <3>1, <3>2, LoadStep
  <2>3. ReadsBack(file', crypter', tracks')
    BY <2>1, <2>2
  <2> QED
    BY <2>1, <2>3 DEF LoadInv
<1>2. CASE Crash
  BY <1>2 DEF Crash, LoadInv
<1>3. CASE Remove
  <2>1. ~up' /\ \A a \in Actors : pc'[a] = "Idle"
    BY <1>3 DEF Remove, StoreInv, DownInv
  <2> QED
    BY <2>1 DEF LoadInv
<1>4. CASE SetCrypter
  <2>1. pc'[Panel] = "Lock"
    BY <1>4, <1>p DEF SetCrypter, Goto
  <2> QED
    BY <1>p, <2>1 DEF LoadInv, OnTrack
<1>5. ASSUME NEW a \in Recorders, AddTrack(a)
      PROVE  LoadInv'
  <2>1. /\ a \in Actors /\ pc'[a] = "Lock"
        /\ \A b \in Actors : pc'[b] \in {"Idle", "Lock"}
    BY <1>5, <1>p, AddWork
  <2> QED
    BY <2>1 DEF LoadInv, OnTrack
<1>6. ASSUME NEW a \in Actors, Save(a)
      PROVE  LoadInv'
  <2>1. /\ up /\ crypter' = crypter /\ tracks' = tracks /\ pc[a] # "Idle"
        /\ \A b \in Actors \ {a} : /\ pc[b] \in {"Idle", "Lock"} /\ pc'[b] = pc[b]
                                   /\ work'[b] = work[b]
    BY <1>6, SaveControl, SaveWork
  <2>2. \A b \in Actors \ {a} : OnTrack(b) => OnTrack(b)'
    BY <2>1 DEF OnTrack
  <2>3. \A b \in Actors \ {a} : pc'[b] \in {"Idle", "Lock"}
    BY <2>1
  <2>4. failed' = failed \/ SaveFails(a) \/ Written(a)
    BY <1>6 DEF Save, Lock, WantEncrypted, Encrypt, KindLen, Kind, Truncate, Upload,
       Written, history
  <2>5. CASE OnTrack(a)
    <3>1. \/ OnTrack(a)'
          \/ Written(a) /\ ReadsBack(file, crypter, tracks)'
          \/ SaveFails(a)
      BY <1>6, <2>5, OnTrackStep
    <3>2. Written(a) \/ SaveFails(a) => pc'[a] = "Idle"
      BY <1>6, SaveControl
    <3>3. SaveFails(a) => failed'
      BY <1>6, SaveControl
    <3> QED
      BY <2>3, <3>1, <3>2, <3>3 DEF LoadInv
  <2>6. CASE ~OnTrack(a)
    <3>1. pc[Panel] = "Lock" /\ a # Panel
      BY <2>1, <2>6 DEF LoadInv, OnTrack
    <3>2. pc'[Panel] = "Lock"
      BY <1>p, <2>1, <3>1
    <3> QED
      BY <1>p, <3>2 DEF LoadInv, OnTrack
  <2> QED
    BY <2>5, <2>6
<1>7. CASE UNCHANGED vars
  <2>1. /\ UNCHANGED <<file, up, tracks, crypter, pc, work, failed>>
    BY <1>7 DEF vars, history
  <2>2. \A a \in Actors : OnTrack(a) => OnTrack(a)'
    BY <2>1 DEF OnTrack, LengthsFit
  <2>3. ReadsBack(file, crypter, tracks) => ReadsBack(file', crypter', tracks')
    BY <2>1
  <2> QED
    BY <2>1, <2>2, <2>3 DEF LoadInv
<1> QED
  BY <1>1, <1>2, <1>3, <1>4, <1>5, <1>6, <1>7 DEF Next

\* Once every save has ended and the last did not fail, the file gives the tracks
\* back to the crypter in use and, if it is on the file system, to the command
\* line, whatever overlapped or failed before.
THEOREM QuietFileLoads == Spec => []FileLoads
<1>1. Init => LoadInv
  BY DEF Init, LoadInv
<1>2. LoadInv => FileLoads
  <2> SUFFICES ASSUME LoadInv, up, ~failed, \A a \in Actors : pc[a] = "Idle"
               PROVE  ReadsBack(file, crypter, tracks)
    <3>1. LocalFile = file \/ ~Exists(LocalFile)
      BY DEF LocalFile, Exists
    <3> QED
      BY <3>1 DEF FileLoads, ReadsBack
  <2>1. \A a \in Actors : ~OnTrack(a)
    BY DEF OnTrack
  <2> QED
    BY <2>1 DEF LoadInv
<1>3. StoreInv /\ LoadInv /\ [Next]_vars => LoadInv'
  BY LoadInvStep
<1> QED
  BY <1>1, <1>2, <1>3, StoreInvariance, PTL DEF Spec
=============================================================================
