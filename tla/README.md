# A formal model of govcr

govcr records HTTP exchanges on *cassettes* and plays them back. This directory
holds TLA+ modules that model the library, TLC configurations that check them on
small instances, and TLAPS proofs of what matters most for instances of any size.

    tlc -workers 2 -config MCVCRControl.cfg MCVCR      # model-check a run
    tlapm VCRProofs.tla                                # check the proofs of a module

Paths below are relative to the repository (`src/`). `PROJECT.json` maps every
definition to the lines it translates and lists runs, mutants, findings, hazards
and theorems.

## 1. The system

| component | state it keeps | operations | talks to |
|---|---|---|---|
| VCR transport (`vcrtransport.go`) | none of its own; local variables per call | `RoundTrip` | PCB, cassette, the real `http.RoundTripper` |
| PCB (`pcb.go`) | the settings: HTTP mode, read-only flag, request matchers, recording and replaying mutators | `SeekTrack`, `trackMatches`, `replayTrack`, `mutateTrack*`, setters | reads and marks tracks of the cassette, runs the user's matchers and mutators |
| Control panel (`controlpanel.go`, `vcrsettings.go`, `govcr.go`) | the assembled VCR | `NewVCR`, `With*`, `Set*`, `Add*`, `Clear*`, `SetCipher`, `Stats` | PCB, cassette |
| Cassette (`cassette/cassette.go`) | `Tracks`, `tracksLoaded`, `crypter`, one `trackSliceMutex` | `ReplayTrack`, `AddTrack`, `Track`, `NumberOfTracks`, `Stats`, `save`, `SetCrypter`, `LoadCassette` | store, crypter |
| Tracks (`cassette/track/`) | request, response or error, the unexported `replayed` flag | `NewTrack`, `ToHTTPResponse`, `SetReplayed`, transcoding | shared by pointer with whoever replays |
| Mutators (`cassette/track/mutator.go`) | none | predicates and mutators on a track | |
| Matchers (`matchers.go`) | none | predicates on a request and a track | |
| Encryption (`encryption/`) | key, nonce generator | `Encrypt`, `Decrypt`, nonces | |
| Storage (`fileio/`, `compression/`) | the cassette file | read, write, make directory | the file system or S3 |
| Command line (`cmd/govcr`) | none | decrypt a cassette to stdout | `DumpCassette` |

How they interact. A client's goroutine runs `RoundTrip` to its end: it looks
for a track that matches (`SeekTrack` asks the cassette for its length, then for
one track at a time, each under its own lock), replays it or goes to the real
transport, and records the answer (append under the lock, then write the whole
cassette under the lock again). The control panel may be used from any other
goroutine, and its settings have no lock. `Stats` and `SetCrypter` are two more
users of the cassette.

What is hard, and what makes each part correct:

- **Search and replay.** Finding a track and marking it are different critical
  sections, the length of the cassette is read once, and each track is tested as
  a copy. Correct: no index out of range, playback in the order of the cassette,
  no track skipped, only tracks that were loaded, a live call only where no track
  was left, each track once.
- **Settings.** The mode is read twice and the read-only flag after the live
  call. Correct: what a call does was allowed at some moment of it, and it goes live or
  is refused only when the cassette cannot answer.
- **Recording.** Append and save are separate and a save writes everyone's
  tracks; a save may fail. Correct: a client that has its answer has its track on
  file, the file is always a prefix of memory, and saved tracks are not rewritten.
- **Replaying mutators.** They work through a pointer into the cassette. Correct:
  they see their own call's request and leave the file alone; neither is true of
  two goroutines in all cases.
- **Statistics.** Four reads, one subtraction too many. Correct: never negative,
  nothing hidden, exact when nothing else happens.
- **The file.** A write empties the file first, or seems to fail and does not; the cipher can change during a
  save; a process can die anywhere; there are two header versions. Correct: what
  was acknowledged survives, what was encrypted stays encrypted, a quiet cassette
  loads, every save releases the mutex.
- **Lists of matchers and mutators.** They are slices that `Add*` appends to, in
  place where there is room, while calls walk them and the caller may hold the same
  array. Correct: a list holds what it was given, a walk is not disturbed.
- **Matching over time.** A request is copied at every stage and goes through JSON, which
  loses some of it, before it is compared again. Correct: exactly the recorded request
  matches, where the file can hold it.
- **Shared memory.** Copies are made in some places and not in others, of some parts
  of a message and not of others. Correct: mutators and matchers leave live traffic
  alone, clients leave the recording alone, bodies agree; only what was played is
  shared.
- **Mutators and transcoding.** Conditions nest, nil pointers lurk, a track goes
  through JSON and may be played and saved again and again. Correct: each mutator acts
  on the tracks it is for, and a client is played what was recorded.

`PROJECT.json` lists these hazards one by one, at the lines where they bite.

## 2. Modules

| module | models | |
|---|---|---|
| `VCR` | `RoundTrip`, `SeekTrack` and the cassette in memory, for any number of goroutines, with the control panel | core |
| `Tape` | what a VCR promises, with no locks, scans or copies | abstract |
| `VCRRefinement` | `VCR` implements `Tape` | composes both |
| `VCRStats` | `Cassette.Stats` beside the running `VCR` | extends `VCR` |
| `CassetteStore` | the cassette and its file, on disk or in S3, over the lives of a process | |
| `Sharing` | which memory the live traffic, the tracks and replayed responses share, and who writes to it | |
| `Settings` | the three lists of functions of a VCR as Go slices | |
| `RequestMatching` | a recorded request through copies, file and matchers | |
| `Transcoding` | an exchange to a track, to the file and back to a response or error | operators |
| `Mutators` | a track from the recording mutators through the file to the replaying ones | extends `Transcoding` |
| `VCRProofs` | theorems about `VCR`, its cassette file included | proofs |
| `VCRRefinementProofs` | `VCR` implements `Tape` | extends `VCRProofs`, `VCRRefinement` |
| `VCRStatsProofs`, `CassetteStoreProofs`, `SharingProofs`, `SettingsProofs`, `RequestMatchingProofs`, `MutatorsProofs` | theorems about the module each is named after | proofs |
| `MCVCR`, `MCVCRStats`, `MCCassetteStore`, `MCSharing`, `MCSettings`, `MCRequestMatching`, `MCMutators` | instances for TLC | |

A definition whose name has an underscore (`More_OffByOne`) is what a bug could
make of the one that follows it (`More`). No specification uses it: putting it in
the other's place shows that a property would notice.

### VCR

`tracks`, `tracksLoaded` and `pcb` are the fields of `Cassette` and
`PrintedCircuitBoard`; `stored` is the file; `pc` and `call` are the program
counter and the locals of each goroutine in `RoundTrip`. A step is one access to
shared state:

| code | actions |
|---|---|
| `RoundTrip` is entered | `Begin` |
| `SeekTrack` reads the mode, then the length | `SeekTrack`, `NumberOfTracks` |
| `trackMatches`: copy of the track, then test of the copy | `ReadTrack`, `Match` / `NoMatch` |
| `Cassette.ReplayTrack` | `ReplayTrack` |
| `replayTrack`: current request, mutators, `ToHTTPResponse` | `InjectRequest`, `MutateReplaying`, `ToHTTPResponse` |
| second read of the mode | `Refuse` / `GoLive` |
| the live call | `Transport` (an answer or an error) |
| the read-only flag | `SkipRecording` / `StartRecording` |
| new track and recording mutators | `MutateRecording` |
| `AddTrackToCassette` | `AddTrack`, then `Save` / `SaveFails` |
| control panel | `Set*` |

Data is abstracted to what the properties tell apart. A request is a value a
matcher can distinguish, a collection of matchers is the relation it accepts, a
collection of mutators is a function on tracks or responses, a response is one
header that differs from call to call and `Response.Request`. `Cassettes` are
the contents `LoadCassette` may return. `outcome` and `lived` are history
variables: what the last call of a goroutine returned, and the values that the mode,
the read-only flag and the matchers have had since it began.

A replaying mutator is a function of the response: the ones of the package that
are for replay write there. Mutators that change a track's request or error at
replay are not modelled.

### CassetteStore

`file` is what was done to the tracks, outermost last: JSON, gzip, V1 or V2
encryption; `Truncated` stands for every unfinished write. `save()` is cut at
each of the four places where it reads the crypter (`WantEncrypted`, `Encrypt`,
`KindLen`, `Kind`) and at the moments of the write; the mutex is explicit.
`SetCrypter` assigns the crypter outside it. `LoadCassette`, `Crash` and `Remove`
are the life of the process and of the file.

`store` is the back end. `os.WriteFile` empties the file and then fills it
(`Truncate`, `Written`); an S3 upload leaves the old object until it is complete
(`Upload`, `Written`). A write that fails, or that a crash overtakes, may have
been done in full all the same. Asked whether the file is there, a store answers
yes, no, or an error (`NotExist`), and only a no makes a new cassette (`IsNew`).

A crypter is a cipher, its key and the length of the nonces its generator makes. A
nonce of another length than the cipher takes makes `Seal` panic (`Seals`); a
ciphertext opens with the cipher and the key that made it (`Opens`). The lengths of
the name and of the nonce are kept, since the header has one byte for each.
`decryptCassette` is the command line: `DumpCassette` with AES-GCM, on the local file
system wherever the cassette is (`LocalFile`), since the command sets no store.

### Sharing

The heap has a *cell* for each thing a track refers to (headers and trailers of
its request and response, both bodies, the TLS state), and for the client's
request, the clone `RoundTrip` works with, the matchers' arguments,
`Response.Request` and the live response. A cell is named by whoever allocated it.
Its value is the set of *marks* left on it: who changed it since it was made
(matcher, recording or replaying mutator, a client), whether reading it was cut
short. A copy takes the marks along (`ToRequest`, `LoadCassette`), sharing takes the
name (`Transcoded` puts the live body's bytes into the track, `ToHTTPResponse`
hands out the track's maps). `file` has the marks of the last save.

Which track a call finds is left open: any that is loaded and not marked as
replayed. The search, the marking and `replayTrack` up to the mutators are other
steps than in `VCR`: what counts here is where each call may be reading and writing
(`Reads`, `Writes`) while another call is anywhere else.

### Settings

`arrays` is the memory behind all slices, a slice is `[array, len]`, and `Cap` is the
length of its array. `With*` are the options that build a VCR, `NewVCR` gives it the
strict matchers if it has none, `Add` is `Add*` of the control panel; `SetTo` is `Set*` with its arguments listed, `SetToMine`
with a slice the caller keeps (`mine...`), which becomes the list. `Walk` and
`CallNext` are the loops of `RequestMatchers.Match` and `Mutators.Mutate`: `range`
takes the slice once and reads an element at each turn.

### RequestMatching

`Record` is the miss that records, `Reload` a save and a load, `Ask` the search of a
later session, with the copies each makes (`CloneHTTPRequest`, `ToRequest`, `Clone`).
A URL is the place it leads to (all the fields `DefaultURLMatcher` compares but one),
its user information, and two fields that are not compared: `RawFragment`, and
`OmitHost`, which `cloneURL` drops. User information is a text with the number of times
it was escaped, which `cloneURL` does once more each time. `AsUTF8` is what
`encoding/json` makes of a text: it replaces bytes that are not UTF-8, in a path like
`/caf%E9` or in a header value. `Survives` says of a request that the file can hold it.

### Transcoding and Mutators

`Transcoding` has the conversions: `ToRequest`, `ToResponse` with `cloneTLS`,
`NewTrack` (an error becomes the name of its type and a message), what the file
keeps (`ThroughFile`: no `Response.Request`), `Injected`, `ToHTTPResponse` and `ToErr`.
A live response has the trailer that is announced and the one that comes behind the
body (`tail`), and reading the body puts the second in the place of the first
(`ReadBody`): `ToResponse` copies the trailer after the body. `ToErr` makes
an error anew by the name of its type, and `Message` is what its `Error()` says: the
live message behind a beginning that depends on the type. No body is played as an
empty one.

`Mutators` is the life of a track through them: made of a live exchange, given to
the recording mutators, saved and loaded, then played `MaxReplays` times, each time
with the request it is played for, to the replaying mutators and saved again. A
predicate is a kind with arguments and evaluates to true, false or a panic; a
mutator is an operation behind the predicates of its `On` conditions, outermost
first. `Mutate` is one turn of the loop, `Replay` begins the next one. All
predicates and mutators of the package are there.

## 3. Runs

| run | question | instance |
|---|---|---|
| `vcr_control` | do search and modes stay correct while settings change between any two steps, and does every call return? | 2 goroutines, 1 request, a cassette of 1 track that answers it, calls begun with fewer than 2 tracks |
| `vcr_shared` | do goroutines with fixed settings implement the shared tape, do recordings reach the file, and are the `Stats` a third reads meanwhile right? | 2 goroutines beside the reader of `Stats`, 2 requests, cassettes of 2 tracks (two answers to one request, an answer behind an error), `MaxTracks = 3` |
| `vcr_reuse` | finding 1 | a one-track cassette |
| `vcr_file` | finding 4 | replaying mutators, one goroutine |
| `vcr_torn` | finding 5 | one goroutine and the panel |
| `store` | is the file right over changes of cipher, failures, crashes and restarts, and does every save end? | 2 recorders, the panel, 2 tracks, disk and S3, two AES-GCM keys, a generator of the wrong nonces, a cipher whose name and nonces have 255 bytes and one whose name has 256, gzip |
| `store_torn` | finding 2 | 1 recorder, AES-GCM and ChaCha20 |
| `sharing` | who sees, records and races with what others change? | 2 calls at a time over any number of sessions, mutators that edit in place or not, `MaxTracks = 3` |
| `settings` | do lists hold what they were given, and are walks undisturbed? | the 3 lists, 2 functions, lists of up to 3, up to 3 arrays and the default's, callers' slices with and without room for one more |
| `matching` | are exactly the recorded requests matched? | headers of 2 keys and up to 2 values each, trailers of 1, 2 methods, 4 places, 3 bodies, with and without user information, `RawFragment` and `OmitHost`; values and places that are not UTF-8 and what JSON makes of them; strict and method-URL matchers |
| `matching_user` | finding 3 | 2 places, with user information, to escape or not |
| `mutators` | do conditions split and guard, does the README's recipe deliver, is the client played what was recorded? | 16 exchanges, every mutator alone under 10 kinds of condition at either time, every pair without, and the lists the properties name; 2 replays for 3 requests |

**Bounds.** `MaxTracks` stops new calls, not running ones: with two goroutines the
cassette still grows one beyond it. That a search ends however far the cassette grows,
which no bound can show, is in `SeekInBounds`, proved for any number of tracks: it goes
no further than the number of tracks it read once. Two goroutines are enough for every race
here, because each is between one goroutine that acts on something it read and
another that changes it; two tracks for the same request show order and double
use, a track with no response the recorded error. `vcr_control` needs no second
request, since settings decide there whether to search and not what is found. Mutators are
left out of the passing runs of `VCR`, where they only change which response is which:
the theorems hold with any, `vcr_file` and `Mutators` have them. What the instances cannot
show, more goroutines and longer cassettes, is what the proofs are for.

Two `TrackIds` and two lives of a process (no bound is set
on restarts: the state does not grow with them) cover a recording before and after
each crash or change of cipher; the crypters cover a change of key and of cipher, a
nonce that does not fit, and the limit of a byte on both sides. In `sharing` the
third track is what a played one, a recorded one and the one being recorded are
together; a later session may replay any of them. In `settings` (`MaxLength`,
`MaxArrays`, `SpareRoom`, `GrowthRoom`) two lists that share an array with room for
one element is the smallest case of aliasing, and lists of three let one of them be
overwritten and then outgrow the array; an array that grows by more is the same case
again. In `matching` two values are enough to differ in number, in order
and in multiplicity, and one text that is not UTF-8 beside what becomes of it shows both
that it is lost and what it is then confused with. In `mutators` two in a row show what one leaves to the next,
and two replays (`MaxReplays`) what one client leaves to the next.

**Symmetry** in goroutines is used in the safety runs of `VCR` and of `Sharing` and
for the refinement `SharedTape`, which has no fairness, and in functions and the two
lists of mutators in `settings`; not in `vcr_control` and `store`, which check
liveness.

**Deadlock** is checked wherever the control panel can always act, a process can
always be restarted or a cassette loaded anew. With fixed settings the runs of `VCR`
stop when `MaxTracks` is reached and every call has returned, unless `Stats` can still be
asked for, and `Mutators` stops when the last replay is over or a nil pointer was
followed; only those runs switch the check off.

**Fairness.** `VCR!FairSpec` is weak fairness of each goroutine's next step, from
the Go scheduler, from `sync.RWMutex`, which blocks new readers when a writer
waits, and from a transport that answers or fails. Nothing obliges clients to
send or the panel to act. `CassetteStore!FairSpec` is weak fairness of a save's
next step and strong fairness of `Lock`, since others hold the mutex again and
again while a goroutine waits for it. That a save's next step comes includes that the
store's write returns, with or without an error: an upload is given no time limit
(`fileio/aws.go:69`, `context.TODO()`), so this is S3's client's to keep, not govcr's.

## 4. Findings

Each has a run that violates a property the repository states.

1. **A track can be played twice** (`vcr_reuse`). `SeekTrack` tests a copy, and
   `ReplayTrack` marks later without testing again, "so it doesn't get re-used"
   (`cassette/cassette.go:152`). Two goroutines can both be played one track.
2. **A change of cipher during a save can write a header that does not describe its
   ciphertext** (`store_torn`). The torn file is overwritten by the save that
   `SetCrypter` itself starts, so it shows only if the process stops, or that save
   fails, before then: `FileLoads` still holds when all is quiet.
3. **A request with user information in its URL does not match its own track once
   that was loaded from a file** (`matching_user`): `url.Userinfo` has no exported
   field and is `{}` in JSON. Text that is not UTF-8 is lost in the same way: a request for
   `/caf%E9` or with a header value in Latin-1 does not find its track either, and
   `MatchesExactly` is about the requests that the file can hold (`Survives`).
4. **What a replaying mutator changes reaches the cassette file** (`vcr_file`).
   `replayTrack` returns a pointer into the cassette and the mutators write through
   it; the next recording saves all tracks. The README says of such a mutator "It
   does not change the cassette file." (`README.md:225`). `EditsStayOnThePlayed`
   bounds the damage: to tracks that were played. Without such mutators
   `SavedTracksKept` holds (`vcr_shared`).
5. **A request that is on the cassette can be refused** (`vcr_torn`). `SeekTrack` reads the
   mode and does not search in live-only mode; `RoundTrip` reads it again and refuses in
   offline mode, with the error "no track matched on cassette and offline mode is
   active" (`vcrtransport.go:50`). Switched from the one to the other in between, it
   refuses what it never looked for. Switched between normal and offline it never does
   (`MissIsJustified`).

Seen while modelling, with no run of their own; the modules translate what the code
does, and the properties are stated around them:

- `HasErr` and `HasNoErr` (`cassette/track/mutator.go:91`, `:99`) answer the contrary
  of their comments; `OnNoErr`, which uses one, is right (`ErrorsAreSplit`).
- `ResponseAddHeaderValue` and `AddTrackRequestHeaderValue` add a value behind those
  there are and overwrite none; the README's recipe deletes first (`RecipeDelivers`).
- `OnStatus` follows a nil `Response` on the track of a failed transport unless a
  later `On` keeps it from that (`LastOnGuards`).
- `Set*Mutators` keeps the caller's slice; two lists set from one slice with room left
  overwrite what is added to each other (the second case of `ListsAreAsSet`).
- A replaying mutator works on the cassette's own track: after a double replay
  (finding 1) it may find another call's request. Only then: theorem
  `AttachedUnlessReused`.
- `readOnly` is read at the end of the live call, so that one begun in read-only mode
  records if that is switched off meanwhile (`SettingsRespected` asks that the setting
  was in force at some moment of the call).
- URLs that differ in `RawFragment` or `OmitHost` alone match each other (`SameURL`).
- A client that edits the headers of a response it was played edits the cassette
  (`EditsStayOnThePlayed`), and does so while another call scans or saves it
  (`OnlyPlayedTracksRace`); the Go runtime stops a process that it catches at this.
- A recorded body and the body of the live response are the same bytes, so a body
  mutator that edits what it is given, instead of returning other bytes, edits what
  the client reads (`LiveIsProtected` excepts it); "the live HTTP request and response
  traffic is protected against modifications" (`README.md:199`).
- A body that fails half way is recorded as far as it went and restored without the
  error, on both sides alike (`BodiesAgree`).
- A recorded error comes back as its outermost type, around one that bears its message,
  and never with the live one's text alone (`Message`) or its causes. Its `Timeout()` is
  always false, although `README.md:638` says that timeouts are supported;
  `ReplayIsFaithful` does not ask for it.
- A response without a body is played with an empty one (`EmptyIfNil`).
- There is no mutator that deletes trailers: one that transfers a trailer adds a value
  to the cassette at every replay that is saved.
- `Stats` can count a track recorded between two of its reads as played back
  (`ExactWhenQuiet` is stated for when nothing moves).
- A nonce generator whose nonces have another size than the cipher's is accepted
  (`encryption/nonce.go:35`), and the first save panics, as in the README's recipe
  of 12-byte nonces with ChaCha20Poly1305; the mutex is released and no file is
  touched (`SavesEnd`, `FileLoads`), but the crypter stays in place.
- The decrypt command only knows AES-GCM (`cmd/govcr/main.go:73`) and the local file
  system (`:78` passes no store): it cannot print a cassette in S3 (`LocalFile`).

## 5. Proofs

The theorems hold for every value of the constants: any number of goroutines, requests,
tracks, crypters, functions and replays, any relations as matchers and functions as
mutators. A property is named here as in its module; each is also checked by a run, but
for `OwnTape` and `CurrentRequestAttached`.

| module | theorems, and the properties they establish |
|---|---|
| `VCRProofs` | `TypeCorrect` (`TypeOK`), `InBounds` (`SeekInBounds`), `LoadedOnly` (`OnlyLoadedTracksReplay`), `InOrder` (`PlaybackInOrder`), `MissesAreJustified` (`MissIsJustified`), `SettingsAreRespected` (`SettingsRespected`); of the file: `RecordingsAreStored` (`RecordedIsStored`), `FileStaysPrefix` (`FileIsPrefix`), `RecordingsAreKept` (an action property: no save changes a saved recording), `SavedAreKept` (`SavedTracksKept`) |
| `VCRRefinementProofs` | `SharedRefinement` (`FixedSpec => SharedTape`); for one goroutine `OwnRefinement` (`FixedSpec => OwnTape`), `NoneReused` (`NeverReused`); `AttachedUnlessReused` (`NeverReused` implies `CurrentRequestAttached`, for any number) |
| `VCRStatsProofs` | `StatsNonNegative` (`NeverNegative`), `StatsComplete` (`NothingHidden`), `StatsExact` (`ExactWhenQuiet`) |
| `CassetteStoreProofs` | `TypeCorrect` (`TypeOK`), `SavesExclude` (`OneSaveAtATime`), `AcknowledgedAreKept` (`AcknowledgedKept`), `EncryptionStays` (`EncryptedStaysEncrypted`), `QuietFileLoads` (`FileLoads`) |
| `SharingProofs` | `TypeCorrect` (`TypeOK`), `LiveStaysProtected` (`LiveIsProtected`), `MatchersStayScoped` (`MatchersAreScoped`), `LiveEditsNeverRecorded` (`LiveEditsStayOut`), `RacesArePlayed` (`OnlyPlayedTracksRace`), `EditsStay` (`EditsStayOnThePlayed`), `BodiesStayTheSame` (`BodiesAgree`) |
| `SettingsProofs` | `ListsStayAsSet` (`ListsAreAsSet`), `WalksAreUndisturbed` (`WalkIsAsBegun`) |
| `RequestMatchingProofs` | `MatchingIsExact` (`MatchesExactly`) |
| `MutatorsProofs` | `ErrorsStaySplit` (`ErrorsAreSplit`), `RecipeAlwaysDelivers` (`RecipeDelivers`), `LastOnAlwaysGuards` (`LastOnGuards`), `ReplayStaysFaithful` (`ReplayIsFaithful`) |

**Assumptions.** Those named in the modules, which TLC evaluates on every run: in `VCR`
cassettes are sequences of tracks as a file can hold them, matchers are relations,
mutators are functions, and the marks `None` and `Unreadable` are neither a response nor a
cassette; in `CassetteStore` `None` and the panel are neither recorders nor crypters, and
lengths of names and nonces are natural numbers; in `Sharing` there are finitely many calls and room for a track; in `Settings` lengths and numbers of arrays are
natural numbers; in `RequestMatching` requests are of the shape a client may send,
headers with finitely many keys and a sequence of texts at each, and what replaces bytes that
are not UTF-8 is UTF-8; in `Mutators` exchanges, requests and lists are of the shapes that
`net/http` and the package build: a transport gives a response or an error, an error has
a type, `Not` has an argument.

Some theorems have a hypothesis of their own, without which the property does not hold:

- `Alone` (one goroutine), for `OwnTape` and `NeverReused`. With two, finding 1 applies,
  and `NeverReused` is itself the hypothesis of `AttachedUnlessReused`;
- `MutatorsKeepHeaders` (replaying mutators change nothing that is saved), for
  `SavedTracksKept`. Without, finding 4 applies, and `RecordingsAreKept` is what is left:
  the tracks recorded in this session are safe even then;
- `NilIsNoRecord` (`Nil` is not a request), for `MatchesExactly`, which itself is about
  recorded requests that survive the file. For others finding 3 applies;
- `NilIsNil` (a nil pointer is not one to a request, response or error), in
  `MutatorsProofs`. It says that the model value `Nil` is not a record and cannot be
  evaluated by TLC, being about all records; any model value satisfies it.

**The invariants.** No property is inductive by itself. What has to be added is where
the argument is:

- `VCRProofs!Inv`: *the cassette grows* (`tracksLoaded <= Len(tracks)`, and every track
  after the first `tracksLoaded` is marked as replayed, so one recorded while another
  goroutine scans is never picked), and *what each goroutine has learnt stays true*
  (`CallInv`): the length it counted is at most the present one; every track before the
  one it looks at is used up or does not match; its copy differs from the track at most in
  being marked, or in its response. A copy may be out of date only in the harmless
  direction, since `replayed` is never reset and a request never changes
  (`StaysExhausted`).
- `VCRProofs!RecordingInv`: only loaded tracks are replayed and only replays write to
  a track, so a recorded track is what it was when its client got its answer. Each save
  writes all of them, so a save by one goroutine can only help the recording of another.
- `VCRRefinementProofs`: the refinement mapping hides the search. A step is mapped to a
  step of `Tape` where it marks a track or finds none, and there `Inv` says that
  all tracks in front are used up *now*. `FixedInv` adds that settings stand still and
  that the track about to be marked matches; `AloneInv` that a copy is up to date;
  `PlayerInv`, for the current request, that no two calls are at the same track
  between marking and playing, which is so as long as no track is marked twice.
- `VCRStatsProofs!StatsInv`: the numbers of tracks, and of tracks played, only go up, and
  that of tracks left only goes down; so what was read lies between its values at
  the call and now, which keeps `len - loaded` and `played - recorded` above zero. This
  needs lemmas on the cardinality of the tracks marked (`FiniteSetTheorems`).
- `CassetteStoreProofs!StoreInv`: between marshalling and writing, `work[a].data` is made
  from the tracks in memory, thanks to the mutex; a file is torn or `Holding` its
  content. `SecretInv`: once encrypted, a process that can load the file has a crypter,
  and none takes it away. `LoadInv`: if the file does not read back as it should, then a
  save is `OnTrack` to put that right, and any save that is not was overtaken by
  `SetCrypter`, which saves next. So the torn header of finding 2 heals if that save works.
- `SharingProofs`: `ShapeInv` (whose cells a track, a call and a file may refer to),
  `MarksInv` (which marks may be on which kind of cell), and `OwnersInv` (no two
  tracks share a cell; the cells a call fills are on no track until it adds it).
  Races and edits are confined by the last, everything else by the second.
- `SettingsProofs!SettingsInv`: where two lists share an array, or a list shares it with
  the caller, the array is full, so `append` never writes under another's slice; and a
  walk's slice is no longer than the list that may be appended to.
- `RequestMatchingProofs!MatchingInv`: if the request that was sent survives the file, the
  recorded one is that, but for a body of no bytes in place of none and the fields of
  a URL that are not compared, through all copies and the file (`CopiesKeep`). `areHTTPHeadersEqual` counts values, the property reorders them: equal
  counts give a bijection for each value between the places it is at, and these make up
  the reordering (`CountsReorder`; the other way, `ReorderedCounts`).
- `MutatorsProofs!MutatorsInv`: what no mutator changes (`KeptInv`), what only the
  mutators about it change (`PartsInv`), that a panic is where the loop stands
  (`PanicInv`), and what the first of two mutators left to the second. `OperateKeeps`
  goes through the operations, `EvaluateType` and `AppliesType` through predicates, which
  never panic if there is a response, and `Replayed` through the file.

The step lemmas go by what an action disturbs: the cassette, a goroutine's locals, the
heap, the file.

**What the proofs changed.** `ListsAreAsSet` was false beyond the instance checked before,
with lists of up to 2: a list that lives in a caller's array with room may be overwritten
there, and keeps what was put in its place when it outgrows the array and moves to another.
The proof stood still at this step. The history `roomy` now follows such lists, and the run has
lists of up to 3, where this happens. The assumptions on `None`, `Unreadable`, the
number of calls and the shapes of exchanges were implicit before.

**Only model-checked:** liveness (`EveryCallReturns`, `SavesEnd`), which is beyond TLAPS.
The findings are counterexamples and stay with TLC.

## 6. Not modelled

- Memory below a step: torn reads of an interface or slice header that is written
  without a lock (the settings, the crypter, the `Transport` of a client that several
  VCRs are built with). That two goroutines are at one map at once is a state of
  `Sharing`; what the Go runtime then does is not.
- A goroutine holds a pointer to the element of the `Tracks` array of its time. After
  an append has moved the array it points to the old element; the `Response` behind
  it is shared, which is all the replay writes, so the model writes to the track.
- Two VCRs on one file: nothing is promised for them, and the last to save wins.
- What a caller itself writes to a slice of functions after handing it to govcr.
- Matchers and mutators written by users, beyond what `Sharing` lets them touch; in
  `VCR` a replaying mutator changes the response only.
- Forms and multipart forms, which are copied like headers; the parts of a TLS state
  other than the keys (the copy of a certificate shares its other slices with the
  live one, which nothing in govcr writes to, though a client or mutator may); more than one key in a header in `Mutators`.
- Cryptography and the randomness of nonces, the sizes of keys, JSON and gzip
  themselves, the parts of an S3 upload and of its name, the flags of the command line,
  error wrappers, the RSA study.

## 7. Plan

Done in this order: `VCR`, `Tape`, `VCRRefinement`, `VCRStats`, `CassetteStore`,
`VCRProofs`, `Settings`, `RequestMatching`, `Mutators`, `Sharing`, `Transcoding`, and the
other modules of proofs. Every safety property and refinement that a run checks is now
proved as well. Left:

1. An abstract store for `CassetteStore`, as `Tape` is for `VCR`: a recording is put in
   place whole or not at all, but for the file a crash or a failure leaves torn.
2. Shorter proofs: the step lemmas of `SharingProofs` and `CassetteStoreProofs` were split
   until every leaf was quick, and some of the steps are now more than a reader needs.
