--------------------------- MODULE VCRRefinement ---------------------------
(***************************************************************************)
(* A VCR whose settings stand still implements the tape it promises.       *)
(***************************************************************************)
EXTENDS VCR

\* The state of the tape, under the names module Tape gives it.
Nobody == None
Lost   == Unreadable

tape == [i \in DOMAIN tracks |-> [request |-> tracks[i].request,
                                  played  |-> tracks[i].replayed]]
loaded   == tracksLoaded
saved    == IF stored = Unreadable THEN Lost ELSE Len(stored)
settings == [httpMode |-> pcb.httpMode, readOnly |-> pcb.readOnly,
             requestMatchers |-> pcb.requestMatchers]
wanted   == [g \in Callers |-> call[g].request]

\* A request is being looked up until its track is marked, and played from
\* then on.  A track counts as recorded when it is in memory; its client waits
\* for the save.
PhaseOf(location) ==
  CASE location = "Idle" -> "idle"
    [] location \in {"SeekTrack", "NumberOfTracks", "Track", "Match",
                     "ReplayTrack"} -> "waiting"
    [] location \in {"InjectRequest", "MutateReplaying", "ToHTTPResponse"}
         -> "playing"
    [] location = "CheckOffline" -> "missed"
    [] location \in {"Transport", "CheckReadOnly", "MutateRecording",
                     "AddTrack"} -> "live"
    [] location = "Save" -> "recorded"

phase == [g \in Callers |-> PhaseOf(pc[g])]

Shared == INSTANCE Tape WITH Exclusive <- FALSE
Own    == INSTANCE Tape WITH Exclusive <- TRUE

\* Goroutines that share a VCR are played the tape in order and skip no track:
\* the copies, the stale length and the three critical sections of the code
\* are invisible, but for a track played to two of them.
SharedTape == Shared!Spec

\* A goroutine that has a VCR for itself is also played each track only once.
OwnTape == Own!Spec
=============================================================================
