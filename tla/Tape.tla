-------------------------------- MODULE Tape --------------------------------
(***************************************************************************)
(* What a VCR promises its clients, without its locks, its scan or its     *)
(* copies.  A tape of tracks, each played once; a client that asks for a   *)
(* request is either played the first matching track that is left, or, if  *)
(* none is left, sent to the server (or refused), and its answer goes to   *)
(* the end of the tape and then to the file before the client has it.      *)
(*                                                                         *)
(* Exclusive says whether a track is played by at most one client.  A VCR  *)
(* with one client promises that; with several clients it only promises    *)
(* that no track is skipped.                                               *)
(***************************************************************************)
EXTENDS Naturals, Sequences

CONSTANTS Callers, Requests, Exclusive, Nobody, Lost

VARIABLES
  tape,      \* a sequence of [request, played]
  loaded,    \* how many tracks came from the file
  saved,     \* how many tracks the file holds, or Lost
  settings,  \* [httpMode, readOnly, requestMatchers], fixed for the session
  phase,     \* how far each client's request is
  wanted     \* that request

vars == <<tape, loaded, saved, settings, phase, wanted>>

Init ==
  /\ tape \in Seq([request : Requests, played : {FALSE}])
  /\ loaded = Len(tape)
  /\ saved = Len(tape)
  /\ settings \in [httpMode : {"Normal", "LiveOnly", "Offline"},
                   readOnly : BOOLEAN,
                   requestMatchers : SUBSET (Requests \X Requests)]
  /\ phase = [g \in Callers |-> "idle"]
  /\ wanted = [g \in Callers |-> Nobody]

Answers(i, g) == <<wanted[g], tape[i].request>> \in settings.requestMatchers

\* No track before the n-th can answer g.
NoneLeftBefore(n, g) ==
  \A i \in 1..(n - 1) : Answers(i, g) => tape[i].played

Move(g, from, to) == phase[g] = from /\ phase' = [phase EXCEPT ![g] = to]

Finish(g, from) ==
  /\ Move(g, from, "idle")
  /\ wanted' = [wanted EXCEPT ![g] = Nobody]
  /\ UNCHANGED <<tape, loaded, settings>>

Ask(g, req) ==
  /\ Move(g, "idle", "waiting")
  /\ wanted' = [wanted EXCEPT ![g] = req]
  /\ UNCHANGED <<tape, loaded, saved, settings>>

Play(g) ==
  /\ settings.httpMode # "LiveOnly"
  /\ Move(g, "waiting", "playing")
  /\ \E i \in 1..loaded :
       /\ Answers(i, g)
       /\ NoneLeftBefore(i, g)
       /\ Exclusive => ~tape[i].played
       /\ tape' = [tape EXCEPT ![i].played = TRUE]
  /\ UNCHANGED <<loaded, saved, settings, wanted>>

Played(g) == Finish(g, "playing") /\ UNCHANGED saved

Miss(g) ==
  /\ settings.httpMode = "LiveOnly" \/ NoneLeftBefore(Len(tape) + 1, g)
  /\ Move(g, "waiting", "missed")
  /\ UNCHANGED <<tape, loaded, saved, settings, wanted>>

Refuse(g) ==
  /\ settings.httpMode = "Offline"
  /\ Finish(g, "missed")
  /\ UNCHANGED saved

GoLive(g) ==
  /\ settings.httpMode # "Offline"
  /\ Move(g, "missed", "live")
  /\ UNCHANGED <<tape, loaded, saved, settings, wanted>>

Answer(g) ==
  /\ settings.readOnly
  /\ Finish(g, "live")
  /\ UNCHANGED saved

\* The recording mutators decide under which request it is filed.
Record(g) ==
  /\ ~settings.readOnly
  /\ Move(g, "live", "recorded")
  /\ \E req \in Requests :
       tape' = Append(tape, [request |-> req, played |-> TRUE])
  /\ UNCHANGED <<loaded, saved, settings, wanted>>

Save(g) ==
  /\ Finish(g, "recorded")
  /\ saved' \in {Len(tape), saved, Lost}

Next ==
  \E g \in Callers :
    \/ \E req \in Requests : Ask(g, req)
    \/ Play(g) \/ Played(g) \/ Miss(g) \/ Refuse(g) \/ GoLive(g)
    \/ Answer(g) \/ Record(g) \/ Save(g)

Spec == Init /\ [][Next]_vars
=============================================================================
