------------------------------ MODULE Mutators ------------------------------
(***************************************************************************)
(* What the predicates and mutators of package track do to a track over    *)
(* its life: the loop of Mutate over the recording mutators, on the track  *)
(* made of a live exchange; the file; and the loop over the replaying      *)
(* mutators with the current request in Response.Request, once for every   *)
(* time the track is played.                                               *)
(*                                                                         *)
(* A header or trailer is the values of the one key that the mutators are  *)
(* about.  A nil pointer that is followed, or a nil map that is written    *)
(* to, ends the loop in a panic.                                           *)
(*                                                                         *)
(* A definition with an underscore in its name is what a bug could make of *)
(* the one that follows it.                                                *)
(***************************************************************************)
EXTENDS Naturals, Transcoding

CONSTANTS
  Exchanges,   \* live exchanges: request, response, error
  Currents,    \* requests of later sessions that the track is played for
  Lists,       \* pairs of lists of mutators, for recording and for replaying
  MaxReplays

ASSUME MaxReplaysAssumption == MaxReplays \in Nat

VARIABLES
  exchange,  \* what the track was made of
  current,   \* the request it is being played for, Nil at recording time
  track,     \* the track as it is now
  lists,     \* the mutators set
  replays,   \* how often it has been played
  next,      \* the mutator that is next
  panicked   \* a nil pointer was followed

vars == <<exchange, current, track, lists, replays, next, panicked>>

(***************************************************************************)
(* Predicates: a kind with arguments.  Evaluate is TRUE, FALSE or a panic. *)
(***************************************************************************)
Panic == "panic"
Truth(b) == IF b THEN "true" ELSE "false"

HasErr(trk)   == Truth(trk.errType = Nil)
HasNoErr(trk) == Truth(trk.errType # Nil)

\* ErrType is looked at by OnErr itself.
OnErr(trk) == Truth(trk.errType # Nil)

OnNoErr_Fixed(trk) == HasNoErr(trk)
OnNoErr(trk) == HasErr(trk)

\* Those that look at the request look at the recorded one.
HasAnyMethod(methods, trk) == Truth(trk.request.method \in methods)

\* A pattern is the set of paths it matches; the empty one means any.
OnRequestPath(paths, trk) == Truth(paths = {} \/ trk.request.path \in paths)

HasAnyStatus(statuses, trk) ==
  IF trk.response = Nil /\ statuses # {} THEN Panic
  ELSE Truth(statuses # {} /\ trk.response.status \in statuses)

HasAnyStatusCode(codes, trk) ==
  IF trk.response = Nil /\ codes # {} THEN Panic
  ELSE Truth(codes # {} /\ trk.response.code \in codes)

Simple(p, trk) ==
  CASE p.kind = "HasErr"           -> HasErr(trk)
    [] p.kind = "HasNoErr"         -> HasNoErr(trk)
    [] p.kind = "OnErr"            -> OnErr(trk)
    [] p.kind = "OnNoErr"          -> OnNoErr(trk)
    [] p.kind = "HasAnyMethod"     -> HasAnyMethod(p.values, trk)
    [] p.kind = "OnRequestPath"    -> OnRequestPath(p.values, trk)
    [] p.kind = "HasAnyStatus"     -> HasAnyStatus(p.values, trk)
    [] p.kind = "HasAnyStatusCode" -> HasAnyStatusCode(p.values, trk)

\* The first result that settles the matter, or else what an empty list gives.
FirstOf(results, settles, otherwise) ==
  IF \E i \in DOMAIN results : results[i] \in settles
  THEN results[CHOOSE i \in DOMAIN results :
                 /\ results[i] \in settles
                 /\ \A j \in 1..(i - 1) : results[j] \notin settles]
  ELSE otherwise

Any(results) == FirstOf(results, {"true", Panic}, "false")
All_Any(results) == FirstOf(results, {"true", Panic}, "false")
All(results) == FirstOf(results, {"false", Panic}, "true")
Not(result)  == CASE result = "true" -> "false" [] result = "false" -> "true"
                  [] OTHER -> result
None(results) == Not(Any(results))

Results(ps, trk) == [i \in DOMAIN ps |-> Simple(ps[i], trk)]

Evaluate(p, trk) ==
  CASE p.kind = "Any"  -> Any(Results(p.of, trk))
    [] p.kind = "All"  -> All(Results(p.of, trk))
    [] p.kind = "None" -> None(Results(p.of, trk))
    [] p.kind = "Not"  -> Not(Simple(p.of[1], trk))
    [] OTHER           -> Simple(p, trk)

(***************************************************************************)
(* Mutators: an operation on a track, and the predicates of its On         *)
(* conditions, the outermost (the last On) first.                          *)
(***************************************************************************)

\* Header.Add appends, to a map that is made if there is none.
AddValue(header, value) == IF header = Nil THEN <<value>> ELSE Append(header, value)

\* Header.Get is the first value: the current request's is taken over if it
\* has one, and a map that is nil stays so if not.
Transfer_Blank(header, from) == AddValue(header, IF from \in {Nil, <<>>} THEN "" ELSE Head(from))
Transfer(header, from) ==
  IF from \in {Nil, <<>>} THEN header ELSE AddValue(header, Head(from))

\* Nothing can be deleted from a nil map.
Deleted_LastOnly(header) ==
  IF header \in {Nil, <<>>} THEN header ELSE SubSeq(header, 1, Len(header) - 1)
Deleted(header) == IF header = Nil THEN Nil ELSE <<>>

OnRequest  == {"AddRequest", "DeleteRequest", "ChangeRequestBody"}
OnResponse == {"AddResponse", "DeleteResponse", "Transfer", "TransferTrailer",
               "ChangeBody", "DeleteTLS"}

\* These look at Response before they use it, and those that transfer at
\* Response.Request too.
Guarded == {"Transfer", "TransferTrailer", "ChangeBody", "DeleteTLS"}
Transfers == {"Transfer", "TransferTrailer"}

\* The function of a body mutator is given the body; here it returns another.
Operate(op, trk) ==
  CASE op.kind = "AddRequest"        -> [trk EXCEPT !.request.header = AddValue(@, op.value)]
    [] op.kind = "DeleteRequest"     -> [trk EXCEPT !.request.header = Deleted(@)]
    [] op.kind = "ChangeRequestBody" -> [trk EXCEPT !.request.body = op.value]
    [] op.kind = "AddResponse"       -> [trk EXCEPT !.response.header = AddValue(@, op.value)]
    [] op.kind = "DeleteResponse"    -> [trk EXCEPT !.response.header = Deleted(@)]
    [] op.kind = "Transfer"          ->
         [trk EXCEPT !.response.header = Transfer(@, trk.response.request.header)]
    [] op.kind = "TransferTrailer"   ->
         [trk EXCEPT !.response.trailer = Transfer(@, trk.response.request.trailer)]
    [] op.kind = "ChangeBody"        -> [trk EXCEPT !.response.body = op.value]
    [] op.kind = "DeleteTLS"         -> [trk EXCEPT !.response.tls = Nil]

Applies(m, trk) ==
  All([i \in DOMAIN m.on |-> Evaluate(m.on[i], trk)])

Panics(m, trk) ==
  \/ Applies(m, trk) = Panic
  \/ /\ Applies(m, trk) = "true"
     /\ trk.response = Nil
     /\ m.op.kind \in OnResponse \ Guarded

TurnsBack(m, trk) ==
  \/ trk.response = Nil /\ m.op.kind \in Guarded
  \/ trk.response # Nil /\ trk.response.request = Nil /\ m.op.kind \in Transfers

Mutated(m, trk) ==
  IF Applies(m, trk) = "false" \/ TurnsBack(m, trk) THEN trk ELSE Operate(m.op, trk)

(***************************************************************************)
(* What clients, servers and lists of mutators can be.                     *)
(***************************************************************************)
IsSequence(s) == s \in Seq({s[i] : i \in DOMAIN s})

IsRequest(req) ==
  req = [method |-> req.method, path |-> req.path, header |-> req.header,
         trailer |-> req.trailer, body |-> req.body]

IsTLS(tls) == tls = [publicKey |-> tls.publicKey]

IsResponse(resp) ==
  /\ resp = [status |-> resp.status, code |-> resp.code, header |-> resp.header,
             trailer |-> resp.trailer, tail |-> resp.tail, body |-> resp.body,
             tls |-> resp.tls]
  /\ resp.tls # Nil => IsTLS(resp.tls)

IsError(err) ==
  /\ err = [types |-> err.types, msg |-> err.msg, timeout |-> err.timeout]
  /\ IsSequence(err.types) /\ err.types # <<>> /\ Head(err.types) # Nil
  /\ IsSequence(err.msg)

\* A transport that has no response has an error.
IsExchange(x) ==
  /\ IsRequest(x.request)
  /\ x.response # Nil => IsResponse(x.response)
  /\ x.error # Nil => IsError(x.error)
  /\ x.response = Nil => x.error # Nil

IsSimple(p) ==
  p.kind \in {"HasErr", "HasNoErr", "OnErr", "OnNoErr", "HasAnyMethod", "OnRequestPath",
              "HasAnyStatus", "HasAnyStatusCode"}

IsPredicate(p) ==
  \/ IsSimple(p)
  \/ /\ p.kind \in {"Any", "All", "None", "Not"}
     /\ IsSequence(p.of) /\ \A i \in DOMAIN p.of : IsSimple(p.of[i])
     /\ p.kind = "Not" => p.of # <<>>

IsMutator(m) ==
  /\ m.op.kind \in OnRequest \cup OnResponse
  /\ IsSequence(m.on) /\ \A i \in DOMAIN m.on : IsPredicate(m.on[i])

IsList(list) == IsSequence(list) /\ \A i \in DOMAIN list : IsMutator(list[i])

ASSUME ExchangesAssumption ==
  (\A x \in Exchanges : IsExchange(x)) /\ \A req \in Currents : IsRequest(req)

ASSUME ListsAssumption ==
  \A pair \in Lists : IsList(pair.recording) /\ IsList(pair.replaying)

(***************************************************************************)
(* The life of a track                                                     *)
(***************************************************************************)

Init ==
  /\ exchange \in Exchanges
  /\ current = Nil
  /\ track = NewTrack(ToRequest(exchange.request), ToResponse(exchange.response),
                      exchange.error)
  /\ lists \in Lists
  /\ replays = 0
  /\ next = 1
  /\ panicked = FALSE

Replaying == replays > 0
mutators  == IF Replaying THEN lists.replaying ELSE lists.recording
Done      == next > Len(mutators)

\* One turn of the loop.
Mutate ==
  /\ ~Done /\ ~panicked
  /\ IF Panics(mutators[next], track)
     THEN panicked' = TRUE /\ UNCHANGED <<track, next>>
     ELSE /\ track' = Mutated(mutators[next], track)
          /\ next' = next + 1
          /\ UNCHANGED panicked
  /\ UNCHANGED <<exchange, current, lists, replays>>

\* The cassette is saved, by whichever recording, and a later session plays the
\* track: for a request with a body, that was read once more.
Replay ==
  /\ Done /\ ~panicked /\ replays < MaxReplays
  /\ current' \in Currents
  /\ track' = Injected(ThroughFile(track), ToRequest(current'))
  /\ replays' = replays + 1
  /\ next' = 1
  /\ UNCHANGED <<exchange, lists, panicked>>

Next == Mutate \/ Replay

Spec == Init /\ [][Next]_vars

(***************************************************************************)
(* Properties                                                              *)
(***************************************************************************)

Op(kind, value, on) == [op |-> [kind |-> kind, value |-> value], on |-> on]
P(kind) == [kind |-> kind]
Pred(kind, values) == [kind |-> kind, values |-> values]

Played == Replaying /\ Done

\* OnErr and OnNoErr share out the tracks: one of two mutators that differ in
\* this alone applies to every track, when it is recorded as when it is played
\* after its error went through the file, although HasErr and HasNoErr, of
\* which one is made, answer the wrong way round.
ByError == <<Op("ChangeRequestBody", "err", <<P("OnErr")>>),
             Op("ChangeRequestBody", "none", <<P("OnNoErr")>>)>>

ErrorsAreSplit ==
  (Done /\ mutators = ByError) =>
    track.request.body = IF exchange.error # Nil THEN "err" ELSE "none"

Recipe == <<Op("DeleteResponse", "", <<>>), Op("Transfer", "", <<>>)>>

\* The README's recipe hands every client the transaction id of its own request
\* and of no other, whatever was recorded and however often the track was
\* played and saved for others before; set for recording too, it hands out
\* nothing then.
RecipeDelivers ==
  (Done /\ track.response # Nil /\ mutators = Recipe) =>
    track.response.header \in
      IF ~Replaying \/ current.header \in {Nil, <<>>} THEN {Nil, <<>>}
      ELSE {<<Head(current.header)>>}

\* OnNoErr put behind a condition on the status is asked first and keeps the
\* status of a failed transport from being looked at, in every mutator of a
\* list.
LastOnGuards ==
  (\A i \in DOMAIN mutators :
     /\ Len(mutators[i].on) > 1
     /\ Head(mutators[i].on) = P("OnNoErr")) => ~panicked

Touching(part) ==
  CASE part = "header"  -> {"AddResponse", "DeleteResponse", "Transfer"}
    [] part = "trailer" -> {"TransferTrailer"}
    [] part = "body"    -> {"ChangeBody"}
    [] part = "tls"     -> {"DeleteTLS"}
    [] part = "request" -> {"AddRequest", "DeleteRequest"}
    [] OTHER            -> {}

Touched(part) ==
  \E list \in {lists.recording, lists.replaying} :
    \E i \in DOMAIN list : list[i].op.kind \in Touching(part)

EndsWith(text, end) ==
  \E n \in 0..Len(text) :
    /\ Len(text) = n + Len(end)
    /\ \A i \in DOMAIN end : text[n + i] = end[i]

\* A client of a later session is played what the live client has once it has
\* read the body, in every part that no mutator is about: the answer, with a
\* trailer that came last and the request it was an answer to, and its TLS state
\* but for the public keys; or an error, whose message ends in that of the live
\* one and which tells its type, as its own type for those of the network and in
\* its message for others.
ReplayIsFaithful ==
  LET live == exchange.response
      resp == ToHTTPResponse(track)
      err  == ToErr(track)
      type == Head(exchange.error.types)
  IN Played =>
       /\ (resp = Nil) <=> (live = Nil)
       /\ live # Nil =>
            /\ \A part \in {"status", "code", "header"} :
                 ~Touched(part) => resp[part] = live[part]
            /\ ~Touched("body") => resp.body = EmptyIfNil(live.body)
            /\ ~Touched("trailer") => resp.trailer = ReadBody(live).trailer
            /\ ~Touched("tls") /\ live.tls # Nil =>
                 resp.tls = [live.tls EXCEPT !.publicKey = Nil]
            /\ ~Touched("request") =>
                 resp.request = [exchange.request EXCEPT !.body = Nil]
       /\ (err = Nil) <=> (exchange.error = Nil)
       /\ err # Nil =>
            /\ EndsWith(err.msg, exchange.error.msg)
            /\ IF type \in {"*net.OpError", "*os.SyscallError", "*net.DNSError"}
               THEN Head(err.types) = type ELSE Head(err.msg) = type
=============================================================================
