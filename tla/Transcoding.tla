---------------------------- MODULE Transcoding ----------------------------
(***************************************************************************)
(* A live exchange on its way to a track, to the cassette file and, in a   *)
(* later session, to another client.                                       *)
(*                                                                         *)
(* A header or trailer is Nil, as a Go map may be, or the sequence of the  *)
(* values of one key; "tail" is the trailer that comes after the body of a *)
(* live response, if one does.  An error is the types that unwrapping it   *)
(* brings to light, outermost first, its message, a sequence of phrases,   *)
(* and whether it is a timeout.  Who shares memory with whom is left to    *)
(* module Sharing, what copies and JSON do to text to RequestMatching.     *)
(*                                                                         *)
(* A definition with an underscore in its name is what a bug could make of *)
(* the one that follows it.                                                *)
(***************************************************************************)
EXTENDS Sequences

CONSTANT Nil

\* The public keys of certificates have no type of their own in JSON and are
\* taken out first.
cloneTLS_KeepsKeys(tls) == tls
cloneTLS(tls) == IF tls = Nil THEN Nil ELSE [tls EXCEPT !.publicKey = Nil]

\* Until the body has been read to its end a trailer is only announced, or not
\* even that; net/http then puts it into the response, in place.
ReadBody(resp) == IF resp.tail = Nil THEN resp ELSE [resp EXCEPT !.trailer = resp.tail]

TrailerOf_BodyUnread(resp) == resp.trailer
TrailerOf(resp) == ReadBody(resp).trailer

EmptyIfNil(body) == IF body = Nil THEN "" ELSE body

\* A request that came without a body is read as an empty one.
ToRequest(req) == [req EXCEPT !.body = EmptyIfNil(@)]

ToResponse(resp) ==
  IF resp = Nil THEN Nil
  ELSE [status |-> resp.status, code |-> resp.code, header |-> resp.header,
        trailer |-> TrailerOf(resp), body |-> resp.body,
        tls |-> cloneTLS(resp.tls), request |-> Nil]

NewTrack(req, resp, err) ==
  [request |-> req, response |-> resp,
   errType |-> IF err = Nil THEN Nil ELSE Head(err.types),
   errMsg  |-> IF err = Nil THEN Nil ELSE err.msg]

\* The file has no Response.Request, and keys are read back as plain maps.
KeyFromJSON(tls) ==
  IF tls = Nil \/ tls.publicKey = Nil THEN tls ELSE [tls EXCEPT !.publicKey = "map"]

ThroughFile(trk) ==
  IF trk.response = Nil THEN trk
  ELSE [trk EXCEPT !.response.request = Nil, !.response.tls = KeyFromJSON(@)]

\* The current request is put where the mutators find it.
Injected(trk, req) ==
  IF trk.response = Nil THEN trk ELSE [trk EXCEPT !.response.request = req]

\* The played response has a body to read whether the live one had or not, and
\* tells of the recorded request, without its body.
RequestOf_Current(trk) == trk.response.request
RequestOf(trk) == trk.request

ToHTTPResponse(trk) ==
  IF trk.response = Nil THEN Nil
  ELSE LET resp == trk.response
       IN [status |-> resp.status, code |-> resp.code, header |-> resp.header,
           trailer |-> resp.trailer, body |-> EmptyIfNil(resp.body), tls |-> resp.tls,
           request |-> [RequestOf(trk) EXCEPT !.body = Nil]]

\* Errors of these types are made anew, around one that bears type and message;
\* what their Error() adds to the message depends on the type.
Recreated_NoDNS == {"*net.OpError", "*os.SyscallError"}
Recreated == {"*net.OpError", "*os.SyscallError", "*net.DNSError"}

Message(errType, msg) ==
  CASE errType = "*net.OpError"     -> <<"govcr govcr", errType>> \o msg
    [] errType = "*os.SyscallError" -> msg \o <<errType>> \o msg
    [] errType = "*net.DNSError"    -> <<"lookup govcr on govcr">> \o msg
    [] OTHER                        -> <<errType>> \o msg

\* None of them is a timeout, whatever the live one was.
ToErr(trk) ==
  IF trk.errType = Nil THEN Nil
  ELSE [types |-> (IF trk.errType \in Recreated THEN <<trk.errType>> ELSE <<>>)
                    \o <<"*errors.withStack", "*trkerr.ErrTransportFailure">>,
        msg |-> Message(trk.errType, trk.errMsg),
        timeout |-> FALSE]
=============================================================================
