--------------------------- MODULE MutatorsProofs ---------------------------
(***************************************************************************)
(* Proofs about module Mutators, for any exchanges, any lists of mutators  *)
(* under any conditions, and any number of replays.                        *)
(*                                                                         *)
(* The argument goes part by part: what a mutator that is not about a part *)
(* leaves there, what the file does to it, and what Replay puts there.     *)
(***************************************************************************)
EXTENDS Mutators, SequenceTheorems, WellFoundedInduction, TLAPS

\* A nil pointer is not one to a request, a response or an error.
NilIsNil ==
  /\ \A method, path, header, trailer, body :
       Nil # [method |-> method, path |-> path, header |-> header, trailer |-> trailer,
              body |-> body]
  /\ \A status, code, header, trailer, body, tls, request :
       Nil # [status |-> status, code |-> code, header |-> header, trailer |-> trailer,
              body |-> body, tls |-> tls, request |-> request]
  /\ \A types, msg, timeout : Nil # [types |-> types, msg |-> msg, timeout |-> timeout]

IsRecorded(resp) ==
  resp = [status |-> resp.status, code |-> resp.code, header |-> resp.header,
          trailer |-> resp.trailer, body |-> resp.body, tls |-> resp.tls,
          request |-> resp.request]

IsTrack(trk) ==
  /\ trk = [request |-> trk.request, response |-> trk.response, errType |-> trk.errType,
            errMsg |-> trk.errMsg]
  /\ IsRequest(trk.request)
  /\ trk.response # Nil => IsRecorded(trk.response)

ShapeInv ==
  /\ exchange \in Exchanges /\ lists \in Lists
  /\ replays \in Nat /\ (Replaying => current \in Currents)
  /\ next \in 1..(Len(mutators) + 1)
  /\ panicked \in BOOLEAN
  /\ IsTrack(track)

\* What no mutator changes.
KeptInv ==
  /\ (track.response = Nil) <=> (exchange.response = Nil)
  /\ track.errType = IF exchange.error = Nil THEN Nil ELSE Head(exchange.error.types)
  /\ track.errMsg = IF exchange.error = Nil THEN Nil ELSE exchange.error.msg
  /\ track.response # Nil =>
       track.response.request = IF Replaying THEN ToRequest(current) ELSE Nil

\* What only the mutators about it change.
PartsInv ==
  LET live == exchange.response
  IN /\ track.response # Nil =>
          /\ track.response.status = live.status
          /\ track.response.code = live.code
          /\ ~Touched("header") => track.response.header = live.header
          /\ ~Touched("trailer") => track.response.trailer = TrailerOf(live)
          /\ ~Touched("body") => track.response.body = live.body
          /\ ~Touched("tls") => track.response.tls = cloneTLS(live.tls)
     /\ ~Touched("request") =>
          [track.request EXCEPT !.body = Nil] = [exchange.request EXCEPT !.body = Nil]

\* A loop that ended in a panic stays where it is.
PanicInv == panicked => ~Done /\ Panics(mutators[next], track)

\* What the first of two mutators has done.
SplitInv ==
  mutators = ByError =>
    /\ next > 1 /\ exchange.error # Nil => track.request.body = "err"
    /\ next > 2 /\ exchange.error = Nil => track.request.body = "none"

RecipeInv ==
  mutators = Recipe /\ track.response # Nil =>
    /\ next = 2 => track.response.header \in {Nil, <<>>}
    /\ next > 2 => track.response.header \in
                     IF ~Replaying \/ current.header \in {Nil, <<>>} THEN {Nil, <<>>}
                     ELSE {<<Head(current.header)>>}

MutatorsInv == ShapeInv /\ KeptInv /\ PartsInv /\ PanicInv /\ SplitInv /\ RecipeInv

(***************************************************************************)
(* Predicates                                                              *)
(***************************************************************************)

Verdicts == {"true", "false", Panic}

\* A set of natural numbers has a least element.
LEMMA Least ==
  ASSUME NEW T \in SUBSET Nat, T # {}
  PROVE  \E k \in T : \A j \in T : k <= j
<1>1. PICK k \in T : \A j \in T : ~(<<j, k>> \in OpToRel(<, Nat))
  BY NatLessThanWellFounded, WFMin, Zenon
<1>2. \A j \in T : ~(j < k)
  BY <1>1 DEF OpToRel
<1> QED
  BY <1>2

\* A sequence, with its elements.
LEMMA SequenceType ==
  ASSUME NEW s, IsSequence(s)
  PROVE  Len(s) \in Nat /\ DOMAIN s = 1..Len(s) /\ (s # <<>> => Len(s) >= 1)
<1>1. Len(s) \in Nat /\ DOMAIN s = 1..Len(s)
  BY LenProperties DEF IsSequence
<1>2. s # <<>> => Len(s) \in Nat \ {0}
  BY EmptySeq DEF IsSequence
<1> QED
  BY <1>1, <1>2

\* A conjunction or disjunction is its first result that settles it; there is
\* one if any result would.
LEMMA FirstSettles ==
  ASSUME NEW n \in Nat, NEW results, DOMAIN results = 1..n, NEW settles, NEW otherwise
  PROVE  /\ \/ \E i \in 1..n : /\ results[i] \in settles
                               /\ FirstOf(results, settles, otherwise) = results[i]
            \/ /\ \A i \in 1..n : results[i] \notin settles
               /\ FirstOf(results, settles, otherwise) = otherwise
         /\ n >= 1 /\ results[1] \in settles =>
              FirstOf(results, settles, otherwise) = results[1]
<1> DEFINE First(i) == /\ results[i] \in settles
                       /\ \A j \in 1..(i - 1) : results[j] \notin settles
           k == CHOOSE i \in 1..n : First(i)
           T == {i \in 1..n : results[i] \in settles}
<1>1. CASE T = {}
  BY <1>1 DEF FirstOf
<1>2. CASE T # {}
  <2>1. PICK i \in T : \A j \in T : i <= j
    <3>1. T \in SUBSET Nat
      OBVIOUS
    <3> HIDE DEF T
    <3> QED
      BY <1>2, <3>1, Least
  <2>2. i \in 1..n /\ results[i] \in settles
    OBVIOUS
  <2>3. ASSUME NEW j \in 1..(i - 1), results[j] \in settles
        PROVE  FALSE
    <3>1. j \in T
      BY <2>2, <2>3
    <3> QED
      BY <2>1, <2>2, <2>3, <3>1
  <2>4. First(i)
    BY <2>2, <2>3
  <2>5. k \in 1..n /\ First(k)
    <3> HIDE DEF First
    <3> QED
      BY <2>2, <2>4
  <2>6. FirstOf(results, settles, otherwise) = results[k]
    BY <2>2 DEF FirstOf
  <2>7. ASSUME n >= 1, results[1] \in settles
        PROVE  k = 1
    <3> HIDE DEF k
    <3>1. 1 \in 1..(k - 1) => FALSE
      BY <2>5, <2>7
    <3> QED
      BY <2>5, <3>1
  <2> HIDE DEF k
  <2> QED
    BY <2>5, <2>6, <2>7
<1> QED
  BY <1>1, <1>2

\* A predicate looks only at a response that is there, or panics.
LEMMA SimpleType ==
  ASSUME NEW p, IsSimple(p), NEW trk
  PROVE  Simple(p, trk) \in Verdicts /\ (Simple(p, trk) = Panic => trk.response = Nil)
<1>1. \A b : Truth(b) \in {"true", "false"}
  BY DEF Truth
<1>2. /\ HasErr(trk) \in {"true", "false"} /\ HasNoErr(trk) \in {"true", "false"}
      /\ OnErr(trk) \in {"true", "false"} /\ OnNoErr(trk) \in {"true", "false"}
      /\ HasAnyMethod(p.values, trk) \in {"true", "false"}
      /\ OnRequestPath(p.values, trk) \in {"true", "false"}
  BY <1>1 DEF HasErr, HasNoErr, OnErr, OnNoErr, HasAnyMethod, OnRequestPath
<1>3. \/ HasAnyStatus(p.values, trk) \in {"true", "false"}
      \/ HasAnyStatus(p.values, trk) = Panic /\ trk.response = Nil
  BY <1>1 DEF HasAnyStatus
<1>4. \/ HasAnyStatusCode(p.values, trk) \in {"true", "false"}
      \/ HasAnyStatusCode(p.values, trk) = Panic /\ trk.response = Nil
  BY <1>1 DEF HasAnyStatusCode
<1> QED
  BY <1>2, <1>3, <1>4 DEF Simple, IsSimple, Verdicts, Panic

\* So do conjunctions and disjunctions.
LEMMA SeveralType ==
  ASSUME NEW n \in Nat, NEW results, DOMAIN results = 1..n, NEW trk,
         \A i \in 1..n : /\ results[i] \in Verdicts
                         /\ results[i] = Panic => trk.response = Nil
  PROVE  /\ Any(results) \in Verdicts /\ (Any(results) = Panic => trk.response = Nil)
         /\ All(results) \in Verdicts /\ (All(results) = Panic => trk.response = Nil)
         /\ None(results) \in Verdicts /\ (None(results) = Panic => trk.response = Nil)
<1>1. Any(results) \in Verdicts /\ (Any(results) = Panic => trk.response = Nil)
  BY FirstSettles DEF Any, Verdicts, Panic
<1>2. All(results) \in Verdicts /\ (All(results) = Panic => trk.response = Nil)
  BY FirstSettles DEF All, Verdicts, Panic
<1> QED
  BY <1>1, <1>2 DEF None, Not, Verdicts, Panic

\* And so does Evaluate.
LEMMA EvaluateType ==
  ASSUME NEW p, IsPredicate(p), NEW trk
  PROVE  Evaluate(p, trk) \in Verdicts /\ (Evaluate(p, trk) = Panic => trk.response = Nil)
<1>1. CASE IsSimple(p)
  BY <1>1, SimpleType DEF Evaluate, IsSimple
<1>2. CASE ~IsSimple(p)
  <2>1. /\ p.kind \in {"Any", "All", "None", "Not"}
        /\ IsSequence(p.of) /\ \A i \in DOMAIN p.of : IsSimple(p.of[i])
        /\ p.kind = "Not" => p.of # <<>>
    BY <1>2 DEF IsPredicate
  <2>2. Len(p.of) \in Nat /\ DOMAIN p.of = 1..Len(p.of) /\ (p.of # <<>> => Len(p.of) >= 1)
    BY <2>1, SequenceType
  <2> DEFINE results == Results(p.of, trk)
  <2>3. DOMAIN results = 1..Len(p.of)
    BY <2>2 DEF Results
  <2>4. ASSUME NEW i \in 1..Len(p.of)
        PROVE  results[i] \in Verdicts /\ (results[i] = Panic => trk.response = Nil)
    <3>1. results[i] = Simple(p.of[i], trk) /\ IsSimple(p.of[i])
      BY <2>1, <2>2 DEF Results
    <3> HIDE DEF results
    <3> QED
      BY <3>1, SimpleType
  <2> HIDE DEF results
  <2>5. /\ Any(results) \in Verdicts /\ (Any(results) = Panic => trk.response = Nil)
        /\ All(results) \in Verdicts /\ (All(results) = Panic => trk.response = Nil)
        /\ None(results) \in Verdicts /\ (None(results) = Panic => trk.response = Nil)
    BY <2>2, <2>3, <2>4, SeveralType
  <2>6. p.kind = "Not" =>
          /\ Not(Simple(p.of[1], trk)) \in Verdicts
          /\ Not(Simple(p.of[1], trk)) = Panic => trk.response = Nil
    <3> SUFFICES ASSUME p.kind = "Not"
                 PROVE  /\ Not(Simple(p.of[1], trk)) \in Verdicts
                        /\ Not(Simple(p.of[1], trk)) = Panic => trk.response = Nil
      OBVIOUS
    <3>1. IsSimple(p.of[1])
      BY <2>1, <2>2
    <3>2. /\ Simple(p.of[1], trk) \in Verdicts
          /\ Simple(p.of[1], trk) = Panic => trk.response = Nil
      BY <3>1, SimpleType
    <3> QED
      BY <3>2 DEF Not, Verdicts, Panic
  <2> QED
    BY <2>1, <2>5, <2>6 DEF Evaluate, results
<1> QED
  BY <1>1, <1>2

\* The conditions of a mutator are asked in turn.
LEMMA AppliesType ==
  ASSUME NEW m, IsMutator(m), NEW trk
  PROVE  /\ Applies(m, trk) \in Verdicts /\ (Applies(m, trk) = Panic => trk.response = Nil)
         /\ m.on = <<>> => Applies(m, trk) = "true"
         /\ Len(m.on) >= 1 /\ Evaluate(m.on[1], trk) \in {"false", Panic} =>
              Applies(m, trk) = Evaluate(m.on[1], trk)
         /\ Len(m.on) = 1 => Applies(m, trk) = Evaluate(m.on[1], trk)
<1> DEFINE results == [i \in DOMAIN m.on |-> Evaluate(m.on[i], trk)]
           n == Len(m.on)
<1>1. n \in Nat /\ DOMAIN m.on = 1..n
  BY SequenceType DEF IsMutator
<1>2. DOMAIN results = 1..n /\ \A i \in 1..n : results[i] = Evaluate(m.on[i], trk)
  BY <1>1
<1>3. \A i \in 1..n : IsPredicate(m.on[i])
  BY <1>1 DEF IsMutator
<1>4. m.on = <<>> => n = 0
  OBVIOUS
<1>5. Applies(m, trk) = All(results)
  BY DEF Applies
<1> HIDE DEF results, n
<1>6. \A i \in 1..n : results[i] \in Verdicts /\ (results[i] = Panic => trk.response = Nil)
  BY <1>2, <1>3, EvaluateType
<1>7. All(results) \in Verdicts /\ (All(results) = Panic => trk.response = Nil)
  BY <1>1, <1>2, <1>6, SeveralType
<1>8. n = 0 => All(results) = "true"
  BY <1>1, <1>2, FirstSettles DEF All
<1>9. n >= 1 /\ results[1] \in {"false", Panic} => All(results) = results[1]
  BY <1>1, <1>2, FirstSettles DEF All
<1>10. \/ \E i \in 1..n : results[i] \in {"false", Panic}
       \/ All(results) = "true"
  BY <1>1, <1>2, FirstSettles DEF All
<1>11. n = 1 => All(results) = results[1]
  <2> SUFFICES ASSUME n = 1 PROVE All(results) = results[1]
    OBVIOUS
  <2>1. results[1] \in Verdicts
    BY <1>6
  <2>2. results[1] = "true" => All(results) = "true"
    <3>1. SUFFICES ASSUME results[1] = "true" PROVE All(results) = "true"
      OBVIOUS
    <3>2. \A i \in 1..n : results[i] \notin {"false", Panic}
      BY <1>1, <3>1 DEF Panic
    <3> QED
      BY <3>2, <1>10
  <2> QED
    BY <1>9, <2>1, <2>2 DEF Verdicts
<1>12. n >= 1 => results[1] = Evaluate(m.on[1], trk)
  BY <1>1, <1>2
<1> QED
  BY <1>4, <1>5, <1>7, <1>8, <1>9, <1>11, <1>12 DEF n

(***************************************************************************)
(* Mutators                                                                *)
(***************************************************************************)

\* A track with another request is one.
LEMMA WithRequest ==
  ASSUME NEW trk, IsTrack(trk), NEW req, IsRequest(req)
  PROVE  /\ IsTrack([trk EXCEPT !.request = req])
         /\ [trk EXCEPT !.request = req].request = req
         /\ [trk EXCEPT !.request = req].response = trk.response
         /\ [trk EXCEPT !.request = req].errType = trk.errType
         /\ [trk EXCEPT !.request = req].errMsg = trk.errMsg
<1> DEFINE new == [trk EXCEPT !.request = req]
<1>1. new = [request |-> req, response |-> trk.response, errType |-> trk.errType,
             errMsg |-> trk.errMsg]
  BY DEF IsTrack
<1> QED
  BY <1>1 DEF IsTrack

\* So is one with another response.
LEMMA WithResponse ==
  ASSUME NEW trk, IsTrack(trk), NEW resp, IsRecorded(resp)
  PROVE  /\ IsTrack([trk EXCEPT !.response = resp])
         /\ [trk EXCEPT !.response = resp].request = trk.request
         /\ [trk EXCEPT !.response = resp].response = resp
         /\ [trk EXCEPT !.response = resp].errType = trk.errType
         /\ [trk EXCEPT !.response = resp].errMsg = trk.errMsg
<1> DEFINE new == [trk EXCEPT !.response = resp]
<1>1. new = [request |-> trk.request, response |-> resp, errType |-> trk.errType,
             errMsg |-> trk.errMsg]
  BY DEF IsTrack
<1> QED
  BY <1>1 DEF IsTrack

\* Two tracks that differ at most in the parts a mutator of this kind is about.
Kept(kind, trk, new) ==
  /\ IsTrack(new)
  /\ (new.response = Nil) <=> (trk.response = Nil)
  /\ new.errType = trk.errType /\ new.errMsg = trk.errMsg
  /\ trk.response # Nil =>
       /\ new.response.request = trk.response.request
       /\ new.response.status = trk.response.status
       /\ new.response.code = trk.response.code
       /\ kind \notin Touching("header") => new.response.header = trk.response.header
       /\ kind \notin Touching("trailer") => new.response.trailer = trk.response.trailer
       /\ kind \notin Touching("body") => new.response.body = trk.response.body
       /\ kind \notin Touching("tls") => new.response.tls = trk.response.tls
  /\ kind \notin Touching("request") =>
       [new.request EXCEPT !.body = Nil] = [trk.request EXCEPT !.body = Nil]

\* One with another request does.
LEMMA RequestKept ==
  ASSUME NEW kind, NEW trk, IsTrack(trk), NEW req, IsRequest(req),
         kind \notin Touching("request") =>
           [req EXCEPT !.body = Nil] = [trk.request EXCEPT !.body = Nil]
  PROVE  Kept(kind, trk, [trk EXCEPT !.request = req])
<1> DEFINE new == [trk EXCEPT !.request = req]
<1>1. /\ IsTrack(new) /\ new.request = req /\ new.response = trk.response
      /\ new.errType = trk.errType /\ new.errMsg = trk.errMsg
  BY WithRequest
<1> HIDE DEF new
<1>2. kind \notin Touching("request") =>
        [new.request EXCEPT !.body = Nil] = [trk.request EXCEPT !.body = Nil]
  BY <1>1
<1>3. Kept(kind, trk, new)
  BY <1>1, <1>2, Zenon DEF Kept
<1> QED
  BY <1>3 DEF new

\* Two recorded responses that differ at most in this part.
SameBut(part, resp, new) ==
  /\ IsRecorded(new) /\ new # Nil
  /\ new.status = resp.status /\ new.code = resp.code /\ new.request = resp.request
  /\ part # "header" => new.header = resp.header
  /\ part # "trailer" => new.trailer = resp.trailer
  /\ part # "body" => new.body = resp.body
  /\ part # "tls" => new.tls = resp.tls

\* A track with another response does.
LEMMA ResponseKept ==
  ASSUME NEW kind, NEW trk, IsTrack(trk), trk.response # Nil,
         NEW part \in {"header", "trailer", "body", "tls"}, kind \in Touching(part),
         NEW resp, SameBut(part, trk.response, resp)
  PROVE  Kept(kind, trk, [trk EXCEPT !.response = resp])
<1> DEFINE new == [trk EXCEPT !.response = resp]
<1>1. /\ IsTrack(new) /\ new.request = trk.request /\ new.response = resp
      /\ new.errType = trk.errType /\ new.errMsg = trk.errMsg
  BY WithResponse DEF SameBut
<1> HIDE DEF new
<1>2. Kept(kind, trk, new)
  BY <1>1 DEF Kept, SameBut
<1> QED
  BY <1>2 DEF new

\* EXCEPT makes such a response.
LEMMA OtherPart ==
  ASSUME NilIsNil, NEW resp, IsRecorded(resp), NEW v
  PROVE  /\ SameBut("header", resp, [resp EXCEPT !.header = v])
         /\ SameBut("trailer", resp, [resp EXCEPT !.trailer = v])
         /\ SameBut("body", resp, [resp EXCEPT !.body = v])
         /\ SameBut("tls", resp, [resp EXCEPT !.tls = v])
<1> DEFINE Made(hd, tr, bd, tl) ==
             [status |-> resp.status, code |-> resp.code, header |-> hd, trailer |-> tr,
              body |-> bd, tls |-> tl, request |-> resp.request]
<1>0. resp = Made(resp.header, resp.trailer, resp.body, resp.tls)
  BY DEF IsRecorded
<1>1. [resp EXCEPT !.header = v] = Made(v, resp.trailer, resp.body, resp.tls)
  BY <1>0
<1>2. [resp EXCEPT !.trailer = v] = Made(resp.header, v, resp.body, resp.tls)
  BY <1>0
<1>3. [resp EXCEPT !.body = v] = Made(resp.header, resp.trailer, v, resp.tls)
  BY <1>0
<1>4. [resp EXCEPT !.tls = v] = Made(resp.header, resp.trailer, resp.body, v)
  BY <1>0
<1>5. /\ SameBut("header", resp, Made(v, resp.trailer, resp.body, resp.tls))
      /\ SameBut("trailer", resp, Made(resp.header, v, resp.body, resp.tls))
      /\ SameBut("body", resp, Made(resp.header, resp.trailer, v, resp.tls))
      /\ SameBut("tls", resp, Made(resp.header, resp.trailer, resp.body, v))
  BY DEF IsRecorded, NilIsNil, SameBut
<1> HIDE DEF Made
<1> QED
  BY <1>1, <1>2, <1>3, <1>4, <1>5

\* Every operation does, on a response that is there if it is one on that.
LEMMA OperateKeeps ==
  ASSUME NilIsNil, NEW op, op.kind \in OnRequest \cup OnResponse, NEW trk, IsTrack(trk),
         op.kind \in OnResponse => trk.response # Nil
  PROVE  Kept(op.kind, trk, Operate(op, trk))
<1> DEFINE req == trk.request
           resp == trk.response
<1>0. IsRequest(req) /\ (resp # Nil => IsRecorded(resp))
  BY DEF IsTrack
<1>1. CASE op.kind \in OnRequest
  <2>1. PICK new : /\ Operate(op, trk) = [trk EXCEPT !.request = new]
                   /\ \/ op.kind \in {"AddRequest", "DeleteRequest"}
                         /\ \E h : new = [req EXCEPT !.header = h]
                      \/ op.kind = "ChangeRequestBody"
                         /\ \E b : new = [req EXCEPT !.body = b]
    BY <1>1 DEF OnRequest, Operate
  <2>2. req = [method |-> req.method, path |-> req.path, header |-> req.header,
               trailer |-> req.trailer, body |-> req.body]
    BY <1>0 DEF IsRequest
  <2>3. ASSUME NEW h
        PROVE  IsRequest([req EXCEPT !.header = h])
    <3>1. [req EXCEPT !.header = h] =
            [method |-> req.method, path |-> req.path, header |-> h,
             trailer |-> req.trailer, body |-> req.body]
      BY <2>2
    <3> QED
      BY <3>1 DEF IsRequest
  <2>4. ASSUME NEW b
        PROVE  /\ IsRequest([req EXCEPT !.body = b])
               /\ [[req EXCEPT !.body = b] EXCEPT !.body = Nil] = [req EXCEPT !.body = Nil]
    <3>1. [req EXCEPT !.body = b] =
            [method |-> req.method, path |-> req.path, header |-> req.header,
             trailer |-> req.trailer, body |-> b]
      BY <2>2
    <3>2. [req EXCEPT !.body = Nil] =
            [method |-> req.method, path |-> req.path, header |-> req.header,
             trailer |-> req.trailer, body |-> Nil]
      BY <2>2
    <3> QED
      BY <3>1, <3>2 DEF IsRequest
  <2> HIDE DEF req
  <2>5. CASE op.kind # "ChangeRequestBody"
    <3>1. PICK h : new = [req EXCEPT !.header = h]
      BY <2>1, <2>5
    <3>2. IsRequest(new)
      BY <2>3, <3>1
    <3>3. op.kind \in Touching("request")
      BY <2>1, <2>5 DEF Touching
    <3>4. Kept(op.kind, trk, [trk EXCEPT !.request = new])
      BY <3>2, <3>3, RequestKept
    <3> QED
      BY <2>1, <3>4
  <2>6. CASE op.kind = "ChangeRequestBody"
    <3>1. PICK b : new = [req EXCEPT !.body = b]
      BY <2>1, <2>6
    <3>2. IsRequest(new) /\ [new EXCEPT !.body = Nil] = [req EXCEPT !.body = Nil]
      BY <2>4, <3>1
    <3>3. Kept(op.kind, trk, [trk EXCEPT !.request = new])
      BY <3>2, RequestKept DEF req
    <3> QED
      BY <2>1, <3>3
  <2> QED
    BY <2>5, <2>6
<1>2. CASE op.kind \in OnResponse
  <2>1. \E v :
          \/ /\ op.kind \in {"AddResponse", "DeleteResponse", "Transfer"}
             /\ Operate(op, trk) = [trk EXCEPT !.response = [resp EXCEPT !.header = v]]
          \/ /\ op.kind = "TransferTrailer"
             /\ Operate(op, trk) = [trk EXCEPT !.response = [resp EXCEPT !.trailer = v]]
          \/ /\ op.kind = "ChangeBody"
             /\ Operate(op, trk) = [trk EXCEPT !.response = [resp EXCEPT !.body = v]]
          \/ /\ op.kind = "DeleteTLS"
             /\ Operate(op, trk) = [trk EXCEPT !.response = [resp EXCEPT !.tls = v]]
    BY <1>2 DEF OnResponse, Operate
  <2>2. PICK v :
          \/ /\ op.kind \in {"AddResponse", "DeleteResponse", "Transfer"}
             /\ Operate(op, trk) = [trk EXCEPT !.response = [resp EXCEPT !.header = v]]
          \/ /\ op.kind = "TransferTrailer"
             /\ Operate(op, trk) = [trk EXCEPT !.response = [resp EXCEPT !.trailer = v]]
          \/ /\ op.kind = "ChangeBody"
             /\ Operate(op, trk) = [trk EXCEPT !.response = [resp EXCEPT !.body = v]]
          \/ /\ op.kind = "DeleteTLS"
             /\ Operate(op, trk) = [trk EXCEPT !.response = [resp EXCEPT !.tls = v]]
    BY <2>1
  <2>3. trk.response # Nil /\ IsRecorded(resp)
    BY <1>0, <1>2
  <2>4. CASE op.kind \in {"AddResponse", "DeleteResponse", "Transfer"}
    <3> DEFINE new == [resp EXCEPT !.header = v]
    <3>1. SameBut("header", resp, new)
      BY <2>3, OtherPart
    <3>2. op.kind \in Touching("header")
      BY <2>4 DEF Touching
    <3>3. Operate(op, trk) = [trk EXCEPT !.response = new]
      BY <2>2, <2>4
    <3> HIDE DEF new
    <3> QED
      BY <2>3, <3>1, <3>2, <3>3, ResponseKept
  <2>5. CASE op.kind = "TransferTrailer"
    <3> DEFINE new == [resp EXCEPT !.trailer = v]
    <3>1. SameBut("trailer", resp, new)
      BY <2>3, OtherPart
    <3>2. op.kind \in Touching("trailer")
      BY <2>5 DEF Touching
    <3>3. Operate(op, trk) = [trk EXCEPT !.response = new]
      BY <2>2, <2>5
    <3> HIDE DEF new
    <3> QED
      BY <2>3, <3>1, <3>2, <3>3, ResponseKept
  <2>6. CASE op.kind = "ChangeBody"
    <3> DEFINE new == [resp EXCEPT !.body = v]
    <3>1. SameBut("body", resp, new)
      BY <2>3, OtherPart
    <3>2. op.kind \in Touching("body")
      BY <2>6 DEF Touching
    <3>3. Operate(op, trk) = [trk EXCEPT !.response = new]
      BY <2>2, <2>6
    <3> HIDE DEF new
    <3> QED
      BY <2>3, <3>1, <3>2, <3>3, ResponseKept
  <2>7. CASE op.kind = "DeleteTLS"
    <3> DEFINE new == [resp EXCEPT !.tls = v]
    <3>1. SameBut("tls", resp, new)
      BY <2>3, OtherPart
    <3>2. op.kind \in Touching("tls")
      BY <2>7 DEF Touching
    <3>3. Operate(op, trk) = [trk EXCEPT !.response = new]
      BY <2>2, <2>7
    <3> HIDE DEF new
    <3> QED
      BY <2>3, <3>1, <3>2, <3>3, ResponseKept
  <2> QED
    BY <1>2, <2>4, <2>5, <2>6, <2>7 DEF OnResponse
<1> QED
  BY <1>1, <1>2

\* One turn of the loop does, and changes nothing at all if the conditions do
\* not hold or the mutator turns back.
LEMMA MutatedKeeps ==
  ASSUME NilIsNil, NEW m, IsMutator(m), NEW trk, IsTrack(trk), ~Panics(m, trk)
  PROVE  Kept(m.op.kind, trk, Mutated(m, trk))
<1>1. m.op.kind \in OnRequest \cup OnResponse
  BY DEF IsMutator
<1>2. CASE Applies(m, trk) = "false" \/ TurnsBack(m, trk)
  BY <1>2 DEF Mutated, Kept
<1>3. CASE ~(Applies(m, trk) = "false" \/ TurnsBack(m, trk))
  <2>1. Applies(m, trk) = "true"
    BY <1>3, AppliesType DEF Verdicts, Panics
  <2>2. m.op.kind \in OnResponse => trk.response # Nil
    BY <1>3, <2>1 DEF Panics, TurnsBack
  <2>3. Mutated(m, trk) = Operate(m.op, trk)
    BY <1>3 DEF Mutated
  <2> QED
    BY <1>1, <2>2, <2>3, OperateKeeps
<1> QED
  BY <1>2, <1>3

(***************************************************************************)
(* Transcoding                                                             *)
(***************************************************************************)

\* A recorded request is the client's, but for its body.
LEMMA ToRequestType ==
  ASSUME NEW req, IsRequest(req)
  PROVE  /\ IsRequest(ToRequest(req))
         /\ [ToRequest(req) EXCEPT !.body = Nil] = [req EXCEPT !.body = Nil]
         /\ ToRequest(req).header = req.header
<1> DEFINE Made(body) == [method |-> req.method, path |-> req.path, header |-> req.header,
                          trailer |-> req.trailer, body |-> body]
<1>1. req = Made(req.body)
  BY DEF IsRequest
<1>2. \A body : /\ [req EXCEPT !.body = body] = Made(body)
                /\ [Made(body) EXCEPT !.body = Nil] = Made(Nil)
                /\ IsRequest(Made(body)) /\ Made(body).header = req.header
  BY <1>1 DEF IsRequest
<1>3. \E body : ToRequest(req) = Made(body)
  BY <1>2 DEF ToRequest
<1> HIDE DEF Made
<1> QED
  BY <1>2, <1>3

\* A recorded response is the server's, but for the public keys.
LEMMA ToResponseType ==
  ASSUME NilIsNil, NEW resp, resp # Nil, IsResponse(resp)
  PROVE  LET new == ToResponse(resp)
         IN  /\ IsRecorded(new) /\ new # Nil
             /\ new.status = resp.status /\ new.code = resp.code
             /\ new.header = resp.header /\ new.trailer = TrailerOf(resp)
             /\ new.body = resp.body /\ new.tls = cloneTLS(resp.tls)
             /\ new.request = Nil
  BY DEF ToResponse, IsRecorded, NilIsNil

\* Keys that were taken out are not made up by the file.
LEMMA KeysStayOut ==
  ASSUME NEW tls, tls # Nil => IsTLS(tls)
  PROVE  KeyFromJSON(cloneTLS(tls)) = cloneTLS(tls)
<1>1. CASE tls = Nil
  BY <1>1 DEF KeyFromJSON, cloneTLS
<1>2. CASE tls # Nil
  <2>1. cloneTLS(tls).publicKey = Nil
    BY <1>2 DEF cloneTLS, IsTLS
  <2> QED
    BY <2>1 DEF KeyFromJSON
<1> QED
  BY <1>1, <1>2

\* A track as it is played for this request: as it was stored.
PlayedFor(req, trk, new) ==
  /\ IsTrack(new)
  /\ new.request = trk.request
  /\ new.errType = trk.errType /\ new.errMsg = trk.errMsg
  /\ (new.response = Nil) <=> (trk.response = Nil)
  /\ trk.response # Nil =>
       /\ new.response.status = trk.response.status
       /\ new.response.code = trk.response.code
       /\ new.response.header = trk.response.header
       /\ new.response.trailer = trk.response.trailer
       /\ new.response.body = trk.response.body
       /\ new.response.tls = KeyFromJSON(trk.response.tls)
       /\ new.response.request = req

\* That is what comes out of the file and of the injection.
LEMMA Replayed ==
  ASSUME NilIsNil, NEW trk, IsTrack(trk), NEW req
  PROVE  PlayedFor(req, trk, Injected(ThroughFile(trk), req))
<1> DEFINE resp == trk.response
           Made(tls, request) ==
             [status |-> resp.status, code |-> resp.code, header |-> resp.header,
              trailer |-> resp.trailer, body |-> resp.body, tls |-> tls,
              request |-> request]
           Track(response) ==
             [request |-> trk.request, response |-> response, errType |-> trk.errType,
              errMsg |-> trk.errMsg]
           filed == ThroughFile(trk)
           new == Injected(filed, req)
<1>1. trk = Track(resp)
  BY DEF IsTrack
<1>2. CASE resp = Nil
  <2>1. new = trk
    BY <1>2 DEF ThroughFile, Injected
  <2> HIDE DEF new
  <2>2. PlayedFor(req, trk, new)
    BY <1>2, <2>1 DEF PlayedFor
  <2> QED
    BY <2>2 DEF new
<1>3. CASE resp # Nil
  <2>1. resp = Made(resp.tls, resp.request)
    BY <1>3 DEF IsTrack, IsRecorded
  <2>2. filed = Track(Made(KeyFromJSON(resp.tls), Nil))
    <3>1. filed = [[trk EXCEPT !.response.request = Nil] EXCEPT !.response.tls = KeyFromJSON(@)]
      BY <1>3 DEF ThroughFile
    <3>2. [trk EXCEPT !.response.request = Nil] = Track(Made(resp.tls, Nil))
      BY <1>1, <2>1
    <3>3. [Track(Made(resp.tls, Nil)) EXCEPT !.response.tls = KeyFromJSON(@)] =
            Track(Made(KeyFromJSON(resp.tls), Nil))
      OBVIOUS
    <3> QED
      BY <3>1, <3>2, <3>3
  <2>3. filed.response # Nil
    BY <2>2 DEF NilIsNil
  <2>4. new = Track(Made(KeyFromJSON(resp.tls), req))
    <3>1. [Track(Made(KeyFromJSON(resp.tls), Nil)) EXCEPT !.response.request = req] =
            Track(Made(KeyFromJSON(resp.tls), req))
      OBVIOUS
    <3> HIDE DEF filed, Track, Made
    <3> QED
      BY <2>2, <2>3, <3>1 DEF Injected
  <2>5. new.response = Made(KeyFromJSON(resp.tls), req) /\ new.request = trk.request
        /\ new.errType = trk.errType /\ new.errMsg = trk.errMsg
    BY <2>4
  <2>6. new.response # Nil
    BY <2>5 DEF NilIsNil
  <2>7. IsRecorded(new.response)
    BY <2>5 DEF IsRecorded
  <2>8. IsTrack(new)
    BY <2>4, <2>5, <2>7 DEF IsTrack
  <2>9. PlayedFor(req, trk, new)
    <3> HIDE DEF new
    <3> QED
      BY <1>3, <2>5, <2>6, <2>8 DEF PlayedFor
  <2> QED
    BY <2>9
<1> QED
  BY <1>2, <1>3

(***************************************************************************)
(* The life of a track                                                     *)
(***************************************************************************)

\* The list in use is a list of mutators.
LEMMA ListType ==
  ASSUME lists \in Lists
  PROVE  /\ mutators \in {lists.recording, lists.replaying}
         /\ Len(mutators) \in Nat /\ DOMAIN mutators = 1..Len(mutators)
         /\ \A i \in 1..Len(mutators) : IsMutator(mutators[i])
<1>1. IsList(lists.recording) /\ IsList(lists.replaying)
  BY ListsAssumption
<1>2. mutators \in {lists.recording, lists.replaying}
  BY DEF mutators
<1>3. IsList(mutators)
  BY <1>1, <1>2
<1> HIDE DEF mutators
<1> QED
  BY <1>2, <1>3, SequenceType DEF IsList

\* A track made of a live exchange is one.
LEMMA InitInv == ASSUME NilIsNil, Init PROVE MutatorsInv
<1> DEFINE live == exchange.response
           req == ToRequest(exchange.request)
           resp == ToResponse(live)
<1>1. exchange \in Exchanges /\ IsExchange(exchange)
  BY ExchangesAssumption DEF Init
<1>2. /\ IsRequest(req)
      /\ [req EXCEPT !.body = Nil] = [exchange.request EXCEPT !.body = Nil]
  BY <1>1, ToRequestType DEF IsExchange
<1>3. live = Nil => resp = Nil
  BY DEF ToResponse
<1>4. live # Nil =>
        /\ IsRecorded(resp) /\ resp # Nil
        /\ resp.status = live.status /\ resp.code = live.code
        /\ resp.header = live.header /\ resp.trailer = TrailerOf(live)
        /\ resp.body = live.body /\ resp.tls = cloneTLS(live.tls)
        /\ resp.request = Nil
  BY <1>1, ToResponseType DEF IsExchange
<1>5. ~Replaying /\ next = 1 /\ panicked = FALSE /\ replays = 0 /\ lists \in Lists
  BY DEF Init, Replaying
<1>6. /\ track.request = req /\ track.response = resp
      /\ track.errType = IF exchange.error = Nil THEN Nil ELSE Head(exchange.error.types)
      /\ track.errMsg = IF exchange.error = Nil THEN Nil ELSE exchange.error.msg
      /\ track = [request |-> track.request, response |-> track.response,
                  errType |-> track.errType, errMsg |-> track.errMsg]
  BY DEF Init, NewTrack
<1> HIDE DEF live, req, resp
<1>7. ShapeInv
  <2>1. Len(mutators) \in Nat
    BY <1>5, ListType
  <2>2. next \in 1..(Len(mutators) + 1)
    BY <1>5, <2>1
  <2>3. IsTrack(track)
    BY <1>2, <1>3, <1>4, <1>6 DEF IsTrack
  <2> QED
    BY <1>1, <1>5, <2>2, <2>3 DEF ShapeInv
<1>8. KeptInv
  BY <1>3, <1>4, <1>5, <1>6 DEF KeptInv, live
<1>9. PartsInv
  BY <1>2, <1>3, <1>4, <1>6 DEF PartsInv, live
<1>10. PanicInv /\ SplitInv /\ RecipeInv
  BY <1>5 DEF PanicInv, SplitInv, RecipeInv
<1> QED
  BY <1>7, <1>8, <1>9, <1>10 DEF MutatorsInv

\* What the mutators of a list are not about, the next one is not.
LEMMA Untouched ==
  ASSUME lists \in Lists, NEW i \in 1..Len(mutators), NEW part, ~Touched(part)
  PROVE  mutators[i].op.kind \notin Touching(part)
BY ListType DEF Touched

\* The track knows of its error.
LEMMA ErrorKnown ==
  ASSUME ShapeInv, KeptInv
  PROVE  (track.errType = Nil) <=> (exchange.error = Nil)
<1>1. IsExchange(exchange)
  BY ExchangesAssumption DEF ShapeInv
<1> QED
  BY <1>1 DEF KeptInv, IsExchange, IsError

\* A body mutator whose only condition holds sets the body.
LEMMA BodyChanged ==
  ASSUME NEW m, IsMutator(m), NEW trk, IsTrack(trk), Len(m.on) = 1,
         m.op.kind = "ChangeRequestBody"
  PROVE  /\ Evaluate(m.on[1], trk) = "true" => Mutated(m, trk).request.body = m.op.value
         /\ Evaluate(m.on[1], trk) = "false" => Mutated(m, trk) = trk
<1>1. Applies(m, trk) = Evaluate(m.on[1], trk)
  BY AppliesType
<1>2. ~TurnsBack(m, trk)
  BY DEF TurnsBack, Guarded, Transfers
<1>3. Operate(m.op, trk).request.body = m.op.value
  <2>1. Operate(m.op, trk) = [trk EXCEPT !.request.body = m.op.value]
    BY DEF Operate
  <2>2. trk = [request |-> trk.request, response |-> trk.response, errType |-> trk.errType,
               errMsg |-> trk.errMsg]
    BY DEF IsTrack
  <2>3. [trk EXCEPT !.request.body = m.op.value].request
          = [trk.request EXCEPT !.body = m.op.value]
    BY <2>2
  <2>4. trk.request = [method |-> trk.request.method, path |-> trk.request.path,
                       header |-> trk.request.header, trailer |-> trk.request.trailer,
                       body |-> trk.request.body]
    BY DEF IsTrack, IsRequest
  <2>5. [trk.request EXCEPT !.body = m.op.value].body = m.op.value
    BY <2>4
  <2> QED
    BY <2>1, <2>3, <2>5
<1> QED
  BY <1>1, <1>2, <1>3 DEF Mutated

\* Of two mutators under OnErr and OnNoErr, each track meets one.
LEMMA SplitStep ==
  ASSUME ShapeInv, KeptInv, SplitInv, mutators = ByError, next \in 1..Len(mutators),
         track' = Mutated(mutators[next], track), next' = next + 1
  PROVE  /\ next' > 1 /\ exchange.error # Nil => track.request.body' = "err"
         /\ next' > 2 /\ exchange.error = Nil => track.request.body' = "none"
<1> DEFINE m == mutators[next]
           first == Op("ChangeRequestBody", "err", <<P("OnErr")>>)
           second == Op("ChangeRequestBody", "none", <<P("OnNoErr")>>)
<1>1. /\ first.op.kind = "ChangeRequestBody" /\ first.op.value = "err"
      /\ Len(first.on) = 1 /\ first.on[1] = P("OnErr")
      /\ second.op.kind = "ChangeRequestBody" /\ second.op.value = "none"
      /\ Len(second.on) = 1 /\ second.on[1] = P("OnNoErr")
  BY DEF Op
<1>2. Len(ByError) = 2 /\ ByError[1] = first /\ ByError[2] = second
  BY DEF ByError
<1> HIDE DEF first, second
<1>3. IsMutator(m) /\ IsTrack(track)
  BY ListType DEF ShapeInv
<1>4. next \in {1, 2}
  BY <1>2
<1>5. /\ Evaluate(P("OnErr"), track) = Truth(track.errType # Nil)
      /\ Evaluate(P("OnNoErr"), track) = Truth(track.errType = Nil)
  BY DEF Evaluate, Simple, P, OnErr, OnNoErr, HasErr
<1>6. (track.errType = Nil) <=> (exchange.error = Nil)
  BY ErrorKnown
<1>7. CASE next = 1
  <2>1. m = first
    BY <1>2, <1>7
  <2>2. exchange.error # Nil => Mutated(m, track).request.body = "err"
    BY <1>1, <1>3, <1>5, <1>6, <2>1, BodyChanged DEF Truth
  <2> QED
    BY <1>7, <2>2
<1>8. CASE next = 2
  <2>1. m = second
    BY <1>2, <1>8
  <2>2. exchange.error # Nil => Mutated(m, track) = track /\ track.request.body = "err"
    <3>1. exchange.error # Nil => track.request.body = "err"
      BY <1>8 DEF SplitInv
    <3> QED
      BY <1>1, <1>3, <1>5, <1>6, <2>1, <3>1, BodyChanged DEF Truth
  <2>3. exchange.error = Nil => Mutated(m, track).request.body = "none"
    BY <1>1, <1>3, <1>5, <1>6, <2>1, BodyChanged DEF Truth
  <2> QED
    BY <2>2, <2>3
<1> QED
  BY <1>4, <1>7, <1>8

\* An operation on a header or trailer of the response sets that.
LEMMA HeaderChanged ==
  ASSUME NEW trk, IsTrack(trk), trk.response # Nil, NEW header
  PROVE  [trk EXCEPT !.response.header = header].response.header = header
<1> DEFINE resp == trk.response
<1>1. trk = [request |-> trk.request, response |-> resp, errType |-> trk.errType,
             errMsg |-> trk.errMsg]
  BY DEF IsTrack
<1>2. [trk EXCEPT !.response.header = header].response = [resp EXCEPT !.header = header]
  BY <1>1
<1>3. resp = [status |-> resp.status, code |-> resp.code, header |-> resp.header,
              trailer |-> resp.trailer, body |-> resp.body, tls |-> resp.tls,
              request |-> resp.request]
  BY DEF IsTrack, IsRecorded
<1>4. [resp EXCEPT !.header = header].header = header
  BY <1>3
<1> QED
  BY <1>2, <1>4

\* What was recorded is deleted, and the current transaction id put there.
LEMMA RecipeStep ==
  ASSUME NilIsNil, ShapeInv, KeptInv, RecipeInv, mutators = Recipe, track.response # Nil,
         next \in 1..Len(mutators),
         track' = Mutated(mutators[next], track), next' = next + 1
  PROVE  /\ next' = 2 => track.response.header' \in {Nil, <<>>}
         /\ next' > 2 =>
              track.response.header' \in
                IF ~Replaying \/ current.header \in {Nil, <<>>} THEN {Nil, <<>>}
                ELSE {<<Head(current.header)>>}
<1> DEFINE m == mutators[next]
           first == Op("DeleteResponse", "", <<>>)
           second == Op("Transfer", "", <<>>)
           header == track.response.header
<1>1. /\ first.op.kind = "DeleteResponse" /\ first.on = <<>>
      /\ second.op.kind = "Transfer" /\ second.on = <<>>
  BY DEF Op
<1>2. Len(Recipe) = 2 /\ Recipe[1] = first /\ Recipe[2] = second
  BY DEF Recipe
<1> HIDE DEF first, second
<1>3. IsMutator(m) /\ IsTrack(track)
  BY ListType DEF ShapeInv
<1>4. next \in {1, 2}
  BY <1>2
<1>5. CASE next = 1
  <2>1. m = first
    BY <1>2, <1>5
  <2>2. Applies(m, track) = "true"
    BY <1>1, <1>3, <2>1, AppliesType
  <2>3. ~TurnsBack(m, track)
    BY <1>1, <2>1 DEF TurnsBack, Guarded, Transfers
  <2>4. Mutated(m, track) = [track EXCEPT !.response.header = Deleted(header)]
    BY <1>1, <1>3, <2>1, <2>2, <2>3 DEF Mutated, Operate, IsTrack, IsRecorded
  <2>5. Mutated(m, track).response.header = Deleted(header)
    <3>1. \A v : [track EXCEPT !.response.header = v].response.header = v
      BY <1>3, HeaderChanged
    <3> QED
      BY <2>4, <3>1
  <2> QED
    BY <1>5, <2>5 DEF Deleted
<1>6. CASE next = 2
  <2>1. m = second
    BY <1>2, <1>6
  <2>2. Applies(m, track) = "true"
    BY <1>1, <1>3, <2>1, AppliesType
  <2>3. header \in {Nil, <<>>}
    BY <1>6 DEF RecipeInv
  <2>4. CASE ~Replaying
    <3>1. TurnsBack(m, track)
      BY <1>1, <2>1, <2>4 DEF TurnsBack, Transfers, KeptInv
    <3>2. Mutated(m, track) = track
      BY <3>1 DEF Mutated
    <3> QED
      BY <1>6, <2>3, <2>4, <3>2
  <2>5. CASE Replaying
    <3> DEFINE from == current.header
    <3>1. IsRequest(current)
      BY <2>5, ExchangesAssumption DEF ShapeInv
    <3>2. track.response.request = ToRequest(current)
      BY <2>5 DEF KeptInv
    <3>3. /\ track.response.request.header = from
          /\ track.response.request # Nil
      <4> DEFINE req == ToRequest(current)
      <4>1. req.header = from /\ IsRequest(req)
        BY <3>1, ToRequestType
      <4>2. req # Nil
        <5> HIDE DEF req
        <5> QED
          BY <4>1 DEF IsRequest, NilIsNil
      <4> QED
        BY <3>2, <4>1, <4>2
    <3>4. ~TurnsBack(m, track)
      BY <3>3 DEF TurnsBack
    <3>5. Mutated(m, track) = [track EXCEPT !.response.header = Transfer(header, from)]
      BY <1>1, <1>3, <2>1, <2>2, <3>3, <3>4 DEF Mutated, Operate, IsTrack, IsRecorded
    <3>6. Mutated(m, track).response.header = Transfer(header, from)
      <4>1. \A v : [track EXCEPT !.response.header = v].response.header = v
        BY <1>3, HeaderChanged
      <4> QED
        BY <3>5, <4>1
    <3>7. from \in {Nil, <<>>} => Transfer(header, from) \in {Nil, <<>>}
      BY <2>3 DEF Transfer
    <3>8. from \notin {Nil, <<>>} => Transfer(header, from) = <<Head(from)>>
      <4>1. Append(<<>>, Head(from)) = <<Head(from)>>
        OBVIOUS
      <4> QED
        BY <2>3, <4>1 DEF Transfer, AddValue
    <3> QED
      BY <1>6, <2>5, <3>6, <3>7, <3>8
  <2> QED
    BY <2>4, <2>5
<1> QED
  BY <1>4, <1>5, <1>6

\* An operation on the response, the request or the error is asked for by its
\* own mutators only.
LEMMA MutateInv == ASSUME NilIsNil, MutatorsInv, Mutate PROVE MutatorsInv'
<1> DEFINE m == mutators[next]
<1>1. /\ ~Done /\ ~panicked
      /\ exchange' = exchange /\ current' = current /\ lists' = lists /\ replays' = replays
      /\ mutators' = mutators /\ (Replaying' <=> Replaying)
  BY DEF Mutate, mutators, Replaying
<1>2. ShapeInv /\ KeptInv /\ PartsInv /\ SplitInv /\ RecipeInv
  BY DEF MutatorsInv
<1>3. /\ Len(mutators) \in Nat /\ next \in 1..Len(mutators)
      /\ IsMutator(m)
  <2>1. Len(mutators) \in Nat /\ next \in 1..(Len(mutators) + 1) /\ ~(next > Len(mutators))
    BY <1>1, <1>2, ListType DEF ShapeInv, Done
  <2>2. next \in 1..Len(mutators)
    BY <2>1
  <2> QED
    BY <1>2, <2>1, <2>2, ListType DEF ShapeInv
<1>4. CASE Panics(m, track)
  <2>1. panicked' = TRUE /\ track' = track /\ next' = next
    BY <1>4 DEF Mutate
  <2>2. \A part : Touched(part)' <=> Touched(part)
    BY <1>1 DEF Touched
  <2>3. ShapeInv'
    BY <1>1, <1>2, <2>1 DEF ShapeInv
  <2>4. KeptInv'
    BY <1>1, <1>2, <2>1 DEF KeptInv
  <2>5. PartsInv'
    BY <1>1, <1>2, <2>1, <2>2 DEF PartsInv
  <2>6. PanicInv'
    BY <1>1, <1>4, <2>1 DEF PanicInv, Done
  <2>7. SplitInv'
    BY <1>1, <1>2, <2>1 DEF SplitInv
  <2>8. RecipeInv'
    BY <1>1, <1>2, <2>1 DEF RecipeInv
  <2> QED
    BY <2>3, <2>4, <2>5, <2>6, <2>7, <2>8 DEF MutatorsInv
<1>5. CASE ~Panics(m, track)
  <2>1. track' = Mutated(m, track) /\ next' = next + 1 /\ panicked' = panicked
    BY <1>5 DEF Mutate
  <2>2. Kept(m.op.kind, track, track')
    BY <1>2, <1>3, <1>5, <2>1, MutatedKeeps DEF ShapeInv
  <2>3. \A part : Touched(part)' <=> Touched(part)
    BY <1>1 DEF Touched
  <2>4. \A part : ~Touched(part) => m.op.kind \notin Touching(part)
    BY <1>2, <1>3, Untouched DEF ShapeInv
  <2>5. ShapeInv'
    <3>1. next' \in 1..(Len(mutators) + 1)
      BY <1>3, <2>1
    <3> QED
      BY <1>1, <1>2, <2>1, <2>2, <3>1 DEF ShapeInv, Kept
  <2>6. KeptInv'
    BY <1>1, <1>2, <2>2 DEF KeptInv, Kept
  <2>7. PartsInv'
    <3> HIDE DEF m
    <3> QED
      BY <1>1, <1>2, <2>2, <2>3, <2>4 DEF PartsInv, Kept
  <2>8. PanicInv'
    BY <1>1, <2>1 DEF PanicInv
  <2>9. SplitInv'
    BY <1>1, <1>2, <1>3, <1>5, <2>1, SplitStep DEF SplitInv
  <2>10. RecipeInv'
    <3>1. (track.response # Nil)' => track.response # Nil
      BY <2>2 DEF Kept
    <3> QED
      BY <1>1, <1>2, <1>3, <1>5, <2>1, <3>1, RecipeStep DEF RecipeInv
  <2> QED
    BY <2>5, <2>6, <2>7, <2>8, <2>9, <2>10 DEF MutatorsInv
<1> QED
  BY <1>4, <1>5

\* The file and the injection keep what was recorded.
LEMMA ReplayInv == ASSUME NilIsNil, MutatorsInv, Replay PROVE MutatorsInv'
<1>1. /\ exchange' = exchange /\ lists' = lists /\ panicked' = FALSE
      /\ current' \in Currents /\ replays' = replays + 1 /\ next' = 1
      /\ track' = Injected(ThroughFile(track), ToRequest(current'))
  BY DEF Replay, MutatorsInv, ShapeInv
<1>2. ShapeInv /\ KeptInv /\ PartsInv
  BY DEF MutatorsInv
<1>3. replays' \in Nat /\ Replaying'
  BY <1>1, <1>2 DEF ShapeInv, Replaying
<1>4. PlayedFor(ToRequest(current'), track, track')
  BY <1>1, <1>2, Replayed DEF ShapeInv
<1>5. \A part : Touched(part)' <=> Touched(part)
  BY <1>1 DEF Touched
<1>6. KeyFromJSON(cloneTLS(exchange.response.tls)) = cloneTLS(exchange.response.tls)
        \/ exchange.response = Nil
  <2>1. IsExchange(exchange)
    BY <1>2, ExchangesAssumption DEF ShapeInv
  <2> QED
    BY <2>1, KeysStayOut DEF IsExchange, IsResponse
<1>7. ShapeInv'
  <2>1. Len(mutators') \in Nat
    <3>1. mutators' = lists.replaying
      BY <1>1, <1>3 DEF mutators
    <3>2. IsList(lists.replaying)
      BY <1>2, ListsAssumption DEF ShapeInv
    <3> QED
      BY <3>1, <3>2, SequenceType DEF IsList
  <2>2. next' \in 1..(Len(mutators') + 1)
    BY <1>1, <2>1
  <2> QED
    BY <1>1, <1>2, <1>3, <1>4, <2>2 DEF ShapeInv, PlayedFor
<1>8. KeptInv'
  BY <1>1, <1>2, <1>3, <1>4 DEF KeptInv, PlayedFor
<1>9. PartsInv'
  BY <1>1, <1>2, <1>4, <1>5, <1>6 DEF PartsInv, KeptInv, PlayedFor
<1>10. PanicInv'
  BY <1>1 DEF PanicInv
<1>11. SplitInv'
  BY <1>1 DEF SplitInv
<1>12. RecipeInv'
  BY <1>1 DEF RecipeInv
<1> QED
  BY <1>7, <1>8, <1>9, <1>10, <1>11, <1>12 DEF MutatorsInv

\* The parts of MutatorsInv hold in every state: a track keeps its shape, its
\* error, and each part that no mutator is about, through every loop and every
\* trip through the file.
THEOREM MutatorsInvariance == ASSUME NilIsNil PROVE Spec => []MutatorsInv
<1>1. Init => MutatorsInv
  BY InitInv
<1>2. MutatorsInv /\ [Next]_vars => MutatorsInv'
  <2> SUFFICES ASSUME MutatorsInv, [Next]_vars PROVE MutatorsInv'
    OBVIOUS
  <2>1. CASE Mutate
    BY <2>1, MutateInv
  <2>2. CASE Replay
    BY <2>2, ReplayInv
  <2>3. CASE UNCHANGED vars
    <3>1. /\ exchange' = exchange /\ current' = current /\ track' = track /\ lists' = lists
          /\ replays' = replays /\ next' = next /\ panicked' = panicked
      BY <2>3 DEF vars
    <3>2. mutators' = mutators /\ Replaying' = Replaying /\ Done' = Done
      BY <3>1 DEF mutators, Replaying, Done
    <3>3. \A part : Touched(part)' = Touched(part)
      BY <3>1 DEF Touched
    <3>4. ShapeInv' /\ KeptInv' /\ PartsInv'
      BY <3>1, <3>2, <3>3 DEF MutatorsInv, ShapeInv, KeptInv, PartsInv
    <3>5. PanicInv' /\ SplitInv' /\ RecipeInv'
      BY <3>1, <3>2 DEF MutatorsInv, PanicInv, SplitInv, RecipeInv
    <3> QED
      BY <3>4, <3>5 DEF MutatorsInv
  <2> QED
    BY <2>1, <2>2, <2>3 DEF Next
<1> QED
  BY <1>1, <1>2, PTL DEF Spec

(***************************************************************************)
(* The theorems                                                            *)
(***************************************************************************)

\* OnErr and OnNoErr share out the tracks, whatever was recorded and however
\* often it was played: HasErr and HasNoErr are both the wrong way round.
THEOREM ErrorsStaySplit == ASSUME NilIsNil PROVE Spec => []ErrorsAreSplit
<1>1. MutatorsInv => ErrorsAreSplit
  <2> SUFFICES ASSUME MutatorsInv, Done, mutators = ByError
               PROVE  track.request.body = IF exchange.error # Nil THEN "err" ELSE "none"
    BY DEF ErrorsAreSplit
  <2>1. Len(ByError) = 2
    BY DEF ByError
  <2>2. next \in Nat /\ next > 2
    BY <2>1 DEF Done, MutatorsInv, ShapeInv
  <2> QED
    BY <2>2 DEF MutatorsInv, SplitInv
<1> QED
  BY <1>1, MutatorsInvariance, PTL

\* The README's recipe hands out the transaction id of the current request and
\* of no other.
THEOREM RecipeAlwaysDelivers == ASSUME NilIsNil PROVE Spec => []RecipeDelivers
<1>1. MutatorsInv => RecipeDelivers
  <2> SUFFICES ASSUME MutatorsInv, Done, track.response # Nil, mutators = Recipe
               PROVE  track.response.header \in
                        IF ~Replaying \/ current.header \in {Nil, <<>>} THEN {Nil, <<>>}
                        ELSE {<<Head(current.header)>>}
    BY DEF RecipeDelivers
  <2>1. Len(Recipe) = 2
    BY DEF Recipe
  <2>2. next \in Nat /\ next > 2
    BY <2>1 DEF Done, MutatorsInv, ShapeInv
  <2> QED
    BY <2>2 DEF MutatorsInv, RecipeInv
<1> QED
  BY <1>1, MutatorsInvariance, PTL

\* A list panics on its mutator that is next, of a track without a response.
LEMMA WherePanics ==
  ASSUME MutatorsInv, panicked
  PROVE  /\ next \in 1..Len(mutators) /\ DOMAIN mutators = 1..Len(mutators)
         /\ IsMutator(mutators[next]) /\ Panics(mutators[next], track)
         /\ track.response = Nil /\ track.errType # Nil
<1>1. ShapeInv /\ KeptInv /\ ~Done /\ Panics(mutators[next], track)
  BY DEF MutatorsInv, PanicInv
<1>2. /\ Len(mutators) \in Nat /\ DOMAIN mutators = 1..Len(mutators)
      /\ \A i \in 1..Len(mutators) : IsMutator(mutators[i])
  BY <1>1, ListType DEF ShapeInv
<1>3. next \in 1..Len(mutators)
  BY <1>1, <1>2 DEF ShapeInv, Done
<1>4. IsMutator(mutators[next])
  BY <1>2, <1>3
<1>5. track.response = Nil
  BY <1>1, <1>4, AppliesType DEF Panics
<1>6. IsExchange(exchange)
  BY <1>1, ExchangesAssumption DEF ShapeInv
<1>7. exchange.error # Nil
  BY <1>1, <1>5, <1>6 DEF IsExchange, KeptInv
<1> QED
  BY <1>1, <1>2, <1>3, <1>4, <1>5, <1>7, ErrorKnown

\* OnNoErr, asked first, keeps the status of a failed transport from being
\* looked at, whatever the conditions behind it and the mutators are.
THEOREM LastOnAlwaysGuards == ASSUME NilIsNil PROVE Spec => []LastOnGuards
<1>1. MutatorsInv => LastOnGuards
  <2> SUFFICES ASSUME MutatorsInv, panicked,
                      \A i \in DOMAIN mutators : /\ Len(mutators[i].on) > 1
                                                /\ Head(mutators[i].on) = P("OnNoErr")
               PROVE  FALSE
    BY DEF LastOnGuards, MutatorsInv, ShapeInv
  <2> DEFINE m == mutators[next]
  <2>1. IsMutator(m) /\ Panics(m, track) /\ track.errType # Nil
        /\ Len(m.on) > 1 /\ Head(m.on) = P("OnNoErr")
    BY WherePanics
  <2> HIDE DEF m
  <2>2. Len(m.on) \in Nat /\ m.on[1] = P("OnNoErr")
    BY <2>1, SequenceType DEF IsMutator
  <2>3. Evaluate(m.on[1], track) = "false"
    BY <2>1, <2>2 DEF Evaluate, Simple, P, OnNoErr, HasErr, Truth
  <2>4. Applies(m, track) = "false"
    BY <2>1, <2>2, <2>3, AppliesType
  <2> QED
    BY <2>1, <2>4 DEF Panics, Panic
<1> QED
  BY <1>1, MutatorsInvariance, PTL

LEMMA ShortSequences ==
  ASSUME NEW S, NEW a \in S, NEW b \in S
  PROVE  /\ <<a>> \in Seq(S) /\ Len(<<a>>) = 1 /\ <<a>>[1] = a
         /\ <<a, b>> \in Seq(S)
  OBVIOUS

\* What is played for an error ends in its message.
LEMMA MessageEnds ==
  ASSUME NEW errType, NEW msg, IsSequence(msg)
  PROVE  /\ EndsWith(Message(errType, msg), msg)
         /\ errType \notin {"*net.OpError", "*os.SyscallError", "*net.DNSError"} =>
              Head(Message(errType, msg)) = errType
<1> DEFINE T == {msg[i] : i \in DOMAIN msg} \cup {errType, "govcr govcr", "lookup govcr on govcr"}
<1>1. msg \in Seq(T)
  <2>1. {msg[i] : i \in DOMAIN msg} \subseteq T
    OBVIOUS
  <2> QED
    BY <2>1, SeqMonotonic DEF IsSequence
<1>2. errType \in T /\ "govcr govcr" \in T /\ "lookup govcr on govcr" \in T
  OBVIOUS
<1> HIDE DEF T
<1>3. ASSUME NEW before \in Seq(T)
      PROVE  EndsWith(before \o msg, msg)
  <2>1. Len(before) \in 0..Len(before \o msg) /\ Len(before \o msg) = Len(before) + Len(msg)
    BY <1>1
  <2>2. \A i \in DOMAIN msg : (before \o msg)[Len(before) + i] = msg[i]
    BY <1>1
  <2> QED
    BY <2>1, <2>2 DEF EndsWith
<1>4. /\ <<"govcr govcr", errType>> \in Seq(T) /\ <<"lookup govcr on govcr">> \in Seq(T)
      /\ <<errType>> \in Seq(T) /\ msg \o <<errType>> \in Seq(T)
  <2>1. <<"govcr govcr", errType>> \in Seq(T)
    BY <1>2, ShortSequences
  <2>2. <<"lookup govcr on govcr">> \in Seq(T)
    BY <1>2, ShortSequences
  <2>3. <<errType>> \in Seq(T)
    BY <1>2, ShortSequences
  <2>4. msg \o <<errType>> \in Seq(T)
    BY <1>1, <2>3, ConcatProperties
  <2> QED
    BY <2>1, <2>2, <2>3, <2>4
<1>5. Message(errType, msg) \in
        {<<"govcr govcr", errType>> \o msg, (msg \o <<errType>>) \o msg,
         <<"lookup govcr on govcr">> \o msg, <<errType>> \o msg}
  BY DEF Message
<1>6. errType \notin {"*net.OpError", "*os.SyscallError", "*net.DNSError"} =>
        Message(errType, msg) = <<errType>> \o msg
  BY DEF Message
<1>7. Head(<<errType>> \o msg) = errType
  <2> DEFINE s == <<errType>> \o msg
  <2>1. s \in Seq(T) /\ s[1] = errType /\ Len(s) = 1 + Len(msg) /\ Len(msg) \in Nat
    <3>1. <<errType>> \in Seq(T) /\ Len(<<errType>>) = 1 /\ <<errType>>[1] = errType
      BY <1>2, ShortSequences
    <3>2. Len(msg) \in Nat
      BY <1>1, LenProperties
    <3> QED
      BY <1>1, <3>1, <3>2, ConcatProperties
  <2> HIDE DEF s
  <2>2. Head(s) = s[1]
    BY <2>1
  <2> QED
    BY <2>1, <2>2 DEF s
<1> QED
  BY <1>3, <1>4, <1>5, <1>6, <1>7

\* A client of a later session is played what the live client has once it has
\* read the body, in every part that no mutator is about.
THEOREM ReplayStaysFaithful == ASSUME NilIsNil PROVE Spec => []ReplayIsFaithful
<1>1. MutatorsInv => ReplayIsFaithful
  <2> SUFFICES ASSUME MutatorsInv PROVE ReplayIsFaithful
    OBVIOUS
  <2> DEFINE live == exchange.response
             resp == ToHTTPResponse(track)
             err == ToErr(track)
  <2>1. ShapeInv /\ KeptInv /\ PartsInv /\ IsTrack(track)
    BY DEF MutatorsInv, ShapeInv
  <2>2. IsExchange(exchange)
    BY <2>1, ExchangesAssumption DEF ShapeInv
  <2>3. live = Nil => resp = Nil
    BY <2>1 DEF KeptInv, ToHTTPResponse
  <2>4. live # Nil =>
          /\ resp # Nil
          /\ resp.status = track.response.status /\ resp.code = track.response.code
          /\ resp.header = track.response.header /\ resp.trailer = track.response.trailer
          /\ resp.body = EmptyIfNil(track.response.body) /\ resp.tls = track.response.tls
          /\ resp.request = [track.request EXCEPT !.body = Nil]
    <3> SUFFICES ASSUME live # Nil
                 PROVE  /\ resp # Nil
                        /\ resp.status = track.response.status
                        /\ resp.code = track.response.code
                        /\ resp.header = track.response.header
                        /\ resp.trailer = track.response.trailer
                        /\ resp.body = EmptyIfNil(track.response.body)
                        /\ resp.tls = track.response.tls
                        /\ resp.request = [track.request EXCEPT !.body = Nil]
      OBVIOUS
    <3>1. track.response # Nil
      BY <2>1 DEF KeptInv
    <3>2. resp = [status |-> track.response.status, code |-> track.response.code,
                  header |-> track.response.header, trailer |-> track.response.trailer,
                  body |-> EmptyIfNil(track.response.body), tls |-> track.response.tls,
                  request |-> [track.request EXCEPT !.body = Nil]]
      BY <3>1 DEF ToHTTPResponse, RequestOf
    <3> HIDE DEF resp
    <3>3. resp # Nil
      BY <3>2 DEF NilIsNil
    <3> QED
      BY <3>2, <3>3
  <2>5. (track.errType = Nil) <=> (exchange.error = Nil)
    BY <2>1, ErrorKnown
  <2>6. exchange.error = Nil => err = Nil
    BY <2>5 DEF ToErr
  <2>7. ASSUME exchange.error # Nil
        PROVE  LET type == Head(exchange.error.types)
               IN  /\ err # Nil
                   /\ EndsWith(err.msg, exchange.error.msg)
                   /\ IF type \in {"*net.OpError", "*os.SyscallError", "*net.DNSError"}
                      THEN Head(err.types) = type ELSE Head(err.msg) = type
    <3> DEFINE type == Head(exchange.error.types)
               inner == <<"*errors.withStack", "*trkerr.ErrTransportFailure">>
    <3>1. /\ track.errMsg = exchange.error.msg /\ track.errType = type
          /\ IsSequence(exchange.error.msg)
      BY <2>1, <2>2, <2>7 DEF KeptInv, IsExchange, IsError
    <3>2. err = [types |-> (IF type \in Recreated THEN <<type>> ELSE <<>>) \o inner,
                 msg |-> Message(type, exchange.error.msg), timeout |-> FALSE]
      BY <2>5, <2>7, <3>1 DEF ToErr
    <3>3. Head(<<type>> \o inner) = type
      OBVIOUS
    <3> HIDE DEF err, inner, type
    <3>4. err # Nil
      BY <3>2 DEF NilIsNil
    <3>5. /\ EndsWith(err.msg, exchange.error.msg)
          /\ type \notin {"*net.OpError", "*os.SyscallError", "*net.DNSError"} =>
               Head(err.msg) = type
      BY <3>1, <3>2, MessageEnds
    <3>6. type \in {"*net.OpError", "*os.SyscallError", "*net.DNSError"} => Head(err.types) = type
      BY <3>2, <3>3 DEF Recreated
    <3> QED
      BY <3>4, <3>5, <3>6 DEF type
  <2>8. live # Nil =>
          /\ \A part \in {"status", "code", "header"} :
               ~Touched(part) => resp[part] = live[part]
          /\ ~Touched("body") => resp.body = EmptyIfNil(live.body)
          /\ ~Touched("trailer") => resp.trailer = ReadBody(live).trailer
          /\ ~Touched("tls") /\ live.tls # Nil =>
               resp.tls = [live.tls EXCEPT !.publicKey = Nil]
          /\ ~Touched("request") =>
               resp.request = [exchange.request EXCEPT !.body = Nil]
    <3> HIDE DEF resp
    <3> QED
      BY <2>1, <2>4 DEF PartsInv, KeptInv, cloneTLS, TrailerOf
  <2> HIDE DEF live, resp, err
  <2> QED
    BY <2>3, <2>4, <2>6, <2>7, <2>8 DEF ReplayIsFaithful, Recreated, live, resp, err
<1> QED
  BY <1>1, MutatorsInvariance, PTL
=============================================================================
