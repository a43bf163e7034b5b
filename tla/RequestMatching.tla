-------------------------- MODULE RequestMatching --------------------------
(***************************************************************************)
(* The life of one recorded request: sent and recorded in one session,     *)
(* written to the file and read back any number of times, and compared     *)
(* with a request of a later session by the matchers govcr supplies.       *)
(*                                                                         *)
(* A request is copied on its way (three times before a matcher sees it)   *)
(* and so is the track; a definition with an underscore in its name is     *)
(* what a bug could make of the one that follows it.                       *)
(***************************************************************************)
EXTENDS Naturals, Sequences, FiniteSets, Functions

CONSTANTS
  Requests,      \* the http.Requests a client may send
  NilMatchers,   \* what WithRequestMatchers was given: nothing ...
  MethodURL,     \* ... or NewMethodURLRequestMatchers
  Texts,         \* strings, which in Go are any bytes
  AsUTF8,        \* what encoding/json writes for a string
  Nil

VARIABLES
  matchers,  \* the matchers of the VCR
  sent,      \* the request that was recorded
  recorded,  \* Track.Request
  loaded,    \* the track was read from a file
  asked,     \* the last request that was compared with the track
  verdict    \* and whether they matched

vars == <<matchers, sent, recorded, loaded, asked, verdict>>

(***************************************************************************)
(* What a client may send.                                                 *)
(***************************************************************************)

\* A map of keys to the sequences of their values.
IsFields(fields) ==
  IsFiniteSet(DOMAIN fields) /\ fields \in [DOMAIN fields -> Seq(Texts)]

\* The user information of a URL is a text to escape (one with special
\* characters) or not, escaped so many times already.
Userinfo(text, escapes) == [text |-> text, escapes |-> escapes]

IsUser(user) == user = Nil \/ user = Userinfo(user.text, user.escapes)

\* "place" stands for all the fields of a URL that say where it leads, scheme and
\* host, path and query and fragment.  The other two are how parts of it were
\* written: RawFragment the fragment, OmitHost an empty host.
IsURL(url) ==
  /\ url = [place |-> url.place, rawFragment |-> url.rawFragment,
            omitHost |-> url.omitHost, user |-> url.user]
  /\ url.place \in Texts /\ url.rawFragment \in Texts /\ IsUser(url.user)

IsRequest(req) ==
  /\ req = [method |-> req.method, url |-> req.url, header |-> req.header, body |-> req.body,
            trailer |-> req.trailer]
  /\ IsURL(req.url) /\ IsFields(req.header) /\ IsFields(req.trailer)

ASSUME RequestsAssumption == \A req \in Requests : IsRequest(req)

\* Bytes that are not UTF-8 are replaced by U+FFFD, which is.
ASSUME UTF8Assumption ==
  \A text \in Texts : AsUTF8[text] \in Texts /\ AsUTF8[AsUTF8[text]] = AsUTF8[text]

(***************************************************************************)
(* URLs                                                                    *)
(***************************************************************************)

\* Userinfo.String escapes what needs escaping; an absent one has no text.
UserString(user) ==
  IF user = Nil THEN Userinfo("", 0)
  ELSE IF user.text = "special" THEN Userinfo("special", user.escapes + 1)
  ELSE user

\* cloneURL makes the user of the copy from the escaped text of the original, and
\* leaves out OmitHost.
cloneURL(url) ==
  [place |-> url.place, rawFragment |-> url.rawFragment, omitHost |-> FALSE,
   user |-> IF url.user = Nil THEN Nil ELSE UserString(url.user)]

(***************************************************************************)
(* Copies: CloneHTTPRequest, ToRequest and Request.Clone.  Headers and     *)
(* trailers are copied value by value.                                     *)
(***************************************************************************)

\* Reading a body leaves the bytes read in its place; no body stays none in
\* ToRequest, but CloneHTTPRequest and Request.Clone make an empty one of it.
EmptyIfNil(body) == IF body = Nil THEN "" ELSE body

CloneHTTPRequest(req) ==
  [req EXCEPT !.url = cloneURL(@), !.body = EmptyIfNil(@)]

ToRequest(req) == [req EXCEPT !.url = cloneURL(@)]

Clone(req) == [req EXCEPT !.url = cloneURL(@), !.body = EmptyIfNil(@)]

\* json.Marshal replaces what is not UTF-8, but for the body, which is in base64;
\* methods and keys are ASCII.  It finds no exported field in url.Userinfo and
\* writes {}, which json.Unmarshal reads as a Userinfo with no text.
FieldsThroughJSON(fields) ==
  [key \in DOMAIN fields |-> [i \in DOMAIN fields[key] |-> AsUTF8[fields[key][i]]]]

URLThroughJSON(url) ==
  [place |-> AsUTF8[url.place], rawFragment |-> AsUTF8[url.rawFragment],
   omitHost |-> url.omitHost,
   user |-> IF url.user = Nil THEN Nil ELSE Userinfo("", 0)]

ThroughJSON(req) ==
  [method |-> req.method, url |-> URLThroughJSON(req.url),
   header |-> FieldsThroughJSON(req.header), body |-> req.body,
   trailer |-> FieldsThroughJSON(req.trailer)]

(***************************************************************************)
(* Matchers                                                                *)
(***************************************************************************)

Count(values, value) == Cardinality({i \in DOMAIN values : values[i] = value})

\* The inbox: every value put in by one side is taken out by the other.
InboxIsEmpty_AnyCount(values1, values2) ==
  \A i \in DOMAIN values1 : \E j \in DOMAIN values2 : values1[i] = values2[j]
InboxIsEmpty(values1, values2) ==
  \A value \in Range(values1) \cup Range(values2) :
    Count(values1, value) = Count(values2, value)

areHTTPHeadersEqual(headers1, headers2) ==
  /\ Cardinality(DOMAIN headers1) = Cardinality(DOMAIN headers2)
  /\ \A key \in DOMAIN headers1 :
       /\ key \in DOMAIN headers2
       /\ Len(headers1[key]) = Len(headers2[key])
       /\ InboxIsEmpty(headers1[key], headers2[key])

HeaderMatcher(req, trk)  == areHTTPHeadersEqual(req.header, trk.header)
MethodMatcher(req, trk)  == req.method = trk.method

\* RawFragment and OmitHost are not compared.
URLMatcher_DeepEqual(req, trk) ==
  req.url.place = trk.url.place /\ req.url.user = trk.url.user
URLMatcher(req, trk) ==
  req.url.place = trk.url.place /\ UserString(req.url.user) = UserString(trk.url.user)

BodyMatcher(req, trk)    == EmptyIfNil(req.body) = EmptyIfNil(trk.body)
TrailerMatcher(req, trk) == areHTTPHeadersEqual(req.trailer, trk.trailer)

MethodURLMatch(req, trk) == MethodMatcher(req, trk) /\ URLMatcher(req, trk)

StrictMatch(req, trk) ==
  /\ HeaderMatcher(req, trk)
  /\ MethodMatcher(req, trk)
  /\ URLMatcher(req, trk)
  /\ BodyMatcher(req, trk)
  /\ TrailerMatcher(req, trk)

\* NewVCR takes the strict matchers if it was given none.
Match(req, trk) ==
  IF matchers = NilMatchers THEN StrictMatch(req, trk) ELSE MethodURLMatch(req, trk)

(***************************************************************************)
(* The life of the track                                                   *)
(***************************************************************************)

Init ==
  /\ matchers \in {NilMatchers, MethodURL}
  /\ sent = Nil
  /\ recorded = Nil
  /\ loaded = FALSE
  /\ asked = Nil
  /\ verdict = FALSE

\* RoundTrip finds no track, goes live and records; the track is saved.
Record(req) ==
  /\ recorded = Nil
  /\ sent' = req
  /\ recorded' = ToRequest(CloneHTTPRequest(req))
  /\ UNCHANGED <<matchers, loaded, asked, verdict>>

\* The file is written and a new session loads it.
Reload ==
  /\ recorded # Nil
  /\ recorded' = ThroughJSON(recorded)
  /\ loaded' = TRUE
  /\ asked' = Nil
  /\ verdict' = FALSE
  /\ UNCHANGED <<matchers, sent>>

\* RoundTrip copies the request, SeekTrack transcodes the copy, trackMatches
\* copies both sides for the matchers.
Ask(req) ==
  /\ loaded
  /\ asked' = req
  /\ verdict' = Match(Clone(ToRequest(CloneHTTPRequest(req))), Clone(recorded))
  /\ UNCHANGED <<matchers, sent, recorded, loaded>>

Next == Reload \/ \E req \in Requests : Record(req) \/ Ask(req)

Spec == Init /\ [][Next]_vars

(***************************************************************************)
(* Properties                                                              *)
(***************************************************************************)

\* One sequence lists the values of the other in some order.
Reordered(values1, values2) ==
  \E order \in [DOMAIN values1 -> DOMAIN values2] :
    /\ {order[i] : i \in DOMAIN order} = DOMAIN values2
    /\ Len(values1) = Len(values2)
    /\ \A i \in DOMAIN values1 : values1[i] = values2[order[i]]

SameFields(fields1, fields2) ==
  /\ DOMAIN fields1 = DOMAIN fields2
  /\ \A key \in DOMAIN fields1 : Reordered(fields1[key], fields2[key])

\* URLs that lead to one place as one user, however that is written.
SameURL(url1, url2) ==
  url1.place = url2.place /\ UserString(url1.user) = UserString(url2.user)

\* What the README calls the same request: "headers, method, full URL, body,
\* and trailers".
Same(req1, req2) ==
  /\ req1.method = req2.method
  /\ SameURL(req1.url, req2.url)
  /\ matchers = NilMatchers =>
       /\ SameFields(req1.header, req2.header)
       /\ SameFields(req1.trailer, req2.trailer)
       /\ EmptyIfNil(req1.body) = EmptyIfNil(req2.body)

\* A request the file can hold: no user information, and its texts are UTF-8.
NoUser(user) == UserString(user) = Userinfo("", 0)

IsUTF8(fields) ==
  \A key \in DOMAIN fields : \A i \in DOMAIN fields[key] :
    AsUTF8[fields[key][i]] = fields[key][i]

Survives(req) ==
  /\ NoUser(req.url.user) /\ AsUTF8[req.url.place] = req.url.place
  /\ IsUTF8(req.header) /\ IsUTF8(req.trailer)

\* If the file can hold the request that was recorded, then after any number of
\* saves and loads, and with all the copies on the way, the matchers accept
\* exactly the requests, of whatever kind, that are the same, header values in
\* any order.
MatchesExactly == (asked # Nil /\ Survives(sent)) => (verdict <=> Same(asked, sent))

\* "Run your test once to produce the cassette; from this point forward, when
\* the test runs again, it will use the cassette": the request that was recorded
\* matches its own track.
RecordedMatchesAgain == (asked # Nil /\ asked = sent) => verdict
=============================================================================
