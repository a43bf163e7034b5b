------------------------- MODULE MCRequestMatching -------------------------
(***************************************************************************)
(* Instances of RequestMatching for TLC: requests that differ in one part  *)
(* from a plain one, with all headers of two keys and up to two values;    *)
(* some have text that is not UTF-8, and others what the file makes of it. *)
(***************************************************************************)
EXTENDS RequestMatching

Values   == {"x", "y"}
Lists(values) == UNION {[1..n -> values] : n \in 0..2}
Fields(keys, values) == UNION {[ks -> Lists(values)] : ks \in SUBSET keys}
NoFields == [key \in {} |-> <<>>]

\* "latin" is in ISO 8859-1; replaced is what its letters become.
Bytes    == {"latin", "replaced"}
MCTexts  == Values \cup Bytes \cup {"", "here", "there"}
MCAsUTF8 == [text \in MCTexts |-> IF text = "latin" THEN "replaced" ELSE text]

URL(place, rawFragment, omitHost, user) ==
  [place |-> place, rawFragment |-> rawFragment, omitHost |-> omitHost, user |-> user]

Here == URL("here", "", FALSE, Nil)

Request(method, url, header, body, trailer) ==
  [method |-> method, url |-> url, header |-> header, body |-> body, trailer |-> trailer]

Users == {Nil} \cup {Userinfo(text, 0) : text \in {"", "plain", "special"}}

WithUsers ==
  {Request("GET", URL(place, "", FALSE, user), NoFields, Nil, NoFields) :
     place \in {"here", "there"}, user \in Users}

MCRequests ==
  {Request("GET", Here, header, Nil, NoFields) :
     header \in Fields({"Accept", "Cookie"}, Values) \cup Fields({"Accept"}, Values \cup Bytes)}
  \cup {Request("GET", Here, NoFields, Nil, trailer) :
          trailer \in Fields({"Digest"}, Values \cup Bytes)}
  \cup {Request(method, URL(place, "", FALSE, Nil), NoFields, body, NoFields) :
          method \in {"GET", "POST"}, place \in {"here", "there"}, body \in {Nil, "", "data"}}
  \cup {Request("GET", URL(place, rawFragment, omitHost, user), NoFields, Nil, NoFields) :
          place \in {"here", "there"} \cup Bytes, rawFragment \in {"", "latin"},
          omitHost \in BOOLEAN, user \in Users}
=============================================================================
