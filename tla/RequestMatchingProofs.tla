----------------------- MODULE RequestMatchingProofs -----------------------
(***************************************************************************)
(* Proof that the matchers of module RequestMatching accept exactly the    *)
(* recorded request, if the file can hold it, whatever they are asked.     *)
(*                                                                         *)
(* The matchers count the values of a header, the property reorders them.  *)
(* Equal numbers of each value give a bijection for each between the       *)
(* places it is at, and these make up the reordering.                      *)
(***************************************************************************)
EXTENDS RequestMatching, FiniteSetTheorems, SequenceTheorems, TLAPS

\* A nil pointer is neither a request nor a Userinfo.
NilIsNoRecord ==
  /\ \A method, url, header, body, trailer :
       Nil # [method |-> method, url |-> url, header |-> header, body |-> body,
              trailer |-> trailer]
  /\ \A text, escapes : Nil # Userinfo(text, escapes)

\* A copy that the matchers take for the request: a body of no bytes may stand for
\* none, the user may be escaped, and how the URL was written may be forgotten.
Carries(copy, req) ==
  /\ IsRequest(copy)
  /\ copy.method = req.method /\ copy.url.place = req.url.place
  /\ copy.header = req.header /\ copy.trailer = req.trailer
  /\ EmptyIfNil(copy.body) = EmptyIfNil(req.body)
  /\ NoUser(copy.url.user) <=> NoUser(req.url.user)

MatchingInv ==
  /\ recorded # Nil => /\ sent \in Requests /\ IsRequest(recorded)
                       /\ Survives(sent) => Carries(recorded, sent)
  /\ loaded => recorded # Nil
  /\ asked # Nil => recorded # Nil
  /\ MatchesExactly

(***************************************************************************)
(* Reordering                                                              *)
(***************************************************************************)

At(values, value) == {i \in DOMAIN values : values[i] = value}

\* A value is at so many places.
LEMMA Places ==
  ASSUME NEW n \in Nat, NEW values, DOMAIN values = 1..n, NEW value
  PROVE  IsFiniteSet(At(values, value)) /\ Count(values, value) = Cardinality(At(values, value))
<1>1. IsFiniteSet(1..n)
  BY FS_Interval
<1>2. At(values, value) \subseteq 1..n
  BY DEF At
<1> QED
  BY <1>1, <1>2, FS_Subset DEF Count, At

\* Equal numbers of each value are a reordering.
LEMMA CountsReorder ==
  ASSUME NEW n \in Nat, NEW values1, NEW values2, DOMAIN values1 = 1..n, DOMAIN values2 = 1..n,
         Len(values1) = Len(values2), InboxIsEmpty(values1, values2)
  PROVE  Reordered(values1, values2)
<1> DEFINE Both == Range(values1) \cup Range(values2)
           f == [value \in Both |->
                   CHOOSE g : g \in Bijection(At(values1, value), At(values2, value))]
           order == [i \in 1..n |-> f[values1[i]][i]]
<1>1. ASSUME NEW value \in Both
      PROVE  f[value] \in Bijection(At(values1, value), At(values2, value))
  <2>1. Cardinality(At(values1, value)) = Cardinality(At(values2, value))
    BY Places DEF InboxIsEmpty
  <2>2. ExistsBijection(At(values1, value), At(values2, value))
    BY <2>1, Places, FS_SameCardinalityBij
  <2>3. \E g : g \in Bijection(At(values1, value), At(values2, value))
    BY <2>2 DEF ExistsBijection
  <2> QED
    BY <2>3
<1>2. /\ \A i \in 1..n : values1[i] \in Both /\ i \in At(values1, values1[i])
      /\ \A j \in 1..n : values2[j] \in Both /\ j \in At(values2, values2[j])
  BY DEF Range, At
<1> HIDE DEF Both, f
<1>3. ASSUME NEW i \in 1..n
      PROVE  order[i] \in 1..n /\ values2[order[i]] = values1[i]
  <2>1. f[values1[i]] \in [At(values1, values1[i]) -> At(values2, values1[i])]
    BY <1>1, <1>2 DEF Bijection, Injection
  <2>2. order[i] \in At(values2, values1[i])
    BY <1>2, <2>1
  <2> QED
    BY <2>2 DEF At
<1>4. ASSUME NEW j \in 1..n
      PROVE  \E i \in 1..n : order[i] = j
  <2>1. f[values2[j]] \in Surjection(At(values1, values2[j]), At(values2, values2[j]))
    BY <1>1, <1>2 DEF Bijection
  <2>2. PICK i \in At(values1, values2[j]) : f[values2[j]][i] = j
    BY <1>2, <2>1 DEF Surjection
  <2>3. i \in 1..n /\ values1[i] = values2[j]
    BY DEF At
  <2> QED
    BY <2>2, <2>3
<1>5. order \in [DOMAIN values1 -> DOMAIN values2] /\ DOMAIN order = 1..n
  BY <1>3
<1> HIDE DEF order
<1>6. {order[i] : i \in DOMAIN order} = DOMAIN values2
  BY <1>4, <1>5
<1> QED
  BY <1>3, <1>5, <1>6 DEF Reordered

\* And a reordering has equal numbers of each value.
LEMMA ReorderedCounts ==
  ASSUME NEW n \in Nat, NEW values1, NEW values2, DOMAIN values1 = 1..n, DOMAIN values2 = 1..n,
         Reordered(values1, values2)
  PROVE  InboxIsEmpty(values1, values2)
<1>1. PICK order \in [1..n -> 1..n] :
        /\ {order[i] : i \in 1..n} = 1..n
        /\ \A i \in 1..n : values1[i] = values2[order[i]]
  BY DEF Reordered
<1>2. order \in Injection(1..n, 1..n)
  <2>1. order \in Surjection(1..n, 1..n)
    BY <1>1 DEF Surjection
  <2> QED
    BY <2>1, FS_Interval, FS_SurjSameCardinalityImpliesInj
<1>3. ASSUME NEW value
      PROVE  Count(values1, value) = Count(values2, value)
  <2> DEFINE S == At(values1, value)
             T == At(values2, value)
             g == [i \in S |-> order[i]]
  <2>1. S \subseteq 1..n /\ T \subseteq 1..n
    BY DEF At
  <2>2. \A i \in S : order[i] \in T
    BY <1>1 DEF At
  <2>3. ASSUME NEW j \in T PROVE \E i \in S : order[i] = j
    <3>1. PICK i \in 1..n : order[i] = j
      BY <1>1, <2>1
    <3>2. i \in S
      BY <1>1, <3>1 DEF At
    <3> QED
      BY <3>1, <3>2
  <2>4. \A i, j \in S : order[i] = order[j] => i = j
    BY <1>2, <2>1 DEF Injection, IsInjective
  <2> HIDE DEF S, T
  <2>5. g \in [S -> T] /\ \A i \in S : g[i] = order[i]
    BY <2>2
  <2> HIDE DEF g
  <2>6. g \in Bijection(S, T)
    BY <2>3, <2>4, <2>5 DEF Bijection, Injection, IsInjective, Surjection
  <2>7. Cardinality(T) = Cardinality(S)
    BY <2>6, Places, FS_Bijection DEF ExistsBijection, S
  <2> QED
    BY <2>7, Places DEF S, T
<1> QED
  BY <1>3 DEF InboxIsEmpty

\* The header matcher accepts the values of each key in any order, and nothing
\* else.
LEMMA HeadersMatch ==
  ASSUME NEW fields1, IsFields(fields1), NEW fields2, IsFields(fields2)
  PROVE  areHTTPHeadersEqual(fields1, fields2) <=> SameFields(fields1, fields2)
<1>1. ASSUME areHTTPHeadersEqual(fields1, fields2)
      PROVE  SameFields(fields1, fields2)
  <2>1. DOMAIN fields1 \subseteq DOMAIN fields2
    BY <1>1 DEF areHTTPHeadersEqual
  <2>2. DOMAIN fields1 = DOMAIN fields2
    BY <1>1, <2>1, FS_Subset DEF areHTTPHeadersEqual, IsFields
  <2>3. ASSUME NEW key \in DOMAIN fields1
        PROVE  Reordered(fields1[key], fields2[key])
    <3>1. /\ Len(fields1[key]) \in Nat /\ Len(fields2[key]) = Len(fields1[key])
          /\ DOMAIN fields1[key] = 1..Len(fields1[key])
          /\ DOMAIN fields2[key] = 1..Len(fields1[key])
          /\ InboxIsEmpty(fields1[key], fields2[key])
      BY <1>1, <2>2 DEF areHTTPHeadersEqual, IsFields
    <3> QED
      BY <3>1, CountsReorder
  <2> QED
    BY <2>2, <2>3 DEF SameFields
<1>2. ASSUME SameFields(fields1, fields2)
      PROVE  areHTTPHeadersEqual(fields1, fields2)
  <2>1. ASSUME NEW key \in DOMAIN fields1
        PROVE  /\ key \in DOMAIN fields2
               /\ Len(fields1[key]) = Len(fields2[key])
               /\ InboxIsEmpty(fields1[key], fields2[key])
    <3>1. /\ key \in DOMAIN fields2 /\ Reordered(fields1[key], fields2[key])
          /\ Len(fields1[key]) = Len(fields2[key])
      BY <1>2 DEF SameFields, Reordered
    <3>2. /\ Len(fields1[key]) \in Nat
          /\ DOMAIN fields1[key] = 1..Len(fields1[key])
          /\ DOMAIN fields2[key] = 1..Len(fields1[key])
      BY <3>1 DEF IsFields
    <3> QED
      BY <3>1, <3>2, ReorderedCounts
  <2> QED
    BY <1>2, <2>1 DEF SameFields, areHTTPHeadersEqual
<1> QED
  BY <1>1, <1>2

(***************************************************************************)
(* Copies                                                                  *)
(***************************************************************************)

\* Escaping a text makes one of no text and no other.
LEMMA EscapedUser ==
  ASSUME NilIsNoRecord, NEW user, IsUser(user)
  PROVE  /\ IsUser(UserString(user))
         /\ NoUser(UserString(user)) <=> NoUser(user)
<1>1. CASE user = Nil
  <2>1. UserString(user) = Userinfo("", 0)
    BY <1>1 DEF UserString
  <2>2. UserString(Userinfo("", 0)) = Userinfo("", 0)
    BY DEF NilIsNoRecord, UserString, Userinfo
  <2> QED
    BY <2>1, <2>2 DEF NoUser, IsUser, Userinfo
<1>2. ASSUME NEW escapes, user = Userinfo("special", escapes)
      PROVE  /\ IsUser(UserString(user))
             /\ ~NoUser(user) /\ ~NoUser(UserString(user))
  <2>1. \A n : UserString(Userinfo("special", n)) = Userinfo("special", n + 1)
    BY DEF NilIsNoRecord, UserString, Userinfo
  <2>2. \A n : Userinfo("special", n) # Userinfo("", 0)
    BY DEF Userinfo
  <2>3. UserString(user) = Userinfo("special", escapes + 1)
    BY <1>2, <2>1
  <2>4. UserString(UserString(user)) = Userinfo("special", escapes + 1 + 1)
    BY <2>1, <2>3
  <2>5. ~NoUser(user) /\ ~NoUser(UserString(user))
    BY <2>2, <2>3, <2>4 DEF NoUser
  <2> QED
    BY <2>3, <2>5 DEF IsUser, Userinfo
<1>3. ASSUME user # Nil, user = Userinfo(user.text, user.escapes), user.text # "special"
      PROVE  UserString(user) = user
  BY <1>3 DEF UserString
<1>4. ASSUME user # Nil, user.text = "special"
      PROVE  /\ IsUser(UserString(user))
             /\ ~NoUser(user) /\ ~NoUser(UserString(user))
  <2>1. user = Userinfo("special", user.escapes)
    BY <1>4 DEF IsUser
  <2> QED
    BY <2>1, <1>2
<1>5. CASE user # Nil /\ user.text # "special"
  <2>1. UserString(user) = user
    BY <1>3, <1>5 DEF IsUser
  <2> QED
    BY <2>1 DEF NoUser
<1> QED
  BY <1>1, <1>4, <1>5

\* A copy of a URL leads to the same place.
LEMMA ClonedURL ==
  ASSUME NilIsNoRecord, NEW url, IsURL(url)
  PROVE  /\ IsURL(cloneURL(url)) /\ cloneURL(url).place = url.place
         /\ NoUser(cloneURL(url).user) <=> NoUser(url.user)
<1> DEFINE user == IF url.user = Nil THEN Nil ELSE UserString(url.user)
<1>1. cloneURL(url) = [place |-> url.place, rawFragment |-> url.rawFragment,
                       omitHost |-> FALSE, user |-> user]
  BY DEF cloneURL
<1>2. IsUser(user) /\ (NoUser(user) <=> NoUser(url.user))
  BY EscapedUser DEF IsURL, IsUser
<1> HIDE DEF user
<1> QED
  BY <1>1, <1>2 DEF IsURL

\* Each of the three copies carries the request.
LEMMA CopiesCarry ==
  ASSUME NilIsNoRecord, NEW req, IsRequest(req)
  PROVE  /\ Carries(CloneHTTPRequest(req), req)
         /\ Carries(ToRequest(req), req)
         /\ Carries(Clone(req), req)
<1> DEFINE Made(body) == [method |-> req.method, url |-> cloneURL(req.url),
                          header |-> req.header, body |-> body, trailer |-> req.trailer]
<1>1. ASSUME NEW body, EmptyIfNil(body) = EmptyIfNil(req.body)
      PROVE  Carries(Made(body), req)
  BY <1>1, ClonedURL DEF Carries, IsRequest
<1>2. EmptyIfNil(EmptyIfNil(req.body)) = EmptyIfNil(req.body)
  BY DEF EmptyIfNil
<1>3. ToRequest(req) = Made(req.body)
  BY DEF IsRequest, ToRequest
<1>4. CloneHTTPRequest(req) = Made(EmptyIfNil(req.body))
  <2>1. [req EXCEPT !.url = cloneURL(@)] = Made(req.body)
    BY DEF IsRequest
  <2>2. CloneHTTPRequest(req) =
          [[req EXCEPT !.url = cloneURL(@)] EXCEPT !.body = EmptyIfNil(@)]
    BY DEF CloneHTTPRequest
  <2>3. [Made(req.body) EXCEPT !.body = EmptyIfNil(@)] = Made(EmptyIfNil(req.body))
    OBVIOUS
  <2> QED
    BY <2>1, <2>2, <2>3
<1>5. Clone(req) = Made(EmptyIfNil(req.body))
  BY <1>4 DEF Clone, CloneHTTPRequest
<1> HIDE DEF Made
<1> QED
  BY <1>1, <1>2, <1>3, <1>4, <1>5

\* A copy of a copy.
LEMMA CarriesTransitive ==
  ASSUME NEW req1, NEW req2, NEW req3, Carries(req1, req2), Carries(req2, req3)
  PROVE  Carries(req1, req3)
BY DEF Carries

\* Three copies, and two, on the way to a matcher and to the track.
LEMMA CopiesOfCopies ==
  ASSUME NilIsNoRecord, NEW req, IsRequest(req)
  PROVE  /\ Carries(ToRequest(CloneHTTPRequest(req)), req)
         /\ Carries(Clone(ToRequest(CloneHTTPRequest(req))), req)
<1> DEFINE copy == CloneHTTPRequest(req)
           track == ToRequest(copy)
<1>1. Carries(copy, req) /\ IsRequest(copy)
  BY CopiesCarry DEF Carries
<1> HIDE DEF copy
<1>2. Carries(track, copy) /\ IsRequest(track)
  BY <1>1, CopiesCarry DEF Carries
<1> HIDE DEF track
<1>3. Carries(Clone(track), track)
  BY <1>2, CopiesCarry
<1>4. Carries(track, req) /\ Carries(Clone(track), req)
  BY <1>1, <1>2, <1>3, CarriesTransitive
<1> QED
  BY <1>4 DEF copy, track

\* What the file makes of the fields of a header.
LEMMA FieldsInFile ==
  ASSUME NEW fields, IsFields(fields)
  PROVE  /\ IsFields(FieldsThroughJSON(fields))
         /\ DOMAIN FieldsThroughJSON(fields) = DOMAIN fields
         /\ \A key \in DOMAIN fields : \A i \in DOMAIN fields[key] :
              FieldsThroughJSON(fields)[key][i] = AsUTF8[fields[key][i]]
<1> DEFINE filed == FieldsThroughJSON(fields)
<1>1. /\ DOMAIN filed = DOMAIN fields
      /\ filed = [key \in DOMAIN fields |-> filed[key]]
      /\ \A key \in DOMAIN fields :
           filed[key] = [i \in DOMAIN fields[key] |-> AsUTF8[fields[key][i]]]
  BY DEF FieldsThroughJSON
<1> HIDE DEF filed
<1>2. ASSUME NEW key \in DOMAIN fields
      PROVE  filed[key] \in Seq(Texts)
  <2>1. /\ Len(fields[key]) \in Nat /\ DOMAIN fields[key] = 1..Len(fields[key])
        /\ \A i \in 1..Len(fields[key]) : AsUTF8[fields[key][i]] \in Texts
    BY UTF8Assumption DEF IsFields
  <2>2. filed[key] = [i \in 1..Len(fields[key]) |-> AsUTF8[fields[key][i]]]
    BY <1>1, <2>1
  <2> QED
    BY <2>1, <2>2
<1>3. IsFields(filed)
  <2>1. filed \in [DOMAIN fields -> Seq(Texts)]
    BY <1>1, <1>2
  <2> QED
    BY <1>1, <2>1 DEF IsFields
<1> QED
  BY <1>1, <1>3 DEF filed

\* A header of UTF-8 stays as it is.
LEMMA UTF8InFile ==
  ASSUME NEW fields, IsFields(fields), IsUTF8(fields)
  PROVE  FieldsThroughJSON(fields) = fields
<1>1. ASSUME NEW key \in DOMAIN fields
      PROVE  FieldsThroughJSON(fields)[key] = fields[key]
  BY DEF IsFields, IsUTF8, FieldsThroughJSON
<1> QED
  BY <1>1 DEF IsFields, FieldsThroughJSON

\* The file keeps a request that it can hold, and makes a request of any.
LEMMA FileCarries ==
  ASSUME NilIsNoRecord, NEW req, IsRequest(req)
  PROVE  /\ IsRequest(ThroughJSON(req))
         /\ Survives(req) => Carries(ThroughJSON(req), req)
<1> DEFINE user == IF req.url.user = Nil THEN Nil ELSE Userinfo("", 0)
           filed == [method |-> req.method, url |-> URLThroughJSON(req.url),
                     header |-> FieldsThroughJSON(req.header), body |-> req.body,
                     trailer |-> FieldsThroughJSON(req.trailer)]
<1>1. ThroughJSON(req) = filed
  BY DEF ThroughJSON
<1>2. URLThroughJSON(req.url) =
        [place |-> AsUTF8[req.url.place], rawFragment |-> AsUTF8[req.url.rawFragment],
         omitHost |-> req.url.omitHost, user |-> user]
  BY DEF URLThroughJSON
<1>3. IsUser(user) /\ NoUser(user)
  BY DEF IsUser, NoUser, NilIsNoRecord, UserString, Userinfo
<1> HIDE DEF user
<1>4. IsURL(URLThroughJSON(req.url))
  BY <1>2, <1>3, UTF8Assumption DEF IsRequest, IsURL
<1>5. IsRequest(filed)
  BY <1>4, FieldsInFile DEF IsRequest
<1>6. ASSUME Survives(req)
      PROVE  Carries(filed, req)
  <2>1. /\ FieldsThroughJSON(req.header) = req.header
        /\ FieldsThroughJSON(req.trailer) = req.trailer
    BY <1>6, UTF8InFile DEF Survives, IsRequest
  <2>2. URLThroughJSON(req.url).place = req.url.place /\ URLThroughJSON(req.url).user = user
    BY <1>2, <1>6 DEF Survives
  <2> QED
    BY <1>3, <1>5, <1>6, <2>1, <2>2 DEF Carries, Survives
<1> HIDE DEF filed
<1> QED
  BY <1>1, <1>5, <1>6

\* The matchers tell of copies whether the requests are the same.
LEMMA MatchIsSame ==
  ASSUME NEW req, IsRequest(req), NEW copy, Carries(copy, req),
         NEW trk, IsRequest(trk), NEW trkCopy, Carries(trkCopy, trk),
         NoUser(trk.url.user)
  PROVE  Match(copy, trkCopy) <=> Same(req, trk)
<1>1. /\ areHTTPHeadersEqual(req.header, trk.header) <=> SameFields(req.header, trk.header)
      /\ areHTTPHeadersEqual(req.trailer, trk.trailer) <=> SameFields(req.trailer, trk.trailer)
  BY HeadersMatch DEF IsRequest
<1>2. URLMatcher(copy, trkCopy) <=> SameURL(req.url, trk.url)
  BY DEF Carries, URLMatcher, SameURL, NoUser
<1>3. /\ HeaderMatcher(copy, trkCopy) <=> SameFields(req.header, trk.header)
      /\ MethodMatcher(copy, trkCopy) <=> req.method = trk.method
      /\ BodyMatcher(copy, trkCopy) <=> EmptyIfNil(req.body) = EmptyIfNil(trk.body)
      /\ TrailerMatcher(copy, trkCopy) <=> SameFields(req.trailer, trk.trailer)
  BY <1>1 DEF Carries, HeaderMatcher, MethodMatcher, BodyMatcher, TrailerMatcher
<1> QED
  BY <1>2, <1>3 DEF Match, StrictMatch, MethodURLMatch, Same

(***************************************************************************)
(* The life of the track                                                   *)
(***************************************************************************)

\* The track has the request that was sent, and the last verdict was right.
LEMMA MatchingNext ==
  ASSUME NilIsNoRecord, MatchingInv, Next
  PROVE  MatchingInv'
<1>n. \A req : IsRequest(req) => req # Nil
  BY DEF NilIsNoRecord, IsRequest
<1>1. CASE Reload
  <2>1. /\ recorded # Nil /\ recorded' = ThroughJSON(recorded) /\ sent' = sent
        /\ loaded' = TRUE /\ asked' = Nil
    BY <1>1 DEF Reload
  <2>2. /\ sent \in Requests /\ IsRequest(recorded)
        /\ Survives(sent) => Carries(recorded, sent)
    BY <2>1 DEF MatchingInv
  <2>3. IsRequest(recorded') /\ (Survives(recorded) => Carries(recorded', recorded))
    BY <2>1, <2>2, FileCarries
  <2>4. Survives(sent) => Survives(recorded)
    BY <2>2 DEF Carries, Survives
  <2>5. Survives(sent) => Carries(recorded', sent)
    BY <2>2, <2>3, <2>4, CarriesTransitive
  <2> QED
    BY <1>n, <2>1, <2>2, <2>3, <2>5 DEF MatchingInv, MatchesExactly
<1>2. ASSUME NEW req \in Requests, Record(req)
      PROVE  MatchingInv'
  <2>1. /\ recorded = Nil /\ recorded' = ToRequest(CloneHTTPRequest(req)) /\ sent' = req
        /\ loaded' = loaded /\ asked' = asked
    BY <1>2 DEF Record
  <2>2. ~loaded /\ asked = Nil
    BY <2>1 DEF MatchingInv
  <2>3. Carries(recorded', req) /\ IsRequest(recorded')
    BY <2>1, RequestsAssumption, CopiesOfCopies DEF Carries
  <2> QED
    BY <1>n, <2>1, <2>2, <2>3 DEF MatchingInv, MatchesExactly
<1>3. ASSUME NEW req \in Requests, Ask(req)
      PROVE  MatchingInv'
  <2> DEFINE copy == Clone(ToRequest(CloneHTTPRequest(req)))
  <2>1. /\ loaded /\ asked' = req /\ verdict' = Match(copy, Clone(recorded))
        /\ matchers' = matchers /\ sent' = sent /\ recorded' = recorded /\ loaded' = loaded
    BY <1>3 DEF Ask
  <2>2. /\ recorded # Nil /\ sent \in Requests /\ IsRequest(recorded)
        /\ Survives(sent) => Carries(recorded, sent)
    BY <2>1 DEF MatchingInv
  <2>3. IsRequest(req) /\ IsRequest(sent)
    BY <2>2, RequestsAssumption
  <2>4. Carries(copy, req)
    BY <2>3, CopiesOfCopies
  <2>5. Carries(Clone(recorded), recorded)
    BY <2>2, CopiesCarry
  <2> HIDE DEF copy
  <2>6. ASSUME Survives(sent)
        PROVE  Match(copy, Clone(recorded)) <=> Same(req, sent)
    <3>1. Carries(Clone(recorded), sent)
      BY <2>2, <2>5, <2>6, CarriesTransitive
    <3>2. NoUser(sent.url.user)
      BY <2>6 DEF Survives
    <3> QED
      BY <2>3, <2>4, <3>1, <3>2, MatchIsSame
  <2>7. Same(asked, sent)' <=> Same(req, sent)
    BY <2>1 DEF Same
  <2>8. MatchesExactly'
    BY <2>1, <2>6, <2>7 DEF MatchesExactly
  <2> QED
    BY <2>1, <2>2, <2>8 DEF MatchingInv
<1> QED
  BY <1>1, <1>2, <1>3 DEF Next

\* After any number of saves and loads the matchers accept exactly the request
\* that was recorded, with header values in any order, if the file can hold it.
THEOREM MatchingIsExact == ASSUME NilIsNoRecord PROVE Spec => []MatchesExactly
<1>1. Init => MatchingInv
  BY DEF Init, MatchingInv, MatchesExactly
<1>2. MatchingInv /\ [Next]_vars => MatchingInv'
  <2> SUFFICES ASSUME MatchingInv, [Next]_vars PROVE MatchingInv'
    OBVIOUS
  <2>1. CASE UNCHANGED vars
    BY <2>1 DEF vars, MatchingInv, MatchesExactly, Same
  <2> QED
    BY <2>1, MatchingNext
<1>3. MatchingInv => MatchesExactly
  BY DEF MatchingInv
<1> QED
  BY <1>1, <1>2, <1>3, PTL DEF Spec
=============================================================================
