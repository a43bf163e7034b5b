----------------------------- MODULE MCMutators -----------------------------
(***************************************************************************)
(* Instances of Mutators for TLC: answers with none to two values of the   *)
(* header, and failed transports, whose error may be wrapped; a track is   *)
(* played twice, for requests with none to two values; every mutator alone *)
(* under each condition, at either time, every pair without, and those the *)
(* properties speak of.                                                    *)
(***************************************************************************)
EXTENDS Mutators

Keys(value) == [publicKey |-> value]

Answers ==
  {[status |-> st[1], code |-> st[2], header |-> hd, trailer |-> Nil, tail |-> Nil,
    body |-> "sent", tls |-> Keys("RSA")] :
     st \in {<<"OK", 200>>, <<"Gone", 410>>}, hd \in {Nil, <<>>, <<"old">>, <<"old", "older">>}}
  \cup {[status |-> "OK", code |-> 200, header |-> <<>>, trailer |-> announced,
         tail |-> <<"old">>, body |-> "sent", tls |-> Nil] : announced \in {Nil, <<>>}}
  \cup {[status |-> "OK", code |-> 200, header |-> <<>>, trailer |-> Nil, tail |-> Nil,
         body |-> Nil, tls |-> Nil]}

Sent(method, path) ==
  [method |-> method, path |-> path, header |-> Nil, trailer |-> Nil, body |-> Nil]

Errors ==
  {[types |-> ts, msg |-> <<"dial tcp", "refused">>, timeout |-> FALSE] :
     ts \in {<<"*net.OpError", "*os.SyscallError">>, <<"*os.SyscallError">>, <<"*net.DNSError">>,
             <<"*fmt.wrapError", "*net.OpError">>}}
  \cup {[types |-> <<"*net.OpError">>, msg |-> <<"i/o timeout">>, timeout |-> TRUE]}

MCExchanges ==
  {[request |-> Sent("POST", "/a"), response |-> resp, error |-> Nil] : resp \in Answers}
  \cup {[request |-> Sent("GET", "/b"), response |-> Nil, error |-> err] : err \in Errors}

MCCurrents ==
  {[method |-> "GET", path |-> "/a", header |-> vs, trailer |-> vs, body |-> "now"] :
     vs \in {Nil, <<"current">>, <<"other", "further">>}}

StatusOK == Pred("HasAnyStatus", {"OK"})
Code200  == Pred("HasAnyStatusCode", {200})

Conditions ==
  {<<>>, <<P("OnNoErr"), StatusOK>>, <<P("OnNoErr"), Code200>>, <<StatusOK, P("OnNoErr")>>,
   <<Pred("HasAnyMethod", {"POST"}), Code200>>,
   <<Pred("OnRequestPath", {"/a"})>>, <<Pred("OnRequestPath", {})>>,
   <<[kind |-> "All", of |-> <<P("HasErr"), StatusOK>>]>>,
   <<[kind |-> "Any", of |-> <<P("HasNoErr"), StatusOK>>]>>,
   <<P("HasNoErr"), [kind |-> "None", of |-> <<P("HasErr"), StatusOK>>],
     [kind |-> "Not", of |-> <<P("HasErr")>>]>>}

Kinds == OnRequest \cup OnResponse

Pool  == {Op(kind, "new", on) : kind \in Kinds, on \in Conditions}
Plain == {Op(kind, "new", <<>>) : kind \in Kinds}

Pair(recording, replaying) == [recording |-> recording, replaying |-> replaying]

MCLists ==
  {Pair(<<m>>, <<>>) : m \in Pool} \cup {Pair(<<>>, <<m>>) : m \in Pool}
  \cup {Pair(<<m1>>, <<m2>>) : m1, m2 \in Plain}
  \cup {Pair(<<>>, <<m1, m2>>) : m1, m2 \in Plain}
  \cup {Pair(<<>>, Recipe), Pair(Recipe, Recipe), Pair(ByError, <<>>), Pair(<<>>, ByError)}
=============================================================================
