------------------------------- MODULE MCVCR -------------------------------
(***************************************************************************)
(* Instances of VCR for TLC.                                               *)
(***************************************************************************)
EXTENDS VCRRefinement, TLC

CONSTANTS Transfer, Wanted, Other

\* A track as LoadCassette reads it; Wanted is a request of some test.
Loaded(req, resp) == [request |-> req, response |-> resp, replayed |-> FALSE]
Answer == [header |-> None, request |-> None]

\* A recorded answer; two answers to the same request, an answer behind an
\* error recorded for another one.
OneAnswer == {<<Loaded(Wanted, Answer)>>}
TwoTracks == {<<Loaded(Wanted, Answer), Loaded(Wanted, Answer)>>,
              <<Loaded(Other, None), Loaded(Wanted, Answer)>>}

\* The default matchers (here equality).
Equality == {<<req, req>> : req \in Requests}
Default  == {Equality}

\* Transfer puts into the varying header of a response what the current request
\* has, as the README does with X-Transaction-Id.
NoMutation   == {NoMutators}
Transferring == {NoMutators, Transfer}

MCRecording == [name \in RecordingMutators |-> [trk \in Track |-> trk]]
MCReplaying ==
  [name \in ReplayingMutators |->
     [resp \in Response |-> IF name = Transfer
                            THEN [resp EXCEPT !.header = resp.request]
                            ELSE resp]]

Symmetry == Permutations(Callers)
=============================================================================
