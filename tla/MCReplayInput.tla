--------------------------- MODULE MCReplayInput ---------------------------
(* Model-checking instance of ReplayInput: a vocabulary in which identities  *)
(* collide within a kind, across kinds and across sensors, stamps differ in   *)
(* seconds or in nanos only, and evidence precedes, follows or lacks its      *)
(* sources.                                                                   *)
EXTENDS ReplayInput

CONSTANTS s1, s2, o1, o2, k1, k2

MCNanosPerSecond == 2

\* 0.1 and 1.0 seconds: the later stamp has the smaller nanos field.
Early == [seconds |-> 0, nanos |-> 1]
Late  == [seconds |-> 1, nanos |-> 0]

MCRaw ==
  [kind : {"image"}, sensor : {s1}, obs : {o1, NoId}]
    \cup [kind : {"sonar"}, sensor : {s1, s2}, obs : {o1}]

MCBoundary ==
  {[kind |-> "boundary", keyframe |-> k, time |-> t, sensor |-> s1, obs |-> o] :
     k \in {k1, k2}, t \in {Early, Late}, o \in {o1, o2}}
    \cup {[kind |-> "boundary", keyframe |-> NoId, time |-> Late, sensor |-> s1, obs |-> o2]}

MCEvidence == {[kind |-> "evidence", sources |-> q] : q \in {<<>>, <<o2>>, <<o1, o2>>}}

MCMessages ==
  MCRaw \cup MCBoundary \cup MCEvidence
    \cup [kind : {"reference", "health", "unknown_topic", "unparsable"}]
=============================================================================
