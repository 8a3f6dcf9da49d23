------------------------- MODULE MCTopicBroadcaster -------------------------
(* TopicBroadcaster on small instances.                                     *)
EXTENDS TopicBroadcaster, TLC

CONSTANTS v1, v2, front

\* Every session asks for the same camera: they share one stream, or follow
\* each other in successive streams.
OneTopic == [v \in Viewers |-> front]

\* With one topic nothing tells the sessions apart.
Symmetry == Permutations(Viewers)
=============================================================================
