-------------------------- MODULE MCRequestHandlers --------------------------
(* RequestHandlers on a small instance.                                     *)
EXTENDS RequestHandlers

CONSTANTS a, b

KindOrder ==
  <<"list", "action", "stream", "upload", "health", "graph", "services", "ws", "unknown">>

\* An HTTP request with a call, which share the process, or with an HTTP request,
\* with which it may also share a context.  Two calls share nothing.  One order
\* of each pair: nothing else tells the two requests apart.
Pairs ==
  {m \in [Requests -> Kinds] :
     \E i \in DOMAIN KindOrder, j \in DOMAIN KindOrder :
       /\ i <= j /\ m[a] = KindOrder[i] /\ m[b] = KindOrder[j]
       /\ m[b] \in HttpKinds}
=============================================================================
