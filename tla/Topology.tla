------------------------------ MODULE Topology ------------------------------
(***************************************************************************)
(* The topology every publisher and consumer declares for itself           *)
(* (internal/broker/topology.go).                                          *)
(***************************************************************************)
EXTENDS Naturals, Sequences

EventKey == {"upload", "delete"}

\* The topology in the order of Declare: exchanges and queues by their names,
\* bindings as <<exchange, queue, key>>.
Declarations ==
  << <<"avatars">>, <<"avatars.dlx">>,
     <<"upload">>, <<"avatars", "upload", "upload">>,
     <<"delete">>, <<"avatars", "delete", "delete">>,
     <<"dead">>, <<"avatars.dlx", "dead", "upload">>, <<"avatars.dlx", "dead", "delete">> >>

Declaration == {Declarations[n] : n \in DOMAIN Declarations}

\* A binding is refused unless its exchange and its queue exist.
Requires(x) == IF Len(x) = 1 THEN {} ELSE {<<x[1]>>, <<x[2]>>}

=============================================================================
