--------------------------- MODULE MCSrtPublication ---------------------------
(* Two deliveries of one intake with different payloads and locations.  Any  *)
(* location may come to hold any payload, so either may find its destination *)
(* taken by the other's bytes.                                               *)
EXTENDS SrtPublication, TLC

CONSTANTS i1, d1, d2, l1, l2, b1, b2,
          MaxInvoked        \* bound on the calls of a behaviour

MCIntakeOf   == (d1 :> i1) @@ (d2 :> i1)
MCLocationOf == (d1 :> l1) @@ (d2 :> l2)
MCPayloadOf  == (d1 :> b1) @@ (d2 :> b2)

Invoked == {c \in PublicationCommand : request[c].pc # "idle"}
               \union {u \in Reader : reader[u].pc # "idle"}

\* Three commands, or two commands and a query.
FewCalls == Cardinality(Invoked) <= MaxInvoked

\* The two deliveries may be exchanged together with what belongs to them.
Exchange == (d1 :> d2) @@ (d2 :> d1) @@ (l1 :> l2) @@ (l2 :> l1) @@ (b1 :> b2) @@ (b2 :> b1)

Symmetry == Permutations(PublicationCommand) \union Permutations(Publisher) \union {Exchange}
===============================================================================
