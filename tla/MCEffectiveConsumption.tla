------------------------ MODULE MCEffectiveConsumption ------------------------
(* A small instance of EffectiveConsumption: one intake and, of the first of  *)
(* its two transcripts, a composition of a text and a timing candidate and a  *)
(* revision that applied the text candidate alone.                            *)
EXTENDS EffectiveConsumption, TLC

CONSTANTS i1, t1, t2, k1, k2, r1, r2,
          MaxInvoked,       \* bound on the calls of a behaviour
          MaxMoves          \* bound on the raw selections and decisions of others

MCIntakeOf   == (r1 :> i1) @@ (r2 :> i1)
MCParentOf   == (r1 :> t1) @@ (r2 :> t1)
MCMembersOf  == (r1 :> <<k1, k2>>) @@ (r2 :> <<k1>>)
MCLineageOf  == (r1 :> "composition") @@ (r2 :> "text")
MCRawAtStart == i1 :> <<t1>>

Invoked == {c \in Command : command[c].pc # "idle"}
               \union {u \in Consumer : consumer[u].pc # "idle"}

Moves == Len(rawLog[i1]) + Len(decisionLog[k1]) + Len(decisionLog[k2]) - 3

\* Two commands and a consumer, or one command and two consumers; the others'
\* moves are bounded each by itself and all together.
FewCalls == Cardinality(Invoked) <= MaxInvoked /\ Moves <= MaxMoves

Symmetry == Permutations(Command) \union Permutations(Consumer)
===============================================================================
