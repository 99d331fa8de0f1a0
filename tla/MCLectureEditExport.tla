------------------------- MODULE MCLectureEditExport -------------------------
(* Two candidates of one timeline and two people; one of them may have       *)
(* accepted and then rejected the first candidate before.                    *)
EXTENDS LectureEditExport, TLC

CONSTANTS k1, k2, a1,
          MaxInvoked        \* bound on the calls of a behaviour

MCTimeline   == <<k1, k2>>
MCReversible == {<<k1, a1>>}

Invoked == {c \in Command : command[c].pc # "idle"}
               \union {e \in Exporter : exporter[e].pc # "idle"}

\* A second change makes a chain stand again, beside a single exporter.
FewCalls ==
    /\ Cardinality(Invoked) <= MaxInvoked
    /\ standingChanges > 1 => /\ standing = Candidate
                              /\ Cardinality(Invoked \intersect Exporter) = 1

Symmetry == Permutations(Command) \union Permutations(Exporter)
                \union Permutations(Replacement)
===============================================================================
