-------------------------- MODULE MCSubtitleRelease --------------------------
(* A small instance of SubtitleRelease: one intake, three subjects of two    *)
(* sources, of which the third has blocking findings and may be accepted but *)
(* never selected, and a second source to take over.                         *)
EXTENDS SubtitleRelease, TLC

CONSTANTS i1, a, b, s1, s2, s3

MCIntakeOf == (s1 :> i1) @@ (s2 :> i1) @@ (s3 :> i1)
MCSourceOf == (s1 :> a) @@ (s2 :> b) @@ (s3 :> b)
MCSourcesAtStart == (i1 :> <<b, a>>)

\* The subject with findings is accepted or rejected once, before anybody wants
\* it, and in behaviours of its own.
FindingsApart ==
    \A s \in Subject \ Deliverable :
        IF decisionLog[s] = <<>>
        THEN \A c \in ReleaseCommand : release[c].subject # s
        ELSE Len(decisionLog[s]) = 1 /\ \A t \in Deliverable : decisionLog[t] = <<>>

Symmetry == Permutations(ReleaseCommand) \union Permutations(Selector)
=============================================================================
