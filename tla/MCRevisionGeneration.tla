------------------------ MODULE MCRevisionGeneration ------------------------
(* Three candidates on one transcript, a text and a timing candidate of one  *)
(* segment and a timing candidate of another one, and a second transcript to *)
(* switch to, with a candidate of its own.                                   *)
EXTENDS RevisionGeneration, TLC

CONSTANTS i1, t1, t2, s1, s2, k1, k2, k3, k4, k5,
          MaxMoves      \* bound on what other processes record

MCIntakeOf  == k1 :> i1 @@ k2 :> i1 @@ k3 :> i1 @@ k4 :> i1 @@ k5 :> i1
MCSourceOf  == k1 :> t1 @@ k2 :> t1 @@ k3 :> t1 @@ k4 :> t1 @@ k5 :> t2
MCSegmentOf == k1 :> s1 @@ k2 :> s1 @@ k3 :> s2 @@ k4 :> s1 @@ k5 :> s2
MCKindOf    == k1 :> "text" @@ k2 :> "timing" @@ k3 :> "timing" @@
               k4 :> "timing" @@ k5 :> "timing"
MCRawAtStart == i1 :> <<t1>>

\* A text correction, timing sets in either order, a composition; a pair that
\* competes for a segment, one that overlaps, one across transcripts, one
\* across segments.
MCRequest == {<<k1>>, <<k2>>, <<k2, k3>>, <<k3, k2>>, <<k1, k2>>,
              <<k2, k4>>, <<k4, k3>>, <<k3, k5>>, <<k1, k3>>}

MCOverlapping == {{k3, k4}}

RECURSIVE Total(_)
Total(s) == IF s = {} THEN 0
            ELSE LET k == CHOOSE k \in s : TRUE IN Len(decisionLog[k]) + Total(s \ {k})

FewMoves == Len(rawLog[i1]) - 1 + Total(Candidate) - Cardinality(AcceptedAtStart)
                <= MaxMoves

CommandSymmetry == Permutations(Command)
=============================================================================
