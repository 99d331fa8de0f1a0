---------------------- MODULE MCRawTranscriptSelection ----------------------
(* A small instance of RawTranscriptSelection: two transcripts admitted for *)
(* the first intake and one for the second, so that a command may contend,  *)
(* duplicate, or name a transcript of the other intake.                     *)
EXTENDS RawTranscriptSelection, TLC

CONSTANTS i1, i2, t1, t2, t3

MCOwner == (t1 :> i1) @@ (t2 :> i1) @@ (t3 :> i2)

CommandSymmetry == Permutations(Command)
=============================================================================
