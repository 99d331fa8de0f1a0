------------------------- MODULE MCLocalAsrExecution -------------------------
EXTENDS LocalAsrExecution, TLC

\* At most one operation fails or the machine crashes once...
OneMishap ==
    faults["read"] + faults["unlink"] + faults["metadata"] + faults["append"] + crashes <= 1

\* ...or one removal of old segments and one record fail.
LostRemovalAndRecord ==
    faults["read"] + faults["metadata"] + crashes = 0

Symmetric == Permutations(Command) \union Permutations(Binding)
=============================================================================
