------------------------- MODULE AuthorityRegister -------------------------
(***************************************************************************)
(* What an append-only authority promises its readers, with the table, the *)
(* commands and their races abstracted away: for every scope a log of the  *)
(* targets chosen so far, the last one being current.  The only change is  *)
(* that one scope's current target is replaced by a different one.         *)
(*                                                                         *)
(* RawTranscriptSelection, CandidateDecision and RevisionSelection         *)
(* implement this register; the modules downstream of them use it as the   *)
(* interface of those components.                                          *)
(***************************************************************************)
EXTENDS Sequences, Naturals

CONSTANTS Scope, Target
VARIABLE log

CurrentlyHolds(scope, target) ==
    /\ log[scope] # <<>>
    /\ log[scope][Len(log[scope])] = target

Init == log = [scope \in Scope |-> <<>>]

Take(scope, target) ==
    /\ ~CurrentlyHolds(scope, target)
    /\ log' = [log EXCEPT ![scope] = Append(@, target)]

Next == \E scope \in Scope, target \in Target : Take(scope, target)

Spec == Init /\ [][Next]_log
=============================================================================
