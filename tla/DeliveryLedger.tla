---------------------------- MODULE DeliveryLedger ----------------------------
(***************************************************************************)
(* What the deliveries of SRT files promise their readers, with attempts,  *)
(* commands, writers and their races abstracted away: a ledger of recorded *)
(* deliveries beside the files they are about.  Files may change at any    *)
(* time, by a delivery or by any other program.  A delivery is recorded    *)
(* before its outcome, keeps the outcome it gets, and is DELIVERED only if *)
(* its bytes have been in place while it was on record.                    *)
(*                                                                         *)
(* SrtDelivery implements this ledger; SrtPublication uses it as the       *)
(* interface of that component.                                            *)
(***************************************************************************)
CONSTANTS
    Location,          \* destination paths
    Nothing,           \* what a destination without a file holds
    Content,           \* what a destination may hold, Nothing included
    LocationOf(_),     \* the destination of a delivery
    PayloadOf(_)       \* the bytes it is to put there

VARIABLES
    outcome,           \* of each recorded delivery; "pending" is none
    file,              \* what each destination holds
    placed             \* deliveries whose bytes have been in place

ledger == <<outcome, file, placed>>

Recorded == DOMAIN outcome

InPlace == {d \in Recorded : file[LocationOf(d)] = PayloadOf(d)}

\* Deliveries may be on record from the start, but none is closed.
Init ==
    /\ \A d \in Recorded : outcome[d] = "pending"
    /\ file = [l \in Location |-> Nothing]
    /\ placed = {}

Record(d) ==
    /\ d \notin Recorded
    /\ outcome' = [e \in Recorded \union {d} |-> IF e = d THEN "pending" ELSE outcome[e]]
    /\ UNCHANGED file
    /\ placed' = placed \union InPlace'

Change(l, held) ==
    /\ file' = [file EXCEPT ![l] = held]
    /\ UNCHANGED outcome
    /\ placed' = placed \union InPlace'

Close(d, state) ==
    /\ outcome[d] = "pending"
    /\ state = "delivered" => d \in placed
    /\ outcome' = [outcome EXCEPT ![d] = state]
    /\ UNCHANGED <<file, placed>>

Next ==
    \/ \E d \in Recorded' : Record(d)
    \/ \E l \in Location, held \in Content : Change(l, held)
    \/ \E d \in Recorded, state \in {"delivered", "failed"} : Close(d, state)

Spec == Init /\ [][Next]_ledger
===============================================================================
