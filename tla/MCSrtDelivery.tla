--------------------------- MODULE MCSrtDelivery ---------------------------
(* Two materializations with different payloads contend for one location,  *)
(* where a dead process may have left a PENDING delivery of the first.     *)
EXTENDS SrtDelivery, TLC

CONSTANTS m1, m2, own1, own2

Payloads == m1 :> own1 @@ m2 :> own2
=============================================================================
