--------------------------- MODULE DestinationFiles ---------------------------
(* The files under the delivery root, as SrtDelivery and SrtPublication see  *)
(* them: a destination holds some bytes, nothing, or an obstacle.            *)
EXTENDS AuthorityHistory

CONSTANTS
    Location,          \* destination paths under the delivery root
    Bytes,             \* file contents
    Obstacle           \* a destination that is no regular file or unsafe to read

ASSUME FileAssumption == None \notin Bytes /\ Obstacle \notin Bytes \union {None}
===============================================================================
