--------------------------- MODULE MCControlLoop ---------------------------
(* Small trees of clients: a is next to the server, b sends through a.      *)
EXTENDS ControlLoop

CONSTANTS a, b

Tree == [c \in Clients |-> IF c = a THEN Server ELSE a]

(* Images each client sends at most.                                        *)
TwoOfA == [c \in Clients |-> IF c = a THEN 2 ELSE 0]
FourOfB == [c \in Clients |-> IF c = b THEN 4 ELSE 0]
=============================================================================
