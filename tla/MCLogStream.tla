---------------------------- MODULE MCLogStream -----------------------------
(* TLC instance of LogStream: two clients of one domain, one with a block  *)
(* of two lines, the later one first, around a malformed one, the other    *)
(* with a malformed line and a line without time.                          *)
EXTENDS LogStream

CONSTANTS a1, a2, shop

Owner == [c \in {a1, a2} |-> shop]

Log == [c \in {a1, a2} |-> IF c = a1 THEN << <<3, Malformed, 1>> >>
                           ELSE << <<Malformed>>, <<NoTime>> >>]
=============================================================================
