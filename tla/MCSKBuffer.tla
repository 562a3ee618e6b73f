---------------------------- MODULE MCSKBuffer ----------------------------
(* SKBuffer with a 4-byte block whose reallocation skips 2 bytes (the code *)
(* has 16384 and 8): requests that fit and one that a single growth need   *)
(* not hold, and enough bytes for two doublings with data in every         *)
(* position.                                                               *)
EXTENDS SKBuffer

MCRequests == {1, 3, 4, 7}
=============================================================================
