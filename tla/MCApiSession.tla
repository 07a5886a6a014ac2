---------------------------- MODULE MCApiSession ----------------------------
(* Small instances of ApiSession for TLC. *)
EXTENDS ApiSession, TLC

CONSTANTS t1, t2, r1, r2, r3, r4

MCTab == [r \in Requests |-> IF r = r4 THEN t2 ELSE t1]
=============================================================================
