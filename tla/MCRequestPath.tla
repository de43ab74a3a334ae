--------------------------- MODULE MCRequestPath ---------------------------
(***************************************************************************)
(* An instance of RequestPath for TLC: as many requests as connections, so *)
(* that each can hold one and wait for another.                            *)
(***************************************************************************)
EXTENDS RequestPath

CONSTANTS q1, q2

Two == {q1, q2}
=============================================================================
