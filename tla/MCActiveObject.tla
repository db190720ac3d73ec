--------------------------- MODULE MCActiveObject ---------------------------
(* ActiveObject for TLC: two senders, one of them the owner. *)
EXTENDS ActiveObject

CONSTANTS s1, s2

MCSenders == {s1, s2}
MCThreads == MCSenders \cup {Worker}
MCValues == (MCSenders \X (1..Sends)) \cup {Done}
=============================================================================
