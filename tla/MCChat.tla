------------------------------- MODULE MCChat -------------------------------
(* Chat for TLC: the second line of bob has a header that does not decode. *)
EXTENDS Chat

CONSTANTS ann, bob

MCClients == {ann, bob}
MCUndecodable == {<<bob, 2>>}
=============================================================================
