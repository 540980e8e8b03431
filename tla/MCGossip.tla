------------------------------- MODULE MCGossip -------------------------------
(* Instances of Gossip for TLC: one subject, s, and one or two observers. *)
EXTENDS Gossip, TLC

CONSTANTS s, a, b

NoCall     == {}
EveryCall  == Node \X Subject
OtherCalls == (Node \ Subject) \X Subject

Observers == Permutations({a, b})
=============================================================================
