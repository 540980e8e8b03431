------------------------------ MODULE Election ------------------------------
(***************************************************************************)
(* What the election of src/opsbro/raft.py is for, without its messages,   *)
(* votes and timers: the nodes of a zone go through turns, a turn elects   *)
(* one node at most, once and for all, and a node follows only somebody    *)
(* that was elected in its turn or in an older one.                        *)
(***************************************************************************)
EXTENDS Integers

CONSTANTS Node,   \* the agents of one zone
          None,   \* no leader
          Turn    \* the election turns

VARIABLES elected,   \* the pairs <<turn, node>> of the elections that were won
          turn,      \* the turn each node is in
          leader     \* whom each node follows

vars == <<elected, turn, leader>>

Init ==
    /\ elected = {}
    /\ turn = [n \in Node |-> 0]
    /\ leader = [n \in Node |-> None]

\* n wins the turn it is in, if nobody did.
Elect(n) ==
    /\ \A p \in Node : <<turn[n], p>> \notin elected
    /\ elected' = elected \cup {<<turn[n], n>>}
    /\ UNCHANGED <<turn, leader>>

\* n learns that l won turn t, not older than its own, and follows it.
Follow(n, t, l) ==
    /\ t >= turn[n]
    /\ <<t, l>> \in elected
    /\ turn' = [turn EXCEPT ![n] = t]
    /\ leader' = [leader EXCEPT ![n] = l]
    /\ UNCHANGED elected

\* n goes on to turn t, with the leader it has or without one.
Advance(n, t) ==
    /\ t > turn[n]
    /\ turn' = [turn EXCEPT ![n] = t]
    /\ leader' \in {leader, [leader EXCEPT ![n] = None]}
    /\ UNCHANGED elected

Next ==
    \E n \in Node :
        \/ Elect(n)
        \/ \E t \in Turn : Advance(n, t) \/ \E l \in Node : Follow(n, t, l)

Spec == Init /\ [][Next]_vars
=============================================================================
