--------------------------- MODULE RemoteExecution ---------------------------
(***************************************************************************)
(* What src/opsbro/executer.py is for, without datagrams, challenges,      *)
(* threads, hours and entries: a command begins only after the requester   *)
(* agreed to it, once, and once more at most for each datagram that the    *)
(* network repeats; a result is there only after a command of that         *)
(* execution ended, and goes some day; and an execution is reported as     *)
(* done only while its result is there.                                    *)
(***************************************************************************)
EXTENDS Integers

CONSTANT Exec        \* the executions: one command on one node each

VARIABLES state,     \* the state of each execution_result, "idle" before there is one
          agreed,    \* the executions whose requester answered a challenge
          begun,     \* how many times the command of each was launched
          ended,     \* the executions of which a command ended
          results,   \* the executions whose result can be read
          repeats    \* datagrams that the network repeated

vars == <<state, agreed, begun, ended, results, repeats>>

Init ==
    /\ state = [x \in Exec |-> "idle"]
    /\ agreed = {}
    /\ begun = [x \in Exec |-> 0]
    /\ ended = {}
    /\ results = {}
    /\ repeats = 0

Ask(x) ==
    /\ state[x] = "idle"
    /\ state' = [state EXCEPT ![x] = "pending"]
    /\ UNCHANGED <<agreed, begun, ended, results, repeats>>

\* The requester answers one challenge, and no other after it.
Agree(x) ==
    /\ state[x] = "pending" /\ x \notin agreed
    /\ agreed' = agreed \cup {x}
    /\ repeats' \in {repeats, repeats + 1}
    /\ UNCHANGED <<state, begun, ended, results>>

\* A command may begin late: when its requester no longer waits.
Begin(x) ==
    /\ x \in agreed /\ begun[x] <= repeats
    /\ begun' = [begun EXCEPT ![x] = @ + 1]
    /\ repeats' \in {repeats, repeats + 1}
    /\ UNCHANGED <<state, agreed, ended, results>>

\* Commands end: each by itself, or all with the agent that runs them.
End(X) ==
    /\ \A x \in X : begun[x] > 0
    /\ ended' = ended \cup X
    /\ UNCHANGED <<state, agreed, begun, results, repeats>>

Publish(x) ==
    /\ x \in ended
    /\ results' = results \cup {x}
    /\ UNCHANGED <<state, agreed, begun, ended, repeats>>

Expire(x) ==
    /\ results' = results \ {x}
    /\ UNCHANGED <<state, agreed, begun, ended, repeats>>

Done(x) ==
    /\ state[x] = "pending" /\ x \in agreed \cap results
    /\ state' = [state EXCEPT ![x] = "done"]
    /\ UNCHANGED <<agreed, begun, ended, results, repeats>>

Fail(x) ==
    /\ state[x] = "pending"
    /\ state' = [state EXCEPT ![x] = "error"]
    /\ UNCHANGED <<agreed, begun, ended, results, repeats>>

\* A datagram that is repeated without any effect.
Repeat ==
    /\ repeats' = repeats + 1
    /\ UNCHANGED <<state, agreed, begun, ended, results>>

Next ==
    \/ \E x \in Exec :
          \/ Ask(x) \/ Agree(x) \/ Begin(x)
          \/ Publish(x) \/ Expire(x) \/ Done(x) \/ Fail(x)
    \/ \E X \in SUBSET Exec : End(X)
    \/ Repeat

Spec == Init /\ [][Next]_vars
=============================================================================
