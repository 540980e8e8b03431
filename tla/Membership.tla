------------------------------ MODULE Membership ------------------------------
(***************************************************************************)
(* What the agents of src/opsbro/gossip.py may come to hold of one         *)
(* another, without messages, timers and relays.  An agent takes from the  *)
(* others only what is newer or worse than what it holds; it believes      *)
(* nobody that another is dead; it takes back a suspicion or a departure   *)
(* only for a newer incarnation, or when the agent itself answers; and     *)
(* what is held of an agent never is ahead of that agent.                  *)
(***************************************************************************)
EXTENDS Integers

CONSTANTS Node,         \* the agents of one zone
          Subject,      \* those whose entries are tracked
          Leavers,      \* the agents that may be told to leave
          Incarnation   \* the incarnation numbers

VARIABLES table,    \* table[a][u]: what a holds of u; table[u][u] is u's own word
          up,       \* the agents that run
          asking,   \* whom each agent asks whether it lives, if any, and who heard
          saved,    \* what each agent finds when it starts again
          late      \* an agent started again with an incarnation that it already had

vars == <<table, up, asking, saved, late>>

State   == {"alive", "suspect", "dead", "leave", "unknown"}
Entry   == [st : State, inc : Incarnation]
Unknown == [st |-> "unknown", inc |-> 0]
Alive(i) == [st |-> "alive", inc |-> i]

Init ==
    /\ table = [a \in Node |-> [u \in Subject |-> IF u = a THEN Alive(0) ELSE Unknown]]
    /\ up = Node
    /\ asking = [a \in Node |-> {}]
    /\ saved = [a \in Node |-> [u \in Subject |-> Unknown]]
    /\ late = FALSE

\* What is held of u after this step is no more than what u says of itself.
Real(u, i) == late' \/ i <= table'[u][u].inc

\* What u makes of its own entry e: always of a new incarnation; it leaves if told.
Renewed(u, e, h) == h.inc > e.inc /\ (h.st # e.st => h.st = "leave" /\ u \in Leavers)

\* What another makes of its entry e of u: h is newer, or worse and not older.
Joined(e, h)   == h.st = "alive" /\ (e.st = "unknown" \/ h.inc > e.inc)
Doubted(e, h)  == h.st = "suspect" /\ e.st = "alive" /\ h.inc >= e.inc
Departed(e, h) == h.st = "leave" /\ e.st # "unknown" /\ h.inc >= e.inc

\* Agents learn of one another, or have something to say of themselves.
Learn ==
    /\ table' \in [Node -> [Subject -> Entry]]
    /\ \A a \in Node, u \in Subject :
          LET e == table[a][u]
              h == table'[a][u]
          IN  \/ h = e
              \/ /\ a \in up
                 /\ a = u => Renewed(u, e, h)
                 /\ a # u => Joined(e, h) \/ Doubted(e, h) \/ Departed(e, h)
                 /\ Real(u, h.inc)
    /\ UNCHANGED <<up, asking, saved, late>>

\* a gives up an agent that it suspects, or forgets one that left.
Expire(a, u) ==
    /\ a \in up /\ a # u
    /\ \/ /\ table[a][u].st = "suspect"
          /\ table' = [table EXCEPT ![a][u].st = "dead"]
       \/ /\ table[a][u].st = "leave"
          /\ table' = [table EXCEPT ![a][u] = Unknown]
    /\ UNCHANGED <<up, asking, saved, late>>

\* a asks u, which hears it only if it runs.
Ask(a, u) ==
    /\ a \in up /\ a # u
    /\ asking[a] = {} /\ table[a][u].st # "unknown"
    /\ \E heard \in BOOLEAN :
          /\ heard => u \in up
          /\ asking' = [asking EXCEPT ![a] = {[tgt |-> u, heard |-> heard]}]
    /\ UNCHANGED <<table, up, saved, late>>

\* u answers: it lives, whatever a holds of it by now, also of an incarnation that is
\* older than that.
Answer(a, u) ==
    /\ a \in up
    /\ \E q \in asking[a] : q.tgt = u /\ (q.heard \/ u \in up)
    /\ \E i \in Incarnation :
          /\ table' = [table EXCEPT ![a][u] = Alive(i)]
          /\ Real(u, i)
    /\ asking' = [asking EXCEPT ![a] = {}]
    /\ UNCHANGED <<up, saved, late>>

\* No answer came: a may suspect u, at once or never.
GiveUp(a, u) ==
    /\ a \in up
    /\ \E q \in asking[a] : q.tgt = u
    /\ \/ table' = table
       \/ \E i \in Incarnation :
             /\ Doubted(table[a][u], [st |-> "suspect", inc |-> i])
             /\ table' = [table EXCEPT ![a][u] = [st |-> "suspect", inc |-> i]]
             /\ Real(u, i)
    /\ asking' = [asking EXCEPT ![a] = {}]
    /\ UNCHANGED <<up, saved, late>>

-----------------------------------------------------------------------------
Others(a) == [u \in Subject |-> IF u = a THEN Unknown ELSE table[a][u]]

Save(a) ==
    /\ a \in up
    /\ saved' = [saved EXCEPT ![a] = Others(a)]
    /\ UNCHANGED <<table, up, asking, late>>

Stop(a) ==
    /\ a \in up
    /\ up' = up \ {a}
    /\ asking' = [asking EXCEPT ![a] = {}]
    /\ saved' \in {saved, [saved EXCEPT ![a] = Others(a)]}
    /\ UNCHANGED <<table, late>>

\* a starts again with what it saved of the others, and newer than it ever was unless
\* what it saved of itself is late.
Restart(a) ==
    /\ a \notin up
    /\ up' = up \cup {a}
    /\ late' \in {late, TRUE}
    /\ \E i \in Incarnation :
          /\ a \in Subject /\ ~ late' => i > table[a][a].inc
          /\ table' = [table EXCEPT ![a] =
                         [u \in Subject |-> IF u = a THEN Alive(i) ELSE saved[a][u]]]
    /\ UNCHANGED <<asking, saved>>

Next ==
    \/ Learn
    \/ \E a \in Node :
          \/ Save(a) \/ Stop(a) \/ Restart(a)
          \/ \E u \in Subject : Expire(a, u) \/ Ask(a, u) \/ Answer(a, u) \/ GiveUp(a, u)

Spec == Init /\ [][Next]_vars
=============================================================================
