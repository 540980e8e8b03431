-------------------------------- MODULE Gossip --------------------------------
(***************************************************************************)
(* The membership of src/opsbro/gossip.py (class Gossip) in one zone: what *)
(* each agent holds of the others (alive, suspect, dead, leave and an      *)
(* incarnation number), the gossip that spreads it, the UDP pings that     *)
(* check it, the HTTP push-pull that synchronises it, and the retention    *)
(* files of src/opsbro/cluster.py that survive a stop.                     *)
(*                                                                         *)
(* What an agent holds of one agent never depends on what it holds of      *)
(* another, so the model tracks the entries of the agents in Subject only: *)
(* Subject = Node is the whole system.  Timers are abstracted to "may      *)
(* expire at any moment".  A broadcast may be delivered at any time, in    *)
(* any order, many times or never: the queue never forgets it.             *)
(***************************************************************************)
EXTENDS Integers, FiniteSets

CONSTANTS Node,        \* the agents of one zone
          Subject,     \* those whose entries are tracked
          None,        \* no ping in progress
          LeaveCalls,  \* the <<a, u>> such that a may be told that u leaves
          MaxInc,      \* bound: no incarnation above it
          MaxStale,    \* bound: restarts from an incarnation file that is late
          MaxCrashes   \* bound: stops and crashes

ASSUME NodeAssumption == Subject \subseteq Node /\ LeaveCalls \subseteq Node \X Subject
ASSUME BoundsAssumption ==
    MaxInc \in Nat /\ MaxStale \in Nat /\ MaxCrashes \in Nat

VARIABLES table,       \* table[a][u]: a's nodes[u]; table[u][u] is u's own entry
          up,          \* the agents that run
          broadcasts,  \* what each agent's broadcaster has to send
          ping,        \* the ping each agent's ping thread waits for
          pingback,    \* to_ping_back: non alive nodes that talked to us
          disk,        \* the retention files of each agent
          stale,       \* how many restarts found a late incarnation file
          crashes      \* how many stops and crashes there were

vars == <<table, up, broadcasts, ping, pingback, disk, stale, crashes>>

NodeState == {"alive", "suspect", "dead", "leave", "unknown"}

Incarnation == 0..MaxInc

\* An entry of nodes.  A node that is not in the dict is Unknown.
Entry   == [st : NodeState, inc : Incarnation]
Unknown == [st |-> "unknown", inc |-> 0]
Table   == [Subject -> Entry]

\* create_alive_msg, create_suspect_msg, create_dead_msg and create_leave_msg:
\* in every call the type of the message is the state of the entry.
Message == [node : Subject, st : NodeState \ {"unknown"}, inc : Incarnation]
Told(u, e) == [node |-> u, st |-> e.st, inc |-> e.inc]

(***************************************************************************)
(* __do_ping keeps the entry it pings, other, across its waits.  same says *)
(* that other still is the object in nodes; when set_alive has replaced or *)
(* delete_node removed that object, held is what other still says.         *)
(***************************************************************************)
Ping == [tgt : Subject, heard : BOOLEAN, same : BOOLEAN, held : Entry]

ASSUME NoneAssumption == None \notin Ping

\* No incarnation file: the agent starts at 0, one more than -1.
Disk  == [inc : -1..MaxInc, nodes : Table]
Empty == [u \in Subject |-> Unknown]

\* __register_myself: the own entry, in the nodes loaded from disk.
Started(a, inc, nodes) ==
    [u \in Subject |-> IF u = a THEN [st |-> "alive", inc |-> inc] ELSE nodes[u]]

Init ==
    /\ table = [a \in Node |-> Started(a, 0, Empty)]
    /\ up = Node
    /\ broadcasts = [a \in Node |-> {}]
    /\ ping = [a \in Node |-> None]
    /\ pingback = [a \in Node |-> {}]
    /\ disk = [a \in Node |-> [inc |-> -1, nodes |-> Empty]]
    /\ stale = 0
    /\ crashes = 0

-----------------------------------------------------------------------------
(***************************************************************************)
(* The handlers: what agent a makes of its entry e of u when it hears a    *)
(* state and an incarnation i.  The first disjunct of each is about a      *)
(* itself, which answers with a new incarnation of its own                 *)
(* (increase_incarnation_and_broadcast).                                   *)
(***************************************************************************)
\* Mutant of AfterAlive: what is not newer is taken too.
AfterAliveAnyAge(a, u, e, i) ==
    IF u = a /\ i > e.inc THEN [e EXCEPT !.inc = i + 1]
    ELSE IF u # a THEN [st |-> "alive", inc |-> i] ELSE e

\* set_alive, not strong, not bootstrap.
AfterAlive(a, u, e, i) ==
    IF u = a /\ i > e.inc THEN [e EXCEPT !.inc = i + 1]
    ELSE IF u # a /\ (e.st = "unknown" \/ i > e.inc)
         THEN [st |-> "alive", inc |-> i]
         ELSE e

\* Mutants of AfterSuspect: an agent believes others about itself; a
\* suspicion of the incarnation that is held is too old.
AfterSuspectOfMe(a, u, e, i) ==
    IF e.st = "alive" /\ i >= e.inc THEN [st |-> "suspect", inc |-> i] ELSE e
AfterSuspectNewer(a, u, e, i) ==
    IF e.st # "alive" \/ i <= e.inc THEN e
    ELSE IF u = a THEN [e EXCEPT !.inc = @ + 1]
         ELSE [st |-> "suspect", inc |-> i]

\* set_suspect, for SUSPECT and DEAD alike: nobody's DEAD is believed.
AfterSuspect(a, u, e, i) ==
    IF e.st # "alive" \/ i < e.inc THEN e
    ELSE IF u = a THEN [e EXCEPT !.inc = @ + 1]
         ELSE [st |-> "suspect", inc |-> i]

\* Mutant of AfterLeave: gossip about oneself is believed.
AfterLeaveTrusted(a, u, e, i, force) ==
    IF e.st \in {"unknown", "leave"} \/ i < e.inc THEN e
    ELSE IF u = a THEN [st |-> "leave", inc |-> e.inc + 1]
         ELSE [st |-> "leave", inc |-> i]

\* set_leave.  force: asked by the protected HTTP call, not by gossip.
AfterLeave(a, u, e, i, force) ==
    IF e.st \in {"unknown", "leave"} THEN e
    ELSE IF u = a THEN IF i # e.inc THEN e
                       ELSE [st |-> IF force THEN "leave" ELSE e.st,
                             inc |-> e.inc + 1]
         ELSE IF i < e.inc THEN e ELSE [st |-> "leave", inc |-> i]

\* Mutant of Heard: a DEAD from others is believed.
HeardDead(a, u, e, m) ==
    CASE m.st = "alive"   -> AfterAlive(a, u, e, m.inc)
      [] m.st = "suspect" -> AfterSuspect(a, u, e, m.inc)
      [] m.st = "dead"    -> IF u # a /\ e.st = "alive" /\ m.inc >= e.inc
                             THEN [st |-> "dead", inc |-> m.inc] ELSE e
      [] m.st = "leave"   -> AfterLeave(a, u, e, m.inc, FALSE)

\* The dispatch that manage_message and merge_nodes share.
Heard(a, u, e, m) ==
    CASE m.st = "alive"               -> AfterAlive(a, u, e, m.inc)
      [] m.st \in {"suspect", "dead"} -> AfterSuspect(a, u, e, m.inc)
      [] m.st = "leave"               -> AfterLeave(a, u, e, m.inc, FALSE)

\* merge_nodes: every node that is given but ourself, with the same handlers.
Merged(a, mine, given) ==
    [u \in Subject |-> IF u = a \/ given[u].st = "unknown" THEN mine[u]
                       ELSE Heard(a, u, mine[u], given[u])]

(***************************************************************************)
(* Every handler that changes an entry broadcasts it.  set_alive puts a    *)
(* new object in nodes; set_suspect and set_leave write in the old one, in *)
(* sight of the ping that holds it.                                        *)
(***************************************************************************)
Changed(old, new) == {u \in Subject : new[u] # old[u]}
News(old, new)    == {Told(u, new[u]) : u \in Changed(old, new)}

Detached(p, old, new) ==
    IF p # None /\ p.same /\ p.tgt \in Changed(old, new)
                /\ new[p.tgt].st \in {"alive", "unknown"}
    THEN [p EXCEPT !.same = FALSE, !.held = old[p.tgt]]
    ELSE p

InBounds(t) == \A u \in Subject : t[u].inc <= MaxInc

\* The agents of A hold new[a], having told it, and nothing else changes.
Learn(A, new) ==
    /\ \A a \in A : InBounds(new[a])
    /\ table' = [a \in Node |-> IF a \in A THEN new[a] ELSE table[a]]
    /\ broadcasts' = [a \in Node |-> IF a \in A
                        THEN broadcasts[a] \cup News(table[a], new[a])
                        ELSE broadcasts[a]]
    /\ ping' = [a \in Node |-> IF a \in A THEN Detached(ping[a], table[a], new[a])
                                ELSE ping[a]]
    /\ UNCHANGED <<up, pingback, disk, stale, crashes>>

\* One entry of agent a changes that way.
LearnOne(a, u, e) == Learn({a}, [b \in {a} |-> [table[a] EXCEPT ![u] = e]])

-----------------------------------------------------------------------------
\* launch_gossip at b, then manage_message at a.  b sends nothing to an agent
\* that it knows not, or that it holds as leaving.
Gossiped(b, a, m) ==
    /\ a # b /\ {a, b} \subseteq up
    /\ m \in broadcasts[b]
    /\ a \in Subject => table[b][a].st \notin {"unknown", "leave"}
    /\ LearnOne(a, m.node, Heard(a, m.node, table[a][m.node], m))

\* do_push_pull at a: b merges the nodes of a and answers with its own, which
\* a merges, unless the answer is lost.
PushPull(a, b) ==
    LET atB == Merged(b, table[b], table[a])
        atA == Merged(a, table[a], atB)
    IN  /\ a # b /\ {a, b} \subseteq up
        /\ \/ Learn({a, b}, [x \in {a, b} |-> IF x = a THEN atA ELSE atB])
           \/ Learn({b}, [x \in {b} |-> atB])

\* increase_incarnation_and_broadcast, for a group or a zone that changed.
ChangeMyself(a) ==
    /\ a \in up \cap Subject
    /\ LearnOne(a, a, [table[a][a] EXCEPT !.inc = @ + 1])

\* The protected HTTP call /agent/leave: agent a is told that u leaves.
ForceLeave(a, u) ==
    /\ a \in up /\ <<a, u>> \in LeaveCalls
    /\ LearnOne(a, u, AfterLeave(a, u, table[a][u], table[a][u].inc, TRUE))

\* look_at_deads: a suspicion, or a departure, is old enough.  The own entry
\* has no leave_time and stays.
Expire(a, u) ==
    /\ a \in up /\ a # u
    /\ \/ /\ table[a][u].st = "suspect"
          /\ LearnOne(a, u, [table[a][u] EXCEPT !.st = "dead"])
       \/ /\ table[a][u].st = "leave"
          /\ table' = [table EXCEPT ![a][u] = Unknown]
          /\ ping' = [ping EXCEPT ![a] = Detached(@, table[a], table'[a])]
          /\ UNCHANGED <<up, broadcasts, pingback, disk, stale, crashes>>

-----------------------------------------------------------------------------
\* manage_ping_message at a: u, which a does not hold as alive, pings it.
HearPing(a, u) ==
    /\ a # u /\ {a, u} \subseteq up
    /\ a \in Subject => table[u][a].st # "unknown"
    /\ table[a][u].st \notin {"unknown", "alive"}
    /\ pingback' = [pingback EXCEPT ![a] = @ \cup {u}]
    /\ UNCHANGED <<table, up, broadcasts, ping, disk, stale, crashes>>

\* Mutants of MayPing: only who is held as alive is pinged; oneself is too.
MayPingAlive(a, u) == u # a /\ table[a][u].st = "alive"
MayPingSelf(a, u)  == table[a][u].st \notin {"unknown", "leave"}

\* __get_valid_nodes_to_ping.
MayPing(a, u) == u # a /\ table[a][u].st \notin {"unknown", "leave"}

\* __do_ping, up to its wait: u hears the ping, or not.  Who is in
\* to_ping_back is pinged whatever its state.
StartPing(a, u) ==
    /\ a \in up /\ ping[a] = None
    /\ MayPing(a, u) \/ (u \in pingback[a] /\ table[a][u].st # "unknown")
    /\ \E heard \in BOOLEAN :
          /\ heard => u \in up
          /\ ping' = [ping EXCEPT ![a] = [tgt |-> u, heard |-> heard,
                                          same |-> TRUE, held |-> Unknown]]
    /\ pingback' = [pingback EXCEPT ![a] = @ \ {u}]
    /\ UNCHANGED <<table, up, broadcasts, disk, stale, crashes>>

\* What other says, as __do_ping holds it.
Other(a) == IF ping[a].same THEN table[a][ping[a].tgt] ELSE ping[a].held

\* An ACK, from u itself or through a relay: set_alive(other, strong=True).
\* Its state always is ALIVE (create_alive_msg).  other is set alive before it
\* is compared with the entry, which may be the same object.
PingAnswered(a, u) ==
    LET e == [Other(a) EXCEPT !.st = "alive"]
        old == IF ping[a].same THEN e ELSE table[a][u]
    IN  /\ a \in up /\ ping[a] # None /\ ping[a].tgt = u
        /\ ping[a].heard \/ u \in up
        /\ table' = [table EXCEPT ![a][u] = e]
        /\ broadcasts' = IF old.st # "alive" \/ e.inc > old.inc
                         THEN [broadcasts EXCEPT ![a] = @ \cup {Told(u, e)}]
                         ELSE broadcasts
        /\ ping' = [ping EXCEPT ![a] = None]
        /\ UNCHANGED <<up, pingback, disk, stale, crashes>>

\* No ACK: set_suspect(other), at once and again after the second wait when
\* there is no relay to ask, after the relays' time otherwise.
PingTimedOut(a, u) ==
    LET e == AfterSuspect(a, u, table[a][u], Other(a).inc)
    IN  /\ a \in up /\ ping[a] # None /\ ping[a].tgt = u
        /\ table' = [table EXCEPT ![a][u] = e]
        /\ broadcasts' = [broadcasts EXCEPT
                            ![a] = @ \cup News(table[a], table'[a])]
        /\ \/ ping' = [ping EXCEPT ![a] = None]
           \/ ping' = ping
        /\ UNCHANGED <<up, pingback, disk, stale, crashes>>

\* Any other socket error is only logged.
PingFailed(a, u) ==
    /\ a \in up /\ ping[a] # None /\ ping[a].tgt = u
    /\ ping' = [ping EXCEPT ![a] = None]
    /\ UNCHANGED <<table, up, broadcasts, pingback, disk, stale, crashes>>

-----------------------------------------------------------------------------
MyInc(a) == IF a \in Subject THEN table[a][a].inc ELSE -1

\* The nodes file.  Its own entry is not read again.
Others(a) == [u \in Subject |-> IF u = a THEN Unknown ELSE table[a][u]]

\* retention_nodes: the nodes file, then the incarnation file; a crash may come
\* between the two.  After the last stop nothing reads them (bound).
Save(a) ==
    /\ a \in up
    /\ crashes < MaxCrashes
    /\ \E inc \in {disk[a].inc, MyInc(a)} :
          disk' = [disk EXCEPT ![a] = [inc |-> inc, nodes |-> Others(a)]]
    /\ UNCHANGED <<table, up, broadcasts, ping, pingback, stale, crashes>>

\* An agent that stops saves (__exit_path); one that crashes does not.  The
\* entries that it held are forgotten when it restarts.
Stop(a) ==
    /\ a \in up
    /\ crashes < MaxCrashes
    /\ crashes' = crashes + 1
    /\ up' = up \ {a}
    /\ broadcasts' = [broadcasts EXCEPT ![a] = {}]
    /\ ping' = [ping EXCEPT ![a] = None]
    /\ pingback' = [pingback EXCEPT ![a] = {}]
    /\ \/ disk' = [disk EXCEPT ![a] = [inc |-> MyInc(a), nodes |-> Others(a)]]
       \/ disk' = disk
    /\ UNCHANGED <<table, stale>>

\* Mutants of NextInc: the incarnation is not increased; it is not loaded.
NextIncSame(a) == IF disk[a].inc < 0 THEN 0 ELSE disk[a].inc
NextIncZero(a) == 0

\* The incarnation of an agent that starts.
NextInc(a) == disk[a].inc + 1

\* Cluster.__init__ and Gossip.init.
Restart(a) ==
    /\ a \notin up
    /\ NextInc(a) <= MaxInc
    /\ stale' = IF disk[a].inc < MyInc(a) THEN stale + 1 ELSE stale
    /\ stale' <= MaxStale
    /\ up' = up \cup {a}
    /\ table' = [table EXCEPT ![a] = Started(a, NextInc(a), disk[a].nodes)]
    /\ UNCHANGED <<broadcasts, ping, pingback, disk, crashes>>

-----------------------------------------------------------------------------
Next ==
    \/ \E a, b \in Node : \/ PushPull(a, b)
                          \/ \E m \in broadcasts[b] : Gossiped(b, a, m)
    \/ \E a \in Node :
          \/ ChangeMyself(a)
          \/ Save(a)
          \/ Stop(a)
          \/ Restart(a)
          \/ \E u \in Subject :
                \/ ForceLeave(a, u)
                \/ Expire(a, u)
                \/ HearPing(a, u)
                \/ StartPing(a, u)
                \/ PingAnswered(a, u)
                \/ PingTimedOut(a, u)
                \/ PingFailed(a, u)

Spec == Init /\ [][Next]_vars

(***************************************************************************)
(* The ping thread never stops and picks its peer at random, so no peer is *)
(* left out for ever.  Not every answer of an agent that runs is lost, and *)
(* not every ping of one that stopped ends in a socket error: the others   *)
(* time out.  Nothing is promised of gossip (UDP, and at most ten sends of *)
(* each) nor of push-pull, whose HTTP calls may all fail.                  *)
(***************************************************************************)
Fairness ==
    \A a \in Node, u \in Subject :
       /\ SF_vars(StartPing(a, u))
       /\ SF_vars(PingAnswered(a, u))
       /\ SF_vars(u \notin up /\ PingTimedOut(a, u) /\ ping'[a] = None)

FairSpec == Spec /\ Fairness

-----------------------------------------------------------------------------
Known(a, u) == table[a][u].st # "unknown"

\* Every variable has its type, and who does not run does nothing.
TypeOK ==
    /\ table \in [Node -> Table]
    /\ up \subseteq Node
    /\ broadcasts \in [Node -> SUBSET Message]
    /\ ping \in [Node -> Ping \cup {None}]
    /\ pingback \in [Node -> SUBSET Subject]
    /\ disk \in [Node -> Disk]
    /\ stale \in 0..MaxStale
    /\ crashes \in 0..MaxCrashes
    /\ \A a \in Node, u \in Subject : Known(a, u) \/ table[a][u] = Unknown
    /\ \A a \in Node \ up : broadcasts[a] = {} /\ ping[a] = None /\ pingback[a] = {}

(***************************************************************************)
(* Nobody doubts itself: whatever the others say, suspect or merge, an     *)
(* agent holds itself as alive, or as leaving (set_alive, set_suspect and  *)
(* set_leave single out their own uuid; merge_nodes skips it).             *)
(***************************************************************************)
NobodyDoubtsItself == \A u \in Subject : table[u][u].st \in {"alive", "leave"}

(***************************************************************************)
(* As long as no agent restarts from a late incarnation file, no entry, no *)
(* broadcast, no file and no ping in progress carries an incarnation of u  *)
(* that u did not reach: what u says next is newer than all of them, which *)
(* every refutation relies on.                                             *)
(***************************************************************************)
KnownIncarnationsAreReal ==
    stale = 0 =>
      \A a \in Node, u \in Subject :
        /\ table[a][u].inc <= table[u][u].inc
        /\ disk[a].nodes[u].inc <= table[u][u].inc
        /\ \A m \in broadcasts[a] : m.node = u => m.inc <= table[u][u].inc
        /\ ping[a] # None => Other(a).inc <= table[ping[a].tgt][ping[a].tgt].inc

(***************************************************************************)
(* An agent that restarts from files that are up to date is newer than all *)
(* that anybody holds or sends of it (cluster.py loads the incarnation and *)
(* adds one).                                                              *)
(***************************************************************************)
NewestAfterRestart ==
    [][\A u \in Subject : u \notin up /\ u \in up' /\ stale' = 0 =>
          \A a \in Node \ {u} :
             /\ table'[a][u].inc < table'[u][u].inc \/ ~ Known(a, u)
             /\ \A m \in broadcasts'[a] : m.node = u => m.inc < table'[u][u].inc
      ]_vars

(***************************************************************************)
(* An agent declares another dead only after having suspected it itself,   *)
(* at that incarnation, or having done so in a former life (the note of    *)
(* merge_nodes: "we never believe others for dead").                       *)
(***************************************************************************)
DeadOnlyAfterOwnSuspicion ==
    [][\A a \in Node, u \in Subject :
          table'[a][u].st = "dead" /\ table'[a][u] # table[a][u] =>
             \/ table[a][u] = [table'[a][u] EXCEPT !.st = "suspect"]
             \/ a \notin up /\ table'[a][u] = disk[a].nodes[u]]_vars

(***************************************************************************)
(* An agent leaves only when its own protected HTTP call says so: no       *)
(* gossip, no ping and no push-pull puts its own entry in leave.           *)
(***************************************************************************)
LeavesOnlyWhenAsked ==
    \A u \in Subject : table[u][u].st = "leave" => <<u, u>> \in LeaveCalls

(***************************************************************************)
(* What an agent holds of another goes back to an older incarnation only   *)
(* through a deletion, a restart or a ping: gossip and push-pull never     *)
(* bring old news back, in whatever order they come.                       *)
(***************************************************************************)
OldNewsStaysOld ==
    [][\A a \in Node, u \in Subject :
          table'[a][u].inc < table[a][u].inc =>
             \/ table'[a][u].st = "unknown"
             \/ a \notin up
             \/ ping[a] # None /\ ~ ping[a].same /\ ping'[a] = None]_vars

(***************************************************************************)
(* An agent that was suspect, dead or gone is alive again for another only *)
(* by a newer incarnation, or by an answer to a ping: set_alive takes no   *)
(* old news, however many agents still spread it.                          *)
(***************************************************************************)
RevivedByNewsOrPing ==
    [][\A a \in Node, u \in Subject :
          table[a][u].st \in {"suspect", "dead", "leave"} /\ table'[a][u].st = "alive" =>
             \/ table'[a][u].inc > table[a][u].inc
             \/ a \notin up
             \/ PingAnswered(a, u)]_vars

(***************************************************************************)
(* An agent that is not there any more is noticed by every one that runs.  *)
(***************************************************************************)
CrashIsNoticed ==
    \A a \in Node : \A u \in Subject \ {a} :
       (a \in up /\ u \notin up /\ table[a][u].st = "alive")
          ~> (a \notin up \/ u \in up \/ table[a][u].st # "alive")

(***************************************************************************)
(* An agent that runs does not stay suspect, or dead, for one that runs:   *)
(* the pings bring it back, even when every refutation is lost.            *)
(***************************************************************************)
WrongSuspicionEnds ==
    \A a \in Node : \A u \in Subject \ {a} :
       ({a, u} \subseteq up /\ table[a][u].st \in {"suspect", "dead"})
          ~> (~ {a, u} \subseteq up \/ table[a][u].st \notin {"suspect", "dead"})

-----------------------------------------------------------------------------
(***************************************************************************)
(* What the agents hold of one another, seen from their entries, whom they *)
(* ping and what their nodes files say.                                    *)
(***************************************************************************)
Abstract == INSTANCE Membership WITH
    Leavers <- {u \in Subject : <<u, u>> \in LeaveCalls},
    asking <- [a \in Node |-> IF ping[a] = None THEN {}
                               ELSE {[tgt |-> ping[a].tgt, heard |-> ping[a].heard]}],
    saved <- [a \in Node |-> disk[a].nodes],
    late <- stale > 0

\* Gossip, push-pull, pings, leave calls, retention files and restarts implement
\* Membership: whatever is lost, repeated or reordered, nobody believes a DEAD from
\* another, a suspicion or a departure is taken back only for a newer incarnation or
\* by an answer of an agent that was there, and nothing is ahead of whom it is about.
KeepsMembership == Abstract!Spec

-----------------------------------------------------------------------------
(***************************************************************************)
(* What a comment of the code says, and the code does not do.              *)
(***************************************************************************)
\* gossip.py:618 "only react to the new data if they are really new :)"
NewDataOnly ==
    [][\A a \in Node, u \in Subject :
          a \in up /\ Known(a, u) /\ table'[a][u].st # "unknown" =>
             table'[a][u].inc >= table[a][u].inc]_vars
=============================================================================
