------------------------------ MODULE KVStore ------------------------------
(***************************************************************************)
(* The key-value store of src/opsbro/kv.py (KVBackend), with the ring of   *)
(* gossip.py and the first synchronization of cluster.py.  Keys do not     *)
(* touch each other, so one key is followed.  An agent is its position on  *)
(* the ring (its uuid, a hash), HKey that of the key.                      *)
(*                                                                         *)
(* put and delete take no lock: HTTP threads, the UDP listener and the     *)
(* reaper of put_key_buffer run them at once.  Each write of the database  *)
(* is a step of a thread.  A request in net is an HTTP call or a datagram  *)
(* that may arrive late (its caller gave up waiting) or never.             *)
(***************************************************************************)
EXTENDS Integers, FiniteSets

CONSTANTS Node,        \* the agents
          KvNode,      \* those of the group kv
          HKey,        \* the hash of the key
          RingSize,    \* hashes are below it
          Thread,      \* the threads of an agent that may put
          None,        \* no value, no job, no backlog entry
          MaxPuts,     \* bound: client requests
          MaxCrashes   \* bound: stops

ASSUME RingAssumption ==
    /\ RingSize \in Nat
    /\ Node \subseteq 0..(RingSize - 1)
    /\ HKey \in 0..(RingSize - 1)
    /\ KvNode \subseteq Node /\ KvNode # {}
ASSUME BoundsAssumption == MaxPuts \in Nat /\ MaxCrashes \in Nat

VARIABLES view,     \* find_group_nodes('kv') at each agent
          db,       \* the database: the __meta index of the key (0: none) and its value
          job,      \* what each thread is doing
          backlog,  \* replication_backlog
          net,      \* requests on their way
          tosync,   \* do_replication_first_sync_thread still runs
          up,       \* the agents that run
          puts,     \* client requests so far; a put writes its number
          crashes,  \* stops so far
          made,     \* history: the versions an agent wrote for a client
          missed,   \* history: who wrote a version while an agent was down
          upsets    \* history: "raced", "moved", "deleted" when it happened

vars == <<view, db, job, backlog, net, tosync, up, puts, crashes, made, missed, upsets>>

Value   == 1..MaxPuts
Version == [index : Nat, value : Value]
Absent  == [index |-> 0, value |-> None]

\* A put or a deletion that is relayed by HTTP, a put through UDP (fw), one with "force".
Request ==
    [op : {"put", "fw"}, to : Node, value : Value, index : {0}, via : SUBSET Node]
    \cup [op : {"delete"}, to : Node, value : {None}, index : {0}, via : SUBSET Node]
    \cup [op : {"force"}, to : Node, value : Value, index : Nat, via : {{}}]

\* pc: the index was "read", the "meta" written, the "value" written.
Job ==
    [op : {"put", "force", "merge"}, pc : {"read", "meta", "value"},
     base : Nat, value : Value, index : Nat]
    \cup [op : {"delete"}, pc : {"read", "value"}, base : Nat, value : {None}, index : Nat]

ASSUME NoneAssumption == None \notin Nat /\ None \notin Version /\ None \notin Job

\* The greatest of a set of positions.
Last(S) == CHOOSE n \in S : \A m \in S : m <= n

KvNodes(n) == view[n]

\* Mutant of Owner: only the others are looked at.
OwnerNotMe(n) ==
    LET V == KvNodes(n) \ {n}
        before == {m \in V : m <= HKey}
    IN  IF V = {} THEN n
        ELSE IF before # {} THEN Last(before) ELSE Last(V)

\* find_group_node: the last agent that is not after the key, or the last of all
\* (index -1 of a list); oneself when there is none.
Owner(n) ==
    LET V == KvNodes(n)
        before == {m \in V : m <= HKey}
    IN  IF V = {} THEN n
        ELSE IF before # {} THEN Last(before) ELSE Last(V)

\* get_my_replicats with REPLICATS = 1: the agent before this one on the ring.
Replicas(n) ==
    LET before == {m \in KvNodes(n) : m < n}
    IN  (IF before # {} THEN {Last(before)} ELSE {Last(KvNodes(n))}) \ {n}

Busy(n) == \E t \in Thread : job[n][t] # None

\* What an agent may take for the members of kv: it is one of them if it is.
MayView(n) == {V \in SUBSET KvNode : n \in KvNode => n \in V}

Init ==
    /\ view \in {v \in [Node -> SUBSET KvNode] : \A n \in Node : v[n] \in MayView(n)}
    /\ db = [n \in Node |-> Absent]
    /\ job = [n \in Node |-> [t \in Thread |-> None]]
    /\ backlog = [n \in Node |-> None]
    /\ net = {}
    /\ tosync = {}
    /\ up = Node
    /\ puts = 0
    /\ crashes = 0
    /\ made = {}
    /\ missed = [n \in Node |-> {}]
    /\ upsets = IF \A a, b \in Node : view[a] = view[b] THEN {} ELSE {"moved"}

-----------------------------------------------------------------------------
Upset(what, happens) == upsets' = upsets \cup (IF happens THEN {what} ELSE {})

\* A thread of n begins op: put first reads the index it will add one to.
Begin(n, t, op, value, index) ==
    /\ job[n][t] = None
    /\ job' = [job EXCEPT ![n][t] = [op |-> op, pc |-> "read", base |-> db[n].index,
                                     value |-> value, index |-> index]]
    /\ upsets' = upsets \cup (IF Busy(n) THEN {"raced"} ELSE {})
                        \cup (IF op = "delete" THEN {"deleted"} ELSE {})

\* Mutant of Serve: every agent writes what its own clients ask.
ServeHere(n, t, op, kind, value, via, others) ==
    Begin(n, t, op, value, 0) /\ net' = others

\* put_key and delete_key at n: do it when the key is ours, else relay it.
Serve(n, t, op, kind, value, via, others) ==
    IF Owner(n) = n
    THEN Begin(n, t, op, value, 0) /\ net' = others
    ELSE /\ net' = others \cup {[op |-> kind, to |-> Owner(n), value |-> value,
                                 index |-> 0, via |-> via \cup {n}]}
         /\ UNCHANGED <<job, upsets>>

\* A client asks n for a put, over HTTP ("put") or by stack_put_key, that allows UDP
\* ("fw"); the value is new.
ClientPut(n, t, kind) ==
    /\ n \in up
    /\ puts < MaxPuts
    /\ puts' = puts + 1
    /\ Serve(n, t, "put", kind, puts + 1, {}, net)
    /\ UNCHANGED <<view, db, backlog, tosync, up, crashes, made, missed>>

ClientDelete(n, t) ==
    /\ n \in up
    /\ puts < MaxPuts
    /\ puts' = puts + 1
    /\ Serve(n, t, "delete", "delete", None, {}, net)
    /\ UNCHANGED <<view, db, backlog, tosync, up, crashes, made, missed>>

\* An HTTP call relayed by another agent: it looks for the owner again.
ReceiveRelayed(m, t) ==
    /\ m.to \in up
    /\ m.op \in {"put", "delete"}
    /\ Serve(m.to, t, m.op, m.op, m.value, m.via, net \ {m})
    /\ UNCHANGED <<view, db, backlog, tosync, up, puts, crashes, made, missed>>

\* A forwarded datagram, or a replica's copy: it is for us whatever the ring says.
ReceiveForMe(m, t) ==
    /\ m.to \in up
    /\ m.op \in {"fw", "force"}
    /\ Begin(m.to, t, IF m.op = "fw" THEN "put" ELSE "force", m.value, m.index)
    /\ net' = net \ {m}
    /\ UNCHANGED <<view, db, backlog, tosync, up, puts, crashes, made, missed>>

Lose(m) ==
    /\ net' = net \ {m}
    /\ UNCHANGED <<view, db, job, backlog, tosync, up, puts, crashes, made, missed, upsets>>

-----------------------------------------------------------------------------
\* Mutant of WriteMeta: the index is not raised when the key is known.
WriteMetaSame(n, t) ==
    LET j == job[n][t] IN
    /\ j # None
    /\ j.op \in {"put", "force"}
    /\ j.pc = "read"
    /\ db' = [db EXCEPT ![n].index = IF j.base = 0 THEN 1 ELSE j.base]
    /\ job' = [job EXCEPT ![n][t].pc = "meta"]
    /\ missed' = [p \in Node |-> IF p \in up THEN missed[p] ELSE missed[p] \cup {n}]
    /\ UNCHANGED <<view, backlog, net, tosync, up, puts, crashes, made, upsets>>

\* put: the meta entry, one more than the index that was read.
WriteMeta(n, t) ==
    LET j == job[n][t] IN
    /\ j # None
    /\ j.op \in {"put", "force"}
    /\ j.pc = "read"
    /\ db' = [db EXCEPT ![n].index = j.base + 1]
    /\ job' = [job EXCEPT ![n][t].pc = "meta"]
    /\ missed' = [p \in Node |-> IF p \in up THEN missed[p] ELSE missed[p] \cup {n}]
    /\ UNCHANGED <<view, backlog, net, tosync, up, puts, crashes, made, upsets>>

\* put: "and in the end save the real data".
WriteValue(n, t) ==
    LET j == job[n][t] IN
    /\ j # None
    /\ j.op \in {"put", "force"}
    /\ j.pc = "meta"
    /\ db' = [db EXCEPT ![n].value = j.value]
    /\ job' = [job EXCEPT ![n][t].pc = "value"]
    /\ made' = IF j.op = "put"
               THEN made \cup {[index |-> db[n].index, value |-> j.value]} ELSE made
    /\ UNCHANGED <<view, backlog, net, tosync, up, puts, crashes, missed, upsets>>

\* put_key, after put: remember the new version for the replication thread.
AddBacklog(n, t) ==
    LET j == job[n][t] IN
    /\ j # None
    /\ j.op = "put"
    /\ j.pc = "value"
    /\ backlog' = [backlog EXCEPT ![n] = [index |-> db[n].index, value |-> j.value]]
    /\ job' = [job EXCEPT ![n][t] = None]
    /\ UNCHANGED <<view, db, net, tosync, up, puts, crashes, made, missed, upsets>>

\* Mutant of CopyMeta: a replica keeps the index that its own put computed.
CopyMetaForgotten(n, t) ==
    LET j == job[n][t] IN
    /\ j # None
    /\ j.op = "force"
    /\ j.pc = "value"
    /\ job' = [job EXCEPT ![n][t] = None]
    /\ UNCHANGED <<view, db, backlog, net, tosync, up, puts, crashes, made, missed, upsets>>

\* put_key, after a put with force: "replicate the meta data from the master node".
CopyMeta(n, t) ==
    LET j == job[n][t] IN
    /\ j # None
    /\ j.op = "force"
    /\ j.pc = "value"
    /\ db' = [db EXCEPT ![n].index = j.index]
    /\ job' = [job EXCEPT ![n][t] = None]
    /\ UNCHANGED <<view, backlog, net, tosync, up, puts, crashes, made, missed, upsets>>

\* delete: the value, then the meta entry.
DeleteValue(n, t) ==
    LET j == job[n][t] IN
    /\ j # None
    /\ j.op = "delete"
    /\ j.pc = "read"
    /\ db' = [db EXCEPT ![n].value = None]
    /\ job' = [job EXCEPT ![n][t].pc = "value"]
    /\ UNCHANGED <<view, backlog, net, tosync, up, puts, crashes, made, missed, upsets>>

DeleteMeta(n, t) ==
    LET j == job[n][t] IN
    /\ j # None
    /\ j.op = "delete"
    /\ j.pc = "value"
    /\ db' = [db EXCEPT ![n].index = 0]
    /\ job' = [job EXCEPT ![n][t] = None]
    /\ UNCHANGED <<view, backlog, net, tosync, up, puts, crashes, made, missed, upsets>>

\* do_replication_backlog_thread: the entry is taken out and sent to the replicas; the
\* call is not tried again.
Replicate(n) ==
    /\ n \in up \cap KvNode
    /\ backlog[n] # None
    /\ backlog' = [backlog EXCEPT ![n] = None]
    /\ net' = net \cup {[op |-> "force", to |-> r, value |-> backlog[n].value,
                         index |-> backlog[n].index, via |-> {}] : r \in Replicas(n)}
    /\ UNCHANGED <<view, db, job, tosync, up, puts, crashes, made, missed, upsets>>

-----------------------------------------------------------------------------
\* do_merge takes a version when its index is higher than the one we have.
Newer(theirs, mine) == theirs.index > mine.index

\* do_replication_first_sync_thread and do_merge: replica r answers with the key when
\* it has it (changed_since) and it changed since we were last alive; it is merged
\* when we have it too and theirs is newer.
Sync(n, t, r, changed) ==
    LET theirs == db[r]
        merges == /\ changed
                  /\ theirs.index # 0 /\ theirs.value # None
                  /\ db[n].index # 0
                  /\ Newer(theirs, db[n])
    IN  /\ n \in tosync \cap up
        /\ r \in Replicas(n) \cap up
        /\ r \in missed[n] => changed
        /\ job[n][t] = None
        /\ tosync' = tosync \ {n}
        /\ missed' = [missed EXCEPT ![n] = {}]
        /\ job' = IF merges
                  THEN [job EXCEPT ![n][t] = [op |-> "merge", pc |-> "read", base |-> 0,
                                              value |-> theirs.value, index |-> theirs.index]]
                  ELSE job
        /\ Upset("raced", Busy(n) \/ Busy(r))
        /\ UNCHANGED <<view, db, backlog, net, up, puts, crashes, made>>

MergeMeta(n, t) ==
    LET j == job[n][t] IN
    /\ j # None
    /\ j.op = "merge"
    /\ j.pc = "read"
    /\ db' = [db EXCEPT ![n].index = j.index]
    /\ job' = [job EXCEPT ![n][t].pc = "meta"]
    /\ UNCHANGED <<view, backlog, net, tosync, up, puts, crashes, made, missed, upsets>>

MergeValue(n, t) ==
    LET j == job[n][t] IN
    /\ j # None
    /\ j.op = "merge"
    /\ j.pc = "meta"
    /\ db' = [db EXCEPT ![n].value = j.value]
    /\ job' = [job EXCEPT ![n][t] = None]
    /\ UNCHANGED <<view, backlog, net, tosync, up, puts, crashes, made, missed, upsets>>

-----------------------------------------------------------------------------
\* Gossip finds, suspects or loses a member of kv.
ViewChange(n, V) ==
    /\ n \in up
    /\ V \in MayView(n) \ {view[n]}
    /\ view' = [view EXCEPT ![n] = V]
    /\ Upset("moved", TRUE)
    /\ UNCHANGED <<db, job, backlog, net, tosync, up, puts, crashes, made, missed>>

\* The agent stops: its database stays, between two writes of it or not.
Crash(n) ==
    /\ n \in up
    /\ crashes < MaxCrashes
    /\ crashes' = crashes + 1
    /\ up' = up \ {n}
    /\ job' = [job EXCEPT ![n] = [t \in Thread |-> None]]
    /\ backlog' = [backlog EXCEPT ![n] = None]
    /\ net' = {m \in net : m.to # n}
    /\ tosync' = tosync \ {n}
    /\ missed' = [missed EXCEPT ![n] = {}]
    /\ Upset("raced", Busy(n))
    /\ UNCHANGED <<view, db, puts, made>>

\* Mutant of Restart: an agent outside the group looks for versions too.
RestartAnyGroup(n) ==
    /\ n \notin up
    /\ up' = up \cup {n}
    /\ tosync' = tosync \cup {n}
    /\ UNCHANGED <<view, db, job, backlog, net, puts, crashes, made, missed, upsets>>

\* It starts again, with the members it had, and looks for what it missed.
Restart(n) ==
    /\ n \notin up
    /\ up' = up \cup {n}
    /\ tosync' = IF n \in KvNode THEN tosync \cup {n} ELSE tosync
    /\ UNCHANGED <<view, db, job, backlog, net, puts, crashes, made, missed, upsets>>

-----------------------------------------------------------------------------
Next ==
    \/ \E n \in Node, t \in Thread :
        \/ \E kind \in {"put", "fw"} : ClientPut(n, t, kind)
        \/ ClientDelete(n, t)
        \/ WriteMeta(n, t)
        \/ WriteValue(n, t)
        \/ AddBacklog(n, t)
        \/ CopyMeta(n, t)
        \/ DeleteValue(n, t)
        \/ DeleteMeta(n, t)
        \/ \E r \in KvNode, changed \in BOOLEAN : Sync(n, t, r, changed)
        \/ MergeMeta(n, t)
        \/ MergeValue(n, t)
    \/ \E m \in net :
        \/ \E t \in Thread : ReceiveRelayed(m, t) \/ ReceiveForMe(m, t)
        \/ Lose(m)
    \/ \E n \in Node :
        \/ Replicate(n)
        \/ \E V \in SUBSET KvNode : ViewChange(n, V)
        \/ Crash(n)
        \/ Restart(n)

Spec == Init /\ [][Next]_vars

-----------------------------------------------------------------------------
TypeOK ==
    /\ view \in [Node -> SUBSET KvNode]
    /\ \A n \in Node : view[n] \in MayView(n)
    /\ db \in [Node -> [index : Nat, value : Value \cup {None}]]
    /\ job \in [Node -> [Thread -> Job \cup {None}]]
    /\ backlog \in [Node -> [index : Nat, value : Value] \cup {None}]
    /\ net \subseteq Request
    /\ tosync \subseteq KvNode
    /\ up \subseteq Node
    /\ puts \in 0..MaxPuts
    /\ crashes \in 0..MaxCrashes
    /\ made \subseteq Version
    /\ missed \in [Node -> SUBSET Node]
    /\ upsets \subseteq {"raced", "moved", "deleted"}

\* put_key and delete_key relay a request by HTTP to the owner they see, and the owner
\* looks again: however memberships differ and change meanwhile, a request never comes
\* back to an agent that relayed it.
ForwardingEnds == \A m \in net : m.to \notin m.via

\* The version an agent has of the key is one that a put for a client made, with that
\* index: replicas copy index and value of their master (put_key with force), merges
\* too.  Holds while no two threads of an agent were at the key together and none was
\* stopped in the middle.
StoredVersionsAreReal ==
    "raced" \notin upsets =>
        /\ \A n \in Node : ~ Busy(n) => db[n] \in made \cup {Absent}
        /\ \A n \in Node : backlog[n] \in made \cup {None}
        /\ \A m \in net : m.op = "force" => [index |-> m.index, value |-> m.value] \in made

\* do_merge compares indexes only.  While all agents see the same members and nothing
\* was deleted, an index names one value.
OneValuePerIndex ==
    upsets = {} => \A v, w \in made : v.index = w.index => v = w

\* ... and nobody has a version that the owner of the key has not reached, however late
\* the replicas' copies arrive.
ReplicaNeverAhead ==
    upsets = {} =>
        \A n \in Node : ~ Busy(n) => db[n].index <= db[Owner(n)].index

-----------------------------------------------------------------------------
\* "The first sync thread will ask to our replicats for their lately changed value and
\* we will get the key/value from it" (cluster.py:675).
SyncBringsMissedPuts ==
    [][\A n \in Node, r \in Node :
          /\ n \in tosync /\ n \notin tosync' /\ n \in up'
          /\ Replicas(n) = {r} /\ r \in missed[n]
          /\ "raced" \notin upsets' /\ db[r] # Absent
          => \/ db[n].index >= db[r].index
             \/ \E t \in Thread : job'[n][t] # None /\ job'[n][t].index = db[r].index]_vars
=============================================================================
