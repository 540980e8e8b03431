-------------------------------- MODULE Events --------------------------------
(***************************************************************************)
(* One event of src/opsbro/gossip.py and udplistener.py: it is stacked in  *)
(* the queue of broadcast.py by the agent that emits it, gossiped over UDP *)
(* a limited number of times, merged by the HTTP push-pull, handled, and   *)
(* forgotten when it is too old.  The UDP thread looks it up under the     *)
(* lock and adds it after the lock is released; merge_events does both     *)
(* under it.  What an agent knows of events is lost when it stops.         *)
(***************************************************************************)
EXTENDS Integers, FiniteSets

CONSTANTS Node,         \* the agents
          Origin,       \* the one that emits the event
          None,         \* not emitted yet
          KGossip,      \* how many times a broadcast is sent
          MaxAge,       \* max_event_age
          MaxTime,      \* bound: the clock stops there
          MaxStacked,   \* bound: broadcasts stacked in one life of an agent
          MaxRestarts   \* bound: restarts

ASSUME EventsAssumption ==
    /\ Origin \in Node /\ None \notin Int
    /\ KGossip \in Nat \ {0} /\ MaxAge \in Nat /\ MaxTime \in Nat
    /\ MaxStacked \in Nat /\ MaxRestarts \in Nat

VARIABLES now,       \* the time, the same for every agent
          ctime,     \* when the event was emitted
          events,    \* who has it in its events
          stacked,   \* how many broadcasts of it each agent stacked,
          send,      \* ... and how many times each of them was sent
          flying,    \* who has a datagram with it on the way
          coming,    \* who is given it by a push-pull
          listener,  \* the UDP thread: idle, or it found the event new
          emitter,   \* stack_event_broadcast at Origin: idle, stacked, done
          handled,   \* how often each agent handled it in this life
          via,       \* history: how it came in this life: own, udp, http
          restarts   \* restarts so far

vars == <<now, ctime, events, stacked, send, flying, coming, listener, emitter, handled,
          via, restarts>>

Broadcast == 1..MaxStacked
Way == {"own", "udp", "http"}

Init ==
    /\ now = 0
    /\ ctime = None
    /\ events = {}
    /\ stacked = [a \in Node |-> 0]
    /\ send = [a \in Node |-> [b \in Broadcast |-> 0]]
    /\ flying = {}
    /\ coming = {}
    /\ listener = [a \in Node |-> "idle"]
    /\ emitter = "idle"
    /\ handled = [a \in Node |-> 0]
    /\ via = [a \in Node |-> {}]
    /\ restarts = 0

Tick ==
    /\ now < MaxTime
    /\ now' = now + 1
    /\ UNCHANGED <<ctime, events, stacked, send, flying, coming, listener, emitter,
                   handled, via, restarts>>

-----------------------------------------------------------------------------
\* broadcaster.append, by agent a that got the event that way.
Stack(a, way) ==
    /\ stacked[a] < MaxStacked
    /\ stacked' = [stacked EXCEPT ![a] = @ + 1]
    /\ via' = [via EXCEPT ![a] = @ \cup {way}]

\* The broadcasts that a still has in its queue.
Queue(a) == {b \in 1..stacked[a] : send[a][b] < KGossip}

\* stack_event_broadcast: the broadcast first,
Emit ==
    /\ emitter = "idle"
    /\ Stack(Origin, "own")
    /\ ctime' = now
    /\ emitter' = "stacked"
    /\ UNCHANGED <<now, events, send, flying, coming, listener, handled, restarts>>

\* ... then the event.
Remember ==
    /\ emitter = "stacked"
    /\ emitter' = "done"
    /\ events' = events \cup {Origin}
    /\ UNCHANGED <<now, ctime, stacked, send, flying, coming, listener, handled, via, restarts>>

\* Mutant of Gossip: a broadcast is removed one time too late.
GossipOnceMore(a, b) ==
    LET queue == {i \in 1..stacked[a] : send[a][i] <= KGossip} IN
    /\ a # b /\ queue # {}
    /\ send' = [send EXCEPT ![a] = [i \in Broadcast |-> IF i \in queue THEN @[i] + 1 ELSE @[i]]]
    /\ flying' = flying \cup {b}
    /\ UNCHANGED <<now, ctime, events, stacked, coming, listener, emitter, handled, via, restarts>>

\* launch_gossip: all that is in the queue goes to b, and is counted; what was sent KGossip
\* times leaves the queue.
Gossip(a, b) ==
    /\ a # b /\ Queue(a) # {}
    /\ send' = [send EXCEPT ![a] = [i \in Broadcast |-> IF i \in Queue(a) THEN @[i] + 1 ELSE @[i]]]
    /\ flying' = flying \cup {b}
    /\ UNCHANGED <<now, ctime, events, stacked, coming, listener, emitter, handled, via, restarts>>

\* A datagram is received, now or later, once or more, or stays on the way and is lost.
\* manage_event: is the event known?
Receive(a) ==
    /\ a \in flying
    /\ listener[a] = "idle"
    /\ flying' \in {flying, flying \ {a}}
    /\ listener' = [listener EXCEPT ![a] = IF a \in events THEN "idle" ELSE "new"]
    /\ UNCHANGED <<now, ctime, events, stacked, send, coming, emitter, handled, via, restarts>>

\* Mutant of Manage: the test on the sender is the wrong way round.
ManageOwnOnly(a) ==
    /\ listener[a] = "new"
    /\ Stack(a, "udp")
    /\ events' = events \cup {a}
    /\ listener' = [listener EXCEPT ![a] = "idle"]
    /\ handled' = [handled EXCEPT ![a] = IF a = Origin THEN @ + 1 ELSE @]
    /\ UNCHANGED <<now, ctime, send, flying, coming, emitter, restarts>>

\* It was not: it is stacked, added and, unless it is its own, handled.
Manage(a) ==
    /\ listener[a] = "new"
    /\ Stack(a, "udp")
    /\ events' = events \cup {a}
    /\ listener' = [listener EXCEPT ![a] = "idle"]
    /\ handled' = [handled EXCEPT ![a] = IF a = Origin THEN @ ELSE @ + 1]
    /\ UNCHANGED <<now, ctime, send, flying, coming, emitter, restarts>>

-----------------------------------------------------------------------------
\* do_push_pull: a gives a copy of its events to b, as it asks or as it answers, in an
\* HTTP call that succeeds;
Offer(a, b) ==
    /\ a # b /\ a \in events
    /\ coming' = coming \cup {b}
    /\ UNCHANGED <<now, ctime, events, stacked, send, flying, listener, emitter, handled,
                   via, restarts>>

\* Mutants of Merge: the event is stacked and not added; it is stacked though it is known.
MergeStacksOnly(a) ==
    /\ a \in coming
    /\ coming' = coming \ {a}
    /\ IF a \in events THEN UNCHANGED <<stacked, via>> ELSE Stack(a, "http")
    /\ UNCHANGED <<now, ctime, events, send, flying, listener, emitter, handled, restarts>>
MergeKnownToo(a) ==
    /\ a \in coming
    /\ coming' = coming \ {a}
    /\ Stack(a, "http")
    /\ events' = events \cup {a}
    /\ UNCHANGED <<now, ctime, send, flying, listener, emitter, handled, restarts>>

\* ... merge_events adds it, and does not handle it.
Merge(a) ==
    /\ a \in coming
    /\ coming' = coming \ {a}
    /\ IF a \in events THEN UNCHANGED <<stacked, via>> ELSE Stack(a, "http")
    /\ events' = events \cup {a}
    /\ UNCHANGED <<now, ctime, send, flying, listener, emitter, handled, restarts>>

\* Mutant of Clean: an event is old one second too early.
CleanEarly(a) ==
    /\ a \in events
    /\ ctime <= now - MaxAge
    /\ events' = events \ {a}
    /\ UNCHANGED <<now, ctime, stacked, send, flying, coming, listener, emitter, handled,
                   via, restarts>>

\* __clean_old_events.
Clean(a) ==
    /\ a \in events
    /\ ctime < now - MaxAge
    /\ events' = events \ {a}
    /\ UNCHANGED <<now, ctime, stacked, send, flying, coming, listener, emitter, handled,
                   via, restarts>>

\* An agent stops and starts again.
Restart(a) ==
    /\ restarts < MaxRestarts
    /\ restarts' = restarts + 1
    /\ events' = events \ {a}
    /\ stacked' = [stacked EXCEPT ![a] = 0]
    /\ send' = [send EXCEPT ![a] = [b \in Broadcast |-> 0]]
    /\ coming' = coming \ {a}
    /\ listener' = [listener EXCEPT ![a] = "idle"]
    /\ emitter' = IF a = Origin /\ emitter = "stacked" THEN "done" ELSE emitter
    /\ handled' = [handled EXCEPT ![a] = 0]
    /\ via' = [via EXCEPT ![a] = {}]
    /\ UNCHANGED <<now, ctime, flying>>

Next ==
    \/ Tick
    \/ Emit
    \/ Remember
    \/ \E a \in Node :
          \/ Receive(a)
          \/ Manage(a)
          \/ Merge(a)
          \/ Clean(a)
          \/ Restart(a)
          \/ \E b \in Node : Gossip(a, b) \/ Offer(a, b)

(***************************************************************************)
(* launch_full_sync_loop never stops and picks its peer at random: no peer *)
(* is left out for ever, and not every HTTP call fails.  Nothing is        *)
(* promised of UDP.                                                        *)
(***************************************************************************)
Fairness ==
    /\ \A a, b \in Node : WF_vars(Offer(a, b))
    /\ \A a \in Node : WF_vars(Merge(a))

Spec == Init /\ [][Next]_vars /\ Fairness

-----------------------------------------------------------------------------
TypeOK ==
    /\ now \in 0..MaxTime
    /\ ctime \in 0..MaxTime \cup {None}
    /\ events \subseteq Node
    /\ stacked \in [Node -> 0..MaxStacked]
    /\ send \in [Node -> [Broadcast -> 0..KGossip]]
    /\ flying \subseteq Node
    /\ coming \subseteq Node
    /\ listener \in [Node -> {"idle", "new"}]
    /\ emitter \in {"idle", "stacked", "done"}
    /\ handled \in [Node -> 0..MaxStacked]
    /\ via \in [Node -> SUBSET Way]
    /\ restarts \in 0..MaxRestarts

Young == ctime # None /\ now - ctime <= MaxAge

\* Until the event is old, an agent handles it once in its life at most, whatever UDP
\* loses or repeats and whatever push-pull brings; when it is old, an agent that forgot it
\* may get it again from one that did not.
HandledOnce == Young => \A a \in Node : handled[a] <= 1

\* Until then each way in stacks it once: it is sent at most KGossip times for the UDP
\* thread, for push-pull and for its own call, which may meet (the UDP thread adds what it
\* looked up before).
EachWayOnce == Young => \A a \in Node : stacked[a] = Cardinality(via[a])

\* An agent that knows an event of another has handled it, unless push-pull brought it.
HandledUnlessMerged ==
    \A a \in Node \ {Origin} : a \in events /\ "http" \notin via[a] => handled[a] > 0

\* Push-pull brings the event to every agent, were every datagram lost, unless it gets old
\* first or those that had it stopped.
EventSpreads ==
    events # {} ~> events = Node \/ ~Young \/ events = {}
=============================================================================
