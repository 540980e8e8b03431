---------------------------- MODULE EventsProofs ----------------------------
(***************************************************************************)
(* Theorems about Events.  Until the event is old nobody forgets it: what  *)
(* was stacked by the UDP thread or by push-pull is known, so the next     *)
(* look-up finds it (Known).                                               *)
(***************************************************************************)
EXTENDS Events, FiniteSetTheorems, TLAPS

\* Before the event is emitted nobody has anything of it.
Nothing ==
    /\ events = {} /\ coming = {} /\ flying = {}
    /\ \A a \in Node : /\ via[a] = {} /\ stacked[a] = 0 /\ handled[a] = 0
                       /\ listener[a] = "idle"

Before ==
    /\ ctime = None => Nothing
    /\ emitter = "idle" <=> ctime = None

Bounded == \A a \in Node : handled[a] <= stacked[a]

KnownAt(a) ==
    /\ "udp" \in via[a] => a \in events /\ listener[a] = "idle"
    /\ "http" \in via[a] => a \in events
    /\ handled[a] = IF a # Origin /\ "udp" \in via[a] THEN 1 ELSE 0
    /\ stacked[a] = Cardinality(via[a])

Known == Young => \A a \in Node : KnownAt(a)

EventsInv == TypeOK /\ Before /\ Bounded /\ Known /\ HandledUnlessMerged

-----------------------------------------------------------------------------
LEMMA StackFacts ==
    ASSUME TypeOK, NEW a \in Node, NEW way \in Way, Stack(a, way)
    PROVE  /\ stacked' \in [Node -> 0..MaxStacked] /\ via' \in [Node -> SUBSET Way]
           /\ stacked[a] < MaxStacked
           /\ stacked'[a] = stacked[a] + 1 /\ via'[a] = via[a] \cup {way}
           /\ \A b \in Node : b # a => stacked'[b] = stacked[b] /\ via'[b] = via[b]
           /\ way \notin via[a] /\ stacked[a] = Cardinality(via[a])
                 => stacked'[a] = Cardinality(via'[a])
<1>1. /\ stacked[a] \in 0..MaxStacked /\ stacked[a] < MaxStacked /\ MaxStacked \in Nat
      /\ stacked' = [stacked EXCEPT ![a] = @ + 1]
      /\ via' = [via EXCEPT ![a] = @ \cup {way}]
  BY EventsAssumption DEF TypeOK, Stack
<1>2. stacked[a] + 1 \in 0..MaxStacked
  BY <1>1
<1>3. stacked' \in [Node -> 0..MaxStacked] /\ stacked'[a] = stacked[a] + 1
  BY <1>1, <1>2 DEF TypeOK
<1>4. via' \in [Node -> SUBSET Way] /\ via'[a] = via[a] \cup {way}
  BY <1>1 DEF TypeOK
<1>5. \A b \in Node : b # a => stacked'[b] = stacked[b] /\ via'[b] = via[b]
  BY <1>1 DEF TypeOK
<1>6. ASSUME way \notin via[a] PROVE Cardinality(via[a] \cup {way}) = Cardinality(via[a]) + 1
  <2>1. via[a] \subseteq Way
    BY DEF TypeOK
  <2>2. IsFiniteSet(Way)
    <3>1. IsFiniteSet({}) /\ IsFiniteSet({} \cup {"own"})
      BY FS_EmptySet, FS_AddElement
    <3>2. IsFiniteSet({} \cup {"own"} \cup {"udp"})
      BY <3>1, FS_AddElement
    <3>3. IsFiniteSet({} \cup {"own"} \cup {"udp"} \cup {"http"})
      BY <3>2, FS_AddElement
    <3>4. Way = {} \cup {"own"} \cup {"udp"} \cup {"http"}
      BY DEF Way
    <3> QED
      BY <3>3, <3>4
  <2>3. IsFiniteSet(via[a])
    BY <2>1, <2>2, FS_Subset
  <2> QED
    BY <1>6, <2>3, FS_AddElement
<1> QED
  BY <1>1, <1>3, <1>4, <1>5, <1>6

LEMMA InitEvents == Init => EventsInv
<1> SUFFICES ASSUME Init PROVE EventsInv
  OBVIOUS
<1>1. TypeOK
  BY EventsAssumption DEF Init, TypeOK, Way
<1>2. Before /\ Bounded
  BY DEF Init, Before, Nothing, Bounded
<1>3. Known /\ HandledUnlessMerged
  BY DEF Init, Known, Young, HandledUnlessMerged
<1> QED
  BY <1>1, <1>2, <1>3 DEF EventsInv

-----------------------------------------------------------------------------
\* Time passes, and no older event is young again.
LEMMA StaysOld ==
    ASSUME EventsInv, TypeOK', ctime' = ctime, now' \in {now, now + 1}, Young'
    PROVE  Young
<1>1. ctime # None /\ now' - ctime <= MaxAge
  BY DEF Young
<1>2. ctime \in Nat /\ now \in Nat /\ now' \in Nat
  BY <1>1, EventsAssumption DEF EventsInv, TypeOK
<1>3. MaxAge \in Nat
  BY EventsAssumption
<1>4. \A c, n, m, max \in Nat : m \in {n, n + 1} /\ m - c <= max => n - c <= max
  OBVIOUS
<1>5. now - ctime <= MaxAge
  BY <1>1, <1>2, <1>3, <1>4
<1> QED
  BY <1>1, <1>5 DEF Young

\* Steps that stack nothing and forget nothing.
LEMMA QuietStep ==
    ASSUME EventsInv, TypeOK', now' \in {now, now + 1},
           UNCHANGED <<ctime, stacked, handled, via>>,
           events \subseteq events', events' \subseteq events \cup {Origin},
           emitter' = "idle" <=> emitter = "idle",
           ctime = None => events' = {} /\ coming' = {} /\ flying' = {},
           \A a \in Node : listener'[a] = "new" =>
               listener[a] = "new" \/ (a \notin events /\ ctime # None)
    PROVE  EventsInv'
<1>1. \A a \in Node : listener'[a] \in {"idle", "new"}
  BY DEF TypeOK
<1>2. Before'
  BY <1>1 DEF EventsInv, Before, Nothing
<1>3. Bounded'
  BY DEF EventsInv, Bounded
<1>4. Known'
  <2> SUFFICES ASSUME Young', NEW a \in Node PROVE KnownAt(a)'
    BY DEF Known
  <2>1. Young
    BY StaysOld
  <2>2. KnownAt(a)
    BY <2>1 DEF EventsInv, Known
  <2> QED
    BY <1>1, <2>2 DEF KnownAt
<1>5. HandledUnlessMerged'
  BY DEF EventsInv, HandledUnlessMerged
<1> QED
  BY <1>2, <1>3, <1>4, <1>5 DEF EventsInv

LEMMA TickStep ==
    ASSUME EventsInv, Tick
    PROVE  EventsInv'
<1>1. now + 1 \in 0..MaxTime
  BY EventsAssumption DEF Tick, EventsInv, TypeOK
<1>2. TypeOK'
  BY <1>1 DEF Tick, EventsInv, TypeOK
<1> QED
  BY <1>2, QuietStep DEF Tick, EventsInv, Before, Nothing

LEMMA RememberStep ==
    ASSUME EventsInv, Remember
    PROVE  EventsInv'
<1>1. TypeOK'
  BY EventsAssumption DEF Remember, EventsInv, TypeOK
<1>2. ctime # None
  BY DEF Remember, EventsInv, Before
<1> QED
  BY <1>1, <1>2, QuietStep DEF Remember

LEMMA GossipStep ==
    ASSUME EventsInv, NEW a \in Node, NEW b \in Node, Gossip(a, b)
    PROVE  EventsInv'
<1>1. /\ Queue(a) # {}
      /\ send' = [send EXCEPT ![a] = [i \in Broadcast |-> IF i \in Queue(a) THEN @[i] + 1 ELSE @[i]]]
      /\ flying' = flying \cup {b}
      /\ UNCHANGED <<now, ctime, events, stacked, coming, listener, emitter, handled, via, restarts>>
  BY DEF Gossip
<1>2. ctime # None
  <2>1. stacked[a] # 0
    BY <1>1 DEF Queue
  <2> QED
    BY <2>1 DEF EventsInv, Before, Nothing
<1>3. PICK r : r = [i \in Broadcast |-> IF i \in Queue(a) THEN send[a][i] + 1 ELSE send[a][i]]
  OBVIOUS
<1>4. r \in [Broadcast -> 0..KGossip]
  <2>1. ASSUME NEW i \in Broadcast PROVE r[i] \in 0..KGossip
    <3>1. send[a][i] \in 0..KGossip /\ r[i] = IF i \in Queue(a) THEN send[a][i] + 1 ELSE send[a][i]
      BY <1>3 DEF EventsInv, TypeOK
    <3>2. i \in Queue(a) => send[a][i] < KGossip
      BY DEF Queue
    <3> QED
      BY <3>1, <3>2, EventsAssumption
  <2> QED
    BY <1>3, <2>1
<1>5. send' = [send EXCEPT ![a] = r]
  BY <1>1, <1>3
<1>6. TypeOK'
  BY <1>1, <1>4, <1>5 DEF EventsInv, TypeOK
<1> QED
  BY <1>1, <1>2, <1>6, QuietStep

LEMMA ReceiveStep ==
    ASSUME EventsInv, NEW a \in Node, Receive(a)
    PROVE  EventsInv'
<1>1. TypeOK'
  BY DEF Receive, EventsInv, TypeOK
<1>2. ctime # None
  BY DEF Receive, EventsInv, Before, Nothing
<1>3. \A b \in Node : listener'[b] = "new" => listener[b] = "new" \/ b \notin events
  BY DEF Receive, EventsInv, TypeOK
<1> QED
  BY <1>1, <1>2, <1>3, QuietStep DEF Receive

LEMMA OfferStep ==
    ASSUME EventsInv, NEW a \in Node, NEW b \in Node, Offer(a, b)
    PROVE  EventsInv'
<1>1. TypeOK'
  BY DEF Offer, EventsInv, TypeOK
<1>2. ctime # None
  BY DEF Offer, EventsInv, Before, Nothing
<1> QED
  BY <1>1, <1>2, QuietStep DEF Offer

-----------------------------------------------------------------------------
LEMMA EmitStep ==
    ASSUME EventsInv, Emit
    PROVE  EventsInv'
<1>1. /\ emitter = "idle" /\ Stack(Origin, "own") /\ ctime' = now /\ emitter' = "stacked"
      /\ UNCHANGED <<now, events, send, flying, coming, listener, handled, restarts>>
  BY DEF Emit
<1>2. Origin \in Node /\ "own" \in Way /\ TypeOK
  BY EventsAssumption DEF EventsInv, Way
<1>3. /\ stacked' \in [Node -> 0..MaxStacked] /\ via' \in [Node -> SUBSET Way]
      /\ stacked[Origin] < MaxStacked
      /\ stacked'[Origin] = stacked[Origin] + 1 /\ via'[Origin] = via[Origin] \cup {"own"}
      /\ \A b \in Node : b # Origin => stacked'[b] = stacked[b] /\ via'[b] = via[b]
      /\ "own" \notin via[Origin] /\ stacked[Origin] = Cardinality(via[Origin])
            => stacked'[Origin] = Cardinality(via'[Origin])
  BY <1>1, <1>2, StackFacts
<1>4. Nothing
  BY <1>1 DEF EventsInv, Before
<1>5. TypeOK'
  BY <1>1, <1>3 DEF EventsInv, TypeOK
<1>6. ctime' # None
  BY <1>1, EventsAssumption DEF EventsInv, TypeOK
<1>7. Bounded'
  BY <1>1, <1>2, <1>3, <1>4 DEF Nothing, Bounded
<1>8. \A a \in Node : KnownAt(a)'
  <2>1. Cardinality({}) = 0
    BY FS_EmptySet
  <2>2. \A a \in Node : stacked[a] = Cardinality(via[a]) /\ via[a] = {}
    BY <2>1, <1>4 DEF Nothing
  <2>3. \A a \in Node : stacked'[a] = Cardinality(via'[a])
    BY <2>2, <1>2, <1>3
  <2>4. \A a \in Node : via'[a] \subseteq {"own"}
    BY <2>2, <1>2, <1>3
  <2> QED
    BY <2>3, <2>4, <1>1, <1>2, <1>4 DEF Nothing, KnownAt
<1>9. HandledUnlessMerged'
  BY <1>1, <1>4 DEF Nothing, HandledUnlessMerged
<1> QED
  BY <1>1, <1>5, <1>6, <1>7, <1>8, <1>9 DEF EventsInv, Before, Known

LEMMA ManageStep ==
    ASSUME EventsInv, NEW a \in Node, Manage(a)
    PROVE  EventsInv'
<1>1. /\ listener[a] = "new" /\ Stack(a, "udp")
      /\ events' = events \cup {a}
      /\ listener' = [listener EXCEPT ![a] = "idle"]
      /\ handled' = [handled EXCEPT ![a] = IF a = Origin THEN @ ELSE @ + 1]
      /\ UNCHANGED <<now, ctime, send, flying, coming, emitter, restarts>>
  BY DEF Manage
<1>2. "udp" \in Way /\ TypeOK
  BY DEF EventsInv, Way
<1>3. /\ stacked' \in [Node -> 0..MaxStacked] /\ via' \in [Node -> SUBSET Way]
      /\ stacked[a] < MaxStacked
      /\ stacked'[a] = stacked[a] + 1 /\ via'[a] = via[a] \cup {"udp"}
      /\ \A b \in Node : b # a => stacked'[b] = stacked[b] /\ via'[b] = via[b]
      /\ "udp" \notin via[a] /\ stacked[a] = Cardinality(via[a])
            => stacked'[a] = Cardinality(via'[a])
  BY <1>1, <1>2, StackFacts
<1>4. /\ handled'[a] = (IF a = Origin THEN handled[a] ELSE handled[a] + 1)
      /\ \A b \in Node : b # a => handled'[b] = handled[b]
      /\ listener'[a] = "idle" /\ \A b \in Node : b # a => listener'[b] = listener[b]
  BY <1>1, <1>2 DEF TypeOK
<1>5. /\ handled[a] \in 0..MaxStacked /\ stacked[a] \in 0..MaxStacked /\ handled[a] <= stacked[a]
      /\ MaxStacked \in Nat
  BY <1>2, EventsAssumption DEF TypeOK, EventsInv, Bounded
<1>6. handled[a] + 1 \in 0..MaxStacked
  BY <1>3, <1>5
<1>7. handled' \in [Node -> 0..MaxStacked]
  BY <1>1, <1>2, <1>6 DEF TypeOK
<1>8. TypeOK'
  BY <1>1, <1>2, <1>3, <1>7 DEF TypeOK
<1>9. ctime # None
  BY <1>1 DEF EventsInv, Before, Nothing
<1>10. Bounded'
  BY <1>3, <1>4, <1>5 DEF EventsInv, Bounded
<1>11. Known'
  <2> SUFFICES ASSUME Young', NEW b \in Node PROVE KnownAt(b)'
    BY DEF Known
  <2>1. Young
    BY <1>1, <1>8, StaysOld
  <2>2. KnownAt(b)
    BY <2>1 DEF EventsInv, Known
  <2>3. CASE b # a
    BY <2>2, <2>3, <1>1, <1>3, <1>4 DEF KnownAt
  <2>4. CASE b = a
    <3>1. "udp" \notin via[a]
      BY <2>2, <2>4, <1>1 DEF KnownAt
    <3>2. "http" \in via'[a] => a \in events'
      BY <1>1
    <3>3. handled'[a] = IF a # Origin THEN 1 ELSE 0
      BY <2>2, <2>4, <3>1, <1>4 DEF KnownAt
    <3>4. stacked'[a] = Cardinality(via'[a])
      BY <2>2, <2>4, <3>1, <1>3 DEF KnownAt
    <3> QED
      BY <2>4, <3>2, <3>3, <3>4, <1>1, <1>3, <1>4 DEF KnownAt
  <2> QED
    BY <2>3, <2>4
<1>12. HandledUnlessMerged'
  <2> SUFFICES ASSUME NEW b \in Node \ {Origin}, b \in events', "http" \notin via'[b]
               PROVE  handled'[b] > 0
    BY DEF HandledUnlessMerged
  <2>1. CASE b = a
    BY <2>1, <1>4, <1>5
  <2>2. CASE b # a
    BY <2>2, <1>1, <1>3, <1>4 DEF EventsInv, HandledUnlessMerged
  <2> QED
    BY <2>1, <2>2
<1> QED
  BY <1>1, <1>8, <1>9, <1>10, <1>11, <1>12 DEF EventsInv, Before

LEMMA MergeStep ==
    ASSUME EventsInv, NEW a \in Node, Merge(a)
    PROVE  EventsInv'
<1>1. /\ a \in coming /\ coming' = coming \ {a}
      /\ IF a \in events THEN UNCHANGED <<stacked, via>> ELSE Stack(a, "http")
      /\ events' = events \cup {a}
      /\ UNCHANGED <<now, ctime, send, flying, listener, emitter, handled, restarts>>
  BY DEF Merge
<1>2. ctime # None
  BY <1>1 DEF EventsInv, Before, Nothing
<1>3. CASE a \in events
  <2>1. TypeOK'
    BY <1>1, <1>3 DEF EventsInv, TypeOK
  <2>2. events' = events
    BY <1>1, <1>3
  <2> QED
    BY <1>1, <1>2, <1>3, <2>1, <2>2, QuietStep
<1>4. CASE a \notin events
  <2>1. "http" \in Way /\ TypeOK /\ Stack(a, "http")
    BY <1>1, <1>4 DEF EventsInv, Way
  <2>2. /\ stacked' \in [Node -> 0..MaxStacked] /\ via' \in [Node -> SUBSET Way]
        /\ stacked'[a] = stacked[a] + 1 /\ via'[a] = via[a] \cup {"http"}
        /\ \A b \in Node : b # a => stacked'[b] = stacked[b] /\ via'[b] = via[b]
        /\ "http" \notin via[a] /\ stacked[a] = Cardinality(via[a])
              => stacked'[a] = Cardinality(via'[a])
    BY <2>1, StackFacts
  <2>3. TypeOK'
    BY <1>1, <2>1, <2>2 DEF TypeOK
  <2>4. handled[a] \in Nat /\ stacked[a] \in Nat /\ handled[a] <= stacked[a]
    BY <2>1, EventsAssumption DEF TypeOK, EventsInv, Bounded
  <2>5. Bounded'
    BY <1>1, <2>2, <2>4 DEF EventsInv, Bounded
  <2>6. Known'
    <3> SUFFICES ASSUME Young', NEW b \in Node PROVE KnownAt(b)'
      BY DEF Known
    <3>1. Young
      BY <1>1, <2>3, StaysOld
    <3>2. KnownAt(b)
      BY <3>1 DEF EventsInv, Known
    <3>3. CASE b # a
      BY <3>2, <3>3, <1>1, <2>2 DEF KnownAt
    <3>4. CASE b = a
      BY <3>2, <3>4, <1>1, <1>4, <2>2 DEF KnownAt
    <3> QED
      BY <3>3, <3>4
  <2>7. HandledUnlessMerged'
    BY <1>1, <2>2 DEF EventsInv, HandledUnlessMerged
  <2> QED
    BY <1>1, <1>2, <2>3, <2>5, <2>6, <2>7 DEF EventsInv, Before
<1> QED
  BY <1>3, <1>4

LEMMA CleanStep ==
    ASSUME EventsInv, NEW a \in Node, Clean(a)
    PROVE  EventsInv'
<1>1. TypeOK'
  BY DEF Clean, EventsInv, TypeOK
<1>2. ctime # None
  BY DEF Clean, EventsInv, Before, Nothing
<1>3. ~Young'
  <2>1. ctime \in Int /\ now \in Int /\ MaxAge \in Int
    BY <1>2, EventsAssumption DEF EventsInv, TypeOK
  <2> QED
    BY <2>1 DEF Clean, Young
<1>4. Before' /\ Bounded' /\ HandledUnlessMerged'
  BY <1>2 DEF Clean, EventsInv, Before, Bounded, HandledUnlessMerged
<1> QED
  BY <1>1, <1>3, <1>4 DEF EventsInv, Known

LEMMA RestartStep ==
    ASSUME EventsInv, NEW a \in Node, Restart(a)
    PROVE  EventsInv'
<1>1. restarts + 1 \in 0..MaxRestarts
  BY EventsAssumption DEF Restart, EventsInv, TypeOK
<1>2. 0 \in 0..MaxStacked /\ 0 \in 0..KGossip
  BY EventsAssumption
<1>3. PICK r : r = [b \in Broadcast |-> 0]
  OBVIOUS
<1>4. r \in [Broadcast -> 0..KGossip]
  BY <1>2, <1>3
<1>5. send' = [send EXCEPT ![a] = r]
  BY <1>3 DEF Restart
<1>6. send' \in [Node -> [Broadcast -> 0..KGossip]]
  BY <1>4, <1>5 DEF EventsInv, TypeOK
<1>7. /\ stacked' \in [Node -> 0..MaxStacked] /\ handled' \in [Node -> 0..MaxStacked]
      /\ via' \in [Node -> SUBSET Way] /\ listener' \in [Node -> {"idle", "new"}]
  BY <1>2 DEF Restart, EventsInv, TypeOK
<1>8. TypeOK'
  BY <1>1, <1>6, <1>7 DEF Restart, EventsInv, TypeOK
<1>9. /\ stacked'[a] = 0 /\ handled'[a] = 0 /\ via'[a] = {} /\ listener'[a] = "idle"
      /\ \A b \in Node : b # a =>
            /\ stacked'[b] = stacked[b] /\ handled'[b] = handled[b]
            /\ via'[b] = via[b] /\ listener'[b] = listener[b]
  BY DEF Restart, EventsInv, TypeOK
<1>10. /\ events' = events \ {a} /\ coming' = coming \ {a}
       /\ UNCHANGED <<now, ctime, flying>>
       /\ emitter' = "idle" <=> emitter = "idle"
  BY DEF Restart
<1>11. Before'
  BY <1>9, <1>10 DEF EventsInv, Before, Nothing
<1>12. Bounded'
  BY <1>9 DEF EventsInv, Bounded
<1>13. Known'
  <2> SUFFICES ASSUME Young', NEW b \in Node PROVE KnownAt(b)'
    BY DEF Known
  <2>1. Young
    BY <1>8, <1>10, StaysOld
  <2>2. KnownAt(b)
    BY <2>1 DEF EventsInv, Known
  <2>3. CASE b = a
    BY <2>3, <1>9, FS_EmptySet DEF KnownAt
  <2>4. CASE b # a
    BY <2>2, <2>4, <1>9, <1>10 DEF KnownAt
  <2> QED
    BY <2>3, <2>4
<1>14. HandledUnlessMerged'
  BY <1>9, <1>10 DEF EventsInv, HandledUnlessMerged
<1> QED
  BY <1>8, <1>11, <1>12, <1>13, <1>14 DEF EventsInv

-----------------------------------------------------------------------------
LEMMA NextEvents == EventsInv /\ [Next]_vars => EventsInv'
<1> SUFFICES ASSUME EventsInv, [Next]_vars PROVE EventsInv'
  OBVIOUS
<1>1. CASE UNCHANGED vars
  <2>1. TypeOK'
    BY <1>1 DEF vars, EventsInv, TypeOK
  <2> QED
    BY <1>1, <2>1, QuietStep DEF vars, EventsInv, Before, Nothing
<1> QED
  BY <1>1, TickStep, EmitStep, RememberStep, ReceiveStep, ManageStep, MergeStep, CleanStep,
     RestartStep, GossipStep, OfferStep DEF Next

LEMMA EventsInvHolds == Spec => []EventsInv
<1>1. Init => EventsInv
  BY InitEvents
<1>2. EventsInv /\ [Next]_vars => EventsInv'
  BY NextEvents
<1> QED
  BY <1>1, <1>2, PTL DEF Spec

\* The event, its broadcasts and what each agent knows keep their types; no broadcast is
\* sent more than KGossip times (__do_gossip_push).
THEOREM EventTypes == Spec => []TypeOK
<1>1. EventsInv => TypeOK
  BY DEF EventsInv
<1> QED
  BY <1>1, EventsInvHolds, PTL

\* Until it is old an event is handled once in a life of an agent (manage_event).
THEOREM OnceHandled == Spec => []HandledOnce
<1>1. EventsInv => HandledOnce
  BY DEF EventsInv, Known, KnownAt, HandledOnce
<1> QED
  BY <1>1, EventsInvHolds, PTL

\* Until it is old an event is stacked once for each way in which it came.
THEOREM OnceEachWay == Spec => []EachWayOnce
<1>1. EventsInv => EachWayOnce
  BY DEF EventsInv, Known, KnownAt, EachWayOnce
<1> QED
  BY <1>1, EventsInvHolds, PTL

\* Who knows the event of another has handled it, or got it from push-pull (merge_events).
THEOREM HandledOrMerged == Spec => []HandledUnlessMerged
<1>1. EventsInv => HandledUnlessMerged
  BY DEF EventsInv
<1> QED
  BY <1>1, EventsInvHolds, PTL
=============================================================================
