----------------------------- MODULE GossipProofs -----------------------------
(***************************************************************************)
(* Theorems about Gossip, for every set of nodes and subjects and all      *)
(* bounds: its types, that nobody doubts itself, that the incarnations     *)
(* that circulate are real, and what a step may do to an entry.            *)
(***************************************************************************)
EXTENDS Gossip, TLAPS

\* An entry before the bound on incarnations is looked at.
WideEntry == [st : NodeState, inc : Nat]

-----------------------------------------------------------------------------
(***************************************************************************)
(* The handlers.                                                           *)
(***************************************************************************)
\* What a message, or an entry of a push-pull, makes of an entry: one's own
\* keeps its state and is never older; another becomes what is heard, a DEAD
\* counting for a SUSPECT, unless it is newer.
HeardEntry(a, u, e, h) ==
    /\ h \in WideEntry
    /\ u = a /\ h # e => h.st = e.st /\ h.inc > e.inc
    /\ u # a /\ h # e =>
         \/ h.st = "alive" /\ (e.st = "unknown" \/ h.inc > e.inc)
         \/ h.st = "suspect" /\ e.st = "alive" /\ h.inc >= e.inc
         \/ h.st = "leave" /\ e.st # "unknown" /\ h.inc >= e.inc

LEMMA HeardFacts ==
    ASSUME NEW a, NEW u, NEW e \in WideEntry, NEW m,
           m.st \in NodeState \ {"unknown"}, m.inc \in Nat
    PROVE  /\ HeardEntry(a, u, e, Heard(a, u, e, m))
           /\ u # a => Heard(a, u, e, m).inc \in {e.inc, m.inc}
  <1>1. CASE m.st = "alive"
    <2>1. Heard(a, u, e, m) = AfterAlive(a, u, e, m.inc)
      BY <1>1 DEF Heard
    <2> QED  BY <2>1 DEF AfterAlive, HeardEntry, WideEntry, NodeState
  <1>2. CASE m.st \in {"suspect", "dead"}
    <2>1. Heard(a, u, e, m) = AfterSuspect(a, u, e, m.inc)
      BY <1>2 DEF Heard
    <2> QED  BY <2>1 DEF AfterSuspect, HeardEntry, WideEntry, NodeState
  <1>3. CASE m.st = "leave"
    <2>1. Heard(a, u, e, m) = AfterLeave(a, u, e, m.inc, FALSE)
      BY <1>3 DEF Heard
    <2> QED  BY <2>1 DEF AfterLeave, HeardEntry, WideEntry, NodeState
  <1> QED  BY <1>1, <1>2, <1>3 DEF NodeState

\* What merge_nodes makes of each entry: its own is as it was.
LEMMA MergedFacts ==
    ASSUME NEW a, NEW mine \in [Subject -> WideEntry],
           NEW given \in [Subject -> WideEntry], NEW u \in Subject
    PROVE  /\ HeardEntry(a, u, mine[u], Merged(a, mine, given)[u])
           /\ u = a => Merged(a, mine, given)[u] = mine[u]
           /\ Merged(a, mine, given)[u].inc \in {mine[u].inc, given[u].inc}
  <1>1. CASE u = a \/ given[u].st = "unknown"
    BY <1>1 DEF Merged, HeardEntry, WideEntry
  <1>2. CASE u # a /\ given[u].st # "unknown"
    <2>1. Merged(a, mine, given)[u] = Heard(a, u, mine[u], given[u])
      BY <1>2 DEF Merged
    <2>2. given[u].st \in NodeState \ {"unknown"} /\ given[u].inc \in Nat
      BY <1>2 DEF WideEntry
    <2>3. mine[u] \in WideEntry
      OBVIOUS
    <2>4. /\ HeardEntry(a, u, mine[u], Heard(a, u, mine[u], given[u]))
          /\ u # a => Heard(a, u, mine[u], given[u]).inc \in {mine[u].inc, given[u].inc}
      BY <2>2, <2>3, HeardFacts
    <2> QED  BY <1>2, <2>1, <2>4
  <1> QED  BY <1>1, <1>2

LEMMA MergedType ==
    ASSUME NEW a, NEW mine \in [Subject -> WideEntry],
           NEW given \in [Subject -> WideEntry]
    PROVE  Merged(a, mine, given) \in [Subject -> WideEntry]
  <1>1. ASSUME NEW u \in Subject
        PROVE  Merged(a, mine, given)[u] \in WideEntry
    <2>1. HeardEntry(a, u, mine[u], Merged(a, mine, given)[u])
      BY MergedFacts
    <2> QED  BY <2>1 DEF HeardEntry
  <1>2. Merged(a, mine, given) = [u \in Subject |-> Merged(a, mine, given)[u]]
    BY DEF Merged
  <1> QED  BY <1>1, <1>2

-----------------------------------------------------------------------------
(***************************************************************************)
(* The inductive invariant of the types: one's own entry is there, the     *)
(* files hold what a table may hold, and nobody pings itself.              *)
(***************************************************************************)
FilesOK == \A a \in Node, u \in Subject :
              disk[a].nodes[u].st # "unknown" \/ disk[a].nodes[u] = Unknown

NoSelfPing == \A a \in Node : /\ a \notin pingback[a]
                              /\ ping[a] # None => ping[a].tgt # a

TypeInv == TypeOK /\ NobodyDoubtsItself /\ FilesOK /\ NoSelfPing

LEMMA UnknownType == Unknown \in Entry /\ Unknown.st = "unknown"
  BY BoundsAssumption DEF Unknown, Entry, Incarnation, NodeState

LEMMA TableIsWide ==
    ASSUME NEW t \in Table
    PROVE  t \in [Subject -> WideEntry]
  BY BoundsAssumption DEF Table, Entry, WideEntry, Incarnation

\* The entries that the agents of A take are fit for them.
Fit(A, new) ==
    /\ new \in [A -> [Subject -> WideEntry]]
    /\ \A a \in A, u \in Subject :
          /\ new[a][u].st = "unknown" => new[a][u] = table[a][u]
          /\ u = a => new[a][u].st \in {"alive", "leave"}

LEMMA LearnTypes ==
    ASSUME TypeInv, NEW A \in SUBSET up, NEW new, Fit(A, new), Learn(A, new)
    PROVE  TypeInv'
  <1> USE DEF TypeInv
  <1>1. A \subseteq Node /\ table \in [Node -> Table]
    BY DEF TypeOK
  <1>2. \A a \in A : new[a] \in Table
    BY BoundsAssumption DEF Learn, Fit, InBounds, Table, Entry, WideEntry, Incarnation
  <1>3. table' \in [Node -> Table]
    BY <1>1, <1>2 DEF Learn
  <1>4. \A a \in A : News(table[a], new[a]) \subseteq Message
    <2> SUFFICES ASSUME NEW a \in A, NEW u \in Changed(table[a], new[a])
                 PROVE  Told(u, new[a][u]) \in Message
      BY DEF News
    <2>1. u \in Subject /\ new[a][u] # table[a][u]
      BY DEF Changed
    <2>2. new[a][u] \in Entry /\ new[a][u].st # "unknown"
      BY <1>2, <2>1 DEF Fit, Table
    <2> QED  BY <2>1, <2>2 DEF Told, Message, Entry
  <1>5. broadcasts' \in [Node -> SUBSET Message]
    BY <1>4, <1>1 DEF Learn, TypeOK
  <1>6. \A a \in A : /\ Detached(ping[a], table[a], new[a]) \in Ping \cup {None}
                     /\ Detached(ping[a], table[a], new[a]) # None
                          => Detached(ping[a], table[a], new[a]).tgt # a
    <2> SUFFICES ASSUME NEW a \in A
                 PROVE  /\ Detached(ping[a], table[a], new[a]) \in Ping \cup {None}
                        /\ Detached(ping[a], table[a], new[a]) # None
                             => Detached(ping[a], table[a], new[a]).tgt # a
      OBVIOUS
    <2>1. a \in Node /\ ping[a] \in Ping \cup {None} /\ table[a] \in Table
      BY <1>1 DEF TypeOK
    <2>2. CASE Detached(ping[a], table[a], new[a]) = ping[a]
      BY <2>1, <2>2 DEF NoSelfPing
    <2>3. CASE Detached(ping[a], table[a], new[a]) # ping[a]
      <3>1. ping[a] \in Ping
        BY <2>1, <2>3 DEF Detached
      <3>2. Detached(ping[a], table[a], new[a])
              = [ping[a] EXCEPT !.same = FALSE, !.held = table[a][ping[a].tgt]]
        BY <2>3 DEF Detached
      <3>3. table[a][ping[a].tgt] \in Entry
        BY <2>1, <3>1 DEF Ping, Table
      <3>4. ping[a].tgt # a
        BY <2>1, <3>1, NoneAssumption DEF NoSelfPing
      <3> QED  BY <3>1, <3>2, <3>3, <3>4 DEF Ping
    <2> QED  BY <2>2, <2>3
  <1>7. ping' \in [Node -> Ping \cup {None}] /\ NoSelfPing'
    BY <1>1, <1>6 DEF Learn, TypeOK, NoSelfPing
  <1>8. NobodyDoubtsItself'
    BY <1>1, NodeAssumption DEF Learn, Fit, NobodyDoubtsItself
  <1>9. \A a \in Node, u \in Subject : Known(a, u)' \/ table'[a][u] = Unknown
    BY <1>1 DEF Learn, Fit, Known, TypeOK
  <1>10. FilesOK' /\ up' = up /\ pingback' = pingback /\ disk' = disk
           /\ stale' = stale /\ crashes' = crashes
    BY DEF Learn, FilesOK
  <1>11. \A a \in Node \ up : broadcasts'[a] = {} /\ ping'[a] = None
    BY <1>1 DEF Learn, TypeOK
  <1> QED  BY <1>3, <1>5, <1>7, <1>8, <1>9, <1>10, <1>11 DEF TypeOK, Known

-----------------------------------------------------------------------------
(***************************************************************************)
(* The steps that go through Learn take fit entries.                       *)
(***************************************************************************)
\* One entry of agent a becomes e, and its own stays known.
LEMMA OneEntryFit ==
    ASSUME TypeInv, NEW a \in up, NEW u \in Subject, NEW e \in WideEntry,
           e.st = "unknown" => e = table[a][u],
           u = a => e.st \in {"alive", "leave"}
    PROVE  Fit({a}, [b \in {a} |-> [table[a] EXCEPT ![u] = e]])
  <1>1. a \in Node /\ table[a] \in Table
    BY DEF TypeInv, TypeOK
  <1>2. table[a] \in [Subject -> WideEntry]
    BY <1>1, TableIsWide
  <1> QED  BY <1>1, <1>2 DEF Fit, TypeInv, NobodyDoubtsItself

\* What a handler makes of an entry is fit.
LEMMA HeardEntryFit ==
    ASSUME TypeInv, NEW a \in up, NEW u \in Subject,
           NEW e, HeardEntry(a, u, table[a][u], e)
    PROVE  Fit({a}, [b \in {a} |-> [table[a] EXCEPT ![u] = e]])
  <1>1. a \in Node /\ table[a][u] \in Entry
    BY DEF TypeInv, TypeOK, Table
  <1>2. u = a => e.st \in {"alive", "leave"}
    BY <1>1 DEF HeardEntry, TypeInv, NobodyDoubtsItself
  <1>3. e \in WideEntry /\ (e.st = "unknown" => e = table[a][u])
    BY <1>2 DEF HeardEntry
  <1> QED  BY <1>2, <1>3, OneEntryFit

\* A push-pull: both tables are fit.
LEMMA MergedFit ==
    ASSUME TypeInv, NEW a \in up, NEW given \in [Subject -> WideEntry]
    PROVE  /\ Merged(a, table[a], given) \in [Subject -> WideEntry]
           /\ \A u \in Subject :
                /\ Merged(a, table[a], given)[u].st = "unknown"
                     => Merged(a, table[a], given)[u] = table[a][u]
                /\ u = a => Merged(a, table[a], given)[u].st \in {"alive", "leave"}
  <1>1. a \in Node /\ table[a] \in [Subject -> WideEntry]
    BY TableIsWide DEF TypeInv, TypeOK
  <1>2. Merged(a, table[a], given) \in [Subject -> WideEntry]
    BY <1>1, MergedType
  <1>3. ASSUME NEW u \in Subject
        PROVE  /\ Merged(a, table[a], given)[u].st = "unknown"
                    => Merged(a, table[a], given)[u] = table[a][u]
               /\ u = a => Merged(a, table[a], given)[u].st \in {"alive", "leave"}
    <2>1. /\ HeardEntry(a, u, table[a][u], Merged(a, table[a], given)[u])
          /\ u = a => Merged(a, table[a], given)[u] = table[a][u]
      BY <1>1, MergedFacts
    <2>2. u = a => table[a][u].st \in {"alive", "leave"}
      BY DEF TypeInv, NobodyDoubtsItself
    <2> QED  BY <2>1, <2>2 DEF HeardEntry
  <1> QED  BY <1>2, <1>3

LEMMA GossipedTypes ==
    ASSUME TypeInv, NEW a \in Node, NEW b \in Node, NEW m, Gossiped(b, a, m)
    PROVE  TypeInv'
  <1>1. m \in Message /\ a \in up
    BY DEF TypeInv, TypeOK, Gossiped
  <1> DEFINE u == m.node
             e == Heard(a, u, table[a][u], m)
  <1>2. u \in Subject /\ m.st \in NodeState \ {"unknown"} /\ m.inc \in Nat
    BY <1>1, BoundsAssumption DEF Message, Incarnation
  <1>3. table[a][u] \in WideEntry
    BY <1>2, TableIsWide DEF TypeInv, TypeOK
  <1>4. HeardEntry(a, u, table[a][u], e)
    BY <1>2, <1>3, HeardFacts
  <1>5. Fit({a}, [x \in {a} |-> [table[a] EXCEPT ![u] = e]])
    BY <1>1, <1>2, <1>4, HeardEntryFit
  <1>6. Learn({a}, [x \in {a} |-> [table[a] EXCEPT ![u] = e]])
    BY DEF Gossiped, LearnOne
  <1> QED  BY <1>1, <1>5, <1>6, LearnTypes

LEMMA PushPullTypes ==
    ASSUME TypeInv, NEW a \in Node, NEW b \in Node, PushPull(a, b)
    PROVE  TypeInv'
  <1> DEFINE atB == Merged(b, table[b], table[a])
             atA == Merged(a, table[a], atB)
             both == [x \in {a, b} |-> IF x = a THEN atA ELSE atB]
             one == [x \in {b} |-> atB]
  <1>1. a # b /\ a \in up /\ b \in up /\ (Learn({a, b}, both) \/ Learn({b}, one))
    BY DEF PushPull
  <1>2. table[a] \in [Subject -> WideEntry]
    BY TableIsWide DEF TypeInv, TypeOK
  <1>3. /\ atB \in [Subject -> WideEntry]
        /\ \A u \in Subject : /\ atB[u].st = "unknown" => atB[u] = table[b][u]
                              /\ u = b => atB[u].st \in {"alive", "leave"}
    BY <1>1, <1>2, MergedFit
  <1>4. /\ atA \in [Subject -> WideEntry]
        /\ \A u \in Subject : /\ atA[u].st = "unknown" => atA[u] = table[a][u]
                              /\ u = a => atA[u].st \in {"alive", "leave"}
    BY <1>1, <1>3, MergedFit
  <1> HIDE DEF atA, atB
  <1>5. Fit({a, b}, both) /\ Fit({b}, one)
    BY <1>1, <1>3, <1>4 DEF Fit
  <1> HIDE DEF both, one
  <1>6. {a, b} \in SUBSET up /\ {b} \in SUBSET up
    BY <1>1
  <1> QED  BY <1>1, <1>5, <1>6, LearnTypes

LEMMA ChangeMyselfTypes ==
    ASSUME TypeInv, NEW a \in Node, ChangeMyself(a)
    PROVE  TypeInv'
  <1> DEFINE e == [table[a][a] EXCEPT !.inc = @ + 1]
  <1>1. a \in up /\ a \in Subject /\ Learn({a}, [b \in {a} |-> [table[a] EXCEPT ![a] = e]])
    BY DEF ChangeMyself, LearnOne
  <1>2. table[a][a] \in WideEntry /\ table[a][a].st \in {"alive", "leave"}
    BY <1>1, TableIsWide DEF TypeInv, TypeOK, NobodyDoubtsItself
  <1>3. e \in WideEntry /\ e.st \in {"alive", "leave"}
    BY <1>2 DEF WideEntry
  <1> HIDE DEF e
  <1>4. Fit({a}, [b \in {a} |-> [table[a] EXCEPT ![a] = e]])
    BY <1>1, <1>3, OneEntryFit
  <1> QED  BY <1>1, <1>4, LearnTypes

LEMMA ForceLeaveTypes ==
    ASSUME TypeInv, NEW a \in Node, NEW u \in Subject, ForceLeave(a, u)
    PROVE  TypeInv'
  <1> DEFINE e == AfterLeave(a, u, table[a][u], table[a][u].inc, TRUE)
  <1>1. a \in up /\ Learn({a}, [b \in {a} |-> [table[a] EXCEPT ![u] = e]])
    BY DEF ForceLeave, LearnOne
  <1>2. /\ table[a][u] \in WideEntry
        /\ u = a => table[a][u].st \in {"alive", "leave"}
    BY <1>1, TableIsWide DEF TypeInv, TypeOK, NobodyDoubtsItself
  <1>3. /\ e \in WideEntry
        /\ e.st = "unknown" => e = table[a][u]
        /\ u = a => e.st \in {"alive", "leave"}
    BY <1>2 DEF AfterLeave, WideEntry, NodeState
  <1> HIDE DEF e
  <1>4. Fit({a}, [b \in {a} |-> [table[a] EXCEPT ![u] = e]])
    BY <1>1, <1>3, OneEntryFit
  <1> QED  BY <1>1, <1>4, LearnTypes

-----------------------------------------------------------------------------
(***************************************************************************)
(* The other steps.                                                        *)
(***************************************************************************)
LEMMA ExpireTypes ==
    ASSUME TypeInv, NEW a \in Node, NEW u \in Subject, Expire(a, u)
    PROVE  TypeInv'
  <1>1. a \in up /\ a # u /\ table[a][u] \in WideEntry
    BY TableIsWide DEF TypeInv, TypeOK, Expire
  <1>2. CASE Learn({a}, [b \in {a} |-> [table[a] EXCEPT ![u] = [table[a][u] EXCEPT !.st = "dead"]]])
    <2> DEFINE e == [table[a][u] EXCEPT !.st = "dead"]
    <2>1. e \in WideEntry /\ e.st # "unknown"
      BY <1>1 DEF WideEntry, NodeState
    <2> HIDE DEF e
    <2>2. Fit({a}, [b \in {a} |-> [table[a] EXCEPT ![u] = e]])
      BY <1>1, <2>1, OneEntryFit
    <2> QED  BY <1>1, <1>2, <2>2, LearnTypes DEF e
  <1>3. CASE /\ table' = [table EXCEPT ![a][u] = Unknown]
             /\ ping' = [ping EXCEPT ![a] = Detached(@, table[a], table'[a])]
             /\ UNCHANGED <<up, broadcasts, pingback, disk, stale, crashes>>
    <2> USE DEF TypeInv
    <2>1. table' \in [Node -> Table]
      BY <1>3, UnknownType DEF TypeOK, Table
    <2>2. /\ Detached(ping[a], table[a], table'[a]) \in Ping \cup {None}
          /\ Detached(ping[a], table[a], table'[a]) # None
               => Detached(ping[a], table[a], table'[a]).tgt # a
      <3>1. ping[a] \in Ping \cup {None} /\ table[a] \in Table
        BY DEF TypeOK
      <3>2. CASE Detached(ping[a], table[a], table'[a]) = ping[a]
        BY <3>1, <3>2 DEF NoSelfPing
      <3>3. CASE Detached(ping[a], table[a], table'[a]) # ping[a]
        <4>1. /\ ping[a] \in Ping
              /\ Detached(ping[a], table[a], table'[a])
                   = [ping[a] EXCEPT !.same = FALSE, !.held = table[a][ping[a].tgt]]
          BY <3>1, <3>3 DEF Detached
        <4>2. table[a][ping[a].tgt] \in Entry /\ ping[a].tgt # a
          BY <3>1, <4>1, NoneAssumption DEF Ping, Table, NoSelfPing
        <4> QED  BY <4>1, <4>2 DEF Ping
      <3> QED  BY <3>2, <3>3
    <2>3. ping' \in [Node -> Ping \cup {None}] /\ NoSelfPing'
      BY <1>3, <2>2 DEF TypeOK, NoSelfPing
    <2>4. NobodyDoubtsItself' /\ FilesOK'
      BY <1>1, <1>3, NodeAssumption DEF TypeOK, Table, NobodyDoubtsItself, FilesOK
    <2>5. \A x \in Node, v \in Subject : Known(x, v)' \/ table'[x][v] = Unknown
      BY <1>3 DEF TypeOK, Table, Known
    <2>6. \A x \in Node \ up : ping'[x] = None
      BY <1>1, <1>3 DEF TypeOK
    <2> QED  BY <1>3, <2>1, <2>3, <2>4, <2>5, <2>6 DEF TypeOK
  <1> QED  BY <1>2, <1>3 DEF Expire, LearnOne

LEMMA HearPingTypes ==
    ASSUME TypeInv, NEW a \in Node, NEW u \in Subject, HearPing(a, u)
    PROVE  TypeInv'
  BY DEF TypeInv, TypeOK, HearPing, NobodyDoubtsItself, FilesOK, NoSelfPing, Known

LEMMA StartPingTypes ==
    ASSUME TypeInv, NEW a \in Node, NEW u \in Subject, StartPing(a, u)
    PROVE  TypeInv'
  <1> USE DEF TypeInv
  <1>1. PICK heard \in BOOLEAN :
           ping' = [ping EXCEPT ![a] = [tgt |-> u, heard |-> heard,
                                        same |-> TRUE, held |-> Unknown]]
    BY DEF StartPing
  <1> DEFINE p == [tgt |-> u, heard |-> heard, same |-> TRUE, held |-> Unknown]
  <1>2. p \in Ping /\ p.tgt = u
    BY UnknownType DEF Ping
  <1>3. a \in up /\ u # a
    BY DEF StartPing, MayPing, NoSelfPing
  <1>4. ping' = [ping EXCEPT ![a] = p]
    BY <1>1
  <1> HIDE DEF p
  <1>5. pingback' \in [Node -> SUBSET Subject] /\ \A x \in Node : pingback'[x] \subseteq pingback[x]
    BY DEF StartPing, TypeOK
  <1>6. NoSelfPing' /\ ping' \in [Node -> Ping \cup {None}]
    BY <1>2, <1>3, <1>4, <1>5 DEF NoSelfPing, TypeOK
  <1>7. \A x \in Node \ up : broadcasts[x] = {} /\ ping'[x] = None /\ pingback'[x] = {}
    BY <1>3, <1>4, <1>5 DEF TypeOK
  <1>8. UNCHANGED <<table, up, broadcasts, disk, stale, crashes>>
    BY DEF StartPing
  <1> QED  BY <1>5, <1>6, <1>7, <1>8 DEF TypeOK, NobodyDoubtsItself, FilesOK, Known

\* What the ping thread says of the agent that it pinged is an entry.
LEMMA OtherType ==
    ASSUME TypeInv, NEW a \in Node, ping[a] # None
    PROVE  Other(a) \in Entry
  <1>1. ping[a] \in Ping /\ table[a] \in Table
    BY DEF TypeInv, TypeOK
  <1> QED  BY <1>1 DEF Other, Ping, Table

LEMMA PingAnsweredTypes ==
    ASSUME TypeInv, NEW a \in Node, NEW u \in Subject, PingAnswered(a, u)
    PROVE  TypeInv'
  <1> USE DEF TypeInv
  <1> DEFINE e == [Other(a) EXCEPT !.st = "alive"]
  <1>1. a \in up /\ ping[a] # None /\ u # a
    BY DEF PingAnswered, NoSelfPing
  <1>2. e \in Entry /\ e.st = "alive"
    BY <1>1, OtherType DEF Entry, NodeState
  <1>3. Told(u, e) \in Message
    BY <1>2 DEF Told, Message, Entry, NodeState
  <1>4. /\ table' = [table EXCEPT ![a][u] = e]
        /\ broadcasts' = broadcasts \/ broadcasts' = [broadcasts EXCEPT ![a] = @ \cup {Told(u, e)}]
        /\ ping' = [ping EXCEPT ![a] = None]
        /\ UNCHANGED <<up, pingback, disk, stale, crashes>>
    BY DEF PingAnswered
  <1> HIDE DEF e
  <1>5. table' \in [Node -> Table]
    BY <1>2, <1>4 DEF TypeOK, Table
  <1>6. broadcasts' \in [Node -> SUBSET Message]
    BY <1>3, <1>4 DEF TypeOK
  <1>7. ping' \in [Node -> Ping \cup {None}] /\ NoSelfPing'
    BY <1>4 DEF TypeOK, NoSelfPing
  <1>8. NobodyDoubtsItself' /\ FilesOK'
    BY <1>1, <1>4, NodeAssumption DEF TypeOK, Table, NobodyDoubtsItself, FilesOK
  <1>9. \A x \in Node, v \in Subject : Known(x, v)' \/ table'[x][v] = Unknown
    BY <1>2, <1>4 DEF TypeOK, Table, Known
  <1>10. \A x \in Node \ up : broadcasts'[x] = {} /\ ping'[x] = None
    BY <1>1, <1>4 DEF TypeOK
  <1> QED  BY <1>4, <1>5, <1>6, <1>7, <1>8, <1>9, <1>10 DEF TypeOK

LEMMA PingTimedOutTypes ==
    ASSUME TypeInv, NEW a \in Node, NEW u \in Subject, PingTimedOut(a, u)
    PROVE  TypeInv'
  <1> USE DEF TypeInv
  <1> DEFINE e == AfterSuspect(a, u, table[a][u], Other(a).inc)
  <1>1. a \in up /\ ping[a] # None /\ u # a
    BY DEF PingTimedOut, NoSelfPing
  <1>2. table[a] \in Table /\ table[a][u] \in Entry /\ Other(a) \in Entry
    BY <1>1, OtherType DEF TypeOK, Table
  <1>3. e \in Entry /\ (e = table[a][u] \/ e.st = "suspect")
    BY <1>1, <1>2 DEF AfterSuspect, Entry, NodeState
  <1>4. /\ table' = [table EXCEPT ![a][u] = e]
        /\ broadcasts' = [broadcasts EXCEPT ![a] = @ \cup News(table[a], table'[a])]
        /\ ping' = [ping EXCEPT ![a] = None] \/ ping' = ping
        /\ UNCHANGED <<up, pingback, disk, stale, crashes>>
    BY DEF PingTimedOut
  <1> HIDE DEF e
  <1>5. table' \in [Node -> Table]
    BY <1>3, <1>4 DEF TypeOK, Table
  <1>6. News(table[a], table'[a]) \subseteq Message
    <2> SUFFICES ASSUME NEW v \in Changed(table[a], table'[a])
                 PROVE  Told(v, table'[a][v]) \in Message
      BY DEF News
    <2>1. v = u /\ table'[a][v] = e /\ e # table[a][u]
      BY <1>2, <1>4 DEF Changed, TypeOK, Table
    <2> QED  BY <1>3, <2>1 DEF Told, Message, Entry, NodeState
  <1>7. broadcasts' \in [Node -> SUBSET Message]
    BY <1>4, <1>6 DEF TypeOK
  <1>8. ping' \in [Node -> Ping \cup {None}] /\ NoSelfPing'
    BY <1>4 DEF TypeOK, NoSelfPing
  <1>9. NobodyDoubtsItself' /\ FilesOK'
    BY <1>1, <1>4, NodeAssumption DEF TypeOK, Table, NobodyDoubtsItself, FilesOK
  <1>10. \A x \in Node, v \in Subject : Known(x, v)' \/ table'[x][v] = Unknown
    BY <1>3, <1>4 DEF TypeOK, Table, Known
  <1>11. \A x \in Node \ up : broadcasts'[x] = {} /\ ping'[x] = None
    BY <1>1, <1>4 DEF TypeOK
  <1> QED  BY <1>4, <1>5, <1>7, <1>8, <1>9, <1>10, <1>11 DEF TypeOK

LEMMA PingFailedTypes ==
    ASSUME TypeInv, NEW a \in Node, NEW u \in Subject, PingFailed(a, u)
    PROVE  TypeInv'
  BY DEF TypeInv, TypeOK, PingFailed, NobodyDoubtsItself, FilesOK, NoSelfPing, Known

\* What the nodes file of an agent may hold.
LEMMA OthersType ==
    ASSUME TypeInv, NEW a \in Node
    PROVE  /\ Others(a) \in Table
           /\ \A u \in Subject : Others(a)[u].st # "unknown" \/ Others(a)[u] = Unknown
  <1>1. table[a] \in Table /\ \A u \in Subject : Known(a, u) \/ table[a][u] = Unknown
    BY DEF TypeInv, TypeOK
  <1> QED  BY <1>1, UnknownType DEF Others, Table, Known

LEMMA MyIncType ==
    ASSUME TypeInv, NEW a \in Node
    PROVE  MyInc(a) \in -1..MaxInc
  <1>1. table[a] \in Table
    BY DEF TypeInv, TypeOK
  <1> QED  BY <1>1, BoundsAssumption DEF MyInc, Table, Entry, Incarnation

\* Files that are as they were, or written by agent a, are fit.
LEMMA DiskTypes ==
    ASSUME TypeInv, NEW a \in Node, NEW inc \in {disk[a].inc, MyInc(a)},
           \/ disk' = disk
           \/ disk' = [disk EXCEPT ![a] = [inc |-> inc, nodes |-> Others(a)]]
    PROVE  disk' \in [Node -> Disk] /\ FilesOK'
  <1>1. disk \in [Node -> Disk] /\ FilesOK
    BY DEF TypeInv, TypeOK
  <1>2. inc \in -1..MaxInc
    BY <1>1, MyIncType DEF Disk
  <1> DEFINE f == [inc |-> inc, nodes |-> Others(a)]
  <1>3. f \in Disk /\ \A u \in Subject : f.nodes[u].st # "unknown" \/ f.nodes[u] = Unknown
    BY <1>2, OthersType DEF Disk
  <1>4. disk' = disk \/ disk' = [disk EXCEPT ![a] = f]
    OBVIOUS
  <1> HIDE DEF f
  <1> QED  BY <1>1, <1>3, <1>4 DEF FilesOK

LEMMA SaveTypes ==
    ASSUME TypeInv, NEW a \in Node, Save(a)
    PROVE  TypeInv'
  <1>1. disk' \in [Node -> Disk] /\ FilesOK'
    BY DiskTypes DEF Save
  <1> QED  BY <1>1 DEF Save, TypeInv, TypeOK, NobodyDoubtsItself, NoSelfPing, Known

LEMMA StopTypes ==
    ASSUME TypeInv, NEW a \in Node, Stop(a)
    PROVE  TypeInv'
  <1>1. disk' \in [Node -> Disk] /\ FilesOK'
    BY DiskTypes DEF Stop
  <1>2. crashes' \in 0..MaxCrashes
    BY BoundsAssumption DEF Stop, TypeInv, TypeOK
  <1>3. /\ broadcasts' \in [Node -> SUBSET Message]
        /\ ping' \in [Node -> Ping \cup {None}]
        /\ pingback' \in [Node -> SUBSET Subject]
        /\ \A x \in Node \ up' : broadcasts'[x] = {} /\ ping'[x] = None /\ pingback'[x] = {}
        /\ NoSelfPing'
    BY DEF Stop, TypeInv, TypeOK, NoSelfPing
  <1> QED  BY <1>1, <1>2, <1>3 DEF Stop, TypeInv, TypeOK, NobodyDoubtsItself, Known

LEMMA RestartTypes ==
    ASSUME TypeInv, NEW a \in Node, Restart(a)
    PROVE  TypeInv'
  <1> USE DEF TypeInv
  <1> DEFINE t == Started(a, NextInc(a), disk[a].nodes)
  <1>1. disk[a] \in Disk /\ NextInc(a) \in Incarnation
    <2>1. disk[a] \in Disk
      BY DEF TypeOK
    <2> QED  BY <2>1, BoundsAssumption DEF Disk, NextInc, Restart, Incarnation
  <1>2. /\ t \in Table
        /\ a \in Subject => t[a].st = "alive"
        /\ \A u \in Subject : t[u].st # "unknown" \/ t[u] = Unknown
    BY <1>1 DEF Started, Table, Entry, NodeState, Disk, FilesOK
  <1>3. table' = [table EXCEPT ![a] = t]
    BY DEF Restart
  <1> HIDE DEF t
  <1>4. table' \in [Node -> Table] /\ NobodyDoubtsItself'
    BY <1>2, <1>3, NodeAssumption DEF TypeOK, NobodyDoubtsItself
  <1>5. \A x \in Node, u \in Subject : Known(x, u)' \/ table'[x][u] = Unknown
    BY <1>2, <1>3 DEF TypeOK, Known
  <1>6. stale' \in 0..MaxStale
    BY BoundsAssumption DEF Restart, TypeOK
  <1> QED  BY <1>4, <1>5, <1>6 DEF Restart, TypeOK, FilesOK, NoSelfPing

LEMMA StartedType ==
    ASSUME NEW a \in Node
    PROVE  /\ Started(a, 0, Empty) \in Table
           /\ a \in Subject => Started(a, 0, Empty)[a].st = "alive"
           /\ \A u \in Subject : \/ Started(a, 0, Empty)[u].st # "unknown"
                                 \/ Started(a, 0, Empty)[u] = Unknown
           /\ [inc |-> -1, nodes |-> Empty] \in Disk
  <1>1. 0 \in Incarnation /\ -1 \in -1..MaxInc
    BY BoundsAssumption DEF Incarnation
  <1>2. Empty \in Table
    BY UnknownType DEF Empty, Table
  <1> QED  BY <1>1, <1>2, UnknownType DEF Started, Empty, Table, Entry, NodeState, Disk

LEMMA InitTypes == Init => TypeInv
  <1> SUFFICES ASSUME Init PROVE TypeInv
    OBVIOUS
  <1>1. /\ table \in [Node -> Table]
        /\ NobodyDoubtsItself
        /\ \A a \in Node, u \in Subject : Known(a, u) \/ table[a][u] = Unknown
    BY StartedType, NodeAssumption DEF Init, NobodyDoubtsItself, Known
  <1>2. disk \in [Node -> Disk] /\ FilesOK
    BY StartedType DEF Init, FilesOK, Empty
  <1> QED  BY <1>1, <1>2, BoundsAssumption DEF Init, TypeInv, TypeOK, NoSelfPing

LEMMA StepTypes == TypeInv /\ [Next]_vars => TypeInv'
  <1> SUFFICES ASSUME TypeInv, [Next]_vars PROVE TypeInv'
    OBVIOUS
  <1>1. ASSUME NEW a \in Node, NEW b \in Node, PushPull(a, b) PROVE TypeInv'
    BY <1>1, PushPullTypes
  <1>2. ASSUME NEW a \in Node, NEW b \in Node, NEW m \in broadcasts[b], Gossiped(b, a, m)
        PROVE  TypeInv'
    BY <1>2, GossipedTypes
  <1>3. ASSUME NEW a \in Node,
               ChangeMyself(a) \/ Save(a) \/ Stop(a) \/ Restart(a)
        PROVE  TypeInv'
    BY <1>3, ChangeMyselfTypes, SaveTypes, StopTypes, RestartTypes
  <1>4. ASSUME NEW a \in Node, NEW u \in Subject,
               ForceLeave(a, u) \/ Expire(a, u) \/ HearPing(a, u) \/ StartPing(a, u)
                 \/ PingAnswered(a, u) \/ PingTimedOut(a, u) \/ PingFailed(a, u)
        PROVE  TypeInv'
    BY <1>4, ForceLeaveTypes, ExpireTypes, HearPingTypes, StartPingTypes,
       PingAnsweredTypes, PingTimedOutTypes, PingFailedTypes
  <1>5. CASE UNCHANGED vars
    BY <1>5 DEF vars, TypeInv, TypeOK, NobodyDoubtsItself, FilesOK, NoSelfPing, Known
  <1> QED  BY <1>1, <1>2, <1>3, <1>4, <1>5 DEF Next

LEMMA TypesAlways == Spec => []TypeInv
  BY InitTypes, StepTypes, PTL DEF Spec

(***************************************************************************)
(* Every variable always has its type, for every set of agents: no handler *)
(* of gossip.py makes an entry, a broadcast, a ping or a file that another *)
(* one cannot read.                                                        *)
(***************************************************************************)
THEOREM TypeCorrect == Spec => []TypeOK
  BY TypesAlways, PTL DEF TypeInv

(***************************************************************************)
(* Nobody ever doubts itself: an agent holds itself as alive or leaving.   *)
(***************************************************************************)
THEOREM SelfConfidence == Spec => []NobodyDoubtsItself
  BY TypesAlways, PTL DEF TypeInv

-----------------------------------------------------------------------------
(***************************************************************************)
(* The incarnations that circulate are real.                               *)
(***************************************************************************)
\* No agent restarted from a late incarnation file, and nothing is ahead of its
\* owner.
Real ==
    \A a \in Node, u \in Subject :
        /\ table[a][u].inc <= table[u][u].inc
        /\ disk[a].nodes[u].inc <= table[u][u].inc
        /\ \A m \in broadcasts[a] : m.node = u => m.inc <= table[u][u].inc
        /\ ping[a] # None => Other(a).inc <= table[ping[a].tgt][ping[a].tgt].inc

\* The agents of A take entries that are real, and never go back on their own.
RealEntries(A, new) ==
    \A a \in A, u \in Subject :
        /\ u = a => new[a][u].inc >= table[a][u].inc
        /\ u # a => new[a][u].inc <= table[u][u].inc

\* An incarnation anywhere is a natural number.
LEMMA IncarnationsAreNat ==
    ASSUME TypeInv
    PROVE  /\ \A a \in Node, u \in Subject : /\ table[a][u].inc \in Nat
                                             /\ disk[a].nodes[u].inc \in Nat
           /\ \A a \in Node : \A m \in broadcasts[a] : m.node \in Subject /\ m.inc \in Nat
           /\ \A a \in Node : ping[a] # None => ping[a].tgt \in Subject /\ Other(a).inc \in Nat
  <1>1. \A i \in Incarnation : i \in Nat
    BY BoundsAssumption DEF Incarnation
  <1>2. ASSUME NEW a \in Node, NEW u \in Subject
        PROVE  table[a][u].inc \in Nat /\ disk[a].nodes[u].inc \in Nat
    BY <1>1 DEF TypeInv, TypeOK, Table, Entry, Disk
  <1>3. ASSUME NEW a \in Node, NEW m \in broadcasts[a]
        PROVE  m.node \in Subject /\ m.inc \in Nat
    BY <1>1 DEF TypeInv, TypeOK, Message
  <1>4. ASSUME NEW a \in Node, ping[a] # None
        PROVE  ping[a].tgt \in Subject /\ Other(a).inc \in Nat
    <2>1. ping[a] \in Ping
      BY <1>4 DEF TypeInv, TypeOK
    <2>2. Other(a) \in Entry
      BY <1>4, OtherType
    <2> QED  BY <1>1, <2>1, <2>2 DEF Ping, Entry
  <1> QED  BY <1>2, <1>3, <1>4

LEMMA RealStep ==
    ASSUME TypeInv, TypeInv', Real,
           \A u \in Subject : table'[u][u].inc >= table[u][u].inc,
           \A a \in Node, u \in Subject : u # a => table'[a][u].inc <= table[u][u].inc,
           \A a \in Node, u \in Subject :
              disk'[a].nodes[u].inc \in {disk[a].nodes[u].inc, table[a][u].inc, 0},
           \A a \in Node : \A m \in broadcasts'[a] :
              m \in broadcasts[a] \/ m.inc = table'[a][m.node].inc,
           \A a \in Node : ping'[a] # None /\ ~ ping'[a].same =>
              ping[a] # None /\ ping[a].tgt = ping'[a].tgt /\ Other(a)' = Other(a)
    PROVE  Real'
  <1>1. Subject \subseteq Node
    BY NodeAssumption
  <1>2. /\ \A a \in Node, u \in Subject : /\ table[a][u].inc \in Nat
                                          /\ table'[a][u].inc \in Nat
                                          /\ disk[a].nodes[u].inc \in Nat
        /\ \A a \in Node : \A m \in broadcasts[a] : m.node \in Subject /\ m.inc \in Nat
        /\ \A a \in Node : \A m \in broadcasts'[a] : m.node \in Subject
        /\ \A a \in Node : ping[a] # None => ping[a].tgt \in Subject /\ Other(a).inc \in Nat
        /\ \A a \in Node : ping'[a] # None => ping'[a].tgt \in Subject
    <2>1. ASSUME NEW a \in Node, NEW u \in Subject PROVE table'[a][u].inc \in Nat
      BY BoundsAssumption DEF TypeInv, TypeOK, Table, Entry, Incarnation
    <2>2. ASSUME NEW a \in Node, NEW m \in broadcasts'[a] PROVE m.node \in Subject
      BY DEF TypeInv, TypeOK, Message
    <2>3. ASSUME NEW a \in Node, ping'[a] # None PROVE ping'[a].tgt \in Subject
      BY <2>3 DEF TypeInv, TypeOK, Ping
    <2> QED  BY <2>1, <2>2, <2>3, IncarnationsAreNat
  <1>3. ASSUME NEW a \in Node, NEW u \in Subject
        PROVE  table'[a][u].inc <= table'[u][u].inc
    <2>1. CASE u = a
      BY <2>1, <1>2
    <2>2. CASE u # a
      <3>1. table'[a][u].inc <= table[u][u].inc /\ table'[u][u].inc >= table[u][u].inc /\ u \in Node
        BY <2>2, <1>1
      <3> QED  BY <3>1, <1>2
    <2> QED  BY <2>1, <2>2
  <1>4. ASSUME NEW a \in Node, NEW u \in Subject
        PROVE  disk'[a].nodes[u].inc <= table'[u][u].inc
    <2>1. /\ disk[a].nodes[u].inc <= table[u][u].inc
          /\ table[a][u].inc <= table[u][u].inc
          /\ u \in Node
      BY <1>1 DEF Real
    <2>2. /\ table'[u][u].inc >= table[u][u].inc
          /\ disk'[a].nodes[u].inc \in {disk[a].nodes[u].inc, table[a][u].inc, 0}
      OBVIOUS
    <2> QED  BY <2>1, <2>2, <1>2
  <1>5. ASSUME NEW a \in Node, NEW m \in broadcasts'[a]
        PROVE  m.inc <= table'[m.node][m.node].inc
    <2>1. m.node \in Subject /\ m.node \in Node
      BY <1>1, <1>2
    <2>2. CASE m \in broadcasts[a]
      <3>1. m.inc <= table[m.node][m.node].inc /\ m.inc \in Nat
        BY <2>1, <2>2, <1>2 DEF Real
      <3>2. table'[m.node][m.node].inc >= table[m.node][m.node].inc
        BY <2>1
      <3> QED  BY <2>1, <3>1, <3>2, <1>2
    <2>3. CASE m.inc = table'[a][m.node].inc
      BY <2>1, <2>3, <1>3
    <2> QED  BY <2>2, <2>3
  <1>6. ASSUME NEW a \in Node, ping'[a] # None
        PROVE  Other(a)'.inc <= table'[ping'[a].tgt][ping'[a].tgt].inc
    <2> DEFINE u == ping'[a].tgt
    <2>1. u \in Subject /\ u \in Node
      BY <1>1, <1>2, <1>6
    <2>2. CASE ping'[a].same
      <3>1. Other(a)' = table'[a][u]
        BY <2>2 DEF Other
      <3> QED  BY <3>1, <2>1, <1>3
    <2>3. CASE ~ ping'[a].same
      <3>1. ping[a] # None /\ ping[a].tgt = u /\ Other(a)' = Other(a)
        BY <1>6, <2>3
      <3>2. Other(a).inc <= table[u][u].inc /\ Other(a).inc \in Nat
        BY <2>1, <3>1, <1>2 DEF Real
      <3>3. table'[u][u].inc >= table[u][u].inc
        BY <2>1
      <3> QED  BY <2>1, <3>1, <3>2, <3>3, <1>2
    <2> QED  BY <2>2, <2>3
  <1> QED  BY <1>3, <1>4, <1>5, <1>6 DEF Real

\* A ping whose object was replaced or removed still says what it said.
LEMMA DetachedKeepsOther ==
    ASSUME TypeInv, NEW a \in Node, NEW t,
           ping'[a] = Detached(ping[a], table[a], t), ping'[a] # None, ~ ping'[a].same
    PROVE  ping[a] # None /\ ping[a].tgt = ping'[a].tgt /\ Other(a)' = Other(a)
  <1>1. CASE ping'[a] = ping[a]
    BY <1>1 DEF Other
  <1>2. CASE ping'[a] # ping[a]
    <2>1. /\ ping[a] # None /\ ping[a].same
          /\ ping'[a] = [ping[a] EXCEPT !.same = FALSE, !.held = table[a][ping[a].tgt]]
      BY <1>2 DEF Detached
    <2>2. ping[a] \in Ping
      BY <2>1 DEF TypeInv, TypeOK
    <2>3. ping'[a].tgt = ping[a].tgt /\ ping'[a].held = table[a][ping[a].tgt]
      BY <2>1, <2>2 DEF Ping
    <2> QED  BY <2>1, <2>3 DEF Other
  <1> QED  BY <1>1, <1>2

LEMMA LearnReal ==
    ASSUME TypeInv, TypeInv', Real, NEW A \in SUBSET up, NEW new, Fit(A, new),
           Learn(A, new), RealEntries(A, new)
    PROVE  Real'
  <1>1. A \subseteq Node /\ Subject \subseteq Node
    BY NodeAssumption DEF TypeInv, TypeOK
  <1>2. table' = [a \in Node |-> IF a \in A THEN new[a] ELSE table[a]]
    BY DEF Learn
  <1>3. \A u \in Subject : table'[u][u].inc >= table[u][u].inc
    BY <1>1, <1>2, IncarnationsAreNat DEF RealEntries
  <1>4. \A a \in Node, u \in Subject : u # a => table'[a][u].inc <= table[u][u].inc
    BY <1>2 DEF RealEntries, Real
  <1>5. disk' = disk
    BY DEF Learn
  <1>6. ASSUME NEW a \in Node, NEW m \in broadcasts'[a]
        PROVE  m \in broadcasts[a] \/ m.inc = table'[a][m.node].inc
    <2>1. CASE m \notin broadcasts[a]
      <3>1. a \in A /\ m \in News(table[a], new[a])
        BY <2>1 DEF Learn
      <3>2. PICK u \in Subject : m = Told(u, new[a][u])
        BY <3>1 DEF News, Changed
      <3> QED  BY <3>1, <3>2, <1>2 DEF Told
    <2> QED  BY <2>1
  <1>7. ASSUME NEW a \in Node, ping'[a] # None, ~ ping'[a].same
        PROVE  ping[a] # None /\ ping[a].tgt = ping'[a].tgt /\ Other(a)' = Other(a)
    <2>1. ping'[a] = IF a \in A THEN Detached(ping[a], table[a], new[a]) ELSE ping[a]
      BY DEF Learn
    <2>2. CASE a \in A
      BY <1>7, <2>1, <2>2, DetachedKeepsOther
    <2>3. CASE a \notin A
      BY <1>7, <2>1, <2>3 DEF Other
    <2> QED  BY <2>2, <2>3
  <1> QED  BY <1>3, <1>4, <1>5, <1>6, <1>7, RealStep

\* One entry of agent a becomes e, which is real.
LEMMA OneEntryReal ==
    ASSUME TypeInv, TypeInv', Real, NEW a \in up, NEW u \in Subject, NEW e \in WideEntry,
           e.st = "unknown" => e = table[a][u],
           u = a => e.st \in {"alive", "leave"} /\ e.inc >= table[a][u].inc,
           u # a => e.inc <= table[u][u].inc,
           LearnOne(a, u, e)
    PROVE  Real'
  <1> DEFINE new == [b \in {a} |-> [table[a] EXCEPT ![u] = e]]
  <1>1. Learn({a}, new)
    BY DEF LearnOne
  <1>2. Fit({a}, new)
    BY OneEntryFit
  <1>3. a \in Node /\ Subject \subseteq Node /\ table[a] \in Table
    BY NodeAssumption DEF TypeInv, TypeOK
  <1>4. RealEntries({a}, new)
    <2> SUFFICES ASSUME NEW v \in Subject
                 PROVE  /\ v = a => new[a][v].inc >= table[a][v].inc
                        /\ v # a => new[a][v].inc <= table[v][v].inc
      BY DEF RealEntries
    <2>1. CASE v = u
      BY <2>1, <1>3 DEF Table
    <2>2. CASE v # u
      <3>1. new[a][v] = table[a][v]
        BY <2>2, <1>3 DEF Table
      <3> QED  BY <3>1, <1>3, IncarnationsAreNat DEF Real
    <2> QED  BY <2>1, <2>2
  <1> HIDE DEF new
  <1>5. {a} \in SUBSET up
    OBVIOUS
  <1> QED  BY <1>1, <1>2, <1>4, <1>5, LearnReal

LEMMA GossipedReal ==
    ASSUME TypeInv, TypeInv', Real, NEW a \in Node, NEW b \in Node,
           NEW m \in broadcasts[b], Gossiped(b, a, m)
    PROVE  Real'
  <1>1. m \in Message /\ a \in up
    BY DEF TypeInv, TypeOK, Gossiped
  <1> DEFINE u == m.node
             e == Heard(a, u, table[a][u], m)
  <1>2. u \in Subject /\ m.st \in NodeState \ {"unknown"} /\ m.inc \in Nat
    BY <1>1, BoundsAssumption DEF Message, Incarnation
  <1>3. table[a][u] \in WideEntry /\ (u = a => table[a][u].st \in {"alive", "leave"})
    BY <1>2, TableIsWide DEF TypeInv, TypeOK, NobodyDoubtsItself
  <1>4. /\ HeardEntry(a, u, table[a][u], e)
        /\ u # a => e.inc \in {table[a][u].inc, m.inc}
    BY <1>2, <1>3, HeardFacts
  <1>5. /\ e \in WideEntry
        /\ e.st = "unknown" => e = table[a][u]
        /\ u = a => e.st \in {"alive", "leave"} /\ e.inc >= table[a][u].inc
    <2>1. e = table[a][u] \/ e # table[a][u]
      OBVIOUS
    <2>2. table[a][u].inc \in Nat
      BY <1>3 DEF WideEntry
    <2> HIDE DEF e
    <2> QED  BY <1>3, <1>4, <2>1, <2>2 DEF HeardEntry, WideEntry
  <1>6. m.inc <= table[u][u].inc /\ table[a][u].inc <= table[u][u].inc
    BY <1>2 DEF Real
  <1>7. u # a => e.inc <= table[u][u].inc
    BY <1>4, <1>6
  <1>8. LearnOne(a, u, e)
    BY DEF Gossiped
  <1> HIDE DEF u, e
  <1> QED  BY <1>1, <1>2, <1>5, <1>7, <1>8, OneEntryReal

\* What an agent merges is real when what it is given is.
LEMMA MergedReal ==
    ASSUME TypeInv, Real, NEW a \in Node, NEW given \in [Subject -> WideEntry],
           \A u \in Subject : u # a => given[u].inc <= table[u][u].inc,
           NEW u \in Subject
    PROVE  /\ u = a => Merged(a, table[a], given)[u] = table[a][u]
           /\ Merged(a, table[a], given)[u].inc <= table[u][u].inc
  <1>1. table[a] \in [Subject -> WideEntry]
    BY TableIsWide DEF TypeInv, TypeOK
  <1>2. /\ u = a => Merged(a, table[a], given)[u] = table[a][u]
        /\ Merged(a, table[a], given)[u].inc \in {table[a][u].inc, given[u].inc}
    BY <1>1, MergedFacts
  <1>3. table[a][u].inc <= table[u][u].inc
    BY DEF Real
  <1> QED  BY <1>2, <1>3

LEMMA PushPullReal ==
    ASSUME TypeInv, TypeInv', Real, NEW a \in Node, NEW b \in Node, PushPull(a, b)
    PROVE  Real'
  <1> DEFINE atB == Merged(b, table[b], table[a])
             atA == Merged(a, table[a], atB)
             both == [x \in {a, b} |-> IF x = a THEN atA ELSE atB]
             one == [x \in {b} |-> atB]
  <1>1. a # b /\ a \in up /\ b \in up /\ (Learn({a, b}, both) \/ Learn({b}, one))
    BY DEF PushPull
  <1>2. table[a] \in [Subject -> WideEntry] /\ \A u \in Subject : table[a][u].inc <= table[u][u].inc
    BY TableIsWide DEF TypeInv, TypeOK, Real
  <1>3. /\ atB \in [Subject -> WideEntry]
        /\ \A u \in Subject : /\ atB[u].st = "unknown" => atB[u] = table[b][u]
                              /\ u = b => atB[u].st \in {"alive", "leave"}
    BY <1>1, <1>2, MergedFit
  <1>4. \A u \in Subject : /\ u = b => atB[u] = table[b][u]
                           /\ atB[u].inc <= table[u][u].inc
    BY <1>2, MergedReal
  <1> HIDE DEF atB
  <1>5. /\ atA \in [Subject -> WideEntry]
        /\ \A u \in Subject : /\ atA[u].st = "unknown" => atA[u] = table[a][u]
                              /\ u = a => atA[u].st \in {"alive", "leave"}
    BY <1>1, <1>3, MergedFit
  <1>6. \A u \in Subject : /\ u = a => atA[u] = table[a][u]
                           /\ atA[u].inc <= table[u][u].inc
    BY <1>3, <1>4, MergedReal
  <1> HIDE DEF atA
  <1>7. Fit({a, b}, both) /\ Fit({b}, one)
    BY <1>1, <1>3, <1>5 DEF Fit
  <1>8. RealEntries({a, b}, both) /\ RealEntries({b}, one)
    BY <1>1, <1>4, <1>6, IncarnationsAreNat DEF RealEntries
  <1> HIDE DEF both, one
  <1>9. {a, b} \in SUBSET up /\ {b} \in SUBSET up
    BY <1>1
  <1> QED  BY <1>1, <1>7, <1>8, <1>9, LearnReal

LEMMA ChangeMyselfReal ==
    ASSUME TypeInv, TypeInv', Real, NEW a \in Node, ChangeMyself(a)
    PROVE  Real'
  <1> DEFINE e == [table[a][a] EXCEPT !.inc = @ + 1]
  <1>1. a \in up /\ a \in Subject /\ LearnOne(a, a, e)
    BY DEF ChangeMyself
  <1>2. table[a][a] \in WideEntry /\ table[a][a].st \in {"alive", "leave"}
    BY <1>1, TableIsWide DEF TypeInv, TypeOK, NobodyDoubtsItself
  <1>3. e \in WideEntry /\ e.st \in {"alive", "leave"} /\ e.inc >= table[a][a].inc
    BY <1>2 DEF WideEntry
  <1> HIDE DEF e
  <1> QED  BY <1>1, <1>3, OneEntryReal

LEMMA ForceLeaveReal ==
    ASSUME TypeInv, TypeInv', Real, NEW a \in Node, NEW u \in Subject, ForceLeave(a, u)
    PROVE  Real'
  <1> DEFINE e == AfterLeave(a, u, table[a][u], table[a][u].inc, TRUE)
  <1>1. a \in up /\ LearnOne(a, u, e)
    BY DEF ForceLeave
  <1>2. /\ table[a][u] \in WideEntry
        /\ u = a => table[a][u].st \in {"alive", "leave"}
        /\ table[a][u].inc <= table[u][u].inc
    BY <1>1, TableIsWide DEF TypeInv, TypeOK, NobodyDoubtsItself, Real
  <1>3. /\ e \in WideEntry
        /\ e.st = "unknown" => e = table[a][u]
        /\ u = a => e.st \in {"alive", "leave"} /\ e.inc >= table[a][u].inc
        /\ u # a => e.inc <= table[u][u].inc
    BY <1>2 DEF AfterLeave, WideEntry, NodeState
  <1> HIDE DEF e
  <1> QED  BY <1>1, <1>3, OneEntryReal

LEMMA ExpireReal ==
    ASSUME TypeInv, TypeInv', Real, NEW a \in Node, NEW u \in Subject, Expire(a, u)
    PROVE  Real'
  <1>1. a \in up /\ a # u /\ table[a][u] \in WideEntry /\ table[a][u].inc <= table[u][u].inc
    BY TableIsWide DEF TypeInv, TypeOK, Expire, Real
  <1>2. CASE LearnOne(a, u, [table[a][u] EXCEPT !.st = "dead"])
    <2> DEFINE e == [table[a][u] EXCEPT !.st = "dead"]
    <2>1. e \in WideEntry /\ e.st # "unknown" /\ e.inc = table[a][u].inc
      BY <1>1 DEF WideEntry, NodeState
    <2> HIDE DEF e
    <2>2. LearnOne(a, u, e)
      BY <1>2 DEF e
    <2> QED  BY <1>1, <2>1, <2>2, OneEntryReal
  <1>3. CASE /\ table' = [table EXCEPT ![a][u] = Unknown]
             /\ ping' = [ping EXCEPT ![a] = Detached(@, table[a], table'[a])]
             /\ UNCHANGED <<up, broadcasts, pingback, disk, stale, crashes>>
    <2>1. \A x \in Node, v \in Subject :
             table'[x][v] = IF x = a /\ v = u THEN Unknown ELSE table[x][v]
      BY <1>3 DEF TypeInv, TypeOK, Table
    <2>2. Unknown.inc = 0 /\ Subject \subseteq Node
      BY NodeAssumption DEF Unknown
    <2>3. /\ \A v \in Subject : table'[v][v].inc >= table[v][v].inc
          /\ \A x \in Node, v \in Subject : v # x => table'[x][v].inc <= table[v][v].inc
      <3>1. ASSUME NEW v \in Subject PROVE table'[v][v].inc >= table[v][v].inc
        <4>1. v \in Node /\ table'[v][v] = table[v][v]
          BY <1>1, <2>1, <2>2
        <4> QED  BY <4>1, IncarnationsAreNat
      <3>2. ASSUME NEW x \in Node, NEW v \in Subject, v # x
            PROVE  table'[x][v].inc <= table[v][v].inc
        <4>1. v \in Node /\ table[v][v].inc \in Nat
          BY <2>2, IncarnationsAreNat
        <4>2. CASE x = a /\ v = u
          BY <2>1, <2>2, <4>1, <4>2
        <4>3. CASE ~ (x = a /\ v = u)
          <5>1. table'[x][v] = table[x][v]
            BY <2>1, <4>3
          <5> QED  BY <5>1 DEF Real
        <4> QED  BY <4>2, <4>3
      <3> QED  BY <3>1, <3>2
    <2>4. ASSUME NEW x \in Node, ping'[x] # None, ~ ping'[x].same
          PROVE  ping[x] # None /\ ping[x].tgt = ping'[x].tgt /\ Other(x)' = Other(x)
      <3>1. CASE x = a
        <4>1. ping'[a] = Detached(ping[a], table[a], table'[a])
          BY <1>3 DEF TypeInv, TypeOK
        <4> QED  BY <2>4, <3>1, <4>1, DetachedKeepsOther
      <3>2. CASE x # a
        <4>1. ping'[x] = ping[x]
          BY <1>3, <3>2 DEF TypeInv, TypeOK
        <4> QED  BY <2>4, <4>1 DEF Other
      <3> QED  BY <3>1, <3>2
    <2> QED  BY <1>3, <2>3, <2>4, RealStep
  <1> QED  BY <1>2, <1>3 DEF Expire

LEMMA StartPingReal ==
    ASSUME TypeInv, TypeInv', Real, NEW a \in Node, NEW u \in Subject, StartPing(a, u)
    PROVE  Real'
  <1>1. UNCHANGED <<table, broadcasts, disk>>
    BY DEF StartPing
  <1>2. \A v \in Subject : v \in Node
    BY NodeAssumption
  <1>3. ASSUME NEW x \in Node, ping'[x] # None, ~ ping'[x].same
        PROVE  ping[x] # None /\ ping[x].tgt = ping'[x].tgt /\ Other(x)' = Other(x)
    BY <1>1, <1>3 DEF StartPing, TypeInv, TypeOK, Other
  <1>4. /\ \A v \in Subject : table'[v][v].inc >= table[v][v].inc
        /\ \A x \in Node, v \in Subject : v # x => table'[x][v].inc <= table[v][v].inc
    BY <1>1, <1>2, IncarnationsAreNat DEF Real
  <1> QED  BY <1>1, <1>3, <1>4, RealStep

LEMMA PingAnsweredReal ==
    ASSUME TypeInv, TypeInv', Real, NEW a \in Node, NEW u \in Subject, PingAnswered(a, u)
    PROVE  Real'
  <1> DEFINE e == [Other(a) EXCEPT !.st = "alive"]
  <1>1. ping[a] # None /\ ping[a].tgt = u /\ u # a
    BY DEF PingAnswered, TypeInv, NoSelfPing
  <1>2. e.inc = Other(a).inc /\ e.inc <= table[u][u].inc
    BY <1>1, OtherType DEF Real, Entry
  <1>3. /\ table' = [table EXCEPT ![a][u] = e]
        /\ broadcasts' = broadcasts \/ broadcasts' = [broadcasts EXCEPT ![a] = @ \cup {Told(u, e)}]
        /\ ping' = [ping EXCEPT ![a] = None]
        /\ UNCHANGED <<up, pingback, disk, stale, crashes>>
    BY DEF PingAnswered
  <1> HIDE DEF e
  <1>4. \A x \in Node, v \in Subject :
           table'[x][v] = IF x = a /\ v = u THEN e ELSE table[x][v]
    BY <1>3 DEF TypeInv, TypeOK, Table
  <1>5. /\ \A v \in Subject : table'[v][v].inc >= table[v][v].inc
        /\ \A x \in Node, v \in Subject : v # x => table'[x][v].inc <= table[v][v].inc
    BY <1>1, <1>2, <1>4, NodeAssumption, IncarnationsAreNat DEF Real
  <1>6. \A x \in Node : \A m \in broadcasts'[x] :
           m \in broadcasts[x] \/ m.inc = table'[x][m.node].inc
    BY <1>3, <1>4 DEF TypeInv, TypeOK, Told
  <1>7. \A x \in Node : ping'[x] # None /\ ~ ping'[x].same =>
           ping[x] # None /\ ping[x].tgt = ping'[x].tgt /\ Other(x)' = Other(x)
    BY <1>3 DEF TypeInv, TypeOK, Other
  <1> QED  BY <1>3, <1>5, <1>6, <1>7, RealStep

LEMMA PingTimedOutReal ==
    ASSUME TypeInv, TypeInv', Real, NEW a \in Node, NEW u \in Subject, PingTimedOut(a, u)
    PROVE  Real'
  <1> DEFINE e == AfterSuspect(a, u, table[a][u], Other(a).inc)
  <1>1. ping[a] # None /\ ping[a].tgt = u /\ u # a
    BY DEF PingTimedOut, TypeInv, NoSelfPing
  <1>3. /\ table' = [table EXCEPT ![a][u] = e]
        /\ broadcasts' = [broadcasts EXCEPT ![a] = @ \cup News(table[a], table'[a])]
        /\ ping' = [ping EXCEPT ![a] = None] \/ ping' = ping
        /\ UNCHANGED <<up, pingback, disk, stale, crashes>>
    BY DEF PingTimedOut
  <1>4. e.inc <= table[u][u].inc /\ (e = table[a][u] \/ e.st = "suspect")
    BY <1>1 DEF AfterSuspect, Real
  <1> HIDE DEF e
  <1>5. \A x \in Node, v \in Subject :
           table'[x][v] = IF x = a /\ v = u THEN e ELSE table[x][v]
    BY <1>3 DEF TypeInv, TypeOK, Table
  <1>6. /\ \A v \in Subject : table'[v][v].inc >= table[v][v].inc
        /\ \A x \in Node, v \in Subject : v # x => table'[x][v].inc <= table[v][v].inc
    BY <1>1, <1>4, <1>5, NodeAssumption, IncarnationsAreNat DEF Real
  <1>7. \A x \in Node : \A m \in broadcasts'[x] :
           m \in broadcasts[x] \/ m.inc = table'[x][m.node].inc
    BY <1>3 DEF TypeInv, TypeOK, Told, News
  <1>8. ASSUME NEW x \in Node, ping'[x] # None, ~ ping'[x].same
        PROVE  ping[x] # None /\ ping[x].tgt = ping'[x].tgt /\ Other(x)' = Other(x)
    BY <1>3, <1>8 DEF TypeInv, TypeOK, Other
  <1> QED  BY <1>3, <1>6, <1>7, <1>8, RealStep

\* A ping that failed, or one that was heard, changes no incarnation.
LEMMA PingOnlyReal ==
    ASSUME TypeInv, TypeInv', Real, NEW a \in Node, NEW u \in Subject,
           PingFailed(a, u) \/ HearPing(a, u)
    PROVE  Real'
  <1>1. UNCHANGED <<table, broadcasts, disk>> /\ ping' \in {ping, [ping EXCEPT ![a] = None]}
    BY DEF PingFailed, HearPing
  <1>2. ASSUME NEW x \in Node, ping'[x] # None
        PROVE  ping[x] # None /\ ping[x].tgt = ping'[x].tgt /\ Other(x)' = Other(x)
    BY <1>1, <1>2 DEF TypeInv, TypeOK, Other
  <1>3. /\ \A v \in Subject : v \in Node /\ table'[v][v].inc >= table[v][v].inc
        /\ \A x \in Node, v \in Subject : v # x => table'[x][v].inc <= table[v][v].inc
    BY <1>1, NodeAssumption, IncarnationsAreNat DEF Real
  <1> QED  BY <1>1, <1>2, <1>3, RealStep

\* What an agent writes is what it holds.
LEMMA SaveStopReal ==
    ASSUME TypeInv, TypeInv', Real, NEW a \in Node, Save(a) \/ Stop(a)
    PROVE  Real'
  <1>1. /\ table' = table
        /\ \A x \in Node : broadcasts'[x] \subseteq broadcasts[x]
        /\ \A x \in Node : ping'[x] \in {ping[x], None}
    BY DEF Save, Stop, TypeInv, TypeOK
  <1>2. ASSUME NEW x \in Node, NEW v \in Subject
        PROVE  disk'[x].nodes[v].inc \in {disk[x].nodes[v].inc, table[x][v].inc, 0}
    <2>1. disk' = disk \/ \E i : disk' = [disk EXCEPT ![a] = [inc |-> i, nodes |-> Others(a)]]
      BY DEF Save, Stop
    <2>2. disk'[x] = disk[x] \/ (x = a /\ disk'[x].nodes = Others(a))
      BY <2>1 DEF TypeInv, TypeOK
    <2> QED  BY <2>2 DEF Others, Unknown
  <1>3. ASSUME NEW x \in Node, ping'[x] # None
        PROVE  ping[x] # None /\ ping[x].tgt = ping'[x].tgt /\ Other(x)' = Other(x)
    BY <1>1, <1>3 DEF Other
  <1>4. /\ \A v \in Subject : v \in Node /\ table'[v][v].inc >= table[v][v].inc
        /\ \A x \in Node, v \in Subject : v # x => table'[x][v].inc <= table[v][v].inc
    BY <1>1, NodeAssumption, IncarnationsAreNat DEF Real
  <1> QED  BY <1>1, <1>2, <1>3, <1>4, RealStep

\* An agent restarts one above its file, which is as high as it ever was.
LEMMA RestartReal ==
    ASSUME TypeInv, TypeInv', Real, NEW a \in Node, Restart(a), stale' = 0
    PROVE  Real'
  <1>1. /\ a \notin up /\ UNCHANGED <<broadcasts, ping, disk>>
        /\ table' = [table EXCEPT ![a] = Started(a, NextInc(a), disk[a].nodes)]
    BY DEF Restart
  <1>2. ping[a] = None
    BY <1>1 DEF TypeInv, TypeOK
  <1>3. ~ (disk[a].inc < MyInc(a))
    BY DEF Restart, TypeInv, TypeOK
  <1>4. \A x \in Node, v \in Subject :
           table'[x][v] = IF x # a THEN table[x][v]
                          ELSE IF v = a THEN [st |-> "alive", inc |-> disk[a].inc + 1]
                          ELSE disk[a].nodes[v]
    BY <1>1 DEF Started, NextInc, TypeInv, TypeOK
  <1>5. ASSUME NEW v \in Subject PROVE table'[v][v].inc >= table[v][v].inc
    <2>1. v \in Node /\ table[v][v].inc \in Nat
      BY NodeAssumption, IncarnationsAreNat
    <2>2. CASE v = a
      <3>1. disk[a].inc \in Int
        BY BoundsAssumption DEF TypeInv, TypeOK, Disk
      <3>2. disk[a].inc >= table[a][a].inc
        BY <1>3, <2>1, <2>2, <3>1 DEF MyInc
      <3>3. table'[a][a].inc = disk[a].inc + 1
        BY <1>4, <2>2
      <3> QED  BY <2>1, <2>2, <3>1, <3>2, <3>3
    <2>3. CASE v # a
      BY <1>4, <2>1, <2>3
    <2> QED  BY <2>2, <2>3
  <1>6. ASSUME NEW x \in Node, NEW v \in Subject, v # x
        PROVE  table'[x][v].inc <= table[v][v].inc
    <2>1. table'[x][v] \in {table[x][v], disk[x].nodes[v]}
      BY <1>4, <1>6
    <2> QED  BY <2>1 DEF Real
  <1>7. ASSUME NEW x \in Node, ping'[x] # None
        PROVE  ping[x] # None /\ ping[x].tgt = ping'[x].tgt /\ Other(x)' = Other(x)
    <2>1. x # a /\ ping'[x] = ping[x] /\ table'[x] = table[x]
      BY <1>1, <1>2, <1>7 DEF TypeInv, TypeOK
    <2> QED  BY <1>7, <2>1 DEF Other
  <1> QED  BY <1>1, <1>5, <1>6, <1>7, RealStep

LEMMA InitReal == Init => Real
  BY NodeAssumption DEF Init, Real, Started, Empty, Unknown

LEMMA StepReal ==
    ASSUME TypeInv, TypeInv', [Next]_vars, KnownIncarnationsAreReal
    PROVE  KnownIncarnationsAreReal'
  <1> SUFFICES ASSUME stale' = 0 PROVE Real'
    BY DEF KnownIncarnationsAreReal, Real
  <1>1. stale = 0
    <2>1. stale \in Nat
      BY BoundsAssumption DEF TypeInv, TypeOK
    <2>2. ASSUME NEW a \in Node, Restart(a) PROVE stale' \in {stale, stale + 1}
      BY <2>2 DEF Restart
    <2>3. ASSUME NEW a \in Node, NEW b \in Node, PushPull(a, b) PROVE stale' = stale
      BY <2>3 DEF PushPull, Learn
    <2>4. ASSUME NEW a \in Node, NEW b \in Node, NEW m \in broadcasts[b], Gossiped(b, a, m)
          PROVE  stale' = stale
      BY <2>4 DEF Gossiped, LearnOne, Learn
    <2>5. ASSUME NEW a \in Node, ChangeMyself(a) \/ Save(a) \/ Stop(a)
          PROVE  stale' = stale
      BY <2>5 DEF ChangeMyself, Save, Stop, LearnOne, Learn
    <2>6. ASSUME NEW a \in Node, NEW u \in Subject,
                 ForceLeave(a, u) \/ Expire(a, u) \/ HearPing(a, u) \/ StartPing(a, u)
                   \/ PingAnswered(a, u) \/ PingTimedOut(a, u) \/ PingFailed(a, u)
          PROVE  stale' = stale
      BY <2>6 DEF ForceLeave, Expire, HearPing, StartPing, PingAnswered, PingTimedOut,
         PingFailed, LearnOne, Learn
    <2>7. CASE UNCHANGED vars
      BY <2>7 DEF vars
    <2> QED  BY <2>1, <2>2, <2>3, <2>4, <2>5, <2>6, <2>7 DEF Next
  <1>2. Real
    BY <1>1 DEF KnownIncarnationsAreReal, Real
  <1>3. ASSUME NEW a \in Node, NEW b \in Node, PushPull(a, b) PROVE Real'
    BY <1>2, <1>3, PushPullReal
  <1>4. ASSUME NEW a \in Node, NEW b \in Node, NEW m \in broadcasts[b], Gossiped(b, a, m)
        PROVE  Real'
    BY <1>2, <1>4, GossipedReal
  <1>5. ASSUME NEW a \in Node,
               ChangeMyself(a) \/ Save(a) \/ Stop(a) \/ Restart(a)
        PROVE  Real'
    BY <1>2, <1>5, ChangeMyselfReal, SaveStopReal, RestartReal
  <1>6. ASSUME NEW a \in Node, NEW u \in Subject,
               ForceLeave(a, u) \/ Expire(a, u) \/ HearPing(a, u) \/ StartPing(a, u)
                 \/ PingAnswered(a, u) \/ PingTimedOut(a, u) \/ PingFailed(a, u)
        PROVE  Real'
    BY <1>2, <1>6, ForceLeaveReal, ExpireReal, StartPingReal, PingAnsweredReal,
       PingTimedOutReal, PingOnlyReal
  <1>7. CASE UNCHANGED vars
    BY <1>2, <1>7 DEF vars, Real, Other
  <1> QED  BY <1>3, <1>4, <1>5, <1>6, <1>7 DEF Next

(***************************************************************************)
(* As long as no agent restarted from a late incarnation file, no entry,   *)
(* broadcast, file or ping in progress is ahead of the agent it is about,  *)
(* whatever the number of agents and the order of their steps.             *)
(***************************************************************************)
THEOREM IncarnationSafety == Spec => []KnownIncarnationsAreReal
  <1>1. Init => KnownIncarnationsAreReal
    BY InitReal DEF KnownIncarnationsAreReal, Real
  <1>2. TypeInv /\ TypeInv' /\ KnownIncarnationsAreReal /\ [Next]_vars
          => KnownIncarnationsAreReal'
    BY StepReal
  <1> QED  BY <1>1, <1>2, TypesAlways, PTL DEF Spec

-----------------------------------------------------------------------------
(***************************************************************************)
(* What one step may do to one entry.                                      *)
(***************************************************************************)
\* What a node hears, or times out on, or says of itself.
HeardStep(a, u) == HeardEntry(a, u, table[a][u], table'[a][u])

\* A handler; a leave call about oneself; a suspicion or a departure that is
\* old enough; an answered ping; a restart.
EntryStep(a, u) ==
    \/ HeardStep(a, u)
    \/ u = a /\ ForceLeave(a, u) /\ table'[a][u].inc >= table[a][u].inc
    \/ /\ u # a /\ table[a][u].st = "suspect"
       /\ table'[a][u] = [table[a][u] EXCEPT !.st = "dead"]
    \/ u # a /\ table[a][u].st = "leave" /\ table'[a][u] = Unknown
    \/ /\ u # a /\ PingAnswered(a, u) /\ table'[a][u].st = "alive"
       /\ ping[a] # None /\ ping'[a] = None
       /\ ping[a].same => table'[a][u].inc = table[a][u].inc
    \/ /\ a \notin up
       /\ u = a => table'[a][u].st = "alive"
       /\ u # a => table'[a][u] = disk[a].nodes[u]

LEMMA SameEntry ==
    ASSUME TypeInv, NEW a \in Node, NEW u \in Subject, table'[a][u] = table[a][u]
    PROVE  HeardStep(a, u) /\ EntryStep(a, u)
  <1>1. table[a][u] \in WideEntry
    BY TableIsWide DEF TypeInv, TypeOK
  <1> QED  BY <1>1 DEF EntryStep, HeardStep, HeardEntry, WideEntry

\* LearnOne changes that entry only.
LEMMA LearnOneEntry ==
    ASSUME TypeInv, NEW a \in Node, NEW u \in Subject, NEW e, LearnOne(a, u, e)
    PROVE  \A b \in Node, v \in Subject :
              table'[b][v] = IF b = a /\ v = u THEN e ELSE table[b][v]
  <1> DEFINE new == [b \in {a} |-> [table[a] EXCEPT ![u] = e]]
  <1>1. table' = [b \in Node |-> IF b \in {a} THEN new[b] ELSE table[b]]
    BY DEF LearnOne, Learn
  <1>2. \A v \in Subject : new[a][v] = IF v = u THEN e ELSE table[a][v]
    BY DEF TypeInv, TypeOK, Table
  <1> HIDE DEF new
  <1> QED  BY <1>1, <1>2

LEMMA GossipedEntry ==
    ASSUME TypeInv, NEW a \in Node, NEW b \in Node, NEW m \in broadcasts[b],
           Gossiped(b, a, m), NEW c \in Node, NEW v \in Subject
    PROVE  HeardStep(c, v)
  <1> DEFINE e == Heard(a, m.node, table[a][m.node], m)
  <1>1. m.node \in Subject /\ m.st \in NodeState \ {"unknown"} /\ m.inc \in Nat
    BY BoundsAssumption DEF TypeInv, TypeOK, Message, Incarnation
  <1>2. HeardEntry(a, m.node, table[a][m.node], e)
    BY <1>1, TableIsWide, HeardFacts DEF TypeInv, TypeOK
  <1>3. LearnOne(a, m.node, e)
    BY DEF Gossiped
  <1> HIDE DEF e
  <1>4. table'[c][v] = IF c = a /\ v = m.node THEN e ELSE table[c][v]
    BY <1>1, <1>3, LearnOneEntry
  <1> QED  BY <1>2, <1>4, SameEntry DEF HeardStep

LEMMA PushPullEntry ==
    ASSUME TypeInv, NEW a \in Node, NEW b \in Node, PushPull(a, b),
           NEW c \in Node, NEW v \in Subject
    PROVE  HeardStep(c, v)
  <1> DEFINE atB == Merged(b, table[b], table[a])
             atA == Merged(a, table[a], atB)
             both == [x \in {a, b} |-> IF x = a THEN atA ELSE atB]
             one == [x \in {b} |-> atB]
  <1>1. a # b /\ (Learn({a, b}, both) \/ Learn({b}, one))
    BY DEF PushPull
  <1>2. table[a] \in [Subject -> WideEntry] /\ table[b] \in [Subject -> WideEntry]
    BY TableIsWide DEF TypeInv, TypeOK
  <1>3. atB \in [Subject -> WideEntry] /\ HeardEntry(b, v, table[b][v], atB[v])
    BY <1>2, MergedType, MergedFacts
  <1> HIDE DEF atB
  <1>4. HeardEntry(a, v, table[a][v], atA[v])
    BY <1>2, <1>3, MergedFacts
  <1> HIDE DEF atA
  <1>5. both[a] = atA /\ both[b] = atB /\ one[b] = atB
    BY <1>1
  <1> HIDE DEF both, one
  <1>6. \/ c = a /\ table'[c] = atA
        \/ c = b /\ table'[c] = atB
        \/ table'[c] = table[c]
    BY <1>1, <1>5 DEF Learn
  <1> QED  BY <1>3, <1>4, <1>6, SameEntry DEF HeardStep

LEMMA OwnEntry ==
    ASSUME TypeInv, NEW a \in Node, ChangeMyself(a), NEW c \in Node, NEW v \in Subject
    PROVE  HeardStep(c, v)
  <1> DEFINE e == [table[a][a] EXCEPT !.inc = @ + 1]
  <1>1. a \in Subject /\ LearnOne(a, a, e)
    BY DEF ChangeMyself
  <1>2. HeardEntry(a, a, table[a][a], e)
    <2>1. table[a][a] \in WideEntry
      BY <1>1, TableIsWide DEF TypeInv, TypeOK
    <2> QED  BY <2>1 DEF HeardEntry, WideEntry
  <1> HIDE DEF e
  <1>3. table'[c][v] = IF c = a /\ v = a THEN e ELSE table[c][v]
    BY <1>1, LearnOneEntry
  <1> QED  BY <1>2, <1>3, SameEntry DEF HeardStep

LEMMA ForceLeaveEntry ==
    ASSUME TypeInv, NEW a \in Node, NEW u \in Subject, ForceLeave(a, u),
           NEW c \in Node, NEW v \in Subject
    PROVE  EntryStep(c, v)
  <1> DEFINE e == AfterLeave(a, u, table[a][u], table[a][u].inc, TRUE)
  <1>1. LearnOne(a, u, e)
    BY DEF ForceLeave
  <1>2. table[a][u] \in WideEntry
    BY TableIsWide DEF TypeInv, TypeOK
  <1>3. /\ u # a => HeardEntry(a, u, table[a][u], e)
        /\ u = a => e.inc >= table[a][u].inc
    BY <1>2 DEF AfterLeave, HeardEntry, WideEntry, NodeState
  <1> HIDE DEF e
  <1>4. table'[c][v] = IF c = a /\ v = u THEN e ELSE table[c][v]
    BY <1>1, LearnOneEntry
  <1> QED  BY <1>3, <1>4, SameEntry DEF EntryStep, HeardStep

LEMMA ExpireEntry ==
    ASSUME TypeInv, NEW a \in Node, NEW u \in Subject, Expire(a, u),
           NEW c \in Node, NEW v \in Subject
    PROVE  EntryStep(c, v)
  <1>1. u # a
    BY DEF Expire
  <1>2. CASE /\ table[a][u].st = "suspect"
             /\ LearnOne(a, u, [table[a][u] EXCEPT !.st = "dead"])
    <2>1. table'[c][v] = IF c = a /\ v = u THEN [table[a][u] EXCEPT !.st = "dead"]
                         ELSE table[c][v]
      BY <1>2, LearnOneEntry
    <2> QED  BY <1>1, <1>2, <2>1, SameEntry DEF EntryStep
  <1>3. CASE table[a][u].st = "leave" /\ table' = [table EXCEPT ![a][u] = Unknown]
    <2>1. table'[c][v] = IF c = a /\ v = u THEN Unknown ELSE table[c][v]
      BY <1>3 DEF TypeInv, TypeOK, Table
    <2> QED  BY <1>1, <1>3, <2>1, SameEntry DEF EntryStep
  <1> QED  BY <1>2, <1>3 DEF Expire

LEMMA PingAnsweredEntry ==
    ASSUME TypeInv, NEW a \in Node, NEW u \in Subject, PingAnswered(a, u),
           NEW c \in Node, NEW v \in Subject
    PROVE  EntryStep(c, v)
  <1> DEFINE e == [Other(a) EXCEPT !.st = "alive"]
  <1>1. /\ ping[a] # None /\ ping[a].tgt = u /\ u # a
        /\ table' = [table EXCEPT ![a][u] = e]
        /\ ping' = [ping EXCEPT ![a] = None]
    BY DEF PingAnswered, TypeInv, NoSelfPing
  <1>2. /\ e.st = "alive"
        /\ ping[a].same => e.inc = table[a][u].inc
    BY <1>1, OtherType DEF Other, Entry
  <1> HIDE DEF e
  <1>3. ping'[a] = None
    BY <1>1 DEF TypeInv, TypeOK
  <1>4. table'[c][v] = IF c = a /\ v = u THEN e ELSE table[c][v]
    BY <1>1 DEF TypeInv, TypeOK, Table
  <1>5. CASE c = a /\ v = u
    BY <1>1, <1>2, <1>3, <1>4, <1>5 DEF EntryStep
  <1>6. CASE ~ (c = a /\ v = u)
    BY <1>4, <1>6, SameEntry
  <1> QED  BY <1>5, <1>6

LEMMA PingTimedOutEntry ==
    ASSUME TypeInv, NEW a \in Node, NEW u \in Subject, PingTimedOut(a, u),
           NEW c \in Node, NEW v \in Subject
    PROVE  HeardStep(c, v)
  <1> DEFINE e == AfterSuspect(a, u, table[a][u], Other(a).inc)
  <1>1. /\ u # a /\ Other(a).inc \in Nat
        /\ table' = [table EXCEPT ![a][u] = e]
    BY IncarnationsAreNat DEF PingTimedOut, TypeInv, NoSelfPing
  <1>2. HeardEntry(a, u, table[a][u], e)
    BY <1>1, TableIsWide DEF TypeInv, TypeOK, AfterSuspect, HeardEntry, WideEntry, NodeState
  <1> HIDE DEF e
  <1>3. table'[c][v] = IF c = a /\ v = u THEN e ELSE table[c][v]
    BY <1>1 DEF TypeInv, TypeOK, Table
  <1> QED  BY <1>2, <1>3, SameEntry DEF HeardStep

LEMMA RestartEntry ==
    ASSUME TypeInv, NEW a \in Node, Restart(a), NEW c \in Node, NEW v \in Subject
    PROVE  EntryStep(c, v)
  <1>1. a \notin up /\ table' = [table EXCEPT ![a] = Started(a, NextInc(a), disk[a].nodes)]
    BY DEF Restart
  <1>2. CASE c = a
    <2>1. table'[a][v] = IF v = a THEN [st |-> "alive", inc |-> NextInc(a)]
                         ELSE disk[a].nodes[v]
      BY <1>1 DEF Started, TypeInv, TypeOK
    <2> QED  BY <1>1, <1>2, <2>1 DEF EntryStep
  <1>3. CASE c # a
    BY <1>1, <1>3, SameEntry DEF TypeInv, TypeOK
  <1> QED  BY <1>2, <1>3

LEMMA EntrySteps ==
    ASSUME TypeInv, [Next]_vars, NEW c \in Node, NEW v \in Subject
    PROVE  EntryStep(c, v)
  <1>1. ASSUME NEW a \in Node, NEW b \in Node, PushPull(a, b) PROVE EntryStep(c, v)
    BY <1>1, PushPullEntry DEF EntryStep
  <1>2. ASSUME NEW a \in Node, NEW b \in Node, NEW m \in broadcasts[b], Gossiped(b, a, m)
        PROVE  EntryStep(c, v)
    BY <1>2, GossipedEntry DEF EntryStep
  <1>3. ASSUME NEW a \in Node, ChangeMyself(a) \/ Save(a) \/ Stop(a) \/ Restart(a)
        PROVE  EntryStep(c, v)
    <2>1. Save(a) \/ Stop(a) => table' = table
      BY DEF Save, Stop
    <2> QED  BY <1>3, <2>1, OwnEntry, RestartEntry, SameEntry DEF EntryStep
  <1>4. ASSUME NEW a \in Node, NEW u \in Subject,
               ForceLeave(a, u) \/ Expire(a, u) \/ PingAnswered(a, u) \/ PingTimedOut(a, u)
        PROVE  EntryStep(c, v)
    BY <1>4, ForceLeaveEntry, ExpireEntry, PingAnsweredEntry, PingTimedOutEntry
       DEF EntryStep
  <1>5. ASSUME NEW a \in Node, NEW u \in Subject,
               HearPing(a, u) \/ StartPing(a, u) \/ PingFailed(a, u)
        PROVE  EntryStep(c, v)
    <2>1. table' = table
      BY <1>5 DEF HearPing, StartPing, PingFailed
    <2> QED  BY <2>1, SameEntry
  <1>6. CASE UNCHANGED vars
    BY <1>6, SameEntry DEF vars
  <1> QED  BY <1>1, <1>2, <1>3, <1>4, <1>5, <1>6 DEF Next

\* Only a restart makes an agent run.
LEMMA RestartOnly ==
    ASSUME [Next]_vars, NEW u, u \notin up, u \in up'
    PROVE  Restart(u)
  <1>1. ASSUME NEW a \in Node, NEW b \in Node, PushPull(a, b) PROVE up' = up
    BY <1>1 DEF PushPull, Learn
  <1>2. ASSUME NEW a \in Node, NEW b \in Node, NEW m \in broadcasts[b], Gossiped(b, a, m)
        PROVE  up' = up
    BY <1>2 DEF Gossiped, LearnOne, Learn
  <1>3. ASSUME NEW a \in Node, ChangeMyself(a) \/ Save(a) \/ Stop(a)
        PROVE  up' \subseteq up
    BY <1>3 DEF ChangeMyself, Save, Stop, LearnOne, Learn
  <1>4. ASSUME NEW a \in Node, Restart(a) PROVE a = u
    BY <1>4 DEF Restart
  <1>5. ASSUME NEW a \in Node, NEW v \in Subject,
               ForceLeave(a, v) \/ Expire(a, v) \/ HearPing(a, v) \/ StartPing(a, v)
                 \/ PingAnswered(a, v) \/ PingTimedOut(a, v) \/ PingFailed(a, v)
        PROVE  up' = up
    BY <1>5 DEF ForceLeave, Expire, HearPing, StartPing, PingAnswered, PingTimedOut,
       PingFailed, LearnOne, Learn
  <1>6. CASE UNCHANGED vars
    BY <1>6 DEF vars
  <1> QED  BY <1>1, <1>2, <1>3, <1>4, <1>5, <1>6 DEF Next

(***************************************************************************)
(* Old news stays old: gossip and push-pull never bring an entry back to   *)
(* an older incarnation; a deletion, a restart, or a ping that held an     *)
(* entry that was replaced meanwhile, may.                                 *)
(***************************************************************************)
THEOREM NewsGoesForward == Spec => OldNewsStaysOld
  <1>1. ASSUME TypeInv, TypeInv', [Next]_vars, NEW a \in Node, NEW u \in Subject,
               table'[a][u].inc < table[a][u].inc
        PROVE  \/ table'[a][u].st = "unknown"
               \/ a \notin up
               \/ ping[a] # None /\ ~ ping[a].same /\ ping'[a] = None
    <2>1. EntryStep(a, u)
      BY <1>1, EntrySteps
    <2>2. table[a][u].inc \in Nat /\ (Known(a, u) \/ table[a][u] = Unknown)
      BY <1>1, IncarnationsAreNat DEF TypeInv, TypeOK
    <2>3. ~ HeardEntry(a, u, table[a][u], table'[a][u])
      BY <1>1, <2>2 DEF HeardEntry, WideEntry, Unknown, Known
    <2>4. ~ (u # a /\ table'[a][u] = [table[a][u] EXCEPT !.st = "dead"])
      <3>1. table[a][u] \in Entry
        BY <1>1 DEF TypeInv, TypeOK, Table
      <3> QED  BY <1>1, <2>2, <3>1 DEF Entry
    <2>5. table'[a][u].inc \in Nat
      BY <1>1, BoundsAssumption DEF TypeInv, TypeOK, Table, Entry, Incarnation
    <2> QED  BY <1>1, <2>1, <2>2, <2>3, <2>4, <2>5 DEF EntryStep, HeardStep, Unknown
  <1>2. TypeInv /\ TypeInv' /\ [Next]_vars =>
          [\A a \in Node, u \in Subject :
              table'[a][u].inc < table[a][u].inc =>
                \/ table'[a][u].st = "unknown"
                \/ a \notin up
                \/ ping[a] # None /\ ~ ping[a].same /\ ping'[a] = None]_vars
    BY <1>1
  <1> QED  BY <1>2, TypesAlways, PTL DEF Spec, OldNewsStaysOld

(***************************************************************************)
(* An agent that was suspect, dead or gone is alive again only by a newer  *)
(* incarnation or by an answer to a ping.                                  *)
(***************************************************************************)
THEOREM RevivalIsEarned == Spec => RevivedByNewsOrPing
  <1>1. ASSUME TypeInv, [Next]_vars, NEW a \in Node, NEW u \in Subject,
               table[a][u].st \in {"suspect", "dead", "leave"}, table'[a][u].st = "alive"
        PROVE  \/ table'[a][u].inc > table[a][u].inc
               \/ a \notin up
               \/ PingAnswered(a, u)
    <2>1. EntryStep(a, u)
      BY <1>1, EntrySteps
    <2>2. CASE HeardEntry(a, u, table[a][u], table'[a][u])
      <3>1. table[a][u].inc \in Nat
        BY <1>1, IncarnationsAreNat
      <3> QED  BY <1>1, <2>2, <3>1 DEF HeardEntry, WideEntry
    <2>3. CASE u = a /\ ForceLeave(a, u)
      <3> DEFINE e == AfterLeave(a, u, table[a][u], table[a][u].inc, TRUE)
      <3>1. e.st # "alive" \/ e = table[a][u]
        BY DEF AfterLeave
      <3>2. table'[a][u] = e
        <4>1. LearnOne(a, u, e)
          BY <2>3 DEF ForceLeave
        <4> HIDE DEF e
        <4> QED  BY <1>1, <4>1, LearnOneEntry
      <3> HIDE DEF e
      <3> QED  BY <1>1, <3>1, <3>2
    <2>4. CASE table'[a][u] = [table[a][u] EXCEPT !.st = "dead"]
      <3>1. table[a][u] \in Entry
        BY <1>1 DEF TypeInv, TypeOK, Table
      <3> QED  BY <1>1, <2>4, <3>1 DEF Entry
    <2> QED  BY <1>1, <2>1, <2>2, <2>3, <2>4 DEF EntryStep, HeardStep, Unknown
  <1>2. TypeInv /\ [Next]_vars =>
          [\A a \in Node, u \in Subject :
              table[a][u].st \in {"suspect", "dead", "leave"} /\ table'[a][u].st = "alive" =>
                \/ table'[a][u].inc > table[a][u].inc
                \/ a \notin up
                \/ PingAnswered(a, u)]_vars
    BY <1>1
  <1> QED  BY <1>2, TypesAlways, PTL DEF Spec, RevivedByNewsOrPing

(***************************************************************************)
(* Nobody's DEAD is believed: an agent declares another dead only from its *)
(* own suspicion at that incarnation, or from its files.                   *)
(***************************************************************************)
THEOREM OwnVerdictOnly == Spec => DeadOnlyAfterOwnSuspicion
  <1>1. ASSUME TypeInv, [Next]_vars, NEW a \in Node, NEW u \in Subject,
               table'[a][u].st = "dead", table'[a][u] # table[a][u]
        PROVE  \/ table[a][u] = [table'[a][u] EXCEPT !.st = "suspect"]
               \/ a \notin up /\ table'[a][u] = disk[a].nodes[u]
    <2>1. EntryStep(a, u)
      BY <1>1, EntrySteps
    <2>2. table[a][u] \in Entry /\ (u = a => table[a][u].st \in {"alive", "leave"})
      BY <1>1 DEF TypeInv, TypeOK, Table, NobodyDoubtsItself
    <2>3. ~ HeardEntry(a, u, table[a][u], table'[a][u])
      BY <1>1, <2>2 DEF HeardEntry
    <2>4. CASE u = a /\ ForceLeave(a, u)
      <3> DEFINE e == AfterLeave(a, u, table[a][u], table[a][u].inc, TRUE)
      <3>1. e.st # "dead"
        BY <2>2, <2>4 DEF AfterLeave
      <3>2. table'[a][u] = e
        <4>1. LearnOne(a, u, e)
          BY <2>4 DEF ForceLeave
        <4> HIDE DEF e
        <4> QED  BY <1>1, <4>1, LearnOneEntry
      <3> HIDE DEF e
      <3> QED  BY <1>1, <3>1, <3>2
    <2>5. CASE /\ table[a][u].st = "suspect"
               /\ table'[a][u] = [table[a][u] EXCEPT !.st = "dead"]
      BY <2>2, <2>5 DEF Entry
    <2> QED  BY <1>1, <2>1, <2>3, <2>4, <2>5 DEF EntryStep, HeardStep, Unknown
  <1>2. TypeInv /\ [Next]_vars =>
          [\A a \in Node, u \in Subject :
              table'[a][u].st = "dead" /\ table'[a][u] # table[a][u] =>
                 \/ table[a][u] = [table'[a][u] EXCEPT !.st = "suspect"]
                 \/ a \notin up /\ table'[a][u] = disk[a].nodes[u]]_vars
    BY <1>1
  <1> QED  BY <1>2, TypesAlways, PTL DEF Spec, DeadOnlyAfterOwnSuspicion

(***************************************************************************)
(* Only its own protected HTTP call makes an agent leave.                  *)
(***************************************************************************)
THEOREM LeaveIsAsked == Spec => []LeavesOnlyWhenAsked
  <1>1. Init => LeavesOnlyWhenAsked
    BY NodeAssumption DEF Init, Started, LeavesOnlyWhenAsked
  <1>2. ASSUME TypeInv, LeavesOnlyWhenAsked, [Next]_vars,
               NEW u \in Subject, table'[u][u].st = "leave"
        PROVE  <<u, u>> \in LeaveCalls
    <2>1. u \in Node
      BY NodeAssumption
    <2>2. EntryStep(u, u)
      BY <1>2, <2>1, EntrySteps
    <2>3. CASE table[u][u].st = "leave"
      BY <1>2, <2>3 DEF LeavesOnlyWhenAsked
    <2>4. CASE ForceLeave(u, u)
      BY <2>4 DEF ForceLeave
    <2> QED  BY <1>2, <2>2, <2>3, <2>4 DEF EntryStep, HeardStep, HeardEntry, Unknown
  <1>3. TypeInv /\ LeavesOnlyWhenAsked /\ [Next]_vars => LeavesOnlyWhenAsked'
    BY <1>2 DEF LeavesOnlyWhenAsked
  <1> QED  BY <1>1, <1>3, TypesAlways, PTL DEF Spec

(***************************************************************************)
(* An agent that restarts from files that are up to date is newer than all *)
(* that anybody holds or sends of it.                                      *)
(***************************************************************************)
THEOREM NewestAgain == Spec => NewestAfterRestart
  <1>1. ASSUME TypeInv, TypeInv', KnownIncarnationsAreReal, [Next]_vars,
               NEW u \in Subject, u \notin up, u \in up', stale' = 0, NEW a \in Node \ {u}
        PROVE  /\ table'[a][u].inc < table'[u][u].inc \/ ~ Known(a, u)
               /\ \A m \in broadcasts'[a] : m.node = u => m.inc < table'[u][u].inc
    <2>1. u \in Node
      BY NodeAssumption
    <2>2. Restart(u)
      BY <1>1, RestartOnly
    <2>3. /\ disk[u].inc \in Int /\ table[u][u].inc \in Nat /\ table[a][u].inc \in Nat
          /\ \A m \in broadcasts[a] : m.inc \in Nat
      <3>1. disk[u].inc \in Int
        BY <1>1, <2>1, BoundsAssumption DEF TypeInv, TypeOK, Disk
      <3> QED  BY <1>1, <2>1, <3>1, IncarnationsAreNat
    <2>4. stale = 0 /\ ~ (disk[u].inc < table[u][u].inc)
      <3>1. stale \in Nat
        BY <1>1, BoundsAssumption DEF TypeInv, TypeOK
      <3> QED  BY <1>1, <2>2, <3>1 DEF Restart, MyInc
    <2>5. /\ table[a][u].inc <= table[u][u].inc
          /\ \A m \in broadcasts[a] : m.node = u => m.inc <= table[u][u].inc
      BY <1>1, <2>4 DEF KnownIncarnationsAreReal
    <2>6. /\ table'[a] = table[a] /\ broadcasts' = broadcasts
          /\ table'[u][u].inc = disk[u].inc + 1
      BY <1>1, <2>1, <2>2 DEF Restart, Started, NextInc, TypeInv, TypeOK
    <2> QED  BY <2>3, <2>4, <2>5, <2>6
  <1>2. TypeInv /\ TypeInv' /\ KnownIncarnationsAreReal /\ [Next]_vars =>
          [\A u \in Subject : u \notin up /\ u \in up' /\ stale' = 0 =>
              \A a \in Node \ {u} :
                 /\ table'[a][u].inc < table'[u][u].inc \/ ~ Known(a, u)
                 /\ \A m \in broadcasts'[a] : m.node = u => m.inc < table'[u][u].inc]_vars
    BY <1>1
  <1> QED  BY <1>2, TypesAlways, IncarnationSafety, PTL DEF Spec, NewestAfterRestart

-----------------------------------------------------------------------------
(***************************************************************************)
(* The refinement.  What the agents hold, whom they ask and what they      *)
(* saved changes as Membership says; what circulates never gets ahead of   *)
(* its owner, which is KnownIncarnationsAreReal after the step.            *)
(***************************************************************************)
Asking(p) == IF p = None THEN {} ELSE {[tgt |-> p.tgt, heard |-> p.heard]}

\* Whom the agents ask.
Questions == [a \in Node |-> IF ping[a] = None THEN {}
                            ELSE {[tgt |-> ping[a].tgt, heard |-> ping[a].heard]}]

LEMMA AbstractEntries ==
    ASSUME TypeInv
    PROVE  /\ table \in [Node -> [Subject -> Abstract!Entry]]
           /\ \A a \in Node, u \in Subject :
                 /\ table[a][u] \in Abstract!Entry /\ table[a][u].inc \in Incarnation
                 /\ table[a][u].inc \in Nat
BY BoundsAssumption DEF TypeInv, TypeOK, Table, Entry, NodeState, Incarnation,
   Abstract!Entry, Abstract!State

\* After the step, no entry is ahead of its owner unless an agent started again late.
LEMMA AbstractReal ==
    ASSUME TypeInv', KnownIncarnationsAreReal'
    PROVE  \A a \in Node, u \in Subject : Abstract!Real(u, table'[a][u].inc)
  <1>1. stale' \in Nat
    BY BoundsAssumption DEF TypeInv, TypeOK
  <1>2. CASE stale' = 0
    BY <1>2 DEF KnownIncarnationsAreReal, Abstract!Real
  <1>3. CASE stale' > 0
    BY <1>3 DEF Abstract!Real
  <1> QED  BY <1>1, <1>2, <1>3

\* Handlers at the agents of A, which run.
LEMMA LearningMaps ==
    ASSUME TypeInv, TypeInv', KnownIncarnationsAreReal',
           NEW A, A \subseteq up,
           \A a \in Node, u \in Subject :
              \/ table'[a][u] = table[a][u]
              \/ a \in A /\ HeardStep(a, u)
              \/ a \in A /\ u = a /\ Abstract!Renewed(u, table[a][u], table'[a][u]),
           \A a \in Node : Asking(ping'[a]) = Asking(ping[a]),
           UNCHANGED <<up, disk, stale>>
    PROVE  Abstract!Learn
  <1>1. table' \in [Node -> [Subject -> Abstract!Entry]]
    BY AbstractEntries DEF TypeInv, TypeOK, Table, Entry, NodeState, Incarnation,
       Abstract!Entry, Abstract!State
  <1>2. ASSUME NEW a \in Node, NEW u \in Subject, table'[a][u] # table[a][u]
        PROVE  LET e == table[a][u]
                   h == table'[a][u]
               IN  /\ a \in up
                   /\ a = u => Abstract!Renewed(u, e, h)
                   /\ a # u => Abstract!Joined(e, h) \/ Abstract!Doubted(e, h)
                                 \/ Abstract!Departed(e, h)
                   /\ Abstract!Real(u, h.inc)
    <2>1. Abstract!Real(u, table'[a][u].inc)
      BY AbstractReal
    <2> QED  BY <1>2, <2>1 DEF HeardStep, HeardEntry, Abstract!Renewed, Abstract!Joined,
                Abstract!Doubted, Abstract!Departed
  <1>3. Questions' = Questions
    BY DEF Asking, Questions
  <1> QED  BY <1>1, <1>2, <1>3 DEF Abstract!Learn, Questions

\* What LearnOne leaves alone, and whom a ping asks when its object is replaced.
LEMMA DetachedAsks ==
    ASSUME NEW p \in Ping \cup {None}, NEW old \in Table, NEW new
    PROVE  Asking(Detached(p, old, new)) = Asking(p)
  <1>1. CASE Detached(p, old, new) = p
    BY <1>1
  <1>2. CASE p # None /\ Detached(p, old, new)
                           = [p EXCEPT !.same = FALSE, !.held = old[p.tgt]]
    <2>1. p \in Ping
      BY <1>2
    <2>2. PICK q : q = Detached(p, old, new)
      OBVIOUS
    <2>3. q \in Ping /\ q.tgt = p.tgt /\ q.heard = p.heard
      BY <1>2, <2>1, <2>2 DEF Ping, Table
    <2>4. q # None
      BY <2>3, NoneAssumption
    <2> QED  BY <1>2, <2>2, <2>3, <2>4 DEF Asking
  <1> QED  BY <1>1, <1>2 DEF Detached

LEMMA LearnFrame ==
    ASSUME TypeInv, NEW A, NEW new, Learn(A, new)
    PROVE  /\ \A a \in Node \ A : table'[a] = table[a]
           /\ \A a \in Node : Asking(ping'[a]) = Asking(ping[a])
           /\ UNCHANGED <<up, disk, stale>>
  <1>1. \A a \in Node : ping'[a] = IF a \in A THEN Detached(ping[a], table[a], new[a])
                                             ELSE ping[a]
    BY DEF Learn
  <1>2. \A a \in Node : ping[a] \in Ping \cup {None} /\ table[a] \in Table
    BY DEF TypeInv, TypeOK
  <1>3. \A a \in Node : Asking(ping'[a]) = Asking(ping[a])
    BY <1>1, <1>2, DetachedAsks
  <1> QED  BY <1>3 DEF Learn

LEMMA GossipedMaps ==
    ASSUME TypeInv, TypeInv', KnownIncarnationsAreReal', NEW a \in Node, NEW b \in Node,
           NEW m \in broadcasts[b], Gossiped(b, a, m)
    PROVE  Abstract!Learn
  <1>1. PICK new : Learn({a}, new)
    BY DEF Gossiped, LearnOne
  <1>2. a \in up
    BY DEF Gossiped
  <1>3. \A c \in Node, v \in Subject : HeardStep(c, v)
    BY GossipedEntry
  <1>4. /\ \A c \in Node \ {a} : table'[c] = table[c]
        /\ \A c \in Node : Asking(ping'[c]) = Asking(ping[c])
        /\ UNCHANGED <<up, disk, stale>>
    BY <1>1, LearnFrame
  <1>5. \A c \in Node, v \in Subject :
           \/ table'[c][v] = table[c][v]
           \/ c \in {a} /\ HeardStep(c, v)
    BY <1>3, <1>4
  <1> QED  BY <1>2, <1>4, <1>5, LearningMaps

LEMMA PushPullMaps ==
    ASSUME TypeInv, TypeInv', KnownIncarnationsAreReal', NEW a \in Node, NEW b \in Node,
           PushPull(a, b)
    PROVE  Abstract!Learn
  <1>1. PICK A, new : A \in SUBSET {a, b} /\ Learn(A, new)
    BY DEF PushPull
  <1>2. A \subseteq up
    BY <1>1 DEF PushPull
  <1>3. \A c \in Node, v \in Subject : HeardStep(c, v)
    BY PushPullEntry
  <1>4. /\ \A c \in Node \ A : table'[c] = table[c]
        /\ \A c \in Node : Asking(ping'[c]) = Asking(ping[c])
        /\ UNCHANGED <<up, disk, stale>>
    BY <1>1, LearnFrame
  <1>5. \A c \in Node, v \in Subject :
           \/ table'[c][v] = table[c][v]
           \/ c \in A /\ HeardStep(c, v)
    BY <1>3, <1>4
  <1> QED  BY <1>2, <1>4, <1>5, LearningMaps

LEMMA OwnMaps ==
    ASSUME TypeInv, TypeInv', KnownIncarnationsAreReal', NEW a \in Node, ChangeMyself(a)
    PROVE  Abstract!Learn
  <1>1. PICK new : Learn({a}, new)
    BY DEF ChangeMyself, LearnOne
  <1>2. a \in up
    BY DEF ChangeMyself
  <1>3. \A c \in Node, v \in Subject : HeardStep(c, v)
    BY OwnEntry
  <1>4. /\ \A c \in Node \ {a} : table'[c] = table[c]
        /\ \A c \in Node : Asking(ping'[c]) = Asking(ping[c])
        /\ UNCHANGED <<up, disk, stale>>
    BY <1>1, LearnFrame
  <1>5. \A c \in Node, v \in Subject :
           \/ table'[c][v] = table[c][v]
           \/ c \in {a} /\ HeardStep(c, v)
    BY <1>3, <1>4
  <1> QED  BY <1>2, <1>4, <1>5, LearningMaps

LEMMA ForceLeaveMaps ==
    ASSUME TypeInv, TypeInv', KnownIncarnationsAreReal', NEW a \in Node, NEW u \in Subject,
           ForceLeave(a, u)
    PROVE  Abstract!Learn
  <1> DEFINE e == AfterLeave(a, u, table[a][u], table[a][u].inc, TRUE)
  <1>1. a \in up /\ <<a, u>> \in LeaveCalls /\ LearnOne(a, u, e)
    BY DEF ForceLeave
  <1>2. PICK new : Learn({a}, new)
    BY <1>1 DEF LearnOne
  <1>3. table[a][u] \in WideEntry /\ (u = a => table[a][u].st \in {"alive", "leave"})
    BY TableIsWide DEF TypeInv, TypeOK, NobodyDoubtsItself
  <1>4. /\ u # a => HeardEntry(a, u, table[a][u], e)
        /\ u = a /\ e # table[a][u] => Abstract!Renewed(u, table[a][u], e)
    BY <1>1, <1>3 DEF AfterLeave, HeardEntry, WideEntry, NodeState, Abstract!Renewed
  <1> HIDE DEF e
  <1>5. \A c \in Node, v \in Subject :
           table'[c][v] = IF c = a /\ v = u THEN e ELSE table[c][v]
    BY <1>1, LearnOneEntry
  <1>6. \A c \in Node, v \in Subject :
           \/ table'[c][v] = table[c][v]
           \/ c \in {a} /\ HeardStep(c, v)
           \/ c \in {a} /\ v = c /\ Abstract!Renewed(v, table[c][v], table'[c][v])
    BY <1>4, <1>5 DEF HeardStep
  <1>7. /\ \A c \in Node : Asking(ping'[c]) = Asking(ping[c])
        /\ UNCHANGED <<up, disk, stale>>
    BY <1>2, LearnFrame
  <1> QED  BY <1>1, <1>6, <1>7, LearningMaps

\* The ping of one agent begins or ends.
LEMMA QuestionsChange ==
    ASSUME TypeInv, NEW a \in Node, NEW p, ping' = [ping EXCEPT ![a] = p]
    PROVE  /\ Questions' = [Questions EXCEPT ![a] = Asking(p)]
           /\ Questions[a] = Asking(ping[a])
BY DEF Questions, Asking, TypeInv, TypeOK

LEMMA PingEnds ==
    ASSUME TypeInv, NEW a \in Node, ping' = [ping EXCEPT ![a] = None]
    PROVE  /\ Questions' = [Questions EXCEPT ![a] = {}]
           /\ ping[a] # None => Questions[a] = {[tgt |-> ping[a].tgt, heard |-> ping[a].heard]}
  <1>1. Asking(None) = {}
    BY DEF Asking
  <1>2. ping[a] # None => Asking(ping[a]) = {[tgt |-> ping[a].tgt, heard |-> ping[a].heard]}
    BY DEF Asking
  <1>3. PICK p : p = None
    OBVIOUS
  <1>4. Questions' = [Questions EXCEPT ![a] = Asking(p)] /\ Questions[a] = Asking(ping[a])
    BY <1>3, QuestionsChange
  <1> QED  BY <1>1, <1>2, <1>3, <1>4

\* The ping under way is the question that is asked.
LEMMA QuestionPut ==
    ASSUME TypeInv, NEW a \in Node, NEW u, ping[a] # None, ping[a].tgt = u
    PROVE  \E q \in Questions[a] : q.tgt = u /\ q.heard = ping[a].heard
  <1>1. PICK q : q = [tgt |-> u, heard |-> ping[a].heard]
    OBVIOUS
  <1>2. Questions[a] = Asking(ping[a])
    BY DEF Questions, Asking
  <1>3. q \in Questions[a]
    BY <1>1, <1>2 DEF Asking
  <1>4. q.tgt = u /\ q.heard = ping[a].heard
    BY <1>1
  <1> QED  BY <1>3, <1>4

LEMMA ExpireMaps ==
    ASSUME TypeInv, NEW a \in Node, NEW u \in Subject, Expire(a, u)
    PROVE  Abstract!Expire(a, u)
  <1>1. a \in up /\ a # u
    BY DEF Expire
  <1>2. CASE /\ table[a][u].st = "suspect"
             /\ LearnOne(a, u, [table[a][u] EXCEPT !.st = "dead"])
    <2>1. PICK new : Learn({a}, new)
      BY <1>2 DEF LearnOne
    <2>2. table' = [table EXCEPT ![a][u].st = "dead"]
      <3>1. PICK r : r = [table[a] EXCEPT ![u] = [table[a][u] EXCEPT !.st = "dead"]]
        OBVIOUS
      <3>2. table' = [c \in Node |-> IF c \in {a} THEN [b \in {a} |-> r][c] ELSE table[c]]
        BY <1>2, <3>1 DEF LearnOne, Learn
      <3>3. table' = [table EXCEPT ![a] = r]
        BY <3>2 DEF TypeInv, TypeOK
      <3> QED  BY <3>1, <3>3
    <2>3. \A c \in Node : Asking(ping'[c]) = Asking(ping[c])
      BY <2>1, LearnFrame
    <2>4. UNCHANGED <<up, disk, stale>>
      BY <2>1, LearnFrame
    <2>5. Questions' = Questions
      BY <2>3 DEF Questions, Asking
    <2> QED  BY <1>1, <1>2, <2>2, <2>4, <2>5 DEF Abstract!Expire, Questions
  <1>3. CASE /\ table[a][u].st = "leave"
             /\ table' = [table EXCEPT ![a][u] = Unknown]
             /\ ping' = [ping EXCEPT ![a] = Detached(@, table[a], table'[a])]
             /\ UNCHANGED <<up, broadcasts, pingback, disk, stale, crashes>>
    <2>1. Asking(Detached(ping[a], table[a], table'[a])) = Asking(ping[a])
      BY DetachedAsks DEF TypeInv, TypeOK
    <2>2. \A c \in Node : Asking(ping'[c]) = Asking(ping[c])
      BY <1>3, <2>1 DEF TypeInv, TypeOK
    <2>3. Questions' = Questions
      BY <2>2 DEF Questions, Asking
    <2>4. table' = [table EXCEPT ![a][u] = Abstract!Unknown]
      BY <1>3 DEF Unknown, Abstract!Unknown
    <2> QED  BY <1>1, <1>3, <2>3, <2>4 DEF Abstract!Expire, Questions
  <1> QED  BY <1>2, <1>3 DEF Expire

LEMMA StartPingMaps ==
    ASSUME TypeInv, TypeInv', NEW a \in Node, NEW u \in Subject, StartPing(a, u)
    PROVE  Abstract!Ask(a, u)
  <1>1. /\ a \in up /\ ping[a] = None /\ table[a][u].st # "unknown"
        /\ UNCHANGED <<table, up, disk, stale>>
    BY DEF StartPing, MayPing
  <1>2. PICK heard \in BOOLEAN :
           /\ heard => u \in up
           /\ ping' = [ping EXCEPT ![a] = [tgt |-> u, heard |-> heard,
                                          same |-> TRUE, held |-> Unknown]]
    BY DEF StartPing
  <1>3. PICK p : p = [tgt |-> u, heard |-> heard, same |-> TRUE, held |-> Unknown]
    OBVIOUS
  <1>4. p \in Ping /\ p # None
    <2>1. Unknown \in Entry
      BY UnknownType
    <2>2. p \in Ping
      BY <1>3, <2>1 DEF Ping
    <2> QED  BY <2>2, NoneAssumption
  <1>5. Asking(p) = {[tgt |-> u, heard |-> heard]} /\ Asking(ping[a]) = {}
    BY <1>1, <1>3, <1>4 DEF Asking
  <1>6. /\ Questions' = [Questions EXCEPT ![a] = {[tgt |-> u, heard |-> heard]}]
        /\ Questions[a] = {}
    <2>1. ping' = [ping EXCEPT ![a] = p]
      BY <1>2, <1>3
    <2>2. Questions' = [Questions EXCEPT ![a] = Asking(p)] /\ Questions[a] = Asking(ping[a])
      BY <2>1, QuestionsChange
    <2> QED  BY <1>5, <2>2
  <1>7. a # u
    <2>1. ping'[a] = p
      BY <1>2, <1>3 DEF TypeInv, TypeOK
    <2> QED  BY <1>3, <1>4, <2>1 DEF TypeInv, NoSelfPing
  <1> QED  BY <1>1, <1>2, <1>6, <1>7 DEF Abstract!Ask, Questions

LEMMA PingAnsweredMaps ==
    ASSUME TypeInv, TypeInv', KnownIncarnationsAreReal',
           NEW a \in Node, NEW u \in Subject, PingAnswered(a, u)
    PROVE  Abstract!Answer(a, u)
  <1>1. /\ a \in up /\ ping[a] # None /\ ping[a].tgt = u
        /\ ping[a].heard \/ u \in up
        /\ table' = [table EXCEPT ![a][u] = [Other(a) EXCEPT !.st = "alive"]]
        /\ ping' = [ping EXCEPT ![a] = None]
        /\ UNCHANGED <<up, disk, stale>>
    BY DEF PingAnswered
  <1>2. Other(a) \in Entry
    BY <1>1, OtherType
  <1>3. PICK i \in Incarnation : [Other(a) EXCEPT !.st = "alive"] = Abstract!Alive(i)
    BY <1>2 DEF Entry, Abstract!Alive
  <1>4. table' = [table EXCEPT ![a][u] = Abstract!Alive(i)]
    BY <1>1, <1>3
  <1>5. table'[a][u].inc = i
    BY <1>4 DEF Abstract!Alive, TypeInv, TypeOK, Table
  <1>6. Abstract!Real(u, i)
    BY <1>5, AbstractReal
  <1>7. /\ Questions' = [Questions EXCEPT ![a] = {}]
        /\ \E q \in Questions[a] : q.tgt = u /\ (q.heard \/ u \in up)
    <2>1. Questions' = [Questions EXCEPT ![a] = {}]
      BY <1>1, PingEnds
    <2> QED  BY <1>1, <2>1, QuestionPut
  <1> QED  BY <1>1, <1>4, <1>6, <1>7 DEF Abstract!Answer, Questions

\* A time-out ends the ping, or leaves it waiting for the relays: then it is as if a
\* had heard of a suspicion.
LEMMA PingTimedOutMaps ==
    ASSUME TypeInv, TypeInv', KnownIncarnationsAreReal',
           NEW a \in Node, NEW u \in Subject, PingTimedOut(a, u)
    PROVE  Abstract!Learn \/ Abstract!GiveUp(a, u)
  <1>1. PICK e : e = AfterSuspect(a, u, table[a][u], Other(a).inc)
    OBVIOUS
  <1>2. /\ a \in up /\ ping[a] # None /\ ping[a].tgt = u
        /\ table' = [table EXCEPT ![a][u] = e]
        /\ ping' = [ping EXCEPT ![a] = None] \/ ping' = ping
        /\ UNCHANGED <<up, disk, stale>>
    BY <1>1 DEF PingTimedOut
  <1>3. u # a /\ Other(a) \in Entry /\ table[a][u] \in Entry /\ table \in [Node -> Table]
    BY <1>2, OtherType DEF TypeInv, NoSelfPing, TypeOK, Table
  <1>4. \A c \in Node, v \in Subject :
           table'[c][v] = IF c = a /\ v = u THEN e ELSE table[c][v]
    BY <1>2, <1>3 DEF Table
  <1>5. CASE ping' = ping
    <2>1. \A c \in Node, v \in Subject : HeardStep(c, v)
      BY PingTimedOutEntry
    <2>2. \A c \in Node, v \in Subject :
             \/ table'[c][v] = table[c][v]
             \/ c \in {a} /\ HeardStep(c, v)
      BY <1>4, <2>1
    <2> QED  BY <1>2, <1>5, <2>2, LearningMaps
  <1>6. CASE ping' = [ping EXCEPT ![a] = None]
    <2>1. /\ Questions' = [Questions EXCEPT ![a] = {}]
          /\ \E q \in Questions[a] : q.tgt = u
      <3>1. Questions' = [Questions EXCEPT ![a] = {}]
        BY <1>6, PingEnds
      <3> QED  BY <1>2, <3>1, QuestionPut
    <2>2. CASE e = table[a][u]
      <3>1. table' = table
        BY <1>2, <1>3, <2>2 DEF Table
      <3> QED  BY <1>2, <2>1, <3>1 DEF Abstract!GiveUp, Questions
    <2>3. CASE e # table[a][u]
      <3>1. PICK i : i = Other(a).inc
        OBVIOUS
      <3>2. /\ e = [st |-> "suspect", inc |-> i] /\ i \in Incarnation
            /\ Abstract!Doubted(table[a][u], [st |-> "suspect", inc |-> i])
        <4>1. i \in Nat /\ i \in Incarnation /\ table[a][u].inc \in Nat
          BY <1>3, <3>1, BoundsAssumption DEF Entry, Incarnation
        <4> QED  BY <1>1, <1>3, <2>3, <3>1, <4>1 DEF AfterSuspect, Abstract!Doubted
      <3>3. Abstract!Real(u, i)
        <4>1. table'[a][u].inc = i
          BY <1>4, <3>2
        <4> QED  BY <4>1, AbstractReal
      <3>4. table' = [table EXCEPT ![a][u] = [st |-> "suspect", inc |-> i]]
        BY <1>2, <3>2
      <3> QED  BY <1>2, <2>1, <3>2, <3>3, <3>4 DEF Abstract!GiveUp, Questions
    <2> QED  BY <2>2, <2>3
  <1> QED  BY <1>2, <1>5, <1>6

LEMMA PingFailedMaps ==
    ASSUME TypeInv, NEW a \in Node, NEW u \in Subject, PingFailed(a, u)
    PROVE  Abstract!GiveUp(a, u)
  <1>1. /\ a \in up /\ ping[a] # None /\ ping[a].tgt = u
        /\ ping' = [ping EXCEPT ![a] = None]
        /\ UNCHANGED <<table, up, disk, stale>>
    BY DEF PingFailed
  <1>2. /\ Questions' = [Questions EXCEPT ![a] = {}]
        /\ \E q \in Questions[a] : q.tgt = u
    <2>1. Questions' = [Questions EXCEPT ![a] = {}]
      BY <1>1, PingEnds
    <2> QED  BY <1>1, <2>1, QuestionPut
  <1> QED  BY <1>1, <1>2 DEF Abstract!GiveUp, Questions

-----------------------------------------------------------------------------
\* What the agents find when they start again.
Files == [a \in Node |-> disk[a].nodes]

LEMMA FilesChange ==
    ASSUME TypeInv, NEW a \in Node, NEW i, disk' = [disk EXCEPT ![a] = [inc |-> i, nodes |-> Others(a)]]
    PROVE  Files' = [Files EXCEPT ![a] = Abstract!Others(a)]
BY DEF Files, Others, Abstract!Others, Unknown, Abstract!Unknown, TypeInv, TypeOK

LEMMA SaveMaps ==
    ASSUME TypeInv, NEW a \in Node, Save(a)
    PROVE  Abstract!Save(a)
  <1>1. PICK i : disk' = [disk EXCEPT ![a] = [inc |-> i, nodes |-> Others(a)]]
    BY DEF Save
  <1>2. Files' = [Files EXCEPT ![a] = Abstract!Others(a)]
    BY <1>1, FilesChange
  <1> QED  BY <1>2 DEF Save, Abstract!Save, Files

LEMMA StopMaps ==
    ASSUME TypeInv, NEW a \in Node, Stop(a)
    PROVE  Abstract!Stop(a)
  <1>1. /\ a \in up /\ up' = up \ {a} /\ ping' = [ping EXCEPT ![a] = None]
        /\ UNCHANGED <<table, stale>>
    BY DEF Stop
  <1>2. Files' \in {Files, [Files EXCEPT ![a] = Abstract!Others(a)]}
    <2>1. CASE disk' = disk
      BY <2>1 DEF Files
    <2>2. CASE disk' # disk
      <3>1. PICK i : disk' = [disk EXCEPT ![a] = [inc |-> i, nodes |-> Others(a)]]
        BY <2>2 DEF Stop
      <3> QED  BY <3>1, FilesChange
    <2> QED  BY <2>1, <2>2
  <1>3. Questions' = [Questions EXCEPT ![a] = {}]
    BY <1>1, PingEnds
  <1> QED  BY <1>1, <1>2, <1>3 DEF Abstract!Stop, Files, Questions

LEMMA RestartMaps ==
    ASSUME TypeInv, TypeInv', NEW a \in Node, Restart(a)
    PROVE  Abstract!Restart(a)
  <1>1. /\ a \notin up /\ up' = up \cup {a}
        /\ table' = [table EXCEPT ![a] = Started(a, NextInc(a), disk[a].nodes)]
        /\ stale' = IF disk[a].inc < MyInc(a) THEN stale + 1 ELSE stale
        /\ NextInc(a) <= MaxInc
        /\ UNCHANGED <<ping, disk>>
    BY DEF Restart
  <1>2. /\ disk[a].inc \in Int /\ disk[a].inc >= -1 /\ stale \in Nat /\ stale' \in Nat
    BY BoundsAssumption DEF TypeInv, TypeOK, Disk
  <1>3. NextInc(a) \in Incarnation
    BY <1>1, <1>2, BoundsAssumption DEF NextInc, Incarnation
  <1>4. (stale > 0)' \in {stale > 0, TRUE}
    <2>1. stale' = stale \/ stale' > 0
      BY <1>1, <1>2
    <2>2. CASE stale' = stale
      BY <2>2
    <2>3. CASE stale' > 0
      BY <2>3
    <2> QED  BY <2>1, <2>2, <2>3
  <1>5. ASSUME a \in Subject, ~ (stale' > 0) PROVE NextInc(a) > table[a][a].inc
    <2>1. table[a][a].inc \in Nat
      BY <1>5, IncarnationsAreNat
    <2> QED  BY <1>1, <1>2, <1>5, <2>1 DEF MyInc, NextInc
  <1>6. table' = [table EXCEPT ![a] =
                    [u \in Subject |-> IF u = a THEN Abstract!Alive(NextInc(a))
                                       ELSE Files[a][u]]]
    BY <1>1 DEF Started, Files, Abstract!Alive
  <1> QED  BY <1>1, <1>3, <1>4, <1>5, <1>6 DEF Abstract!Restart, Files

LEMMA InitialMaps == Init => Abstract!Init
BY DEF Init, Started, Empty, Unknown, Abstract!Init, Abstract!Alive, Abstract!Unknown

LEMMA StepMaps ==
    ASSUME TypeInv, TypeInv', KnownIncarnationsAreReal', [Next]_vars
    PROVE  [Abstract!Next]_(Abstract!vars)
  <1>1. ASSUME NEW a \in Node, NEW b \in Node, PushPull(a, b) PROVE Abstract!Next
    BY <1>1, PushPullMaps DEF Abstract!Next
  <1>2. ASSUME NEW a \in Node, NEW b \in Node, NEW m \in broadcasts[b], Gossiped(b, a, m)
        PROVE  Abstract!Next
    BY <1>2, GossipedMaps DEF Abstract!Next
  <1>3. ASSUME NEW a \in Node, ChangeMyself(a) \/ Save(a) \/ Stop(a) \/ Restart(a)
        PROVE  Abstract!Next
    BY <1>3, OwnMaps, SaveMaps, StopMaps, RestartMaps DEF Abstract!Next
  <1>4. ASSUME NEW a \in Node, NEW u \in Subject,
               ForceLeave(a, u) \/ Expire(a, u) \/ StartPing(a, u) \/ PingAnswered(a, u)
                 \/ PingTimedOut(a, u) \/ PingFailed(a, u)
        PROVE  Abstract!Next
    BY <1>4, ForceLeaveMaps, ExpireMaps, StartPingMaps, PingAnsweredMaps, PingTimedOutMaps,
       PingFailedMaps DEF Abstract!Next
  <1>5. ASSUME NEW a \in Node, NEW u \in Subject, HearPing(a, u)
        PROVE  UNCHANGED <<table, up, ping, disk, stale>>
    BY <1>5 DEF HearPing
  <1>6. CASE UNCHANGED <<table, up, ping, disk, stale>>
    BY <1>6 DEF Abstract!vars
  <1> QED  BY <1>1, <1>2, <1>3, <1>4, <1>5, <1>6 DEF Next, vars

(***************************************************************************)
(* The gossip of the code implements Membership, for every set of agents   *)
(* and every bound, restarts from late files included.                     *)
(***************************************************************************)
THEOREM MembershipKept == Spec => KeepsMembership
  <1>1. /\ TypeInv /\ TypeInv' /\ KnownIncarnationsAreReal' /\ [Next]_vars
        => [Abstract!Next]_(Abstract!vars)
    BY StepMaps
  <1> QED  BY <1>1, InitialMaps, TypesAlways, IncarnationSafety, PTL
           DEF Spec, KeepsMembership, Abstract!Spec
=============================================================================
