--------------------------- MODULE KVStoreProofs ---------------------------
(***************************************************************************)
(* Theorems about KVStore: its types, the end of relaying, and the         *)
(* versions that agents store, for any ring, members and threads.          *)
(***************************************************************************)
EXTENDS KVStore, TLAPS, WellFoundedInduction

\* The order of the naturals, as a relation.
LessThan == OpToRel(<, Nat)

LEMMA LessThanIsLess == \A x, y \in Nat : x < y => <<x, y>> \in LessThan
BY Zenon DEF LessThan, OpToRel

LEMMA LessThanWellFounded == IsWellFoundedOn(LessThan, Nat)
BY NatLessThanWellFounded, Zenon DEF LessThan

\* A nonempty set of naturals has a least element.
LEMMA LeastExists ==
    ASSUME NEW S, S \subseteq Nat, S # {}
    PROVE  \E x \in S : \A y \in S : x <= y
<1>1. \E x \in S : \A y \in S : ~ (<<y, x>> \in LessThan)
  BY ONLY WFMin, LessThanWellFounded, S \subseteq Nat, S # {}, ZenonT(30)
<1>2. PICK x \in S : \A y \in S : ~ (<<y, x>> \in LessThan)
  BY <1>1, Zenon
<1>3. \A y \in S : ~ (y < x)
  BY <1>2, LessThanIsLess, S \subseteq Nat
<1>4. \A y \in S : x <= y
  BY <1>3, S \subseteq Nat
<1> QED
  BY <1>4

LEMMA Positions ==
    /\ RingSize \in Nat /\ HKey \in Nat /\ HKey < RingSize
    /\ \A n \in Node : n \in Nat /\ n < RingSize
    /\ KvNode \subseteq Node /\ KvNode # {}
BY RingAssumption

\* A nonempty set of agents has a greatest one, which is its Last.
LEMMA LastIsGreatest ==
    ASSUME NEW S, S \subseteq Node, S # {}
    PROVE  /\ Last(S) \in S
           /\ \A m \in S : m <= Last(S)
<1> USE Positions
<1> DEFINE T == {RingSize - 1 - x : x \in S}
<1>1. T \subseteq Nat /\ T # {}
  <2>1. \A x \in S : RingSize - 1 - x \in Nat
    OBVIOUS
  <2> QED
    BY <2>1
<1>2. PICK y \in T : \A z \in T : y <= z
  BY <1>1, LeastExists
<1>3. PICK x \in S : y = RingSize - 1 - x
  OBVIOUS
<1>4. \A m \in S : m <= x
  <2> SUFFICES ASSUME NEW m \in S PROVE m <= x
    OBVIOUS
  <2>1. RingSize - 1 - m \in T
    OBVIOUS
  <2>2. y <= RingSize - 1 - m
    BY <1>2, <2>1
  <2> QED
    BY <2>2, <1>3
<1> QED
  BY <1>4, Zenon DEF Last

-----------------------------------------------------------------------------
\* How far an agent is behind the key on the ring.
Dist(n) == IF n <= HKey THEN HKey - n ELSE HKey - n + RingSize

LEMMA DistType == \A n \in Node : Dist(n) \in Int
BY Positions DEF Dist

LEMMA DistInjective == \A m, n \in Node : Dist(m) = Dist(n) => m = n
<1> SUFFICES ASSUME NEW m \in Node, NEW n \in Node, Dist(m) = Dist(n) PROVE m = n
  OBVIOUS
<1> QED
  BY Positions DEF Dist

\* The owner that an agent computes is the member it sees nearest behind the key.
LEMMA OwnerIsNearest ==
    ASSUME NEW n \in Node, view[n] \subseteq KvNode, view[n] # {}
    PROVE  /\ Owner(n) \in view[n]
           /\ \A m \in view[n] : Dist(Owner(n)) <= Dist(m)
<1> DEFINE before == {m \in view[n] : m <= HKey}
<1>0. view[n] \subseteq Node /\ before \subseteq Node
  BY Positions
<1>1. CASE before # {}
  <2>1. Owner(n) = Last(before)
    BY <1>1 DEF Owner, KvNodes
  <2>2. Owner(n) \in before /\ \A m \in before : m <= Owner(n)
    BY <2>1, <1>0, <1>1, LastIsGreatest
  <2> QED
    BY <2>2, <1>0, Positions DEF Dist
<1>2. CASE before = {}
  <2>1. Owner(n) = Last(view[n])
    BY <1>2 DEF Owner, KvNodes
  <2>2. Owner(n) \in view[n] /\ \A m \in view[n] : m <= Owner(n)
    BY <2>1, <1>0, LastIsGreatest
  <2>3. \A m \in view[n] : ~ (m <= HKey)
    BY <1>2
  <2> QED
    BY <2>2, <2>3, <1>0, Positions DEF Dist
<1> QED
  BY <1>1, <1>2

LEMMA OwnerType ==
    ASSUME NEW n \in Node, view[n] \subseteq KvNode
    PROVE  Owner(n) \in Node /\ (Owner(n) # n => Owner(n) \in KvNode)
<1>1. CASE view[n] = {}
  BY <1>1 DEF Owner, KvNodes
<1>2. CASE view[n] # {}
  BY <1>2, OwnerIsNearest, RingAssumption
<1> QED
  BY <1>1, <1>2

LEMMA ReplicasType ==
    ASSUME NEW n \in KvNode, view[n] \subseteq KvNode, n \in view[n]
    PROVE  Replicas(n) \subseteq KvNode \ {n}
<1> DEFINE before == {m \in view[n] : m < n}
<1>0. view[n] \subseteq Node /\ before \subseteq Node /\ view[n] # {}
  BY RingAssumption
<1>1. before # {} => Last(before) \in before
  BY <1>0, LastIsGreatest
<1>2. Last(view[n]) \in view[n]
  BY <1>0, LastIsGreatest
<1> QED
  BY <1>1, <1>2 DEF Replicas, KvNodes

-----------------------------------------------------------------------------
(***************************************************************************)
(* Types and relaying, which need each other: a job is typed because a     *)
(* request is, and a request is relayed to a member nearer to the key than *)
(* all that relayed it, because each of them counts itself.                *)
(***************************************************************************)
Approaches(m) ==
    m.op # "force" =>
        /\ m.to \in KvNode
        /\ \A v \in m.via \cap KvNode : Dist(m.to) < Dist(v)

RelayInv == TypeOK /\ \A m \in net : Approaches(m)

\* What a thread may begin with.
Payload(op, value) ==
    \/ op \in {"put", "force", "merge"} /\ value \in Value
    \/ op = "delete" /\ value = None

LEMMA BeginTyped ==
    ASSUME TypeOK, NEW n \in Node, NEW t \in Thread, NEW op, NEW value, NEW index \in Nat,
           Payload(op, value), Begin(n, t, op, value, index)
    PROVE  /\ job' \in [Node -> [Thread -> Job \cup {None}]]
           /\ upsets' \subseteq {"raced", "moved", "deleted"}
<1> DEFINE j == [op |-> op, pc |-> "read", base |-> db[n].index,
                 value |-> value, index |-> index]
<1>1. db[n].index \in Nat
  BY DEF TypeOK
<1>2. j \in Job
  BY <1>1 DEF Payload, Job
<1>3. job' = [job EXCEPT ![n][t] = j]
  BY DEF Begin
<1> HIDE DEF j
<1>4. job' \in [Node -> [Thread -> Job \cup {None}]]
  BY <1>2, <1>3 DEF TypeOK
<1>5. upsets' \subseteq {"raced", "moved", "deleted"}
  BY DEF Begin, TypeOK
<1> QED
  BY <1>4, <1>5

LEMMA ServeTyped ==
    ASSUME TypeOK, NEW n \in Node, NEW t \in Thread, NEW op, NEW kind, NEW value,
           NEW via \in SUBSET Node, NEW others \in SUBSET Request,
           op \in {"put", "delete"}, Payload(op, value),
           kind = op \/ (kind = "fw" /\ op = "put"),
           \A m \in others : Approaches(m),
           n \in KvNode => \A v \in via \cap KvNode : Dist(n) < Dist(v),
           n \notin KvNode => via = {},
           Serve(n, t, op, kind, value, via, others)
    PROVE  /\ job' \in [Node -> [Thread -> Job \cup {None}]]
           /\ upsets' \subseteq {"raced", "moved", "deleted"}
           /\ net' \subseteq Request
           /\ \A m \in net' : Approaches(m)
<1>0. view[n] \subseteq KvNode /\ (n \in KvNode => n \in view[n])
  BY DEF TypeOK, MayView
<1>1. CASE Owner(n) = n
  <2>1. Begin(n, t, op, value, 0) /\ net' = others
    BY <1>1 DEF Serve
  <2> QED
    BY <2>1, BeginTyped
<1>2. CASE Owner(n) # n
  <2> DEFINE m == [op |-> kind, to |-> Owner(n), value |-> value,
                   index |-> 0, via |-> via \cup {n}]
  <2>1. net' = others \cup {m} /\ job' = job /\ upsets' = upsets
    BY <1>2 DEF Serve
  <2>2. Owner(n) \in KvNode /\ Owner(n) \in Node
    BY <1>0, <1>2, OwnerType
  <2>3. m \in Request
    BY <2>2 DEF Payload, Request
  <2>4. \A v \in (via \cup {n}) \cap KvNode : Dist(Owner(n)) < Dist(v)
    <3>1. CASE n \in KvNode
      <4>1. Dist(Owner(n)) <= Dist(n)
        BY <1>0, <3>1, OwnerIsNearest
      <4>2. Dist(Owner(n)) # Dist(n)
        BY <1>2, <2>2, DistInjective
      <4>3. \A v \in Node : Dist(v) \in Int
        BY DistType
      <4> QED
        BY <3>1, <4>1, <4>2, <4>3, <2>2
    <3>2. CASE n \notin KvNode
      BY <3>2
    <3> QED
      BY <3>1, <3>2
  <2>5. Approaches(m)
    BY <2>2, <2>4 DEF Approaches
  <2> HIDE DEF m
  <2> QED
    BY <2>1, <2>3, <2>5 DEF TypeOK
<1> QED
  BY <1>1, <1>2

\* A thread's next step, within its job.
JobStep(n, t) ==
    \/ WriteMeta(n, t) \/ WriteValue(n, t) \/ AddBacklog(n, t) \/ CopyMeta(n, t)
    \/ DeleteValue(n, t) \/ DeleteMeta(n, t) \/ MergeMeta(n, t) \/ MergeValue(n, t)

LEMMA JobStepTyped ==
    ASSUME TypeOK, NEW n \in Node, NEW t \in Thread, JobStep(n, t)
    PROVE  TypeOK' /\ net' = net /\ upsets' = upsets
<1> DEFINE j == job[n][t]
<1>0. job[n] \in [Thread -> Job \cup {None}] /\ job[n][t] \in Job \cup {None}
  BY DEF TypeOK
<1>1. CASE WriteMeta(n, t)
  <2>1. j \in Job /\ j.base \in Nat /\ [j EXCEPT !.pc = "meta"] \in Job
    BY <1>0, <1>1 DEF WriteMeta, Job
  <2>2. job' \in [Node -> [Thread -> Job \cup {None}]]
    BY <1>0, <1>1, <2>1 DEF WriteMeta, TypeOK
  <2>3. db' \in [Node -> [index : Nat, value : Value \cup {None}]]
    BY <1>1, <2>1 DEF WriteMeta, TypeOK
  <2>4. missed' \in [Node -> SUBSET Node]
    BY <1>1 DEF WriteMeta, TypeOK
  <2> QED
    BY <1>1, <2>2, <2>3, <2>4 DEF WriteMeta, TypeOK, MayView
<1>2. CASE WriteValue(n, t)
  <2>1. j \in Job /\ j.value \in Value /\ [j EXCEPT !.pc = "value"] \in Job
    BY <1>0, <1>2 DEF WriteValue, Job
  <2>2. job' \in [Node -> [Thread -> Job \cup {None}]]
    BY <1>0, <1>2, <2>1 DEF WriteValue, TypeOK
  <2>3. db' \in [Node -> [index : Nat, value : Value \cup {None}]]
    BY <1>2, <2>1 DEF WriteValue, TypeOK
  <2>4. made' \subseteq Version
    <3>1. [index |-> db[n].index, value |-> j.value] \in Version
      BY <2>1 DEF TypeOK, Version
    <3> QED
      BY <1>2, <3>1 DEF WriteValue, TypeOK
  <2> QED
    BY <1>2, <2>2, <2>3, <2>4 DEF WriteValue, TypeOK, MayView
<1>3. CASE AddBacklog(n, t)
  <2>1. j \in Job /\ j.value \in Value
    BY <1>0, <1>3 DEF AddBacklog, Job
  <2>2. [index |-> db[n].index, value |-> j.value] \in [index : Nat, value : Value]
    BY <2>1 DEF TypeOK
  <2>3. backlog' \in [Node -> [index : Nat, value : Value] \cup {None}]
    BY <1>3, <2>2 DEF AddBacklog, TypeOK
  <2>4. job' \in [Node -> [Thread -> Job \cup {None}]]
    BY <1>0, <1>3 DEF AddBacklog, TypeOK
  <2> QED
    BY <1>3, <2>3, <2>4 DEF AddBacklog, TypeOK, MayView
<1>4. CASE CopyMeta(n, t)
  <2>1. j \in Job /\ j.index \in Nat
    BY <1>0, <1>4 DEF CopyMeta, Job
  <2>2. job' \in [Node -> [Thread -> Job \cup {None}]]
    BY <1>0, <1>4 DEF CopyMeta, TypeOK
  <2>3. db' \in [Node -> [index : Nat, value : Value \cup {None}]]
    BY <1>4, <2>1 DEF CopyMeta, TypeOK
  <2> QED
    BY <1>4, <2>2, <2>3 DEF CopyMeta, TypeOK, MayView
<1>5. CASE DeleteValue(n, t)
  <2>1. j \in Job /\ [j EXCEPT !.pc = "value"] \in Job
    BY <1>0, <1>5 DEF DeleteValue, Job
  <2>2. job' \in [Node -> [Thread -> Job \cup {None}]]
    BY <1>0, <1>5, <2>1 DEF DeleteValue, TypeOK
  <2>3. db' \in [Node -> [index : Nat, value : Value \cup {None}]]
    BY <1>5 DEF DeleteValue, TypeOK
  <2> QED
    BY <1>5, <2>2, <2>3 DEF DeleteValue, TypeOK, MayView
<1>6. CASE DeleteMeta(n, t)
  <2>2. job' \in [Node -> [Thread -> Job \cup {None}]]
    BY <1>0, <1>6 DEF DeleteMeta, TypeOK
  <2>3. db' \in [Node -> [index : Nat, value : Value \cup {None}]]
    BY <1>6 DEF DeleteMeta, TypeOK
  <2> QED
    BY <1>6, <2>2, <2>3 DEF DeleteMeta, TypeOK, MayView
<1>7. CASE MergeMeta(n, t)
  <2>1. j \in Job /\ j.index \in Nat /\ [j EXCEPT !.pc = "meta"] \in Job
    BY <1>0, <1>7 DEF MergeMeta, Job
  <2>2. job' \in [Node -> [Thread -> Job \cup {None}]]
    BY <1>0, <1>7, <2>1 DEF MergeMeta, TypeOK
  <2>3. db' \in [Node -> [index : Nat, value : Value \cup {None}]]
    BY <1>7, <2>1 DEF MergeMeta, TypeOK
  <2> QED
    BY <1>7, <2>2, <2>3 DEF MergeMeta, TypeOK, MayView
<1>8. CASE MergeValue(n, t)
  <2>1. j \in Job /\ j.value \in Value
    BY <1>0, <1>8 DEF MergeValue, Job
  <2>2. job' \in [Node -> [Thread -> Job \cup {None}]]
    BY <1>0, <1>8 DEF MergeValue, TypeOK
  <2>3. db' \in [Node -> [index : Nat, value : Value \cup {None}]]
    BY <1>8, <2>1 DEF MergeValue, TypeOK
  <2> QED
    BY <1>8, <2>2, <2>3 DEF MergeValue, TypeOK, MayView
<1> QED
  BY <1>1, <1>2, <1>3, <1>4, <1>5, <1>6, <1>7, <1>8 DEF JobStep

LEMMA RelayInit == Init => RelayInv
<1> SUFFICES ASSUME Init PROVE RelayInv
  OBVIOUS
<1>1. \A n \in Node : view[n] \in MayView(n)
  BY DEF Init
<1>2. db \in [Node -> [index : Nat, value : Value \cup {None}]]
  BY DEF Init, Absent
<1>3. TypeOK
  BY <1>1, <1>2, BoundsAssumption, Positions DEF Init, TypeOK
<1> QED
  BY <1>3 DEF Init, RelayInv

LEMMA RelayStep == RelayInv /\ [Next]_vars => RelayInv'
<1> SUFFICES ASSUME RelayInv, [Next]_vars PROVE RelayInv'
  OBVIOUS
<1> USE DEF RelayInv
<1>a. KvNode \subseteq Node /\ \A n \in Node : view[n] \subseteq KvNode /\ (n \in KvNode => n \in view[n])
  BY Positions DEF TypeOK, MayView
<1>1. ASSUME NEW n \in Node, NEW t \in Thread, NEW kind \in {"put", "fw"}, ClientPut(n, t, kind)
      PROVE  RelayInv'
  <2>1. puts + 1 \in Value /\ puts' = puts + 1
    BY <1>1, BoundsAssumption DEF ClientPut, TypeOK, Value
  <2>2. Payload("put", puts + 1)
    BY <2>1 DEF Payload
  <2>3. Serve(n, t, "put", kind, puts + 1, {}, net)
    BY <1>1 DEF ClientPut
  <2>4. net \in SUBSET Request /\ {} \in SUBSET Node
    BY DEF TypeOK
  <2>5. /\ job' \in [Node -> [Thread -> Job \cup {None}]]
        /\ upsets' \subseteq {"raced", "moved", "deleted"}
        /\ net' \subseteq Request
        /\ \A m \in net' : Approaches(m)
    BY <2>2, <2>3, <2>4, ServeTyped
  <2> QED
    BY <1>1, <2>1, <2>5 DEF ClientPut, TypeOK, MayView, Value
<1>2. ASSUME NEW n \in Node, NEW t \in Thread, ClientDelete(n, t) PROVE RelayInv'
  <2>1. puts' \in 0..MaxPuts
    BY <1>2, BoundsAssumption DEF ClientDelete, TypeOK
  <2>2. Payload("delete", None)
    BY DEF Payload
  <2>3. Serve(n, t, "delete", "delete", None, {}, net)
    BY <1>2 DEF ClientDelete
  <2>4. net \in SUBSET Request /\ {} \in SUBSET Node
    BY DEF TypeOK
  <2>5. /\ job' \in [Node -> [Thread -> Job \cup {None}]]
        /\ upsets' \subseteq {"raced", "moved", "deleted"}
        /\ net' \subseteq Request
        /\ \A m \in net' : Approaches(m)
    BY <2>2, <2>3, <2>4, ServeTyped
  <2> QED
    BY <1>2, <2>1, <2>5 DEF ClientDelete, TypeOK, MayView
<1>3. ASSUME NEW m \in net, NEW t \in Thread, ReceiveRelayed(m, t) PROVE RelayInv'
  <2>1. m \in Request /\ m.to \in Node /\ m.via \in SUBSET Node /\ m.op \in {"put", "delete"}
    BY <1>3 DEF ReceiveRelayed, TypeOK, Request
  <2>2. Payload(m.op, m.value)
    BY <2>1 DEF Payload, Request
  <2>3. Serve(m.to, t, m.op, m.op, m.value, m.via, net \ {m})
    BY <1>3 DEF ReceiveRelayed
  <2>4. net \ {m} \in SUBSET Request /\ \A p \in net \ {m} : Approaches(p)
    BY DEF TypeOK
  <2>5. m.to \in KvNode /\ \A v \in m.via \cap KvNode : Dist(m.to) < Dist(v)
    BY <2>1 DEF Approaches
  <2>6. /\ job' \in [Node -> [Thread -> Job \cup {None}]]
        /\ upsets' \subseteq {"raced", "moved", "deleted"}
        /\ net' \subseteq Request
        /\ \A p \in net' : Approaches(p)
    BY <2>1, <2>2, <2>3, <2>4, <2>5, ServeTyped
  <2> QED
    BY <1>3, <2>6 DEF ReceiveRelayed, TypeOK, MayView
<1>4. ASSUME NEW m \in net, NEW t \in Thread, ReceiveForMe(m, t) PROVE RelayInv'
  <2> DEFINE op == IF m.op = "fw" THEN "put" ELSE "force"
  <2>1. m \in Request /\ m.to \in Node /\ m.index \in Nat
    BY DEF TypeOK, Request
  <2>2. Payload(op, m.value)
    BY <1>4, <2>1 DEF Payload, Request, ReceiveForMe
  <2>3. Begin(m.to, t, op, m.value, m.index) /\ net' = net \ {m}
    BY <1>4 DEF ReceiveForMe
  <2>4. /\ job' \in [Node -> [Thread -> Job \cup {None}]]
        /\ upsets' \subseteq {"raced", "moved", "deleted"}
    BY <2>1, <2>2, <2>3, BeginTyped
  <2> QED
    BY <1>4, <2>3, <2>4 DEF ReceiveForMe, TypeOK, MayView
<1>5. ASSUME NEW m \in net, Lose(m) PROVE RelayInv'
  BY <1>5 DEF Lose, TypeOK, MayView
<1>6. ASSUME NEW n \in Node, NEW t \in Thread, JobStep(n, t) PROVE RelayInv'
  BY <1>6, JobStepTyped
<1>7. ASSUME NEW n \in Node, Replicate(n) PROVE RelayInv'
  <2> DEFINE Copy(r) == [op |-> "force", to |-> r, value |-> backlog[n].value,
                         index |-> backlog[n].index, via |-> {}]
  <2>1. n \in KvNode /\ backlog[n] # None
    BY <1>7 DEF Replicate
  <2>2. backlog[n].value \in Value /\ backlog[n].index \in Nat
    BY <2>1 DEF TypeOK
  <2>3. Replicas(n) \subseteq Node
    BY <1>a, <2>1, ReplicasType
  <2>4. \A r \in Replicas(n) : Copy(r) \in Request /\ Approaches(Copy(r))
    BY <2>2, <2>3 DEF Request, Approaches
  <2>5. net' = net \cup {Copy(r) : r \in Replicas(n)}
    BY <1>7 DEF Replicate
  <2> HIDE DEF Copy
  <2>6. net' \subseteq Request /\ \A m \in net' : Approaches(m)
    BY <2>4, <2>5 DEF TypeOK
  <2>7. backlog' \in [Node -> [index : Nat, value : Value] \cup {None}]
    BY <1>7 DEF Replicate, TypeOK
  <2> QED
    BY <1>7, <2>6, <2>7 DEF Replicate, TypeOK, MayView
<1>8. ASSUME NEW n \in Node, NEW t \in Thread, NEW r \in KvNode, NEW changed \in BOOLEAN,
             Sync(n, t, r, changed)
      PROVE  RelayInv'
  <2> DEFINE merges == /\ changed
                       /\ db[r].index # 0 /\ db[r].value # None
                       /\ db[n].index # 0
                       /\ Newer(db[r], db[n])
             j == [op |-> "merge", pc |-> "read", base |-> 0,
                   value |-> db[r].value, index |-> db[r].index]
  <2>1. job' = IF merges THEN [job EXCEPT ![n][t] = j] ELSE job
    BY <1>8 DEF Sync
  <2>2. merges => j \in Job
    BY <1>a DEF TypeOK, Job
  <2> HIDE DEF merges, j
  <2>3. job' \in [Node -> [Thread -> Job \cup {None}]]
    BY <2>1, <2>2 DEF TypeOK
  <2>4. upsets' \subseteq {"raced", "moved", "deleted"}
    BY <1>8 DEF Sync, Upset, TypeOK
  <2>5. tosync' \subseteq KvNode /\ missed' \in [Node -> SUBSET Node]
    BY <1>8 DEF Sync, TypeOK
  <2> QED
    BY <1>8, <2>3, <2>4, <2>5 DEF Sync, TypeOK, MayView
<1>9. ASSUME NEW n \in Node, NEW V \in SUBSET KvNode, ViewChange(n, V) PROVE RelayInv'
  BY <1>9 DEF ViewChange, Upset, TypeOK, MayView
<1>10. ASSUME NEW n \in Node, Crash(n) PROVE RelayInv'
  <2>1. crashes' \in 0..MaxCrashes
    BY <1>10, BoundsAssumption DEF Crash, TypeOK
  <2>2. job' \in [Node -> [Thread -> Job \cup {None}]]
    BY <1>10 DEF Crash, TypeOK
  <2>3. backlog' \in [Node -> [index : Nat, value : Value] \cup {None}]
    BY <1>10 DEF Crash, TypeOK
  <2>4. missed' \in [Node -> SUBSET Node]
    BY <1>10 DEF Crash, TypeOK
  <2> QED
    BY <1>10, <2>1, <2>2, <2>3, <2>4 DEF Crash, Upset, TypeOK, MayView
<1>11. ASSUME NEW n \in Node, Restart(n) PROVE RelayInv'
  BY <1>11 DEF Restart, TypeOK, MayView
<1>12. CASE UNCHANGED vars
  BY <1>12 DEF vars, TypeOK, MayView
<1> QED
  BY <1>1, <1>2, <1>3, <1>4, <1>5, <1>6, <1>7, <1>8, <1>9, <1>10, <1>11, <1>12
     DEF Next, JobStep

THEOREM RelayInvariant == Spec => []RelayInv
<1> QED
  BY RelayInit, RelayStep, PTL DEF Spec

\* The variables of the store always hold what they should: the types that every
\* other theorem about it rests on.
THEOREM TypeCorrect == Spec => []TypeOK
<1>1. RelayInv => TypeOK
  BY DEF RelayInv
<1> QED
  BY <1>1, RelayInvariant, PTL

\* On any ring, with any memberships that change at any moment, a request that
\* put_key or delete_key relays never comes back to an agent that relayed it.
THEOREM RelayingEnds == Spec => []ForwardingEnds
<1>1. RelayInv => ForwardingEnds
  <2> SUFFICES ASSUME RelayInv, NEW m \in net, m.to \in m.via PROVE FALSE
    BY DEF ForwardingEnds
  <2>1. m \in Request /\ m.to \in Node
    BY DEF RelayInv, TypeOK, Request
  <2>2. m.op # "force"
    BY <2>1 DEF Request
  <2>3. Dist(m.to) < Dist(m.to)
    BY <2>2 DEF RelayInv, Approaches
  <2> QED
    BY <2>1, <2>3, DistType
<1> QED
  BY <1>1, RelayInvariant, PTL

-----------------------------------------------------------------------------
(***************************************************************************)
(* Versions.  As long as no two threads of an agent met at the key, each   *)
(* step of the one at work leaves what its next step needs.                *)
(***************************************************************************)
Ver(i, v) == [index |-> i, value |-> v]

JobReal(n, t) ==
    LET j == job[n][t] IN
    j # None =>
        /\ \A u \in Thread : job[n][u] # None => u = t
        /\ j.op = "put" /\ j.pc = "value" => db[n] \in made /\ db[n].value = j.value
        /\ j.op = "force" => /\ Ver(j.index, j.value) \in made
                             /\ j.pc = "value" => db[n].value = j.value
        /\ j.op = "delete" /\ j.pc = "value" => db[n].value = None
        /\ j.op = "merge" => /\ Ver(j.index, j.value) \in made
                             /\ j.pc = "meta" => db[n].index = j.index

RealParts ==
    /\ \A n \in Node : ~ Busy(n) => db[n] \in made \cup {Absent}
    /\ \A n \in Node, t \in Thread : JobReal(n, t)
    /\ \A n \in Node : backlog[n] \in made \cup {None}
    /\ \A m \in net : m.op = "force" => Ver(m.index, m.value) \in made

RealInv == "raced" \notin upsets => RealParts

LEMMA VersionEq ==
    \A d \in [index : Nat, value : Value \cup {None}] : d = Ver(d.index, d.value)
BY DEF Ver

\* A job step of n leaves the other agents alone, and ends the job or goes on with it.
LEMMA JobStepReal ==
    ASSUME TypeOK, RealParts, NEW n \in Node, NEW t \in Thread, JobStep(n, t)
    PROVE  RealParts'
<1> DEFINE j == job[n][t]
<1>0. /\ j \in Job /\ j # None
      /\ \A u \in Thread : u # t => job[n][u] = None
      /\ db[n] \in [index : Nat, value : Value \cup {None}]
      /\ JobReal(n, t) /\ Busy(n)
  BY DEF TypeOK, JobStep, WriteMeta, WriteValue, AddBacklog, CopyMeta, DeleteValue, DeleteMeta,
         MergeMeta, MergeValue, RealParts, JobReal, Busy
<1>1. /\ \A p \in Node \ {n} : job'[p] = job[p] /\ db'[p] = db[p] /\ backlog'[p] = backlog[p]
      /\ \A u \in Thread \ {t} : job'[n][u] = job[n][u]
      /\ made \subseteq made' /\ net' = net
  BY <1>0 DEF TypeOK, JobStep, WriteMeta, WriteValue, AddBacklog, CopyMeta, DeleteValue, DeleteMeta,
         MergeMeta, MergeValue
<1>2. \A p \in Node \ {n} : Busy(p)' <=> Busy(p)
  BY <1>1 DEF Busy
<1>3. Busy(n)' <=> job'[n][t] # None
  BY <1>0, <1>1 DEF Busy
<1>4. ASSUME NEW p \in Node \ {n}
      PROVE  /\ ~ Busy(p)' => db'[p] \in made' \cup {Absent}
             /\ \A u \in Thread : JobReal(p, u)'
             /\ backlog'[p] \in made' \cup {None}
  <2>1. ~ Busy(p)' => db'[p] \in made' \cup {Absent}
    BY <1>1, <1>2, <1>4 DEF RealParts
  <2>2. \A u \in Thread : JobReal(p, u)'
    BY <1>1, <1>4 DEF RealParts, JobReal
  <2>3. backlog'[p] \in made' \cup {None}
    BY <1>1, <1>4 DEF RealParts
  <2> QED
    BY <2>1, <2>2, <2>3
<1>5. \A u \in Thread : u # t => JobReal(n, u)'
  BY <1>0, <1>1 DEF JobReal
<1>6. \A m \in net' : m.op = "force" => Ver(m.index, m.value) \in made'
  BY <1>1 DEF RealParts
<1>7. /\ ~ Busy(n)' => db'[n] \in made' \cup {Absent}
      /\ JobReal(n, t)'
      /\ backlog'[n] \in made' \cup {None}
  <2>1. CASE WriteMeta(n, t)
    <3>0. job'[n][t] = [j EXCEPT !.pc = "meta"] /\ backlog' = backlog
      BY <1>0, <2>1 DEF WriteMeta, TypeOK
    <3>1. /\ job'[n][t] # None /\ job'[n][t].pc = "meta" /\ job'[n][t].op = j.op
          /\ job'[n][t].value = j.value /\ job'[n][t].index = j.index
          /\ backlog' = backlog
      BY <1>0, <2>1, <3>0, NoneAssumption DEF WriteMeta, Job
    <3>8. JobReal(n, t)'
      BY <1>0, <1>1, <2>1, <3>1 DEF WriteMeta, JobReal
    <3>9. ~ Busy(n)' => db'[n] \in made' \cup {Absent}
      BY <1>3, <3>1
    <3> QED
      BY <1>1, <3>1, <3>8, <3>9 DEF RealParts
  <2>2. CASE WriteValue(n, t)
    <3>0. job'[n][t] = [j EXCEPT !.pc = "value"] /\ backlog' = backlog
      BY <1>0, <2>2 DEF WriteValue, TypeOK
    <3>1. /\ job'[n][t] # None /\ job'[n][t].pc = "value" /\ job'[n][t].op = j.op
          /\ job'[n][t].value = j.value /\ job'[n][t].index = j.index
          /\ backlog' = backlog
      BY <1>0, <2>2, <3>0, NoneAssumption DEF WriteValue, Job
    <3>2. db'[n] = Ver(db[n].index, j.value)
      BY <1>0, <2>2 DEF WriteValue, TypeOK, Ver
    <3>3. j.op = "put" => db'[n] \in made'
      BY <2>2, <3>2 DEF WriteValue, Ver
    <3>4. db'[n].value = j.value
      BY <3>2 DEF Ver
    <3>8. JobReal(n, t)'
      BY <1>0, <1>1, <2>2, <3>1, <3>3, <3>4 DEF WriteValue, JobReal
    <3>9. ~ Busy(n)' => db'[n] \in made' \cup {Absent}
      BY <1>3, <3>1
    <3> QED
      BY <1>1, <3>1, <3>8, <3>9 DEF RealParts
  <2>3. CASE AddBacklog(n, t)
    <3>1. job'[n][t] = None /\ db' = db
      BY <1>0, <2>3 DEF AddBacklog, TypeOK
    <3>2. db[n] \in made /\ db[n].value = j.value
      BY <1>0, <2>3 DEF AddBacklog, JobReal
    <3>3. backlog'[n] = Ver(db[n].index, db[n].value)
      BY <2>3, <3>2 DEF AddBacklog, TypeOK, Ver
    <3>4. backlog'[n] \in made
      BY <3>3, <3>2, <1>0, VersionEq
    <3> QED
      BY <1>0, <1>1, <1>3, <3>1, <3>2, <3>4 DEF JobReal
  <2>4. CASE CopyMeta(n, t)
    <3>1. job'[n][t] = None /\ backlog' = backlog
      BY <1>0, <2>4 DEF CopyMeta, TypeOK
    <3>2. db'[n] = Ver(j.index, db[n].value) /\ db[n].value = j.value
      BY <1>0, <2>4 DEF CopyMeta, TypeOK, JobReal, Ver
    <3>3. db'[n] \in made
      BY <1>0, <2>4, <3>2 DEF CopyMeta, JobReal
    <3> QED
      BY <1>0, <1>1, <1>3, <3>1, <3>3 DEF JobReal, RealParts
  <2>5. CASE DeleteValue(n, t)
    <3>0. job'[n][t] = [j EXCEPT !.pc = "value"] /\ backlog' = backlog
      BY <1>0, <2>5 DEF DeleteValue, TypeOK
    <3>1. /\ job'[n][t] # None /\ job'[n][t].pc = "value" /\ job'[n][t].op = j.op
          /\ job'[n][t].value = j.value /\ job'[n][t].index = j.index
          /\ backlog' = backlog
      BY <1>0, <2>5, <3>0, NoneAssumption DEF DeleteValue, Job
    <3>2. db'[n].value = None
      BY <1>0, <2>5 DEF DeleteValue, TypeOK
    <3>8. JobReal(n, t)'
      BY <1>0, <1>1, <2>5, <3>1, <3>2 DEF DeleteValue, JobReal
    <3>9. ~ Busy(n)' => db'[n] \in made' \cup {Absent}
      BY <1>3, <3>1
    <3> QED
      BY <1>1, <3>1, <3>8, <3>9 DEF RealParts
  <2>6. CASE DeleteMeta(n, t)
    <3>1. job'[n][t] = None /\ backlog' = backlog
      BY <1>0, <2>6 DEF DeleteMeta, TypeOK
    <3>2. db'[n] = Absent
      BY <1>0, <2>6 DEF DeleteMeta, TypeOK, JobReal, Absent
    <3> QED
      BY <1>0, <1>1, <1>3, <3>1, <3>2 DEF JobReal, RealParts
  <2>7. CASE MergeMeta(n, t)
    <3>0. job'[n][t] = [j EXCEPT !.pc = "meta"] /\ backlog' = backlog
      BY <1>0, <2>7 DEF MergeMeta, TypeOK
    <3>1. /\ job'[n][t] # None /\ job'[n][t].pc = "meta" /\ job'[n][t].op = j.op
          /\ job'[n][t].value = j.value /\ job'[n][t].index = j.index
          /\ backlog' = backlog
      BY <1>0, <2>7, <3>0, NoneAssumption DEF MergeMeta, Job
    <3>2. db'[n].index = j.index
      BY <1>0, <2>7 DEF MergeMeta, TypeOK
    <3>8. JobReal(n, t)'
      BY <1>0, <1>1, <2>7, <3>1, <3>2 DEF MergeMeta, JobReal
    <3>9. ~ Busy(n)' => db'[n] \in made' \cup {Absent}
      BY <1>3, <3>1
    <3> QED
      BY <1>1, <3>1, <3>8, <3>9 DEF RealParts
  <2>8. CASE MergeValue(n, t)
    <3>1. job'[n][t] = None /\ backlog' = backlog
      BY <1>0, <2>8 DEF MergeValue, TypeOK
    <3>2. db'[n] = Ver(db[n].index, j.value) /\ db[n].index = j.index
      BY <1>0, <2>8 DEF MergeValue, TypeOK, JobReal, Ver
    <3>3. db'[n] \in made
      BY <1>0, <2>8, <3>2 DEF MergeValue, JobReal
    <3> QED
      BY <1>0, <1>1, <1>3, <3>1, <3>3 DEF JobReal, RealParts
  <2> QED
    BY <2>1, <2>2, <2>3, <2>4, <2>5, <2>6, <2>7, <2>8 DEF JobStep
<1> QED
  BY <1>4, <1>5, <1>6, <1>7 DEF RealParts

\* What a job needs of the versions made when it begins.
Backed(op, value, index) == op \in {"force", "merge"} => Ver(index, value) \in made

\* A job that begins on an agent where no thread was at work.
LEMMA BeginReal ==
    ASSUME TypeOK, RealParts, NEW n \in Node, NEW t \in Thread,
           NEW op, NEW value, NEW index \in Nat,
           Payload(op, value), Backed(op, value, index), ~ Busy(n),
           job' = [job EXCEPT ![n][t] = [op |-> op, pc |-> "read", base |-> db[n].index,
                                         value |-> value, index |-> index]],
           db' = db, made' = made
    PROVE  /\ \A p \in Node : ~ Busy(p)' => db'[p] \in made' \cup {Absent}
           /\ \A p \in Node, u \in Thread : JobReal(p, u)'
<1> DEFINE j == [op |-> op, pc |-> "read", base |-> db[n].index,
                 value |-> value, index |-> index]
<1>1. /\ job'[n][t] = j
      /\ \A u \in Thread \ {t} : job'[n][u] = None
      /\ \A p \in Node \ {n} : job'[p] = job[p]
  BY DEF TypeOK, Busy
<1>2. j \in Job /\ j # None
  BY NoneAssumption DEF Payload, Job, TypeOK
<1>3. Busy(n)' /\ \A p \in Node \ {n} : Busy(p)' <=> Busy(p)
  BY <1>1, <1>2 DEF Busy
<1>4. \A p \in Node : ~ Busy(p)' => db'[p] \in made' \cup {Absent}
  BY <1>3 DEF RealParts
<1>5. \A p \in Node \ {n}, u \in Thread : JobReal(p, u)'
  BY <1>1 DEF RealParts, JobReal
<1>6. \A u \in Thread : JobReal(n, u)'
  BY <1>1, <1>2 DEF JobReal, Backed
<1> QED
  BY <1>4, <1>5, <1>6

LEMMA ServeReal ==
    ASSUME TypeOK, RealInv, NEW n \in Node, NEW t \in Thread, NEW op \in {"put", "delete"},
           NEW kind \in {"put", "delete", "fw"}, NEW value, NEW via, NEW others \in SUBSET net,
           Payload(op, value), Serve(n, t, op, kind, value, via, others),
           db' = db, made' = made, backlog' = backlog
    PROVE  RealInv'
<1> SUFFICES ASSUME "raced" \notin upsets' PROVE RealParts'
  BY DEF RealInv
<1>1. CASE Owner(n) = n
  <2>1. Begin(n, t, op, value, 0) /\ net' = others
    BY <1>1 DEF Serve
  <2>2. "raced" \notin upsets /\ ~ Busy(n)
    BY <2>1 DEF Begin
  <2>3. Backed(op, value, 0) /\ RealParts
    BY <2>2 DEF Backed, RealInv
  <2>4. /\ \A p \in Node : ~ Busy(p)' => db'[p] \in made' \cup {Absent}
        /\ \A p \in Node, u \in Thread : JobReal(p, u)'
    BY <2>1, <2>2, <2>3, BeginReal DEF Begin
  <2> QED
    BY <2>1, <2>3, <2>4 DEF RealParts
<1>2. CASE Owner(n) # n
  <2>1. /\ net' = others \cup {[op |-> kind, to |-> Owner(n), value |-> value,
                                index |-> 0, via |-> via \cup {n}]}
        /\ job' = job /\ upsets' = upsets
    BY <1>2 DEF Serve
  <2>2. RealParts
    BY <2>1 DEF RealInv
  <2>3. \A m \in net' : m.op = "force" => Ver(m.index, m.value) \in made'
    BY <2>1, <2>2 DEF RealParts
  <2> QED
    BY <2>1, <2>2, <2>3 DEF RealParts, JobReal, Busy
<1> QED
  BY <1>1, <1>2

LEMMA RealInit == Init => RealInv
BY DEF Init, RealInv, RealParts, JobReal

LEMMA RealStep == RelayInv /\ RealInv /\ [Next]_vars => RealInv'
<1> SUFFICES ASSUME TypeOK, RealInv, [Next]_vars PROVE RealInv'
  BY DEF RelayInv
<1>a. KvNode \subseteq Node
  BY Positions
<1>1. ASSUME NEW n \in Node, NEW t \in Thread, NEW kind \in {"put", "fw"}, ClientPut(n, t, kind)
      PROVE  RealInv'
  <2>1. Payload("put", puts + 1)
    BY <1>1, BoundsAssumption DEF ClientPut, TypeOK, Value, Payload
  <2>2. Serve(n, t, "put", kind, puts + 1, {}, net)
        /\ db' = db /\ made' = made /\ backlog' = backlog
    BY <1>1 DEF ClientPut
  <2> QED
    BY <2>1, <2>2, ServeReal
<1>2. ASSUME NEW n \in Node, NEW t \in Thread, ClientDelete(n, t) PROVE RealInv'
  <2>1. Payload("delete", None)
    BY DEF Payload
  <2>2. Serve(n, t, "delete", "delete", None, {}, net)
        /\ db' = db /\ made' = made /\ backlog' = backlog
    BY <1>2 DEF ClientDelete
  <2> QED
    BY <2>1, <2>2, ServeReal
<1>3. ASSUME NEW m \in net, NEW t \in Thread, ReceiveRelayed(m, t) PROVE RealInv'
  <2>1. m.to \in Node /\ m.op \in {"put", "delete"} /\ Payload(m.op, m.value)
    BY <1>3 DEF ReceiveRelayed, TypeOK, Request, Payload
  <2>2. Serve(m.to, t, m.op, m.op, m.value, m.via, net \ {m})
        /\ db' = db /\ made' = made /\ backlog' = backlog
    BY <1>3 DEF ReceiveRelayed
  <2> QED
    BY <2>1, <2>2, ServeReal
<1>4. ASSUME NEW m \in net, NEW t \in Thread, ReceiveForMe(m, t) PROVE RealInv'
  <2> SUFFICES ASSUME "raced" \notin upsets' PROVE RealParts'
    BY DEF RealInv
  <2> DEFINE op == IF m.op = "fw" THEN "put" ELSE "force"
  <2>1. m \in Request /\ m.to \in Node /\ m.index \in Nat
    BY DEF TypeOK, Request
  <2>2. Payload(op, m.value)
    BY <1>4, <2>1 DEF Payload, Request, ReceiveForMe
  <2>3. /\ Begin(m.to, t, op, m.value, m.index) /\ net' = net \ {m}
        /\ db' = db /\ made' = made /\ backlog' = backlog
    BY <1>4 DEF ReceiveForMe
  <2>4. "raced" \notin upsets /\ ~ Busy(m.to) /\ RealParts
    BY <2>3 DEF Begin, RealInv
  <2>5. Backed(op, m.value, m.index)
    BY <1>4, <2>4 DEF Backed, RealParts, ReceiveForMe
  <2>6. /\ \A p \in Node : ~ Busy(p)' => db'[p] \in made' \cup {Absent}
        /\ \A p \in Node, u \in Thread : JobReal(p, u)'
    BY <2>1, <2>2, <2>3, <2>4, <2>5, BeginReal DEF Begin
  <2> QED
    BY <2>3, <2>4, <2>6 DEF RealParts
<1>5. ASSUME NEW m \in net, Lose(m) PROVE RealInv'
  BY <1>5 DEF Lose, RealInv, RealParts, JobReal, Busy
<1>6. ASSUME NEW n \in Node, NEW t \in Thread, JobStep(n, t) PROVE RealInv'
  BY <1>6, JobStepTyped, JobStepReal DEF RealInv
<1>7. ASSUME NEW n \in Node, Replicate(n) PROVE RealInv'
  <2> SUFFICES ASSUME "raced" \notin upsets PROVE RealParts'
    BY <1>7 DEF RealInv, Replicate
  <2>1. RealParts
    BY DEF RealInv
  <2>2. backlog[n] \in made /\ backlog[n] = Ver(backlog[n].index, backlog[n].value)
    BY <1>7, <2>1 DEF Replicate, RealParts, TypeOK, Ver
  <2>3. \A m \in net' : m.op = "force" => Ver(m.index, m.value) \in made
    BY <1>7, <2>1, <2>2 DEF Replicate, RealParts
  <2>4. \A p \in Node : backlog'[p] \in made \cup {None}
    BY <1>7, <2>1 DEF Replicate, RealParts, TypeOK
  <2> QED
    BY <1>7, <2>1, <2>3, <2>4 DEF Replicate, RealParts, JobReal, Busy
<1>8. ASSUME NEW n \in Node, NEW t \in Thread, NEW r \in KvNode, NEW changed \in BOOLEAN,
             Sync(n, t, r, changed)
      PROVE  RealInv'
  <2> SUFFICES ASSUME "raced" \notin upsets' PROVE RealParts'
    BY DEF RealInv
  <2> DEFINE j == [op |-> "merge", pc |-> "read", base |-> 0,
                   value |-> db[r].value, index |-> db[r].index]
  <2>1. "raced" \notin upsets /\ ~ Busy(n) /\ ~ Busy(r) /\ RealParts
    BY <1>8 DEF Sync, Upset, RealInv
  <2>2. db' = db /\ made' = made /\ backlog' = backlog /\ net' = net
    BY <1>8 DEF Sync
  <2>3. CASE job' = job
    BY <2>1, <2>2, <2>3 DEF RealParts, JobReal, Busy
  <2>4. CASE job' # job
    <3>1. /\ job' = [job EXCEPT ![n][t] = j]
          /\ db[r].index # 0 /\ db[r].value # None
      BY <1>8, <2>4 DEF Sync
    <3>2. db[r] \in made /\ db[r] = Ver(db[r].index, db[r].value)
      BY <1>a, <2>1, <3>1, VersionEq DEF RealParts, Absent, TypeOK
    <3>3. /\ job'[n][t] = j
          /\ \A u \in Thread \ {t} : job'[n][u] = None
          /\ \A p \in Node \ {n} : job'[p] = job[p]
      BY <2>1, <3>1 DEF TypeOK, Busy
    <3>4. j \in Job /\ j # None
      BY <1>a, <3>1, NoneAssumption DEF Job, TypeOK
    <3>5. Busy(n)' /\ \A p \in Node \ {n} : Busy(p)' <=> Busy(p)
      BY <3>3, <3>4 DEF Busy
    <3>6. \A p \in Node : ~ Busy(p)' => db'[p] \in made' \cup {Absent}
      BY <2>1, <2>2, <3>5 DEF RealParts
    <3>7. \A p \in Node \ {n}, u \in Thread : JobReal(p, u)'
      BY <2>1, <2>2, <3>3 DEF RealParts, JobReal
    <3>8. \A u \in Thread : JobReal(n, u)'
      BY <2>2, <3>2, <3>3, <3>4 DEF JobReal
    <3> QED
      BY <2>1, <2>2, <3>6, <3>7, <3>8 DEF RealParts
  <2> QED
    BY <2>3, <2>4
<1>9. ASSUME NEW n \in Node, NEW V \in SUBSET KvNode, ViewChange(n, V) PROVE RealInv'
  BY <1>9 DEF ViewChange, Upset, RealInv, RealParts, JobReal, Busy
<1>10. ASSUME NEW n \in Node, Crash(n) PROVE RealInv'
  <2> SUFFICES ASSUME "raced" \notin upsets' PROVE RealParts'
    BY DEF RealInv
  <2>1. "raced" \notin upsets /\ ~ Busy(n) /\ RealParts
    BY <1>10 DEF Crash, Upset, RealInv
  <2>2. \A u \in Thread : job[n][u] = None
    BY <2>1 DEF Busy
  <2>3. \A p \in Node, u \in Thread : job'[p][u] = job[p][u]
    BY <1>10, <2>2 DEF Crash, TypeOK
  <2>4. \A p \in Node : backlog'[p] \in {backlog[p], None}
    BY <1>10 DEF Crash, TypeOK
  <2>5. net' \subseteq net /\ db' = db /\ made' = made
    BY <1>10 DEF Crash
  <2>6. \A p \in Node : Busy(p)' <=> Busy(p)
    BY <2>3 DEF Busy
  <2>7. \A p \in Node, u \in Thread : JobReal(p, u)'
    BY <2>1, <2>3, <2>5 DEF RealParts, JobReal
  <2> QED
    BY <2>1, <2>4, <2>5, <2>6, <2>7 DEF RealParts
<1>11. ASSUME NEW n \in Node, Restart(n) PROVE RealInv'
  BY <1>11 DEF Restart, RealInv, RealParts, JobReal, Busy
<1>12. CASE UNCHANGED vars
  BY <1>12 DEF vars, RealInv, RealParts, JobReal, Busy
<1> QED
  BY <1>1, <1>2, <1>3, <1>4, <1>5, <1>6, <1>7, <1>8, <1>9, <1>10, <1>11, <1>12
     DEF Next, JobStep

THEOREM RealInvariant == Spec => [](RelayInv /\ RealInv)
<1> QED
  BY RelayInit, RealInit, RelayStep, RealStep, PTL DEF Spec

\* For any agents, threads and number of puts: until two threads of an agent meet at
\* the key or one is stopped half way, every version that an agent stores, owes to its
\* replicas or sends them is one that a put for a client made.
THEOREM VersionsAreReal == Spec => []StoredVersionsAreReal
<1>1. RealInv => StoredVersionsAreReal
  BY DEF RealInv, RealParts, StoredVersionsAreReal, Ver
<1> QED
  BY <1>1, RealInvariant, PTL

-----------------------------------------------------------------------------
(***************************************************************************)
(* One membership, no deletion, no meeting of threads: one agent makes all *)
(* versions, each above the ones before, and the others copy them.         *)
(***************************************************************************)
JobCalm(n, t) ==
    LET j == job[n][t] IN
    j # None =>
        /\ j.op \in {"put", "force", "merge"}
        /\ j.op = "put" <=> n = Owner(n)
        /\ j.op = "put" /\ j.pc = "read" => j.base = db[n].index
        /\ j.op = "put" /\ j.pc = "meta" => \A v \in made : v.index < db[n].index

RequestCalm(m) ==
    /\ m.op \in {"put", "fw"} => m.to = Owner(m.to)
    /\ m.op = "force" => m.to # Owner(m.to)

CalmParts ==
    /\ \A a, b \in Node : view[a] = view[b]
    /\ \A n \in Node, t \in Thread : JobCalm(n, t)
    /\ \A m \in net : RequestCalm(m)
    /\ \A n \in Node : backlog[n] # None => n = Owner(n)
    /\ \A n \in Node, v \in made : n = Owner(n) => v.index <= db[n].index
    /\ \A v, w \in made : v.index = w.index => v = w

CalmInv == upsets = {} => CalmParts

\* While all have the same view, all see the same owner, who sees itself as such.
LEMMA SameOwner ==
    ASSUME TypeOK, CalmParts
    PROVE  /\ \A a, b \in Node : Owner(a) = Owner(b)
           /\ \A a \in Node : Owner(a) \in KvNode /\ Owner(a) \in Node
                              /\ Owner(Owner(a)) = Owner(a)
<1>0. KvNode \subseteq Node /\ KvNode # {}
  BY Positions
<1>1. \A a \in Node : view[a] # {} /\ view[a] \subseteq KvNode
  BY <1>0 DEF CalmParts, TypeOK, MayView
<1>2. \A a, b \in Node : Owner(a) = Owner(b)
  BY <1>1 DEF CalmParts, Owner, KvNodes
<1>3. \A a \in Node : Owner(a) \in KvNode
  BY <1>1, OwnerIsNearest
<1> QED
  BY <1>0, <1>2, <1>3

LEMMA OwnerUnchanged == view' = view => \A n \in Node : Owner(n)' = Owner(n)
BY DEF Owner, KvNodes

LEMMA CalmInit == Init => CalmInv
BY DEF Init, CalmInv, CalmParts, JobCalm

LEMMA JobStepCalm ==
    ASSUME RelayInv, CalmParts, NEW n \in Node, NEW t \in Thread, JobStep(n, t),
           \A u \in Thread : job[n][u] # None => u = t
    PROVE  CalmParts'
<1> DEFINE j == job[n][t]
<1>0. /\ TypeOK /\ view' = view /\ net' = net
      /\ j \in Job /\ j # None
      /\ \A u \in Thread : u # t => job[n][u] = None
      /\ JobCalm(n, t)
  BY DEF RelayInv, TypeOK, JobStep, WriteMeta, WriteValue, AddBacklog, CopyMeta, DeleteValue,
         DeleteMeta, MergeMeta, MergeValue, CalmParts
<1>1. /\ \A p \in Node \ {n} : job'[p] = job[p] /\ db'[p] = db[p] /\ backlog'[p] = backlog[p]
      /\ \A u \in Thread \ {t} : job'[n][u] = job[n][u]
  BY <1>0 DEF TypeOK, JobStep, WriteMeta, WriteValue, AddBacklog, CopyMeta, DeleteValue, DeleteMeta,
         MergeMeta, MergeValue
<1>2. \A p \in Node : Owner(p)' = Owner(p)
  BY <1>0, OwnerUnchanged
<1>3. /\ \A a, b \in Node : view'[a] = view'[b]
      /\ \A m \in net' : RequestCalm(m)'
  <2>1. \A m \in net : m.to \in Node
    BY <1>0 DEF TypeOK, Request
  <2> QED
    BY <1>0, <1>2, <2>1 DEF CalmParts, RequestCalm
<1>4. \A u \in Thread : u # t => JobCalm(n, u)'
  BY <1>0, <1>1 DEF JobCalm
<1>5. CASE n # Owner(n)
  <2>1. j.op # "put" /\ j.op \in {"force", "merge"}
    BY <1>0, <1>5 DEF JobCalm
  <2>2. made' = made /\ backlog' = backlog
        /\ (job'[n][t] # None => job'[n][t].op = j.op)
    <3>1. [j EXCEPT !.pc = "meta"].op = j.op /\ [j EXCEPT !.pc = "value"].op = j.op
      BY <1>0 DEF Job
    <3>2. job'[n][t] \in {None, [j EXCEPT !.pc = "meta"], [j EXCEPT !.pc = "value"]}
      BY <1>0 DEF JobStep, WriteMeta, WriteValue, AddBacklog, CopyMeta, DeleteValue, DeleteMeta,
         MergeMeta, MergeValue, TypeOK
    <3>3. made' = made /\ backlog' = backlog
      BY <1>0, <2>1 DEF JobStep, WriteMeta, WriteValue, AddBacklog, CopyMeta, DeleteValue,
         DeleteMeta, MergeMeta, MergeValue
    <3> HIDE DEF j
    <3> QED
      BY <3>1, <3>2, <3>3
  <2>3. JobCalm(n, t)'
    BY <1>2, <1>5, <2>1, <2>2 DEF JobCalm
  <2>4. \A p \in Node \ {n}, u \in Thread : JobCalm(p, u)'
    BY <1>1, <1>2, <2>2 DEF CalmParts, JobCalm
  <2>5. \A p \in Node, v \in made' : p = Owner(p)' => v.index <= db'[p].index
    BY <1>1, <1>2, <1>5, <2>2 DEF CalmParts
  <2> QED
    BY <1>2, <1>3, <1>4, <2>2, <2>3, <2>4, <2>5 DEF CalmParts
<1>6. CASE n = Owner(n)
  <2>0. j.op = "put" /\ \A p \in Node : p = Owner(p) => p = n
    BY <1>0, <1>6, SameOwner DEF JobCalm
  <2>1. \A p \in Node \ {n}, u \in Thread : JobCalm(p, u)'
    BY <1>1, <1>2, <2>0 DEF CalmParts, JobCalm
  <2>2. CASE WriteMeta(n, t)
    <3>1. /\ job'[n][t] # None /\ job'[n][t].op = "put" /\ job'[n][t].pc = "meta"
          /\ db'[n].index = db[n].index + 1 /\ made' = made /\ backlog' = backlog
      <4>1. job'[n][t] = [j EXCEPT !.pc = "meta"] /\ db'[n].index = j.base + 1
            /\ made' = made /\ backlog' = backlog /\ j.pc = "read"
        BY <1>0, <2>2 DEF WriteMeta, TypeOK
      <4>2. [j EXCEPT !.pc = "meta"] \in Job /\ [j EXCEPT !.pc = "meta"].op = "put"
            /\ [j EXCEPT !.pc = "meta"].pc = "meta"
        BY <1>0, <2>0 DEF Job
      <4>3. j.base = db[n].index
        BY <1>0, <2>0, <4>1 DEF JobCalm
      <4> HIDE DEF j
      <4> QED
        BY <4>1, <4>2, <4>3, NoneAssumption
    <3>2. \A v \in made : v.index \in Nat /\ v.index <= db[n].index /\ db[n].index \in Nat
      BY <1>0, <1>6 DEF CalmParts, TypeOK, Version
    <3>3. JobCalm(n, t)'
      BY <1>2, <1>6, <3>1, <3>2 DEF JobCalm
    <3>4. \A p \in Node, v \in made' : p = Owner(p)' => v.index <= db'[p].index
      BY <1>2, <2>0, <3>1, <3>2
    <3> QED
      BY <1>2, <1>3, <1>4, <2>1, <3>1, <3>3, <3>4 DEF CalmParts
  <2>3. CASE WriteValue(n, t)
    <3> DEFINE new == [index |-> db[n].index, value |-> j.value]
    <3>1. /\ job'[n][t] # None /\ job'[n][t].op = "put" /\ job'[n][t].pc = "value"
          /\ db'[n].index = db[n].index /\ made' = made \cup {new} /\ backlog' = backlog
      <4>1. job'[n][t] = [j EXCEPT !.pc = "value"] /\ db'[n].index = db[n].index
            /\ made' = made \cup {new} /\ backlog' = backlog
        BY <1>0, <2>0, <2>3 DEF WriteValue, TypeOK
      <4>2. [j EXCEPT !.pc = "value"] \in Job /\ [j EXCEPT !.pc = "value"].op = "put"
            /\ [j EXCEPT !.pc = "value"].pc = "value"
        BY <1>0, <2>0 DEF Job
      <4> HIDE DEF j, new
      <4> QED
        BY <4>1, <4>2, NoneAssumption
    <3>2. \A v \in made : v.index \in Nat /\ v.index < db[n].index /\ db[n].index \in Nat
      BY <1>0, <2>0, <2>3 DEF JobCalm, WriteValue, TypeOK, Version
    <3>3. JobCalm(n, t)'
      BY <1>2, <1>6, <3>1 DEF JobCalm
    <3>4. new.index = db[n].index /\ db[n].index \in Nat
      BY <1>0 DEF TypeOK
    <3> HIDE DEF new
    <3>5. \A p \in Node, v \in made' : p = Owner(p)' => v.index <= db'[p].index
      BY <1>2, <2>0, <3>1, <3>2, <3>4
    <3>6. \A v, w \in made' : v.index = w.index => v = w
      BY <3>1, <3>2, <3>4 DEF CalmParts
    <3> QED
      BY <1>2, <1>3, <1>4, <2>1, <3>1, <3>3, <3>5, <3>6 DEF CalmParts
  <2>4. CASE AddBacklog(n, t)
    <3>1. job'[n][t] = None /\ db' = db /\ made' = made
      BY <1>0, <2>4 DEF AddBacklog, TypeOK
    <3>2. JobCalm(n, t)'
      BY <3>1 DEF JobCalm
    <3>3. \A p \in Node : backlog'[p] # None => p = Owner(p)
      BY <1>1, <1>6 DEF CalmParts
    <3> QED
      BY <1>2, <1>3, <1>4, <2>1, <3>1, <3>2, <3>3 DEF CalmParts
  <2> QED
    BY <1>0, <2>0, <2>2, <2>3, <2>4
       DEF JobStep, CopyMeta, DeleteValue, DeleteMeta, MergeMeta, MergeValue
<1> QED
  BY <1>5, <1>6

\* Begin at an idle agent: a put at the owner, a replica's copy elsewhere.
LEMMA BeginCalm ==
    ASSUME RelayInv, CalmParts, NEW n \in Node, NEW t \in Thread, NEW op \in {"put", "force"},
           NEW value, NEW index \in Nat, Payload(op, value),
           op = "put" <=> n = Owner(n),
           Begin(n, t, op, value, index),
           view' = view, db' = db, made' = made, backlog' = backlog,
           \A m \in net' : RequestCalm(m)
    PROVE  CalmParts'
<1> DEFINE j == [op |-> op, pc |-> "read", base |-> db[n].index,
                 value |-> value, index |-> index]
<1>1. /\ job'[n][t] = j
      /\ \A u \in Thread \ {t} : job'[n][u] = job[n][u]
      /\ \A p \in Node \ {n} : job'[p] = job[p]
  BY DEF Begin, RelayInv, TypeOK
<1>2. \A p \in Node : Owner(p)' = Owner(p)
  BY OwnerUnchanged
<1>3. \A p \in Node, u \in Thread : p # n \/ u # t => JobCalm(p, u)'
  BY <1>1, <1>2 DEF CalmParts, JobCalm
<1>4. JobCalm(n, t)'
  BY <1>1, <1>2 DEF JobCalm
<1>5. net' \subseteq net \cup Request => \A m \in net' : m.to \in Node
  BY DEF RelayInv, TypeOK, Request
<1>6. \A m \in net' : RequestCalm(m)'
  BY OwnerUnchanged DEF RequestCalm, Owner, KvNodes
<1> QED
  BY <1>2, <1>3, <1>4, <1>6 DEF CalmParts

LEMMA ServeCalm ==
    ASSUME RelayInv, CalmInv, NEW n \in Node, NEW t \in Thread, NEW op \in {"put", "delete"},
           NEW kind \in {"put", "delete", "fw"}, NEW value, NEW via, NEW others \in SUBSET net,
           Payload(op, value), Serve(n, t, op, kind, value, via, others),
           view' = view, db' = db, made' = made, backlog' = backlog
    PROVE  CalmInv'
<1> SUFFICES ASSUME upsets' = {} PROVE CalmParts'
  BY DEF CalmInv
<1>0. TypeOK /\ KvNode \subseteq Node
  BY Positions DEF RelayInv
<1>1. CASE Owner(n) = n
  <2>1. Begin(n, t, op, value, 0) /\ net' = others
    BY <1>1 DEF Serve
  <2>2. upsets = {} /\ op = "put" /\ CalmParts
    BY <2>1 DEF Begin, CalmInv
  <2>3. \A m \in net' : RequestCalm(m)
    BY <2>1, <2>2 DEF CalmParts
  <2> QED
    BY <1>1, <2>1, <2>2, <2>3, BeginCalm
<1>2. CASE Owner(n) # n
  <2> DEFINE m == [op |-> kind, to |-> Owner(n), value |-> value,
                   index |-> 0, via |-> via \cup {n}]
  <2>1. net' = others \cup {m} /\ job' = job /\ upsets' = upsets
    BY <1>2 DEF Serve
  <2>2. CalmParts
    BY <2>1 DEF CalmInv
  <2>3. Owner(Owner(n)) = Owner(n)
    BY <1>0, <2>2, SameOwner
  <2>4. RequestCalm(m)
    BY <2>3 DEF RequestCalm
  <2>5. \A p \in net' : RequestCalm(p)
    BY <2>1, <2>2, <2>4 DEF CalmParts
  <2>6. \A p \in net' : RequestCalm(p)'
    BY <2>5 DEF RequestCalm, Owner, KvNodes
  <2>7. \A p \in Node : Owner(p)' = Owner(p)
    BY OwnerUnchanged
  <2> QED
    BY <2>1, <2>2, <2>6, <2>7 DEF CalmParts, JobCalm
<1> QED
  BY <1>1, <1>2

\* What neither moves the ring nor writes keeps CalmInv, whatever requests are lost.
LEMMA CalmKept ==
    ASSUME CalmInv, view' = view, db' = db, job' = job, made' = made, backlog' = backlog,
           upsets' = upsets, net' \subseteq net
    PROVE  CalmInv'
<1> SUFFICES ASSUME upsets' = {} PROVE CalmParts'
  BY DEF CalmInv
<1>1. CalmParts
  BY DEF CalmInv
<1>2. \A p \in Node : Owner(p)' = Owner(p)
  BY OwnerUnchanged
<1>3. \A p \in Node, u \in Thread : JobCalm(p, u)'
  BY <1>1, <1>2 DEF CalmParts, JobCalm
<1>4. \A m \in net' : RequestCalm(m)'
  BY <1>1 DEF CalmParts, RequestCalm, Owner, KvNodes
<1> QED
  BY <1>1, <1>2, <1>3, <1>4 DEF CalmParts

LEMMA CalmStep == RelayInv /\ RealInv /\ CalmInv /\ [Next]_vars => CalmInv'
<1> SUFFICES ASSUME RelayInv, RealInv, CalmInv, [Next]_vars PROVE CalmInv'
  OBVIOUS
<1>a. TypeOK /\ KvNode \subseteq Node
  BY Positions DEF RelayInv
<1>1. ASSUME NEW n \in Node, NEW t \in Thread, NEW kind \in {"put", "fw"}, ClientPut(n, t, kind)
      PROVE  CalmInv'
  <2>1. Payload("put", puts + 1)
    BY <1>1, <1>a, BoundsAssumption DEF ClientPut, TypeOK, Value, Payload
  <2>2. Serve(n, t, "put", kind, puts + 1, {}, net)
        /\ view' = view /\ db' = db /\ made' = made /\ backlog' = backlog
    BY <1>1 DEF ClientPut
  <2> QED
    BY <2>1, <2>2, ServeCalm
<1>2. ASSUME NEW n \in Node, NEW t \in Thread, ClientDelete(n, t) PROVE CalmInv'
  <2>1. Payload("delete", None)
    BY DEF Payload
  <2>2. Serve(n, t, "delete", "delete", None, {}, net)
        /\ view' = view /\ db' = db /\ made' = made /\ backlog' = backlog
    BY <1>2 DEF ClientDelete
  <2> QED
    BY <2>1, <2>2, ServeCalm
<1>3. ASSUME NEW m \in net, NEW t \in Thread, ReceiveRelayed(m, t) PROVE CalmInv'
  <2>1. m.to \in Node /\ m.op \in {"put", "delete"} /\ Payload(m.op, m.value)
    BY <1>3, <1>a DEF ReceiveRelayed, TypeOK, Request, Payload
  <2>2. Serve(m.to, t, m.op, m.op, m.value, m.via, net \ {m})
        /\ view' = view /\ db' = db /\ made' = made /\ backlog' = backlog
    BY <1>3 DEF ReceiveRelayed
  <2> QED
    BY <2>1, <2>2, ServeCalm
<1>4. ASSUME NEW m \in net, NEW t \in Thread, ReceiveForMe(m, t) PROVE CalmInv'
  <2> SUFFICES ASSUME upsets' = {} PROVE CalmParts'
    BY DEF CalmInv
  <2> DEFINE op == IF m.op = "fw" THEN "put" ELSE "force"
  <2>1. m \in Request /\ m.to \in Node /\ m.index \in Nat
    BY <1>a DEF TypeOK, Request
  <2>2. Payload(op, m.value)
    BY <1>4, <2>1 DEF Payload, Request, ReceiveForMe
  <2>3. /\ Begin(m.to, t, op, m.value, m.index) /\ net' = net \ {m}
        /\ view' = view /\ db' = db /\ made' = made /\ backlog' = backlog
    BY <1>4 DEF ReceiveForMe
  <2>4. upsets = {} /\ CalmParts
    BY <2>3 DEF Begin, CalmInv
  <2>5. op = "put" <=> m.to = Owner(m.to)
    BY <1>4, <2>4 DEF CalmParts, RequestCalm, ReceiveForMe
  <2>6. \A p \in net' : RequestCalm(p)
    BY <2>3, <2>4 DEF CalmParts
  <2> QED
    BY <2>1, <2>2, <2>3, <2>4, <2>5, <2>6, BeginCalm
<1>5. ASSUME NEW m \in net, Lose(m) PROVE CalmInv'
  BY <1>5, CalmKept DEF Lose
<1>6. ASSUME NEW n \in Node, NEW t \in Thread, JobStep(n, t) PROVE CalmInv'
  <2> SUFFICES ASSUME upsets' = {} PROVE CalmParts'
    BY DEF CalmInv
  <2>1. upsets = {} /\ CalmParts /\ RealParts
    BY <1>6, <1>a, JobStepTyped DEF CalmInv, RealInv
  <2>2. job[n][t] # None
    BY <1>6 DEF JobStep, WriteMeta, WriteValue, AddBacklog, CopyMeta, DeleteValue, DeleteMeta,
         MergeMeta, MergeValue
  <2>3. \A u \in Thread : job[n][u] # None => u = t
    BY <2>1, <2>2 DEF RealParts, JobReal
  <2> QED
    BY <1>6, <2>1, <2>3, JobStepCalm
<1>7. ASSUME NEW n \in Node, Replicate(n) PROVE CalmInv'
  <2> SUFFICES ASSUME upsets = {} PROVE CalmParts'
    BY <1>7 DEF CalmInv, Replicate
  <2>1. CalmParts /\ n \in KvNode /\ n = Owner(n)
    BY <1>7 DEF CalmInv, CalmParts, Replicate
  <2>2. n \in view[n] /\ view[n] \subseteq KvNode
    BY <1>a, <2>1 DEF TypeOK, MayView
  <2>3. Replicas(n) \subseteq KvNode \ {n}
    BY <2>1, <2>2, ReplicasType
  <2>4. \A r \in Replicas(n) : r # Owner(r)
    BY <1>a, <2>1, <2>3, SameOwner
  <2>5. \A m \in net' : RequestCalm(m)
    BY <1>7, <2>1, <2>4 DEF Replicate, CalmParts, RequestCalm
  <2>6. view' = view
    BY <1>7 DEF Replicate
  <2>7. \A m \in net' : RequestCalm(m)'
    BY <2>5, <2>6 DEF RequestCalm, Owner, KvNodes
  <2>8. \A p \in Node : Owner(p)' = Owner(p)
    BY <2>6, OwnerUnchanged
  <2>9. \A p \in Node : backlog'[p] # None => backlog[p] # None
    BY <1>7, <1>a DEF Replicate, TypeOK
  <2> QED
    BY <1>7, <2>1, <2>7, <2>8, <2>9 DEF Replicate, CalmParts, JobCalm
<1>8. ASSUME NEW n \in Node, NEW t \in Thread, NEW r \in KvNode, NEW changed \in BOOLEAN,
             Sync(n, t, r, changed)
      PROVE  CalmInv'
  <2> SUFFICES ASSUME upsets' = {} PROVE CalmParts'
    BY DEF CalmInv
  <2> DEFINE j == [op |-> "merge", pc |-> "read", base |-> 0,
                   value |-> db[r].value, index |-> db[r].index]
  <2>1. upsets = {} /\ ~ Busy(n) /\ ~ Busy(r) /\ CalmParts /\ RealParts
    BY <1>8 DEF Sync, Upset, RealInv, CalmInv
  <2>2. db' = db /\ made' = made /\ backlog' = backlog /\ net' = net /\ view' = view
    BY <1>8 DEF Sync
  <2>3. \A p \in Node : Owner(p)' = Owner(p)
    BY <2>2, OwnerUnchanged
  <2>4. \A m \in net' : RequestCalm(m)'
    BY <2>1, <2>2 DEF CalmParts, RequestCalm, Owner, KvNodes
  <2>5. CASE job' = job
    BY <2>1, <2>2, <2>3, <2>4, <2>5 DEF CalmParts, JobCalm
  <2>6. CASE job' # job
    <3>1. /\ job' = [job EXCEPT ![n][t] = j]
          /\ db[r].index # 0 /\ db[r].value # None
          /\ Newer(db[r], db[n])
      BY <1>8, <2>6 DEF Sync
    <3>2. db[r] \in made
      BY <1>a, <2>1, <3>1 DEF RealParts, Absent
    <3>3. n # Owner(n)
      <4> SUFFICES ASSUME n = Owner(n) PROVE FALSE
        OBVIOUS
      <4>1. db[r].index <= db[n].index
        BY <2>1, <3>2 DEF CalmParts
      <4>2. db[r].index \in Nat /\ db[n].index \in Nat
        BY <1>a DEF TypeOK
      <4> QED
        BY <3>1, <4>1, <4>2 DEF Newer
    <3>4. /\ job'[n][t] = j
          /\ \A p \in Node, u \in Thread : p # n \/ u # t => job'[p][u] = job[p][u]
      BY <1>a, <3>1 DEF TypeOK
    <3>5. JobCalm(n, t)'
      BY <2>3, <3>3, <3>4 DEF JobCalm
    <3>6. \A p \in Node, u \in Thread : p # n \/ u # t => JobCalm(p, u)'
      BY <2>1, <2>2, <2>3, <3>4 DEF CalmParts, JobCalm
    <3> QED
      BY <2>1, <2>2, <2>3, <2>4, <3>5, <3>6 DEF CalmParts
  <2> QED
    BY <2>5, <2>6
<1>9. ASSUME NEW n \in Node, NEW V \in SUBSET KvNode, ViewChange(n, V) PROVE CalmInv'
  BY <1>9 DEF ViewChange, Upset, CalmInv
<1>10. ASSUME NEW n \in Node, Crash(n) PROVE CalmInv'
  <2> SUFFICES ASSUME upsets' = {} PROVE CalmParts'
    BY DEF CalmInv
  <2>1. upsets = {} /\ CalmParts
    BY <1>10 DEF Crash, Upset, CalmInv
  <2>2. \A p \in Node, u \in Thread : job'[p][u] \in {job[p][u], None}
    BY <1>10, <1>a DEF Crash, TypeOK
  <2>3. \A p \in Node : backlog'[p] \in {backlog[p], None}
    BY <1>10, <1>a DEF Crash, TypeOK
  <2>4. net' \subseteq net /\ db' = db /\ made' = made /\ view' = view
    BY <1>10 DEF Crash
  <2>5. \A p \in Node : Owner(p)' = Owner(p)
    BY <2>4, OwnerUnchanged
  <2>6. \A p \in Node, u \in Thread : JobCalm(p, u)'
    BY <2>1, <2>2, <2>4, <2>5 DEF CalmParts, JobCalm
  <2>7. \A m \in net' : RequestCalm(m)'
    BY <2>1, <2>4 DEF CalmParts, RequestCalm, Owner, KvNodes
  <2> QED
    BY <2>1, <2>3, <2>4, <2>5, <2>6, <2>7 DEF CalmParts
<1>11. ASSUME NEW n \in Node, Restart(n) PROVE CalmInv'
  BY <1>11, CalmKept DEF Restart
<1>12. CASE UNCHANGED vars
  BY <1>12, CalmKept DEF vars
<1> QED
  BY <1>1, <1>2, <1>3, <1>4, <1>5, <1>6, <1>7, <1>8, <1>9, <1>10, <1>11, <1>12
     DEF Next, JobStep

THEOREM CalmInvariant == Spec => [](RelayInv /\ RealInv /\ CalmInv)
<1> QED
  BY RelayInit, RealInit, CalmInit, RelayStep, RealStep, CalmStep, PTL DEF Spec

\* Under one membership without deletions, whatever is lost, late or restarted, an
\* index names one value: what do_merge relies on when it compares indexes.
THEOREM IndexNamesOneValue == Spec => []OneValuePerIndex
<1>1. CalmInv => OneValuePerIndex
  BY DEF CalmInv, CalmParts, OneValuePerIndex
<1> QED
  BY <1>1, CalmInvariant, PTL

\* ... and no agent stores an index that the owner of the key has not reached.
THEOREM ReplicasFollow == Spec => []ReplicaNeverAhead
<1>1. RelayInv /\ RealInv /\ CalmInv => ReplicaNeverAhead
  <2> SUFFICES ASSUME RelayInv, RealInv, CalmInv, upsets = {}, NEW n \in Node, ~ Busy(n)
               PROVE  db[n].index <= db[Owner(n)].index
    BY DEF ReplicaNeverAhead
  <2>1. TypeOK /\ RealParts /\ CalmParts
    BY DEF RelayInv, RealInv, CalmInv
  <2>2. Owner(n) \in Node /\ Owner(Owner(n)) = Owner(n)
    BY <2>1, SameOwner
  <2>3. CASE db[n] \in made
    BY <2>1, <2>2, <2>3 DEF CalmParts
  <2>4. CASE db[n] = Absent
    <3>1. db[Owner(n)].index \in Nat
      BY <2>1, <2>2 DEF TypeOK
    <3> QED
      BY <2>4, <3>1 DEF Absent
  <2> QED
    BY <2>1, <2>3, <2>4 DEF RealParts
<1> QED
  BY <1>1, CalmInvariant, PTL
=============================================================================
