------------------------ MODULE RaftRefinementProofs ------------------------
(***************************************************************************)
(* The election of raft.py implements Election, for every zone, every set  *)
(* of memberships that overlap and every bound, when nobody restarts and   *)
(* no VOTE is duplicated; and a node follows only somebody that won, with  *)
(* restarts and duplicates too, as a vote is the only one of its voter,    *)
(* turn and life.                                                          *)
(***************************************************************************)
EXTENDS RaftElectionProofs

\* n told the others that it won turn t.
Won(n, t) == \E m \in sent : m.type = "leader-elected" /\ m.from = n /\ m.turn = t

\* Somebody told that it won a turn up to t, and it is l.
WonUpTo(l, t) ==
    \E m \in sent : m.type = "leader-elected" /\ m.from = l /\ m.turn <= t

Followed(n) == raft[n].leader # None => WonUpTo(raft[n].leader, raft[n].turn)

FollowInv == TypeOK /\ AllCoherent /\ \A n \in Node : Followed(n)

LEMMA FollowInvSays == FollowInv => FollowedLeaderWon
BY DEF FollowInv, AllCoherent, Coherent, Followed, WonUpTo, FollowedLeaderWon

\* Node n comes to record s, messages are added.
LEMMA FollowKept ==
    ASSUME FollowInv, TypeOK', NEW n \in Node, NEW s, raft' = [raft EXCEPT ![n] = s],
           sent \subseteq sent', Coherent(s),
           s.leader # None => WonUpTo(s.leader, s.turn)
    PROVE  FollowInv'
<1>1. /\ raft'[n] = s
      /\ \A p \in Node \ {n} : raft'[p] = raft[p]
  BY DEF FollowInv, TypeOK
<1>2. AllCoherent'
  BY <1>1 DEF FollowInv, AllCoherent, Coherent
<1>3. \A p \in Node : Followed(p)'
  BY <1>1 DEF FollowInv, Followed, WonUpTo
<1> QED
  BY <1>2, <1>3 DEF FollowInv

\* What catching up leaves of the leader: the one it was, won in a turn up to the
\* newer one, or none.
LEMMA CaughtUpFollows ==
    ASSUME FollowInv, NEW m \in sent, Pop(m), raft[m.to].turn <= m.turn
    PROVE  LET q == raft[m.to]  r == CatchUp(q, m.turn) IN
           /\ r.leader \in {q.leader, None}
           /\ r.leader # None => WonUpTo(r.leader, r.turn)
<1> DEFINE q == raft[m.to]
           r == CatchUp(q, m.turn)
<1>1. /\ m.to \in Node /\ q \in RaftRecord /\ q.turn \in Nat /\ m.turn \in Nat
      /\ r.turn = m.turn
  BY PopType, CaughtUp DEF FollowInv
<1>2. r.leader \in {q.leader, None}
  BY <1>1 DEF CatchUp, Failed, Fresh, RaftRecord
<1>3. ASSUME r.leader # None PROVE WonUpTo(r.leader, r.turn)
  <2>1. Followed(m.to) /\ r.leader = q.leader /\ q.leader # None
    BY <1>1, <1>2, <1>3 DEF FollowInv
  <2>2. \A e \in sent : e.turn \in Nat
    BY BoundsAssumption DEF FollowInv, TypeOK, Message, Ballot, Turn
  <2> QED
    BY <1>1, <2>1, <2>2 DEF Followed, WonUpTo
<1> QED
  BY <1>2, <1>3

-----------------------------------------------------------------------------
\* n has run in turn t after this step.
RanByNow(n, t) == \E x \in sent' : x.type = "ask-vote" /\ x.from = n /\ x.turn = t

\* Every step but a victory and a restart: node n comes to record s and sends M, in
\* which nobody tells a victory.  It keeps its leader, leaves it for a newer turn, or
\* takes one that won; and it runs or leads only in a turn in which it ran.
Plain(n, s, M) ==
    /\ raft' = [raft EXCEPT ![n] = s]
    /\ sent' = sent \cup M
    /\ \A x \in M : x.type # "leader-elected"
    /\ counted \subseteq counted'
    /\ s \in RaftRecord
    /\ Coherent(s)
    /\ s.turn >= raft[n].turn
    /\ s.leader # None => WonUpTo(s.leader, s.turn)
    /\ \/ s.leader = raft[n].leader
       \/ s.leader = None /\ s.turn > raft[n].turn
       \/ s.leader # None /\ Won(s.leader, s.turn)
    /\ s.state \in {"candidate", "leader"} =>
          \/ s.turn = raft[n].turn /\ raft[n].state \in {"candidate", "leader"}
          \/ RanByNow(n, s.turn)

\* A node that only catches up with the turn of a message.
LEMMA CatchUpIsPlain ==
    ASSUME FollowInv, NEW m \in sent, Pop(m), raft[m.to].turn <= m.turn,
           raft' = [raft EXCEPT ![m.to] = CatchUp(raft[m.to], m.turn)],
           NEW M, sent' = sent \cup M, \A x \in M : x.type # "leader-elected"
    PROVE  Plain(m.to, CatchUp(raft[m.to], m.turn), M)
<1> DEFINE q == raft[m.to]
           r == CatchUp(q, m.turn)
<1>1. m.to \in Node /\ counted \subseteq counted'
  BY PopType DEF FollowInv
<1>2. /\ r \in RaftRecord /\ Coherent(r)
      /\ r.turn = m.turn /\ q.turn \in Nat /\ m.turn \in Nat
      /\ r.turn >= q.turn
      /\ r.turn = q.turn => r = q
      /\ r.turn > q.turn => r.state \in {"wait_for_candidate", "follower"}
  BY CaughtUp DEF FollowInv
<1>3. r.leader \in {q.leader, None} /\ (r.leader # None => WonUpTo(r.leader, r.turn))
  BY CaughtUpFollows
<1>4. raft' = [raft EXCEPT ![m.to] = r]
  OBVIOUS
<1> HIDE DEF r
<1>5. \/ r.leader = q.leader
      \/ r.leader = None /\ r.turn > q.turn
      \/ r.leader # None /\ Won(r.leader, r.turn)
  BY <1>2, <1>3
<1>6. r.state \in {"candidate", "leader"} =>
        r.turn = q.turn /\ q.state \in {"candidate", "leader"}
  BY <1>2
<1> HIDE DEF q
<1>7. q = raft[m.to]
  BY DEF q
<1>8. Plain(m.to, r, M)
  BY ONLY <1>1, <1>2, <1>3, <1>4, <1>5, <1>6, <1>7, sent' = sent \cup M,
     \A x \in M : x.type # "leader-elected" DEF Plain
<1> QED
  BY <1>8 DEF r, q

\* A node that runs asks somebody: its zone has enough members.
LEMMA RunningIsPlain ==
    ASSUME FollowInv, NEW n \in Node, LookForCandidated(n)
    PROVE  \E s, M : Plain(n, s, M)
<1> DEFINE s == [raft[n] EXCEPT !.state = "candidate", !.nb_vote = 1]
           M == ToOthers("ask-vote", n, view[n], raft[n].turn)
<1>1. /\ raft[n] \in RaftRecord /\ raft[n].turn \in Turn /\ raft[n].turn \in Nat
      /\ Coherent(raft[n]) /\ view[n] \in SUBSET Node
  BY ViewsAssumption, BoundsAssumption DEF FollowInv, TypeOK, RaftRecord, AllCoherent, Turn
<1>2. /\ s \in RaftRecord /\ s.state = "candidate"
      /\ s.turn = raft[n].turn /\ s.leader = raft[n].leader
  BY <1>1, RecordUpdates DEF RaftRecord
<1>3. raft[n].state = "wait_for_candidate" /\ raft[n].leader = None
  BY <1>1 DEF LookForCandidated, Coherent
<1>4. \A x \in M : x.type = "ask-vote" /\ x.from = n /\ x.turn = raft[n].turn
  BY <1>1, ToOthersType DEF PlainType
<1>5. \E d \in view[n] : d # n
  <2>1. SUFFICES ASSUME view[n] \subseteq {n} PROVE FALSE
    OBVIOUS
  <2>2. Cardinality(view[n]) <= 1
    <3>1. IsFiniteSet({n}) /\ Cardinality({n}) = 1
      BY FS_Singleton
    <3> QED
      BY <2>1, <3>1, FS_Subset
  <2>3. IsFiniteSet(view[n]) /\ Cardinality(view[n]) \in Nat
    BY <2>1, FS_Singleton, FS_Subset, FS_CardinalityType
  <2> QED
    BY <2>2, <2>3 DEF LookForCandidated, Idle, MinimalMembers
<1>6. M # {}
  BY <1>5 DEF ToOthers
<1>7. raft' = [raft EXCEPT ![n] = s] /\ sent' = sent \cup M /\ counted' = counted
  BY DEF LookForCandidated
<1> HIDE DEF s, M
<1>8. RanByNow(n, s.turn)
  BY <1>2, <1>4, <1>6, <1>7 DEF RanByNow
<1>9. Plain(n, s, M)
  BY <1>1, <1>2, <1>3, <1>4, <1>7, <1>8 DEF Plain, Coherent
<1> QED
  BY <1>9

\* A node that keeps its record.
LEMMA StayingIsPlain ==
    ASSUME FollowInv, NEW n \in Node, raft' = raft, counted \subseteq counted',
           NEW M, sent' = sent \cup M, \A x \in M : x.type # "leader-elected"
    PROVE  Plain(n, raft[n], M)
<1>1. /\ raft[n] \in RaftRecord /\ raft[n].turn \in Nat /\ Coherent(raft[n])
      /\ Followed(n) /\ raft' = [raft EXCEPT ![n] = raft[n]]
  BY BoundsAssumption DEF FollowInv, TypeOK, RaftRecord, AllCoherent, Turn
<1>2. PICK r : r = raft[n]
  OBVIOUS
<1>3. r.leader # None => WonUpTo(r.leader, r.turn)
  BY <1>1, <1>2 DEF Followed
<1>4. r \in RaftRecord /\ Coherent(r) /\ raft' = [raft EXCEPT ![n] = r]
  BY <1>1, <1>2, Zenon
<1>5. /\ r.turn >= raft[n].turn /\ r.turn = raft[n].turn
      /\ r.leader = raft[n].leader /\ r.state = raft[n].state
  BY <1>1, <1>2
<1>6. Plain(n, r, M)
  BY ONLY <1>3, <1>4, <1>5, counted \subseteq counted', sent' = sent \cup M,
     \A x \in M : x.type # "leader-elected" DEF Plain
<1> QED
  BY <1>2, <1>6

\* A candidate that counts a vote.
LEMMA CountingIsPlain ==
    ASSUME FollowInv, NEW m \in sent, CountVote(m)
    PROVE  \E s, M : Plain(m.to, s, M)
<1> DEFINE n == m.to
           r == CatchUp(raft[n], m.turn)
           s == [r EXCEPT !.nb_vote = @ + 1]
           M == Dummies(n, m.turn)
<1>1. /\ Pop(m) /\ raft[n].turn <= m.turn /\ sent' = sent \cup M
      /\ raft' = [raft EXCEPT ![n] = IF r.state = "candidate" THEN s ELSE r]
  BY DEF CountVote, Dispatched
<1>2. n \in Node /\ m.turn \in Turn /\ counted \subseteq counted'
  BY <1>1, PopType DEF FollowInv
<1>3. \A x \in M : x.type # "leader-elected"
  BY <1>2, DummiesType DEF FollowInv
<1>4. CASE r.state # "candidate"
  BY <1>1, <1>3, <1>4, CatchUpIsPlain
<1>5. CASE r.state = "candidate"
  <2>1. r = raft[n] /\ r \in RaftRecord /\ Coherent(r) /\ r.turn \in Nat
    BY <1>1, <1>5, CaughtUp DEF FollowInv
  <2>2. r.leader = None
    BY <1>5, <2>1 DEF Coherent
  <2>3. s \in RaftRecord /\ s.turn = r.turn /\ s.leader = r.leader /\ s.state = r.state
    BY <2>1, RecordUpdates DEF RaftRecord
  <2>4. raft' = [raft EXCEPT ![n] = s]
    BY <1>1, <1>5
  <2> HIDE DEF r, s, M
  <2>5. Plain(n, s, M)
    BY <1>1, <1>2, <1>3, <1>5, <2>1, <2>2, <2>3, <2>4 DEF Plain, Coherent
  <2> QED
    BY <2>5 DEF n
<1> QED
  BY <1>4, <1>5

\* A node that gives its vote has no leader and forwards the request.
LEMMA VotingIsPlain ==
    ASSUME FollowInv, NEW m \in sent, GrantVote(m)
    PROVE  \E s, M : Plain(m.to, s, M)
<1> DEFINE n == m.to
           r == CatchUp(raft[n], m.turn)
           s == [r EXCEPT !.state = "did-vote", !.vote_for = m.from]
           vote == [type |-> "vote", from |-> n, to |-> m.from, turn |-> r.turn,
                    boot |-> boots[n]]
           forwards == {[m EXCEPT !.to = d] : d \in view[n] \ {n}}
           votes == IF m.from = n THEN {} ELSE {vote}
           M == Dummies(n, m.turn) \cup forwards \cup votes
<1>1. /\ Pop(m) /\ m.type = "ask-vote" /\ raft[n].turn <= m.turn /\ MayVote(r)
      /\ raft' = [raft EXCEPT ![n] = s] /\ sent' = sent \cup M
  BY DEF GrantVote, Dispatched
<1>2. /\ n \in Node /\ m.turn \in Turn /\ counted \subseteq counted' /\ m.from \in Node
      /\ m \in [type : PlainType, from : Node, to : Node, turn : Turn]
  BY <1>1, PopType DEF FollowInv, Message, Ballot
<1>3. \A x \in Dummies(n, m.turn) : x.type # "leader-elected"
  BY <1>2, DummiesType DEF FollowInv
<1>4. \A x \in forwards : x.type # "leader-elected"
  BY <1>1, <1>2
<1>5. \A x \in votes : x.type # "leader-elected"
  OBVIOUS
<1>6. /\ r \in RaftRecord /\ r.turn >= raft[n].turn /\ r.turn = m.turn
      /\ r.turn \in Nat /\ raft[n].turn \in Nat
      /\ r.turn = raft[n].turn => r = raft[n]
  BY <1>1, CaughtUp DEF FollowInv
<1>7. r.leader \in {raft[n].leader, None} /\ r.leader = None
  BY <1>1, CaughtUpFollows DEF MayVote
<1>8. /\ s \in RaftRecord /\ s.turn = r.turn /\ s.leader = None
      /\ s.state = "did-vote"
  BY <1>2, <1>6, <1>7 DEF RaftRecord, RaftState
<1>9. \A x \in M : x.type # "leader-elected"
  BY <1>3, <1>4, <1>5
<1> HIDE DEF r, s, M
<1>10. Plain(n, s, M)
  BY <1>1, <1>2, <1>6, <1>7, <1>8, <1>9 DEF Plain, Coherent
<1> QED
  BY <1>10 DEF n

\* A node that takes the leader of this turn.
LEMMA FollowingIsPlain ==
    ASSUME FollowInv, NEW m \in sent, ReceiveLeaderElected(m)
    PROVE  \E s, M : Plain(m.to, s, M)
<1> DEFINE n == m.to
           r == CatchUp(raft[n], m.turn)
           s == IF m.from = n THEN r ELSE FollowLeader(r, m.from)
           M == Dummies(n, m.turn)
<1>1. /\ Pop(m) /\ raft[n].turn <= m.turn /\ m.type = "leader-elected"
      /\ raft' = [raft EXCEPT ![n] = s] /\ sent' = sent \cup M
  BY DEF ReceiveLeaderElected, Dispatched
<1>2. /\ n \in Node /\ m.turn \in Turn /\ counted \subseteq counted'
      /\ m.from \in Node /\ m.from # None
  BY <1>1, PopType, NodeAssumption DEF FollowInv
<1>3. \A x \in M : x.type # "leader-elected"
  BY <1>2, DummiesType DEF FollowInv
<1>4. /\ r \in RaftRecord /\ r.turn >= raft[n].turn /\ r.turn = m.turn
      /\ r.turn \in Nat /\ raft[n].turn \in Nat
  BY <1>1, CaughtUp DEF FollowInv
<1>5. CASE s = r
  <2>1. raft' = [raft EXCEPT ![n] = r]
    BY <1>1, <1>5
  <2> QED
    BY <1>1, <1>3, <2>1, CatchUpIsPlain
<1>6. CASE s # r
  <2> HIDE DEF r, M
  <2>1. s = [r EXCEPT !.leader = m.from, !.nb_vote = 0, !.state = "follower"]
    BY <1>6 DEF FollowLeader
  <2> HIDE DEF s
  <2>2. /\ s \in RaftRecord /\ s.turn = r.turn /\ s.leader = m.from
        /\ s.state = "follower"
    BY <1>2, <1>4, <2>1 DEF RaftRecord, RaftState
  <2>3. Won(s.leader, s.turn) /\ WonUpTo(s.leader, s.turn)
    BY <1>1, <1>4, <2>2 DEF Won, WonUpTo
  <2>4. Plain(n, s, M)
    BY <1>1, <1>2, <1>3, <1>4, <2>2, <2>3 DEF Plain, Coherent
  <2> QED
    BY <2>4 DEF n
<1> QED
  BY <1>5, <1>6

\* Every step is one of these.
LEMMA StepShape ==
    ASSUME FollowInv, [Next]_vars
    PROVE  \/ \E n \in Node : \E s, M : Plain(n, s, M)
           \/ \E m \in sent : WinElection(m)
           \/ \E n \in Node : Restart(n)
           \/ UNCHANGED vars
<1> DEFINE Shaped == \E n \in Node : \E s, M : Plain(n, s, M)
<1>t. \A m \in sent : Pop(m) => m.to \in Node /\ m.turn \in Turn /\ m.from \in Node
  BY PopType DEF FollowInv
<1>r. \A n \in Node : raft[n] \in RaftRecord /\ raft[n].turn \in Turn
                      /\ raft[n].turn \in Nat /\ view[n] \in SUBSET Node
  BY ViewsAssumption, BoundsAssumption DEF FollowInv, TypeOK, RaftRecord, Turn
<1>1. ASSUME NEW m \in sent, ReceiveOld(m) PROVE Shaped
  <2> DEFINE M == ToOthers("warn-old-election-turn", m.to, {m.from}, raft[m.to].turn)
  <2>1. Pop(m) /\ raft' = raft /\ sent' = sent \cup M
    BY <1>1 DEF ReceiveOld
  <2>2. \A x \in M : x.type # "leader-elected"
    BY <2>1, <1>t, <1>r, ToOthersType DEF PlainType
  <2>3. counted \subseteq counted'
    BY <2>1, PopType DEF FollowInv
  <2> HIDE DEF M
  <2> QED
    BY <2>1, <2>2, <2>3, <1>t, StayingIsPlain
<1>2. ASSUME NEW m \in sent, ReceiveTurn(m) \/ RefuseVote(m) PROVE Shaped
  <2> DEFINE M == Dummies(m.to, m.turn)
  <2>1. /\ Pop(m) /\ raft[m.to].turn <= m.turn /\ sent' = sent \cup M
        /\ raft' = [raft EXCEPT ![m.to] = CatchUp(raft[m.to], m.turn)]
    BY <1>2 DEF ReceiveTurn, RefuseVote, Dispatched
  <2>2. \A x \in M : x.type # "leader-elected"
    BY <2>1, <1>t, DummiesType DEF FollowInv
  <2> HIDE DEF M
  <2> QED
    BY <2>1, <2>2, <1>t, CatchUpIsPlain
<1>3. ASSUME NEW m \in sent, GrantVote(m) PROVE Shaped
  BY <1>3, <1>t, VotingIsPlain DEF GrantVote, Dispatched
<1>4. ASSUME NEW m \in sent, CountVote(m) PROVE Shaped
  BY <1>4, <1>t, CountingIsPlain DEF CountVote, Dispatched
<1>5. ASSUME NEW m \in sent, ReceiveLeaderElected(m) PROVE Shaped
  BY <1>5, <1>t, FollowingIsPlain DEF ReceiveLeaderElected, Dispatched
<1>6. ASSUME NEW n \in Node, FailToElect(n) PROVE Shaped
  <2>1. PICK s : s = Failed(raft[n])
    OBVIOUS
  <2>2. s = [state |-> "wait_for_candidate", turn |-> raft[n].turn + 1, leader |-> None,
             nb_vote |-> 0, vote_for |-> None]
    BY <2>1 DEF Failed, Fresh
  <2>3. /\ raft' = [raft EXCEPT ![n] = s] /\ sent' = sent \cup {} /\ counted' = counted
        /\ raft[n].turn + 1 \in Turn
    BY <1>6, <1>r, <2>1, BoundsAssumption DEF FailToElect, Turn
  <2>4. Plain(n, s, {})
    BY <1>r, <2>2, <2>3 DEF Plain, Coherent, RaftRecord, RaftState
  <2> QED
    BY <2>4
<1>7. ASSUME NEW n \in Node, LookForCandidated(n) PROVE Shaped
  BY <1>7, RunningIsPlain
<1>8. ASSUME NEW n \in Node, LaunchHeartbeat(n) PROVE Shaped
  <2> DEFINE M == ToOthers("leader-heartbeat", n, view[n], raft[n].turn)
  <2>1. raft' = raft /\ sent' = sent \cup M /\ counted' = counted
    BY <1>8 DEF LaunchHeartbeat
  <2>2. \A x \in M : x.type # "leader-elected"
    BY <1>r, ToOthersType DEF PlainType
  <2> HIDE DEF M
  <2> QED
    BY <2>1, <2>2, StayingIsPlain
<1>9. ASSUME NEW n \in Node, ViewChange(n) PROVE Shaped
  <2>1. raft' = raft /\ sent' = sent \cup {} /\ counted' = counted
    BY <1>9 DEF ViewChange
  <2>2. Plain(n, raft[n], {})
    BY <2>1, StayingIsPlain
  <2> QED
    BY <2>2
<1> QED
  BY <1>1, <1>2, <1>3, <1>4, <1>5, <1>6, <1>7, <1>8, <1>9 DEF Next, Receive

LEMMA FollowInit == Init => FollowInv
<1> SUFFICES ASSUME Init PROVE FollowInv
  OBVIOUS
<1>1. TypeOK
  BY FreshType, BoundsAssumption DEF Init, TypeOK
<1>2. \A n \in Node : raft[n].state = "wait_for_candidate" /\ raft[n].leader = None
  BY DEF Init, Fresh
<1> QED
  BY <1>1, <1>2 DEF FollowInv, AllCoherent, Coherent, Followed

LEMMA FollowStep == FollowInv /\ [Next]_vars => FollowInv'
<1> SUFFICES ASSUME FollowInv, [Next]_vars PROVE FollowInv'
  OBVIOUS
<1>0. TypeOK'
  BY TypeInductive DEF FollowInv
<1>1. ASSUME NEW n \in Node, NEW s, NEW M, Plain(n, s, M) PROVE FollowInv'
  BY <1>0, <1>1, FollowKept DEF Plain
<1>2. ASSUME NEW m \in sent, WinElection(m) PROVE FollowInv'
  <2> DEFINE n == m.to
             r == CatchUp(raft[n], m.turn)
             s == [r EXCEPT !.nb_vote = @ + 1, !.state = "leader"]
  <2>1. /\ Pop(m) /\ raft[n].turn <= m.turn /\ r.state = "candidate"
        /\ raft' = [raft EXCEPT ![n] = s] /\ sent \subseteq sent'
    BY <1>2 DEF WinElection, Dispatched
  <2>2. n \in Node /\ r \in RaftRecord /\ Coherent(r)
    BY <2>1, CaughtUp, PopType DEF FollowInv
  <2>3. s.leader = None /\ s.state = "leader"
    BY <2>1, <2>2 DEF Coherent, RaftRecord
  <2>4. Coherent(s)
    BY <2>3 DEF Coherent
  <2> HIDE DEF s, n, r
  <2> QED
    BY <1>0, <2>1, <2>2, <2>3, <2>4, FollowKept
<1>3. ASSUME NEW n \in Node, Restart(n) PROVE FollowInv'
  BY <1>0, <1>3, FollowKept DEF Restart, Fresh, Coherent
<1>4. CASE UNCHANGED vars
  BY <1>0, <1>4 DEF vars, FollowInv, AllCoherent, Coherent, Followed, WonUpTo
<1> QED
  BY <1>1, <1>2, <1>3, <1>4, StepShape

\* A node follows somebody exactly when its state says so, and only somebody that won
\* its turn or an older one: whatever restarts and is duplicated.
THEOREM FollowedWon == Spec => []FollowedLeaderWon
<1> QED
  BY FollowInit, FollowStep, FollowInvSays, PTL DEF Spec

-----------------------------------------------------------------------------
(***************************************************************************)
(* One choice per life of an agent, with restarts and duplicates.  A vote  *)
(* of this life is of an older turn, or its voter has voted or follows: so *)
(* a node that may vote, runs or leads did not vote in that turn.          *)
(***************************************************************************)
Voted == {"did-vote", "follower"}

Bound(v) ==
    /\ v.boot <= boots[v.from]
    /\ v.boot = boots[v.from] =>
          /\ v.turn <= raft[v.from].turn
          /\ v.turn = raft[v.from].turn => raft[v.from].state \in Voted

LifeInv == FollowInv /\ OneChoicePerLife /\ \A v \in Ballots : Bound(v)

LEMMA BallotType ==
    ASSUME TypeOK, NEW v \in Ballots
    PROVE  /\ v \in sent /\ v.from \in Node /\ v.turn \in Nat /\ v.boot \in Nat
           /\ boots[v.from] \in Nat /\ raft[v.from].turn \in Nat
<1>1. v \in sent /\ v \in Ballot
  BY DEF Ballots
<1>2. v.from \in Node /\ v.turn \in Nat /\ v.boot \in Nat
  BY <1>1, BoundsAssumption DEF Ballot, Turn
<1>3. boots[v.from] \in Nat
  BY <1>2, BoundsAssumption DEF TypeOK
<1>4. raft[v.from] \in RaftRecord
  BY <1>2 DEF TypeOK
<1>5. raft[v.from].turn \in Nat
  BY <1>4, BoundsAssumption DEF RaftRecord, Turn
<1> QED
  BY <1>1, <1>2, <1>3, <1>5

\* A step that votes not: a node that voted does not wait or run again in its turn.
LEMMA NoVoteKeepsLife ==
    ASSUME LifeInv, FollowInv', NEW n \in Node, NEW s,
           raft' = [raft EXCEPT ![n] = s], boots' = boots,
           s.turn \in Nat, s.turn >= raft[n].turn,
           s.turn = raft[n].turn /\ raft[n].state \in Voted => s.state \in Voted,
           NEW M, sent' = sent \cup M, \A x \in M : x \notin Ballot
    PROVE  LifeInv'
<1>1. Ballots' = Ballots
  BY DEF Ballots
<1>2. /\ raft'[n] = s
      /\ \A p \in Node \ {n} : raft'[p] = raft[p]
  BY DEF LifeInv, FollowInv, TypeOK
<1>3. ASSUME NEW v \in Ballots PROVE Bound(v)'
  <2>1. /\ v.from \in Node /\ v.turn \in Nat /\ raft[v.from].turn \in Nat /\ Bound(v)
    BY BallotType DEF LifeInv, FollowInv
  <2>2. CASE v.from = n
    BY <1>2, <2>1, <2>2 DEF Bound
  <2>3. CASE v.from # n
    BY <1>2, <2>1, <2>3 DEF Bound
  <2> QED
    BY <2>2, <2>3
<1>4. OneChoicePerLife'
  BY <1>1 DEF LifeInv, OneChoicePerLife
<1> QED
  BY <1>1, <1>3, <1>4 DEF LifeInv

\* A vote is the first of this life and turn.
LEMMA VoteKeepsLife ==
    ASSUME LifeInv, FollowInv', NEW m \in sent, GrantVote(m)
    PROVE  LifeInv'
<1> DEFINE n == m.to
           r == CatchUp(raft[n], m.turn)
           s == [r EXCEPT !.state = "did-vote", !.vote_for = m.from]
           vote == [type |-> "vote", from |-> n, to |-> m.from, turn |-> r.turn,
                    boot |-> boots[n]]
           forwards == {[m EXCEPT !.to = d] : d \in view[n] \ {n}}
<1>1. /\ Pop(m) /\ m.type = "ask-vote" /\ raft[n].turn <= m.turn /\ MayVote(r)
      /\ raft' = [raft EXCEPT ![n] = s] /\ boots' = boots
      /\ sent' = sent \cup Dummies(n, m.turn) \cup forwards
                      \cup (IF m.from = n THEN {} ELSE {vote})
  BY DEF GrantVote, Dispatched
<1>2. /\ n \in Node /\ m.turn \in Turn
      /\ m \in [type : PlainType, from : Node, to : Node, turn : Turn]
  BY <1>1, PopType DEF LifeInv, FollowInv, Message, Ballot
<1>3. /\ r \in RaftRecord /\ Coherent(r) /\ r.turn >= raft[n].turn
      /\ r.turn \in Nat /\ raft[n].turn \in Nat
      /\ r.turn = raft[n].turn => r = raft[n]
  BY <1>1, CaughtUp DEF LifeInv, FollowInv
<1>4. r.state = "wait_for_candidate"
  BY <1>1, <1>3 DEF MayVote, Coherent
<1>5. s.turn = r.turn /\ s.state = "did-vote"
  BY <1>3 DEF RaftRecord
<1>6. /\ raft'[n] = s
      /\ \A p \in Node \ {n} : raft'[p] = raft[p]
  BY <1>1, <1>2 DEF LifeInv, FollowInv, TypeOK
<1>7. \A x \in Dummies(n, m.turn) : x \notin Ballot
  BY <1>2, DummiesType DEF LifeInv, FollowInv
<1>8. \A x \in forwards : x \notin Ballot
  BY <1>1, <1>2 DEF Ballot
<1>9. \A v \in Ballots' : v \in Ballots \/ v = vote
  BY <1>1, <1>7, <1>8 DEF Ballots
<1>10. /\ vote.from = n /\ vote.turn = r.turn /\ vote.boot = boots[n]
       /\ boots[n] \in Nat
  BY <1>2, BoundsAssumption DEF LifeInv, FollowInv, TypeOK
<1> HIDE DEF n, r, s, vote, forwards
<1>11. ASSUME NEW v \in Ballots, v.from = n, v.boot = boots[n] PROVE v.turn < s.turn
  <2>1. /\ v.turn \in Nat /\ v.turn <= raft[n].turn
        /\ v.turn = raft[n].turn => raft[n].state \in Voted
    BY <1>11, BallotType DEF LifeInv, FollowInv, Bound
  <2> QED
    BY <1>3, <1>4, <1>5, <2>1 DEF Voted
<1>12. ASSUME NEW v \in Ballots' PROVE Bound(v)'
  <2>1. CASE v = vote
    BY <1>1, <1>2, <1>3, <1>5, <1>6, <1>10, <2>1 DEF Bound, Voted
  <2>2. CASE v \in Ballots /\ v.from = n
    <3>1. v.boot \in Nat /\ v.turn \in Nat /\ Bound(v)
      BY <2>2, BallotType DEF LifeInv, FollowInv
    <3>2. v.boot = boots[n] => v.turn < s.turn
      BY <1>11, <2>2
    <3> QED
      BY <1>1, <1>3, <1>5, <1>6, <2>2, <3>1, <3>2 DEF Bound
  <2>3. CASE v \in Ballots /\ v.from # n
    <3>1. v.from \in Node /\ Bound(v)
      BY <2>3, BallotType DEF LifeInv, FollowInv
    <3> QED
      BY <1>1, <1>6, <2>3, <3>1 DEF Bound
  <2> QED
    BY <1>9, <2>1, <2>2, <2>3
<1>13. \A v \in Ballots : v.turn \in Nat
  BY BallotType DEF LifeInv, FollowInv
<1>14. \A v \in Ballots : ~ (v.from = vote.from /\ v.turn = vote.turn /\ v.boot = vote.boot)
  BY <1>3, <1>5, <1>10, <1>11, <1>13
<1>15. OneChoicePerLife'
  BY <1>9, <1>14 DEF LifeInv, OneChoicePerLife
<1> QED
  BY <1>12, <1>15 DEF LifeInv

\* A restart begins another life, whose votes are none yet.
LEMMA RestartKeepsLife ==
    ASSUME LifeInv, FollowInv', NEW n \in Node, Restart(n)
    PROVE  LifeInv'
<1>1. /\ sent' = sent /\ raft' = [raft EXCEPT ![n] = Fresh]
      /\ boots' = [boots EXCEPT ![n] = @ + 1]
  BY DEF Restart
<1>2. Ballots' = Ballots
  BY <1>1 DEF Ballots
<1>3. /\ boots'[n] = boots[n] + 1
      /\ \A p \in Node \ {n} : boots'[p] = boots[p] /\ raft'[p] = raft[p]
  BY <1>1 DEF LifeInv, FollowInv, TypeOK
<1>4. ASSUME NEW v \in Ballots PROVE Bound(v)'
  <2>1. v.from \in Node /\ v.boot \in Nat /\ boots[v.from] \in Nat /\ Bound(v)
    BY BallotType DEF LifeInv, FollowInv
  <2>2. CASE v.from = n
    BY <1>3, <2>1, <2>2 DEF Bound
  <2>3. CASE v.from # n
    BY <1>3, <2>1, <2>3 DEF Bound
  <2> QED
    BY <2>2, <2>3
<1> QED
  BY <1>2, <1>4 DEF LifeInv, OneChoicePerLife

LEMMA LifeStep == LifeInv /\ [Next]_vars => LifeInv'
<1> SUFFICES ASSUME LifeInv, [Next]_vars PROVE LifeInv'
  OBVIOUS
<1>0. FollowInv /\ FollowInv' /\ TypeOK
  BY FollowStep DEF LifeInv, FollowInv
<1>t. \A m \in sent : Pop(m) => m.to \in Node /\ m.turn \in Turn /\ m.from \in Node
  BY <1>0, PopType
<1>r. \A n \in Node : /\ raft[n] \in RaftRecord /\ raft[n].turn \in Turn
                      /\ raft[n].turn \in Nat /\ view[n] \in SUBSET Node
                      /\ raft = [raft EXCEPT ![n] = raft[n]]
  BY <1>0, ViewsAssumption, BoundsAssumption DEF TypeOK, RaftRecord, Turn
<1>s. ASSUME NEW n \in Node, raft' = raft, boots' = boots,
             NEW M, sent' = sent \cup M, \A x \in M : x \notin Ballot
      PROVE  LifeInv'
  <2>1. PICK q : q = raft[n]
    OBVIOUS
  <2>2. raft' = [raft EXCEPT ![n] = q] /\ q.turn \in Nat /\ q.turn >= raft[n].turn
    BY <1>r, <1>s, <2>1
  <2>3. q.state = raft[n].state
    BY <2>1
  <2> QED
    BY <1>0, <1>s, <2>2, <2>3, NoVoteKeepsLife
<1>c. ASSUME NEW m \in sent, Pop(m), raft[m.to].turn <= m.turn
      PROVE  LET q == raft[m.to]  r == CatchUp(q, m.turn) IN
             /\ r \in RaftRecord /\ r.turn \in Nat /\ r.turn >= q.turn
             /\ r.turn = q.turn => r = q
  BY <1>0, <1>c, CaughtUp DEF FollowInv
<1>1. ASSUME NEW m \in sent, ReceiveOld(m) PROVE LifeInv'
  <2> DEFINE M == ToOthers("warn-old-election-turn", m.to, {m.from}, raft[m.to].turn)
  <2>1. Pop(m) /\ raft' = raft /\ sent' = sent \cup M /\ boots' = boots
    BY <1>1 DEF ReceiveOld
  <2>2. \A x \in M : x \notin Ballot
    BY <2>1, <1>t, <1>r, ToOthersType DEF PlainType
  <2> HIDE DEF M
  <2> QED
    BY <2>1, <2>2, <1>s, <1>t
<1>2. ASSUME NEW m \in sent, ReceiveTurn(m) \/ RefuseVote(m) PROVE LifeInv'
  <2> DEFINE M == Dummies(m.to, m.turn)
  <2>1. /\ Pop(m) /\ raft[m.to].turn <= m.turn /\ sent' = sent \cup M /\ boots' = boots
        /\ raft' = [raft EXCEPT ![m.to] = CatchUp(raft[m.to], m.turn)]
    BY <1>2 DEF ReceiveTurn, RefuseVote, Dispatched
  <2>2. \A x \in M : x \notin Ballot
    BY <1>0, <2>1, <1>t, DummiesType
  <2>3. PICK s : s = CatchUp(raft[m.to], m.turn)
    OBVIOUS
  <2> HIDE DEF M
  <2> QED
    BY <1>0, <1>c, <1>t, <2>1, <2>2, <2>3, NoVoteKeepsLife
<1>3. ASSUME NEW m \in sent, GrantVote(m) PROVE LifeInv'
  BY <1>0, <1>3, VoteKeepsLife
<1>4. ASSUME NEW m \in sent, WinElection(m) PROVE LifeInv'
  <2> DEFINE n == m.to
             r == CatchUp(raft[n], m.turn)
             s == [r EXCEPT !.nb_vote = @ + 1, !.state = "leader"]
             M == ToOthers("leader-elected", n, view[n], r.turn)
  <2>1. /\ Pop(m) /\ raft[n].turn <= m.turn /\ sent' = sent \cup M /\ boots' = boots
        /\ raft' = [raft EXCEPT ![n] = s]
    BY <1>4 DEF WinElection, Dispatched
  <2>2. /\ r \in RaftRecord /\ r.turn \in Nat /\ r.turn \in Turn /\ r.turn >= raft[n].turn
        /\ r.turn = raft[n].turn => raft[n].state = "candidate"
    BY <1>4, <1>c, <2>1 DEF RaftRecord, WinElection
  <2>3. s.turn = r.turn /\ s.state = "leader"
    BY <2>2 DEF RaftRecord
  <2>4. \A x \in M : x \notin Ballot
    BY <2>1, <2>2, <1>t, <1>r, ToOthersType DEF PlainType
  <2> HIDE DEF r, s, M
  <2> QED
    BY <1>0, <1>t, <2>1, <2>2, <2>3, <2>4, NoVoteKeepsLife DEF Voted
<1>5. ASSUME NEW m \in sent, CountVote(m) PROVE LifeInv'
  <2> DEFINE n == m.to
             r == CatchUp(raft[n], m.turn)
             s == IF r.state = "candidate" THEN [r EXCEPT !.nb_vote = @ + 1] ELSE r
             M == Dummies(n, m.turn)
  <2>1. /\ Pop(m) /\ raft[n].turn <= m.turn /\ sent' = sent \cup M /\ boots' = boots
        /\ raft' = [raft EXCEPT ![n] = s]
    BY <1>5 DEF CountVote, Dispatched
  <2>2. /\ r \in RaftRecord /\ r.turn \in Nat /\ r.turn >= raft[n].turn
        /\ r.turn = raft[n].turn => r = raft[n]
    BY <1>c, <2>1
  <2>3. s.turn = r.turn /\ s.state = r.state
    BY <2>2 DEF RaftRecord
  <2>4. \A x \in M : x \notin Ballot
    BY <1>0, <2>1, <1>t, DummiesType
  <2> HIDE DEF r, s, M
  <2> QED
    BY <1>0, <1>t, <2>1, <2>2, <2>3, <2>4, NoVoteKeepsLife DEF Voted
<1>6. ASSUME NEW m \in sent, ReceiveLeaderElected(m) PROVE LifeInv'
  <2> DEFINE n == m.to
             r == CatchUp(raft[n], m.turn)
             s == IF m.from = n THEN r ELSE FollowLeader(r, m.from)
             M == Dummies(n, m.turn)
  <2>1. /\ Pop(m) /\ raft[n].turn <= m.turn /\ sent' = sent \cup M /\ boots' = boots
        /\ raft' = [raft EXCEPT ![n] = s]
    BY <1>6 DEF ReceiveLeaderElected, Dispatched
  <2>2. /\ r \in RaftRecord /\ r.turn \in Nat /\ r.turn >= raft[n].turn
        /\ r.turn = raft[n].turn => r = raft[n]
    BY <1>c, <2>1
  <2>3. s.turn = r.turn /\ s.state \in {r.state, "follower"}
    <3> HIDE DEF r
    <3> QED
      BY <2>2 DEF RaftRecord, FollowLeader
  <2>4. \A x \in M : x \notin Ballot
    BY <1>0, <2>1, <1>t, DummiesType
  <2> HIDE DEF r, s, M
  <2> QED
    BY <1>0, <1>t, <2>1, <2>2, <2>3, <2>4, NoVoteKeepsLife DEF Voted
<1>7. ASSUME NEW n \in Node, FailToElect(n) PROVE LifeInv'
  <2>1. PICK s : s = Failed(raft[n])
    OBVIOUS
  <2>2. s.turn = raft[n].turn + 1
    BY <2>1 DEF Failed, Fresh
  <2>3. PICK M : M = {}
    OBVIOUS
  <2>4. raft' = [raft EXCEPT ![n] = s] /\ sent' = sent \cup M /\ boots' = boots
    BY <1>7, <2>1, <2>3 DEF FailToElect
  <2>5. /\ s.turn \in Nat /\ s.turn >= raft[n].turn /\ s.turn # raft[n].turn
        /\ \A x \in M : x \notin Ballot
    BY <1>r, <2>2, <2>3
  <2> QED
    BY <1>0, <2>4, <2>5, NoVoteKeepsLife
<1>8. ASSUME NEW n \in Node, LookForCandidated(n) PROVE LifeInv'
  <2> DEFINE s == [raft[n] EXCEPT !.state = "candidate", !.nb_vote = 1]
             M == ToOthers("ask-vote", n, view[n], raft[n].turn)
  <2>1. raft' = [raft EXCEPT ![n] = s] /\ sent' = sent \cup M /\ boots' = boots
    BY <1>8 DEF LookForCandidated
  <2>2. s.turn = raft[n].turn /\ raft[n].state = "wait_for_candidate"
    BY <1>8, <1>r DEF RaftRecord, LookForCandidated
  <2>3. \A x \in M : x \notin Ballot
    BY <1>r, ToOthersType DEF PlainType
  <2>4. s.turn \in Nat /\ s.turn >= raft[n].turn
    BY <1>r, <2>2
  <2> HIDE DEF s, M
  <2> QED
    BY <1>0, <2>1, <2>2, <2>3, <2>4, NoVoteKeepsLife DEF Voted
<1>9. ASSUME NEW n \in Node, LaunchHeartbeat(n) PROVE LifeInv'
  <2> DEFINE M == ToOthers("leader-heartbeat", n, view[n], raft[n].turn)
  <2>1. raft' = raft /\ sent' = sent \cup M /\ boots' = boots
    BY <1>9 DEF LaunchHeartbeat
  <2>2. \A x \in M : x \notin Ballot
    BY <1>r, ToOthersType DEF PlainType
  <2> HIDE DEF M
  <2> QED
    BY <2>1, <2>2, <1>s
<1>10. ASSUME NEW n \in Node, ViewChange(n) PROVE LifeInv'
  <2>1. raft' = raft /\ sent' = sent /\ boots' = boots
    BY <1>10 DEF ViewChange
  <2> QED
    BY <1>0, <2>1 DEF LifeInv, OneChoicePerLife, Ballots, Bound
<1>11. ASSUME NEW n \in Node, Restart(n) PROVE LifeInv'
  BY <1>0, <1>11, RestartKeepsLife
<1>12. CASE UNCHANGED vars
  BY <1>0, <1>12 DEF vars, LifeInv, OneChoicePerLife, Ballots, Bound
<1> QED
  BY <1>1, <1>2, <1>3, <1>4, <1>5, <1>6, <1>7, <1>8, <1>9, <1>10, <1>11, <1>12
     DEF Next, Receive

\* Within one life, an agent's votes of a turn are all for one candidate: whatever
\* restarts and is duplicated.
THEOREM OncePerLife == Spec => []OneChoicePerLife
<1>1. Init => LifeInv
  BY FollowInit DEF Init, LifeInv, OneChoicePerLife, Ballots
<1>2. LifeInv => OneChoicePerLife
  BY DEF LifeInv
<1> QED
  BY <1>1, <1>2, LifeStep, PTL DEF Spec

-----------------------------------------------------------------------------
(***************************************************************************)
(* What faults cost, for every bound on restarts and duplicates.  A vote   *)
(* counts once for each life of its voter, and once more for each datagram *)
(* that was duplicated; a node that runs or leads gave no vote in this     *)
(* life, and no life voted for two: so the votes of two nodes come from    *)
(* distinct lives, none of them the present ones of the two.               *)
(***************************************************************************)
Running(r) == r.state \in {"candidate", "leader"}

\* The lives whose vote for n in turn t is in C.
LivesFor(C, n, t) == {<<v.from, v.boot>> : v \in {w \in C : w.to = n /\ w.turn = t}}

Support(n) == Cardinality(LivesFor(counted, n, raft[n].turn))

ShareInv ==
    /\ LifeInv
    /\ \A n \in Node :
          Running(raft[n]) => raft[n].nb_vote <= Support(n) + 1 + dups
    /\ \A a, b \in Node :
          a # b /\ Running(raft[a]) /\ Running(raft[b])
             => raft[a].nb_vote + raft[b].nb_vote <= Support(a) + Support(b) + 2 + dups
    /\ \A n \in Node : raft[n].state = "leader" =>
          \E V \in Views : raft[n].nb_vote >= QuorumSize(V)

LEMMA AllLivesFinite == IsFiniteSet(Node \X (0..MaxRestarts))
<1>1. PICK B : B = 0..MaxRestarts
  OBVIOUS
<1>2. IsFiniteSet(B)
  BY <1>1, BoundsAssumption, FS_Interval
<1> QED
  BY <1>1, <1>2, NodeAssumption, FS_Product

LEMMA LivesForFinite ==
    ASSUME NEW C, C \subseteq Ballot, NEW n, NEW t
    PROVE  /\ LivesFor(C, n, t) \subseteq Node \X (0..MaxRestarts)
           /\ IsFiniteSet(LivesFor(C, n, t))
           /\ Cardinality(LivesFor(C, n, t)) \in Nat
<1>1. LivesFor(C, n, t) \subseteq Node \X (0..MaxRestarts)
  BY DEF LivesFor, Ballot
<1> QED
  BY <1>1, AllLivesFinite, FS_Subset, FS_CardinalityType

LEMMA LivesForGrow ==
    ASSUME NEW C, NEW D, C \subseteq D, D \subseteq Ballot, NEW n, NEW t
    PROVE  Cardinality(LivesFor(C, n, t)) <= Cardinality(LivesFor(D, n, t))
<1>1. LivesFor(C, n, t) \subseteq LivesFor(D, n, t)
  BY DEF LivesFor
<1> QED
  BY <1>1, LivesForFinite, FS_Subset

\* A VOTE that is handled is of one more life, or is one more duplicate.
LEMMA VoteIsPaid ==
    ASSUME TypeOK, NEW m \in sent, Pop(m), m.type = "vote"
    PROVE  Cardinality(LivesFor(counted', m.to, m.turn)) + dups'
              = Cardinality(LivesFor(counted, m.to, m.turn)) + dups + 1
<1> DEFINE L == LivesFor(counted, m.to, m.turn)
           l == <<m.from, m.boot>>
<1>1. m \in Ballot /\ counted \subseteq Ballot /\ dups \in Nat
  BY BoundsAssumption DEF TypeOK, Message, PlainType
<1>2. IsFiniteSet(L) /\ Cardinality(L) \in Nat
  BY <1>1, LivesForFinite
<1>3. CASE m \in counted
  BY <1>1, <1>2, <1>3 DEF Pop
<1>4. CASE m \notin counted
  <2>1. counted' = counted \cup {m} /\ dups' = dups
    BY <1>1, <1>4 DEF Pop
  <2>2. \A v \in counted :
           v.to = m.to /\ v.turn = m.turn => <<v.from, v.boot>> # l
    <3> SUFFICES ASSUME NEW v \in counted, v.to = m.to, v.turn = m.turn,
                        v.from = m.from, v.boot = m.boot
                 PROVE  FALSE
      OBVIOUS
    <3>1. v = m
      BY <1>1 DEF Ballot
    <3> QED
      BY <1>4, <3>1
  <2>3. l \notin L
    BY <2>2 DEF LivesFor
  <2>4. LivesFor(counted', m.to, m.turn) = L \cup {l}
    BY <2>1 DEF LivesFor
  <2>5. Cardinality(L \cup {l}) = Cardinality(L) + 1
    BY <1>2, <2>3, FS_AddElement
  <2>6. Cardinality(LivesFor(counted', m.to, m.turn)) = Cardinality(L) + 1
    BY <2>4, <2>5
  <2>7. PICK c \in Nat : c = Cardinality(L)
    BY <1>2
  <2>8. PICK d : d = Cardinality(LivesFor(counted', m.to, m.turn))
    OBVIOUS
  <2>9. d + dups' = c + dups + 1
    BY <1>1, <2>1, <2>6, <2>7, <2>8
  <2> QED
    BY <2>7, <2>8, <2>9
<1> QED
  BY <1>3, <1>4

\* What a node that comes to record s may have of votes: it does not run, it begins
\* to, it stays as it is, or it counts what has been paid for.
Earned(n, s) ==
    \/ ~ Running(s)
    \/ s.state = "candidate" /\ s.nb_vote = 1
    \/ s = raft[n]
    \/ /\ raft[n].state = "candidate" /\ s.turn = raft[n].turn
       /\ s.state = "leader" => \E V \in Views : s.nb_vote >= QuorumSize(V)
       /\ s.nb_vote = raft[n].nb_vote + 1
       /\ Cardinality(LivesFor(counted', n, s.turn)) + dups'
             = Cardinality(LivesFor(counted, n, s.turn)) + dups + 1

LEMMA ShareKept ==
    ASSUME ShareInv, LifeInv', NEW n \in Node, NEW s,
           raft' = [raft EXCEPT ![n] = s],
           counted \subseteq counted', dups' >= dups, Earned(n, s)
    PROVE  ShareInv'
<1> DEFINE D(p) == Cardinality(LivesFor(counted', p, raft[p].turn))
<1>0. TypeOK /\ TypeOK'
  BY DEF ShareInv, LifeInv, FollowInv
<1>1. /\ raft'[n] = s
      /\ \A p \in Node \ {n} : raft'[p] = raft[p]
  BY <1>0 DEF TypeOK
<1>2. /\ \A p \in Node : raft[p].nb_vote \in Nat /\ raft'[p].nb_vote \in Nat
      /\ dups \in Nat /\ dups' \in Nat
  BY <1>0, BoundsAssumption DEF TypeOK, RaftRecord
<1>3. counted \subseteq Ballot /\ counted' \subseteq Ballot
  BY <1>0 DEF TypeOK
<1>4. \A p \in Node : /\ Support(p) \in Nat /\ D(p) \in Nat /\ Support(p)' \in Nat
                      /\ Support(p) <= D(p)
  BY <1>3, LivesForFinite, LivesForGrow DEF Support
<1>5. \A p \in Node \ {n} : Support(p)' = D(p)
  BY <1>1 DEF Support
<1>6. s.turn = raft[n].turn => Support(n)' = D(n)
  BY <1>1 DEF Support
<1> HIDE DEF D
<1>7. Running(s) =>
        \/ s.nb_vote = 1
        \/ /\ Running(raft[n])
           /\ s.nb_vote + Support(n) + dups <= raft[n].nb_vote + Support(n)' + dups'
  <2>1. CASE s = raft[n]
    BY <1>1, <1>2, <1>4, <1>6, <2>1
  <2>2. CASE /\ raft[n].state = "candidate" /\ s.turn = raft[n].turn
             /\ s.nb_vote = raft[n].nb_vote + 1
             /\ Cardinality(LivesFor(counted', n, s.turn)) + dups'
                   = Cardinality(LivesFor(counted, n, s.turn)) + dups + 1
    <3>1. Support(n)' + dups' = Support(n) + dups + 1
      BY <1>1, <2>2 DEF Support
    <3> QED
      BY <1>2, <1>4, <2>2, <3>1 DEF Running
  <2> QED
    BY <2>1, <2>2 DEF Earned
<1>8. ASSUME NEW p \in Node, Running(raft'[p])
      PROVE  raft'[p].nb_vote <= Support(p)' + 1 + dups'
  <2>1. CASE p # n
    <3>1. raft[p].nb_vote <= Support(p) + 1 + dups
      BY <1>1, <1>8, <2>1 DEF ShareInv
    <3> QED
      BY <1>1, <1>2, <1>4, <1>5, <2>1, <3>1
  <2>2. CASE p = n
    <3>1. Running(raft[n]) => raft[n].nb_vote <= Support(n) + 1 + dups
      BY DEF ShareInv
    <3>2. s.nb_vote \in Nat
      BY <1>1, <1>2
    <3> QED
      BY <1>1, <1>2, <1>4, <1>7, <1>8, <2>2, <3>1, <3>2
  <2> QED
    BY <2>1, <2>2
<1>9. ASSUME NEW b \in Node \ {n}, Running(s), Running(raft[b])
      PROVE  s.nb_vote + raft[b].nb_vote <= Support(n)' + Support(b)' + 2 + dups'
  <2>1. Running(raft[n]) =>
          raft[n].nb_vote + raft[b].nb_vote <= Support(n) + Support(b) + 2 + dups
    BY <1>9 DEF ShareInv
  <2>2. raft[b].nb_vote <= Support(b) + 1 + dups
    BY <1>9 DEF ShareInv
  <2>3. /\ s.nb_vote \in Nat /\ raft[b].nb_vote \in Nat /\ raft[n].nb_vote \in Nat
        /\ Support(n) \in Nat /\ Support(b) \in Nat /\ Support(n)' \in Nat
        /\ Support(b)' \in Nat /\ Support(b) <= Support(b)'
    BY <1>1, <1>2, <1>4, <1>5
  <2> QED
    BY <1>2, <1>7, <1>9, <2>1, <2>2, <2>3
<1>10. ASSUME NEW a \in Node, NEW b \in Node, a # b, Running(raft'[a]), Running(raft'[b])
       PROVE  raft'[a].nb_vote + raft'[b].nb_vote <= Support(a)' + Support(b)' + 2 + dups'
  <2>1. CASE a # n /\ b # n
    <3>1. raft[a].nb_vote + raft[b].nb_vote <= Support(a) + Support(b) + 2 + dups
      BY <1>1, <1>10, <2>1 DEF ShareInv
    <3>2. /\ raft[a].nb_vote \in Nat /\ raft[b].nb_vote \in Nat
          /\ Support(a) \in Nat /\ Support(b) \in Nat /\ Support(a)' \in Nat
          /\ Support(b)' \in Nat /\ Support(a) <= Support(a)' /\ Support(b) <= Support(b)'
      BY <1>2, <1>4, <1>5, <2>1
    <3> QED
      BY <1>1, <1>2, <2>1, <3>1, <3>2
  <2>2. CASE a = n
    BY <1>1, <1>9, <1>10, <2>2
  <2>3. CASE b = n
    <3>1. s.nb_vote + raft[a].nb_vote <= Support(n)' + Support(a)' + 2 + dups'
      BY <1>1, <1>9, <1>10, <2>3
    <3> QED
      BY <1>1, <1>2, <1>4, <1>10, <2>3, <3>1
  <2> QED
    BY <2>1, <2>2, <2>3
<1>11. ASSUME NEW p \in Node, raft'[p].state = "leader"
       PROVE  \E V \in Views : raft'[p].nb_vote >= QuorumSize(V)
  BY <1>1, <1>11 DEF ShareInv, Earned, Running
<1> QED
  BY <1>8, <1>10, <1>11 DEF ShareInv, Running

LEMMA ShareStep == ShareInv /\ [Next]_vars => ShareInv'
<1> SUFFICES ASSUME ShareInv, [Next]_vars PROVE ShareInv'
  OBVIOUS
<1>0. LifeInv /\ LifeInv' /\ FollowInv /\ TypeOK
  BY LifeStep DEF ShareInv, LifeInv, FollowInv
<1>d. dups \in Nat
  BY <1>0, BoundsAssumption DEF TypeOK
<1>t. \A m \in sent : Pop(m) => /\ m.to \in Node /\ m.turn \in Turn /\ m.from \in Node
                                /\ counted \subseteq counted' /\ dups' >= dups
  BY <1>0, <1>d, PopType DEF Pop
<1>r. \A n \in Node : /\ raft[n] \in RaftRecord /\ raft[n].turn \in Nat
                      /\ raft = [raft EXCEPT ![n] = raft[n]]
  BY <1>0, BoundsAssumption DEF TypeOK, RaftRecord, Turn
<1>s. ASSUME NEW n \in Node, raft' = raft, counted \subseteq counted', dups' >= dups
      PROVE  ShareInv'
  <2>1. PICK q : q = raft[n]
    OBVIOUS
  <2>2. raft' = [raft EXCEPT ![n] = q] /\ Earned(n, q)
    BY <1>r, <1>s, <2>1 DEF Earned
  <2> QED
    BY <1>0, <1>s, <2>2, ShareKept
<1>c. ASSUME NEW m \in sent, Pop(m), raft[m.to].turn <= m.turn
      PROVE  LET q == raft[m.to]  r == CatchUp(q, m.turn) IN
             /\ r \in RaftRecord /\ r.turn = m.turn
             /\ r = q \/ r.state \in {"wait_for_candidate", "follower"}
  <2>1. PICK q : q = raft[m.to]
    OBVIOUS
  <2>2. PICK r : r = CatchUp(q, m.turn)
    OBVIOUS
  <2>3. /\ r \in RaftRecord /\ r.turn = m.turn /\ r.turn \in Nat /\ q.turn \in Nat
        /\ r.turn >= q.turn
        /\ r.turn = q.turn => r = q
        /\ r.turn > q.turn => r.state \in {"wait_for_candidate", "follower"}
    BY <1>0, <1>c, <2>1, <2>2, CaughtUp DEF FollowInv
  <2> QED
    BY <2>1, <2>2, <2>3
<1>1. ASSUME NEW m \in sent, ReceiveOld(m) PROVE ShareInv'
  <2>1. Pop(m) /\ raft' = raft
    BY <1>1 DEF ReceiveOld
  <2> QED
    BY <2>1, <1>s, <1>t
<1>2. ASSUME NEW m \in sent, ReceiveTurn(m) \/ RefuseVote(m) PROVE ShareInv'
  <2>1. /\ Pop(m) /\ raft[m.to].turn <= m.turn
        /\ raft' = [raft EXCEPT ![m.to] = CatchUp(raft[m.to], m.turn)]
    BY <1>2 DEF ReceiveTurn, RefuseVote, Dispatched
  <2>2. PICK s : s = CatchUp(raft[m.to], m.turn)
    OBVIOUS
  <2>3. Earned(m.to, s)
    BY <1>c, <2>1, <2>2 DEF Earned, Running
  <2> QED
    BY <1>0, <1>t, <2>1, <2>2, <2>3, ShareKept
<1>3. ASSUME NEW m \in sent, GrantVote(m) PROVE ShareInv'
  <2>1. PICK r : r = CatchUp(raft[m.to], m.turn)
    OBVIOUS
  <2>2. /\ Pop(m) /\ raft[m.to].turn <= m.turn
        /\ raft' = [raft EXCEPT ![m.to] = [r EXCEPT !.state = "did-vote",
                                                    !.vote_for = m.from]]
    BY <1>3, <2>1 DEF GrantVote, Dispatched
  <2>3. PICK s : s = [r EXCEPT !.state = "did-vote", !.vote_for = m.from]
    OBVIOUS
  <2>4. s.state = "did-vote"
    BY <1>c, <2>1, <2>2, <2>3 DEF RaftRecord
  <2>5. Earned(m.to, s)
    BY <2>4 DEF Earned, Running
  <2> QED
    BY <1>0, <1>t, <2>2, <2>3, <2>5, ShareKept
<1>4. ASSUME NEW m \in sent, WinElection(m) \/ CountVote(m) PROVE ShareInv'
  <2> DEFINE n == m.to
  <2>1. PICK r : r = CatchUp(raft[n], m.turn)
    OBVIOUS
  <2>2. Pop(m) /\ raft[n].turn <= m.turn /\ m.type = "vote"
    BY <1>4 DEF WinElection, CountVote, Dispatched
  <2>3. r \in RaftRecord /\ r.turn = m.turn
    BY <1>c, <2>1, <2>2
  <2>4. CASE r.state # "candidate"
    <3>1. raft' = [raft EXCEPT ![n] = r]
      BY <1>4, <2>1, <2>4 DEF WinElection, CountVote
    <3>2. Earned(n, r)
      BY <1>c, <2>1, <2>2 DEF Earned, Running
    <3> QED
      BY <1>0, <1>t, <2>2, <3>1, <3>2, ShareKept
  <2>5. CASE r.state = "candidate"
    <3>1. r = raft[n]
      BY <1>c, <2>1, <2>2, <2>5
    <3>2. PICK s : \/ /\ s = [r EXCEPT !.nb_vote = @ + 1, !.state = "leader"]
                      /\ r.nb_vote + 1 >= QuorumSize(view[n])
                      /\ raft' = [raft EXCEPT ![n] = s]
                   \/ /\ s = [r EXCEPT !.nb_vote = @ + 1]
                      /\ raft' = [raft EXCEPT ![n] = s]
      <4>1. CASE WinElection(m)
        BY <2>1, <4>1 DEF WinElection
      <4>2. CASE CountVote(m)
        BY <2>1, <2>5, <4>2 DEF CountVote
      <4> QED
        BY <1>4, <4>1, <4>2
    <3>3. /\ s.turn = r.turn /\ s.nb_vote = r.nb_vote + 1
          /\ s.state = "leader" => r.nb_vote + 1 >= QuorumSize(view[n])
      BY <2>3, <2>5, <3>2 DEF RaftRecord
    <3>4. view[n] \in Views
      BY <1>0, <1>t, <2>2 DEF TypeOK
    <3>5. Cardinality(LivesFor(counted', n, m.turn)) + dups'
             = Cardinality(LivesFor(counted, n, m.turn)) + dups + 1
      BY <1>0, <2>2, VoteIsPaid
    <3>6. s.state = "leader" => \E V \in Views : s.nb_vote >= QuorumSize(V)
      BY <3>3, <3>4
    <3>7. Earned(n, s)
      BY <2>3, <2>5, <3>1, <3>3, <3>5, <3>6 DEF Earned
    <3> QED
      BY <1>0, <1>t, <2>2, <3>2, <3>7, ShareKept
  <2> QED
    BY <2>4, <2>5
<1>5. ASSUME NEW m \in sent, ReceiveLeaderElected(m) PROVE ShareInv'
  <2>1. PICK r : r = CatchUp(raft[m.to], m.turn)
    OBVIOUS
  <2>2. PICK s : s = IF m.from = m.to THEN r ELSE FollowLeader(r, m.from)
    OBVIOUS
  <2>3. /\ Pop(m) /\ raft[m.to].turn <= m.turn
        /\ raft' = [raft EXCEPT ![m.to] = s]
    BY <1>5, <2>1, <2>2 DEF ReceiveLeaderElected, Dispatched
  <2>4. s = r \/ s.state = "follower"
    BY <1>c, <2>1, <2>2, <2>3 DEF FollowLeader, RaftRecord
  <2>5. Earned(m.to, s)
    BY <1>c, <2>1, <2>3, <2>4 DEF Earned, Running
  <2> QED
    BY <1>0, <1>t, <2>3, <2>5, ShareKept
<1>6. ASSUME NEW n \in Node, FailToElect(n) \/ Restart(n) PROVE ShareInv'
  <2>1. PICK s : /\ s.state = "wait_for_candidate"
                 /\ raft' = [raft EXCEPT ![n] = s] /\ counted' = counted /\ dups' = dups
    BY <1>6 DEF FailToElect, Restart, Failed, Fresh
  <2>2. Earned(n, s)
    BY <2>1 DEF Earned, Running
  <2>3. counted \subseteq counted' /\ dups' >= dups
    BY <1>d, <2>1
  <2> QED
    BY <1>0, <2>1, <2>2, <2>3, ShareKept
<1>7. ASSUME NEW n \in Node, LookForCandidated(n) PROVE ShareInv'
  <2>1. PICK s : s = [raft[n] EXCEPT !.state = "candidate", !.nb_vote = 1]
    OBVIOUS
  <2>2. raft' = [raft EXCEPT ![n] = s] /\ counted' = counted /\ dups' = dups
    BY <1>7, <2>1 DEF LookForCandidated
  <2>3. s.state = "candidate" /\ s.nb_vote = 1
    BY <1>r, <2>1 DEF RaftRecord
  <2>4. Earned(n, s)
    BY <2>3 DEF Earned
  <2>5. counted \subseteq counted' /\ dups' >= dups
    BY <1>d, <2>2
  <2> QED
    BY <1>0, <2>2, <2>4, <2>5, ShareKept
<1>8. ASSUME NEW n \in Node, LaunchHeartbeat(n) \/ ViewChange(n) PROVE ShareInv'
  <2>1. raft' = raft /\ counted' = counted /\ dups' = dups
    BY <1>8 DEF LaunchHeartbeat, ViewChange
  <2> QED
    BY <1>d, <1>s, <2>1
<1>9. CASE UNCHANGED vars
  BY <1>0, <1>9 DEF vars, ShareInv, Support
<1> QED
  BY <1>1, <1>2, <1>3, <1>4, <1>5, <1>6, <1>7, <1>8, <1>9 DEF Next, Receive

\* The lives that voted for two nodes of one turn are distinct lives of agents, and
\* the present lives of the two are more of them.
LEMMA LivesAreApart ==
    ASSUME LifeInv, NEW a \in Node, NEW b \in Node, a # b,
           Running(raft[a]), Running(raft[b]), raft[a].turn = raft[b].turn
    PROVE  Support(a) + Support(b) + 2 <= Cardinality(Lives)
<1> DEFINE t == raft[a].turn
           A == LivesFor(counted, a, t)
           B == LivesFor(counted, b, t)
           x == <<a, boots[a]>>
           y == <<b, boots[b]>>
<1>1. TypeOK /\ counted \subseteq Ballots /\ counted \subseteq Ballot
  BY DEF LifeInv, FollowInv, TypeOK, Ballots
<1>2. /\ IsFiniteSet(A) /\ IsFiniteSet(B)
      /\ Cardinality(A) \in Nat /\ Cardinality(B) \in Nat
      /\ A \subseteq Node \X (0..MaxRestarts) /\ B \subseteq Node \X (0..MaxRestarts)
  BY <1>1, LivesForFinite
<1>3. \A v \in counted :
         /\ v.boot <= boots[v.from]
         /\ v.turn = t => <<v.from, v.boot>> # x /\ <<v.from, v.boot>> # y
  <2> SUFFICES ASSUME NEW v \in counted
               PROVE  /\ v.boot <= boots[v.from]
                      /\ v.turn = t => /\ ~ (v.from = a /\ v.boot = boots[a])
                                       /\ ~ (v.from = b /\ v.boot = boots[b])
    OBVIOUS
  <2>1. Bound(v)
    BY <1>1 DEF LifeInv
  <2> QED
    BY <2>1 DEF Bound, Running, Voted
<1>4. \A v, w \in counted :
         /\ v.turn = t /\ v.to = a /\ w.turn = t /\ w.to = b
         => <<v.from, v.boot>> # <<w.from, w.boot>>
  BY <1>1 DEF LifeInv, OneChoicePerLife
<1>5. A \cap B = {}
  BY <1>4 DEF LivesFor
<1>6. x \notin A /\ y \notin A /\ x \notin B /\ y \notin B /\ x # y
  BY <1>3 DEF LivesFor
<1>7. A \subseteq Lives /\ B \subseteq Lives /\ x \in Lives /\ y \in Lives
  <2>1. \A v \in counted : v.from \in Node /\ v.boot \in 0..MaxRestarts
    BY <1>1 DEF Ballot
  <2>2. \A v \in counted : <<v.from, v.boot>> \in Lives
    BY <1>3, <2>1 DEF Lives
  <2>3. boots[a] \in 0..MaxRestarts /\ boots[b] \in 0..MaxRestarts
    BY <1>1 DEF TypeOK
  <2>4. x \in Lives /\ y \in Lives
    BY <2>3, BoundsAssumption DEF Lives
  <2> QED
    BY <2>2, <2>4 DEF LivesFor
<1>8. IsFiniteSet(Lives)
  BY AllLivesFinite, FS_Subset DEF Lives
<1>9. Support(a) = Cardinality(A) /\ Support(b) = Cardinality(B)
  BY DEF Support
<1> HIDE DEF A, B, x, y
<1>10. /\ IsFiniteSet(A \cup {x}) /\ Cardinality(A \cup {x}) = Cardinality(A) + 1
       /\ IsFiniteSet(B \cup {y}) /\ Cardinality(B \cup {y}) = Cardinality(B) + 1
  BY <1>2, <1>6, FS_AddElement
<1>11. Cardinality((A \cup {x}) \cup (B \cup {y}))
          = Cardinality(A \cup {x}) + Cardinality(B \cup {y})
              - Cardinality((A \cup {x}) \cap (B \cup {y}))
  BY <1>10, FS_Union
<1>12. Cardinality((A \cup {x}) \cap (B \cup {y})) = 0
  BY <1>5, <1>6, FS_EmptySet
<1>13. Cardinality((A \cup {x}) \cup (B \cup {y})) <= Cardinality(Lives)
  BY <1>7, <1>8, FS_Subset
<1>14. Cardinality(Lives) \in Nat
  BY <1>8, FS_CardinalityType
<1> QED
  BY <1>2, <1>9, <1>10, <1>11, <1>12, <1>13, <1>14

LEMMA SharedByLives == ShareInv => VotesAreShared
<1> SUFFICES ASSUME ShareInv, NEW a \in Node, NEW b \in Node, a # b,
                    raft[a].turn = raft[b].turn, Running(raft[a]), Running(raft[b])
             PROVE  raft[a].nb_vote + raft[b].nb_vote <= Cardinality(Lives) + dups
  BY DEF VotesAreShared, Running
<1>1. Support(a) + Support(b) + 2 <= Cardinality(Lives)
  BY LivesAreApart DEF ShareInv
<1>2. raft[a].nb_vote + raft[b].nb_vote <= Support(a) + Support(b) + 2 + dups
  BY DEF ShareInv
<1>3. TypeOK
  BY DEF ShareInv, LifeInv, FollowInv
<1>4. raft[a].nb_vote \in Nat /\ raft[b].nb_vote \in Nat /\ dups \in Nat
  BY <1>3, BoundsAssumption DEF TypeOK, RaftRecord
<1>5. Support(a) \in Nat /\ Support(b) \in Nat /\ Cardinality(Lives) \in Nat
  <2>1. counted \subseteq Ballot
    BY <1>3 DEF TypeOK
  <2>2. IsFiniteSet(Lives)
    BY AllLivesFinite, FS_Subset DEF Lives
  <2> QED
    BY <2>1, <2>2, LivesForFinite, FS_CardinalityType DEF Support
<1> QED
  BY <1>1, <1>2, <1>4, <1>5

LEMMA ShareInit == Init => ShareInv
BY FollowInit DEF Init, Fresh, ShareInv, LifeInv, OneChoicePerLife, Ballots, Running

\* Two nodes of one turn never counted more votes between them than there were lives
\* of agents and duplicates: for every zone, every membership and every bound.
THEOREM FaultsAreShared == Spec => []VotesAreShared
<1> QED
  BY ShareInit, ShareStep, SharedByLives, PTL DEF Spec

\* There is one leader per turn as long as two quorums are more than the lives of the
\* agents and the duplicated votes: the restarts and duplicates a zone withstands.
THEOREM FaultTolerance == Spec => []OneLeaderDespiteFaults
<1>1. ShareInv => OneLeaderDespiteFaults
  <2> SUFFICES ASSUME ShareInv,
                      \A V, W \in Views :
                         QuorumSize(V) + QuorumSize(W) > Cardinality(Lives) + dups,
                      NEW a \in Node, NEW b \in Node, a # b,
                      raft[a].state = "leader", raft[b].state = "leader",
                      raft[a].turn = raft[b].turn
               PROVE  FALSE
    BY DEF OneLeaderDespiteFaults, OneLeaderPerTurn
  <2>1. raft[a].nb_vote + raft[b].nb_vote <= Cardinality(Lives) + dups
    BY SharedByLives DEF VotesAreShared
  <2>2. PICK V \in Views : raft[a].nb_vote >= QuorumSize(V)
    BY DEF ShareInv
  <2>3. PICK W \in Views : raft[b].nb_vote >= QuorumSize(W)
    BY DEF ShareInv
  <2>4. TypeOK
    BY DEF ShareInv, LifeInv, FollowInv
  <2>5. raft[a].nb_vote \in Nat /\ raft[b].nb_vote \in Nat /\ dups \in Nat
    BY <2>4, BoundsAssumption DEF TypeOK, RaftRecord
  <2>6. Cardinality(Lives) \in Nat
    BY AllLivesFinite, FS_Subset, FS_CardinalityType DEF Lives
  <2> QED
    BY <2>1, <2>2, <2>3, <2>5, <2>6, QuorumSizeType
<1> QED
  BY <1>1, ShareInit, ShareStep, PTL DEF Spec

\* The restarts of agents and the duplicated votes so far.
Faults == Cardinality(Lives) - Cardinality(Node) + dups

\* In a zone whose members all know each other, no fault gives a turn a second leader as
\* long as there is none, or one only and the zone is even: an even zone asks for one
\* vote more than a majority needs (raft.py:291).
THEOREM WholeZone ==
    ASSUME Views = {Node}
    PROVE  Spec => [](Faults <= (IF Cardinality(Node) % 2 = 0 THEN 1 ELSE 0)
                         => OneLeaderPerTurn)
<1>1. TypeOK /\ OneLeaderDespiteFaults
        => (Faults <= (IF Cardinality(Node) % 2 = 0 THEN 1 ELSE 0) => OneLeaderPerTurn)
  <2> SUFFICES ASSUME TypeOK, OneLeaderDespiteFaults,
                      Faults <= (IF Cardinality(Node) % 2 = 0 THEN 1 ELSE 0)
               PROVE  OneLeaderPerTurn
    OBVIOUS
  <2>1. PICK n, l : n = Cardinality(Node) /\ l = Cardinality(Lives)
    OBVIOUS
  <2>2. n \in Nat /\ l \in Nat /\ dups \in Nat
    BY <2>1, AllLivesFinite, NodeAssumption, BoundsAssumption, FS_Subset, FS_CardinalityType
    DEF Lives, TypeOK
  <2>3. l + dups <= n + (IF n % 2 = 0 THEN 1 ELSE 0)
    BY <2>1, <2>2 DEF Faults
  <2>4. QuorumSize(Node) = (n + 2) \div 2
    BY <2>1 DEF QuorumSize
  <2>5. (n + 2) \div 2 + (n + 2) \div 2 > n + (IF n % 2 = 0 THEN 1 ELSE 0)
    BY <2>2
  <2>6. QuorumSize(Node) + QuorumSize(Node) > l + dups
    BY <2>2, <2>3, <2>4, <2>5
  <2> QED
    BY <2>1, <2>6 DEF OneLeaderDespiteFaults
<1> QED
  BY <1>1, TypeCorrect, FaultTolerance, PTL

-----------------------------------------------------------------------------
(***************************************************************************)
(* The refinement.  A victory is told once its winner has a quorum, and    *)
(* the quorum stays counted when the winner goes on to other turns: that,  *)
(* and not the state of the winner, keeps a second winner of the turn out. *)
(***************************************************************************)
Quorate(n, t) ==
    \E V \in Views : Cardinality(VotersIn(counted, n, t)) + 1 >= QuorumSize(V)

Runners ==
    \A n \in Node : raft[n].state \in {"candidate", "leader"} => Ran(n, raft[n].turn)

Winners ==
    \A m \in sent : m.type = "leader-elected" => Ran(m.from, m.turn) /\ Quorate(m.from, m.turn)

ElectInv == SafetyInv /\ FollowInv /\ Runners /\ Winners

\* Two nodes with a quorum of the votes C in a turn, in which neither voted, are one.
LEMMA OneWinner ==
    ASSUME ViewsOverlap, NEW a \in Node, NEW b \in Node, NEW t, NEW C,
           \A v \in C : v.turn = t => v.from # a /\ v.from # b,
           \A v, w \in C : v.turn = t /\ w.turn = t /\ v.from = w.from => v.to = w.to,
           NEW V \in Views, Cardinality(VotersIn(C, a, t)) + 1 >= QuorumSize(V),
           NEW W \in Views, Cardinality(VotersIn(C, b, t)) + 1 >= QuorumSize(W)
    PROVE  a = b
<1> SUFFICES ASSUME a # b PROVE FALSE
  OBVIOUS
<1> DEFINE A == VotersIn(C, a, t)
           B == VotersIn(C, b, t)
<1>1. A \in SUBSET (Node \ {a, b}) /\ B \in SUBSET (Node \ {a, b})
  BY DEF VotersIn
<1>2. A \cap B = {}
  BY DEF VotersIn
<1>3. Cardinality(A) + 1 >= QuorumSize(V) /\ Cardinality(B) + 1 >= QuorumSize(W)
  OBVIOUS
<1> HIDE DEF A, B
<1> QED
  BY <1>1, <1>2, <1>3, MajoritiesMeet

\* A quorum stays one.
LEMMA QuorateKept ==
    ASSUME counted \subseteq counted', NEW n, NEW t, Quorate(n, t)
    PROVE  \E V \in Views : Cardinality(VotersIn(counted', n, t)) + 1 >= QuorumSize(V)
<1>1. PICK V \in Views : Cardinality(VotersIn(counted, n, t)) + 1 >= QuorumSize(V)
  BY DEF Quorate
<1> QED
  BY <1>1, VotersInGrow, VotersInFinite, QuorumSizeType

\* What is said of winners, kept by a step that adds no victory or one that is right.
LEMMA WinnersKept ==
    ASSUME Winners, counted \subseteq counted', sent \subseteq sent',
           \A m \in sent' \ sent : m.type = "leader-elected" =>
              /\ RanByNow(m.from, m.turn)
              /\ \E V \in Views : Cardinality(VotersIn(counted', m.from, m.turn)) + 1
                                   >= QuorumSize(V)
    PROVE  Winners'
<1> SUFFICES ASSUME NEW m \in sent', m.type = "leader-elected"
             PROVE  /\ \E x \in sent' : x.type = "ask-vote" /\ x.from = m.from /\ x.turn = m.turn
                    /\ \E V \in Views : Cardinality(VotersIn(counted', m.from, m.turn)) + 1
                                         >= QuorumSize(V)
  BY DEF Winners, Ran, Quorate
<1>1. CASE m \in sent
  <2>1. Ran(m.from, m.turn) /\ Quorate(m.from, m.turn)
    BY <1>1 DEF Winners
  <2> QED
    BY <2>1, QuorateKept DEF Ran
<1>2. CASE m \notin sent
  BY <1>2 DEF RanByNow
<1> QED
  BY <1>1, <1>2

LEMMA PlainKeepsWinners ==
    ASSUME ElectInv, NEW n \in Node, NEW s, NEW M, Plain(n, s, M)
    PROVE  Runners' /\ Winners'
<1>1. /\ raft'[n] = s
      /\ \A p \in Node \ {n} : raft'[p] = raft[p]
  BY DEF Plain, ElectInv, FollowInv, TypeOK
<1>2. sent \subseteq sent' /\ counted \subseteq counted'
      /\ \A m \in sent' \ sent : m.type # "leader-elected"
  BY DEF Plain
<1>3. Winners'
  BY <1>2, WinnersKept DEF ElectInv
<1>4. \A p \in Node \ {n} : raft'[p].state \in {"candidate", "leader"}
                              => Ran(p, raft'[p].turn)
  BY <1>1 DEF ElectInv, Runners
<1>5. s.state \in {"candidate", "leader"} => Ran(n, s.turn) \/ RanByNow(n, s.turn)
  BY DEF Plain, ElectInv, Runners
<1> QED
  BY <1>1, <1>2, <1>3, <1>4, <1>5 DEF Runners, Ran, RanByNow

\* A victory, seen from the messages: the winner keeps its turn and has a quorum.
LEMMA WinnerHasQuorum ==
    ASSUME Steady, ElectInv, SafetyInv', NEW m \in sent, WinElection(m)
    PROVE  LET n == m.to
               t == raft[n].turn
           IN  /\ n \in Node /\ t \in Turn /\ raft[n].leader = None
               /\ raft' = [raft EXCEPT ![n] = [raft[n] EXCEPT !.nb_vote = @ + 1,
                                                            !.state = "leader"]]
               /\ sent' = sent \cup ToOthers("leader-elected", n, view[n], t)
               /\ view[n] \in SUBSET Node
               /\ counted \subseteq counted'
               /\ Ran(n, t)
               /\ \E V \in Views : Cardinality(VotersIn(counted', n, t)) + 1 >= QuorumSize(V)
<1> DEFINE n == m.to
           r == CatchUp(raft[n], m.turn)
           s == [raft[n] EXCEPT !.nb_vote = @ + 1, !.state = "leader"]
<1>1. /\ Pop(m) /\ raft[n].turn <= m.turn /\ r.state = "candidate"
      /\ raft' = [raft EXCEPT ![n] = [r EXCEPT !.nb_vote = @ + 1, !.state = "leader"]]
      /\ sent' = sent \cup ToOthers("leader-elected", n, view[n], r.turn)
  BY DEF WinElection, Dispatched
<1>2. n \in Node /\ counted \subseteq counted'
  BY <1>1, PopType DEF ElectInv, FollowInv
<1>3. r = raft[n] /\ raft[n] \in RaftRecord /\ Coherent(raft[n])
  BY <1>1, CaughtUp DEF ElectInv, FollowInv
<1>4. raft' = [raft EXCEPT ![n] = s]
  BY <1>1, <1>3
<1>5. /\ raft[n].turn \in Turn /\ raft[n].leader = None /\ raft[n].state = "candidate"
  BY <1>1, <1>3 DEF Coherent, RaftRecord
<1>6. s.state = "leader" /\ s.turn = raft[n].turn
  BY <1>3 DEF RaftRecord
<1>7. raft'[n] = s
  BY <1>2, <1>4 DEF ElectInv, FollowInv, TypeOK
<1>8. \E V \in Views : Cardinality(VotersIn(counted', n, raft[n].turn)) + 1 >= QuorumSize(V)
  <2> HIDE DEF s
  <2> QED
    BY <1>2, <1>6, <1>7 DEF SafetyInv, VotesCounted
<1>9. Ran(n, raft[n].turn)
  BY <1>2, <1>5 DEF ElectInv, Runners
<1>10. view[n] \in SUBSET Node
  BY <1>2, ViewsAssumption DEF ElectInv, FollowInv, TypeOK
<1> QED
  BY <1>1, <1>2, <1>3, <1>4, <1>5, <1>8, <1>9, <1>10

LEMMA VictoryKeepsWinners ==
    ASSUME Steady, ElectInv, SafetyInv', NEW m \in sent, WinElection(m)
    PROVE  Runners' /\ Winners'
<1> DEFINE n == m.to
           t == raft[n].turn
           s == [raft[n] EXCEPT !.nb_vote = @ + 1, !.state = "leader"]
           M == ToOthers("leader-elected", n, view[n], t)
<1>1. /\ n \in Node /\ t \in Turn /\ raft' = [raft EXCEPT ![n] = s] /\ sent' = sent \cup M
      /\ view[n] \in SUBSET Node /\ counted \subseteq counted' /\ Ran(n, t)
      /\ \E V \in Views : Cardinality(VotersIn(counted', n, t)) + 1 >= QuorumSize(V)
  BY WinnerHasQuorum
<1>2. \A x \in M : x.from = n /\ x.turn = t
  BY <1>1, ToOthersType DEF PlainType
<1>3. s.turn = t
  BY <1>1 DEF ElectInv, FollowInv, TypeOK, RaftRecord
<1>4. raft'[n] = s /\ \A p \in Node \ {n} : raft'[p] = raft[p]
  BY <1>1 DEF ElectInv, FollowInv, TypeOK
<1>t. PICK u : u = t
  OBVIOUS
<1> HIDE DEF M, s, t
<1>5. RanByNow(n, u)
  BY <1>1, <1>t DEF Ran, RanByNow
<1>6. Winners'
  BY <1>1, <1>2, <1>5, <1>t, WinnersKept DEF ElectInv
<1>7. Runners'
  BY <1>1, <1>3, <1>4, <1>5, <1>t DEF ElectInv, Runners, Ran, RanByNow
<1> QED
  BY <1>6, <1>7

LEMMA ElectStep == Steady /\ ElectInv /\ [Next]_vars => ElectInv'
<1> SUFFICES ASSUME Steady, ElectInv, [Next]_vars PROVE ElectInv'
  OBVIOUS
<1>1. SafetyInv' /\ FollowInv'
  BY SafetyInductive, FollowStep DEF ElectInv
<1>2. ASSUME NEW n \in Node, NEW s, NEW M, Plain(n, s, M) PROVE Runners' /\ Winners'
  BY <1>2, PlainKeepsWinners
<1>3. ASSUME NEW m \in sent, WinElection(m) PROVE Runners' /\ Winners'
  BY <1>1, <1>3, VictoryKeepsWinners
<1>4. ASSUME NEW n \in Node, Restart(n) PROVE FALSE
  BY <1>4 DEF Restart, Steady, ElectInv, FollowInv, TypeOK
<1>5. CASE UNCHANGED vars
  <2>1. Runners'
    BY <1>5 DEF vars, ElectInv, Runners, Ran
  <2>2. Winners'
    BY <1>5, WinnersKept DEF vars, ElectInv
  <2> QED
    BY <1>1, <2>1, <2>2 DEF ElectInv
<1> QED
  BY <1>1, <1>2, <1>3, <1>4, <1>5, StepShape DEF ElectInv

LEMMA ElectInit == Init => ElectInv
BY SafetyInit, FollowInit DEF Init, Fresh, ElectInv, Runners, Winners

-----------------------------------------------------------------------------
\* A step that is no victory is a step of Election, or none.
LEMMA PlainMaps ==
    ASSUME ElectInv, NEW n \in Node, NEW s, NEW M, Plain(n, s, M)
    PROVE  [Abstract!Next]_(Abstract!vars)
<1> DEFINE T == [p \in Node |-> raft[p].turn]
           L == [p \in Node |-> raft[p].leader]
<1>1. /\ raft'[n] = s
      /\ \A p \in Node \ {n} : raft'[p] = raft[p]
      /\ raft[n].turn \in Nat /\ s.turn \in Turn /\ s.leader \in Node \cup {None}
      /\ s.turn \in Nat
  BY BoundsAssumption DEF Plain, ElectInv, FollowInv, TypeOK, RaftRecord, Turn
<1>2. T' = [T EXCEPT ![n] = s.turn] /\ L' = [L EXCEPT ![n] = s.leader]
  BY <1>1
<1>3. Elected' = Elected
  BY DEF Plain, Elected
<1>4. T[n] = raft[n].turn /\ L[n] = raft[n].leader
  OBVIOUS
<1>5. CASE s.turn = raft[n].turn /\ s.leader = raft[n].leader
  <2>1. T' = T /\ L' = L
    BY <1>1, <1>5
  <2> QED
    BY <1>3, <2>1 DEF Abstract!vars
<1>6. CASE s.turn > raft[n].turn /\ s.leader \in {raft[n].leader, None}
  <2>1. L' \in {L, [L EXCEPT ![n] = None]}
    BY <1>1, <1>6
  <2>2. Abstract!Advance(n, s.turn)
    BY <1>2, <1>3, <1>4, <1>6, <2>1 DEF Abstract!Advance
  <2> QED
    BY <1>1, <2>2 DEF Abstract!Next
<1>7. CASE s.leader # None /\ Won(s.leader, s.turn)
  <2>1. <<s.turn, s.leader>> \in Elected
    BY <1>7 DEF Won, Elected
  <2>2. Abstract!Follow(n, s.turn, s.leader)
    BY <1>2, <1>3, <1>4, <2>1 DEF Abstract!Follow, Plain
  <2> QED
    BY <1>1, <1>7, <2>2 DEF Abstract!Next
<1> QED
  BY <1>1, <1>5, <1>6, <1>7 DEF Plain

\* A victory is the only one of its turn.
LEMMA VictoryMaps ==
    ASSUME Steady, ViewsOverlap, ElectInv, ElectInv', NEW m \in sent, WinElection(m)
    PROVE  [Abstract!Next]_(Abstract!vars)
<1> DEFINE n == m.to
           t == raft[n].turn
           s == [raft[n] EXCEPT !.nb_vote = @ + 1, !.state = "leader"]
           N == ToOthers("leader-elected", n, view[n], t)
           T == [p \in Node |-> raft[p].turn]
           L == [p \in Node |-> raft[p].leader]
<1>1. /\ n \in Node /\ t \in Turn /\ raft' = [raft EXCEPT ![n] = s] /\ sent' = sent \cup N
      /\ view[n] \in SUBSET Node
  BY WinnerHasQuorum DEF ElectInv
<1>2. \A x \in N : x.type = "leader-elected" /\ x.from = n /\ x.turn = t
  BY <1>1, ToOthersType DEF PlainType
<1>3. s.turn = t /\ s.leader = raft[n].leader
  BY <1>1 DEF ElectInv, FollowInv, TypeOK, RaftRecord
<1>4. T' = T /\ L' = L
  BY <1>1, <1>3 DEF ElectInv, FollowInv, TypeOK
<1>5. N = {} \/ \E x \in N : x \in sent'
  BY <1>1
<1> DEFINE E == Elected
<1>6. /\ N = {} => E' = E
      /\ N # {} => E' = E \cup {<<t, n>>}
  BY <1>1, <1>2 DEF Elected
<1>7. ASSUME NEW p \in Node, <<t, p>> \in E, N # {} PROVE p = n
  <2>1. PICK e \in sent : e.type = "leader-elected" /\ e.from = p /\ e.turn = t
    BY <1>7 DEF Elected
  <2>2. PICK x \in N : x \in sent'
    BY <1>5, <1>7
  <2>3. PICK u : u = t
    OBVIOUS
  <2>4. RanByNow(n, u) /\ RanByNow(p, u)
    BY <1>1, <1>2, <2>1, <2>2, <2>3 DEF ElectInv, Winners, Ran, RanByNow
  <2>5. /\ \E V \in Views : Cardinality(VotersIn(counted', n, u)) + 1 >= QuorumSize(V)
        /\ \E W \in Views : Cardinality(VotersIn(counted', p, u)) + 1 >= QuorumSize(W)
    BY <1>1, <1>2, <2>1, <2>2, <2>3 DEF ElectInv, Winners, Quorate
  <2>6. counted' \subseteq Ballots'
    BY DEF ElectInv, SafetyInv, TypeOK, Ballots
  <2>7. \A v \in counted' : v.turn = u => v.from # n /\ v.from # p
    BY <2>4, <2>6 DEF ElectInv, SafetyInv, OneChoicePerTurn, Ran, RanByNow
  <2>8. \A v, w \in counted' : v.turn = u /\ w.turn = u /\ v.from = w.from => v.to = w.to
    BY <2>6 DEF ElectInv, SafetyInv, OneChoicePerTurn
  <2> HIDE DEF N, n, t
  <2> QED
    BY <1>1, <2>5, <2>7, <2>8, OneWinner
<1>8. CASE E' = E
  BY <1>4, <1>8 DEF Abstract!vars
<1>9. CASE E' # E
  <2>1. N # {} /\ E' = E \cup {<<t, n>>} /\ \A p \in Node : <<t, p>> \notin E
    BY <1>6, <1>7, <1>9
  <2>2. T[n] = t
    BY <1>1
  <2>3. Abstract!Elect(n)
    BY <1>4, <2>1, <2>2 DEF Abstract!Elect
  <2> QED
    BY <1>1, <2>3 DEF Abstract!Next
<1> QED
  BY <1>8, <1>9

LEMMA StepMaps ==
    ASSUME Steady, ViewsOverlap, ElectInv, ElectInv', [Next]_vars
    PROVE  [Abstract!Next]_(Abstract!vars)
<1>1. ASSUME NEW n \in Node, Restart(n) PROVE FALSE
  BY <1>1 DEF Restart, Steady, ElectInv, FollowInv, TypeOK
<1>2. CASE UNCHANGED vars
  BY <1>2 DEF vars, Abstract!vars, Elected
<1> QED
  BY <1>1, <1>2, PlainMaps, VictoryMaps, StepShape DEF ElectInv

LEMMA InitMaps == Init => Abstract!Init
BY DEF Init, Fresh, Abstract!Init, Elected

\* raft.py implements the election of one node per turn: for every zone whose
\* memberships overlap, every bound, and all that messages, timers and changes of
\* membership do, when nobody restarts and no vote is duplicated.
THEOREM Refinement == ASSUME Steady, ViewsOverlap PROVE Spec => ElectsOncePerTurn
<1>1. ElectInv /\ [Next]_vars => ElectInv'
  BY ElectStep
<1>2. ElectInv /\ ElectInv' /\ [Next]_vars => [Abstract!Next]_(Abstract!vars)
  BY StepMaps
<1> QED
  BY <1>1, <1>2, ElectInit, InitMaps, PTL DEF Spec, ElectsOncePerTurn, Abstract!Spec
=============================================================================
