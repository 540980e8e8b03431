------------------------- MODULE RaftElectionProofs -------------------------
(***************************************************************************)
(* Theorems about RaftElection, for every zone, every set of memberships   *)
(* and every bound.                                                        *)
(*                                                                         *)
(* TypeCorrect needs nothing.  The election safety results are for agents  *)
(* that are not restarted, a network that duplicates no VOTE, and          *)
(* memberships that overlap (ViewsOverlap): TLC shows that each of the     *)
(* three is needed.                                                        *)
(***************************************************************************)
EXTENDS RaftElection, FiniteSetTheorems, TLAPS

USE DEF Turn, RaftState

-----------------------------------------------------------------------------
\* What CatchUp does to a record: nothing, unless it moves it to the newer turn as
\* a node that neither runs, leads nor has voted.
LEMMA CatchUpFacts ==
    ASSUME NEW r \in RaftRecord, NEW t \in Turn
    PROVE  LET c == CatchUp(r, t) IN
           /\ c \in RaftRecord
           /\ c.turn >= r.turn /\ c.turn >= t
           /\ t <= r.turn => c = r
           /\ t > r.turn => /\ c.turn = t
                            /\ c.state \in {"follower", "wait_for_candidate"}
           /\ (r.state = "follower" <=> r.leader # None)
              => (c.state = "follower" <=> c.leader # None)
<1>. r.turn \in Nat /\ t \in Nat /\ MaxTurn \in Nat
    BY BoundsAssumption DEF RaftRecord
<1>1. CASE t <= r.turn
    BY <1>1 DEF CatchUp
<1>2. CASE t > r.turn /\ r.state \in {"follower", "wait_for_candidate"}
    BY <1>2 DEF CatchUp, RaftRecord
<1>3. CASE t > r.turn /\ r.state \notin {"follower", "wait_for_candidate"}
  <2>1. CatchUp(r, t) = [Failed(r) EXCEPT !.turn = t]
      BY <1>3 DEF CatchUp
  <2>2. Failed(r) = [state |-> "wait_for_candidate", turn |-> r.turn + 1, leader |-> None,
                     nb_vote |-> 0, vote_for |-> None]
      BY DEF Failed, Fresh
  <2>3. CatchUp(r, t) = [state |-> "wait_for_candidate", turn |-> t, leader |-> None,
                         nb_vote |-> 0, vote_for |-> None]
      BY <2>1, <2>2
  <2>. QED  BY <1>3, <2>3 DEF RaftRecord
<1>. QED  BY <1>1, <1>2, <1>3

LEMMA FreshType == Fresh \in RaftRecord /\ Fresh.turn = 0
BY BoundsAssumption DEF Fresh, RaftRecord

LEMMA RecordUpdates ==
    ASSUME NEW r \in RaftRecord
    PROVE  /\ [r EXCEPT !.state = "candidate", !.nb_vote = 1] \in RaftRecord
           /\ [r EXCEPT !.nb_vote = @ + 1] \in RaftRecord
           /\ [r EXCEPT !.nb_vote = @ + 1, !.state = "leader"] \in RaftRecord
<1>. DEFINE k == r.nb_vote + 1
<1>1. k \in Nat  BY DEF RaftRecord
<1>2. [r EXCEPT !.nb_vote = k, !.state = "leader"] \in RaftRecord
  <2>. HIDE DEF k
  <2>. QED  BY <1>1 DEF RaftRecord
<1>3. [r EXCEPT !.state = "candidate", !.nb_vote = 1] \in RaftRecord
  BY DEF RaftRecord
<1>. QED  BY <1>1, <1>2, <1>3 DEF RaftRecord

\* Messages a node sends are messages.
LEMMA ToOthersType ==
    ASSUME NEW type \in PlainType, NEW n \in Node, NEW D \in SUBSET Node, NEW t \in Turn
    PROVE  /\ ToOthers(type, n, D, t) \subseteq Message
           /\ \A m \in ToOthers(type, n, D, t) :
                 m \notin Ballot /\ m.type = type /\ m.from = n /\ m.turn = t
BY DEF ToOthers, Message, Ballot, PlainType

LEMMA DummiesType ==
    ASSUME TypeOK, NEW n \in Node, NEW t \in Turn
    PROVE  /\ Dummies(n, t) \subseteq Message
           /\ \A m \in Dummies(n, t) : m \notin Ballot /\ m.type = "dummy"
<1>1. view[n] \in SUBSET Node
    BY ViewsAssumption DEF TypeOK
<1>2. "dummy" \in PlainType
    BY DEF PlainType
<1>. QED  BY <1>1, <1>2, ToOthersType DEF Dummies

\* Handling a message leaves the counters within their types.
LEMMA PopType ==
    ASSUME TypeOK, NEW m \in sent, Pop(m)
    PROVE  /\ m \in Message
           /\ m.to \in Node /\ m.from \in Node /\ m.turn \in Turn
           /\ counted \subseteq counted'
           /\ counted' \subseteq sent \cap Ballot
           /\ dups' \in 0..MaxDups
BY BoundsAssumption DEF Pop, TypeOK, Message, Ballot, PlainType

-----------------------------------------------------------------------------
\* A node whose record changes, and messages added to those sent.
LEMMA StepType ==
    ASSUME TypeOK, NEW n \in Node, NEW s \in RaftRecord, NEW M \in SUBSET Message,
           raft' = [raft EXCEPT ![n] = s],
           sent' = sent \cup M,
           counted' \subseteq sent \cap Ballot,
           dups' \in 0..MaxDups,
           UNCHANGED <<view, boots>>
    PROVE  TypeOK'
BY DEF TypeOK

LEMMA TypeInductive == TypeOK /\ [Next]_vars => TypeOK'
<1>. SUFFICES ASSUME TypeOK, [Next]_vars  PROVE TypeOK'
    OBVIOUS
<1>1. ASSUME NEW m \in sent, ReceiveOld(m)  PROVE TypeOK'
  <2>1. Pop(m)  BY <1>1 DEF ReceiveOld
  <2>2. raft[m.to] \in RaftRecord  BY <2>1, PopType DEF TypeOK
  <2>3. raft[m.to].turn \in Turn  BY <2>2 DEF RaftRecord
  <2>4. ToOthers("warn-old-election-turn", m.to, {m.from}, raft[m.to].turn) \subseteq Message
      BY <2>1, <2>3, PopType, ToOthersType DEF PlainType
  <2>5. raft' = [raft EXCEPT ![m.to] = raft[m.to]]  BY <1>1 DEF ReceiveOld, TypeOK
  <2>. QED  BY <1>1, <2>1, <2>2, <2>4, <2>5, PopType, StepType DEF ReceiveOld
<1>2. ASSUME NEW m \in sent, ReceiveTurn(m)  PROVE TypeOK'
  <2>1. Pop(m)  BY <1>2 DEF ReceiveTurn, Dispatched
  <2>2. raft[m.to] \in RaftRecord  BY <2>1, PopType DEF TypeOK
  <2>. QED  BY <1>2, <2>1, <2>2, PopType, CatchUpFacts, DummiesType, StepType DEF ReceiveTurn
<1>3. ASSUME NEW m \in sent, GrantVote(m)  PROVE TypeOK'
  <2>. DEFINE n == m.to
              r == CatchUp(raft[n], m.turn)
              vote == [type |-> "vote", from |-> n, to |-> m.from, turn |-> r.turn,
                       boot |-> boots[n]]
              forwards == {[m EXCEPT !.to = d] : d \in view[n] \ {n}}
              M == Dummies(n, m.turn) \cup forwards
                      \cup (IF m.from = n THEN {} ELSE {vote})
              s == [r EXCEPT !.state = "did-vote", !.vote_for = m.from]
  <2>1. Pop(m) /\ m.type = "ask-vote"  BY <1>3 DEF GrantVote, Dispatched
  <2>2. n \in Node /\ m.from \in Node /\ m.turn \in Turn  BY <2>1, PopType
  <2>3. r \in RaftRecord  BY <2>2, CatchUpFacts DEF TypeOK
  <2>4. s \in RaftRecord  BY <2>2, <2>3 DEF RaftRecord
  <2>5. vote \in Message
      BY <2>2, <2>3 DEF Message, Ballot, RaftRecord, TypeOK
  <2>6. forwards \subseteq Message
    <3>1. view[n] \subseteq Node  BY <2>2, ViewsAssumption DEF TypeOK
    <3>2. m \in [type : PlainType, from : Node, to : Node, turn : Turn]
        BY <2>1, PopType DEF Message, Ballot
    <3>. QED  BY <3>1, <3>2 DEF Message
  <2>7. M \subseteq Message  BY <2>2, <2>5, <2>6, DummiesType
  <2>8. raft' = [raft EXCEPT ![n] = s] /\ sent' = sent \cup M
      BY <1>3 DEF GrantVote
  <2>9. UNCHANGED <<view, boots>>  BY <1>3 DEF GrantVote
  <2>. HIDE DEF n, s, M
  <2>. QED  BY <2>1, <2>2, <2>4, <2>7, <2>8, <2>9, PopType, StepType
<1>4. ASSUME NEW m \in sent, RefuseVote(m)  PROVE TypeOK'
  <2>1. Pop(m)  BY <1>4 DEF RefuseVote, Dispatched
  <2>2. raft[m.to] \in RaftRecord  BY <2>1, PopType DEF TypeOK
  <2>. QED  BY <1>4, <2>1, <2>2, PopType, CatchUpFacts, DummiesType, StepType DEF RefuseVote
<1>5. ASSUME NEW m \in sent, WinElection(m)  PROVE TypeOK'
  <2>. DEFINE n == m.to
              r == CatchUp(raft[n], m.turn)
              s == [r EXCEPT !.nb_vote = @ + 1, !.state = "leader"]
  <2>1. Pop(m)  BY <1>5 DEF WinElection, Dispatched
  <2>2. n \in Node /\ m.turn \in Turn  BY <2>1, PopType
  <2>3. r \in RaftRecord  BY <2>2, CatchUpFacts DEF TypeOK
  <2>4. s \in RaftRecord  BY <2>3, RecordUpdates
  <2>5. view[n] \in SUBSET Node /\ r.turn \in Turn
      BY <2>2, <2>3, ViewsAssumption DEF TypeOK, RaftRecord
  <2>6. ToOthers("leader-elected", n, view[n], r.turn) \subseteq Message
      BY <2>2, <2>5, ToOthersType DEF PlainType
  <2>. QED  BY <1>5, <2>1, <2>2, <2>4, <2>6, PopType, StepType DEF WinElection
<1>6. ASSUME NEW m \in sent, CountVote(m)  PROVE TypeOK'
  <2>. DEFINE n == m.to
              r == CatchUp(raft[n], m.turn)
              s == IF r.state = "candidate" THEN [r EXCEPT !.nb_vote = @ + 1] ELSE r
  <2>1. Pop(m)  BY <1>6 DEF CountVote, Dispatched
  <2>2. n \in Node /\ m.turn \in Turn  BY <2>1, PopType
  <2>3. r \in RaftRecord  BY <2>2, CatchUpFacts DEF TypeOK
  <2>4. s \in RaftRecord  BY <2>3 DEF RaftRecord
  <2>. QED  BY <1>6, <2>1, <2>2, <2>4, PopType, DummiesType, StepType DEF CountVote
<1>7. ASSUME NEW m \in sent, ReceiveLeaderElected(m)  PROVE TypeOK'
  <2>. DEFINE n == m.to
              r == CatchUp(raft[n], m.turn)
              s == IF m.from = n THEN r ELSE FollowLeader(r, m.from)
  <2>1. Pop(m)  BY <1>7 DEF ReceiveLeaderElected, Dispatched
  <2>2. n \in Node /\ m.turn \in Turn /\ m.from \in Node  BY <2>1, PopType
  <2>3. r \in RaftRecord  BY <2>2, CatchUpFacts DEF TypeOK
  <2>4. s \in RaftRecord  BY <2>2, <2>3 DEF RaftRecord, FollowLeader
  <2>. QED  BY <1>7, <2>1, <2>2, <2>4, PopType, DummiesType, StepType DEF ReceiveLeaderElected
<1>8. ASSUME NEW n \in Node, FailToElect(n)  PROVE TypeOK'
  <2>1. raft[n] \in RaftRecord  BY DEF TypeOK
  <2>2. Failed(raft[n]) \in RaftRecord
      BY <1>8, <2>1, BoundsAssumption DEF FailToElect, Failed, Fresh, RaftRecord
  <2>. QED  BY <1>8, <2>2 DEF FailToElect, TypeOK
<1>9. ASSUME NEW n \in Node, LookForCandidated(n)  PROVE TypeOK'
  <2>1. raft[n].turn \in Turn /\ view[n] \in SUBSET Node
      BY ViewsAssumption DEF TypeOK, RaftRecord
  <2>2. ToOthers("ask-vote", n, view[n], raft[n].turn) \subseteq Message
      BY <2>1, ToOthersType DEF PlainType
  <2>3. raft' \in [Node -> RaftRecord]
      BY <1>9, RecordUpdates DEF LookForCandidated, TypeOK
  <2>. QED  BY <1>9, <2>2, <2>3 DEF LookForCandidated, TypeOK
<1>10. ASSUME NEW n \in Node, LaunchHeartbeat(n)  PROVE TypeOK'
  <2>1. raft[n].turn \in Turn /\ view[n] \in SUBSET Node
      BY ViewsAssumption DEF TypeOK, RaftRecord
  <2>2. ToOthers("leader-heartbeat", n, view[n], raft[n].turn) \subseteq Message
      BY <2>1, ToOthersType DEF PlainType
  <2>. QED  BY <1>10, <2>2 DEF LaunchHeartbeat, TypeOK
<1>11. ASSUME NEW n \in Node, ViewChange(n)  PROVE TypeOK'
  BY <1>11 DEF ViewChange, TypeOK
<1>12. ASSUME NEW n \in Node, Restart(n)  PROVE TypeOK'
  BY <1>12, FreshType, BoundsAssumption DEF Restart, TypeOK
<1>13. CASE UNCHANGED vars
  BY <1>13 DEF vars, TypeOK
<1>. QED
  BY <1>1, <1>2, <1>3, <1>4, <1>5, <1>6, <1>7, <1>8, <1>9, <1>10, <1>11, <1>12, <1>13
     DEF Next, Receive

\* Every record, message and counter of the election stays within its type.
THEOREM TypeCorrect == Spec => []TypeOK
<1>1. Init => TypeOK
    BY FreshType, BoundsAssumption DEF Init, TypeOK
<1>. QED  BY <1>1, TypeInductive, PTL DEF Spec

-----------------------------------------------------------------------------
(***************************************************************************)
(* Election safety.  OneLeaderPerTurn is not inductive: what makes it true *)
(* is that a vote binds its voter, in its turn, for as long as it is in    *)
(* that turn (BallotsBind), that so does a candidature (RunsBind), and     *)
(* that the counter of a candidate counts distinct voters (VotesCounted).  *)
(***************************************************************************)
Steady == MaxRestarts = 0 /\ MaxDups = 0

Coherent(r) == r.state = "follower" <=> r.leader # None

BallotsBind ==
    \A v \in Ballots :
        /\ v.from # v.to
        /\ v.turn <= raft[v.from].turn
        /\ v.turn = raft[v.from].turn => raft[v.from].state \in {"did-vote", "follower"}

RunsBind ==
    \A m \in sent : m.type = "ask-vote" =>
        /\ m.turn <= raft[m.from].turn
        /\ m.turn = raft[m.from].turn
           => raft[m.from].state \in {"candidate", "leader", "follower"}

\* Whose votes for n in turn t are in C.
VotersIn(C, n, t) == {p \in Node : \E v \in C : v.from = p /\ v.to = n /\ v.turn = t}

VotesCounted ==
    \A n \in Node :
        /\ raft[n].state = "candidate" =>
             raft[n].nb_vote <= Cardinality(VotersIn(counted, n, raft[n].turn)) + 1
        /\ raft[n].state = "leader" =>
             \E V \in Views :
                 Cardinality(VotersIn(counted, n, raft[n].turn)) + 1 >= QuorumSize(V)

AllCoherent == \A n \in Node : Coherent(raft[n])

SafetyInv ==
    /\ TypeOK
    /\ AllCoherent
    /\ BallotsBind
    /\ RunsBind
    /\ OneChoicePerTurn
    /\ VotesCounted

LEMMA VotersInFinite ==
    ASSUME NEW C, NEW n, NEW t
    PROVE  /\ IsFiniteSet(VotersIn(C, n, t))
           /\ Cardinality(VotersIn(C, n, t)) \in Nat
BY NodeAssumption, FS_Subset, FS_CardinalityType DEF VotersIn

LEMMA QuorumSizeType == \A V \in Views : QuorumSize(V) \in Nat
<1>. TAKE V \in Views
<1>1. IsFiniteSet(V)  BY ViewsAssumption, NodeAssumption, FS_Subset
<1>2. Cardinality(V) \in Nat  BY <1>1, FS_CardinalityType
<1>. QED  BY <1>2 DEF QuorumSize

\* More handled votes never mean fewer voters.
LEMMA VotersInGrow ==
    ASSUME NEW C, NEW D, C \subseteq D, NEW n, NEW t
    PROVE  Cardinality(VotersIn(C, n, t)) <= Cardinality(VotersIn(D, n, t))
<1>1. VotersIn(C, n, t) \subseteq VotersIn(D, n, t)
    BY DEF VotersIn
<1>. QED  BY <1>1, VotersInFinite, FS_Subset

\* The steps that neither vote, run, count nor win: node n comes to record s and
\* plain messages M are sent.
Quiet(n, s, M) ==
    /\ raft' = [raft EXCEPT ![n] = s]
    /\ s \in RaftRecord
    /\ Coherent(s)
    /\ s.turn >= raft[n].turn
    /\ s.turn = raft[n].turn => s = raft[n] \/ s.state = "follower"
    /\ s.turn > raft[n].turn => s.state \in {"wait_for_candidate", "follower"}
    /\ sent' = sent \cup M
    /\ \A m \in M : m \notin Ballot /\ m.type # "ask-vote"
    /\ counted \subseteq counted'

LEMMA QuietKeeps ==
    ASSUME SafetyInv, TypeOK', NEW n \in Node, NEW s, NEW M, Quiet(n, s, M)
    PROVE  SafetyInv'
<1>. USE DEF SafetyInv
<1>0. /\ \A p \in Node : raft[p] \in RaftRecord /\ raft'[p] \in RaftRecord
      /\ \A p \in Node : raft[p].turn \in Nat /\ raft'[p].turn \in Nat
      /\ raft'[n] = s
      /\ \A p \in Node : p # n => raft'[p] = raft[p]
      /\ \A m \in sent : m.from \in Node /\ m.turn \in Nat
    BY BoundsAssumption DEF Quiet, TypeOK, RaftRecord, Message, Ballot
<1>1. Ballots' = Ballots
    BY DEF Quiet, Ballots
<1>2. \A m \in sent' : m.type = "ask-vote" => m \in sent
    BY DEF Quiet
<1>3. AllCoherent'
    BY <1>0 DEF AllCoherent, Quiet
<1>4. BallotsBind'
  <2>. SUFFICES ASSUME NEW v \in Ballots
                PROVE  /\ v.from # v.to
                       /\ v.turn <= raft'[v.from].turn
                       /\ v.turn = raft'[v.from].turn
                          => raft'[v.from].state \in {"did-vote", "follower"}
      BY <1>1 DEF BallotsBind
  <2>1. v \in sent  BY DEF Ballots
  <2>. QED  BY <1>0, <2>1 DEF BallotsBind, Quiet
<1>5. RunsBind'
  <2>. SUFFICES ASSUME NEW m \in sent, m.type = "ask-vote"
                PROVE  /\ m.turn <= raft'[m.from].turn
                       /\ m.turn = raft'[m.from].turn
                          => raft'[m.from].state \in {"candidate", "leader", "follower"}
      BY <1>2 DEF RunsBind
  <2>. QED  BY <1>0 DEF RunsBind, Quiet
<1>6. OneChoicePerTurn'
    BY <1>1, <1>2 DEF OneChoicePerTurn, Ran
<1>7. VotesCounted'
  <2>. SUFFICES ASSUME NEW p \in Node
                PROVE  /\ raft'[p].state = "candidate" =>
                            raft'[p].nb_vote <= Cardinality(VotersIn(counted', p, raft'[p].turn)) + 1
                       /\ raft'[p].state = "leader" =>
                            \E V \in Views :
                               Cardinality(VotersIn(counted', p, raft'[p].turn)) + 1 >= QuorumSize(V)
      BY DEF VotesCounted
  <2>1. raft'[p].state \in {"candidate", "leader"} => raft'[p] = raft[p]
      BY <1>0 DEF Quiet
  <2>2. raft[p].turn \in Turn /\ raft[p].nb_vote \in Nat
      BY <1>0 DEF RaftRecord
  <2>3. /\ Cardinality(VotersIn(counted, p, raft[p].turn)) \in Nat
        /\ Cardinality(VotersIn(counted', p, raft[p].turn)) \in Nat
        /\ Cardinality(VotersIn(counted, p, raft[p].turn))
             <= Cardinality(VotersIn(counted', p, raft[p].turn))
    <3>1. counted \subseteq counted'  BY DEF Quiet
    <3>. QED  BY <2>2, <3>1, VotersInFinite, VotersInGrow
  <2>4. /\ raft[p].state = "candidate" =>
             raft[p].nb_vote <= Cardinality(VotersIn(counted, p, raft[p].turn)) + 1
        /\ raft[p].state = "leader" =>
             \E V \in Views :
                 Cardinality(VotersIn(counted, p, raft[p].turn)) + 1 >= QuorumSize(V)
      BY DEF VotesCounted
  <2>. QED  BY <2>1, <2>2, <2>3, <2>4, QuorumSizeType
<1>. QED  BY <1>3, <1>4, <1>5, <1>6, <1>7

\* A message handled for the first time: nothing is duplicated in a Steady run.
LEMMA SteadyPop ==
    ASSUME Steady, TypeOK, NEW m \in sent, Pop(m)
    PROVE  m \notin counted /\ counted' = counted \cup ({m} \cap Ballot)
BY DEF Steady, Pop, TypeOK

\* The record that a node catches up with, before the message is dispatched.
LEMMA CaughtUp ==
    ASSUME TypeOK, AllCoherent, NEW m \in sent, Pop(m), raft[m.to].turn <= m.turn
    PROVE  LET q == raft[m.to]  r == CatchUp(q, m.turn) IN
           /\ q \in RaftRecord /\ r \in RaftRecord
           /\ q.turn \in Nat /\ r.turn = m.turn /\ m.turn \in Nat
           /\ Coherent(q) /\ Coherent(r)
           /\ r.turn >= q.turn
           /\ r.turn = q.turn => r = q
           /\ r.turn > q.turn => r.state \in {"wait_for_candidate", "follower"}
<1>1. m.to \in Node /\ m.turn \in Turn  BY PopType
<1>2. raft[m.to] \in RaftRecord  BY <1>1 DEF TypeOK
<1>3. Coherent(raft[m.to])  BY <1>1 DEF AllCoherent
<1>4. raft[m.to].turn \in Nat /\ m.turn \in Nat
    BY <1>1, <1>2, BoundsAssumption DEF RaftRecord
<1>. QED  BY <1>1, <1>2, <1>3, <1>4, CatchUpFacts DEF Coherent

\* A vote that is given binds a node that neither ran nor voted in this turn.
LEMMA GrantVoteKeeps ==
    ASSUME SafetyInv, TypeOK', NEW m \in sent, GrantVote(m)
    PROVE  SafetyInv'
<1>. USE DEF SafetyInv
<1>. DEFINE n == m.to
            q == raft[n]
            r == CatchUp(q, m.turn)
            s == [r EXCEPT !.state = "did-vote", !.vote_for = m.from]
            vote == [type |-> "vote", from |-> n, to |-> m.from, turn |-> r.turn,
                     boot |-> boots[n]]
            forwards == {[m EXCEPT !.to = d] : d \in view[n] \ {n}}
<1>1. Pop(m) /\ m.type = "ask-vote" /\ q.turn <= m.turn /\ MayVote(r)
    BY DEF GrantVote, Dispatched
<1>2. /\ n \in Node /\ m.from \in Node
      /\ counted \subseteq counted' /\ counted' \subseteq Ballots
      /\ m \in [type : PlainType, from : Node, to : Node, turn : Turn]
    BY <1>1, PopType DEF Ballots, Message, Ballot
<1>3. /\ q.turn \in Nat /\ r \in RaftRecord
      /\ Coherent(r) /\ r.turn = m.turn
      /\ r.turn >= q.turn
      /\ r.turn = q.turn => r = q
    BY <1>1, CaughtUp
<1>4. s.turn = r.turn /\ s.state = "did-vote" /\ s.leader = None
    BY <1>1, <1>3 DEF RaftRecord, MayVote
<1>5. r.state = "wait_for_candidate"
    BY <1>1, <1>3 DEF MayVote, Coherent
<1>6. /\ raft' = [raft EXCEPT ![n] = s]
      /\ sent' = sent \cup Dummies(n, m.turn) \cup forwards
                      \cup (IF m.from = n THEN {} ELSE {vote})
    BY DEF GrantVote
<1>7. /\ raft'[n] = s
      /\ \A p \in Node : p # n => raft'[p] = raft[p]
      /\ \A p \in Node : raft[p].turn \in Nat
      /\ \A w \in sent : w.from \in Node /\ w.turn \in Nat
    BY <1>2, <1>6, BoundsAssumption DEF TypeOK, RaftRecord, Message, Ballot
<1>8. \A w \in sent : w.from = n /\ w.turn = r.turn =>
                         w \notin Ballot /\ w.type # "ask-vote"
  <2>. SUFFICES ASSUME NEW w \in sent, w.from = n, w.turn = r.turn
                PROVE  w \notin Ballot /\ w.type # "ask-vote"
      OBVIOUS
  <2>1. w \in Ballot => w.turn <= q.turn /\ (w.turn = q.turn => q.state \in {"did-vote", "follower"})
      BY DEF BallotsBind, Ballots
  <2>2. w.type = "ask-vote" => /\ w.turn <= q.turn
                               /\ w.turn = q.turn => q.state \in {"candidate", "leader", "follower"}
      BY DEF RunsBind
  <2>3. w.turn \in Nat /\ (r.turn = q.turn => q.state = "wait_for_candidate")
      BY <1>3, <1>5, <1>7
  <2>. HIDE DEF r, q
  <2>. QED  BY <1>3, <2>1, <2>2, <2>3
<1>9. m.from # n
    BY <1>1, <1>3, <1>8
<1>10. \A w \in Dummies(n, m.turn) : w \notin Ballot /\ w.type = "dummy"
    BY <1>1, <1>2, PopType, DummiesType
<1>11. \A w \in forwards : /\ w \notin Ballot
                           /\ w.type = "ask-vote" /\ w.from = m.from /\ w.turn = m.turn
    BY <1>1, <1>2 DEF Ballot
<1>12. Ballots' = Ballots \cup {vote}
  <2>1. vote \in Ballot
      BY <1>2, <1>3 DEF Ballot, RaftRecord, TypeOK
  <2>. HIDE DEF vote, forwards
  <2>. QED  BY <1>6, <1>9, <1>10, <1>11, <2>1 DEF Ballots
<1>13. \A w \in sent' : w.type = "ask-vote" =>
          \E x \in sent : x.type = "ask-vote" /\ x.from = w.from /\ x.turn = w.turn
  <2>1. vote.type = "vote"  OBVIOUS
  <2>. HIDE DEF vote, forwards
  <2>. QED  BY <1>1, <1>6, <1>10, <1>11, <2>1
<1>14. vote.from = n /\ vote.to = m.from /\ vote.turn = r.turn
    OBVIOUS
<1>. HIDE DEF vote, forwards, s
<1>15. AllCoherent'
    BY <1>4, <1>7 DEF AllCoherent, Coherent
<1>16. BallotsBind'
  <2>. SUFFICES ASSUME NEW v \in Ballots'
                PROVE  /\ v.from # v.to
                       /\ v.turn <= raft'[v.from].turn
                       /\ v.turn = raft'[v.from].turn
                          => raft'[v.from].state \in {"did-vote", "follower"}
      BY DEF BallotsBind
  <2>1. CASE v \in Ballots
      BY <1>3, <1>4, <1>7, <1>8, <2>1 DEF BallotsBind, Ballots
  <2>2. CASE v = vote
      BY <1>3, <1>4, <1>7, <1>9, <1>14, <2>2 DEF RaftRecord
  <2>. QED  BY <1>12, <2>1, <2>2
<1>17. RunsBind'
  <2>. SUFFICES ASSUME NEW w \in sent, w.type = "ask-vote"
                PROVE  /\ w.turn <= raft'[w.from].turn
                       /\ w.turn = raft'[w.from].turn
                          => raft'[w.from].state \in {"candidate", "leader", "follower"}
      BY <1>13 DEF RunsBind
  <2>. QED  BY <1>3, <1>4, <1>7, <1>8 DEF RunsBind
<1>18. OneChoicePerTurn'
  <2>1. \A p, t : Ran(p, t)' => Ran(p, t)
      BY <1>13 DEF Ran
  <2>2. ~ Ran(n, r.turn)
      BY <1>8 DEF Ran
  <2>3. \A w \in Ballots : ~ (w.from = n /\ w.turn = r.turn)
      BY <1>8 DEF Ballots
  <2>. QED  BY <1>12, <1>14, <2>1, <2>2, <2>3 DEF OneChoicePerTurn
<1>19. VotesCounted'
  <2>. SUFFICES ASSUME NEW p \in Node, raft'[p].state \in {"candidate", "leader"}
                PROVE  /\ raft'[p].state = "candidate" =>
                            raft'[p].nb_vote <= Cardinality(VotersIn(counted', p, raft'[p].turn)) + 1
                       /\ raft'[p].state = "leader" =>
                            \E V \in Views :
                               Cardinality(VotersIn(counted', p, raft'[p].turn)) + 1 >= QuorumSize(V)
      BY DEF VotesCounted
  <2>1. raft'[p] = raft[p] /\ raft[p].nb_vote \in Nat
      BY <1>4, <1>7 DEF TypeOK, RaftRecord
  <2>2. Cardinality(VotersIn(counted, p, raft[p].turn))
            <= Cardinality(VotersIn(counted', p, raft[p].turn))
      BY <1>2, VotersInGrow
  <2>. QED  BY <2>1, <2>2, VotersInFinite, QuorumSizeType DEF VotesCounted
<1>. QED  BY <1>15, <1>16, <1>17, <1>18, <1>19

\* A candidate that handles a vote of its turn has one voter more.
LEMMA NewVoterCounts ==
    ASSUME Steady, SafetyInv, NEW m \in sent, Pop(m), m.type = "vote"
    PROVE  Cardinality(VotersIn(counted', m.to, m.turn))
             = Cardinality(VotersIn(counted, m.to, m.turn)) + 1
<1>. USE DEF SafetyInv
<1>1. m \in Ballot /\ m.from \in Node
    BY DEF TypeOK, Message, Ballot, PlainType
<1>2. m \notin counted /\ counted' = counted \cup {m}
    BY <1>1, SteadyPop
<1>3. \A v \in counted : v.from = m.from /\ v.turn = m.turn => v.to # m.to
  <2>. SUFFICES ASSUME NEW v \in counted, v.from = m.from, v.turn = m.turn, v.to = m.to
                PROVE  v = m
      BY <1>2
  <2>1. v \in Ballot  BY DEF TypeOK
  <2>2. v.boot = 0 /\ m.boot = 0  BY <1>1, <2>1 DEF Steady, Ballot
  <2>. QED  BY <1>1, <2>1, <2>2 DEF Ballot
<1>4. m.from \notin VotersIn(counted, m.to, m.turn)
    BY <1>3 DEF VotersIn
<1>5. VotersIn(counted', m.to, m.turn) = VotersIn(counted, m.to, m.turn) \cup {m.from}
    BY <1>1, <1>2 DEF VotersIn
<1>. QED  BY <1>4, <1>5, VotersInFinite, FS_AddElement

\* A candidate that handles a vote: one more, as a candidate or as a leader that
\* has a quorum.
LEMMA VoteKeeps ==
    ASSUME Steady, SafetyInv, TypeOK', NEW m \in sent, Pop(m), m.type = "vote",
           NEW M, \A x \in M : x \notin Ballot /\ x.type # "ask-vote",
           sent' = sent \cup M,
           raft[m.to].turn = m.turn, raft[m.to].state = "candidate",
           NEW s \in RaftRecord, raft' = [raft EXCEPT ![m.to] = s],
           s.turn = m.turn, s.leader = None, s.nb_vote = raft[m.to].nb_vote + 1,
           \/ s.state = "candidate"
           \/ s.state = "leader" /\ s.nb_vote >= QuorumSize(view[m.to])
    PROVE  SafetyInv'
<1>. USE DEF SafetyInv
<1>. DEFINE n == m.to
<1>0. /\ n \in Node /\ m.turn \in Nat
      /\ counted \subseteq counted'
      /\ raft'[n] = s
      /\ \A p \in Node : p # n => raft'[p] = raft[p]
      /\ \A p \in Node : raft[p].turn \in Nat /\ raft[p].nb_vote \in Nat
      /\ \A w \in sent : w.from \in Node /\ w.turn \in Nat
    BY PopType, BoundsAssumption DEF TypeOK, RaftRecord, Message, Ballot
<1>1. Ballots' = Ballots
    BY DEF Ballots
<1>2. \A w \in sent' : w.type = "ask-vote" => w \in sent
    OBVIOUS
<1>3. AllCoherent'
    BY <1>0 DEF AllCoherent, Coherent
<1>4. BallotsBind'
  <2>. SUFFICES ASSUME NEW v \in Ballots
                PROVE  /\ v.from # v.to
                       /\ v.turn <= raft'[v.from].turn
                       /\ v.turn = raft'[v.from].turn
                          => raft'[v.from].state \in {"did-vote", "follower"}
      BY <1>1 DEF BallotsBind
  <2>1. v \in sent  BY DEF Ballots
  <2>. QED  BY <1>0, <2>1 DEF BallotsBind
<1>5. RunsBind'
  <2>. SUFFICES ASSUME NEW w \in sent, w.type = "ask-vote"
                PROVE  /\ w.turn <= raft'[w.from].turn
                       /\ w.turn = raft'[w.from].turn
                          => raft'[w.from].state \in {"candidate", "leader", "follower"}
      BY <1>2 DEF RunsBind
  <2>. QED  BY <1>0 DEF RunsBind
<1>6. OneChoicePerTurn'
    BY <1>1, <1>2 DEF OneChoicePerTurn, Ran
<1>7. VotesCounted'
  <2>. SUFFICES ASSUME NEW p \in Node, raft'[p].state \in {"candidate", "leader"}
                PROVE  /\ raft'[p].state = "candidate" =>
                            raft'[p].nb_vote <= Cardinality(VotersIn(counted', p, raft'[p].turn)) + 1
                       /\ raft'[p].state = "leader" =>
                            \E V \in Views :
                               Cardinality(VotersIn(counted', p, raft'[p].turn)) + 1 >= QuorumSize(V)
      BY DEF VotesCounted
  <2>1. CASE p # n
    <3>1. Cardinality(VotersIn(counted, p, raft[p].turn))
            <= Cardinality(VotersIn(counted', p, raft[p].turn))
        BY <1>0, VotersInGrow
    <3>. QED  BY <1>0, <2>1, <3>1, VotersInFinite, QuorumSizeType DEF VotesCounted
  <2>2. CASE p = n
    <3>1. raft[n].nb_vote <= Cardinality(VotersIn(counted, n, m.turn)) + 1
        BY <1>0 DEF VotesCounted
    <3>2. s.nb_vote <= Cardinality(VotersIn(counted', n, m.turn)) + 1
        BY <1>0, <3>1, NewVoterCounts, VotersInFinite
    <3>3. view[n] \in Views /\ QuorumSize(view[n]) \in Nat
        BY <1>0, QuorumSizeType DEF TypeOK
    <3>. QED  BY <1>0, <2>2, <3>2, <3>3, VotersInFinite
  <2>. QED  BY <2>1, <2>2
<1>. QED  BY <1>3, <1>4, <1>5, <1>6, <1>7

\* A node that runs did neither run nor vote in its turn.
LEMMA LookForCandidatedKeeps ==
    ASSUME SafetyInv, TypeOK', NEW n \in Node, LookForCandidated(n)
    PROVE  SafetyInv'
<1>. USE DEF SafetyInv
<1>. DEFINE M == ToOthers("ask-vote", n, view[n], raft[n].turn)
            s == [raft[n] EXCEPT !.state = "candidate", !.nb_vote = 1]
<1>1. raft' = [raft EXCEPT ![n] = s] /\ sent' = sent \cup M /\ counted' = counted
    BY DEF LookForCandidated
<1>2. /\ s.state = "candidate" /\ s.nb_vote = 1
      /\ s.turn = raft[n].turn /\ s.leader = raft[n].leader
    BY DEF TypeOK, RaftRecord
<1>3. raft[n].state = "wait_for_candidate"
    BY DEF LookForCandidated
<1>4. raft[n].leader = None
    BY <1>3 DEF AllCoherent, Coherent
<1>5. \A x \in M : /\ x \notin Ballot /\ x.type = "ask-vote"
                   /\ x.from = n /\ x.turn = raft[n].turn
  <2>1. view[n] \in SUBSET Node /\ raft[n].turn \in Turn
      BY ViewsAssumption DEF TypeOK, RaftRecord
  <2>. QED  BY <2>1, ToOthersType DEF PlainType
<1>. HIDE DEF M, s
<1>6. /\ raft'[n] = s
      /\ \A p \in Node : p # n => raft'[p] = raft[p]
      /\ \A p \in Node : raft[p].turn \in Nat /\ raft[p].nb_vote \in Nat
      /\ \A w \in sent : w.from \in Node /\ w.turn \in Nat
    BY <1>1, BoundsAssumption DEF TypeOK, RaftRecord, Message, Ballot
<1>7. Ballots' = Ballots
    BY <1>1, <1>5 DEF Ballots
<1>8. \A v \in Ballots : ~ (v.from = n /\ v.turn = raft[n].turn)
    BY <1>3 DEF BallotsBind
<1>9. AllCoherent'
    BY <1>2, <1>4, <1>6 DEF AllCoherent, Coherent
<1>10. BallotsBind'
  <2>. SUFFICES ASSUME NEW v \in Ballots
                PROVE  /\ v.from # v.to
                       /\ v.turn <= raft'[v.from].turn
                       /\ v.turn = raft'[v.from].turn
                          => raft'[v.from].state \in {"did-vote", "follower"}
      BY <1>7 DEF BallotsBind
  <2>1. v \in sent  BY DEF Ballots
  <2>. QED  BY <1>2, <1>6, <1>8, <2>1 DEF BallotsBind
<1>11. RunsBind'
  <2>. SUFFICES ASSUME NEW w \in sent', w.type = "ask-vote"
                PROVE  /\ w.turn <= raft'[w.from].turn
                       /\ w.turn = raft'[w.from].turn
                          => raft'[w.from].state \in {"candidate", "leader", "follower"}
      BY DEF RunsBind
  <2>1. CASE w \in sent
      BY <1>2, <1>6, <2>1 DEF RunsBind
  <2>2. CASE w \in M
      BY <1>2, <1>5, <1>6, <2>2
  <2>. QED  BY <1>1, <2>1, <2>2
<1>12. OneChoicePerTurn'
  <2>1. \A p, t : Ran(p, t)' => Ran(p, t) \/ (p = n /\ t = raft[n].turn)
      BY <1>1, <1>5 DEF Ran
  <2>. QED  BY <1>7, <1>8, <2>1 DEF OneChoicePerTurn
<1>13. VotesCounted'
    BY <1>1, <1>2, <1>6, VotersInFinite DEF VotesCounted
<1>. QED  BY <1>9, <1>10, <1>11, <1>12, <1>13

LEMMA SafetyInductive == Steady /\ SafetyInv /\ [Next]_vars => SafetyInv'
<1>. SUFFICES ASSUME Steady, SafetyInv, [Next]_vars  PROVE SafetyInv'
    OBVIOUS
<1>. USE DEF SafetyInv
<1>0. TypeOK'
    BY TypeInductive
<1>r. \A n \in Node : /\ raft[n] \in RaftRecord /\ raft[n].turn \in Nat
                      /\ Coherent(raft[n])
    BY BoundsAssumption DEF TypeOK, RaftRecord, AllCoherent
<1>1. ASSUME NEW m \in sent, ReceiveOld(m)  PROVE SafetyInv'
  <2>. DEFINE M == ToOthers("warn-old-election-turn", m.to, {m.from}, raft[m.to].turn)
  <2>1. Pop(m)  BY <1>1 DEF ReceiveOld
  <2>2. m.to \in Node /\ m.from \in Node /\ counted \subseteq counted'  BY <2>1, PopType
  <2>3. raft[m.to].turn \in Turn  BY <2>2, <1>r DEF RaftRecord
  <2>4. \A x \in M : x \notin Ballot /\ x.type # "ask-vote"
      BY <2>2, <2>3, ToOthersType DEF PlainType
  <2>5. /\ raft' = [raft EXCEPT ![m.to] = raft[m.to]]
        /\ sent' = sent \cup M
      BY <1>1 DEF ReceiveOld, TypeOK
  <2>. HIDE DEF M
  <2>6. Quiet(m.to, raft[m.to], M)
      BY <1>r, <2>2, <2>4, <2>5 DEF Quiet
  <2>. QED  BY <1>0, <2>2, <2>6, QuietKeeps
<1>2. ASSUME NEW m \in sent, ReceiveTurn(m)  PROVE SafetyInv'
  <2>1. Pop(m) /\ raft[m.to].turn <= m.turn  BY <1>2 DEF ReceiveTurn, Dispatched
  <2>2. m.to \in Node /\ m.turn \in Turn /\ counted \subseteq counted'  BY <2>1, PopType
  <2>3. Quiet(m.to, CatchUp(raft[m.to], m.turn), Dummies(m.to, m.turn))
      BY <1>2, <2>1, <2>2, CaughtUp, DummiesType DEF ReceiveTurn, Quiet
  <2>. QED  BY <1>0, <2>2, <2>3, QuietKeeps
<1>3. ASSUME NEW m \in sent, GrantVote(m)  PROVE SafetyInv'
  BY <1>0, <1>3, GrantVoteKeeps
<1>4. ASSUME NEW m \in sent, RefuseVote(m)  PROVE SafetyInv'
  <2>1. Pop(m) /\ raft[m.to].turn <= m.turn  BY <1>4 DEF RefuseVote, Dispatched
  <2>2. m.to \in Node /\ m.turn \in Turn /\ counted \subseteq counted'  BY <2>1, PopType
  <2>3. Quiet(m.to, CatchUp(raft[m.to], m.turn), Dummies(m.to, m.turn))
      BY <1>4, <2>1, <2>2, CaughtUp, DummiesType DEF RefuseVote, Quiet
  <2>. QED  BY <1>0, <2>2, <2>3, QuietKeeps
<1>5. ASSUME NEW m \in sent, WinElection(m)  PROVE SafetyInv'
  <2>. DEFINE n == m.to
              r == CatchUp(raft[n], m.turn)
              s == [r EXCEPT !.nb_vote = @ + 1, !.state = "leader"]
              M == ToOthers("leader-elected", n, view[n], r.turn)
  <2>1. /\ Pop(m) /\ m.type = "vote" /\ raft[n].turn <= m.turn
        /\ r.state = "candidate" /\ r.nb_vote + 1 >= QuorumSize(view[n])
        /\ raft' = [raft EXCEPT ![n] = s] /\ sent' = sent \cup M
      BY <1>5 DEF WinElection, Dispatched
  <2>2. n \in Node /\ m.turn \in Turn  BY <2>1, PopType
  <2>3. r = raft[n] /\ raft[n].turn = m.turn
      BY <1>r, <2>1, <2>2, CaughtUp
  <2>4. r.leader = None
      BY <1>r, <2>1, <2>2, <2>3 DEF Coherent
  <2>5. s \in RaftRecord  BY <1>r, <2>2, <2>3, RecordUpdates
  <2>6. /\ s.turn = m.turn /\ s.leader = None /\ s.state = "leader"
        /\ s.nb_vote = raft[n].nb_vote + 1
      BY <1>r, <2>2, <2>3, <2>4 DEF RaftRecord
  <2>7. view[n] \in SUBSET Node /\ r.turn \in Turn
      BY <2>2, <2>3, ViewsAssumption DEF TypeOK
  <2>8. \A x \in M : x \notin Ballot /\ x.type # "ask-vote"
      BY <2>2, <2>7, ToOthersType DEF PlainType
  <2>9. s.nb_vote >= QuorumSize(view[n])  BY <2>1, <2>3, <2>6
  <2>. HIDE DEF n, r, s, M
  <2>. QED  BY <1>0, <2>1, <2>3, <2>5, <2>6, <2>8, <2>9, VoteKeeps DEF n
<1>6. ASSUME NEW m \in sent, CountVote(m)  PROVE SafetyInv'
  <2>. DEFINE n == m.to
              r == CatchUp(raft[n], m.turn)
              s == [r EXCEPT !.nb_vote = @ + 1]
              M == Dummies(n, m.turn)
  <2>1. /\ Pop(m) /\ m.type = "vote" /\ raft[n].turn <= m.turn /\ sent' = sent \cup M
        /\ raft' = [raft EXCEPT ![n] = IF r.state = "candidate" THEN s ELSE r]
      BY <1>6 DEF CountVote, Dispatched
  <2>2. n \in Node /\ m.turn \in Turn /\ counted \subseteq counted'  BY <2>1, PopType
  <2>3. \A x \in M : x \notin Ballot /\ x.type # "ask-vote"
      BY <2>2, DummiesType
  <2>4. CASE r.state = "candidate"
    <3>1. r = raft[n] /\ raft[n].turn = m.turn
        BY <1>r, <2>1, <2>2, <2>4, CaughtUp
    <3>2. r.leader = None
        BY <1>r, <2>2, <2>4, <3>1 DEF Coherent
    <3>3. s \in RaftRecord  BY <1>r, <2>2, <3>1, RecordUpdates
    <3>4. /\ s.turn = m.turn /\ s.leader = None /\ s.state = "candidate"
          /\ s.nb_vote = raft[n].nb_vote + 1
        BY <1>r, <2>2, <2>4, <3>1, <3>2 DEF RaftRecord
    <3>5. raft' = [raft EXCEPT ![n] = s]  BY <2>1, <2>4
    <3>. HIDE DEF n, r, s, M
    <3>. QED  BY <1>0, <2>1, <2>3, <2>4, <3>1, <3>3, <3>4, <3>5, VoteKeeps DEF n
  <2>5. CASE r.state # "candidate"
    <3>1. Quiet(n, r, M)
        BY <2>1, <2>2, <2>3, <2>5, CaughtUp DEF Quiet
    <3>. QED  BY <1>0, <2>2, <3>1, QuietKeeps
  <2>. QED  BY <2>4, <2>5
<1>7. ASSUME NEW m \in sent, ReceiveLeaderElected(m)  PROVE SafetyInv'
  <2>. DEFINE n == m.to
              r == CatchUp(raft[n], m.turn)
              s == IF m.from = n THEN r ELSE FollowLeader(r, m.from)
              M == Dummies(n, m.turn)
  <2>1. /\ Pop(m) /\ raft[n].turn <= m.turn
        /\ raft' = [raft EXCEPT ![n] = s] /\ sent' = sent \cup M
      BY <1>7 DEF ReceiveLeaderElected, Dispatched
  <2>2. /\ n \in Node /\ m.turn \in Turn /\ m.from \in Node /\ m.from # None
        /\ counted \subseteq counted'
      BY <2>1, PopType, NodeAssumption
  <2>3. \A x \in M : x \notin Ballot /\ x.type # "ask-vote"
      BY <2>2, DummiesType
  <2>4. /\ r \in RaftRecord /\ Coherent(r) /\ r.turn >= raft[n].turn
        /\ r.turn = raft[n].turn => r = raft[n]
        /\ r.turn > raft[n].turn => r.state \in {"wait_for_candidate", "follower"}
      BY <2>1, CaughtUp
  <2>. HIDE DEF r, M
  <2>5. /\ s \in RaftRecord /\ s.turn = r.turn /\ Coherent(s)
        /\ s = r \/ s.state = "follower"
    <3>1. CASE s = r  BY <2>4, <3>1
    <3>2. CASE s # r
      <4>1. s = [r EXCEPT !.leader = m.from, !.nb_vote = 0, !.state = "follower"]
          BY <3>2 DEF FollowLeader
      <4>. HIDE DEF s
      <4>2. s \in RaftRecord  BY <2>2, <2>4, <4>1 DEF RaftRecord
      <4>3. s.turn = r.turn /\ s.state = "follower" /\ s.leader = m.from
          BY <2>4, <4>1 DEF RaftRecord
      <4>. QED  BY <2>2, <4>2, <4>3 DEF Coherent
    <3>. QED  BY <3>1, <3>2
  <2>6. Quiet(n, s, M)
      BY <2>1, <2>2, <2>3, <2>4, <2>5 DEF Quiet
  <2>. QED  BY <1>0, <2>2, <2>6, QuietKeeps
<1>8. ASSUME NEW n \in Node, FailToElect(n)  PROVE SafetyInv'
  <2>. DEFINE s == Failed(raft[n])
  <2>1. s = [state |-> "wait_for_candidate", turn |-> raft[n].turn + 1, leader |-> None,
             nb_vote |-> 0, vote_for |-> None]
      BY DEF Failed, Fresh
  <2>2. raft[n].turn + 1 \in Turn
      BY <1>8, <1>r, BoundsAssumption DEF FailToElect, RaftRecord
  <2>3. Quiet(n, s, {})
      BY <1>8, <1>r, <2>1, <2>2 DEF FailToElect, Quiet, Coherent, RaftRecord
  <2>. QED  BY <1>0, <2>3, QuietKeeps
<1>9. ASSUME NEW n \in Node, LookForCandidated(n)  PROVE SafetyInv'
  BY <1>0, <1>9, LookForCandidatedKeeps
<1>10. ASSUME NEW n \in Node, LaunchHeartbeat(n)  PROVE SafetyInv'
  <2>. DEFINE M == ToOthers("leader-heartbeat", n, view[n], raft[n].turn)
  <2>1. raft[n].turn \in Turn /\ view[n] \in SUBSET Node
      BY <1>r, ViewsAssumption DEF TypeOK, RaftRecord
  <2>2. \A x \in M : x \notin Ballot /\ x.type # "ask-vote"
      BY <2>1, ToOthersType DEF PlainType
  <2>3. Quiet(n, raft[n], M)
      BY <1>10, <1>r, <2>2 DEF LaunchHeartbeat, Quiet, TypeOK
  <2>. QED  BY <1>0, <2>3, QuietKeeps
<1>11. ASSUME NEW n \in Node, ViewChange(n)  PROVE SafetyInv'
  <2>1. Quiet(n, raft[n], {})
      BY <1>11, <1>r DEF ViewChange, Quiet, TypeOK
  <2>. QED  BY <1>0, <2>1, QuietKeeps
<1>12. ASSUME NEW n \in Node, Restart(n)  PROVE SafetyInv'
  BY <1>12 DEF Restart, Steady, TypeOK
<1>13. CASE UNCHANGED vars
  BY <1>13 DEF vars, TypeOK, AllCoherent, BallotsBind, RunsBind, OneChoicePerTurn, Ballots,
               Ran, VotesCounted
<1>. QED
  BY <1>1, <1>2, <1>3, <1>4, <1>5, <1>6, <1>7, <1>8, <1>9, <1>10, <1>11, <1>12, <1>13
     DEF Next, Receive

LEMMA SafetyInit == Init => SafetyInv
<1>. SUFFICES ASSUME Init  PROVE SafetyInv
    OBVIOUS
<1>1. TypeOK  BY FreshType, BoundsAssumption DEF Init, TypeOK
<1>2. \A n \in Node : raft[n].state = "wait_for_candidate" /\ raft[n].leader = None
    BY DEF Init, Fresh
<1>3. Ballots = {} /\ sent = {}  BY DEF Init, Ballots
<1>. QED
  BY <1>1, <1>2, <1>3 DEF SafetyInv, AllCoherent, Coherent, BallotsBind, RunsBind,
                          OneChoicePerTurn, VotesCounted

THEOREM SafetyInvariant == ASSUME Steady PROVE Spec => []SafetyInv
<1>1. Init => SafetyInv  BY SafetyInit
<1>2. SafetyInv /\ [Next]_vars => SafetyInv'  BY SafetyInductive
<1>. QED  BY <1>1, <1>2, PTL DEF Spec

\* A node stands for one candidate per turn, for every zone and every interleaving,
\* as long as no agent is restarted.
THEOREM ChoiceSafety == ASSUME Steady PROVE Spec => []OneChoicePerTurn
<1>1. SafetyInv => OneChoicePerTurn  BY DEF SafetyInv
<1>. QED  BY <1>1, SafetyInvariant, PTL

\* Every leader was elected by a majority of distinct members of a membership.
THEOREM QuorumSafety == ASSUME Steady PROVE Spec => []LeaderElectedByQuorum
<1>1. ASSUME SafetyInv  PROVE LeaderElectedByQuorum
  <2>. SUFFICES ASSUME NEW n \in Node, raft[n].state = "leader"
                PROVE  \E V \in Views :
                          Cardinality(Voters(n, raft[n].turn)) + 1 >= QuorumSize(V)
      BY DEF LeaderElectedByQuorum
  <2>1. PICK V \in Views :
            Cardinality(VotersIn(counted, n, raft[n].turn)) + 1 >= QuorumSize(V)
      BY <1>1 DEF SafetyInv, VotesCounted
  <2>2. VotersIn(counted, n, raft[n].turn) \subseteq Voters(n, raft[n].turn)
      BY <1>1 DEF SafetyInv, TypeOK, VotersIn, Voters, Ballots
  <2>3. IsFiniteSet(Voters(n, raft[n].turn))
    <3>1. Voters(n, raft[n].turn) \subseteq Node
        BY DEF Voters, Ballots, Ballot
    <3>. QED  BY <3>1, NodeAssumption, FS_Subset
  <2>4. /\ Cardinality(VotersIn(counted, n, raft[n].turn)) \in Nat
        /\ Cardinality(Voters(n, raft[n].turn)) \in Nat
        /\ Cardinality(VotersIn(counted, n, raft[n].turn))
             <= Cardinality(Voters(n, raft[n].turn))
      BY <2>2, <2>3, VotersInFinite, FS_Subset, FS_CardinalityType
  <2>. QED  BY <2>1, <2>4, QuorumSizeType
<1>. QED  BY <1>1, SafetyInvariant, PTL

\* Two nodes with a majority each, of memberships that overlap, share a voter or voted
\* for each other.
LEMMA MajoritiesMeet ==
    ASSUME ViewsOverlap, NEW a \in Node, NEW b \in Node, a # b,
           NEW A \in SUBSET (Node \ {a, b}), NEW B \in SUBSET (Node \ {a, b}), A \cap B = {},
           NEW V \in Views, Cardinality(A) + 1 >= QuorumSize(V),
           NEW W \in Views, Cardinality(B) + 1 >= QuorumSize(W)
    PROVE  FALSE
<1>1. /\ IsFiniteSet(A) /\ IsFiniteSet(B)
      /\ Cardinality(A) \in Nat /\ Cardinality(B) \in Nat
  <2>1. A \subseteq Node /\ B \subseteq Node
      OBVIOUS
  <2>. QED  BY <2>1, NodeAssumption, FS_Subset, FS_CardinalityType
<1>2. /\ IsFiniteSet(A \cup {a}) /\ Cardinality(A \cup {a}) = Cardinality(A) + 1
      /\ IsFiniteSet(B \cup {b}) /\ Cardinality(B \cup {b}) = Cardinality(B) + 1
    BY <1>1, FS_AddElement
<1>3. (A \cup {a}) \cap (B \cup {b}) = {}
    OBVIOUS
<1>4. Cardinality((A \cup {a}) \cup (B \cup {b}))
         = Cardinality(A) + 1 + (Cardinality(B) + 1)
  <2>1. Cardinality((A \cup {a}) \cup (B \cup {b}))
          = Cardinality(A \cup {a}) + Cardinality(B \cup {b})
              - Cardinality((A \cup {a}) \cap (B \cup {b}))
      BY <1>2, FS_Union
  <2>2. Cardinality((A \cup {a}) \cap (B \cup {b})) = 0
      BY <1>3, FS_EmptySet
  <2>3. Cardinality(A \cup {a}) \in Nat /\ Cardinality(B \cup {b}) \in Nat
      BY <1>2, FS_CardinalityType
  <2>. QED  BY <1>2, <2>1, <2>2, <2>3
<1>5. Cardinality((A \cup {a}) \cup (B \cup {b})) <= Cardinality(Node)
  <2>1. (A \cup {a}) \cup (B \cup {b}) \subseteq Node
      OBVIOUS
  <2>. QED  BY <2>1, NodeAssumption, FS_Subset
<1>6. Cardinality(Node) \in Nat
    BY NodeAssumption, FS_CardinalityType
<1>7. QuorumSize(V) + QuorumSize(W) > Cardinality(Node)
    BY DEF ViewsOverlap
<1>. QED  BY <1>1, <1>4, <1>5, <1>6, <1>7, QuorumSizeType

\* Two leaders of one turn would each have a majority, and the two majorities a
\* common member, which voted or ran twice in that turn.
LEMMA QuorumsMeet ==
    ASSUME ViewsOverlap, SafetyInv  PROVE OneLeaderPerTurn
<1>. USE DEF SafetyInv
<1>. SUFFICES ASSUME NEW a \in Node, NEW b \in Node, a # b,
                     raft[a].state = "leader", raft[b].state = "leader",
                     raft[a].turn = raft[b].turn
              PROVE  FALSE
    BY DEF OneLeaderPerTurn
<1>. DEFINE t == raft[a].turn
            A == VotersIn(counted, a, t)
            B == VotersIn(counted, b, t)
<1>1. \A v \in counted : v \in Ballots /\ v.turn = t => v.from # a /\ v.from # b
    BY DEF BallotsBind
<1>2. counted \subseteq Ballots
    BY DEF TypeOK, Ballots
<1>3. a \notin A /\ a \notin B /\ b \notin A /\ b \notin B
    BY <1>1, <1>2 DEF VotersIn
<1>4. A \cap B = {}
    BY <1>2 DEF VotersIn, OneChoicePerTurn
<1>5. PICK V \in Views : Cardinality(A) + 1 >= QuorumSize(V)
    BY DEF VotesCounted
<1>6. PICK W \in Views : Cardinality(B) + 1 >= QuorumSize(W)
    BY DEF VotesCounted
<1>7. A \subseteq Node /\ B \subseteq Node
    BY DEF VotersIn
<1>. HIDE DEF A, B, t
<1>. QED  BY <1>3, <1>4, <1>5, <1>6, <1>7, MajoritiesMeet

\* Election safety: one leader per turn, for every zone whose memberships overlap.
THEOREM ElectionSafety ==
    ASSUME Steady, ViewsOverlap PROVE Spec => []OneLeaderPerTurn
<1>1. SafetyInv => OneLeaderPerTurn  BY QuorumsMeet
<1>. QED  BY <1>1, SafetyInvariant, PTL
=============================================================================
