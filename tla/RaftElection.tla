---------------------------- MODULE RaftElection ----------------------------
(***************************************************************************)
(* The leader election of src/opsbro/raft.py (RaftNode): one node per      *)
(* agent of a zone, an election turn per node, votes over UDP.  Timers are *)
(* abstracted to "may expire at any moment", which the code allows: a      *)
(* thread can be late by any amount.                                       *)
(*                                                                         *)
(* The network and the LIFO stack of pending messages of a node (filled by *)
(* stack_message, emptied by pop) are one set, sent: a message in it may   *)
(* be handled at any time, in any order, again, or never.  Only a VOTE     *)
(* counts what is handled twice, so a VOTE is handled once (counted)       *)
(* unless the network duplicates the datagram (MaxDups).                   *)
(***************************************************************************)
EXTENDS Integers, FiniteSets

CONSTANTS Node,          \* the agents of one zone
          None,          \* no leader, no vote: the None of the code
          Views,         \* the memberships the gossip layer may report
          MaxTurn,       \* bound: no election turn above it
          MaxRestarts,   \* bound: restarts end once a node had so many
          MaxDups        \* bound: duplicated VOTE datagrams

ASSUME NodeAssumption == IsFiniteSet(Node) /\ None \notin Node
ASSUME ViewsAssumption == Views # {} /\ Views \subseteq SUBSET Node
ASSUME BoundsAssumption ==
    MaxTurn \in Nat /\ MaxRestarts \in Nat /\ MaxDups \in Nat

VARIABLES raft,      \* what each RaftNode holds
          view,      \* what raft_layer.get_nodes_uuids() answers to each node
          sent,      \* every message ever sent
          counted,   \* the VOTE messages already handled
          boots,     \* how many times each agent was restarted
          dups       \* how many VOTE datagrams were duplicated

vars == <<raft, view, sent, counted, boots, dups>>

RaftState == {"follower", "wait_for_candidate", "candidate", "did-vote", "leader"}
Turn      == 0..MaxTurn

\* RAFT_MINIMAL_MEMBERS_NB: below it, a node does nothing of its own.
MinimalMembers == 3

(***************************************************************************)
(* Messages.  The "candidate" of an ASK_VOTE and the "leader" of a         *)
(* LEADER_ELECTED or a heartbeat are always its "from", also when another  *)
(* node forwards it.  boot tells the votes of two lives of an agent apart. *)
(***************************************************************************)
PlainType == {"warn-old-election-turn", "ask-vote", "leader-elected",
              "leader-heartbeat", "dummy"}
Ballot    == [type : {"vote"}, from : Node, to : Node, turn : Turn,
              boot : 0..MaxRestarts]
Message   == [type : PlainType, from : Node, to : Node, turn : Turn] \cup Ballot

\* n sends a message to every other member of D.
ToOthers(type, n, D, t) ==
    {[type |-> type, from |-> n, to |-> d, turn |-> t] : d \in D \ {n}}

QuorumSize(V) == (Cardinality(V) + 2) \div 2

-----------------------------------------------------------------------------
\* A node that starts: RaftNode.__init__, then the first statement of
\* node_loop, which leaves it waiting to be candidate.
Fresh == [state |-> "wait_for_candidate", turn |-> 0, leader |-> None,
          nb_vote |-> 0, vote_for |-> None]

Init ==
    /\ raft = [n \in Node |-> Fresh]
    /\ view \in [Node -> Views]
    /\ sent = {}
    /\ counted = {}
    /\ boots = [n \in Node |-> 0]
    /\ dups = 0

\* Mutants of Failed: the turn is not increased, or goes the wrong way.
FailedSameTurn(r) == [Fresh EXCEPT !.turn = r.turn]
FailedTurnBack(r) == [Fresh EXCEPT !.turn = r.turn - 1]

\* _fail_to_elect: reset, one turn more, wait to be candidate again.
Failed(r) == [Fresh EXCEPT !.turn = r.turn + 1]

\* Mutant of CatchUp: every node adopts the newer turn and keeps its state.
CatchUpNoReset(r, t) == IF t <= r.turn THEN r ELSE [r EXCEPT !.turn = t]

\* The block of node_loop that handles a message of a newer turn.  A node that
\* did nothing in its turn keeps its state, its leader included.
CatchUp(r, t) ==
    IF t <= r.turn THEN r
    ELSE IF r.state \in {"follower", "wait_for_candidate"}
         THEN [r EXCEPT !.turn = t]
         ELSE [Failed(r) EXCEPT !.turn = t]

\* ... and then tells its new turn to random others: which of them the
\* network's losses choose.
Dummies(n, t) ==
    IF t <= raft[n].turn THEN {} ELSE ToOthers("dummy", n, view[n], t)

\* A message that node_loop pops, and what handling it makes of a VOTE.
Pop(m) ==
    /\ m \in sent
    /\ \/ /\ m \notin counted
          /\ counted' = counted \cup ({m} \cap Ballot)
          /\ dups' = dups
       \/ /\ m \in counted
          /\ dups < MaxDups
          /\ dups' = dups + 1
          /\ counted' = counted

\* m is not older than the node that handles it, so it is dispatched.
Dispatched(m, type) == Pop(m) /\ m.type = type /\ raft[m.to].turn <= m.turn

-----------------------------------------------------------------------------
\* A message of an older turn: warn its sender, and look no further.
ReceiveOld(m) ==
    LET n == m.to IN
    /\ Pop(m)
    /\ raft[n].turn > m.turn
    /\ sent' = sent \cup ToOthers("warn-old-election-turn", n, {m.from}, raft[n].turn)
    /\ UNCHANGED <<raft, view, boots>>

\* WARN_OLD_ELECTION_TURN, DUMMY and LEADER_HEARTBEAT carry only their turn (a
\* heartbeat also puts the follower's timer back).
ReceiveTurn(m) ==
    LET n == m.to IN
    /\ \E type \in {"warn-old-election-turn", "dummy", "leader-heartbeat"} :
          Dispatched(m, type)
    /\ raft' = [raft EXCEPT ![n] = CatchUp(@, m.turn)]
    /\ sent' = sent \cup Dummies(n, m.turn)
    /\ UNCHANGED <<view, boots>>

\* Mutant of MayVote: the state of the node is not looked at.
MayVoteAnyState(r) == r.leader = None

MayVote(r) == r.leader = None /\ r.state \in {"follower", "wait_for_candidate"}

\* manage_ask_vote: the vote goes to the candidate and the request is forwarded.
GrantVote(m) ==
    LET n == m.to
        r == CatchUp(raft[n], m.turn)
        vote == [type |-> "vote", from |-> n, to |-> m.from, turn |-> r.turn,
                 boot |-> boots[n]]
        forwards == {[m EXCEPT !.to = d] : d \in view[n] \ {n}}
    IN  /\ Dispatched(m, "ask-vote")
        /\ MayVote(r)
        /\ raft' = [raft EXCEPT ![n] = [r EXCEPT !.state = "did-vote",
                                                 !.vote_for = m.from]]
        /\ sent' = sent \cup Dummies(n, m.turn) \cup forwards
                        \cup (IF m.from = n THEN {} ELSE {vote})
        /\ UNCHANGED <<view, boots>>

\* manage_ask_vote: this node has a leader, runs itself or has voted.
RefuseVote(m) ==
    LET n == m.to
        r == CatchUp(raft[n], m.turn)
    IN  /\ Dispatched(m, "ask-vote")
        /\ ~ MayVote(r)
        /\ raft' = [raft EXCEPT ![n] = r]
        /\ sent' = sent \cup Dummies(n, m.turn)
        /\ UNCHANGED <<view, boots>>

\* _manage_vote, when this vote is enough.
WinElection(m) ==
    LET n == m.to
        r == CatchUp(raft[n], m.turn)
    IN  /\ Dispatched(m, "vote")
        /\ r.state = "candidate"
        /\ r.nb_vote + 1 >= QuorumSize(view[n])
        /\ raft' = [raft EXCEPT ![n] = [r EXCEPT !.nb_vote = @ + 1, !.state = "leader"]]
        /\ sent' = sent \cup ToOthers("leader-elected", n, view[n], r.turn)
        /\ UNCHANGED <<view, boots>>

\* _manage_vote, when it is not, or this node is no candidate any more.
CountVote(m) ==
    LET n == m.to
        r == CatchUp(raft[n], m.turn)
    IN  /\ Dispatched(m, "vote")
        /\ r.state = "candidate" => r.nb_vote + 1 < QuorumSize(view[n])
        /\ raft' = [raft EXCEPT ![n] =
                      IF r.state = "candidate" THEN [r EXCEPT !.nb_vote = @ + 1] ELSE r]
        /\ sent' = sent \cup Dummies(n, m.turn)
        /\ UNCHANGED <<view, boots>>

\* Mutant of FollowLeader: the node stays what it is.
FollowLeaderSameState(r, l) ==
    IF r.state \in {"candidate", "follower", "did-vote"}
    THEN [r EXCEPT !.leader = l, !.nb_vote = 0] ELSE r

\* _manage_leader_elected: only these states accept a leader, whatever the
\* leader they have; a node that waits to be candidate or leads does not.
FollowLeader(r, l) ==
    IF r.state \in {"candidate", "follower", "did-vote"}
    THEN [r EXCEPT !.leader = l, !.nb_vote = 0, !.state = "follower"]
    ELSE r

ReceiveLeaderElected(m) ==
    LET n == m.to
        r == CatchUp(raft[n], m.turn)
    IN  /\ Dispatched(m, "leader-elected")
        /\ raft' = [raft EXCEPT ![n] =
                      IF m.from = n THEN r ELSE FollowLeader(r, m.from)]
        /\ sent' = sent \cup Dummies(n, m.turn)
        /\ UNCHANGED <<view, boots>>

-----------------------------------------------------------------------------
\* What a node does when no message waits, if its zone has enough members.
Idle(n) == Cardinality(view[n]) >= MinimalMembers

\* The vote, the candidature or the leader of this node is too old.
TimedOut(r) ==
    \/ r.state = "did-vote"
    \/ r.state = "follower" /\ r.leader # None
    \/ r.state = "candidate"

FailToElect(n) ==
    /\ Idle(n)
    /\ TimedOut(raft[n])
    /\ raft[n].turn < MaxTurn
    /\ raft' = [raft EXCEPT ![n] = Failed(@)]
    /\ UNCHANGED <<view, sent, counted, boots, dups>>

\* _look_for_candidated: vote for oneself, ask everybody.
LookForCandidated(n) ==
    /\ Idle(n)
    /\ raft[n].state = "wait_for_candidate"
    /\ raft' = [raft EXCEPT ![n] = [@ EXCEPT !.state = "candidate", !.nb_vote = 1]]
    /\ sent' = sent \cup ToOthers("ask-vote", n, view[n], raft[n].turn)
    /\ UNCHANGED <<view, counted, boots, dups>>

LaunchHeartbeat(n) ==
    /\ Idle(n)
    /\ raft[n].state = "leader"
    /\ sent' = sent \cup ToOthers("leader-heartbeat", n, view[n], raft[n].turn)
    /\ UNCHANGED <<raft, view, counted, boots, dups>>

\* The gossip layer learns of a node, or suspects or loses one.
ViewChange(n) ==
    /\ \E V \in Views : view' = [view EXCEPT ![n] = V]
    /\ UNCHANGED <<raft, sent, counted, boots, dups>>

\* The agent stops and starts again: nothing of RaftNode is on disk.
Restart(n) ==
    /\ \A p \in Node : boots[p] < MaxRestarts
    /\ boots' = [boots EXCEPT ![n] = @ + 1]
    /\ raft' = [raft EXCEPT ![n] = Fresh]
    /\ UNCHANGED <<view, sent, counted, dups>>

-----------------------------------------------------------------------------
Receive ==
    \E m \in sent :
        \/ ReceiveOld(m)
        \/ ReceiveTurn(m)
        \/ GrantVote(m)
        \/ RefuseVote(m)
        \/ WinElection(m)
        \/ CountVote(m)
        \/ ReceiveLeaderElected(m)

Next ==
    \/ Receive
    \/ \E n \in Node :
        \/ FailToElect(n)
        \/ LookForCandidated(n)
        \/ LaunchHeartbeat(n)
        \/ ViewChange(n)
        \/ Restart(n)

Spec == Init /\ [][Next]_vars

-----------------------------------------------------------------------------
RaftRecord == [state : RaftState, turn : Turn, leader : Node \cup {None},
               nb_vote : Nat, vote_for : Node \cup {None}]

TypeOK ==
    /\ raft \in [Node -> RaftRecord]
    /\ view \in [Node -> Views]
    /\ sent \subseteq Message
    /\ counted \subseteq sent \cap Ballot
    /\ boots \in [Node -> 0..MaxRestarts]
    /\ dups \in 0..MaxDups

Ballots == sent \cap Ballot

\* Who voted for n in its turn t.
Voters(n, t) == {v.from : v \in {b \in Ballots : b.to = n /\ b.turn = t}}

\* n ran for the election of turn t.
Ran(n, t) == \E m \in sent : m.type = "ask-vote" /\ m.from = n /\ m.turn = t

\* Two memberships so different that each has a majority of its own would let two
\* candidates win (_manage_vote counts against the membership of the moment).
ViewsOverlap ==
    \A V, W \in Views : QuorumSize(V) + QuorumSize(W) > Cardinality(Node)

\* Two nodes never lead the same election turn, however votes, requests and
\* timeouts interleave: what the whole election of raft.py is for.
OneLeaderPerTurn ==
    \A a, b \in Node :
        /\ raft[a].state = "leader"
        /\ raft[b].state = "leader"
        /\ raft[a].turn = raft[b].turn
        => a = b

\* A node stands for one candidate in a turn: it votes once, and a node that runs
\* does not vote for another (manage_ask_vote, _look_for_candidated), even when it
\* ran, failed, followed and caught up with other turns in between.
OneChoicePerTurn ==
    \A v \in Ballots :
        /\ \A w \in Ballots : w.from = v.from /\ w.turn = v.turn => w.to = v.to
        /\ ~ Ran(v.from, v.turn)

\* Restarts forget the votes, so only within one life of an agent (boot) are its
\* votes of a turn all for one candidate; a duplicated datagram adds none.
OneChoicePerLife ==
    \A v, w \in Ballots :
        v.from = w.from /\ v.turn = w.turn /\ v.boot = w.boot => v.to = w.to

\* The lives of the agents: each that started, and again at each restart.
Lives == {l \in Node \X (0..MaxRestarts) : l[2] <= boots[l[1]]}

\* What faults cost: two nodes that run for one turn, or lead it, never counted more
\* votes between them than there were lives of agents, one more for each datagram that
\* was duplicated (_manage_vote only counts; a restarted agent may vote again).
VotesAreShared ==
    \A a, b \in Node :
        /\ a # b /\ raft[a].turn = raft[b].turn
        /\ {raft[a].state, raft[b].state} \subseteq {"candidate", "leader"}
        => raft[a].nb_vote + raft[b].nb_vote <= Cardinality(Lives) + dups

\* So there is one leader per turn as long as two quorums are more than that: in an
\* even zone whose members know each other, after one restart or one duplicate too.
OneLeaderDespiteFaults ==
    (\A V, W \in Views : QuorumSize(V) + QuorumSize(W) > Cardinality(Lives) + dups)
        => OneLeaderPerTurn

\* A leader was voted for by enough distinct members for a membership it had:
\* _manage_vote keeps a counter, not the set of its voters.
LeaderElectedByQuorum ==
    \A n \in Node : raft[n].state = "leader" =>
        \E V \in Views : Cardinality(Voters(n, raft[n].turn)) + 1 >= QuorumSize(V)

\* A node follows somebody, and only somebody that did win an election, of this
\* turn or of an older one; so the idle branch for a follower without leader of
\* node_loop is never taken.
FollowedLeaderWon ==
    \A n \in Node :
        /\ raft[n].state = "follower" <=> raft[n].leader # None
        /\ raft[n].leader # None =>
             \E m \in sent : /\ m.type = "leader-elected"
                             /\ m.from = raft[n].leader
                             /\ m.turn <= raft[n].turn

-----------------------------------------------------------------------------
\* Who won which turn, from what winners told the others.
Elected == {<<m.turn, m.from>> : m \in {e \in sent : e.type = "leader-elected"}}

Abstract == INSTANCE Election WITH
    elected <- Elected,
    turn <- [n \in Node |-> raft[n].turn],
    leader <- [n \in Node |-> raft[n].leader]

\* The election implements Election: seen from what nodes are told and follow, a turn
\* is won once and for all, also after its winner gave up; nobody follows a node that
\* did not win, nor the winner of a turn older than its own; no turn goes back.
ElectsOncePerTurn == Abstract!Spec
=============================================================================
