--------------------------- MODULE ExecuterProofs ---------------------------
(***************************************************************************)
(* Theorems about Executer.  A challenge belongs to one execution: it is   *)
(* in the challenges of the node, in proposals and in the request of this  *)
(* execution only (TieInv).  So a return, that has only the challenge,     *)
(* launches the command of the request that answered it.                   *)
(***************************************************************************)
EXTENDS Executer, TTLDatabaseProofs, FiniteSetTheorems

Tied(c, x) ==
    \/ \E d \in challenges : d.cid = c /\ d.exec = x
    \/ \E m \in net : m.type = "proposal" /\ m.cid = c /\ m.exec = x
    \/ req[x].cid = c

TieInv ==
    \A c \in Challenge, x \in Exec : Tied(c, x) =>
        /\ c <= asks
        /\ \A y \in Exec : Tied(c, y) => x = y

ReqInv ==
    \A x \in Exec :
        /\ req[x].state \in {"idle", "asked"} => req[x].cid = None
        /\ req[x].state \in {"returned", "told", "done"} => req[x].cid # None

ReturnInv ==
    \A m \in net : m.type = "return" => \E x \in Exec : req[x].cid = m.cid

HasRun(x) == \E i \in Runs(x) : run[i].pc # "command"

\* What is stored for an execution, or about to be, its command has put there.
ResultInv ==
    \A x \in Exec :
        (dies[x] # None \/ \E w \in Writer : writes[w] # None /\ writes[w].key = x)
            => HasRun(x)

\* A return under way counts as the run that it will launch.
Pending(x) == \E m \in net : m.type = "return" /\ m.cid = req[x].cid

OnceInv ==
    \A x \in Exec :
        Cardinality(Runs(x)) + (IF Pending(x) THEN 1 ELSE 0) <= 1 + dups

StoreInv == ListInv /\ OneInv /\ LimitInv

ExecInv ==
    /\ ExecTypeOK /\ StoreInv
    /\ TieInv /\ ReqInv /\ ReturnInv
    /\ RunsWereAnswered /\ ResultInv /\ OnceInv /\ DoneHasRun

-----------------------------------------------------------------------------
LEMMA RunsFinite == \A x \in Exec : IsFiniteSet(Runs(x)) /\ Cardinality(Runs(x)) \in Nat
<1>1. IsFiniteSet(Run)
  BY FS_Interval, ExecAssumption DEF Run
<1> QED
  BY <1>1, FS_Subset, FS_CardinalityType DEF Runs

LEMMA InitExec == Init => ExecInv
<1> SUFFICES ASSUME Init PROVE ExecInv
  OBVIOUS
<1>1. StoreInv
  BY InitInv DEF Init, StoreInv
<1>2. ExecTypeOK
  BY <1>1, ExecAssumption DEF Init, ExecTypeOK, StoreInv, ListInv, ReqState
<1>3. TieInv
  BY TtlNoneAssumption DEF Init, TieInv, Tied, Challenge
<1>4. ReqInv /\ ReturnInv /\ DoneHasRun
  BY DEF Init, ReqInv, ReturnInv, DoneHasRun
<1>5. \A x \in Exec : Runs(x) = {}
  BY DEF Init, Runs
<1>6. RunsWereAnswered /\ ResultInv
  <2>1. \A x \in Exec : dies[x] = None /\ \A w \in Writer : writes[w] = None
    BY ExecAssumption DEF Init, TTLInit
  <2> QED
    BY <1>5, <2>1 DEF RunsWereAnswered, ResultInv
<1>7. OnceInv
  BY <1>5, FS_EmptySet DEF Init, OnceInv, Pending
<1> QED
  BY <1>1, <1>2, <1>3, <1>4, <1>6, <1>7 DEF ExecInv

\* What a datagram that is received changes on the network.
LEMMA DeliverFacts ==
    ASSUME ExecTypeOK, NEW m, NEW news \in SUBSET Message, Deliver(m, news)
    PROVE  /\ net' \subseteq net \cup news
           /\ net' \subseteq Message
           /\ dups' \in 0..MaxDups
           /\ dups <= dups'
           /\ dups' = dups => m \notin net' \ news
           /\ dups' # dups => dups' = dups + 1
           /\ m \in net
BY ExecAssumption DEF Deliver, ExecTypeOK

\* Steps of the store leave the executions alone, and bring no value that was not there.
LEMMA StoreStep ==
    ASSUME ExecInv, StoreInv', TTLTypeOK',
           UNCHANGED <<req, net, challenges, asks, run, dups, stops>>,
           puts' \in 0..MaxPuts,
           \A x \in Exec :
              (dies'[x] # None \/ \E w \in Writer : writes'[w] # None /\ writes'[w].key = x)
              => (dies[x] # None \/ \E w \in Writer : writes[w] # None /\ writes[w].key = x)
    PROVE  ExecInv'
<1>1. ExecTypeOK'
  BY DEF ExecInv, ExecTypeOK
<1>2. TieInv' /\ ReqInv' /\ ReturnInv'
  BY DEF ExecInv, TieInv, Tied, ReqInv, ReturnInv
<1>3. RunsWereAnswered' /\ DoneHasRun'
  BY DEF ExecInv, RunsWereAnswered, DoneHasRun, Runs
<1>4. \A x \in Exec : HasRun(x) => HasRun(x)'
  BY DEF HasRun, Runs
<1>5. ResultInv'
  BY <1>4 DEF ExecInv, ResultInv
<1>6. OnceInv'
  BY DEF ExecInv, OnceInv, Pending, Runs
<1> QED
  BY <1>1, <1>2, <1>3, <1>5, <1>6 DEF ExecInv

\* Steps of a request: its state moves on, with no message and no command.
LEMMA RequestStep ==
    ASSUME ExecInv, NEW x \in Exec, NEW s \in ReqState,
           req' = [req EXCEPT ![x].state = s],
           s \notin {"idle"},
           s = "asked" => req[x].state = "idle",
           s = "told" => req[x].state = "returned",
           s \in {"done", "returned"} => req[x].state = "told" /\ HasRun(x),
           UNCHANGED ttlVars, UNCHANGED <<challenges, asks, run, puts, stops>>,
           net' \subseteq Message,
           \A m \in net' : m.type # "ask" => m \in net,
           dups' \in 0..MaxDups, dups <= dups'
    PROVE  ExecInv'
<1>1. \A y \in Exec : req'[y].cid = req[y].cid
  BY DEF ExecInv, ExecTypeOK
<1>2. \A y \in Exec : req'[y].state = req[y].state \/ (y = x /\ req'[y].state = s)
  BY DEF ExecInv, ExecTypeOK
<1>3. StoreInv' /\ TTLTypeOK'
  BY StutterInv DEF ExecInv, StoreInv, ListInv
<1>4. req' \in [Exec -> [state : ReqState, cid : Challenge \cup {None}]]
  BY DEF ExecInv, ExecTypeOK
<1>5. ExecTypeOK'
  BY <1>3, <1>4 DEF ExecInv, ExecTypeOK
<1>6. TieInv'
  <2>1. \A c \in Challenge, y \in Exec : Tied(c, y)' => Tied(c, y)
    BY <1>1 DEF Tied
  <2> QED
    BY <2>1 DEF ExecInv, TieInv
<1>7. ReqInv'
  BY <1>1, <1>2 DEF ExecInv, ReqInv
<1>8. ReturnInv'
  BY <1>1 DEF ExecInv, ReturnInv
<1>9. \A y \in Exec : Runs(y)' = Runs(y)
  BY DEF Runs
<1>10. RunsWereAnswered'
  BY <1>1, <1>2, <1>9 DEF ExecInv, RunsWereAnswered
<1>11. \A y \in Exec : HasRun(y) => HasRun(y)'
  BY <1>9 DEF HasRun
<1>12. ResultInv'
  BY <1>11 DEF ExecInv, ResultInv, ttlVars
<1>13. OnceInv'
  <2> SUFFICES ASSUME NEW y \in Exec
               PROVE  Cardinality(Runs(y)) + (IF Pending(y)' THEN 1 ELSE 0) <= 1 + dups'
    BY <1>9 DEF OnceInv
  <2>1. Pending(y)' => Pending(y)
    BY <1>1 DEF Pending
  <2> QED
    BY <2>1, RunsFinite, ExecAssumption DEF ExecInv, OnceInv, ExecTypeOK
<1>14. DoneHasRun'
  <2> SUFFICES ASSUME NEW y \in Exec, req'[y].state = "done"
               PROVE  \E i \in Runs(y)' : run'[i].cid = req'[y].cid /\ run'[i].pc # "command"
    BY DEF DoneHasRun
  <2>1. req[y].state = "done" \/ HasRun(y)
    BY <1>2
  <2> QED
    BY <2>1, <1>1, <1>9 DEF ExecInv, DoneHasRun, HasRun, RunsWereAnswered
<1> QED
  BY <1>3, <1>5, <1>6, <1>7, <1>8, <1>10, <1>12, <1>13, <1>14 DEF ExecInv

\* Steps of the commands: each goes on, and what is stored was stored by its command.
LEMMA RunStep ==
    ASSUME ExecInv, StoreInv', TTLTypeOK',
           run' \in [Run -> Launched \cup {None}],
           \A i \in Run :
              /\ run'[i] = None <=> run[i] = None
              /\ run[i] # None =>
                    /\ run'[i].exec = run[i].exec /\ run'[i].cid = run[i].cid
                    /\ run[i].pc # "command" => run'[i].pc # "command",
           \A x \in Exec :
              (dies'[x] # None \/ \E w \in Writer : writes'[w] # None /\ writes'[w].key = x)
              => HasRun(x)' \/ dies[x] # None
                 \/ \E w \in Writer : writes[w] # None /\ writes[w].key = x,
           UNCHANGED <<req, asks, dups, puts>>, stops' \in 0..MaxStops,
           challenges' \subseteq challenges,
           net' \subseteq Message,
           \A m \in net' : m.type # "done" => m \in net
    PROVE  ExecInv'
<1>1. ExecTypeOK'
  BY DEF ExecInv, ExecTypeOK
<1>2. TieInv'
  <2>1. \A c \in Challenge, y \in Exec : Tied(c, y)' => Tied(c, y)
    BY DEF Tied
  <2> QED
    BY <2>1 DEF ExecInv, TieInv
<1>3. ReqInv' /\ ReturnInv'
  BY DEF ExecInv, ReqInv, ReturnInv
<1>4. \A x \in Exec : Runs(x)' = Runs(x)
  BY DEF Runs
<1>5. RunsWereAnswered'
  BY <1>4 DEF ExecInv, RunsWereAnswered, Runs
<1>6. \A x \in Exec : HasRun(x) => HasRun(x)'
  BY <1>4 DEF HasRun, Runs
<1>7. ResultInv'
  BY <1>6 DEF ExecInv, ResultInv
<1>8. DoneHasRun'
  BY <1>4 DEF ExecInv, DoneHasRun, Runs
<1>9. OnceInv'
  <2> SUFFICES ASSUME NEW y \in Exec
               PROVE  Cardinality(Runs(y)) + (IF Pending(y)' THEN 1 ELSE 0) <= 1 + dups'
    BY <1>4 DEF OnceInv
  <2>1. Pending(y)' => Pending(y)
    BY DEF Pending
  <2> QED
    BY <2>1, RunsFinite, ExecAssumption DEF ExecInv, OnceInv, ExecTypeOK
<1> QED
  BY <1>1, <1>2, <1>3, <1>5, <1>7, <1>8, <1>9 DEF ExecInv

-----------------------------------------------------------------------------
\* A new challenge is tied to the execution that asked, and to no other.
LEMMA AskStep ==
    ASSUME ExecInv, NEW m \in net, ReceiveAsk(m)
    PROVE  ExecInv'
<1> DEFINE p == [type |-> "proposal", exec |-> m.exec, cid |-> asks + 1]
<1>1. m \in Message /\ m.type = "ask"
  BY DEF ExecInv, ExecTypeOK, ReceiveAsk
<1>2. m.exec \in Exec
  BY <1>1 DEF Message
<1>3. asks' = asks + 1 /\ asks \in Nat /\ asks' \in 0..MaxAsks /\ asks' \in Challenge
  BY ExecAssumption DEF ReceiveAsk, ExecInv, ExecTypeOK, Challenge
<1>4. p \in Message
  BY <1>2, <1>3 DEF Message
<1>5. challenges' = challenges \cup {[cid |-> asks + 1, exec |-> m.exec]}
  BY DEF ReceiveAsk
<1>6. UNCHANGED <<ttlVars, req, run, puts, stops>>
  BY DEF ReceiveAsk
<1>7. /\ net' \subseteq net \cup {p} /\ net' \subseteq Message
      /\ dups' \in 0..MaxDups /\ dups <= dups'
  <2>1. Deliver(m, {p})
    BY DEF ReceiveAsk
  <2> HIDE DEF p
  <2> QED
    BY <1>4, <2>1, DeliverFacts DEF ExecInv
<1>8. p.type = "proposal" /\ p.cid = asks + 1 /\ p.exec = m.exec
  OBVIOUS
<1> HIDE DEF p
<1>9. StoreInv' /\ TTLTypeOK'
  BY <1>6, StutterInv DEF ExecInv, StoreInv, ListInv
<1>10. ExecTypeOK'
  BY <1>2, <1>3, <1>5, <1>6, <1>7, <1>9 DEF ExecInv, ExecTypeOK
<1>11. TieInv'
  <2>1. \A c \in Challenge, x \in Exec :
           Tied(c, x)' => Tied(c, x) \/ (c = asks + 1 /\ x = m.exec)
    BY <1>5, <1>6, <1>7, <1>8 DEF Tied
  <2>2. \A c \in Challenge, x \in Exec : Tied(c, x) => c <= asks
    BY DEF ExecInv, TieInv
  <2>3. \A c \in Challenge : c \in Int
    BY ExecAssumption DEF Challenge
  <2> QED
    BY <1>3, <2>1, <2>2, <2>3 DEF ExecInv, TieInv
<1>12. ReqInv' /\ ReturnInv'
  BY <1>6, <1>7, <1>8 DEF ExecInv, ReqInv, ReturnInv
<1>13. RunsWereAnswered' /\ DoneHasRun'
  BY <1>6 DEF ExecInv, RunsWereAnswered, DoneHasRun, Runs
<1>14. ResultInv'
  BY <1>6 DEF ExecInv, ResultInv, HasRun, Runs, ttlVars
<1>15. OnceInv'
  <2> SUFFICES ASSUME NEW y \in Exec
               PROVE  Cardinality(Runs(y)) + (IF Pending(y)' THEN 1 ELSE 0) <= 1 + dups'
    BY <1>6 DEF OnceInv, Runs
  <2>1. Pending(y)' => Pending(y)
    BY <1>6, <1>7, <1>8 DEF Pending
  <2> QED
    BY <1>7, <2>1, RunsFinite, ExecAssumption DEF ExecInv, OnceInv, ExecTypeOK
<1> QED
  BY <1>9, <1>10, <1>11, <1>12, <1>13, <1>14, <1>15 DEF ExecInv

\* The request answers the challenge that is tied to it.
LEMMA ProposalStep ==
    ASSUME ExecInv, NEW m \in net, ReceiveProposal(m)
    PROVE  ExecInv'
<1> DEFINE r == [type |-> "return", cid |-> m.cid]
<1>1. m \in Message /\ m.type = "proposal" /\ req[m.exec].state = "asked"
  BY DEF ExecInv, ExecTypeOK, ReceiveProposal
<1>2. m.exec \in Exec /\ m.cid \in Challenge
  BY <1>1 DEF Message
<1>3. r \in Message
  BY <1>2 DEF Message
<1>4. UNCHANGED <<ttlVars, challenges, asks, run, puts, stops>>
  BY DEF ReceiveProposal
<1>5. /\ net' \subseteq net \cup {r} /\ net' \subseteq Message
      /\ dups' \in 0..MaxDups /\ dups <= dups'
  <2>1. Deliver(m, {r})
    BY DEF ReceiveProposal
  <2> HIDE DEF r
  <2> QED
    BY <1>3, <2>1, DeliverFacts DEF ExecInv
<1>6. r.type = "return" /\ r.cid = m.cid
  OBVIOUS
<1> HIDE DEF r
<1>7. req' = [req EXCEPT ![m.exec] = [state |-> "returned", cid |-> m.cid]]
  BY DEF ReceiveProposal
<1>8. /\ req'[m.exec].state = "returned" /\ req'[m.exec].cid = m.cid
      /\ \A x \in Exec : x # m.exec => req'[x] = req[x]
  BY <1>2, <1>7 DEF ExecInv, ExecTypeOK
<1>9. StoreInv' /\ TTLTypeOK'
  BY <1>4, StutterInv DEF ExecInv, StoreInv, ListInv
<1>10. req' \in [Exec -> [state : ReqState, cid : Challenge \cup {None}]]
  BY <1>2, <1>7 DEF ExecInv, ExecTypeOK, ReqState
<1>11. ExecTypeOK'
  BY <1>4, <1>5, <1>9, <1>10 DEF ExecInv, ExecTypeOK
<1>12. Tied(m.cid, m.exec)
  BY <1>1 DEF Tied
<1>13. TieInv'
  <2>1. \A c \in Challenge, x \in Exec : Tied(c, x)' => Tied(c, x)
    BY <1>4, <1>5, <1>6, <1>8, <1>12 DEF Tied
  <2> QED
    BY <1>4, <2>1 DEF ExecInv, TieInv
<1>14. m.cid # None
  BY <1>2, TtlNoneAssumption, ExecAssumption DEF Challenge
<1>15. ReqInv'
  BY <1>8, <1>14 DEF ExecInv, ReqInv
<1>16. req[m.exec].cid = None
  BY <1>1, <1>2 DEF ExecInv, ReqInv
<1>17. ReturnInv'
  <2> SUFFICES ASSUME NEW n \in net', n.type = "return"
               PROVE  \E x \in Exec : req'[x].cid = n.cid
    BY DEF ReturnInv
  <2>1. CASE n = r
    BY <2>1, <1>2, <1>6, <1>8
  <2>2. CASE n \in net
    <3>1. PICK x \in Exec : req[x].cid = n.cid
      BY <2>2 DEF ExecInv, ReturnInv
    <3>2. n.cid \in Challenge
      BY <2>2 DEF ExecInv, ExecTypeOK, Message
    <3>3. x # m.exec
      BY <3>1, <3>2, <1>16, TtlNoneAssumption, ExecAssumption DEF Challenge
    <3> QED
      BY <3>1, <3>3, <1>8
  <2> QED
    BY <2>1, <2>2, <1>5
<1>18. Runs(m.exec) = {}
  BY <1>1, <1>2 DEF ExecInv, RunsWereAnswered
<1>19. \A x \in Exec : Runs(x)' = Runs(x)
  BY <1>4 DEF Runs
<1>20. RunsWereAnswered'
  BY <1>4, <1>8, <1>18, <1>19 DEF ExecInv, RunsWereAnswered
<1>21. DoneHasRun'
  BY <1>4, <1>8, <1>19 DEF ExecInv, DoneHasRun
<1>22. ResultInv'
  BY <1>4 DEF ExecInv, ResultInv, HasRun, Runs, ttlVars
<1>23. OnceInv'
  <2> SUFFICES ASSUME NEW y \in Exec
               PROVE  Cardinality(Runs(y)) + (IF Pending(y)' THEN 1 ELSE 0) <= 1 + dups'
    BY <1>19 DEF OnceInv
  <2>1. CASE y = m.exec
    BY <2>1, <1>5, <1>18, FS_EmptySet, ExecAssumption DEF ExecInv, ExecTypeOK
  <2>2. CASE y # m.exec
    <3>1. Pending(y)' => Pending(y)
      <4> SUFFICES ASSUME Pending(y)', ~Pending(y) PROVE FALSE
        OBVIOUS
      <4>1. req[y].cid = m.cid
        BY <2>2, <1>5, <1>6, <1>8 DEF Pending
      <4>2. Tied(m.cid, y)
        BY <4>1 DEF Tied
      <4> QED
        BY <4>2, <2>2, <1>2, <1>12 DEF ExecInv, TieInv
    <3> QED
      BY <3>1, <1>5, RunsFinite, ExecAssumption DEF ExecInv, OnceInv, ExecTypeOK
  <2> QED
    BY <2>1, <2>2
<1> QED
  BY <1>9, <1>11, <1>13, <1>15, <1>17, <1>20, <1>21, <1>22, <1>23 DEF ExecInv

\* A return launches the command of the request that answered, in one more thread.
LEMMA ReturnFacts ==
    ASSUME ExecInv, NEW m \in net, ReceiveReturn(m)
    PROVE  \E c \in challenges, i \in Run :
              /\ c.exec \in Exec /\ c.cid = m.cid /\ m.cid \in Challenge
              /\ req[c.exec].cid = m.cid
              /\ run[i] = None
              /\ run'[i] = [exec |-> c.exec, cid |-> c.cid, pc |-> "command"]
              /\ run' = [run EXCEPT ![i] = run'[i]]
              /\ run' \in [Run -> Launched \cup {None}]
              /\ \A j \in Run : j # i => run'[j] = run[j]
              /\ \A x \in Exec : x # c.exec => Runs(x)' = Runs(x)
              /\ Runs(c.exec)' = Runs(c.exec) \cup {i} /\ i \notin Runs(c.exec)
<1>1. m \in Message /\ m.type = "return"
  BY DEF ExecInv, ExecTypeOK, ReceiveReturn
<1>2. m.cid \in Challenge
  BY <1>1 DEF Message
<1>3. PICK c \in challenges, i \in Run :
         /\ c.cid = m.cid
         /\ run[i] = None
         /\ run' = [run EXCEPT ![i] = [exec |-> c.exec, cid |-> c.cid, pc |-> "command"]]
  BY DEF ReceiveReturn
<1>4. c.exec \in Exec /\ c.cid \in Challenge
  BY DEF ExecInv, ExecTypeOK
<1>5. [exec |-> c.exec, cid |-> c.cid, pc |-> "command"] \in Launched
  BY <1>4 DEF Launched
<1>6. run' \in [Run -> Launched \cup {None}]
  BY <1>3, <1>5 DEF ExecInv, ExecTypeOK
<1>7. /\ run'[i] = [exec |-> c.exec, cid |-> c.cid, pc |-> "command"]
      /\ \A j \in Run : j # i => run'[j] = run[j]
  BY <1>3 DEF ExecInv, ExecTypeOK
<1>8. req[c.exec].cid = m.cid
  <2>1. PICK x \in Exec : req[x].cid = m.cid
    BY <1>1 DEF ExecInv, ReturnInv
  <2>2. Tied(m.cid, x) /\ Tied(m.cid, c.exec)
    BY <2>1, <1>3 DEF Tied
  <2>3. x = c.exec
    BY <2>2, <1>2, <1>4 DEF ExecInv, TieInv
  <2> QED
    BY <2>1, <2>3
<1>9. run'[i] # None /\ run'[i].exec = c.exec
  BY <1>5, <1>7, ExecAssumption DEF Launched, Challenge
<1>10. \A x \in Exec : x # c.exec => Runs(x)' = Runs(x)
  BY <1>3, <1>7, <1>9 DEF Runs
<1>11. Runs(c.exec)' = Runs(c.exec) \cup {i} /\ i \notin Runs(c.exec)
  BY <1>3, <1>7, <1>9 DEF Runs
<1> QED
  BY <1>2, <1>3, <1>4, <1>6, <1>7, <1>8, <1>10, <1>11

\* The return launches the command of the request that answered.
LEMMA ReturnStep ==
    ASSUME ExecInv, NEW m \in net, ReceiveReturn(m)
    PROVE  ExecInv'
<1>1. m \in Message /\ m.type = "return"
  BY DEF ExecInv, ExecTypeOK, ReceiveReturn
<1>2. m.cid \in Challenge
  BY <1>1 DEF Message
<1>3. UNCHANGED <<ttlVars, req, challenges, asks, puts, stops>>
  BY DEF ReceiveReturn
<1>4. PICK c \in challenges, i \in Run :
         /\ c.exec \in Exec /\ c.cid = m.cid /\ m.cid \in Challenge
         /\ req[c.exec].cid = m.cid
         /\ run[i] = None
         /\ run'[i] = [exec |-> c.exec, cid |-> c.cid, pc |-> "command"]
         /\ run' \in [Run -> Launched \cup {None}]
         /\ \A j \in Run : j # i => run'[j] = run[j]
         /\ \A x \in Exec : x # c.exec => Runs(x)' = Runs(x)
         /\ Runs(c.exec)' = Runs(c.exec) \cup {i} /\ i \notin Runs(c.exec)
  BY ReturnFacts
<1>8. run'[i].exec = c.exec /\ run'[i].cid = c.cid
  BY <1>4
<1>9. /\ net' \subseteq net /\ net' \subseteq Message
      /\ dups' \in 0..MaxDups /\ dups <= dups'
      /\ dups' = dups => m \notin net'
      /\ dups' # dups => dups' = dups + 1
  <2>1. Deliver(m, {})
    BY DEF ReceiveReturn
  <2> QED
    BY <2>1, DeliverFacts DEF ExecInv
<1>10. StoreInv' /\ TTLTypeOK'
  BY <1>3, StutterInv DEF ExecInv, StoreInv, ListInv
<1>11. ExecTypeOK'
  BY <1>3, <1>4, <1>9, <1>10 DEF ExecInv, ExecTypeOK
<1>12. TieInv'
  <2>1. \A d \in Challenge, x \in Exec : Tied(d, x)' => Tied(d, x)
    BY <1>3, <1>9 DEF Tied
  <2> QED
    BY <1>3, <2>1 DEF ExecInv, TieInv
<1>13. ReqInv' /\ ReturnInv'
  BY <1>3, <1>9 DEF ExecInv, ReqInv, ReturnInv
<1>15. req[c.exec].state \notin {"idle", "asked"}
  BY <1>2, <1>4, TtlNoneAssumption, ExecAssumption DEF ExecInv, ReqInv, Challenge
<1>18. RunsWereAnswered'
  BY <1>3, <1>4, <1>8, <1>15 DEF ExecInv, RunsWereAnswered, Runs
<1>19. \A x \in Exec : Runs(x) \subseteq Runs(x)'
  BY <1>4
<1>20. \A x \in Exec : \A j \in Runs(x) : run'[j] = run[j]
  BY <1>4, <1>8 DEF Runs
<1>21. DoneHasRun'
  BY <1>3, <1>19, <1>20 DEF ExecInv, DoneHasRun
<1>22. ResultInv'
  <2>1. \A x \in Exec : HasRun(x) => HasRun(x)'
    BY <1>19, <1>20 DEF HasRun
  <2> QED
    BY <2>1, <1>3 DEF ExecInv, ResultInv, ttlVars
<1>23. OnceInv'
  <2> SUFFICES ASSUME NEW y \in Exec
               PROVE  Cardinality(Runs(y)') + (IF Pending(y)' THEN 1 ELSE 0) <= 1 + dups'
    BY DEF OnceInv
  <2>1. Pending(y)' => Pending(y)
    BY <1>3, <1>9 DEF Pending
  <2>2. Cardinality(Runs(y)) \in Nat /\ dups \in Nat /\ dups' \in Nat
    BY RunsFinite, ExecAssumption, <1>9 DEF ExecInv, ExecTypeOK
  <2>3. Cardinality(Runs(y)) + (IF Pending(y) THEN 1 ELSE 0) <= 1 + dups
    BY DEF ExecInv, OnceInv
  <2>4. CASE y # c.exec
    BY <2>1, <2>2, <2>3, <2>4, <1>9, <1>4
  <2>5. CASE y = c.exec
    <3>1. Cardinality(Runs(y)') = Cardinality(Runs(y)) + 1
      BY <2>5, <1>4, RunsFinite, FS_AddElement
    <3>2. Pending(y)
      BY <2>5, <1>1, <1>4 DEF Pending
    <3>3. dups' = dups => ~Pending(y)'
      <4> SUFFICES ASSUME dups' = dups, Pending(y)' PROVE FALSE
        OBVIOUS
      <4>1. PICK n \in net' : n.type = "return" /\ n.cid = m.cid
        BY <2>5, <1>3, <1>4 DEF Pending
      <4>2. n = m
        BY <4>1, <1>1, <1>9 DEF Message
      <4> QED
        BY <4>2, <1>9
    <3> QED
      BY <2>2, <2>3, <3>1, <3>2, <3>3, <1>9
  <2> QED
    BY <2>4, <2>5
<1> QED
  BY <1>10, <1>11, <1>12, <1>13, <1>18, <1>21, <1>22, <1>23 DEF ExecInv

-----------------------------------------------------------------------------
LEMMA RequestActions ==
    ASSUME ExecInv,
           \/ \E x \in Exec : Launch(x) \/ ReadResult(x) \/ Timeout(x)
           \/ \E m \in net : ReceiveEnd(m)
    PROVE  ExecInv'
<1>0. ExecTypeOK /\ dups \in 0..MaxDups /\ dups <= dups /\ net \subseteq Message
  BY ExecAssumption DEF ExecInv, ExecTypeOK
<1>1. ASSUME NEW x \in Exec, Launch(x) PROVE ExecInv'
  <2>1. [type |-> "ask", exec |-> x] \in Message
    BY DEF Message
  <2>2. net' = net \cup {[type |-> "ask", exec |-> x]}
    BY <1>1 DEF Launch
  <2>3. net' \subseteq Message /\ \A m \in net' : m.type # "ask" => m \in net
    BY <2>1, <2>2, <1>0
  <2> QED
    BY <1>0, <1>1, <2>3, RequestStep DEF Launch, ReqState
<1>2. ASSUME NEW x \in Exec, ReadResult(x) PROVE ExecInv'
  <2>1. PICK end \in {"done", "error"} :
           /\ end = "done" => dies[x] # None
           /\ req' = [req EXCEPT ![x].state = end]
    BY <1>2 DEF ReadResult
  <2>2. end = "done" => HasRun(x)
    BY <2>1 DEF ExecInv, ResultInv
  <2> QED
    BY <1>0, <1>2, <2>1, <2>2, RequestStep DEF ReadResult, ReqState
<1>3. ASSUME NEW x \in Exec, Timeout(x) PROVE ExecInv'
  BY <1>0, <1>3, RequestStep DEF Timeout, ReqState
<1>4. ASSUME NEW m \in net, ReceiveEnd(m) PROVE ExecInv'
  <2>1. m.exec \in Exec
    BY <1>0, <1>4 DEF ReceiveEnd, Message
  <2>2. net' \subseteq net /\ dups' \in 0..MaxDups /\ dups <= dups'
    <3>1. Deliver(m, {})
      BY <1>4 DEF ReceiveEnd
    <3> QED
      BY <1>0, <3>1, DeliverFacts
  <2> QED
    BY <1>0, <1>4, <2>1, <2>2, RequestStep DEF ReceiveEnd, ReqState
<1> QED
  BY <1>1, <1>2, <1>3, <1>4

\* A return that the node does not know only goes.
LEMMA UnknownStep ==
    ASSUME ExecInv, NEW m \in net, ReceiveUnknownReturn(m)
    PROVE  ExecInv'
<1>1. UNCHANGED <<ttlVars, req, challenges, asks, run, puts, stops>>
  BY DEF ReceiveUnknownReturn
<1>2. net' \subseteq net /\ net' \subseteq Message /\ dups' \in 0..MaxDups /\ dups <= dups'
  <2>1. Deliver(m, {})
    BY DEF ReceiveUnknownReturn
  <2> QED
    BY <2>1, DeliverFacts DEF ExecInv
<1>3. StoreInv' /\ TTLTypeOK'
  BY <1>1, StutterInv DEF ExecInv, StoreInv, ListInv
<1>4. ExecTypeOK'
  BY <1>1, <1>2, <1>3 DEF ExecInv, ExecTypeOK
<1>5. TieInv'
  <2>1. \A c \in Challenge, y \in Exec : Tied(c, y)' => Tied(c, y)
    BY <1>1, <1>2 DEF Tied
  <2> QED
    BY <1>1, <2>1 DEF ExecInv, TieInv
<1>6. ReqInv' /\ ReturnInv'
  BY <1>1, <1>2 DEF ExecInv, ReqInv, ReturnInv
<1>7. RunsWereAnswered' /\ DoneHasRun'
  BY <1>1 DEF ExecInv, RunsWereAnswered, DoneHasRun, Runs
<1>8. ResultInv'
  BY <1>1 DEF ExecInv, ResultInv, HasRun, Runs, ttlVars
<1>9. OnceInv'
  <2> SUFFICES ASSUME NEW y \in Exec
               PROVE  Cardinality(Runs(y)) + (IF Pending(y)' THEN 1 ELSE 0) <= 1 + dups'
    BY <1>1 DEF OnceInv, Runs
  <2>1. Pending(y)' => Pending(y)
    BY <1>1, <1>2 DEF Pending
  <2> QED
    BY <1>2, <2>1, RunsFinite, ExecAssumption DEF ExecInv, OnceInv, ExecTypeOK
<1> QED
  BY <1>3, <1>4, <1>5, <1>6, <1>7, <1>8, <1>9 DEF ExecInv

LEMMA RunActions ==
    ASSUME ExecInv,
           NodeRestart \/ \E i \in Run : StoreResult(i) \/ StoreFails(i) \/ SendDone(i)
    PROVE  ExecInv'
<1>0. /\ run \in [Run -> Launched \cup {None}] /\ net \subseteq Message
      /\ stops \in 0..MaxStops /\ None \notin Launched
  BY ExecAssumption DEF ExecInv, ExecTypeOK, Launched, Challenge
<1>1. \A i \in Run : run[i] # None => /\ run[i] \in Launched
                                     /\ run[i].exec \in Exec /\ run[i].cid \in Challenge
  BY <1>0 DEF Launched
<1>2. ASSUME NEW i \in Run, NEW pc \in {"stored", "ended"}, run[i] # None,
             run' = [run EXCEPT ![i].pc = pc]
      PROVE  /\ run' \in [Run -> Launched \cup {None}]
             /\ run'[i] # None /\ run'[i].exec = run[i].exec /\ run'[i].pc = pc
             /\ \A j \in Run :
                  /\ run'[j] = None <=> run[j] = None
                  /\ run[j] # None =>
                        /\ run'[j].exec = run[j].exec /\ run'[j].cid = run[j].cid
                        /\ run[j].pc # "command" => run'[j].pc # "command"
  <2>1. [run[i] EXCEPT !.pc = pc] \in Launched
    BY <1>1, <1>2 DEF Launched
  <2>2. PICK r : r = [run[i] EXCEPT !.pc = pc]
    OBVIOUS
  <2>3. r \in Launched /\ r.exec = run[i].exec /\ r.cid = run[i].cid /\ r.pc = pc
    BY <2>1, <2>2, <1>1, <1>2 DEF Launched
  <2>4. run' = [run EXCEPT ![i] = r]
    BY <1>2, <2>2
  <2> QED
    BY <1>0, <1>2, <2>3, <2>4
<1>3. ASSUME NEW i \in Run, StoreResult(i) PROVE ExecInv'
  <2>1. run[i] # None /\ run' = [run EXCEPT ![i].pc = "stored"]
    BY <1>3 DEF StoreResult
  <2>2. SetTtl(i, run[i].exec, Hour)
    BY <1>3 DEF StoreResult
  <2>3. i \in Writer /\ run[i].exec \in Key /\ Hour \in 0..MaxTtl
    BY <1>1, <2>1, ExecAssumption, TimeAssumption DEF Run
  <2>4. StoreInv' /\ TTLTypeOK'
    BY <2>2, <2>3, SetTtlInv DEF ExecInv, StoreInv, ListInv
  <2>5. /\ dies' = dies
        /\ \A w \in Writer : writes'[w] # None =>
              writes'[w] = writes[w] \/ writes'[w].key = run[i].exec
    BY <2>2 DEF SetTtl, ExecInv, StoreInv, ListInv, TTLTypeOK
  <2>6. run'[i] # None /\ run'[i].exec = run[i].exec /\ run'[i].pc = "stored"
    BY <1>2, <2>1
  <2>7. \A x \in Exec : x = run[i].exec => HasRun(x)'
    BY <2>6 DEF HasRun, Runs
  <2>8. \A x \in Exec :
          (dies'[x] # None \/ \E w \in Writer : writes'[w] # None /\ writes'[w].key = x)
              => HasRun(x)' \/ dies[x] # None
                 \/ \E w \in Writer : writes[w] # None /\ writes[w].key = x
    <3> SUFFICES ASSUME NEW x \in Exec,
                        NEW w \in Writer, writes'[w] # None, writes'[w].key = x
                 PROVE  HasRun(x)' \/ \E u \in Writer : writes[u] # None /\ writes[u].key = x
      BY <2>5
    <3>1. CASE writes'[w] = writes[w]
      BY <3>1
    <3>2. CASE x = run[i].exec
      BY <3>2, <2>7
    <3> QED
      BY <3>1, <3>2, <2>5
  <2>9. UNCHANGED <<req, net, challenges, asks, dups, puts, stops>>
    BY <1>3 DEF StoreResult
  <2> QED
    BY <1>0, <1>2, <2>1, <2>4, <2>8, <2>9, RunStep
<1>4. ASSUME UNCHANGED ttlVars
      PROVE  /\ StoreInv' /\ TTLTypeOK'
             /\ dies' = dies /\ writes' = writes
  BY <1>4, StutterInv DEF ExecInv, StoreInv, ListInv, ttlVars
<1>5. ASSUME NEW i \in Run, StoreFails(i) PROVE ExecInv'
  <2>1. run[i] # None /\ run' = [run EXCEPT ![i].pc = "stored"]
    BY <1>5 DEF StoreFails
  <2>2. UNCHANGED ttlVars /\ UNCHANGED <<req, net, challenges, asks, dups, puts, stops>>
    BY <1>5 DEF StoreFails
  <2> QED
    BY <1>0, <1>2, <1>4, <2>1, <2>2, RunStep
<1>6. ASSUME NEW i \in Run, SendDone(i) PROVE ExecInv'
  <2> DEFINE d == [type |-> "done", exec |-> run[i].exec, cid |-> run[i].cid]
  <2>1. run[i] # None /\ run' = [run EXCEPT ![i].pc = "ended"]
    BY <1>6 DEF SendDone
  <2>2. UNCHANGED ttlVars /\ UNCHANGED <<req, challenges, asks, dups, puts, stops>>
    BY <1>6 DEF SendDone
  <2>3. net' = net \cup {d}
    BY <1>6 DEF SendDone
  <2>4. d \in Message /\ d.type = "done"
    BY <1>1, <2>1 DEF Message
  <2> HIDE DEF d
  <2>5. net' \subseteq Message /\ \A m \in net' : m.type # "done" => m \in net
    BY <1>0, <2>3, <2>4
  <2> QED
    BY <1>0, <1>2, <1>4, <2>1, <2>2, <2>5, RunStep
<1>7. CASE NodeRestart
  <2>1. run' = [i \in Run |-> IF run[i] = None THEN None ELSE [run[i] EXCEPT !.pc = "ended"]]
    BY <1>7 DEF NodeRestart
  <2>2. UNCHANGED ttlVars /\ UNCHANGED <<req, net, asks, dups, puts>>
    BY <1>7 DEF NodeRestart
  <2>3. challenges' = {} /\ stops' \in 0..MaxStops
    BY <1>0, <1>7, ExecAssumption DEF NodeRestart
  <2>4. \A i \in Run : run[i] # None =>
           /\ run'[i] \in Launched
           /\ run'[i].exec = run[i].exec /\ run'[i].cid = run[i].cid
           /\ run'[i].pc = "ended"
    BY <1>1, <2>1 DEF Launched
  <2>5. \A i \in Run : run[i] = None => run'[i] = None
    BY <2>1
  <2>6. run' \in [Run -> Launched \cup {None}]
    <3>1. DOMAIN run' = Run /\ run' = [i \in Run |-> run'[i]]
      BY <2>1
    <3> QED
      BY <2>4, <2>5, <3>1
  <2>7. \A i \in Run :
          /\ run'[i] = None <=> run[i] = None
          /\ run[i] # None =>
                /\ run'[i].exec = run[i].exec /\ run'[i].cid = run[i].cid
                /\ run[i].pc # "command" => run'[i].pc # "command"
    BY <1>0, <2>4, <2>5
  <2> QED
    BY <1>0, <1>4, <2>2, <2>3, <2>6, <2>7, RunStep
<1> QED
  BY <1>3, <1>5, <1>6, <1>7

LEMMA StoreActions ==
    ASSUME ExecInv,
           \/ \E k \in Key \ Exec :
                 \/ \E ttl \in 0..MaxTtl : ClientPut(k, ttl)
                 \/ DeleteKey(k) /\ UNCHANGED execVars
           \/ Store
           \/ CleanStep
           \/ Tick /\ UNCHANGED execVars
    PROVE  ExecInv'
<1> DEFINE Known(x) == dies[x] # None \/ \E w \in Writer : writes[w] # None /\ writes[w].key = x
<1>0. puts \in 0..MaxPuts /\ Exec \subseteq Key /\ TTLTypeOK
  BY ExecAssumption DEF ExecInv, ExecTypeOK
<1>1. ASSUME NEW k \in Key \ Exec, NEW ttl \in 0..MaxTtl, ClientPut(k, ttl) PROVE ExecInv'
  <2>1. SetTtl(0, k, ttl) /\ 0 \in Writer
    BY <1>1, ExecAssumption DEF ClientPut
  <2>2. StoreInv' /\ TTLTypeOK'
    BY <2>1, SetTtlInv DEF ExecInv, StoreInv, ListInv
  <2>3. /\ dies' = dies
        /\ \A w \in Writer : writes'[w] # None =>
              writes'[w] = writes[w] \/ writes'[w].key = k
    BY <1>0, <2>1 DEF SetTtl, TTLTypeOK
  <2>4. \A x \in Exec :
          (dies'[x] # None \/ \E w \in Writer : writes'[w] # None /\ writes'[w].key = x)
          => (dies[x] # None \/ \E w \in Writer : writes[w] # None /\ writes[w].key = x)
    BY <2>3
  <2>5. puts' \in 0..MaxPuts /\ UNCHANGED <<req, net, challenges, asks, run, dups, stops>>
    BY <1>0, <1>1, ExecAssumption DEF ClientPut
  <2> QED
    BY <2>2, <2>4, <2>5, StoreStep
<1>2. ASSUME UNCHANGED execVars
      PROVE  puts' \in 0..MaxPuts /\ UNCHANGED <<req, net, challenges, asks, run, dups, stops>>
  BY <1>0, <1>2 DEF execVars
<1>3. ASSUME NEW k \in Key \ Exec, DeleteKey(k), UNCHANGED execVars PROVE ExecInv'
  <2>1. StoreInv' /\ TTLTypeOK'
    BY <1>3, DeleteKeyInv DEF ExecInv, StoreInv, ListInv
  <2>2. writes' = writes /\ \A x \in Exec : dies'[x] = dies[x]
    BY <1>0, <1>3 DEF DeleteKey, TTLTypeOK
  <2> QED
    BY <1>2, <1>3, <2>1, <2>2, StoreStep
<1>4. CASE Store
  <2>1. PICK w \in Writer : StoreValue(w) /\ UNCHANGED execVars
    BY <1>4 DEF Store
  <2>2. StoreInv' /\ TTLTypeOK'
    BY <2>1, StoreValueInv DEF ExecInv, StoreInv, ListInv
  <2>3. /\ writes[w] # None
        /\ \A u \in Writer : writes'[u] # None => writes'[u] = writes[u]
        /\ \A x \in Key : x # writes[w].key => dies'[x] = dies[x]
    BY <1>0, <2>1 DEF StoreValue, TTLTypeOK
  <2>4. \A x \in Exec :
          (dies'[x] # None \/ \E u \in Writer : writes'[u] # None /\ writes'[u].key = x)
          => (dies[x] # None \/ \E u \in Writer : writes[u] # None /\ writes[u].key = x)
    BY <1>0, <2>3
  <2> QED
    BY <1>2, <2>1, <2>2, <2>4, StoreStep
<1>5. CASE CleanStep
  <2>1. Clean /\ UNCHANGED execVars
    BY <1>5 DEF CleanStep
  <2>2. StoreInv' /\ TTLTypeOK'
    BY <2>1, CleanInv DEF ExecInv, StoreInv, ListInv
  <2>3. writes' = writes /\ \A x \in Key : dies'[x] # None => dies[x] # None
    BY <1>0, <2>1 DEF Clean, CleanStart, CleanHour, CleanKey, DropHour, TTLTypeOK
  <2> QED
    BY <1>0, <1>2, <2>1, <2>2, <2>3, StoreStep
<1>6. CASE Tick /\ UNCHANGED execVars
  <2>1. StoreInv' /\ TTLTypeOK'
    BY <1>6, TickInv DEF ExecInv, StoreInv, ListInv
  <2>2. writes' = writes /\ dies' = dies
    BY <1>6 DEF Tick
  <2> QED
    BY <1>2, <1>6, <2>1, <2>2, StoreStep
<1> QED
  BY <1>1, <1>3, <1>4, <1>5, <1>6

\* A step in which nothing happens.
LEMMA StutterExec ==
    ASSUME ExecInv, UNCHANGED vars
    PROVE  ExecInv'
<1>1. UNCHANGED ttlVars /\ UNCHANGED execVars
  BY DEF vars
<1>2. StoreInv' /\ TTLTypeOK'
  BY <1>1, StutterInv DEF ExecInv, StoreInv, ListInv
<1> QED
  BY <1>1, <1>2, StoreStep DEF ttlVars, execVars, ExecInv, ExecTypeOK

LEMMA NextExec == ExecInv /\ [Next]_vars => ExecInv'
BY RequestActions, AskStep, ProposalStep, ReturnStep, UnknownStep, RunActions, StoreActions,
   StutterExec DEF Next

\* Type correctness, and the lists of the hours.
THEOREM ExecInvHolds == Spec => []ExecInv
<1>1. Init => ExecInv
  BY InitExec
<1>2. ExecInv /\ [Next]_vars => ExecInv'
  BY NextExec
<1> QED
  BY <1>1, <1>2, PTL DEF Spec

\* Every variable stays in its type: the clock, the store, the datagrams, the requests and
\* the commands of executer.py and ttldatabase.py.
THEOREM Types == Spec => []ExecTypeOK
<1>1. ExecInv => ExecTypeOK
  BY DEF ExecInv
<1> QED
  BY <1>1, ExecInvHolds, PTL

\* A value that dies is listed in its hour, whoever puts, deletes or cleans meanwhile.
THEOREM Listed == Spec => []DyingKeysAreListed
<1>1. ExecInv => DyingKeysAreListed
  BY DEF ExecInv, StoreInv, ListInv
<1> QED
  BY <1>1, ExecInvHolds, PTL

\* A command runs only for the challenge that its own request answered.
THEOREM Answered == Spec => []RunsWereAnswered
<1>1. ExecInv => RunsWereAnswered
  BY DEF ExecInv
<1> QED
  BY <1>1, ExecInvHolds, PTL

\* A command runs once, and once more for each duplicated datagram at most.
THEOREM RunsOnce == Spec => []RunsOncePerReturn
<1>1. ExecInv => RunsOncePerReturn
  <2> SUFFICES ASSUME ExecInv, NEW x \in Exec PROVE Cardinality(Runs(x)) <= 1 + dups
    BY DEF RunsOncePerReturn
  <2>1. Cardinality(Runs(x)) \in Nat /\ dups \in Nat
    BY RunsFinite, ExecAssumption DEF ExecInv, ExecTypeOK
  <2> QED
    BY <2>1 DEF ExecInv, OnceInv
<1> QED
  BY <1>1, ExecInvHolds, PTL

\* An execution reported as done has run.
THEOREM DoneRan == Spec => []DoneHasRun
<1>1. ExecInv => DoneHasRun
  BY DEF ExecInv
<1> QED
  BY <1>1, ExecInvHolds, PTL

\* The cleaning deletes no value before the hour in which it dies, unless the key was put
\* again over what was there.
THEOREM InItsHour == Spec => DeletedInItsHour
<1>1. ExecInv => DeletesInHour
  BY InHour DEF ExecInv, StoreInv
<1>2. ExecInv => [DeletesInHour]_ttlVars
  BY <1>1
<1> QED
  BY <1>2, ExecInvHolds, PTL DEF DeletedInItsHour, DeletesInHour

-----------------------------------------------------------------------------
(***************************************************************************)
(* Executer implements RemoteExecution.  Each variable of the latter is    *)
(* named here, with what the steps make of it.                             *)
(***************************************************************************)
View(s)  == IF s \in {"asked", "returned", "told"} THEN "pending" ELSE s
Shown    == [x \in Exec |-> View(req[x].state)]
Agreed   == {x \in Exec : req[x].cid # None}
Launches == [x \in Exec |-> Cardinality(Runs(x))]
Over     == {x \in Exec : HasRun(x)}
Readable == {x \in Exec : dies[x] # None}

LEMMA ShownChange ==
    ASSUME ExecInv, NEW x \in Exec, NEW s \in ReqState,
           req' = [req EXCEPT ![x].state = s]
    PROVE  /\ Shown[x] = View(req[x].state)
           /\ Shown' = [Shown EXCEPT ![x] = View(s)]
           /\ Agreed' = Agreed
<1>1. /\ req' \in [Exec -> [state : ReqState, cid : Challenge \cup {None}]]
      /\ \A y \in Exec : /\ req'[y].cid = req[y].cid
                         /\ req'[y].state = IF y = x THEN s ELSE req[y].state
  BY DEF ExecInv, ExecTypeOK
<1>2. \A y \in Exec : View(req'[y].state) = IF y = x THEN View(s) ELSE View(req[y].state)
  BY <1>1
<1> QED  BY <1>1, <1>2 DEF Shown, Agreed

LEMMA RequestsSame ==
    ASSUME UNCHANGED req
    PROVE  Shown' = Shown /\ Agreed' = Agreed
BY DEF Shown, Agreed

LEMMA RunsSame ==
    ASSUME UNCHANGED run
    PROVE  Launches' = Launches /\ Over' = Over
BY DEF Launches, Over, HasRun, Runs

LEMMA ResultsSame ==
    ASSUME UNCHANGED dies
    PROVE  Readable' = Readable
BY DEF Readable

\* The commands go on: none is launched.
LEMMA RunsGoOn ==
    ASSUME \A i \in Run :
              /\ run'[i] = None <=> run[i] = None
              /\ run[i] # None => run'[i].exec = run[i].exec
    PROVE  Launches' = Launches
<1>1. \A x \in Exec : Runs(x)' = Runs(x)
  BY DEF Runs
<1> QED  BY <1>1 DEF Launches

\* A datagram that is received is the last of its kind, or repeated.
LEMMA DeliverRepeats ==
    ASSUME ExecInv, NEW m, NEW news, Deliver(m, news)
    PROVE  dups' \in {dups, dups + 1}
BY DEF Deliver

\* What is neither shown nor repeated is a stutter.
LEMMA Nothing ==
    ASSUME UNCHANGED <<Shown, Agreed, Launches, Over, Readable>>, dups' \in {dups, dups + 1}
    PROVE  Promise!Repeat \/ UNCHANGED Promise!vars
BY DEF Promise!Repeat, Promise!vars, Shown, View, Agreed, Launches, Over, HasRun, Readable

LEMMA LaunchMaps ==
    ASSUME ExecInv, NEW x \in Exec, Launch(x)
    PROVE  Promise!Ask(x)
<1>1. req[x].state = "idle" /\ req' = [req EXCEPT ![x].state = "asked"]
  BY DEF Launch
<1>2. UNCHANGED <<run, dies, dups>>
  BY DEF Launch, ttlVars
<1>3. /\ Shown[x] = "idle" /\ Shown' = [Shown EXCEPT ![x] = "pending"]
      /\ Agreed' = Agreed
  BY <1>1, ShownChange DEF View, ReqState
<1>4. UNCHANGED <<Launches, Over, Readable>>
  BY <1>2, RunsSame, ResultsSame
<1> QED
  BY <1>2, <1>3, <1>4
  DEF Promise!Ask, Shown, View, Agreed, Launches, Over, HasRun, Readable

\* A result that is read is there, and was agreed to.
LEMMA ReadMaps ==
    ASSUME ExecInv, NEW x \in Exec, ReadResult(x)
    PROVE  Promise!Done(x) \/ Promise!Fail(x)
<1>1. PICK end \in {"done", "error"} :
         /\ end = "done" => dies[x] # None
         /\ req' = [req EXCEPT ![x].state = end]
  BY DEF ReadResult
<1>2. req[x].state = "told" /\ UNCHANGED <<run, dies, dups>>
  BY DEF ReadResult, ttlVars
<1>3. /\ Shown[x] = "pending" /\ Shown' = [Shown EXCEPT ![x] = end]
      /\ Agreed' = Agreed
  BY <1>1, <1>2, ShownChange DEF View, ReqState
<1>4. UNCHANGED <<Launches, Over, Readable>>
  BY <1>2, RunsSame, ResultsSame
<1>5. x \in Agreed /\ (end = "done" => x \in Readable)
  BY <1>1, <1>2 DEF ExecInv, ReqInv, Agreed, Readable
<1>6. CASE end = "done"
  BY <1>2, <1>3, <1>4, <1>5, <1>6
  DEF Promise!Done, Shown, View, Agreed, Launches, Over, HasRun, Readable
<1>7. CASE end = "error"
  BY <1>2, <1>3, <1>4, <1>7
  DEF Promise!Fail, Shown, View, Agreed, Launches, Over, HasRun, Readable
<1> QED  BY <1>6, <1>7

LEMMA TimeoutMaps ==
    ASSUME ExecInv, NEW x \in Exec, Timeout(x)
    PROVE  Promise!Fail(x)
<1>1. req[x].state \in {"asked", "returned"} /\ req' = [req EXCEPT ![x].state = "error"]
  BY DEF Timeout
<1>2. UNCHANGED <<run, dies, dups>>
  BY DEF Timeout, ttlVars
<1>3. /\ Shown[x] = "pending" /\ Shown' = [Shown EXCEPT ![x] = "error"]
      /\ Agreed' = Agreed
  BY <1>1, ShownChange DEF View, ReqState
<1>4. UNCHANGED <<Launches, Over, Readable>>
  BY <1>2, RunsSame, ResultsSame
<1> QED
  BY <1>2, <1>3, <1>4
  DEF Promise!Fail, Shown, View, Agreed, Launches, Over, HasRun, Readable

\* The first proposal makes the requester agree; it had no challenge before.
LEMMA ProposalMaps ==
    ASSUME ExecInv, NEW m \in net, ReceiveProposal(m)
    PROVE  \E x \in Exec : Promise!Agree(x)
<1>1. PICK x : x = m.exec
  OBVIOUS
<1>2. PICK c : c = m.cid
  OBVIOUS
<1>3. /\ m.type = "proposal" /\ req[x].state = "asked"
      /\ req' = [req EXCEPT ![x] = [state |-> "returned", cid |-> c]]
      /\ UNCHANGED <<run, dies>>
  BY <1>1, <1>2 DEF ReceiveProposal, ttlVars
<1>4. x \in Exec /\ c \in Challenge
  BY <1>1, <1>2, <1>3 DEF ExecInv, ExecTypeOK, Message
<1>5. c # None
  BY <1>4, TtlNoneAssumption, ExecAssumption DEF Challenge
<1>6. /\ req \in [Exec -> [state : ReqState, cid : Challenge \cup {None}]]
      /\ req'[x].cid = c /\ req'[x].state = "returned"
      /\ \A y \in Exec : y # x => req'[y] = req[y]
  BY <1>3, <1>4 DEF ExecInv, ExecTypeOK
<1>7. Shown[x] = "pending" /\ Shown' = Shown
  <2>1. \A y \in Exec : View(req'[y].state) = View(req[y].state)
    BY <1>3, <1>6 DEF View
  <2> QED  BY <1>3, <1>4, <2>1 DEF Shown, View
<1>8. x \notin Agreed /\ Agreed' = Agreed \cup {x}
  <2>1. req[x].cid = None
    BY <1>3, <1>4 DEF ExecInv, ReqInv
  <2> QED  BY <1>4, <1>5, <1>6, <2>1 DEF Agreed
<1>9. UNCHANGED <<Launches, Over, Readable>>
  BY <1>3, RunsSame, ResultsSame
<1>10. dups' \in {dups, dups + 1}
  BY DeliverRepeats DEF ReceiveProposal
<1>11. Promise!Agree(x)
  BY <1>4, <1>7, <1>8, <1>9, <1>10
  DEF Promise!Agree, Shown, View, Agreed, Launches, Over, HasRun, Readable
<1> QED  BY <1>4, <1>11

\* The return that is received was pending: it is one of those that OnceInv counts.
LEMMA ReturnMaps ==
    ASSUME ExecInv, NEW m \in net, ReceiveReturn(m)
    PROVE  \E x \in Exec : Promise!Begin(x)
<1>1. PICK c \in challenges, i \in Run :
         /\ c.exec \in Exec /\ c.cid = m.cid /\ m.cid \in Challenge
         /\ req[c.exec].cid = m.cid
         /\ run[i] = None
         /\ run'[i] = [exec |-> c.exec, cid |-> c.cid, pc |-> "command"]
         /\ \A j \in Run : j # i => run'[j] = run[j]
         /\ \A x \in Exec : x # c.exec => Runs(x)' = Runs(x)
         /\ Runs(c.exec)' = Runs(c.exec) \cup {i} /\ i \notin Runs(c.exec)
  BY ReturnFacts
<1>2. PICK x : x = c.exec
  OBVIOUS
<1>3. m.type = "return" /\ UNCHANGED <<req, dies>>
  BY DEF ReceiveReturn, ttlVars
<1>4. x \in Exec /\ x \in Agreed
  BY <1>1, <1>2, TtlNoneAssumption, ExecAssumption DEF Agreed, Challenge
<1>5. Cardinality(Runs(x)') = Cardinality(Runs(x)) + 1
  BY <1>1, <1>2, RunsFinite, FS_AddElement
<1>6. Launches[x] <= dups
  <2>1. Pending(x)
    BY <1>1, <1>2, <1>3 DEF Pending
  <2>2. Cardinality(Runs(x)) + 1 <= 1 + dups
    BY <1>4, <2>1 DEF ExecInv, OnceInv
  <2>3. Cardinality(Runs(x)) \in Nat /\ dups \in Nat
    BY <1>4, RunsFinite, ExecAssumption DEF ExecInv, ExecTypeOK
  <2>4. Launches[x] = Cardinality(Runs(x))
    BY <1>4 DEF Launches
  <2> QED  BY <2>2, <2>3, <2>4
<1>7. Launches' = [Launches EXCEPT ![x] = @ + 1]
  <2>1. \A y \in Exec : Cardinality(Runs(y)') = IF y = x THEN Cardinality(Runs(x)) + 1
                                                ELSE Cardinality(Runs(y))
    BY <1>1, <1>2, <1>5
  <2> QED  BY <1>4, <2>1 DEF Launches
<1>8. Over' = Over
  <2>1. run'[i].pc = "command"
    BY <1>1
  <2>2. \A y \in Exec : HasRun(y)' <=> HasRun(y)
    BY <1>1, <2>1 DEF HasRun, Runs
  <2> QED  BY <2>2 DEF Over
<1>9. UNCHANGED <<Shown, Agreed, Readable>>
  BY <1>3, RequestsSame, ResultsSame
<1>10. dups' \in {dups, dups + 1}
  BY DeliverRepeats DEF ReceiveReturn
<1>11. Promise!Begin(x)
  BY <1>4, <1>6, <1>7, <1>8, <1>9, <1>10
  DEF Promise!Begin, Shown, View, Agreed, Launches, Over, HasRun, Readable
<1> QED  BY <1>4, <1>11

\* Datagrams that change neither what is shown nor what runs.
LEMMA OtherDatagramMaps ==
    ASSUME ExecInv, NEW m \in net,
           ReceiveAsk(m) \/ ReceiveUnknownReturn(m) \/ ReceiveEnd(m)
    PROVE  Promise!Repeat \/ UNCHANGED Promise!vars
<1>1. UNCHANGED <<run, dies>> /\ dups' \in {dups, dups + 1}
  BY DeliverRepeats DEF ReceiveAsk, ReceiveUnknownReturn, ReceiveEnd, ttlVars
<1>2. UNCHANGED <<Launches, Over, Readable>>
  BY <1>1, RunsSame, ResultsSame
<1>3. CASE ReceiveEnd(m)
  <2>1. PICK x : x = m.exec
    OBVIOUS
  <2>2. /\ m.type \in {"done", "proposal"} /\ req[x].state = "returned"
        /\ req' = [req EXCEPT ![x].state = "told"]
    BY <1>3, <2>1 DEF ReceiveEnd
  <2>3. x \in Exec
    BY <2>1, <2>2 DEF ExecInv, ExecTypeOK, Message
  <2>4. /\ Shown[x] = "pending" /\ Shown' = [Shown EXCEPT ![x] = "pending"]
        /\ Agreed' = Agreed
    BY <2>2, <2>3, ShownChange DEF View, ReqState
  <2>5. Shown' = Shown
    BY <2>3, <2>4 DEF Shown
  <2> QED  BY <1>1, <1>2, <2>4, <2>5, Nothing
<1>4. CASE ReceiveAsk(m) \/ ReceiveUnknownReturn(m)
  <2>1. UNCHANGED <<Shown, Agreed>>
    BY <1>4, RequestsSame DEF ReceiveAsk, ReceiveUnknownReturn
  <2> QED  BY <1>1, <1>2, <2>1, Nothing
<1> QED  BY <1>3, <1>4

\* Commands end, by themselves or with their agent: those of X.
LEMMA EndMaps ==
    ASSUME NEW X \in SUBSET Exec, \A x \in X : Runs(x) # {},
           Over' = Over \cup X,
           UNCHANGED <<Shown, Agreed, Launches, Readable, dups>>
    PROVE  Promise!End(X)
<1>1. \A x \in X : Launches[x] > 0
  <2> SUFFICES ASSUME NEW x \in X PROVE Launches[x] > 0
    OBVIOUS
  <2>1. IsFiniteSet(Runs(x)) /\ Cardinality(Runs(x)) \in Nat /\ Runs(x) # {}
    BY RunsFinite
  <2>2. Cardinality(Runs(x)) # 0
    BY <2>1, FS_EmptySet
  <2>3. Launches[x] = Cardinality(Runs(x))
    BY DEF Launches
  <2> QED  BY <2>1, <2>2, <2>3
<1> QED
  BY <1>1 DEF Promise!End, Shown, View, Agreed, Launches, Over, HasRun, Readable

LEMMA CommandEndMaps ==
    ASSUME ExecInv, NEW i \in Run, run[i] # None, run[i].pc = "command",
           run' = [run EXCEPT ![i].pc = "stored"],
           UNCHANGED <<req, dies, dups>>
    PROVE  \E X \in SUBSET Exec : Promise!End(X)
<1>1. PICK x : x = run[i].exec
  OBVIOUS
<1>2. run \in [Run -> Launched \cup {None}]
  BY DEF ExecInv, ExecTypeOK
<1>3. run[i] \in Launched /\ x \in Exec
  BY <1>1, <1>2 DEF Launched
<1>4. PICK r : r = [run[i] EXCEPT !.pc = "stored"]
  OBVIOUS
<1>5. r \in Launched /\ r.exec = x /\ r.pc = "stored"
  BY <1>1, <1>3, <1>4 DEF Launched
<1>6. r # None
  BY <1>5, ExecAssumption DEF Launched, Challenge
<1>7. run'[i] = r /\ \A j \in Run : j # i => run'[j] = run[j]
  BY <1>2, <1>4
<1>8. Launches' = Launches
  BY <1>1, <1>5, <1>6, <1>7, RunsGoOn
<1>9. \A y \in Exec : HasRun(y)' <=> HasRun(y) \/ y = x
  <2>1. i \in Runs(x)' /\ run'[i].pc # "command"
    BY <1>5, <1>6, <1>7 DEF Runs
  <2>2. \A y \in Exec : Runs(y)' = Runs(y)
    BY <1>1, <1>5, <1>6, <1>7 DEF Runs
  <2>3. \A y \in Exec : y # x => i \notin Runs(y)
    BY <1>1 DEF Runs
  <2>4. HasRun(x)'
    BY <2>1 DEF HasRun
  <2>5. \A y \in Exec : y # x => (HasRun(y)' <=> HasRun(y))
    BY <1>7, <2>2, <2>3 DEF HasRun, Runs
  <2> QED  BY <2>4, <2>5
<1>10. Over' = Over \cup {x}
  BY <1>3, <1>9 DEF Over
<1>11. Runs(x) # {}
  BY <1>1 DEF Runs
<1>12. UNCHANGED <<Shown, Agreed, Readable>>
  BY RequestsSame, ResultsSame
<1>13. \E X \in SUBSET Exec : X = {x}
  BY <1>3
<1> QED  BY <1>3, <1>8, <1>10, <1>11, <1>12, <1>13, EndMaps

LEMMA DoneIsSentMaps ==
    ASSUME ExecInv, NEW i \in Run, SendDone(i)
    PROVE  UNCHANGED Promise!vars
<1>1. /\ run[i] # None /\ run[i].pc = "stored"
      /\ run' = [run EXCEPT ![i].pc = "ended"]
      /\ UNCHANGED <<req, dies, dups>>
  BY DEF SendDone, ttlVars
<1>2. run \in [Run -> Launched \cup {None}]
  BY DEF ExecInv, ExecTypeOK
<1>3. PICK r : r = [run[i] EXCEPT !.pc = "ended"]
  OBVIOUS
<1>4. r \in Launched /\ r.exec = run[i].exec /\ r.pc = "ended"
  BY <1>1, <1>2, <1>3 DEF Launched
<1>5. r # None
  BY <1>4, ExecAssumption DEF Launched, Challenge
<1>6. run'[i] = r /\ \A j \in Run : j # i => run'[j] = run[j]
  BY <1>1, <1>2, <1>3
<1>7. Launches' = Launches
  BY <1>1, <1>4, <1>5, <1>6, RunsGoOn
<1>8. \A y \in Exec : HasRun(y)' <=> HasRun(y)
  <2>1. \A y \in Exec : Runs(y)' = Runs(y)
    BY <1>1, <1>4, <1>5, <1>6 DEF Runs
  <2> QED  BY <1>1, <1>4, <1>6, <2>1 DEF HasRun, Runs
<1>9. UNCHANGED <<Shown, Agreed, Over, Readable>>
  BY <1>1, <1>8, RequestsSame, ResultsSame DEF Over
<1> QED
  BY <1>1, <1>7, <1>9
  DEF Promise!vars, Shown, View, Agreed, Launches, Over, HasRun, Readable

LEMMA NodeRestartMaps ==
    ASSUME ExecInv, NodeRestart
    PROVE  \E X \in SUBSET Exec : Promise!End(X)
<1>1. /\ run' = [i \in Run |-> IF run[i] = None THEN None ELSE [run[i] EXCEPT !.pc = "ended"]]
      /\ UNCHANGED <<req, dies, dups>>
  BY DEF NodeRestart, ttlVars
<1>2. run \in [Run -> Launched \cup {None}] /\ None \notin Launched
  BY ExecAssumption DEF ExecInv, ExecTypeOK, Launched, Challenge
<1>3. \A i \in Run :
         /\ run[i] = None => run'[i] = None
         /\ run[i] # None => /\ run'[i] \in Launched
                             /\ run'[i].exec = run[i].exec /\ run'[i].pc = "ended"
  BY <1>1, <1>2 DEF Launched
<1>4. \A x \in Exec : Runs(x)' = Runs(x)
  BY <1>2, <1>3 DEF Runs
<1>5. PICK X : X = {x \in Exec : Runs(x) # {}}
  OBVIOUS
<1>6. Over' = Over \cup X
  <2>1. \A x \in Exec : HasRun(x)' <=> x \in X
    BY <1>2, <1>3, <1>4, <1>5 DEF HasRun, Runs
  <2>2. Over \subseteq X
    BY <1>5 DEF Over, HasRun
  <2>3. Over' = X
    BY <1>5, <2>1 DEF Over
  <2> QED  BY <2>2, <2>3
<1>7. Launches' = Launches
  BY <1>4 DEF Launches
<1>8. UNCHANGED <<Shown, Agreed, Readable, dups>>
  BY <1>1, RequestsSame, ResultsSame
<1>9. X \in SUBSET Exec /\ \A x \in X : Runs(x) # {}
  BY <1>5
<1> QED  BY <1>6, <1>7, <1>8, <1>9, EndMaps

-----------------------------------------------------------------------------
\* What the store does to the results: one appears, that a command has put, or one goes.
LEMMA StoreMaps ==
    ASSUME ExecInv, NEW k, NEW d, dies' = [dies EXCEPT ![k] = d], k \in Key,
           UNCHANGED execVars, d # None => (k \in Exec => k \in Over)
    PROVE  \/ \E x \in Exec : Promise!Publish(x) \/ Promise!Expire(x)
           \/ UNCHANGED Promise!vars
<1>1. UNCHANGED <<Shown, Agreed, Launches, Over, dups>>
  BY RequestsSame, RunsSame DEF execVars
<1>2. \A y \in Key : dies'[y] = IF y = k THEN d ELSE dies[y]
  BY DEF ExecInv, ExecTypeOK, TTLTypeOK
<1>3. Exec \subseteq Key
  BY ExecAssumption
<1>4. CASE k \notin Exec
  <2>1. Readable' = Readable
    BY <1>2, <1>3, <1>4 DEF Readable
  <2> QED
    BY <1>1, <2>1
    DEF Promise!vars, Shown, View, Agreed, Launches, Over, HasRun, Readable
<1>5. CASE k \in Exec /\ d = None
  <2>1. Readable' = Readable \ {k}
    BY <1>2, <1>3, <1>5 DEF Readable
  <2>2. Promise!Expire(k)
    BY <1>1, <2>1
    DEF Promise!Expire, Shown, View, Agreed, Launches, Over, HasRun, Readable
  <2> QED  BY <1>5, <2>2
<1>6. CASE k \in Exec /\ d # None
  <2>1. Readable' = Readable \cup {k}
    BY <1>2, <1>3, <1>6 DEF Readable
  <2>2. Promise!Publish(k)
    BY <1>1, <1>6, <2>1
    DEF Promise!Publish, Shown, View, Agreed, Launches, Over, HasRun, Readable
  <2> QED  BY <1>6, <2>2
<1> QED  BY <1>4, <1>5, <1>6

LEMMA StoreActionMaps ==
    ASSUME ExecInv,
           \/ \E k \in Key \ Exec :
                 \/ \E ttl \in 0..MaxTtl : ClientPut(k, ttl)
                 \/ DeleteKey(k) /\ UNCHANGED execVars
           \/ Store
           \/ CleanStep
           \/ Tick /\ UNCHANGED execVars
    PROVE  \/ \E x \in Exec : Promise!Publish(x) \/ Promise!Expire(x)
           \/ UNCHANGED Promise!vars
<1>0. TTLTypeOK
  BY DEF ExecInv, ExecTypeOK
<1>1. ASSUME UNCHANGED <<req, run, dies, dups>> PROVE UNCHANGED Promise!vars
  <2>1. UNCHANGED <<Shown, Agreed, Launches, Over, Readable>>
    BY <1>1, RequestsSame, RunsSame, ResultsSame
  <2> QED
    BY <1>1, <2>1
    DEF Promise!vars, Shown, View, Agreed, Launches, Over, HasRun, Readable
<1>2. ASSUME NEW k \in Key \ Exec, NEW ttl \in 0..MaxTtl, ClientPut(k, ttl)
      PROVE  UNCHANGED Promise!vars
  BY <1>1, <1>2 DEF ClientPut, SetTtl
<1>3. CASE Tick /\ UNCHANGED execVars
  BY <1>1, <1>3 DEF Tick, execVars
<1>4. ASSUME NEW k \in Key \ Exec, DeleteKey(k), UNCHANGED execVars
      PROVE  \/ \E x \in Exec : Promise!Publish(x) \/ Promise!Expire(x)
             \/ UNCHANGED Promise!vars
  <2>1. dies' = [dies EXCEPT ![k] = None]
    BY <1>4 DEF DeleteKey
  <2> QED  BY <1>4, <2>1, StoreMaps
<1>5. CASE Store
  <2>1. PICK w \in Writer : StoreValue(w) /\ UNCHANGED execVars
    BY <1>5 DEF Store
  <2>2. PICK k, d : k = writes[w].key /\ d = writes[w].dies
    OBVIOUS
  <2>3. writes[w] # None /\ dies' = [dies EXCEPT ![k] = d]
    BY <2>1, <2>2 DEF StoreValue
  <2>4. k \in Key
    BY <1>0, <2>2, <2>3 DEF TTLTypeOK, Write
  <2>5. k \in Exec => k \in Over
    BY <2>2, <2>3 DEF ExecInv, ResultInv, Over
  <2> QED  BY <2>1, <2>3, <2>4, <2>5, StoreMaps
<1>6. CASE CleanStep
  <2>1. Clean /\ UNCHANGED execVars
    BY <1>6 DEF CleanStep
  <2>2. CASE dies' = dies
    BY <1>1, <2>1, <2>2 DEF execVars
  <2>3. ASSUME NEW k \in cleaning.keys, CleanKey(k)
        PROVE  \/ \E x \in Exec : Promise!Publish(x) \/ Promise!Expire(x)
               \/ UNCHANGED Promise!vars
    <3>1. k \in Key /\ dies' = [dies EXCEPT ![k] = None]
      BY <1>0, <2>3 DEF CleanKey, TTLTypeOK
    <3> QED  BY <2>1, <3>1, StoreMaps
  <2>4. dies' = dies \/ \E k \in cleaning.keys : CleanKey(k)
    BY <2>1 DEF Clean, CleanStart, CleanHour, DropHour
  <2> QED  BY <2>2, <2>3, <2>4
<1> QED  BY <1>2, <1>3, <1>4, <1>5, <1>6

LEMMA InitPromise == Init => Promise!Init
<1> SUFFICES ASSUME Init PROVE Promise!Init
  OBVIOUS
<1>1. \A x \in Exec : x \in Key /\ req[x] = [state |-> "idle", cid |-> None] /\ dies[x] = None
  BY ExecAssumption DEF Init, TTLInit
<1>2. \A x \in Exec : Runs(x) = {}
  BY DEF Init, Runs
<1>3. Shown = [x \in Exec |-> "idle"] /\ Agreed = {} /\ Readable = {}
  BY <1>1 DEF Shown, View, Agreed, Readable
<1>4. Launches = [x \in Exec |-> 0] /\ Over = {}
  BY <1>2, FS_EmptySet DEF Launches, Over, HasRun
<1>5. dups = 0
  BY DEF Init
<1> QED
  BY <1>3, <1>4, <1>5
  DEF Promise!Init, Shown, View, Agreed, Launches, Over, HasRun, Readable

LEMMA NextPromise == ExecInv /\ [Next]_vars => [Promise!Next]_(Promise!vars)
<1> SUFFICES ASSUME ExecInv, [Next]_vars PROVE Promise!Next \/ UNCHANGED Promise!vars
  OBVIOUS
<1>1. ASSUME NEW x \in Exec, Launch(x) \/ ReadResult(x) \/ Timeout(x) PROVE Promise!Next
  BY <1>1, LaunchMaps, ReadMaps, TimeoutMaps DEF Promise!Next
<1>2. ASSUME NEW m \in net, ReceiveProposal(m) \/ ReceiveReturn(m) PROVE Promise!Next
  BY <1>2, ProposalMaps, ReturnMaps DEF Promise!Next
<1>3. ASSUME NEW m \in net, ReceiveAsk(m) \/ ReceiveUnknownReturn(m) \/ ReceiveEnd(m)
      PROVE  Promise!Next \/ UNCHANGED Promise!vars
  BY <1>3, OtherDatagramMaps DEF Promise!Next
<1>4. ASSUME NEW i \in Run, StoreResult(i) \/ StoreFails(i) PROVE Promise!Next
  <2>1. /\ run[i] # None /\ run[i].pc = "command"
        /\ run' = [run EXCEPT ![i].pc = "stored"]
        /\ UNCHANGED <<req, dies, dups>>
    BY <1>4 DEF StoreResult, StoreFails, SetTtl, ttlVars
  <2> QED  BY <2>1, CommandEndMaps DEF Promise!Next
<1>5. ASSUME NEW i \in Run, SendDone(i) PROVE UNCHANGED Promise!vars
  BY <1>5, DoneIsSentMaps
<1>6. CASE NodeRestart
  BY <1>6, NodeRestartMaps DEF Promise!Next
<1>7. CASE \/ \E k \in Key \ Exec :
                 \/ \E ttl \in 0..MaxTtl : ClientPut(k, ttl)
                 \/ DeleteKey(k) /\ UNCHANGED execVars
           \/ Store
           \/ CleanStep
           \/ Tick /\ UNCHANGED execVars
  <2>1. \/ \E x \in Exec : Promise!Publish(x) \/ Promise!Expire(x)
        \/ UNCHANGED Promise!vars
    BY <1>7, StoreActionMaps
  <2> QED  BY <2>1 DEF Promise!Next
<1>8. CASE UNCHANGED vars
  <2>1. UNCHANGED <<req, run, dies, dups>>
    BY <1>8 DEF vars, ttlVars, execVars
  <2>2. UNCHANGED <<Shown, Agreed, Launches, Over, Readable>>
    BY <2>1, RequestsSame, RunsSame, ResultsSame
  <2> QED
    BY <2>1, <2>2
    DEF Promise!vars, Shown, View, Agreed, Launches, Over, HasRun, Readable
<1> QED  BY <1>1, <1>2, <1>3, <1>4, <1>5, <1>6, <1>7, <1>8 DEF Next

\* Remote execution by datagrams, challenges, threads and the store with its hours is
\* RemoteExecution: whatever is lost, late or repeated, and whoever restarts, a command
\* begins after its requester agreed, once and once more per repeated datagram, and what
\* is reported as done has its result at that moment.
THEOREM PromiseKept == Spec => ExecutesAsPromised
<1>1. Init => Promise!Init
  BY InitPromise
<1>2. ExecInv /\ [Next]_vars => [Promise!Next]_(Promise!vars)
  BY NextPromise
<1>3. Spec => []ExecInv
  BY ExecInvHolds
<1> QED  BY <1>1, <1>2, <1>3, PTL DEF Spec, ExecutesAsPromised, Promise!Spec
=============================================================================
