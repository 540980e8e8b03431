------------------------------ MODULE Executer ------------------------------
(***************************************************************************)
(* Remote execution: src/opsbro/executer.py.  A requester asks a node for  *)
(* a challenge, returns it solved with the command, is told when it ran,   *)
(* and reads the result in the key-value store, where it has a time to     *)
(* live (TTLDatabase, with the other keys that clients put there).         *)
(*                                                                         *)
(* Datagrams are lost (never taken from net), late, reordered and          *)
(* duplicated.  Each execution has its socket, on which the requester      *)
(* waits twice, five seconds each: here, as long as it likes.              *)
(***************************************************************************)
EXTENDS TTLDatabase

CONSTANTS Exec,      \* the executions (one command on one node each), and their keys
          MaxRuns,   \* bound: commands launched
          MaxAsks,   \* bound: challenges made
          MaxDups,   \* bound: duplicated datagrams
          MaxPuts,   \* bound: puts of other keys
          MaxStops   \* bound: stops of the agent that executes

ASSUME ExecAssumption ==
    /\ Exec \subseteq Key
    /\ MaxRuns \in Nat /\ MaxAsks \in Nat /\ MaxDups \in Nat
    /\ MaxPuts \in Nat /\ MaxStops \in Nat
    /\ Writer = 0..MaxRuns
    /\ MaxTtl >= Hour
    /\ None \notin [exec : Exec, cid : 1..MaxAsks, pc : {"command", "stored", "ended"}]

VARIABLES req,         \* _launch_execution_to_other_node of each execution
          net,         \* datagrams
          challenges,  \* the challenges of the node: of which execution each is
          asks,        \* challenges made so far
          run,         \* the threads of the node that launch commands
          dups,        \* duplicated datagrams so far
          puts,        \* puts of other keys so far
          stops        \* stops of the node so far

execVars == <<req, net, challenges, asks, run, dups, puts, stops>>
vars == <<ttlVars, execVars>>

\* A challenge is its number; a return carries the right response to it.
Challenge == 1..MaxAsks
Run       == 1..MaxRuns

Message ==
    [type : {"ask"}, exec : Exec]
    \cup [type : {"proposal", "done"}, exec : Exec, cid : Challenge]
    \cup [type : {"return"}, cid : Challenge]

Launched == [exec : Exec, cid : Challenge, pc : {"command", "stored", "ended"}]

ReqState == {"idle", "asked", "returned", "told", "done", "error"}

Init ==
    /\ TTLInit
    /\ req = [x \in Exec |-> [state |-> "idle", cid |-> None]]
    /\ net = {}
    /\ challenges = {}
    /\ asks = 0
    /\ run = [i \in Run |-> None]
    /\ dups = 0
    /\ puts = 0
    /\ stops = 0

-----------------------------------------------------------------------------
\* m is received, and news sent; the network may deliver m once more.
Deliver(m, news) ==
    /\ m \in net
    /\ \/ net' = (net \ {m}) \cup news /\ dups' = dups
       \/ net' = net \cup news /\ dups < MaxDups /\ dups' = dups + 1

\* The requester asks for a challenge.
Launch(x) ==
    /\ req[x].state = "idle"
    /\ req' = [req EXCEPT ![x].state = "asked"]
    /\ net' = net \cup {[type |-> "ask", exec |-> x]}
    /\ UNCHANGED <<ttlVars, challenges, asks, run, dups, puts, stops>>

\* manage_exec_challenge_ask_message: a new challenge for each request.
ReceiveAsk(m) ==
    /\ m.type = "ask"
    /\ asks < MaxAsks
    /\ asks' = asks + 1
    /\ challenges' = challenges \cup {[cid |-> asks', exec |-> m.exec]}
    /\ Deliver(m, {[type |-> "proposal", exec |-> m.exec, cid |-> asks']})
    /\ UNCHANGED <<ttlVars, req, run, puts, stops>>

\* The first wait of the requester: it answers the challenge.
ReceiveProposal(m) ==
    /\ m.type = "proposal"
    /\ req[m.exec].state = "asked"
    /\ req' = [req EXCEPT ![m.exec] = [state |-> "returned", cid |-> m.cid]]
    /\ Deliver(m, {[type |-> "return", cid |-> m.cid]})
    /\ UNCHANGED <<ttlVars, challenges, asks, run, puts, stops>>

\* manage_exec_challenge_return_message: the challenge stays, the command is launched.
ReceiveReturn(m) ==
    /\ m.type = "return"
    /\ \E c \in challenges, i \in Run :
        /\ c.cid = m.cid
        /\ run[i] = None /\ \A j \in Run : run[j] = None => i <= j
        /\ run' = [run EXCEPT ![i] = [exec |-> c.exec, cid |-> c.cid, pc |-> "command"]]
    /\ Deliver(m, {})
    /\ UNCHANGED <<ttlVars, req, challenges, asks, puts, stops>>

\* ... or the node was restarted and does not know it.
ReceiveUnknownReturn(m) ==
    /\ m.type = "return"
    /\ \A c \in challenges : c.cid # m.cid
    /\ Deliver(m, {})
    /\ UNCHANGED <<ttlVars, req, challenges, asks, run, puts, stops>>

\* _do_launch_exec: the command ended, its result goes to the key-value store.
StoreResult(i) ==
    /\ run[i] # None /\ run[i].pc = "command"
    /\ run' = [run EXCEPT ![i].pc = "stored"]
    /\ SetTtl(i, run[i].exec, Hour)
    /\ UNCHANGED <<req, net, challenges, asks, dups, puts, stops>>

\* ... whose owner may not answer.
StoreFails(i) ==
    /\ run[i] # None /\ run[i].pc = "command"
    /\ run' = [run EXCEPT ![i].pc = "stored"]
    /\ UNCHANGED <<ttlVars, req, net, challenges, asks, dups, puts, stops>>

\* ... and once put_key returned, the requester is told.
SendDone(i) ==
    /\ run[i] # None /\ run[i].pc = "stored"
    /\ writes[i] = None
    /\ run' = [run EXCEPT ![i].pc = "ended"]
    /\ net' = net \cup {[type |-> "done", exec |-> run[i].exec, cid |-> run[i].cid]}
    /\ UNCHANGED <<ttlVars, req, challenges, asks, dups, puts, stops>>

\* Mutant of ReceiveEnd: a proposal is answered, also by the second wait.
ReceiveEndOrAnswer(m) ==
    /\ m.type \in {"done", "proposal"}
    /\ req[m.exec].state = "returned"
    /\ IF m.type = "done"
       THEN req' = [req EXCEPT ![m.exec].state = "told"] /\ Deliver(m, {})
       ELSE /\ req' = [req EXCEPT ![m.exec].cid = m.cid]
            /\ Deliver(m, {[type |-> "return", cid |-> m.cid]})
    /\ UNCHANGED <<ttlVars, challenges, asks, run, puts, stops>>

\* The second wait of the requester: whatever has a challenge id counts as the end, and
\* so does a second proposal.
ReceiveEnd(m) ==
    /\ m.type \in {"done", "proposal"}
    /\ req[m.exec].state = "returned"
    /\ req' = [req EXCEPT ![m.exec].state = "told"]
    /\ Deliver(m, {})
    /\ UNCHANGED <<ttlVars, challenges, asks, run, puts, stops>>

\* Mutant of ReadResult: being told is enough.
ReadResultTrusting(x) ==
    /\ req[x].state = "told"
    /\ \E end \in {"done", "error"} : req' = [req EXCEPT ![x].state = end]
    /\ UNCHANGED <<ttlVars, net, challenges, asks, run, dups, puts, stops>>

\* It reads the result: none there, or an owner that does not answer, is an error.
ReadResult(x) ==
    /\ req[x].state = "told"
    /\ \E end \in {"done", "error"} :
        /\ end = "done" => dies[x] # None
        /\ req' = [req EXCEPT ![x].state = end]
    /\ UNCHANGED <<ttlVars, net, challenges, asks, run, dups, puts, stops>>

\* Mutant of Timeout: the second wait has no end.
TimeoutFirstOnly(x) ==
    /\ req[x].state = "asked"
    /\ req' = [req EXCEPT ![x].state = "error"]
    /\ UNCHANGED <<ttlVars, net, challenges, asks, run, dups, puts, stops>>

\* Mutant of Timeout: the second wait returns the challenge once more.
TimeoutRetries(x) ==
    \/ /\ req[x].state = "asked"
       /\ req' = [req EXCEPT ![x].state = "error"]
       /\ UNCHANGED <<ttlVars, net, challenges, asks, run, dups, puts, stops>>
    \/ /\ req[x].state = "returned"
       /\ net' = net \cup {[type |-> "return", cid |-> req[x].cid]}
       /\ UNCHANGED <<ttlVars, req, challenges, asks, run, dups, puts, stops>>

\* socket.timeout, in either wait.
Timeout(x) ==
    /\ req[x].state \in {"asked", "returned"}
    /\ req' = [req EXCEPT ![x].state = "error"]
    /\ UNCHANGED <<ttlVars, net, challenges, asks, run, dups, puts, stops>>

\* The agent that executes is restarted: challenges and threads are gone.
NodeRestart ==
    /\ stops < MaxStops
    /\ stops' = stops + 1
    /\ challenges' = {}
    /\ run' = [i \in Run |-> IF run[i] = None THEN None ELSE [run[i] EXCEPT !.pc = "ended"]]
    /\ UNCHANGED <<ttlVars, req, net, asks, dups, puts>>

-----------------------------------------------------------------------------
\* Other keys are put, with any ttl, and deleted.
ClientPut(k, ttl) ==
    /\ puts < MaxPuts
    /\ puts' = puts + 1
    /\ SetTtl(0, k, ttl)
    /\ UNCHANGED <<req, net, challenges, asks, run, dups, stops>>

Store == \E w \in Writer : StoreValue(w) /\ UNCHANGED execVars
CleanStep == Clean /\ UNCHANGED execVars

Next ==
    \/ \E x \in Exec : Launch(x) \/ ReadResult(x) \/ Timeout(x)
    \/ \E m \in net :
        \/ ReceiveAsk(m)
        \/ ReceiveProposal(m)
        \/ ReceiveReturn(m)
        \/ ReceiveUnknownReturn(m)
        \/ ReceiveEnd(m)
    \/ \E i \in Run : StoreResult(i) \/ StoreFails(i) \/ SendDone(i)
    \/ NodeRestart
    \/ \E k \in Key \ Exec :
        \/ \E ttl \in 0..MaxTtl : ClientPut(k, ttl)
        \/ DeleteKey(k) /\ UNCHANGED execVars
    \/ Store
    \/ CleanStep
    \/ Tick /\ UNCHANGED execVars

\* The waits end by their timeouts, reads return, and the cleaning thread goes on.
Fairness ==
    /\ \A x \in Exec : WF_vars(Timeout(x)) /\ WF_vars(ReadResult(x))
    /\ WF_vars(CleanStep)

Spec == Init /\ [][Next]_vars /\ Fairness

-----------------------------------------------------------------------------
ExecTypeOK ==
    /\ TTLTypeOK
    /\ req \in [Exec -> [state : ReqState, cid : Challenge \cup {None}]]
    /\ net \subseteq Message
    /\ challenges \subseteq [cid : Challenge, exec : Exec]
    /\ asks \in 0..MaxAsks
    /\ run \in [Run -> Launched \cup {None}]
    /\ dups \in 0..MaxDups
    /\ puts \in 0..MaxPuts
    /\ stops \in 0..MaxStops

Runs(x) == {i \in Run : run[i] # None /\ run[i].exec = x}

\* A command runs only for the one challenge that its requester answered, whatever
\* requests and proposals are duplicated, late or lost.
RunsWereAnswered ==
    \A x \in Exec : \A i \in Runs(x) :
        run[i].cid = req[x].cid /\ req[x].state \notin {"idle", "asked"}

\* A challenge is not used up when it is answered, so a duplicated datagram launches the
\* command again; nothing else does.
RunsOncePerReturn == \A x \in Exec : Cardinality(Runs(x)) <= 1 + dups

\* An execution that is reported as done has run, although the requester takes any
\* message for the end.
DoneHasRun ==
    \A x \in Exec : req[x].state = "done" =>
        \E i \in Runs(x) : run[i].cid = req[x].cid /\ run[i].pc # "command"

\* Each execution that is launched ends, with a result or an error.
ExecutionsEnd ==
    \A x \in Exec : req[x].state = "asked" ~> req[x].state \in {"done", "error"}

-----------------------------------------------------------------------------
(***************************************************************************)
(* Remote execution, seen from what the requester holds, the commands that *)
(* were launched and the results in the store.                             *)
(***************************************************************************)
Promise == INSTANCE RemoteExecution WITH
    state   <- [x \in Exec |-> IF req[x].state \in {"asked", "returned", "told"}
                               THEN "pending" ELSE req[x].state],
    agreed  <- {x \in Exec : req[x].cid # None},
    begun   <- [x \in Exec |-> Cardinality(Runs(x))],
    ended   <- {x \in Exec : \E i \in Runs(x) : run[i].pc # "command"},
    results <- {x \in Exec : dies[x] # None},
    repeats <- dups

\* Challenges, threads and the store with its hours implement RemoteExecution: whatever
\* is lost, late or repeated, and whoever restarts, a command begins after its requester
\* agreed, once and once more per repeated datagram; a result is there after a command
\* ended, and what is reported as done has its result at that moment.
ExecutesAsPromised == Promise!Spec
=============================================================================
