---------------------------- MODULE TTLDatabase ----------------------------
(***************************************************************************)
(* Keys with a time to live: src/opsbro/ttldatabase.py (TTLDatabase), with *)
(* the part of kv.py (KVBackend.put) that fills it.  The keys that die in  *)
(* an hour are listed in the database of this hour; a thread deletes the   *)
(* keys of the past hours, and those databases.  Puts, that come from any  *)
(* thread, take no lock: setting the ttl and storing the value are two     *)
(* steps, between which the cleaning may go on and time may pass.          *)
(*                                                                         *)
(* It has no behaviour of its own: modules that put keys extend it.        *)
(***************************************************************************)
EXTENDS Integers, FiniteSets

CONSTANTS Key,       \* the keys
          Writer,    \* the threads that put
          Hour,      \* an hour, in ticks of the clock
          MaxTtl,    \* no longer time to live
          MaxTime,   \* bound: the clock stops there
          None       \* no value, no put, no hour

ASSUME TimeAssumption ==
    Hour \in Nat \ {0} /\ MaxTtl \in Nat /\ MaxTime \in Nat

VARIABLES now,       \* NOW.now
          hours,     \* the hour databases: the keys of each
          dies,      \* when the value of a key dies; Forever without ttl, None if absent
          writes,    \* the put of each thread that has set its ttl, and not yet its value
          cleaning,  \* where clean_old is: hours left, hour at work, keys left of it
          raced,     \* history: keys whose put was going on while its hour was cleaned
          again      \* history: keys put again before their value and entry were gone

ttlVars == <<now, hours, dies, writes, cleaning, raced, again>>

Forever == -1
HourOf(t) == t \div Hour
Hours == {HourOf(t) : t \in 0..(MaxTime + MaxTtl)}

ASSUME TtlNoneAssumption ==
    /\ None \notin Int
    /\ None \notin [key : Key, dies : {Forever} \cup 0..(MaxTime + MaxTtl)]

Write == [key : Key, dies : {Forever} \cup 0..(MaxTime + MaxTtl)]

Resting == [todo |-> {}, hour |-> None, keys |-> {}]

TTLInit ==
    /\ now = 0
    /\ hours = [h \in Hours |-> {}]
    /\ dies = [k \in Key |-> None]
    /\ writes = [w \in Writer |-> None]
    /\ cleaning = Resting
    /\ raced = {}
    /\ again = {}

Tick ==
    /\ now < MaxTime
    /\ now' = now + 1
    /\ UNCHANGED <<hours, dies, writes, cleaning, raced, again>>

-----------------------------------------------------------------------------
\* put, up to set_ttl, that rounds down to the hour; a ttl of 0 is none.
SetTtl(w, k, ttl) ==
    LET t == IF ttl = 0 THEN Forever ELSE now + ttl IN
    /\ writes[w] = None
    /\ writes' = [writes EXCEPT ![w] = [key |-> k, dies |-> t]]
    /\ hours' = IF ttl = 0 THEN hours ELSE [hours EXCEPT ![HourOf(t)] = @ \cup {k}]
    /\ raced' = IF cleaning.hour # None /\ ttl # 0 /\ cleaning.hour = HourOf(t)
                THEN raced \cup {k} ELSE raced
    /\ again' = IF \/ dies[k] # None
                   \/ \E h \in Hours : k \in hours[h]
                   \/ k \in cleaning.keys
                   \/ \E u \in Writer : writes[u] # None /\ writes[u].key = k
                THEN again \cup {k} ELSE again
    /\ UNCHANGED <<now, dies, cleaning>>

\* put, the end: "and in the end save the real data".
StoreValue(w) ==
    /\ writes[w] # None
    /\ dies' = [dies EXCEPT ![writes[w].key] = writes[w].dies]
    /\ writes' = [writes EXCEPT ![w] = None]
    /\ UNCHANGED <<now, hours, cleaning, raced, again>>

\* delete, for a client: the entry of the hour stays.
DeleteKey(k) ==
    /\ dies[k] # None
    /\ dies' = [dies EXCEPT ![k] = None]
    /\ UNCHANGED <<now, hours, writes, cleaning, raced, again>>

-----------------------------------------------------------------------------
\* Mutant of CleanLimit: two hours are added.
CleanLimitLate(t) == HourOf(t + Hour + Hour)

\* clean_old deletes the hours before this one: an hour is added first, and then the
\* time is rounded down.
CleanLimit(t) == HourOf(t + Hour)

\* clean_old lists the hour databases that are there.
CleanStart ==
    LET todo == {h \in Hours : hours[h] # {} /\ h < CleanLimit(now)} IN
    /\ cleaning = Resting
    /\ todo # {}
    /\ cleaning' = [Resting EXCEPT !.todo = todo]
    /\ UNCHANGED <<now, hours, dies, writes, raced, again>>

\* ... reads the keys of one, and tells which puts it may miss.
CleanHour(h) ==
    /\ cleaning.hour = None
    /\ h \in cleaning.todo
    /\ cleaning' = [todo |-> cleaning.todo \ {h}, hour |-> h, keys |-> hours[h]]
    /\ raced' = raced \cup {k \in Key : \E w \in Writer :
                              /\ writes[w] # None
                              /\ writes[w].key = k
                              /\ writes[w].dies # Forever
                              /\ HourOf(writes[w].dies) = h}
    /\ UNCHANGED <<now, hours, dies, writes, again>>

\* Mutant of CleanKey: the value is only marked, as dead for an hour.
CleanKeyMarked(k) ==
    /\ k \in cleaning.keys
    /\ cleaning' = [cleaning EXCEPT !.keys = @ \ {k}]
    /\ dies' = [dies EXCEPT ![k] = now - Hour]
    /\ UNCHANGED <<now, hours, writes, raced, again>>

\* ... deletes each, whatever its value became meanwhile,
CleanKey(k) ==
    /\ k \in cleaning.keys
    /\ cleaning' = [cleaning EXCEPT !.keys = @ \ {k}]
    /\ dies' = [dies EXCEPT ![k] = None]
    /\ UNCHANGED <<now, hours, writes, raced, again>>

\* Mutant of DropHour: what is older than the hour goes with it.
DropHourAndOlder ==
    /\ cleaning.hour # None
    /\ cleaning.keys = {}
    /\ hours' = [h \in Hours |-> IF h <= cleaning.hour THEN {} ELSE hours[h]]
    /\ cleaning' = [cleaning EXCEPT !.hour = None]
    /\ UNCHANGED <<now, dies, writes, raced, again>>

\* ... and removes the database.
DropHour ==
    /\ cleaning.hour # None
    /\ cleaning.keys = {}
    /\ hours' = [hours EXCEPT ![cleaning.hour] = {}]
    /\ cleaning' = [cleaning EXCEPT !.hour = None]
    /\ UNCHANGED <<now, dies, writes, raced, again>>

Clean ==
    \/ CleanStart
    \/ \E h \in cleaning.todo : CleanHour(h)
    \/ \E k \in cleaning.keys : CleanKey(k)
    \/ DropHour

-----------------------------------------------------------------------------
TTLTypeOK ==
    /\ now \in 0..MaxTime
    /\ hours \in [Hours -> SUBSET Key]
    /\ dies \in [Key -> {None, Forever} \cup 0..(MaxTime + MaxTtl)]
    /\ writes \in [Writer -> Write \cup {None}]
    /\ cleaning \in [todo : SUBSET Hours, hour : Hours \cup {None}, keys : SUBSET Key]
    /\ raced \subseteq Key
    /\ again \subseteq Key

\* A key that dies is listed in its hour for as long as its value is there: the value of
\* a key that is listed nowhere would stay for ever.  The puts that go on while their own
\* hour is cleaned are left out: they may lose their entry (kv.py:140, ttldatabase.py:112).
DyingKeysAreListed ==
    \A k \in Key \ raced :
        dies[k] \notin {None, Forever} => k \in hours[HourOf(dies[k])]

\* The cleaning deletes the value of a key in the hour of its death or later: less than
\* an hour before it dies.  A key that was put again before its value and entries were
\* gone is left out: an older entry deletes the newer value, and a newer entry, that is
\* there first, the older value.
DeletedInItsHour ==
    [][\A k \in cleaning.keys \ cleaning'.keys :
          dies[k] # None /\ k \notin again =>
             dies[k] # Forever /\ HourOf(dies[k]) <= HourOf(now)]_ttlVars

\* The cleaning thread goes on: a value that died is deleted, or replaced.
DeadValuesGo ==
    \A k \in Key :
        (dies[k] \notin {None, Forever} /\ dies[k] <= now)
            ~> (dies[k] = None \/ dies[k] = Forever \/ dies[k] > now \/ k \in raced)
=============================================================================
