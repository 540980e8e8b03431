----------------------------- MODULE TimeSeries -----------------------------
(***************************************************************************)
(* Time series: src/opsbro/ts.py (TSBackend), for one metric.  A writer    *)
(* adds values, each with its time, to the entry of their minute.  An      *)
(* entry is archived, in the key-value store and in the entry of its hour, *)
(* by the writer when the minute changes, or by the reaper when the entry  *)
(* is old.  The two threads share the objects and take no lock: each works *)
(* on the entry that it read.  What archive_minute makes of the day is     *)
(* kept under a key where it is never looked up, and left out.             *)
(***************************************************************************)
EXTENDS Integers, FiniteSets

CONSTANTS Value,      \* what is measured
          Minute,     \* a minute, in seconds
          Hour,       \* an hour, in minutes
          MaxAge,     \* max_data_age, in seconds
          Start,      \* when the agent starts: 0 stands for no time at all
          MaxTime,    \* bound: the clock stops there
          MaxAdds,    \* bound: values added
          None        \* no value, no entry

ASSUME SeriesAssumption ==
    /\ Value \subseteq Int /\ None \notin Int
    /\ Minute \in Nat \ {0} /\ Hour \in Nat \ {0} /\ MaxAge \in Nat
    /\ Start \in Nat /\ MaxTime \in Nat /\ MaxAdds \in Nat
    /\ Minute * Hour <= Start /\ Start <= MaxTime

VARIABLES now,      \* NOW.now
          entries,  \* the objects made for a minute, in their order
          cur,      \* data['min::...']: the object that is there
          hour,     \* data['hour::...']
          minutes,  \* the minutes in the key-value store
          hours,    \* the hours in the key-value store, by the hour of their key
          pc,       \* what each thread does next,
          held,     \* ... the object that it works on,
          adding,   \* and the value that the writer adds
          adds,     \* values added so far
          added,    \* history: the last value that was added for each second
          raced,    \* history: minutes at which both threads were at work
          again,    \* history: minutes that got a new object after their first
          gone      \* history: hours that were replaced, in the store, by another

vars == <<now, entries, cur, hour, minutes, hours, pc, held, adding, adds, added, raced, again, gone>>
history == <<added, raced, again, gone>>

Second   == (Minute * Hour)..MaxTime
MinuteOf(t) == t \div Minute
HourOf(m)   == m \div Hour
Minutes  == {MinuteOf(t) : t \in Second}
Hours    == {HourOf(m) : m \in Minutes}
Thread   == {"writer", "reaper"}
Id       == 1..MaxAdds

EntryType ==
    [minute : Minutes, ctime : 0..MaxTime, vals : [0..(Minute - 1) -> Value \cup {None}],
     min : Value \cup {None}, max : Value \cup {None}, sum : Int, nb : Nat,
     seen : SUBSET Value]

HourType ==
    [hour : Hours, vals : [0..(Hour - 1) -> (Int \X Nat) \cup {None}],
     min : Value \cup {None}, max : Value \cup {None}, nb : Nat]

ASSUME NoneAssumption ==
    /\ None \notin EntryType
    /\ None \notin HourType
    /\ None \notin [t : Second, v : Value]

\* seen is history: all the values that went in.
EmptyMinute(m) == [minute |-> m, ctime |-> now, vals |-> [s \in 0..(Minute - 1) |-> None],
             min |-> None, max |-> None, sum |-> 0, nb |-> 0, seen |-> {}]

\* Mutant of Avg: only the sum.
SumOnly(e) == <<e.sum>>

\* Averages are kept as sums and numbers.
Avg(e) == <<e.sum, e.nb>>

EmptyHour(h) == [hour |-> h, vals |-> [i \in 0..(Hour - 1) |-> None],
                 min |-> None, max |-> None, nb |-> 0]

Init ==
    /\ now = Start
    /\ entries = [i \in Id |-> None]
    /\ cur = None
    /\ hour = None
    /\ minutes = [m \in Minutes |-> None]
    /\ hours = [h \in Hours |-> None]
    /\ pc = [p \in Thread |-> "idle"]
    /\ held = [p \in Thread |-> None]
    /\ adding = None
    /\ adds = 0
    /\ added = [t \in Second |-> None]
    /\ raced = {}
    /\ again = {}
    /\ gone = {}

Tick ==
    /\ now < MaxTime
    /\ now' = now + 1
    /\ UNCHANGED <<entries, cur, hour, minutes, hours, pc, held, adding, adds, history>>

-----------------------------------------------------------------------------
\* A new object for the minute of t.
Open(t) ==
    LET m == MinuteOf(t)
        i == adds'
    IN  /\ entries' = [entries EXCEPT ![i] = EmptyMinute(m)]
        /\ cur' = i
        /\ held' = [held EXCEPT !["writer"] = i]
        /\ again' = IF \E j \in Id : entries[j] # None /\ entries[j].minute = m
                    THEN again \cup {m} ELSE again

\* Mutant of BeginAdd: a value of an older minute is no reason to archive.
BeginAddNewerOnly(t, v) ==
    /\ pc["writer"] = "idle" /\ adds < MaxAdds
    /\ adds' = adds + 1
    /\ adding' = [t |-> t, v |-> v]
    /\ raced' = IF pc["reaper"] = "idle" THEN raced
                ELSE raced \cup {MinuteOf(t), entries[held["reaper"]].minute}
    /\ \/ /\ cur = None \/ (cur # None /\ MinuteOf(t) < entries[cur].minute)
          /\ Open(t)
          /\ pc' = [pc EXCEPT !["writer"] = "write"]
       \/ /\ cur # None /\ MinuteOf(t) >= entries[cur].minute
          /\ held' = [held EXCEPT !["writer"] = cur]
          /\ pc' = [pc EXCEPT !["writer"] =
                       IF entries[cur].minute = MinuteOf(t) THEN "write" ELSE "minute"]
          /\ UNCHANGED <<entries, cur, again>>
    /\ UNCHANGED <<now, hour, minutes, hours, added, gone>>

\* add_value, up to the switch of minute.
BeginAdd(t, v) ==
    /\ pc["writer"] = "idle" /\ adds < MaxAdds
    /\ adds' = adds + 1
    /\ adding' = [t |-> t, v |-> v]
    /\ raced' = IF pc["reaper"] = "idle" THEN raced
                ELSE raced \cup {MinuteOf(t), entries[held["reaper"]].minute}
    /\ \/ /\ cur = None
          /\ Open(t)
          /\ pc' = [pc EXCEPT !["writer"] = "write"]
       \/ /\ cur # None
          /\ held' = [held EXCEPT !["writer"] = cur]
          /\ pc' = [pc EXCEPT !["writer"] =
                       IF entries[cur].minute = MinuteOf(t) THEN "write" ELSE "minute"]
          /\ UNCHANGED <<entries, cur, again>>
    /\ UNCHANGED <<now, hour, minutes, hours, added, gone>>

\* archive_minute, by either thread: the entry as it is now goes to the store,
StoreMinute(p) ==
    LET e == entries[held[p]] IN
    /\ pc[p] = "minute"
    /\ minutes' = [minutes EXCEPT ![e.minute] = e]
    /\ pc' = [pc EXCEPT ![p] = "hour"]
    /\ UNCHANGED <<now, entries, cur, hour, hours, held, adding, adds, history>>

\* ... and in the entry of its hour; one of another hour goes to the store first, under
\* the key of the new hour (key, and not hkey).
Lower(x, y)  == IF x = None \/ y < x THEN y ELSE x
Higher(x, y) == IF x = None \/ y > x THEN y ELSE x

WithMinute(h, e) ==
    [h EXCEPT !.vals = [@ EXCEPT ![e.minute % Hour] = Avg(e)],
              !.nb = @ + 1,
              !.min = Lower(@, e.min),
              !.max = Higher(@, e.max)]

\* The hour that is stored under the key of h may replace another.
Replaced(h) ==
    {k \in Hours : /\ hour # None /\ hour.hour # h
                   /\ hours[h] # None /\ hours[h].hour = k}

\* Mutant of UpdateHour: the minute is added before the hour is switched.
UpdateHourFirst(p) ==
    LET e == entries[held[p]]
        h == HourOf(e.minute)
        same == hour # None /\ hour.hour = h
        old == WithMinute(IF hour = None THEN EmptyHour(h) ELSE hour, e)
    IN  /\ pc[p] = "hour"
        /\ hour' = IF same \/ hour = None THEN old ELSE EmptyHour(h)
        /\ hours' = IF same \/ hour = None THEN hours ELSE [hours EXCEPT ![h] = old]
        /\ gone' = gone \cup Replaced(h)
        /\ pc' = [pc EXCEPT ![p] = "archived"]
        /\ UNCHANGED <<now, entries, cur, minutes, held, adding, adds, added, raced, again>>

UpdateHour(p) ==
    LET e == entries[held[p]]
        h == HourOf(e.minute)
        same == hour # None /\ hour.hour = h
    IN  /\ pc[p] = "hour"
        /\ hour' = WithMinute(IF same THEN hour ELSE EmptyHour(h), e)
        /\ hours' = IF same \/ hour = None THEN hours ELSE [hours EXCEPT ![h] = hour]
        /\ gone' = gone \cup Replaced(h)
        /\ pc' = [pc EXCEPT ![p] = "archived"]
        /\ UNCHANGED <<now, entries, cur, minutes, held, adding, adds, added, raced, again>>

\* add_value goes on with a new entry,
Switch ==
    /\ pc["writer"] = "archived"
    /\ adds' = adds
    /\ Open(adding.t)
    /\ pc' = [pc EXCEPT !["writer"] = "write"]
    /\ UNCHANGED <<now, hour, minutes, hours, adding, added, raced, gone>>

\* Mutant of NewMin: the wrong way round.
NewMinOfMax(e, v) == IF e.min \in {None, 0} \/ v > e.min THEN v ELSE e.min

\* A minimum or maximum of 0 counts as none (not e_min, not e_max).
NewMin(e, v) == IF e.min \in {None, 0} \/ v < e.min THEN v ELSE e.min
NewMax(e, v) == IF e.max \in {None, 0} \/ v > e.max THEN v ELSE e.max

\* ... and writes in the entry that it holds, whatever became of it meanwhile.
WriteValue ==
    LET e == entries[held["writer"]]
        v == adding.v
    IN  /\ pc["writer"] = "write"
        /\ entries' = [entries EXCEPT ![held["writer"]] =
                         [e EXCEPT !.vals = [@ EXCEPT ![adding.t % Minute] = v],
                                   !.min = NewMin(e, v),
                                   !.max = NewMax(e, v),
                                   !.sum = @ + v,
                                   !.nb = @ + 1,
                                   !.seen = @ \cup {v}]]
        /\ added' = [added EXCEPT ![adding.t] = v]
        /\ pc' = [pc EXCEPT !["writer"] = "idle"]
        /\ held' = [held EXCEPT !["writer"] = None]
        /\ adding' = None
        /\ UNCHANGED <<now, cur, hour, minutes, hours, adds, raced, again, gone>>

-----------------------------------------------------------------------------
\* Mutant of ReaperLook: one value is not worth it.
ReaperLookMany ==
    /\ pc["reaper"] = "idle"
    /\ cur # None
    /\ entries[cur].ctime < now - MaxAge /\ entries[cur].nb > 1
    /\ pc' = [pc EXCEPT !["reaper"] = "minute"]
    /\ held' = [held EXCEPT !["reaper"] = cur]
    /\ raced' = IF pc["writer"] = "idle" THEN raced
                ELSE raced \cup {MinuteOf(adding.t), entries[cur].minute}
    /\ UNCHANGED <<now, entries, cur, hour, minutes, hours, adding, adds, added, again, gone>>

\* do_reaper_thread: an entry with values that was made too long ago is archived,
ReaperLook ==
    /\ pc["reaper"] = "idle"
    /\ cur # None
    /\ entries[cur].ctime < now - MaxAge /\ entries[cur].nb > 0
    /\ pc' = [pc EXCEPT !["reaper"] = "minute"]
    /\ held' = [held EXCEPT !["reaper"] = cur]
    /\ raced' = IF pc["writer"] = "idle" THEN raced
                ELSE raced \cup {MinuteOf(adding.t), entries[cur].minute}
    /\ UNCHANGED <<now, entries, cur, hour, minutes, hours, adding, adds, added, again, gone>>

\* ... and whatever is there by then is deleted.
Drop ==
    /\ pc["reaper"] = "archived"
    /\ cur' = None
    /\ pc' = [pc EXCEPT !["reaper"] = "idle"]
    /\ held' = [held EXCEPT !["reaper"] = None]
    /\ UNCHANGED <<now, entries, hour, minutes, hours, adding, adds, history>>

Archive(p) == StoreMinute(p) \/ UpdateHour(p)

Next ==
    \/ Tick
    \/ \E t \in Second, v \in Value : t <= now /\ BeginAdd(t, v)
    \/ \E p \in Thread : Archive(p)
    \/ Switch
    \/ WriteValue
    \/ ReaperLook
    \/ Drop

Fairness ==
    /\ WF_vars(Tick)
    /\ WF_vars(Archive("writer") \/ Switch \/ WriteValue)
    /\ WF_vars(ReaperLook \/ Archive("reaper") \/ Drop)

Spec == Init /\ [][Next]_vars /\ Fairness

-----------------------------------------------------------------------------
TSTypeOK ==
    /\ now \in Start..MaxTime
    /\ entries \in [Id -> EntryType \cup {None}]
    /\ cur \in Id \cup {None}
    /\ hour \in HourType \cup {None}
    /\ minutes \in [Minutes -> EntryType \cup {None}]
    /\ hours \in [Hours -> HourType \cup {None}]
    /\ pc \in [Thread -> {"idle", "minute", "hour", "archived", "write"}]
    /\ held \in [Thread -> Id \cup {None}]
    /\ adding \in [t : Second, v : Value] \cup {None}
    /\ adds \in 0..MaxAdds
    /\ added \in [Second -> Value \cup {None}]
    /\ raced \subseteq Minutes
    /\ again \subseteq Minutes
    /\ gone \subseteq Hours

Has(e, t) == e # None /\ e.minute = MinuteOf(t) /\ e.vals[t % Minute] = added[t]

\* The last value that was added for a second is in the entry in memory or in the stored
\* minute, whatever minutes come in between, unless the reaper met the writer at that
\* minute, or the minute was opened a second time: what is stored of it is then replaced.
MinutesKeepTheirValues ==
    \A t \in Second :
        added[t] # None /\ MinuteOf(t) \notin raced \cup again =>
            (cur # None /\ Has(entries[cur], t)) \/ Has(minutes[MinuteOf(t)], t)

\* A minute that is stored is in the entry of its hour, with the same average, in memory
\* or stored, under whatever key, unless the hour was replaced by one with the same key.
HoursMatchMinutes ==
    \A m \in Minutes \ (raced \cup again) :
        /\ minutes[m] # None
        /\ HourOf(m) \notin gone
        /\ \A p \in Thread : pc[p] = "hour" => entries[held[p]].minute # m
        => \E h \in {hour} \cup {hours[k] : k \in Hours} :
              /\ h # None
              /\ h.hour = HourOf(m)
              /\ h.vals[m % Hour] = Avg(minutes[m])

\* Without zeros among the values, the minimum and the maximum of a minute are those of
\* all its values; with zeros they are at least values that went in.
MinMaxAreReal ==
    \A e \in {entries[i] : i \in Id} \cup {minutes[m] : m \in Minutes} :
        e # None /\ e.seen # {} =>
            /\ {e.min, e.max} \subseteq e.seen
            /\ 0 \notin e.seen => \A v \in e.seen : e.min <= v /\ v <= e.max

\* The reaper comes: an entry with values that gets old is stored, although no other
\* value switches the minute.
OldMinutesAreStored ==
    \A m \in Minutes :
        (cur # None /\ entries[cur].minute = m /\ entries[cur].nb > 0
            /\ entries[cur].ctime < MaxTime - MaxAge)
          ~> (minutes[m] # None \/ m \in raced)
=============================================================================
