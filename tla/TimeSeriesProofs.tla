-------------------------- MODULE TimeSeriesProofs --------------------------
(***************************************************************************)
(* Theorems about TimeSeries.  Outside again a minute has one object, and  *)
(* outside raced only one thread works on it: so what is stored of it is   *)
(* that object, as it was last written, once it is no longer the one in    *)
(* memory (Kept).                                                          *)
(***************************************************************************)
EXTENDS TimeSeries, TLAPS

Busy(p) == pc[p] # "idle"

Threads ==
    /\ cur # None => entries[cur] # None
    /\ \A p \in Thread : held[p] # None <=> Busy(p)
    /\ \A p \in Thread : held[p] # None => entries[held[p]] # None
    /\ adding # None <=> Busy("writer")
    /\ pc["reaper"] # "write"
    /\ Busy("writer") => adds \in Id
    /\ \A i \in Id : i > adds => entries[i] = None
    /\ pc["writer"] \in {"minute", "hour", "archived"} => entries[adds] = None
    /\ pc["writer"] = "write" => entries[held["writer"]].minute = MinuteOf(adding.t)

OneObject ==
    \A i, j \in Id :
        entries[i] # None /\ entries[j] # None /\ entries[i].minute = entries[j].minute
            => i = j \/ entries[i].minute \in again

RacedInv ==
    /\ Busy("writer") /\ Busy("reaper") =>
          MinuteOf(adding.t) \in raced /\ entries[held["reaper"]].minute \in raced
    /\ Busy("reaper") /\ cur # None =>
          cur = held["reaper"] \/ entries[cur].minute \in raced
    /\ Busy("writer") =>
          cur = held["writer"] \/ (cur = None /\ entries[held["writer"]].minute \in raced)

\* What was added is in the object of its minute,
ValuesAreIn ==
    /\ \A t \in Second : added[t] # None =>
          \E i \in Id : entries[i] # None /\ entries[i].minute = MinuteOf(t)
    /\ \A i \in Id, t \in Second :
          entries[i] # None /\ entries[i].minute = MinuteOf(t) /\ MinuteOf(t) \notin again
             => entries[i].vals[t % Minute] = added[t]

\* ... which is in memory or stored,
Kept ==
    \A i \in Id :
        entries[i] # None /\ entries[i].minute \notin raced \cup again
            => i = cur \/ minutes[entries[i].minute] = entries[i]

\* ... and stored already when its thread goes on.
Archived ==
    \A p \in Thread :
        pc[p] \in {"hour", "archived"} /\ entries[held[p]].minute \notin raced \cup again
            => minutes[entries[held[p]].minute] = entries[held[p]]

MinMaxOf(e) ==
    /\ e.seen = {} => e.min = None /\ e.max = None
    /\ e.seen # {} => {e.min, e.max} \subseteq e.seen
    /\ 0 \notin e.seen => \A v \in e.seen : e.min <= v /\ v <= e.max

MinMaxInv ==
    /\ \A i \in Id : entries[i] # None => MinMaxOf(entries[i])
    /\ \A m \in Minutes : minutes[m] # None => MinMaxOf(minutes[m])

\* An entry that is archived, or that is left in memory, has been written.
Written ==
    /\ \A i \in Id : entries[i] # None /\ entries[i].nb > 0 => entries[i].seen # {}
    /\ \A p \in Thread : pc[p] \in {"minute", "hour", "archived"} => entries[held[p]].nb > 0
    /\ cur # None => entries[cur].nb > 0 \/ (pc["writer"] = "write" /\ held["writer"] = cur)

TSInv ==
    /\ TSTypeOK /\ Threads /\ OneObject /\ RacedInv /\ ValuesAreIn /\ Kept /\ Archived
    /\ MinMaxInv /\ Written /\ HoursMatchMinutes

-----------------------------------------------------------------------------
LEMMA SecondFacts ==
    /\ Second \subseteq Nat
    /\ \A t \in Second : /\ MinuteOf(t) \in Minutes
                         /\ t % Minute \in 0..(Minute - 1)
                         /\ \A u \in Second : MinuteOf(t) = MinuteOf(u) /\ t # u
                               => t % Minute # u % Minute
<1>1. Minute \in Nat /\ Minute > 0 /\ Hour \in Nat /\ Hour > 0 /\ MaxTime \in Nat
  BY SeriesAssumption
<1>2. Minute * Hour \in Nat
  BY <1>1
<1>3. Second \subseteq Nat
  BY <1>1, <1>2 DEF Second
<1>4. ASSUME NEW t \in Nat, NEW u \in Nat, t \div Minute = u \div Minute, t % Minute = u % Minute
      PROVE  t = u
  BY <1>1, <1>4
<1>5. \A t \in Nat : t % Minute \in 0..(Minute - 1)
  BY <1>1
<1> QED
  BY <1>3, <1>4, <1>5 DEF Minutes, MinuteOf

LEMMA MinuteFacts ==
    /\ Minutes \subseteq Nat
    /\ \A m \in Minutes : /\ HourOf(m) \in Hours
                          /\ m % Hour \in 0..(Hour - 1)
                          /\ \A n \in Minutes : HourOf(m) = HourOf(n) /\ m # n
                                => m % Hour # n % Hour
<1>1. Minute \in Nat /\ Minute > 0 /\ Hour \in Nat /\ Hour > 0
  BY SeriesAssumption
<1>2. \A t \in Nat : t \div Minute \in Nat
  BY <1>1
<1>3. Minutes \subseteq Nat
  BY <1>2, SecondFacts DEF Minutes, MinuteOf
<1>4. ASSUME NEW t \in Nat, NEW u \in Nat, t \div Hour = u \div Hour, t % Hour = u % Hour
      PROVE  t = u
  BY <1>1, <1>4
<1>5. \A t \in Nat : t % Hour \in 0..(Hour - 1)
  BY <1>1
<1> QED
  BY <1>3, <1>4, <1>5 DEF Hours, HourOf

LEMMA EmptyFacts ==
    ASSUME NEW m \in Minutes, now \in Start..MaxTime
    PROVE  /\ EmptyMinute(m) \in EntryType
           /\ EmptyMinute(m).minute = m
           /\ EmptyMinute(m).seen = {} /\ EmptyMinute(m).min = None /\ EmptyMinute(m).max = None
           /\ \A s \in 0..(Minute - 1) : EmptyMinute(m).vals[s] = None
<1>1. now \in 0..MaxTime
  BY SeriesAssumption
<1> QED
  BY <1>1 DEF EmptyMinute, EntryType

LEMMA InitTS == Init => TSInv
<1> SUFFICES ASSUME Init PROVE TSInv
  OBVIOUS
<1>1. TSTypeOK
  BY SeriesAssumption DEF Init, TSTypeOK
<1>2. Threads /\ OneObject /\ RacedInv
  BY DEF Init, Threads, OneObject, RacedInv, Busy, Thread
<1>3. ValuesAreIn /\ Kept /\ Archived
  BY DEF Init, ValuesAreIn, Kept, Archived
<1>4. MinMaxInv /\ Written /\ HoursMatchMinutes
  BY DEF Init, MinMaxInv, Written, HoursMatchMinutes
<1> QED
  BY <1>1, <1>2, <1>3, <1>4 DEF TSInv

-----------------------------------------------------------------------------
\* Steps that touch no object and store nothing.
LEMMA QuietStep ==
    ASSUME TSInv, UNCHANGED <<entries, hour, minutes, hours, added, again, gone>>,
           TSTypeOK', Threads', RacedInv', Written',
           raced \subseteq raced',
           \A i \in Id : i = cur => i = cur' \/ (entries[i] # None =>
               \/ entries[i].minute \in raced'  \cup again
               \/ minutes[entries[i].minute] = entries[i]),
           \A p \in Thread : pc'[p] \in {"hour", "archived"} =>
               pc'[p] = pc[p] /\ held'[p] = held[p],
           \A p \in Thread : pc[p] = "hour" => pc'[p] = "hour" /\ held'[p] = held[p]
    PROVE  TSInv'
<1>1. OneObject' /\ MinMaxInv'
  BY DEF TSInv, OneObject, MinMaxInv, MinMaxOf
<1>2. ValuesAreIn'
  BY DEF TSInv, ValuesAreIn
<1>3. Kept'
  BY DEF TSInv, Kept
<1>4. Archived'
  BY DEF TSInv, Archived
<1>5. HoursMatchMinutes'
  <2> SUFFICES ASSUME NEW m \in Minutes \ (raced' \cup again),
                      minutes[m] # None, HourOf(m) \notin gone,
                      \A p \in Thread : pc'[p] = "hour" => entries[held'[p]].minute # m
               PROVE  \E h \in {hour} \cup {hours[k] : k \in Hours} :
                         /\ h # None
                         /\ h.hour = HourOf(m)
                         /\ h.vals[m % Hour] = Avg(minutes[m])
    BY DEF HoursMatchMinutes
  <2>1. \A p \in Thread : pc[p] = "hour" => entries[held[p]].minute # m
    OBVIOUS
  <2> QED
    BY <2>1 DEF TSInv, HoursMatchMinutes
<1> QED
  BY <1>1, <1>2, <1>3, <1>4, <1>5 DEF TSInv

LEMMA TickStep ==
    ASSUME TSInv, Tick
    PROVE  TSInv'
<1>1. TSTypeOK'
  BY SeriesAssumption DEF TSInv, TSTypeOK, Tick, history
<1>2. Threads' /\ RacedInv' /\ Written'
  BY DEF TSInv, Threads, RacedInv, Written, Busy, Tick, history
<1> QED
  BY <1>1, <1>2, QuietStep DEF Tick, history, TSInv

LEMMA ReaperLookStep ==
    ASSUME TSInv, ReaperLook
    PROVE  TSInv'
<1>1. cur \in Id /\ entries[cur] # None /\ entries[cur] \in EntryType
  BY DEF ReaperLook, TSInv, Threads, TSTypeOK
<1>2. Busy("writer") => MinuteOf(adding.t) \in Minutes
  BY SecondFacts DEF TSInv, Threads, TSTypeOK
<1>3. raced' \subseteq Minutes
  BY <1>1, <1>2 DEF ReaperLook, TSInv, TSTypeOK, EntryType, Busy
<1>4. TSTypeOK'
  BY <1>1, <1>3 DEF ReaperLook, TSInv, TSTypeOK
<1>5. /\ pc'["reaper"] = "minute" /\ pc'["writer"] = pc["writer"]
      /\ held'["reaper"] = cur /\ held'["writer"] = held["writer"]
  BY DEF ReaperLook, TSInv, TSTypeOK, Thread
<1>6. UNCHANGED <<now, entries, cur, hour, minutes, hours, adding, adds, added, again, gone>>
  BY DEF ReaperLook
<1>7. cur # None
  BY DEF ReaperLook
<1>8. Threads'
  BY <1>1, <1>5, <1>6, <1>7 DEF TSInv, Threads, Busy, Thread
<1>9. raced \subseteq raced' /\ (Busy("writer") =>
         MinuteOf(adding.t) \in raced' /\ entries[cur].minute \in raced')
  BY DEF ReaperLook, Busy
<1>10. RacedInv'
  BY <1>5, <1>6, <1>9 DEF TSInv, RacedInv, Busy
<1>11. Written'
  BY <1>5, <1>6, <1>7 DEF ReaperLook, TSInv, Written, Thread
<1> QED
  BY <1>4, <1>5, <1>6, <1>8, <1>9, <1>10, <1>11, QuietStep DEF ReaperLook, Thread

LEMMA DropStep ==
    ASSUME TSInv, Drop
    PROVE  TSInv'
<1>1. TSTypeOK'
  BY DEF Drop, TSInv, TSTypeOK, history
<1>2. /\ pc["reaper"] = "archived"
      /\ pc'["reaper"] = "idle" /\ pc'["writer"] = pc["writer"]
      /\ held'["reaper"] = None /\ held'["writer"] = held["writer"]
      /\ cur' = None
  BY DEF Drop, TSInv, TSTypeOK, Thread
<1>3. UNCHANGED <<now, entries, hour, minutes, hours, adding, adds, history>>
  BY DEF Drop
<1>4. Threads'
  BY <1>2, <1>3 DEF TSInv, Threads, Busy, Thread
<1>5. RacedInv'
  BY <1>2, <1>3 DEF TSInv, RacedInv, Busy, history
<1>6. \A i \in Id : i = cur /\ entries[i] # None =>
         \/ entries[i].minute \in raced \cup again
         \/ minutes[entries[i].minute] = entries[i]
  <2> SUFFICES ASSUME cur \in Id, entries[cur].minute \notin raced \cup again
               PROVE  minutes[entries[cur].minute] = entries[cur]
    OBVIOUS
  <2>1. cur # None /\ Busy("reaper")
    BY <1>2, SeriesAssumption DEF Id, Busy
  <2>2. cur = held["reaper"]
    BY <2>1 DEF TSInv, RacedInv
  <2> QED
    BY <1>2, <2>2 DEF TSInv, Archived, Thread
<1>7. Written'
  BY <1>2, <1>3 DEF TSInv, Written, Thread
<1> QED
  BY <1>1, <1>2, <1>3, <1>4, <1>5, <1>6, <1>7, QuietStep DEF history, Thread

-----------------------------------------------------------------------------
\* archive_minute.  The object that is stored is the only one of its minute, outside again.
LEMMA StoreMinuteStep ==
    ASSUME TSInv, NEW p \in Thread, StoreMinute(p)
    PROVE  TSInv'
<1> DEFINE e == entries[held[p]]
<1>1. pc[p] = "minute" /\ held[p] \in Id /\ e # None /\ e \in EntryType /\ e.minute \in Minutes
  BY DEF StoreMinute, TSInv, Threads, TSTypeOK, Busy, EntryType
<1>2. /\ minutes' = [minutes EXCEPT ![e.minute] = e]
      /\ pc' = [pc EXCEPT ![p] = "hour"]
      /\ UNCHANGED <<now, entries, cur, hour, hours, held, adding, adds, history>>
  BY DEF StoreMinute
<1>3. MinMaxOf(e)
  BY <1>1 DEF TSInv, MinMaxInv
<1>4. \A i \in Id : entries[i] # None /\ entries[i].minute = e.minute =>
          i = held[p] \/ e.minute \in again
  BY <1>1 DEF TSInv, OneObject
<1>5. e = entries[held[p]]
  OBVIOUS
<1> HIDE DEF e
<1>6. TSTypeOK'
  BY <1>1, <1>2 DEF TSInv, TSTypeOK, history
<1>7. pc'[p] = "hour" /\ \A q \in Thread : q # p => pc'[q] = pc[q]
  BY <1>2 DEF TSInv, TSTypeOK
<1>8. Threads'
  BY <1>1, <1>2, <1>7 DEF TSInv, Threads, Busy, history, Thread
<1>9. RacedInv'
  BY <1>1, <1>2, <1>7 DEF TSInv, RacedInv, Busy, history, Thread
<1>10. OneObject' /\ ValuesAreIn'
  BY <1>2 DEF TSInv, OneObject, ValuesAreIn, history
<1>11. /\ minutes'[e.minute] = e
       /\ \A m \in Minutes : m # e.minute => minutes'[m] = minutes[m]
  BY <1>1, <1>2 DEF TSInv, TSTypeOK
<1>12. \A i \in Id : entries[i] # None => entries[i].minute \in Minutes
  BY DEF TSInv, TSTypeOK, EntryType
<1>13. Kept'
  BY <1>2, <1>4, <1>5, <1>11, <1>12 DEF TSInv, Kept, history
<1>14. Archived'
  <2> SUFFICES ASSUME NEW q \in Thread, pc'[q] \in {"hour", "archived"},
                      entries[held[q]].minute \notin raced \cup again
               PROVE  minutes'[entries[held[q]].minute] = entries[held[q]]
    BY <1>2 DEF Archived, history
  <2>1. held[q] \in Id /\ entries[held[q]] # None
    BY <1>1, <1>7 DEF TSInv, Threads, TSTypeOK, Busy
  <2>2. CASE entries[held[q]].minute = e.minute
    BY <2>1, <2>2, <1>4, <1>5, <1>11
  <2>3. CASE entries[held[q]].minute # e.minute
    BY <2>1, <2>3, <1>5, <1>7, <1>11, <1>12 DEF TSInv, Archived
  <2> QED
    BY <2>2, <2>3
<1>15. MinMaxInv'
  BY <1>2, <1>3, <1>11 DEF TSInv, MinMaxInv, MinMaxOf
<1>16. HoursMatchMinutes'
  <2> SUFFICES ASSUME NEW m \in Minutes \ (raced \cup again),
                      minutes'[m] # None, HourOf(m) \notin gone,
                      \A q \in Thread : pc'[q] = "hour" => entries[held[q]].minute # m
               PROVE  \E h \in {hour} \cup {hours[k] : k \in Hours} :
                         /\ h # None
                         /\ h.hour = HourOf(m)
                         /\ h.vals[m % Hour] = Avg(minutes'[m])
    <3>1. UNCHANGED <<entries, hour, hours, held, raced, again, gone>>
      BY <1>2 DEF history
    <3> QED
      BY <3>1 DEF HoursMatchMinutes
  <2>1. m # e.minute
    BY <1>5, <1>7
  <2>2. minutes'[m] = minutes[m]
    BY <2>1, <1>11
  <2>3. \A q \in Thread : pc[q] = "hour" => entries[held[q]].minute # m
    BY <1>1, <1>7
  <2> QED
    BY <2>2, <2>3 DEF TSInv, HoursMatchMinutes
<1>17. Written'
  BY <1>1, <1>2, <1>5, <1>7 DEF TSInv, Written, history, Thread
<1> QED
  BY <1>6, <1>8, <1>9, <1>10, <1>13, <1>14, <1>15, <1>16, <1>17 DEF TSInv

LEMMA WithMinuteFacts ==
    ASSUME NEW h \in HourType, NEW e \in EntryType, e.min # None, e.max # None
    PROVE  /\ WithMinute(h, e) \in HourType
           /\ WithMinute(h, e).hour = h.hour
           /\ WithMinute(h, e).vals[e.minute % Hour] = Avg(e)
           /\ \A i \in 0..(Hour - 1) : i # e.minute % Hour =>
                 WithMinute(h, e).vals[i] = h.vals[i]
<1>1. e.minute % Hour \in 0..(Hour - 1)
  BY MinuteFacts DEF EntryType
<1>2. Avg(e) \in (Int \X Nat)
  BY DEF Avg, EntryType
<1>3. Lower(h.min, e.min) \in Value \cup {None} /\ Higher(h.max, e.max) \in Value \cup {None}
  BY DEF Lower, Higher, EntryType, HourType
<1>4. PICK vals : vals = [h.vals EXCEPT ![e.minute % Hour] = Avg(e)]
  OBVIOUS
<1>5. /\ vals \in [0..(Hour - 1) -> (Int \X Nat) \cup {None}]
      /\ vals[e.minute % Hour] = Avg(e)
      /\ \A i \in 0..(Hour - 1) : i # e.minute % Hour => vals[i] = h.vals[i]
  BY <1>1, <1>2, <1>4 DEF HourType
<1>6. PICK lo, hi : lo = Lower(h.min, e.min) /\ hi = Higher(h.max, e.max)
  OBVIOUS
<1>7. WithMinute(h, e) = [h EXCEPT !.vals = vals, !.nb = @ + 1, !.min = lo, !.max = hi]
  BY <1>4, <1>6 DEF WithMinute
<1>8. /\ WithMinute(h, e).vals = vals /\ WithMinute(h, e).hour = h.hour
      /\ WithMinute(h, e) = [hour |-> h.hour, vals |-> vals, min |-> lo, max |-> hi,
                             nb |-> h.nb + 1]
  BY <1>7 DEF HourType
<1>9. h.hour \in Hours /\ h.nb + 1 \in Nat
  BY DEF HourType
<1>10. WithMinute(h, e) \in HourType
  <2>1. lo \in Value \cup {None} /\ hi \in Value \cup {None}
    BY <1>3, <1>6
  <2> QED
    BY <2>1, <1>5, <1>8, <1>9 DEF HourType
<1> QED
  BY <1>5, <1>8, <1>10

LEMMA UpdateHourStep ==
    ASSUME TSInv, NEW p \in Thread, UpdateHour(p)
    PROVE  TSInv'
<1> DEFINE e == entries[held[p]]
           h == HourOf(e.minute)
           same == hour # None /\ hour.hour = h
           base == IF same THEN hour ELSE EmptyHour(h)
<1>1. pc[p] = "hour" /\ held[p] \in Id /\ e # None /\ e \in EntryType /\ e.minute \in Minutes
  BY DEF UpdateHour, TSInv, Threads, TSTypeOK, Busy, EntryType
<1>2. h \in Hours
  BY <1>1, MinuteFacts
<1>3. EmptyHour(h) \in HourType /\ EmptyHour(h).hour = h
  BY <1>2 DEF EmptyHour, HourType
<1>4. base \in HourType /\ base.hour = h
  BY <1>3 DEF TSInv, TSTypeOK
<1>5. /\ hour' = WithMinute(base, e)
      /\ hours' = IF same \/ hour = None THEN hours ELSE [hours EXCEPT ![h] = hour]
      /\ gone' = gone \cup Replaced(h)
      /\ pc' = [pc EXCEPT ![p] = "archived"]
      /\ UNCHANGED <<now, entries, cur, minutes, held, adding, adds, added, raced, again>>
  BY DEF UpdateHour
<1>6. e = entries[held[p]] /\ h = HourOf(e.minute)
  OBVIOUS
<1>7. same => base = hour
  OBVIOUS
<1>8. same <=> hour # None /\ hour.hour = h
  OBVIOUS
<1> HIDE DEF e, h, same, base
<1>9. PICK n : n = WithMinute(base, e)
  OBVIOUS
<1>10. pc'[p] = "archived" /\ \A q \in Thread : q # p => pc'[q] = pc[q]
  BY <1>5 DEF TSInv, TSTypeOK
<1>11. Threads'
  BY <1>1, <1>5, <1>10 DEF TSInv, Threads, Busy, Thread
<1>12. RacedInv'
  BY <1>1, <1>5, <1>10 DEF TSInv, RacedInv, Busy, Thread
<1>13. OneObject' /\ ValuesAreIn' /\ Kept'
  BY <1>5 DEF TSInv, OneObject, ValuesAreIn, Kept
<1>14. Archived'
  BY <1>1, <1>5, <1>10 DEF TSInv, Archived
<1>15. MinMaxInv' /\ Written'
  <2>1. MinMaxInv'
    BY <1>5 DEF TSInv, MinMaxInv, MinMaxOf
  <2>2. pc'["writer"] = "write" <=> pc["writer"] = "write"
    BY <1>1, <1>10 DEF Thread
  <2>3. \A q \in Thread : pc'[q] \in {"minute", "hour", "archived"}
                              => pc[q] \in {"minute", "hour", "archived"}
    BY <1>1, <1>10
  <2>4. Written'
    BY <1>5, <2>2, <2>3 DEF TSInv, Written
  <2> QED
    BY <2>1, <2>4
<1>16. e.min # None /\ e.max # None
  <2>1. e.seen # {} /\ e.seen \subseteq Value
    BY <1>1, <1>6 DEF TSInv, Written, EntryType
  <2>2. e.min \in e.seen /\ e.max \in e.seen
    BY <2>1, <1>1, <1>6 DEF TSInv, MinMaxInv, MinMaxOf
  <2> QED
    BY <2>1, <2>2, SeriesAssumption
<1>17. /\ n \in HourType /\ n.hour = h /\ n.vals[e.minute % Hour] = Avg(e)
       /\ \A i \in 0..(Hour - 1) : i # e.minute % Hour => n.vals[i] = base.vals[i]
  BY <1>1, <1>4, <1>9, <1>16, WithMinuteFacts
<1>18. hour' = n /\ n # None
  BY <1>5, <1>9, <1>17, NoneAssumption
<1>19. hours' \in [Hours -> HourType \cup {None}]
  BY <1>2, <1>5 DEF TSInv, TSTypeOK
<1>20. gone' \subseteq Hours /\ pc' \in [Thread -> {"idle", "minute", "hour", "archived", "write"}]
  BY <1>5 DEF TSInv, TSTypeOK, Replaced
<1>21. TSTypeOK'
  BY <1>5, <1>17, <1>18, <1>19, <1>20 DEF TSInv, TSTypeOK
<1>22. \A k \in Hours : k # h \/ same => hours'[k] = hours[k]
  BY <1>2, <1>5 DEF TSInv, TSTypeOK
<1>23. hour # None /\ ~same => hours'[h] = hour
  BY <1>2, <1>5 DEF TSInv, TSTypeOK
<1>24. hour = None => hours' = hours
  BY <1>5
<1>25. HoursMatchMinutes'
  <2> SUFFICES ASSUME NEW m \in Minutes \ (raced \cup again),
                      minutes[m] # None, HourOf(m) \notin gone',
                      \A q \in Thread : pc'[q] = "hour" => entries[held[q]].minute # m
               PROVE  \E x \in {hour'} \cup {hours'[k] : k \in Hours} :
                         /\ x # None
                         /\ x.hour = HourOf(m)
                         /\ x.vals[m % Hour] = Avg(minutes[m])
    <3>1. UNCHANGED <<entries, minutes, held, raced, again>>
      BY <1>5
    <3> QED
      BY <3>1 DEF HoursMatchMinutes
  <2>1. CASE m = e.minute
    <3>1. minutes[m] = e
      BY <1>1, <1>6, <2>1 DEF TSInv, Archived
    <3> QED
      BY <3>1, <2>1, <1>6, <1>17, <1>18
  <2>2. CASE m # e.minute
    <3>1. \A q \in Thread : pc[q] = "hour" => entries[held[q]].minute # m
      BY <2>2, <1>6, <1>10
    <3>2. HourOf(m) \notin gone
      BY <1>5
    <3>3. PICK x \in {hour} \cup {hours[k] : k \in Hours} :
             /\ x # None /\ x.hour = HourOf(m) /\ x.vals[m % Hour] = Avg(minutes[m])
      BY <3>1, <3>2 DEF TSInv, HoursMatchMinutes
    <3>4. CASE x = hour /\ same
      <4>1. m % Hour \in 0..(Hour - 1) /\ m % Hour # e.minute % Hour
        BY <1>1, <1>6, <1>8, <2>2, <3>3, <3>4, MinuteFacts
      <4>2. n.vals[m % Hour] = x.vals[m % Hour]
        BY <4>1, <1>7, <1>17, <3>4
      <4> QED
        BY <4>2, <3>3, <3>4, <1>8, <1>17, <1>18
    <3>5. CASE x = hour /\ ~same
      BY <3>3, <3>5, <1>2, <1>23
    <3>6. CASE \E k \in Hours : x = hours[k]
      <4>1. PICK k \in Hours : x = hours[k]
        BY <3>6
      <4>2. CASE hours'[k] = hours[k]
        BY <4>1, <4>2, <3>3
      <4>3. CASE hours'[k] # hours[k]
        <5>1. k = h /\ hour # None /\ ~same
          BY <4>3, <1>22, <1>24
        <5>2. HourOf(m) \in Replaced(h)
          BY <5>1, <4>1, <3>3, <1>2, <1>8, MinuteFacts DEF Replaced
        <5> QED
          BY <5>2, <1>5
      <4> QED
        BY <4>2, <4>3
    <3> QED
      BY <3>3, <3>4, <3>5, <3>6
  <2> QED
    BY <2>1, <2>2
<1> QED
  BY <1>11, <1>12, <1>13, <1>14, <1>15, <1>21, <1>25 DEF TSInv

-----------------------------------------------------------------------------
\* A new object for the minute of t: by the first value, or after an archive.
LEMMA OpenStep ==
    ASSUME TSInv, NEW t \in Second, NEW v \in Value, Open(t),
           adds' \in Id, \A j \in Id : j >= adds' => entries[j] = None,
           UNCHANGED <<now, hour, minutes, hours, added, gone>>,
           pc' = [pc EXCEPT !["writer"] = "write"], pc["writer"] # "hour",
           adding' = [t |-> t, v |-> v],
           raced \subseteq raced', raced' \subseteq Minutes,
           Busy("reaper") => /\ MinuteOf(t) \in raced'
                             /\ entries[held["reaper"]].minute \in raced',
           cur # None => \/ entries[cur].minute \in raced' \cup again
                         \/ minutes[entries[cur].minute] = entries[cur]
    PROVE  TSInv'
<1> DEFINE m == MinuteOf(t)
           i == adds'
           new == EmptyMinute(m)
<1>1. m \in Minutes
  BY SecondFacts
<1>2. /\ new \in EntryType /\ new.minute = m /\ new.nb = 0
      /\ new.seen = {} /\ new.min = None /\ new.max = None
      /\ \A s \in 0..(Minute - 1) : new.vals[s] = None
  BY <1>1, EmptyFacts DEF TSInv, TSTypeOK, EmptyMinute
<1>3. /\ entries' = [entries EXCEPT ![i] = new]
      /\ cur' = i
      /\ held' = [held EXCEPT !["writer"] = i]
      /\ again' = IF \E j \in Id : entries[j] # None /\ entries[j].minute = m
                  THEN again \cup {m} ELSE again
  BY DEF Open
<1>4. i \in Id /\ entries[i] = None /\ i = adds'
  <2>1. adds' >= adds'
    BY SeriesAssumption DEF Id
  <2> QED
    BY <2>1
<1>5. m = MinuteOf(t)
  OBVIOUS
<1> HIDE DEF m, new
<1>6. /\ entries'[i] = new /\ \A j \in Id : j # i => entries'[j] = entries[j]
      /\ entries' \in [Id -> EntryType \cup {None}]
  BY <1>2, <1>3, <1>4 DEF TSInv, TSTypeOK
<1> HIDE DEF i
<1>7. new # None
  BY <1>2, NoneAssumption
<1>8. \A j \in Id : entries[j] # None => j # i /\ entries'[j] = entries[j]
  BY <1>4, <1>6
<1>9. again \subseteq again' /\ again' \subseteq Minutes
  BY <1>1, <1>3 DEF TSInv, TSTypeOK
<1>10. \A j \in Id : entries[j] # None /\ entries[j].minute = m => m \in again'
  BY <1>3
<1>11. /\ pc'["writer"] = "write" /\ pc'["reaper"] = pc["reaper"]
       /\ held'["writer"] = i /\ held'["reaper"] = held["reaper"]
  BY <1>3 DEF TSInv, TSTypeOK, Thread
<1>12. Busy("reaper") => /\ held["reaper"] \in Id /\ held["reaper"] # i
                         /\ entries[held["reaper"]] # None
                         /\ entries'[held["reaper"]] = entries[held["reaper"]]
  BY <1>8 DEF TSInv, Threads, TSTypeOK, Thread
<1>13. cur # None => cur \in Id /\ entries[cur] # None /\ entries'[cur] = entries[cur]
  BY <1>8 DEF TSInv, Threads, TSTypeOK
<1>14. TSTypeOK'
  <2>1. i \in 0..MaxAdds
    BY <1>4, SeriesAssumption DEF Id
  <2>2. adding' \in [t : Second, v : Value] /\ pc' \in [Thread -> {"idle", "minute", "hour", "archived", "write"}]
    BY DEF TSInv, TSTypeOK
  <2>3. held' \in [Thread -> Id \cup {None}]
    BY <1>3, <1>4 DEF TSInv, TSTypeOK
  <2> QED
    BY <1>3, <1>4, <1>6, <1>9, <2>1, <2>2, <2>3 DEF TSInv, TSTypeOK
<1>15. Threads'
  <2>1. i \in Nat /\ i # None /\ \A j \in Id : j \in Nat
    BY <1>4, SeriesAssumption DEF Id
  <2>2. adding' # None
    BY NoneAssumption
  <2>3. \A j \in Id : j > i => entries'[j] = None
    BY <1>4, <1>6, <2>1
  <2>4. held["reaper"] # None <=> Busy("reaper")
    BY DEF TSInv, Threads, Thread
  <2>5. pc["reaper"] # "write"
    BY DEF TSInv, Threads
  <2> QED
    BY <1>2, <1>3, <1>4, <1>5, <1>6, <1>7, <1>11, <1>12, <2>1, <2>2, <2>3, <2>4, <2>5
    DEF Threads, Busy, Thread
<1>16. OneObject'
  <2> SUFFICES ASSUME NEW j \in Id, NEW k \in Id, entries'[j] # None, entries'[k] # None,
                      entries'[j].minute = entries'[k].minute, j # k
               PROVE  entries'[j].minute \in again'
    BY DEF OneObject
  <2>1. CASE j # i /\ k # i
    BY <2>1, <1>6, <1>9 DEF TSInv, OneObject
  <2>2. CASE j = i
    BY <2>2, <1>2, <1>6, <1>10
  <2>3. CASE k = i
    BY <2>3, <1>2, <1>6, <1>10
  <2> QED
    BY <2>1, <2>2, <2>3
<1>17. RacedInv'
  BY <1>2, <1>3, <1>5, <1>6, <1>11, <1>12 DEF TSInv, RacedInv, Busy
<1>18. ValuesAreIn'
  <2>1. \A s \in Second : added[s] # None =>
          \E j \in Id : entries'[j] # None /\ entries'[j].minute = MinuteOf(s)
    BY <1>8 DEF TSInv, ValuesAreIn
  <2>2. ASSUME NEW j \in Id, NEW s \in Second, entries'[j] # None,
               entries'[j].minute = MinuteOf(s), MinuteOf(s) \notin again'
        PROVE  entries'[j].vals[s % Minute] = added[s]
    <3>1. CASE j # i
      BY <2>2, <3>1, <1>6, <1>9 DEF TSInv, ValuesAreIn
    <3>2. CASE j = i
      <4>1. added[s] = None
        BY <2>2, <3>2, <1>2, <1>6, <1>10 DEF TSInv, ValuesAreIn
      <4> QED
        BY <4>1, <3>2, <1>2, <1>6, SecondFacts
    <3> QED
      BY <3>1, <3>2
  <2> QED
    BY <2>1, <2>2 DEF ValuesAreIn
<1>19. Kept'
  <2> SUFFICES ASSUME NEW j \in Id, entries'[j] # None, j # i,
                      entries'[j].minute \notin raced' \cup again'
               PROVE  minutes[entries'[j].minute] = entries'[j]
    BY <1>3 DEF Kept
  <2>1. entries'[j] = entries[j] /\ entries[j] # None
    BY <1>6
  <2>2. CASE j = cur
    <3>1. cur # None
      BY <2>2, SeriesAssumption DEF Id
    <3> QED
      BY <3>1, <2>1, <2>2, <1>9
  <2>3. CASE j # cur
    BY <2>1, <2>3, <1>9 DEF TSInv, Kept
  <2> QED
    BY <2>2, <2>3
<1>20. Archived'
  <2> SUFFICES ASSUME pc["reaper"] \in {"hour", "archived"},
                      entries'[held["reaper"]].minute \notin raced' \cup again'
               PROVE  minutes[entries'[held["reaper"]].minute] = entries'[held["reaper"]]
    BY <1>11 DEF Archived, Thread
  <2>1. Busy("reaper")
    BY DEF Busy
  <2> QED
    BY <2>1, <1>9, <1>12 DEF TSInv, Archived, Thread
<1>21. MinMaxInv'
  <2>1. MinMaxOf(new)
    BY <1>2 DEF MinMaxOf
  <2>2. ASSUME NEW j \in Id, entries'[j] # None PROVE MinMaxOf(entries'[j])
    <3>1. CASE j = i
      BY <3>1, <2>1, <1>6
    <3>2. CASE j # i
      <4>1. entries'[j] = entries[j]
        BY <3>2, <1>6
      <4>2. MinMaxOf(entries[j])
        BY <2>2, <4>1 DEF TSInv, MinMaxInv
      <4> QED
        BY <4>1, <4>2
    <3> QED
      BY <3>1, <3>2
  <2>3. \A j \in Id : entries'[j] # None => MinMaxOf(entries'[j])
    BY <2>2
  <2> QED
    BY <2>3 DEF TSInv, MinMaxInv, MinMaxOf
<1>22. Written'
  <2>1. \A j \in Id : entries'[j] # None /\ entries'[j].nb > 0 => entries'[j].seen # {}
    BY <1>2, <1>6 DEF TSInv, Written
  <2>2. pc["reaper"] \in {"minute", "hour", "archived"} => entries'[held["reaper"]].nb > 0
    BY <1>12 DEF TSInv, Written, Thread, Busy
  <2> QED
    BY <2>1, <2>2, <1>3, <1>11 DEF Written, Thread
<1>23. HoursMatchMinutes'
  <2> SUFFICES ASSUME NEW k \in Minutes \ (raced' \cup again'),
                      minutes[k] # None, HourOf(k) \notin gone,
                      \A p \in Thread : pc'[p] = "hour" => entries'[held'[p]].minute # k
               PROVE  \E x \in {hour} \cup {hours[l] : l \in Hours} :
                         /\ x # None
                         /\ x.hour = HourOf(k)
                         /\ x.vals[k % Hour] = Avg(minutes[k])
    BY DEF HoursMatchMinutes
  <2>1. \A p \in Thread : pc[p] = "hour" => entries[held[p]].minute # k
    BY <1>11, <1>12 DEF Thread, Busy
  <2> QED
    BY <2>1, <1>9 DEF TSInv, HoursMatchMinutes
<1> QED
  BY <1>14, <1>15, <1>16, <1>17, <1>18, <1>19, <1>20, <1>21, <1>22, <1>23 DEF TSInv

LEMMA BeginAddStep ==
    ASSUME TSInv, NEW t \in Second, NEW v \in Value, BeginAdd(t, v)
    PROVE  TSInv'
<1>1. /\ pc["writer"] = "idle" /\ adds \in 0..MaxAdds /\ adds < MaxAdds /\ adds' = adds + 1
      /\ adding' = [t |-> t, v |-> v]
      /\ UNCHANGED <<now, hour, minutes, hours, added, gone>>
  BY DEF BeginAdd, TSInv, TSTypeOK
<1>2. MinuteOf(t) \in Minutes
  BY SecondFacts
<1>3. Busy("reaper") => entries[held["reaper"]].minute \in Minutes
  BY DEF TSInv, Threads, TSTypeOK, EntryType, Thread
<1>4. /\ raced \subseteq raced' /\ raced' \subseteq Minutes
      /\ Busy("reaper") => /\ MinuteOf(t) \in raced'
                           /\ entries[held["reaper"]].minute \in raced'
  BY <1>2, <1>3 DEF BeginAdd, TSInv, TSTypeOK, Busy
<1>5. adds' \in Id /\ adds' \in 0..MaxAdds /\ \A j \in Id : j >= adds' => entries[j] = None
  BY <1>1, SeriesAssumption DEF TSInv, Threads, Id
<1>6. CASE /\ cur = None /\ Open(t) /\ pc' = [pc EXCEPT !["writer"] = "write"]
  BY <1>1, <1>4, <1>5, <1>6, OpenStep
<1>7. CASE /\ cur # None
           /\ held' = [held EXCEPT !["writer"] = cur]
           /\ pc' = [pc EXCEPT !["writer"] =
                         IF entries[cur].minute = MinuteOf(t) THEN "write" ELSE "minute"]
           /\ UNCHANGED <<entries, cur, again>>
  <2>1. cur \in Id /\ entries[cur] # None
    BY <1>7 DEF TSInv, TSTypeOK, Threads
  <2>2. /\ \/ pc'["writer"] = "write" /\ entries[cur].minute = MinuteOf(t)
           \/ pc'["writer"] = "minute"
        /\ pc'["reaper"] = pc["reaper"]
        /\ held'["writer"] = cur /\ held'["reaper"] = held["reaper"]
    BY <1>7 DEF TSInv, TSTypeOK, Thread
  <2>3. pc' \in [Thread -> {"idle", "minute", "hour", "archived", "write"}]
    BY <1>7 DEF TSInv, TSTypeOK
  <2>4. held' \in [Thread -> Id \cup {None}] /\ adding' \in [t : Second, v : Value]
    BY <1>1, <1>7, <2>1 DEF TSInv, TSTypeOK
  <2>5. TSTypeOK'
    BY <1>1, <1>4, <1>5, <1>7, <2>3, <2>4 DEF TSInv, TSTypeOK
  <2>6. adding' # None /\ adding'.t = t
    BY <1>1, NoneAssumption
  <2>7. \A j \in Id : j > adds' => entries[j] = None
    BY <1>5, SeriesAssumption DEF Id
  <2>8. entries[adds'] = None
    BY <1>5, SeriesAssumption DEF Id
  <2>9. Threads'
    BY <1>5, <1>7, <2>1, <2>2, <2>6, <2>7, <2>8 DEF TSInv, Threads, Busy, Thread
  <2>10. RacedInv'
    BY <1>4, <1>7, <2>2, <2>6 DEF TSInv, RacedInv, Busy
  <2>11. entries[cur].nb > 0
    BY <1>1, <1>7 DEF TSInv, Written
  <2>12. Written'
    BY <1>7, <2>2, <2>11 DEF TSInv, Written, Thread
  <2> QED
    BY <1>1, <1>4, <1>7, <2>2, <2>5, <2>9, <2>10, <2>12, QuietStep DEF Thread
<1> QED
  BY <1>6, <1>7 DEF BeginAdd

LEMMA SwitchStep ==
    ASSUME TSInv, Switch
    PROVE  TSInv'
<1>1. /\ pc["writer"] = "archived" /\ adds' = adds /\ Open(adding.t)
      /\ pc' = [pc EXCEPT !["writer"] = "write"]
      /\ UNCHANGED <<now, hour, minutes, hours, adding, added, raced, gone>>
  BY DEF Switch
<1>2. Busy("writer") /\ adding # None /\ adding \in [t : Second, v : Value]
  BY <1>1 DEF Busy, TSInv, Threads, TSTypeOK
<1>3. PICK t \in Second, v \in Value : adding = [t |-> t, v |-> v]
  BY <1>2
<1>4. adding.t = t
  BY <1>3
<1>5. adds' \in Id
  BY <1>1, <1>2 DEF TSInv, Threads
<1>6. entries[adds] = None /\ \A j \in Id : j > adds => entries[j] = None
  BY <1>1 DEF TSInv, Threads
<1>7. \A j \in Id : j >= adds' => entries[j] = None
  <2>1. \A j \in Id : j >= adds => j > adds \/ j = adds
    BY <1>1, <1>5, SeriesAssumption DEF Id
  <2> QED
    BY <1>1, <1>6, <2>1
<1>8. Busy("reaper") => /\ MinuteOf(t) \in raced' /\ entries[held["reaper"]].minute \in raced'
  BY <1>1, <1>2, <1>4 DEF TSInv, RacedInv
<1>9. cur # None => \/ entries[cur].minute \in raced' \cup again
                    \/ minutes[entries[cur].minute] = entries[cur]
  <2> SUFFICES ASSUME cur # None, entries[cur].minute \notin raced \cup again
               PROVE  minutes[entries[cur].minute] = entries[cur]
    BY <1>1
  <2>1. cur = held["writer"]
    BY <1>2 DEF TSInv, RacedInv
  <2> QED
    BY <1>1, <2>1 DEF TSInv, Archived, Thread
<1>10. raced' \subseteq Minutes
  BY <1>1 DEF TSInv, TSTypeOK
<1> QED
  BY <1>1, <1>3, <1>4, <1>5, <1>7, <1>8, <1>9, <1>10, OpenStep

\* The value goes in an object that is in memory, or whose minute is raced.
LEMMA WriteValueStep ==
    ASSUME TSInv, WriteValue
    PROVE  TSInv'
<1> DEFINE i == held["writer"]
           e == entries[i]
           v == adding.v
           t == adding.t
           vals == [e.vals EXCEPT ![t % Minute] = v]
           lo == NewMin(e, v)
           hi == NewMax(e, v)
<1>1. pc["writer"] = "write" /\ Busy("writer")
  BY DEF WriteValue, Busy
<1>2. i \in Id /\ e # None /\ e \in EntryType /\ e.minute = MinuteOf(t)
  BY <1>1 DEF TSInv, Threads, TSTypeOK, Thread
<1>3. v \in Value /\ t \in Second
  BY <1>1 DEF TSInv, Threads, TSTypeOK
<1>4. /\ entries' = [entries EXCEPT ![i] =
                        [e EXCEPT !.vals = vals, !.min = lo, !.max = hi, !.sum = @ + v,
                                  !.nb = @ + 1, !.seen = @ \cup {v}]]
      /\ added' = [added EXCEPT ![t] = v]
      /\ pc' = [pc EXCEPT !["writer"] = "idle"]
      /\ held' = [held EXCEPT !["writer"] = None]
      /\ adding' = None
      /\ UNCHANGED <<now, cur, hour, minutes, hours, adds, raced, again, gone>>
  BY DEF WriteValue
<1>5. t % Minute \in 0..(Minute - 1)
  BY <1>3, SecondFacts
<1>6. /\ vals \in [0..(Minute - 1) -> Value \cup {None}] /\ vals[t % Minute] = v
      /\ \A s \in 0..(Minute - 1) : s # t % Minute => vals[s] = e.vals[s]
  BY <1>2, <1>3, <1>5 DEF EntryType
<1>7. MinMaxOf(e)
  BY <1>2 DEF TSInv, MinMaxInv
<1>8. lo \in Value \cup {None} /\ hi \in Value \cup {None}
  BY <1>2, <1>3 DEF NewMin, NewMax, EntryType
<1>9. /\ {lo, hi} \subseteq e.seen \cup {v}
      /\ 0 \notin e.seen \cup {v} => \A x \in e.seen \cup {v} : lo <= x /\ x <= hi
  <2>1. e.seen \subseteq Value /\ Value \subseteq Int /\ None \notin Int
    BY <1>2, SeriesAssumption DEF EntryType
  <2>2. CASE e.seen = {}
    <3>1. e.min = None /\ e.max = None
      BY <2>2, <1>7 DEF MinMaxOf
    <3>2. lo = v /\ hi = v
      BY <3>1 DEF NewMin, NewMax
    <3>3. v \in Int
      BY <2>1, <1>3
    <3>4. \A x \in Int : x <= x
      OBVIOUS
    <3> HIDE DEF lo, hi, e, v
    <3>5. v <= v
      BY <3>3, <3>4, Zenon
    <3> QED
      BY <2>2, <3>2, <3>5
  <2>3. CASE e.seen # {}
    <3>1. e.min \in e.seen /\ e.max \in e.seen
      BY <2>3, <1>7 DEF MinMaxOf
    <3>2. {lo, hi} \subseteq e.seen \cup {v}
      BY <3>1 DEF NewMin, NewMax
    <3>3. ASSUME 0 \notin e.seen, NEW x \in e.seen \cup {v} PROVE lo <= x /\ x <= hi
      <4>1. \A y \in e.seen : e.min <= y /\ y <= e.max
        BY <3>3, <1>7 DEF MinMaxOf
      <4>2. e.min # 0 /\ e.min # None /\ e.max # 0 /\ e.max # None
        BY <2>1, <3>1, <3>3
      <4>3. e.min \in Int /\ e.max \in Int /\ v \in Int /\ x \in Int
        BY <2>1, <3>1, <1>3
      <4> QED
        BY <4>1, <4>2, <4>3 DEF NewMin, NewMax
    <3> QED
      BY <3>2, <3>3
  <2> QED
    BY <2>2, <2>3
<1>10. i = held["writer"] /\ e = entries[i] /\ v = adding.v /\ t = adding.t
  OBVIOUS
<1> HIDE DEF v, t, vals, lo, hi, e, i
<1>11. PICK sum, nb, seen : sum = e.sum + v /\ nb = e.nb + 1 /\ seen = e.seen \cup {v}
  OBVIOUS
<1>12. sum \in Int /\ nb \in Nat /\ nb > 0 /\ seen \in SUBSET Value /\ seen # {}
  <2>1. e.sum \in Int /\ e.nb \in Nat /\ e.seen \subseteq Value /\ v \in Int
    BY <1>2, <1>3, SeriesAssumption DEF EntryType
  <2>2. sum \in Int /\ nb \in Nat /\ nb > 0
    BY <2>1, <1>11
  <2> QED
    BY <2>1, <2>2, <1>3, <1>11
<1>13. PICK n : n = [e EXCEPT !.vals = vals, !.min = lo, !.max = hi, !.sum = sum, !.nb = nb,
                             !.seen = seen]
  OBVIOUS
<1>14. /\ n \in EntryType
       /\ n.minute = e.minute /\ n.vals = vals /\ n.min = lo /\ n.max = hi
       /\ n.nb = nb /\ n.seen = seen
  <2>1. n \in EntryType
    BY <1>2, <1>6, <1>8, <1>12, <1>13 DEF EntryType
  <2>2. n.minute = e.minute /\ n.vals = vals /\ n.min = lo /\ n.max = hi
    BY <1>2, <1>13 DEF EntryType
  <2>3. n.nb = nb /\ n.seen = seen
    BY <1>2, <1>13 DEF EntryType
  <2> QED
    BY <2>1, <2>2, <2>3
<1>15. /\ n \in EntryType /\ n.minute = e.minute /\ n.vals = vals /\ n.nb > 0
       /\ n.seen # {} /\ MinMaxOf(n) /\ n # None
       /\ entries' = [entries EXCEPT ![i] = n]
  <2>1. entries' = [entries EXCEPT ![i] = n]
    BY <1>4, <1>11, <1>13
  <2>2. MinMaxOf(n)
    BY <1>9, <1>11, <1>12, <1>14 DEF MinMaxOf
  <2> QED
    BY <2>1, <2>2, <1>12, <1>14, NoneAssumption
<1>16. /\ entries'[i] = n /\ \A j \in Id : j # i => entries'[j] = entries[j]
       /\ entries' \in [Id -> EntryType \cup {None}]
  BY <1>2, <1>15 DEF TSInv, TSTypeOK
<1>17. /\ added'[t] = v /\ \A s \in Second : s # t => added'[s] = added[s]
       /\ added' \in [Second -> Value \cup {None}]
  BY <1>3, <1>4 DEF TSInv, TSTypeOK
<1>18. /\ pc'["writer"] = "idle" /\ pc'["reaper"] = pc["reaper"]
       /\ held'["writer"] = None /\ held'["reaper"] = held["reaper"]
  BY <1>4 DEF TSInv, TSTypeOK, Thread
<1>19. \A j \in Id : entries'[j] # None <=> entries[j] # None
  BY <1>2, <1>10, <1>15, <1>16
<1>20. \A j \in Id : entries[j] # None => entries'[j].minute = entries[j].minute
  BY <1>10, <1>15, <1>16
<1>21. TSTypeOK'
  <2>1. pc' \in [Thread -> {"idle", "minute", "hour", "archived", "write"}]
    BY <1>4 DEF TSInv, TSTypeOK
  <2>2. held' \in [Thread -> Id \cup {None}]
    BY <1>4 DEF TSInv, TSTypeOK
  <2> QED
    BY <1>4, <1>16, <1>17, <2>1, <2>2 DEF TSInv, TSTypeOK
<1>22. Threads'
  <2>1. cur # None => cur \in Id
    BY DEF TSInv, TSTypeOK
  <2>2. held["reaper"] # None => held["reaper"] \in Id
    BY DEF TSInv, TSTypeOK, Thread
  <2> QED
    BY <2>1, <2>2, <1>4, <1>18, <1>19 DEF TSInv, Threads, Busy, Thread
<1>23. \A j, k \in Id : entries[j] # None /\ entries[k] # None
                          /\ entries[j].minute = entries[k].minute
                             => j = k \/ entries[j].minute \in again
  BY DEF TSInv, OneObject
<1>24. OneObject'
  BY <1>4, <1>19, <1>20, <1>23 DEF OneObject
<1>25. i = cur \/ e.minute \in raced
  BY <1>1, <1>10 DEF TSInv, RacedInv
<1>26. Busy("reaper") => /\ held["reaper"] \in Id /\ entries[held["reaper"]] # None
                         /\ e.minute \in raced
  BY <1>1, <1>2, <1>10 DEF TSInv, RacedInv, Threads, TSTypeOK, Thread
<1>27. RacedInv'
  <2>1. cur # None => cur \in Id /\ entries[cur] # None
    BY DEF TSInv, TSTypeOK, Threads
  <2> QED
    BY <2>1, <1>4, <1>18, <1>20, <1>26 DEF TSInv, RacedInv, Busy
<1>28. ValuesAreIn'
  <2>1. ASSUME NEW s \in Second, added'[s] # None
        PROVE  \E j \in Id : entries'[j] # None /\ entries'[j].minute = MinuteOf(s)
    <3>1. CASE s = t
      BY <3>1, <1>2, <1>15, <1>16
    <3>2. CASE s # t
      <4>1. \E j \in Id : entries[j] # None /\ entries[j].minute = MinuteOf(s)
        BY <2>1, <3>2, <1>17 DEF TSInv, ValuesAreIn
      <4> QED
        BY <4>1, <1>19, <1>20
    <3> QED
      BY <3>1, <3>2
  <2>2. ASSUME NEW j \in Id, NEW s \in Second, entries'[j] # None,
               entries'[j].minute = MinuteOf(s), MinuteOf(s) \notin again
        PROVE  entries'[j].vals[s % Minute] = added'[s]
    <3>1. entries[j] # None /\ entries[j].minute = MinuteOf(s)
      BY <2>2, <1>19, <1>20
    <3>2. entries[j].vals[s % Minute] = added[s]
      BY <2>2, <3>1 DEF TSInv, ValuesAreIn
    <3>3. CASE j = i /\ s = t
      BY <3>3, <1>6, <1>15, <1>16, <1>17
    <3>4. CASE j = i /\ s # t
      <4>1. MinuteOf(s) = MinuteOf(t)
        BY <3>1, <3>4, <1>2, <1>10
      <4>2. s % Minute # t % Minute /\ s % Minute \in 0..(Minute - 1)
        BY <4>1, <3>4, <1>3, SecondFacts
      <4> QED
        BY <4>2, <3>2, <3>4, <1>6, <1>10, <1>15, <1>16, <1>17
    <3>5. CASE j # i
      <4>1. s # t
        BY <2>2, <3>1, <3>5, <1>2, <1>10, <1>23
      <4> QED
        BY <4>1, <3>2, <3>5, <1>16, <1>17
    <3> QED
      BY <3>3, <3>4, <3>5
  <2> QED
    BY <1>4, <2>1, <2>2 DEF ValuesAreIn
<1>29. Kept'
  <2> SUFFICES ASSUME NEW j \in Id, entries'[j] # None, j # cur,
                      entries'[j].minute \notin raced \cup again
               PROVE  minutes[entries'[j].minute] = entries'[j]
    BY <1>4 DEF Kept
  <2>1. j # i
    BY <1>10, <1>15, <1>16, <1>25
  <2> QED
    BY <2>1, <1>16 DEF TSInv, Kept
<1>30. Archived'
  <2> SUFFICES ASSUME pc["reaper"] \in {"hour", "archived"},
                      entries'[held["reaper"]].minute \notin raced \cup again
               PROVE  minutes[entries'[held["reaper"]].minute] = entries'[held["reaper"]]
    BY <1>4, <1>18 DEF Archived, Thread
  <2>1. Busy("reaper")
    BY DEF Busy
  <2>2. held["reaper"] # i
    BY <2>1, <1>10, <1>20, <1>26
  <2>3. entries'[held["reaper"]] = entries[held["reaper"]]
    BY <2>1, <2>2, <1>16, <1>26
  <2> QED
    BY <2>3 DEF TSInv, Archived, Thread
<1>31. MinMaxInv'
  <2>1. ASSUME NEW j \in Id, entries'[j] # None PROVE MinMaxOf(entries'[j])
    <3>1. CASE j = i
      BY <3>1, <1>15, <1>16
    <3>2. CASE j # i
      <4>1. entries'[j] = entries[j]
        BY <3>2, <1>16
      <4>2. MinMaxOf(entries[j])
        BY <2>1, <4>1 DEF TSInv, MinMaxInv
      <4> QED
        BY <4>1, <4>2
    <3> QED
      BY <3>1, <3>2
  <2>2. \A j \in Id : entries'[j] # None => MinMaxOf(entries'[j])
    BY <2>1
  <2> QED
    BY <2>2, <1>4 DEF TSInv, MinMaxInv, MinMaxOf
<1>32. Written'
  <2>1. \A j \in Id : entries'[j] # None /\ entries'[j].nb > 0 => entries'[j].seen # {}
    BY <1>15, <1>16 DEF TSInv, Written
  <2>2. pc["reaper"] \in {"minute", "hour", "archived"} => entries'[held["reaper"]].nb > 0
    BY <1>15, <1>16, <1>26 DEF TSInv, Written, Thread, Busy
  <2>3. cur # None => cur \in Id /\ entries'[cur].nb > 0
    BY <1>1, <1>10, <1>15, <1>16 DEF TSInv, Written, TSTypeOK
  <2> QED
    BY <2>1, <2>2, <2>3, <1>4, <1>18 DEF Written, Thread
<1>33. HoursMatchMinutes'
  <2> SUFFICES ASSUME NEW k \in Minutes \ (raced \cup again),
                      minutes[k] # None, HourOf(k) \notin gone,
                      \A p \in Thread : pc'[p] = "hour" => entries'[held'[p]].minute # k
               PROVE  \E x \in {hour} \cup {hours[l] : l \in Hours} :
                         /\ x # None
                         /\ x.hour = HourOf(k)
                         /\ x.vals[k % Hour] = Avg(minutes[k])
    <3>1. UNCHANGED <<hour, minutes, hours, raced, again, gone>>
      BY <1>4
    <3> QED
      BY <3>1 DEF HoursMatchMinutes
  <2>1. \A p \in Thread : pc[p] = "hour" => entries[held[p]].minute # k
    BY <1>1, <1>18, <1>20, <1>26 DEF Thread, Busy
  <2> QED
    BY <2>1 DEF TSInv, HoursMatchMinutes
<1> QED
  BY <1>21, <1>22, <1>24, <1>27, <1>28, <1>29, <1>30, <1>31, <1>32, <1>33 DEF TSInv

-----------------------------------------------------------------------------
LEMMA NextTS == TSInv /\ [Next]_vars => TSInv'
<1> SUFFICES ASSUME TSInv, [Next]_vars PROVE TSInv'
  OBVIOUS
<1>1. CASE Tick
  BY <1>1, TickStep
<1>2. CASE \E t \in Second, v \in Value : t <= now /\ BeginAdd(t, v)
  BY <1>2, BeginAddStep
<1>3. CASE \E p \in Thread : Archive(p)
  BY <1>3, StoreMinuteStep, UpdateHourStep DEF Archive
<1>4. CASE Switch
  BY <1>4, SwitchStep
<1>5. CASE WriteValue
  BY <1>5, WriteValueStep
<1>6. CASE ReaperLook
  BY <1>6, ReaperLookStep
<1>7. CASE Drop
  BY <1>7, DropStep
<1>8. CASE UNCHANGED vars
  <2>1. UNCHANGED <<now, entries, cur, hour, minutes, hours, pc, held, adding, adds, added, raced, again, gone>>
    BY <1>8 DEF vars
  <2>2. TSTypeOK'
    BY <2>1 DEF TSInv, TSTypeOK
  <2>3. Threads' /\ RacedInv' /\ Written'
    BY <2>1 DEF TSInv, Threads, RacedInv, Written, Busy
  <2> QED
    BY <2>1, <2>2, <2>3, QuietStep
<1> QED
  BY <1>1, <1>2, <1>3, <1>4, <1>5, <1>6, <1>7, <1>8 DEF Next

LEMMA TSInvHolds == Spec => []TSInv
<1>1. Init => TSInv
  BY InitTS
<1>2. TSInv /\ [Next]_vars => TSInv'
  BY NextTS
<1> QED
  BY <1>1, <1>2, PTL DEF Spec

\* Entries, stored minutes and stored hours keep their shape (add_value, archive_minute).
THEOREM SeriesTypes == Spec => []TSTypeOK
<1>1. TSInv => TSTypeOK
  BY DEF TSInv
<1> QED
  BY <1>1, TSInvHolds, PTL

\* No value of add_value is lost, but where the reaper and the writer met at a minute, or
\* a minute was opened again.
THEOREM ValuesKept == Spec => []MinutesKeepTheirValues
<1>1. TSInv => MinutesKeepTheirValues
  <2> SUFFICES ASSUME TSInv, NEW t \in Second, added[t] # None, MinuteOf(t) \notin raced \cup again
               PROVE  (cur # None /\ Has(entries[cur], t)) \/ Has(minutes[MinuteOf(t)], t)
    BY DEF MinutesKeepTheirValues
  <2>1. PICK i \in Id : entries[i] # None /\ entries[i].minute = MinuteOf(t)
    BY DEF TSInv, ValuesAreIn
  <2>2. Has(entries[i], t)
    BY <2>1 DEF TSInv, ValuesAreIn, Has
  <2>3. i # None
    BY SeriesAssumption DEF Id
  <2>4. i = cur \/ minutes[MinuteOf(t)] = entries[i]
    BY <2>1 DEF TSInv, Kept
  <2> QED
    BY <2>2, <2>3, <2>4
<1> QED
  BY <1>1, TSInvHolds, PTL

\* archive_minute leaves every stored minute in an hour entry, but for the hours whose key
\* was taken by another.
THEOREM HoursMatch == Spec => []HoursMatchMinutes
<1>1. TSInv => HoursMatchMinutes
  BY DEF TSInv
<1> QED
  BY <1>1, TSInvHolds, PTL

\* The running minimum and maximum of add_value are those of values that went in.
THEOREM MinMaxReal == Spec => []MinMaxAreReal
<1>1. TSInv => MinMaxAreReal
  BY DEF TSInv, MinMaxInv, MinMaxOf, MinMaxAreReal
<1> QED
  BY <1>1, TSInvHolds, PTL
=============================================================================
