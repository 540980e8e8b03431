------------------------- MODULE TTLDatabaseProofs -------------------------
(***************************************************************************)
(* What every operation on the keys with a time to live preserves.  A      *)
(* module that puts keys gets its invariants from these lemmas, as its     *)
(* actions are made of these operations.                                   *)
(***************************************************************************)
EXTENDS TTLDatabase, TLAPS

\* A put that goes on has its entry already, and no put outside raced is going on for the
\* hour that is cleaned, whose keys left are all that still have a value dying in it.
WritesAreListed ==
    \A w \in Writer :
        writes[w] # None =>
            \/ writes[w].key \in raced
            \/ writes[w].dies = Forever
            \/ writes[w].key \in hours[HourOf(writes[w].dies)]

CleaningTellsRaced ==
    cleaning.hour # None =>
        /\ \A w \in Writer :
              writes[w] # None =>
                 \/ writes[w].key \in raced
                 \/ writes[w].dies = Forever
                 \/ HourOf(writes[w].dies) # cleaning.hour
        /\ \A k \in Key \ raced :
              dies[k] \notin {None, Forever} /\ HourOf(dies[k]) = cleaning.hour
                 => k \in cleaning.keys

ListInv == TTLTypeOK /\ WritesAreListed /\ CleaningTellsRaced /\ DyingKeysAreListed

\* A death and its hour.
DiesIn(t, h) == t # Forever /\ HourOf(t) = h

\* The one put of a key outside again: its value, its entries and its thread agree.
OnePut(k) ==
    /\ \A h \in Hours : k \in hours[h] /\ dies[k] # None => DiesIn(dies[k], h)
    /\ k \in cleaning.keys /\ dies[k] # None => DiesIn(dies[k], cleaning.hour)
    /\ \A w \in Writer :
          writes[w] # None /\ writes[w].key = k =>
             /\ dies[k] = None
             /\ \A u \in Writer : writes[u] # None /\ writes[u].key = k => u = w
             /\ \A h \in Hours : k \in hours[h] => DiesIn(writes[w].dies, h)
             /\ k \in cleaning.keys => DiesIn(writes[w].dies, cleaning.hour)

OneInv == \A k \in Key \ again : OnePut(k)

\* What is being cleaned was past the limit, and still is.
LimitInv ==
    /\ cleaning.keys # {} => cleaning.hour # None
    /\ \A h \in cleaning.todo : h <= HourOf(now)
    /\ cleaning.hour # None => cleaning.hour <= HourOf(now)

-----------------------------------------------------------------------------
LEMMA DeathHasHour ==
    ASSUME NEW t \in 0..(MaxTime + MaxTtl)
    PROVE  HourOf(t) \in Hours
BY DEF Hours

LEMMA HourFacts ==
    ASSUME NEW t \in Nat
    PROVE  /\ HourOf(t) \in Nat
           /\ CleanLimit(t) = HourOf(t) + 1
           /\ HourOf(t) <= HourOf(t + 1)
<1>1. Hour \in Nat /\ Hour > 0
  BY TimeAssumption
<1> QED
  BY <1>1 DEF HourOf, CleanLimit

\* TTLInit starts with all of it.
LEMMA InitInv == TTLInit => ListInv /\ OneInv /\ LimitInv
<1> SUFFICES ASSUME TTLInit PROVE ListInv /\ OneInv /\ LimitInv
  OBVIOUS
<1>1. now \in 0..MaxTime
  BY TimeAssumption DEF TTLInit
<1>2. TTLTypeOK
  BY <1>1 DEF TTLInit, TTLTypeOK, Resting
<1>3. WritesAreListed /\ CleaningTellsRaced /\ DyingKeysAreListed
  BY DEF TTLInit, WritesAreListed, CleaningTellsRaced, DyingKeysAreListed, Resting
<1>4. OneInv /\ LimitInv
  BY DEF TTLInit, OneInv, OnePut, LimitInv, Resting
<1> QED
  BY <1>2, <1>3, <1>4 DEF ListInv

\* A step that leaves this part alone.
LEMMA StutterInv ==
    ASSUME ListInv, OneInv, LimitInv, UNCHANGED ttlVars
    PROVE  ListInv' /\ OneInv' /\ LimitInv'
BY DEF ListInv, OneInv, LimitInv, ttlVars, TTLTypeOK, WritesAreListed, CleaningTellsRaced,
       DyingKeysAreListed, OnePut, DiesIn

-----------------------------------------------------------------------------
\* Every operation keeps the lists.
LEMMA SetTtlList ==
    ASSUME ListInv, NEW w \in Writer, NEW k \in Key, NEW ttl \in 0..MaxTtl,
           SetTtl(w, k, ttl)
    PROVE  ListInv'
<1> DEFINE t == IF ttl = 0 THEN Forever ELSE now + ttl
<1>0. now \in 0..MaxTime
  BY DEF ListInv, TTLTypeOK
<1>1. ttl # 0 => t \in 0..(MaxTime + MaxTtl) /\ t = now + ttl
  BY <1>0, TimeAssumption
<1>2. [key |-> k, dies |-> t] \in Write
  BY <1>1 DEF Write
<1>3. /\ writes' = [writes EXCEPT ![w] = [key |-> k, dies |-> t]]
      /\ hours' = IF ttl = 0 THEN hours ELSE [hours EXCEPT ![HourOf(t)] = @ \cup {k}]
      /\ raced' = IF cleaning.hour # None /\ ttl # 0 /\ cleaning.hour = HourOf(t)
                  THEN raced \cup {k} ELSE raced
      /\ UNCHANGED <<now, dies, cleaning>>
      /\ again' \subseteq again \cup {k}
  BY DEF SetTtl
<1>4. ttl # 0 => HourOf(t) \in Hours
  BY <1>1, DeathHasHour
<1>5. ttl # 0 => t # Forever
  BY <1>1 DEF Forever
<1>6. ttl = 0 => t = Forever
  OBVIOUS
<1> HIDE DEF t
<1>7. TTLTypeOK'
  BY <1>2, <1>3, <1>4 DEF ListInv, TTLTypeOK
<1>8. \A h \in Hours : hours[h] \subseteq hours'[h]
  BY <1>3, <1>4 DEF ListInv, TTLTypeOK
<1>9. ttl # 0 => k \in hours'[HourOf(t)]
  BY <1>3, <1>4 DEF ListInv, TTLTypeOK
<1>10. \A u \in Writer : writes'[u] # None =>
          \/ writes'[u] = writes[u] /\ writes[u] # None
          \/ writes'[u].key = k /\ writes'[u].dies = t
  BY <1>3 DEF ListInv, TTLTypeOK
<1>11. raced \subseteq raced'
  BY <1>3
<1>12. \A u \in Writer : writes[u] # None /\ writes[u].dies # Forever
          => HourOf(writes[u].dies) \in Hours
  BY DeathHasHour DEF ListInv, TTLTypeOK, Write
<1>13. WritesAreListed'
  <2> SUFFICES ASSUME NEW u \in Writer, writes'[u] # None,
                      writes'[u].key \notin raced', writes'[u].dies # Forever
               PROVE  writes'[u].key \in hours'[HourOf(writes'[u].dies)]
    BY DEF WritesAreListed
  <2>1. CASE writes'[u] = writes[u] /\ writes[u] # None
    BY <2>1, <1>8, <1>11, <1>12 DEF ListInv, WritesAreListed
  <2>2. CASE writes'[u].key = k /\ writes'[u].dies = t
    BY <2>2, <1>9, <1>6
  <2> QED
    BY <2>1, <2>2, <1>10
<1>14. CleaningTellsRaced'
  <2> SUFFICES ASSUME cleaning.hour # None PROVE CleaningTellsRaced'
    BY <1>3 DEF CleaningTellsRaced
  <2>1. ASSUME NEW u \in Writer, writes'[u] # None,
               writes'[u].key \notin raced', writes'[u].dies # Forever
        PROVE  HourOf(writes'[u].dies) # cleaning.hour
    <3>1. CASE writes'[u] = writes[u] /\ writes[u] # None
      BY <2>1, <3>1, <1>11 DEF ListInv, CleaningTellsRaced
    <3>2. CASE writes'[u].key = k /\ writes'[u].dies = t
      BY <2>1, <3>2, <1>3, <1>6
    <3> QED
      BY <2>1, <3>1, <3>2, <1>10
  <2>2. \A j \in Key \ raced' :
           dies[j] \notin {None, Forever} /\ HourOf(dies[j]) = cleaning.hour
              => j \in cleaning.keys
    BY <1>11 DEF ListInv, CleaningTellsRaced
  <2> QED
    BY <2>1, <2>2, <1>3 DEF CleaningTellsRaced
<1>15. DyingKeysAreListed'
  <2> SUFFICES ASSUME NEW j \in Key \ raced, dies[j] \notin {None, Forever}
               PROVE  j \in hours'[HourOf(dies[j])]
    BY <1>3, <1>11 DEF DyingKeysAreListed
  <2>1. HourOf(dies[j]) \in Hours
    BY DeathHasHour DEF ListInv, TTLTypeOK
  <2> QED
    BY <2>1, <1>8 DEF ListInv, DyingKeysAreListed
<1> QED
  BY <1>7, <1>13, <1>14, <1>15 DEF ListInv

LEMMA StoreValueList ==
    ASSUME ListInv, NEW w \in Writer, StoreValue(w)
    PROVE  ListInv'
<1>1. writes[w] \in Write /\ writes[w].key \in Key
  BY DEF ListInv, TTLTypeOK, StoreValue, Write
<1>2. writes[w].dies \in {None, Forever} \cup 0..(MaxTime + MaxTtl)
  BY <1>1 DEF Write
<1>3. TTLTypeOK'
  BY <1>1, <1>2 DEF ListInv, TTLTypeOK, StoreValue
<1>4. \A k \in Key : dies'[k] = dies[k] \/ (k = writes[w].key /\ dies'[k] = writes[w].dies)
  BY DEF ListInv, TTLTypeOK, StoreValue
<1>5. \A u \in Writer : writes'[u] # None => writes'[u] = writes[u]
  BY DEF ListInv, TTLTypeOK, StoreValue
<1>6. UNCHANGED <<now, hours, cleaning, raced, again>> /\ writes[w] # None
  BY DEF StoreValue
<1>7. WritesAreListed'
  BY <1>5, <1>6 DEF ListInv, WritesAreListed
<1>8. CleaningTellsRaced'
  BY <1>4, <1>5, <1>6 DEF ListInv, CleaningTellsRaced
<1>9. DyingKeysAreListed'
  BY <1>4, <1>6 DEF ListInv, WritesAreListed, DyingKeysAreListed
<1> QED
  BY <1>3, <1>7, <1>8, <1>9 DEF ListInv

LEMMA DeleteKeyList ==
    ASSUME ListInv, NEW k \in Key,
           dies' = [dies EXCEPT ![k] = None],
           UNCHANGED <<now, hours, writes, raced, again>>,
           \/ cleaning' = cleaning
           \/ cleaning' = [cleaning EXCEPT !.keys = @ \ {k}]
    PROVE  ListInv'
<1>1. TTLTypeOK'
  BY DEF ListInv, TTLTypeOK
<1>2. \A j \in Key : dies'[j] # None => dies'[j] = dies[j] /\ j # k
  BY DEF ListInv, TTLTypeOK
<1>3. cleaning'.hour = cleaning.hour /\ cleaning.keys \ {k} \subseteq cleaning'.keys
  BY DEF ListInv, TTLTypeOK
<1>4. WritesAreListed'
  BY DEF ListInv, WritesAreListed
<1>5. CleaningTellsRaced'
  BY <1>2, <1>3 DEF ListInv, CleaningTellsRaced
<1>6. DyingKeysAreListed'
  BY <1>2 DEF ListInv, DyingKeysAreListed
<1> QED
  BY <1>1, <1>4, <1>5, <1>6 DEF ListInv

LEMMA TickList ==
    ASSUME ListInv, Tick
    PROVE  ListInv'
<1>1. now' \in 0..MaxTime
  BY TimeAssumption DEF Tick, ListInv, TTLTypeOK
<1> QED
  BY <1>1 DEF Tick, ListInv, TTLTypeOK, WritesAreListed, CleaningTellsRaced,
              DyingKeysAreListed

LEMMA CleanList ==
    ASSUME ListInv, Clean
    PROVE  ListInv'
<1>1. CASE CleanStart
  <2>1. cleaning'.hour = None /\ cleaning' \in
           [todo : SUBSET Hours, hour : Hours \cup {None}, keys : SUBSET Key]
    BY <1>1 DEF CleanStart, Resting
  <2>2. UNCHANGED <<now, hours, dies, writes, raced, again>>
    BY <1>1 DEF CleanStart
  <2> QED
    BY <2>1, <2>2 DEF ListInv, TTLTypeOK, WritesAreListed, CleaningTellsRaced,
                      DyingKeysAreListed
<1>2. ASSUME NEW h \in cleaning.todo, CleanHour(h) PROVE ListInv'
  <2>1. h \in Hours
    BY <1>2 DEF ListInv, TTLTypeOK
  <2>2. /\ cleaning'.hour = h /\ cleaning'.keys = hours[h]
        /\ raced \subseteq raced'
        /\ UNCHANGED <<now, hours, dies, writes, again>>
    BY <1>2 DEF CleanHour
  <2>3. TTLTypeOK'
    <3>1. raced' \subseteq Key
      BY <1>2 DEF CleanHour, ListInv, TTLTypeOK
    <3>2. cleaning' = [todo |-> cleaning.todo \ {h}, hour |-> h, keys |-> hours[h]]
      BY <1>2 DEF CleanHour
    <3>3. hours[h] \subseteq Key /\ cleaning.todo \ {h} \subseteq Hours
      BY <2>1 DEF ListInv, TTLTypeOK
    <3> QED
      BY <2>1, <2>2, <3>1, <3>2, <3>3 DEF ListInv, TTLTypeOK
  <2>4. \A u \in Writer :
           writes[u] # None /\ writes[u].dies # Forever /\ HourOf(writes[u].dies) = h
              => writes[u].key \in raced'
    BY <1>2 DEF CleanHour, ListInv, TTLTypeOK, Write
  <2>5. WritesAreListed'
    BY <2>2 DEF ListInv, WritesAreListed
  <2>6. CleaningTellsRaced'
    BY <2>2, <2>4 DEF ListInv, DyingKeysAreListed, CleaningTellsRaced
  <2>7. DyingKeysAreListed'
    BY <2>2 DEF ListInv, DyingKeysAreListed
  <2> QED
    BY <2>3, <2>5, <2>6, <2>7 DEF ListInv
<1>3. ASSUME NEW k \in cleaning.keys, CleanKey(k) PROVE ListInv'
  BY <1>3, DeleteKeyList DEF CleanKey, ListInv, TTLTypeOK
<1>4. CASE DropHour
  <2>1. cleaning.hour \in Hours /\ cleaning.keys = {} /\ cleaning'.hour = None
    BY <1>4 DEF DropHour, ListInv, TTLTypeOK
  <2>2. UNCHANGED <<now, dies, writes, raced, again>>
    BY <1>4 DEF DropHour
  <2>3. \A h \in Hours : h # cleaning.hour => hours'[h] = hours[h]
    BY <1>4 DEF DropHour, ListInv, TTLTypeOK
  <2>4. TTLTypeOK'
    BY <1>4 DEF DropHour, ListInv, TTLTypeOK
  <2>5. WritesAreListed'
    <3> SUFFICES ASSUME NEW w \in Writer, writes[w] # None, writes[w].key \notin raced,
                        writes[w].dies # Forever
                 PROVE  writes[w].key \in hours'[HourOf(writes[w].dies)]
      BY <2>2 DEF WritesAreListed
    <3>1. HourOf(writes[w].dies) # cleaning.hour
      BY <1>4 DEF ListInv, CleaningTellsRaced, DropHour
    <3>2. HourOf(writes[w].dies) \in Hours
      BY DeathHasHour DEF ListInv, TTLTypeOK, Write
    <3> QED
      BY <3>1, <3>2, <2>3 DEF ListInv, WritesAreListed
  <2>6. CleaningTellsRaced'
    BY <2>1 DEF CleaningTellsRaced
  <2>7. DyingKeysAreListed'
    <3> SUFFICES ASSUME NEW k \in Key \ raced, dies[k] \notin {None, Forever}
                 PROVE  k \in hours'[HourOf(dies[k])]
      BY <2>2 DEF DyingKeysAreListed
    <3>1. HourOf(dies[k]) # cleaning.hour
      BY <1>4, <2>1 DEF ListInv, CleaningTellsRaced, DropHour
    <3>2. HourOf(dies[k]) \in Hours
      BY DeathHasHour DEF ListInv, TTLTypeOK
    <3> QED
      BY <3>1, <3>2, <2>3 DEF ListInv, DyingKeysAreListed
  <2> QED
    BY <2>4, <2>5, <2>6, <2>7 DEF ListInv
<1> QED
  BY <1>1, <1>2, <1>3, <1>4 DEF Clean

-----------------------------------------------------------------------------
\* Every operation keeps the one put of the keys outside again.
LEMMA SetTtlOne ==
    ASSUME ListInv, OneInv, NEW w \in Writer, NEW k \in Key, NEW ttl \in 0..MaxTtl,
           SetTtl(w, k, ttl)
    PROVE  OneInv'
<1> DEFINE t == IF ttl = 0 THEN Forever ELSE now + ttl
<1>1. /\ writes' = [writes EXCEPT ![w] = [key |-> k, dies |-> t]]
      /\ hours' = IF ttl = 0 THEN hours ELSE [hours EXCEPT ![HourOf(t)] = @ \cup {k}]
      /\ UNCHANGED <<now, dies, cleaning>>
      /\ again \subseteq again'
      /\ writes[w] = None
  BY DEF SetTtl
<1>2. ttl # 0 => t # Forever
  BY TimeAssumption DEF Forever, ListInv, TTLTypeOK
<1> HIDE DEF t
<1>3. \A j \in Key, h \in Hours : j # k /\ j \in hours'[h] => j \in hours[h]
  BY <1>1 DEF ListInv, TTLTypeOK
<1>4. \A u \in Writer : u # w => writes'[u] = writes[u]
  BY <1>1 DEF ListInv, TTLTypeOK
<1>5. writes'[w] # None => writes'[w].key = k /\ writes'[w].dies = t
  BY <1>1 DEF ListInv, TTLTypeOK
<1>6. ASSUME NEW j \in Key \ again', j # k PROVE OnePut(j)'
  <2>1. OnePut(j)
    BY <1>1, <1>6 DEF OneInv
  <2> QED
    BY <2>1, <1>1, <1>3, <1>4, <1>5, <1>6 DEF OnePut
<1>7. ASSUME k \notin again' PROVE OnePut(k)'
  <2>1. /\ dies[k] = None
        /\ \A h \in Hours : k \notin hours[h]
        /\ k \notin cleaning.keys
        /\ \A u \in Writer : writes[u] # None => writes[u].key # k
    BY <1>7 DEF SetTtl
  <2>2. \A h \in Hours : k \in hours'[h] => ttl # 0 /\ h = HourOf(t)
    BY <2>1, <1>1 DEF ListInv, TTLTypeOK
  <2>3. \A u \in Writer : writes'[u] # None /\ writes'[u].key = k => u = w
    BY <2>1, <1>4
  <2> QED
    BY <2>1, <2>2, <2>3, <1>1, <1>2, <1>5 DEF OnePut, DiesIn
<1> QED
  BY <1>6, <1>7 DEF OneInv

LEMMA StoreValueOne ==
    ASSUME ListInv, OneInv, NEW w \in Writer, StoreValue(w)
    PROVE  OneInv'
<1>1. writes[w] \in Write /\ writes[w] # None
  BY DEF ListInv, TTLTypeOK, StoreValue
<1>2. UNCHANGED <<now, hours, cleaning, raced, again>>
  BY DEF StoreValue
<1>3. \A u \in Writer : u # w => writes'[u] = writes[u]
  BY DEF ListInv, TTLTypeOK, StoreValue
<1>4. writes'[w] = None
  BY DEF ListInv, TTLTypeOK, StoreValue
<1>5. \A j \in Key : j # writes[w].key => dies'[j] = dies[j]
  BY DEF ListInv, TTLTypeOK, StoreValue
<1>6. dies'[writes[w].key] = writes[w].dies
  BY <1>1 DEF ListInv, TTLTypeOK, StoreValue, Write
<1>7. ASSUME NEW j \in Key \ again PROVE OnePut(j)'
  <2>1. OnePut(j)
    BY <1>7 DEF OneInv
  <2>2. CASE j # writes[w].key
    BY <2>1, <2>2, <1>2, <1>3, <1>4, <1>5 DEF OnePut
  <2>3. CASE j = writes[w].key
    <3>1. \A u \in Writer : writes'[u] # None => writes'[u].key # j
      BY <2>1, <2>3, <1>1, <1>3, <1>4 DEF OnePut
    <3>2. \A h \in Hours : j \in hours[h] => DiesIn(writes[w].dies, h)
      BY <2>1, <2>3, <1>1 DEF OnePut
    <3>3. j \in cleaning.keys => DiesIn(writes[w].dies, cleaning.hour)
      BY <2>1, <2>3, <1>1 DEF OnePut
    <3> QED
      BY <3>1, <3>2, <3>3, <2>3, <1>2, <1>6 DEF OnePut
  <2> QED
    BY <2>2, <2>3
<1> QED
  BY <1>2, <1>7 DEF OneInv

\* A step after which there are no more entries, values and keys to clean than before.
LEMMA LessOne ==
    ASSUME OneInv,
           UNCHANGED <<writes, again>>,
           \A h \in Hours : hours'[h] \subseteq hours[h],
           \A k \in Key : dies'[k] \in {None, dies[k]},
           cleaning'.keys \subseteq cleaning.keys,
           cleaning'.hour = cleaning.hour \/ cleaning'.keys = {}
    PROVE  OneInv'
<1> SUFFICES ASSUME NEW k \in Key \ again PROVE OnePut(k)'
  BY DEF OneInv
<1>1. OnePut(k)
  BY DEF OneInv
<1> QED
  BY <1>1 DEF OnePut

LEMMA DeleteKeyOne ==
    ASSUME ListInv, OneInv, NEW k \in Key,
           dies' = [dies EXCEPT ![k] = None],
           UNCHANGED <<now, hours, writes, raced, again>>,
           \/ cleaning' = cleaning
           \/ cleaning' = [cleaning EXCEPT !.keys = @ \ {k}]
    PROVE  OneInv'
<1>1. \A j \in Key : dies'[j] \in {None, dies[j]}
  BY DEF ListInv, TTLTypeOK
<1>2. cleaning'.keys \subseteq cleaning.keys /\ cleaning'.hour = cleaning.hour
  BY DEF ListInv, TTLTypeOK
<1> QED
  BY <1>1, <1>2, LessOne

LEMMA CleanOne ==
    ASSUME ListInv, OneInv, Clean
    PROVE  OneInv'
<1>1. CASE CleanStart
  <2>1. cleaning'.keys = {}
    BY <1>1 DEF CleanStart, Resting
  <2>2. UNCHANGED <<hours, dies, writes, again>>
    BY <1>1 DEF CleanStart
  <2> QED
    BY <2>1, <2>2, LessOne
<1>2. ASSUME NEW h \in cleaning.todo, CleanHour(h) PROVE OneInv'
  <2>1. h \in Hours
    BY <1>2 DEF ListInv, TTLTypeOK
  <2>2. cleaning'.hour = h /\ cleaning'.keys = hours[h]
    BY <1>2 DEF CleanHour
  <2>3. UNCHANGED <<hours, dies, writes, again>>
    BY <1>2 DEF CleanHour
  <2>4. ASSUME NEW k \in Key \ again PROVE OnePut(k)'
    <3>1. OnePut(k)
      BY <2>4 DEF OneInv
    <3> QED
      BY <2>1, <2>2, <2>3, <3>1 DEF OnePut
  <2> QED
    BY <2>3, <2>4 DEF OneInv
<1>3. ASSUME NEW k \in cleaning.keys, CleanKey(k) PROVE OneInv'
  BY <1>3, DeleteKeyOne DEF CleanKey, ListInv, TTLTypeOK
<1>4. CASE DropHour
  <2>1. cleaning'.keys = {}
    BY <1>4 DEF DropHour, ListInv, TTLTypeOK
  <2>2. \A h \in Hours : hours'[h] \subseteq hours[h]
    BY <1>4 DEF DropHour, ListInv, TTLTypeOK
  <2>3. UNCHANGED <<dies, writes, again>> /\ cleaning.keys = {}
    BY <1>4 DEF DropHour
  <2> QED
    BY <2>1, <2>2, <2>3, LessOne
<1> QED
  BY <1>1, <1>2, <1>3, <1>4 DEF Clean

-----------------------------------------------------------------------------
\* Only the cleaning and the clock touch what the cleaning works at.
LEMMA TickLimit ==
    ASSUME ListInv, LimitInv, Tick
    PROVE  LimitInv'
<1>1. now \in Nat /\ now' = now + 1 /\ cleaning' = cleaning
  BY TimeAssumption DEF ListInv, TTLTypeOK, Tick
<1>2. HourOf(now) \in Nat /\ HourOf(now') \in Nat /\ HourOf(now) <= HourOf(now')
  BY <1>1, HourFacts
<1>3. \A h \in Hours : h \in Nat
  BY TimeAssumption, HourFacts DEF Hours
<1>4. cleaning.todo \subseteq Hours /\ (cleaning.hour # None => cleaning.hour \in Hours)
  BY DEF ListInv, TTLTypeOK
<1> QED
  BY <1>1, <1>2, <1>3, <1>4 DEF LimitInv

LEMMA CleanLimitInv ==
    ASSUME ListInv, LimitInv, Clean
    PROVE  LimitInv'
<1>1. CASE CleanStart
  <2>1. now \in Nat /\ now' = now
    BY <1>1, TimeAssumption DEF ListInv, TTLTypeOK, CleanStart
  <2>2. HourOf(now) \in Nat /\ CleanLimit(now) = HourOf(now) + 1
    BY <2>1, HourFacts
  <2>3. \A h \in Hours : h \in Nat
    BY TimeAssumption, HourFacts DEF Hours
  <2>4. \A h \in cleaning'.todo : h \in Hours /\ h < CleanLimit(now)
    BY <1>1 DEF CleanStart, Resting
  <2>5. cleaning'.hour = None /\ cleaning'.keys = {}
    BY <1>1 DEF CleanStart, Resting
  <2> QED
    BY <2>1, <2>2, <2>3, <2>4, <2>5 DEF LimitInv
<1>2. ASSUME NEW h \in cleaning.todo, CleanHour(h) PROVE LimitInv'
  <2>1. h # None /\ h <= HourOf(now)
    BY <1>2, TtlNoneAssumption, TimeAssumption, HourFacts
       DEF ListInv, TTLTypeOK, LimitInv, Hours
  <2>2. /\ cleaning'.hour = h /\ cleaning'.todo \subseteq cleaning.todo
        /\ now' = now
    BY <1>2 DEF CleanHour
  <2> QED
    BY <2>1, <2>2 DEF LimitInv
<1>3. ASSUME NEW k \in cleaning.keys, CleanKey(k) PROVE LimitInv'
  <2>1. /\ cleaning'.hour = cleaning.hour /\ cleaning'.todo = cleaning.todo
        /\ cleaning'.keys \subseteq cleaning.keys /\ now' = now
    BY <1>3 DEF CleanKey, ListInv, TTLTypeOK
  <2> QED
    BY <2>1 DEF LimitInv
<1>4. CASE DropHour
  <2>1. /\ cleaning'.hour = None /\ cleaning'.todo = cleaning.todo
        /\ cleaning'.keys = {} /\ now' = now
    BY <1>4 DEF DropHour, ListInv, TTLTypeOK
  <2> QED
    BY <2>1 DEF LimitInv
<1> QED
  BY <1>1, <1>2, <1>3, <1>4 DEF Clean

-----------------------------------------------------------------------------
\* All together: the operations that modules are made of.
LEMMA SetTtlInv ==
    ASSUME ListInv, OneInv, LimitInv, NEW w \in Writer, NEW k \in Key,
           NEW ttl \in 0..MaxTtl, SetTtl(w, k, ttl)
    PROVE  ListInv' /\ OneInv' /\ LimitInv'
<1>1. now' = now /\ cleaning' = cleaning
  BY DEF SetTtl
<1> QED
  BY <1>1, SetTtlList, SetTtlOne DEF LimitInv

LEMMA StoreValueInv ==
    ASSUME ListInv, OneInv, LimitInv, NEW w \in Writer, StoreValue(w)
    PROVE  ListInv' /\ OneInv' /\ LimitInv'
<1>1. now' = now /\ cleaning' = cleaning
  BY DEF StoreValue
<1> QED
  BY <1>1, StoreValueList, StoreValueOne DEF LimitInv

LEMMA DeleteKeyInv ==
    ASSUME ListInv, OneInv, LimitInv, NEW k \in Key, DeleteKey(k)
    PROVE  ListInv' /\ OneInv' /\ LimitInv'
<1>1. /\ dies' = [dies EXCEPT ![k] = None] /\ cleaning' = cleaning
      /\ UNCHANGED <<now, hours, writes, raced, again>>
  BY DEF DeleteKey
<1> QED
  BY <1>1, DeleteKeyList, DeleteKeyOne DEF LimitInv

LEMMA TickInv ==
    ASSUME ListInv, OneInv, LimitInv, Tick
    PROVE  ListInv' /\ OneInv' /\ LimitInv'
<1>1. UNCHANGED <<hours, dies, writes, cleaning, raced, again>>
  BY DEF Tick
<1>2. OneInv'
  BY <1>1, LessOne
<1> QED
  BY <1>2, TickList, TickLimit

LEMMA CleanInv ==
    ASSUME ListInv, OneInv, LimitInv, Clean
    PROVE  ListInv' /\ OneInv' /\ LimitInv'
BY CleanList, CleanOne, CleanLimitInv

\* What DeletedInItsHour says of a step.
DeletesInHour ==
    \A k \in cleaning.keys \ cleaning'.keys :
        dies[k] # None /\ k \notin again =>
           dies[k] # Forever /\ HourOf(dies[k]) <= HourOf(now)

LEMMA InHour ==
    ASSUME ListInv, OneInv, LimitInv
    PROVE  DeletesInHour
<1> SUFFICES ASSUME NEW k \in cleaning.keys, dies[k] # None, k \notin again
             PROVE  dies[k] # Forever /\ HourOf(dies[k]) <= HourOf(now)
  BY DEF DeletesInHour
<1>1. DiesIn(dies[k], cleaning.hour)
  BY DEF OneInv, OnePut, ListInv, TTLTypeOK
<1> QED
  BY <1>1 DEF LimitInv, DiesIn
=============================================================================
