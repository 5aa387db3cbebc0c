--------------------------- MODULE EventLogProofs ---------------------------
(***************************************************************************)
(* The ids of the event log are unique, and the log keeps to its capacity, *)
(* for any events and any capacity.  That ids are different says nothing   *)
(* of the next one: the invariant adds that all are below the counter.     *)
(***************************************************************************)
EXTENDS EventLog, TLAPS

Records == [event : Events, id : Nat]

LogTypes ==
  /\ spawned \subseteq Events
  /\ numbered \subseteq Records
  /\ store \in Seq(Records)
  /\ nextId \in Nat

IdsTaken ==
  /\ \A r \in numbered : r.id < nextId
  /\ \A i \in 1..Len(store) : store[i].id < nextId

LogInv == LogTypes /\ IdsTaken /\ UniqueIds

\* What eviction leaves: the store, or all of it but the first event, moved by
\* one place; there is room for one more.
LEMMA RoomTypes ==
  ASSUME store \in Seq(Records), Len(store) <= Capacity
  PROVE  /\ Room \in Seq(Records) /\ Len(Room) < Capacity
         /\ \E d \in {0, 1} : /\ Len(Room) = Len(store) - d
                              /\ \A i \in 1..Len(Room) : i + d \in 1..Len(store) /\ Room[i] = store[i + d]
<1>1. CASE Len(store) = Capacity
  <2>1. store # <<>>
    BY <1>1, LogAssumption
  <2>2. /\ Room = Tail(store) /\ Tail(store) \in Seq(Records)
        /\ Len(Tail(store)) = Len(store) - 1
        /\ \A i \in 1..Len(Tail(store)) : Tail(store)[i] = store[i + 1]
    BY <1>1, <2>1 DEF Room
  <2> QED BY <1>1, <2>2, LogAssumption
<1>2. CASE Len(store) # Capacity
  BY <1>2, LogAssumption DEF Room
<1> QED BY <1>1, <1>2

LEMMA NumberKeeps ==
  ASSUME LogInv, NEW e \in Events, Number(e)
  PROVE  LogInv'
<1>1. /\ nextId \in Nat /\ nextId' = nextId + 1 /\ store' = store
      /\ \A r \in numbered' : r \in numbered \/ r = [event |-> e, id |-> nextId]
  BY DEF LogInv, LogTypes, Number
<1>2. LogTypes'
  BY DEF LogInv, LogTypes, Records, Number
<1>3. /\ \A r \in numbered : r.id \in Nat /\ r.id < nextId
      /\ \A i \in 1..Len(store) : store[i].id \in Nat /\ store[i].id < nextId
      /\ DOMAIN store = 1..Len(store)
  <2>1. \A r \in Records : r.id \in Nat
    BY DEF Records
  <2>2. numbered \subseteq Records /\ store \in Seq(Records)
    BY DEF LogInv, LogTypes
  <2>3. DOMAIN store = 1..Len(store) /\ \A i \in 1..Len(store) : store[i] \in Records
    BY <2>2
  <2> QED BY <2>1, <2>2, <2>3 DEF LogInv, IdsTaken
<1>4. IdsTaken'
  <2>1. \A r \in numbered' : r.id < nextId'
    BY <1>1, <1>3
  <2>2. \A i \in 1..Len(store') : store'[i].id < nextId'
    BY <1>1, <1>3
  <2> QED BY <2>1, <2>2 DEF IdsTaken
<1>5. UniqueIds'
  BY <1>1, <1>3 DEF LogInv, UniqueIds
<1> QED BY <1>2, <1>4, <1>5 DEF LogInv

LEMMA KeepKeeps ==
  ASSUME LogInv, NEW r \in numbered, Keep(r)
  PROVE  LogInv'
<1>1. r \in Records /\ Len(store) <= Capacity /\ store \in Seq(Records)
  BY DEF LogInv, LogTypes, UniqueIds
<1>2. PICK d \in {0, 1} :
        /\ Room \in Seq(Records) /\ Len(Room) < Capacity
        /\ Len(Room) = Len(store) - d
        /\ \A i \in 1..Len(Room) : i + d \in 1..Len(store) /\ Room[i] = store[i + d]
  BY <1>1, RoomTypes
<1>3. /\ store' \in Seq(Records) /\ Len(store') = Len(Room) + 1
      /\ \A i \in 1..Len(Room) : store'[i] = Room[i]
      /\ store'[Len(Room) + 1] = r
  BY <1>1, <1>2 DEF Keep
<1>4. numbered' = numbered \ {r} /\ nextId' = nextId /\ spawned' = spawned
  BY DEF Keep
<1>5. LogTypes'
  BY <1>3, <1>4 DEF LogInv, LogTypes
<1>6. \A i \in 1..Len(store') : \/ i = Len(Room) + 1 /\ store'[i] = r
                                \/ /\ i \in 1..Len(Room) /\ i + d \in 1..Len(store)
                                   /\ store'[i] = store[i + d]
  BY <1>2, <1>3
<1>7. IdsTaken'
  BY <1>4, <1>6 DEF LogInv, IdsTaken
<1>8. UniqueIds'
  <2>1. Len(store') <= Capacity
    BY <1>2, <1>3, LogAssumption
  <2>2. DOMAIN store = 1..Len(store) /\ DOMAIN store' = 1..Len(store')
    BY <1>1, <1>3
  <2>3. /\ \A i, j \in 1..Len(store) : store[i].id = store[j].id => i = j
        /\ \A i \in 1..Len(store) : store[i].id # r.id
    BY <2>2 DEF LogInv, UniqueIds
  <2>4. ASSUME NEW i \in 1..Len(store'), NEW j \in 1..Len(store'), store'[i].id = store'[j].id
        PROVE  i = j
    <3>1. CASE i = Len(Room) + 1 /\ j = Len(Room) + 1
      BY <3>1
    <3>2. CASE i # Len(Room) + 1 /\ j # Len(Room) + 1
      <4>1. i + d \in 1..Len(store) /\ store'[i] = store[i + d]
        BY <1>6, <3>2
      <4>2. j + d \in 1..Len(store) /\ store'[j] = store[j + d]
        BY <1>6, <3>2
      <4>3. store[i + d].id = store[j + d].id
        BY <2>4, <4>1, <4>2
      <4>4. i + d = j + d
        BY <2>3, <4>1, <4>2, <4>3
      <4>5. i \in Nat /\ j \in Nat /\ d \in Nat
        BY <1>1, <1>3
      <4> QED BY <4>4, <4>5
    <3>3. CASE i = Len(Room) + 1 /\ j # Len(Room) + 1
      <4>1. j + d \in 1..Len(store) /\ store'[j] = store[j + d]
        BY <1>6, <3>3
      <4>2. store'[i].id = r.id
        BY <1>3, <3>3
      <4> QED BY <2>3, <2>4, <4>1, <4>2
    <3>4. CASE i # Len(Room) + 1 /\ j = Len(Room) + 1
      <4>1. i + d \in 1..Len(store) /\ store'[i] = store[i + d]
        BY <1>6, <3>4
      <4>2. store'[j].id = r.id
        BY <1>3, <3>4
      <4> QED BY <2>3, <2>4, <4>1, <4>2
    <3> QED BY <3>1, <3>2, <3>3, <3>4
  <2>5. \A p, q \in numbered' : p.id = q.id => p = q
    BY <1>4 DEF LogInv, UniqueIds
  <2>6. \A i \in 1..Len(store'), p \in numbered' : store'[i].id # p.id
    BY <1>4, <1>6, <2>2 DEF LogInv, UniqueIds
  <2> QED BY <2>1, <2>2, <2>4, <2>5, <2>6 DEF UniqueIds
<1> QED BY <1>5, <1>7, <1>8 DEF LogInv

LEMMA LogInvKept == LogInv /\ [LogNext]_logVars => LogInv'
<1> SUFFICES ASSUME LogInv, [LogNext]_logVars PROVE LogInv'
  OBVIOUS
<1>1. CASE UNCHANGED logVars
  BY <1>1 DEF logVars, LogInv, LogTypes, IdsTaken, UniqueIds
<1>2. ASSUME NEW e \in Events, Publish(e) PROVE LogInv'
  BY <1>2 DEF Publish, LogInv, LogTypes, IdsTaken, UniqueIds
<1>3. ASSUME NEW e \in spawned, Number(e) PROVE LogInv'
  BY <1>3, NumberKeeps DEF LogInv, LogTypes
<1>4. ASSUME NEW r \in numbered, Keep(r) PROVE LogInv'
  BY <1>4, KeepKeeps
<1>5. CASE LogRestart
  BY <1>5, LogAssumption DEF LogRestart, LogInv, LogTypes, IdsTaken, UniqueIds
<1> QED BY <1>1, <1>2, <1>3, <1>4, <1>5 DEF LogNext, LogTask

\* Two events never share an id, and the store never grows past its capacity,
\* whatever the order in which publish() calls get a number and the lock.
THEOREM IdsAreUnique == LogSpec => []UniqueIds
<1>1. LogInit => LogInv
  BY LogAssumption DEF LogInit, LogInv, LogTypes, IdsTaken, UniqueIds
<1>2. LogInv => UniqueIds
  BY DEF LogInv
<1> QED BY <1>1, <1>2, LogInvKept, PTL DEF LogSpec
=============================================================================
