------------------------------ MODULE EventLog ------------------------------
(***************************************************************************)
(* EventBus and EventStore of src/events.rs: every part of the program     *)
(* publishes events, and the API reads the last ones back.                 *)
(*                                                                         *)
(* publish() spawns a task and returns.  The task takes a number from a    *)
(* counter, waits for the lock of the store, and appends the event, whose  *)
(* id is its number next to its timestamp; the oldest event makes room.    *)
(* Tasks run in any order, so that neither the numbers nor the store need  *)
(* follow the order of the calls.  Left out: the broadcast to subscribers, *)
(* which follows the append, and what an event says.                       *)
(***************************************************************************)
EXTENDS Naturals, Sequences

CONSTANTS
  Events,    \* the events that may be published, each once
  Capacity   \* events.capacity

ASSUME LogAssumption == Capacity \in Nat \ {0}

VARIABLES
  spawned,   \* the events whose task has no number yet
  numbered,  \* the records [event, id] that wait for the lock
  store,     \* EventStore.events
  nextId     \* EventStore.next_id

logVars == <<spawned, numbered, store, nextId>>

LogInit == spawned = {} /\ numbered = {} /\ store = <<>> /\ nextId = 1

Publish(e) ==
  /\ spawned' = spawned \cup {e}
  /\ UNCHANGED <<numbered, store, nextId>>

\* Mutant: the number is where the event will be in the store.
NumberByLength(e) ==
  /\ e \in spawned
  /\ spawned' = spawned \ {e}
  /\ numbered' = numbered \cup {[event |-> e, id |-> Len(store) + 1]}
  /\ nextId' = nextId + 1
  /\ UNCHANGED store

\* fetch_add(), before the lock.
Number(e) ==
  /\ e \in spawned
  /\ spawned' = spawned \ {e}
  /\ numbered' = numbered \cup {[event |-> e, id |-> nextId]}
  /\ nextId' = nextId + 1
  /\ UNCHANGED store

Room == IF Len(store) = Capacity THEN Tail(store) ELSE store

Keep(r) ==
  /\ r \in numbered
  /\ numbered' = numbered \ {r}
  /\ store' = Append(Room, r)
  /\ UNCHANGED <<spawned, nextId>>

\* The log is in memory only.
LogRestart == spawned' = {} /\ numbered' = {} /\ store' = <<>> /\ nextId' = 1

LogTask == (\E e \in spawned : Number(e)) \/ (\E r \in numbered : Keep(r))
LogNext == (\E e \in Events : Publish(e)) \/ LogTask \/ LogRestart
LogSpec == LogInit /\ [][LogNext]_logVars

\* The ids of the events that are stored or about to be are different, so that
\* GET /events/{id} names one event, whatever the order in which the tasks got
\* their numbers and the lock; and the store keeps to its capacity.
UniqueIds ==
  /\ Len(store) <= Capacity
  /\ \A i, j \in DOMAIN store : store[i].id = store[j].id => i = j
  /\ \A r, s \in numbered : r.id = s.id => r = s
  /\ \A i \in DOMAIN store, r \in numbered : store[i].id # r.id
=============================================================================
