------------------------- MODULE NodeRegistryProofs -------------------------
(***************************************************************************)
(* Safety of the node registry and of its synchronisation, for any number  *)
(* of nodes, any TTL and intervals, and timers late by any bound.          *)
(*                                                                         *)
(* An entry carries the age of the last beat (Aged), a node heard within   *)
(* its TTL has one (Kept), and the silence of a scheduled node is paid for *)
(* by the time its synchronisation timer has run down (Paid).              *)
(***************************************************************************)
EXTENDS NodeRegistry, TLAPS

Aged == \A n \in NodeIds :
            Registered(n) => \/ entries[n].age = heard[n]
                             \/ entries[n].age = TTL /\ heard[n] >= TTL
Kept == \A n \in NodeIds : heard[n] < TTL => Registered(n)
Paid == \A n \in DOMAIN sched : heard[n] + syncIn < TTL + SyncInterval
Empty == first => DOMAIN sched = {}

IInv == TypeOK /\ Aged /\ Kept /\ Paid /\ Empty

-----------------------------------------------------------------------------
LEMMA Constants ==
    /\ TTL \in Nat /\ 0 < TTL /\ SyncInterval \in Nat /\ 0 < SyncInterval
    /\ CleanupInterval \in Nat /\ MaxLate \in Nat
    /\ Horizon \in Nat /\ TTL <= Horizon /\ Horizon = TTL + SyncInterval + MaxLate
    /\ None \notin Entry
  BY RegistryAssumption DEF Positive, Horizon, Entry

LEMMA InitIInv == Init => IInv
<1> SUFFICES ASSUME Init PROVE IInv
  OBVIOUS
<1>1. TypeOK
  BY Constants DEF Init, TypeOK
<1>2. Aged /\ Kept /\ Paid /\ Empty
  BY Constants DEF Init, Aged, Kept, Paid, Empty, Registered
<1>3. QED
  BY <1>1, <1>2 DEF IInv

(* A message from n renews its entry and touches no other.                 *)
LEMMA BeatIInv ==
    ASSUME IInv, NEW n \in NodeIds, NEW entry \in Entry, entry.age = 0,
           entries' = [entries EXCEPT ![n] = entry],
           heard' = [heard EXCEPT ![n] = 0],
           UNCHANGED <<sched, first, cleanupIn, syncIn>>
    PROVE  IInv'
<1>1. TypeOK'
  BY Constants DEF IInv, TypeOK
<1>2. ASSUME NEW m \in NodeIds
      PROVE  /\ entries'[m] = IF m = n THEN entry ELSE entries[m]
             /\ heard'[m] = IF m = n THEN 0 ELSE heard[m]
             /\ heard[m] \in 0 .. Horizon /\ entry # None
  BY Constants DEF IInv, TypeOK
<1>3. Aged' /\ Kept'
  BY <1>2 DEF IInv, Aged, Kept, Registered
<1>4. ASSUME NEW m \in DOMAIN sched
      PROVE  heard'[m] + syncIn < TTL + SyncInterval
  <2>1. m \in NodeIds /\ syncIn <= SyncInterval /\ syncIn \in Int
    BY Constants DEF IInv, TypeOK
  <2>2. heard[m] + syncIn < TTL + SyncInterval
    BY DEF IInv, Paid
  <2>3. QED
    BY <1>2, <2>1, <2>2, Constants
<1>5. Paid' /\ Empty'
  BY <1>4 DEF IInv, Paid, Empty
<1>6. QED
  BY <1>1, <1>3, <1>5 DEF IInv

LEMMA RegisterEntry ==
    ASSUME NEW n \in NodeIds, NEW caps \in CapSets, RegisterNode(n, caps)
    PROVE  \E entry \in Entry :
               entry.age = 0 /\ entries' = [entries EXCEPT ![n] = entry]
<1>1. [caps |-> caps, age |-> 0] \in Entry
  BY Constants DEF Entry
<1>2. QED
  BY <1>1 DEF RegisterNode

LEMMA HeartbeatEntry ==
    ASSUME TypeOK, NEW n \in NodeIds, NEW declared \in CapSets \cup {None},
           Heartbeat(n, declared)
    PROVE  \E entry \in Entry :
               entry.age = 0 /\ entries' = [entries EXCEPT ![n] = entry]
<1> DEFINE entry == [caps |-> IF declared = None THEN entries[n].caps ELSE declared,
                     age |-> 0]
<1>1. entries[n] \in Entry
  BY DEF TypeOK, Heartbeat, Registered
<1>2. entry \in Entry
  BY <1>1, Constants DEF Entry
<1>3. entries' = [entries EXCEPT ![n] = entry]
  BY DEF Heartbeat, TypeOK
<1>4. QED
  BY <1>2, <1>3

(* Fresh nodes were heard within the TTL, and all those are fresh.         *)
LEMMA FreshIsHeard ==
    ASSUME IInv
    PROVE  Fresh = {n \in NodeIds : heard[n] < TTL}
<1>1. ASSUME NEW n \in NodeIds
      PROVE  n \in Fresh <=> heard[n] < TTL
  <2>1. heard[n] \in Nat /\ (heard[n] < TTL => Registered(n))
    BY Constants DEF IInv, TypeOK, Kept
  <2>2. Registered(n) => \/ entries[n].age = heard[n]
                         \/ entries[n].age = TTL /\ heard[n] >= TTL
    BY DEF IInv, Aged
  <2>3. n \in Fresh <=> Registered(n) /\ entries[n].age < TTL
    BY DEF Fresh
  <2>4. CASE Registered(n)
    BY <2>1, <2>2, <2>3, <2>4, Constants
  <2>5. CASE ~Registered(n)
    BY <2>1, <2>3, <2>5
  <2>6. QED
    BY <2>4, <2>5
<1>2. QED
  BY <1>1 DEF Fresh

LEMMA CleanupIInv ==
    ASSUME IInv, Cleanup
    PROVE  IInv'
<1>1. \A n \in NodeIds : entries'[n] = IF n \in Fresh THEN entries[n] ELSE None
  BY DEF Cleanup
<1>2. TypeOK'
  BY Constants DEF IInv, TypeOK, Cleanup
<1>3. Aged' /\ Kept'
  BY <1>1, FreshIsHeard DEF IInv, Aged, Kept, Registered, Cleanup
<1>4. Paid' /\ Empty'
  BY DEF IInv, Paid, Empty, Cleanup
<1>5. QED
  BY <1>2, <1>3, <1>4 DEF IInv

(* What a synchronisation leaves, the first with nodes or a later one.     *)
LEMMA SyncIInv ==
    ASSUME IInv, sched' = FreshNodes \/ (sched' = sched /\ DOMAIN sched = {}),
           first' = FALSE, syncIn' = SyncInterval,
           UNCHANGED <<entries, cleanupIn, heard>>
    PROVE  IInv'
<1>1. DOMAIN sched' \subseteq Fresh /\ Fresh \subseteq NodeIds
  BY DEF FreshNodes, Fresh
<1>2. sched' \in [DOMAIN sched' -> CapSets]
  <2>1. CASE sched' = FreshNodes
    <3>1. \A n \in Fresh : entries[n].caps \in CapSets
      BY DEF IInv, TypeOK, Fresh, Registered, Entry
    <3>2. QED
      BY <2>1, <3>1 DEF FreshNodes
  <2>2. CASE sched' = sched
    BY <2>2 DEF IInv, TypeOK
  <2>3. QED
    BY <2>1, <2>2
<1>3. TypeOK'
  <2>1. TypeOK
    BY DEF IInv
  <2>2. entries' = entries /\ heard' = heard /\ cleanupIn' = cleanupIn
    OBVIOUS
  <2>3. DOMAIN sched' \subseteq NodeIds
    BY <1>1
  <2>4. syncIn' \in -MaxLate .. SyncInterval
    BY Constants
  <2>5. QED
    BY <1>2, <2>1, <2>2, <2>3, <2>4 DEF TypeOK
<1>4. Aged' /\ Kept'
  BY DEF IInv, Aged, Kept, Registered
<1>5. Paid'
  BY <1>1, FreshIsHeard, Constants DEF IInv, TypeOK, Paid
<1>6. QED
  BY <1>3, <1>4, <1>5 DEF IInv, Empty

LEMMA TickIInv ==
    ASSUME IInv, Tick
    PROVE  IInv'
<1>1. ASSUME NEW n \in NodeIds
      PROVE  /\ heard'[n] = UpTo(Horizon, heard[n])
             /\ heard[n] \in 0 .. Horizon
             /\ UpTo(Horizon, heard[n]) \in 0 .. Horizon
  BY Constants DEF IInv, TypeOK, Tick, UpTo
<1>2. ASSUME NEW n \in NodeIds, Registered(n)
      PROVE  /\ entries'[n] = [entries[n] EXCEPT !.age = UpTo(TTL, @)]
             /\ entries[n] \in Entry
             /\ entries'[n] \in Entry
             /\ entries'[n].age = UpTo(TTL, entries[n].age)
             /\ entries[n].age \in 0 .. TTL
  <2>1. entries[n] \in Entry /\ entries[n].age \in 0 .. TTL
    BY <1>2 DEF IInv, TypeOK, Registered, Entry
  <2>2. entries'[n] = [entries[n] EXCEPT !.age = UpTo(TTL, @)]
    BY <1>2 DEF Tick
  <2>3. UpTo(TTL, entries[n].age) \in 0 .. TTL
    BY <2>1, Constants DEF UpTo
  <2>4. QED
    BY <2>1, <2>2, <2>3 DEF Entry
<1>3. ASSUME NEW n \in NodeIds, ~Registered(n)
      PROVE  entries'[n] = None
  BY <1>3 DEF Tick
<1>4. \A n \in NodeIds : Registered(n)' <=> Registered(n)
  BY <1>2, <1>3, Constants DEF Registered
<1>5. TypeOK'
  <2>1. entries' \in [NodeIds -> Entry \cup {None}]
    BY <1>2, <1>3 DEF Tick
  <2>2. heard' \in [NodeIds -> 0 .. Horizon]
    BY <1>1 DEF Tick
  <2>3. cleanupIn' \in -MaxLate .. CleanupInterval /\ syncIn' \in -MaxLate .. SyncInterval
    BY Constants DEF IInv, TypeOK, Tick
  <2>4. QED
    BY <2>1, <2>2, <2>3 DEF IInv, TypeOK, Tick
<1>6. Aged'
  <2>1. ASSUME NEW n \in NodeIds, Registered(n)
        PROVE  \/ entries'[n].age = heard'[n]
               \/ entries'[n].age = TTL /\ heard'[n] >= TTL
    <3>1. \/ entries[n].age = heard[n]
          \/ entries[n].age = TTL /\ heard[n] >= TTL
      BY <2>1 DEF IInv, Aged
    <3>2. /\ entries'[n].age = UpTo(TTL, entries[n].age)
          /\ heard'[n] = UpTo(Horizon, heard[n])
          /\ entries[n].age \in 0 .. TTL /\ heard[n] \in 0 .. Horizon
      BY <1>1, <1>2, <2>1
    <3>3. CASE heard[n] < TTL
      <4>1. entries[n].age = heard[n]
        BY <3>1, <3>2, <3>3, Constants
      <4>2. UpTo(TTL, heard[n]) = heard[n] + 1 /\ UpTo(Horizon, heard[n]) = heard[n] + 1
        BY <3>2, <3>3, Constants DEF UpTo
      <4>3. QED
        BY <3>2, <4>1, <4>2
    <3>4. CASE heard[n] >= TTL
      <4>1. entries[n].age = TTL
        BY <3>1, <3>2, <3>4, Constants
      <4>2. UpTo(TTL, TTL) = TTL /\ UpTo(Horizon, heard[n]) >= TTL
        BY <3>2, <3>4, Constants DEF UpTo
      <4>3. QED
        BY <3>2, <4>1, <4>2
    <3>5. QED
      BY <3>2, <3>3, <3>4, Constants
  <2>2. QED
    BY <1>4, <2>1 DEF Aged
<1>7. Kept'
  <2>1. \A n \in NodeIds : heard'[n] < TTL => heard[n] < TTL
    BY <1>1, Constants DEF UpTo
  <2>2. QED
    BY <1>4, <2>1 DEF IInv, Kept
<1>8. Paid'
  <2>1. ASSUME NEW n \in DOMAIN sched
        PROVE  heard'[n] + syncIn' < TTL + SyncInterval
    <3>1. n \in NodeIds /\ syncIn \in Int /\ syncIn' = syncIn - 1
      BY Constants DEF IInv, TypeOK, Tick
    <3>2. heard[n] + syncIn < TTL + SyncInterval
      BY DEF IInv, Paid
    <3>3. QED
      BY <1>1, <3>1, <3>2, Constants DEF UpTo
  <2>2. QED
    BY <2>1 DEF Paid, Tick
<1>9. QED
  BY <1>5, <1>6, <1>7, <1>8 DEF IInv, Empty, Tick

LEMMA NextIInv == IInv /\ [Next]_vars => IInv'
<1> SUFFICES ASSUME IInv, [Next]_vars PROVE IInv'
  OBVIOUS
<1>1. ASSUME NEW n \in NodeIds, NEW caps \in CapSets, RegisterNode(n, caps)
      PROVE  IInv'
  BY <1>1, RegisterEntry, BeatIInv DEF RegisterNode
<1>2. ASSUME NEW n \in NodeIds, NEW declared \in CapSets \cup {None},
             Heartbeat(n, declared)
      PROVE  IInv'
  <2>1. TypeOK
    BY DEF IInv
  <2>2. QED
    BY <1>2, <2>1, HeartbeatEntry, BeatIInv DEF Heartbeat
<1>3. CASE Cleanup
  BY <1>3, CleanupIInv
<1>4. CASE FirstSync
  BY <1>4, SyncIInv DEF FirstSync, IInv, Empty
<1>5. CASE Sync
  <2>1. first \in BOOLEAN
    BY DEF IInv, TypeOK
  <2>2. sched' = FreshNodes /\ syncIn' = SyncInterval /\ first' = FALSE
    BY <1>5, <2>1 DEF Sync, SyncWith
  <2>3. UNCHANGED <<entries, cleanupIn, heard>>
    BY <1>5 DEF Sync, SyncWith
  <2>4. QED
    BY <2>2, <2>3, SyncIInv
<1>6. CASE Tick
  BY <1>6, TickIInv
<1>7. CASE UNCHANGED vars
  BY <1>7 DEF vars, IInv, TypeOK, Aged, Kept, Paid, Empty, Registered
<1>8. QED
  BY <1>1, <1>2, <1>3, <1>4, <1>5, <1>6, <1>7 DEF Next

LEMMA Invariance == Spec => []IInv
  BY InitIInv, NextIInv, PTL DEF Spec

(* The registry, the node list and the timers always have their types.     *)
THEOREM TypeCorrect == Spec => []TypeOK
<1>1. IInv => TypeOK
  BY DEF IInv
<1>2. QED
  BY <1>1, Invariance, PTL

(* cpd.rs and agent_registry.rs: no node silent for the whole horizon,     *)
(* HEARTBEAT_TTL + NODE_SYNC_INTERVAL + the timer's lateness, is a target. *)
THEOREM SilenceBounded == Spec => []NoSilentTarget
<1>1. IInv => NoSilentTarget
  <2> SUFFICES ASSUME IInv, NEW n \in DOMAIN sched PROVE heard[n] < Horizon
    BY DEF NoSilentTarget
  <2>1. heard[n] \in Nat /\ syncIn \in Int /\ -MaxLate <= syncIn
    BY Constants DEF IInv, TypeOK
  <2>2. heard[n] + syncIn < TTL + SyncInterval
    BY DEF IInv, Paid
  <2>3. QED
    BY <2>1, <2>2, Constants
<1>2. QED
  BY <1>1, Invariance, PTL

(* agent_registry.rs, fresh_nodes and cleanup: a node heard within its TTL *)
(* keeps its entry and its place in the scheduler, at every step.          *)
THEOREM LiveKept == Spec => LiveNodeIsKept
<1> DEFINE Keeps == \A n \in NodeIds : heard[n] < TTL =>
                        /\ entries'[n] # None
                        /\ n \in DOMAIN sched => n \in DOMAIN sched'
<1>1. ASSUME IInv, Next PROVE Keeps
  <2> SUFFICES ASSUME NEW n \in NodeIds, heard[n] < TTL
               PROVE  /\ entries'[n] # None
                      /\ n \in DOMAIN sched => n \in DOMAIN sched'
    OBVIOUS
  <2>1. n \in Fresh /\ entries[n] # None
    BY <1>1, FreshIsHeard DEF Fresh, Registered
  <2>2. ASSUME NEW m \in NodeIds, NEW entry \in Entry,
               entries' = [entries EXCEPT ![m] = entry], sched' = sched
        PROVE  /\ entries'[n] # None
               /\ n \in DOMAIN sched => n \in DOMAIN sched'
    BY <1>1, <2>1, <2>2, Constants DEF IInv, TypeOK
  <2>3. ASSUME NEW m \in NodeIds, NEW caps \in CapSets, RegisterNode(m, caps)
        PROVE  /\ entries'[n] # None
               /\ n \in DOMAIN sched => n \in DOMAIN sched'
    BY <2>2, <2>3, RegisterEntry DEF RegisterNode
  <2>4. ASSUME NEW m \in NodeIds, NEW declared \in CapSets \cup {None},
               Heartbeat(m, declared)
        PROVE  /\ entries'[n] # None
               /\ n \in DOMAIN sched => n \in DOMAIN sched'
    BY <1>1, <2>2, <2>4, HeartbeatEntry DEF Heartbeat, IInv
  <2>5. CASE Cleanup
    BY <2>1, <2>5 DEF Cleanup
  <2>6. CASE FirstSync
    BY <2>1, <2>6 DEF FirstSync, FreshNodes
  <2>7. CASE Sync
    BY <2>1, <2>7 DEF Sync, SyncWith, FreshNodes
  <2>8. CASE Tick
    <3>1. entries[n] \in Entry
      BY <1>1, <2>1 DEF IInv, TypeOK
    <3>2. entries'[n] = [entries[n] EXCEPT !.age = UpTo(TTL, @)]
      BY <2>1, <2>8 DEF Tick, Registered
    <3>3. UpTo(TTL, entries[n].age) \in 0 .. TTL
      BY <3>1, Constants DEF UpTo, Entry
    <3>4. entries'[n] \in Entry
      BY <3>1, <3>2, <3>3 DEF Entry
    <3>5. QED
      BY <2>8, <3>4, Constants DEF Tick
  <2>9. QED
    BY <1>1, <2>3, <2>4, <2>5, <2>6, <2>7, <2>8 DEF Next
<1>2. IInv /\ [Next]_vars => [Keeps]_vars
  BY <1>1
<1>3. QED
  BY <1>2, Invariance, PTL DEF Spec, LiveNodeIsKept
=============================================================================
