-------------------------- MODULE SchedulerProofs ---------------------------
(***************************************************************************)
(* What the scheduler guarantees for any nodes, thresholds and bounds.     *)
(* The inductive invariant adds to the two invariants the runs check what  *)
(* the breaker of each entry knows of the node's history: an open breaker  *)
(* counts the ticks since the last failure, and a half-open one was opened *)
(* at least Cooldown ticks ago.                                            *)
(***************************************************************************)
EXTENDS Scheduler, SchedulerOpsProofs

BreakerInv(n) ==
    /\ nodes[n].failures = hist[n].streak
    /\ nodes[n].state = "closed" <=> hist[n].streak < Threshold
    /\ nodes[n].state = "open" => nodes[n].elapsed = hist[n].rest
    /\ nodes[n].state = "half_open" => hist[n].rest >= Cooldown

IInv ==
    /\ TypeOK
    /\ LoadIsHeld
    /\ \A n \in DOMAIN nodes : BreakerInv(n)

-----------------------------------------------------------------------------
(* A breaker that has waited longer is still the breaker of a NodeRuntime. *)
LEMMA LaterRuntime ==
    ASSUME NEW rt \in NodeRuntime
    PROVE  [rt EXCEPT !.elapsed = Later(@)] \in NodeRuntime
  BY OpsAssumption DEF NodeRuntime, Later

(* What a list of nodes handed to the scheduler is made of.                *)
LEMMA SpecsDeclare ==
    ASSUME NEW specs \in SpecTables
    PROVE  /\ DOMAIN specs \subseteq NodeIds
           /\ \A n \in DOMAIN specs : specs[n] \in Specs /\ specs[n] \in NodeSpec
           /\ DOMAIN Synced(specs) = DOMAIN specs
           /\ IsNodeTable(Synced(specs))
<1>1. DOMAIN specs \subseteq NodeIds /\ \A n \in DOMAIN specs : specs[n] \in Specs
  BY DEF SpecTables
<1>2. \A n \in DOMAIN specs : specs[n] \in NodeSpec
  BY <1>1, SchedulerAssumption
<1>3. QED
  BY <1>1, <1>2, SyncedTable

-----------------------------------------------------------------------------
(* What one entry and its history look like after each operation that      *)
(* changes them; the invariant is then a fact about one node at a time.    *)
LEMMA InitIInv == Init => IInv
<1> SUFFICES ASSUME Init PROVE IInv
  OBVIOUS
<1>1. PICK specs \in SpecTables : nodes = Synced(specs)
  BY DEF Init
<1>2. hist = [n \in NodeIds |-> NoHistory]
  BY DEF Init
<1>3. TypeOK
  <2>1. NoHistory \in History
    BY OpsAssumption DEF NoHistory, History
  <2>2. QED
    BY <1>1, <1>2, <2>1, SpecsDeclare DEF TypeOK
<1>4. ASSUME NEW n \in DOMAIN nodes
      PROVE  /\ nodes[n].load = 0 /\ nodes[n].failures = 0
             /\ nodes[n].state = "closed"
             /\ nodes[n].quota \in Nat \cup {NoQuota}
             /\ hist[n] = NoHistory
  <2>1. n \in DOMAIN specs /\ specs[n] \in Specs /\ n \in NodeIds
    BY <1>1, SpecsDeclare
  <2>2. nodes[n] = NewRuntime(specs[n])
    BY <1>1, <2>1 DEF Synced
  <2>3. QED
    BY <1>2, <2>1, <2>2, NewRuntimeType, SchedulerAssumption
<1>5. LoadIsHeld
  BY <1>4 DEF LoadIsHeld, NoHistory
<1>6. \A n \in DOMAIN nodes : BreakerInv(n)
  BY <1>4, OpsAssumption DEF BreakerInv, NoHistory
<1>7. QED
  BY <1>3, <1>5, <1>6 DEF IInv

(* The invariant survives the steps that touch breakers and loads of       *)
(* existing entries.                                                       *)
LEMMA PlaceIInv ==
    ASSUME IInv, NEW cap \in Capability, Place(cap)
    PROVE  IInv'
<1>1. PICK n \in LeastLoaded(nodes, cap) :
          /\ hist[n].held < MaxHeld
          /\ nodes' = Placed(nodes, cap, n)
          /\ hist' = [hist EXCEPT
                        ![n].held = @ + 1,
                        ![n].probes = IF nodes'[n].state = "half_open" /\ @ < 2
                                      THEN @ + 1 ELSE @]
  BY DEF Place
<1>2. n \in DOMAIN nodes /\ n \in NodeIds /\ HasRoom(nodes[n])
  BY DEF LeastLoaded, Eligible, IInv, TypeOK, IsNodeTable
<1>3. IsNodeTable(nodes) /\ hist \in [NodeIds -> History]
  BY DEF IInv, TypeOK
<1> DEFINE A == Asked(nodes, cap)
<1>4. /\ DOMAIN A = DOMAIN nodes /\ IsNodeTable(A)
      /\ \A m \in DOMAIN nodes : A[m] \in NodeRuntime
  BY <1>3, AskedTable DEF IsNodeTable
<1>5. nodes' = [A EXCEPT ![n].load = Inc(@)]
  BY <1>1 DEF Placed
<1>6. TypeOK'
  <2>1. [A[n] EXCEPT !.load = Inc(@)] \in NodeRuntime
    BY <1>2, <1>4, RuntimeClosed
  <2>2. IsNodeTable(nodes')
    BY <1>2, <1>4, <1>5, <2>1 DEF IsNodeTable
  <2>3. hist' \in [NodeIds -> History]
    <3> DEFINE p == IF nodes'[n].state = "half_open" /\ hist[n].probes < 2
                    THEN hist[n].probes + 1 ELSE hist[n].probes
               h == [hist[n] EXCEPT !.held = @ + 1, !.probes = p]
    <3>1. hist[n] \in History
      BY <1>2, <1>3
    <3>2. p \in 0 .. 2 /\ hist[n].held + 1 \in Nat
      BY <3>1 DEF History
    <3>3. h \in History
      BY <3>1, <3>2 DEF History
    <3>4. hist' = [hist EXCEPT ![n] = h]
      BY <1>1, <1>2, <1>3
    <3>5. QED
      BY <1>2, <1>3, <3>3, <3>4
  <2>4. QED
    BY <2>2, <2>3 DEF TypeOK
<1>7. ASSUME NEW m \in DOMAIN nodes'
      PROVE  /\ m \in DOMAIN nodes /\ m \in NodeIds
             /\ nodes'[m].quota = nodes[m].quota
             /\ nodes'[m].failures = nodes[m].failures
             /\ nodes'[m].elapsed = nodes[m].elapsed
             /\ nodes'[m].state = A[m].state
             /\ nodes'[m].load = IF m = n THEN Inc(nodes[m].load) ELSE nodes[m].load
             /\ hist'[m].held = IF m = n THEN hist[m].held + 1 ELSE hist[m].held
             /\ hist'[m].dropped = hist[m].dropped
             /\ hist'[m].streak = hist[m].streak
             /\ hist'[m].rest = hist[m].rest
  <2>1. m \in DOMAIN nodes /\ m \in NodeIds
    BY <1>3, <1>4, <1>5 DEF IsNodeTable
  <2>2. /\ A[m].load = nodes[m].load /\ A[m].quota = nodes[m].quota
        /\ A[m].failures = nodes[m].failures /\ A[m].elapsed = nodes[m].elapsed
    BY <1>3, <2>1, AskedTable
  <2>3. nodes'[m] = IF m = n THEN [A[m] EXCEPT !.load = Inc(@)] ELSE A[m]
    BY <1>4, <1>5, <2>1
  <2>4. A[m] \in NodeRuntime
    BY <1>4, <2>1
  <2>5. hist[m] \in History
    BY <1>3, <2>1
  <2>6. CASE m = n
    <3>1. nodes'[m] = [A[m] EXCEPT !.load = Inc(@)]
      BY <2>3, <2>6
    <3>2. /\ hist'[m].held = hist[m].held + 1
          /\ hist'[m].dropped = hist[m].dropped
          /\ hist'[m].streak = hist[m].streak
          /\ hist'[m].rest = hist[m].rest
      BY <1>1, <1>3, <2>1, <2>5, <2>6 DEF History
    <3>3. QED
      BY <2>1, <2>2, <2>4, <2>6, <3>1, <3>2 DEF NodeRuntime
  <2>7. CASE m # n
    BY <1>1, <1>3, <2>1, <2>2, <2>3, <2>7
  <2>8. QED
    BY <2>6, <2>7
<1>8. LoadIsHeld'
  <2>1. ASSUME NEW m \in DOMAIN nodes', ~hist'[m].dropped
        PROVE  /\ nodes'[m].load = hist'[m].held
               /\ nodes'[m].quota # NoQuota => hist'[m].held <= nodes'[m].quota
    <3>1. /\ nodes[m].load = hist[m].held
          /\ nodes[m].quota # NoQuota => hist[m].held <= nodes[m].quota
      BY <1>7, <2>1 DEF IInv, LoadIsHeld
    <3>2. CASE m # n
      BY <1>7, <2>1, <3>1, <3>2
    <3>3. CASE m = n
      <4>1. hist[n].held \in Nat /\ nodes[n].quota \in Nat \cup {NoQuota}
        BY <1>2, <1>3 DEF IsNodeTable, History, NodeRuntime
      <4>2. Inc(nodes[n].load) = hist[n].held + 1
        BY <1>1, <3>1, <3>3, <4>1, OpsAssumption, SchedulerAssumption DEF Inc
      <4>3. nodes[n].quota # NoQuota => hist[n].held + 1 <= nodes[n].quota
        BY <1>2, <3>1, <3>3, <4>1 DEF HasRoom
      <4>4. QED
        BY <1>7, <2>1, <3>3, <4>2, <4>3
    <3>4. QED
      BY <3>2, <3>3
  <2>2. QED
    BY <2>1 DEF LoadIsHeld
<1>9. \A m \in DOMAIN nodes' : BreakerInv(m)'
  BY <1>3, <1>7, AskedTable DEF IInv, BreakerInv
<1>10. QED
  BY <1>6, <1>8, <1>9 DEF IInv

LEMMA RejectIInv ==
    ASSUME IInv, NEW cap \in Capability, Reject(cap)
    PROVE  IInv'
<1>1. IsNodeTable(nodes) /\ hist \in [NodeIds -> History]
  BY DEF IInv, TypeOK
<1>2. nodes' = Asked(nodes, cap) /\ hist' = hist
  BY DEF Reject
<1>3. TypeOK'
  BY <1>1, <1>2, AskedTable DEF TypeOK
<1>4. LoadIsHeld'
  BY <1>1, <1>2, AskedTable DEF LoadIsHeld, IInv
<1>5. \A n \in DOMAIN nodes' : BreakerInv(n)'
  <2>1. ASSUME NEW n \in DOMAIN nodes'
        PROVE  BreakerInv(n)'
    <3>1. n \in DOMAIN nodes /\ BreakerInv(n)
      BY <1>1, <1>2, AskedTable DEF IInv
    <3>2. hist[n] \in History
      BY <1>1, <3>1 DEF IsNodeTable
    <3>3. QED
      BY <1>1, <1>2, <3>1, <3>2, AskedTable DEF BreakerInv, History
  <2>2. QED
    BY <2>1
<1>6. QED
  BY <1>3, <1>4, <1>5 DEF IInv

LEMMA ReleaseIInv ==
    ASSUME IInv, NEW n \in NodeIds, Release(n)
    PROVE  IInv'
<1>1. IsNodeTable(nodes) /\ hist \in [NodeIds -> History]
  BY DEF IInv, TypeOK
<1>2. /\ hist[n].held > 0
      /\ nodes' = Released(nodes, n)
      /\ hist' = [hist EXCEPT ![n].held = @ - 1]
  BY DEF Release
<1>3. DOMAIN nodes' = DOMAIN nodes
  BY <1>2 DEF Released
<1>4. ASSUME NEW m \in DOMAIN nodes
      PROVE  /\ nodes'[m] \in NodeRuntime
             /\ nodes'[m] = IF m = n THEN [nodes[m] EXCEPT !.load = Dec(@)]
                                     ELSE nodes[m]
             /\ nodes[m] \in NodeRuntime
  <2>1. nodes[m] \in NodeRuntime
    BY <1>1 DEF IsNodeTable
  <2>2. nodes'[m] = IF m = n THEN [nodes[m] EXCEPT !.load = Dec(@)] ELSE nodes[m]
    BY <1>2 DEF Released
  <2>3. QED
    BY <2>1, <2>2, RuntimeClosed
<1>5. ASSUME NEW m \in NodeIds
      PROVE  /\ hist[m] \in History
             /\ hist'[m] = IF m = n THEN [hist[m] EXCEPT !.held = @ - 1] ELSE hist[m]
             /\ hist'[m] \in History
  <2>1. hist[m] \in History
    BY <1>1
  <2>2. hist'[m] = IF m = n THEN [hist[m] EXCEPT !.held = @ - 1] ELSE hist[m]
    BY <1>1, <1>2
  <2>3. m = n => hist[m].held - 1 \in Nat
    BY <1>2, <2>1 DEF History
  <2>4. QED
    BY <2>1, <2>2, <2>3 DEF History
<1>6. TypeOK'
  <2>1. IsNodeTable(nodes')
    BY <1>1, <1>2, <1>3, <1>4 DEF IsNodeTable, Released
  <2>2. hist' \in [NodeIds -> History]
    BY <1>1, <1>2, <1>5
  <2>3. QED
    BY <2>1, <2>2 DEF TypeOK
<1>7. \A m \in DOMAIN nodes : m \in NodeIds
  BY <1>1 DEF IsNodeTable
<1>8. LoadIsHeld'
  <2>1. ASSUME NEW m \in DOMAIN nodes', ~hist'[m].dropped
        PROVE  /\ nodes'[m].load = hist'[m].held
               /\ nodes'[m].quota # NoQuota => hist'[m].held <= nodes'[m].quota
    <3>1. CASE m # n
      BY <1>3, <1>4, <1>5, <1>7, <2>1, <3>1 DEF IInv, LoadIsHeld
    <3>2. CASE m = n
      <4>1. /\ hist'[n].held = hist[n].held - 1
            /\ hist'[n].dropped = hist[n].dropped
            /\ hist[n].held \in Nat
        BY <1>5, <3>2 DEF History
      <4>2. /\ nodes'[n].load = Dec(nodes[n].load)
            /\ nodes'[n].quota = nodes[n].quota
            /\ nodes[n].quota \in Nat \cup {NoQuota}
        BY <1>3, <1>4, <2>1, <3>2 DEF NodeRuntime
      <4>3. /\ nodes[n].load = hist[n].held
            /\ nodes[n].quota # NoQuota => hist[n].held <= nodes[n].quota
        BY <1>3, <2>1, <3>2, <4>1 DEF IInv, LoadIsHeld
      <4>4. Dec(nodes[n].load) = hist[n].held - 1
        BY <1>2, <4>1, <4>3 DEF Dec
      <4>5. QED
        BY <3>2, <4>1, <4>2, <4>3, <4>4
    <3>3. QED
      BY <3>1, <3>2
  <2>2. QED
    BY <2>1 DEF LoadIsHeld
<1>9. \A m \in DOMAIN nodes' : BreakerInv(m)'
  <2>1. ASSUME NEW m \in DOMAIN nodes'
        PROVE  BreakerInv(m)'
    <3>1. m \in NodeIds /\ m \in DOMAIN nodes /\ BreakerInv(m)
      BY <1>3, <1>7 DEF IInv
    <3>2. /\ nodes'[m].failures = nodes[m].failures
          /\ nodes'[m].state = nodes[m].state
          /\ nodes'[m].elapsed = nodes[m].elapsed
      BY <1>4, <3>1 DEF NodeRuntime
    <3>3. hist'[m].streak = hist[m].streak /\ hist'[m].rest = hist[m].rest
      BY <1>5, <3>1 DEF History
    <3>4. QED
      BY <3>1, <3>2, <3>3 DEF BreakerInv
  <2>2. QED
    BY <2>1
<1>10. QED
  BY <1>6, <1>8, <1>9 DEF IInv

LEMMA MarkIInv ==
    ASSUME IInv, NEW n \in NodeIds, MarkFailure(n) \/ MarkSuccess(n)
    PROVE  IInv'
<1>1. IsNodeTable(nodes) /\ hist \in [NodeIds -> History]
  BY DEF IInv, TypeOK
<1>2. n \in DOMAIN nodes
  BY DEF MarkFailure, MarkSuccess
<1>3. nodes[n] \in NodeRuntime /\ hist[n] \in History
  BY <1>1, <1>2 DEF IsNodeTable
<1>4. PICK rt \in NodeRuntime, h \in History :
          /\ nodes' = [nodes EXCEPT ![n] = rt]
          /\ hist' = [hist EXCEPT ![n] = h]
          /\ rt.load = nodes[n].load /\ rt.quota = nodes[n].quota
          /\ h.held = hist[n].held /\ h.dropped = hist[n].dropped
          /\ rt.failures = h.streak
          /\ rt.state = "closed" <=> h.streak < Threshold
          /\ rt.state = "open" => rt.elapsed = h.rest
          /\ rt.state = "half_open" => h.rest >= Cooldown
  <2>0. 0 \in Nat /\ 0 \in 0 .. 2 /\ 0 \in 0 .. Cooldown /\ 0 < Threshold
    BY OpsAssumption
  <2>1. CASE MarkFailure(n)
    <3> DEFINE rt == AfterFailure(nodes[n])
               h == [hist[n] EXCEPT !.streak = @ + 1, !.rest = 0, !.probes = 0]
    <3>1. rt \in NodeRuntime
      BY <1>3, RuntimeClosed
    <3>2. h \in History
      <4>1. hist[n].streak + 1 \in Nat
        BY <1>3 DEF History
      <4>2. QED
        BY <1>3, <2>0, <4>1 DEF History
    <3>3. nodes' = [nodes EXCEPT ![n] = rt] /\ hist' = [hist EXCEPT ![n] = h]
      BY <1>1, <2>1 DEF MarkFailure
    <3>4. /\ h.held = hist[n].held /\ h.dropped = hist[n].dropped
          /\ h.streak = hist[n].streak + 1 /\ h.rest = 0
      BY <1>3 DEF History
    <3>5. nodes[n].failures = hist[n].streak /\ hist[n].streak \in Nat
          /\ (nodes[n].state = "closed" <=> hist[n].streak < Threshold)
      BY <1>2, <1>3 DEF IInv, BreakerInv, History
    <3>6. CASE nodes[n].failures + 1 >= Threshold
      <4>1. rt = [nodes[n] EXCEPT !.failures = @ + 1, !.state = "open", !.elapsed = 0]
        BY <3>6 DEF AfterFailure
      <4>2. /\ rt.load = nodes[n].load /\ rt.quota = nodes[n].quota
            /\ rt.failures = nodes[n].failures + 1
            /\ rt.state = "open" /\ rt.elapsed = 0
        BY <1>3, <4>1 DEF NodeRuntime
      <4>3. ~(h.streak < Threshold)
        BY <3>4, <3>5, <3>6, OpsAssumption
      <4>4. QED
        BY <3>1, <3>2, <3>3, <3>4, <3>5, <4>2, <4>3
    <3>7. CASE ~(nodes[n].failures + 1 >= Threshold)
      <4>1. rt = [nodes[n] EXCEPT !.failures = @ + 1]
        BY <3>7 DEF AfterFailure
      <4>2. /\ rt.load = nodes[n].load /\ rt.quota = nodes[n].quota
            /\ rt.failures = nodes[n].failures + 1
            /\ rt.state = nodes[n].state
        BY <1>3, <4>1 DEF NodeRuntime
      <4>3. h.streak < Threshold /\ hist[n].streak < Threshold
        BY <3>4, <3>5, <3>7, OpsAssumption
      <4>4. QED
        BY <3>1, <3>2, <3>3, <3>4, <3>5, <4>2, <4>3
    <3>8. QED
      BY <3>6, <3>7
  <2>2. CASE MarkSuccess(n)
    <3> DEFINE rt == AfterSuccess(nodes[n])
               h == [hist[n] EXCEPT !.streak = 0, !.rest = 0, !.probes = 0]
    <3>1. rt \in NodeRuntime
      BY <1>3, RuntimeClosed
    <3>2. h \in History
      BY <1>3, <2>0 DEF History
    <3>3. nodes' = [nodes EXCEPT ![n] = rt] /\ hist' = [hist EXCEPT ![n] = h]
      BY <1>1, <2>2 DEF MarkSuccess
    <3>4. /\ rt.load = nodes[n].load /\ rt.quota = nodes[n].quota
          /\ rt.failures = 0 /\ rt.state = "closed"
      BY <1>3 DEF AfterSuccess, NodeRuntime
    <3>5. /\ h.held = hist[n].held /\ h.dropped = hist[n].dropped /\ h.streak = 0
      BY <1>3 DEF History
    <3> HIDE DEF rt, h
    <3>6. QED
      BY <2>0, <3>1, <3>2, <3>3, <3>4, <3>5
  <2>3. QED
    BY <2>1, <2>2
<1>5. TypeOK'
  BY <1>1, <1>2, <1>4 DEF TypeOK, IsNodeTable
<1>6. \A m \in DOMAIN nodes' : /\ m \in DOMAIN nodes /\ m \in NodeIds
                               /\ nodes'[m] = IF m = n THEN rt ELSE nodes[m]
                               /\ hist'[m] = IF m = n THEN h ELSE hist[m]
  BY <1>1, <1>2, <1>4 DEF IsNodeTable
<1>7. LoadIsHeld'
  BY <1>2, <1>4, <1>6 DEF LoadIsHeld, IInv
<1>8. \A m \in DOMAIN nodes' : BreakerInv(m)'
  BY <1>4, <1>6 DEF BreakerInv, IInv
<1>9. QED
  BY <1>5, <1>7, <1>8 DEF IInv

(* Entries that are rebuilt start idle, closed and with a clean history;   *)
(* only held placements make their later counts untrustworthy.             *)
LEMMA RebuiltHistory ==
    ASSUME IInv, NEW S \in SUBSET NodeIds, hist' = Rebuilt(S)
    PROVE  /\ hist' \in [NodeIds -> History]
           /\ \A n \in NodeIds \ S : hist'[n] = hist[n]
           /\ \A n \in S : /\ hist'[n].held = hist[n].held
                            /\ hist'[n].streak = 0
                            /\ hist[n].held \in Nat
           /\ \A n \in S : hist'[n].dropped \/ hist[n].held = 0
<1>1. hist \in [NodeIds -> History]
  BY DEF IInv, TypeOK
<1>2. NoHistory \in History
  <2>1. 0 \in Nat /\ 0 \in 0 .. 2 /\ 0 \in 0 .. Cooldown
    BY OpsAssumption
  <2>2. QED
    BY <2>1 DEF NoHistory, History
<1>3. ASSUME NEW n \in S
      PROVE  /\ hist'[n] \in History
             /\ hist'[n].held = hist[n].held
             /\ hist'[n].dropped \/ hist[n].held = 0
             /\ hist'[n].streak = 0
             /\ hist[n].held \in Nat
  <2>1. hist[n].held \in Nat
    BY <1>1 DEF History
  <2>2. hist'[n] = [NoHistory EXCEPT !.held = hist[n].held,
                                     !.dropped = hist[n].held > 0]
    BY DEF Rebuilt
  <2>3. (hist[n].held > 0) \in BOOLEAN
    OBVIOUS
  <2>4. hist'[n] \in History
    BY <1>2, <2>1, <2>2, <2>3 DEF History
  <2>5. hist'[n] = [held |-> hist[n].held, dropped |-> hist[n].held > 0,
                    streak |-> 0, rest |-> 0, probes |-> 0]
    BY <2>2 DEF NoHistory
  <2>6. /\ hist'[n].held = hist[n].held
        /\ hist'[n].dropped = (hist[n].held > 0)
        /\ hist'[n].streak = 0
    BY <2>5
  <2>7. hist'[n].dropped \/ hist[n].held = 0
    <3>1. hist[n].held = 0 \/ hist[n].held > 0
      BY <2>1
    <3>2. QED
      BY <2>6, <3>1, Zenon
  <2>8. QED
    BY <2>1, <2>4, <2>6, <2>7
<1>4. \A n \in NodeIds \ S : hist'[n] = hist[n]
  BY DEF Rebuilt
<1>5. hist' \in [NodeIds -> History]
  BY <1>1, <1>3, <1>4 DEF Rebuilt
<1>6. QED
  BY <1>3, <1>4, <1>5

LEMMA RebuildIInv ==
    ASSUME IInv, NEW S \in SUBSET NodeIds,
           IsNodeTable(nodes'),
           S \subseteq DOMAIN nodes',
           \A n \in S : \E spec \in Specs : nodes'[n] = NewRuntime(spec),
           \A n \in DOMAIN nodes' \ S : n \in DOMAIN nodes /\ nodes'[n] = nodes[n],
           hist' = Rebuilt(S)
    PROVE  IInv'
<1>1. TypeOK'
  BY RebuiltHistory DEF TypeOK
<1>2. DOMAIN nodes' \subseteq NodeIds
  BY DEF IsNodeTable
<1>3. LoadIsHeld'
  <2>1. ASSUME NEW n \in DOMAIN nodes', ~hist'[n].dropped
        PROVE  /\ nodes'[n].load = hist'[n].held
               /\ nodes'[n].quota # NoQuota => hist'[n].held <= nodes'[n].quota
    <3>1. CASE n \in S
      <4>1. nodes'[n].load = 0 /\ nodes'[n].quota \in Nat \cup {NoQuota}
        BY <3>1, NewRuntimeType, SchedulerAssumption
      <4>2. hist'[n].held = hist[n].held /\ (hist'[n].dropped \/ hist[n].held = 0)
        BY <3>1, RebuiltHistory
      <4>3. hist'[n].held = 0
        BY <2>1, <4>2
      <4>4. QED
        BY <4>1, <4>3
    <3>2. CASE n \notin S
      BY <1>2, <2>1, <3>2, RebuiltHistory DEF IInv, LoadIsHeld
    <3>3. QED
      BY <3>1, <3>2
  <2>2. QED
    BY <2>1 DEF LoadIsHeld
<1>4. ASSUME NEW n \in DOMAIN nodes'
      PROVE  BreakerInv(n)'
  <2>1. CASE n \in S
    <3>1. nodes'[n].failures = 0 /\ nodes'[n].state = "closed"
      BY <2>1, NewRuntimeType, SchedulerAssumption
    <3>2. hist'[n].streak = 0 /\ 0 < Threshold
      BY <2>1, RebuiltHistory, OpsAssumption
    <3>3. QED
      BY <3>1, <3>2 DEF BreakerInv
  <2>2. CASE n \notin S
    BY <1>2, <2>2, RebuiltHistory DEF IInv, BreakerInv
  <2>3. QED
    BY <2>1, <2>2
<1>5. QED
  BY <1>1, <1>3, <1>4 DEF IInv

LEMMA TickIInv ==
    ASSUME IInv, Tick
    PROVE  IInv'
<1>1. IsNodeTable(nodes) /\ hist \in [NodeIds -> History]
  BY DEF IInv, TypeOK
<1>2. DOMAIN nodes' = DOMAIN nodes /\ DOMAIN nodes \subseteq NodeIds
  BY <1>1 DEF Tick, IsNodeTable
<1>3. ASSUME NEW n \in DOMAIN nodes
      PROVE  /\ nodes'[n] = [nodes[n] EXCEPT !.elapsed = Later(@)]
             /\ nodes[n] \in NodeRuntime
             /\ nodes'[n] \in NodeRuntime
  <2>1. nodes[n] \in NodeRuntime
    BY <1>1 DEF IsNodeTable
  <2>2. nodes'[n] = [nodes[n] EXCEPT !.elapsed = Later(@)]
    BY DEF Tick
  <2>3. QED
    BY <2>1, <2>2, LaterRuntime
<1>4. ASSUME NEW n \in NodeIds
      PROVE  /\ hist'[n] = [hist[n] EXCEPT !.rest = Later(@)]
             /\ hist[n] \in History
             /\ hist'[n] \in History
  <2>1. hist[n] \in History
    BY <1>1
  <2>2. hist'[n] = [hist[n] EXCEPT !.rest = Later(@)]
    BY DEF Tick
  <2>3. Later(hist[n].rest) \in 0 .. Cooldown
    BY <2>1, OpsAssumption DEF Later, History
  <2>4. QED
    BY <2>1, <2>2, <2>3 DEF History
<1>5. TypeOK'
  BY <1>1, <1>2, <1>3, <1>4 DEF TypeOK, IsNodeTable, Tick
<1>6. ASSUME NEW n \in DOMAIN nodes
      PROVE  /\ nodes'[n].load = nodes[n].load /\ nodes'[n].quota = nodes[n].quota
             /\ nodes'[n].failures = nodes[n].failures
             /\ nodes'[n].state = nodes[n].state
             /\ nodes'[n].elapsed = Later(nodes[n].elapsed)
             /\ hist'[n].held = hist[n].held /\ hist'[n].dropped = hist[n].dropped
             /\ hist'[n].streak = hist[n].streak
             /\ hist'[n].rest = Later(hist[n].rest)
             /\ hist[n].rest \in 0 .. Cooldown
  <2>1. n \in NodeIds
    BY <1>2
  <2>2. QED
    BY <1>3, <1>4, <2>1 DEF NodeRuntime, History
<1>7. LoadIsHeld'
  BY <1>2, <1>6 DEF LoadIsHeld, IInv
<1>8. ASSUME NEW n \in DOMAIN nodes'
      PROVE  BreakerInv(n)'
  <2>1. BreakerInv(n)
    BY <1>2 DEF IInv
  <2>2. hist[n].rest >= Cooldown => Later(hist[n].rest) >= Cooldown
    BY <1>2, <1>6, OpsAssumption DEF Later
  <2>3. QED
    BY <1>2, <1>6, <2>1, <2>2 DEF BreakerInv
<1>9. QED
  BY <1>5, <1>7, <1>8 DEF IInv

-----------------------------------------------------------------------------
LEMMA NextIInv == IInv /\ [Next]_vars => IInv'
<1> SUFFICES ASSUME IInv, [Next]_vars PROVE IInv'
  OBVIOUS
<1>1. ASSUME NEW cap \in Capability, Place(cap) \/ Reject(cap)
      PROVE  IInv'
  BY <1>1, PlaceIInv, RejectIInv
<1>2. ASSUME NEW n \in NodeIds, Release(n) \/ MarkFailure(n) \/ MarkSuccess(n)
      PROVE  IInv'
  BY <1>2, ReleaseIInv, MarkIInv
<1>3. ASSUME NEW n \in NodeIds, NEW spec \in Specs, AddNode(n, spec)
      PROVE  IInv'
  <2>1. nodes' = Added(nodes, n, spec) /\ hist' = Rebuilt({n})
    BY <1>3 DEF AddNode
  <2>2. IsNodeTable(nodes)
    BY DEF IInv, TypeOK
  <2>3. DOMAIN nodes' = DOMAIN nodes \cup {n}
    BY <2>1 DEF Added
  <2>4. nodes'[n] = NewRuntime(spec)
        /\ \A m \in DOMAIN nodes' \ {n} : m \in DOMAIN nodes /\ nodes'[m] = nodes[m]
    BY <2>1, <2>3 DEF Added
  <2>5. IsNodeTable(nodes')
    BY <2>1, <2>2, <2>3, <2>4, NewRuntimeType, SchedulerAssumption DEF IsNodeTable, Added
  <2>6. QED
    BY <2>1, <2>3, <2>4, <2>5, RebuildIInv
<1>4. ASSUME NEW specs \in SpecTables, SyncNodes(specs)
      PROVE  IInv'
  <2>1. nodes' = Synced(specs) /\ hist' = Rebuilt(DOMAIN specs)
    BY <1>4 DEF SyncNodes
  <2>2. /\ DOMAIN nodes' = DOMAIN specs /\ DOMAIN specs \subseteq NodeIds
        /\ IsNodeTable(nodes')
        /\ \A n \in DOMAIN specs : specs[n] \in Specs
    BY <2>1, SpecsDeclare
  <2>3. \A n \in DOMAIN specs : nodes'[n] = NewRuntime(specs[n])
    BY <2>1 DEF Synced
  <2>4. QED
    BY <2>1, <2>2, <2>3, RebuildIInv
<1>5. CASE Tick
  BY <1>5, TickIInv
<1>6. CASE UNCHANGED vars
  BY <1>6 DEF vars, IInv, TypeOK, IsNodeTable, LoadIsHeld, BreakerInv
<1>7. QED
  BY <1>1, <1>2, <1>3, <1>4, <1>5, <1>6 DEF Next

LEMMA Invariance == Spec => []IInv
  BY InitIInv, NextIInv, PTL DEF Spec

(* The state always has its type.                                          *)
THEOREM TypeCorrect == Spec => []TypeOK
<1>1. IInv => TypeOK
  BY DEF IInv
<1>2. QED
  BY <1>1, Invariance, PTL

(* scheduler.rs, place and release: whatever happens to other nodes, an    *)
(* entry that was never rebuilt under its tasks counts them exactly, and   *)
(* never more of them than its quota.                                      *)
THEOREM BackPressure == Spec => []LoadIsHeld
<1>1. IInv => LoadIsHeld
  BY DEF IInv
<1>2. QED
  BY <1>1, Invariance, PTL

(* scheduler.rs, CircuitBreaker: it is shut exactly while the failures     *)
(* since the last success are below the threshold.                         *)
THEOREM BreakerCorrect == Spec => []BreakerTracksStreak
<1>1. IInv => BreakerTracksStreak
  BY DEF IInv, BreakerInv, BreakerTracksStreak
<1>2. QED
  BY <1>1, Invariance, PTL

(* scheduler.rs, place with allow: a node that failed Threshold times in a *)
(* row receives no task before its cooldown is over.                       *)
THEOREM CooldownRespected == Spec => RestedBeforeReuse
<1> DEFINE Rested ==
        \A n \in NodeIds :
            hist'[n].held > hist[n].held =>
                hist[n].streak < Threshold \/ hist[n].rest >= Cooldown
<1>1. ASSUME IInv, Next PROVE Rested
  <2>0. hist \in [NodeIds -> History]
    BY <1>1 DEF IInv, TypeOK
  <2> SUFFICES ASSUME NEW n \in NodeIds, hist'[n].held > hist[n].held
               PROVE  hist[n].streak < Threshold \/ hist[n].rest >= Cooldown
    OBVIOUS
  <2>1. hist[n] \in History
    BY <2>0
  <2>2. ASSUME NEW cap \in Capability, Place(cap)
        PROVE  hist[n].streak < Threshold \/ hist[n].rest >= Cooldown
    <3>1. n \in LeastLoaded(nodes, cap)
      BY <2>0, <2>1, <2>2 DEF Place, History
    <3>2. n \in DOMAIN nodes /\ Allows(nodes[n])
      BY <3>1 DEF LeastLoaded, Eligible
    <3>3. BreakerInv(n) /\ nodes[n].state \in BreakerState
      BY <1>1, <3>2 DEF IInv, TypeOK, IsNodeTable, NodeRuntime
    <3>4. QED
      BY <3>2, <3>3 DEF BreakerInv, Allows, BreakerState
  <2>3. ASSUME NEW S \in SUBSET NodeIds, hist' = Rebuilt(S)
        PROVE  FALSE
    BY <1>1, <2>1, <2>3, RebuiltHistory DEF History
  <2>4. ASSUME NEW m \in NodeIds, Release(m) \/ MarkFailure(m) \/ MarkSuccess(m)
        PROVE  FALSE
    <3>1. CASE Release(m)
      BY <2>0, <2>1, <3>1 DEF Release, History
    <3>2. CASE MarkFailure(m)
      BY <2>0, <2>1, <3>2 DEF MarkFailure, History
    <3>3. CASE MarkSuccess(m)
      BY <2>0, <2>1, <3>3 DEF MarkSuccess, History
    <3>4. QED
      BY <2>4, <3>1, <3>2, <3>3
  <2>5. ~Tick
    BY <2>0, <2>1 DEF Tick, History
  <2>6. \A cap \in Capability : ~Reject(cap)
    BY <2>1 DEF Reject, History
  <2>7. \A m \in NodeIds, spec \in Specs : ~AddNode(m, spec)
    BY <2>3 DEF AddNode
  <2>8. \A specs \in SpecTables : ~SyncNodes(specs)
    BY <2>3, SpecsDeclare DEF SyncNodes
  <2>9. QED
    BY <1>1, <2>2, <2>4, <2>5, <2>6, <2>7, <2>8 DEF Next
<1>2. IInv /\ [Next]_vars => [Rested]_vars
  BY <1>1
<1>3. QED
  BY <1>2, Invariance, PTL DEF Spec, RestedBeforeReuse
=============================================================================
