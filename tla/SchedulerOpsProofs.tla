------------------------- MODULE SchedulerOpsProofs -------------------------
(***************************************************************************)
(* What the operations of SchedulerOps return, for any node list: they     *)
(* keep it a node table and change no more than they say.                  *)
(***************************************************************************)
EXTENDS SchedulerOps, TLAPS

(* The operations on one entry keep it a NodeRuntime.                      *)
LEMMA RuntimeClosed ==
    ASSUME NEW rt \in NodeRuntime
    PROVE  /\ AfterAllow(rt) \in NodeRuntime
           /\ AfterFailure(rt) \in NodeRuntime
           /\ AfterSuccess(rt) \in NodeRuntime
           /\ [rt EXCEPT !.load = Inc(@)] \in NodeRuntime
           /\ [rt EXCEPT !.load = Dec(@)] \in NodeRuntime
<1>1. AfterAllow(rt) \in NodeRuntime
  BY DEF AfterAllow, NodeRuntime, BreakerState
<1>2. AfterFailure(rt) \in NodeRuntime
  <2>1. rt.failures + 1 \in Nat
    BY DEF NodeRuntime
  <2>2. [rt EXCEPT !.failures = @ + 1] \in NodeRuntime
    BY <2>1 DEF NodeRuntime
  <2>3. [rt EXCEPT !.failures = @ + 1, !.state = "open", !.elapsed = 0] \in NodeRuntime
    <3>1. 0 \in 0 .. Cooldown
      BY OpsAssumption
    <3>2. QED
      BY <2>1, <3>1 DEF NodeRuntime, BreakerState
  <2>4. QED
    BY <2>2, <2>3 DEF AfterFailure
<1>3. AfterSuccess(rt) \in NodeRuntime
  BY DEF AfterSuccess, NodeRuntime, BreakerState
<1>4. /\ [rt EXCEPT !.load = Inc(@)] \in NodeRuntime
      /\ [rt EXCEPT !.load = Dec(@)] \in NodeRuntime
  BY OpsAssumption DEF NodeRuntime, Inc, Dec
<1>5. QED
  BY <1>1, <1>2, <1>3, <1>4

(* A new entry is a NodeRuntime, idle and with a closed breaker.           *)
LEMMA NewRuntimeType ==
    ASSUME NEW spec \in NodeSpec
    PROVE  /\ NewRuntime(spec) \in NodeRuntime
           /\ NewRuntime(spec).load = 0
           /\ NewRuntime(spec).failures = 0
           /\ NewRuntime(spec).state = "closed"
           /\ NewRuntime(spec).quota \in Nat \cup {NoQuota}
  BY OpsAssumption DEF NewRuntime, NodeRuntime, NodeSpec, BreakerState

(* A list of declared nodes becomes a node table of new entries.           *)
LEMMA SyncedTable ==
    ASSUME NEW specs, DOMAIN specs \subseteq NodeIds,
           \A n \in DOMAIN specs : specs[n] \in NodeSpec
    PROVE  /\ DOMAIN Synced(specs) = DOMAIN specs
           /\ IsNodeTable(Synced(specs))
<1>1. DOMAIN Synced(specs) = DOMAIN specs
  BY DEF Synced
<1>2. IsNodeTable(Synced(specs))
  BY <1>1, NewRuntimeType DEF Synced, IsNodeTable
<1>3. QED
  BY <1>1, <1>2

(* Asking a breaker changes nothing but an open breaker's state.           *)
LEMMA AskedTable ==
    ASSUME NEW N, IsNodeTable(N), NEW cap
    PROVE  /\ DOMAIN Asked(N, cap) = DOMAIN N
           /\ IsNodeTable(Asked(N, cap))
           /\ \A n \in DOMAIN N :
                 /\ Asked(N, cap)[n].load = N[n].load
                 /\ Asked(N, cap)[n].quota = N[n].quota
                 /\ Asked(N, cap)[n].failures = N[n].failures
                 /\ Asked(N, cap)[n].elapsed = N[n].elapsed
                 /\ \/ Asked(N, cap)[n].state = N[n].state
                    \/ /\ N[n].state = "open"
                       /\ N[n].elapsed >= Cooldown
                       /\ Asked(N, cap)[n].state = "half_open"
<1>1. DOMAIN Asked(N, cap) = DOMAIN N
  BY DEF Asked
<1>2. ASSUME NEW n \in DOMAIN N
      PROVE  Asked(N, cap)[n] \in {N[n], AfterAllow(N[n])}
  BY DEF Asked
<1>3. \A n \in DOMAIN N : N[n] \in NodeRuntime
  BY DEF IsNodeTable
<1>4. IsNodeTable(Asked(N, cap))
  <2>1. \A n \in DOMAIN N : Asked(N, cap)[n] \in NodeRuntime
    BY <1>2, <1>3, RuntimeClosed
  <2>2. QED
    BY <2>1 DEF IsNodeTable, Asked
<1>5. ASSUME NEW rt \in NodeRuntime
      PROVE  /\ AfterAllow(rt).load = rt.load
             /\ AfterAllow(rt).quota = rt.quota
             /\ AfterAllow(rt).failures = rt.failures
             /\ AfterAllow(rt).elapsed = rt.elapsed
             /\ \/ AfterAllow(rt).state = rt.state
                \/ /\ rt.state = "open"
                   /\ rt.elapsed >= Cooldown
                   /\ AfterAllow(rt).state = "half_open"
  BY DEF AfterAllow, NodeRuntime
<1>6. QED
  BY <1>1, <1>2, <1>3, <1>4, <1>5

(* Placing on a node of the list, and releasing any, gives a node table.   *)
LEMMA PlacedTable ==
    ASSUME NEW N, IsNodeTable(N), NEW cap, NEW n \in DOMAIN N
    PROVE  IsNodeTable(Placed(N, cap, n))
<1> DEFINE A == Asked(N, cap)
<1>1. DOMAIN A = DOMAIN N /\ IsNodeTable(A)
  BY AskedTable
<1>2. [A[n] EXCEPT !.load = Inc(@)] \in NodeRuntime
  BY <1>1, RuntimeClosed DEF IsNodeTable
<1>3. Placed(N, cap, n) = [A EXCEPT ![n] = [A[n] EXCEPT !.load = Inc(@)]]
  BY DEF Placed
<1> HIDE DEF A
<1>4. QED
  BY <1>1, <1>2, <1>3 DEF IsNodeTable

LEMMA ReleasedTable ==
    ASSUME NEW N, IsNodeTable(N), NEW n
    PROVE  IsNodeTable(Released(N, n))
<1>1. \A m \in DOMAIN N : Released(N, n)[m] \in NodeRuntime
  BY RuntimeClosed DEF Released, IsNodeTable
<1>2. QED
  BY <1>1 DEF Released, IsNodeTable
=============================================================================
