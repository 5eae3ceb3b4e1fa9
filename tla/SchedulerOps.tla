---------------------------- MODULE SchedulerOps ----------------------------
(***************************************************************************)
(* The value-level operations of control-plane/src/scheduler.rs: the       *)
(* capability chain, the circuit breaker of one node and the list of nodes *)
(* the CapabilityScheduler keeps.                                          *)
(*                                                                         *)
(* The scheduler's Vec<NodeRuntime> is a function from the ids of its      *)
(* entries to runtimes.  The order of the Vec only breaks ties between     *)
(* equally loaded nodes; cpd fills it by iterating a HashMap, so the order *)
(* is arbitrary, and a tie is left open here.                              *)
(* Time is relative: "elapsed" counts ticks since the breaker opened and   *)
(* stops at Cooldown, beyond which the code does not look.                 *)
(***************************************************************************)
EXTENDS Naturals

CONSTANTS
    NodeIds,    \* names of compute nodes
    NoQuota,    \* the quota None: no limit
    Threshold,  \* consecutive failures that open a breaker (3 in the code)
    Cooldown,   \* ticks an open breaker refuses work (30 s in the code)
    Word        \* loads are counted modulo Word (2^64 for a usize)

ASSUME OpsAssumption ==
    /\ NoQuota \notin Nat
    /\ Threshold \in Nat \ {0}
    /\ Cooldown \in Nat \ {0}
    /\ Word \in Nat \ {0}

-----------------------------------------------------------------------------
(* Capability::{Cpu, Gpu, Sfa, Net}, by discriminant.                      *)
Cpu == 0
Gpu == 1
Sfa == 2
Net == 3
Capability == {Cpu, Gpu, Sfa, Net}

BreakerState == {"closed", "open", "half_open"}

(* struct Node: what a node declares. Every Node of the program starts     *)
(* with load 0 (Node::new; only a unit test seeds another load).           *)
NodeSpec == [caps : SUBSET Capability, quota : Nat \cup {NoQuota}]

(* struct NodeRuntime with its CircuitBreaker inlined.                     *)
NodeRuntime == [caps     : SUBSET Capability,
                quota    : Nat \cup {NoQuota},
                load     : 0 .. Word - 1,
                failures : Nat,
                state    : BreakerState,
                elapsed  : 0 .. Cooldown]

(* N is a node list the scheduler may keep.                                *)
IsNodeTable(N) == DOMAIN N \subseteq NodeIds /\ N \in [DOMAIN N -> NodeRuntime]

(* An entry as new, add_node and sync_nodes build it: a closed breaker and *)
(* no load, whatever the scheduler knew of that id before.                 *)
NewRuntime(spec) == [caps |-> spec.caps, quota |-> spec.quota, load |-> 0,
                     failures |-> 0, state |-> "closed", elapsed |-> 0]

(* AtomicUsize::fetch_add / fetch_sub wrap around.                         *)
Inc(x) == IF x = Word - 1 THEN 0 ELSE x + 1
Dec(x) == IF x = 0 THEN Word - 1 ELSE x - 1

-----------------------------------------------------------------------------
(* required.leq(c) for one of the capabilities the node declares.          *)
Covers(rt, cap) == \E c \in rt.caps : cap <= c

(* CircuitBreaker::allow: its answer, and what asking leaves behind.       *)
Allows(rt) == rt.state = "open" => rt.elapsed >= Cooldown
AfterAllow(rt) ==
    IF rt.state = "open" /\ rt.elapsed >= Cooldown
    THEN [rt EXCEPT !.state = "half_open"]
    ELSE rt

(* Mutant of AfterFailure: the clock runs on from the first opening.       *)
AfterFailureKeepsClock(rt) ==
    [rt EXCEPT !.failures = @ + 1,
               !.state = IF rt.failures + 1 >= Threshold THEN "open" ELSE @]

(* CircuitBreaker::record_failure: the count is never reset by opening, so *)
(* one failure of a half-open breaker opens it again.                      *)
AfterFailure(rt) ==
    IF rt.failures + 1 >= Threshold
    THEN [rt EXCEPT !.failures = @ + 1, !.state = "open", !.elapsed = 0]
    ELSE [rt EXCEPT !.failures = @ + 1]

(* Mutant of AfterSuccess: the failures stay.                              *)
AfterSuccessKeepsCount(rt) == [rt EXCEPT !.state = "closed"]

(* CircuitBreaker::record_success.                                         *)
AfterSuccess(rt) == [rt EXCEPT !.failures = 0, !.state = "closed"]

-----------------------------------------------------------------------------
(* Mutant of HasRoom: off by one.                                          *)
HasRoomAtQuota(rt) == rt.quota = NoQuota \/ rt.load <= rt.quota

HasRoom(rt) == rt.quota = NoQuota \/ rt.load < rt.quota

(* The nodes the loop of place considers, and those it may settle on.      *)
Eligible(N, cap) ==
    {n \in DOMAIN N : Covers(N[n], cap) /\ Allows(N[n]) /\ HasRoom(N[n])}
LeastLoaded(N, cap) ==
    {n \in Eligible(N, cap) :
        \A m \in Eligible(N, cap) : N[n].load <= N[m].load}

(* place asks the breaker of every capable node, also of those it then     *)
(* skips for their quota or their load: each may turn half-open.           *)
Asked(N, cap) ==
    [n \in DOMAIN N |-> IF Covers(N[n], cap) THEN AfterAllow(N[n]) ELSE N[n]]

Placed(N, cap, n) == [Asked(N, cap) EXCEPT ![n].load = Inc(@)]

(* release, mark_failure and mark_success ignore an id they do not know.   *)
Released(N, n) ==
    [m \in DOMAIN N |-> IF m = n THEN [N[m] EXCEPT !.load = Dec(@)] ELSE N[m]]

(* add_node: drop an entry of that id, append a new one.                   *)
Added(N, n, spec) ==
    [m \in DOMAIN N \cup {n} |-> IF m = n THEN NewRuntime(spec) ELSE N[m]]

(* new and sync_nodes: the given nodes, all of them as new entries.        *)
Synced(specs) == [n \in DOMAIN specs |-> NewRuntime(specs[n])]
=============================================================================
