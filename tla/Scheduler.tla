----------------------------- MODULE Scheduler ------------------------------
(***************************************************************************)
(* CapabilityScheduler (control-plane/src/scheduler.rs) as the component   *)
(* its callers see behind Arc<Mutex<..>>: every method is one step.        *)
(*                                                                         *)
(* "hist" is a history variable the code does not have.  For each node id: *)
(*   held    placements on it that were not released yet,                  *)
(*   dropped an entry of it was rebuilt while some were held,              *)
(*   streak  failures reported since its entry was built or succeeded,     *)
(*   rest    ticks since the last of them (up to Cooldown),                *)
(*   probes  placements on it since its breaker went half-open (2: or more)*)
(***************************************************************************)
EXTENDS SchedulerOps

CONSTANTS
    Specs,        \* what a node may declare
    MaxHeld,      \* bound: placements held at once on a node
    MaxFailures   \* bound: failures a breaker counts

ASSUME SchedulerAssumption ==
    /\ Specs \subseteq NodeSpec
    /\ MaxHeld \in Nat
    /\ MaxHeld < Word         \* 2^64 placements are out of reach
    /\ MaxFailures \in Nat

VARIABLES
    nodes,   \* the entries, by id
    hist

vars == <<nodes, hist>>

History == [held : Nat, dropped : BOOLEAN, streak : Nat, rest : 0 .. Cooldown,
            probes : 0 .. 2]

TypeOK ==
    /\ IsNodeTable(nodes)
    /\ hist \in [NodeIds -> History]

NoHistory == [held |-> 0, dropped |-> FALSE, streak |-> 0, rest |-> 0,
              probes |-> 0]

SpecTables == UNION {[S -> Specs] : S \in SUBSET NodeIds}

-----------------------------------------------------------------------------
(* CapabilityScheduler::new, with any list of nodes.                       *)
Init ==
    /\ \E specs \in SpecTables : nodes = Synced(specs)
    /\ hist = [n \in NodeIds |-> NoHistory]

(* place that finds a node.                                                *)
Place(cap) ==
    \E n \in LeastLoaded(nodes, cap) :
        /\ hist[n].held < MaxHeld
        /\ nodes' = Placed(nodes, cap, n)
        /\ hist' = [hist EXCEPT
                      ![n].held = @ + 1,
                      ![n].probes = IF nodes'[n].state = "half_open" /\ @ < 2
                                    THEN @ + 1 ELSE @]

(* place that finds none: the breakers were asked all the same.            *)
Reject(cap) ==
    /\ Eligible(nodes, cap) = {}
    /\ nodes' = Asked(nodes, cap)
    /\ UNCHANGED hist

(* release, by a caller that still holds a placement on the node; the node *)
(* may have left the list, or been rebuilt, since.                         *)
Release(n) ==
    /\ hist[n].held > 0
    /\ nodes' = Released(nodes, n)
    /\ hist' = [hist EXCEPT ![n].held = @ - 1]

MarkFailure(n) ==
    /\ n \in DOMAIN nodes
    /\ nodes[n].failures < MaxFailures
    /\ nodes' = [nodes EXCEPT ![n] = AfterFailure(@)]
    /\ hist' = [hist EXCEPT ![n].streak = @ + 1, ![n].rest = 0, ![n].probes = 0]

MarkSuccess(n) ==
    /\ n \in DOMAIN nodes
    /\ nodes' = [nodes EXCEPT ![n] = AfterSuccess(@)]
    /\ hist' = [hist EXCEPT ![n].streak = 0, ![n].rest = 0, ![n].probes = 0]

(* The history of the ids in S when their entries are (re)built.           *)
Rebuilt(S) ==
    [n \in NodeIds |->
        IF n \in S
        THEN [NoHistory EXCEPT !.held = hist[n].held,
                               !.dropped = hist[n].held > 0]
        ELSE hist[n]]

AddNode(n, spec) ==
    /\ nodes' = Added(nodes, n, spec)
    /\ hist' = Rebuilt({n})

SyncNodes(specs) ==
    /\ nodes' = Synced(specs)
    /\ hist' = Rebuilt(DOMAIN specs)

(* Time passes for every breaker.                                          *)
Later(t) == IF t < Cooldown THEN t + 1 ELSE t
Tick ==
    /\ nodes' = [n \in DOMAIN nodes |->
                    [nodes[n] EXCEPT !.elapsed = Later(@)]]
    /\ hist' = [n \in NodeIds |-> [hist[n] EXCEPT !.rest = Later(@)]]

Next ==
    \/ \E cap \in Capability : Place(cap) \/ Reject(cap)
    \/ \E n \in NodeIds : Release(n) \/ MarkFailure(n) \/ MarkSuccess(n)
    \/ \E specs \in SpecTables : SyncNodes(specs)
    \/ \E n \in NodeIds, spec \in Specs : AddNode(n, spec)
    \/ Tick

Spec == Init /\ [][Next]_vars

-----------------------------------------------------------------------------
(* An entry that never lost a placement counts exactly the placements      *)
(* still held on it, and its quota, when it has one, bounds them: the      *)
(* back-pressure of place works through any mix of placements, releases,   *)
(* breaker changes and re-registrations of other nodes.                    *)
LoadIsHeld ==
    \A n \in DOMAIN nodes :
        ~hist[n].dropped =>
            /\ nodes[n].load = hist[n].held
            /\ nodes[n].quota # NoQuota => hist[n].held <= nodes[n].quota

(* The breaker remembers failures: it is shut exactly while fewer than     *)
(* Threshold failures were reported since the last success, so that a      *)
(* half-open node that fails again is refused at once.                     *)
BreakerTracksStreak ==
    \A n \in DOMAIN nodes :
        nodes[n].state = "closed" <=> hist[n].streak < Threshold

(* A node that failed Threshold times in a row gets no task before it      *)
(* rested for Cooldown ticks after the last failure, whatever else was     *)
(* placed, refused or released in between.                                 *)
RestedBeforeReuse ==
    [][\A n \in NodeIds :
          hist'[n].held > hist[n].held =>
              hist[n].streak < Threshold \/ hist[n].rest >= Cooldown]_vars

(* scheduler.rs:262 says sync_nodes keeps the runtime state (load and      *)
(* breaker) of the nodes that stay.  The code rebuilds every entry.        *)
SyncKeepsRuntimeState ==
    [][\A specs \in SpecTables : SyncNodes(specs) =>
          \A n \in DOMAIN specs \cap DOMAIN nodes :
              /\ nodes'[n].load = nodes[n].load
              /\ nodes'[n].state = nodes[n].state]_vars

(* scheduler.rs:119 says a half-open breaker admits one probe.  The code   *)
(* admits every placement until an outcome is reported.                    *)
HalfOpenProbesOnce ==
    \A n \in DOMAIN nodes : nodes[n].state = "half_open" => hist[n].probes <= 1
=============================================================================
