---------------------------- MODULE NodeRegistry ----------------------------
(***************************************************************************)
(* The node registry (control-plane/src/agent_registry.rs) and the two     *)
(* timers of cpd that read it: the cleanup of stale entries and the        *)
(* synchronisation of the scheduler's node list (control-plane/bin/cpd.rs).*)
(*                                                                         *)
(* A tick is the unit of time; Instants are kept as ages.  A timer re-arms *)
(* when its work is done and may fire up to MaxLate ticks late: tokio      *)
(* promises no more.                                                       *)
(***************************************************************************)
EXTENDS Integers

CONSTANTS
    NodeIds,          \* names of worker nodes
    CapSets,          \* what a node may declare it can do
    None,             \* no entry
    TTL,              \* HEARTBEAT_TTL (30 s)
    CleanupInterval,  \* CLEANUP_INTERVAL (15 s)
    SyncInterval,     \* NODE_SYNC_INTERVAL (30 s)
    MaxLate           \* how late a timer may fire

Positive == Nat \ {0}
ASSUME RegistryAssumption ==
    /\ TTL \in Positive
    /\ CleanupInterval \in Positive
    /\ SyncInterval \in Positive
    /\ MaxLate \in Nat
    /\ None \notin CapSets
    /\ None \notin [caps : CapSets, age : 0 .. TTL]

VARIABLES
    entries,    \* NodeRegistry::nodes: declared capabilities and age of the last beat
    sched,      \* the ids in the scheduler's list, with the capabilities it knows
    first,      \* cpd's first synchronisation is still to come
    cleanupIn,  \* ticks until the cleanup is due; negative when it is late
    syncIn,     \* ticks until the next synchronisation is due
    heard       \* history: ticks since a node's last accepted message

vars == <<entries, sched, first, cleanupIn, syncIn, heard>>

(* The longest a node may be silent and still be scheduled.                *)
Horizon == TTL + SyncInterval + MaxLate

(* Ages above TTL are all the same to the code.                            *)
Entry == [caps : CapSets, age : 0 .. TTL]

TypeOK ==
    /\ entries \in [NodeIds -> Entry \cup {None}]
    /\ DOMAIN sched \subseteq NodeIds
    /\ sched \in [DOMAIN sched -> CapSets]
    /\ first \in BOOLEAN
    /\ cleanupIn \in -MaxLate .. CleanupInterval
    /\ syncIn \in -MaxLate .. SyncInterval
    /\ heard \in [NodeIds -> 0 .. Horizon]

Init ==
    /\ entries = [n \in NodeIds |-> None]
    /\ sched = [n \in {} |-> {}]
    /\ first = TRUE
    /\ cleanupIn = CleanupInterval
    /\ syncIn = 0
    /\ heard = [n \in NodeIds |-> Horizon]

-----------------------------------------------------------------------------
Registered(n) == entries[n] # None

(* Mutant of Fresh: a beat counts for one tick less than the TTL.          *)
FreshTooShort == {n \in NodeIds : Registered(n) /\ entries[n].age + 1 < TTL}

(* fresh_nodes, and what node_spec_to_scheduler_node keeps of an entry.    *)
Fresh == {n \in NodeIds : Registered(n) /\ entries[n].age < TTL}
FreshNodes == [n \in Fresh |-> entries[n].caps]

(* register: a new entry, or a new declaration of a known node.            *)
RegisterNode(n, caps) ==
    /\ entries' = [entries EXCEPT ![n] = [caps |-> caps, age |-> 0]]
    /\ heard' = [heard EXCEPT ![n] = 0]
    /\ UNCHANGED <<sched, first, cleanupIn, syncIn>>

(* heartbeat of a known node, which may carry a new declaration. From an   *)
(* unknown node it is refused and changes nothing.                         *)
Heartbeat(n, declared) ==
    /\ Registered(n)
    /\ entries' = [entries EXCEPT
                     ![n] = [caps |-> IF declared = None THEN @.caps ELSE declared,
                             age |-> 0]]
    /\ heard' = [heard EXCEPT ![n] = 0]
    /\ UNCHANGED <<sched, first, cleanupIn, syncIn>>

(* The cleanup task.                                                       *)
Cleanup ==
    /\ cleanupIn <= 0
    /\ entries' = [n \in NodeIds |-> IF n \in Fresh THEN entries[n] ELSE None]
    /\ cleanupIn' = CleanupInterval
    /\ UNCHANGED <<sched, first, syncIn, heard>>

(* The sync task of cpd: its first pass skips an empty list, every later   *)
(* one replaces the scheduler's list.                                      *)
FirstSync ==
    /\ first
    /\ sched' = IF Fresh = {} THEN sched ELSE FreshNodes
    /\ first' = FALSE
    /\ syncIn' = SyncInterval
    /\ UNCHANGED <<entries, cleanupIn, heard>>

SyncWith(table) ==
    /\ ~first
    /\ syncIn <= 0
    /\ sched' = table
    /\ syncIn' = SyncInterval
    /\ UNCHANGED <<entries, first, cleanupIn, heard>>

(* Mutants of Sync: nodes that left stay; an empty list is skipped, as in  *)
(* the first pass; a known node keeps its old declaration.                 *)
SyncMerges ==
    SyncWith([n \in Fresh \cup DOMAIN sched |->
                 IF n \in Fresh THEN entries[n].caps ELSE sched[n]])
SyncSkipsEmpty == SyncWith(IF Fresh = {} THEN sched ELSE FreshNodes)
SyncKeepsKnown ==
    SyncWith([n \in Fresh |-> IF n \in DOMAIN sched THEN sched[n]
                              ELSE entries[n].caps])

Sync == SyncWith(FreshNodes)

(* Time passes, but not beyond the lateness of a timer.                    *)
UpTo(bound, t) == IF t < bound THEN t + 1 ELSE bound
Tick ==
    /\ cleanupIn > -MaxLate
    /\ syncIn > -MaxLate
    /\ cleanupIn' = cleanupIn - 1
    /\ syncIn' = syncIn - 1
    /\ entries' = [n \in NodeIds |->
                     IF Registered(n) THEN [entries[n] EXCEPT !.age = UpTo(TTL, @)]
                                      ELSE None]
    /\ heard' = [n \in NodeIds |-> UpTo(Horizon, heard[n])]
    /\ UNCHANGED <<sched, first>>

Next ==
    \/ \E n \in NodeIds, caps \in CapSets : RegisterNode(n, caps)
    \/ \E n \in NodeIds, declared \in CapSets \cup {None} : Heartbeat(n, declared)
    \/ Cleanup
    \/ FirstSync
    \/ Sync
    \/ Tick

(* Time goes on and both tasks are polled; nodes owe nothing.              *)
Spec ==
    /\ Init
    /\ [][Next]_vars
    /\ WF_vars(Tick) /\ WF_vars(Cleanup) /\ WF_vars(FirstSync) /\ WF_vars(Sync)

-----------------------------------------------------------------------------
(* A task is never placed on a node that has been silent for as long as    *)
(* its heartbeat may be old at a synchronisation plus the time to the      *)
(* next one: the two periods of agent_registry.rs and cpd.rs add up, and   *)
(* nothing else does.                                                      *)
NoSilentTarget == \A n \in DOMAIN sched : heard[n] < Horizon

(* A node that was heard within its TTL is never dropped, whichever of     *)
(* cleanup and synchronisation runs, in whatever order, however late.      *)
LiveNodeIsKept ==
    [][\A n \in NodeIds : heard[n] < TTL =>
          /\ entries'[n] # None
          /\ n \in DOMAIN sched => n \in DOMAIN sched']_vars

(* A node that falls silent for good leaves the scheduler for good.        *)
SilentNodeLeaves ==
    \A n \in NodeIds :
        <>[](heard[n] >= TTL) => <>[](n \notin DOMAIN sched)

(* A node that keeps beating is scheduled in the end, for what it last     *)
(* declared.                                                               *)
DeclaredIsScheduled ==
    \A n \in NodeIds, caps \in CapSets :
        <>[](n \in Fresh /\ entries[n].caps = caps)
            => <>[](n \in DOMAIN sched /\ sched[n] = caps)
=============================================================================
