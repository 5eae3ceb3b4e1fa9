---------------------------- MODULE ControlPlane ----------------------------
(***************************************************************************)
(* The gRPC ControlPlane service (control-plane/src/server.rs) over the    *)
(* in-memory task store (registry.rs) and the scheduler (SchedulerOps).    *)
(*                                                                         *)
(* Each request runs as a task of its own.  A handler is cut at its        *)
(* awaits: between two of them other handlers run, and there the transport *)
(* may drop a handler whose client went away.  One call of the store or of *)
(* the scheduler is one step: both hold their mutex for a whole call.      *)
(*                                                                         *)
(* The effect check that opens submit_task is not a step: under the        *)
(* context "spawn" that the handler sets, check_effect refuses nothing.    *)
(* The event bus is not modelled: nothing in cpd reads it.                 *)
(***************************************************************************)
EXTENDS SchedulerOps

CONSTANTS
    Rpcs,          \* requests, each used once: the bound of every behaviour
    TaskIds,       \* the ids Uuid::new_v4 may return
    Keys,          \* "<parent>/<idempotency_key>" as clients choose it
    Required,      \* the capability a submit asks for, parsed or not
    Specs,         \* what a node may declare to cpd
    None,          \* Option::None
    BrokerMayFail  \* whether DispatchBroker::dispatch may return an error

(* A capability string that does not parse: no node covers it.             *)
Unparsed == 4

ASSUME ControlPlaneAssumption ==
    /\ Required \subseteq Capability \cup {Unparsed}
    /\ Specs \subseteq NodeSpec
    /\ None \notin NodeIds \cup TaskIds \cup Keys
    /\ BrokerMayFail \in BOOLEAN

VARIABLES
    nodes,       \* the scheduler's entries
    tasks,       \* Inner::tasks, by id
    idem,        \* Inner::idem, by key
    rpc,         \* the handlers: where they are and what they hold
    dispatched,  \* <<task, topic>> pairs published to the workers
    view         \* what a WatchTasks client last saw of each task

vars == <<nodes, tasks, idem, rpc, dispatched, view>>

(* Running, Succeeded and Failed exist in the code but nothing in the      *)
(* control plane ever sets them: no one consumes report_result.            *)
Status == {"queued", "scheduled", "canceled"}

Task == [key : Keys, status : Status, node : NodeIds \cup {None}]
ASSUME NoneIsNoTask == None \notin Task

SubmitPoints == {"register", "assign", "schedule", "dispatch", "reply"}
CancelPoints == {"get", "release"}
Points == {"idle", "done", "aborted"} \cup SubmitPoints \cup CancelPoints

Rpc == [kind : {"none", "submit", "cancel"},
        at   : Points,
        key  : Keys \cup {None},
        cap  : Required \cup {None},
        node : NodeIds \cup {None},
        id   : TaskIds \cup {None}]

TypeOK ==
    /\ IsNodeTable(nodes)
    /\ tasks \in [TaskIds -> Task \cup {None}]
    /\ idem \in [Keys -> TaskIds \cup {None}]
    /\ rpc \in [Rpcs -> Rpc]
    /\ dispatched \subseteq TaskIds \X Required
    /\ view \in [TaskIds -> Status \cup {None}]

SpecTables == UNION {[S -> Specs] : S \in SUBSET NodeIds}
IdleRpc == [kind |-> "none", at |-> "idle", key |-> None, cap |-> None,
            node |-> None, id |-> None]

(* cpd starts with no nodes; a test or an embedder may start with some.    *)
Init ==
    /\ \E specs \in SpecTables : nodes = Synced(specs)
    /\ tasks = [t \in TaskIds |-> None]
    /\ idem = [k \in Keys |-> None]
    /\ rpc = [r \in Rpcs |-> IdleRpc]
    /\ dispatched = {}
    /\ view = [t \in TaskIds |-> None]

-----------------------------------------------------------------------------
(* submit_task. The node is chosen, and its slot taken, before the store   *)
(* is asked whether the task already exists.                               *)
Submitted(key, cap, node) ==
    [kind |-> "submit", at |-> "register", key |-> key, cap |-> cap,
     node |-> node, id |-> None]

SubmitTask(r, key, cap) ==
    /\ rpc[r].at = "idle"
    /\ \/ \E n \in LeastLoaded(nodes, cap) :
             /\ nodes' = Placed(nodes, cap, n)
             /\ rpc' = [rpc EXCEPT ![r] = Submitted(key, cap, n)]
       \/ /\ Eligible(nodes, cap) = {}
          /\ nodes' = Asked(nodes, cap)
          /\ rpc' = [rpc EXCEPT ![r] = Submitted(key, cap, None)]
    /\ UNCHANGED <<tasks, idem, dispatched, view>>

(* Mutants of AfterRegister: the node is not stored; the task is handed    *)
(* out before it is placed; it is called Scheduled without a node, too.    *)
AfterRegisterUnassigned(r) == IF rpc[r].node = None THEN "dispatch" ELSE "schedule"
AfterRegisterUnplaced(r) == "dispatch"
AfterRegisterAnyway(r) == IF rpc[r].node = None THEN "schedule" ELSE "assign"

(* Where a submit goes once it knows its task.                             *)
AfterRegister(r) == IF rpc[r].node = None THEN "dispatch" ELSE "assign"

(* registry.register, for a key it knows and for a new one.                *)
Reuse(r) ==
    /\ rpc[r].at = "register"
    /\ idem[rpc[r].key] # None
    /\ rpc' = [rpc EXCEPT ![r].id = idem[rpc[r].key],
                          ![r].at = AfterRegister(r)]
    /\ UNCHANGED <<nodes, tasks, idem, dispatched, view>>

(* Mutant of Register: the key is not looked up.                           *)
RegisterAlways(r, t) ==
    /\ rpc[r].at = "register"
    /\ tasks[t] = None
    /\ tasks' = [tasks EXCEPT ![t] = [key |-> rpc[r].key, status |-> "queued",
                                      node |-> None]]
    /\ idem' = [idem EXCEPT ![rpc[r].key] = t]
    /\ view' = [view EXCEPT ![t] = "queued"]
    /\ rpc' = [rpc EXCEPT ![r].id = t, ![r].at = AfterRegister(r)]
    /\ UNCHANGED <<nodes, dispatched>>

Register(r, t) ==
    /\ rpc[r].at = "register"
    /\ idem[rpc[r].key] = None
    /\ tasks[t] = None
    /\ tasks' = [tasks EXCEPT ![t] = [key |-> rpc[r].key, status |-> "queued",
                                      node |-> None]]
    /\ idem' = [idem EXCEPT ![rpc[r].key] = t]
    /\ view' = [view EXCEPT ![t] = "queued"]
    /\ rpc' = [rpc EXCEPT ![r].id = t, ![r].at = AfterRegister(r)]
    /\ UNCHANGED <<nodes, dispatched>>

(* registry.assign_node sends no event.                                    *)
AssignNode(r) ==
    /\ rpc[r].at = "assign"
    /\ tasks' = [tasks EXCEPT ![rpc[r].id].node = rpc[r].node]
    /\ rpc' = [rpc EXCEPT ![r].at = "schedule"]
    /\ UNCHANGED <<nodes, idem, dispatched, view>>

(* Mutant of SetScheduled: no event is sent.                               *)
SetScheduledSilently(r) ==
    /\ rpc[r].at = "schedule"
    /\ tasks' = [tasks EXCEPT ![rpc[r].id].status = "scheduled"]
    /\ rpc' = [rpc EXCEPT ![r].at = "dispatch"]
    /\ UNCHANGED <<nodes, idem, dispatched, view>>

(* registry.set_status(Scheduled), whatever the status is by now.          *)
SetScheduled(r) ==
    /\ rpc[r].at = "schedule"
    /\ tasks' = [tasks EXCEPT ![rpc[r].id].status = "scheduled"]
    /\ view' = [view EXCEPT ![rpc[r].id] = "scheduled"]
    /\ rpc' = [rpc EXCEPT ![r].at = "dispatch"]
    /\ UNCHANGED <<nodes, idem, dispatched>>

(* Mutant of Dispatch: a task without a node is not handed out.            *)
DispatchPlaced(r) ==
    /\ rpc[r].at = "dispatch"
    /\ dispatched' = IF rpc[r].node = None THEN dispatched
                     ELSE dispatched \cup {<<rpc[r].id, rpc[r].cap>>}
    /\ rpc' = [rpc EXCEPT ![r].at = "reply"]
    /\ UNCHANGED <<nodes, tasks, idem, view>>

(* dispatch.dispatch, also of a task no node was found for; an error is    *)
(* logged and the handler goes on.                                         *)
Dispatch(r) ==
    /\ rpc[r].at = "dispatch"
    /\ \/ dispatched' = dispatched \cup {<<rpc[r].id, rpc[r].cap>>}
       \/ BrokerMayFail /\ UNCHANGED dispatched
    /\ rpc' = [rpc EXCEPT ![r].at = "reply"]
    /\ UNCHANGED <<nodes, tasks, idem, view>>

(* bus.publish, then the answer.                                           *)
Reply(r) ==
    /\ rpc[r].at = "reply"
    /\ rpc' = [rpc EXCEPT ![r].at = "done"]
    /\ UNCHANGED <<nodes, tasks, idem, dispatched, view>>

-----------------------------------------------------------------------------
(* cancel_task, of a task the store knows; for another id nothing happens. *)
(* WatchTasks drops the Canceled event this sends.                         *)
CancelTask(r, t) ==
    /\ rpc[r].at = "idle"
    /\ tasks[t] # None
    /\ tasks' = [tasks EXCEPT ![t].status = "canceled"]
    /\ rpc' = [rpc EXCEPT ![r] = [IdleRpc EXCEPT !.kind = "cancel", !.at = "get",
                                                 !.id = t]]
    /\ UNCHANGED <<nodes, idem, dispatched, view>>

(* Mutant of CancelGet: the slot is forgotten.                             *)
CancelGetOnly(r) ==
    /\ rpc[r].at = "get"
    /\ rpc' = [rpc EXCEPT ![r].node = tasks[rpc[r].id].node, ![r].at = "done"]
    /\ UNCHANGED <<nodes, tasks, idem, dispatched, view>>

(* registry.get: the node the task has now.                                *)
CancelGet(r) ==
    /\ rpc[r].at = "get"
    /\ LET n == tasks[rpc[r].id].node
       IN  rpc' = [rpc EXCEPT ![r].node = n,
                              ![r].at = IF n = None THEN "done" ELSE "release"]
    /\ UNCHANGED <<nodes, tasks, idem, dispatched, view>>

CancelRelease(r) ==
    /\ rpc[r].at = "release"
    /\ nodes' = Released(nodes, rpc[r].node)
    /\ rpc' = [rpc EXCEPT ![r].at = "done"]
    /\ UNCHANGED <<tasks, idem, dispatched, view>>

-----------------------------------------------------------------------------
(* The transport drops the handler at an await: none separates get from    *)
(* release.                                                                *)
Abort(r) ==
    /\ rpc[r].at \in SubmitPoints \cup {"get"}
    /\ rpc' = [rpc EXCEPT ![r].at = "aborted"]
    /\ UNCHANGED <<nodes, tasks, idem, dispatched, view>>

(* The node synchronisation of cpd, with whatever the node registry holds. *)
SyncNodes(specs) ==
    /\ nodes' = Synced(specs)
    /\ UNCHANGED <<tasks, idem, rpc, dispatched, view>>

HandlerStep(r) ==
    \/ Reuse(r)
    \/ \E t \in TaskIds : Register(r, t)
    \/ AssignNode(r)
    \/ SetScheduled(r)
    \/ Dispatch(r)
    \/ Reply(r)
    \/ CancelGet(r)
    \/ CancelRelease(r)

Next ==
    \/ \E r \in Rpcs, key \in Keys, cap \in Required : SubmitTask(r, key, cap)
    \/ \E r \in Rpcs, t \in TaskIds : CancelTask(r, t)
    \/ \E r \in Rpcs : HandlerStep(r) \/ Abort(r)
    \/ \E specs \in SpecTables : SyncNodes(specs)

Spec == Init /\ [][Next]_vars
=============================================================================
