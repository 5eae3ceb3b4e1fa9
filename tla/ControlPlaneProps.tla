-------------------------- MODULE ControlPlaneProps -------------------------
(* What the ControlPlane service guarantees, to every client and to a      *)
(* careful one.                                                            *)
EXTENDS ControlPlane, FiniteSets

(* The submits that know their task.                                       *)
Identified == {r \in Rpcs : rpc[r].kind = "submit" /\ rpc[r].id # None}

(* submit_task is idempotent: however submits, retries, cancels and        *)
(* dropped handlers interleave, all submits of one key get the same task,  *)
(* the store holds no second task of that key, and no task is ever handed  *)
(* to a submit of another key.                                             *)
Idempotent ==
    /\ \A r \in Identified :
          /\ tasks[rpc[r].id] # None
          /\ tasks[rpc[r].id].key = rpc[r].key
    /\ \A t, u \in TaskIds :
          tasks[t] # None /\ tasks[u] # None /\ tasks[t].key = tasks[u].key
              => t = u

(* A task shown as Scheduled names its node, though node and status are    *)
(* written by two calls of the store and any number of submits of the same *)
(* task may interleave theirs.                                             *)
ScheduledHasNode ==
    \A t \in TaskIds :
        tasks[t] # None => (tasks[t].status = "scheduled" => tasks[t].node # None)

(* When a placed submit hands its task to the workers, the store has its   *)
(* node and does not call it Queued any more, nor will it ever again.      *)
DispatchAfterSchedule ==
    \A r \in Identified :
        rpc[r].at \in {"dispatch", "reply", "done"} /\ rpc[r].node # None =>
            /\ tasks[rpc[r].id].node # None
            /\ tasks[rpc[r].id].status # "queued"

(* A WatchTasks client that keeps up is never behind the store, except on  *)
(* cancellations, which the stream leaves out.                             *)
WatcherKeepsUp ==
    \A t \in TaskIds :
        tasks[t] # None => view[t] = tasks[t].status \/ tasks[t].status = "canceled"

(* A canceled task to which nothing still under way can write: every submit *)
(* of its key that has a node is past set_status(Scheduled), or was dropped. *)
Settled(t) ==
    /\ tasks[t] # None
    /\ tasks[t].status = "canceled"
    /\ \A r \in Rpcs :
          rpc[r].kind = "submit" /\ rpc[r].key = tasks[t].key /\ rpc[r].node # None =>
              rpc[r].at \notin {"register", "assign", "schedule"}

(* A submit of the same key comes in and finds a node.                     *)
Resubmitted(t) ==
    \E r \in Rpcs :
        /\ rpc[r].at = "idle"
        /\ rpc'[r].kind = "submit" /\ rpc'[r].key = tasks[t].key /\ rpc'[r].node # None

(* Only a placed submit of the same key undoes a cancel, be it under way   *)
(* when the cancel comes or a retry after it: once those are through, the  *)
(* task stays canceled, whatever other submits, retries without a node,    *)
(* repeated cancels and dropped handlers do, until the next placed retry.  *)
CanceledIsFinal ==
    [][\A t \in TaskIds : Settled(t) => Settled(t)' \/ Resubmitted(t)]_vars

(* server.rs:198: a cancel frees the slot its task occupies. So, over its  *)
(* whole life, a task frees no more slots of a node than its submits took. *)
CancelFreesOwnSlot ==
    \A t \in TaskIds, n \in NodeIds :
        Cardinality({r \in Rpcs : rpc[r].kind = "cancel" /\ rpc[r].at = "done"
                                  /\ rpc[r].id = t /\ rpc[r].node = n})
        <= Cardinality({r \in Rpcs : rpc[r].kind = "submit"
                                     /\ rpc[r].id = t /\ rpc[r].node = n})

-----------------------------------------------------------------------------
(* Careful clients use a key once, cancel a task once and only after its   *)
(* submit was answered, and stay connected; the node list does not change. *)
(* Their requests are fewer than a load can count.                         *)
ASSUME RequestsAreCounted == IsFiniteSet(Rpcs) /\ Cardinality(Rpcs) < Word

CarefulSubmit(r, key, cap) ==
    /\ \A s \in Rpcs : rpc[s].key # key
    /\ SubmitTask(r, key, cap)

CarefulCancel(r, t) ==
    /\ \E s \in Rpcs : rpc[s].kind = "submit" /\ rpc[s].id = t /\ rpc[s].at = "done"
    /\ \A s \in Rpcs : rpc[s].kind = "cancel" => rpc[s].id # t
    /\ CancelTask(r, t)

CarefulNext ==
    \/ \E r \in Rpcs, key \in Keys, cap \in Required : CarefulSubmit(r, key, cap)
    \/ \E r \in Rpcs, t \in TaskIds : CarefulCancel(r, t)
    \/ \E r \in Rpcs : HandlerStep(r)

(* The runtime polls every handler that can go on.                         *)
CarefulSpec ==
    /\ Init
    /\ [][CarefulNext]_vars
    /\ \A r \in Rpcs : WF_vars(HandlerStep(r))

(* Who holds a slot of n: a placed submit whose task has no node yet, a    *)
(* scheduled or assigned task, a cancel on its way to free the slot.       *)
Placing(n) == {r \in Rpcs : rpc[r].node = n /\ rpc[r].at \in {"register", "assign"}}
Occupying(n) == {t \in TaskIds : /\ tasks[t] # None
                                 /\ tasks[t].node = n
                                 /\ tasks[t].status # "canceled"}
Freeing(n) == {r \in Rpcs : /\ rpc[r].kind = "cancel"
                            /\ rpc[r].at \in {"get", "release"}
                            /\ tasks[rpc[r].id].node = n}

(* For careful clients the scheduler's load of a node is exactly the tasks *)
(* on it, at every point between the steps of place, assign_node, cancel   *)
(* and release: no slot is leaked and none is freed twice.                 *)
SlotsMatchTasks ==
    \A n \in DOMAIN nodes :
        nodes[n].load = Cardinality(Placing(n)) + Cardinality(Occupying(n))
                        + Cardinality(Freeing(n))

(* Every submit is answered in the end, and by then its task was           *)
(* dispatched to the topic of the capability it asked for, provided the    *)
(* broker does not fail.                                                   *)
SubmitReachesWorkers ==
    \A r \in Rpcs :
        rpc[r].kind = "submit" ~>
            /\ rpc[r].at = "done"
            /\ BrokerMayFail \/ <<rpc[r].id, rpc[r].cap>> \in dispatched
=============================================================================
