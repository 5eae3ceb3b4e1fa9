------------------------- MODULE ControlPlaneProofs -------------------------
(***************************************************************************)
(* Safety of the ControlPlane service for any number of requests, tasks,   *)
(* keys and nodes.                                                         *)
(*                                                                         *)
(* StoreInv relates the two maps of the store to each other and to what a  *)
(* watcher saw; HandlerInv(r) says what a handler may rely on at the await *)
(* where it stands.  A step of one handler keeps HandlerInv of the others  *)
(* because records only grow (Grows): a task keeps its key and its node,   *)
(* and never goes back to Queued.  What only holds while clients are       *)
(* careful is proved last, from CarefulInv and LoadInv.                    *)
(***************************************************************************)
EXTENDS ControlPlaneProps, SchedulerOpsProofs, FiniteSetTheorems

StoreInv ==
    /\ \A k \in Keys : idem[k] # None => /\ tasks[idem[k]] # None
                                         /\ tasks[idem[k]].key = k
    /\ \A t \in TaskIds : tasks[t] # None => idem[tasks[t].key] = t
    /\ ScheduledHasNode
    /\ WatcherKeepsUp

HandlerInv(r) ==
    /\ rpc[r].at \in SubmitPoints => rpc[r].kind = "submit"
    /\ rpc[r].at \in CancelPoints =>
          rpc[r].kind = "cancel" /\ rpc[r].id # None /\ tasks[rpc[r].id] # None
    /\ rpc[r].kind = "submit" => rpc[r].key # None /\ rpc[r].cap \in Required
    /\ rpc[r].at \in {"assign", "schedule", "dispatch", "reply"} => rpc[r].id # None
    /\ rpc[r].at \in {"assign", "schedule"} => rpc[r].node # None
    /\ rpc[r].kind = "submit" /\ rpc[r].id # None =>
          /\ tasks[rpc[r].id] # None
          /\ tasks[rpc[r].id].key = rpc[r].key
          /\ rpc[r].at = "schedule" => tasks[rpc[r].id].node # None
          /\ rpc[r].at \in {"dispatch", "reply", "done"} /\ rpc[r].node # None =>
                tasks[rpc[r].id].node # None /\ tasks[rpc[r].id].status # "queued"

IInv == TypeOK /\ StoreInv /\ \A r \in Rpcs : HandlerInv(r)

(* What every step does to the tasks of the store.                         *)
Grows ==
    \A t \in TaskIds : tasks[t] # None =>
        /\ tasks'[t] # None
        /\ tasks'[t].key = tasks[t].key
        /\ tasks[t].node # None => tasks'[t].node # None
        /\ tasks[t].status # "queued" => tasks'[t].status # "queued"

-----------------------------------------------------------------------------
(* A list of declared nodes becomes a node table.                          *)
LEMMA SpecsDeclare ==
    ASSUME NEW specs \in SpecTables
    PROVE  IsNodeTable(Synced(specs))
<1>1. DOMAIN specs \subseteq NodeIds /\ \A n \in DOMAIN specs : specs[n] \in Specs
  BY DEF SpecTables
<1>2. \A n \in DOMAIN specs : specs[n] \in NodeSpec
  BY <1>1, ControlPlaneAssumption
<1>3. QED
  BY <1>1, <1>2, SyncedTable

LEMMA InitIInv == Init => IInv
<1> SUFFICES ASSUME Init PROVE IInv
  OBVIOUS
<1>1. TypeOK
  <2>1. IsNodeTable(nodes)
    BY SpecsDeclare DEF Init
  <2>2. IdleRpc \in Rpc
    BY DEF IdleRpc, Rpc, Points
  <2>3. QED
    BY <2>1, <2>2 DEF Init, TypeOK
<1>2. StoreInv
  BY DEF Init, StoreInv, ScheduledHasNode, WatcherKeepsUp
<1>3. \A r \in Rpcs : HandlerInv(r)
  BY DEF Init, HandlerInv, IdleRpc, SubmitPoints, CancelPoints
<1>4. QED
  BY <1>1, <1>2, <1>3 DEF IInv

(* A step of handler r that leaves the records growing keeps what the      *)
(* other handlers rely on: only r itself remains to be looked at.          *)
LEMMA HandlerStepInv ==
    ASSUME IInv, NEW r \in Rpcs, NEW q \in Rpc, rpc' = [rpc EXCEPT ![r] = q],
           Grows, HandlerInv(r)'
    PROVE  /\ rpc' \in [Rpcs -> Rpc]
           /\ \A s \in Rpcs : HandlerInv(s)'
<1>1. rpc \in [Rpcs -> Rpc]
  BY DEF IInv, TypeOK
<1>2. ASSUME NEW s \in Rpcs, s # r
      PROVE  HandlerInv(s)'
  <2>1. rpc'[s] = rpc[s] /\ rpc[s].id \in TaskIds \cup {None}
    BY <1>1, <1>2 DEF Rpc
  <2>2. HandlerInv(s)
    BY DEF IInv
  <2>3. QED
    BY <2>1, <2>2 DEF HandlerInv, Grows, CancelPoints
<1>3. QED
  BY <1>1, <1>2

(* The steps of a handler that leave the store alone.                      *)
LEMMA StoreUntouched ==
    ASSUME IInv, NEW r \in Rpcs, NEW q \in Rpc, rpc' = [rpc EXCEPT ![r] = q],
           IsNodeTable(nodes'), dispatched' \subseteq TaskIds \X Required,
           UNCHANGED <<tasks, idem, view>>,
           HandlerInv(r)'
    PROVE  IInv'
<1>1. Grows
  BY DEF Grows
<1>2. rpc' \in [Rpcs -> Rpc] /\ \A s \in Rpcs : HandlerInv(s)'
  BY <1>1, HandlerStepInv
<1>3. TypeOK'
  BY <1>2 DEF IInv, TypeOK
<1>4. StoreInv'
  BY DEF IInv, StoreInv, ScheduledHasNode, WatcherKeepsUp
<1>5. QED
  BY <1>2, <1>3, <1>4 DEF IInv

-----------------------------------------------------------------------------
LEMMA SubmitTaskIInv ==
    ASSUME IInv, NEW r \in Rpcs, NEW key \in Keys, NEW cap \in Required,
           SubmitTask(r, key, cap)
    PROVE  IInv'
<1>1. IsNodeTable(nodes) /\ rpc \in [Rpcs -> Rpc]
  BY DEF IInv, TypeOK
<1>2. PICK n \in NodeIds \cup {None} :
          IsNodeTable(nodes') /\ rpc' = [rpc EXCEPT ![r] = Submitted(key, cap, n)]
  <2>1. CASE \E n \in LeastLoaded(nodes, cap) :
                /\ nodes' = Placed(nodes, cap, n)
                /\ rpc' = [rpc EXCEPT ![r] = Submitted(key, cap, n)]
    <3>1. PICK m \in LeastLoaded(nodes, cap) :
              /\ nodes' = Placed(nodes, cap, m)
              /\ rpc' = [rpc EXCEPT ![r] = Submitted(key, cap, m)]
      BY <2>1
    <3>2. m \in DOMAIN nodes /\ m \in NodeIds
      BY <1>1 DEF LeastLoaded, Eligible, IsNodeTable
    <3>3. IsNodeTable(nodes')
      BY <1>1, <3>1, <3>2, PlacedTable
    <3>4. QED
      BY <3>1, <3>2, <3>3
  <2>2. CASE /\ nodes' = Asked(nodes, cap)
             /\ rpc' = [rpc EXCEPT ![r] = Submitted(key, cap, None)]
    BY <1>1, <2>2, AskedTable
  <2>3. QED
    BY <2>1, <2>2 DEF SubmitTask
<1>3. Submitted(key, cap, n) \in Rpc
  BY DEF Submitted, Rpc, Points, SubmitPoints
<1>4. HandlerInv(r)'
  BY <1>1, <1>2, ControlPlaneAssumption
     DEF HandlerInv, Submitted, SubmitPoints, CancelPoints
<1>5. QED
  BY <1>2, <1>3, <1>4, StoreUntouched DEF SubmitTask, IInv, TypeOK

(* A handler knows its own record: its type and what it relies on.         *)
LEMMA HandlerKnows ==
    ASSUME IInv, NEW r \in Rpcs
    PROVE  /\ rpc[r] \in Rpc /\ HandlerInv(r)
           /\ rpc \in [Rpcs -> Rpc] /\ IsNodeTable(nodes)
           /\ dispatched \subseteq TaskIds \X Required
           /\ rpc[r].id # None => rpc[r].id \in TaskIds
           /\ rpc[r].key # None => rpc[r].key \in Keys
           /\ rpc[r].node # None => rpc[r].node \in NodeIds
  BY DEF IInv, TypeOK, Rpc

LEMMA ReuseIInv ==
    ASSUME IInv, NEW r \in Rpcs, Reuse(r)
    PROVE  IInv'
<1> DEFINE q == [rpc[r] EXCEPT !.id = idem[rpc[r].key], !.at = AfterRegister(r)]
<1>1. /\ rpc[r] \in Rpc /\ rpc \in [Rpcs -> Rpc]
      /\ rpc[r].kind = "submit" /\ rpc[r].key \in Keys /\ rpc[r].cap \in Required
  BY HandlerKnows DEF Reuse, HandlerInv, SubmitPoints
<1>2. /\ idem[rpc[r].key] \in TaskIds /\ idem[rpc[r].key] # None
      /\ tasks[idem[rpc[r].key]] # None /\ tasks[idem[rpc[r].key]].key = rpc[r].key
  BY <1>1 DEF Reuse, IInv, TypeOK, StoreInv
<1>3. AfterRegister(r) \in {"dispatch", "assign"}
      /\ (AfterRegister(r) = "assign" <=> rpc[r].node # None)
  BY DEF AfterRegister
<1>4. q \in Rpc /\ rpc' = [rpc EXCEPT ![r] = q]
  BY <1>1, <1>2, <1>3 DEF Reuse, Rpc, Points, SubmitPoints
<1>5. HandlerInv(r)'
  <2>1. /\ rpc'[r].at = AfterRegister(r) /\ rpc'[r].id = idem[rpc[r].key]
        /\ rpc'[r].kind = "submit" /\ rpc'[r].key = rpc[r].key
        /\ rpc'[r].node = rpc[r].node /\ rpc'[r].cap = rpc[r].cap
    BY <1>1, <1>4 DEF Rpc
  <2>2. tasks' = tasks /\ rpc[r].key # None
    BY <1>1, ControlPlaneAssumption DEF Reuse
  <2>3. QED
    BY <1>1, <1>2, <1>3, <2>1, <2>2 DEF HandlerInv, SubmitPoints, CancelPoints
<1>6. QED
  BY <1>4, <1>5, StoreUntouched, HandlerKnows DEF Reuse

LEMMA RegisterIInv ==
    ASSUME IInv, NEW r \in Rpcs, NEW t \in TaskIds, Register(r, t)
    PROVE  IInv'
<1> DEFINE q == [rpc[r] EXCEPT !.id = t, !.at = AfterRegister(r)]
           rec == [key |-> rpc[r].key, status |-> "queued", node |-> None]
<1>1. /\ rpc[r] \in Rpc /\ rpc \in [Rpcs -> Rpc]
      /\ rpc[r].kind = "submit" /\ rpc[r].key \in Keys /\ rpc[r].cap \in Required
  BY HandlerKnows DEF Register, HandlerInv, SubmitPoints
<1>2. AfterRegister(r) \in {"dispatch", "assign"}
      /\ (AfterRegister(r) = "assign" <=> rpc[r].node # None)
  BY DEF AfterRegister
<1>3. rec \in Task /\ rec # None
  BY <1>1, NoneIsNoTask DEF Task, Status
<1>4. q \in Rpc /\ rpc' = [rpc EXCEPT ![r] = q]
  BY <1>1, <1>2 DEF Register, Rpc, Points, SubmitPoints
<1>5. /\ tasks' = [tasks EXCEPT ![t] = rec]
      /\ tasks \in [TaskIds -> Task \cup {None}]
      /\ tasks[t] = None
      /\ idem' = [idem EXCEPT ![rpc[r].key] = t]
      /\ idem \in [Keys -> TaskIds \cup {None}]
      /\ idem[rpc[r].key] = None
      /\ view' = [view EXCEPT ![t] = "queued"]
      /\ view \in [TaskIds -> Status \cup {None}]
  BY DEF Register, IInv, TypeOK
<1> HIDE DEF rec
<1>6. Grows
  BY <1>3, <1>5 DEF Grows
<1>7. HandlerInv(r)'
  <2>1. /\ rpc'[r].at = AfterRegister(r) /\ rpc'[r].id = t
        /\ rpc'[r].kind = "submit" /\ rpc'[r].key = rpc[r].key
        /\ rpc'[r].node = rpc[r].node /\ rpc'[r].cap = rpc[r].cap
    BY <1>1, <1>4 DEF Rpc
  <2>2. tasks'[t] # None /\ tasks'[t].key = rpc[r].key
    BY <1>3, <1>5 DEF rec
  <2>3. QED
    BY <1>1, <1>2, <2>1, <2>2, ControlPlaneAssumption
       DEF HandlerInv, SubmitPoints, CancelPoints
<1>8. rpc' \in [Rpcs -> Rpc] /\ \A s \in Rpcs : HandlerInv(s)'
  BY <1>4, <1>6, <1>7, HandlerStepInv
<1>9. TypeOK'
  <2>1. idem' \in [Keys -> TaskIds \cup {None}] /\ tasks' \in [TaskIds -> Task \cup {None}]
        /\ view' \in [TaskIds -> Status \cup {None}]
    BY <1>1, <1>3, <1>5 DEF Status
  <2>2. QED
    BY <1>8, <2>1 DEF Register, IInv, TypeOK
<1>10. StoreInv'
  <2>1. ASSUME NEW k \in Keys, idem'[k] # None
        PROVE  tasks'[idem'[k]] # None /\ tasks'[idem'[k]].key = k
    <3>1. CASE k = rpc[r].key
      BY <1>1, <1>3, <1>5, <3>1 DEF rec
    <3>2. CASE k # rpc[r].key
      <4>1. idem'[k] = idem[k] /\ idem[k] \in TaskIds
        BY <1>5, <2>1, <3>2
      <4>2. tasks[idem[k]] # None /\ tasks[idem[k]].key = k
        BY <2>1, <4>1 DEF IInv, StoreInv
      <4>3. QED
        BY <1>5, <4>1, <4>2
    <3>3. QED
      BY <3>1, <3>2
  <2>2. ASSUME NEW u \in TaskIds, tasks'[u] # None
        PROVE  idem'[tasks'[u].key] = u
    <3>1. CASE u = t
      BY <1>1, <1>5, <3>1 DEF rec
    <3>2. CASE u # t
      <4>1. tasks'[u] = tasks[u] /\ tasks[u] \in Task
        BY <1>5, <2>2, <3>2
      <4>2. idem[tasks[u].key] = u /\ tasks[u].key \in Keys /\ u # None
        BY <2>2, <4>1, ControlPlaneAssumption DEF IInv, StoreInv, Task
      <4>3. QED
        BY <1>5, <4>1, <4>2
    <3>3. QED
      BY <3>1, <3>2
  <2>3. ScheduledHasNode' /\ WatcherKeepsUp'
    BY <1>3, <1>5 DEF IInv, StoreInv, ScheduledHasNode, WatcherKeepsUp, rec
  <2>4. QED
    BY <2>1, <2>2, <2>3 DEF StoreInv
<1>11. QED
  BY <1>8, <1>9, <1>10 DEF IInv

(* A step that writes the record of one known task, and changes neither    *)
(* its key nor a node or a status back.                                    *)
LEMMA WriteIInv ==
    ASSUME IInv, NEW r \in Rpcs, NEW q \in Rpc, rpc' = [rpc EXCEPT ![r] = q],
           NEW t \in TaskIds, tasks[t] # None,
           NEW rec \in Task, tasks' = [tasks EXCEPT ![t] = rec],
           rec.key = tasks[t].key,
           tasks[t].node # None => rec.node # None,
           tasks[t].status # "queued" => rec.status # "queued",
           rec.status = "scheduled" => rec.node # None,
           NEW v \in Status \cup {None}, view' = [view EXCEPT ![t] = v],
           v = rec.status \/ rec.status = "canceled",
           UNCHANGED <<nodes, idem, dispatched>>,
           HandlerInv(r)'
    PROVE  IInv'
<1>1. /\ tasks \in [TaskIds -> Task \cup {None}] /\ view \in [TaskIds -> Status \cup {None}]
      /\ idem \in [Keys -> TaskIds \cup {None}] /\ rec # None
  BY NoneIsNoTask DEF IInv, TypeOK
<1>2. Grows
  BY <1>1 DEF Grows
<1>3. rpc' \in [Rpcs -> Rpc] /\ \A s \in Rpcs : HandlerInv(s)'
  BY <1>2, HandlerStepInv
<1>4. TypeOK'
  BY <1>1, <1>3 DEF IInv, TypeOK
<1>5. StoreInv'
  <2>1. ASSUME NEW k \in Keys, idem'[k] # None
        PROVE  tasks'[idem'[k]] # None /\ tasks'[idem'[k]].key = k
    BY <1>1, <1>2, <2>1 DEF IInv, StoreInv, Grows
  <2>2. ASSUME NEW u \in TaskIds, tasks'[u] # None
        PROVE  idem'[tasks'[u].key] = u
    BY <1>1, <2>2 DEF IInv, StoreInv
  <2>3. ScheduledHasNode' /\ WatcherKeepsUp'
    BY <1>1 DEF IInv, StoreInv, ScheduledHasNode, WatcherKeepsUp
  <2>4. QED
    BY <2>1, <2>2, <2>3 DEF StoreInv
<1>6. QED
  BY <1>3, <1>4, <1>5 DEF IInv

LEMMA AssignNodeIInv ==
    ASSUME IInv, NEW r \in Rpcs, AssignNode(r)
    PROVE  IInv'
<1> DEFINE t == rpc[r].id
           q == [rpc[r] EXCEPT !.at = "schedule"]
           rec == [tasks[t] EXCEPT !.node = rpc[r].node]
<1>1. /\ rpc[r] \in Rpc /\ rpc \in [Rpcs -> Rpc] /\ rpc[r].kind = "submit"
      /\ t \in TaskIds /\ t # None /\ rpc[r].node \in NodeIds /\ rpc[r].node # None
      /\ tasks[t] # None /\ tasks[t].key = rpc[r].key
  BY HandlerKnows DEF AssignNode, HandlerInv, SubmitPoints
<1>2. /\ tasks \in [TaskIds -> Task \cup {None}] /\ tasks[t] \in Task
      /\ view \in [TaskIds -> Status \cup {None}]
      /\ (view[t] = tasks[t].status \/ tasks[t].status = "canceled")
  BY <1>1 DEF IInv, TypeOK, StoreInv, WatcherKeepsUp
<1>3. /\ rec \in Task /\ rec.key = tasks[t].key /\ rec.status = tasks[t].status
      /\ rec.node = rpc[r].node
  BY <1>1, <1>2 DEF Task
<1>4. q \in Rpc /\ rpc' = [rpc EXCEPT ![r] = q]
  BY <1>1 DEF AssignNode, Rpc, Points, SubmitPoints
<1>5. tasks' = [tasks EXCEPT ![t] = rec] /\ view' = [view EXCEPT ![t] = view[t]]
  BY <1>1, <1>2 DEF AssignNode
<1>6. HandlerInv(r)'
  <2>1. /\ rpc'[r].at = "schedule" /\ rpc'[r].id = t /\ rpc'[r].kind = "submit"
        /\ rpc'[r].key = rpc[r].key /\ rpc'[r].node = rpc[r].node
        /\ rpc'[r].cap = rpc[r].cap
    BY <1>1, <1>4 DEF Rpc
  <2>2. tasks'[t] = rec /\ rec # None
    BY <1>1, <1>2, <1>3, <1>5, NoneIsNoTask
  <2>3. rpc[r].key # None /\ rpc[r].cap \in Required
    BY <1>1, HandlerKnows DEF HandlerInv
  <2> HIDE DEF rec, t, q
  <2>4. QED
    BY <1>1, <1>3, <2>1, <2>2, <2>3 DEF HandlerInv, SubmitPoints, CancelPoints
<1>7. UNCHANGED <<nodes, idem, dispatched>>
  BY DEF AssignNode
<1> HIDE DEF rec, t, q
<1>8. QED
  BY <1>1, <1>2, <1>3, <1>4, <1>5, <1>6, <1>7, WriteIInv

LEMMA SetScheduledIInv ==
    ASSUME IInv, NEW r \in Rpcs, SetScheduled(r)
    PROVE  IInv'
<1> DEFINE t == rpc[r].id
           q == [rpc[r] EXCEPT !.at = "dispatch"]
           rec == [tasks[t] EXCEPT !.status = "scheduled"]
<1>1. /\ rpc[r] \in Rpc /\ rpc \in [Rpcs -> Rpc] /\ rpc[r].kind = "submit"
      /\ t \in TaskIds /\ t # None
      /\ tasks[t] # None /\ tasks[t].key = rpc[r].key /\ tasks[t].node # None
  BY HandlerKnows DEF SetScheduled, HandlerInv, SubmitPoints
<1>2. /\ tasks \in [TaskIds -> Task \cup {None}] /\ tasks[t] \in Task
      /\ view \in [TaskIds -> Status \cup {None}]
  BY <1>1 DEF IInv, TypeOK
<1>3. /\ rec \in Task /\ rec.key = tasks[t].key /\ rec.status = "scheduled"
      /\ rec.node = tasks[t].node
  BY <1>1, <1>2 DEF Task, Status
<1>4. q \in Rpc /\ rpc' = [rpc EXCEPT ![r] = q]
  BY <1>1 DEF SetScheduled, Rpc, Points, SubmitPoints
<1>5. /\ tasks' = [tasks EXCEPT ![t] = rec]
      /\ view' = [view EXCEPT ![t] = "scheduled"] /\ "scheduled" \in Status
  BY <1>1, <1>2 DEF SetScheduled, Status
<1>6. HandlerInv(r)'
  <2>1. /\ rpc'[r].at = "dispatch" /\ rpc'[r].id = t /\ rpc'[r].kind = "submit"
        /\ rpc'[r].key = rpc[r].key /\ rpc'[r].node = rpc[r].node
        /\ rpc'[r].cap = rpc[r].cap
    BY <1>1, <1>4 DEF Rpc
  <2>2. tasks'[t] = rec /\ rec # None
    BY <1>1, <1>2, <1>3, <1>5, NoneIsNoTask
  <2>3. rpc[r].key # None /\ rpc[r].cap \in Required
    BY <1>1, HandlerKnows DEF HandlerInv
  <2> HIDE DEF rec, t, q
  <2>4. QED
    BY <1>1, <1>3, <2>1, <2>2, <2>3 DEF HandlerInv, SubmitPoints, CancelPoints
<1>7. UNCHANGED <<nodes, idem, dispatched>>
  BY DEF SetScheduled
<1> HIDE DEF rec, t, q
<1>8. QED
  BY <1>1, <1>2, <1>3, <1>4, <1>5, <1>6, <1>7, WriteIInv

(* cancel starts a handler of its own and marks the task.                  *)
LEMMA CancelTaskIInv ==
    ASSUME IInv, NEW r \in Rpcs, NEW t \in TaskIds, CancelTask(r, t)
    PROVE  IInv'
<1> DEFINE q == [IdleRpc EXCEPT !.kind = "cancel", !.at = "get", !.id = t]
           rec == [tasks[t] EXCEPT !.status = "canceled"]
<1>1. /\ rpc \in [Rpcs -> Rpc] /\ tasks[t] # None /\ t # None
      /\ tasks \in [TaskIds -> Task \cup {None}] /\ tasks[t] \in Task
      /\ view \in [TaskIds -> Status \cup {None}]
  BY ControlPlaneAssumption DEF CancelTask, IInv, TypeOK
<1>2. /\ rec \in Task /\ rec.key = tasks[t].key /\ rec.status = "canceled"
      /\ rec.node = tasks[t].node
  BY <1>1 DEF Task, Status
<1>3. q \in Rpc /\ rpc' = [rpc EXCEPT ![r] = q]
  BY <1>1 DEF CancelTask, IdleRpc, Rpc, Points, CancelPoints
<1>4. tasks' = [tasks EXCEPT ![t] = rec] /\ view' = [view EXCEPT ![t] = view[t]]
  BY <1>1 DEF CancelTask
<1>5. HandlerInv(r)'
  <2>1. rpc'[r].at = "get" /\ rpc'[r].id = t /\ rpc'[r].kind = "cancel"
    BY <1>1, <1>3 DEF IdleRpc
  <2>2. tasks'[t] = rec /\ rec # None
    BY <1>1, <1>2, <1>4, NoneIsNoTask
  <2> HIDE DEF rec, q
  <2>3. QED
    BY <1>1, <2>1, <2>2 DEF HandlerInv, SubmitPoints, CancelPoints
<1>6. UNCHANGED <<nodes, idem, dispatched>>
  BY DEF CancelTask
<1>7. view[t] \in Status \cup {None}
  BY <1>1
<1> HIDE DEF rec, q
<1>8. QED
  BY <1>1, <1>2, <1>3, <1>4, <1>5, <1>6, <1>7, WriteIInv

-----------------------------------------------------------------------------
(* The steps that move a handler on without touching the store.            *)
LEMMA DispatchIInv ==
    ASSUME IInv, NEW r \in Rpcs, Dispatch(r)
    PROVE  IInv'
<1> DEFINE q == [rpc[r] EXCEPT !.at = "reply"]
<1>1. rpc[r].id \in TaskIds /\ rpc[r].kind = "submit" /\ rpc[r].id # None
  BY HandlerKnows DEF Dispatch, HandlerInv, SubmitPoints
<1>2. q \in Rpc /\ rpc' = [rpc EXCEPT ![r] = q]
  BY HandlerKnows DEF Dispatch, Rpc, Points, SubmitPoints
<1>3. rpc[r].cap \in Required
  BY <1>1, HandlerKnows DEF HandlerInv
<1>4. HandlerInv(r)'
  BY <1>1, <1>2, HandlerKnows DEF Dispatch, HandlerInv, SubmitPoints, CancelPoints, Rpc
<1>5. /\ IsNodeTable(nodes') /\ dispatched' \subseteq TaskIds \X Required
      /\ UNCHANGED <<tasks, idem, view>>
  BY <1>1, <1>3, HandlerKnows DEF Dispatch, IsNodeTable
<1>6. QED
  BY <1>2, <1>4, <1>5, StoreUntouched

LEMMA ReplyIInv ==
    ASSUME IInv, NEW r \in Rpcs, Reply(r)
    PROVE  IInv'
<1> DEFINE q == [rpc[r] EXCEPT !.at = "done"]
<1>1. q \in Rpc /\ rpc' = [rpc EXCEPT ![r] = q]
  BY HandlerKnows DEF Reply, Rpc, Points
<1>2. HandlerInv(r)'
  BY <1>1, HandlerKnows DEF Reply, HandlerInv, SubmitPoints, CancelPoints, Rpc
<1>3. QED
  BY <1>1, <1>2, HandlerKnows, StoreUntouched DEF Reply

LEMMA CancelGetIInv ==
    ASSUME IInv, NEW r \in Rpcs, CancelGet(r)
    PROVE  IInv'
<1> DEFINE n == tasks[rpc[r].id].node
           q == [rpc[r] EXCEPT !.node = n,
                               !.at = IF n = None THEN "done" ELSE "release"]
<1>1. rpc[r].kind = "cancel" /\ rpc[r].id \in TaskIds /\ tasks[rpc[r].id] # None
  BY HandlerKnows DEF CancelGet, HandlerInv, CancelPoints
<1>2. n \in NodeIds \cup {None}
  BY <1>1 DEF IInv, TypeOK, Task
<1>3. q \in Rpc /\ rpc' = [rpc EXCEPT ![r] = q]
  BY <1>2, HandlerKnows DEF CancelGet, Rpc, Points, CancelPoints
<1>4. HandlerInv(r)'
  <2>1. /\ rpc'[r].at \in {"done", "release"} /\ rpc'[r].kind = "cancel"
        /\ rpc'[r].id = rpc[r].id /\ rpc[r].id # None
    BY <1>1, <1>3, HandlerKnows DEF Rpc, CancelGet, HandlerInv, CancelPoints
  <2>2. tasks' = tasks
    BY DEF CancelGet
  <2>3. QED
    BY <1>1, <2>1, <2>2 DEF HandlerInv, SubmitPoints, CancelPoints
<1>5. QED
  BY <1>3, <1>4, HandlerKnows, StoreUntouched DEF CancelGet

LEMMA CancelReleaseIInv ==
    ASSUME IInv, NEW r \in Rpcs, CancelRelease(r)
    PROVE  IInv'
<1> DEFINE q == [rpc[r] EXCEPT !.at = "done"]
<1>1. q \in Rpc /\ rpc' = [rpc EXCEPT ![r] = q]
  BY HandlerKnows DEF CancelRelease, Rpc, Points
<1>2. HandlerInv(r)'
  BY <1>1, HandlerKnows DEF CancelRelease, HandlerInv, SubmitPoints, CancelPoints, Rpc
<1>3. IsNodeTable(nodes')
  BY HandlerKnows, ReleasedTable DEF CancelRelease
<1>4. QED
  BY <1>1, <1>2, <1>3, HandlerKnows, StoreUntouched DEF CancelRelease

LEMMA AbortIInv ==
    ASSUME IInv, NEW r \in Rpcs, Abort(r)
    PROVE  IInv'
<1> DEFINE q == [rpc[r] EXCEPT !.at = "aborted"]
<1>1. q \in Rpc /\ rpc' = [rpc EXCEPT ![r] = q]
  BY HandlerKnows DEF Abort, Rpc, Points
<1>2. HandlerInv(r)'
  BY <1>1, HandlerKnows DEF Abort, HandlerInv, SubmitPoints, CancelPoints, Rpc
<1>3. QED
  BY <1>1, <1>2, HandlerKnows, StoreUntouched DEF Abort

LEMMA SyncNodesIInv ==
    ASSUME IInv, NEW specs \in SpecTables, SyncNodes(specs)
    PROVE  IInv'
<1>1. IsNodeTable(nodes')
  BY SpecsDeclare DEF SyncNodes
<1>2. TypeOK' /\ StoreInv'
  BY <1>1 DEF SyncNodes, IInv, TypeOK, StoreInv, ScheduledHasNode, WatcherKeepsUp
<1>3. \A r \in Rpcs : HandlerInv(r)'
  BY DEF SyncNodes, IInv, HandlerInv
<1>4. QED
  BY <1>2, <1>3 DEF IInv

-----------------------------------------------------------------------------
LEMMA NextIInv == IInv /\ [Next]_vars => IInv'
<1> SUFFICES ASSUME IInv, [Next]_vars PROVE IInv'
  OBVIOUS
<1>1. ASSUME NEW r \in Rpcs, NEW key \in Keys, NEW cap \in Required,
             SubmitTask(r, key, cap)
      PROVE  IInv'
  BY <1>1, SubmitTaskIInv
<1>2. ASSUME NEW r \in Rpcs, NEW t \in TaskIds, CancelTask(r, t)
      PROVE  IInv'
  BY <1>2, CancelTaskIInv
<1>3. ASSUME NEW r \in Rpcs, HandlerStep(r)
      PROVE  IInv'
  BY <1>3, ReuseIInv, RegisterIInv, AssignNodeIInv, SetScheduledIInv, DispatchIInv,
     ReplyIInv, CancelGetIInv, CancelReleaseIInv DEF HandlerStep
<1>4. ASSUME NEW r \in Rpcs, Abort(r)
      PROVE  IInv'
  BY <1>4, AbortIInv
<1>5. ASSUME NEW specs \in SpecTables, SyncNodes(specs)
      PROVE  IInv'
  BY <1>5, SyncNodesIInv
<1>6. CASE UNCHANGED vars
  BY <1>6 DEF vars, IInv, TypeOK, StoreInv, ScheduledHasNode, WatcherKeepsUp,
              HandlerInv
<1>7. QED
  BY <1>1, <1>2, <1>3, <1>4, <1>5, <1>6 DEF Next

LEMMA Invariance == Spec => []IInv
  BY InitIInv, NextIInv, PTL DEF Spec

(* The scheduler, the store, the handlers and the watcher have their types. *)
THEOREM TypeCorrect == Spec => []TypeOK
<1>1. IInv => TypeOK
  BY DEF IInv
<1>2. QED
  BY <1>1, Invariance, PTL

(* server.rs submit_task over registry.rs register: all submits of a key   *)
(* get one and the same task, and no submit gets the task of another key.  *)
THEOREM SubmitIdempotent == Spec => []Idempotent
<1>1. IInv => Idempotent
  <2> SUFFICES ASSUME IInv PROVE Idempotent
    OBVIOUS
  <2>1. ASSUME NEW r \in Identified
        PROVE  tasks[rpc[r].id] # None /\ tasks[rpc[r].id].key = rpc[r].key
    BY DEF Identified, IInv, HandlerInv
  <2>2. ASSUME NEW t \in TaskIds, NEW u \in TaskIds,
               tasks[t] # None, tasks[u] # None, tasks[t].key = tasks[u].key
        PROVE  t = u
    BY <2>2 DEF IInv, StoreInv
  <2>3. QED
    BY <2>1, <2>2 DEF Idempotent
<1>2. QED
  BY <1>1, Invariance, PTL

(* server.rs:134-136: a Scheduled task names its node, whatever other      *)
(* handlers do between the two writes.                                     *)
THEOREM ScheduledNamesNode == Spec => []ScheduledHasNode
<1>1. IInv => ScheduledHasNode
  BY DEF IInv, StoreInv
<1>2. QED
  BY <1>1, Invariance, PTL

(* server.rs:129-150: a placed task is in the store, with its node and not *)
(* Queued, from before it is handed to the workers on.                     *)
THEOREM ScheduledBeforeDispatch == Spec => []DispatchAfterSchedule
<1>1. IInv => DispatchAfterSchedule
  BY DEF IInv, HandlerInv, DispatchAfterSchedule, Identified
<1>2. QED
  BY <1>1, Invariance, PTL

(* registry.rs: the events sent under the store's mutex keep a watcher up  *)
(* to date on every task that is not canceled.                             *)
THEOREM WatcherUpToDate == Spec => []WatcherKeepsUp
<1>1. IInv => WatcherKeepsUp
  BY DEF IInv, StoreInv
<1>2. QED
  BY <1>1, Invariance, PTL

-----------------------------------------------------------------------------
(* One step, seen from a canceled task that is settled.                    *)
StaysSettled == \A t \in TaskIds : Settled(t) => Settled(t)' \/ Resubmitted(t)

(* A step that leaves the canceled task as it is, and every submit of its  *)
(* key with a node where it was or past set_status(Scheduled).             *)
LEMMA SettledKept ==
    ASSUME IInv, NEW t \in TaskIds, Settled(t), NEW r \in Rpcs,
           tasks'[t] # None, tasks'[t].key = tasks[t].key, tasks'[t].status = "canceled",
           \A s \in Rpcs \ {r} : rpc'[s] = rpc[s],
           \/ rpc'[r].kind # "submit"
           \/ rpc'[r].node = None
           \/ rpc'[r].key # tasks[t].key
           \/ rpc'[r].at \notin {"register", "assign", "schedule"}
    PROVE  Settled(t)'
  BY DEF Settled

(* A step of one handler's alone changes the others not.                   *)
LEMMA OthersStay ==
    ASSUME IInv, NEW r \in Rpcs, NEW q, rpc' = [rpc EXCEPT ![r] = q]
    PROVE  rpc'[r] = q /\ \A s \in Rpcs \ {r} : rpc'[s] = rpc[s]
  BY DEF IInv, TypeOK

(* A handler that writes or is about to is not one of a settled task.      *)
LEMMA WriterIsElsewhere ==
    ASSUME IInv, NEW t \in TaskIds, Settled(t), NEW r \in Rpcs,
           rpc[r].at \in {"register", "assign", "schedule"}
    PROVE  /\ rpc[r].kind = "submit"
           /\ rpc[r].node = None \/ rpc[r].key # tasks[t].key
           /\ rpc[r].at # "register" => rpc[r].node # None /\ rpc[r].id # t
<1>1. HandlerInv(r)
  BY DEF IInv
<1>2. rpc[r].kind = "submit"
  BY <1>1 DEF HandlerInv, SubmitPoints
<1>3. QED
  BY <1>1, <1>2 DEF HandlerInv, Settled

LEMMA NextSettled == IInv /\ [Next]_vars => [StaysSettled]_vars
<1> SUFFICES ASSUME IInv, [Next]_vars, NEW t \in TaskIds, Settled(t), ~Resubmitted(t)
             PROVE  Settled(t)'
  BY DEF StaysSettled
<1>1. /\ rpc \in [Rpcs -> Rpc] /\ tasks \in [TaskIds -> Task \cup {None}]
      /\ tasks[t] # None /\ tasks[t].status = "canceled"
  BY DEF IInv, TypeOK, Settled
<1>2. ASSUME NEW r \in Rpcs, NEW key \in Keys, NEW cap \in Required, SubmitTask(r, key, cap)
      PROVE  Settled(t)'
  <2>1. PICK n : rpc' = [rpc EXCEPT ![r] = Submitted(key, cap, n)]
    BY <1>2 DEF SubmitTask
  <2>2. tasks' = tasks /\ rpc[r].at = "idle"
    BY <1>2 DEF SubmitTask
  <2>3. rpc'[r] = Submitted(key, cap, n) /\ \A s \in Rpcs \ {r} : rpc'[s] = rpc[s]
    BY <2>1, OthersStay
  <2>4. rpc'[r].kind = "submit" /\ rpc'[r].key = key /\ rpc'[r].node = n
    BY <2>3 DEF Submitted
  <2>5. n = None \/ key # tasks[t].key
    BY <2>2, <2>4 DEF Resubmitted
  <2>6. QED
    BY <1>1, <2>2, <2>3, <2>4, <2>5, SettledKept
<1>3. ASSUME NEW r \in Rpcs, NEW u \in TaskIds, CancelTask(r, u)
      PROVE  Settled(t)'
  <2>1. rpc' = [rpc EXCEPT ![r] = [IdleRpc EXCEPT !.kind = "cancel", !.at = "get", !.id = u]]
    BY <1>3 DEF CancelTask
  <2>2. PICK q : q = [IdleRpc EXCEPT !.kind = "cancel", !.at = "get", !.id = u]
    OBVIOUS
  <2>3. q.kind = "cancel"
    BY <2>2 DEF IdleRpc
  <2>4. rpc'[r].kind = "cancel" /\ \A s \in Rpcs \ {r} : rpc'[s] = rpc[s]
    BY <2>1, <2>2, <2>3, OthersStay
  <2>5. tasks'[t] # None /\ tasks'[t].key = tasks[t].key /\ tasks'[t].status = "canceled"
    BY <1>1, <1>3, NoneIsNoTask DEF CancelTask, Task
  <2>6. QED
    BY <2>4, <2>5, SettledKept
<1>4. ASSUME NEW r \in Rpcs, rpc[r].at = "register", NEW id, NEW at,
             rpc' = [rpc EXCEPT ![r].id = id, ![r].at = at], tasks'[t] = tasks[t]
      PROVE  Settled(t)'
  <2>1. rpc' = [rpc EXCEPT ![r] = [rpc[r] EXCEPT !.id = id, !.at = at]]
    BY <1>4
  <2>2. /\ rpc'[r].node = rpc[r].node /\ rpc'[r].key = rpc[r].key
        /\ \A s \in Rpcs \ {r} : rpc'[s] = rpc[s]
    BY <1>1, <2>1, OthersStay DEF Rpc
  <2>3. QED
    BY <1>1, <1>4, <2>2, WriterIsElsewhere, SettledKept
<1>5. ASSUME NEW r \in Rpcs, Reuse(r) PROVE Settled(t)'
  BY <1>4, <1>5 DEF Reuse
<1>6. ASSUME NEW r \in Rpcs, NEW u \in TaskIds, Register(r, u) PROVE Settled(t)'
  <2>1. u # t
    BY <1>1, <1>6 DEF Register
  <2>2. tasks'[t] = tasks[t]
    BY <1>1, <1>6, <2>1 DEF Register
  <2>3. QED
    BY <1>4, <1>6, <2>2 DEF Register
<1>7. ASSUME NEW r \in Rpcs, AssignNode(r) \/ SetScheduled(r) PROVE Settled(t)'
  <2>1. rpc[r].at \in {"assign", "schedule"}
    BY <1>7 DEF AssignNode, SetScheduled
  <2>2. rpc[r].id # t /\ (rpc[r].node = None \/ rpc[r].key # tasks[t].key)
    BY <2>1, WriterIsElsewhere
  <2>3. tasks'[t] = tasks[t]
    BY <1>1, <1>7, <2>2 DEF AssignNode, SetScheduled
  <2>4. PICK at : rpc' = [rpc EXCEPT ![r] = [rpc[r] EXCEPT !.at = at]]
    BY <1>7 DEF AssignNode, SetScheduled
  <2>5. /\ rpc'[r].node = rpc[r].node /\ rpc'[r].key = rpc[r].key
        /\ \A s \in Rpcs \ {r} : rpc'[s] = rpc[s]
    BY <1>1, <2>4, OthersStay DEF Rpc
  <2>6. QED
    BY <1>1, <2>2, <2>3, <2>5, SettledKept
<1>8. ASSUME NEW r \in Rpcs, Dispatch(r) \/ Reply(r) \/ CancelRelease(r) \/ Abort(r)
      PROVE  Settled(t)'
  <2>1. /\ tasks' = tasks
        /\ \E at \in {"reply", "done", "aborted"} :
              rpc' = [rpc EXCEPT ![r] = [rpc[r] EXCEPT !.at = at]]
    BY <1>8 DEF Dispatch, Reply, CancelRelease, Abort
  <2>2. PICK at \in {"reply", "done", "aborted"} :
            rpc' = [rpc EXCEPT ![r] = [rpc[r] EXCEPT !.at = at]]
    BY <2>1
  <2>3. rpc'[r].at = at /\ \A s \in Rpcs \ {r} : rpc'[s] = rpc[s]
    BY <1>1, <2>2, OthersStay DEF Rpc
  <2>4. QED
    BY <1>1, <2>1, <2>3, SettledKept
<1>9. ASSUME NEW r \in Rpcs, CancelGet(r) PROVE Settled(t)'
  <2>1. rpc[r].kind = "cancel" /\ tasks' = tasks
    BY <1>9 DEF CancelGet, IInv, HandlerInv, CancelPoints
  <2>2. PICK n, at : rpc' = [rpc EXCEPT ![r] = [rpc[r] EXCEPT !.node = n, !.at = at]]
    BY <1>9 DEF CancelGet
  <2>3. rpc'[r].kind = "cancel" /\ \A s \in Rpcs \ {r} : rpc'[s] = rpc[s]
    BY <1>1, <2>1, <2>2, OthersStay DEF Rpc
  <2>4. QED
    BY <1>1, <2>1, <2>3, SettledKept
<1>10. ASSUME NEW specs \in SpecTables, SyncNodes(specs) PROVE Settled(t)'
  BY <1>10 DEF SyncNodes, Settled
<1>11. CASE UNCHANGED vars
  BY <1>11 DEF vars, Settled
<1>12. QED
  BY <1>2, <1>3, <1>5, <1>6, <1>7, <1>8, <1>9, <1>10, <1>11 DEF Next, HandlerStep

(* server.rs:113-200 over registry.rs, for any number of requests, retries, *)
(* cancels and dropped handlers: only a placed submit of the same key takes *)
(* a task out of canceled, and once those under way are through it stays    *)
(* canceled until the next one comes.                                       *)
THEOREM CancelIsFinal == Spec => CanceledIsFinal
<1>1. IInv /\ [Next]_vars => [StaysSettled]_vars
  BY NextSettled
<1>2. Spec => [][StaysSettled]_vars
  BY <1>1, Invariance, PTL DEF Spec
<1>3. QED
  BY <1>2 DEF CanceledIsFinal, StaysSettled

-----------------------------------------------------------------------------
(* What is handed to the workers is what was asked for: every task on a    *)
(* topic is the one that a submit for that capability got, and a submit    *)
(* that was answered has put its task there, unless the broker failed.     *)
Past == {"reply", "done", "aborted"}
Handed ==
    /\ \A p \in dispatched :
          \E r \in Identified : rpc[r].at \in Past /\ p = <<rpc[r].id, rpc[r].cap>>
    /\ \A r \in Rpcs : rpc[r].kind = "submit" /\ rpc[r].at \in {"reply", "done"} =>
          r \in Identified /\ (BrokerMayFail \/ <<rpc[r].id, rpc[r].cap>> \in dispatched)

(* A handler that comes to its dispatch only later, or is no submit.       *)
LEMMA HandedBefore ==
    ASSUME IInv, Handed, NEW r \in Rpcs, rpc[r].at \notin Past, dispatched' = dispatched,
           \A s \in Rpcs \ {r} : rpc'[s] = rpc[s],
           rpc'[r].kind = "submit" => rpc'[r].at \notin {"reply", "done"}
    PROVE  Handed'
  BY DEF Handed, Identified, Past

LEMMA HandedOnTheWay ==
    ASSUME IInv, Handed, NEW r \in Rpcs,
           \/ \E key \in Keys, cap \in Required : SubmitTask(r, key, cap)
           \/ \E t \in TaskIds : CancelTask(r, t) \/ Register(r, t)
           \/ Reuse(r) \/ AssignNode(r) \/ SetScheduled(r) \/ CancelGet(r) \/ CancelRelease(r)
    PROVE  Handed'
<1>1. rpc \in [Rpcs -> Rpc] /\ rpc[r] \in Rpc /\ HandlerInv(r)
  BY HandlerKnows
<1>2. rpc[r].at \notin Past /\ dispatched' = dispatched /\ \A s \in Rpcs \ {r} : rpc'[s] = rpc[s]
  BY <1>1 DEF SubmitTask, CancelTask, Register, Reuse, AssignNode, SetScheduled, CancelGet,
              CancelRelease, Past
<1>3. rpc'[r].kind = "submit" => rpc'[r].at \notin {"reply", "done"}
  <2>1. CASE \E key \in Keys, cap \in Required : SubmitTask(r, key, cap)
    BY <1>1, <2>1 DEF SubmitTask, Submitted
  <2>2. CASE \E t \in TaskIds : CancelTask(r, t)
    <3>1. PICK t : rpc' = [rpc EXCEPT ![r] = [IdleRpc EXCEPT !.kind = "cancel", !.at = "get",
                                                           !.id = t]]
      BY <2>2 DEF CancelTask
    <3>2. [IdleRpc EXCEPT !.kind = "cancel", !.at = "get", !.id = t].at = "get"
      BY DEF IdleRpc
    <3>3. QED
      BY <1>1, <3>1, <3>2
  <2>3. CASE Reuse(r) \/ \E t \in TaskIds : Register(r, t)
    <3>1. PICK id, at : /\ at \in {"dispatch", "assign"}
                        /\ rpc' = [rpc EXCEPT ![r].id = id, ![r].at = at]
      BY <2>3 DEF Reuse, Register, AfterRegister
    <3>2. rpc'[r].at = at
      BY <1>1, <3>1 DEF Rpc
    <3>3. QED
      BY <3>1, <3>2
  <2>4. CASE AssignNode(r) \/ SetScheduled(r)
    BY <1>1, <2>4 DEF AssignNode, SetScheduled, Rpc
  <2>5. CASE CancelGet(r) \/ CancelRelease(r)
    <3>1. rpc[r].kind = "cancel"
      BY <1>1, <2>5 DEF CancelGet, CancelRelease, HandlerInv, CancelPoints
    <3>2. rpc'[r].kind = rpc[r].kind
      BY <1>1, <2>5 DEF CancelGet, CancelRelease, Rpc
    <3>3. QED
      BY <3>1, <3>2
  <2>6. QED
    BY <2>1, <2>2, <2>3, <2>4, <2>5
<1>4. QED
  BY <1>2, <1>3, HandedBefore

LEMMA HandedByDispatch ==
    ASSUME IInv, Handed, NEW r \in Rpcs, Dispatch(r)
    PROVE  Handed'
<1>1. /\ rpc \in [Rpcs -> Rpc] /\ rpc[r] \in Rpc /\ rpc[r].at = "dispatch"
      /\ rpc[r].kind = "submit" /\ rpc[r].id # None
  BY HandlerKnows DEF Dispatch, HandlerInv, SubmitPoints
<1>2. PICK t, cap : t = rpc[r].id /\ cap = rpc[r].cap
  OBVIOUS
<1>3. /\ \A s \in Rpcs \ {r} : rpc'[s] = rpc[s]
      /\ rpc'[r].at = "reply" /\ rpc'[r].kind = "submit" /\ rpc'[r].id = t /\ rpc'[r].cap = cap
  BY <1>1, <1>2 DEF Dispatch, Rpc
<1>4. /\ dispatched \subseteq dispatched' /\ dispatched' \subseteq dispatched \cup {<<t, cap>>}
      /\ BrokerMayFail \/ <<t, cap>> \in dispatched'
  BY <1>2 DEF Dispatch
<1>5. r \in Identified'
  BY <1>1, <1>2, <1>3 DEF Identified
<1>6. ASSUME NEW p \in dispatched'
      PROVE  \E s \in Identified' : rpc'[s].at \in Past /\ p = <<rpc'[s].id, rpc'[s].cap>>
  <2>1. CASE p \in dispatched
    <3>1. PICK s \in Identified : rpc[s].at \in Past /\ p = <<rpc[s].id, rpc[s].cap>>
      BY <2>1 DEF Handed
    <3>2. s \in Rpcs \ {r}
      BY <1>1, <3>1 DEF Identified, Past
    <3>3. s \in Identified' /\ rpc'[s] = rpc[s]
      BY <1>3, <3>1, <3>2 DEF Identified
    <3>4. QED
      BY <3>1, <3>3
  <2>2. CASE p = <<t, cap>>
    BY <1>3, <1>5, <2>2 DEF Past
  <2>3. QED
    BY <1>4, <2>1, <2>2
<1>7. ASSUME NEW s \in Rpcs, rpc'[s].kind = "submit", rpc'[s].at \in {"reply", "done"}
      PROVE  s \in Identified' /\ (BrokerMayFail \/ <<rpc'[s].id, rpc'[s].cap>> \in dispatched')
  <2>1. CASE s = r
    BY <1>3, <1>4, <1>5, <2>1
  <2>2. CASE s # r
    BY <1>3, <1>4, <1>7, <2>2 DEF Handed, Identified
  <2>3. QED
    BY <2>1, <2>2
<1>8. QED
  BY <1>6, <1>7 DEF Handed

(* The answer, or the end of a handler whose client went away.             *)
LEMMA HandedAtTheEnd ==
    ASSUME IInv, Handed, NEW r \in Rpcs, Reply(r) \/ Abort(r)
    PROVE  Handed'
<1>1. rpc \in [Rpcs -> Rpc] /\ rpc[r] \in Rpc /\ dispatched' = dispatched
  BY HandlerKnows DEF Reply, Abort
<1>2. /\ \A s \in Rpcs \ {r} : rpc'[s] = rpc[s]
      /\ rpc'[r].kind = rpc[r].kind /\ rpc'[r].id = rpc[r].id /\ rpc'[r].cap = rpc[r].cap
      /\ \/ rpc[r].at = "reply" /\ rpc'[r].at = "done"
         \/ rpc'[r].at = "aborted"
  BY <1>1 DEF Reply, Abort, Rpc
<1>3. Identified' = Identified /\ \A s \in Rpcs : rpc'[s].id = rpc[s].id /\ rpc'[s].cap = rpc[s].cap
  BY <1>2 DEF Identified
<1>4. \A s \in Rpcs : rpc[s].at \in Past => rpc'[s].at \in Past
  BY <1>2 DEF Past
<1>5. \A s \in Rpcs : rpc'[s].kind = "submit" /\ rpc'[s].at \in {"reply", "done"} =>
         rpc[s].kind = "submit" /\ rpc[s].at \in {"reply", "done"}
  BY <1>2
<1>6. \A p \in dispatched :
         \E s \in Identified : rpc'[s].at \in Past /\ p = <<rpc'[s].id, rpc'[s].cap>>
  BY <1>3, <1>4 DEF Handed, Identified
<1>7. QED
  BY <1>1, <1>3, <1>5, <1>6 DEF Handed

LEMMA NextHanded == IInv /\ Handed /\ [Next]_vars => Handed'
<1> SUFFICES ASSUME IInv, Handed, [Next]_vars PROVE Handed'
  OBVIOUS
<1>1. CASE UNCHANGED <<rpc, dispatched>>
  BY <1>1 DEF Handed, Identified
<1>2. ASSUME NEW r \in Rpcs, HandlerStep(r) PROVE Handed'
  BY <1>2, HandedOnTheWay, HandedByDispatch, HandedAtTheEnd DEF HandlerStep
<1>3. ASSUME NEW r \in Rpcs, NEW key \in Keys, NEW cap \in Required, SubmitTask(r, key, cap)
      PROVE  Handed'
  BY <1>3, HandedOnTheWay
<1>4. ASSUME NEW r \in Rpcs, NEW t \in TaskIds, CancelTask(r, t) PROVE Handed'
  BY <1>4, HandedOnTheWay
<1>5. ASSUME NEW r \in Rpcs, Abort(r) PROVE Handed'
  BY <1>5, HandedAtTheEnd
<1>6. QED
  BY <1>1, <1>2, <1>3, <1>4, <1>5 DEF Next, SyncNodes, vars

(* server.rs submit_task: the workers find on a topic nothing but what was *)
(* asked for there, and all of it that was answered while the broker works,*)
(* whatever requests are dropped, sent again or canceled.  The safety half *)
(* of SubmitReachesWorkers, for clients that need not be careful.          *)
THEOREM AnsweredIsHandedOut == Spec => []Handed
<1>1. Init => Handed
  BY DEF Init, IdleRpc, Handed, Identified
<1>2. QED
  BY <1>1, InitIInv, NextIInv, NextHanded, PTL DEF Spec

-----------------------------------------------------------------------------
(***************************************************************************)
(* Careful clients.  A key has one submit, and a task one cancel, which    *)
(* finds the submit done: so the steps that follow a register, and those   *)
(* that follow a cancel, are the only ones on their task (CarefulInv).     *)
(* The slots of a node are then counted by the submits that hold them      *)
(* (Holding), which a placement adds one to and a release takes one from.  *)
(***************************************************************************)
Submits == {r \in Rpcs : rpc[r].kind = "submit"}
Cancels == {r \in Rpcs : rpc[r].kind = "cancel"}

SubmitInv(r) ==
    /\ rpc[r].at \in SubmitPoints \cup {"done"}
    /\ rpc[r].at = "register" <=> rpc[r].id = None
    /\ rpc[r].id # None =>
          tasks[rpc[r].id].node = IF rpc[r].at = "assign" THEN None ELSE rpc[r].node

CancelInv(c) ==
    /\ rpc[c].at \in {"get", "release", "done"}
    /\ rpc[c].id # None /\ tasks[rpc[c].id] # None
    /\ tasks[rpc[c].id].status = "canceled"
    /\ \A s \in Submits : rpc[s].id = rpc[c].id => rpc[s].at = "done"
    /\ rpc[c].at = "release" =>
          rpc[c].node # None /\ rpc[c].node = tasks[rpc[c].id].node
    /\ rpc[c].at = "get" => rpc[c].node = None

TaskInv(t) ==
    /\ \E s \in Submits : rpc[s].id = t
    /\ tasks[t].status = "canceled" => \E c \in Cancels : rpc[c].id = t

CarefulInv ==
    /\ \A r \in Rpcs : rpc[r].at = "idle" <=> rpc[r].kind = "none"
    /\ \A r \in Submits : SubmitInv(r)
    /\ \A c \in Cancels : CancelInv(c)
    /\ \A t \in TaskIds : tasks[t] # None => TaskInv(t)
    /\ \A r, s \in Submits : rpc[r].key = rpc[s].key => r = s
    /\ \A c, d \in Cancels : rpc[c].id = rpc[d].id => c = d

Freed(r) == \E c \in Cancels : rpc[c].at = "done" /\ rpc[c].id = rpc[r].id
Holding(n) == {r \in Submits : rpc[r].node = n /\ ~Freed(r)}
LoadInv == \A n \in DOMAIN nodes : nodes[n].load = Cardinality(Holding(n))

-----------------------------------------------------------------------------
LEMMA CarefulStepIsStep ==
    ASSUME [CarefulNext]_vars
    PROVE  [Next]_vars
  BY DEF CarefulNext, CarefulSubmit, CarefulCancel, Next

(* Of one task there is one submit.                                        *)
LEMMA OneSubmit ==
    ASSUME IInv, CarefulInv, NEW r \in Submits, NEW s \in Submits,
           rpc[r].id = rpc[s].id, rpc[r].id # None
    PROVE  r = s
<1>1. r \in Rpcs /\ s \in Rpcs /\ rpc[r].kind = "submit" /\ rpc[s].kind = "submit"
  BY DEF Submits
<1>2. rpc[r].key = rpc[s].key
  BY <1>1 DEF IInv, HandlerInv
<1>3. QED
  BY <1>2 DEF CarefulInv

(* A submit that is going to register does so under a key nobody used.     *)
LEMMA KeyIsNew ==
    ASSUME IInv, CarefulInv, NEW r \in Rpcs, rpc[r].at = "register"
    PROVE  /\ r \in Submits /\ rpc[r].key \in Keys /\ rpc[r].id = None
           /\ idem[rpc[r].key] = None
<1>1. r \in Submits /\ rpc[r].key \in Keys
  BY HandlerKnows DEF HandlerInv, SubmitPoints, Submits
<1>2. rpc[r].id = None
  BY <1>1 DEF CarefulInv, SubmitInv
<1>3. ASSUME idem[rpc[r].key] # None PROVE FALSE
  <2> DEFINE t == idem[rpc[r].key]
  <2>1. t \in TaskIds /\ tasks[t] # None /\ tasks[t].key = rpc[r].key
    BY <1>1, <1>3 DEF IInv, TypeOK, StoreInv
  <2>2. PICK s \in Submits : rpc[s].id = t
    BY <2>1 DEF CarefulInv, TaskInv
  <2>3. s \in Rpcs /\ rpc[s].kind = "submit" /\ t # None
    BY <2>1, ControlPlaneAssumption DEF Submits
  <2>4. rpc[s].key = rpc[r].key
    BY <2>1, <2>2, <2>3 DEF IInv, HandlerInv
  <2>5. s = r
    BY <1>1, <2>4 DEF CarefulInv
  <2>6. QED
    BY <1>2, <2>2, <2>3, <2>5
<1>4. QED
  BY <1>1, <1>2, <1>3

(* A step that takes handler r from where it is to q.                      *)
Moves(r, q) ==
    /\ q \in Rpc /\ rpc \in [Rpcs -> Rpc]
    /\ rpc' = [rpc EXCEPT ![r] = q]

LEMMA MovesTo ==
    ASSUME NEW r \in Rpcs, NEW q, Moves(r, q)
    PROVE  rpc'[r] = q /\ \A s \in Rpcs \ {r} : rpc'[s] = rpc[s]
  BY DEF Moves

(* Nobody else is at work on the task of a submit that is not answered:    *)
(* no other submit has it, and no cancel.                                  *)
LEMMA OwnTask ==
    ASSUME IInv, CarefulInv, NEW r \in Submits, rpc[r].at # "done"
    PROVE  /\ rpc[r].id # None => /\ tasks[rpc[r].id].status # "canceled"
                                  /\ rpc[r].id \in TaskIds
                                  /\ tasks[rpc[r].id] \in Task
                                  /\ tasks[rpc[r].id] # None
           /\ \A c \in Cancels : rpc[c].id # rpc[r].id
           /\ \A s \in Submits \ {r} : rpc[s].id # None => rpc[s].id # rpc[r].id
<1>1. ASSUME NEW c \in Cancels PROVE rpc[c].id # rpc[r].id
  <2>1. CancelInv(c)
    BY DEF CarefulInv
  <2>2. QED
    BY <2>1 DEF CancelInv
<1>2. ASSUME NEW s \in Submits \ {r}, rpc[s].id # None
      PROVE  rpc[s].id # rpc[r].id
  BY <1>2, OneSubmit
<1>3. ASSUME rpc[r].id # None
      PROVE  /\ tasks[rpc[r].id].status # "canceled"
             /\ rpc[r].id \in TaskIds
             /\ tasks[rpc[r].id] \in Task
             /\ tasks[rpc[r].id] # None
  <2>1. r \in Rpcs /\ rpc[r].kind = "submit"
    BY DEF Submits
  <2>2. rpc[r].id \in TaskIds /\ tasks[rpc[r].id] # None
    BY <1>3, <2>1, HandlerKnows DEF HandlerInv
  <2>3. tasks[rpc[r].id] \in Task
    BY <2>2 DEF IInv, TypeOK
  <2>4. TaskInv(rpc[r].id)
    BY <2>2 DEF CarefulInv
  <2>5. QED
    BY <1>1, <2>2, <2>3, <2>4 DEF TaskInv
<1>4. QED
  BY <1>1, <1>2, <1>3

(* A submit that is not answered yet goes on, with the task it has or with *)
(* a new one, which it leaves alive.                                       *)
GoesOn(r, q, t, rec) ==
    /\ r \in Submits /\ rpc[r].at # "done"
    /\ Moves(r, q)
    /\ q.kind = "submit" /\ q.key = rpc[r].key
    /\ q.at \in {"assign", "schedule", "dispatch", "reply", "done"}
    /\ t \in TaskIds /\ q.id = t
    /\ rpc[r].id = t \/ (rpc[r].id = None /\ tasks[t] = None)
    /\ rec \in Task /\ tasks' = [tasks EXCEPT ![t] = rec]
    /\ rec.status # "canceled"
    /\ rec.node = IF q.at = "assign" THEN None ELSE q.node

LEMMA SubmitGoesOn ==
    ASSUME IInv, CarefulInv, NEW r, NEW q, NEW t, NEW rec, GoesOn(r, q, t, rec)
    PROVE  CarefulInv'
<1> USE DEF GoesOn
<1>1. /\ r \in Rpcs /\ rpc'[r] = q /\ \A s \in Rpcs \ {r} : rpc'[s] = rpc[s]
      /\ rpc[r].kind = "submit"
  BY MovesTo DEF Submits
<1>2. Submits' = Submits /\ Cancels' = Cancels
  BY <1>1 DEF Submits, Cancels
<1>3. /\ tasks'[t] = rec /\ rec # None /\ t # None
      /\ \A u \in TaskIds \ {t} : tasks'[u] = tasks[u]
  BY NoneIsNoTask, ControlPlaneAssumption DEF IInv, TypeOK
<1>4. ASSUME NEW c \in Cancels
      PROVE  c \in Rpcs /\ rpc'[c] = rpc[c] /\ rpc[c].id # t /\ rpc[c].id \in TaskIds
             /\ tasks'[rpc[c].id] = tasks[rpc[c].id]
  <2>1. c \in Rpcs /\ c # r
    BY <1>1 DEF Cancels
  <2>2. CancelInv(c)
    BY DEF CarefulInv
  <2>3. rpc[c].id # t /\ rpc[c].id \in TaskIds
    BY <2>1, <2>2, OwnTask, HandlerKnows DEF CancelInv
  <2>4. QED
    BY <1>1, <1>3, <2>1, <2>3
<1>5. ASSUME NEW s \in Submits \ {r}
      PROVE  /\ s \in Rpcs /\ rpc'[s] = rpc[s]
             /\ rpc[s].id # None => /\ rpc[s].id # t /\ rpc[s].id \in TaskIds
                                    /\ tasks'[rpc[s].id] = tasks[rpc[s].id]
  <2>1. s \in Rpcs /\ rpc[s].kind = "submit"
    BY DEF Submits
  <2>2. ASSUME rpc[s].id # None
        PROVE  rpc[s].id # t /\ rpc[s].id \in TaskIds /\ tasks[rpc[s].id] # None
    <3>1. rpc[s].id \in TaskIds /\ tasks[rpc[s].id] # None
      BY <2>1, <2>2, HandlerKnows DEF HandlerInv
    <3>2. QED
      BY <2>2, <3>1, OwnTask
  <2>3. QED
    BY <1>1, <1>3, <2>1, <2>2
<1>6. \A s \in Rpcs : rpc'[s].at = "idle" <=> rpc'[s].kind = "none"
  BY <1>1 DEF CarefulInv
<1>7. ASSUME NEW s \in Submits' PROVE SubmitInv(s)'
  <2>1. CASE s = r
    <3>1. rpc'[s] = q /\ tasks'[t].node = rec.node /\ t # None
      BY <1>1, <1>3, <2>1
    <3>2. q.at \in SubmitPoints \cup {"done"} /\ q.at # "register"
      BY DEF SubmitPoints
    <3>3. QED
      BY <3>1, <3>2 DEF SubmitInv
  <2>2. CASE s # r
    <3>1. s \in Submits \ {r}
      BY <1>2, <2>2
    <3>2. SubmitInv(s)
      BY <3>1 DEF CarefulInv
    <3>3. QED
      BY <1>5, <3>1, <3>2 DEF SubmitInv
  <2>3. QED
    BY <2>1, <2>2
<1>8. ASSUME NEW c \in Cancels' PROVE CancelInv(c)'
  <2>1. c \in Cancels /\ CancelInv(c)
    BY <1>2 DEF CarefulInv
  <2>2. ASSUME NEW s \in Submits', rpc'[s].id = rpc'[c].id PROVE rpc'[s].at = "done"
    <3>1. s # r
      BY <1>1, <1>4, <2>1, <2>2
    <3>2. rpc'[s] = rpc[s] /\ rpc[s].id = rpc[c].id /\ s \in Submits
      BY <1>2, <1>4, <1>5, <2>1, <2>2, <3>1
    <3>3. QED
      BY <2>1, <3>2 DEF CancelInv
  <2>3. QED
    BY <1>4, <2>1, <2>2 DEF CancelInv
<1>9. ASSUME NEW u \in TaskIds, tasks'[u] # None PROVE TaskInv(u)'
  <2>1. CASE u = t
    BY <1>1, <1>2, <1>3, <2>1 DEF TaskInv
  <2>2. CASE u # t
    <3>1. tasks'[u] = tasks[u] /\ TaskInv(u)
      BY <1>3, <1>9, <2>2 DEF CarefulInv
    <3>2. PICK s \in Submits : rpc[s].id = u
      BY <3>1 DEF TaskInv
    <3>3. u # None
      BY ControlPlaneAssumption
    <3>4. s # r
      BY <2>2, <3>2, <3>3
    <3>5. s \in Submits' /\ rpc'[s].id = u
      BY <1>2, <1>5, <3>2, <3>4
    <3>6. tasks'[u].status = "canceled" => \E c \in Cancels' : rpc'[c].id = u
      BY <1>2, <1>4, <3>1 DEF TaskInv
    <3>7. QED
      BY <3>5, <3>6 DEF TaskInv
  <2>3. QED
    BY <2>1, <2>2
<1>10. \A s, u \in Submits' : rpc'[s].key = rpc'[u].key => s = u
  BY <1>1, <1>2, <1>5 DEF CarefulInv
<1>11. \A c, d \in Cancels' : rpc'[c].id = rpc'[d].id => c = d
  BY <1>2, <1>4 DEF CarefulInv
<1>12. QED
  BY <1>6, <1>7, <1>8, <1>9, <1>10, <1>11 DEF CarefulInv

LEMMA RegisterCareful ==
    ASSUME IInv, CarefulInv, NEW r \in Rpcs, NEW t \in TaskIds, Register(r, t)
    PROVE  CarefulInv'
<1> DEFINE q == [rpc[r] EXCEPT !.id = t, !.at = AfterRegister(r)]
           rec == [key |-> rpc[r].key, status |-> "queued", node |-> None]
<1>1. r \in Submits /\ rpc[r].key \in Keys /\ rpc[r].id = None /\ rpc[r].at = "register"
  BY KeyIsNew DEF Register
<1>2. AfterRegister(r) \in {"dispatch", "assign"}
      /\ (AfterRegister(r) = "dispatch" => rpc[r].node = None)
  BY DEF AfterRegister
<1>3. rpc[r] \in Rpc /\ rpc[r].kind = "submit"
  BY <1>1, HandlerKnows DEF Submits
<1>4. Moves(r, q)
  BY <1>2, <1>3, HandlerKnows DEF Register, Moves, Rpc, Points, SubmitPoints
<1>5. /\ q.kind = "submit" /\ q.key = rpc[r].key /\ q.id = t /\ q.at = AfterRegister(r)
      /\ q.node = rpc[r].node
  BY <1>3 DEF Rpc
<1>6. rec \in Task /\ rec.status = "queued" /\ rec.node = None
  BY <1>1 DEF Task, Status
<1>7. tasks' = [tasks EXCEPT ![t] = rec] /\ tasks[t] = None
  BY <1>5 DEF Register
<1>8. GoesOn(r, q, t, rec)
  BY <1>1, <1>2, <1>4, <1>5, <1>6, <1>7 DEF GoesOn
<1>9. QED
  BY <1>8, SubmitGoesOn

(* What the next steps of a submit find.                                   *)
LEMMA SubmitKnows ==
    ASSUME IInv, CarefulInv, NEW r \in Rpcs,
           rpc[r].at \in {"assign", "schedule", "dispatch", "reply"}
    PROVE  /\ r \in Submits /\ rpc[r].kind = "submit" /\ rpc[r].at # "done"
           /\ rpc[r] \in Rpc /\ rpc[r].id \in TaskIds /\ rpc[r].id # None
           /\ tasks \in [TaskIds -> Task \cup {None}]
           /\ tasks[rpc[r].id] \in Task
           /\ tasks[rpc[r].id].status # "canceled"
           /\ tasks[rpc[r].id].node = IF rpc[r].at = "assign" THEN None ELSE rpc[r].node
           /\ rpc[r].at \in {"assign", "schedule"} => rpc[r].node \in NodeIds
<1>1. rpc[r].kind = "submit" /\ rpc[r].id # None /\ r \in Submits
  BY HandlerKnows DEF HandlerInv, SubmitPoints, Submits
<1>2. SubmitInv(r)
  BY <1>1 DEF CarefulInv
<1>3. QED
  BY <1>1, <1>2, OwnTask, HandlerKnows DEF SubmitInv, IInv, TypeOK, HandlerInv

LEMMA AssignNodeCareful ==
    ASSUME IInv, CarefulInv, NEW r \in Rpcs, AssignNode(r)
    PROVE  CarefulInv'
<1> DEFINE t == rpc[r].id
           q == [rpc[r] EXCEPT !.at = "schedule"]
           rec == [tasks[t] EXCEPT !.node = rpc[r].node]
<1>1. /\ r \in Submits /\ rpc[r].kind = "submit" /\ rpc[r].at # "done"
      /\ rpc[r] \in Rpc /\ t \in TaskIds /\ tasks[t] \in Task
      /\ tasks[t].status # "canceled" /\ rpc[r].node \in NodeIds
  BY SubmitKnows DEF AssignNode
<1>2. Moves(r, q)
  BY <1>1, HandlerKnows DEF AssignNode, Moves, Rpc, Points, SubmitPoints
<1>3. /\ q.kind = "submit" /\ q.key = rpc[r].key /\ q.id = t /\ q.at = "schedule"
      /\ q.node = rpc[r].node
  BY <1>1 DEF Rpc
<1>4. rec \in Task /\ rec.status = tasks[t].status /\ rec.node = rpc[r].node
  BY <1>1 DEF Task
<1>5. tasks' = [tasks EXCEPT ![t] = rec]
  BY <1>3 DEF AssignNode
<1>6. rpc[r].id = t /\ t \in TaskIds /\ rec.status # "canceled"
      /\ rec.node = IF q.at = "assign" THEN None ELSE q.node
  BY <1>1, <1>3, <1>4
<1>7. GoesOn(r, q, t, rec)
  BY <1>1, <1>2, <1>3, <1>4, <1>5, <1>6 DEF GoesOn
<1>8. QED
  BY <1>7, SubmitGoesOn

LEMMA SetScheduledCareful ==
    ASSUME IInv, CarefulInv, NEW r \in Rpcs, SetScheduled(r)
    PROVE  CarefulInv'
<1> DEFINE t == rpc[r].id
           q == [rpc[r] EXCEPT !.at = "dispatch"]
           rec == [tasks[t] EXCEPT !.status = "scheduled"]
<1>1. /\ r \in Submits /\ rpc[r].kind = "submit" /\ rpc[r].at # "done"
      /\ rpc[r] \in Rpc /\ t \in TaskIds /\ tasks[t] \in Task
      /\ tasks[t].node = rpc[r].node
  BY SubmitKnows DEF SetScheduled
<1>2. Moves(r, q)
  BY <1>1, HandlerKnows DEF SetScheduled, Moves, Rpc, Points, SubmitPoints
<1>3. /\ q.kind = "submit" /\ q.key = rpc[r].key /\ q.id = t /\ q.at = "dispatch"
      /\ q.node = rpc[r].node
  BY <1>1 DEF Rpc
<1>4. rec \in Task /\ rec.status = "scheduled" /\ rec.node = rpc[r].node
  BY <1>1 DEF Task, Status
<1>5. tasks' = [tasks EXCEPT ![t] = rec]
  BY <1>3 DEF SetScheduled
<1>6. rpc[r].id = t /\ t \in TaskIds /\ rec.status # "canceled"
      /\ rec.node = IF q.at = "assign" THEN None ELSE q.node
  BY <1>1, <1>3, <1>4
<1>7. GoesOn(r, q, t, rec)
  BY <1>1, <1>2, <1>3, <1>4, <1>5, <1>6 DEF GoesOn
<1>8. QED
  BY <1>7, SubmitGoesOn

LEMMA DispatchCareful ==
    ASSUME IInv, CarefulInv, NEW r \in Rpcs, Dispatch(r) \/ Reply(r)
    PROVE  CarefulInv'
<1>1. PICK p \in {"reply", "done"} : rpc' = [rpc EXCEPT ![r].at = p]
  BY DEF Dispatch, Reply
<1> DEFINE t == rpc[r].id
           q == [rpc[r] EXCEPT !.at = p]
<1>2. /\ r \in Submits /\ rpc[r].kind = "submit" /\ rpc[r].at # "done"
      /\ rpc[r] \in Rpc /\ t \in TaskIds /\ tasks[t] \in Task
      /\ tasks[t].node = rpc[r].node /\ tasks[t].status # "canceled"
      /\ tasks \in [TaskIds -> Task \cup {None}]
  BY SubmitKnows DEF Dispatch, Reply
<1>3. Moves(r, q)
  BY <1>1, <1>2, HandlerKnows DEF Moves, Rpc, Points, SubmitPoints
<1>4. /\ q.kind = "submit" /\ q.key = rpc[r].key /\ q.id = t /\ q.at = p
      /\ q.node = rpc[r].node
  BY <1>2 DEF Rpc
<1>5. tasks' = [tasks EXCEPT ![t] = tasks[t]]
  BY <1>2, <1>4 DEF Dispatch, Reply
<1>6. rpc[r].id = t /\ t \in TaskIds
      /\ tasks[t].node = IF q.at = "assign" THEN None ELSE q.node
  BY <1>1, <1>2, <1>4
<1>7. GoesOn(r, q, t, tasks[t])
  BY <1>1, <1>2, <1>3, <1>4, <1>5, <1>6 DEF GoesOn
<1>8. QED
  BY <1>7, SubmitGoesOn

(* submit_task of a key nobody used.                                       *)
LEMMA SubmitCareful ==
    ASSUME IInv, CarefulInv, NEW r \in Rpcs, NEW key \in Keys, NEW cap \in Required,
           CarefulSubmit(r, key, cap)
    PROVE  CarefulInv'
<1>1. PICK n : rpc' = [rpc EXCEPT ![r] = Submitted(key, cap, n)]
  BY DEF CarefulSubmit, SubmitTask
<1>2. rpc'[r] = Submitted(key, cap, n) /\ \A s \in Rpcs \ {r} : rpc'[s] = rpc[s]
  BY <1>1, HandlerKnows
<1>3. /\ rpc'[r].kind = "submit" /\ rpc'[r].at = "register" /\ rpc'[r].id = None
      /\ rpc'[r].key = key
  BY <1>2 DEF Submitted
<1>4. tasks' = tasks /\ rpc[r].kind = "none" /\ \A s \in Rpcs : rpc[s].key # key
  BY DEF CarefulSubmit, SubmitTask, CarefulInv
<1>5. Submits' = Submits \cup {r} /\ Cancels' = Cancels /\ r \notin Submits \cup Cancels
      /\ Submits \subseteq Rpcs /\ Cancels \subseteq Rpcs
  BY <1>2, <1>3, <1>4 DEF Submits, Cancels
<1>6. \A s \in Submits \cup Cancels : rpc'[s] = rpc[s]
  BY <1>2, <1>5
<1>7. \A s \in Rpcs : rpc'[s].at = "idle" <=> rpc'[s].kind = "none"
  BY <1>2, <1>3 DEF CarefulInv
<1>8. ASSUME NEW s \in Submits' PROVE SubmitInv(s)'
  <2>1. CASE s = r
    BY <1>3, <2>1 DEF SubmitInv, SubmitPoints
  <2>2. CASE s # r
    <3>1. s \in Submits /\ SubmitInv(s) /\ rpc'[s] = rpc[s]
      BY <1>5, <1>6, <2>2 DEF CarefulInv
    <3>2. QED
      BY <1>4, <3>1 DEF SubmitInv
  <2>3. QED
    BY <2>1, <2>2
<1>9. ASSUME NEW c \in Cancels' PROVE CancelInv(c)'
  <2>1. c \in Cancels /\ CancelInv(c) /\ rpc'[c] = rpc[c]
    BY <1>5, <1>6 DEF CarefulInv
  <2>2. ASSUME NEW s \in Submits', rpc'[s].id = rpc'[c].id PROVE rpc'[s].at = "done"
    BY <1>3, <1>5, <1>6, <2>1, <2>2 DEF CancelInv
  <2>3. QED
    BY <1>4, <2>1, <2>2 DEF CancelInv
<1>10. \A t \in TaskIds : tasks'[t] # None => TaskInv(t)'
  BY <1>4, <1>5, <1>6 DEF CarefulInv, TaskInv
<1>11. \A s, u \in Submits' : rpc'[s].key = rpc'[u].key => s = u
  BY <1>3, <1>4, <1>5, <1>6 DEF CarefulInv
<1>12. \A c, d \in Cancels' : rpc'[c].id = rpc'[d].id => c = d
  BY <1>5, <1>6 DEF CarefulInv
<1>13. QED
  BY <1>7, <1>8, <1>9, <1>10, <1>11, <1>12 DEF CarefulInv

(* cancel_task, of a task nobody canceled and whose submit is answered.    *)
LEMMA CancelCareful ==
    ASSUME IInv, CarefulInv, NEW r \in Rpcs, NEW t \in TaskIds, CarefulCancel(r, t)
    PROVE  CarefulInv'
<1> DEFINE q == [IdleRpc EXCEPT !.kind = "cancel", !.at = "get", !.id = t]
           rec == [tasks[t] EXCEPT !.status = "canceled"]
<1>1. /\ rpc' = [rpc EXCEPT ![r] = q] /\ tasks' = [tasks EXCEPT ![t] = rec]
      /\ rpc \in [Rpcs -> Rpc] /\ tasks \in [TaskIds -> Task \cup {None}]
      /\ rpc[r].at = "idle" /\ rpc[r].kind = "none"
      /\ tasks[t] # None /\ tasks[t] \in Task /\ t # None
  BY ControlPlaneAssumption
     DEF CarefulCancel, CancelTask, IInv, TypeOK, CarefulInv
<1>2. /\ q.kind = "cancel" /\ q.at = "get" /\ q.id = t /\ q.node = None
  BY DEF IdleRpc
<1>3. /\ rec \in Task /\ rec.status = "canceled" /\ rec.node = tasks[t].node
      /\ rec # None
  BY <1>1, NoneIsNoTask DEF Task, Status
<1> HIDE DEF q, rec
<1>4. rpc'[r] = q /\ \A s \in Rpcs \ {r} : rpc'[s] = rpc[s]
  BY <1>1
<1>5. tasks'[t] = rec /\ \A u \in TaskIds \ {t} : tasks'[u] = tasks[u]
  BY <1>1
<1>6. Submits' = Submits /\ Cancels' = Cancels \cup {r} /\ r \notin Submits \cup Cancels
      /\ Submits \subseteq Rpcs /\ Cancels \subseteq Rpcs
  BY <1>1, <1>2, <1>4 DEF Submits, Cancels
<1>7. \A s \in Submits \cup Cancels : rpc'[s] = rpc[s]
  BY <1>4, <1>6
<1>8. /\ \A c \in Cancels : rpc[c].id # t
      /\ \A s \in Submits : rpc[s].id = t => rpc[s].at = "done"
  <2>1. \A c \in Cancels : rpc[c].id # t
    BY DEF CarefulCancel, Cancels
  <2>2. PICK s \in Submits : rpc[s].id = t /\ rpc[s].at = "done"
    BY DEF CarefulCancel, Submits
  <2>3. QED
    BY <1>1, <2>1, <2>2, OneSubmit
<1>9. \A s \in Rpcs : rpc'[s].at = "idle" <=> rpc'[s].kind = "none"
  BY <1>2, <1>4 DEF CarefulInv
<1>10. ASSUME NEW s \in Submits' PROVE SubmitInv(s)'
  <2>1. s \in Submits /\ SubmitInv(s) /\ rpc'[s] = rpc[s] /\ s \in Rpcs
    BY <1>6, <1>7 DEF CarefulInv
  <2>2. rpc[s].id # None => tasks'[rpc[s].id].node = tasks[rpc[s].id].node
    BY <1>3, <1>5, <2>1, HandlerKnows
  <2>3. QED
    BY <2>1, <2>2 DEF SubmitInv
<1>11. ASSUME NEW c \in Cancels' PROVE CancelInv(c)'
  <2>1. CASE c = r
    <3>1. ASSUME NEW s \in Submits', rpc'[s].id = t PROVE rpc'[s].at = "done"
      BY <1>6, <1>7, <1>8, <3>1
    <3>2. QED
      BY <1>1, <1>2, <1>3, <1>4, <1>5, <2>1, <3>1 DEF CancelInv
  <2>2. CASE c # r
    <3>1. c \in Cancels /\ CancelInv(c) /\ rpc'[c] = rpc[c] /\ c \in Rpcs
      BY <1>6, <1>7, <2>2 DEF CarefulInv
    <3>2. tasks'[rpc[c].id] = tasks[rpc[c].id]
      BY <1>5, <1>8, <3>1, HandlerKnows DEF CancelInv
    <3>3. ASSUME NEW s \in Submits', rpc'[s].id = rpc'[c].id PROVE rpc'[s].at = "done"
      BY <1>6, <1>7, <3>1, <3>3 DEF CancelInv
    <3>4. QED
      BY <3>1, <3>2, <3>3 DEF CancelInv
  <2>3. QED
    BY <2>1, <2>2
<1>12. ASSUME NEW u \in TaskIds, tasks'[u] # None PROVE TaskInv(u)'
  <2>1. tasks[u] # None /\ TaskInv(u)
    BY <1>1, <1>5, <1>12 DEF CarefulInv
  <2>2. \E s \in Submits' : rpc'[s].id = u
    BY <1>6, <1>7, <2>1 DEF TaskInv
  <2>3. tasks'[u].status = "canceled" => \E c \in Cancels' : rpc'[c].id = u
    <3>1. CASE u = t
      BY <1>2, <1>4, <1>6, <3>1
    <3>2. CASE u # t
      BY <1>5, <1>6, <1>7, <2>1, <3>2 DEF TaskInv
    <3>3. QED
      BY <3>1, <3>2
  <2>4. QED
    BY <2>2, <2>3 DEF TaskInv
<1>13. \A s, u \in Submits' : rpc'[s].key = rpc'[u].key => s = u
  BY <1>6, <1>7 DEF CarefulInv
<1>14. \A c, d \in Cancels' : rpc'[c].id = rpc'[d].id => c = d
  BY <1>2, <1>4, <1>6, <1>7, <1>8 DEF CarefulInv
<1>15. QED
  BY <1>9, <1>10, <1>11, <1>12, <1>13, <1>14 DEF CarefulInv

(* The rest of a cancel looks its task up and frees the slot.              *)
LEMMA CancelGoesOn ==
    ASSUME IInv, CarefulInv, NEW c \in Rpcs, CancelGet(c) \/ CancelRelease(c)
    PROVE  /\ CarefulInv'
           /\ c \in Cancels /\ Submits' = Submits /\ Cancels' = Cancels
           /\ rpc'[c].id = rpc[c].id /\ rpc'[c].at \in {"release", "done"}
           /\ \A s \in Rpcs \ {c} : rpc'[s] = rpc[s]
<1>1. /\ c \in Cancels /\ rpc[c] \in Rpc /\ rpc[c].kind = "cancel"
      /\ rpc \in [Rpcs -> Rpc] /\ CancelInv(c) /\ tasks' = tasks
  BY HandlerKnows
     DEF CancelGet, CancelRelease, HandlerInv, CancelPoints, Cancels, CarefulInv
<1>2. /\ \A s \in Rpcs \ {c} : rpc'[s] = rpc[s]
      /\ rpc'[c].kind = "cancel" /\ rpc'[c].id = rpc[c].id
      /\ rpc'[c].at \in {"release", "done"}
      /\ rpc'[c].at = "release" =>
            rpc'[c].node # None /\ rpc'[c].node = tasks[rpc[c].id].node
  <2>1. CASE CancelGet(c)
    <3> DEFINE n == tasks[rpc[c].id].node
    <3>1. rpc' = [rpc EXCEPT ![c] = [rpc[c] EXCEPT
              !.node = n, !.at = IF n = None THEN "done" ELSE "release"]]
      BY <2>1 DEF CancelGet
    <3>2. QED
      BY <1>1, <3>1 DEF Rpc
  <2>2. CASE CancelRelease(c)
    BY <1>1, <2>2 DEF CancelRelease, Rpc
  <2>3. QED
    BY <2>1, <2>2
<1>3. Submits' = Submits /\ Cancels' = Cancels /\ c \notin Submits
      /\ Submits \subseteq Rpcs /\ Cancels \subseteq Rpcs
  BY <1>1, <1>2 DEF Submits, Cancels
<1>4. \A s \in Submits : rpc'[s] = rpc[s]
  BY <1>2, <1>3
<1>5. \A s \in Rpcs : rpc'[s].at = "idle" <=> rpc'[s].kind = "none"
  BY <1>2 DEF CarefulInv
<1>6. \A s \in Submits' : SubmitInv(s)'
  BY <1>1, <1>3, <1>4 DEF CarefulInv, SubmitInv
<1>7. ASSUME NEW d \in Cancels' PROVE CancelInv(d)'
  <2>1. d \in Cancels /\ CancelInv(d) /\ d \in Rpcs
    BY <1>3 DEF CarefulInv
  <2>2. rpc'[d].id = rpc[d].id
    BY <1>2, <2>1
  <2>3. ASSUME NEW s \in Submits', rpc'[s].id = rpc'[d].id PROVE rpc'[s].at = "done"
    BY <1>3, <1>4, <2>1, <2>2, <2>3 DEF CancelInv
  <2>4. QED
    BY <1>1, <1>2, <2>1, <2>2, <2>3 DEF CancelInv
<1>8. \A t \in TaskIds : tasks'[t] # None => TaskInv(t)'
  BY <1>1, <1>2, <1>3, <1>4 DEF CarefulInv, TaskInv
<1>9. \A s, u \in Submits' : rpc'[s].key = rpc'[u].key => s = u
  BY <1>3, <1>4 DEF CarefulInv
<1>10. \A d, e \in Cancels' : rpc'[d].id = rpc'[e].id => d = e
  BY <1>2, <1>3 DEF CarefulInv
<1>11. QED
  BY <1>1, <1>2, <1>3, <1>5, <1>6, <1>7, <1>8, <1>9, <1>10 DEF CarefulInv

LEMMA InitCareful == Init => CarefulInv
<1> SUFFICES ASSUME Init PROVE CarefulInv
  OBVIOUS
<1>1. Submits = {} /\ Cancels = {}
  BY DEF Init, IdleRpc, Submits, Cancels
<1>2. QED
  BY <1>1 DEF Init, IdleRpc, CarefulInv

LEMMA NextCareful == IInv /\ CarefulInv /\ [CarefulNext]_vars => CarefulInv'
<1> SUFFICES ASSUME IInv, CarefulInv, [CarefulNext]_vars PROVE CarefulInv'
  OBVIOUS
<1>1. ASSUME NEW r \in Rpcs, NEW key \in Keys, NEW cap \in Required,
             CarefulSubmit(r, key, cap)
      PROVE  CarefulInv'
  BY <1>1, SubmitCareful
<1>2. ASSUME NEW r \in Rpcs, NEW t \in TaskIds, CarefulCancel(r, t)
      PROVE  CarefulInv'
  BY <1>2, CancelCareful
<1>3. ASSUME NEW r \in Rpcs, Reuse(r) PROVE FALSE
  BY <1>3, KeyIsNew DEF Reuse
<1>4. ASSUME NEW r \in Rpcs, HandlerStep(r)
      PROVE  CarefulInv'
  BY <1>3, <1>4, RegisterCareful, AssignNodeCareful, SetScheduledCareful,
     DispatchCareful, CancelGoesOn DEF HandlerStep
<1>5. CASE UNCHANGED vars
  BY <1>5 DEF vars, CarefulInv, SubmitInv, CancelInv, TaskInv, Submits, Cancels
<1>6. QED
  BY <1>1, <1>2, <1>4, <1>5 DEF CarefulNext

LEMMA CarefulInvariance == CarefulSpec => [](IInv /\ CarefulInv)
<1>1. IInv /\ [CarefulNext]_vars => IInv'
  BY NextIInv, CarefulStepIsStep
<1>2. QED
  BY InitIInv, InitCareful, <1>1, NextCareful, PTL DEF CarefulSpec

-----------------------------------------------------------------------------
(* The slots of a node, by the submits that hold them.                     *)
LEMMA PlacedLoad ==
    ASSUME NEW N, IsNodeTable(N), NEW cap, NEW n \in DOMAIN N
    PROVE  /\ DOMAIN Placed(N, cap, n) = DOMAIN N
           /\ \A m \in DOMAIN N :
                 Placed(N, cap, n)[m].load = IF m = n THEN Inc(N[m].load) ELSE N[m].load
<1> DEFINE A == Asked(N, cap)
<1>1. /\ DOMAIN A = DOMAIN N /\ IsNodeTable(A)
      /\ \A m \in DOMAIN N : A[m].load = N[m].load
  BY AskedTable
<1>2. Placed(N, cap, n) = [A EXCEPT ![n] = [A[n] EXCEPT !.load = Inc(@)]]
  BY DEF Placed
<1>3. A \in [DOMAIN N -> NodeRuntime]
  BY <1>1 DEF IsNodeTable
<1> HIDE DEF A
<1>4. \A m \in DOMAIN N : A[m] \in NodeRuntime
  BY <1>3
<1>5. [A[n] EXCEPT !.load = Inc(@)].load = Inc(A[n].load)
  BY <1>4 DEF NodeRuntime
<1>6. QED
  BY <1>1, <1>2, <1>3, <1>5

LEMMA ReleasedLoad ==
    ASSUME NEW N, IsNodeTable(N), NEW n
    PROVE  /\ DOMAIN Released(N, n) = DOMAIN N
           /\ \A m \in DOMAIN N :
                 Released(N, n)[m].load = IF m = n THEN Dec(N[m].load) ELSE N[m].load
<1>1. \A m \in DOMAIN N : N[m] \in NodeRuntime
  BY DEF IsNodeTable
<1>2. \A rt \in NodeRuntime : [rt EXCEPT !.load = Dec(@)].load = Dec(rt.load)
  BY DEF NodeRuntime
<1>3. QED
  BY <1>1, <1>2 DEF Released

(* However many requests there are, a load counts those that hold a slot.  *)
LEMMA Countable ==
    ASSUME NEW S \in SUBSET Rpcs
    PROVE  /\ IsFiniteSet(S) /\ Cardinality(S) \in Nat /\ Cardinality(S) < Word
           /\ \A r \in Rpcs \ S : Cardinality(S) + 1 < Word
<1>1. IsFiniteSet(S) /\ Cardinality(S) \in Nat /\ Cardinality(S) < Word
  BY RequestsAreCounted, OpsAssumption, FS_Subset, FS_CardinalityType
<1>2. ASSUME NEW r \in Rpcs \ S PROVE Cardinality(S) + 1 < Word
  <2>1. S \cup {r} \in SUBSET Rpcs
    OBVIOUS
  <2>2. Cardinality(S \cup {r}) <= Cardinality(Rpcs)
    BY <2>1, RequestsAreCounted, FS_Subset
  <2>3. Cardinality(S \cup {r}) = Cardinality(S) + 1
    BY <1>1, FS_AddElement
  <2>4. Cardinality(Rpcs) \in Nat
    BY RequestsAreCounted, FS_CardinalityType
  <2>5. QED
    BY <1>1, <2>2, <2>3, <2>4, RequestsAreCounted, OpsAssumption
<1>3. QED
  BY <1>1, <1>2

(* A step that leaves the loads and their holders alone.                   *)
LEMMA LoadsKept ==
    ASSUME LoadInv, DOMAIN nodes' = DOMAIN nodes,
           \A n \in DOMAIN nodes : /\ nodes'[n].load = nodes[n].load
                                   /\ Holding(n)' = Holding(n)
    PROVE  LoadInv'
  BY DEF LoadInv

LEMMA InitLoad == Init => LoadInv
<1> SUFFICES ASSUME Init, NEW n \in DOMAIN nodes
             PROVE  nodes[n].load = Cardinality(Holding(n))
  BY DEF LoadInv
<1>1. nodes[n].load = 0
  BY DEF Init, Synced, NewRuntime
<1>2. Holding(n) = {}
  BY DEF Init, IdleRpc, Submits, Holding
<1>3. QED
  BY <1>1, <1>2, FS_EmptySet

LEMMA SubmitLoad ==
    ASSUME IInv, CarefulInv, LoadInv, NEW r \in Rpcs, NEW key \in Keys,
           NEW cap \in Required, CarefulSubmit(r, key, cap)
    PROVE  LoadInv'
<1>1. /\ IsNodeTable(nodes) /\ DOMAIN nodes \subseteq NodeIds /\ rpc \in [Rpcs -> Rpc]
      /\ rpc[r].kind = "none"
  BY HandlerKnows DEF CarefulSubmit, SubmitTask, CarefulInv, IsNodeTable
<1>2. ASSUME NEW n, rpc' = [rpc EXCEPT ![r] = Submitted(key, cap, n)]
      PROVE  \A m : Holding(m)' = IF m = n THEN Holding(m) \cup {r} ELSE Holding(m)
  <2>1. rpc'[r] = Submitted(key, cap, n) /\ \A s \in Rpcs \ {r} : rpc'[s] = rpc[s]
    BY <1>1, <1>2
  <2>2. /\ rpc'[r].kind = "submit" /\ rpc'[r].node = n /\ rpc'[r].id = None
    BY <2>1 DEF Submitted
  <2>3. Submits' = Submits \cup {r} /\ Cancels' = Cancels /\ r \notin Submits \cup Cancels
        /\ Submits \subseteq Rpcs /\ Cancels \subseteq Rpcs
    BY <1>1, <2>1, <2>2 DEF Submits, Cancels
  <2>4. ~Freed(r)'
    <3>1. \A c \in Cancels : rpc'[c] = rpc[c] /\ rpc[c].id # None
      BY <2>1, <2>3 DEF CarefulInv, CancelInv
    <3>2. QED
      BY <2>2, <2>3, <3>1 DEF Freed
  <2>5. \A s \in Submits : rpc'[s] = rpc[s] /\ (Freed(s)' <=> Freed(s))
    BY <2>1, <2>3 DEF Freed
  <2>6. QED
    BY <2>2, <2>3, <2>4, <2>5 DEF Holding
<1>3. CASE \E n \in LeastLoaded(nodes, cap) :
              /\ nodes' = Placed(nodes, cap, n)
              /\ rpc' = [rpc EXCEPT ![r] = Submitted(key, cap, n)]
  <2>1. PICK n \in DOMAIN nodes : /\ nodes' = Placed(nodes, cap, n)
                                  /\ rpc' = [rpc EXCEPT ![r] = Submitted(key, cap, n)]
    BY <1>3 DEF LeastLoaded, Eligible
  <2>2. /\ DOMAIN nodes' = DOMAIN nodes
        /\ \A m \in DOMAIN nodes :
              nodes'[m].load = IF m = n THEN Inc(nodes[m].load) ELSE nodes[m].load
    BY <1>1, <2>1, PlacedLoad
  <2>3. ASSUME NEW m \in DOMAIN nodes PROVE nodes'[m].load = Cardinality(Holding(m)')
    <3>1. nodes[m].load = Cardinality(Holding(m))
      BY DEF LoadInv
    <3>2. CASE m # n
      BY <1>2, <2>1, <2>2, <3>1, <3>2
    <3>3. CASE m = n
      <4>1. Holding(m) \in SUBSET Rpcs /\ r \in Rpcs \ Holding(m)
        BY <1>1 DEF Holding, Submits
      <4>2. IsFiniteSet(Holding(m)) /\ Cardinality(Holding(m)) \in Nat
            /\ Cardinality(Holding(m)) + 1 < Word
        BY <4>1, Countable
      <4>3. Cardinality(Holding(m) \cup {r}) = Cardinality(Holding(m)) + 1
        BY <4>1, <4>2, FS_AddElement
      <4>4. Inc(nodes[m].load) = Cardinality(Holding(m)) + 1
        BY <3>1, <4>2, OpsAssumption DEF Inc
      <4>5. QED
        BY <1>2, <2>1, <2>2, <3>3, <4>3, <4>4
    <3>4. QED
      BY <3>2, <3>3
  <2>4. QED
    BY <2>2, <2>3 DEF LoadInv
<1>4. CASE /\ nodes' = Asked(nodes, cap)
           /\ rpc' = [rpc EXCEPT ![r] = Submitted(key, cap, None)]
  <2>1. DOMAIN nodes' = DOMAIN nodes
        /\ \A n \in DOMAIN nodes : nodes'[n].load = nodes[n].load
    BY <1>1, <1>4, AskedTable
  <2>2. \A n \in DOMAIN nodes : Holding(n)' = Holding(n)
    BY <1>1, <1>2, <1>4, ControlPlaneAssumption
  <2>3. QED
    BY <2>1, <2>2, LoadsKept
<1>5. QED
  BY <1>3, <1>4 DEF CarefulSubmit, SubmitTask

(* The later steps of a submit keep its node, and no cancel has its task.  *)
LEMMA HandlerLoad ==
    ASSUME IInv, CarefulInv, LoadInv, NEW r \in Rpcs,
           \/ \E t \in TaskIds : Register(r, t)
           \/ AssignNode(r) \/ SetScheduled(r) \/ Dispatch(r) \/ Reply(r)
    PROVE  LoadInv'
<1>1. /\ r \in Submits /\ rpc[r] \in Rpc /\ rpc[r].at # "done" /\ rpc \in [Rpcs -> Rpc]
      /\ rpc[r].kind = "submit"
  BY KeyIsNew, SubmitKnows, HandlerKnows
     DEF Register, AssignNode, SetScheduled, Dispatch, Reply, Submits
<1>2. /\ rpc'[r].kind = "submit" /\ rpc'[r].node = rpc[r].node
      /\ \/ rpc'[r].id = rpc[r].id
         \/ rpc'[r].id \in TaskIds /\ tasks[rpc'[r].id] = None
      /\ \A s \in Rpcs \ {r} : rpc'[s] = rpc[s]
  <2>1. ASSUME NEW t \in TaskIds, Register(r, t)
        PROVE  /\ tasks[t] = None
               /\ rpc' = [rpc EXCEPT ![r] = [rpc[r] EXCEPT !.id = t,
                                                          !.at = AfterRegister(r)]]
    BY <2>1 DEF Register
  <2>2. ASSUME AssignNode(r) \/ SetScheduled(r) \/ Dispatch(r) \/ Reply(r)
        PROVE  \E p : rpc' = [rpc EXCEPT ![r] = [rpc[r] EXCEPT !.at = p]]
    BY <2>2 DEF AssignNode, SetScheduled, Dispatch, Reply
  <2>3. CASE \E t \in TaskIds : Register(r, t)
    <3>1. PICK t \in TaskIds : Register(r, t)
      BY <2>3
    <3> DEFINE q == [rpc[r] EXCEPT !.id = t, !.at = AfterRegister(r)]
    <3>2. tasks[t] = None /\ rpc' = [rpc EXCEPT ![r] = q]
      BY <2>1, <3>1
    <3>3. q.kind = "submit" /\ q.node = rpc[r].node /\ q.id = t
      BY <1>1 DEF Rpc
    <3> HIDE DEF q
    <3>4. rpc'[r] = q /\ \A s \in Rpcs \ {r} : rpc'[s] = rpc[s]
      BY <1>1, <3>2
    <3>5. QED
      BY <3>2, <3>3, <3>4
  <2>4. CASE AssignNode(r) \/ SetScheduled(r) \/ Dispatch(r) \/ Reply(r)
    BY <1>1, <2>2, <2>4 DEF Rpc
  <2>5. QED
    BY <2>3, <2>4
<1>3. /\ Submits' = Submits /\ Cancels' = Cancels /\ r \notin Cancels
      /\ Submits \subseteq Rpcs /\ Cancels \subseteq Rpcs
  BY <1>1, <1>2 DEF Submits, Cancels
<1>4. \A c \in Cancels : rpc'[c] = rpc[c]
  BY <1>2, <1>3
<1>5. ~Freed(r) /\ ~Freed(r)'
  <2>1. \A c \in Cancels : rpc[c].id # rpc[r].id
    BY <1>1, OwnTask
  <2>2. \A c \in Cancels : rpc[c].id # rpc'[r].id
    BY <1>2, <2>1 DEF CarefulInv, CancelInv
  <2>3. QED
    BY <1>3, <1>4, <2>1, <2>2 DEF Freed
<1>6. \A s \in Submits \ {r} : rpc'[s] = rpc[s] /\ (Freed(s)' <=> Freed(s))
  BY <1>2, <1>3, <1>4 DEF Freed
<1>7. \A n \in DOMAIN nodes : Holding(n)' = Holding(n)
  BY <1>1, <1>2, <1>3, <1>5, <1>6 DEF Holding
<1>8. nodes' = nodes
  BY DEF Register, AssignNode, SetScheduled, Dispatch, Reply
<1>9. QED
  BY <1>7, <1>8, LoadsKept

LEMMA CancelLoad ==
    ASSUME IInv, CarefulInv, LoadInv, NEW r \in Rpcs, NEW t \in TaskIds,
           CarefulCancel(r, t)
    PROVE  LoadInv'
<1>1. /\ rpc'[r].kind = "cancel" /\ rpc'[r].at = "get" /\ rpc[r].kind = "none"
      /\ \A s \in Rpcs \ {r} : rpc'[s] = rpc[s]
      /\ nodes' = nodes
  BY HandlerKnows DEF CarefulCancel, CancelTask, IdleRpc, CarefulInv
<1>2. Submits' = Submits /\ Cancels' = Cancels \cup {r} /\ r \notin Submits \cup Cancels
      /\ Submits \subseteq Rpcs /\ Cancels \subseteq Rpcs
  BY <1>1 DEF Submits, Cancels
<1>3. \A s \in Submits \cup Cancels : rpc'[s] = rpc[s]
  BY <1>1, <1>2
<1>4. \A s \in Submits : Freed(s)' <=> Freed(s)
  BY <1>1, <1>2, <1>3 DEF Freed
<1>5. \A n \in DOMAIN nodes : Holding(n)' = Holding(n)
  BY <1>2, <1>3, <1>4 DEF Holding
<1>6. QED
  BY <1>1, <1>5, LoadsKept

(* registry.get ends a cancel only when its task has no node: then no slot *)
(* is held for it.                                                         *)
LEMMA CancelGetLoad ==
    ASSUME IInv, CarefulInv, LoadInv, NEW c \in Rpcs, CancelGet(c)
    PROVE  LoadInv'
<1>1. /\ c \in Cancels /\ Submits' = Submits /\ Cancels' = Cancels
      /\ rpc'[c].id = rpc[c].id /\ \A s \in Rpcs \ {c} : rpc'[s] = rpc[s]
      /\ rpc[c].at = "get" /\ CancelInv(c)
      /\ c \notin Submits /\ Submits \subseteq Rpcs /\ Cancels \subseteq Rpcs
  BY CancelGoesOn DEF CancelGet, CarefulInv, Submits, Cancels
<1>2. rpc'[c].at = "done" => tasks[rpc[c].id].node = None
  BY HandlerKnows DEF CancelGet, Rpc
<1>3. ASSUME NEW s \in Submits, NEW n \in DOMAIN nodes, rpc[s].node = n
      PROVE  Freed(s)' <=> Freed(s)
  <2>1. CASE rpc[s].id = rpc[c].id
    <3>1. rpc[s].at = "done" /\ SubmitInv(s) /\ rpc[s].id # None
      BY <1>1, <2>1 DEF CancelInv, CarefulInv
    <3>2. tasks[rpc[c].id].node = n /\ n # None
      BY <1>3, <2>1, <3>1, HandlerKnows, ControlPlaneAssumption DEF SubmitInv, IsNodeTable
    <3>3. rpc'[c].at # "done"
      BY <1>2, <3>2
    <3>4. QED
      BY <1>1, <3>3 DEF Freed
  <2>2. CASE rpc[s].id # rpc[c].id
    BY <1>1, <2>2 DEF Freed
  <2>3. QED
    BY <2>1, <2>2
<1>4. \A s \in Submits : rpc'[s] = rpc[s]
  BY <1>1
<1>5. ASSUME NEW n \in DOMAIN nodes PROVE Holding(n)' = Holding(n)
  BY <1>1, <1>3, <1>4 DEF Holding
<1>6. nodes' = nodes
  BY DEF CancelGet
<1>7. QED
  BY <1>5, <1>6, LoadsKept

(* release takes the slot from the one submit of the task.                 *)
LEMMA CancelReleaseLoad ==
    ASSUME IInv, CarefulInv, LoadInv, NEW c \in Rpcs, CancelRelease(c)
    PROVE  LoadInv'
<1>1. /\ c \in Cancels /\ Submits' = Submits /\ Cancels' = Cancels
      /\ rpc'[c].id = rpc[c].id /\ \A s \in Rpcs \ {c} : rpc'[s] = rpc[s]
      /\ rpc[c].at = "release" /\ CancelInv(c)
      /\ c \notin Submits /\ Submits \subseteq Rpcs /\ Cancels \subseteq Rpcs
  BY CancelGoesOn DEF CancelRelease, CarefulInv, Submits, Cancels
<1>2. rpc'[c].at = "done" /\ nodes' = Released(nodes, rpc[c].node) /\ IsNodeTable(nodes)
  BY HandlerKnows DEF CancelRelease, Rpc
<1>3. /\ rpc[c].id \in TaskIds /\ tasks[rpc[c].id] # None /\ rpc[c].id # None
      /\ rpc[c].node = tasks[rpc[c].id].node
  BY <1>1, HandlerKnows DEF CancelInv
<1>4. PICK s \in Submits : rpc[s].id = rpc[c].id
  BY <1>3 DEF CarefulInv, TaskInv
<1>5. \A u \in Submits : rpc[u].id = rpc[c].id => u = s
  BY <1>3, <1>4, OneSubmit
<1>6. rpc[s].node = rpc[c].node
  BY <1>1, <1>3, <1>4 DEF CarefulInv, SubmitInv, CancelInv
<1>7. ~Freed(s) /\ Freed(s)'
  <2>1. ~Freed(s)
    BY <1>1, <1>4 DEF Freed, CarefulInv
  <2>2. Freed(s)'
    BY <1>1, <1>2, <1>4 DEF Freed
  <2>3. QED
    BY <2>1, <2>2
<1>8. \A u \in Submits : rpc'[u] = rpc[u] /\ (u # s => (Freed(u)' <=> Freed(u)))
  BY <1>1, <1>5 DEF Freed
<1>9. \A n : Holding(n)' = IF n = rpc[c].node THEN Holding(n) \ {s} ELSE Holding(n)
  BY <1>1, <1>4, <1>6, <1>7, <1>8 DEF Holding
<1>10. /\ DOMAIN nodes' = DOMAIN nodes
       /\ \A n \in DOMAIN nodes :
             nodes'[n].load = IF n = rpc[c].node THEN Dec(nodes[n].load) ELSE nodes[n].load
  BY <1>2, ReleasedLoad
<1>11. ASSUME NEW n \in DOMAIN nodes PROVE nodes'[n].load = Cardinality(Holding(n)')
  <2>1. nodes[n].load = Cardinality(Holding(n))
    BY DEF LoadInv
  <2>2. CASE n # rpc[c].node
    BY <1>9, <1>10, <2>1, <2>2
  <2>3. CASE n = rpc[c].node
    <3>1. s \in Holding(n) /\ Holding(n) \in SUBSET Rpcs
      BY <1>1, <1>6, <1>7, <2>3 DEF Holding
    <3>2. IsFiniteSet(Holding(n)) /\ Cardinality(Holding(n)) \in Nat
      BY <3>1, Countable
    <3>3. Cardinality(Holding(n) \ {s}) = Cardinality(Holding(n)) - 1
      BY <3>1, <3>2, FS_RemoveElement
    <3>4. Cardinality(Holding(n)) # 0
      BY <3>1, <3>2, FS_EmptySet
    <3>5. Dec(nodes[n].load) = Cardinality(Holding(n)) - 1
      BY <2>1, <3>2, <3>4 DEF Dec
    <3>6. QED
      BY <1>9, <1>10, <2>3, <3>3, <3>5
  <2>4. QED
    BY <2>2, <2>3
<1>12. QED
  BY <1>10, <1>11 DEF LoadInv

LEMMA NextLoad == IInv /\ CarefulInv /\ LoadInv /\ [CarefulNext]_vars => LoadInv'
<1> SUFFICES ASSUME IInv, CarefulInv, LoadInv, [CarefulNext]_vars PROVE LoadInv'
  OBVIOUS
<1>1. ASSUME NEW r \in Rpcs, NEW key \in Keys, NEW cap \in Required,
             CarefulSubmit(r, key, cap)
      PROVE  LoadInv'
  BY <1>1, SubmitLoad
<1>2. ASSUME NEW r \in Rpcs, NEW t \in TaskIds, CarefulCancel(r, t)
      PROVE  LoadInv'
  BY <1>2, CancelLoad
<1>3. ASSUME NEW r \in Rpcs, Reuse(r) PROVE FALSE
  BY <1>3, KeyIsNew DEF Reuse
<1>4. ASSUME NEW r \in Rpcs, HandlerStep(r)
      PROVE  LoadInv'
  BY <1>3, <1>4, HandlerLoad, CancelGetLoad, CancelReleaseLoad DEF HandlerStep
<1>5. CASE UNCHANGED vars
  BY <1>5 DEF vars, LoadInv, Holding, Freed, Submits, Cancels
<1>6. QED
  BY <1>1, <1>2, <1>4, <1>5 DEF CarefulNext

LEMMA LoadInvariance == CarefulSpec => [](IInv /\ CarefulInv /\ LoadInv)
  BY InitLoad, NextLoad, CarefulInvariance, PTL DEF CarefulSpec

-----------------------------------------------------------------------------
(* The holders of a slot, by where their request stands.                   *)
StillPlacing(n) == {r \in Holding(n) : rpc[r].at \in {"register", "assign"}}
Holds(n) == {r \in Holding(n) : /\ rpc[r].at \notin {"register", "assign"}
                                  /\ tasks[rpc[r].id].status # "canceled"}
Leaving(n) == {r \in Holding(n) : /\ rpc[r].at \notin {"register", "assign"}
                                  /\ tasks[rpc[r].id].status = "canceled"}

LEMMA SameSize ==
    ASSUME NEW S, NEW T, IsFiniteSet(S), NEW f \in [S -> T],
           \A x, y \in S : f[x] = f[y] => x = y,
           \A z \in T : \E x \in S : f[x] = z
    PROVE  Cardinality(T) = Cardinality(S)
<1>1. f \in Bijection(S, T)
  BY DEF Bijection, Injection, Surjection, IsInjective
<1>2. QED
  BY <1>1, FS_Bijection DEF ExistsBijection

LEMMA ThreeParts ==
    ASSUME NEW A, NEW B, NEW C, IsFiniteSet(A), IsFiniteSet(B), IsFiniteSet(C),
           A \cap B = {}, A \cap C = {}, B \cap C = {}
    PROVE  Cardinality((A \cup B) \cup C) = Cardinality(A) + Cardinality(B) + Cardinality(C)
<1>1. /\ IsFiniteSet(A \cup B)
      /\ Cardinality(A \cup B) = Cardinality(A) + Cardinality(B) - Cardinality({})
  BY FS_Union
<1>2. (A \cup B) \cap C = {}
  OBVIOUS
<1>3. Cardinality((A \cup B) \cup C)
        = Cardinality(A \cup B) + Cardinality(C) - Cardinality({})
  BY <1>1, <1>2, FS_Union
<1>4. /\ Cardinality({}) = 0 /\ Cardinality(A) \in Nat /\ Cardinality(B) \in Nat
      /\ Cardinality(C) \in Nat
  BY FS_EmptySet, FS_CardinalityType
<1>5. QED
  BY <1>1, <1>3, <1>4

(* A holder past its registration has its task, on its node.               *)
LEMMA HolderKnows ==
    ASSUME IInv, CarefulInv, NEW n \in DOMAIN nodes, NEW r \in Holding(n),
           rpc[r].at \notin {"register", "assign"}
    PROVE  /\ r \in Submits /\ ~Freed(r) /\ n # None
           /\ rpc[r].id \in TaskIds /\ rpc[r].id # None
           /\ tasks[rpc[r].id] # None /\ tasks[rpc[r].id].node = n
<1>1. r \in Submits /\ r \in Rpcs /\ rpc[r].kind = "submit" /\ ~Freed(r) /\ rpc[r].node = n
  BY DEF Holding, Submits
<1>2. n # None
  BY HandlerKnows, <1>1, ControlPlaneAssumption DEF IsNodeTable
<1>3. rpc[r].id # None /\ tasks[rpc[r].id].node = n
  BY <1>1 DEF CarefulInv, SubmitInv
<1>4. QED
  BY <1>1, <1>2, <1>3, HandlerKnows DEF HandlerInv

LEMMA PlacingHolds ==
    ASSUME IInv, CarefulInv, NEW n \in DOMAIN nodes
    PROVE  StillPlacing(n) = Placing(n)
<1>1. ASSUME NEW r \in Placing(n) PROVE r \in StillPlacing(n)
  <2>1. r \in Rpcs /\ rpc[r].node = n /\ rpc[r].at \in {"register", "assign"}
    BY DEF Placing
  <2>2. r \in Submits
    BY <2>1, HandlerKnows DEF HandlerInv, SubmitPoints, Submits
  <2>3. ~Freed(r)
    BY <2>1, <2>2, OwnTask DEF Freed
  <2>4. QED
    BY <2>1, <2>2, <2>3 DEF StillPlacing, Holding
<1>2. QED
  BY <1>1 DEF StillPlacing, Placing, Holding, Submits

LEMMA SettledOccupy ==
    ASSUME IInv, CarefulInv, NEW n \in DOMAIN nodes, IsFiniteSet(Holds(n))
    PROVE  Cardinality(Occupying(n)) = Cardinality(Holds(n))
<1> DEFINE f == [r \in Holds(n) |-> rpc[r].id]
<1>1. ASSUME NEW r \in Holds(n)
      PROVE  r \in Submits /\ rpc[r].id \in Occupying(n) /\ rpc[r].id # None
  BY HolderKnows DEF Holds, Occupying
<1>2. f \in [Holds(n) -> Occupying(n)]
  BY <1>1
<1>3. ASSUME NEW r \in Holds(n), NEW s \in Holds(n), f[r] = f[s] PROVE r = s
  BY <1>1, <1>3, OneSubmit
<1>4. ASSUME NEW t \in Occupying(n) PROVE \E r \in Holds(n) : f[r] = t
  <2>1. /\ t \in TaskIds /\ tasks[t] # None /\ tasks[t].node = n
        /\ tasks[t].status # "canceled"
    BY DEF Occupying
  <2>2. PICK s \in Submits : rpc[s].id = t
    BY <2>1 DEF CarefulInv, TaskInv
  <2>3. n # None /\ t # None
    BY <2>1, HandlerKnows, ControlPlaneAssumption DEF IsNodeTable, Submits
  <2>4. rpc[s].at \notin {"register", "assign"} /\ rpc[s].node = n
    BY <2>1, <2>2, <2>3 DEF CarefulInv, SubmitInv
  <2>5. ~Freed(s)
    BY <2>1, <2>2 DEF Freed, CarefulInv, CancelInv
  <2>6. s \in Holds(n)
    BY <2>1, <2>2, <2>4, <2>5 DEF Holds, Holding
  <2>7. QED
    BY <2>2, <2>6
<1> HIDE DEF f
<1>5. QED
  BY <1>2, <1>3, <1>4, SameSize

LEMMA LeavingFree ==
    ASSUME IInv, CarefulInv, NEW n \in DOMAIN nodes, IsFiniteSet(Leaving(n))
    PROVE  Cardinality(Freeing(n)) = Cardinality(Leaving(n))
<1> DEFINE f == [r \in Leaving(n) |-> CHOOSE c \in Cancels : rpc[c].id = rpc[r].id]
<1>1. ASSUME NEW r \in Leaving(n)
      PROVE  /\ r \in Submits /\ rpc[r].id # None
             /\ f[r] \in Freeing(n) /\ rpc[f[r]].id = rpc[r].id
  <2>1. /\ r \in Submits /\ ~Freed(r) /\ rpc[r].id \in TaskIds /\ rpc[r].id # None
        /\ tasks[rpc[r].id] # None /\ tasks[rpc[r].id].node = n
        /\ tasks[rpc[r].id].status = "canceled"
    BY HolderKnows DEF Leaving
  <2>2. \E c \in Cancels : rpc[c].id = rpc[r].id
    BY <2>1 DEF CarefulInv, TaskInv
  <2>3. f[r] \in Cancels /\ rpc[f[r]].id = rpc[r].id
    BY <2>2
  <2>4. rpc[f[r]].at \in {"get", "release"}
    BY <2>1, <2>3 DEF Freed, CarefulInv, CancelInv
  <2> HIDE DEF f
  <2>5. QED
    BY <2>1, <2>3, <2>4 DEF Freeing, Cancels
<1>2. f \in [Leaving(n) -> Freeing(n)]
  BY <1>1
<1> HIDE DEF f
<1>3. ASSUME NEW r \in Leaving(n), NEW s \in Leaving(n), f[r] = f[s] PROVE r = s
  BY <1>1, <1>3, OneSubmit
<1>4. ASSUME NEW c \in Freeing(n) PROVE \E r \in Leaving(n) : f[r] = c
  <2>1. /\ c \in Cancels /\ rpc[c].at \in {"get", "release"} /\ CancelInv(c)
        /\ c \in Rpcs /\ tasks[rpc[c].id].node = n
    BY DEF Freeing, Cancels, CarefulInv
  <2>2. /\ rpc[c].id \in TaskIds /\ rpc[c].id # None /\ tasks[rpc[c].id] # None
        /\ tasks[rpc[c].id].status = "canceled"
    BY <2>1, HandlerKnows DEF CancelInv
  <2>3. PICK s \in Submits : rpc[s].id = rpc[c].id
    BY <2>2 DEF CarefulInv, TaskInv
  <2>4. rpc[s].at = "done" /\ rpc[s].node = n
    BY <2>1, <2>2, <2>3 DEF CancelInv, CarefulInv, SubmitInv
  <2>5. ~Freed(s)
    BY <2>1, <2>3 DEF Freed, CarefulInv
  <2>6. s \in Leaving(n)
    BY <2>2, <2>3, <2>4, <2>5 DEF Leaving, Holding
  <2>7. f[s] = c
    BY <1>1, <2>1, <2>3, <2>6 DEF CarefulInv, Freeing, Cancels
  <2>8. QED
    BY <2>6, <2>7
<1>5. QED
  BY <1>2, <1>3, <1>4, SameSize

LEMMA LoadsMatch ==
    ASSUME IInv, CarefulInv, LoadInv
    PROVE  SlotsMatchTasks
<1> SUFFICES ASSUME NEW n \in DOMAIN nodes
             PROVE  nodes[n].load = Cardinality(Placing(n)) + Cardinality(Occupying(n))
                                    + Cardinality(Freeing(n))
  BY DEF SlotsMatchTasks
<1> DEFINE A == StillPlacing(n)
           B == Holds(n)
           C == Leaving(n)
<1>1. /\ Holding(n) = (A \cup B) \cup C
      /\ A \cap B = {} /\ A \cap C = {} /\ B \cap C = {}
      /\ A \subseteq Rpcs /\ B \subseteq Rpcs /\ C \subseteq Rpcs
  BY DEF StillPlacing, Holds, Leaving, Holding, Submits
<1>2. /\ Cardinality(Placing(n)) = Cardinality(A)
      /\ IsFiniteSet(B) => Cardinality(Occupying(n)) = Cardinality(B)
      /\ IsFiniteSet(C) => Cardinality(Freeing(n)) = Cardinality(C)
  BY PlacingHolds, SettledOccupy, LeavingFree
<1> HIDE DEF A, B, C
<1>3. IsFiniteSet(A) /\ IsFiniteSet(B) /\ IsFiniteSet(C)
  BY <1>1, Countable
<1>4. Cardinality(Holding(n)) = Cardinality(A) + Cardinality(B) + Cardinality(C)
  BY <1>1, <1>3, ThreeParts
<1>5. QED
  BY <1>2, <1>3, <1>4 DEF LoadInv

(* server.rs submit_task and cancel_task over scheduler.rs place and       *)
(* release: while clients are careful, a node's load is the number of      *)
(* tasks placed, on it or on their way off it, however their steps meet.   *)
THEOREM LoadsMatchTasks == CarefulSpec => []SlotsMatchTasks
<1>1. IInv /\ CarefulInv /\ LoadInv => SlotsMatchTasks
  BY LoadsMatch
<1>2. QED
  BY <1>1, LoadInvariance, PTL
=============================================================================
