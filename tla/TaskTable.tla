----------------------------- MODULE TaskTable ------------------------------
(***************************************************************************)
(* What every task store promises (the trait TaskStore in                  *)
(* control-plane/src/store.rs), whatever keeps the records and however     *)
(* many control planes write them: a task is created once, for one key, is *)
(* never removed and never changes its key.  Only a store that answers     *)
(* register in one step also keeps one task per key (OneTaskPerKey).       *)
(***************************************************************************)
CONSTANTS Ids, Keys, Statuses, Nodes, None, OneTaskPerKey

VARIABLE tasks

Task == [key : Keys, status : Statuses, node : Nodes \cup {None}]

Init == tasks = [i \in Ids |-> None]

Create(i, k) ==
    /\ tasks[i] = None
    /\ OneTaskPerKey => \A j \in Ids : tasks[j] # None => tasks[j].key # k
    /\ tasks' = [tasks EXCEPT ![i] = [key |-> k, status |-> "queued", node |-> None]]

Update(i, s, n) ==
    /\ tasks[i] # None
    /\ tasks' = [tasks EXCEPT ![i] = [key |-> tasks[i].key, status |-> s, node |-> n]]

Next ==
    \E i \in Ids :
        \/ \E k \in Keys : Create(i, k)
        \/ \E s \in Statuses, n \in Nodes \cup {None} : Update(i, s, n)

Spec == Init /\ [][Next]_tasks
=============================================================================
