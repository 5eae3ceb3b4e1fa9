----------------------------- MODULE TaskStores -----------------------------
(***************************************************************************)
(* The distributed task stores of the control plane: Redis                 *)
(* (store_redis.rs), etcd (store_etcd.rs) and Postgres (store_postgres.rs),*)
(* chosen by store_factory.rs.                                             *)
(*                                                                         *)
(* Several servers share one remote store.  Every await on it is a step,   *)
(* so the calls of all servers interleave; a request may be lost, and a    *)
(* server may stop between two of its requests and start again.  The       *)
(* remote store itself executes one request at a time.  The fields of a    *)
(* record that no operation reads (name, effect, capability, time) are     *)
(* left out.                                                               *)
(***************************************************************************)
EXTENDS Naturals, Sequences

CONSTANTS
    Backends,   \* the stores TASK_STORE may name
    Servers,    \* control planes that share the store
    Callers,    \* concurrent calls
    ServerOf,   \* the server a caller calls
    Keys,       \* (parent, idempotency key) pairs
    ChildKeys,  \* those with a parent
    Statuses,   \* what set_status is called with
    Nodes,      \* what assign_node is called with
    None,
    MaxTasks,   \* bound on the ids a behaviour may mint
    MaxCalls,   \* bound on the calls of a behaviour
    MaxFaults   \* bound on lost requests, lost subscriptions and restarts

Ids == 1 .. MaxTasks
Status == {"queued", "canceled"} \cup Statuses
Task == [key : Keys, status : Status, node : Nodes \cup {None}]

ASSUME StoresAssumption ==
    /\ Backends \subseteq {"redis", "etcd", "postgres"}
    /\ MaxTasks \in Nat /\ MaxCalls \in Nat /\ MaxFaults \in Nat
    /\ ServerOf \in [Callers -> Servers]
    /\ ChildKeys \subseteq Keys
    /\ None \notin Keys /\ None \notin Nodes /\ None \notin Status
    /\ None \notin Ids /\ None \notin Task

VARIABLES
    backend,  \* which store build_task_store made
    tasks,    \* the records: "<prefix>:task:<id>" or the rows of the table
    idem,     \* "<prefix>:idem:<parent>/<key>"
    kids,     \* ids in the children index of their parent
    all,      \* ids in the index of all tasks
    minted,   \* ids made so far
    call,     \* the calls in flight: where they are and what they hold
    left,     \* calls that may still be made
    wire,     \* published events a server's subscriber has not read
    deaf,     \* servers whose subscriber has ended
    heard,    \* how often a server's watchers were told a task is submitted
    lost,     \* history: ids whose record was not written
    faults    \* history: faults so far

remote == <<tasks, idem, kids, all, minted>>
events == <<wire, deaf, heard>>
vars == <<backend, remote, call, left, events, lost, faults>>

Indexed == backend # "postgres"

Ops == {"register", "set_status", "assign_node", "cancel"}
Points == {"idle", "lookup", "fetch", "create", "index", "children", "listing",
           "publish", "tell", "read", "write", "done"}

(* known: history, the task the key had when the call began; made: this    *)
(* call made its id; hit: one of its requests was lost.                    *)
Call == [op : Ops \cup {None}, at : Points, key : Keys \cup {None},
         id : Ids \cup {None}, copy : Task \cup {None},
         arg : Status \cup Nodes \cup {None},
         known : BOOLEAN, made : BOOLEAN, hit : BOOLEAN]

NewCall(op, at, key, id, arg, known) ==
    [op |-> op, at |-> at, key |-> key, id |-> id, copy |-> None, arg |-> arg,
     known |-> known, made |-> FALSE, hit |-> FALSE]
IdleCall == NewCall(None, "idle", None, None, None, FALSE)

Event == [origin : Servers, kind : {"submitted", "changed", "canceled"}, id : Ids]

TypeOK ==
    /\ backend \in Backends
    /\ tasks \in [Ids -> Task \cup {None}]
    /\ idem \in [Keys -> Ids \cup {None}]
    /\ kids \subseteq Ids /\ all \subseteq Ids /\ lost \subseteq Ids
    /\ minted \in 0 .. MaxTasks
    /\ call \in [Callers -> Call]
    /\ left \in 0 .. MaxCalls
    /\ wire \in [Servers -> Seq(Event)]
    /\ deaf \subseteq Servers
    /\ heard \in [Servers -> [Ids -> Nat]]
    /\ faults \in 0 .. MaxFaults

Init ==
    /\ backend \in Backends
    /\ tasks = [i \in Ids |-> None]
    /\ idem = [k \in Keys |-> None]
    /\ kids = {} /\ all = {} /\ lost = {}
    /\ minted = 0 /\ faults = 0
    /\ call = [c \in Callers |-> IdleCall]
    /\ left = MaxCalls
    /\ wire = [s \in Servers |-> <<>>]
    /\ deaf = {}
    /\ heard = [s \in Servers |-> [i \in Ids |-> 0]]

-----------------------------------------------------------------------------
(* What a lookup of the key answers: the index entry, or any row with the  *)
(* key; nothing promises that there is only one.                           *)
Found(k) ==
    IF Indexed THEN {idem[k]} \ {None}
    ELSE {i \in Ids : tasks[i] # None /\ tasks[i].key = k}

Stored(i) == i # None /\ tasks[i] # None

(* children_of and list: the ids of the index whose record can be read; of *)
(* Postgres, the rows.                                                     *)
Listed(index) == {i \in Ids : tasks[i] # None /\ (Indexed => i \in index)}

(* A finished register keeps its answer; of the other calls nothing is      *)
(* asked afterwards.                                                       *)
At(record, point) ==
    IF point = "done" /\ record.op # "register" THEN IdleCall
    ELSE [record EXCEPT !.at = point]

Goto(c, point) == call' = [call EXCEPT ![c] = At(@, point)]

(* A call begins.  An id comes from an earlier answer.                     *)
Begin(c, record) ==
    /\ call[c].at \in {"idle", "done"}
    /\ left > 0
    /\ left' = left - 1
    /\ call' = [call EXCEPT ![c] = record]
    /\ UNCHANGED <<backend, remote, events, lost, faults>>

CallRegister(c, k) ==
    Begin(c, NewCall("register", "lookup", k, None, None, \E i \in Found(k) : Stored(i)))

CallOn(c, i, op, arg) ==
    /\ i <= minted
    /\ Begin(c, NewCall(op, "read", None, i, arg, FALSE))

(* register: look the key up, then read the record it names.               *)
Lookup(c) ==
    /\ call[c].at = "lookup"
    /\ \/ \E i \in Found(call[c].key) :
             call' = [call EXCEPT ![c] = At([@ EXCEPT !.id = i], "fetch")]
       \/ Found(call[c].key) = {} /\ Goto(c, "create")
    /\ UNCHANGED <<backend, remote, left, events, lost, faults>>

(* Mutant of Fetch: a task that left the queue is not reused.              *)
FetchQueuedOnly(c) ==
    /\ call[c].at = "fetch"
    /\ Goto(c, IF Stored(call[c].id) /\ tasks[call[c].id].status = "queued"
               THEN "done" ELSE "create")
    /\ UNCHANGED <<backend, remote, left, events, lost, faults>>

Fetch(c) ==
    /\ call[c].at = "fetch"
    /\ Goto(c, IF Stored(call[c].id) THEN "done" ELSE "create")
    /\ UNCHANGED <<backend, remote, left, events, lost, faults>>

(* A new id; its record is written first.                                  *)
Minted(record) ==
    At([record EXCEPT !.id = minted + 1, !.made = TRUE], IF Indexed THEN "index" ELSE "tell")

(* Mutant of Create: the indexes are written before the record.            *)
CreateIndexFirst(c) ==
    /\ call[c].at = "create"
    /\ minted < MaxTasks
    /\ minted' = minted + 1
    /\ call' = [call EXCEPT ![c] = Minted(@)]
    /\ UNCHANGED <<backend, tasks, idem, kids, all, left, events, lost, faults>>

Create(c) ==
    /\ call[c].at = "create"
    /\ minted < MaxTasks
    /\ minted' = minted + 1
    /\ tasks' = [tasks EXCEPT ![minted + 1] =
                    [key |-> call[c].key, status |-> "queued", node |-> None]]
    /\ call' = [call EXCEPT ![c] = Minted(@)]
    /\ UNCHANGED <<backend, idem, kids, all, left, events, lost, faults>>

(* The key, the children of the parent if there is one, the list of all.   *)
PutIndex(c) ==
    /\ call[c].at = "index"
    /\ idem' = [idem EXCEPT ![call[c].key] = call[c].id]
    /\ Goto(c, IF call[c].key \in ChildKeys THEN "children" ELSE "listing")
    /\ UNCHANGED <<backend, tasks, kids, all, minted, left, events, lost, faults>>

PutChild(c) ==
    /\ call[c].at = "children"
    /\ kids' = kids \cup {call[c].id}
    /\ Goto(c, "listing")
    /\ UNCHANGED <<backend, tasks, idem, all, minted, left, events, lost, faults>>

PutListing(c) ==
    /\ call[c].at = "listing"
    /\ all' = all \cup {call[c].id}
    /\ Goto(c, "publish")
    /\ UNCHANGED <<backend, tasks, idem, kids, minted, left, events, lost, faults>>

(* get_record, the first half of set_status, assign_node and cancel.       *)
Read(c) ==
    /\ call[c].at = "read"
    /\ \/ /\ Stored(call[c].id)
          /\ call' = [call EXCEPT ![c] = At([@ EXCEPT !.copy = tasks[call[c].id]], "write")]
       \/ ~Stored(call[c].id) /\ Goto(c, "done")
    /\ UNCHANGED <<backend, remote, left, events, lost, faults>>

(* The record with the one field changed that the operation is about.      *)
Changed(c, record) ==
    CASE call[c].op = "assign_node" -> [record EXCEPT !.node = call[c].arg]
      [] call[c].op = "cancel"      -> [record EXCEPT !.status = "canceled"]
      [] call[c].op = "set_status"  -> [record EXCEPT !.status = call[c].arg]

AfterWrite(c) ==
    IF call[c].op = "assign_node" THEN "done" ELSE IF Indexed THEN "publish" ELSE "tell"

(* Mutant of Write: an UPDATE of the whole row.                            *)
WriteWhole(c) ==
    /\ call[c].at = "write"
    /\ tasks' = [tasks EXCEPT ![call[c].id] = Changed(c, call[c].copy)]
    /\ Goto(c, AfterWrite(c))
    /\ UNCHANGED <<backend, idem, kids, all, minted, left, events, lost, faults>>

(* Mutant of Write: a cancel deletes the record.                           *)
WriteDeletes(c) ==
    /\ call[c].at = "write"
    /\ tasks' = [tasks EXCEPT ![call[c].id] =
                    IF call[c].op = "cancel" THEN None ELSE Changed(c, call[c].copy)]
    /\ Goto(c, AfterWrite(c))
    /\ UNCHANGED <<backend, idem, kids, all, minted, left, events, lost, faults>>

(* The second half: Redis and etcd write back the whole copy, Postgres     *)
(* updates one column.                                                     *)
Write(c) ==
    /\ call[c].at = "write"
    /\ tasks' = [tasks EXCEPT ![call[c].id] =
                    Changed(c, IF Indexed THEN call[c].copy ELSE @)]
    /\ Goto(c, AfterWrite(c))
    /\ UNCHANGED <<backend, idem, kids, all, minted, left, events, lost, faults>>

-----------------------------------------------------------------------------
(* publish_event: first to the other servers, then to the own watchers.    *)
EventOf(c) ==
    [origin |-> ServerOf[c], id |-> call[c].id,
     kind |-> CASE call[c].op = "register" -> "submitted"
                [] call[c].op = "cancel" -> "canceled"
                [] OTHER -> "changed"]

Tell(s, ev) ==
    heard' = IF ev.kind = "submitted" THEN [heard EXCEPT ![s][ev.id] = @ + 1] ELSE heard

(* Mutant of Publish: only the own watchers are told.                      *)
PublishNowhere(c) ==
    /\ call[c].at = "publish"
    /\ Goto(c, "tell")
    /\ UNCHANGED <<backend, remote, left, events, lost, faults>>

Publish(c) ==
    /\ call[c].at = "publish"
    /\ wire' = [s \in Servers |-> IF s \in deaf THEN wire[s]
                                                ELSE Append(wire[s], EventOf(c))]
    /\ Goto(c, "tell")
    /\ UNCHANGED <<backend, remote, left, deaf, heard, lost, faults>>

TellOwn(c) ==
    /\ call[c].at = "tell"
    /\ Tell(ServerOf[c], EventOf(c))
    /\ Goto(c, "done")
    /\ UNCHANGED <<backend, remote, left, wire, deaf, lost, faults>>

(* Mutant of Deliver: a server's own events are forwarded too.             *)
DeliverEcho(s) ==
    /\ wire[s] # <<>> /\ s \notin deaf
    /\ Tell(s, Head(wire[s]))
    /\ wire' = [wire EXCEPT ![s] = Tail(@)]
    /\ UNCHANGED <<backend, remote, call, left, deaf, lost, faults>>

(* The subscriber: what this server did not publish goes to its watchers.  *)
Deliver(s) ==
    /\ wire[s] # <<>> /\ s \notin deaf
    /\ IF Head(wire[s]).origin # s THEN Tell(s, Head(wire[s])) ELSE UNCHANGED heard
    /\ wire' = [wire EXCEPT ![s] = Tail(@)]
    /\ UNCHANGED <<backend, remote, call, left, deaf, lost, faults>>

-----------------------------------------------------------------------------
(* Faults.  A lost request changes nothing at the store: a read then       *)
(* answers as if nothing were there, and no write looks at its result.     *)
Fault == faults < MaxFaults /\ faults' = faults + 1

Skipped(c) ==
    CASE call[c].at \in {"lookup", "fetch"} -> "create"
      [] call[c].at = "read" -> "done"
      [] call[c].at = "index" /\ call[c].key \in ChildKeys -> "children"
      [] call[c].at \in {"index", "children"} -> "listing"
      [] call[c].at = "listing" -> "publish"
      [] call[c].at = "publish" -> "tell"
      [] call[c].at = "write" -> AfterWrite(c)

LoseRequest(c) ==
    /\ Fault
    /\ call[c].at \in {"lookup", "fetch", "read", "index", "children", "listing",
                       "publish", "write"}
    /\ call' = [call EXCEPT ![c] = At([@ EXCEPT !.hit = TRUE], Skipped(c))]
    /\ UNCHANGED <<backend, remote, left, events, lost>>

LoseRecord(c) ==
    /\ Fault
    /\ call[c].at = "create"
    /\ minted < MaxTasks
    /\ minted' = minted + 1
    /\ lost' = lost \cup {minted + 1}
    /\ call' = [call EXCEPT ![c] = Minted([@ EXCEPT !.hit = TRUE])]
    /\ UNCHANGED <<backend, tasks, idem, kids, all, left, events>>

(* The subscriber task ends and nothing starts it again.                   *)
Deafen(s) ==
    /\ Fault /\ Indexed /\ s \notin deaf
    /\ deaf' = deaf \cup {s}
    /\ UNCHANGED <<backend, remote, call, left, wire, heard, lost>>

(* A server stops: its calls end where they are, its subscription is gone. *)
(* When it is back it hears only what is published from then on.           *)
Restart(s) ==
    /\ Fault
    /\ call' = [c \in Callers |-> IF ServerOf[c] = s THEN IdleCall ELSE call[c]]
    /\ wire' = [wire EXCEPT ![s] = <<>>]
    /\ deaf' = deaf \ {s}
    /\ UNCHANGED <<backend, remote, left, heard, lost>>

Register(c) ==
    \/ Lookup(c) \/ Fetch(c) \/ Create(c)
    \/ PutIndex(c) \/ PutChild(c) \/ PutListing(c)

Step(c) == Register(c) \/ Read(c) \/ Write(c) \/ Publish(c) \/ TellOwn(c)

Next ==
    \/ \E c \in Callers :
          \/ \E k \in Keys : CallRegister(c, k)
          \/ \E i \in Ids :
                \/ \E s \in Statuses : CallOn(c, i, "set_status", s)
                \/ \E n \in Nodes : CallOn(c, i, "assign_node", n)
                \/ CallOn(c, i, "cancel", None)
          \/ Step(c)
          \/ LoseRequest(c) \/ LoseRecord(c)
    \/ \E s \in Servers : Deliver(s) \/ Deafen(s) \/ Restart(s)

(* The runtime polls every call and every subscriber.                      *)
Spec ==
    /\ Init
    /\ [][Next]_vars
    /\ \A c \in Callers : WF_vars(Step(c))
    /\ \A s \in Servers : WF_vars(Deliver(s))

-----------------------------------------------------------------------------
(* register keeps its word whatever the other servers do meanwhile, unless *)
(* a request of this very call was lost: a key whose task could be found   *)
(* when the call began gets no second task (unless a record was lost: its  *)
(* id, written over the key later, hides the task), and a task the call    *)
(* made is found afterwards in the list and among its parent's children.   *)
SettledKeyIsReused(c) == call[c].known /\ lost = {} => ~call[c].made
AnswerIsListed(c) ==
    call[c].at = "done" /\ call[c].made
    => /\ call[c].id \in Listed(all)
       /\ call[c].key \in ChildKeys => call[c].id \in Listed(kids)
RegisterKeepsItsWord ==
    \A c \in Callers : ~call[c].hit => SettledKeyIsReused(c) /\ AnswerIsListed(c)

(* Whatever names a task (the key index, the children, the list, an event  *)
(* on its way) names one that can be read, unless the write of its record  *)
(* was lost: the record is always written first.                           *)
ReferencesAreStored ==
    \A i \in Ids :
        \/ Stored(i) \/ i \in lost
        \/ /\ i \notin kids \cup all
           /\ \A k \in Keys : idem[k] # i
           /\ \A s \in Servers : \A n \in DOMAIN wire[s] : wire[s][n].id # i

(* No watcher is told twice that a task was submitted, neither by an echo  *)
(* of its own server's event nor by a retried call.                        *)
SubmittedOnce == \A s \in Servers, i \in Ids : heard[s][i] <= 1

(* Without a fault every server hears of every task another one registers. *)
SubmittedIsHeard ==
    \A i \in Ids :
        Indexed /\ Stored(i) ~> (\A s \in Servers : heard[s][i] = 1) \/ faults > 0

(* Postgres updates one column at a time: no status change or cancel, with *)
(* whatever delay, takes back a node that was assigned.  (Redis and etcd   *)
(* do not promise that.)                                                   *)
PostgresKeepsNode ==
    [][\A i \in Ids :
          backend = "postgres" /\ Stored(i) /\ tasks[i].node # None
          => tasks'[i].node # None]_vars

(* The shared table, whatever the interleaving and the faults, is a        *)
(* TaskTable.                                                              *)
Table == INSTANCE TaskTable WITH Statuses <- Status, OneTaskPerKey <- FALSE
IsTaskTable == Table!Spec

(* TaskStore::register (store.rs): the same (parent, idempotency key)      *)
(* returns the existing record.  Checked where no request is lost.         *)
OneTaskPerKey ==
    \A i, j \in Ids :
        Stored(i) /\ Stored(j) /\ tasks[i].key = tasks[j].key => i = j
=============================================================================
