---------------------------- MODULE TaskRuntime -----------------------------
(***************************************************************************)
(* The tasks and channels of a running Dalin program                       *)
(* (runtime/src/interpreter.rs): spawn, spawn_task, await, channel, send   *)
(* and recv.  Every spawned function runs in a thread and an interpreter   *)
(* of its own; they share the task tree, the table of results to be        *)
(* awaited and the table of channels.                                      *)
(*                                                                         *)
(* A program is the text of its functions, reduced to the statements that  *)
(* touch what is shared; "main" is the top level.  A variable is looked up *)
(* in the environment a function closed over, a copy of its spawner's.     *)
(* Values are task handles or not: a handle can be sent, received, returned *)
(* and bound to a name; senders and closures that are sent are left out.   *)
(* The program ends with its main thread.                                  *)
(***************************************************************************)
EXTENDS Naturals, Sequences

CONSTANTS
    Fns,       \* names of functions annotated @ spawn
    Channels,  \* names of channels
    Programs,  \* the programs to run: bodies by function
    None,
    MaxTasks   \* bound on spawned tasks

Main == 0
Tasks == 0 .. MaxTasks
Bodies == Fns \cup {"main"}
(* with: the name of the value that is sent or returned, and the name that *)
(* the value of an await or a recv is bound to.                            *)
Stmt == [op : {"spawn"}, name : Fns, with : {None}]
          \cup [op : {"await"}, name : Fns, with : {None} \cup Fns]
          \cup [op : {"channel"}, name : Channels, with : {None}]
          \cup [op : {"send", "recv"}, name : Channels, with : {None} \cup Fns]
          \cup [op : {"return"}, name : {None}, with : {None} \cup Fns]

ASSUME RuntimeAssumption ==
    /\ MaxTasks \in Nat
    /\ Programs \subseteq [Bodies -> Seq(Stmt)]

VARIABLES
    prog,      \* the program that runs
    seq,       \* TASK_SEQ: tasks spawned so far
    task,      \* the threads, by task id
    parent,    \* task_tree
    results,   \* task_results: the tasks nobody has awaited yet
    outcome,   \* what a task's thread has sent to its result channel
    registry,  \* channel_registry: the channel a name stands for
    chans,     \* the channels made: messages waiting
    log        \* history: all messages of a channel; who got which result

vars == <<prog, seq, task, parent, results, outcome, registry, chans, log>>

(* env: the handles and senders a task can name, None for a name that      *)
(* stands for no task; waits: the task or channel it waits for.            *)
NoEnv == [handle |-> [f \in Fns |-> None], sender |-> [c \in Channels |-> None]]
Thread(fn, env) == [fn |-> fn, pc |-> 1, env |-> env, at |-> "run", waits |-> None]
Absent == [Thread("main", NoEnv) EXCEPT !.at = "absent"]

Handle == {None} \cup Nat
Env == [handle : [Fns -> Handle], sender : [Channels -> {None} \cup Nat]]
Task == [fn : Bodies, pc : Nat \ {0}, env : Env, waits : {None} \cup Nat,
         at : {"absent", "run", "await", "lock", "recv", "done"}]
Message == Tasks \X Nat \X Handle   \* by whom, at which statement, and what
Value == {None} \cup Tasks \X Handle
Log == [sent : Seq(Seq(Message)), received : Seq(Seq(Message)),
        awaited : SUBSET (Tasks \X Nat \X Tasks \X Value)]

(* A task waits for a task that was spawned or a channel that was made.    *)
WaitsFor(thread) ==
    CASE thread.at = "await"            -> thread.waits \in 1 .. seq
      [] thread.at \in {"lock", "recv"} -> thread.waits \in DOMAIN chans
      [] OTHER                          -> thread.waits = None

TypeOK ==
    /\ prog \in Programs
    /\ seq \in 0 .. MaxTasks
    /\ task \in [Tasks -> Task]
    /\ \A t \in Tasks : (task[t].at = "absent") = (t > seq) /\ WaitsFor(task[t])
    /\ DOMAIN parent = 1 .. seq
    /\ \A t \in DOMAIN parent : parent[t] \in 0 .. (t - 1)
    /\ results \subseteq 1 .. seq
    /\ outcome \in [Tasks -> Seq(Value)]
    /\ \A c \in Channels : registry[c] \in {None} \cup DOMAIN chans
    /\ DOMAIN registry = Channels
    /\ chans \in Seq(Seq(Message))
    /\ log \in Log

Init ==
    /\ prog \in Programs
    /\ seq = 0
    /\ task = [t \in Tasks |-> IF t = Main THEN Thread("main", NoEnv) ELSE Absent]
    /\ parent = [t \in {} |-> Main]
    /\ results = {}
    /\ outcome = [t \in Tasks |-> <<>>]
    /\ registry = [c \in Channels |-> None]
    /\ chans = <<>>
    /\ log = [sent |-> <<>>, received |-> <<>>, awaited |-> {}]

-----------------------------------------------------------------------------
Over == task[Main].at = "done"
Current(t) == prog[task[t].fn][task[t].pc]
AtStmt(t, op) ==
    /\ ~Over
    /\ task[t].at = "run"
    /\ task[t].pc <= Len(prog[task[t].fn])
    /\ Current(t).op = op

Advance(thread) == [thread EXCEPT !.pc = @ + 1, !.at = "run", !.waits = None]
Wait(thread, at, what) == [thread EXCEPT !.at = at, !.waits = what]
Bind(thread, f, h) == IF f = None THEN thread ELSE [thread EXCEPT !.env.handle[f] = h]

(* The value a statement sends or returns, and the handle a result holds.  *)
Named(t) == IF Current(t).with = None THEN None ELSE task[t].env.handle[Current(t).with]
Given(value) == IF value = None THEN None ELSE value[2]

(* A name that stands for no task stands for another value or for none.    *)
MayBeUnbound(t) == Current(t).with # None /\ Named(t) = None

(* Mutant of Finished: an error is not reported to the awaiting task.      *)
FinishedSilently(t, value) ==
    /\ task' = [task EXCEPT ![t].at = "done", ![t].waits = None]
    /\ outcome' = IF value = None THEN outcome ELSE [outcome EXCEPT ![t] = <<value>>]
    /\ UNCHANGED <<prog, seq, parent, results, registry, chans, log>>

(* call_function returns and the thread sends what it returned; an error   *)
(* is sent as none.  The main thread just ends.                            *)
Finished(t, value) ==
    /\ task' = [task EXCEPT ![t].at = "done", ![t].waits = None]
    /\ outcome' = [outcome EXCEPT ![t] = <<value>>]
    /\ UNCHANGED <<prog, seq, parent, results, registry, chans, log>>

Fail(t) == Finished(t, None)

Return(t) ==
    /\ AtStmt(t, "return")
    /\ \/ Finished(t, <<t, Named(t)>>)
       \/ MayBeUnbound(t) /\ Fail(t)

FallOff(t) ==
    /\ ~Over
    /\ task[t].at = "run" /\ task[t].pc > Len(prog[task[t].fn])
    /\ Finished(t, None)

(* The closure is made before the handle is bound: a task cannot name      *)
(* itself, nor what its spawner binds later.                               *)
ChildEnv(t) == task[t].env

(* The tree, then the table of results, then the thread; nobody knows the  *)
(* id before the last of the three.                                        *)
Spawn(t) ==
    /\ AtStmt(t, "spawn")
    /\ seq < MaxTasks
    /\ LET id == seq + 1
           f  == Current(t).name IN
       /\ seq' = id
       /\ parent' = [i \in DOMAIN parent \cup {id} |-> IF i = id THEN t ELSE parent[i]]
       /\ results' = results \cup {id}
       /\ task' = [task EXCEPT ![id] = Thread(f, ChildEnv(t)),
                               ![t] = Advance([@ EXCEPT !.env.handle[f] = id])]
    /\ UNCHANGED <<prog, outcome, registry, chans, log>>

(* Mutant of AwaitTake: the receiver stays in the table.                   *)
AwaitPeek(t) ==
    /\ AtStmt(t, "await")
    /\ LET id == task[t].env.handle[Current(t).name] IN
       \/ /\ id # None /\ id \in results
          /\ task' = [task EXCEPT ![t] = Wait(@, "await", id)]
          /\ UNCHANGED <<prog, seq, parent, results, outcome, registry, chans, log>>
       \/ id \notin results /\ Fail(t)

(* await takes the receiver out of the table: a second await, or one of an *)
(* unbound name, is an error.                                              *)
AwaitTake(t) ==
    /\ AtStmt(t, "await")
    /\ LET id == task[t].env.handle[Current(t).name] IN
       \/ /\ id # None /\ id \in results
          /\ results' = results \ {id}
          /\ task' = [task EXCEPT ![t] = Wait(@, "await", id)]
          /\ UNCHANGED <<prog, seq, parent, outcome, registry, chans, log>>
       \/ id \notin results /\ Fail(t)

(* and then blocks until the task's thread has sent.                       *)
AwaitGet(t) ==
    /\ ~Over /\ task[t].at = "await"
    /\ LET id == task[t].waits IN
       /\ outcome[id] # <<>>
       /\ log' = [log EXCEPT !.awaited = @ \cup {<<t, task[t].pc, id, outcome[id][1]>>}]
       /\ task' = [task EXCEPT ![t] =
                      Advance(Bind(@, Current(t).with, Given(outcome[id][1])))]
    /\ UNCHANGED <<prog, seq, parent, results, outcome, registry, chans>>

-----------------------------------------------------------------------------
(* A receiver lives in the table or in the hands of a task that uses it,   *)
(* and what waits in a channel is lost with its receiver.                  *)
HasReceiver(id) ==
    \/ \E c \in Channels : registry[c] = id
    \/ \E t \in Tasks : task[t].at \in {"lock", "recv"} /\ task[t].waits = id

(* Mutant of LeavesWaiting: the table alone owns the receiver, and a task  *)
(* that is about to receive does not keep it.                              *)
LeavesRegistered(queues) ==
    chans' = [id \in DOMAIN queues |->
                IF \E c \in Channels : registry'[c] = id THEN queues[id] ELSE <<>>]

LeavesWaiting(queues) ==
    chans' = [id \in DOMAIN queues |-> IF HasReceiver(id)' THEN queues[id] ELSE <<>>]

(* channel: a new channel under a name, which may have stood for another.  *)
Channel(t) ==
    /\ AtStmt(t, "channel")
    /\ LET c == Current(t).name
           id == Len(chans) + 1 IN
       /\ log' = [log EXCEPT !.sent = Append(@, <<>>), !.received = Append(@, <<>>)]
       /\ registry' = [registry EXCEPT ![c] = id]
       /\ task' = [task EXCEPT ![t] = Advance([@ EXCEPT !.env.sender[c] = id])]
    /\ LeavesWaiting(Append(chans, <<>>))
    /\ UNCHANGED <<prog, seq, parent, results, outcome>>

(* A channel is closed when no running task can name a sender of it.       *)
Closed(id) ==
    \A t \in Tasks : task[t].at \notin {"absent", "done"} =>
        \A c \in Channels : task[t].env.sender[c] # id

(* send: any value, to a channel that has a receiver.                      *)
Send(t) ==
    /\ AtStmt(t, "send")
    /\ LET id == task[t].env.sender[Current(t).name]
           m  == <<t, task[t].pc, Named(t)>> IN
       \/ /\ id # None /\ HasReceiver(id)
          /\ chans' = [chans EXCEPT ![id] = Append(@, m)]
          /\ log' = [log EXCEPT !.sent[id] = Append(@, m)]
          /\ task' = [task EXCEPT ![t] = Advance(@)]
          /\ UNCHANGED <<prog, seq, parent, results, outcome, registry>>
       \/ (IF id = None THEN TRUE ELSE ~HasReceiver(id)) /\ Fail(t)
       \/ MayBeUnbound(t) /\ Fail(t)

(* recv: the name is looked up now, whatever channel it stood for when it  *)
(* was declared; it must be a name the task knows.                         *)
RecvFind(t) ==
    /\ AtStmt(t, "recv")
    /\ LET c == Current(t).name IN
       \/ /\ task[t].env.sender[c] # None
          /\ task' = [task EXCEPT ![t] = Wait(@, "lock", registry[c])]
          /\ UNCHANGED <<prog, seq, parent, results, outcome, registry, chans, log>>
       \/ task[t].env.sender[c] = None /\ Fail(t)

(* The receiver's mutex is held while recv blocks.                         *)
RecvLock(t) ==
    /\ ~Over /\ task[t].at = "lock"
    /\ \A u \in Tasks : task[u].at = "recv" => task[u].waits # task[t].waits
    /\ task' = [task EXCEPT ![t].at = "recv"]
    /\ UNCHANGED <<prog, seq, parent, results, outcome, registry, chans, log>>

(* A message, or none from a channel that is empty and closed.             *)
RecvGet(t) ==
    /\ ~Over /\ task[t].at = "recv"
    /\ UNCHANGED <<prog, seq, parent, results, outcome, registry>>
    /\ LET id == task[t].waits
           Got(h) == task' = [task EXCEPT ![t] = Advance(Bind(@, Current(t).with, h))] IN
       \/ /\ chans[id] # <<>>
          /\ Got(Head(chans[id])[3])
          /\ log' = [log EXCEPT !.received[id] = Append(@, Head(chans[id]))]
          /\ LeavesWaiting([chans EXCEPT ![id] = Tail(@)])
       \/ chans[id] = <<>> /\ Closed(id) /\ Got(None) /\ UNCHANGED <<chans, log>>

Step(t) ==
    \/ Return(t) \/ FallOff(t)
    \/ Spawn(t) \/ AwaitTake(t) \/ AwaitGet(t)
    \/ Channel(t) \/ Send(t) \/ RecvFind(t) \/ RecvLock(t) \/ RecvGet(t)

Next == \E t \in Tasks : Step(t)

(* The operating system runs every thread.                                 *)
Spec == Init /\ [][Next]_vars /\ \A t \in Tasks : WF_vars(Step(t))

-----------------------------------------------------------------------------
(* A result is handed to one await only, and it is what the task returned: *)
(* its value if it reached a return, none if it failed or fell off.        *)
AwaitedOnce ==
    \A a, b \in log.awaited :
        /\ a[3] = b[3] => a = b
        /\ outcome[a[3]] = <<a[4]>>

(* The n-th message received from a channel is the n-th that was sent to   *)
(* it, however many tasks send and receive, and nothing between is lost as *)
(* long as its receiver lives: in the table, or, when its name has come to *)
(* stand for another channel, in the hands of a task about to receive.     *)
ChannelKeepsOrder ==
    \A c \in DOMAIN chans :
        /\ \A n \in DOMAIN log.received[c] :
              n \in DOMAIN log.sent[c] /\ log.received[c][n] = log.sent[c][n]
        /\ HasReceiver(c) => log.received[c] \o chans[c] = log.sent[c]

(* A program without channels always ends: a task can only wait for a task *)
(* that was spawned before it, by itself or below it, or whose handle such *)
(* a task returned, so no tasks wait for each other, and a task that fails *)
(* still wakes who awaits it.                                              *)
UsesChannels(p) ==
    \E f \in Bodies : \E n \in DOMAIN p[f] : p[f][n].op \in {"channel", "send", "recv"}
AwaitsEnd == ~UsesChannels(prog) ~> Over
=============================================================================
